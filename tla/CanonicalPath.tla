--------------------------- MODULE CanonicalPath ----------------------------
(***************************************************************************)
(* The canonical form of a request path, as the doc comment of CleanPath   *)
(* (path.go:7-20) gives it, independently of how the code computes it.     *)
(*                                                                         *)
(* A path is read as a stack of elements, on which "" and "." do nothing   *)
(* and ".." pops, and the element behind it that is still being read.      *)
(***************************************************************************)
EXTENDS Naturals, Sequences

AllButLast(s) == SubSeq(s, 1, Len(s) - 1)

NothingRead == [stack |-> <<>>, element |-> <<>>]

\* The stack once the element being read has ended.
Stacked(s) ==
    IF s.element \in {<<>>, <<".">>} THEN s.stack
    ELSE IF s.element # <<".", ".">> THEN Append(s.stack, s.element)
    ELSE IF s.stack = <<>> THEN <<>> ELSE AllButLast(s.stack)

\* One more byte: a '/' ends the element, any other byte belongs to it.
AfterByte(s, c) ==
    IF c = "/" THEN [stack |-> Stacked(s), element |-> <<>>]
    ELSE [stack |-> s.stack, element |-> Append(s.element, c)]

After[q \in Seq(STRING)] ==
    IF q = <<>> THEN NothingRead ELSE AfterByte(After[AllButLast(q)], q[Len(q)])

Elements(q) == Stacked(After[q])

Joined[stack \in Seq(Seq(STRING))] ==
    IF stack = <<>> THEN <<>>
    ELSE Joined[AllButLast(stack)] \o <<"/">> \o stack[Len(stack)]

\* The path of these elements, without a slash at the end.
Spelled(stack) == IF stack = <<>> THEN <<"/">> ELSE Joined[stack]

EndsInSlash(q) == LET k == Len(q) IN
    k > 0 /\ (q[k] = "/" \/ (q[k] = "." /\ (k = 1 \/ q[k - 1] = "/")))

Cleaned(q) ==
    LET stack == Elements(q)
    IN  Spelled(stack) \o (IF stack # <<>> /\ EndsInSlash(q) THEN <<"/">> ELSE <<>>)
=============================================================================
