----------------------------- MODULE CleanPath ------------------------------
(***************************************************************************)
(* CleanPath of internal/httprouter/path.go, one action per case of the    *)
(* loop's switch.  Positions count from 1, so r and w are the code's       *)
(* indices plus one: the next byte to read and the next one to write.      *)
(*                                                                         *)
(* `buf' is the lazily allocated buffer: the empty sequence as long as     *)
(* what was written equals a prefix of the input, then a sequence of the   *)
(* input's length (one more when the path has no leading '/').             *)
(***************************************************************************)
EXTENDS CanonicalPath

CONSTANTS Bytes,     \* the bytes of paths, "/" and "." among them
          Inputs     \* the paths that are cleaned

ASSUME InputsArePaths == Inputs \subseteq Seq(Bytes)
ASSUME SpecialBytes == {"/", "."} \subseteq Bytes
ASSUME BytesAreStrings == Bytes \subseteq STRING

VARIABLES p,         \* the path
          r, w,      \* reading and writing positions
          buf,       \* the buffer, <<>> while none is needed
          trailing,  \* the result ends in '/'
          pc,        \* "loop", "element", "backtrack", "done"
          out        \* the result

vars == <<p, r, w, buf, trailing, pc, out>>

n == Len(p)
At(i, c) == i <= n /\ p[i] = c
Zeros(len) == [i \in 1..len |-> "/"]   \* bytes of a new buffer, whatever they are

\* bufApp: the buffer after writing c in position i.
BufApp(b, i, c) ==
    IF b # <<>> THEN [b EXCEPT ![i] = c]
    ELSE IF p[i] = c THEN b
    ELSE [j \in 1..n |-> IF j = i THEN c ELSE IF j < i THEN p[j] ELSE "/"]

Written == IF buf = <<>> THEN SubSeq(p, 1, w - 1) ELSE SubSeq(buf, 1, w - 1)

-----------------------------------------------------------------------------
Init ==
    /\ p \in Inputs
    /\ out = <<>>
    /\ r = IF At(1, "/") THEN 2 ELSE 1
    /\ w = 2
    /\ buf = IF At(1, "/") \/ p = <<>> THEN <<>> ELSE Zeros(n + 1)
    /\ trailing = (n > 1 /\ p[n] = "/")
    /\ pc = "loop"

\* The empty path is answered at once.
Empty ==
    /\ pc = "loop" /\ p = <<>>
    /\ out' = <<"/">> /\ pc' = "done"
    /\ UNCHANGED <<p, r, w, buf, trailing>>

Reading == pc = "loop" /\ p # <<>> /\ r <= n

DotDot == At(r, ".") /\ At(r + 1, ".") /\ (r + 1 = n \/ At(r + 2, "/"))
FinalDot == At(r, ".") /\ r = n
InnerDot == At(r, ".") /\ At(r + 1, "/")

Skip == /\ Reading /\ At(r, "/")
        /\ r' = r + 1
        /\ UNCHANGED <<p, w, buf, trailing, pc, out>>

SkipFinalDot == /\ Reading /\ FinalDot
                /\ trailing' = TRUE
                /\ r' = r + 1
                /\ UNCHANGED <<p, w, buf, pc, out>>

SkipInnerDot == /\ Reading /\ InnerDot
                /\ r' = r + 2
                /\ UNCHANGED <<p, w, buf, trailing, pc, out>>

ParentWithoutReading == /\ Reading /\ DotDot     \* mutant: r is not moved
                        /\ IF w > 2 THEN w' = w - 1 /\ pc' = "backtrack"
                                    ELSE UNCHANGED <<w, pc>>
                        /\ UNCHANGED <<p, r, buf, trailing, out>>
ParentOffByOne == /\ Reading /\ DotDot           \* mutant: a byte too far
                  /\ r' = r + 4
                  /\ IF w > 2 THEN w' = w - 1 /\ pc' = "backtrack"
                              ELSE UNCHANGED <<w, pc>>
                  /\ UNCHANGED <<p, buf, trailing, out>>
\* ".." removes the last element: w steps back to the '/' before it.
Parent == /\ Reading /\ DotDot
          /\ r' = r + 3
          /\ IF w > 2 THEN w' = w - 1 /\ pc' = "backtrack"
                      ELSE UNCHANGED <<w, pc>>
          /\ UNCHANGED <<p, buf, trailing, out>>

PreviousOfInput == p[w]     \* mutant: always looks at the input
\* The byte the backtracking looks at, in the input or in the buffer.
Previous == IF buf = <<>> THEN p[w] ELSE buf[w]

Backtrack == /\ pc = "backtrack"
             /\ IF w > 2 /\ Previous # "/"
                THEN w' = w - 1 /\ UNCHANGED pc
                ELSE pc' = "loop" /\ UNCHANGED w
             /\ UNCHANGED <<p, r, buf, trailing, out>>

\* Mutant: a '/' also when nothing precedes the element.
ElementAfterSlash ==
    /\ Reading
    /\ ~At(r, "/") /\ ~FinalDot /\ ~InnerDot /\ ~DotDot
    /\ pc' = "element"
    /\ buf' = BufApp(buf, w, "/") /\ w' = w + 1
    /\ UNCHANGED <<p, r, trailing, out>>
\* A real element: a '/' first when something precedes it, then its bytes.
Element == /\ Reading
           /\ ~At(r, "/") /\ ~FinalDot /\ ~InnerDot /\ ~DotDot
           /\ pc' = "element"
           /\ IF w > 2 THEN buf' = BufApp(buf, w, "/") /\ w' = w + 1
                       ELSE UNCHANGED <<buf, w>>
           /\ UNCHANGED <<p, r, trailing, out>>

CopyByte == /\ pc = "element"
            /\ IF r <= n /\ p[r] # "/"
               THEN /\ buf' = BufApp(buf, w, p[r])
                    /\ w' = w + 1
                    /\ r' = r + 1
                    /\ UNCHANGED pc
               ELSE pc' = "loop" /\ UNCHANGED <<buf, w, r>>
            /\ UNCHANGED <<p, trailing, out>>

\* Mutant: the root gets a trailing slash, too.
FinishRootTwice ==
    /\ pc = "loop" /\ p # <<>> /\ r > n
    /\ buf' = IF trailing THEN BufApp(buf, w, "/") ELSE buf
    /\ w' = IF trailing THEN w + 1 ELSE w
    /\ out' = IF buf' = <<>> THEN SubSeq(p, 1, w' - 1) ELSE SubSeq(buf', 1, w' - 1)
    /\ pc' = "done"
    /\ UNCHANGED <<p, r, trailing>>
Finish == /\ pc = "loop" /\ p # <<>> /\ r > n
          /\ LET slash == trailing /\ w > 2
             IN  /\ buf' = IF slash THEN BufApp(buf, w, "/") ELSE buf
                 /\ w' = IF slash THEN w + 1 ELSE w
          /\ out' = IF buf' = <<>> THEN SubSeq(p, 1, w' - 1)
                                   ELSE SubSeq(buf', 1, w' - 1)
          /\ pc' = "done"
          /\ UNCHANGED <<p, r, trailing>>

Next == \/ Empty \/ Skip \/ SkipFinalDot \/ SkipInnerDot \/ Parent
        \/ Backtrack \/ Element \/ CopyByte \/ Finish

Spec == Init /\ [][Next]_vars
FairSpec == Spec /\ WF_vars(Next)

-----------------------------------------------------------------------------
(* Properties *)

TypeOK ==
    /\ p \in Inputs
    /\ r \in 1..n + 2
    /\ w \in 2..n + 2
    /\ buf \in Seq(Bytes)
    /\ trailing \in BOOLEAN
    /\ pc \in {"loop", "element", "backtrack", "done"}
    /\ out \in Seq(Bytes)

(* No index leaves the input or the buffer, although the buffer is only as  *)
(* long as the input and every element is written with a '/' before it:     *)
(* the slices end inside, and every byte written has a place                *)
(* (path.go:58-124, bufApp 128-150).                                        *)
Capacity == IF buf = <<>> THEN n ELSE Len(buf)
RealByte == r <= n /\ p[r] # "/"
AboutToWrite ==
    \/ pc = "loop" /\ RealByte /\ ~FinalDot /\ ~InnerDot /\ ~DotDot /\ w > 2
    \/ pc = "element" /\ RealByte
    \/ pc = "loop" /\ r > n /\ trailing /\ w > 2
InBounds == p # <<>> =>
    /\ w - 1 <= Capacity
    /\ (AboutToWrite \/ pc = "backtrack") => w <= Capacity

(* The result is the canonical path, and cleaning it again changes nothing  *)
(* (path_test.go:60-69).                                                    *)
CleansThePath == pc = "done" => out = Cleaned(p) /\ Cleaned(out) = out

(* At the head of the loop the written part spells the elements read so far. *)
WrittenSpellsTheStack == (pc = "loop" /\ p # <<>>) =>
    Written = Spelled(Elements(SubSeq(p, 1, IF r > n THEN n ELSE r - 1)))

(* The loop ends: every case moves r forward, also behind a backtracking.   *)
Terminates == <>(pc = "done")
=============================================================================
