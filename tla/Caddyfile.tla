------------------------------ MODULE Caddyfile ------------------------------
(***************************************************************************)
(* The parser of the "lura" directive (caddyfile.go): one loop per kind of *)
(* block, nested as the blocks are, over Caddy's dispenser of tokens.      *)
(*                                                                         *)
(* The dispenser is external.  The text is revealed a line at a time:      *)
(* `doc' is what has been read.  Its braces are balanced (Caddy's own      *)
(* parser has seen to that), an opening one ends its line and a closing    *)
(* one has a line of its own.                                              *)
(***************************************************************************)
EXTENDS Integers, Sequences, FiniteSets, SequencesExt, FiniteSetsExt

CONSTANTS FirstLines, Lines, \* the lines a document may begin with, or have
          MaxLines,          \* after that many, blocks are only closed
          BadValues,         \* arguments that are no duration and no number
          Parts              \* a token with '>' -> the texts between them

VARIABLES doc, col, nesting, \* the dispenser: lines read, cursor, open blocks
          pc,                \* "next", "switch", then "done" or "failed"
          block,             \* the block whose loop runs
          level,             \* block -> the nesting its loop was entered with
          built              \* block -> what its loop is building

OpenBrace == "{"
CloseBrace == "}"

ASSUME LinesWellFormed ==
    /\ FirstLines \cup Lines \subseteq Seq(STRING) \ {<<>>}
    /\ \A l \in FirstLines \cup Lines : \A i \in DOMAIN l :
         /\ l[i] = OpenBrace => 1 < i /\ i = Len(l)
         /\ l[i] = CloseBrace => l = <<CloseBrace>>
    /\ \A l \in FirstLines : l[1] = "lura"
ASSUME PartsAreNoBraces == DOMAIN Parts \cap {OpenBrace, CloseBrace} = {}

reader == <<doc, col, nesting>>
vars == <<reader, pc, block, level, built>>

Blocks == {"lura", "endpoint", "backend", "mapping"}
Outer == [endpoint |-> "lura", backend |-> "endpoint", mapping |-> "backend"]

\* The subdirectives with one argument, and those of them that are converted.
Single == [lura |-> {"timeout", "cache_ttl"},
           endpoint |-> {"url_pattern", "method", "concurrent_calls", "timeout", "cache_ttl"},
           backend |-> {"url_pattern", "group", "method"}, mapping |-> {}]
Converted == {"timeout", "cache_ttl", "concurrent_calls"}
Helpers == {"debug_endpoint", "echo_endpoint"}

\* What is built: the arguments of the options that were set, and the list of
\* endpoints, of backends or of hosts; of a mapping, its fields.
Construct(opts, list) == [opts |-> opts, list |-> list]
NewEndpoint(args) ==
    Construct(IF args = <<>> THEN <<>> ELSE "url_pattern" :> <<args[1]>>, <<>>)
NewBackend(args) == Construct(<<>>, args)
With(construct, option, value) == [construct EXCEPT !.opts = option :> value @@ @]

Init == /\ \E l \in FirstLines : doc = <<l>>
        /\ col = 1 /\ nesting = 0           \* d.Next() has consumed "lura"
        /\ pc = "next" /\ block = "lura"
        /\ level = [b \in Blocks |-> 0]
        /\ built = [b \in Blocks |-> IF b = "mapping" THEN <<>> ELSE Construct(<<>>, <<>>)]

-----------------------------------------------------------------------------
(* The dispenser *)

Line == doc[Len(doc)]
Val == Line[col]

Opens(line) == line[Len(line)] = OpenBrace
Closes(line) == line = <<CloseBrace>>
Depth(n) == Cardinality({i \in 1..n : Opens(doc[i])})
            - Cardinality({i \in 1..n : Closes(doc[i])})

OnSameLine == col < Len(Line)
\* RemainingArgs: up to the end of the line or an opening brace.
ArgsEnd == IF OnSameLine /\ Opens(Line) THEN Len(Line) - 1 ELSE Len(Line)
Args == SubSeq(Line, col + 1, ArgsEnd)

\* A token on a new line.
NextLine == \E l \in {l \in Lines : Closes(l) \/ Len(doc) < MaxLines} :
    doc' = Append(doc, l) /\ col' = 1
AtEnd == ~OnSameLine /\ Depth(Len(doc)) = 0
\* Next, with something left to read.
NextToken == IF OnSameLine THEN col' = col + 1 /\ UNCHANGED doc ELSE NextLine

\* NextBlock(level[block]) returns `more'.  Either the block is open, or it is
\* opened by a brace on this line, and left at once if it is empty.
NextBlock(more) ==
    IF nesting > level[block] /\ ~AtEnd THEN
        /\ NextToken
        /\ nesting' = CASE Val' = CloseBrace -> nesting - 1
                        [] Val' = OpenBrace -> nesting + 1
                        [] OTHER -> nesting
        /\ more <=> nesting' > level[block]
    ELSE IF nesting <= level[block] /\ OnSameLine /\ Line[col + 1] = OpenBrace THEN
        /\ NextLine
        /\ more <=> Val' # CloseBrace
        /\ nesting' = IF more THEN nesting + 1 ELSE nesting
    ELSE ~more /\ UNCHANGED reader

-----------------------------------------------------------------------------
(* The loops *)

Iterate == /\ pc = "next" /\ NextBlock(TRUE)
           /\ pc' = "switch"
           /\ UNCHANGED <<block, level, built>>

\* The end of a loop: its function returns to the loop around it.
LeaveBlock ==
    /\ pc = "next" /\ block # "lura" /\ NextBlock(FALSE)
    /\ block' = Outer[block]
    /\ built' = [built EXCEPT ![Outer[block]] =
                   IF block = "mapping" THEN With(@, "mapping", built.mapping)
                   ELSE [@ EXCEPT !.list = Append(@, built[block])]]
    /\ UNCHANGED <<pc, level>>

Finish == /\ pc = "next" /\ block = "lura" /\ NextBlock(FALSE)
          /\ pc' = "done"
          /\ UNCHANGED <<block, level, built>>

\* The next iteration, with the arguments consumed and `construct' changed.
Continue(construct) ==
    /\ col' = ArgsEnd
    /\ built' = [built EXCEPT ![block] = construct]
    /\ pc' = "next"
    /\ UNCHANGED <<doc, nesting, block, level>>

Convertible == Val \in Converted => ToSet(Args) \cap BadValues = {}

SetFirstArg ==              \* mutant: unmarshalSingleArg takes the first of several
    /\ pc = "switch" /\ Val \in Single[block]
    /\ Len(Args) >= 1 /\ Convertible
    /\ Continue(With(built[block], Val, <<Args[1]>>))
SetOption == /\ pc = "switch" /\ Val \in Single[block]
             /\ Len(Args) = 1 /\ Convertible
             /\ Continue(With(built[block], Val, Args))

SetHelper == /\ pc = "switch" /\ block = "lura" /\ Val \in Helpers
             /\ Len(Args) <= 1
             /\ Continue(With(built.lura, Val, Args))

Allow == /\ pc = "switch" /\ block = "backend" /\ Val = "allow"
         /\ Continue(With(built.backend, Val, Args))

To == /\ pc = "switch" /\ block = "backend" /\ Val = "to"
      /\ Continue([built.backend EXCEPT !.list = @ \o Args])

MapField ==
    /\ pc = "switch" /\ block = "mapping" /\ Val \in DOMAIN Parts
    /\ built' = [built EXCEPT !.mapping = Parts[Val][1] :> Parts[Val][2] @@ @]
    /\ pc' = "next"
    /\ UNCHANGED <<reader, block, level>>

EnterAtZero(inner, new, end) ==     \* mutant: the loops within forget how deep they are
    /\ pc = "switch" /\ block = Outer[inner] /\ Val = inner
    /\ built' = [built EXCEPT ![inner] = new]
    /\ block' = inner /\ level' = [level EXCEPT ![inner] = 0]
    /\ col' = end
    /\ pc' = "next"
    /\ UNCHANGED <<doc, nesting>>
EnterTooDeep(inner, new, end) ==    \* mutant: the nesting is that of the block itself
    /\ pc = "switch" /\ block = Outer[inner] /\ Val = inner
    /\ built' = [built EXCEPT ![inner] = new]
    /\ block' = inner /\ level' = [level EXCEPT ![inner] = nesting + 1]
    /\ col' = end
    /\ pc' = "next"
    /\ UNCHANGED <<doc, nesting>>
\* A function for an inner block is called, and begins its loop.
Enter(inner, new, end) ==
    /\ pc = "switch" /\ block = Outer[inner] /\ Val = inner
    /\ built' = [built EXCEPT ![inner] = new]
    /\ block' = inner /\ level' = [level EXCEPT ![inner] = nesting]
    /\ col' = end
    /\ pc' = "next"
    /\ UNCHANGED <<doc, nesting>>
EnterEndpoint == Enter("endpoint", NewEndpoint(Args), ArgsEnd)
BackendReused == Enter("backend", [NewBackend(Args) EXCEPT !.opts = built.backend.opts],
                       ArgsEnd)     \* mutant: one variable for all backends
EnterBackend == Enter("backend", NewBackend(Args), ArgsEnd)
EnterMapping == Enter("mapping", <<>>, col)

\* An error: the wrong number of arguments, a value that cannot be converted.
WrongArgs == \/ Val \in Single[block] /\ (Len(Args) # 1 \/ ~Convertible)
             \/ block = "lura" /\ Val \in Helpers /\ Len(Args) > 1
Unrecognized ==
    CASE block = "mapping" -> Val \notin DOMAIN Parts
      [] block = "backend" -> Val \notin Single.backend \cup {"to", "allow", "mapping"}
      [] block = "endpoint" -> Val \notin Single.endpoint \cup {"backend"}
      [] block = "lura" -> Val \notin Single.lura \cup Helpers \cup {"endpoint"}
Fail == /\ pc = "switch" /\ (WrongArgs \/ Unrecognized)
        /\ pc' = "failed"
        /\ UNCHANGED <<reader, block, level, built>>

Next == \/ Iterate \/ LeaveBlock \/ Finish
        \/ SetOption \/ SetHelper \/ Allow \/ To \/ MapField
        \/ EnterEndpoint \/ EnterBackend \/ EnterMapping \/ Fail

Spec == Init /\ [][Next]_vars

-----------------------------------------------------------------------------
(* What a document says, read as text with braces *)

\* The line that opens the block line i is in, and the lines of a block.
Owner(i) == Max({j \in 1..i - 1 : Opens(doc[j]) /\ Depth(j - 1) = Depth(i - 1) - 1})
Content(j) == IF Opens(doc[j])
              THEN {i \in j + 1..Len(doc) : ~Closes(doc[i]) /\ Owner(i) = j} ELSE {}

\* The name of the block line i is in.
In(i) == doc[Owner(i)][1]

\* Text after a `mapping' without a block is read as a line of its own.
FirstRead(line) == Min({k \in DOMAIN line :
                          \/ line[k] # "mapping" \/ k = Len(line) \/ line[k + 1] = OpenBrace})
ReadIn(in, line) == IF in = "backend" THEN SubSeq(line, FirstRead(line), Len(line)) ELSE line
ArgsIn(in, line) ==
    LET read == ReadIn(in, line)
    IN  SubSeq(read, 2, IF Opens(read) THEN Len(read) - 1 ELSE Len(read))
Read(i) == ReadIn(In(i), doc[i])
LineArgs(i) == ArgsIn(In(i), doc[i])

InOrder(S) == SetToSortSeq(S, <)
Directives(j, names) == {i \in Content(j) : {doc[i][1], Read(i)[1]} \cap names # {}}
Concat(lines, F(_)) == FlattenSeq([k \in DOMAIN lines |-> F(lines[k])])

\* The last line counts.
OptionsOf(j, names) ==
    [o \in names \cap {Read(i)[1] : i \in Content(j)} |-> LineArgs(Max(Directives(j, {o})))]
MappingOf(j) ==
    LET fields == Concat(InOrder(Content(j)), LAMBDA i : doc[i])
        Of(source) == {k \in DOMAIN fields : Parts[fields[k]][1] = source}
    IN  [source \in {Parts[fields[k]][1] : k \in DOMAIN fields} |->
            Parts[fields[Max(Of(source))]][2]]
BackendOf(j) ==
    LET mappings == Directives(j, {"mapping"})
        opts == OptionsOf(j, Single.backend \cup {"allow"})
        to == InOrder(Directives(j, {"to"}))
    IN  Construct(IF mappings = {} THEN opts ELSE "mapping" :> MappingOf(Max(mappings)) @@ opts,
                  LineArgs(j) \o Concat(to, LineArgs))
EndpointOf(j) ==
    Construct(OptionsOf(j, Single.endpoint) @@ NewEndpoint(LineArgs(j)).opts,
              Concat(InOrder(Directives(j, {"backend"})), LAMBDA i : <<BackendOf(i)>>))
LuraOf == Construct(OptionsOf(1, Single.lura \cup Helpers),
                    Concat(InOrder(Directives(1, {"endpoint"})), LAMBDA i : <<EndpointOf(i)>>))

\* A line that may stand in a block.
Fit(in, line) ==
    LET name == ReadIn(in, line)[1]
        args == ArgsIn(in, line)
    IN  IF in = "mapping" THEN ToSet(line) \subseteq DOMAIN Parts
        ELSE \/ /\ name \in Single[in] /\ Len(args) = 1 /\ ~Opens(line)
                /\ name \in Converted => args[1] \notin BadValues
             \/ in = "lura" /\ name \in Helpers /\ Len(args) <= 1 /\ ~Opens(line)
             \/ in = "backend" /\ name \in {"to", "allow"} /\ ~Opens(line)
             \/ in = "backend" /\ name = "mapping" /\ args = <<>>
             \/ name \in {"endpoint", "backend"} /\ in = Outer[name]
Fits(i) == Fit(In(i), doc[i])

-----------------------------------------------------------------------------
(* Properties *)

(* The types, and the dispenser's nesting is the depth of the text read.    *)
TypeOK ==
    /\ ToSet(doc) \subseteq Lines \cup FirstLines /\ col \in 1..Len(Line)
    /\ pc \in {"next", "switch", "done", "failed"} /\ block \in Blocks
    /\ level \in [Blocks -> 0..3] /\ (pc # "done" => level[block] <= nesting)
    /\ DOMAIN built = Blocks
    /\ nesting = Depth(Len(doc)) - (IF Opens(Line) /\ OnSameLine THEN 1 ELSE 0)

(* Each of the nested loops, which share the dispenser and know only the    *)
(* nesting they started with, gets the lines of its own block and no other: *)
(* after empty blocks, missing blocks and blocks within blocks (NextBlock   *)
(* at caddyfile.go:32, 103, 172, 208).                                      *)
LoopsGetTheirOwnLines ==
    (pc = "switch" /\ Val # OpenBrace) =>
        /\ block = In(Len(doc))
        /\ level[block] = nesting - 1

(* A document is rejected at its first line that may not stand where it     *)
(* does, and accepted if it has none (the error paths of caddyfile.go:71,   *)
(* 81-91, 154, 214, 220, 231-243).                                          *)
RejectsExactlyTheFaulty ==
    /\ \A i \in 2..Len(doc) - 1 : Closes(doc[i]) \/ Fits(i)
    /\ pc = "failed" => ~Fits(Len(doc))
    /\ (pc = "done" /\ Len(doc) > 1) => Closes(Line)

(* An accepted document is parsed to what its text says: every option in    *)
(* the endpoint and the backend it is written in, the last one if it is     *)
(* repeated, hosts collected, lists in the order of the text                *)
(* (caddyfile.go:76, 160, 218, 226).                                        *)
ParsedAsWritten == pc = "done" => built.lura = LuraOf
=============================================================================
