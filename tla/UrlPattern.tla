----------------------------- MODULE UrlPattern -----------------------------
(***************************************************************************)
(* A backend's URL pattern on its way from the configuration to a call:    *)
(* url.go hides the placeholders from Lura behind the prefix "resp042_."   *)
(* and takes Lura's rewriting back; Caddy's replacer fills them in.        *)
(*                                                                         *)
(* A pattern is a sequence of tokens: braces, letters, and "resp042_."     *)
(* (Tag), with a capital R and a dot before it once Lura has rewritten it  *)
(* (TitledTag).                                                            *)
(***************************************************************************)
EXTENDS Naturals, Sequences, SequencesExt

CONSTANT NameTokens   \* the tokens a placeholder's name may have: [\w\-.:/]

Tag == "resp042_."
TitledTag == ".Resp042_."

\* A span is the first and the last position of a part of a pattern.
Inner(pattern, span) == SubSeq(pattern, span[1] + 1, span[2] - 1)
SpansWith(pattern, Test(_, _)) ==
    {s \in (DOMAIN pattern) \X (DOMAIN pattern) : s[1] < s[2] /\ Test(s[1], s[2])}

\* The pattern with New(span) in the place of each of the (disjoint) spans.
ReplaceSpans(pattern, spans, New(_)) ==
    FlattenSeq([k \in DOMAIN pattern |->
        CASE \E s \in spans : s[1] = k -> New(CHOOSE s \in spans : s[1] = k)
          [] \E s \in spans : s[1] < k /\ k <= s[2] -> <<>>
          [] OTHER -> <<pattern[k]>>])

Placeholder(name) == <<"{">> \o name \o <<"}">>

-----------------------------------------------------------------------------
(* url.go *)

\* simpleURLKeysPattern
KeySpans(pattern) == SpansWith(pattern, LAMBDA i, j :
    /\ pattern[i] = "{" /\ pattern[j] = "}" /\ j > i + 1
    /\ \A k \in i + 1..j - 1 : pattern[k] \in NameTokens)
ParamsSet(pattern) == {Inner(pattern, s) : s \in KeySpans(pattern)}

\* Mutant: the name is replaced wherever it occurs.
MarkedWithoutBraces(pattern, name) ==
    LET spans == {<<k, k>> : k \in {i \in DOMAIN pattern : <<pattern[i]>> = name}}
    IN  ReplaceSpans(pattern, spans, LAMBDA s : <<Tag>> \o name)
\* One step of the loop of processBackendUrlPattern.
Marked(pattern, name) ==
    LET spans == {s \in KeySpans(pattern) : Inner(pattern, s) = name}
    IN  ReplaceSpans(pattern, spans, LAMBDA s : Placeholder(<<Tag>> \o name))

\* Lura's rewriting of the placeholders it does not look into.
Templated(pattern) ==
    ReplaceSpans(pattern, KeySpans(pattern), LAMBDA s :
        <<"{", "{", TitledTag>> \o Tail(Inner(pattern, s)) \o <<"}", "}">>)

\* caddyPlaceholdersPattern: the shortest text up to two closing braces.
TemplateSpans(pattern) == SpansWith(pattern, LAMBDA i, j :
    /\ j > i + 4 /\ SubSeq(pattern, i, i + 2) = <<"{", "{", TitledTag>>
    /\ \A k \in i + 5..j : SubSeq(pattern, k - 1, k) = <<"}", "}">> <=> k = j)
CaddyPlaceholders(pattern) ==
    ReplaceSpans(pattern, TemplateSpans(pattern), LAMBDA s :
        Placeholder(SubSeq(pattern, s[1] + 3, s[2] - 2)))

-----------------------------------------------------------------------------
(* Caddy's replacer *)

\* From an opening brace to the next closing one, from left to right.
ReplacerSpans(pattern) == SpansWith(pattern, LAMBDA i, j :
    /\ pattern[i] = "{" /\ pattern[j] = "}"
    /\ \A k \in i + 1..j - 1 : pattern[k] # "}"
    /\ \A k \in 1..i - 1 : pattern[k] = "{" => \E l \in k..i : pattern[l] = "}")

\* ReplaceOrErr fails on a key that is unknown or has an empty value; what
\* is put in is not looked at again.
Resolvable(pattern, values) == \A s \in ReplacerSpans(pattern) :
    Inner(pattern, s) \in DOMAIN values /\ values[Inner(pattern, s)] # <<>>
Replaced(pattern, values) ==
    ReplaceSpans(pattern, ReplacerSpans(pattern), LAMBDA s : values[Inner(pattern, s)])
=============================================================================
