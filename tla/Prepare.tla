------------------------------ MODULE Prepare ------------------------------
(***************************************************************************)
(* Engine.prepare of internal/engine/engine.go: the placeholders of a      *)
(* migration are substituted, and the text that results is split.          *)
(***************************************************************************)
EXTENDS Substitute, Split

vars == <<subVars, splitVars>>

Init == SubInit /\ SplitInit

Substitution == SubNext /\ UNCHANGED splitVars

\* Faulty: the text is split as it was read.
CallSplitUnsubstituted ==
  /\ phase = "done" /\ pc = "waiting"
  /\ script' = content
  /\ pc' = "scan"
  /\ UNCHANGED <<subVars, i, from, delimiter, lineStart, quote, stmts>>

\* Split is called with what Substitute returned.
CallSplit ==
  /\ phase = "done" /\ pc = "waiting"
  /\ script' = out
  /\ pc' = "scan"
  /\ UNCHANGED <<subVars, i, from, delimiter, lineStart, quote, stmts>>

Splitting == SplitNext /\ UNCHANGED subVars

Next == Substitution \/ CallSplit \/ Splitting

Spec == Init /\ [][Next]_vars

-----------------------------------------------------------------------------
(* What must hold.                                                         *)

\* What s reads as from each position on with every placeholder replaced, "?" for a
\* name without a value.  Read from the end of s: what a value is made of plays no part.
Rests(s) ==
  LET ph == settings.placeholders
      name(k) == k + Len(settings.prefix)
      ends(k) == Occurrences(s, settings.suffix, name(k))
      value(n) == IF n \in DOMAIN ph THEN ph[n] ELSE <<"?">>
      rest[k \in 1..(Len(s) + 1)] ==
        IF k > Len(s) THEN <<>>
        ELSE IF Matches(s, settings.prefix, k) /\ ends(k) # {}
        THEN value(SubSeq(s, name(k), Min(ends(k)) - 1)) \o rest[Min(ends(k)) + Len(settings.suffix)]
        ELSE <<s[k]>> \o rest[k + 1]
  IN  rest

\* s with every placeholder replaced.
Replaced(s) == IF settings.replacement /\ settings.prefix # <<>> THEN Rests(s)[1] ELSE s

\* Every placeholder of the migration is replaced once, none within a value; the
\* migration fails exactly when one has no value (substitute.go:12-16).
EachReplacedOnce ==
  /\ phase = "done" => out = Replaced(content)
  /\ phase = "failed" => \E k \in DOMAIN Replaced(content) : Replaced(content)[k] = "?"

\* Words for values: no quote, comment, blank or delimiter.
WordsOnly ==
  \A n \in DOMAIN settings.placeholders :
    LET v == settings.placeholders[n] IN v # <<>> /\ \A k \in DOMAIN v : v[k] = "a"

\* Placeholders that stand apart from words and dollar signs, and from delimiter lines.
StandApart ==
  /\ \A k \in DOMAIN content : content[k] # "DELIMITER"
  /\ \A k \in Occurrences(content, settings.prefix, 1) :
       HasPlaceholder(content, k) =>
         LET next == Placeholder(content, k).next
         IN  /\ k > 1 => content[k - 1] \notin TagSymbols \cup {"$"}
             /\ next <= Len(content) => content[next] \notin TagSymbols

\* Values that are words move no boundary where placeholders stand apart: the
\* statements are those the author wrote, each with its placeholders replaced,
\* although the text was replaced before it was cut.  Elsewhere they may: behind a
\* value an E no longer begins a literal, and next to a dollar sign it makes a tag.
WordsMoveNoBoundary ==
  (pc = "done" /\ WordsOnly /\ StandApart) =>
    {SubSeq(script, s[1], s[2]) : s \in {stmts[k] : k \in DOMAIN stmts}} =
      {Replaced(SubSeq(content, s[1], s[2])) : s \in StatementsOf(content)}

=============================================================================
