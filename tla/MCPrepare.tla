----------------------------- MODULE MCPrepare -----------------------------
(***************************************************************************)
(* Migrations for TLC: every sequence of a few fragments.                  *)
(***************************************************************************)
EXTENDS Prepare, SequencesExt

\* The texts of up to n fragments of a set.
Texts(fragments, n) == {FlattenSeq(f) : f \in UNION {[1..m -> fragments] : m \in 0..n}}

\* What statements, literals and comments are made of.
SqlFragments ==
  {<<"a">>, <<";">>, <<"nl">>, <<"'">>, <<"E", "'">>, <<"\\">>, <<"dq">>, <<"-", "-">>,
   <<"/", "*">>, <<"*", "/">>, <<"$">>, <<"$", "a", "$">>}

\* Delimiter lines and delimiters, and what hides them.
DelimiterFragments ==
  {<<"DELIMITER", " ", "/", "/", "cr", "nl">>, <<" ", "DELIMITER", " ", "$", "$", " ", "a", "nl">>,
   <<"DELIMITER", " ", ";">>, <<"DELIMITER", "nl">>, <<"/", "/">>, <<"$", "$">>, <<";">>,
   <<"nl">>, <<"'">>, <<"-", "-">>}

\* Placeholders, whole and in parts, what may surround them, and what a value next to
\* it changes.
PlaceholderFragments ==
  {<<"$", "{", "a", "}">>, <<"$", "{", "E", "}">>, <<"$", "{">>, <<"}">>, <<"@", "@">>,
   <<"a">>, <<";">>, <<"'">>, <<"-", "-">>, <<"nl">>, <<"$", "$">>, <<";", "$", "$">>,
   <<"$">>, <<"$", "$", ";">>, <<"E", "'", "\\", "'">>,
   <<"DELIMITER", " ", "$", "{", "a", "}", "nl">>}

Words == [prefix |-> <<"$", "{">>, suffix |-> <<"}">>, replacement |-> TRUE,
          placeholders |-> (<<"a">> :> <<"a", "a">>)]

NoReplacement == [Words EXCEPT !.replacement = FALSE]

Replacements ==
  {Words, NoReplacement,
   \* one value names another placeholder
   [Words EXCEPT !.placeholders = (<<"a">> :> <<"$", "{", "E", "}">>) @@ (<<"E">> :> <<";">>)],
   \* the test's prefix and suffix
   [Words EXCEPT !.prefix = <<"@", "@">>, !.suffix = <<"@", "@">>],
   [Words EXCEPT !.suffix = <<>>, !.placeholders = <<>> :> <<"E">>],
   [Words EXCEPT !.prefix = <<>>]}

MCMigrations ==
  [content : Texts(SqlFragments, 4) \cup Texts(DelimiterFragments, 4), settings : {NoReplacement}]
    \cup [content : Texts(PlaceholderFragments, 3), settings : Replacements]

\* For the disagreement with MySQL.
Literals == [content : Texts({<<"a">>, <<";">>, <<"'">>, <<"\\">>}, 6), settings : {NoReplacement}]

=============================================================================
