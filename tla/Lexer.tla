------------------------------- MODULE Lexer -------------------------------
(***************************************************************************)
(* How a script is read by whoever it is written for: which of its symbols *)
(* are code and which belong to a comment, a literal or a quoted body.     *)
(* The reader is the database server, and for DELIMITER lines its command  *)
(* line client.  internal/sql has to agree with it, so Split and Prepare   *)
(* are measured by it.  The reader goes symbol by symbol, in a mode;       *)
(* internal/sql jumps from token to token.                                 *)
(*                                                                         *)
(* A symbol is a character, or a run of letters of which nothing depends   *)
(* but that it is one.  " " is a space or a tab, "nl" a line feed, "cr" a  *)
(* carriage return, "bq" a backquote, "dq" a double quote.                 *)
(***************************************************************************)
EXTENDS Integers, Sequences, FiniteSets, FiniteSetsExt

CONSTANT Server  \* the rules the reader follows beyond plain SQL

Rules == {"dollarQuotes", "eStrings",                        \* PostgreSQL
          "nestedComments", "dollarsInNames",                \* PostgreSQL
          "backquotes", "backslashEscapes", "hashComments",  \* MySQL
          "commentsBegin"}                                   \* not the mysql client

ASSUME ServerAssumption == Server \subseteq Rules

Symbols == {"a", "E", "DELIMITER", " ", "nl", "cr", ";", "'", "dq", "bq", "\\", "-", "/", "*",
            "#", "$", "@", "{", "}"}

Semicolon == ";"

Blanks == {" ", "nl", "cr"}

\* isTagChar: letters, digits and underscores.
TagSymbols == {"a", "E", "DELIMITER"}

Matches(s, text, k) ==
  /\ k + Len(text) - 1 <= Len(s)
  /\ SubSeq(s, k, k + Len(text) - 1) = text

\* The first position from k on with a symbol of a set, or the end of s.
Find(s, k, symbols) == Min({j \in k..Len(s) : s[j] \in symbols} \cup {Len(s) + 1})

\* The first position from k on with a symbol not of a set, or the end of s.
SkipAll(s, k, symbols) == Min({j \in k..Len(s) : s[j] \notin symbols} \cup {Len(s) + 1})

\* The opening token $tag$ at position k, or <<>>.
DollarTag(s, k) ==
  LET end == SkipAll(s, k + 1, TagSymbols)
  IN  IF end <= Len(s) /\ s[end] = "$" THEN SubSeq(s, k, end) ELSE <<>>

\* E before the quote at k, not the end of a longer word.
AfterE(s, k) == /\ k > 1 /\ s[k - 1] = "E"
                /\ k = 2 \/ s[k - 2] \notin TagSymbols

\* A delimiter line at k, the start of a line: the keyword, blanks, a token, and
\* whatever follows up to the end of the line.
Directive(s, k) ==
  LET word  == SkipAll(s, k, {" "})
      token == SkipAll(s, word + 1, {" "})
      end   == Find(s, token, Blanks)
      eol   == Find(s, end, {"nl"})
  IN  [found |-> /\ word <= Len(s) /\ s[word] = "DELIMITER"
                 /\ token > word + 1 /\ end > token,
       delimiter |-> SubSeq(s, token, end - 1),
       next |-> Min({eol + 1, Len(s) + 1})]

-----------------------------------------------------------------------------
\* in: what the reader is inside of; by: the quote or tag that ends it; escapes:
\* whether a backslash escapes in it; depth: comments open; skip: symbols to come
\* of a token that has begun; cut: the symbol belongs to no statement; begun: a
\* statement has begun; line: the next symbol starts a line.
Beginning ==
  [in |-> "code", by |-> <<>>, escapes |-> FALSE, depth |-> 0, skip |-> 0,
   delimiter |-> <<Semicolon>>, cut |-> FALSE, begun |-> FALSE, line |-> TRUE]

\* A delimiter or a delimiter line of n symbols, after which d is the delimiter.
Cut(m, n, d) == [m EXCEPT !.cut = TRUE, !.begun = FALSE, !.skip = n - 1, !.delimiter = d]

Comment(m, in, n) ==
  [m EXCEPT !.in = in, !.depth = 1, !.skip = n - 1,
            !.begun = @ \/ "commentsBegin" \in Server]

InQuote(s, m, k) ==
  [m EXCEPT !.in = "quote", !.by = <<s[k]>>, !.begun = TRUE,
     !.escapes = \/ s[k] = "'" /\ "eStrings" \in Server /\ AfterE(s, k)
                 \/ s[k] # "bq" /\ "backslashEscapes" \in Server]

OpensDollar(s, m, k) ==
  /\ "dollarQuotes" \in Server /\ m.delimiter = <<Semicolon>>
  /\ s[k] = "$" /\ DollarTag(s, k) # <<>>
  /\ "dollarsInNames" \in Server => k = 1 \/ s[k - 1] \notin TagSymbols \cup {"$"}

IsQuote(x) == x \in {"'", "dq"} \/ (x = "bq" /\ "backquotes" \in Server)

\* The mode after the symbol at k, met in code in mode m: the first token that fits.
FromCode(s, m, k) ==
  LET here == [m EXCEPT !.cut = FALSE, !.line = FALSE]
  IN  IF m.line /\ ~ m.begun /\ Directive(s, k).found THEN
        [Cut(m, Directive(s, k).next - k, Directive(s, k).delimiter) EXCEPT !.line = TRUE]
      ELSE IF Matches(s, <<"-", "-">>, k) \/ (s[k] = "#" /\ "hashComments" \in Server) THEN
        Comment(here, "line", 1)
      ELSE IF Matches(s, <<"/", "*">>, k) THEN Comment(here, "block", 2)
      ELSE IF IsQuote(s[k]) THEN InQuote(s, here, k)
      ELSE IF Matches(s, m.delimiter, k) THEN Cut(here, Len(m.delimiter), m.delimiter)
      ELSE IF OpensDollar(s, m, k) THEN
        [here EXCEPT !.in = "dollar", !.by = DollarTag(s, k), !.begun = TRUE,
                     !.skip = Len(DollarTag(s, k)) - 1]
      ELSE [here EXCEPT !.begun = @ \/ s[k] \notin Blanks, !.line = (s[k] = "nl")]

\* Back in code, n symbols of the token that ended the mode included.
Back(m, n) == [m EXCEPT !.in = "code", !.skip = n - 1]

\* The mode after the symbol at k, met in mode m.
After(s, m, k) ==
  CASE m.skip > 0 -> [m EXCEPT !.skip = @ - 1]
    [] m.skip = 0 /\ m.in = "code" -> FromCode(s, m, k)
    [] m.skip = 0 /\ m.in = "line" ->
         IF s[k] = "nl" THEN [Back(m, 1) EXCEPT !.line = TRUE] ELSE m
    [] m.skip = 0 /\ m.in = "block" ->
         IF Matches(s, <<"*", "/">>, k)
         THEN IF m.depth = 1 THEN Back(m, 2) ELSE [m EXCEPT !.depth = @ - 1, !.skip = 1]
         ELSE IF "nestedComments" \in Server /\ Matches(s, <<"/", "*">>, k)
              THEN [m EXCEPT !.depth = @ + 1, !.skip = 1]
              ELSE m
    [] m.skip = 0 /\ m.in = "quote" ->
         IF (m.escapes /\ s[k] = "\\") \/ Matches(s, m.by \o m.by, k)
         THEN [m EXCEPT !.skip = 1]
         ELSE IF <<s[k]>> = m.by THEN Back(m, 1) ELSE m
    [] m.skip = 0 /\ m.in = "dollar" ->
         IF Matches(s, m.by, k) THEN Back(m, Len(m.by)) ELSE m

\* The mode behind each symbol of s; 0 is the beginning.
Modes(s) ==
  LET after[n \in 0..Len(s)] == IF n = 0 THEN Beginning ELSE After(s, after[n - 1], n)
  IN  after

\* The part of s from position a to b without the blanks around it, as a pair of
\* positions; no pair when there is nothing else.
Trimmed(s, a, b) ==
  LET solid == {k \in a..b : s[k] \notin Blanks}
  IN  IF solid = {} THEN {} ELSE {<<Min(solid), Max(solid)>>}

\* The statements of a script: what is left between its delimiters and delimiter
\* lines.
StatementsOf(s) ==
  LET modes == Modes(s)
      cuts  == {k \in DOMAIN s : modes[k].cut} \cup {0, Len(s) + 1}
  IN  UNION {Trimmed(s, c + 1, Min({d \in cuts : d > c}) - 1) : c \in cuts \ {Len(s) + 1}}

=============================================================================
