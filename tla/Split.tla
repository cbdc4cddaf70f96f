------------------------------- MODULE Split -------------------------------
(***************************************************************************)
(* sql.Split of internal/sql/split.go: a script is cut into statements at  *)
(* the active delimiter.                                                   *)
(*                                                                         *)
(* `cur` is always a slice of the script, from `from` to the position      *)
(* before `i`, and so is a statement, which is given as its first and last *)
(* position.  Positions count from 1.  `j` of consumeQuoted is i here.     *)
(***************************************************************************)
EXTENDS Lexer

VARIABLES
  script,
  i,          \* the position Split is at
  from,       \* where `cur` begins
  delimiter,  \* the active delimiter
  lineStart,  \* atLineStart
  quote,      \* the quote consumeQuoted looks for and whether backslash escapes it
  stmts,      \* the statements found so far
  pc          \* "waiting" to be called, "scan", "quoted" (in consumeQuoted) or "done"

splitVars == <<script, i, from, delimiter, lineStart, quote, stmts, pc>>

NoQuote == [by |-> "", escapes |-> FALSE]

\* Split when it has not been called yet.
SplitInit ==
  /\ script = <<>>
  /\ i = 1 /\ from = 1
  /\ delimiter = <<Semicolon>>
  /\ lineStart = TRUE
  /\ quote = NoQuote
  /\ stmts = <<>>
  /\ pc = "waiting"

-----------------------------------------------------------------------------
\* Faulty: a directive counts wherever a line starts with it.
CurAlwaysEmpty == TRUE

\* Whether `cur` holds nothing but blanks.
CurIsBlank == \A k \in from..(i - 1) : script[k] \in Blanks

AtDirective == lineStart /\ Directive(script, i).found /\ CurIsBlank

\* Faulty: a statement keeps the blanks around it; there is no statement.
FlushUntrimmed == <<<<from, i - 1>>>>
FlushNothing == <<>>

\* flush: `cur` becomes a statement unless it is blank.
Flush == LET solid == {k \in from..(i - 1) : script[k] \notin Blanks}
         IN  IF solid = {} THEN <<>> ELSE <<<<Min(solid), Max(solid)>>>>

More == pc = "scan" /\ i <= Len(script)

\* A delimiter line at the start of a statement.
ReadDirective ==
  /\ More /\ AtDirective
  /\ delimiter' = Directive(script, i).delimiter
  /\ i' = Directive(script, i).next
  /\ from' = i'
  /\ lineStart' = TRUE
  /\ UNCHANGED <<script, quote, stmts, pc>>

At(text) == More /\ ~ AtDirective /\ Matches(script, text, i)

\* Text up to position k is copied to `cur`.
CopyTo(k) ==
  /\ i' = k
  /\ lineStart' = FALSE
  /\ UNCHANGED <<script, from, delimiter, quote, stmts, pc>>

\* The position behind the first occurrence of a text from k on, or the end.
Behind(text, k) ==
  Min({j + Len(text) : j \in {x \in k..Len(script) : Matches(script, text, x)}}
        \cup {Len(script) + 1})

LineComment == At(<<"-", "-">>) /\ CopyTo(Find(script, i, {"nl"}))

BlockComment == At(<<"/", "*">>) /\ CopyTo(Behind(<<"*", "/">>, i + 2))

InComment == At(<<"-", "-">>) \/ At(<<"/", "*">>)

Quotes == {"'", "dq", "bq"}

Open ==
  /\ \E q \in Quotes : At(<<q>>)
  /\ quote' = [by |-> script[i], escapes |-> script[i] = "'" /\ AfterE(script, i)]
  /\ i' = i + 1
  /\ pc' = "quoted"
  /\ UNCHANGED <<script, from, delimiter, lineStart, stmts>>

\* consumeQuoted: an escaped symbol or a doubled quote, another symbol.
Consume ==
  /\ pc = "quoted" /\ i <= Len(script)
  /\ \/ /\ \/ quote.escapes /\ script[i] = "\\" /\ i < Len(script)
           \/ Matches(script, <<quote.by, quote.by>>, i)
        /\ i' = i + 2
     \/ /\ ~ (quote.escapes /\ script[i] = "\\" /\ i < Len(script))
        /\ script[i] # quote.by
        /\ i' = i + 1
  /\ UNCHANGED <<script, from, delimiter, lineStart, quote, stmts, pc>>

\* The closing quote, or the end of a script that has none.
Close ==
  /\ pc = "quoted"
  /\ \/ /\ i <= Len(script) /\ script[i] = quote.by
        /\ ~ Matches(script, <<quote.by, quote.by>>, i)
        /\ i' = i + 1
     \/ i > Len(script) /\ UNCHANGED i
  /\ pc' = "scan"
  /\ quote' = NoQuote
  /\ lineStart' = FALSE
  /\ UNCHANGED <<script, from, delimiter, stmts>>

InText == InComment \/ \E q \in Quotes : At(<<q>>)

Boundary ==
  /\ At(delimiter) /\ ~ InText
  /\ stmts' = stmts \o Flush
  /\ i' = i + Len(delimiter)
  /\ from' = i'
  /\ lineStart' = FALSE
  /\ UNCHANGED <<script, delimiter, quote, pc>>

\* A dollar-quoted body, looked for while the delimiter is the default one.
InDollar == At(<<"$">>) /\ delimiter = <<Semicolon>> /\ DollarTag(script, i) # <<>>

DollarBody ==
  LET tag == DollarTag(script, i)
  IN  InDollar /\ CopyTo(Behind(tag, i + Len(tag)))

Plain ==
  /\ More /\ ~ AtDirective /\ ~ InText /\ ~ At(delimiter) /\ ~ InDollar
  /\ i' = i + 1
  /\ lineStart' = (script[i] = "nl")
  /\ UNCHANGED <<script, from, delimiter, quote, stmts, pc>>

\* The end of the script: what is left is the last statement.
Finish ==
  /\ pc = "scan" /\ i > Len(script)
  /\ stmts' = stmts \o Flush
  /\ from' = i
  /\ pc' = "done"
  /\ UNCHANGED <<script, i, delimiter, lineStart, quote>>

SplitNext ==
  \/ ReadDirective \/ LineComment \/ BlockComment \/ Open \/ Consume \/ Close
  \/ Boundary \/ DollarBody \/ Plain \/ Finish

-----------------------------------------------------------------------------
(* What must hold.                                                         *)

\* Statements come in the order of the script, do not overlap, and begin and end
\* with something that is not blank.  What is still to come begins behind them.
InSequence ==
  /\ \A k \in DOMAIN stmts :
       /\ 1 <= stmts[k][1] /\ stmts[k][1] <= stmts[k][2] /\ stmts[k][2] < from
       /\ script[stmts[k][1]] \notin Blanks /\ script[stmts[k][2]] \notin Blanks
  /\ \A k, l \in DOMAIN stmts : k < l => stmts[k][2] < stmts[l][1]
  /\ from <= i /\ i <= Len(script) + 1

\* What is before the statement being read, apart from blanks and semicolons, is in
\* a statement: nothing of a script without delimiter lines gets lost.
NoTextLost ==
  (\A k \in DOMAIN script : script[k] # "DELIMITER") =>
    \A k \in 1..(from - 1) :
      \/ script[k] \in Blanks \cup {Semicolon}
      \/ \E l \in DOMAIN stmts : stmts[l][1] <= k /\ k <= stmts[l][2]

\* A script is cut where its reader ends a statement and nowhere else
\* (split.go:5-9): no literal, comment or body is torn, no two statements are sent
\* as one, and no delimiter line is sent at all.
CutsLikeServer == pc = "done" => {stmts[k] : k \in DOMAIN stmts} = StatementsOf(script)

=============================================================================
