----------------------------- MODULE Substitute -----------------------------
(***************************************************************************)
(* sql.Substitute of internal/sql/substitute.go: placeholders of a text    *)
(* are replaced by their values.  The settings are those of the            *)
(* configuration: prefix, suffix, whether to replace at all, and the value *)
(* of each name.                                                           *)
(***************************************************************************)
EXTENDS Lexer

CONSTANT Migrations  \* [content, settings], the settings being
                     \* [prefix, suffix, replacement, placeholders]

ASSUME MigrationsAssumption ==
  \A m \in Migrations :
    /\ m.content \in Seq(Symbols)
    /\ m.settings.prefix \in Seq(Symbols) /\ m.settings.suffix \in Seq(Symbols)
    /\ \A n \in DOMAIN m.settings.placeholders : m.settings.placeholders[n] \in Seq(Symbols)

VARIABLES content, settings,
          at,     \* the position Substitute is at
          out,    \* the text built so far
          phase   \* "replacing", "done" or "failed"

subVars == <<content, settings, at, out, phase>>

SubInit ==
  /\ \E m \in Migrations : content = m.content /\ settings = m.settings
  /\ at = 1
  /\ out = <<>>
  /\ phase = "replacing"

\* The occurrences of a text from position k on.
Occurrences(s, text, k) == {j \in k..(Len(s) + 1) : Matches(s, text, j)}

\* The first placeholder from position k on: where it begins, its name, and where
\* the text behind it begins.  There is none without a prefix and a suffix.
Placeholder(s, k) ==
  LET start == Min(Occurrences(s, settings.prefix, k))
      name  == start + Len(settings.prefix)
      end   == Min(Occurrences(s, settings.suffix, name))
  IN  [start |-> start, name |-> SubSeq(s, name, end - 1), next |-> end + Len(settings.suffix)]

HasPlaceholder(s, k) ==
  LET starts == Occurrences(s, settings.prefix, k)
  IN  /\ starts # {}
      /\ Occurrences(s, settings.suffix, Min(starts) + Len(settings.prefix)) # {}

Replacing == phase = "replacing" /\ settings.replacement /\ settings.prefix # <<>>

Found == Placeholder(content, at)

Replace ==
  /\ Replacing /\ HasPlaceholder(content, at)
  /\ Found.name \in DOMAIN settings.placeholders
  /\ out' = out \o SubSeq(content, at, Found.start - 1) \o settings.placeholders[Found.name]
  /\ at' = Found.next
  /\ UNCHANGED <<content, settings, phase>>

\* Faulty: a name without a value stays in the text.
LeaveUnknown ==
  /\ Replacing /\ HasPlaceholder(content, at)
  /\ Found.name \notin DOMAIN settings.placeholders
  /\ out' = out \o SubSeq(content, at, Found.next - 1)
  /\ at' = Found.next
  /\ UNCHANGED <<content, settings, phase>>

\* A name without a value is an error.
Unknown ==
  /\ Replacing /\ HasPlaceholder(content, at)
  /\ Found.name \notin DOMAIN settings.placeholders
  /\ phase' = "failed"
  /\ UNCHANGED <<content, settings, at, out>>

\* Without a placeholder to come, or without replacement, the rest is copied.
CopyRest ==
  /\ phase = "replacing"
  /\ Replacing => ~ HasPlaceholder(content, at)
  /\ out' = out \o SubSeq(content, at, Len(content))
  /\ at' = Len(content) + 1
  /\ phase' = "done"
  /\ UNCHANGED <<content, settings>>

SubNext == Replace \/ Unknown \/ CopyRest

=============================================================================
