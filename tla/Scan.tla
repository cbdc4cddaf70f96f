-------------------------------- MODULE Scan --------------------------------
(***************************************************************************)
(* Discovery of migrations: scan.Scan of internal/scan/scan.go.  It walks  *)
(* the locations, parses the name of each file, refuses a second file of a *)
(* version and sorts what it found.                                        *)
(*                                                                         *)
(* The state is Scan's own: the files it has still to visit, `seen` and    *)
(* `migrations`.  A file is what ParseFilename tells apart in its name.    *)
(* Several locations make every order of visits possible, and two of them  *)
(* may hold files of the same name.                                        *)
(***************************************************************************)
EXTENDS Versions

CONSTANTS
  Trees,      \* what the walk over all locations may meet, in order
  Spaced,     \* the description with underscores turned into spaces: its rank
              \* in the order of strings, NoDescription for the empty one
  NoDescription,
  Unreadable  \* a file or directory the walk cannot read, a location that
              \* cannot be stat'ed

\* prefix: "R", "V" or "none" of them; version: what stands between the prefix
\* and the separator; separated: whether there is a separator; description: what
\* follows it.
Name ==
  [suffix : BOOLEAN, prefix : {"R", "V", "none"}, version : Seq(Nat \cup {BadPart}),
   separated : BOOLEAN, description : DOMAIN Spaced]

ASSUME TreesAssumption == Trees \subseteq Seq(Name \cup {Unreadable})
ASSUME SpacedAssumption == Spaced \in [DOMAIN Spaced -> Nat \cup {NoDescription}]

VARIABLES
  tree,        \* the files, as the walk meets them
  visited,     \* how many of them it has visited
  seen,        \* keys of the versions seen
  migrations,  \* the migrations found so far; then sorted
  result       \* "walking", "ok" or "error"

vars == <<tree, visited, seen, migrations, result>>

-----------------------------------------------------------------------------
(* ParseFilename.                                                          *)

\* Not a migration at all: the file is skipped.
Skipped(n) == ~ n.suffix \/ n.prefix = "none"

\* The name has a migration's prefix and suffix but is no proper name.
Malformed(n) ==
  /\ ~ Skipped(n)
  /\ \/ ~ n.separated
     \/ Spaced[n.description] = NoDescription
     \/ n.prefix = "R" /\ n.version # <<>>
     \/ n.prefix = "V" /\ ~ ParseVersion(n.version).ok

\* The migration a proper name stands for; only versioned ones have a version.
Parsed(n) ==
  [type |-> n.prefix, version |-> n.version, description |-> Spaced[n.description],
   name |-> n]

-----------------------------------------------------------------------------
(* sortMigrations: sort.SliceStable by the order Less.                     *)

\* Faulty: the order of file names.
LessByDescription(m, n) ==
  \/ m.type = "V" /\ n.type = "R"
  \/ m.type = n.type /\ m.description < n.description

Less(m, n) ==
  \/ m.type = "V" /\ n.type = "R"
  \/ m.type = "V" /\ n.type = "V" /\ Compare(m.version, n.version) < 0
  \/ m.type = "R" /\ n.type = "R" /\ m.description < n.description

\* Position i comes no later than position j in a stable sort of ms.
NoLater(ms, i, j) == Less(ms[i], ms[j]) \/ (~ Less(ms[j], ms[i]) /\ i <= j)

Sorted(ms) ==
  LET place(i) == Cardinality({j \in DOMAIN ms : NoLater(ms, j, i)})
  IN  [k \in DOMAIN ms |-> ms[CHOOSE i \in DOMAIN ms : place(i) = k]]

-----------------------------------------------------------------------------
Init ==
  /\ tree \in Trees
  /\ visited = 0
  /\ seen = {}
  /\ migrations = <<>>
  /\ result = "walking"

\* The file the walk meets next.
File == tree[visited + 1]

Walking == result = "walking" /\ visited < Len(tree)

Skip ==
  /\ Walking /\ File # Unreadable
  /\ Skipped(File)
  /\ visited' = visited + 1
  /\ UNCHANGED <<tree, seen, migrations, result>>

\* The walk stops at the first error, and Scan returns no migration.
Refuse ==
  /\ Walking
  /\ \/ File = Unreadable
     \/ File # Unreadable /\ Malformed(File)
     \/ File # Unreadable /\ ~ Skipped(File) /\ ~ Malformed(File)
          /\ File.prefix = "V" /\ Canonical(File.version) \in seen
  /\ result' = "error"
  /\ migrations' = <<>>
  /\ UNCHANGED <<tree, visited, seen>>

\* Faulty: of files of one name only the first counts.
FindOnce ==
  /\ Walking /\ File # Unreadable
  /\ ~ Skipped(File) /\ ~ Malformed(File)
  /\ File.prefix = "V" => Canonical(File.version) \notin seen
  /\ seen' = IF File.prefix = "V" THEN seen \cup {Canonical(File.version)} ELSE seen
  /\ migrations' = IF \E i \in DOMAIN migrations : migrations[i].name = File
                   THEN migrations ELSE Append(migrations, Parsed(File))
  /\ visited' = visited + 1
  /\ UNCHANGED <<tree, result>>

Find ==
  /\ Walking /\ File # Unreadable
  /\ ~ Skipped(File) /\ ~ Malformed(File)
  /\ File.prefix = "V" => Canonical(File.version) \notin seen
  /\ seen' = IF File.prefix = "V" THEN seen \cup {Canonical(File.version)} ELSE seen
  /\ migrations' = Append(migrations, Parsed(File))
  /\ visited' = visited + 1
  /\ UNCHANGED <<tree, result>>

SortFound ==
  /\ result = "walking" /\ visited = Len(tree)
  /\ migrations' = Sorted(migrations)
  /\ result' = "ok"
  /\ UNCHANGED <<tree, visited, seen>>

Next == Skip \/ Refuse \/ Find \/ SortFound

Spec == Init /\ [][Next]_vars

-----------------------------------------------------------------------------
(* What must hold.                                                         *)

\* The order Migrate relies on (DisksAssumption of Rian): versioned migrations
\* first and strictly ascending, the repeatable ones by description.
InOrder ==
  result = "ok" =>
    \A i, j \in DOMAIN migrations : i < j =>
      LET m == migrations[i]  n == migrations[j] IN
      /\ n.type = "V" => m.type = "V" /\ Compare(m.version, n.version) < 0
      /\ (m.type = "R" /\ n.type = "R") => m.description <= n.description

\* Scan refuses a set of files for a cause, whatever the order it meets them in:
\* an unreadable file, a malformed name, or two versions that compare equal,
\* which detection by key must find and nothing else.
RefusedForCause ==
  result # "walking" =>
    (result = "error" <=>
       \/ \E i \in DOMAIN tree : tree[i] = Unreadable
       \/ \E i \in DOMAIN tree : tree[i] # Unreadable /\ Malformed(tree[i])
       \/ \E i, j \in DOMAIN tree :
            /\ i # j /\ tree[i] # Unreadable /\ tree[j] # Unreadable
            /\ ~ Skipped(tree[i]) /\ ~ Skipped(tree[j])
            /\ tree[i].prefix = "V" /\ tree[j].prefix = "V"
            /\ Compare(tree[i].version, tree[j].version) = 0)

\* Every migration file is in the result, as often as the walk met it.
NothingLost ==
  result = "ok" =>
    \A n \in {tree[i] : i \in DOMAIN tree} : ~ Skipped(n) =>
      Cardinality({i \in DOMAIN migrations : migrations[i].name = n})
        = Cardinality({i \in DOMAIN tree : tree[i] = n})

=============================================================================
