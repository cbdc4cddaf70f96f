# rian in TLA+

This directory holds a TLA+ model of rian, a migration tool compatible with
Flyway: modules that translate its Go code, TLC configurations that check them
on small instances, and proofs for every instance. It is meant to be read
beside `src/`. Line references below are to files of the repository.

## 1. The system

rian is a command line tool. A command connects to a database, reads the schema
history table, reads the migration files, decides, and writes. The code is
sequential within a process. What is hard about it is that a process is not
alone: two deploy jobs, or several replicas of an application that migrate when
they start, run rian at the same time against one database, and rian takes no
lock. `docs/architecture.md` describes "a simple serial pipeline"; it is serial
within one process only.

| component | code | state | operations |
|---|---|---|---|
| engine | `internal/engine/engine.go` | locals of the running command: what `resolve` read, the pending list, `rank` | `Migrate`, `Info`, `Validate`, `Baseline`, `Repair` |
| history | `internal/history/history.go` | none, pure functions over rows | `NextRank`, `Pending`, `Validate`, `VersionApplied`, `BaselineVersion`, `MaxAppliedVersion` |
| PostgreSQL | `internal/db/postgres` | the connection, one open transaction | `EnsureHistory`, `ReadHistory`, `ApplyMigration` (statements and row in one transaction), `InsertHistory`, `DeleteFailed` |
| MySQL | `internal/db/mysql` | a connection pool | the same; every statement commits by itself, then a row records how they ended |
| scan | `internal/scan/scan.go` | `seen`, `migrations` during a walk | `Scan`, `ParseFilename`, `sortMigrations` |
| version | `internal/scan/version.go` | none | `ParseVersion`, `Compare`, `Canonical` |
| checksum | `internal/checksum` | none | CRC32 over normalised lines |
| sql | `internal/sql` | locals of one call: position, `cur`, active delimiter | `Split` into statements, `Substitute` placeholders |
| config | `internal/config` | the configuration built so far and its warnings | `Load`: defaults, files, environment, flags |
| command line | `cmd/rian/main.go` | arguments and flag set | `normalizeFlywayArgs`, parsing, `resolveConfig`, `connect`; one subcommand per engine operation |

The components interact by calls, downward from the command line to the engine
and from there to scan, checksum, history, sql and the connection. The only
shared state is in the database: the history table and the schema itself. The
files are shared as well, and each process may find another release on its
disk.

What makes each part correct:

- engine and connections: migrations are recorded in order, each once, whatever
  runs at the same time; a successful row is for ever; a failed one blocks; the
  schema and its history agree under crashes and lost answers; a migrate that
  ended well has nothing left to do; concurrent migrates do not all fail; no
  command waits for ever.
- history: decisions are functions of the files and the rows; `info` tells what
  `migrate` would do and did.
- scan and version: the two ways in which versions are compared agree;
  duplicates are found in any order; nothing is lost; the result is in the order
  `Migrate` relies on.
- checksum: the lines are those Flyway reads, so recorded checksums agree, and
  line ends do not count.
- sql: a script is cut where the server ends a statement and nowhere else; no text
  gets lost; each placeholder is replaced once, and words as values move no
  boundary.
- config and command line: what the user typed arrives; the source of highest
  precedence wins, key by key; what has no effect is warned about, two kinds
  excepted; the connection is opened with the dialect and as the user in effect.

`PROJECT.json` lists under `hazards` what is hard to test in this code, each at
its line, with the properties that watch it.

## 2. The modules

| module | models | kind |
|---|---|---|
| `History` | `history.go`, and the questions `engine.go` asks of it | pure operators |
| `Rian` | `engine.go` over both connections, several processes | state machine |
| `Ledger` | what the history promises: each migration decided upon and recorded in one step | abstract specification |
| `Versions` | `version.go` | pure operators |
| `Scan` | `scan.go` | state machine |
| `Lexer` | the reader of a script: the server, for delimiter lines its client (external); what `Split` shares with it | pure operators |
| `Split` | `split.go` | state machine |
| `Substitute` | `substitute.go` | state machine |
| `Prepare` | `Engine.prepare`: `Substitute`, then `Split` | composition |
| `Checksum` | `checksum.go` | state machine |
| `Config` | `Load` of `config.go` | state machine |
| `CommandLine` | `main.go` down to the connection, over `Config` | composition |
| `Deployments` | what releases and histories have to be like for some theorems about `Rian`; rian ensures none of it | pure operators |
| `MCRian`, `MCDeployments`, `MCProgress`, `MCScan`, `MCPrepare`, `MCChecksum`, `MCCommandLine` | instances for TLC; the two in the middle have TLC evaluate `Deployments` | |
| `NatSets` | least and greatest elements of sets of naturals, induction and recursion over naturals | lemmas |
| `OrderProofs`, `SerialProofs` | theorems about `Rian` | proofs |
| `ScanProofs` | theorems about `Versions` and `Scan` | proofs |
| `SplitProofs`, `SubstituteProofs` | theorems about `Prepare` | proofs |
| `ChecksumProofs` | theorems about `Checksum` | proofs |
| `CommandLineProofs` | theorems about `CommandLine` and `Config` | proofs |

`Rian` EXTENDS `History`, and instantiates `Ledger` as `Serial`, with the
releases on the disks and its own `hist`; `ActsSerially` says that every
behaviour of `Rian` is one of `Ledger`. `Scan` EXTENDS `Versions`. `Scan` and
`Rian` meet at `DisksAssumption`: what `Rian` assumes of the files on a disk is
what `InOrder` says of the result of `Scan` (`ResultInOrder` proves it), versions
taken as classes of `Compare`, which `CompareIsTotalPreorder` allows. What `Rian` takes as given of a
file, its statements (`Stmts`), whether its placeholders resolve (`Unresolvable`)
and its checksum, is what `Prepare` and `Checksum` compute.

### `History`

`rows` is a function from `installed_rank` to row. The rank is the primary key
and rows are read ordered by it, so the slice the code works on and the function
say the same. A sub-slice of the migrations is the set of its positions, since
`Pending` keeps the order. A version is a natural number standing for its class
under `Compare`; `BadVersion` is a text that `ParseVersion` refuses. A checksum
is a model value for a file content. A row type other than `SQL` and `BASELINE`
is `OTHER`: Flyway writes those.

`Problems` collects what `Validate` appends, as pairs of kind and rank.
`OutOfOrder` is the loop of `engine.go:98-106`. `Status` is the column `info`
prints.

### `Rian`

| variable | stands for |
|---|---|
| `table` | the history table exists |
| `hist` | its committed rows |
| `ran[c][k]` | how often statement `k` of content `c` took effect on the schema |
| `pc[p]` | the next round trip of process `p` |
| `job[p]` | its locals: subcommand, resolved migrations, positions still to apply, `rank`, next statement, whether a statement failed |
| `outcome[p]` | how its last command ended |
| `runs` | commands started, bounded by `MaxRuns` |

An action is one round trip to the database together with the Go code up to the
next one:

| action | code |
|---|---|
| `Start`, `RefuseBaseline` | a subcommand is run (`main.go`); `Baseline` with a version that does not parse |
| `EnsureHistory` | `CREATE TABLE IF NOT EXISTS` |
| `Resolve` | `engine.resolve`: the files of some release, checksums keyed by script |
| `ReadFails`, `ReadForMigrate`, `ReadForReport`, `ReadForBaseline` | `ReadHistory` and the decision each command takes from it |
| `Prepare` | the head of the loop of `Migrate` and `prepare` |
| `ExecInTx`, `RecordInTx`, `Commit` | `ApplyMigration` on PostgreSQL |
| `ExecAutocommit`, `RecordAutocommit` | `ApplyMigration` on MySQL |
| `InsertBaseline`, `DeleteFailed` | the writes of `Baseline` and `Repair` |
| `Crash` | the process is killed, and the server rolls its transaction back |

On PostgreSQL the statements of a migration have no effect until `Commit`, which
makes them and the row visible together. An INSERT of a rank that another
transaction holds uncommitted waits (`KeyHeld`), one of a rank that is in the
table fails (`KeyTaken`). On MySQL every INSERT commits by itself, so only
`KeyTaken` matters.

`Faults` says which failures may strike: of an operation (`ensure`, `scan`,
`read`, `stmt`, `insert`, `commit`, `delete`), of the answer to one that took
effect (`answer`), of a statement only because what it makes is there already
(`rerun`), of the argument of `baseline` (`version`), and of the process
(`crash`). Without `stmt` and with `rerun`, a migration fails for no reason but
concurrency.

The definitions marked "Faulty" are plausible mistakes. `PROJECT.json` pairs
each property with one of them, and TLC finds the property violated once the
mistake is put in place of the definition that follows it.

### `Scan`

The state is that of the Go function: the files still to visit, `seen`,
`migrations`. A file is a record of what `ParseFilename` tells apart: suffix,
prefix, the text before the separator as a sequence of parts, whether there is a
separator, the description. `Spaced` is the conversion of underscores to spaces,
which is not injective. `Sorted` is a stable sort, stated by counting: an element's
place is the number of elements that come no later. Overlapping prefixes (a
`repeatablePrefix` that begins with the `sqlMigrationPrefix`) are left out.

### `Lexer`, `Split`, `Substitute`, `Prepare`

A script is a sequence of `Symbols`: characters, and runs of letters of which
nothing depends but that they are one ("a" stands for any word, "E" and
`DELIMITER` for themselves). Each case of the `switch` in `Split` is an action,
and so are the steps of `consumeQuoted`. The code copies bytes to a builder
`cur`; what it copies is always the script from some position to the present
one, so the model keeps the positions (`from`, `i`), and a statement is a pair of
positions. That nothing is copied twice or left out is then visible in how the
positions move, and `NoTextLost` is about what lies between statements.

`Lexer` does not translate rian's code: it says how a script is read by whoever
executes it, symbol by symbol, in a mode (`After`), independently of how `Split`
jumps. A few operators that both need (`Matches`, `DollarTag`, `AfterE`,
`Directive`) are the helpers of `split.go`. The constant `Server` names the rules
of the reader:

| rule | reader | `Split` agrees |
|---|---|---|
| `dollarQuotes`, `eStrings` | PostgreSQL | yes |
| `commentsBegin`: a comment begins a statement | every client that skips no comments | yes |
| `backslashEscapes` in every literal | MySQL by default | no, run `Backslash` |
| `nestedComments` | PostgreSQL | no |
| `dollarsInNames` (`a$b$c` opens no body) | PostgreSQL | no |
| `hashComments` | MySQL | no |
| without `commentsBegin`: a DELIMITER line right below a comment | the `mysql` client | no |
| `backquotes` | MySQL | yes, but `Split` follows it for PostgreSQL too |

In code the reader takes the first token that fits, in the order of `FromCode`.
The reader of `Prepare.cfg` has the rules that agree, of both databases. No single
server is that reader: a server reads as it does those scripts on which the rules it
lacks, and its further ones, say nothing.

`Prepare` holds the variables of `Substitute` and `Split` side by side, and
`CallSplit` hands over the text, as `prepare` does. `Migrations` are the pairs of
a content and the settings of the configuration. `Rests` and `Replaced` say what
a text reads as with its placeholders replaced; they are written from its end,
and share nothing with `Substitute` but what an occurrence is.

### `Checksum`

A byte is CR, LF or another one; a byte-order mark is one symbol for its three
bytes. A CRC32 is a function of the bytes written to it: `crc` is that sequence,
so what is shown holds whatever the polynomial is, and collisions are left
out. Lines are found in one pass and written to the CRC32 in another, one in each
step, as in the code. `JavaLines` is `BufferedReader.readLine`, which the comment at
`checksum.go:52-56` refers to, written as the automaton that it is there.

### `Config`, `CommandLine`

A key is a sequence of words, because the environment spells it in another way
than files do and the code converts (`EnvKey`). A text is the sequence of its
parts, the value of a list a sequence of texts, from which `splitList` drops empty
ones. One line of a file, one variable of the environment is one action, so the
order in which a key is overridden is the order of the code. Keys that are
strings behave alike and are represented by `url`, `user` and `password`, lists
by `locations`, booleans by `placeholderReplacement`, the keys that are known
and not honoured by `schemas`. What has to come out is stated over `Places`: a
place is a layer (a file, or the environment) and a line or variable of it, and
`Before` is the order of precedence. `Ignored` are the places of all settings
without effect. Two kinds of them are passed over without a word (`Silent`): a
`placeholderReplacement` that is neither true nor false (`config.go:134`), and a
variable of the environment that is no key (`config.go:177-178`, on purpose); the
others are `Reported`.

`CommandLine` starts from what the user means, a sequence of options with the form
each is typed in; `Typed` makes the arguments of each, `AllTyped` of all, `Normalize` adds the second
dash where one is missing (`Doubled`), and the actions that parse are pflag's (external).
An option may have any flag and any value, in both forms, and so also a value that
begins with a dash: `Normalize` cannot tell such an argument from a flag
(`TakenForFlag`). `Resolve` calls `Load`, and `Connect` chooses dialect and user of the
connection. `ConnectFails` is always possible instead: a URL may not parse, and a
server may refuse.

## 3. The runs

| run | instance | shows |
|---|---|---|
| `PgSafety` | PostgreSQL, 2 processes, 4 commands in all, all subcommands, 4 releases, 6 histories, all faults | `TypeOK`, `EffectsMatchRows`, `InfoIsTrue`, `AppendInOrder`, `SuccessIsKept`, `RepairBeforeMore`, `OkMeansUpToDate`, `ActsSerially` |
| `MySafety` | MySQL, 2 processes, 4 commands, `migrate`, `repair`, `baseline`, 2 releases, 6 histories, failing statements and inserts, lost answers, crashes | the same without `TypeOK` and `InfoIsTrue` |
| `PgProgress` | PostgreSQL, 3 processes, 4 commands, `migrate` on a database that is fresh or at the older release, statements fail only when run twice | `SomeoneFinishes` |
| `PgLiveness` | PostgreSQL, 2 processes, 3 commands, fairness | `CommandEnds` |
| `Scan` | all walks over up to 4 of 13 kinds of file | `InOrder`, `RefusedForCause`, `NothingLost` |
| `Prepare` | scripts of up to 4 of 12 fragments of SQL, or of 10 with delimiter lines; migrations of up to 3 of 16 fragments with placeholders under 6 settings | `InSequence`, `NoTextLost`, `CutsLikeServer`, `EachReplacedOnce`, `WordsMoveNoBoundary` |
| `Checksum` | all contents of up to 6 bytes of 5 kinds | `EndingsDoNotCount`, `LinesOfFlyway` |
| `CommandLine` | up to 2 of 60 options against 5 disks and 3 environments; 4 command lines against `flyway.conf` of up to 2 lines and another file of up to 1, each possibly missing, of 11 kinds of line, and 7 environments | `FlagsArrive`, `ConnectsAsTold`, `Precedence`, `SilentOrWarned` |
| `MyFailure` | MySQL, 2 migrates on a fresh database | a violation of `FailureIsRecorded`, section 6 |
| `Twins` | one migrate, two views of one description | a violation of `OkMeansUpToDate`, section 6 |
| `SameName` | one migrate, two views of one file name | a violation of `EveryFileRuns`, section 6 |
| `Backslash` | scripts of up to 6 of 4 symbols, MySQL's escapes | a violation of `CutsLikeServer`, section 6 |

`PgSafety`, `MySafety` and `PgLiveness` are instances of `MCDeployments`, and
`PgProgress` of `MCProgress`: what their theorems assume of releases and histories
is evaluated there, so the runs are about the same systems as the theorems.

The releases are two that follow each other (`OldRelease`, `NewRelease`: the
later one adds V3 and changes the view), one that edits V1 after the fact, and
one that leaves V2 out and cannot be prepared. The histories are empty, one row,
a failed row on top, a baseline, a hole in the ranks with a repeatable on top,
and a row whose version does not parse.

Bounds. Two processes make every race over a rank, since only the rank decides
and a third process loses like the second; `PgProgress` takes three because its
question is whether all can lose. Four commands are a race of two, a repair and
another migrate. Two statements (V2) let a failure fall between them. What the
bounds leave out the theorems of section 5 cover: they hold for any number of
processes, commands, releases and statements.

For scripts, four fragments are a token that opens, one that hides in it, one
that closes, and one behind it; fragments are the tokens of both languages, whole
and in halves, so that a token may begin inside of another. Three fragments with
placeholders are a prefix, a name and a suffix, or a placeholder between two
texts; the settings have values that look like placeholders and like SQL, equal
and empty delimiters, replacement off. Six bytes hold any two terminators with
text around them. Two options of every form and value are a flag given twice, a
value that looks like a command or like a flag, an option that swallows the next;
two lines, a
second file and the environment set one key four times.

The model of the engine is checked without deadlock detection: after `MaxRuns`
commands the system stops. That a command under way never gets stuck is
`CommandEnds`. `Scan`, `Prepare`, `Checksum` and `CommandLine` are sequential
programs that end, so they stop as well.

Fairness (`FairSpec`): weak fairness of `Step(p)` for each process. A process
that is started goes on as long as the driver and the server answer; nothing
obliges anyone to start a command, to crash, or to fail. A wait for a primary key
ends by the fairness of its holder. rian sets no timeout (it passes
`context.Background()`), so a server that never answers hangs the command: that
is what the assumption leaves out.

## 4. The properties

- `AppendInOrder`: a successful row is added above every successful row in rank
  and, when versioned, in version, and never on top of a version that does not
  parse. The check is made when the history is read, the row written much later.
- `SuccessIsKept`: successful rows are never removed or changed.
- `RepairBeforeMore`: while a failed row is there nothing is recorded, not even
  by a migrate that read the history before the failure.
- `EffectsMatchRows`: statements took effect as often as recorded on PostgreSQL,
  at least as often on MySQL.
- `InfoIsTrue`: what `info` shows as applied ran from end to end, when the files
  validate: a repeatable migration with the content it has now, a versioned one
  unless it is the version of the baseline, for which nothing ran.
- `OkMeansUpToDate`: after a migrate that ended well, reading the history again
  finds nothing pending of the same files, apart from what others recorded since.
- `ActsSerially`: the history changes as in `Ledger`. It says more than the
  first three: that the row added is the one a process would decide upon if it
  read the history at that moment.
- `SomeoneFinishes`: when all of several concurrent migrates have ended, the
  schema is up to date with one of the releases.
- `CommandEnds`: a command that was started ends.
- `EveryFileRuns`: after a migrate that ended well, the content of every file that
  was pending has run. It fails, section 6.
- `InSequence`, `NoTextLost`, `CutsLikeServer`: statements follow each other
  without overlap and without blanks around them; what is in none of them is
  blank or a delimiter; each is exactly what the reader of the script takes for a
  statement. The last one compares two programs that have nothing in common but
  the tokens: one that jumps, one that steps.
- `EachReplacedOnce`: the text is the one with each placeholder replaced, where
  values are not looked at again. It is compared with `Replaced`, a recursive
  function from the end of the text.
- `WordsMoveNoBoundary`: rian replaces before it splits. As long as the values are
  words and placeholders stand apart this makes no difference: the statements are
  those of the script as it was written, with placeholders replaced in each.
  `StandApart` is what it takes beyond the values, and each part of it is needed,
  as TLC shows when it is dropped: a value in front of `E'` makes one word of both,
  so that a backslash no longer escapes; a value next to a dollar makes it a tag;
  and a DELIMITER line with a placeholder names another delimiter afterwards.
- `EndingsDoNotCount`, `LinesOfFlyway`: the first is why a checkout with other line
  ends validates, the second why Flyway's checksums do.
- `FlagsArrive`: after normalizing and parsing, the flags are what the user meant,
  and so are their values, but for those taken for a flag, which have a second dash.
- `Precedence`: the keys with a value are the right ones, and each has the one
  `Effective` says: the flag's, or that of the last place that says something
  about the key, or the default.
- `SilentOrWarned`: the warnings are the places without effect that are not silent in
  one of the two ways of section 2, each once, in their order, and only they.
- `ConnectsAsTold`: from arguments, environment, files and URL to the session.

## 5. What is proved

Every safety property of the passing runs, for every value of the constants, from
the named assumptions beside them: the files come in the order of `Scan`, which
`ResultIsRelease` shows they do; a history some tool wrote has failed rows only on
top; `Procs` is finite; a migration and its settings are texts over the symbols;
options have any flag that is a word and any text for a value, in both forms.
Where a theorem assumes more, its statement says so
(`ASSUME NoTwins PROVE ...`), and the assumption is one that a run evaluates or a
configuration satisfies.

The engine:

- `TypeCorrect` (`OrderProofs`): `TypeOK`. The invariant adds the shape of each
  job, because the row a process records is well formed only when its job is.
- `ViewsAreFreshOrStale`, `RecordedInOrder`, `SuccessKept`, `FailureBlocks`
  (`OrderProofs`). None of the three properties is inductive. What makes them
  true is the invariant `OrderInv`: a process that relies on what it read either
  has a *fresh* view (everything successful is below its rank, the rank before
  is taken, a failed row can only be at its rank, and nothing recorded is as
  high as what it has to do), or the rank it will use is taken by a successful
  row. The second case is final, because such rows are never removed, and ends
  in an INSERT that fails. All fresh processes aim at one rank, so whoever
  records a success makes all others stale; a failed row leaves them fresh but
  blocked, and repair unblocks them without making them wrong. On PostgreSQL at
  most one transaction holds a rank.
- `EffectsAgree` (`SerialProofs`): `EffectsMatchRows`. On MySQL the invariant
  counts the processes that have run a statement and not yet recorded it.
- `DecisionsStand`, `ImplementsLedger`, `OkMeansDone` (`SerialProofs`):
  `ActsSerially`, that `Rian` implements `Ledger`, and `OkMeansUpToDate`. They
  assume `NoTwins`, that no release has two repeatable migrations of one
  description; where that fails `OkMeansUpToDate` does too (run `Twins`). `OrderInv`
  gives the rank of a new row. What it lacks is that the decision, made when the
  history was read, still stands when the row is written. The invariant
  `SerialInv` says so: what a job has still to do is what `Pending` computes from
  the rows below its rank, and these validate. Rows of others come at its rank or
  above, so it never has to look at them; when one of them is successful the job
  is stale, and ends in an INSERT that fails. Repair touches no successful row,
  and each row of its own takes one migration off the list, because no other
  pending one shares its version or description.
- `InfoTellsTheTruth` (`SerialProofs`): `InfoIsTrue`, from `EffectsAgree`: the row by
  which a migration counts as applied, the last of its description for a repeatable
  one, has the checksum of the file, and the statements of that content ran. It
  assumes that the history began with at most one baseline (`OneBaseline`): with
  two, the lower one is shown as applied too, and nothing ran for it.
- `OneFinishes` (`SerialProofs`): `SomeoneFinishes`, for orderly deployments
  (`Orderly`: only migrates, on PostgreSQL, over releases of which none reverts
  what another did, on a database that is fresh or that one of them was deployed
  on, and a statement fails only when it ran before). The invariant `ProgressInv`
  finds the winner: as long as the history is not up to date with a release, some
  process has not been overtaken, because its rank is free or it has not read the
  history yet and there is none. Such a process cannot fail: a statement of its
  migrations that had run would be recorded (`EffectsAgree`), below its rank,
  where its decision has taken it into account (`DecisionsStand`). For this
  every row must be traced to a release (`Traced`), a repeatable one to the
  release whose versions are below it; otherwise a repeatable migration might
  have run in between and been replaced since.

Scan and version:

- `CompareIsTotalPreorder`, `KeysAgree` (`ScanProofs`): comparing versions is
  a total preorder, and two versions have one key exactly when they compare
  equal. Duplicate detection and validation use keys, the rest compares.
- `RefusesForCause` (`ScanProofs`): `RefusedForCause`, by `KeysAgree` and an
  invariant about the files visited so far.
- `ResultInOrder`, `ResultComplete` (`ScanProofs`): `InOrder` and `NothingLost`.
  With their positions to decide, migrations are totally ordered, so the number
  of those that come no later is another one for each: `SortedRearranges` gets
  a bijection from that. Versions ascend strictly because the invariant keeps
  their keys distinct.
- `VersionsHaveNumbers`, `ResultIsRelease` (`ScanProofs`): why `History` and `Rian`
  may have a number for a version. Every finite set of versions has numbers that
  keep its order and tell apart what keys tell apart (a version's number is how many
  are below it), and with any such numbers the result of `Scan` is ordered as
  `DisksAssumption` says. That a migration's file name and description carry over is
  not stated: the two modules abstract them differently.

Scripts:

- `StatementsInOrder`, `NothingGetsLost` (`SplitProofs`): `InSequence` and
  `NoTextLost`, for every set of migrations and every text over the symbols. The
  invariant adds that `Substitute` builds a text over the symbols, that the
  delimiter stays the default one in a script without delimiter lines, and that
  before the call nothing has moved. That a statement's text is covered follows
  from `Flush` taking the first and the last symbol that is not blank.
- `ReplacedOnce` (`SubstituteProofs`): `EachReplacedOnce`, for every prefix, suffix and
  value, also where they overlap or are empty. The invariant `ReplacedSoFar`: what
  is built so far, followed by what the rest of the migration reads as, is what
  the whole of it reads as. A step that copies text up to a placeholder uses that
  text without a prefix reads as itself.
- `CutWhereItEnds` (`SplitProofs`): `CutsLikeServer`, for every script, delimiter
  lines included, and every reader that keeps the rules on which `Split` agrees
  (`Agrees`; the reader of `Prepare.cfg` is one), provided that the script has no
  backquote or the reader knows them (`QuotesAgree`). With any of the other rules
  there are scripts on which it is false (the table in section 2). The
  invariant `Follows` says where the two programs meet: whenever `Split` stops at
  a symbol, the reader meets that symbol in the mode `Split` takes for granted
  (`CodeAt` between tokens, `LineEndAt` at the line feed behind a comment, `QuoteAt`
  within a literal), has met no delimiter since `cut` began (`Uncut`), and the
  statements found are those between the delimiters before (`Between`). Each jump
  of `Split` is then an induction over the symbols jumped over: the reader stays in
  the comment or the body (`StaysIn`), and reaches its end where `Split` looks for
  it (`Enclosed`). `LineEndAt` is needed because the reader ends a line comment
  with the line feed, while `Split` stops before it and goes on from there as if
  it were code.
- `WordsKeepBoundaries` (`SubstituteProofs`): `WordsMoveNoBoundary`, for every
  migration and every reader as above, provided that placeholders are marked
  (`MarkedPlaceholders`): prefix and suffix are made of `@`, `{` and `}`, the prefix
  perhaps behind a dollar sign, and names of letters. The default `${` and `}` and the
  `@@` of the tests are such marks, and every state of the run that the property
  speaks of has them. The theorem needs the condition: a prefix that is a quote or a
  comment sign hides what is behind it once it is gone. By `ReplacedOnce` and
  `CutWhereItEnds` what is left to show is about two texts, the migration and its
  result, which are `Aligned`: each symbol of the migration is copied, or it is inert
  (part of no token) and gives words. Their readers go in lockstep (`Lockstep`): they
  are in the same mode at each symbol that is copied, and in the mode of before at
  each that is not (`Inside`). The difficulty is what a reader looks ahead for or back
  at: a tag that has to end (`AlignedTag`), an `E` before a quote (`AlignedE`), a word
  that a name or a dollar sign would continue; `StandApart` is what keeps these the
  same, and what is still to come of a token is always copied. From this follow the
  same cuts (`CutsMap`), the same blanks and so the same statements
  (`StatementsSame`). That the result between two cuts is what lies between them in
  the migration, replaced on its own (`SliceReplaced`), holds because a cut never falls
  into a placeholder.

Checksum:

- `EndingsNeverCount`, `LinesAreFlyways` (`ChecksumProofs`): `EndingsDoNotCount` and
  `LinesOfFlyway`, for every content. The invariants carry the recursive
  functions along: `SumInv` ties what the bytes up to `i` read as to the lines
  found and the line begun, `JavaInv` says in which state Java's reader is
  at `i`. The two part ways behind a carriage return: the code takes a line feed
  that follows along at once, the reader only when it comes to it.

Command line and configuration (`CommandLineProofs`), for command lines, files and
environments of any length:

- `FlagsAsGiven`: `FlagsArrive`, the exception included: it says of every value which
  one arrives. The invariant `ParseInv`: what pflag has still to
  parse are the options from some point on, as they were typed and normalized,
  and the flags are what the options before that point mean.
- `SourcesTakePrecedence`, `WarnsUnlessSilent`: `Precedence` and
  `SilentOrWarned`. The invariant `LoadInv` states both for the places that
  have been passed so far (`ValuesFrom` and `WarnsFrom`, of the set `Gone`): each key
  has the value of the last of them, and the warnings are an enumeration in order
  of those to be reported. A line adds one place, which is last.
- `ConnectsAsConfigured`: `ConnectsAsTold`, from `Precedence` for `url` and `user`.

Recursive functions are not opaque to the prover. The induction
theorems of the library take an operator as a parameter; `NatSets` states
induction over the set of positions where a fact holds instead (`NatInd`), and
shows that a recursive function on an initial segment of the naturals satisfies
its equations (`NatRec`). `Texts`, `JavaReader`, `AllTyped`, `AllMeant`, `Rests` and
`Modes` are written as such functions for that reason.

Only model-checked, of the properties of the passing runs:

- `CommandEnds`: liveness under fairness is out of the prover's reach.

## 6. Where code and documentation disagree

- `MyFailure`. `db/conn.go:18-19` says that on MySQL a failed migration is
  recorded with `success=false` and requires repair. Two processes migrate at
  once; one records V1 while the other's V1 fails on what the first created; the
  INSERT of the failed row meets the rank of the first and is refused, and
  `mysql/conn.go:149-152` returns the first error only. The failure leaves no
  trace in the history.
- `Twins`. `history.go:53-55` says that a repeatable migration is pending when it
  was never applied or its checksum changed since. `Scan` refuses two files of
  one version but accepts two repeatable ones of one description, which is their
  key in the history. Each one's row makes the other one pending: the first run of
  `migrate` applies both, and from then on each run applies the one whose checksum
  the latest row does not have, so that they alternate for ever.
- `SameName`. `engine.go:77` says that `Migrate` applies all pending migrations.
  Contents and checksums are kept in maps by the base name of the file
  (`engine.go:67`). Two repeatable files of one name in two locations are both
  pending; the content of the one read last runs twice, and the other one never.
- `Backslash`. `split.go:70-72` says that in a plain literal a backslash is literal
  and calls this MySQL's default. MySQL escapes with a backslash unless
  `NO_BACKSLASH_ESCAPES` is set, so `'it\'s; fine'` is torn.

The table of rules in section 2 names more scripts on which `Split` and a reader
disagree. They have no run of their own because no document of the repository
speaks of them.

An argument such as `-password -s3cret` arrives as `--s3cret`: arguments are rewritten
before anyone knows which of them are values (`main.go:42`). The comment above
(`main.go:36-37`) says that "non-flag arguments are left unchanged", which holds of
the values that do not look like a flag only. `FlagsArrive` states this exactly, in
place of a run that violates the comment: a value changes if and only if it is an
argument of its own that begins with a single dash and is longer than two
characters, and then it gets a second dash and nothing else.

## 7. Plan

Done: all components that have behaviour; the theorems above. To come, in this
order:

1. `Rian` with the releases that `Scan` returns in place of `DisksAssumption`: the order
   is proved (`ResultIsRelease`), descriptions and file names are still abstracted
   in two ways.
2. Further faults: a statement that goes on in the server after its client died,
   a PostgreSQL migration that contains `COMMIT`, a pool that changes connections.

Not modelled and not planned: the text of messages and tables, the parameters of a
DSN beyond host and user, the bytes of rows (`insertArgs`), what a server does
with a byte-order mark that stays in the text of a statement, packaging, CI.
