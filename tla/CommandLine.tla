----------------------------- MODULE CommandLine -----------------------------
(***************************************************************************)
(* How a command of cmd/rian/main.go gets from its arguments to a database *)
(* connection: the arguments are normalized, parsed by pflag, the          *)
(* configuration is loaded, and the URL chooses the dialect.               *)
(*                                                                         *)
(* What the user means is a sequence of options [flag, value, form, dashes] *)
(* and a command.  An argument is a sequence of symbols: the characters    *)
(* "-", "=", "h" and "v", and words, which are longer and begin with no    *)
(* dash.  A URL is <<scheme, host>> or <<scheme, user, "@", host>>.  The   *)
(* flag table is treated like user.                                        *)
(***************************************************************************)
EXTENDS Config

CONSTANT Scenarios  \* [options, disk, environ]: what a command may be started with

\* A flag is a word, its value anything.  The value of a list is one item or none: one
\* with commas is like several options, all but the first with "=".
Options ==
  [flag : STRING \ {"-", "="}, value : Seq(STRING), form : {"=", "space"}, dashes : {1, 2}]

\* Lines of files and variables of the environment: keys with a text or a list of texts.
Settings ==
  [key : {Locations}, value : Seq(Seq(STRING))]
    \cup [key : Seq(STRING) \ {Locations}, value : Seq(STRING)]
EnvironmentVariables ==
  [name : {<<"LOCATIONS">>}, value : Seq(Seq(STRING))]
    \cup [name : Seq(STRING) \ {<<"LOCATIONS">>}, value : Seq(STRING)]

ASSUME ScenariosAssumption ==
  \A s \in Scenarios :
    /\ s.options \in Seq(Options)
    /\ \A f \in DOMAIN s.disk : s.disk[f] \in Seq(Settings)
    /\ s.environ \in Seq(EnvironmentVariables)

VARIABLES
  options,      \* what the user means
  args,         \* the arguments, normalized in main
  next,         \* the argument pflag parses next
  command,      \* the command, <<>> before it is found
  session,      \* [dialect, user] of the connection, or none
  stage         \* "start", "parse", "load", "connected", "failed" or "help"

loadVars == <<disk, environ, flags, cfg, files, at, loading>>
vars == <<options, args, next, command, session, stage, loadVars>>

FlagNames == {"url", "user", "password", "locations", "configFiles", "placeholders"}
NoFlags == [configFiles |-> <<>>, given |-> <<>>]
NoSession == [dialect |-> "none", user |-> <<>>]

\* An option the way it is typed: -flag=value, or -flag value.
Typed(o) ==
  LET flag == [k \in 1..o.dashes |-> "-"] \o <<o.flag>>
  IN  IF o.form = "=" THEN <<flag \o <<"=">> \o o.value>> ELSE <<flag, o.value>>

\* The arguments of the first n options, for each n.
AllTyped(given) ==
  LET typed[n \in 0..Len(given)] == IF n = 0 THEN <<>> ELSE typed[n - 1] \o Typed(given[n])
  IN  typed

Init ==
  \E s \in Scenarios, words \in {<<>>, <<<<"migrate">>>>} :
    /\ options = s.options
    /\ args = AllTyped(options)[Len(options)] \o words
    /\ next = 1
    /\ command = <<>>
    /\ session = NoSession
    /\ stage = "start"
    /\ LoadInit(s.disk, s.environ, NoFlags)

-----------------------------------------------------------------------------
\* An argument that begins with a dash.
Dash(a) == a # <<>> /\ a[1] = "-"

\* More than two characters, the first a dash, the second none.
SingleDashed(a) ==
  /\ Len(a) > 1 /\ a[1] = "-" /\ a[2] # "-"
  /\ Len(a) > 2 \/ a[2] \notin {"=", "h", "v"}

Doubled(a) == IF SingleDashed(a) THEN <<"-">> \o a ELSE a

\* Faulty: an argument without characters is left out.
NormalizeDropping ==
  /\ stage = "start"
  /\ args' = SelectSeq([k \in 1..Len(args) |-> Doubled(args[k])], LAMBDA a : a # <<>>)
  /\ stage' = "parse"
  /\ UNCHANGED <<options, next, command, session, loadVars>>

\* normalizeFlywayArgs.
Normalize ==
  /\ stage = "start"
  /\ args' = [k \in 1..Len(args) |-> Doubled(args[k])]
  /\ stage' = "parse"
  /\ UNCHANGED <<options, next, command, session, loadVars>>

Parsing == stage = "parse" /\ next <= Len(args)
Arg == args[next]
IsLong == Parsing /\ Len(Arg) > 2 /\ Arg[1] = "-" /\ Arg[2] = "-"

\* An item of a list, unless it is empty.
Items(value) == IF value = <<>> THEN <<>> ELSE <<value>>

\* The length of a placeholder's name, up to the first "=".
NameLength(value) ==
  CHOOSE n \in 0..Len(value) : /\ n = Len(value) \/ value[n + 1] = "="
                              /\ \A k \in 1..n : value[k] # "="

\* The flags after one more: items of a list are collected, placeholders by name,
\* of any other flag the last value counts.
With(f, name, value) ==
  CASE name = "configFiles" -> [f EXCEPT !.configFiles = @ \o Items(value)]
    [] name = "locations" ->
         LET old == IF Locations \in DOMAIN f.given THEN f.given[Locations] ELSE <<>>
         IN  [f EXCEPT !.given = Put(@, Locations, old \o Items(value))]
    [] name = "placeholders" ->
         LET n == NameLength(value)
         IN  [f EXCEPT !.given = Put(@, <<"placeholders.">> \o SubSeq(value, 1, n),
                                        SubSeq(value, n + 2, Len(value)))]
    [] OTHER -> [f EXCEPT !.given = Put(@, <<name>>, value)]

\* Pflag takes a placeholder only with "=", any other value as it is.
Accepts(name, value) == name = "placeholders" => \E k \in 1..Len(value) : value[k] = "="

\* A flag of rian's with its value, which takes n arguments.
Give(name, value, n) ==
  /\ Accepts(name, value)
  /\ flags' = With(flags, name, value)
  /\ next' = next + n
  /\ UNCHANGED <<options, args, command, session, stage, disk, environ, cfg, files, at, loading>>

FlagWithValue ==
  /\ IsLong /\ Arg[3] \in FlagNames /\ Len(Arg) > 3
  /\ Give(Arg[3], SubSeq(Arg, 5, Len(Arg)), 1)

\* pflag takes the next argument for the value, whatever it looks like.
FlagBeforeValue ==
  /\ IsLong /\ Arg[3] \in FlagNames /\ Len(Arg) = 3 /\ next < Len(args)
  /\ Give(Arg[3], args[next + 1], 2)

\* Neither of them.
NotTaken ==
  \/ Arg[3] \notin FlagNames
  \/ Len(Arg) = 3 /\ next = Len(args)
  \/ Len(Arg) > 3 /\ ~ Accepts(Arg[3], SubSeq(Arg, 5, Len(Arg)))
  \/ Len(Arg) = 3 /\ next < Len(args) /\ ~ Accepts(Arg[3], args[next + 1])

Stop(s) == stage' = s /\ UNCHANGED <<options, args, next, command, session, loadVars>>

\* An unknown flag, a flag without a value, a placeholder without "=", a word that is no
\* command.
ParseFails ==
  /\ \/ IsLong /\ NotTaken
     \/ Parsing /\ command = <<>> /\ Arg # <<"migrate">> /\ ~ Dash(Arg)
  /\ Stop("failed")

\* -h or -v: help, the version or an error, and no command runs.
Letter == Parsing /\ Len(Arg) = 2 /\ Arg[1] = "-" /\ Arg[2] # "-" /\ Stop("help")

Word ==
  /\ Parsing
  /\ Arg = <<"migrate">> \/ (command # <<>> /\ ~ Dash(Arg)) \/ Arg = <<"-">>
  /\ command' = IF command = <<>> THEN Arg ELSE command
  /\ next' = next + 1
  /\ UNCHANGED <<options, args, session, stage, loadVars>>

\* All arguments are parsed: the command resolves its configuration.
Resolve ==
  /\ stage = "parse" /\ next > Len(args) /\ command # <<>>
  /\ stage' = "load"
  /\ loading' = "start"
  /\ UNCHANGED <<options, args, next, command, session, disk, environ, flags, cfg, files, at>>

NoCommand == stage = "parse" /\ next > Len(args) /\ command = <<>> /\ Stop("help")

Loading == stage = "load" /\ LoadNext /\ UNCHANGED <<options, args, next, command, session, stage>>

LoadFails == stage = "load" /\ loading = "failed" /\ Stop("failed")

\* The prefixes of a URL, which tell the dialect.
Prefixes == [PostgreSQL |-> {"jdbc:postgresql:", "postgres://", "postgresql://"},
             MySQL |-> {"jdbc:mysql:", "mysql://"}]

Dialect(url) == IF url[1] \in Prefixes.MySQL THEN "MySQL" ELSE "PostgreSQL"

Url == cfg.values[<<"url">>]
UrlUser(url) == IF Len(url) > 2 /\ url[3] = "@" THEN <<url[2]>> ELSE <<>>

Supported == Url # <<>> /\ Url[1] \in Prefixes.PostgreSQL \cup Prefixes.MySQL
\* mysql.DSN wants a host.
HasHost == Dialect(Url) = "MySQL" => Len(Url) > 1

\* Faulty: what the URL says of the user goes first.
ConnectAsUrlUser ==
  /\ stage = "load" /\ loading = "done" /\ Supported /\ HasHost
  /\ session' = [dialect |-> Dialect(Url),
                 user |-> IF UrlUser(Url) # <<>> THEN UrlUser(Url) ELSE cfg.values[<<"user">>]]
  /\ stage' = "connected"
  /\ UNCHANGED <<options, args, next, command, loadVars>>

\* A user in the configuration goes before that of the URL.
Connect ==
  /\ stage = "load" /\ loading = "done" /\ Supported /\ HasHost
  /\ session' = [dialect |-> Dialect(Url),
                 user |-> IF cfg.values[<<"user">>] # <<>> THEN cfg.values[<<"user">>] ELSE UrlUser(Url)]
  /\ stage' = "connected"
  /\ UNCHANGED <<options, args, next, command, loadVars>>

\* An unsupported URL, one without a host, or one that does not parse, and any when the
\* server does not answer or refuses.
ConnectFails == stage = "load" /\ loading = "done" /\ Stop("failed")

Next ==
  \/ Normalize \/ FlagWithValue \/ FlagBeforeValue \/ ParseFails \/ Letter \/ Word
  \/ Resolve \/ NoCommand \/ Loading \/ LoadFails \/ Connect \/ ConnectFails

Spec == Init /\ [][Next]_vars

-----------------------------------------------------------------------------
(* What must hold.                                                         *)

\* A value that is taken for a flag: an argument of its own, longer than two characters,
\* that begins with one dash.
TakenForFlag(o) == o.form = "space" /\ SingleDashed(o.value)

\* The value of an option as it arrives.
Received(o) == IF TakenForFlag(o) THEN <<"-">> \o o.value ELSE o.value

\* The flags after the first n options, for each n.
AllMeant ==
  LET meant[n \in 0..Len(options)] ==
        IF n = 0 THEN NoFlags ELSE With(meant[n - 1], options[n].flag, Received(options[n]))
  IN  meant

\* Once a command runs, the flags are those the user gave, whether they were typed with
\* one dash or two, before the value or with "=" (main.go:34-35), and so are the values:
\* all but those taken for a flag, which get a second dash and nothing else, although
\* "non-flag arguments are left unchanged" (main.go:37).
FlagsArrive ==
  stage \in {"load", "connected"} => flags = AllMeant[Len(options)]

\* The connection is opened with the dialect of the URL in effect, as the user in
\* effect, and as the URL's only when that is empty (postgres/conn.go:30-31,
\* mysql/conn.go:34-35), through all of flags, environment and files.
ConnectsAsTold ==
  stage = "connected" =>
    LET url == Effective(<<"url">>) user == Effective(<<"user">>)
    IN  /\ url[1] \in Prefixes[session.dialect]
        /\ session.user = IF user = <<>> THEN UrlUser(url) ELSE user

=============================================================================
