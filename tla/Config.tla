------------------------------- MODULE Config -------------------------------
(***************************************************************************)
(* Load of internal/config/config.go: the configuration is built from the  *)
(* defaults, the configuration files, the environment and the flags, each  *)
(* read in its order and each overriding what came before.                 *)
(*                                                                         *)
(* A key is a sequence of words: <<"placeholder", "Replacement">> is       *)
(* placeholderReplacement, and <<"PLACEHOLDER", "REPLACEMENT">> the name   *)
(* of its environment variable without FLYWAY_.  <<"placeholders.", n>> is *)
(* placeholders.n.  The keys that are strings (user, prefixes, suffix ...) *)
(* are all treated like url and user; those that are lists like locations. *)
(* A text is a sequence of parts, <<>> the empty one.  A value is a text,  *)
(* that of a list a sequence of texts, its items.  Files are named by      *)
(* texts.                                                                  *)
(***************************************************************************)
EXTENDS Integers, Sequences

VARIABLES disk,    \* what is on the disk: a sequence of lines for each file there is
          environ, \* the environment: a sequence of [name, value]
          flags,   \* the flags given: [configFiles, given], values by key
          cfg,     \* [values, warnings]: values by key, the keys warned about
          files,   \* the files still to be read
          at,      \* the line or variable to be read next
          loading  \* "waiting" to be called, "start", "files", "environ", "flags", "done" or "failed"

Texts == {<<"url">>, <<"user">>, <<"password">>}
Locations == <<"locations">>
Replacement == <<"placeholder", "Replacement">>
Schemas == {<<"schemas">>, <<"default", "Schema">>}
IsPlaceholder(key) == key # <<>> /\ key[1] = "placeholders."

\* The keys rian honours, and those it knows.
Honoured(key) == key \in Texts \cup {Locations, Replacement} \/ IsPlaceholder(key)
Known(key) == Honoured(key) \/ key \in Schemas

Default ==
  [key \in Texts \cup {Locations, Replacement} |->
     IF key = Locations THEN <<<<"filesystem:sql">>>>
     ELSE IF key = Replacement THEN <<"true">> ELSE <<>>]

\* Load when it has not been called yet.
LoadInit(onDisk, environment, given) ==
  /\ disk = onDisk /\ environ = environment /\ flags = given
  /\ cfg = [values |-> Default, warnings |-> <<>>]
  /\ files = <<>>
  /\ at = 1
  /\ loading = "waiting"

-----------------------------------------------------------------------------
\* f with a value for a key, and f with what g says.
Put(f, key, value) == [k \in DOMAIN f \cup {key} |-> IF k = key THEN value ELSE f[k]]
Override(f, g) == [k \in DOMAIN f \cup DOMAIN g |-> IF k \in DOMAIN g THEN g[k] ELSE f[k]]

\* splitList drops empty items.
SplitList(value) == SelectSeq(value, LAMBDA item : item # <<>>)

\* parseBool leaves a value that is neither true nor false without effect.
Converted(key, value, old) ==
  IF key = Locations THEN SplitList(value)
  ELSE IF key = Replacement /\ value \notin {<<"true">>, <<"false">>} THEN old
  ELSE value

ValueOf(c, key) == IF key \in DOMAIN c.values THEN c.values[key] ELSE <<>>

Warn(c, key) == [c EXCEPT !.warnings = Append(@, key)]

\* Config.set of a key that is known.
Set(c, key, value) ==
  IF key \in Schemas THEN Warn(c, key)
  ELSE [c EXCEPT !.values = Put(@, key, Converted(key, value, ValueOf(c, key)))]

DefaultFile == <<"flyway.conf">>

\* The files named by the flags, or ./flyway.conf if there is one.
ChooseFiles ==
  /\ loading = "start"
  /\ files' = IF flags.configFiles = <<>> /\ DefaultFile \in DOMAIN disk
              THEN <<DefaultFile>> ELSE flags.configFiles
  /\ loading' = "files"
  /\ UNCHANGED <<disk, environ, flags, cfg, at>>

Reading == loading = "files" /\ files # <<>>

\* A file that is not there.
OpenFails ==
  /\ Reading /\ Head(files) \notin DOMAIN disk
  /\ loading' = "failed"
  /\ UNCHANGED <<disk, environ, flags, cfg, files, at>>

\* The next line of the file: empty or a comment, not a setting of rian's, or a
\* setting.
Line == disk[Head(files)][at]

HasLine == Reading /\ Head(files) \in DOMAIN disk /\ at <= Len(disk[Head(files)])

\* Faulty: what is not understood is passed over.
ReadSilently ==
  /\ HasLine /\ Line.key # <<"too long">>
  /\ cfg' = IF Known(Line.key) THEN Set(cfg, Line.key, Line.value) ELSE cfg
  /\ at' = at + 1
  /\ UNCHANGED <<disk, environ, flags, files, loading>>

ReadLine ==
  /\ HasLine /\ Line.key # <<"too long">>
  /\ cfg' = IF Line.key = <<"comment">> THEN cfg
            ELSE IF Known(Line.key) THEN Set(cfg, Line.key, Line.value)
            ELSE Warn(cfg, Line.key)
  /\ at' = at + 1
  /\ UNCHANGED <<disk, environ, flags, files, loading>>

\* A line bufio.Scanner has no room for ends the reading with an error.
ReadFails ==
  /\ HasLine /\ Line.key = <<"too long">>
  /\ loading' = "failed"
  /\ UNCHANGED <<disk, environ, flags, cfg, files, at>>

FileRead ==
  /\ Reading /\ Head(files) \in DOMAIN disk /\ at > Len(disk[Head(files)])
  /\ files' = Tail(files)
  /\ at' = 1
  /\ UNCHANGED <<disk, environ, flags, cfg, loading>>

FilesRead ==
  /\ loading = "files" /\ files = <<>>
  /\ loading' = "environ"
  /\ UNCHANGED <<disk, environ, flags, cfg, files, at>>

Lower ==
  [URL |-> "url", USER |-> "user", PASSWORD |-> "password", LOCATIONS |-> "locations", PLACEHOLDER |-> "placeholder",
   REPLACEMENT |-> "replacement", SCHEMAS |-> "schemas", HOME |-> "home", FOO |-> "foo"]

Capital == [replacement |-> "Replacement"]

\* envToCamel.
CamelCase(words) ==
  [k \in DOMAIN words |-> IF k = 1 THEN Lower[words[1]] ELSE Capital[Lower[words[k]]]]

\* The key of an environment variable.
EnvKey(name) ==
  IF name[1] = "PLACEHOLDERS" THEN <<"placeholders.", Lower[name[2]]>> ELSE CamelCase(name)

\* A variable of the environment; one that is not known has no effect.
ReadVariable ==
  /\ loading = "environ" /\ at <= Len(environ)
  /\ LET key == EnvKey(environ[at].name)
     IN  cfg' = IF Known(key) THEN Set(cfg, key, environ[at].value) ELSE cfg
  /\ at' = at + 1
  /\ UNCHANGED <<disk, environ, flags, files, loading>>

EnvironRead ==
  /\ loading = "environ" /\ at > Len(environ)
  /\ loading' = "flags"
  /\ UNCHANGED <<disk, environ, flags, cfg, files, at>>

\* Faulty: an empty flag counts as none.
ApplyFlagsNotEmpty ==
  /\ loading = "flags"
  /\ LET given == [k \in {key \in DOMAIN flags.given : flags.given[key] # <<>>} |-> flags.given[k]]
     IN  cfg' = [cfg EXCEPT !.values = Override(@, given)]
  /\ loading' = "done"
  /\ UNCHANGED <<disk, environ, flags, files, at>>

\* applyFlags: the flags that were given, as they were given.
ApplyFlags ==
  /\ loading = "flags"
  /\ cfg' = [cfg EXCEPT !.values = Override(@, flags.given)]
  /\ loading' = "done"
  /\ UNCHANGED <<disk, environ, flags, files, at>>

LoadNext ==
  \/ ChooseFiles \/ OpenFails \/ ReadLine \/ ReadFails \/ FileRead \/ FilesRead
  \/ ReadVariable \/ EnvironRead \/ ApplyFlags

-----------------------------------------------------------------------------
(* What must hold.                                                         *)

\* The files that are read.
FilesNamed ==
  IF flags.configFiles # <<>> THEN flags.configFiles
  ELSE IF DefaultFile \in DOMAIN disk THEN <<DefaultFile>> ELSE <<>>

\* The settings of the environment.
Variables ==
  [k \in 1..Len(environ) |-> [key |-> EnvKey(environ[k].name), value |-> environ[k].value]]

\* The layers of settings: the files in their order, then the environment.
EnvironLayer == Len(FilesNamed) + 1
Layer(l) == IF l < EnvironLayer THEN disk[FilesNamed[l]] ELSE Variables

\* Where settings come from, in the order of precedence: a layer, and a line or
\* variable of it.
Places == UNION {{l} \X (1..Len(Layer(l))) : l \in 1..EnvironLayer}
Before(p, q) == p[1] < q[1] \/ (p[1] = q[1] /\ p[2] < q[2])
SettingAt(p) == Layer(p[1])[p[2]]

\* Whether a setting says something about a key.
Sets(setting, key) ==
  setting.key = key /\ (key = Replacement => setting.value \in {<<"true">>, <<"false">>})

\* What a key's value has to be: the flag's, as given; else that of the last
\* setting of it, without empty items; else the default.
Effective(key) ==
  LET set == {p \in Places : Sets(SettingAt(p), key)}
      last == SettingAt(CHOOSE p \in set : \A q \in set : q = p \/ Before(q, p)).value
  IN  IF key \in DOMAIN flags.given THEN flags.given[key]
      ELSE IF set = {} THEN Default[key]
      ELSE IF key = Locations THEN SplitList(last)
      ELSE last

\* Flags override the environment, the environment the files, and a later file or
\* line an earlier one (config.go:3, 73-76); a flag given without a value
\* overrides as well (config.go:61-62), and a value that is none overrides nothing.
\* Every key that is honoured and set in some source has a value, and no other one
\* but those with a default.
Precedence ==
  loading = "done" =>
    /\ DOMAIN cfg.values =
         DOMAIN Default \cup DOMAIN flags.given
           \cup {key \in {SettingAt(p).key : p \in Places} : Honoured(key)}
    /\ \A key \in DOMAIN cfg.values : cfg.values[key] = Effective(key)

\* The places of settings without effect; a comment is no setting.
Ignored ==
  {p \in Places : LET s == SettingAt(p)
                  IN  ~ (Honoured(s.key) /\ Sets(s, s.key)) /\ s.key # <<"comment">>}

\* Those that are passed over without a word: a placeholderReplacement that is neither
\* true nor false (config.go:134, 251-252), and variables of the environment that are no
\* keys (config.go:177-178).
Silent ==
  {p \in Ignored : LET key == SettingAt(p).key
                   IN  key = Replacement \/ (p[1] = EnvironLayer /\ ~ Known(key))}

Reported == Ignored \ Silent

\* Every setting without effect is silent in one of the two ways above, or warned about:
\* lines of files that are no setting or have an unknown key, and keys that are known
\* but not honoured, in whatever source (config.go:7-8, 113-114).  Nothing else is warned
\* about, and the warnings come once each, in the order of the sources.
SilentOrWarned ==
  loading = "done" =>
    \E place \in [1..Len(cfg.warnings) -> Reported] :
      /\ \A k \in 1..Len(cfg.warnings) : cfg.warnings[k] = SettingAt(place[k]).key
      /\ \A j, k \in 1..Len(cfg.warnings) : j < k => Before(place[j], place[k])
      /\ \A p \in Reported : \E k \in 1..Len(cfg.warnings) : place[k] = p

=============================================================================
