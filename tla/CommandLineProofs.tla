-------------------------- MODULE CommandLineProofs --------------------------
(***************************************************************************)
(* Proofs about CommandLine and Config: for all command lines, files and   *)
(* environments, the flags arrive, the source of highest precedence wins,  *)
(* what has no effect is warned about or silent in a named way, and the    *)
(* connection is opened as the configuration in effect says.               *)
(***************************************************************************)
EXTENDS CommandLine, NatSets, SequenceTheorems

-----------------------------------------------------------------------------
(* Texts.                                                                  *)

Symbols == STRING \cup {"-", "=", "migrate", "flyway.conf"}
Arguments == Seq(Seq(Symbols))

-----------------------------------------------------------------------------
(* Places.                                                                 *)

\* The places before the n-th one of layer l.
Gone(l, n) == {p \in Places : Before(p, <<l, n>>)}

LoadTypes ==
  /\ \A f \in DOMAIN disk : disk[f] \in Seq(Settings)
  /\ environ \in Seq(EnvironmentVariables)
  /\ flags.configFiles \in Seq(Seq(Symbols))


LEMMA FilesNamedType ==
  ASSUME LoadTypes
  PROVE  FilesNamed \in Seq(Seq(Symbols)) /\ Len(FilesNamed) \in Nat /\ EnvironLayer = Len(FilesNamed) + 1
<1>1. FilesNamed \in Seq(Seq(Symbols))
  <2>1. <<DefaultFile>> \in Seq(Seq(Symbols)) /\ <<>> \in Seq(Seq(Symbols))
    <3>1. DefaultFile \in Seq(Symbols)
      BY DEF DefaultFile, Symbols
    <3> QED
      BY <3>1
  <2>2. flags.configFiles \in Seq(Seq(Symbols))
    BY DEF LoadTypes
  <2> QED
    BY <2>1, <2>2 DEF FilesNamed
<1>2. Len(FilesNamed) \in Nat
  BY <1>1, LenProperties
<1> QED
  BY <1>1, <1>2 DEF EnvironLayer

\* A place is a layer and a position in it.
LEMMA PlacesAre ==
  \A l, n : <<l, n>> \in Places <=> l \in 1..EnvironLayer /\ n \in 1..Len(Layer(l))
BY DEF Places

LEMMA PlaceIsPair ==
  \A p \in Places : /\ p = <<p[1], p[2]>>
                    /\ p[1] \in 1..EnvironLayer /\ p[2] \in 1..Len(Layer(p[1]))
BY DEF Places

\* The place of a setting that is read next joins those that are gone.
LEMMA Advance ==
  ASSUME LoadTypes, NEW l, NEW n, <<l, n>> \in Places
  PROVE  /\ Gone(l, n + 1) = Gone(l, n) \cup {<<l, n>>}
         /\ \A p \in Gone(l, n) : Before(p, <<l, n>>)
         /\ \A p \in Gone(l, n) : p # <<l, n>> /\ ~ Before(<<l, n>>, p)
<1>1. l \in Nat /\ n \in Nat
  BY FilesNamedType, PlacesAre
<1>2. \A p \in Places : p[1] \in Nat /\ p[2] \in Nat /\ p = <<p[1], p[2]>>
  BY FilesNamedType, PlaceIsPair
<1>3. \A p \in Places : Before(p, <<l, n + 1>>) <=> Before(p, <<l, n>>) \/ p = <<l, n>>
  BY <1>1, <1>2 DEF Before
<1>4. \A p \in Gone(l, n) : Before(p, <<l, n>>) /\ p # <<l, n>> /\ ~ Before(<<l, n>>, p)
  BY <1>1, <1>2 DEF Gone, Before
<1> QED
  BY <1>3, <1>4 DEF Gone

\* Behind the end of a layer the next one begins.
LEMMA NewLayer ==
  ASSUME LoadTypes, NEW l \in 1..EnvironLayer, NEW n \in Nat,
         Len(Layer(l)) \in Nat, n > Len(Layer(l))
  PROVE  Gone(l + 1, 1) = Gone(l, n)
<1>1. l \in Nat
  BY FilesNamedType
<1>2. \A p \in Places : /\ p[1] \in Nat /\ p[2] \in Nat /\ p[2] >= 1
                        /\ p[1] = l => p[2] <= Len(Layer(l))
  BY FilesNamedType, PlaceIsPair
<1>3. \A p \in Places : Before(p, <<l + 1, 1>>) <=> Before(p, <<l, n>>)
  <2>1. ASSUME NEW p \in Places PROVE Before(p, <<l + 1, 1>>) <=> Before(p, <<l, n>>)
    <3>1. CASE p[1] = l
      <4>1. p[2] < n
        BY <1>2, <3>1
      <4> QED
        BY <1>1, <1>2, <3>1, <4>1 DEF Before
    <3>2. CASE p[1] # l
      BY <1>1, <1>2, <3>2 DEF Before
    <3> QED
      BY <3>1, <3>2
  <2> QED
    BY <2>1
<1> QED
  BY <1>3 DEF Gone

-----------------------------------------------------------------------------
(* One setting.                                                            *)

\* Put changes the value of one key.
LEMMA PutFacts ==
  ASSUME NEW f, NEW key, NEW value
  PROVE  /\ DOMAIN Put(f, key, value) = DOMAIN f \cup {key}
         /\ Put(f, key, value)[key] = value
         /\ \A k \in DOMAIN f : k # key => Put(f, key, value)[k] = f[k]
BY DEF Put

\* A configuration as Load builds it.
IsConfig(c) == c = [values |-> c.values, warnings |-> c.warnings]

\* What is known is honoured or warned about.
LEMMA KnownKeys ==
  ASSUME NEW key
  PROVE  /\ Known(key) => (Honoured(key) <=> key \notin Schemas)
         /\ Honoured(key) => Known(key)
         /\ key \in Schemas => Known(key) /\ ~ Honoured(key)
         /\ key = <<"comment">> => ~ Known(key)
         /\ DOMAIN Default = Texts \cup {Locations, Replacement}
         /\ key \in DOMAIN Default => Honoured(key)
<1>1. key \in Schemas => ~ Honoured(key)
  <2>1. CASE key = <<"schemas">>
    BY <2>1 DEF Honoured, IsPlaceholder, Texts, Locations, Replacement
  <2>2. CASE key = <<"default", "Schema">>
    BY <2>2 DEF Honoured, IsPlaceholder, Texts, Locations, Replacement
  <2> QED
    BY <2>1, <2>2 DEF Schemas
<1>2. key = <<"comment">> => ~ Known(key)
  BY DEF Known, Honoured, IsPlaceholder, Schemas, Texts, Locations, Replacement
<1>3. DOMAIN Default = Texts \cup {Locations, Replacement}
  BY DEF Default
<1> QED
  BY <1>1, <1>2, <1>3 DEF Known, Honoured

\* Setting a key that is honoured changes its value only; one that is not is warned
\* about.
LEMMA SetFacts ==
  ASSUME NEW c, IsConfig(c), NEW key, Known(key), NEW value
  PROVE  /\ IsConfig(Set(c, key, value))
         /\ key \in Schemas =>
              /\ Set(c, key, value).values = c.values
              /\ Set(c, key, value).warnings = Append(c.warnings, key)
         /\ key \notin Schemas =>
              /\ Set(c, key, value).values =
                   Put(c.values, key, Converted(key, value, ValueOf(c, key)))
              /\ Set(c, key, value).warnings = c.warnings
<1>1. CASE key \in Schemas
  <2>1. Set(c, key, value) = [values |-> c.values, warnings |-> Append(c.warnings, key)]
    BY <1>1 DEF Set, Warn, IsConfig
  <2> QED
    BY <1>1, <2>1 DEF IsConfig
<1>2. CASE key \notin Schemas
  <2>1. Set(c, key, value) =
          [values |-> Put(c.values, key, Converted(key, value, ValueOf(c, key))),
           warnings |-> c.warnings]
    BY <1>2 DEF Set, IsConfig
  <2> QED
    BY <1>2, <2>1 DEF IsConfig
<1> QED
  BY <1>1, <1>2

-----------------------------------------------------------------------------
(* The configuration after some settings.                                  *)

Said(p, key) ==
  IF key = Locations THEN SplitList(SettingAt(p).value) ELSE SettingAt(p).value

Setting(R, key) == {p \in R : Sets(SettingAt(p), key)}

\* The values are those the settings at the places R make.
ValuesFrom(values, R) ==
  /\ DOMAIN values = DOMAIN Default \cup {key \in {SettingAt(p).key : p \in R} : Honoured(key)}
  /\ \A key \in DOMAIN values :
       \/ Setting(R, key) = {} /\ values[key] = Default[key]
       \/ \E p \in Setting(R, key) :
            /\ \A q \in Setting(R, key) : q = p \/ Before(q, p)
            /\ values[key] = Said(p, key)

\* The warnings are about the ignored ones among the places R, in their order.
WarnsAbout(warnings, R, place) ==
  /\ \A k \in 1..Len(warnings) : warnings[k] = SettingAt(place[k]).key
  /\ \A j, k \in 1..Len(warnings) : j < k => Before(place[j], place[k])
  /\ \A p \in Reported \cap R : \E k \in 1..Len(warnings) : place[k] = p

Keys == {SettingAt(p).key : p \in Places}

WarnsFrom(warnings, R) ==
  /\ warnings \in Seq(Keys)
  /\ \E place \in [1..Len(warnings) -> Reported \cap R] : WarnsAbout(warnings, R, place)

\* The configuration c becomes d by the setting at a place: one that is known is set,
\* another one is warned about or passed over.
Applied(c, d, here) ==
  LET s == SettingAt(here)
  IN  /\ Known(s.key) => d = Set(c, s.key, s.value)
      /\ ~ Known(s.key) /\ here \in Reported => d = Warn(c, s.key)
      /\ ~ Known(s.key) /\ here \notin Reported => d = c

\* The sources do not change while they are read.
LEMMA SourcesStay ==
  ASSUME UNCHANGED <<disk, environ, flags>>
  PROVE  /\ Places' = Places /\ Reported' = Reported /\ EnvironLayer' = EnvironLayer
         /\ FilesNamed' = FilesNamed /\ LoadTypes' <=> LoadTypes
         /\ \A p : SettingAt(p)' = SettingAt(p)
         /\ \A l : Layer(l)' = Layer(l)
         /\ \A l, n : Gone(l, n)' = Gone(l, n)
<1>1. FilesNamed' = FilesNamed
  BY DEF FilesNamed
<1>2. EnvironLayer' = EnvironLayer
  BY <1>1 DEF EnvironLayer
<1>3. Variables' = Variables
  BY DEF Variables
<1>4. \A l : Layer(l)' = Layer(l)
  BY <1>1, <1>2, <1>3 DEF Layer
<1>5. \A p : SettingAt(p)' = SettingAt(p)
  BY <1>4 DEF SettingAt
<1>6. Places' = Places
  BY <1>2, <1>4 DEF Places
<1>7. Reported' = Reported
  BY <1>2, <1>5, <1>6 DEF Reported, Ignored, Silent
<1>8. \A l, n : Gone(l, n)' = Gone(l, n)
  BY <1>6 DEF Gone
<1> QED
  BY <1>1, <1>2, <1>4, <1>5, <1>6, <1>7, <1>8 DEF LoadTypes

\* What is warned about, in a file and in the environment.
LEMMA ReportedAre ==
  ASSUME NEW p \in Places, NEW key, key = SettingAt(p).key
  PROVE  /\ p[1] # EnvironLayer => (p \in Reported <=> ~ Honoured(key) /\ key # <<"comment">>)
         /\ p[1] = EnvironLayer => (p \in Reported <=> key \in Schemas)
<1>1. Honoured(key) /\ ~ Sets(SettingAt(p), key) => key = Replacement
  BY DEF Sets
<1>2. Honoured(Replacement)
  BY DEF Honoured
<1>3. p \in Ignored <=> ~ (Honoured(key) /\ Sets(SettingAt(p), key)) /\ key # <<"comment">>
  BY DEF Ignored
<1>4. p \in Reported <=> /\ p \in Ignored
                       /\ ~ (key = Replacement \/ (p[1] = EnvironLayer /\ ~ Known(key)))
  BY DEF Reported, Silent
<1>5. p[1] # EnvironLayer => (p \in Reported <=> ~ Honoured(key) /\ key # <<"comment">>)
  BY <1>1, <1>2, <1>3, <1>4
<1>6. p[1] = EnvironLayer => (p \in Reported <=> key \in Schemas)
  <2>1. key = <<"comment">> => ~ Known(key)
    BY KnownKeys
  <2>2. key \in Schemas => Known(key) /\ ~ Honoured(key)
    BY KnownKeys
  <2>3. Known(key) => Honoured(key) \/ key \in Schemas
    BY DEF Known
  <2> QED
    BY <1>1, <1>2, <1>3, <1>4, <2>1, <2>2, <2>3
<1> QED
  BY <1>5, <1>6

\* A setting behind all others gives its key the value, if it says something about it.
LEMMA ValuesStep ==
  ASSUME NEW c, IsConfig(c), NEW d, NEW R \in SUBSET Places, NEW here \in Places,
         \A p \in R : Before(p, here), ValuesFrom(c.values, R), Applied(c, d, here)
  PROVE  ValuesFrom(d.values, R \cup {here})
<1> DEFINE key == SettingAt(here).key
           value == SettingAt(here).value
           R1 == R \cup {here}
<1>1. \A k : Setting(R1, k) = IF Sets(SettingAt(here), k) THEN Setting(R, k) \cup {here}
                              ELSE Setting(R, k)
  BY DEF Setting
<1>2. \A k \in DOMAIN c.values : Honoured(k)
  BY KnownKeys DEF ValuesFrom
<1>3. {SettingAt(p).key : p \in R1} = {SettingAt(p).key : p \in R} \cup {key}
  OBVIOUS
<1>4. \A k : Sets(SettingAt(here), k) => k = key
  BY DEF Sets
<1>5. ASSUME ~ Honoured(key) PROVE ValuesFrom(d.values, R1)
  <2>1. d.values = c.values
    <3>1. CASE Known(key)
      BY <1>5, <3>1, KnownKeys, SetFacts DEF Applied
    <3>2. CASE ~ Known(key)
      BY <3>2 DEF Applied, Warn, IsConfig
    <3> QED
      BY <3>1, <3>2
  <2>2. \A k \in DOMAIN c.values : Setting(R1, k) = Setting(R, k)
    BY <1>1, <1>2, <1>4, <1>5
  <2> HIDE DEF R1, key, value
  <2>3. {k \in {SettingAt(p).key : p \in R1} : Honoured(k)} =
          {k \in {SettingAt(p).key : p \in R} : Honoured(k)}
    BY <1>3, <1>5
  <2>4. DOMAIN d.values =
          DOMAIN Default \cup {k \in {SettingAt(p).key : p \in R1} : Honoured(k)}
    BY <2>1, <2>3 DEF ValuesFrom
  <2>5. ASSUME NEW k \in DOMAIN d.values
        PROVE  \/ Setting(R1, k) = {} /\ d.values[k] = Default[k]
               \/ \E p \in Setting(R1, k) :
                    /\ \A q \in Setting(R1, k) : q = p \/ Before(q, p)
                    /\ d.values[k] = Said(p, k)
    BY <2>1, <2>2 DEF ValuesFrom
  <2> QED
    BY <2>4, <2>5 DEF ValuesFrom
<1>6. ASSUME Honoured(key) PROVE ValuesFrom(d.values, R1)
  <2> DEFINE new == Converted(key, value, ValueOf(c, key))
  <2>1. Known(key) /\ key \notin Schemas
    BY <1>6, KnownKeys
  <2>2. d.values = Put(c.values, key, new)
    BY <2>1, SetFacts DEF Applied
  <2> HIDE DEF new
  <2>3. /\ DOMAIN d.values = DOMAIN c.values \cup {key} /\ d.values[key] = new
        /\ \A k \in DOMAIN c.values : k # key => d.values[k] = c.values[k]
    <3> HIDE DEF key
    <3> QED
      BY <2>2 DEF Put
  <2>4. DOMAIN d.values =
          DOMAIN Default \cup {k \in {SettingAt(p).key : p \in R1} : Honoured(k)}
    <3> HIDE DEF R1, key, value
    <3> QED
      BY <1>3, <1>6, <2>3 DEF ValuesFrom
  <2>5. ASSUME NEW k \in DOMAIN c.values, k # key
        PROVE  \/ Setting(R1, k) = {} /\ d.values[k] = Default[k]
               \/ \E p \in Setting(R1, k) :
                    /\ \A q \in Setting(R1, k) : q = p \/ Before(q, p)
                    /\ d.values[k] = Said(p, k)
    <3>1. Setting(R1, k) = Setting(R, k) /\ d.values[k] = c.values[k]
      BY <1>1, <1>4, <2>3, <2>5
    <3> HIDE DEF R1, key, value
    <3> QED
      BY <3>1 DEF ValuesFrom
  <2>6. \/ Setting(R1, key) = {} /\ d.values[key] = Default[key]
        \/ \E p \in Setting(R1, key) :
             /\ \A q \in Setting(R1, key) : q = p \/ Before(q, p)
             /\ d.values[key] = Said(p, key)
    <3>1. CASE Sets(SettingAt(here), key)
      <4>1. here \in Setting(R1, key)
        BY <3>1 DEF Setting
      <4>2. \A q \in Setting(R1, key) : q = here \/ Before(q, here)
        BY DEF Setting
      <4>3. new = Said(here, key)
        BY <3>1 DEF new, Converted, Said, Sets
      <4> QED
        BY <2>3, <4>1, <4>2, <4>3
    <3>2. CASE ~ Sets(SettingAt(here), key)
      <4>1. key = Replacement /\ value \notin {<<"true">>, <<"false">>}
        BY <3>2 DEF Sets
      <4>2. key \in DOMAIN c.values
        BY <4>1, KnownKeys DEF ValuesFrom
      <4>3. new = c.values[key]
        <5>1. Replacement # Locations
          BY DEF Replacement, Locations
        <5> QED
          BY <4>1, <4>2, <5>1 DEF new, Converted, ValueOf
      <4>4. Setting(R1, key) = Setting(R, key)
        BY <1>1, <3>2
      <4> HIDE DEF R1, key, value
      <4> QED
        BY <2>3, <4>2, <4>3, <4>4 DEF ValuesFrom
    <3> QED
      BY <3>1, <3>2
  <2> HIDE DEF R1, key, value
  <2>7. ASSUME NEW k \in DOMAIN d.values
        PROVE  \/ Setting(R1, k) = {} /\ d.values[k] = Default[k]
               \/ \E p \in Setting(R1, k) :
                    /\ \A q \in Setting(R1, k) : q = p \/ Before(q, p)
                    /\ d.values[k] = Said(p, k)
    <3>1. k = key \/ (k \in DOMAIN c.values /\ k # key)
      BY <2>3
    <3> QED
      BY <2>5, <2>6, <3>1
  <2> QED
    BY <2>4, <2>7 DEF ValuesFrom
<1> QED
  BY <1>5, <1>6

\* A setting behind all others is warned about exactly if it is one to report.
LEMMA WarnsStep ==
  ASSUME NEW c, IsConfig(c), NEW d, NEW R \in SUBSET Places, NEW here \in Places,
         \A p \in R : Before(p, here), WarnsFrom(c.warnings, R), Applied(c, d, here),
         Known(SettingAt(here).key) => (here \in Reported <=> SettingAt(here).key \in Schemas)
  PROVE  IsConfig(d) /\ WarnsFrom(d.warnings, R \cup {here})
<1> DEFINE key == SettingAt(here).key
           R1 == R \cup {here}
           w == c.warnings
           n == Len(w)
<1>1. PICK place \in [1..n -> Reported \cap R] : WarnsAbout(w, R, place)
  BY DEF WarnsFrom
<1>2. w \in Seq(Keys) /\ n \in Nat /\ key \in Keys
  BY LenProperties DEF WarnsFrom, Keys
<1>3. CASE here \in Reported
  <2>1. d.warnings = Append(w, key) /\ IsConfig(d)
    <3>1. CASE Known(key)
      BY <1>3, <3>1, SetFacts DEF Applied
    <3>2. CASE ~ Known(key)
      BY <1>3, <3>2 DEF Applied, Warn, IsConfig
    <3> QED
      BY <3>1, <3>2
  <2> HIDE DEF key, w, n
  <2>2. /\ d.warnings \in Seq(Keys) /\ Len(d.warnings) = n + 1 /\ d.warnings[n + 1] = key
        /\ \A k \in 1..n : d.warnings[k] = w[k]
    BY <1>2, <2>1, AppendProperties DEF n
  <2> DEFINE more == [k \in 1..(n + 1) |-> IF k \in 1..n THEN place[k] ELSE here]
  <2>3. /\ more \in [1..(n + 1) -> Reported \cap R1]
        /\ \A k \in 1..n : more[k] = place[k] /\ place[k] \in R /\ place[k] \in Reported
        /\ more[n + 1] = here
    BY <1>2, <1>3
  <2> HIDE DEF more
  <2>4. \A k \in 1..(n + 1) : d.warnings[k] = SettingAt(more[k]).key
    <3>1. \A k \in 1..n : w[k] = SettingAt(place[k]).key
      BY <1>1 DEF WarnsAbout, n
    <3>2. \A k \in 1..(n + 1) : k \in 1..n \/ k = n + 1
      BY <1>2
    <3> QED
      BY <2>2, <2>3, <3>1, <3>2 DEF key
  <2>5. \A j, k \in 1..(n + 1) : j < k => Before(more[j], more[k])
    <3>1. \A j, k \in 1..n : j < k => Before(place[j], place[k])
      BY <1>1 DEF WarnsAbout, n
    <3>2. \A j, k \in 1..(n + 1) : j < k => j \in 1..n /\ (k \in 1..n \/ k = n + 1)
      BY <1>2
    <3> QED
      BY <2>3, <3>1, <3>2
  <2>6. \A p \in Reported \cap R1 : \E k \in 1..(n + 1) : more[k] = p
    <3>1. \A p \in Reported \cap R : \E k \in 1..n : place[k] = p
      BY <1>1 DEF WarnsAbout, n
    <3>2. n + 1 \in 1..(n + 1) /\ \A k \in 1..n : k \in 1..(n + 1)
      BY <1>2
    <3> QED
      BY <2>3, <3>1, <3>2
  <2>7. WarnsAbout(d.warnings, R1, more) /\ more \in [1..Len(d.warnings) -> Reported \cap R1]
    BY <2>2, <2>3, <2>4, <2>5, <2>6 DEF WarnsAbout
  <2> QED
    BY <2>1, <2>2, <2>7 DEF WarnsFrom
<1>4. CASE here \notin Reported
  <2>1. d.warnings = w /\ IsConfig(d)
    <3>1. CASE Known(key)
      BY <1>4, <3>1, SetFacts DEF Applied
    <3>2. CASE ~ Known(key)
      BY <1>4, <3>2 DEF Applied
    <3> QED
      BY <3>1, <3>2
  <2>2. Reported \cap R1 = Reported \cap R
    BY <1>4
  <2> HIDE DEF R1, key
  <2> QED
    BY <1>1, <1>2, <2>1, <2>2 DEF WarnsFrom, WarnsAbout, R1
<1> QED
  BY <1>3, <1>4

-----------------------------------------------------------------------------
(* What options mean.                                                      *)

GivenKeys ==
  {<<a>> : a \in STRING} \cup {Locations} \cup {<<"placeholders.">> \o n : n \in Seq(Symbols)}
Values == Seq(Symbols \cup Seq(Symbols))
Givens == UNION {[D -> Values] : D \in SUBSET GivenKeys}
Flags == [configFiles : Seq(Seq(Symbols)), given : Givens]

\* A text is a value, a list of texts is one.
LEMMA ValuesAre == Seq(Symbols) \subseteq Values /\ Seq(Seq(Symbols)) \subseteq Values
<1>1. Symbols \subseteq Symbols \cup Seq(Symbols) /\ Seq(Symbols) \subseteq Symbols \cup Seq(Symbols)
  OBVIOUS
<1> QED
  BY <1>1, SeqMonotonic DEF Values

\* The items of a text.
LEMMA ItemsType ==
  ASSUME NEW v \in Seq(Symbols)
  PROVE  Items(v) \in Seq(Seq(Symbols))
BY DEF Items

\* A part of a text.
LEMMA PartType ==
  ASSUME NEW v \in Seq(Symbols), NEW m \in Nat \ {0}, NEW n \in 0..Len(v)
  PROVE  SubSeq(v, m, n) \in Seq(Symbols)
<1>1. Len(v) \in Nat
  BY LenProperties
<1>2. m \in Int /\ n \in Int /\ \A i \in m..n : i \in 1..Len(v)
  BY <1>1
<1>3. \A i \in m..n : v[i] \in Symbols
  BY <1>2, ElementOfSeq
<1> QED
  BY <1>2, <1>3, SubSeqProperties

\* The name of a placeholder ends in its value.
LEMMA NameLengthType ==
  ASSUME NEW v \in Seq(Symbols)
  PROVE  NameLength(v) \in 0..Len(v)
<1> DEFINE L == Len(v)
           Ends(n) == n = L \/ v[n + 1] = "="
           S == {n \in 0..L : Ends(n)}
<1>1. L \in Nat
  BY LenProperties
<1> HIDE DEF L
<1>2. S \in SUBSET Nat /\ S # {}
  <2>1. L \in 0..L /\ Ends(L)
    BY <1>1
  <2> HIDE DEF Ends
  <2>2. S \subseteq 0..L /\ L \in S
    BY <2>1
  <2>3. 0..L \subseteq Nat
    BY <1>1
  <2> HIDE DEF S
  <2> QED
    BY <2>2, <2>3
<1>3. PICK n \in S : \A k \in S : n <= k
  <2> HIDE DEF S
  <2>1. Min(S) \in S /\ \A k \in S : Min(S) <= k
    BY <1>2, MinOfNats
  <2> QED
    BY <2>1
<1>4. n \in 0..L /\ Ends(n) /\ \A k \in 1..n : v[k] # "="
  <2>1. n \in 0..L /\ Ends(n)
    BY <1>3
  <2>2. ASSUME NEW k \in 1..n PROVE v[k] # "="
    <3>1. k - 1 \in 0..L /\ (k - 1) + 1 = k /\ ~ (n <= k - 1)
      BY <1>1, <2>1
    <3> QED
      BY <1>3, <3>1
  <2> QED
    BY <2>1, <2>2
<1>5. \E m \in 0..Len(v) : /\ m = Len(v) \/ v[m + 1] = "="
                           /\ \A k \in 1..m : v[k] # "="
  BY <1>4 DEF L
<1> QED
  BY <1>5 DEF NameLength

\* One more flag.
LEMMA WithType ==
  ASSUME NEW f \in Flags, NEW name \in STRING, NEW v \in Seq(Symbols)
  PROVE  With(f, name, v) \in Flags
<1>1. f.configFiles \in Seq(Seq(Symbols)) /\ f.given \in Givens
  BY DEF Flags
<1>2. ASSUME NEW key \in GivenKeys, NEW w \in Values PROVE Put(f.given, key, w) \in Givens
  <2>1. PICK D \in SUBSET GivenKeys : f.given \in [D -> Values]
    BY <1>1 DEF Givens
  <2>2. Put(f.given, key, w) \in [D \cup {key} -> Values]
    BY <2>1 DEF Put
  <2>3. D \cup {key} \in SUBSET GivenKeys
    OBVIOUS
  <2> QED
    BY <2>2, <2>3 DEF Givens
<1>3. CASE name = "configFiles"
  <2>1. With(f, name, v) = [f EXCEPT !.configFiles = @ \o Items(v)]
    BY <1>3 DEF With
  <2>2. f.configFiles \o Items(v) \in Seq(Seq(Symbols))
    BY <1>1, ItemsType, ConcatProperties
  <2> QED
    BY <1>1, <2>1, <2>2 DEF Flags
<1>4. ASSUME NEW key \in GivenKeys, NEW w \in Values,
             With(f, name, v) = [f EXCEPT !.given = Put(@, key, w)]
      PROVE  With(f, name, v) \in Flags
  BY <1>1, <1>2, <1>4 DEF Flags
<1>5. CASE name = "locations"
  <2> DEFINE old == IF Locations \in DOMAIN f.given THEN f.given[Locations] ELSE <<>>
  <2>1. With(f, name, v) = [f EXCEPT !.given = Put(@, Locations, old \o Items(v))]
    BY <1>5 DEF With
  <2>2. old \in Values
    <3>1. <<>> \in Values
      BY EmptySeq DEF Values
    <3> HIDE DEF Values
    <3> QED
      BY <1>1, <3>1, ZenonT(30) DEF Givens
  <2> HIDE DEF old
  <2>3. old \o Items(v) \in Values /\ Locations \in GivenKeys
    <3>1. Items(v) \in Values
      BY ItemsType, ValuesAre
    <3>2. old \o Items(v) \in Values
      BY <2>2, <3>1, ConcatProperties DEF Values
    <3> QED
      BY <3>2 DEF GivenKeys
  <2> QED
    BY <1>4, <2>1, <2>3
<1>6. CASE name = "placeholders"
  <2> DEFINE n == NameLength(v)
             key == <<"placeholders.">> \o SubSeq(v, 1, n)
             w == SubSeq(v, n + 2, Len(v))
  <2>1. With(f, name, v) = [f EXCEPT !.given = Put(@, key, w)]
    BY <1>6 DEF With
  <2>2. n \in 0..Len(v) /\ Len(v) \in Nat
    BY NameLengthType, LenProperties
  <2> HIDE DEF n
  <2>3. SubSeq(v, 1, n) \in Seq(Symbols) /\ w \in Seq(Symbols)
    BY <2>2, PartType
  <2>4. key \in GivenKeys /\ w \in Values
    BY <2>3, ValuesAre DEF GivenKeys
  <2> HIDE DEF key, w
  <2> QED
    BY <1>4, <2>1, <2>4
<1>7. CASE name \notin {"configFiles", "locations", "placeholders"}
  <2>1. With(f, name, v) = [f EXCEPT !.given = Put(@, <<name>>, v)]
    BY <1>7 DEF With
  <2>2. <<name>> \in GivenKeys /\ v \in Values
    BY ValuesAre DEF GivenKeys
  <2> QED
    BY <1>4, <2>1, <2>2
<1> QED
  BY <1>3, <1>5, <1>6, <1>7

\* No flags are flags.
LEMMA NoFlagsType == NoFlags \in Flags
<1>1. <<>> \in [{} -> Values]
  <2>1. <<>> \in Seq(Values) /\ Len(<<>>) = 0
    BY EmptySeq
  <2>2. <<>> \in [1..Len(<<>>) -> Values] /\ 1..0 = {}
    BY <2>1, LenProperties
  <2> QED
    BY <2>1, <2>2
<1>2. {} \in SUBSET GivenKeys
  OBVIOUS
<1>3. <<>> \in Givens
  BY <1>1, <1>2 DEF Givens
<1> QED
  BY <1>3, EmptySeq DEF NoFlags, Flags

\* A single dash is doubled.
LEMMA DoubledFacts ==
  ASSUME NEW a \in Seq(Symbols)
  PROVE  /\ Doubled(a) \in Seq(Symbols)
         /\ SingleDashed(a) => /\ Len(Doubled(a)) = Len(a) + 1
                               /\ Doubled(a)[1] = "-"
                               /\ \A i \in 1..Len(a) : Doubled(a)[i + 1] = a[i]
         /\ ~ SingleDashed(a) => Doubled(a) = a
<1>1. <<"-">> \in Seq(Symbols) /\ Len(<<"-">>) = 1 /\ <<"-">>[1] = "-"
  <2>1. <<"-">> \in Seq(Symbols)
    BY DEF Symbols
  <2>2. Len(<<"-">>) = 1
    OBVIOUS
  <2>3. <<"-">>[1] = "-"
    OBVIOUS
  <2> QED
    BY <2>1, <2>2, <2>3
<1>2. Len(a) \in Nat
  BY LenProperties
<1> DEFINE d == <<"-">>
<1> HIDE DEF d
<1>3. /\ d \o a \in Seq(Symbols) /\ Len(d \o a) = Len(a) + 1
      /\ \A i \in 1..(1 + Len(a)) : (d \o a)[i] = IF i <= 1 THEN d[i] ELSE a[i - 1]
  BY <1>1, <1>2, ConcatProperties DEF d
<1>4. (d \o a)[1] = "-" /\ \A i \in 1..Len(a) : (d \o a)[i + 1] = a[i]
  BY <1>1, <1>2, <1>3 DEF d
<1> QED
  BY <1>3, <1>4 DEF Doubled, d

\* What is received of an option is its value as it is normalized.
LEMMA ReceivedFacts ==
  ASSUME NEW o \in Options
  PROVE  /\ Received(o) \in Seq(Symbols)
         /\ o.form = "=" => Received(o) = o.value
         /\ o.form = "space" => Received(o) = Doubled(o.value)
<1>1. o.value \in Seq(Symbols)
  BY SeqMonotonic DEF Options, Symbols
<1>2. Doubled(o.value) \in Seq(Symbols)
  BY <1>1, DoubledFacts
<1> QED
  BY <1>1, <1>2 DEF Received, TakenForFlag, Doubled

\* Each option is added to what those before it mean.
LEMMA MeantDef ==
  ASSUME options \in Seq(Options)
  PROVE  /\ AllMeant \in [0..Len(options) -> Flags]
         /\ AllMeant[0] = NoFlags
         /\ \A n \in 1..Len(options) :
              AllMeant[n] = With(AllMeant[n - 1], options[n].flag, Received(options[n]))
<1> DEFINE N == Len(options)
           Body(g) == [n \in 0..N |-> IF n = 0 THEN NoFlags
                                      ELSE With(g[n - 1], options[n].flag, Received(options[n]))]
           step == [p \in Nat \X Flags |->
                      IF p[1] \in 1..N THEN With(p[2], options[p[1]].flag, Received(options[p[1]]))
                      ELSE p[2]]
<1>1. step \in [Nat \X Flags -> Flags]
  <2>1. ASSUME NEW n \in Nat, NEW f \in Flags, n \in 1..N
        PROVE  With(f, options[n].flag, Received(options[n])) \in Flags
    <3>1. options[n] \in Options
      BY <2>1
    <3>2. options[n].flag \in STRING
      BY <3>1 DEF Options
    <3> QED
      BY <3>1, <3>2, WithType, ReceivedFacts
  <2> QED
    BY <2>1
<1>2. NoFlags \in Flags /\ N \in Nat
  <2>1. NoFlags \in Flags
    BY NoFlagsType
  <2>2. N \in Nat
    BY LenProperties
  <2> QED
    BY <2>1, <2>2
<1>3. Recursions(Flags, NoFlags, step, N) # {}
  <2> HIDE DEF step, N
  <2> QED
    BY <1>1, <1>2, NatRec
<1>4. PICK g \in [0..N -> Flags] :
        g[0] = NoFlags /\ \A k \in 1..N : g[k] = step[<<k, g[k - 1]>>]
  <2> HIDE DEF step, N
  <2> QED
    BY <1>3 DEF Recursions
<1>5. g = Body(g)
  <2>1. ASSUME NEW n \in 0..N PROVE g[n] = Body(g)[n]
    <3>1. CASE n = 0
      BY <3>1, <1>4
    <3>2. CASE n \in 1..N
      <4>1. n - 1 \in 0..N /\ n \in Nat
        BY <3>2
      <4>2. g[n - 1] \in Flags
        BY <4>1
      <4>3. <<n, g[n - 1]>> \in Nat \X Flags
        BY <4>1, <4>2
      <4>4. step[<<n, g[n - 1]>>] = With(g[n - 1], options[n].flag, Received(options[n]))
        BY <3>2, <4>3
      <4> QED
        BY <1>4, <3>2, <4>4
    <3> QED
      BY <3>1, <3>2
  <2> QED
    BY <2>1
<1>6. AllMeant = CHOOSE f : f = Body(f)
  BY DEF AllMeant
<1>7. AllMeant = Body(AllMeant)
  <2> HIDE DEF Body
  <2> QED
    BY <1>5, <1>6
<1> DEFINE meant == AllMeant
           T == {n \in Nat : n \in 0..N => meant[n] \in Flags}
<1>8. /\ meant = [n \in 0..N |-> meant[n]]
      /\ meant[0] = NoFlags
      /\ \A n \in 1..N : meant[n] = With(meant[n - 1], options[n].flag, Received(options[n]))
  <2> HIDE DEF meant, N
  <2>1. meant = Body(meant)
    BY <1>7 DEF meant
  <2>2. \A n \in 0..N : meant[n] = Body(meant)[n]
    BY <2>1
  <2>3. DOMAIN meant = 0..N /\ meant = [n \in DOMAIN meant |-> meant[n]]
    BY <2>1, Zenon
  <2>4. meant = [n \in 0..N |-> meant[n]]
    BY <2>3
  <2>5. meant[0] = NoFlags
    BY <2>2, <1>2
  <2>6. ASSUME NEW n \in 1..N
        PROVE  meant[n] = With(meant[n - 1], options[n].flag, Received(options[n]))
    BY <1>2, <2>2
  <2> QED
    BY <2>4, <2>5, <2>6
<1> HIDE DEF meant
<1>9. T = Nat
  <2>1. T \in SUBSET Nat /\ 0 \in T
    BY <1>2, <1>8
  <2>2. ASSUME NEW n \in T PROVE n + 1 \in T
    <3>1. SUFFICES ASSUME n + 1 \in 0..N PROVE meant[n + 1] \in Flags
      OBVIOUS
    <3>2. n + 1 \in 1..N /\ (n + 1) - 1 = n /\ meant[n] \in Flags /\ options[n + 1] \in Options
      BY <3>1
    <3>3. meant[n + 1] = With(meant[n], options[n + 1].flag, Received(options[n + 1]))
      BY <3>2, <1>8
    <3>4. options[n + 1].flag \in STRING
      BY <3>2 DEF Options
    <3> QED
      BY <3>2, <3>3, <3>4, WithType, ReceivedFacts
  <2> HIDE DEF T
  <2> QED
    BY <2>1, <2>2, NatInd
<1>10. \A n \in 0..N : meant[n] \in Flags
  BY <1>9
<1> QED
  BY <1>8, <1>10 DEF meant

-----------------------------------------------------------------------------
(* What arguments say.                                                     *)

\* A flag as it is typed, with its dashes.
Dashed(o) == [k \in 1..o.dashes |-> "-"] \o <<o.flag>>

LEMMA DashedFacts ==
  ASSUME NEW o \in Options
  PROVE  /\ Dashed(o) \in Seq(Symbols)
         /\ Len(Dashed(o)) = o.dashes + 1
         /\ \A k \in 1..o.dashes : Dashed(o)[k] = "-"
         /\ Dashed(o)[o.dashes + 1] = o.flag
         /\ o.dashes \in {1, 2} /\ o.flag \in Symbols /\ o.flag # "-"
         /\ o.value \in Seq(Symbols) /\ o.value \in Seq(STRING) /\ Len(o.value) \in Nat
         /\ o.form \in {"=", "space"}
<1> DEFINE D == [k \in 1..o.dashes |-> "-"]
<1>1. /\ o.dashes \in {1, 2} /\ o.flag \in STRING /\ o.flag # "-" /\ o.value \in Seq(STRING)
      /\ o.form \in {"=", "space"}
  BY DEF Options
<1>2. D \in Seq(Symbols) /\ Len(D) = o.dashes /\ \A k \in 1..o.dashes : D[k] = "-"
  <2>1. D \in Seq(Symbols)
    BY <1>1 DEF Symbols
  <2>2. Len(D) = o.dashes
    BY <1>1
  <2> QED
    BY <2>1, <2>2
<1>3. o.flag \in Symbols /\ o.value \in Seq(Symbols)
  BY <1>1, SeqMonotonic DEF Symbols
<1>4. <<o.flag>> \in Seq(Symbols) /\ Len(<<o.flag>>) = 1 /\ <<o.flag>>[1] = o.flag
  BY <1>3
<1> HIDE DEF D
<1>5. /\ D \o <<o.flag>> \in Seq(Symbols)
      /\ Len(D \o <<o.flag>>) = o.dashes + 1
      /\ \A i \in 1..(o.dashes + 1) :
           (D \o <<o.flag>>)[i] = IF i <= o.dashes THEN D[i] ELSE <<o.flag>>[i - o.dashes]
  BY <1>2, <1>4, ConcatProperties
<1>6. Dashed(o) = D \o <<o.flag>>
  BY DEF Dashed, D
<1>7. /\ \A k \in 1..o.dashes : Dashed(o)[k] = "-"
      /\ Dashed(o)[o.dashes + 1] = o.flag
  <2>1. ASSUME NEW k \in 1..o.dashes PROVE Dashed(o)[k] = "-"
    <3>1. k \in 1..(o.dashes + 1) /\ k <= o.dashes
      BY <1>1
    <3> QED
      BY <1>2, <1>5, <1>6, <3>1
  <2>2. o.dashes + 1 \in 1..(o.dashes + 1) /\ ~ (o.dashes + 1 <= o.dashes)
        /\ (o.dashes + 1) - o.dashes = 1
    BY <1>1
  <2>3. Dashed(o)[o.dashes + 1] = <<o.flag>>[1]
    BY <1>5, <1>6, <2>2
  <2> QED
    BY <1>4, <2>1, <2>3
<1> QED
  BY <1>1, <1>3, <1>5, <1>6, <1>7, LenProperties

\* An option with "=" is one argument, which pflag reads as the flag and the value.
LEMMA WithEquals ==
  ASSUME NEW o \in Options, o.form = "="
  PROVE  \E d \in Seq(Symbols) :
           /\ Typed(o) = <<d>>
           /\ Doubled(d) \in Seq(Symbols) /\ Len(Doubled(d)) = Len(o.value) + 4
           /\ Doubled(d)[1] = "-" /\ Doubled(d)[2] = "-" /\ Doubled(d)[3] = o.flag
           /\ SubSeq(Doubled(d), 5, Len(Doubled(d))) = o.value
<1> DEFINE F == Dashed(o)
           E == <<"=">>
           V == o.value
           d == F \o E \o V
           b == o.dashes
<1>1. Typed(o) = <<d>>
  BY DEF Typed, Dashed
<1>2. /\ F \in Seq(Symbols) /\ Len(F) = b + 1 /\ b \in {1, 2}
      /\ \A k \in 1..b : F[k] = "-"
      /\ F[b + 1] = o.flag /\ o.flag # "-" /\ o.flag \in Symbols
      /\ V \in Seq(Symbols) /\ V \in Seq(STRING) /\ Len(V) \in Nat
  BY DashedFacts
<1>3. E \in Seq(Symbols) /\ Len(E) = 1
  BY DEF Symbols
<1> HIDE DEF F, E, V, b
<1>4. /\ F \o E \in Seq(Symbols) /\ Len(F \o E) = b + 2
      /\ \A i \in 1..(b + 1) : (F \o E)[i] = F[i]
  <2>1. /\ F \o E \in Seq(Symbols) /\ Len(F \o E) = Len(F) + Len(E)
        /\ \A i \in 1..(Len(F) + Len(E)) :
             (F \o E)[i] = IF i <= Len(F) THEN F[i] ELSE E[i - Len(F)]
    BY <1>2, <1>3, ConcatProperties
  <2> DEFINE FE == F \o E
  <2> HIDE DEF FE
  <2>2. ASSUME NEW i \in 1..(b + 1) PROVE FE[i] = F[i]
    <3>1. i \in 1..(Len(F) + Len(E)) /\ i <= Len(F)
      BY <1>2, <1>3
    <3> QED
      BY <2>1, <3>1 DEF FE
  <2>3. Len(FE) = b + 2
    <3>1. Len(FE) = Len(F) + Len(E)
      BY <2>1 DEF FE
    <3> QED
      BY <1>2, <1>3, <3>1
  <2> QED
    BY <2>1, <2>2, <2>3 DEF FE
<1>5. /\ d \in Seq(Symbols) /\ Len(d) = b + 2 + Len(V)
      /\ \A i \in 1..(b + 1) : d[i] = F[i]
      /\ \A i \in 1..Len(V) : d[b + 2 + i] = V[i]
  <2>1. /\ d \in Seq(Symbols) /\ Len(d) = b + 2 + Len(V)
        /\ \A i \in 1..(b + 2 + Len(V)) :
             d[i] = IF i <= b + 2 THEN (F \o E)[i] ELSE V[i - (b + 2)]
    BY <1>2, <1>4, ConcatProperties
  <2> HIDE DEF d
  <2>2. \A i \in 1..(b + 1) : d[i] = F[i]
    BY <1>2, <1>4, <2>1
  <2>3. \A i \in 1..Len(V) : d[b + 2 + i] = V[i]
    BY <1>2, <2>1
  <2> QED
    BY <2>1, <2>2, <2>3
<1> HIDE DEF d
<1> DEFINE r == Doubled(d)
<1>6. /\ r \in Seq(Symbols) /\ Len(r) = Len(V) + 4
      /\ r[1] = "-" /\ r[2] = "-" /\ r[3] = o.flag
      /\ \A i \in 1..Len(V) : r[i + 4] = V[i]
  <2>1. CASE b = 1
    <3>1. SingleDashed(d)
      <4>1. d[1] = "-" /\ d[2] = o.flag
        BY <1>2, <1>5, <2>1
      <4> QED
        BY <1>2, <1>5, <2>1, <4>1 DEF SingleDashed
    <3>2. /\ r \in Seq(Symbols) /\ Len(r) = Len(d) + 1 /\ r[1] = "-"
          /\ \A i \in 1..Len(d) : r[i + 1] = d[i]
      BY <1>5, <3>1, DoubledFacts
    <3> HIDE DEF r
    <3>3. r[2] = d[1] /\ r[3] = d[2] /\ d[1] = "-" /\ d[2] = o.flag
      <4>1. 1 \in 1..Len(d) /\ 2 \in 1..Len(d) /\ 1 + 1 = 2 /\ 2 + 1 = 3
        BY <1>2, <1>5, <2>1
      <4>2. d[1] = "-" /\ d[2] = o.flag
        BY <1>2, <1>5, <2>1
      <4> QED
        BY <3>2, <4>1, <4>2
    <3>4. \A i \in 1..Len(V) : r[i + 4] = V[i]
      <4>1. ASSUME NEW i \in 1..Len(V) PROVE r[i + 4] = V[i]
        <5>1. 3 + i \in 1..Len(d) /\ (3 + i) + 1 = i + 4 /\ d[3 + i] = V[i]
          BY <1>2, <1>5, <2>1
        <5> QED
          BY <3>2, <5>1
      <4> QED
        BY <4>1
    <3> QED
      BY <1>2, <1>5, <2>1, <3>2, <3>3, <3>4
  <2>2. CASE b = 2
    <3>1. d[1] = "-" /\ d[2] = "-" /\ d[3] = o.flag
      BY <1>2, <1>5, <2>2
    <3>2. r = d
      BY <1>5, <3>1, DoubledFacts DEF SingleDashed
    <3> HIDE DEF r
    <3>3. \A i \in 1..Len(V) : d[i + 4] = V[i]
      BY <1>2, <1>5, <2>2
    <3> QED
      BY <1>2, <1>5, <2>2, <3>1, <3>2, <3>3
  <2> QED
    BY <1>2, <2>1, <2>2
<1> HIDE DEF r
<1>7. SubSeq(r, 5, Len(r)) = V
  <2>1. \A i \in 5..Len(r) : r[i] \in STRING
    <3>1. ASSUME NEW i \in 5..Len(r) PROVE r[i] \in STRING
      <4>1. i - 4 \in 1..Len(V) /\ (i - 4) + 4 = i
        BY <1>2, <1>6
      <4> QED
        BY <1>2, <1>6, <4>1, ElementOfSeq, ZenonT(30)
    <3> QED
      BY <3>1
  <2>2. 5 \in Int /\ Len(r) \in Int
    BY <1>2, <1>6
  <2>3. /\ SubSeq(r, 5, Len(r)) \in Seq(STRING)
        /\ Len(SubSeq(r, 5, Len(r))) = IF 5 <= Len(r) THEN Len(r) - 5 + 1 ELSE 0
        /\ \A i \in 1..(Len(r) - 5 + 1) : SubSeq(r, 5, Len(r))[i] = r[5 + i - 1]
    BY <2>1, <2>2, SubSeqProperties
  <2>4. Len(SubSeq(r, 5, Len(r))) = Len(V)
    BY <1>2, <1>6, <2>3
  <2>5. \A i \in 1..Len(V) : SubSeq(r, 5, Len(r))[i] = V[i]
    <3>1. ASSUME NEW i \in 1..Len(V) PROVE SubSeq(r, 5, Len(r))[i] = V[i]
      <4>1. i \in 1..(Len(r) - 5 + 1) /\ 5 + i - 1 = i + 4
        BY <1>2, <1>6
      <4> QED
        BY <1>6, <2>3, <4>1
    <3> QED
      BY <3>1
  <2> QED
    BY <1>2, <2>3, <2>4, <2>5, SeqEqual
<1> QED
  BY <1>1, <1>5, <1>6, <1>7 DEF r, V

\* An option with its value behind it is two arguments.
LEMMA WithSpace ==
  ASSUME NEW o \in Options, o.form = "space"
  PROVE  \E d \in Seq(Symbols) :
           /\ Typed(o) = <<d, o.value>> /\ Doubled(o.value) = Received(o)
           /\ Doubled(d) \in Seq(Symbols) /\ Doubled(d)[1] = "-"
           /\ \/ Len(Doubled(d)) = 3 /\ Doubled(d)[2] = "-" /\ Doubled(d)[3] = o.flag
              \/ Len(Doubled(d)) = 2
<1> DEFINE d == Dashed(o)
           b == o.dashes
<1>1. Typed(o) = <<d, o.value>>
  BY DEF Typed, Dashed
<1>2. /\ d \in Seq(Symbols) /\ Len(d) = b + 1 /\ b \in {1, 2}
      /\ \A k \in 1..b : d[k] = "-"
      /\ d[b + 1] = o.flag /\ o.flag # "-"
      /\ o.value \in Seq(Symbols) /\ Len(o.value) \in Nat
  BY DashedFacts
<1>3. Doubled(o.value) = Received(o)
  BY ReceivedFacts
<1> HIDE DEF d, b
<1>4. CASE b = 2
  <2>1. d[1] = "-" /\ d[2] = "-" /\ d[3] = o.flag /\ Len(d) = 3
    <3>1. 1 \in 1..b /\ 2 \in 1..b /\ b + 1 = 3
      BY <1>4
    <3> QED
      BY <1>2, <3>1
  <2>2. Doubled(d) = d
    BY <1>2, <2>1, DoubledFacts DEF SingleDashed
  <2> QED
    BY <1>1, <1>2, <1>3, <2>1, <2>2
<1>5. CASE b = 1
  <2>1. d[1] = "-" /\ d[2] = o.flag /\ Len(d) = 2
    <3>1. 1 \in 1..b /\ b + 1 = 2
      BY <1>5
    <3> QED
      BY <1>2, <3>1
  <2>2. CASE SingleDashed(d)
    <3> DEFINE r == Doubled(d)
    <3>1. /\ r \in Seq(Symbols) /\ Len(r) = 3 /\ r[1] = "-"
          /\ \A i \in 1..Len(d) : r[i + 1] = d[i]
      <4>1. /\ Doubled(d) \in Seq(Symbols) /\ Len(Doubled(d)) = Len(d) + 1
            /\ Doubled(d)[1] = "-"
            /\ \A i \in 1..Len(d) : Doubled(d)[i + 1] = d[i]
        BY <1>2, <2>2, DoubledFacts
      <4>2. Len(d) + 1 = 3
        BY <2>1
      <4> QED
        BY <4>1, <4>2
    <3> HIDE DEF r
    <3>2. r[2] = "-" /\ r[3] = o.flag
      <4>1. 1 \in 1..Len(d) /\ 2 \in 1..Len(d) /\ 1 + 1 = 2 /\ 2 + 1 = 3
        BY <2>1
      <4>2. r[2] = d[1] /\ r[3] = d[2]
        BY <3>1, <4>1
      <4> QED
        BY <2>1, <4>2
    <3> QED
      BY <1>1, <1>2, <1>3, <3>1, <3>2 DEF r
  <2>3. CASE ~ SingleDashed(d)
    <3>1. Doubled(d) = d
      BY <1>2, <2>3, DoubledFacts
    <3> QED
      BY <1>1, <1>2, <1>3, <2>1, <3>1
  <2> QED
    BY <2>2, <2>3
<1> QED
  BY <1>2, <1>4, <1>5

\* The arguments of an option.
LEMMA TypedType ==
  ASSUME NEW o \in Options
  PROVE  Typed(o) \in Arguments /\ Len(Typed(o)) \in {1, 2}
<1>1. CASE o.form = "="
  <2>1. PICK d \in Seq(Symbols) : Typed(o) = <<d>>
    BY <1>1, WithEquals
  <2> QED
    BY <2>1 DEF Arguments
<1>2. CASE o.form = "space"
  <2>1. PICK d \in Seq(Symbols) : Typed(o) = <<d, o.value>>
    BY <1>2, WithSpace
  <2>2. o.value \in Seq(Symbols)
    BY DashedFacts
  <2> QED
    BY <2>1, <2>2 DEF Arguments
<1> QED
  BY <1>1, <1>2, DashedFacts

\* The arguments of each option are typed behind those before it.
LEMMA TypedDef ==
  ASSUME NEW given \in Seq(Options)
  PROVE  /\ AllTyped(given) \in [0..Len(given) -> Arguments]
         /\ AllTyped(given)[0] = <<>>
         /\ \A n \in 1..Len(given) :
              AllTyped(given)[n] = AllTyped(given)[n - 1] \o Typed(given[n])
<1> DEFINE N == Len(given)
           Body(g) == [n \in 0..N |-> IF n = 0 THEN <<>> ELSE g[n - 1] \o Typed(given[n])]
           step == [p \in Nat \X Arguments |->
                      IF p[1] \in 1..N THEN p[2] \o Typed(given[p[1]]) ELSE p[2]]
<1>0. ASSUME NEW n \in 1..N, NEW a \in Arguments PROVE a \o Typed(given[n]) \in Arguments
  BY TypedType, ConcatProperties DEF Arguments
<1>1. step \in [Nat \X Arguments -> Arguments]
  BY <1>0
<1>2. <<>> \in Arguments /\ N \in Nat
  BY EmptySeq, LenProperties DEF Arguments
<1>3. Recursions(Arguments, <<>>, step, N) # {}
  <2> HIDE DEF step, N
  <2> QED
    BY <1>1, <1>2, NatRec
<1>4. PICK g \in [0..N -> Arguments] :
        g[0] = <<>> /\ \A k \in 1..N : g[k] = step[<<k, g[k - 1]>>]
  <2> HIDE DEF step, N
  <2> QED
    BY <1>3 DEF Recursions
<1>5. g = Body(g)
  <2>1. ASSUME NEW n \in 0..N PROVE g[n] = Body(g)[n]
    <3>1. CASE n = 0
      BY <3>1, <1>4
    <3>2. CASE n \in 1..N
      <4>1. n - 1 \in 0..N /\ n \in Nat
        BY <3>2
      <4>2. g[n - 1] \in Arguments
        BY <4>1
      <4>3. <<n, g[n - 1]>> \in Nat \X Arguments
        BY <4>1, <4>2
      <4>4. step[<<n, g[n - 1]>>] = g[n - 1] \o Typed(given[n])
        BY <3>2, <4>3
      <4> QED
        BY <1>4, <3>2, <4>4
    <3> QED
      BY <3>1, <3>2
  <2> QED
    BY <2>1
<1>6. AllTyped(given) = CHOOSE f : f = Body(f)
  BY DEF AllTyped
<1>7. AllTyped(given) = Body(AllTyped(given))
  <2> HIDE DEF Body
  <2> QED
    BY <1>5, <1>6
<1> DEFINE typed == AllTyped(given)
           T == {n \in Nat : n \in 0..N => typed[n] \in Arguments}
<1>8. /\ typed = [n \in 0..N |-> typed[n]]
      /\ typed[0] = <<>>
      /\ \A n \in 1..N : typed[n] = typed[n - 1] \o Typed(given[n])
  <2> HIDE DEF typed, N
  <2>1. typed = Body(typed)
    BY <1>7 DEF typed
  <2>2. \A n \in 0..N : typed[n] = Body(typed)[n]
    BY <2>1
  <2>3. DOMAIN typed = 0..N /\ typed = [n \in DOMAIN typed |-> typed[n]]
    BY <2>1, Zenon
  <2>4. typed = [n \in 0..N |-> typed[n]]
    BY <2>3
  <2>5. typed[0] = <<>>
    BY <2>2, <1>2
  <2>6. ASSUME NEW n \in 1..N PROVE typed[n] = typed[n - 1] \o Typed(given[n])
    <3>1. n \in 0..N /\ n # 0
      BY <1>2
    <3>2. typed[n] = Body(typed)[n]
      BY <2>2, <3>1
    <3> QED
      BY <3>1, <3>2
  <2> QED
    BY <2>4, <2>5, <2>6
<1> HIDE DEF typed
<1>9. T = Nat
  <2>1. T \in SUBSET Nat /\ 0 \in T
    BY <1>2, <1>8
  <2>2. ASSUME NEW n \in T PROVE n + 1 \in T
    <3>1. SUFFICES ASSUME n + 1 \in 0..N PROVE typed[n + 1] \in Arguments
      OBVIOUS
    <3>2. n + 1 \in 1..N /\ (n + 1) - 1 = n /\ typed[n] \in Arguments
      BY <3>1
    <3> QED
      BY <3>2, <1>0, <1>8
  <2> HIDE DEF T
  <2> QED
    BY <2>1, <2>2, NatInd
<1>10. \A n \in 0..N : typed[n] \in Arguments
  BY <1>9
<1> QED
  BY <1>8, <1>10 DEF typed

\* Where the arguments of an option begin: as in the arguments of all options, so in
\* those up to it.
LEMMA TypedGrows ==
  ASSUME NEW given \in Seq(Options), NEW k \in 0..Len(given)
  PROVE  \A n \in k..Len(given) :
           /\ Len(AllTyped(given)[k]) <= Len(AllTyped(given)[n])
           /\ \A i \in 1..Len(AllTyped(given)[k]) : AllTyped(given)[n][i] = AllTyped(given)[k][i]
<1> DEFINE N == Len(given)
           t == AllTyped(given)
           Longer(n) == /\ Len(t[k]) <= Len(t[n])
                        /\ \A i \in 1..Len(t[k]) : t[n][i] = t[k][i]
           T == {n \in Nat : n \in k..N => Longer(n)}
<1>1. N \in Nat /\ k \in Nat
  BY LenProperties
<1>2. /\ \A n \in 0..N : t[n] \in Arguments /\ Len(t[n]) \in Nat
      /\ \A n \in 1..N : t[n] = t[n - 1] \o Typed(given[n])
      /\ \A n \in 1..N : Typed(given[n]) \in Arguments /\ Len(Typed(given[n])) \in Nat
  <2>1. \A n \in 1..N : given[n] \in Options
    BY ElementOfSeq
  <2>2. \A n \in 1..N : Typed(given[n]) \in Arguments /\ Len(Typed(given[n])) \in Nat
    BY <2>1, TypedType
  <2>3. \A n \in 0..N : t[n] \in Arguments
    BY TypedDef
  <2>4. \A n \in 0..N : Len(t[n]) \in Nat
    BY <2>3, LenProperties DEF Arguments
  <2> QED
    BY <2>2, <2>3, <2>4, TypedDef
<1> HIDE DEF t, N
<1>3. 0 \in T
  BY <1>1, <1>2
<1>4. ASSUME NEW n \in T PROVE n + 1 \in T
  <2>1. SUFFICES ASSUME n + 1 \in k..N PROVE Longer(n + 1)
    OBVIOUS
  <2>2. CASE n + 1 = k
    BY <1>1, <1>2, <2>2
  <2>3. CASE n \in k..N
    <3>1. Longer(n) /\ n + 1 \in 1..N /\ (n + 1) - 1 = n /\ n \in 0..N
      BY <1>1, <2>1, <2>3
    <3> DEFINE u == Typed(given[n + 1])
    <3>2. /\ t[n + 1] = t[n] \o u
          /\ t[n] \in Arguments /\ Len(t[n]) \in Nat /\ u \in Arguments /\ Len(u) \in Nat
      BY <1>2, <3>1
    <3> HIDE DEF u
    <3>3. /\ Len(t[n] \o u) = Len(t[n]) + Len(u)
          /\ \A i \in 1..(Len(t[n]) + Len(u)) :
               (t[n] \o u)[i] = IF i <= Len(t[n]) THEN t[n][i] ELSE u[i - Len(t[n])]
      BY <3>2, ConcatProperties DEF Arguments
    <3>4. Len(t[k]) \in Nat
      BY <1>2
    <3>5. Len(t[k]) <= Len(t[n + 1])
      BY <3>1, <3>2, <3>3, <3>4
    <3>6. ASSUME NEW i \in 1..Len(t[k]) PROVE t[n + 1][i] = t[k][i]
      <4>1. i \in 1..(Len(t[n]) + Len(u)) /\ i <= Len(t[n])
        BY <3>1, <3>2, <3>4
      <4>2. t[n + 1][i] = t[n][i]
        BY <3>2, <3>3, <4>1
      <4> QED
        BY <3>1, <4>2
    <3> QED
      BY <3>5, <3>6
  <2> QED
    BY <1>1, <2>1, <2>2, <2>3
<1>5. T = Nat
  <2> HIDE DEF T
  <2>1. T \in SUBSET Nat
    BY DEF T
  <2> QED
    BY <1>3, <1>4, <2>1, NatInd
<1>6. \A n \in k..N : Longer(n)
  BY <1>1, <1>5
<1> QED
  BY <1>6 DEF t, N

\* Where option k begins.
Begin(k) == Len(AllTyped(options)[k - 1])

\* The arguments of the options one behind the other, then the command if there is one.
Arranged ==
  LET N == Len(options) end == Len(AllTyped(options)[N])
  IN  /\ \A k \in 1..N : \A j \in 1..Len(Typed(options[k])) :
           /\ Begin(k) + j \in 1..Len(args)
           /\ args[Begin(k) + j] = Doubled(Typed(options[k])[j])
      /\ end \in Nat /\ Len(args) \in end..(end + 1)
      /\ Len(args) = end + 1 => args[end + 1] = <<"migrate">>

\* Where options begin and end.
LEMMA Begins ==
  ASSUME options \in Seq(Options)
  PROVE  LET N == Len(options) T == AllTyped(options)
         IN  /\ \A k \in 0..N : Len(T[k]) \in Nat /\ Len(T[k]) <= Len(T[N])
             /\ \A k \in 1..N : /\ Len(T[k]) = Begin(k) + Len(Typed(options[k]))
                                /\ Begin(k) \in Nat
                                /\ Len(Typed(options[k])) \in {1, 2}
                                /\ T[k] = T[k - 1] \o Typed(options[k])
                                /\ Typed(options[k]) \in Arguments /\ T[k - 1] \in Arguments
             /\ Len(T[0]) = 0
<1> DEFINE N == Len(options)
           T == AllTyped(options)
<1>1. N \in Nat
  BY LenProperties
<1>2. ASSUME NEW k \in 0..N PROVE T[k] \in Arguments /\ Len(T[k]) \in Nat /\ Len(T[k]) <= Len(T[N])
  <2>1. T[k] \in Arguments
    BY TypedDef
  <2>2. Len(T[k]) \in Nat
    BY <2>1, LenProperties DEF Arguments
  <2>3. N \in k..N
    BY <1>1
  <2> QED
    BY <2>1, <2>2, <2>3, TypedGrows
<1>3. ASSUME NEW k \in 1..N
      PROVE  /\ Len(T[k]) = Begin(k) + Len(Typed(options[k]))
             /\ Begin(k) \in Nat
             /\ Len(Typed(options[k])) \in {1, 2}
             /\ T[k] = T[k - 1] \o Typed(options[k])
             /\ Typed(options[k]) \in Arguments /\ T[k - 1] \in Arguments
  <2>1. options[k] \in Options
    BY ElementOfSeq
  <2>2. Typed(options[k]) \in Arguments /\ Len(Typed(options[k])) \in {1, 2}
    BY <2>1, TypedType
  <2>3. k - 1 \in 0..N
    BY <1>1
  <2>4. T[k] = T[k - 1] \o Typed(options[k])
    BY TypedDef
  <2>5. T[k - 1] \in Arguments /\ Len(T[k - 1]) \in Nat
    BY <1>2, <2>3
  <2>6. Len(T[k]) = Len(T[k - 1]) + Len(Typed(options[k]))
    BY <2>2, <2>4, <2>5, ConcatProperties DEF Arguments
  <2> QED
    BY <2>2, <2>4, <2>5, <2>6 DEF Begin
<1>4. Len(T[0]) = 0
  BY TypedDef, EmptySeq
<1> QED
  BY <1>2, <1>3, <1>4

\* Normalizing arranges the arguments.
LEMMA NormalizeArranges ==
  ASSUME options \in Seq(Options), NEW words \in {<<>>, <<<<"migrate">>>>},
         args = AllTyped(options)[Len(options)] \o words,
         args' = [k \in 1..Len(args) |-> Doubled(args[k])], UNCHANGED options
  PROVE  Arranged'
<1> DEFINE N == Len(options)
           T == AllTyped(options)
           end == Len(T[N])
           word == <<"migrate">>
<1>1. N \in Nat
  BY LenProperties
<1>2. T[N] \in Arguments /\ end \in Nat
  <2>1. N \in 0..N
    BY <1>1
  <2>2. T[N] \in Arguments
    BY <2>1, TypedDef
  <2> QED
    BY <2>2, LenProperties DEF Arguments
<1>3. words \in Arguments /\ Len(words) \in 0..1 /\ (Len(words) = 1 => words[1] = word)
  <2>1. word \in Seq(Symbols)
    BY DEF Symbols
  <2>2. <<word>> \in Arguments /\ Len(<<word>>) = 1 /\ <<word>>[1] = word
    <3> HIDE DEF word
    <3> QED
      BY <2>1 DEF Arguments
  <2>3. <<>> \in Arguments /\ Len(<<>>) = 0
    BY EmptySeq DEF Arguments
  <2>4. words = <<>> \/ words = <<word>>
    OBVIOUS
  <2> HIDE DEF word
  <2>5. CASE words = <<>>
    BY <2>3, <2>5
  <2>6. CASE words = <<word>>
    BY <2>2, <2>6
  <2> QED
    BY <2>4, <2>5, <2>6
<1> HIDE DEF word
<1>4. /\ Len(args) = end + Len(words)
      /\ \A i \in 1..end : args[i] = T[N][i]
      /\ Len(args) = end + 1 => args[end + 1] = word
  <2>1. /\ Len(T[N] \o words) = Len(T[N]) + Len(words)
        /\ \A i \in 1..(Len(T[N]) + Len(words)) :
             (T[N] \o words)[i] = IF i <= Len(T[N]) THEN T[N][i] ELSE words[i - Len(T[N])]
    BY <1>2, <1>3, ConcatProperties DEF Arguments
  <2>2. \A i \in 1..(end + Len(words)) :
          args[i] = IF i <= end THEN T[N][i] ELSE words[i - end]
    BY <2>1
  <2>3. Len(args) = end + Len(words)
    BY <2>1
  <2>4. end \in Nat /\ Len(words) \in 0..1
    BY <1>2, <1>3
  <2> HIDE DEF T, N, end
  <2>5. \A i \in 1..end : args[i] = T[N][i]
    <3>1. \A i \in 1..end : i \in 1..(end + Len(words)) /\ i <= end
      BY <2>4
    <3> QED
      BY <2>2, <3>1
  <2>6. ASSUME Len(args) = end + 1 PROVE args[end + 1] = word
    <3>1. Len(words) = 1
      BY <2>3, <2>4, <2>6
    <3>2. end + 1 \in 1..(end + Len(words)) /\ ~ (end + 1 <= end) /\ (end + 1) - end = 1
      BY <2>4, <3>1
    <3>3. args[end + 1] = words[1]
      BY <2>2, <3>2
    <3> QED
      BY <1>3, <3>1, <3>3
  <2> QED
    BY <2>3, <2>5, <2>6
<1>5. /\ Len(args') = Len(args) /\ \A i \in 1..Len(args) : args'[i] = Doubled(args[i])
  <2>1. Len(args) \in Nat
    BY <1>2, <1>3, <1>4
  <2> QED
    BY <2>1
<1>6. Doubled(word) = word
  <2>1. word[1] = "migrate" /\ word \in Seq(Symbols)
    BY DEF word, Symbols
  <2>2. ~ SingleDashed(word)
    BY <2>1 DEF SingleDashed
  <2> QED
    BY <2>1, <2>2, DoubledFacts
<1>7. ASSUME NEW k \in 1..N, NEW j \in 1..Len(Typed(options[k]))
      PROVE  /\ Begin(k) + j \in 1..Len(args)
             /\ args[Begin(k) + j] = Typed(options[k])[j]
  <2>1. /\ Len(T[k]) \in Nat /\ Len(T[k]) <= end
        /\ Len(T[k]) = Begin(k) + Len(Typed(options[k]))
        /\ Begin(k) \in Nat /\ Len(Typed(options[k])) \in {1, 2}
        /\ T[k] = T[k - 1] \o Typed(options[k])
        /\ Typed(options[k]) \in Arguments /\ T[k - 1] \in Arguments
    <3>1. k \in 0..N
      BY <1>1
    <3> QED
      BY <3>1, Begins
  <2>2. \A i \in 1..Len(T[k]) : T[N][i] = T[k][i]
    <3>1. k \in 0..N /\ N \in k..N
      BY <1>1
    <3> QED
      BY <3>1, TypedGrows
  <2> DEFINE u == Typed(options[k])
             b == T[k - 1]
  <2>3. /\ u \in Arguments /\ b \in Arguments /\ T[k] = b \o u
        /\ Len(u) \in {1, 2} /\ Len(b) = Begin(k) /\ Begin(k) \in Nat
        /\ j \in 1..Len(u)
    BY <2>1 DEF Begin
  <2> HIDE DEF u, b
  <2>4. \A i \in 1..(Len(b) + Len(u)) : (b \o u)[i] = IF i <= Len(b) THEN b[i] ELSE u[i - Len(b)]
    BY <2>3, ConcatProperties DEF Arguments
  <2>5. T[k][Begin(k) + j] = u[j]
    <3>1. Begin(k) + j \in 1..(Len(b) + Len(u)) /\ ~ (Begin(k) + j <= Len(b))
          /\ (Begin(k) + j) - Len(b) = j
      BY <2>3
    <3> QED
      BY <2>3, <2>4, <3>1
  <2>6. Begin(k) + j \in 1..Len(T[k]) /\ Begin(k) + j \in 1..end /\ Begin(k) + j \in 1..Len(args)
    BY <1>2, <1>3, <1>4, <2>1, SMTT(20)
  <2> QED
    BY <1>4, <2>2, <2>5, <2>6 DEF u
<1> HIDE DEF N, T, end
<1>8. \A k \in 1..N : \A j \in 1..Len(Typed(options[k])) :
        /\ Begin(k) + j \in 1..Len(args')
        /\ args'[Begin(k) + j] = Doubled(Typed(options[k])[j])
  BY <1>5, <1>7
<1>9. end \in Nat /\ Len(args') \in end..(end + 1)
  <2>1. end \in Nat /\ Len(words) \in 0..1
    BY <1>2, <1>3
  <2>2. Len(args') = end + Len(words)
    BY <1>4, <1>5
  <2> DEFINE n == Len(words)
             m == Len(args')
  <2> HIDE DEF n, m
  <2>3. end \in Nat /\ n \in 0..1 /\ m = end + n
    BY <2>1, <2>2 DEF n, m
  <2>4. end \in Nat /\ m \in end..(end + 1)
    BY <2>3
  <2> QED
    BY <2>4 DEF m
<1>10. ASSUME Len(args') = end + 1 PROVE args'[end + 1] = word
  <2>1. Len(args) = end + 1
    BY <1>5, <1>10
  <2>2. end + 1 \in 1..Len(args)
    BY <1>2, <2>1
  <2>3. args'[end + 1] = Doubled(args[end + 1])
    BY <1>5, <2>2
  <2> QED
    BY <1>4, <1>6, <2>1, <2>3
<1> QED
  BY <1>8, <1>9, <1>10, ZenonT(30) DEF Arranged, N, T, end, word, Begin

\* What pflag has parsed: the arguments of the first k options, or all there are.
Parsed(k) ==
  LET N == Len(options)
  IN  /\ flags = AllMeant[k]
      /\ next = Len(AllTyped(options)[k]) + 1 \/ (k = N /\ next = Len(args) + 1)

\* The flags parsed are those of the first options, up to where pflag is.
ParseInv ==
  /\ options \in Seq(Options)
  /\ stage = "start" =>
       /\ next = 1 /\ flags = NoFlags
       /\ \E words \in {<<>>, <<<<"migrate">>>>} :
            args = AllTyped(options)[Len(options)] \o words
  /\ stage = "parse" => Arranged /\ \E k \in 0..Len(options) : Parsed(k)
  /\ stage \in {"load", "connected"} => flags = AllMeant[Len(options)]

\* What the options mean does not change.
LEMMA MeaningStays ==
  ASSUME UNCHANGED options
  PROVE  /\ AllMeant' = AllMeant
         /\ UNCHANGED args => (Arranged' <=> Arranged)
         /\ UNCHANGED <<args, next, flags>> => \A k : Parsed(k)' <=> Parsed(k)
<1>1. AllMeant' = AllMeant
  BY DEF AllMeant
<1>2. \A k : Begin(k)' = Begin(k)
  BY DEF Begin
<1>3. ASSUME UNCHANGED args PROVE Arranged' <=> Arranged
  BY <1>2, <1>3 DEF Arranged
<1>4. ASSUME UNCHANGED <<args, next, flags>> PROVE \A k : Parsed(k)' <=> Parsed(k)
  BY <1>1, <1>4 DEF Parsed
<1> QED
  BY <1>1, <1>3, <1>4

\* Pflag is at a flag: then at the beginning of the next option; at a word: then at
\* the command behind all options; behind all arguments: then behind all options.
LEMMA WherePflagIs ==
  ASSUME ParseInv, stage = "parse", NEW k \in 0..Len(options), Parsed(k)
  PROVE  LET N == Len(options)
         IN  /\ Parsing =>
                  \/ k < N /\ k + 1 \in 1..N /\ next = Begin(k + 1) + 1
                  \/ k = N /\ next = Len(args) /\ args[next] = <<"migrate">>
             /\ next > Len(args) => k = N
<1> DEFINE N == Len(options)
           T == AllTyped(options)
<1>1. N \in Nat /\ k \in Nat /\ options \in Seq(Options) /\ Arranged
  BY LenProperties DEF ParseInv
<1>2. /\ \A n \in 0..N : Len(T[n]) \in Nat /\ Len(T[n]) <= Len(T[N])
      /\ \A n \in 1..N : /\ Len(T[n]) = Len(T[n - 1]) + Len(Typed(options[n]))
                         /\ Len(Typed(options[n])) \in {1, 2}
  BY <1>1, Begins DEF Begin
<1>3. Len(args) \in Nat /\ Len(args) >= Len(T[N]) /\ Len(args) <= Len(T[N]) + 1
      /\ (Len(args) = Len(T[N]) + 1 => args[Len(T[N]) + 1] = <<"migrate">>)
  BY <1>1 DEF Arranged
<1>4. next = Len(T[k]) + 1 \/ (k = N /\ next = Len(args) + 1)
  BY DEF Parsed
<1>5. Parsing => next <= Len(args)
  BY DEF Parsing
<1>6. Begin(k + 1) = Len(T[k])
  BY <1>1 DEF Begin
<1> HIDE DEF T, N
<1>7. CASE k < N
  <2>1. k + 1 \in 1..N /\ (k + 1) - 1 = k /\ k + 1 \in 0..N
    BY <1>1, <1>7
  <2>2. Len(T[k + 1]) = Len(T[k]) + Len(Typed(options[k + 1])) /\ Len(T[k + 1]) <= Len(T[N])
        /\ Len(Typed(options[k + 1])) \in {1, 2}
    BY <1>2, <2>1
  <2>3. k \in 0..N /\ Len(T[k]) \in Nat /\ Len(T[k + 1]) \in Nat /\ N \in 0..N /\ Len(T[N]) \in Nat
    BY <1>1, <1>2, <1>7, <2>1
  <2>4. next = Len(T[k]) + 1
    BY <1>1, <1>4, <1>7
  <2>5. Len(T[k]) + 1 <= Len(T[N])
    <3> DEFINE x == Len(T[k])
               y == Len(T[k + 1])
               z == Len(T[N])
               n == Len(Typed(options[k + 1]))
    <3>1. x \in Nat /\ y \in Nat /\ z \in Nat /\ n \in {1, 2} /\ y = x + n /\ y <= z
      BY <2>2, <2>3
    <3> HIDE DEF x, y, z, n
    <3>2. x + 1 <= z
      BY <3>1
    <3> QED
      BY <3>2 DEF x, z
  <2>6. next <= Len(args)
    BY <1>3, <2>3, <2>4, <2>5
  <2>7. ~ (next > Len(args))
    BY <1>3, <2>3, <2>4, <2>6
  <2> QED
    BY <1>6, <1>7, <2>1, <2>4, <2>7 DEF N
<1>8. CASE k = N
  <2>1. N \in 0..N /\ Len(T[N]) \in Nat
    BY <1>1, <1>2
  <2>2. ASSUME next <= Len(args) PROVE next = Len(args) /\ args[next] = <<"migrate">>
    <3>1. next = Len(T[N]) + 1 /\ Len(args) = Len(T[N]) + 1
      BY <1>3, <1>4, <1>8, <2>1, <2>2
    <3> QED
      BY <1>3, <3>1
  <2> QED
    BY <1>5, <1>8, <2>2 DEF N
<1> QED
  BY <1>1, <1>7, <1>8 DEF N

\* The arguments pflag reads for an option.
LEMMA AtOption ==
  ASSUME ParseInv, stage = "parse", NEW k \in 1..Len(options), next = Begin(k) + 1
  PROVE  LET o == options[k]
         IN  /\ o \in Options
             /\ \/ /\ Len(Arg) = Len(Received(o)) + 4
                   /\ Arg[3] = o.flag /\ SubSeq(Arg, 5, Len(Arg)) = Received(o)
                   /\ Len(AllTyped(options)[k]) = next
                \/ /\ Len(Arg) = 3 /\ Arg[3] = o.flag /\ args[next + 1] = Received(o)
                   /\ Len(AllTyped(options)[k]) = next + 1
                \/ Len(Arg) = 2
             /\ Arg \in Seq(Symbols) /\ Arg[1] = "-" /\ Len(Arg) > 1 /\ Len(Received(o)) \in Nat
<1> DEFINE o == options[k]
           u == Typed(o)
<1>1. /\ options \in Seq(Options) /\ o \in Options /\ Arranged
  BY ElementOfSeq DEF ParseInv
<1>2. /\ Len(AllTyped(options)[k]) = Begin(k) + Len(u) /\ Begin(k) \in Nat
      /\ \A j \in 1..Len(u) : args[Begin(k) + j] = Doubled(u[j])
  BY <1>1, Begins DEF Arranged
<1>3. /\ Len(o.value) \in Nat /\ o.form \in {"=", "space"}
      /\ Len(Received(o)) \in Nat /\ (o.form = "=" => Received(o) = o.value)
  BY <1>1, DashedFacts, ReceivedFacts, LenProperties
<1> HIDE DEF u, o
<1>4. CASE o.form = "="
  <2>1. PICK d \in Seq(Symbols) :
          /\ u = <<d>>
          /\ Doubled(d) \in Seq(Symbols) /\ Len(Doubled(d)) = Len(o.value) + 4
          /\ Doubled(d)[1] = "-" /\ Doubled(d)[2] = "-" /\ Doubled(d)[3] = o.flag
          /\ SubSeq(Doubled(d), 5, Len(Doubled(d))) = o.value
    BY <1>1, <1>4, WithEquals DEF u
  <2>2. Len(u) = 1 /\ u[1] = d
    BY <2>1
  <2>3. Arg = Doubled(d) /\ Len(AllTyped(options)[k]) = next
    <3>1. args[Begin(k) + 1] = Doubled(u[1])
      BY <1>2, <2>2
    <3> QED
      BY <1>2, <2>2, <3>1 DEF Arg
  <2> DEFINE a == Arg
  <2>4. /\ a \in Seq(Symbols) /\ Len(a) = Len(Received(o)) + 4
        /\ a[1] = "-" /\ a[3] = o.flag /\ SubSeq(a, 5, Len(a)) = Received(o)
    BY <1>3, <1>4, <2>1, <2>3
  <2> HIDE DEF a
  <2>5. Len(a) > 1
    BY <1>3, <2>4
  <2> QED
    BY <1>1, <1>3, <2>3, <2>4, <2>5 DEF o, a
<1>5. CASE o.form = "space"
  <2>1. PICK d \in Seq(Symbols) :
          /\ u = <<d, o.value>> /\ Doubled(o.value) = Received(o)
          /\ Doubled(d) \in Seq(Symbols) /\ Doubled(d)[1] = "-"
          /\ \/ Len(Doubled(d)) = 3 /\ Doubled(d)[2] = "-" /\ Doubled(d)[3] = o.flag
             \/ Len(Doubled(d)) = 2
    BY <1>1, <1>5, WithSpace DEF u
  <2>2. Len(u) = 2 /\ u[1] = d /\ u[2] = o.value
    BY <2>1
  <2>3. Arg = Doubled(d) /\ args[next + 1] = Received(o) /\ Len(AllTyped(options)[k]) = next + 1
    <3>1. args[Begin(k) + 1] = Doubled(u[1]) /\ args[Begin(k) + 2] = Doubled(u[2])
      BY <1>2, <2>2
    <3>2. Begin(k) + 2 = next + 1
      BY <1>2
    <3> QED
      BY <1>2, <2>1, <2>2, <3>1, <3>2 DEF Arg
  <2> DEFINE a == Arg
  <2>4. /\ a \in Seq(Symbols) /\ a[1] = "-"
        /\ (Len(a) = 3 /\ a[3] = o.flag) \/ Len(a) = 2
    BY <2>1, <2>3
  <2> HIDE DEF a
  <2>5. Len(a) > 1
    <3>1. Len(a) = 3 \/ Len(a) = 2
      BY <2>4
    <3> DEFINE l == Len(a)
    <3>2. l = 3 \/ l = 2
      BY <3>1
    <3> HIDE DEF l
    <3>3. l > 1
      BY <3>2
    <3> QED
      BY <3>3 DEF l
  <2> QED
    BY <1>1, <1>3, <2>3, <2>4, <2>5 DEF o, a
<1> QED
  BY <1>3, <1>4, <1>5 DEF o

\* One more flag is the next option.
LEMMA GiveStep ==
  ASSUME ParseInv, stage = "parse", FlagWithValue \/ FlagBeforeValue
  PROVE  ParseInv'
<1> DEFINE N == Len(options)
<1>1. /\ options \in Seq(Options) /\ N \in Nat /\ UNCHANGED <<options, args, stage>> /\ Parsing
      /\ Len(Arg) > 2
  BY LenProperties DEF ParseInv, FlagWithValue, FlagBeforeValue, Give, IsLong
<1>2. PICK k \in 0..N : Parsed(k)
  BY DEF ParseInv
<1>3. k + 1 \in 1..N /\ next = Begin(k + 1) + 1
  <2>1. \/ k < N /\ k + 1 \in 1..N /\ next = Begin(k + 1) + 1
        \/ k = N /\ args[next] = <<"migrate">>
    BY <1>1, <1>2, WherePflagIs
  <2>2. args[next] # <<"migrate">>
    <3>1. Len(<<"migrate">>) = 1
      OBVIOUS
    <3>2. Arg # <<"migrate">>
      <4> DEFINE l == Len(Arg)
      <4>1. l > 2
        BY <1>1
      <4>2. Arg = <<"migrate">> => l = 1
        BY <3>1
      <4> HIDE DEF l
      <4> QED
        BY <4>1, <4>2
    <3> QED
      BY <3>2 DEF Arg
  <2> QED
    BY <2>1, <2>2
<1> DEFINE o == options[k + 1]
<1>4. /\ Len(Received(o)) \in Nat
      /\ \/ /\ Len(Arg) = Len(Received(o)) + 4
            /\ Arg[3] = o.flag /\ SubSeq(Arg, 5, Len(Arg)) = Received(o)
            /\ Len(AllTyped(options)[k + 1]) = next
         \/ /\ Len(Arg) = 3 /\ Arg[3] = o.flag /\ args[next + 1] = Received(o)
            /\ Len(AllTyped(options)[k + 1]) = next + 1
         \/ Len(Arg) = 2
  BY <1>3, AtOption
<1>5. flags' = With(flags, o.flag, Received(o)) /\ next' = Len(AllTyped(options)[k + 1]) + 1
  <2> DEFINE a == Arg
             l == Len(a)
             t == Len(AllTyped(options)[k + 1])
             v == Received(o)
  <2>0. v = Received(o)
    OBVIOUS
  <2>1. \/ l > 3 /\ flags' = With(flags, a[3], SubSeq(a, 5, l)) /\ next' = next + 1
        \/ l = 3 /\ flags' = With(flags, a[3], args[next + 1]) /\ next' = next + 2
    BY DEF FlagWithValue, FlagBeforeValue, Give
  <2>2. /\ Len(v) \in Nat
        /\ \/ l = Len(v) + 4 /\ a[3] = o.flag /\ SubSeq(a, 5, l) = v /\ t = next
           \/ l = 3 /\ a[3] = o.flag /\ args[next + 1] = v /\ t = next + 1
           \/ l = 2
    BY <1>4
  <2>3. next \in Nat
    <3>1. Begin(k + 1) \in Nat
      BY <1>1, <1>3, Begins
    <3> QED
      BY <1>3, <3>1
  <2> HIDE DEF a, l, o, t, v
  <2>4. CASE l > 3
    <3>1. l # 3 /\ l # 2
      BY <2>4
    <3>2. a[3] = o.flag /\ SubSeq(a, 5, l) = v /\ t = next
      BY <2>2, <3>1
    <3>3. flags' = With(flags, a[3], SubSeq(a, 5, l)) /\ next' = next + 1
      BY <2>1, <3>1
    <3> QED
      BY <2>0, <3>2, <3>3 DEF t
  <2>5. CASE l = 3
    <3>1. l # Len(v) + 4 /\ ~ (l > 3) /\ l # 2
      BY <2>2, <2>5
    <3>2. a[3] = o.flag /\ args[next + 1] = v /\ t = next + 1
      BY <2>2, <3>1
    <3>3. flags' = With(flags, a[3], args[next + 1]) /\ next' = next + 2
      BY <2>1, <3>1
    <3> QED
      BY <2>0, <2>3, <3>2, <3>3 DEF t
  <2> QED
    BY <2>1, <2>4, <2>5
<1>6. AllMeant[k + 1] = With(AllMeant[k], o.flag, Received(o))
  <2>1. (k + 1) - 1 = k
    OBVIOUS
  <2> QED
    BY <1>1, <1>3, <2>1, MeantDef
<1>7. flags' = AllMeant[k + 1]
  BY <1>2, <1>5, <1>6 DEF Parsed
<1>8. Parsed(k + 1)'
  BY <1>1, <1>5, <1>7, MeaningStays DEF Parsed
<1>9. k + 1 \in 0..N /\ Arranged /\ stage' = "parse" /\ UNCHANGED <<options, args>>
  BY <1>1, <1>3 DEF ParseInv
<1>10. Arranged' /\ N' = N /\ options' \in Seq(Options)
  BY <1>1, <1>9, MeaningStays
<1>11. \E n \in 0..Len(options') : Parsed(n)'
  <2> HIDE DEF Parsed
  <2> QED
    BY <1>8, <1>9, <1>10
<1> QED
  BY <1>9, <1>10, <1>11 DEF ParseInv

\* The invariant holds initially.
LEMMA ParseInit == Init => ParseInv
<1>1. SUFFICES ASSUME Init PROVE ParseInv
  OBVIOUS
<1>2. options \in Seq(Options) /\ stage = "start" /\ next = 1 /\ flags = NoFlags
  <2>1. PICK s \in Scenarios, words \in {<<>>, <<<<"migrate">>>>} :
          options = s.options /\ LoadInit(s.disk, s.environ, NoFlags)
    BY <1>1 DEF Init
  <2>2. options \in Seq(Options)
    BY <2>1, ScenariosAssumption
  <2>3. flags = NoFlags
    BY <2>1 DEF LoadInit
  <2> QED
    BY <1>1, <2>2, <2>3 DEF Init
<1>3. \E words \in {<<>>, <<<<"migrate">>>>} : args = AllTyped(options)[Len(options)] \o words
  BY <1>1 DEF Init
<1> QED
  BY <1>2, <1>3 DEF ParseInv

\* And every step preserves it.
LEMMA ParseStep == ParseInv /\ [Next]_vars => ParseInv'
<1> SUFFICES ASSUME ParseInv, [Next]_vars PROVE ParseInv'
  OBVIOUS
<1> DEFINE N == Len(options)
<1>1. options \in Seq(Options) /\ N \in Nat
  BY LenProperties DEF ParseInv
<1>2. CASE Normalize
  <2>1. PICK words \in {<<>>, <<<<"migrate">>>>} : args = AllTyped(options)[N] \o words
    BY <1>2 DEF ParseInv, Normalize
  <2>2. /\ args' = [k \in 1..Len(args) |-> Doubled(args[k])]
        /\ stage' = "parse" /\ UNCHANGED <<options, next, flags>> /\ next = 1 /\ flags = NoFlags
    BY <1>2 DEF ParseInv, Normalize, loadVars
  <2>3. Arranged'
    BY <1>1, <2>1, <2>2, NormalizeArranges
  <2>4. Len(AllTyped(options)[0]) = 0 /\ AllMeant[0] = NoFlags /\ AllMeant' = AllMeant
    BY <1>1, <2>2, Begins, MeantDef, MeaningStays
  <2>5. Parsed(0)'
    BY <2>2, <2>4 DEF Parsed
  <2>6. 0 \in 0..Len(options')
    BY <1>1, <2>2
  <2>7. \E k \in 0..Len(options') : Parsed(k)'
    <3> HIDE DEF Parsed
    <3> QED
      BY <2>5, <2>6
  <2> QED
    BY <1>1, <2>2, <2>3, <2>7 DEF ParseInv
<1>3. CASE FlagWithValue \/ FlagBeforeValue
  <2>1. stage = "parse"
    BY <1>3 DEF FlagWithValue, FlagBeforeValue, IsLong, Parsing
  <2> QED
    BY <1>3, <2>1, GiveStep
<1>4. ASSUME stage' \in {"failed", "help"}, UNCHANGED options PROVE ParseInv'
  BY <1>1, <1>4 DEF ParseInv
<1>5. CASE ParseFails \/ Letter \/ NoCommand \/ LoadFails \/ ConnectFails
  BY <1>4, <1>5 DEF ParseFails, Letter, NoCommand, LoadFails, ConnectFails, Stop
<1>6. CASE Word
  <2>1. /\ stage = "parse" /\ stage' = "parse" /\ Parsing
        /\ UNCHANGED <<options, args, flags>> /\ next' = next + 1
        /\ Arg = <<"migrate">> \/ ~ Dash(Arg) \/ Arg = <<"-">>
    BY <1>6 DEF Word, Parsing, loadVars
  <2>2. PICK k \in 0..N : Parsed(k)
    BY <2>1 DEF ParseInv
  <2>3. k = N /\ next = Len(args)
    <3>1. SUFFICES ASSUME k < N, k + 1 \in 1..N, next = Begin(k + 1) + 1 PROVE FALSE
      BY <2>1, <2>2, WherePflagIs
    <3>2. Arg \in Seq(Symbols) /\ Arg[1] = "-" /\ Len(Arg) > 1
      BY <2>1, <3>1, AtOption
    <3> DEFINE a == Arg
    <3>3. a \in Seq(Symbols) /\ a[1] = "-" /\ Len(a) > 1
      BY <3>2
    <3>4. a = <<"migrate">> \/ ~ Dash(a) \/ a = <<"-">>
      BY <2>1
    <3> HIDE DEF a
    <3>5. a # <<>> /\ a # <<"migrate">> /\ a # <<"-">>
      BY <3>3
    <3> QED
      BY <3>3, <3>4, <3>5 DEF Dash
  <2>4. flags' = AllMeant[N] /\ next' = Len(args) + 1
    BY <2>1, <2>2, <2>3 DEF Parsed
  <2>5. Arranged' /\ AllMeant' = AllMeant /\ Len(options') = N /\ options' \in Seq(Options)
    BY <1>1, <2>1, MeaningStays DEF ParseInv
  <2>6. Parsed(N)'
    BY <2>1, <2>4, <2>5 DEF Parsed
  <2>7. N \in 0..Len(options')
    BY <1>1, <2>5
  <2>8. \E n \in 0..Len(options') : Parsed(n)'
    <3> HIDE DEF Parsed
    <3> QED
      BY <2>6, <2>7
  <2> QED
    BY <2>1, <2>5, <2>8 DEF ParseInv
<1>7. CASE Resolve
  <2>1. /\ stage = "parse" /\ stage' = "load" /\ next > Len(args)
        /\ UNCHANGED <<options, flags>>
    BY <1>7 DEF Resolve
  <2>2. PICK k \in 0..N : Parsed(k)
    BY <2>1 DEF ParseInv
  <2>3. k = N
    BY <2>1, <2>2, WherePflagIs
  <2>4. flags' = AllMeant'[Len(options')] /\ options' \in Seq(Options)
    BY <1>1, <2>1, <2>2, <2>3, MeaningStays DEF Parsed
  <2> QED
    BY <2>1, <2>4 DEF ParseInv
<1>8. ASSUME stage = "load", stage' \in {"load", "connected"}, UNCHANGED <<options, flags>>
      PROVE  ParseInv'
  <2>1. flags' = AllMeant'[Len(options')] /\ options' \in Seq(Options)
    BY <1>1, <1>8, MeaningStays DEF ParseInv
  <2> QED
    BY <1>8, <2>1 DEF ParseInv
<1>9. CASE Loading
  <2>1. UNCHANGED flags
    BY <1>9 DEF Loading, LoadNext, ChooseFiles, OpenFails, ReadLine, ReadFails, FileRead, FilesRead,
                ReadVariable, EnvironRead, ApplyFlags
  <2> QED
    BY <1>8, <1>9, <2>1 DEF Loading
<1>10. CASE Connect
  BY <1>8, <1>10 DEF Connect, loadVars
<1>11. CASE UNCHANGED vars
  <2>1. UNCHANGED <<options, args, next, stage, flags>>
    BY <1>11 DEF vars, loadVars
  <2>2. AllMeant' = AllMeant /\ (Arranged' <=> Arranged) /\ \A k : Parsed(k)' <=> Parsed(k)
    BY <2>1, MeaningStays
  <2> HIDE DEF Parsed
  <2>3. (\E k \in 0..Len(options') : Parsed(k)') <=> \E k \in 0..Len(options) : Parsed(k)
    BY <2>1, <2>2
  <2> QED
    BY <2>1, <2>2, <2>3 DEF ParseInv
<1> QED
  BY <1>2, <1>3, <1>5, <1>6, <1>7, <1>9, <1>10, <1>11 DEF Next

\* For all command lines, with any flags and any values: once a command runs, the flags
\* are those the user gave, with the values given, but that a value typed behind its flag
\* which begins with a single dash and is longer than two characters has got a second
\* dash (normalizeFlywayArgs, pflag, resolve).
THEOREM FlagsAsGiven == Spec => []FlagsArrive
<1>1. Spec => []ParseInv
  BY ParseInit, ParseStep, PTL DEF Spec
<1>2. ParseInv => FlagsArrive
  BY DEF ParseInv, FlagsArrive
<1> QED
  BY <1>1, <1>2, PTL

-----------------------------------------------------------------------------
(* Loading.                                                                *)

\* Before the first place there is none, and the configuration is the default.
LEMMA NothingRead ==
  ASSUME LoadTypes
  PROVE  Gone(1, 1) = {} /\ ValuesFrom(Default, {}) /\ WarnsFrom(<<>>, {})
<1>1. Gone(1, 1) = {}
  <2>1. \A p \in Places : p[1] \in Nat /\ p[1] >= 1 /\ p[2] \in Nat /\ p[2] >= 1
    BY FilesNamedType, PlaceIsPair
  <2>2. \A p \in Places : ~ Before(p, <<1, 1>>)
    BY <2>1 DEF Before
  <2> QED
    BY <2>2 DEF Gone
<1>2. ValuesFrom(Default, {})
  <2>1. \A key : Setting({}, key) = {}
    BY DEF Setting
  <2>2. {key \in {SettingAt(p).key : p \in {}} : Honoured(key)} = {}
    OBVIOUS
  <2> QED
    BY <2>1, <2>2 DEF ValuesFrom
<1>3. WarnsFrom(<<>>, {})
  <2>1. <<>> \in Seq(Keys) /\ Len(<<>>) = 0 /\ 1..0 = {}
    BY EmptySeq
  <2> DEFINE e == <<>>
             none == [k \in {} |-> k]
  <2>2. e \in Seq(Keys) /\ 1..Len(e) = {}
    BY <2>1
  <2> HIDE DEF e
  <2>3. none \in [1..Len(e) -> Reported \cap {}] /\ WarnsAbout(e, {}, none)
    BY <2>2 DEF WarnsAbout
  <2> HIDE DEF none
  <2> QED
    BY <2>2, <2>3 DEF WarnsFrom, e
<1> QED
  BY <1>1, <1>2, <1>3

\* What the settings before a place of layer l make.
ReadTo(l) ==
  /\ at \in Nat \ {0}
  /\ ValuesFrom(cfg.values, Gone(l, at))
  /\ WarnsFrom(cfg.warnings, Gone(l, at))

\* While it is loaded, the configuration is made of the settings read so far.
LoadInv ==
  /\ IsConfig(cfg)
  /\ loading \in {"waiting", "start"} =>
       cfg = [values |-> Default, warnings |-> <<>>] /\ files = <<>> /\ at = 1
  /\ loading = "files" =>
       \E l \in 1..EnvironLayer :
         /\ files = SubSeq(FilesNamed, l, Len(FilesNamed))
         /\ l = EnvironLayer => at = 1
         /\ ReadTo(l)
  /\ loading = "environ" => ReadTo(EnvironLayer)
  /\ loading = "flags" => ValuesFrom(cfg.values, Places) /\ WarnsFrom(cfg.warnings, Places)
  /\ Precedence /\ SilentOrWarned

\* The newest of some places.
Newest(S) == CHOOSE p \in S : \A q \in S : q = p \/ Before(q, p)

\* The value in effect, by the settings that say something about the key.
LEMMA EffectiveIs ==
  \A key : Effective(key) =
    IF key \in DOMAIN flags.given THEN flags.given[key]
    ELSE IF Setting(Places, key) = {} THEN Default[key]
    ELSE Said(Newest(Setting(Places, key)), key)
BY DEF Effective, Newest, Setting, Said

\* What settings make does not change while they are read.
LEMMA MadeStays ==
  ASSUME UNCHANGED <<disk, environ, flags>>
  PROVE  /\ \A v, R : ValuesFrom(v, R)' <=> ValuesFrom(v, R)
         /\ \A w, R : WarnsFrom(w, R)' <=> WarnsFrom(w, R)
         /\ \A key : Effective(key)' = Effective(key)
<1>1. Places' = Places /\ Reported' = Reported /\ \A p : SettingAt(p)' = SettingAt(p)
  BY SourcesStay
<1>2. \A R, key : Setting(R, key)' = Setting(R, key)
  BY <1>1 DEF Setting
<1>3. \A p, key : Said(p, key)' = Said(p, key)
  BY <1>1 DEF Said
<1>4. \A v, R : ValuesFrom(v, R)' <=> ValuesFrom(v, R)
  BY <1>1, <1>2, <1>3, ZenonT(30) DEF ValuesFrom
<1>5. Keys' = Keys
  BY <1>1 DEF Keys
<1>6. \A w, R, place : WarnsAbout(w, R, place)' <=> WarnsAbout(w, R, place)
  BY <1>1 DEF WarnsAbout
<1>7. \A w, R : WarnsFrom(w, R)' <=> WarnsFrom(w, R)
  BY <1>1, <1>5, <1>6 DEF WarnsFrom
<1>8. \A key : Effective(key)' = Effective(key)
  <2>1. \A key : Effective(key)' =
          (IF key \in DOMAIN flags.given THEN flags.given[key]
           ELSE IF Setting(Places, key) = {} THEN Default[key]
           ELSE Said(Newest(Setting(Places, key)), key))'
    BY DEF Effective, Newest, Setting, Said
  <2>2. \A key : Default[key]' = Default[key]
    OBVIOUS
  <2>3. ASSUME NEW key PROVE Effective(key)' = Effective(key)
    BY <1>1, <1>2, <1>3, <2>1, EffectiveIs
  <2> QED
    BY <2>3
<1> QED
  BY <1>4, <1>7, <1>8

\* So the configuration read so far is made by the settings read so far.
LEMMA ReadToNext ==
  ASSUME UNCHANGED <<disk, environ, flags>>, NEW l, at' \in Nat \ {0},
         NEW values, values = cfg'.values, NEW warnings, warnings = cfg'.warnings,
         NEW R, R = Gone(l, at'), ValuesFrom(values, R), WarnsFrom(warnings, R)
  PROVE  ReadTo(l)'
<1>1. Gone(l, at)' = R
  BY SourcesStay DEF Gone
<1>2. ValuesFrom(cfg.values, Gone(l, at))' /\ WarnsFrom(cfg.warnings, Gone(l, at))'
  BY <1>1, MadeStays
<1> QED
  BY <1>2 DEF ReadTo

\* Reading a setting behind all others.
LEMMA ReadSetting ==
  ASSUME LoadTypes, UNCHANGED <<disk, environ, flags>>, IsConfig(cfg),
         NEW l, <<l, at>> \in Places, ReadTo(l), at' = at + 1,
         Applied(cfg, cfg', <<l, at>>),
         Known(SettingAt(<<l, at>>).key) =>
           (<<l, at>> \in Reported <=> SettingAt(<<l, at>>).key \in Schemas)
  PROVE  IsConfig(cfg') /\ ReadTo(l)'
<1> DEFINE here == <<l, at>>
           R == Gone(l, at)
           R1 == R \cup {here}
           c == cfg
           d == cfg'
<1>1. R1 = Gone(l, at + 1) /\ \A p \in R : Before(p, here)
  BY Advance
<1>2. R \in SUBSET Places /\ at \in Nat \ {0} /\ ValuesFrom(c.values, R) /\ WarnsFrom(c.warnings, R)
  BY DEF Gone, ReadTo
<1>3. ValuesFrom(d.values, R1)
  <2> HIDE DEF R
  <2> QED
    BY <1>1, <1>2, ValuesStep
<1>4. IsConfig(d) /\ WarnsFrom(d.warnings, R1)
  <2> HIDE DEF R
  <2> QED
    BY <1>1, <1>2, WarnsStep
<1>5. R1 = Gone(l, at') /\ at' \in Nat \ {0}
  BY <1>1, <1>2
<1> DEFINE values == d.values
           warnings == d.warnings
<1>6. values = cfg'.values /\ warnings = cfg'.warnings
  OBVIOUS
<1> HIDE DEF R1, values, warnings
<1>7. ValuesFrom(values, R1) /\ WarnsFrom(warnings, R1)
  BY <1>3, <1>4 DEF values, warnings
<1>8. ReadTo(l)'
  BY <1>5, <1>6, <1>7, ReadToNext
<1> QED
  BY <1>4, <1>8

\* The files still to be read are the last ones of those named.
LEMMA FilesLeft ==
  ASSUME LoadTypes, NEW l \in 1..EnvironLayer, files = SubSeq(FilesNamed, l, Len(FilesNamed))
  PROVE  /\ files = <<>> <=> l = EnvironLayer
         /\ files # <<>> => /\ l < EnvironLayer /\ l + 1 \in 1..EnvironLayer
                            /\ Head(files) = FilesNamed[l]
                            /\ Tail(files) = SubSeq(FilesNamed, l + 1, Len(FilesNamed))
                            /\ Layer(l) = disk[Head(files)]
                            /\ Head(files) \in DOMAIN disk => Len(Layer(l)) \in Nat
<1> DEFINE F == FilesNamed
           n == Len(F)
<1>1. F \in Seq(Seq(Symbols)) /\ n \in Nat /\ EnvironLayer = n + 1
  BY FilesNamedType
<1> HIDE DEF F, n
<1>2. CASE l = EnvironLayer
  <2>1. l \in Int /\ n \in Int /\ n < l
    BY <1>1, <1>2
  <2>2. SubSeq(F, l, n) = <<>>
    BY <2>1, SubSeqEmpty
  <2> QED
    BY <1>2, <2>2 DEF F, n
<1>3. CASE l # EnvironLayer
  <2>1. l \in 1..n /\ n \in l..n /\ l < EnvironLayer /\ l + 1 \in 1..EnvironLayer /\ l \in Int /\ n \in Int
    BY <1>1, <1>3
  <2>2. /\ Head(SubSeq(F, l, n)) = F[l]
        /\ Tail(SubSeq(F, l, n)) = SubSeq(F, l + 1, n)
    BY <1>1, <2>1, HeadTailOfSubSeq DEF n
  <2>3. SubSeq(F, l, n) # <<>>
    <3>1. \A i \in l..n : F[i] \in Seq(Symbols)
      BY <1>1, <2>1, ElementOfSeq DEF n
    <3>2. Len(SubSeq(F, l, n)) = n - l + 1
      BY <2>1, <3>1, SubSeqProperties
    <3>3. Len(SubSeq(F, l, n)) # 0
      BY <2>1, <3>2
    <3>4. Len(<<>>) = 0
      BY EmptySeq
    <3> QED
      BY <3>3, <3>4
  <2>4. Layer(l) = disk[F[l]]
    BY <2>1 DEF Layer, F
  <2>5. ASSUME F[l] \in DOMAIN disk PROVE Len(Layer(l)) \in Nat
    <3>1. disk[F[l]] \in Seq(Settings)
      BY <2>5 DEF LoadTypes
    <3> QED
      BY <2>4, <3>1, LenProperties
  <2> QED
    BY <1>3, <2>1, <2>2, <2>3, <2>4, <2>5 DEF F, n
<1> QED
  BY <1>2, <1>3

\* A line of a file is read.
LEMMA LineStep ==
  ASSUME LoadTypes, LoadInv, ReadLine
  PROVE  LoadInv'
<1>1. /\ loading = "files" /\ loading' = "files" /\ files # <<>> /\ Head(files) \in DOMAIN disk
      /\ UNCHANGED <<disk, environ, flags, files>> /\ at' = at + 1 /\ IsConfig(cfg)
  BY DEF ReadLine, HasLine, Reading, LoadInv
<1>2. PICK l \in 1..EnvironLayer :
        /\ files = SubSeq(FilesNamed, l, Len(FilesNamed))
        /\ l = EnvironLayer => at = 1
        /\ ReadTo(l)
  BY <1>1 DEF LoadInv
<1>3. /\ l < EnvironLayer /\ Layer(l) = disk[Head(files)] /\ Len(Layer(l)) \in Nat /\ l # EnvironLayer
      /\ l \in Nat
  <2>1. /\ l < EnvironLayer /\ Layer(l) = disk[Head(files)] /\ Len(Layer(l)) \in Nat
    BY <1>1, <1>2, FilesLeft
  <2> QED
    BY <2>1, FilesNamedType
<1>4. <<l, at>> \in Places
  <2>1. at \in 1..Len(Layer(l))
    <3> DEFINE n == Len(Layer(l))
    <3>1. at <= Len(disk[Head(files)])
      BY DEF ReadLine, HasLine
    <3>2. at <= n /\ n \in Nat /\ at \in Nat \ {0}
      BY <1>2, <1>3, <3>1 DEF ReadTo
    <3> HIDE DEF n
    <3>3. at \in 1..n
      BY <3>2
    <3> QED
      BY <3>3 DEF n
  <2> QED
    BY <2>1, PlacesAre
<1>5. SettingAt(<<l, at>>) = Line
  BY <1>3 DEF SettingAt, Line
<1>6. <<l, at>> \in Reported <=> ~ Honoured(Line.key) /\ Line.key # <<"comment">>
  <2> DEFINE key == Line.key
  <2>1. SettingAt(<<l, at>>).key = key
    BY <1>5
  <2> HIDE DEF key
  <2>2. <<l, at>> \in Reported <=> ~ Honoured(key) /\ key # <<"comment">>
    <3> DEFINE place == <<l, at>>
    <3>1. place \in Places /\ key = SettingAt(place).key
      BY <1>4, <2>1
    <3>2. place[1] # EnvironLayer
      BY <1>3
    <3> HIDE DEF place
    <3>3. place \in Reported <=> ~ Honoured(key) /\ key # <<"comment">>
      BY <3>1, <3>2, ReportedAre
    <3> QED
      BY <3>3 DEF place
  <2> QED
    BY <2>2 DEF key
<1>7. Applied(cfg, cfg', <<l, at>>)
  <2>1. cfg' = IF Line.key = <<"comment">> THEN cfg
               ELSE IF Known(Line.key) THEN Set(cfg, Line.key, Line.value)
               ELSE Warn(cfg, Line.key)
    BY DEF ReadLine
  <2>2. /\ Line.key = <<"comment">> => ~ Known(Line.key)
        /\ Honoured(Line.key) => Known(Line.key)
    BY KnownKeys
  <2> HIDE DEF Line
  <2> QED
    BY <1>5, <1>6, <2>1, <2>2 DEF Applied
<1>8. Known(Line.key) => (<<l, at>> \in Reported <=> Line.key \in Schemas)
  <2>1. /\ Line.key = <<"comment">> => ~ Known(Line.key)
        /\ Known(Line.key) => (Honoured(Line.key) <=> Line.key \notin Schemas)
    BY KnownKeys
  <2> HIDE DEF Line
  <2> QED
    BY <1>6, <2>1
<1>9. IsConfig(cfg') /\ ReadTo(l)'
  <2> HIDE DEF Line
  <2> QED
    BY <1>1, <1>2, <1>4, <1>5, <1>7, <1>8, ReadSetting
<1>10. EnvironLayer' = EnvironLayer /\ FilesNamed' = FilesNamed
  BY <1>1, SourcesStay
<1>11. \E n \in 1..EnvironLayer' :
         /\ files' = SubSeq(FilesNamed', n, Len(FilesNamed'))
         /\ n = EnvironLayer' => at' = 1
         /\ ReadTo(n)'
  <2> HIDE DEF ReadTo
  <2> QED
    BY <1>1, <1>2, <1>3, <1>9, <1>10
<1> QED
  BY <1>1, <1>9, <1>11 DEF LoadInv, Precedence, SilentOrWarned

\* A variable of the environment is read.
LEMMA VariableStep ==
  ASSUME LoadTypes, LoadInv, ReadVariable
  PROVE  LoadInv'
<1> DEFINE l == EnvironLayer
           v == environ[at]
           key == EnvKey(v.name)
<1>1. /\ loading = "environ" /\ loading' = "environ" /\ at <= Len(environ)
      /\ UNCHANGED <<disk, environ, flags, files>> /\ at' = at + 1 /\ IsConfig(cfg)
      /\ ReadTo(l) /\ at \in Nat \ {0}
  BY DEF ReadVariable, LoadInv, ReadTo
<1>2. l \in Nat /\ l \in 1..EnvironLayer /\ Len(environ) \in Nat
  BY FilesNamedType, LenProperties DEF LoadTypes
<1>3. Layer(l) = Variables /\ Len(Variables) = Len(environ)
  <2>1. Len(Variables) = Len(environ)
    BY <1>2 DEF Variables
  <2> QED
    BY <1>2, <2>1 DEF Layer
<1>4. at \in 1..Len(environ) /\ <<l, at>> \in Places
  BY <1>1, <1>2, <1>3, PlacesAre
<1>5. SettingAt(<<l, at>>) = [key |-> key, value |-> v.value]
  BY <1>3, <1>4 DEF SettingAt, Variables
<1> HIDE DEF key, v
<1>6. SettingAt(<<l, at>>).key = key /\ SettingAt(<<l, at>>).value = v.value
  BY <1>5
<1>7. <<l, at>> \in Reported <=> key \in Schemas
  <2> DEFINE place == <<l, at>>
  <2>1. place \in Places /\ key = SettingAt(place).key
    BY <1>4, <1>6
  <2>2. place[1] = EnvironLayer
    OBVIOUS
  <2> HIDE DEF place
  <2>3. place \in Reported <=> key \in Schemas
    BY <2>1, <2>2, ReportedAre
  <2> QED
    BY <2>3 DEF place
<1>8. Applied(cfg, cfg', <<l, at>>)
  <2>1. cfg' = IF Known(key) THEN Set(cfg, key, v.value) ELSE cfg
    BY DEF ReadVariable, key, v
  <2>2. key \in Schemas => Known(key)
    BY KnownKeys
  <2> HIDE DEF l
  <2> QED
    BY <1>6, <1>7, <2>1, <2>2 DEF Applied
<1>9. IsConfig(cfg') /\ ReadTo(l)'
  <2>1. Known(SettingAt(<<l, at>>).key) =>
          (<<l, at>> \in Reported <=> SettingAt(<<l, at>>).key \in Schemas)
    BY <1>6, <1>7
  <2> HIDE DEF ReadTo
  <2>2. PICK n : n = EnvironLayer
    OBVIOUS
  <2>3. IsConfig(cfg') /\ ReadTo(n)'
    <3> HIDE DEF IsConfig
    <3>1. /\ <<n, at>> \in Places /\ ReadTo(n) /\ Applied(cfg, cfg', <<n, at>>)
          /\ Known(SettingAt(<<n, at>>).key) =>
               (<<n, at>> \in Reported <=> SettingAt(<<n, at>>).key \in Schemas)
      BY <1>1, <1>4, <1>8, <2>1, <2>2
    <3> QED
      BY <1>1, <3>1, ReadSetting
  <2> QED
    BY <1>1, <2>2, <2>3, SourcesStay DEF ReadTo
<1> QED
  <2>1. EnvironLayer' = EnvironLayer
    BY <1>1, SourcesStay
  <2>2. ReadTo(EnvironLayer)'
    BY <1>9, <2>1
  <2> QED
    BY <1>1, <1>9, <2>2 DEF LoadInv, Precedence, SilentOrWarned

\* The other steps of the loading before its end.
LEMMA BetweenStep ==
  ASSUME LoadTypes, LoadInv, ChooseFiles \/ FileRead \/ FilesRead \/ EnvironRead
  PROVE  LoadInv'
<1>1. UNCHANGED <<disk, environ, flags, cfg>> /\ IsConfig(cfg) /\ IsConfig(cfg')
  BY DEF LoadInv, ChooseFiles, FileRead, FilesRead, EnvironRead, IsConfig
<1>2. /\ EnvironLayer' = EnvironLayer /\ FilesNamed' = FilesNamed /\ Places' = Places
      /\ EnvironLayer = Len(FilesNamed) + 1 /\ Len(FilesNamed) \in Nat
      /\ FilesNamed \in Seq(Seq(Symbols))
  BY <1>1, SourcesStay, FilesNamedType
<1>3. CASE ChooseFiles
  <2>1. /\ cfg = [values |-> Default, warnings |-> <<>>] /\ at = 1 /\ at' = 1
        /\ loading' = "files" /\ files' = FilesNamed
    BY <1>3 DEF LoadInv, ChooseFiles, FilesNamed
  <2>2. SubSeq(FilesNamed, 1, Len(FilesNamed)) = FilesNamed /\ 1 \in 1..EnvironLayer
    BY <1>2, SubSeqFull
  <2>3. ReadTo(1)'
    <3>1. cfg.values = Default /\ cfg.warnings = <<>>
      BY <2>1
    <3>2. ValuesFrom(cfg.values, Gone(1, 1)) /\ WarnsFrom(cfg.warnings, Gone(1, 1))
      BY <3>1, NothingRead
    <3> DEFINE values == cfg.values
               warnings == cfg.warnings
               R == Gone(1, 1)
    <3>3. /\ values = cfg'.values /\ warnings = cfg'.warnings /\ R = Gone(1, at')
          /\ at' \in Nat \ {0} /\ ValuesFrom(values, R) /\ WarnsFrom(warnings, R)
      BY <1>1, <2>1, <3>2
    <3> HIDE DEF values, warnings, R
    <3> QED
      BY <1>1, <3>3, ReadToNext
  <2>4. \E n \in 1..EnvironLayer' :
          /\ files' = SubSeq(FilesNamed', n, Len(FilesNamed'))
          /\ n = EnvironLayer' => at' = 1
          /\ ReadTo(n)'
    <3> HIDE DEF ReadTo
    <3> QED
      BY <1>2, <2>1, <2>2, <2>3
  <2> QED
    BY <1>1, <2>1, <2>4 DEF LoadInv, Precedence, SilentOrWarned
<1>4. CASE FileRead
  <2>1. /\ loading = "files" /\ loading' = "files" /\ files # <<>> /\ Head(files) \in DOMAIN disk
        /\ files' = Tail(files) /\ at' = 1
        /\ at > Len(disk[Head(files)])
    BY <1>4 DEF FileRead, Reading
  <2>2. PICK l \in 1..EnvironLayer :
          files = SubSeq(FilesNamed, l, Len(FilesNamed)) /\ ReadTo(l)
    BY <2>1 DEF LoadInv
  <2>3. /\ l + 1 \in 1..EnvironLayer /\ files' = SubSeq(FilesNamed, l + 1, Len(FilesNamed))
        /\ Layer(l) = disk[Head(files)] /\ Len(Layer(l)) \in Nat
    BY <2>1, <2>2, FilesLeft
  <2>4. Gone(l + 1, 1) = Gone(l, at)
    <3>1. at \in Nat /\ at > Len(Layer(l))
      BY <2>1, <2>2, <2>3 DEF ReadTo
    <3> QED
      BY <2>3, <3>1, NewLayer
  <2>5. ReadTo(l + 1)'
    <3> DEFINE values == cfg.values
               warnings == cfg.warnings
               R == Gone(l + 1, 1)
               m == l + 1
    <3>1. /\ values = cfg'.values /\ warnings = cfg'.warnings /\ R = Gone(m, at')
          /\ at' \in Nat \ {0} /\ ValuesFrom(values, R) /\ WarnsFrom(warnings, R)
      BY <1>1, <2>1, <2>2, <2>4 DEF ReadTo
    <3> HIDE DEF values, warnings, R
    <3> QED
      BY <1>1, <3>1, ReadToNext
  <2>6. \E n \in 1..EnvironLayer' :
          /\ files' = SubSeq(FilesNamed', n, Len(FilesNamed'))
          /\ n = EnvironLayer' => at' = 1
          /\ ReadTo(n)'
    <3> HIDE DEF ReadTo
    <3> QED
      BY <1>2, <2>1, <2>3, <2>5
  <2> QED
    BY <1>1, <2>1, <2>6 DEF LoadInv, Precedence, SilentOrWarned
<1>5. CASE FilesRead
  <2>1. /\ loading = "files" /\ loading' = "environ" /\ files = <<>> /\ at' = at
    BY <1>5 DEF FilesRead
  <2>2. PICK l \in 1..EnvironLayer :
          files = SubSeq(FilesNamed, l, Len(FilesNamed)) /\ ReadTo(l)
    BY <2>1 DEF LoadInv
  <2>3. l = EnvironLayer
    BY <2>1, <2>2, FilesLeft
  <2>4. ReadTo(EnvironLayer)'
    <3> DEFINE values == cfg.values
               warnings == cfg.warnings
               R == Gone(l, at)
    <3>1. /\ values = cfg'.values /\ warnings = cfg'.warnings /\ R = Gone(l, at')
          /\ at' \in Nat \ {0} /\ ValuesFrom(values, R) /\ WarnsFrom(warnings, R)
      BY <1>1, <2>1, <2>2 DEF ReadTo
    <3> HIDE DEF values, warnings, R
    <3>2. ReadTo(l)'
      BY <1>1, <3>1, ReadToNext
    <3> QED
      BY <1>2, <2>3, <3>2 DEF ReadTo
  <2> QED
    BY <1>1, <2>1, <2>4 DEF LoadInv, Precedence, SilentOrWarned
<1>6. CASE EnvironRead
  <2>1. /\ loading = "environ" /\ loading' = "flags" /\ at > Len(environ) /\ ReadTo(EnvironLayer)
    BY <1>6 DEF EnvironRead, LoadInv
  <2>2. Gone(EnvironLayer, at) = Places
    <3>1. Layer(EnvironLayer) = Variables /\ Len(Variables) = Len(environ) /\ Len(environ) \in Nat
      <4>1. Len(environ) \in Nat
        BY LenProperties DEF LoadTypes
      <4>2. Len(Variables) = Len(environ)
        BY <4>1 DEF Variables
      <4>3. ~ (EnvironLayer < EnvironLayer)
        BY <1>2
      <4> QED
        BY <4>1, <4>2, <4>3 DEF Layer
    <3>2. at \in Nat
      BY <2>1 DEF ReadTo
    <3>3. ASSUME NEW p \in Places PROVE Before(p, <<EnvironLayer, at>>)
      <4>1. p[1] \in 1..EnvironLayer /\ p[2] \in 1..Len(Layer(p[1]))
        BY PlaceIsPair
      <4>2. CASE p[1] = EnvironLayer
        <5>1. p[2] \in 1..Len(environ)
          BY <3>1, <4>1, <4>2
        <5>2. p[2] < at
          BY <2>1, <3>1, <3>2, <5>1
        <5> QED
          BY <4>2, <5>2 DEF Before
      <4>3. CASE p[1] # EnvironLayer
        <5>1. p[1] < EnvironLayer
          BY <1>2, <4>1, <4>3
        <5> QED
          BY <5>1 DEF Before
      <4> QED
        BY <4>2, <4>3
    <3> QED
      BY <3>3 DEF Gone
  <2>3. ValuesFrom(cfg.values, Places) /\ WarnsFrom(cfg.warnings, Places)
    BY <2>1, <2>2 DEF ReadTo
  <2>4. (ValuesFrom(cfg.values, Places) /\ WarnsFrom(cfg.warnings, Places))'
    BY <1>1, <1>2, <2>3, MadeStays
  <2> QED
    BY <1>1, <2>1, <2>4 DEF LoadInv, Precedence, SilentOrWarned
<1> QED
  BY <1>3, <1>4, <1>5, <1>6

\* A newest place is the newest.
LEMMA NewestIs ==
  ASSUME LoadTypes, NEW S \in SUBSET Places, NEW p \in S, \A q \in S : q = p \/ Before(q, p)
  PROVE  Newest(S) = p
<1>1. \A q \in S : q[1] \in Nat /\ q[2] \in Nat
  BY FilesNamedType, PlaceIsPair
<1>2. \A q, r \in S : ~ (Before(q, r) /\ Before(r, q))
  BY <1>1 DEF Before
<1>3. Newest(S) \in S /\ \A q \in S : q = Newest(S) \/ Before(q, Newest(S))
  BY DEF Newest
<1> QED
  BY <1>2, <1>3

\* The flags override what was read.
LEMMA FlagsStep ==
  ASSUME LoadTypes, LoadInv, ApplyFlags
  PROVE  LoadInv'
<1>1. /\ loading = "flags" /\ loading' = "done" /\ UNCHANGED <<disk, environ, flags>>
      /\ IsConfig(cfg) /\ ValuesFrom(cfg.values, Places) /\ WarnsFrom(cfg.warnings, Places)
  BY DEF LoadInv, ApplyFlags
<1>2. cfg' = [values |-> Override(cfg.values, flags.given), warnings |-> cfg.warnings]
  BY <1>1 DEF ApplyFlags, IsConfig
<1>3. /\ cfg'.values = Override(cfg.values, flags.given) /\ cfg'.warnings = cfg.warnings
      /\ IsConfig(cfg')
  BY <1>2 DEF IsConfig
<1> DEFINE old == cfg.values
           new == cfg'.values
           g == flags.given
<1>4. /\ DOMAIN new = DOMAIN old \cup DOMAIN g
      /\ \A k \in DOMAIN new : new[k] = IF k \in DOMAIN g THEN g[k] ELSE old[k]
  BY <1>3 DEF Override
<1>5. /\ DOMAIN old = DOMAIN Default \cup {key \in {SettingAt(p).key : p \in Places} : Honoured(key)}
      /\ \A k \in DOMAIN old :
           \/ Setting(Places, k) = {} /\ old[k] = Default[k]
           \/ \E p \in Setting(Places, k) :
                /\ \A q \in Setting(Places, k) : q = p \/ Before(q, p)
                /\ old[k] = Said(p, k)
  BY <1>1 DEF ValuesFrom
<1> HIDE DEF old, new, g
<1>6. ASSUME NEW k \in DOMAIN new PROVE new[k] = Effective(k)
  <2>1. Effective(k) = IF k \in DOMAIN g THEN g[k]
                       ELSE IF Setting(Places, k) = {} THEN Default[k]
                       ELSE Said(Newest(Setting(Places, k)), k)
    BY EffectiveIs DEF g
  <2>2. CASE k \in DOMAIN g
    BY <1>4, <2>1, <2>2
  <2>3. CASE k \notin DOMAIN g
    <3>1. k \in DOMAIN old /\ new[k] = old[k]
      BY <1>4, <2>3
    <3>2. CASE Setting(Places, k) = {}
      BY <1>5, <2>1, <2>3, <3>1, <3>2
    <3>3. CASE Setting(Places, k) # {}
      <4>1. PICK p \in Setting(Places, k) :
              /\ \A q \in Setting(Places, k) : q = p \/ Before(q, p)
              /\ old[k] = Said(p, k)
        BY <1>5, <3>1, <3>3
      <4>2. Setting(Places, k) \in SUBSET Places
        BY DEF Setting
      <4>3. Newest(Setting(Places, k)) = p
        BY <4>1, <4>2, NewestIs
      <4> QED
        BY <2>1, <2>3, <3>1, <3>3, <4>1, <4>3
    <3> QED
      BY <3>2, <3>3
  <2> QED
    BY <2>2, <2>3
<1>7. /\ Places' = Places /\ Reported' = Reported /\ \A p : SettingAt(p)' = SettingAt(p)
      /\ \A key : Effective(key)' = Effective(key)
  BY <1>1, SourcesStay, MadeStays
<1>8. Precedence'
  <2>1. DOMAIN new = DOMAIN Default \cup DOMAIN g
                       \cup {key \in {SettingAt(p).key : p \in Places} : Honoured(key)}
    BY <1>4, <1>5
  <2>2. g' = g
    BY <1>1 DEF g
  <2> QED
    BY <1>6, <1>7, <2>1, <2>2 DEF Precedence, new, g
<1>9. SilentOrWarned'
  <2> DEFINE w == cfg.warnings
  <2>1. PICK place \in [1..Len(w) -> Reported \cap Places] : WarnsAbout(w, Places, place)
    BY <1>1 DEF WarnsFrom
  <2>2. Reported \cap Places = Reported
    BY DEF Reported, Ignored
  <2>3. /\ place \in [1..Len(w) -> Reported]
        /\ \A k \in 1..Len(w) : w[k] = SettingAt(place[k]).key
        /\ \A j, k \in 1..Len(w) : j < k => Before(place[j], place[k])
        /\ \A p \in Reported : \E k \in 1..Len(w) : place[k] = p
    BY <2>1, <2>2 DEF WarnsAbout
  <2>4. w = cfg'.warnings
    BY <1>3
  <2> HIDE DEF w
  <2> QED
    BY <1>7, <2>3, <2>4 DEF SilentOrWarned
<1> QED
  BY <1>1, <1>3, <1>8, <1>9 DEF LoadInv

\* Every step of the loading preserves its invariant.
LEMMA LoadStep ==
  ASSUME LoadTypes, LoadInv, LoadNext
  PROVE  LoadInv'
<1>1. ASSUME OpenFails \/ ReadFails PROVE LoadInv'
  BY <1>1 DEF LoadInv, OpenFails, ReadFails, Precedence, SilentOrWarned, IsConfig
<1> QED
  BY <1>1, LineStep, VariableStep, BetweenStep, FlagsStep DEF LoadNext

-----------------------------------------------------------------------------
(* The command.                                                            *)

\* The sources are files and an environment; nothing is loaded before a command runs.
SourcesInv ==
  /\ \A f \in DOMAIN disk : disk[f] \in Seq(Settings)
  /\ environ \in Seq(EnvironmentVariables)
  /\ stage \in {"start", "parse"} => loading = "waiting"

CommandInv == ParseInv /\ SourcesInv /\ LoadInv /\ ConnectsAsTold

\* While the configuration is loaded, the flags are what the options mean.
LEMMA TypesWhileLoading ==
  ASSUME ParseInv, SourcesInv, stage = "load"
  PROVE  LoadTypes
<1>1. options \in Seq(Options) /\ flags = AllMeant[Len(options)] /\ Len(options) \in Nat
  BY LenProperties DEF ParseInv
<1>2. flags \in Flags
  <2>1. Len(options) \in 0..Len(options)
    BY <1>1
  <2> QED
    BY <1>1, <2>1, MeantDef
<1> QED
  BY <1>2 DEF LoadTypes, SourcesInv, Flags

LEMMA CommandInit == Init => CommandInv
<1>1. SUFFICES ASSUME Init PROVE CommandInv
  OBVIOUS
<1>2. PICK s \in Scenarios : LoadInit(s.disk, s.environ, NoFlags)
  BY <1>1 DEF Init
<1>3. /\ disk = s.disk /\ environ = s.environ /\ loading = "waiting"
      /\ cfg = [values |-> Default, warnings |-> <<>>] /\ files = <<>> /\ at = 1
      /\ stage = "start"
  BY <1>1, <1>2 DEF LoadInit, Init
<1>4. SourcesInv
  BY <1>3, ScenariosAssumption DEF SourcesInv
<1>5. LoadInv
  BY <1>3 DEF LoadInv, IsConfig, Precedence, SilentOrWarned
<1>6. ConnectsAsTold
  BY <1>3 DEF ConnectsAsTold
<1> QED
  BY <1>1, <1>4, <1>5, <1>6, ParseInit DEF CommandInv

\* The connection follows the configuration.
LEMMA ConnectStep ==
  ASSUME LoadInv, Connect
  PROVE  ConnectsAsTold'
<1> DEFINE u == <<"url">>
           w == <<"user">>
<1>1. /\ loading = "done" /\ Precedence /\ UNCHANGED <<disk, environ, flags, cfg>> /\ Supported
      /\ session' = [dialect |-> Dialect(Url),
                     user |-> IF cfg.values[w] # <<>> THEN cfg.values[w] ELSE UrlUser(Url)]
  BY DEF LoadInv, Connect, loadVars
<1>2. u \in DOMAIN cfg.values /\ w \in DOMAIN cfg.values
  BY <1>1 DEF Precedence, Default, Texts
<1>3. Effective(u) = cfg.values[u] /\ Effective(w) = cfg.values[w]
  BY <1>1, <1>2 DEF Precedence
<1>4. Effective(u)' = Url /\ Effective(w)' = cfg.values[w]
  <2>1. \A key : Effective(key)' = Effective(key)
    BY <1>1, MadeStays
  <2> QED
    BY <1>3, <2>1 DEF Url
<1> DEFINE url == Url
           user == cfg.values[w]
<1>5. url[1] \in Prefixes[Dialect(url)]
  <2>1. url[1] \in Prefixes.PostgreSQL \cup Prefixes.MySQL
    BY <1>1 DEF Supported
  <2>2. Prefixes["PostgreSQL"] = Prefixes.PostgreSQL /\ Prefixes["MySQL"] = Prefixes.MySQL
    BY DEF Prefixes
  <2> HIDE DEF url
  <2> QED
    BY <2>1, <2>2 DEF Dialect
<1>6. session'.dialect = Dialect(url)
      /\ session'.user = IF user = <<>> THEN UrlUser(url) ELSE user
  BY <1>1
<1> HIDE DEF url, user, u, w
<1>7. /\ Effective(u)'[1] \in Prefixes[session'.dialect]
      /\ session'.user = IF Effective(w)' = <<>> THEN UrlUser(Effective(u)') ELSE Effective(w)'
  BY <1>4, <1>5, <1>6 DEF url, user
<1> QED
  BY <1>7 DEF ConnectsAsTold, u, w

LEMMA CommandStep == CommandInv /\ [Next]_vars => CommandInv'
<1> SUFFICES ASSUME CommandInv, [Next]_vars PROVE CommandInv'
  OBVIOUS
<1>1. ParseInv /\ SourcesInv /\ LoadInv /\ ConnectsAsTold /\ ParseInv'
  BY ParseStep DEF CommandInv
<1>2. ASSUME UNCHANGED loadVars, ConnectsAsTold',
             stage' \in {"start", "parse"} => stage \in {"start", "parse"}
      PROVE  CommandInv'
  <2>1. UNCHANGED <<disk, environ, flags, cfg, files, at, loading>>
    BY <1>2 DEF loadVars
  <2>2. SourcesInv'
    BY <1>1, <1>2, <2>1 DEF SourcesInv
  <2>3. LoadInv'
    <3>1. /\ EnvironLayer' = EnvironLayer /\ FilesNamed' = FilesNamed /\ Places' = Places
          /\ Reported' = Reported /\ (\A p : SettingAt(p)' = SettingAt(p))
      <4>1. UNCHANGED <<disk, environ, flags>>
        BY <2>1
      <4>2. \A p : SettingAt(p)' = SettingAt(p)
        BY <4>1, SourcesStay
      <4>3. Places' = Places
        BY <4>1, SourcesStay
      <4>4. FilesNamed' = FilesNamed
        BY <2>1 DEF FilesNamed
      <4>5. EnvironLayer' = EnvironLayer
        BY <4>1, SourcesStay
      <4>6. Reported' = Reported
        BY <4>1, SourcesStay
      <4> QED
        BY <4>2, <4>3, <4>4, <4>5, <4>6
    <3>2. /\ \A v, R : ValuesFrom(v, R)' <=> ValuesFrom(v, R)
          /\ \A w, R : WarnsFrom(w, R)' <=> WarnsFrom(w, R)
          /\ \A key : Effective(key)' = Effective(key)
      BY <2>1, MadeStays
    <3>3. \A l : Gone(l, at)' = Gone(l, at)
      BY <2>1, <3>1 DEF Gone
    <3>4. \A l : ReadTo(l)' <=> ReadTo(l)
      BY <2>1, <3>2, <3>3 DEF ReadTo
    <3>5. Precedence'
      BY <1>1, <2>1, <3>1, <3>2 DEF LoadInv, Precedence
    <3>6. SilentOrWarned'
      BY <1>1, <2>1, <3>1 DEF LoadInv, SilentOrWarned
    <3>7. IsConfig(cfg') /\ IsConfig(cfg)
      BY <1>1, <2>1 DEF LoadInv, IsConfig
    <3> HIDE DEF ReadTo, Precedence, SilentOrWarned, IsConfig
    <3> QED
      BY <1>1, <2>1, <3>1, <3>2, <3>4, <3>5, <3>6, <3>7 DEF LoadInv
  <2> QED
    BY <1>1, <1>2, <2>2, <2>3 DEF CommandInv
<1>3. ASSUME stage' # "connected" PROVE ConnectsAsTold'
  BY <1>3 DEF ConnectsAsTold
<1>4. CASE Normalize
  BY <1>2, <1>3, <1>4 DEF Normalize
<1>5. CASE FlagWithValue \/ FlagBeforeValue
  <2>1. /\ stage = "parse" /\ loading = "waiting"
        /\ UNCHANGED <<stage, disk, environ, cfg, files, at, loading>>
    BY <1>1, <1>5 DEF FlagWithValue, FlagBeforeValue, IsLong, Parsing, Give, SourcesInv
  <2>2. SourcesInv'
    BY <1>1, <2>1 DEF SourcesInv
  <2>3. LoadInv'
    BY <1>1, <2>1 DEF LoadInv, IsConfig, Precedence, SilentOrWarned
  <2> QED
    BY <1>1, <1>3, <2>1, <2>2, <2>3 DEF CommandInv
<1>6. CASE ParseFails \/ Letter \/ NoCommand \/ LoadFails \/ ConnectFails
  BY <1>2, <1>3, <1>6 DEF ParseFails, Letter, NoCommand, LoadFails, ConnectFails, Stop
<1>7. CASE Word
  BY <1>2, <1>3, <1>7 DEF Word, Parsing
<1>8. CASE Resolve
  <2>1. /\ stage' = "load" /\ loading = "waiting" /\ loading' = "start"
        /\ UNCHANGED <<disk, environ, flags, cfg, files, at>>
    BY <1>1, <1>8 DEF Resolve, SourcesInv
  <2>2. SourcesInv'
    BY <1>1, <2>1 DEF SourcesInv
  <2>3. LoadInv'
    BY <1>1, <2>1 DEF LoadInv, IsConfig, Precedence, SilentOrWarned
  <2> QED
    BY <1>1, <1>3, <2>1, <2>2, <2>3 DEF CommandInv
<1>9. CASE Loading
  <2>1. stage = "load" /\ stage' = "load" /\ LoadNext
    BY <1>9 DEF Loading
  <2>2. UNCHANGED <<disk, environ, flags>>
    BY <2>1 DEF LoadNext, ChooseFiles, OpenFails, ReadLine, ReadFails, FileRead, FilesRead,
                ReadVariable, EnvironRead, ApplyFlags
  <2>3. LoadInv'
    BY <1>1, <2>1, TypesWhileLoading, LoadStep
  <2>4. SourcesInv'
    BY <1>1, <2>1, <2>2 DEF SourcesInv
  <2> QED
    BY <1>1, <1>3, <2>1, <2>3, <2>4 DEF CommandInv
<1>10. CASE Connect
  BY <1>1, <1>2, <1>10, ConnectStep DEF Connect
<1>11. CASE UNCHANGED vars
  <2>1. UNCHANGED <<stage, session>> /\ UNCHANGED loadVars
    BY <1>11 DEF vars
  <2>2. \A key : Effective(key)' = Effective(key)
    BY <2>1, MadeStays DEF loadVars
  <2>3. ConnectsAsTold'
    BY <1>1, <2>1, <2>2 DEF ConnectsAsTold
  <2> QED
    BY <1>2, <2>1, <2>3
<1> QED
  BY <1>4, <1>5, <1>6, <1>7, <1>8, <1>9, <1>10, <1>11 DEF Next

\* The configuration and the session of every command are as the invariant says.
LEMMA CommandAlways == Spec => []CommandInv
BY CommandInit, CommandStep, PTL DEF Spec

\* For all command lines, files and environments: flags override the environment, the
\* environment the files, a later setting an earlier one (config.Load); and every key
\* has a value that should have one.
THEOREM SourcesTakePrecedence == Spec => []Precedence
<1>1. CommandInv => Precedence
  BY DEF CommandInv, LoadInv
<1> QED
  BY <1>1, CommandAlways, PTL

\* Likewise: what is warned about, once each and in the order of the sources, is exactly
\* the settings without effect that are not silent in one of two ways: a
\* placeholderReplacement that is neither true nor false, a variable of the environment
\* that is no key (set, applyConfFile and applyEnv of config.go).
THEOREM WarnsUnlessSilent == Spec => []SilentOrWarned
<1>1. CommandInv => SilentOrWarned
  BY DEF CommandInv, LoadInv
<1> QED
  BY <1>1, CommandAlways, PTL

\* Likewise: the connection has the dialect of the URL in effect and is opened as the
\* user in effect, else as the URL's (connect, conn.go of both databases).
THEOREM ConnectsAsConfigured == Spec => []ConnectsAsTold
<1>1. CommandInv => ConnectsAsTold
  BY DEF CommandInv
<1> QED
  BY <1>1, CommandAlways, PTL

=============================================================================
