---------------------------- MODULE MCCommandLine ----------------------------
(***************************************************************************)
(* Command lines for TLC: many of them against a few files and             *)
(* environments, and a few of them against many.                           *)
(***************************************************************************)
EXTENDS CommandLine, TLC

Pg == <<"jdbc:postgresql:", "h">>
My == <<"mysql://", "su", "@", "h">>

\* Up to n members of a set, in any order.
UpTo(S, n) == UNION {[1..m -> S] : m \in 0..n}

Setting(k, v) == [key |-> k, value |-> v]
Option(f, v, form, d) == [flag |-> f, value |-> v, form |-> form, dashes |-> d]
Variable(n, v) == [name |-> n, value |-> v]

SomeOptions ==
  {Option(f, v, form, d) :
     f \in {"user", "url", "locations", "verbose"}, v \in {<<>>, <<"migrate">>, My},
     form \in {"=", "space"}, d \in {1, 2}}
    \cup {Option(f, <<"-", "s3cret">>, form, 1) :
            f \in {"user", "locations", "configFiles", "placeholders"}, form \in {"=", "space"}}
    \cup {Option("configFiles", <<"b">>, "space", 1), Option("v", <<"x">>, "space", 1),
          Option("placeholders", <<"foo", "=", "g">>, "space", 1),
          Option("placeholders", <<"-", "foo", "=", "-", "g">>, "space", 1)}

ManyOptions ==
  [options : UpTo(SomeOptions, 2),
   disk : {<<"b">> :> <<Setting(<<"user">>, <<"fu">>), Setting(<<"url">>, u)>> :
             u \in {Pg, My, <<"jdbc:mysql:">>, <<"jdbc:oracle:", "h">>}} \cup {<<>>},
   environ : {<<>>, <<Variable(<<"USER">>, <<"eu">>)>>, <<Variable(<<"URL">>, My)>>}]

Lines ==
  {Setting(<<"url">>, Pg), Setting(<<"url">>, My), Setting(Locations, <<<<"a">>, <<>>>>),
   Setting(Replacement, <<"false">>), Setting(Replacement, <<"yes">>),
   Setting(<<"placeholders.", "Foo">>, <<"f">>), Setting(<<"placeholders.", "foo">>, <<"f">>),
   Setting(<<"schemas">>, <<"s">>), Setting(<<"urll">>, <<"u">>), Setting(<<"comment">>, <<>>),
   Setting(<<"too long">>, <<>>)}

\* ./flyway.conf and a file "b", either of which may be missing.
ManySources ==
  [options : {<<>>,
              <<Option("configFiles", <<"b">>, "space", 1), Option("url", <<>>, "=", 1)>>,
              <<Option("configFiles", <<"flyway.conf">>, "=", 2),
                Option("configFiles", <<"b">>, "=", 2)>>,
              <<Option("placeholders", <<"foo", "=", "g">>, "space", 1), Option("locations", <<>>, "=", 1)>>},
   disk : {d @@ e : d \in {<<>>} \cup {DefaultFile :> f : f \in UpTo(Lines, 2)},
                    e \in {<<>>} \cup {<<"b">> :> f : f \in UpTo(Lines, 1)}},
   environ : UpTo({Variable(<<"URL">>, My), Variable(<<"PLACEHOLDER", "REPLACEMENT">>, <<"true">>),
                   Variable(<<"PLACEHOLDERS", "FOO">>, <<"e">>), Variable(<<"SCHEMAS">>, <<"e">>),
                   Variable(<<"HOME">>, <<"h">>)}, 1)
               \cup {<<Variable(<<"URL">>, My), Variable(<<"URL">>, <<>>)>>}]

MCScenarios == ManyOptions \cup ManySources

=============================================================================
