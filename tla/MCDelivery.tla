------------------------------ MODULE MCDelivery ------------------------------
(* Delivery on a handful of deployments, each about one side of the configuration. *)
EXTENDS Delivery

MCServerNumbers == {<<"database", "maxOpenConns">>}
MCIndex == {"0", "1"}

\* The keys that are not one lower-case word.
MCWords ==
  [key \in {"log", "level", "http", "docs", "servers", "0", "1", "url", "pagination", "maxP",
            "maxS", "redact", "keys", "auth", "accessToken", "passWord", "salary", "tenantCode",
            "database", "dsn", "driver", "autoCreate", "migrate", "maxOpenConns", "redis", "prefix",
            "a_b", "a", "b"} |->
     CASE key = "maxP" -> <<"max", "p">> [] key = "maxS" -> <<"max", "s">>
       [] key = "accessToken" -> <<"access", "token">> [] key = "passWord" -> <<"pass", "word">>
       [] key = "tenantCode" -> <<"tenant", "code">> [] key = "autoCreate" -> <<"auto", "create">>
       [] key = "maxOpenConns" -> <<"max", "open", "conns">> [] key = "a_b" -> <<"a", "b">>
       [] OTHER -> <<key>>]

\* Upper case is written as the lower-case word here: an environment holds PASSWORD for
\* passWord, and the model its only word "password".
MCLowerCase ==
  [word \in {"maxp", "maxs", "accesstoken", "password", "tenantcode", "autocreate", "maxopenconns"}
            \cup UNION {{MCWords[key][i] : i \in DOMAIN MCWords[key]} : key \in DOMAIN MCWords} |-> word]
MCSpelling ==
  [key \in DOMAIN MCWords |->
     CASE key = "maxP" -> <<"maxp">> [] key = "maxS" -> <<"maxs">>
       [] key = "accessToken" -> <<"accesstoken">> [] key = "passWord" -> <<"password">>
       [] key = "tenantCode" -> <<"tenantcode">> [] key = "autoCreate" -> <<"autocreate">>
       [] key = "maxOpenConns" -> <<"maxopenconns">> [] OTHER -> MCWords[key]]

Number(n, length) == [numeric |-> TRUE, number |-> n, length |-> length, password |-> 0,
                      pieces |-> <<"text">>, user |-> {}]
Text(length) == [Number(0, length) EXCEPT !.numeric = FALSE]
DsnOf(pieces, user) == [Text(12) EXCEPT !.password = 6, !.pieces = pieces, !.user = user]
MCValue ==
  [v \in {"", "7", "-1", "info", "error", "loud", "ab", "a secret", "https://a", "https://b",
          "u:secret@h", "//u:secret@h", "//u@h:1?p=secret", "h p=secret", "host", "true", "false", "postgres", "mysql", "tenantCode", "salary",
          "d:a", " d:a:", "d:*", "d:ab"} |->
     CASE v = "" -> Number(0, 0) [] v = "7" -> Number(7, 1) [] v = "-1" -> Number(-1, 2)
       [] v = "ab" -> Text(2)
       [] v = "u:secret@h" -> DsnOf(<<"user", ":", "password", "@", "host">>, {})
       [] v = "//u:secret@h" -> DsnOf(<<"user", ":", "password", "@", "host">>, 1 .. 3)
       [] v = "//u@h:1?p=secret" -> DsnOf(<<"user", "@", "host", ":", "port", "password">>, {1})
       [] v = "h p=secret" -> DsnOf(<<"host", "password">>, {}) [] OTHER -> Text(8)]

MCSpelled == ("d:a" :> <<"d", ":", "a">>) @@ (" d:a:" :> <<" ", "d", ":", "a", ":">>)
             @@ ("d:*" :> <<"d", ":", "*">>) @@ ("" :> <<>>)
MCLetter == {"d", "a", "b", "x"}
MCChar == MCLetter \cup {":", " ", "*"}
MCConfigured == {MCSpelled[v] : v \in DOMAIN MCSpelled} \cup {<<"d", ":", "a", "b">>}
MCKeys == {<<"x">>, <<"b", "x">>}

Log == <<"log", "level">> :> "info"
Url(i) == <<"http", "docs", "servers", i, "url">>
Listed == Log @@ (Url("0") :> "https://a") @@ (Url("1") :> "https://b")
Relisted == (Url("0") :> "https://b") @@ (<<"pagination", "maxP">> :> "7") @@ (<<"a">> :> "7")
Secrets == Log @@ (<<"redact", "keys", "0">> :> "tenantCode") @@ (<<"redact", "keys", "1">> :> "salary")
           @@ (<<"auth", "accessToken">> :> "7") @@ (<<"auth", "passWord">> :> "7")
           @@ (<<"auth", "salary">> :> "7") @@ (<<"tenantCode">> :> "7")
           @@ (<<"database", "dsn">> :> "u:secret@h")
Nested == (<<"a_b">> :> "7") @@ (<<"a", "b">> :> "7")
WithDatabase == Log @@ (<<"database", "driver">> :> "postgres")
                @@ (<<"database", "dsn">> :> "u:secret@h")
                @@ (<<"database", "autoCreate">> :> "false")
                @@ (<<"database", "migrate">> :> "true")
                @@ (<<"database", "maxOpenConns">> :> "7")
WithRedis == Log @@ (<<"redis", "prefix">> :> "d:a")

\* Every environment that sets at most two of the given names.
Upto2(pairs) == {[n \in {p[1] : p \in s} |-> (CHOOSE p \in s : p[1] = n)[2]] :
                   s \in {t \in SUBSET pairs : Cardinality(t) <= 2}}

Deploy(files, builds, runs_, parts) ==
  {[files |-> f, build |-> b, run |-> r, parts |-> parts] : f \in files, b \in builds, r \in runs_}

ListNames == {<<<<"http", "docs", "servers", "1", "url">>, "https://a">>,
              <<<<"http", "docs", "servers", "0", "url">>, "">>,
              <<<<"pagination", "maxp">>, "-1">>, <<<<"pagination", "maxp">>, "">>,
              <<<<"log", "level">>, "error">>, <<<<"log", "level">>, "loud">>}
SecretNames == {<<<<"auth", "accesstoken">>, v>> : v \in {"a secret", "ab"}}
               \cup {<<<<"database", "dsn">>, v>> : v \in {"u:secret@h", "//u:secret@h", "//u@h:1?p=secret",
                                                      "h p=secret", "host"}}
               \cup {<<<<"auth", "password">>, "a secret">>, <<<<"auth", "salary">>, "a secret">>,
                     <<<<"tenantcode">>, "a secret">>, <<<<"redact", "keys", "1">>, "host">>}

MCDeployments ==
  Deploy({<<Listed>>, <<Listed, Relisted>>, <<Relisted, Listed>>},
         Upto2({p \in ListNames : p[2] \in {"https://a", "-1"}}), Upto2(ListNames), {})
  \cup Deploy({<<>>, <<Listed, Malformed>>}, {<<>>}, {<<>>}, {})
  \cup Deploy({<<Secrets>>}, {<<>>}, Upto2(SecretNames), {})
  \cup Deploy({<<Listed, Nested>>, <<Relisted, Nested>>}, {<<>>}, Upto2({<<<<"a", "b">>, "a secret">>}), {})
  \cup Deploy({<<WithDatabase>>}, {<<>>},
              Upto2({<<<<"database", "driver">>, v>> : v \in {"mysql", "host"}}
                    \cup {<<<<"database", "autocreate">>, "true">>,
                          <<<<"database", "migrate">>, "false">>,
                          <<<<"database", "dsn">>, "">>,
                          <<<<"database", "maxopenconns">>, "ab">>}), {"database"})
  \cup Deploy({<<WithRedis>>}, {<<>>},
              Upto2({<<<<"redis", "prefix">>, v>> : v \in {" d:a:", "d:*"}}), {"redis"})
=============================================================================
