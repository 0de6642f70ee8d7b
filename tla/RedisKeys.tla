------------------------------ MODULE RedisKeys ------------------------------
(***************************************************************************)
(* The Redis client of the services that share one server: newClient and   *)
(* the commands of internal/infra/rds/client.go.  A string is a sequence   *)
(* of characters.  The server (external) is one map from whole keys to     *)
(* values; each command is atomic, and a key with a time-to-live goes away *)
(* at any time.                                                            *)
(***************************************************************************)
EXTENDS Integers, Sequences

CONSTANTS Char,        \* the characters
          Letter,      \* those a component of a prefix may be made of
          Configured,  \* the prefixes that services are configured with
          Keys,        \* the keys services use
          MaxValue,    \* bound on the values, which are numbers
          NoValue      \* of a key that is not there

ASSUME RedisKeysAssumption ==
  /\ Letter \subseteq Char \ {":", " "}
  /\ Configured \subseteq Seq(Char) /\ Keys \subseteq Seq(Char)
  /\ MaxValue \in Nat /\ NoValue \notin Nat

Stored == 0 .. MaxValue
-----------------------------------------------------------------------------
TrimSpace(s) ==
  LET solid == {i \in DOMAIN s : s[i] # " "}
  IN  IF solid = {} THEN <<>>
      ELSE SubSeq(s, CHOOSE i \in solid : \A j \in solid : i <= j,
                     CHOOSE i \in solid : \A j \in solid : j <= i)

TrimColon(s) == IF s # <<>> /\ s[Len(s)] = ":" THEN SubSeq(s, 1, Len(s) - 1) ELSE s

Trimmed(s) == TrimColon(TrimSpace(s))

\* Two components that are not empty, and nothing but letters in them.
TwoComponents(s) == \E i \in 2 .. Len(s) - 1 : /\ s[i] = ":"
                                               /\ \A j \in DOMAIN s \ {i} : s[j] \in Letter

Valid(s) == TwoComponents(Trimmed(s))

\* Broken variant: the prefix is not closed by a colon.
Prefix_Open(s) == Trimmed(s)
Prefix(s) == Append(Trimmed(s), ":")

Accepted == {c \in Configured : Valid(c)}
Namespace == [c \in Accepted |-> Prefix(c)]
Full(c, k) == Namespace[c] \o k
AllKeys == {Full(c, k) : c \in Accepted, k \in Keys}
-----------------------------------------------------------------------------
VARIABLES open,  \* the clients that newClient has returned
          data,  \* the server: data[key] is a value or NoValue
          reply  \* the last answer: [to, value]

redisVars == <<open, data, reply>>

RedisTypeOK == open \subseteq Accepted /\ data \in [AllKeys -> Stored \cup {NoValue}]

RedisInit ==
  /\ open = {}
  /\ data = [key \in AllKeys |-> NoValue]
  /\ reply = [to |-> {}, value |-> NoValue]

\* newClient; a prefix that is not valid makes no client.
Open(c) == Valid(c) /\ open' = open \cup {c} /\ UNCHANGED <<data, reply>>

Answer(c, v) == reply' = [to |-> {c}, value |-> v] /\ UNCHANGED open
Put(key, v) == data' = [data EXCEPT ![key] = v]

Set(c, k, v) == Put(Full(c, k), v) /\ Answer(c, v)

Get(c, k) == Answer(c, data[Full(c, k)]) /\ UNCHANGED data

GetDel(c, k) == Put(Full(c, k), NoValue) /\ Answer(c, data[Full(c, k)])

SetNX(c, k, v) == IF data[Full(c, k)] = NoValue THEN Put(Full(c, k), v) /\ Answer(c, 1)
                  ELSE Answer(c, 0) /\ UNCHANGED data

Incr(c, k) ==
  LET v == IF data[Full(c, k)] = NoValue THEN 1 ELSE data[Full(c, k)] + 1
  IN  v \in Stored /\ Put(Full(c, k), v) /\ Answer(c, v)

Expire(c, k) == Put(Full(c, k), NoValue) /\ UNCHANGED <<open, reply>>

\* Del and Eval go through prefixedKeys.
Names(c, key, keys) == {k \in keys : Full(c, k) = key}
Change(c, new) ==
  data' = [key \in AllKeys |-> IF Names(c, key, DOMAIN new) = {} THEN data[key]
                              ELSE new[CHOOSE k \in Names(c, key, DOMAIN new) : TRUE]]

Del(c, keys) ==
  /\ Change(c, [k \in keys |-> NoValue])
  /\ Answer(c, IF \E k \in keys : data[Full(c, k)] # NoValue THEN 1 ELSE 0)

\* A script reads and writes KEYS and nothing else, as the comment of Eval asks of it.
Eval(c, new) == Change(c, new) /\ Answer(c, NoValue)

Command(c) ==
  \/ \E k \in Keys : \/ \E v \in Stored : Set(c, k, v) \/ SetNX(c, k, v)
                     \/ Get(c, k) \/ GetDel(c, k) \/ Incr(c, k) \/ Expire(c, k)
  \/ \E keys \in SUBSET Keys : \/ Del(c, keys)
                               \/ \E new \in [keys -> Stored \cup {NoValue}] : Eval(c, new)

RedisNext == (\E c \in Configured : Open(c)) \/ (\E c \in open : Command(c))

RedisSpec == RedisInit /\ [][RedisNext]_redisVars
-----------------------------------------------------------------------------
(***************************************************************************)
(* Services with different prefixes never see or change each other's keys, *)
(* and clients with the same prefix, however it is spelled, share theirs   *)
(* (client.go:13, TestClientNamespaceIsolation): each prefix has a store   *)
(* of its own, whatever the keys are and whatever characters they have.    *)
(***************************************************************************)
StoreOf == [s \in {Namespace[c] : c \in Accepted} |-> [k \in Keys |-> data[s \o k]]]

Private == INSTANCE RedisStores WITH stores <- StoreOf, Space <- Namespace

OwnStores == Private!Spec
=============================================================================
