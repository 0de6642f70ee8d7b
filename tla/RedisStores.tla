----------------------------- MODULE RedisStores -----------------------------
(***************************************************************************)
(* What the services that share a Redis server take for granted: the       *)
(* replicas of a service share a store of its own, which no other service  *)
(* reads or changes (conf/redis.yml: every replica shares this prefix).    *)
(***************************************************************************)
EXTENDS Integers

CONSTANTS Space,     \* the store of each client
          Keys,      \* the keys relative to a store
          MaxValue,  \* bound on the values, which are numbers
          NoValue

VARIABLES open,    \* the clients there are
          stores,  \* stores[s][k]: the value, or NoValue
          reply    \* the last answer: [to, value]

vars == <<open, stores, reply>>

Stored == 0 .. MaxValue
Spaces == {Space[c] : c \in DOMAIN Space}

Init ==
  /\ open = {}
  /\ stores = [s \in Spaces |-> [k \in Keys |-> NoValue]]
  /\ reply = [to |-> {}, value |-> NoValue]

Open(c) == open' = open \cup {c} /\ UNCHANGED <<stores, reply>>

Answer(c, v) == reply' = [to |-> {c}, value |-> v]
At(c, k) == stores[Space[c]][k]
Put(c, k, v) == stores' = [stores EXCEPT ![Space[c]][k] = v]

Set(c, k, v) == Put(c, k, v) /\ Answer(c, v)
Get(c, k)    == Answer(c, At(c, k)) /\ UNCHANGED stores
GetDel(c, k) == Put(c, k, NoValue) /\ Answer(c, At(c, k))
SetNX(c, k, v) == IF At(c, k) = NoValue THEN Put(c, k, v) /\ Answer(c, 1)
                  ELSE Answer(c, 0) /\ UNCHANGED stores
Incr(c, k) == LET v == IF At(c, k) = NoValue THEN 1 ELSE At(c, k) + 1
              IN  v \in Stored /\ Put(c, k, v) /\ Answer(c, v)

Expire(c, k) == Put(c, k, NoValue) /\ UNCHANGED reply

\* new[k] for the keys of new, and what there is for the others.
Change(c, new) ==
  stores' = [stores EXCEPT ![Space[c]] =
               [k \in Keys |-> IF k \in DOMAIN new THEN new[k] ELSE stores[Space[c]][k]]]

\* Whether there was anything to delete.
Del(c, keys) == /\ Change(c, [k \in keys |-> NoValue])
                /\ Answer(c, IF \E k \in keys : At(c, k) # NoValue THEN 1 ELSE 0)

\* A script reads and writes the keys it is given.
Eval(c, new) == Change(c, new) /\ Answer(c, NoValue)

Command(c) ==
  \/ \E k \in Keys : \/ \E v \in Stored : Set(c, k, v) \/ SetNX(c, k, v)
                     \/ Get(c, k) \/ GetDel(c, k) \/ Incr(c, k) \/ Expire(c, k)
  \/ \E keys \in SUBSET Keys : \/ Del(c, keys)
                               \/ \E new \in [keys -> Stored \cup {NoValue}] : Eval(c, new)

Next == \/ \E c \in DOMAIN Space : Open(c)
        \/ UNCHANGED open /\ \E c \in open : Command(c)

Spec == Init /\ [][Next]_vars
=============================================================================
