--------------------------- MODULE Delivery_proofs ---------------------------
(***************************************************************************)
(* Machine-checked proofs about a deployment and the three things it is    *)
(* made of, for any configuration files and environments, any replicas and *)
(* migrations, any bound on the faults and any prefixes of any number of   *)
(* Redis clients.  The invariants the proofs rest on are RedisTypeOK of    *)
(* module RedisKeys, DatabaseInv of Startup, ConfInv of Configuration and  *)
(* DeliveryInv of Delivery.                                                *)
(***************************************************************************)
EXTENDS Delivery, FiniteSetTheorems, SequenceTheorems, WellFoundedInduction, TLAPS
-----------------------------------------------------------------------------
(* Redis: every prefix has a store of its own. *)

Text == Seq(Char \cup {":"})

(***************************************************************************)
(* A set of natural numbers has a least element, and a bounded one a       *)
(* greatest: what TrimSpace cuts at.                                       *)
(***************************************************************************)
LEMMA LeastOf ==
  ASSUME NEW T, T \subseteq Nat, T # {}
  PROVE  \E x \in T : \A y \in T : x <= y
<1>1. \E x \in T : \A y \in T : ~(<<y, x>> \in OpToRel(<, Nat))
  BY NatLessThanWellFounded, WFMin, Zenon
<1>2. PICK x \in T : \A y \in T : ~(<<y, x>> \in OpToRel(<, Nat))
  BY <1>1
<1>3. ASSUME NEW y \in T PROVE x <= y
  <2>1. x \in Nat /\ y \in Nat
    OBVIOUS
  <2>2. y < x => <<y, x>> \in OpToRel(<, Nat)
    BY <2>1 DEF OpToRel
  <2>3. ~(y < x)
    BY <1>2, <2>2, Zenon
  <2>4. QED
    BY <2>1, <2>3
<1>4. QED
  BY <1>3

LEMMA GreatestOf ==
  ASSUME NEW n \in Nat, NEW T, T \subseteq 1 .. n, T # {}
  PROVE  \E x \in T : \A y \in T : y <= x
<1> DEFINE D == {n - y : y \in T}
<1>1. D \subseteq Nat /\ D # {}
  <2>1. \A y \in T : n - y \in Nat
    OBVIOUS
  <2>2. PICK y \in T : TRUE
    OBVIOUS
  <2>3. n - y \in D
    BY <2>2
  <2>4. QED
    BY <2>1, <2>3
<1>2. PICK d \in D : \A e \in D : d <= e
  <2> HIDE DEF D
  <2>1. QED
    BY <1>1, LeastOf
<1>3. PICK x \in T : d = n - x
  OBVIOUS
<1>4. ASSUME NEW y \in T PROVE y <= x
  <2>1. n - y \in D
    OBVIOUS
  <2>2. n - x <= n - y
    <3> HIDE DEF D
    <3>1. QED
      BY <1>2, <1>3, <2>1
  <2>3. x \in 1 .. n /\ y \in 1 .. n
    OBVIOUS
  <2>4. QED
    BY <2>2, <2>3
<1>5. QED
  BY <1>4

(***************************************************************************)
(* What newClient cuts out of the configured value is a string.            *)
(***************************************************************************)
LEMMA TrimmedType ==
  ASSUME NEW s \in Seq(Char)
  PROVE  Trimmed(s) \in Seq(Char)
<1> DEFINE solid == {i \in DOMAIN s : s[i] # " "}
           a == CHOOSE i \in solid : \A j \in solid : i <= j
           b == CHOOSE i \in solid : \A j \in solid : j <= i
<1>1. TrimSpace(s) \in Seq(Char)
  <2>1. CASE solid = {}
    BY <2>1, EmptySeq DEF TrimSpace
  <2>2. CASE solid # {}
    <3>1. solid \subseteq 1 .. Len(s) /\ Len(s) \in Nat /\ s \in [1 .. Len(s) -> Char]
      BY LenProperties
    <3>2. a \in solid
      <4>1. solid \subseteq Nat
        <5> HIDE DEF solid
        <5>1. QED
          BY <3>1
      <4>2. \E i \in solid : \A j \in solid : i <= j
        BY <2>2, <4>1, LeastOf
      <4>3. QED
        BY <4>2
    <3>3. b \in solid
      BY <2>2, <3>1, GreatestOf
    <3>4. a \in 1 .. Len(s) /\ b \in 1 .. Len(s)
      BY <3>1, <3>2, <3>3
    <3>5. a \in Int /\ b \in Int /\ \A i \in a .. b : s[i] \in Char
      <4> HIDE DEF a, b, solid
      <4>1. \A i \in a .. b : i \in 1 .. Len(s)
        BY <3>1, <3>4
      <4>2. QED
        BY <3>1, <3>4, <4>1
    <3>6. SubSeq(s, a, b) \in Seq(Char)
      BY <3>5, SubSeqProperties
    <3>7. TrimSpace(s) = SubSeq(s, a, b)
      BY <2>2 DEF TrimSpace
    <3>8. QED
      BY <3>6, <3>7
  <2>3. QED
    BY <2>1, <2>2
<1>2. ASSUME NEW t \in Seq(Char) PROVE TrimColon(t) \in Seq(Char)
  <2>1. SubSeq(t, 1, Len(t) - 1) \in Seq(Char)
    BY SubSeqProperties
  <2>2. QED
    BY <2>1 DEF TrimColon
<1>3. QED
  BY <1>1, <1>2 DEF Trimmed

(***************************************************************************)
(* An accepted prefix has two colons, and the second is its last element.  *)
(***************************************************************************)
Closed(p, i) == /\ i \in 1 .. Len(p) - 1 /\ p[i] = ":" /\ p[Len(p)] = ":"
                /\ \A j \in 1 .. Len(p) : p[j] = ":" => j = i \/ j = Len(p)

IsClosed(p) == \E i \in Nat : Closed(p, i)

LEMMA PrefixIsClosed ==
  ASSUME NEW c \in Accepted
  PROVE  Prefix(c) \in Text /\ IsClosed(Prefix(c))
<1> DEFINE t == Trimmed(c)
<1>1. t \in Seq(Char)
  BY RedisKeysAssumption, TrimmedType DEF Accepted
<1>2. t \in Text
  BY <1>1, SeqMonotonic DEF Text
<1>3. PICK i \in 2 .. Len(t) - 1 : t[i] = ":" /\ \A j \in DOMAIN t \ {i} : t[j] \in Letter
  BY DEF Accepted, Valid, TwoComponents
<1>4. /\ Prefix(c) \in Text
      /\ Len(Prefix(c)) = Len(t) + 1
      /\ \A j \in 1 .. Len(t) : Prefix(c)[j] = t[j]
      /\ Prefix(c)[Len(t) + 1] = ":"
  BY <1>2, AppendProperties DEF Prefix, Text
<1>5. Closed(Prefix(c), i)
  <2>1. ":" \notin Letter
    BY RedisKeysAssumption
  <2>2. Len(t) \in Nat /\ DOMAIN t = 1 .. Len(t)
    BY <1>1
  <2>3. QED
    BY <1>3, <1>4, <2>1, <2>2 DEF Closed
<1>6. QED
  BY <1>4, <1>5 DEF IsClosed

(***************************************************************************)
(* No key is found under two prefixes, nor two keys under one.             *)
(***************************************************************************)
LEMMA ClosedPrefixesPart ==
  ASSUME NEW p \in Text, NEW q \in Text, NEW k \in Text, NEW l \in Text,
         IsClosed(p), IsClosed(q), p \o k = q \o l
  PROVE  p = q /\ k = l
<1> PICK i \in Nat : Closed(p, i)
  BY DEF IsClosed
<1> PICK j \in Nat : Closed(q, j)
  BY DEF IsClosed
<1> DEFINE m == Len(p)  n == Len(q)
<1>0. m \in Nat /\ n \in Nat /\ Len(k) \in Nat /\ Len(l) \in Nat
  BY DEF Text
<1>1. /\ \A x \in 1 .. m : (p \o k)[x] = p[x]
      /\ \A x \in 1 .. n : (q \o l)[x] = q[x]
      /\ Len(p \o k) = m + Len(k) /\ Len(q \o l) = n + Len(l)
  BY <1>0, ConcatProperties DEF Text
<1>2. ~(m < n)
  <2> SUFFICES ASSUME m < n PROVE FALSE
    OBVIOUS
  <2>0. i \in 1 .. m /\ m \in 1 .. m /\ i \in 1 .. n /\ m \in 1 .. n
    BY <1>0 DEF Closed
  <2>1. q[i] = ":" /\ q[m] = ":"
    BY <1>1, <2>0 DEF Closed
  <2>2. i = j /\ m = j
    BY <1>0, <2>1 DEF Closed
  <2>3. QED
    BY <1>0, <2>2 DEF Closed
<1>3. ~(n < m)
  <2> SUFFICES ASSUME n < m PROVE FALSE
    OBVIOUS
  <2>0. j \in 1 .. n /\ n \in 1 .. n /\ j \in 1 .. m /\ n \in 1 .. m
    BY <1>0 DEF Closed
  <2>1. p[j] = ":" /\ p[n] = ":"
    BY <1>1, <2>0 DEF Closed
  <2>2. i = j /\ n = i
    BY <1>0, <2>1 DEF Closed
  <2>3. QED
    BY <1>0, <2>2 DEF Closed
<1>4. m = n /\ Len(k) = Len(l)
  BY <1>0, <1>1, <1>2, <1>3
<1>5. p = q
  BY <1>0, <1>1, <1>4, SeqEqual DEF Text
<1>6. ASSUME NEW x \in 1 .. Len(k) PROVE k[x] = l[x]
  <2>1. (p \o k)[m + x] = k[x] /\ (q \o l)[n + x] = l[x]
    <3>1. m + x \in 1 .. m + Len(k) /\ n + x \in 1 .. n + Len(l) /\ ~(m + x <= m)
      BY <1>0, <1>4
    <3>2. (p \o k)[m + x] = k[m + x - m]
      BY <1>0, <3>1, ConcatProperties DEF Text
    <3>3. (q \o l)[n + x] = l[n + x - n]
      BY <1>0, <1>4, <3>1, ConcatProperties DEF Text
    <3>4. QED
      BY <1>0, <3>2, <3>3
  <2>2. QED
    BY <1>4, <2>1
<1>7. k = l
  BY <1>4, <1>6, SeqEqual DEF Text
<1>8. QED
  BY <1>5, <1>7

LEMMA KeysArePrivate ==
  \A c, d \in Accepted : \A k, l \in Keys :
    Namespace[c] \o k = Namespace[d] \o l => Namespace[c] = Namespace[d] /\ k = l
<1> SUFFICES ASSUME NEW c \in Accepted, NEW d \in Accepted, NEW k \in Keys, NEW l \in Keys,
                    Namespace[c] \o k = Namespace[d] \o l
             PROVE  Namespace[c] = Namespace[d] /\ k = l
  OBVIOUS
<1>1. k \in Text /\ l \in Text
  BY RedisKeysAssumption, SeqMonotonic DEF Text
<1>2. Namespace[c] = Prefix(c) /\ Namespace[d] = Prefix(d)
  BY DEF Namespace
<1>3. /\ Prefix(c) \in Text /\ IsClosed(Prefix(c))
      /\ Prefix(d) \in Text /\ IsClosed(Prefix(d))
  BY PrefixIsClosed
<1>4. Prefix(c) \o k = Prefix(d) \o l
  BY <1>2
<1>5. Prefix(c) = Prefix(d) /\ k = l
  BY <1>1, <1>3, <1>4, ClosedPrefixesPart
<1>6. QED
  BY <1>2, <1>5

(***************************************************************************)
(* The keys clients use exist on the server, and the store of a client has *)
(* what the server has under its prefix.                                   *)
(***************************************************************************)
LEMMA FullFacts ==
  ASSUME NEW c \in Accepted, NEW k \in Keys
  PROVE  /\ Full(c, k) \in AllKeys
         /\ Full(c, k) = Namespace[c] \o k
         /\ StoreOf[Namespace[c]][k] = data[Full(c, k)]
<1>1. Full(c, k) \in AllKeys
  BY DEF AllKeys
<1>2. Namespace[c] \in {Namespace[d] : d \in Accepted}
  OBVIOUS
<1>3. StoreOf[Namespace[c]] = [l \in Keys |-> data[Namespace[c] \o l]]
  BY <1>2 DEF StoreOf
<1>4. Full(c, k) = Namespace[c] \o k
  BY DEF Full
<1>5. QED
  BY <1>1, <1>3, <1>4

LEMMA FullInjective ==
  \A c, d \in Accepted : \A k, l \in Keys :
    Full(d, k) = Full(c, l) <=> Namespace[d] = Namespace[c] /\ k = l
<1> SUFFICES ASSUME NEW c \in Accepted, NEW d \in Accepted, NEW k \in Keys, NEW l \in Keys
             PROVE  Full(d, k) = Full(c, l) <=> Namespace[d] = Namespace[c] /\ k = l
  OBVIOUS
<1>1. Full(d, k) = Namespace[d] \o k /\ Full(c, l) = Namespace[c] \o l
  BY FullFacts
<1>2. Namespace[d] \o k = Namespace[c] \o l => Namespace[d] = Namespace[c] /\ k = l
  BY KeysArePrivate
<1>3. QED
  BY <1>1, <1>2

(***************************************************************************)
(* A change of the server that is confined to some keys of one client is   *)
(* the same change of that client's store, and of no other.                *)
(***************************************************************************)
LEMMA ConfinedChange ==
  ASSUME RedisTypeOK, NEW c \in Accepted, NEW new, DOMAIN new \subseteq Keys,
         \A key \in AllKeys : \A k \in DOMAIN new :
            key = Full(c, k) => data'[key] = new[k],
         \A key \in AllKeys :
            (\A k \in DOMAIN new : key # Full(c, k)) => data'[key] = data[key]
  PROVE  StoreOf' = [StoreOf EXCEPT ![Namespace[c]] =
                       [k \in Keys |-> IF k \in DOMAIN new THEN new[k]
                                      ELSE StoreOf[Namespace[c]][k]]]
<1> DEFINE after == [k \in Keys |-> IF k \in DOMAIN new THEN new[k]
                                   ELSE StoreOf[Namespace[c]][k]]
           spaces == {Namespace[d] : d \in Accepted}
<1>1. StoreOf' = [s \in spaces |-> [k \in Keys |-> data'[s \o k]]]
  BY DEF StoreOf
<1>2. ASSUME NEW d \in Accepted, NEW k \in Keys
      PROVE  data'[Namespace[d] \o k] =
               IF Namespace[d] = Namespace[c] THEN after[k] ELSE StoreOf[Namespace[d]][k]
  <2> DEFINE whole == Full(d, k)
  <2>1. /\ whole \in AllKeys /\ StoreOf[Namespace[d]][k] = data[whole]
        /\ whole = Namespace[d] \o k
    BY FullFacts
  <2>2. \A l \in DOMAIN new : whole = Full(c, l) <=> Namespace[d] = Namespace[c] /\ k = l
    <3>1. \A l \in Keys : whole = Full(c, l) <=> Namespace[d] = Namespace[c] /\ k = l
      BY FullInjective
    <3>2. QED
      BY <3>1
  <2>3. CASE Namespace[d] = Namespace[c] /\ k \in DOMAIN new
    <3>1. data'[whole] = new[k]
      BY <2>1, <2>2, <2>3
    <3>2. after[k] = new[k]
      BY <2>3
    <3>3. QED
      BY <2>1, <2>3, <3>1, <3>2
  <2>4. CASE ~(Namespace[d] = Namespace[c] /\ k \in DOMAIN new)
    <3>1. data'[whole] = data[whole]
      BY <2>1, <2>2, <2>4
    <3>2. Namespace[d] = Namespace[c] => after[k] = StoreOf[Namespace[d]][k]
      BY <2>4
    <3>3. QED
      BY <2>1, <3>1, <3>2
  <2>5. QED
    BY <2>3, <2>4
<1>3. StoreOf = [s \in spaces |-> [k \in Keys |-> data[s \o k]]]
  BY DEF StoreOf
<1>4. ASSUME NEW s \in spaces
      PROVE  StoreOf'[s] = IF s = Namespace[c] THEN after ELSE StoreOf[s]
  <2>1. PICK d \in Accepted : s = Namespace[d]
    OBVIOUS
  <2>2. StoreOf'[s] = [k \in Keys |-> data'[s \o k]]
    BY <1>1
  <2>3. \A k \in Keys : StoreOf'[s][k] = IF s = Namespace[c] THEN after[k] ELSE StoreOf[s][k]
    BY <1>2, <2>1, <2>2
  <2>4. StoreOf[s] = [k \in Keys |-> StoreOf[s][k]] /\ after = [k \in Keys |-> after[k]]
    BY <1>3, Zenon
  <2>5. QED
    BY <2>2, <2>3, <2>4
<1>5. QED
  BY <1>1, <1>3, <1>4

(***************************************************************************)
(* A command on one key, and one on several, does to the store of its      *)
(* client what RedisStores says.                                           *)
(***************************************************************************)
Held == Stored \cup {NoValue}

LEMMA PutStep ==
  ASSUME RedisTypeOK, NEW c \in Accepted, NEW k \in Keys, NEW v \in Held, Put(Full(c, k), v)
  PROVE  data' \in [AllKeys -> Held] /\ Private!Put(c, k, v)
<1> DEFINE new == [l \in {k} |-> v]
           s == Namespace[c]
<1>1. data' = [data EXCEPT ![Full(c, k)] = v] /\ data \in [AllKeys -> Held]
  BY DEF Put, RedisTypeOK, Held
<1>2. Full(c, k) \in AllKeys
  BY FullFacts
<1>3. StoreOf' = [StoreOf EXCEPT ![s] = [l \in Keys |-> IF l \in DOMAIN new THEN new[l]
                                                       ELSE StoreOf[s][l]]]
  <2>1. DOMAIN new = {k} /\ new[k] = v
    OBVIOUS
  <2>2. \A key \in AllKeys : data'[key] = IF key = Full(c, k) THEN v ELSE data[key]
    BY <1>1
  <2>3. DOMAIN new \subseteq Keys
    BY <2>1
  <2>4. \A key \in AllKeys : \A l \in DOMAIN new : key = Full(c, l) => data'[key] = new[l]
    BY <2>1, <2>2
  <2>5. \A key \in AllKeys :
           (\A l \in DOMAIN new : key # Full(c, l)) => data'[key] = data[key]
    BY <2>1, <2>2
  <2> HIDE DEF new, s
  <2>6. QED
    BY <2>3, <2>4, <2>5, ConfinedChange DEF s
<1>4. s \in DOMAIN StoreOf /\ StoreOf[s] = [l \in Keys |-> StoreOf[s][l]]
  <2>1. s \in {Namespace[d] : d \in Accepted}
    OBVIOUS
  <2>2. QED
    BY <2>1 DEF StoreOf
<1>5. [l \in Keys |-> IF l \in DOMAIN new THEN new[l] ELSE StoreOf[s][l]]
        = [StoreOf[s] EXCEPT ![k] = v]
  BY <1>4
<1>6. StoreOf' = [StoreOf EXCEPT ![s][k] = v]
  BY <1>3, <1>5
<1>7. QED
  BY <1>1, <1>2, <1>6 DEF Private!Put

LEMMA ChangeStep ==
  ASSUME RedisTypeOK, NEW c \in Accepted, NEW keys \in SUBSET Keys, NEW new \in [keys -> Held],
         Change(c, new)
  PROVE  data' \in [AllKeys -> Held] /\ Private!Change(c, new)
<1>1. data \in [AllKeys -> Held] /\ DOMAIN new = keys
  BY DEF RedisTypeOK, Held
<1>2. data' = [key \in AllKeys |-> IF Names(c, key, keys) = {} THEN data[key]
                                  ELSE new[CHOOSE k \in Names(c, key, keys) : TRUE]]
  BY <1>1 DEF Change
<1>3. ASSUME NEW key \in AllKeys, NEW k \in keys, key = Full(c, k)
      PROVE  Names(c, key, keys) = {k}
  <2>1. \A l \in keys : Full(c, l) = Full(c, k) => l = k
    BY FullInjective
  <2>2. QED
    BY <1>3, <2>1 DEF Names
<1>4. \A key \in AllKeys : \A k \in keys : key = Full(c, k) => data'[key] = new[k]
  <2> SUFFICES ASSUME NEW key \in AllKeys, NEW k \in keys, key = Full(c, k)
               PROVE  data'[key] = new[k]
    OBVIOUS
  <2>1. Names(c, key, keys) = {k}
    BY <1>3
  <2>2. (CHOOSE l \in {k} : TRUE) = k
    OBVIOUS
  <2>3. data'[key] = IF Names(c, key, keys) = {} THEN data[key]
                     ELSE new[CHOOSE l \in Names(c, key, keys) : TRUE]
    BY <1>2
  <2>4. QED
    BY <2>1, <2>2, <2>3
<1>5. \A key \in AllKeys : (\A k \in keys : key # Full(c, k)) => data'[key] = data[key]
  <2> SUFFICES ASSUME NEW key \in AllKeys, \A k \in keys : key # Full(c, k)
               PROVE  data'[key] = data[key]
    OBVIOUS
  <2>1. Names(c, key, keys) = {}
    BY DEF Names
  <2>2. QED
    BY <1>2, <2>1
<1>6. ASSUME NEW key \in AllKeys PROVE data'[key] \in Held
  <2>1. CASE \A k \in keys : key # Full(c, k)
    BY <1>1, <1>5, <2>1
  <2>2. CASE \E k \in keys : key = Full(c, k)
    BY <1>4, <2>2
  <2>3. QED
    BY <2>1, <2>2
<1>7. data' \in [AllKeys -> Held]
  BY <1>2, <1>6
<1>8. StoreOf' = [StoreOf EXCEPT ![Namespace[c]] =
                    [k \in Keys |-> IF k \in DOMAIN new THEN new[k]
                                   ELSE StoreOf[Namespace[c]][k]]]
  BY <1>1, <1>4, <1>5, ConfinedChange
<1>9. QED
  BY <1>7, <1>8 DEF Private!Change

(***************************************************************************)
(* Every command of a client is the command of that name on its own store. *)
(***************************************************************************)
LEMMA CommandStep ==
  ASSUME RedisTypeOK, NEW c \in open, Command(c)
  PROVE  RedisTypeOK' /\ open' = open /\ Private!Command(c)
<1> USE RedisKeysAssumption DEF Private!Stored, Stored
<1>1. c \in Accepted /\ data \in [AllKeys -> Held]
  BY DEF RedisTypeOK, Held
<1>2. ASSUME data' \in [AllKeys -> Held], open' = open PROVE RedisTypeOK'
  BY <1>2 DEF RedisTypeOK, Held
<1>3. ASSUME NEW v, Answer(c, v) PROVE open' = open /\ Private!Answer(c, v)
  BY <1>3 DEF Answer, Private!Answer
<1>4. \A k \in Keys : Full(c, k) \in AllKeys /\ Private!At(c, k) = data[Full(c, k)]
  BY <1>1, FullFacts DEF Private!At
<1>5. ASSUME UNCHANGED data PROVE UNCHANGED StoreOf /\ data' \in [AllKeys -> Held]
  BY <1>1, <1>5 DEF StoreOf
<1>6. NoValue \in Held /\ \A v \in 0 .. MaxValue : v \in Held
  BY DEF Held
<1>7. CASE \E k \in Keys : \E v \in Stored : Set(c, k, v)
  <2>1. PICK k \in Keys, v \in Stored : Set(c, k, v)
    BY <1>7
  <2>2. Put(Full(c, k), v) /\ Answer(c, v)
    BY <2>1 DEF Set
  <2>3. Private!Put(c, k, v) /\ data' \in [AllKeys -> Held]
    BY <1>1, <1>6, <2>2, PutStep
  <2>4. Private!Set(c, k, v)
    BY <1>3, <2>2, <2>3 DEF Private!Set
  <2>5. QED
    BY <1>2, <1>3, <2>2, <2>3, <2>4 DEF Private!Command
<1>8. CASE \E k \in Keys : \E v \in Stored : SetNX(c, k, v)
  <2>1. PICK k \in Keys, v \in Stored : SetNX(c, k, v)
    BY <1>8
  <2>2. CASE data[Full(c, k)] = NoValue
    <3>1. Put(Full(c, k), v) /\ Answer(c, 1)
      BY <2>1, <2>2 DEF SetNX
    <3>2. Private!Put(c, k, v) /\ data' \in [AllKeys -> Held]
      BY <1>1, <1>6, <3>1, PutStep
    <3>3. Private!SetNX(c, k, v)
      BY <1>3, <1>4, <2>2, <3>1, <3>2 DEF Private!SetNX
    <3>4. QED
      BY <1>2, <1>3, <3>1, <3>2, <3>3 DEF Private!Command
  <2>3. CASE data[Full(c, k)] # NoValue
    <3>1. Answer(c, 0) /\ UNCHANGED data
      BY <2>1, <2>3 DEF SetNX
    <3>2. Private!SetNX(c, k, v)
      BY <1>3, <1>4, <1>5, <2>3, <3>1 DEF Private!SetNX
    <3>3. QED
      BY <1>2, <1>3, <1>5, <3>1, <3>2 DEF Private!Command
  <2>4. QED
    BY <2>2, <2>3
<1>9. CASE \E k \in Keys : Get(c, k)
  <2>1. PICK k \in Keys : Get(c, k)
    BY <1>9
  <2>2. Answer(c, data[Full(c, k)]) /\ UNCHANGED data
    BY <2>1 DEF Get
  <2>3. Private!Get(c, k)
    BY <1>3, <1>4, <1>5, <2>2 DEF Private!Get
  <2>4. QED
    BY <1>2, <1>3, <1>5, <2>2, <2>3 DEF Private!Command
<1>10. CASE \E k \in Keys : GetDel(c, k)
  <2>1. PICK k \in Keys : GetDel(c, k)
    BY <1>10
  <2>2. Put(Full(c, k), NoValue) /\ Answer(c, data[Full(c, k)])
    BY <2>1 DEF GetDel
  <2>3. Private!Put(c, k, NoValue) /\ data' \in [AllKeys -> Held]
    BY <1>1, <1>6, <2>2, PutStep
  <2>4. Private!GetDel(c, k)
    BY <1>3, <1>4, <2>2, <2>3 DEF Private!GetDel
  <2>5. QED
    BY <1>2, <1>3, <2>2, <2>3, <2>4 DEF Private!Command
<1>11. CASE \E k \in Keys : Incr(c, k)
  <2>1. PICK k \in Keys : Incr(c, k)
    BY <1>11
  <2> DEFINE v == IF data[Full(c, k)] = NoValue THEN 1 ELSE data[Full(c, k)] + 1
  <2>2. v \in Stored /\ Put(Full(c, k), v) /\ Answer(c, v)
    BY <2>1 DEF Incr
  <2>3. v = IF Private!At(c, k) = NoValue THEN 1 ELSE Private!At(c, k) + 1
    BY <1>4
  <2> HIDE DEF v
  <2>4. Private!Put(c, k, v) /\ data' \in [AllKeys -> Held]
    BY <1>1, <1>6, <2>2, PutStep
  <2>5. Private!Incr(c, k)
    BY <1>3, <2>2, <2>3, <2>4 DEF Private!Incr
  <2>6. QED
    BY <1>2, <1>3, <2>2, <2>4, <2>5 DEF Private!Command
<1>12. CASE \E k \in Keys : Expire(c, k)
  <2>1. PICK k \in Keys : Expire(c, k)
    BY <1>12
  <2>2. Put(Full(c, k), NoValue) /\ UNCHANGED <<open, reply>>
    BY <2>1 DEF Expire
  <2>3. Private!Put(c, k, NoValue) /\ data' \in [AllKeys -> Held]
    BY <1>1, <1>6, <2>2, PutStep
  <2>4. Private!Expire(c, k)
    BY <2>2, <2>3 DEF Private!Expire
  <2>5. QED
    BY <1>2, <2>2, <2>3, <2>4 DEF Private!Command
<1>13. CASE \E keys \in SUBSET Keys : Del(c, keys)
  <2>1. PICK keys \in SUBSET Keys : Del(c, keys)
    BY <1>13
  <2> DEFINE new == [k \in keys |-> NoValue]
             n == IF \E k \in keys : data[Full(c, k)] # NoValue THEN 1 ELSE 0
  <2>2. Change(c, new) /\ Answer(c, n)
    BY <2>1 DEF Del
  <2>3. new \in [keys -> Held]
    BY <1>6
  <2>4. n = IF \E k \in keys : Private!At(c, k) # NoValue THEN 1 ELSE 0
    BY <1>4
  <2>5. Private!Change(c, new) /\ data' \in [AllKeys -> Held]
    <3> HIDE DEF new
    <3>1. QED
      BY <1>1, <2>2, <2>3, ChangeStep
  <2>6. Private!Del(c, keys)
    BY <1>3, <2>2, <2>4, <2>5 DEF Private!Del
  <2>7. QED
    BY <1>2, <1>3, <2>2, <2>5, <2>6 DEF Private!Command
<1>14. CASE \E keys \in SUBSET Keys : \E new \in [keys -> Stored \cup {NoValue}] : Eval(c, new)
  <2>1. PICK keys \in SUBSET Keys : \E new \in [keys -> Stored \cup {NoValue}] : Eval(c, new)
    BY <1>14
  <2>2. PICK new \in [keys -> Stored \cup {NoValue}] : Eval(c, new)
    BY <2>1
  <2>3. Change(c, new) /\ Answer(c, NoValue)
    BY <2>2 DEF Eval
  <2>4. new \in [keys -> Held]
    BY DEF Held
  <2>5. Private!Change(c, new) /\ data' \in [AllKeys -> Held]
    BY <1>1, <2>3, <2>4, ChangeStep
  <2>6. Private!Eval(c, new)
    BY <1>3, <2>3, <2>5 DEF Private!Eval
  <2>7. QED
    BY <1>2, <1>3, <2>3, <2>5, <2>6 DEF Private!Command
<1>15. QED
  BY <1>7, <1>8, <1>9, <1>10, <1>11, <1>12, <1>13, <1>14 DEF Command

(***************************************************************************)
(* Types, as the inductive invariant: only accepted prefixes have clients, *)
(* and the server holds the keys of theirs.                                *)
(***************************************************************************)
LEMMA RedisInitSteps == RedisInit => RedisTypeOK /\ Private!Init
<1> SUFFICES ASSUME RedisInit PROVE RedisTypeOK /\ Private!Init
  OBVIOUS
<1>1. RedisTypeOK
  BY DEF RedisInit, RedisTypeOK
<1>2. \A c \in Accepted : \A k \in Keys : data[Namespace[c] \o k] = NoValue
  BY FullFacts DEF RedisInit
<1>3. StoreOf = [s \in {Namespace[c] : c \in Accepted} |-> [k \in Keys |-> NoValue]]
  BY <1>2 DEF StoreOf
<1>4. Private!Spaces = {Namespace[c] : c \in Accepted}
  BY DEF Private!Spaces, Namespace
<1>5. QED
  BY <1>1, <1>3, <1>4 DEF Private!Init, RedisInit

LEMMA RedisNextSteps ==
  RedisTypeOK /\ [RedisNext]_redisVars => RedisTypeOK' /\ [Private!Next]_(Private!vars)
<1> SUFFICES ASSUME RedisTypeOK, [RedisNext]_redisVars
             PROVE  RedisTypeOK' /\ [Private!Next]_(Private!vars)
  OBVIOUS
<1>1. CASE \E c \in Configured : Open(c)
  <2>1. PICK c \in Configured : Open(c)
    BY <1>1
  <2>2. c \in Accepted /\ open' = open \cup {c} /\ UNCHANGED <<data, reply>>
    BY <2>1 DEF Open, Accepted
  <2>3. UNCHANGED StoreOf
    BY <2>2 DEF StoreOf
  <2>4. RedisTypeOK'
    BY <2>2 DEF RedisTypeOK
  <2>5. c \in DOMAIN Namespace
    BY <2>2 DEF Namespace
  <2>6. Private!Next
    BY <2>2, <2>3, <2>5 DEF Private!Next, Private!Open
  <2>7. QED
    BY <2>4, <2>6
<1>2. CASE \E c \in open : Command(c)
  BY <1>2, CommandStep DEF Private!Next
<1>3. CASE UNCHANGED redisVars
  BY <1>3 DEF redisVars, RedisTypeOK, StoreOf, Private!vars
<1>4. QED
  BY <1>1, <1>2, <1>3 DEF RedisNext

(***************************************************************************)
(* Only valid prefixes ever make a client (client.go:19-35), and the       *)
(* server holds nothing but numbers under keys that begin with one.        *)
(***************************************************************************)
THEOREM RedisTypeCorrect == RedisSpec => []RedisTypeOK
<1>1. RedisInit => RedisTypeOK
  BY RedisInitSteps
<1>2. RedisTypeOK /\ [RedisNext]_redisVars => RedisTypeOK'
  BY RedisNextSteps
<1>3. QED
  BY <1>1, <1>2, PTL DEF RedisSpec

(***************************************************************************)
(* The client gives each prefix a store of its own (client.go:13-14, 65):  *)
(* for any prefixes, any keys and any commands, no service reads, changes  *)
(* or deletes what another one wrote.                                      *)
(***************************************************************************)
THEOREM PrefixesIsolateServices == RedisSpec => OwnStores
<1>1. RedisInit => Private!Init
  BY RedisInitSteps
<1>2. RedisTypeOK /\ [RedisNext]_redisVars => [Private!Next]_(Private!vars)
  BY RedisNextSteps
<1>3. RedisSpec => []RedisTypeOK
  BY RedisTypeCorrect
<1>4. QED
  BY <1>1, <1>2, <1>3, PTL DEF RedisSpec, OwnStores, Private!Spec
-----------------------------------------------------------------------------
(* The database, the configuration and the deployment. *)

(***************************************************************************)
(* Migrations are applied in order: Current is the first that is left.     *)
(***************************************************************************)
LEMMA CurrentIsFirst ==
  ASSUME NEW r \in Replica, todo[r] \subseteq Migration, todo[r] # {}
  PROVE  /\ Current(r) \in todo[r]
         /\ \A n \in todo[r] : Current(r) <= n
<1>1. todo[r] \subseteq Nat
  BY DEF Migration
<1>2. \E m \in todo[r] : \A n \in todo[r] : m <= n
  BY <1>1, LeastOf, Zenon
<1>3. QED
  BY <1>2 DEF Current

(***************************************************************************)
(* The states in which replicas start.                                     *)
(***************************************************************************)
LEMMA InitDatabaseInv == DatabaseInit => DatabaseInv
<1> SUFFICES ASSUME DatabaseInit PROVE DatabaseInv
  OBVIOUS
<1> USE StartupAssumption DEF DatabaseInit
<1>1. PICK n \in 0 .. Migrations : tables = 1 .. n /\ records = 1 .. n
  OBVIOUS
<1>2. DatabaseTypeOK
  BY <1>1 DEF DatabaseTypeOK, Migration
<1>3. OneUnderWay
  BY <1>1 DEF OneUnderWay, InOrder
<1>4. PlansAreSuffixes /\ RecorderOwnsTable /\ Positions
  BY DEF PlansAreSuffixes, RecorderOwnsTable, Positions
<1>5. QED
  BY <1>2, <1>3, <1>4 DEF DatabaseInv

(***************************************************************************)
(* When the first migration a replica has left has no table yet, all those *)
(* before it, and no others, have theirs and are recorded.                 *)
(***************************************************************************)
LEMMA NothingElseUnderWay ==
  ASSUME DatabaseInv, NEW r \in Replica, pc[r] = "apply", Current(r) \notin tables
  PROVE  tables = 1 .. Current(r) - 1 /\ records = 1 .. Current(r) - 1
<1> USE StartupAssumption DEF Migration
<1>1. todo[r] \subseteq Migration /\ todo[r] # {}
  BY DEF DatabaseInv, DatabaseTypeOK, PlansAreSuffixes
<1>2. /\ Current(r) \in todo[r] /\ Current(r) \in Migration
      /\ \A n \in todo[r] : Current(r) <= n
  BY <1>1, CurrentIsFirst
<1>3. 1 .. Current(r) - 1 \subseteq records
  <2>1. \A m \in 1 .. Current(r) - 1 : m \in Migration \ todo[r]
    BY <1>2
  <2>2. Migration \ todo[r] \subseteq records
    BY DEF DatabaseInv, PlansAreSuffixes
  <2>3. QED
    BY <2>1, <2>2
<1>4. tables \subseteq 1 .. Current(r) - 1
  <2>1. SUFFICES ASSUME NEW m \in tables, m \notin 1 .. Current(r) - 1 PROVE FALSE
    OBVIOUS
  <2>2. m \in Migration /\ Current(r) \in 1 .. m
    BY <1>2, <2>1 DEF DatabaseInv, DatabaseTypeOK
  <2>3. 1 .. m \subseteq tables
    BY DEF DatabaseInv, OneUnderWay, InOrder
  <2>4. QED
    BY <2>2, <2>3
<1>5. records \subseteq tables
  BY DEF DatabaseInv, OneUnderWay
<1>6. QED
  BY <1>3, <1>4, <1>5

(***************************************************************************)
(* A replica has recorded the migration under way: of Apply in Postgres,   *)
(* of Record in MySQL.                                                     *)
(***************************************************************************)
LEMMA DoneDatabaseInv ==
  ASSUME DatabaseInv, NEW r \in Replica, pc[r] \in {"apply", "record"},
         Current(r) \in todo[r], Current(r) \in Migration,
         \A n \in todo[r] : Current(r) <= n,
         \A s \in Replica \ {r} : pc[s] # "record",
         Done(r), UNCHANGED <<config, exists, faults>>,
         tables' \subseteq Migration, InOrder(tables'), records' = tables',
         records \subseteq records', Current(r) \in records'
  PROVE  DatabaseInv'
<1> USE StartupAssumption DEF DatabaseInv, Done, Goto, config
<1>1. DatabaseTypeOK'
  BY DEF DatabaseTypeOK
<1>2. OneUnderWay'
  BY DEF OneUnderWay, InOrder
<1>3. /\ pc'[r] = IF todo[r] = {Current(r)} THEN "up" ELSE "apply"
      /\ todo'[r] = todo[r] \ {Current(r)}
      /\ \A s \in Replica : s # r => pc'[s] = pc[s] /\ todo'[s] = todo[s]
  BY DEF DatabaseTypeOK
<1>4. PlansAreSuffixes'
  <2>1. Migration \ todo'[r] \subseteq records'
    BY <1>3 DEF PlansAreSuffixes
  <2>2. \A m \in todo'[r] : m .. Migrations \subseteq todo'[r]
    BY <1>3 DEF PlansAreSuffixes, DatabaseTypeOK, Migration
  <2>3. QED
    BY <1>3, <2>1, <2>2 DEF PlansAreSuffixes
<1>5. RecorderOwnsTable'
  BY <1>3 DEF RecorderOwnsTable
<1>6. Positions'
  <2>1. pc'[r] = "up" => records' = Migration
    BY <1>3 DEF PlansAreSuffixes
  <2>2. QED
    BY <1>3, <2>1 DEF Positions, OneUnderWay
<1>7. QED
  BY <1>1, <1>2, <1>4, <1>5, <1>6

(***************************************************************************)
(* Every step and every fault of a replica keeps the invariant.            *)
(***************************************************************************)
LEMMA StepDatabaseInv ==
  ASSUME DatabaseInv, driver \in Drivers, NEW r \in Replica, Step(r) \/ Fault(r)
  PROVE  DatabaseInv'
<1> USE StartupAssumption DEF DatabaseInv
<1>1. ASSUME UNCHANGED <<config, tables, records, todo>>, exists' \in BOOLEAN,
             exists => exists', faults' \in 0 .. MaxFaults,
             NEW label \in {"ping", "create", "again", "plan", "up", "failed"},
             pc' = [pc EXCEPT ![r] = label],
             label \in {"again", "plan", "up"} => exists', label = "up" => ~migrate
      PROVE  DatabaseInv'
  <2> USE <1>1 DEF config
  <2>1. DatabaseTypeOK'
    BY DEF DatabaseTypeOK
  <2>2. OneUnderWay'
    BY DEF OneUnderWay, InOrder
  <2>3. /\ pc'[r] = label
        /\ \A s \in Replica : s # r => pc'[s] = pc[s]
    BY DEF DatabaseTypeOK
  <2>4. PlansAreSuffixes'
    BY <2>3 DEF PlansAreSuffixes
  <2>5. RecorderOwnsTable'
    BY <2>3 DEF RecorderOwnsTable, Current
  <2>6. Positions'
    BY <2>3 DEF Positions
  <2>7. QED
    BY <2>1, <2>2, <2>4, <2>5, <2>6
<1>2. CASE Ping(r)
  BY <1>1, <1>2 DEF Ping, Connected, Goto, database, DatabaseTypeOK
<1>3. CASE Create(r)
  BY <1>1, <1>3 DEF Create, Goto, DatabaseTypeOK
<1>4. CASE PingAgain(r)
  BY <1>1, <1>4 DEF PingAgain, Connected, Goto, database, DatabaseTypeOK
<1>5. CASE Fault(r)
  BY <1>1, <1>5 DEF Fault, Goto, database, DatabaseTypeOK
<1>6. CASE Restart(r)
  <2> USE <1>6 DEF Restart, Goto, database, config
  <2>1. DatabaseTypeOK'
    BY DEF DatabaseTypeOK
  <2>2. OneUnderWay'
    BY DEF OneUnderWay, InOrder
  <2>3. /\ pc'[r] = "ping"
        /\ \A s \in Replica : s # r => pc'[s] = pc[s] /\ todo'[s] = todo[s]
    BY DEF DatabaseTypeOK
  <2>4. PlansAreSuffixes'
    BY <2>3 DEF PlansAreSuffixes
  <2>5. RecorderOwnsTable'
    BY <2>3 DEF RecorderOwnsTable, Current
  <2>6. Positions'
    BY <2>3 DEF Positions
  <2>7. QED
    BY <2>1, <2>2, <2>4, <2>5, <2>6
<1>7. CASE Plan(r)
  <2> USE <1>7 DEF Plan, Goto, database, config
  <2>1. DatabaseTypeOK'
    BY DEF DatabaseTypeOK, Planned
  <2>2. OneUnderWay'
    BY DEF OneUnderWay, InOrder
  <2>3. /\ pc'[r] = IF Planned = {} THEN "up" ELSE "apply"
        /\ todo'[r] = Planned
        /\ \A s \in Replica : s # r => pc'[s] = pc[s] /\ todo'[s] = todo[s]
    BY DEF DatabaseTypeOK
  <2>4. PlansAreSuffixes'
    <3>1. Migration \ Planned \subseteq records
      BY DEF Planned
    <3>2. \A m \in Planned : m .. Migrations \subseteq Planned
      <4>1. SUFFICES ASSUME NEW m \in Planned, NEW n \in m .. Migrations, n \in records
                     PROVE  FALSE
        BY DEF Planned, Migration
      <4>2. 1 .. n \subseteq records
        BY <4>1 DEF OneUnderWay, InOrder
      <4>3. m \in 1 .. n
        BY DEF Planned, Migration
      <4>4. QED
        BY <4>2, <4>3 DEF Planned
    <3>3. QED
      BY <2>3, <3>1, <3>2 DEF PlansAreSuffixes
  <2>5. RecorderOwnsTable'
    BY <2>3 DEF RecorderOwnsTable, Current
  <2>6. Positions'
    BY <2>3 DEF Positions, Planned, DatabaseTypeOK
  <2>7. QED
    BY <2>1, <2>2, <2>4, <2>5, <2>6
<1>8. CASE Apply(r)
  <2> USE <1>8 DEF Apply, Goto, database, config, AfterError
  <2>1. CASE Current(r) \in tables
    BY <1>1, <2>1 DEF DatabaseTypeOK
  <2>2. CASE Current(r) \notin tables
    <3>1. /\ tables = 1 .. Current(r) - 1 /\ records = 1 .. Current(r) - 1
          /\ tables' = 1 .. Current(r) /\ Current(r) \in todo[r]
          /\ Current(r) \in Migration
          /\ \A n \in todo[r] : Current(r) <= n
      <4>1. todo[r] \subseteq Migration /\ todo[r] # {}
        BY DEF DatabaseTypeOK, PlansAreSuffixes
      <4>2. /\ Current(r) \in todo[r] /\ Current(r) \in Migration
            /\ \A n \in todo[r] : Current(r) <= n
        BY <4>1, CurrentIsFirst
      <4>3. tables = 1 .. Current(r) - 1 /\ records = 1 .. Current(r) - 1
        BY <2>2, NothingElseUnderWay
      <4>4. tables' = tables \cup {Current(r)}
        BY <2>2
      <4>5. QED
        BY <4>2, <4>3, <4>4 DEF Migration
    <3>2. \A s \in Replica : pc[s] # "record"
      BY <3>1 DEF RecorderOwnsTable
    <3>3. CASE driver = "postgres"
      <4>1. /\ records' = 1 .. Current(r) /\ UNCHANGED <<config, exists, faults>>
            /\ Done(r)
        BY <2>2, <3>1, <3>3 DEF Migration
      <4>2. /\ pc[r] \in {"apply", "record"}
            /\ tables' \subseteq Migration /\ records' = tables'
            /\ records \subseteq records' /\ Current(r) \in records'
        BY <3>1, <4>1 DEF Migration
      <4>3. InOrder(tables')
        BY <3>1 DEF InOrder, Migration
      <4>4. QED
        <5> HIDE DEF DatabaseInv, Apply, Goto, database, config, AfterError
        <5>1. QED
          BY <3>1, <3>2, <4>1, <4>2, <4>3, DoneDatabaseInv
    <3>4. CASE driver = "mysql"
      <4>1. /\ UNCHANGED <<config, exists, records, todo, faults>>
            /\ pc' = [pc EXCEPT ![r] = "record"]
        BY <2>2, <3>4
      <4>2. DatabaseTypeOK'
        BY <3>1, <4>1 DEF DatabaseTypeOK, Migration
      <4>3. OneUnderWay'
        BY <3>1, <3>4, <4>1 DEF OneUnderWay, InOrder, Migration
      <4>4. /\ pc'[r] = "record"
            /\ \A s \in Replica : s # r => pc'[s] = pc[s]
        BY <4>1 DEF DatabaseTypeOK
      <4>5. PlansAreSuffixes'
        BY <4>1, <4>4 DEF PlansAreSuffixes
      <4>6. RecorderOwnsTable'
        <5>1. Current(r)' = Current(r)
          BY <4>1 DEF Current
        <5>2. Current(r) \in tables' \ records'
          BY <3>1, <4>1 DEF Migration
        <5>3. QED
          BY <3>2, <3>4, <4>1, <4>4, <5>1, <5>2 DEF RecorderOwnsTable
      <4>7. Positions'
        BY <4>1, <4>4 DEF Positions
      <4>8. QED
        BY <4>2, <4>3, <4>5, <4>6, <4>7
    <3>5. QED
      BY <3>3, <3>4
  <2>3. QED
    BY <2>1, <2>2
<1>9. CASE Record(r)
  <2> USE <1>9 DEF Record, config
  <2>1. /\ todo[r] \subseteq Migration /\ todo[r] # {}
        /\ Current(r) \in tables \ records
        /\ driver = "mysql"
    BY DEF DatabaseTypeOK, PlansAreSuffixes, RecorderOwnsTable
  <2>2. /\ Current(r) \in todo[r] /\ Current(r) \in Migration
        /\ \A n \in todo[r] : Current(r) <= n
    BY <2>1, CurrentIsFirst
  <2>3. records' = tables /\ tables' = tables
    BY <2>1 DEF OneUnderWay
  <2>4. \A s \in Replica \ {r} : pc[s] # "record"
    BY DEF RecorderOwnsTable
  <2>5. /\ pc[r] \in {"apply", "record"} /\ Done(r)
        /\ UNCHANGED <<config, exists, faults>>
        /\ tables' \subseteq Migration /\ records' = tables'
        /\ records \subseteq records' /\ Current(r) \in records'
    BY <2>1, <2>3 DEF DatabaseTypeOK, OneUnderWay
  <2>6. InOrder(tables')
    BY <2>3 DEF OneUnderWay, InOrder
  <2>7. QED
    <3> HIDE DEF DatabaseInv, Record, config
    <3>1. QED
      BY <2>2, <2>4, <2>5, <2>6, DoneDatabaseInv
<1>10. QED
  BY <1>2, <1>3, <1>4, <1>5, <1>6, <1>7, <1>8, <1>9 DEF Step
-----------------------------------------------------------------------------
(***************************************************************************)
(* The configuration.  A path is never apart from itself.                  *)
(***************************************************************************)
LEMMA NotApartFromItself == \A path : ~Apart(path, path)
BY DEF Apart

(***************************************************************************)
(* A section is the first key of the paths under it.                       *)
(***************************************************************************)
LEMMA FirstKey ==
  ASSUME NEW S, NEW path \in Seq(S) \ {<<>>}, NEW section
  PROVE  IsPrefix(<<section>>, path) <=> Head(path) = section
<1>1. Len(path) \in Nat /\ Len(path) >= 1 /\ path[1] = Head(path)
  OBVIOUS
<1>2. Len(<<section>>) = 1 /\ <<section>>[1] = section
  OBVIOUS
<1>3. ASSUME NEW s, Len(s) \in Nat, Len(s) >= 1, s[1] \in S \cup {section}
      PROVE  /\ SubSeq(s, 1, 1) \in Seq(S \cup {section}) /\ Len(SubSeq(s, 1, 1)) = 1
             /\ SubSeq(s, 1, 1)[1] = s[1]
  <2>1. 1 \in Int /\ \A i \in 1 .. 1 : s[i] \in S \cup {section}
    BY <1>3
  <2>2. QED
    BY <2>1, SubSeqProperties
<1>4. SubSeq(<<section>>, 1, 1) = SubSeq(path, 1, 1) <=> section = path[1]
  BY <1>1, <1>2, <1>3, SeqEqual
<1>5. QED
  BY <1>1, <1>2, <1>4 DEF IsPrefix

(***************************************************************************)
(* The files of the deployment, as ConfigurationAssumption has them.       *)
(***************************************************************************)
LEMMA FilesOf ==
  ASSUME deployment \in Deployments
  PROVE  /\ Len(dir) \in Nat /\ DOMAIN dir = 1 .. Len(dir) /\ (dir # <<>> => Len(dir) > 0)
         /\ \A k \in 1 .. Len(dir) :
              dir[k] = Malformed \/ DOMAIN dir[k] \subseteq Seq(DOMAIN Spelling) \ {<<>>}
BY ConfigurationAssumption DEF dir

(***************************************************************************)
(* One more file is loaded.                                                *)
(***************************************************************************)
LEMMA LastSayAfter ==
  ASSUME NEW n \in Nat, NEW path, NEW k
  PROVE  LastSay(n + 1, path, k) <=> \/ k = n + 1 /\ path \in DOMAIN dir[k]
                                     \/ LastSay(n, path, k) /\ ~HasSay(n + 1, path)
BY NotApartFromItself DEF LastSay, HasSay

(***************************************************************************)
(* The files decide what is masked, and they stay.                         *)
(***************************************************************************)
LEMMA ShownAsBefore ==
  ASSUME deployment' = deployment
  PROVE  \A path, value : ShownWhole(path, value)' = ShownWhole(path, value)
<1>1. FileKeys' = FileKeys
  BY DEF FileKeys, dir
<1>2. QED
  BY <1>1 DEF ShownWhole, IsSensitive, WholeNames, AllKeywords


(***************************************************************************)
(* A section that was looked up has what the environment says of it.       *)
(***************************************************************************)
LEMMA ApplyKeepsConfInv ==
  ASSUME ConfInv, NEW section \in sections, ApplySection(section)
  PROVE  ConfInv'
<1> USE DEF ConfInv, ApplySection
<1>1. deployment' = deployment /\ conf = "environment" /\ conf' \in {"environment", "decode"}
      /\ sections' = sections \ {section} /\ env' = env /\ loaded' = loaded
  OBVIOUS
<1>2. Progress'
  BY <1>1 DEF Progress, AfterLoading, dir
<1>3. ValuesAreDue'
  <2>1. AllPaths' = AllPaths /\ \A path, k : LastSay(loaded, path, k)' = LastSay(loaded, path, k)
    BY <1>1 DEF AllPaths, LastSay, HasSay, dir
  <2>2. DOMAIN values' = DOMAIN values
    BY DEF Applied
  <2>3. ASSUME NEW path \in DOMAIN values, NEW k \in 1 .. loaded, LastSay(loaded, path, k)
        PROVE  values'[path] = Due(path, k)'
    <3>1. path \in Seq(DOMAIN Spelling) \ {<<>>} /\ values[path] = Due(path, k)
      BY <2>3, <1>1 DEF ValuesAreDue
    <3>2. IsPrefix(<<section>>, path) <=> Head(path) = section
      BY <3>1, FirstKey
    <3>3. values'[path] = IF Head(path) = section /\ NameOf(path) \in DOMAIN env
                          THEN env[NameOf(path)] ELSE values[path]
      BY <3>2 DEF Applied, Overridden, Under
    <3>4. Due(path, k)' = IF Head(path) \notin sections' /\ NameOf(path) \in DOMAIN env
                          THEN env[NameOf(path)] ELSE dir[k][path]
      BY <1>1 DEF Due, dir
    <3>5. QED
      BY <1>1, <3>1, <3>3, <3>4 DEF Due
  <2>4. QED
    BY <1>1, <2>1, <2>2, <2>3 DEF ValuesAreDue
<1>4. \A o \in overrides' : (o.whole = ShownWhole(o.path, o.value))'
  BY <1>1, ShownAsBefore
<1>5. QED
  BY <1>1, <1>2, <1>3, <1>4

(***************************************************************************)
(* A file that is loaded has the last say in its paths, and takes that of  *)
(* the earlier files in whatever is not apart from them.                   *)
(***************************************************************************)
LEMMA LoadKeepsConfInv ==
  ASSUME ConfInv, LoadFile
  PROVE  ConfInv'
<1> USE DEF ConfInv, LoadFile
<1>1. /\ deployment' = deployment /\ env' = env /\ conf = "files" /\ deployment \in Deployments
      /\ loaded \in Nat /\ loaded + 1 \in 1 .. Len(dir) /\ Len(dir) \in Nat
      /\ overrides' = overrides /\ logged' = logged
  BY FilesOf DEF Progress
<1>2. \A o \in overrides' : (o.whole = ShownWhole(o.path, o.value))'
  BY <1>1, ShownAsBefore
<1>3. CASE dir[loaded + 1] = Malformed
  BY <1>1, <1>2, <1>3 DEF Progress, AfterLoading, dir
<1>4. CASE dir[loaded + 1] # Malformed
  <2>0. PICK n, file : n = loaded + 1 /\ file = dir[n]
    OBVIOUS
  <2>1. /\ values' = Merge(values, file) /\ loaded' = n
        /\ n = Len(dir) => sections' = {Head(path) : path \in DOMAIN values'}
        /\ \/ conf' = "files" /\ n # Len(dir)
           \/ conf' = "environment" /\ n = Len(dir)
           \/ conf' = "decode" /\ n = Len(dir) /\ sections' = {}
    <3>1. loaded' = n /\ values' = Merge(values, file)
      BY <1>4, <2>0
    <3>2. sections' = IF n = Len(dir) THEN {Head(path) : path \in DOMAIN values'} ELSE {}
      BY <1>4, <3>1
    <3>3. conf' = IF n # Len(dir) THEN "files"
                  ELSE IF sections' = {} THEN "decode" ELSE "environment"
      BY <1>4, <3>1
    <3> HIDE DEF LoadFile, ConfInv
    <3>4. QED
      BY <3>1, <3>2, <3>3
  <2>2. Progress'
    BY <1>1, <2>0, <2>1 DEF Progress, AfterLoading, dir
  <2>3. AllPaths' = AllPaths /\ \A path, k : LastSay(n, path, k)' = LastSay(n, path, k)
    BY <1>1, <2>0, <2>1 DEF AllPaths, LastSay, HasSay, dir
  <2>4. /\ file = dir[n] /\ DOMAIN file \subseteq Seq(DOMAIN Spelling) \ {<<>>}
        /\ DOMAIN file \subseteq AllPaths
    BY <1>1, <1>4, <2>0, FilesOf DEF AllPaths
  <2>5. /\ DOMAIN values' = DOMAIN file \cup {path \in DOMAIN values : ~HasSay(n, path)}
        /\ \A path \in DOMAIN values' :
             values'[path] = IF path \in DOMAIN file THEN file[path] ELSE values[path]
    BY <2>0, <2>1 DEF Merge, HasSay
  <2>6. \A path, k : LastSay(n, path, k) <=> \/ k = n /\ path \in DOMAIN file
                                             \/ LastSay(loaded, path, k) /\ ~HasSay(n, path)
    BY <1>1, <2>0, LastSayAfter
  <2>7. DOMAIN values' = {path \in AllPaths : \E k \in 1 .. n : LastSay(n, path, k)}
    <3>1. DOMAIN values = {path \in AllPaths : \E k \in 1 .. loaded : LastSay(loaded, path, k)}
      BY <1>1 DEF ValuesAreDue
    <3>2. n \in 1 .. n /\ \A k \in 1 .. loaded : k \in 1 .. n
      BY <1>1, <2>0
    <3>3. \A path, k : LastSay(loaded, path, k) => k \in 1 .. loaded
      BY DEF LastSay
    <3>4. QED
      BY <2>4, <2>5, <2>6, <3>1, <3>2, <3>3
  <2>8. ASSUME NEW path \in DOMAIN values'
        PROVE  /\ path \in Seq(DOMAIN Spelling) \ {<<>>}
               /\ \A k \in 1 .. n : LastSay(n, path, k) => values'[path] = dir[k][path]
    <3>1. CASE path \in DOMAIN file
      BY <2>4, <2>5, <2>6, <3>1, NotApartFromItself DEF HasSay
    <3>2. CASE path \notin DOMAIN file
      <4>1. path \in DOMAIN values /\ values'[path] = values[path]
        BY <2>5, <3>2
      <4>2. \A k : LastSay(n, path, k) => LastSay(loaded, path, k) /\ k \in 1 .. loaded
        BY <2>6, <3>2 DEF LastSay
      <4>3. QED
        BY <1>1, <2>0, <4>1, <4>2 DEF ValuesAreDue, Due
    <3>3. QED
      BY <3>1, <3>2
  <2>9. ASSUME NEW path \in DOMAIN values', NEW k PROVE Due(path, k)' = dir[k][path]
    BY <1>1, <2>0, <2>1 DEF Due, dir
  <2>10. ValuesAreDue'
    BY <2>1, <2>3, <2>7, <2>8, <2>9 DEF ValuesAreDue
  <2>11. QED
    BY <1>1, <1>2, <2>1, <2>2, <2>10
<1>5. QED
  BY <1>3, <1>4

(***************************************************************************)
(* The start of a process forgets what another has loaded.                 *)
(***************************************************************************)
LEMMA StartKeepsConfInv ==
  ASSUME ConfInv, NEW for, StartProcess(for)
  PROVE  ConfInv'
<1> USE DEF ConfInv, StartProcess
<1>1. /\ deployment' = deployment /\ deployment \in Deployments
      /\ conf' = "files" => Len(dir) \in Nat /\ Len(dir) > 0
      /\ conf' \in {"files", "failed"}
  BY FilesOf DEF Progress
<1>2. Progress'
  BY <1>1 DEF Progress, AfterLoading, dir
<1>3. ValuesAreDue'
  BY DEF ValuesAreDue
<1>4. QED
  BY <1>1, <1>2, <1>3

(***************************************************************************)
(* Every step of a process that is configured keeps the invariant.         *)
(***************************************************************************)
LEMMA NextConfInv ==
  ASSUME ConfInv, [ConfNext]_confVars
  PROVE  ConfInv'
<1> USE DEF ConfInv
<1>1. ASSUME UNCHANGED <<deployment, env, purpose, loaded, values, sections, overrides>>,
             conf' = "done" /\ purpose = "server" => served' = Rendered,
             logged' \in {logged, overrides, {}},
             \/ conf' = conf
             \/ conf' = "failed"
             \/ {conf, conf'} \subseteq AfterLoading \ {"environment"}
      PROVE  ConfInv'
  <2>1. Progress'
    BY <1>1 DEF Progress, AfterLoading, dir
  <2>2. conf' \notin {"idle", "failed"} => ValuesAreDue'
    <3>1. SUFFICES ASSUME conf' \notin {"idle", "failed"} PROVE ValuesAreDue'
      OBVIOUS
    <3>2. ValuesAreDue /\ (conf = "files" <=> conf' = "files")
      BY <1>1, <3>1 DEF AfterLoading
    <3>3. \A path, k : /\ LastSay(loaded, path, k)' = LastSay(loaded, path, k)
                       /\ Due(path, k)' = Due(path, k)
      BY <1>1, <3>2 DEF Due, LastSay, HasSay, dir
    <3>4. AllPaths' = AllPaths
      BY <1>1 DEF AllPaths, dir
    <3>5. QED
      BY <1>1, <3>2, <3>3, <3>4 DEF ValuesAreDue
  <2>3. \A o \in overrides' : (o.whole = ShownWhole(o.path, o.value))'
    BY <1>1, ShownAsBefore
  <2>4. Rendered' = Rendered
    BY <1>1 DEF Rendered, ServersOf, Limited, Under, Limit, NumberAt
  <2>5. QED
    BY <1>1, <2>1, <2>2, <2>3, <2>4
<1>2. CASE LoadFile
  BY <1>2, LoadKeepsConfInv
<1>3. CASE Unmarshal
  BY <1>1, <1>3 DEF Unmarshal, AfterLoading
<1>4. CASE Initialize
  BY <1>1, <1>4 DEF Initialize, AfterLoading
<1>5. CASE PaginationLimits
  BY <1>1, <1>5 DEF PaginationLimits, AfterLoading
<1>6. CASE WriteDocument
  BY <1>1, <1>6 DEF WriteDocument, AfterLoading
<1>7. CASE \E section \in sections : ApplySection(section)
  BY <1>7, ApplyKeepsConfInv
<1>8. CASE UNCHANGED confVars
  BY <1>1, <1>8 DEF confVars
<1>9. QED
  BY <1>2, <1>3, <1>4, <1>5, <1>6, <1>7, <1>8 DEF ConfNext
-----------------------------------------------------------------------------
(***************************************************************************)
(* The deployment: what is configured first decides about the database, a  *)
(* replica takes its steps only then, and nothing else touches it.         *)
(***************************************************************************)
LEMMA InitDeliveryInv == DeliveryInit => DeliveryInv
<1> SUFFICES ASSUME DeliveryInit PROVE DeliveryInv
  OBVIOUS
<1>1. ConfInv
  BY DEF DeliveryInit, ConfInit, ConfInv, Progress, AfterLoading
<1>2. QED
  BY <1>1, InitDatabaseInv DEF DeliveryInit, DatabaseInit, DeliveryInv

LEMMA NextDeliveryInv == DeliveryInv /\ [DeliveryNext]_deliveryVars => DeliveryInv'
<1> SUFFICES ASSUME DeliveryInv, [DeliveryNext]_deliveryVars PROVE DeliveryInv'
  OBVIOUS
<1>1. ASSUME UNCHANGED vars PROVE DatabaseInv' /\ driver' = driver /\ pc' = pc
  <2>1. DatabaseInv
    BY DEF DeliveryInv
  <2>2. QED
    BY <1>1, <2>1 DEF vars, config, DatabaseInv, DatabaseTypeOK, OneUnderWay, InOrder,
                      PlansAreSuffixes, RecorderOwnsTable, Positions, Current
<1>2. ASSUME UNCHANGED confVars PROVE ConfInv' /\ conf' = conf
  <2>1. QED
    BY <1>2, NextConfInv DEF DeliveryInv, confVars
<1>3. CASE Configure
  <2>1. ConfInv'
    BY <1>3, StartKeepsConfInv, NextConfInv DEF Configure, Launch, DeliveryInv
  <2>2. QED
    BY <1>1, <1>3, <2>1 DEF Configure, DeliveryInv
<1>4. CASE WithoutDatabase
  BY <1>1, <1>2, <1>4 DEF WithoutDatabase, ReadyToConnect, DeliveryInv
<1>5. CASE OpenDatabase
  <2> USE DEF DeliveryInv
  <2>1. /\ driver = "none" /\ \A r \in Replica : pc[r] = "ping"
        /\ UNCHANGED <<exists, tables, records, pc, todo, faults>>
        /\ \/ stage' = "database" /\ driver' \in Drivers
           \/ stage' = "refused" /\ UNCHANGED driver
        /\ ConfInv' /\ conf' = "done"
    BY <1>2, <1>5 DEF OpenDatabase, ReadyToConnect, database, config
  <2>2. \A r \in Replica : pc[r] # "record"
    BY <2>1
  <2>3. tables = records
    BY <2>1 DEF DatabaseInv, OneUnderWay
  <2>4. DatabaseTypeOK' /\ OneUnderWay' /\ PlansAreSuffixes' /\ Positions'
    BY <2>1, <2>3 DEF DatabaseInv, DatabaseTypeOK, OneUnderWay, InOrder, PlansAreSuffixes,
                      Positions
  <2>5. RecorderOwnsTable'
    BY <2>1, <2>2 DEF RecorderOwnsTable
  <2>6. QED
    BY <2>1, <2>4, <2>5 DEF DatabaseInv
<1>6. CASE DatabaseIsUp
  BY <1>1, <1>2, <1>6 DEF DatabaseIsUp, DeliveryInv
<1>7. ASSUME NEW r \in Replica, Database(r) PROVE DeliveryInv'
  <2>1. DatabaseInv /\ driver \in Drivers /\ stage' = "database" /\ ConfInv' /\ conf' = "done"
    BY <1>2, <1>7 DEF Database, DeliveryInv
  <2>2. Step(r) \/ Fault(r)
    BY <1>7 DEF Database
  <2>3. DatabaseInv'
    BY <2>1, <2>2, StepDatabaseInv
  <2>4. UNCHANGED driver
    BY <2>2 DEF Step, Ping, Create, PingAgain, Plan, Apply, Record, Restart, Fault, config
  <2>5. QED
    BY <2>1, <2>3, <2>4 DEF DeliveryInv
<1>8. CASE OpenRedis
  BY <1>1, <1>2, <1>8 DEF OpenRedis, DeliveryInv
<1>9. CASE Redis
  BY <1>1, <1>2, <1>9 DEF Redis, DeliveryInv
<1>10. CASE UNCHANGED deliveryVars
  BY <1>1, <1>2, <1>10 DEF deliveryVars, DeliveryInv
<1>11. QED
  BY <1>3, <1>4, <1>5, <1>6, <1>7, <1>8, <1>9, <1>10 DEF DeliveryNext, Rest

LEMMA AlwaysDeliveryInv == DeliverySpec => []DeliveryInv
<1>1. QED
  BY InitDeliveryInv, NextDeliveryInv, PTL DEF DeliverySpec

(***************************************************************************)
(* A replica serves only when the database is there and, if it is to       *)
(* migrate it, with every table (database.go:83-88), however many replicas *)
(* start together and whichever of them are killed or lose their           *)
(* connection.                                                             *)
(***************************************************************************)
THEOREM ReplicasServeOnFullSchema == DeliverySpec => []ServesOnFullSchema
<1>1. DeliveryInv => ServesOnFullSchema
  BY DEF DeliveryInv, DatabaseInv, DatabaseTypeOK, OneUnderWay, Positions, ServesOnFullSchema
<1>2. QED
  BY <1>1, AlwaysDeliveryInv, PTL

(***************************************************************************)
(* schema_migrations records tables that are there, in order, and misses   *)
(* at most the one that MySQL has just created.                            *)
(***************************************************************************)
THEOREM RecordsOfMigrationsAreTrue == DeliverySpec => []RecordsAreTrue
<1>1. ASSUME DeliveryInv PROVE RecordsAreTrue
  <2>1. OneUnderWay
    BY <1>1 DEF DeliveryInv, DatabaseInv
  <2>2. CASE tables \ records = {}
    BY <2>1, <2>2, FS_EmptySet DEF OneUnderWay, RecordsAreTrue
  <2>3. CASE tables \ records # {}
    <3>1. PICK m : tables \ records = {m}
      BY <2>1, <2>3 DEF OneUnderWay
    <3>2. Cardinality(tables \ records) = 1
      BY <3>1, FS_Singleton
    <3>3. driver = "mysql"
      BY <2>1, <2>3 DEF OneUnderWay
    <3>4. QED
      BY <2>1, <3>2, <3>3 DEF OneUnderWay, RecordsAreTrue
  <2>4. QED
    BY <2>2, <2>3
<1>2. DeliveryInv => RecordsAreTrue
  BY <1>1
<1>3. QED
  BY <1>2, AlwaysDeliveryInv, PTL

(***************************************************************************)
(* The configuration is the scalars of the files with the overrides of the *)
(* environment and nothing else, and /docs shows the servers and limits of *)
(* the process that serves it (environment.go:14-15), for any files, any   *)
(* environments and any order of the sections.                             *)
(***************************************************************************)
THEOREM OverridesReachTheirScalars == DeliverySpec => []OverridesAreExact
<1>1. ASSUME DeliveryInv, conf = "done" PROVE OverridesAreExact
  <2> DEFINE n == Len(dir)
  <2>1. /\ ConfInv /\ ValuesAreDue /\ loaded = n /\ sections = {} /\ n \in Nat
        /\ DOMAIN dir = 1 .. n /\ deployment \in Deployments
    BY <1>1, FilesOf DEF DeliveryInv, ConfInv, Progress, AfterLoading
  <2>2. ASSUME NEW path, NEW k, LastSay(n, path, k)
        PROVE  InFiles(path) /\ LastFile(path) = k /\ Due(path, k) = Expected(path)
    <3>1. /\ k \in 1 .. n /\ path \in DOMAIN dir[k]
          /\ \A j \in k + 1 .. n : ~HasSay(j, path)
      BY <2>2 DEF LastSay
    <3>2. \A j \in k + 1 .. n : path \notin DOMAIN dir[j]
      BY <3>1, NotApartFromItself DEF HasSay
    <3>3. InFiles(path)
      BY <2>1, <3>1 DEF InFiles
    <3>4. LastFile(path) = k
      <4>1. \A i \in DOMAIN dir :
              path \in DOMAIN dir[i] /\ (\A j \in i + 1 .. n : path \notin DOMAIN dir[j])
                                => i = k
        BY <2>1, <3>1, <3>2
      <4>2. k \in DOMAIN dir
        BY <2>1, <3>1
      <4>3. QED
        BY <3>1, <3>2, <4>1, <4>2 DEF LastFile
    <3>5. QED
      BY <1>1, <2>1, <3>3, <3>4 DEF Due, Expected, ExpectedIn
  <2>3. ASSUME NEW path \in DOMAIN values
        PROVE  InFiles(path) /\ values[path] = Expected(path)
    <3>1. PICK k \in 1 .. loaded : LastSay(loaded, path, k)
      BY <2>1 DEF ValuesAreDue
    <3>2. QED
      BY <2>1, <2>2, <3>1 DEF ValuesAreDue
  <2>4. ASSUME NEW path \in UNION {DOMAIN dir[k] : k \in DOMAIN dir}, InFiles(path)
        PROVE  path \in DOMAIN values
    BY <2>1, <2>4 DEF InFiles, LastSay, ValuesAreDue, AllPaths
  <2>5. ASSUME purpose = "server"
        PROVE  /\ served.servers = [path \in {p \in DOMAIN values : IsPrefix(Servers, p)} |-> Expected(path)]
               /\ served.maxP = Limit(MaxP) /\ served.maxS = Limit(MaxS)
    <3>1. served = Rendered
      BY <1>1, <2>1, <2>5 DEF ConfInv
    <3>2. ServersOf(values) = [path \in {p \in DOMAIN values : IsPrefix(Servers, p)} |-> Expected(path)]
      BY <2>3 DEF ServersOf, Limited, Under
    <3>3. QED
      BY <3>1, <3>2 DEF Rendered
  <2>6. ASSUME NEW path
        PROVE  Limit(path) = IF path \in DOMAIN values /\ Value[Expected(path)].number # 0
                             THEN Value[Expected(path)].number ELSE 10000
    BY <2>3 DEF Limit, NumberAt
  <2>7. QED
    <3>1. purpose = "server" =>
            \A field \in {<<MaxP, served.maxP>>, <<MaxS, served.maxS>>} :
              field[2] = IF field[1] \in DOMAIN values /\ Value[Expected(field[1])].number # 0
                         THEN Value[Expected(field[1])].number ELSE 10000
      BY <2>5, <2>6
    <3>2. QED
      BY <2>3, <2>4, <2>5, <3>1 DEF OverridesAreExact
<1>2. DeliveryInv => OverridesAreExact
  BY <1>1 DEF OverridesAreExact
<1>3. QED
  BY <1>2, AlwaysDeliveryInv, PTL

(***************************************************************************)
(* An override is logged only as the policy shows it (redact.go:86-118):   *)
(* nothing with a sensitive word in its path or in the name of its         *)
(* variable is logged whole, unless it is too short to be masked or a DSN  *)
(* whose password is that short or not where DSN looks for it, between a   *)
(* colon and an @.                                                         *)
(***************************************************************************)
THEOREM OverridesAreLoggedMasked == DeliverySpec => []SecretsAreMasked
<1>1. ASSUME DeliveryInv, NEW o \in logged, o.whole, Secret(o.path)
      PROVE  \/ Value[o.value].length <= 3
             \/ "dsn" \in EveryWord(o.path) /\ NoMaskablePassword(o.value)
  <2> DEFINE own == WordsOf(o.path)
             name == WordsOfName(NameOf(o.path))
  <2>1. ShownWhole(o.path, o.value)
    BY <1>1 DEF DeliveryInv, ConfInv
  <2>2. IsSensitive(own) \/ IsSensitive(name)
    BY <1>1 DEF Secret, EveryWord, IsSensitive
  <2>3. Readable(own, o.value) \/ Readable(name, o.value)
    BY <2>1, <2>2 DEF ShownWhole
  <2>4. \A i : BetweenColonAndAt(o.value, i) => InMaskedPart(o.value, i)
    BY DEF BetweenColonAndAt, InMaskedPart
  <2>5. QED
    BY <2>3, <2>4 DEF Readable, NoMaskablePassword, EveryWord
<1>2. DeliveryInv => SecretsAreMasked
  BY <1>1 DEF SecretsAreMasked
<1>3. QED
  BY <1>2, AlwaysDeliveryInv, PTL

(***************************************************************************)
(* Within a deployment, too, the Redis client gives each prefix a store of *)
(* its own (client.go:13-14): whatever comes out of files and environment  *)
(* as redis.prefix, this service does not get in the way of the others     *)
(* that share the server.                                                  *)
(***************************************************************************)
THEOREM DeploymentsShareRedis == DeliverySpec => OwnStores
<1>1. DeliveryInit => RedisInit
  BY DEF DeliveryInit
<1>2. DeliveryInv /\ OpenRedis => ThisPrefix \in Configured
  <2>1. SUFFICES ASSUME DeliveryInv, OpenRedis PROVE ThisPrefix \in Configured
    OBVIOUS
  <2>2. CASE PrefixPath \notin DOMAIN values
    BY <2>2, DeliveryAssumption DEF ThisPrefix
  <2>3. CASE PrefixPath \in DOMAIN values
    <3>1. /\ conf = "done" /\ ValuesAreDue /\ deployment \in Deployments
          /\ env \in {<<>>, deployment.build, deployment.run}
          /\ DOMAIN dir = 1 .. Len(dir) /\ loaded = Len(dir)
      BY <2>1, FilesOf DEF DeliveryInv, OpenRedis, ConfInv, Progress, AfterLoading
    <3>2. PICK k \in DOMAIN dir : LastSay(loaded, PrefixPath, k)
      BY <2>3, <3>1 DEF ValuesAreDue
    <3>3. values[PrefixPath] = Due(PrefixPath, k) /\ PrefixPath \in DOMAIN dir[k]
      BY <2>3, <3>1, <3>2 DEF ValuesAreDue, LastSay
    <3>4. values[PrefixPath] \in PrefixesOf(deployment)
      BY <3>1, <3>2, <3>3 DEF PrefixesOf, Due, dir
    <3>5. QED
      BY <2>3, <3>1, <3>4, DeliveryAssumption DEF ThisPrefix
  <2>4. QED
    BY <2>2, <2>3
<1>3. DeliveryInv /\ [DeliveryNext]_deliveryVars => [RedisNext]_redisVars
  <2>1. SUFFICES ASSUME DeliveryInv, [DeliveryNext]_deliveryVars, ~UNCHANGED redisVars
                 PROVE  RedisNext
    OBVIOUS
  <2>2. CASE OpenRedis
    BY <1>2, <2>1, <2>2 DEF OpenRedis, RedisNext
  <2>3. QED
    BY <2>1, <2>2 DEF DeliveryNext, Configure, WithoutDatabase, OpenDatabase, DatabaseIsUp,
                      Database, Redis, Rest, deliveryVars, redisVars
<1>4. QED
  BY <1>1, <1>3, AlwaysDeliveryInv, PrefixesIsolateServices, PTL DEF DeliverySpec, RedisSpec
=============================================================================
