--------------------------- MODULE CreateOnce_proofs ---------------------------
(***************************************************************************)
(* Machine-checked proofs about repeated creations, for any number of      *)
(* requests, replicas and keys, any time-to-live and timeout and any       *)
(* bounds.  The inductive invariant is CreateOnceInv of module CreateOnce. *)
(***************************************************************************)
EXTENDS CreateOnce, TLAPS

(***************************************************************************)
(* A request under way has a store that the application made, and the      *)
(* instants its claim may compute with lie in the past.                    *)
(***************************************************************************)
LEMMA StoreOfRequest ==
  ASSUME TypeOK, RequestsArrived, NEW r \in Request, pc[r] # "idle"
  PROVE  /\ req[r] \in Arrivals /\ req[r].sent \in 0 .. clock /\ req[r].key \in Key
         /\ req[r].at \in Replica /\ Store(r) \in Stores
         /\ LifeOf(Store(r)) = Life(req[r].at) /\ Life(req[r].at) \in 1 .. MaxBoots
         /\ Deadline(r) \in Nat
         /\ Instants(r) \subseteq req[r].sent .. clock
         /\ \A t \in Instants(r) : t + TTL \in 0 .. MaxClock + TTL
         /\ HeldUntil(r) = held[Store(r)][req[r].key]
<1> USE CreateOnceAssumption DEF TypeOK, Arrivals
<1>1. /\ req[r] \in Arrivals /\ req[r].sent \in 0 .. clock /\ req[r].key \in Key
      /\ req[r].at \in Replica /\ clock \in 0 .. MaxClock
  BY DEF RequestsArrived
<1>2. Store(r) \in Stores /\ LifeOf(Store(r)) = Life(req[r].at)
  BY <1>1 DEF Store, StoreOf, Stores, LifeOf, Life
<1>3. Life(req[r].at) \in 1 .. MaxBoots
  BY <1>1 DEF Life
<1>4. Deadline(r) \in Nat
  BY <1>1 DEF Deadline
<1>5. Instants(r) \subseteq req[r].sent .. clock
  BY <1>1 DEF Instants
<1>6. \A t \in Instants(r) : t + TTL \in 0 .. MaxClock + TTL
  BY <1>1, <1>5
<1>7. QED
  BY <1>1, <1>2, <1>3, <1>4, <1>5, <1>6 DEF HeldUntil

(***************************************************************************)
(* A claim of a key that is free changes one hold, and takes the cover     *)
(* from no request that has not lapsed.                                    *)
(***************************************************************************)
LEMMA TakeKeepsCovers ==
  ASSUME TypeOK, RequestsArrived, NEW r \in Request, pc[r] # "idle",
         Free(r), Take(r), clock' = clock
  PROVE  /\ held' \in [Stores -> [Key -> 0 .. MaxClock + TTL]]
         /\ own' = [own EXCEPT ![r] = TRUE]
         /\ \A s \in Stores, k \in Key, sent \in Nat : Covered(s, k, sent) => Covered(s, k, sent)'
         /\ \A s, k, sent : s = Store(r) /\ k = req[r].key /\ sent = req[r].sent
                            => Covered(s, k, sent)'
<1> USE CreateOnceAssumption
<1>1. PICK t \in Instants(r) : held' = [held EXCEPT ![Store(r)][req[r].key] = t + TTL]
  BY DEF Take
<1>2. /\ Store(r) \in Stores /\ req[r].key \in Key /\ req[r].sent \in Nat /\ clock \in Nat
      /\ t \in req[r].sent .. clock /\ t + TTL \in 0 .. MaxClock + TTL
      /\ held[Store(r)][req[r].key] <= clock
  BY StoreOfRequest DEF TypeOK, Free
<1>3. held' \in [Stores -> [Key -> 0 .. MaxClock + TTL]]
  BY <1>1, <1>2 DEF TypeOK
<1>4. /\ held'[Store(r)][req[r].key] = t + TTL
      /\ \A s \in Stores, k \in Key :
           <<s, k>> # <<Store(r), req[r].key>> => held'[s][k] = held[s][k]
  BY <1>1, <1>2 DEF TypeOK
<1>5. ASSUME NEW s \in Stores, NEW k \in Key, NEW sent \in Nat, Covered(s, k, sent)
      PROVE  Covered(s, k, sent)'
  <2>1. CASE s = Store(r) /\ k = req[r].key
    BY <1>2, <1>5, <2>1 DEF Covered, TypeOK
  <2>2. CASE ~(s = Store(r) /\ k = req[r].key)
    BY <1>4, <1>5, <2>2 DEF Covered
  <2>3. QED
    BY <2>1, <2>2
<1>6. \A s, k, sent : s = Store(r) /\ k = req[r].key /\ sent = req[r].sent
                     => Covered(s, k, sent)'
  BY <1>2, <1>4 DEF Covered
<1>7. QED
  BY <1>3, <1>5, <1>6 DEF Take

(***************************************************************************)
(* Every step keeps the types, and has requests arrive before they are     *)
(* under way.                                                              *)
(***************************************************************************)
LEMMA NextTypeOK ==
  ASSUME TypeOK, RequestsArrived, [Next]_vars
  PROVE  TypeOK' /\ RequestsArrived'
<1> USE CreateOnceAssumption
<1> DEFINE Places == {"idle", "claim", "resend", "handler"}
           Answers == {0, 200, 400, 409, 500}
<1>1. ASSUME shared' = shared, clock' \in clock .. MaxClock, boots' \in [Replica -> 1 .. MaxBoots],
             held' \in [Stores -> [Key -> 0 .. MaxClock + TTL]], own' \in [Request -> BOOLEAN],
             req' \in [Request -> Arrivals \cup {NoRequest}], pc' \in [Request -> Places],
             answer' \in [Request -> Answers], rows' \in [Key -> Seq(Rows)],
             \A q \in Request : pc'[q] # "idle" => req'[q] \in Arrivals /\ req'[q].sent <= clock',
             \A q \in Request : pc'[q] = "claim" => ~own'[q]
      PROVE  TypeOK' /\ RequestsArrived'
  <2>1. Rows' = Rows /\ Stores' = Stores /\ Arrivals' = Arrivals
    BY <1>1 DEF Rows, Stores, Arrivals
  <2>2. clock' \in 0 .. MaxClock /\ shared' \in BOOLEAN
    BY <1>1 DEF TypeOK
  <2>3. TypeOK'
    BY <1>1, <2>1, <2>2 DEF TypeOK
  <2>4. QED
    BY <1>1, <2>1, <2>3 DEF RequestsArrived
<1>2. /\ clock \in clock .. MaxClock /\ boots \in [Replica -> 1 .. MaxBoots]
      /\ held \in [Stores -> [Key -> 0 .. MaxClock + TTL]] /\ own \in [Request -> BOOLEAN]
      /\ req \in [Request -> Arrivals \cup {NoRequest}] /\ pc \in [Request -> Places]
      /\ answer \in [Request -> Answers] /\ rows \in [Key -> Seq(Rows)]
      /\ \A q \in Request : pc[q] # "idle" => req[q] \in Arrivals /\ req[q].sent <= clock
      /\ \A q \in Request : pc[q] = "claim" => ~own[q]
  BY DEF TypeOK, RequestsArrived
<1>3. ASSUME NEW r \in Request, NEW status \in {200, 400, 409, 500}, Answer(r, status)
      PROVE  /\ req' \in [Request -> Arrivals \cup {NoRequest}]
             /\ pc' \in [Request -> Places] /\ answer' \in [Request -> Answers]
             /\ \A q \in Request : pc'[q] # "idle" => q # r /\ pc'[q] = pc[q] /\ req'[q] = req[q]
  BY <1>2, <1>3 DEF Answer
<1>4. CASE Tick
  <2>1. /\ clock' = clock + 1 /\ clock' \in clock .. MaxClock
        /\ UNCHANGED <<shared, boots, held, own, req, pc, answer, rows>>
    BY <1>4 DEF Tick, TypeOK
  <2>2. \A q \in Request : pc'[q] # "idle" => req'[q] \in Arrivals /\ req'[q].sent <= clock'
    BY <1>2, <2>1 DEF Arrivals, TypeOK
  <2>3. QED
    BY <1>1, <1>2, <2>1, <2>2
<1>5. ASSUME NEW rep \in Replica, Restart(rep) PROVE TypeOK' /\ RequestsArrived'
  <2> USE <1>5 DEF Restart
  <2>1. boots' \in [Replica -> 1 .. MaxBoots] /\ UNCHANGED <<shared, clock, own, answer, rows>>
    BY DEF TypeOK
  <2>2. \A q \in Request : \/ pc'[q] = "idle" /\ req'[q] = NoRequest
                           \/ pc'[q] = pc[q] /\ req'[q] = req[q]
    BY <1>2
  <2>3. pc' \in [Request -> Places] /\ req' \in [Request -> Arrivals \cup {NoRequest}]
    BY <1>2
  <2>4. held' \in [Stores -> [Key -> 0 .. MaxClock + TTL]]
    <3>1. MaxClock + TTL \in Nat
      OBVIOUS
    <3>2. shared \/ Stores = Replica
      BY DEF Stores
    <3>3. [k \in Key |-> 0] \in [Key -> 0 .. MaxClock + TTL]
      BY <3>1
    <3>4. QED
      BY <1>2, <3>2, <3>3
  <2>5. QED
    BY <1>1, <1>2, <2>1, <2>2, <2>3, <2>4
<1>6. ASSUME NEW r \in Request, NEW k \in Key, NEW rep \in Replica, Send(r, k, rep)
      PROVE  TypeOK' /\ RequestsArrived'
  <2> DEFINE new == [key |-> k, at |-> rep, sent |-> clock]
  <2>1. /\ UNCHANGED <<shared, clock, boots, held, rows>> /\ pc' = [pc EXCEPT ![r] = "claim"]
        /\ req' = [req EXCEPT ![r] = new] /\ answer' = [answer EXCEPT ![r] = 0]
        /\ own' = [own EXCEPT ![r] = FALSE]
    BY <1>6 DEF Send
  <2>2. new \in Arrivals /\ new.sent = clock /\ clock \in Nat
    BY DEF Arrivals, TypeOK
  <2> HIDE DEF new
  <2>3. /\ pc' \in [Request -> Places] /\ req' \in [Request -> Arrivals \cup {NoRequest}]
        /\ answer' \in [Request -> Answers] /\ own' \in [Request -> BOOLEAN]
    BY <1>2, <2>1, <2>2
  <2>4. /\ req'[r] = new /\ pc'[r] = "claim" /\ ~own'[r]
        /\ \A q \in Request \ {r} : req'[q] = req[q] /\ pc'[q] = pc[q] /\ own'[q] = own[q]
    BY <1>2, <2>1
  <2>5. QED
    BY <1>1, <1>2, <2>1, <2>2, <2>3, <2>4
<1>7. ASSUME NEW r \in Request, Granted(r) PROVE TypeOK' /\ RequestsArrived'
  <2>1. pc[r] # "idle" /\ Free(r) /\ Take(r) /\ UNCHANGED <<shared, clock, boots, rows>>
    BY <1>7 DEF Granted
  <2>2. held' \in [Stores -> [Key -> 0 .. MaxClock + TTL]] /\ own' = [own EXCEPT ![r] = TRUE]
    BY <2>1, TakeKeepsCovers
  <2>3. /\ own' \in [Request -> BOOLEAN] /\ own'[r]
        /\ \A q \in Request \ {r} : own'[q] = own[q]
    BY <1>2, <2>2
  <2>4. CASE Answer(r, 500)
    BY <1>1, <1>2, <1>3, <2>1, <2>2, <2>3, <2>4
  <2>5. CASE pc' = [pc EXCEPT ![r] = "handler"] /\ UNCHANGED <<answer, req>>
    <3>1. pc' \in [Request -> Places] /\ pc'[r] = "handler"
          /\ \A q \in Request \ {r} : pc'[q] = pc[q]
      BY <1>2, <2>5
    <3>2. QED
      BY <1>1, <1>2, <2>1, <2>2, <2>3, <2>5, <3>1
  <2>6. QED
    BY <1>7, <2>4, <2>5 DEF Granted
<1>8. ASSUME NEW r \in Request, Refused(r) \/ ClaimFails(r) \/ NotCreated(r)
      PROVE  TypeOK' /\ RequestsArrived'
  <2>1. UNCHANGED <<shared, clock, boots, held, own, rows>>
    BY <1>8 DEF Refused, ClaimFails, NotCreated, AfterFailure
  <2>2. \E status \in {200, 400, 409, 500} : Answer(r, status)
    BY <1>8 DEF Refused, ClaimFails, NotCreated
  <2>3. QED
    BY <1>1, <1>2, <1>3, <2>1, <2>2
<1>9. ASSUME NEW r \in Request, ReplyLost(r) PROVE TypeOK' /\ RequestsArrived'
  <2>1. /\ pc[r] # "idle" /\ UNCHANGED <<shared, clock, boots, req, answer, rows>>
        /\ pc' = [pc EXCEPT ![r] = "resend"]
        /\ (Free(r) /\ Take(r)) \/ UNCHANGED <<held, own>>
    BY <1>9 DEF ReplyLost
  <2>2. /\ held' \in [Stores -> [Key -> 0 .. MaxClock + TTL]]
        /\ own' = own \/ own' = [own EXCEPT ![r] = TRUE]
    <3>1. CASE UNCHANGED <<held, own>>
      BY <1>2, <3>1
    <3>2. CASE Free(r) /\ Take(r)
      BY <2>1, <3>2, TakeKeepsCovers
    <3>3. QED
      BY <2>1, <3>1, <3>2
  <2>3. /\ pc' \in [Request -> Places] /\ pc'[r] = "resend"
        /\ \A q \in Request \ {r} : pc'[q] = pc[q]
    BY <1>2, <2>1
  <2>4. own' \in [Request -> BOOLEAN] /\ \A q \in Request \ {r} : own'[q] = own[q]
    <3>1. CASE own' = own
      BY <1>2, <3>1
    <3>2. CASE own' = [own EXCEPT ![r] = TRUE]
      BY <1>2, <3>2
    <3>3. QED
      BY <2>2, <3>1, <3>2
  <2>5. QED
    BY <1>1, <1>2, <2>1, <2>2, <2>3, <2>4
<1>10. ASSUME NEW r \in Request, Created(r) PROVE TypeOK' /\ RequestsArrived'
  <2> DEFINE row == [sent |-> req[r].sent, store |-> Store(r), life |-> Life(req[r].at)]
  <2>1. /\ pc[r] = "handler" /\ UNCHANGED <<shared, clock, boots, own, held>>
        /\ \E status \in {200, 400, 409, 500} : Answer(r, status)
        /\ rows' = [rows EXCEPT ![req[r].key] = Append(@, row)]
    BY <1>10 DEF Created, AfterFailure
  <2>2. row \in Rows /\ req[r].key \in Key
    BY <2>1, StoreOfRequest DEF Rows, Arrivals
  <2> HIDE DEF row
  <2>3. rows' \in [Key -> Seq(Rows)]
    <3>1. Append(rows[req[r].key], row) \in Seq(Rows)
      BY <1>2, <2>2
    <3>2. QED
      BY <1>2, <2>1, <2>2, <3>1
  <2>4. QED
    BY <1>1, <1>2, <1>3, <2>1, <2>3
<1>11. CASE UNCHANGED vars
  BY <1>1, <1>2, <1>11 DEF vars
<1>12. QED
  BY <1>4, <1>5, <1>6, <1>7, <1>8, <1>9, <1>10, <1>11 DEF Next
-----------------------------------------------------------------------------
(***************************************************************************)
(* Rows know when their request was sent.                                  *)
(***************************************************************************)
LEMMA RowsWereSent ==
  ASSUME TypeOK, NEW k \in Key, NEW i \in DOMAIN rows[k]
  PROVE  rows[k][i] \in Rows /\ rows[k][i].sent \in Nat
<1>1. rows[k] \in Seq(Rows) /\ MaxClock \in Nat
  BY CreateOnceAssumption DEF TypeOK
<1>2. rows[k][i] \in Rows
  BY <1>1
<1>3. QED
  BY <1>1, <1>2 DEF Rows

(***************************************************************************)
(* A step that grants nothing and takes no cover away keeps what is known  *)
(* of the grants.                                                          *)
(***************************************************************************)
LEMMA NothingIsGranted ==
  ASSUME TypeOK, RequestsArrived, GrantsInv, UNCHANGED <<shared, boots, rows>>,
         \A s \in Stores, k \in Key, sent \in Nat : Covered(s, k, sent) => Covered(s, k, sent)',
         \A q \in Request : pc'[q] = "handler" => pc[q] = "handler" /\ req'[q] = req[q]
  PROVE  GrantsInv'
<1> USE CreateOnceAssumption DEF GrantsInv
<1>1. /\ Stores' = Stores /\ \A s, k : Current(s, k)' = Current(s, k)
      /\ \A s : LifeOf(s)' = LifeOf(s)
      /\ \A q \in Request : pc'[q] = "handler" => Store(q)' = Store(q)
  BY DEF Stores, Current, LifeOf, Store, StoreOf
<1>2. \A k \in Key : \A i \in DOMAIN rows[k] : rows[k][i].sent \in Nat
  BY RowsWereSent
<1>3. \A q \in Request : pc[q] = "handler" =>
        req[q].sent \in Nat /\ req[q].key \in Key /\ Store(q) \in Stores
  BY StoreOfRequest
<1>4. GrantsAreCovered'
  <2>1. ASSUME NEW q \in Request, pc'[q] = "handler"
        PROVE  Covered(Store(q), req[q].key, req[q].sent)'
    <3>1. Covered(Store(q), req[q].key, req[q].sent)
      BY <2>1 DEF GrantsAreCovered
    <3>2. \A s, k, sent : s = Store(q) /\ k = req[q].key /\ sent = req[q].sent => Covered(s, k, sent)'
      BY <1>3, <2>1, <3>1
    <3>3. QED
      BY <1>1, <2>1, <3>2 DEF Covered
  <2>2. ASSUME NEW k \in Key, NEW s \in Stores, NEW i \in Current(s, k)
        PROVE  Covered(s, k, rows[k][i].sent)'
    <3>1. Covered(s, k, rows[k][i].sent) /\ i \in DOMAIN rows[k]
      BY DEF GrantsAreCovered, Current
    <3>2. Covered(s, k, rows[k][i].sent) => \A sent : sent = rows[k][i].sent => Covered(s, k, sent)'
      BY <1>2, <3>1
    <3>3. QED
      BY <3>1, <3>2 DEF Covered
  <2>3. QED
    BY <1>1, <2>1, <2>2 DEF GrantsAreCovered
<1>5. GrantsAreApart'
  BY <1>1 DEF GrantsAreApart, Apart
<1>6. RetryCreatesOneRow'
  BY DEF RetryCreatesOneRow, Apart
<1>7. QED
  BY <1>4, <1>5, <1>6

(***************************************************************************)
(* A creation that is let through before its deadline comes after every    *)
(* earlier one has lapsed.                                                 *)
(***************************************************************************)
LEMMA GrantedIsApart ==
  ASSUME TypeOK, RequestsArrived, GrantsInv, NEW r \in Request, Granted(r),
         pc' = [pc EXCEPT ![r] = "handler"], UNCHANGED <<answer, req>>, clock <= Deadline(r)
  PROVE  GrantsInv'
<1> USE CreateOnceAssumption DEF GrantsInv
<1>1. /\ UNCHANGED <<shared, clock, boots, rows, req>> /\ pc[r] \in {"claim", "resend"}
      /\ Free(r) /\ Take(r) /\ req[r].sent \in Nat /\ req[r].key \in Key
      /\ held[Store(r)][req[r].key] <= clock /\ clock <= req[r].sent + Timeout
      /\ clock \in Nat /\ Store(r) \in Stores
  BY StoreOfRequest DEF Granted, Free, Deadline, TypeOK
<1>2. /\ \A s \in Stores, k \in Key, sent \in Nat : Covered(s, k, sent) => Covered(s, k, sent)'
      /\ \A s, k, sent : s = Store(r) /\ k = req[r].key /\ sent = req[r].sent
                         => Covered(s, k, sent)'
  BY <1>1, TakeKeepsCovers
<1>3. /\ Stores' = Stores /\ \A s, k : Current(s, k)' = Current(s, k)
      /\ \A s : LifeOf(s)' = LifeOf(s) /\ \A q \in Request : Store(q)' = Store(q)
  BY <1>1 DEF Stores, Current, LifeOf, Store, StoreOf
<1>4. /\ \A q \in Request \ {r} : pc'[q] = pc[q]
      /\ \A q \in Request : pc[q] = "handler" =>
           req[q].sent \in Nat /\ req[q].key \in Key /\ Store(q) \in Stores
      /\ \A k \in Key : \A i \in DOMAIN rows[k] : rows[k][i].sent \in Nat
  <2>1. \A k \in Key : \A i \in DOMAIN rows[k] : rows[k][i].sent \in Nat
    BY RowsWereSent
  <2>2. \A q \in Request \ {r} : pc'[q] = pc[q]
    BY DEF TypeOK
  <2>3. QED
    BY <2>1, <2>2, StoreOfRequest
<1>5. ASSUME NEW sent \in Nat, Covered(Store(r), req[r].key, sent)
      PROVE  \A g : g.sent = sent => Apart(req[r], g) /\ Apart(g, req[r])
  <2>1. sent + TTL <= clock
    BY <1>1, <1>5, StoreOfRequest DEF Covered, TypeOK
  <2>2. sent + TTL <= req[r].sent + Timeout
    BY <1>1, <2>1
  <2>3. QED
    BY <2>2 DEF Apart
<1>6. GrantsAreCovered'
  <2>1. ASSUME NEW q \in Request, pc'[q] = "handler"
        PROVE  Covered(Store(q), req[q].key, req[q].sent)'
    <3>1. \A s, k, sent : s = Store(q) /\ k = req[q].key /\ sent = req[q].sent => Covered(s, k, sent)'
      BY <1>2, <1>4, <2>1 DEF GrantsAreCovered
    <3>2. QED
      BY <1>1, <1>3, <3>1 DEF Covered
  <2>2. ASSUME NEW k \in Key, NEW s \in Stores, NEW i \in Current(s, k)
        PROVE  Covered(s, k, rows[k][i].sent)'
    <3>1. \A sent : sent = rows[k][i].sent => Covered(s, k, sent)'
      BY <1>2, <1>4 DEF GrantsAreCovered, Current
    <3>2. QED
      BY <1>1, <3>1 DEF Covered
  <2>3. QED
    BY <1>1, <1>3, <2>1, <2>2 DEF GrantsAreCovered
<1>7. GrantsAreApart'
  <2>1. ASSUME NEW p \in Request, NEW q \in Request \ {p}, pc'[p] = "handler", pc'[q] = "handler",
               req[q].key = req[p].key, Store(q) = Store(p)
        PROVE  Apart(req[p], req[q])
    <3>1. CASE p = r
      BY <1>4, <1>5, <2>1, <3>1 DEF GrantsAreCovered
    <3>2. CASE q = r
      BY <1>4, <1>5, <2>1, <3>2 DEF GrantsAreCovered
    <3>3. CASE p # r /\ q # r
      BY <1>4, <2>1, <3>3 DEF GrantsAreApart
    <3>4. QED
      BY <3>1, <3>2, <3>3
  <2>2. ASSUME NEW p \in Request, pc'[p] = "handler", NEW i \in Current(Store(p), req[p].key)
        PROVE  Apart(req[p], rows[req[p].key][i])
    <3>1. CASE p = r
      <4>1. Covered(Store(r), req[r].key, rows[req[r].key][i].sent) /\ rows[req[r].key][i].sent \in Nat
        BY <1>1, <1>4, <2>2, <3>1 DEF GrantsAreCovered, Current
      <4>2. QED
        BY <1>5, <3>1, <4>1
    <3>2. CASE p # r
      BY <1>4, <2>2, <3>2 DEF GrantsAreApart
    <3>3. QED
      BY <3>1, <3>2
  <2>3. QED
    BY <1>1, <1>3, <2>1, <2>2 DEF GrantsAreApart, Apart
<1>8. RetryCreatesOneRow'
  BY <1>1 DEF RetryCreatesOneRow, Apart
<1>9. QED
  BY <1>6, <1>7, <1>8

(***************************************************************************)
(* A row that is created is the grant of its request, in another place.    *)
(***************************************************************************)
LEMMA CreatedIsApart ==
  ASSUME TypeOK, RequestsArrived, GrantsInv, NEW r \in Request, Created(r)
  PROVE  GrantsInv'
<1> USE CreateOnceAssumption DEF GrantsInv
<1>0. PICK key, row, n :
        /\ key = req[r].key /\ n = Len(rows[key]) + 1
        /\ row = [sent |-> req[r].sent, store |-> Store(r), life |-> Life(req[r].at)]
  OBVIOUS
<1>1. /\ UNCHANGED <<shared, clock, boots, held, own>> /\ pc[r] = "handler"
      /\ key \in Key /\ req[r].sent \in Nat /\ Store(r) \in Stores
      /\ LifeOf(Store(r)) = Life(req[r].at) /\ Life(req[r].at) \in 1 .. MaxBoots
      /\ rows' = [rows EXCEPT ![key] = Append(@, row)]
  BY <1>0, StoreOfRequest DEF Created, AfterFailure
<1>2. \A q \in Request : pc'[q] = "handler" => q # r /\ pc[q] = "handler" /\ req'[q] = req[q]
  BY <1>1 DEF Created, Answer, TypeOK
<1>3. /\ \A k \in Key \ {key} : rows'[k] = rows[k]
      /\ DOMAIN rows[key] = 1 .. n - 1 /\ n \in Nat /\ n > 0 /\ DOMAIN rows'[key] = 1 .. n
      /\ \A i \in 1 .. n - 1 : rows'[key][i] = rows[key][i]
      /\ rows'[key][n] = row
  <2>1. rows[key] \in Seq(Rows)
    BY <1>1 DEF TypeOK
  <2>2. rows'[key] = Append(rows[key], row) /\ \A k \in Key \ {key} : rows'[k] = rows[k]
    BY <1>1 DEF TypeOK
  <2>3. QED
    BY <1>0, <2>1, <2>2
<1>4. row.sent = req[r].sent /\ row.store = Store(r) /\ row.life = LifeOf(Store(r))
  BY <1>0, <1>1
<1>5. /\ Stores' = Stores /\ \A s : LifeOf(s)' = LifeOf(s)
      /\ \A s, k, sent : Covered(s, k, sent)' = Covered(s, k, sent)
      /\ \A q \in Request : pc'[q] = "handler" => Store(q)' = Store(q)
  BY <1>1, <1>2 DEF Stores, LifeOf, Covered, Store, StoreOf
<1>6. /\ \A s, k : k \in Key \ {key} => Current(s, k)' = Current(s, k)
      /\ \A s : \A i \in Current(s, key)' : (i \in Current(s, key) /\ i # n) \/ (i = n /\ s = Store(r))
  <2>1. \A s, k : k \in Key \ {key} => Current(s, k)' = Current(s, k)
    BY <1>3, <1>5 DEF Current
  <2>2. ASSUME NEW s, NEW i \in 1 .. n, rows'[key][i].store = s, rows'[key][i].life = LifeOf(s)
        PROVE  (i \in Current(s, key) /\ i # n) \/ (i = n /\ s = Store(r))
    BY <1>3, <1>4, <2>2 DEF Current
  <2>3. \A s : Current(s, key)' =
                 {i \in 1 .. n : rows'[key][i].store = s /\ rows'[key][i].life = LifeOf(s)}
    BY <1>3, <1>5 DEF Current
  <2>4. QED
    BY <2>1, <2>2, <2>3
<1>7. GrantsAreCovered'
  <2>1. ASSUME NEW q \in Request, pc'[q] = "handler"
        PROVE  Covered(Store(q), req[q].key, req[q].sent)'
    <3>1. Covered(Store(q), req[q].key, req[q].sent)
      BY <1>2, <2>1 DEF GrantsAreCovered
    <3>2. QED
      BY <1>2, <1>5, <2>1, <3>1
  <2>2. ASSUME NEW k \in Key, NEW i \in DOMAIN rows'[k]
        PROVE  rows'[k][i].life <= LifeOf(rows'[k][i].store)
    <3>1. CASE k = key /\ i = n
      BY <1>1, <1>3, <1>4, <3>1
    <3>2. CASE ~(k = key /\ i = n)
      BY <1>3, <2>2, <3>2 DEF GrantsAreCovered
    <3>3. QED
      BY <3>1, <3>2
  <2>3. ASSUME NEW k \in Key, NEW s \in Stores, NEW i \in Current(s, k)'
        PROVE  Covered(s, k, rows'[k][i].sent)
    <3>1. CASE k # key
      BY <1>3, <1>6, <2>3, <3>1 DEF GrantsAreCovered
    <3>2. CASE k = key /\ i \in Current(s, key) /\ i # n
      BY <1>3, <2>3, <3>2 DEF GrantsAreCovered, Current
    <3>3. CASE k = key /\ i = n /\ s = Store(r)
      BY <1>0, <1>1, <1>3, <1>4, <3>3 DEF GrantsAreCovered
    <3>4. QED
      BY <1>6, <2>3, <3>1, <3>2, <3>3
  <2>4. \A s, k, i : Covered(s, k, rows[k][i].sent)' <=> Covered(s, k, rows'[k][i].sent)
    BY <1>1 DEF Covered
  <2>5. QED
    BY <1>5, <2>1, <2>2, <2>3, <2>4 DEF GrantsAreCovered
<1>8. GrantsAreApart'
  <2>1. ASSUME NEW p \in Request, NEW q \in Request \ {p}, pc'[p] = "handler", pc'[q] = "handler",
               req[q].key = req[p].key, Store(q) = Store(p)
        PROVE  Apart(req[p], req[q])
    BY <1>2, <2>1 DEF GrantsAreApart
  <2>2. ASSUME NEW p \in Request, pc'[p] = "handler",
               NEW k, k = req[p].key, NEW i \in Current(Store(p), k)'
        PROVE  Apart(req[p], rows'[k][i])
    <3>0. k \in Key /\ pc[p] = "handler" /\ p # r
      BY <1>2, <2>2, StoreOfRequest
    <3>1. CASE k # key \/ (i \in Current(Store(p), k) /\ i # n)
      <4>1. i \in Current(Store(p), k) /\ i \in DOMAIN rows[k]
        BY <1>2, <1>5, <1>6, <2>2, <3>0, <3>1 DEF Current
      <4>2. rows'[k][i] = rows[k][i]
        BY <1>3, <3>0, <3>1, <4>1
      <4>3. QED
        BY <2>2, <3>0, <4>1, <4>2 DEF GrantsAreApart
    <3>2. CASE k = key /\ i = n /\ Store(p) = Store(r)
      <4>1. Apart(req[p], req[r])
        BY <1>0, <1>1, <2>2, <3>0, <3>2 DEF GrantsAreApart
      <4>2. QED
        BY <1>3, <1>4, <3>2, <4>1 DEF Apart
    <3>3. QED
      BY <1>2, <1>5, <1>6, <2>2, <3>1, <3>2
  <2>3. QED
    BY <1>2, <1>5, <2>1, <2>2 DEF GrantsAreApart, Apart
<1>9. RetryCreatesOneRow'
  <2>1. ASSUME NEW i \in 1 .. n - 1, rows[key][i].store = row.store, rows[key][i].life = row.life
        PROVE  Apart(rows[key][i], row)
    <3>1. i \in Current(Store(r), key)
      BY <1>3, <1>4, <2>1 DEF Current
    <3>2. Apart(req[r], rows[key][i])
      BY <1>0, <1>1, <3>1 DEF GrantsAreApart
    <3>3. QED
      BY <1>4, <3>2 DEF Apart
  <2>2. ASSUME NEW k \in Key, NEW i \in DOMAIN rows'[k], NEW j \in DOMAIN rows'[k], i < j,
               rows'[k][i].store = rows'[k][j].store, rows'[k][i].life = rows'[k][j].life
        PROVE  Apart(rows'[k][i], rows'[k][j])
    <3>1. CASE k = key /\ j = n
      BY <1>3, <2>1, <2>2, <3>1
    <3>2. CASE ~(k = key /\ j = n)
      BY <1>3, <2>2, <3>2 DEF RetryCreatesOneRow
    <3>3. QED
      BY <3>1, <3>2
  <2>3. QED
    BY <2>2 DEF RetryCreatesOneRow, Apart
<1>10. QED
  BY <1>7, <1>8, <1>9

(***************************************************************************)
(* A replica that restarts takes its requests with it, and what its own    *)
(* store has let through belongs to an earlier life from then on.          *)
(***************************************************************************)
LEMMA RestartForgets ==
  ASSUME TypeOK, RequestsArrived, GrantsInv, NEW rep \in Replica, Restart(rep)
  PROVE  GrantsInv'
<1> USE CreateOnceAssumption DEF GrantsInv
<1>1. /\ UNCHANGED <<shared, clock, own, answer, rows>> /\ Stores' = Stores
      /\ boots[rep] \in Nat /\ boots'[rep] = boots[rep] + 1
      /\ \A s \in Replica \ {rep} : boots'[s] = boots[s]
      /\ \A s \in Stores \ {rep} : held'[s] = held[s]
  BY DEF Restart, TypeOK, Stores
<1>2. \A q \in Request : pc'[q] = "handler" =>
         pc[q] = "handler" /\ req'[q] = req[q] /\ req[q].at # rep
  BY DEF Restart, TypeOK
<1>3. ASSUME NEW s \in Stores, ~shared /\ s = rep
      PROVE  /\ \A q \in Request : pc'[q] = "handler" => Store(q) # s
             /\ \A k \in Key : Current(s, k)' = {}
  <2>1. \A q \in Request : pc'[q] = "handler" => Store(q) # s
    BY <1>2, <1>3 DEF Store, StoreOf
  <2>2. ASSUME NEW k \in Key, NEW i \in DOMAIN rows[k], rows[k][i].store = s
        PROVE  rows[k][i].life # boots[rep] + 1
    <3>1. rows[k][i].life <= boots[rep]
      BY <1>3, <2>2 DEF GrantsAreCovered, LifeOf
    <3>2. rows[k][i].life \in Nat
      BY RowsWereSent DEF Rows
    <3>3. QED
      BY <1>1, <3>1, <3>2
  <2>3. LifeOf(s)' = boots[rep] + 1
    BY <1>1, <1>3 DEF LifeOf
  <2>4. QED
    BY <1>1, <2>1, <2>2, <2>3 DEF Current
<1>4. ASSUME NEW s \in Stores, ~(~shared /\ s = rep)
      PROVE  /\ LifeOf(s)' = LifeOf(s) /\ \A k \in Key : Current(s, k)' = Current(s, k)
             /\ \A k \in Key : \A sent : Covered(s, k, sent)' = Covered(s, k, sent)
  <2>1. held'[s] = held[s]
    BY <1>1, <1>4 DEF Restart
  <2>2. LifeOf(s)' = LifeOf(s)
    BY <1>1, <1>4 DEF LifeOf, Stores
  <2>3. QED
    BY <1>1, <2>1, <2>2 DEF Current, Covered
<1>5. \A q \in Request : pc'[q] = "handler" =>
        Store(q)' = Store(q) /\ Store(q) \in Stores /\ req[q].key \in Key
  BY <1>1, <1>2, StoreOfRequest DEF Store, StoreOf
<1>6. GrantsAreCovered'
  <2>1. ASSUME NEW q \in Request, pc'[q] = "handler"
        PROVE  Covered(Store(q), req[q].key, req[q].sent)'
    <3>1. Covered(Store(q), req[q].key, req[q].sent) /\ ~(~shared /\ Store(q) = rep)
      BY <1>2, <1>3, <1>5, <2>1 DEF GrantsAreCovered
    <3>2. QED
      BY <1>2, <1>4, <1>5, <2>1, <3>1 DEF Covered
  <2>2. ASSUME NEW k \in Key, NEW i \in DOMAIN rows[k]
        PROVE  (rows[k][i].life <= LifeOf(rows[k][i].store))'
    <3>1. rows[k][i].life <= LifeOf(rows[k][i].store) /\ rows[k][i].life \in Nat
      BY RowsWereSent DEF GrantsAreCovered, Rows
    <3>2. rows[k][i].store \in Stores
      BY RowsWereSent DEF Rows
    <3>3. ASSUME NEW s \in Stores
          PROVE  LifeOf(s) \in Nat /\ LifeOf(s)' \in Nat /\ LifeOf(s) <= LifeOf(s)'
      <4>1. CASE shared
        BY <1>1, <4>1 DEF LifeOf
      <4>2. CASE ~shared
        <5>1. s \in Replica /\ boots[s] \in Nat
          BY <4>2 DEF Stores, TypeOK
        <5>2. boots'[s] = boots[s] \/ boots'[s] = boots[s] + 1
          BY <1>1, <5>1
        <5>3. QED
          BY <1>1, <4>2, <5>1, <5>2 DEF LifeOf
      <4>3. QED
        BY <4>1, <4>2
    <3>4. QED
      <4>1. PICK s \in Stores : s = rows[k][i].store
        BY <3>2
      <4>2. rows[k][i].life <= LifeOf(s)'
        BY <3>1, <3>3, <4>1
      <4>3. QED
        BY <1>1, <4>1, <4>2 DEF LifeOf
  <2>3. ASSUME NEW k \in Key, NEW s \in Stores, NEW i \in Current(s, k)'
        PROVE  Covered(s, k, rows[k][i].sent)'
    <3>1. ~(~shared /\ s = rep) /\ i \in Current(s, k)
      BY <1>3, <1>4, <2>3
    <3>2. QED
      BY <1>1, <1>4, <3>1 DEF GrantsAreCovered, Covered
  <2>4. QED
    BY <1>1, <2>1, <2>2, <2>3 DEF GrantsAreCovered
<1>7. GrantsAreApart'
  <2>1. ASSUME NEW q \in Request, pc'[q] = "handler"
        PROVE  Current(Store(q), req[q].key)' = Current(Store(q), req[q].key)
    <3>1. ~(~shared /\ Store(q) = rep)
      BY <1>3, <1>5, <2>1
    <3>2. QED
      BY <1>2, <1>4, <1>5, <2>1, <3>1
  <2>2. QED
    BY <1>1, <1>2, <1>5, <2>1 DEF GrantsAreApart, Apart
<1>8. RetryCreatesOneRow'
  BY <1>1 DEF RetryCreatesOneRow, Apart
<1>9. QED
  BY <1>6, <1>7, <1>8
-----------------------------------------------------------------------------
LEMMA InitCreateOnceInv == Init => CreateOnceInv
<1> SUFFICES ASSUME Init PROVE CreateOnceInv
  OBVIOUS
<1> USE CreateOnceAssumption DEF Init
<1>1. <<>> \in Seq(Rows) /\ DOMAIN <<>> = {}
  OBVIOUS
<1>2. TypeOK
  BY <1>1 DEF TypeOK, Stores
<1>3. RequestsArrived
  BY DEF RequestsArrived
<1>4. GrantsAreCovered /\ GrantsAreApart
  BY <1>1 DEF GrantsAreCovered, GrantsAreApart, Current
<1>5. RetryCreatesOneRow
  BY <1>1 DEF RetryCreatesOneRow
<1>6. QED
  BY <1>2, <1>3, <1>4, <1>5 DEF CreateOnceInv, GrantsInv

LEMMA NextCreateOnceInv == CreateOnceInv /\ [Next]_vars => CreateOnceInv'
<1> SUFFICES ASSUME CreateOnceInv, [Next]_vars PROVE CreateOnceInv'
  OBVIOUS
<1>1. TypeOK /\ RequestsArrived /\ GrantsInv /\ TypeOK' /\ RequestsArrived'
  BY NextTypeOK DEF CreateOnceInv
<1>2. ASSUME UNCHANGED <<shared, boots, held, rows>>, clock' = clock \/ clock' = clock + 1,
             \A q \in Request : pc'[q] = "handler" => pc[q] = "handler" /\ req'[q] = req[q]
      PROVE  GrantsInv'
  <2>1. \A s \in Stores, k \in Key, sent \in Nat : Covered(s, k, sent) => Covered(s, k, sent)'
    BY <1>1, <1>2, CreateOnceAssumption DEF Covered, TypeOK
  <2>2. QED
    BY <1>1, <1>2, <2>1, NothingIsGranted
<1>3. ASSUME NEW r \in Request, NEW status, Answer(r, status)
      PROVE  \A q \in Request : pc'[q] = "handler" => pc[q] = "handler" /\ req'[q] = req[q]
  BY <1>1, <1>3 DEF Answer, TypeOK
<1>4. ASSUME Tick PROVE GrantsInv'
  BY <1>2, <1>4 DEF Tick
<1>5. ASSUME NEW rep \in Replica, Restart(rep) PROVE GrantsInv'
  BY <1>1, <1>5, RestartForgets
<1>6. ASSUME NEW r \in Request, NEW k \in Key, NEW rep \in Replica, Send(r, k, rep)
      PROVE  GrantsInv'
  <2>1. \A q \in Request : pc'[q] = "handler" => pc[q] = "handler" /\ req'[q] = req[q]
    BY <1>1, <1>6 DEF Send, TypeOK
  <2>2. QED
    BY <1>2, <1>6, <2>1 DEF Send
<1>7. ASSUME NEW r \in Request, Granted(r) PROVE GrantsInv'
  <2>1. /\ pc[r] # "idle" /\ Free(r) /\ Take(r) /\ UNCHANGED <<shared, clock, boots, rows>>
        /\ clock \in Nat /\ Deadline(r) \in Nat
    BY <1>1, <1>7, CreateOnceAssumption, StoreOfRequest DEF Granted, TypeOK
  <2>2. CASE clock > Deadline(r)
    <3>1. Answer(r, 500)
      BY <1>7, <2>2 DEF Granted
    <3>2. QED
      BY <1>1, <1>3, <2>1, <3>1, TakeKeepsCovers, NothingIsGranted
  <2>3. CASE clock <= Deadline(r)
    <3>1. pc' = [pc EXCEPT ![r] = "handler"] /\ UNCHANGED <<answer, req>>
      BY <1>7, <2>1, <2>3 DEF Granted
    <3>2. QED
      BY <1>1, <1>7, <2>3, <3>1, GrantedIsApart
  <2>4. QED
    BY <2>1, <2>2, <2>3
<1>8. ASSUME NEW r \in Request, Refused(r) \/ ClaimFails(r) \/ NotCreated(r)
      PROVE  GrantsInv'
  <2>1. UNCHANGED <<shared, clock, boots, held, rows>> /\ \E status : Answer(r, status)
    BY <1>8 DEF Refused, ClaimFails, NotCreated, AfterFailure
  <2>2. QED
    BY <1>2, <1>3, <2>1
<1>9. ASSUME NEW r \in Request, ReplyLost(r) PROVE GrantsInv'
  <2>1. /\ pc[r] # "idle" /\ UNCHANGED <<shared, clock, boots, req, rows>>
        /\ \A q \in Request : pc'[q] = "handler" => pc[q] = "handler"
        /\ (Free(r) /\ Take(r)) \/ UNCHANGED held
    BY <1>1, <1>9 DEF ReplyLost, TypeOK
  <2>2. CASE UNCHANGED held
    BY <1>2, <2>1, <2>2
  <2>3. CASE Free(r) /\ Take(r)
    BY <1>1, <2>1, <2>3, TakeKeepsCovers, NothingIsGranted
  <2>4. QED
    BY <2>1, <2>2, <2>3
<1>10. ASSUME NEW r \in Request, Created(r) PROVE GrantsInv'
  BY <1>1, <1>10, CreatedIsApart
<1>11. ASSUME UNCHANGED vars PROVE GrantsInv'
  BY <1>2, <1>11 DEF vars
<1>12. GrantsInv'
  BY <1>4, <1>5, <1>6, <1>7, <1>8, <1>9, <1>10, <1>11 DEF Next
<1>13. QED
  BY <1>1, <1>12 DEF CreateOnceInv

LEMMA AlwaysCreateOnceInv == Spec => []CreateOnceInv
BY InitCreateOnceInv, NextCreateOnceInv, PTL DEF Spec

(***************************************************************************)
(* A creation that is sent again before it has lapsed creates at most one  *)
(* row, whatever was answered, lost, sent again by go-redis or restarted   *)
(* in between (README, "Duplicate POST requests").                         *)
(***************************************************************************)
THEOREM RepeatedCreationsCreateOneRow == Spec => []RetryCreatesOneRow
<1>1. CreateOnceInv => RetryCreatesOneRow
  BY DEF CreateOnceInv, GrantsInv
<1>2. QED
  BY <1>1, AlwaysCreateOnceInv, PTL

(***************************************************************************)
(* A request that is told of a conflict is a duplicate, or found the key   *)
(* that its own first SETNX took (README, "A duplicate returns 409").      *)
(***************************************************************************)
THEOREM ConflictsAreDuplicates == Spec => ConflictMeansDuplicate
<1> DEFINE Told(r) == answer[r] # 409 /\ answer'[r] = 409
                      => HeldUntil(r) > req[r].sent /\ (own[r] => pc[r] = "resend")
<1>1. ASSUME CreateOnceInv, [Next]_vars, NEW r \in Request PROVE Told(r)
  <2> USE CreateOnceAssumption
  <2>1. TypeOK /\ RequestsArrived
    BY <1>1 DEF CreateOnceInv
  <2>2. SUFFICES ASSUME answer[r] # 409, answer'[r] = 409
                 PROVE  HeldUntil(r) > req[r].sent /\ (own[r] => pc[r] = "resend")
    OBVIOUS
  <2>3. Refused(r)
    <3>1. ASSUME NEW q \in Request, NEW status \in {200, 400, 500}, Answer(q, status)
          PROVE  answer'[r] # 409
      BY <2>1, <2>2, <3>1 DEF Answer, TypeOK
    <3>2. ASSUME NEW q \in Request, Refused(q) PROVE q = r
      BY <2>1, <2>2, <3>2 DEF Refused, Answer, TypeOK
    <3>3. ASSUME NEW q \in Request, NEW k \in Key, NEW rep \in Replica, Send(q, k, rep) PROVE FALSE
      BY <2>1, <2>2, <3>3 DEF Send, TypeOK
    <3>4. ASSUME NEW q \in Request,
                 Granted(q) \/ ReplyLost(q) \/ ClaimFails(q) \/ Created(q) \/ NotCreated(q)
          PROVE  FALSE
      BY <2>2, <3>1, <3>4 DEF Granted, ReplyLost, ClaimFails, Created, NotCreated
    <3>5. ~Tick /\ ~(\E rep \in Replica : Restart(rep)) /\ ~UNCHANGED vars
      BY <2>2 DEF Tick, Restart, vars
    <3>6. QED
      BY <1>1, <3>2, <3>3, <3>4, <3>5 DEF Next
  <2>4. PICK t \in Instants(r) : HeldUntil(r) > t
    BY <2>3 DEF Refused, Taken
  <2>5. t \in req[r].sent .. clock /\ req[r].sent \in Nat /\ HeldUntil(r) \in Nat
    <3>1. pc[r] # "idle"
      BY <2>3 DEF Refused
    <3>2. QED
      BY <2>1, <3>1, StoreOfRequest DEF TypeOK
  <2>6. HeldUntil(r) > req[r].sent
    BY <2>4, <2>5, CreateOnceAssumption DEF TypeOK
  <2>7. own[r] => pc[r] = "resend"
    BY <2>1, <2>3 DEF Refused, RequestsArrived
  <2>8. QED
    BY <2>6, <2>7
<1>2. CreateOnceInv /\ [Next]_vars => [\A r \in Request : Told(r)]_vars
  BY <1>1
<1>3. QED
  BY <1>2, AlwaysCreateOnceInv, PTL DEF Spec, ConflictMeansDuplicate
=============================================================================
