------------------------- MODULE MemoryStore_proofs -------------------------
(***************************************************************************)
(* Machine-checked proofs about the in-process idempotency store, for any  *)
(* number of goroutines, any keys, any time-to-live values and any length  *)
(* of run.  The inductive invariant is IInv of module MemoryStore.         *)
(***************************************************************************)
EXTENDS MemoryStore, TLAPS

(***************************************************************************)
(* The smaller of two durations (the min of store.go:45) is positive and   *)
(* no longer than either of them.                                          *)
(***************************************************************************)
LEMMA SmallerBounds ==
  ASSUME NEW a \in Nat \ {0}, NEW b \in Nat \ {0}
  PROVE  Smaller(a, b) \in Nat /\ Smaller(a, b) > 0 /\ Smaller(a, b) <= b
BY DEF Smaller

(***************************************************************************)
(* Facts about a call in progress that every step below needs.             *)
(***************************************************************************)
LEMMA CallFacts ==
  ASSUME TypeOK, CallsRead, NEW c \in Caller, pc[c] # "out"
  PROVE  /\ call[c] \in Request
         /\ call[c].key \in Key
         /\ call[c].ttl \in Nat \ {0}
         /\ call[c].since \in Nat
         /\ call[c].since <= clock
<1>1. call[c] # NoCall
  BY DEF CallsRead
<1>2. call[c] \in Request
  BY <1>1 DEF TypeOK
<1>3. QED
  BY <1>1, <1>2, MemoryStoreAssumption DEF Request, CallsRead

(***************************************************************************)
(* The initial state satisfies the inductive invariant.                    *)
(***************************************************************************)
LEMMA InitIInv == Init => IInv
<1> SUFFICES ASSUME Init PROVE IInv
  OBVIOUS
<1> USE MemoryStoreAssumption DEF Init
<1>1. TypeOK
  BY DEF TypeOK, Outcomes, Grants, NoGrant, Absent, ZeroTime
<1>2. MutexHeld /\ CallsRead /\ KeyStaysFree
  BY DEF MutexHeld, InCriticalSection, CallsRead, KeyStaysFree
<1>3. MapMatchesGrants /\ ScheduleBounds
  BY DEF MapMatchesGrants, ScheduleBounds, Absent, ZeroTime, NoGrant, Until
<1>4. QED
  BY <1>1, <1>2, <1>3 DEF IInv

(***************************************************************************)
(* Every step keeps the inductive invariant.                               *)
(***************************************************************************)
LEMMA NextIInv == IInv /\ [Next]_vars => IInv'
<1> SUFFICES ASSUME IInv, [Next]_vars PROVE IInv'
  OBVIOUS
<1> USE MemoryStoreAssumption DEF IInv
<1>1. CASE Tick
  <2>1. TypeOK'
    BY <1>1 DEF Tick, TypeOK
  <2>2. (MutexHeld /\ KeyStaysFree)'
    BY <1>1 DEF Tick, MutexHeld, InCriticalSection, KeyStaysFree, Live
  <2>3. CallsRead'
    BY <1>1, CallFacts DEF Tick, CallsRead, TypeOK
  <2>4. MapMatchesGrants'
    BY <1>1 DEF Tick, MapMatchesGrants, TypeOK, Until, Grants
  <2>5. ScheduleBounds'
    BY <1>1 DEF Tick, ScheduleBounds, TypeOK
  <2>6. QED
    BY <2>1, <2>2, <2>3, <2>4, <2>5
<1>2. ASSUME NEW c \in Caller, Reject(c) PROVE IInv'
  <2>1. TypeOK'
    BY <1>2 DEF Reject, TypeOK, Outcomes
  <2>2. (MutexHeld /\ CallsRead /\ KeyStaysFree)'
    BY <1>2 DEF Reject, MutexHeld, InCriticalSection, CallsRead, KeyStaysFree, Live
  <2>3. (MapMatchesGrants /\ ScheduleBounds)'
    BY <1>2 DEF Reject, MapMatchesGrants, ScheduleBounds
  <2>4. QED
    BY <2>1, <2>2, <2>3
<1>3. ASSUME NEW c \in Caller, NEW k \in Key, NEW ttl \in TTL, Enter(c, k, ttl)
      PROVE  IInv'
  <2>1. TypeOK'
    BY <1>3 DEF Enter, TypeOK, Outcomes, Request
  <2>2. MutexHeld'
    BY <1>3 DEF Enter, MutexHeld, InCriticalSection, TypeOK
  <2>3. CallsRead'
    BY <1>3 DEF Enter, CallsRead, TypeOK, Request
  <2>4. KeyStaysFree'
    BY <1>3 DEF Enter, KeyStaysFree, Live, TypeOK
  <2>5. (MapMatchesGrants /\ ScheduleBounds)'
    BY <1>3 DEF Enter, MapMatchesGrants, ScheduleBounds, TypeOK
  <2>6. QED
    BY <2>1, <2>2, <2>3, <2>4, <2>5
<1>4. ASSUME NEW c \in Caller, Lock(c) PROVE IInv'
  <2>1. TypeOK'
    BY <1>4 DEF Lock, TypeOK
  <2>2. MutexHeld'
    BY <1>4 DEF Lock, MutexFree, MutexHeld, InCriticalSection, TypeOK
  <2>3. (CallsRead /\ KeyStaysFree)'
    BY <1>4 DEF Lock, CallsRead, KeyStaysFree, Live, TypeOK
  <2>4. (MapMatchesGrants /\ ScheduleBounds)'
    BY <1>4 DEF Lock, MapMatchesGrants, ScheduleBounds, TypeOK
  <2>5. QED
    BY <2>1, <2>2, <2>3, <2>4
<1>5. ASSUME NEW c \in Caller, Sweep(c) PROVE IInv'
  <2>1. pc[c] = "locked" /\ mu = c
    BY <1>5 DEF Sweep, MutexHeld, InCriticalSection
  <2>2. /\ call[c].since \in Nat
        /\ call[c].ttl \in Nat \ {0}
        /\ call[c].since <= clock
    BY <2>1, CallFacts
  <2> DEFINE gap == Smaller(call[c].ttl, CleanupPeriod)
  <2>3. gap \in Nat /\ gap > 0 /\ gap <= CleanupPeriod
    BY <2>2, SmallerBounds
  <2> HIDE DEF gap
  <2>4. \/ /\ Due(call[c].since)
           /\ expiredAt' = [k \in Key |-> IF Lapsed(c, k) THEN Absent ELSE expiredAt[k]]
           /\ nextCleanup' = call[c].since + gap
        \/ /\ ~Due(call[c].since)
           /\ UNCHANGED <<expiredAt, nextCleanup>>
    BY <1>5 DEF Sweep, Remaining, gap
  <2>5. TypeOK'
    BY <1>5, <2>2, <2>3, <2>4 DEF Sweep, TypeOK, Absent
  <2>6. (MutexHeld /\ CallsRead)'
    BY <1>5, <2>1 DEF Sweep, MutexHeld, InCriticalSection, CallsRead, TypeOK
  <2>7. KeyStaysFree'
    <3>1. \A d \in Caller : pc'[d] # "granting"
      BY <1>5, <2>1 DEF Sweep, MutexHeld, InCriticalSection, TypeOK
    <3>2. QED
      BY <3>1 DEF KeyStaysFree
  <2>8. MapMatchesGrants'
    <3>1. ASSUME NEW k \in Key
          PROVE  \/ expiredAt'[k] = expiredAt[k]
                 \/ expiredAt'[k] = Absent /\ expiredAt[k] <= call[c].since
      BY <2>4, <2>2 DEF Lapsed, TypeOK
    <3>2. QED
      BY <1>5, <3>1, <2>2 DEF Sweep, MapMatchesGrants, TypeOK, Until, Grants, Absent
  <2>9. ScheduleBounds'
    <3>1. (nextCleanup <= clock + CleanupPeriod)'
      BY <1>5, <2>2, <2>3, <2>4 DEF Sweep, ScheduleBounds, TypeOK
    <3>2. ASSUME NEW d \in Caller, pc'[d] \in {"swept", "granting"}
          PROVE  call'[d].since < nextCleanup'
      <4>1. d = c
        BY <1>5, <2>1, <3>2 DEF Sweep, MutexHeld, InCriticalSection, TypeOK
      <4>2. QED
        BY <1>5, <4>1, <2>2, <2>3, <2>4 DEF Sweep, Due, TypeOK
    <3>3. ASSUME NEW k \in Key, expiredAt'[k] # Absent
          PROVE  \/ nextCleanup' <= expiredAt'[k] + CleanupPeriod
                 \/ nextCleanup' <= last'[k].at + CleanupPeriod
      <4>1. CASE Due(call[c].since)
        BY <4>1, <3>3, <2>2, <2>3, <2>4 DEF Lapsed, TypeOK
      <4>2. CASE ~Due(call[c].since)
        BY <1>5, <4>2, <3>3, <2>4 DEF Sweep, ScheduleBounds
      <4>3. QED
        BY <4>1, <4>2
    <3>4. QED
      BY <3>1, <3>2, <3>3 DEF ScheduleBounds
  <2>10. QED
    BY <2>5, <2>6, <2>7, <2>8, <2>9
<1>6. ASSUME NEW c \in Caller, Admit(c) PROVE IInv'
  <2>1. TypeOK'
    BY <1>6 DEF Admit, TypeOK
  <2>2. (MutexHeld /\ CallsRead)'
    BY <1>6 DEF Admit, MutexHeld, InCriticalSection, CallsRead, TypeOK
  <2>3. KeyStaysFree'
    BY <1>6 DEF Admit, KeyStaysFree, Live, TypeOK
  <2>4. (MapMatchesGrants /\ ScheduleBounds)'
    BY <1>6 DEF Admit, MapMatchesGrants, ScheduleBounds, TypeOK
  <2>5. QED
    BY <2>1, <2>2, <2>3, <2>4
<1>7. ASSUME NEW c \in Caller, Refuse(c) PROVE IInv'
  <2>1. TypeOK'
    BY <1>7 DEF Refuse, Return, Unlock, TypeOK, Outcomes
  <2>2. mu = c
    BY <1>7 DEF Refuse, Return, Unlock, MutexHeld, InCriticalSection
  <2>3. MutexHeld'
    BY <1>7, <2>2 DEF Refuse, Return, Unlock, MutexHeld, InCriticalSection, TypeOK
  <2>4. (CallsRead /\ KeyStaysFree)'
    BY <1>7 DEF Refuse, Return, Unlock, CallsRead, KeyStaysFree, Live, TypeOK
  <2>5. (MapMatchesGrants /\ ScheduleBounds)'
    BY <1>7 DEF Refuse, Return, Unlock, MapMatchesGrants, ScheduleBounds, TypeOK
  <2>6. QED
    BY <2>1, <2>3, <2>4, <2>5
<1>8. ASSUME NEW c \in Caller, Grant(c) PROVE IInv'
  <2>1. pc[c] = "granting" /\ mu = c
    BY <1>8 DEF Grant, Return, Unlock, Expiry, MutexHeld, InCriticalSection
  <2>2. /\ call[c].key \in Key
        /\ call[c].ttl \in Nat \ {0}
        /\ call[c].since \in Nat
        /\ call[c].since <= clock
    BY <2>1, CallFacts
  <2>3. TypeOK'
    BY <1>8, <2>2 DEF Grant, Return, Unlock, Expiry, TypeOK, Outcomes, Grants
  <2>4. MutexHeld'
    BY <1>8, <2>1 DEF Grant, Return, Unlock, Expiry, MutexHeld, InCriticalSection, TypeOK
  <2>5. CallsRead'
    BY <1>8 DEF Grant, Return, Unlock, Expiry, CallsRead, TypeOK
  <2>6. KeyStaysFree'
    BY <1>8, <2>1 DEF Grant, Return, Unlock, Expiry, KeyStaysFree, MutexHeld, InCriticalSection, TypeOK
  <2>7. MapMatchesGrants'
    BY <1>8, <2>2 DEF Grant, Return, Unlock, Expiry, MapMatchesGrants, TypeOK, Until, Grants
  <2>8. ScheduleBounds'
    BY <1>8, <2>2 DEF Grant, Return, Unlock, Expiry, ScheduleBounds, TypeOK
  <2>9. QED
    BY <2>3, <2>4, <2>5, <2>6, <2>7, <2>8
<1>9. CASE UNCHANGED vars
  <2>1. (TypeOK /\ MutexHeld /\ CallsRead)'
    BY <1>9 DEF vars, TypeOK, MutexHeld, InCriticalSection, CallsRead
  <2>2. (KeyStaysFree /\ MapMatchesGrants /\ ScheduleBounds)'
    BY <1>9 DEF vars, KeyStaysFree, Live, MapMatchesGrants, ScheduleBounds
  <2>3. QED
    BY <2>1, <2>2
<1>10. QED
  BY <1>1, <1>2, <1>3, <1>4, <1>5, <1>6, <1>7, <1>8, <1>9 DEF Next, Inside

(***************************************************************************)
(* The inductive invariant holds in every reachable state.                 *)
(***************************************************************************)
THEOREM Invariance == Spec => []IInv
BY InitIInv, NextIInv, PTL DEF Spec

(***************************************************************************)
(* Type correctness of the store and of its callers' local variables.      *)
(***************************************************************************)
THEOREM TypeCorrect == Spec => []TypeOK
<1>1. IInv => TypeOK
  BY DEF IInv
<1>2. QED
  BY Invariance, <1>1, PTL

(***************************************************************************)
(* No path through Claim keeps the mutex, and nobody is inside without it  *)
(* (store.go:37-38), for any number of goroutines.                         *)
(***************************************************************************)
THEOREM MutexIsGivenBack == Spec => []MutexHeld
<1>1. IInv => MutexHeld
  BY DEF IInv
<1>2. QED
  BY Invariance, <1>1, PTL

(***************************************************************************)
(* A grant that has not lapsed is in the map with its own expiry           *)
(* (store.go:39-52), for any number of goroutines.                         *)
(***************************************************************************)
THEOREM LiveGrantsAreKept == Spec => []LiveGrantsKept
<1>1. IInv => LiveGrantsKept
  BY DEF IInv, MapMatchesGrants, LiveGrantsKept, TypeOK, Until, Grants
<1>2. QED
  BY Invariance, <1>1, PTL

(***************************************************************************)
(* Past the clean-up step no entry has outlived its use by CleanupPeriod   *)
(* (store.go:39-47): the map's size is bounded by the recent traffic.      *)
(***************************************************************************)
THEOREM NothingLingersInMap == Spec => []NothingLingers
<1>1. ASSUME IInv PROVE NothingLingers
  <2>1. ASSUME NEW c \in Caller, NEW k \in Key,
               pc[c] \in {"swept", "granting"},
               expiredAt[k] # Absent,
               last[k].at + CleanupPeriod <= call[c].since
        PROVE  call[c].since < expiredAt[k] + CleanupPeriod
    <3>1. call[c].since \in Nat
      BY <1>1, <2>1, CallFacts DEF IInv
    <3>2. /\ call[c].since < nextCleanup
          /\ \/ nextCleanup <= expiredAt[k] + CleanupPeriod
             \/ nextCleanup <= last[k].at + CleanupPeriod
      BY <1>1, <2>1 DEF IInv, ScheduleBounds
    <3>3. QED
      BY <1>1, <2>1, <3>1, <3>2, MemoryStoreAssumption DEF IInv, TypeOK, Grants
  <2>2. QED
    BY <2>1 DEF NothingLingers
<1>2. QED
  BY Invariance, <1>1, PTL

(***************************************************************************)
(* A step that grants a key finds the key's previous grant lapsed.         *)
(***************************************************************************)
LEMMA GrantAfterExpiry ==
  ASSUME IInv, NEW c \in Caller, Grant(c)
  PROVE  /\ expiredAt[call[c].key] <= call[c].since
         /\ Until(last[call[c].key]) <= clock
<1>1. pc[c] = "granting" /\ ~Live(c)
  BY DEF Grant, Return, Unlock, Expiry, IInv, KeyStaysFree
<1>2. call[c].key \in Key /\ call[c].since \in Nat /\ call[c].since <= clock
  BY <1>1, CallFacts DEF IInv
<1>3. expiredAt[call[c].key] <= call[c].since
  BY <1>1, <1>2 DEF Live, IInv, TypeOK, Absent
<1>4. QED
  BY <1>2, <1>3 DEF IInv, MapMatchesGrants, TypeOK, Until, Grants

(***************************************************************************)
(* No goroutine is granted a key before its previous grant has lapsed      *)
(* (store.go:48-52), although each one works with an instant it read       *)
(* before it waited for the mutex.                                         *)
(***************************************************************************)
THEOREM NoKeyIsReclaimedEarly == Spec => NoEarlyReclaim
<1>1. ASSUME IInv, [Next]_vars
      PROVE  [\A k \in Key : last'[k] # last[k] => clock >= Until(last[k])]_vars
  <2>1. ASSUME NEW c \in Caller, Grant(c), NEW k \in Key, last'[k] # last[k]
        PROVE  clock >= Until(last[k])
    <3>1. k = call[c].key
      BY <1>1, <2>1 DEF Grant, Return, Unlock, Expiry, IInv, TypeOK
    <3>2. QED
      BY <1>1, <2>1, <3>1, GrantAfterExpiry DEF IInv, TypeOK, Until, Grants
  <2>2. ASSUME NEW c \in Caller,
               \/ Reject(c)
               \/ \E k \in Key, ttl \in TTL : Enter(c, k, ttl)
               \/ Lock(c) \/ Sweep(c) \/ Admit(c) \/ Refuse(c)
        PROVE  UNCHANGED last
    BY <2>2 DEF Reject, Enter, Lock, Sweep, Admit, Refuse
  <2>3. CASE Tick
    BY <2>3 DEF Tick
  <2>4. QED
    BY <1>1, <2>1, <2>2, <2>3 DEF Next, Inside, vars
<1>2. QED
  BY Invariance, <1>1, PTL DEF Spec, NoEarlyReclaim

(***************************************************************************)
(* The clean-up schedule only moves forward (store.go:39,46).              *)
(***************************************************************************)
THEOREM ScheduleOnlyAdvances == Spec => ScheduleAdvances
<1>1. ASSUME IInv, [Next]_vars PROVE [nextCleanup' >= nextCleanup]_vars
  <2>1. ASSUME NEW c \in Caller, Sweep(c) PROVE nextCleanup' >= nextCleanup
    <3>1. pc[c] # "out"
      BY <2>1 DEF Sweep
    <3>2. call[c].since \in Nat /\ call[c].ttl \in Nat \ {0}
      BY <1>1, <3>1, CallFacts DEF IInv
    <3>3. Smaller(call[c].ttl, CleanupPeriod) \in Nat
      BY <3>2, SmallerBounds, MemoryStoreAssumption
    <3>4. QED
      BY <1>1, <2>1, <3>2, <3>3 DEF Sweep, Due, ZeroTime, IInv, TypeOK
  <2>2. ASSUME NEW c \in Caller,
               \/ Reject(c)
               \/ \E k \in Key, ttl \in TTL : Enter(c, k, ttl)
               \/ Lock(c) \/ Admit(c) \/ Refuse(c) \/ Grant(c)
        PROVE  UNCHANGED nextCleanup
    BY <2>2 DEF Reject, Enter, Lock, Admit, Refuse, Grant
  <2>3. CASE Tick
    BY <1>1, <2>3 DEF Tick, IInv, TypeOK
  <2>4. QED
    BY <1>1, <2>1, <2>2, <2>3 DEF Next, Inside, vars, IInv, TypeOK
<1>2. QED
  BY Invariance, <1>1, PTL DEF Spec, ScheduleAdvances

(***************************************************************************)
(* Each step of the store is a step of the abstract store or leaves it     *)
(* unchanged: entering is Invoke, the clean-up is Forget, the two returns  *)
(* are Grant and Refuse, an error is Fail, the mutex is invisible.         *)
(***************************************************************************)
LEMMA StepRefines == IInv /\ [Next]_vars => [Abstract!Next]_(Abstract!vars)
<1> SUFFICES ASSUME IInv, [Next]_vars PROVE [Abstract!Next]_(Abstract!vars)
  OBVIOUS
<1> USE MemoryStoreAssumption DEF IInv
<1>1. CASE Tick
  <2>1. Abstract!Tick
    BY <1>1 DEF Tick, Abstract!Tick
  <2>2. QED
    BY <2>1 DEF Abstract!Next
<1>2. ASSUME NEW c \in Caller, Reject(c) PROVE Abstract!Next
  <2>1. Abstract!Fail(c)
    BY <1>2 DEF Reject, Abstract!Fail, CallsRead
  <2>2. QED
    BY <2>1 DEF Abstract!Next
<1>3. ASSUME NEW c \in Caller, NEW k \in Key, NEW ttl \in TTL, Enter(c, k, ttl)
      PROVE  Abstract!Next
  <2>1. Abstract!Invoke(c, k, ttl)
    BY <1>3 DEF Enter, Abstract!Invoke, CallsRead
  <2>2. QED
    BY <2>1 DEF Abstract!Next
<1>4. ASSUME NEW c \in Caller, Lock(c) \/ Admit(c) PROVE UNCHANGED Abstract!vars
  BY <1>4 DEF Lock, Admit, Abstract!vars
<1>5. ASSUME NEW c \in Caller, Sweep(c) PROVE Abstract!Forget \/ UNCHANGED Abstract!vars
  <2>1. CASE ~Due(call[c].since)
    BY <1>5, <2>1 DEF Sweep, Abstract!vars
  <2>2. CASE Due(call[c].since)
    <3> DEFINE lapsed == {k \in Key : Lapsed(c, k)}
    <3>1. call[c].since \in Nat /\ call[c].since <= clock
      BY <1>5, CallFacts DEF Sweep
    <3>2. lapsed \in SUBSET {k \in Key : expiredAt[k] <= clock}
      BY <3>1 DEF Lapsed, TypeOK
    <3>3. expiredAt' = [k \in Key |-> IF k \in lapsed THEN 0 ELSE expiredAt[k]]
      BY <1>5, <2>2 DEF Sweep, Remaining, Absent
    <3>4. UNCHANGED <<clock, call, outcome>>
      BY <1>5 DEF Sweep
    <3>5. QED
      BY <3>2, <3>3, <3>4 DEF Abstract!Forget
  <2>3. QED
    BY <2>1, <2>2
<1>6. ASSUME NEW c \in Caller, Refuse(c) PROVE Abstract!Next
  <2>1. call[c] # NoCall /\ expiredAt[call[c].key] > call[c].since
    BY <1>6, CallFacts DEF Refuse, Return, Unlock, Live, CallsRead, TypeOK
  <2>2. Abstract!Refuse(c)
    BY <1>6, <2>1 DEF Refuse, Return, Unlock, Abstract!Refuse
  <2>3. QED
    BY <2>2 DEF Abstract!Next
<1>7. ASSUME NEW c \in Caller, Grant(c) PROVE Abstract!Next
  <2>1. /\ call[c] # NoCall
        /\ call[c].since \in Nat
        /\ call[c].since <= clock
        /\ call[c].key \in Key
    BY <1>7, CallFacts DEF Grant, Return, Unlock, Expiry, CallsRead
  <2>2. expiredAt[call[c].key] <= clock
    BY <1>7, <2>1, GrantAfterExpiry DEF TypeOK
  <2>3. \E from \in call[c].since .. clock :
           expiredAt' = [expiredAt EXCEPT ![call[c].key] = from + call[c].ttl]
    <3>1. call[c].since \in call[c].since .. clock
      BY <2>1 DEF TypeOK
    <3>2. expiredAt' = [expiredAt EXCEPT ![call[c].key] = call[c].since + call[c].ttl]
      BY <1>7 DEF Grant, Return, Unlock, Expiry
    <3>3. QED
      BY <3>1, <3>2
  <2>4. Abstract!Grant(c)
    BY <1>7, <2>1, <2>2, <2>3 DEF Grant, Return, Unlock, Expiry, Abstract!Grant
  <2>5. QED
    BY <2>4 DEF Abstract!Next
<1>8. CASE UNCHANGED vars
  BY <1>8 DEF vars, Abstract!vars
<1>9. QED
  BY <1>1, <1>2, <1>3, <1>4, <1>5, <1>6, <1>7, <1>8 DEF Next, Inside, Abstract!Next

(***************************************************************************)
(* The in-process store implements the abstract store.                     *)
(***************************************************************************)
THEOREM StoreImplementsClaims == Spec => ImplementsClaims
<1>1. Init => Abstract!Init
  BY DEF Init, Abstract!Init, Absent
<1>2. QED
  BY Invariance, StepRefines, <1>1, PTL DEF Spec, ImplementsClaims, Abstract!Spec
=============================================================================
