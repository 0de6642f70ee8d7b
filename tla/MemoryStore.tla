---------------------------- MODULE MemoryStore ----------------------------
(***************************************************************************)
(* The in-process idempotency store: MemoryStore.Claim of                  *)
(* internal/common/idempotency/store.go, one action per step that another  *)
(* goroutine can interleave with.  A call reads the clock BEFORE it waits  *)
(* for the mutex, so the instant it works with may be long past when it    *)
(* enters the critical section.                                            *)
(***************************************************************************)
EXTENDS Integers

CONSTANTS Caller,         \* the goroutines that call Claim
          Key,            \* the non-empty idempotency keys
          TTL,            \* the positive time-to-live values callers pass
          CleanupPeriod,  \* time.Minute, the longest time between two clean-ups
          MaxClock,       \* bound on the clock
          Nobody,         \* the holder of the free mutex
          NoCall          \* the argument record of a caller outside Claim

\* The arguments of a call and the instant it read the clock.
Request == [key : Key, ttl : TTL, since : Nat]

ASSUME MemoryStoreAssumption ==
  /\ TTL \subseteq Nat \ {0}
  /\ CleanupPeriod \in Nat \ {0}
  /\ MaxClock \in Nat
  /\ Nobody \notin Caller
  /\ NoCall \notin Request

VARIABLES clock,        \* real time, which time.Now reads
          mu,           \* the goroutine that holds the mutex, or Nobody
          expiredAt,    \* the map: expiredAt[k] = Absent when k is not in it
          nextCleanup,  \* the instant of the next clean-up, ZeroTime at first
          pc,           \* where each goroutine is in Claim
          call,         \* its arguments and the instant it read, or NoCall
          outcome,      \* what its last call returned
          last          \* history: the latest grant of each key

vars == <<clock, mu, expiredAt, nextCleanup, pc, call, outcome, last>>

\* time.Time{} is before every instant the clock shows, and so is a missing entry.
ZeroTime == 0
Absent   == 0

Smaller(a, b) == IF a <= b THEN a ELSE b

Outcomes == {"none", "granted", "refused", "error"}
\* stamp: the instant the grant was computed from; at: the instant it was made.
Grants   == [stamp : Nat, at : Nat, ttl : Nat]
NoGrant  == [stamp |-> 0, at |-> 0, ttl |-> 0]
Until(g) == g.stamp + g.ttl

TypeOK ==
  /\ clock \in Nat
  /\ mu \in Caller \cup {Nobody}
  /\ expiredAt \in [Key -> Nat]
  /\ nextCleanup \in Nat
  /\ pc \in [Caller -> {"out", "waiting", "locked", "swept", "granting"}]
  /\ call \in [Caller -> Request \cup {NoCall}]
  /\ outcome \in [Caller -> Outcomes]
  /\ last \in [Key -> Grants]

Init ==
  /\ clock = 0
  /\ mu = Nobody
  /\ expiredAt = [k \in Key |-> Absent]
  /\ nextCleanup = ZeroTime
  /\ pc = [c \in Caller |-> "out"]
  /\ call = [c \in Caller |-> NoCall]
  /\ outcome = [c \in Caller |-> "none"]
  /\ last = [k \in Key |-> NoGrant]
-----------------------------------------------------------------------------
Tick ==
  /\ clock < MaxClock
  /\ clock' = clock + 1
  /\ UNCHANGED <<mu, expiredAt, nextCleanup, pc, call, outcome, last>>

\* A context that is done, an empty key or a ttl <= 0: an error, nothing touched.
Reject(c) ==
  /\ pc[c] = "out"
  /\ outcome' = [outcome EXCEPT ![c] = "error"]
  /\ UNCHANGED <<clock, mu, expiredAt, nextCleanup, pc, call, last>>

\* The checks pass and the goroutine reads the clock.
Enter(c, k, ttl) ==
  /\ pc[c] = "out"
  /\ pc' = [pc EXCEPT ![c] = "waiting"]
  /\ call' = [call EXCEPT ![c] = [key |-> k, ttl |-> ttl, since |-> clock]]
  /\ outcome' = [outcome EXCEPT ![c] = "none"]
  /\ UNCHANGED <<clock, mu, expiredAt, nextCleanup, last>>

MutexFree == mu = Nobody

Lock(c) ==
  /\ pc[c] = "waiting"
  /\ MutexFree
  /\ mu' = c
  /\ pc' = [pc EXCEPT ![c] = "locked"]
  /\ UNCHANGED <<clock, expiredAt, nextCleanup, call, outcome, last>>

\* Broken variant: the early return leaves the mutex locked.
Unlock_Forgotten == UNCHANGED mu
Unlock == mu' = Nobody

Due(now) == nextCleanup = ZeroTime \/ now >= nextCleanup

\* Broken variant: an entry that would lapse within the caller's ttl goes too.
Lapsed_TooSoon(c, k) == call[c].since + call[c].ttl >= expiredAt[k]
Lapsed(c, k) == call[c].since >= expiredAt[k]

\* Broken variant: the clean-up deletes nothing.
Remaining_All(c) == expiredAt
Remaining(c) == [k \in Key |-> IF Lapsed(c, k) THEN Absent ELSE expiredAt[k]]

\* When a clean-up is due, every lapsed entry goes and the next one is scheduled.
Sweep(c) ==
  /\ pc[c] = "locked"
  /\ IF Due(call[c].since)
     THEN /\ expiredAt' = Remaining(c)
          /\ nextCleanup' = call[c].since + Smaller(call[c].ttl, CleanupPeriod)
     ELSE UNCHANGED <<expiredAt, nextCleanup>>
  /\ pc' = [pc EXCEPT ![c] = "swept"]
  /\ UNCHANGED <<clock, mu, call, outcome, last>>

\* Broken variant: a claim is still held at the instant it expires.
Live_AtExpiry(c) == /\ expiredAt[call[c].key] # Absent
                    /\ call[c].since <= expiredAt[call[c].key]
Live(c) == /\ expiredAt[call[c].key] # Absent
           /\ call[c].since < expiredAt[call[c].key]

\* The key is free: the entry is written by the next step.
Admit(c) ==
  /\ pc[c] = "swept"
  /\ ~Live(c)
  /\ pc' = [pc EXCEPT ![c] = "granting"]
  /\ UNCHANGED <<clock, mu, expiredAt, nextCleanup, call, outcome, last>>

\* Leave Claim with a result.
Return(c, result) ==
  /\ outcome' = [outcome EXCEPT ![c] = result]
  /\ pc' = [pc EXCEPT ![c] = "out"]
  /\ call' = [call EXCEPT ![c] = NoCall]
  /\ Unlock

\* The key is held: return false, which releases the mutex (deferred Unlock).
Refuse(c) ==
  /\ pc[c] = "swept"
  /\ Live(c)
  /\ Return(c, "refused")
  /\ UNCHANGED <<clock, expiredAt, nextCleanup, last>>

Expiry(c) == call[c].since + call[c].ttl

\* Record the claim and return true, which releases the mutex.
Grant(c) ==
  /\ pc[c] = "granting"
  /\ expiredAt' = [expiredAt EXCEPT ![call[c].key] = Expiry(c)]
  /\ last' = [last EXCEPT ![call[c].key] =
                [stamp |-> call[c].since, at |-> clock, ttl |-> call[c].ttl]]
  /\ Return(c, "granted")
  /\ UNCHANGED <<clock, nextCleanup>>
-----------------------------------------------------------------------------
Inside(c) == Lock(c) \/ Sweep(c) \/ Admit(c) \/ Refuse(c) \/ Grant(c)

Next ==
  \/ Tick
  \/ \E c \in Caller :
        \/ Reject(c)
        \/ \E k \in Key, ttl \in TTL : Enter(c, k, ttl)
        \/ Inside(c)

Spec == Init /\ [][Next]_vars

-----------------------------------------------------------------------------
InCriticalSection(c) == pc[c] \in {"locked", "swept", "granting"}

(***************************************************************************)
(* The mutex is held exactly while a goroutine is between store.go:37 and  *)
(* 52: no return of Claim keeps it, which would stop every later request   *)
(* with a key, and nobody is inside without it.                            *)
(***************************************************************************)
MutexHeld == \A c \in Caller : InCriticalSection(c) <=> mu = c

(***************************************************************************)
(* No early reclaim (store.go:48-52): a key is never granted before the    *)
(* expiry instant of its previous grant, however late the goroutines that  *)
(* clean up, look up and insert get the mutex after they read the clock.   *)
(***************************************************************************)
NoEarlyReclaim ==
  [][\A k \in Key : last'[k] # last[k] => clock >= Until(last[k])]_vars

(***************************************************************************)
(* The same fact state by state: a grant that has not lapsed is still in   *)
(* the map, with its own expiry (store.go:40-43 never deletes it and no    *)
(* late writer overwrites it).                                             *)
(***************************************************************************)
LiveGrantsKept ==
  \A k \in Key : clock < Until(last[k]) => expiredAt[k] = Until(last[k])

(***************************************************************************)
(* Clean-up keeps the map small (store.go:39-47): past the clean-up step,  *)
(* an entry that lapsed CleanupPeriod or longer before this call's clock,  *)
(* and that was also inserted that long ago, is gone.                      *)
(***************************************************************************)
NothingLingers ==
  \A c \in Caller, k \in Key :
    /\ pc[c] \in {"swept", "granting"}
    /\ expiredAt[k] # Absent
    /\ last[k].at + CleanupPeriod <= call[c].since
    => call[c].since < expiredAt[k] + CleanupPeriod

(***************************************************************************)
(* The clean-up schedule never moves back (store.go:39,46), although a     *)
(* goroutine with an older clock reading may enter after a newer one.      *)
(***************************************************************************)
ScheduleAdvances == [][nextCleanup' >= nextCleanup]_vars

\* The abstract store: a key is held until the expiry recorded in the map.
Abstract == INSTANCE Claims WITH held <- expiredAt

(***************************************************************************)
(* The store implements the abstract one: under every interleaving a call  *)
(* is granted a key only when nobody holds it, and refused only when       *)
(* somebody held it while the call was running.                            *)
(***************************************************************************)
ImplementsClaims == Abstract!Spec
-----------------------------------------------------------------------------
(***************************************************************************)
(* The inductive invariant behind the properties above, in named parts.    *)
(***************************************************************************)
\* A goroutine inside Claim has its arguments, and read the clock in the past.
CallsRead ==
  \A c \in Caller :
    /\ pc[c] = "out" <=> call[c] = NoCall
    /\ call[c] # NoCall => call[c].since <= clock

\* Nobody but the granting goroutine can have claimed its key since it looked.
KeyStaysFree == \A c \in Caller : pc[c] = "granting" => ~Live(c)

\* The map holds the latest grant of a key, unless that grant has lapsed.
MapMatchesGrants ==
  \A k \in Key :
    \/ expiredAt[k] = Until(last[k])
    \/ expiredAt[k] = Absent /\ Until(last[k]) <= clock

\* The schedule bounds how long ago a stored entry lapsed or was inserted.
ScheduleBounds ==
  /\ nextCleanup <= clock + CleanupPeriod
  /\ \A c \in Caller : pc[c] \in {"swept", "granting"} => call[c].since < nextCleanup
  /\ \A k \in Key : expiredAt[k] # Absent =>
        \/ nextCleanup <= expiredAt[k] + CleanupPeriod
        \/ nextCleanup <= last[k].at + CleanupPeriod

IInv == /\ TypeOK
        /\ MutexHeld
        /\ CallsRead
        /\ KeyStaysFree
        /\ MapMatchesGrants
        /\ ScheduleBounds
=============================================================================
