------------------------------- MODULE Claims -------------------------------
(***************************************************************************)
(* What an idempotency store promises to the requests that call it         *)
(* (interface Store of internal/common/idempotency/store.go), stated       *)
(* without a map, a mutex or a clean-up: a key is held until an instant,   *)
(* and a call either takes a key that nobody holds or is told that the key *)
(* was held while the call was running.                                    *)
(***************************************************************************)
EXTENDS Integers

CONSTANTS Caller,    \* the goroutines that call Claim
          Key,       \* the idempotency keys
          TTL,       \* the time-to-live values callers pass
          MaxClock,  \* bound on the clock
          NoCall     \* the value of a caller outside Claim

\* The arguments of a call and the instant it read the clock.
Request == [key : Key, ttl : TTL, since : Nat]

VARIABLES clock,    \* real time
          held,     \* held[k]: the instant until which key k is held
          call,     \* call[c]: what c asked for and since when, or NoCall
          outcome   \* outcome[c]: what c's last call returned

vars == <<clock, held, call, outcome>>

Outcomes == {"none", "granted", "refused", "error"}

Init ==
  /\ clock = 0
  /\ held = [k \in Key |-> 0]
  /\ call = [c \in Caller |-> NoCall]
  /\ outcome = [c \in Caller |-> "none"]

Tick ==
  /\ clock < MaxClock
  /\ clock' = clock + 1
  /\ UNCHANGED <<held, call, outcome>>

\* A call that the store accepts begins.
Invoke(c, k, ttl) ==
  /\ call[c] = NoCall
  /\ call' = [call EXCEPT ![c] = [key |-> k, ttl |-> ttl, since |-> clock]]
  /\ outcome' = [outcome EXCEPT ![c] = "none"]
  /\ UNCHANGED <<clock, held>>

\* A call that the store does not accept returns an error at once.
Fail(c) ==
  /\ call[c] = NoCall
  /\ outcome' = [outcome EXCEPT ![c] = "error"]
  /\ UNCHANGED <<clock, held, call>>

\* The key is free now; it is held for the ttl, counted from some instant of the call.
Grant(c) ==
  /\ call[c] # NoCall
  /\ held[call[c].key] <= clock
  /\ \E from \in call[c].since .. clock :
        held' = [held EXCEPT ![call[c].key] = from + call[c].ttl]
  /\ call' = [call EXCEPT ![c] = NoCall]
  /\ outcome' = [outcome EXCEPT ![c] = "granted"]
  /\ UNCHANGED clock

\* The key was held at some instant of the call.
Refuse(c) ==
  /\ call[c] # NoCall
  /\ held[call[c].key] > call[c].since
  /\ call' = [call EXCEPT ![c] = NoCall]
  /\ outcome' = [outcome EXCEPT ![c] = "refused"]
  /\ UNCHANGED <<clock, held>>

\* Holds that have lapsed may be forgotten, all or some of them, at any time.
Forget ==
  /\ \E lapsed \in SUBSET {k \in Key : held[k] <= clock} :
        held' = [k \in Key |-> IF k \in lapsed THEN 0 ELSE held[k]]
  /\ UNCHANGED <<clock, call, outcome>>

Next ==
  \/ Tick
  \/ Forget
  \/ \E c \in Caller :
        \/ \E k \in Key, ttl \in TTL : Invoke(c, k, ttl)
        \/ Fail(c)
        \/ Grant(c)
        \/ Refuse(c)

Spec == Init /\ [][Next]_vars
=============================================================================
