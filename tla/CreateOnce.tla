----------------------------- MODULE CreateOnce -----------------------------
(***************************************************************************)
(* POST /game with an X-Idempotent key, end to end: clients that send a    *)
(* creation again, replicas that crash, the claim store the application    *)
(* chose (internal/app/app.go), the check in front of the handler          *)
(* (internal/common/server/idempotency.go) and the transaction behind it.  *)
(* Claims of the in-process store follow MemoryStore, those of Redis       *)
(* SETNX with an expiry and go-redis, which sends a command again when the *)
(* connection breaks before the reply.                                     *)
(***************************************************************************)
EXTENDS Naturals, Sequences

CONSTANTS Request,      \* requests that can be in progress at once
          Replica,      \* the replicas of the service
          Key,          \* the idempotency keys, one per logical creation
          TTL,          \* idempotency.ttl
          Timeout,      \* http.timeout
          MaxClock,     \* bound on the clock
          MaxBoots,     \* bound on the starts of a replica
          Redis, NoRequest

ASSUME CreateOnceAssumption ==
  /\ TTL \in Nat \ {0} /\ Timeout \in Nat \ {0}
  /\ MaxClock \in Nat /\ MaxBoots \in Nat \ {0}
  /\ Redis \notin Replica

VARIABLES shared,   \* TRUE: with Redis.  FALSE: each replica has a MemoryStore
          clock,
          boots,    \* boots[rep]: how often the replica was started
          held,     \* held[s][k]: the instant until which store s holds key k
          own,      \* history: the request in slot r has taken its key itself
          req,      \* req[r]: the request, or NoRequest
          pc,       \* where it is
          answer,   \* the status of the last answer in slot r, 0 before it
          rows      \* rows[k]: the rows created with key k, in order

vars == <<shared, clock, boots, held, own, req, pc, answer, rows>>

Stores == IF shared THEN {Redis} ELSE Replica
\* New: with Redis the store is shared, without it each process has its own.
StoreOf(rep) == IF shared THEN Redis ELSE rep
\* A MemoryStore lives as long as its process.
Life(rep) == IF shared THEN 1 ELSE boots[rep]

Arrivals == [key : Key, at : Replica, sent : 0 .. MaxClock]
Rows == [sent : 0 .. MaxClock, store : Stores, life : 1 .. MaxBoots]

TypeOK ==
  /\ shared \in BOOLEAN
  /\ clock \in 0 .. MaxClock
  /\ boots \in [Replica -> 1 .. MaxBoots]
  /\ held \in [Stores -> [Key -> 0 .. MaxClock + TTL]]
  /\ own \in [Request -> BOOLEAN]
  /\ req \in [Request -> Arrivals \cup {NoRequest}]
  /\ pc \in [Request -> {"idle", "claim", "resend", "handler"}]
  /\ answer \in [Request -> {0, 200, 400, 409, 500}]
  /\ rows \in [Key -> Seq(Rows)]

Init ==
  /\ shared \in BOOLEAN
  /\ clock = 0
  /\ boots = [rep \in Replica |-> 1]
  /\ held = [s \in Stores |-> [k \in Key |-> 0]]
  /\ own = [r \in Request |-> FALSE]
  /\ req = [r \in Request |-> NoRequest]
  /\ pc = [r \in Request |-> "idle"]
  /\ answer = [r \in Request |-> 0]
  /\ rows = [k \in Key |-> <<>>]
-----------------------------------------------------------------------------
Tick == /\ clock < MaxClock
        /\ clock' = clock + 1
        /\ UNCHANGED <<shared, boots, held, own, req, pc, answer, rows>>

\* A creation arrives for the first time or again, at any replica.
Send(r, k, rep) ==
  /\ pc[r] = "idle"
  /\ req' = [req EXCEPT ![r] = [key |-> k, at |-> rep, sent |-> clock]]
  /\ pc' = [pc EXCEPT ![r] = "claim"]
  /\ answer' = [answer EXCEPT ![r] = 0]
  /\ own' = [own EXCEPT ![r] = FALSE]
  /\ UNCHANGED <<shared, clock, boots, held, rows>>

Answer(r, status) ==
  /\ answer' = [answer EXCEPT ![r] = status]
  /\ pc' = [pc EXCEPT ![r] = "idle"]
  /\ req' = [req EXCEPT ![r] = NoRequest]

Deadline(r) == req[r].sent + Timeout
Store(r) == StoreOf(req[r].at)

\* The instants the store may compute with: Redis reads its own clock when it runs
\* the command; MemoryStore read it after ctx.Err() and before it got the mutex.
Instants(r) ==
  IF shared THEN {clock} ELSE {t \in req[r].sent .. clock : t <= Deadline(r)}

HeldUntil(r) == held[Store(r)][req[r].key]

Take(r) ==
  /\ \E t \in Instants(r) : held' = [held EXCEPT ![Store(r)][req[r].key] = t + TTL]
  /\ own' = [own EXCEPT ![r] = TRUE]

\* As in Claims: free when the claim is made.
Free(r) == HeldUntil(r) <= clock

\* The key is claimed and the handler runs.  When the deadline has passed meanwhile
\* the answer to SETNX is an error, and so is BeginTx in the handler.
Granted(r) ==
  /\ pc[r] \in {"claim", "resend"}
  /\ Free(r) /\ Take(r)
  /\ IF clock > Deadline(r)
     THEN Answer(r, 500)
     ELSE pc' = [pc EXCEPT ![r] = "handler"] /\ UNCHANGED <<answer, req>>
  /\ UNCHANGED <<shared, clock, boots, rows>>

\* Broken variant: the request is told of a duplicate without a look at the store.
Taken_Guessed(r) == TRUE
\* As in Claims: held at the instant the call works with.
Taken(r) == \E t \in Instants(r) : HeldUntil(r) > t

Refused(r) ==
  /\ pc[r] \in {"claim", "resend"}
  /\ Taken(r)
  /\ Answer(r, 409)
  /\ UNCHANGED <<shared, clock, boots, held, own, rows>>

\* SETNX was executed, the connection broke: go-redis sends the command again.
ReplyLost(r) ==
  /\ shared
  /\ pc[r] = "claim"
  /\ IF Free(r) THEN Take(r) ELSE UNCHANGED <<held, own>>
  /\ pc' = [pc EXCEPT ![r] = "resend"]
  /\ UNCHANGED <<shared, clock, boots, req, answer, rows>>

\* The store fails or the context is done.
ClaimFails(r) ==
  /\ pc[r] \in {"claim", "resend"}
  /\ Answer(r, 500)
  /\ UNCHANGED <<shared, clock, boots, held, own, rows>>

\* Broken variant: a request that fails gives its key back.
AfterFailure_GivesBack(r) == held' = [held EXCEPT ![Store(r)][req[r].key] = 0]
\* The key stays claimed until it expires.
AfterFailure(r) == UNCHANGED held

\* The transaction commits.  Its confirmation may be lost.
Created(r) ==
  /\ pc[r] = "handler"
  /\ rows' = [rows EXCEPT ![req[r].key] =
                Append(@, [sent |-> req[r].sent, store |-> Store(r), life |-> Life(req[r].at)])]
  /\ \/ Answer(r, 200) /\ UNCHANGED held
     \/ Answer(r, 500) /\ AfterFailure(r)
  /\ UNCHANGED <<shared, clock, boots, own>>

\* The body is invalid, or the handler fails or panics.
NotCreated(r) ==
  /\ pc[r] = "handler"
  /\ \E status \in {400, 500} : Answer(r, status)
  /\ AfterFailure(r)
  /\ UNCHANGED <<shared, clock, boots, own, rows>>

\* A replica dies with its requests and its own store, and starts again.
Restart(rep) ==
  /\ boots[rep] < MaxBoots
  /\ boots' = [boots EXCEPT ![rep] = @ + 1]
  /\ LET lost == {r \in Request : pc[r] # "idle" /\ req[r].at = rep}
     IN  /\ pc' = [r \in Request |-> IF r \in lost THEN "idle" ELSE pc[r]]
         /\ req' = [r \in Request |-> IF r \in lost THEN NoRequest ELSE req[r]]
  /\ IF shared THEN UNCHANGED held
     ELSE held' = [held EXCEPT ![rep] = [k \in Key |-> 0]]
  /\ UNCHANGED <<shared, clock, own, answer, rows>>

Next ==
  \/ Tick
  \/ \E rep \in Replica : Restart(rep)
  \/ \E r \in Request :
        \/ \E k \in Key, rep \in Replica : Send(r, k, rep)
        \/ Granted(r) \/ Refused(r) \/ ReplyLost(r) \/ ClaimFails(r)
        \/ Created(r) \/ NotCreated(r)

Spec == Init /\ [][Next]_vars
-----------------------------------------------------------------------------
(***************************************************************************)
(* What a client may rely on (README, "Duplicate POST requests"): a        *)
(* creation that is sent again less than TTL - Timeout after the first     *)
(* time creates at most one row, whatever was answered, lost or restarted  *)
(* in between, as long as the two reached the same store.                  *)
(***************************************************************************)
Apart(a, b) == a.sent + TTL <= b.sent + Timeout \/ b.sent + TTL <= a.sent + Timeout

RetryCreatesOneRow ==
  \A k \in Key : \A i, j \in DOMAIN rows[k] :
    LET a == rows[k][i]
        b == rows[k][j]
    IN  i < j /\ a.store = b.store /\ a.life = b.life => Apart(a, b)

(***************************************************************************)
(* README: "A duplicate returns 409".  A request that gets 409 is a        *)
(* duplicate: while it was in progress another request held its key.  The  *)
(* one exception is a SETNX that go-redis sent again (idempotency.go:35):  *)
(* it may find the key that its own first sending took.                    *)
(***************************************************************************)
ConflictMeansDuplicate ==
  [][\A r \in Request : answer[r] # 409 /\ answer'[r] = 409
        => HeldUntil(r) > req[r].sent /\ (own[r] => pc[r] = "resend")]_vars
-----------------------------------------------------------------------------
(***************************************************************************)
(* The inductive invariant of the proofs.                                  *)
(***************************************************************************)
\* Whoever is under way arrived before now, and has not taken its key before its claim.
RequestsArrived ==
  \A r \in Request :
    /\ pc[r] # "idle" => req[r] \in Arrivals /\ req[r].sent <= clock
    /\ pc[r] = "claim" => ~own[r]

\* A key that was granted to a request of that instant is held until the request has
\* lapsed.  A later claim may lower the hold again, but only after that.
Covered(s, k, sent) == sent + TTL <= clock \/ sent + TTL <= held[s][k]

LifeOf(s) == IF shared THEN 1 ELSE boots[s]

\* The rows that the present life of store s has let through.
Current(s, k) == {i \in DOMAIN rows[k] : rows[k][i].store = s /\ rows[k][i].life = LifeOf(s)}

GrantsAreCovered ==
  /\ \A r \in Request : pc[r] = "handler" => Covered(Store(r), req[r].key, req[r].sent)
  /\ \A k \in Key : /\ \A i \in DOMAIN rows[k] : rows[k][i].life <= LifeOf(rows[k][i].store)
                    /\ \A s \in Stores : \A i \in Current(s, k) : Covered(s, k, rows[k][i].sent)

GrantsAreApart ==
  \A r \in Request : pc[r] = "handler" =>
    /\ \A q \in Request \ {r} :
         pc[q] = "handler" /\ req[q].key = req[r].key /\ Store(q) = Store(r) => Apart(req[r], req[q])
    /\ \A i \in Current(Store(r), req[r].key) : Apart(req[r], rows[req[r].key][i])

GrantsInv == GrantsAreCovered /\ GrantsAreApart /\ RetryCreatesOneRow

CreateOnceInv == TypeOK /\ RequestsArrived /\ GrantsInv
=============================================================================
