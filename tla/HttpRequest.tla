----------------------------- MODULE HttpRequest -----------------------------
(***************************************************************************)
(* One HTTP request through the middleware that NewRouter stacks up        *)
(* (internal/common/server): access log, recoverer, request timeout, and   *)
(* the idempotency check of a module that opts in, around a handler of     *)
(* which only the shape of its answer matters, or around the health check. *)
(* The deadlines and the client's disconnection arrive at any moment       *)
(* between two steps.  The trace and locale layers outside these only add  *)
(* headers.                                                                *)
(***************************************************************************)
EXTENDS Naturals, Sequences

CONSTANT Routers   \* the generated variants to consider: "chi", "gin"

ASSUME HttpRequestAssumption == Routers \subseteq {"chi", "gin"}

VARIABLES router,   \* the generated variant
          req,      \* the request and the configuration that applies to it
          pc,       \* the layer that runs
          ctxErr,   \* Err() of the request's context: "none", "deadline", "canceled"
          armed,    \* the context carries a deadline
          status,   \* the response writer's status; 0 as long as nobody set one
          sent,     \* chi: Status() # 0.  gin: Written()
          bodies,   \* who wrote a body, in order
          panicked, \* "no", "panic", or "abort" for http.ErrAbortHandler
          answer,   \* history: the handler's answer [code, body], NoAnswer before it
          probe,    \* the context of the health checks: "none", "live", "expired"
          claim,    \* history: the result of the idempotency check
          logged    \* the status in each line of the access log

vars == <<router, req, pc, ctxErr, armed, status, sent, bodies, panicked,
          answer, probe, claim, logged>>

NoAnswer == [code |-> 0, body |-> FALSE]

Requests ==
  {r \in [route      : {"module", "health", "none"},  \* "none": 404 or 405
          post       : BOOLEAN,
          key        : {"none", "invalid", "valid"},
          idempotent : BOOLEAN,                       \* the module opts in
          checks     : BOOLEAN,                       \* there is a database or Redis to check
          store      : BOOLEAN,                       \* a store and a ttl > 0 are configured
          timeout    : BOOLEAN] :                     \* http.timeout > 0
     /\ r.idempotent => r.route = "module"
     /\ r.checks => r.route = "health"}

Layers == {"boot", "refused", "router", "health", "healthy", "unhealthy", "timeout",
           "idempotency", "handler", "answered", "check", "recover", "log", "flush", "done"}
Authors == {"router", "idempotency", "handler", "timeout", "recoverer"}
Codes == {0, 200, 400, 404, 405, 409, 500, 503, 504}

TypeOK ==
  /\ router \in Routers
  /\ req \in Requests
  /\ pc \in Layers
  /\ ctxErr \in {"none", "deadline", "canceled"}
  /\ armed \in BOOLEAN
  /\ status \in Codes
  /\ sent \in BOOLEAN /\ (sent => status # 0)
  /\ bodies \in Seq(Authors)
  /\ panicked \in {"no", "panic", "abort"}
  /\ answer \in [code : Codes, body : BOOLEAN]
  /\ probe \in {"none", "live", "expired"}
  /\ claim \in {"none", "bypassed", "granted", "refused", "failed"}
  /\ logged \in Seq(Codes)

Init ==
  /\ router \in Routers
  /\ req \in Requests
  /\ pc = "boot"
  /\ ctxErr = "none" /\ armed = FALSE
  /\ status = 0 /\ sent = FALSE /\ bodies = <<>>
  /\ panicked = "no"
  /\ answer = NoAnswer /\ probe = "none" /\ claim = "none" /\ logged = <<>>
-----------------------------------------------------------------------------
(* The response writer: chi's WrapResponseWriter and gin's ResponseWriter. *)

\* WriteJSON: WriteHeader, which only the first caller wins, and then a body.
WriteBody(layer, code) ==
  /\ status' = IF sent THEN status ELSE code
  /\ sent' = TRUE
  /\ bodies' = Append(bodies, layer)

\* WriteOK without a body, WriteNoContent: only WriteHeader, which gin defers.
WriteStatus(code) ==
  /\ status' = IF sent THEN status ELSE code
  /\ sent' = (sent \/ router = "chi")
  /\ UNCHANGED bodies

\* Broken variant: nobody asks whether a response was written.
Written_Never == FALSE
Written == sent

Silent == UNCHANGED <<status, sent, bodies>>
Goto(layer) == pc' = layer
-----------------------------------------------------------------------------
(* The environment. *)

Expire ==
  /\ armed /\ ctxErr = "none" /\ pc # "done"
  /\ ctxErr' = "deadline"
  /\ UNCHANGED <<router, req, pc, armed, panicked, answer, probe, claim, logged>> /\ Silent

Disconnect ==
  /\ ctxErr = "none" /\ pc # "done"
  /\ ctxErr' = "canceled"
  /\ UNCHANGED <<router, req, pc, armed, panicked, answer, probe, claim, logged>> /\ Silent
-----------------------------------------------------------------------------
(* The layers, outermost first. *)

\* The routes are mounted once: a module that opts in is not served without a store.
NewRouter ==
  /\ pc = "boot"
  /\ Goto(IF req.idempotent /\ ~req.store THEN "refused" ELSE "router") /\ Silent
  /\ UNCHANGED <<router, req, ctxErr, armed, panicked, answer, probe, claim, logged>>

\* gin answers an unknown route inside all of its middleware, chi outside the timeout.
RouteMissing ==
  /\ pc = "router" /\ req.route = "none"
  /\ WriteBody("router", 404)
  /\ Goto("log")
  /\ UNCHANGED <<router, req, ctxErr, armed, panicked, answer, probe, claim, logged>>

Route ==
  /\ pc = "router" /\ req.route # "none"
  /\ Goto("timeout") /\ Silent
  /\ UNCHANGED <<router, req, ctxErr, armed, panicked, answer, probe, claim, logged>>

\* Broken variant: the context that reaches the handler has no deadline.
Deadline_Dropped == FALSE
Deadline == req.timeout

\* RequestTimeout derives a context with a deadline unless the timeout is <= 0.
Arm ==
  /\ pc = "timeout"
  /\ armed' = Deadline
  /\ Goto(IF req.idempotent THEN "idempotency" ELSE "handler") /\ Silent
  /\ UNCHANGED <<router, req, ctxErr, panicked, answer, probe, claim, logged>>

\* Broken variant: only the gin middleware stops at a refused claim.
AfterRefusal_Continues == "handler"
AfterRefusal == "check"

\* claimIdempotency answers the request itself.
Turned(result, code) ==
  /\ claim' = result
  /\ WriteBody("idempotency", code)
  /\ Goto(AfterRefusal)

Passed(result) == claim' = result /\ Silent /\ Goto("handler")

\* The store may fail at any time, and a done context always fails the claim.
Idempotency ==
  /\ pc = "idempotency"
  /\ IF ~req.post \/ req.key = "none" THEN Passed("bypassed")
     ELSE IF req.key = "invalid" THEN Turned("refused", 400)
     ELSE \/ Turned("failed", 500)
          \/ ctxErr = "none" /\ Turned("refused", 409)
          \/ ctxErr = "none" /\ Passed("granted")
  /\ UNCHANGED <<router, req, ctxErr, armed, panicked, answer, probe, logged>>

\* The handler answers with a body, or, on success, with a bare status.
Answer ==
  /\ pc = "handler" /\ req.route = "module"
  /\ \/ \E code \in {200, 400, 404, 500} :
           WriteBody("handler", code) /\ answer' = [code |-> code, body |-> TRUE]
     \/ WriteStatus(200) /\ answer' = [code |-> 200, body |-> FALSE]
  /\ Goto("answered")
  /\ UNCHANGED <<router, req, ctxErr, armed, panicked, probe, claim, logged>>

\* It returns, having answered or not.
Return ==
  /\ pc = "answered" \/ (pc = "handler" /\ req.route = "module")
  /\ Goto("check") /\ Silent
  /\ UNCHANGED <<router, req, ctxErr, armed, panicked, answer, probe, claim, logged>>

\* Health: any method but GET is refused (by gin's router itself), else the checks
\* run one after the other under a deadline of their own.
Health ==
  /\ pc = "handler" /\ req.route = "health"
  /\ IF req.post
     THEN /\ WriteBody("handler", 405) /\ answer' = [code |-> 405, body |-> TRUE]
          /\ Goto("answered") /\ UNCHANGED probe
     ELSE Goto("health") /\ probe' = "live" /\ Silent /\ UNCHANGED answer
  /\ UNCHANGED <<router, req, ctxErr, armed, panicked, claim, logged>>

ProbeExpires ==
  /\ pc = "health" /\ probe = "live"
  /\ probe' = "expired"
  /\ UNCHANGED <<router, req, pc, ctxErr, armed, panicked, answer, claim, logged>> /\ Silent

\* The last check has returned; database and Redis may answer or not.
Checked ==
  /\ pc = "health"
  /\ \/ /\ req.checks => probe = "live" /\ ctxErr = "none"
        /\ Goto("healthy")
     \/ req.checks /\ Goto("unhealthy")
  /\ Silent
  /\ UNCHANGED <<router, req, ctxErr, armed, panicked, answer, probe, claim, logged>>

HealthAnswer ==
  /\ \/ pc = "healthy" /\ WriteStatus(200) /\ answer' = [code |-> 200, body |-> FALSE]
     \/ /\ pc = "unhealthy"
        /\ WriteBody("handler", 503) /\ answer' = [code |-> 503, body |-> TRUE]
  /\ Goto("answered")
  /\ UNCHANGED <<router, req, ctxErr, armed, panicked, probe, claim, logged>>

\* It panics, before or after it answered, which unwinds to the recoverer.
Panic(how) ==
  /\ pc \in {"handler", "answered"} /\ req.route = "module"
  /\ panicked' = how
  /\ Goto("recover") /\ Silent
  /\ UNCHANGED <<router, req, ctxErr, armed, answer, probe, claim, logged>>

\* Broken variant: a client that went away counts as a deadline.
DeadlinePassed_AnyError == ctxErr # "none"
DeadlinePassed == ctxErr = "deadline"

\* Back in RequestTimeout: answer for a handler that only saw its context end.
CheckDeadline ==
  /\ pc = "check"
  /\ IF armed /\ DeadlinePassed /\ ~Written THEN WriteBody("timeout", 504) ELSE Silent
  /\ armed' = FALSE              \* the deferred cancel stops the timer
  /\ Goto("log")
  /\ UNCHANGED <<router, req, ctxErr, panicked, answer, probe, claim, logged>>

\* Recoverer: an abort is only logged, any other panic is a 500 if nothing was written.
Recover ==
  /\ pc = "recover"
  /\ IF panicked = "panic" /\ ~Written THEN WriteBody("recoverer", 500) ELSE Silent
  /\ armed' = FALSE
  /\ Goto("log")
  /\ UNCHANGED <<router, req, ctxErr, panicked, answer, probe, claim, logged>>

\* Broken variant: the access log runs as if nothing had been written.
LoggedStatus_AlwaysOK == 200
LoggedStatus == IF status = 0 THEN 200 ELSE status

AccessLog ==
  /\ pc = "log"
  /\ logged' = Append(logged, LoggedStatus)
  /\ Goto("flush") /\ Silent
  /\ UNCHANGED <<router, req, ctxErr, armed, panicked, answer, probe, claim>>

\* net/http (and gin's WriteHeaderNow) sends 200 when nobody chose a status.
Flush ==
  /\ pc = "flush"
  /\ status' = IF status = 0 THEN 200 ELSE status
  /\ sent' = TRUE
  /\ UNCHANGED bodies
  /\ Goto("done")
  /\ UNCHANGED <<router, req, ctxErr, armed, panicked, answer, probe, claim, logged>>

Done == pc \in {"done", "refused"} /\ UNCHANGED vars

Server == \/ NewRouter \/ RouteMissing \/ Route \/ Arm \/ Idempotency \/ Answer
          \/ Health \/ Checked \/ HealthAnswer \/ Return \/ CheckDeadline \/ Recover \/ AccessLog \/ Flush
          \/ \E how \in {"panic", "abort"} : Panic(how)

Next == Server \/ Expire \/ ProbeExpires \/ Disconnect \/ Done

Spec == Init /\ [][Next]_vars

(***************************************************************************)
(* The server's own steps take place.  A handler or a health check may     *)
(* wait for something as long as its context lives (handlers must observe  *)
(* cancellation, README.md:107), so it is only fair to return once the     *)
(* context is done.                                                        *)
(***************************************************************************)
Waits == (pc = "handler" /\ req.route = "module") \/ pc = "health"

FairSpec ==
  /\ Spec
  /\ WF_vars(Server /\ ~Waits)
  /\ WF_vars(Expire) /\ WF_vars(ProbeExpires)
  /\ WF_vars(ctxErr # "none" /\ pc = "handler" /\ (Answer \/ Return))
  /\ WF_vars((ctxErr # "none" \/ probe = "expired") /\ Checked)
-----------------------------------------------------------------------------
HandlerRan == pc \in {"handler", "answered"} \/ answer # NoAnswer \/ panicked # "no"
Refused == claim \in {"refused", "failed"}

\* What counts as an answer to the two layers outside the handler.
Replied == answer.body \/ (router = "chi" /\ answer # NoAnswer)

(***************************************************************************)
(* At most one layer writes a body, and what the handler answered is what  *)
(* the client gets, whatever happens after it: a deadline that passes, a   *)
(* panic, a disconnection.  The responseWritten checks of timeout.go:49    *)
(* and recovery.go:56 are there for this.  A bare status is kept under chi *)
(* only: gin's Written() stays false after it.                             *)
(***************************************************************************)
AnswerKept ==
  /\ Len(bodies) <= 1
  /\ pc = "done" /\ Replied =>
       /\ status = answer.code
       /\ bodies = IF answer.body THEN <<"handler">> ELSE <<>>

(***************************************************************************)
(* A client gets 504 exactly when the deadline passed before the handler   *)
(* returned and nobody had replied (timeout.go:24,49): not because it went *)
(* away, not after a refused claim, and never without a deadline.          *)
(***************************************************************************)
GatewayTimeoutIffDeadline ==
  pc = "done" /\ req.route # "none" =>
    (status = 504 <=> /\ ctxErr = "deadline"
                      /\ panicked = "no"
                      /\ ~Refused /\ ~Replied)

(***************************************************************************)
(* A request that needs a claim reaches the handler only with the claim    *)
(* (idempotency.go:22,33), and a refusal is all that its client sees.      *)
(***************************************************************************)
HandlerNeedsClaim ==
  /\ HandlerRan /\ req.idempotent /\ req.post /\ req.key # "none" => claim = "granted"
  /\ pc = "done" /\ Refused => bodies = <<"idempotency">> /\ status \in {400, 409, 500}

(***************************************************************************)
(* Each request is logged once, with the status its client gets            *)
(* (access_log.go:24-28, 67-78), also when its handler panics.             *)
(***************************************************************************)
LoggedAsSent == pc = "done" => logged = <<status>>

(***************************************************************************)
(* A request with a timeout ends (timeout.go:20, 46), and a health check   *)
(* ends with or without one (health.go:45), provided that whoever waits    *)
(* returns once its context is done.                                       *)
(***************************************************************************)
TimeoutBoundsRequest ==
  (req.timeout \/ req.route = "health") /\ pc = "handler" ~> pc = "done"
-----------------------------------------------------------------------------
(* What every state satisfies, and why the properties hold. *)

\* Where nobody can have answered yet, and where nobody answers any more.
Before == {"boot", "refused", "router", "timeout", "idempotency"}
Inside == {"handler", "health", "healthy", "unhealthy"}
After  == {"log", "flush", "done"}

NothingSaid == status = 0 /\ ~sent /\ bodies = <<>>

RequestPhases ==
  /\ pc \in Before => NothingSaid /\ answer = NoAnswer /\ claim = "none"
  /\ pc \in Inside => NothingSaid /\ answer = NoAnswer /\ ~Refused
  /\ pc = "answered" => answer # NoAnswer
  /\ panicked # "no" => pc = "recover" \/ pc \in After
  /\ pc = "recover" => panicked # "no"
  /\ logged = IF pc \in {"flush", "done"} THEN <<LoggedStatus>> ELSE <<>>
  /\ pc = "done" => status # 0

\* Whoever needs a claim was granted one or is turned away with what the check wrote.
ClaimsInv ==
  /\ req.idempotent /\ req.post /\ req.key # "none" /\ pc \notin Before
       => claim = "granted" \/ Refused
  /\ Refused => /\ pc = "check" \/ pc \in After
                /\ answer = NoAnswer /\ panicked = "no"
                /\ sent /\ status \in {400, 409, 500} /\ bodies = <<"idempotency">>

\* The timer runs until RequestTimeout is left, and only then has a deadline passed.
TimerInv ==
  /\ armed => pc \notin (Before \ {"idempotency"}) \cup After
  /\ ctxErr = "deadline" /\ pc \notin After => armed

\* An answer that was sent is left alone, whoever comes after it.
AnswerInv ==
  answer # NoAnswer =>
    /\ answer.code \in {200, 400, 404, 405, 500, 503}
    /\ Replied => /\ sent /\ status = answer.code
                  /\ bodies = IF answer.body THEN <<"handler">> ELSE <<>>
    /\ ~Replied /\ pc \notin After => ~sent /\ status = 200 /\ bodies = <<>>

\* What the outer layers say when the handler did not.
SubstituteInv ==
  /\ answer = NoAnswer /\ ~Refused /\ pc \in {"check", "recover"} => NothingSaid
  /\ req.route = "none" => pc \in {"boot", "router"} \cup After /\ answer = NoAnswer /\ ~Refused
  /\ req.route = "none" /\ pc \in After => status = 404 /\ bodies = <<"router">>
  /\ req.route # "none" /\ pc \in After /\ ~Refused /\ ~Replied =>
       IF panicked = "panic" THEN status = 500 /\ bodies = <<"recoverer">>
       ELSE IF panicked = "no" /\ ctxErr = "deadline" THEN status = 504 /\ bodies = <<"timeout">>
       ELSE status \in {0, 200} /\ bodies = <<>>

RequestInv == TypeOK /\ RequestPhases /\ ClaimsInv /\ TimerInv /\ AnswerInv /\ SubstituteInv
=============================================================================
