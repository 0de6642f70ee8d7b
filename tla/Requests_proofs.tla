--------------------------- MODULE Requests_proofs ---------------------------
(***************************************************************************)
(* Machine-checked proofs about what the two kinds of clients are told:    *)
(* one HTTP request through its middleware, under either router, and one   *)
(* gRPC call through its interceptors.  The inductive invariants are       *)
(* RequestInv of module HttpRequest and CallInv of RpcCall.                *)
(***************************************************************************)
EXTENDS HttpRequest, RpcCall, TLAPS
-----------------------------------------------------------------------------
(* One HTTP request. *)

(***************************************************************************)
(* One body has an author.                                                 *)
(***************************************************************************)
LEMMA OneAuthor ==
  /\ \A layer \in {"router", "idempotency", "handler", "timeout", "recoverer"} :
        <<layer>> \in Seq(Authors)
  /\ <<>> \in Seq(Authors)
<1>1. ASSUME NEW layer \in Authors PROVE <<layer>> \in Seq(Authors)
  OBVIOUS
<1>2. QED
  BY <1>1 DEF Authors

LEMMA RequestBegins == Init => RequestInv
<1> SUFFICES ASSUME Init PROVE RequestInv
  OBVIOUS
<1>1. TypeOK
  <2>1. status \in Codes /\ answer \in [code : Codes, body : BOOLEAN]
    BY DEF Init, NoAnswer, Codes
  <2>2. bodies \in Seq(Authors) /\ logged \in Seq(Codes)
    BY DEF Init
  <2>3. QED
    BY <2>1, <2>2 DEF Init, TypeOK, Layers
<1>2. RequestPhases /\ ClaimsInv /\ TimerInv /\ AnswerInv /\ SubstituteInv
  BY DEF Init, RequestPhases, NothingSaid, ClaimsInv, Refused, TimerInv, AnswerInv, SubstituteInv,
         Before, Inside, After
<1>3. QED
  BY <1>1, <1>2 DEF RequestInv

(***************************************************************************)
(* The ends of the contexts change nothing but what the layers see of them.*)
(***************************************************************************)
LEMMA ContextsEnd == RequestInv /\ (Expire \/ Disconnect \/ ProbeExpires) => RequestInv'
<1> SUFFICES ASSUME RequestInv, Expire \/ Disconnect \/ ProbeExpires PROVE RequestInv'
  OBVIOUS
<1> USE DEF RequestInv, Expire, Disconnect, ProbeExpires, Silent
<1>1. TypeOK'
  BY DEF TypeOK
<1>2. RequestPhases'
  BY DEF RequestPhases, NothingSaid, Refused, LoggedStatus, Before, Inside, After
<1>3. ClaimsInv' /\ AnswerInv'
  BY DEF ClaimsInv, AnswerInv, Refused, Replied, Before, After
<1>4. TimerInv'
  BY DEF TimerInv, TypeOK, Before, After
<1>5. SubstituteInv'
  BY DEF SubstituteInv, TimerInv, NothingSaid, Refused, Replied, Before, After
<1>6. QED
  BY <1>1, <1>2, <1>3, <1>4, <1>5

(***************************************************************************)
(* Until a layer or the handler answers, nothing is written.               *)
(***************************************************************************)
LEMMA NothingIsWrittenYet ==
  RequestInv /\ (NewRouter \/ Route \/ Arm \/ Checked) => RequestInv'
<1> SUFFICES ASSUME RequestInv, NewRouter \/ Route \/ Arm \/ Checked PROVE RequestInv'
  OBVIOUS
<1> USE DEF RequestInv, NewRouter, Route, Arm, Checked, Silent, Goto
<1>1. TypeOK'
  BY DEF TypeOK, Layers, Deadline, Requests
<1>2. RequestPhases'
  BY DEF RequestPhases, NothingSaid, Refused, LoggedStatus, Before, Inside, After
<1>3. ClaimsInv' /\ AnswerInv'
  BY DEF RequestPhases, ClaimsInv, AnswerInv, Refused, Replied, Before, Inside, After
<1>4. TimerInv'
  BY DEF TimerInv, TypeOK, Before, After
<1>5. SubstituteInv'
  BY DEF SubstituteInv, RequestPhases, NothingSaid, TypeOK, Requests, Refused, Replied, Before,
         Inside, After
<1>6. QED
  BY <1>1, <1>2, <1>3, <1>4, <1>5

LEMMA RouteMissingStep == RequestInv /\ RouteMissing => RequestInv'
<1> SUFFICES ASSUME RequestInv, RouteMissing PROVE RequestInv'
  OBVIOUS
<1>1. /\ status' = 404 /\ bodies' = <<"router">> /\ sent' = TRUE /\ pc' = "log"
      /\ answer' = NoAnswer /\ claim' = "none" /\ panicked' = "no"
  BY DEF RequestInv, RouteMissing, WriteBody, Goto, RequestPhases, NothingSaid, Before, TypeOK,
         After
<1>2. TypeOK'
  <2>1. status' \in Codes /\ bodies' \in Seq(Authors) /\ pc' \in Layers
    BY <1>1, OneAuthor DEF Codes, Layers
  <2>2. QED
    BY <1>1, <2>1 DEF RequestInv, RouteMissing, TypeOK
<1> USE DEF RequestInv, RouteMissing
<1>3. RequestPhases'
  BY <1>1 DEF RequestPhases, Before, Inside, After
<1>4. ClaimsInv' /\ AnswerInv' /\ TimerInv' /\ SubstituteInv'
  BY <1>1 DEF ClaimsInv, AnswerInv, TimerInv, SubstituteInv, TypeOK, Requests, Refused, Before,
              After
<1>5. QED
  BY <1>2, <1>3, <1>4

(***************************************************************************)
(* The check of the key lets the request through, or answers itself.       *)
(***************************************************************************)
LEMMA IdempotencyStep == RequestInv /\ Idempotency => RequestInv'
<1> SUFFICES ASSUME RequestInv, Idempotency PROVE RequestInv'
  OBVIOUS
<1> USE DEF RequestInv, Goto
<1>1. /\ pc = "idempotency" /\ NothingSaid /\ answer = NoAnswer /\ panicked = "no" /\ logged = <<>>
      /\ UNCHANGED <<router, req, ctxErr, armed, panicked, answer, probe, logged>>
  BY DEF Idempotency, RequestPhases, Before, After
<1>2. CASE /\ pc' = "handler" /\ Silent /\ claim' \in {"bypassed", "granted"}
           /\ ~req.post \/ req.key = "none" \/ claim' = "granted"
  <2>1. TypeOK'
    BY <1>1, <1>2 DEF TypeOK, Layers, Silent
  <2>2. RequestPhases' /\ ClaimsInv' /\ TimerInv'
    BY <1>1, <1>2 DEF RequestPhases, ClaimsInv, TimerInv, NothingSaid, Silent, Refused, Before,
                      Inside, After
  <2>3. AnswerInv' /\ SubstituteInv'
    BY <1>1, <1>2 DEF AnswerInv, SubstituteInv, Refused, Before, After
  <2>4. QED
    BY <2>1, <2>2, <2>3
<1>3. CASE /\ pc' = "check" /\ claim' \in {"refused", "failed"}
           /\ status' \in {400, 409, 500} /\ sent' /\ sent' \in BOOLEAN
           /\ bodies' = <<"idempotency">>
  <2>1. TypeOK'
    <3>1. status' \in Codes /\ status' # 0 /\ bodies' \in Seq(Authors) /\ pc' \in Layers
      BY <1>3, OneAuthor DEF Codes, Layers
    <3>2. QED
      BY <1>1, <1>3, <3>1 DEF TypeOK
  <2>2. RequestPhases' /\ ClaimsInv' /\ TimerInv'
    BY <1>1, <1>3 DEF RequestPhases, ClaimsInv, TimerInv, Refused, Before, Inside, After
  <2>3. AnswerInv' /\ SubstituteInv'
    BY <1>1, <1>3 DEF AnswerInv, SubstituteInv, Refused, Before, After
  <2>4. QED
    BY <2>1, <2>2, <2>3
<1>4. ASSUME NEW how, NEW status1, status1 \in {400, 409, 500}, how \in {"refused", "failed"},
             Turned(how, status1)
      PROVE  RequestInv'
  BY <1>1, <1>3, <1>4 DEF Turned, WriteBody, AfterRefusal, NothingSaid
<1>5. QED
  BY <1>1, <1>2, <1>4 DEF Idempotency, Passed

(***************************************************************************)
(* The handler's one answer goes to a writer that nobody has used.         *)
(***************************************************************************)
LEMMA AnswersStep == RequestInv /\ (Answer \/ Health \/ HealthAnswer) => RequestInv'
<1> SUFFICES ASSUME RequestInv, Answer \/ Health \/ HealthAnswer PROVE RequestInv'
  OBVIOUS
<1> USE DEF RequestInv, Goto
<1> DEFINE Given == {200, 400, 404, 405, 500, 503}
<1>1. /\ pc \in Inside /\ NothingSaid /\ answer = NoAnswer /\ panicked = "no" /\ logged = <<>>
      /\ ~Refused /\ req.route # "none"
      /\ UNCHANGED <<router, req, ctxErr, armed, panicked, claim, logged>>
  BY DEF Answer, Health, HealthAnswer, RequestPhases, SubstituteInv, Inside, Before, After
<1>2. CASE pc' = "health" /\ probe' = "live" /\ Silent /\ UNCHANGED answer
  <2>1. TypeOK'
    BY <1>1, <1>2 DEF TypeOK, Layers, Silent
  <2>2. RequestPhases' /\ ClaimsInv' /\ TimerInv'
    BY <1>1, <1>2 DEF RequestPhases, ClaimsInv, TimerInv, NothingSaid, Silent, Refused, Before,
                      Inside, After
  <2>3. AnswerInv' /\ SubstituteInv'
    BY <1>1, <1>2 DEF AnswerInv, SubstituteInv, Refused, Before, Inside, After
  <2>4. QED
    BY <2>1, <2>2, <2>3
<1>3. CASE /\ pc' = "answered" /\ probe' = probe
           /\ \/ \E c \in Given :
                    /\ answer' = [code |-> c, body |-> TRUE]
                    /\ WriteBody("handler", c)
              \/ /\ answer' = [code |-> 200, body |-> FALSE]
                 /\ WriteStatus(200)
  <2>1. PICK c \in Given, b \in BOOLEAN :
          /\ answer' = [code |-> c, body |-> b] /\ status' = c
          /\ b => bodies' = <<"handler">> /\ sent' = TRUE
          /\ ~b => bodies' = <<>> /\ c = 200 /\ sent' \in BOOLEAN /\ (sent' <=> router = "chi")
    <3>1. CASE answer' = [code |-> 200, body |-> FALSE] /\ WriteStatus(200)
      <4>1. status' = 200 /\ bodies' = <<>> /\ sent' \in BOOLEAN /\ (sent' <=> router = "chi")
        BY <1>1, <3>1 DEF NothingSaid, WriteStatus
      <4>2. 200 \in Given /\ FALSE \in BOOLEAN
        OBVIOUS
      <4>3. QED
        BY <3>1, <4>1, <4>2
    <3>2. CASE \E c \in Given : answer' = [code |-> c, body |-> TRUE] /\ WriteBody("handler", c)
      <4>1. PICK c \in Given : answer' = [code |-> c, body |-> TRUE] /\ WriteBody("handler", c)
        BY <3>2
      <4>2. status' = c /\ bodies' = <<"handler">> /\ sent' = TRUE /\ TRUE \in BOOLEAN
        BY <1>1, <4>1 DEF NothingSaid, WriteBody
      <4> HIDE DEF Given
      <4>3. QED
        BY <4>1, <4>2
    <3>3. QED
      BY <1>3, <3>1, <3>2
  <2>2. TypeOK' /\ answer' # NoAnswer
    <3>1. bodies' \in Seq(Authors)
      BY <2>1, OneAuthor
    <3>2. c \in Codes /\ c # 0
      BY DEF Codes
    <3>3. answer' \in [code : Codes, body : BOOLEAN] /\ answer' # NoAnswer
      BY <2>1, <3>2 DEF NoAnswer
    <3>4. status' \in Codes /\ status' # 0 /\ sent' \in BOOLEAN
      BY <2>1, <3>2
    <3>5. pc' \in Layers
      BY <1>3 DEF Layers
    <3>6. QED
      BY <1>1, <1>3, <3>1, <3>3, <3>4, <3>5 DEF TypeOK
  <2>3. RequestPhases' /\ ClaimsInv' /\ TimerInv'
    BY <1>1, <1>3, <2>1, <2>2 DEF RequestPhases, ClaimsInv, TimerInv, Refused, Before, Inside, After
  <2>4. AnswerInv' /\ SubstituteInv'
    <3>1. answer'.code = c /\ answer'.body = b /\ Replied' = (b \/ router = "chi")
      BY <1>1, <2>1, <2>2 DEF Replied
    <3>2. AnswerInv'
      BY <1>1, <1>3, <2>1, <3>1 DEF AnswerInv, After
    <3>3. SubstituteInv'
      BY <1>1, <1>3, <2>2 DEF SubstituteInv, Refused, After
    <3>4. QED
      BY <3>2, <3>3
  <2>5. QED
    BY <2>2, <2>3, <2>4
<1>4. QED
  BY <1>1, <1>2, <1>3 DEF Answer, Health, HealthAnswer

(***************************************************************************)
(* Returning and panicking only choose the way out.                        *)
(***************************************************************************)
LEMMA LeavesStep ==
  RequestInv /\ (Return \/ \E how \in {"panic", "abort"} : Panic(how)) => RequestInv'
<1> SUFFICES ASSUME RequestInv, Return \/ \E how \in {"panic", "abort"} : Panic(how)
             PROVE  RequestInv'
  OBVIOUS
<1>1. /\ Silent /\ pc \in {"handler", "answered"} /\ pc' \in {"check", "recover"}
      /\ panicked' \in {"no", "panic", "abort"} /\ (pc' = "recover" <=> panicked' # "no")
      /\ UNCHANGED <<router, req, ctxErr, armed, answer, probe, claim, logged>>
  BY DEF RequestInv, Return, Panic, Goto, RequestPhases, After
<1> USE DEF RequestInv, Silent
<1>2. TypeOK'
  BY <1>1 DEF TypeOK, Layers
<1>3. RequestPhases' /\ ClaimsInv' /\ TimerInv'
  BY <1>1 DEF RequestPhases, ClaimsInv, TimerInv, Refused, Before, Inside, After
<1>4. AnswerInv' /\ SubstituteInv'
  BY <1>1 DEF RequestPhases, ClaimsInv, AnswerInv, SubstituteInv, NothingSaid, Refused, Replied,
              Before, Inside, After
<1>5. QED
  BY <1>2, <1>3, <1>4

(***************************************************************************)
(* The two layers outside of the handler write only where nobody has.      *)
(***************************************************************************)
LEMMA SubstituteStep == RequestInv /\ (CheckDeadline \/ Recover) => RequestInv'
<1> SUFFICES ASSUME RequestInv, CheckDeadline \/ Recover PROVE RequestInv'
  OBVIOUS
<1> USE DEF RequestInv, Goto
<1>1. /\ pc \in {"check", "recover"} /\ (pc = "recover" <=> panicked # "no")
      /\ pc' = "log" /\ logged = <<>> /\ ~armed' /\ armed' \in BOOLEAN
      /\ UNCHANGED <<router, req, ctxErr, panicked, answer, probe, claim, logged>>
  BY DEF CheckDeadline, Recover, RequestPhases, After
<1>2. \/ sent /\ Silent
      \/ ~sent /\ bodies = <<>> /\ status \in {0, 200} /\ ~Refused /\ ~Replied
  <2>1. CASE sent
    BY <1>1, <2>1 DEF CheckDeadline, Recover, Written
  <2>2. CASE ~sent
    <3>1. ~Refused
      BY <2>2 DEF ClaimsInv
    <3>2. CASE answer = NoAnswer
      BY <1>1, <2>2, <3>1, <3>2 DEF SubstituteInv, NothingSaid, Replied, NoAnswer
    <3>3. CASE answer # NoAnswer
      BY <1>1, <2>2, <3>1, <3>3 DEF AnswerInv, After
    <3>4. QED
      BY <3>2, <3>3
  <2>3. QED
    BY <2>1, <2>2
<1>3. CASE sent /\ Silent
  <2>1. /\ req.route # "none"
        /\ answer = NoAnswer => Refused
    BY <1>1, <1>3 DEF SubstituteInv, NothingSaid, After
  <2>2. Replied \/ Refused
    BY <1>1, <1>3, <2>1 DEF AnswerInv, After
  <2>3. TypeOK' /\ RequestPhases' /\ ClaimsInv' /\ TimerInv'
    BY <1>1, <1>3 DEF TypeOK, Layers, Silent, RequestPhases, ClaimsInv, TimerInv, Refused, Before,
                      Inside, After
  <2>4. AnswerInv' /\ SubstituteInv'
    BY <1>1, <1>3, <2>1, <2>2 DEF AnswerInv, SubstituteInv, Silent, Refused, Replied, After
  <2>5. QED
    BY <2>3, <2>4
<1>4. CASE ~sent /\ bodies = <<>> /\ status \in {0, 200} /\ ~Refused /\ ~Replied
  <2>1. IF panicked = "panic"
        THEN status' = 500 /\ bodies' = <<"recoverer">> /\ sent'
        ELSE IF panicked = "no" /\ ctxErr = "deadline"
        THEN status' = 504 /\ bodies' = <<"timeout">> /\ sent'
        ELSE status' = status /\ bodies' = <<>> /\ sent' = sent
    BY <1>1, <1>4 DEF CheckDeadline, Recover, WriteBody, Silent, Written, DeadlinePassed, TimerInv,
                      After
  <2>2. req.route # "none" /\ ~Refused' /\ ~Replied'
    BY <1>1, <1>4 DEF SubstituteInv, Refused, Replied, After
  <2>3. sent' \in BOOLEAN /\ status' \in Codes /\ (sent' => status' # 0)
    <3>1. status \in Codes /\ sent \in BOOLEAN /\ {500, 504} \subseteq Codes
      BY DEF TypeOK, Codes
    <3>2. sent' \in BOOLEAN
      BY <3>1 DEF CheckDeadline, Recover, WriteBody, Silent
    <3>3. QED
      BY <1>4, <2>1, <3>1, <3>2
  <2>4. TypeOK'
    <3>1. bodies' \in Seq(Authors)
      BY <2>1, OneAuthor
    <3>2. pc' \in Layers
      BY <1>1 DEF Layers
    <3>3. QED
      BY <1>1, <2>3, <3>1, <3>2 DEF TypeOK
  <2>5. RequestPhases' /\ ClaimsInv' /\ TimerInv'
    BY <1>1, <2>2 DEF RequestPhases, ClaimsInv, TimerInv, Refused, Before, Inside, After
  <2>6. AnswerInv' /\ SubstituteInv'
    BY <1>1, <1>4, <2>1, <2>2 DEF AnswerInv, SubstituteInv, After
  <2>7. QED
    BY <2>4, <2>5, <2>6
<1>5. QED
  BY <1>2, <1>3, <1>4

(***************************************************************************)
(* The log and net/http agree on what an answer without a status means.    *)
(***************************************************************************)
LEMMA EndsStep == RequestInv /\ (AccessLog \/ Flush) => RequestInv'
<1> SUFFICES ASSUME RequestInv, AccessLog \/ Flush PROVE RequestInv'
  OBVIOUS
<1> USE DEF RequestInv, Goto
<1>1. /\ pc \in After /\ pc' \in {"flush", "done"} /\ bodies' = bodies
      /\ UNCHANGED <<router, req, ctxErr, armed, panicked, answer, probe, claim>>
      /\ status # 0 => status' = status
      /\ status = 0 => status' \in {0, 200}
      /\ sent => sent'
      /\ sent' \in BOOLEAN /\ status' \in Codes /\ (sent' => status' # 0)
      /\ pc' = "done" => status' # 0
  <2>1. status \in Codes /\ sent \in BOOLEAN /\ (sent => status # 0) /\ 200 \in Codes
    BY DEF TypeOK, Codes
  <2>2. CASE AccessLog
    BY <2>1, <2>2 DEF AccessLog, Silent, After
  <2>3. CASE Flush
    BY <2>1, <2>3 DEF Flush, After
  <2>4. QED
    BY <2>2, <2>3
<1>2. logged' = <<LoggedStatus>> /\ LoggedStatus' = LoggedStatus /\ LoggedStatus \in Codes
  <2>1. LoggedStatus \in Codes
    BY DEF LoggedStatus, TypeOK, Codes
  <2>2. LoggedStatus' = LoggedStatus
    BY DEF AccessLog, Flush, Silent, LoggedStatus
  <2>3. CASE AccessLog
    BY <2>1, <2>2, <2>3 DEF AccessLog, RequestPhases
  <2>4. CASE Flush
    BY <2>1, <2>2, <2>4 DEF Flush, RequestPhases
  <2>5. QED
    BY <2>3, <2>4
<1>3. TypeOK'
  <2>1. pc' \in Layers /\ logged' \in Seq(Codes)
    BY <1>1, <1>2 DEF Layers
  <2>2. QED
    BY <1>1, <2>1 DEF TypeOK
<1>4. RequestPhases'
  BY <1>1, <1>2 DEF RequestPhases, Before, Inside, After
<1>5. ClaimsInv' /\ TimerInv'
  BY <1>1 DEF ClaimsInv, TimerInv, Refused, Before, After
<1>6. AnswerInv' /\ SubstituteInv'
  BY <1>1 DEF AnswerInv, SubstituteInv, Refused, Replied, Before, After
<1>7. QED
  BY <1>3, <1>4, <1>5, <1>6

LEMMA AlwaysRequestInv == Spec => []RequestInv
<1>1. ASSUME RequestInv, [Next]_vars PROVE RequestInv'
  <2>1. CASE UNCHANGED vars
    BY <1>1, <2>1 DEF vars, RequestInv, TypeOK, RequestPhases, NothingSaid, ClaimsInv, TimerInv,
                      AnswerInv, SubstituteInv, Refused, Replied, LoggedStatus
  <2>2. CASE Server
    BY <1>1, <2>2, NothingIsWrittenYet, RouteMissingStep, IdempotencyStep, AnswersStep, LeavesStep,
       SubstituteStep, EndsStep DEF Server
  <2>3. QED
    BY <1>1, <2>1, <2>2, ContextsEnd DEF Next, Done
<1>2. QED
  BY <1>1, RequestBegins, PTL DEF Spec

(***************************************************************************)
(* What a handler has answered is what the client gets, whatever comes     *)
(* after it, and nobody adds to it (AnswerKept).                           *)
(***************************************************************************)
THEOREM AnswersAreKept == Spec => []AnswerKept
<1>1. ASSUME RequestInv PROVE AnswerKept
  <2>1. pc = "done" /\ Replied => /\ status = answer.code
                                  /\ bodies = IF answer.body THEN <<"handler">> ELSE <<>>
    BY <1>1 DEF RequestInv, AnswerInv, Replied, TypeOK, NoAnswer
  <2>2. \E layer : bodies = <<>> \/ bodies = <<layer>>
    <3>1. CASE pc \in Before \cup Inside \/ Refused
      BY <1>1, <3>1 DEF RequestInv, RequestPhases, ClaimsInv, NothingSaid
    <3>2. CASE pc \in {"answered", "check", "recover"} /\ ~Refused
      BY <1>1, <3>2 DEF RequestInv, RequestPhases, AnswerInv, SubstituteInv, NothingSaid, After
    <3>3. CASE pc \in After /\ ~Refused
      <4>1. CASE Replied
        BY <1>1, <4>1 DEF RequestInv, AnswerInv, Replied, TypeOK, NoAnswer
      <4>2. CASE ~Replied
        BY <1>1, <3>3, <4>2 DEF RequestInv, SubstituteInv
      <4>3. QED
        BY <4>1, <4>2
    <3>4. QED
      BY <1>1, <3>1, <3>2, <3>3 DEF RequestInv, TypeOK, Layers, Before, Inside, After
  <2>3. QED
    <3>1. PICK layer : bodies = <<>> \/ bodies = <<layer>>
      BY <2>2
    <3>2. Len(bodies) <= 1
      <4>1. CASE bodies = <<>>
        BY <4>1
      <4>2. CASE bodies = <<layer>>
        <5>1. Len(<<layer>>) = 1
          OBVIOUS
        <5>2. Len(bodies) = 1
          BY <4>2, <5>1, Zenon
        <5>3. QED
          BY <5>2
      <4>3. QED
        BY <3>1, <4>1, <4>2
    <3>3. QED
      BY <2>1, <3>2 DEF AnswerKept
<1>2. QED
  BY <1>1, AlwaysRequestInv, PTL

(***************************************************************************)
(* 504 tells of a deadline that passed in time, and of nothing else        *)
(* (GatewayTimeoutIffDeadline).                                            *)
(***************************************************************************)
THEOREM GatewayTimeoutsAreDeadlines == Spec => []GatewayTimeoutIffDeadline
<1>1. ASSUME RequestInv, pc = "done", req.route # "none"
      PROVE  status = 504 <=> ctxErr = "deadline" /\ panicked = "no" /\ ~Refused /\ ~Replied
  <2>1. CASE Refused
    BY <1>1, <2>1 DEF RequestInv, ClaimsInv
  <2>2. CASE Replied
    BY <1>1, <2>2 DEF RequestInv, AnswerInv, Replied, TypeOK, NoAnswer
  <2>3. CASE ~Refused /\ ~Replied
    BY <1>1, <2>3 DEF RequestInv, SubstituteInv, After
  <2>4. QED
    BY <2>1, <2>2, <2>3
<1>2. RequestInv => GatewayTimeoutIffDeadline
  BY <1>1 DEF GatewayTimeoutIffDeadline
<1>3. QED
  BY <1>2, AlwaysRequestInv, PTL

(***************************************************************************)
(* No handler runs without the claim that its request needs                *)
(* (HandlerNeedsClaim).                                                    *)
(***************************************************************************)
THEOREM HandlersHoldClaims == Spec => []HandlerNeedsClaim
<1>1. ASSUME RequestInv PROVE HandlerNeedsClaim
  <2>1. HandlerRan => pc \notin Before /\ ~Refused
    BY <1>1 DEF RequestInv, RequestPhases, ClaimsInv, HandlerRan, Refused, Before, Inside, After
  <2>2. QED
    BY <1>1, <2>1 DEF RequestInv, ClaimsInv, HandlerNeedsClaim, TypeOK
<1>2. QED
  BY <1>1, AlwaysRequestInv, PTL

(***************************************************************************)
(* The access log has one line, with the status that was sent              *)
(* (LoggedAsSent).                                                         *)
(***************************************************************************)
THEOREM LogsTellWhatWasSent == Spec => []LoggedAsSent
<1>1. RequestInv => LoggedAsSent
  BY DEF RequestInv, RequestPhases, LoggedStatus, LoggedAsSent
<1>2. QED
  BY <1>1, AlwaysRequestInv, PTL
-----------------------------------------------------------------------------
(* One gRPC call. *)

LEMMA CallBegins == CallInit => CallInv
<1> SUFFICES ASSUME CallInit PROVE CallInv
  OBVIOUS
<1>1. CallTypeOK
  BY DEF CallInit, CallTypeOK, Errs, NoId
<1>2. ResultInv /\ StatusInv /\ OkIsInTime /\ OneTrace
  BY DEF CallInit, ResultInv, StatusInv, OkIsInTime, OneTrace
<1>3. QED
  BY <1>1, <1>2 DEF CallInv

(***************************************************************************)
(* The server's span continues the trace that its client sends, if there   *)
(* is one.                                                                 *)
(***************************************************************************)
LEMMA InvokeStep == CallInv /\ Invoke => CallInv'
<1> SUFFICES ASSUME CallInv, Invoke PROVE CallInv'
  OBVIOUS
<1>1. call \in Calls
  BY DEF CallInv, CallTypeOK
<1>2. ClientTrace(call) # NoId => traceId' = ClientTrace(call)
  BY DEF Invoke, StartTrace, OutgoingTrace, Extract, StartSpan
<1>3. traceId' \in Id
  <2>1. ClientTrace(call) \in Id \cup {NoId}
    <3>1. call.headers.traceparent \in {NoId, "upstream"}
      BY <1>1 DEF Calls, CallFields, Empty
    <3>2. Extract(call.headers) \in Id \cup {NoId}
      BY <3>1 DEF Extract, SpanContextFromTraceID, Id, ForeignId
    <3>3. QED
      BY <3>2 DEF ClientTrace, CallerTrace, StartClientTrace, TraceID,
                  StartSpan, Id
  <2>2. call.metadata.traceparent \in Id \cup {NoId}
    BY <1>1 DEF Calls, CallFields, Empty, Id, ForeignId
  <2>3. Extract(OutgoingTrace(call.metadata, ClientTrace(call)))
          \in Id \cup {NoId}
    BY <2>1, <2>2 DEF OutgoingTrace, Extract, SpanContextFromTraceID
  <2>4. QED
    BY <2>3 DEF Invoke, StartTrace, StartSpan, Id
<1>4. CallTypeOK'
  BY <1>3 DEF CallInv, Invoke, CallTypeOK
<1>5. ResultInv' /\ StatusInv' /\ OkIsInTime'
  BY DEF CallInv, Invoke, ResultInv, StatusInv, OkIsInTime
<1>6. OneTrace'
  BY <1>2 DEF CallInv, Invoke, OneTrace
<1>7. QED
  BY <1>4, <1>5, <1>6 DEF CallInv

(***************************************************************************)
(* A handler hands on the error of its context only once the context is    *)
(* done.                                                                   *)
(***************************************************************************)
LEMMA HandlerStep == CallInv /\ Handler => CallInv'
<1> SUFFICES ASSUME CallInv, Handler PROVE CallInv'
  OBVIOUS
<1>1. /\ at' = "recover"
      /\ result' \in {"OK", "InvalidArgument", "NotFound", "Internal", "ctx", "panic"}
      /\ result' = "OK" => effect' = TRUE
      /\ effect' \in BOOLEAN
      /\ result' = "ctx" => serverCtx # "none"
      /\ UNCHANGED <<call, clientCtx, serverCtx, bounded, code, atCheck, callLogged, span,
                     traceId, got>>
  BY DEF Handler, GrpcError
<1>2. CallTypeOK'
  BY <1>1 DEF CallInv, CallTypeOK, StatusCodes
<1>3. ResultInv' /\ StatusInv' /\ OkIsInTime'
  BY <1>1 DEF ResultInv, StatusInv, OkIsInTime
<1>4. OneTrace'
  BY <1>1 DEF CallInv, OneTrace
<1>5. QED
  BY <1>2, <1>3, <1>4 DEF CallInv

(***************************************************************************)
(* The status is what was recovered, or what became of the context.        *)
(***************************************************************************)
LEMMA StatusStep == CallInv /\ (RecoverCall \/ Check) => CallInv'
<1> SUFFICES ASSUME CallInv, RecoverCall \/ Check PROVE CallInv'
  OBVIOUS
<1>1. CASE RecoverCall
  <2>1. /\ at = "recover" /\ at' = "check" /\ code' = Recovered
        /\ Recovered' = Recovered /\ Recovered \in StatusCodes \cup {"ctx"}
    BY <1>1 DEF RecoverCall, Recovered, CallInv, CallTypeOK, ResultInv, StatusCodes
  <2>2. CallTypeOK'
    BY <1>1, <2>1 DEF RecoverCall, CallInv, CallTypeOK
  <2>3. ResultInv' /\ StatusInv' /\ OkIsInTime' /\ OneTrace'
    BY <1>1, <2>1 DEF RecoverCall, CallInv, ResultInv, StatusInv, OkIsInTime,
                      OneTrace
  <2>4. QED
    BY <2>2, <2>3 DEF CallInv
<1>2. CASE Check
  <2>1. /\ at = "check" /\ at' = "log" /\ atCheck' = serverCtx
        /\ code' = FinalCode /\ code = Recovered
        /\ UNCHANGED <<call, clientCtx, serverCtx, bounded, result, effect, callLogged, span,
                       traceId, got>>
    BY <1>2 DEF Check, CallInv, StatusInv
  <2>2. code \in StatusCodes \cup {"ctx"} /\ (code = "ctx" => serverCtx # "none")
    BY <2>1 DEF CallInv, ResultInv, CallTypeOK, Recovered, StatusCodes
  <2>3. FinalCode \in StatusCodes
    BY <2>2 DEF FinalCode, CallInv, CallTypeOK, Errs, StatusCodes
  <2>4. code' = "OK" => /\ atCheck' = "none" /\ result' = "OK" /\ effect'
    BY <2>1, <2>2 DEF FinalCode, Recovered, CallInv, ResultInv, CallTypeOK,
                      Errs
  <2>5. CallTypeOK'
    BY <2>1, <2>3 DEF CallInv, CallTypeOK
  <2>6. ResultInv' /\ StatusInv' /\ OkIsInTime' /\ OneTrace'
    BY <2>1, <2>3, <2>4 DEF CallInv, ResultInv, StatusInv, OkIsInTime,
                            OneTrace
  <2>7. QED
    BY <2>5, <2>6 DEF CallInv
<1>3. QED
  BY <1>1, <1>2

(***************************************************************************)
(* Log and span take the status as it is; the rest of the world only ends  *)
(* contexts and receives.                                                  *)
(***************************************************************************)
LEMMA ReportsStep ==
  /\ CallInv
  /\ \/ Log \/ EndTrace \/ Receive \/ GiveUp \/ Disconnected
     \/ \E err \in Errs \ {"none"} : ClientEnds(err) \/ ServerEnds(err)
     \/ UNCHANGED callVars
  => CallInv'
<1> SUFFICES ASSUME CallInv,
                    \/ Log \/ EndTrace \/ Receive \/ GiveUp \/ Disconnected
                    \/ \E err \in Errs \ {"none"} : ClientEnds(err) \/ ServerEnds(err)
                    \/ UNCHANGED callVars
             PROVE  CallInv'
  OBVIOUS
<1> USE DEF CallInv, Log, EndTrace, SpanStatus, Receive, GiveUp,
            Disconnected, Deliver, ClientEnds, ServerEnds, callVars
<1>1. /\ call \in Calls /\ bounded \subseteq {"client", "server"}
      /\ UNCHANGED <<call, bounded, result, effect, code, atCheck, traceId>>
      /\ code \in StatusCodes \cup {"none", "panic", "ctx"}
      /\ clientCtx \in Errs /\ serverCtx \in Errs
  BY DEF CallTypeOK
<1>2. /\ clientCtx' \in Errs /\ serverCtx' \in Errs
      /\ serverCtx # "none" => serverCtx' = serverCtx
  BY <1>1
<1>3. \/ at = "log" /\ at' = "trace" /\ callLogged' = code /\ span' = span
      \/ at = "trace" /\ at' = "sent" /\ callLogged' = callLogged /\ span' = code
      \/ at' = at /\ callLogged' = callLogged /\ span' = span
  OBVIOUS
<1>4. got' \in StatusCodes \cup {"none"}
  <2>1. "Unavailable" \in StatusCodes /\ Errs \ {"none"} \subseteq StatusCodes
    BY DEF StatusCodes, Errs
  <2>2. at = "sent" => code \in StatusCodes
    BY DEF StatusInv
  <2>3. QED
    BY <1>1, <2>1, <2>2 DEF CallTypeOK
<1>5. CallTypeOK'
  BY <1>1, <1>2, <1>3, <1>4 DEF CallTypeOK, StatusInv
<1>6. ResultInv' /\ OkIsInTime' /\ OneTrace'
  BY <1>1, <1>2, <1>3 DEF ResultInv, OkIsInTime, OneTrace
<1>7. StatusInv'
  BY <1>1, <1>3 DEF StatusInv, Recovered
<1>8. QED
  BY <1>5, <1>6, <1>7

LEMMA AlwaysCallInv == CallSpec => []CallInv
<1>1. ASSUME CallInv, [CallNext]_callVars PROVE CallInv'
  BY <1>1, InvokeStep, HandlerStep, StatusStep, ReportsStep DEF CallNext, ServeCall, Finished
<1>2. QED
  BY <1>1, CallBegins, PTL DEF CallSpec

(***************************************************************************)
(* A success is never answered too late or after a panic (OkIsInTime).     *)
(***************************************************************************)
THEOREM SuccessesAreInTime == CallSpec => []OkIsInTime
<1>1. CallInv => OkIsInTime
  BY DEF CallInv
<1>2. QED
  BY <1>1, AlwaysCallInv, PTL

(***************************************************************************)
(* The log, the span and the caller are told the same status               *)
(* (ReportsAgree).                                                         *)
(***************************************************************************)
THEOREM EveryoneIsToldTheSame == CallSpec => []ReportsAgree
<1>1. CallInv => ReportsAgree
  BY DEF CallInv, StatusInv, ReportsAgree
<1>2. QED
  BY <1>1, AlwaysCallInv, PTL

(***************************************************************************)
(* The server works in the trace of its caller, whatever the metadata that *)
(* the caller forwards (OneTrace).                                         *)
(***************************************************************************)
THEOREM TracesAreOne == CallSpec => []OneTrace
<1>1. CallInv => OneTrace
  BY DEF CallInv
<1>2. QED
  BY <1>1, AlwaysCallInv, PTL
=============================================================================
