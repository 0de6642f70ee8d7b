------------------------- MODULE Lifecycle_proofs -------------------------
(***************************************************************************)
(* Machine-checked proofs about the process, for any number of resources   *)
(* and requests and any of its servers.  The inductive invariant is IInv   *)
(* of module Lifecycle.                                                    *)
(***************************************************************************)
EXTENDS Lifecycle, TLAPS

(***************************************************************************)
(* The initial state satisfies the inductive invariant.                    *)
(***************************************************************************)
LEMMA InitIInv == Init => IInv
<1> SUFFICES ASSUME Init PROVE IInv
  OBVIOUS
<1>1. TypeOK
  <2>1. serving \in [Endpoints -> {"no", "starting", "yes", "failed", "closed"}]
    BY DEF Init
  <2>2. requests \in [Endpoints -> 0 .. MaxRequests]
    BY LifecycleAssumption DEF Init
  <2>3. stopping \in [Endpoints -> {"no", "starting", "draining", "drained", "forced"}]
    BY DEF Init
  <2>4. opened \in 0 .. MaxResources
    BY LifecycleAssumption DEF Init
  <2>5. configured \subseteq Endpoints
    BY DEF Init
  <2>6. QED
    BY <2>1, <2>2, <2>3, <2>4, <2>5 DEF Init, TypeOK
<1>2. Progress /\ NotYet /\ ServerStates /\ RunIsOver /\ Reason
  BY DEF Init, Progress, NotYet, ServerStates, RunIsOver, Reason
<1>3. QED
  BY <1>1, <1>2 DEF IInv

(***************************************************************************)
(* Every step keeps the inductive invariant.                               *)
(***************************************************************************)
LEMMA NextIInv == IInv /\ [Next]_vars => IInv'
<1> SUFFICES ASSUME IInv, [Next]_vars PROVE IInv'
  OBVIOUS
<1> USE LifecycleAssumption DEF IInv
<1>1. CASE Signal
  <2>1. TypeOK'
    BY <1>1 DEF Signal, servers, TypeOK
  <2>2. Progress'
    BY <1>1 DEF Signal, servers, Progress, TypeOK
  <2>3. NotYet'
    BY <1>1 DEF Signal, servers, NotYet, TypeOK
  <2>4. ServerStates'
    BY <1>1 DEF Signal, servers, ServerStates, AllStopped, TypeOK
  <2>5. RunIsOver'
    BY <1>1 DEF Signal, servers, RunIsOver, AllStopped, TypeOK
  <2>6. Reason'
    BY <1>1 DEF Signal, servers, Reason, TypeOK
  <2>7. QED
    BY <2>1, <2>2, <2>3, <2>4, <2>5, <2>6
<1>2. CASE Open
  <2>1. TypeOK'
    <3>1. UNCHANGED <<configured, signaled, expired, listening, serving, requests, stopping>>
      BY <1>2 DEF Open, servers
    <3>2. opened' \in 0 .. MaxResources
      BY <1>2 DEF Open, FailNew, TypeOK
    <3>3. pc' \in {"open", "wire", "close"} /\ exit' = exit
      BY <1>2 DEF Open, FailNew
    <3>4. failed' = TRUE \/ failed' = failed
      BY <1>2 DEF Open, FailNew
    <3>5. QED
      BY <3>1, <3>2, <3>3, <3>4 DEF TypeOK
  <2>2. Progress'
    BY <1>2 DEF Open, FailNew, servers, Progress, TypeOK
  <2>3. NotYet'
    BY <1>2 DEF Open, FailNew, servers, NotYet, TypeOK
  <2>4. ServerStates'
    BY <1>2 DEF Open, FailNew, servers, ServerStates, AllStopped, TypeOK
  <2>5. RunIsOver'
    BY <1>2 DEF Open, FailNew, servers, RunIsOver, AllStopped, TypeOK, NotYet
  <2>6. Reason'
    BY <1>2 DEF Open, FailNew, servers, Reason, TypeOK
  <2>7. QED
    BY <2>1, <2>2, <2>3, <2>4, <2>5, <2>6
<1>3. CASE Wire
  <2>1. TypeOK'
    BY <1>3 DEF Wire, FailNew, servers, TypeOK
  <2>2. Progress'
    BY <1>3 DEF Wire, FailNew, servers, Progress, TypeOK
  <2>3. NotYet'
    BY <1>3 DEF Wire, FailNew, servers, NotYet, TypeOK
  <2>4. ServerStates'
    BY <1>3 DEF Wire, FailNew, servers, ServerStates, AllStopped, TypeOK
  <2>5. RunIsOver'
    BY <1>3 DEF Wire, FailNew, servers, RunIsOver, AllStopped, TypeOK, NotYet
  <2>6. Reason'
    BY <1>3 DEF Wire, FailNew, servers, Reason, TypeOK
  <2>7. QED
    BY <2>1, <2>2, <2>3, <2>4, <2>5, <2>6
<1>4. CASE RunStarts
  <2>1. TypeOK'
    BY <1>4 DEF RunStarts, servers, TypeOK
  <2>2. Progress'
    BY <1>4 DEF RunStarts, servers, Progress, TypeOK
  <2>3. NotYet'
    BY <1>4 DEF RunStarts, servers, NotYet, TypeOK
  <2>4. ServerStates'
    BY <1>4 DEF RunStarts, servers, ServerStates, AllStopped, TypeOK
  <2>5. RunIsOver'
    BY <1>4 DEF RunStarts, servers, RunIsOver, AllStopped, TypeOK, NotYet
  <2>6. Reason'
    BY <1>4 DEF RunStarts, servers, Reason, TypeOK
  <2>7. QED
    BY <2>1, <2>2, <2>3, <2>4, <2>5, <2>6
<1>5. CASE Listen
  <2>1. TypeOK'
    BY <1>5 DEF Listen, TypeOK
  <2>2. Progress'
    BY <1>5 DEF Listen, Progress, TypeOK
  <2>3. NotYet'
    BY <1>5 DEF Listen, NotYet, TypeOK
  <2>4. ServerStates'
    BY <1>5 DEF Listen, ServerStates, AllStopped, TypeOK, NotYet, Progress
  <2>5. RunIsOver'
    BY <1>5 DEF Listen, RunIsOver, AllStopped, TypeOK, NotYet
  <2>6. Reason'
    BY <1>5 DEF Listen, Reason, TypeOK
  <2>7. QED
    BY <2>1, <2>2, <2>3, <2>4, <2>5, <2>6
<1>6. CASE Select
  <2>1. TypeOK'
    BY <1>6 DEF Select, servers, TypeOK
  <2>2. Progress'
    BY <1>6 DEF Select, servers, Progress, TypeOK
  <2>3. NotYet'
    BY <1>6 DEF Select, servers, NotYet, TypeOK
  <2>4. ServerStates'
    BY <1>6 DEF Select, servers, ServerStates, AllStopped, TypeOK
  <2>5. RunIsOver'
    BY <1>6 DEF Select, servers, RunIsOver, AllStopped, TypeOK
  <2>6. Reason'
    BY <1>6 DEF Select, servers, Reason, TypeOK
  <2>7. QED
    BY <2>1, <2>2, <2>3, <2>4, <2>5, <2>6
<1>7. CASE Stop
  <2>1. TypeOK'
    BY <1>7 DEF Stop, TypeOK
  <2>2. Progress'
    BY <1>7 DEF Stop, Progress, TypeOK
  <2>3. NotYet'
    BY <1>7 DEF Stop, NotYet, TypeOK
  <2>4. ServerStates'
    BY <1>7 DEF Stop, ServerStates, AllStopped, TypeOK, NotYet
  <2>5. RunIsOver'
    BY <1>7 DEF Stop, RunIsOver, AllStopped, TypeOK
  <2>6. Reason'
    BY <1>7 DEF Stop, Reason, TypeOK
  <2>7. QED
    BY <2>1, <2>2, <2>3, <2>4, <2>5, <2>6
<1>8. CASE Wait
  <2>1. TypeOK'
    BY <1>8 DEF Wait, ErrorAtStop, servers, TypeOK
  <2>2. Progress'
    BY <1>8 DEF Wait, ErrorAtStop, servers, Progress, TypeOK
  <2>3. NotYet'
    BY <1>8 DEF Wait, ErrorAtStop, servers, NotYet, TypeOK
  <2>4. ServerStates'
    BY <1>8 DEF Wait, ErrorAtStop, servers, ServerStates, AllStopped, TypeOK
  <2>5. RunIsOver'
    BY <1>8 DEF Wait, ErrorAtStop, servers, RunIsOver, AllStopped, TypeOK
  <2>6. Reason'
    BY <1>8 DEF Wait, ErrorAtStop, servers, Reason, TypeOK
  <2>7. QED
    BY <2>1, <2>2, <2>3, <2>4, <2>5, <2>6
<1>9. CASE Leave
  <2>1. TypeOK'
    BY <1>9 DEF Leave, ListenersAfterRun, TypeOK
  <2>2. Progress'
    BY <1>9 DEF Leave, ListenersAfterRun, Progress, TypeOK
  <2>3. NotYet'
    BY <1>9 DEF Leave, ListenersAfterRun, NotYet, TypeOK
  <2>4. ServerStates'
    BY <1>9 DEF Leave, ListenersAfterRun, ServerStates, AllStopped, TypeOK
  <2>5. RunIsOver'
    BY <1>9 DEF Leave, ListenersAfterRun, RunIsOver, AllStopped, TypeOK
  <2>6. Reason'
    BY <1>9 DEF Leave, ListenersAfterRun, Reason, TypeOK
  <2>7. QED
    BY <2>1, <2>2, <2>3, <2>4, <2>5, <2>6
<1>10. CASE Close
  <2>1. TypeOK'
    BY <1>10 DEF Close, MoreToClose, servers, TypeOK
  <2>2. Progress'
    BY <1>10 DEF Close, MoreToClose, servers, Progress, TypeOK
  <2>3. NotYet'
    BY <1>10 DEF Close, MoreToClose, servers, NotYet, TypeOK
  <2>4. ServerStates'
    BY <1>10 DEF Close, MoreToClose, servers, ServerStates, AllStopped, TypeOK
  <2>5. RunIsOver'
    BY <1>10 DEF Close, MoreToClose, servers, RunIsOver, AllStopped, TypeOK
  <2>6. Reason'
    BY <1>10 DEF Close, MoreToClose, servers, Reason, TypeOK
  <2>7. QED
    BY <2>1, <2>2, <2>3, <2>4, <2>5, <2>6
<1>11. CASE Expire
  <2>1. TypeOK'
    BY <1>11 DEF Expire, servers, TypeOK
  <2>2. Progress'
    BY <1>11 DEF Expire, servers, Progress, TypeOK
  <2>3. NotYet'
    BY <1>11 DEF Expire, servers, NotYet, TypeOK
  <2>4. ServerStates'
    BY <1>11 DEF Expire, servers, ServerStates, AllStopped, TypeOK
  <2>5. RunIsOver'
    BY <1>11 DEF Expire, servers, RunIsOver, AllStopped, TypeOK
  <2>6. Reason'
    BY <1>11 DEF Expire, servers, Reason, TypeOK
  <2>7. QED
    BY <2>1, <2>2, <2>3, <2>4, <2>5, <2>6
<1>12. ASSUME NEW e \in Endpoints, Serve(e) PROVE IInv'
  <2>1. TypeOK'
    BY <1>12 DEF Serve, main, TypeOK
  <2>2. Progress'
    BY <1>12 DEF Serve, main, Progress, TypeOK, NotYet
  <2>3. NotYet'
    BY <1>12 DEF Serve, main, NotYet, TypeOK, ServerStates
  <2>4. ServerStates'
    BY <1>12 DEF Serve, main, ServerStates, AllStopped, TypeOK, NotYet, RunIsOver
  <2>5. RunIsOver'
    BY <1>12 DEF Serve, main, RunIsOver, AllStopped, TypeOK
  <2>6. Reason'
    BY <1>12 DEF Serve, main, Reason, TypeOK
  <2>7. QED
    BY <2>1, <2>2, <2>3, <2>4, <2>5, <2>6
<1>13. ASSUME NEW e \in Endpoints, ServeFails(e) PROVE IInv'
  <2>1. TypeOK'
    BY <1>13 DEF ServeFails, main, TypeOK
  <2>2. Progress'
    BY <1>13 DEF ServeFails, main, Progress, TypeOK
  <2>3. NotYet'
    BY <1>13 DEF ServeFails, main, NotYet, TypeOK
  <2>4. ServerStates'
    BY <1>13 DEF ServeFails, main, ServerStates, AllStopped, TypeOK
  <2>5. RunIsOver'
    BY <1>13 DEF ServeFails, main, RunIsOver, AllStopped, TypeOK
  <2>6. Reason'
    BY <1>13 DEF ServeFails, main, Reason, TypeOK
  <2>7. QED
    BY <2>1, <2>2, <2>3, <2>4, <2>5, <2>6
<1>14. ASSUME NEW e \in Endpoints, Accept(e) PROVE IInv'
  <2>1. TypeOK'
    BY <1>14 DEF Accept, main, TypeOK
  <2>2. Progress'
    BY <1>14 DEF Accept, main, Progress, TypeOK
  <2>3. NotYet'
    BY <1>14 DEF Accept, main, NotYet, TypeOK, ServerStates
  <2>4. ServerStates'
    BY <1>14 DEF Accept, main, ServerStates, AllStopped, TypeOK, Progress
  <2>5. RunIsOver'
    BY <1>14 DEF Accept, main, RunIsOver, AllStopped, TypeOK, ServerStates
  <2>6. Reason'
    BY <1>14 DEF Accept, main, Reason, TypeOK
  <2>7. QED
    BY <2>1, <2>2, <2>3, <2>4, <2>5, <2>6
<1>15. ASSUME NEW e \in Endpoints, Finish(e) PROVE IInv'
  <2>1. TypeOK'
    BY <1>15 DEF Finish, main, TypeOK
  <2>2. Progress'
    BY <1>15 DEF Finish, main, Progress, TypeOK
  <2>3. NotYet'
    BY <1>15 DEF Finish, main, NotYet, TypeOK
  <2>4. ServerStates'
    BY <1>15 DEF Finish, main, ServerStates, AllStopped, TypeOK
  <2>5. RunIsOver'
    BY <1>15 DEF Finish, main, RunIsOver, AllStopped, TypeOK
  <2>6. Reason'
    BY <1>15 DEF Finish, main, Reason, TypeOK
  <2>7. QED
    BY <2>1, <2>2, <2>3, <2>4, <2>5, <2>6
<1>16. ASSUME NEW e \in Endpoints, Refuse(e) PROVE IInv'
  <2>1. TypeOK'
    BY <1>16 DEF Refuse, main, TypeOK
  <2>2. Progress'
    BY <1>16 DEF Refuse, main, Progress, TypeOK
  <2>3. NotYet'
    BY <1>16 DEF Refuse, main, NotYet, TypeOK
  <2>4. ServerStates'
    BY <1>16 DEF Refuse, main, ServerStates, AllStopped, TypeOK, NotYet
  <2>5. RunIsOver'
    BY <1>16 DEF Refuse, main, RunIsOver, AllStopped, TypeOK
  <2>6. Reason'
    BY <1>16 DEF Refuse, main, Reason, TypeOK
  <2>7. QED
    BY <2>1, <2>2, <2>3, <2>4, <2>5, <2>6
<1>17. ASSUME NEW e \in Endpoints, Drained(e) PROVE IInv'
  <2>1. TypeOK'
    BY <1>17 DEF Drained, main, TypeOK
  <2>2. Progress'
    BY <1>17 DEF Drained, main, Progress, TypeOK
  <2>3. NotYet'
    BY <1>17 DEF Drained, main, NotYet, TypeOK
  <2>4. ServerStates'
    BY <1>17 DEF Drained, main, ServerStates, AllStopped, TypeOK
  <2>5. RunIsOver'
    BY <1>17 DEF Drained, main, RunIsOver, AllStopped, TypeOK
  <2>6. Reason'
    BY <1>17 DEF Drained, main, Reason, TypeOK
  <2>7. QED
    BY <2>1, <2>2, <2>3, <2>4, <2>5, <2>6
<1>18. ASSUME NEW e \in Endpoints, Forced(e) PROVE IInv'
  <2>1. TypeOK'
    BY <1>18 DEF Forced, TimeIsUp, main, TypeOK
  <2>2. Progress'
    BY <1>18 DEF Forced, TimeIsUp, main, Progress, TypeOK
  <2>3. NotYet'
    BY <1>18 DEF Forced, TimeIsUp, main, NotYet, TypeOK
  <2>4. ServerStates'
    BY <1>18 DEF Forced, TimeIsUp, main, ServerStates, AllStopped, TypeOK
  <2>5. RunIsOver'
    BY <1>18 DEF Forced, TimeIsUp, main, RunIsOver, AllStopped, TypeOK, ServerStates
  <2>6. Reason'
    BY <1>18 DEF Forced, TimeIsUp, main, Reason, TypeOK
  <2>7. QED
    BY <2>1, <2>2, <2>3, <2>4, <2>5, <2>6
<1>19. CASE UNCHANGED vars
  BY <1>19 DEF vars, servers, TypeOK, Progress, NotYet, ServerStates, RunIsOver, Reason,
    AllStopped
<1>20. QED
  BY <1>1, <1>2, <1>3, <1>4, <1>5, <1>6, <1>7, <1>8, <1>9, <1>10, <1>11, <1>12,
     <1>13, <1>14, <1>15, <1>16, <1>17, <1>18, <1>19 DEF Next, Main, Exited

(***************************************************************************)
(* The inductive invariant holds in every reachable state.                 *)
(***************************************************************************)
THEOREM Invariance == Spec => []IInv
BY InitIInv, NextIInv, PTL DEF Spec

(***************************************************************************)
(* Types.                                                                  *)
(***************************************************************************)
THEOREM TypeCorrect == Spec => []TypeOK
<1>1. IInv => TypeOK
  BY DEF IInv
<1>2. QED
  BY Invariance, <1>1, PTL

(***************************************************************************)
(* Run returns without an error only when every handler has finished       *)
(* (lifecycle.go:102-109).                                                 *)
(***************************************************************************)
THEOREM CleanRunsAreDrained == Spec => []CleanRunIsDrained
<1>1. IInv => CleanRunIsDrained
  BY DEF IInv, TypeOK, RunIsOver, ServerStates, CleanRunIsDrained, Busy
<1>2. QED
  BY Invariance, <1>1, PTL

(***************************************************************************)
(* Resources and listeners are given back on every path (app.go:72-76,     *)
(* 137-141, lifecycle.go:64-68).                                           *)
(***************************************************************************)
THEOREM EverythingIsClosed == Spec => []NothingLeftOpen
<1>1. IInv => NothingLeftOpen
  BY DEF IInv, Progress, NothingLeftOpen
<1>2. QED
  BY Invariance, <1>1, PTL

(***************************************************************************)
(* Exit code 0 means that the process was asked to stop                    *)
(* (lifecycle.go:91-94, 105-107).                                          *)
(***************************************************************************)
THEOREM ZeroNeedsSignal == Spec => []ZeroOnlyOnSignal
<1>1. IInv => ZeroOnlyOnSignal
  BY DEF IInv, Reason, ZeroOnlyOnSignal
<1>2. QED
  BY Invariance, <1>1, PTL

(***************************************************************************)
(* A request is only accepted while every resource is open                 *)
(* (main.go:44-46).                                                        *)
(***************************************************************************)
THEOREM AcceptedRequestsFindResources == Spec => RequestsFindResources
<1>1. ASSUME IInv, [Next]_vars
      PROVE  [\A e \in Endpoints : requests'[e] > requests[e]
                => opened = MaxResources /\ pc \in {"select", "stop", "wait"}]_vars
  <2>1. CASE \E e \in Endpoints : Accept(e)
    BY <1>1, <2>1 DEF Accept, IInv, TypeOK, Progress, ServerStates
  <2>2. CASE \E e \in Endpoints : Finish(e)
    BY <1>1, <2>2 DEF Finish, IInv, TypeOK
  <2>3. CASE UNCHANGED requests
    BY <1>1, <2>3 DEF IInv, TypeOK
  <2>4. CASE UNCHANGED vars
    BY <2>4
  <2>5. QED
    BY <1>1, <2>1, <2>2, <2>3, <2>4
       DEF Next, Main, Signal, Open, Wire, RunStarts, Listen, Select, Stop, Wait, Leave,
           Close, Expire, Exited, Serve, ServeFails, Refuse, Drained, Forced, servers, vars
<1>2. QED
  BY Invariance, <1>1, PTL DEF Spec, RequestsFindResources
=============================================================================
