----------------------------- MODULE Lifecycle -----------------------------
(***************************************************************************)
(* The process of the service: run of cmd/server/main.go, New and Close of *)
(* internal/app/app.go, Run of internal/app/lifecycle.go and Shutdown of   *)
(* internal/common/rpc/server.go.  Resources are opened one after the      *)
(* other, the servers listen, serve and are shut down, and the resources   *)
(* are closed in reverse; a signal, a failing step, a failing server, the  *)
(* requests and the shutdown timer come in any order.  net/http and grpc   *)
(* are external: Shutdown and GracefulStop close the listener at once and  *)
(* wait for the requests; forced, they leave running handlers behind.      *)
(***************************************************************************)
EXTENDS Naturals

CONSTANTS Endpoints,    \* the servers a build can have: "http", "profiler", "grpc"
          MaxResources, \* tracer, database, redis: how many the build has
          MaxRequests   \* bound on the requests in progress at a server

ASSUME LifecycleAssumption ==
  /\ Endpoints \subseteq {"http", "profiler", "grpc"}
  /\ MaxResources \in Nat /\ MaxRequests \in Nat \ {0}

VARIABLES configured,  \* the servers of this process
          signaled,    \* the context of SignalContext is done
          pc,          \* where main is
          opened,      \* how many resources are open: the first ones, in order
          listening,   \* the servers whose listener is open
          serving,     \* what the goroutine that calls serve is doing
          requests,    \* requests[e]: handlers of e that are running
          stopping,    \* what the goroutine that calls shutdown is doing
          expired,     \* stopCtx is done
          failed,      \* main has an error to report
          exit         \* the exit code, "none" as long as the process runs

vars == <<configured, signaled, pc, opened, listening, serving, requests,
          stopping, expired, failed, exit>>

TypeOK ==
  /\ configured \subseteq Endpoints
  /\ signaled \in BOOLEAN /\ expired \in BOOLEAN /\ failed \in BOOLEAN
  /\ pc \in {"open", "wire", "run", "listen", "select", "stop", "wait", "leave",
             "close", "exit"}
  /\ opened \in 0 .. MaxResources
  /\ listening \subseteq configured
  /\ serving \in [Endpoints -> {"no", "starting", "yes", "failed", "closed"}]
  /\ requests \in [Endpoints -> 0 .. MaxRequests]
  /\ stopping \in [Endpoints -> {"no", "starting", "draining", "drained", "forced"}]
  /\ exit \in {"none", "zero", "one"}

Init ==
  /\ configured \in {c \in SUBSET Endpoints : c \cap {"http", "grpc"} # {}}
  /\ signaled = FALSE /\ expired = FALSE /\ failed = FALSE
  /\ pc = "open" /\ opened = 0 /\ listening = {}
  /\ serving = [e \in Endpoints |-> "no"]
  /\ requests = [e \in Endpoints |-> 0]
  /\ stopping = [e \in Endpoints |-> "no"]
  /\ exit = "none"

servers == <<listening, serving, requests, stopping>>
-----------------------------------------------------------------------------
(* New. *)

Signal == /\ ~signaled /\ exit = "none"
          /\ signaled' = TRUE
          /\ UNCHANGED <<configured, pc, opened, servers, expired, failed, exit>>

\* cleanup of New closes what was opened.
FailNew == failed' = TRUE /\ pc' = "close" /\ UNCHANGED <<opened, exit>>

\* The configuration is read and one resource after the other opened.
Open ==
  /\ pc = "open"
  /\ \/ /\ opened < MaxResources
        /\ opened' = opened + 1
        /\ UNCHANGED <<pc, failed, exit>>
     \/ /\ opened = MaxResources
        /\ pc' = "wire"
        /\ UNCHANGED <<opened, failed, exit>>
     \/ opened < MaxResources /\ FailNew
  /\ UNCHANGED <<configured, signaled, servers, expired>>

\* configureTransports.
Wire ==
  /\ pc = "wire"
  /\ \/ pc' = "run" /\ UNCHANGED <<opened, failed, exit>>
     \/ FailNew
  /\ UNCHANGED <<configured, signaled, servers, expired>>
-----------------------------------------------------------------------------
(* Run. *)

RunStarts ==
  /\ pc = "run"
  /\ pc' = IF signaled THEN "close" ELSE "listen"
  /\ UNCHANGED <<configured, signaled, opened, servers, expired, failed, exit>>

\* All listen before one serves; an address that cannot be bound ends Run.
Listen ==
  /\ pc = "listen"
  /\ \/ /\ \E e \in configured \ listening : listening' = listening \cup {e}
        /\ UNCHANGED <<pc, serving, failed>>
     \/ /\ listening # configured
        /\ pc' = "leave" /\ failed' = TRUE
        /\ UNCHANGED <<listening, serving>>
     \/ /\ listening = configured
        /\ pc' = "select"
        /\ serving' = [e \in Endpoints |-> IF e \in configured THEN "starting" ELSE "no"]
        /\ UNCHANGED <<listening, failed>>
  /\ UNCHANGED <<configured, signaled, opened, requests, stopping, expired, exit>>

\* select: when both are ready either may win, and later errors are not read.
Select ==
  /\ pc = "select"
  /\ \/ signaled /\ UNCHANGED failed
     \/ (\E e \in configured : serving[e] = "failed") /\ failed' = TRUE
  /\ pc' = "stop"
  /\ UNCHANGED <<configured, signaled, opened, servers, expired, exit>>

Stop ==
  /\ pc = "stop"
  /\ stopping' = [e \in Endpoints |-> IF e \in configured THEN "starting" ELSE "no"]
  /\ pc' = "wait"
  /\ UNCHANGED <<configured, signaled, opened, listening, serving, requests,
                 expired, failed, exit>>

\* Broken variant: the first server that has stopped is enough.
AllStopped_First == \E e \in configured : stopping[e] \in {"drained", "forced"}
AllStopped == \A e \in configured : stopping[e] \in {"drained", "forced"}

\* Broken variant: the errors of the shutdown replace the one of serving.
ErrorAtStop_Replaced == \E e \in configured : stopping[e] = "forced"
ErrorAtStop == failed \/ \E e \in configured : stopping[e] = "forced"

Wait ==
  /\ pc = "wait"
  /\ AllStopped
  /\ failed' = ErrorAtStop
  /\ pc' = "leave"
  /\ UNCHANGED <<configured, signaled, opened, servers, expired, exit>>

\* Broken variant: the deferred call does not close the listeners.
ListenersAfterRun_Kept == listening
ListenersAfterRun == {}

Leave ==
  /\ pc = "leave"
  /\ listening' = ListenersAfterRun
  /\ pc' = "close"
  /\ UNCHANGED <<configured, signaled, opened, serving, requests, stopping, expired,
                 failed, exit>>

MoreToClose == opened > 0

\* Application.Close, or cleanup of New: the last resource first; then main returns.
Close ==
  /\ pc = "close"
  /\ IF MoreToClose
     THEN opened' = opened - 1 /\ UNCHANGED <<pc, exit>>
     ELSE /\ pc' = "exit"
          /\ exit' = IF failed THEN "one" ELSE "zero"
          /\ UNCHANGED opened
  /\ UNCHANGED <<configured, signaled, servers, expired, failed>>

Main == \/ Open \/ Wire \/ RunStarts \/ Listen \/ Select \/ Stop \/ Wait \/ Leave \/ Close
-----------------------------------------------------------------------------
(* The servers, their goroutines and the timer. *)

main == <<configured, signaled, pc, opened, expired, failed, exit>>

\* The goroutine gets to call Serve, perhaps only after the shutdown.
Serve(e) ==
  /\ exit = "none" /\ serving[e] = "starting"
  /\ IF stopping[e] \in {"no", "starting"}
     THEN serving' = [serving EXCEPT ![e] = "yes"] /\ UNCHANGED listening
     ELSE /\ serving' = [serving EXCEPT ![e] = "closed"]
          /\ listening' = listening \ {e}
  /\ UNCHANGED <<main, requests, stopping>>

ServeFails(e) ==
  /\ exit = "none" /\ serving[e] = "yes"
  /\ serving' = [serving EXCEPT ![e] = "failed"]
  /\ listening' = listening \ {e}
  /\ UNCHANGED <<main, requests, stopping>>

Accept(e) ==
  /\ exit = "none" /\ serving[e] = "yes" /\ e \in listening
  /\ requests[e] < MaxRequests
  /\ requests' = [requests EXCEPT ![e] = @ + 1]
  /\ UNCHANGED <<main, listening, serving, stopping>>

Finish(e) ==
  /\ exit = "none" /\ requests[e] > 0
  /\ requests' = [requests EXCEPT ![e] = @ - 1]
  /\ UNCHANGED <<main, listening, serving, stopping>>

\* Shutdown and GracefulStop: no more connections.
Refuse(e) ==
  /\ exit = "none" /\ stopping[e] = "starting"
  /\ stopping' = [stopping EXCEPT ![e] = "draining"]
  /\ serving' = [serving EXCEPT ![e] = IF @ = "yes" THEN "closed" ELSE @]
  /\ listening' = IF serving[e] = "yes" THEN listening \ {e} ELSE listening
  /\ UNCHANGED <<main, requests>>

Drained(e) ==
  /\ exit = "none" /\ stopping[e] = "draining" /\ requests[e] = 0
  /\ stopping' = [stopping EXCEPT ![e] = "drained"]
  /\ UNCHANGED <<main, listening, serving, requests>>

Expire ==
  /\ pc = "wait" /\ ~expired
  /\ expired' = TRUE
  /\ UNCHANGED <<configured, signaled, pc, opened, failed, exit, servers>>

\* Broken variant: the shutdown waits for the requests, however long they take.
TimeIsUp_Never == FALSE
TimeIsUp == expired

\* srv.Close, server.Stop: the connections are cut, the error is reported.
Forced(e) ==
  /\ exit = "none" /\ stopping[e] = "draining" /\ TimeIsUp
  /\ stopping' = [stopping EXCEPT ![e] = "forced"]
  /\ UNCHANGED <<main, listening, serving, requests>>

Exited == exit # "none" /\ UNCHANGED vars

Next ==
  \/ Signal \/ Main \/ Expire \/ Exited
  \/ \E e \in Endpoints :
        \/ Serve(e) \/ ServeFails(e) \/ Accept(e) \/ Finish(e)
        \/ Refuse(e) \/ Drained(e) \/ Forced(e)

Spec == Init /\ [][Next]_vars

(***************************************************************************)
(* Goroutines that can run are scheduled and the timer fires.  Nothing is  *)
(* assumed of clients and handlers: a handler may run for ever.            *)
(***************************************************************************)
FairSpec == /\ Spec /\ WF_vars(Main) /\ WF_vars(Expire)
            /\ \A e \in Endpoints : /\ WF_vars(Refuse(e))
                                    /\ WF_vars(Drained(e) \/ Forced(e))
-----------------------------------------------------------------------------
Busy == \E e \in configured : requests[e] > 0

(***************************************************************************)
(* Run without an error means a graceful end (lifecycle.go:102-109): no    *)
(* handler is running any more when the first resource is closed.          *)
(***************************************************************************)
CleanRunIsDrained == pc \in {"leave", "close", "exit"} /\ ~failed => ~Busy

(***************************************************************************)
(* No request is accepted once a resource it needs is being closed, even   *)
(* after a forced stop or a server that failed (main.go:44-46).            *)
(***************************************************************************)
RequestsFindResources ==
  [][\A e \in Endpoints : requests'[e] > requests[e]
        => opened = MaxResources /\ pc \in {"select", "stop", "wait"}]_vars

(***************************************************************************)
(* Every path out of the process gives back what it took: resources        *)
(* (app.go:72-76, 137-141) and listeners (lifecycle.go:64-68).             *)
(***************************************************************************)
NothingLeftOpen == /\ exit # "none" => opened = 0
                   /\ pc \in {"close", "exit"} => listening = {}

(***************************************************************************)
(* The exit code is 0 only for a process that was asked to stop: a server  *)
(* that dies on its own is an error (lifecycle.go:91-94, 105-107).         *)
(***************************************************************************)
ZeroOnlyOnSignal == exit = "zero" => signaled

(***************************************************************************)
(* A signal, or a server that fails, ends the process, however long the    *)
(* handlers run (lifecycle.go:95-107, server.go:35-45).                    *)
(***************************************************************************)
ProcessEnds ==
  (signaled \/ \E e \in configured : serving[e] = "failed") ~> exit # "none"
-----------------------------------------------------------------------------
(* The inductive invariant behind the safety properties. *)

\* Which resources and listeners are open at which point of main.
Progress ==
  /\ pc \in {"wire", "run", "listen", "select", "stop", "wait", "leave"}
        => opened = MaxResources
  /\ pc \in {"open", "wire", "run", "close", "exit"} => listening = {}
  /\ exit # "none" => pc = "exit" /\ opened = 0

\* Nobody serves before all listen, and nobody stops before the select is over.
NotYet ==
  \A e \in Endpoints :
    /\ pc \in {"open", "wire", "run", "listen"} => serving[e] = "no" /\ requests[e] = 0
    /\ pc \in {"open", "wire", "run", "listen", "select", "stop"} => stopping[e] = "no"

\* A server that serves belongs to the process and has not been told to stop.
ServerStates ==
  \A e \in Endpoints :
    /\ serving[e] # "no" => e \in configured
    /\ serving[e] = "yes" => /\ pc \in {"select", "stop", "wait"}
                             /\ stopping[e] \in {"no", "starting"}
    /\ stopping[e] = "drained" => requests[e] = 0

\* When Run is over every server has stopped, or none was ever started; a server
\* that was stopped by force is an error.
RunIsOver ==
  pc \in {"leave", "close", "exit"} =>
    \/ \A e \in Endpoints : serving[e] = "no" /\ stopping[e] = "no" /\ requests[e] = 0
    \/ AllStopped /\ (failed \/ \A e \in configured : stopping[e] = "drained")

\* Main goes on to the end for one of two reasons.
Reason ==
  /\ pc \in {"stop", "wait", "leave", "close", "exit"} => signaled \/ failed
  /\ exit = "zero" => signaled

IInv == TypeOK /\ Progress /\ NotYet /\ ServerStates /\ RunIsOver /\ Reason
=============================================================================
