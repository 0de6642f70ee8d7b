------------------------------ MODULE RpcCall ------------------------------
(***************************************************************************)
(* One gRPC call from a client made by NewClient (internal/common/rpc/     *)
(* client.go) through the server's interceptors (interceptor.go) to a game *)
(* handler (internal/modules/game/grpc.go) and back.  The deadlines of     *)
(* both sides, the client's cancellation and the loss of the connection    *)
(* come at any moment; grpc is external.  The client's context is the      *)
(* parent of the server's: its end reaches the server, if it does, later.  *)
(* The trace the call belongs to goes with it; see Trace.                  *)
(***************************************************************************)
EXTENDS Trace

CONSTANT Kinds   \* "unary", "stream"

ASSUME RpcCallAssumption == Kinds \subseteq {"unary", "stream"}

VARIABLES call,       \* kind and configuration of the call
          clientCtx,  \* Err() of the context of the client's call
          serverCtx,  \* Err() of the context of the handler
          bounded,    \* the contexts that carry a deadline: "client", "server"
          at,         \* where the server is
          result,     \* what the handler returned, or "panic"
          effect,     \* the handler's transaction is committed
          code,       \* the status the server answers with, "none" before it
          atCheck,    \* history: serverCtx when it was looked at
          callLogged, \* the status in the access log
          span,       \* the status of the server's span
          traceId,    \* the trace of the server's span, log and answer, NoId before it
          got         \* the status the client's caller gets, "none" before it

callVars == <<call, clientCtx, serverCtx, bounded, at, result, effect, code, atCheck,
              callLogged, span, traceId, got>>

StatusCodes == {"OK", "InvalidArgument", "NotFound", "Internal", "Canceled",
                "DeadlineExceeded", "Unavailable"}
Errs == {"none", "Canceled", "DeadlineExceeded"}

CallFields ==
  [kind           : Kinds,
   callerDeadline : BOOLEAN,   \* the caller's context carries one
   clientTimeout  : BOOLEAN,   \* ClientConfig.Timeout is given, not 0
   serverTimeout  : BOOLEAN,   \* grpc.timeout > 0
   job            : BOOLEAN,   \* the caller is no HTTP handler and has no trace
   headers        :            \* of the HTTP request, if there is one
     {Empty} \cup [traceparent : {NoId, "upstream"}, xTraceId : {"given", Malformed}],
   metadata       :            \* that the caller's context already carries
     {Empty, [traceparent |-> "stale", xTraceId |-> "stale"]}]

Calls == {c \in CallFields : c.job => c.headers = Empty}

CallTypeOK ==
  /\ call \in Calls
  /\ clientCtx \in Errs /\ serverCtx \in Errs
  /\ bounded \subseteq {"client", "server"}
  /\ at \in {"network", "invoke", "handler", "recover", "check", "log", "trace", "sent"}
  /\ result \in StatusCodes \cup {"none", "panic", "ctx"}
  /\ effect \in BOOLEAN
  /\ code \in StatusCodes \cup {"none", "panic", "ctx"}
  /\ atCheck \in Errs
  /\ callLogged \in StatusCodes \cup {"none"} /\ span \in StatusCodes \cup {"none"}
  /\ traceId \in Id \cup {NoId}
  /\ got \in StatusCodes \cup {"none"}

\* Broken variant: a timeout that is not given means no timeout.
ClientBounded_IfGiven(c) == c.callerDeadline \/ (c.kind = "unary" /\ c.clientTimeout)
\* clientUnary always sets one, 5 s when none is given; a stream has its caller's.
ClientBounded(c) == c.callerDeadline \/ c.kind = "unary"

CallerTrace(c) == IF c.job THEN NoId ELSE TraceID(c.headers)

\* clientUnary starts a span of its own, clientStreamTrace does not.
ClientTrace(c) ==
  IF c.kind = "unary" THEN StartClientTrace(CallerTrace(c)) ELSE CallerTrace(c)

CallInit ==
  /\ call \in Calls
  /\ clientCtx = "none" /\ serverCtx = "none"
  /\ bounded = IF ClientBounded(call) THEN {"client"} ELSE {}
  /\ at = "network" /\ result = "none" /\ effect = FALSE /\ code = "none"
  /\ atCheck = "none" /\ callLogged = "none" /\ span = "none" /\ traceId = NoId /\ got = "none"
-----------------------------------------------------------------------------
(* Contexts. *)

ClientEnds(err) ==
  /\ clientCtx = "none" /\ got = "none"
  /\ err = "DeadlineExceeded" => "client" \in bounded
  /\ clientCtx' = err
  /\ UNCHANGED <<call, serverCtx, bounded, at, result, effect, code, atCheck, callLogged,
                 span, traceId, got>>

\* The server's own deadline, the one it got from the client, or a cancellation:
\* the client's end or a lost connection.
ServerEnds(err) ==
  /\ serverCtx = "none" /\ at \notin {"network", "sent"}
  /\ err = "DeadlineExceeded" => "server" \in bounded
  /\ serverCtx' = err
  /\ UNCHANGED <<call, clientCtx, bounded, at, result, effect, code, atCheck, callLogged,
                 span, traceId, got>>
-----------------------------------------------------------------------------
(* The server. *)

\* invoke: a deadline for unary calls, in addition to the client's, and a span.
Invoke ==
  /\ at = "network" /\ got = "none"
  /\ at' = "handler"
  /\ traceId' = StartTrace(OutgoingTrace(call.metadata, ClientTrace(call)))
  /\ bounded' = bounded \cup
       (IF (call.kind = "unary" /\ call.serverTimeout) \/ "client" \in bounded
        THEN {"server"} ELSE {})
  /\ UNCHANGED <<call, clientCtx, serverCtx, result, effect, code, atCheck, callLogged,
                 span, got>>

\* grpcError: the error of the module becomes a status.
GrpcError(err) ==
  CASE err \in {"ErrInvalid", "ErrIDs"} -> "InvalidArgument"
    [] err = "ErrNotFound" -> "NotFound"
    [] err = "ctx" -> "ctx"
    [] err = "other" -> "Internal"

\* The handler's transaction commits, or nothing changes; see GameStore.  A context
\* or database error may hide a commit.
Handler ==
  /\ at = "handler"
  /\ \/ result' = "OK" /\ effect' = TRUE
     \/ \E err \in {"ErrInvalid", "ErrIDs", "ErrNotFound"} :
           result' = GrpcError(err) /\ effect' = FALSE
     \/ result' = GrpcError("other") /\ effect' \in BOOLEAN
     \/ serverCtx # "none" /\ result' = GrpcError("ctx") /\ effect' \in BOOLEAN
     \/ result' = "panic" /\ effect' \in BOOLEAN
  /\ at' = "recover"
  /\ UNCHANGED <<call, clientCtx, serverCtx, bounded, code, atCheck, callLogged, span,
                 traceId, got>>

Recovered == IF result = "panic" THEN "Internal" ELSE result

RecoverCall ==
  /\ at = "recover"
  /\ code' = Recovered
  /\ at' = "check"
  /\ UNCHANGED <<call, clientCtx, serverCtx, bounded, result, effect, atCheck, callLogged,
                 span, traceId, got>>

\* Broken variant: an answer that comes too late is sent all the same.
FinalCode_Unchecked == IF code = "ctx" THEN serverCtx ELSE code
\* A context error, returned or found, becomes its status.
FinalCode == IF code = "ctx" \/ (code = "OK" /\ serverCtx # "none") THEN serverCtx ELSE code

Check ==
  /\ at = "check"
  /\ code' = FinalCode
  /\ atCheck' = serverCtx
  /\ at' = "log"
  /\ UNCHANGED <<call, clientCtx, serverCtx, bounded, result, effect, callLogged, span,
                 traceId, got>>

Log ==
  /\ at = "log"
  /\ callLogged' = code
  /\ at' = "trace"
  /\ UNCHANGED <<call, clientCtx, serverCtx, bounded, result, effect, code, atCheck,
                 span, traceId, got>>

\* Broken variant: the span is ended with what the handler returned.
SpanStatus_OfHandler == IF result \in StatusCodes THEN result ELSE "OK"
\* endTrace runs after the recovery and sees the named result.
SpanStatus == code

EndTrace ==
  /\ at = "trace"
  /\ span' = SpanStatus
  /\ at' = "sent"
  /\ UNCHANGED <<call, clientCtx, serverCtx, bounded, result, effect, code, atCheck,
                 callLogged, traceId, got>>
-----------------------------------------------------------------------------
(* The client. *)

Deliver(outcome) ==
  /\ got = "none" /\ got' = outcome
  /\ UNCHANGED <<call, clientCtx, serverCtx, bounded, at, result, effect, code, atCheck,
                 callLogged, span, traceId>>

Receive == at = "sent" /\ Deliver(code)
GiveUp == clientCtx # "none" /\ Deliver(clientCtx)
Disconnected == Deliver("Unavailable")

Finished == got # "none" /\ at \in {"network", "sent"} /\ UNCHANGED callVars

ServeCall == Invoke \/ Handler \/ RecoverCall \/ Check \/ Log \/ EndTrace

CallNext == \/ \E err \in Errs \ {"none"} : ClientEnds(err) \/ ServerEnds(err)
            \/ ServeCall \/ Receive \/ GiveUp \/ Disconnected \/ Finished

CallSpec == CallInit /\ [][CallNext]_callVars

(***************************************************************************)
(* A deadline that is set passes, grpc returns when the context is done or *)
(* the answer is there.  Nothing is assumed of the server and the network. *)
(***************************************************************************)
CallFairSpec ==
  CallSpec /\ WF_callVars(ClientEnds("DeadlineExceeded")) /\ WF_callVars(Receive \/ GiveUp)
-----------------------------------------------------------------------------
(***************************************************************************)
(* A success is only answered by a handler that finished before its        *)
(* context ended (interceptor.go:51-52) and without a panic.               *)
(***************************************************************************)
OkIsInTime == at \in {"log", "trace", "sent"} /\ code = "OK"
                => atCheck = "none" /\ result = "OK" /\ effect

(***************************************************************************)
(* The access log, the span and the caller are told the same               *)
(* (interceptor.go:43-57, the order of the deferred calls).                *)
(***************************************************************************)
ReportsAgree == at = "sent" => /\ code \in StatusCodes
                               /\ callLogged = code /\ span = code

(***************************************************************************)
(* The server works in the trace of its caller: that of the HTTP request   *)
(* the call belongs to, or the one the client has started for a unary      *)
(* call, whatever metadata the caller forwards (client_trace.go:16-28,     *)
(* trace.go:25-37, and trace.go of internal/common/server).                *)
(***************************************************************************)
OneTrace == traceId # NoId /\ ClientTrace(call) # NoId => traceId = ClientTrace(call)

(***************************************************************************)
(* A unary call returns, whatever becomes of the server (client.go:73-84): *)
(* there is always a deadline.                                             *)
(***************************************************************************)
UnaryReturns == call.kind = "unary" ~> got # "none"
-----------------------------------------------------------------------------
(* What every state satisfies, and why the properties hold. *)

\* The context has ended by the time anyone hands its error on.
ResultInv ==
  /\ result = "OK" => effect
  /\ result = "ctx" => serverCtx # "none"
  /\ at \in {"network", "handler"} <=> result = "none"

\* The status is decided once; the deferred functions pass it from one to the next.
StatusInv ==
  /\ at = "check" => code = Recovered
  /\ at \in {"log", "trace", "sent"} => code \in StatusCodes
  /\ at \in {"trace", "sent"} => callLogged = code
  /\ at = "sent" => span = code

CallInv == CallTypeOK /\ ResultInv /\ StatusInv /\ OkIsInTime /\ OneTrace
=============================================================================
