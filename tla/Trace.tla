------------------------------- MODULE Trace -------------------------------
(***************************************************************************)
(* Which trace a piece of work belongs to: internal/common/tracing, the    *)
(* TraceID middleware of internal/common/server/trace.go, and startTrace   *)
(* and startClientTrace of internal/common/rpc.  A context is represented  *)
(* by the id of its trace; span ids, sampling and baggage are left out.    *)
(* The W3C propagator and the provider of OpenTelemetry, which NewProvider *)
(* always installs, are external.                                          *)
(***************************************************************************)
NoId == "none"
Malformed == "malformed"

\* Those that come from elsewhere, and those a span started here may draw.
ForeignId == {"upstream", "given", "stale"}
Id == ForeignId \cup {"http", "client", "server"}

\* The headers of a request or the metadata of a call: traceparent and X-Trace-Id.
\* A malformed traceparent is like none.
Carrier == [traceparent : Id \cup {NoId}, xTraceId : Id \cup {NoId, Malformed}]

Empty == [traceparent |-> NoId, xTraceId |-> NoId]

SpanContextFromTraceID(value) == IF value \in Id THEN value ELSE NoId

\* The propagator's answer, and X-Trace-Id when it has none.
Extract(carrier) ==
  IF carrier.traceparent # NoId THEN carrier.traceparent
  ELSE SpanContextFromTraceID(carrier.xTraceId)

\* tracer.Start: a child of the span in the context, or the root of a new trace.
StartSpan(parent, fresh) == IF parent = NoId THEN fresh ELSE parent

TraceID(headers) == StartSpan(Extract(headers), "http")
StartTrace(metadata) == StartSpan(Extract(metadata), "server")
StartClientTrace(ctx) == StartSpan(ctx, "client")

\* Broken variant: what the caller's metadata already has comes first.
OutgoingTrace_Added(metadata, ctx) ==
  [traceparent |-> IF metadata.traceparent # NoId THEN metadata.traceparent ELSE ctx,
   xTraceId    |-> IF metadata.xTraceId # NoId THEN metadata.xTraceId ELSE ctx]
\* The trace of the context replaces whatever the caller's metadata has.
OutgoingTrace(metadata, ctx) ==
  IF ctx = NoId THEN metadata ELSE [traceparent |-> ctx, xTraceId |-> ctx]
=============================================================================
