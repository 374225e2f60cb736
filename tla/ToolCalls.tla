------------------------------ MODULE ToolCalls ------------------------------
(***************************************************************************)
(* What every tool call goes through: withMetrics (src/metrics.ts) around  *)
(* withTrace (src/trace.ts) around the handler, whose requests to          *)
(* Blackboard pass the interceptor of src/bb-client.ts.                    *)
(*                                                                         *)
(* A handler sends its requests in batches: those of one batch together    *)
(* (Promise.all), the next batch when all of the last one are answered.    *)
(* Each request first awaits an access token, and is counted when it has   *)
(* one.  The first request of a batch to fail fails the handler; the       *)
(* others still go out, after the call is over.                            *)
(*                                                                         *)
(* This module has the state and the operators; the tools are actions of   *)
(* the modules that extend it.                                             *)
(***************************************************************************)
EXTENDS Naturals, Sequences, FiniteSets, SequencesExt, FiniteSetsExt

CONSTANTS
  Calls,          \* the tool calls of a run, each made at most once
  TraceCapacity,  \* TRACE_CAPACITY
  None            \* an absent value

ASSUME TraceCapacityAssumption == TraceCapacity \in Nat \ {0}
ASSUME NoneAssumption == None \notin {"ok", "empty", "reported", "thrown"}

\* The tools that are called here, and those that an alias calls.
ToolNames ==
  {"list_enrollments", "create_enrollment", "update_enrollment",
   "delete_enrollment", "list_users", "get_user", "list_audit_logs",
   "list_webhook_subscriptions", "get_webhook_subscription",
   "create_webhook_subscription", "update_webhook_subscription",
   "delete_webhook_subscription", "get_grades",
   "list_courses", "get_my_courses", "get_course_contents", "get_course_content"}

\* The tools registered twice: the alias's handler calls the wrapped handler.
Aliased ==
  [alias \in {"list_courses", "get_course_contents"} |->
     IF alias = "list_courses" THEN "get_my_courses" ELSE "get_course_content"]

\* The names a call of tool is measured under, innermost first.
Frames(tool) ==
  IF tool \in DOMAIN Aliased THEN <<Aliased[tool], tool>> ELSE <<tool>>

\* f with the values of g where f has none.
Completed(f, g) ==
  [x \in DOMAIN f \cup DOMAIN g |-> IF x \in DOMAIN f THEN f[x] ELSE g[x]]

VARIABLES
  stats,        \* stats: calls and errors of each tool called so far
  traceBuffer,  \* traceBuffer
  call,         \* each call: its tool and arguments, and how far it is
  traced        \* history: all the trace entries ever recorded

toolVars == <<stats, traceBuffer, call, traced>>

\* waiting: requests that have no token yet; out: requests sent and not yet
\* answered; batches: the sizes of the batches to come; upstreamCalls: the
\* count in the innermost trace store; sent: history, the requests sent.
NewCall(tool, args, batches) ==
  [stage |-> "running", tool |-> tool, args |-> args,
   waiting |-> Head(batches), out |-> 0, batches |-> Tail(batches),
   upstreamCalls |-> 0, sent |-> 0, answer |-> None]

Unused == [stage |-> "unused"]

ToolInit ==
  /\ stats = <<>>
  /\ traceBuffer = <<>>
  /\ call = [c \in Calls |-> Unused]
  /\ traced = <<>>

Running(c) == call[c].stage = "running"
Made == {c \in Calls : call[c].stage # "unused"}
Over == {c \in Made : call[c].stage = "over"}

-----------------------------------------------------------------------------
(* The wrapper.                                                            *)

\* Mutant: one entry too many is dropped when the buffer is full.
DropTwo(entries) ==
  IF Len(entries) > TraceCapacity
    THEN SubSeq(entries, 3, Len(entries)) ELSE entries

\* Mutant: the buffer is taken for full one entry too late.
KeepOneMore(entries) ==
  IF Len(entries) > TraceCapacity + 1
    THEN SubSeq(entries, Len(entries) - TraceCapacity, Len(entries))
    ELSE entries

KeepNewest(entries) ==
  IF Len(entries) > TraceCapacity
    THEN SubSeq(entries, Len(entries) - TraceCapacity + 1, Len(entries))
    ELSE entries

\* Each scope drops what is too much when it records its entry.
Recorded(buffer, entries) ==
  LET inner == KeepNewest(Append(buffer, entries[1]))
  IN  IF Len(entries) = 1 THEN inner
      ELSE KeepNewest(Append(inner, entries[2]))

\* Only the innermost scope is current while the handler runs: the scope an
\* alias adds around it counts no request.
TraceEntries(c, record, answer) ==
  [i \in DOMAIN Frames(record.tool) |->
     [call |-> c, tool |-> Frames(record.tool)[i],
      upstreamCalls |-> IF i = 1 THEN record.upstreamCalls ELSE 0,
      error |-> answer = "thrown"]]

StatsOf(tool) ==
  IF tool \in DOMAIN stats THEN stats[tool] ELSE [calls |-> 0, errors |-> 0]

\* Mutant: the counters are updated after the call, not in a finally block.
RecordIfReturned(tools, error) ==
  [t \in DOMAIN stats \cup tools |->
     IF t \notin tools \/ error THEN StatsOf(t)
     ELSE [calls |-> StatsOf(t).calls + 1, errors |-> StatsOf(t).errors]]

RecordToolCall(tools, error) ==
  [t \in DOMAIN stats \cup tools |->
     IF t \notin tools THEN StatsOf(t)
     ELSE [calls |-> StatsOf(t).calls + 1,
           errors |-> StatsOf(t).errors + (IF error THEN 1 ELSE 0)]]

\* The handler returns or throws: each scope around it, from the inside out,
\* records its trace and its counters, and the answer goes to the client.
Settle(c, record, answer) ==
  LET entries == TraceEntries(c, record, answer) IN
  /\ traced' = traced \o entries
  /\ traceBuffer' = Recorded(traceBuffer, entries)
  /\ stats' = RecordToolCall(Range(Frames(record.tool)), answer = "thrown")
  /\ call' = [call EXCEPT ![c] =
                [record EXCEPT !.stage = "over", !.answer = answer]]

Continue(c, record) ==
  /\ call' = [call EXCEPT ![c] = record]
  /\ UNCHANGED <<stats, traceBuffer, traced>>

-----------------------------------------------------------------------------
(* Requests to Blackboard.                                                 *)

\* Mutant: the request is counted against whichever call is in scope last,
\* in a variable all calls share.
CountedForAnother(c, d) ==
  d = IF \E o \in Calls : Running(o) /\ o # c
        THEN CHOOSE o \in Calls : Running(o) /\ o # c ELSE c

CountedFor(c, d) == d = c

\* The interceptor: with a token the request is counted and goes out.
RequestSent(c) ==
  /\ c \in Made
  /\ call[c].waiting > 0
  /\ call' = [d \in Calls |->
       IF d \notin {c} \cup Made THEN call[d]
       ELSE LET counted == IF CountedFor(c, d) THEN 1 ELSE 0
                going == IF d = c THEN 1 ELSE 0
            IN  [call[d] EXCEPT !.waiting = @ - going, !.out = @ + going,
                                !.sent = @ + going,
                                !.upstreamCalls = @ + counted]]
  /\ UNCHANGED <<stats, traceBuffer, traced>>

\* A good answer, which noted keeps in the call's record: the handler goes on
\* with its next batch, or returns.
RequestAnswered(c, noted) ==
  LET record == [noted EXCEPT !.out = @ - 1] IN
  /\ \/ /\ ~Running(c) \/ record.waiting + record.out > 0
        /\ Continue(c, record)
     \/ /\ Running(c) /\ record.waiting + record.out = 0
        /\ IF record.batches # <<>>
             THEN Continue(c, [record EXCEPT !.waiting = Head(record.batches),
                                             !.batches = Tail(@)])
             ELSE Settle(c, record, "ok")

\* A request that fails, for want of a token or of a good answer, leaves this
\* record of its call.
WithoutToken(c) == [call[c] EXCEPT !.waiting = @ - 1]
WithoutAnswer(c) == [call[c] EXCEPT !.out = @ - 1]

\* What the handler makes of the failure: an error that it throws, or a result
\* that says so.  After the call is over nobody looks at it.
RequestFailed(c, record, answer) ==
  IF Running(c) THEN Settle(c, record, answer) ELSE Continue(c, record)

-----------------------------------------------------------------------------
(* Properties of every tool call.                                          *)

ToolTypeOK ==
  /\ traceBuffer \in Seq([call : Calls, tool : ToolNames,
                          upstreamCalls : Nat, error : BOOLEAN])
  /\ Len(traceBuffer) <= TraceCapacity
  /\ \A c \in Made :
       /\ call[c].stage \in {"running", "over"}
       /\ call[c].waiting \in Nat /\ call[c].out \in Nat
       /\ call[c].answer \in {None, "ok", "empty", "reported", "thrown"}
       /\ call[c].answer # None <=> c \in Over
       /\ Running(c) => call[c].waiting + call[c].out > 0

\* The counters of /metrics and the traces tell the same story: for each tool,
\* as many calls and as many errors, failing calls and aliases included.
MetricsAgreeWithTraces ==
  \A t \in {traced[i].tool : i \in DOMAIN traced} :
    LET of == {i \in DOMAIN traced : traced[i].tool = t} IN
    StatsOf(t) = [calls |-> Cardinality(of),
                  errors |-> Cardinality({i \in of : traced[i].error})]

\* The buffer holds exactly the newest entries, however many one call adds.
TraceBufferIsNewest ==
  traceBuffer = SubSeq(traced, Len(traced) - Len(traceBuffer) + 1, Len(traced))
  /\ Len(traceBuffer) = Min({TraceCapacity, Len(traced)})

\* A handler's own trace entry never counts a request of another call, however
\* their requests interleave, and misses none of its own unless it failed
\* while others of the batch were still waiting for a token.
TraceCountsOwnRequests ==
  \A i \in DOMAIN traced :
    LET e == traced[i] IN
    e.tool = Frames(call[e.call].tool)[1] =>
      /\ e.upstreamCalls <= call[e.call].sent
      /\ ~e.error => e.upstreamCalls = call[e.call].sent

\* What is recorded of the calls is what happened: counters, traces and the
\* upstream counts in them (withMetrics, withTrace and the interceptor).
CallsAreRecorded ==
  MetricsAgreeWithTraces /\ TraceBufferIsNewest /\ TraceCountsOwnRequests
==============================================================================
