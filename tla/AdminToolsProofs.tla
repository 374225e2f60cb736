-------------------------- MODULE AdminToolsProofs ---------------------------
(***************************************************************************)
(* Proofs about AdminTools and the tool calls of ToolCalls, for any calls, *)
(* resources and capacities of the buffers: what is recorded of a call is  *)
(* what happened, what a tool answers is true, and what changes in         *)
(* Blackboard is what some call asked for.                                 *)
(***************************************************************************)
EXTENDS AdminTools, SequenceTheorems, FiniteSetTheorems, TLAPS

USE TraceCapacityAssumption, NoneAssumption

Entry == [call : Calls, tool : ToolNames, upstreamCalls : Nat, error : BOOLEAN]

-----------------------------------------------------------------------------
(* The newest entries of a sequence.                                       *)

Kept(s) == IF Len(s) < TraceCapacity THEN Len(s) ELSE TraceCapacity

NewestOf(s) == SubSeq(s, Len(s) - Kept(s) + 1, Len(s))

LEMMA NewestProperties ==
  ASSUME NEW S, NEW s \in Seq(S)
  PROVE  /\ Kept(s) \in Nat /\ Kept(s) <= Len(s) /\ Len(s) \in Nat
         /\ NewestOf(s) \in Seq(S)
         /\ Len(NewestOf(s)) = Kept(s)
         /\ \A i \in 1..Kept(s) : NewestOf(s)[i] = s[Len(s) - Kept(s) + i]
<1>1. Len(s) \in Nat /\ Kept(s) \in Nat /\ Kept(s) <= Len(s)
  BY DEF Kept
<1>2. \A i \in 1..Len(s) : s[i] \in S
  BY ElementOfSeq
<1>. QED
  BY <1>1, <1>2, SubSeqProperties DEF NewestOf

\* Recording an entry and dropping what is too much gives the newest entries
\* of the longer sequence.
LEMMA RecordKeepsNewest ==
  ASSUME NEW S, NEW s \in Seq(S), NEW e \in S
  PROVE  KeepNewest(Append(NewestOf(s), e)) = NewestOf(Append(s, e))
<1>. DEFINE p == Append(NewestOf(s), e)
            t == Append(s, e)
<1>1. /\ Kept(s) \in Nat /\ Kept(s) <= Len(s) /\ Len(s) \in Nat
      /\ NewestOf(s) \in Seq(S) /\ Len(NewestOf(s)) = Kept(s)
      /\ \A i \in 1..Kept(s) : NewestOf(s)[i] = s[Len(s) - Kept(s) + i]
  BY NewestProperties
<1>2. /\ t \in Seq(S) /\ Len(t) = Len(s) + 1 /\ t[Len(s) + 1] = e
      /\ \A i \in 1..Len(s) : t[i] = s[i]
  BY AppendProperties
<1>3. /\ p \in Seq(S) /\ Len(p) = Kept(s) + 1 /\ p[Kept(s) + 1] = e
      /\ \A i \in 1..Kept(s) : p[i] = s[Len(s) - Kept(s) + i]
  BY <1>1, AppendProperties
<1>4. /\ NewestOf(t) \in Seq(S) /\ Len(NewestOf(t)) = Kept(t)
      /\ \A i \in 1..Kept(t) : NewestOf(t)[i] = t[Len(t) - Kept(t) + i]
  BY <1>2, NewestProperties
<1>. HIDE DEF p, t
<1>5. ASSUME NEW i \in 1..Len(p)
      PROVE  p[i] = t[Len(s) - Kept(s) + i]
  <2>1. CASE i \in 1..Kept(s)
    <3>1. Len(s) - Kept(s) + i \in 1..Len(s)
      BY <1>1, <2>1
    <3>. QED
      BY <1>2, <1>3, <2>1, <3>1
  <2>2. CASE i = Kept(s) + 1
    BY <1>1, <1>2, <1>3, <2>2
  <2>. QED
    BY <1>1, <1>3, <2>1, <2>2
<1>6. CASE Len(p) <= TraceCapacity
  <2>1. Kept(s) = Len(s) /\ Kept(t) = Len(t)
    BY <1>1, <1>2, <1>3, <1>6 DEF Kept
  <2>. KeepNewest(p) = p
    BY <1>1, <1>3, <1>6 DEF KeepNewest
  <2>2. p = NewestOf(t)
    BY <1>1, <1>2, <1>3, <1>4, <1>5, <2>1, SeqEqual
  <2>. QED
    BY <2>1, <2>2 DEF p, t
<1>7. CASE Len(p) > TraceCapacity
  <2>1. Kept(s) = TraceCapacity /\ Kept(t) = TraceCapacity
    BY <1>1, <1>2, <1>3, <1>7 DEF Kept
  <2>2. KeepNewest(p) = SubSeq(p, 2, Len(p))
    BY <1>3, <1>7, <2>1, SMTT(30) DEF KeepNewest
  <2>3. \A i \in 2..Len(p) : p[i] \in S
    BY <1>3, ElementOfSeq
  <2>4. /\ SubSeq(p, 2, Len(p)) \in Seq(S)
        /\ Len(SubSeq(p, 2, Len(p))) = TraceCapacity
        /\ \A i \in 1..TraceCapacity : SubSeq(p, 2, Len(p))[i] = p[i + 1]
    BY <1>3, <2>1, <2>3, SubSeqProperties
  <2>5. SubSeq(p, 2, Len(p)) = NewestOf(t)
    BY <1>1, <1>2, <1>3, <1>4, <1>5, <2>1, <2>4, SeqEqual
  <2>. QED
    BY <2>2, <2>5 DEF p, t
<1>. QED
  BY <1>1, <1>3, <1>6, <1>7

-----------------------------------------------------------------------------
(* Counting the entries of a tool.                                         *)

Of(s, t) == {i \in DOMAIN s : s[i].tool = t}
Failed(s, t) == {i \in Of(s, t) : s[i].error}

Counts(s, t) ==
  [calls |-> Cardinality(Of(s, t)), errors |-> Cardinality(Failed(s, t))]

LEMMA CountsTypes ==
  ASSUME NEW s \in Seq(Entry), NEW t
  PROVE  /\ IsFiniteSet(Of(s, t)) /\ IsFiniteSet(Failed(s, t))
         /\ Counts(s, t).calls \in Nat /\ Counts(s, t).errors \in Nat
         /\ Counts(s, t) \in [calls : Nat, errors : Nat]
<1>1. IsFiniteSet(1..Len(s))
  BY FS_Interval
<1>2. IsFiniteSet(Of(s, t)) /\ IsFiniteSet(Failed(s, t))
  BY <1>1, FS_Subset DEF Of, Failed
<1>. QED
  BY <1>2, FS_CardinalityType DEF Counts

\* One more entry counts for its tool, and for no other.
LEMMA CountsAppend ==
  ASSUME NEW s \in Seq(Entry), NEW e \in Entry, NEW t
  PROVE  Counts(Append(s, e), t) =
           IF e.tool # t THEN Counts(s, t)
           ELSE [calls |-> Counts(s, t).calls + 1,
                 errors |-> Counts(s, t).errors + (IF e.error THEN 1 ELSE 0)]
<1>. DEFINE n == Len(s) + 1
<1>1. /\ DOMAIN s = 1..Len(s) /\ DOMAIN Append(s, e) = 1..n /\ Len(s) \in Nat
      /\ \A i \in 1..Len(s) : Append(s, e)[i] = s[i]
      /\ Append(s, e)[n] = e
  BY AppendProperties
<1>2. /\ n \notin DOMAIN s /\ DOMAIN Append(s, e) = DOMAIN s \cup {n}
      /\ e.error \in BOOLEAN
  BY <1>1 DEF Entry
<1>. HIDE DEF n
<1>3. /\ Of(Append(s, e), t) = Of(s, t) \cup (IF e.tool = t THEN {n} ELSE {})
      /\ Failed(Append(s, e), t) =
           Failed(s, t) \cup (IF e.tool = t /\ e.error THEN {n} ELSE {})
  BY <1>1, <1>2 DEF Of, Failed
<1>4. n \notin Of(s, t) /\ n \notin Failed(s, t)
  BY <1>2 DEF Of, Failed
<1>5. IsFiniteSet(Of(s, t)) /\ IsFiniteSet(Failed(s, t))
  BY CountsTypes
<1>6. /\ Cardinality(Of(s, t) \cup {n}) = Cardinality(Of(s, t)) + 1
      /\ Cardinality(Failed(s, t) \cup {n}) = Cardinality(Failed(s, t)) + 1
      /\ Cardinality(Failed(s, t)) \in Nat
  BY <1>4, <1>5, FS_AddElement, FS_CardinalityType
<1>7. CASE e.tool # t
  BY <1>3, <1>7 DEF Counts
<1>8. CASE e.tool = t /\ e.error
  BY <1>3, <1>6, <1>8 DEF Counts
<1>9. CASE e.tool = t /\ ~e.error
  BY <1>3, <1>6, <1>9 DEF Counts
<1>. QED
  BY <1>2, <1>7, <1>8, <1>9

-----------------------------------------------------------------------------
(* What a settled call records.                                            *)

RecordsInv ==
  /\ traced \in Seq(Entry)
  /\ traceBuffer = NewestOf(traced)
  /\ \A t : StatsOf(t) = Counts(traced, t)

InnerTool(tool) == IF tool \in DOMAIN Aliased THEN Aliased[tool] ELSE tool

\* A tool is measured under its own name and, if it is an alias, under
\* another one inside.
LEMMA FramesOf ==
  ASSUME NEW tool \in ToolNames
  PROVE  /\ InnerTool(tool) \in ToolNames
         /\ Frames(tool)[1] = InnerTool(tool)
         /\ Frames(tool) = IF InnerTool(tool) = tool THEN <<tool>>
                           ELSE <<InnerTool(tool), tool>>
<1>2. tool \in DOMAIN Aliased => InnerTool(tool) \in ToolNames /\ InnerTool(tool) # tool
  BY DEF Aliased, InnerTool, ToolNames
<1>3. tool \in DOMAIN Aliased => Frames(tool) = <<InnerTool(tool), tool>>
  BY DEF Frames, InnerTool
<1>4. tool \notin DOMAIN Aliased =>
        InnerTool(tool) = tool /\ Frames(tool) = <<tool>>
  BY DEF Frames, InnerTool
<1>. QED
  BY <1>2, <1>3, <1>4

\* The counters move by one call of each name, and by one error.
LEMMA StatsMove ==
  ASSUME RecordsInv, NEW tools, NEW error \in BOOLEAN,
         stats' = RecordToolCall(tools, error), NEW t
  PROVE  StatsOf(t)' =
           IF t \notin tools THEN Counts(traced, t)
           ELSE [calls |-> Counts(traced, t).calls + 1,
                 errors |-> Counts(traced, t).errors + (IF error THEN 1 ELSE 0)]
<1>1. StatsOf(t) = Counts(traced, t)
  BY DEF RecordsInv
<1>2. /\ DOMAIN stats' = DOMAIN stats \cup tools
      /\ t \in DOMAIN stats \cup tools =>
           stats'[t] = IF t \notin tools THEN StatsOf(t)
                       ELSE [calls |-> StatsOf(t).calls + 1,
                             errors |-> StatsOf(t).errors + (IF error THEN 1 ELSE 0)]
  BY DEF RecordToolCall
<1>. QED
  BY <1>1, <1>2 DEF StatsOf

\* An entry a call records when it settles with an answer.
EntryOf(e, c, record, answer) ==
  /\ e.call = c
  /\ e.error = (answer = "thrown")
  /\ e.tool = Frames(record.tool)[1] => e.upstreamCalls = record.upstreamCalls

LEMMA SettleRecords ==
  ASSUME RecordsInv, NEW c \in Calls, NEW record, NEW answer,
         record.tool \in ToolNames, record.upstreamCalls \in Nat,
         Settle(c, record, answer)
  PROVE  /\ RecordsInv'
         /\ \A i \in DOMAIN traced' :
              \/ i \in DOMAIN traced /\ traced'[i] = traced[i]
              \/ EntryOf(traced'[i], c, record, answer)
<1>. DEFINE error == answer = "thrown"
            Made1(tool, n) == [call |-> c, tool |-> tool, upstreamCalls |-> n,
                               error |-> error]
<1>1. /\ traced \in Seq(Entry) /\ traceBuffer = NewestOf(traced)
      /\ traced' = traced \o TraceEntries(c, record, answer)
      /\ traceBuffer' = Recorded(traceBuffer, TraceEntries(c, record, answer))
      /\ stats' = RecordToolCall(Range(Frames(record.tool)), error)
      /\ error \in BOOLEAN
  BY DEF RecordsInv, Settle
<1>2. \A tool \in ToolNames, n \in Nat :
        /\ Made1(tool, n) \in Entry
        /\ Made1(tool, n).tool = tool /\ Made1(tool, n).error = error
        /\ Made1(tool, n).call = c /\ Made1(tool, n).upstreamCalls = n
  BY <1>1 DEF Entry
<1>. DEFINE inner == InnerTool(record.tool)
<1>3. CASE Frames(record.tool) = <<record.tool>>
  <2>. DEFINE e == Made1(record.tool, record.upstreamCalls)
  <2>1. TraceEntries(c, record, answer) = <<e>>
    BY <1>3 DEF TraceEntries
  <2>2. e \in Entry /\ e.tool = record.tool /\ e.error = error
        /\ EntryOf(e, c, record, answer)
    BY <1>2 DEF EntryOf
  <2>3. Range(Frames(record.tool)) = {record.tool}
    BY <1>3 DEF Range
  <2>. HIDE DEF e, Made1, error
  <2>4. traced' = Append(traced, e) /\ traced' \in Seq(Entry)
    BY <1>1, <2>1, <2>2, AppendIsConcat, AppendProperties
  <2>5. traceBuffer' = NewestOf(traced')
    <3>1. traceBuffer' = KeepNewest(Append(traceBuffer, e))
      BY <1>1, <2>1 DEF Recorded
    <3>. QED
      BY <1>1, <2>2, <2>4, <3>1, RecordKeepsNewest
  <2>6. ASSUME NEW t PROVE StatsOf(t)' = Counts(traced', t)
    BY <1>1, <2>2, <2>3, <2>4, CountsAppend, StatsMove
  <2>7. ASSUME NEW i \in DOMAIN traced'
        PROVE  \/ i \in DOMAIN traced /\ traced'[i] = traced[i]
               \/ EntryOf(traced'[i], c, record, answer)
    BY <1>1, <2>2, <2>4, AppendProperties
  <2>. QED
    BY <2>4, <2>5, <2>6, <2>7 DEF RecordsInv
<1>4. CASE inner # record.tool /\ Frames(record.tool) = <<inner, record.tool>>
  <2>1. inner \in ToolNames /\ Frames(record.tool)[1] = inner
    BY FramesOf
  <2>. DEFINE e == Made1(inner, record.upstreamCalls)
              f == Made1(record.tool, 0)
              middle == Append(traced, e)
  <2>2. TraceEntries(c, record, answer) = <<e, f>>
    BY <1>4 DEF TraceEntries
  <2>3. /\ e \in Entry /\ e.tool = inner /\ e.error = error
        /\ f \in Entry /\ f.tool = record.tool /\ f.error = error
        /\ EntryOf(e, c, record, answer) /\ EntryOf(f, c, record, answer)
    BY <1>2, <1>4, <2>1 DEF EntryOf
  <2>4. Range(Frames(record.tool)) = {inner, record.tool}
    <3>1. Range(Frames(record.tool)) =
            {Frames(record.tool)[i] : i \in DOMAIN Frames(record.tool)}
      BY Zenon DEF Range
    <3>2. DOMAIN Frames(record.tool) = {1, 2}
      BY <1>4
    <3>3. Frames(record.tool)[1] = inner /\ Frames(record.tool)[2] = record.tool
      BY <1>4
    <3>. QED
      BY <3>1, <3>2, <3>3
  <2>. HIDE DEF e, f, Made1, error, inner
  <2>5. middle \in Seq(Entry) /\ traced' = Append(middle, f) /\ traced' \in Seq(Entry)
    BY <1>1, <2>2, <2>3, AppendProperties
  <2>6. traceBuffer' = NewestOf(traced')
    <3>1. traceBuffer' = KeepNewest(Append(KeepNewest(Append(traceBuffer, e)), f))
      BY <1>1, <2>2 DEF Recorded
    <3>2. KeepNewest(Append(traceBuffer, e)) = NewestOf(middle)
      BY <1>1, <2>3, RecordKeepsNewest
    <3>. QED
      BY <2>3, <2>5, <3>1, <3>2, RecordKeepsNewest
  <2>7. ASSUME NEW t PROVE StatsOf(t)' = Counts(traced', t)
    <3>1. Counts(middle, t) = IF inner # t THEN Counts(traced, t)
            ELSE [calls |-> Counts(traced, t).calls + 1,
                  errors |-> Counts(traced, t).errors + (IF error THEN 1 ELSE 0)]
      BY <1>1, <2>3, CountsAppend
    <3>. HIDE DEF middle
    <3>2. Counts(traced', t) = IF record.tool # t THEN Counts(middle, t)
            ELSE [calls |-> Counts(middle, t).calls + 1,
                  errors |-> Counts(middle, t).errors + (IF error THEN 1 ELSE 0)]
      BY <2>3, <2>5, CountsAppend
    <3>3. StatsOf(t)' =
            IF t \notin {inner, record.tool} THEN Counts(traced, t)
            ELSE [calls |-> Counts(traced, t).calls + 1,
                  errors |-> Counts(traced, t).errors + (IF error THEN 1 ELSE 0)]
      BY <1>1, <2>4, StatsMove
    <3>. QED
      BY <1>4, <3>1, <3>2, <3>3
  <2>8. ASSUME NEW i \in DOMAIN traced'
        PROVE  \/ i \in DOMAIN traced /\ traced'[i] = traced[i]
               \/ EntryOf(traced'[i], c, record, answer)
    BY <1>1, <2>3, <2>5, AppendProperties
  <2>. QED
    BY <2>5, <2>6, <2>7, <2>8 DEF RecordsInv
<1>. QED
  BY <1>3, <1>4, FramesOf

-----------------------------------------------------------------------------
(* One call.                                                               *)

USE AdminToolsAssumption

Fields ==
  {"stage", "tool", "args", "waiting", "out", "batches", "upstreamCalls",
   "sent", "answer", "request", "reply", "items", "trail", "readAt"}

IsCall(r) == r = [f \in Fields |-> r[f]]

\* All that is sent is counted, and only get_grades sends more than one request.
Numbers(r) ==
  /\ r.waiting \in Nat /\ r.out \in Nat /\ r.sent \in Nat
  /\ r.upstreamCalls = r.sent
  /\ r.batches \in Seq(Nat \ {0})
  /\ r.tool # "get_grades" => r.batches = <<>> /\ r.waiting + r.out <= 1

Matching(args) ==
  {id \in EnrollmentIds : /\ args.course \in {None, id[1]}
                          /\ args.user \in {None, id[2]}}

DeleteTools == {"delete_enrollment", "delete_webhook_subscription"}

\* The resources that the arguments of a listing describe, and whether they
\* name one enrollment.
Listed(tool, args) ==
  IF tool = "list_webhook_subscriptions" THEN SubscriptionIds ELSE Matching(args)

Single(tool, args) ==
  tool = "list_enrollments" /\ args.course # None /\ args.user # None

\* The request that the arguments of a tool call for; one that is refused
\* asks for nothing.
Reading(tool, args, request, answer) ==
  /\ request.method = "GET"
  /\ tool \in ListTools =>
       \/ answer = "thrown"
       \/ /\ request.ids = Listed(tool, args)
          /\ request.one <=> Single(tool, args)
          /\ request.body = args.page

Writing(tool, args, request) ==
  \/ /\ tool = "create_enrollment"
     /\ \E id \in EnrollmentIds, fields \in Resource :
          /\ args = [id |-> id, fields |-> fields]
          /\ request = Asks("POST", TRUE, {id}, fields)
  \/ /\ tool = "create_webhook_subscription"
     /\ \E k \in Kinds :
          /\ args = [fields |-> [kind |-> k]]
          /\ request = Asks("POST", FALSE, SubscriptionIds, [kind |-> k, on |-> TRUE])
  \/ /\ tool \in UpdateTools
     /\ \E id \in ResourceIds, fields \in Changes :
          /\ args = [id |-> id, fields |-> fields]
          /\ request = Asks("PATCH", TRUE, {id}, UpdatePayload(fields))
  \/ /\ tool \in DeleteTools
     /\ \E id \in ResourceIds :
          /\ args = [id |-> id]
          /\ request = Asks("DELETE", TRUE, {id}, <<>>)

\* The page and the filters of a call leave its own grant.
ShowsOwn(c, args) ==
  /\ args.page.offset = 0
  /\ args.event \in {None, "access.granted"}
  /\ c \in args.calls

Asked(c, tool, args, request, trail, answer) ==
  /\ tool \in ToolNames
  /\ Reading(tool, args, request, answer) \/ Writing(tool, args, request)
  /\ tool = "list_audit_logs" =>
       \/ answer = "thrown"
       \/ AuditEntry(c, "access.granted") \in trail <=> ShowsOwn(c, args)

\* What a request to read gets of what is held.
Listing(request, held) ==
  LET there == {id \in request.ids : held[id] # None} IN
  {[id |-> id, resource |-> held[id]] :
     id \in IF request.one THEN there ELSE OnPage(there, request.body)}

Replied(r) ==
  /\ r.reply.status \in {"none", "done", "refused", "unavailable"}
  /\ r.reply.status = "none" => r.reply = NoReply
  /\ r.reply.status = "done" /\ r.request.method = "GET" =>
       /\ r.reply.shape # "none"
       /\ r.reply.items = Listing(r.request, r.readAt)

Sound(r) == IsCall(r) /\ Numbers(r) /\ Replied(r)
AskedBy(c, r, answer) == Asked(c, r.tool, r.args, r.request, r.trail, answer)

\* An answer other than an error leaves nothing under way.
Answered(r) ==
  /\ r.answer \in {"ok", "empty", "reported", "thrown"}
  /\ r.answer # "thrown" => r.waiting = 0 /\ r.out = 0
  /\ r.answer = "ok" /\ r.tool \in WriteTools => r.reply.status = "done"
  /\ r.answer = "ok" /\ r.tool \in ListTools =>
       r.reply.status = "done" /\ r.items = r.reply.items

Good(c, r) ==
  /\ Sound(r) /\ AskedBy(c, r, r.answer)
  /\ \/ r.stage = "running" /\ r.answer = None /\ r.waiting + r.out > 0
     \/ r.stage = "over" /\ Answered(r)

CallsInv ==
  /\ call = [c \in Calls |-> call[c]]
  /\ \A c \in Calls : call[c] = Unused \/ Good(c, call[c])

\* What an entry of the call with record r says.
EntryHolds(e, r) ==
  /\ r.stage = "over"
  /\ e.tool = Frames(r.tool)[1] =>
       /\ e.upstreamCalls <= r.sent
       /\ ~e.error => e.upstreamCalls = r.sent /\ r.waiting = 0

TraceInv ==
  \A i \in DOMAIN traced : EntryHolds(traced[i], call[traced[i].call])

Calling == RecordsInv /\ CallsInv /\ TraceInv

\* How the record of a call under way or over may change.
Follows(old, new) ==
  /\ new.tool = old.tool
  /\ old.stage = "over" =>
       /\ new.stage = "over" /\ new.sent \in Nat /\ old.sent <= new.sent
       /\ old.waiting = 0 => new.waiting = 0 /\ new.sent = old.sent

\* A call moves: no other does, and it is under way or over from then on.
Moved(c) ==
  /\ \A d \in Calls : d # c => call'[d] = call[d]
  /\ call'[c] # Unused

LEMMA EntryFollows ==
  ASSUME NEW e \in Entry, NEW old, NEW new, EntryHolds(e, old),
         old.sent \in Nat, Follows(old, new)
  PROVE  EntryHolds(e, new)
BY DEF EntryHolds, Follows, Entry

\* A call starts with the fields of every call and those of this module.
LEMMA RecordIs ==
  ASSUME NEW tool, NEW args, NEW batches, NEW request, NEW trail
  PROVE  Record(tool, args, batches, request, trail) =
           [stage |-> "running", tool |-> tool, args |-> args,
            waiting |-> Head(batches), out |-> 0, batches |-> Tail(batches),
            upstreamCalls |-> 0, sent |-> 0, answer |-> None,
            request |-> request, reply |-> NoReply, items |-> {},
            trail |-> trail, readAt |-> None]
<1>. DEFINE new == NewCall(tool, args, batches)
            more == [request |-> request, reply |-> NoReply, items |-> {},
                     trail |-> trail, readAt |-> None]
            first == {"stage", "tool", "args", "waiting", "out", "batches",
                      "upstreamCalls", "sent", "answer"}
            second == {"request", "reply", "items", "trail", "readAt"}
<1>1. DOMAIN new = first /\ DOMAIN more = second
  BY DEF NewCall
<1>2. first \cup second = Fields
  BY DEF Fields
<1>3. Record(tool, args, batches, request, trail) =
        [f \in first \cup second |-> IF f \in first THEN new[f] ELSE more[f]]
  BY <1>1 DEF Record, Completed
<1>. QED
  BY <1>3 DEF NewCall

\* A call that just continues.
LEMMA ContinueStep ==
  ASSUME Calling, NEW c \in Calls, NEW r, Good(c, r), Continue(c, r),
         call[c] = Unused \/ Follows(call[c], r)
  PROVE  Calling' /\ Moved(c)
<1>1. RecordsInv'
  BY DEF Calling, RecordsInv, Continue, StatsOf
<1>2. /\ call' = [d \in Calls |-> IF d = c THEN r ELSE call[d]]
      /\ traced' = traced /\ traced \in Seq(Entry)
  BY DEF Calling, CallsInv, Continue, RecordsInv
<1>3. CallsInv'
  BY <1>2 DEF Calling, CallsInv
<1>4. ASSUME NEW i \in DOMAIN traced
      PROVE  EntryHolds(traced[i], call'[traced[i].call])
  <2>1. traced[i] \in Entry /\ EntryHolds(traced[i], call[traced[i].call])
    BY <1>2, ElementOfSeq DEF Calling, TraceInv
  <2>2. traced[i].call \in Calls
    BY <2>1 DEF Entry
  <2>3. CASE traced[i].call # c
    BY <1>2, <2>1, <2>2, <2>3
  <2>4. CASE traced[i].call = c
    <3>1. call[c] # Unused
      BY <2>1, <2>4 DEF EntryHolds, Unused
    <3>2. call[c].sent \in Nat
      BY <3>1 DEF Calling, CallsInv, Good, Sound, Numbers
    <3>. QED
      BY <1>2, <2>1, <2>4, <3>1, <3>2, EntryFollows
  <2>. QED
    BY <2>3, <2>4
<1>5. Moved(c)
  BY <1>2 DEF Moved, Good, Unused
<1>. QED
  BY <1>1, <1>2, <1>3, <1>4, <1>5 DEF Calling, TraceInv

\* A call that ends.
LEMMA SettleStep ==
  ASSUME Calling, NEW c \in Calls, NEW record, NEW answer,
         Sound(record), AskedBy(c, record, answer), call[c].stage # "over",
         NEW r, r = [record EXCEPT !.stage = "over", !.answer = answer],
         Answered(r), Settle(c, record, answer)
  PROVE  Calling' /\ Moved(c)
<1>1. /\ IsCall(r) /\ r.stage = "over" /\ r.answer = answer
      /\ r.tool = record.tool /\ r.args = record.args
      /\ r.waiting = record.waiting /\ r.out = record.out
      /\ r.batches = record.batches /\ r.upstreamCalls = record.upstreamCalls
      /\ r.sent = record.sent /\ r.request = record.request
      /\ r.reply = record.reply /\ r.items = record.items
      /\ r.trail = record.trail /\ r.readAt = record.readAt
  BY DEF Sound, IsCall, Fields
<1>2. Good(c, r)
  <2>1. Numbers(r) /\ Replied(r)
    BY <1>1 DEF Sound, Numbers, Replied
  <2>2. AskedBy(c, r, r.answer)
    BY <1>1 DEF AskedBy
  <2>. QED
    BY <1>1, <2>1, <2>2 DEF Good, Sound
<1>3. /\ call' = [d \in Calls |-> IF d = c THEN r ELSE call[d]]
      /\ traced \in Seq(Entry)
  BY DEF Calling, CallsInv, RecordsInv, Settle
<1>4. /\ record.tool \in ToolNames
      /\ record.upstreamCalls \in Nat /\ record.upstreamCalls = record.sent
  BY DEF Sound, AskedBy, Asked, Numbers
<1>5. /\ RecordsInv'
      /\ \A i \in DOMAIN traced' :
           \/ i \in DOMAIN traced /\ traced'[i] = traced[i]
           \/ EntryOf(traced'[i], c, record, answer)
  BY <1>4, SettleRecords DEF Calling
<1>6. CallsInv'
  BY <1>2, <1>3 DEF Calling, CallsInv
<1>7. ASSUME NEW i \in DOMAIN traced'
      PROVE  EntryHolds(traced'[i], call'[traced'[i].call])
  <2>1. CASE i \in DOMAIN traced /\ traced'[i] = traced[i]
    <3>1. traced[i] \in Entry /\ EntryHolds(traced[i], call[traced[i].call])
      BY <1>3, <2>1, ElementOfSeq DEF Calling, TraceInv
    <3>2. traced[i].call \in Calls /\ traced[i].call # c
      BY <3>1 DEF Entry, EntryHolds
    <3>. QED
      BY <1>3, <2>1, <3>1, <3>2
  <2>2. CASE EntryOf(traced'[i], c, record, answer)
    <3>1. traced'[i].call = c /\ (~traced'[i].error => answer # "thrown")
      BY <2>2, Zenon DEF EntryOf
    <3>2. traced'[i].tool = Frames(record.tool)[1] =>
            traced'[i].upstreamCalls = record.upstreamCalls
      BY <2>2, Zenon DEF EntryOf
    <3>3. call'[traced'[i].call] = r
      BY <1>3, <3>1
    <3>4. answer # "thrown" => r.waiting = 0
      BY <1>1, Zenon DEF Answered
    <3>. QED
      BY <1>1, <1>4, <3>1, <3>2, <3>3, <3>4 DEF EntryHolds
  <2>. QED
    BY <1>5, <2>1, <2>2
<1>8. Moved(c)
  BY <1>2, <1>3 DEF Moved, Good, Unused
<1>. QED
  BY <1>5, <1>6, <1>7, <1>8 DEF Calling, TraceInv

-----------------------------------------------------------------------------
(* Entering a tool.                                                        *)

AuditEvent == [call : Calls, event : {"access.granted", "access.denied"}]

AuditInv ==
  auditLogBuffer \in Seq(AuditEvent) /\ Len(auditLogBuffer) <= AuditCapacity

\* The entries are of calls that were made.
AuditMade ==
  \A i \in DOMAIN auditLogBuffer : call[auditLogBuffer[i].call] # Unused

\* The new entry comes last, and only old ones before it.
LEMMA AuditRecorded ==
  ASSUME AuditInv, NEW e \in AuditEvent, auditLogBuffer' = RecordAuditLogEntry(e)
  PROVE  /\ AuditInv'
         /\ Len(auditLogBuffer') > 0
         /\ auditLogBuffer'[Len(auditLogBuffer')] = e
         /\ \A i \in DOMAIN auditLogBuffer' :
              \/ i = Len(auditLogBuffer')
              \/ \E j \in DOMAIN auditLogBuffer :
                   auditLogBuffer'[i] = auditLogBuffer[j]
<1>. DEFINE pushed == Append(auditLogBuffer, e)
            n == Len(auditLogBuffer)
<1>1. /\ pushed \in Seq(AuditEvent) /\ Len(pushed) = n + 1
      /\ pushed[n + 1] = e /\ n \in Nat /\ n <= AuditCapacity
      /\ DOMAIN auditLogBuffer = 1..n
      /\ \A i \in 1..n : pushed[i] = auditLogBuffer[i]
  BY AppendProperties DEF AuditInv
<1>. HIDE DEF pushed, n
<1>2. CASE n + 1 <= AuditCapacity
  <2>1. auditLogBuffer' = pushed
    BY <1>1, <1>2 DEF RecordAuditLogEntry, pushed
  <2>2. \A i \in DOMAIN auditLogBuffer' :
          i = n + 1 \/ (i \in 1..n /\ auditLogBuffer'[i] = auditLogBuffer[i])
    BY <1>1, <2>1, LenProperties
  <2>. QED
    BY <1>1, <1>2, <2>1, <2>2 DEF AuditInv
<1>3. CASE n = AuditCapacity
  <2>1. auditLogBuffer' = SubSeq(pushed, 2, n + 1)
    BY <1>1, <1>3 DEF RecordAuditLogEntry, pushed
  <2>2. \A i \in 2..(n + 1) : pushed[i] \in AuditEvent
    BY <1>1, ElementOfSeq
  <2>3. /\ SubSeq(pushed, 2, n + 1) \in Seq(AuditEvent)
        /\ Len(SubSeq(pushed, 2, n + 1)) = n
        /\ SubSeq(pushed, 2, n + 1)[n] = pushed[n + 1]
        /\ \A i \in 1..n : SubSeq(pushed, 2, n + 1)[i] = pushed[i + 1]
    BY <1>1, <1>3, <2>2, SubSeqProperties
  <2>4. \A i \in DOMAIN auditLogBuffer' :
          i = n \/ (i + 1 \in 1..n /\ auditLogBuffer'[i] = auditLogBuffer[i + 1])
    <3>1. DOMAIN auditLogBuffer' = 1..n
      BY <2>1, <2>3, LenProperties
    <3>2. ASSUME NEW i \in 1..n, i # n
          PROVE  i + 1 \in 1..n /\ auditLogBuffer'[i] = auditLogBuffer[i + 1]
      <4>1. i + 1 \in 1..n
        BY <1>1, <3>2
      <4>2. auditLogBuffer'[i] = pushed[i + 1]
        BY <2>1, <2>3
      <4>. QED
        BY <1>1, <4>1, <4>2
    <3>. QED
      BY <3>1, <3>2
  <2>5. Len(auditLogBuffer') = n /\ n > 0
    BY <1>3, <2>1, <2>3, AdminToolsAssumption
  <2>6. auditLogBuffer'[n] = e
    BY <1>1, <2>1, <2>3
  <2>7. AuditInv'
    BY <1>1, <2>1, <2>3, <2>5 DEF AuditInv
  <2>8. \A i \in DOMAIN auditLogBuffer' :
          i = n \/ \E j \in DOMAIN auditLogBuffer :
                    auditLogBuffer'[i] = auditLogBuffer[j]
    BY <1>1, <2>4
  <2>. QED
    BY <2>5, <2>6, <2>7, <2>8
<1>. QED
  BY <1>1, <1>2, <1>3

LEMMA AuditGrows ==
  ASSUME AuditInv, AuditMade, NEW c \in Calls, Moved(c),
         NEW event \in {"access.granted", "access.denied"},
         auditLogBuffer' = RecordAuditLogEntry(AuditEntry(c, event))
  PROVE  AuditInv' /\ AuditMade'
<1>. DEFINE e == AuditEntry(c, event)
            n == Len(auditLogBuffer')
<1>1. e \in AuditEvent /\ e.call = c
  BY DEF AuditEntry, AuditEvent
<1>. HIDE DEF e
<1>2. /\ AuditInv' /\ auditLogBuffer'[n] = e
      /\ \A i \in DOMAIN auditLogBuffer' :
           \/ i = n
           \/ \E j \in DOMAIN auditLogBuffer :
                auditLogBuffer'[i] = auditLogBuffer[j]
  BY <1>1, AuditRecorded DEF e
<1>. HIDE DEF n
<1>3. ASSUME NEW j \in DOMAIN auditLogBuffer
      PROVE  call'[auditLogBuffer[j].call] # Unused
  <2>1. auditLogBuffer[j] \in AuditEvent
    BY ElementOfSeq, LenProperties DEF AuditInv
  <2>2. auditLogBuffer[j].call \in Calls
    BY <2>1 DEF AuditEvent
  <2>. QED
    BY <2>2 DEF AuditMade, Moved
<1>4. ASSUME NEW i \in DOMAIN auditLogBuffer'
      PROVE  call'[auditLogBuffer'[i].call] # Unused
  BY <1>1, <1>2, <1>3 DEF Moved
<1>. QED
  BY <1>2, <1>4 DEF AuditMade

LEMMA AuditStays ==
  ASSUME AuditInv, AuditMade, NEW c \in Calls, Moved(c),
         auditLogBuffer' = auditLogBuffer
  PROVE  AuditInv' /\ AuditMade'
<1>1. ASSUME NEW j \in DOMAIN auditLogBuffer
      PROVE  call'[auditLogBuffer[j].call] # Unused
  <2>1. auditLogBuffer[j] \in AuditEvent
    BY ElementOfSeq, LenProperties DEF AuditInv
  <2>2. auditLogBuffer[j].call \in Calls
    BY <2>1 DEF AuditEvent
  <2>. QED
    BY <2>2 DEF AuditMade, Moved
<1>. QED
  BY <1>1 DEF AuditInv, AuditMade

\* A call asks for the same thing whatever the answer will be.
LEMMA AskedSettles ==
  ASSUME NEW c, NEW tool, NEW args, NEW request, NEW trail, NEW answer,
         Asked(c, tool, args, request, trail, None)
  PROVE  Asked(c, tool, args, request, trail, answer)
BY DEF Asked, Reading

\* What a tool's record is before its first request.
LEMMA NewRecord ==
  ASSUME NEW tool, NEW args, NEW batches, NEW request, NEW trail, NEW r,
         r = Record(tool, args, batches, request, trail),
         Head(batches) \in Nat, Tail(batches) \in Seq(Nat \ {0}),
         tool # "get_grades" => Head(batches) <= 1 /\ Tail(batches) = <<>>
  PROVE  /\ Sound(r) /\ r.stage = "running" /\ r.answer = None
         /\ r.tool = tool /\ r.args = args /\ r.request = request
         /\ r.trail = trail /\ r.waiting = Head(batches) /\ r.out = 0
<1>2. r = [stage |-> "running", tool |-> tool, args |-> args,
           waiting |-> Head(batches), out |-> 0, batches |-> Tail(batches),
           upstreamCalls |-> 0, sent |-> 0, answer |-> None,
           request |-> request, reply |-> NoReply, items |-> {},
           trail |-> trail, readAt |-> None]
  BY RecordIs
<1>3. IsCall(r)
  BY <1>2 DEF IsCall, Fields
<1>4. Numbers(r)
  BY <1>2 DEF Numbers
<1>5. Replied(r)
  <2>1. r.reply = NoReply
    BY <1>2
  <2>. QED
    BY <2>1 DEF Replied, NoReply
<1>. QED
  BY <1>2, <1>3, <1>4, <1>5 DEF Sound

LEMMA DeniedStep ==
  ASSUME Calling, AuditInv, NEW c \in Calls, NEW tool \in ToolNames, NEW args,
         call[c] = Unused, Denied(c, tool, args), AuditMade
  PROVE  Calling' /\ AuditInv' /\ AuditMade'
<1>. DEFINE record == Record(tool, args, <<0>>, NoRequest, {})
            r == [record EXCEPT !.stage = "over", !.answer = "thrown"]
<1>3. /\ Sound(record) /\ record.tool = tool /\ record.request = NoRequest
      /\ record.waiting = 0 /\ record.out = 0
  <2>. DEFINE batches == <<0>>
  <2>1. record = Record(tool, args, batches, NoRequest, {})
    OBVIOUS
  <2>2. Head(batches) = 0 /\ Tail(batches) = <<>>
    OBVIOUS
  <2>3. Tail(batches) \in Seq(Nat \ {0})
    OBVIOUS
  <2>. HIDE DEF record, batches
  <2>. QED
    BY <2>1, <2>2, <2>3, NewRecord
<1>4. Settle(c, record, "thrown")
  BY DEF Denied
<1>. HIDE DEF record
<1>5. AskedBy(c, record, "thrown")
  BY <1>3 DEF AskedBy, Asked, Reading, NoRequest, Asks
<1>6. r.answer = "thrown"
  BY <1>3 DEF Sound, IsCall, Fields
<1>7. Answered(r)
  BY <1>6 DEF Answered
<1>8. call[c].stage # "over"
  BY DEF Unused
<1>. HIDE DEF r
<1>9. Calling' /\ Moved(c)
  BY <1>3, <1>4, <1>5, <1>7, <1>8, SettleStep DEF r
<1>. QED
  BY <1>9, AuditGrows DEF Denied

LEMMA GrantedStep ==
  ASSUME Calling, AuditInv, NEW c \in Calls, NEW tool, NEW args,
         NEW batches, NEW request, NEW throws,
         call[c] = Unused, AuditMade, Asked(c, tool, args, request, {}, None),
         Head(batches) \in Nat \ {0}, Tail(batches) \in Seq(Nat \ {0}),
         tool # "get_grades" => batches = << 1 >>,
         Granted(c, tool, args, batches, request, throws)
  PROVE  Calling' /\ AuditInv' /\ AuditMade'
<1>. DEFINE record == Record(tool, args, batches, request, {})
            thrown == [record EXCEPT !.waiting = 0]
            r == [thrown EXCEPT !.stage = "over", !.answer = "thrown"]
<1>1. ASSUME Moved(c) PROVE AuditInv' /\ AuditMade'
  BY <1>1, AuditGrows DEF Granted
<1>2. /\ Sound(record) /\ record.stage = "running" /\ record.answer = None
      /\ record.tool = tool /\ record.args = args /\ record.request = request
      /\ record.trail = {} /\ record.waiting \in Nat \ {0} /\ record.out = 0
  <2>1. record = Record(tool, args, batches, request, {})
    OBVIOUS
  <2>2. tool # "get_grades" => Head(batches) <= 1 /\ Tail(batches) = <<>>
    <3>1. ASSUME batches = << 1 >> PROVE Head(batches) = 1 /\ Tail(batches) = <<>>
      BY <3>1
    <3>. QED
      BY <3>1
  <2>. HIDE DEF record
  <2>. QED
    BY <2>1, <2>2, NewRecord
<1>3. AskedBy(c, record, None)
  BY <1>2 DEF AskedBy
<1>4. IF throws THEN Settle(c, thrown, "thrown") ELSE Continue(c, record)
  BY DEF Granted
<1>. HIDE DEF record
<1>5. CASE ~throws
  <2>1. Good(c, record)
    BY <1>2, <1>3 DEF Good
  <2>. QED
    BY <1>1, <1>4, <1>5, <2>1, ContinueStep
<1>6. CASE throws
  <2>1. /\ IsCall(thrown) /\ thrown.waiting = 0 /\ thrown.out = 0
        /\ thrown.tool = record.tool /\ thrown.args = record.args
        /\ thrown.request = record.request /\ thrown.trail = record.trail
        /\ thrown.reply = record.reply /\ thrown.readAt = record.readAt
        /\ thrown.sent = record.sent /\ thrown.batches = record.batches
        /\ thrown.upstreamCalls = record.upstreamCalls
    BY <1>2 DEF Sound, IsCall, Fields
  <2>2. Sound(thrown)
    BY <1>2, <2>1 DEF Sound, Numbers, Replied
  <2>3. AskedBy(c, thrown, "thrown")
    BY <1>3, <2>1, AskedSettles DEF AskedBy
  <2>4. Settle(c, thrown, "thrown")
    BY <1>4, <1>6
  <2>. HIDE DEF thrown
  <2>5. r.answer = "thrown"
    BY <2>2 DEF Sound, IsCall, Fields
  <2>6. Answered(r)
    BY <2>5 DEF Answered
  <2>7. call[c].stage # "over"
    BY DEF Unused
  <2>. HIDE DEF r
  <2>8. Calling' /\ Moved(c)
    BY <2>2, <2>3, <2>4, <2>6, <2>7, SettleStep DEF r
  <2>. QED
    BY <1>1, <2>8
<1>. QED
  BY <1>5, <1>6

IInv ==
  /\ Calling
  /\ AuditInv
  /\ AuditMade
  /\ registry \in [ResourceIds -> Resource \cup {None}]

LEMMA CallToolStep ==
  ASSUME IInv, NEW c \in Calls, NEW tool \in ToolNames, NEW args, NEW request,
         NEW throws, tool # "get_grades",
         Asked(c, tool, args, request, {}, None),
         CallTool(c, tool, args, request, throws)
  PROVE  IInv'
<1>1. /\ call[c] = Unused /\ registry' = registry
      /\ \/ Denied(c, tool, args)
         \/ Granted(c, tool, args, << 1 >>, request, throws)
  BY DEF CallTool
<1>. DEFINE batches == << 1 >>
<1>2. Head(batches) \in Nat \ {0} /\ batches = << 1 >>
  OBVIOUS
<1>3. Tail(batches) \in Seq(Nat \ {0})
  OBVIOUS
<1>4. Denied(c, tool, args) \/ Granted(c, tool, args, batches, request, throws)
  BY <1>1
<1>. HIDE DEF batches
<1>5. Calling' /\ AuditInv' /\ AuditMade'
  BY <1>1, <1>2, <1>3, <1>4, DeniedStep, GrantedStep DEF IInv
<1>. QED
  BY <1>1, <1>5 DEF IInv

LEMMA EnterStep ==
  ASSUME IInv, NEW c \in Calls,
         \/ CreateEnrollment(c) \/ UpdateEnrollment(c) \/ DeleteEnrollment(c)
         \/ CreateWebhookSubscription(c) \/ UpdateWebhookSubscription(c)
         \/ DeleteWebhookSubscription(c) \/ GetWebhookSubscription(c)
         \/ ListWebhookSubscriptions(c) \/ ListEnrollments(c)
         \/ ListUsers(c) \/ GetUser(c)
  PROVE  IInv'
<1>1. CASE CreateEnrollment(c)
  <2>1. PICK id \in EnrollmentIds, fields \in Resource :
          CallTool(c, "create_enrollment", [id |-> id, fields |-> fields],
                   Asks("POST", TRUE, {id}, fields), FALSE)
    BY <1>1 DEF CreateEnrollment
  <2>2. Asked(c, "create_enrollment", [id |-> id, fields |-> fields],
              Asks("POST", TRUE, {id}, fields), {}, None)
    BY DEF Asked, Writing, ToolNames
  <2>. QED
    BY <2>1, <2>2, CallToolStep DEF ToolNames
<1>2. ASSUME NEW tool \in UpdateTools, NEW ids \in SUBSET ResourceIds,
             Update(c, tool, ids)
      PROVE  IInv'
  <2>1. PICK id \in ids, fields \in Changes :
          CallTool(c, tool, [id |-> id, fields |-> fields],
                   Asks("PATCH", TRUE, {id}, UpdatePayload(fields)),
                   DOMAIN UpdatePayload(fields) = {})
    BY <1>2 DEF Update
  <2>2. tool \in ToolNames /\ tool # "get_grades" /\ tool # "list_audit_logs"
    BY DEF UpdateTools, ToolNames
  <2>3. Asked(c, tool, [id |-> id, fields |-> fields],
              Asks("PATCH", TRUE, {id}, UpdatePayload(fields)), {}, None)
    BY <2>2 DEF Asked, Writing
  <2>. QED
    BY <2>1, <2>2, <2>3, CallToolStep
<1>3. CASE UpdateEnrollment(c) \/ UpdateWebhookSubscription(c)
  BY <1>2, <1>3
  DEF UpdateEnrollment, UpdateWebhookSubscription, UpdateTools, ResourceIds
<1>4. ASSUME NEW tool \in DeleteTools, NEW id \in ResourceIds,
             CallTool(c, tool, [id |-> id], Asks("DELETE", TRUE, {id}, <<>>), FALSE)
      PROVE  IInv'
  <2>1. tool \in ToolNames /\ tool # "get_grades" /\ tool # "list_audit_logs"
    BY DEF DeleteTools, ToolNames
  <2>2. Asked(c, tool, [id |-> id], Asks("DELETE", TRUE, {id}, <<>>), {}, None)
    BY <2>1 DEF Asked, Writing
  <2>. QED
    BY <1>4, <2>1, <2>2, CallToolStep
<1>5. CASE DeleteEnrollment(c) \/ DeleteWebhookSubscription(c)
  BY <1>4, <1>5
  DEF DeleteEnrollment, DeleteWebhookSubscription, DeleteTools, ResourceIds
<1>6. CASE CreateWebhookSubscription(c)
  <2>1. PICK k \in Kinds :
          CallTool(c, "create_webhook_subscription", [fields |-> [kind |-> k]],
                   Asks("POST", FALSE, SubscriptionIds, [kind |-> k, on |-> TRUE]),
                   FALSE)
    BY <1>6 DEF CreateWebhookSubscription
  <2>2. Asked(c, "create_webhook_subscription", [fields |-> [kind |-> k]],
              Asks("POST", FALSE, SubscriptionIds, [kind |-> k, on |-> TRUE]),
              {}, None)
    BY DEF Asked, Writing, ToolNames
  <2>. QED
    BY <2>1, <2>2, CallToolStep DEF ToolNames
<1>7. ASSUME NEW tool \in {"get_webhook_subscription", "list_users", "get_user"},
             NEW args, NEW one, NEW ids,
             CallTool(c, tool, args, Asks("GET", one, ids, <<>>), FALSE)
      PROVE  IInv'
  <2>1. /\ tool \in ToolNames /\ tool # "get_grades" /\ tool # "list_audit_logs"
        /\ tool \notin ListTools
    BY DEF ToolNames, ListTools
  <2>2. Asked(c, tool, args, Asks("GET", one, ids, <<>>), {}, None)
    BY <2>1 DEF Asked, Reading, Asks
  <2>. QED
    BY <1>7, <2>1, <2>2, CallToolStep
<1>8. CASE GetWebhookSubscription(c) \/ ListUsers(c) \/ GetUser(c)
  BY <1>7, <1>8 DEF GetWebhookSubscription, ListUsers, GetUser, NoRequest
<1>9. CASE ListEnrollments(c)
  <2>1. PICK course \in CourseIds \cup {None}, user \in UserIds \cup {None},
             page \in Pages :
          CallTool(c, "list_enrollments",
                   [course |-> course, user |-> user, page |-> page],
                   Asks("GET", course # None /\ user # None,
                        {id \in EnrollmentIds : /\ course \in {None, id[1]}
                                                /\ user \in {None, id[2]}}, page),
                   FALSE)
    BY <1>9 DEF ListEnrollments
  <2>. DEFINE ids == {id \in EnrollmentIds : /\ course \in {None, id[1]}
                                             /\ user \in {None, id[2]}}
              args == [course |-> course, user |-> user, page |-> page]
              one == course # None /\ user # None
  <2>2. args.course = course /\ args.user = user /\ args.page = page
    OBVIOUS
  <2>3. ids = Matching(args)
    BY <2>2, Zenon DEF Matching
  <2>4. CallTool(c, "list_enrollments", args, Asks("GET", one, ids, page), FALSE)
    BY <2>1
  <2>5. one <=> Single("list_enrollments", args)
    BY <2>2 DEF Single
  <2>. HIDE DEF ids, args, one
  <2>6. Asked(c, "list_enrollments", args, Asks("GET", one, ids, page), {}, None)
    BY <2>2, <2>3, <2>5 DEF Asked, Reading, Asks, ToolNames, Listed
  <2>. QED
    BY <2>4, <2>6, CallToolStep DEF ToolNames
<1>10. CASE ListWebhookSubscriptions(c)
  <2>. DEFINE tool == "list_webhook_subscriptions"
  <2>1. PICK page \in Pages :
          CallTool(c, tool, [page |-> page],
                   Asks("GET", FALSE, SubscriptionIds, page), FALSE)
    BY <1>10 DEF ListWebhookSubscriptions
  <2>2. Asked(c, tool, [page |-> page],
              Asks("GET", FALSE, SubscriptionIds, page), {}, None)
    BY DEF Asked, Reading, Asks, ToolNames, Listed, Single
  <2>. QED
    BY <2>1, <2>2, CallToolStep DEF ToolNames
<1>. QED
  BY <1>1, <1>3, <1>5, <1>6, <1>8, <1>9, <1>10

\* The page of the trail has the newest entry if it is the first page and the
\* filters leave it, and only then.
LEMMA NewestOnPage ==
  ASSUME NEW buffer, NEW n \in Nat, n > 0, DOMAIN buffer = 1..n,
         NEW e, buffer[n] = e, \A i \in 1..n : i # n => buffer[i] # e,
         NEW page, page.offset \in Nat, page.limit \in Nat \ {0},
         NEW event, NEW calls, NEW query,
         query = [page |-> page, event |-> event, calls |-> calls]
  PROVE  e \in AuditPage(buffer, query) <=>
           page.offset = 0 /\ event \in {None, e.event} /\ e.call \in calls
<1>. DEFINE found == {i \in DOMAIN buffer : /\ event \in {None, buffer[i].event}
                                            /\ buffer[i].call \in calls}
            Place(i) == Cardinality({j \in found : j > i})
            shown == page.offset..(page.offset + page.limit - 1)
<1>1. AuditPage(buffer, query) = {buffer[i] : i \in {k \in found : Place(k) \in shown}}
  BY DEF AuditPage
<1>2. n \in found <=> event \in {None, e.event} /\ e.call \in calls
  OBVIOUS
<1>3. Place(n) = 0
  <2>1. {j \in found : j > n} = {}
    OBVIOUS
  <2>. QED
    BY <2>1, FS_EmptySet
<1>4. 0 \in shown <=> page.offset = 0
  OBVIOUS
<1>5. \A i \in found : buffer[i] = e <=> i = n
  OBVIOUS
<1>. HIDE DEF found, Place, shown
<1>6. e \in AuditPage(buffer, query) <=> n \in found /\ Place(n) \in shown
  BY <1>1, <1>5
<1>. QED
  BY <1>2, <1>3, <1>4, <1>6

\* The trail a list_audit_logs call takes with it has its own grant where it
\* should.
LEMMA ListAuditLogsStep ==
  ASSUME IInv, NEW c \in Calls, ListAuditLogs(c)
  PROVE  IInv'
<1>1. /\ call[c] = Unused /\ registry' = registry
      /\ "list_audit_logs" \in ToolNames
  BY DEF ListAuditLogs, ToolNames
<1>2. PICK page \in Pages, filter \in AuditFilters :
        LET query == [page |-> page, event |-> filter.event,
                      calls |-> filter.calls]
        IN  \/ Denied(c, "list_audit_logs", query)
            \/ /\ auditLogBuffer' =
                    RecordAuditLogEntry(AuditEntry(c, "access.granted"))
               /\ Continue(c, Record("list_audit_logs", query, << 1 >>, NoRequest,
                                     LocalAuditTrail(query)))
  BY DEF ListAuditLogs
<1>. DEFINE query == [page |-> page, event |-> filter.event,
                      calls |-> filter.calls]
<1>3. CASE Denied(c, "list_audit_logs", query)
  BY <1>1, <1>3, DeniedStep DEF IInv
<1>4. CASE /\ auditLogBuffer' = RecordAuditLogEntry(AuditEntry(c, "access.granted"))
           /\ Continue(c, Record("list_audit_logs", query, << 1 >>, NoRequest,
                                 LocalAuditTrail(query)))
  <2>. DEFINE batches == << 1 >>
              granted == AuditEntry(c, "access.granted")
              trail == LocalAuditTrail(query)
              record == Record("list_audit_logs", query, batches, NoRequest, trail)
              n == Len(auditLogBuffer')
  <2>1. granted \in AuditEvent /\ granted.call = c /\ granted.event = "access.granted"
    BY DEF AuditEntry, AuditEvent
  <2>2. /\ AuditInv' /\ n > 0 /\ auditLogBuffer'[n] = granted
        /\ \A i \in DOMAIN auditLogBuffer' :
             \/ i = n
             \/ \E j \in DOMAIN auditLogBuffer :
                  auditLogBuffer'[i] = auditLogBuffer[j]
    BY <1>4, <2>1, AuditRecorded DEF IInv
  <2>3. n \in Nat /\ DOMAIN auditLogBuffer' = 1..n
    BY <2>2, LenProperties DEF AuditInv
  <2>4. \A i \in 1..n : i # n => auditLogBuffer'[i] # granted
    <3>1. \A j \in DOMAIN auditLogBuffer : auditLogBuffer[j].call # c
      BY <1>1 DEF IInv, AuditMade
    <3>. HIDE DEF granted
    <3>2. ASSUME NEW i \in 1..n, i # n PROVE auditLogBuffer'[i] # granted
      <4>1. i \in DOMAIN auditLogBuffer'
        BY <2>3
      <4>2. PICK j \in DOMAIN auditLogBuffer :
              auditLogBuffer'[i] = auditLogBuffer[j]
        BY <2>2, <3>2, <4>1
      <4>. QED
        BY <2>1, <3>1, <4>2
    <3>. QED
      BY <3>2
  <2>5. page.offset \in Nat /\ page.limit \in Nat \ {0}
    OBVIOUS
  <2>. HIDE DEF granted, n
  <2>6. granted \in trail <=> ShowsOwn(c, query)
    <3>1. granted \in AuditPage(auditLogBuffer', query) <=>
            /\ page.offset = 0 /\ filter.event \in {None, granted.event}
            /\ granted.call \in filter.calls
      <4>. DEFINE buffer == auditLogBuffer'
      <4>1. /\ n > 0 /\ DOMAIN buffer = 1..n /\ buffer[n] = granted
            /\ \A i \in 1..n : i # n => buffer[i] # granted
        BY <2>2, <2>3, <2>4
      <4>. HIDE DEF buffer
      <4>2. granted \in AuditPage(buffer, query) <=>
              /\ page.offset = 0 /\ filter.event \in {None, granted.event}
              /\ granted.call \in filter.calls
        BY <2>3, <2>5, <4>1, NewestOnPage
      <4>. QED
        BY <4>2 DEF buffer
    <3>2. query.page = page /\ query.event = filter.event /\ query.calls = filter.calls
      OBVIOUS
    <3>. HIDE DEF query
    <3>. QED
      BY <2>1, <3>1, <3>2 DEF ShowsOwn, LocalAuditTrail
  <2>7. Head(batches) = 1 /\ Tail(batches) = <<>>
    OBVIOUS
  <2>8. Tail(batches) \in Seq(Nat \ {0})
    OBVIOUS
  <2>9. /\ record = Record("list_audit_logs", query, batches, NoRequest, trail)
        /\ Continue(c, record)
    BY <1>4
  <2>. HIDE DEF batches, trail, record, query
  <2>10. /\ Sound(record) /\ record.stage = "running" /\ record.answer = None
         /\ record.tool = "list_audit_logs" /\ record.request = NoRequest
         /\ record.args = query
         /\ record.trail = trail /\ record.waiting = 1 /\ record.out = 0
    BY <2>7, <2>8, <2>9, NewRecord
  <2>11. AskedBy(c, record, None)
    BY <1>1, <2>6, <2>10
    DEF AskedBy, Asked, Reading, NoRequest, Asks, ListTools, granted
  <2>12. Good(c, record)
    BY <2>10, <2>11 DEF Good
  <2>13. Calling' /\ Moved(c)
    BY <1>1, <2>9, <2>12, ContinueStep DEF IInv
  <2>. QED
    BY <1>1, <1>4, <2>13, AuditGrows DEF IInv
<1>. HIDE DEF query
<1>. QED
  BY <1>2, <1>3, <1>4 DEF query

LEMMA OtherToolStep ==
  ASSUME IInv, NEW c \in Calls, OtherTool(c)
  PROVE  IInv'
<1>1. PICK t \in {[tool |-> "get_grades", batches |-> <<1, 2>>],
                  [tool |-> "list_courses", batches |-> << 1 >>]} :
        \/ Denied(c, t.tool, <<>>)
        \/ Granted(c, t.tool, <<>>, t.batches, NoRequest, FALSE)
  BY DEF OtherTool
<1>2. call[c] = Unused /\ registry' = registry
  BY DEF OtherTool
<1>3. /\ t.tool \in ToolNames /\ t.tool # "list_audit_logs"
      /\ t.tool \notin ListTools
      /\ t.tool # "get_grades" => t.batches = << 1 >>
      /\ t.batches = << 1 >> \/ t.batches = <<1, 2>>
  BY DEF ToolNames, ListTools
<1>4. Head(t.batches) \in Nat \ {0} /\ Tail(t.batches) \in Seq(Nat \ {0})
  <2>1. ASSUME NEW batches, batches = << 1 >>
        PROVE  Head(batches) \in Nat \ {0} /\ Tail(batches) \in Seq(Nat \ {0})
    BY <2>1
  <2>2. ASSUME NEW batches, batches = <<1, 2>>
        PROVE  Head(batches) \in Nat \ {0} /\ Tail(batches) \in Seq(Nat \ {0})
    BY <2>2
  <2>. QED
    BY <1>3, <2>1, <2>2
<1>5. Asked(c, t.tool, <<>>, NoRequest, {}, None)
  BY <1>3 DEF Asked, Reading, NoRequest, Asks
<1>. QED
  BY <1>1, <1>2, <1>3, <1>4, <1>5, DeniedStep, GrantedStep DEF IInv

-----------------------------------------------------------------------------
(* Blackboard.                                                             *)

\* A call that was made has a good record.
LEMMA MadeIsGood ==
  ASSUME Calling, NEW c \in Made
  PROVE  c \in Calls /\ Good(c, call[c]) /\ Sound(call[c])
BY DEF Calling, CallsInv, Made, Unused, Good

\* What is served to a call that has no reply yet.
LEMMA ServedStep ==
  ASSUME Calling, NEW c \in Made, NEW status, NEW shape, NEW items,
         status \in {"done", "refused", "unavailable"},
         status = "done" /\ call[c].request.method = "GET" =>
           shape # "none" /\ items = Listing(call[c].request, registry),
         call[c].reply = NoReply, Served(c, status, shape, items)
  PROVE  Calling' /\ Moved(c)
<1>. DEFINE old == call[c]
            reply == [status |-> status, shape |-> shape, items |-> items]
            new == [old EXCEPT !.reply = reply, !.readAt = registry]
<1>1. /\ c \in Calls /\ Good(c, old) /\ Sound(old)
      /\ IsCall(old) /\ Numbers(old) /\ old.reply.status = "none"
  BY MadeIsGood DEF Sound, NoReply
<1>2. Continue(c, new)
  BY <1>1 DEF Served, Continue, Calling, CallsInv
<1>3. reply.status = status /\ reply.shape = shape /\ reply.items = items
  OBVIOUS
<1>. HIDE DEF reply
<1>4. /\ IsCall(new) /\ new.reply = reply /\ new.readAt = registry
      /\ new.stage = old.stage /\ new.tool = old.tool /\ new.args = old.args
      /\ new.waiting = old.waiting /\ new.out = old.out
      /\ new.batches = old.batches /\ new.upstreamCalls = old.upstreamCalls
      /\ new.sent = old.sent /\ new.answer = old.answer
      /\ new.request = old.request /\ new.items = old.items
      /\ new.trail = old.trail
  BY <1>1 DEF IsCall, Fields
<1>. HIDE DEF new
<1>5. Sound(new)
  BY <1>1, <1>3, <1>4 DEF Sound, Numbers, Replied
<1>6. Good(c, new)
  BY <1>1, <1>4, <1>5 DEF Good, AskedBy, Answered
<1>7. Follows(old, new)
  BY <1>1, <1>4 DEF Follows, Numbers
<1>. QED
  BY <1>1, <1>2, <1>6, <1>7, ContinueStep

\* What Blackboard writes is what the call asks for.
LEMMA WriteIsAsAsked ==
  ASSUME IInv, NEW c \in Made, ServeWrite(c)
  PROVE  \E id \in ResourceIds, resource \in Resource \cup {None} :
           /\ Write(c, id, resource)
           /\ call[c].request.method # "GET"
           /\ call[c].tool \in WriteTools
           /\ "id" \in DOMAIN call[c].args => call[c].args.id = id
           /\ "id" \notin DOMAIN call[c].args => id \in SubscriptionIds
           /\ call[c].tool \in UpdateTools => registry[id] # None
           /\ resource = AsAsked(c, id)
<1>. DEFINE tool == call[c].tool
            args == call[c].args
            q == call[c].request
<1>1. \/ q.method = "GET"
      \/ Writing(tool, args, q)
  BY MadeIsGood DEF IInv, Good, AskedBy, Asked, Reading
<1>2. q.method # "GET"
  BY DEF ServeWrite
<1>3. CASE /\ tool = "create_enrollment"
           /\ \E id \in EnrollmentIds, fields \in Resource :
                /\ args = [id |-> id, fields |-> fields]
                /\ q = Asks("POST", TRUE, {id}, fields)
  <2>1. PICK id \in EnrollmentIds, fields \in Resource :
          /\ args = [id |-> id, fields |-> fields]
          /\ q = Asks("POST", TRUE, {id}, fields)
    BY <1>3
  <2>2. q.method = "POST" /\ q.ids = {id} /\ q.body = fields
    BY <2>1 DEF Asks
  <2>3. Write(c, id, fields)
    BY <2>2 DEF ServeWrite
  <2>4. /\ "id" \in DOMAIN args /\ args.id = id /\ args.fields = fields
        /\ id \in ResourceIds /\ fields \in Resource \cup {None}
        /\ tool \in WriteTools /\ tool \notin UpdateTools
    BY <1>3, <2>1 DEF ResourceIds, WriteTools, UpdateTools
  <2>5. fields = AsAsked(c, id)
    BY <1>3, <2>4 DEF AsAsked
  <2>. QED
    BY <1>2, <2>3, <2>4, <2>5
<1>4. CASE /\ tool = "create_webhook_subscription"
           /\ \E k \in Kinds :
                /\ args = [fields |-> [kind |-> k]]
                /\ q = Asks("POST", FALSE, SubscriptionIds, [kind |-> k, on |-> TRUE])
  <2>1. PICK k \in Kinds :
          /\ args = [fields |-> [kind |-> k]]
          /\ q = Asks("POST", FALSE, SubscriptionIds, [kind |-> k, on |-> TRUE])
    BY <1>4
  <2>. DEFINE body == [kind |-> k, on |-> TRUE]
  <2>2. q.method = "POST" /\ q.ids = SubscriptionIds /\ q.body = body
    BY <2>1 DEF Asks
  <2>3. PICK id \in SubscriptionIds : Write(c, id, body)
    BY <2>2 DEF ServeWrite
  <2>4. /\ "id" \notin DOMAIN args /\ args.fields.kind = k
        /\ id \in ResourceIds /\ body \in Resource \cup {None}
        /\ tool \in WriteTools /\ tool \notin UpdateTools
    BY <1>4, <2>1 DEF ResourceIds, Resource, WriteTools, UpdateTools
  <2>5. body = AsAsked(c, id)
    BY <1>4, <2>4 DEF AsAsked
  <2>. QED
    BY <1>2, <2>3, <2>4, <2>5
<1>5. CASE /\ tool \in UpdateTools
           /\ \E id \in ResourceIds, fields \in Changes :
                /\ args = [id |-> id, fields |-> fields]
                /\ q = Asks("PATCH", TRUE, {id}, UpdatePayload(fields))
  <2>1. PICK id \in ResourceIds, fields \in Changes :
          /\ args = [id |-> id, fields |-> fields]
          /\ q = Asks("PATCH", TRUE, {id}, UpdatePayload(fields))
    BY <1>5
  <2>. DEFINE body == UpdatePayload(fields)
              resource == Completed(body, registry[id])
  <2>2. q.method = "PATCH" /\ q.ids = {id} /\ q.body = body
    BY <2>1 DEF Asks
  <2>3. Write(c, id, resource) /\ registry[id] # None
    BY <2>2 DEF ServeWrite, Present
  <2>4. registry[id] \in Resource
    BY <2>3 DEF IInv
  <2>5. DOMAIN fields \subseteq {"kind", "on"}
    <3>1. CASE fields = <<>>
      BY <3>1
    <3>2. CASE fields \in [kind : Kinds] \cup [on : BOOLEAN] \cup Resource
      BY <3>2 DEF Resource
    <3>. QED
      BY <3>1, <3>2 DEF Changes
  <2>6. /\ "kind" \in DOMAIN fields => fields["kind"] \in Kinds
        /\ "on" \in DOMAIN fields => fields["on"] \in BOOLEAN
    <3>1. CASE fields = <<>>
      BY <3>1
    <3>2. CASE fields \in [kind : Kinds]
      BY <3>2
    <3>3. CASE fields \in [on : BOOLEAN]
      BY <3>3
    <3>4. CASE fields \in Resource
      BY <3>4 DEF Resource
    <3>. QED
      BY <3>1, <3>2, <3>3, <3>4 DEF Changes
  <2>7. DOMAIN registry[id] = {"kind", "on"}
    BY <2>4 DEF Resource
  <2>8. resource = [f \in {"kind", "on"} |-> IF f \in DOMAIN fields
                                             THEN fields[f] ELSE registry[id][f]]
    <3>1. body = [f \in DOMAIN fields |-> fields[f]]
      BY DEF UpdatePayload
    <3>2. DOMAIN body \cup DOMAIN registry[id] = {"kind", "on"}
      BY <2>5, <2>7, <3>1
    <3>. QED
      BY <3>1, <3>2 DEF Completed
  <2>9. resource \in Resource
    BY <2>4, <2>6, <2>8 DEF Resource
  <2>10. /\ "id" \in DOMAIN args /\ args.id = id /\ args.fields = fields
         /\ tool \in WriteTools
    BY <1>5, <2>1 DEF WriteTools
  <2>11. resource = AsAsked(c, id)
    BY <1>5, <2>8, <2>10 DEF AsAsked, UpdateTools
  <2>. HIDE DEF resource
  <2>. QED
    BY <1>2, <2>3, <2>9, <2>10, <2>11
<1>6. CASE /\ tool \in DeleteTools
           /\ \E id \in ResourceIds :
                /\ args = [id |-> id]
                /\ q = Asks("DELETE", TRUE, {id}, <<>>)
  <2>1. PICK id \in ResourceIds :
          args = [id |-> id] /\ q = Asks("DELETE", TRUE, {id}, <<>>)
    BY <1>6
  <2>2. q.method = "DELETE" /\ q.ids = {id}
    BY <2>1 DEF Asks
  <2>3. Write(c, id, None)
    BY <2>2 DEF ServeWrite, Present
  <2>4. /\ "id" \in DOMAIN args /\ args.id = id
        /\ tool \in WriteTools /\ tool \notin UpdateTools
    BY <1>6, <2>1 DEF WriteTools, UpdateTools, DeleteTools
  <2>5. AsAsked(c, id) = None
    BY <1>6 DEF AsAsked, UpdateTools, DeleteTools
  <2>. QED
    BY <1>2, <2>3, <2>4, <2>5
<1>. QED
  BY <1>1, <1>2, <1>3, <1>4, <1>5, <1>6, Zenon DEF Writing

LEMMA BlackboardStep ==
  ASSUME IInv, NEW c \in Calls, BlackboardServes(c)
  PROVE  IInv'
<1>1. c \in Made /\ call[c].reply = NoReply /\ Calling
  BY DEF BlackboardServes, IInv
<1>2. CASE ServeRead(c)
  <2>. DEFINE shape == IF call[c].request.one THEN "one" ELSE "envelope"
              request == call[c].request
              items == {Item(id) :
                          id \in IF request.one THEN Present(request.ids)
                                 ELSE OnPage(Present(request.ids), request.body)}
  <2>1. /\ Served(c, "done", shape, items) /\ registry' = registry
        /\ auditLogBuffer' = auditLogBuffer
    BY <1>2 DEF ServeRead, Served
  <2>2. shape # "none" /\ items = Listing(request, registry)
    BY DEF Item, Present, Listing
  <2>. HIDE DEF shape, items
  <2>3. Calling' /\ Moved(c)
    BY <1>1, <2>1, <2>2, ServedStep
  <2>. QED
    BY <2>1, <2>3, AuditStays DEF IInv
<1>3. CASE ServeWrite(c)
  <2>1. PICK id \in ResourceIds, resource \in Resource \cup {None} :
          Write(c, id, resource) /\ call[c].request.method # "GET"
    BY <1>1, <1>3, WriteIsAsAsked
  <2>. DEFINE items == {[id |-> id, resource |-> resource]}
  <2>2. /\ Served(c, "done", "one", items) /\ auditLogBuffer' = auditLogBuffer
        /\ registry' = [registry EXCEPT ![id] = resource]
    BY <2>1 DEF Write, Served
  <2>. HIDE DEF items
  <2>3. Calling' /\ Moved(c)
    BY <1>1, <2>1, <2>2, ServedStep
  <2>. QED
    BY <2>2, <2>3, AuditStays DEF IInv
<1>4. CASE Refuse(c)
  <2>1. PICK status \in {"refused", "unavailable"} : Served(c, status, "none", {})
    BY <1>4 DEF Refuse
  <2>2. registry' = registry /\ auditLogBuffer' = auditLogBuffer
    BY <1>4, <2>1 DEF Refuse, Served
  <2>3. Calling' /\ Moved(c)
    BY <1>1, <2>1, ServedStep
  <2>. QED
    BY <2>2, <2>3, AuditStays DEF IInv
<1>. QED
  BY <1>2, <1>3, <1>4 DEF BlackboardServes

-----------------------------------------------------------------------------
(* Requests and their answers.                                             *)

\* The record of a call under way or over, with fewer or more requests waiting
\* or out: what else of it stays.
LEMMA Recount ==
  ASSUME NEW old, NEW new, NEW w, NEW o, IsCall(old),
         new = [old EXCEPT !.waiting = w, !.out = o]
  PROVE  /\ IsCall(new) /\ new.waiting = w /\ new.out = o
         /\ new.stage = old.stage /\ new.tool = old.tool /\ new.args = old.args
         /\ new.batches = old.batches /\ new.upstreamCalls = old.upstreamCalls
         /\ new.sent = old.sent /\ new.answer = old.answer
         /\ new.request = old.request /\ new.reply = old.reply
         /\ new.items = old.items /\ new.trail = old.trail
         /\ new.readAt = old.readAt
BY DEF IsCall, Fields

LEMMA SendStep ==
  ASSUME Calling, NEW c \in Calls, RequestSent(c)
  PROVE  Calling' /\ Moved(c)
<1>. DEFINE old == call[c]
            new == [old EXCEPT !.waiting = @ - 1, !.out = @ + 1,
                               !.sent = @ + 1, !.upstreamCalls = @ + 1]
<1>1. c \in Made /\ old.waiting > 0 /\ UNCHANGED <<stats, traceBuffer, traced>>
  BY DEF RequestSent
<1>2. Good(c, old) /\ Sound(old) /\ IsCall(old) /\ Numbers(old)
  BY <1>1, MadeIsGood DEF Sound
<1>3. /\ IsCall(new)
      /\ new.waiting = old.waiting - 1 /\ new.out = old.out + 1
      /\ new.sent = old.sent + 1 /\ new.upstreamCalls = old.upstreamCalls + 1
      /\ new.stage = old.stage /\ new.tool = old.tool /\ new.args = old.args
      /\ new.batches = old.batches /\ new.answer = old.answer
      /\ new.request = old.request /\ new.reply = old.reply
      /\ new.items = old.items /\ new.trail = old.trail
      /\ new.readAt = old.readAt
  BY <1>2 DEF IsCall, Fields
<1>4. ASSUME NEW d \in Made, d # c
      PROVE  [call[d] EXCEPT !.waiting = @ - 0, !.out = @ + 0, !.sent = @ + 0,
                             !.upstreamCalls = @ + 0] = call[d]
  <2>1. IsCall(call[d]) /\ Numbers(call[d])
    BY MadeIsGood DEF Sound
  <2>2. /\ call[d].waiting - 0 = call[d].waiting /\ call[d].out + 0 = call[d].out
        /\ call[d].sent + 0 = call[d].sent
        /\ call[d].upstreamCalls + 0 = call[d].upstreamCalls
    BY <2>1 DEF Numbers
  <2>. QED
    BY <2>1, <2>2 DEF IsCall, Fields
<1>5. call' = [d \in Calls |-> IF d = c THEN new ELSE call[d]]
  <2>1. call' = [d \in Calls |->
          IF d \notin {c} \cup Made THEN call[d]
          ELSE [call[d] EXCEPT !.waiting = @ - (IF d = c THEN 1 ELSE 0),
                               !.out = @ + (IF d = c THEN 1 ELSE 0),
                               !.sent = @ + (IF d = c THEN 1 ELSE 0),
                               !.upstreamCalls = @ + (IF d = c THEN 1 ELSE 0)]]
    BY DEF RequestSent, CountedFor
  <2>2. ASSUME NEW d \in Calls
        PROVE  call'[d] = IF d = c THEN new ELSE call[d]
    BY <1>4, <2>1
  <2>. QED
    BY <2>1, <2>2
<1>6. Continue(c, new)
  BY <1>1, <1>5 DEF Continue, Calling, CallsInv
<1>. HIDE DEF new
<1>7. Numbers(new) /\ Replied(new)
  <2>1. Replied(old)
    BY <1>2 DEF Sound
  <2>2. Replied(new)
    BY <1>3, <2>1 DEF Replied
  <2>3. /\ old.waiting \in Nat /\ old.out \in Nat /\ old.sent \in Nat
        /\ old.upstreamCalls = old.sent /\ old.batches \in Seq(Nat \ {0})
        /\ old.tool # "get_grades" =>
             old.batches = <<>> /\ old.waiting + old.out <= 1
    BY <1>2 DEF Numbers
  <2>4. /\ new.waiting \in Nat /\ new.out \in Nat /\ new.sent \in Nat
        /\ new.upstreamCalls = new.sent
        /\ new.waiting + new.out = old.waiting + old.out
    <3>1. /\ new.waiting = old.waiting - 1 /\ new.out = old.out + 1
          /\ new.sent = old.sent + 1 /\ new.upstreamCalls = old.upstreamCalls + 1
      BY <1>3
    <3>2. \A w \in Nat, o \in Nat : w > 0 =>
            w - 1 \in Nat /\ o + 1 \in Nat /\ w - 1 + (o + 1) = w + o
      OBVIOUS
    <3>3. old.waiting > 0
      BY <1>1
    <3>4. /\ new.waiting \in Nat /\ new.out \in Nat
          /\ new.waiting + new.out = old.waiting + old.out
      <4>1. old.waiting \in Nat /\ old.out \in Nat
        BY <2>3
      <4>2. /\ old.waiting - 1 \in Nat /\ old.out + 1 \in Nat
            /\ old.waiting - 1 + (old.out + 1) = old.waiting + old.out
        BY <3>2, <3>3, <4>1
      <4>. QED
        BY <3>1, <4>2, Zenon
    <3>5. \A n \in Nat : n + 1 \in Nat
      OBVIOUS
    <3>6. new.sent \in Nat /\ new.upstreamCalls = new.sent
      BY <2>3, <3>1, <3>5, Zenon
    <3>. QED
      BY <3>4, <3>6
  <2>5. Numbers(new)
    <3>1. new.tool = old.tool /\ new.batches = old.batches
      BY <1>3
    <3>. QED
      BY <2>3, <2>4, <3>1 DEF Numbers
  <2>. QED
    BY <2>2, <2>5
<1>8. Good(c, new)
  <2>1. Sound(new)
    BY <1>3, <1>7 DEF Sound
  <2>2. AskedBy(c, new, new.answer) <=> AskedBy(c, old, old.answer)
    BY <1>3 DEF AskedBy
  <2>3. old.stage = "running" => new.waiting + new.out > 0
    BY <1>1, <1>2, <1>3 DEF Numbers
  <2>4. old.stage = "over" /\ Answered(old) => Answered(new)
    BY <1>1, <1>3 DEF Answered
  <2>5. Good(c, old)
    BY <1>2
  <2>. QED
    BY <1>3, <2>1, <2>2, <2>3, <2>4, <2>5 DEF Good
<1>9. Follows(old, new)
  BY <1>1, <1>2, <1>3 DEF Follows, Numbers
<1>. QED
  BY <1>6, <1>8, <1>9, ContinueStep

\* A failure that a tool does not throw is of its only request.
LEMMA FailedStep ==
  ASSUME Calling, NEW c \in Made, NEW record, NEW status,
         \/ call[c].waiting > 0 /\ record = WithoutToken(c)
         \/ call[c].out > 0 /\ record = WithoutAnswer(c),
         RequestFailed(c, record, AnswerToFailure(call[c].tool, status))
  PROVE  Calling' /\ Moved(c)
<1>. DEFINE old == call[c]
            answer == AnswerToFailure(old.tool, status)
<1>1. /\ c \in Calls /\ Good(c, old) /\ Sound(old) /\ IsCall(old)
      /\ Numbers(old) /\ Replied(old) /\ AskedBy(c, old, old.answer)
  BY MadeIsGood DEF Sound, Good
<1>2. /\ IsCall(record)
      /\ record.stage = old.stage /\ record.tool = old.tool
      /\ record.args = old.args /\ record.batches = old.batches
      /\ record.upstreamCalls = old.upstreamCalls /\ record.sent = old.sent
      /\ record.answer = old.answer /\ record.request = old.request
      /\ record.reply = old.reply /\ record.items = old.items
      /\ record.trail = old.trail /\ record.readAt = old.readAt
      /\ \/ /\ old.waiting > 0
            /\ record.waiting = old.waiting - 1 /\ record.out = old.out
         \/ /\ old.out > 0
            /\ record.waiting = old.waiting /\ record.out = old.out - 1
  <2>1. CASE old.waiting > 0 /\ record = WithoutToken(c)
    BY <1>1, <2>1 DEF WithoutToken, IsCall, Fields
  <2>2. CASE old.out > 0 /\ record = WithoutAnswer(c)
    BY <1>1, <2>2 DEF WithoutAnswer, IsCall, Fields
  <2>. QED
    BY <2>1, <2>2
<1>3. Sound(record)
  BY <1>1, <1>2, SMTT(30) DEF Sound, Numbers, Replied
<1>4. old.waiting + old.out > 0 /\ old.waiting \in Nat /\ old.out \in Nat
  BY <1>1, <1>2 DEF Numbers
<1>5. CASE ~Running(c)
  <2>1. Continue(c, record) /\ old.stage = "over" /\ Answered(old)
    BY <1>1, <1>5 DEF RequestFailed, Running, Good
  <2>2. old.answer = "thrown"
    BY <1>4, <2>1 DEF Answered
  <2>3. Good(c, record)
    BY <1>1, <1>2, <1>3, <2>1, <2>2 DEF Good, AskedBy, Answered
  <2>4. Follows(old, record)
    BY <1>1, <1>2 DEF Follows, Numbers
  <2>. QED
    BY <1>1, <2>1, <2>3, <2>4, ContinueStep
<1>6. CASE Running(c)
  <2>. DEFINE r == [record EXCEPT !.stage = "over", !.answer = answer]
  <2>1. Settle(c, record, answer) /\ old.stage = "running" /\ old.answer = None
    BY <1>1, <1>6 DEF RequestFailed, Running, Good, Answered
  <2>2. AskedBy(c, record, answer)
    BY <1>1, <1>2, <2>1, AskedSettles DEF AskedBy
  <2>3. /\ r.answer = answer /\ r.waiting = record.waiting /\ r.out = record.out
        /\ r.tool = old.tool
    BY <1>2 DEF IsCall, Fields
  <2>4. /\ answer \in {"ok", "empty", "reported", "thrown"}
        /\ answer = "ok" => old.tool = "list_audit_logs"
        /\ answer # "thrown" => old.tool # "get_grades"
    BY DEF AnswerToFailure, WebhookTools
  <2>5. answer # "thrown" => record.waiting = 0 /\ record.out = 0
    <3>1. answer # "thrown" => old.waiting + old.out <= 1
      BY <1>1, <2>4, Zenon DEF Numbers
    <3>. HIDE DEF answer
    <3>. QED
      BY <1>2, <1>4, <3>1
  <2>. HIDE DEF r, answer
  <2>6. Answered(r)
    BY <2>3, <2>4, <2>5 DEF Answered, WriteTools, UpdateTools, ListTools
  <2>. QED
    BY <1>1, <1>3, <2>1, <2>2, <2>6, SettleStep DEF r
<1>. QED
  BY <1>5, <1>6

LEMMA AnsweredStep ==
  ASSUME Calling, NEW c \in Made, call[c].out > 0,
         call[c].tool = "get_grades" \/ call[c].reply # NoReply,
         call[c].reply.status \in {"none", "done"},
         RequestAnswered(c, [call[c] EXCEPT !.items = MapItems(call[c].reply)])
  PROVE  Calling' /\ Moved(c)
<1>. DEFINE old == call[c]
            items == MapItems(old.reply)
            record == [[old EXCEPT !.items = items] EXCEPT !.out = @ - 1]
<1>1. /\ c \in Calls /\ Good(c, old) /\ Sound(old) /\ IsCall(old)
      /\ Numbers(old) /\ Replied(old) /\ AskedBy(c, old, old.answer)
  BY MadeIsGood DEF Sound, Good
<1>2. /\ IsCall(record)
      /\ record.stage = old.stage /\ record.tool = old.tool
      /\ record.args = old.args /\ record.batches = old.batches
      /\ record.upstreamCalls = old.upstreamCalls /\ record.sent = old.sent
      /\ record.answer = old.answer /\ record.request = old.request
      /\ record.reply = old.reply /\ record.items = items
      /\ record.trail = old.trail /\ record.readAt = old.readAt
      /\ record.waiting = old.waiting /\ record.out = old.out - 1
  BY <1>1 DEF IsCall, Fields
<1>3. \/ /\ ~Running(c) \/ record.waiting + record.out > 0
         /\ Continue(c, record)
      \/ /\ Running(c) /\ record.waiting + record.out = 0
         /\ IF record.batches # <<>>
              THEN Continue(c, [record EXCEPT !.waiting = Head(record.batches),
                                              !.batches = Tail(@)])
              ELSE Settle(c, record, "ok")
  BY DEF RequestAnswered
<1>. HIDE DEF record, items
<1>4. Sound(record)
  BY <1>1, <1>2, SMTT(30) DEF Sound, Numbers, Replied
<1>5. CASE /\ ~Running(c) \/ record.waiting + record.out > 0
           /\ Continue(c, record)
  <2>1. old.stage = "over" => old.answer = "thrown"
    BY <1>1 DEF Good, Answered, Numbers
  <2>2. Good(c, record)
    BY <1>1, <1>2, <1>4, <1>5, <2>1 DEF Good, AskedBy, Answered, Running
  <2>3. Follows(old, record)
    BY <1>1, <1>2 DEF Follows, Numbers
  <2>. QED
    BY <1>1, <1>5, <2>2, <2>3, ContinueStep
<1>6. CASE /\ Running(c) /\ record.waiting + record.out = 0
           /\ record.batches # <<>>
           /\ Continue(c, [record EXCEPT !.waiting = Head(record.batches),
                                         !.batches = Tail(@)])
  <2>. DEFINE next == [record EXCEPT !.waiting = Head(record.batches),
                                     !.batches = Tail(@)]
  <2>1. record.tool = "get_grades" /\ record.batches \in Seq(Nat \ {0})
    BY <1>4, <1>6 DEF Sound, Numbers
  <2>2. /\ Head(record.batches) \in Nat \ {0}
        /\ Tail(record.batches) \in Seq(Nat \ {0})
    BY <1>6, <2>1
  <2>3. /\ IsCall(next)
        /\ next.stage = old.stage /\ next.tool = old.tool
        /\ next.args = old.args /\ next.batches = Tail(record.batches)
        /\ next.upstreamCalls = old.upstreamCalls /\ next.sent = old.sent
        /\ next.answer = old.answer /\ next.request = old.request
        /\ next.reply = old.reply /\ next.items = items
        /\ next.trail = old.trail /\ next.readAt = old.readAt
        /\ next.waiting = Head(record.batches) /\ next.out = record.out
    BY <1>2 DEF IsCall, Fields
  <2>4. Continue(c, next)
    BY <1>6
  <2>. HIDE DEF next
  <2>5. Sound(next)
    <3>1. IsCall(next)
      BY <2>3
    <3>2. Numbers(next)
      BY <1>2, <1>4, <2>1, <2>2, <2>3 DEF Sound, Numbers
    <3>3. Replied(next)
      BY <1>2, <1>4, <2>3 DEF Sound, Replied
    <3>. QED
      BY <3>1, <3>2, <3>3 DEF Sound
  <2>6. next.waiting + next.out > 0
    BY <1>2, <1>4, <2>2, <2>3 DEF Sound, Numbers
  <2>7. Good(c, next)
    BY <1>1, <1>6, <2>3, <2>5, <2>6 DEF Good, AskedBy, Running
  <2>8. Follows(old, next)
    BY <1>6, <2>3 DEF Follows, Running
  <2>. QED
    BY <1>1, <2>4, <2>7, <2>8, ContinueStep
<1>7. CASE /\ Running(c) /\ record.waiting + record.out = 0
           /\ Settle(c, record, "ok")
  <2>. DEFINE r == [record EXCEPT !.stage = "over", !.answer = "ok"]
  <2>1. old.stage = "running" /\ old.answer = None
    BY <1>1, <1>7 DEF Running, Good, Answered
  <2>2. AskedBy(c, record, "ok")
    BY <1>1, <1>2, <2>1, AskedSettles DEF AskedBy
  <2>3. /\ r.answer = "ok" /\ r.waiting = record.waiting /\ r.out = record.out
        /\ r.tool = old.tool /\ r.reply = old.reply /\ r.items = items
    BY <1>2 DEF IsCall, Fields
  <2>4. record.waiting = 0 /\ record.out = 0
    BY <1>4, <1>7 DEF Sound, Numbers
  <2>5. old.tool # "get_grades" => old.reply.status = "done"
    BY <1>1 DEF Replied
  <2>6. old.tool \in ListTools => items = old.reply.items
    <3>1. old.tool \in ListTools => old.request.method = "GET"
      BY <1>1 DEF AskedBy, Asked, Reading, Writing, UpdateTools, DeleteTools,
                  ListTools
    <3>. QED
      BY <1>1, <2>5, <3>1 DEF Replied, MapItems, items, ListTools
  <2>. HIDE DEF r
  <2>7. Answered(r)
    BY <2>3, <2>4, <2>5, <2>6 DEF Answered, WriteTools, UpdateTools, ListTools
  <2>. QED
    BY <1>1, <1>4, <1>7, <2>1, <2>2, <2>7, SettleStep DEF r
<1>. QED
  BY <1>3, <1>5, <1>6, <1>7

-----------------------------------------------------------------------------
(* The theorems.                                                           *)

LEMMA AnswerStep ==
  ASSUME IInv, NEW c \in Calls,
         NoToken(c) \/ Send(c) \/ AnswerArrives(c) \/ AnswerLost(c)
  PROVE  IInv'
<1>1. registry' = registry /\ auditLogBuffer' = auditLogBuffer /\ Calling
  BY DEF NoToken, Send, AnswerArrives, AnswerLost, IInv
<1>2. CASE NoToken(c)
  <2>1. c \in Made /\ call[c].waiting > 0
    BY <1>2 DEF NoToken
  <2>2. PICK status \in {"refused", "unavailable"} :
          RequestFailed(c, WithoutToken(c), AnswerToFailure(call[c].tool, status))
    BY <1>2 DEF NoToken
  <2>3. Calling' /\ Moved(c)
    BY <1>1, <2>1, <2>2, FailedStep
  <2>. QED
    BY <1>1, <2>3, AuditStays DEF IInv
<1>3. CASE Send(c)
  <2>1. Calling' /\ Moved(c)
    BY <1>1, <1>3, SendStep DEF Send
  <2>. QED
    BY <1>1, <2>1, AuditStays DEF IInv
<1>4. CASE AnswerArrives(c)
  <2>1. /\ c \in Made /\ call[c].out > 0
        /\ call[c].tool = "get_grades" \/ call[c].reply # NoReply
        /\ \/ /\ call[c].reply.status \in {"none", "done"}
              /\ RequestAnswered(c, [call[c] EXCEPT !.items = MapItems(call[c].reply)])
           \/ RequestFailed(c, WithoutAnswer(c),
                            AnswerToFailure(call[c].tool, call[c].reply.status))
    BY <1>4 DEF AnswerArrives
  <2>2. Calling' /\ Moved(c)
    BY <1>1, <2>1, AnsweredStep, FailedStep
  <2>. QED
    BY <1>1, <2>2, AuditStays DEF IInv
<1>5. CASE AnswerLost(c)
  <2>1. /\ c \in Made /\ call[c].out > 0
        /\ RequestFailed(c, WithoutAnswer(c), AnswerToFailure(call[c].tool, "refused"))
    BY <1>5 DEF AnswerLost
  <2>2. Calling' /\ Moved(c)
    BY <1>1, <2>1, FailedStep
  <2>. QED
    BY <1>1, <2>2, AuditStays DEF IInv
<1>. QED
  BY <1>2, <1>3, <1>4, <1>5

LEMMA NextKeeps == IInv /\ [Next]_vars => IInv'
<1>. SUFFICES ASSUME IInv, [Next]_vars PROVE IInv'
  OBVIOUS
<1>1. CASE UNCHANGED vars
  BY <1>1 DEF vars, toolVars, IInv, Calling, RecordsInv, StatsOf, CallsInv,
              TraceInv, AuditInv, AuditMade
<1>2. CASE Finished
  BY <1>1, <1>2 DEF Finished
<1>3. ASSUME NEW c \in Calls,
             \/ CreateEnrollment(c) \/ UpdateEnrollment(c) \/ DeleteEnrollment(c)
             \/ CreateWebhookSubscription(c) \/ UpdateWebhookSubscription(c)
             \/ DeleteWebhookSubscription(c) \/ GetWebhookSubscription(c)
             \/ ListWebhookSubscriptions(c) \/ ListEnrollments(c)
             \/ ListUsers(c) \/ GetUser(c) \/ ListAuditLogs(c) \/ OtherTool(c)
             \/ BlackboardServes(c)
             \/ NoToken(c) \/ Send(c) \/ AnswerArrives(c) \/ AnswerLost(c)
      PROVE  IInv'
  BY <1>3, EnterStep, ListAuditLogsStep, OtherToolStep, BlackboardStep, AnswerStep
<1>. QED
  BY <1>1, <1>2, <1>3 DEF Next

\* Calls, records, audit trail and Blackboard stay consistent with each other.
THEOREM Invariance == Spec => []IInv
<1>1. Init => IInv
  <2>. SUFFICES ASSUME Init PROVE IInv
    OBVIOUS
  <2>1. /\ stats = <<>> /\ traceBuffer = <<>> /\ traced = <<>>
        /\ call = [c \in Calls |-> Unused]
        /\ registry \in InitialRegistries /\ auditLogBuffer = <<>>
    BY DEF Init, ToolInit
  <2>2. ASSUME NEW t PROVE StatsOf(t) = Counts(traced, t)
    <3>1. Of(traced, t) = {} /\ Failed(traced, t) = {}
      BY <2>1 DEF Of, Failed
    <3>. QED
      <4>1. t \notin DOMAIN stats
        BY <2>1
      <4>2. StatsOf(t) = [calls |-> 0, errors |-> 0]
        BY <4>1 DEF StatsOf
      <4>. QED
        BY <3>1, <4>2, FS_EmptySet DEF Counts
  <2>3. traceBuffer = NewestOf(traced)
    <3>1. traced \in Seq(Entry) /\ Len(traced) = 0
      BY <2>1
    <3>2. Kept(traced) = 0
      BY <3>1 DEF Kept
    <3>3. NewestOf(traced) \in Seq(Entry) /\ Len(NewestOf(traced)) = 0
      BY <3>1, <3>2, NewestProperties
    <3>. QED
      BY <2>1, <3>3, EmptySeq
  <2>4. Calling
    BY <2>1, <2>2, <2>3 DEF Calling, RecordsInv, CallsInv, TraceInv
  <2>5. AuditInv /\ AuditMade
    BY <2>1 DEF AuditInv, AuditMade
  <2>. QED
    BY <2>1, <2>4, <2>5 DEF IInv
<1>. QED
  BY <1>1, NextKeeps, PTL DEF Spec

\* Types, among them that no buffer grows over its capacity and that a call
\* under way always has a request waiting or out.
THEOREM TypeCorrect == Spec => []TypeOK
<1>1. IInv => TypeOK
  <2>. SUFFICES ASSUME IInv PROVE TypeOK
    OBVIOUS
  <2>1. traceBuffer \in Seq(Entry) /\ Len(traceBuffer) <= TraceCapacity
    <3>1. traced \in Seq(Entry) /\ traceBuffer = NewestOf(traced)
      BY DEF IInv, Calling, RecordsInv
    <3>2. /\ NewestOf(traced) \in Seq(Entry) /\ Len(traced) \in Nat
          /\ Len(NewestOf(traced)) = Kept(traced)
      BY <3>1, NewestProperties
    <3>. QED
      BY <3>1, <3>2 DEF Kept
  <2>2. ASSUME NEW c \in Made
        PROVE  /\ call[c].stage \in {"running", "over"}
               /\ call[c].waiting \in Nat /\ call[c].out \in Nat
               /\ call[c].answer \in {None, "ok", "empty", "reported", "thrown"}
               /\ call[c].answer # None <=> c \in Over
               /\ Running(c) => call[c].waiting + call[c].out > 0
               /\ call[c].reply.status \in {"none", "done", "refused", "unavailable"}
    <3>1. Good(c, call[c]) /\ Numbers(call[c]) /\ Replied(call[c])
      BY MadeIsGood DEF IInv, Sound
    <3>. QED
      BY <3>1 DEF Good, Numbers, Replied, Answered, Running, Over
  <2>3. ToolTypeOK
    BY <2>1, <2>2 DEF ToolTypeOK, Entry
  <2>. QED
    BY <2>2, <2>3 DEF TypeOK, IInv, AuditInv, AuditEvent
<1>. QED
  BY <1>1, Invariance, PTL

\* Counters, trace buffer and upstream counts say what happened, for any
\* number of calls, of requests, and any capacity.
THEOREM Records == Spec => []CallsAreRecorded
<1>1. IInv => CallsAreRecorded
  <2>. SUFFICES ASSUME IInv PROVE CallsAreRecorded
    OBVIOUS
  <2>1. /\ traced \in Seq(Entry) /\ traceBuffer = NewestOf(traced)
        /\ \A t : StatsOf(t) = Counts(traced, t)
    BY DEF IInv, Calling, RecordsInv
  <2>2. MetricsAgreeWithTraces
    BY <2>1 DEF MetricsAgreeWithTraces, Counts, Of, Failed
  <2>3. TraceBufferIsNewest
    <3>1. /\ Len(traceBuffer) = Kept(traced) /\ Len(traced) \in Nat
          /\ Kept(traced) \in Nat /\ TraceCapacity \in Nat
      BY <2>1, NewestProperties
    <3>2. /\ Kept(traced) \in {TraceCapacity, Len(traced)}
          /\ \A n \in {TraceCapacity, Len(traced)} : Kept(traced) <= n
      BY <3>1 DEF Kept
    <3>3. Min({TraceCapacity, Len(traced)}) = Kept(traced)
      BY <3>1, <3>2 DEF Min
    <3>. QED
      BY <2>1, <3>1, <3>3 DEF TraceBufferIsNewest, NewestOf
  <2>4. TraceCountsOwnRequests
    BY DEF IInv, Calling, TraceInv, EntryHolds, TraceCountsOwnRequests
  <2>. QED
    BY <2>2, <2>3, <2>4 DEF CallsAreRecorded
<1>. QED
  BY <1>1, Invariance, PTL

\* A tool that answers with success did what it says, lists what there was,
\* and shows its own grant.
THEOREM Answers == Spec => []AnswersAreTrue
<1>1. IInv => AnswersAreTrue
  <2>. SUFFICES ASSUME IInv PROVE AnswersAreTrue
    OBVIOUS
  <2>1. ASSUME NEW c \in Over
        PROVE  /\ call[c].answer = "ok" /\ call[c].tool \in WriteTools =>
                    call[c].reply.status = "done"
               /\ call[c].answer = "ok" /\ call[c].tool \in ListTools =>
                    call[c].reply.status = "done" /\ call[c].items = call[c].reply.items
               /\ Replied(call[c]) /\ AskedBy(c, call[c], call[c].answer)
    <3>1. c \in Made /\ call[c].stage = "over"
      BY DEF Over
    <3>2. Good(c, call[c]) /\ Sound(call[c])
      BY <3>1, MadeIsGood DEF IInv
    <3>. QED
      BY <3>1, <3>2 DEF Good, Answered, Sound
  <2>2. SuccessMeansDone
    BY <2>1 DEF SuccessMeansDone
  <2>3. ASSUME NEW c \in Over, call[c].tool \in ListTools,
               call[c].answer = "ok"
        PROVE  LET held == {id \in Described(c) : call[c].readAt[id] # None} IN
               call[c].items =
                 {[id |-> id, resource |-> call[c].readAt[id]] :
                    id \in IF NamesOne(c) THEN held
                           ELSE OnPage(held, call[c].args.page)}
    <3>. DEFINE request == call[c].request
    <3>1. /\ request.method = "GET"
          /\ request.ids = Listed(call[c].tool, call[c].args)
          /\ request.one <=> Single(call[c].tool, call[c].args)
          /\ request.body = call[c].args.page
      BY <2>1, <2>3 DEF AskedBy, Asked, Reading, Writing, UpdateTools, DeleteTools,
                        ListTools
    <3>2. call[c].items = Listing(request, call[c].readAt)
      BY <2>1, <2>3, <3>1 DEF Replied
    <3>3. request.ids = Described(c)
      BY <3>1 DEF Listed, Described, Matching
    <3>4. request.one <=> NamesOne(c)
      BY <3>1 DEF Single, NamesOne
    <3>. HIDE DEF request
    <3>. QED
      BY <3>1, <3>2, <3>3, <3>4, Zenon DEF Listing
  <2>4. OwnGrantOnFirstPage
    BY <2>1 DEF AskedBy, Asked, ShowsOwn, OwnGrantOnFirstPage
  <2>. QED
    BY <2>2, <2>3, <2>4 DEF AnswersAreTrue, ListingsAreExact
<1>. QED
  BY <1>1, Invariance, PTL

\* Nothing changes in Blackboard but as the arguments of some call ask.
THEOREM Writes == Spec => WritesAreAsAsked
<1>. DEFINE A ==
       \A id \in ResourceIds :
         registry'[id] # registry[id] =>
           \E c \in Made :
             /\ call[c].tool \in WriteTools
             /\ "id" \in DOMAIN call[c].args => call[c].args.id = id
             /\ "id" \notin DOMAIN call[c].args => id \in SubscriptionIds
             /\ call[c].tool \in UpdateTools => registry[id] # None
             /\ registry'[id] = AsAsked(c, id)
<1>1. IInv /\ [Next]_vars => [A]_registry
  <2>. SUFFICES ASSUME IInv, [Next]_vars, registry' # registry PROVE A
    OBVIOUS
  <2>1. PICK c \in Calls : BlackboardServes(c)
    <3>1. ~Finished /\ registry' # registry
      BY DEF Finished, vars
    <3>2. ASSUME NEW c \in Calls
          PROVE  ~(\/ CreateEnrollment(c) \/ UpdateEnrollment(c)
                   \/ DeleteEnrollment(c) \/ CreateWebhookSubscription(c)
                   \/ UpdateWebhookSubscription(c) \/ DeleteWebhookSubscription(c)
                   \/ GetWebhookSubscription(c) \/ ListWebhookSubscriptions(c)
                   \/ ListEnrollments(c) \/ ListUsers(c) \/ GetUser(c)
                   \/ ListAuditLogs(c) \/ OtherTool(c))
      BY DEF CreateEnrollment, UpdateEnrollment, DeleteEnrollment,
             CreateWebhookSubscription, UpdateWebhookSubscription,
             DeleteWebhookSubscription, Update, GetWebhookSubscription,
             ListWebhookSubscriptions, ListEnrollments, ListUsers, GetUser,
             ListAuditLogs, OtherTool, CallTool
    <3>3. ASSUME NEW c \in Calls
          PROVE  ~(NoToken(c) \/ Send(c) \/ AnswerArrives(c) \/ AnswerLost(c))
      BY DEF NoToken, Send, AnswerArrives, AnswerLost
    <3>4. Next
      BY DEF vars
    <3>. QED
      BY <3>1, <3>2, <3>3, <3>4 DEF Next
  <2>2. c \in Made /\ ServeWrite(c)
    BY <2>1 DEF BlackboardServes, ServeRead, Refuse
  <2>3. PICK id \in ResourceIds, resource \in Resource \cup {None} :
          /\ Write(c, id, resource)
          /\ call[c].tool \in WriteTools
          /\ "id" \in DOMAIN call[c].args => call[c].args.id = id
          /\ "id" \notin DOMAIN call[c].args => id \in SubscriptionIds
          /\ call[c].tool \in UpdateTools => registry[id] # None
          /\ resource = AsAsked(c, id)
    BY <2>2, WriteIsAsAsked
  <2>4. /\ registry' = [registry EXCEPT ![id] = resource]
        /\ registry \in [ResourceIds -> Resource \cup {None}]
    BY <2>3 DEF Write, IInv
  <2>. QED
    BY <2>2, <2>3, <2>4
<1>. QED
  BY <1>1, Invariance, PTL DEF Spec, WritesAreAsAsked
==============================================================================
