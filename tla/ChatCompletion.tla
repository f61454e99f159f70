--------------------------- MODULE ChatCompletion ---------------------------
(***************************************************************************)
(* The life of a chat request for one model in one process:                *)
(* app/api/routes/chat.py around the limiter, the upstream client or the   *)
(* guardrails backend, the usage and budget trackers and Starlette's       *)
(* streaming response.                                                     *)
(*                                                                         *)
(* A response is JSON or a stream.  A stream is a chain of generators: the *)
(* relay, the limiter's, the output-leak scan's, the upstream client's.    *)
(* A client that goes away ends it in one of two ways.  While the relay    *)
(* awaits the next chunk the task is cancelled, and the chain unwinds from *)
(* the inside, in a task in which every further `await' is cancelled too.  *)
(* While it is suspended at a `yield', the chain is dropped: each generator*)
(* is closed by a task of the event loop's, from the outside in.           *)
(***************************************************************************)
EXTENDS ModelConcurrencyLimiter

CONSTANTS
    Asks,       \* the kinds of answer each request may ask for
    MaxFailures \* bound: Redis fails until it has failed that many requests

\* `fallthrough' asks for guardrails where the mode is `disabled': it takes a
\* slot to be told so, and another one for the upstream call.  `live' and
\* `buffered' are streams without and with a category to redact or block.
Kinds == {"json", "fallthrough", "live", "buffered"}

ASSUME AsksAssumption ==
    /\ Asks \in [Requests -> SUBSET Kinds]
    /\ MaxFailures \in Nat

VARIABLES
    useRedis,   \* are the trackers kept in Redis?
    pc,         \* where each request is
    kind,       \* how it is served, once admitted
    open,       \* the requests with a call to the model under way
    metered,    \* the requests whose token usage is known
    left,       \* the requests whose client has gone away
    status,     \* the HTTP status sent to the client
    counted,    \* what _record_completion has counted, per request
    usage,      \* how often UsageTracker.record has counted the request
    charged,    \* how often BudgetTracker.record has charged its tokens
    disturbed,  \* the requests with a record during which Redis failed
    \* Seen by the properties only:
    answered,   \* the requests whose answer is there: a JSON body, the first
                \* chunk of a live stream, the whole of a buffered one
    dropped     \* those whose answer never became a response

accountVars == <<usage, charged, disturbed, answered, dropped>>
answerVars == <<status, counted>>
chatVars == <<useRedis, pc, kind, open, metered, left, answerVars, accountVars>>
vars == <<limiterVars, chatVars>>

InSlot == {"calling", "sending", "reading", "orphaned"}
Closing == {"closing", "cancelled"}
Recording == {"recordUsage", "recordBudget", "checking"}

TypeOK ==
    /\ LimiterTypeOK
    /\ useRedis \in BOOLEAN
    /\ pc \in [Requests -> {"new", "routed", "queued", "done"}
                            \cup InSlot \cup Closing \cup Recording]
    /\ kind \in [Requests -> {"none"} \cup Kinds]
    /\ open \subseteq Requests
    /\ metered \subseteq Requests
    /\ left \subseteq Requests
    /\ status \in [Requests -> {"none", "200", "error"}]
    /\ counted \in [Requests -> Seq({"200", "error"})]
    /\ usage \in [Requests -> Nat]
    /\ charged \in [Requests -> Nat]
    /\ disturbed \subseteq Requests
    /\ answered \subseteq Requests
    /\ dropped \subseteq Requests

Init ==
    /\ LimiterInit
    /\ useRedis \in BOOLEAN
    /\ pc = [q \in Requests |-> "new"]
    /\ kind = [q \in Requests |-> "none"]
    /\ open = {} /\ metered = {} /\ left = {}
    /\ status = [q \in Requests |-> "none"]
    /\ counted = [q \in Requests |-> <<>>]
    /\ usage = [q \in Requests |-> 0]
    /\ charged = [q \in Requests |-> 0]
    /\ disturbed = {} /\ answered = {} /\ dropped = {}

Goto(q, from, to) == pc[q] = from /\ pc' = [pc EXCEPT ![q] = to]

\* The response starts; its status cannot change any more.
Answer(q, s) == status' = [status EXCEPT ![q] = s]
\* CHAT_COMPLETIONS_TOTAL.labels(...).inc()
_record_completion(q, s) == counted' = [counted EXCEPT ![q] = Append(@, s)]

\* An exception leaves the route before a response has started.
RaiseError(q) == Answer(q, "error") /\ _record_completion(q, "error")

Outside == UNCHANGED limiterVars

-----------------------------------------------------------------------------
(* Before the call *)

\* require_api_key, or the look-up of the model, says no: 401, 429 or 404.
\* None of these is counted as a chat completion.
Refuse(q) ==
    /\ Goto(q, "new", "done")
    /\ Answer(q, "error")
    /\ Outside
    /\ UNCHANGED <<useRedis, kind, open, metered, left, counted, accountVars>>

Admit(q) ==
    /\ Goto(q, "new", "routed")
    /\ \E k \in Asks[q] : kind' = [kind EXCEPT ![q] = k]
    /\ Outside
    /\ UNCHANGED <<useRedis, open, metered, left, answerVars, accountVars>>

\* The key may not use the model, the prompt is blocked, the guardrails
\* configuration does not load, an event cannot be logged, no API key is set.
RouteRejects(q) ==
    /\ Goto(q, "routed", "done")
    /\ RaiseError(q)
    /\ Outside
    /\ UNCHANGED <<useRedis, kind, open, metered, left, accountVars>>

\* In the slot the model is called, unless the backend is the disabled one.
StartCall(q) ==
    /\ open' = IF kind[q] = "fallthrough" THEN open ELSE open \cup {q}
    /\ UNCHANGED <<useRedis, kind, metered, left, answerVars, accountVars>>

EnterSlot(q) ==
    /\ Goto(q, "routed", "calling")
    /\ AcquireFree(q)
    /\ StartCall(q)

Queue(q) ==
    /\ Goto(q, "routed", "queued")
    /\ AcquireQueued(q)
    /\ UNCHANGED <<useRedis, kind, open, metered, left, answerVars, accountVars>>

LeaveQueue(q) ==
    /\ Goto(q, "queued", "calling")
    /\ AcquireWoken(q)
    /\ StartCall(q)

\* A queued request is cancelled, as the server does when it is shut down.
\* CancelledError is no Exception: the route counts and sends nothing.
CancelQueued(q) ==
    /\ Goto(q, "queued", "done")
    /\ AcquireCancelled(q)
    /\ UNCHANGED <<useRedis, kind, open, metered, left, answerVars, accountVars>>

\* So is one whose call is under way, or whose buffered answer is about to be
\* sent; the exception unwinds it, and no on_close has been handed over yet.
CancelCall(q) ==
    /\ Goto(q, "calling", "done")
    /\ open' = open \ {q}
    /\ dropped' = dropped \cup ({q} \cap answered)
    /\ Release(q)
    /\ UNCHANGED <<useRedis, kind, metered, left, answerVars>>
    /\ UNCHANGED <<usage, charged, disturbed, answered>>

-----------------------------------------------------------------------------
(* The call *)

\* Once a frame has come, the upstream client raises nothing any more.
NothingReceived(q) ==
    /\ q \notin metered
    /\ kind[q] = "buffered" => q \in open

\* Mutant of CallFails: the slot is given back on success only.
CallFailsInSlot(q) ==
    /\ NothingReceived(q)
    /\ Goto(q, "calling", "done")
    /\ open' = open \ {q}
    /\ RaiseError(q)
    /\ Outside
    /\ UNCHANGED <<useRedis, kind, metered, left, accountVars>>

\* Mutant of CallFails: the handler of OpenAIError does not count.
CallFailsUncounted(q) ==
    /\ NothingReceived(q)
    /\ Goto(q, "calling", "done")
    /\ open' = open \ {q}
    /\ Answer(q, "error")
    /\ Release(q)
    /\ UNCHANGED <<useRedis, kind, metered, left, counted, accountVars>>

\* No answer after the retries, an error status, a failing guardrail.
CallFails(q) ==
    /\ NothingReceived(q)
    /\ Goto(q, "calling", "done")
    /\ open' = open \ {q}
    /\ RaiseError(q)
    /\ Release(q)
    /\ UNCHANGED <<useRedis, kind, metered, left, accountVars>>

\* A buffered stream has ended and been scanned, and an event of the scan
\* cannot be logged.  The exception leaves the first __anext__, before there
\* is a relay to run on_close: what was received is accounted to nobody.
LogFails(q) ==
    /\ kind[q] = "buffered"
    /\ q \notin open
    /\ Goto(q, "calling", "done")
    /\ RaiseError(q)
    /\ dropped' = dropped \cup {q}
    /\ Release(q)
    /\ UNCHANGED <<useRedis, kind, open, metered, left>>
    /\ UNCHANGED <<usage, charged, disturbed, answered>>

\* process_chat_completion returns None: the request starts over as direct.
FallThrough(q) ==
    /\ kind[q] = "fallthrough"
    /\ Goto(q, "calling", "routed")
    /\ kind' = [kind EXCEPT ![q] = "json"]
    /\ Release(q)
    /\ UNCHANGED <<useRedis, open, metered, left, answerVars, accountVars>>

\* A JSON answer carries its usage, which is recorded outside the slot.
CallAnswers(q) ==
    /\ kind[q] = "json"
    /\ Goto(q, "calling", "recordUsage")
    /\ open' = open \ {q}
    /\ metered' = metered \cup {q}
    /\ answered' = answered \cup {q}
    /\ Release(q)
    /\ UNCHANGED <<useRedis, kind, left, answerVars>>
    /\ UNCHANGED <<usage, charged, disturbed, dropped>>

-----------------------------------------------------------------------------
(* The stream *)

\* Mutant of FirstChunk: the slot is held only until the first chunk.
FirstChunkFreesSlot(q) ==
    /\ kind[q] = "live"
    /\ Goto(q, "calling", "sending")
    /\ Answer(q, "200")
    /\ answered' = answered \cup {q}
    /\ Release(q)
    /\ UNCHANGED <<useRedis, kind, open, metered, left, counted>>
    /\ UNCHANGED <<usage, charged, disturbed, dropped>>

\* The first chunk is there; Starlette sends the 200 and relays it.
FirstChunk(q) ==
    /\ kind[q] = "live"
    /\ Goto(q, "calling", "sending")
    /\ Answer(q, "200")
    /\ answered' = answered \cup {q}
    /\ Outside
    /\ UNCHANGED <<useRedis, kind, open, metered, left, counted>>
    /\ UNCHANGED <<usage, charged, disturbed, dropped>>

\* The chunk with the usage arrives, in `usage_holder' and not at the client.
UsageChunk(q) ==
    /\ q \in open
    /\ pc[q] = "reading" \/ (pc[q] = "calling" /\ kind[q] \in {"live", "buffered"})
    /\ metered' = metered \cup {q}
    /\ Outside
    /\ UNCHANGED <<useRedis, pc, kind, open, left, answerVars, accountVars>>

\* The last chunk, or an interruption: either way the generator ends.
UpstreamEnds(q) ==
    /\ q \in open
    /\ pc[q] = "reading" \/ (pc[q] = "calling" /\ kind[q] = "buffered")
    /\ open' = open \ {q}
    /\ answered' = answered \cup {q}
    /\ Outside
    /\ UNCHANGED <<useRedis, pc, kind, metered, left, answerVars>>
    /\ UNCHANGED <<usage, charged, disturbed, dropped>>

\* The whole response has been read and scanned, and its events are logged.
\* What is sent, be it the chunks, their redaction or a refusal, is a 200.
ReleaseBuffer(q) ==
    /\ kind[q] = "buffered"
    /\ q \notin open
    /\ Goto(q, "calling", "sending")
    /\ Answer(q, "200")
    /\ Outside
    /\ UNCHANGED <<useRedis, kind, open, metered, left, counted, accountVars>>

\* The client has taken the chunk: the relay asks for the next one.
NextChunk(q) ==
    /\ kind[q] = "live"
    /\ Goto(q, "sending", "reading")
    /\ Outside
    /\ UNCHANGED <<useRedis, kind, open, metered, left, answerVars, accountVars>>

Chunk(q) ==
    /\ q \in open
    /\ Goto(q, "reading", "sending")
    /\ Outside
    /\ UNCHANGED <<useRedis, kind, open, metered, left, answerVars, accountVars>>

\* The generators are exhausted (or an event could not be logged at the end
\* of a live stream): the slot is given back, and on_close is to run.
StreamEnds(q) ==
    /\ \/ Goto(q, "reading", "closing") /\ q \notin open
       \/ Goto(q, "sending", "closing") /\ kind[q] = "buffered"
    /\ Release(q)
    /\ UNCHANGED <<useRedis, kind, open, metered, left, answerVars, accountVars>>

\* Mutant of LeaveWhileReading: the relay has no `finally'.
LeaveWhileReadingUnclosed(q) ==
    /\ Goto(q, "reading", "done")
    /\ left' = left \cup {q}
    /\ open' = open \ {q}
    /\ Release(q)
    /\ UNCHANGED <<useRedis, kind, metered, answerVars, accountVars>>

\* The client goes away while a chunk is awaited: Starlette cancels the task.
LeaveWhileReading(q) ==
    /\ Goto(q, "reading", "cancelled")
    /\ left' = left \cup {q}
    /\ open' = open \ {q}
    /\ Release(q)
    /\ UNCHANGED <<useRedis, kind, metered, answerVars, accountVars>>

\* The client goes away while a chunk is being sent: the relay is dropped.
LeaveWhileSending(q) ==
    /\ Goto(q, "sending", "orphaned")
    /\ left' = left \cup {q}
    /\ Outside
    /\ UNCHANGED <<useRedis, kind, open, metered, answerVars, accountVars>>

\* Mutant of Finalize: there is nobody to close a dropped generator.
FinalizeNever(q) == FALSE /\ pc[q] = "orphaned" /\ UNCHANGED vars

\* The relay is closed: it closes the limiter's generator, which gives the
\* slot back and drops the generators inside it.
Finalize(q) ==
    /\ Goto(q, "orphaned", "closing")
    /\ Release(q)
    /\ UNCHANGED <<useRedis, kind, open, metered, left, answerVars, accountVars>>

\* Their turn comes later, and the upstream connection is closed with them.
CloseUpstream(q) ==
    /\ q \in open
    /\ q \in left
    /\ pc[q] # "orphaned"
    /\ open' = open \ {q}
    /\ Outside
    /\ UNCHANGED <<useRedis, pc, kind, metered, left, answerVars, accountVars>>

-----------------------------------------------------------------------------
(* Accounting *)

\* on_close of a stream.
OnClose(q) ==
    /\ Goto(q, "closing", "recordUsage")
    /\ _record_completion(q, "200")
    /\ Outside
    /\ UNCHANGED <<useRedis, kind, open, metered, left, status, accountVars>>

CountRequest(q, times) == usage' = [usage EXCEPT ![q] = @ + times]
\* BudgetTracker.record returns at once if there are no tokens to charge.
ChargeTokens(q, times) ==
    charged' = IF q \in metered THEN [charged EXCEPT ![q] = @ + times] ELSE charged

\* How often Redis may have run a transaction that did not end well: the task
\* was cancelled while it awaited the answer, or the connection failed and the
\* client library tried again (once, in this model) before a RedisError.
IfCancelled == 0..1
IfRetried == 0..2

\* on_close in a cancelled task.  The trackers in memory do not suspend, so
\* it runs to its end.  With Redis the first command is cancelled, at the
\* server perhaps too late, and the budget is not reached.
OnCloseCancelled(q) ==
    /\ Goto(q, "cancelled", "done")
    /\ _record_completion(q, "200")
    /\ IF useRedis
       THEN (\E n \in IfCancelled : CountRequest(q, n)) /\ UNCHANGED charged
       ELSE CountRequest(q, 1) /\ ChargeTokens(q, 1)
    /\ Outside
    /\ UNCHANGED <<useRedis, kind, open, metered, left, status, disturbed>>
    /\ UNCHANGED <<answered, dropped>>

\* The client of a stream goes away during on_close.  The trackers in memory
\* leave no time for that; with Redis, the task is cancelled.
LeaveWhileRecording(q) ==
    /\ useRedis
    /\ kind[q] # "json"
    /\ q \notin left
    /\ left' = left \cup {q}
    /\ \E n \in IfCancelled :
          \/ Goto(q, "recordUsage", "done") /\ CountRequest(q, n) /\ UNCHANGED charged
          \/ Goto(q, "recordBudget", "done") /\ ChargeTokens(q, n) /\ UNCHANGED usage
    /\ Outside
    /\ UNCHANGED <<useRedis, kind, open, metered, answerVars, disturbed>>
    /\ UNCHANGED <<answered, dropped>>

\* A RedisError is logged, and the request goes on.
RedisFails(q) ==
    /\ useRedis
    /\ Cardinality(disturbed) < MaxFailures
    /\ disturbed' = disturbed \cup {q}

RecordUsage(q) ==
    /\ Goto(q, "recordUsage", "recordBudget")
    /\ \/ CountRequest(q, 1) /\ UNCHANGED disturbed
       \/ RedisFails(q) /\ \E n \in IfRetried : CountRequest(q, n)
    /\ UNCHANGED charged
    /\ Outside
    /\ UNCHANGED <<useRedis, kind, open, metered, left, answerVars>>
    /\ UNCHANGED <<answered, dropped>>

\* A stream is done with this; a JSON answer has still to be scanned.
RecordBudget(q) ==
    /\ Goto(q, "recordBudget", IF kind[q] = "json" THEN "checking" ELSE "done")
    /\ \/ ChargeTokens(q, 1) /\ UNCHANGED disturbed
       \/ q \in metered /\ RedisFails(q) /\ \E n \in IfRetried : ChargeTokens(q, n)
    /\ UNCHANGED usage
    /\ Outside
    /\ UNCHANGED <<useRedis, kind, open, metered, left, answerVars>>
    /\ UNCHANGED <<answered, dropped>>

\* The output-leak guardrail passes, redacts or blocks a JSON answer, or fails
\* to log its events.
Check(q) ==
    /\ Goto(q, "checking", "done")
    /\ \E s \in {"200", "error"} : Answer(q, s) /\ _record_completion(q, s)
    /\ Outside
    /\ UNCHANGED <<useRedis, kind, open, metered, left, accountVars>>

-----------------------------------------------------------------------------
RequestNext(q) ==
    \/ Refuse(q) \/ Admit(q) \/ RouteRejects(q)
    \/ EnterSlot(q) \/ Queue(q) \/ LeaveQueue(q) \/ CancelQueued(q)
    \/ CancelCall(q)
    \/ CallFails(q) \/ LogFails(q) \/ FallThrough(q) \/ CallAnswers(q)
    \/ FirstChunk(q) \/ UsageChunk(q) \/ UpstreamEnds(q) \/ ReleaseBuffer(q)
    \/ NextChunk(q) \/ Chunk(q) \/ StreamEnds(q)
    \/ LeaveWhileReading(q) \/ LeaveWhileSending(q)
    \/ Finalize(q) \/ CloseUpstream(q)
    \/ OnClose(q) \/ OnCloseCancelled(q) \/ LeaveWhileRecording(q)
    \/ RecordUsage(q) \/ RecordBudget(q) \/ Check(q)

Next == \E q \in Requests : RequestNext(q)

Spec == Init /\ [][Next]_vars

\* What is left to do before the call, during it, and after it.
Progress(q) ==
    \/ RouteRejects(q) \/ EnterSlot(q) \/ Queue(q) \/ LeaveQueue(q)
    \/ CallFails(q) \/ FallThrough(q) \/ CallAnswers(q) \/ FirstChunk(q)
    \/ UpstreamEnds(q) \/ ReleaseBuffer(q) \/ NextChunk(q) \/ StreamEnds(q)
    \/ Finalize(q) \/ CloseUpstream(q)
    \/ OnClose(q) \/ OnCloseCancelled(q) \/ RecordUsage(q) \/ RecordBudget(q)
    \/ Check(q)

\* The event loop runs what is ready, and closes dropped generators; the
\* client library's time-out ends a call that is not answered; a client takes
\* its chunks or goes away; and an answer is finite.
Fairness ==
    \A q \in Requests : WF_vars(Progress(q)) /\ SF_vars(UpstreamEnds(q))

FairSpec == Spec /\ Fairness

-----------------------------------------------------------------------------
(* Properties *)

\* Slots are held by exactly the requests that are being served: none is kept
\* by a request that failed, was cancelled, lost its client or is recorded.
HeldWhileServed == holders = {q \in Requests : pc[q] \in InSlot}

\* A call to the model is under way only in a slot, which is held "for the
\* whole streamed response", so that slots bound the calls.  The exception is
\* a client that went away: its slot is free before its call is closed.
CallsInSlots == \A q \in open : q \in holders \/ q \in left

\* openbouncer_chat_completions_total counts every admitted request once, and
\* under the status that its client was sent, on every way out of the route
\* and of the stream.
CountedAsAnswered ==
    \A q \in Requests :
        pc[q] = "done" =>
            counted[q] = IF kind[q] = "none" \/ status[q] = "none"
                         THEN <<>> ELSE <<status[q]>>

\* Every answer that the gateway has is accounted for once, whatever becomes
\* of it afterwards: blocked by the scan, its events not logged (JSON, live
\* streams), not delivered, not wanted any more.  The exceptions: an answer
\* that was read into a buffer and never became a response, because an event
\* of its scan could not be logged or the server was shut down, reaches no
\* on_close and is accounted to nobody; and with Redis an error, or a client
\* that left, may lose a record or count it twice.
AccountedOnce ==
    /\ \A q \in dropped : kind[q] = "buffered" /\ status[q] # "200"
    /\ \A q \in Requests \ disturbed :
          /\ usage[q] <= 1 /\ charged[q] <= 1
          /\ pc[q] = "done" /\ ~(useRedis /\ q \in left) =>
                /\ usage[q] = IF q \in answered \ dropped THEN 1 ELSE 0
                /\ charged[q] = IF q \in (answered \ dropped) \cap metered THEN 1 ELSE 0

\* Every request that was received is over at some time, and its call to the
\* model with it: no queue, no dropped generator is waited for in vain.
RequestEnds ==
    \A q \in Requests :
        (pc[q] # "new") ~> (pc[q] = "done" /\ q \notin open)

=============================================================================
