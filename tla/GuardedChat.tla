---------------------------- MODULE GuardedChat -----------------------------
(***************************************************************************)
(* The two guardrails around one chat request (app/api/routes/chat.py):    *)
(* the prompt-injection scan of its messages, before the model is called,  *)
(* and the output-leak scan of the answer, as JSON                         *)
(* (_apply_output_leak_guardrail) or as a stream (_with_output_leak_scan). *)
(*                                                                         *)
(* The model answers anything.  Each match is an event of the guardrail    *)
(* log, whose lock or file may fail at every one of them.                  *)
(*                                                                         *)
(* What the prompt's scan has left behind is forgotten when the answer     *)
(* begins: the two have nothing but the alerts in common.                  *)
(***************************************************************************)
EXTENDS GuardrailScan

CONSTANTS
    PromptPolicies,     \* configurations of the prompt-injection guardrail
    AnswerPolicies,     \* configurations of the output-leak guardrail
    Prompts,            \* what a client may ask: sequences of messages
    Answers,            \* what the model may answer: sequences of choices
    Chunks,             \* the chunks that a streamed answer is made of
    MaxChunks           \* bound: chunks of an answer

ASSUME ChatAssumption ==
    /\ PromptPolicies \subseteq Policies /\ AnswerPolicies \subseteq Policies
    /\ Prompts \subseteq Seq(Messages) /\ Answers \subseteq Seq(Messages)
    /\ Chunks \subseteq Frames
    /\ MaxChunks \in Nat

VARIABLES
    guardrail,      \* whose turn it is
    policy,         \* its configuration
    streaming,
    stage,
    original,       \* the messages, or the choices, that it is given
    messages,       \* and those it hands on
    received,       \* the chunks the model has sent
    sent,           \* the chunks the client has been sent
    action,         \* what the guardrail has resolved to do
    pending,        \* the matches that are not logged yet
    events,         \* the guardrail log's events of this scan
    alerts          \* blocks counted by the alert tracker

contentVars == <<original, messages>>
streamVars == <<received, sent>>
scanVars == <<action, pending, events>>
vars == <<guardrail, policy, streaming, stage, contentVars, streamVars, scanVars, alerts>>

Stages == {"scan", "record", "call", "receive", "done", "refused", "failed"}

TypeOK ==
    /\ guardrail \in {"prompt_injection", "output_leak"}
    /\ policy \in IF guardrail = "prompt_injection" THEN PromptPolicies ELSE AnswerPolicies
    /\ streaming \in BOOLEAN
    /\ stage \in Stages
    /\ original \in IF guardrail = "prompt_injection" THEN Prompts ELSE Answers \cup {<<>>}
    /\ DOMAIN messages = DOMAIN original
    /\ received \in Seq(Chunks) /\ Len(received) <= MaxChunks
    /\ action \in DOMAIN _ACTION_SEVERITY
    /\ pending \in Seq(MatchRecords) /\ events \in Seq(MatchRecords)
    /\ alerts \in 0 .. 1

Init ==
    /\ guardrail = "prompt_injection"
    /\ policy \in PromptPolicies
    /\ streaming = FALSE
    /\ stage = "scan"
    /\ original \in Prompts /\ messages = original
    /\ received = <<>> /\ sent = <<>>
    /\ action = "disabled" /\ pending = <<>> /\ events = <<>>
    /\ alerts = 0

Resolve(matches) ==
    /\ action' = resolve_overall_action(matches)
    /\ pending' = matches
    /\ stage' = "record"
    /\ UNCHANGED <<guardrail, policy, streaming, original, events, alerts>>

ScanPrompt ==
    /\ guardrail = "prompt_injection" /\ stage = "scan"
    /\ LET results == IF policy.enabled THEN scan_request(original, policy)
                      ELSE [i \in DOMAIN original |-> <<>>]
       IN Resolve(FlattenSeq(results)) /\ messages' = apply_action_to_request(original, results)
    /\ UNCHANGED streamVars

\* await record_guardrail_event(...), match after match
RecordEvent ==
    /\ stage = "record" /\ pending # <<>>
    /\ events' = Append(events, Head(pending))
    /\ pending' = Tail(pending)
    /\ UNCHANGED <<guardrail, policy, streaming, stage, contentVars, streamVars, action, alerts>>

\* The request fails, or its stream breaks off.
RecordFails ==
    /\ stage = "record" /\ pending # <<>>
    /\ stage' = "failed"
    /\ UNCHANGED <<guardrail, policy, streaming, contentVars, streamVars, scanVars, alerts>>

\* A 403, or an error frame in a stream that has been held back, after the
\* alert tracker has counted the block.
Block ==
    /\ stage = "record" /\ pending = <<>>
    /\ action = "block"
    /\ alerts' = alerts + 1
    /\ stage' = "refused"
    /\ sent' = IF streaming THEN <<ErrorFrame>> ELSE sent
    /\ UNCHANGED <<guardrail, policy, streaming, contentVars, received, scanVars>>

\* The messages go to the model, or the choices to the client.
HandOn ==
    /\ stage = "record" /\ pending = <<>>
    /\ action # "block" /\ ~streaming
    /\ stage' = "done"
    /\ UNCHANGED <<guardrail, policy, streaming, contentVars, streamVars, scanVars, alerts>>

\* The model is called with the messages.
CallModel ==
    /\ guardrail = "prompt_injection" /\ stage = "done"
    /\ guardrail' = "output_leak"
    /\ policy' \in AnswerPolicies
    /\ stage' = "call"
    /\ original' = <<>> /\ messages' = <<>>
    /\ action' = "disabled" /\ events' = <<>>
    /\ UNCHANGED <<streaming, streamVars, pending, alerts>>

AnswerJSON(choices) ==
    /\ stage = "call"
    /\ stage' = "scan"
    /\ original' = choices /\ messages' = choices
    /\ UNCHANGED <<guardrail, policy, streaming, streamVars, scanVars, alerts>>

\* _apply_output_leak_guardrail
ScanAnswer ==
    /\ guardrail = "output_leak" /\ stage = "scan"
    /\ LET results == IF policy.enabled THEN scan_response(original, policy)
                      ELSE [i \in DOMAIN original |-> <<>>]
       IN Resolve(FlattenSeq(results)) /\ messages' = apply_action_to_response(original, results)
    /\ UNCHANGED streamVars

-----------------------------------------------------------------------------
(* _with_output_leak_scan *)

AnswerStream ==
    /\ stage = "call"
    /\ stage' = "receive"
    /\ streaming' = TRUE
    /\ UNCHANGED <<guardrail, policy, contentVars, streamVars, scanVars, alerts>>

Live == ~requires_buffering(policy)

\* A chunk of the answer: relayed at once, or held back.
Receive(chunk) ==
    /\ stage = "receive"
    /\ Len(received) < MaxChunks
    /\ received' = Append(received, chunk)
    /\ sent' = IF Live THEN Append(sent, chunk) ELSE sent
    /\ UNCHANGED <<guardrail, policy, streaming, stage, contentVars, scanVars, alerts>>

\* Mutant of EndOfStream: what the stream has carried in tool calls is not scanned.
EndOfStreamContent ==
    /\ stage = "receive"
    /\ Resolve(IF policy.enabled THEN scan_text(extract_stream_delta_text(received), policy)
               ELSE <<>>)
    /\ UNCHANGED <<messages, streamVars>>

EndOfStream ==
    /\ stage = "receive"
    /\ Resolve(IF policy.enabled
               THEN scan_text(extract_stream_delta_text(received), policy)
                        \o scan_tool_calls(Accumulated(received), policy)
               ELSE <<>>)
    /\ UNCHANGED <<messages, streamVars>>

\* The answer as one chunk, with what is to be hidden redacted.
SendRedacted ==
    /\ stage = "record" /\ pending = <<>>
    /\ streaming /\ ~Live /\ action = "redact"
    /\ LET content == Where(events, LAMBDA m : m.call = 0)
       IN sent' = <<Chunk(redact_text(extract_stream_delta_text(received), content),
                          assembled_tool_calls(Accumulated(received)))>>
    /\ stage' = "done"
    /\ UNCHANGED <<guardrail, policy, streaming, contentVars, received, scanVars, alerts>>

\* What was held back follows chunk by chunk; a live stream has nothing left.
Release ==
    /\ stage = "record" /\ pending = <<>>
    /\ streaming /\ action \in {"disabled", "flag"}
    /\ IF sent = received THEN stage' = "done" /\ UNCHANGED sent
       ELSE sent' = Append(sent, received[Len(sent) + 1]) /\ UNCHANGED stage
    /\ UNCHANGED <<guardrail, policy, streaming, contentVars, received, scanVars, alerts>>

\* The request is over.
Over ==
    /\ stage \in {"done", "refused", "failed"}
    /\ UNCHANGED vars

Next ==
    \/ ScanPrompt \/ ScanAnswer
    \/ RecordEvent \/ RecordFails \/ Block \/ HandOn
    \/ CallModel \/ (\E choices \in Answers : AnswerJSON(choices)) \/ AnswerStream
    \/ (\E chunk \in Chunks : Receive(chunk))
    \/ EndOfStream \/ SendRedacted \/ Release
    \/ Over

Spec == Init /\ [][Next]_vars

-----------------------------------------------------------------------------
(* What a client makes of a stream: by its definition, not by the code's *)

\* The fragments of the call with this index, in the order of the stream.
Fragments(frames, index) ==
    FlattenSeq([k \in DOMAIN frames |-> Where(frames[k].calls, LAMBDA f : f.index = index)])

Named(fragments) == {k \in DOMAIN fragments : fragments[k].name # NoName}

CallIndices(frames) == UNION {{f.index : f \in Range(frames[k].calls)} : k \in DOMAIN frames}

CallOf(fragments) ==
    [name |-> IF Named(fragments) = {} THEN NoName ELSE fragments[Max(Named(fragments))].name,
     arguments |-> FlattenSeq([k \in DOMAIN fragments |-> fragments[k].arguments])]

Assembled(frames) ==
    [role |-> "assistant",
     parts |-> <<FlattenSeq([k \in DOMAIN frames |-> frames[k].text])>>,
     calls |-> [i \in CallIndices(frames) \ {NoIndex} |-> CallOf(Fragments(frames, i))]]

\* What it is told beside these: what is aside, and calls without an index.
Loose(frames) ==
    UNION {{frames[k].aside}
               \cup {f.arguments : f \in {f \in Range(frames[k].calls) : f.index = NoIndex}} :
           k \in DOMAIN frames}

-----------------------------------------------------------------------------
(* Properties *)

InScope(message) ==
    guardrail = "output_leak" \/ policy.scope = "all_messages" \/ message.role = "user"

\* What the guardrail is given, and what has reached the one it guards.
Given == IF streaming THEN <<Assembled(received)>> ELSE original
Delivered == IF streaming THEN <<Assembled(sent)>> ELSE IF stage = "done" THEN messages ELSE <<>>

Hidden(r) == Enabled(r, policy) /\ policy.action[r] \in {"redact", "block"}

\* Of what the guardrails read, the model and the client are at no moment
\* given a text in which a pattern to be redacted or blocked occurs, nor are
\* they a tool call's arguments.  What the scan of a stream does not read, a
\* client may be given: but only along with an answer in which the scan has
\* found nothing to hide, and that is relayed as it came.  Once it has found
\* something, no text at all with such a pattern goes out, be it beside the
\* content or in the calls of the one chunk that the stream becomes.
NothingLeaks ==
    policy.enabled =>
        /\ \A i \in DOMAIN Delivered : InScope(Delivered[i]) =>
               \A r \in Patterns : Hidden(r) =>
                   /\ \A p \in DOMAIN Delivered[i].parts :
                          ~OccursIn(Words[r], Delivered[i].parts[p])
                   /\ guardrail = "output_leak" =>
                          \A c \in DOMAIN Delivered[i].calls :
                              ~OccursIn(Words[r], Delivered[i].calls[c].arguments)
        /\ streaming /\ action \in {"redact", "block"} =>
               \A r \in Patterns : Hidden(r) =>
                   \A text \in Loose(sent) : ~OccursIn(Words[r], text)

\* The patterns that match around character j of a text, from a start on.
Covering(text, j) ==
    {c \in Patterns \X (0 .. j - 1) :
        LET word == Words[c[1]]
        IN Enabled(c[1], policy) /\ OccursAt(word, text, c[2]) /\ j <= c[2] + Len(word)}

TokenOf(cover) ==
    IF guardrail = "prompt_injection" THEN PromptToken
    ELSE LET first == CHOOSE c \in cover : \A d \in cover :
                          \/ Len(Words[c[1]]) < Len(Words[d[1]])
                          \/ Len(Words[c[1]]) = Len(Words[d[1]]) /\ c[1] <= d[1]
         IN 0 - first[1]

\* A text in which each longest stretch of matched characters has become one
\* token, and all else is as it was.
Redaction(text) ==
    FlattenSeq([j \in DOMAIN text |->
        IF Covering(text, j) = {} THEN <<text[j]>>
        ELSE IF j = 1 \/ Covering(text, j - 1) = {} THEN <<TokenOf(Covering(text, j))>>
        ELSE <<>>])

Matched(message) ==
    {r \in Patterns : Enabled(r, policy)
        /\ \/ \E p \in DOMAIN message.parts : OccursIn(Words[r], message.parts[p])
           \/ guardrail = "output_leak"
              /\ \E c \in DOMAIN message.calls : OccursIn(Words[r], message.calls[c].arguments)}

\* A message is redacted if it is in scope and contains something to redact.
ToRedact(message) ==
    policy.enabled /\ InScope(message) /\ \E r \in Matched(message) : policy.action[r] = "redact"

\* Redaction hides exactly what was matched: not the characters around it, not
\* other messages or parts, not the tool calls.
RedactionExact ==
    stage = "done" /\ ~streaming =>
        \A i \in DOMAIN original :
            messages[i] = IF ToRedact(original[i])
                          THEN [original[i] EXCEPT !.parts = [p \in DOMAIN @ |-> Redaction(@[p])]]
                          ELSE original[i]

\* What the JSON route would have done with a stream's answer.
JSONResults == IF policy.enabled THEN scan_response(Given, policy) ELSE << <<>> >>
JSONChoice == apply_action_to_response(Given, JSONResults)[1]

\* However its answer is cut into chunks, a stream that ends tells the client
\* the text, and with it the tool calls with an index, that the JSON route
\* would have answered, or is refused where it would have been.
StreamAgreesWithJSON ==
    streaming /\ stage \in {"done", "refused"} =>
        /\ (stage = "refused") = (resolve_overall_action(FlattenSeq(JSONResults)) = "block")
        /\ stage = "done" => Assembled(sent).parts = JSONChoice.parts
        /\ stage = "done" /\ action # "redact" => Assembled(sent).calls = JSONChoice.calls

\* "collapsing the stream never silently drops" the tool calls (README): a
\* client that puts a stream together by the calls' indices, as this gateway
\* does, has them after a redaction, too.
CollapsedCallsKept ==
    streaming /\ stage = "done" => Assembled(sent).calls = JSONChoice.calls

Starts(text, r) == {s \in 0 .. Len(text) : OccursAt(Words[r], text, s)}

\* Where pattern r occurs in the text, and in the tool calls, of message i, and
\* what is to be done about it.
TextPlaces(r, i) ==
    UNION {{<<i, p, 0, s, policy.action[r]>> : s \in Starts(Given[i].parts[p], r)} :
           p \in DOMAIN Given[i].parts}

CallPlaces(r, i) ==
    UNION {{<<i, 1, c, s, IF policy.action[r] = "redact" THEN "block" ELSE policy.action[r]>> :
                s \in Starts(Given[i].calls[c].arguments, r)} : c \in DOMAIN Given[i].calls}

Places(r, i) ==
    TextPlaces(r, i) \cup IF guardrail = "prompt_injection" THEN {} ELSE CallPlaces(r, i)

Occurrences(r) == UNION {Places(r, i) : i \in {i \in DOMAIN Given : InScope(Given[i])}}

Recorded(r) ==
    {<<m.message, m.part, m.call, m.start, m.action>> : m \in {m \in Range(events) : m.pattern = r}}

\* Each match is logged once, with its own action whatever the others brought
\* about, before anyone is answered; and a block is counted once, by one of
\* the two guardrails.
EveryMatchRecorded ==
    /\ stage \in {"done", "refused"} \/ (streaming /\ ~Live /\ sent # <<>>) =>
           /\ IsInjective(events)
           /\ \A r \in Patterns :
                 Recorded(r) = IF policy.enabled /\ Enabled(r, policy) THEN Occurrences(r) ELSE {}
    /\ alerts = IF stage = "refused" THEN 1 ELSE 0

=============================================================================
