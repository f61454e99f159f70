--------------------------- MODULE GuardrailScan ----------------------------
(***************************************************************************)
(* What the two regular-expression guardrails compute, from a text and a   *)
(* policy: app/guardrails/prompt_injection.py for a request, and           *)
(* app/guardrails/output_leak.py for a response and for the deltas of a    *)
(* stream.                                                                 *)
(*                                                                         *)
(* A character is a number, a text a sequence of them, and a pattern a     *)
(* word that does not overlap with itself; the patterns are numbered in    *)
(* the order in which the code tries them.  The token that replaces what   *)
(* pattern r has matched is the number -r: no text has it.                 *)
(*                                                                         *)
(* A message of a request, or a choice of a response, has a role, parts    *)
(* (a plain string is one part) and calls: a function from the indices of  *)
(* its tool calls to their names and arguments.                            *)
(***************************************************************************)
EXTENDS Integers, SequencesExt, FiniteSetsExt

CONSTANTS
    Words,      \* the patterns of the registry and the configuration, in order
    Custom      \* those of them that are custom_patterns

Letters == Nat \ {0}
Text == Seq(Letters)
Patterns == 1 .. Len(Words)
Calls == [name : STRING, arguments : Text]
Messages == [role : STRING, parts : Seq(Text), calls : Seq(Calls)]

ASSUME ScanAssumption ==
    /\ Words \in Seq(Text) /\ \A r \in Patterns : Words[r] # <<>>
    /\ \A r \in Patterns : \A n \in 1 .. Len(Words[r]) - 1 :
          SubSeq(Words[r], 1, n) # SubSeq(Words[r], Len(Words[r]) - n + 1, Len(Words[r]))
    /\ Custom \subseteq Patterns

\* The elements of a sequence that pass a test, and those of a finite set in
\* an order.
Where(seq, Test(_)) ==
    FlattenSeq([k \in DOMAIN seq |-> IF Test(seq[k]) THEN <<seq[k]>> ELSE <<>>])

InOrder(S, Precedes(_, _)) ==
    [k \in 1 .. Cardinality(S) |->
        CHOOSE x \in S : Cardinality({y \in S : Precedes(y, x)}) = k - 1]

_ACTION_SEVERITY == [disabled |-> 0, flag |-> 1, redact |-> 2, block |-> 3]

Policies ==
    [enabled : BOOLEAN, scope : {"all_messages", "user_messages_only"},
     allow_list : SUBSET Text, action : [Patterns -> DOMAIN _ACTION_SEVERITY]]

resolve_overall_action(matches) ==
    LET actions == {"disabled"} \cup {m.action : m \in Range(matches)}
    IN CHOOSE a \in actions : \A b \in actions : _ACTION_SEVERITY[a] >= _ACTION_SEVERITY[b]

-----------------------------------------------------------------------------
(* Matches *)

MatchRecords ==
    [pattern : Int, start : Nat, end : Nat, action : DOMAIN _ACTION_SEVERITY,
     message : Nat, part : Nat, call : Nat]

\* Word w is in the text after its first s characters.
OccursAt(w, text, s) == s + Len(w) <= Len(text) /\ SubSeq(text, s + 1, s + Len(w)) = w

OccursIn(w, text) == \E s \in 0 .. Len(text) : OccursAt(w, text, s)

\* A phrase of the list contains what has matched, or the other way round.
AllowListed(r, policy) ==
    \E phrase \in policy.allow_list \ {<<>>} : OccursIn(Words[r], phrase) \/ OccursIn(phrase, Words[r])

Enabled(r, policy) == policy.action[r] # "disabled" /\ ~AllowListed(r, policy)

\* The matches of every enabled pattern, from `start' up to, and without, `end'.
scan_text(text, policy) ==
    FlattenSeq([r \in Patterns |->
        FlattenSeq([j \in DOMAIN text |->
            IF Enabled(r, policy) /\ OccursAt(Words[r], text, j - 1)
            THEN <<[pattern |-> r, start |-> j - 1, end |-> j - 1 + Len(Words[r]),
                    action |-> policy.action[r], message |-> 1, part |-> 1, call |-> 0]>>
            ELSE <<>>])])

Each(matches, Change(_)) == [k \in DOMAIN matches |-> Change(matches[k])]

scan_message_content(parts, policy) ==
    FlattenSeq([p \in DOMAIN parts |->
        Each(scan_text(parts[p], policy), LAMBDA m : [m EXCEPT !.part = p])])

\* Mutant of _clamp_redact_to_block: what cannot be redacted is only flagged.
ClampRedactToFlag(m) == IF m.action = "redact" THEN [m EXCEPT !.action = "flag"] ELSE m

\* Arguments are never redacted: such a match blocks.
_clamp_redact_to_block(m) == IF m.action = "redact" THEN [m EXCEPT !.action = "block"] ELSE m

scan_tool_call_argument_text(index, arguments, policy) ==
    Each(scan_text(arguments, policy),
         LAMBDA m : _clamp_redact_to_block([m EXCEPT !.call = index]))

Indices(calls) == InOrder(DOMAIN calls, <)

\* Of a response, or of what has been accumulated from a stream.
scan_tool_calls(calls, policy) ==
    FlattenSeq([k \in DOMAIN Indices(calls) |->
        LET index == Indices(calls)[k]
        IN scan_tool_call_argument_text(index, calls[index].arguments, policy)])

\* Both scans give the matches of each message, or of each choice.
scan_request(messages, policy) ==
    [i \in DOMAIN messages |->
        IF policy.scope = "user_messages_only" /\ messages[i].role # "user" THEN <<>>
        ELSE Each(scan_message_content(messages[i].parts, policy),
                  LAMBDA m : [m EXCEPT !.message = i])]

scan_response(choices, policy) ==
    [i \in DOMAIN choices |->
        Each(scan_message_content(choices[i].parts, policy)
                 \o scan_tool_calls(choices[i].calls, policy),
             LAMBDA m : [m EXCEPT !.message = i])]

-----------------------------------------------------------------------------
(* Redaction *)

\* Matches are sorted by their spans, those of equal spans left in their order.
Before(m, n) == m.start < n.start \/ (m.start = n.start /\ m.end < n.end)

Sorted(matches) ==
    LET order == InOrder(DOMAIN matches, LAMBDA i, j :
                     \/ Before(matches[i], matches[j])
                     \/ ~Before(matches[j], matches[i]) /\ i < j)
    IN [k \in DOMAIN matches |-> matches[order[k]]]

\* Mutant of _merge_spans_with_tokens: a merged span ends where its last one does.
MergeSpansToLastEnd(matches) ==
    FoldLeft(LAMBDA merged, m :
                 IF merged # <<>> /\ m.start <= Last(merged).end
                 THEN [merged EXCEPT ![Len(merged)].end = m.end]
                 ELSE Append(merged, m),
             <<>>, Sorted(matches))

\* Spans that overlap or touch become one, with the token of the first.
Merge(merged, m) ==
    IF merged # <<>> /\ m.start <= Last(merged).end
    THEN [merged EXCEPT ![Len(merged)].end = IF @ < m.end THEN m.end ELSE @]
    ELSE Append(merged, m)

_merge_spans_with_tokens(matches) == FoldLeft(Merge, <<>>, Sorted(matches))

redact_text(text, matches) ==
    LET spans == _merge_spans_with_tokens(matches)
        cursor(k) == IF k = 1 THEN 0 ELSE spans[k - 1].end
        pieces == [k \in DOMAIN spans |->
                      Append(SubSeq(text, cursor(k) + 1, spans[k].start), 0 - spans[k].pattern)]
    IN FlattenSeq(pieces) \o SubSeq(text, cursor(Len(spans) + 1) + 1, Len(text))

\* The parts' own matches, never those in tool calls, whose spans are offsets
\* into another string.
redact_message_content(message, matches) ==
    [message EXCEPT !.parts = [p \in DOMAIN @ |->
        redact_text(@[p], Where(matches, LAMBDA m : m.call = 0 /\ m.part = p))]]

\* REDACTION_TOKEN of the prompt-injection guardrail: one, for all patterns.
PromptToken == 0

_redact_message(message, matches) ==
    redact_message_content(message, Each(matches, LAMBDA m : [m EXCEPT !.pattern = PromptToken]))

\* Only what is itself to be redacted is rewritten, and only when nothing
\* blocks.
ApplyAction(Redact(_, _), messages, results) ==
    IF resolve_overall_action(FlattenSeq(results)) # "redact" THEN messages
    ELSE [i \in DOMAIN messages |->
             IF resolve_overall_action(results[i]) # "redact" THEN messages[i]
             ELSE Redact(messages[i], results[i])]

apply_action_to_request(messages, results) == ApplyAction(_redact_message, messages, results)
apply_action_to_response(choices, results) == ApplyAction(redact_message_content, choices, results)

-----------------------------------------------------------------------------
(* Streams *)

\* Mutant of requires_buffering: the custom patterns are forgotten.
RequiresBufferingOfCategories(policy) ==
    policy.enabled /\ \E r \in Patterns \ Custom : policy.action[r] \in {"redact", "block"}

requires_buffering(policy) ==
    policy.enabled /\ \/ \E r \in Patterns \ Custom : policy.action[r] \in {"redact", "block"}
                      \/ \E r \in Custom : policy.action[r] \in {"redact", "block"}

\* A chunk carries the content, and fragments of tool calls, each with the
\* index of its call and sometimes its name.  The code reads these of the first
\* choice, and where they are strings: other choices, other fields of a delta
\* (a refusal, a reasoning) and content that is a list are `aside' for it.  An
\* error frame carries nothing of the answer.
NoName == "no name"
Frames ==
    [text : Text, calls : Seq([index : Nat, name : STRING, arguments : Text]),
     aside : Text, error : BOOLEAN]
ErrorFrame == [text |-> <<>>, calls |-> <<>>, aside |-> <<>>, error |-> TRUE]
Chunk(text, calls) == [text |-> text, calls |-> calls, aside |-> <<>>, error |-> FALSE]

extract_stream_delta_text(chunks) == FlattenSeq([k \in DOMAIN chunks |-> chunks[k].text])

\* A fragment without an index is skipped.
NoIndex == 0
Add(accumulator, entry) ==
    LET slot == IF entry.index \in DOMAIN accumulator THEN accumulator[entry.index]
                ELSE [name |-> NoName, arguments |-> <<>>]
        merged == [name |-> IF entry.name # NoName THEN entry.name ELSE slot.name,
                   arguments |-> slot.arguments \o entry.arguments]
    IN [i \in DOMAIN accumulator \cup ({entry.index} \ {NoIndex}) |->
           IF i = entry.index THEN merged ELSE accumulator[i]]

accumulate_tool_call_deltas(accumulator, chunk) == FoldLeft(Add, accumulator, chunk.calls)

NoCalls == [i \in {} |-> [name |-> NoName, arguments |-> <<>>]]
Accumulated(chunks) == FoldLeft(accumulate_tool_call_deltas, NoCalls, chunks)

\* The list has the shape of a response's tool_calls: its entries have no index.
assembled_tool_calls(accumulator) ==
    [k \in DOMAIN Indices(accumulator) |->
        [index |-> NoIndex, name |-> accumulator[Indices(accumulator)[k]].name,
         arguments |-> accumulator[Indices(accumulator)[k]].arguments]]

=============================================================================
