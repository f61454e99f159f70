# OpenBouncer in TLA+

OpenBouncer is a gateway in front of OpenAI-compatible models: an asyncio
application (FastAPI) that authenticates a request by its API key, limits it,
passes it through guardrails and relays it to an upstream model. Several
replicas may run beside one another; they share a `config/` volume and,
optionally, a Redis server. This directory holds TLA+ specifications of the
parts of the program whose correctness depends on what happens *between* steps:
between two replicas, between the event loop and worker threads, between two
file operations when a process dies, between a lock and its expiry.

## Inventory

| part | state | operations | interacts with |
| --- | --- | --- | --- |
| `core/distributed_lock.py` admin write lock | an `asyncio.Lock` per name and process, or one Redis key per name | enter, leave the `async with`; expiry | everything that writes under `config/` |
| `core/hash_chain.py` | none of its own | `previous_hash`, `write_checkpoint`, `verify_chain`, `verify_log_file` | both logs; the verify endpoints and the CLI, which take no lock |
| `core/audit.py`, `core/guardrail_events.py` | a JSONL file and its checkpoint sidecar, shared by the replicas | `record_entry` / `record_event` with trim, list, verify, `revert_entry` | the lock; every admin write; the hot request path |
| `auth/keys.py` with `api/routes/admin.py` | `config/api_keys.yaml`; an `lru_cache` of it in each process | create, update, rotate, delete, revert, load | lock `api_keys`, audit log, worker threads resolving the `get_key_store` dependency |
| `auth/rate_limiter.py`, `budget.py` with `auth/dependency.py` | a counter per key and window, day or month, in the process or in Redis | check before a request, record after it | each request; the accounting of the chat route |
| `auth/alerting.py` | a burst counter and a cooldown per key, in the process or in Redis | `record_block`, `send_alert` and its background post | both guardrails of the chat route |
| `core/registry.py`, `api/routes/chat.py`, `upstream/client.py`, `auth/usage.py` | concurrency slots, open streams, usage accounts | admission, relay, retries, accounting | trackers, guardrails |
| `guardrails/prompt_injection.py`, `output_leak.py` | a YAML file each, cached per process | scan, redact, refuse, record each match; edit and revert the file | chat route, event log, alerts, lock, audit log |
| `guardrails/editable_config.py`, `guardrails/service.py` | a preset's `config.yml`; a cache of loaded rails per process | edit with a reload check and a roll-back, load, invalidate | lock, audit log, chat route |
| metrics, activity, schemas, UI, logging | counters and formatting | reads | not modelled: no protocol |

What is hard here, and what a test would hardly reach: the order of file
operations of two replicas; a crash or a torn write between two of them; a
lock that expires under its holder, in particular because two locks with the
same 10 s limit are nested; an answer from Redis that is lost; a cache filled
from a worker thread while the file is being written; reverts of an old text
beside edits of the present one; a queued request that is cancelled just when
it is handed a slot; a client that leaves a stream at each possible point, and
generators that are closed by the event loop later than one thinks; accounting
that runs in a task that is being cancelled. `PROJECT.json` lists these hazards line by
line.

## Modules

| module | models | state and steps |
| --- | --- | --- |
| `WriteMutex` | what `async with admin_write_lock(name)` promises | the owner of the lock and the tasks inside, which are not the same when an answer or a release is lost, or the lock expires |
| `AdminWriteLock` | `distributed_lock.py`, both back ends | `phase` is where a task is in the `async with`; `redisKey` the token stored in Redis, `overrun` the tasks whose key has expired under them; `localHolder`, `localQueue` the `asyncio.Lock` of each process |
| `HashChain` | pure operators of `hash_chain.py` | a hash stands for the payloads it covers |
| `ChainLedger` | what a hash-chained log promises: one history that only grows | |
| `HashChainedLog` | `record_entry`/`record_event` and `_trim_if_needed` | one step per file operation: read the previous hash, append, count, replace the file, write the checkpoint; composed with `WriteMutex` |
| `LogVerification` | `verify_log_file` beside the writers | reads the log, then the checkpoint |
| `VerifyChain` | the loop of `verify_chain` | one step per entry, over a given log; what tampering it can detect |
| `KeyStoreFile` | `api_keys.yaml` and the last-`keys:write` rule | pure operators |
| `KeyRegistry` | what key management promises: one key changes at a time, or the registry returns to an earlier content; somebody can manage keys | |
| `KeyStoreAdmin` | `auth/keys.py`, `revert_entry`, the per-replica cache | requests with their steps under the lock (load, persist, record, clear the cache), worker threads that load the file; composed with `WriteMutex` |
| `SlotPool` | what a concurrency limiter promises: at most `Limit` clients inside, the others served in the order of their arrival | |
| `ModelConcurrencyLimiter` | `core/registry.py`'s limiter over an `asyncio.Semaphore` | `value`, the deque `waiters` and how many of them have been `woken`; `holders` and the two gauges; one action per outcome of `acquire()`, and the release |
| `ChatCompletion` | `api/routes/chat.py` around the limiter, the call to the model, the stream's chain of generators and the trackers | `pc` is where a request is; `open` the calls under way, `metered` those whose token usage is known, `left` those whose client has gone; `status` what was sent, `counted` the metric, `usage` and `charged` the accounts |
| `RequestLimits` | `rate_limiter.py` and `budget.py` as `require_api_key` uses them, in memory and in Redis | `rate` and `used` are the counters with their expiries, `pc` is at which command a request is and `stamp` when it read the clock; one action per command, and per way it can fail |
| `BlockAlerts` | `alerting.py`, both trackers | `burst` and `cooldown` with their expiries, `counts` what a handler has read, `alerts` those sent; count, read, claim, send, post |
| `GuardrailsConfigAdmin` | `editable_config.py`, the PATCH endpoints and `revert_entry` for presets and policies, the rails cache of `service.py` and the `lru_cache`s of the policies | admin requests with their steps under the lock (read, write, reload check, roll-back, record, invalidate), readers that load and cache; composed with `WriteMutex` |
| `GuardrailScan` | what `prompt_injection.py` and `output_leak.py` compute: matches, scope, allow-list, most restrictive action, merged spans, redaction, tool calls assembled from deltas | pure operators |
| `GuardedChat` | the guardrails around one chat request: `_apply_output_leak_guardrail`, `_with_output_leak_scan` and the scan of the prompt | `stage` is where the request is, `original` and `messages` what a guardrail is given and hands on, `received` and `sent` the chunks of a stream, `pending` and `events` the matches still to be logged and those logged |
| `MC...` | instances for TLC | |
| `..._proofs` | theorems and proofs | |

`HashChainedLog`, `KeyStoreAdmin` and `GuardrailsConfigAdmin` use `WriteMutex` in place of the lock's
implementation; `AdminWriteLock` is checked to implement `WriteMutex`.
`KeyStoreAdmin` and `GuardrailsConfigAdmin` take `record_entry` as one step that may fail; its detail is
`HashChainedLog`. `ChatCompletion` extends `ModelConcurrencyLimiter` and takes
and gives back slots only through its actions. It leaves open what the
guardrails decide; that is `GuardedChat`, which in turn leaves out slots and
accounts.

The stream. `_relay_stream` iterates the limiter's generator, which iterates
the output-leak scan's, which iterates the upstream client's. When a client
leaves while a chunk is awaited, the task is cancelled inside the innermost
generator, and all unwind at once: the call is closed, the slot given back, and
`on_close` runs in the cancelled task, where its first `await` fails
(`LeaveWhileReading`, `OnCloseCancelled`). When it leaves while a chunk is being
sent, the relay is suspended at its `yield` and merely dropped: the event loop
closes it in a new task (`Finalize`), which gives back the slot and drops the
generators inside, closed by later tasks still (`CloseUpstream`). In between the
slot may already serve another request, so "bounds concurrent upstream calls"
holds except for the calls of clients that have left; `CallsInSlots` says
exactly that. A client that leaves a stream early is not charged for the
tokens it has received, as the usage is in the last chunk.

What the semaphore, Starlette's streaming response and the Redis client do is
modelled as external, from Python 3.12 and the versions in `uv.lock`: a release
hands the slot to the first waiter without a result; a transaction whose
connection fails is retried, and then may have been applied twice.

Granularity. The bodies of the locks have no `await`, except that an admin
write awaits `record_entry`. Inside one process such a body is a single step of
the event loop, but another replica, a worker thread or a crash sees the file
operations one by one, so each is an action. In `HashChainedLog` a writer is a
replica, for the same reason. Sharing `config/` and setting `REDIS_URL`
on all replicas is what the repository's README requires of a
multi-replica deployment and is assumed wherever there are two replicas.

Abstraction. SHA-256 is taken to be free of collisions: the hash of an entry
*is* the sequence of payloads it covers. A payload is a fresh number, as an
entry holds a uuid. A line that has no `hash` is a legacy entry. A file of keys
is a function from key ids to a record of two fields: which raw key the hash
belongs to, and whether the key has `keys:write` (through `is_admin` or
`admin_scopes`); the other fields are edited in the same way and tell nothing
more apart. A Redis token is unique to one acquisition; as a task acquires
one lock at a time, it is identified with the task.

A text is a sequence of numbers, and a pattern of a guardrail a word that does
not overlap with itself: so a regular expression's leftmost matches are all of
its occurrences. The token that replaces pattern *r* is the number -*r*, and 0
in a prompt, where the code has one token for all. The indices of tool calls
in a stream are counted from 1, and 0 stands for a fragment without one: the
gateway passes it over and a client cannot add it to any call, but its text is on
the wire. So is what a frame holds beside `choices[0]`'s content and tool calls
(`aside`), which no scan reads. A file of the
guardrails is a function from its parts to values; a preset with a `Bad` part
does not load. Time is a number of ticks, and a day, a month, a window and a
cooldown are a few of them.

## Runs

All runs are exhaustive. Deadlock is checked in `lock` and `guarded_chat`. The
other models stop when their bound on appends, requests or time is used up, or when
an input has been verified, so their cfgs switch the deadlock check off. The
type invariants are not among the runs' properties: they are proved (below), except
that of `LogVerification`, which documents the types.

| run | question | bounds |
| --- | --- | --- |
| `lock` | Do tasks exclude one another, whatever fails, in both back ends? Does every wait end? Is it a `WriteMutex`? | 4 tasks, three of them in one process: a holder and two waiters of the `asyncio.Lock`, and a competitor in another replica |
| `hash_log` | Does the log verify after any interleaving of appends, trims, crashes and torn writes; is any line lost or rewritten; is it a `ChainLedger`; when can a verification raise a false alarm; what does a torn append do to the log? | 2 writers, 4 appends, 2 entries kept, up to 2 legacy lines: trims cut inside the legacy part, at its end and inside the chain |
| `verify_chain` | Is `verify_chain`'s answer the one its docstring defines, are its counts right, and does it detect what it can detect? | up to 2 legacy and 4 chained lines, every cut, and every single edit, removal, exchange or insertion |
| `keys_store` | Do concurrent edits and reverts lose an update, strand key management, or record a write that did not happen, when the audit write fails, a replica dies, or the lock expires while `record_entry` waits? | 2 replicas with a request each, 2 keys, 3 requests (an edit, a revert of it and a competitor) |
| `chat` | Is every slot given back once and in turn, is a call ever made outside a slot, is each request counted and each answer accounted for once, does each end, however calls fail, clients leave, tasks are cancelled and Redis fails? Is the limiter a `SlotPool`? | 3 requests: a live stream, a buffered one, and one that asks for guardrails where they are disabled, which becomes a JSON request and takes a slot twice; 2 slots, so that a request waits beside a free slot while a woken task has not run; Redis or memory; a failing Redis for one request |
| `keys_cache` | On one replica, where nothing fails: is each write recorded, each request answered, and when is a stale key store cached? | 2 requests, 2 worker threads, 2 keys; no Redis, so that a wait for the lock ends only with its release |
| `limits` | How many requests can pass in a stretch as long as a window? Does every window end? Is any recorded token forgotten while it counts? By how much can a budget be overrun? | 2 requests at a time and 4 in all, limit 1, windows of 2 ticks; daily budget 1 and monthly budget 2, days of 2 and months of 4 ticks, expiries of 3 and 5; 5 points of time, so that two windows, two days and a month end; 1 token a request; memory, or Redis with a failure |
| `alerts` | Is there at most one alert in a cooldown, is every burst followed by one, and does each alert mean a burst? | 2 handlers, 5 blocks, threshold 3, window 2, cooldown 3, 5 points of time: a second burst falls into the cooldown or after it; memory, or Redis with a failure |
| `guardrails_config` | Does a preset that does not load survive its check, does an edit overwrite another one, and when is a stale configuration cached? | 2 replicas with a request each, one of them with 2 readers; 2 parts, 2 values and one that does not load; 2 writes after an earlier one that can be reverted; crashes, and a lock that expires while `record_entry` waits |
| `guarded_chat` | Does anything to be hidden get out of what the scans read, or of the rest once they have found something; is redaction exact, does a stream tell the client what the JSON route would, and is each match logged once? | the patterns 112, 1 and 21 over two letters, which nest, overlap and touch; texts of up to 4 letters, two messages, choices or parts, tool calls; 13 prompt and 14 answer policies; answers cut into up to 3 chunks of content, of tool-call fragments of two calls, or an error frame; chunks with a field that no scan reads, or with a fragment that has no index |

Two runs show where the code and what its documentation says part ways. Each
checks one property and TLC finds it violated:

| run | what happens |
| --- | --- |
| `keys_live_race` | a worker thread reads the file before a write and caches it after `cache_clear()`: the edit is not "live on the very next request" |
| `stream_tool_calls` | a stream that is collapsed by a redaction carries its tool calls without the index by which a client, and the gateway itself, puts them together: they are dropped although the README says that they never are |

Further observations, which the properties of the passing runs state as
conditions or exceptions:

- A crash between replacing a log and writing its checkpoint loses the lines
  just cut from `trimmed_entry_count`, though it is called the total ever
  trimmed (`TrimsAccountedFor` counts them apart).
- `verify_log_file` may read the log before and the checkpoint after a trim of
  another replica, and then calls an untouched log broken (`AlarmMeansTrim`).
- `cache_clear()` and `invalidate()` reach only the replica that wrote: elsewhere a
  rotated key or an old policy goes on working (`StaleOnlyIfRaced` is about one
  replica, `StaleOnlyIfUnaware` names the others). `invalidate()`'s comment that the
  next request loads the file anew is also wrong when a load is under way.
- A resource's lock may expire while its holder waits for the `audit_log` lock, whose
  time limit is the same: entries are then recorded in another order than the writes.
- `record_entry` may fail after the file was written: the request is answered
  503, the change stays, is in no audit entry, and no cache is emptied.
- An append that is torn leaves the log in one of two states (`TornLogFrozen`). With a
  part of an entry at its end, every later append, listing, verification and
  revert raises JSONDecodeError, until somebody mends the file. With a whole
  entry that lacks its newline, `previous_hash` takes it for the last entry, the next
  entry is written on to the same line, and `record_entry` returns as if it were
  recorded; but from then on neither can be read, and the log has stopped too.
- A buffered stream whose event cannot be logged was answered by the model and paid for, and is
  recorded for nobody, as the exception leaves before there is a relay with an
  `on_close` (`LogFails`). A server that is shut down while a
  stream is buffered drops it in the same way. A JSON answer is accounted before its
  scan, and a live stream by its `on_close` (`AccountedOnce`).
- A buffered stream in which the scan finds nothing to hide is relayed as it came
  (`chat.py:328`), with what the scan does not read: other choices, fields such as `refusal`
  or `reasoning`, content that is a list (`output_leak.py:483`), and tool-call fragments without
  an index (`output_leak.py:531`). A pattern in there gets out, though the README
  says that every response is scanned; a JSON answer has no such
  fields, its schema drops them. `NothingLeaks` says what does hold.
- While Redis fails, requests are let in uncounted, and `BurstBounded`
  says nothing of them.
- A replica that dies during the reload check leaves a preset that does not load
  (`NoBadConfigKept`, `cutOff`).
- After a lost EXPIRE, or an INCR that the client library has sent twice, a rate
  counter has no expiry, and the key is refused until somebody deletes the counter
  (`EveryWindowEnds` holds as long as nothing has failed).
- In Redis each block prolongs the window of the burst counter, in memory it does
  not (`AlertMeansBurst` has a case for each).
- Under a redacted stream an error frame of the upstream model is dropped, and a
  match that is only flagged is redacted with the others in its message; a
  client that leaves a live stream before its end leaves its matches unrecorded.

Fairness. `lock`: the body of an `async with` ends, the event loop runs a woken
waiter, and `redis_lock.acquire()` returns or raises within `blocking_timeout`.
`keys_cache`: a request that has been received keeps being run by the event loop
when it can go on. There is no Redis and so no time-out: a request that waits
can go on only when the lock has been given back, and `RequestAnswered` fails
if one way out of the block leaves it locked. The other lock, the
`audit_log`'s inside the key store's, adds no deadlock: nobody in its body waits for
anything without Redis, and with Redis the wait for it has a time-out.
`chat`: what a request has left to do is done (the event loop runs ready
tasks and the tasks that close dropped generators; the upstream client has a
time-out; a client takes its chunks or goes away), and an answer is finite,
which needs strong fairness, as its end competes with further chunks. That
a client does not stop reading for ever is an assumption about clients: the
code sets no limit to the time a chunk takes to be sent, and the slot is held.
Nothing is assumed of failures, crashes or recoveries, and no fairness is
assumed in any other run: the properties there are about what may never happen.

Each property of a passing run has a mutant: a plausible wrong version of one
definition (named in its comment, listed in `PROJECT.json`) under which the
property fails.

## Proofs

TLAPS checks the following for any number of replicas, writers, requests,
keys, lines and appends, and any limits, budgets and configurations.

`HashChainedLog_proofs`. Type correctness, `VerifiesWhenSettled`,
`ChainUnbroken`, `TrimsAccountedFor`, `HistoryNeverRewritten`, `TornLogFrozen`
and the refinement of `ChainLedger`, all under `~MayLapse` (writers do not
overrun their lock) besides the module's named assumption. None of these is
inductive. The invariant says what the one writer inside the lock knows: the
`prev_hash` it has read is still the log's, the lines it has counted are still
the file, and between the replacement of the file and the checkpoint the first
line kept continues from the last line cut. It says of the log that it is
legacy lines followed by chained entries whose hashes grow by one payload
each, so that the hash at the end of the log covers every payload ever
recorded. `AlarmMeansTrim`, about `LogVerification`, follows from the same
invariant and what a verifier has read: outside of trims the checkpoint stays,
and the lines read from a settled log go on verifying with it.

The same module proves of `VerifyChain`, for any set of logs, that the loop's
answer is `Verifies`, that its counts are right, and `DetectsTampering`. The
invariant is the loop's: all earlier entries pass, `expected_prev` and `started`
are what `HashChain` defines them to be at this entry, and the counters say
where the legacy part ends. Tampering is then a matter of two logs that both
verify: the k-th chained entry's hash covers k payloads more than the
checkpoint (`ChainGrows`), so an old hash fits in one place only
(`TamperEvident`). `hash_chain.py` says that somebody who computes all hashes
anew is not detected; `HeadPinsHistory` shows what the external anchoring
mentioned there would add: the last hash of a log determines every chained entry
behind the checkpoint.

`KeyStoreAdmin_proofs`. Type correctness, `NeverStranded`, `EntriesAreWrites`
and the refinement of `KeyRegistry`, without any assumption on lapses, failures or crashes.
The invariant: a request that has read the file and not yet written it still
owns the lock, so the file is what it read; every content of the file
was manageable; what a revert can bring back was the file once; a request that
waits to record a write describes one that was made. `EveryWriteRecorded` is
proved where no audit write fails, no replica dies and no lock lapses, and
`StaleOnlyIfRaced` for one replica where no audit write fails: until the cache is
emptied, the writer is still inside, and a thread that is loading has marked
the race.

`ChatCompletion_proofs`. First the limiter by itself: `SlotsConserved`,
`NoLostWakeup` and the refinement of `SlotPool`, for any number of requests and
slots. The invariant adds that the queue names a request at most once and none
that holds a slot, without which slots cannot be counted by counting holders.
Then the requests. Every step of one is a step of the limiter or
leaves it alone, so the limiter's theorems hold of the program
(`ChatImplementsLimiter`). Type correctness, `HeldWhileServed`, `CallsInSlots`,
`CountedAsAnswered` and `AccountedOnce` follow from an invariant of each single
request, which says for each place in the code what has been answered, counted
and recorded there, and who can have a call open: a step changes nothing that
belongs to another request, except in the limiter.

`AdminWriteLock_proofs`. Type correctness, `MutualExclusion` and the refinement
of `WriteMutex`, for any number of tasks and replicas, so that what is proved
of the lock's users holds of them with either back end. In Redis the invariant
is that who is inside has its token in the key or is marked as overrun. The
`asyncio.Lock` needs more: its holder is inside, those in its queue wait for it, each
once, and belong to its process.

`GuardrailsConfigAdmin_proofs`. Type correctness, `NoBadConfigKept`,
`EditsCompose` and `StaleOnlyIfUnaware`, without any assumption on lapses, failures or
crashes. The invariant has four parts: who reads, writes or checks the file owns
the lock; what it is about to write is the file as it is with its change, or the
text to return to, and what it checks is what it has written; every preset that was ever recorded or is
being restored loads, unless a check was cut off; and a cache or a load under
way holds the file's content, or a write has passed it by.

`RequestLimits_proofs`. Type correctness, `EveryWindowEnds`,
`BudgetNeverForgets` and `OvershootBounded`, for any calendar whose periods do
not go backwards and any expiry that outlasts the rest of its period
(`LimitsAssumption`), and `BurstBounded`. Overshoot is an argument about who can still overspend: a
request is *exposed* to the budget of a period when it may be charged to it
without another check. Requests that are not exposed will be checked first; what a
period has been charged beyond its budget is covered by those that were exposed
when the budget was reached and are no more. As there are no more requests at a
time than `Tasks`, and each is charged `MaxCharge` at most, the bound follows.
For `BurstBounded` the times at which requests were let in are split where the present
window began (`WindowSince`): those since then are at most the limit and at most the
counter, those before are older than the window's start, and all but the last of
them, as many as the limit, are older by a whole window.

`BlockAlerts_proofs`. Type correctness, `OneAlertPerCooldown`, `BurstAlerted` and
`AlertMeansBurst`, for any number of handlers and blocks and any threshold,
window and cooldown. Nothing was ever claimed later than the end of the cooldown
less its length, so a new claim is apart from all others. Conversely, until
something fails, a cooldown that is running was begun by an alert that was sent or is
about to be: this is why a handler that finds it running may return. And the counter stands for
the last blocks, which were all in its window, or in a row.

`GuardedChat_proofs`. Type correctness, `NothingLeaks`, `RedactionExact`,
`StreamAgreesWithJSON` and `EveryMatchRecorded`, for any patterns, policies,
prompts and answers and any way to cut an answer into chunks. The inductive
invariant is short: it says of each stage what the matches, the log, the
messages and the chunks sent are, in terms of the operators of `GuardrailScan`.
The work is in what these operators compute:

- `RedactTextIsRedaction`: `redact_text` sorts the matches, merges spans that
  overlap or touch, and splices from the end of the text so that the earlier
  positions stay valid; the outcome is the text in which each longest stretch of matched
  characters is one token. The proof carries along a fold what the merged spans
  cover so far (`MergeStep`, `MergedSpans`), and along the splices which part of the text is final.
- `RedactionHides`: no pattern occurs in a redacted text, although redaction brings
  together what was apart. A window of letters in it has no token inside, so it is a
  window of the original text, and would have been matched there.
- `AccumulatedIsAssembled`: the loop that accumulates tool-call fragments by index,
  whatever their order, ends with the calls that a client assembles; so the
  matches of a stream are those of the answer (`StreamIsResponse`).
- `BlockedIsFound`, `HandedOnHides`, `PrefixHides`: what is to be hidden was
  found in what a guardrail was given, is not in what it hands on, and is in no
  prefix of what was sent.
- `LooseHides`: once a scan has found something to hide, what goes out is one
  frame made anew or an error frame, and so none of the fields that no scan has read.

These are inductions over sequences. The prover cannot instantiate the library's
induction rules, which take a predicate; `Induction` and `SequenceInduction` take
the *set* of the numbers or sequences a statement holds of, and follow from the
well-foundedness of the naturals. The recursive functions inside `FlattenSeq` and
`FoldLeft` are obtained from `RecursiveFunction`, proved the same way. For
the same reason `GuardrailScan` filters and sorts with `Where` and `InOrder`, which
are defined by what they return, in place of the built-in `SelectSeq` and `SortSeq`, which
the prover cannot expand.

Every safety property of the passing runs is proved. Model-checked only is
liveness (`WaiterServed`, `RequestAnswered`, `RequestEnds`), which is out of the prover's reach, and what the two runs with a
violation show.

## Not modelled

What nemoguardrails' rails answer, and its own streaming (`_stream_response` of
`service.py`): the answers of a model and the protocol inside a library. Their
cache and configuration are in `GuardrailsConfigAdmin`.

The embeddings route uses the limiter and the trackers as a JSON chat request
does. Of the chat request itself, the number and back-off of retries and the
cancellation of a JSON request after its call (only a server that is shut down does
that) are left out.

A client that stops reading keeps its slot (`chat.py:352`): the code sets no
limit to the time a chunk takes to be sent, so that nothing can be shown but
what the fairness above assumes.

The guardrails' regular expressions, decoders and the Luhn check are data: which
texts they match is for unit tests. Which lines of a preset's YAML are the
editable ones is data as well. Metrics, activity queries, schemas, logging,
start-up and the UI keep no state that a protocol depends on and stay out, as do
YAML and JSON, and Redis and the upstream models themselves beyond what the
code sees of them.
