---------------------- MODULE ModelConcurrencyLimiter ----------------------
(***************************************************************************)
(* app/core/registry.py, ModelConcurrencyLimiter: at most concurrency_limit *)
(* requests call one model at a time, and the others queue.  It counts      *)
(* what it does in two gauges beside an asyncio.Semaphore.                  *)
(*                                                                          *)
(* The semaphore, as Python 3.12 (the Dockerfile's) has it: `_value' free   *)
(* slots, and a deque of futures.  A release hands the slot to the first    *)
(* future that has no result yet; the task behind it has the slot then, but *)
(* runs only later, and may be cancelled in between.  Until it has run,     *)
(* newcomers queue, even if there are more free slots; it wakes them then.  *)
(***************************************************************************)
EXTENDS Naturals, FiniteSets, SequencesExt

CONSTANTS
    Requests,   \* the coroutines that use the limiter
    Limit       \* the model's concurrency_limit, Field(gt=0)

ASSUME LimitAssumption ==
    /\ IsFiniteSet(Requests)
    /\ Limit \in Nat \ {0}

VARIABLES
    value,      \* the semaphore's free slots
    waiters,    \* the requests awaiting a future, oldest first
    woken,      \* how many of them, from the front, have been given a slot
    holders,    \* the requests in the body of `async with limiter.acquire()'
    in_flight,  \* the gauges
    queued

semaphoreVars == <<value, waiters, woken>>
limiterVars == <<value, waiters, woken, holders, in_flight, queued>>

LimiterTypeOK ==
    /\ value \in 0..Limit
    /\ waiters \in Seq(Requests)
    /\ woken \in 0..Len(waiters)
    /\ holders \subseteq Requests
    /\ in_flight \in Nat
    /\ queued \in Nat

LimiterInit ==
    /\ value = Limit
    /\ waiters = <<>>
    /\ woken = 0
    /\ holders = {}
    /\ in_flight = 0
    /\ queued = 0

\* Not in the `async with'.
Away(q) == q \notin holders \cup Range(waiters)

\* Semaphore.release: the slot goes to the next waiter, or back to the value.
GiveSlot ==
    IF woken < Len(waiters)
    THEN woken' = woken + 1 /\ UNCHANGED value
    ELSE value' = value + 1 /\ UNCHANGED woken

\* The end of Semaphore.acquire for a task that has waited: of the waiters ws
\* left, w are woken, and v slots are free.  It wakes as many as it can.
WakeNewcomers(ws, w, v) ==
    IF v <= Len(ws) - w
    THEN woken' = w + v /\ value' = 0
    ELSE woken' = Len(ws) /\ value' = v - (Len(ws) - w)

\* Mutant of AcquireFree: a newcomer takes the slot given to a woken waiter,
\* which goes back to sleep.
AcquireBarging(q) ==
    /\ Away(q)
    /\ \/ value > 0 /\ value' = value - 1 /\ UNCHANGED woken
       \/ woken > 0 /\ woken' = woken - 1 /\ UNCHANGED value
    /\ holders' = holders \cup {q}
    /\ in_flight' = in_flight + 1
    /\ UNCHANGED <<waiters, queued>>

\* Semaphore.acquire of a free slot: `queued' goes up and down in one step.
AcquireFree(q) ==
    /\ Away(q)
    /\ value > 0
    /\ waiters = <<>>
    /\ value' = value - 1
    /\ holders' = holders \cup {q}
    /\ in_flight' = in_flight + 1
    /\ UNCHANGED <<waiters, woken, queued>>

AcquireQueued(q) ==
    /\ Away(q)
    /\ value = 0 \/ waiters # <<>>
    /\ waiters' = Append(waiters, q)
    /\ queued' = queued + 1
    /\ UNCHANGED <<value, woken, holders, in_flight>>

\* The event loop runs the task that was woken first.
AcquireWoken(q) ==
    /\ woken > 0
    /\ q = Head(waiters)
    /\ waiters' = Tail(waiters)
    /\ WakeNewcomers(Tail(waiters), woken - 1, value)
    /\ holders' = holders \cup {q}
    /\ queued' = queued - 1
    /\ in_flight' = in_flight + 1

\* CancelledError while queued: a task that had been given a slot passes it on.
AcquireCancelled(q) ==
    /\ \E i \in DOMAIN waiters :
          /\ waiters[i] = q
          /\ waiters' = RemoveAt(waiters, i)
          /\ IF i <= woken
             THEN WakeNewcomers(RemoveAt(waiters, i), woken - 1, value + 1)
             ELSE WakeNewcomers(RemoveAt(waiters, i), woken, value)
    /\ queued' = queued - 1
    /\ UNCHANGED <<holders, in_flight>>

\* Mutant of Release: the slot is put back, and nobody is woken.
ReleaseWithoutWaking(q) ==
    /\ q \in holders
    /\ holders' = holders \ {q}
    /\ in_flight' = in_flight - 1
    /\ value' = value + 1
    /\ UNCHANGED <<waiters, woken, queued>>

\* The `finally' of a request that has the slot, however it leaves the body.
Release(q) ==
    /\ q \in holders
    /\ holders' = holders \ {q}
    /\ in_flight' = in_flight - 1
    /\ GiveSlot
    /\ UNCHANGED <<waiters, queued>>

LimiterNext ==
    \E q \in Requests :
        \/ AcquireFree(q) \/ AcquireQueued(q) \/ AcquireWoken(q)
        \/ AcquireCancelled(q) \/ Release(q)

LimiterSpec == LimiterInit /\ [][LimiterNext]_limiterVars

-----------------------------------------------------------------------------
(* Properties *)

\* No slot is lost or made up, whoever is cancelled or fails while a slot is
\* handed over, and the gauges that /metrics exports count the real requests.
SlotsConserved ==
    /\ value + woken + Cardinality(holders) = Limit
    /\ in_flight = Cardinality(holders)
    /\ queued = Len(waiters)

\* No wake-up is lost: where slots are free beside requests that wait for
\* one, a woken task has yet to run, which will wake them.
NoLostWakeup == value > 0 => woken > 0 \/ waiters = <<>>

\* The limiter is a pool of Limit slots, first come, first served.
Pool == INSTANCE SlotPool WITH
    Clients <- Requests, inside <- holders, line <- waiters
ImplementsPool == Pool!Spec

=============================================================================
