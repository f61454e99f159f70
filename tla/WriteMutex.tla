----------------------------- MODULE WriteMutex -----------------------------
(***************************************************************************)
(* What `async with admin_write_lock(name)` (app/core/distributed_lock.py) *)
(* promises the code inside the block, for one lock name.  `owner' is the  *)
(* lock itself: whose token it carries.  `inside' is the set of tasks that *)
(* are executing the body of the block.  The two are not the same thing:   *)
(* the lock can outlive its holder (a crash, a release that never reached  *)
(* Redis) and, when MayLapse, a holder can outlive its lock (the body took *)
(* longer than the 10 s auto-expiry).                                      *)
(*                                                                         *)
(* AdminWriteLock shows that the code implements this specification; the   *)
(* modules of the resources written under the lock are composed with it.   *)
(***************************************************************************)
CONSTANTS
    Tasks,      \* the tasks that use this lock
    NoTask,     \* "nobody"
    MayLapse    \* may the lock expire while its owner is still inside?

VARIABLES
    owner,      \* the task whose token the lock carries, or NoTask
    inside      \* the tasks executing the body of the `async with'

vars == <<owner, inside>>

TypeOK ==
    /\ owner \in Tasks \cup {NoTask}
    /\ inside \subseteq Tasks

Init ==
    /\ owner = NoTask
    /\ inside = {}

\* The lock is free and t takes it.
Enter(t) ==
    /\ owner = NoTask
    /\ t \notin inside
    /\ owner' = t
    /\ inside' = inside \cup {t}

\* t's acquisition took effect, but t was told it failed and gave up: the
\* lock carries the token of a task that is not inside.
Orphan(t) ==
    /\ owner = NoTask
    /\ t \notin inside
    /\ owner' = t
    /\ UNCHANGED inside

\* The tasks of T stop executing the body: a release (T has one element) or
\* the crash of the process they run in.  The lock is given back or, when the
\* release did not happen, stays behind.  A release is checked against the
\* token: it never gives back somebody else's lock.
Leave(T) ==
    /\ T # {}
    /\ T \subseteq inside
    /\ inside' = inside \ T
    /\ owner' \in {owner, IF owner \in T THEN NoTask ELSE owner}

\* The lock expires.
Lapse ==
    /\ owner # NoTask
    /\ owner \notin inside \/ MayLapse
    /\ owner' = NoTask
    /\ UNCHANGED inside

Next ==
    \/ \E t \in Tasks : Enter(t) \/ Orphan(t)
    \/ \E T \in SUBSET inside : Leave(T)
    \/ Lapse

Spec == Init /\ [][Next]_vars

-----------------------------------------------------------------------------
\* As long as holders finish before the lock expires, whoever is inside owns
\* the lock; hence no two tasks are ever inside.
InsideOwns == ~MayLapse => inside \subseteq {owner}

=============================================================================
