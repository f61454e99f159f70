------------------------ MODULE ChatCompletion_proofs ------------------------
(***************************************************************************)
(* Proofs about ChatCompletion, for any number of requests, any limit and  *)
(* any choice of answers: no slot is lost on any way out of a request, no  *)
(* call is made without one, and every answer is counted once.             *)
(*                                                                         *)
(* A step of one request leaves the others as they are, except in the      *)
(* limiter (OthersUndisturbed).  What is invariant of the limiter is       *)
(* proved first, for any use of it: that no slot is lost follows from      *)
(* counting them, but counting needs to know that a request that enters    *)
(* was not inside already, as nobody queues twice, or queues and holds a   *)
(* slot (LineInv).  What is left is invariant of each request on its own   *)
(* (RequestInv), and says what its position in the code implies for the    *)
(* rest of its state.                                                      *)
(***************************************************************************)
EXTENDS ChatCompletion, FiniteSetTheorems, SequenceTheorems, TLAPS

-----------------------------------------------------------------------------
(* The limiter *)

\* The queue names each request once, and none that has a slot.
LineInv ==
    /\ \A i, j \in 1 .. Len(waiters) : waiters[i] = waiters[j] => i = j
    /\ \A i \in 1 .. Len(waiters) : waiters[i] \notin holders

LimiterInv ==
    /\ LimiterTypeOK
    /\ LineInv
    /\ SlotsConserved
    /\ NoLostWakeup

-----------------------------------------------------------------------------
(* Sequences *)

\* Removing the i-th element moves those behind it up by one.
LEMMA RemoveAtIsShift ==
    ASSUME NEW S, NEW s \in Seq(S), NEW i \in 1 .. Len(s)
    PROVE  /\ RemoveAt(s, i) \in Seq(S)
           /\ Len(RemoveAt(s, i)) = Len(s) - 1
           /\ \A j \in 1 .. Len(s) - 1 :
                 RemoveAt(s, i)[j] = IF j < i THEN s[j] ELSE s[j + 1]
<1> DEFINE front == SubSeq(s, 1, i - 1)
           back == SubSeq(s, i + 1, Len(s))
<1>1. /\ Len(s) \in Nat
      /\ \A j \in 1 .. Len(s) : s[j] \in S
    BY LenProperties, ElementOfSeq
<1>2. /\ front \in Seq(S)
      /\ Len(front) = i - 1
      /\ \A j \in 1 .. i - 1 : front[j] = s[j]
    <2>1. \A j \in 1 .. i - 1 : s[j] \in S
        BY <1>1
    <2>2. /\ front \in Seq(S)
          /\ Len(front) = IF 1 <= i - 1 THEN (i - 1) - 1 + 1 ELSE 0
          /\ \A j \in 1 .. (i - 1) - 1 + 1 : front[j] = s[1 + j - 1]
        BY <2>1, SubSeqProperties
    <2> QED  BY <2>2
<1>3. /\ back \in Seq(S)
      /\ Len(back) = Len(s) - i
      /\ \A j \in 1 .. Len(s) - i : back[j] = s[i + j]
    <2>1. \A j \in i + 1 .. Len(s) : s[j] \in S
        BY <1>1
    <2>2. /\ back \in Seq(S)
          /\ Len(back) = IF i + 1 <= Len(s) THEN Len(s) - (i + 1) + 1 ELSE 0
          /\ \A j \in 1 .. Len(s) - (i + 1) + 1 : back[j] = s[(i + 1) + j - 1]
        BY <1>1, <2>1, SubSeqProperties
    <2> QED  BY <1>1, <2>2
<1> HIDE DEF front, back
<1>4. RemoveAt(s, i) = front \o back
    BY DEF RemoveAt, front, back
<1>5. /\ front \o back \in Seq(S)
      /\ Len(front \o back) = Len(front) + Len(back)
      /\ \A j \in 1 .. Len(front) + Len(back) :
            (front \o back)[j] = IF j <= Len(front) THEN front[j] ELSE back[j - Len(front)]
    BY <1>2, <1>3, ConcatProperties
<1>6. ASSUME NEW j \in 1 .. Len(s) - 1
      PROVE  (front \o back)[j] = IF j < i THEN s[j] ELSE s[j + 1]
    <2>1. CASE j < i
        <3>1. j \in 1 .. i - 1 /\ j <= Len(front) /\ j \in 1 .. Len(front) + Len(back)
            BY <1>1, <1>2, <1>3, <2>1
        <3> QED  BY <1>2, <1>5, <2>1, <3>1
    <2>2. CASE ~(j < i)
        <3>1. /\ j \in 1 .. Len(front) + Len(back)
              /\ ~(j <= Len(front))
              /\ j - Len(front) \in 1 .. Len(s) - i
              /\ i + (j - Len(front)) = j + 1
            BY <1>1, <1>2, <1>3, <2>2
        <3> QED  BY <1>3, <1>5, <2>2, <3>1
    <2> QED  BY <2>1, <2>2
<1> QED  BY <1>1, <1>2, <1>3, <1>4, <1>5, <1>6

\* What the front of the queue and the rest of it are.
LEMMA HeadTail ==
    ASSUME NEW S, NEW s \in Seq(S), Len(s) > 0
    PROVE  /\ s # <<>>
           /\ Head(s) = s[1]
           /\ Tail(s) \in Seq(S)
           /\ Len(Tail(s)) = Len(s) - 1
           /\ \A j \in 1 .. Len(s) - 1 : Tail(s)[j] = s[j + 1]
<1>1. s # <<>>
    BY EmptySeq
<1> QED  BY <1>1, HeadTailProperties, LenProperties

-----------------------------------------------------------------------------
(* The invariant *)

\* Requests outside the `async with' are in neither set.
LEMMA AwayMeans ==
    ASSUME LimiterTypeOK, NEW q \in Requests, Away(q)
    PROVE  /\ q \notin holders
           /\ \A i \in 1 .. Len(waiters) : waiters[i] # q
<1>1. DOMAIN waiters = 1 .. Len(waiters)
    BY LenProperties DEF LimiterTypeOK
<1> QED  BY <1>1 DEF Away, Range

\* Holders can be counted.
LEMMA HoldersCounted ==
    ASSUME LimiterTypeOK, NEW q
    PROVE  /\ IsFiniteSet(holders)
           /\ Cardinality(holders) \in Nat
           /\ q \notin holders => Cardinality(holders \cup {q}) = Cardinality(holders) + 1
           /\ q \in holders => Cardinality(holders \ {q}) = Cardinality(holders) - 1
<1>1. IsFiniteSet(holders)
    BY LimitAssumption, FS_Subset DEF LimiterTypeOK, LimitAssumption
<1> QED  BY <1>1, FS_CardinalityType, FS_AddElement, FS_RemoveElement

LEMMA InitInv == LimiterInit => LimiterInv
<1> SUFFICES ASSUME LimiterInit PROVE LimiterInv
    OBVIOUS
<1> USE DEF LimiterInit
<1>1. /\ waiters \in Seq(Requests)
      /\ Len(waiters) = 0
    BY EmptySeq
<1>2. LimiterTypeOK
    BY <1>1, LimitAssumption DEF LimiterTypeOK, LimitAssumption
<1>3. LineInv
    BY <1>1 DEF LineInv
<1>4. SlotsConserved
    BY <1>1, FS_EmptySet, LimitAssumption DEF SlotsConserved, LimitAssumption
<1>5. NoLostWakeup
    BY <1>1 DEF NoLostWakeup
<1> QED  BY <1>2, <1>3, <1>4, <1>5 DEF LimiterInv

LEMMA AcquireFreeInv ==
    ASSUME LimiterInv, NEW q \in Requests, AcquireFree(q)
    PROVE  LimiterInv'
<1> USE DEF LimiterInv
<1>1. /\ q \notin holders
      /\ Cardinality(holders) \in Nat
      /\ Cardinality(holders \cup {q}) = Cardinality(holders) + 1
    BY AwayMeans, HoldersCounted DEF AcquireFree
<1>2. waiters = <<>> /\ waiters' = waiters
    BY DEF AcquireFree
<1>3. Len(waiters) = 0
    BY <1>2, EmptySeq
<1>4. /\ value > 0 /\ value' = value - 1
      /\ woken' = woken /\ queued' = queued
      /\ holders' = holders \cup {q} /\ in_flight' = in_flight + 1
    BY DEF AcquireFree
<1>5. LimiterTypeOK'
    BY <1>2, <1>3, <1>4, LimitAssumption DEF LimiterTypeOK, LimitAssumption
<1>6. LineInv'
    BY <1>2, <1>3 DEF LineInv
<1>7. SlotsConserved'
    BY <1>1, <1>2, <1>4, LimitAssumption DEF SlotsConserved, LimiterTypeOK, LimitAssumption
<1>8. NoLostWakeup'
    BY <1>2 DEF NoLostWakeup
<1> QED  BY <1>5, <1>6, <1>7, <1>8

LEMMA AcquireQueuedInv ==
    ASSUME LimiterInv, NEW q \in Requests, AcquireQueued(q)
    PROVE  LimiterInv'
<1> USE DEF LimiterInv
<1>1. /\ q \notin holders
      /\ \A i \in 1 .. Len(waiters) : waiters[i] # q
    BY AwayMeans DEF AcquireQueued
<1>2. /\ Len(waiters) \in Nat
      /\ waiters' \in Seq(Requests)
      /\ Len(waiters') = Len(waiters) + 1
      /\ \A i \in 1 .. Len(waiters) : waiters'[i] = waiters[i]
      /\ waiters'[Len(waiters) + 1] = q
    BY AppendProperties, LenProperties DEF LimiterTypeOK, AcquireQueued
<1>3. /\ queued' = queued + 1
      /\ UNCHANGED <<value, woken, holders, in_flight>>
      /\ value = 0 \/ waiters # <<>>
    BY DEF AcquireQueued
<1>4. LimiterTypeOK'
    BY <1>2, <1>3 DEF LimiterTypeOK
<1>5. LineInv'
    <2>1. \A i \in 1 .. Len(waiters) + 1 :
             i \in 1 .. Len(waiters) \/ i = Len(waiters) + 1
        BY <1>2
    <2> QED  BY <1>1, <1>2, <1>3, <2>1 DEF LineInv
<1>6. SlotsConserved'
    BY <1>2, <1>3 DEF SlotsConserved
<1>7. NoLostWakeup'
    \* Where the newcomer queues behind others beside a free slot, a woken
    \* task is among them.
    <2>1. value > 0 => waiters # <<>>
        BY <1>3 DEF LimiterTypeOK
    <2>2. value > 0 => woken > 0
        BY <2>1 DEF NoLostWakeup
    <2> QED  BY <1>3, <2>2 DEF NoLostWakeup
<1> QED  BY <1>4, <1>5, <1>6, <1>7

\* A task that has waited leaves as many waiters woken as there are slots for.
LEMMA WakeNewcomersWakes ==
    ASSUME NEW ws \in Seq(Requests), NEW w \in 0 .. Len(ws), NEW v \in 0 .. Limit,
           WakeNewcomers(ws, w, v)
    PROVE  /\ woken' \in 0 .. Len(ws)
           /\ value' \in 0 .. Limit
           /\ value' + woken' = v + w
           /\ value' > 0 => woken' = Len(ws)
<1>1. Len(ws) \in Nat
    BY LenProperties
<1>2. CASE v <= Len(ws) - w
    BY <1>1, <1>2, LimitAssumption DEF WakeNewcomers, LimitAssumption
<1>3. CASE ~(v <= Len(ws) - w)
    BY <1>1, <1>3, LimitAssumption DEF WakeNewcomers, LimitAssumption
<1> QED  BY <1>2, <1>3

\* If all are woken, either one of them is or there is nobody.
LEMMA AllWoken ==
    ASSUME NEW ws \in Seq(Requests), NEW w \in Nat, w = Len(ws)
    PROVE  w > 0 \/ ws = <<>>
BY EmptySeq

LEMMA AcquireWokenInv ==
    ASSUME LimiterInv, NEW q \in Requests, AcquireWoken(q)
    PROVE  LimiterInv'
<1> USE DEF LimiterInv
<1> DEFINE rest == Tail(waiters)
<1>1. /\ waiters \in Seq(Requests) /\ Len(waiters) \in Nat
      /\ Len(waiters) > 0
      /\ woken \in 1 .. Len(waiters) /\ value \in 0 .. Limit
    BY LenProperties DEF LimiterTypeOK, AcquireWoken
<1>2. /\ rest \in Seq(Requests)
      /\ Len(rest) = Len(waiters) - 1
      /\ \A j \in 1 .. Len(waiters) - 1 : rest[j] = waiters[j + 1]
      /\ q = waiters[1]
    BY <1>1, HeadTail DEF AcquireWoken
<1> HIDE DEF rest
<1>3. /\ waiters' = rest
      /\ WakeNewcomers(rest, woken - 1, value)
      /\ holders' = holders \cup {q}
      /\ queued' = queued - 1
      /\ in_flight' = in_flight + 1
    BY DEF AcquireWoken, rest
<1>4. /\ woken' \in 0 .. Len(rest)
      /\ value' \in 0 .. Limit
      /\ value' + woken' = value + woken - 1
      /\ value' > 0 => woken' = Len(rest)
    <2>1. woken - 1 \in 0 .. Len(rest)
        BY <1>1, <1>2
    <2>2. value' + woken' = value + (woken - 1)
        BY <1>1, <1>2, <1>3, <2>1, WakeNewcomersWakes
    <2>3. value + (woken - 1) = value + woken - 1
        BY <1>1, LimitAssumption DEF LimitAssumption
    <2> QED  BY <1>1, <1>2, <1>3, <2>1, <2>2, <2>3, WakeNewcomersWakes
<1>5. /\ q \notin holders
      /\ Cardinality(holders) \in Nat
      /\ Cardinality(holders \cup {q}) = Cardinality(holders) + 1
    <2>1. q \notin holders
        BY <1>1, <1>2 DEF LineInv
    <2> QED  BY <2>1, HoldersCounted
<1>6. LimiterTypeOK'
    <2>1. queued = Len(waiters)
        BY DEF SlotsConserved
    <2> QED  BY <1>1, <1>2, <1>3, <1>4, <2>1 DEF LimiterTypeOK
<1>7. LineInv'
    <2>1. ASSUME NEW i \in 1 .. Len(rest)
          PROVE  /\ i + 1 \in 1 .. Len(waiters)
                 /\ rest[i] = waiters[i + 1]
                 /\ rest[i] # q
        <3>1. /\ i + 1 \in 1 .. Len(waiters) /\ 1 \in 1 .. Len(waiters)
              /\ i + 1 # 1 /\ i \in 1 .. Len(waiters) - 1
            BY <1>1, <1>2
        <3>2. rest[i] = waiters[i + 1]
            BY <1>2, <3>1
        <3>3. waiters[i + 1] # waiters[1]
            BY <3>1 DEF LineInv
        <3> QED  BY <1>2, <3>1, <3>2, <3>3
    <2>2. \A i, j \in 1 .. Len(rest) : rest[i] = rest[j] => i = j
        <3>1. \A m, n \in 1 .. Len(waiters) : waiters[m] = waiters[n] => m = n
            BY <1>1 DEF LineInv
        <3>2. SUFFICES ASSUME NEW i \in 1 .. Len(rest), NEW j \in 1 .. Len(rest),
                              rest[i] = rest[j]
                       PROVE  i = j
            OBVIOUS
        <3>3. /\ i + 1 \in 1 .. Len(waiters) /\ j + 1 \in 1 .. Len(waiters)
              /\ waiters[i + 1] = waiters[j + 1]
            BY <2>1, <3>2
        <3>4. i + 1 = j + 1
            BY <3>1, <3>3
        <3> QED  BY <3>4
    <2>3. \A i \in 1 .. Len(rest) : rest[i] \notin holders \cup {q}
        BY <2>1 DEF LineInv
    <2> QED  BY <1>3, <2>2, <2>3 DEF LineInv
<1>8. SlotsConserved'
    <2>1. value' + woken' + Cardinality(holders') = Limit
        <3>1. /\ Cardinality(holders') = Cardinality(holders) + 1
              /\ Cardinality(holders') \in Nat
              /\ value + woken + Cardinality(holders) = Limit
            BY <1>3, <1>5 DEF SlotsConserved
        <3>2. value' \in Nat /\ woken' \in Nat /\ value \in Nat /\ woken \in Nat
            BY <1>1, <1>2, <1>4, LimitAssumption DEF LimitAssumption
        <3>3. PICK v \in Nat, w \in Nat, c \in Nat :
                 v = value' /\ w = woken' /\ c = Cardinality(holders')
            BY <3>1, <3>2
        <3>4. v + w = value + woken - 1 /\ c = Cardinality(holders) + 1
            BY <1>4, <3>1, <3>3
        <3>5. value \in Nat /\ woken \in Nat /\ value + woken + Cardinality(holders) = Limit
            BY <3>1, <3>2
        <3>6. v + w + c = Limit
            BY <1>5, <3>4, <3>5
        <3> QED  BY <3>3, <3>6
    <2>2. in_flight' = Cardinality(holders')
        BY <1>3, <1>5 DEF SlotsConserved
    <2>3. queued' = Len(waiters')
        BY <1>1, <1>2, <1>3 DEF SlotsConserved
    <2> QED  BY <2>1, <2>2, <2>3 DEF SlotsConserved
<1>9. NoLostWakeup'
    BY <1>2, <1>3, <1>4, AllWoken DEF NoLostWakeup
<1> QED  BY <1>6, <1>7, <1>8, <1>9

LEMMA AcquireCancelledInv ==
    ASSUME LimiterInv, NEW q \in Requests, AcquireCancelled(q)
    PROVE  LimiterInv'
<1> USE DEF LimiterInv
<1>1. /\ waiters \in Seq(Requests) /\ Len(waiters) \in Nat
      /\ DOMAIN waiters = 1 .. Len(waiters)
      /\ woken \in 0 .. Len(waiters) /\ value \in 0 .. Limit
    BY LenProperties DEF LimiterTypeOK
<1>2. PICK i \in DOMAIN waiters :
          /\ waiters[i] = q
          /\ waiters' = RemoveAt(waiters, i)
          /\ IF i <= woken
             THEN WakeNewcomers(RemoveAt(waiters, i), woken - 1, value + 1)
             ELSE WakeNewcomers(RemoveAt(waiters, i), woken, value)
    BY Zenon DEF AcquireCancelled
<1> DEFINE rest == RemoveAt(waiters, i)
<1>3. /\ rest \in Seq(Requests)
      /\ Len(rest) = Len(waiters) - 1
      /\ \A j \in 1 .. Len(waiters) - 1 :
            rest[j] = IF j < i THEN waiters[j] ELSE waiters[j + 1]
    BY <1>1, RemoveAtIsShift, Zenon
<1>4. /\ waiters' = rest
      /\ IF i <= woken THEN WakeNewcomers(rest, woken - 1, value + 1)
                       ELSE WakeNewcomers(rest, woken, value)
    BY <1>2
<1> HIDE DEF rest
<1>5. /\ queued' = queued - 1
      /\ UNCHANGED <<holders, in_flight>>
    BY DEF AcquireCancelled
<1>6. Cardinality(holders) \in Nat
    BY HoldersCounted
<1>7. /\ woken' \in 0 .. Len(rest)
      /\ value' \in 0 .. Limit
      /\ value' + woken' = value + woken
      /\ value' > 0 => woken' = Len(rest)
    <2>1. CASE i <= woken
        \* It had a slot of its own to pass on, so that fewer than Limit are free.
        <3>1. /\ woken - 1 \in 0 .. Len(rest)
              /\ value + 1 \in 0 .. Limit
            BY <1>1, <1>3, <1>6, <2>1, LimitAssumption DEF SlotsConserved, LimitAssumption
        <3>2. WakeNewcomers(rest, woken - 1, value + 1)
            BY <1>4, <2>1
        <3>3. /\ woken' \in 0 .. Len(rest)
              /\ value' \in 0 .. Limit
              /\ value' + woken' = (value + 1) + (woken - 1)
              /\ value' > 0 => woken' = Len(rest)
            BY <1>3, <3>1, <3>2, WakeNewcomersWakes
        <3>4. (value + 1) + (woken - 1) = value + woken
            BY <1>1, LimitAssumption DEF LimitAssumption
        <3> QED  BY <3>3, <3>4
    <2>2. CASE ~(i <= woken)
        <3>1. woken \in 0 .. Len(rest)
            BY <1>1, <1>3, <2>2
        <3>2. WakeNewcomers(rest, woken, value)
            BY <1>4, <2>2
        <3> QED  BY <1>1, <1>3, <3>1, <3>2, WakeNewcomersWakes
    <2> QED  BY <2>1, <2>2
<1>8. LimiterTypeOK'
    <2>1. queued = Len(waiters)
        BY DEF SlotsConserved
    <2> QED  BY <1>1, <1>3, <1>4, <1>5, <1>7, <2>1 DEF LimiterTypeOK
<1>9. LineInv'
    <2>1. ASSUME NEW j \in 1 .. Len(rest)
          PROVE  \E k \in 1 .. Len(waiters) :
                    /\ k = IF j < i THEN j ELSE j + 1
                    /\ rest[j] = waiters[k]
        BY <1>1, <1>3
    <2>2. ASSUME NEW j \in 1 .. Len(rest), NEW l \in 1 .. Len(rest), rest[j] = rest[l]
          PROVE  j = l
        <3>1. PICK k \in 1 .. Len(waiters) :
                 k = (IF j < i THEN j ELSE j + 1) /\ rest[j] = waiters[k]
            BY <2>1
        <3>2. PICK m \in 1 .. Len(waiters) :
                 m = (IF l < i THEN l ELSE l + 1) /\ rest[l] = waiters[m]
            BY <2>1
        <3>3. k = m
            BY <2>2, <3>1, <3>2 DEF LineInv
        <3> QED  BY <1>1, <1>3, <3>1, <3>2, <3>3
    <2>3. \A j \in 1 .. Len(rest) : rest[j] \notin holders
        BY <2>1 DEF LineInv
    <2> QED  BY <1>4, <1>5, <2>2, <2>3 DEF LineInv
<1>10. SlotsConserved'
    <2>1. value' + woken' + Cardinality(holders') = Limit
        BY <1>5, <1>7 DEF SlotsConserved
    <2> QED  BY <1>1, <1>3, <1>4, <1>5, <2>1 DEF SlotsConserved
<1>11. NoLostWakeup'
    BY <1>3, <1>4, <1>7, AllWoken DEF NoLostWakeup
<1> QED  BY <1>8, <1>9, <1>10, <1>11

LEMMA ReleaseInv ==
    ASSUME LimiterInv, NEW q \in Requests, Release(q)
    PROVE  LimiterInv'
<1> USE DEF LimiterInv
<1>1. /\ Len(waiters) \in Nat
      /\ woken \in 0 .. Len(waiters) /\ value \in 0 .. Limit
      /\ waiters' = waiters /\ queued' = queued
      /\ holders' = holders \ {q} /\ in_flight' = in_flight - 1
    BY LenProperties DEF LimiterTypeOK, Release
<1>2. /\ Cardinality(holders) \in Nat
      /\ Cardinality(holders') \in Nat
      /\ Cardinality(holders') = Cardinality(holders) - 1
    <2>1. q \in holders
        BY DEF Release
    <2>2. IsFiniteSet(holders) /\ IsFiniteSet(holders')
        BY <1>1, HoldersCounted, FS_RemoveElement
    <2> QED  BY <1>1, <2>1, <2>2, HoldersCounted, FS_CardinalityType
\* The slot goes to a waiter that has none yet, or is free.
<1>3. /\ woken' \in 0 .. Len(waiters)
      /\ value' \in 0 .. Limit
      /\ value' + woken' = value + woken + 1
      /\ value' > 0 => value = value' \/ woken' = Len(waiters)
      /\ woken' >= woken
    <2>1. CASE woken < Len(waiters)
        BY <1>1, <2>1, LimitAssumption DEF Release, GiveSlot, LimitAssumption
    <2>2. CASE ~(woken < Len(waiters))
        BY <1>1, <1>2, <2>2, LimitAssumption
        DEF Release, GiveSlot, SlotsConserved, LimitAssumption
    <2> QED  BY <2>1, <2>2
<1>4. LimiterTypeOK'
    BY <1>1, <1>2, <1>3 DEF LimiterTypeOK, SlotsConserved
<1>5. LineInv'
    BY <1>1 DEF LineInv
<1>6. SlotsConserved'
    <2>1. value' + woken' + Cardinality(holders') = Limit
        <3>1. value + woken + Cardinality(holders) = Limit
            BY DEF SlotsConserved
        <3>2. value' \in Nat /\ woken' \in Nat /\ value \in Nat /\ woken \in Nat
            BY <1>1, <1>3, LimitAssumption DEF LimitAssumption
        <3>3. PICK v \in Nat, w \in Nat, c \in Nat :
                 v = value' /\ w = woken' /\ c = Cardinality(holders')
            BY <1>2, <3>2
        <3>4. v + w = value + woken + 1 /\ c = Cardinality(holders) - 1
            BY <1>2, <1>3, <3>3
        <3>5. value \in Nat /\ woken \in Nat /\ Cardinality(holders) \in Nat
            BY <1>2, <3>2
        <3>6. v + w + c = Limit
            BY <3>1, <3>4, <3>5
        <3> QED  BY <3>3, <3>6
    <2>2. in_flight' = Cardinality(holders') /\ queued' = Len(waiters')
        BY <1>1, <1>2 DEF SlotsConserved
    <2> QED  BY <2>1, <2>2 DEF SlotsConserved
<1>7. NoLostWakeup'
    <2>1. CASE value' > 0 /\ woken' = Len(waiters)
        BY <1>1, <1>3, <2>1, AllWoken DEF NoLostWakeup, LimiterTypeOK
    <2>2. CASE value' > 0 /\ value = value'
        <3>1. woken > 0 \/ waiters = <<>>
            BY <2>2 DEF NoLostWakeup
        <3>2. woken' > 0 \/ waiters = <<>>
            BY <1>1, <1>3, <3>1
        <3> QED  BY <1>1, <3>2 DEF NoLostWakeup
    <2> QED  BY <1>3, <2>1, <2>2 DEF NoLostWakeup
<1> QED  BY <1>4, <1>5, <1>6, <1>7

LEMMA StepInv == LimiterInv /\ [LimiterNext]_limiterVars => LimiterInv'
<1> SUFFICES ASSUME LimiterInv, [LimiterNext]_limiterVars PROVE LimiterInv'
    OBVIOUS
<1>1. CASE LimiterNext
    <2>1. PICK q \in Requests :
             \/ AcquireFree(q) \/ AcquireQueued(q) \/ AcquireWoken(q)
             \/ AcquireCancelled(q) \/ Release(q)
        BY <1>1 DEF LimiterNext
    <2> QED
        BY <2>1, AcquireFreeInv, AcquireQueuedInv, AcquireWokenInv,
           AcquireCancelledInv, ReleaseInv
<1>2. CASE UNCHANGED limiterVars
    BY <1>2 DEF limiterVars, LimiterInv, LimiterTypeOK, LineInv, SlotsConserved,
                NoLostWakeup
<1> QED  BY <1>1, <1>2


-----------------------------------------------------------------------------
(* Theorems *)

THEOREM LimiterInvariant == LimiterSpec => []LimiterInv
BY InitInv, StepInv, PTL DEF LimiterSpec

\* The limiter's state is what its types say.
THEOREM LimiterTypeCorrect == LimiterSpec => []LimiterTypeOK
<1>1. LimiterInv => LimiterTypeOK
    BY DEF LimiterInv
<1> QED  BY <1>1, LimiterInvariant, PTL

\* No slot of a model is lost or made up, and the gauges count the requests,
\* for any number of requests and slots.
THEOREM LimiterConservesSlots == LimiterSpec => []SlotsConserved
<1>1. LimiterInv => SlotsConserved
    BY DEF LimiterInv
<1> QED  BY <1>1, LimiterInvariant, PTL

\* No wake-up is lost.
THEOREM LimiterLosesNoWakeup == LimiterSpec => []NoLostWakeup
<1>1. LimiterInv => NoLostWakeup
    BY DEF LimiterInv
<1> QED  BY <1>1, LimiterInvariant, PTL

\* The initial states and each operation of the limiter are the pool's.
LEMMA PoolInit == LimiterInit => Pool!Init
BY DEF LimiterInit, Pool!Init

\* The pool counts as the limiter does.
LEMMA PoolCounts == Pool!Cardinality(holders) = Cardinality(holders)
BY DEF Cardinality, Pool!Cardinality

LEMMA PoolStep ==
    ASSUME LimiterInv, NEW q \in Requests,
           \/ AcquireFree(q) \/ AcquireQueued(q) \/ AcquireWoken(q)
           \/ AcquireCancelled(q) \/ Release(q)
    PROVE  Pool!Next
<1> USE DEF LimiterInv
<1>1. Cardinality(holders) \in Nat /\ Limit \in Nat
    BY HoldersCounted, LimitAssumption DEF LimitAssumption
<1>2. value + woken + Cardinality(holders) = Limit /\ value \in Nat /\ woken \in Nat
    BY LimitAssumption, LenProperties
    DEF SlotsConserved, LimiterTypeOK, LimitAssumption
<1>3. CASE AcquireFree(q)
    <2>1. Cardinality(holders) < Limit
        BY <1>1, <1>2, <1>3 DEF AcquireFree
    <2>2. Pool!Enter(q)
        BY <1>3, <2>1, PoolCounts DEF AcquireFree, Away, Range, Pool!Enter, Pool!Outside, Pool!Range
    <2> QED  BY <2>2 DEF Pool!Next
<1>4. CASE AcquireQueued(q)
    <2>1. waiters # <<>> \/ Cardinality(holders) = Limit
        <3>1. CASE waiters # <<>>
            BY <3>1
        <3>2. CASE waiters = <<>>
            <4>1. value = 0
                BY <1>4, <3>2 DEF AcquireQueued
            <4>2. Len(waiters) = 0
                BY <3>2, EmptySeq
            <4>3. woken = 0
                BY <4>2 DEF LimiterTypeOK
            <4> QED  BY <1>1, <1>2, <4>1, <4>3
        <3> QED  BY <3>1, <3>2
    <2>2. Pool!Join(q)
        BY <1>4, <2>1, PoolCounts DEF AcquireQueued, Away, Range, Pool!Join, Pool!Outside, Pool!Range
    <2> QED  BY <2>2 DEF Pool!Next
<1>5. CASE AcquireWoken(q)
    <2>1. woken > 0
        BY <1>5 DEF AcquireWoken
    <2>2. Cardinality(holders) < Limit
        BY <1>1, <1>2, <2>1
    <2>3. waiters # <<>>
        <3>1. Len(waiters) > 0
            BY <2>1, LenProperties DEF LimiterTypeOK
        <3> QED  BY <3>1, EmptySeq
    <2>4. Pool!Admit
        BY <1>5, <2>2, <2>3, PoolCounts DEF AcquireWoken, Pool!Admit
    <2> QED  BY <2>4 DEF Pool!Next
<1>6. CASE AcquireCancelled(q)
    <2>1. PICK i \in DOMAIN waiters : waiters' = RemoveAt(waiters, i)
        BY <1>6 DEF AcquireCancelled
    <2>2. Pool!GiveUp(i)
        BY <1>6, <2>1 DEF AcquireCancelled, RemoveAt, Pool!GiveUp, Pool!RemoveAt
    <2> QED  BY <2>2 DEF Pool!Next
<1>7. CASE Release(q)
    <2>1. Pool!Leave(q)
        BY <1>7 DEF Release, Pool!Leave
    <2> QED  BY <2>1 DEF Pool!Next
<1> QED  BY <1>3, <1>4, <1>5, <1>6, <1>7

\* The limiter implements a pool of Limit slots, first come, first served.
THEOREM LimiterImplementsPool == LimiterSpec => ImplementsPool
<1>1. LimiterInv /\ [LimiterNext]_limiterVars => [Pool!Next]_(Pool!vars)
    <2> SUFFICES ASSUME LimiterInv, [LimiterNext]_limiterVars
                 PROVE  [Pool!Next]_(Pool!vars)
        OBVIOUS
    <2>1. CASE LimiterNext
        <3>1. PICK q \in Requests :
                 \/ AcquireFree(q) \/ AcquireQueued(q) \/ AcquireWoken(q)
                 \/ AcquireCancelled(q) \/ Release(q)
            BY <2>1 DEF LimiterNext
        <3> QED  BY <3>1, PoolStep
    <2>2. CASE UNCHANGED limiterVars
        BY <2>2 DEF limiterVars, Pool!vars
    <2> QED  BY <2>1, <2>2
<1> QED  BY <1>1, PoolInit, LimiterInvariant, PTL DEF LimiterSpec, ImplementsPool, Pool!Spec

-----------------------------------------------------------------------------
(* The requests *)

BeforeAnswer == {"new", "routed", "queued", "calling"}
Streaming == {"sending", "reading", "orphaned", "closing", "cancelled"}

\* A request holds a slot exactly while it is served.
Held(q) == q \in holders <=> pc[q] \in InSlot

\* Where the call to the model can be under way.
CallInv(q) ==
    /\ q \in open => /\ pc[q] \notin {"new", "routed", "queued"}
                     /\ kind[q] # "fallthrough"
                     /\ pc[q] \in InSlot \/ q \in left
    /\ pc[q] = "sending" /\ kind[q] = "buffered" => q \notin open
    /\ pc[q] = "reading" => kind[q] = "live"
    /\ pc[q] \in {"orphaned", "cancelled"} => q \in left
    /\ pc[q] \in BeforeAnswer => q \notin left

\* What kind of request can be where, and what it has been answered.
AnswerInv(q) ==
    /\ pc[q] = "new" => kind[q] = "none"
    /\ pc[q] \notin {"new", "done"} => kind[q] \in Kinds
    /\ pc[q] \in Streaming => kind[q] \in {"live", "buffered"}
    /\ pc[q] = "checking" => kind[q] = "json"
    /\ pc[q] \in BeforeAnswer => status[q] = "none" /\ counted[q] = <<>>
    /\ pc[q] \in Streaming => status[q] = "200" /\ counted[q] = <<>>
    /\ pc[q] \in Recording =>
          IF kind[q] = "json"
          THEN status[q] = "none" /\ counted[q] = <<>>
          ELSE status[q] = "200" /\ counted[q] = <<"200">>
    /\ pc[q] = "done" =>
          counted[q] = IF kind[q] = "none" \/ status[q] = "none"
                       THEN <<>> ELSE <<status[q]>>

\* The answers that are to be accounted for.
Answered(q) == q \in answered \ dropped

\* When its answer is there, and how far its accounting is.
AccountInv(q) ==
    /\ pc[q] \in {"new", "routed", "queued"} => q \notin answered
    /\ pc[q] = "calling" =>
          (q \in answered <=> kind[q] = "buffered" /\ q \notin open)
    /\ pc[q] \in Streaming \cup Recording => q \in answered
    /\ q \in dropped => pc[q] = "done" /\ kind[q] = "buffered" /\ status[q] # "200"
    /\ pc[q] \in {"new", "routed", "queued"} => q \notin metered
    /\ pc[q] = "calling" /\ kind[q] \notin {"live", "buffered"} => q \notin metered
    /\ pc[q] \in Recording /\ kind[q] = "json" => q \in metered
    /\ pc[q] \in BeforeAnswer \cup Streaming \cup {"recordUsage"} =>
          usage[q] = 0 /\ charged[q] = 0
    /\ pc[q] = "recordBudget" =>
          charged[q] = 0 /\ (q \notin disturbed => usage[q] = 1)
    /\ pc[q] = "checking" /\ q \notin disturbed => usage[q] = 1 /\ charged[q] = 1
    /\ pc[q] = "done" /\ q \notin disturbed =>
          /\ usage[q] <= 1 /\ charged[q] <= 1
          /\ ~(useRedis /\ q \in left) =>
                /\ usage[q] = IF Answered(q) THEN 1 ELSE 0
                /\ charged[q] = IF Answered(q) /\ q \in metered THEN 1 ELSE 0

RequestInv(q) == Held(q) /\ CallInv(q) /\ AnswerInv(q) /\ AccountInv(q)

ChatInv ==
    /\ LimiterInv
    /\ TypeOK
    /\ \A q \in Requests : RequestInv(q)

-----------------------------------------------------------------------------
(* The limiter, as part of the whole *)

\* A step of a request is one of the limiter's, or leaves it alone.
LEMMA ChatStepsLimiter ==
    ASSUME NEW q \in Requests, RequestNext(q)
    PROVE  [LimiterNext]_limiterVars
<1> USE DEF LimiterNext
<1>1. CASE Refuse(q)
    BY <1>1 DEF Refuse, Outside
<1>2. CASE Admit(q)
    BY <1>2 DEF Admit, Outside
<1>3. CASE RouteRejects(q)
    BY <1>3 DEF RouteRejects, Outside
<1>4. CASE EnterSlot(q)
    BY <1>4 DEF EnterSlot
<1>5. CASE Queue(q)
    BY <1>5 DEF Queue
<1>6. CASE LeaveQueue(q)
    BY <1>6 DEF LeaveQueue
<1>7. CASE CancelQueued(q)
    BY <1>7 DEF CancelQueued
<1>8. CASE CancelCall(q)
    BY <1>8 DEF CancelCall
<1>9. CASE CallFails(q)
    BY <1>9 DEF CallFails
<1>10. CASE FallThrough(q)
    BY <1>10 DEF FallThrough
<1>11. CASE CallAnswers(q)
    BY <1>11 DEF CallAnswers
<1>12. CASE FirstChunk(q)
    BY <1>12 DEF FirstChunk, Outside
<1>13. CASE UsageChunk(q)
    BY <1>13 DEF UsageChunk, Outside
<1>14. CASE UpstreamEnds(q)
    BY <1>14 DEF UpstreamEnds, Outside
<1>15. CASE ReleaseBuffer(q)
    BY <1>15 DEF ReleaseBuffer, Outside
<1>16. CASE NextChunk(q)
    BY <1>16 DEF NextChunk, Outside
<1>17. CASE Chunk(q)
    BY <1>17 DEF Chunk, Outside
<1>18. CASE StreamEnds(q)
    BY <1>18 DEF StreamEnds
<1>19. CASE LeaveWhileReading(q)
    BY <1>19 DEF LeaveWhileReading
<1>20. CASE LeaveWhileSending(q)
    BY <1>20 DEF LeaveWhileSending, Outside
<1>21. CASE Finalize(q)
    BY <1>21 DEF Finalize
<1>22. CASE CloseUpstream(q)
    BY <1>22 DEF CloseUpstream, Outside
<1>23. CASE OnClose(q)
    BY <1>23 DEF OnClose, Outside
<1>24. CASE OnCloseCancelled(q)
    BY <1>24 DEF OnCloseCancelled, Outside
<1>25. CASE LeaveWhileRecording(q)
    BY <1>25 DEF LeaveWhileRecording, Outside
<1>26. CASE RecordUsage(q)
    BY <1>26 DEF RecordUsage, Outside
<1>27. CASE RecordBudget(q)
    BY <1>27 DEF RecordBudget, Outside
<1>28. CASE Check(q)
    BY <1>28 DEF Check, Outside
<1>29. CASE LogFails(q)
    BY <1>29 DEF LogFails
<1> QED
    BY <1>1, <1>2, <1>3, <1>4, <1>5, <1>6, <1>7, <1>8, <1>9, <1>10, <1>11,
       <1>12, <1>13, <1>14, <1>15, <1>16, <1>17, <1>18, <1>19, <1>20, <1>21,
       <1>22, <1>23, <1>24, <1>25, <1>26, <1>27, <1>28, <1>29
    DEF RequestNext

-----------------------------------------------------------------------------
(* The other requests *)

\* Nothing that belongs to another request changes.
LEMMA OthersUndisturbed ==
    ASSUME TypeOK, NEW q \in Requests, NEW r \in Requests, r # q, RequestNext(q)
    PROVE  /\ useRedis' = useRedis
           /\ pc'[r] = pc[r] /\ kind'[r] = kind[r]
           /\ status'[r] = status[r] /\ counted'[r] = counted[r]
           /\ usage'[r] = usage[r] /\ charged'[r] = charged[r]
           /\ r \in holders' <=> r \in holders
           /\ r \in open' <=> r \in open
           /\ r \in metered' <=> r \in metered
           /\ r \in left' <=> r \in left
           /\ r \in disturbed' <=> r \in disturbed
           /\ r \in answered' <=> r \in answered
           /\ r \in dropped' <=> r \in dropped
<1> USE DEF TypeOK, limiterVars
<1>1. CASE Refuse(q)
    BY <1>1 DEF Refuse, Goto, Answer, Outside, accountVars
<1>2. CASE Admit(q)
    BY <1>2 DEF Admit, Goto, Outside, answerVars, accountVars
<1>3. CASE RouteRejects(q)
    BY <1>3
    DEF RouteRejects, Goto, RaiseError, Answer, _record_completion,
        Outside, accountVars
<1>4. CASE EnterSlot(q)
    BY <1>4
    DEF EnterSlot, Goto, AcquireFree, StartCall, answerVars, accountVars
<1>5. CASE Queue(q)
    BY <1>5 DEF Queue, Goto, AcquireQueued, answerVars, accountVars
<1>6. CASE LeaveQueue(q)
    BY <1>6
    DEF LeaveQueue, Goto, AcquireWoken, StartCall, answerVars, accountVars
<1>7. CASE CancelQueued(q)
    BY <1>7 DEF CancelQueued, Goto, AcquireCancelled, answerVars, accountVars
<1>8. CASE CancelCall(q)
    BY <1>8 DEF CancelCall, Goto, Release, answerVars, accountVars
<1>9. CASE CallFails(q)
    BY <1>9
    DEF CallFails, NothingReceived, Goto, RaiseError, Answer,
        _record_completion, Release, accountVars
<1>10. CASE FallThrough(q)
    BY <1>10 DEF FallThrough, Goto, Release, answerVars, accountVars
<1>11. CASE CallAnswers(q)
    BY <1>11 DEF CallAnswers, Goto, Release, answerVars, accountVars
<1>12. CASE FirstChunk(q)
    BY <1>12 DEF FirstChunk, Goto, Answer, Outside, accountVars
<1>13. CASE UsageChunk(q)
    BY <1>13 DEF UsageChunk, Outside, answerVars, accountVars
<1>14. CASE UpstreamEnds(q)
    BY <1>14 DEF UpstreamEnds, Outside, answerVars, accountVars
<1>15. CASE ReleaseBuffer(q)
    BY <1>15 DEF ReleaseBuffer, Goto, Answer, Outside, accountVars
<1>16. CASE NextChunk(q)
    BY <1>16 DEF NextChunk, Goto, Outside, answerVars, accountVars
<1>17. CASE Chunk(q)
    BY <1>17 DEF Chunk, Goto, Outside, answerVars, accountVars
<1>18. CASE StreamEnds(q)
    BY <1>18 DEF StreamEnds, Goto, Release, answerVars, accountVars
<1>19. CASE LeaveWhileReading(q)
    BY <1>19 DEF LeaveWhileReading, Goto, Release, answerVars, accountVars
<1>20. CASE LeaveWhileSending(q)
    BY <1>20 DEF LeaveWhileSending, Goto, Outside, answerVars, accountVars
<1>21. CASE Finalize(q)
    BY <1>21 DEF Finalize, Goto, Release, answerVars, accountVars
<1>22. CASE CloseUpstream(q)
    BY <1>22 DEF CloseUpstream, Outside, answerVars, accountVars
<1>23. CASE OnClose(q)
    BY <1>23 DEF OnClose, Goto, _record_completion, Outside, accountVars
<1>24. CASE OnCloseCancelled(q)
    BY <1>24
    DEF OnCloseCancelled, Goto, _record_completion, CountRequest,
        ChargeTokens, IfCancelled, Outside
<1>25. CASE LeaveWhileRecording(q)
    BY <1>25
    DEF LeaveWhileRecording, Goto, CountRequest, ChargeTokens,
        IfCancelled, Outside, answerVars
<1>26. CASE RecordUsage(q)
    BY <1>26
    DEF RecordUsage, Goto, CountRequest, RedisFails, IfRetried, Outside,
        answerVars
<1>27. CASE RecordBudget(q)
    BY <1>27
    DEF RecordBudget, Goto, ChargeTokens, RedisFails, IfRetried, Outside,
        answerVars
<1>28. CASE Check(q)
    BY <1>28 DEF Check, Goto, Answer, _record_completion, Outside, accountVars
<1>29. CASE LogFails(q)
    BY <1>29
    DEF LogFails, Goto, RaiseError, Answer, _record_completion, Release
<1> QED
    BY <1>1, <1>2, <1>3, <1>4, <1>5, <1>6, <1>7, <1>8, <1>9, <1>10, <1>11,
       <1>12, <1>13, <1>14, <1>15, <1>16, <1>17, <1>18, <1>19, <1>20, <1>21,
       <1>22, <1>23, <1>24, <1>25, <1>26, <1>27, <1>28, <1>29
    DEF RequestNext

-----------------------------------------------------------------------------
(* The request itself *)

\* Counts stay natural numbers.
LEMMA CountsAreNat ==
    ASSUME TypeOK, NEW q \in Requests, NEW n \in Nat
    PROVE  /\ CountRequest(q, n) => usage' \in [Requests -> Nat]
           /\ ChargeTokens(q, n) => charged' \in [Requests -> Nat]
<1>1. usage[q] + n \in Nat /\ charged[q] + n \in Nat
    BY DEF TypeOK
<1>2. ASSUME CountRequest(q, n) PROVE usage' \in [Requests -> Nat]
    BY <1>1, <1>2 DEF TypeOK, CountRequest
<1>3. ASSUME ChargeTokens(q, n) PROVE charged' \in [Requests -> Nat]
    <2>1. CASE q \in metered
        BY <1>1, <1>3, <2>1 DEF TypeOK, ChargeTokens
    <2>2. CASE q \notin metered
        BY <1>3, <2>2 DEF TypeOK, ChargeTokens
    <2> QED  BY <2>1, <2>2
<1> QED  BY <1>2, <1>3

LEMMA TypeStep ==
    ASSUME TypeOK, LimiterTypeOK', NEW q \in Requests, RequestNext(q)
    PROVE  TypeOK'
<1> USE DEF TypeOK, Kinds, InSlot, Closing, Recording
<1>1. CASE Refuse(q)
    BY <1>1 DEF Refuse, Goto, Answer, Outside, accountVars
<1>2. CASE Admit(q)
    <2>1. PICK k \in Asks[q] : kind' = [kind EXCEPT ![q] = k]
        BY <1>2 DEF Admit
    <2>2. k \in Kinds
        BY <2>1, AsksAssumption DEF AsksAssumption
    <2> QED
        BY <1>2, <2>1, <2>2 DEF Admit, Goto, Outside, answerVars, accountVars
<1>3. CASE RouteRejects(q)
    BY <1>3
    DEF RouteRejects, Goto, RaiseError, Answer, _record_completion,
        Outside, accountVars
<1>4. CASE EnterSlot(q)
    BY <1>4
    DEF EnterSlot, Goto, AcquireFree, StartCall, answerVars, accountVars
<1>5. CASE Queue(q)
    BY <1>5 DEF Queue, Goto, AcquireQueued, answerVars, accountVars
<1>6. CASE LeaveQueue(q)
    BY <1>6
    DEF LeaveQueue, Goto, AcquireWoken, StartCall, answerVars, accountVars
<1>7. CASE CancelQueued(q)
    BY <1>7 DEF CancelQueued, Goto, AcquireCancelled, answerVars, accountVars
<1>8. CASE CancelCall(q)
    BY <1>8 DEF CancelCall, Goto, Release, answerVars, accountVars
<1>9. CASE CallFails(q)
    BY <1>9
    DEF CallFails, NothingReceived, Goto, RaiseError, Answer,
        _record_completion, Release, accountVars
<1>10. CASE FallThrough(q)
    BY <1>10 DEF FallThrough, Goto, Release, answerVars, accountVars
<1>11. CASE CallAnswers(q)
    BY <1>11 DEF CallAnswers, Goto, Release, answerVars, accountVars
<1>12. CASE FirstChunk(q)
    BY <1>12 DEF FirstChunk, Goto, Answer, Outside, accountVars
<1>13. CASE UsageChunk(q)
    BY <1>13 DEF UsageChunk, Outside, answerVars, accountVars
<1>14. CASE UpstreamEnds(q)
    BY <1>14 DEF UpstreamEnds, Outside, answerVars, accountVars
<1>15. CASE ReleaseBuffer(q)
    BY <1>15 DEF ReleaseBuffer, Goto, Answer, Outside, accountVars
<1>16. CASE NextChunk(q)
    BY <1>16 DEF NextChunk, Goto, Outside, answerVars, accountVars
<1>17. CASE Chunk(q)
    BY <1>17 DEF Chunk, Goto, Outside, answerVars, accountVars
<1>18. CASE StreamEnds(q)
    BY <1>18 DEF StreamEnds, Goto, Release, answerVars, accountVars
<1>19. CASE LeaveWhileReading(q)
    BY <1>19 DEF LeaveWhileReading, Goto, Release, answerVars, accountVars
<1>20. CASE LeaveWhileSending(q)
    BY <1>20 DEF LeaveWhileSending, Goto, Outside, answerVars, accountVars
<1>21. CASE Finalize(q)
    BY <1>21 DEF Finalize, Goto, Release, answerVars, accountVars
<1>22. CASE CloseUpstream(q)
    BY <1>22 DEF CloseUpstream, Outside, answerVars, accountVars
<1>23. CASE OnClose(q)
    BY <1>23 DEF OnClose, Goto, _record_completion, Outside, accountVars
<1>24. CASE OnCloseCancelled(q)
    <2>1. usage' \in [Requests -> Nat]
        BY <1>24, CountsAreNat DEF OnCloseCancelled, IfCancelled
    <2>2. charged' \in [Requests -> Nat]
        BY <1>24, CountsAreNat DEF OnCloseCancelled
    <2>3. /\ Goto(q, "cancelled", "done")
          /\ _record_completion(q, "200")
          /\ UNCHANGED <<useRedis, kind, open, metered, left, status, disturbed>>
          /\ UNCHANGED <<answered, dropped>>
        BY <1>24 DEF OnCloseCancelled
    <2> QED  BY <2>1, <2>2, <2>3 DEF Goto, _record_completion
<1>25. CASE LeaveWhileRecording(q)
    <2>1. usage' \in [Requests -> Nat]
        BY <1>25, CountsAreNat DEF LeaveWhileRecording, IfCancelled
    <2>2. charged' \in [Requests -> Nat]
        BY <1>25, CountsAreNat DEF LeaveWhileRecording, IfCancelled
    <2> QED  BY <1>25, <2>1, <2>2 DEF LeaveWhileRecording, Goto, Outside, answerVars
<1>26. CASE RecordUsage(q)
    <2>1. usage' \in [Requests -> Nat]
        BY <1>26, CountsAreNat DEF RecordUsage, IfRetried
    <2>2. charged' \in [Requests -> Nat]
        BY <1>26 DEF RecordUsage
    <2> QED  BY <1>26, <2>1, <2>2 DEF RecordUsage, Goto, RedisFails, Outside, answerVars
<1>27. CASE RecordBudget(q)
    <2>1. usage' \in [Requests -> Nat]
        BY <1>27 DEF RecordBudget
    <2>2. charged' \in [Requests -> Nat]
        BY <1>27, CountsAreNat DEF RecordBudget, IfRetried
    <2> QED  BY <1>27, <2>1, <2>2 DEF RecordBudget, Goto, RedisFails, Outside, answerVars
<1>28. CASE Check(q)
    BY <1>28 DEF Check, Goto, Answer, _record_completion, Outside, accountVars
<1>29. CASE LogFails(q)
    BY <1>29
    DEF LogFails, Goto, RaiseError, Answer, _record_completion, Release
<1> QED
    BY <1>1, <1>2, <1>3, <1>4, <1>5, <1>6, <1>7, <1>8, <1>9, <1>10, <1>11,
       <1>12, <1>13, <1>14, <1>15, <1>16, <1>17, <1>18, <1>19, <1>20, <1>21,
       <1>22, <1>23, <1>24, <1>25, <1>26, <1>27, <1>28, <1>29
    DEF RequestNext

LEMMA HeldStep ==
    ASSUME TypeOK, NEW q \in Requests, RequestNext(q), Held(q)
    PROVE  Held(q)'
<1> USE DEF Held, InSlot, TypeOK, limiterVars
<1>1. CASE Refuse(q)
    BY <1>1 DEF Refuse, Goto, Answer, Outside, accountVars
<1>2. CASE Admit(q)
    BY <1>2 DEF Admit, Goto, Outside, answerVars, accountVars
<1>3. CASE RouteRejects(q)
    BY <1>3
    DEF RouteRejects, Goto, RaiseError, Answer, _record_completion,
        Outside, accountVars
<1>4. CASE EnterSlot(q)
    BY <1>4
    DEF EnterSlot, Goto, AcquireFree, StartCall, answerVars, accountVars
<1>5. CASE Queue(q)
    BY <1>5 DEF Queue, Goto, AcquireQueued, answerVars, accountVars
<1>6. CASE LeaveQueue(q)
    BY <1>6
    DEF LeaveQueue, Goto, AcquireWoken, StartCall, answerVars, accountVars
<1>7. CASE CancelQueued(q)
    BY <1>7 DEF CancelQueued, Goto, AcquireCancelled, answerVars, accountVars
<1>8. CASE CancelCall(q)
    BY <1>8 DEF CancelCall, Goto, Release, answerVars, accountVars
<1>9. CASE CallFails(q)
    BY <1>9
    DEF CallFails, NothingReceived, Goto, RaiseError, Answer,
        _record_completion, Release, accountVars
<1>10. CASE FallThrough(q)
    BY <1>10 DEF FallThrough, Goto, Release, answerVars, accountVars
<1>11. CASE CallAnswers(q)
    BY <1>11 DEF CallAnswers, Goto, Release, answerVars, accountVars
<1>12. CASE FirstChunk(q)
    BY <1>12 DEF FirstChunk, Goto, Answer, Outside, accountVars
<1>13. CASE UsageChunk(q)
    BY <1>13 DEF UsageChunk, Outside, answerVars, accountVars
<1>14. CASE UpstreamEnds(q)
    BY <1>14 DEF UpstreamEnds, Outside, answerVars, accountVars
<1>15. CASE ReleaseBuffer(q)
    BY <1>15 DEF ReleaseBuffer, Goto, Answer, Outside, accountVars
<1>16. CASE NextChunk(q)
    BY <1>16 DEF NextChunk, Goto, Outside, answerVars, accountVars
<1>17. CASE Chunk(q)
    BY <1>17 DEF Chunk, Goto, Outside, answerVars, accountVars
<1>18. CASE StreamEnds(q)
    BY <1>18 DEF StreamEnds, Goto, Release, answerVars, accountVars
<1>19. CASE LeaveWhileReading(q)
    BY <1>19 DEF LeaveWhileReading, Goto, Release, answerVars, accountVars
<1>20. CASE LeaveWhileSending(q)
    BY <1>20 DEF LeaveWhileSending, Goto, Outside, answerVars, accountVars
<1>21. CASE Finalize(q)
    BY <1>21 DEF Finalize, Goto, Release, answerVars, accountVars
<1>22. CASE CloseUpstream(q)
    BY <1>22 DEF CloseUpstream, Outside, answerVars, accountVars
<1>23. CASE OnClose(q)
    BY <1>23 DEF OnClose, Goto, _record_completion, Outside, accountVars
<1>24. CASE OnCloseCancelled(q)
    BY <1>24
    DEF OnCloseCancelled, Goto, _record_completion, CountRequest,
        ChargeTokens, IfCancelled, Outside
<1>25. CASE LeaveWhileRecording(q)
    BY <1>25
    DEF LeaveWhileRecording, Goto, CountRequest, ChargeTokens,
        IfCancelled, Outside, answerVars
<1>26. CASE RecordUsage(q)
    BY <1>26
    DEF RecordUsage, Goto, CountRequest, RedisFails, IfRetried, Outside,
        answerVars
<1>27. CASE RecordBudget(q)
    BY <1>27
    DEF RecordBudget, Goto, ChargeTokens, RedisFails, IfRetried, Outside,
        answerVars
<1>28. CASE Check(q)
    BY <1>28 DEF Check, Goto, Answer, _record_completion, Outside, accountVars
<1>29. CASE LogFails(q)
    BY <1>29
    DEF LogFails, Goto, RaiseError, Answer, _record_completion, Release
<1> QED
    BY <1>1, <1>2, <1>3, <1>4, <1>5, <1>6, <1>7, <1>8, <1>9, <1>10, <1>11,
       <1>12, <1>13, <1>14, <1>15, <1>16, <1>17, <1>18, <1>19, <1>20, <1>21,
       <1>22, <1>23, <1>24, <1>25, <1>26, <1>27, <1>28, <1>29
    DEF RequestNext

LEMMA CallStep ==
    ASSUME TypeOK, NEW q \in Requests, RequestNext(q), CallInv(q)
    PROVE  CallInv(q)'
<1> USE DEF CallInv, BeforeAnswer, InSlot, TypeOK
<1>1. CASE Refuse(q)
    BY <1>1 DEF Refuse, Goto, Answer, Outside, accountVars
<1>2. CASE Admit(q)
    BY <1>2 DEF Admit, Goto, Outside, answerVars, accountVars
<1>3. CASE RouteRejects(q)
    BY <1>3
    DEF RouteRejects, Goto, RaiseError, Answer, _record_completion,
        Outside, accountVars
<1>4. CASE EnterSlot(q)
    BY <1>4
    DEF EnterSlot, Goto, AcquireFree, StartCall, answerVars, accountVars
<1>5. CASE Queue(q)
    BY <1>5 DEF Queue, Goto, AcquireQueued, answerVars, accountVars
<1>6. CASE LeaveQueue(q)
    BY <1>6
    DEF LeaveQueue, Goto, AcquireWoken, StartCall, answerVars, accountVars
<1>7. CASE CancelQueued(q)
    BY <1>7 DEF CancelQueued, Goto, AcquireCancelled, answerVars, accountVars
<1>8. CASE CancelCall(q)
    BY <1>8 DEF CancelCall, Goto, Release, answerVars, accountVars
<1>9. CASE CallFails(q)
    BY <1>9
    DEF CallFails, NothingReceived, Goto, RaiseError, Answer,
        _record_completion, Release, accountVars
<1>10. CASE FallThrough(q)
    BY <1>10 DEF FallThrough, Goto, Release, answerVars, accountVars
<1>11. CASE CallAnswers(q)
    BY <1>11 DEF CallAnswers, Goto, Release, answerVars, accountVars
<1>12. CASE FirstChunk(q)
    BY <1>12 DEF FirstChunk, Goto, Answer, Outside, accountVars
<1>13. CASE UsageChunk(q)
    BY <1>13 DEF UsageChunk, Outside, answerVars, accountVars
<1>14. CASE UpstreamEnds(q)
    BY <1>14 DEF UpstreamEnds, Outside, answerVars, accountVars
<1>15. CASE ReleaseBuffer(q)
    BY <1>15 DEF ReleaseBuffer, Goto, Answer, Outside, accountVars
<1>16. CASE NextChunk(q)
    BY <1>16 DEF NextChunk, Goto, Outside, answerVars, accountVars
<1>17. CASE Chunk(q)
    BY <1>17 DEF Chunk, Goto, Outside, answerVars, accountVars
<1>18. CASE StreamEnds(q)
    BY <1>18 DEF StreamEnds, Goto, Release, answerVars, accountVars
<1>19. CASE LeaveWhileReading(q)
    BY <1>19 DEF LeaveWhileReading, Goto, Release, answerVars, accountVars
<1>20. CASE LeaveWhileSending(q)
    BY <1>20 DEF LeaveWhileSending, Goto, Outside, answerVars, accountVars
<1>21. CASE Finalize(q)
    BY <1>21 DEF Finalize, Goto, Release, answerVars, accountVars
<1>22. CASE CloseUpstream(q)
    BY <1>22 DEF CloseUpstream, Outside, answerVars, accountVars
<1>23. CASE OnClose(q)
    BY <1>23 DEF OnClose, Goto, _record_completion, Outside, accountVars
<1>24. CASE OnCloseCancelled(q)
    BY <1>24
    DEF OnCloseCancelled, Goto, _record_completion, CountRequest,
        ChargeTokens, IfCancelled, Outside
<1>25. CASE LeaveWhileRecording(q)
    BY <1>25
    DEF LeaveWhileRecording, Goto, CountRequest, ChargeTokens,
        IfCancelled, Outside, answerVars
<1>26. CASE RecordUsage(q)
    BY <1>26
    DEF RecordUsage, Goto, CountRequest, RedisFails, IfRetried, Outside,
        answerVars
<1>27. CASE RecordBudget(q)
    BY <1>27
    DEF RecordBudget, Goto, ChargeTokens, RedisFails, IfRetried, Outside,
        answerVars
<1>28. CASE Check(q)
    BY <1>28 DEF Check, Goto, Answer, _record_completion, Outside, accountVars
<1>29. CASE LogFails(q)
    BY <1>29
    DEF LogFails, Goto, RaiseError, Answer, _record_completion, Release
<1> QED
    BY <1>1, <1>2, <1>3, <1>4, <1>5, <1>6, <1>7, <1>8, <1>9, <1>10, <1>11,
       <1>12, <1>13, <1>14, <1>15, <1>16, <1>17, <1>18, <1>19, <1>20, <1>21,
       <1>22, <1>23, <1>24, <1>25, <1>26, <1>27, <1>28, <1>29
    DEF RequestNext

LEMMA AnswerStep ==
    ASSUME TypeOK, NEW q \in Requests, RequestNext(q), AnswerInv(q)
    PROVE  AnswerInv(q)'
<1> USE DEF AnswerInv, TypeOK, BeforeAnswer, Streaming, Recording, Kinds
<1>1. CASE Refuse(q)
    BY <1>1 DEF Refuse, Goto, Answer, Outside, accountVars
<1>2. CASE Admit(q)
    <2>1. PICK k \in Asks[q] : kind' = [kind EXCEPT ![q] = k]
        BY <1>2 DEF Admit
    <2>2. k \in Kinds
        BY <2>1, AsksAssumption DEF AsksAssumption
    <2> QED
        BY <1>2, <2>1, <2>2 DEF Admit, Goto, Outside, answerVars, accountVars
<1>3. CASE RouteRejects(q)
    BY <1>3
    DEF RouteRejects, Goto, RaiseError, Answer, _record_completion,
        Outside, accountVars
<1>4. CASE EnterSlot(q)
    BY <1>4
    DEF EnterSlot, Goto, AcquireFree, StartCall, answerVars, accountVars
<1>5. CASE Queue(q)
    BY <1>5 DEF Queue, Goto, AcquireQueued, answerVars, accountVars
<1>6. CASE LeaveQueue(q)
    BY <1>6
    DEF LeaveQueue, Goto, AcquireWoken, StartCall, answerVars, accountVars
<1>7. CASE CancelQueued(q)
    BY <1>7 DEF CancelQueued, Goto, AcquireCancelled, answerVars, accountVars
<1>8. CASE CancelCall(q)
    BY <1>8 DEF CancelCall, Goto, Release, answerVars, accountVars
<1>9. CASE CallFails(q)
    BY <1>9
    DEF CallFails, NothingReceived, Goto, RaiseError, Answer,
        _record_completion, Release, accountVars
<1>10. CASE FallThrough(q)
    BY <1>10 DEF FallThrough, Goto, Release, answerVars, accountVars
<1>11. CASE CallAnswers(q)
    BY <1>11 DEF CallAnswers, Goto, Release, answerVars, accountVars
<1>12. CASE FirstChunk(q)
    BY <1>12 DEF FirstChunk, Goto, Answer, Outside, accountVars
<1>13. CASE UsageChunk(q)
    BY <1>13 DEF UsageChunk, Outside, answerVars, accountVars
<1>14. CASE UpstreamEnds(q)
    BY <1>14 DEF UpstreamEnds, Outside, answerVars, accountVars
<1>15. CASE ReleaseBuffer(q)
    BY <1>15 DEF ReleaseBuffer, Goto, Answer, Outside, accountVars
<1>16. CASE NextChunk(q)
    BY <1>16 DEF NextChunk, Goto, Outside, answerVars, accountVars
<1>17. CASE Chunk(q)
    BY <1>17 DEF Chunk, Goto, Outside, answerVars, accountVars
<1>18. CASE StreamEnds(q)
    BY <1>18 DEF StreamEnds, Goto, Release, answerVars, accountVars
<1>19. CASE LeaveWhileReading(q)
    BY <1>19 DEF LeaveWhileReading, Goto, Release, answerVars, accountVars
<1>20. CASE LeaveWhileSending(q)
    BY <1>20 DEF LeaveWhileSending, Goto, Outside, answerVars, accountVars
<1>21. CASE Finalize(q)
    BY <1>21 DEF Finalize, Goto, Release, answerVars, accountVars
<1>22. CASE CloseUpstream(q)
    BY <1>22 DEF CloseUpstream, Outside, answerVars, accountVars
<1>23. CASE OnClose(q)
    BY <1>23 DEF OnClose, Goto, _record_completion, Outside, accountVars
<1>24. CASE OnCloseCancelled(q)
    BY <1>24
    DEF OnCloseCancelled, Goto, _record_completion, CountRequest,
        ChargeTokens, IfCancelled, Outside
<1>25. CASE LeaveWhileRecording(q)
    BY <1>25
    DEF LeaveWhileRecording, Goto, CountRequest, ChargeTokens,
        IfCancelled, Outside, answerVars
<1>26. CASE RecordUsage(q)
    BY <1>26
    DEF RecordUsage, Goto, CountRequest, RedisFails, IfRetried, Outside,
        answerVars
<1>27. CASE RecordBudget(q)
    BY <1>27
    DEF RecordBudget, Goto, ChargeTokens, RedisFails, IfRetried, Outside,
        answerVars
<1>28. CASE Check(q)
    BY <1>28 DEF Check, Goto, Answer, _record_completion, Outside, accountVars
<1>29. CASE LogFails(q)
    <2>1. /\ pc[q] = "calling" /\ pc'[q] = "done"
          /\ kind' = kind /\ kind[q] = "buffered"
          /\ counted[q] = <<>>
        BY <1>29 DEF LogFails, Goto
    <2>2. status'[q] = "error" /\ counted'[q] = <<"error">>
        BY <1>29, <2>1 DEF LogFails, RaiseError, Answer, _record_completion
    <2> QED  BY <2>1, <2>2
<1> QED
    BY <1>1, <1>2, <1>3, <1>4, <1>5, <1>6, <1>7, <1>8, <1>9, <1>10, <1>11,
       <1>12, <1>13, <1>14, <1>15, <1>16, <1>17, <1>18, <1>19, <1>20, <1>21,
       <1>22, <1>23, <1>24, <1>25, <1>26, <1>27, <1>28, <1>29
    DEF RequestNext

LEMMA AccountStep ==
    ASSUME TypeOK, NEW q \in Requests, RequestNext(q), CallInv(q), AnswerInv(q), AccountInv(q)
    PROVE  AccountInv(q)'
<1> USE DEF AccountInv, Answered, AnswerInv, TypeOK, BeforeAnswer, Streaming, Recording, Kinds
<1>1. CASE Refuse(q)
    BY <1>1 DEF Refuse, Goto, Answer, Outside, accountVars
<1>2. CASE Admit(q)
    BY <1>2 DEF Admit, Goto, Outside, answerVars, accountVars
<1>3. CASE RouteRejects(q)
    BY <1>3
    DEF RouteRejects, Goto, RaiseError, Answer, _record_completion,
        Outside, accountVars
<1>4. CASE EnterSlot(q)
    BY <1>4
    DEF EnterSlot, Goto, AcquireFree, StartCall, answerVars, accountVars
<1>5. CASE Queue(q)
    BY <1>5 DEF Queue, Goto, AcquireQueued, answerVars, accountVars
<1>6. CASE LeaveQueue(q)
    BY <1>6
    DEF LeaveQueue, Goto, AcquireWoken, StartCall, answerVars, accountVars
<1>7. CASE CancelQueued(q)
    BY <1>7 DEF CancelQueued, Goto, AcquireCancelled, answerVars, accountVars
<1>8. CASE CancelCall(q)
    BY <1>8 DEF CancelCall, Goto, Release, answerVars, accountVars
<1>9. CASE CallFails(q)
    BY <1>9
    DEF CallFails, NothingReceived, Goto, RaiseError, Answer,
        _record_completion, Release, accountVars
<1>10. CASE FallThrough(q)
    BY <1>10 DEF FallThrough, Goto, Release, answerVars, accountVars
<1>11. CASE CallAnswers(q)
    BY <1>11 DEF CallAnswers, Goto, Release, answerVars, accountVars
<1>12. CASE FirstChunk(q)
    BY <1>12 DEF FirstChunk, Goto, Answer, Outside, accountVars
<1>13. CASE UsageChunk(q)
    BY <1>13 DEF UsageChunk, Outside, answerVars, accountVars
<1>14. CASE UpstreamEnds(q)
    BY <1>14 DEF UpstreamEnds, Outside, answerVars, accountVars
<1>15. CASE ReleaseBuffer(q)
    BY <1>15 DEF ReleaseBuffer, Goto, Answer, Outside, accountVars
<1>16. CASE NextChunk(q)
    BY <1>16 DEF NextChunk, Goto, Outside, answerVars, accountVars
<1>17. CASE Chunk(q)
    BY <1>17 DEF Chunk, Goto, Outside, answerVars, accountVars
<1>18. CASE StreamEnds(q)
    BY <1>18 DEF StreamEnds, Goto, Release, answerVars, accountVars
<1>19. CASE LeaveWhileReading(q)
    BY <1>19 DEF LeaveWhileReading, Goto, Release, answerVars, accountVars
<1>20. CASE LeaveWhileSending(q)
    BY <1>20 DEF LeaveWhileSending, Goto, Outside, answerVars, accountVars
<1>21. CASE Finalize(q)
    BY <1>21 DEF Finalize, Goto, Release, answerVars, accountVars
<1>22. CASE CloseUpstream(q)
    BY <1>22 DEF CloseUpstream, CallInv, Outside, answerVars, accountVars
<1>23. CASE OnClose(q)
    BY <1>23 DEF OnClose, Goto, _record_completion, Outside, accountVars
<1>24. CASE OnCloseCancelled(q)
    <2>1. /\ pc[q] = "cancelled" /\ pc'[q] = "done"
          /\ UNCHANGED <<useRedis, kind, metered, left, status, disturbed>>
          /\ UNCHANGED <<answered, dropped>>
          /\ q \in answered /\ q \notin dropped
          /\ usage[q] = 0 /\ charged[q] = 0
          /\ status[q] = "200"
          /\ q \in left
        BY <1>24 DEF OnCloseCancelled, Goto, CallInv
    <2>2. CASE useRedis
        <3>1. usage'[q] \in {0, 1} /\ charged'[q] = 0
            BY <1>24, <2>1, <2>2 DEF OnCloseCancelled, CountRequest, IfCancelled
        <3> QED  BY <2>1, <2>2, <3>1
    <2>3. CASE ~useRedis
        <3>1. usage'[q] = 1 /\ charged'[q] = IF q \in metered THEN 1 ELSE 0
            BY <1>24, <2>1, <2>3 DEF OnCloseCancelled, CountRequest, ChargeTokens
        <3> QED  BY <2>1, <2>3, <3>1
    <2> QED  BY <2>2, <2>3
<1>25. CASE LeaveWhileRecording(q)
    BY <1>25
    DEF LeaveWhileRecording, Goto, CountRequest, ChargeTokens,
        IfCancelled, Outside, answerVars
<1>26. CASE RecordUsage(q)
    BY <1>26
    DEF RecordUsage, Goto, CountRequest, RedisFails, IfRetried, Outside,
        answerVars
<1>27. CASE RecordBudget(q)
    BY <1>27
    DEF RecordBudget, Goto, ChargeTokens, RedisFails, IfRetried, Outside,
        answerVars
<1>28. CASE Check(q)
    BY <1>28 DEF Check, Goto, Answer, _record_completion, Outside, accountVars
<1>29. CASE LogFails(q)
    BY <1>29
    DEF LogFails, Goto, RaiseError, Answer, _record_completion, Release
<1> QED
    BY <1>1, <1>2, <1>3, <1>4, <1>5, <1>6, <1>7, <1>8, <1>9, <1>10, <1>11,
       <1>12, <1>13, <1>14, <1>15, <1>16, <1>17, <1>18, <1>19, <1>20, <1>21,
       <1>22, <1>23, <1>24, <1>25, <1>26, <1>27, <1>28, <1>29
    DEF RequestNext

-----------------------------------------------------------------------------
(* Theorems *)

LEMMA ChatInit == Init => ChatInv
<1> SUFFICES ASSUME Init PROVE ChatInv
    OBVIOUS
<1>1. LimiterInv
    BY InitInv DEF Init
<1>2. TypeOK
    BY <1>1 DEF Init, TypeOK, LimiterInv
<1>3. ASSUME NEW q \in Requests PROVE RequestInv(q)
    <2>1. pc[q] = "new" /\ q \notin holders
        BY DEF Init, LimiterInit
    <2> QED
        BY <2>1 DEF Init, RequestInv, Held, CallInv, AnswerInv, AccountInv,
                    InSlot, Recording, BeforeAnswer, Streaming
<1> QED  BY <1>1, <1>2, <1>3 DEF ChatInv

LEMMA ChatStep == ChatInv /\ [Next]_vars => ChatInv'
<1> SUFFICES ASSUME ChatInv, [Next]_vars PROVE ChatInv'
    OBVIOUS
<1>1. ASSUME NEW q \in Requests, RequestNext(q) PROVE ChatInv'
    <2>1. LimiterInv'
        BY <1>1, ChatStepsLimiter, StepInv DEF ChatInv
    <2>2. TypeOK'
        BY <1>1, <2>1, TypeStep DEF ChatInv, LimiterInv
    <2>3. ASSUME NEW r \in Requests PROVE RequestInv(r)'
        <3>1. CASE r = q
            BY <1>1, <3>1, HeldStep, CallStep, AnswerStep, AccountStep
            DEF ChatInv, RequestInv
        <3>2. CASE r # q
            <4>1. /\ useRedis' = useRedis
                  /\ pc'[r] = pc[r] /\ kind'[r] = kind[r]
                  /\ status'[r] = status[r] /\ counted'[r] = counted[r]
                  /\ usage'[r] = usage[r] /\ charged'[r] = charged[r]
                  /\ r \in holders' <=> r \in holders
                  /\ r \in open' <=> r \in open
                  /\ r \in metered' <=> r \in metered
                  /\ r \in left' <=> r \in left
                  /\ r \in disturbed' <=> r \in disturbed
                  /\ r \in answered' <=> r \in answered
                  /\ r \in dropped' <=> r \in dropped
                BY <1>1, <3>2, OthersUndisturbed DEF ChatInv
            <4>2. RequestInv(r)
                BY DEF ChatInv
            <4>3. Held(r)' /\ CallInv(r)'
                BY <4>1, <4>2 DEF RequestInv, Held, CallInv
            <4>4. AnswerInv(r)'
                BY <4>1, <4>2 DEF RequestInv, AnswerInv
            <4>5. AccountInv(r)'
                BY <4>1, <4>2 DEF RequestInv, AccountInv, Answered
            <4> QED  BY <4>3, <4>4, <4>5 DEF RequestInv
        <3> QED  BY <3>1, <3>2
    <2> QED  BY <2>1, <2>2, <2>3 DEF ChatInv
<1>2. CASE UNCHANGED vars
    <2> USE <1>2 DEF vars, limiterVars, chatVars, answerVars, accountVars
    <2>1. LimiterInv'
        BY StepInv DEF ChatInv
    <2>2. TypeOK'
        BY <2>1 DEF ChatInv, LimiterInv, TypeOK
    <2>3. ASSUME NEW r \in Requests PROVE RequestInv(r)'
        <3>1. RequestInv(r)
            BY DEF ChatInv
        <3> QED
            BY <3>1 DEF RequestInv, Held, CallInv, AnswerInv, AccountInv, Answered
    <2> QED  BY <2>1, <2>2, <2>3 DEF ChatInv
<1> QED  BY <1>1, <1>2 DEF Next

THEOREM ChatInvariant == Spec => []ChatInv
BY ChatInit, ChatStep, PTL DEF Spec

\* The state of the requests and of the limiter is what its types say.
THEOREM ChatTypeCorrect == Spec => []TypeOK
<1>1. ChatInv => TypeOK
    BY DEF ChatInv
<1> QED  BY <1>1, ChatInvariant, PTL

\* Requests use the limiter as it is meant to be used: what is proved of it
\* holds of them.
THEOREM ChatImplementsLimiter == Spec => LimiterSpec
<1>1. Init => LimiterInit
    BY DEF Init
<1>2. [Next]_vars => [LimiterNext]_limiterVars
    BY ChatStepsLimiter DEF Next, vars, limiterVars
<1> QED  BY <1>1, <1>2, PTL DEF Spec, LimiterSpec

\* A slot is held by exactly the requests that are being served.
THEOREM ChatHoldsWhileServed == Spec => []HeldWhileServed
<1>1. ChatInv => HeldWhileServed
    BY DEF ChatInv, RequestInv, Held, HeldWhileServed, TypeOK, LimiterTypeOK
<1> QED  BY <1>1, ChatInvariant, PTL

\* A call to the model is under way only in a slot, or for a client that left.
THEOREM ChatCallsInSlots == Spec => []CallsInSlots
<1>1. ChatInv => CallsInSlots
    BY DEF ChatInv, RequestInv, Held, CallInv, CallsInSlots, TypeOK
<1> QED  BY <1>1, ChatInvariant, PTL

\* Every admitted request is counted once, under the status it was answered.
THEOREM ChatCountsAsAnswered == Spec => []CountedAsAnswered
<1>1. ChatInv => CountedAsAnswered
    BY DEF ChatInv, RequestInv, AnswerInv, CountedAsAnswered
<1> QED  BY <1>1, ChatInvariant, PTL

\* Every answer that the gateway has is accounted for once, but for one that
\* was read into a buffer and never became a response, and unless Redis fails
\* or the client leaves.
THEOREM ChatAccountsOnce == Spec => []AccountedOnce
<1>1. ASSUME ChatInv, NEW q \in Requests \ disturbed
      PROVE  /\ usage[q] <= 1 /\ charged[q] <= 1
             /\ pc[q] = "done" /\ ~(useRedis /\ q \in left) =>
                   /\ usage[q] = IF Answered(q) THEN 1 ELSE 0
                   /\ charged[q] = IF Answered(q) /\ q \in metered THEN 1 ELSE 0
    <2>1. AccountInv(q) /\ q \notin disturbed
        BY <1>1 DEF ChatInv, RequestInv
    <2>2. pc[q] \in BeforeAnswer \cup Streaming
                     \cup {"recordUsage", "recordBudget", "checking", "done"}
        BY <1>1 DEF ChatInv, TypeOK, InSlot, Closing, Recording, BeforeAnswer, Streaming
    <2> QED  BY <2>1, <2>2 DEF AccountInv
<1>2. ASSUME ChatInv, NEW q \in dropped
      PROVE  kind[q] = "buffered" /\ status[q] # "200"
    <2>1. AccountInv(q)
        BY <1>2 DEF ChatInv, RequestInv, TypeOK
    <2> QED  BY <1>2, <2>1 DEF AccountInv
<1>3. ChatInv => AccountedOnce
    BY <1>1, <1>2 DEF AccountedOnce, Answered
<1> QED  BY <1>3, ChatInvariant, PTL

=============================================================================
