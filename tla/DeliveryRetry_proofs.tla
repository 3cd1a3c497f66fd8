------------------------ MODULE DeliveryRetry_proofs -----------------------
(***************************************************************************)
(* The delivery layer for any notifications, delays and capacity.  The     *)
(* inductive invariant counts the sends of every notification against its  *)
(* failed attempts: GivenUpAfterRetries alone says nothing of one that is  *)
(* still to be retried.  A second one compares times, which OneProbe       *)
(* depends on.                                                             *)
(***************************************************************************)
EXTENDS DeliveryRetry, FiniteSetTheorems, TLAPS

Places == {"new", "pool", "heap", "work"} \cup Sending \cup Outcomes

Sent(p) == IF p \in Sending \cup {"sent"} THEN 1 ELSE 0

\* Every send ended in a failed attempt, a success, or is under way; only the
\* last failure takes a notification past its retries.
Accounts ==
    \A i \in Items :
        /\ sends[i] = attempt[i] + Sent(place[i])
        /\ place[i] = "failed" => attempt[i] = RetryMax + 1
        /\ place[i] # "failed" => attempt[i] <= RetryMax

Shape == /\ place \in [Items -> Places]
         /\ attempt \in [Items -> Nat] /\ sends \in [Items -> Nat]
         /\ half \in [Items -> BOOLEAN]

IInv == Shape /\ Accounts /\ ProbeUnderWay

LEMMA RetryMaxNat == RetryMax \in Nat /\ RetryMax >= 1
  BY ConstantsAssumption DEF ConstantsAssumption, RetryMax

LEMMA InitIInv == Init => IInv
  BY RetryMaxNat
  DEF Init, IInv, Shape, Accounts, ProbeUnderWay, Places, Sending, Outcomes, Sent

\* What scheduling a retry does to the places: the notification is in the heap,
\* and at most another one of the heap was evicted.
LEMMA ScheduleMoves ==
  ASSUME Shape, NEW i \in Items, NEW delay, ScheduleAt(i, delay)
  PROVE  \/ place' = [place EXCEPT ![i] = "heap"]
         \/ \E old \in Items : /\ place[old] = "heap"
                               /\ place' = [place EXCEPT ![i] = "heap", ![old] = "evicted"]
  BY DEF ScheduleAt, Heap

LEMMA NextIInv == IInv /\ [Next]_vars => IInv'
<1> SUFFICES ASSUME IInv, [Next]_vars PROVE IInv'
  OBVIOUS
<1> USE RetryMaxNat DEF IInv, Shape, Places, Sending, Outcomes
<1>1. CASE Tick
  BY <1>1 DEF Tick, Accounts, Sent, ProbeUnderWay, InFlight, breaker
<1>2. ASSUME NEW i \in Items, Submit(i) PROVE IInv'
  BY <1>2 DEF Submit, Accounts, Sent, ProbeUnderWay, InFlight, breaker
<1>3. ASSUME NEW i \in Items, TakeDue(i) PROVE IInv'
  BY <1>3 DEF TakeDue, Heap, Accounts, Sent, ProbeUnderWay, InFlight, breaker
<1>4. ASSUME NEW i \in Items, Expire(i) PROVE IInv'
  BY <1>4 DEF Expire, Attempting, Accounts, Sent, ProbeUnderWay, InFlight, breaker
<1>5. ASSUME NEW i \in Items, Defer(i) PROVE IInv'
  <2> DEFINE Kept == place' = [place EXCEPT ![i] = "heap"]
             Moved(old) == /\ place[old] = "heap"
                           /\ place' = [place EXCEPT ![i] = "heap", ![old] = "evicted"]
  <2>1. /\ UNCHANGED <<probing, attempt, half, sends>>
        /\ place[i] \in {"pool", "work"}
    BY <1>5 DEF Defer, Attempting, breaker
  <2>2. Kept \/ \E old \in Items : Moved(old)
    BY <1>5, ScheduleMoves DEF Defer
  <2>3. CASE Kept
    BY <2>1, <2>3 DEF Accounts, Sent, ProbeUnderWay, InFlight
  <2>4. ASSUME NEW old \in Items, Moved(old) PROVE IInv'
    <3>1. Shape'
      BY <2>1, <2>4
    <3>2. Accounts'
      BY <2>1, <2>4 DEF Accounts, Sent
    <3>3. ProbeUnderWay'
      BY <2>1, <2>4 DEF ProbeUnderWay, InFlight
    <3> QED BY <3>1, <3>2, <3>3
  <2> QED BY <2>2, <2>3, <2>4
<1>6. ASSUME NEW i \in Items, BeginSend(i) PROVE IInv'
  <2>1. Shape'
    BY <1>6 DEF BeginSend, IsOpen
  <2>2. Accounts'
    BY <1>6 DEF BeginSend, Attempting, Accounts, Sent
  <2>3. ProbeUnderWay'
    <3>1. CASE HalfOpen
      BY <1>6, <3>1 DEF BeginSend, HalfOpen, ProbeUnderWay, InFlight
    <3>2. CASE ~HalfOpen
      BY <1>6, <3>2 DEF BeginSend, Attempting, ProbeUnderWay, InFlight
    <3> QED BY <3>1, <3>2
  <2> QED BY <2>1, <2>2, <2>3
<1>7. ASSUME NEW i \in Items, SendSucceeds(i) PROVE IInv'
  BY <1>7 DEF SendSucceeds, EndSend, RecordSuccess, InFlight, Accounts, Sent, ProbeUnderWay
<1>8. ASSUME NEW i \in Items, SendFails(i) PROVE IInv'
  <2>1. /\ i \in InFlight /\ ~probing' /\ sends' = sends
        /\ half' = [half EXCEPT ![i] = FALSE]
        /\ attempt' = [attempt EXCEPT ![i] = attempt[i] + 1]
    BY <1>8 DEF SendFails, EndSend, RecordFailure
  <2>2. ProbeUnderWay'
    BY <2>1 DEF ProbeUnderWay
  <2>3. CASE RetriesLeft(attempt[i] + 1)
    <3> DEFINE Kept == place' = [place EXCEPT ![i] = "heap"]
               Moved(old) == /\ place[old] = "heap"
                             /\ place' = [place EXCEPT ![i] = "heap", ![old] = "evicted"]
    <3>1. Kept \/ \E old \in Items : Moved(old)
      BY <1>8, <2>3, ScheduleMoves DEF SendFails
    <3>2. CASE Kept
      BY <2>1, <2>2, <2>3, <3>2 DEF Accounts, Sent, InFlight, RetriesLeft
    <3>3. ASSUME NEW old \in Items, Moved(old) PROVE IInv'
      <4>1. old # i
        BY <2>1, <3>3 DEF InFlight
      <4> QED BY <2>1, <2>2, <2>3, <3>3, <4>1 DEF Accounts, Sent, InFlight, RetriesLeft
    <3> QED BY <3>1, <3>2, <3>3
  <2>4. CASE ~RetriesLeft(attempt[i] + 1)
    <3>1. place' = [place EXCEPT ![i] = "failed"]
      BY <1>8, <2>4 DEF SendFails
    <3> QED BY <2>1, <2>2, <2>4, <3>1 DEF Accounts, Sent, InFlight, RetriesLeft
  <2> QED BY <2>3, <2>4
<1>9. CASE UNCHANGED vars
  BY <1>9 DEF vars, breaker, Accounts, Sent, ProbeUnderWay, InFlight
<1> QED BY <1>1, <1>2, <1>3, <1>4, <1>5, <1>6, <1>7, <1>8, <1>9 DEF Next, Attempt

LEMMA Inductive == Spec => []IInv
  BY InitIInv, NextIInv, PTL DEF Spec

\* The breaker never waits for a probe that is not under way (record_success,
\* record_failure), whatever the delays.
THEOREM ProbeAlwaysUnderWay == Spec => []ProbeUnderWay
<1>1. IInv => ProbeUnderWay
  BY DEF IInv
<1> QED BY Inductive, <1>1, PTL

\* A notification counted as failed was sent once and then once for every
\* retry (_attempt), whatever the backoff, the capacity and the number of them.
THEOREM RetriesAllMade == Spec => []GivenUpAfterRetries
<1>1. IInv => GivenUpAfterRetries
  BY RetryMaxNat DEF IInv, Accounts, Shape, Sent, Sending, GivenUpAfterRetries
<1> QED BY Inductive, <1>1, PTL

-----------------------------------------------------------------------------
(* One probe at a time.  A send is over within SendTime, which is shorter  *)
(* than Cooldown: when a probe may begin, the sends from before the        *)
(* circuit opened have all ended, so that the probe is alone.              *)

InTime ==
    /\ opened <= now
    /\ \A i \in InFlight : began[i] <= now /\ now <= began[i] + SendTime

\* What is under way while the circuit is open began before it opened, or is
\* the probe, which nothing else is under way with.
BeforeOpened == IsOpen => \A i \in InFlight : half[i] \/ began[i] <= opened
Alone == \A i \in InFlight : half[i] => InFlight = {i} /\ probing /\ IsOpen

OneInv == TypeOK /\ InTime /\ BeforeOpened /\ Alone

LEMMA ConstantsAre ==
  /\ Threshold \in Nat /\ Cooldown \in Nat /\ SendTime \in Nat /\ Recheck \in Nat
  /\ MaxTime \in Nat /\ Threshold >= 1 /\ SendTime < Cooldown
  /\ \A n \in 1..RetryMax : Backoff[n] \in Nat
  BY ConstantsAssumption, RetryMaxNat DEF ConstantsAssumption, RetryMax

LEMMA InitOneInv == Init => OneInv
<1> SUFFICES ASSUME Init PROVE OneInv
  OBVIOUS
<1>1. InFlight = {}
  BY DEF Init, InFlight, Sending
<1>2. TypeOK
  <2>1. 0 \in Times /\ 0 \in 0..(RetryMax + 1)
    BY RetryMaxNat, ConstantsAre DEF Times
  <2> QED BY <2>1 DEF Init, TypeOK
<1>3. InTime /\ BeforeOpened /\ Alone
  BY <1>1 DEF Init, InTime, BeforeOpened, Alone
<1> QED BY <1>2, <1>3 DEF OneInv

\* Scheduling leaves the types, and whatever was under way before it still is,
\* but for the notification that is put into the heap.
LEMMA ScheduleKeeps ==
  ASSUME TypeOK, NEW i \in Items, NEW delay \in Nat, ScheduleAt(i, delay)
  PROVE  /\ place' \in [Items -> {"new", "pool", "heap", "work"} \cup Sending \cup Outcomes]
         /\ due' \in [Items -> Nat]
         /\ InFlight' = InFlight \ {i}
<1>1. now + delay \in Nat
  BY ConstantsAre DEF TypeOK, Times
<1>2. CASE Cardinality(Heap) < QueueCap
  BY <1>1, <1>2 DEF ScheduleAt, TypeOK, InFlight, Sending
<1>3. CASE ~(Cardinality(Heap) < QueueCap)
  <2>1. PICK old \in Heap :
            /\ place' = [place EXCEPT ![i] = "heap", ![old] = "evicted"]
            /\ due' = [due EXCEPT ![i] = now + delay, ![old] = 0]
    BY <1>3 DEF ScheduleAt
  <2>2. old \in Items /\ place[old] = "heap"
    BY <2>1 DEF Heap
  <2> QED BY <1>1, <2>1, <2>2 DEF TypeOK, InFlight, Sending, Outcomes
<1> QED BY <1>2, <1>3

LEMMA NextOneInv == OneInv /\ IInv /\ [Next]_vars => OneInv'
<1> SUFFICES ASSUME OneInv, IInv, [Next]_vars PROVE OneInv'
  OBVIOUS
<1> USE ConstantsAre, RetryMaxNat DEF OneInv
<1>1. CASE Tick
  <2>1. UNCHANGED InFlight
    BY <1>1 DEF Tick, InFlight
  <2>2. TypeOK'
    BY <1>1 DEF Tick, TypeOK, Times, breaker
  <2> QED BY <1>1, <2>1, <2>2
          DEF Tick, TypeOK, Times, InTime, BeforeOpened, Alone, IsOpen, InFlight, breaker
<1>2. ASSUME NEW i \in Items, Submit(i) PROVE OneInv'
  <2>1. UNCHANGED InFlight
    BY <1>2 DEF Submit, InFlight, TypeOK, Sending
  <2>2. TypeOK'
    BY <1>2 DEF Submit, TypeOK, breaker
  <2> QED BY <1>2, <2>1, <2>2 DEF Submit, InTime, BeforeOpened, Alone, IsOpen, breaker
<1>3. ASSUME NEW i \in Items, TakeDue(i) PROVE OneInv'
  <2>1. UNCHANGED InFlight
    BY <1>3 DEF TakeDue, Heap, InFlight, TypeOK, Sending
  <2>2. TypeOK'
    BY <1>3 DEF TakeDue, TypeOK, breaker
  <2> QED BY <1>3, <2>1, <2>2 DEF TakeDue, InTime, BeforeOpened, Alone, IsOpen, breaker
<1>4. ASSUME NEW i \in Items, Expire(i) PROVE OneInv'
  <2>1. UNCHANGED InFlight
    BY <1>4 DEF Expire, Attempting, InFlight, TypeOK, Sending
  <2>2. TypeOK'
    BY <1>4 DEF Expire, TypeOK, Outcomes, breaker
  <2> QED BY <1>4, <2>1, <2>2 DEF Expire, InTime, BeforeOpened, Alone, IsOpen, breaker
<1>5. ASSUME NEW i \in Items, Defer(i) PROVE OneInv'
  <2>1. i \notin InFlight
    BY <1>5 DEF Defer, Attempting, InFlight, Sending
  <2>2. UNCHANGED InFlight
    BY <1>5, <2>1, ScheduleKeeps DEF Defer
  <2>3. TypeOK'
    BY <1>5, ScheduleKeeps DEF Defer, TypeOK, breaker
  <2> QED BY <1>5, <2>2, <2>3 DEF Defer, InTime, BeforeOpened, Alone, IsOpen, breaker
<1>6. ASSUME NEW i \in Items, BeginSend(i) PROVE OneInv'
  <2>1. /\ i \notin InFlight /\ InFlight' = InFlight \cup {i}
        /\ began' = [began EXCEPT ![i] = now] /\ half' = [half EXCEPT ![i] = IsOpen]
        /\ probing' = (probing \/ HalfOpen) /\ Allowed
        /\ UNCHANGED <<now, fails, opened>>
    BY <1>6 DEF BeginSend, Attempting, InFlight, TypeOK, Sending
  <2>2. TypeOK'
    <3>1. sends[i] = attempt[i] /\ attempt[i] <= RetryMax
      BY <1>6 DEF BeginSend, Attempting, IInv, Shape, Accounts, Sent, Sending
    <3>2. half' \in [Items -> BOOLEAN] /\ probing' \in BOOLEAN
      BY <2>1 DEF TypeOK, IsOpen, HalfOpen
    <3> QED BY <1>6, <3>1, <3>2 DEF BeginSend, TypeOK, Sending
  <2>3. InTime'
    BY <2>1 DEF InTime, InFlight, TypeOK, Times
  <2>4. CASE ~IsOpen
    BY <2>1, <2>2, <2>3, <2>4 DEF BeforeOpened, Alone, IsOpen, InFlight, TypeOK
  <2>5. CASE HalfOpen
    <3>1. InFlight = {}
      BY <2>5 DEF HalfOpen, InTime, BeforeOpened, Alone, TypeOK, Times, InFlight
    <3> QED BY <2>1, <2>2, <2>3, <2>5, <3>1
            DEF HalfOpen, BeforeOpened, Alone, IsOpen, TypeOK
  <2> QED BY <2>1, <2>4, <2>5 DEF Allowed
<1>7. ASSUME NEW i \in Items, SendSucceeds(i) PROVE OneInv'
  <2>1. InFlight' = InFlight \ {i} /\ ~IsOpen' /\ opened' = 0 /\ i \in InFlight
    BY <1>7 DEF SendSucceeds, EndSend, RecordSuccess, IsOpen, InFlight, TypeOK, Sending
  <2>2. TypeOK'
    <3>1. 0 \in Times
      BY DEF Times
    <3> QED BY <1>7, <3>1 DEF SendSucceeds, EndSend, RecordSuccess, TypeOK, Outcomes
  <2> QED BY <1>7, <2>1, <2>2
          DEF SendSucceeds, EndSend, InTime, BeforeOpened, Alone, TypeOK, Times, InFlight
<1>8. ASSUME NEW i \in Items, SendFails(i) PROVE OneInv'
  <2>1. /\ i \in InFlight /\ fails' = fails + 1 /\ probing' = FALSE
        /\ opened' = IF fails + 1 >= Threshold THEN now ELSE opened
        /\ began' = [began EXCEPT ![i] = 0] /\ half' = [half EXCEPT ![i] = FALSE]
        /\ attempt' = [attempt EXCEPT ![i] = attempt[i] + 1]
        /\ UNCHANGED <<now, created, sends>>
    BY <1>8 DEF SendFails, EndSend, RecordFailure
  <2>2. attempt[i] <= RetryMax /\ attempt[i] \in Nat
    BY <2>1 DEF IInv, Shape, Accounts, InFlight, Sending
  <2>3. /\ place' \in [Items -> {"new", "pool", "heap", "work"} \cup Sending \cup Outcomes]
        /\ due' \in [Items -> Nat]
        /\ InFlight' = InFlight \ {i}
    <3>1. CASE RetriesLeft(attempt[i] + 1)
      <4>1. Backoff[attempt[i] + 1] \in Nat
        BY <2>2, <3>1 DEF RetriesLeft
      <4> QED BY <1>8, <3>1, <4>1, ScheduleKeeps DEF SendFails
    <3>2. CASE ~RetriesLeft(attempt[i] + 1)
      BY <1>8, <3>2 DEF SendFails, TypeOK, InFlight, Outcomes, Sending
    <3> QED BY <3>1, <3>2
  <2>4. TypeOK'
    <3>1. 0 \in Times /\ attempt[i] + 1 \in 0..(RetryMax + 1)
      BY <2>2 DEF Times
    <3>2. /\ began' \in [Items -> Times] /\ half' \in [Items -> BOOLEAN]
          /\ attempt' \in [Items -> 0..(RetryMax + 1)]
      BY <2>1, <3>1 DEF TypeOK
    <3>3. fails' \in Nat /\ opened' \in Times
      BY <2>1 DEF TypeOK
    <3>4. probing' \in BOOLEAN
      BY <2>1
    <3> QED BY <2>1, <2>3, <3>2, <3>3, <3>4 DEF TypeOK
  <2>5. InTime'
    BY <2>1, <2>3 DEF InTime, TypeOK, Times, InFlight
  <2>6. BeforeOpened'
    BY <2>1, <2>3 DEF BeforeOpened, InTime, TypeOK, Times, InFlight, IsOpen
  <2>7. Alone'
    BY <2>1, <2>3 DEF Alone, TypeOK, InFlight
  <2> QED BY <2>4, <2>5, <2>6, <2>7
<1>9. CASE UNCHANGED vars
  BY <1>9 DEF vars, breaker, TypeOK, InTime, BeforeOpened, Alone, InFlight, IsOpen
<1> QED BY <1>1, <1>2, <1>3, <1>4, <1>5, <1>6, <1>7, <1>8, <1>9 DEF Next, Attempt

LEMMA OneInvAlways == Spec => []OneInv
  BY Inductive, InitOneInv, NextOneInv, PTL DEF Spec

\* The state of the delivery layer is of its type: no retry is scheduled past
\* the table of delays.
THEOREM DeliveryTypes == Spec => []TypeOK
<1>1. OneInv => TypeOK
  BY DEF OneInv
<1> QED BY OneInvAlways, <1>1, PTL

\* A half-open circuit lets a single attempt through, however late the sends
\* from before it opened end ("half-open: exactly one probe attempt").
THEOREM OneProbeAlways == Spec => []OneProbe
<1>1. OneInv => OneProbe
  <2> SUFFICES ASSUME OneInv PROVE OneProbe
    OBVIOUS
  <2> DEFINE Halves == {i \in InFlight : half[i]}
  <2>1. CASE Halves = {}
    BY <2>1, FS_EmptySet DEF OneProbe
  <2>2. CASE Halves # {}
    <3>1. PICK i \in Items : Halves = {i}
      BY <2>2 DEF OneInv, Alone, InFlight
    <3>2. Cardinality(Halves) = 1
      BY <3>1, FS_Singleton
    <3> QED BY <3>2 DEF OneProbe
  <2> QED BY <2>1, <2>2
<1> QED BY OneInvAlways, <1>1, PTL
=============================================================================
