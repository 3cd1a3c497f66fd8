--------------------------- MODULE DeliveryRetry ---------------------------
(***************************************************************************)
(* The delivery layer of notifications (monitoring/delivery_retry.py): the *)
(* first attempt of each runs on the dispatch pool, the retries on one     *)
(* worker thread that takes them from a bounded heap when they fall due,   *)
(* and the circuit breaker of the destination decides whether an attempt   *)
(* may send at all.                                                        *)
(*                                                                         *)
(* One destination.  Time is a bounded clock of ticks; a send lasts up to  *)
(* SendTime of them and may succeed or fail, and several are under way at  *)
(* once.                                                                   *)
(***************************************************************************)
EXTENDS Integers, Sequences, FiniteSets

CONSTANTS Items,      \* notifications
          Threshold,  \* _BRK_THRESHOLD
          Cooldown,   \* _BRK_COOLDOWN_S
          Recheck,    \* _BRK_RECHECK_S
          Backoff,    \* _BACKOFF_S
          MaxAge,     \* _MAX_ITEM_AGE_S
          QueueCap,   \* _QUEUE_CAP
          SendTime,   \* bound: the time-outs of a send
          SubmitBy,   \* bound: no notification is submitted later
          MaxTime     \* bound: the clock stops here

ASSUME ConstantsAssumption ==
    /\ IsFiniteSet(Items) /\ Items # {}
    /\ {Threshold, Cooldown, Recheck, QueueCap, SendTime, MaxTime} \subseteq Nat \ {0}
    /\ {MaxAge, SubmitBy} \subseteq Nat
    /\ Backoff \in Seq(Nat \ {0}) /\ Backoff # <<>>
    /\ SendTime < Cooldown   \* 10 s for a webhook, against 600 s

RetryMax == Len(Backoff)
Times == 0..MaxTime
Outcomes == {"sent", "failed", "expired", "evicted"}

VARIABLES
    now,
    fails, opened, probing,   \* the breaker
    place,     \* where each notification is
    attempt,   \* failed attempts so far
    created,   \* created_ts
    due,       \* its entry in _retry_heap
    began,     \* when its send began
    half,      \* observed: that send began while the circuit was open
    sends      \* observed: sends begun

breaker == <<fails, opened, probing>>
vars == <<now, breaker, place, attempt, created, due, began, half, sends>>

Sending == {"poolsend", "worksend"}

TypeOK ==
    /\ now \in Times
    /\ fails \in Nat /\ opened \in Times /\ probing \in BOOLEAN
    /\ place \in [Items -> {"new", "pool", "heap", "work"} \cup Sending \cup Outcomes]
    /\ attempt \in [Items -> 0..(RetryMax + 1)]
    /\ created \in [Items -> Times] /\ began \in [Items -> Times]
    /\ due \in [Items -> Nat]
    /\ half \in [Items -> BOOLEAN]
    /\ sends \in [Items -> 0..(RetryMax + 1)]

Init ==
    /\ now = 0
    /\ fails = 0 /\ opened = 0 /\ probing = FALSE
    /\ place = [i \in Items |-> "new"]
    /\ attempt = [i \in Items |-> 0]
    /\ created = [i \in Items |-> 0] /\ due = [i \in Items |-> 0]
    /\ began = [i \in Items |-> 0]
    /\ half = [i \in Items |-> FALSE] /\ sends = [i \in Items |-> 0]

InFlight == {i \in Items : place[i] \in Sending}
Heap     == {i \in Items : place[i] = "heap"}

\* A send runs into its time-out.
Tick ==
    /\ now < MaxTime
    /\ \A i \in InFlight : now < began[i] + SendTime
    /\ now' = now + 1
    /\ UNCHANGED <<breaker, place, attempt, created, due, began, half, sends>>

-----------------------------------------------------------------------------
(* The breaker.                                                            *)

IsOpen == fails >= Threshold

\* A bug: a probe under way does not keep the next one out.
HalfOpenAlways == IsOpen /\ now - opened >= Cooldown

HalfOpen == IsOpen /\ now - opened >= Cooldown /\ ~probing

Allowed == ~IsOpen \/ HalfOpen

\* A bug: a success makes up for one failure only.
RecordSuccessOne == fails' = fails - 1 /\ opened' = 0 /\ probing' = FALSE

RecordSuccess == fails' = 0 /\ opened' = 0 /\ probing' = FALSE

\* A bug: the failure of the probe does not give way to the next one.
RecordFailureKeepsProbing ==
    /\ fails' = fails + 1
    /\ opened' = IF fails + 1 >= Threshold THEN now ELSE opened
    /\ UNCHANGED probing

RecordFailure ==
    /\ fails' = fails + 1
    /\ opened' = IF fails + 1 >= Threshold THEN now ELSE opened
    /\ probing' = FALSE

-----------------------------------------------------------------------------
(* An attempt: on the pool first, then on the worker.                      *)

\* submit_delivery
Submit(i) ==
    /\ place[i] = "new" /\ now <= SubmitBy
    /\ place' = [place EXCEPT ![i] = "pool"]
    /\ created' = [created EXCEPT ![i] = now]
    /\ UNCHANGED <<now, breaker, attempt, due, began, half, sends>>

\* The worker takes the entry that falls due first, when nothing else keeps it.
TakeDue(i) ==
    /\ \A j \in Items : place[j] \notin {"work", "worksend"}
    /\ i \in Heap /\ due[i] <= now
    /\ \A j \in Heap : due[i] <= due[j]
    /\ place' = [place EXCEPT ![i] = "work"]
    /\ due' = [due EXCEPT ![i] = 0]
    /\ UNCHANGED <<now, breaker, attempt, created, began, half, sends>>

\* _schedule_at: a full heap drops the entry created first.
ScheduleAt(i, delay) ==
    IF Cardinality(Heap) < QueueCap
    THEN /\ place' = [place EXCEPT ![i] = "heap"]
         /\ due' = [due EXCEPT ![i] = now + delay]
    ELSE \E old \in Heap :
            /\ \A j \in Heap : created[old] <= created[j]
            /\ place' = [place EXCEPT ![i] = "heap", ![old] = "evicted"]
            /\ due' = [due EXCEPT ![i] = now + delay, ![old] = 0]

Attempting(i) == place[i] \in {"pool", "work"}

\* A bug: the age is not looked at.
TooOldNever(i) == FALSE

TooOld(i) == now - created[i] > MaxAge

Expire(i) ==
    /\ Attempting(i) /\ TooOld(i)
    /\ place' = [place EXCEPT ![i] = "expired"]
    /\ UNCHANGED <<now, breaker, attempt, created, due, began, half, sends>>

\* An open circuit puts the attempt off and does not count it.
Defer(i) ==
    /\ Attempting(i) /\ ~TooOld(i) /\ ~Allowed
    /\ ScheduleAt(i, Recheck)
    /\ UNCHANGED <<now, breaker, attempt, created, began, half, sends>>

BeginSend(i) ==
    /\ Attempting(i) /\ ~TooOld(i) /\ Allowed
    /\ probing' = (probing \/ HalfOpen)
    /\ place' = [place EXCEPT ![i] = IF @ = "pool" THEN "poolsend" ELSE "worksend"]
    /\ began' = [began EXCEPT ![i] = now]
    /\ half' = [half EXCEPT ![i] = IsOpen]
    /\ sends' = [sends EXCEPT ![i] = @ + 1]
    /\ UNCHANGED <<now, fails, opened, attempt, created, due>>

EndSend(i) == /\ i \in InFlight
              /\ began' = [began EXCEPT ![i] = 0] /\ half' = [half EXCEPT ![i] = FALSE]

SendSucceeds(i) ==
    /\ EndSend(i)
    /\ RecordSuccess
    /\ place' = [place EXCEPT ![i] = "sent"]
    /\ UNCHANGED <<now, attempt, created, due, sends>>

\* A bug: one retry too few.
RetriesLeftStrict(n) == n < RetryMax

RetriesLeft(n) == n <= RetryMax

SendFails(i) ==
    /\ EndSend(i)
    /\ RecordFailure
    /\ attempt' = [attempt EXCEPT ![i] = @ + 1]
    /\ IF RetriesLeft(attempt[i] + 1) THEN ScheduleAt(i, Backoff[attempt[i] + 1])
       ELSE place' = [place EXCEPT ![i] = "failed"] /\ UNCHANGED due
    /\ UNCHANGED <<now, created, sends>>

Attempt(i) == Expire(i) \/ Defer(i) \/ BeginSend(i)

Next ==
    \/ Tick
    \/ \E i \in Items : \/ Submit(i) \/ TakeDue(i) \/ Attempt(i)
                        \/ SendSucceeds(i) \/ SendFails(i)

Spec == Init /\ [][Next]_vars

\* Time passes, the pool and the worker run, and every send ends by its
\* time-out at the latest.
Fairness ==
    /\ WF_vars(Tick)
    /\ \A i \in Items : /\ WF_vars(Attempt(i))
                        /\ WF_vars(SendSucceeds(i) \/ SendFails(i))
    /\ WF_vars(\E i \in Items : TakeDue(i))

FairSpec == Spec /\ Fairness

-----------------------------------------------------------------------------
(* Properties.                                                             *)

\* A circuit that waits for its probe has one under way: none of the ways an
\* attempt can end leaves the breaker shut for ever (record_success,
\* record_failure, and the age check made before the breaker is asked).
ProbeUnderWay == probing => \E i \in InFlight : half[i]

\* However late the sends begun before the circuit opened fail or succeed, a
\* single send begun while it was open is under way at a time ("half-open:
\* exactly one probe attempt").
OneProbe == Cardinality({i \in InFlight : half[i]}) <= 1

\* A notification is given up as failed after the first send and every retry
\* were really made, so that deferrals cost it nothing ("defer without
\* consuming a retry attempt").
GivenUpAfterRetries ==
    \A i \in Items : place[i] = "failed" => sends[i] = RetryMax + 1

\* Every notification handed over is sent or given up in the end, however the
\* destination behaves: none waits in the heap, or on a breaker, for ever.
Settles == <>[](\A i \in Items : place[i] \in Outcomes \cup {"new"})
=============================================================================
