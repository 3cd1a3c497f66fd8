-------------------------- MODULE OrderlyStop_proofs --------------------------
(***************************************************************************)
(* The orderly stop for any sensors, saves and failed writes: what ran     *)
(* runs again, and what was taken in before the drain was over is kept.    *)
(* Neither is inductive: the queues must hold, ahead of their sentinels,   *)
(* whatever has not reached the tables yet.                                *)
(***************************************************************************)
EXTENDS OrderlyStop, TLAPS

FromSaved    == {"saved", "flushed", "flagged", "sentinel", "joined", "exited"}
FromGated    == {"gated", "restored"} \cup FromSaved
FromDrained  == {"drained"} \cup FromGated
FromDraining == {"draining"} \cup FromDrained
FromFlagged  == {"flagged", "sentinel", "joined", "exited"}

\* The sensors are stopped until main restores what is to run, and once that is
\* saved nothing else is, unless a save was under way.
Switches ==
    /\ step \in {"stopped", "draining", "drained", "gated"} => running = [s \in Sensors |-> FALSE]
    /\ step \in {"restored"} \cup FromSaved => running = intent
    /\ step \in FromSaved /\ "save" \notin excused => saved = intent /\ dump \in {NoDump, intent}

\* After the drain no worker that was waited for takes in another result.
Drained ==
    /\ step \notin FromDrained => stuck = {}
    /\ \A s \in Local \ stuck :
          step \in FromDrained =>
              work[s] \in {"idle", "done", "dropped"} \cup (IF step = "drained" THEN {} ELSE {"probing"})

\* Results that were taken in before the drain was over.
Early(s) == step \notin FromDrained \/ s \in Local \ stuck

\* An event is in the table, or in the queue ahead of the sentinel.
Ahead(s) ==
    \E i \in 1..Len(rowQueue) :
        rowQueue[i] = s /\ \A j \in 1..(i - 1) : rowQueue[j] # "stop"
RowsKept ==
    /\ step \notin {"sentinel", "joined", "exited"} =>
          "main" \notin ended /\ \A i \in 1..Len(rowQueue) : rowQueue[i] # "stop"
    /\ \A s \in Sensors :
          work[s] \in {"sample", "alert", "done"} /\ Early(s) =>
              s \in rows \/ ("main" \notin ended /\ Ahead(s))

\* A sample that is not in the table is in a buffer or a batch; after the last
\* flush only a failed write brings one back into the buffer.
Held == (UNION ToSet(logQueue)) \cup flushing.of \cup samples \cup failed
SamplesKept ==
    \A s \in Sensors :
        /\ work[s] \in {"alert", "done"} => s \in Held \cup buffer
        /\ work[s] = "done" /\ s \in Local \ stuck /\ step \in {"flushed"} \cup FromFlagged =>
              s \in Held

\* A notification is in one place.
SentOnce ==
    \A s \in Sensors :
        /\ work[s] # "done" => s \notin queued \cup sending /\ sent[s] = 0
        /\ work[s] = "done" =>
              \/ s \in queued \ sending /\ sent[s] = 0
              \/ s \in sending \ queued /\ sent[s] = 0
              \/ s \notin queued \cup sending /\ sent[s] = 1
        /\ step = "exited" => s \notin queued

Joined == step \in {"joined", "exited"} /\ "join" \notin excused => ended = {"main", "logs"}

IInv == TypeOK /\ Switches /\ Drained /\ RowsKept /\ SamplesKept /\ SentOnce /\ Joined

USE DEF FromDraining, FromDrained, FromGated, FromSaved, FromFlagged, MainStep, Alive, Goes,
        results, writing, batcher, bounds

LEMMA StepsAre ==
  ToSet(Steps) = {"serving", "stopped", "draining", "drained", "gated", "restored"} \cup FromSaved
<1>1. DOMAIN Steps = 1..12 BY DEF Steps
<1> QED BY <1>1 DEF Steps, ToSet

LEMMA PastIs ==
  ASSUME step \in ToSet(Steps)
  PROVE  /\ Past("draining") <=> step \in FromDraining
         /\ Past("drained") <=> step \in FromDrained
         /\ Past("gated") <=> step \in FromGated
         /\ Past("saved") <=> step \in FromSaved
         /\ Past("flagged") <=> step \in FromFlagged
<1>1. DOMAIN Steps = 1..12 BY DEF Steps
<1> QED BY <1>1, StepsAre DEF Past, Steps

-----------------------------------------------------------------------------
(* The queues.                                                             *)

\* What a put into the main writer's queue leaves ahead of the sentinel.
LEMMA RowAppended ==
  ASSUME rowQueue \in Seq(Sensors \cup {"save", "stop"}),
         NEW x \in Sensors \cup {"save", "stop"}, rowQueue' = Append(rowQueue, x)
  PROVE  /\ rowQueue' \in Seq(Sensors \cup {"save", "stop"})
         /\ \A s \in Sensors : Ahead(s) => Ahead(s)'
         /\ (\A i \in 1..Len(rowQueue) : rowQueue[i] # "stop") =>
               /\ Ahead(x)'
               /\ x # "stop" => \A i \in 1..Len(rowQueue') : rowQueue'[i] # "stop"
<1>1. /\ rowQueue' \in Seq(Sensors \cup {"save", "stop"})
      /\ Len(rowQueue') = Len(rowQueue) + 1 /\ rowQueue'[Len(rowQueue) + 1] = x
      /\ \A i \in 1..Len(rowQueue) : rowQueue'[i] = rowQueue[i]
    OBVIOUS
<1>2. Len(rowQueue) \in Nat OBVIOUS
<1>3. ASSUME NEW s \in Sensors, Ahead(s) PROVE Ahead(s)'
  <2>1. PICK i \in 1..Len(rowQueue) :
            rowQueue[i] = s /\ \A j \in 1..(i - 1) : rowQueue[j] # "stop"
      BY <1>3 DEF Ahead
  <2> QED BY <1>1, <1>2, <2>1 DEF Ahead
<1>4. ASSUME \A i \in 1..Len(rowQueue) : rowQueue[i] # "stop"
      PROVE  /\ Ahead(x)'
             /\ x # "stop" => \A i \in 1..Len(rowQueue') : rowQueue'[i] # "stop"
    BY <1>1, <1>2, <1>4 DEF Ahead
<1> QED BY <1>1, <1>3, <1>4

\* What the main writer takes: an event ahead of the sentinel comes before it.
LEMMA RowTaken ==
  ASSUME rowQueue \in Seq(Sensors \cup {"save", "stop"}), rowQueue # <<>>,
         rowQueue' = Tail(rowQueue)
  PROVE  /\ rowQueue' \in Seq(Sensors \cup {"save", "stop"})
         /\ Head(rowQueue) \in Sensors \cup {"save", "stop"}
         /\ \A s \in Sensors : Ahead(s) => \/ Head(rowQueue) = s
                                           \/ Head(rowQueue) # "stop" /\ Ahead(s)'
         /\ (\A i \in 1..Len(rowQueue) : rowQueue[i] # "stop") =>
               /\ Head(rowQueue) # "stop"
               /\ \A i \in 1..Len(rowQueue') : rowQueue'[i] # "stop"
<1>1. /\ rowQueue' \in Seq(Sensors \cup {"save", "stop"}) /\ Len(rowQueue) \in Nat \ {0}
      /\ Len(rowQueue') = Len(rowQueue) - 1 /\ rowQueue[1] = Head(rowQueue)
      /\ \A i \in 1..Len(rowQueue') : rowQueue'[i] = rowQueue[i + 1]
      /\ Head(rowQueue) \in Sensors \cup {"save", "stop"}
    OBVIOUS
<1>2. ASSUME NEW s \in Sensors, Ahead(s)
      PROVE  Head(rowQueue) = s \/ (Head(rowQueue) # "stop" /\ Ahead(s)')
  <2> SUFFICES ASSUME Head(rowQueue) # s PROVE Head(rowQueue) # "stop" /\ Ahead(s)'
      OBVIOUS
  <2>1. PICK i \in 1..Len(rowQueue) :
            rowQueue[i] = s /\ \A j \in 1..(i - 1) : rowQueue[j] # "stop"
      BY <1>2 DEF Ahead
  <2>2. i > 1 BY <1>1, <2>1
  <2>3. Head(rowQueue) # "stop" BY <1>1, <2>1, <2>2
  <2>4. i - 1 \in 1..Len(rowQueue') /\ rowQueue'[i - 1] = s
      BY <1>1, <2>1, <2>2
  <2>5. \A j \in 1..(i - 1 - 1) : rowQueue'[j] # "stop"
      BY <1>1, <2>1, <2>2
  <2> QED BY <2>3, <2>4, <2>5 DEF Ahead
<1>3. ASSUME \A i \in 1..Len(rowQueue) : rowQueue[i] # "stop"
      PROVE  /\ Head(rowQueue) # "stop"
             /\ \A i \in 1..Len(rowQueue') : rowQueue'[i] # "stop"
    BY <1>1, <1>3
<1> QED BY <1>1, <1>2, <1>3

LEMMA InBatches ==
  ASSUME NEW q \in Seq(SUBSET Sensors)
  PROVE  \A x : x \in UNION ToSet(q) <=> \E i \in 1..Len(q) : x \in q[i]
<1>1. DOMAIN q = 1..Len(q) OBVIOUS
<1>2. ToSet(q) = {q[i] : i \in 1..Len(q)} BY <1>1 DEF ToSet
<1>3. \A x : x \in UNION {q[i] : i \in 1..Len(q)} <=> \E i \in 1..Len(q) : x \in q[i]
    BY Zenon
<1> QED BY <1>2, <1>3

LEMMA BatchAppended ==
  ASSUME NEW q \in Seq(SUBSET Sensors), NEW b \in SUBSET Sensors
  PROVE  UNION ToSet(Append(q, b)) = (UNION ToSet(q)) \cup b
<1>1. /\ Len(Append(q, b)) = Len(q) + 1 /\ Append(q, b)[Len(q) + 1] = b
      /\ \A i \in 1..Len(q) : Append(q, b)[i] = q[i]
      /\ Append(q, b) \in Seq(SUBSET Sensors) /\ Len(q) \in Nat
    OBVIOUS
<1>2. \A x : (\E i \in 1..(Len(q) + 1) : x \in Append(q, b)[i])
                <=> x \in b \/ \E i \in 1..Len(q) : x \in q[i]
    BY <1>1
<1>3. \A x : x \in UNION ToSet(Append(q, b)) <=> x \in UNION ToSet(q) \/ x \in b
    BY <1>1, <1>2, InBatches
<1> QED BY <1>3

LEMMA BatchTaken ==
  ASSUME NEW q \in Seq(SUBSET Sensors), q # <<>>
  PROVE  /\ Head(q) \in SUBSET Sensors /\ Tail(q) \in Seq(SUBSET Sensors)
         /\ UNION ToSet(q) = (UNION ToSet(Tail(q))) \cup Head(q)
<1>1. /\ Len(q) \in Nat \ {0} /\ Len(Tail(q)) = Len(q) - 1 /\ q[1] = Head(q)
      /\ \A i \in 1..(Len(q) - 1) : Tail(q)[i] = q[i + 1]
      /\ Head(q) \in SUBSET Sensors /\ Tail(q) \in Seq(SUBSET Sensors)
    OBVIOUS
<1>2. \A i \in 1..Len(q) : i = 1 \/ (i - 1 \in 1..(Len(q) - 1) /\ q[i] = Tail(q)[i - 1])
    BY <1>1
<1>3. \A x : (\E i \in 1..Len(q) : x \in q[i])
                <=> x \in Head(q) \/ \E i \in 1..(Len(q) - 1) : x \in Tail(q)[i]
  <2> SUFFICES ASSUME NEW x
               PROVE (\E i \in 1..Len(q) : x \in q[i])
                        <=> x \in Head(q) \/ \E i \in 1..(Len(q) - 1) : x \in Tail(q)[i]
      OBVIOUS
  <2>1. ASSUME NEW i \in 1..Len(q), x \in q[i]
        PROVE x \in Head(q) \/ \E k \in 1..(Len(q) - 1) : x \in Tail(q)[k]
      BY <1>1, <1>2, <2>1
  <2>2. ASSUME NEW i \in 1..(Len(q) - 1), x \in Tail(q)[i]
        PROVE \E k \in 1..Len(q) : x \in q[k]
    <3>1. i + 1 \in 1..Len(q) /\ x \in q[i + 1] BY <1>1, <2>2
    <3> QED BY <3>1
  <2>3. x \in Head(q) => \E k \in 1..Len(q) : x \in q[k]
    <3>1. 1 \in 1..Len(q) BY <1>1
    <3> QED BY <1>1, <3>1
  <2> QED BY <2>1, <2>2, <2>3
<1>4. \A x : x \in UNION ToSet(q) <=> x \in UNION ToSet(Tail(q)) \/ x \in Head(q)
    BY <1>1, <1>3, InBatches
<1> QED BY <1>1, <1>4

\* What keeps the samples: none is dropped, and after the last flush the
\* buffer holds none but failed ones.
LEMMA SamplesMove ==
  ASSUME SamplesKept, UNCHANGED <<work, stuck>>,
         Held \cup buffer \subseteq Held' \cup buffer',
         step \in {"flushed"} \cup FromFlagged => Held \subseteq Held',
         step' \in {"flushed"} \cup FromFlagged =>
            step \in {"flushed"} \cup FromFlagged \/ Held \cup buffer \subseteq Held'
  PROVE  SamplesKept'
BY DEF SamplesKept, Local

-----------------------------------------------------------------------------
(* The steps of main.                                                      *)

LEMMA StopAllSafe == ASSUME IInv, StopAll PROVE IInv'
<1>1. TypeOK' BY StepsAre DEF IInv, TypeOK, Stages, StopAll
<1>2. Switches' /\ Drained' /\ SentOnce' /\ Joined'
    BY StepsAre
       DEF IInv, TypeOK, Switches, Drained, Local, Finished, SentOnce, Joined, NoDump, StopAll
<1>3. RowsKept' BY StepsAre DEF IInv, TypeOK, RowsKept, Early, Ahead, Local, StopAll
<1>4. SamplesKept' BY StepsAre DEF IInv, TypeOK, SamplesKept, Held, Local, StopAll
<1> QED BY <1>1, <1>2, <1>3, <1>4 DEF IInv

LEMMA StopFeedersSafe == ASSUME IInv, StopFeeders PROVE IInv'
<1>1. TypeOK' BY StepsAre DEF IInv, TypeOK, Stages, StopFeeders
<1>2. Switches' /\ Drained' /\ SentOnce' /\ Joined'
    BY StepsAre
       DEF IInv, TypeOK, Switches, Drained, Local, Finished, SentOnce, Joined, NoDump, StopFeeders
<1>3. RowsKept' BY StepsAre DEF IInv, TypeOK, RowsKept, Early, Ahead, Local, StopFeeders
<1>4. SamplesKept' BY StepsAre DEF IInv, TypeOK, SamplesKept, Held, Local, StopFeeders
<1> QED BY <1>1, <1>2, <1>3, <1>4 DEF IInv

LEMMA DrainSafe == ASSUME IInv, Drain PROVE IInv'
<1>1. TypeOK'
    BY StepsAre DEF IInv, TypeOK, Drain, Local
<1>2. Switches' /\ Drained' /\ SentOnce' /\ Joined'
    BY StepsAre
       DEF IInv, TypeOK, Switches, Drained, Local, Finished, SentOnce, Joined, NoDump, Drain
<1>3. RowsKept' BY StepsAre DEF IInv, TypeOK, RowsKept, Early, Ahead, Local, Drain
<1>4. SamplesKept' BY StepsAre DEF IInv, TypeOK, SamplesKept, Held, Local, Drain
<1> QED BY <1>1, <1>2, <1>3, <1>4 DEF IInv

LEMMA SetGateSafe == ASSUME IInv, SetGate PROVE IInv'
<1>1. TypeOK' BY StepsAre DEF IInv, TypeOK, Stages, SetGate
<1>2. Switches' /\ Drained' /\ SentOnce' /\ Joined'
    BY StepsAre
       DEF IInv, TypeOK, Switches, Drained, Local, Finished, SentOnce, Joined, NoDump, SetGate
<1>3. RowsKept' BY StepsAre DEF IInv, TypeOK, RowsKept, Early, Ahead, Local, SetGate
<1>4. SamplesKept' BY StepsAre DEF IInv, TypeOK, SamplesKept, Held, Local, SetGate
<1> QED BY <1>1, <1>2, <1>3, <1>4 DEF IInv

LEMMA RestoreSafe == ASSUME IInv, Restore PROVE IInv'
<1>1. TypeOK' BY StepsAre DEF IInv, TypeOK, Stages, Restore
<1>2. Switches' /\ Drained' /\ SentOnce' /\ Joined'
    BY StepsAre
       DEF IInv, TypeOK, Switches, Drained, Local, Finished, SentOnce, Joined, NoDump, Restore
<1>3. RowsKept' BY StepsAre DEF IInv, TypeOK, RowsKept, Early, Ahead, Local, Restore
<1>4. SamplesKept' BY StepsAre DEF IInv, TypeOK, SamplesKept, Held, Local, Restore
<1> QED BY <1>1, <1>2, <1>3, <1>4 DEF IInv

LEMMA SaveAllSafe == ASSUME IInv, SaveAll PROVE IInv'
<1>1. TypeOK' BY StepsAre DEF IInv, TypeOK, Stages, SaveAll
<1>2. Switches' /\ Drained' /\ SentOnce' /\ Joined'
    BY StepsAre
       DEF IInv, TypeOK, Switches, Drained, Local, Finished, SentOnce, Joined, NoDump, SaveAll
<1>3. RowsKept' BY StepsAre DEF IInv, TypeOK, RowsKept, Early, Ahead, Local, SaveAll
<1>4. SamplesKept' BY StepsAre DEF IInv, TypeOK, SamplesKept, Held, Local, SaveAll
<1> QED BY <1>1, <1>2, <1>3, <1>4 DEF IInv

LEMMA FlushAllSafe == ASSUME IInv, FlushAll PROVE IInv'
<1>1. TypeOK'
  <2>1. /\ samples' \subseteq Sensors /\ failed' \subseteq Sensors /\ fails' \in 0..MaxFails
      BY OrderlyStopAssumption DEF FlushAll, Insert, IInv, TypeOK
  <2>2. buffer' \subseteq Sensors /\ step' \in ToSet(Steps)
      BY StepsAre DEF FlushAll, IInv, TypeOK
  <2> QED BY <2>1, <2>2 DEF FlushAll, IInv, TypeOK
<1>2. Switches' /\ Drained' /\ SentOnce' /\ Joined'
    BY StepsAre
       DEF IInv, TypeOK, Switches, Drained, Local, Finished, SentOnce, Joined, NoDump, FlushAll, Insert
<1>3. RowsKept' BY StepsAre DEF IInv, TypeOK, RowsKept, Early, Ahead, Local, FlushAll, Insert
<1>4. SamplesKept'
  <2>1. UNCHANGED <<logQueue, flushing, work, stuck>> BY DEF FlushAll
  <2>2. buffer \cup samples \cup failed \subseteq samples' \cup failed'
      BY DEF FlushAll, Insert, IInv, TypeOK
  <2>3. Held \cup buffer \subseteq Held' BY <2>1, <2>2 DEF Held
  <2> QED BY <2>1, <2>3, SamplesMove DEF IInv
<1> QED BY <1>1, <1>2, <1>3, <1>4 DEF IInv

LEMMA FlagSafe == ASSUME IInv, Flag PROVE IInv'
<1>1. TypeOK' BY StepsAre DEF IInv, TypeOK, Stages, Flag
<1>2. Switches' /\ Drained' /\ SentOnce' /\ Joined'
    BY StepsAre
       DEF IInv, TypeOK, Switches, Drained, Local, Finished, SentOnce, Joined, NoDump, Flag
<1>3. RowsKept' BY StepsAre DEF IInv, TypeOK, RowsKept, Early, Ahead, Local, Flag
<1>4. SamplesKept' BY StepsAre DEF IInv, TypeOK, SamplesKept, Held, Local, Flag
<1> QED BY <1>1, <1>2, <1>3, <1>4 DEF IInv

LEMMA SentinelSafe == ASSUME IInv, Sentinel PROVE IInv'
<1>1. TypeOK' BY StepsAre DEF IInv, TypeOK, Stages, Sentinel
<1>2. Switches' /\ Drained' /\ SentOnce' /\ Joined'
    BY StepsAre
       DEF IInv, TypeOK, Switches, Drained, Local, Finished, SentOnce, Joined, NoDump, Sentinel
<1>3. RowsKept'
    BY RowAppended DEF IInv, TypeOK, RowsKept, Early, Local, Sentinel
<1>4. SamplesKept'
  <2>1. UNION ToSet(logQueue') = UNION ToSet(logQueue)
    <3>1. {} \in SUBSET Sensors OBVIOUS
    <3>2. UNION ToSet(logQueue') = (UNION ToSet(logQueue)) \cup {}
        BY <3>1, BatchAppended DEF Sentinel, IInv, TypeOK
    <3> QED BY <3>2
  <2>2. UNCHANGED <<work, stuck, buffer, flushing, samples, failed>> BY DEF Sentinel
  <2>3. Held' = Held BY <2>1, <2>2 DEF Held
  <2> QED BY <2>2, <2>3, SamplesMove DEF IInv, Sentinel
<1> QED BY <1>1, <1>2, <1>3, <1>4 DEF IInv

LEMMA JoinSafe == ASSUME IInv, Join PROVE IInv'
<1>1. TypeOK' BY StepsAre DEF IInv, TypeOK, Stages, Join
<1>2. Switches' /\ Drained' /\ SentOnce' /\ Joined'
    BY StepsAre
       DEF IInv, TypeOK, Switches, Drained, Local, Finished, SentOnce, Joined, NoDump, Join
<1>3. RowsKept' BY StepsAre DEF IInv, TypeOK, RowsKept, Early, Ahead, Local, Join
<1>4. SamplesKept' BY StepsAre DEF IInv, TypeOK, SamplesKept, Held, Local, Join
<1> QED BY <1>1, <1>2, <1>3, <1>4 DEF IInv

LEMMA DrainAlertsSafe == ASSUME IInv, DrainAlerts PROVE IInv'
<1>1. TypeOK' BY StepsAre DEF IInv, TypeOK, Stages, DrainAlerts, Count
<1>2. Switches' /\ Drained' /\ SentOnce' /\ Joined'
    BY StepsAre
       DEF IInv, TypeOK, Switches, Drained, Local, Finished, SentOnce, Joined, NoDump, DrainAlerts, Count
<1>3. RowsKept' BY StepsAre DEF IInv, TypeOK, RowsKept, Early, Ahead, Local, DrainAlerts, Count
<1>4. SamplesKept' BY StepsAre DEF IInv, TypeOK, SamplesKept, Held, Local, DrainAlerts, Count
<1> QED BY <1>1, <1>2, <1>3, <1>4 DEF IInv

-----------------------------------------------------------------------------
(* The writers and loops.                                                  *)

LEMMA QueueSaveSafe == ASSUME IInv, QueueSave PROVE IInv'
<1>0. /\ \/ rowQueue' = rowQueue
         \/ rowQueue' = Append(rowQueue, "save") /\ step \notin FromFlagged
      /\ UNCHANGED <<step, work, stuck, ended, rows>>
    BY PastIs DEF QueueSave, IInv, TypeOK
<1>1. TypeOK'
  <2>1. rowQueue' \in Seq(Sensors \cup {"save", "stop"}) BY <1>0, RowAppended DEF IInv, TypeOK
  <2>2. saved' \in [Sensors -> BOOLEAN] BY DEF QueueSave, IInv, TypeOK
  <2>3. saves' \in 0..MaxSaves BY OrderlyStopAssumption DEF QueueSave, IInv, TypeOK
  <2> QED BY <2>1, <2>2, <2>3 DEF QueueSave, IInv, TypeOK
<1>2. Switches' /\ Drained' /\ SentOnce' /\ Joined'
    BY PastIs, StepsAre
       DEF IInv, TypeOK, Switches, Drained, Local, Finished, SentOnce, Joined, NoDump, QueueSave
<1>3. RowsKept'
  <2>1. CASE rowQueue' = rowQueue
      BY <1>0, <2>1 DEF IInv, RowsKept, Early, Ahead, Local
  <2>2. CASE rowQueue' = Append(rowQueue, "save")
      BY <1>0, <2>2, RowAppended DEF IInv, TypeOK, RowsKept, Early, Local
  <2> QED BY <1>0, <2>1, <2>2
<1>4. SamplesKept' BY PastIs, StepsAre DEF IInv, TypeOK, SamplesKept, Held, Local, QueueSave
<1> QED BY <1>1, <1>2, <1>3, <1>4 DEF IInv

LEMMA WriteMainSafe == ASSUME IInv, WriteMain PROVE IInv'
<1> USE OrderlyStopAssumption
<1>0. /\ \/ /\ dump # NoDump /\ dump' = NoDump /\ saved' = dump
            /\ UNCHANGED <<rowQueue, ended, rows>>
         \/ /\ dump = NoDump /\ rowQueue # <<>> /\ rowQueue' = Tail(rowQueue)
            /\ saved' = saved /\ dump' \in {NoDump, running}
            /\ rows' = rows \cup ({Head(rowQueue)} \cap Sensors)
            /\ ended' = IF Head(rowQueue) = "stop" THEN ended \cup {"main"} ELSE ended
      /\ UNCHANGED <<step, running, work, stuck, logQueue, samples, buffer, flushing, failed>>
    BY DEF WriteMain
<1>1. TypeOK'
  <2>1. rowQueue' \in Seq(Sensors \cup {"save", "stop"}) /\ rows' \subseteq Sensors
      BY <1>0, RowTaken DEF IInv, TypeOK
  <2>2. /\ saved' \in [Sensors -> BOOLEAN] /\ dump' \in {NoDump} \cup [Sensors -> BOOLEAN]
        /\ ended' \subseteq {"main", "logs"}
      BY <1>0 DEF IInv, TypeOK
  <2> QED BY <2>1, <2>2 DEF WriteMain, IInv, TypeOK
<1>2. Switches' /\ Drained' /\ SentOnce' /\ Joined'
    BY StepsAre
       DEF IInv, TypeOK, Switches, Drained, Local, Finished, SentOnce, Joined, NoDump, WriteMain
<1>3. RowsKept'
  <2>1. CASE rowQueue' = rowQueue /\ ended' = ended /\ rows' = rows
      BY <1>0, <2>1 DEF IInv, RowsKept, Early, Ahead, Local
  <2>2. CASE /\ rowQueue # <<>> /\ rowQueue' = Tail(rowQueue)
             /\ rows' = rows \cup ({Head(rowQueue)} \cap Sensors)
             /\ ended' = IF Head(rowQueue) = "stop" THEN ended \cup {"main"} ELSE ended
    <3>1. /\ \A s \in Sensors : Ahead(s) => \/ Head(rowQueue) = s
                                            \/ Head(rowQueue) # "stop" /\ Ahead(s)'
          /\ (\A i \in 1..Len(rowQueue) : rowQueue[i] # "stop") =>
                /\ Head(rowQueue) # "stop"
                /\ \A i \in 1..Len(rowQueue') : rowQueue'[i] # "stop"
        BY <2>2, RowTaken DEF IInv, TypeOK
    <3> QED BY <1>0, <2>2, <3>1 DEF IInv, RowsKept, Early, Local
  <2> QED BY <1>0, <2>1, <2>2
<1>4. SamplesKept' BY StepsAre DEF IInv, TypeOK, SamplesKept, Held, Local, WriteMain
<1> QED BY <1>1, <1>2, <1>3, <1>4 DEF IInv

LEMMA WriteLogsSafe == ASSUME IInv, WriteLogs PROVE IInv'
<1> DEFINE batch == Head(logQueue)
<1>0. /\ logQueue # <<>> /\ logQueue' = Tail(logQueue) /\ Insert(batch)
      /\ buffer' = IF fails' # fails THEN buffer \cup batch ELSE buffer
      /\ UNCHANGED <<step, work, stuck, flushing>>
      /\ batch \in SUBSET Sensors /\ logQueue' \in Seq(SUBSET Sensors)
      /\ UNION ToSet(logQueue) = (UNION ToSet(logQueue')) \cup batch
    BY BatchTaken DEF WriteLogs, IInv, TypeOK
<1>1. TypeOK'
  <2>1. /\ samples' \subseteq Sensors /\ failed' \subseteq Sensors /\ buffer' \subseteq Sensors
        /\ fails' \in 0..MaxFails
      BY <1>0, OrderlyStopAssumption DEF Insert, IInv, TypeOK
  <2>2. ended' \subseteq {"main", "logs"} BY DEF WriteLogs, IInv, TypeOK
  <2> QED BY <1>0, <2>1, <2>2 DEF WriteLogs, IInv, TypeOK
<1>2. Switches' /\ Drained' /\ SentOnce' /\ Joined'
    BY StepsAre
       DEF IInv, TypeOK, Switches, Drained, Local, Finished, SentOnce, Joined, NoDump, WriteLogs, Insert
<1>3. RowsKept' BY StepsAre DEF IInv, TypeOK, RowsKept, Early, Ahead, Local, WriteLogs, Insert
<1>4. SamplesKept'
  <2>1. samples \cup failed \cup batch \subseteq samples' \cup failed'
      BY <1>0 DEF Insert
  <2>2. Held \subseteq Held' /\ buffer \subseteq buffer' BY <1>0, <2>1 DEF Held
  <2> QED BY <1>0, <2>2, SamplesMove DEF IInv
<1> QED BY <1>1, <1>2, <1>3, <1>4 DEF IInv

LEMMA FlushTakeSafe == ASSUME IInv, FlushTake PROVE IInv'
<1>1. TypeOK' BY PastIs, StepsAre DEF IInv, TypeOK, NoBatch, Stages, FlushTake
<1>2. Switches' /\ Drained' /\ SentOnce' /\ Joined'
    BY PastIs, StepsAre
       DEF IInv, TypeOK, Switches, Drained, Local, Finished, SentOnce, Joined, NoDump, FlushTake
<1>3. RowsKept' BY PastIs, StepsAre DEF IInv, TypeOK, RowsKept, Early, Ahead, Local, FlushTake
<1>4. SamplesKept'
  <2>1. step \notin {"flushed"} \cup FromFlagged /\ step' = step
      BY PastIs DEF FlushTake, IInv, TypeOK
  <2>2. Held \cup buffer \subseteq Held' \cup buffer' BY DEF FlushTake, Held, NoBatch
  <2> QED BY <2>1, <2>2, SamplesMove DEF IInv, FlushTake
<1> QED BY <1>1, <1>2, <1>3, <1>4 DEF IInv

LEMMA FlushTestSafe == ASSUME IInv, FlushTest PROVE IInv'
<1>0. /\ \/ /\ Insert(flushing.of) /\ flushing' = NoBatch
            /\ buffer' = IF fails' # fails THEN buffer \cup flushing.of ELSE buffer
         \/ /\ flushing' = [of |-> flushing.of, live |-> TRUE]
            /\ UNCHANGED <<buffer, samples, failed, fails>>
      /\ UNCHANGED <<step, work, stuck, logQueue>>
    BY DEF FlushTest, IInv, TypeOK
<1>1. TypeOK'
  <2>1. flushing' \in [of : SUBSET Sensors, live : BOOLEAN]
    <3>1. flushing.of \in SUBSET Sensors BY DEF IInv, TypeOK
    <3>2. NoBatch \in [of : SUBSET Sensors, live : BOOLEAN]
      <4>1. {} \in SUBSET Sensors OBVIOUS
      <4> QED BY <4>1 DEF NoBatch
    <3>3. [of |-> flushing.of, live |-> TRUE] \in [of : SUBSET Sensors, live : BOOLEAN]
        BY <3>1
    <3> QED BY <1>0, <3>2, <3>3
  <2>2. /\ samples' \subseteq Sensors /\ failed' \subseteq Sensors /\ buffer' \subseteq Sensors
        /\ fails' \in 0..MaxFails
      BY <1>0, OrderlyStopAssumption DEF Insert, IInv, TypeOK
  <2> QED BY <2>1, <2>2 DEF FlushTest, IInv, TypeOK
<1>2. Switches' /\ Drained' /\ SentOnce' /\ Joined'
    BY PastIs, StepsAre
       DEF IInv, TypeOK, Switches, Drained, Local, Finished, SentOnce, Joined, NoDump, FlushTest, Insert
<1>3. RowsKept'
    BY PastIs, StepsAre DEF IInv, TypeOK, RowsKept, Early, Ahead, Local, FlushTest, Insert
<1>4. SamplesKept'
  <2>1. /\ samples \cup failed \cup flushing.of \subseteq samples' \cup failed' \cup flushing'.of
        /\ buffer \subseteq buffer'
      BY <1>0 DEF Insert
  <2>2. Held \subseteq Held' BY <1>0, <2>1 DEF Held
  <2> QED BY <1>0, <2>1, <2>2, SamplesMove DEF IInv
<1> QED BY <1>1, <1>2, <1>3, <1>4 DEF IInv

LEMMA FlushPutSafe == ASSUME IInv, FlushPut PROVE IInv'
<1>0. /\ logQueue' = Append(logQueue, flushing.of) /\ flushing' = NoBatch
      /\ UNION ToSet(logQueue') = (UNION ToSet(logQueue)) \cup flushing.of
      /\ UNCHANGED <<step, work, stuck, buffer, samples, failed>>
    BY BatchAppended DEF FlushPut, IInv, TypeOK
<1>1. TypeOK' BY StepsAre DEF IInv, TypeOK, NoBatch, Stages, FlushPut
<1>2. Switches' /\ Drained' /\ SentOnce' /\ Joined'
    BY StepsAre
       DEF IInv, TypeOK, Switches, Drained, Local, Finished, SentOnce, Joined, NoDump, FlushPut
<1>3. RowsKept' BY StepsAre DEF IInv, TypeOK, RowsKept, Early, Ahead, Local, FlushPut
<1>4. SamplesKept'
  <2>1. Held \subseteq Held' BY <1>0 DEF Held, NoBatch
  <2> QED BY <1>0, <2>1, SamplesMove DEF IInv
<1> QED BY <1>1, <1>2, <1>3, <1>4 DEF IInv

LEMMA PopSafe == ASSUME IInv, Pop PROVE IInv'
<1>1. TypeOK' BY StepsAre DEF IInv, TypeOK, Stages, Pop
<1>2. Switches' /\ Drained' /\ SentOnce' /\ Joined'
    BY StepsAre
       DEF IInv, TypeOK, Switches, Drained, Local, Finished, SentOnce, Joined, NoDump, Pop
<1>3. RowsKept'
  <2>1. UNCHANGED <<step, work, stuck, rowQueue, ended, rows>> BY DEF Pop
  <2> QED BY <2>1 DEF IInv, RowsKept, Early, Ahead, Local
<1>4. SamplesKept' BY StepsAre DEF IInv, TypeOK, SamplesKept, Held, Local, Pop
<1> QED BY <1>1, <1>2, <1>3, <1>4 DEF IInv

LEMMA SendSafe == ASSUME IInv, Send PROVE IInv'
<1>1. TypeOK' BY StepsAre DEF IInv, TypeOK, Stages, Send, Count
<1>2. Switches' /\ Drained' /\ SentOnce' /\ Joined'
    BY StepsAre
       DEF IInv, TypeOK, Switches, Drained, Local, Finished, SentOnce, Joined, NoDump, Send, Count
<1>3. RowsKept' BY StepsAre DEF IInv, TypeOK, RowsKept, Early, Ahead, Local, Send, Count
<1>4. SamplesKept' BY StepsAre DEF IInv, TypeOK, SamplesKept, Held, Local, Send, Count
<1> QED BY <1>1, <1>2, <1>3, <1>4 DEF IInv

-----------------------------------------------------------------------------
(* The results.                                                            *)

LEMMA ProbeSafe == ASSUME IInv, NEW s \in Sensors, Probe(s) PROVE IInv'
<1> USE DEF Local
<1>1. TypeOK' BY StepsAre DEF IInv, TypeOK, Stages, Probe
<1>2. Switches' /\ Drained' /\ SentOnce' /\ Joined'
    BY StepsAre
       DEF IInv, TypeOK, Switches, Drained, Local, Finished, SentOnce, Joined, NoDump, Probe
<1>3. RowsKept' BY StepsAre DEF IInv, TypeOK, RowsKept, Early, Ahead, Local, Probe
<1>4. SamplesKept' BY StepsAre DEF IInv, TypeOK, SamplesKept, Held, Local, Probe
<1> QED BY <1>1, <1>2, <1>3, <1>4 DEF IInv

LEMMA GateSafe == ASSUME IInv, NEW s \in Sensors, Gate(s) PROVE IInv'
<1>1. TypeOK' BY PastIs, StepsAre DEF IInv, TypeOK, Stages, Gate
<1>2. Switches' /\ Drained' /\ SentOnce' /\ Joined'
    BY PastIs, StepsAre
       DEF IInv, TypeOK, Switches, Drained, Local, Finished, SentOnce, Joined, NoDump, Gate
<1>3. RowsKept' BY PastIs, StepsAre DEF IInv, TypeOK, RowsKept, Early, Ahead, Local, Gate
<1>4. SamplesKept' BY PastIs, StepsAre DEF IInv, TypeOK, SamplesKept, Held, Local, Gate
<1> QED BY <1>1, <1>2, <1>3, <1>4 DEF IInv

LEMMA RunningSafe == ASSUME IInv, NEW s \in Sensors, Running(s) PROVE IInv'
<1>1. TypeOK' BY StepsAre DEF IInv, TypeOK, Stages, Running
<1>2. Switches' /\ Drained' /\ SentOnce' /\ Joined'
    BY StepsAre
       DEF IInv, TypeOK, Switches, Drained, Local, Finished, SentOnce, Joined, NoDump, Running
<1>3. RowsKept' BY StepsAre DEF IInv, TypeOK, RowsKept, Early, Ahead, Local, Running
<1>4. SamplesKept' BY StepsAre DEF IInv, TypeOK, SamplesKept, Held, Local, Running
<1> QED BY <1>1, <1>2, <1>3, <1>4 DEF IInv

LEMMA TestWritersSafe == ASSUME IInv, NEW s \in Sensors, TestWriters(s) PROVE IInv'
<1>0. /\ work[s] = "row" /\ UNCHANGED <<step, stuck, rowQueue, ended>>
      /\ \/ work' = [work EXCEPT ![s] = "sample"] /\ rows' = rows \cup {s}
         \/ work' = [work EXCEPT ![s] = "put"] /\ rows' = rows
    BY DEF TestWriters
<1>1. TypeOK'
    BY <1>0 DEF IInv, TypeOK, Stages, TestWriters
<1>2. Switches' /\ Drained' /\ SentOnce' /\ Joined'
  <2>1. ~(step \in FromDrained /\ s \in Local \ stuck) BY <1>0 DEF IInv, Drained
  <2>2. Drained'
    <3>1. \A t \in Local \ {s} : work'[t] = work[t] BY <1>0 DEF IInv, TypeOK, Local
    <3> QED BY <1>0, <2>1, <3>1 DEF IInv, Drained, Local
  <2>3. Switches' /\ SentOnce' /\ Joined'
      BY <1>0 DEF IInv, TypeOK, TestWriters, Switches, SentOnce, Joined
  <2> QED BY <2>2, <2>3
<1>3. RowsKept' BY PastIs, StepsAre DEF IInv, TypeOK, RowsKept, Early, Ahead, Local, TestWriters
<1>4. SamplesKept'
  <2>1. UNCHANGED <<Held, buffer>> BY DEF TestWriters, Held
  <2>2. \A t \in Sensors : work'[t] \in {"alert", "done"} => work'[t] = work[t]
      BY <1>0 DEF IInv, TypeOK
  <2> QED BY <1>0, <2>1, <2>2 DEF IInv, SamplesKept, Local
<1> QED BY <1>1, <1>2, <1>3, <1>4 DEF IInv

LEMMA PutSafe == ASSUME IInv, NEW s \in Sensors, Put(s) PROVE IInv'
<1>1. TypeOK' BY StepsAre DEF IInv, TypeOK, Stages, Put
<1>2. Switches' /\ Drained' /\ SentOnce' /\ Joined'
    BY StepsAre
       DEF IInv, TypeOK, Switches, Drained, Local, Finished, SentOnce, Joined, NoDump, Put
<1>3. RowsKept'
  <2>1. /\ work[s] = "put" /\ work' = [work EXCEPT ![s] = "sample"]
        /\ rowQueue' = Append(rowQueue, s) /\ UNCHANGED <<step, stuck, ended, rows>>
      BY DEF Put
  <2>2. Early(s) => Ahead(s)' /\ step \notin {"sentinel", "joined", "exited"}
      BY <2>1, RowAppended DEF IInv, TypeOK, Drained, RowsKept, Early
  <2> QED BY <2>1, <2>2, RowAppended, OrderlyStopAssumption
          DEF IInv, TypeOK, Drained, RowsKept, Early, Local
<1>4. SamplesKept' BY StepsAre DEF IInv, TypeOK, SamplesKept, Held, Local, Put
<1> QED BY <1>1, <1>2, <1>3, <1>4 DEF IInv

LEMMA SampleSafe == ASSUME IInv, NEW s \in Sensors, Sample(s) PROVE IInv'
<1>1. TypeOK' BY StepsAre DEF IInv, TypeOK, Stages, Sample
<1>2. Switches' /\ Drained' /\ SentOnce' /\ Joined'
    BY StepsAre
       DEF IInv, TypeOK, Switches, Drained, Local, Finished, SentOnce, Joined, NoDump, Sample
<1>3. RowsKept' BY StepsAre DEF IInv, TypeOK, RowsKept, Early, Ahead, Local, Sample
<1>4. SamplesKept' BY StepsAre DEF IInv, TypeOK, SamplesKept, Held, Local, Sample
<1> QED BY <1>1, <1>2, <1>3, <1>4 DEF IInv

LEMMA AlertSafe == ASSUME IInv, NEW s \in Sensors, Alert(s) PROVE IInv'
<1>1. TypeOK' BY StepsAre DEF IInv, TypeOK, Stages, Alert
<1>2. Switches' /\ Drained' /\ SentOnce' /\ Joined'
    BY StepsAre
       DEF IInv, TypeOK, Switches, Drained, Local, Finished, SentOnce, Joined, NoDump, Alert
<1>3. RowsKept' BY StepsAre DEF IInv, TypeOK, RowsKept, Early, Ahead, Local, Alert
<1>4. SamplesKept'
  <2>1. /\ work[s] = "alert" /\ work' = [work EXCEPT ![s] = "done"]
        /\ UNCHANGED <<step, stuck, buffer, Held>>
      BY DEF Alert, Held
  <2>2. step \in FromDrained => s \notin Local \ stuck BY <2>1 DEF IInv, Drained
  <2>3. \A t \in Sensors \ {s} : work'[t] = work[t] BY <2>1 DEF IInv, TypeOK
  <2> QED BY <2>1, <2>2, <2>3 DEF IInv, SamplesKept, Local
<1> QED BY <1>1, <1>2, <1>3, <1>4 DEF IInv

-----------------------------------------------------------------------------
LEMMA InitSafe == Init => IInv
<1> SUFFICES ASSUME Init PROVE IInv
    OBVIOUS
<1> USE DEF Init
<1>1. TypeOK
  <2>1. step \in ToSet(Steps) BY StepsAre
  <2>2. rowQueue \in Seq(Sensors \cup {"save", "stop"}) /\ logQueue \in Seq(SUBSET Sensors)
      OBVIOUS
  <2>3. flushing \in [of : SUBSET Sensors, live : BOOLEAN]
    <3>1. {} \in SUBSET Sensors OBVIOUS
    <3> QED BY <3>1 DEF NoBatch
  <2>4. work \in [Sensors -> Stages] /\ sent \in [Sensors -> Nat] BY DEF Stages
  <2>5. saves \in 0..MaxSaves /\ fails \in 0..MaxFails BY OrderlyStopAssumption
  <2> QED BY <2>1, <2>2, <2>3, <2>4, <2>5 DEF TypeOK
<1>2. Switches /\ Drained /\ RowsKept /\ SentOnce /\ Joined
    BY DEF Switches, Drained, RowsKept, SentOnce, Joined, Local
<1>3. SamplesKept BY DEF SamplesKept
<1> QED BY <1>1, <1>2, <1>3 DEF IInv

LEMMA NextSafe == IInv /\ [Next]_vars => IInv'
<1> SUFFICES ASSUME IInv, [Next]_vars PROVE IInv'
    OBVIOUS
<1>1. CASE Main
    BY <1>1, StopAllSafe, StopFeedersSafe, DrainSafe, SetGateSafe, RestoreSafe, SaveAllSafe,
       FlushAllSafe, FlagSafe, SentinelSafe, JoinSafe, DrainAlertsSafe DEF Main
<1>2. ASSUME NEW s \in Sensors, Result(s) PROVE IInv'
    BY <1>2, ProbeSafe, GateSafe, RunningSafe, TestWritersSafe, PutSafe, SampleSafe, AlertSafe
       DEF Result
<1>3. CASE Threads
    BY <1>2, <1>3, QueueSaveSafe, WriteMainSafe, WriteLogsSafe, FlushTakeSafe, FlushTestSafe,
       FlushPutSafe, PopSafe, SendSafe DEF Threads
<1>4. CASE UNCHANGED vars
  <2> USE <1>4 DEF vars
  <2>1. TypeOK' /\ Switches' /\ SentOnce' /\ Joined'
      BY DEF IInv, TypeOK, Switches, SentOnce, Joined
  <2>2. Drained' /\ RowsKept'
      BY DEF IInv, Drained, RowsKept, Early, Ahead, Local
  <2>3. SamplesKept'
    <3>1. Held' = Held BY DEF Held
    <3> QED BY <3>1, SamplesMove DEF IInv
  <2> QED BY <2>1, <2>2, <2>3 DEF IInv
<1> QED BY <1>1, <1>3, <1>4 DEF Next

LEMMA AlwaysSafe == Spec => []IInv
<1> QED BY InitSafe, NextSafe, PTL DEF Spec

\* The state of the server while it stops is of its type.
THEOREM StopTypes == Spec => []TypeOK
<1>1. IInv => TypeOK BY DEF IInv
<1> QED BY <1>1, AlwaysSafe, PTL

\* The stop never persists a sensor that ran as paused, whatever autosave and
\* the writer do meanwhile, but for a save it overlapped (server.py, the
\* restore from _run_intent before the last save).
THEOREM RunsAlwaysAgain == Spec => []RunsAgain
<1>1. IInv => RunsAgain BY PastIs DEF IInv, TypeOK, Switches, RunsAgain
<1> QED BY <1>1, AlwaysSafe, PTL

\* What was taken in before the drain was over is at the exit where it belongs:
\* the order drain, gate, flush, sentinels, join loses nothing by itself.
THEOREM DrainedIsAlwaysKept == Spec => []DrainedIsKept
<1>1. IInv => DrainedIsKept
  <2> SUFFICES ASSUME IInv, step = "exited", "join" \notin excused,
                      NEW s \in Local \ stuck, work[s] = "done"
               PROVE  /\ s \in rows
                      /\ s \in samples \cup failed \cup Overtaken
                      /\ sent[s] = 1 \/ s \in sending
      BY DEF DrainedIsKept
  <2>1. s \in Sensors /\ Early(s) BY DEF Local, Early
  <2>2. s \in rows BY <2>1 DEF IInv, RowsKept, Joined
  <2>3. s \in samples \cup failed \cup Overtaken
      BY <2>1 DEF IInv, SamplesKept, Held, Overtaken
  <2>4. sent[s] = 1 \/ s \in sending BY <2>1 DEF IInv, SentOnce
  <2> QED BY <2>2, <2>3, <2>4
<1> QED BY <1>1, AlwaysSafe, PTL
=============================================================================
