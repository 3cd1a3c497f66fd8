-------------------------- MODULE AlertEngine_proofs --------------------------
(***************************************************************************)
(* The alert engine for any stages, gates, operators and clock.  That a    *)
(* stage is dispatched once in an episode is proved of every list of       *)
(* stages; that nothing of an incident is left behind, and none swallowed, *)
(* of those whose down and warning stages belong to one profile: the       *)
(* clean-up asks only the first profile for its fires.                     *)
(***************************************************************************)
EXTENDS AlertEngine, TLAPS

OneProfile == \A i \in StageIds : IsState(i) => Stages[i].profile = Stages[1].profile

Firing == {"send", "log", "record"}
Ending == {"cleanup", "resolve", "finish"}

\* What the step an evaluation is at says of the stage it is about.
Steps ==
    /\ eval.at = "idle" => eval.why = "none"
    /\ eval.at = "send" => eval.why = "due"
    /\ eval.at \in Firing => hasFired
    /\ eval.at \in Firing /\ IsRecovery(eval.i) =>
          Classified.state = "ok" /\ HadPriorFire(eval.i)
    /\ eval.at \in {"cleanup", "resolve"} => Classified.state = "ok"

\* The evaluation found the sensor well and has not ended.
Well == eval.at \notin {"idle", "begin"} /\ Classified.state = "ok"

\* A stage that was dispatched is on record for an event that is still open, or
\* about to be, or the episode is about to end.
StateSent(i) ==
    \/ Well
    \/ Open /\ history[i].count > 0
    \/ eval.i = i /\ eval.why = "due" /\ (eval.at = "log" \/ (eval.at = "record" /\ Open))

\* A recovery that was dispatched is behind the walk.
RecoverySent(i) ==
    /\ Well /\ i <= eval.i
    /\ eval.at \in {"stage", "send"} => i < eval.i

Dispatched ==
    \A i \in StageIds : Stages[i].repeat = 0 /\ ~torn[i] =>
        /\ sent[i] <= 1
        /\ eval.at = "send" /\ eval.i = i => sent[i] = 0
        /\ sent[i] = 1 => IF IsState(i) THEN StateSent(i) ELSE RecoverySent(i)

OnceInv == TypeOK /\ Steps /\ Dispatched

NoHistory == \A i \in StageIds : history[i].count = 0

\* A recovery is on record only beside the stage it answers to; and a sensor
\* that has been looked at and has not fired since has left nothing.
Clean ==
    /\ (\E i \in StageIds : IsRecovery(i) /\ history[i].count > 0) =>
          \E j \in StageIds : IsState(j) /\ history[j].count > 0
    /\ eval.at = "resolve" => NoHistory
    /\ checked /\ ~hasFired /\ eval.at # "resolve" => NoHistory /\ event.state = "none"
    /\ EpisodeOver => NoHistory /\ event.state = "none"

\* A stage on record was dispatched or silenced in this episode.
Told ==
    /\ \A i \in StageIds : history[i].count > 0 => told[i]
    /\ eval.at \in {"log", "record"} => told[eval.i]
    /\ eval.why \in {"already", "duplicate"} => told[eval.i]

CleanInv == TypeOK /\ Steps /\ Clean /\ Told

-----------------------------------------------------------------------------
(* The stages, and the classification of the sensor.                       *)

LEMMA StageFacts ==
    /\ StageIds = 1..Len(Stages) /\ Len(Stages) \in Nat \ {0} /\ 1 \in StageIds
    /\ \A i \in StageIds :
          /\ i \in Nat \ {0} /\ Stages[i].profile \in Nat /\ Stages[i].repeat \in Nat
          /\ IsState(i) \/ IsRecovery(i)
          /\ ~(IsState(i) /\ IsRecovery(i))
          /\ Target(i) \in StateTriggers
  <1> DEFINE R == [profile : Nat, trigger : StateTriggers \cup RecoveryTriggers, delay : Nat, repeat : Nat]
  <1>1. Stages \in Seq(R) /\ Stages # <<>>
    BY ConstantsAssumption
  <1>2. StageIds = 1..Len(Stages) /\ Len(Stages) \in Nat \ {0} /\ 1 \in StageIds
    <2> HIDE DEF R
    <2> QED
      BY <1>1 DEF StageIds
  <1>3. ASSUME NEW i \in StageIds
        PROVE  Stages[i] \in R
    <2> HIDE DEF R
    <2> QED
      BY <1>1, <1>2, <1>3
  <1> QED
    BY <1>2, <1>3 DEF IsState, IsRecovery, Target, StateTriggers, RecoveryTriggers

LEMMA ClassifiedType ==
    TypeOK => /\ Classified.state \in {"ok", "warning", "down"}
              /\ Classified.since \in Times
  BY DEF TypeOK, Classified, Never

LEMMA ClassifiedSame ==
    UNCHANGED <<downSince, thr, thrSince>> => Classified' = Classified
  BY DEF Classified

-----------------------------------------------------------------------------
(* Types.                                                                  *)

LEMMA TypesInit == Init => TypeOK
  <1> SUFFICES ASSUME Init PROVE TypeOK
    OBVIOUS
  <1>1. now \in Times /\ Never \in Times
    BY ConstantsAssumption DEF Init, Times, Never
  <1>2. history \in [StageIds -> [count : 0..1, last : Times, session : Times]]
    BY <1>1 DEF Init, NoFire
  <1>3. eval \in [at : {"idle", "begin", "stage", "send", "log", "record", "next", "cleanup",
                         "resolve", "finish"},
                   i : StageIds, why : Reasons, recovered : BOOLEAN]
    BY StageFacts DEF Init, Resting, Reasons
  <1>4. event \in [state : {"none", "active", "acknowledged"}, profile : Nat]
    BY DEF Init, NoEvent
  <1>5. sent \in [StageIds -> 0..2] /\ told \in [StageIds -> BOOLEAN]
        /\ torn \in [StageIds -> BOOLEAN]
    BY DEF Init
  <1> QED
    BY <1>1, <1>2, <1>3, <1>4, <1>5 DEF Init, TypeOK

Evals == [at : {"idle", "begin", "stage", "send", "log", "record", "next", "cleanup",
                "resolve", "finish"},
          i : StageIds, why : Reasons, recovered : BOOLEAN]
Histories == [StageIds -> [count : 0..1, last : Times, session : Times]]
Events    == [state : {"none", "active", "acknowledged"}, profile : Nat]

LEMMA Constants ==
    /\ Resting \in Evals /\ Never \in Times /\ NoEvent \in Events
    /\ [i \in StageIds |-> NoFire] \in Histories
  <1>1. Never \in Times
    BY ConstantsAssumption DEF Times, Never
  <1>2. Resting \in Evals
    BY StageFacts DEF Resting, Evals, Reasons
  <1>3. [i \in StageIds |-> NoFire] \in Histories
    BY <1>1 DEF NoFire, Histories
  <1> QED
    BY <1>1, <1>2, <1>3 DEF NoEvent, Events

LEMMA ForgetTypes ==
    Forget => /\ sent' \in [StageIds -> 0..2]
              /\ told' \in [StageIds -> BOOLEAN] /\ torn' \in [StageIds -> BOOLEAN]
  BY DEF Forget

\* The steps of an evaluation, by what they write.
LEMMA TypesEvaluate ==
    ASSUME TypeOK, Evaluate
    PROVE  TypeOK'
  <1> USE DEF Evals, Histories, Events
  <1>1. CASE Begin
    BY <1>1, Constants DEF TypeOK, Begin, sensorVars, observed
  <1>2. ASSUME NEW i \in StageIds, Passed(i)
        PROVE  TypeOK'
    BY <1>2 DEF TypeOK, Passed, To, Reasons, sensorVars, observed
  <1>3. ASSUME NEW i \in StageIds, Gated(i)
        PROVE  TypeOK'
    <2>1. eval' \in Evals
      <3>1. IsRecovery(i) \in BOOLEAN
        BY DEF IsRecovery
      <3>2. eval \in Evals /\ eval.recovered \in BOOLEAN
        BY DEF TypeOK
      <3>3. (eval.recovered \/ IsRecovery(i)) \in BOOLEAN
        BY <3>1, <3>2
      <3> QED
        BY <1>3, <3>2, <3>3 DEF Gated, Reasons
    <2> QED
      BY <1>3, <2>1 DEF TypeOK, Gated, sensorVars, observed
  <1>4. ASSUME NEW i \in StageIds, FireState(i)
        PROVE  TypeOK'
    <2>1. /\ UNCHANGED <<now, sensorVars, checked, history, event, sent, torn>> /\ hasFired'
          /\ \/ To("log", "acked") /\ told' = [told EXCEPT ![i] = TRUE]
             \/ (To("log", "duplicate") \/ To("send", "due")) /\ told' = told
      BY <1>4 DEF FireState
    <2>2. eval' \in Evals
      BY <2>1 DEF TypeOK, To, Reasons
    <2>3. told' \in [StageIds -> BOOLEAN]
      BY <2>1 DEF TypeOK
    <2> QED
      BY <2>1, <2>2, <2>3 DEF TypeOK, sensorVars
  <1>5. ASSUME NEW i \in StageIds, FireRecovery(i)
        PROVE  TypeOK'
    BY <1>5 DEF TypeOK, FireRecovery, Reasons, sensorVars, observed
  <1>6. ASSUME NEW i \in StageIds, Send(i)
        PROVE  TypeOK'
    BY <1>6 DEF TypeOK, Send, sensorVars
  <1>7. ASSUME NEW i \in StageIds, LogEvent(i)
        PROVE  TypeOK'
    <2>1. event' \in Events
      BY <1>7, Constants, StageFacts DEF TypeOK, LogEvent
    <2> QED
      BY <1>7, <2>1 DEF TypeOK, LogEvent, sensorVars, observed
  <1>8. ASSUME NEW i \in StageIds, Record(i)
        PROVE  TypeOK'
    <2>1. history' \in Histories
      BY <1>8, ClassifiedType DEF TypeOK, Record
    <2> QED
      BY <1>8, <2>1 DEF TypeOK, Record, sensorVars, observed
  <1>9. CASE NextStage
    <2>1. eval \in Evals /\ (eval.i < Len(Stages) => eval.i + 1 \in StageIds)
      <3>1. eval.i \in StageIds
        BY DEF TypeOK
      <3> QED
        BY <3>1, StageFacts DEF TypeOK
    <2>2. eval' \in Evals
      <3>1. CASE eval.i < Len(Stages)
        BY <1>9, <2>1, <3>1 DEF NextStage, Reasons
      <3>2. CASE ~(eval.i < Len(Stages))
        BY <1>9, <2>1, <3>2 DEF NextStage, Reasons
      <3> QED
        BY <3>1, <3>2
    <2> QED
      BY <1>9, <2>2 DEF TypeOK, NextStage, sensorVars, observed
  <1>10. CASE Cleanup
    <2>1. history' \in Histories
      BY <1>10, Constants DEF TypeOK, Cleanup
    <2>2. checked' \in BOOLEAN
      BY <1>10 DEF TypeOK, Cleanup
    <2>3. eval' \in Evals
      BY <1>10 DEF TypeOK, Cleanup
    <2> QED
      BY <1>10, <2>1, <2>2, <2>3 DEF TypeOK, Cleanup, sensorVars, observed
  <1>11. CASE ResolveEvents
    BY <1>11, Constants DEF TypeOK, ResolveEvents, sensorVars, observed
  <1>12. CASE Finish
    BY <1>12, Constants, ForgetTypes DEF TypeOK, Finish, sensorVars, observed
  <1> QED
    BY <1>1, <1>2, <1>3, <1>4, <1>5, <1>6, <1>7, <1>8, <1>9, <1>10, <1>11, <1>12 DEF Evaluate

LEMMA TypesStep ==
    ASSUME TypeOK, [Next]_vars
    PROVE  TypeOK'
  <1> USE DEF Evals, Histories, Events
  <1>1. ASSUME NEW isDown \in BOOLEAN, NEW level \in {"ok", "warn", "crit"}, Cycle(isDown, level)
        PROVE  TypeOK'
    <2>1. downSince' \in Times /\ thrSince' \in Times
      BY <1>1, Constants DEF TypeOK, Cycle, DownStamp, ThresholdStamp
    <2>2. eval' \in Evals
      BY <1>1, Constants DEF Cycle
    <2> QED
      BY <1>1, <2>1, <2>2 DEF TypeOK, Cycle, observed
  <1>2. CASE Tick
    BY <1>2, ConstantsAssumption DEF TypeOK, Tick, Times, sensorVars, observed
  <1>3. CASE Evaluate
    BY <1>3, TypesEvaluate
  <1>4. CASE ToggleMute
    BY <1>4 DEF TypeOK, ToggleMute, observed
  <1>5. CASE AckEvent
    BY <1>5 DEF TypeOK, AckEvent, sensorVars, observed
  <1>6. CASE ResolveByHand
    BY <1>6, Constants DEF TypeOK, ResolveByHand, sensorVars
  <1>7. CASE EditProfile
    BY <1>7, Constants, ForgetTypes DEF TypeOK, EditProfile, sensorVars
  <1>8. CASE Restart
    <2>1. torn' \in [StageIds -> BOOLEAN]
      <3> DEFINE T(i) == \/ torn[i]
                         \/ eval.at \in {"log", "record"} /\ eval.why = "due" /\ eval.i = i
                         \/ eval.at \notin {"idle", "begin"} /\ Classified.state = "ok"
      <3>1. torn' = [i \in StageIds |-> T(i)]
        BY <1>8 DEF Restart
      <3>2. \A i \in StageIds : T(i) \in BOOLEAN
        BY DEF TypeOK
      <3> HIDE DEF T
      <3> QED
        BY <3>1, <3>2
    <2>2. downSince' \in Times /\ thrSince' \in Times /\ thr' \in {"ok", "warn", "crit"}
      BY <1>8, Constants DEF TypeOK, Restart
    <2> QED
      BY <1>8, <2>1, <2>2, Constants DEF TypeOK, Restart
  <1>9. CASE UNCHANGED vars
    BY <1>9 DEF TypeOK, vars, sensorVars, observed
  <1> QED
    BY <1>1, <1>2, <1>3, <1>4, <1>5, <1>6, <1>7, <1>8, <1>9 DEF Next

\* Every variable keeps its type.
THEOREM AlertTypes == Spec => []TypeOK
  BY TypesInit, TypesStep, PTL DEF Spec

-----------------------------------------------------------------------------
(* Where an evaluation is.                                                 *)

LEMMA StepsInit == Init => Steps
  BY DEF Init, Steps, Resting, Firing

\* No step but an edit, at rest, and a clean-up forgets what was on record.
LEMMA PriorKept ==
    ASSUME NEW i \in StageIds, TypeOK, history' = history
    PROVE  HadPriorFire(i)' <=> HadPriorFire(i)
  BY DEF HadPriorFire

LEMMA StepsEvaluate ==
    ASSUME TypeOK, TypeOK', Steps, Evaluate
    PROVE  Steps'
  <1>0. Classified' = Classified
    BY ClassifiedSame DEF Evaluate, Begin, Passed, Gated, FireState, FireRecovery, Send,
          LogEvent, Record, NextStage, Cleanup, ResolveEvents, Finish, sensorVars
  <1>1. CASE Begin
    BY <1>0, <1>1 DEF Steps, Begin, Resting, Firing, TypeOK
  <1>2. ASSUME NEW i \in StageIds, Passed(i)
        PROVE  Steps'
    BY <1>0, <1>2 DEF Steps, Passed, To, Firing, TypeOK
  <1>3. ASSUME NEW i \in StageIds, Gated(i)
        PROVE  Steps'
    BY <1>0, <1>3 DEF Steps, Gated, Firing, TypeOK
  <1>4. ASSUME NEW i \in StageIds, FireState(i)
        PROVE  Steps'
    <2>1. IsState(i) /\ ~IsRecovery(i)
      BY <1>4, StageFacts DEF FireState, Matches
    <2>2. eval'.i = i /\ eval'.at \in {"log", "send"} /\ hasFired'
          /\ (eval'.at = "send" => eval'.why = "due")
      <3>1. /\ hasFired' /\ eval.i = i
            /\ \/ To("log", "acked") \/ To("log", "duplicate") \/ To("send", "due")
        BY <1>4 DEF FireState
      <3> QED
        BY <3>1 DEF To, TypeOK
    <2> QED
      BY <2>1, <2>2 DEF Steps, IsRecovery
  <1>5. ASSUME NEW i \in StageIds, FireRecovery(i)
        PROVE  Steps'
    <2>1. eval'.i = i /\ eval'.at = "send" /\ eval'.why = "due" /\ hasFired' = hasFired
          /\ history' = history /\ RecoveryDue(i)
      BY <1>5 DEF FireRecovery, TypeOK
    <2>2. HadPriorFire(i)'
      BY <2>1, PriorKept DEF RecoveryDue
    <2> QED
      BY <1>0, <2>1, <2>2 DEF Steps, RecoveryDue
  <1>6. ASSUME NEW i \in StageIds, Send(i)
        PROVE  Steps'
    <2>1. eval'.i = i /\ eval'.at = "log" /\ hasFired' = hasFired /\ history' = history
          /\ eval.at = "send" /\ eval.i = i
      BY <1>6 DEF Send, TypeOK
    <2> QED
      BY <1>0, <2>1, PriorKept DEF Steps, Firing
  <1>7. ASSUME NEW i \in StageIds, LogEvent(i)
        PROVE  Steps'
    <2>1. eval'.i = i /\ eval'.at = "record" /\ hasFired' = hasFired /\ history' = history
          /\ eval.at = "log" /\ eval.i = i
      BY <1>7 DEF LogEvent, TypeOK
    <2> QED
      BY <1>0, <2>1, PriorKept DEF Steps, Firing
  <1>8. ASSUME NEW i \in StageIds, Record(i)
        PROVE  Steps'
    BY <1>0, <1>8 DEF Steps, Record, Firing, TypeOK
  <1>9. CASE NextStage
    <2>1. /\ eval'.at \in {"stage", "cleanup", "finish"} /\ hasFired' = hasFired
          /\ eval'.at = "cleanup" => Classified.state = "ok"
      BY <1>9 DEF NextStage, TypeOK
    <2> QED
      BY <1>0, <2>1 DEF Steps, Firing
  <1>10. CASE Cleanup
    BY <1>0, <1>10 DEF Steps, Cleanup, Firing, TypeOK
  <1>11. CASE ResolveEvents
    BY <1>0, <1>11 DEF Steps, ResolveEvents, Firing, TypeOK
  <1>12. CASE Finish
    BY <1>0, <1>12 DEF Steps, Finish, Resting, Firing, TypeOK
  <1> QED
    BY <1>1, <1>2, <1>3, <1>4, <1>5, <1>6, <1>7, <1>8, <1>9, <1>10, <1>11, <1>12 DEF Evaluate

LEMMA StepsStep ==
    ASSUME TypeOK, TypeOK', Steps, [Next]_vars
    PROVE  Steps'
  <1>1. ASSUME NEW isDown \in BOOLEAN, NEW level \in {"ok", "warn", "crit"}, Cycle(isDown, level)
        PROVE  Steps'
    BY <1>1 DEF Steps, Cycle, Resting, Firing
  <1>2. ASSUME eval' = eval, eval.at \notin Firing \cup {"cleanup", "resolve"}
        PROVE  Steps'
    BY <1>2 DEF Steps, Firing
  <1>3. ASSUME eval' = eval, hasFired' = hasFired, history' = history, Classified' = Classified
        PROVE  Steps'
    <2>1. eval.i \in StageIds
      BY DEF TypeOK
    <2>2. HadPriorFire(eval.i)' <=> HadPriorFire(eval.i)
      BY <1>3, <2>1, PriorKept
    <2> QED
      BY <1>3, <2>2 DEF Steps, Firing
  <1>4. CASE Tick
    BY <1>2, <1>4 DEF Tick, Firing
  <1>5. CASE ToggleMute
    BY <1>2, <1>5 DEF ToggleMute, Firing
  <1>6. CASE AckEvent
    BY <1>3, <1>6, ClassifiedSame DEF AckEvent, sensorVars
  <1>7. CASE ResolveByHand
    BY <1>3, <1>7, ClassifiedSame DEF ResolveByHand, sensorVars
  <1>8. CASE EditProfile
    BY <1>2, <1>8 DEF EditProfile, Firing
  <1>9. CASE Restart
    BY <1>9 DEF Steps, Restart, Resting, Firing
  <1>10. CASE UNCHANGED vars
    BY <1>3, <1>10, ClassifiedSame DEF vars, sensorVars
  <1>11. CASE Evaluate
    BY <1>11, StepsEvaluate
  <1> QED
    BY <1>1, <1>4, <1>5, <1>6, <1>7, <1>8, <1>9, <1>10, <1>11 DEF Next

-----------------------------------------------------------------------------
(* Once per episode.                                                       *)

\* An episode that is forgotten has no dispatch.
LEMMA ForgottenDispatch ==
    ASSUME \A i \in StageIds : sent'[i] = 0
    PROVE  Dispatched'
  BY DEF Dispatched

LEMMA DispatchedInit == Init => Dispatched
  BY DEF Init, Dispatched, Resting

\* What a step leaves alone of a stage keeps what is said of its dispatches.
LEMMA DispatchedKept ==
    ASSUME TypeOK, Dispatched, sent' = sent, torn' = torn, Classified' = Classified,
           eval' = eval, history' = history, Open => Open'
    PROVE  Dispatched'
  BY DEF Dispatched, StateSent, RecoverySent, Well

LEMMA OnceEvaluate ==
    ASSUME TypeOK, TypeOK', Steps, Dispatched, Evaluate
    PROVE  Dispatched'
  <1>0. Classified' = Classified
    BY ClassifiedSame DEF Evaluate, Begin, Passed, Gated, FireState, FireRecovery, Send,
          LogEvent, Record, NextStage, Cleanup, ResolveEvents, Finish, sensorVars
  <1> DEFINE Due(i) == /\ sent[i] <= 1
                       /\ eval.at = "send" /\ eval.i = i => sent[i] = 0
                       /\ sent[i] = 1 => IF IsState(i) THEN StateSent(i) ELSE RecoverySent(i)
  <1> DEFINE Spared(i) == Stages[i].repeat = 0 /\ ~torn[i]
  <1>a. \A i \in StageIds : sent[i] \in 0..2
    BY DEF TypeOK
  <1>b. \A i \in StageIds : IsState(i) <=> ~IsRecovery(i)
    BY StageFacts
  <1>c. \A i \in StageIds : Spared(i) => Due(i)
    BY DEF Dispatched
  <1>d. \A i \in StageIds : i \in Nat
    BY StageFacts
  <1>e. eval.i \in StageIds /\ StageIds = 1..Len(Stages) /\ Len(Stages) \in Nat
    BY StageFacts DEF TypeOK
  <1>1. CASE Begin
    <2>1. sent' = sent /\ torn' = torn /\ history' = history /\ event' = event
          /\ eval.at = "begin" /\ eval'.at \in {"idle", "stage"}
      BY <1>1 DEF Begin, Resting, TypeOK, observed
    <2> SUFFICES ASSUME NEW i \in StageIds, Spared(i)
                 PROVE  Due(i)'
      BY <2>1 DEF Dispatched
    <2>2. Due(i)
      BY <1>c
    <2> QED
      BY <1>0, <2>1, <2>2 DEF StateSent, RecoverySent, Well, Open
  <1>2. ASSUME NEW i \in StageIds, Passed(i) \/ Gated(i)
        PROVE  Dispatched'
    <2>1. sent' = sent /\ torn' = torn /\ history' = history /\ event' = event
          /\ eval.at = "stage" /\ eval'.at = "next" /\ eval'.i = eval.i
      BY <1>2 DEF Passed, Gated, To, TypeOK, observed
    <2> SUFFICES ASSUME NEW j \in StageIds, Spared(j)
                 PROVE  Due(j)'
      BY <2>1 DEF Dispatched
    <2>2. Due(j)
      BY <1>c
    <2> QED
      BY <1>0, <2>1, <2>2 DEF StateSent, RecoverySent, Well, Open
  <1>3. ASSUME NEW k \in StageIds, FireState(k)
        PROVE  Dispatched'
    <2>1. /\ sent' = sent /\ torn' = torn /\ history' = history /\ event' = event
          /\ eval.at = "stage" /\ eval.i = k /\ eval'.i = k /\ eval'.at \in {"log", "send"}
          /\ Matches(k) /\ (NewSession(k) \/ RepeatDue(k))
          /\ (eval'.at = "send" => ~DuplicateGate(k))
      <3>1. /\ sent' = sent /\ torn' = torn /\ history' = history /\ event' = event
            /\ eval.at = "stage" /\ eval.i = k
            /\ Matches(k) /\ (NewSession(k) \/ RepeatDue(k))
            /\ \/ To("log", "acked") \/ To("log", "duplicate")
               \/ To("send", "due") /\ ~DuplicateGate(k)
        BY <1>3 DEF FireState
      <3>2. eval'.i = eval.i /\ eval'.at \in {"log", "send"}
            /\ (eval'.at = "send" => ~DuplicateGate(k))
        BY <3>1 DEF To, TypeOK
      <3> QED
        BY <3>1, <3>2
    <2> SUFFICES ASSUME NEW i \in StageIds, Spared(i)
                 PROVE  Due(i)'
      BY <2>1 DEF Dispatched
    <2>2. Due(i) /\ sent[i] \in 0..2
      BY <1>a, <1>c
    <2>3. Classified.state # "ok" /\ IsState(k)
      BY <2>1 DEF Matches, IsState, StateTriggers
    <2>4. eval'.at = "send" /\ i = k => sent[i] = 0
      <3> SUFFICES ASSUME eval'.at = "send", i = k, sent[i] = 1
                   PROVE  FALSE
        BY <2>2
      <3>1. Open /\ history[i].count > 0
        BY <2>1, <2>2, <2>3 DEF StateSent, Well
      <3>2. ~RepeatDue(i)
        BY StageFacts DEF RepeatDue
      <3> QED
        BY <2>1, <3>1, <3>2 DEF DuplicateGate
    <2>5. sent[i] = 1 => IF IsState(i) THEN StateSent(i)' ELSE RecoverySent(i)'
      BY <1>0, <2>1, <2>2, <2>3 DEF StateSent, RecoverySent, Well, Open
    <2> QED
      BY <2>1, <2>2, <2>4, <2>5
  <1>4. ASSUME NEW k \in StageIds, FireRecovery(k)
        PROVE  Dispatched'
    <2>1. /\ sent' = sent /\ torn' = torn /\ history' = history /\ event' = event
          /\ eval.at = "stage" /\ eval.i = k /\ eval'.i = k /\ eval'.at = "send"
          /\ RecoveryDue(k)
      BY <1>4 DEF FireRecovery, TypeOK, observed
    <2> SUFFICES ASSUME NEW i \in StageIds, Spared(i)
                 PROVE  Due(i)'
      BY <2>1 DEF Dispatched
    <2>2. Due(i) /\ sent[i] \in 0..2
      BY <1>a, <1>c
    <2>3. IsRecovery(k) /\ ~IsState(k) /\ Classified.state = "ok"
      BY <1>b, <2>1 DEF RecoveryDue
    <2>4. i = k => sent[i] = 0
      BY <1>d, <2>1, <2>2, <2>3 DEF RecoverySent
    <2>5. sent[i] = 1 => IF IsState(i) THEN StateSent(i)' ELSE RecoverySent(i)'
      BY <1>0, <2>1, <2>2, <2>3 DEF StateSent, RecoverySent, Well
    <2> QED
      BY <2>1, <2>2, <2>4, <2>5
  <1>5. ASSUME NEW k \in StageIds, Send(k)
        PROVE  Dispatched'
    <2>1. /\ torn' = torn /\ history' = history /\ event' = event
          /\ eval.at = "send" /\ eval.i = k /\ eval'.i = k /\ eval'.at = "log"
          /\ eval'.why = "due" /\ \A i \in StageIds \ {k} : sent'[i] = sent[i]
          /\ sent'[k] = IF sent[k] < 2 THEN sent[k] + 1 ELSE sent[k]
      BY <1>5 DEF Send, TypeOK, Steps
    <2> SUFFICES ASSUME NEW i \in StageIds, Spared(i)
                 PROVE  Due(i)'
      BY <2>1 DEF Dispatched
    <2>2. Due(i) /\ sent[i] \in 0..2
      BY <1>a, <1>c
    <2>3. CASE i = k
      <3>1. sent'[i] = 1
        BY <2>1, <2>2, <2>3
      <3>2. CASE IsState(i)
        BY <2>1, <2>3, <3>1, <3>2 DEF StateSent
      <3>3. CASE IsRecovery(i)
        <4>1. Classified.state = "ok" /\ i <= i
          BY <1>d, <2>1, <2>3, <3>3 DEF Steps, Firing
        <4> QED
          BY <1>0, <1>b, <2>1, <2>3, <3>1, <3>3, <4>1 DEF RecoverySent, Well
      <3> QED
        BY <1>b, <3>2, <3>3
    <2>4. CASE i # k
      BY <1>0, <2>1, <2>2, <2>4 DEF StateSent, RecoverySent, Well, Open
    <2> QED
      BY <2>3, <2>4
  <1>6. ASSUME NEW k \in StageIds, LogEvent(k)
        PROVE  Dispatched'
    <2>1. /\ sent' = sent /\ torn' = torn /\ history' = history
          /\ eval.at = "log" /\ eval.i = k /\ eval'.i = k /\ eval'.at = "record"
          /\ eval'.why = eval.why
          /\ (IsState(k) => Open')
      BY <1>6, <1>b DEF LogEvent, TypeOK, observed, Open
    <2> SUFFICES ASSUME NEW i \in StageIds, Spared(i)
                 PROVE  Due(i)'
      BY <2>1 DEF Dispatched
    <2>2. Due(i) /\ sent[i] \in 0..2
      BY <1>a, <1>c
    <2>3. IsState(k) \/ Classified.state = "ok"
      BY <1>b, <2>1 DEF Steps, Firing
    <2> QED
      BY <1>0, <2>1, <2>2, <2>3 DEF StateSent, RecoverySent, Well
  <1>7. ASSUME NEW k \in StageIds, Record(k)
        PROVE  Dispatched'
    <2>1. /\ sent' = sent /\ torn' = torn /\ event' = event
          /\ eval.at = "record" /\ eval.i = k /\ eval'.i = k /\ eval'.at = "next"
          /\ \A i \in StageIds : history'[i].count = IF i = k THEN 1 ELSE history[i].count
      BY <1>7 DEF Record, TypeOK, observed
    <2> SUFFICES ASSUME NEW i \in StageIds, Spared(i)
                 PROVE  Due(i)'
      BY <2>1 DEF Dispatched
    <2>2. Due(i)
      BY <1>c
    <2> QED
      BY <1>0, <2>1, <2>2 DEF StateSent, RecoverySent, Well, Open
  <1>8. CASE NextStage
    <2>1. /\ sent' = sent /\ torn' = torn /\ event' = event /\ history' = history
          /\ eval.at = "next" /\ eval'.at \in {"stage", "cleanup", "finish"}
          /\ (IF eval'.at = "stage" THEN eval'.i = eval.i + 1 ELSE eval'.i = eval.i)
      BY <1>8 DEF NextStage, TypeOK, observed
    <2> SUFFICES ASSUME NEW i \in StageIds, Spared(i)
                 PROVE  Due(i)'
      BY <2>1 DEF Dispatched
    <2>2. Due(i)
      BY <1>c
    <2>3. eval.i \in Nat /\ i \in Nat
      BY <1>d, <1>e
    <2> QED
      BY <1>0, <2>1, <2>2, <2>3 DEF StateSent, RecoverySent, Well, Open
  <1>9. CASE Cleanup \/ ResolveEvents
    <2>1. /\ sent' = sent /\ torn' = torn /\ eval'.i = eval.i
          /\ eval.at \in {"cleanup", "resolve"} /\ eval'.at \in {"resolve", "finish"}
      BY <1>9 DEF Cleanup, ResolveEvents, TypeOK, observed
    <2> SUFFICES ASSUME NEW i \in StageIds, Spared(i)
                 PROVE  Due(i)'
      BY <2>1 DEF Dispatched
    <2>2. Due(i) /\ Classified.state = "ok"
      BY <1>c, <2>1 DEF Steps
    <2> QED
      BY <1>0, <2>1, <2>2 DEF StateSent, RecoverySent, Well
  <1>10. CASE Finish
    <2>1. CASE EpisodeOver
      BY <1>10, <2>1, ForgottenDispatch DEF Finish, Forget
    <2>2. CASE ~EpisodeOver
      <3>1. /\ sent' = sent /\ torn' = torn /\ event' = event /\ history' = history
            /\ eval.at = "finish" /\ Classified.state # "ok" /\ eval'.at = "idle"
        BY <1>10, <2>2 DEF Finish, EpisodeOver, Resting, observed
      <3> SUFFICES ASSUME NEW i \in StageIds, Spared(i)
                   PROVE  Due(i)'
        BY <3>1 DEF Dispatched
      <3>2. Due(i)
        BY <1>c
      <3> QED
        BY <1>0, <3>1, <3>2 DEF StateSent, RecoverySent, Well, Open
    <2> QED
      BY <2>1, <2>2
  <1> QED
    BY <1>1, <1>2, <1>3, <1>4, <1>5, <1>6, <1>7, <1>8, <1>9, <1>10 DEF Evaluate

LEMMA OnceStep ==
    ASSUME TypeOK, TypeOK', Steps, Dispatched, [Next]_vars
    PROVE  Dispatched'
  <1>1. ASSUME NEW isDown \in BOOLEAN, NEW level \in {"ok", "warn", "crit"}, Cycle(isDown, level)
        PROVE  Dispatched'
    <2>1. /\ sent' = sent /\ torn' = torn /\ event' = event /\ history' = history
          /\ eval.at = "idle" /\ eval'.at # "send"
      BY <1>1 DEF Cycle, Resting, observed
    <2> QED
      BY <2>1 DEF Dispatched, StateSent, RecoverySent, Well, Open
  <1>2. CASE Tick
    BY <1>2, DispatchedKept, ClassifiedSame DEF Tick, Open, sensorVars, observed
  <1>3. CASE ToggleMute
    BY <1>3, DispatchedKept, ClassifiedSame DEF ToggleMute, Open, observed
  <1>4. CASE AckEvent
    BY <1>4, DispatchedKept, ClassifiedSame DEF AckEvent, Open, TypeOK, sensorVars, observed
  <1>5. CASE ResolveByHand
    BY <1>5, ForgottenDispatch DEF ResolveByHand
  <1>6. CASE EditProfile
    BY <1>6, ForgottenDispatch DEF EditProfile, Forget
  <1>7. CASE Restart
    <2>1. /\ sent' = sent /\ event' = event /\ history' = history /\ eval'.at = "idle"
          /\ \A i \in StageIds :
                /\ torn[i] => torn'[i]
                /\ eval.at \in {"log", "record"} /\ eval.why = "due" /\ eval.i = i => torn'[i]
                /\ Well => torn'[i]
      BY <1>7 DEF Restart, Resting, Well
    <2> QED
      BY <2>1 DEF Dispatched, StateSent, RecoverySent, Open
  <1>8. CASE UNCHANGED vars
    BY <1>8, DispatchedKept, ClassifiedSame DEF vars, Open, sensorVars, observed
  <1>9. CASE Evaluate
    BY <1>9, OnceEvaluate
  <1> QED
    BY <1>1, <1>2, <1>3, <1>4, <1>5, <1>6, <1>7, <1>8, <1>9 DEF Next

\* A stage without a repeat interval is dispatched once in an episode, whatever
\* the profiles (_evaluate_profile_stages and the duplicate gate of _fire).
THEOREM OnceIsAlways == Spec => []OncePerEpisode
  <1>1. Init => OnceInv
    BY TypesInit, StepsInit, DispatchedInit DEF OnceInv
  <1>2. OnceInv /\ [Next]_vars => OnceInv'
    BY TypesStep, StepsStep, OnceStep DEF OnceInv
  <1>3. OnceInv => OncePerEpisode
    BY DEF OnceInv, Dispatched, OncePerEpisode
  <1> QED
    BY <1>1, <1>2, <1>3, PTL DEF Spec

-----------------------------------------------------------------------------
(* Nothing left, nothing swallowed.                                        *)

LEMMA CleanInit == Init => Clean /\ Told
  BY DEF Init, Clean, Told, Resting, NoFire, EpisodeOver

\* What a step leaves alone of the records keeps what is said of them.
LEMMA CleanKept ==
    ASSUME TypeOK, Clean, history' = history, checked' = checked, hasFired' = hasFired,
           eval' = eval, Classified' = Classified,
           event.state = "none" => event'.state = "none"
    PROVE  Clean'
  BY DEF Clean, NoHistory, EpisodeOver

LEMMA CleanEvaluate ==
    ASSUME OneProfile, TypeOK, TypeOK', Steps, Clean, Evaluate
    PROVE  Clean'
  <1>0. Classified' = Classified
    BY ClassifiedSame DEF Evaluate, Begin, Passed, Gated, FireState, FireRecovery, Send,
          LogEvent, Record, NextStage, Cleanup, ResolveEvents, Finish, sensorVars
  <1>a. \A i \in StageIds : history[i].count \in 0..1
    BY DEF TypeOK
  <1>1. CASE Begin
    <2>1. history' = history /\ event' = event /\ checked' = checked /\ hasFired' = hasFired
          /\ eval.at = "begin" /\ eval'.at \in {"idle", "stage"}
      BY <1>1 DEF Begin, Resting, TypeOK
    <2> QED
      BY <2>1 DEF Clean, NoHistory, EpisodeOver
  <1>2. ASSUME NEW i \in StageIds, Passed(i) \/ Gated(i) \/ FireState(i) \/ FireRecovery(i) \/ Send(i)
        PROVE  Clean'
    <2>1. history' = history /\ event' = event /\ checked' = checked
      BY <1>2 DEF Passed, Gated, FireState, FireRecovery, Send
    <2>2. hasFired' \/ hasFired' = hasFired
      BY <1>2 DEF Passed, Gated, FireState, FireRecovery, Send, observed
    <2>3. eval.at # "resolve" /\ eval'.at \notin {"resolve", "finish"}
      <3>1. CASE Passed(i)
        BY <3>1 DEF Passed, To, TypeOK
      <3>2. CASE Gated(i)
        BY <3>2 DEF Gated, TypeOK
      <3>3. CASE FireState(i)
        BY <3>3 DEF FireState, To, TypeOK
      <3>4. CASE FireRecovery(i)
        BY <3>4 DEF FireRecovery, TypeOK
      <3>5. CASE Send(i)
        BY <3>5 DEF Send, TypeOK
      <3> QED
        BY <1>2, <3>1, <3>2, <3>3, <3>4, <3>5
    <2> QED
      BY <1>0, <2>1, <2>2, <2>3 DEF Clean, NoHistory, EpisodeOver, TypeOK
  <1>3. ASSUME NEW k \in StageIds, LogEvent(k)
        PROVE  Clean'
    <2>1. history' = history /\ hasFired' = hasFired /\ hasFired
          /\ eval'.at = "record"
      BY <1>3 DEF LogEvent, Steps, Firing, TypeOK
    <2> QED
      BY <1>0, <2>1 DEF Clean, NoHistory, EpisodeOver
  <1>4. ASSUME NEW k \in StageIds, Record(k)
        PROVE  Clean'
    <2>1. /\ hasFired' = hasFired /\ hasFired /\ eval'.at = "next"
          /\ \A i \in StageIds : history'[i].count = IF i = k THEN 1 ELSE history[i].count
          /\ (IsRecovery(k) => HadPriorFire(k))
      BY <1>4 DEF Record, Steps, Firing, TypeOK
    <2>2. \E j \in StageIds : IsState(j) /\ history'[j].count > 0
      <3>1. CASE IsState(k)
        BY <2>1, <3>1
      <3>2. CASE IsRecovery(k)
        <4>1. PICK j \in StageIds : Stages[j].trigger = Target(k) /\ history[j].count > 0
          BY <2>1, <3>2 DEF HadPriorFire
        <4>2. IsState(j)
          BY <4>1, StageFacts DEF IsState
        <4>3. history'[j].count > 0
          BY <2>1, <4>1
        <4> QED
          BY <4>2, <4>3
      <3> QED
        BY <3>1, <3>2, StageFacts
    <2> QED
      BY <2>1, <2>2 DEF Clean, NoHistory, EpisodeOver
  <1>5. CASE NextStage
    <2>1. /\ history' = history /\ event' = event /\ checked' = checked /\ hasFired' = hasFired
          /\ eval.at = "next" /\ eval'.at \in {"stage", "cleanup", "finish"}
          /\ (eval'.at = "finish" => Classified.state # "ok")
      BY <1>5 DEF NextStage, TypeOK
    <2> QED
      BY <1>0, <2>1 DEF Clean, NoHistory, EpisodeOver
  <1>6. CASE Cleanup
    <2>1. CASE CleanupDue
      <3>1. NoHistory' /\ eval'.at = "resolve"
        BY <1>6, <2>1 DEF Cleanup, NoHistory, NoFire, TypeOK
      <3> QED
        BY <3>1, <1>a DEF Clean, NoHistory, EpisodeOver
    <2>2. CASE ~CleanupDue
      <3>1. /\ history' = history /\ event' = event /\ hasFired' = hasFired
            /\ eval.at = "cleanup" /\ eval'.at = "finish"
        BY <1>6, <2>2 DEF Cleanup, TypeOK
      <3>2. NoHistory /\ event.state = "none"
        <4>1. CASE ~hasFired /\ checked
          BY <3>1, <4>1 DEF Clean
        <4>2. CASE hasFired \/ ~checked
          <5>1. /\ ~Open
                /\ \A i \in StageIds :
                      Stages[i].profile = Stages[1].profile /\ IsState(i) => ~(history[i].count > 0)
            BY <2>2, <4>2 DEF CleanupDue
          <5>2. \A i \in StageIds : IsState(i) => ~(history[i].count > 0)
            BY <5>1 DEF OneProfile
          <5>3. \A i \in StageIds : ~(history[i].count > 0)
            BY <5>2, StageFacts DEF Clean
          <5>4. NoHistory
            BY <1>a, <5>3 DEF NoHistory
          <5>5. event.state = "none"
            BY <5>1 DEF Open, TypeOK
          <5> QED
            BY <5>4, <5>5
        <4> QED
          BY <4>1, <4>2
      <3>3. NoHistory' /\ event'.state = "none"
        BY <3>1, <3>2 DEF NoHistory
      <3> QED
        BY <3>1, <3>3, <1>a DEF Clean, NoHistory
    <2> QED
      BY <2>1, <2>2
  <1>7. CASE ResolveEvents
    <2>1. NoHistory' /\ event'.state = "none" /\ eval'.at = "finish"
      BY <1>7 DEF ResolveEvents, Clean, NoHistory, NoEvent, TypeOK
    <2> QED
      BY <2>1 DEF Clean, NoHistory
  <1>8. CASE Finish
    BY <1>0, <1>8 DEF Finish, Resting, Clean, NoHistory, EpisodeOver
  <1> QED
    BY <1>1, <1>2, <1>3, <1>4, <1>5, <1>6, <1>7, <1>8 DEF Evaluate

LEMMA CleanStep ==
    ASSUME OneProfile, TypeOK, TypeOK', Steps, Clean, [Next]_vars
    PROVE  Clean'
  <1>1. ASSUME NEW isDown \in BOOLEAN, NEW level \in {"ok", "warn", "crit"}, Cycle(isDown, level)
        PROVE  Clean'
    <2>1. /\ history' = history /\ event' = event /\ checked' = checked /\ hasFired' = hasFired
          /\ eval.at = "idle" /\ eval'.at \in {"idle", "begin"}
      BY <1>1 DEF Cycle, Resting
    <2> QED
      BY <2>1 DEF Clean, NoHistory, EpisodeOver
  <1>2. CASE Tick
    BY <1>2, CleanKept, ClassifiedSame DEF Tick, sensorVars
  <1>3. CASE ToggleMute
    BY <1>3, CleanKept, ClassifiedSame DEF ToggleMute
  <1>4. CASE AckEvent
    BY <1>4, CleanKept, ClassifiedSame DEF AckEvent, sensorVars
  <1>5. CASE ResolveByHand
    BY <1>5, CleanKept, ClassifiedSame DEF ResolveByHand, NoEvent, sensorVars
  <1>6. CASE EditProfile
    <2>1. NoHistory' /\ event' = event /\ checked' = checked /\ hasFired' = hasFired
          /\ eval' = eval /\ eval.at = "idle"
      BY <1>6 DEF EditProfile, NoHistory, NoFire
    <2> QED
      BY <2>1 DEF Clean, NoHistory, EpisodeOver
  <1>7. CASE Restart
    <2>1. history' = history /\ checked' = FALSE /\ eval'.at = "idle"
      BY <1>7 DEF Restart, Resting
    <2> QED
      BY <2>1 DEF Clean, NoHistory, EpisodeOver
  <1>8. CASE UNCHANGED vars
    BY <1>8, CleanKept, ClassifiedSame DEF vars, sensorVars
  <1>9. CASE Evaluate
    BY <1>9, CleanEvaluate
  <1> QED
    BY <1>1, <1>2, <1>3, <1>4, <1>5, <1>6, <1>7, <1>8, <1>9 DEF Next

\* What a step leaves alone of the records keeps what is said of who was told.
LEMMA ToldKept ==
    ASSUME TypeOK, Told, told' = told,
           \A i \in StageIds : history'[i].count > 0 => history[i].count > 0,
           eval' = eval \/ (eval'.why = "none" /\ eval'.at \notin {"log", "record"})
    PROVE  Told'
  BY DEF Told

LEMMA ToldStep ==
    ASSUME TypeOK, TypeOK', Steps, Clean, Told, [Next]_vars
    PROVE  Told'
  <1>1. ASSUME NEW isDown \in BOOLEAN, NEW level \in {"ok", "warn", "crit"}, Cycle(isDown, level)
        PROVE  Told'
    BY <1>1, ToldKept DEF Cycle, Resting, observed
  <1>2. CASE Tick \/ ToggleMute \/ AckEvent \/ ResolveByHand \/ UNCHANGED vars
    BY <1>2, ToldKept DEF Tick, ToggleMute, AckEvent, ResolveByHand, vars, observed
  <1>3. CASE EditProfile
    BY <1>3 DEF EditProfile, Forget, NoFire, Told, Steps
  <1>4. CASE Restart
    BY <1>4, ToldKept DEF Restart, Resting
  <1>5. CASE Begin
    <2>1. told' = told /\ history' = history /\ eval'.at \notin {"log", "record"}
          /\ (eval' = Resting \/ eval' = [eval EXCEPT !.at = "stage"])
      BY <1>5 DEF Begin, Resting, TypeOK, observed
    <2> QED
      BY <2>1 DEF Told, Resting, TypeOK
  <1>6. ASSUME NEW i \in StageIds, Passed(i)
        PROVE  Told'
    <2>1. told' = told /\ history' = history /\ eval'.at = "next" /\ eval'.i = i
      BY <1>6 DEF Passed, To, TypeOK, observed
    <2>2. CASE Matches(i)
      <3>1. ~NewSession(i)
        BY <1>6, <2>2 DEF Passed
      <3>2. history[i].count > 0
        BY <3>1 DEF NewSession, TypeOK
      <3> QED
        BY <2>1, <3>2 DEF Told
    <2>3. CASE ~Matches(i)
      <3>1. eval'.why = "nomatch"
        BY <1>6, <2>3 DEF Passed, To, TypeOK
      <3> QED
        BY <2>1, <3>1 DEF Told
    <2> QED
      BY <2>2, <2>3
  <1>7. ASSUME NEW i \in StageIds, Gated(i)
        PROVE  Told'
    BY <1>7 DEF Gated, Told, TypeOK, observed
  <1>8. ASSUME NEW i \in StageIds, FireState(i)
        PROVE  Told'
    <2>1. CASE AckGate(i)
      BY <1>8, <2>1 DEF FireState, To, Told, TypeOK
    <2>2. CASE ~AckGate(i)
      BY <1>8, <2>2 DEF FireState, To, DuplicateGate, Told, TypeOK
    <2> QED
      BY <2>1, <2>2
  <1>9. ASSUME NEW i \in StageIds, FireRecovery(i)
        PROVE  Told'
    BY <1>9 DEF FireRecovery, Told, TypeOK, observed
  <1>10. ASSUME NEW i \in StageIds, Send(i)
        PROVE  Told'
    BY <1>10 DEF Send, Told, TypeOK
  <1>11. ASSUME NEW i \in StageIds, LogEvent(i)
        PROVE  Told'
    BY <1>11 DEF LogEvent, Told, TypeOK, observed
  <1>12. ASSUME NEW i \in StageIds, Record(i)
        PROVE  Told'
    BY <1>12 DEF Record, Told, TypeOK, observed
  <1>13. CASE NextStage
    <2>1. told' = told /\ history' = history /\ eval'.why = "none"
          /\ eval'.at \notin {"log", "record"}
      BY <1>13 DEF NextStage, TypeOK, observed
    <2> QED
      BY <2>1 DEF Told
  <1>14. CASE Cleanup
    <2>1. told' = told /\ eval'.why = eval.why /\ eval'.i = eval.i
          /\ eval'.at \notin {"log", "record"}
          /\ \A i \in StageIds : history'[i].count > 0 => history[i].count > 0
      BY <1>14 DEF Cleanup, NoFire, TypeOK, observed
    <2> QED
      BY <2>1 DEF Told
  <1>15. CASE ResolveEvents
    BY <1>15 DEF ResolveEvents, Told, TypeOK, observed
  <1>16. CASE Finish
    <2>1. CASE EpisodeOver
      BY <1>16, <2>1 DEF Finish, Clean, NoHistory, Told, Resting
    <2>2. CASE ~EpisodeOver
      BY <1>16, <2>2, ToldKept DEF Finish, Resting, observed
    <2> QED
      BY <2>1, <2>2
  <1> QED
    BY <1>1, <1>2, <1>3, <1>4, <1>5, <1>6, <1>7, <1>8, <1>9, <1>10, <1>11, <1>12, <1>13,
       <1>14, <1>15, <1>16 DEF Next, Evaluate

LEMMA CleanIsInvariant ==
    ASSUME OneProfile
    PROVE  Spec => []CleanInv
  <1>1. Init => CleanInv
    BY TypesInit, StepsInit, CleanInit DEF CleanInv
  <1>2. CleanInv /\ [Next]_vars => CleanInv'
    BY OneProfile, TypesStep, StepsStep, CleanStep, ToldStep DEF CleanInv
  <1> QED
    BY <1>1, <1>2, PTL DEF Spec

\* When the down and warning stages belong to one profile, an evaluation that
\* finds the sensor well leaves nothing of the incident, even one cut short by
\* restarts (evaluate_and_fire's clean-up and its first look after a boot).
THEOREM CleanIsAlways ==
    ASSUME OneProfile
    PROVE  Spec => []CleanAfterOk
  <1>1. CleanInv => CleanAfterOk
    BY DEF CleanInv, Clean, CleanAfterOk, NoHistory
  <1> QED
    BY <1>1, CleanIsInvariant, PTL

\* And the session dedup and the duplicate gate swallow no stage that was
\* neither dispatched nor silenced by an acknowledgement in the episode.
THEOREM NoSilenceEver ==
    ASSUME OneProfile
    PROVE  Spec => []NoSilentStage
  <1>1. CleanInv => NoSilentStage
    BY DEF CleanInv, Told, NoSilentStage
  <1> QED
    BY <1>1, CleanIsInvariant, PTL
=============================================================================
