---------------------------- MODULE AlertEngine ----------------------------
(***************************************************************************)
(* The alert profile engine of one sensor                                  *)
(* (monitoring/alert_profile_engine.py, db/alert_events.py and the stage   *)
(* state of db/alert_profiles.py): after every probe cycle the stages of   *)
(* the profiles that apply are walked in order, and each is dispatched     *)
(* once per session, again on its repeat interval, or not at all while a   *)
(* maintenance window, an upstream outage or an acknowledgement gates it.  *)
(*                                                                         *)
(* The sensor is reduced to what the engine reads of it: when it went down *)
(* and when its threshold was crossed.  Time is a bounded clock of ticks,  *)
(* and a session is named by its start.  Operators act between the steps   *)
(* of an evaluation and the server may restart at any of them.             *)
(***************************************************************************)
EXTENDS Naturals, Sequences, FiniteSets

CONSTANTS Stages,    \* the stages of the matching profiles, narrowest first
          Gates,     \* of {"maintenance", "rootcause"}: those that may close
          Ops,       \* what may happen besides probe cycles
          MaxTime    \* bound: the clock stops here

AllOps == {"mute", "ack", "resolve", "edit", "restart"}
StateTriggers == {"down", "warning"}
RecoveryTriggers == {"down_recovered", "warning_recovered"}

ASSUME ConstantsAssumption ==
    /\ Stages \in Seq([profile : Nat, trigger : StateTriggers \cup RecoveryTriggers,
                       delay : Nat, repeat : Nat])
    /\ Stages # <<>>
    /\ Gates \subseteq {"maintenance", "rootcause"}
    /\ Ops \subseteq AllOps
    /\ MaxTime \in Nat \ {0}

StageIds == DOMAIN Stages
Times    == 0..MaxTime
Never    == 0                \* no timestamp; the clock starts at 1

IsState(i)    == Stages[i].trigger \in StateTriggers
IsRecovery(i) == Stages[i].trigger \in RecoveryTriggers
Target(i)     == IF Stages[i].trigger = "down_recovered" THEN "down" ELSE "warning"

VARIABLES
    now,
    muted,       \* alerts_muted of the sensor, its device or its group
    downSince,   \* _down_since_ts
    thr,         \* _threshold_state
    thrSince,    \* _threshold_triggered_ts
    hasFired,    \* _alert_has_fired
    checked,     \* _alert_cleanup_checked
    history,     \* alert_profile_state: per stage, its fires
    event,       \* the unresolved row of alert_events, and its profile
    eval,        \* the evaluation in progress
    sent,        \* observed: dispatches of each stage in this episode
    told,        \* observed: stages dispatched or silenced by an ack in it
    torn         \* observed: stages whose fire, or end, a restart cut short in it

sensorVars == <<muted, downSince, thr, thrSince>>
observed   == <<sent, told, torn>>
vars == <<now, sensorVars, hasFired, checked, history, event, eval, observed>>

NoFire  == [count |-> 0, last |-> Never, session |-> Never]
NoEvent == [state |-> "none", profile |-> 0]
Resting == [at |-> "idle", i |-> 1, why |-> "none", recovered |-> FALSE]
Reasons == {"none", "nomatch", "already", "gated", "acked", "duplicate", "due"}

TypeOK ==
    /\ now \in Times /\ muted \in BOOLEAN
    /\ downSince \in Times /\ thrSince \in Times
    /\ thr \in {"ok", "warn", "crit"}
    /\ hasFired \in BOOLEAN /\ checked \in BOOLEAN
    /\ history \in [StageIds -> [count : 0..1, last : Times, session : Times]]
    /\ event \in [state : {"none", "active", "acknowledged"}, profile : Nat]
    /\ eval \in [at : {"idle", "begin", "stage", "send", "log", "record", "next", "cleanup",
                       "resolve", "finish"},
                 i : StageIds, why : Reasons, recovered : BOOLEAN]
    /\ sent \in [StageIds -> 0..2]
    /\ told \in [StageIds -> BOOLEAN] /\ torn \in [StageIds -> BOOLEAN]

Init ==
    /\ now = 1 /\ muted = FALSE
    /\ downSince = Never /\ thr = "ok" /\ thrSince = Never
    /\ hasFired = FALSE /\ checked = FALSE
    /\ history = [i \in StageIds |-> NoFire]
    /\ event = NoEvent
    /\ eval = Resting
    /\ sent = [i \in StageIds |-> 0]
    /\ told = [i \in StageIds |-> FALSE] /\ torn = [i \in StageIds |-> FALSE]

-----------------------------------------------------------------------------
(* The probe cycle, up to the evaluation.                                  *)

\* _classify
Classified ==
    CASE downSince # Never -> [state |-> "down", since |-> downSince]
      [] downSince = Never /\ thr = "crit" /\ thrSince # Never
           -> [state |-> "down", since |-> thrSince]
      [] downSince = Never /\ thr = "warn" /\ thrSince # Never
           -> [state |-> "warning", since |-> thrSince]
      [] OTHER -> [state |-> "ok", since |-> Never]

\* The two stamps of a cycle; a muted one does not touch the threshold's.
DownStamp(isDown) == IF isDown THEN (IF downSince = Never THEN now ELSE downSince)
                     ELSE Never

ThresholdStamp(level) == IF level = thr \/ muted THEN thrSince
                         ELSE IF level = "ok" THEN Never ELSE now

\* A cycle leaves the sensor down or not and over a threshold or not; the
\* engine is called unless the sensor is muted.
Cycle(isDown, level) ==
    /\ eval.at = "idle"
    /\ downSince' = DownStamp(isDown)
    /\ thr' = level /\ thrSince' = ThresholdStamp(level)
    /\ eval' = IF muted THEN Resting ELSE [Resting EXCEPT !.at = "begin"]
    /\ UNCHANGED <<now, muted, hasFired, checked, history, event, observed>>

\* evaluate_and_fire looks at the mutes again.
Begin ==
    /\ eval.at = "begin"
    /\ eval' = IF muted THEN Resting ELSE [eval EXCEPT !.at = "stage"]
    /\ UNCHANGED <<now, sensorVars, hasFired, checked, history, event, observed>>

Tick ==
    /\ eval.at = "idle" /\ now < MaxTime
    /\ now' = now + 1
    /\ UNCHANGED <<sensorVars, hasFired, checked, history, event, eval, observed>>

-----------------------------------------------------------------------------
(* One stage: whether it is due, the gates, the dispatch, the two writes.  *)

To(step, why) == eval' = [eval EXCEPT !.at = step, !.why = why]

Open == event.state \in {"active", "acknowledged"}

Matches(i) == /\ IsState(i)
              /\ Classified.state = Stages[i].trigger
              /\ now - Classified.since >= Stages[i].delay

NewSession(i) == history[i].count = 0 \/ history[i].session # Classified.since

\* A bug: the repeat interval is taken for set when it is zero.
RepeatDueAlways(i) == now - history[i].last >= Stages[i].repeat

RepeatDue(i) == Stages[i].repeat > 0 /\ now - history[i].last >= Stages[i].repeat

HadPriorFire(i) ==
    \E j \in StageIds : /\ Stages[j].profile = Stages[i].profile
                        /\ Stages[j].trigger = Target(i)
                        /\ history[j].count > 0

RecoveryDue(i) == /\ IsRecovery(i)
                  /\ Classified.state = "ok"
                  /\ hasFired /\ HadPriorFire(i) /\ history[i].count = 0

\* The acknowledgement gate asks for an event of this stage's own profile.
AckGate(i) == event.state = "acknowledged" /\ event.profile = Stages[i].profile

\* A bug: any open event gates the stage.
DuplicateGateAny(i) == NewSession(i) /\ Open

\* The stage has fired for the incident that is still open.
DuplicateGate(i) == NewSession(i) /\ history[i].count > 0 /\ Open

Passed(i) ==
    /\ eval.at = "stage" /\ eval.i = i
    /\ ~(Matches(i) /\ (NewSession(i) \/ RepeatDue(i)))
    /\ ~RecoveryDue(i)
    /\ To("next", IF Matches(i) THEN "already" ELSE "nomatch")
    /\ UNCHANGED <<now, sensorVars, hasFired, checked, history, event, observed>>

\* A closed gate leaves the stage unfired, to be tried again next cycle; an
\* upstream outage does not hold a recovery back.
Gated(i) ==
    /\ eval.at = "stage" /\ eval.i = i
    /\ \/ RecoveryDue(i) /\ "maintenance" \in Gates
       \/ Matches(i) /\ (NewSession(i) \/ RepeatDue(i)) /\ Gates # {}
    /\ hasFired' = TRUE
    /\ eval' = [eval EXCEPT !.at = "next", !.why = "gated",
                            !.recovered = @ \/ IsRecovery(i)]
    /\ UNCHANGED <<now, sensorVars, checked, history, event, observed>>

FireState(i) ==
    /\ eval.at = "stage" /\ eval.i = i
    /\ Matches(i) /\ (NewSession(i) \/ RepeatDue(i))
    /\ hasFired' = TRUE
    /\ IF AckGate(i) THEN To("log", "acked") /\ told' = [told EXCEPT ![i] = TRUE]
       ELSE /\ IF DuplicateGate(i) THEN To("log", "duplicate") ELSE To("send", "due")
            /\ UNCHANGED told
    /\ UNCHANGED <<now, sensorVars, checked, history, event, sent, torn>>

FireRecovery(i) ==
    /\ eval.at = "stage" /\ eval.i = i
    /\ RecoveryDue(i)
    /\ eval' = [eval EXCEPT !.at = "send", !.why = "due", !.recovered = TRUE]
    /\ UNCHANGED <<now, sensorVars, hasFired, checked, history, event, observed>>

Send(i) ==
    /\ eval.at = "send" /\ eval.i = i
    /\ sent' = [sent EXCEPT ![i] = IF @ < 2 THEN @ + 1 ELSE @]
    /\ told' = [told EXCEPT ![i] = TRUE]
    /\ eval' = [eval EXCEPT !.at = "log"]
    /\ UNCHANGED <<now, sensorVars, hasFired, checked, history, event, torn>>

\* db_log_event: one row per sensor, whoever fires; a new one inherits the
\* acknowledgement the flap row may carry.  A recovery resolves the row.
LogEvent(i) ==
    /\ eval.at = "log" /\ eval.i = i
    /\ \/ IsRecovery(i) /\ event' = NoEvent
       \/ IsState(i) /\ Open /\ event' = [event EXCEPT !.profile = Stages[i].profile]
       \/ /\ IsState(i) /\ ~Open
          /\ \E s \in {"active"} \cup (IF "ack" \in Ops THEN {"acknowledged"} ELSE {}) :
                event' = [state |-> s, profile |-> Stages[i].profile]
    /\ eval' = [eval EXCEPT !.at = "record"]
    /\ UNCHANGED <<now, sensorVars, hasFired, checked, history, observed>>

\* db_record_stage_fire
Record(i) ==
    /\ eval.at = "record" /\ eval.i = i
    /\ history' = [history EXCEPT ![i] =
           [count |-> 1, last |-> now, session |-> Classified.since]]
    /\ eval' = [eval EXCEPT !.at = "next"]
    /\ UNCHANGED <<now, sensorVars, hasFired, checked, event, observed>>

\* A bug: the walk goes one stage too far.
NextStagePastEnd ==
    /\ eval.at = "next"
    /\ IF eval.i <= Len(Stages)
       THEN eval' = [eval EXCEPT !.at = "stage", !.i = @ + 1, !.why = "none"]
       ELSE eval' = [eval EXCEPT !.why = "none",
                        !.at = IF Classified.state = "ok" THEN "cleanup" ELSE "finish"]
    /\ UNCHANGED <<now, sensorVars, hasFired, checked, history, event, observed>>

NextStage ==
    /\ eval.at = "next"
    /\ IF eval.i < Len(Stages)
       THEN eval' = [eval EXCEPT !.at = "stage", !.i = @ + 1, !.why = "none"]
       ELSE eval' = [eval EXCEPT !.why = "none",
                        !.at = IF Classified.state = "ok" THEN "cleanup" ELSE "finish"]
    /\ UNCHANGED <<now, sensorVars, hasFired, checked, history, event, observed>>

-----------------------------------------------------------------------------
(* The end of an evaluation that found the sensor well.                    *)

\* A bug: the first look after a boot was left out.
CleanupDueFired ==
    /\ hasFired
    /\ \/ eval.recovered
       \/ \E i \in StageIds : /\ Stages[i].profile = Stages[1].profile
                              /\ IsState(i) /\ history[i].count > 0
       \/ Open

\* Only the narrowest profile's stages are asked for a fire, then the table.
CleanupDue ==
    /\ hasFired \/ ~checked
    /\ \/ eval.recovered
       \/ \E i \in StageIds : /\ Stages[i].profile = Stages[1].profile
                              /\ IsState(i) /\ history[i].count > 0
       \/ Open

Cleanup ==
    /\ eval.at = "cleanup"
    /\ checked' = (checked \/ ~hasFired)
    /\ IF CleanupDue
       THEN history' = [i \in StageIds |-> NoFire] /\ eval' = [eval EXCEPT !.at = "resolve"]
       ELSE eval' = [eval EXCEPT !.at = "finish"] /\ UNCHANGED history
    /\ UNCHANGED <<now, sensorVars, hasFired, event, observed>>

ResolveEvents ==
    /\ eval.at = "resolve"
    /\ event' = NoEvent /\ hasFired' = FALSE
    /\ eval' = [eval EXCEPT !.at = "finish"]
    /\ UNCHANGED <<now, sensorVars, checked, history, observed>>

\* An evaluation that finds the sensor well ends the episode.
EpisodeOver == eval.at = "finish" /\ Classified.state = "ok"

Forget == /\ sent' = [i \in StageIds |-> 0]
          /\ told' = [i \in StageIds |-> FALSE]
          /\ torn' = [i \in StageIds |-> FALSE]

Finish ==
    /\ eval.at = "finish"
    /\ eval' = Resting
    /\ IF EpisodeOver THEN Forget ELSE UNCHANGED observed
    /\ UNCHANGED <<now, sensorVars, hasFired, checked, history, event>>

Evaluate ==
    \/ Begin
    \/ \E i \in StageIds : \/ Passed(i) \/ Gated(i) \/ FireState(i) \/ FireRecovery(i)
                           \/ Send(i) \/ LogEvent(i) \/ Record(i)
    \/ NextStage \/ Cleanup \/ ResolveEvents \/ Finish

-----------------------------------------------------------------------------
(* Operators and restarts, at any step of an evaluation.                   *)

\* The mutes are read by Cycle and Begin only, so a toggle at a later step is
\* the same as one after the evaluation.
ToggleMute ==
    /\ "mute" \in Ops /\ eval.at \in {"idle", "begin"}
    /\ muted' = ~muted
    /\ UNCHANGED <<now, downSince, thr, thrSince, hasFired, checked, history, event,
                   eval, observed>>

\* db_ack_events_by_sensor
AckEvent ==
    /\ "ack" \in Ops /\ event.state = "active"
    /\ event' = [event EXCEPT !.state = "acknowledged"]
    /\ UNCHANGED <<now, sensorVars, hasFired, checked, history, eval, observed>>

\* db_resolve_events_by_sensor: closing the event by hand leaves the history,
\* and allows its stages to be sent again.
ResolveByHand ==
    /\ "resolve" \in Ops /\ Open
    /\ event' = NoEvent
    /\ sent' = [i \in StageIds |-> 0]
    /\ UNCHANGED <<now, sensorVars, hasFired, checked, history, eval, told, torn>>

\* db_save_profile: the stages are deleted and inserted anew, under new ids.
\* An evaluation goes on with the stages it read, so that an edit during one
\* is the same as one after it.
EditProfile ==
    /\ "edit" \in Ops /\ eval.at = "idle"
    /\ history' = [i \in StageIds |-> NoFire]
    /\ Forget
    /\ UNCHANGED <<now, sensorVars, hasFired, checked, event, eval>>

\* The sensor is re-hydrated from its open flap row, when there is one.
Restart ==
    /\ "restart" \in Ops
    /\ hasFired' = FALSE /\ checked' = FALSE
    /\ eval' = Resting
    /\ torn' = [i \in StageIds |->
           \/ torn[i]
           \/ eval.at \in {"log", "record"} /\ eval.why = "due" /\ eval.i = i
           \/ eval.at \notin {"idle", "begin"} /\ Classified.state = "ok"]
    /\ \/ thrSince' = (IF thr = "ok" THEN Never ELSE thrSince) /\ UNCHANGED <<downSince, thr>>
       \/ downSince' = Never /\ thr' = "ok" /\ thrSince' = Never
    /\ UNCHANGED <<now, muted, history, event, sent, told>>

Next ==
    \/ \E isDown \in BOOLEAN, level \in {"ok", "warn", "crit"} : Cycle(isDown, level)
    \/ Tick \/ Evaluate
    \/ ToggleMute \/ AckEvent \/ ResolveByHand \/ EditProfile \/ Restart

Spec == Init /\ [][Next]_vars

-----------------------------------------------------------------------------
(* Properties.  An episode lasts from one evaluation that finds the sensor *)
(* well to the next.                                                       *)

\* Without a repeat interval a stage is dispatched once in an episode, however
\* the incident changes, unless a restart fell between the dispatch and its
\* record, or within the evaluation that ends the incident
\* (_evaluate_profile_stages and the duplicate gate of _fire).
OncePerEpisode ==
    \A i \in StageIds :
        (Stages[i].repeat = 0 /\ ~torn[i]) => sent[i] <= 1

\* A stage is passed over as already fired, or as a duplicate, only when it
\* was dispatched in this very episode or silenced by an acknowledgement: the
\* dedup never swallows a new incident ("the session dedup still prevents
\* storms", and no more than that).
NoSilentStage ==
    eval.why \in {"already", "duplicate"} => told[eval.i]

\* After an evaluation that finds the sensor well, nothing of the incident is
\* left, so that the next one "starts a fresh session".
CleanAfterOk ==
    EpisodeOver =>
        /\ event.state = "none"
        /\ \A i \in StageIds : history[i].count = 0
=============================================================================
