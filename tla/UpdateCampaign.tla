--------------------------- MODULE UpdateCampaign ---------------------------
(***************************************************************************)
(* A staged rollout of one build to the supervised probes:                 *)
(* monitoring/update_orchestrator.py, whose tick the probe watchdog runs;  *)
(* the task queue and the campaign tables of db/probes.py; the abort of    *)
(* routes/probes.py and the report handler of routes/agent.py.             *)
(*                                                                         *)
(* The tick reads the rows once and then writes one row after another,     *)
(* while check-ins, reports and the abort go on.  The probes are those of  *)
(* ManagedProbe, which ProbeSupervisor implements: ProbesAreManaged.       *)
(***************************************************************************)
EXTENDS Integers, FiniteSets

CONSTANTS Probes,
          Canary,     \* probes of the first wave
          Batch,      \* updates under way at once after it
          Attempts,   \* bound: the tasks one probe may be given
          MaxFaults   \* bound: probes gone silent, writes failed, reports
                      \* lost and updates refused

ASSUME CampaignAssumption ==
    /\ IsFiniteSet(Probes) /\ {Canary, Batch} \subseteq Nat \ {0}
    /\ MaxFaults \in Nat /\ {"none", "crashloop"} \cap Attempts = {}

VARIABLES
    camp,     \* update_campaigns.state
    halt,     \* its halt_on_fail
    row,      \* campaign_probes.state
    tasks,    \* pending agent_update tasks, by probe
    made,     \* the tasks a probe has been given
    up,       \* the probes heard of in the last minute
    over,     \* has the validity window passed?
    tick,     \* campaign_tick, between two writes
    update,   \* the probes, as in ManagedProbe
    lost,     \* probes that crashed before they wrote the report of a success
    faults,
    unmarked, \* observed: probes whose row was not marked as dispatched
    ended     \* observed: probes on which a task ended without a report

server   == <<camp, row, tasks, made, tick>>
observed == <<unmarked, ended>>
vars     == <<server, halt, up, over, update, lost, faults, observed>>

RowStates == {"queued", "dispatched", "succeeded", "rolled_back", "failed_offline", "expired"}
Idle == [at |-> "idle", rows |-> [p \in Probes |-> "queued"], visit |-> {}, budget |-> 0, hit |-> FALSE]
NoUpdate == [active |-> "old", trial |-> "none", fate |-> [a \in Attempts |-> "none"],
             posted |-> {}, told |-> [a \in Attempts |-> {}]]

TypeOK ==
    /\ camp \in {"running", "done", "halted", "aborted"} /\ halt \in BOOLEAN
    /\ row \in [Probes -> RowStates]
    /\ tasks \in [Probes -> SUBSET Attempts] /\ made \in [Probes -> SUBSET Attempts]
    /\ up \subseteq Probes /\ over \in BOOLEAN
    /\ tick \in [at : {"idle", "halt", "dark", "plan", "send", "mark"}, rows : [Probes -> RowStates],
                 visit : SUBSET Probes, budget : 0..Batch + Canary, hit : BOOLEAN]
    /\ lost \subseteq Probes /\ faults \in 0..MaxFaults /\ unmarked \subseteq Probes /\ ended \subseteq Probes

Init ==
    /\ camp = "running" /\ halt \in BOOLEAN
    /\ row = [p \in Probes |-> "queued"]
    /\ tasks = [p \in Probes |-> {}] /\ made = [p \in Probes |-> {}]
    /\ up = Probes /\ over = FALSE
    /\ tick = Idle
    /\ update = [p \in Probes |-> NoUpdate]
    /\ lost = {} /\ faults = 0 /\ unmarked = {} /\ ended = {}

Fault == faults < MaxFaults /\ faults' = faults + 1
In(rows, states) == {p \in Probes : rows[p] \in states}

-----------------------------------------------------------------------------
(* The tick.                                                               *)

\* 1. Auto-halt on any failure.
HaltsOn(rows) == halt /\ In(rows, {"rolled_back", "failed_offline"}) # {}

\* campaign_tick reads the running campaigns and their rows.
TickStart ==
    /\ tick = Idle /\ camp = "running"
    /\ tick' = [Idle EXCEPT !.at = IF HaltsOn(row) THEN "halt" ELSE "dark", !.rows = row]
    /\ UNCHANGED <<halt, camp, row, tasks, made, up, over, update, lost, faults, observed>>

TickHalt ==
    /\ tick.at = "halt"
    /\ camp' = "halted" /\ tick' = Idle
    /\ UNCHANGED <<halt, row, tasks, made, up, over, update, lost, faults, observed>>

\* A bug: only a probe that has not fetched its task is given up.
TickDarkUnfetched(p) ==
    /\ tick.at = "dark" /\ tick.rows[p] = "dispatched"
    /\ p \notin up /\ tasks[p] # {}
    /\ row' = [row EXCEPT ![p] = "failed_offline"]
    /\ tick' = [tick EXCEPT !.rows[p] = "failed_offline", !.hit = TRUE]
    /\ UNCHANGED <<halt, camp, tasks, made, up, over, update, lost, faults, observed>>

\* 2. Dispatched long ago and silent: dark.  The row is written whatever
\* it has become since it was read.
TickDark(p) ==
    /\ tick.at = "dark" /\ tick.rows[p] = "dispatched"
    /\ p \notin up
    /\ row' = [row EXCEPT ![p] = "failed_offline"]
    /\ tick' = [tick EXCEPT !.rows[p] = "failed_offline", !.hit = TRUE]
    /\ UNCHANGED <<halt, camp, tasks, made, up, over, update, lost, faults, observed>>

\* After a failure of that kind the campaign halts or the rows are read
\* anew.
TickReread ==
    /\ tick.at = "dark"
    /\ tick' = IF tick.hit /\ halt THEN [Idle EXCEPT !.at = "halt"]
               ELSE [Idle EXCEPT !.at = "plan", !.rows = IF tick.hit THEN row ELSE tick.rows]
    /\ UNCHANGED <<halt, camp, row, tasks, made, up, over, update, lost, faults, observed>>

\* A bug: the canary wave is not counted down by what is in flight.
BudgetForgets(flying, done) == IF done < Canary THEN Canary - done ELSE Batch - flying

\* 5. The budget of the wave.
Budget(flying, done) == IF done < Canary THEN Canary - flying - done ELSE Batch - flying

\* 3. to 5.  Queued probes that sat out the window expire; a campaign with
\* nothing queued or in flight is done; otherwise the budget is taken.
TickPlan ==
    /\ tick.at = "plan"
    /\ LET queued == IF over THEN {} ELSE In(tick.rows, {"queued"})
           flying == In(tick.rows, {"dispatched"})
           budget == Budget(Cardinality(flying), Cardinality(In(tick.rows, {"succeeded"})))
       IN /\ row' = [p \in Probes |-> IF over /\ tick.rows[p] = "queued" THEN "expired" ELSE row[p]]
          /\ \/ queued = {} /\ flying = {} /\ camp' = "done" /\ tick' = Idle
             \/ queued \cup flying # {} /\ budget <= 0 /\ tick' = Idle /\ UNCHANGED camp
             \/ /\ queued \cup flying # {} /\ budget > 0
                /\ tick' = [Idle EXCEPT !.at = "send", !.visit = queued, !.budget = budget]
                /\ UNCHANGED camp
    /\ UNCHANGED <<halt, tasks, made, up, over, update, lost, faults, observed>>

\* 6. A task for the next queued probe, if that is online ...
TickSend(p) ==
    /\ tick.at = "send" /\ tick.budget > 0 /\ p \in tick.visit
    /\ \/ /\ p \in up
          /\ \E a \in Attempts \ made[p] :
                /\ made' = [made EXCEPT ![p] = @ \cup {a}]
                /\ tasks' = [tasks EXCEPT ![p] = @ \cup {a}]
          /\ tick' = [tick EXCEPT !.at = "mark", !.rows[p] = "dispatched"]
       \/ /\ p \notin up \/ made[p] = Attempts
          /\ tick' = [tick EXCEPT !.visit = @ \ {p}]
          /\ UNCHANGED <<tasks, made>>
    /\ UNCHANGED <<halt, camp, row, up, over, update, lost, faults, observed>>

\* ... and then its row; the result of that write is not looked at.
TickMark(p) ==
    /\ tick.at = "mark" /\ p \in tick.visit /\ tick.rows[p] = "dispatched"
    /\ \/ row' = [row EXCEPT ![p] = "dispatched"] /\ UNCHANGED <<faults, unmarked>>
       \/ Fault /\ unmarked' = unmarked \cup {p} /\ UNCHANGED row
    /\ tick' = [tick EXCEPT !.at = "send", !.rows[p] = "queued", !.visit = @ \ {p}, !.budget = @ - 1]
    /\ UNCHANGED <<halt, camp, tasks, made, up, over, update, lost, ended>>

TickEnd ==
    /\ tick.at = "send" /\ (tick.budget = 0 \/ tick.visit = {})
    /\ tick' = Idle
    /\ UNCHANGED <<halt, camp, row, tasks, made, up, over, update, lost, faults, observed>>

Tick ==
    \/ TickStart \/ TickHalt \/ TickReread \/ TickPlan \/ TickEnd
    \/ \E p \in Probes : TickDark(p) \/ TickSend(p) \/ TickMark(p)

-----------------------------------------------------------------------------
(* The probes, and what the server does with what they send.               *)

\* A check-in hands out the pending tasks; the agent works on one of them.
\* It may end without an update: the build runs already, the package is
\* refused (409 build_unavailable) or damaged.
Take(p) ==
    /\ p \in up /\ update[p].trial = "none"
    /\ \E a \in tasks[p] :
          /\ tasks' = [tasks EXCEPT ![p] = @ \ {a}]
          /\ \/ /\ update[p].active = "old"
                /\ update' = [update EXCEPT ![p].active = "new", ![p].trial = a, ![p].fate[a] = "trial"]
                /\ UNCHANGED <<faults, ended>>
             \/ /\ IF update[p].active = "new" THEN UNCHANGED faults ELSE Fault
                /\ ended' = ended \cup {p}
                /\ UNCHANGED update
    /\ UNCHANGED <<halt, camp, row, made, up, over, tick, lost, unmarked>>

\* The supervisor keeps the build and then leaves a report, unless the host
\* crashes in between (ProbeSupervisor, OutcomeIsHeard) ...
Keep(p) ==
    /\ update[p].trial # "none"
    /\ [attempt |-> update[p].trial, outcome |-> "rolled_back"] \notin update[p].posted
    /\ update' = [update EXCEPT ![p].trial = "none", ![p].fate[update[p].trial] = "kept"]
    /\ UNCHANGED <<server, halt, up, over, lost, faults, observed>>

Post(p, report) ==
    /\ report \notin update[p].posted
    /\ update' = [update EXCEPT ![p].posted = @ \cup {report}]
    /\ UNCHANGED <<server, halt, up, over, lost, faults, observed>>

PostKept(p) ==
    /\ p \notin lost
    /\ \E a \in Attempts : /\ update[p].fate[a] = "kept"
                           /\ Post(p, [attempt |-> a, outcome |-> "success"])

LoseReport(p) ==
    /\ p \notin lost
    /\ \E a \in Attempts : /\ update[p].fate[a] = "kept"
                           /\ [attempt |-> a, outcome |-> "success"] \notin update[p].posted
    /\ lost' = lost \cup {p} /\ ended' = ended \cup {p} /\ Fault
    /\ UNCHANGED <<server, halt, up, over, update, unmarked>>

\* ... or it leaves a report and then undoes the update.
PostUndo(p) ==
    /\ update[p].trial # "none"
    /\ Post(p, [attempt |-> update[p].trial, outcome |-> "rolled_back"])

\* A bug: the state is saved before the report is written.
UndoFirst(p) ==
    /\ update[p].trial # "none"
    /\ update' = [update EXCEPT ![p].trial = "none", ![p].active = "old",
                                ![p].fate[update[p].trial] = "undone"]
    /\ UNCHANGED <<server, halt, up, over, lost, faults, observed>>

Undo(p) ==
    /\ update[p].trial # "none"
    /\ [attempt |-> update[p].trial, outcome |-> "rolled_back"] \in update[p].posted
    /\ update' = [update EXCEPT ![p].trial = "none", ![p].active = "old",
                                ![p].fate[update[p].trial] = "undone"]
    /\ UNCHANGED <<server, halt, up, over, lost, faults, observed>>

Settle(p) == Keep(p) \/ PostKept(p) \/ PostUndo(p) \/ Undo(p)

\* A bug: the agent's word for the outcome is taken for the row's.
RawOutcome(outcome) == outcome

\* A bug: any outcome that names the campaign counts as done.
AlwaysSucceeded(outcome) == "succeeded"

RowState(outcome) == IF outcome = "success" THEN "succeeded" ELSE "rolled_back"

\* POST /api/agent/update-report: the row is written, whatever the state of
\* the row and of the campaign.  No report is faster than the mark.
Report(p) ==
    /\ p \in up /\ update[p].trial = "none"
    /\ ~(tick.at = "mark" /\ p \in tick.visit)
    /\ \E r \in update[p].posted :
          /\ r.outcome \notin update[p].told[r.attempt]
          /\ row' = [row EXCEPT ![p] = RowState(r.outcome)]
          /\ update' = [update EXCEPT ![p].told[r.attempt] = @ \cup {r.outcome}]
    /\ UNCHANGED <<halt, camp, tasks, made, up, over, tick, lost, faults, observed>>

\* db_expire_stale_tasks: tasks that were not fetched within the hour.
ExpireTasks(p) ==
    /\ p \notin up /\ tasks[p] # {}
    /\ tasks' = [tasks EXCEPT ![p] = {}]
    /\ ended' = ended \cup {p}
    /\ UNCHANGED <<halt, camp, row, made, up, over, tick, update, lost, faults, unmarked>>

Silent(p) ==
    /\ p \in up /\ up' = up \ {p} /\ Fault
    /\ UNCHANGED <<server, halt, over, update, lost, observed>>

Back(p) ==
    /\ p \notin up /\ up' = up \cup {p}
    /\ UNCHANGED <<server, halt, over, update, lost, faults, observed>>

WindowPasses ==
    /\ ~over /\ over' = TRUE
    /\ UNCHANGED <<server, halt, up, update, lost, faults, observed>>

\* POST .../abort: whatever the tick is doing.
Abort ==
    /\ camp = "running" /\ camp' = "aborted"
    /\ UNCHANGED <<halt, row, tasks, made, tick, up, over, update, lost, faults, observed>>

ProbeStep(p) ==
    \/ Take(p) \/ Settle(p) \/ LoseReport(p) \/ Report(p)
    \/ ExpireTasks(p) \/ Silent(p) \/ Back(p)

Next == Tick \/ (\E p \in Probes : ProbeStep(p)) \/ WindowPasses \/ Abort

\* The watchdog sweeps every ten seconds, and looks at what has been silent
\* for long; a probe that is there checks in and uploads, and its supervisor
\* ends every probation (ProbeSupervisor).  There are finitely many tasks,
\* so fairness for all probes together is enough.
Fairness ==
    /\ WF_vars(Tick) /\ WF_vars(WindowPasses)
    /\ SF_vars(\E p \in Probes : TickDark(p))
    /\ WF_vars(\E p \in Probes : Take(p) \/ Report(p) \/ Settle(p))

Spec == Init /\ [][Next]_vars /\ Fairness

-----------------------------------------------------------------------------
(* Properties.                                                             *)

ProbeOf(p) == INSTANCE ManagedProbe WITH
    Builds <- {"old", "new"}, First <- "old", Target <- [a \in Attempts |-> "new"],
    active <- update[p].active, trial <- update[p].trial, fate <- update[p].fate,
    posted <- update[p].posted, told <- update[p].told

\* Every probe of a campaign behaves as ManagedProbe says.
ProbesAreManaged ==
    /\ \A p \in Probes : ProbeOf(p)!Init
    /\ [][\A p \in Probes : ProbeOf(p)!Next \/ UNCHANGED update[p]]_update

Tried == {p \in Probes : made[p] # {}}
Kept  == {p \in Probes : \E a \in Attempts : update[p].fate[a] = "kept"}
Busy  == {p \in Probes : tasks[p] # {} \/ update[p].trial # "none"}

\* "Don't open the batch phase until that many have COMMITTED": with
\* halt_on_fail no probe beyond the canary wave gets the build before as
\* many probes run it for good.  "Keep up to batch_size updates in flight at
\* once": by what the probes do and not by what the rows say, except for probes
\* given up as dark.  (Neither if the mark of a row fails.)
WavesHold ==
    unmarked = {} =>
        /\ halt /\ Cardinality(Tried) > Canary => Cardinality(Kept) >= Canary
        /\ Cardinality(Busy \ In(row, {"failed_offline"}))
              <= IF Canary > Batch THEN Canary ELSE Batch

\* A row tells what happened on the probe.  A campaign that is done has left no
\* update behind on a probe, but on one given up as dark, and with halt_on_fail
\* it has seen no failure.
RowsAreTrue ==
    /\ \A p \in Probes :
          /\ row[p] = "succeeded" => p \in Kept
          /\ row[p] = "rolled_back" => \E a \in Attempts : update[p].fate[a] = "undone"
    /\ camp = "done" /\ unmarked = {} =>
          /\ Busy \subseteq In(row, {"failed_offline"})
          /\ halt => Probes = In(row, {"succeeded", "expired"})

\* A campaign ends, unless a task ended without a report: then its row
\* stays dispatched for as long as the probe is online.
CampaignEnds == camp = "running" ~> camp # "running" \/ ended \cup unmarked # {}
=============================================================================
