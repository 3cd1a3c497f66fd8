-------------------------- MODULE ProbeSupervisor --------------------------
(***************************************************************************)
(* The update of one remote probe, on the probe: the supervisor that the   *)
(* service runs (agent/supervisor.py), the agent process under it          *)
(* (agent/agent.py: the check-in loop, the agent_update task, the upload   *)
(* of a report) and the files between them.  Each write of a file is a     *)
(* step, and the host may crash between any two.                           *)
(*                                                                         *)
(* The server is reduced to the updates it asks for and what it is told.   *)
(* Time is abstract: a probation may run out, and a child may turn out to  *)
(* have died fast, whenever the code looks.                                *)
(***************************************************************************)
EXTENDS Integers, FiniteSets

CONSTANTS Builds, First, Attempts, Target,
          Bad,          \* builds that never reach the server
          Overlap,      \* may an update arrive while another is on probation?
          GoodCheckins, \* GOOD_CHECKINS
          CrashMax,     \* CRASH_MAX
          MaxCrashes,   \* bound: crashes of the host
          MaxExits      \* bound: crashes of an agent whose build is not bad

ASSUME SupervisorAssumption ==
    /\ First \in Builds \ Bad
    /\ Target \in [Attempts -> Builds]
    /\ {"none", "crashloop"} \cap Attempts = {} /\ "none" \notin Builds
    /\ Overlap \in BOOLEAN
    /\ {GoodCheckins, CrashMax} \subseteq Nat \ {0}
    /\ {MaxCrashes, MaxExits} \subseteq Nat

VARIABLES
    disk,      \* supervisor_state.json
    releases,  \* the release directories that hold an agent
    unpacked,  \* is there an extracted package beside them (<build>.tmp)?
    pending,   \* pending_switch.json: the update to switch to
    health,    \* agent_health.json
    report,    \* update_report.json
    sup,       \* where the supervisor is, and the update it is busy with
    fast,      \* fast_crashes
    agent,     \* the child process
    crashes, exits,
    asked,              \* observed: updates the agent was asked for
    overlapped,         \* observed: one of them during another's probation
    fate, posted, told  \* observed: as in ManagedProbe

files    == <<disk, releases, unpacked, pending, health, report>>
observed == <<asked, overlapped, fate, posted, told>>
vars == <<files, sup, fast, agent, crashes, exits, observed>>

Fates    == {"none", "trial", "kept", "undone", "displaced"}
Outcomes == {"success", "rolled_back"}
Reports  == [attempt : Attempts \cup {"crashloop"}, outcome : Outcomes]

NoTrial  == [attempt |-> "none", back |-> First]
NoReport == [attempt |-> "none", outcome |-> "none"]
NoBeacon == [build |-> "none", good |-> 0]
NoAgent  == [build |-> "none", good |-> 0, sent |-> NoReport, task |-> "none", stage |-> "idle"]
OnTrial  == disk.trial # NoTrial

Stages == {"idle", "asked", "unpacked", "cleared", "placed", "handed"}
Places == {"down", "top", "begin", "cleanup", "watch", "kept", "prune",
           "exited", "undo", "revert", "loop", "retreat"}

TypeOK ==
    /\ disk \in [active : Builds, previous : Builds \cup {"none"},
                 trial : [attempt : Attempts, back : Builds] \cup {NoTrial}]
    /\ releases \subseteq Builds
    /\ unpacked \in BOOLEAN
    /\ pending \in Attempts \cup {"none"}
    /\ health \in [build : Builds, good : 0..GoodCheckins] \cup {NoBeacon}
    /\ report \in Reports \cup {NoReport}
    /\ sup \in [at : Places, attempt : Attempts \cup {"none"}]
    /\ fast \in 0..CrashMax
    /\ agent = NoAgent \/ agent \in
          [build : Builds, good : 0..GoodCheckins, sent : Reports \cup {NoReport},
           task : Attempts \cup {"none"}, stage : Stages]
    /\ crashes \in 0..MaxCrashes /\ exits \in 0..MaxExits
    /\ asked \subseteq Attempts /\ overlapped \in BOOLEAN
    /\ fate \in [Attempts -> Fates]
    /\ posted \subseteq Reports
    /\ told \in [Attempts -> SUBSET Outcomes]

Init ==
    /\ disk = [active |-> First, previous |-> "none", trial |-> NoTrial]
    /\ releases = {First} /\ unpacked = FALSE
    /\ pending = "none" /\ health = NoBeacon /\ report = NoReport
    /\ sup = [at |-> "down", attempt |-> "none"] /\ fast = 0
    /\ agent = NoAgent
    /\ crashes = 0 /\ exits = 0
    /\ asked = {} /\ overlapped = FALSE
    /\ fate = [a \in Attempts |-> "none"]
    /\ posted = {}
    /\ told = [a \in Attempts |-> {}]

At(place)   == sup.at = place
Goto(place) == sup' = [at |-> place, attempt |-> "none"]
GoWith(place, a) == sup' = [at |-> place, attempt |-> a]

\* The newest release on disk; which one that is, is not modelled.
Fallbacks(build) == IF build \in releases \/ releases = {} THEN {build} ELSE releases

-----------------------------------------------------------------------------
(* The supervisor.                                                         *)

\* A bug: a report left over from before is taken for stale.
BootClears ==
    /\ At("down")
    /\ Goto("top")
    /\ report' = NoReport
    /\ UNCHANGED <<disk, releases, unpacked, pending, health, fast, agent, crashes, exits, observed>>

\* supervise() begins: a release that is gone is replaced.
Boot ==
    /\ At("down")
    /\ \E build \in Fallbacks(disk.active) :
          disk' = IF build = disk.active THEN disk
                  ELSE [disk EXCEPT !.active = build, !.trial = NoTrial]
    /\ Goto("top")
    /\ UNCHANGED <<releases, unpacked, pending, health, report, fast, agent, crashes, exits, observed>>

Switchable == pending # "none" /\ Target[pending] \in releases

\* A switch that was asked for is taken before the next spawn, or when the
\* child is seen to have exited.
TakeSwitch ==
    /\ At("top") \/ At("exited")
    /\ At("top") => disk.active \in releases
    /\ Switchable
    /\ pending' = "none"
    /\ GoWith("begin", pending)
    /\ UNCHANGED <<disk, releases, unpacked, health, report, fast, agent, crashes, exits, observed>>

\* A switch to a release that is not there is ignored.
DropSwitch ==
    /\ At("exited")
    /\ pending # "none" /\ ~Switchable
    /\ pending' = "none"
    /\ UNCHANGED <<disk, releases, unpacked, health, report, sup, fast, agent, crashes, exits, observed>>

PrevGood == disk.active

\* _begin_switch up to the save of the state.
BeginSwitch ==
    /\ At("begin")
    /\ disk' = [disk EXCEPT !.active = Target[sup.attempt],
                            !.trial = [attempt |-> sup.attempt, back |-> PrevGood]]
    /\ Goto("cleanup")
    /\ fast' = 0
    /\ fate' = [b \in Attempts |-> IF b = sup.attempt THEN "trial"
                                   ELSE IF OnTrial /\ b = disk.trial.attempt THEN "displaced"
                                   ELSE fate[b]]
    /\ UNCHANGED <<releases, unpacked, pending, health, report, agent, crashes, exits, asked, overlapped, posted, told>>

\* The beacon of another build goes, last thing in a switch or a rollback.
ClearHealth ==
    /\ At("cleanup")
    /\ health' = NoBeacon
    /\ Goto("top")
    /\ UNCHANGED <<disk, releases, unpacked, pending, report, fast, agent, crashes, exits, observed>>

Spawn ==
    /\ At("top") /\ ~Switchable /\ disk.active \in releases
    /\ agent' = [NoAgent EXCEPT !.build = disk.active]
    /\ Goto("watch")
    /\ UNCHANGED <<files, fast, crashes, exits, observed>>

\* A bug: the beacon of any build counts.
HealthyAny == health.good >= GoodCheckins

\* The beacon counts for the build on probation only.
Healthy == health.build = disk.active /\ health.good >= GoodCheckins

\* _commit up to the save of the state.
Keep ==
    /\ At("watch") /\ OnTrial /\ Healthy
    /\ disk' = [disk EXCEPT !.previous = disk.trial.back, !.trial = NoTrial]
    /\ GoWith("kept", disk.trial.attempt)
    /\ fate' = [fate EXCEPT ![disk.trial.attempt] = "kept"]
    /\ UNCHANGED <<releases, unpacked, pending, health, report, fast, agent, crashes, exits, asked, overlapped, posted, told>>

\* A bug: the outcome is hard-coded.
WriteReportSuccess(a, outcome) ==
    /\ report' = [attempt |-> a, outcome |-> "success"]
    /\ posted' = posted \cup {report'}

\* _write_report
WriteReport(a, outcome) ==
    /\ report' = [attempt |-> a, outcome |-> outcome]
    /\ posted' = posted \cup {report'}

ReportSuccess ==
    /\ At("kept")
    /\ WriteReport(sup.attempt, "success")
    /\ Goto("prune")
    /\ UNCHANGED <<disk, releases, unpacked, pending, health, fast, agent, crashes, exits, asked, overlapped, fate, told>>

\* _prune_releases: what is neither active nor previous, also an update
\* that the agent is extracting.
PruneKeeps == {disk.active, disk.previous}

Prune ==
    /\ At("prune")
    /\ releases' = releases \cap PruneKeeps
    /\ unpacked' = FALSE
    /\ Goto("watch")
    /\ UNCHANGED <<disk, pending, health, report, fast, agent, crashes, exits, observed>>

\* The probation ran out: the child is stopped.
Deadline ==
    /\ At("watch") /\ OnTrial /\ ~Healthy
    /\ agent' = NoAgent
    /\ Goto("undo")
    /\ UNCHANGED <<files, fast, crashes, exits, observed>>

\* _rollback: the report, then the state, then (ClearHealth) the beacon.
ReportUndo ==
    /\ At("undo")
    /\ WriteReport(disk.trial.attempt, "rolled_back")
    /\ Goto("revert")
    /\ UNCHANGED <<disk, releases, unpacked, pending, health, fast, agent, crashes, exits, asked, overlapped, fate, told>>

Undo ==
    /\ At("revert")
    /\ \E build \in Fallbacks(disk.trial.back) :
          disk' = [disk EXCEPT !.active = build, !.trial = NoTrial]
    /\ Goto("cleanup")
    /\ fast' = 0
    /\ fate' = [fate EXCEPT ![disk.trial.attempt] = "undone"]
    /\ UNCHANGED <<releases, unpacked, pending, health, report, agent, crashes, exits, asked, overlapped, posted, told>>

SeeExit ==
    /\ At("watch") /\ agent = NoAgent
    /\ Goto("exited")
    /\ UNCHANGED <<files, fast, agent, crashes, exits, observed>>

ExitOnTrial ==
    /\ At("exited") /\ pending = "none" /\ OnTrial
    /\ Goto("undo")
    /\ UNCHANGED <<files, fast, agent, crashes, exits, observed>>

CrashLoops ==
    /\ fast + 1 >= CrashMax
    /\ disk.previous \in releases \ {disk.active}

\* A release that was kept exited: late, or fast but not often enough.
Respawn ==
    /\ At("exited") /\ pending = "none" /\ ~OnTrial
    /\ \/ fast' = 0
       \/ ~CrashLoops /\ fast' = IF fast < CrashMax THEN fast + 1 ELSE fast
    /\ Goto("top")
    /\ UNCHANGED <<files, agent, crashes, exits, observed>>

ReportLoop ==
    /\ At("exited") /\ pending = "none" /\ ~OnTrial /\ CrashLoops
    /\ WriteReport("crashloop", "rolled_back")
    /\ Goto("loop")
    /\ UNCHANGED <<disk, releases, unpacked, pending, health, fast, agent, crashes, exits, asked, overlapped, fate, told>>

Retreat ==
    /\ At("loop")
    /\ disk' = [disk EXCEPT !.active = disk.previous]
    /\ fast' = 0
    /\ Goto("cleanup")
    /\ UNCHANGED <<releases, unpacked, pending, health, report, agent, crashes, exits, observed>>

Supervise ==
    \/ Boot \/ TakeSwitch \/ DropSwitch \/ BeginSwitch \/ ClearHealth \/ Spawn
    \/ Keep \/ ReportSuccess \/ Prune \/ Deadline \/ ReportUndo \/ Undo
    \/ SeeExit \/ ExitOnTrial \/ Respawn \/ ReportLoop \/ Retreat

-----------------------------------------------------------------------------
(* The agent under it.                                                     *)

Alive   == agent # NoAgent
Reaches == Alive /\ agent.build \notin Bad

\* _upload_pending_report: the report is sent, and what is then in its
\* place is removed.
Upload ==
    /\ Reaches /\ agent.sent = NoReport
    /\ report # NoReport
    /\ agent' = [agent EXCEPT !.sent = report]
    /\ told' = [a \in Attempts |-> IF a = report.attempt THEN told[a] \cup {report.outcome}
                                   ELSE told[a]]
    /\ UNCHANGED <<files, sup, fast, crashes, exits, asked, overlapped, fate, posted>>

RemoveReport ==
    /\ Alive /\ agent.sent # NoReport
    /\ agent' = [agent EXCEPT !.sent = NoReport]
    /\ report' = NoReport
    /\ UNCHANGED <<disk, releases, unpacked, pending, health, sup, fast, crashes, exits, observed>>

\* A bug: the streak grows beyond what the supervisor asks for.
StreakUncapped(ok) == IF ok THEN agent.good + 1 ELSE 0

\* self.consecutive_good, as far as the supervisor can tell.
Streak(ok) == IF ~ok THEN 0 ELSE IF agent.good < GoodCheckins THEN agent.good + 1 ELSE agent.good

\* A check-in, and the beacon after it (_write_health).
Beacon(ok) ==
    /\ Alive /\ agent.sent = NoReport
    /\ health' = [build |-> agent.build, good |-> Streak(ok)]

CheckIn ==
    /\ Reaches
    /\ Beacon(TRUE)
    /\ agent' = [agent EXCEPT !.good = Streak(TRUE)]
    /\ UNCHANGED <<disk, releases, unpacked, pending, report, sup, fast, crashes, exits, observed>>

CheckInFails ==
    /\ Beacon(FALSE)
    /\ agent' = [agent EXCEPT !.good = Streak(FALSE)]
    /\ UNCHANGED <<disk, releases, unpacked, pending, report, sup, fast, crashes, exits, observed>>

\* A check-in whose answer holds an agent_update task.
Ask(a) ==
    /\ Reaches /\ agent.stage = "idle"
    /\ a \notin asked
    /\ Overlap \/ ~OnTrial
    /\ Beacon(TRUE)
    /\ agent' = [agent EXCEPT !.good = Streak(TRUE), !.task = a, !.stage = "asked"]
    /\ asked' = asked \cup {a}
    /\ overlapped' = (overlapped \/ OnTrial)
    /\ UNCHANGED <<disk, releases, unpacked, pending, report, sup, fast, crashes, exits, fate, posted, told>>

\* The build runs already, the download fails or the checksum is wrong.
GiveUp ==
    /\ Alive /\ agent.stage = "asked"
    /\ agent' = [agent EXCEPT !.stage = "idle", !.task = "none"]
    /\ UNCHANGED <<files, sup, fast, crashes, exits, observed>>

\* A bug: the build that runs is extracted anew.
WantedAlways(a) == a \in Attempts

Wanted(a) == Target[a] # agent.build

\* _extract_release: unpack beside, remove what is there, move in place.
Unpack ==
    /\ Alive /\ agent.stage = "asked"
    /\ Wanted(agent.task)
    /\ unpacked' = TRUE
    /\ agent' = [agent EXCEPT !.stage = "unpacked"]
    /\ UNCHANGED <<disk, releases, pending, health, report, sup, fast, crashes, exits, observed>>

ClearRelease ==
    /\ Alive /\ agent.stage = "unpacked"
    /\ releases' = releases \ {Target[agent.task]}
    /\ agent' = [agent EXCEPT !.stage = "cleared"]
    /\ UNCHANGED <<disk, unpacked, pending, health, report, sup, fast, crashes, exits, observed>>

Place ==
    /\ Alive /\ agent.stage = "cleared"
    /\ \/ /\ unpacked
          /\ releases' = releases \cup {Target[agent.task]}
          /\ unpacked' = FALSE
          /\ agent' = [agent EXCEPT !.stage = "placed"]
       \/ /\ ~unpacked
          /\ agent' = [agent EXCEPT !.stage = "idle", !.task = "none"]
          /\ UNCHANGED <<releases, unpacked>>
    /\ UNCHANGED <<disk, pending, health, report, sup, fast, crashes, exits, observed>>

HandOver ==
    /\ Alive /\ agent.stage = "placed"
    /\ pending' = agent.task
    /\ agent' = [agent EXCEPT !.stage = "handed"]
    /\ UNCHANGED <<disk, releases, unpacked, health, report, sup, fast, crashes, exits, observed>>

Leave ==
    /\ Alive /\ agent.stage = "handed"
    /\ agent' = NoAgent
    /\ UNCHANGED <<files, sup, fast, crashes, exits, observed>>

\* A bad build dies at will, another one at most MaxExits times.
Die ==
    /\ Alive
    /\ \/ agent.build \in Bad /\ UNCHANGED exits
       \/ exits < MaxExits /\ exits' = exits + 1
    /\ agent' = NoAgent
    /\ UNCHANGED <<files, sup, fast, crashes, observed>>

RunAgent ==
    \/ Upload \/ RemoveReport \/ CheckIn \/ CheckInFails \/ (\E a \in Attempts : Ask(a))
    \/ GiveUp \/ Unpack \/ ClearRelease \/ Place \/ HandOver \/ Leave \/ Die

HostCrash ==
    /\ crashes < MaxCrashes /\ ~At("down")
    /\ crashes' = crashes + 1
    /\ Goto("down") /\ fast' = 0
    /\ agent' = NoAgent
    /\ UNCHANGED <<files, exits, observed>>

Next == Supervise \/ RunAgent \/ HostCrash

\* The supervisor never stops by itself, an agent that handed over leaves,
\* and one that can reach the server uploads a report it finds.
Fairness ==
    /\ WF_vars(Supervise)
    /\ WF_vars(Upload) /\ WF_vars(RemoveReport) /\ WF_vars(Leave)
Spec == Init /\ [][Next]_vars /\ Fairness

-----------------------------------------------------------------------------
(* Properties.                                                             *)

\* The promises to the server, and what they imply, hold in spite of files
\* and crashes.
Managed == INSTANCE ManagedProbe WITH active <- disk.active, trial <- disk.trial.attempt
PromisesKept == Managed!Init /\ [][Managed!Next]_Managed!vars

Proven == {First} \cup {Target[a] : a \in {b \in Attempts : fate[b] = "kept"}}

\* No prune, extraction or crash ever takes away the release that the
\* supervisor is to run: it would retry it every five seconds for ever.  And as
\* long as no update is asked for during the probation of another, a build
\* that runs without probation has passed one, and so has the one to go back
\* to, which is still on disk (_prune_releases, _extract_release).
RunsProven ==
    /\ disk.active \in releases
    /\ ~overlapped => IF OnTrial THEN disk.trial.back \in Proven \cap releases
                      ELSE disk.active \in Proven

\* A build that cannot reach the server does not stay: "a bad build can
\* never dark-out a probe".  (Overlapping updates can make one stay.)
BadIsLeft == []<>(disk.active \notin Bad \/ overlapped)

\* The server hears of an outcome unless the report of another update
\* takes its place: of a rollback also across a crash (its report is
\* written first), of a success unless the host crashes (it is written
\* last).
Heard(a) == told[a] # {} \/ overlapped \/ \E r \in posted : r.attempt # a
OutcomeIsHeard ==
    /\ \A a \in Attempts : fate[a] = "undone" ~> Heard(a)
    /\ \A a \in Attempts : fate[a] = "kept" ~> Heard(a) \/ crashes > 0
=============================================================================
