------------------------ MODULE ProbeSupervisor_proofs ------------------------
(***************************************************************************)
(* The supervisor for any builds, updates and crashes: it always has a     *)
(* release to run, a proven one to go back to, and it keeps the promises   *)
(* of ManagedProbe.  Both rest on one invariant, which says at each place  *)
(* of the supervisor what the files, the agent and the report hold.  The   *)
(* last part proves what ManagedProbe promises, of any files and reports   *)
(* that take its steps, and so of the supervisor's.                        *)
(***************************************************************************)
EXTENDS ProbeSupervisor, TLAPS

\* An update that was asked for is untried until the supervisor begins it,
\* wherever it is: with the agent, in the file, or in the supervisor's hand.
Untried ==
    /\ \A a \in Attempts \ asked : fate[a] = "none"
    /\ Alive /\ agent.task # "none" => agent.task \in asked /\ fate[agent.task] = "none"
    /\ pending # "none" => pending \in asked /\ fate[pending] = "none"
    /\ At("begin") => /\ sup.attempt \in asked /\ fate[sup.attempt] = "none"
                      /\ pending = "none"

\* The agent runs only under a supervisor that watches it, from the active
\* release, and never replaces that one.
Watched ==
    Alive => /\ sup.at \in {"watch", "kept", "prune"}
             /\ agent.build = disk.active
             /\ agent.stage # "idle" => agent.task \in Attempts
             /\ agent.stage = "unpacked" => Target[agent.task] # agent.build

\* What is on disk that the supervisor is about to run.
Runnable ==
    /\ disk.active \in releases
    /\ At("begin") => Target[sup.attempt] \in releases
    /\ At("loop") => disk.previous \in releases

\* The state file and the fate of the update agree at every place.
OnFile ==
    /\ OnTrial => /\ fate[disk.trial.attempt] = "trial"
                  /\ disk.active = Target[disk.trial.attempt]
    /\ sup.at \in {"undo", "revert"} => OnTrial
    /\ sup.at \in {"kept", "prune", "loop"} => ~OnTrial
    /\ At("kept") => sup.attempt \in Attempts /\ fate[sup.attempt] = "kept"

\* A report is written before what it reports of a rollback.
Written ==
    /\ report # NoReport => report \in posted
    /\ At("revert") => [attempt |-> disk.trial.attempt, outcome |-> "rolled_back"] \in posted
    /\ At("loop") => [attempt |-> "crashloop", outcome |-> "rolled_back"] \in posted

\* Without overlapping updates nothing is under way during a probation, and
\* what it would go back to has passed one, as have the last two kept builds.
Provenance ==
    ~overlapped =>
        /\ OnTrial => /\ Alive => agent.task = "none"
                      /\ pending = "none" /\ ~At("begin")
                      /\ disk.trial.back \in Proven \cap releases
        /\ ~OnTrial => disk.active \in Proven
        /\ disk.previous \in Proven \cup {"none"}

IInv == TypeOK /\ Untried /\ Watched /\ Runnable /\ OnFile /\ Written /\ Provenance

-----------------------------------------------------------------------------
(* The steps of the supervisor.                                            *)

LEMMA BootSafe == ASSUME IInv, Boot PROVE IInv'
BY DEF IInv, Boot, TypeOK, Untried, Watched, Runnable, OnFile, Written, Provenance, At, Goto,
       OnTrial, Alive, observed, Places, Proven, Fallbacks

LEMMA TakeSwitchSafe == ASSUME IInv, TakeSwitch PROVE IInv'
BY DEF IInv, TakeSwitch, TypeOK, Untried, Watched, Runnable, OnFile, Written, Provenance, At,
       GoWith, OnTrial, Alive, observed, Places, Proven, Switchable

LEMMA DropSwitchSafe == ASSUME IInv, DropSwitch PROVE IInv'
BY DEF IInv, DropSwitch, TypeOK, Untried, Watched, Runnable, OnFile, Written, Provenance, At,
       OnTrial, Alive, observed, Proven

LEMMA BeginSwitchSafe == ASSUME IInv, BeginSwitch PROVE IInv'
<1> DEFINE a == sup.attempt
<1> USE SupervisorAssumption DEF At, OnTrial, NoTrial
<1>1. /\ a \in Attempts /\ a \in asked /\ fate[a] = "none" /\ Target[a] \in releases
      /\ pending = "none" /\ ~Alive /\ sup.at = "begin"
    BY DEF IInv, BeginSwitch, TypeOK, Untried, Watched, Runnable
<1>2. /\ disk' = [active |-> Target[a], previous |-> disk.previous,
                  trial |-> [attempt |-> a, back |-> disk.active]]
      /\ sup' = [at |-> "cleanup", attempt |-> "none"]
      /\ UNCHANGED <<releases, unpacked, pending, health, report, agent, crashes, exits,
                     asked, overlapped, posted, told>>
    BY DEF BeginSwitch, Goto, PrevGood, IInv, TypeOK
<1>3. /\ fate' \in [Attempts -> Fates] /\ fate'[a] = "trial"
      /\ \A b \in Attempts \ {a} : fate[b] \in {"none", "kept"} => fate'[b] = fate[b]
    BY <1>1 DEF BeginSwitch, IInv, TypeOK, OnFile, Fates
<1>4. disk'.trial \in [attempt : Attempts, back : Builds] /\ OnTrial'
    BY <1>1, <1>2 DEF IInv, TypeOK
<1>5. TypeOK'
  <2>1. disk' \in [active : Builds, previous : Builds \cup {"none"},
                   trial : [attempt : Attempts, back : Builds] \cup {NoTrial}]
      BY <1>1, <1>2, <1>4 DEF IInv, TypeOK
  <2>2. fast' \in 0..CrashMax /\ sup' \in [at : Places, attempt : Attempts \cup {"none"}]
      BY <1>2 DEF BeginSwitch, Places
  <2> QED BY <1>2, <1>3, <2>1, <2>2 DEF IInv, TypeOK
<1>6. Untried' BY <1>1, <1>2, <1>3 DEF IInv, TypeOK, Untried, Alive
<1>7. Watched' /\ Runnable' /\ Written'
    BY <1>1, <1>2 DEF IInv, Watched, Runnable, Written, Alive
<1>8. OnFile' BY <1>2, <1>3 DEF OnFile
<1>9. Provenance'
  <2> SUFFICES ASSUME ~overlapped
               PROVE /\ disk'.trial.back \in (Proven \cap releases)'
                     /\ disk'.previous \in Proven' \cup {"none"}
      BY <1>1, <1>2, <1>4 DEF Provenance, Alive
  <2>1. Proven \subseteq Proven' BY <1>1, <1>3 DEF Proven
  <2>2. ~OnTrial BY <1>1 DEF IInv, Provenance
  <2> QED BY <1>2, <2>1, <2>2 DEF IInv, Runnable, Provenance
<1> QED BY <1>5, <1>6, <1>7, <1>8, <1>9 DEF IInv

LEMMA ClearHealthSafe == ASSUME IInv, ClearHealth PROVE IInv'
BY DEF IInv, ClearHealth, TypeOK, Untried, Watched, Runnable, OnFile, Written, Provenance, At,
       Goto, OnTrial, Alive, observed, Places, Proven

LEMMA SpawnSafe == ASSUME IInv, Spawn PROVE IInv'
BY SupervisorAssumption DEF IInv, Spawn, TypeOK, Untried, Watched, Runnable, OnFile, Written,
                            Provenance, At, Goto, OnTrial, NoAgent, files, observed, Places,
                            Proven, Stages

LEMMA KeepSafe == ASSUME IInv, Keep PROVE IInv'
<1> DEFINE a == disk.trial.attempt
<1> USE SupervisorAssumption DEF At, OnTrial, NoTrial
<1>1. /\ a \in Attempts /\ fate[a] = "trial" /\ disk.active = Target[a] /\ sup.at = "watch"
    BY DEF IInv, Keep, TypeOK, OnFile
<1>2. /\ disk' = [active |-> disk.active, previous |-> disk.trial.back, trial |-> NoTrial]
      /\ sup' = [at |-> "kept", attempt |-> a]
      /\ UNCHANGED <<releases, unpacked, pending, health, report, fast, agent, crashes, exits,
                     asked, overlapped, posted, told>>
    BY DEF Keep, GoWith, IInv, TypeOK
<1>3. /\ fate' \in [Attempts -> Fates] /\ fate'[a] = "kept"
      /\ \A b \in Attempts \ {a} : fate'[b] = fate[b]
    BY <1>1 DEF Keep, IInv, TypeOK, Fates
<1>4. TypeOK'
  <2>1. disk.trial.back \in Builds /\ disk.active \in Builds
      BY DEF IInv, Keep, TypeOK
  <2>2. sup' \in [at : Places, attempt : Attempts \cup {"none"}]
      BY <1>1, <1>2 DEF Places
  <2> QED BY <1>2, <1>3, <2>1, <2>2 DEF IInv, TypeOK
<1>5. Untried' BY <1>1, <1>2, <1>3 DEF IInv, TypeOK, Untried, Alive
<1>6. Watched' /\ Runnable' /\ Written'
    BY <1>1, <1>2 DEF IInv, Watched, Runnable, Written, Alive
<1>7. OnFile' BY <1>1, <1>2, <1>3 DEF OnFile
<1>8. Provenance'
  <2>1. Proven \subseteq Proven' /\ Target[a] \in Proven'
      BY <1>1, <1>3 DEF Proven
  <2> QED BY <1>1, <1>2, <2>1 DEF IInv, Keep, Provenance
<1> QED BY <1>4, <1>5, <1>6, <1>7, <1>8 DEF IInv

LEMMA ReportSuccessSafe == ASSUME IInv, ReportSuccess PROVE IInv'
BY DEF IInv, ReportSuccess, TypeOK, Untried, Watched, Runnable, OnFile, Written, Provenance,
       At, Goto, OnTrial, Alive, Places, Proven, WriteReport, Reports, Outcomes

LEMMA PruneSafe == ASSUME IInv, Prune PROVE IInv'
<1> USE DEF At, OnTrial
<1>1. /\ sup.at = "prune" /\ ~OnTrial /\ releases' \subseteq releases
      /\ disk.active \in releases'
      /\ sup' = [at |-> "watch", attempt |-> "none"] /\ unpacked' = FALSE
      /\ UNCHANGED <<disk, pending, health, report, fast, agent, crashes, exits, observed>>
    BY DEF IInv, Prune, Goto, PruneKeeps, Runnable, OnFile
<1>2. TypeOK' BY <1>1 DEF IInv, TypeOK, Places, observed
<1>3. Untried' /\ Watched' /\ Runnable' /\ OnFile' /\ Written'
    BY <1>1 DEF IInv, Untried, Watched, Runnable, OnFile, Written, Alive, observed
<1>4. Provenance' BY <1>1 DEF IInv, Provenance, Proven, observed
<1> QED BY <1>2, <1>3, <1>4 DEF IInv

LEMMA DeadlineSafe == ASSUME IInv, Deadline PROVE IInv'
BY DEF IInv, Deadline, TypeOK, Untried, Watched, Runnable, OnFile, Written, Provenance, At,
       Goto, OnTrial, Alive, files, observed, Places, Proven

LEMMA ReportUndoSafe == ASSUME IInv, ReportUndo PROVE IInv'
<1> DEFINE r == [attempt |-> disk.trial.attempt, outcome |-> "rolled_back"]
<1> USE DEF At, OnTrial
<1>1. /\ sup.at = "undo" /\ OnTrial /\ report' = r /\ posted' = posted \cup {r}
      /\ sup' = [at |-> "revert", attempt |-> "none"]
      /\ UNCHANGED <<disk, releases, unpacked, pending, health, fast, agent, crashes, exits,
                     asked, overlapped, fate, told>>
    BY DEF IInv, ReportUndo, Goto, WriteReport, OnFile
<1>2. r \in Reports BY <1>1 DEF IInv, TypeOK, Reports, Outcomes
<1>3. TypeOK' BY <1>1, <1>2 DEF IInv, TypeOK, Places
<1>4. Untried' /\ Watched' /\ Runnable' /\ OnFile' /\ Written'
    BY <1>1 DEF IInv, Untried, Watched, Runnable, OnFile, Written, Alive
<1>5. Provenance' BY <1>1 DEF IInv, Provenance, Proven, Alive
<1> QED BY <1>3, <1>4, <1>5 DEF IInv

LEMMA UndoSafe == ASSUME IInv, Undo PROVE IInv'
<1> DEFINE a == disk.trial.attempt
<1> USE SupervisorAssumption DEF At, OnTrial, NoTrial
<1>1. /\ a \in Attempts /\ fate[a] = "trial" /\ sup.at = "revert" /\ ~Alive /\ OnTrial
    BY DEF IInv, Undo, TypeOK, OnFile, Watched
<1>2. PICK build \in Fallbacks(disk.trial.back) :
          disk' = [disk EXCEPT !.active = build, !.trial = NoTrial]
    BY DEF Undo
<1>3. /\ build \in releases
      /\ disk.trial.back \in releases => build = disk.trial.back
    BY DEF Fallbacks, IInv, Runnable
<1>4. /\ disk' = [active |-> build, previous |-> disk.previous, trial |-> NoTrial]
      /\ sup' = [at |-> "cleanup", attempt |-> "none"] /\ fast' = 0
      /\ UNCHANGED <<releases, unpacked, pending, health, report, agent, crashes, exits,
                     asked, overlapped, posted, told>>
    BY <1>2 DEF Undo, Goto, IInv, TypeOK
<1>5. /\ fate' \in [Attempts -> Fates] /\ fate'[a] = "undone"
      /\ \A b \in Attempts \ {a} : fate'[b] = fate[b]
    BY <1>1 DEF Undo, IInv, TypeOK, Fates
<1>6. TypeOK'
  <2>1. build \in Builds /\ disk.previous \in Builds \cup {"none"}
      BY <1>3 DEF IInv, TypeOK
  <2>2. sup' \in [at : Places, attempt : Attempts \cup {"none"}] /\ fast' \in 0..CrashMax
      BY <1>4 DEF Places
  <2> QED BY <1>4, <1>5, <2>1, <2>2 DEF IInv, TypeOK
<1>7. Untried' BY <1>1, <1>4, <1>5 DEF IInv, TypeOK, Untried, Alive
<1>8. Watched' /\ Runnable' /\ OnFile' /\ Written'
    BY <1>1, <1>3, <1>4 DEF IInv, Watched, Runnable, OnFile, Written, Alive
<1>9. Provenance'
  <2>1. Proven \subseteq Proven' BY <1>1, <1>5 DEF Proven
  <2> QED BY <1>1, <1>3, <1>4, <2>1 DEF IInv, Provenance
<1> QED BY <1>6, <1>7, <1>8, <1>9 DEF IInv

LEMMA SeeExitSafe == ASSUME IInv, SeeExit PROVE IInv'
BY DEF IInv, SeeExit, TypeOK, Untried, Watched, Runnable, OnFile, Written, Provenance, At,
       Goto, OnTrial, Alive, files, observed, Places, Proven

LEMMA ExitOnTrialSafe == ASSUME IInv, ExitOnTrial PROVE IInv'
BY DEF IInv, ExitOnTrial, TypeOK, Untried, Watched, Runnable, OnFile, Written, Provenance, At,
       Goto, OnTrial, Alive, files, observed, Places, Proven

LEMMA RespawnSafe == ASSUME IInv, Respawn PROVE IInv'
BY SupervisorAssumption DEF IInv, Respawn, TypeOK, Untried, Watched, Runnable, OnFile, Written,
                            Provenance, At, Goto, OnTrial, Alive, files, observed, Places,
                            Proven

LEMMA ReportLoopSafe == ASSUME IInv, ReportLoop PROVE IInv'
BY DEF IInv, ReportLoop, TypeOK, Untried, Watched, Runnable, OnFile, Written, Provenance, At,
       Goto, OnTrial, Alive, Places, Proven, WriteReport, Reports, Outcomes, CrashLoops

LEMMA RetreatSafe == ASSUME IInv, Retreat PROVE IInv'
BY SupervisorAssumption DEF IInv, Retreat, TypeOK, Untried, Watched, Runnable, OnFile, Written,
                            Provenance, At, Goto, OnTrial, Alive, observed, Places, Proven

-----------------------------------------------------------------------------
(* The steps of the agent, and the crash of the host.                      *)

LEMMA UploadSafe == ASSUME IInv, Upload PROVE IInv'
BY DEF IInv, Upload, TypeOK, Untried, Watched, Runnable, OnFile, Written, Provenance, At,
       OnTrial, Alive, files, Proven, Reaches, Reports

LEMMA RemoveReportSafe == ASSUME IInv, RemoveReport PROVE IInv'
BY DEF IInv, RemoveReport, TypeOK, Untried, Watched, Runnable, OnFile, Written, Provenance, At,
       OnTrial, Alive, observed, Proven

LEMMA CheckInSafe == ASSUME IInv, CheckIn PROVE IInv'
BY SupervisorAssumption DEF IInv, CheckIn, TypeOK, Untried, Watched, Runnable, OnFile, Written,
                            Provenance, At, OnTrial, Alive, observed, Proven, Beacon, Streak

LEMMA CheckInFailsSafe == ASSUME IInv, CheckInFails PROVE IInv'
BY SupervisorAssumption DEF IInv, CheckInFails, TypeOK, Untried, Watched, Runnable, OnFile,
                            Written, Provenance, At, OnTrial, Alive, observed, Proven, Beacon,
                            Streak

LEMMA GiveUpSafe == ASSUME IInv, GiveUp PROVE IInv'
<1>1. /\ Alive /\ agent' = [agent EXCEPT !.stage = "idle", !.task = "none"]
      /\ UNCHANGED <<files, sup, fast, crashes, exits, observed>>
    BY DEF GiveUp
<1>2. /\ agent \in [build : Builds, good : 0..GoodCheckins, sent : Reports \cup {NoReport},
                    task : Attempts \cup {"none"}, stage : Stages]
    BY <1>1 DEF IInv, TypeOK, Alive
<1>3. TypeOK' BY <1>1, <1>2 DEF IInv, TypeOK, Stages, files, observed
<1>4. Untried' /\ Watched' /\ Provenance'
    BY <1>1, <1>2
       DEF IInv, Untried, Watched, Provenance, Proven, Alive, At, OnTrial, files, observed
<1>5. Runnable' /\ OnFile' /\ Written'
    BY <1>1 DEF IInv, Runnable, OnFile, Written, At, OnTrial, files, observed
<1> QED BY <1>3, <1>4, <1>5 DEF IInv

LEMMA UnpackSafe == ASSUME IInv, Unpack PROVE IInv'
BY DEF IInv, Unpack, TypeOK, Untried, Watched, Runnable, OnFile, Written, Provenance, At,
       OnTrial, Alive, observed, Proven, Wanted, Stages

LEMMA ClearReleaseSafe == ASSUME IInv, ClearRelease PROVE IInv'
BY SupervisorAssumption DEF IInv, ClearRelease, TypeOK, Untried, Watched, Runnable, OnFile,
                            Written, Provenance, At, OnTrial, Alive, observed, Proven, Stages

LEMMA PlaceSafe == ASSUME IInv, Place PROVE IInv'
<1>1. /\ Alive /\ releases \subseteq releases'
      /\ \/ agent' = [agent EXCEPT !.stage = "placed"] /\ unpacked' = FALSE
            /\ releases' = releases \cup {Target[agent.task]} /\ agent.stage = "cleared"
         \/ agent' = [agent EXCEPT !.stage = "idle", !.task = "none"]
            /\ UNCHANGED <<releases, unpacked>>
      /\ UNCHANGED <<disk, pending, health, report, sup, fast, crashes, exits, observed>>
    BY DEF Place
<1>2. /\ agent \in [build : Builds, good : 0..GoodCheckins, sent : Reports \cup {NoReport},
                    task : Attempts \cup {"none"}, stage : Stages]
    BY <1>1 DEF IInv, TypeOK, Alive
<1>3. agent.stage = "cleared" => agent.task \in Attempts
    BY <1>1 DEF IInv, Watched
<1>4. TypeOK'
  <2>1. agent.stage = "cleared" => Target[agent.task] \in Builds
      BY SupervisorAssumption, <1>3
  <2>2. agent' \in [build : Builds, good : 0..GoodCheckins, sent : Reports \cup {NoReport},
                    task : Attempts \cup {"none"}, stage : Stages]
      BY <1>1, <1>2 DEF Stages
  <2>3. releases' \subseteq Builds /\ unpacked' \in BOOLEAN
      BY <1>1, <2>1 DEF IInv, TypeOK
  <2> QED BY <1>1, <2>2, <2>3 DEF IInv, TypeOK, observed
<1>5. Untried' /\ Watched' /\ Provenance'
    BY <1>1, <1>2, <1>3
       DEF IInv, Untried, Watched, Provenance, Proven, Alive, At, OnTrial, observed
<1>6. Runnable' /\ OnFile' /\ Written'
    BY <1>1 DEF IInv, Runnable, OnFile, Written, At, OnTrial, observed
<1> QED BY <1>4, <1>5, <1>6 DEF IInv

LEMMA HandOverSafe == ASSUME IInv, HandOver PROVE IInv'
BY DEF IInv, HandOver, TypeOK, Untried, Watched, Runnable, OnFile, Written, Provenance, At,
       OnTrial, Alive, observed, Proven, Stages

LEMMA LeaveSafe == ASSUME IInv, Leave PROVE IInv'
BY DEF IInv, Leave, TypeOK, Untried, Watched, Runnable, OnFile, Written, Provenance, At,
       OnTrial, Alive, files, observed, Proven

LEMMA DieSafe == ASSUME IInv, Die PROVE IInv'
BY SupervisorAssumption DEF IInv, Die, TypeOK, Untried, Watched, Runnable, OnFile, Written,
                            Provenance, At, OnTrial, Alive, files, observed, Proven

LEMMA HostCrashSafe == ASSUME IInv, HostCrash PROVE IInv'
BY SupervisorAssumption DEF IInv, HostCrash, TypeOK, Untried, Watched, Runnable, OnFile,
                            Written, Provenance, At, Goto, OnTrial, Alive, files, observed,
                            Places, Proven

LEMMA AskSafe == ASSUME IInv, NEW a \in Attempts, Ask(a) PROVE IInv'
<1>1. /\ Alive /\ a \notin asked /\ fate[a] = "none"
      /\ agent' = [agent EXCEPT !.good = Streak(TRUE), !.task = a, !.stage = "asked"]
      /\ health' = [build |-> agent.build, good |-> Streak(TRUE)]
      /\ asked' = asked \cup {a} /\ overlapped' = (overlapped \/ OnTrial)
      /\ UNCHANGED <<disk, releases, unpacked, pending, report, sup, fast, crashes, exits,
                     fate, posted, told>>
    BY DEF Ask, Reaches, Beacon, IInv, Untried
<1>2. agent \in [build : Builds, good : 0..GoodCheckins, sent : Reports \cup {NoReport},
                 task : Attempts \cup {"none"}, stage : Stages]
    BY <1>1 DEF IInv, TypeOK, Alive
<1>3. Streak(TRUE) \in 0..GoodCheckins
    BY <1>2, SupervisorAssumption DEF Streak
<1>4. /\ agent' = [build |-> agent.build, good |-> Streak(TRUE), sent |-> agent.sent,
                  task |-> a, stage |-> "asked"]
      /\ Alive'
    BY <1>1, <1>2 DEF Alive, NoAgent
<1>5. TypeOK'
  <2>1. agent' \in [build : Builds, good : 0..GoodCheckins, sent : Reports \cup {NoReport},
                    task : Attempts \cup {"none"}, stage : Stages]
      BY <1>2, <1>3, <1>4 DEF Stages
  <2>2. health' \in [build : Builds, good : 0..GoodCheckins]
      BY <1>1, <1>2, <1>3
  <2>3. overlapped' \in BOOLEAN
      BY <1>1 DEF IInv, TypeOK, OnTrial
  <2> QED BY <1>1, <2>1, <2>2, <2>3 DEF IInv, TypeOK
<1>6. Untried' /\ Watched'
    BY <1>1, <1>4 DEF IInv, Untried, Watched, At
<1>7. Runnable' /\ OnFile' /\ Written'
    BY <1>1 DEF IInv, Runnable, OnFile, Written, At, OnTrial
<1>8. Provenance'
    BY <1>1, SupervisorAssumption DEF IInv, Provenance, Proven, OnTrial
<1> QED BY <1>5, <1>6, <1>7, <1>8 DEF IInv

-----------------------------------------------------------------------------
(* The initial states.                                                     *)

LEMMA InitSafe == Init => IInv
<1> SUFFICES ASSUME Init PROVE IInv
    OBVIOUS
<1> USE SupervisorAssumption DEF Init, NoTrial, NoAgent
<1>1. TypeOK
  <2>1. /\ disk \in [active : Builds, previous : Builds \cup {"none"},
                    trial : [attempt : Attempts, back : Builds] \cup {NoTrial}]
        /\ sup \in [at : Places, attempt : Attempts \cup {"none"}]
      BY DEF Places
  <2>2. fast \in 0..CrashMax /\ crashes \in 0..MaxCrashes /\ exits \in 0..MaxExits
      BY DEF SupervisorAssumption
  <2>3. fate \in [Attempts -> Fates] /\ told \in [Attempts -> SUBSET Outcomes]
      BY DEF Fates
  <2> QED BY <2>1, <2>2, <2>3 DEF TypeOK
<1>2. Untried /\ Watched /\ Runnable /\ OnFile /\ Written
    BY DEF Untried, Watched, Runnable, OnFile, Written, Alive, At, OnTrial
<1>3. Provenance
    BY DEF Provenance, Proven, OnTrial
<1> QED BY <1>1, <1>2, <1>3 DEF IInv

-----------------------------------------------------------------------------
(* The refinement: most steps leave alone what ManagedProbe sees.          *)

LEMMA BootIsSilent == ASSUME IInv, Boot PROVE UNCHANGED Managed!vars
BY DEF IInv, Runnable, Boot, Fallbacks, observed, Managed!vars

LEMMA BeginSwitchIsBegin ==
  ASSUME IInv, BeginSwitch PROVE Managed!Begin(sup.attempt) /\ sup.attempt \in Attempts
<1>1. sup.attempt \in Attempts /\ fate[sup.attempt] = "none"
    BY DEF IInv, BeginSwitch, TypeOK, Untried, At
<1>2. \A b \in Attempts : OnTrial /\ b = disk.trial.attempt <=> b = disk.trial.attempt
    BY SupervisorAssumption DEF OnTrial, NoTrial, IInv, TypeOK
<1>3. disk'.active = Target[sup.attempt] /\ disk'.trial.attempt = sup.attempt
    BY DEF BeginSwitch, IInv, TypeOK
<1> QED BY <1>1, <1>2, <1>3 DEF BeginSwitch, Managed!Begin

LEMMA KeepIsKeep == ASSUME IInv, Keep PROVE Managed!Keep
BY DEF IInv, Keep, TypeOK, OnTrial, NoTrial, Managed!Keep

LEMMA ReportSuccessIsPost ==
  ASSUME IInv, ReportSuccess PROVE \E r \in Managed!Reports : Managed!Post(r)
<1> DEFINE r == [attempt |-> sup.attempt, outcome |-> "success"]
<1>1. r \in Managed!Reports /\ fate[sup.attempt] = "kept" /\ sup.attempt \in Attempts
    BY DEF IInv, ReportSuccess, OnFile, At, Managed!Reports, Managed!Outcomes
<1>2. Managed!Post(r) BY <1>1 DEF ReportSuccess, WriteReport, Managed!Post
<1> QED BY <1>1, <1>2

LEMMA ReportUndoIsPost ==
  ASSUME IInv, ReportUndo PROVE \E r \in Managed!Reports : Managed!Post(r)
<1> DEFINE r == [attempt |-> disk.trial.attempt, outcome |-> "rolled_back"]
<1>1. disk.trial.attempt \in Attempts
    BY DEF IInv, ReportUndo, TypeOK, OnFile, OnTrial, At
<1>2. Managed!Post(r) BY <1>1 DEF ReportUndo, WriteReport, Managed!Post
<1> QED BY <1>1, <1>2 DEF Managed!Reports, Managed!Outcomes

LEMMA UndoIsUndo == ASSUME IInv, Undo PROVE Managed!Undo
<1>1. /\ disk.trial.attempt \in Attempts
      /\ [attempt |-> disk.trial.attempt, outcome |-> "rolled_back"] \in posted
    BY DEF IInv, Undo, TypeOK, OnFile, OnTrial, Written, At
<1>2. disk'.active \in Builds /\ disk'.trial.attempt = "none"
    BY DEF Undo, Fallbacks, NoTrial, IInv, TypeOK, Runnable
<1> QED BY <1>1, <1>2 DEF Undo, Managed!Undo

LEMMA ReportLoopIsPost ==
  ASSUME IInv, ReportLoop PROVE \E r \in Managed!Reports : Managed!Post(r)
<1> DEFINE r == [attempt |-> "crashloop", outcome |-> "rolled_back"]
<1>1. r \in Managed!Reports BY DEF Managed!Reports, Managed!Outcomes
<1>2. Managed!Post(r) BY DEF ReportLoop, WriteReport, OnTrial, NoTrial, Managed!Post
<1> QED BY <1>1, <1>2

LEMMA RetreatIsRetreat == ASSUME IInv, Retreat PROVE Managed!Retreat
BY DEF IInv, Retreat, TypeOK, Runnable, OnFile, Written, OnTrial, NoTrial, At, observed,
       Managed!Retreat

LEMMA UploadIsTell ==
  ASSUME IInv, Upload
  PROVE  UNCHANGED Managed!vars \/ \E r \in Managed!Reports : Managed!Tell(r)
<1>1. report \in posted /\ report \in Managed!Reports
    BY DEF IInv, Upload, TypeOK, Written, Reports, Outcomes, Managed!Reports, Managed!Outcomes
<1>2. CASE report.attempt \in Attempts
  <2>1. Managed!Tell(report) BY <1>1, <1>2 DEF Upload, files, IInv, TypeOK, Managed!Tell
  <2> QED BY <1>1, <2>1
<1>3. CASE report.attempt \notin Attempts
  <2>1. told' = told BY <1>3 DEF Upload, IInv, TypeOK
  <2> QED BY <2>1 DEF Upload, files, Managed!vars
<1> QED BY <1>2, <1>3

-----------------------------------------------------------------------------
LEMMA NextSafe == ASSUME IInv, [Next]_vars PROVE IInv' /\ [Managed!Next]_Managed!vars
<1> USE DEF Managed!Next
<1>1. CASE Supervise
  <2> DEFINE Silent == UNCHANGED <<disk, fate, posted, told>>
  <2>1. ASSUME Boot PROVE IInv' /\ UNCHANGED Managed!vars BY <2>1, BootSafe, BootIsSilent
  <2>2. ASSUME TakeSwitch PROVE IInv' /\ Silent BY <2>2, TakeSwitchSafe DEF TakeSwitch, observed
  <2>3. ASSUME DropSwitch PROVE IInv' /\ Silent BY <2>3, DropSwitchSafe DEF DropSwitch, observed
  <2>4. ASSUME BeginSwitch PROVE IInv' /\ Managed!Next
      BY <2>4, BeginSwitchSafe, BeginSwitchIsBegin
  <2>5. ASSUME ClearHealth PROVE IInv' /\ Silent
      BY <2>5, ClearHealthSafe DEF ClearHealth, observed
  <2>6. ASSUME Spawn PROVE IInv' /\ Silent BY <2>6, SpawnSafe DEF Spawn, files, observed
  <2>7. ASSUME Keep PROVE IInv' /\ Managed!Next BY <2>7, KeepSafe, KeepIsKeep
  <2>8. ASSUME ReportSuccess PROVE IInv' /\ Managed!Next
      BY <2>8, ReportSuccessSafe, ReportSuccessIsPost
  <2>9. ASSUME Prune PROVE IInv' /\ Silent BY <2>9, PruneSafe DEF Prune, observed
  <2>10. ASSUME Deadline PROVE IInv' /\ Silent
      BY <2>10, DeadlineSafe DEF Deadline, files, observed
  <2>11. ASSUME ReportUndo PROVE IInv' /\ Managed!Next
      BY <2>11, ReportUndoSafe, ReportUndoIsPost
  <2>12. ASSUME Undo PROVE IInv' /\ Managed!Next BY <2>12, UndoSafe, UndoIsUndo
  <2>13. ASSUME SeeExit PROVE IInv' /\ Silent BY <2>13, SeeExitSafe DEF SeeExit, files, observed
  <2>14. ASSUME ExitOnTrial PROVE IInv' /\ Silent
      BY <2>14, ExitOnTrialSafe DEF ExitOnTrial, files, observed
  <2>15. ASSUME Respawn PROVE IInv' /\ Silent BY <2>15, RespawnSafe DEF Respawn, files, observed
  <2>16. ASSUME ReportLoop PROVE IInv' /\ Managed!Next
      BY <2>16, ReportLoopSafe, ReportLoopIsPost
  <2>17. ASSUME Retreat PROVE IInv' /\ Managed!Next BY <2>17, RetreatSafe, RetreatIsRetreat
  <2> QED BY <1>1, <2>1, <2>2, <2>3, <2>4, <2>5, <2>6, <2>7, <2>8, <2>9, <2>10, <2>11, <2>12,
             <2>13, <2>14, <2>15, <2>16, <2>17 DEF Supervise, Managed!vars
<1>2. CASE RunAgent
  <2> DEFINE Silent == UNCHANGED <<disk, fate, posted, told>>
  <2>1. ASSUME Upload PROVE IInv' /\ [Managed!Next]_Managed!vars
      BY <2>1, UploadSafe, UploadIsTell
  <2>2. ASSUME RemoveReport PROVE IInv' /\ Silent
      BY <2>2, RemoveReportSafe DEF RemoveReport, observed
  <2>3. ASSUME CheckIn PROVE IInv' /\ Silent BY <2>3, CheckInSafe DEF CheckIn, observed
  <2>4. ASSUME CheckInFails PROVE IInv' /\ Silent
      BY <2>4, CheckInFailsSafe DEF CheckInFails, observed
  <2>5. ASSUME NEW a \in Attempts, Ask(a) PROVE IInv' /\ Silent BY <2>5, AskSafe DEF Ask
  <2>6. ASSUME GiveUp PROVE IInv' /\ Silent BY <2>6, GiveUpSafe DEF GiveUp, files, observed
  <2>7. ASSUME Unpack PROVE IInv' /\ Silent BY <2>7, UnpackSafe DEF Unpack, observed
  <2>8. ASSUME ClearRelease PROVE IInv' /\ Silent
      BY <2>8, ClearReleaseSafe DEF ClearRelease, observed
  <2>9. ASSUME Place PROVE IInv' /\ Silent BY <2>9, PlaceSafe DEF Place, observed
  <2>10. ASSUME HandOver PROVE IInv' /\ Silent BY <2>10, HandOverSafe DEF HandOver, observed
  <2>11. ASSUME Leave PROVE IInv' /\ Silent BY <2>11, LeaveSafe DEF Leave, files, observed
  <2>12. ASSUME Die PROVE IInv' /\ Silent BY <2>12, DieSafe DEF Die, files, observed
  <2> QED BY <1>2, <2>1, <2>2, <2>3, <2>4, <2>5, <2>6, <2>7, <2>8, <2>9, <2>10, <2>11, <2>12
          DEF RunAgent, Managed!vars
<1>3. CASE HostCrash
    BY <1>3, HostCrashSafe DEF HostCrash, files, observed, Managed!vars
<1>4. CASE UNCHANGED vars
  <2> USE <1>4 DEF vars, files, observed
  <2>1. TypeOK' BY DEF IInv, TypeOK
  <2>2. Untried' /\ Watched' /\ Runnable' /\ OnFile' /\ Written'
      BY DEF IInv, Untried, Watched, Runnable, OnFile, Written, Alive, At, OnTrial
  <2>3. Provenance' BY DEF IInv, Provenance, Proven, Alive, At, OnTrial
  <2> QED BY <2>1, <2>2, <2>3 DEF IInv, Managed!vars
<1> QED BY <1>1, <1>2, <1>3, <1>4 DEF Next

LEMMA AlwaysSafe == Spec => []IInv
<1>1. Init => IInv BY InitSafe
<1>2. IInv /\ [Next]_vars => IInv' BY NextSafe
<1> QED BY <1>1, <1>2, PTL DEF Spec

\* The state of the supervisor, its files and its agent is of its type.
THEOREM SupervisorTypes == Spec => []TypeOK
<1>1. IInv => TypeOK BY DEF IInv
<1> QED BY <1>1, AlwaysSafe, PTL

\* There is always a release to run, and without overlapping updates a proven
\* one to go back to (_prune_releases, _extract_release, _rollback).
THEOREM AlwaysRunsProven == Spec => []RunsProven
<1>1. IInv => RunsProven BY DEF IInv, Runnable, Provenance, RunsProven
<1> QED BY <1>1, AlwaysSafe, PTL

\* The supervisor, its files and its crashes implement ManagedProbe.
THEOREM PromisesAreKept == Spec => PromisesKept
<1>1. Init => Managed!Init
    BY DEF Init, NoTrial, Managed!Init
<1>2. IInv /\ [Next]_vars => [Managed!Next]_Managed!vars BY NextSafe
<1> QED BY <1>1, <1>2, AlwaysSafe, PTL DEF Spec, PromisesKept

-----------------------------------------------------------------------------
(* What ManagedProbe promises, and the supervisor with it.                 *)

\* What the probe has written is what became of the update, whatever the
\* server has heard; an update on probation is the one the probe is trying.
Backed ==
    /\ \A a \in Attempts : \A o \in told[a] : [attempt |-> a, outcome |-> o] \in posted
    /\ \A a \in Attempts :
          [attempt |-> a, outcome |-> "success"] \in posted => fate[a] = "kept"
    /\ \A a \in Attempts :
          [attempt |-> a, outcome |-> "rolled_back"] \in posted => fate[a] # "none"
    /\ disk.trial.attempt \in Attempts => fate[disk.trial.attempt] = "trial"

Kept == Managed!TypeOK /\ Backed

LEMMA InitKept == ASSUME Managed!Init PROVE Kept
BY SupervisorAssumption DEF Managed!Init, Kept, Managed!TypeOK, Backed, Managed!Fates

LEMMA BeginKept == ASSUME Kept, NEW a \in Attempts, Managed!Begin(a) PROVE Kept'
<1>1. /\ disk'.active \in Builds /\ disk'.trial.attempt \in Attempts \cup {"none"}
      /\ fate' \in [Attempts -> Managed!Fates]
    BY SupervisorAssumption DEF Managed!Begin, Kept, Managed!TypeOK, Managed!Fates
<1>2. Managed!TypeOK' BY <1>1 DEF Managed!Begin, Kept, Managed!TypeOK
<1>3. \A b \in Attempts : fate[b] = "kept" => fate'[b] = "kept"
    BY SupervisorAssumption DEF Managed!Begin, Kept, Managed!TypeOK, Backed
<1>4. \A b \in Attempts : fate[b] # "none" => fate'[b] # "none"
    BY DEF Managed!Begin, Kept, Managed!TypeOK
<1>5. fate'[disk'.trial.attempt] = "trial"
    BY DEF Managed!Begin, Kept, Managed!TypeOK
<1>. QED BY <1>2, <1>3, <1>4, <1>5 DEF Kept, Backed, Managed!Begin

LEMMA KeepKept == ASSUME Kept, Managed!Keep PROVE Kept'
<1>1. Managed!TypeOK' BY DEF Managed!Keep, Kept, Managed!TypeOK, Managed!Fates
<1>2. \A b \in Attempts : /\ fate[b] = "kept" => fate'[b] = "kept"
                          /\ fate[b] # "none" => fate'[b] # "none"
    BY DEF Managed!Keep, Kept, Managed!TypeOK
<1>3. disk'.trial.attempt \notin Attempts BY SupervisorAssumption DEF Managed!Keep
<1>. QED BY <1>1, <1>2, <1>3 DEF Kept, Backed, Managed!Keep

LEMMA UndoKept == ASSUME Kept, Managed!Undo PROVE Kept'
<1>1. Managed!TypeOK' BY DEF Managed!Undo, Kept, Managed!TypeOK, Managed!Fates
<1>2. fate[disk.trial.attempt] = "trial" BY DEF Managed!Undo, Kept, Backed
<1>3. \A b \in Attempts : /\ fate[b] = "kept" => fate'[b] = "kept"
                          /\ fate[b] # "none" => fate'[b] # "none"
    BY <1>2 DEF Managed!Undo, Kept, Managed!TypeOK
<1>4. disk'.trial.attempt \notin Attempts BY SupervisorAssumption DEF Managed!Undo
<1>. QED BY <1>1, <1>3, <1>4 DEF Kept, Backed, Managed!Undo

LEMMA RetreatKept == ASSUME Kept, Managed!Retreat PROVE Kept'
<1>1. Managed!TypeOK' BY DEF Managed!Retreat, Kept, Managed!TypeOK
<1>. QED BY <1>1 DEF Kept, Backed, Managed!Retreat

LEMMA PostKept == ASSUME Kept, NEW r \in Managed!Reports, Managed!Post(r) PROVE Kept'
<1>1. Managed!TypeOK' BY DEF Managed!Post, Kept, Managed!TypeOK
<1>2. \A b \in Attempts : [attempt |-> b, outcome |-> "success"] \in posted' => fate[b] = "kept"
  <2> SUFFICES ASSUME NEW b \in Attempts, [attempt |-> b, outcome |-> "success"] = r
               PROVE fate[b] = "kept"
      BY DEF Managed!Post, Kept, Backed
  <2>1. r.attempt = b /\ r.outcome = "success" OBVIOUS
  <2>. QED BY <2>1 DEF Managed!Post
<1>3. \A b \in Attempts : [attempt |-> b, outcome |-> "rolled_back"] \in posted' => fate[b] # "none"
  <2> SUFFICES ASSUME NEW b \in Attempts, [attempt |-> b, outcome |-> "rolled_back"] = r
               PROVE fate[b] # "none"
      BY DEF Managed!Post, Kept, Backed
  <2>1. r.attempt = b /\ r.outcome = "rolled_back" OBVIOUS
  <2>2. disk.trial.attempt = b BY <2>1, SupervisorAssumption DEF Managed!Post
  <2>. QED BY <2>2 DEF Kept, Backed
<1>. QED BY <1>1, <1>2, <1>3 DEF Kept, Backed, Managed!Post

LEMMA TellKept == ASSUME Kept, NEW r \in Managed!Reports, Managed!Tell(r) PROVE Kept'
<1>1. r.outcome \in Managed!Outcomes /\ [attempt |-> r.attempt, outcome |-> r.outcome] = r
    BY DEF Managed!Reports
<1>2. told' \in [Attempts -> SUBSET Managed!Outcomes] BY <1>1 DEF Managed!Tell, Kept, Managed!TypeOK
<1>3. \A b \in Attempts : \A o \in told'[b] : [attempt |-> b, outcome |-> o] \in posted
    BY <1>1 DEF Managed!Tell, Kept, Managed!TypeOK, Backed
<1>. QED BY <1>2, <1>3 DEF Kept, Managed!TypeOK, Backed, Managed!Tell

LEMMA NextKept == ASSUME Kept, [Managed!Next]_Managed!vars PROVE Kept'
<1>1. ASSUME NEW a \in Attempts, Managed!Begin(a) PROVE Kept' BY <1>1, BeginKept
<1>2. CASE Managed!Keep BY <1>2, KeepKept
<1>3. CASE Managed!Undo BY <1>3, UndoKept
<1>4. CASE Managed!Retreat BY <1>4, RetreatKept
<1>5. ASSUME NEW r \in Managed!Reports, Managed!Post(r) PROVE Kept' BY <1>5, PostKept
<1>6. ASSUME NEW r \in Managed!Reports, Managed!Tell(r) PROVE Kept' BY <1>6, TellKept
<1>7. CASE UNCHANGED Managed!vars BY <1>7 DEF Kept, Managed!TypeOK, Backed, Managed!vars
<1>. QED BY <1>1, <1>2, <1>3, <1>4, <1>5, <1>6, <1>7 DEF Managed!Next

LEMMA AlwaysKept == Managed!Spec => []Kept
<1>1. Managed!Init => Kept BY InitKept
<1>2. Kept /\ [Managed!Next]_Managed!vars => Kept' BY NextKept
<1>. QED BY <1>1, <1>2, PTL DEF Managed!Spec

\* The state of a supervised probe and its reports are of their types.
THEOREM ManagedTypes == Managed!Spec => []Managed!TypeOK
<1>1. Kept => Managed!TypeOK BY DEF Kept
<1>. QED BY <1>1, AlwaysKept, PTL

\* A success the server hears of is a build that passed its probation, however
\* late and however often it hears of it (agent/supervisor.py, _commit).
THEOREM SuccessIsAlwaysTrue == Managed!Spec => []Managed!SuccessIsTrue
<1>1. Kept => Managed!SuccessIsTrue BY DEF Kept, Managed!TypeOK, Backed, Managed!SuccessIsTrue
<1>. QED BY <1>1, AlwaysKept, PTL

\* The server hears of no update that was not tried.
THEOREM NothingToldUntried == Managed!Spec => []Managed!ToldWasTried
<1>1. Kept => Managed!ToldWasTried
    BY DEF Kept, Managed!TypeOK, Backed, Managed!ToldWasTried, Managed!Outcomes
<1>. QED BY <1>1, AlwaysKept, PTL

\* The outcome of an update is final: no later update, crash loop or report
\* turns a kept build into an undone one.
THEOREM OutcomeIsFinal == Managed!Spec => Managed!FateStays
<1>1. ASSUME Kept, [Managed!Next]_Managed!vars,
             NEW b \in Attempts, fate[b] \in {"kept", "undone", "displaced"}
      PROVE fate'[b] = fate[b]
  <2>1. ASSUME NEW a \in Attempts, Managed!Begin(a) PROVE fate'[b] = fate[b]
      BY <1>1, <2>1 DEF Managed!Begin, Kept, Managed!TypeOK, Backed
  <2>2. CASE Managed!Keep BY <1>1, <2>2 DEF Managed!Keep, Kept, Managed!TypeOK, Backed
  <2>3. CASE Managed!Undo BY <1>1, <2>3 DEF Managed!Undo, Kept, Managed!TypeOK, Backed
  <2>. QED BY <1>1, <2>1, <2>2, <2>3
          DEF Managed!Next, Managed!Retreat, Managed!Post, Managed!Tell, Managed!vars
<1>2. Kept /\ [Managed!Next]_Managed!vars => [Managed!Stays]_Managed!vars
    BY <1>1 DEF Managed!Stays
<1>. QED BY <1>2, AlwaysKept, PTL DEF Managed!Spec, Managed!FateStays

\* What the server is told of an update is true and final, across crashes of
\* the host and lost or repeated uploads: the promises of ManagedProbe, inherited.
THEOREM ToldSuccessIsTrue ==
  Spec => [](Managed!SuccessIsTrue /\ Managed!ToldWasTried) /\ Managed!FateStays
<1>1. PromisesKept <=> Managed!Spec BY PTL DEF PromisesKept, Managed!Spec
<1> QED
    BY <1>1, PromisesAreKept, SuccessIsAlwaysTrue, NothingToldUntried, OutcomeIsFinal, PTL
=============================================================================
