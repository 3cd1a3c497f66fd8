---------------------------- MODULE SensorChains ----------------------------
(***************************************************************************)
(* Probe chains of the central scheduler (core/state.py).                  *)
(*                                                                         *)
(* A running, centrally measured sensor owns a "chain": an entry in the    *)
(* scheduler's heap, which becomes a task of the executor, which measures  *)
(* the sensor and pushes the next heap entry.  Chains carry no identity:   *)
(* heap entries and tasks name only the sensor, so the state counts, per   *)
(* sensor, the chains in each phase.  Time is abstracted: any heap entry   *)
(* may fall due.  Request handlers (Callers) run start_sensor, stop_sensor,*)
(* update_sensor, remove_sensor and apply_probe_assignment in the atomic   *)
(* steps their locks make of them.                                         *)
(***************************************************************************)
EXTENDS Naturals, FiniteSets

CONSTANTS Sensors,    \* (did, sid) pairs
          Callers,    \* request-handler threads
          Overlap,    \* TRUE: requests on one sensor may overlap
          MaxChains   \* bound: no start is requested at this many chains

ASSUME ConstantsAssumption ==
    /\ Overlap \in BOOLEAN
    /\ MaxChains \in Nat \ {0}

VARIABLES exists,     \* the sensor is in dev.sensors
          running,    \* Sensor.running
          remote,     \* effective_probe(dev, s) # ""
          mode,       \* Sensor._sched_mode
          heap,       \* entries of _SensorScheduler._heap
          tomb,       \* _SensorScheduler._tombstones
          queued,     \* tasks of the executor that have not begun
          probing,    \* cycles past the entry checks, until the result is in
          ending,     \* cycles that decided to schedule the next one
          leaving,    \* cycles that decided to hand over to a remote probe
          pc, arg,    \* what each caller does next, and to which sensor
          restart     \* update_sensor's was_running

sensorVars == <<exists, running, remote, mode>>
chainVars  == <<heap, tomb, queued, probing, ending, leaving>>
callerVars == <<pc, arg, restart>>
vars == <<sensorVars, chainVars, callerVars>>

Modes == {"central", "probe"}

Steps == {"idle", "start", "launch", "cancel", "cancelThenStart",
          "apply", "toProbe", "edit"}

TypeOK ==
    /\ exists  \in [Sensors -> BOOLEAN]
    /\ running \in [Sensors -> BOOLEAN]
    /\ remote  \in [Sensors -> BOOLEAN]
    /\ mode    \in [Sensors -> Modes]
    /\ tomb    \in SUBSET Sensors
    /\ heap    \in [Sensors -> Nat]
    /\ queued  \in [Sensors -> Nat]
    /\ probing \in [Sensors -> Nat]
    /\ ending  \in [Sensors -> Nat]
    /\ leaving \in [Sensors -> Nat]
    /\ pc      \in [Callers -> Steps]
    /\ arg     \in [Callers -> Sensors]
    /\ restart \in [Callers -> BOOLEAN]

Init ==
    /\ exists  = [s \in Sensors |-> TRUE]
    /\ running = [s \in Sensors |-> FALSE]
    /\ remote \in [Sensors -> BOOLEAN]
    /\ mode    = [s \in Sensors |-> "central"]
    /\ tomb    = {}
    /\ heap    = [s \in Sensors |-> 0]
    /\ queued  = [s \in Sensors |-> 0]
    /\ probing = [s \in Sensors |-> 0]
    /\ ending  = [s \in Sensors |-> 0]
    /\ leaving = [s \in Sensors |-> 0]
    /\ pc      = [c \in Callers |-> "idle"]
    /\ arg    \in [Callers -> Sensors]
    /\ restart = [c \in Callers |-> FALSE]

-----------------------------------------------------------------------------
(* The scheduler thread and the executor.                                  *)

Inc(f, s) == [f EXCEPT ![s] = @ + 1]
Dec(f, s) == [f EXCEPT ![s] = @ - 1]

\* Mutant: the tombstone of an earlier stop outlives the new entry.
ScheduleKeepsTombstone(s) ==
    /\ heap' = Inc(heap, s)
    /\ UNCHANGED tomb

\* _SensorScheduler.schedule: push an entry and forget the tombstone.
Schedule(s) ==
    /\ heap' = Inc(heap, s)
    /\ tomb' = tomb \ {s}

\* _SensorScheduler.cancel.
Cancel(s) == tomb' = tomb \cup {s}

\* Mutant: the entry is popped without looking whether there is one.
PopUnguarded(s) ==
    /\ heap' = Dec(heap, s)
    /\ queued' = IF s \in tomb THEN queued ELSE Inc(queued, s)
    /\ UNCHANGED <<sensorVars, tomb, probing, ending, leaving, callerVars>>

\* _loop pops a due entry and skips a tombstoned one.  When the executor
\* rejects the task the entry goes back to the heap: no step at this level.
Pop(s) ==
    /\ heap[s] > 0
    /\ heap' = Dec(heap, s)
    /\ queued' = IF s \in tomb THEN queued ELSE Inc(queued, s)
    /\ UNCHANGED <<sensorVars, tomb, probing, ending, leaving, callerVars>>

\* _prune.  Its thresholds (read before the lock is taken again) are
\* abstracted: it may run whenever there is a tombstone.
Prune ==
    /\ tomb # {}
    /\ heap' = [s \in Sensors |-> IF s \in tomb THEN 0 ELSE heap[s]]
    /\ tomb' = {}
    /\ UNCHANGED <<sensorVars, queued, probing, ending, leaving, callerVars>>

\* _run_once_inner, entry: the chain of a stopped or deleted sensor ends, that
\* of a remote sensor hands over, any other measures.
BeginCycle(s) ==
    /\ queued[s] > 0
    /\ queued' = Dec(queued, s)
    /\ probing' = IF exists[s] /\ running[s] /\ ~remote[s]
                  THEN Inc(probing, s) ELSE probing
    /\ leaving' = IF exists[s] /\ running[s] /\ remote[s]
                  THEN Inc(leaving, s) ELSE leaving
    /\ UNCHANGED <<sensorVars, heap, tomb, ending, callerVars>>

\* _run_once_inner, exit: the result is processed and the next step decided.
\* The decision and its effect are separate steps: no lock spans them.
EndCycle(s) ==
    /\ probing[s] > 0
    /\ probing' = Dec(probing, s)
    /\ ending'  = IF running[s] /\ ~remote[s] THEN Inc(ending, s) ELSE ending
    /\ leaving' = IF running[s] /\ remote[s] THEN Inc(leaving, s) ELSE leaving
    /\ UNCHANGED <<sensorVars, heap, tomb, queued, callerVars>>

\* Mutant: without the wrapper an exception ends the chain.
CrashCycleUnwrapped(s) ==
    /\ probing[s] > 0
    /\ probing' = Dec(probing, s)
    /\ UNCHANGED <<sensorVars, heap, tomb, queued, ending, leaving, callerVars>>

\* _run_once: the cycle raised; the wrapper asks only whether it still runs.
CrashCycle(s) ==
    /\ probing[s] > 0
    /\ probing' = Dec(probing, s)
    /\ ending'  = IF exists[s] /\ running[s] THEN Inc(ending, s) ELSE ending
    /\ UNCHANGED <<sensorVars, heap, tomb, queued, leaving, callerVars>>

\* Mutant: the wrapper schedules a cycle that has scheduled already.
RescheduleTwice(s) ==
    /\ ending[s] > 0
    /\ Schedule(s)
    /\ UNCHANGED <<sensorVars, queued, probing, ending, leaving, callerVars>>

\* The call of schedule() that closes a cycle.
Reschedule(s) ==
    /\ ending[s] > 0
    /\ ending' = Dec(ending, s)
    /\ Schedule(s)
    /\ UNCHANGED <<sensorVars, queued, probing, leaving, callerVars>>

\* The assignment _sched_mode = "probe" that closes a handed-over chain.
HandOver(s) ==
    /\ leaving[s] > 0
    /\ leaving' = Dec(leaving, s)
    /\ mode' = [mode EXCEPT ![s] = "probe"]
    /\ UNCHANGED <<exists, running, remote, heap, tomb, queued, probing,
                   ending, callerVars>>

SchedulerStep(s) ==
    \/ Pop(s) \/ BeginCycle(s) \/ EndCycle(s) \/ CrashCycle(s)
    \/ Reschedule(s) \/ HandOver(s)

-----------------------------------------------------------------------------
(* The request handlers.                                                   *)

Chains(s) == heap[s] + queued[s] + probing[s] + ending[s] + leaving[s]

Busy(s) == \E c \in Callers : pc[c] # "idle" /\ arg[c] = s

\* Caller c may begin a request on s.
MayBegin(c, s) ==
    /\ pc[c] = "idle"
    /\ Overlap \/ ~Busy(s)
    /\ Chains(s) < MaxChains

Goto(c, step) == pc' = [pc EXCEPT ![c] = step]

Begin(c, s, step) == Goto(c, step) /\ arg' = [arg EXCEPT ![c] = s]

\* Mutant: the start does not record who measures the sensor.
CheckAndSetNoMode(s) ==
    /\ running' = [running EXCEPT ![s] = TRUE]
    /\ UNCHANGED mode

\* start_sensor: check and set under the lock; a remote sensor is launched by
\* its agent, which the caller need not wait for.
CheckAndSet(s) ==
    /\ running' = [running EXCEPT ![s] = TRUE]
    /\ mode' = [mode EXCEPT ![s] = IF remote[s] THEN "probe" ELSE "central"]

Startable(s) == exists[s] /\ ~running[s]

StartRequest(c, s) ==
    /\ MayBegin(c, s) /\ Startable(s)
    /\ CheckAndSet(s)
    /\ Begin(c, s, IF remote[s] THEN "idle" ELSE "launch")
    /\ UNCHANGED <<exists, remote, chainVars, restart>>

\* The same call made by update_sensor and apply_probe_assignment.
StartAgain(c) ==
    /\ pc[c] = "start"
    /\ LET s == arg[c] IN
       IF Startable(s)
       THEN CheckAndSet(s) /\ Goto(c, IF remote[s] THEN "idle" ELSE "launch")
       ELSE Goto(c, "idle") /\ UNCHANGED <<running, mode>>
    /\ UNCHANGED <<exists, remote, chainVars, arg, restart>>

\* start_sensor, outside the lock: submit at once (no tombstone is touched) ...
LaunchNow(c) ==
    /\ pc[c] = "launch"
    /\ queued' = Inc(queued, arg[c])
    /\ Goto(c, "idle")
    /\ UNCHANGED <<sensorVars, heap, tomb, probing, ending, leaving, arg,
                   restart>>

\* ... or after a first delay (bulk start, VMware).
LaunchDelayed(c) ==
    /\ pc[c] = "launch"
    /\ Schedule(arg[c])
    /\ Goto(c, "idle")
    /\ UNCHANGED <<sensorVars, queued, probing, ending, leaving, arg, restart>>

\* stop_sensor: clear the flag under the lock, then cancel.
StopRequest(c, s) ==
    /\ MayBegin(c, s) /\ exists[s]
    /\ running' = [running EXCEPT ![s] = FALSE]
    /\ Begin(c, s, "cancel")
    /\ UNCHANGED <<exists, remote, mode, chainVars, restart>>

\* remove_sensor, and remove_device for each of its sensors.
RemoveRequest(c, s) ==
    /\ MayBegin(c, s) /\ exists[s]
    /\ running' = [running EXCEPT ![s] = FALSE]
    /\ exists' = [exists EXCEPT ![s] = FALSE]
    /\ Begin(c, s, "cancel")
    /\ UNCHANGED <<remote, mode, chainVars, restart>>

CancelStep(c) ==
    /\ pc[c] \in {"cancel", "cancelThenStart"}
    /\ Cancel(arg[c])
    /\ Goto(c, IF pc[c] = "cancel" THEN "idle" ELSE "start")
    /\ UNCHANGED <<sensorVars, heap, queued, probing, ending, leaving, arg,
                   restart>>

\* update_sensor: clear the flag, wait at most 3 s for a cycle to notice (the
\* wait always ends, so the event it waits on is not modelled) ...
UpdateRequest(c, s) ==
    /\ MayBegin(c, s) /\ exists[s]
    /\ restart' = [restart EXCEPT ![c] = running[s]]
    /\ running' = [running EXCEPT ![s] = FALSE]
    /\ Begin(c, s, "edit")
    /\ UNCHANGED <<exists, remote, mode, chainVars>>

\* ... then edit the fields, probe_id among them, and start it if it ran.
EditFields(c) ==
    /\ pc[c] = "edit"
    /\ LET s == arg[c] IN
       IF exists[s]
       THEN /\ \E r \in BOOLEAN : remote' = [remote EXCEPT ![s] = r]
            /\ Goto(c, IF restart[c] THEN "start" ELSE "idle")
       ELSE Goto(c, "idle") /\ UNCHANGED remote
    /\ UNCHANGED <<exists, running, mode, chainVars, arg, restart>>

\* A device, site or probe edit moves the sensor between the central
\* scheduler and a remote probe, then calls apply_probe_assignment.
AssignRequest(c, s) ==
    /\ MayBegin(c, s) /\ exists[s]
    /\ \E r \in BOOLEAN : remote' = [remote EXCEPT ![s] = r]
    /\ Begin(c, s, "apply")
    /\ UNCHANGED <<exists, running, mode, chainVars, restart>>

NewMode(s) == IF remote[s] THEN "probe" ELSE "central"

\* apply_probe_assignment, the read under the lock and its four outcomes: the
\* sensor is gone or where it belongs, ...
ApplyNothing(c) ==
    /\ pc[c] = "apply"
    /\ ~exists[arg[c]] \/ NewMode(arg[c]) = mode[arg[c]]
    /\ Goto(c, "idle")
    /\ UNCHANGED <<sensorVars, chainVars, arg, restart>>

\* ... it is newly remote, ...
ApplyRemote(c) ==
    /\ pc[c] = "apply"
    /\ exists[arg[c]] /\ remote[arg[c]] /\ mode[arg[c]] # "probe"
    /\ Goto(c, "toProbe")
    /\ UNCHANGED <<sensorVars, chainVars, arg, restart>>

\* ... newly central and running: the restart's stop_sensor begins here, ...
ApplyRestart(c) ==
    /\ pc[c] = "apply"
    /\ exists[arg[c]] /\ ~remote[arg[c]] /\ mode[arg[c]] # "central"
    /\ running[arg[c]]
    /\ running' = [running EXCEPT ![arg[c]] = FALSE]
    /\ Goto(c, "cancelThenStart")
    /\ UNCHANGED <<exists, remote, mode, chainVars, arg, restart>>

\* ... or newly central and stopped.
ApplyStopped(c) ==
    /\ pc[c] = "apply"
    /\ exists[arg[c]] /\ ~remote[arg[c]] /\ mode[arg[c]] # "central"
    /\ ~running[arg[c]]
    /\ mode' = [mode EXCEPT ![arg[c]] = "central"]
    /\ Goto(c, "idle")
    /\ UNCHANGED <<exists, running, remote, chainVars, arg, restart>>

ApplyToProbe(c) ==
    /\ pc[c] = "toProbe"
    /\ mode' = [mode EXCEPT ![arg[c]] = "probe"]
    /\ Goto(c, "cancel")
    /\ UNCHANGED <<exists, running, remote, chainVars, arg, restart>>

Request(c, s) ==
    \/ StartRequest(c, s) \/ StopRequest(c, s) \/ RemoveRequest(c, s)
    \/ UpdateRequest(c, s) \/ AssignRequest(c, s)

CallerStep(c) ==
    \/ StartAgain(c) \/ LaunchNow(c) \/ LaunchDelayed(c) \/ CancelStep(c)
    \/ EditFields(c) \/ ApplyNothing(c) \/ ApplyRemote(c) \/ ApplyRestart(c)
    \/ ApplyStopped(c) \/ ApplyToProbe(c)

Next ==
    \/ \E s \in Sensors : SchedulerStep(s)
    \/ Prune
    \/ \E c \in Callers : CallerStep(c)
    \/ \E c \in Callers, s \in Sensors : Request(c, s)

Spec == Init /\ [][Next]_vars

\* Heap entries fall due and the executor's workers run their tasks (a hung
\* probe is abandoned at its hard cap); a handler finishes what it began.
\* Nothing obliges an operator to make a request, or a cycle to raise.
Fairness ==
    /\ \A s \in Sensors :
        /\ WF_vars(Pop(s)) /\ WF_vars(BeginCycle(s))
        /\ WF_vars(EndCycle(s) \/ CrashCycle(s))
        /\ WF_vars(Reschedule(s)) /\ WF_vars(HandOver(s))
    /\ \A c \in Callers : WF_vars(CallerStep(c))

FairSpec == Spec /\ Fairness

-----------------------------------------------------------------------------
(* Properties.                                                             *)

\* The chain of s will measure it again: a heap entry that will not be
\* skipped, or a task past it.
Live(s) == \/ heap[s] > 0 /\ s \notin tomb
           \/ queued[s] + probing[s] + ending[s] > 0

Central(s) == exists[s] /\ running[s] /\ ~remote[s]

\* Whenever no request on it is under way, a sensor that shows as running and
\* is measured centrally has a chain (core/state.py: start_sensor, stop_sensor,
\* update_sensor, apply_probe_assignment and the tombstones between them).
\* Without one it keeps its last status and is never measured again.
NoLostChain == \A s \in Sensors : Central(s) /\ ~Busy(s) => Live(s)

\* A sensor under a remote probe that no request is changing is known to be
\* there: apply_probe_assignment compares _sched_mode with the new assignment,
\* and skips the sensor for ever if the record is stale.
HandBackNoticed ==
    \A s \in Sensors :
        exists[s] /\ running[s] /\ remote[s] /\ ~Busy(s) => mode[s] = "probe"

\* Chains that will measure s if it stays as it is.
LiveChains(s) == (IF s \in tomb THEN 0 ELSE heap[s])
                 + queued[s] + probing[s] + ending[s]

\* A running sensor that no request is changing has at most one chain.  The
\* comment in start_sensor fears the opposite: "duplicate probe chains that each
\* reschedule forever - doubling samples and events".
AtMostOneChain == \A s \in Sensors : Central(s) /\ ~Busy(s) => LiveChains(s) <= 1

\* Only the launch of start_sensor makes a chain: no cycle forks, whichever way
\* it ends (_run_once's wrapper, _loop's requeue, schedule).
NoFork ==
    [][\A s \in Sensors : Chains(s)' > Chains(s) =>
          \E c \in Callers : pc[c] = "launch" /\ arg[c] = s /\ pc'[c] = "idle"]_vars

\* A sensor that is left running and central is measured again and again
\* (_run_once: one bad cycle can never kill a sensor's probe loop), and every
\* chain of one stopped, deleted or handed to a remote probe for good comes to
\* its end, in the heap or in a cycle.
ChainsFollow ==
    \A s \in Sensors :
        /\ <>[]Central(s) => []<>(probing[s] > 0)
        /\ <>[]~Central(s) => <>[](Chains(s) = 0)
=============================================================================
