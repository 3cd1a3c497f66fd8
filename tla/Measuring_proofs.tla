-------------------------- MODULE Measuring_proofs --------------------------
(***************************************************************************)
(* Proofs about who measures a sensor: SensorChains, for any sets of       *)
(* sensors and callers, and Placement, for any sensors, probes, callers    *)
(* and starts.                                                             *)
(*                                                                         *)
(* TypeOK and NoFork of SensorChains hold however requests overlap.        *)
(* NoLostChain and HandBackNoticed hold when the requests on one sensor    *)
(* are serialised (~Overlap), and fail otherwise: a stop may cancel the    *)
(* chain that a later start has just scheduled.                            *)
(*                                                                         *)
(* Placement speaks of the same sensors, with the same running and mode,   *)
(* and of the probes they may be handed to; its names are those after      *)
(* Place!.  Its theorems need its assumption on the constants only.        *)
(***************************************************************************)
EXTENDS SensorChains, TLAPS

CONSTANTS Probes, Starts, MaxRequests

VARIABLES assign, chain, saved, site, cache, probes, behind, list, sync, missed,
          caller, requests, astray, unsound

Place == INSTANCE Placement


\* At most one caller works on a sensor.
Serialised ==
    \A c, d \in Callers :
        pc[c] # "idle" /\ pc[d] # "idle" /\ arg[c] = arg[d] => c = d

\* What a caller's next step may count on.
Pending ==
    \A c \in Callers :
        /\ pc[c] \in {"start", "edit", "cancelThenStart"} => ~running[arg[c]]
        /\ pc[c] = "cancel" => ~Central(arg[c])
        /\ pc[c] = "toProbe" => remote[arg[c]]
        /\ pc[c] = "apply" /\ Central(arg[c]) /\ mode[arg[c]] = "central"
              => Live(arg[c])

At(s, steps) == \E c \in Callers : arg[c] = s /\ pc[c] \in steps

\* A central sensor has a chain, or the caller that will make one.
Covered == \A s \in Sensors : Central(s) => Live(s) \/ At(s, {"launch", "apply"})

\* A remote sensor is recorded as remote, or the caller will record it.
Recorded ==
    \A s \in Sensors : exists[s] /\ running[s] /\ remote[s] =>
        mode[s] = "probe" \/ At(s, {"apply", "toProbe"})

IInv == TypeOK /\ Serialised /\ Pending /\ Covered /\ Recorded

-----------------------------------------------------------------------------
(* Type correctness.                                                       *)

\* Initial states are well typed.
LEMMA InitTyped == Init => TypeOK
BY DEF Init, TypeOK, Modes, Steps

\* Steps of the scheduler and the executor keep the types.
LEMMA SchedulerTyped ==
    ASSUME TypeOK, NEW s \in Sensors, SchedulerStep(s)
    PROVE  TypeOK'
<1> USE DEF TypeOK, Inc, Dec, sensorVars, callerVars
<1>1. CASE Pop(s)        BY <1>1 DEF Pop
<1>2. CASE BeginCycle(s) BY <1>2 DEF BeginCycle
<1>3. CASE EndCycle(s)   BY <1>3 DEF EndCycle
<1>4. CASE CrashCycle(s) BY <1>4 DEF CrashCycle
<1>5. CASE Reschedule(s) BY <1>5 DEF Reschedule, Schedule
<1>6. CASE HandOver(s)   BY <1>6 DEF HandOver, Modes
<1> QED BY <1>1, <1>2, <1>3, <1>4, <1>5, <1>6 DEF SchedulerStep

\* So does every new request ...
LEMMA RequestTyped ==
    ASSUME TypeOK, NEW c \in Callers, NEW s \in Sensors, Request(c, s)
    PROVE  TypeOK'
<1> USE DEF TypeOK, Modes, Steps, chainVars, Begin, Goto
<1>1. CASE StartRequest(c, s)  BY <1>1 DEF StartRequest, CheckAndSet
<1>2. CASE StopRequest(c, s)   BY <1>2 DEF StopRequest
<1>3. CASE RemoveRequest(c, s) BY <1>3 DEF RemoveRequest
<1>4. CASE UpdateRequest(c, s) BY <1>4 DEF UpdateRequest
<1>5. CASE AssignRequest(c, s) BY <1>5 DEF AssignRequest
<1> QED BY <1>1, <1>2, <1>3, <1>4, <1>5 DEF Request

\* ... and every later step of one.
LEMMA CallerTyped ==
    ASSUME TypeOK, NEW c \in Callers, CallerStep(c)
    PROVE  TypeOK'
<1> USE DEF TypeOK, Modes, Steps, Goto
<1>1. CASE StartAgain(c)
  BY <1>1 DEF StartAgain, CheckAndSet, chainVars
<1>2. CASE LaunchNow(c)
  BY <1>2 DEF LaunchNow, Inc, sensorVars
<1>3. CASE LaunchDelayed(c)
  BY <1>3 DEF LaunchDelayed, Schedule, Inc, sensorVars
<1>4. CASE CancelStep(c)
  BY <1>4 DEF CancelStep, Cancel, sensorVars
<1>5. CASE EditFields(c)
  BY <1>5 DEF EditFields, chainVars
<1>6. CASE ApplyNothing(c)
  BY <1>6 DEF ApplyNothing, chainVars, sensorVars
<1>7. CASE ApplyRemote(c)
  BY <1>7 DEF ApplyRemote, chainVars, sensorVars
<1>8. CASE ApplyRestart(c)
  BY <1>8 DEF ApplyRestart, chainVars
<1>9. CASE ApplyStopped(c)
  BY <1>9 DEF ApplyStopped, chainVars
<1>10. CASE ApplyToProbe(c)
  BY <1>10 DEF ApplyToProbe, chainVars
<1> QED BY <1>1, <1>2, <1>3, <1>4, <1>5, <1>6, <1>7, <1>8, <1>9, <1>10
    DEF CallerStep

\* No step leaves the types, however requests overlap: in particular no count
\* of chains falls below zero.
LEMMA StepTyped == TypeOK /\ [Next]_vars => TypeOK'
<1> SUFFICES ASSUME TypeOK, [Next]_vars PROVE TypeOK'
    OBVIOUS
<1>1. CASE \E s \in Sensors : SchedulerStep(s)
  BY <1>1, SchedulerTyped
<1>2. CASE Prune
  BY <1>2 DEF Prune, TypeOK, sensorVars, callerVars
<1>3. CASE \E c \in Callers : CallerStep(c)
  BY <1>3, CallerTyped
<1>4. CASE \E c \in Callers, s \in Sensors : Request(c, s)
  BY <1>4, RequestTyped
<1>5. CASE UNCHANGED vars
  BY <1>5 DEF vars, sensorVars, chainVars, callerVars, TypeOK
<1> QED BY <1>1, <1>2, <1>3, <1>4, <1>5 DEF Next

\* Every reachable state is well typed.
THEOREM TypeCorrect == Spec => []TypeOK
<1> QED BY InitTyped, StepTyped, PTL DEF Spec

-----------------------------------------------------------------------------
(* No fork.                                                                *)

\* Only a launch adds a chain, whether or not requests overlap.
LEMMA StepNoFork ==
    ASSUME TypeOK, [Next]_vars, NEW t \in Sensors, Chains(t)' > Chains(t)
    PROVE  \E c \in Callers : pc[c] = "launch" /\ arg[c] = t /\ pc'[c] = "idle"
<1> USE DEF Chains
<1>1. CASE UNCHANGED vars
  BY <1>1 DEF vars, chainVars, TypeOK
<1>2. CASE Prune
  <2>1. heap[t] \in Nat /\ heap'[t] \in Nat /\ heap'[t] <= heap[t]
    BY <1>2 DEF Prune, TypeOK
  <2> QED BY <1>2, <2>1 DEF Prune, TypeOK
<1>3. ASSUME NEW s \in Sensors, SchedulerStep(s) PROVE FALSE
  <2> USE DEF TypeOK, Inc, Dec
  <2>1. CASE Pop(s)        BY <2>1 DEF Pop
  <2>2. CASE BeginCycle(s) BY <2>2 DEF BeginCycle
  <2>3. CASE EndCycle(s)   BY <2>3 DEF EndCycle
  <2>4. CASE CrashCycle(s) BY <2>4 DEF CrashCycle
  <2>5. CASE Reschedule(s) BY <2>5 DEF Reschedule, Schedule
  <2>6. CASE HandOver(s)   BY <2>6 DEF HandOver
  <2> QED BY <1>3, <2>1, <2>2, <2>3, <2>4, <2>5, <2>6 DEF SchedulerStep
<1>4. ASSUME NEW c \in Callers, NEW s \in Sensors, Request(c, s) PROVE FALSE
  BY <1>4 DEF Request, StartRequest, StopRequest, RemoveRequest,
              UpdateRequest, AssignRequest, chainVars, TypeOK
<1>5. ASSUME NEW c \in Callers, CallerStep(c)
      PROVE  pc[c] = "launch" /\ arg[c] = t /\ pc'[c] = "idle"
  <2>1. CASE LaunchNow(c)
    BY <2>1 DEF LaunchNow, Inc, Goto, TypeOK
  <2>2. CASE LaunchDelayed(c)
    BY <2>2 DEF LaunchDelayed, Schedule, Inc, Goto, TypeOK
  <2>3. CASE CancelStep(c)
    BY <2>3 DEF CancelStep, TypeOK
  <2>4. CASE ~(LaunchNow(c) \/ LaunchDelayed(c) \/ CancelStep(c))
    BY <1>5, <2>4 DEF CallerStep, StartAgain, EditFields, ApplyNothing,
       ApplyRemote, ApplyRestart, ApplyStopped, ApplyToProbe, chainVars, TypeOK
  <2> QED BY <2>1, <2>2, <2>3, <2>4
<1> QED BY <1>1, <1>2, <1>3, <1>4, <1>5 DEF Next

\* NoFork, for every sensor and however requests overlap.
THEOREM ChainsNeverFork == Spec => NoFork
<1>1. TypeOK /\ [Next]_vars =>
        [\A s \in Sensors : Chains(s)' > Chains(s) =>
          \E c \in Callers : pc[c] = "launch" /\ arg[c] = s /\ pc'[c] = "idle"]_vars
  BY StepNoFork
<1> QED BY <1>1, TypeCorrect, PTL DEF Spec, NoFork

-----------------------------------------------------------------------------
(* No chain is lost when requests on a sensor are serialised.              *)

\* A step that changes no sensor's flags and no caller, keeps every central
\* sensor's chain alive and records only hand-overs keeps the invariant.
LEMMA Frame ==
    ASSUME IInv, TypeOK',
           UNCHANGED <<exists, running, remote, callerVars>>,
           \A t \in Sensors : Central(t) /\ Live(t) => Live(t)',
           \A t \in Sensors : mode'[t] # mode[t] => mode'[t] = "probe"
    PROVE  IInv'
<1> USE DEF IInv, callerVars
<1>1. Serialised'
  BY DEF Serialised
<1>2. \A t \in Sensors : Central(t)' <=> Central(t)
  BY DEF Central
<1>3. \A t \in Sensors, S \in SUBSET Steps : At(t, S)' <=> At(t, S)
  BY DEF At
<1>4. Pending'
  BY <1>2 DEF Pending, TypeOK
<1>5. Covered'
  BY <1>2, <1>3 DEF Covered, Steps
<1>6. Recorded'
  BY <1>3 DEF Recorded, Steps
<1> QED BY <1>1, <1>4, <1>5, <1>6

\* The scheduler and the executor keep a central sensor's chain alive.
LEMMA SchedulerKeeps ==
    ASSUME IInv, NEW s \in Sensors, SchedulerStep(s)
    PROVE  IInv'
<1>1. TypeOK /\ TypeOK'
  BY SchedulerTyped DEF IInv
<1>2. UNCHANGED <<exists, running, remote, callerVars>>
  BY DEF SchedulerStep, Pop, BeginCycle, EndCycle, CrashCycle, Reschedule,
         HandOver, sensorVars
<1>3. \A t \in Sensors : mode'[t] # mode[t] => mode'[t] = "probe"
  BY <1>1 DEF SchedulerStep, Pop, BeginCycle, EndCycle, CrashCycle, Reschedule,
              HandOver, sensorVars, TypeOK
<1>4. ASSUME NEW t \in Sensors, Central(t), Live(t) PROVE Live(t)'
  <2> USE <1>1, <1>4 DEF TypeOK, Live, Central, Inc, Dec
  <2>1. CASE Pop(s)        BY <2>1 DEF Pop
  <2>2. CASE BeginCycle(s) BY <2>2 DEF BeginCycle
  <2>3. CASE EndCycle(s)   BY <2>3 DEF EndCycle
  <2>4. CASE CrashCycle(s) BY <2>4 DEF CrashCycle
  <2>5. CASE Reschedule(s) BY <2>5 DEF Reschedule, Schedule
  <2>6. CASE HandOver(s)   BY <2>6 DEF HandOver
  <2> QED BY <2>1, <2>2, <2>3, <2>4, <2>5, <2>6 DEF SchedulerStep
<1> QED BY <1>1, <1>2, <1>3, <1>4, Frame

\* So does pruning: it drops only entries that would be skipped.
LEMMA PruneKeeps == ASSUME IInv, TypeOK', Prune PROVE IInv'
<1>1. UNCHANGED <<exists, running, remote, callerVars>> /\ UNCHANGED mode
  BY DEF Prune, sensorVars
<1>2. ASSUME NEW t \in Sensors, Live(t) PROVE Live(t)'
  BY <1>2 DEF Prune, Live, IInv, TypeOK
<1> QED BY <1>1, <1>2, Frame DEF IInv, TypeOK

\* What a step of caller c on sensor s leaves alone: the chains and flags of
\* every other sensor, the other callers, and their sensors.
LEMMA OtherSensors ==
    ASSUME IInv, NEW c \in Callers, NEW s \in Sensors,
           \A d \in Callers \ {c} : pc'[d] = pc[d] /\ arg'[d] = arg[d],
           arg'[c] = s, pc[c] # "idle" => arg[c] = s,
           \A t \in Sensors \ {s} :
               /\ exists'[t] = exists[t] /\ running'[t] = running[t]
               /\ remote'[t] = remote[t] /\ mode'[t] = mode[t]
               /\ heap'[t] = heap[t] /\ (t \in tomb' <=> t \in tomb)
               /\ queued'[t] = queued[t] /\ probing'[t] = probing[t]
               /\ ending'[t] = ending[t]
    PROVE  /\ \A t \in Sensors \ {s} : Central(t) => Live(t)' \/ At(t, {"launch", "apply"})'
           /\ \A t \in Sensors \ {s} : (Central(t) <=> Central(t)')
                                       /\ (Live(t) <=> Live(t)')
           /\ \A t \in Sensors \ {s} :
                 exists[t] /\ running[t] /\ remote[t] =>
                     mode[t] = "probe" \/ At(t, {"apply", "toProbe"})'
<1>1. \A t \in Sensors \ {s} : (Central(t) <=> Central(t)') /\ (Live(t) <=> Live(t)')
  BY DEF Central, Live
<1>2. \A t \in Sensors \ {s} :
        /\ At(t, {"launch", "apply"}) => At(t, {"launch", "apply"})'
        /\ At(t, {"apply", "toProbe"}) => At(t, {"apply", "toProbe"})'
  BY DEF At
<1> QED BY <1>1, <1>2 DEF IInv, Covered, Recorded

\* A new request keeps the invariant: no other request on the sensor is under
\* way, so the sensor is covered and recorded by itself.
LEMMA RequestKeeps ==
    ASSUME ~Overlap, IInv, NEW c \in Callers, NEW s \in Sensors, Request(c, s)
    PROVE  IInv'
<1>1. TypeOK /\ TypeOK'
  BY RequestTyped DEF IInv
<1>2. /\ pc[c] = "idle"
      /\ \A d \in Callers : pc[d] # "idle" => arg[d] # s
      /\ exists[s]
  BY DEF Request, StartRequest, StopRequest, RemoveRequest, UpdateRequest,
         AssignRequest, MayBegin, Busy, Startable
<1>3. /\ UNCHANGED chainVars
      /\ arg' = [arg EXCEPT ![c] = s]
      /\ \A d \in Callers \ {c} : pc'[d] = pc[d] /\ arg'[d] = arg[d]
      /\ arg'[c] = s
      /\ \A t \in Sensors \ {s} :
            /\ exists'[t] = exists[t] /\ running'[t] = running[t]
            /\ remote'[t] = remote[t] /\ mode'[t] = mode[t]
  BY <1>1 DEF Request, StartRequest, StopRequest, RemoveRequest, UpdateRequest,
         AssignRequest, CheckAndSet, Begin, Goto, TypeOK
<1>4. Serialised'
  BY <1>1, <1>2, <1>3 DEF Serialised, IInv
<1>5. /\ \A t \in Sensors \ {s} : Central(t) => Live(t)' \/ At(t, {"launch", "apply"})'
      /\ \A t \in Sensors \ {s} : (Central(t) <=> Central(t)') /\ (Live(t) <=> Live(t)')
      /\ \A t \in Sensors \ {s} :
            exists[t] /\ running[t] /\ remote[t] =>
               mode[t] = "probe" \/ At(t, {"apply", "toProbe"})'
  BY <1>2, <1>3, OtherSensors DEF chainVars
<1>6. /\ Central(s) => Live(s)
      /\ exists[s] /\ running[s] /\ remote[s] => mode[s] = "probe"
  BY <1>2 DEF IInv, Covered, Recorded, At
<1>7. Live(s) <=> Live(s)'
  BY <1>3 DEF Live, chainVars
<1>8. ASSUME NEW d \in Callers, d # c, pc'[d] # "idle"
      PROVE  /\ pc'[d] = pc[d] /\ arg'[d] = arg[d] /\ arg[d] \in Sensors \ {s}
             /\ pc[d] \in {"start", "edit", "cancelThenStart"} => ~running[arg[d]]
             /\ pc[d] = "cancel" => ~Central(arg[d])
             /\ pc[d] = "toProbe" => remote[arg[d]]
             /\ pc[d] = "apply" /\ Central(arg[d]) /\ mode[arg[d]] = "central"
                   => Live(arg[d])
  BY <1>1, <1>2, <1>3, <1>8 DEF IInv, Pending, TypeOK
<1>9. ASSUME NEW d \in Callers, d # c
      PROVE  /\ pc'[d] \in {"start", "edit", "cancelThenStart"} => ~running'[arg'[d]]
             /\ pc'[d] = "cancel" => ~Central(arg[d])' /\ arg'[d] = arg[d]
             /\ pc'[d] = "toProbe" => remote'[arg'[d]]
             /\ pc'[d] = "apply" /\ Central(arg[d])' /\ mode'[arg[d]] = "central"
                   => Live(arg[d])' /\ arg'[d] = arg[d]
  BY <1>3, <1>8, <1>9 DEF Central, Live, chainVars
<1>10. CASE StartRequest(c, s)
  <2>1. /\ pc'[c] = (IF remote[s] THEN "idle" ELSE "launch")
        /\ UNCHANGED <<remote, exists>>
        /\ mode'[s] = (IF remote[s] THEN "probe" ELSE "central")
    BY <1>1, <1>10 DEF StartRequest, CheckAndSet, Begin, Goto, TypeOK
  <2>2. Pending'
    BY <1>3, <1>9, <2>1 DEF Pending, Central, Live
  <2>3. Covered'
    BY <1>3, <1>5, <2>1 DEF Covered, Central, At
  <2>4. Recorded'
    BY <1>3, <1>5, <2>1 DEF Recorded, At
  <2> QED BY <1>1, <1>4, <2>2, <2>3, <2>4 DEF IInv
<1>11. CASE StopRequest(c, s) \/ RemoveRequest(c, s) \/ UpdateRequest(c, s)
  <2>1. ~running'[s] /\ pc'[c] \in {"cancel", "edit"}
    BY <1>1, <1>11 DEF StopRequest, RemoveRequest, UpdateRequest, Begin, Goto, TypeOK
  <2>2. Pending'
    BY <1>3, <1>9, <2>1 DEF Pending, Central, Live
  <2>3. Covered'
    BY <1>5, <2>1 DEF Covered, Central
  <2>4. Recorded'
    BY <1>3, <1>5, <2>1 DEF Recorded
  <2> QED BY <1>1, <1>4, <2>2, <2>3, <2>4 DEF IInv
<1>12. CASE AssignRequest(c, s)
  <2>1. pc'[c] = "apply" /\ UNCHANGED <<exists, running, mode>>
    BY <1>1, <1>12 DEF AssignRequest, Begin, Goto, TypeOK
  <2>2. Central(s)' /\ mode'[s] = "central" => Live(s)'
    BY <1>6, <1>7, <2>1, <1>1 DEF Central, TypeOK
  <2>3. Pending'
    BY <1>3, <1>9, <2>1, <2>2 DEF Pending, Central, Live
  <2>4. Covered'
    BY <1>3, <1>5, <2>1 DEF Covered, At
  <2>5. Recorded'
    BY <1>3, <1>5, <2>1 DEF Recorded, At
  <2> QED BY <1>1, <1>4, <2>3, <2>4, <2>5 DEF IInv
<1> QED BY <1>10, <1>11, <1>12 DEF Request

\* What holds of every other caller while one of them works on s.
OtherCallers(c, s) ==
    \A d \in Callers \ {c} : pc[d] # "idle" =>
        /\ arg[d] \in Sensors \ {s}
        /\ pc[d] \in {"start", "edit", "cancelThenStart"} => ~running[arg[d]]
        /\ pc[d] = "cancel" => ~Central(arg[d])
        /\ pc[d] = "toProbe" => remote[arg[d]]
        /\ pc[d] = "apply" /\ Central(arg[d]) /\ mode[arg[d]] = "central"
              => Live(arg[d])

\* The frame of a later step of a request: everything but its own sensor and
\* caller is as before, and its own sensor satisfies the invariant.
LEMMA CallerFrame ==
    ASSUME IInv, TypeOK', NEW c \in Callers, NEW s \in Sensors,
           arg[c] = s, pc[c] # "idle", arg' = arg,
           \A d \in Callers \ {c} : pc'[d] = pc[d],
           \A t \in Sensors \ {s} :
               /\ exists'[t] = exists[t] /\ running'[t] = running[t]
               /\ remote'[t] = remote[t] /\ mode'[t] = mode[t]
               /\ heap'[t] = heap[t] /\ (t \in tomb' <=> t \in tomb)
               /\ queued'[t] = queued[t] /\ probing'[t] = probing[t]
               /\ ending'[t] = ending[t],
           pc'[c] \in {"start", "edit", "cancelThenStart"} => ~running'[s],
           pc'[c] = "cancel" => ~Central(s)',
           pc'[c] = "toProbe" => remote'[s],
           pc'[c] # "apply",
           Central(s)' => Live(s)' \/ pc'[c] = "launch",
           exists'[s] /\ running'[s] /\ remote'[s] =>
               mode'[s] = "probe" \/ pc'[c] = "toProbe"
    PROVE  IInv'
<1>1. Serialised'
  BY DEF Serialised, IInv
<1>2. OtherCallers(c, s)
  BY DEF OtherCallers, IInv, Pending, Serialised, TypeOK
<1>3. /\ \A t \in Sensors \ {s} : Central(t) => Live(t)' \/ At(t, {"launch", "apply"})'
      /\ \A t \in Sensors \ {s} : (Central(t) <=> Central(t)') /\ (Live(t) <=> Live(t)')
      /\ \A t \in Sensors \ {s} :
            exists[t] /\ running[t] /\ remote[t] =>
               mode[t] = "probe" \/ At(t, {"apply", "toProbe"})'
  BY OtherSensors
<1>4. Pending'
  BY <1>2, <1>3 DEF Pending, OtherCallers, Central, Live
<1>5. Covered'
  BY <1>3 DEF Covered, At
<1>6. Recorded'
  BY <1>3 DEF Recorded, At
<1> QED BY <1>1, <1>4, <1>5, <1>6 DEF IInv

\* A later step of a request keeps the invariant.
LEMMA CallerKeeps ==
    ASSUME IInv, NEW c \in Callers, CallerStep(c)
    PROVE  IInv'
<1>1. TypeOK /\ TypeOK'
  BY CallerTyped DEF IInv
<1> PICK s \in Sensors : arg[c] = s
  BY <1>1 DEF TypeOK
<1>2. /\ pc[c] # "idle" /\ arg' = arg
      /\ \A d \in Callers \ {c} : pc'[d] = pc[d]
  BY <1>1 DEF CallerStep, StartAgain, LaunchNow, LaunchDelayed, CancelStep,
     EditFields, ApplyNothing, ApplyRemote, ApplyRestart, ApplyStopped,
     ApplyToProbe, Goto, TypeOK
<1>3. \A t \in Sensors \ {s} :
               /\ exists'[t] = exists[t] /\ running'[t] = running[t]
               /\ remote'[t] = remote[t] /\ mode'[t] = mode[t]
               /\ heap'[t] = heap[t] /\ (t \in tomb' <=> t \in tomb)
               /\ queued'[t] = queued[t] /\ probing'[t] = probing[t]
               /\ ending'[t] = ending[t]
  BY <1>1 DEF CallerStep, StartAgain, LaunchNow, LaunchDelayed, CancelStep,
     EditFields, ApplyNothing, ApplyRemote, ApplyRestart, ApplyStopped,
     ApplyToProbe, Goto, TypeOK, CheckAndSet, Inc, Schedule, Cancel, sensorVars,
     chainVars
<1> DEFINE Good ==
      /\ pc'[c] \in {"start", "edit", "cancelThenStart"} => ~running'[s]
      /\ pc'[c] = "cancel" => ~Central(s)'
      /\ pc'[c] = "toProbe" => remote'[s]
      /\ pc'[c] # "apply"
      /\ Central(s)' => Live(s)' \/ pc'[c] = "launch"
      /\ exists'[s] /\ running'[s] /\ remote'[s] =>
            mode'[s] = "probe" \/ pc'[c] = "toProbe"
<1>4. /\ pc[c] \in {"start", "edit", "cancelThenStart"} => ~running[s]
      /\ pc[c] = "cancel" => ~Central(s)
      /\ pc[c] = "toProbe" => remote[s]
      /\ pc[c] = "apply" /\ Central(s) /\ mode[s] = "central" => Live(s)
  BY <1>1 DEF IInv, Pending
<1>5. \A d \in Callers : pc[d] # "idle" /\ arg[d] = s => d = c
  BY <1>2 DEF IInv, Serialised
<1>6. /\ Central(s) => Live(s) \/ pc[c] \in {"launch", "apply"}
      /\ exists[s] /\ running[s] /\ remote[s] =>
            mode[s] = "probe" \/ pc[c] \in {"apply", "toProbe"}
  BY <1>1, <1>5 DEF IInv, Covered, Recorded, At
<1>7. Good
  <2> USE <1>1, <1>2, <1>4, <1>6 DEF Central, Live, TypeOK, Goto
  <2>1. CASE StartAgain(c)
    BY <2>1 DEF StartAgain, CheckAndSet, Startable, chainVars
  <2>2. CASE LaunchNow(c)
    BY <2>2 DEF LaunchNow, Inc, sensorVars
  <2>3. CASE LaunchDelayed(c)
    BY <2>3 DEF LaunchDelayed, Schedule, Inc, sensorVars
  <2>4. CASE CancelStep(c)
    BY <2>4 DEF CancelStep, Cancel, sensorVars
  <2>5. CASE EditFields(c)
    BY <2>5 DEF EditFields, chainVars
  <2>6. CASE ApplyNothing(c)
    BY <2>6 DEF ApplyNothing, NewMode, sensorVars, chainVars
  <2>7. CASE ApplyRemote(c)
    BY <2>7 DEF ApplyRemote, sensorVars, chainVars
  <2>8. CASE ApplyRestart(c)
    BY <2>8 DEF ApplyRestart, chainVars
  <2>9. CASE ApplyStopped(c)
    BY <2>9 DEF ApplyStopped, chainVars
  <2>10. CASE ApplyToProbe(c)
    BY <2>10 DEF ApplyToProbe, chainVars
  <2> QED BY <2>1, <2>2, <2>3, <2>4, <2>5, <2>6, <2>7, <2>8, <2>9, <2>10
          DEF CallerStep
<1> QED BY <1>1, <1>2, <1>3, <1>7, CallerFrame

\* The invariant is inductive when requests are serialised.
LEMMA IInvInductive ==
    ASSUME ~Overlap
    PROVE  IInv /\ [Next]_vars => IInv'
<1> SUFFICES ASSUME IInv, [Next]_vars PROVE IInv'
    OBVIOUS
<1>1. TypeOK'
  BY StepTyped DEF IInv
<1>2. CASE \E s \in Sensors : SchedulerStep(s)
  BY <1>2, SchedulerKeeps
<1>3. CASE Prune
  BY <1>1, <1>3, PruneKeeps
<1>4. CASE \E c \in Callers : CallerStep(c)
  BY <1>4, CallerKeeps
<1>5. CASE \E c \in Callers, s \in Sensors : Request(c, s)
  BY <1>5, RequestKeeps
<1>6. CASE UNCHANGED vars
  <2>1. UNCHANGED <<exists, running, remote, callerVars>> /\ UNCHANGED mode
    BY <1>6 DEF vars, sensorVars
  <2>2. \A t \in Sensors : Live(t) <=> Live(t)'
    BY <1>6 DEF vars, chainVars, Live
  <2> QED BY <1>1, <2>1, <2>2, Frame
<1> QED BY <1>2, <1>3, <1>4, <1>5, <1>6 DEF Next

\* Every reachable state satisfies it.
LEMMA IInvHolds == ASSUME ~Overlap PROVE Spec => []IInv
<1>1. Init => IInv
  BY InitTyped DEF IInv, Init, Serialised, Pending, Covered, Recorded, Central
<1> QED BY <1>1, IInvInductive, PTL DEF Spec

\* NoLostChain: with serialised requests every running central sensor that no
\* request is changing has a chain.
THEOREM ChainNeverLost == ASSUME ~Overlap PROVE Spec => []NoLostChain
<1>1. IInv => NoLostChain
  BY DEF IInv, Covered, NoLostChain, At, Busy
<1> QED BY <1>1, IInvHolds, PTL

\* HandBackNoticed: with serialised requests a remote sensor is recorded as
\* remote, so that a later hand-back restarts its chain.
THEOREM HandBackAlwaysNoticed == ASSUME ~Overlap PROVE Spec => []HandBackNoticed
<1>1. IInv => HandBackNoticed
  BY DEF IInv, Recorded, HandBackNoticed, At, Busy
<1> QED BY <1>1, IInvHolds, PTL

-----------------------------------------------------------------------------
(* Placement: type correctness.                                            *)

\* The number of requests is bounded by a number.
LEMMA Bounded == ASSUME Place!PlacementAssumption PROVE MaxRequests \in Nat
BY Zenon DEF Place!PlacementAssumption

\* A request is one of as many as there may be.
LEMMA CountPlaced ==
    ASSUME MaxRequests \in Nat, requests \in 0..MaxRequests,
           requests < MaxRequests, requests' = requests + 1
    PROVE  requests' \in 0..MaxRequests
OBVIOUS

\* So does the beginning of a request, and whether it was one too many is a truth value.
LEMMA BeginPlaced ==
    ASSUME Place!PlacementAssumption, Place!TypeOK, NEW c \in Callers, Place!Begin(c)
    PROVE  requests' \in 0..MaxRequests /\ unsound' \in BOOLEAN
<1>1. requests' \in 0..MaxRequests BY Bounded, CountPlaced DEF Place!Begin, Place!TypeOK
<1>2. unsound' \in BOOLEAN BY DEF Place!Begin
<1> QED BY <1>1, <1>2

\* Initial states are well typed.
LEMMA InitPlaced == ASSUME Place!PlacementAssumption PROVE Place!Init => Place!TypeOK
<1> SUFFICES ASSUME Place!Init PROVE Place!TypeOK
  OBVIOUS
<1>1. PICK start \in Starts : assign = start[1] /\ site = start[2]
  BY DEF Place!Init
<1>2. assign \in Place!Assignments /\ site \in Place!Bindings
  BY <1>1 DEF Place!PlacementAssumption
<1>3. \A p \in Probes : Place!Wanted(p) \in SUBSET Sensors
  BY DEF Place!Wanted
<1>4. Place!NoRequest \in [at : {"idle", "edit", "invalidate", "apply", "bump", "reassign", "sites", "drop", "dropped"},
                     sensors : SUBSET Sensors, target : Place!Pins, probe : Place!Bindings, was : BOOLEAN]
  BY DEF Place!NoRequest, Place!Pins, Place!Bindings
<1>5. requests = 0 BY DEF Place!Init
<1>6. requests \in 0..MaxRequests BY <1>5, Bounded
<1> QED BY <1>2, <1>3, <1>4, <1>6 DEF Place!Init, Place!TypeOK

\* Looking up, ending a chain and saving.
LEMMA QuietPlaced ==
    ASSUME Place!TypeOK, Place!LoadCache \/ Place!Save \/ \E s \in Sensors : Place!ChainEnds(s)
    PROVE  Place!TypeOK'
<1>1. CASE Place!LoadCache BY <1>1 DEF Place!LoadCache, Place!TypeOK, Place!agents, Place!observed
<1>2. CASE Place!Save BY <1>2 DEF Place!Save, Place!TypeOK, Place!memory, Place!agents, Place!observed
<1>3. CASE \E s \in Sensors : Place!ChainEnds(s)
  <2>1. PICK s \in Sensors : Place!ChainEnds(s) BY <1>3
  <2> QED BY <2>1 DEF Place!ChainEnds, Place!TypeOK, Place!agents, Place!observed
<1> QED BY <1>1, <1>2, <1>3

\* The steps of an agent keep the types.
LEMMA SyncPlaced ==
    ASSUME Place!TypeOK, NEW p \in Probes, Place!Sync(p) \/ Place!SyncLost(p)
    PROVE  Place!TypeOK'
<1>1. CASE Place!SyncVersion(p) BY <1>1 DEF Place!SyncVersion, Place!TypeOK, Place!memory, Place!observed
<1>2. CASE Place!SyncList(p) BY <1>2 DEF Place!SyncList, Place!TypeOK, Place!Wanted, Place!memory, Place!observed
<1>3. CASE Place!SyncLost(p) BY <1>3 DEF Place!SyncLost, Place!TypeOK, Place!memory, Place!observed
<1> QED BY <1>1, <1>2, <1>3 DEF Place!Sync

\* The next steps of a caller.
Callings == [at : {"idle", "edit", "invalidate", "apply", "bump", "reassign", "sites", "drop", "dropped"},
             sensors : SUBSET Sensors, target : Place!Pins, probe : Place!Bindings, was : BOOLEAN]

\* A request that goes on is one.
LEMMA GoCalls ==
    ASSUME caller \in [Callers -> Callings], NEW c \in Callers,
           NEW r \in Callings, Place!Then(c, r)
    PROVE  caller' \in [Callers -> Callings]
BY DEF Place!Then

\* Each new request keeps the types ...
LEMMA RequestPlaced ==
    ASSUME Place!PlacementAssumption, Place!TypeOK, NEW c \in Callers, Place!Request(c)
    PROVE  Place!TypeOK'
<1> USE DEF Place!TypeOK
<1>0. caller \in [Callers -> Callings] /\ Place!NoRequest \in Callings /\ caller[c] \in Callings
  BY DEF Callings, Place!NoRequest, Place!Pins, Place!Bindings
<1>1. ASSUME NEW s \in Sensors, NEW t \in Place!Pins, Place!EditSensor(c, s, t) PROVE Place!TypeOK'
  <2>1. [Place!NoRequest EXCEPT !.at = "edit", !.sensors = {s}, !.target = t, !.was = running[s]] \in Callings
    BY <1>0 DEF Callings, Place!NoRequest
  <2>2. caller' \in [Callers -> Callings] BY <1>0, <1>1, <2>1, GoCalls DEF Place!EditSensor
  <2>3. astray' \subseteq Sensors BY <1>1 DEF Place!EditSensor, Place!Disturb
  <2>4. requests' \in 0..MaxRequests /\ unsound' \in BOOLEAN
    BY <1>1, BeginPlaced DEF Place!EditSensor
  <2>5. running' \in [Sensors -> BOOLEAN] BY <1>1 DEF Place!EditSensor
  <2> QED BY <1>1, <2>2, <2>3, <2>4, <2>5 DEF Place!EditSensor, Callings, Place!agents
<1>2. ASSUME NEW t \in Place!Pins, NEW b \in BOOLEAN, Place!EditDevice(c, t, b) PROVE Place!TypeOK'
  <2>1. [Place!NoRequest EXCEPT !.at = "apply", !.sensors = Sensors] \in Callings
    BY <1>0 DEF Callings, Place!NoRequest
  <2>2. caller' \in [Callers -> Callings] BY <1>0, <1>2, <2>1, GoCalls DEF Place!EditDevice
  <2>3. assign' \in Place!Assignments BY <1>2 DEF Place!EditDevice, Place!Assignments
  <2>4. requests' \in 0..MaxRequests /\ unsound' \in BOOLEAN
    BY <1>2, BeginPlaced DEF Place!EditDevice
  <2> QED BY <1>2, <2>2, <2>3, <2>4 DEF Place!EditDevice, Callings, Place!agents
<1>3. ASSUME NEW t \in Place!Bindings, Place!BindSite(c, t) PROVE Place!TypeOK'
  <2>1. [Place!NoRequest EXCEPT !.at = "invalidate"] \in Callings
    BY <1>0 DEF Callings, Place!NoRequest
  <2>2. caller' \in [Callers -> Callings] BY <1>0, <1>3, <2>1, GoCalls DEF Place!BindSite
  <2>4. requests' \in 0..MaxRequests /\ unsound' \in BOOLEAN
    BY <1>3, BeginPlaced DEF Place!BindSite
  <2> QED BY <1>3, <2>2, <2>4 DEF Place!BindSite, Callings, Place!memory, Place!agents
<1>4. ASSUME NEW s \in Sensors, Place!Pause(c, s) PROVE Place!TypeOK'
  <2>4. requests' \in 0..MaxRequests /\ unsound' \in BOOLEAN
    BY <1>4, BeginPlaced DEF Place!Pause
  <2>5. running' \in [Sensors -> BOOLEAN] /\ chain' \in [Sensors -> BOOLEAN] BY <1>4 DEF Place!Pause
  <2>6. behind' \subseteq Probes /\ missed' \subseteq Probes /\ list' \in [Probes -> SUBSET Sensors]
        /\ sync' \in [Probes -> {"idle", "fresh", "outrun"}]
    BY <1>4 DEF Place!Pause, Place!Bump
  <2> QED BY <1>4, <2>4, <2>5, <2>6 DEF Place!Pause
<1>5. ASSUME NEW s \in Sensors, Place!Resume(c, s) PROVE Place!TypeOK'
  <2>4. requests' \in 0..MaxRequests /\ unsound' \in BOOLEAN
    BY <1>5, BeginPlaced DEF Place!Resume
  <2>5. running' \in [Sensors -> BOOLEAN] /\ chain' \in [Sensors -> BOOLEAN]
        /\ mode' \in [Sensors -> {"central", "probe"}]
    BY <1>5 DEF Place!Resume, Place!Start
  <2>6. behind' \subseteq Probes /\ missed' \subseteq Probes /\ list' \in [Probes -> SUBSET Sensors]
        /\ sync' \in [Probes -> {"idle", "fresh", "outrun"}]
    BY <1>5 DEF Place!Resume, Place!Bump
  <2>7. astray' \subseteq Sensors BY <1>5 DEF Place!Resume, Place!Disturb
  <2> QED BY <1>5, <2>4, <2>5, <2>6, <2>7 DEF Place!Resume
<1>6. CASE Place!DeleteSite(c)
  <2>1. requests' \in 0..MaxRequests /\ unsound' \in BOOLEAN
    BY <1>6, BeginPlaced DEF Place!DeleteSite
  <2>2. astray' \subseteq Sensors BY <1>6 DEF Place!DeleteSite
  <2> QED BY <1>6, <2>1, <2>2 DEF Place!DeleteSite, Place!Bindings, Place!memory, Place!agents
<1>7. ASSUME NEW p \in Probes, NEW t \in Place!Pins, Place!DeleteProbe(c, p, t) PROVE Place!TypeOK'
  <2>1. ASSUME NEW a \in {"reassign", "drop"}
        PROVE  [Place!NoRequest EXCEPT !.probe = p, !.target = t, !.at = a] \in Callings
    BY <1>0 DEF Callings, Place!NoRequest, Place!Bindings
  <2>2. caller' \in [Callers -> Callings] BY <1>0, <1>7, <2>1, GoCalls DEF Place!DeleteProbe
  <2>3. requests' \in 0..MaxRequests BY <1>7, Bounded, CountPlaced DEF Place!DeleteProbe
  <2>4. unsound' \in BOOLEAN BY <1>7 DEF Place!DeleteProbe
  <2> QED BY <1>7, <2>2, <2>3, <2>4 DEF Place!DeleteProbe, Callings, Place!memory, Place!agents
<1> QED BY <1>1, <1>2, <1>3, <1>4, <1>5, <1>6, <1>7 DEF Place!Request

\* ... each next step of one ...
LEMMA ProceedPlaced ==
    ASSUME Place!PlacementAssumption, Place!TypeOK, NEW c \in Callers, Place!Proceed(c)
    PROVE  Place!TypeOK'
<1> USE DEF Place!TypeOK
<1>0. caller \in [Callers -> Callings] /\ Place!NoRequest \in Callings /\ caller[c] \in Callings
  BY DEF Callings, Place!NoRequest, Place!Pins, Place!Bindings
<1>a. ASSUME NEW a \in {"idle", "edit", "invalidate", "apply", "bump", "reassign", "sites", "drop", "dropped"},
             NEW S \in SUBSET Sensors
      PROVE  /\ [caller[c] EXCEPT !.at = a] \in Callings
             /\ [caller[c] EXCEPT !.sensors = S] \in Callings
             /\ [caller[c] EXCEPT !.at = a, !.sensors = S] \in Callings
  BY <1>0 DEF Callings
<1>1. ASSUME NEW s \in Sensors, Place!EditSensorSet(c, s) PROVE Place!TypeOK'
  <2>1. caller' \in [Callers -> Callings] BY <1>0, <1>a, <1>1, GoCalls DEF Place!EditSensorSet, Place!Go
  <2>2. caller[c].target \in Place!Pins BY <1>0 DEF Callings
  <2>3. assign' \in Place!Assignments BY <1>1, <2>2 DEF Place!EditSensorSet, Place!Assignments
  <2>4. running' \in [Sensors -> BOOLEAN] /\ chain' \in [Sensors -> BOOLEAN]
        /\ mode' \in [Sensors -> {"central", "probe"}]
    BY <1>1 DEF Place!EditSensorSet, Place!Start
  <2> QED BY <1>1, <2>1, <2>3, <2>4 DEF Place!EditSensorSet, Callings, Place!agents, Place!observed
<1>2. ASSUME NEW s \in Sensors, Place!Apply(c, s) PROVE Place!TypeOK'
  <2>1. caller[c].sensors \ {s} \in SUBSET Sensors BY <1>0 DEF Callings
  <2>2. caller' \in [Callers -> Callings] BY <1>0, <1>a, <1>2, <2>1, GoCalls DEF Place!Apply
  <2>3. mode' \in [Sensors -> {"central", "probe"}] /\ chain' \in [Sensors -> BOOLEAN]
    <3>1. CASE Place!Probe(s) # Place!NoProbe /\ mode[s] = "central" BY <1>2, <3>1 DEF Place!Apply
    <3>2. CASE Place!Probe(s) = Place!NoProbe /\ mode[s] = "probe" BY <1>2, <3>2 DEF Place!Apply
    <3>3. CASE ~(Place!Probe(s) # Place!NoProbe /\ mode[s] = "central") /\ ~(Place!Probe(s) = Place!NoProbe /\ mode[s] = "probe")
      BY <1>2, <3>3 DEF Place!Apply
    <3> QED BY <3>1, <3>2, <3>3
  <2> QED BY <1>2, <2>2, <2>3 DEF Place!Apply, Callings, Place!agents, Place!observed
<1>3. CASE Place!Invalidate(c)
  <2>1. (IF caller[c].probe = Place!NoProbe /\ assign.onSite THEN Sensors ELSE caller[c].sensors) \in SUBSET Sensors
    BY <1>0 DEF Callings
  <2>2. caller' \in [Callers -> Callings] BY <1>0, <1>a, <1>3, <2>1, GoCalls DEF Place!Invalidate, Place!Collect
  <2> QED BY <1>3, <2>2 DEF Place!Invalidate, Callings, Place!agents, Place!observed
<1>4. CASE Place!Applied(c)
  <2>1. caller' \in [Callers -> Callings] BY <1>0, <1>a, <1>4, GoCalls DEF Place!Applied, Place!Go
  <2> QED BY <1>4, <2>1 DEF Place!Applied, Callings, Place!memory, Place!agents, Place!observed
<1>5. CASE Place!BumpAll(c)
  <2>1. caller' \in [Callers -> Callings] BY <1>0, <1>a, <1>5, GoCalls DEF Place!BumpAll, Place!Go
  <2>2. behind' \subseteq Probes /\ missed' \subseteq Probes /\ list' \in [Probes -> SUBSET Sensors]
        /\ sync' \in [Probes -> {"idle", "fresh", "outrun"}]
    BY <1>5 DEF Place!BumpAll, Place!Bump
  <2> QED BY <1>5, <2>1, <2>2 DEF Place!BumpAll, Callings, Place!memory, Place!observed
<1>6. CASE Place!Reassign(c)
  <2>1. {s \in Sensors : assign.pin[s] = caller[c].probe \/ assign.dev = caller[c].probe} \in SUBSET Sensors
    OBVIOUS
  <2>2. caller' \in [Callers -> Callings] BY <1>0, <1>a, <1>6, <2>1, GoCalls DEF Place!Reassign
  <2>3. caller[c].target \in Place!Pins BY <1>0 DEF Callings
  <2>4. assign' \in Place!Assignments BY <1>6, <2>3 DEF Place!Reassign, Place!Reassigned, Place!Assignments
  <2>5. astray' \subseteq Sensors BY <1>6 DEF Place!Reassign
  <2> QED BY <1>6, <2>2, <2>4, <2>5 DEF Place!Reassign, Callings, Place!agents
<1>7. CASE Place!ReassignSites(c)
  <2>1. caller' \in [Callers -> Callings] BY <1>0, <1>a, <1>7, GoCalls DEF Place!ReassignSites, Place!Go
  <2>2. caller[c].target \in Place!Pins BY <1>0 DEF Callings
  <2>3. site' \in Place!Bindings BY <1>7, <2>2 DEF Place!ReassignSites, Place!Central, Place!Pins, Place!Bindings
  <2> QED BY <1>7, <2>1, <2>3 DEF Place!ReassignSites, Callings, Place!memory, Place!agents, Place!observed
<1>8. CASE Place!DropProbe(c)
  <2>1. caller' \in [Callers -> Callings] BY <1>0, <1>a, <1>8, GoCalls DEF Place!DropProbe, Place!Go
  <2> QED BY <1>8, <2>1 DEF Place!DropProbe, Callings, Place!memory, Place!agents, Place!observed
<1>9. CASE Place!Dropped(c)
  <2>1. caller' \in [Callers -> Callings] BY <1>0, <1>9, GoCalls DEF Place!Dropped
  <2> QED BY <1>9, <2>1 DEF Place!Dropped, Callings, Place!agents, Place!observed
<1> QED BY <1>1, <1>2, <1>3, <1>4, <1>5, <1>6, <1>7, <1>8, <1>9 DEF Place!Proceed

\* ... and a restart from the tables.
LEMMA CrashPlaced ==
    ASSUME Place!PlacementAssumption, Place!TypeOK, Place!Crash
    PROVE  Place!TypeOK'
<1> USE DEF Place!TypeOK
<1>1. assign' \in Place!Assignments /\ running' \in [Sensors -> BOOLEAN] BY DEF Place!Crash
<1>2. mode' \in [Sensors -> {"central", "probe"}] /\ chain' \in [Sensors -> BOOLEAN]
  BY <1>1 DEF Place!Crash
<1>3. behind' \subseteq Probes /\ missed' \subseteq Probes BY DEF Place!Crash
<1>4. caller' \in [Callers -> Callings] BY DEF Place!Crash, Callings, Place!NoRequest, Place!Pins, Place!Bindings
<1>5. requests' \in 0..MaxRequests BY Bounded, CountPlaced DEF Place!Crash
<1>7. unsound' \in BOOLEAN BY DEF Place!Crash, Place!Current
<1>6. sync' \in [Probes -> {"idle", "fresh", "outrun"}] BY DEF Place!Crash
<1> QED BY <1>1, <1>2, <1>3, <1>4, <1>5, <1>6, <1>7 DEF Place!Crash, Callings

\* Every step of Placement keeps the types.
LEMMA StepPlaced ==
    ASSUME Place!PlacementAssumption, Place!TypeOK, [Place!Next]_(Place!vars)
    PROVE  Place!TypeOK'
<1>1. CASE UNCHANGED Place!vars BY <1>1 DEF Place!vars, Place!memory, Place!agents, Place!observed, Place!TypeOK
<1>2. CASE Place!Next
  BY <1>2, QuietPlaced, SyncPlaced, RequestPlaced, ProceedPlaced, CrashPlaced DEF Place!Next
<1> QED BY <1>1, <1>2

\* TypeOK of Placement: assignments, bindings, lists and requests are what their names
\* say, through any requests, lost pulls and restarts.
THEOREM PlacementTypes == ASSUME Place!PlacementAssumption PROVE Place!Spec => []Place!TypeOK
<1>1. Place!Init => Place!TypeOK BY InitPlaced
<1>2. Place!TypeOK /\ [Place!Next]_(Place!vars) => Place!TypeOK' BY StepPlaced
<1> QED BY <1>1, <1>2, PTL DEF Place!Spec

-----------------------------------------------------------------------------
(* Lists and names.                                                        *)

\* A request that has changed, or may change, who measures what.
Changing(c) == caller[c].at \notin {"idle", "drop", "dropped"}

\* While no such request is under way, the lists are those of the server.
ListsFit ==
    (\A c \in Callers : ~Changing(c)) =>
        \A p \in probes \ (behind \cup missed) : list[p] \ astray = Place!Wanted(p) \ astray

\* The cache has the binding of the site, or a request is about to drop it.
CacheFits ==
    \/ cache \in {"none", site} \/ astray = Sensors
    \/ \E c \in Callers : caller[c].at = "invalidate"

\* Only a deletion has a probe to delete.
Roles ==
    \A c \in Callers :
        /\ caller[c].at = "edit" => caller[c].probe = Place!NoProbe
        /\ caller[c].at \in {"reassign", "sites", "drop", "dropped"} => caller[c].probe \in Probes

\* A deletion is the only request.
Alone ==
    \A c, d \in Callers : caller[c].probe # Place!NoProbe /\ d # c => caller[d] = Place!NoRequest

\* Whatever names a probe names one that is there ...
Known ==
    /\ \A s \in Sensors : assign.pin[s] \in {Place!NoProbe, "central"} \cup probes
    /\ assign.dev \in {Place!NoProbe, "central"} \cup probes
    /\ site \in {Place!NoProbe} \cup probes
    /\ cache \in {"none", Place!NoProbe} \cup probes \/ astray = Sensors
    /\ \A c \in Callers : caller[c].at = "edit" => caller[c].target \in {Place!NoProbe, "central"} \cup probes

\* ... and, as its deletion goes on, no longer the one that is to go.
Renamed ==
    \A c \in Callers : caller[c].probe # Place!NoProbe =>
        /\ caller[c].at \in {"reassign", "sites"} => caller[c].target \in {"central"} \cup (probes \ {caller[c].probe})
        /\ caller[c].at # "reassign" => ~Place!Refers(assign, caller[c].probe)
        /\ caller[c].at \notin {"reassign", "sites"} => site # caller[c].probe

Names == ~unsound => Alone /\ Known /\ Renamed

PInv == Place!TypeOK /\ CacheFits /\ ListsFit /\ Roles /\ Names

\* What a request does next, and that no other moves.
LEMMA ThenIs ==
    ASSUME Place!TypeOK, NEW c \in Callers, NEW r, Place!Then(c, r)
    PROVE  caller'[c] = r /\ \A d \in Callers : d # c => caller'[d] = caller[d]
BY DEF Place!Then, Place!TypeOK

\* A request that only moves on keeps its sensors, its target and its probe.
LEMMA GoIs ==
    ASSUME Place!TypeOK, NEW c \in Callers, NEW a, Place!Go(c, a)
    PROVE  /\ caller'[c].at = a
           /\ caller'[c].sensors = caller[c].sensors
           /\ caller'[c].target = caller[c].target
           /\ caller'[c].probe = caller[c].probe
           /\ \A d \in Callers : d # c => caller'[d] = caller[d]
<1>1. caller[c] \in Callings BY DEF Place!TypeOK, Callings
<1>2. caller'[c] = [caller[c] EXCEPT !.at = a] BY DEF Place!Go, Place!Then, Place!TypeOK
<1>3. \A d \in Callers : d # c => caller'[d] = caller[d] BY DEF Place!Go, Place!Then, Place!TypeOK
<1> QED BY <1>1, <1>2, <1>3 DEF Callings

\* What a probe is to measure depends on the assignment and the binding.
LEMMA SameWanted ==
    ASSUME running' = running, \A s \in Sensors : Place!Probe(s)' = Place!Probe(s), NEW p \in Probes
    PROVE  Place!Wanted(p)' = Place!Wanted(p)
BY DEF Place!Wanted

\* The cascade depends on the assignment and the binding.
LEMMA SameProbe ==
    ASSUME assign' = assign, Place!Binding' = Place!Binding, NEW s \in Sensors
    PROVE  Place!Probe(s)' = Place!Probe(s)
BY DEF Place!Probe, Place!Effective

\* A busy request promises nothing of the lists.
LEMMA ListsWhileBusy ==
    ASSUME NEW c \in Callers, Changing(c)'
    PROVE  ListsFit'
BY DEF ListsFit

\* Nor does a probe that is to pull anew.
LEMMA ListsWhileBehind ==
    ASSUME probes' \subseteq behind' \cup missed'
    PROVE  ListsFit'
BY DEF ListsFit

\* A step that changes nothing a list is made of.
LEMMA ListsStay ==
    ASSUME ListsFit, Place!TypeOK,
           \A c \in Callers : ~Changing(c)' => ~Changing(c),
           running' = running, \A s \in Sensors : Place!Probe(s)' = Place!Probe(s),
           list' = list, astray' = astray,
           probes' \subseteq probes, behind \subseteq behind', missed' = missed
    PROVE  ListsFit'
<1> SUFFICES ASSUME \A c \in Callers : ~Changing(c)', NEW p \in probes' \ (behind' \cup missed')
             PROVE  list'[p] \ astray' = Place!Wanted(p)' \ astray'
  BY DEF ListsFit
<1>1. p \in Probes /\ p \in probes \ (behind \cup missed) BY DEF Place!TypeOK
<1>2. list[p] \ astray = Place!Wanted(p) \ astray BY <1>1 DEF ListsFit
<1>3. Place!Wanted(p)' = Place!Wanted(p) BY <1>1, SameWanted
<1> QED BY <1>2, <1>3

-----------------------------------------------------------------------------
(* The cache and the site.                                                 *)

\* The cache follows the site through every step.
LEMMA CacheStep ==
    ASSUME Place!TypeOK, CacheFits, Place!Next
    PROVE  CacheFits'
<1>1. CASE Place!LoadCache BY <1>1 DEF Place!LoadCache, CacheFits
<1>2. CASE Place!Save BY <1>2 DEF Place!Save, CacheFits, Place!memory, Place!observed
<1>3. ASSUME NEW s \in Sensors, Place!ChainEnds(s) PROVE CacheFits'
  BY <1>3 DEF Place!ChainEnds, CacheFits, Place!observed
<1>4. ASSUME NEW p \in Probes, Place!Sync(p) \/ Place!SyncLost(p) PROVE CacheFits'
  BY <1>4 DEF Place!Sync, Place!SyncVersion, Place!SyncList, Place!SyncLost, CacheFits, Place!memory, Place!observed
<1>5. CASE Place!Crash BY <1>5 DEF Place!Crash, CacheFits
<1>6. ASSUME NEW c \in Callers, Place!Request(c) PROVE CacheFits'
  <2>1. ASSUME caller[c].at # "invalidate", cache' = cache, site' = site, astray' = astray,
               \A d \in Callers : d # c => caller'[d] = caller[d]
        PROVE  CacheFits'
    BY <2>1 DEF CacheFits
  <2>2. ASSUME caller[c] = Place!NoRequest PROVE caller[c].at # "invalidate"
    BY <2>2 DEF Place!NoRequest
  <2>3. ASSUME NEW s \in Sensors, NEW t \in Place!Pins, Place!EditSensor(c, s, t) PROVE CacheFits'
    <3>1. \A d \in Callers : d # c => caller'[d] = caller[d] BY <2>3, ThenIs DEF Place!EditSensor
    <3>2. astray \subseteq astray' /\ astray' \subseteq Sensors BY <2>3 DEF Place!EditSensor, Place!Disturb, Place!TypeOK
    <3>3. caller[c].at # "invalidate" /\ cache' = cache /\ site' = site
      BY <2>3, <2>2 DEF Place!EditSensor, Place!Begin
    <3> QED BY <3>1, <3>2, <3>3 DEF CacheFits
  <2>4. ASSUME NEW t \in Place!Pins, NEW b \in BOOLEAN, Place!EditDevice(c, t, b) PROVE CacheFits'
    <3>1. \A d \in Callers : d # c => caller'[d] = caller[d] BY <2>4, ThenIs DEF Place!EditDevice
    <3> QED BY <2>1, <2>2, <2>4, <3>1 DEF Place!EditDevice, Place!Begin
  <2>5. ASSUME NEW t \in Place!Bindings, Place!BindSite(c, t) PROVE CacheFits'
    <3>1. caller'[c].at = "invalidate" BY <2>5, ThenIs DEF Place!BindSite, Place!NoRequest
    <3> QED BY <3>1 DEF CacheFits
  <2>6. ASSUME NEW s \in Sensors, Place!Pause(c, s) PROVE CacheFits'
    BY <2>6 DEF Place!Pause, CacheFits
  <2>7. ASSUME NEW s \in Sensors, Place!Resume(c, s) PROVE CacheFits'
    <3>1. astray \subseteq astray' /\ astray' \subseteq Sensors BY <2>7 DEF Place!Resume, Place!Disturb, Place!TypeOK
    <3> QED BY <2>7, <3>1 DEF Place!Resume, CacheFits
  <2>8. CASE Place!DeleteSite(c)
    <3>1. CASE cache = "none" BY <2>8, <3>1 DEF Place!DeleteSite, CacheFits, Place!memory
    <3>2. CASE cache # "none" BY <2>8, <3>2 DEF Place!DeleteSite, CacheFits, Place!memory
    <3> QED BY <3>1, <3>2
  <2>9. ASSUME NEW p \in Probes, NEW t \in Place!Pins, Place!DeleteProbe(c, p, t) PROVE CacheFits'
    <3>1. \A d \in Callers : d # c => caller'[d] = caller[d] BY <2>9, ThenIs DEF Place!DeleteProbe
    <3> QED BY <2>1, <2>2, <2>9, <3>1 DEF Place!DeleteProbe, Place!memory
  <2> QED BY <1>6, <2>3, <2>4, <2>5, <2>6, <2>7, <2>8, <2>9 DEF Place!Request
<1>7. ASSUME NEW c \in Callers, Place!Proceed(c) PROVE CacheFits'
  <2>1. ASSUME caller[c].at # "invalidate", cache' = cache, site' = site,
               astray \subseteq astray', astray' \subseteq Sensors,
               \A d \in Callers : d # c => caller'[d] = caller[d]
        PROVE  CacheFits'
    BY <2>1 DEF CacheFits
  <2>0. astray \subseteq Sensors BY DEF Place!TypeOK
  <2>2. ASSUME NEW s \in Sensors, Place!EditSensorSet(c, s) PROVE CacheFits'
    <3>1. \A d \in Callers : d # c => caller'[d] = caller[d] BY <2>2, GoIs DEF Place!EditSensorSet
    <3> QED BY <2>0, <2>1, <2>2, <3>1 DEF Place!EditSensorSet, Place!observed
  <2>3. ASSUME NEW s \in Sensors, Place!Apply(c, s) PROVE CacheFits'
    <3>1. \A d \in Callers : d # c => caller'[d] = caller[d] BY <2>3, ThenIs DEF Place!Apply
    <3>2. caller[c].at # "invalidate" /\ cache' = cache /\ site' = site /\ astray' = astray
      BY <2>3 DEF Place!Apply, Place!observed
    <3> QED BY <2>0, <2>1, <3>1, <3>2
  <2>4. CASE Place!Invalidate(c) BY <2>4 DEF Place!Invalidate, CacheFits
  <2>5. CASE Place!Applied(c)
    <3>1. \A d \in Callers : d # c => caller'[d] = caller[d] BY <2>5, GoIs DEF Place!Applied
    <3> QED BY <2>0, <2>1, <2>5, <3>1 DEF Place!Applied, Place!observed, Place!memory
  <2>6. CASE Place!BumpAll(c)
    <3>1. \A d \in Callers : d # c => caller'[d] = caller[d] BY <2>6, GoIs, ThenIs DEF Place!BumpAll
    <3> QED BY <2>0, <2>1, <2>6, <3>1 DEF Place!BumpAll, Place!observed, Place!memory
  <2>7. CASE Place!Reassign(c)
    <3>1. \A d \in Callers : d # c => caller'[d] = caller[d] BY <2>7, ThenIs DEF Place!Reassign
    <3>2. astray \subseteq astray' /\ astray' \subseteq Sensors BY <2>0, <2>7 DEF Place!Reassign
    <3> QED BY <2>1, <2>7, <3>1, <3>2 DEF Place!Reassign
  <2>8. CASE Place!ReassignSites(c)
    <3>1. caller'[c].at = "invalidate" BY <2>8, GoIs DEF Place!ReassignSites
    <3> QED BY <3>1 DEF CacheFits
  <2>9. CASE Place!DropProbe(c)
    <3>1. \A d \in Callers : d # c => caller'[d] = caller[d] BY <2>9, GoIs DEF Place!DropProbe
    <3> QED BY <2>0, <2>1, <2>9, <3>1 DEF Place!DropProbe, Place!observed, Place!memory
  <2>10. CASE Place!Dropped(c) BY <2>10 DEF Place!Dropped, CacheFits
  <2> QED BY <1>7, <2>2, <2>3, <2>4, <2>5, <2>6, <2>7, <2>8, <2>9, <2>10 DEF Place!Proceed
<1> QED BY <1>1, <1>2, <1>3, <1>4, <1>5, <1>6, <1>7 DEF Place!Next

-----------------------------------------------------------------------------
(* The lists.                                                              *)

\* A binding the cache has, or has again.
LEMMA CacheDropped ==
    ASSUME CacheFits, \A c \in Callers : caller[c].at # "invalidate", astray # Sensors
    PROVE  Place!Binding = site
BY DEF CacheFits, Place!Binding

\* A lookup, a save and the end of a chain leave the lists right.
LEMMA ListsQuiet ==
    ASSUME Place!TypeOK, ListsFit, Place!LoadCache \/ Place!Save \/ \E s \in Sensors : Place!ChainEnds(s)
    PROVE  ListsFit'
<1>1. caller' = caller /\ running' = running /\ assign' = assign /\ list' = list /\ astray' = astray
      /\ probes' = probes /\ behind' = behind /\ missed' = missed /\ Place!Binding' = Place!Binding
  BY DEF Place!LoadCache, Place!Save, Place!ChainEnds, Place!memory, Place!agents, Place!observed, Place!Binding
<1>2. \A s \in Sensors : Place!Probe(s)' = Place!Probe(s) BY <1>1, SameProbe
<1>3. \A c \in Callers : ~Changing(c)' => ~Changing(c) BY <1>1 DEF Changing
<1> QED BY <1>1, <1>2, <1>3, ListsStay

\* An agent that pulls gets the list of the server.
LEMMA ListsSync ==
    ASSUME Place!TypeOK, ListsFit, NEW q \in Probes, Place!Sync(q) \/ Place!SyncLost(q)
    PROVE  ListsFit'
<1>1. /\ caller' = caller /\ running' = running /\ assign' = assign /\ astray' = astray
      /\ probes' = probes /\ missed' = missed /\ cache' = cache /\ site' = site
  BY DEF Place!Sync, Place!SyncVersion, Place!SyncList, Place!SyncLost, Place!memory, Place!observed
<1>2. Place!Binding' = Place!Binding BY <1>1 DEF Place!Binding
<1>3. \A s \in Sensors : Place!Probe(s)' = Place!Probe(s) BY <1>1, <1>2, SameProbe
<1>4. \A c \in Callers : ~Changing(c)' => ~Changing(c) BY <1>1 DEF Changing
<1>5. CASE Place!SyncVersion(q) \/ Place!SyncLost(q)
  <2>1. list' = list /\ behind' = behind BY <1>5 DEF Place!SyncVersion, Place!SyncLost
  <2> QED BY <1>1, <1>3, <1>4, <2>1, ListsStay
<1>6. CASE Place!SyncList(q)
  <2> SUFFICES ASSUME \A c \in Callers : ~Changing(c)', NEW p \in probes \ (behind' \cup missed)
               PROVE  list'[p] \ astray = Place!Wanted(p)' \ astray
    BY <1>1 DEF ListsFit
  <2>1. p \in Probes /\ Place!Wanted(p)' = Place!Wanted(p) BY <1>1, <1>3, SameWanted DEF Place!TypeOK
  <2>2. CASE p = q BY <1>6, <2>1, <2>2 DEF Place!SyncList, Place!TypeOK
  <2>3. CASE p # q
    <3>1. list'[p] = list[p] /\ p \in probes \ (behind \cup missed) BY <1>6, <2>1, <2>3 DEF Place!SyncList, Place!TypeOK
    <3> QED BY <1>4, <2>1, <3>1 DEF ListsFit
  <2> QED BY <2>2, <2>3
<1> QED BY <1>5, <1>6 DEF Place!Sync

\* The probe that wanted a sensor, or wants it now, is told.
LEMMA ListsTold ==
    ASSUME Place!TypeOK, ListsFit, caller' = caller, assign' = assign, cache' = cache, site' = site,
           probes' = probes, astray \subseteq astray', NEW s \in Sensors, running' \in [Sensors -> BOOLEAN],
           \A x \in Sensors : x # s => running'[x] = running[x],
           Place!Bump({Place!Probe(s)} \cap probes)
    PROVE  ListsFit'
<1>1. Place!Binding' = Place!Binding BY DEF Place!Binding
<1>2. \A x \in Sensors : Place!Probe(x)' = Place!Probe(x) BY <1>1, SameProbe
<1> SUFFICES ASSUME \A c \in Callers : ~Changing(c)', NEW p \in probes \ (behind' \cup missed')
             PROVE  list'[p] \ astray' = Place!Wanted(p)' \ astray'
  BY DEF ListsFit
<1>3. p \notin behind \cup missed /\ p # Place!Probe(s) /\ list' = list BY DEF Place!Bump
<1>4. list[p] \ astray = Place!Wanted(p) \ astray BY <1>3 DEF ListsFit, Changing
<1>5. Place!Wanted(p)' = Place!Wanted(p) BY <1>2, <1>3 DEF Place!Wanted
<1> QED BY <1>3, <1>4, <1>5

\* A new request tells the probe concerned at once, or is busy until it tells all.
LEMMA ListsRequest ==
    ASSUME Place!TypeOK, CacheFits, ListsFit, NEW c \in Callers, Place!Request(c)
    PROVE  ListsFit'
<1>1. ASSUME NEW s \in Sensors, NEW t \in Place!Pins, Place!EditSensor(c, s, t) PROVE ListsFit'
  <2>1. caller'[c] = [Place!NoRequest EXCEPT !.at = "edit", !.sensors = {s}, !.target = t, !.was = running[s]]
    BY <1>1, ThenIs DEF Place!EditSensor
  <2>2. caller'[c].at = "edit" BY <2>1 DEF Place!NoRequest
  <2> QED BY <2>2, ListsWhileBusy DEF Changing
<1>2. ASSUME NEW t \in Place!Pins, NEW b \in BOOLEAN, Place!EditDevice(c, t, b) PROVE ListsFit'
  <2>1. caller'[c] = [Place!NoRequest EXCEPT !.at = "apply", !.sensors = Sensors]
    BY <1>2, ThenIs DEF Place!EditDevice
  <2>2. caller'[c].at = "apply" BY <2>1 DEF Place!NoRequest
  <2> QED BY <2>2, ListsWhileBusy DEF Changing
<1>3. ASSUME NEW t \in Place!Bindings, Place!BindSite(c, t) PROVE ListsFit'
  <2>1. caller'[c].at = "invalidate" BY <1>3, ThenIs DEF Place!BindSite, Place!NoRequest
  <2> QED BY <2>1, ListsWhileBusy DEF Changing
<1>4. ASSUME NEW s \in Sensors, Place!Pause(c, s) PROVE ListsFit'
  <2>1. running' \in [Sensors -> BOOLEAN] /\ \A x \in Sensors : x # s => running'[x] = running[x]
    BY <1>4 DEF Place!Pause, Place!TypeOK
  <2> QED BY <1>4, <2>1, ListsTold DEF Place!Pause
<1>5. ASSUME NEW s \in Sensors, Place!Resume(c, s) PROVE ListsFit'
  <2>1. running' \in [Sensors -> BOOLEAN] /\ \A x \in Sensors : x # s => running'[x] = running[x]
    BY <1>5 DEF Place!Resume, Place!Start, Place!TypeOK
  <2>2. astray \subseteq astray' BY <1>5 DEF Place!Resume, Place!Disturb
  <2> QED BY <1>5, <2>1, <2>2, ListsTold DEF Place!Resume
<1>6. CASE Place!DeleteSite(c)
  <2>1. /\ caller' = caller /\ running' = running /\ assign' = assign /\ cache' = cache /\ site' = Place!NoProbe
        /\ probes' = probes /\ behind' = behind /\ missed' = missed /\ list' = list
    BY <1>6 DEF Place!DeleteSite, Place!memory, Place!agents
  <2> SUFFICES ASSUME \A d \in Callers : ~Changing(d), NEW p \in probes \ (behind \cup missed)
               PROVE  list[p] \ astray' = Place!Wanted(p)' \ astray'
    BY <2>1 DEF ListsFit, Changing
  <2>2. p \in Probes /\ list[p] \in SUBSET Sensors /\ Place!Wanted(p)' \in SUBSET Sensors
    BY DEF Place!TypeOK, Place!Wanted
  <2>3. CASE cache # "none"
    <3>1. astray' = Sensors BY <1>6, <2>3 DEF Place!DeleteSite
    <3> QED BY <2>2, <3>1
  <2>4. CASE cache = "none"
    <3>1. astray' = astray \cup {s \in Sensors : Place!Probe(s) # Place!Effective(assign, Place!NoProbe, s)}
      BY <1>6, <2>4 DEF Place!DeleteSite
    <3>2. \A s \in Sensors : Place!Probe(s)' = Place!Effective(assign, Place!NoProbe, s)
      BY <2>1, <2>4 DEF Place!Probe, Place!Binding, Place!Effective
    <3>3. list[p] \ astray = Place!Wanted(p) \ astray BY DEF ListsFit
    <3>4. \A s \in Sensors \ astray' : s \in Place!Wanted(p)' <=> s \in Place!Wanted(p)
      BY <2>1, <3>1, <3>2 DEF Place!Wanted
    <3>5. astray \subseteq astray' BY <3>1
    <3>6. Place!Wanted(p) \in SUBSET Sensors BY DEF Place!Wanted
    <3> QED BY <2>2, <3>3, <3>4, <3>5, <3>6
  <2> QED BY <2>3, <2>4
<1>7. ASSUME NEW q \in Probes, NEW t \in Place!Pins, Place!DeleteProbe(c, q, t) PROVE ListsFit'
  <2>1. \A d \in Callers : d # c => caller'[d] = caller[d] BY <1>7, ThenIs DEF Place!DeleteProbe
  <2>2. caller[c].at = "idle" BY <1>7 DEF Place!DeleteProbe, Place!NoRequest
  <2>3. \A d \in Callers : ~Changing(d)' => ~Changing(d) BY <2>1, <2>2 DEF Changing
  <2>4. /\ running' = running /\ assign' = assign /\ cache' = cache /\ site' = site /\ astray' = astray
        /\ probes' = probes /\ behind' = behind /\ missed' = missed /\ list' = list
    BY <1>7 DEF Place!DeleteProbe, Place!memory, Place!agents
  <2>5. Place!Binding' = Place!Binding BY <2>4 DEF Place!Binding
  <2>6. \A s \in Sensors : Place!Probe(s)' = Place!Probe(s) BY <2>4, <2>5, SameProbe
  <2> QED BY <2>3, <2>4, <2>6, ListsStay
<1> QED BY <1>1, <1>2, <1>3, <1>4, <1>5, <1>6, <1>7 DEF Place!Request

\* A request is busy until it has told all probes; what a deletion does after that changes no list.
LEMMA ListsProceed ==
    ASSUME Place!TypeOK, CacheFits, ListsFit, NEW c \in Callers, Place!Proceed(c)
    PROVE  ListsFit'
<1>1. ASSUME NEW s \in Sensors, Place!EditSensorSet(c, s) PROVE ListsFit'
  <2>1. caller'[c].at = "bump" BY <1>1, GoIs DEF Place!EditSensorSet
  <2> QED BY <2>1, ListsWhileBusy DEF Changing
<1>2. ASSUME NEW s \in Sensors, Place!Apply(c, s) PROVE ListsFit'
  <2>1. caller[c] \in Callings BY DEF Place!TypeOK, Callings
  <2>2. caller'[c] = [caller[c] EXCEPT !.sensors = @ \ {s}] BY <1>2, ThenIs DEF Place!Apply
  <2>3. caller'[c].at = "apply" BY <1>2, <2>1, <2>2 DEF Place!Apply, Callings
  <2> QED BY <2>3, ListsWhileBusy DEF Changing
<1>3. CASE Place!Invalidate(c)
  <2>1. caller[c] \in Callings BY DEF Place!TypeOK, Callings
  <2>2. caller'[c] = [caller[c] EXCEPT !.at = "apply",
                        !.sensors = IF caller[c].probe = Place!NoProbe /\ assign.onSite THEN Sensors ELSE @]
    BY <1>3, ThenIs DEF Place!Invalidate, Place!Collect
  <2>3. caller'[c].at = "apply" BY <2>1, <2>2 DEF Callings
  <2> QED BY <2>3, ListsWhileBusy DEF Changing
<1>4. CASE Place!Applied(c)
  <2>1. caller'[c].at = "bump" BY <1>4, GoIs DEF Place!Applied
  <2> QED BY <2>1, ListsWhileBusy DEF Changing
<1>5. CASE Place!BumpAll(c)
  <2>1. probes' \subseteq behind' BY <1>5 DEF Place!BumpAll, Place!Bump
  <2> QED BY <2>1, ListsWhileBehind
<1>6. CASE Place!Reassign(c)
  <2>1. caller[c] \in Callings BY DEF Place!TypeOK, Callings
  <2>2. PICK S : Place!Then(c, [caller[c] EXCEPT !.at = "sites", !.sensors = S]) BY <1>6 DEF Place!Reassign
  <2>3. caller'[c] = [caller[c] EXCEPT !.at = "sites", !.sensors = S] BY <2>2, ThenIs
  <2>4. caller'[c].at = "sites" BY <2>1, <2>3 DEF Callings
  <2> QED BY <2>4, ListsWhileBusy DEF Changing
<1>7. CASE Place!ReassignSites(c)
  <2>1. caller'[c].at = "invalidate" BY <1>7, GoIs DEF Place!ReassignSites
  <2> QED BY <2>1, ListsWhileBusy DEF Changing
<1>8. CASE Place!DropProbe(c)
  <2>1. caller'[c].at = "dropped" /\ \A d \in Callers : d # c => caller'[d] = caller[d]
    BY <1>8, GoIs DEF Place!DropProbe
  <2>2. \A d \in Callers : ~Changing(d)' => ~Changing(d) BY <1>8, <2>1 DEF Changing, Place!DropProbe
  <2>3. /\ running' = running /\ assign' = assign /\ cache' = cache /\ site' = site /\ astray' = astray
        /\ probes' \subseteq probes /\ behind' = behind /\ missed' = missed /\ list' = list
    BY <1>8 DEF Place!DropProbe, Place!memory, Place!agents, Place!observed
  <2>4. Place!Binding' = Place!Binding BY <2>3 DEF Place!Binding
  <2>5. \A s \in Sensors : Place!Probe(s)' = Place!Probe(s) BY <2>3, <2>4, SameProbe
  <2> QED BY <2>2, <2>3, <2>5, ListsStay
<1>9. CASE Place!Dropped(c)
  <2>1. /\ running' = running /\ assign' = assign /\ cache' = "none" /\ site' = site /\ astray' = astray
        /\ probes' = probes /\ behind' = behind /\ missed' = missed /\ list' = list
    BY <1>9 DEF Place!Dropped, Place!agents, Place!observed
  <2>2. \A d \in Callers : d # c => caller'[d] = caller[d] BY <1>9, ThenIs DEF Place!Dropped
  <2>3. \A d \in Callers : ~Changing(d)' => ~Changing(d) BY <1>9, <2>2 DEF Changing, Place!Dropped
  <2>4. CASE astray = Sensors
    BY <2>1, <2>4 DEF ListsFit, Place!TypeOK, Place!Wanted
  <2>5. CASE \E d \in Callers : Changing(d)' BY <2>5, ListsWhileBusy
  <2>6. CASE astray # Sensors /\ \A d \in Callers : ~Changing(d)'
    <3>1. \A d \in Callers : caller[d].at # "invalidate" BY <2>3, <2>6 DEF Changing
    <3>2. Place!Binding' = Place!Binding BY <2>1, <2>6, <3>1, CacheDropped DEF Place!Binding
    <3>3. \A s \in Sensors : Place!Probe(s)' = Place!Probe(s) BY <2>1, <3>2, SameProbe
    <3> QED BY <2>1, <2>3, <3>3, ListsStay
  <2> QED BY <2>4, <2>5, <2>6
<1> QED BY <1>1, <1>2, <1>3, <1>4, <1>5, <1>6, <1>7, <1>8, <1>9 DEF Place!Proceed

\* A restart between requests, from up-to-date tables, changes no list.
LEMMA ListsCrash ==
    ASSUME Place!TypeOK, CacheFits, ListsFit, Place!Crash
    PROVE  ListsFit'
<1>1. CASE Place!NoRequests /\ astray = {} /\ saved = [assign |-> assign, running |-> running]
  <2>1. \A c \in Callers : ~Changing(c) /\ caller[c].at # "invalidate" BY <1>1 DEF Place!NoRequests, Place!NoRequest, Changing
  <2>2. assign' = assign /\ running' = running /\ cache' = "none" /\ site' = site BY <1>1 DEF Place!Crash
  <2>3. list' = list /\ probes' = probes /\ behind \subseteq behind' /\ missed' = missed \ behind' /\ astray' = {}
    BY <1>1 DEF Place!Crash
  <2>4. CASE Sensors = {}
    BY <2>3, <2>4 DEF ListsFit, Place!TypeOK, Place!Wanted
  <2>5. CASE Sensors # {}
    <3>1. Place!Binding' = Place!Binding BY <1>1, <2>1, <2>2, <2>5, CacheDropped DEF Place!Binding
    <3>2. \A s \in Sensors : Place!Probe(s)' = Place!Probe(s) BY <2>2, <3>1, SameProbe
    <3>3. ASSUME NEW p \in probes \ (behind' \cup missed') PROVE list'[p] \ astray' = Place!Wanted(p)' \ astray'
      <4>1. p \in Probes /\ p \in probes \ (behind \cup missed) BY <2>3, <3>3 DEF Place!TypeOK
      <4>2. Place!Wanted(p)' = Place!Wanted(p) BY <2>2, <3>2, <4>1, SameWanted
      <4>3. list[p] \ astray = Place!Wanted(p) \ astray BY <2>1, <4>1 DEF ListsFit
      <4> QED BY <1>1, <2>3, <4>2, <4>3
    <3> QED BY <2>3, <3>3 DEF ListsFit
  <2> QED BY <2>4, <2>5
<1>2. CASE ~(Place!NoRequests /\ astray = {} /\ saved = [assign |-> assign, running |-> running])
  <2>1. missed' = Probes \ behind' BY <1>2 DEF Place!Crash
  <2>2. probes' \subseteq Probes BY DEF Place!Crash, Place!TypeOK
  <2> QED BY <2>1, <2>2, ListsWhileBehind
<1> QED BY <1>1, <1>2

\* The lists stay right through every step.
LEMMA ListsStep ==
    ASSUME Place!TypeOK, CacheFits, ListsFit, Place!Next
    PROVE  ListsFit'
BY ListsQuiet, ListsSync, ListsRequest, ListsProceed, ListsCrash DEF Place!Next

-----------------------------------------------------------------------------
(* Names.                                                                  *)

\* The next step of a request, for the same probe.
GoesOn(c) ==
    /\ caller'[c].probe = caller[c].probe /\ caller'[c].target = caller[c].target
    /\ \/ caller[c].at = "edit" /\ caller'[c].at = "bump"
       \/ caller[c].at = "invalidate" /\ caller'[c].at = "apply"
       \/ caller[c].at = "apply" /\ caller'[c].at \in {"apply", "bump"}
       \/ caller[c].at = "bump" /\ caller'[c].at = "drop" /\ caller[c].probe # Place!NoProbe
       \/ caller[c].at = "reassign" /\ caller'[c].at = "sites"
       \/ caller[c].at = "sites" /\ caller'[c].at = "invalidate"
       \/ caller[c].at = "drop" /\ caller'[c].at = "dropped"

\* A request goes on: it is over, or does its next step for the same probe.
LEMMA ProceedMoves ==
    ASSUME Place!TypeOK, NEW c \in Callers, Place!Proceed(c)
    PROVE  /\ \A d \in Callers : d # c => caller'[d] = caller[d]
           /\ caller[c] # Place!NoRequest
           /\ caller'[c] = Place!NoRequest \/ GoesOn(c)
<1> DEFINE Goal == caller'[c] = Place!NoRequest \/ GoesOn(c)
<1> DEFINE Others == \A d \in Callers : d # c => caller'[d] = caller[d]
<1> USE DEF GoesOn
<1>0. caller[c] \in Callings BY DEF Place!TypeOK, Callings
<1>a. ASSUME caller[c].at # "idle" PROVE caller[c] # Place!NoRequest BY <1>a DEF Place!NoRequest
<1>1. ASSUME NEW s \in Sensors, Place!EditSensorSet(c, s) PROVE Others /\ Goal /\ caller[c].at # "idle"
  BY <1>1, GoIs DEF Place!EditSensorSet
<1>2. ASSUME NEW s \in Sensors, Place!Apply(c, s) PROVE Others /\ Goal /\ caller[c].at # "idle"
  <2>1. caller'[c] = [caller[c] EXCEPT !.sensors = @ \ {s}] /\ Others BY <1>2, ThenIs DEF Place!Apply
  <2>2. caller[c].at = "apply" BY <1>2 DEF Place!Apply
  <2> QED BY <1>0, <2>1, <2>2 DEF Callings
<1>3. CASE Place!Invalidate(c)
  <2>1. Others /\ caller'[c] = [caller[c] EXCEPT !.at = "apply",
                        !.sensors = IF caller[c].probe = Place!NoProbe /\ assign.onSite THEN Sensors ELSE @]
    BY <1>3, ThenIs DEF Place!Invalidate, Place!Collect
  <2>2. caller[c].at = "invalidate" BY <1>3 DEF Place!Invalidate
  <2>3. caller'[c].at = "apply" /\ caller'[c].probe = caller[c].probe /\ caller'[c].target = caller[c].target
    BY <1>0, <2>1 DEF Callings
  <2>4. Others /\ Goal /\ caller[c].at # "idle" BY <2>1, <2>2, <2>3
  <2> QED BY <2>4, <1>a
<1>4. CASE Place!Applied(c)
  <2>1. Others /\ Goal /\ caller[c].at # "idle" BY <1>4, GoIs DEF Place!Applied
  <2> QED BY <2>1, <1>a
<1>5. CASE Place!BumpAll(c)
  <2>1. CASE caller[c].probe # Place!NoProbe
    <3>1. Others /\ Goal /\ caller[c].at # "idle" BY <1>5, <2>1, GoIs DEF Place!BumpAll
    <3> QED BY <3>1, <1>a
  <2>2. CASE caller[c].probe = Place!NoProbe
    <3>1. Others /\ Goal /\ caller[c].at # "idle" BY <1>5, <2>2, ThenIs DEF Place!BumpAll
    <3> QED BY <3>1, <1>a
  <2> QED BY <2>1, <2>2
<1>6. CASE Place!Reassign(c)
  <2>1. PICK S : Place!Then(c, [caller[c] EXCEPT !.at = "sites", !.sensors = S]) BY <1>6 DEF Place!Reassign
  <2>2. Others /\ caller'[c] = [caller[c] EXCEPT !.at = "sites", !.sensors = S] BY <2>1, ThenIs
  <2>3. caller'[c].at = "sites" /\ caller'[c].probe = caller[c].probe /\ caller'[c].target = caller[c].target
    BY <1>0, <2>2 DEF Callings
  <2>4. caller[c].at = "reassign" BY <1>6 DEF Place!Reassign
  <2>5. Others /\ Goal /\ caller[c].at # "idle" BY <2>2, <2>3, <2>4
  <2> QED BY <2>5, <1>a
<1>7. CASE Place!ReassignSites(c)
  <2>1. Others /\ Goal /\ caller[c].at # "idle" BY <1>7, GoIs DEF Place!ReassignSites
  <2> QED BY <2>1, <1>a
<1>8. CASE Place!DropProbe(c)
  <2>1. Others /\ Goal /\ caller[c].at # "idle" BY <1>8, GoIs DEF Place!DropProbe
  <2> QED BY <2>1, <1>a
<1>9. CASE Place!Dropped(c)
  <2>1. Others /\ Goal /\ caller[c].at # "idle" BY <1>9, ThenIs DEF Place!Dropped
  <2> QED BY <2>1, <1>a
<1> QED BY <1>a, <1>1, <1>2, <1>3, <1>4, <1>5, <1>6, <1>7, <1>8, <1>9 DEF Place!Proceed

\* A request begins: it deletes a probe, or has none to delete.
LEMMA RequestMoves ==
    ASSUME Place!TypeOK, NEW c \in Callers, Place!Request(c)
    PROVE  /\ \A d \in Callers : d # c => caller'[d] = caller[d]
           /\ caller[c] = Place!NoRequest
           /\ \/ caller'[c] = Place!NoRequest
              \/ caller'[c].probe = Place!NoProbe /\ caller'[c].at \in {"edit", "apply", "invalidate"}
              \/ caller'[c].probe \in Probes /\ caller'[c].at \in {"reassign", "drop"}
<1> DEFINE Others == \A d \in Callers : d # c => caller'[d] = caller[d]
<1>1. ASSUME NEW s \in Sensors, NEW t \in Place!Pins, Place!EditSensor(c, s, t)
      PROVE  Others /\ caller[c] = Place!NoRequest /\ caller'[c].probe = Place!NoProbe /\ caller'[c].at = "edit"
  <2>1. Others /\ caller'[c] = [Place!NoRequest EXCEPT !.at = "edit", !.sensors = {s}, !.target = t, !.was = running[s]]
    BY <1>1, ThenIs DEF Place!EditSensor
  <2>2. caller[c] = Place!NoRequest BY <1>1 DEF Place!EditSensor, Place!Begin
  <2> QED BY <2>1, <2>2 DEF Place!NoRequest
<1>2. ASSUME NEW t \in Place!Pins, NEW b \in BOOLEAN, Place!EditDevice(c, t, b)
      PROVE  Others /\ caller[c] = Place!NoRequest /\ caller'[c].probe = Place!NoProbe /\ caller'[c].at = "apply"
  <2>1. Others /\ caller'[c] = [Place!NoRequest EXCEPT !.at = "apply", !.sensors = Sensors]
    BY <1>2, ThenIs DEF Place!EditDevice
  <2>2. caller[c] = Place!NoRequest BY <1>2 DEF Place!EditDevice, Place!Begin
  <2> QED BY <2>1, <2>2 DEF Place!NoRequest
<1>3. ASSUME NEW t \in Place!Bindings, Place!BindSite(c, t)
      PROVE  Others /\ caller[c] = Place!NoRequest /\ caller'[c].probe = Place!NoProbe /\ caller'[c].at = "invalidate"
  <2>1. Others /\ caller'[c] = [Place!NoRequest EXCEPT !.at = "invalidate"] BY <1>3, ThenIs DEF Place!BindSite
  <2>2. caller[c] = Place!NoRequest BY <1>3 DEF Place!BindSite, Place!Begin
  <2> QED BY <2>1, <2>2 DEF Place!NoRequest
<1>4. ASSUME NEW s \in Sensors, Place!Pause(c, s) \/ Place!Resume(c, s)
      PROVE  Others /\ caller[c] = Place!NoRequest /\ caller'[c] = Place!NoRequest
  BY <1>4 DEF Place!Pause, Place!Resume, Place!Begin
<1>5. CASE Place!DeleteSite(c) BY <1>5 DEF Place!DeleteSite, Place!Begin
<1>6. ASSUME NEW p \in Probes, NEW t \in Place!Pins, Place!DeleteProbe(c, p, t)
      PROVE  Others /\ caller[c] = Place!NoRequest /\ caller'[c].probe \in Probes /\ caller'[c].at \in {"reassign", "drop"}
  <2>1. PICK a \in {"reassign", "drop"} : Place!Then(c, [Place!NoRequest EXCEPT !.probe = p, !.target = t, !.at = a])
    BY <1>6 DEF Place!DeleteProbe
  <2>2. Others /\ caller'[c] = [Place!NoRequest EXCEPT !.probe = p, !.target = t, !.at = a] BY <2>1, ThenIs
  <2>3. caller[c] = Place!NoRequest BY <1>6 DEF Place!DeleteProbe
  <2> QED BY <2>2, <2>3 DEF Place!NoRequest
<1> QED BY <1>1, <1>2, <1>3, <1>4, <1>5, <1>6 DEF Place!Request

\* Only a deletion ever has a probe to delete.
LEMMA RolesStep ==
    ASSUME Place!TypeOK, Roles, Place!Next
    PROVE  Roles'
<1>0. Place!NoRequest.at = "idle" BY DEF Place!NoRequest
<1>1. ASSUME NEW c \in Callers, Place!Request(c) PROVE Roles'
  BY <1>0, <1>1, RequestMoves DEF Roles
<1>2. ASSUME NEW c \in Callers, Place!Proceed(c) PROVE Roles'
  <2>1. caller[c].probe \in Place!Bindings BY DEF Place!TypeOK
  <2>2. caller[c].probe # Place!NoProbe => caller[c].probe \in Probes BY <2>1 DEF Place!Bindings
  <2> QED BY <1>0, <1>2, <2>2, ProceedMoves DEF Roles, GoesOn
<1>3. ASSUME caller' = caller PROVE Roles' BY <1>3 DEF Roles
<1>4. CASE Place!LoadCache \/ Place!Save BY <1>3, <1>4 DEF Place!LoadCache, Place!Save
<1>5. ASSUME NEW s \in Sensors, Place!ChainEnds(s) PROVE Roles' BY <1>3, <1>5 DEF Place!ChainEnds
<1>6. ASSUME NEW p \in Probes, Place!Sync(p) \/ Place!SyncLost(p) PROVE Roles'
  BY <1>3, <1>6 DEF Place!Sync, Place!SyncVersion, Place!SyncList, Place!SyncLost
<1>7. CASE Place!Crash
  <2>1. \A c \in Callers : caller'[c].at = "idle" BY <1>0, <1>7 DEF Place!Crash
  <2> QED BY <2>1 DEF Roles
<1> QED BY <1>1, <1>2, <1>4, <1>5, <1>6, <1>7 DEF Place!Next

\* Two states that name the same.
LEMMA NamesStay ==
    ASSUME Names, caller' = caller, assign' = assign, site' = site, probes' = probes,
           cache' = cache, astray' = astray, unsound' = unsound
    PROVE  Names'
BY DEF Names, Alone, Known, Renamed

\* A lookup, a save and the end of a chain rename nothing.
LEMMA NamesQuiet ==
    ASSUME Place!TypeOK, Names, Place!LoadCache \/ Place!Save \/ \E s \in Sensors : Place!ChainEnds(s)
    PROVE  Names'
<1>1. CASE Place!LoadCache BY <1>1 DEF Place!LoadCache, Place!observed, Names, Alone, Known, Renamed
<1>2. CASE Place!Save BY <1>2, NamesStay DEF Place!Save, Place!memory, Place!observed
<1>3. ASSUME NEW s \in Sensors, Place!ChainEnds(s) PROVE Names'
  BY <1>3, NamesStay DEF Place!ChainEnds, Place!observed
<1> QED BY <1>1, <1>2, <1>3

\* Nor does an agent that pulls.
LEMMA NamesSync ==
    ASSUME Names, NEW p \in Probes, Place!Sync(p) \/ Place!SyncLost(p)
    PROVE  Names'
BY NamesStay DEF Place!Sync, Place!SyncVersion, Place!SyncList, Place!SyncLost, Place!memory, Place!observed

\* A request that deletes nothing may begin only beside others that delete nothing.
LEMMA NoneDeleted ==
    ASSUME ~Place!Deleting, NEW c \in Callers, caller'[c].probe = Place!NoProbe,
           \A d \in Callers : d # c => caller'[d] = caller[d]
    PROVE  Alone' /\ Renamed'
<1>1. \A d \in Callers : caller'[d].probe = Place!NoProbe BY DEF Place!Deleting
<1> QED BY <1>1 DEF Alone, Renamed

\* A new request names probes that are there, and a deletion begins alone.
LEMMA NamesRequest ==
    ASSUME Place!TypeOK, Roles, CacheFits, Names, NEW c \in Callers, Place!Request(c), ~unsound'
    PROVE  Alone' /\ Known' /\ Renamed'
<1>0. Place!NoRequest.at = "idle" /\ Place!NoRequest.probe = Place!NoProbe BY DEF Place!NoRequest
<1>a. ASSUME Place!Begin(c) PROVE Known /\ ~Place!Deleting BY <1>a DEF Place!Begin, Names
<1>b. \A d \in Callers : d # c => caller'[d] = caller[d] BY RequestMoves
<1>1. ASSUME NEW s \in Sensors, NEW t \in Place!Pins, Place!EditSensor(c, s, t) PROVE Alone' /\ Known' /\ Renamed'
  <2>1. caller'[c] = [Place!NoRequest EXCEPT !.at = "edit", !.sensors = {s}, !.target = t, !.was = running[s]]
    BY <1>1, ThenIs DEF Place!EditSensor
  <2>2. caller'[c].probe = Place!NoProbe /\ caller'[c].target = t BY <2>1 DEF Place!NoRequest
  <2>3. astray \subseteq astray' /\ astray' \subseteq Sensors BY <1>1 DEF Place!EditSensor, Place!Disturb, Place!TypeOK
  <2>4. Known /\ ~Place!Deleting BY <1>1, <1>a DEF Place!EditSensor
  <2>5. assign' = assign /\ site' = site /\ cache' = cache /\ probes' = probes
        /\ t \in {Place!NoProbe, "central"} \cup probes
    BY <1>1 DEF Place!EditSensor
  <2>6. Known' BY <1>b, <2>2, <2>3, <2>4, <2>5 DEF Known
  <2> QED BY <1>b, <2>2, <2>4, <2>6, NoneDeleted
<1>2. ASSUME NEW t \in Place!Pins, NEW b \in BOOLEAN, Place!EditDevice(c, t, b) PROVE Alone' /\ Known' /\ Renamed'
  <2>1. caller'[c] = [Place!NoRequest EXCEPT !.at = "apply", !.sensors = Sensors] BY <1>2, ThenIs DEF Place!EditDevice
  <2>2. caller'[c].probe = Place!NoProbe /\ caller'[c].at = "apply" BY <2>1 DEF Place!NoRequest
  <2>3. Known /\ ~Place!Deleting BY <1>2, <1>a DEF Place!EditDevice
  <2>4. assign'.pin = assign.pin /\ assign'.dev = t BY <1>2 DEF Place!EditDevice, Place!TypeOK, Place!Assignments
  <2>5. site' = site /\ cache' = cache /\ probes' = probes /\ astray' = astray
        /\ t \in {Place!NoProbe, "central"} \cup probes
    BY <1>2 DEF Place!EditDevice
  <2>6. Known' BY <1>b, <2>2, <2>3, <2>4, <2>5 DEF Known
  <2> QED BY <1>b, <2>2, <2>3, <2>6, NoneDeleted
<1>3. ASSUME NEW t \in Place!Bindings, Place!BindSite(c, t) PROVE Alone' /\ Known' /\ Renamed'
  <2>1. caller'[c] = [Place!NoRequest EXCEPT !.at = "invalidate"] BY <1>3, ThenIs DEF Place!BindSite
  <2>2. caller'[c].probe = Place!NoProbe /\ caller'[c].at = "invalidate" BY <2>1 DEF Place!NoRequest
  <2>3. Known /\ ~Place!Deleting BY <1>3, <1>a DEF Place!BindSite
  <2>4. assign' = assign /\ site' \in {Place!NoProbe} \cup probes /\ cache' = cache /\ probes' = probes /\ astray' = astray
    BY <1>3 DEF Place!BindSite, Place!memory
  <2>5. Known' BY <1>b, <2>2, <2>3, <2>4 DEF Known
  <2> QED BY <1>b, <2>2, <2>3, <2>5, NoneDeleted
<1>4. ASSUME NEW s \in Sensors, Place!Pause(c, s) \/ Place!Resume(c, s) PROVE Alone' /\ Known' /\ Renamed'
  <2>1. caller' = caller /\ assign' = assign /\ site' = site /\ cache' = cache /\ probes' = probes
    BY <1>4 DEF Place!Pause, Place!Resume
  <2>2. astray \subseteq astray' /\ astray' \subseteq Sensors BY <1>4 DEF Place!Pause, Place!Resume, Place!Disturb, Place!TypeOK
  <2>3. Place!Begin(c) BY <1>4 DEF Place!Pause, Place!Resume
  <2>4. Known /\ ~Place!Deleting BY <1>a, <2>3
  <2>5. Known' BY <2>1, <2>2, <2>4 DEF Known
  <2>6. caller'[c].probe = Place!NoProbe BY <1>0, <2>1, <2>3 DEF Place!Begin
  <2> QED BY <1>b, <2>4, <2>5, <2>6, NoneDeleted
<1>5. CASE Place!DeleteSite(c)
  <2>1. caller' = caller /\ assign' = assign /\ site' = Place!NoProbe /\ cache' = cache /\ probes' = probes
    BY <1>5 DEF Place!DeleteSite, Place!memory
  <2>2. Place!Begin(c) BY <1>5 DEF Place!DeleteSite
  <2>3. Known /\ ~Place!Deleting BY <1>a, <2>2
  <2>4. cache' \in {"none", Place!NoProbe} \cup probes' \/ astray' = Sensors
    <3>1. CASE cache = "none" BY <2>1, <3>1
    <3>2. CASE cache # "none" BY <1>5, <3>2 DEF Place!DeleteSite
    <3> QED BY <3>1, <3>2
  <2>5. Known' BY <2>1, <2>3, <2>4 DEF Known
  <2>6. caller'[c].probe = Place!NoProbe BY <1>0, <2>1, <2>2 DEF Place!Begin
  <2> QED BY <1>b, <2>3, <2>5, <2>6, NoneDeleted
<1>6. ASSUME NEW p \in Probes, NEW t \in Place!Pins, Place!DeleteProbe(c, p, t) PROVE Alone' /\ Known' /\ Renamed'
  <2>1. ~unsound /\ Place!Current /\ Place!NoRequests BY <1>6 DEF Place!DeleteProbe
  <2>2. \A d \in Callers : d # c => caller'[d] = Place!NoRequest BY <1>b, <2>1 DEF Place!NoRequests
  <2>3. assign' = assign /\ site' = site /\ cache' = cache /\ probes' = probes /\ astray' = astray
    BY <1>6 DEF Place!DeleteProbe, Place!memory
  <2> DEFINE named == Place!Refers(saved.assign, p) \/ site = p
  <2>4. caller'[c] = [Place!NoRequest EXCEPT !.probe = p, !.target = t, !.at = IF named THEN "reassign" ELSE "drop"]
    BY <1>6, ThenIs DEF Place!DeleteProbe
  <2>5. caller'[c].probe = p /\ caller'[c].target = t
        /\ caller'[c].at = IF named THEN "reassign" ELSE "drop"
    BY <2>4 DEF Place!NoRequest
  <2>6. Alone' BY <2>2, <1>0 DEF Alone
  <2>7. Known' BY <1>0, <2>1, <2>2, <2>3, <2>5 DEF Known, Names
  <2>8. t \in {"central"} \cup (probes \ {p}) /\ saved.assign = assign BY <1>6, <2>1 DEF Place!DeleteProbe, Place!Current
  <2>9. Renamed'
    <3>1. ~named => ~Place!Refers(assign', p) /\ site' # p BY <2>3, <2>8
    <3>2. caller'[c].at \in {"reassign", "drop"} /\ (caller'[c].at # "reassign" => ~named) BY <2>5
    <3>3. \A d \in Callers : d # c => caller'[d].probe = Place!NoProbe BY <1>0, <2>2
    <3> QED BY <2>3, <2>5, <2>8, <3>1, <3>2, <3>3 DEF Renamed
  <2> QED BY <2>6, <2>7, <2>9
<1> QED BY <1>1, <1>2, <1>3, <1>4, <1>5, <1>6 DEF Place!Request

\* Who goes on beside a deletion is the deletion.
LEMMA AloneProceed ==
    ASSUME Place!TypeOK, Alone, NEW c \in Callers, Place!Proceed(c)
    PROVE  Alone' /\ \A d \in Callers : d # c => caller[d].probe = Place!NoProbe /\ caller'[d] = caller[d]
<1>0. Place!NoRequest.probe = Place!NoProbe BY DEF Place!NoRequest
<1>1. \A d \in Callers : d # c => caller'[d] = caller[d] BY ProceedMoves
<1>2. caller[c] # Place!NoRequest BY ProceedMoves
<1>3. \A d \in Callers : d # c => caller[d].probe = Place!NoProbe BY <1>2 DEF Alone
<1>4. caller'[c] = Place!NoRequest \/ caller'[c].probe = caller[c].probe BY ProceedMoves DEF GoesOn
<1>5. ASSUME NEW a \in Callers, NEW b \in Callers, caller'[a].probe # Place!NoProbe, b # a
      PROVE  caller'[b] = Place!NoRequest
  <2>1. a = c BY <1>1, <1>3, <1>5
  <2>2. caller[c].probe # Place!NoProbe BY <1>0, <1>4, <1>5, <2>1
  <2> QED BY <1>1, <1>5, <2>1, <2>2 DEF Alone
<1> QED BY <1>1, <1>3, <1>5 DEF Alone

\* A deletion renames all that names its probe before the probe goes.
LEMMA NamesProceed ==
    ASSUME Place!PlacementAssumption, Place!TypeOK, Roles, CacheFits, Names, NEW c \in Callers, Place!Proceed(c), ~unsound'
    PROVE  Alone' /\ Known' /\ Renamed'
<1>0. ~unsound
  BY DEF Place!Proceed, Place!EditSensorSet, Place!Apply, Place!Invalidate, Place!Applied, Place!BumpAll,
         Place!Reassign, Place!ReassignSites, Place!DropProbe, Place!Dropped, Place!observed
<1>1. Alone /\ Known /\ Renamed BY <1>0 DEF Names
<1>2. Alone' /\ \A d \in Callers : d # c => caller[d].probe = Place!NoProbe /\ caller'[d] = caller[d]
  BY <1>1, AloneProceed
<1>3. Place!NoRequest.at = "idle" /\ Place!NoRequest.probe = Place!NoProbe BY DEF Place!NoRequest
<1>4. caller'[c] = Place!NoRequest \/ GoesOn(c) BY ProceedMoves
<1>5. caller'[c].at # "edit" BY <1>3, <1>4 DEF GoesOn
\* What is known of the names, if the step renames nothing.
<1>6. ASSUME assign' = assign, site' = site, probes' = probes, astray' = astray, cache' \in {cache, "none"}
      PROVE  Known'
  BY <1>1, <1>2, <1>5, <1>6 DEF Known
\* What is known of the deletion, by its next step.
<1>7. ASSUME caller'[c].probe # Place!NoProbe =>
               /\ caller'[c].at \in {"reassign", "sites"} =>
                     caller'[c].target \in {"central"} \cup (probes' \ {caller'[c].probe})
               /\ caller'[c].at # "reassign" => ~Place!Refers(assign', caller'[c].probe)
               /\ caller'[c].at \notin {"reassign", "sites"} => site' # caller'[c].probe
      PROVE  Renamed'
  BY <1>2, <1>7 DEF Renamed
<1>8. ASSUME assign' = assign, site' = site, probes' = probes,
             caller[c].at \in {"invalidate", "apply", "bump", "dropped"}
      PROVE  Renamed'
  BY <1>1, <1>3, <1>4, <1>7, <1>8 DEF Renamed, GoesOn
<1>9. ASSUME NEW s \in Sensors, Place!EditSensorSet(c, s) PROVE Known' /\ Renamed'
  <2>1. caller[c].at = "edit" /\ caller[c].probe = Place!NoProbe BY <1>9 DEF Place!EditSensorSet, Roles
  <2>2. caller[c].target \in {Place!NoProbe, "central"} \cup probes BY <1>1, <2>1 DEF Known
  <2>3. assign' = [assign EXCEPT !.pin[s] = caller[c].target] /\ site' = site /\ probes' = probes
        /\ cache' = cache /\ astray' = astray
    BY <1>9 DEF Place!EditSensorSet, Place!observed
  <2>4. assign'.dev = assign.dev /\ \A x \in Sensors : assign'.pin[x] \in {assign.pin[x], caller[c].target}
    BY <2>3 DEF Place!TypeOK, Place!Assignments
  <2>5. Known' BY <1>1, <1>2, <1>5, <2>2, <2>3, <2>4 DEF Known
  <2>6. caller'[c].probe = Place!NoProbe BY <1>3, <1>4, <2>1 DEF GoesOn
  <2> QED BY <1>7, <2>5, <2>6
<1>10. ASSUME NEW s \in Sensors, Place!Apply(c, s) PROVE Known' /\ Renamed'
  BY <1>6, <1>8, <1>10 DEF Place!Apply, Place!observed
<1>11. CASE Place!Invalidate(c) BY <1>2, <1>6, <1>8, <1>11 DEF Place!Invalidate, Place!observed
<1>12. CASE Place!Applied(c) BY <1>2, <1>6, <1>8, <1>12 DEF Place!Applied, Place!memory, Place!observed
<1>13. CASE Place!BumpAll(c) BY <1>2, <1>6, <1>8, <1>13 DEF Place!BumpAll, Place!memory, Place!observed
<1>14. CASE Place!Reassign(c)
  <2> DEFINE p == caller[c].probe
  <2> DEFINE t == caller[c].target
  <2>1. caller[c].at = "reassign" /\ p \in Probes BY <1>14 DEF Place!Reassign, Roles
  <2>2. p # Place!NoProbe /\ p # "central" BY <2>1 DEF Place!PlacementAssumption
  <2>3. t \in {"central"} \cup (probes \ {p}) BY <1>1, <2>1, <2>2 DEF Renamed
  <2>4. assign' = Place!Reassigned(assign, p, t) /\ site' = site /\ probes' = probes /\ cache' = cache
    BY <1>14 DEF Place!Reassign
  <2>5. assign'.dev = (IF assign.dev = p THEN t ELSE assign.dev)
        /\ \A s \in Sensors : assign'.pin[s] = IF assign.pin[s] = p THEN t ELSE assign.pin[s]
    BY <2>4 DEF Place!Reassigned, Place!TypeOK, Place!Assignments
  <2>6. astray \subseteq astray' /\ astray' \subseteq Sensors BY <1>14 DEF Place!Reassign, Place!TypeOK
  <2>7. Known' BY <1>1, <1>2, <1>5, <2>3, <2>4, <2>5, <2>6 DEF Known
  <2>8. \/ caller'[c].probe = p /\ caller'[c].target = t /\ caller'[c].at = "sites"
        \/ caller'[c] = Place!NoRequest
    BY <1>4, <2>1 DEF GoesOn
  <2>9. ~Place!Refers(assign', p) BY <2>2, <2>3, <2>5 DEF Place!Refers
  <2>10. Renamed' BY <1>3, <1>7, <2>3, <2>4, <2>8, <2>9
  <2> QED BY <1>2, <2>7, <2>10
<1>15. CASE Place!ReassignSites(c)
  <2> DEFINE p == caller[c].probe
  <2> DEFINE t == caller[c].target
  <2>1. caller[c].at = "sites" /\ p \in Probes BY <1>15 DEF Place!ReassignSites, Roles
  <2>2. p # Place!NoProbe /\ p # "central" BY <2>1 DEF Place!PlacementAssumption
  <2>3. t \in {"central"} \cup (probes \ {p}) /\ ~Place!Refers(assign, p) BY <1>1, <2>1, <2>2 DEF Renamed
  <2>4. site' = (IF site = p THEN Place!Central(t) ELSE site) /\ assign' = assign /\ cache' = cache
        /\ probes' = probes /\ astray' = astray
    BY <1>15 DEF Place!ReassignSites, Place!memory, Place!observed
  <2>5. site' # p /\ site' \in {Place!NoProbe} \cup probes BY <1>1, <2>2, <2>3, <2>4 DEF Place!Central, Known
  <2>6. Known' BY <1>1, <1>2, <1>5, <2>4, <2>5 DEF Known
  <2>7. (caller'[c].probe = p /\ caller'[c].at = "invalidate") \/ caller'[c] = Place!NoRequest
    BY <1>4, <2>1 DEF GoesOn
  <2>8. Renamed' BY <1>3, <1>7, <2>3, <2>4, <2>5, <2>7
  <2> QED BY <1>2, <2>6, <2>8
<1>16. CASE Place!DropProbe(c)
  <2> DEFINE p == caller[c].probe
  <2>1. caller[c].at = "drop" /\ p \in Probes BY <1>16 DEF Place!DropProbe, Roles
  <2>2. p # Place!NoProbe /\ p # "central" /\ p # "none" BY <2>1 DEF Place!PlacementAssumption
  <2>3. ~Place!Refers(assign, p) /\ site # p BY <1>1, <2>1, <2>2 DEF Renamed
  <2>4. probes' = probes \ {p} /\ assign' = assign /\ site' = site /\ cache' = cache /\ astray' = astray
    BY <1>16 DEF Place!DropProbe, Place!memory, Place!observed
  <2>5. \A d \in Callers : caller[d].at # "invalidate" /\ (d # c => caller[d].at # "edit")
    BY <1>1, <1>3, <2>1, <2>2 DEF Alone
  <2>6. cache \in {"none", site} \/ astray = Sensors BY <2>5 DEF CacheFits
  <2>7. Known' BY <1>1, <1>2, <1>5, <2>3, <2>4, <2>5, <2>6 DEF Known, Place!Refers
  <2>8. (caller'[c].probe = p /\ caller'[c].at = "dropped") \/ caller'[c] = Place!NoRequest
    BY <1>4, <2>1 DEF GoesOn
  <2>9. Renamed' BY <1>3, <1>7, <2>3, <2>4, <2>8
  <2> QED BY <1>2, <2>7, <2>9
<1>17. CASE Place!Dropped(c) BY <1>2, <1>6, <1>8, <1>17 DEF Place!Dropped, Place!observed
<1> QED BY <1>2, <1>9, <1>10, <1>11, <1>12, <1>13, <1>14, <1>15, <1>16, <1>17 DEF Place!Proceed

\* A restart finds in the tables what was in memory.
LEMMA NamesCrash ==
    ASSUME Names, Place!Crash, ~unsound'
    PROVE  Alone' /\ Known' /\ Renamed'
<1>1. ~unsound /\ assign' = assign BY DEF Place!Crash, Place!Current
<1>2. Known BY <1>1 DEF Names
<1>3. \A c \in Callers : caller'[c] = Place!NoRequest BY DEF Place!Crash
<1>4. Place!NoRequest.at = "idle" /\ Place!NoRequest.probe = Place!NoProbe BY DEF Place!NoRequest
<1>5. site' = site /\ probes' = probes /\ cache' = "none" BY DEF Place!Crash
<1> QED BY <1>1, <1>2, <1>3, <1>4, <1>5 DEF Alone, Known, Renamed

\* The names are known after every step.
LEMMA NamesStep ==
    ASSUME Place!PlacementAssumption, Place!TypeOK, Roles, CacheFits, Names, Place!Next
    PROVE  Names'
<1>1. ASSUME NEW c \in Callers, Place!Request(c) PROVE Names' BY <1>1, NamesRequest DEF Names
<1>2. ASSUME NEW c \in Callers, Place!Proceed(c) PROVE Names' BY <1>2, NamesProceed DEF Names
<1>3. CASE Place!Crash BY <1>3, NamesCrash DEF Names
<1> QED BY <1>1, <1>2, <1>3, NamesQuiet, NamesSync DEF Place!Next

-----------------------------------------------------------------------------
(* The invariant.                                                          *)

\* The invariant holds at first ...
LEMMA InitPInv == ASSUME Place!PlacementAssumption PROVE Place!Init => PInv
<1> SUFFICES ASSUME Place!Init PROVE PInv
  OBVIOUS
<1>1. Place!TypeOK BY InitPlaced
<1>2. \A c \in Callers : caller[c] = Place!NoRequest BY DEF Place!Init
<1>3. Place!NoRequest.at = "idle" /\ Place!NoRequest.probe = Place!NoProbe BY DEF Place!NoRequest
<1>4. CacheFits BY DEF Place!Init, CacheFits
<1>5. ListsFit BY <1>1 DEF Place!Init, ListsFit, Place!TypeOK
<1>6. Roles BY <1>2, <1>3 DEF Roles
<1>7. probes = Probes /\ cache = "none" BY DEF Place!Init
<1>8. Known BY <1>1, <1>2, <1>3, <1>7 DEF Known, Place!TypeOK, Place!Assignments, Place!Pins, Place!Bindings
<1>9. Names BY <1>2, <1>3, <1>8 DEF Names, Alone, Renamed
<1> QED BY <1>1, <1>4, <1>5, <1>6, <1>9 DEF PInv

\* ... and through every step ...
LEMMA StepPInv ==
    ASSUME Place!PlacementAssumption, PInv, [Place!Next]_(Place!vars)
    PROVE  PInv'
<1>1. Place!TypeOK /\ CacheFits /\ ListsFit /\ Roles /\ Names BY DEF PInv
<1>2. Place!TypeOK' BY <1>1, StepPlaced
<1>3. CASE Place!Next BY <1>1, <1>2, <1>3, CacheStep, ListsStep, RolesStep, NamesStep DEF PInv
<1>4. CASE UNCHANGED Place!vars
  <2>1. /\ caller' = caller /\ assign' = assign /\ site' = site /\ probes' = probes /\ cache' = cache
        /\ astray' = astray /\ unsound' = unsound /\ running' = running /\ list' = list
        /\ behind' = behind /\ missed' = missed
    BY <1>4 DEF Place!vars, Place!memory, Place!agents, Place!observed
  <2>2. Place!Binding' = Place!Binding BY <2>1 DEF Place!Binding
  <2>3. \A s \in Sensors : Place!Probe(s)' = Place!Probe(s) BY <2>1, <2>2, SameProbe
  <2>4. ListsFit' BY <1>1, <2>1, <2>3, ListsStay DEF Changing
  <2>5. CacheFits' /\ Roles' BY <1>1, <2>1 DEF CacheFits, Roles
  <2>6. Names' BY <1>1, <2>1, NamesStay
  <2> QED BY <1>2, <2>4, <2>5, <2>6 DEF PInv
<1> QED BY <1>3, <1>4

\* ... hence always.
LEMMA PInvAlways == ASSUME Place!PlacementAssumption PROVE Place!Spec => []PInv
<1>1. Place!Init => PInv BY InitPInv
<1>2. PInv /\ [Place!Next]_(Place!vars) => PInv' BY StepPInv
<1> QED BY <1>1, <1>2, PTL DEF Place!Spec

\* Whatever is known by name is there, and so is the probe of a sensor.
LEMMA NoGhostNow ==
    ASSUME PInv
    PROVE  Place!NoGhost
<1> SUFFICES ASSUME ~unsound, NEW s \in Sensors \ astray
             PROVE  Place!Probe(s) \in {Place!NoProbe} \cup probes
  BY DEF Place!NoGhost
<1>1. Known /\ astray # Sensors BY DEF PInv, Names
<1>2. Place!Binding \in {Place!NoProbe} \cup probes BY <1>1 DEF Place!Binding, Known
<1>3. assign.pin[s] \in {Place!NoProbe, "central"} \cup probes /\ assign.dev \in {Place!NoProbe, "central"} \cup probes
  BY <1>1 DEF Known
<1> QED BY <1>2, <1>3 DEF Place!Probe, Place!Effective, Place!Central

\* AgentIsCurrent: between requests, a probe that is not told to pull anew (config_version)
\* measures what the server would hand out, however requests, pulls and restarts interleave.
THEOREM AgentsAlwaysCurrent == ASSUME Place!PlacementAssumption PROVE Place!Spec => []Place!AgentIsCurrent
<1>1. PInv => Place!AgentIsCurrent
  BY DEF PInv, ListsFit, Place!AgentIsCurrent, Place!NoRequests, Place!NoRequest, Changing
<1> QED BY <1>1, PInvAlways, PTL

\* NoGhost: a deletion in routes/probes.py that runs alone, on up-to-date tables, leaves no
\* sensor with the deleted probe, whatever the cascade and the cache held.
THEOREM NeverAGhost == ASSUME Place!PlacementAssumption PROVE Place!Spec => []Place!NoGhost
<1>1. PInv => Place!NoGhost BY NoGhostNow
<1> QED BY <1>1, PInvAlways, PTL
=============================================================================
