------------------------------ MODULE Placement ------------------------------
(***************************************************************************)
(* Who measures a sensor: the cascade sensor, device, site of              *)
(* core/probe_assign.py with its cache, the requests that change it        *)
(* (routes/probes.py, sites.py, devices.py), what apply_probe_assignment   *)
(* makes of it, the configuration the remote probes pull                   *)
(* (routes/agent.py, agent/agent.py), and a restart from the tables.       *)
(*                                                                         *)
(* One device, on one site or on none.  Versions of the configuration are  *)
(* compared for equality only and never come back, so a probe is "behind"  *)
(* or not.  A central chain is there or not: SensorChains has its detail.  *)
(***************************************************************************)
EXTENDS Naturals, FiniteSets

CONSTANTS Sensors, Probes,
          Callers,     \* request-handler threads
          Starts,      \* what the tables hold at first: <<assign, site>>
          MaxRequests  \* bound: requests and crashes

NoProbe     == "no probe"  \* the empty probe_id: nothing pinned or bound, or the centre
Pins        == {NoProbe, "central"} \cup Probes
Bindings    == {NoProbe} \cup Probes
Assignments == [pin : [Sensors -> Pins], dev : Pins, onSite : BOOLEAN]

ASSUME PlacementAssumption ==
    /\ MaxRequests \in Nat
    /\ \A start \in Starts : start[1] \in Assignments /\ start[2] \in Bindings
    /\ {NoProbe, "central", "none"} \cap Probes = {}

VARIABLES
    assign,    \* in memory: probe_id of sensors and device, is the device on the site?
    running,   \* Sensor.running
    mode,      \* Sensor._sched_mode
    chain,     \* is there a central probe chain?
    saved,     \* what the tables of devices and sensors hold of these
    site,      \* sites.probe_id
    cache,     \* _site_map: unset, or the binding of the site
    probes,    \* rows of the table of probes
    behind,    \* probes whose version of the configuration is not the server's
    list,      \* the sensors each agent measures
    sync,      \* its request for the configuration
    missed,    \* observed: probes a crash left with a list nobody bumps
    caller,    \* what each request does next
    requests,
    astray,    \* observed: sensors whose site lost its probe without notice, or
               \* that two requests stopped, edited or started at once
    unsound    \* observed: a probe was deleted in the middle of another request, or
               \* the tables were not what is in memory, then or at a restart

memory   == <<assign, running, mode, chain, cache>>
agents   == <<behind, list, sync, missed>>
observed == <<astray, unsound>>
vars     == <<memory, saved, site, probes, agents, caller, requests, observed>>

NoRequest   == [at |-> "idle", sensors |-> {}, target |-> NoProbe, probe |-> NoProbe, was |-> FALSE]

TypeOK ==
    /\ assign \in Assignments /\ saved \in [assign : Assignments, running : [Sensors -> BOOLEAN]]
    /\ running \in [Sensors -> BOOLEAN] /\ chain \in [Sensors -> BOOLEAN]
    /\ mode \in [Sensors -> {"central", "probe"}]
    /\ site \in Bindings /\ cache \in Bindings \cup {"none"}
    /\ probes \subseteq Probes /\ behind \subseteq Probes /\ missed \subseteq Probes
    /\ list \in [Probes -> SUBSET Sensors]
    /\ sync \in [Probes -> {"idle", "fresh", "outrun"}]
    /\ caller \in [Callers -> [at : {"idle", "edit", "invalidate", "apply", "bump", "reassign", "sites", "drop", "dropped"},
                               sensors : SUBSET Sensors, target : Pins, probe : Bindings, was : BOOLEAN]]
    /\ requests \in 0..MaxRequests /\ astray \subseteq Sensors /\ unsound \in BOOLEAN

-----------------------------------------------------------------------------
(* The cascade.                                                            *)

\* A bug: the name of the centre is passed on.
CentralKept(p) == p

Central(p) == IF p = "central" THEN NoProbe ELSE p

Effective(a, binding, s) ==
    CASE a.pin[s] # NoProbe -> Central(a.pin[s])
      [] a.pin[s] = NoProbe /\ a.dev # NoProbe -> Central(a.dev)
      [] OTHER -> IF a.onSite THEN binding ELSE NoProbe

\* The binding of the site as a lookup finds it.
Binding == IF cache = "none" THEN site ELSE cache
Probe(s) == Effective(assign, Binding, s)

\* What GET /api/agent/config hands out.
Wanted(p) == {s \in Sensors : running[s] /\ Probe(s) = p}

Init ==
    /\ \E start \in Starts : assign = start[1] /\ site = start[2]
    /\ cache = "none"
    /\ running = [s \in Sensors |-> TRUE]
    /\ mode = [s \in Sensors |-> IF Probe(s) = NoProbe THEN "central" ELSE "probe"]
    /\ chain = [s \in Sensors |-> Probe(s) = NoProbe]
    /\ saved = [assign |-> assign, running |-> running]
    /\ probes = Probes /\ behind = {} /\ missed = {}
    /\ list = [p \in Probes |-> Wanted(p)]
    /\ sync = [p \in Probes |-> "idle"]
    /\ caller = [c \in Callers |-> NoRequest]
    /\ requests = 0 /\ astray = {} /\ unsound = FALSE

\* _get_site_map, at any lookup.
LoadCache ==
    /\ cache = "none" /\ cache' = site
    /\ UNCHANGED <<assign, running, mode, chain, saved, site, probes, agents, caller, requests, observed>>

\* A cycle that finds its sensor stopped or handed over ends the chain.
ChainEnds(s) ==
    /\ chain[s] /\ (~running[s] \/ Probe(s) # NoProbe)
    /\ chain' = [chain EXCEPT ![s] = FALSE]
    /\ mode' = IF running[s] THEN [mode EXCEPT ![s] = "probe"] ELSE mode
    /\ UNCHANGED <<assign, running, cache, saved, site, probes, agents, caller, requests, observed>>

\* Autosave, and the save each request queues.
Save ==
    /\ saved # [assign |-> assign, running |-> running]
    /\ saved' = [assign |-> assign, running |-> running]
    /\ UNCHANGED <<memory, site, probes, agents, caller, requests, observed>>

-----------------------------------------------------------------------------
(* The agents.                                                             *)

\* The versions of these probes move on.
Bump(P) ==
    /\ behind' = behind \cup P
    /\ sync' = [p \in Probes |-> IF p \in P /\ sync[p] = "fresh" THEN "outrun" ELSE sync[p]]
    /\ missed' = missed \ P
    /\ UNCHANGED list

\* A check-in told the agent of another version.  The row of the probe, with
\* the version, is read first ...
SyncVersion(p) ==
    /\ p \in probes \cap behind /\ sync[p] = "idle"
    /\ sync' = [sync EXCEPT ![p] = "fresh"]
    /\ UNCHANGED <<behind, list, missed, memory, saved, site, probes, caller, requests, observed>>

\* ... then the list is built, and the agent measures by it; a new version
\* since then makes it pull again.  Building and applying are one step: what
\* happens between the two has the same outcome after it.
SyncList(p) ==
    /\ sync[p] # "idle"
    /\ list' = [list EXCEPT ![p] = Wanted(p)]
    /\ behind' = IF sync[p] = "fresh" THEN behind \ {p} ELSE behind
    /\ sync' = [sync EXCEPT ![p] = "idle"]
    /\ UNCHANGED <<missed, memory, saved, site, probes, caller, requests, observed>>

SyncLost(p) ==
    /\ sync[p] # "idle" /\ sync' = [sync EXCEPT ![p] = "idle"]
    /\ UNCHANGED <<behind, list, missed, memory, saved, site, probes, caller, requests, observed>>

-----------------------------------------------------------------------------
(* The requests.                                                           *)

NoRequests == \A c \in Callers : caller[c] = NoRequest
Current    == saved.assign = assign
Deleting   == \E c \in Callers : caller[c].probe # NoProbe
Begin(c) ==
    /\ caller[c] = NoRequest /\ requests < MaxRequests /\ requests' = requests + 1
    /\ unsound' = (unsound \/ Deleting)
Then(c, r) == caller' = [caller EXCEPT ![c] = r]
Go(c, at) == Then(c, [caller[c] EXCEPT !.at = at])

\* start_sensor, for sensors that are not running.
Start(S, a) ==
    /\ running' = [s \in Sensors |-> running[s] \/ s \in S]
    /\ mode' = [s \in Sensors |-> IF s \in S /\ ~running[s]
                                  THEN IF Effective(a, Binding, s) = NoProbe THEN "central" ELSE "probe"
                                  ELSE mode[s]]
    /\ chain' = [s \in Sensors |-> chain[s] \/ (s \in S /\ ~running[s] /\ Effective(a, Binding, s) = NoProbe)]

\* PATCH of a sensor with a probe_id: update_sensor stops the sensor ...
Disturb(s) ==
    astray' = IF \E c \in Callers : caller[c].at = "edit" /\ s \in caller[c].sensors
              THEN astray \cup {s} ELSE astray

EditSensor(c, s, t) ==
    /\ Begin(c) /\ t \in {NoProbe, "central"} \cup probes /\ t # assign.pin[s]
    /\ running' = [running EXCEPT ![s] = FALSE]
    /\ Then(c, [NoRequest EXCEPT !.at = "edit", !.sensors = {s}, !.target = t, !.was = running[s]])
    /\ Disturb(s)
    /\ UNCHANGED <<assign, mode, chain, cache, saved, site, probes, agents>>

\* ... edits it and starts it again; every probe is to pull anew.
EditSensorSet(c, s) ==
    /\ caller[c].at = "edit" /\ s \in caller[c].sensors
    /\ assign' = [assign EXCEPT !.pin[s] = caller[c].target]
    /\ Start(IF caller[c].was THEN {s} ELSE {}, assign')
    /\ Go(c, "bump")
    /\ UNCHANGED <<cache, saved, site, probes, agents, requests, observed>>

\* PATCH of the device: probe_id or site.
EditDevice(c, t, onSite) ==
    /\ Begin(c) /\ t \in {NoProbe, "central"} \cup probes
    /\ <<t, onSite>> # <<assign.dev, assign.onSite>>
    /\ assign' = [assign EXCEPT !.dev = t, !.onSite = onSite]
    /\ Then(c, [NoRequest EXCEPT !.at = "apply", !.sensors = Sensors])
    /\ UNCHANGED <<running, mode, chain, cache, saved, site, probes, agents, astray>>

\* PATCH of the site's probe_id.
BindSite(c, t) ==
    /\ Begin(c) /\ t \in {NoProbe} \cup probes /\ t # site
    /\ site' = t
    /\ Then(c, [NoRequest EXCEPT !.at = "invalidate"])
    /\ UNCHANGED <<memory, saved, probes, agents, astray>>

\* DELETE of the site leaves the cache alone: until that is dropped, a lookup
\* may send any sensor to the probe the site had.
DeleteSite(c) ==
    /\ Begin(c) /\ site # NoProbe /\ site' = NoProbe
    /\ astray' = IF cache # "none" THEN Sensors
                 ELSE astray \cup {s \in Sensors : Probe(s) # Effective(assign, NoProbe, s)}
    /\ UNCHANGED <<memory, saved, probes, agents, caller>>

\* The sensors to apply to: those reassigned, or those now on the site.
Collect(c) ==
    Then(c, [caller[c] EXCEPT !.at = "apply",
               !.sensors = IF caller[c].probe = NoProbe /\ assign.onSite THEN Sensors ELSE @])

\* A bug: the cache of the bindings is not dropped.
InvalidateNot(c) ==
    /\ caller[c].at = "invalidate" /\ Collect(c)
    /\ UNCHANGED <<memory, saved, site, probes, agents, requests, observed>>

Invalidate(c) ==
    /\ caller[c].at = "invalidate"
    /\ cache' = "none" /\ Collect(c)
    /\ UNCHANGED <<assign, running, mode, chain, saved, site, probes, agents, requests, observed>>

\* apply_probe_assignment, one sensor: hand over, take back, or leave alone.
Apply(c, s) ==
    /\ caller[c].at = "apply" /\ s \in caller[c].sensors
    /\ Then(c, [caller[c] EXCEPT !.sensors = @ \ {s}])
    /\ CASE Probe(s) # NoProbe /\ mode[s] = "central" ->
              /\ mode' = [mode EXCEPT ![s] = "probe"] /\ chain' = [chain EXCEPT ![s] = FALSE]
         [] Probe(s) = NoProbe /\ mode[s] = "probe" ->
              /\ mode' = [mode EXCEPT ![s] = "central"]
              /\ chain' = [chain EXCEPT ![s] = running[s]]
         [] OTHER -> UNCHANGED <<mode, chain>>
    /\ UNCHANGED <<assign, running, cache, saved, site, probes, agents, requests, observed>>

Applied(c) ==
    /\ caller[c].at = "apply" /\ caller[c].sensors = {} /\ Go(c, "bump")
    /\ UNCHANGED <<memory, saved, site, probes, agents, requests, observed>>

\* A bug: only the probe the sensors went to is told.
BumpTarget(c) ==
    /\ caller[c].at = "bump" /\ Bump({caller[c].target} \cap probes)
    /\ IF caller[c].probe # NoProbe THEN Go(c, "drop") ELSE Then(c, NoRequest)
    /\ UNCHANGED <<memory, saved, site, probes, requests, observed>>

\* _bump_all_probe_configs.
BumpAll(c) ==
    /\ caller[c].at = "bump" /\ Bump(probes)
    /\ IF caller[c].probe # NoProbe THEN Go(c, "drop") ELSE Then(c, NoRequest)
    /\ UNCHANGED <<memory, saved, site, probes, requests, observed>>

\* stop_sensor or start_sensor, and the version of the probe concerned.
Pause(c, s) ==
    /\ Begin(c) /\ running[s]
    /\ running' = [running EXCEPT ![s] = FALSE] /\ chain' = [chain EXCEPT ![s] = FALSE]
    /\ Bump({Probe(s)} \cap probes)
    /\ UNCHANGED <<assign, mode, cache, saved, site, probes, caller, astray>>

Resume(c, s) ==
    /\ Begin(c) /\ ~running[s]
    /\ Start({s}, assign) /\ Bump({Probe(s)} \cap probes) /\ Disturb(s)
    /\ UNCHANGED <<assign, cache, saved, site, probes, caller>>

\* DELETE of a probe: the tables say whether anything refers to it.
Refers(a, p) == a.dev = p \/ \E s \in Sensors : a.pin[s] = p

DeleteProbe(c, p, t) ==
    /\ caller[c] = NoRequest /\ requests < MaxRequests /\ requests' = requests + 1
    /\ p \in probes /\ t \in {"central"} \cup (probes \ {p})
    /\ Then(c, [NoRequest EXCEPT !.probe = p, !.target = t,
                   !.at = IF Refers(saved.assign, p) \/ site = p THEN "reassign" ELSE "drop"])
    /\ unsound' = (unsound \/ ~Current \/ ~NoRequests)
    /\ UNCHANGED <<memory, saved, site, probes, agents, astray>>

\* A bug: the pin of the device is forgotten.
ReassignedSensors(a, p, t) ==
    [a EXCEPT !.pin = [s \in Sensors |-> IF a.pin[s] = p THEN t ELSE a.pin[s]]]

Reassigned(a, p, t) ==
    [a EXCEPT !.dev = IF @ = p THEN t ELSE @,
              !.pin = [s \in Sensors |-> IF a.pin[s] = p THEN t ELSE a.pin[s]]]

\* _reassign_in_memory: the sensors that name the probe, or whose device does.
Reassign(c) ==
    /\ caller[c].at = "reassign"
    /\ LET p == caller[c].probe
           affected == {s \in Sensors : assign.pin[s] = p \/ assign.dev = p}
       IN /\ assign' = Reassigned(assign, p, caller[c].target)
          /\ astray' = astray \cup ({s \in Sensors : Probe(s) = p} \ affected)
          /\ Then(c, [caller[c] EXCEPT !.at = "sites", !.sensors = affected])
    /\ UNCHANGED <<running, mode, chain, cache, saved, site, probes, agents, requests, unsound>>

ReassignSites(c) ==
    /\ caller[c].at = "sites"
    /\ site' = IF site = caller[c].probe THEN Central(caller[c].target) ELSE site
    /\ Go(c, "invalidate")
    /\ UNCHANGED <<memory, saved, probes, agents, requests, observed>>

DropProbe(c) ==
    /\ caller[c].at = "drop"
    /\ probes' = probes \ {caller[c].probe} /\ Go(c, "dropped")
    /\ UNCHANGED <<memory, saved, site, agents, requests, observed>>

Dropped(c) ==
    /\ caller[c].at = "dropped"
    /\ cache' = "none" /\ Then(c, NoRequest)
    /\ UNCHANGED <<assign, running, mode, chain, saved, site, probes, agents, requests, observed>>

\* The server dies and starts from the tables; start_sensor for every sensor
\* that is to run.
Crash ==
    /\ requests < MaxRequests /\ requests' = requests + 1
    /\ assign' = saved.assign /\ running' = saved.running /\ cache' = "none"
    /\ mode' = [s \in Sensors |-> IF running'[s] /\ Effective(assign', site, s) # NoProbe THEN "probe" ELSE "central"]
    /\ chain' = [s \in Sensors |-> running'[s] /\ Effective(assign', site, s) = NoProbe]
    /\ behind' = behind \cup (probes \cap {Effective(assign', site, s) : s \in {x \in Sensors : running'[x]}})
    /\ sync' = [p \in Probes |-> "idle"]
    /\ caller' = [c \in Callers |-> NoRequest]
    /\ missed' = IF NoRequests /\ astray = {} /\ saved = [assign |-> assign, running |-> running]
                 THEN missed \ behind' ELSE Probes \ behind'
    /\ astray' = {}
    /\ unsound' = (unsound \/ ~Current)
    /\ UNCHANGED <<saved, site, probes, list>>

Request(c) ==
    \/ \E s \in Sensors, t \in Pins : EditSensor(c, s, t)
    \/ \E t \in Pins, b \in BOOLEAN : EditDevice(c, t, b)
    \/ \E t \in Bindings : BindSite(c, t)
    \/ \E s \in Sensors : Pause(c, s) \/ Resume(c, s)
    \/ DeleteSite(c)
    \/ \E p \in Probes, t \in Pins : DeleteProbe(c, p, t)

Proceed(c) ==
    \/ \E s \in Sensors : EditSensorSet(c, s) \/ Apply(c, s)
    \/ Invalidate(c) \/ Applied(c) \/ BumpAll(c)
    \/ Reassign(c) \/ ReassignSites(c) \/ DropProbe(c) \/ Dropped(c)

Sync(p) == SyncVersion(p) \/ SyncList(p)

Next ==
    \/ \E c \in Callers : Request(c) \/ Proceed(c)
    \/ \E p \in Probes : Sync(p) \/ SyncLost(p)
    \/ \E s \in Sensors : ChainEnds(s)
    \/ LoadCache \/ Save \/ Crash

\* Handlers finish, cycles end, and a probe's requests get through in the end.
Fairness ==
    /\ \A c \in Callers : WF_vars(Proceed(c))
    /\ \A s \in Sensors : WF_vars(ChainEnds(s))
    /\ \A p \in Probes : WF_vars(SyncVersion(p)) /\ SF_vars(SyncList(p))

Spec == Init /\ [][Next]_vars /\ Fairness

-----------------------------------------------------------------------------
(* Properties.                                                             *)

\* "Never (stale list, new version)": between requests, a probe that is not
\* told to pull anew has the list the server would send it, unless the server
\* died between a change and the new version.
AgentIsCurrent ==
    NoRequests => \A p \in probes \ (behind \cup missed) : list[p] \ astray = Wanted(p) \ astray

\* No sensor is left with a probe that is gone, if the tables were up to date
\* at the deletion and at a restart, and no other request ran meanwhile.
NoGhost ==
    ~unsound => \A s \in Sensors \ astray : Probe(s) \in {NoProbe} \cup probes

\* Once the requests are over, every running sensor comes to be measured for
\* good by the one that is to measure it and by no other, the exemptions above
\* aside.
Measured(s) ==
    /\ chain[s] <=> Probe(s) = NoProbe
    /\ \A p \in probes : s \in list[p] <=> Probe(s) = p

EveryoneMeasured ==
    <>[](unsound \/ missed # {} \/ \A s \in Sensors \ astray : running[s] => Measured(s))
=============================================================================
