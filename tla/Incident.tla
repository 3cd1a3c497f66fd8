------------------------------ MODULE Incident ------------------------------
(***************************************************************************)
(* The incident state machine of one sensor (core/state.py,                *)
(* _process_result), the startup-grace window that parks its events, the   *)
(* flap_log rows it opens and resolves (db/events.py) through the writer   *)
(* queues (db/core.py), acknowledgement (routes/monitoring.py) and the     *)
(* re-hydration after a restart.                                           *)
(*                                                                         *)
(* Sensors share nothing here but the grace flag, so one sensor is enough. *)
(* A probe result is reduced to what the machine makes of it: a failure, or*)
(* a success whose level is ok, warn or crit, "odd" being a warn that only *)
(* the learned baseline causes.  Timestamps are abstracted.                *)
(***************************************************************************)
EXTENDS Naturals, Sequences, FiniteSets

CONSTANTS FailAfter, RecoverAfter,  \* debounce lengths
          Queued,      \* TRUE: SQLite writer queues; FALSE: PostgreSQL, inline
          Settings,    \* what may happen besides probe results, and the
                       \* results that may occur: one of these, throughout
          MaxQueue,    \* bound: no cycle begins with more writes pending
          MaxRows      \* bound: open rows of one direction, counted up to here

AllOps == {"grace", "crash", "ack", "ackClosed", "dismiss", "mute", "pause"}
AllResults == {"fail", "loss", "ok", "warn", "crit", "odd"}

ASSUME ConstantsAssumption ==
    /\ FailAfter \in Nat \ {0} /\ RecoverAfter \in Nat \ {0}
    /\ Queued \in BOOLEAN
    /\ Settings \subseteq [ops : SUBSET AllOps, results : SUBSET AllResults]
    /\ MaxQueue \in Nat \ {0} /\ MaxRows \in Nat \ {0, 1}

Levels == {"ok", "warn", "crit"}
ThresholdDirs == {"threshold_warn", "threshold_crit"}
Dirs == {"down", "anomaly_warn"} \cup ThresholdDirs

\* "loss" is a failed probe that takes the packet loss over its critical limit.
Failed(r) == r \in {"fail", "loss"}

\* A bug: the result is compared as it came.
LevelRaw(r) == r

\* The level the threshold stage computes ...
Level(r) == CASE r \in {"crit", "loss"} -> "crit"
              [] r \in {"warn", "odd"}  -> "warn"
              [] OTHER                  -> "ok"

\* ... the direction of the row it is logged under ...
RaisedDir(r) == CASE r \in {"crit", "loss"} -> "threshold_crit"
                  [] r = "odd"              -> "anomaly_warn"
                  [] OTHER                  -> "threshold_warn"

\* A bug: the escalation resolves the row of the level it enters.
LeftDirsSwapped(level) == CASE level = "crit" -> {"threshold_warn"}
                            [] level = "warn" -> {"threshold_crit"}
                            [] OTHER          -> {}

\* ... and of the row an escalation resolves, given the level it leaves.
LeftDirs(level) == CASE level = "crit" -> {"threshold_crit"}
                     [] level = "warn" -> {"threshold_warn"}
                     [] OTHER          -> {}

Log(d)     == [op |-> "log", dirs |-> {d}]
Resolve(D) == [op |-> "resolve", dirs |-> D]
Writes     == {Log(d) : d \in Dirs} \cup {Resolve(D) : D \in SUBSET Dirs}

NoThr    == [state |-> "ok", dir |-> "down", left |-> {}]
NoParked == [down |-> FALSE, thr |-> NoThr]
ParkedEntries ==
    [down : BOOLEAN,
     thr  : [state : Levels, dir : Dirs, left : SUBSET Dirs]]

VARIABLES
    setting,       \* what may happen in this behaviour
    running,       \* Sensor.running
    muted,         \* alerts_muted of the sensor, its device or its group
    fails, oks,    \* _consec_fail, _consec_ok, up to the debounce lengths
    down,          \* _alerted_down
    thr,           \* _threshold_state
    ack,           \* _ack_by # ""
    cycle,         \* the probe cycle in progress
    grace,         \* the startup-grace window: unarmed, open, closed
    parked,        \* _grace_parked, this sensor's entries
    taken,         \* the entries the flush thread has swapped out
    flush,         \* what the flush thread does next
    mainQ, logsQ,  \* pending writes of the two writer threads
    rows,          \* flap_log: what the table holds about this sensor
    acking         \* what an acknowledging request does next

sensorVars == <<running, muted, fails, oks, down, thr, ack>>
graceVars  == <<grace, parked, taken, flush>>
dbVars     == <<mainQ, logsQ, rows>>
vars == <<setting, sensorVars, cycle, graceVars, dbVars, acking>>

CycleSteps == {"idle", "conn", "parkDown", "markDown", "markUp",
               "threshold", "raise", "parkThr", "clear"}
FlushSteps == {"idle", "take", "down", "emitDown", "thr", "emitThr", "done"}

\* active and acked count the unresolved rows of each direction; closed and
\* dismissed are the directions with a row resolved by a recovery or by hand;
\* revived those with a row acknowledged after a recovery had resolved it.
Rows == [active : [Dirs -> 0..MaxRows], acked : [Dirs -> 0..MaxRows],
         closed : SUBSET Dirs, dismissed : SUBSET Dirs, revived : SUBSET Dirs]

TypeOK ==
    /\ setting \in Settings
    /\ running \in BOOLEAN /\ muted \in BOOLEAN
    /\ fails \in 0..FailAfter /\ oks \in 0..RecoverAfter
    /\ down \in BOOLEAN /\ thr \in Levels /\ ack \in BOOLEAN
    /\ cycle \in [at : CycleSteps, res : AllResults, muted : BOOLEAN,
                  left : SUBSET Dirs]
    /\ grace \in {"unarmed", "open", "closed"}
    /\ parked \in ParkedEntries /\ taken \in ParkedEntries
    /\ flush \in FlushSteps
    /\ mainQ \in Seq(Writes) /\ logsQ \in Seq(Writes)
    /\ rows \in Rows
    /\ acking \in {"idle", "check", "set"}

Idle == [at |-> "idle", res |-> "ok", muted |-> FALSE, left |-> {}]

Init ==
    /\ setting \in Settings
    /\ running = TRUE /\ muted = FALSE
    /\ fails = 0 /\ oks = 0 /\ down = FALSE /\ thr = "ok" /\ ack = FALSE
    /\ cycle = Idle
    /\ grace = "unarmed" /\ parked = NoParked /\ taken = NoParked
    /\ flush = "idle"
    /\ mainQ = <<>> /\ logsQ = <<>>
    /\ rows = [active |-> [d \in Dirs |-> 0], acked |-> [d \in Dirs |-> 0],
               closed |-> {}, dismissed |-> {}, revived |-> {}]
    /\ acking = "idle"

-----------------------------------------------------------------------------
(* The flap_log table and the writers.                                     *)

Cap(n, bound) == IF n < bound THEN n ELSE bound

Open(t, d) == t.active[d] + t.acked[d]

Cleared(count, D) == [d \in Dirs |-> IF d \in D THEN 0 ELSE count[d]]

\* db_log_flap and db_auto_resolve_flap.  The latter skips the rows whose
\* resolved_at is set, hence the revived ones.
Apply(t, w) ==
    IF w.op = "log"
    THEN [t EXCEPT !.active =
            [d \in Dirs |-> IF d \in w.dirs THEN Cap(@[d] + 1, MaxRows) ELSE @[d]]]
    ELSE [t EXCEPT !.active = Cleared(@, w.dirs),
                   !.acked  = Cleared(@, w.dirs),
                   !.closed = @ \cup {d \in w.dirs : Open(t, d) > 0}]

\* db_resolve_flaps_by_sensor: by acknowledgement state alone.
ApplyStop(t) ==
    [t EXCEPT !.active = Cleared(@, Dirs), !.acked = Cleared(@, Dirs),
              !.dismissed = @ \cup {d \in Dirs : Open(t, d) > 0},
              !.closed = @ \cup t.revived, !.revived = {}]

\* The table after each of some writes, and after all of them.
After(t, ws)   == LET f[n \in 0..Len(ws)] == IF n = 0 THEN t ELSE Apply(f[n - 1], ws[n])
                  IN  f
Applied(t, ws) == After(t, ws)[Len(ws)]

\* _db_enqueue: queue for the writer thread, or execute at once.
Write(ws) ==
    IF Queued THEN mainQ' = mainQ \o ws /\ UNCHANGED rows
              ELSE rows' = Applied(rows, ws) /\ UNCHANGED mainQ

NoWrite == UNCHANGED <<mainQ, rows>>

\* _db_writer_loop.
MainWriter ==
    /\ mainQ # <<>>
    /\ rows' = Apply(rows, Head(mainQ))
    /\ mainQ' = Tail(mainQ)
    /\ UNCHANGED <<setting, sensorVars, cycle, graceVars, logsQ, acking>>

\* _logs_writer_loop; stopping the device is what queues here.
LogsWriter ==
    /\ logsQ # <<>>
    /\ rows' = ApplyStop(rows)
    /\ logsQ' = Tail(logsQ)
    /\ UNCHANGED <<setting, sensorVars, cycle, graceVars, mainQ, acking>>

-----------------------------------------------------------------------------
(* One probe cycle: the debounce, then the threshold stage.                *)

\* Move the cycle on to a step.
To(step) == cycle' = [cycle EXCEPT !.at = step]
Done     == cycle' = Idle

BeginCycle(r) ==
    /\ cycle.at = "idle" /\ running
    /\ Len(mainQ) < MaxQueue
    /\ cycle' = [at |-> "conn", res |-> r, muted |-> muted, left |-> {}]
    /\ fails' = IF Failed(r) THEN Cap(fails + 1, FailAfter) ELSE 0
    /\ oks'   = IF Failed(r) THEN 0 ELSE Cap(oks + 1, RecoverAfter)
    /\ UNCHANGED <<setting, running, muted, down, thr, ack, graceVars, dbVars, acking>>

GoesDown == Failed(cycle.res) /\ ~down /\ fails >= FailAfter
Recovers == ~Failed(cycle.res) /\ down /\ oks >= RecoverAfter

\* Neither: on to the threshold stage.
StayConn ==
    /\ cycle.at = "conn" /\ ~GoesDown /\ ~Recovers
    /\ To("threshold") /\ NoWrite
    /\ UNCHANGED <<setting, sensorVars, graceVars, logsQ, acking>>

DownLogged == ~cycle.muted /\ grace # "open"

\* The incident is announced, unless muted ...
GoDown ==
    /\ cycle.at = "conn" /\ GoesDown
    /\ cycle.muted \/ DownLogged
    /\ IF DownLogged THEN Write(<<Log("down")>>) ELSE NoWrite
    /\ To("markDown")
    /\ UNCHANGED <<setting, sensorVars, graceVars, logsQ, acking>>

\* ... or parked: the window is looked at first and the entry made later.
GoDownInGrace ==
    /\ cycle.at = "conn" /\ GoesDown
    /\ ~cycle.muted /\ grace = "open"
    /\ To("parkDown")
    /\ UNCHANGED <<setting, sensorVars, graceVars, dbVars, acking>>

ParkDown ==
    /\ cycle.at = "parkDown"
    /\ parked' = [parked EXCEPT !.down = TRUE]
    /\ To("markDown")
    /\ UNCHANGED <<setting, sensorVars, grace, taken, flush, dbVars, acking>>

MarkDown ==
    /\ cycle.at = "markDown"
    /\ down' = TRUE
    /\ To("threshold")
    /\ UNCHANGED <<setting, running, muted, fails, oks, thr, ack, graceVars, dbVars, acking>>

\* A bug: a recovery inside the window leaves the parked entry behind.
RecoverKeepsParked ==
    /\ cycle.at = "conn" /\ Recovers
    /\ IF cycle.muted THEN NoWrite ELSE Write(<<Resolve({"down"})>>)
    /\ To("markUp")
    /\ UNCHANGED <<setting, sensorVars, graceVars, logsQ, acking>>

\* A muted recovery leaves the row and the parked entry alone.
Recover ==
    /\ cycle.at = "conn" /\ Recovers
    /\ IF cycle.muted
       THEN UNCHANGED parked /\ NoWrite
       ELSE /\ parked' = [parked EXCEPT !.down = FALSE]
            /\ Write(<<Resolve({"down"})>>)
    /\ To("markUp")
    /\ UNCHANGED <<setting, sensorVars, grace, taken, flush, logsQ, acking>>

MarkUp ==
    /\ cycle.at = "markUp"
    /\ down' = FALSE /\ oks' = 0
    /\ ack' = (ack /\ thr # "ok")
    /\ To("threshold")
    /\ UNCHANGED <<setting, running, muted, fails, thr, graceVars, dbVars, acking>>

SameThreshold ==
    /\ cycle.at = "threshold" /\ Level(cycle.res) = thr
    /\ Done
    /\ UNCHANGED <<setting, sensorVars, graceVars, dbVars, acking>>

\* The state moves whether or not the sensor is muted.
NewThreshold ==
    /\ cycle.at = "threshold" /\ Level(cycle.res) # thr
    /\ thr' = Level(cycle.res)
    /\ IF cycle.muted THEN Done
       ELSE cycle' = [cycle EXCEPT !.at = IF thr' = "ok" THEN "clear" ELSE "raise",
                                   !.left = LeftDirs(thr)]
    /\ UNCHANGED <<setting, running, muted, fails, oks, down, ack, graceVars, dbVars, acking>>

RaiseWrites ==
    <<Log(RaisedDir(cycle.res))>>
        \o (IF cycle.left = {} THEN <<>> ELSE <<Resolve(cycle.left)>>)

\* A bug: the threshold stage does not know of the window.
RaiseInGrace ==
    /\ cycle.at = "raise"
    /\ Write(RaiseWrites)
    /\ Done
    /\ UNCHANGED <<setting, sensorVars, graceVars, logsQ, acking>>

Raise ==
    /\ cycle.at = "raise" /\ grace # "open"
    /\ Write(RaiseWrites)
    /\ Done
    /\ UNCHANGED <<setting, sensorVars, graceVars, logsQ, acking>>

RaisePark ==
    /\ cycle.at = "raise" /\ grace = "open"
    /\ To("parkThr")
    /\ UNCHANGED <<setting, sensorVars, graceVars, dbVars, acking>>

ParkThr ==
    /\ cycle.at = "parkThr"
    /\ parked' = [parked EXCEPT !.thr = [state |-> thr, dir |-> RaisedDir(cycle.res),
                                         left |-> cycle.left]]
    /\ Done
    /\ UNCHANGED <<setting, sensorVars, grace, taken, flush, dbVars, acking>>

Clear ==
    /\ cycle.at = "clear"
    /\ ack' = (ack /\ down)
    /\ parked' = [parked EXCEPT !.thr = NoThr]
    /\ Write(<<Resolve(ThresholdDirs)>>)
    /\ Done
    /\ UNCHANGED <<setting, running, muted, fails, oks, down, thr, grace, taken, flush,
                   logsQ, acking>>

CycleStep ==
    \/ \E r \in setting.results : BeginCycle(r)
    \/ StayConn \/ GoDown \/ GoDownInGrace \/ ParkDown \/ MarkDown
    \/ Recover \/ MarkUp
    \/ SameThreshold \/ NewThreshold \/ Raise \/ RaisePark \/ ParkThr \/ Clear

-----------------------------------------------------------------------------
(* The startup-grace window and the timer thread that closes it.           *)

\* begin_startup_grace; the sensors are already being measured.
ArmGrace ==
    /\ "grace" \in setting.ops
    /\ grace = "unarmed"
    /\ grace' = "open"
    /\ UNCHANGED <<setting, sensorVars, cycle, parked, taken, flush, dbVars, acking>>

\* _maybe_flush_grace: the cap makes the moment arbitrary.
CloseGrace ==
    /\ grace = "open"
    /\ grace' = "closed" /\ flush' = "take"
    /\ UNCHANGED <<setting, sensorVars, cycle, parked, taken, dbVars, acking>>

TakeParked ==
    /\ flush = "take"
    /\ taken' = parked /\ parked' = NoParked
    /\ flush' = IF parked = NoParked THEN "done" ELSE "down"
    /\ UNCHANGED <<setting, sensorVars, cycle, grace, dbVars, acking>>

\* Whatever is still bad is emitted: first looked at, then enqueued.
FlushDown ==
    /\ flush = "down"
    /\ flush' = IF taken.down /\ down THEN "emitDown" ELSE "thr"
    /\ UNCHANGED <<setting, sensorVars, cycle, grace, parked, taken, dbVars, acking>>

EmitDown ==
    /\ flush = "emitDown"
    /\ Write(<<Log("down")>>)
    /\ flush' = "thr"
    /\ UNCHANGED <<setting, sensorVars, cycle, grace, parked, taken, logsQ, acking>>

FlushThr ==
    /\ flush = "thr"
    /\ IF taken.thr # NoThr /\ thr = taken.thr.state
       THEN flush' = "emitThr" /\ UNCHANGED taken
       ELSE flush' = "done" /\ taken' = NoParked
    /\ UNCHANGED <<setting, sensorVars, cycle, grace, parked, dbVars, acking>>

EmitThr ==
    /\ flush = "emitThr"
    /\ Write(<<Log(taken.thr.dir)>>
             \o (IF taken.thr.left = {} THEN <<>> ELSE <<Resolve(taken.thr.left)>>))
    /\ flush' = "done" /\ taken' = NoParked
    /\ UNCHANGED <<setting, sensorVars, cycle, grace, parked, logsQ, acking>>

GraceStep == ArmGrace \/ CloseGrace \/ TakeParked \/ FlushDown \/ EmitDown
                \/ FlushThr \/ EmitThr

-----------------------------------------------------------------------------
(* Requests: acknowledge or resolve a row, mute, stop and start the device;*)
(* and the crash of the server.                                            *)

\* The row: an unresolved one, or, db_ack_flap looking only at the id, one
\* that a recovery or an operator has already resolved.
AckRow(d) ==
    /\ acking = "idle"
    /\ \/ /\ "ack" \in setting.ops /\ Open(rows, d) > 0
          /\ rows' = IF rows.active[d] = 0 THEN rows
                     ELSE [rows EXCEPT !.active[d] = @ - 1,
                                       !.acked[d] = Cap(@ + 1, MaxRows)]
       \/ /\ "ackClosed" \in setting.ops /\ d \in rows.closed \cup rows.dismissed
          /\ rows' = IF d \in rows.closed
                     THEN [rows EXCEPT !.closed = @ \ {d}, !.revived = @ \cup {d}]
                     ELSE [rows EXCEPT !.dismissed = @ \ {d},
                                       !.acked[d] = Cap(@ + 1, MaxRows)]
    /\ acking' = "check"
    /\ UNCHANGED <<setting, sensorVars, cycle, graceVars, mainQ, logsQ>>

\* _mark_sensor_ack looks at the sensor ...
AckCheck ==
    /\ acking = "check"
    /\ acking' = IF down \/ thr # "ok" THEN "set" ELSE "idle"
    /\ UNCHANGED <<setting, sensorVars, cycle, graceVars, dbVars>>

\* ... and then sets the badge.
AckSet ==
    /\ acking = "set"
    /\ ack' = TRUE /\ acking' = "idle"
    /\ UNCHANGED <<setting, running, muted, fails, oks, down, thr, cycle, graceVars, dbVars>>

\* db_resolve_flap: by id again; the sensor is not told.
DismissRow(d) ==
    /\ "dismiss" \in setting.ops
    /\ \/ /\ rows.active[d] > 0
          /\ rows' = [rows EXCEPT !.active[d] = @ - 1, !.dismissed = @ \cup {d}]
       \/ /\ rows.acked[d] > 0
          /\ rows' = [rows EXCEPT !.acked[d] = @ - 1, !.dismissed = @ \cup {d}]
       \/ /\ d \in rows.revived
          /\ rows' = [rows EXCEPT !.revived = @ \ {d}, !.closed = @ \cup {d}]
    /\ UNCHANGED <<setting, sensorVars, cycle, graceVars, mainQ, logsQ, acking>>

ToggleMute ==
    /\ "mute" \in setting.ops
    /\ muted' = ~muted
    /\ UNCHANGED <<setting, running, fails, oks, down, thr, ack, cycle, graceVars, dbVars,
                   acking>>

\* stop_device: the rows are resolved through the other writer queue; what the
\* sensor knows of its incident stays.
StopDevice ==
    /\ "pause" \in setting.ops /\ running
    /\ running' = FALSE
    /\ IF Queued THEN Len(logsQ) < MaxQueue /\ logsQ' = Append(logsQ, Resolve(Dirs))
                      /\ UNCHANGED rows
                 ELSE rows' = ApplyStop(rows) /\ UNCHANGED logsQ
    /\ UNCHANGED <<setting, muted, fails, oks, down, thr, ack, cycle, graceVars, mainQ, acking>>

StartDevice ==
    /\ "pause" \in setting.ops /\ ~running
    /\ running' = TRUE
    /\ UNCHANGED <<setting, muted, fails, oks, down, thr, ack, cycle, graceVars, dbVars, acking>>

\* A bug: the rows are not asked whether they were resolved.
UnresolvedAny(d) == Open(rows, d) > 0 \/ d \in rows.closed

\* What counts as unresolved at boot.
Unresolved(d) == Open(rows, d) > 0 \/ d \in rows.revived

\* The process dies with its queues; db_load_unresolved_flap_state seeds the
\* new one from the table.
Restart ==
    /\ "crash" \in setting.ops
    /\ down' = Unresolved("down")
    /\ thr' = CASE Unresolved("threshold_crit") -> "crit"
                [] ~Unresolved("threshold_crit")
                   /\ (Unresolved("threshold_warn") \/ Unresolved("anomaly_warn"))
                     -> "warn"
                [] OTHER -> "ok"
    /\ ack' = \E d \in Dirs : rows.acked[d] > 0 \/ d \in rows.revived
    /\ fails' = 0 /\ oks' = 0
    /\ cycle' = Idle /\ acking' = "idle"
    /\ grace' = "unarmed" /\ parked' = NoParked /\ taken' = NoParked
    /\ flush' = "idle"
    /\ mainQ' = <<>> /\ logsQ' = <<>>
    /\ UNCHANGED <<setting, running, muted, rows>>

Request ==
    \/ \E d \in Dirs : AckRow(d) \/ DismissRow(d)
    \/ AckCheck \/ AckSet
    \/ ToggleMute \/ StopDevice \/ StartDevice \/ Restart

Next == CycleStep \/ GraceStep \/ MainWriter \/ LogsWriter \/ Request

Spec == Init /\ [][Next]_vars

-----------------------------------------------------------------------------
(* Properties                                                              *)

\* The table once the pending writes are in.
Settled == Applied(rows, mainQ)

OpenRow(d) == Open(Settled, d) > 0

Quiet == cycle.at = "idle" /\ (grace = "unarmed" \/ flush = "done")

\* No operator and no window keeps rows from being written.
Undisturbed == setting.ops \cap {"grace", "mute", "pause", "dismiss"} = {}

\* Between cycles, a sensor that is down, warn or crit has an unresolved row
\* that says so, in the table or on its way there: no incident is unannounced
\* (_process_result, against db_load_unresolved_flap_state after a crash).  A
\* row acknowledged after its recovery counts, as it does at the boot.
BadHasRow ==
    LET Shown(d) == OpenRow(d) \/ d \in Settled.revived
    IN  Undisturbed /\ Quiet =>
          /\ (down => Shown("down"))
          /\ (thr = "crit" => Shown("threshold_crit"))
          /\ (thr = "warn" => Shown("threshold_warn") \/ Shown("anomaly_warn"))

\* Between cycles, a row that says a sensor is down or over a limit belongs to
\* an incident the sensor knows of, so that its recovery will resolve it; only
\* the row of a level just left may outlive a crash, under a higher one.
GoodHasNoRow ==
    Undisturbed /\ Quiet =>
        /\ (OpenRow("down") => down)
        /\ (OpenRow("threshold_crit") => thr = "crit")
        /\ (OpenRow("threshold_warn") => thr # "ok")

\* One outage has one row, restarts included (the promise of
\* db_load_unresolved_flap_state).
AtMostOneDownRow == Undisturbed => Open(Settled, "down") <= 1

\* The rows and the sensor's incidents fit each other, as the last three say.
RowsMatch == BadHasRow /\ GoodHasNoRow /\ AtMostOneDownRow

\* A sensor that is up, with nothing left to write and no operator or window in
\* the way, is up after a restart, but for a row acknowledged after its recovery
\* (db_load_unresolved_flap_state goes by the rows that are not resolved).
HealthyAfterRestart ==
    [][(Undisturbed /\ Restart /\ cycle.at = "idle" /\ mainQ = <<>> /\ ~down
          /\ "down" \notin rows.revived) => ~down']_vars

\* A row is added to the table or to the queue; a crash that loses the write
\* that was to resolve one adds none.
RowLogged == ~Restart /\ \E d \in Dirs : Settled'.active[d] > Settled.active[d]

\* A cycle that found the sensor muted announces nothing, and neither does
\* anything else while no unmuted cycle is under way, but for the flush of an
\* incident parked before the mute; and nobody announces anything while the
\* startup-grace window is open.
Silenced == \/ muted /\ (cycle.at = "idle" \/ cycle.muted) /\ ~(EmitDown \/ EmitThr)
            \/ grace = "open" /\ grace' = "open"
SilentWhileSilenced == [][Silenced => ~RowLogged]_vars

\* An outage that ends inside the window takes its parked entry with it, unless
\* the recovery was muted: "blips vanish without a trace".
BlipVanishes ==
    [][(grace = "open" /\ cycle.at = "markUp" /\ ~cycle.muted /\ ~down')
         => ~parked'.down]_vars
=============================================================================
