----------------------------- MODULE OrderlyStop -----------------------------
(***************************************************************************)
(* How the server stops (server.py, the end of main) against the threads   *)
(* that still run: the workers with a probe in flight, the check-ins of    *)
(* agents that HTTP still serves, the loop that flushes the samples        *)
(* (db/samples.py), the writers of the two databases (db/core.py) and the  *)
(* flusher of the notifications (monitoring/alert_batcher.py).             *)
(*                                                                         *)
(* SQLite: with PostgreSQL the queues are not used.  Every sensor has one  *)
(* result, an outage that makes a row, a sample and a notification.  All   *)
(* threads are daemons: what they hold at the exit is lost.                *)
(***************************************************************************)
EXTENDS Naturals, Sequences, SequencesExt, FiniteSets

CONSTANTS Sensors,
          Remote,    \* those an agent measures
          MaxSaves,  \* bound: saves that autosave or requests queue
          MaxFails   \* bound: batches of samples that cannot be written

ASSUME OrderlyStopAssumption ==
    /\ Remote \subseteq Sensors /\ MaxSaves \in Nat /\ MaxFails \in Nat
    /\ {"save", "stop"} \cap Sensors = {}   \* what else is put into the queue

VARIABLES
    step,       \* how far main has come
    running,    \* Sensor.running
    intent,     \* _run_intent
    work,       \* the worker, or the check-in, with the result of each sensor
    rowQueue,   \* _DB_QUEUE
    logQueue,   \* _LOGS_QUEUE: batches of samples
    ended,      \* writers that have met their sentinel
    dump,       \* what the main writer is saving
    saved,      \* the column "running" of the table of sensors
    rows, samples,     \* what the tables of events and samples hold
    buffer,     \* _SAMPLE_BUF
    flushing,   \* the batch the flush loop has taken: of whom, has it seen live writers?
    queued,     \* _QUEUES of the batcher
    sending,    \* what its flusher has popped
    sent,       \* how often each notification was sent
    saves, fails,
    stuck,      \* observed: workers the drain did not wait for
    failed,     \* observed: samples of batches that could not be written
    excused     \* observed: a writer outlived its join, or main saved over one

results  == <<work, stuck>>
writing  == <<rowQueue, logQueue, ended, dump, saved, rows, samples, buffer, flushing, failed>>
batcher  == <<queued, sending, sent>>
bounds   == <<saves, fails>>
vars     == <<step, running, intent, results, writing, batcher, bounds, excused>>

Steps == <<"serving", "stopped", "draining", "drained", "gated", "restored", "saved",
           "flushed", "flagged", "sentinel", "joined", "exited">>
Past(s) == \E i, j \in DOMAIN Steps : Steps[i] = s /\ Steps[j] = step /\ i <= j

Alive == step # "exited"

Stages == {"idle", "probing", "tested", "row", "put", "sample", "alert", "done", "dropped"}
Finished(s) == work[s] \in {"idle", "done", "dropped"}
Local   == Sensors \ Remote
NoBatch == [of |-> {}, live |-> FALSE]
NoDump  == <<>>

TypeOK ==
    /\ step \in ToSet(Steps) /\ running \in [Sensors -> BOOLEAN]
    /\ intent \in [Sensors -> BOOLEAN] /\ saved \in [Sensors -> BOOLEAN]
    /\ work \in [Sensors -> Stages]
    /\ rowQueue \in Seq(Sensors \cup {"save", "stop"}) /\ logQueue \in Seq(SUBSET Sensors)
    /\ ended \subseteq {"main", "logs"} /\ dump \in {NoDump} \cup [Sensors -> BOOLEAN]
    /\ rows \subseteq Sensors /\ samples \subseteq Sensors /\ buffer \subseteq Sensors
    /\ flushing \in [of : SUBSET Sensors, live : BOOLEAN]
    /\ queued \subseteq Sensors /\ sending \subseteq Sensors /\ sent \in [Sensors -> Nat]
    /\ saves \in 0..MaxSaves /\ fails \in 0..MaxFails
    /\ stuck \subseteq Sensors /\ failed \subseteq Sensors /\ excused \subseteq {"join", "save"}

Init ==
    /\ step = "serving" /\ running \in [Sensors -> BOOLEAN]
    /\ intent = running /\ saved = running
    /\ work = [s \in Sensors |-> "idle"]
    /\ rowQueue = <<>> /\ logQueue = <<>> /\ ended = {} /\ dump = NoDump
    /\ rows = {} /\ samples = {} /\ buffer = {} /\ flushing = NoBatch
    /\ queued = {} /\ sending = {} /\ sent = [s \in Sensors |-> 0]
    /\ saves = 0 /\ fails = 0 /\ stuck = {} /\ failed = {} /\ excused = {}

-----------------------------------------------------------------------------
(* Results.                                                                *)

Goes(s, stage) == work' = [work EXCEPT ![s] = stage] /\ UNCHANGED stuck

\* A cycle begins, or the agent's batch arrives.
Probe(s) ==
    /\ Alive /\ work[s] = "idle" /\ (running[s] \/ s \in Remote)
    /\ Goes(s, "probing")
    /\ UNCHANGED <<step, running, intent, writing, batcher, bounds, excused>>

\* _process_result looks at _shutting_down first ...
Gate(s) ==
    /\ Alive /\ work[s] = "probing"
    /\ Goes(s, IF Past("gated") THEN "dropped" ELSE "tested")
    /\ UNCHANGED <<step, running, intent, writing, batcher, bounds, excused>>

\* ... and then at the sensor.
Running(s) ==
    /\ Alive /\ work[s] = "tested"
    /\ Goes(s, IF running[s] THEN "row" ELSE "dropped")
    /\ UNCHANGED <<step, running, intent, writing, batcher, bounds, excused>>

\* _put_or_drop: inline once the writers are told to stop ...
TestWriters(s) ==
    /\ Alive /\ work[s] = "row"
    /\ IF Past("flagged") THEN Goes(s, "sample") /\ rows' = rows \cup {s}
                          ELSE Goes(s, "put") /\ UNCHANGED rows
    /\ UNCHANGED <<rowQueue, logQueue, ended, dump, saved, samples, buffer, flushing, failed>>
    /\ UNCHANGED <<step, running, intent, batcher, bounds, excused>>

\* ... in the queue otherwise, which may hold the sentinel by now.
Put(s) ==
    /\ Alive /\ work[s] = "put" /\ Goes(s, "sample") /\ rowQueue' = Append(rowQueue, s)
    /\ UNCHANGED <<logQueue, ended, dump, saved, rows, samples, buffer, flushing, failed>>
    /\ UNCHANGED <<step, running, intent, batcher, bounds, excused>>

Sample(s) ==
    /\ Alive /\ work[s] = "sample" /\ Goes(s, "alert") /\ buffer' = buffer \cup {s}
    /\ UNCHANGED <<rowQueue, logQueue, ended, dump, saved, rows, samples, flushing, failed>>
    /\ UNCHANGED <<step, running, intent, batcher, bounds, excused>>

Alert(s) ==
    /\ Alive /\ work[s] = "alert" /\ Goes(s, "done") /\ queued' = queued \cup {s}
    /\ UNCHANGED <<step, running, intent, writing, sending, sent, bounds, excused>>

-----------------------------------------------------------------------------
(* The writers and loops.                                                  *)

\* Autosave or a request.
QueueSave ==
    /\ Alive /\ saves < MaxSaves /\ saves' = saves + 1
    /\ IF Past("flagged") THEN saved' = running /\ UNCHANGED rowQueue
                          ELSE rowQueue' = Append(rowQueue, "save") /\ UNCHANGED saved
    /\ UNCHANGED <<logQueue, ended, dump, rows, samples, buffer, flushing, failed>>
    /\ UNCHANGED <<step, running, intent, results, batcher, fails, excused>>

\* A bug: the sentinel is taken for an event.
WriteMainAll ==
    /\ "main" \notin ended /\ rowQueue # <<>> /\ rowQueue' = Tail(rowQueue)
    /\ rows' = rows \cup {Head(rowQueue)}
    /\ UNCHANGED <<logQueue, ended, dump, saved, samples, buffer, flushing, failed>>
    /\ UNCHANGED <<step, running, intent, results, batcher, bounds, excused>>

\* The main writer: an event, the sentinel, or a save, which takes its copy
\* under the lock and writes it after that.
WriteMain ==
    /\ Alive /\ "main" \notin ended
    /\ \/ /\ dump # NoDump
          /\ dump' = NoDump /\ saved' = dump /\ UNCHANGED <<rowQueue, ended, rows>>
       \/ /\ dump = NoDump /\ rowQueue # <<>> /\ rowQueue' = Tail(rowQueue) /\ UNCHANGED saved
          /\ dump' = IF Head(rowQueue) = "save" THEN running ELSE NoDump
          /\ rows' = rows \cup ({Head(rowQueue)} \cap Sensors)
          /\ ended' = IF Head(rowQueue) = "stop" THEN ended \cup {"main"} ELSE ended
    /\ UNCHANGED <<logQueue, samples, buffer, flushing, failed>>
    /\ UNCHANGED <<step, running, intent, results, batcher, bounds, excused>>

\* _do_insert_samples: what cannot be written goes back to the buffer.
Insert(batch) ==
    \/ samples' = samples \cup batch /\ UNCHANGED <<failed, fails>>
    \/ /\ batch # {} /\ fails < MaxFails /\ fails' = fails + 1
       /\ failed' = failed \cup batch /\ UNCHANGED samples

\* The sentinel is the empty batch.
WriteLogs ==
    /\ Alive /\ "logs" \notin ended /\ logQueue # <<>>
    /\ LET batch == Head(logQueue)
       IN /\ Insert(batch)
          /\ buffer' = IF fails' # fails THEN buffer \cup batch ELSE buffer
          /\ ended' = IF batch = {} THEN ended \cup {"logs"} ELSE ended
    /\ logQueue' = Tail(logQueue)
    /\ UNCHANGED <<rowQueue, dump, saved, rows, flushing>>
    /\ UNCHANGED <<step, running, intent, results, batcher, saves, excused>>

\* The loop takes the buffer, ...
FlushTake ==
    /\ Alive /\ ~Past("draining") /\ flushing = NoBatch /\ buffer # {}
    /\ flushing' = [of |-> buffer, live |-> FALSE] /\ buffer' = {}
    /\ UNCHANGED <<rowQueue, logQueue, ended, dump, saved, rows, samples, failed>>
    /\ UNCHANGED <<step, running, intent, results, batcher, bounds, excused>>

\* ... and queues it, or writes it itself.
FlushTest ==
    /\ Alive /\ flushing.of # {} /\ ~flushing.live
    /\ IF Past("flagged")
       THEN /\ Insert(flushing.of) /\ flushing' = NoBatch
            /\ buffer' = IF fails' # fails THEN buffer \cup flushing.of ELSE buffer
       ELSE flushing' = [flushing EXCEPT !.live = TRUE] /\ UNCHANGED <<buffer, samples, failed, fails>>
    /\ UNCHANGED <<rowQueue, logQueue, ended, dump, saved, rows>>
    /\ UNCHANGED <<step, running, intent, results, batcher, saves, excused>>

FlushPut ==
    /\ Alive /\ flushing.live
    /\ logQueue' = Append(logQueue, flushing.of) /\ flushing' = NoBatch
    /\ UNCHANGED <<rowQueue, ended, dump, saved, rows, samples, buffer, failed>>
    /\ UNCHANGED <<step, running, intent, results, batcher, bounds, excused>>

\* The batcher's flusher pops what is due and sends it outside the lock.
Pop ==
    /\ Alive /\ sending = {}
    /\ \E due \in (SUBSET queued) \ {{}} : sending' = due /\ queued' = queued \ due
    /\ UNCHANGED <<step, running, intent, results, writing, sent, bounds, excused>>

Count(batch) == sent' = [s \in Sensors |-> IF s \in batch THEN sent[s] + 1 ELSE sent[s]]

Send ==
    /\ Alive /\ sending # {} /\ Count(sending) /\ sending' = {}
    /\ UNCHANGED <<step, running, intent, results, writing, queued, bounds, excused>>

-----------------------------------------------------------------------------
(* The end of main.                                                        *)

MainStep(from, to) == step = from /\ step' = to

StopAll ==
    /\ MainStep("serving", "stopped")
    /\ intent' = running /\ running' = [s \in Sensors |-> FALSE]
    /\ UNCHANGED <<results, writing, batcher, bounds, excused>>

StopFeeders ==
    /\ MainStep("stopped", "draining")
    /\ UNCHANGED <<running, intent, results, writing, batcher, bounds, excused>>

\* A bug: wait as long as it takes.
DrainForever ==
    /\ MainStep("draining", "drained") /\ \A s \in Local : Finished(s)
    /\ UNCHANGED <<running, intent, results, writing, batcher, bounds, excused>>

\* A bug: no wait.
DrainNot ==
    /\ MainStep("draining", "drained")
    /\ UNCHANGED <<running, intent, results, writing, batcher, bounds, excused>>

\* The workers have 15 s.
Drain ==
    /\ MainStep("draining", "drained")
    /\ stuck' = {s \in Local : ~Finished(s)}
    /\ UNCHANGED <<running, intent, work, writing, batcher, bounds, excused>>

SetGate ==
    /\ MainStep("drained", "gated")
    /\ UNCHANGED <<running, intent, results, writing, batcher, bounds, excused>>

\* A bug: the sensors are saved as stop_all left them.
RestoreNot ==
    /\ MainStep("gated", "restored")
    /\ UNCHANGED <<running, intent, results, writing, batcher, bounds, excused>>

Restore ==
    /\ MainStep("gated", "restored") /\ running' = intent
    /\ UNCHANGED <<intent, results, writing, batcher, bounds, excused>>

SaveAll ==
    /\ MainStep("restored", "saved") /\ saved' = running
    /\ excused' = IF dump # NoDump THEN excused \cup {"save"} ELSE excused
    /\ UNCHANGED <<rowQueue, logQueue, ended, dump, rows, samples, buffer, flushing, failed>>
    /\ UNCHANGED <<running, intent, results, batcher, bounds>>

\* db_flush_samples
FlushAll ==
    /\ MainStep("saved", "flushed") /\ Insert(buffer)
    /\ buffer' = IF fails' # fails THEN buffer ELSE {}
    /\ UNCHANGED <<rowQueue, logQueue, ended, dump, saved, rows, flushing>>
    /\ UNCHANGED <<running, intent, results, batcher, saves, excused>>

\* shutdown_writers: the flag, ...
Flag ==
    /\ MainStep("flushed", "flagged")
    /\ UNCHANGED <<running, intent, results, writing, batcher, bounds, excused>>

\* ... the sentinels, ...
Sentinel ==
    /\ MainStep("flagged", "sentinel")
    /\ rowQueue' = Append(rowQueue, "stop") /\ logQueue' = Append(logQueue, {})
    /\ UNCHANGED <<ended, dump, saved, rows, samples, buffer, flushing, failed>>
    /\ UNCHANGED <<running, intent, results, batcher, bounds, excused>>

\* ... and the joins, of 5 s each.
Join ==
    /\ MainStep("sentinel", "joined")
    /\ excused' = IF ended = {"main", "logs"} THEN excused ELSE excused \cup {"join"}
    /\ UNCHANGED <<running, intent, results, writing, batcher, bounds>>

\* shutdown_sync of the batcher; the pool of connections and HTTP are closed and
\* the process ends.
DrainAlerts ==
    /\ MainStep("joined", "exited") /\ Count(queued) /\ queued' = {}
    /\ UNCHANGED <<sending, running, intent, results, writing, bounds, excused>>

Main ==
    \/ StopAll \/ StopFeeders \/ Drain \/ SetGate \/ Restore \/ SaveAll \/ FlushAll
    \/ Flag \/ Sentinel \/ Join \/ DrainAlerts

Result(s) ==
    Probe(s) \/ Gate(s) \/ Running(s) \/ TestWriters(s) \/ Put(s) \/ Sample(s) \/ Alert(s)

Threads ==
    \/ \E s \in Sensors : Result(s)
    \/ QueueSave \/ WriteMain \/ WriteLogs \/ FlushTake \/ FlushTest \/ FlushPut \/ Pop \/ Send

Next == Main \/ Threads

\* Once asked to stop, main goes on; nothing else need ever move.
Spec == Init /\ [][Next]_vars /\ WF_vars(step # "serving" /\ Main)

-----------------------------------------------------------------------------
(* Properties.                                                             *)

\* "a running sensor isn't persisted as paused": the next boot starts what ran,
\* unless the writer was in the middle of a save when main made its own.
RunsAgain == Past("saved") /\ "save" \notin excused => saved = intent

\* A result taken in before the drain was over has its event, its sample and
\* its notification at the exit, unless a writer did not finish in time or
\* could not write, a loop still had it in hand, or it came behind a sentinel.
Overtaken == (UNION ToSet(logQueue)) \cup flushing.of
DrainedIsKept ==
    step = "exited" /\ "join" \notin excused =>
        \A s \in Local \ stuck :
            work[s] = "done" => /\ s \in rows
                                /\ s \in samples \cup failed \cup Overtaken
                                /\ sent[s] = 1 \/ s \in sending

\* "bounding the drain keeps total shutdown inside" its window: a wedged probe
\* or writer does not keep the server from stopping.
Stops == step = "stopped" ~> step = "exited"

\* "Draining probes BEFORE the final flush means their last results land in the
\* buffer and get written": no worker that was waited for drops its result.
LastResultsLand ==
    \A s \in Local \ stuck : Past("drained") => work[s] # "dropped"
=============================================================================
