--------------------------- MODULE AgentDelivery ---------------------------
(***************************************************************************)
(* The way of a probe result from a remote agent (agent/agent.py: the live *)
(* buffer, the disk spool, the check-in) to the sample table of the server *)
(* (routes/agent.py, the time-stamp guard of core/state.py, the sample     *)
(* buffer and its writer in db/samples.py).  The agent may crash, also in  *)
(* the middle of an append, or hand itself over to an update; requests and *)
(* answers get lost or late; the server may restart and a write may fail.  *)
(*                                                                         *)
(* One sensor.  A result is its time stamp, and the clocks agree.  A       *)
(* result that left the sensor is somewhere along this way, in the table,  *)
(* or one of those the observed sets account for.                          *)
(***************************************************************************)
EXTENDS Integers, Sequences, SequencesExt, FiniteSetsExt

CONSTANTS MaxResults,  \* bound: results the sensor yields
          BatchMax,    \* results of one check-in
          Cap,         \* lines the spool may hold
          Overflow,    \* results in memory that make the agent spool them
          Ops,         \* of {"tear", "crash", "update", "restart", "writefail"}
          MaxFaults    \* bound: failures of any kind

ASSUME ConstantsAssumption ==
    /\ {MaxResults, BatchMax, Cap, Overflow} \subseteq Nat \ {0}
    /\ MaxFaults \in Nat
    /\ Ops \subseteq {"tear", "crash", "update", "restart", "writefail"}

Results == 1..MaxResults
Torn    == 0                 \* a last line cut short, without a line break
Garbled == MaxResults + 1    \* a line that does not parse
Unset   == -1

VARIABLES
    made,      \* results the sensor has yielded
    buf,       \* Agent.buf
    spool,     \* the lines of spool.jsonl
    count,     \* Spool.count
    req,       \* the check-in under way
    late,      \* batches given up by the agent that may still arrive
    last,      \* _last_processed_ts
    sampleBuf, \* _SAMPLE_BUF
    writes,    \* flushed batches in the writer's queue
    table,     \* sensor_samples: how often each result is stored
    stopping,  \* an update is staged and the agent told to stop
    faults,
    dropped,   \* observed: results a crash or a full spool cost
    raced      \* observed: results at the agent while the update's thread flushed

agentVars  == <<made, buf, spool, count, stopping>>
serverVars == <<last, sampleBuf, writes, table>>
observed   == <<dropped, raced>>
vars == <<agentVars, req, late, serverVars, faults, observed>>

NoReq == [state |-> "none", origin |-> "live", batch |-> <<>>]
InFlight == IF req.origin = "live" THEN req.batch ELSE <<>>
Lines(set) == set \intersect Results

\* A batch is made of lines; those of them that parse are sent.
Parsed(lines) == {i \in DOMAIN lines : lines[i] \in Results}
Sent(lines)   == Lines(Range(lines))

TypeOK ==
    /\ made \in 0..MaxResults
    /\ buf \in BoundedSeq(Results, MaxResults)
    /\ spool \in BoundedSeq(Results \cup {Torn, Garbled}, Cap + BatchMax)
    /\ count \in Len(spool)..(Cap + BatchMax)
    /\ req.state \in {"none", "sent", "answered"} /\ req.origin \in {"live", "spool"}
    /\ req.batch \in BoundedSeq(Results \cup {Torn, Garbled}, Cap + BatchMax)
    /\ late \subseteq SUBSET Results
    /\ last \in 0..MaxResults \cup {Unset}
    /\ sampleBuf \subseteq Results
    /\ writes \in Seq(SUBSET Results)
    /\ table \in [Results -> 0..2]
    /\ stopping \in BOOLEAN
    /\ faults \in 0..MaxFaults
    /\ dropped \subseteq Results /\ raced \subseteq Results

Init ==
    /\ made = 0 /\ buf = <<>>
    /\ spool = <<>> /\ count = 0
    /\ req = NoReq /\ late = {}
    /\ last = Unset
    /\ sampleBuf = {} /\ writes = <<>> /\ table = [t \in Results |-> 0]
    /\ stopping = FALSE /\ faults = 0
    /\ dropped = {} /\ raced = {}

Fault == faults < MaxFaults /\ faults' = faults + 1

-----------------------------------------------------------------------------
(* The spool.                                                              *)

\* Lines appended to a file whose last line was cut short: the first one
\* continues it, and neither parses.
CutOff(lines) == IF lines # <<>> /\ spool # <<>> /\ Last(spool) = Torn
                 THEN {Head(lines)} ELSE {}

\* A bug: the file is opened for writing, not for appending.
JoinedOverwrites(lines) == lines

Joined(lines) ==
    IF CutOff(lines) = {} THEN spool \o lines
    ELSE Front(spool) \o <<IF Head(lines) = Torn THEN Torn ELSE Garbled>> \o Tail(lines)

Drop(s, n) == SubSeq(s, n + 1, Len(s))

\* A bug: the lines dropped are counted, not those that stay.
TrimmedMiscounted(lines, n) ==
    IF n > Cap THEN [lines |-> Drop(lines, n - Cap), count |-> n - Cap]
    ELSE [lines |-> lines, count |-> n]

\* _trim_oldest: the count of lines is trusted, and taken anew when it trims.
Trimmed(lines, n) ==
    IF n > Cap THEN LET kept == Drop(lines, n - Cap)
                    IN [lines |-> kept, count |-> Len(kept)]
    ELSE [lines |-> lines, count |-> n]

\* Spool.append
AppendLines(lines) ==
    LET joined == Joined(lines)
        after  == IF lines = <<>> THEN [lines |-> spool, count |-> count]
                  ELSE Trimmed(joined, count + Len(lines))
    IN /\ spool' = after.lines /\ count' = after.count
       /\ dropped' = dropped \cup CutOff(lines)
                             \cup Lines(Range(joined) \ Range(after.lines))

\* Spool.peek reads to the line that makes the batch full, or to the end.
Peeks(m) ==
    LET found == Cardinality(Parsed(SubSeq(spool, 1, m)))
    IN IF m = Len(spool) THEN found <= BatchMax
       ELSE m > 0 /\ found = BatchMax /\ spool[m] \in Results

\* A bug: one line too few.
AckedLinesOneLess(batch) == IF Parsed(batch) = {} THEN 0 ELSE Cardinality(Parsed(batch)) - 1

\* What did not parse is not counted.
AckedLines(batch) == Cardinality(Parsed(batch))

\* Spool.remove_oldest
RemoveOldest(n) == IF n = 0 THEN UNCHANGED <<spool, count>>
                   ELSE spool' = Drop(spool, n) /\ count' = Len(Drop(spool, n))

-----------------------------------------------------------------------------
(* The agent.                                                              *)

Probe ==
    /\ made < MaxResults
    /\ made' = made + 1 /\ buf' = Append(buf, made + 1)
    /\ UNCHANGED <<spool, count, stopping, req, late, serverVars, faults, observed>>

\* _drain_batch: the spool before what is in memory; an empty check-in is left
\* out unless the spool is believed to hold something.
DrainSpool ==
    /\ req.state = "none" /\ ~stopping /\ count > 0
    /\ \E m \in 0..Len(spool) :
          /\ Peeks(m)
          /\ req' = [state |-> "sent", origin |-> "spool", batch |-> SubSeq(spool, 1, m)]
    /\ UNCHANGED <<agentVars, late, serverVars, faults, observed>>

DrainLive ==
    /\ req.state = "none" /\ ~stopping /\ count = 0 /\ buf # <<>>
    /\ LET n == Min({BatchMax, Len(buf)})
       IN /\ req' = [state |-> "sent", origin |-> "live", batch |-> SubSeq(buf, 1, n)]
          /\ buf' = Drop(buf, n)
    /\ UNCHANGED <<made, spool, count, stopping, late, serverVars, faults, observed>>

\* The answer arrived.
Acked ==
    /\ req.state = "answered"
    /\ IF req.origin = "spool" THEN RemoveOldest(AckedLines(req.batch))
       ELSE UNCHANGED <<spool, count>>
    /\ req' = NoReq
    /\ UNCHANGED <<made, buf, stopping, late, serverVars, faults, observed>>

\* No answer: the batch goes to the spool, and what is in memory after it when
\* there is much of it.  The server may still get the request.
TransportFailed ==
    /\ req.state \in {"sent", "answered"} /\ Fault
    /\ LET much == Len(buf) >= Overflow
       IN /\ AppendLines(InFlight \o (IF much THEN buf ELSE <<>>))
          /\ buf' = IF much THEN <<>> ELSE buf
    /\ \/ req.state = "sent" /\ late' = late \cup {Sent(req.batch)}
       \/ UNCHANGED late
    /\ req' = NoReq
    /\ UNCHANGED <<made, stopping, serverVars, raced>>

\* An answer other than 200: unauthorised, another protocol, rejected.
Rejected ==
    /\ req.state = "sent" /\ Fault
    /\ AppendLines(InFlight)
    /\ req' = NoReq
    /\ UNCHANGED <<made, buf, stopping, late, serverVars, raced>>

\* The process dies, perhaps while it appends the batch in flight; Spool counts
\* the lines when it starts again.
AgentCrash ==
    /\ "crash" \in Ops /\ Fault
    /\ \E k \in 0..Len(InFlight),
          tear \in (IF "tear" \in Ops THEN BOOLEAN ELSE {FALSE}) :
          /\ tear => k < Len(InFlight)
          /\ spool' = Joined(SubSeq(InFlight, 1, k) \o (IF tear THEN <<Torn>> ELSE <<>>))
    /\ count' = Len(spool')
    /\ dropped' = dropped \cup (Range(InFlight \o buf) \ Range(spool'))
    /\ buf' = <<>> /\ stopping' = FALSE
    /\ req' = NoReq
    /\ \/ req.state = "sent" /\ late' = late \cup {Sent(req.batch)}
       \/ UNCHANGED late
    /\ UNCHANGED <<made, serverVars, raced>>

\* _run_agent_update on the task thread: the buffer is flushed to the spool,
\* whatever the check-in thread is doing, and the agent told to stop.
Update ==
    /\ "update" \in Ops /\ ~stopping /\ Fault
    /\ AppendLines(buf)
    /\ buf' = <<>> /\ stopping' = TRUE
    /\ raced' = IF req = NoReq THEN raced
                ELSE raced \cup Lines(Range(spool \o InFlight \o buf))
    /\ UNCHANGED <<made, req, late, serverVars>>

\* The run loop ends between two check-ins; what was measured meanwhile is lost.
Exit ==
    /\ stopping /\ req.state = "none"
    /\ stopping' = FALSE
    /\ dropped' = dropped \cup Range(buf)
    /\ buf' = <<>> /\ count' = Len(spool)
    /\ UNCHANGED <<made, spool, req, late, serverVars, faults, raced>>

-----------------------------------------------------------------------------
(* The server.                                                             *)

Newest == Max({t \in Results : table[t] > 0} \cup {0})

Seed == IF last = Unset THEN Newest ELSE last

\* _ingest_results and the guard of _process_result, under the probe's lock.
Ingest(results) ==
    LET accepted == {t \in results : t > Seed}
    IN /\ sampleBuf' = sampleBuf \cup accepted
       /\ last' = IF results = {} THEN last ELSE Max(accepted \cup {Seed})
       /\ UNCHANGED <<writes, table>>

Answer ==
    /\ req.state = "sent"
    /\ Ingest(Sent(req.batch))
    /\ req' = [req EXCEPT !.state = "answered"]
    /\ UNCHANGED <<agentVars, late, faults, observed>>

LateArrival ==
    \E batch \in late :
        /\ Ingest(batch)
        /\ late' = late \ {batch}
        /\ UNCHANGED <<agentVars, req, faults, observed>>

\* _sample_flush_loop
FlushSamples ==
    /\ sampleBuf # {}
    /\ writes' = Append(writes, sampleBuf) /\ sampleBuf' = {}
    /\ UNCHANGED <<agentVars, req, late, last, table, faults, observed>>

\* _do_insert_samples
WriteSamples ==
    /\ writes # <<>>
    /\ table' = [t \in Results |-> IF t \in Head(writes) /\ table[t] < 2
                                   THEN table[t] + 1 ELSE table[t]]
    /\ writes' = Tail(writes)
    /\ UNCHANGED <<agentVars, req, late, last, sampleBuf, faults, observed>>

\* _requeue_failed_rows
WriteFails ==
    /\ "writefail" \in Ops /\ Fault
    /\ writes # <<>>
    /\ sampleBuf' = sampleBuf \cup Head(writes) /\ writes' = Tail(writes)
    /\ UNCHANGED <<agentVars, req, late, last, table, observed>>

ServerRestart ==
    /\ "restart" \in Ops /\ Fault
    /\ last' = Unset
    /\ dropped' = dropped \cup sampleBuf \cup UNION Range(writes)
    /\ sampleBuf' = {} /\ writes' = <<>> /\ late' = {}
    /\ UNCHANGED <<agentVars, req, table, raced>>

Next ==
    \/ Probe \/ DrainSpool \/ DrainLive \/ Acked \/ TransportFailed \/ Rejected
    \/ AgentCrash \/ Update \/ Exit
    \/ Answer \/ LateArrival \/ FlushSamples \/ WriteSamples \/ WriteFails
    \/ ServerRestart

\* The check-in loop, the server's handler threads, its flush thread and its
\* writer keep running; faults are bounded, so they stop at some point.
Fairness ==
    /\ WF_vars(DrainSpool \/ DrainLive \/ Acked \/ Exit)
    /\ WF_vars(Answer) /\ WF_vars(FlushSamples) /\ WF_vars(WriteSamples)

Spec == Init /\ [][Next]_vars /\ Fairness

-----------------------------------------------------------------------------
(* Properties.                                                             *)

\* A result is held by the agent, on its way through the server or stored,
\* unless a crash, a full spool or an update's flush in the middle of a
\* check-in accounts for it: a lost request or answer, in any order with
\* restarts of the server, costs nothing (_checkin_once, _process_result).
NoLoss ==
    \A t \in 1..made :
        \/ t \in Range(spool \o InFlight \o buf)
        \/ t \in sampleBuf \cup UNION Range(writes)
        \/ table[t] > 0
        \/ t \in dropped \cup raced

\* A batch sent again because its answer was lost, late or cut off by a restart
\* is not stored twice ("so an agent re-sending a batch whose ack was lost
\* across a server restart can't double-insert").
NoDuplicate ==
    \A t \in Results :
        table[t] + Cardinality({i \in DOMAIN writes : t \in writes[i]})
                 + (IF t \in sampleBuf THEN 1 ELSE 0) <= 1

\* Both: every result is delivered once.
ExactlyOnce == NoLoss /\ NoDuplicate

Shipped == /\ buf = <<>> /\ spool = <<>> /\ req.state = "none"
           /\ \A t \in 1..made : table[t] > 0 \/ t \in dropped \cup raced

\* The agent's results are shipped in the end, whatever failed before: the
\* spool is "restart-safe" and drains (the run loop, the flush loop).
SpoolDrains == <>[]Shipped

\* The same, when no append was ever cut short within a line.
Untorn == \A i \in DOMAIN spool : spool[i] \in Results
WholeSpoolDrains == []Untorn => <>[]Shipped
=============================================================================
