------------------------ MODULE UpdateCampaign_proofs ------------------------
(***************************************************************************)
(* A rollout to any finite number of probes, however often each of them is *)
(* asked: its probes are those of ManagedProbe, its rows tell the truth,   *)
(* and its waves hold.  The first two rest on what a probe has posted      *)
(* (ProbesInv), the waves on what the tick knows of the rows between two   *)
(* writes (CampaignInv), as long as no mark of a row has failed.           *)
(***************************************************************************)
EXTENDS UpdateCampaign, FiniteSetTheorems, TLAPS

Results == {"success", "rolled_back"}
Updates == [active : {"old", "new"}, trial : Attempts \cup {"none"},
            fate : [Attempts -> {"none", "trial", "kept", "undone"}],
            posted : SUBSET [attempt : Attempts, outcome : Results],
            told : [Attempts -> SUBSET Results]]
Ticks == [at : {"idle", "halt", "dark", "plan", "send", "mark"}, rows : [Probes -> RowStates],
          visit : SUBSET Probes, budget : 0..Batch + Canary, hit : BOOLEAN]

\* Between two writes of the tick: only a probe that was just given its task is
\* still to be marked, and there is budget left for it.
TickShape ==
    /\ tick.at = "idle" => tick = Idle
    /\ tick.at \notin {"send", "mark"} => tick.visit = {}
    /\ tick.at # "dark" => ~tick.hit
    /\ tick.at = "send" => tick.rows = Idle.rows
    /\ tick.at = "mark" => /\ tick.budget > 0
                           /\ \E p \in tick.visit : tick.rows = [Idle.rows EXCEPT ![p] = "dispatched"]

\* What a probe has posted agrees with what became of its updates, and the
\* server was told nothing else.
Honest(p) ==
    /\ tasks[p] \subseteq made[p]
    /\ \A a \in Attempts :
          /\ update[p].fate[a] = "trial" <=> update[p].trial = a
          /\ a \notin made[p] \/ a \in tasks[p] => update[p].fate[a] = "none"
          /\ [attempt |-> a, outcome |-> "success"] \in update[p].posted =>
                update[p].fate[a] = "kept"
          /\ [attempt |-> a, outcome |-> "rolled_back"] \in update[p].posted =>
                update[p].fate[a] \in {"trial", "undone"}
          /\ \A o \in update[p].told[a] : [attempt |-> a, outcome |-> o] \in update[p].posted
    /\ row[p] = "succeeded" => p \in Kept
    /\ row[p] = "rolled_back" => \E a \in Attempts : update[p].fate[a] = "undone"

\* What holds of the probes, whatever has failed.
ProbesInv == TypeOK /\ update \in [Probes -> Updates] /\ TickShape /\ \A p \in Probes : Honest(p)

\* The probe that has its task but not its mark.
Marking == {p \in tick.visit : tick.at = "mark" /\ tick.rows[p] = "dispatched"}

\* A report of the probe came in.
Told(p) == \E a \in Attempts : update[p].told[a] # {}

\* A probe is given one task, after which its row is no longer queued; a
\* row that a report has settled is of a probe that has nothing left to do.
OneTask(p) ==
    /\ row[p] \in {"queued", "expired"} /\ p \notin Marking => made[p] = {}
    /\ p \in tick.visit => row[p] = "queued"
    /\ \A a, b \in made[p] : a = b
    /\ row[p] \in {"succeeded", "rolled_back"} => p \notin Busy /\ Told(p)

\* While the tick plans, what it has read differs from the rows only where a
\* report came in.
Fresh(p) ==
    tick.at \in {"dark", "plan"} =>
        \/ row[p] = tick.rows[p]
        \/ tick.rows[p] \in {"dispatched", "failed_offline"} /\ row[p] \in {"succeeded", "rolled_back"}

\* With halt_on_fail the tick gets past a failure no more than a campaign that
\* is done has one; that one has nothing queued or dispatched either.
Failures == {"rolled_back", "failed_offline"}
Stopped ==
    /\ halt /\ tick.at \in {"dark", "plan"} /\ ~tick.hit => In(tick.rows, Failures) = {}
    /\ camp = "done" => /\ tick = Idle /\ In(row, {"queued", "dispatched"}) = {}
                        /\ halt => In(row, Failures) = {}

\* What the tick may still send counts as sent.
Left == IF tick.at = "send" THEN tick.budget ELSE IF tick.at = "mark" THEN tick.budget - 1 ELSE 0
Limit == IF Canary > Batch THEN Canary ELSE Batch
Waves ==
    /\ Cardinality(In(row, {"dispatched"}) \cup Marking) + Left <= Limit
    /\ halt => Cardinality(Kept) >= Canary \/ Cardinality(Tried) + Left <= Canary

RowsInv     == (\A p \in Probes : OneTask(p) /\ Fresh(p)) /\ Stopped
CampaignInv == unmarked = {} => RowsInv /\ Waves

-----------------------------------------------------------------------------
(* The probes.                                                             *)

LEMMA BudgetType == Batch + Canary \in Nat /\ 0 \in 0..(Batch + Canary)
BY CampaignAssumption DEF CampaignAssumption

LEMMA IdleType == Idle \in Ticks /\ Idle.rows \in [Probes -> RowStates]
<1>1. Idle.rows \in [Probes -> RowStates] BY DEF Idle, RowStates
<1> QED BY <1>1, BudgetType DEF Idle, Ticks

\* Whatever the states, the probes in some of them can be counted.
LEMMA Counted ==
  ASSUME NEW T \in SUBSET Probes
  PROVE  IsFiniteSet(T) /\ Cardinality(T) \in Nat
BY CampaignAssumption, FS_Subset, FS_CardinalityType DEF CampaignAssumption

\* What is not a report changes no row to an outcome.
LEMMA RowsMove ==
  ASSUME \A q \in Probes : Honest(q), UNCHANGED update,
         \A q \in Probes : /\ made[q] \subseteq made'[q]
                           /\ tasks'[q] \ tasks[q] \subseteq made'[q] \ made[q],
         \A q \in Probes : row'[q] \in {"succeeded", "rolled_back"} => row'[q] = row[q]
  PROVE  \A q \in Probes : Honest(q)'
BY DEF Honest, Kept

LEMMA OthersStay ==
  ASSUME NEW q \in Probes, Honest(q), update'[q] = update[q], UNCHANGED made,
         tasks'[q] \subseteq tasks[q], row'[q] = row[q]
  PROVE  Honest(q)'
BY DEF Honest, Kept

-----------------------------------------------------------------------------
(* What the steps of a probe make of its updates.                          *)

Becomes(p, u) == update' = [q \in Probes |-> IF q = p THEN u ELSE update[q]]

Begun(u, a)     == [active |-> "new", trial |-> a, fate |-> [u.fate EXCEPT ![a] = "trial"],
                    posted |-> u.posted, told |-> u.told]
Over(u, b, end) == [active |-> b, trial |-> "none", fate |-> [u.fate EXCEPT ![u.trial] = end],
                    posted |-> u.posted, told |-> u.told]
Posted(u, r)    == [active |-> u.active, trial |-> u.trial, fate |-> u.fate,
                    posted |-> u.posted \cup {r}, told |-> u.told]
Heard(u, r)     == [active |-> u.active, trial |-> u.trial, fate |-> u.fate, posted |-> u.posted,
                    told |-> [u.told EXCEPT ![r.attempt] = @ \cup {r.outcome}]]
Reports         == [attempt : Attempts, outcome : Results]

LEMMA NoneIsNoAttempt == "none" \notin Attempts
BY CampaignAssumption

LEMMA TakeDoes ==
  ASSUME ProbesInv, NEW p \in Probes, Take(p)
  PROVE  \E a \in tasks[p] :
            /\ a \in Attempts /\ update[p] \in Updates /\ update[p].trial = "none"
            /\ Becomes(p, Begun(update[p], a)) \/ update' = update
            /\ tasks'[p] = tasks[p] \ {a} /\ \A q \in Probes \ {p} : tasks'[q] = tasks[q]
            /\ UNCHANGED <<row, made, tick>>
<1>1. PICK a \in tasks[p] :
        /\ tasks' = [tasks EXCEPT ![p] = @ \ {a}]
        /\ \/ update' = [update EXCEPT ![p].active = "new", ![p].trial = a, ![p].fate[a] = "trial"]
           \/ update' = update
    BY DEF Take
<1>2. a \in Attempts /\ update[p] \in Updates BY DEF ProbesInv, TypeOK
<1>3. update' # update => Becomes(p, Begun(update[p], a))
  <2>1. CASE update' = [update EXCEPT ![p].active = "new", ![p].trial = a, ![p].fate[a] = "trial"]
    <3>1. update'[p] = Begun(update[p], a) BY <1>2, <2>1 DEF ProbesInv, Updates, Begun
    <3>2. update' = [q \in Probes |-> IF q = p THEN update'[p] ELSE update[q]]
        BY <2>1 DEF ProbesInv
    <3> QED BY <3>1, <3>2 DEF Becomes
  <2> QED BY <1>1, <2>1
<1> QED BY <1>1, <1>2, <1>3 DEF Take, ProbesInv, TypeOK

LEMMA OverDoes ==
  ASSUME ProbesInv, NEW p \in Probes, Keep(p) \/ Undo(p)
  PROVE  /\ update[p].trial \in Attempts /\ update[p] \in Updates
         /\ \/ Keep(p) /\ Becomes(p, Over(update[p], update[p].active, "kept"))
            \/ Undo(p) /\ Becomes(p, Over(update[p], "old", "undone"))
         /\ UNCHANGED <<row, tasks, made, tick>>
<1>1. update[p].trial \in Attempts /\ update[p] \in Updates
    BY DEF Keep, Undo, ProbesInv, Updates
<1>2. /\ Keep(p) => update'[p] = Over(update[p], update[p].active, "kept")
      /\ Undo(p) => update'[p] = Over(update[p], "old", "undone")
    BY <1>1 DEF Keep, Undo, ProbesInv, Updates, Over
<1>3. update' = [q \in Probes |-> IF q = p THEN update'[p] ELSE update[q]]
    BY DEF Keep, Undo, ProbesInv
<1> QED BY <1>1, <1>2, <1>3 DEF Keep, Undo, Becomes, server

LEMMA PostDoes ==
  ASSUME ProbesInv, NEW p \in Probes, PostKept(p) \/ PostUndo(p)
  PROVE  \E r \in Reports :
            /\ \/ r.outcome = "success" /\ update[p].fate[r.attempt] = "kept"
               \/ r.outcome = "rolled_back" /\ update[p].trial = r.attempt
            /\ r \notin update[p].posted /\ update[p] \in Updates
            /\ Becomes(p, Posted(update[p], r))
            /\ UNCHANGED <<row, tasks, made, tick>>
<1>1. update[p] \in Updates BY DEF ProbesInv
<1>2. PICK r \in Reports :
        /\ \/ r.outcome = "success" /\ update[p].fate[r.attempt] = "kept"
           \/ r.outcome = "rolled_back" /\ update[p].trial = r.attempt
        /\ Post(p, r)
    BY <1>1 DEF PostKept, PostUndo, Updates, Reports, Results
<1>3. update'[p] = Posted(update[p], r) BY <1>1, <1>2 DEF Post, ProbesInv, Updates, Posted
<1>4. update' = [q \in Probes |-> IF q = p THEN update'[p] ELSE update[q]]
    BY <1>2 DEF Post, ProbesInv
<1>5. r \notin update[p].posted /\ UNCHANGED <<row, tasks, made, tick>>
    BY <1>2 DEF Post, server
<1> QED BY <1>1, <1>2, <1>3, <1>4, <1>5 DEF Becomes

LEMMA ReportDoes ==
  ASSUME ProbesInv, NEW p \in Probes, Report(p)
  PROVE  \E r \in update[p].posted :
            /\ r \in Reports /\ r = [attempt |-> r.attempt, outcome |-> r.outcome]
            /\ r.outcome \notin update[p].told[r.attempt]
            /\ update[p] \in Updates /\ update[p].trial = "none"
            /\ row' = [row EXCEPT ![p] = IF r.outcome = "success" THEN "succeeded" ELSE "rolled_back"]
            /\ Becomes(p, Heard(update[p], r))
            /\ UNCHANGED <<tasks, made, tick>>
<1>1. PICK r \in update[p].posted :
        /\ r.outcome \notin update[p].told[r.attempt]
        /\ row' = [row EXCEPT ![p] = RowState(r.outcome)]
        /\ update' = [update EXCEPT ![p].told[r.attempt] = @ \cup {r.outcome}]
    BY DEF Report
<1>2. r \in Reports /\ update[p] \in Updates BY <1>1 DEF ProbesInv, Updates, Reports
<1>3. update'[p] = Heard(update[p], r)
    BY <1>1, <1>2 DEF ProbesInv, Updates, Reports, Heard
<1>4. update' = [q \in Probes |-> IF q = p THEN update'[p] ELSE update[q]]
    BY <1>1 DEF ProbesInv
<1>5. r = [attempt |-> r.attempt, outcome |-> r.outcome] BY <1>2 DEF Reports
<1> QED BY <1>1, <1>2, <1>3, <1>4, <1>5 DEF Report, RowState, Becomes

LEMMA TickStartProbes ==
  ASSUME ProbesInv, TickStart PROVE ProbesInv'
<1>1. TypeOK'
    BY CampaignAssumption DEF ProbesInv, TypeOK, RowStates, TickStart, Idle, server, observed
<1>2. UNCHANGED update /\ update' \in [Probes -> Updates]
    BY DEF ProbesInv, Updates, TickStart, Idle, server, observed
<1>3. TickShape' BY DEF ProbesInv, TypeOK, TickShape, TickStart, Idle, server, observed
<1>4. \A q \in Probes : Honest(q)'
    BY <1>2, RowsMove DEF ProbesInv, TypeOK, TickStart, Idle, server, observed
<1> QED BY <1>1, <1>2, <1>3, <1>4 DEF ProbesInv

LEMMA TickHaltProbes ==
  ASSUME ProbesInv, TickHalt PROVE ProbesInv'
<1>1. TypeOK'
    BY CampaignAssumption DEF ProbesInv, TypeOK, RowStates, TickHalt, Idle, server, observed
<1>2. UNCHANGED update /\ update' \in [Probes -> Updates]
    BY DEF ProbesInv, Updates, TickHalt, Idle, server, observed
<1>3. TickShape' BY DEF ProbesInv, TypeOK, TickShape, TickHalt, Idle, server, observed
<1>4. \A q \in Probes : Honest(q)'
    BY <1>2, RowsMove DEF ProbesInv, TypeOK, TickHalt, Idle, server, observed
<1> QED BY <1>1, <1>2, <1>3, <1>4 DEF ProbesInv

LEMMA TickDarkProbes ==
  ASSUME ProbesInv, NEW p \in Probes, TickDark(p) PROVE ProbesInv'
<1>1. TypeOK' BY CampaignAssumption DEF ProbesInv, TypeOK, RowStates, TickDark, server, observed
<1>2. UNCHANGED update /\ update' \in [Probes -> Updates]
    BY DEF ProbesInv, Updates, TickDark, server, observed
<1>3. TickShape' BY DEF ProbesInv, TypeOK, TickShape, TickDark, server, observed
<1>4. \A q \in Probes : Honest(q)'
    BY <1>2, RowsMove DEF ProbesInv, TypeOK, TickDark, server, observed
<1> QED BY <1>1, <1>2, <1>3, <1>4 DEF ProbesInv

LEMMA TickRereadProbes ==
  ASSUME ProbesInv, TickReread PROVE ProbesInv'
<1>1. TypeOK'
  <2>1. tick' \in Ticks
    <3>1. tick' = [Idle EXCEPT !.at = "halt"] \/ tick' = [Idle EXCEPT !.at = "plan", !.rows = row]
          \/ tick' = [Idle EXCEPT !.at = "plan", !.rows = tick.rows]
        BY DEF TickReread
    <3>2. row \in [Probes -> RowStates] /\ tick.rows \in [Probes -> RowStates]
        BY DEF ProbesInv, TypeOK
    <3> QED BY <3>1, <3>2, IdleType, BudgetType DEF Ticks
  <2> QED BY <2>1 DEF ProbesInv, TypeOK, TickReread, server, observed, Ticks
<1>2. UNCHANGED update /\ update' \in [Probes -> Updates]
    BY DEF ProbesInv, Updates, TickReread, Idle, server, observed
<1>3. TickShape' BY DEF ProbesInv, TypeOK, TickShape, TickReread, Idle, server, observed
<1>4. \A q \in Probes : Honest(q)'
    BY <1>2, RowsMove DEF ProbesInv, TypeOK, TickReread, Idle, server, observed
<1> QED BY <1>1, <1>2, <1>3, <1>4 DEF ProbesInv

LEMMA TickPlanProbes ==
  ASSUME ProbesInv, TickPlan PROVE ProbesInv'
<1> DEFINE queued == IF over THEN {} ELSE In(tick.rows, {"queued"})
           flying == In(tick.rows, {"dispatched"})
           budget == Budget(Cardinality(flying), Cardinality(In(tick.rows, {"succeeded"})))
<1>0. /\ row' = [q \in Probes |-> IF over /\ tick.rows[q] = "queued" THEN "expired" ELSE row[q]]
      /\ \/ camp' = "done" /\ tick' = Idle
         \/ camp' = camp /\ tick' = Idle
         \/ /\ camp' = camp /\ budget > 0
            /\ tick' = [Idle EXCEPT !.at = "send", !.visit = queued, !.budget = budget]
    BY DEF TickPlan
<1>a. tick' # Idle => queued \in SUBSET Probes /\ budget \in 1..(Batch + Canary)
  <2>1. Cardinality(flying) \in Nat /\ Cardinality(In(tick.rows, {"succeeded"})) \in Nat
      BY Counted DEF In
  <2> QED BY <1>0, <2>1, CampaignAssumption DEF CampaignAssumption, In, Budget
<1>1. TypeOK'
  <2>1. row' \in [Probes -> RowStates] BY <1>0 DEF ProbesInv, TypeOK, RowStates
  <2>2. tick' \in Ticks
    <3>1. CASE tick' = Idle BY <3>1, IdleType
    <3>2. CASE tick' # Idle
      <4> HIDE DEF queued, budget
      <4>1. queued \in SUBSET Probes /\ budget \in 0..(Batch + Canary)
          BY <1>a, <3>2, BudgetType
      <4>2. tick' = [at |-> "send", rows |-> Idle.rows, visit |-> queued, budget |-> budget,
                     hit |-> FALSE]
          BY <1>0, <3>2 DEF Idle
      <4> QED BY <4>1, <4>2, IdleType DEF Ticks
    <3> QED BY <3>1, <3>2
  <2>3. camp' \in {"running", "done", "halted", "aborted"} BY <1>0 DEF ProbesInv, TypeOK
  <2> QED BY <2>1, <2>2, <2>3 DEF ProbesInv, TypeOK, TickPlan, observed, Ticks
<1>2. UNCHANGED update /\ update' \in [Probes -> Updates]
    BY DEF ProbesInv, Updates, TickPlan, Idle, server, observed
<1>3. TickShape'
  <2> HIDE DEF queued, budget
  <2>1. CASE tick' = Idle BY <2>1 DEF TickShape, Idle
  <2>2. CASE tick' # Idle
    <3>1. tick'.at = "send" /\ tick'.rows = Idle.rows /\ ~tick'.hit
        BY <1>0, <2>2 DEF Idle
    <3>2. Idle' = Idle BY DEF Idle
    <3> QED BY <3>1, <3>2 DEF TickShape
  <2> QED BY <2>1, <2>2
<1>4. \A q \in Probes : Honest(q)'
    BY <1>0, <1>2, RowsMove DEF ProbesInv, TypeOK, TickPlan
<1> QED BY <1>1, <1>2, <1>3, <1>4 DEF ProbesInv

LEMMA TickSendProbes ==
  ASSUME ProbesInv, NEW p \in Probes, TickSend(p) PROVE ProbesInv'
<1>0. \/ /\ \E a \in Attempts \ made[p] : /\ made' = [made EXCEPT ![p] = @ \cup {a}]
                                          /\ tasks' = [tasks EXCEPT ![p] = @ \cup {a}]
         /\ tick' = [tick EXCEPT !.at = "mark", !.rows = [tick.rows EXCEPT ![p] = "dispatched"]]
      \/ tick' = [tick EXCEPT !.visit = tick.visit \ {p}] /\ UNCHANGED <<tasks, made>>
    BY DEF TickSend
<1>a. /\ tick \in Ticks /\ tick.at = "send" /\ tick.rows = Idle.rows /\ p \in tick.visit
      /\ tick.budget > 0 /\ ~tick.hit
    BY DEF ProbesInv, TypeOK, TickShape, TickSend, Ticks
<1>1. TypeOK'
  <2>1. tasks' \in [Probes -> SUBSET Attempts] /\ made' \in [Probes -> SUBSET Attempts]
      BY <1>0 DEF ProbesInv, TypeOK
  <2>2. tick' \in Ticks
    <3>1. [tick.rows EXCEPT ![p] = "dispatched"] \in [Probes -> RowStates]
        BY <1>a DEF Ticks, RowStates
    <3>2. tick.visit \ {p} \in SUBSET Probes BY <1>a DEF Ticks
    <3> QED BY <1>0, <1>a, <3>1, <3>2 DEF Ticks
  <2> QED BY <2>1, <2>2 DEF ProbesInv, TypeOK, TickSend, observed, Ticks
<1>2. UNCHANGED update /\ update' \in [Probes -> Updates]
    BY DEF ProbesInv, Updates, TickSend, server, observed
<1>3. TickShape'
  <2>1. CASE tick' = [tick EXCEPT !.visit = tick.visit \ {p}]
      BY <1>a, <2>1 DEF TickShape, Ticks
  <2>2. CASE tick' = [tick EXCEPT !.at = "mark", !.rows = [tick.rows EXCEPT ![p] = "dispatched"]]
    <3>1. /\ tick'.at = "mark" /\ tick'.visit = tick.visit /\ tick'.budget = tick.budget
          /\ tick'.rows = [Idle.rows EXCEPT ![p] = "dispatched"] /\ tick'.hit = tick.hit
        BY <1>a, <2>2 DEF Ticks
    <3> QED BY <1>a, <3>1 DEF TickShape
  <2> QED BY <1>0, <2>1, <2>2
<1>4. \A q \in Probes : Honest(q)'
    BY <1>0, <1>2, RowsMove DEF ProbesInv, TypeOK, TickSend
<1> QED BY <1>1, <1>2, <1>3, <1>4 DEF ProbesInv

LEMMA TickMarkProbes ==
  ASSUME ProbesInv, NEW p \in Probes, TickMark(p) PROVE ProbesInv'
<1>0. /\ row' = row \/ row' = [row EXCEPT ![p] = "dispatched"]
      /\ tick' = [tick EXCEPT !.at = "send", !.rows = [tick.rows EXCEPT ![p] = "queued"],
                              !.visit = tick.visit \ {p}, !.budget = tick.budget - 1]
    BY DEF TickMark
<1>a. /\ tick \in Ticks /\ tick.at = "mark" /\ p \in tick.visit /\ tick.rows[p] = "dispatched"
      /\ tick.budget > 0 /\ ~tick.hit
    BY DEF ProbesInv, TypeOK, TickShape, TickMark, Ticks
<1>b. [tick.rows EXCEPT ![p] = "queued"] = Idle.rows
  <2>1. PICK q \in tick.visit : tick.rows = [Idle.rows EXCEPT ![q] = "dispatched"]
      BY <1>a DEF ProbesInv, TickShape
  <2>2. q = p BY <1>a, <2>1 DEF Idle, Ticks
  <2> QED BY <1>a, <2>1, <2>2 DEF Idle
<1>1. TypeOK'
  <2>1. row' \in [Probes -> RowStates] BY <1>0 DEF ProbesInv, TypeOK, RowStates
  <2>2. tick' \in Ticks
    <3>1. tick.visit \ {p} \in SUBSET Probes /\ tick.budget - 1 \in 0..(Batch + Canary)
        BY <1>a, BudgetType DEF Ticks
    <3> QED BY <1>0, <1>a, <1>b, <3>1, IdleType DEF Ticks
  <2>3. faults' \in 0..MaxFaults /\ unmarked' \subseteq Probes
      BY CampaignAssumption DEF CampaignAssumption, ProbesInv, TypeOK, TickMark, Fault
  <2> QED BY <2>1, <2>2, <2>3 DEF ProbesInv, TypeOK, TickMark, Ticks
<1>2. UNCHANGED update /\ update' \in [Probes -> Updates]
    BY DEF ProbesInv, Updates, TickMark, Fault, server, observed
<1>3. TickShape'
    BY <1>0, <1>a, <1>b DEF TickShape, Ticks
<1>4. \A q \in Probes : Honest(q)'
    BY <1>0, <1>2, RowsMove DEF ProbesInv, TypeOK, TickMark
<1> QED BY <1>1, <1>2, <1>3, <1>4 DEF ProbesInv

LEMMA TickEndProbes ==
  ASSUME ProbesInv, TickEnd PROVE ProbesInv'
<1>1. TypeOK'
    BY CampaignAssumption DEF ProbesInv, TypeOK, RowStates, TickEnd, Idle, server, observed
<1>2. UNCHANGED update /\ update' \in [Probes -> Updates]
    BY DEF ProbesInv, Updates, TickEnd, Idle, server, observed
<1>3. TickShape' BY DEF ProbesInv, TypeOK, TickShape, TickEnd, Idle, server, observed
<1>4. \A q \in Probes : Honest(q)'
    BY <1>2, RowsMove DEF ProbesInv, TypeOK, TickEnd, Idle, server, observed
<1> QED BY <1>1, <1>2, <1>3, <1>4 DEF ProbesInv

LEMMA TakeProbes ==
  ASSUME ProbesInv, NEW p \in Probes, Take(p) PROVE ProbesInv'
<1>0. PICK a \in tasks[p] :
        /\ a \in Attempts /\ update[p] \in Updates /\ update[p].trial = "none"
        /\ Becomes(p, Begun(update[p], a)) \/ update' = update
        /\ tasks'[p] = tasks[p] \ {a} /\ \A q \in Probes \ {p} : tasks'[q] = tasks[q]
        /\ UNCHANGED <<row, made, tick>>
    BY TakeDoes
<1>1. TypeOK'
    BY CampaignAssumption DEF ProbesInv, TypeOK, RowStates, Take, Fault, server, observed
<1>2. update' \in [Probes -> Updates]
  <2>1. Begun(update[p], a) \in Updates BY <1>0 DEF Updates, Begun
  <2> QED BY <1>0, <2>1 DEF ProbesInv, Becomes
<1>3. TickShape' BY DEF ProbesInv, TypeOK, TickShape, Take, Fault, server, observed
<1>4. \A q \in Probes : Honest(q)'
  <2>1. \A q \in Probes \ {p} : Honest(q)'
      BY <1>0, OthersStay DEF ProbesInv, TypeOK, Becomes
  <2>2. CASE update' = update
      BY <1>0, <2>1, <2>2, OthersStay DEF ProbesInv, TypeOK
  <2>3. CASE Becomes(p, Begun(update[p], a))
    <3>1. update'[p] = Begun(update[p], a) BY <2>3 DEF Becomes
    <3>2. Honest(p) /\ update[p].fate[a] = "none" /\ a \in made[p]
        BY <1>0 DEF ProbesInv, Honest
    <3>3. Honest(p)' BY <1>0, <3>1, <3>2, NoneIsNoAttempt DEF Honest, Kept, Updates, Begun
    <3> QED BY <2>1, <3>3
  <2> QED BY <1>0, <2>2, <2>3
<1> QED BY <1>1, <1>2, <1>3, <1>4 DEF ProbesInv

LEMMA OverProbes ==
  ASSUME ProbesInv, NEW p \in Probes, Keep(p) \/ Undo(p) PROVE ProbesInv'
<1>0. /\ update[p].trial \in Attempts /\ update[p] \in Updates
      /\ \/ Keep(p) /\ Becomes(p, Over(update[p], update[p].active, "kept"))
         \/ Undo(p) /\ Becomes(p, Over(update[p], "old", "undone"))
      /\ UNCHANGED <<row, tasks, made, tick>>
    BY OverDoes
<1>1. TypeOK' BY CampaignAssumption DEF ProbesInv, TypeOK, RowStates, Keep, Undo, server, observed
<1>2. update' \in [Probes -> Updates]
  <2>1. /\ Over(update[p], update[p].active, "kept") \in Updates
        /\ Over(update[p], "old", "undone") \in Updates
      BY <1>0 DEF Updates, Over
  <2> QED BY <1>0, <2>1 DEF ProbesInv, Becomes
<1>3. TickShape' BY DEF ProbesInv, TypeOK, TickShape, Keep, Undo, server, observed
<1>4. \A q \in Probes : Honest(q)'
  <2>1. \A q \in Probes \ {p} : Honest(q)'
      BY <1>0, OthersStay DEF ProbesInv, Becomes
  <2>2. Honest(p) BY DEF ProbesInv
  <2>3. update[p].fate[update[p].trial] = "trial" BY <1>0, <2>2, NoneIsNoAttempt DEF Honest
  <2>4. CASE Keep(p) /\ Becomes(p, Over(update[p], update[p].active, "kept"))
    <3>1. /\ update'[p] = Over(update[p], update[p].active, "kept")
          /\ [attempt |-> update[p].trial, outcome |-> "rolled_back"] \notin update[p].posted
        BY <2>4 DEF Becomes, Keep
    <3>2. Honest(p)' BY <1>0, <2>2, <2>3, <3>1, NoneIsNoAttempt DEF Honest, Kept, Updates, Over
    <3> QED BY <2>1, <3>2
  <2>5. CASE Undo(p) /\ Becomes(p, Over(update[p], "old", "undone"))
    <3>1. update'[p] = Over(update[p], "old", "undone") BY <2>5 DEF Becomes
    <3>2. Honest(p)' BY <1>0, <2>2, <2>3, <3>1, NoneIsNoAttempt DEF Honest, Kept, Updates, Over
    <3> QED BY <2>1, <3>2
  <2> QED BY <1>0, <2>4, <2>5
<1> QED BY <1>1, <1>2, <1>3, <1>4 DEF ProbesInv

LEMMA PostProbes ==
  ASSUME ProbesInv, NEW p \in Probes, PostKept(p) \/ PostUndo(p) PROVE ProbesInv'
<1>0. PICK r \in Reports :
        /\ \/ r.outcome = "success" /\ update[p].fate[r.attempt] = "kept"
           \/ r.outcome = "rolled_back" /\ update[p].trial = r.attempt
        /\ r \notin update[p].posted /\ update[p] \in Updates
        /\ Becomes(p, Posted(update[p], r))
        /\ UNCHANGED <<row, tasks, made, tick>>
    BY PostDoes
<1>1. TypeOK'
    BY CampaignAssumption
       DEF ProbesInv, TypeOK, RowStates, PostKept, PostUndo, Post, server, observed
<1>2. update' \in [Probes -> Updates]
  <2>1. Posted(update[p], r) \in Updates BY <1>0 DEF Updates, Posted, Reports
  <2> QED BY <1>0, <2>1 DEF ProbesInv, Becomes
<1>3. TickShape' BY DEF ProbesInv, TypeOK, TickShape, PostKept, PostUndo, Post, server, observed
<1>4. \A q \in Probes : Honest(q)'
  <2>1. \A q \in Probes \ {p} : Honest(q)'
      BY <1>0, OthersStay DEF ProbesInv, Becomes
  <2>2. update'[p] = Posted(update[p], r) /\ Honest(p) BY <1>0 DEF ProbesInv, Becomes
  <2>3. Honest(p)' BY <1>0, <2>2 DEF Honest, Kept, Updates, Posted, Reports
  <2> QED BY <2>1, <2>3
<1> QED BY <1>1, <1>2, <1>3, <1>4 DEF ProbesInv

LEMMA LoseReportProbes ==
  ASSUME ProbesInv, NEW p \in Probes, LoseReport(p) PROVE ProbesInv'
<1>1. TypeOK'
    BY CampaignAssumption DEF ProbesInv, TypeOK, RowStates, LoseReport, Fault, server, observed
<1>2. UNCHANGED update /\ update' \in [Probes -> Updates]
    BY DEF ProbesInv, Updates, LoseReport, Fault, server, observed
<1>3. TickShape' BY DEF ProbesInv, TypeOK, TickShape, LoseReport, Fault, server, observed
<1>4. \A q \in Probes : Honest(q)'
    BY <1>2, RowsMove DEF ProbesInv, TypeOK, LoseReport, Fault, server, observed
<1> QED BY <1>1, <1>2, <1>3, <1>4 DEF ProbesInv

LEMMA ReportProbes ==
  ASSUME ProbesInv, NEW p \in Probes, Report(p) PROVE ProbesInv'
<1>0. PICK r \in update[p].posted :
        /\ r \in Reports /\ r = [attempt |-> r.attempt, outcome |-> r.outcome]
        /\ r.outcome \notin update[p].told[r.attempt]
        /\ update[p] \in Updates /\ update[p].trial = "none"
        /\ row' = [row EXCEPT ![p] = IF r.outcome = "success" THEN "succeeded" ELSE "rolled_back"]
        /\ Becomes(p, Heard(update[p], r))
        /\ UNCHANGED <<tasks, made, tick>>
    BY ReportDoes
<1>1. TypeOK'
    BY CampaignAssumption DEF ProbesInv, TypeOK, RowStates, Report, RowState, server, observed
<1>2. update' \in [Probes -> Updates]
  <2>1. Heard(update[p], r) \in Updates BY <1>0 DEF Updates, Heard, Reports
  <2> QED BY <1>0, <2>1 DEF ProbesInv, Becomes
<1>3. TickShape' BY DEF ProbesInv, TypeOK, TickShape, Report, RowState, server, observed
<1>4. \A q \in Probes : Honest(q)'
  <2>1. \A q \in Probes \ {p} : Honest(q)'
      BY <1>0, OthersStay DEF ProbesInv, TypeOK, Becomes
  <2>2. /\ update'[p] = Heard(update[p], r) /\ Honest(p)
        /\ row'[p] = IF r.outcome = "success" THEN "succeeded" ELSE "rolled_back"
      BY <1>0 DEF ProbesInv, TypeOK, Becomes
  <2>3. r.attempt \in Attempts /\ r.outcome \in {"success", "rolled_back"}
      BY <1>0 DEF Reports, Results
  <2>4. /\ r.outcome = "success" => update[p].fate[r.attempt] = "kept"
        /\ r.outcome = "rolled_back" => update[p].fate[r.attempt] = "undone"
    <3>1. update[p].fate[r.attempt] # "trial"
      <4>1. update[p].trial # r.attempt BY <1>0, <2>3, NoneIsNoAttempt
      <4> QED BY <2>2, <2>3, <4>1 DEF Honest
    <3>2. [attempt |-> r.attempt, outcome |-> r.outcome] \in update[p].posted BY <1>0
    <3> QED BY <2>2, <2>3, <3>1, <3>2 DEF Honest
  <2>5. Honest(p)' BY <1>0, <2>2, <2>3, <2>4 DEF Honest, Kept, Updates, Heard
  <2> QED BY <2>1, <2>5
<1> QED BY <1>1, <1>2, <1>3, <1>4 DEF ProbesInv

LEMMA ExpireTasksProbes ==
  ASSUME ProbesInv, NEW p \in Probes, ExpireTasks(p) PROVE ProbesInv'
<1>1. TypeOK'
    BY CampaignAssumption DEF ProbesInv, TypeOK, RowStates, ExpireTasks, server, observed
<1>2. UNCHANGED update /\ update' \in [Probes -> Updates]
    BY DEF ProbesInv, Updates, ExpireTasks, server, observed
<1>3. TickShape' BY DEF ProbesInv, TypeOK, TickShape, ExpireTasks, server, observed
<1>4. \A q \in Probes : Honest(q)'
    BY <1>2, RowsMove DEF ProbesInv, TypeOK, ExpireTasks, server, observed
<1> QED BY <1>1, <1>2, <1>3, <1>4 DEF ProbesInv

LEMMA SilentProbes ==
  ASSUME ProbesInv, NEW p \in Probes, Silent(p) PROVE ProbesInv'
<1>1. TypeOK'
    BY CampaignAssumption DEF ProbesInv, TypeOK, RowStates, Silent, Fault, server, observed
<1>2. UNCHANGED update /\ update' \in [Probes -> Updates]
    BY DEF ProbesInv, Updates, Silent, Fault, server, observed
<1>3. TickShape' BY DEF ProbesInv, TypeOK, TickShape, Silent, Fault, server, observed
<1>4. \A q \in Probes : Honest(q)'
    BY <1>2, RowsMove DEF ProbesInv, TypeOK, Silent, Fault, server, observed
<1> QED BY <1>1, <1>2, <1>3, <1>4 DEF ProbesInv

LEMMA BackProbes ==
  ASSUME ProbesInv, NEW p \in Probes, Back(p) PROVE ProbesInv'
<1>1. TypeOK' BY CampaignAssumption DEF ProbesInv, TypeOK, RowStates, Back, server, observed
<1>2. UNCHANGED update /\ update' \in [Probes -> Updates]
    BY DEF ProbesInv, Updates, Back, server, observed
<1>3. TickShape' BY DEF ProbesInv, TypeOK, TickShape, Back, server, observed
<1>4. \A q \in Probes : Honest(q)' BY <1>2, RowsMove DEF ProbesInv, TypeOK, Back, server, observed
<1> QED BY <1>1, <1>2, <1>3, <1>4 DEF ProbesInv

LEMMA WindowPassesProbes ==
  ASSUME ProbesInv, WindowPasses PROVE ProbesInv'
<1>1. TypeOK'
    BY CampaignAssumption DEF ProbesInv, TypeOK, RowStates, WindowPasses, server, observed
<1>2. UNCHANGED update /\ update' \in [Probes -> Updates]
    BY DEF ProbesInv, Updates, WindowPasses, server, observed
<1>3. TickShape' BY DEF ProbesInv, TypeOK, TickShape, WindowPasses, server, observed
<1>4. \A q \in Probes : Honest(q)'
    BY <1>2, RowsMove DEF ProbesInv, TypeOK, WindowPasses, server, observed
<1> QED BY <1>1, <1>2, <1>3, <1>4 DEF ProbesInv

LEMMA AbortProbes ==
  ASSUME ProbesInv, Abort PROVE ProbesInv'
<1>1. TypeOK' BY CampaignAssumption DEF ProbesInv, TypeOK, RowStates, Abort, server, observed
<1>2. UNCHANGED update /\ update' \in [Probes -> Updates]
    BY DEF ProbesInv, Updates, Abort, server, observed
<1>3. TickShape' BY DEF ProbesInv, TypeOK, TickShape, Abort, server, observed
<1>4. \A q \in Probes : Honest(q)'
    BY <1>2, RowsMove DEF ProbesInv, TypeOK, Abort, server, observed
<1> QED BY <1>1, <1>2, <1>3, <1>4 DEF ProbesInv

LEMMA InitProbes == Init => ProbesInv
<1> SUFFICES ASSUME Init PROVE ProbesInv
    OBVIOUS
<1>1. update \in [Probes -> Updates]
  <2>1. NoUpdate \in Updates BY DEF NoUpdate, Updates
  <2> QED BY <2>1 DEF Init
<1>2. TypeOK
  <2>1. tick \in Ticks BY IdleType DEF Init
  <2>2. faults \in 0..MaxFaults BY CampaignAssumption DEF Init
  <2> QED BY <2>1, <2>2 DEF Init, TypeOK, RowStates, Ticks
<1>3. TickShape BY DEF Init, TickShape, Idle
<1>4. \A q \in Probes : Honest(q) BY NoneIsNoAttempt DEF Init, NoUpdate, Honest
<1> QED BY <1>1, <1>2, <1>3, <1>4 DEF ProbesInv

LEMMA NextProbes == ProbesInv /\ [Next]_vars => ProbesInv'
<1> SUFFICES ASSUME ProbesInv, [Next]_vars PROVE ProbesInv'
    OBVIOUS
<1>1. CASE Tick
    BY <1>1, TickStartProbes, TickHaltProbes, TickRereadProbes, TickPlanProbes, TickEndProbes,
       TickDarkProbes, TickSendProbes, TickMarkProbes DEF Tick
<1>2. ASSUME NEW p \in Probes, ProbeStep(p) PROVE ProbesInv'
    BY <1>2, TakeProbes, OverProbes, PostProbes, LoseReportProbes, ReportProbes,
       ExpireTasksProbes, SilentProbes, BackProbes DEF ProbeStep, Settle
<1>3. CASE WindowPasses \/ Abort
    BY <1>3, WindowPassesProbes, AbortProbes
<1>4. CASE UNCHANGED vars
  <2> USE <1>4 DEF vars, server, observed
  <2>1. TypeOK' /\ update' \in [Probes -> Updates] BY DEF ProbesInv, TypeOK, Updates
  <2>2. TickShape' BY DEF ProbesInv, TickShape
  <2>3. \A q \in Probes : Honest(q)' BY DEF ProbesInv, Honest, Kept
  <2> QED BY <2>1, <2>2, <2>3 DEF ProbesInv
<1> QED BY <1>1, <1>2, <1>3, <1>4 DEF Next

LEMMA AlwaysProbes == Spec => []ProbesInv
<1> QED BY InitProbes, NextProbes, PTL DEF Spec

-----------------------------------------------------------------------------
(* The refinement, probe by probe.                                         *)

LEMMA TakeIsManaged ==
  ASSUME ProbesInv, NEW p \in Probes, Take(p)
  PROVE  UNCHANGED update[p] \/ \E a \in Attempts : ProbeOf(p)!Begin(a)
<1>1. PICK a \in tasks[p] :
        /\ a \in Attempts /\ update[p] \in Updates /\ update[p].trial = "none"
        /\ Becomes(p, Begun(update[p], a)) \/ update' = update
    BY TakeDoes
<1>2. CASE Becomes(p, Begun(update[p], a))
  <2>1. update'[p] = Begun(update[p], a) BY <1>2 DEF Becomes
  <2>2. update[p].fate[a] = "none" BY <1>1 DEF ProbesInv, Honest
  <2>3. update'[p].fate = [b \in Attempts |-> IF b = a THEN "trial"
                           ELSE IF b = update[p].trial THEN "displaced" ELSE update[p].fate[b]]
      BY <1>1, <2>1, NoneIsNoAttempt DEF Begun, Updates
  <2>4. ProbeOf(p)!Begin(a)
      BY <1>1, <2>1, <2>2, <2>3 DEF Begun, ProbeOf!Begin
  <2> QED BY <1>1, <2>4
<1> QED BY <1>1, <1>2

LEMMA OverIsManaged ==
  ASSUME ProbesInv, NEW p \in Probes, Keep(p) \/ Undo(p)
  PROVE  ProbeOf(p)!Keep \/ ProbeOf(p)!Undo
<1>1. /\ update[p].trial \in Attempts /\ update[p] \in Updates
      /\ \/ Keep(p) /\ Becomes(p, Over(update[p], update[p].active, "kept"))
         \/ Undo(p) /\ Becomes(p, Over(update[p], "old", "undone"))
    BY OverDoes
<1>2. CASE Keep(p) /\ Becomes(p, Over(update[p], update[p].active, "kept"))
  <2>1. update'[p] = Over(update[p], update[p].active, "kept") BY <1>2 DEF Becomes
  <2> QED BY <1>1, <2>1 DEF Over, ProbeOf!Keep
<1>3. CASE Undo(p) /\ Becomes(p, Over(update[p], "old", "undone"))
  <2>1. /\ update'[p] = Over(update[p], "old", "undone")
        /\ [attempt |-> update[p].trial, outcome |-> "rolled_back"] \in update[p].posted
      BY <1>3 DEF Becomes, Undo
  <2> QED BY <1>1, <2>1 DEF Over, ProbeOf!Undo
<1> QED BY <1>1, <1>2, <1>3

LEMMA PostIsManaged ==
  ASSUME ProbesInv, NEW p \in Probes, PostKept(p) \/ PostUndo(p)
  PROVE  \E r \in ProbeOf(p)!Reports : ProbeOf(p)!Post(r)
<1>1. PICK r \in Reports :
        /\ \/ r.outcome = "success" /\ update[p].fate[r.attempt] = "kept"
           \/ r.outcome = "rolled_back" /\ update[p].trial = r.attempt
        /\ Becomes(p, Posted(update[p], r))
    BY PostDoes
<1>2. update'[p] = Posted(update[p], r) BY <1>1 DEF Becomes
<1>3. r \in ProbeOf(p)!Reports BY DEF Reports, Results, ProbeOf!Reports, ProbeOf!Outcomes
<1>4. ProbeOf(p)!Post(r) BY <1>1, <1>2 DEF Reports, Posted, ProbeOf!Post
<1> QED BY <1>3, <1>4

LEMMA ReportIsManaged ==
  ASSUME ProbesInv, NEW p \in Probes, Report(p)
  PROVE  \E r \in ProbeOf(p)!Reports : ProbeOf(p)!Tell(r)
<1>1. PICK r \in update[p].posted : r \in Reports /\ Becomes(p, Heard(update[p], r))
    BY ReportDoes
<1>2. update'[p] = Heard(update[p], r) BY <1>1 DEF Becomes
<1>3. r \in ProbeOf(p)!Reports BY <1>1 DEF Reports, Results, ProbeOf!Reports, ProbeOf!Outcomes
<1>4. ProbeOf(p)!Tell(r) BY <1>1, <1>2 DEF Reports, Heard, ProbeOf!Tell
<1> QED BY <1>3, <1>4

LEMMA NextIsManaged ==
  ASSUME ProbesInv, [Next]_vars
  PROVE  (\A q \in Probes : ProbeOf(q)!Next \/ UNCHANGED update[q]) \/ UNCHANGED update
<1>1. ASSUME NEW p \in Probes, Take(p) \/ Settle(p) \/ Report(p)
      PROVE  \A q \in Probes : ProbeOf(q)!Next \/ UNCHANGED update[q]
  <2>1. \A q \in Probes \ {p} : UNCHANGED update[q]
      BY <1>1, TakeDoes, OverDoes, PostDoes, ReportDoes DEF Settle, Becomes
  <2>2. ProbeOf(p)!Next \/ UNCHANGED update[p]
      BY <1>1, TakeIsManaged, OverIsManaged, PostIsManaged, ReportIsManaged
         DEF Settle, ProbeOf!Next
  <2> QED BY <2>1, <2>2
<1>2. CASE Tick
    BY <1>2
       DEF Tick, TickStart, TickHalt, TickReread, TickPlan, TickEnd, TickDark, TickSend, TickMark
<1>3. ASSUME NEW p \in Probes, LoseReport(p) \/ ExpireTasks(p) \/ Silent(p) \/ Back(p)
      PROVE  UNCHANGED update
    BY <1>3 DEF LoseReport, ExpireTasks, Silent, Back
<1>4. CASE WindowPasses \/ Abort \/ UNCHANGED vars
    BY <1>4 DEF WindowPasses, Abort, vars
<1> QED BY <1>1, <1>2, <1>3, <1>4 DEF Next, ProbeStep

\* Whatever the campaign does, every probe of it behaves as ManagedProbe says,
\* which is what the supervisor implements.
THEOREM ProbesAreAlwaysManaged == Spec => ProbesAreManaged
<1>1. Init => \A p \in Probes : ProbeOf(p)!Init
  <2> SUFFICES ASSUME Init, NEW p \in Probes PROVE ProbeOf(p)!Init
      OBVIOUS
  <2>1. update[p] = NoUpdate BY DEF Init
  <2> QED BY <2>1 DEF NoUpdate, ProbeOf!Init
<1>2. ProbesInv /\ [Next]_vars
        => [\A p \in Probes : ProbeOf(p)!Next \/ UNCHANGED update[p]]_update
    BY NextIsManaged
<1> QED BY <1>1, <1>2, AlwaysProbes, PTL DEF Spec, ProbesAreManaged

-----------------------------------------------------------------------------
(* Counting probes.                                                        *)

LEMMA Smaller ==
  ASSUME NEW S \in SUBSET Probes, NEW T \in SUBSET S
  PROVE  Cardinality(T) <= Cardinality(S)
BY Counted, FS_Subset

LEMMA OneMore ==
  ASSUME NEW S \in SUBSET Probes, NEW p \in Probes
  PROVE  Cardinality(S \cup {p}) <= Cardinality(S) + 1
<1>1. IsFiniteSet(S) /\ Cardinality(S) \in Nat BY Counted
<1>2. Cardinality(S \cup {p}) = IF p \in S THEN Cardinality(S) ELSE Cardinality(S) + 1
    BY <1>1, FS_AddElement
<1> QED BY <1>1, <1>2

LEMMA Together ==
  ASSUME NEW S \in SUBSET Probes, NEW T \in SUBSET Probes
  PROVE  Cardinality(S \cup T) <= Cardinality(S) + Cardinality(T)
<1>1. /\ IsFiniteSet(S) /\ IsFiniteSet(T)
      /\ Cardinality(S) \in Nat /\ Cardinality(T) \in Nat /\ Cardinality(S \cap T) \in Nat
    BY Counted
<1>2. Cardinality(S \cup T) = Cardinality(S) + Cardinality(T) - Cardinality(S \cap T)
    BY <1>1, FS_Union
<1> QED BY <1>1, <1>2

LEMMA Bounds == Canary \in Nat /\ Batch \in Nat /\ Limit \in Nat
BY CampaignAssumption DEF Limit

LEMMA LeftType == ASSUME ProbesInv PROVE Left \in Nat
BY BudgetType DEF ProbesInv, TypeOK, TickShape, Left

\* The waves hold on as long as nothing is dispatched, and nothing forgotten.
LEMMA WavesMove ==
  ASSUME ProbesInv, ProbesInv', Waves, UNCHANGED halt,
         (In(row, {"dispatched"}) \cup Marking)' \subseteq In(row, {"dispatched"}) \cup Marking,
         Kept \subseteq Kept', Tried' \subseteq Tried, Left' <= Left
  PROVE  Waves'
<1>1. Left \in Nat /\ Left' \in Nat
    BY LeftType, BudgetType DEF ProbesInv, TypeOK, TickShape, Left
<1> DEFINE D == In(row, {"dispatched"}) \cup Marking
<1>2. D \in SUBSET Probes /\ Kept' \in SUBSET Probes /\ Tried \in SUBSET Probes
    BY DEF In, Marking, Kept, Tried, ProbesInv, TypeOK
<1>3. D' \in SUBSET D /\ Tried' \in SUBSET Tried /\ Kept \in SUBSET Kept'
    OBVIOUS
<1>5. /\ Cardinality(D') <= Cardinality(D) /\ Cardinality(Tried') <= Cardinality(Tried)
      /\ Cardinality(Kept) <= Cardinality(Kept')
  <2> HIDE DEF D
  <2>1. Cardinality(D') <= Cardinality(D) BY <1>2, <1>3, Smaller
  <2>2. Cardinality(Tried') <= Cardinality(Tried) BY <1>2, <1>3, Smaller
  <2>3. Cardinality(Kept) <= Cardinality(Kept') BY <1>2, <1>3, Smaller
  <2> QED BY <2>1, <2>2, <2>3
<1>6. /\ Cardinality(D') \in Nat /\ Cardinality(Tried') \in Nat /\ Cardinality(Kept') \in Nat
      /\ Cardinality(D) \in Nat /\ Cardinality(Tried) \in Nat /\ Cardinality(Kept) \in Nat
  <2>1. /\ D' \in SUBSET Probes /\ Tried' \in SUBSET Probes /\ Kept \in SUBSET Probes
      BY <1>2, <1>3
  <2> HIDE DEF D
  <2> QED BY <1>2, <2>1, Counted
<1>4. Limit' = Limit BY DEF Limit
<1> QED BY <1>1, <1>4, <1>5, <1>6, Bounds DEF Waves

-----------------------------------------------------------------------------
(* The rows.                                                               *)

\* Steps of a probe that the tables do not see.
LEMMA RowsStay ==
  ASSUME ProbesInv, ProbesInv', RowsInv, Waves, UNCHANGED <<row, made, tick, halt>>,
         camp' = "done" => camp = "done",
         \A q \in Probes : q \in Busy' => q \in Busy,
         \A q \in Probes : Told(q) => Told(q)',
         Kept \subseteq Kept'
  PROVE  RowsInv' /\ Waves'
<1>1. /\ Marking' = Marking /\ Tried' = Tried /\ Left' = Left
      /\ \A S : In(row, S)' = In(row, S)
    BY DEF Marking, Tried, Left, In
<1>2. \A q \in Probes : OneTask(q)' BY <1>1 DEF RowsInv, OneTask
<1>3. \A q \in Probes : Fresh(q)' BY DEF RowsInv, Fresh
<1>4. Stopped' BY DEF RowsInv, Stopped, In, Idle, Failures
<1>5. Waves' BY <1>1, WavesMove, LeftType
<1> QED BY <1>2, <1>3, <1>4, <1>5 DEF RowsInv

LEMMA ProbeRows ==
  ASSUME ProbesInv, ProbesInv', RowsInv, Waves, NEW p \in Probes,
         Take(p) \/ Settle(p) \/ LoseReport(p) \/ ExpireTasks(p) \/ Silent(p) \/ Back(p)
  PROVE  RowsInv' /\ Waves'
<1>1. CASE Take(p)
  <2>1. PICK a \in tasks[p] :
          /\ a \in Attempts /\ update[p] \in Updates /\ update[p].trial = "none"
          /\ Becomes(p, Begun(update[p], a)) \/ update' = update
          /\ tasks'[p] = tasks[p] \ {a} /\ \A q \in Probes \ {p} : tasks'[q] = tasks[q]
          /\ UNCHANGED <<row, made, tick>>
      BY <1>1, TakeDoes
  <2>2. \A q \in Probes \ {p} : update'[q] = update[q] BY <2>1 DEF Becomes
  <2>3. \A q \in Probes : q \in Busy' => q \in Busy BY <2>1, <2>2 DEF Busy
  <2>4. update'[p].told = update[p].told BY <2>1 DEF Becomes, Begun
  <2>5. \A q \in Probes : Told(q) => Told(q)' BY <2>2, <2>4 DEF Told
  <2>6. \A b \in Attempts : update[p].fate[b] = "kept" => update'[p].fate[b] = "kept"
    <3>1. update[p].fate[a] = "none" BY <2>1 DEF ProbesInv, Honest
    <3> QED BY <2>1, <3>1 DEF Becomes, Begun, Updates
  <2>7. Kept \subseteq Kept' BY <2>2, <2>6 DEF Kept
  <2> QED BY <1>1, <2>1, <2>3, <2>5, <2>7, RowsStay DEF Take
<1>2. CASE Keep(p) \/ Undo(p)
  <2>1. /\ update[p].trial \in Attempts /\ update[p] \in Updates
        /\ \/ Becomes(p, Over(update[p], update[p].active, "kept"))
           \/ Becomes(p, Over(update[p], "old", "undone"))
        /\ UNCHANGED <<row, tasks, made, tick>>
      BY <1>2, OverDoes
  <2>2. \A q \in Probes \ {p} : update'[q] = update[q] BY <2>1 DEF Becomes
  <2>3. update'[p].trial = "none" /\ update'[p].told = update[p].told
      BY <2>1 DEF Becomes, Over
  <2>4. \A q \in Probes : q \in Busy' => q \in Busy BY <2>1, <2>2, <2>3 DEF Busy
  <2>5. \A q \in Probes : Told(q) => Told(q)' BY <2>2, <2>3 DEF Told
  <2>6. \A b \in Attempts : update[p].fate[b] = "kept" => update'[p].fate[b] = "kept"
    <3>1. Honest(p) BY DEF ProbesInv
    <3>2. update[p].fate[update[p].trial] = "trial" BY <2>1, <3>1 DEF Honest
    <3> QED BY <2>1, <3>2 DEF Becomes, Over, Updates
  <2>7. Kept \subseteq Kept' BY <2>2, <2>6 DEF Kept
  <2> QED BY <1>2, <2>1, <2>4, <2>5, <2>7, RowsStay DEF Keep, Undo, server
<1>3. CASE PostKept(p) \/ PostUndo(p)
  <2>1. PICK r \in Reports :
          /\ Becomes(p, Posted(update[p], r))
          /\ UNCHANGED <<row, tasks, made, tick>>
      BY <1>3, PostDoes
  <2>2. \A q \in Probes : /\ update'[q].trial = update[q].trial
                          /\ update'[q].told = update[q].told /\ update'[q].fate = update[q].fate
      BY <2>1 DEF Becomes, Posted
  <2>3. /\ \A q \in Probes : q \in Busy' => q \in Busy
        /\ \A q \in Probes : Told(q) => Told(q)'
        /\ Kept \subseteq Kept'
      BY <2>1, <2>2 DEF Busy, Told, Kept
  <2> QED BY <1>3, <2>1, <2>3, RowsStay DEF PostKept, PostUndo, Post, server
<1>4. CASE LoseReport(p) \/ ExpireTasks(p) \/ Silent(p) \/ Back(p)
  <2>1. /\ UNCHANGED <<row, made, tick, halt, camp, update>>
        /\ \A q \in Probes : tasks'[q] \subseteq tasks[q]
      BY <1>4 DEF LoseReport, ExpireTasks, Silent, Back, server, ProbesInv, TypeOK
  <2>2. /\ \A q \in Probes : q \in Busy' => q \in Busy
        /\ \A q \in Probes : Told(q) => Told(q)'
        /\ Kept \subseteq Kept'
      BY <2>1 DEF Busy, Told, Kept
  <2> QED BY <2>1, <2>2, RowsStay
<1> QED BY <1>1, <1>2, <1>3, <1>4 DEF Settle

\* A report is the only one of its probe.
LEMMA ReportRows ==
  ASSUME ProbesInv, ProbesInv', RowsInv, Waves, NEW p \in Probes, Report(p)
  PROVE  RowsInv' /\ Waves'
<1>1. PICK r \in update[p].posted :
        /\ r \in Reports /\ r = [attempt |-> r.attempt, outcome |-> r.outcome]
        /\ r.outcome \notin update[p].told[r.attempt]
        /\ update[p] \in Updates /\ update[p].trial = "none"
        /\ row' = [row EXCEPT ![p] = IF r.outcome = "success" THEN "succeeded" ELSE "rolled_back"]
        /\ Becomes(p, Heard(update[p], r))
        /\ UNCHANGED <<tasks, made, tick>>
    BY ReportDoes
<1> DEFINE a == r.attempt
<1>2. a \in Attempts /\ r.outcome \in Results /\ Honest(p) /\ OneTask(p) /\ Fresh(p)
    BY <1>1 DEF Reports, ProbesInv, RowsInv
<1>3. /\ r.outcome = "success" => update[p].fate[a] = "kept"
      /\ r.outcome = "rolled_back" => update[p].fate[a] = "undone"
  <2>1. [attempt |-> a, outcome |-> r.outcome] \in update[p].posted BY <1>1
  <2>2. update[p].fate[a] # "trial" BY <1>1, <1>2, NoneIsNoAttempt DEF Honest
  <2> QED BY <1>2, <2>1, <2>2 DEF Honest
<1>4. a \in made[p] /\ tasks[p] = {}
  <2>1. update[p].fate[a] # "none" BY <1>2, <1>3 DEF Results
  <2>2. a \in made[p] /\ a \notin tasks[p] BY <1>2, <2>1 DEF Honest
  <2> QED BY <1>2, <2>2 DEF Honest, OneTask
<1>5. row[p] \in {"dispatched", "failed_offline"}
  <2>1. p \notin Marking BY DEF Report, Marking
  <2>2. row[p] \notin {"queued", "expired"} BY <1>2, <1>4, <2>1 DEF OneTask
  <2>3. ASSUME row[p] \in {"succeeded", "rolled_back"} PROVE FALSE
    <3>1. PICK b \in Attempts : update[p].told[b] # {} BY <1>2, <2>3 DEF OneTask, Told
    <3>2. PICK o \in update[p].told[b] : o \in Results BY <1>1, <3>1 DEF Updates
    <3>3. [attempt |-> b, outcome |-> o] \in update[p].posted BY <1>2, <3>1, <3>2 DEF Honest
    <3>4. /\ o = "success" => update[p].fate[b] = "kept"
          /\ o = "rolled_back" => update[p].fate[b] \in {"trial", "undone"}
        BY <1>2, <3>1, <3>3 DEF Honest
    <3>5. b \in made[p] BY <1>2, <3>2, <3>4 DEF Honest, Results
    <3>6. b = a BY <1>2, <1>4, <3>5 DEF OneTask
    <3>7. o = r.outcome BY <1>2, <1>3, <3>2, <3>4, <3>6 DEF Results
    <3> QED BY <1>1, <3>2, <3>6, <3>7
  <2> QED BY <2>2, <2>3 DEF ProbesInv, TypeOK, RowStates
<1>6. /\ row'[p] \in {"succeeded", "rolled_back"} /\ \A q \in Probes \ {p} : row'[q] = row[q]
      /\ update'[p] = Heard(update[p], r) /\ \A q \in Probes \ {p} : update'[q] = update[q]
      /\ Marking' = Marking
    BY <1>1 DEF ProbesInv, TypeOK, Becomes, Marking
<1>7. OneTask(p)'
  <2>1. p \notin Busy' BY <1>1, <1>4, <1>6 DEF Busy, Heard
  <2>2. Told(p)' BY <1>1, <1>2, <1>6 DEF Told, Heard, Updates
  <2>3. p \notin tick.visit
    <3>1. p \in tick.visit => row[p] = "queued" BY <1>2 DEF OneTask
    <3> QED BY <1>5, <3>1
  <2> QED BY <1>1, <1>2, <1>6, <2>1, <2>2, <2>3 DEF OneTask
<1>8. \A q \in Probes \ {p} : OneTask(q)'
  <2> SUFFICES ASSUME NEW q \in Probes \ {p} PROVE OneTask(q)'
      OBVIOUS
  <2>1. OneTask(q) BY DEF RowsInv
  <2>2. q \notin Busy => q \notin Busy' BY <1>1, <1>6 DEF Busy
  <2>3. Told(q) => Told(q)' BY <1>6 DEF Told
  <2> QED BY <1>1, <1>6, <2>1, <2>2, <2>3 DEF OneTask
<1>9. \A q \in Probes : Fresh(q)'
  <2>1. \A q \in Probes \ {p} : Fresh(q)' BY <1>1, <1>6 DEF RowsInv, Fresh
  <2>2. Fresh(p)' BY <1>1, <1>2, <1>5, <1>6 DEF Fresh
  <2> QED BY <2>1, <2>2
<1>10. Stopped'
  <2>1. UNCHANGED <<tick, camp, halt>> BY <1>1 DEF Report
  <2>2. camp = "done" => row[p] = "failed_offline" /\ ~halt
      BY <1>5 DEF RowsInv, Stopped, In, Failures
  <2>3. camp = "done" => In(row', {"queued", "dispatched"}) = {}
      BY <1>6 DEF RowsInv, Stopped, In
  <2> QED BY <2>1, <2>2, <2>3 DEF RowsInv, Stopped, In, Idle, Failures
<1>11. Waves'
  <2>1. In(row', {"dispatched"}) \subseteq In(row, {"dispatched"}) BY <1>6 DEF In
  <2>2. Kept \subseteq Kept' BY <1>6 DEF Kept, Heard
  <2>3. Tried' = Tried /\ Left' = Left /\ halt' = halt BY <1>1 DEF Tried, Left, Report
  <2> QED BY <1>6, <2>1, <2>2, <2>3, WavesMove, LeftType DEF In
<1> QED BY <1>7, <1>8, <1>9, <1>10, <1>11 DEF RowsInv

-----------------------------------------------------------------------------
(* The tick.                                                               *)

LEMMA TickStartRows ==
  ASSUME ProbesInv, ProbesInv', RowsInv, Waves, TickStart PROVE RowsInv' /\ Waves'
<1>1. /\ tick = Idle /\ tick'.rows = row /\ tick'.visit = {} /\ ~tick'.hit
      /\ tick'.at = IF HaltsOn(row) THEN "halt" ELSE "dark"
      /\ UNCHANGED <<halt, camp, row, tasks, made, update>> /\ camp = "running"
    BY DEF TickStart, Idle
<1>2. Marking' = {} /\ Marking = {} /\ Left = 0 /\ Left' = 0
    BY <1>1 DEF Marking, Left, Idle
<1>3. \A q \in Probes : OneTask(q)' BY <1>1, <1>2 DEF RowsInv, OneTask, Busy, Told
<1>4. \A q \in Probes : Fresh(q)' BY <1>1 DEF Fresh
<1>5. Stopped' BY <1>1 DEF Stopped, HaltsOn, Failures
<1>6. Waves' BY <1>1, <1>2, WavesMove DEF In, Kept, Tried
<1> QED BY <1>3, <1>4, <1>5, <1>6 DEF RowsInv

LEMMA TickStopsRows ==
  ASSUME ProbesInv, ProbesInv', RowsInv, Waves, TickHalt \/ TickEnd PROVE RowsInv' /\ Waves'
<1>1. /\ tick' = Idle /\ UNCHANGED <<halt, row, tasks, made, update>>
      /\ tick.at \in {"halt", "send"} /\ camp' \in {camp, "halted"}
    BY DEF TickHalt, TickEnd
<1>2. Marking' = {} /\ Marking = {} /\ Left' = 0 /\ tick'.at = "idle" /\ tick'.visit = {}
    BY <1>1 DEF Marking, Left, Idle
<1>3. \A q \in Probes : OneTask(q)' BY <1>1, <1>2 DEF RowsInv, OneTask, Busy, Told
<1>4. \A q \in Probes : Fresh(q)' BY <1>2 DEF Fresh
<1>5. Stopped' BY <1>1, <1>2 DEF RowsInv, Stopped, In, Failures, Idle
<1>6. Waves' BY <1>1, <1>2, WavesMove, LeftType DEF In, Kept, Tried
<1> QED BY <1>3, <1>4, <1>5, <1>6 DEF RowsInv

LEMMA TickDarkRows ==
  ASSUME ProbesInv, ProbesInv', RowsInv, Waves, NEW p \in Probes, TickDark(p)
  PROVE  RowsInv' /\ Waves'
<1>1. /\ tick.at = "dark" /\ tick'.at = "dark" /\ tick'.visit = tick.visit /\ tick'.hit
      /\ tick'.rows[p] = "failed_offline" /\ row'[p] = "failed_offline"
      /\ \A q \in Probes \ {p} : tick'.rows[q] = tick.rows[q] /\ row'[q] = row[q]
      /\ UNCHANGED <<halt, camp, tasks, made, update>> /\ tick.visit = {}
    BY DEF TickDark, ProbesInv, TypeOK, TickShape
<1>2. Marking' = {} /\ Marking = {} /\ Left = 0 /\ Left' = 0
    BY <1>1 DEF Marking, Left
<1>3. \A q \in Probes : OneTask(q)' BY <1>1, <1>2 DEF RowsInv, OneTask, Busy, Told
<1>4. \A q \in Probes : Fresh(q)' BY <1>1 DEF RowsInv, Fresh
<1>5. Stopped' BY <1>1 DEF RowsInv, Stopped, Idle
<1>6. Waves' BY <1>1, <1>2, WavesMove DEF In, Kept, Tried
<1> QED BY <1>3, <1>4, <1>5, <1>6 DEF RowsInv

LEMMA TickRereadRows ==
  ASSUME ProbesInv, ProbesInv', RowsInv, Waves, TickReread PROVE RowsInv' /\ Waves'
<1>1. /\ tick.at = "dark" /\ tick'.visit = {} /\ ~tick'.hit
      /\ UNCHANGED <<halt, camp, row, tasks, made, update>>
      /\ \/ tick'.at = "halt"
         \/ tick'.at = "plan" /\ ~halt /\ tick'.rows = row
         \/ tick'.at = "plan" /\ ~tick.hit /\ tick'.rows = tick.rows
    BY DEF TickReread, Idle
<1>2. Marking' = {} /\ Marking = {} /\ Left = 0 /\ Left' = 0
    BY <1>1 DEF Marking, Left
<1>3. \A q \in Probes : OneTask(q)' BY <1>1, <1>2 DEF RowsInv, OneTask, Busy, Told
<1>4. \A q \in Probes : Fresh(q)' BY <1>1 DEF RowsInv, Fresh
<1>5. Stopped' BY <1>1 DEF RowsInv, Stopped, In, Idle
<1>6. Waves' BY <1>1, <1>2, WavesMove DEF In, Kept, Tried
<1> QED BY <1>3, <1>4, <1>5, <1>6 DEF RowsInv

\* What the tick plans with are the rows, but for the reports that came in: the
\* probes in flight and done are at least as many as were tried, and none of
\* the queued ones was.
LEMMA TickPlanRows ==
  ASSUME ProbesInv, ProbesInv', RowsInv, Waves, TickPlan PROVE RowsInv' /\ Waves'
<1> DEFINE queued == IF over THEN {} ELSE In(tick.rows, {"queued"})
           flying == In(tick.rows, {"dispatched"})
           done   == In(tick.rows, {"succeeded"})
           budget == Budget(Cardinality(flying), Cardinality(done))
<1>1. /\ tick.at = "plan" /\ tick.visit = {} /\ ~tick.hit
      /\ row' = [q \in Probes |-> IF over /\ tick.rows[q] = "queued" THEN "expired" ELSE row[q]]
      /\ UNCHANGED <<halt, tasks, made, update>>
      /\ \/ queued = {} /\ flying = {} /\ camp' = "done" /\ tick' = Idle
         \/ camp' = camp /\ tick' = Idle
         \/ /\ camp' = camp /\ budget > 0
            /\ tick' = [Idle EXCEPT !.at = "send", !.visit = queued, !.budget = budget]
    BY DEF TickPlan, ProbesInv, TickShape
<1>2. \A q \in Probes : OneTask(q) /\ Fresh(q) BY DEF RowsInv
<1>3. /\ tick'.at \in {"idle", "send"} /\ Marking = {} /\ Marking' = {}
      /\ tick'.visit = {} \/ tick'.visit = queued
  <2>1. CASE tick' = Idle BY <1>1, <2>1 DEF Marking, Idle
  <2>2. CASE tick' = [Idle EXCEPT !.at = "send", !.visit = queued, !.budget = budget]
    <3> HIDE DEF queued, budget
    <3>1. tick'.at = "send" /\ tick'.visit = queued BY <2>2 DEF Idle
    <3> QED BY <1>1, <3>1 DEF Marking
  <2> QED BY <1>1, <2>1, <2>2
<1>4. \A q \in Probes : tick.rows[q] = "queued" => row[q] = "queued"
    BY <1>1, <1>2 DEF Fresh
<1>5. \A q \in Probes : OneTask(q)'
  <2> SUFFICES ASSUME NEW q \in Probes PROVE OneTask(q)'
      OBVIOUS
  <2>1. q \in tick'.visit => row'[q] = "queued"
      BY <1>1, <1>3, <1>4 DEF In
  <2>2. \/ row'[q] = row[q]
        \/ row'[q] = "expired" /\ row[q] = "queued"
      BY <1>1, <1>4
  <2>3. OneTask(q) BY <1>2
  <2> QED BY <1>1, <1>3, <2>1, <2>2, <2>3 DEF OneTask, Busy, Told
<1>6. \A q \in Probes : Fresh(q)' BY <1>3 DEF Fresh
<1>7. Stopped'
  <2>1. CASE camp' = "done" /\ tick' = Idle /\ queued = {} /\ flying = {}
    <3>1. \A q \in Probes : tick.rows[q] # "dispatched" /\ (tick.rows[q] = "queued" => over)
        BY <2>1 DEF In
    <3>2. \A q \in Probes : row'[q] \notin {"queued", "dispatched"}
        BY <1>1, <1>2, <3>1 DEF Fresh
    <3>3. ASSUME halt, NEW q \in Probes PROVE row'[q] \notin Failures
      <4>1. tick.rows[q] \notin Failures
          BY <1>1, <3>3 DEF RowsInv, Stopped, In
      <4> QED BY <1>1, <1>2, <3>1, <4>1 DEF Fresh, Failures
    <3>4. Idle' = Idle /\ tick'.at = "idle" BY <2>1 DEF Idle
    <3> QED BY <1>1, <2>1, <3>2, <3>3, <3>4 DEF Stopped, In
  <2>2. CASE camp' = camp
    <3>1. camp # "done" BY <1>1 DEF RowsInv, Stopped, Idle
    <3> QED BY <1>3, <2>2, <3>1 DEF Stopped
  <2> QED BY <1>1, <2>1, <2>2
<1>8. In(row', {"dispatched"}) \subseteq In(row, {"dispatched"})
    BY <1>1, <1>4 DEF In
<1>9. Waves'
  <2>1. CASE tick' = Idle
    <3>1. Left' = 0 BY <2>1 DEF Left, Idle
    <3> QED BY <1>1, <1>3, <1>8, <3>1, WavesMove, LeftType DEF Kept, Tried, In
  <2>2. CASE tick' # Idle
    <3>1. Left' = budget /\ budget > 0 BY <1>1, <2>2 DEF Left, Idle
    <3>2. flying \in SUBSET Probes /\ done \in SUBSET Probes BY DEF In
    <3>3. Cardinality(flying) \in Nat /\ Cardinality(done) \in Nat BY <3>2, Counted
    <3>4. (In(row, {"dispatched"}) \cup Marking)' \in SUBSET flying
        BY <1>1, <1>2, <1>3, <1>8 DEF In, Fresh
    <3>5. Cardinality((In(row, {"dispatched"}) \cup Marking)') <= Cardinality(flying)
        BY <3>2, <3>4, Smaller
    <3>6. Cardinality((In(row, {"dispatched"}) \cup Marking)') \in Nat
        BY <3>2, <3>4, Counted
    <3>7. Cardinality(flying) + budget <= Limit
        BY <3>3, Bounds DEF Budget, Limit
    <3>8. Cardinality((In(row, {"dispatched"}) \cup Marking)') + Left' <= Limit'
      <4>1. Limit' = Limit BY DEF Limit
      <4>2. budget \in Int BY <3>3, Bounds DEF Budget
      <4> HIDE DEF budget, flying
      <4> QED BY <3>1, <3>3, <3>5, <3>6, <3>7, <4>1, <4>2, Bounds
    <3>9. ASSUME halt' PROVE Cardinality(Kept') >= Canary \/ Cardinality(Tried') + Left' <= Canary
      <4>1. Tried' \in SUBSET (flying \cup done)
        <5> SUFFICES ASSUME NEW q \in Probes, made[q] # {} PROVE q \in flying \cup done
            BY <1>1 DEF Tried
        <5>1. row[q] \notin {"queued", "expired"} BY <1>2, <1>3 DEF OneTask
        <5>2. tick.rows[q] \notin Failures
            BY <1>1, <3>9 DEF RowsInv, Stopped, In
        <5> QED BY <1>1, <1>2, <5>1, <5>2 DEF Fresh, Failures, In, ProbesInv, TypeOK, RowStates
      <4>2. done \in SUBSET Kept'
          BY <1>1, <1>2 DEF In, Fresh, ProbesInv, Honest, Kept
      <4>3. Kept' \in SUBSET Probes BY DEF Kept
      <4>4. Cardinality(done) <= Cardinality(Kept') BY <4>2, <4>3, Smaller
      <4>5. Cardinality(Tried') <= Cardinality(flying \cup done)
          BY <3>2, <4>1, Smaller
      <4>6. Cardinality(flying \cup done) <= Cardinality(flying) + Cardinality(done)
          BY <3>2, Together
      <4>7. /\ Cardinality(Kept') \in Nat /\ Cardinality(Tried') \in Nat
            /\ Cardinality(flying \cup done) \in Nat
          BY <3>2, <4>1, <4>3, Counted
      <4>8. Cardinality(done) < Canary => Cardinality(flying) + Cardinality(done) + budget <= Canary
          BY <3>3, Bounds DEF Budget
      <4>9. budget \in Int BY <3>3, Bounds DEF Budget
      <4> HIDE DEF budget, flying, done
      <4> QED BY <3>1, <3>3, <4>4, <4>5, <4>6, <4>7, <4>8, <4>9, Bounds
    <3> QED BY <3>8, <3>9 DEF Waves
  <2> QED BY <2>1, <2>2
<1> QED BY <1>5, <1>6, <1>7, <1>9 DEF RowsInv

LEMMA TickSendRows ==
  ASSUME ProbesInv, ProbesInv', RowsInv, Waves, NEW p \in Probes, TickSend(p)
  PROVE  RowsInv' /\ Waves'
<1>1. /\ tick.at = "send" /\ p \in tick.visit /\ tick.rows = Idle.rows /\ tick.budget > 0
      /\ UNCHANGED <<halt, camp, row, update>> /\ tick'.budget = tick.budget
      /\ \/ /\ tick'.at = "mark" /\ tick'.visit = tick.visit
            /\ tick'.rows = [Idle.rows EXCEPT ![p] = "dispatched"]
            /\ \E a \in Attempts \ made[p] : /\ made' = [made EXCEPT ![p] = @ \cup {a}]
                                             /\ tasks' = [tasks EXCEPT ![p] = @ \cup {a}]
         \/ /\ tick'.at = "send" /\ tick'.visit = tick.visit \ {p} /\ tick'.rows = tick.rows
            /\ UNCHANGED <<made, tasks>>
  <2>1. /\ tick.at = "send" /\ p \in tick.visit /\ tick.budget > 0 /\ tick.rows = Idle.rows
        /\ UNCHANGED <<halt, camp, row, update>> /\ tick \in Ticks
      BY DEF TickSend, ProbesInv, TypeOK, TickShape, Ticks
  <2>2. CASE /\ tick' = [tick EXCEPT !.at = "mark", !.rows[p] = "dispatched"]
             /\ \E a \in Attempts \ made[p] : /\ made' = [made EXCEPT ![p] = @ \cup {a}]
                                              /\ tasks' = [tasks EXCEPT ![p] = @ \cup {a}]
    <3>1. /\ tick'.at = "mark" /\ tick'.visit = tick.visit /\ tick'.budget = tick.budget
          /\ tick'.rows = [tick.rows EXCEPT ![p] = "dispatched"]
        BY <2>1, <2>2 DEF Ticks
    <3> QED BY <2>1, <2>2, <3>1
  <2>3. CASE tick' = [tick EXCEPT !.visit = @ \ {p}] /\ UNCHANGED <<made, tasks>>
    <3>1. /\ tick'.at = "send" /\ tick'.visit = tick.visit \ {p} /\ tick'.budget = tick.budget
          /\ tick'.rows = tick.rows
        BY <2>1, <2>3 DEF Ticks
    <3> QED BY <2>1, <2>3, <3>1
  <2>4. \/ /\ tick' = [tick EXCEPT !.at = "mark", !.rows[p] = "dispatched"]
           /\ \E a \in Attempts \ made[p] : /\ made' = [made EXCEPT ![p] = @ \cup {a}]
                                            /\ tasks' = [tasks EXCEPT ![p] = @ \cup {a}]
        \/ tick' = [tick EXCEPT !.visit = @ \ {p}] /\ UNCHANGED <<made, tasks>>
      BY DEF TickSend
  <2> QED BY <2>2, <2>3, <2>4
<1>2. Marking = {} /\ row[p] = "queued" /\ made[p] = {} /\ tick # Idle
  <2>1. Marking = {} /\ tick # Idle BY <1>1 DEF Marking, Idle
  <2>2. OneTask(p) BY DEF RowsInv
  <2> QED BY <1>1, <2>1, <2>2 DEF OneTask
<1>3. \A q \in Probes : Fresh(q)' BY <1>1 DEF Fresh
<1>4. Stopped' BY <1>1, <1>2 DEF RowsInv, Stopped
<1>5. CASE tick'.at = "send"
  <2>1. Marking' = {} /\ Left' = Left BY <1>1, <1>5 DEF Marking, Left
  <2>2. \A q \in Probes : OneTask(q)'
      BY <1>1, <1>2, <1>5, <2>1 DEF RowsInv, OneTask, Busy, Told
  <2>3. Waves' BY <1>1, <1>2, <1>5, <2>1, WavesMove, LeftType DEF In, Kept, Tried
  <2> QED BY <1>3, <1>4, <2>2, <2>3 DEF RowsInv
<1>6. CASE tick'.at = "mark"
  <2>1. PICK a \in Attempts : /\ made' = [made EXCEPT ![p] = {a}]
                              /\ tasks' = [tasks EXCEPT ![p] = @ \cup {a}]
      BY <1>1, <1>2, <1>6
  <2>2. Marking' = {p} /\ Left' = Left - 1 /\ Left \in Nat /\ Left >= 1
    <3>1. \A q \in Probes : tick'.rows[q] = "dispatched" <=> q = p
        BY <1>1, <1>6 DEF Idle
    <3>2. tick'.visit \subseteq Probes BY <1>1, <1>6 DEF ProbesInv, TypeOK
    <3> QED BY <1>1, <1>6, <3>1, <3>2, LeftType DEF Marking, Left
  <2>3. OneTask(p)'
      BY <1>1, <1>2, <1>6, <2>1, <2>2 DEF OneTask, ProbesInv, TypeOK
  <2>4. \A q \in Probes \ {p} : OneTask(q)'
      BY <1>1, <1>2, <1>6, <2>1, <2>2 DEF RowsInv, OneTask, Busy, Told, ProbesInv, TypeOK
  <2>5. Waves'
    <3> DEFINE D == In(row, {"dispatched"})
    <3>1. (In(row, {"dispatched"}) \cup Marking)' = D \cup {p} BY <1>1, <2>2 DEF In
    <3>2. Tried' = Tried \cup {p} BY <2>1 DEF Tried, ProbesInv, TypeOK
    <3>3. D \in SUBSET Probes /\ Tried \in SUBSET Probes BY DEF In, Tried
    <3>4. /\ Cardinality(D \cup {p}) <= Cardinality(D) + 1
          /\ Cardinality(Tried \cup {p}) <= Cardinality(Tried) + 1
        BY <3>3, OneMore
    <3>5. /\ Cardinality(D \cup {p}) \in Nat /\ Cardinality(D) \in Nat
          /\ Cardinality(Tried \cup {p}) \in Nat /\ Cardinality(Tried) \in Nat
      <4>1. D \cup {p} \in SUBSET Probes /\ Tried \cup {p} \in SUBSET Probes BY <3>3
      <4> QED BY <3>3, <4>1, Counted
    <3>6. /\ Cardinality(D) + Left <= Limit
          /\ halt => Cardinality(Kept) >= Canary \/ Cardinality(Tried) + Left <= Canary
      <4>1. D \cup Marking = D BY <1>2
      <4> QED BY <4>1 DEF Waves
    <3>7. Kept' = Kept /\ halt' = halt /\ Limit' = Limit BY <1>1 DEF Kept, Limit
    <3> HIDE DEF D
    <3>8. Cardinality(D \cup {p}) + Left' <= Limit
        BY <2>2, <3>4, <3>5, <3>6, Bounds
    <3>9. halt => Cardinality(Kept) >= Canary \/ Cardinality(Tried \cup {p}) + Left' <= Canary
        BY <2>2, <3>4, <3>5, <3>6, Bounds
    <3> QED BY <3>1, <3>2, <3>7, <3>8, <3>9 DEF Waves
  <2> QED BY <1>3, <1>4, <2>3, <2>4, <2>5 DEF RowsInv
<1> QED BY <1>1, <1>5, <1>6

LEMMA TickMarkRows ==
  ASSUME ProbesInv, ProbesInv', RowsInv, Waves, unmarked = {}, unmarked' = {},
         NEW p \in Probes, TickMark(p)
  PROVE  RowsInv' /\ Waves'
<1>1. /\ tick.at = "mark" /\ p \in tick.visit /\ tick.rows[p] = "dispatched"
      /\ row' = [row EXCEPT ![p] = "dispatched"]
      /\ UNCHANGED <<halt, camp, tasks, made, update>>
      /\ tick'.at = "send" /\ tick'.visit = tick.visit \ {p}
      /\ tick'.budget = tick.budget - 1 /\ tick.budget \in Nat
    BY DEF TickMark, ProbesInv, TypeOK
<1>2. Marking = {p} /\ Marking' = {} /\ Left' = Left /\ tick # Idle
  <2>1. PICK q \in tick.visit : tick.rows = [Idle.rows EXCEPT ![q] = "dispatched"]
      BY <1>1 DEF ProbesInv, TickShape
  <2>2. \A o \in Probes : tick.rows[o] = "dispatched" <=> o = p
      BY <1>1, <2>1 DEF Idle, ProbesInv, TypeOK
  <2> QED BY <1>1, <2>2 DEF Marking, Left, Idle, ProbesInv, TypeOK
<1>3. \A q \in Probes : OneTask(q)'
    BY <1>1, <1>2 DEF RowsInv, OneTask, Busy, Told, ProbesInv, TypeOK
<1>4. \A q \in Probes : Fresh(q)' BY <1>1 DEF Fresh
<1>5. Stopped' BY <1>1, <1>2 DEF RowsInv, Stopped
<1>6. Waves'
  <2>1. (In(row, {"dispatched"}) \cup Marking)' \subseteq In(row, {"dispatched"}) \cup Marking
      BY <1>1, <1>2 DEF In, ProbesInv, TypeOK
  <2>2. Kept' = Kept /\ Tried' = Tried /\ halt' = halt BY <1>1 DEF Kept, Tried
  <2>3. Left' <= Left BY <1>2, LeftType
  <2>4. Kept \subseteq Kept' /\ Tried' \subseteq Tried BY <2>2
  <2> QED BY <2>1, <2>2, <2>3, <2>4, WavesMove
<1> QED BY <1>3, <1>4, <1>5, <1>6 DEF RowsInv

-----------------------------------------------------------------------------
(* The campaign.                                                           *)

LEMMA InitCampaign == Init => CampaignInv
<1> SUFFICES ASSUME Init PROVE RowsInv /\ Waves
    BY DEF CampaignInv
<1>1. Marking = {} /\ Left = 0 /\ Tried = {} /\ In(row, {"dispatched"}) = {}
    BY DEF Init, Idle, Marking, Left, Tried, In
<1>2. \A q \in Probes : OneTask(q) /\ Fresh(q)
    BY DEF Init, Idle, OneTask, Fresh
<1>3. Stopped BY DEF Init, Idle, Stopped
<1>4. Waves BY <1>1, FS_EmptySet, Bounds DEF Waves
<1> QED BY <1>2, <1>3, <1>4 DEF RowsInv

LEMMA NextCampaign == CampaignInv /\ ProbesInv /\ ProbesInv' /\ [Next]_vars => CampaignInv'
<1> SUFFICES ASSUME CampaignInv, ProbesInv, ProbesInv', [Next]_vars, unmarked' = {}
             PROVE  RowsInv' /\ Waves'
    BY DEF CampaignInv
<1>1. unmarked = {}
  <2>1. CASE Tick
      BY <2>1 DEF Tick, TickStart, TickHalt, TickReread, TickPlan, TickEnd, TickDark, TickSend,
                  TickMark, observed
  <2>2. CASE \E p \in Probes : ProbeStep(p)
      BY <2>2 DEF ProbeStep, Take, Settle, Keep, PostKept, PostUndo, Post, Undo, LoseReport,
                  Report, ExpireTasks, Silent, Back, observed
  <2>3. CASE WindowPasses \/ Abort \/ UNCHANGED vars
      BY <2>3 DEF WindowPasses, Abort, vars, observed
  <2> QED BY <2>1, <2>2, <2>3 DEF Next
<1>2. RowsInv /\ Waves BY <1>1 DEF CampaignInv
<1>3. CASE Tick
    BY <1>1, <1>2, <1>3, TickStartRows, TickStopsRows, TickDarkRows, TickRereadRows,
       TickPlanRows, TickSendRows, TickMarkRows DEF Tick
<1>4. ASSUME NEW p \in Probes, ProbeStep(p) PROVE RowsInv' /\ Waves'
    BY <1>2, <1>4, ProbeRows, ReportRows DEF ProbeStep
<1>5. CASE WindowPasses \/ Abort \/ UNCHANGED vars
  <2>1. /\ UNCHANGED <<row, made, tick, halt, tasks, update>>
        /\ camp' = "done" => camp = "done"
      BY <1>5 DEF WindowPasses, Abort, vars, server, observed
  <2>2. /\ \A q \in Probes : q \in Busy' => q \in Busy
        /\ \A q \in Probes : Told(q) => Told(q)'
        /\ Kept \subseteq Kept'
      BY <2>1 DEF Busy, Told, Kept
  <2> QED BY <1>2, <2>1, <2>2, RowsStay
<1> QED BY <1>3, <1>4, <1>5 DEF Next

LEMMA AlwaysCampaign == Spec => []CampaignInv
<1> QED BY InitCampaign, NextCampaign, AlwaysProbes, PTL DEF Spec

\* The variables keep their types (TypeOK).
THEOREM CampaignTypes == Spec => []TypeOK
<1>1. ProbesInv => TypeOK BY DEF ProbesInv
<1> QED BY <1>1, AlwaysProbes, PTL

\* campaign_tick writes rows from what it read a while ago, and reports write
\* them whatever they are: even so a row that says succeeded or rolled back
\* is right, and a campaign ends as done only when nothing of it is left on a
\* probe, with halt_on_fail only after no failure (RowsAreTrue).
THEOREM RowsAreAlwaysTrue == Spec => []RowsAreTrue
<1>1. ProbesInv /\ CampaignInv => RowsAreTrue
  <2> SUFFICES ASSUME ProbesInv, CampaignInv PROVE RowsAreTrue
      OBVIOUS
  <2>1. \A p \in Probes : /\ row[p] = "succeeded" => p \in Kept
                          /\ row[p] = "rolled_back" => \E a \in Attempts : update[p].fate[a] = "undone"
      BY DEF ProbesInv, Honest
  <2>2. ASSUME camp = "done", unmarked = {}
        PROVE  /\ Busy \subseteq In(row, {"failed_offline"})
               /\ halt => Probes = In(row, {"succeeded", "expired"})
    <3>1. /\ \A p \in Probes : OneTask(p) /\ row[p] \notin {"queued", "dispatched"}
          /\ halt => \A p \in Probes : row[p] \notin Failures
          /\ Marking = {}
        BY <2>2 DEF CampaignInv, RowsInv, Stopped, In, Marking, Idle
    <3>2. \A p \in Probes : row[p] \in RowStates BY DEF ProbesInv, TypeOK
    <3>3. ASSUME NEW p \in Busy PROVE row[p] = "failed_offline"
      <4>1. p \in Probes BY DEF Busy
      <4>2. made[p] # {}
        <5>1. Honest(p) BY <4>1 DEF ProbesInv
        <5>2. CASE tasks[p] # {} BY <5>1, <5>2 DEF Honest
        <5>3. CASE update[p].trial # "none"
          <6>1. update[p].trial \in Attempts BY <4>1, <5>3 DEF ProbesInv, Updates
          <6>2. update[p].fate[update[p].trial] = "trial" BY <5>1, <6>1 DEF Honest
          <6> QED BY <5>1, <6>1, <6>2 DEF Honest
        <5> QED BY <5>2, <5>3 DEF Busy
      <4>3. row[p] \notin {"queued", "expired"} BY <3>1, <4>1, <4>2 DEF OneTask
      <4>4. row[p] \notin {"succeeded", "rolled_back"} BY <3>1, <4>1 DEF OneTask
      <4> QED BY <3>1, <3>2, <4>1, <4>3, <4>4 DEF RowStates
    <3>4. ASSUME halt PROVE Probes = In(row, {"succeeded", "expired"})
        BY <3>1, <3>2, <3>4 DEF In, RowStates, Failures
    <3>5. Busy \subseteq In(row, {"failed_offline"}) BY <3>3 DEF Busy, In
    <3> QED BY <3>4, <3>5
  <2> QED BY <2>1, <2>2 DEF RowsAreTrue
<1> QED BY <1>1, AlwaysProbes, AlwaysCampaign, PTL

\* The budget of a tick is counted from rows that reports overtake and spent
\* over several writes, and still no probe beyond the canary wave is asked
\* before enough run the build for good, and no more updates are under way
\* than a wave allows (WavesHold).
THEOREM WavesAlwaysHold == Spec => []WavesHold
<1>1. ProbesInv /\ CampaignInv => WavesHold
  <2> SUFFICES ASSUME ProbesInv, CampaignInv, unmarked = {}
               PROVE  /\ halt /\ Cardinality(Tried) > Canary => Cardinality(Kept) >= Canary
                      /\ Cardinality(Busy \ In(row, {"failed_offline"})) <= Limit
      BY DEF WavesHold, Limit
  <2>1. Waves /\ RowsInv BY DEF CampaignInv
  <2> DEFINE flying == In(row, {"dispatched"}) \cup Marking
             busy == Busy \ In(row, {"failed_offline"})
  <2>2. busy \subseteq flying
    <3> SUFFICES ASSUME NEW p \in busy PROVE p \in flying
        OBVIOUS
    <3>1. p \in Probes /\ p \in Busy /\ row[p] # "failed_offline" BY DEF Busy, In
    <3>2. OneTask(p) /\ Honest(p) BY <2>1, <3>1 DEF RowsInv, ProbesInv
    <3>3. made[p] # {}
      <4>1. CASE tasks[p] # {} BY <3>2, <4>1 DEF Honest
      <4>2. CASE update[p].trial # "none"
        <5>1. update[p].trial \in Attempts BY <3>1, <4>2 DEF ProbesInv, Updates
        <5>2. update[p].fate[update[p].trial] = "trial" BY <3>2, <5>1 DEF Honest
        <5> QED BY <3>2, <5>1, <5>2 DEF Honest
      <4> QED BY <3>1, <4>1, <4>2 DEF Busy
    <3>4. row[p] \notin {"succeeded", "rolled_back"} BY <3>1, <3>2 DEF OneTask
    <3>5. row[p] \in RowStates BY <3>1 DEF ProbesInv, TypeOK
    <3> QED BY <3>1, <3>2, <3>3, <3>4, <3>5 DEF OneTask, In, RowStates
  <2>3. flying \in SUBSET Probes /\ Kept \in SUBSET Probes /\ Tried \in SUBSET Probes
      BY DEF In, Marking, Kept, Tried, ProbesInv, TypeOK
  <2>4. Left \in Nat BY LeftType
  <2>5. Cardinality(flying) + Left <= Limit BY <2>1 DEF Waves
  <2>6. halt => Cardinality(Kept) >= Canary \/ Cardinality(Tried) + Left <= Canary
      BY <2>1 DEF Waves
  <2> HIDE DEF flying, busy
  <2>7. /\ Cardinality(busy) <= Cardinality(flying)
        /\ Cardinality(flying) \in Nat /\ Cardinality(Kept) \in Nat /\ Cardinality(Tried) \in Nat
        /\ busy \in SUBSET Probes
      BY <2>2, <2>3, Smaller, Counted
  <2>8. Cardinality(busy) \in Nat BY <2>7, Counted
  <2>9. Cardinality(busy) <= Limit BY <2>4, <2>5, <2>7, <2>8, Bounds
  <2>10. halt /\ Cardinality(Tried) > Canary => Cardinality(Kept) >= Canary
      BY <2>4, <2>6, <2>7, Bounds
  <2> QED BY <2>9, <2>10 DEF busy
<1> QED BY <1>1, AlwaysProbes, AlwaysCampaign, PTL
=============================================================================
