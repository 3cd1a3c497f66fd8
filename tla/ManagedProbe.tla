---------------------------- MODULE ManagedProbe ----------------------------
(***************************************************************************)
(* What a supervised probe promises the server about updates: the head     *)
(* comment of agent/supervisor.py and of monitoring/update_orchestrator.py *)
(* without files, processes or crashes.  An update is tried, and then kept *)
(* or undone, with a report that the server may or may not hear of.        *)
(* ProbeSupervisor implements this module and UpdateCampaign builds on it. *)
(***************************************************************************)
CONSTANTS Builds,    \* builds of the agent
          First,     \* the build the probe was installed with
          Attempts,  \* updates the server may ask for
          Target     \* the build each of them asks for

VARIABLES
    active,  \* the build that runs
    trial,   \* the update on probation
    fate,    \* what became of each update
    posted,  \* the reports there have been
    told     \* the outcomes the server was told, by update

vars == <<active, trial, fate, posted, told>>

Fates    == {"none", "trial", "kept", "undone", "displaced"}
Outcomes == {"success", "rolled_back"}
\* A build that crashes in a loop after its probation names no update.
Reports  == [attempt : Attempts \cup {"crashloop"}, outcome : Outcomes]

TypeOK ==
    /\ active \in Builds
    /\ trial \in Attempts \cup {"none"}
    /\ fate \in [Attempts -> Fates]
    /\ posted \subseteq Reports
    /\ told \in [Attempts -> SUBSET Outcomes]

Init ==
    /\ active = First
    /\ trial = "none"
    /\ fate = [a \in Attempts |-> "none"]
    /\ posted = {}
    /\ told = [a \in Attempts |-> {}]

\* An update that begins displaces one still on probation.
Begin(a) ==
    /\ fate[a] = "none"
    /\ active' = Target[a]
    /\ trial' = a
    /\ fate' = [b \in Attempts |-> IF b = a THEN "trial"
                                   ELSE IF b = trial THEN "displaced" ELSE fate[b]]
    /\ UNCHANGED <<posted, told>>

Keep ==
    /\ trial \in Attempts
    /\ trial' = "none"
    /\ fate' = [fate EXCEPT ![trial] = "kept"]
    /\ UNCHANGED <<active, posted, told>>

\* Undone only after its report was posted.
Undo ==
    /\ trial \in Attempts
    /\ [attempt |-> trial, outcome |-> "rolled_back"] \in posted
    /\ active' \in Builds
    /\ trial' = "none"
    /\ fate' = [fate EXCEPT ![trial] = "undone"]
    /\ UNCHANGED <<posted, told>>

\* A build that was kept turned out to crash in a loop.
Retreat ==
    /\ trial = "none"
    /\ [attempt |-> "crashloop", outcome |-> "rolled_back"] \in posted
    /\ active' \in Builds
    /\ UNCHANGED <<trial, fate, posted, told>>

\* What a report says is so when it is written.
Post(r) ==
    /\ \/ r.attempt \in Attempts /\ r.outcome = "success" /\ fate[r.attempt] = "kept"
       \/ r.attempt \in Attempts /\ r.outcome = "rolled_back" /\ trial = r.attempt
       \/ r.attempt = "crashloop" /\ r.outcome = "rolled_back" /\ trial = "none"
    /\ posted' = posted \cup {r}
    /\ UNCHANGED <<active, trial, fate, told>>

\* The server may hear of a report late, more than once, or never.
Tell(r) ==
    /\ r \in posted /\ r.attempt \in Attempts
    /\ told' = [told EXCEPT ![r.attempt] = @ \cup {r.outcome}]
    /\ UNCHANGED <<active, trial, fate, posted>>

Next ==
    \/ \E a \in Attempts : Begin(a)
    \/ Keep
    \/ Undo
    \/ Retreat
    \/ \E r \in Reports : Post(r) \/ Tell(r)

Spec == Init /\ [][Next]_vars

-----------------------------------------------------------------------------
\* A success the server hears of is a build that passed its probation.
SuccessIsTrue ==
    \A a \in Attempts : "success" \in told[a] => fate[a] = "kept"

\* An update the server hears of was tried.
ToldWasTried ==
    \A a \in Attempts : told[a] # {} => fate[a] # "none"

\* The outcome of an update, once there is one, stays.
Stays == \A a \in Attempts : fate[a] \in {"kept", "undone", "displaced"} => fate'[a] = fate[a]
FateStays == [][Stays]_vars
=============================================================================
