------------------------- MODULE CampaignLifecycle --------------------------
(***************************************************************************)
(* What the workers promise for a campaign, without queue, lease or clock: *)
(* it is executed by at most one worker at a time, its execution ends in   *)
(* COMPLETED or FAILED, a COMPLETED campaign stays COMPLETED, and only a   *)
(* campaign nobody executes is handed back (worker.py, module docstring).  *)
(* CampaignWorker implements this module when its workers are on time.     *)
(***************************************************************************)
CONSTANTS Campaigns, Executors

VARIABLES
  phase,     \* status of a campaign
  running    \* the workers that execute it

lifecycleVars == <<phase, running>>

LifecycleInit ==
  /\ phase = [e \in Campaigns |-> "ABSENT"]
  /\ running = [e \in Campaigns |-> {}]

Idle(S) == \A e \in S : running[e] = {}

\* Every campaign of S goes from one of the phases to the other.
Move(S, from, to) ==
  /\ \A e \in S : phase[e] \in from
  /\ phase' = [e \in Campaigns |-> IF e \in S THEN to ELSE phase[e]]

\* start_campaign.
Create(e) == Move({e}, {"ABSENT"}, "PENDING") /\ UNCHANGED running

\* A worker wins the lease.
Begin(e, w) ==
  /\ Idle({e})
  /\ Move({e}, {"PENDING"}, "RUNNING")
  /\ running' = [running EXCEPT ![e] = {w}]

\* The execution ends.
End(e, to) ==
  /\ running[e] # {}
  /\ Move({e}, {"RUNNING"}, to)
  /\ running' = [running EXCEPT ![e] = {}]

\* The worker dies, or its execution is cut off: the status stays RUNNING.
CutOff(e) ==
  /\ running[e] # {}
  /\ running' = [running EXCEPT ![e] = {}]
  /\ UNCHANGED phase

\* Recovery gives campaigns nobody executes another start.
HandBack(S) == Idle(S) /\ Move(S, {"RUNNING"}, "PENDING") /\ UNCHANGED running

\* A campaign that waited too long, or was cut off, is given up.
GiveUp(S) == Idle(S) /\ Move(S, {"PENDING", "RUNNING"}, "FAILED") /\ UNCHANGED running

\* A failed campaign gets another attempt.
Retry(e) == Idle({e}) /\ Move({e}, {"FAILED", "PENDING"}, "PENDING") /\ UNCHANGED running

LifecycleNext ==
  \/ \E e \in Campaigns :
       \/ Create(e) \/ CutOff(e) \/ Retry(e)
       \/ End(e, "COMPLETED") \/ End(e, "FAILED")
       \/ \E w \in Executors : Begin(e, w)
  \/ \E S \in SUBSET Campaigns : HandBack(S) \/ GiveUp(S)

LifecycleSpec == LifecycleInit /\ [][LifecycleNext]_lifecycleVars
=============================================================================
