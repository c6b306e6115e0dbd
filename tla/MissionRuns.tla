----------------------------- MODULE MissionRuns ------------------------------
(***************************************************************************)
(* What the mission promises the operator, without tasks, setpoints or     *)
(* sensors: START begins one run per request, a run only moves forward     *)
(* through its phases and ends once, and it is given the jets at most      *)
(* once, while it is on a leg.  Autonomy implements it.                    *)
(***************************************************************************)
EXTENDS Naturals

CONSTANTS MaxRuns, MaxRequests

VARIABLES
  run,      \* the newest run, 0 before the first
  request,  \* the request that began it
  phase,    \* where that run is
  jets,     \* the run whose throttle drives the jets, or 0
  spent     \* the last run that gave the jets back

runVars == <<run, request, phase, jets, spent>>

Phase == {"IDLE", "HOME", "OUTBOUND", "TURN", "RETURN", "ENDED"}

RunsInit ==
  run = 0 /\ request = 0 /\ phase = "IDLE" /\ jets = 0 /\ spent = 0

(* A run that is refused, or stopped before it could begin, ends at once.  *)
Begin ==
  /\ phase \in {"IDLE", "ENDED"}
  /\ run' = run + 1
  /\ request' \in 1 .. MaxRequests /\ request' # request
  /\ phase' \in {"HOME", "ENDED"}
  /\ UNCHANGED <<jets, spent>>

Advance ==
  /\ \/ phase = "HOME" /\ phase' = "OUTBOUND"
     \/ phase = "OUTBOUND" /\ phase' = "TURN"
     \/ phase = "TURN" /\ phase' = "RETURN"
  /\ UNCHANGED <<run, request, jets, spent>>

End ==
  /\ phase \in {"HOME", "OUTBOUND", "TURN", "RETURN"}
  /\ phase' = "ENDED"
  /\ UNCHANGED <<run, request, jets, spent>>

(* The run on a leg gets the jets, from nobody or from an older run.       *)
TakeJets ==
  /\ phase \in {"OUTBOUND", "TURN", "RETURN"}
  /\ run # spent /\ run # jets
  /\ jets' = run
  /\ spent' = IF jets = 0 THEN spent ELSE jets
  /\ UNCHANGED <<run, request, phase>>

GiveJetsBack ==
  /\ jets # 0
  /\ jets' = 0 /\ spent' = jets
  /\ UNCHANGED <<run, request, phase>>

RunsNext == Begin \/ Advance \/ End \/ TakeJets \/ GiveJetsBack

RunsSpec == RunsInit /\ [][RunsNext]_runVars
===============================================================================
