------------------------------ MODULE MCAutonomy ------------------------------
(***************************************************************************)
(* Two runs of a mission, started, repeated and stopped at any time.       *)
(***************************************************************************)
EXTENDS AutonomyProperties

MCSettings == {[stage |-> "FULL", dry_run |-> FALSE]}

(* Nothing happens: no fix since the last step.                            *)
Quiet ==
  [ settings_ok |-> TRUE, jets_free |-> TRUE, armed |-> TRUE, ready |-> TRUE, gps_lost |-> FALSE,
    heading_lost |-> FALSE, spinning |-> FALSE, gps_new |-> FALSE, still |-> FALSE, jump |-> FALSE,
    together |-> FALSE, home_timeout |-> FALSE, out_reached |-> FALSE, turned |-> FALSE,
    arrival |-> {} ]

(* A fix that ends whichever leg the boat is on.                           *)
Progress ==
  [Quiet EXCEPT !.gps_new = TRUE, !.together = TRUE, !.out_reached = TRUE, !.turned = TRUE,
                !.arrival = {"zone"}]

MCCalm ==
  [manual_input |-> FALSE, rail_cut |-> FALSE, other_owner |-> FALSE, armed |-> TRUE,
   later |-> FALSE]

MCControlInputs == {MCCalm, [MCCalm EXCEPT !.manual_input = TRUE]}

(* After the pass has read its inputs, and before the next one does: at    *)
(* other points these two tasks commute with the pass.                     *)
MCPreemptAt == {"step", "status"}

MCSituations == {Progress}
===============================================================================
