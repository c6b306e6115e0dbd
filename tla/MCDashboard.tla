------------------------------ MODULE MCDashboard -------------------------------
(***************************************************************************)
(* Two descriptors, one of them more than there are places for clients,    *)
(* and two messages, so that one may overtake the other.                   *)
(***************************************************************************)
EXTENDS DashboardProperties

CONSTANTS f1, f2, m1, m2

MCFd == {f1, f2}
MCMessage == {m1, m2}
===============================================================================
