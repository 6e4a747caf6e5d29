------------------------------- MODULE MCWebApp -------------------------------
(* Two sessions; the team of the second is hidden.                         *)
EXTENDS WebApp, TLC

CONSTANTS unused

HiddenTeam == "all" :> {"s1"} @@ "active" :> {"s1"} @@ "verification" :> {"s2"}
=============================================================================
