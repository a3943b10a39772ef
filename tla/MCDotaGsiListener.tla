------------------------- MODULE MCDotaGsiListener --------------------------
(* Instances of DotaGsiListener: one match, boundaries 0 and 60 with two   *)
(* feature vectors, one moment off the boundary, and every reason to       *)
(* ignore or refuse a payload.                                             *)
EXTENDS DotaGsiListener

CONSTANTS m1, f1, f2

TwoTimes == {0, 60}
OneLag == {60}
GameClocks == {-56, 0, 1, 60}
IgnoreNotes == {"game_not_in_progress", "not_sampling_boundary"} \X GameClocks

Playing(clock, teams) ==
  [state |-> "in_progress", clock |-> clock, match |-> m1, teams |-> teams]

GamePayloads ==
  {Playing(0, f1), Playing(60, f1), Playing(60, f2), Playing(1, BadTeams),
   Playing(-56, BadTeams),
   [Playing(-56, f1) EXCEPT !.state = "other", !.match = NoMatch],
   Playing(60, BadTeams),
   [Playing(60, f1) EXCEPT !.match = NoMatch],
   [Playing(60, f1) EXCEPT !.state = "missing"]}
=============================================================================
