--------------------------- MODULE MCLivePipeline ---------------------------
(* Instance of LivePipeline: one match, two boundaries, and a bridge whose *)
(* lines repeat, extend or contradict what the game sends.                 *)
EXTENDS LivePipeline

CONSTANTS m1, f1, f2

TwoTimes == {0, 60}
OneLag == {60}
GameClocks == {0, 60}
IgnoreNotes == {"game_not_in_progress", "not_sampling_boundary"} \X GameClocks

Playing(clock, teams) ==
  [state |-> "in_progress", clock |-> clock, match |-> m1, teams |-> teams]

BridgeLines ==
  {[match |-> m1, snap |-> [time |-> 0, features |-> f2]],
   [match |-> m1, snap |-> [time |-> 60, features |-> f1]]}

GamePayloads == {Playing(0, f1), Playing(60, f1)}
=============================================================================
