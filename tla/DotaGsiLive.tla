---------------------------- MODULE DotaGsiLive -----------------------------
(***************************************************************************)
(* What a Dota spectator GSI payload means (app/dota_gsi_live.py): nothing *)
(* usable, a game that is not being played, a moment between two sampling  *)
(* boundaries, or a snapshot of a match.  The twenty validated numbers of  *)
(* the ten players are one opaque feature vector.                          *)
(***************************************************************************)
EXTENDS LiveStateSignal

CONSTANTS
  Clocks,            \* values of map.clock_time
  SamplingInterval,  \* SAMPLING_INTERVAL_SECONDS
  NoMatch,           \* map.matchid is not a positive integer
  BadTeams           \* the player and hero sections fail validation

ASSUME ClocksAreIntegers == Clocks \subseteq Int
ASSUME SamplingIntervalIsPositive == SamplingInterval \in Nat \ {0}
ASSUME BoundariesAreTimes ==
  \A t \in Clocks : t >= 0 /\ t % SamplingInterval = 0 => t \in Times
ASSUME NoMatchIsNoMatch == NoMatch \notin Matches
ASSUME BadTeamsAreNoFeatures == BadTeams \notin Features
ASSUME NotesAreIgnoreReasons ==
  {"game_not_in_progress", "not_sampling_boundary"} \X Clocks \subseteq Notes

(* "missing" stands for a payload without a usable map section.            *)
GsiPayload == [state : {"in_progress", "other", "missing"},
               clock : Clocks,
               match : Matches \cup {NoMatch},
               teams : Features \cup {BadTeams}]

NotInProgress(p) == p.state = "other" \/ (p.state = "in_progress" /\ p.clock < 0)

OffBoundary(p) == p.clock % SamplingInterval # 0

(* Raises DotaGSILiveError: the match id is required only of a game in     *)
(* progress, the teams only at a boundary.                                 *)
Invalid(p) ==
  \/ p.state = "missing"
  \/ /\ ~NotInProgress(p)
     /\ p.match = NoMatch \/ (~OffBoundary(p) /\ p.teams = BadTeams)

IgnoreReason(p) ==
  IF NotInProgress(p) THEN "game_not_in_progress" ELSE "not_sampling_boundary"

Ignored(p) == ~Invalid(p) /\ (NotInProgress(p) \/ OffBoundary(p))

IgnoreNote(p) == <<IgnoreReason(p), p.clock>>

Sampled(p) == ~Invalid(p) /\ ~Ignored(p)

SampledRequest(p) ==
  [match |-> p.match, snap |-> [time |-> p.clock, features |-> p.teams]]
=============================================================================
