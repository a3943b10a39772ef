-------------------------- MODULE MCReplayPipeline --------------------------
(* Instances of ReplayPipeline: a match with two different exports that    *)
(* name different leagues, the one to train on (in two orders) and the one *)
(* to test, a second match to train on, and an export whose ticks stand    *)
(* still.                                                                  *)
EXTENDS ReplayPipeline

CONSTANTS w1, w2, i1, i2

Player(slot, team, worth) == [slot |-> slot, team |-> team, worth |-> worth, items |-> <<slot>>]

(* The players of a team share its worth, the first with one more.         *)
Players(radiant, dire) ==
  <<Player(0, "RADIANT", radiant - radiant \div 2), Player(1, "RADIANT", radiant \div 2),
    Player(2, "DIRE", dire - dire \div 2), Player(3, "DIRE", dire \div 2)>>

Teams(radiant, dire) ==
  <<[team |-> "RADIANT", worth |-> radiant], [team |-> "DIRE", worth |-> dire]>>

Snapshots(radiant, dire, TickAt(_)) ==
  [i \in DOMAIN radiant |->
     [time |-> 60 * (i - 1), source |-> 6000 * (i - 1) + (i % 2), tick |-> TickAt(i),
      teams |-> Teams(radiant[i], dire[i]), players |-> Players(radiant[i], dire[i])]]

Export(match, sha, league, winner, snapshots) ==
  [match |-> match, sha |-> sha, league |-> league, winner |-> winner,
   draft |-> <<[team |-> 2], [team |-> 3]>>, clock |-> "PROVEN",
   pause |-> [ticks |-> 0, seconds |-> 0, witnessed |-> FALSE],
   end |-> 60 * (Len(snapshots) - 1) + 30, snapshots |-> snapshots]

Advancing(i) == 1800 * i
Standing(i) == 1800

Reversed(export) ==
  [export EXCEPT !.snapshots =
     [i \in DOMAIN @ |-> [@[i] EXCEPT !.players = Reverse(@), !.teams = Reverse(@)]]]

Long == Export(1, "s1", 1, 2,
               Snapshots(<<0, 3, 5, 4, 9, 12, 13, 20>>, <<0, 2, 6, 7, 8, 9, 15, 16>>, Advancing))
Other == Export(1, "s2", 2, 3,
                Snapshots(<<0, 1, 3, 3, 4, 6, 6>>, <<0, 4, 5, 9, 10, 14, 20>>, Advancing))
Second == Export(2, "s3", 1, 3,
                 Snapshots(<<0, 2, 2, 5, 6, 6, 7>>, <<0, 1, 4, 5, 9, 11, 19>>, Advancing))

Files ==
  [long     |-> Long,
   reversed |-> Reversed(Long),
   other    |-> Other,
   second   |-> Second,
   standing |-> Export(2, "s4", 2, 3, Snapshots(<<0, 2>>, <<0, 1>>, Standing))]

FileNames == DOMAIN Files

(* The two orders of the long export are one artifact.                     *)
Contents == [a \in {"long", "other", "second"} |-> Canonical(Files[a])]

OneFold == <<1>>

Commands(d, t, b, h, m) ==
  [dataset |-> d, training |-> t, baseline |-> b, holdout |-> h, model |-> m]

Budget(i, c, f, commands) == [imports |-> i, copies |-> c, faults |-> f, commands |-> commands]

(* Imports that meet beside a copy left by hand, failing replacements of   *)
(* one set, and sets that are replaced while they are read.                *)
Replacements ==
  {Budget(4, 1, 0, Commands(1, 0, 0, 0, 0)),
   Budget(1, 0, 2, Commands(3, 0, 0, 0, 0)),
   Budget(2, 0, 2, Commands(2, 0, 0, 0, 0)),
   Budget(2, 0, 0, Commands(2, 1, 0, 0, 0)),
   Budget(2, 0, 0, Commands(1, 2, 0, 0, 1))}

(* The baseline, and the holdout beside the bundle: with a copy left by    *)
(* hand, and with imports that race.                                       *)
Evaluations ==
  {Budget(2, 0, 0, Commands(1, 1, 1, 0, 0)),
   Budget(2, 1, 0, Commands(1, 1, 0, 1, 1)),
   Budget(3, 0, 0, Commands(1, 1, 0, 1, 1))}

Scenarios == Replacements \cup Evaluations

Sides == Permutations({w1, w2}) \cup Permutations({i1, i2})
=============================================================================
