-------------------------- MODULE ReplayStateRows ---------------------------
(***************************************************************************)
(* The rows of the replay pipeline: the decisions and outcomes of a        *)
(* dataset (app/replay_trajectory_dataset.py), the training rows built     *)
(* from them (app/replay_state_training.py), the features the live path    *)
(* computes for itself (app/replay_state_history.py), and the splits of    *)
(* the evaluations (app/replay_state_baseline.py and                       *)
(* app/replay_state_tournament_holdout.py).                                *)
(***************************************************************************)
EXTENDS ReplayTrajectories

CONSTANTS
  TrainMatchCounts,   \* matches trained on, fold by fold
  TestMatchCount,     \* matches tested in a fold
  MinimumMatchCount

ASSUME FoldsAreCounts ==
  /\ TrainMatchCounts \in Seq(Nat \ {0})
  /\ TestMatchCount \in Nat \ {0}
  /\ MinimumMatchCount \in Nat \ {0}

(* The last fold still has matches to test.                                *)
ASSUME FoldsFit ==
  \A fold \in DOMAIN TrainMatchCounts :
    TrainMatchCounts[fold] + TestMatchCount <= MinimumMatchCount

Horizons == {120, 180, 300}
RequiredHorizon == 180
RequiredLags == {60, 120, 180}

(* What the live path returns while lags are missing is no features.       *)
ASSUME NothingIsNoFeatures ==
  Nothing \notin [diff : Int, total : Int, momentum : [RequiredLags -> Int]]

Opponent(team) == IF team = "RADIANT" THEN "DIRE" ELSE "RADIANT"

MatchIds(artifacts) == {Trajectory[a].match : a \in artifacts}

-----------------------------------------------------------------------------
(* The dataset.  A file of rows is a function on the keys of its rows.     *)

SnapshotsByTime(a) ==
  LET snapshots == Trajectory[a].snapshots
  IN  [time \in {snapshots[i].time : i \in DOMAIN snapshots} |->
         snapshots[1 + time \div SnapshotInterval]]

DecisionRow(snapshot, team) ==
  LET own == snapshot.teams[team]
      other == snapshot.teams[Opponent(team)]
  IN  [own |-> own, opponent |-> other, diff |-> own - other]

Source(artifacts, match) == CHOOSE a \in artifacts : Trajectory[a].match = match

DecisionKeys(artifacts) ==
  UNION {{<<Trajectory[a].match, time, team>> :
            time \in DOMAIN SnapshotsByTime(a), team \in TeamNames} : a \in artifacts}

Decisions(artifacts) ==
  [key \in DecisionKeys(artifacts) |->
     DecisionRow(SnapshotsByTime(Source(artifacts, key[1]))[key[2]], key[3])]

OutcomeRow(decision, future, a, team) ==
  LET ahead == DecisionRow(future, team)
  IN  [own |-> ahead.own, opponent |-> ahead.opponent, diff |-> ahead.diff,
       change |-> ahead.diff - decision.diff,
       won |-> team = (IF Trajectory[a].winner = 2 THEN "RADIANT" ELSE "DIRE")]

(* Only a snapshot exactly at the horizon gives an outcome.                *)
OutcomeKeys(artifacts) ==
  UNION {{<<Trajectory[a].match, time, team, horizon>> :
            time \in DOMAIN SnapshotsByTime(a), team \in TeamNames, horizon \in Horizons}
         : a \in artifacts}

Outcomes(artifacts) ==
  LET decisions == Decisions(artifacts)
      Ahead(key) == <<key[1], key[2] + key[4], key[3]>>
  IN  [key \in {k \in OutcomeKeys(artifacts) : Ahead(k) \in DOMAIN decisions} |->
         LET a == Source(artifacts, key[1])
         IN  OutcomeRow(decisions[<<key[1], key[2], key[3]>>],
                        SnapshotsByTime(a)[key[2] + key[4]], a, key[3])]

(* Radiant and Dire are each other's mirror image.                         *)
RowsMirrored(decisions, outcomes) ==
  /\ \A key \in DOMAIN decisions :
       LET other == <<key[1], key[2], Opponent(key[3])>>
       IN  other \in DOMAIN decisions /\ decisions[other].diff = -decisions[key].diff
  /\ \A key \in DOMAIN outcomes :
       LET other == <<key[1], key[2], Opponent(key[3]), key[4]>>
       IN  /\ other \in DOMAIN outcomes
           /\ outcomes[other].diff = -outcomes[key].diff
           /\ outcomes[other].change = -outcomes[key].change
           /\ outcomes[other].won # outcomes[key].won

-----------------------------------------------------------------------------
(* The training set.                                                       *)

(* What is checked of the two files after their hashes.                    *)
DecisionsLoad(decisions) ==
  \A key \in DOMAIN decisions :
    LET other == <<key[1], key[2], Opponent(key[3])>>
    IN  /\ other \in DOMAIN decisions
        /\ decisions[key].diff = decisions[key].own - decisions[key].opponent
        /\ decisions[other].own = decisions[key].opponent

OutcomesLoad(decisions, outcomes) ==
  \A key \in DOMAIN outcomes :
    LET now == <<key[1], key[2], key[3]>>
        later == <<key[1], key[2] + key[4], key[3]>>
    IN  /\ {now, later} \subseteq DOMAIN decisions
        /\ outcomes[key].own = decisions[later].own
        /\ outcomes[key].opponent = decisions[later].opponent
        /\ outcomes[key].diff = decisions[later].diff
        /\ outcomes[key].change = decisions[later].diff - decisions[now].diff

RequiredOutcomesThere(decisions, outcomes) ==
  \A key \in DOMAIN decisions :
    <<key[1], key[2] + RequiredHorizon, key[3]>> \in DOMAIN decisions =>
      <<key[1], key[2], key[3], RequiredHorizon>> \in DOMAIN outcomes

TrainingKeys(decisions, outcomes) ==
  {<<key[1], key[2]>> : key \in {k \in DOMAIN decisions :
      /\ k[3] = "RADIANT"
      /\ \A lag \in RequiredLags : <<k[1], k[2] - lag, "RADIANT">> \in DOMAIN decisions
      /\ <<k[1], k[2] + RequiredHorizon, "RADIANT">> \in DOMAIN decisions
      /\ <<k[1], k[2], "RADIANT", RequiredHorizon>> \in DOMAIN outcomes}}

(* A mutant: the lags are counted from the next minute.                    *)
LaterLaggedRows(decisions, outcomes) ==
  [key \in TrainingKeys(decisions, outcomes) |->
     LET current == decisions[<<key[1], key[2], "RADIANT">>]
         Lagged(lag) == decisions[<<key[1], key[2] + SnapshotInterval - lag, "RADIANT">>]
     IN  [features |-> [diff |-> current.diff,
                        total |-> current.own + current.opponent,
                        momentum |-> [lag \in RequiredLags |->
                                        current.diff - Lagged(lag).diff]],
          target |-> outcomes[<<key[1], key[2], "RADIANT", RequiredHorizon>>].change]]

TrainingRows(decisions, outcomes) ==
  [key \in TrainingKeys(decisions, outcomes) |->
     LET current == decisions[<<key[1], key[2], "RADIANT">>]
         Lagged(lag) == decisions[<<key[1], key[2] - lag, "RADIANT">>]
     IN  [features |-> [diff |-> current.diff,
                        total |-> current.own + current.opponent,
                        momentum |-> [lag \in RequiredLags |->
                                        current.diff - Lagged(lag).diff]],
          target |-> outcomes[<<key[1], key[2], "RADIANT", RequiredHorizon>>].change]]

-----------------------------------------------------------------------------
(* The live path: features of the latest of a set of snapshots.            *)

NormalizedSnapshots(a) ==
  LET snapshots == Trajectory[a].snapshots
  IN  {[time |-> snapshots[i].time,
        diff |-> snapshots[i].teams["RADIANT"] - snapshots[i].teams["DIRE"],
        total |-> snapshots[i].teams["RADIANT"] + snapshots[i].teams["DIRE"]] :
       i \in DOMAIN snapshots}

Latest(snapshots) ==
  CHOOSE s \in snapshots : \A other \in snapshots : other.time <= s.time

At(snapshots, time) == {s \in snapshots : s.time = time}

MissingLags(snapshots) ==
  {lag \in RequiredLags : At(snapshots, Latest(snapshots).time - lag) = {}}

FeatureMapping(snapshots) ==
  LET current == Latest(snapshots)
      Previous(lag) == CHOOSE s \in At(snapshots, current.time - lag) : TRUE
  IN  IF MissingLags(snapshots) # {}
        THEN Nothing
        ELSE [diff |-> current.diff, total |-> current.total,
              momentum |-> [lag \in RequiredLags |-> current.diff - Previous(lag).diff]]

-----------------------------------------------------------------------------
(* The splits.                                                             *)

RowMatches(rows) == {key[1] : key \in DOMAIN rows}

(* How many of the matches come before this one.                           *)
Place(match, matches) == Cardinality({m \in matches : m < match})

(* Matches in the order of their ids: a first part to train on, and the    *)
(* matches that follow it to test.                                         *)
ExpandingSplits(matches) ==
  [fold \in DOMAIN TrainMatchCounts |->
     LET trained == TrainMatchCounts[fold]
     IN  [train |-> {m \in matches : Place(m, matches) < trained},
          test  |-> {m \in matches :
                       Place(m, matches) \in trained .. trained + TestMatchCount - 1}]]

LeagueMatches(matches, lineage, leagues) ==
  {m \in matches : m \in DOMAIN lineage /\ lineage[m] \in leagues}
=============================================================================
