--------------------------- MODULE ReplayPipeline ---------------------------
(***************************************************************************)
(* The replay pipeline: commands that import trajectories, build the       *)
(* dataset from them, the training set from the dataset, and the two       *)
(* evaluations and the model bundle from the training set.  The stages     *)
(* meet in the files only: each reads what the others left, file by file,  *)
(* while they go on.                                                       *)
(***************************************************************************)
EXTENDS ReplayStateRows, OutputSets

CONSTANTS
  Budgets,         \* how many imports, copies, commands of a stage and faults there may be
  TrainLeagues,    \* leagues the holdout and the bundle are trained on
  TestLeagues

ASSUME LeaguesApart == TrainLeagues \cap TestLeagues = {}

Stages == {"dataset", "training", "baseline", "holdout", "model"}

ASSUME StagesHaveOutputs == Dirs = Stages

Filenames ==
  [dataset  |-> {"decisions", "outcomes", "manifest"},
   training |-> {"training", "manifest"},
   baseline |-> {"predictions", "evaluation"},
   holdout  |-> {"predictions", "evaluation"},
   model    |-> {"model", "manifest"}]

(* What a stage reads, in this order.                                      *)
DatasetFiles == <<"manifest", "decisions", "outcomes">>
TrainingFiles == <<"manifest", "training">>

Plan(stage) == IF stage = "training" THEN DatasetFiles
               ELSE IF stage = "dataset" THEN <<>> ELSE TrainingFiles

SourceDir(stage) == IF stage = "training" THEN "dataset" ELSE "training"

ReadsTrajectories(stage) == stage \in {"dataset", "holdout", "model"}

VARIABLES
  jobs,         \* jobs[w] : what the command of process w has read
  commandsLeft  \* commandsLeft[s] : commands of stage s that may be started

pipelineVars == <<jobs, commandsLeft>>
replayVars == <<trajectoryVars, outputVars, pipelineVars>>

NoJob == [at |-> "idle", stage |-> Nothing, read |-> <<>>, todo |-> {}, artifacts |-> <<>>]

PipelineInit ==
  \E budget \in Budgets :
    /\ TrajectoriesInit(budget.imports, budget.copies)
    /\ OutputsInit(budget.faults)
    /\ commandsLeft = budget.commands
    /\ jobs = [w \in Workers |-> NoJob]

-----------------------------------------------------------------------------
(* What the stages compute.  A hash stands for the content it is of, and a *)
(* file of rows for the artifacts its rows come from.                      *)

DatasetSet(artifacts) ==
  [decisions |-> [decisions |-> artifacts], outcomes |-> [outcomes |-> artifacts],
   manifest |-> [decisions |-> [decisions |-> artifacts], outcomes |-> [outcomes |-> artifacts]]]

(* Every file must be a trajectory of its own match, under its own name.   *)
BuildDataset(named) ==
  LET artifacts == {named[name] : name \in DOMAIN named}
  IN  IF /\ \A name \in DOMAIN named : FileOf(named[name]) = name
         /\ RowsMirrored(Decisions(artifacts), Outcomes(artifacts))
        THEN DatasetSet(artifacts) ELSE NoSet

(* A mutant: the manifest is read but its hashes are not compared.         *)
ManifestNamesFiles(read) == {"decisions", "outcomes"} \subseteq DOMAIN read[1]

SourceHashesHold(read) ==
  read[2] = read[1].decisions /\ read[3] = read[1].outcomes

(* The rows are kept under what they were computed from.                   *)
TrainingSet(source, rows) == [training |-> rows, manifest |-> [source |-> source, training |-> rows]]

BuildTraining(read) ==
  LET decisions == Decisions(read[2].decisions)
      outcomes == Outcomes(read[3].outcomes)
      rows == [decisions |-> read[2].decisions, outcomes |-> read[3].outcomes]
  IN  IF /\ SourceHashesHold(read)
         /\ DecisionsLoad(decisions)
         /\ OutcomesLoad(decisions, outcomes)
         /\ RequiredOutcomesThere(decisions, outcomes)
        THEN TrainingSet(read[1], rows)
        ELSE NoSet

Rows(training) == TrainingRows(Decisions(training.decisions), Outcomes(training.outcomes))

TrainingHashHolds(read) == read[2] = read[1].training

Evaluation(source, folds) ==
  [predictions |-> folds, evaluation |-> [source |-> source, folds |-> folds]]

BuildBaseline(read) ==
  LET matches == RowMatches(Rows(read[2]))
  IN  IF TrainingHashHolds(read) /\ Cardinality(matches) >= MinimumMatchCount
        THEN Evaluation(read[1], ExpandingSplits(matches)) ELSE NoSet

(* A match may lie in two files, but not in two leagues.                   *)
LineageConflicts(named) ==
  \E a, b \in {named[name] : name \in DOMAIN named} :
    /\ Trajectory[a].match = Trajectory[b].match
    /\ Trajectory[a].league # Trajectory[b].league

LeagueKnown(named) == \A name \in DOMAIN named : Trajectory[named[name]].league > 0

Lineage(named) ==
  LET artifacts == {named[name] : name \in DOMAIN named}
  IN  [m \in MatchIds(artifacts) |-> Trajectory[Source(artifacts, m)].league]

(* A mutant: files that name two leagues for a match are not refused.      *)
LineageKnown(named) == LeagueKnown(named)

LineageHolds(named) == LeagueKnown(named) /\ ~LineageConflicts(named)

(* The report counts the matches of every league of the training set.      *)
HoldoutEvaluation(source, leagues, fold) ==
  [predictions |-> <<fold>>,
   evaluation |-> [source |-> source, leagues |-> leagues, folds |-> <<fold>>]]

(* The holdout refuses a training row of a match it cannot place.          *)
BuildHoldout(read, named) ==
  LET matches == RowMatches(Rows(read[2]))
      lineage == Lineage(named)
      fold == [train |-> LeagueMatches(matches, lineage, TrainLeagues),
               test |-> LeagueMatches(matches, lineage, TestLeagues)]
  IN  IF /\ TrainingHashHolds(read)
         /\ LineageHolds(named)
         /\ matches \subseteq DOMAIN lineage
         /\ fold.train # {} /\ fold.test # {}
        THEN HoldoutEvaluation(read[1], [m \in matches |-> lineage[m]], fold) ELSE NoSet

TrainedModel(training, matches) == [training |-> training, matches |-> matches]

BundleManifest(source, lineage, model) ==
  [source |-> source, lineage |-> lineage, model |-> model]

(* The bundle leaves such a row out.                                       *)
BuildModel(read, named) ==
  LET lineage == Lineage(named)
      matches == LeagueMatches(RowMatches(Rows(read[2])), lineage, TrainLeagues)
      model == TrainedModel(read[2], matches)
  IN  IF TrainingHashHolds(read) /\ LineageHolds(named) /\ matches # {}
        THEN [model |-> model,
              manifest |-> BundleManifest(read[1], [m \in matches |-> lineage[m]], model)]
        ELSE NoSet

Built(job) ==
  CASE job.stage = "dataset"  -> BuildDataset(job.artifacts)
    [] job.stage = "training" -> BuildTraining(job.read)
    [] job.stage = "baseline" -> BuildBaseline(job.read)
    [] job.stage = "holdout"  -> BuildHoldout(job.read, job.artifacts)
    [] job.stage = "model"    -> BuildModel(job.read, job.artifacts)

-----------------------------------------------------------------------------
(* The commands.                                                           *)

Job(w, job) == jobs' = [jobs EXCEPT ![w] = job]

StartStage(w, s) ==
  /\ jobs[w].at = "idle" /\ publishing[w].at = "idle"
  /\ commandsLeft[s] > 0
  /\ commandsLeft' = [commandsLeft EXCEPT ![s] = @ - 1]
  /\ Job(w, [NoJob EXCEPT !.at = IF s = "dataset" THEN "scan" ELSE "files", !.stage = s])
  /\ UNCHANGED <<trajectoryVars, outputVars>>

BuildDatasetCommand(w) == StartStage(w, "dataset")
BuildTrainingCommand(w) == StartStage(w, "training")
EvaluateBaselineCommand(w) == StartStage(w, "baseline")
EvaluateHoldoutCommand(w) == StartStage(w, "holdout")
BuildModelCommand(w) == StartStage(w, "model")

(* A missing directory or file ends the command.                           *)
ReadSourceFile(w) ==
  LET job == jobs[w]
      files == sets[SourceDir(job.stage)]
      name == Plan(job.stage)[Len(job.read) + 1]
      got == Append(job.read, files[name])
  IN  /\ job.at = "files"
      /\ IF files = NoSet
           THEN Job(w, NoJob)
         ELSE IF name \notin DOMAIN files
           THEN Job(w, NoJob)
         ELSE Job(w, [job EXCEPT !.read = got,
                        !.at = IF Len(got) < Len(Plan(job.stage)) THEN "files"
                               ELSE IF ReadsTrajectories(job.stage) THEN "scan" ELSE "build"])
      /\ UNCHANGED <<trajectoryVars, outputVars, commandsLeft>>

ScanTrajectories(w) ==
  /\ jobs[w].at = "scan"
  /\ Job(w, IF DOMAIN stored = {} THEN NoJob
            ELSE [jobs[w] EXCEPT !.at = "artifacts", !.todo = DOMAIN stored])
  /\ UNCHANGED <<trajectoryVars, outputVars, commandsLeft>>

LoadTrajectory(w) ==
  LET job == jobs[w]
      name == Min(job.todo)
      left == job.todo \ {name}
  IN  /\ job.at = "artifacts"
      /\ Job(w, [job EXCEPT !.todo = left,
                   !.at = IF left = {} THEN "build" ELSE "artifacts",
                   !.artifacts = [n \in DOMAIN @ \cup {name} |->
                                    IF n = name THEN stored[name] ELSE @[n]]])
      /\ UNCHANGED <<trajectoryVars, outputVars, commandsLeft>>

ModelFileHolds(bundle) == bundle.model = bundle.manifest.model

(* A bundle is trained again only if it was built from other rows; its     *)
(* own model file is not compared with anything but its manifest.          *)
ExistingBundleMatches(files) ==
  LET there == sets["model"]
  IN  /\ DOMAIN there = Filenames["model"]
      /\ there.manifest.source = files.manifest.source
      /\ there.manifest.lineage = files.manifest.lineage
      /\ ModelFileHolds(there)

ExistingIsIdentical(s, files) ==
  IF sets[s] = NoSet THEN FALSE
  ELSE IF s = "model" THEN ExistingBundleMatches(files)
  ELSE sets[s] = files

(* Nothing is published when the sources do not hold together, nor when    *)
(* the directory has the same files already.                               *)
PublishUnlessThere(w, s, files) ==
  IF files = NoSet
    THEN UNCHANGED outputVars
  ELSE IF ExistingIsIdentical(s, files)
    THEN UNCHANGED outputVars
  ELSE StartPublishing(w, s, files)

BuildOutputs(w) ==
  LET job == jobs[w]
  IN  /\ job.at = "build"
      /\ Job(w, NoJob)
      /\ PublishUnlessThere(w, job.stage, Built(job))
      /\ UNCHANGED <<trajectoryVars, commandsLeft>>

-----------------------------------------------------------------------------
(* One step of the replacement of a set.  Every stage has a copy of it.    *)
ReplaceOutputSet(w) ==
  /\ \/ PrepareNew(w)
     \/ LookForOld(w)
     \/ MoveOld(w)
     \/ InstallNew(w)
     \/ RemoveOld(w)
     \/ UndoInstall(w)
     \/ RestoreOld(w)
     \/ RetryRestore(w)
     \/ RemoveTransaction(w)
     \/ BuildKilled(w)
  /\ UNCHANGED <<trajectoryVars, pipelineVars>>

Publishes(w, s) == publishing[w].dir = s /\ ReplaceOutputSet(w)

ReplaceDatasetOutputs(w) == Publishes(w, "dataset")
ReplaceTrainingOutputs(w) == Publishes(w, "training")
ReplaceEvaluation(w) == Publishes(w, "baseline") \/ Publishes(w, "holdout")
ReplaceBundle(w) == Publishes(w, "model")

ReplayNext ==
  \/ ImportStep /\ UNCHANGED <<outputVars, pipelineVars>>
  \/ CopyStep /\ UNCHANGED <<outputVars, pipelineVars>>
  \/ \E w \in Workers :
       \/ BuildDatasetCommand(w)
       \/ BuildTrainingCommand(w)
       \/ EvaluateBaselineCommand(w)
       \/ EvaluateHoldoutCommand(w)
       \/ BuildModelCommand(w)
       \/ ReadSourceFile(w)
       \/ ScanTrajectories(w)
       \/ LoadTrajectory(w)
       \/ BuildOutputs(w)
       \/ ReplaceDatasetOutputs(w)
       \/ ReplaceTrainingOutputs(w)
       \/ ReplaceEvaluation(w)
       \/ ReplaceBundle(w)

ReplaySpec == PipelineInit /\ [][ReplayNext]_replayVars

-----------------------------------------------------------------------------
Whole(d, set) == IF set = NoSet THEN FALSE ELSE DOMAIN set = Filenames[d]

Held(w) == {publishing[w].new, publishing[w].old, publishing[w].failed}

(* Whatever fails and whoever is killed, a set that was published is not   *)
(* lost: it or a later one is in place, or in a transaction that is under  *)
(* way or was left behind; and no directory shows part of a set.  Only an  *)
(* old set whose removal stopped midway is exempt, for the handler puts    *)
(* what is left of it back (_replace_output_set).                          *)
SetSurvives ==
  \A d \in Stages : ~spoiled[d] =>
    /\ sets[d] = NoSet \/ Whole(d, sets[d])
    /\ published[d] =>
         \E set \in {sets[d]} \cup litter[d] \cup UNION {Held(w) : w \in Busy(d)} :
           Whole(d, set)

(* Both: no command loses what another one stored.                         *)
NothingLost == OverwriteNeedsRace /\ SetSurvives

(* A whole set comes from one build, and everything in it from one build   *)
(* of the stage before it: sources that are replaced between the reading   *)
(* of two of their files are refused, never mixed                          *)
(* (build_replay_state_training_set, build_replay_state_model).            *)
OneBuild ==
  \A d \in Stages : Whole(d, sets[d]) =>
    CASE d = "dataset" ->
           /\ sets[d].manifest.decisions = sets[d].decisions
           /\ sets[d].manifest.outcomes = sets[d].outcomes
           /\ sets[d].decisions.decisions = sets[d].outcomes.outcomes
      [] d = "training" ->
           LET of == sets[d].manifest.source
           IN  /\ sets[d].training = sets[d].manifest.training
               /\ sets[d].training.decisions = of.decisions.decisions
               /\ sets[d].training.outcomes = of.outcomes.outcomes
      [] d = "model" ->
           /\ sets[d].manifest.model = sets[d].model
           /\ sets[d].model.training = sets[d].manifest.source.training
      [] OTHER -> sets[d].evaluation.folds = sets[d].predictions

(* In the training set a build is about to publish, a row has the features *)
(* the live path would compute from the snapshots up to its time and       *)
(* nothing later, its target is the change over the next three minutes,    *)
(* and every minute at which the live path is ready and the future is      *)
(* known has a row (_construct_training_rows,                              *)
(* build_replay_state_feature_mapping).                                    *)
TrainedAsServed ==
  \A w \in Workers :
  publishing[w].at = "prepare" /\ publishing[w].dir = "training" =>
    LET file == publishing[w].new.training
        rows == Rows(file)
    IN  /\ RowMatches(rows) \subseteq MatchIds(file.decisions)
        /\ \A a \in file.decisions :
             LET all == NormalizedSnapshots(a)
                 Seen(s) == {x \in all : x.time <= s.time}
             IN  \A s \in all :
                   LET key == <<Trajectory[a].match, s.time>>
                       later == At(all, s.time + RequiredHorizon)
                   IN  /\ (key \in DOMAIN rows) <=>
                             (FeatureMapping(Seen(s)) # Nothing /\ later # {})
                       /\ key \in DOMAIN rows =>
                            /\ rows[key].features = FeatureMapping(Seen(s))
                            /\ \A x \in later : rows[key].target = x.diff - s.diff

(* A baseline tests no match with an id up to those it trained on.  And a   *)
(* bundle that was built from the training set a holdout evaluated has     *)
(* seen none of the matches that the holdout tested, and all that it       *)
(* trained on, although the two look up the leagues on their own, at       *)
(* different times, beside imports, and may find copies that contradict    *)
(* what the other found (build_match_to_league_lineage).  Only a match     *)
(* whose file was replaced, by imports that raced, can be placed in two    *)
(* leagues.                                                                *)
EvaluatedOnUnseen ==
  /\ Whole("baseline", sets["baseline"]) =>
       \A fold \in ToSet(sets["baseline"].predictions) :
         /\ fold.test # {}
         /\ \A m \in fold.train, n \in fold.test : m < n
  /\ Whole("holdout", sets["holdout"]) /\ Whole("model", sets["model"]) =>
       LET fold == sets["holdout"].predictions[1]
           trained == sets["model"].model.matches
       IN  sets["model"].manifest.source = sets["holdout"].evaluation.source =>
             /\ trained \ overwritten = fold.train \ overwritten
             /\ trained \cap fold.test \subseteq overwritten
=============================================================================
