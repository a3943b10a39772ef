------------------------- MODULE HistoricalTraining -------------------------
(* Training and evaluating the two models that learn from provider history: *)
(* train-historical-ml and train-draft-ml split the rows of the moment by   *)
(* time, fit on the oldest part and replace the model file, evaluate-* load *)
(* the file and measure it on the rows of the moment, split anew.  Between  *)
(* these commands the synchronisation writes rows, in any order of time.    *)
EXTENDS HistoricalFeatures, DraftFeatures

CONSTANTS MatchRows, GameRows, Sightings,  \* what synchronisation may store
          Parts,        \* fractions of the split in percent: train, validation
          Minimum,      \* least number of rows in all and in each part
          Upcoming,     \* contexts of the matches a prediction is asked for
          MaxWrites,    \* bound: rows written
          NoModel       \* no model file, no report, no prediction yet

(* Starts of stored rows and observations are times; the split is in percent. *)
ASSUME TrainingAssumption ==
    /\ Parts[1] \in Nat /\ Parts[2] \in Nat
    /\ NoTime \notin Int
    /\ \A m \in MatchRows : m.start \in Int /\ m.end \in Int \cup {NoTime}
    /\ \A x \in GameRows : x.game.start \in Int
    /\ \A s \in Sightings : s.observed \in Int

(* Every age of a result at the start of another match has a weight. *)
ASSUME WeightAssumption ==
    \A m, n \in MatchRows : EndedBefore(m, n.start) => n.start - m.end \in DOMAIN Weight

VARIABLES model,        \* kind of model -> the file train wrote
          report,       \* kind of model -> what evaluate measured
          served,       \* the last prediction: its context and feature row
          writes        \* rows written so far, of at most MaxWrites

trainVars == <<store, model, report, served, writes>>
Models == {"match", "draft"}

-----------------------------------------------------------------------------
(* split_historical_dataset, and split_draft_dataset after it: rows of one  *)
(* time stay together; a part is filled until it has reached its share.     *)
Earlier(rows, r) == Cardinality({x \in rows : x.at < r.at})
Share(rows, percent) == (Cardinality(rows) * percent) \div 100
(* Mutant: the rows are dealt out as they come, groups are torn apart. *)
SplitByRow(rows) ==
    LET Place(r) == Cardinality({x \in rows : x.at < r.at \/ (x.at = r.at /\ x.id > r.id)})
        UpTo(percent) == {r \in rows : Place(r) < Share(rows, percent)}
    IN  [train |-> UpTo(Parts[1]),
         validation |-> UpTo(Parts[1] + Parts[2]) \ UpTo(Parts[1]),
         test |-> rows \ UpTo(Parts[1] + Parts[2])]
Split(rows) ==
    LET UpTo(percent) == {r \in rows : Earlier(rows, r) < Share(rows, percent)}
    IN  [train |-> UpTo(Parts[1]),
         validation |-> UpTo(Parts[1] + Parts[2]) \ UpTo(Parts[1]),
         test |-> rows \ UpTo(Parts[1] + Parts[2])]

(* validate_minimum_training_rows, and both results among the train rows. *)
EnoughRows(rows) ==
    LET s == Split(rows)
    IN  /\ Cardinality(rows) >= Minimum.total
        /\ \A part \in DOMAIN s : Cardinality(s[part]) >= Minimum[part]
Trainable(rows) == EnoughRows(rows) /\ Cardinality({r.target : r \in Split(rows).train}) = 2

(* A row is known by its match or game, its time and its label. *)
Label(r) == [id |-> r.id, at |-> r.start, target |-> r.winner = "a"]
RowsNow(kind) == {Label(r) : r \in IF kind = "match" THEN Targets ELSE DraftTargets}

-----------------------------------------------------------------------------
TrainingInit ==
    /\ StoreInit({}) /\ writes = 0
    /\ model = [k \in Models |-> NoModel] /\ report = [k \in Models |-> NoModel]
    /\ served = NoModel

(* What a synchronisation command stores, one row at a time. *)
Written == writes < MaxWrites /\ writes' = writes + 1 /\ UNCHANGED <<model, report, served>>
WriteMatch(m) == Written /\ UpsertMatch(OfSource(matches, m.id), m)
WriteRoster(s) == Written /\ UpsertRoster(s)
WriteGame(x) == Written /\ UpsertGame(OfSource(games, x.game.id), x.game, x.actions)

(* train_historical_model_from_repository, train_draft_model_from_          *)
(* repository: too few rows leave the old model file where it is.  The rows *)
(* of a part are all the model and the metrics of the part depend on.       *)
Train(kind) ==
    /\ model' = [model EXCEPT ![kind] = IF Trainable(RowsNow(kind))
                                        THEN Split(RowsNow(kind)) ELSE @]
    /\ UNCHANGED <<store, report, served, writes>>

(* evaluate_historical_model_from_repository measures the parts of a split *)
(* of the rows of the moment, each of which needs a row;                    *)
(* evaluate_draft_model_from_repository measures all of them in one, those  *)
(* the model was fitted on included.                                        *)
Measured(kind, parts) == report' = [report EXCEPT ![kind] = [parts |-> parts, of |-> model[kind]]]
EvaluateHistorical ==
    /\ model["match"] # NoModel
    /\ LET s == Split(RowsNow("match"))
       IN  IF \E part \in DOMAIN s : s[part] = {} THEN UNCHANGED report ELSE Measured("match", s)
    /\ UNCHANGED <<store, model, served, writes>>
EvaluateDraft ==
    /\ model["draft"] # NoModel
    /\ LET rows == RowsNow("draft")
       IN  IF rows = {} THEN UNCHANGED report ELSE Measured("draft", [all |-> rows])
    /\ UNCHANGED <<store, model, served, writes>>

(* historical-ml-status and draft-ml-status: what a training would find. *)
ModelStatus(kind) ==
    LET rows == RowsNow(kind) split == Split(rows)
    IN  [rows |-> Cardinality(rows), parts |-> [p \in DOMAIN split |-> Cardinality(split[p])],
         ready |-> EnoughRows(rows), artifact |-> model[kind] # NoModel]
DraftModelStatus == ModelStatus("draft")

TrainHistorical == Train("match")
TrainDraft == Train("draft")
DraftCommand == TrainDraft \/ EvaluateDraft

(* What is known of the time before c: the matches and games that were over *)
(* and the rosters that had been observed.                                  *)
KnownMatches(c) == << {m \in matches : EndedBefore(m, c)},
                      {<<r, snapshots[r]>> : r \in RostersBefore(c)} >>
KnownGames(c) == {<<p, drafts[p.id]>> : p \in GamesBefore(c)}

(* predict_historical_match; what was known at the time is kept to state    *)
(* NoLookAhead.                                                             *)
Predict(ctx) ==
    /\ served' = [ctx |-> ctx, row |-> PredictionRow(ctx), known |-> KnownMatches(ctx.at)]
    /\ UNCHANGED <<store, model, report, writes>>

TrainingNext ==
    \/ \E m \in MatchRows : WriteMatch(m)
    \/ \E s \in Sightings : WriteRoster(s)
    \/ \E x \in GameRows : WriteGame(x)
    \/ TrainHistorical \/ EvaluateHistorical
    \/ DraftCommand
    \/ \E ctx \in Upcoming : Predict(ctx)

TrainingSpec == TrainingInit /\ [][TrainingNext]_trainVars

-----------------------------------------------------------------------------
Contexts == {ContextOf(m) : m \in {x \in MatchRows : HasTeams(x)}}

(* No look-ahead: asked again, a prediction is made from the same row       *)
(* unless something that was over or observed before its time has become    *)
(* known.  A result or a roster of a later day never reaches it: not        *)
(* through the history, not through an opponent's strength, not through the *)
(* order of the rosters.                                                    *)
NoLookAhead ==
    served # NoModel =>
        LET ctx == served.ctx
        IN  KnownMatches(ctx.at) = served.known => PredictionRow(ctx) = served.row

(* The same for the row of a draft: only another answer about the game      *)
(* itself, or about games that were over when it started, changes it.       *)
DraftNoLookAhead ==
    [][\A g \in DraftTargets \cap DraftTargets' :
         drafts[g.id]' = drafts[g.id] /\ KnownGames(g.start)' = KnownGames(g.start)
         => DraftRow(g)' = DraftRow(g)]_trainVars

(* A match counts once in a team's history, for one of its two sides, even  *)
(* when the chain of rosters leads through both organisations that played   *)
(* it; and the chain has no loop: every link joins two components.          *)
CountedOnce ==
    \A ctx \in Contexts :
        /\ \A org \in {ctx.a, ctx.b} :
             LET results == Results(MatchesBefore(ctx.at), History(org, ctx.at), ctx.at)
             IN  \A x, y \in results : x.match = y.match => x = y
        /\ LET s == LineageStatus(ctx.at)
           IN  s.components = s.available - s.exact - s.strong - s.coach

(* A match is judged for a bet by the same row a model is trained on: the   *)
(* history read by the database's cutoff is the one filtered in memory.     *)
ServedAsTrained ==
    \A m \in Targets : PredictionRow(ContextOf(m)) = TrainingFeatures(m)

(* Every decided match is one team's win and one team's loss, and the       *)
(* strength of a team that won all it played is not negative, that of one   *)
(* that lost everything not positive, whoever the opponents were.           *)
StrengthsFollowResults ==
    \A ctx \in Contexts :
        LET eligible == Eligible({m \in MatchesBefore(ctx.at) : InScope(m)}, ctx)
            Of(t) == ResultsOf(eligible, t, ctx.at)
        IN  /\ ctx.id \notin {m.id : m \in MatchesBefore(ctx.at)} =>
                 MapThenSumSet(LAMBDA t : Cardinality(Wins(Of(t))), TeamsOf(eligible))
                   = FeatureStatus(ctx.at).results
            /\ \A s \in Strengths(eligible, ctx.at) :
                 /\ Wins(Of(s.team)) = Of(s.team) => s.value >= 0
                 /\ Wins(Of(s.team)) = {} => s.value <= 0

(* Both: a result is counted once, for the right side, in whatever a row    *)
(* is computed from (resolve_competitive_history,                           *)
(* build_point_in_time_strength_state).                                     *)
ResultsCounted == CountedOnce /\ StrengthsFollowResults

(* What a model file was fitted on lies in time before all that chose and   *)
(* all that measured it, each part has its least number of rows, and both   *)
(* results were seen.                                                       *)
OutOfSample ==
    \A k \in Models : model[k] # NoModel =>
        /\ \A x \in model[k].train, y \in model[k].validation : x.at < y.at
        /\ \A x \in model[k].validation, y \in model[k].test : x.at < y.at
        /\ \A x \in model[k].train, y \in model[k].test : x.at < y.at
        /\ \A part \in {"train", "validation", "test"} :
             Cardinality(model[k][part]) >= Minimum[part]
        /\ Cardinality({x.target : x \in model[k].train}) = 2
=============================================================================
