# Verification of dota-betting-autopilot

TLA+ models of the parts of the repository that keep state across failures and
interleavings, the TLC instances that check them, and the theorems that TLAPS
proves about them for every value of the constants. Paths below are relative to
the repository (`app/...`, `tests/...`, `README.md`).

Contents: 1 inventory, 2 the live pipeline, 3 paper betting, 4 provider history
and what learns from it, 5 replays, 6 the FONBET export, 7 runs and bounds,
8 fairness, 9 proofs, 10 what the code does not promise, 11 what is not
modelled, 12 plan.

## 1. Inventory

The program is a set of command-line tools (`app/cli.py`) over local files and
one SQLite database. Nothing runs as a daemon with threads; concurrency comes
from several commands running as processes over the same files, from signals
(Ctrl-C, kill) and from remote peers.

| Part | State it keeps | Operations | Hard behaviour | What makes it correct |
|---|---|---|---|---|
| Match history and signal store (`app/live_state_signal.py`, `app/replay_state_history.py`) | per match `history.json`, `<match>.json` | ingest one snapshot, publish an ignored payload | two files replaced one after the other, no lock, retries | histories never contradict themselves, signals are backed by the history, nothing committed is lost |
| JSONL bridge (`app/live_state_jsonl.py`) | cursor and summary files, the input of another program | one synchronisation pass | crash between ingest, cursor and summary; partial records; rewritten input | no line skipped, at most one repeated, in order |
| GSI listener (`app/dota_gsi_live.py`, `app/dota_gsi_listener.py`) | counters, idle clock and printed lines of a run | accept, ingest, count, print, answer | retries of the game, failures between two steps, interrupts, stalled peers | acknowledged means durable, terminal failures are terminal, a run ends |
| GSI capture (`app/dota_gsi_probe.py`) | numbered payload files, audit | start validation, capture | crash between link and audit, two captures on one directory | numbers are gapless and never reused, the audit is truthful |
| Autopilot, sessions, paper bets (`app/services`, `app/scoring`, `app/execution`, `app/data_io/settlement_import.py`, `app/reports`, part of `app/storage/repositories.py`) | sessions, matches, odds, candidates, bets in SQLite | run-once, loop, settle-bet, import-settlements, report | every save is its own transaction; failures and settlements in the middle of a pass | bets follow from stored candidates, candidates from the rule, caps per match, a session is closed, settlement is final and consistent |
| Historical ingestion (`app/history`, `app/draft_history`, repository upserts) | historical matches, games, drafts, rosters | sync-history, sync-drafts, sync-rosters | lists that move while they are paged, contradicting answers, commands at once | what a command reports as done is stored, drafts agree with games, no observation of a roster is forgotten |
| Public match pages (`app/public_pages`) | games, player stats, advantage points | robots check, page, resources, three transactions per match | pages that say less or something else later, kills between transactions | nothing known gives way to nothing, what is reported is whole |
| Roster lineage and point-in-time features (`app/history/roster_lineage.py`, `features.py`) | none (pure) | predecessor graph, feature rows | cut-off boundaries, ties, late results | no row looks ahead, a match counts once |
| Historical and draft models (`app/historical_ml`, `app/draft_ml`) | model files, reports | train, evaluate, predict | rows that arrive in any order of time | training and serving see one row, tests are out of sample |
| Replay fetcher (`app/replay_fetcher.py`) | replay files and `.part` files | bounded download runs | retries, rate limit, partial files | no partial file published, bounds respected |
| Replay trajectories and training (`app/replay_trajectory.py`, `app/replay_trajectory_dataset.py`, `app/replay_state_*.py`) | one artifact per match, directories of files that belong together | import, build dataset, training set, two evaluations, model bundle | stages that read a set while it is replaced, failing renames, kills, two imports | nothing lost, no set of two builds, rows as live features, unseen tests |
| FONBET export (`app/fonbet_history`) | raw details, twelve files of six tables | resumable export | limited and failing requests, kills, an account that moves on | rows hold what was known then, raw files are whole, a cut-off export leaves new files in front of old ones |
| Betting model, evaluation, edge (`app/ml`) | one model file | train, evaluate | | |
| Collectors, OpenDota live (`app/collectors`, `app/opendota_live.py`) | none | HTTP requests, mapping | timeouts, retries | bounded attempts |
| Feasibility probes, tournaments, CLI, exports, Java replay probe | none or reports | one-shot | none that outlives a command | |

How they interact: the listener and the bridge are two callers of the store
module and share its directories; training replaces the model bundle they load;
the autopilot, the settlement commands and the report share the SQLite file;
the sync commands fill the historical tables that lineage, features and the
historical models read; the fetcher's replays become trajectories, trajectories
a dataset, the dataset training rows, and these the bundle of the live path. The
same list, with the status of each part, is in `PROJECT.json` under
`components`; the hazards met while reading are there at their lines with the
properties that cover them, or a note why none does.

## 2. The live pipeline

`DotaGsiListener` and `LiveStateJsonl` are two callers of `LiveStateSignal`;
`LivePipeline` runs both over one store.

| Module | Code | State | Actions |
|---|---|---|---|
| `LiveStateHistory` | `app/replay_state_history.py`, pure part of `app/live_state_signal.py` | none | snapshots, `Conflicts`, `MissingLags`, `Response` |
| `LiveSignalBoard` | abstract specification of the store | `log`, `board` per match | `Record`, `Publish`, `Dismiss` |
| `LiveStateSignal` | `app/live_state_signal.py` | `historyFile`, `signalFile`, `modelBundle`, one `call` per process | `Begin`, `LoadHistory`, `ScoreHistory`, `WriteHistory`, `WriteSignal`, `WriteFails`, `PublishIgnored`, `Return`, `Crash`, `ReplaceModel` |
| `LiveStateJsonl` | `app/live_state_jsonl.py` | input, `cursorFile`, `summaryFile`, the pass `sync` | `StartSync` to `WriteSummary`, one per file operation; `RejectLine`, `LineFailed`, `BridgeWriteFails`, `CrashSync`, producer and editor of the input |
| `DotaGsiLive` | mapping part of `app/dota_gsi_live.py` | none | `Invalid`, `Ignored`, `Sampled` payloads |
| `DotaGsiListener` | `app/dota_gsi_listener.py`, `process_dota_gsi_live_payload`, the bounded loop and body reading of `app/dota_gsi_probe.py` | program counter of the one thread, counters, idle clock, printed and acknowledged lines | one per line that another event may come between: `Connect`, `IngestPayload`, `RereadSignal`, `CountAccepted`, `CountStatus`, `TouchClock`, `PrintLine`, `Reply`, `Stop`, ... |
| `DotaGsiProbe` | capture part of `app/dota_gsi_probe.py` | numbered `files`, `audit`, one `capture` per process | `Start`, `RebuildAudit`, `StagePayload`, `LinkPayload`, `WriteAudit`, `Record`, `Reply`, `CleanUp` |
| `LivePipeline` | both commands at once | the union | `BridgeRuns`, `ListenerRuns`, `ModelTrained` |

Abstractions. A history file is the set of its snapshots, because the code keeps
it sorted by game time and rejects anything else; a signal carries the history
and the model it was computed from, because its hashes, counts, lags and
prediction are functions of those two. A byte offset, a line count and a SHA-256
of the bytes before it are together the processed lines themselves, so a cursor
is a prefix of the input. The twenty validated numbers of a payload are one
opaque feature vector. `os.replace` is atomic; an `OSError` before it leaves the
destination as it was. The auxiliary variable `raced` collects the matches on
which the calls of two processes overlapped: the code takes no lock, and what a
lock would give is promised only outside `raced`.

## 3. Paper betting

| Module | Code | State | Actions |
|---|---|---|---|
| `BetScoring` | rule score of `app/scoring` (market, odds, phase, streamer) | none | `Strength`, `StreamerScore`, `RuleScore`, `Unwise` |
| `BetSelection` | mixture with the model's score, `select_bets` | none | `Decision`, `Hybrid`, `Scored`, `SelectBets` (a fold over the ranked candidates) |
| `BetLedger` | abstract specification of the book | `ledger` per bet | `Place`, `Settle` |
| `BetSettlement` | `settle_bet`, `app/data_io/settlement_import.py`, `app/reports/*`, bets table | `bets`, one `settler` per command | `SaveBet`, `StartImport`, `SkipRow`, `ReadBet`, `UpdateBet`, `FinishImport`, `ImportAborts` |
| `Autopilot` | `app/services/autopilot_service.py`, `app/execution/*`, run-once and loop of `app/cli.py` | rows of `sessions`, matches, utterances, odds, `candidates`; one `run` per command | `OpenSession`, `LoadModel`, `BeginPass`, `SaveMatch`, `SaveSpeech`, `SaveOdds`, `ScoreCandidates`, `SaveCandidate`, `Select`, `PlaceBet`, `NextMatch`, `EndPass`, `PassFails`, `CloseSession`, `Kill` |

Each `save_*` of the repository layer is its own transaction, so each is an
action; settling a bet reads in one transaction (`ReadBet`) and updates in
another (`UpdateBet`). Bet and candidate ids are fresh UUIDs in the code; here
they are the record of the run, pass, match and offer they come from, which is
unique for the same reason. A profit is `zero`, `gain` or `stake lost`: no
property depends on the stake. A line of the streamer is the set of topics whose
keywords it contains, odds are in hundredths, and the rule score is computed
from them as the code does; the score of a trained model is any of a small set.
What the collectors fetch is constant in an instance, except that every pass
hears one of several transcripts.

## 4. Provider history and what learns from it

| Module | Code | State | Actions |
|---|---|---|---|
| `HistoryStore` | upserts, replacements and cut-off queries of `app/storage/repositories.py` | tables `matches`, `games`, `drafts`, `snapshots`, `names` | `UpsertMatch`, `UpsertGame`, `UpsertSnapshot`, `UpsertRoster` |
| `HistorySync` | `app/history/*`, `app/draft_history/*`, their commands | one `cmd` per process, the providers' version `feed` | `FetchPage`, `FetchProPage`, `FetchDetail`, `FetchRoster`, `Lookup`, `StoreMatch`, `StoreGame`, `StoreRoster`, `StoreRosterRenamed`, `Refused`, `Die`, ... |
| `PublicPageSemantics` | extraction and normalisation of `app/public_pages` | none | `Understood`, `Normalized`, `MergedGame`, `MergedPlayers` |
| `PublicPageSync` | `app/public_pages/ingestion.py`, robots, page client | tables `stats`, `points` | `CheckRobots`, `FetchPublicPage`, `Understand`, `ReadExisting`, `StorePublicGame`, `ReplaceStats`, `ReplacePoints`, ... |
| `RosterLineage` | `app/history/roster_lineage.py` | none | `Predecessors`, `Lineage`, `Edges`, `Chain`, `Components` |
| `HistoricalFeatures` | `app/history/features.py`, scope | none | `Windows`, `Results`, `Strengths`, `FeatureRow` |
| `DraftFeatures` | `app/draft_ml/dataset.py` | none | `DraftRow` |
| `HistoricalTraining` | `app/historical_ml/*`, `app/draft_ml/*` | `model`, `report`, `served` | `WriteMatch`, `WriteRoster`, `WriteGame`, `TrainHistorical`, `TrainDraft`, `EvaluateHistorical`, `EvaluateDraft`, `Predict` |

A transaction is one action, but every upsert reads the row it compares with
before its transaction begins: a match or a game on a connection of its own, a
roster in autocommit (`app/storage/repositories.py:1176`, the update is at 1224).
So `Lookup` and `Store...` are two actions. Only a roster that brings a new name is
stored in one (`StoreRosterRenamed`), because the name is written first, which
begins the transaction; that the names are unchanged is read together with the row
of the roster, one moment for what the code reads in several. The writers of
`HistoricalTraining` do not overlap. Versions of the providers pass while
commands run, and the version is the clock. The fields
of a row are reduced to those that are compared: times, winner, teams `a` and
`b`, patch and league; all final statistics of a player are one number `worth`.
What a page shows, and which of its resources exist, come from one version.

Features are integers in units of `1/Scale`; recency weights are a table, and a
row keeps per player the counts of which the code takes mean, least and
greatest. Fitting, metrics and calibration are left out: a model is the rows it
was trained, validated and tested on. `Weight`, the percentages of the split and
the number of rounds of the opponent adjustment are constants with the code's
values.

## 5. Replays

`ReplayFetcher` models `app/replay_fetcher.py`: `fetch-pro-replays` for one
league, for the whole allowlist and for all matches of a league, and the status
command of the allowlist. Its state is `dest` (what `<match>.dem` holds), `fetch`
(the locals of the run in progress) and `runs`. `LeagueAnswers`, `LeagueFails`
and `LeagueRateLimited` are the outcomes of a discovery request, `DetailAnswers`,
`DetailFails` and `DetailRateLimited` those of a detail request, `Retry` an
attempt that is not the last one; `HandleMatch` decides between `UNCHANGED` and a
detail request, `Stream`, `Decompress` and `Publish` download one replay, and
`Abort` is a kill or an exception that nothing handles. A body is whole, cut,
not compressed as expected, or compressed nothing: that is all the checks of the
code tell apart. Temporary files, progress lines and delays are left out. `asked`
is auxiliary and counts OpenDota attempts.

| Module | Code | State | Actions |
|---|---|---|---|
| `ReplayTrajectories` | `app/replay_trajectory.py` | `stored` artifacts, one `importing` per process, `overwritten` matches (auxiliary) | `LoadExport`, `WriteTemporary`, `RecheckExisting`, `ReplaceArtifact`, `ImportKilled`, `LeaveCopy` |
| `ReplayStateRows` | rows of `app/replay_trajectory_dataset.py`, `app/replay_state_training.py`, `app/replay_state_history.py`, splits | none | `DecisionRow`, `OutcomeRow`, `TrainingRows`, `FeatureMapping`, `ExpandingSplits` |
| `OutputSets` | replacement of an output directory, the same code in five stages | `sets`, one `publishing` per process, `litter` | `PrepareNew`, `LookForOld`, `MoveOld`, `InstallNew`, `RemoveOld`, `UndoInstall`, `RestoreOld`, `RemoveTransaction`, `BuildKilled` |
| `ReplayPipeline` | `NothingLost`, `OneBuild`, `TrainedAsServed`, `EvaluatedOnUnseen` | two importers and two workers, a match whose two exports name a league to train on and the one to test; scenarios: four imports that meet beside a copy left by hand, two faults in three replacements of one set, a dataset and then a training set replaced while the next stage reads it, the baseline, and the holdout beside the bundle with two imports and a copy left by hand or with three imports that may race |

Of the eight aggregates of a team the model carries one, the net worth; the
others are treated alike. A hash stands for the content it is taken of, and a
file of rows for the artifacts the rows derive from, because rows are a function
of them. Entries of an output directory that the code did not write are left
out; the comparison of a new set with the existing one is one step. The
assumption `ArtifactsAreCanonical` says what `Trajectory` has to be; TLC
evaluates it. `LeaveCopy` is the user, who may leave an artifact under a name of
their own (`CopyNames`) in the directory of trajectories: every stage loads what it
finds there, and two files of one match that name different leagues are the
conflict that holdout and bundle look for. The exports of one match may name
different leagues too. `overwritten` collects the matches whose file an import
replaced by another artifact, which two imports that look before either writes can
do.

## 6. The FONBET export

`FonbetHistory` is what `app/fonbet_history/normalize.py` makes of one coupon and
the details it has; `FonbetExport` is the run of `exporter.py`: the user saves
summaries of an account that moves on, a run takes coupon after coupon
(`Resume`, `ReadUnreadable`, `Defer`, `Fetch`, `Store` and their failures) and at
the end builds, checks and writes six tables: twelve files, the JSON and then the
CSV of each, every one replaced as a whole (`Build`, `CheckFails`, `WriteFile`).
`CutOff` ends a run anywhere, between the two files of a table too. One export
runs at a time: the code writes through files of fixed names without a lock, and two
at once are not modelled. Amounts are
whole roubles and odds hundredths; where a value sits in the provider's JSON is
left out.

## 7. Runs and bounds

| Run | Properties | Bounds |
|---|---|---|
| `LiveStateSignal` | `StoreSound`, `CommittedNeverLost`, `SuccessIsCurrent`, `ImplementsBoard` | one process, one match, boundaries 0 to 180 s with the code's lags 60, 120, 180, two feature vectors (so that snapshots can contradict), two models |
| `LiveStateJsonl` | `LinesTakenInOrder`, `SuccessIsSummarised`, `GoodLinesConsumed` | two lines of five (two game times, two feature vectors, malformed), one edit: a line behind the cursor and one in flight, or one that is rejected |
| `DotaGsiListener` | `ToldIsDurable`, `FatalWritesNothing`, `RunEnds` | two payloads in each of two runs: a retry of the payload before a kill, and one more; idle limit 1 tick |
| `LivePipeline` | `NothingUndone`, `ShownIsOwnOrNewer` | one line, two payloads, all interleavings of listener and bridge |
| `DotaGsiProbe` | `DirectorySound`, `NeverOverwritten` | two processes that start again and again, three numbers |
| `AutopilotPasses` | `RowsJustified`, `SelectionSound`, `SessionClosed` | a match in scope, one out of scope, one blocked; two passes; five offers (an over and an under on one line, two map winners, one suspended, one unwise market); a calm and a cautious transcript; a model's score of 100 or none |
| `AutopilotSettled` | `BookSound`, `ImplementsLedger` | two concurrent imports of files with a correction of an earlier row and with invalid rows |
| `ReplayFetcher` | `PublishedWhole`, `NewestWithinBudget`, `OkMeansFetched`, `RateLimitStops` | two leagues that share a match with different start times, rows that are repeated, foreign, expired or later than `as_of`; count 2, two details, two attempts (the code has 5), two runs |
| `HistorySync` | `SyncedIsStored`, `DraftMatchesGame`, `RostersAvailable`, `ReportedIsWhole`, `NothingErased` | two processes with three commands of match, draft and roster, or two of public pages; three processes with a roster sync each, two of which may read the row a third has written; four versions of the providers; pages of two rows, one pick per side, no retries |
| `HistoryFeatures` | `ResultsCounted`, `ServedAsTrained`, `OutOfSample`, `NoLookAhead`, `DraftNoLookAhead` | seven match rows of four organisations, three rosters in one lineage, four drafts, stored in any order; five writes; two picks per side; split 70/15 as in the code |
| `FonbetExport` | `DecisionsPointInTime`, `HoldMatchesWins`, `FilesSealed` | four coupons in three versions of the account, two of them in one second, a damaged raw file, limits 0 and 2, three runs, twelve files |
| `ReplayPipeline` | `NothingLost`, `OneBuild`, `TrainedAsServed`, `EvaluatedOnUnseen` | two importers and two workers, a match whose two exports name a league to train on and the one to test; scenarios: four imports that meet beside a copy left by hand, two faults in three replacements of one set, a dataset and then a training set replaced while the next stage reads it, the baseline, and the holdout beside the bundle with two imports and a copy left by hand or with three imports that may race |

What they show. A property bundles invariants that only make sense together: for
example `StoreSound` is that no history contradicts itself and that a signal
names only snapshots of its history, `DirectorySound` that numbers are gapless
and the audit truthful, `RowsJustified` that every reference resolves, that a bet
follows from its candidate and that a candidate has the score its own speech and
offer give it. Properties that relate two moments are action properties
(`CommittedNeverLost`, `FatalWritesNothing`, `NeverOverwritten`,
`RateLimitStops`, `NothingErased`, `DraftNoLookAhead`); `ImplementsBoard` and
`ImplementsLedger` are refinements of the two abstract specifications;
`GoodLinesConsumed` and `RunEnds` are liveness. `NoLookAhead` compares what was
once served with what the same database would serve now, `ServedAsTrained` the
two ways a row is computed, and `TrainedAsServed` the rows of a training set with
the features the live path computes from the snapshots up to the same moment.
`NothingErased` is what a page that says less leaves alone: metadata of a match and
worth of a player are not replaced by nothing, and where there was a draft or there
were points there still is one, or are some. The rest is not kept
(section 10). `EvaluatedOnUnseen` is about evaluations: a baseline
tests later matches than it trained on, and a bundle and a holdout of one training
set agree on what was trained, although they place matches in leagues each by its
own look at the directory of trajectories.

The constants that only bound the exploration are `MaxLines`, `MaxEdits`,
`MaxRuns`, `MaxNumber`, `MaxPasses`, `MaxWrites`, `Mixes` and `Budgets`;
`MaxPayloads`, `IdleTimeout`, `MaxBets`, `Count`, `MaxDetails`, `Offers` of the
export and `MaxRetries` are parameters of the commands themselves. The bounds
are chosen so that every action happens and every clash the code decides occurs:
two of each actor, one more write, run or version than a hazard needs.
`CHECK_DEADLOCK FALSE` is used where commands end for good. Two writers of one
match are checked by `LivePipeline` and covered for any number by the theorems.
Not exercised: two markets of tier C that exclude each other (one such market is
offered), retries of a public page.

## 8. Fairness

* Bridge (`JsonlFairSpec`): weak fairness of a step of the pass and of the store
  call it makes. The command is run again and again (its loop, or its user); a
  running Python process is scheduled. Neither the producer nor faults are fair;
  that faults stop and that a model can be loaded are premises of the property.
* Listener (`ListenerPeerFairSpec`): weak fairness of its thread, of its store
  call and of time, and that a connected peer sends its body or goes away. The
  code does not enforce the last one (section 10).

All other properties are safety properties and need no fairness. Every command
other than the listener's is bounded by its own timeouts and attempt limits.

## 9. Proofs

All theorems hold for every value of the constants that satisfies the named
assumptions of the modules.

`DataLemmas` holds what the proofs need of data. The induction theorems of the
library take an operator as a parameter; here induction is stated with sets:
a set of naturals, or of subsets of a finite set, that contains the first and
with each one the next contains all (`Induction`, `SetInduction`), from the
well-foundedness of inclusion on finite sets. From it follow that a function over
`1 .. n` can be defined by recursion (`Recursion`), hence that the fold of
a sequence exists and steps as it should (`FoldExists`), that a finite set has a
greatest element in a total order, and that numbering its elements by how many
come before lists it in order (`RankedList`). A function over a finite set that refers
to elements of an earlier time is defined by recursion along the times
(`TimeRecursion`), and the sum of a function over a finite set does not depend on
the order of its terms (`Total`, `TotalIs`). The orders of the code (the
selection of bets, the queue of a download run, the training rows) are therefore
written by rank rather than with a sorting operator.

`LiveStateProofs`, the store. `StoreInv` is type correctness, consistency of every
history file, `SignalBacked` and `CallsKnow`. The last conjunct is what makes it
inductive: it says of a call in progress what it has read. Up to its history
write the file is what the call will write without the new snapshot; after it,
the file is what the call wrote; both only while no other process has replaced
the file, which is what `raced` records. From it follow `StoreTypes`,
`HistoriesAreConsistent` (also with overlapping writers), `SignalsAreBacked`,
`StoreIsSound` (the invariant the run checks), and the action properties
`CommittedSnapshotsStay` and `SuccessLeavesCurrent`. `StoreImplementsBoard`
assumes `SoleWriter` (one process): with two the board can show an older log
than the current one, as the `raced` exceptions say.

`LiveStateProofs`, the bridge, builds on the store's invariant, since each step of
the bridge is a step of the store or leaves it alone. `BridgeInv` adds that the
pass is at the cursor, or one line ahead of it between the ingestion of that line
and the write of the cursor (`PassInv`); that the call in progress is for the next
line and its success means that the line is committed: in the history, or on a
raced match (`CallInv`); and that, as long as the input is only appended to, the
cursor and the lines the pass has read are prefixes of it (`InputInv`).
`OrderInv` adds, for a bridge that has the store for itself, that no call is
raced and that the histories hold no line beyond the next one. From them follow
`LinesAreTakenInOrder` and `SuccessesAreSummarised`, for any number of lines,
passes, crashes, failed writes and changes of the model.

`LivePipelineProofs`, the listener. `OwnInv` is what the listener knows of its own
request: that it is in a call exactly when it waits for one, and the call is for
the request in hand (`OwnCallInv`); that a call that returned with success has
committed the snapshot and answered from what is on disk (`AnswerInv`), which the
counting, printing and replying then keep (`RequestInv`); that what was told is
durable (`ToldInv`); and that after a terminal failure the process is on its way
out (`FatalInv`). From it `WhatIsToldIsDurable` and `FatalFailuresAreFinal`, for
any payloads and limits, with an interrupt or a kill after any step.

`LivePipelineProofs`, both processes. `BridgeInv` and `OwnInv` are stated so
that they survive a step of another process that leaves the own call alone, only
adds to histories outside `raced` and replaces a signal only by one computed from
the whole history (`OthersKeepBridge`, `OthersKeep`); the steps of each process
are such steps for the other (`BridgeLeavesListener`, `ListenerLeavesBridge`).
`NothingIsUndone` and `ShownContainsOwn` follow. `IngestInOrder` is lost in the
composition, because the listener adds snapshots that are in no line.

`DotaGsiProbeProofs`. `ProbeInv` says that a capture's records are the files of
the first numbers, and from the link until the record also the payload it holds
(`Knows`); and that a capture that has the directory for itself knows every file
and is the only one that may be behind with the audit (`SoleInv`), which is what
makes its acknowledgements durable. `DirectoryIsSound` and
`PublishedPayloadsStay` hold for any number of captures on one directory; the
assumption `CapturesAreFinite` is that there are finitely many.

`AutopilotProofs`, the book. `BookInv` says that a row of the bets table has one of
the forms the code writes and that a settler that has read a bet is about to write
a good row for it. Among the steps of the autopilot only `PlaceBet` touches the
table. `ReportsAddUp` states that the totals of a report partition the bets it
counts, whatever subset it selects; `BookImplementsLedger` that a bet is placed
once and only ever settled or settled again afterwards, for any number of
commands, settlers and files. `BookIsSound` adds what an import owes: `OwedInv`
says that until it ends, the last good row of a bet is still ahead of it, in
hand, or in the table, unless another process wrote the bet.

`AutopilotProofs`, the passes. `SessionsAreClosed` uses `CloseInv`: between the
first pass and the end, a command is at a point from which only the `finally`
that closes its session, or a kill, leads out. `RowsAreBacked` uses `RefInv`:
while a command works on a match, what the stages before the present one had to
save is saved (`Backed`), so that each row finds the rows it names and each
candidate carries the decision of its score. `RowsAreJustified` adds `TypeInv` and
`ScoreInv`: a stored score is the one the rule and the heard speech give, and a
bet of this or an earlier pass is a stored candidate that reaches the threshold.
It assumes `Threshold > 52`: the rule alone gives an unwise offer at most 52
points, so a lower threshold would bet on some; the code has 62.
`SelectionIsSound` needs what the fold of `select_bets` computes: `CapsInv` carries
the cap and the absence of clashes through the bets already placed, and
`PicksWell`, proved by induction over the ranked candidates, that a candidate is
left out only for chosen ones before it that clash or fill the cap.

`ReplayProofs`, the download runs. `PublishInv` adds to `PublishedWhole` that a run
about to publish holds a whole replay, which is what the decompression
establishes: `OnlyWholeReplays`. `LimitInv` says that a rate-limited run is at the
point where it only notices the limit and finishes, from which
`RateLimitsAreFinal` follows for every mode and any number of leagues.
`BudgetInv` compares what a run has asked with what it has behind it: between
requests all attempts of the leagues and details that are done cover it, and
during a request the attempts made so far are added (`BudgetsAreKept`).
`RunInv` says what a run has found and handled: one listing for each match, none
that was answered for is missing or starts later (`Discovered`); the results and
after them the queue are one list of what was found, in order (`QueueOK`); what is
reported as fetched is on disk (`Kept`); a rate limit leaves a failure behind.
`NewestAreFetched` and `OkIsFetched` follow, for every allowlist, an empty one and
one that lists a league twice included.

`ReplayProofs`, the pipeline. `ReplayInv` consists of `TrajectoriesInv` (the stored
artifacts and the imports), `OutputsInv` (every complete set, also in the hands of a replacement or moved aside
by it, is of one build; where a replacement stands and what a kill left behind) and
`JobsOk` (how far a running command has read its sources, that the manifest it read
first is one a build wrote, and that the artifacts it has loaded or will load cover
the matches of the training set it read). From it
`NothingIsLost` and `SetsAreOfOneBuild`. `TestsAreUnseen` is about two commands
that look up leagues in one directory at different times, and needs what their
looks have in common (`PlacedInv`): files are never removed, so the names that two
scans listed are one within the other (`NamesInv`); what a command has loaded is
still stored, or its match was overwritten (`LoadedInv`); and there is one
placement of matches in leagues that every finished holdout and bundle followed
(`SetsFollow`) and that any look still to be finished will find or refuse
(`PlacesHold`), since a second file of another league only makes a conflict of the
match. An overwritten match is outside all of this, as the property says. It
assumes nothing about the leagues that exports name. `RowsAreAsServed` compares the two ways from an artifact to
features: the rows of a training set go through decision and outcome files, the
live path through the history of normalised snapshots; that both see the same
snapshots rests on the order and the distinct times that canonical artifacts have.
The assumptions `FoldsFit` and `ExportsAreTyped` say what the code checks of its
constants and of an export; `CopiesAreApart` that a copy left by hand is not named
as the file of a match; `NothingIsNoFeatures` that the value for absent features
is none of them.

`FonbetExportProofs`. `ExportInv` says where the run in progress is in its twelve
files (`OrderInv`: those up to the last one written are of this run, the others are
older, and older ones never come before newer), and that a detail about to be
stored can be read. With `Published`, below, follows `FilesAreSealed`, for every
account and any number of runs that are cut off between any two files; the assumption `AccountIsServed` is that the provider answers for a
coupon that was once listed. `RecordsInv` and `Published` go on from there: records
have the shape normalisation gives them (`AccountIsTyped` says of ids, times and
legs what the code makes of any input), and the tables of one run are made of the
coupons that passed its checks. `HoldsMatchWins` follows from the check of the payouts.
`DecisionsSeeThePast` rests on `RowSeesThePast`: entries are numbered by how many
come before, a bet listed before another was not placed after it
(`ListedIsNotAfter`), so leaving out the later bets and all outcomes changes neither
the number of an entry nor what its row is computed from.

`HistoryProofs`, the tables that synchronisation fills. `SyncInv` is what all commands
share: the shape of a command's fields in each phase (`Shape`), that a kind runs
in one process only until it has `raced` (`OneAtATime`), and that a game id has one
row (`OneRow`). Each kind then has an argument of its own, which states what a
command still owes the table, as a relation between the table, the command and
the clock, so that a step of another kind can only keep it:
`RosterWork` (an answer that was taken is in the table or among the results still
to be stored; as long as one roster sync runs at a time, the row it has read is the
row it writes to, and an observation only gets earlier; when two overlapped, what
is left is an observation before the sync ended);
`DraftWork` (the results in hand match their own mark, and a row looked up for a
write is the row that is there);
`MatchWork` (a usable row of the first version is stored, in hand, or `Behind` the
place that was read last, because rows that are not taken off only move to later
places; results in hand are no older than what is stored, `InTurn`);
`NormWork` and `Tables` (a page sync that has read what exists writes nothing poorer,
because of the tables only its own writes change what it has read, `Grows`).
`RostersStayAvailable`, `DraftsMatchGames`, `SyncedStaysStored`, `NothingIsErased` and
`ReportedStaysWhole` follow for any number of processes. `SyncAssumption` says that
providers answer with lists and that ids of professional matches are positive,
`PublicAssumption` that at least one match is asked for, by positive ids.

The last part of `HistoryProofs` is about what learns from these tables.
`TablesInv` says that they stay finite and dated, `ModelInv` that what is in a model file was
split by time (`SplitByTime`: the shares of earlier and later rows only grow along
the order in which rows are sorted, so rows of one moment stay together);
`ModelsAreOutOfSample` follows for any percentages. `TrainingAssumption` says that
starts, ends and observations are times, an end possibly unknown. `NothingIsSeenAhead` compares the row that was
served with the row of today: `ServedInv` remembers some tables it was computed from,
and `KnownRow` shows, definition by definition from the roster graph
(`Past`, an instance of `RosterLineage` with other tables) to the row, that two
tables with the same known part give the same row. `DraftRowsSeeThePast` is the same
argument between two states of one step.

`EachResultCountsOnce` starts from `CountedInv`, that the table of matches has one
row per id. The chain of a roster exists and runs forward in time (`ChainIsInTime`), so
its windows do not overlap (`HistoryIsApart`) and a match is a result in one of
them only (`OneResultEach`). A roster has at most one predecessor and it is an
earlier one, so each component of the lineage has one link less than it has rosters
(`ComponentsAreTrees`, `LineageHasNoLoop`). Every decided match is the win of one
team, so the wins add up to the results (`EveryWinCounts`). The strength of a team
keeps the sign of its results through each round of adjustment, by induction on the
rounds (`StrengthsFollow`). `FeatureAssumption` gives every age a positive weight
of at most one, with a scale that halves evenly, as fractions do in the code;
`WeightAssumption` says that every age that occurs has a weight.

Only model-checked: what is stated under fairness (`GoodLinesConsumed`, `RunEnds`),
which is out of the prover's reach. Every safety property of the runs, invariant or
action property, is the subject of a theorem; some theorems are for one process
or a sole writer only, as said above where they are.

## 10. What the code does not promise

Each of these was tried as a property and refuted by what the code does; the
properties above leave the case out by name, or state it for the pass or the
process only.

* An interrupt between the two counters of `record_accepted`
  (`app/dota_gsi_listener.py:164`) makes the result constructor raise instead of
  returning the interrupted result.
* A peer that never completes its body keeps the listener from ending
  (`app/dota_gsi_probe.py:590`): `RunEnds` assumes that peers do.
* The cap of bets per match holds for each pass of the loop command, not for the
  session that stores it (`app/services/autopilot_service.py:145`).
* After older matches were synchronised, evaluate measures a model on a split
  made anew, whose test part may hold rows the model was trained on
  (`app/historical_ml/evaluation.py:126`): `OutOfSample` is about the split a
  model was trained with.
* The sequences of the FONBET export are ordered by the text of a time, in which
  a full second comes after its fractions (`app/fonbet_history/normalize.py:655`):
  `DecisionsPointInTime` excepts a bet on a full second when another one later in
  that second is in the account (`ListedAhead`).
* `evaluate-draft-ml` scores all complete drafts of the moment in one, those the
  model was trained on included (`app/draft_ml/evaluation.py:24`): `OutOfSample`
  is about the parts of a training.
* A page that shows fewer points than are stored replaces them all: a page with the
  gold curve only takes the curve of experience away
  (`app/storage/repositories.py:1048`), against the ingestion policy of
  `docs/public_match_page_data_feasibility.md:527`. In the same
  way a shorter ordered draft replaces the longer one, while `draft_complete` stays
  true once it was (`app/public_pages/ingestion.py:891`).
* Nothing in the files of an export says which run wrote them: one that is cut off
  leaves new files in front of old ones, a table whose JSON is new beside its old
  CSV included, until the export is run again
  (`app/fonbet_history/exporter.py:227`).
* A detail that was fetched while its bet was open is kept for good
  (`app/fonbet_history/exporter.py:132`): the tables are made of it, whatever the
  provider would say now.
* The rosters of one sync all carry the time it began
  (`app/history/pandascore_rosters.py:83`), and a roster that changes and changes
  back keeps its first time, so that the latest one by time is the one in between
  (`app/storage/repositories.py:1220`).
* A malformed line blocks the bridge until the input is edited
  (`app/live_state_jsonl.py:393`): `GoodLinesConsumed` is about the lines before it.
* Overlapping commands on one table or directory. A stale signal or a lost snapshot
  (`raced` of `LiveStateSignal`: `CommittedNeverLost` and `NothingUndone` leave the
  match out); draft actions of one answer beside the game row of another
  (`DraftMatchesGame`); the later of two observations of a roster
  (`RostersAvailable`, which then promises it from the end of the sync only: for
  queries between the two times, of which `observed_at` is the boundary by
  `README.md:544`, the roster is gone); an erased field of a public match (`NothingErased`); an overwritten
  artifact (`NothingLost`), and with it a match that a bundle was trained on and the
  holdout beside it tested (`EvaluatedOnUnseen`).

## 11. What is not modelled

The wording of console lines, logs and reports; the validation of the single
fields of a payload; the values of predictions and of profits; the statistics of
training and evaluation, the diagnostics and the canary verdict of public pages,
the spatial features of replays (pure numerics and reports); one-shot
feasibility probes, CSV exports and dataset inspection, which keep no state the
rest reads; HTTP collectors, which are inputs of the autopilot; the betting
model, which is one fit and one file; the Java replay probe, a program of its
own. The full list with reasons is in `PROJECT.json`.

## 12. Plan

1. Theorems: the refinements for more than one writer, with a board that allows
   what `raced` records.
2. The retry and deduplication loops of the collectors, with their timeouts.
3. Backfill of public pages beyond one command, with its audit.
