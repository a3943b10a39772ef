-------------------------- MODULE LiveStateHistory --------------------------
(***************************************************************************)
(* Snapshots, match histories and the signal computed from a history       *)
(* (app/replay_state_history.py and the pure part of                       *)
(* app/live_state_signal.py).  A history is the set of its snapshots: the  *)
(* file always holds them sorted by game time, so the set determines it.   *)
(***************************************************************************)
EXTENDS Integers, FiniteSetsExt

CONSTANTS
  Matches,    \* match ids
  Times,      \* game_time_seconds values a snapshot may carry
  Features,   \* feature vectors of a snapshot, opaque
  Lags,       \* REQUIRED_LAGS_SECONDS
  Models,     \* manifest hashes of loadable model bundles
  NoModel,    \* no loadable bundle at model_dir / no model used
  Notes,      \* reason and game time of an ignored GSI payload
  NoNote

ASSUME TimesAreNaturals == Times \subseteq Nat
ASSUME LagsArePositive == Lags \subseteq Nat \ {0}
ASSUME NoModelIsNoModel == NoModel \notin Models
ASSUME NoNoteIsNoNote == NoNote \notin Notes

Snapshot == [time : Times, features : Features]
Request  == [match : Matches, snap : Snapshot]

(* Two snapshots of one game time are never both in a history.             *)
Consistent(h) == \A s, t \in h : s.time = t.time => s = t

LatestTime(h) == Max({s.time : s \in h})

(* Mutant: only the latest snapshot is compared.                           *)
ConflictsWithLatest(h, snap) ==
  \E s \in h : s.time = snap.time /\ s # snap /\ s.time = LatestTime(h)

(* The new snapshot disagrees with one already held for its game time.     *)
Conflicts(h, snap) == \E s \in h : s.time = snap.time /\ s # snap

(* Lags are exact: there is no nearest-snapshot fallback.                  *)
MissingLags(h) ==
  {lag \in Lags : \A s \in h : s.time # LatestTime(h) - lag}

(* A signal file.  Its game time, snapshot count, missing lags and history *)
(* hash are functions of the history it was computed from, its prediction  *)
(* of that history and the model.                                          *)
Signal == [status  : {"absent", "ignored", "not_ready", "scored"},
           history : SUBSET Snapshot,
           model   : Models \cup {NoModel},
           note    : Notes \cup {NoNote}]

AbsentSignal == [status |-> "absent", history |-> {}, model |-> NoModel, note |-> NoNote]

IgnoredSignal(note) == [AbsentSignal EXCEPT !.status = "ignored", !.note = note]

Response(h, bundle) ==
  [status  |-> IF MissingLags(h) = {} THEN "scored" ELSE "not_ready",
   history |-> h,
   model   |-> IF MissingLags(h) = {} THEN bundle ELSE NoModel,
   note    |-> NoNote]
=============================================================================
