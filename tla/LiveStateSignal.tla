--------------------------- MODULE LiveStateSignal --------------------------
(***************************************************************************)
(* Ingestion of one live snapshot (app/live_state_signal.py): the program  *)
(* loads the history file of the match, inserts the snapshot, loads the    *)
(* model, scores, and then replaces two files one after the other, the     *)
(* history and the signal.  Every step of a call is an action, so that a   *)
(* crash, a failed write or another process may come between any two.      *)
(* A writer is a process that calls the module: the GSI listener, a JSONL  *)
(* synchronisation pass, a one-shot command.                               *)
(***************************************************************************)
EXTENDS LiveStateHistory

CONSTANTS
  Writers,
  NoRequest

ASSUME NoRequestIsNoRequest == NoRequest \notin Request

VARIABLES
  historyFile,  \* historyFile[m] : state_dir/<m>/history.json, {} when absent
  signalFile,   \* signalFile[m]  : signal_dir/<m>.json
  modelBundle,  \* what load_replay_state_model finds at model_dir
  call,         \* call[w] : the ingestion w is executing
  raced         \* auxiliary: matches whose history was replaced while a call
                \* that had already read it was still running

storeVars == <<historyFile, signalFile, modelBundle, call, raced>>

CallPCs == {"idle", "load", "score", "writeHistory", "writeSignal", "returned"}
Outcomes == {"none", "BUILT", "UNCHANGED", "signal_error", "model_error"}

Call == [pc       : CallPCs,
         req      : Request \cup {NoRequest},
         updated  : SUBSET Snapshot,  \* the history with the snapshot inserted
         response : Signal,
         built    : BOOLEAN,          \* the history write returned BUILT
         outcome  : Outcomes]

IdleCall == [pc |-> "idle", req |-> NoRequest, updated |-> {},
             response |-> AbsentSignal, built |-> FALSE, outcome |-> "none"]

(* The call returns, keeping what the caller looks at.                     *)
Returned(c, outcome) ==
  [IdleCall EXCEPT !.pc = "returned", !.req = c.req, !.response = c.response,
                   !.outcome = outcome]

(* w has read the history of m and has not returned yet.                   *)
Ingesting(w, m) ==
  /\ call[w].pc \in {"score", "writeHistory", "writeSignal"}
  /\ call[w].req.match = m

StoreTypeOK ==
  /\ historyFile \in [Matches -> SUBSET Snapshot]
  /\ signalFile \in [Matches -> Signal]
  /\ modelBundle \in Models \cup {NoModel}
  /\ call \in [Writers -> Call]
  /\ raced \in SUBSET Matches

StoreInit ==
  /\ historyFile = [m \in Matches |-> {}]
  /\ signalFile = [m \in Matches |-> AbsentSignal]
  /\ modelBundle \in Models
  /\ call = [w \in Writers |-> IdleCall]
  /\ raced = {}
-----------------------------------------------------------------------------
Begin(w, r) ==
  /\ call[w].pc = "idle"
  /\ call' = [call EXCEPT ![w] = [IdleCall EXCEPT !.pc = "load", !.req = r]]
  /\ UNCHANGED <<historyFile, signalFile, modelBundle, raced>>

(* Mutant: an out-of-order snapshot starts a new history.                  *)
LoadHistoryRestarts(w) ==
  LET c == call[w]
      h == historyFile[c.req.match]
  IN  /\ c.pc = "load"
      /\ call' = [call EXCEPT ![w] =
           IF Conflicts(h, c.req.snap)
             THEN Returned(c, "signal_error")
             ELSE [c EXCEPT !.pc = "score",
                            !.updated = IF h # {} /\ c.req.snap.time < LatestTime(h)
                                          THEN {c.req.snap} ELSE h \cup {c.req.snap}]]
      /\ UNCHANGED <<historyFile, signalFile, modelBundle, raced>>

(* Mutant: a snapshot for a game time already held is always an error.     *)
LoadHistoryRejectsRepeats(w) ==
  LET c == call[w]
      h == historyFile[c.req.match]
  IN  /\ c.pc = "load"
      /\ call' = [call EXCEPT ![w] =
           IF \E s \in h : s.time = c.req.snap.time
             THEN Returned(c, "signal_error")
             ELSE [c EXCEPT !.pc = "score", !.updated = h \cup {c.req.snap}]]
      /\ UNCHANGED <<historyFile, signalFile, modelBundle, raced>>

(* load_persisted_match_history and insert_live_state_snapshot.  An equal  *)
(* snapshot leaves the history as it is.                                   *)
LoadHistory(w) ==
  LET c == call[w]
      h == historyFile[c.req.match]
  IN  /\ c.pc = "load"
      /\ call' = [call EXCEPT ![w] =
           IF ~Consistent(h) \/ Conflicts(h, c.req.snap)
             THEN Returned(c, "signal_error")
             ELSE [c EXCEPT !.pc = "score", !.updated = h \cup {c.req.snap}]]
      /\ UNCHANGED <<historyFile, signalFile, modelBundle, raced>>

(* Mutant: the loaded history is scored, without the new snapshot.         *)
ScoreHistoryBeforeInsert(w) ==
  LET c == call[w]
  IN  /\ c.pc = "score"
      /\ call' = [call EXCEPT ![w] =
           IF modelBundle = NoModel
             THEN Returned(c, "model_error")
             ELSE [c EXCEPT !.pc = "writeHistory",
                    !.response = IF historyFile[c.req.match] = {}
                                   THEN Response(c.updated, modelBundle)
                                   ELSE Response(historyFile[c.req.match], modelBundle)]]
      /\ UNCHANGED <<historyFile, signalFile, modelBundle, raced>>

(* The response is computed before either file is written.                 *)
ScoreHistory(w) ==
  LET c == call[w]
  IN  /\ c.pc = "score"
      /\ call' = [call EXCEPT ![w] =
           IF modelBundle = NoModel
             THEN Returned(c, "model_error")
             ELSE [c EXCEPT !.pc = "writeHistory",
                            !.response = Response(c.updated, modelBundle)]]
      /\ UNCHANGED <<historyFile, signalFile, modelBundle, raced>>

(* Mutant: a failed history write is not noticed.                          *)
WriteHistoryIgnoringErrors(w) ==
  LET c == call[w]
  IN  /\ c.pc = "writeHistory"
      /\ call' = [call EXCEPT ![w] = [c EXCEPT !.pc = "writeSignal"]]
      /\ UNCHANGED <<historyFile, signalFile, modelBundle, raced>>

WriteHistory(w) ==
  LET c == call[w]
      m == c.req.match
  IN  /\ c.pc = "writeHistory"
      /\ historyFile' = [historyFile EXCEPT ![m] = c.updated]
      /\ call' = [call EXCEPT ![w] =
           [c EXCEPT !.pc = "writeSignal", !.built = (historyFile[m] # c.updated)]]
      /\ raced' = IF /\ historyFile[m] # c.updated
                     /\ \E v \in Writers \ {w} : Ingesting(v, m)
                    THEN raced \cup {m} ELSE raced
      /\ UNCHANGED <<signalFile, modelBundle>>

WriteSignal(w) ==
  LET c == call[w]
      m == c.req.match
  IN  /\ c.pc = "writeSignal"
      /\ signalFile' = [signalFile EXCEPT ![m] = c.response]
      /\ call' = [call EXCEPT ![w] =
           Returned(c, IF c.built \/ signalFile[m] # c.response
                         THEN "BUILT" ELSE "UNCHANGED")]
      /\ UNCHANGED <<historyFile, modelBundle, raced>>

(* An OSError before os.replace leaves the destination untouched.          *)
WriteFails(w) ==
  LET c == call[w]
  IN  /\ c.pc \in {"writeHistory", "writeSignal"}
      /\ call' = [call EXCEPT ![w] = Returned(c, "signal_error")]
      /\ UNCHANGED <<historyFile, signalFile, modelBundle, raced>>

(* persist_live_state_signal_response for an ignored GSI payload.          *)
PublishIgnored(w, m, note) ==
  /\ call[w].pc = "idle"
  /\ signalFile' = [signalFile EXCEPT ![m] = IgnoredSignal(note)]
  /\ call' = [call EXCEPT ![w] =
       [IdleCall EXCEPT !.pc = "returned", !.response = IgnoredSignal(note),
          !.outcome = IF signalFile[m] # IgnoredSignal(note)
                        THEN "BUILT" ELSE "UNCHANGED"]]
  /\ UNCHANGED <<historyFile, modelBundle, raced>>

PublishIgnoredFails(w) ==
  /\ call[w].pc = "idle"
  /\ call' = [call EXCEPT ![w] =
       [IdleCall EXCEPT !.pc = "returned", !.outcome = "signal_error"]]
  /\ UNCHANGED <<historyFile, signalFile, modelBundle, raced>>

(* The caller has consumed the result, or the exception.                   *)
Return(w) ==
  /\ call[w].pc = "returned"
  /\ call' = [call EXCEPT ![w] = IdleCall]
  /\ UNCHANGED <<historyFile, signalFile, modelBundle, raced>>

(* The process dies in the call: the files stay, the rest is lost.         *)
Crash(w) ==
  /\ call[w].pc # "idle"
  /\ call' = [call EXCEPT ![w] = IdleCall]
  /\ UNCHANGED <<historyFile, signalFile, modelBundle, raced>>

(* A training command replaces the bundle; between its writes none loads.  *)
ReplaceModel(bundle) ==
  /\ modelBundle # bundle
  /\ modelBundle' = bundle
  /\ UNCHANGED <<historyFile, signalFile, call, raced>>

StoreStep(w) ==
  \/ LoadHistory(w)
  \/ ScoreHistory(w)
  \/ WriteHistory(w)
  \/ WriteSignal(w)
  \/ WriteFails(w)

Next ==
  \/ \E w \in Writers :
       \/ \E r \in Request : Begin(w, r)
       \/ StoreStep(w)
       \/ \E m \in Matches, note \in Notes : PublishIgnored(w, m, note)
       \/ PublishIgnoredFails(w)
       \/ Return(w)
       \/ Crash(w)
  \/ \E bundle \in Models \cup {NoModel} : ReplaceModel(bundle)

Spec == StoreInit /\ [][Next]_storeVars
-----------------------------------------------------------------------------
(* No history file ever holds two snapshots of one game time, whatever the *)
(* writers interleave: _load_ would reject it and the match would be stuck *)
(* for ever.                                                               *)
HistoryConsistent == \A m \in Matches : Consistent(historyFile[m])

(* A signal never names a snapshot that the history file does not hold:    *)
(* the history is durable before the prediction made from it is shown.     *)
SignalBacked ==
  \A m \in Matches \ raced : signalFile[m].history \subseteq historyFile[m]

(* With the types: what the two files of a match show can be loaded again  *)
(* and was durable before it was shown                                     *)
(* (ingest_live_state_snapshot_request).                                   *)
StoreSound == StoreTypeOK /\ HistoryConsistent /\ SignalBacked

(* A snapshot that reached the history file stays in it, through crashes,  *)
(* failed writes and any number of later calls, unless two calls on the    *)
(* same match overlapped.                                                  *)
CommittedNeverLost ==
  [][\A m \in Matches : m \notin raced' => historyFile[m] \subseteq historyFile'[m]]_storeVars

(* A call that reports success leaves its snapshot in the history and the  *)
(* signal computed from the whole history, also when it wrote nothing.     *)
SuccessIsCurrent ==
  [][\A w \in Writers :
       LET m == call[w].req.match
       IN  /\ call[w].pc = "writeSignal"
           /\ call'[w].pc = "returned"
           /\ call'[w].outcome \in {"BUILT", "UNCHANGED"}
           /\ m \notin raced'
           => /\ call[w].req.snap \in historyFile'[m]
              /\ signalFile'[m].history = historyFile'[m]]_storeVars

Board == INSTANCE LiveSignalBoard WITH log <- historyFile, board <- signalFile

(* A store with one writer is an append-only log whose board always shows  *)
(* the current log.                                                        *)
ImplementsBoard == Board!Spec
=============================================================================
