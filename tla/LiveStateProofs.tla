-------------------------- MODULE LiveStateProofs ---------------------------
(***************************************************************************)
(* Proofs about the store of live states (LiveStateSignal), for any number *)
(* of writers, matches, times, feature vectors and models, and then about  *)
(* the JSONL bridge (LiveStateJsonl), for any input, any number of passes  *)
(* and any crashes.  The store keeps its invariant under the bridge        *)
(* because every step of the bridge is a step of the store or leaves it    *)
(* alone.                                                                  *)
(***************************************************************************)
EXTENDS LiveStateJsonl, SequenceTheorems, TLAPS

Running == {"score", "writeHistory", "writeSignal"}

(* What a call in progress knows.  Until its history write the file is     *)
(* what it will write without the new snapshot, after it the file is what  *)
(* it wrote, unless another writer replaced the file in between.           *)
CallKnows(w) ==
  LET c == call[w]
      m == c.req.match
  IN  /\ c.pc = "load" => c.req \in Request
      /\ c.pc \in Running =>
           /\ c.req \in Request
           /\ c.req.snap \in c.updated
           /\ Consistent(c.updated)
      /\ c.pc \in {"writeHistory", "writeSignal"} =>
           \E bundle \in Models : c.response = Response(c.updated, bundle)
      /\ c.pc \in {"score", "writeHistory"} /\ m \notin raced =>
           c.updated = historyFile[m] \cup {c.req.snap}
      /\ c.pc = "writeSignal" /\ m \notin raced => historyFile[m] = c.updated

CallsKnow == \A w \in Writers : CallKnows(w)

StoreInv == StoreTypeOK /\ HistoryConsistent /\ CallsKnow /\ SignalBacked

(* A response is a well-formed signal computed from the given history.     *)
LEMMA ResponseIsSignal ==
  ASSUME NEW h \in SUBSET Snapshot, NEW bundle \in Models
  PROVE  /\ Response(h, bundle) \in Signal
         /\ Response(h, bundle).history = h
  BY DEF Response, Signal

LEMMA IgnoredIsSignal ==
  ASSUME NEW note \in Notes
  PROVE  /\ IgnoredSignal(note) \in Signal
         /\ IgnoredSignal(note).history = {}
  BY DEF IgnoredSignal, AbsentSignal, Signal

LEMMA AbsentIsSignal == AbsentSignal \in Signal /\ AbsentSignal.history = {}
  BY DEF AbsentSignal, Signal

LEMMA IdleCallIsCall == IdleCall \in Call /\ IdleCall.pc = "idle"
  BY AbsentIsSignal DEF IdleCall, Call, CallPCs, Outcomes

LEMMA ReturnedIsCall ==
  ASSUME NEW c \in Call, NEW outcome \in Outcomes
  PROVE  /\ Returned(c, outcome) \in Call
         /\ Returned(c, outcome).pc = "returned"
         /\ Returned(c, outcome).outcome = outcome
  BY IdleCallIsCall DEF Returned, IdleCall, Call, CallPCs, Outcomes

(* Inserting a snapshot that contradicts nothing keeps a history free of   *)
(* contradictions.                                                         *)
LEMMA InsertKeepsConsistent ==
  ASSUME NEW h \in SUBSET Snapshot, NEW snap \in Snapshot,
         Consistent(h), ~Conflicts(h, snap)
  PROVE  Consistent(h \cup {snap})
  BY DEF Consistent, Conflicts

(* A step that changes only the calls: what the store holds stays as it is *)
(* and every call but one too.                                             *)
LEMMA OneCallChanges ==
  ASSUME StoreInv, NEW w \in Writers, NEW c \in Call,
         call' = [call EXCEPT ![w] = c],
         UNCHANGED <<historyFile, signalFile, raced>>,
         modelBundle' \in Models \cup {NoModel},
         c.pc \in {"idle", "returned"} \/ CallKnows(w)'
  PROVE  StoreInv'
<1>1. StoreTypeOK' BY DEF StoreInv, StoreTypeOK
<1>2. HistoryConsistent' BY DEF StoreInv, HistoryConsistent
<1>3. SignalBacked' BY DEF StoreInv, SignalBacked
<1>4. CallsKnow'
  <2>1. SUFFICES ASSUME NEW v \in Writers PROVE CallKnows(v)'
    BY DEF CallsKnow
  <2>2. call'[w] = c BY DEF StoreInv, StoreTypeOK
  <2>3. CASE v = w
    BY <2>2, <2>3 DEF CallKnows, Running
  <2>4. CASE v # w
    <3>1. call'[v] = call[v] BY <2>4 DEF StoreInv, StoreTypeOK
    <3>2. CallKnows(v) BY DEF StoreInv, CallsKnow
    <3> QED BY <3>1, <3>2 DEF CallKnows
  <2> QED BY <2>3, <2>4
<1> QED BY <1>1, <1>2, <1>3, <1>4 DEF StoreInv

LEMMA InitEstablishes == StoreInit => StoreInv
<1> SUFFICES ASSUME StoreInit PROVE StoreInv
  OBVIOUS
<1>1. StoreTypeOK
  BY IdleCallIsCall, AbsentIsSignal DEF StoreInit, StoreTypeOK
<1>2. HistoryConsistent BY DEF StoreInit, HistoryConsistent, Consistent
<1>3. CallsKnow
  BY IdleCallIsCall DEF StoreInit, CallsKnow, CallKnows, Running
<1>4. SignalBacked BY AbsentIsSignal DEF StoreInit, SignalBacked
<1> QED BY <1>1, <1>2, <1>3, <1>4 DEF StoreInv

LEMMA BeginPreserves ==
  ASSUME StoreInv, NEW w \in Writers, NEW r \in Request, Begin(w, r)
  PROVE  StoreInv'
<1> DEFINE c == [IdleCall EXCEPT !.pc = "load", !.req = r]
<1>1. c \in Call /\ c.pc = "load" /\ c.req = r
  BY IdleCallIsCall DEF IdleCall, Call, CallPCs
<1>2. call' = [call EXCEPT ![w] = c] BY DEF Begin
<1>3. CallKnows(w)'
  <2>1. call'[w] = c BY <1>2 DEF StoreInv, StoreTypeOK
  <2> HIDE DEF c
  <2> QED BY <1>1, <2>1 DEF CallKnows, Running
<1> HIDE DEF c
<1>4. UNCHANGED <<historyFile, signalFile, modelBundle, raced>> BY DEF Begin
<1>5. modelBundle' \in Models \cup {NoModel}
  BY <1>4 DEF StoreInv, StoreTypeOK
<1> QED BY <1>1, <1>2, <1>3, <1>4, <1>5, OneCallChanges

LEMMA LoadHistoryPreserves ==
  ASSUME StoreInv, NEW w \in Writers, LoadHistory(w)
  PROVE  StoreInv'
<1> DEFINE c == call[w]
           h == historyFile[c.req.match]
           loaded == [c EXCEPT !.pc = "score", !.updated = h \cup {c.req.snap}]
<1>1. c \in Call /\ c.pc = "load" /\ c.req \in Request
  BY DEF StoreInv, StoreTypeOK, CallsKnow, CallKnows, LoadHistory
<1>2. h \in SUBSET Snapshot /\ c.req.snap \in Snapshot /\ c.req.match \in Matches
  BY <1>1 DEF StoreInv, StoreTypeOK, Request
<1>3. UNCHANGED <<historyFile, signalFile, modelBundle, raced>>
      /\ modelBundle' \in Models \cup {NoModel}
  BY DEF LoadHistory, StoreInv, StoreTypeOK
<1>4. CASE ~Consistent(h) \/ Conflicts(h, c.req.snap)
  <2>1. call' = [call EXCEPT ![w] = Returned(c, "signal_error")]
    BY <1>4 DEF LoadHistory
  <2>2. /\ Returned(c, "signal_error") \in Call
        /\ Returned(c, "signal_error").pc = "returned"
    BY <1>1, ReturnedIsCall DEF Outcomes
  <2> QED BY <1>3, <2>1, <2>2, OneCallChanges
<1>5. CASE Consistent(h) /\ ~Conflicts(h, c.req.snap)
  <2>1. call' = [call EXCEPT ![w] = loaded]
    BY <1>5 DEF LoadHistory
  <2>2. /\ loaded \in Call
        /\ loaded.pc = "score"
        /\ loaded.req = c.req
        /\ loaded.updated = h \cup {c.req.snap}
    BY <1>1, <1>2 DEF Call, CallPCs
  <2>3. Consistent(loaded.updated)
    BY <1>2, <1>5, <2>2, InsertKeepsConsistent
  <2>4. CallKnows(w)'
    <3>1. call'[w] = loaded BY <2>1 DEF StoreInv, StoreTypeOK
    <3> HIDE DEF loaded
    <3> QED BY <1>1, <1>3, <2>2, <2>3, <3>1 DEF CallKnows, Running
  <2> HIDE DEF loaded
  <2> QED BY <1>3, <2>1, <2>2, <2>4, OneCallChanges
<1> QED BY <1>4, <1>5

LEMMA ScoreHistoryPreserves ==
  ASSUME StoreInv, NEW w \in Writers, ScoreHistory(w)
  PROVE  StoreInv'
<1> DEFINE c == call[w]
           scored == [c EXCEPT !.pc = "writeHistory",
                               !.response = Response(c.updated, modelBundle)]
<1>1. c \in Call /\ c.pc = "score" /\ CallKnows(w)
  BY DEF StoreInv, StoreTypeOK, CallsKnow, ScoreHistory
<1>2. UNCHANGED <<historyFile, signalFile, modelBundle, raced>>
      /\ modelBundle' \in Models \cup {NoModel}
  BY DEF ScoreHistory, StoreInv, StoreTypeOK
<1>3. CASE modelBundle = NoModel
  <2>1. call' = [call EXCEPT ![w] = Returned(c, "model_error")]
    BY <1>3 DEF ScoreHistory
  <2>2. /\ Returned(c, "model_error") \in Call
        /\ Returned(c, "model_error").pc = "returned"
    BY <1>1, ReturnedIsCall DEF Outcomes
  <2> QED BY <1>2, <2>1, <2>2, OneCallChanges
<1>4. CASE modelBundle # NoModel
  <2>1. call' = [call EXCEPT ![w] = scored]
    BY <1>4 DEF ScoreHistory
  <2>2. c.updated \in SUBSET Snapshot /\ modelBundle \in Models
    BY <1>1, <1>4 DEF Call, StoreInv, StoreTypeOK
  <2>3. /\ scored \in Call
        /\ scored.pc = "writeHistory"
        /\ scored.req = c.req
        /\ scored.updated = c.updated
        /\ scored.response = Response(c.updated, modelBundle)
    BY <1>1, <2>2, ResponseIsSignal DEF Call, CallPCs
  <2>4. CallKnows(w)'
    <3>1. call'[w] = scored BY <2>1 DEF StoreInv, StoreTypeOK
    <3>2. \E bundle \in Models : scored.response = Response(scored.updated, bundle)
      BY <2>2, <2>3
    <3> HIDE DEF scored
    <3> QED BY <1>1, <1>2, <2>3, <3>1, <3>2 DEF CallKnows, Running
  <2> HIDE DEF scored
  <2> QED BY <1>2, <2>1, <2>3, <2>4, OneCallChanges
<1> QED BY <1>3, <1>4

(* The one step that replaces a history.  The file grows unless the match  *)
(* is raced, and the calls of other writers on that match are marked.      *)
LEMMA WriteHistoryPreserves ==
  ASSUME StoreInv, NEW w \in Writers, WriteHistory(w)
  PROVE  StoreInv'
<1> DEFINE c == call[w]
           m == c.req.match
           written == [c EXCEPT !.pc = "writeSignal", !.built = (historyFile[m] # c.updated)]
<1>1. c \in Call /\ c.pc = "writeHistory" /\ CallKnows(w)
  BY DEF StoreInv, StoreTypeOK, CallsKnow, WriteHistory
<1>2. m \in Matches /\ c.updated \in SUBSET Snapshot /\ Consistent(c.updated)
  BY <1>1 DEF CallKnows, Running, Request, Call
<1>3. /\ historyFile' = [historyFile EXCEPT ![m] = c.updated]
      /\ call' = [call EXCEPT ![w] = written]
      /\ raced \subseteq raced'
      /\ raced' \subseteq raced \cup {m}
      /\ UNCHANGED <<signalFile, modelBundle>>
  BY DEF WriteHistory
<1>4. /\ written \in Call
      /\ written.pc = "writeSignal"
      /\ written.req = c.req
      /\ written.updated = c.updated
      /\ written.response = c.response
  BY <1>1 DEF Call, CallPCs
<1>5. call'[w] = written /\ historyFile'[m] = c.updated
  BY <1>2, <1>3 DEF StoreInv, StoreTypeOK
<1> HIDE DEF written
<1>6. StoreTypeOK'
  BY <1>2, <1>3, <1>4 DEF StoreInv, StoreTypeOK
<1>7. HistoryConsistent'
  BY <1>2, <1>3 DEF StoreInv, StoreTypeOK, HistoryConsistent
<1>8. CallsKnow'
  <2>1. SUFFICES ASSUME NEW v \in Writers PROVE CallKnows(v)'
    BY DEF CallsKnow
  <2>2. CASE v = w
    BY <1>1, <1>4, <1>5, <2>2 DEF CallKnows, Running
  <2>3. CASE v # w
    <3>1. call'[v] = call[v] /\ CallKnows(v)
      BY <1>3, <2>3 DEF StoreInv, StoreTypeOK, CallsKnow
    <3>2. CASE call[v].req.match = m /\ call[v].pc \in Running
      <4>1. historyFile[m] = c.updated \/ m \in raced'
        BY <2>3, <3>2 DEF WriteHistory, Ingesting, Running
      <4> QED
        BY <1>3, <1>5, <3>1, <3>2, <4>1 DEF CallKnows, Running
    <3>3. CASE call[v].req.match # m /\ call[v].pc \in Running
      <4>1. historyFile'[call[v].req.match] = historyFile[call[v].req.match]
        BY <1>3, <3>1, <3>3 DEF StoreInv, StoreTypeOK, CallKnows, Running, Request
      <4> QED BY <1>3, <3>1, <3>3, <4>1 DEF CallKnows, Running
    <3>4. CASE call[v].pc \notin Running
      BY <3>1, <3>4 DEF CallKnows, Running
    <3> QED BY <3>2, <3>3, <3>4
  <2> QED BY <2>2, <2>3
<1>9. SignalBacked'
  <2>1. SUFFICES ASSUME NEW n \in Matches \ raced'
                 PROVE  signalFile[n].history \subseteq historyFile'[n]
    BY <1>3 DEF SignalBacked
  <2>2. signalFile[n].history \subseteq historyFile[n]
    BY <1>3 DEF StoreInv, SignalBacked
  <2>3. CASE n = m
    <3>1. historyFile[m] \subseteq c.updated
      BY <1>1, <1>3, <2>3 DEF CallKnows
    <3> QED BY <1>5, <2>2, <2>3, <3>1
  <2>4. CASE n # m
    BY <1>3, <2>2, <2>4 DEF StoreInv, StoreTypeOK
  <2> QED BY <2>3, <2>4
<1> QED BY <1>6, <1>7, <1>8, <1>9 DEF StoreInv

(* A step that replaces the signal of one match by one computed from its   *)
(* history, or from no snapshot at all, and ends the call of one writer.   *)
LEMMA SignalReplaced ==
  ASSUME StoreInv, NEW w \in Writers, NEW m \in Matches,
         NEW signal \in Signal, NEW c \in Call, c.pc = "returned",
         signalFile' = [signalFile EXCEPT ![m] = signal],
         call' = [call EXCEPT ![w] = c],
         UNCHANGED <<historyFile, modelBundle, raced>>,
         m \notin raced => signal.history \subseteq historyFile[m]
  PROVE  StoreInv'
<1>1. StoreTypeOK' BY DEF StoreInv, StoreTypeOK
<1>2. HistoryConsistent' BY DEF StoreInv, HistoryConsistent
<1>3. CallsKnow'
  <2>1. SUFFICES ASSUME NEW v \in Writers PROVE CallKnows(v)'
    BY DEF CallsKnow
  <2>2. CASE v = w
    <3>1. call'[v] = c BY <2>2 DEF StoreInv, StoreTypeOK
    <3> QED BY <3>1 DEF CallKnows, Running
  <2>3. CASE v # w
    <3>1. call'[v] = call[v] /\ CallKnows(v)
      BY <2>3 DEF StoreInv, StoreTypeOK, CallsKnow
    <3> QED BY <3>1 DEF CallKnows
  <2> QED BY <2>2, <2>3
<1>4. SignalBacked'
  BY DEF StoreInv, StoreTypeOK, SignalBacked
<1> QED BY <1>1, <1>2, <1>3, <1>4 DEF StoreInv

LEMMA WriteSignalPreserves ==
  ASSUME StoreInv, NEW w \in Writers, WriteSignal(w)
  PROVE  StoreInv'
<1> DEFINE c == call[w]
           m == c.req.match
           ended == Returned(c, IF c.built \/ signalFile[m] # c.response
                                  THEN "BUILT" ELSE "UNCHANGED")
<1>1. c \in Call /\ c.pc = "writeSignal" /\ CallKnows(w)
  BY DEF StoreInv, StoreTypeOK, CallsKnow, WriteSignal
<1>2. /\ m \in Matches
      /\ c.response \in Signal
      /\ c.response.history = c.updated
  BY <1>1, ResponseIsSignal DEF CallKnows, Running, Request, Call
<1>3. ended \in Call /\ ended.pc = "returned"
  BY <1>1, ReturnedIsCall DEF Outcomes
<1>4. m \notin raced => c.response.history \subseteq historyFile[m]
  BY <1>1, <1>2 DEF CallKnows
<1>5. /\ signalFile' = [signalFile EXCEPT ![m] = c.response]
      /\ call' = [call EXCEPT ![w] = ended]
      /\ UNCHANGED <<historyFile, modelBundle, raced>>
  BY DEF WriteSignal
<1> HIDE DEF ended
<1> QED BY <1>2, <1>3, <1>4, <1>5, SignalReplaced

LEMMA PublishIgnoredPreserves ==
  ASSUME StoreInv, NEW w \in Writers, NEW m \in Matches, NEW note \in Notes,
         PublishIgnored(w, m, note)
  PROVE  StoreInv'
<1> DEFINE ended == [IdleCall EXCEPT
                       !.pc = "returned", !.response = IgnoredSignal(note),
                       !.outcome = IF signalFile[m] # IgnoredSignal(note)
                                     THEN "BUILT" ELSE "UNCHANGED"]
<1>1. IgnoredSignal(note) \in Signal /\ IgnoredSignal(note).history = {}
  BY IgnoredIsSignal
<1>2. ended \in Call /\ ended.pc = "returned"
  BY <1>1, IdleCallIsCall DEF IdleCall, Call, CallPCs, Outcomes
<1>3. /\ signalFile' = [signalFile EXCEPT ![m] = IgnoredSignal(note)]
      /\ call' = [call EXCEPT ![w] = ended]
      /\ UNCHANGED <<historyFile, modelBundle, raced>>
  BY DEF PublishIgnored
<1> HIDE DEF ended
<1> QED BY <1>1, <1>2, <1>3, SignalReplaced

(* Every way a call ends without a file being replaced.                    *)
LEMMA EndingPreserves ==
  ASSUME StoreInv, NEW w \in Writers,
         WriteFails(w) \/ PublishIgnoredFails(w) \/ Return(w) \/ Crash(w)
  PROVE  StoreInv'
<1>1. UNCHANGED <<historyFile, signalFile, modelBundle, raced>>
      /\ modelBundle' \in Models \cup {NoModel}
  BY DEF WriteFails, PublishIgnoredFails, Return, Crash, StoreInv, StoreTypeOK
<1>2. CASE WriteFails(w)
  <2>1. call' = [call EXCEPT ![w] = Returned(call[w], "signal_error")]
    BY <1>2 DEF WriteFails
  <2>2. /\ Returned(call[w], "signal_error") \in Call
        /\ Returned(call[w], "signal_error").pc = "returned"
    BY ReturnedIsCall DEF StoreInv, StoreTypeOK, Outcomes
  <2> QED BY <1>1, <2>1, <2>2, OneCallChanges
<1>3. CASE PublishIgnoredFails(w)
  <2> DEFINE ended == [IdleCall EXCEPT !.pc = "returned", !.outcome = "signal_error"]
  <2>1. call' = [call EXCEPT ![w] = ended]
    BY <1>3 DEF PublishIgnoredFails
  <2>2. ended \in Call /\ ended.pc = "returned"
    BY IdleCallIsCall DEF IdleCall, Call, CallPCs, Outcomes
  <2> HIDE DEF ended
  <2> QED BY <1>1, <2>1, <2>2, OneCallChanges
<1>4. CASE Return(w) \/ Crash(w)
  <2>1. call' = [call EXCEPT ![w] = IdleCall]
    BY <1>4 DEF Return, Crash
  <2> QED BY <1>1, <2>1, IdleCallIsCall, OneCallChanges
<1> QED BY <1>2, <1>3, <1>4

LEMMA ReplaceModelPreserves ==
  ASSUME StoreInv, NEW bundle \in Models \cup {NoModel}, ReplaceModel(bundle)
  PROVE  StoreInv'
  BY DEF ReplaceModel, StoreInv, StoreTypeOK, HistoryConsistent, CallsKnow,
         CallKnows, SignalBacked

LEMMA StutterPreserves ==
  ASSUME StoreInv, UNCHANGED storeVars
  PROVE  StoreInv'
  BY DEF storeVars, StoreInv, StoreTypeOK, HistoryConsistent, CallsKnow,
         CallKnows, SignalBacked

LEMMA NextPreserves == StoreInv /\ [Next]_storeVars => StoreInv'
<1> SUFFICES ASSUME StoreInv, [Next]_storeVars PROVE StoreInv'
  OBVIOUS
<1>1. ASSUME NEW w \in Writers, NEW r \in Request, Begin(w, r) PROVE StoreInv'
  BY <1>1, BeginPreserves
<1>2. ASSUME NEW w \in Writers, LoadHistory(w) PROVE StoreInv'
  BY <1>2, LoadHistoryPreserves
<1>3. ASSUME NEW w \in Writers, ScoreHistory(w) PROVE StoreInv'
  BY <1>3, ScoreHistoryPreserves
<1>4. ASSUME NEW w \in Writers, WriteHistory(w) PROVE StoreInv'
  BY <1>4, WriteHistoryPreserves
<1>5. ASSUME NEW w \in Writers, WriteSignal(w) PROVE StoreInv'
  BY <1>5, WriteSignalPreserves
<1>6. ASSUME NEW w \in Writers, NEW m \in Matches, NEW note \in Notes,
             PublishIgnored(w, m, note)
      PROVE StoreInv'
  BY <1>6, PublishIgnoredPreserves
<1>7. ASSUME NEW w \in Writers,
             WriteFails(w) \/ PublishIgnoredFails(w) \/ Return(w) \/ Crash(w)
      PROVE StoreInv'
  BY <1>7, EndingPreserves
<1>8. ASSUME NEW bundle \in Models \cup {NoModel}, ReplaceModel(bundle)
      PROVE StoreInv'
  BY <1>8, ReplaceModelPreserves
<1>9. CASE UNCHANGED storeVars
  BY <1>9, StutterPreserves
<1> QED
  BY <1>1, <1>2, <1>3, <1>4, <1>5, <1>6, <1>7, <1>8, <1>9 DEF Next, StoreStep
-----------------------------------------------------------------------------
(* The store is well typed and its inductive invariant holds for ever.     *)
THEOREM StoreInvariant == Spec => []StoreInv
<1>1. StoreInit => StoreInv BY InitEstablishes
<1>2. StoreInv /\ [Next]_storeVars => StoreInv' BY NextPreserves
<1> QED BY <1>1, <1>2, PTL DEF Spec

THEOREM StoreTypes == Spec => []StoreTypeOK
<1>1. StoreInv => StoreTypeOK BY DEF StoreInv
<1> QED BY <1>1, StoreInvariant, PTL

(* However many writers interleave, no history file ever holds two         *)
(* snapshots that contradict each other.                                   *)
THEOREM HistoriesAreConsistent == Spec => []HistoryConsistent
<1>1. StoreInv => HistoryConsistent BY DEF StoreInv
<1> QED BY <1>1, StoreInvariant, PTL

(* A signal names only snapshots that its history file holds.              *)
THEOREM SignalsAreBacked == Spec => []SignalBacked
<1>1. StoreInv => SignalBacked BY DEF StoreInv
<1> QED BY <1>1, StoreInvariant, PTL

(* The three together: what is on disk for a match can be loaded again, at *)
(* any moment of any number of calls and crashes.                          *)
THEOREM StoreIsSound == Spec => []StoreSound
<1>1. StoreInv => StoreSound BY DEF StoreInv, StoreSound
<1> QED BY <1>1, StoreInvariant, PTL

(* The only step that replaces a history is WriteHistory, and what it      *)
(* writes contains what was there unless the match is raced.               *)
LEMMA StepKeepsCommitted ==
  ASSUME StoreInv, [Next]_storeVars, NEW m \in Matches, m \notin raced'
  PROVE  historyFile[m] \subseteq historyFile'[m]
<1>1. ASSUME NEW w \in Writers, WriteHistory(w)
      PROVE  historyFile[m] \subseteq historyFile'[m]
  <2>1. /\ historyFile' = [historyFile EXCEPT ![call[w].req.match] = call[w].updated]
        /\ call[w].pc = "writeHistory"
        /\ CallKnows(w)
        /\ m \notin raced
    BY <1>1 DEF WriteHistory, StoreInv, CallsKnow
  <2>2. CASE m = call[w].req.match
    BY <2>1, <2>2 DEF CallKnows, StoreInv, StoreTypeOK
  <2>3. CASE m # call[w].req.match
    BY <2>1, <2>3 DEF StoreInv, StoreTypeOK
  <2> QED BY <2>2, <2>3
<1>2. CASE UNCHANGED historyFile
  BY <1>2
<1> QED
  BY <1>1, <1>2 DEF Next, StoreStep, storeVars, Begin, LoadHistory, ScoreHistory,
     WriteSignal, WriteFails, PublishIgnored, PublishIgnoredFails, Return, Crash,
     ReplaceModel

(* A committed snapshot stays committed through every step of every        *)
(* writer, unless two calls on its match overlapped.                       *)
THEOREM CommittedSnapshotsStay == Spec => CommittedNeverLost
<1>1. StoreInv /\ [Next]_storeVars =>
        [\A m \in Matches : m \notin raced' => historyFile[m] \subseteq historyFile'[m]]_storeVars
  BY StepKeepsCommitted
<1> QED BY <1>1, StoreInvariant, PTL DEF Spec, CommittedNeverLost

(* Only its own WriteSignal makes a call that is about to write its signal *)
(* return with success.                                                    *)
LEMMA SuccessIsWriteSignal ==
  ASSUME StoreInv, Next, NEW w \in Writers, call[w].pc = "writeSignal",
         call'[w].pc = "returned", call'[w].outcome \in {"BUILT", "UNCHANGED"}
  PROVE  WriteSignal(w)
<1>1. ASSUME NEW v \in Writers, v # w, NEW c, call' = [call EXCEPT ![v] = c]
      PROVE  FALSE
  BY <1>1 DEF StoreInv, StoreTypeOK
<1>2. PICK v \in Writers :
        \/ \E r \in Request : Begin(v, r)
        \/ LoadHistory(v) \/ ScoreHistory(v) \/ WriteHistory(v)
        \/ WriteSignal(v) \/ WriteFails(v)
        \/ \E m \in Matches, note \in Notes : PublishIgnored(v, m, note)
        \/ PublishIgnoredFails(v) \/ Return(v) \/ Crash(v)
  BY DEF Next, StoreStep, ReplaceModel
<1>3. v = w
  <2>1. SUFFICES ASSUME v # w PROVE FALSE
    OBVIOUS
  <2>2. \E c : call' = [call EXCEPT ![v] = c]
    BY <1>2 DEF Begin, LoadHistory, ScoreHistory, WriteHistory, WriteSignal,
       WriteFails, PublishIgnored, PublishIgnoredFails, Return, Crash
  <2> QED BY <1>1, <2>1, <2>2
<1>4. CASE WriteFails(w)
  <2>1. call'[w] = Returned(call[w], "signal_error")
    BY <1>4 DEF WriteFails, StoreInv, StoreTypeOK
  <2>2. call'[w].outcome = "signal_error"
    BY <2>1, ReturnedIsCall DEF StoreInv, StoreTypeOK, Outcomes
  <2> QED BY <2>2
<1>5. CASE Crash(w)
  BY <1>5, IdleCallIsCall DEF Crash, StoreInv, StoreTypeOK
<1> QED
  BY <1>2, <1>3, <1>4, <1>5 DEF Begin, LoadHistory, ScoreHistory, WriteHistory,
     PublishIgnored, PublishIgnoredFails, Return

(* A call that reports success has left its snapshot in the history and a  *)
(* signal computed from the whole of it.                                   *)
THEOREM SuccessLeavesCurrent == Spec => SuccessIsCurrent
<1> DEFINE Success(w) ==
      LET m == call[w].req.match
      IN  /\ call[w].pc = "writeSignal"
          /\ call'[w].pc = "returned"
          /\ call'[w].outcome \in {"BUILT", "UNCHANGED"}
          /\ m \notin raced'
          => /\ call[w].req.snap \in historyFile'[m]
             /\ signalFile'[m].history = historyFile'[m]
<1>1. ASSUME StoreInv, Next, NEW w \in Writers PROVE Success(w)
  <2>1. SUFFICES ASSUME call[w].pc = "writeSignal", call'[w].pc = "returned",
                        call'[w].outcome \in {"BUILT", "UNCHANGED"},
                        call[w].req.match \notin raced'
                 PROVE  /\ call[w].req.snap \in historyFile'[call[w].req.match]
                        /\ signalFile'[call[w].req.match].history
                             = historyFile'[call[w].req.match]
    OBVIOUS
  <2>2. WriteSignal(w) BY <1>1, <2>1, SuccessIsWriteSignal
  <2>3. CallKnows(w) /\ call[w] \in Call
    BY <1>1 DEF StoreInv, StoreTypeOK, CallsKnow
  <2>4. call[w].response.history = call[w].updated
    BY <2>1, <2>3, ResponseIsSignal DEF CallKnows, Call
  <2>5. /\ signalFile' = [signalFile EXCEPT ![call[w].req.match] = call[w].response]
        /\ UNCHANGED <<historyFile, raced>>
    BY <2>2 DEF WriteSignal
  <2>6. call[w].req.match \in Matches
    BY <2>1, <2>3 DEF CallKnows, Running, Request
  <2> QED
    BY <1>1, <2>1, <2>3, <2>4, <2>5, <2>6 DEF StoreInv, StoreTypeOK, CallKnows,
       Running
<1>2. StoreInv /\ [Next]_storeVars => [\A w \in Writers : Success(w)]_storeVars
  BY <1>1
<1> QED BY <1>2, StoreInvariant, PTL DEF Spec, SuccessIsCurrent
-----------------------------------------------------------------------------
(* For the callers of the store.  A snapshot is committed when it is in    *)
(* the history of its match, or calls on the match overlapped.             *)
Committed(r) == r \in Request /\ (r.match \notin raced => r.snap \in historyFile[r.match])

LEMMA HistoriesGrow ==
  ASSUME StoreInv, [Next]_storeVars
  PROVE  /\ raced \subseteq raced'
         /\ \A m \in Matches \ raced' : historyFile[m] \subseteq historyFile'[m]
<1>1. raced \subseteq raced'
  BY DEF Next, StoreStep, storeVars, Begin, LoadHistory, ScoreHistory, WriteHistory,
     WriteSignal, WriteFails, PublishIgnored, PublishIgnoredFails, Return, Crash,
     ReplaceModel
<1> QED BY <1>1, StepKeepsCommitted

LEMMA CommittedStays ==
  ASSUME NEW r, Committed(r), raced \subseteq raced',
         \A m \in Matches \ raced' : historyFile[m] \subseteq historyFile'[m]
  PROVE  Committed(r)'
  BY DEF Committed, Request

LEMMA StoreStepPreserves ==
  ASSUME StoreInv, NEW w \in Writers, StoreStep(w)
  PROVE  /\ StoreInv' /\ raced \subseteq raced'
         /\ \A m \in Matches \ raced' : historyFile[m] \subseteq historyFile'[m]
<1>1. [Next]_storeVars
  BY DEF Next
<1> QED BY <1>1, NextPreserves, HistoriesGrow

(* A step of a call leaves a signal as it is, or computes it from the      *)
(* whole history.                                                          *)
LEMMA SignalsAreCurrent ==
  ASSUME StoreInv, NEW w \in Writers, StoreStep(w), NEW m \in Matches, m \notin raced'
  PROVE  signalFile'[m] = signalFile[m] \/ signalFile'[m].history = historyFile'[m]
<1>1. PICK c : c = call[w]
  OBVIOUS
<1>2. c \in Call /\ CallKnows(w) /\ c = call[w]
  BY <1>1 DEF StoreInv, StoreTypeOK, CallsKnow
<1>3. CASE WriteSignal(w)
  <2>1. /\ c.pc = "writeSignal" /\ UNCHANGED <<historyFile, raced>>
        /\ signalFile' = [signalFile EXCEPT ![c.req.match] = c.response]
    BY <1>2, <1>3 DEF WriteSignal
  <2>2. c.req.match \notin raced => c.updated = historyFile[c.req.match]
    BY <1>2, <2>1 DEF CallKnows
  <2>3. PICK bundle \in Models : c.response = Response(c.updated, bundle)
    BY <1>2, <2>1 DEF CallKnows
  <2>4. c.response.history = c.updated
    BY <2>3 DEF Response
  <2>5. CASE m = c.req.match
    BY <2>1, <2>2, <2>4, <2>5 DEF StoreInv, StoreTypeOK
  <2>6. CASE m # c.req.match
    BY <2>1, <2>6 DEF StoreInv, StoreTypeOK
  <2> QED BY <2>5, <2>6
<1>4. CASE UNCHANGED signalFile
  BY <1>4
<1> QED BY <1>3, <1>4 DEF StoreStep, LoadHistory, ScoreHistory, WriteHistory, WriteFails

Successes == {"BUILT", "UNCHANGED"}

(* What the step that ends a call with success leaves behind.              *)
SuccessKnows(w) ==
  LET r == call[w].req
      signal == call'[w].response
  IN  /\ UNCHANGED <<historyFile, raced>>
      /\ r \in Request
      /\ signal = signalFile'[r.match]
      /\ signal.status \in {"not_ready", "scored"}
      /\ r.snap \in signal.history
      /\ r.match \notin raced => signal.history = historyFile[r.match]

(* A call in progress goes on or returns, for the request it was made for. *)
LEMMA CallGoesOn ==
  ASSUME StoreInv, NEW w \in Writers, StoreStep(w)
  PROVE  /\ call[w].pc \notin {"idle", "returned"}
         /\ \A v \in Writers \ {w} : call'[v] = call[v]
         /\ call'[w].pc # "idle" /\ call'[w].req = call[w].req
         /\ call'[w].pc = "returned" /\ call'[w].outcome \in Successes => SuccessKnows(w)
<1>1. PICK c : c = call[w]
  OBVIOUS
<1>2. c \in Call /\ CallKnows(w) /\ c = call[w]
  BY <1>1 DEF StoreInv, StoreTypeOK, CallsKnow
<1>3. \A outcome : /\ Returned(c, outcome).pc = "returned" /\ Returned(c, outcome).req = c.req
                   /\ Returned(c, outcome).outcome = outcome
                   /\ Returned(c, outcome).response = c.response
  BY DEF Returned, IdleCall
<1>4. c.pc \notin {"idle", "returned"}
  BY <1>2 DEF StoreStep, LoadHistory, ScoreHistory, WriteHistory, WriteSignal, WriteFails
<1>5. PICK d : call' = [call EXCEPT ![w] = d] /\
         \/ \E outcome \in {"signal_error", "model_error"} : d = Returned(c, outcome)
         \/ \E h : d = [c EXCEPT !.pc = "score", !.updated = h]
         \/ \E r : d = [c EXCEPT !.pc = "writeHistory", !.response = r]
         \/ \E b : d = [c EXCEPT !.pc = "writeSignal", !.built = b]
         \/ WriteSignal(w) /\ \E outcome \in Successes : d = Returned(c, outcome)
  <2>1. CASE LoadHistory(w) \/ ScoreHistory(w) \/ WriteFails(w)
    BY <1>2, <2>1 DEF LoadHistory, ScoreHistory, WriteFails
  <2>2. CASE WriteHistory(w)
    BY <1>2, <2>2 DEF WriteHistory
  <2>3. CASE WriteSignal(w)
    BY <1>2, <2>3 DEF WriteSignal, Successes
  <2> QED BY <2>1, <2>2, <2>3 DEF StoreStep
<1>6. call'[w] = d /\ \A v \in Writers \ {w} : call'[v] = call[v]
  BY <1>5 DEF StoreInv, StoreTypeOK
<1>7. ASSUME NEW h, d = [c EXCEPT !.pc = "score", !.updated = h]
      PROVE  d.pc = "score" /\ d.req = c.req
  BY <1>2, <1>7 DEF Call
<1>8. ASSUME NEW r, d = [c EXCEPT !.pc = "writeHistory", !.response = r]
      PROVE  d.pc = "writeHistory" /\ d.req = c.req
  BY <1>2, <1>8 DEF Call
<1>9. ASSUME NEW b, d = [c EXCEPT !.pc = "writeSignal", !.built = b]
      PROVE  d.pc = "writeSignal" /\ d.req = c.req
  BY <1>2, <1>9 DEF Call
<1>10. d.pc # "idle" /\ d.req = c.req
  BY <1>3, <1>5, <1>7, <1>8, <1>9
<1>11. d.pc = "returned" /\ d.outcome \in Successes => WriteSignal(w) /\ d.response = c.response
  <2>1. ASSUME NEW outcome \in {"signal_error", "model_error"}, d = Returned(c, outcome)
        PROVE  d.outcome \notin Successes
    BY <1>3, <2>1 DEF Successes
  <2>2. ASSUME NEW outcome, d = Returned(c, outcome)
        PROVE  d.response = c.response
    BY <1>3, <2>2
  <2> QED BY <1>5, <1>7, <1>8, <1>9, <2>1, <2>2
<1>12. ASSUME WriteSignal(w), d.response = c.response PROVE SuccessKnows(w)
  <2>1. c.pc = "writeSignal" /\ UNCHANGED <<historyFile, raced>>
        /\ signalFile' = [signalFile EXCEPT ![c.req.match] = c.response]
    BY <1>2, <1>12 DEF WriteSignal
  <2>2. /\ c.req \in Request /\ c.req.snap \in c.updated
        /\ c.req.match \notin raced => c.updated = historyFile[c.req.match]
    BY <1>2, <2>1 DEF CallKnows, Running
  <2>3. PICK bundle \in Models : c.response = Response(c.updated, bundle)
    BY <1>2, <2>1 DEF CallKnows
  <2>4. c.response.history = c.updated /\ c.response.status \in {"not_ready", "scored"}
    BY <2>3 DEF Response
  <2>5. signalFile'[c.req.match] = c.response
    BY <2>1, <2>2 DEF StoreInv, StoreTypeOK, Request
  <2> QED BY <1>2, <1>6, <1>12, <2>1, <2>2, <2>4, <2>5 DEF SuccessKnows
<1> QED BY <1>2, <1>4, <1>6, <1>10, <1>11, <1>12
-----------------------------------------------------------------------------
(* Refinement.  With one writer no call overlaps another.                  *)
SoleWriter == \A v, w \in Writers : v = w

NotRaced == raced = {}

LEMMA SoleWriterNeverRaces ==
  ASSUME SoleWriter
  PROVE  Spec => []NotRaced
<1>1. StoreInit => NotRaced BY DEF StoreInit, NotRaced
<1>2. NotRaced /\ [Next]_storeVars => NotRaced'
  <2> SUFFICES ASSUME NotRaced, [Next]_storeVars PROVE NotRaced'
    OBVIOUS
  <2>1. ASSUME NEW w \in Writers, WriteHistory(w) PROVE NotRaced'
    BY <2>1 DEF WriteHistory, SoleWriter, NotRaced
  <2>2. CASE UNCHANGED raced BY <2>2 DEF NotRaced
  <2> QED
    BY <2>1, <2>2 DEF Next, StoreStep, storeVars, Begin, LoadHistory,
       ScoreHistory, WriteSignal, WriteFails, PublishIgnored,
       PublishIgnoredFails, Return, Crash, ReplaceModel
<1> QED BY <1>1, <1>2, PTL DEF Spec

LEMMA WriteHistoryRecords ==
  ASSUME StoreInv, NotRaced, NEW w \in Writers, WriteHistory(w)
  PROVE  \E m \in Matches : \E snap \in Board!Snapshot : Board!Record(m, snap)
<1> DEFINE m == call[w].req.match
           snap == call[w].req.snap
<1>1. CallKnows(w) /\ call[w].pc = "writeHistory"
  BY DEF StoreInv, CallsKnow, WriteHistory
<1>2. m \in Matches /\ snap \in Snapshot
  BY <1>1 DEF CallKnows, Running, Request
<1>3. /\ call[w].updated = historyFile[m] \cup {snap}
      /\ Consistent(call[w].updated)
  BY <1>1 DEF CallKnows, Running, NotRaced
<1>4. ~Board!Conflicts(historyFile[m], snap)
  BY <1>3 DEF Board!Conflicts, Consistent
<1>5. historyFile' = [historyFile EXCEPT ![m] = historyFile[m] \cup {snap}]
  BY <1>3 DEF WriteHistory
<1>6. UNCHANGED signalFile BY DEF WriteHistory
<1>7. Board!Record(m, snap)
  BY <1>4, <1>5, <1>6 DEF Board!Record
<1> QED BY <1>2, <1>7 DEF Board!Snapshot, Snapshot

LEMMA WriteSignalPublishes ==
  ASSUME StoreInv, NotRaced, NEW w \in Writers, WriteSignal(w)
  PROVE  \E m \in Matches : \E bundle \in Models : Board!Publish(m, bundle)
<1> DEFINE c == call[w]
           m == c.req.match
<1>1. CallKnows(w) /\ c.pc = "writeSignal"
  BY DEF StoreInv, CallsKnow, WriteSignal
<1>2. /\ m \in Matches
      /\ c.updated = historyFile[m]
      /\ historyFile[m] # {}
  BY <1>1 DEF CallKnows, Running, Request, NotRaced
<1>3. PICK bundle \in Models : c.response = Response(historyFile[m], bundle)
  BY <1>1, <1>2 DEF CallKnows
<1>4. Response(historyFile[m], bundle) = Board!Response(historyFile[m], bundle)
  BY DEF Response, MissingLags, LatestTime, Max, Board!Response, Board!MissingLags,
         Board!LatestTime, Board!Max
<1>5. /\ signalFile' = [signalFile EXCEPT ![m] = Board!Response(historyFile[m], bundle)]
      /\ UNCHANGED historyFile
  BY <1>3, <1>4 DEF WriteSignal
<1>6. Board!Publish(m, bundle)
  BY <1>2, <1>5 DEF Board!Publish
<1> QED BY <1>2, <1>6

LEMMA PublishIgnoredDismisses ==
  ASSUME NEW w \in Writers, NEW m \in Matches, NEW note \in Notes,
         PublishIgnored(w, m, note)
  PROVE  Board!Dismiss(m, note)
  BY DEF PublishIgnored, Board!Dismiss, IgnoredSignal, AbsentSignal,
         Board!IgnoredSignal, Board!AbsentSignal

LEMMA StepRefines ==
  StoreInv /\ NotRaced /\ [Next]_storeVars => [Board!Next]_(Board!boardVars)
<1> SUFFICES ASSUME StoreInv, NotRaced, [Next]_storeVars
             PROVE  [Board!Next]_(Board!boardVars)
  OBVIOUS
<1>1. ASSUME NEW w \in Writers, WriteHistory(w) PROVE Board!Next
  BY <1>1, WriteHistoryRecords DEF Board!Next
<1>2. ASSUME NEW w \in Writers, WriteSignal(w) PROVE Board!Next
  BY <1>2, WriteSignalPublishes DEF Board!Next
<1>3. ASSUME NEW w \in Writers, NEW m \in Matches, NEW note \in Notes,
             PublishIgnored(w, m, note)
      PROVE  Board!Next
  BY <1>3, PublishIgnoredDismisses DEF Board!Next
<1>4. CASE UNCHANGED <<historyFile, signalFile>>
  BY <1>4 DEF Board!boardVars
<1> QED
  BY <1>1, <1>2, <1>3, <1>4 DEF Next, StoreStep, storeVars, Begin, LoadHistory,
     ScoreHistory, WriteFails, PublishIgnoredFails, Return, Crash, ReplaceModel

(* A store used by one process at a time implements the abstract board: an *)
(* append-only log, and a board that always shows the current log.         *)
THEOREM StoreImplementsBoard ==
  ASSUME SoleWriter
  PROVE  Spec => ImplementsBoard
<1>1. StoreInit => Board!Init
  BY DEF StoreInit, Board!Init, AbsentSignal, Board!AbsentSignal
<1> QED
  BY <1>1, StepRefines, StoreInvariant, SoleWriterNeverRaces, PTL
     DEF Spec, ImplementsBoard, Board!Spec
-----------------------------------------------------------------------------
(* The bridge.                                                             *)
BridgeTypes ==
  /\ input \in Seq(Lines) /\ tail \in BOOLEAN
  /\ cursorFile \in Cursor /\ summaryFile \in Summary /\ sync \in Sync
  /\ edits \in 0 .. MaxEdits

StartsAs(s, t) == Len(s) <= Len(t) /\ \A i \in 1 .. Len(s) : s[i] = t[i]

(* The cursor and the pass: the file is one line behind between the        *)
(* ingestion of a line and the persistence of the cursor.                  *)
Behind == IF sync.pc = "cursor" THEN 1 ELSE 0
PassInv ==
  /\ sync.pc # "idle" =>
       /\ sync.exit = "none"
       /\ sync.start <= sync.count /\ sync.count <= Len(sync.seen)
       /\ Len(cursorFile.prefix) + Behind = sync.count
       /\ StartsAs(cursorFile.prefix, sync.seen)
  /\ sync.pc \in {"line", "ingest"} => sync.count < Len(sync.seen)
  /\ sync.pc = "summary" => cursorFile.exists

(* The store was called for the next line, or for none; when it says that  *)
(* it succeeded, the line is in the history.                               *)
CallInv ==
  /\ sync.pc = "ingest" => call[Jsonl].pc # "idle" /\ call[Jsonl].req = CurrentLine
                           /\ CurrentLine \in Request
  /\ sync.pc # "ingest" => call[Jsonl].pc = "idle"
  /\ call[Jsonl].pc = "returned" /\ call[Jsonl].outcome \in {"BUILT", "UNCHANGED"} =>
       Committed(call[Jsonl].req)
  /\ sync.pc = "cursor" => Committed(sync.seen[sync.count])

(* As long as the input is only appended to, cursor and pass agree with it. *)
InputInv ==
  edits = 0 => /\ StartsAs(cursorFile.prefix, input)
               /\ sync.pc # "idle" => StartsAs(sync.seen, input)

PrefixIngested == \A i \in DOMAIN cursorFile.prefix : Committed(cursorFile.prefix[i])

BridgeInv ==
  /\ StoreInv /\ BridgeTypes
  /\ PassInv /\ CallInv /\ InputInv
  /\ PrefixIngested /\ SuccessIsSummarised

(* Nobody else uses the store, so no two calls overlap.                    *)
Alone == raced = {} /\ \A w \in Writers \ {Jsonl} : call[w].pc = "idle"

OrderInv == BridgeInv /\ Alone /\ IngestInOrder

-----------------------------------------------------------------------------
(* What a sequence is a prefix of, line by line.                           *)
LEMMA PrefixLineByLine ==
  ASSUME NEW s \in Seq(Lines), NEW t \in Seq(Lines)
  PROVE  IsPrefix(s, t) <=> StartsAs(s, t)
<1>1. Len(s) <= Len(t) => (SubSeq(s, 1, Len(s)) = SubSeq(t, 1, Len(s)) <=>
                             \A i \in 1 .. Len(s) : s[i] = t[i])
  OBVIOUS
<1> QED BY <1>1 DEF IsPrefix, StartsAs

LEMMA SubSeqStarts ==
  ASSUME NEW t \in Seq(Lines), NEW n \in 0 .. Len(t)
  PROVE  /\ SubSeq(t, 1, n) \in Seq(Lines) /\ Len(SubSeq(t, 1, n)) = n
         /\ DOMAIN SubSeq(t, 1, n) = 1 .. n
         /\ \A i \in 1 .. n : SubSeq(t, 1, n)[i] = t[i]
  OBVIOUS

LEMMA Types ==
  ASSUME BridgeTypes
  PROVE  /\ sync.seen \in Seq(Lines) /\ cursorFile.prefix \in Seq(Lines) /\ summaryFile.prefix \in Seq(Lines)
         /\ input \in Seq(Lines)
         /\ sync.count \in Nat /\ sync.start \in Nat /\ sync.changed \in Nat /\ sync.scored \in Nat
         /\ Len(sync.seen) \in Nat /\ Len(cursorFile.prefix) \in Nat /\ Len(input) \in Nat
         /\ DOMAIN cursorFile.prefix = 1 .. Len(cursorFile.prefix)
         /\ DOMAIN input = 1 .. Len(input) /\ sync.pc \in SyncPCs
  BY DEF BridgeTypes, Sync, Cursor, Summary

LEMMA EndedIsSync ==
  ASSUME NEW exit \in {"none", "ok", "error"}
  PROVE  /\ Ended(exit) \in Sync /\ Ended(exit).pc = "idle" /\ Ended(exit).exit = exit
         /\ IdleSync \in Sync /\ IdleSync.pc = "idle" /\ IdleSync.exit = "none"
<1>1. <<>> \in Seq(Lines)
  OBVIOUS
<1> QED BY <1>1 DEF Ended, IdleSync, Sync, SyncPCs

LEMMA InitHolds == JsonlInit => BridgeInv
<1> SUFFICES ASSUME JsonlInit PROVE BridgeInv
  OBVIOUS
<1>1. StoreInv
  BY InitEstablishes DEF JsonlInit
<1>2. <<>> \in Seq(Lines) /\ Len(<<>>) = 0 /\ DOMAIN <<>> = {}
  OBVIOUS
<1>3. BridgeTypes
  <2>1. cursorFile \in Cursor
    BY <1>2 DEF JsonlInit, Cursor
  <2>2. summaryFile \in Summary
    BY <1>2 DEF JsonlInit, Summary, AbsentSummary, SummaryStatus
  <2>3. sync \in Sync /\ edits \in 0 .. MaxEdits
    BY EndedIsSync, MaxEditsIsNatural DEF JsonlInit
  <2>4. input \in Seq(Lines) /\ tail \in BOOLEAN
    BY <1>2 DEF JsonlInit
  <2> QED BY <2>1, <2>2, <2>3, <2>4 DEF BridgeTypes
<1>4. call[Jsonl].pc = "idle" /\ sync.pc = "idle" /\ sync.exit = "none" /\ cursorFile.prefix = <<>>
  BY IdleCallIsCall, EndedIsSync, JsonlIsWriter DEF JsonlInit, StoreInit
<1>6. PassInv /\ CallInv /\ PrefixIngested /\ SuccessIsSummarised
  BY <1>2, <1>4 DEF PassInv, CallInv, PrefixIngested, SuccessIsSummarised
<1>7. InputInv
  BY <1>2, <1>4 DEF InputInv, StartsAs, JsonlInit
<1> QED BY <1>1, <1>3, <1>6, <1>7 DEF BridgeInv

-----------------------------------------------------------------------------
(* The program that writes the input.                                      *)
LEMMA ProducerAppends ==
  ASSUME BridgeInv, Producer
  PROVE  /\ UNCHANGED <<cursorFile, summaryFile, sync, historyFile, signalFile, modelBundle, call, raced>>
         /\ input' \in Seq(Lines) /\ tail' \in BOOLEAN /\ edits' \in 0 .. MaxEdits
         /\ edits' = 0 => edits = 0 /\ StartsAs(input, input')
<1>1. UNCHANGED <<cursorFile, summaryFile, sync, historyFile, signalFile, modelBundle, call, raced>>
  BY DEF Producer, AppendPartial, CompleteLine, EditInput, storeVars
<1>2. CASE AppendPartial
  BY <1>1, <1>2, Types DEF AppendPartial, BridgeInv, BridgeTypes, StartsAs
<1>3. ASSUME NEW line \in Lines, CompleteLine(line)
      PROVE  /\ input' \in Seq(Lines) /\ tail' \in BOOLEAN /\ edits' = edits
             /\ StartsAs(input, input')
  <2>1. input \in Seq(Lines) /\ input' = Append(input, line) /\ tail' = FALSE /\ edits' = edits
    BY <1>3, Types DEF CompleteLine, BridgeInv
  <2>2. /\ input' \in Seq(Lines) /\ Len(input') = Len(input) + 1
        /\ \A i \in 1 .. Len(input) : input'[i] = input[i]
    BY <2>1, AppendProperties
  <2>3. Len(input) \in Nat
    BY <2>1
  <2>4. StartsAs(input, input')
    BY <2>2, <2>3 DEF StartsAs
  <2> QED BY <2>1, <2>2, <2>4
<1>4. CASE EditInput
  <2>1. edits' = edits + 1 /\ edits' \in 0 .. MaxEdits /\ edits \in Nat /\ tail' \in BOOLEAN
    BY <1>4, MaxEditsIsNatural DEF EditInput, BridgeInv, BridgeTypes
  <2>2. ASSUME NEW i \in DOMAIN input, NEW line \in Lines, input' = [input EXCEPT ![i] = line]
        PROVE  input' \in Seq(Lines)
    BY <2>2, Types DEF BridgeInv
  <2>3. ASSUME NEW n \in 0 .. Len(input), input' = SubSeq(input, 1, n)
        PROVE  input' \in Seq(Lines)
    BY <2>3, Types, SubSeqStarts DEF BridgeInv
  <2>4. input' \in Seq(Lines)
    BY <1>4, <2>2, <2>3 DEF EditInput
  <2> QED BY <1>1, <2>1, <2>4
<1> QED BY <1>1, <1>2, <1>3, <1>4 DEF Producer, BridgeInv, BridgeTypes

LEMMA ProducerKeeps ==
  ASSUME BridgeInv, Producer
  PROVE  BridgeInv'
<1>1. UNCHANGED <<cursorFile, summaryFile, sync, historyFile, signalFile, modelBundle, call, raced>>
  BY ProducerAppends
<1>2. StoreInv'
  BY <1>1, StutterPreserves DEF BridgeInv, storeVars
<1>3. /\ input' \in Seq(Lines) /\ tail' \in BOOLEAN /\ edits' \in 0 .. MaxEdits
      /\ edits' = 0 => edits = 0 /\ StartsAs(input, input')
  BY ProducerAppends
<1>4. BridgeTypes' /\ PassInv' /\ CallInv' /\ PrefixIngested' /\ SuccessIsSummarised'
  BY <1>1, <1>3 DEF BridgeInv, BridgeTypes, PassInv, Behind, CallInv, CurrentLine, Committed,
     PrefixIngested, SuccessIsSummarised
<1>5. InputInv'
  <2> SUFFICES ASSUME edits' = 0
               PROVE  /\ StartsAs(cursorFile.prefix, input)'
                      /\ sync'.pc # "idle" => StartsAs(sync.seen, input)'
    BY DEF InputInv
  <2>1. StartsAs(input, input') /\ StartsAs(cursorFile.prefix, input)
        /\ (sync.pc # "idle" => StartsAs(sync.seen, input))
    BY <1>3 DEF BridgeInv, InputInv
  <2>2. Len(input') \in Nat
    BY <1>3
  <2>3. Len(input) \in Nat /\ Len(sync.seen) \in Nat /\ Len(cursorFile.prefix) \in Nat
    BY Types DEF BridgeInv
  <2>4. \A s : Len(s) \in Nat /\ StartsAs(s, input) => StartsAs(s, input')
    BY <2>1, <2>2, <2>3 DEF StartsAs
  <2>5. StartsAs(cursorFile.prefix, input')
    BY <2>1, <2>3, <2>4
  <2>6. sync.pc # "idle" => StartsAs(sync.seen, input')
    BY <2>1, <2>3, <2>4
  <2> QED BY <1>1, <2>5, <2>6 DEF StartsAs
<1> QED BY <1>2, <1>4, <1>5 DEF BridgeInv

-----------------------------------------------------------------------------
(* The steps of the pass that leave the store alone.                       *)
LEMMA PassKeeps ==
  ASSUME BridgeInv, UNCHANGED <<storeVars, input, tail, edits>>,
         sync' \in Sync, cursorFile' \in Cursor, summaryFile' \in Summary,
         PassInv', CallInv', InputInv', PrefixIngested', SuccessIsSummarised'
  PROVE  BridgeInv'
<1>1. StoreInv'
  BY StutterPreserves DEF BridgeInv
<1>2. BridgeTypes'
  BY DEF BridgeInv, BridgeTypes
<1> QED BY <1>1, <1>2 DEF BridgeInv

LEMMA EndKeeps ==
  ASSUME BridgeInv, sync.pc # "ingest", sync' = Ended("error"),
         UNCHANGED <<storeVars, input, tail, edits, cursorFile, summaryFile>>
  PROVE  BridgeInv'
<1>1. sync' \in Sync /\ sync'.pc = "idle" /\ sync'.exit = "error"
  BY EndedIsSync
<1>2. PassInv' /\ SuccessIsSummarised'
  BY <1>1 DEF PassInv, SuccessIsSummarised
<1>3. CallInv' /\ PrefixIngested'
  BY <1>1 DEF BridgeInv, CallInv, Committed, PrefixIngested, storeVars
<1>4. InputInv'
  BY <1>1 DEF BridgeInv, InputInv, StartsAs
<1> QED BY <1>1, <1>2, <1>3, <1>4, PassKeeps DEF BridgeInv, BridgeTypes

LEMMA StartKeeps ==
  ASSUME BridgeInv, StartSync
  PROVE  BridgeInv'
<1> DEFINE n == Len(cursorFile.prefix)
<1>1. /\ sync.pc = "idle"
      /\ UNCHANGED <<input, tail, cursorFile, summaryFile, edits, storeVars>>
  BY DEF StartSync
<1>2. CASE ~PrefixUnchanged
  BY <1>1, <1>2, EndKeeps DEF StartSync
<1>3. CASE PrefixUnchanged
  <2>1. PICK pc \in {"line", "summary", "firstCursor"} :
          /\ sync' = [IdleSync EXCEPT !.pc = pc, !.seen = input, !.pending = tail,
                                      !.start = n, !.count = n]
          /\ pc = "line" <=> n < Len(input)
          /\ pc = "summary" => cursorFile.exists
    BY <1>3 DEF StartSync
  <2>2. /\ n \in Nat /\ Len(input) \in Nat /\ input \in Seq(Lines) /\ tail \in BOOLEAN
        /\ StartsAs(cursorFile.prefix, input)
    BY <1>3, Types, PrefixLineByLine DEF PrefixUnchanged, BridgeInv, BridgeTypes
  <2>3. /\ sync' \in Sync /\ sync'.pc = pc /\ sync'.seen = input /\ sync'.start = n
        /\ sync'.count = n /\ sync'.exit = "none"
    BY <2>1, <2>2, EndedIsSync DEF Sync, SyncPCs
  <2>4. PassInv'
    <3>1. Behind' = 0 /\ cursorFile' = cursorFile /\ pc \notin {"idle", "ingest"}
      BY <1>1, <2>1, <2>3 DEF Behind
    <3>2. n <= Len(input) /\ (pc = "line" => n < Len(input))
      BY <2>1, <2>2 DEF StartsAs
    <3> QED BY <2>1, <2>2, <2>3, <3>1, <3>2 DEF PassInv, StartsAs
  <2>5. CallInv' /\ PrefixIngested' /\ SuccessIsSummarised'
    BY <1>1, <2>1, <2>3 DEF BridgeInv, CallInv, Committed, PrefixIngested, SuccessIsSummarised, storeVars
  <2>6. InputInv'
    BY <1>1, <2>2, <2>3 DEF InputInv, StartsAs
  <2> QED BY <1>1, <2>2, <2>3, <2>4, <2>5, <2>6, PassKeeps DEF BridgeInv, BridgeTypes
<1> QED BY <1>2, <1>3

LEMMA FirstCursorKeeps ==
  ASSUME BridgeInv, PersistFirstCursor
  PROVE  BridgeInv'
<1>1. /\ sync.pc = "firstCursor" /\ UNCHANGED <<input, tail, summaryFile, edits, storeVars>>
      /\ cursorFile' = [cursorFile EXCEPT !.exists = TRUE]
      /\ sync' = [sync EXCEPT !.pc = "summary"]
  BY DEF PersistFirstCursor
<1>2. cursorFile' \in Cursor /\ cursorFile'.exists /\ cursorFile'.prefix = cursorFile.prefix
  BY <1>1 DEF BridgeInv, BridgeTypes, Cursor
<1>3. /\ sync' \in Sync /\ sync'.pc = "summary" /\ sync'.seen = sync.seen
      /\ sync'.start = sync.start /\ sync'.count = sync.count /\ sync'.exit = sync.exit
  BY <1>1 DEF BridgeInv, BridgeTypes, Sync, SyncPCs
<1>4. PassInv'
  BY <1>1, <1>2, <1>3 DEF BridgeInv, PassInv, Behind, StartsAs
<1>5. CallInv' /\ PrefixIngested' /\ SuccessIsSummarised'
  BY <1>1, <1>2, <1>3 DEF BridgeInv, PassInv, CallInv, Committed, PrefixIngested, SuccessIsSummarised, storeVars
<1>6. InputInv'
  BY <1>1, <1>2, <1>3 DEF BridgeInv, InputInv, StartsAs
<1> QED BY <1>1, <1>2, <1>3, <1>4, <1>5, <1>6, PassKeeps DEF BridgeInv, BridgeTypes

LEMMA CursorKeeps ==
  ASSUME BridgeInv, PersistCursor
  PROVE  BridgeInv'
<1>1. /\ sync.pc = "cursor" /\ UNCHANGED <<input, tail, summaryFile, edits, storeVars>>
      /\ cursorFile' = [exists |-> TRUE, prefix |-> SubSeq(sync.seen, 1, sync.count)]
      /\ sync' = [sync EXCEPT !.pc = IF sync.count < Len(sync.seen) THEN "line" ELSE "summary"]
  BY DEF PersistCursor
<1>2. /\ sync.count \in 0 .. Len(sync.seen) /\ Len(cursorFile.prefix) + 1 = sync.count
      /\ StartsAs(cursorFile.prefix, sync.seen) /\ sync.start <= sync.count
      /\ sync.exit = "none" /\ Committed(sync.seen[sync.count])
  BY <1>1, Types DEF BridgeInv, PassInv, Behind, CallInv
<1>3. /\ cursorFile' \in Cursor /\ cursorFile'.exists /\ Len(cursorFile'.prefix) = sync.count
      /\ DOMAIN cursorFile'.prefix = 1 .. sync.count
      /\ \A i \in 1 .. sync.count : cursorFile'.prefix[i] = sync.seen[i]
  BY <1>1, <1>2, Types, SubSeqStarts DEF BridgeInv, Cursor
<1>4. /\ sync' \in Sync /\ sync'.seen = sync.seen /\ sync'.start = sync.start
      /\ sync'.count = sync.count /\ sync'.exit = "none" /\ sync'.pc \in {"line", "summary"}
      /\ sync'.pc = "line" => sync.count < Len(sync.seen)
  BY <1>1, <1>2 DEF BridgeInv, BridgeTypes, Sync, SyncPCs
<1>5. PassInv'
  BY <1>2, <1>3, <1>4, Types DEF PassInv, Behind, StartsAs, BridgeInv
<1>6. PrefixIngested'
  <2>1. \A i \in 1 .. Len(cursorFile.prefix) : Committed(sync.seen[i])
    BY <1>2, Types DEF StartsAs, BridgeInv, PrefixIngested
  <2>2. \A i \in 1 .. sync.count : Committed(sync.seen[i])
    BY <1>2, <2>1, Types DEF BridgeInv
  <2> QED BY <1>1, <1>3, <2>2 DEF PrefixIngested, Committed, storeVars
<1>7. CallInv' /\ SuccessIsSummarised'
  BY <1>1, <1>4 DEF BridgeInv, CallInv, Committed, SuccessIsSummarised, storeVars
<1>8. InputInv'
  BY <1>1, <1>2, <1>3, <1>4, Types DEF BridgeInv, InputInv, StartsAs
<1> QED BY <1>1, <1>3, <1>4, <1>5, <1>6, <1>7, <1>8, PassKeeps DEF BridgeInv, BridgeTypes

LEMMA SummaryKeeps ==
  ASSUME BridgeInv, WriteSummary
  PROVE  BridgeInv'
<1>1. /\ sync.pc = "summary" /\ UNCHANGED <<input, tail, cursorFile, edits, storeVars>>
      /\ summaryFile' = IF HasCurrentSummary THEN summaryFile ELSE PassSummary
      /\ sync' = Ended("ok")
  BY DEF WriteSummary
<1>2. sync' \in Sync /\ sync'.pc = "idle" /\ sync'.exit = "ok"
  BY <1>1, EndedIsSync
<1>3. /\ sync.count \in 0 .. Len(sync.seen) /\ Len(cursorFile.prefix) = sync.count
      /\ StartsAs(cursorFile.prefix, sync.seen) /\ cursorFile.exists /\ sync.start <= sync.count
  BY <1>1, Types DEF BridgeInv, PassInv, Behind
<1>4. SubSeq(sync.seen, 1, sync.count) = cursorFile.prefix
  BY <1>3, Types, PrefixLineByLine DEF BridgeInv, IsPrefix
<1>5. PassSummary \in Summary /\ PassSummary.status # "absent" /\ PassSummary.prefix = cursorFile.prefix
  <2>1. sync.count - sync.start \in Nat /\ sync.pending \in BOOLEAN
    BY <1>3, Types DEF BridgeInv, BridgeTypes, Sync
  <2> QED BY <1>4, <2>1, Types DEF PassSummary, Summary, SummaryStatus, BridgeInv
<1>6. summaryFile' \in Summary /\ summaryFile'.status # "absent" /\ summaryFile'.prefix = cursorFile.prefix
  BY <1>1, <1>5 DEF HasCurrentSummary, BridgeInv, BridgeTypes
<1>7. PassInv' /\ CallInv' /\ PrefixIngested' /\ SuccessIsSummarised'
  BY <1>1, <1>2, <1>3, <1>6 DEF BridgeInv, PassInv, CallInv, Committed, PrefixIngested,
     SuccessIsSummarised, storeVars
<1>8. InputInv'
  BY <1>1, <1>2 DEF BridgeInv, InputInv, StartsAs
<1> QED BY <1>1, <1>2, <1>6, <1>7, <1>8, PassKeeps DEF BridgeInv, BridgeTypes
-----------------------------------------------------------------------------
(* The store changes, by the call of the pass or by another process, and   *)
(* the files of the bridge stay as they are.                               *)
LEMMA StoreKeeps ==
  ASSUME BridgeInv, UNCHANGED <<input, tail, edits, cursorFile, summaryFile>>,
         StoreInv', PassInv', CallInv',
         sync' \in Sync, sync'.seen = sync.seen \/ sync'.pc = "idle",
         sync'.exit # "ok" \/ sync' = sync, sync.pc # "idle" \/ sync' = sync,
         raced \subseteq raced',
         \A m \in Matches \ raced' : historyFile[m] \subseteq historyFile'[m]
  PROVE  BridgeInv'
<1>1. BridgeTypes' /\ SuccessIsSummarised'
  BY DEF BridgeInv, BridgeTypes, SuccessIsSummarised
<1>2. PrefixIngested'
  <2> SUFFICES ASSUME NEW i \in DOMAIN cursorFile.prefix
               PROVE  Committed(cursorFile.prefix[i])'
    BY DEF PrefixIngested
  <2>1. PICK r : r = cursorFile.prefix[i] /\ r = cursorFile'.prefix[i]
    OBVIOUS
  <2>2. Committed(r)
    BY <2>1 DEF BridgeInv, PrefixIngested
  <2>3. Committed(r)'
    BY <2>2, CommittedStays
  <2> QED BY <2>1, <2>3 DEF Committed
<1>3. InputInv'
  BY DEF BridgeInv, InputInv, StartsAs
<1> QED BY <1>1, <1>2, <1>3 DEF BridgeInv

LEMMA OwnCallReplaced ==
  ASSUME BridgeInv, NEW c, call' = [call EXCEPT ![Jsonl] = c]
  PROVE  call'[Jsonl] = c
  BY JsonlIsWriter DEF BridgeInv, StoreInv, StoreTypeOK

LEMMA IngestKeeps ==
  ASSUME BridgeInv, IngestLine
  PROVE  BridgeInv'
<1>1. /\ sync.pc = "line" /\ CurrentLine # Malformed
      /\ sync' = [sync EXCEPT !.pc = "ingest"]
      /\ UNCHANGED <<input, tail, edits, cursorFile, summaryFile>>
      /\ Begin(Jsonl, CurrentLine)
  BY DEF IngestLine
<1>2. sync.count + 1 \in 1 .. Len(sync.seen) /\ sync.seen \in Seq(Lines) /\ sync.exit = "none"
  BY <1>1, Types DEF BridgeInv, PassInv
<1>3. CurrentLine \in Request
  <2>1. sync.seen[sync.count + 1] \in Lines
    BY <1>2
  <2> QED BY <1>1, <2>1, LinesAreLines DEF CurrentLine, AllLines
<1>4. StoreInv'
  BY <1>1, <1>3, JsonlIsWriter, BeginPreserves DEF BridgeInv
<1>5. PICK c : c = [IdleCall EXCEPT !.pc = "load", !.req = CurrentLine]
  OBVIOUS
<1>6. c.pc = "load" /\ c.req = CurrentLine
  BY <1>5 DEF IdleCall
<1>7. call' = [call EXCEPT ![Jsonl] = c] /\ UNCHANGED <<historyFile, raced>>
  BY <1>1, <1>5 DEF Begin
<1>8. call'[Jsonl] = c
  BY <1>7, OwnCallReplaced
<1>9. /\ sync' \in Sync /\ sync'.pc = "ingest" /\ sync'.seen = sync.seen
      /\ sync'.count = sync.count /\ sync'.start = sync.start /\ sync'.exit = "none"
  BY <1>1, <1>2 DEF BridgeInv, BridgeTypes, Sync, SyncPCs
<1>10. PassInv'
  BY <1>1, <1>9 DEF BridgeInv, PassInv, Behind, StartsAs
<1>11. CallInv'
  BY <1>3, <1>6, <1>8, <1>9 DEF CallInv, CurrentLine
<1> QED BY <1>1, <1>4, <1>7, <1>9, <1>10, <1>11, StoreKeeps

LEMMA LineIngestedKeeps ==
  ASSUME BridgeInv, LineIngested
  PROVE  BridgeInv'
<1>1. /\ sync.pc = "ingest" /\ call[Jsonl].outcome \in Successes
      /\ UNCHANGED <<input, tail, edits, cursorFile, summaryFile>>
      /\ Return(Jsonl)
  BY DEF LineIngested, Successes
<1>2. StoreInv'
  BY <1>1, JsonlIsWriter, EndingPreserves DEF BridgeInv
<1>3. call[Jsonl].pc = "returned" /\ UNCHANGED <<historyFile, raced>>
  BY <1>1 DEF Return
<1>4. call'[Jsonl] = IdleCall
  BY <1>1, OwnCallReplaced DEF Return
<1>5. PICK c, s \in Nat :
        sync' = [sync EXCEPT !.pc = "cursor", !.count = sync.count + 1, !.changed = c, !.scored = s]
  <2>1. PICK c : c = IF call[Jsonl].outcome = "BUILT" THEN sync.changed + 1 ELSE sync.changed
    OBVIOUS
  <2>2. PICK s : s = IF call[Jsonl].response.status = "scored" THEN sync.scored + 1 ELSE sync.scored
    OBVIOUS
  <2>3. c \in Nat /\ s \in Nat
    BY <2>1, <2>2, Types DEF BridgeInv
  <2>4. sync' = [sync EXCEPT !.pc = "cursor", !.count = sync.count + 1, !.changed = c, !.scored = s]
    BY <2>1, <2>2 DEF LineIngested, BridgeInv, BridgeTypes, Sync
  <2> QED BY <2>3, <2>4
<1>6. sync.count + 1 \in 1 .. Len(sync.seen) /\ sync.count \in Nat /\ sync.exit = "none"
  BY <1>1, Types DEF BridgeInv, PassInv
<1>7. /\ sync' \in Sync /\ sync'.pc = "cursor" /\ sync'.seen = sync.seen
      /\ sync'.count = sync.count + 1 /\ sync'.start = sync.start /\ sync'.exit = "none"
  <2>1. PICK n \in Nat : n = sync.count + 1
    BY <1>6
  <2>2. sync \in Sync /\ sync' = [sync EXCEPT !.pc = "cursor", !.count = n, !.changed = c, !.scored = s]
    BY <1>5, <2>1 DEF BridgeInv, BridgeTypes
  <2>3. sync' \in Sync
    BY <2>2 DEF Sync, SyncPCs
  <2>4. /\ sync'.pc = "cursor" /\ sync'.seen = sync.seen /\ sync'.count = n
        /\ sync'.start = sync.start /\ sync'.exit = sync.exit
    BY <2>2 DEF Sync
  <2> QED BY <1>6, <2>1, <2>3, <2>4
<1>8. PassInv'
  <2>1. Behind' = 1 /\ Behind = 0 /\ cursorFile' = cursorFile
    BY <1>1, <1>7 DEF Behind
  <2> QED BY <1>1, <1>6, <1>7, <2>1, Types DEF BridgeInv, PassInv, StartsAs
<1>9. Committed(sync.seen[sync.count + 1])
  BY <1>1, <1>3 DEF BridgeInv, CallInv, CurrentLine, Successes
<1>10. CallInv'
  BY <1>3, <1>4, <1>7, <1>9, IdleCallIsCall DEF CallInv, Committed
<1> QED BY <1>1, <1>2, <1>3, <1>7, <1>8, <1>10, StoreKeeps

(* The pass ends, orderly or not, and takes the call with it.              *)
LEMMA StopKeeps ==
  ASSUME BridgeInv, sync.pc # "idle", sync' \in {Ended("error"), IdleSync},
         call' = [call EXCEPT ![Jsonl] = IdleCall],
         UNCHANGED <<historyFile, signalFile, modelBundle, raced>>,
         UNCHANGED <<input, tail, edits, cursorFile, summaryFile>>
  PROVE  BridgeInv'
<1>1. StoreInv'
  <2>1. modelBundle' \in Models \cup {NoModel}
    BY DEF BridgeInv, StoreInv, StoreTypeOK
  <2> QED BY <2>1, IdleCallIsCall, JsonlIsWriter, OneCallChanges DEF BridgeInv
<1>2. call'[Jsonl] = IdleCall
  BY OwnCallReplaced
<1>3. sync' \in Sync /\ sync'.pc = "idle" /\ sync'.exit # "ok"
  BY EndedIsSync
<1>4. PassInv' /\ CallInv'
  BY <1>2, <1>3, IdleCallIsCall DEF PassInv, CallInv
<1> QED BY <1>1, <1>3, <1>4, StoreKeeps

(* The pass waits and the store changes: its call goes on, or another      *)
(* process is at work.                                                     *)
LEMMA WaitKeeps ==
  ASSUME BridgeInv, StoreInv', UNCHANGED jsonlVars,
         call'[Jsonl].pc = "idle" <=> call[Jsonl].pc = "idle",
         sync.pc = "ingest" => call'[Jsonl].req = call[Jsonl].req,
         call'[Jsonl].pc = "returned" /\ call'[Jsonl].outcome \in Successes =>
           Committed(call[Jsonl].req)',
         raced \subseteq raced',
         \A m \in Matches \ raced' : historyFile[m] \subseteq historyFile'[m]
  PROVE  BridgeInv'
<1>1. sync' = sync /\ UNCHANGED <<input, tail, edits, cursorFile, summaryFile>>
  BY DEF jsonlVars
<1>2. PassInv' /\ sync' \in Sync
  BY <1>1 DEF BridgeInv, BridgeTypes, PassInv, Behind, StartsAs
<1>3. CallInv'
  <2>1. ASSUME sync.pc = "cursor" PROVE Committed(sync.seen[sync.count])'
    <3>1. PICK r : r = sync.seen[sync.count] /\ r = sync'.seen[sync'.count]
      BY <1>1
    <3>2. Committed(r)
      BY <2>1, <3>1 DEF BridgeInv, CallInv
    <3>3. Committed(r)'
      BY <3>2, CommittedStays
    <3> QED BY <3>1, <3>3 DEF Committed
  <2>2. /\ sync.pc = "ingest" => call[Jsonl].pc # "idle" /\ call[Jsonl].req = CurrentLine
                                 /\ CurrentLine \in Request
        /\ sync.pc # "ingest" => call[Jsonl].pc = "idle"
    BY DEF BridgeInv, CallInv
  <2>3. CurrentLine' = CurrentLine
    BY <1>1 DEF CurrentLine
  <2> QED BY <1>1, <2>1, <2>2, <2>3 DEF CallInv, Successes
<1> QED BY <1>1, <1>2, <1>3, StoreKeeps

LEMMA OwnCallKeeps ==
  ASSUME BridgeInv, StoreStep(Jsonl), UNCHANGED jsonlVars
  PROVE  BridgeInv'
<1>1. /\ StoreInv' /\ raced \subseteq raced'
      /\ \A m \in Matches \ raced' : historyFile[m] \subseteq historyFile'[m]
  BY StoreStepPreserves, JsonlIsWriter DEF BridgeInv
<1>2. /\ call[Jsonl].pc # "idle" /\ call'[Jsonl].pc # "idle"
      /\ call'[Jsonl].req = call[Jsonl].req
      /\ call'[Jsonl].pc = "returned" /\ call'[Jsonl].outcome \in Successes => SuccessKnows(Jsonl)
  BY CallGoesOn, JsonlIsWriter DEF BridgeInv
<1>3. call'[Jsonl].pc = "returned" /\ call'[Jsonl].outcome \in Successes => Committed(call[Jsonl].req)'
  <2>1. PICK r : r = call[Jsonl].req /\ r = call'[Jsonl].req
    BY <1>2
  <2>2. SuccessKnows(Jsonl) => Committed(r)'
    BY <2>1 DEF SuccessKnows, Committed
  <2> QED BY <1>2, <2>1, <2>2 DEF Committed
<1> QED BY <1>1, <1>2, <1>3, WaitKeeps

(* Another process uses the store, the bundle is replaced, or nothing      *)
(* happens.                                                                *)
LEMMA OthersKeepBridge ==
  ASSUME BridgeInv, StoreInv', UNCHANGED jsonlVars, call'[Jsonl] = call[Jsonl],
         raced \subseteq raced',
         \A m \in Matches \ raced' : historyFile[m] \subseteq historyFile'[m]
  PROVE  BridgeInv'
<1>1. PICK r : r = call[Jsonl].req /\ r = call'[Jsonl].req
  OBVIOUS
<1>2. call[Jsonl].pc = "returned" /\ call[Jsonl].outcome \in Successes => Committed(r)
  BY <1>1 DEF BridgeInv, CallInv, Successes
<1>3. call[Jsonl].pc = "returned" /\ call[Jsonl].outcome \in Successes => Committed(r)'
  BY <1>2, CommittedStays
<1>4. call'[Jsonl].pc = "returned" /\ call'[Jsonl].outcome \in Successes => Committed(call[Jsonl].req)'
  BY <1>1, <1>3 DEF Committed
<1> QED BY <1>4, WaitKeeps

(* Every step of the bridge, of its input and of its faults.               *)
BridgeStep == Producer \/ SyncStep \/ JsonlStoreStep \/ JsonlFault

LEMMA BridgeStepKeeps ==
  ASSUME BridgeInv, BridgeStep
  PROVE  BridgeInv'
<1>1. CASE Producer
  BY <1>1, ProducerKeeps
<1>2. CASE SyncStep
  <2>1. CASE RejectLine
    BY <2>1, EndKeeps DEF RejectLine
  <2>2. CASE LineFailed
    BY <2>2, StopKeeps DEF LineFailed, Return
  <2> QED BY <1>2, <2>1, <2>2, StartKeeps, FirstCursorKeeps, IngestKeeps, LineIngestedKeeps,
             CursorKeeps, SummaryKeeps DEF SyncStep
<1>3. CASE JsonlStoreStep
  BY <1>3, OwnCallKeeps DEF JsonlStoreStep, StoreStep
<1>4. CASE JsonlFault
  <2>1. CASE StageFails \/ BridgeWriteFails
    BY <2>1, EndKeeps DEF StageFails, BridgeWriteFails
  <2>2. CASE CrashSync
    BY <2>2, StopKeeps DEF CrashSync
  <2> QED BY <1>4, <2>1, <2>2, OwnCallKeeps DEF JsonlFault, StoreStep
<1> QED BY <1>1, <1>2, <1>3, <1>4 DEF BridgeStep

LEMMA NextKeeps == BridgeInv /\ [JsonlNext]_jsonlAllVars => BridgeInv'
<1> SUFFICES ASSUME BridgeInv, [JsonlNext]_jsonlAllVars PROVE BridgeInv'
  OBVIOUS
<1>1. CASE BridgeStep
  BY <1>1, BridgeStepKeeps
<1>2. CASE ModelReplaced
  <2>1. StoreInv' /\ UNCHANGED <<historyFile, call, raced>> /\ UNCHANGED jsonlVars
    BY <1>2, ReplaceModelPreserves DEF ModelReplaced, ReplaceModel, BridgeInv
  <2> QED BY <2>1, OthersKeepBridge
<1>3. CASE UNCHANGED jsonlAllVars
  <2>1. StoreInv' /\ UNCHANGED <<historyFile, call, raced>> /\ UNCHANGED jsonlVars
    BY <1>3, StutterPreserves DEF jsonlAllVars, storeVars, BridgeInv
  <2> QED BY <2>1, OthersKeepBridge
<1> QED BY <1>1, <1>2, <1>3 DEF JsonlNext, BridgeStep
-----------------------------------------------------------------------------
(* The order of ingestion, when the bridge has the store for itself.       *)
LEMMA AloneKeeps ==
  ASSUME BridgeInv, Alone, [JsonlNext]_jsonlAllVars
  PROVE  Alone'
<1>1. ASSUME NEW c, call' = [call EXCEPT ![Jsonl] = c], raced' = raced
      PROVE  Alone'
  BY <1>1, JsonlIsWriter DEF BridgeInv, StoreInv, StoreTypeOK, Alone
<1>2. ASSUME StoreStep(Jsonl) PROVE Alone'
  <2>1. \A v \in Writers \ {Jsonl} : ~Ingesting(v, call[Jsonl].req.match)
    BY DEF Alone, Ingesting
  <2>2. raced' = raced
    BY <1>2, <2>1 DEF StoreStep, LoadHistory, ScoreHistory, WriteHistory, WriteSignal, WriteFails
  <2>3. \A v \in Writers \ {Jsonl} : call'[v] = call[v]
    BY <1>2, CallGoesOn, JsonlIsWriter DEF BridgeInv
  <2> QED BY <2>2, <2>3 DEF Alone
<1>3. ASSUME UNCHANGED <<call, raced>> PROVE Alone'
  BY <1>3 DEF Alone
<1>4. CASE Producer \/ ModelReplaced \/ UNCHANGED jsonlAllVars
  BY <1>3, <1>4 DEF Producer, AppendPartial, CompleteLine, EditInput, ModelReplaced, ReplaceModel,
     jsonlAllVars, storeVars
<1>5. CASE SyncStep
  BY <1>1, <1>3, <1>5 DEF SyncStep, StartSync, PersistFirstCursor, RejectLine, IngestLine, Begin,
     LineIngested, LineFailed, Return, PersistCursor, WriteSummary, storeVars
<1>6. CASE JsonlStoreStep
  BY <1>2, <1>6 DEF JsonlStoreStep, StoreStep
<1>7. CASE JsonlFault
  BY <1>1, <1>2, <1>3, <1>7 DEF JsonlFault, StageFails, BridgeWriteFails, CrashSync, StoreStep, storeVars
<1> QED BY <1>4, <1>5, <1>6, <1>7 DEF JsonlNext

(* Only its history write adds to a history, and only the current line.    *)
LEMMA HistoryTakesTheLine ==
  ASSUME BridgeInv, Alone, WriteHistory(Jsonl), NEW m \in Matches, NEW s \in historyFile'[m]
  PROVE  \/ s \in historyFile[m]
         \/ sync.pc = "ingest" /\ CurrentLine = [match |-> m, snap |-> s]
<1>1. PICK c : c = call[Jsonl]
  OBVIOUS
<1>2. c \in Call /\ CallKnows(Jsonl) /\ c = call[Jsonl] /\ raced = {}
  BY <1>1, JsonlIsWriter DEF BridgeInv, StoreInv, StoreTypeOK, CallsKnow, Alone
<1>3. c.pc = "writeHistory" /\ historyFile' = [historyFile EXCEPT ![c.req.match] = c.updated]
  BY <1>2 DEF WriteHistory
<1>4. c.req \in Request /\ c.updated = historyFile[c.req.match] \cup {c.req.snap}
  BY <1>2, <1>3 DEF CallKnows, Running
<1>5. c.req.match \in Matches /\ c.req.snap \in Snapshot
      /\ c.req = [match |-> c.req.match, snap |-> c.req.snap]
  BY <1>4 DEF Request
<1>6. s \in historyFile[m] \/ (m = c.req.match /\ s = c.req.snap)
  BY <1>3, <1>4, <1>5 DEF BridgeInv, StoreInv, StoreTypeOK
<1>7. sync.pc = "ingest" /\ CurrentLine = c.req
  BY <1>2, <1>3 DEF BridgeInv, CallInv
<1> QED BY <1>5, <1>6, <1>7

LEMMA WriteKeepsOrder ==
  ASSUME OrderInv, WriteHistory(Jsonl), UNCHANGED jsonlVars
  PROVE  IngestInOrder'
<1> SUFFICES ASSUME edits = 0, NEW m \in Matches, NEW s \in historyFile'[m]
             PROVE  \E i \in 1 .. Len(cursorFile.prefix) + 1 :
                       i \in DOMAIN input /\ input[i] = [match |-> m, snap |-> s]
  BY DEF IngestInOrder, jsonlVars
<1>1. CASE s \in historyFile[m]
  BY <1>1 DEF OrderInv, IngestInOrder
<1>2. CASE sync.pc = "ingest" /\ CurrentLine = [match |-> m, snap |-> s]
  <2>1. /\ sync.count = Len(cursorFile.prefix) /\ sync.count + 1 \in 1 .. Len(sync.seen)
        /\ StartsAs(sync.seen, input)
    BY <1>2, Types DEF OrderInv, BridgeInv, PassInv, Behind, InputInv
  <2>2. sync.count + 1 \in 1 .. Len(input) /\ input[sync.count + 1] = CurrentLine
    BY <2>1, Types DEF StartsAs, OrderInv, BridgeInv, CurrentLine
  <2>3. sync.count + 1 \in DOMAIN input /\ sync.count + 1 \in 1 .. Len(cursorFile.prefix) + 1
    BY <2>1, <2>2, Types DEF OrderInv, BridgeInv
  <2> QED BY <1>2, <2>2, <2>3
<1> QED BY <1>1, <1>2, HistoryTakesTheLine DEF OrderInv

(* Neither the input nor the cursor falls behind what is in the histories. *)
LEMMA OrderStays ==
  ASSUME OrderInv, UNCHANGED historyFile, Len(cursorFile'.prefix) \in Nat,
         Len(cursorFile'.prefix) >= Len(cursorFile.prefix),
         input' \in Seq(Lines), edits' = 0 => edits = 0 /\ StartsAs(input, input')
  PROVE  IngestInOrder'
<1> SUFFICES ASSUME edits' = 0, NEW m \in Matches, NEW s \in historyFile[m]
             PROVE  \E i \in 1 .. Len(cursorFile'.prefix) + 1 :
                       i \in DOMAIN input' /\ input'[i] = [match |-> m, snap |-> s]
  BY DEF IngestInOrder
<1>1. PICK i \in 1 .. Len(cursorFile.prefix) + 1 :
         i \in DOMAIN input /\ input[i] = [match |-> m, snap |-> s]
  BY DEF OrderInv, IngestInOrder
<1>2. i \in DOMAIN input' /\ input'[i] = input[i]
  BY <1>1, Types DEF StartsAs, OrderInv, BridgeInv
<1>3. i \in 1 .. Len(cursorFile'.prefix) + 1
  BY <1>1, Types DEF OrderInv, BridgeInv
<1> QED BY <1>1, <1>2, <1>3

LEMMA CursorAdvances ==
  ASSUME BridgeInv, BridgeInv', PersistFirstCursor \/ PersistCursor \/ UNCHANGED cursorFile
  PROVE  Len(cursorFile'.prefix) \in Nat /\ Len(cursorFile'.prefix) >= Len(cursorFile.prefix)
<1>1. cursorFile'.prefix \in Seq(Lines) /\ cursorFile.prefix \in Seq(Lines)
  BY DEF BridgeInv, BridgeTypes, Cursor
<1>2. Len(cursorFile'.prefix) \in Nat /\ Len(cursorFile.prefix) \in Nat
  BY <1>1
<1>3. CASE PersistFirstCursor
  <2>1. cursorFile'.prefix = cursorFile.prefix
    BY <1>3 DEF PersistFirstCursor, BridgeInv, BridgeTypes, Cursor
  <2> QED BY <1>2, <2>1
<1>4. CASE PersistCursor
  <2>1. /\ cursorFile'.prefix = SubSeq(sync.seen, 1, sync.count)
        /\ sync.count \in 0 .. Len(sync.seen) /\ Len(cursorFile.prefix) + 1 = sync.count
    BY <1>4, Types DEF PersistCursor, BridgeInv, PassInv, Behind
  <2>2. Len(cursorFile'.prefix) = sync.count
    BY <2>1, Types, SubSeqStarts DEF BridgeInv
  <2> QED BY <1>2, <2>1, <2>2
<1>5. CASE UNCHANGED cursorFile
  BY <1>2, <1>5
<1> QED BY <1>3, <1>4, <1>5

LEMMA NextKeepsOrder == OrderInv /\ [JsonlNext]_jsonlAllVars => OrderInv'
<1> SUFFICES ASSUME OrderInv, [JsonlNext]_jsonlAllVars PROVE OrderInv'
  OBVIOUS
<1>1. BridgeInv' /\ Alone'
  BY NextKeeps, AloneKeeps DEF OrderInv
<1>2. BridgeInv /\ Len(input) \in Nat /\ input \in Seq(Lines)
  BY Types DEF OrderInv, BridgeInv
<1>3. CASE Producer
  <2>1. /\ UNCHANGED <<cursorFile, historyFile>> /\ input' \in Seq(Lines)
        /\ edits' = 0 => edits = 0 /\ StartsAs(input, input')
    BY <1>2, <1>3, ProducerAppends
  <2> QED BY <1>1, <1>2, <2>1, CursorAdvances, OrderStays DEF OrderInv
<1>4. ASSUME UNCHANGED <<historyFile, input, edits>>,
             PersistFirstCursor \/ PersistCursor \/ UNCHANGED cursorFile
      PROVE  OrderInv'
  <2>1. input' \in Seq(Lines) /\ StartsAs(input, input')
    BY <1>2, <1>4 DEF StartsAs
  <2> QED BY <1>1, <1>2, <1>4, <2>1, CursorAdvances, OrderStays DEF OrderInv
<1>5. CASE SyncStep
  BY <1>4, <1>5 DEF SyncStep, StartSync, PersistFirstCursor, RejectLine, IngestLine, Begin,
     LineIngested, LineFailed, Return, PersistCursor, WriteSummary, storeVars
<1>6. CASE JsonlStoreStep
  <2>1. CASE WriteHistory(Jsonl)
    BY <1>1, <1>6, <2>1, WriteKeepsOrder DEF JsonlStoreStep, OrderInv
  <2> QED BY <1>4, <1>6, <2>1 DEF JsonlStoreStep, LoadHistory, ScoreHistory, WriteSignal, jsonlVars
<1>7. CASE JsonlFault
  BY <1>4, <1>7 DEF JsonlFault, StageFails, BridgeWriteFails, CrashSync, WriteFails, storeVars, jsonlVars
<1>8. CASE ModelReplaced
  BY <1>4, <1>8 DEF ModelReplaced, ReplaceModel, jsonlVars
<1>9. CASE UNCHANGED jsonlAllVars
  BY <1>4, <1>9 DEF jsonlAllVars, storeVars, jsonlVars
<1> QED BY <1>3, <1>5, <1>6, <1>7, <1>8, <1>9 DEF JsonlNext

LEMMA InitOrder == JsonlInit => OrderInv
<1> SUFFICES ASSUME JsonlInit PROVE OrderInv
  OBVIOUS
<1>1. Alone
  BY IdleCallIsCall DEF JsonlInit, StoreInit, Alone
<1>2. IngestInOrder
  BY DEF IngestInOrder, JsonlInit, StoreInit
<1> QED BY <1>1, <1>2, InitHolds DEF OrderInv
-----------------------------------------------------------------------------
(* The bridge, its cursor, its input and the store stay in agreement, in   *)
(* any number of passes cut off anywhere.                                  *)
THEOREM BridgeInvariant == JsonlSpec => []OrderInv
<1>1. JsonlInit => OrderInv
  BY InitOrder
<1>2. OrderInv /\ [JsonlNext]_jsonlAllVars => OrderInv'
  BY NextKeepsOrder
<1> QED BY <1>1, <1>2, PTL DEF JsonlSpec

LEMMA PrefixIsIngested ==
  ASSUME BridgeInv
  PROVE  CursorIngested
  BY MalformedIsNoRequest DEF BridgeInv, PrefixIngested, Committed, CursorIngested

(* A pass may be cut off anywhere and the next one continues at the        *)
(* cursor: every line behind the cursor is a request whose snapshot is in  *)
(* the history of its match, and no line more than one past it is.         *)
THEOREM LinesAreTakenInOrder == JsonlSpec => []LinesTakenInOrder
<1>1. OrderInv => LinesTakenInOrder
  <2> SUFFICES ASSUME OrderInv PROVE LinesTakenInOrder
    OBVIOUS
  <2>1. JsonlTypeOK /\ IngestInOrder
    BY DEF OrderInv, BridgeInv, StoreInv, BridgeTypes, JsonlTypeOK
  <2>2. CursorIngested
    BY PrefixIsIngested DEF OrderInv
  <2> QED BY <2>1, <2>2 DEF LinesTakenInOrder
<1> QED BY <1>1, BridgeInvariant, PTL

(* A pass that reports success has left a cursor and a summary of it.      *)
THEOREM SuccessesAreSummarised == JsonlSpec => []SuccessIsSummarised
<1>1. OrderInv => SuccessIsSummarised
  BY DEF OrderInv, BridgeInv
<1> QED BY <1>1, BridgeInvariant, PTL
=============================================================================
