--------------------------- MODULE AutopilotProofs --------------------------
(***************************************************************************)
(* The book of paper bets stays coherent for any number of commands,       *)
(* settlers, matches, offers and files, and implements BetLedger.  The     *)
(* argument is over the bets table and the settlers alone: of the steps of *)
(* the autopilot only PlaceBet touches them, and it adds a fresh row.      *)
(* More arguments follow: sessions are closed; rows refer to rows that are *)
(* there; imports leave what they were asked for; scores are those of what *)
(* was heard; and bets stay within the caps of their pass.                 *)
(***************************************************************************)
EXTENDS Autopilot, DataLemmas

(* A row of the bets table is one of the forms the code writes.            *)
RowOK(row) ==
  /\ row.status # "settled" => row.result = "unknown" /\ row.profit = "zero"
  /\ row.status = "settled" => row.result \in Outcomes /\ row.profit = ProfitUnits(row.result)

(* A settler that has read a bet is about to write a good row for it.      *)
ReadIsGood(p) ==
  settler[p].pc = "update" =>
    /\ settler[p].rows # <<>>
    /\ Head(settler[p].rows).bet \in Recorded
    /\ Head(settler[p].rows).outcome # "invalid"

BookInv ==
  /\ bets \in [Bets -> BetRow]
  /\ settler \in [Settlers -> Settler]
  /\ \A b \in Bets : RowOK(bets[b])
  /\ \A p \in Settlers : ReadIsGood(p)

LEMMA ProfitIsProfit ==
  ASSUME NEW o \in Outcomes
  PROVE  ProfitUnits(o) \in {"zero", "gain", "stake lost"}
  BY DEF ProfitUnits, Outcomes

LEMMA InitHolds == AutopilotInit => BookInv
<1> SUFFICES ASSUME AutopilotInit PROVE BookInv
  OBVIOUS
<1>1. NoBet \in BetRow /\ RowOK(NoBet)
  BY DEF NoBet, BetRow, RowOK
<1>2. IdleSettler \in Settler /\ IdleSettler.pc # "update"
  <2>1. <<>> \in Seq(Row) OBVIOUS
  <2> QED BY <2>1 DEF IdleSettler, Settler
<1> QED BY <1>1, <1>2 DEF AutopilotInit, SettlementInit, BookInv, ReadIsGood

(* Only bets that are already recorded are replaced, by recorded ones.     *)
LEMMA SettlersKeepReading ==
  ASSUME BookInv, UNCHANGED settler, Recorded \subseteq Recorded'
  PROVE  \A p \in Settlers : ReadIsGood(p)'
  BY DEF BookInv, ReadIsGood

LEMMA SaveBetKeeps ==
  ASSUME BookInv, NEW b, SaveBet(b)
  PROVE  BookInv'
<1>1. PlacedBet \in BetRow /\ RowOK(PlacedBet)
  BY DEF PlacedBet, NoBet, BetRow, RowOK
<1>2. bets' \in [Bets -> BetRow] /\ \A x \in Bets : RowOK(bets[x])'
  BY <1>1 DEF SaveBet, BookInv, RowOK
<1>3. Recorded \subseteq Recorded'
  BY DEF SaveBet, BookInv, Recorded, PlacedBet, NoBet
<1>4. settler' \in [Settlers -> Settler] /\ UNCHANGED settler
  BY DEF SaveBet, BookInv
<1> QED BY <1>2, <1>3, <1>4, SettlersKeepReading DEF BookInv

(* A step of a settler that only moves through its file.                   *)
LEMMA SettlerMoves ==
  ASSUME BookInv, UNCHANGED bets, NEW p \in Settlers, NEW r \in Settler,
         settler' = [settler EXCEPT ![p] = r],
         r.pc = "update" => /\ r.rows # <<>>
                            /\ Head(r.rows).bet \in Recorded
                            /\ Head(r.rows).outcome # "invalid"
  PROVE  BookInv'
<1>1. settler' \in [Settlers -> Settler]
  BY DEF BookInv
<1>2. \A q \in Settlers : ReadIsGood(q)'
  BY DEF BookInv, ReadIsGood, Recorded
<1> QED BY <1>1, <1>2 DEF BookInv

LEMMA UpdateBetKeeps ==
  ASSUME BookInv, NEW p \in Settlers, UpdateBet(p)
  PROVE  BookInv'
<1> DEFINE row == Head(settler[p].rows)
           new == [status |-> "settled", result |-> row.outcome,
                   profit |-> ProfitUnits(row.outcome)]
<1>1. row \in Row /\ row.outcome \in Outcomes /\ Tail(settler[p].rows) \in Seq(Row)
  <2>1. settler[p].pc = "update" /\ settler[p] \in Settler
    BY DEF BookInv, UpdateBet
  <2>2. settler[p].rows \in Seq(Row) /\ settler[p].rows # <<>> /\ row.outcome # "invalid"
    BY <2>1 DEF BookInv, ReadIsGood, Settler
  <2>3. row \in Row /\ Tail(settler[p].rows) \in Seq(Row)
    BY <2>2
  <2> QED BY <2>2, <2>3 DEF Row
<1>2. new \in BetRow /\ RowOK(new)
  BY <1>1, ProfitIsProfit DEF BetRow, RowOK
<1>3. bets' = [bets EXCEPT ![row.bet] = new]
  BY DEF UpdateBet
<1>4. settler' = [settler EXCEPT ![p] = [settler[p] EXCEPT !.pc = "row", !.rows = Tail(settler[p].rows)]]
  BY DEF UpdateBet
<1> HIDE DEF row, new
<1>5. bets' \in [Bets -> BetRow] /\ \A x \in Bets : RowOK(bets[x])'
  BY <1>2, <1>3 DEF BookInv, RowOK
<1>6. Recorded \subseteq Recorded'
  BY <1>3 DEF BookInv, Recorded, new
<1>7. settler' \in [Settlers -> Settler] /\ settler'[p].pc # "update"
  BY <1>1, <1>4 DEF BookInv, Settler
<1>8. \A q \in Settlers : ReadIsGood(q)'
  BY <1>4, <1>6, <1>7 DEF BookInv, ReadIsGood
<1> QED BY <1>5, <1>7, <1>8 DEF BookInv

LEMMA StartImportKeeps ==
  ASSUME BookInv, NEW p \in Settlers, NEW rows \in Files, StartImport(p, rows)
  PROVE  BookInv'
<1> DEFINE r == [IdleSettler EXCEPT !.pc = "row", !.rows = rows]
<1>1. rows \in Seq(Row)
  BY FilesAreRows
<1>2. r \in Settler /\ r.pc = "row"
  BY <1>1 DEF IdleSettler, Settler
<1>3. settler' = [settler EXCEPT ![p] = r] /\ UNCHANGED bets
  BY DEF StartImport
<1> HIDE DEF r
<1> QED BY <1>2, <1>3, SettlerMoves

LEMMA SkipRowKeeps ==
  ASSUME BookInv, NEW p \in Settlers, SkipRow(p)
  PROVE  BookInv'
<1> DEFINE r == [settler[p] EXCEPT !.rows = Tail(settler[p].rows)]
<1>1. settler[p] \in Settler /\ settler[p].pc = "row" /\ settler[p].rows # <<>>
  BY DEF BookInv, SkipRow
<1>2. settler[p].rows \in Seq(Row)
  BY <1>1 DEF Settler
<1>3. Tail(settler[p].rows) \in Seq(Row)
  BY <1>1, <1>2
<1>4. r \in Settler /\ r.pc = "row"
  BY <1>1, <1>3 DEF Settler
<1>5. settler' = [settler EXCEPT ![p] = r] /\ UNCHANGED bets
  BY DEF SkipRow
<1> HIDE DEF r
<1> QED BY <1>4, <1>5, SettlerMoves

LEMMA ReadBetKeeps ==
  ASSUME BookInv, NEW p \in Settlers, ReadBet(p)
  PROVE  BookInv'
<1> DEFINE r == [settler[p] EXCEPT !.pc = "update"]
<1>1. settler[p] \in Settler
  BY DEF BookInv
<1>2. r \in Settler /\ r.rows = settler[p].rows
  BY <1>1 DEF Settler
<1>3. settler' = [settler EXCEPT ![p] = r] /\ UNCHANGED bets
  BY DEF ReadBet
<1>4. /\ settler[p].rows # <<>>
      /\ Head(settler[p].rows).bet \in Recorded
      /\ Head(settler[p].rows).outcome # "invalid"
  BY DEF ReadBet
<1> HIDE DEF r
<1> QED BY <1>2, <1>3, <1>4, SettlerMoves

LEMMA ImportEndsKeeps ==
  ASSUME BookInv, NEW p \in Settlers, FinishImport(p) \/ ImportAborts(p)
  PROVE  BookInv'
<1>1. settler[p] \in Settler
  BY DEF BookInv
<1>2. CASE FinishImport(p)
  <2> DEFINE r == [settler[p] EXCEPT !.pc = "idle", !.exit = "done"]
  <2>1. r \in Settler /\ r.pc = "idle"
    BY <1>1 DEF Settler
  <2>2. settler' = [settler EXCEPT ![p] = r] /\ UNCHANGED bets
    BY <1>2 DEF FinishImport
  <2> HIDE DEF r
  <2> QED BY <2>1, <2>2, SettlerMoves
<1>3. CASE ImportAborts(p)
  <2> DEFINE r == [settler[p] EXCEPT !.pc = "idle", !.rows = <<>>, !.exit = "error"]
  <2>1. r \in Settler /\ r.pc = "idle"
    <3>1. <<>> \in Seq(Row) OBVIOUS
    <3> QED BY <1>1, <3>1 DEF Settler
  <2>2. settler' = [settler EXCEPT ![p] = r] /\ UNCHANGED bets
    BY <1>3 DEF ImportAborts
  <2> HIDE DEF r
  <2> QED BY <2>1, <2>2, SettlerMoves
<1> QED BY <1>2, <1>3

(* A step of a command leaves the book alone or adds a fresh row to it.    *)
LEMMA CommandSteps ==
  ASSUME NEW s \in Runs,
         (\E mode \in Modes : OpenSession(s, mode)) \/ Step(s) \/ Fault(s)
  PROVE  UNCHANGED settlementVars \/ \E b : SaveBet(b)
<1>1. CASE \E mode \in Modes : OpenSession(s, mode)
  BY <1>1 DEF OpenSession
<1>2. CASE PlaceBet(s)
  BY <1>2 DEF PlaceBet
<1>3. CASE LoadModel(s) \/ BeginPass(s) \/ SaveMatch(s) \/ SaveSpeech(s) \/ SaveOdds(s)
  BY <1>3 DEF LoadModel, BeginPass, SaveMatch, SaveSpeech, SaveOdds
<1>4. CASE ScoreCandidates(s) \/ SaveCandidate(s) \/ Select(s)
  BY <1>4 DEF ScoreCandidates, SaveCandidate, Select
<1>5. CASE NextMatch(s) \/ EndPass(s) \/ CloseSession(s)
  BY <1>5 DEF NextMatch, EndPass, CloseSession
<1>6. CASE Fault(s)
  BY <1>6 DEF Fault, PassFails, Kill
<1> QED BY <1>1, <1>2, <1>3, <1>4, <1>5, <1>6 DEF Step

LEMMA StepKeeps == BookInv /\ [AutopilotNext]_autopilotAllVars => BookInv'
<1> SUFFICES ASSUME BookInv, [AutopilotNext]_autopilotAllVars PROVE BookInv'
  OBVIOUS
<1>1. CASE UNCHANGED settlementVars
  BY <1>1 DEF settlementVars, BookInv, ReadIsGood, Recorded
<1>2. ASSUME NEW s \in Runs,
             (\E mode \in Modes : OpenSession(s, mode)) \/ Step(s) \/ Fault(s)
      PROVE  BookInv'
  BY <1>1, <1>2, CommandSteps, SaveBetKeeps
<1>3. ASSUME NEW p \in Settlers, SettlerStep(p)
      PROVE  BookInv'
  BY <1>3, StartImportKeeps, SkipRowKeeps, ReadBetKeeps, UpdateBetKeeps, ImportEndsKeeps
     DEF SettlerStep
<1>4. CASE UNCHANGED autopilotAllVars
  BY <1>1, <1>4 DEF autopilotAllVars
<1> QED BY <1>2, <1>3, <1>4 DEF AutopilotNext

THEOREM BookInvariant == AutopilotSpec => []BookInv
  BY InitHolds, StepKeeps, PTL DEF AutopilotSpec

(* A report taken at any moment adds up, for any number of processes.      *)
THEOREM ReportsAddUp == AutopilotSpec => []ReportAddsUp
<1>1. BookInv => ReportAddsUp
  <2> SUFFICES ASSUME BookInv PROVE ReportAddsUp
    OBVIOUS
  <2>1. \A b \in Recorded : bets[b] \in BetRow /\ RowOK(bets[b])
    BY DEF BookInv, Recorded
  <2>2. \A b \in Recorded : bets[b].status \in {"placed", "settled"}
    BY <2>1 DEF Recorded, BetRow
  <2>3. \A b \in Recorded : bets[b].status = "settled" <=> bets[b].result \in Outcomes
    BY <2>1 DEF RowOK, BetRow, Outcomes
  <2>4. OpenBets(Recorded) = Recorded \ SettledBets(Recorded)
    BY <2>3 DEF OpenBets, SettledBets, Outcomes
  <2>5. SettledBets(Recorded) = UNION {WithResult(Recorded, o) : o \in Outcomes}
    BY <2>3 DEF WithResult, SettledBets
  <2>6. \A b \in SettledBets(Recorded) : bets[b].profit = ProfitUnits(bets[b].result)
    BY <2>1 DEF RowOK, SettledBets
  <2>7. \A b \in OpenBets(Recorded) : bets[b].profit = "zero"
    BY <2>1, <2>4 DEF RowOK, SettledBets
  <2> QED BY <2>4, <2>5, <2>6, <2>7 DEF ReportAddsUp
<1> QED BY <1>1, BookInvariant, PTL

(* What BetLedger sees of a row.                                           *)
Seen(row) ==
  IF row.status = "none" THEN "none" ELSE IF row.status = "placed" THEN "open" ELSE row.result

Seens == [b \in Bets |-> Seen(bets[b])]

LEMMA LedgerIsSeen ==
  /\ Ledger!Init <=> Seens = [b \in Bets |-> "none"]
  /\ \A b, o : Ledger!Settle(b, o) <=> Seens[b] # "none" /\ Seens' = [Seens EXCEPT ![b] = o]
  /\ \A b : Ledger!Place(b) <=> Seens[b] = "none" /\ Seens' = [Seens EXCEPT ![b] = "open"]
  BY DEF Ledger!Init, Ledger!Settle, Ledger!Place, Seens, Seen

LEMMA SaveBetPlaces ==
  ASSUME BookInv, NEW b, SaveBet(b)
  PROVE  UNCHANGED Seens \/ (b \in Bets /\ Ledger!Place(b))
<1>1. CASE b \notin Bets
  BY <1>1 DEF SaveBet, BookInv, Seens, Seen
<1>2. CASE b \in Bets
  <2>1. Seens[b] = "none"
    BY <1>2 DEF SaveBet, Recorded, Seens, Seen
  <2>2. Seens' = [Seens EXCEPT ![b] = "open"]
    BY <1>2 DEF SaveBet, BookInv, Seens, Seen, PlacedBet, NoBet
  <2> QED BY <1>2, <2>1, <2>2, LedgerIsSeen
<1> QED BY <1>1, <1>2

LEMMA UpdateBetSettles ==
  ASSUME BookInv, NEW p \in Settlers, UpdateBet(p)
  PROVE  \E b \in Bets : \E o \in Outcomes : Ledger!Settle(b, o)
<1> DEFINE row == Head(settler[p].rows)
<1>1. settler[p] \in Settler /\ settler[p].rows # <<>>
  BY DEF BookInv, ReadIsGood, UpdateBet
<1>2. row \in Row
  BY <1>1 DEF Settler
<1>3. row.bet \in Recorded /\ row.bet \in Bets /\ row.outcome \in Outcomes
  BY <1>2 DEF BookInv, ReadIsGood, UpdateBet, Row
<1>4. bets' = [bets EXCEPT ![row.bet] =
                 [status |-> "settled", result |-> row.outcome,
                  profit |-> ProfitUnits(row.outcome)]]
  BY DEF UpdateBet
<1> HIDE DEF row
<1>5. Seens[row.bet] # "none"
  <2>1. bets[row.bet] \in BetRow /\ RowOK(bets[row.bet]) /\ bets[row.bet].status # "none"
    BY <1>3 DEF BookInv, Recorded
  <2> QED BY <1>3, <2>1 DEF Seens, Seen, RowOK, Outcomes
<1>6. Seens' = [Seens EXCEPT ![row.bet] = row.outcome]
  BY <1>3, <1>4 DEF BookInv, Seens, Seen
<1> QED BY <1>3, <1>5, <1>6, LedgerIsSeen

LEMMA StepRefines ==
  BookInv /\ [AutopilotNext]_autopilotAllVars => [Ledger!Next]_Seens
<1> SUFFICES ASSUME BookInv, [AutopilotNext]_autopilotAllVars PROVE [Ledger!Next]_Seens
  OBVIOUS
<1>1. ASSUME UNCHANGED bets PROVE UNCHANGED Seens
  BY <1>1 DEF Seens, Seen
<1>2. ASSUME NEW s \in Runs,
             (\E mode \in Modes : OpenSession(s, mode)) \/ Step(s) \/ Fault(s)
      PROVE  [Ledger!Next]_Seens
  BY <1>1, <1>2, CommandSteps, SaveBetPlaces DEF Ledger!Next, settlementVars
<1>3. ASSUME NEW p \in Settlers, SettlerStep(p)
      PROVE  [Ledger!Next]_Seens
  <2>1. CASE UpdateBet(p)
    BY <2>1, UpdateBetSettles DEF Ledger!Next
  <2>2. CASE ~UpdateBet(p)
    BY <1>1, <1>3, <2>2
       DEF SettlerStep, StartImport, SkipRow, ReadBet, FinishImport, ImportAborts
  <2> QED BY <2>1, <2>2
<1>4. CASE UNCHANGED autopilotAllVars
  BY <1>1, <1>4 DEF autopilotAllVars, settlementVars
<1> QED BY <1>2, <1>3, <1>4 DEF AutopilotNext

(* Commands, settlers and faults in any number implement the ledger: a bet *)
(* is recorded once, then settled, never removed and never opened again.   *)
THEOREM BookImplementsLedger == AutopilotSpec => ImplementsLedger
<1>1. AutopilotInit => Ledger!Init
  BY LedgerIsSeen DEF AutopilotInit, SettlementInit, Seens, Seen, NoBet
<1>2. BookInv /\ [AutopilotNext]_autopilotAllVars
        => [Ledger!Next]_[b \in Bets |->
              IF bets[b].status = "none" THEN "none"
              ELSE IF bets[b].status = "placed" THEN "open" ELSE bets[b].result]
  BY StepRefines DEF Seens, Seen
<1> QED BY <1>1, <1>2, BookInvariant, PTL
        DEF AutopilotSpec, ImplementsLedger, Ledger!Spec
-----------------------------------------------------------------------------
(* Sessions are closed.  The argument looks at the control part of a       *)
(* process alone: it has the fields of Run, and it begins its first pass   *)
(* where the try begins.                                                   *)
Fields == {"pc", "mode", "pass", "speech", "queue", "todo", "cands", "exit"}

ClosedOnExit(s) ==
  /\ DOMAIN run[s] = Fields
  /\ run[s].pc \in {"off", "model"} => run[s].pass = 0
  /\ (run[s].pc = "gone" /\ run[s].exit # "killed" /\ run[s].pass > 0)
       => sessions[s] = "ended"

CloseInv ==
  /\ run = [s \in Runs |-> run[s]]
  /\ sessions = [s \in Runs |-> sessions[s]]
  /\ \A s \in Runs : ClosedOnExit(s)

LEMMA CloseInit == AutopilotInit => CloseInv
  BY DEF AutopilotInit, NewRun, CloseInv, ClosedOnExit, Fields

(* Every step of a command replaces its own process, and at most its own   *)
(* session.                                                                *)
LEMMA CloseFrame ==
  ASSUME CloseInv, NEW s \in Runs, NEW r, NEW v,
         run' = [run EXCEPT ![s] = r], sessions' = [sessions EXCEPT ![s] = v],
         DOMAIN r = Fields,
         r.pc \in {"off", "model"} => r.pass = 0,
         (r.pc = "gone" /\ r.exit # "killed" /\ r.pass > 0) => v = "ended"
  PROVE  CloseInv'
<1>1. run' = [q \in Runs |-> run'[q]] /\ sessions' = [q \in Runs |-> sessions'[q]]
  BY DEF CloseInv
<1>2. run'[s] = r /\ sessions'[s] = v
  BY DEF CloseInv
<1>3. \A q \in Runs \ {s} : run'[q] = run[q] /\ sessions'[q] = sessions[q]
  BY DEF CloseInv
<1>4. ClosedOnExit(s)'
  BY <1>2 DEF ClosedOnExit
<1>5. \A q \in Runs \ {s} : ClosedOnExit(q)'
  BY <1>3 DEF ClosedOnExit, CloseInv
<1> QED BY <1>1, <1>4, <1>5 DEF CloseInv

(* What a step within the passes does to its process.                      *)
StaysIn(s) ==
  /\ UNCHANGED sessions
  /\ run' = [q \in Runs |-> run'[q]]
  /\ \A q \in Runs \ {s} : run'[q] = run[q]
  /\ DOMAIN run'[s] = Fields
  /\ run'[s].pc \in LoopStages \cup {"stop"}

LEMMA StaysKeeps ==
  ASSUME CloseInv, NEW s \in Runs, StaysIn(s)
  PROVE  CloseInv'
<1>1. run' = [run EXCEPT ![s] = run'[s]]
  BY DEF StaysIn, CloseInv
<1>2. sessions' = [sessions EXCEPT ![s] = sessions[s]]
  BY DEF StaysIn, CloseInv
<1>3. run'[s].pc \notin {"off", "model", "gone"}
  BY DEF StaysIn, LoopStages
<1> QED BY <1>1, <1>2, <1>3, CloseFrame DEF StaysIn

LEMMA SavesStay ==
  ASSUME CloseInv, NEW s \in Runs,
         SaveMatch(s) \/ SaveSpeech(s) \/ SaveOdds(s) \/ SaveCandidate(s)
  PROVE  StaysIn(s)
<1>1. DOMAIN run = Runs /\ DOMAIN run[s] = Fields
  BY DEF CloseInv, ClosedOnExit
<1>2. CASE SaveMatch(s)
  BY <1>1, <1>2 DEF SaveMatch, StaysIn, Fields, LoopStages
<1>3. CASE SaveSpeech(s)
  BY <1>1, <1>3 DEF SaveSpeech, StaysIn, Fields, LoopStages
<1>4. CASE SaveOdds(s)
  BY <1>1, <1>4 DEF SaveOdds, StaysIn, Fields, LoopStages
<1>5. CASE SaveCandidate(s)
  BY <1>1, <1>5 DEF SaveCandidate, StaysIn, Fields, LoopStages
<1> QED BY <1>2, <1>3, <1>4, <1>5

LEMMA OthersStay ==
  ASSUME CloseInv, NEW s \in Runs,
         \/ BeginPass(s) \/ ScoreCandidates(s) \/ Select(s)
         \/ PlaceBet(s) \/ NextMatch(s) \/ EndPass(s) \/ PassFails(s)
  PROVE  StaysIn(s)
<1>1. DOMAIN run = Runs /\ DOMAIN run[s] = Fields
  BY DEF CloseInv, ClosedOnExit
<1>2. CASE BeginPass(s)
  BY <1>1, <1>2 DEF BeginPass, StaysIn, Fields, LoopStages
<1>3. CASE ScoreCandidates(s)
  BY <1>1, <1>3 DEF ScoreCandidates, StaysIn, Fields, LoopStages
<1>4. CASE Select(s)
  BY <1>1, <1>4 DEF Select, StaysIn, Fields, LoopStages
<1>5. CASE PlaceBet(s)
  BY <1>1, <1>5 DEF PlaceBet, StaysIn, Fields, LoopStages
<1>6. CASE NextMatch(s)
  BY <1>1, <1>6 DEF NextMatch, StaysIn, Fields, LoopStages
<1>7. CASE EndPass(s)
  BY <1>1, <1>7 DEF EndPass, StaysIn, Fields, LoopStages
<1>8. CASE PassFails(s)
  BY <1>1, <1>8 DEF PassFails, StaysIn, Fields, LoopStages
<1> QED BY <1>2, <1>3, <1>4, <1>5, <1>6, <1>7, <1>8

LEMMA OpenKeeps ==
  ASSUME CloseInv, NEW s \in Runs, NEW mode, OpenSession(s, mode)
  PROVE  CloseInv'
<1> DEFINE opened == [run[s] EXCEPT !.pc = "model", !.mode = mode]
           refused == Gone(run[s], "failed")
<1>1. DOMAIN run[s] = Fields /\ run[s].pc = "off" /\ run[s].pass = 0
  BY DEF CloseInv, ClosedOnExit, OpenSession
<1>2. CASE sessions' = [sessions EXCEPT ![s] = "active"]
           /\ run' = [run EXCEPT ![s].pc = "model", ![s].mode = mode]
  <2>1. run' = [run EXCEPT ![s] = opened]
    BY <1>2
  <2>2. DOMAIN opened = Fields /\ opened.pc = "model" /\ opened.pass = 0
    BY <1>1 DEF Fields
  <2> HIDE DEF opened
  <2> QED BY <1>2, <2>1, <2>2, CloseFrame
<1>3. CASE UNCHANGED sessions /\ run' = [run EXCEPT ![s] = refused]
  <2>1. sessions' = [sessions EXCEPT ![s] = sessions[s]]
    BY <1>3 DEF CloseInv
  <2>2. DOMAIN refused = Fields /\ refused.pc = "gone" /\ ~(refused.pass > 0)
    BY <1>1 DEF Gone, NewRun, Fields
  <2> HIDE DEF refused
  <2> QED BY <1>3, <2>1, <2>2, CloseFrame
<1> QED BY <1>2, <1>3 DEF OpenSession

LEMMA LoadKeeps ==
  ASSUME CloseInv, NEW s \in Runs, LoadModel(s)
  PROVE  CloseInv'
<1> DEFINE loaded == [run[s] EXCEPT !.pc = "pass", !.pass = 1]
           failed == [run[s] EXCEPT !.pc = "gone", !.exit = "failed"]
<1>1. DOMAIN run[s] = Fields /\ run[s].pass = 0
  BY DEF CloseInv, ClosedOnExit, LoadModel
<1>2. sessions' = [sessions EXCEPT ![s] = sessions[s]]
  BY DEF CloseInv, LoadModel
<1>3. CASE run' = [run EXCEPT ![s].pc = "pass", ![s].pass = 1]
  <2>1. run' = [run EXCEPT ![s] = loaded]
    BY <1>3
  <2>2. DOMAIN loaded = Fields /\ loaded.pc = "pass"
    BY <1>1 DEF Fields
  <2> HIDE DEF loaded
  <2> QED BY <1>2, <2>1, <2>2, CloseFrame
<1>4. CASE run' = [run EXCEPT ![s].pc = "gone", ![s].exit = "failed"]
  <2>1. run' = [run EXCEPT ![s] = failed]
    BY <1>4
  <2>2. DOMAIN failed = Fields /\ failed.pc = "gone" /\ ~(failed.pass > 0)
    BY <1>1 DEF Fields
  <2> HIDE DEF failed
  <2> QED BY <1>2, <2>1, <2>2, CloseFrame
<1> QED BY <1>3, <1>4 DEF LoadModel

LEMMA EndKeeps ==
  ASSUME CloseInv, NEW s \in Runs, CloseSession(s) \/ Kill(s)
  PROVE  CloseInv'
<1> DEFINE ended == Gone(run[s], run[s].exit)
           killed == Gone(run[s], "killed")
<1>1. CASE CloseSession(s)
  <2>1. run' = [run EXCEPT ![s] = ended] /\ sessions' = [sessions EXCEPT ![s] = "ended"]
    BY <1>1 DEF CloseSession
  <2>2. DOMAIN ended = Fields /\ ended.pc = "gone"
    BY DEF Gone, NewRun, Fields
  <2> HIDE DEF ended
  <2> QED BY <2>1, <2>2, CloseFrame
<1>2. CASE Kill(s)
  <2>1. run' = [run EXCEPT ![s] = killed] /\ sessions' = [sessions EXCEPT ![s] = sessions[s]]
    BY <1>2 DEF Kill, CloseInv
  <2>2. DOMAIN killed = Fields /\ killed.pc = "gone" /\ killed.exit = "killed"
    BY DEF Gone, NewRun, Fields
  <2> HIDE DEF killed
  <2> QED BY <2>1, <2>2, CloseFrame
<1> QED BY <1>1, <1>2

LEMMA CloseStep == CloseInv /\ [AutopilotNext]_autopilotAllVars => CloseInv'
<1> SUFFICES ASSUME CloseInv, [AutopilotNext]_autopilotAllVars PROVE CloseInv'
  OBVIOUS
<1>1. CASE UNCHANGED <<run, sessions>>
  BY <1>1 DEF CloseInv, ClosedOnExit
<1>2. ASSUME NEW s \in Runs, NEW mode \in Modes, OpenSession(s, mode)
      PROVE  CloseInv'
  BY <1>2, OpenKeeps
<1>3. ASSUME NEW s \in Runs, Step(s) \/ Fault(s)
      PROVE  CloseInv'
  BY <1>3, LoadKeeps, EndKeeps, SavesStay, OthersStay, StaysKeeps DEF Step, Fault
<1>4. ASSUME NEW p \in Settlers, SettlerStep(p) /\ UNCHANGED autopilotVars
      PROVE  CloseInv'
  BY <1>1, <1>4 DEF autopilotVars
<1>5. CASE UNCHANGED autopilotAllVars
  BY <1>1, <1>5 DEF autopilotAllVars, autopilotVars
<1> QED BY <1>2, <1>3, <1>4, <1>5 DEF AutopilotNext

(* A command that entered its passes leaves its session ended unless it    *)
(* was killed, for any number of commands, passes and failures.            *)
THEOREM SessionsAreClosed == AutopilotSpec => []SessionClosed
<1>1. CloseInv => SessionClosed
  BY DEF CloseInv, ClosedOnExit, SessionClosed
<1> QED BY CloseInit, CloseStep, <1>1, PTL DEF AutopilotSpec
-----------------------------------------------------------------------------
(* Rows refer to rows that are there.  While a match is worked on, what the *)
(* stages before the present one had to save has been saved.               *)
Saving == {"speech", "odds", "score", "candidates"}

OddsSaved(s) == \A k \in DOMAIN OfferList : <<s, Current(s), OfferList[k]>> \in oddsRows

Backed(s) ==
  /\ DOMAIN run[s] = Fields
  /\ run[s].pc \notin {"off", "gone"} => sessions[s] # "none"
  /\ run[s].pc \in Saving => <<s, Current(s)>> \in matchRows
  /\ run[s].pc = "odds" =>
       /\ run[s].todo \in Nat
       /\ \A k \in 1 .. run[s].todo : <<s, Current(s), OfferList[k]>> \in oddsRows
  /\ run[s].pc \in {"score", "candidates"} => OddsSaved(s)
  /\ run[s].pc = "candidates" =>
       \A k \in DOMAIN run[s].cands :
         LET c == run[s].cands[k]
         IN  /\ \E j \in DOMAIN OfferList : c.offer = OfferList[j]
             /\ c.decision = Decision(c.score)

RefInv ==
  /\ run = [s \in Runs |-> run[s]]
  /\ sessions = [s \in Runs |-> sessions[s]]
  /\ \A m \in matchRows : m[1] \in Runs
  /\ RowsResolve /\ DecisionsFollow
  /\ \A s \in Runs : Backed(s)

LEMMA RefInit == AutopilotInit => RefInv
  BY DEF AutopilotInit, NewRun, RefInv, RowsResolve, DecisionsFollow, Backed, Fields, Saving

(* A step of a command: rows are only added, and a session row stays.       *)
OwnStep(s) ==
  /\ run' = [q \in Runs |-> run'[q]] /\ sessions' = [q \in Runs |-> sessions'[q]]
  /\ \A q \in Runs \ {s} : run'[q] = run[q] /\ sessions'[q] = sessions[q]
  /\ sessions[s] # "none" => sessions'[s] # "none"
  /\ matchRows \subseteq matchRows' /\ oddsRows \subseteq oddsRows'
  /\ DOMAIN run'[s] = Fields
  /\ run'[s].pc \notin {"off", "gone"} => sessions'[s] # "none"

LEMMA OthersAreBacked ==
  ASSUME RefInv, NEW s \in Runs, OwnStep(s), NEW q \in Runs \ {s}
  PROVE  Backed(q)'
<1>1. run'[q] = run[q] /\ sessions'[q] = sessions[q] /\ Backed(q)
  BY DEF OwnStep, RefInv
<1>2. matchRows \subseteq matchRows' /\ oddsRows \subseteq oddsRows'
  BY DEF OwnStep
<1> QED BY <1>1, <1>2 DEF Backed, OddsSaved, Current, Saving

LEMMA SessionsRemain ==
  ASSUME RefInv, NEW s \in Runs, OwnStep(s)
  PROVE  \A q \in Runs : sessions[q] # "none" => sessions'[q] # "none"
  BY DEF OwnStep

(* A step that saves nothing and leaves the stages that save.               *)
LEMMA QuietKeeps ==
  ASSUME RefInv, NEW s \in Runs, OwnStep(s), run'[s].pc \notin Saving,
         UNCHANGED <<matchRows, speechRows, oddsRows, candidates>>
  PROVE  RefInv'
<1>1. \A q \in Runs \ {s} : Backed(q)'
  BY OthersAreBacked
<1>2. Backed(s)'
  BY DEF Backed, OwnStep, Saving
<1>3. RowsResolve' /\ DecisionsFollow' /\ \A m \in matchRows' : m[1] \in Runs
  BY SessionsRemain DEF RefInv, RowsResolve, DecisionsFollow
<1> QED BY <1>1, <1>2, <1>3 DEF RefInv, OwnStep

LEMMA QuietSteps ==
  ASSUME RefInv, NEW s \in Runs,
         \/ \E mode : OpenSession(s, mode)
         \/ LoadModel(s) \/ BeginPass(s) \/ Select(s) \/ PlaceBet(s) \/ NextMatch(s)
         \/ EndPass(s) \/ PassFails(s) \/ CloseSession(s) \/ Kill(s)
  PROVE  /\ OwnStep(s) /\ run'[s].pc \notin Saving
         /\ UNCHANGED <<matchRows, speechRows, oddsRows, candidates>>
<1>1. /\ DOMAIN run = Runs /\ sessions = [q \in Runs |-> sessions[q]]
      /\ DOMAIN run[s] = Fields
  BY DEF RefInv, Backed
<1>2. run[s].pc \notin {"off", "gone"} => sessions[s] # "none"
  BY DEF RefInv, Backed
<1>3. \A exit : /\ DOMAIN Gone(run[s], exit) = Fields
                /\ Gone(run[s], exit).pc = "gone"
  BY DEF Gone, NewRun, Fields
<1>4. CASE \E mode : OpenSession(s, mode)
  BY <1>1, <1>3, <1>4 DEF OpenSession, OwnStep, Saving, Fields
<1>5. CASE LoadModel(s)
  BY <1>1, <1>2, <1>5 DEF LoadModel, OwnStep, Saving, Fields
<1>6. CASE BeginPass(s)
  BY <1>1, <1>2, <1>6 DEF BeginPass, OwnStep, Saving, Fields
<1>7. CASE Select(s)
  BY <1>1, <1>2, <1>7 DEF Select, OwnStep, Saving, Fields
<1>8. CASE PlaceBet(s)
  BY <1>1, <1>2, <1>8 DEF PlaceBet, OwnStep, Saving, Fields
<1>9. CASE NextMatch(s)
  BY <1>1, <1>2, <1>9 DEF NextMatch, OwnStep, Saving, Fields
<1>10. CASE EndPass(s)
  BY <1>1, <1>2, <1>10 DEF EndPass, OwnStep, Saving, Fields
<1>11. CASE PassFails(s)
  BY <1>1, <1>2, <1>11 DEF PassFails, OwnStep, Saving, Fields, LoopStages
<1>12. CASE CloseSession(s)
  BY <1>1, <1>3, <1>12 DEF CloseSession, OwnStep, Saving
<1>13. CASE Kill(s)
  BY <1>1, <1>3, <1>13 DEF Kill, OwnStep, Saving
<1> QED
  BY <1>4, <1>5, <1>6, <1>7, <1>8, <1>9, <1>10, <1>11, <1>12, <1>13

(* The stages that save.                                                    *)
LEMMA SaveMatchKeeps ==
  ASSUME RefInv, NEW s \in Runs, SaveMatch(s)
  PROVE  RefInv'
<1>1. DOMAIN run = Runs /\ DOMAIN sessions = Runs /\ Backed(s)
  BY DEF RefInv
<1>2. OwnStep(s)
  BY <1>1 DEF SaveMatch, OwnStep, RefInv, Backed, Fields
<1>3. Backed(s)'
  BY <1>1 DEF SaveMatch, Backed, Current, Fields
<1>4. sessions[s] # "none"
  BY <1>1 DEF Backed, SaveMatch
<1>5. RowsResolve' /\ DecisionsFollow' /\ \A m \in matchRows' : m[1] \in Runs
  BY <1>4 DEF SaveMatch, RefInv, RowsResolve, DecisionsFollow
<1> QED BY <1>2, <1>3, <1>5, OthersAreBacked DEF RefInv, OwnStep

LEMMA SaveSpeechKeeps ==
  ASSUME RefInv, NEW s \in Runs, SaveSpeech(s)
  PROVE  RefInv'
<1>1. DOMAIN run = Runs /\ DOMAIN sessions = Runs /\ Backed(s)
  BY DEF RefInv
<1>2. OwnStep(s)
  BY <1>1 DEF SaveSpeech, OwnStep, RefInv, Backed, Fields
<1>3. Backed(s)'
  BY <1>1 DEF SaveSpeech, Backed, Current, Fields, Saving
<1>4. <<s, Current(s)>> \in matchRows
  BY <1>1 DEF Backed, SaveSpeech, Saving
<1>5. RowsResolve' /\ DecisionsFollow' /\ \A m \in matchRows' : m[1] \in Runs
  BY <1>4 DEF SaveSpeech, RefInv, RowsResolve, DecisionsFollow
<1> QED BY <1>2, <1>3, <1>5, OthersAreBacked DEF RefInv, OwnStep

LEMMA SaveOddsKeeps ==
  ASSUME RefInv, NEW s \in Runs, SaveOdds(s)
  PROVE  RefInv'
<1>1. DOMAIN run = Runs /\ DOMAIN sessions = Runs /\ Backed(s)
  BY DEF RefInv
<1>2. OwnStep(s)
  BY <1>1 DEF SaveOdds, OwnStep, RefInv, Backed, Fields
<1>3. /\ <<s, Current(s)>> \in matchRows /\ run[s].todo \in Nat
      /\ \A k \in 1 .. run[s].todo : <<s, Current(s), OfferList[k]>> \in oddsRows
      /\ sessions[s] # "none" /\ DOMAIN run[s] = Fields /\ run[s].pc = "odds"
  BY <1>1 DEF Backed, SaveOdds, Saving
<1>4. RowsResolve' /\ DecisionsFollow' /\ \A m \in matchRows' : m[1] \in Runs
  BY <1>3 DEF SaveOdds, RefInv, RowsResolve, DecisionsFollow
<1>5. CASE run[s].todo + 1 \in DOMAIN OfferList
  <2>1. /\ oddsRows' = oddsRows \cup {<<s, Current(s), OfferList[run[s].todo + 1]>>}
        /\ run' = [run EXCEPT ![s].todo = run[s].todo + 1]
        /\ UNCHANGED <<sessions, matchRows>>
    BY <1>5 DEF SaveOdds
  <2>2. /\ run'[s].pc = "odds" /\ run'[s].todo = run[s].todo + 1
        /\ run'[s].queue = run[s].queue /\ DOMAIN run'[s] = Fields
    BY <1>1, <1>3, <2>1 DEF Fields
  <2>3. \A k \in 1 .. run'[s].todo : <<s, Current(s), OfferList[k]>> \in oddsRows'
    BY <1>3, <2>1, <2>2
  <2> QED BY <1>2, <1>3, <1>4, <2>1, <2>2, <2>3, OthersAreBacked
          DEF RefInv, OwnStep, Backed, Current
<1>6. CASE run[s].todo + 1 \notin DOMAIN OfferList
  <2>1. /\ run' = [run EXCEPT ![s].pc = "score", ![s].todo = 0]
        /\ UNCHANGED <<sessions, matchRows, oddsRows>>
    BY <1>6 DEF SaveOdds
  <2>2. /\ run'[s].pc = "score" /\ run'[s].queue = run[s].queue /\ DOMAIN run'[s] = Fields
    BY <1>1, <1>3, <2>1 DEF Fields
  <2>3. \A k \in DOMAIN OfferList : k \in 1 .. run[s].todo
    BY <1>3, <1>6, OfferListHasOffers
  <2> QED BY <1>2, <1>3, <1>4, <2>1, <2>2, <2>3, OthersAreBacked
          DEF RefInv, OwnStep, Backed, OddsSaved, Current
<1> QED BY <1>5, <1>6

LEMMA ScoreKeeps ==
  ASSUME RefInv, NEW s \in Runs, ScoreCandidates(s)
  PROVE  RefInv'
<1>1. DOMAIN run = Runs /\ DOMAIN sessions = Runs /\ Backed(s) /\ run[s].pc = "score"
  BY DEF RefInv, ScoreCandidates
<1>2. PICK ml : run' = [run EXCEPT ![s].pc = "candidates",
                          ![s].cands = [k \in DOMAIN OfferList |->
                                          Scored(OfferList[k], run[s].speech, ml[k])]]
  BY DEF ScoreCandidates
<1>3. UNCHANGED <<sessions, matchRows, speechRows, oddsRows, candidates>>
  BY DEF ScoreCandidates
<1>4. OwnStep(s)
  BY <1>1, <1>2, <1>3 DEF OwnStep, RefInv, Backed, Fields
<1>5. /\ run'[s].pc = "candidates" /\ run'[s].queue = run[s].queue
      /\ run'[s].cands = [k \in DOMAIN OfferList |->
                            Scored(OfferList[k], run[s].speech, ml[k])]
  BY <1>1, <1>2 DEF Backed, Fields
<1>6. \A o, speech, m : LET c == Scored(o, speech, m)
                        IN  c.offer = o /\ c.decision = Decision(c.score)
  BY DEF Scored
<1>7. \A k \in DOMAIN run'[s].cands :
        LET c == run'[s].cands[k]
        IN  /\ \E j \in DOMAIN OfferList : c.offer = OfferList[j]
            /\ c.decision = Decision(c.score)
  BY <1>5, <1>6
<1>8. Backed(s)'
  BY <1>1, <1>3, <1>4, <1>5, <1>7 DEF Backed, OwnStep, OddsSaved, Current, Saving
<1>9. RowsResolve' /\ DecisionsFollow' /\ \A m \in matchRows' : m[1] \in Runs
  BY <1>3 DEF RefInv, RowsResolve, DecisionsFollow
<1> QED BY <1>4, <1>8, <1>9, OthersAreBacked DEF RefInv, OwnStep

LEMMA SaveCandidateKeeps ==
  ASSUME RefInv, NEW s \in Runs, SaveCandidate(s)
  PROVE  RefInv'
<1>1. DOMAIN run = Runs /\ DOMAIN sessions = Runs /\ Backed(s) /\ run[s].pc = "candidates"
  BY DEF RefInv, SaveCandidate
<1>2. OwnStep(s)
  BY <1>1 DEF SaveCandidate, OwnStep, RefInv, Backed, Fields
<1>3. UNCHANGED <<sessions, matchRows, speechRows, oddsRows>>
  BY DEF SaveCandidate
<1> DEFINE k == run[s].todo + 1
           c == run[s].cands[k]
           row == [id |-> BetOf(s, c.offer), rule |-> c.rule, score |-> c.score,
                   decision |-> c.decision]
<1>4. CASE k \in DOMAIN run[s].cands
  <2>1. /\ candidates' = candidates \cup {row}
        /\ run' = [run EXCEPT ![s].todo = k]
    BY <1>4 DEF SaveCandidate
  <2>2. /\ run'[s].pc = "candidates" /\ run'[s].queue = run[s].queue
        /\ run'[s].cands = run[s].cands
    BY <1>1, <2>1 DEF Backed, Fields
  <2>3. <<s, Current(s), c.offer>> \in oddsRows /\ c.decision = Decision(c.score)
    BY <1>1, <1>4 DEF Backed, OddsSaved
  <2>4. /\ row.id.run = s /\ row.id.match = Current(s) /\ row.id.offer = c.offer
        /\ row.decision = c.decision /\ row.score = c.score
    BY DEF BetOf
  <2> HIDE DEF row
  <2>5. RowsResolve' /\ DecisionsFollow' /\ \A m \in matchRows' : m[1] \in Runs
    BY <1>3, <2>1, <2>3, <2>4 DEF RefInv, RowsResolve, DecisionsFollow
  <2>6. Backed(s)'
    BY <1>1, <1>2, <1>3, <2>2 DEF Backed, OwnStep, OddsSaved, Current, Saving
  <2> QED BY <1>2, <2>5, <2>6, OthersAreBacked DEF RefInv, OwnStep
<1>5. CASE k \notin DOMAIN run[s].cands
  <2>1. /\ UNCHANGED candidates
        /\ run' = [run EXCEPT ![s].pc = "select", ![s].todo = 0]
    BY <1>5 DEF SaveCandidate
  <2>2. run'[s].pc \notin Saving
    BY <1>1, <2>1 DEF Backed, Fields, Saving
  <2> QED BY <1>2, <1>3, <2>1, <2>2, QuietKeeps
<1> QED BY <1>4, <1>5

LEMMA RefStep == RefInv /\ [AutopilotNext]_autopilotAllVars => RefInv'
<1> SUFFICES ASSUME RefInv, [AutopilotNext]_autopilotAllVars PROVE RefInv'
  OBVIOUS
<1>1. CASE UNCHANGED autopilotVars
  BY <1>1 DEF autopilotVars, RefInv, RowsResolve, DecisionsFollow, Backed, OddsSaved, Current
<1>2. ASSUME NEW s \in Runs, NEW mode \in Modes, OpenSession(s, mode)
      PROVE  RefInv'
  BY <1>2, QuietSteps, QuietKeeps
<1>3. ASSUME NEW s \in Runs, Step(s) \/ Fault(s)
      PROVE  RefInv'
  BY <1>3, QuietSteps, QuietKeeps, SaveMatchKeeps, SaveSpeechKeeps, SaveOddsKeeps,
     ScoreKeeps, SaveCandidateKeeps DEF Step, Fault
<1>4. ASSUME NEW p \in Settlers, SettlerStep(p) /\ UNCHANGED autopilotVars
      PROVE  RefInv'
  BY <1>1, <1>4
<1>5. CASE UNCHANGED autopilotAllVars
  BY <1>1, <1>5 DEF autopilotAllVars
<1> QED BY <1>2, <1>3, <1>4, <1>5 DEF AutopilotNext

(* From the candidate to the session every row refers to rows that are      *)
(* there, and every stored decision is the one of the stored score, for any *)
(* number of commands, passes, matches and offers, whatever fails or is     *)
(* killed in between.                                                       *)
THEOREM RowsAreBacked == AutopilotSpec => [](RowsResolve /\ DecisionsFollow)
<1>1. RefInv => RowsResolve /\ DecisionsFollow
  BY DEF RefInv
<1> QED BY RefInit, RefStep, <1>1, PTL DEF AutopilotSpec
-----------------------------------------------------------------------------
(* Imports leave the outcomes they were asked for.                         *)
(* The rows of a file that an import applies to a bet.                     *)
GoodRows(rows, b) == {i \in DOMAIN rows : rows[i].bet = b /\ rows[i].outcome # "invalid"}

(* The outcome is there, or the last good row that is left will write it.  *)
StillOwed(rows, b, o, result) ==
  \/ GoodRows(rows, b) = {} /\ result = o
  \/ \E i \in GoodRows(rows, b) :
       rows[i].outcome = o /\ \A j \in GoodRows(rows, b) : j <= i

OwedOK(p) ==
  /\ settler[p].pc # "idle" => settler[p].exit = "none"
  /\ \A b \in Bets : owed[p][b] # "none" =>
       /\ b \in Recorded
       /\ settler[p].exit = "done" => bets[b].result = owed[p][b]
       /\ settler[p].pc # "idle" => StillOwed(settler[p].rows, b, owed[p][b], bets[b].result)

OwedInv ==
  /\ owed = [p \in Settlers |-> [b \in Bets |-> owed[p][b]]]
  /\ \A p \in Settlers : OwedOK(p)

LEMMA OwedInit == AutopilotInit => OwedInv
  BY DEF AutopilotInit, SettlementInit, OwedInv, OwedOK, Nothing, IdleSettler

(* A step of p that leaves the bets alone.                                 *)
LEMMA OwedFrame ==
  ASSUME OwedInv, BookInv, NEW p \in Settlers, UNCHANGED bets,
         settler' = [settler EXCEPT ![p] = settler'[p]],
         owed' = [owed EXCEPT ![p] = owed'[p]],
         owed'[p] = [b \in Bets |-> owed'[p][b]],
         OwedOK(p)'
  PROVE  OwedInv'
<1>1. \A q \in Settlers \ {p} : settler'[q] = settler[q] /\ owed'[q] = owed[q]
  BY DEF BookInv, OwedInv
<1>2. ASSUME NEW q \in Settlers, q # p PROVE OwedOK(q)'
  <2>1. OwedOK(q) /\ settler'[q] = settler[q] /\ owed'[q] = owed[q]
    BY <1>1, <1>2 DEF OwedInv
  <2>2. Recorded' = Recorded
    BY DEF Recorded
  <2> QED BY <2>1, <2>2 DEF OwedOK
<1>3. owed' = [q \in Settlers |-> [b \in Bets |-> owed'[q][b]]]
  <2>1. owed' = [q \in Settlers |-> owed'[q]]
    BY DEF OwedInv
  <2>2. \A q \in Settlers : owed'[q] = [b \in Bets |-> owed'[q][b]]
    <3>1. \A q \in Settlers \ {p} : owed'[q] = [b \in Bets |-> owed'[q][b]]
      BY <1>1 DEF OwedInv
    <3> QED BY <3>1
  <2> QED BY <2>1, <2>2
<1> QED BY <1>2, <1>3 DEF OwedInv

LEMMA StartImportOwes ==
  ASSUME OwedInv, BookInv, NEW p \in Settlers, NEW rows \in Files, StartImport(p, rows)
  PROVE  OwedInv'
<1>1. /\ settler'[p].rows = rows /\ settler'[p].pc = "row" /\ settler'[p].exit = "none"
      /\ settler' = [settler EXCEPT ![p] = settler'[p]]
  BY DEF StartImport, BookInv, IdleSettler
<1>2. owed'[p] = [b \in Bets |-> LastOutcome(rows, b)]
  BY DEF StartImport, OwedInv
<1>3. UNCHANGED bets /\ owed' = [owed EXCEPT ![p] = owed'[p]]
  BY DEF StartImport, OwedInv
<1>4. ASSUME NEW b \in Bets, LastOutcome(rows, b) # "none"
      PROVE  b \in Recorded /\ StillOwed(rows, b, LastOutcome(rows, b), bets[b].result)
  <2> DEFINE good == GoodRows(rows, b)
  <2>1. b \in Recorded /\ good # {} /\ LastOutcome(rows, b) = rows[Max(good)].outcome
    BY <1>4 DEF LastOutcome, GoodRows
  <2>2. Len(rows) \in Nat /\ good \in SUBSET (1 .. Len(rows))
    BY FilesAreRows DEF GoodRows
  <2>3. Max(good) \in good /\ \A j \in good : j <= Max(good)
    <3>1. \E m \in good : \A n \in good : n <= m
      <4> HIDE DEF good
      <4> QED BY <2>1, <2>2, GreatestElement
    <3>2. \E m \in good : \A n \in good : m >= n
      BY <2>2, <3>1
    <3>3. Max(good) \in good /\ \A n \in good : Max(good) >= n
      <4> HIDE DEF good
      <4> QED BY <3>2 DEF Max
    <3> QED BY <2>2, <3>3
  <2> QED BY <2>1, <2>3 DEF StillOwed
<1>5. OwedOK(p)'
  <2>1. ASSUME NEW b \in Bets, owed'[p][b] # "none"
        PROVE  b \in Recorded' /\ StillOwed(settler'[p].rows, b, owed'[p][b], bets'[b].result)
    BY <1>1, <1>2, <1>3, <1>4, <2>1 DEF StillOwed, Recorded
  <2> QED BY <1>1, <2>1 DEF OwedOK
<1> QED BY <1>1, <1>2, <1>3, <1>5, OwedFrame

(* What is left after the first row.                                       *)
LEMMA TailOfRows ==
  ASSUME NEW rows \in Seq(Row), rows # <<>>, NEW b, NEW o, NEW result, StillOwed(rows, b, o, result)
  PROVE  /\ 1 \notin GoodRows(rows, b) => StillOwed(Tail(rows), b, o, result)
         /\ 1 \in GoodRows(rows, b) =>
              \/ GoodRows(Tail(rows), b) = {} /\ o = Head(rows).outcome
              \/ \E i \in GoodRows(Tail(rows), b) :
                   Tail(rows)[i].outcome = o /\ \A j \in GoodRows(Tail(rows), b) : j <= i
<1> DEFINE rest == Tail(rows)
<1>1. /\ Len(rows) \in Nat /\ Len(rows) >= 1 /\ DOMAIN rows = 1 .. Len(rows)
      /\ DOMAIN rest = 1 .. Len(rows) - 1
      /\ \A i \in DOMAIN rest : rest[i] = rows[i + 1]
      /\ Head(rows) = rows[1]
  OBVIOUS
<1>2. GoodRows(rest, b) = {i \in 1 .. Len(rows) - 1 : i + 1 \in GoodRows(rows, b)}
  BY <1>1 DEF GoodRows
<1>3. GoodRows(rows, b) \subseteq 1 .. Len(rows)
  BY <1>1 DEF GoodRows
<1>4. CASE GoodRows(rows, b) = {} /\ result = o
  BY <1>2, <1>4 DEF StillOwed
<1>5. ASSUME NEW i \in GoodRows(rows, b), rows[i].outcome = o,
             \A j \in GoodRows(rows, b) : j <= i, i # 1
      PROVE  \E k \in GoodRows(rest, b) :
               rest[k].outcome = o /\ \A j \in GoodRows(rest, b) : j <= k
  <2> HIDE DEF rest
  <2>1. i - 1 \in 1 .. Len(rows) - 1 /\ (i - 1) + 1 = i
    BY <1>1, <1>3, <1>5
  <2>2. i - 1 \in GoodRows(rest, b) /\ rest[i - 1].outcome = o
    BY <1>1, <1>2, <1>5, <2>1
  <2>3. ASSUME NEW j \in GoodRows(rest, b) PROVE j <= i - 1
    <3>1. j \in 1 .. Len(rows) - 1 /\ j + 1 \in GoodRows(rows, b)
      BY <1>2
    <3>2. j + 1 <= i
      BY <1>5, <3>1
    <3> QED BY <1>1, <2>1, <3>1, <3>2
  <2> QED BY <2>2, <2>3
<1>6. ASSUME NEW i \in GoodRows(rows, b), rows[i].outcome = o,
             \A j \in GoodRows(rows, b) : j <= i, i = 1
      PROVE  GoodRows(rest, b) = {} /\ o = Head(rows).outcome
  <2> HIDE DEF rest
  <2>1. ASSUME NEW j \in GoodRows(rest, b) PROVE FALSE
    <3>1. j \in 1 .. Len(rows) - 1 /\ j + 1 \in GoodRows(rows, b)
      BY <1>2
    <3>2. j + 1 <= 1
      BY <1>6, <3>1
    <3> QED BY <1>1, <3>1, <3>2
  <2> QED BY <1>1, <1>6, <2>1
<1>7. ASSUME NEW i \in GoodRows(rows, b), rows[i].outcome = o,
             \A j \in GoodRows(rows, b) : j <= i
      PROVE  /\ 1 \notin GoodRows(rows, b) => StillOwed(rest, b, o, result)
             /\ 1 \in GoodRows(rows, b) =>
                  \/ GoodRows(rest, b) = {} /\ o = Head(rows).outcome
                  \/ \E k \in GoodRows(rest, b) :
                       rest[k].outcome = o /\ \A j \in GoodRows(rest, b) : j <= k
  <2> HIDE DEF rest
  <2>1. CASE i # 1
    BY <1>5, <1>7, <2>1 DEF StillOwed
  <2>2. CASE i = 1
    BY <1>6, <1>7, <2>2
  <2> QED BY <2>1, <2>2
<1> HIDE DEF rest
<1>8. (\E i \in GoodRows(rows, b) :
         rows[i].outcome = o /\ \A j \in GoodRows(rows, b) : j <= i)
      \/ (GoodRows(rows, b) = {} /\ result = o)
  BY DEF StillOwed
<1> QED BY <1>4, <1>7, <1>8 DEF rest

LEMMA SkipRowOwes ==
  ASSUME OwedInv, BookInv, NEW p \in Settlers, SkipRow(p)
  PROVE  OwedInv'
<1>1. settler[p] \in Settler /\ settler[p].pc = "row" /\ settler[p].rows # <<>>
  BY DEF BookInv, SkipRow
<1>2. settler[p].rows \in Seq(Row)
  BY <1>1 DEF Settler
<1>3. /\ settler' = [settler EXCEPT ![p] = settler'[p]]
      /\ settler'[p].rows = Tail(settler[p].rows)
      /\ settler'[p].pc = "row" /\ settler'[p].exit = settler[p].exit
  BY <1>1 DEF BookInv, SkipRow, Settler
<1>4. UNCHANGED <<bets, owed>> /\ owed' = [owed EXCEPT ![p] = owed'[p]]
      /\ owed'[p] = [b \in Bets |-> owed'[p][b]]
  BY DEF SkipRow, OwedInv
<1>5. ASSUME NEW b \in Bets, owed[p][b] # "none"
      PROVE  b \in Recorded /\ StillOwed(Tail(settler[p].rows), b, owed[p][b], bets[b].result)
  <2>1. b \in Recorded /\ StillOwed(settler[p].rows, b, owed[p][b], bets[b].result)
    BY <1>1, <1>5 DEF OwedInv, OwedOK
  <2>2. 1 \notin GoodRows(settler[p].rows, b)
    <3>1. Head(settler[p].rows) = settler[p].rows[1]
      BY <1>2
    <3> QED BY <2>1, <3>1 DEF SkipRow, GoodRows
  <2> QED BY <1>1, <1>2, <2>1, <2>2, TailOfRows
<1>6. OwedOK(p)'
  <2>1. settler'[p].exit = "none"
    BY <1>1, <1>3 DEF OwedInv, OwedOK
  <2>2. ASSUME NEW b \in Bets, owed'[p][b] # "none"
        PROVE  b \in Recorded' /\ StillOwed(settler'[p].rows, b, owed'[p][b], bets'[b].result)
    BY <1>3, <1>4, <1>5, <2>2 DEF StillOwed, Recorded
  <2> QED BY <2>1, <2>2 DEF OwedOK
<1> QED BY <1>3, <1>4, <1>6, OwedFrame

LEMMA ReadBetOwes ==
  ASSUME OwedInv, BookInv, NEW p \in Settlers, ReadBet(p)
  PROVE  OwedInv'
<1>1. settler[p] \in Settler /\ settler[p].pc = "row"
  BY DEF BookInv, ReadBet
<1>2. /\ settler' = [settler EXCEPT ![p] = settler'[p]]
      /\ settler'[p].rows = settler[p].rows
      /\ settler'[p].pc = "update" /\ settler'[p].exit = settler[p].exit
  BY <1>1 DEF BookInv, ReadBet, Settler
<1>3. UNCHANGED <<bets, owed>> /\ owed' = [owed EXCEPT ![p] = owed'[p]]
      /\ owed'[p] = [b \in Bets |-> owed'[p][b]]
  BY DEF ReadBet, OwedInv
<1>4. OwedOK(p)'
  BY <1>1, <1>2, <1>3 DEF OwedInv, OwedOK, StillOwed, Recorded
<1> QED BY <1>2, <1>3, <1>4, OwedFrame

LEMMA UpdateBetOwes ==
  ASSUME OwedInv, BookInv, NEW p \in Settlers, UpdateBet(p)
  PROVE  OwedInv'
<1> DEFINE row == Head(settler[p].rows)
<1>1. /\ settler[p] \in Settler /\ settler[p].rows # <<>> /\ settler[p].pc = "update"
      /\ row.bet \in Recorded /\ row.outcome # "invalid"
  BY DEF BookInv, ReadIsGood, UpdateBet
<1>2. settler[p].rows \in Seq(Row) /\ settler[p].rows[1] = row
  BY <1>1 DEF Settler
<1>3. /\ settler' = [settler EXCEPT ![p] = settler'[p]]
      /\ settler'[p].rows = Tail(settler[p].rows)
      /\ settler'[p].pc = "row" /\ settler'[p].exit = settler[p].exit
  BY <1>1 DEF BookInv, UpdateBet, Settler
<1>4. /\ \A b \in Bets \ {row.bet} : bets'[b] = bets[b]
      /\ bets'[row.bet].result = row.outcome
      /\ Recorded \subseteq Recorded'
  BY <1>1 DEF UpdateBet, BookInv, Recorded
<1>5. /\ owed' = [q \in Settlers |-> [b \in Bets |-> owed'[q][b]]]
      /\ owed'[p] = owed[p]
      /\ \A q \in Settlers \ {p} : \A b \in Bets :
           owed'[q][b] = IF b = row.bet THEN "none" ELSE owed[q][b]
  <2> HIDE DEF row
  <2>0. owed' = [q \in Settlers |-> [owed[q] EXCEPT ![row.bet] = IF q = p THEN @ ELSE "none"]]
    BY DEF UpdateBet, row
  <2>1. \A q \in Settlers : owed[q] = [b \in Bets |-> owed[q][b]]
    BY DEF OwedInv
  <2>2. \A q \in Settlers : owed'[q] = [b \in Bets |-> owed'[q][b]]
    BY <2>0, <2>1
  <2>3. owed' = [q \in Settlers |-> owed'[q]]
    BY <2>0
  <2>4. owed'[p] = owed[p]
    BY <2>0, <2>1
  <2>5. \A q \in Settlers \ {p} : \A b \in Bets :
          owed'[q][b] = IF b = row.bet THEN "none" ELSE owed[q][b]
    BY <2>0, <2>1
  <2> QED BY <2>2, <2>3, <2>4, <2>5
<1>6. ASSUME NEW b \in Bets, owed[p][b] # "none"
      PROVE  b \in Recorded' /\ StillOwed(Tail(settler[p].rows), b, owed[p][b], bets'[b].result)
  <2>1. b \in Recorded' /\ StillOwed(settler[p].rows, b, owed[p][b], bets[b].result)
    BY <1>1, <1>4, <1>6 DEF OwedInv, OwedOK
  <2>2. 1 \in GoodRows(settler[p].rows, b) <=> b = row.bet
    <3>1. 1 \in DOMAIN settler[p].rows
      BY <1>1, <1>2
    <3> QED BY <1>1, <1>2, <3>1 DEF GoodRows
  <2> DEFINE rest == Tail(settler[p].rows)
             o == owed[p][b]
  <2> HIDE DEF row
  <2>3. CASE b = row.bet
    <3>1. \/ GoodRows(rest, b) = {} /\ o = row.outcome
          \/ \E i \in GoodRows(rest, b) :
               rest[i].outcome = o /\ \A j \in GoodRows(rest, b) : j <= i
      <4>1. 1 \in GoodRows(settler[p].rows, b)
        BY <2>2, <2>3
      <4>2. \/ GoodRows(rest, b) = {} /\ o = Head(settler[p].rows).outcome
            \/ \E i \in GoodRows(rest, b) :
                 rest[i].outcome = o /\ \A j \in GoodRows(rest, b) : j <= i
        BY <1>1, <1>2, <2>1, <4>1, TailOfRows
      <4> QED BY <4>2 DEF row
    <3>2. bets'[b].result = row.outcome
      BY <1>4, <2>3
    <3> QED BY <2>1, <3>1, <3>2 DEF StillOwed
  <2>4. CASE b # row.bet
    <3>1. StillOwed(rest, b, o, bets[b].result)
      BY <1>1, <1>2, <2>1, <2>2, <2>4, TailOfRows
    <3>2. bets'[b] = bets[b]
      BY <1>4, <2>4
    <3> QED BY <2>1, <3>1, <3>2
  <2> QED BY <2>3, <2>4
<1>7. OwedOK(p)'
  <2>1. settler'[p].exit = "none"
    BY <1>1, <1>3 DEF OwedInv, OwedOK
  <2> QED BY <1>3, <1>5, <1>6, <2>1 DEF OwedOK, StillOwed
<1>8. ASSUME NEW q \in Settlers \ {p} PROVE OwedOK(q)'
  <2>1. settler'[q] = settler[q]
    BY <1>3 DEF BookInv
  <2>2. ASSUME NEW b \in Bets, owed'[q][b] # "none"
        PROVE  owed[q][b] # "none" /\ owed'[q][b] = owed[q][b] /\ bets'[b] = bets[b]
    BY <1>4, <1>5, <2>2
  <2>3. OwedOK(q)
    BY DEF OwedInv
  <2> QED BY <1>4, <2>1, <2>2, <2>3 DEF OwedOK
<1> QED BY <1>5, <1>7, <1>8 DEF OwedInv

LEMMA ImportEndsOwes ==
  ASSUME OwedInv, BookInv, NEW p \in Settlers, FinishImport(p) \/ ImportAborts(p)
  PROVE  OwedInv'
<1>1. settler[p] \in Settler
  BY DEF BookInv
<1>2. CASE FinishImport(p)
  <2>1. /\ settler' = [settler EXCEPT ![p] = settler'[p]]
        /\ settler'[p].pc = "idle"
    BY <1>1, <1>2 DEF FinishImport, BookInv, Settler
  <2>2. UNCHANGED <<bets, owed>> /\ owed' = [owed EXCEPT ![p] = owed'[p]]
        /\ owed'[p] = [b \in Bets |-> owed'[p][b]]
    BY <1>2 DEF FinishImport, OwedInv
  <2>3. ASSUME NEW b \in Bets, owed[p][b] # "none"
        PROVE  b \in Recorded /\ bets[b].result = owed[p][b]
    <3>1. settler[p].rows = <<>> /\ settler[p].pc = "row"
      BY <1>2 DEF FinishImport
    <3>2. GoodRows(settler[p].rows, b) = {}
      BY <3>1 DEF GoodRows
    <3> QED BY <2>3, <3>1, <3>2 DEF OwedInv, OwedOK, StillOwed
  <2>4. OwedOK(p)'
    BY <2>1, <2>2, <2>3 DEF OwedOK, Recorded
  <2> QED BY <2>1, <2>2, <2>4, OwedFrame
<1>3. CASE ImportAborts(p)
  <2>1. /\ settler' = [settler EXCEPT ![p] = settler'[p]]
        /\ settler'[p].pc = "idle"
    BY <1>1, <1>3 DEF ImportAborts, BookInv, Settler
  <2>2. UNCHANGED bets /\ owed' = [owed EXCEPT ![p] = owed'[p]] /\ owed'[p] = Nothing
    BY <1>3 DEF ImportAborts, OwedInv
  <2>3. owed'[p] = [b \in Bets |-> owed'[p][b]] /\ \A b \in Bets : owed'[p][b] = "none"
    BY <2>2 DEF Nothing
  <2>4. OwedOK(p)'
    BY <2>1, <2>3 DEF OwedOK
  <2> QED BY <2>1, <2>2, <2>3, <2>4, OwedFrame
<1> QED BY <1>2, <1>3

(* A new bet is owed nothing: only recorded ones are.                      *)
LEMMA SaveBetOwes ==
  ASSUME OwedInv, BookInv, NEW b, SaveBet(b)
  PROVE  OwedInv'
<1>1. \A x \in Recorded : x \in Recorded' /\ bets'[x] = bets[x]
  BY DEF SaveBet, BookInv, Recorded
<1>2. UNCHANGED <<settler, owed>>
  BY DEF SaveBet
<1>3. ASSUME NEW p \in Settlers PROVE OwedOK(p)'
  BY <1>1, <1>2 DEF OwedInv, OwedOK, StillOwed
<1> QED BY <1>2, <1>3 DEF OwedInv

LEMMA OwedStep == OwedInv /\ BookInv /\ [AutopilotNext]_autopilotAllVars => OwedInv'
<1> SUFFICES ASSUME OwedInv, BookInv, [AutopilotNext]_autopilotAllVars PROVE OwedInv'
  OBVIOUS
<1>1. CASE UNCHANGED settlementVars
  BY <1>1 DEF settlementVars, OwedInv, OwedOK, StillOwed, Recorded
<1>2. ASSUME NEW s \in Runs,
             (\E mode \in Modes : OpenSession(s, mode)) \/ Step(s) \/ Fault(s)
      PROVE  OwedInv'
  BY <1>1, <1>2, CommandSteps, SaveBetOwes
<1>3. ASSUME NEW p \in Settlers, SettlerStep(p)
      PROVE  OwedInv'
  BY <1>3, StartImportOwes, SkipRowOwes, ReadBetOwes, UpdateBetOwes, ImportEndsOwes
     DEF SettlerStep
<1>4. CASE UNCHANGED autopilotAllVars
  BY <1>1, <1>4 DEF autopilotAllVars
<1> QED BY <1>2, <1>3, <1>4 DEF AutopilotNext

(* An import that ends normally has left in every bet the outcome of its   *)
(* last good row, unless another process wrote the bet too, for files of   *)
(* any length and any number of imports at once; and the reports add up.   *)
THEOREM BookIsSound == AutopilotSpec => []BookSound
<1>1. AutopilotSpec => []OwedInv
  BY OwedInit, OwedStep, BookInvariant, PTL DEF AutopilotSpec
<1>2. OwedInv => ImportLeavesOutcomes
  BY DEF OwedInv, OwedOK, ImportLeavesOutcomes
<1>3. ReportAddsUp /\ ImportLeavesOutcomes => BookSound
  BY DEF BookSound
<1> QED BY <1>1, <1>2, <1>3, ReportsAddUp, PTL
-----------------------------------------------------------------------------
(* The selection.  Ranked lists the eligible candidates once each by       *)
(* falling score, and the fold over it keeps, after any number of them,    *)
(* what PicksWell says.                                                    *)
Candidate == [offer : Offers, rule : Int, score : Int, decision : {"bet", "watch", "skip"}]

LEMMA RankedDescends ==
  ASSUME NEW cs \in Seq(Candidate)
  PROVE  LET r == Ranked(cs)
             E == EligibleAt(cs)
         IN  /\ Cardinality(E) \in Nat
             /\ r \in [1 .. Cardinality(E) -> Candidate]
             /\ \A k \in 1 .. Cardinality(E) : \E i \in E : r[k] = cs[i]
             /\ \A i \in E : \E k \in 1 .. Cardinality(E) : r[k] = cs[i]
             /\ \A j, k \in 1 .. Cardinality(E) : j < k => r[j].score >= r[k].score
<1> DEFINE E == EligibleAt(cs)
           N == Cardinality(E)
           R == {p \in E \X E : Before(cs, p[1], p[2])}
           f == ByRank(E, R)
<1>1. DOMAIN cs = 1 .. Len(cs) /\ Len(cs) \in Nat /\ E \in SUBSET (1 .. Len(cs))
  BY DEF EligibleAt
<1>2. IsFiniteSet(E) /\ N \in Nat
  <2> HIDE DEF E
  <2>1. IsFiniteSet(1 .. Len(cs))
    BY <1>1, FS_Interval
  <2>2. IsFiniteSet(E)
    BY <1>1, <2>1, FS_Subset
  <2> QED BY <2>2, FS_CardinalityType
<1>3. \A i \in E : i \in Nat /\ cs[i] \in Candidate /\ cs[i].score \in Int
  <2> HIDE DEF E
  <2>1. \A i \in E : i \in Nat /\ cs[i] \in Candidate
    BY <1>1
  <2>2. \A c \in Candidate : c.score \in Int
    BY DEF Candidate
  <2> QED BY <2>1, <2>2
<1>4. \A i, j \in E : <<i, j>> \in R <=> Before(cs, i, j)
  OBVIOUS
<1> HIDE DEF E, R
<1>5. TotalOrder(R, E)
  BY <1>3, <1>4 DEF TotalOrder, Before
<1>6. Lists(f, E, R)
  BY <1>2, <1>5, RankedList
<1>7. Ranked(cs) = [k \in 1 .. N |-> cs[f[k]]]
  <2>1. \A x \in E : {y \in E : <<y, x>> \in R} = {y \in E : Before(cs, y, x)}
    BY <1>4
  <2>2. \A k \in 1 .. N :
          f[k] = CHOOSE x \in E : Cardinality({y \in E : Before(cs, y, x)}) = k - 1
    BY <2>1 DEF ByRank
  <2>3. Ranked(cs) = [k \in 1 .. N |->
          cs[CHOOSE x \in E : Cardinality({y \in E : Before(cs, y, x)}) = k - 1]]
    BY DEF Ranked, E
  <2> HIDE DEF f
  <2> QED BY <2>2, <2>3
<1> HIDE DEF f, N
<1>8. /\ f \in [1 .. N -> E]
      /\ \A x \in E : \E i \in 1 .. N : f[i] = x
      /\ \A i, j \in 1 .. N : i < j => Before(cs, f[i], f[j])
  BY <1>4, <1>6 DEF Lists, N
<1>9. \A j, k \in 1 .. N : j < k => cs[f[j]].score >= cs[f[k]].score
  BY <1>3, <1>8 DEF Before
<1>10. \A k \in 1 .. N : Ranked(cs)[k] = cs[f[k]] /\ f[k] \in E
  BY <1>7, <1>8
<1>11. Ranked(cs) \in [1 .. N -> Candidate]
  BY <1>3, <1>7, <1>8
<1>12. \A i \in E : \E k \in 1 .. N : Ranked(cs)[k] = cs[i]
  BY <1>8, <1>10
<1>13. \A j, k \in 1 .. N : j < k => Ranked(cs)[j].score >= Ranked(cs)[k].score
  BY <1>9, <1>10
<1> QED BY <1>2, <1>10, <1>11, <1>12, <1>13 DEF E, N

(* What the greedy choice has kept after the first k of the ranked list.   *)
PicksWell(ch, r, k) ==
  /\ ch \in Seq(Candidate)
  /\ Len(ch) <= MaxBets
  /\ \A i \in 1 .. Len(ch) : \E j \in 1 .. k : ch[i] = r[j]
  /\ \A i, j \in 1 .. Len(ch) : i # j => ~Clash(ch[i].offer, ch[j].offer)
  /\ \A j \in 1 .. k :
       \/ \E i \in 1 .. Len(ch) : ch[i] = r[j]
       \/ \E i \in 1 .. Len(ch) : ch[i].score >= r[j].score /\ Clash(ch[i].offer, r[j].offer)
       \/ Len(ch) = MaxBets /\ \A i \in 1 .. Len(ch) : ch[i].score >= r[j].score

LEMMA AdmitPicks ==
  ASSUME NEW n \in Nat, NEW r \in [1 .. n -> Candidate],
         \A j, k \in 1 .. n : j < k => r[j].score >= r[k].score,
         NEW k \in Nat, k < n, NEW ch, PicksWell(ch, r, k)
  PROVE  PicksWell(Admit(ch, r[k + 1]), r, k + 1)
<1> DEFINE c == r[k + 1]
<1>1. /\ ch \in Seq(Candidate) /\ Len(ch) \in Nat /\ Len(ch) <= MaxBets
      /\ DOMAIN ch = 1 .. Len(ch)
  BY DEF PicksWell
<1>2. k + 1 \in 1 .. n /\ c \in Candidate /\ \A j \in 1 .. k : j \in 1 .. n /\ j < k + 1
  OBVIOUS
<1>3. \A i \in 1 .. Len(ch) : ch[i].score >= c.score
  <2>1. \A j \in 1 .. k : r[j].score >= c.score
    BY <1>2
  <2> QED BY <2>1 DEF PicksWell
<1>4. \A j \in 1 .. k + 1 : j \in 1 .. k \/ j = k + 1
  OBVIOUS
<1>5. 1 .. k \subseteq 1 .. k + 1
  OBVIOUS
<1> HIDE DEF c
<1>6. CASE Admit(ch, c) = ch /\ (Len(ch) >= MaxBets \/ \E i \in DOMAIN ch : Clash(ch[i].offer, c.offer))
  <2>1. \/ \E i \in 1 .. Len(ch) : ch[i].score >= c.score /\ Clash(ch[i].offer, c.offer)
        \/ Len(ch) = MaxBets /\ \A i \in 1 .. Len(ch) : ch[i].score >= c.score
    <3>1. CASE Len(ch) >= MaxBets
      BY <1>1, <1>3, <3>1, MaxBetsIsPositive
    <3>2. CASE \E i \in DOMAIN ch : Clash(ch[i].offer, c.offer)
      BY <1>1, <1>3, <3>2
    <3> QED BY <1>6, <3>1, <3>2
  <2>2. \A i \in 1 .. Len(ch) : \E j \in 1 .. k + 1 : ch[i] = r[j]
    BY <1>5 DEF PicksWell
  <2>3. \A j \in 1 .. k + 1 :
          \/ \E i \in 1 .. Len(ch) : ch[i] = r[j]
          \/ \E i \in 1 .. Len(ch) : ch[i].score >= r[j].score /\ Clash(ch[i].offer, r[j].offer)
          \/ Len(ch) = MaxBets /\ \A i \in 1 .. Len(ch) : ch[i].score >= r[j].score
    BY <1>4, <2>1 DEF PicksWell, c
  <2>4. PicksWell(ch, r, k + 1)
    BY <2>2, <2>3 DEF PicksWell
  <2> QED BY <1>6, <2>4 DEF c
<1>7. CASE Admit(ch, c) = Append(ch, c) /\ Len(ch) < MaxBets
           /\ \A i \in DOMAIN ch : ~Clash(ch[i].offer, c.offer)
  <2> DEFINE new == Append(ch, c)
  <2>1. /\ new \in Seq(Candidate) /\ Len(new) = Len(ch) + 1
        /\ \A i \in 1 .. Len(ch) : i \in 1 .. Len(new) /\ new[i] = ch[i]
        /\ new[Len(ch) + 1] = c /\ Len(ch) + 1 \in 1 .. Len(new)
        /\ \A i \in 1 .. Len(new) : i \in 1 .. Len(ch) \/ i = Len(ch) + 1
    BY <1>1, <1>2
  <2> HIDE DEF new
  <2>2. Len(new) <= MaxBets
    BY <1>1, <1>7, <2>1, MaxBetsIsPositive
  <2>3. \A i \in 1 .. Len(new) : \E j \in 1 .. k + 1 : new[i] = r[j]
    BY <1>2, <1>5, <2>1 DEF PicksWell, c
  <2>4. \A o, p : Clash(o, p) <=> Clash(p, o)
    BY DEF Clash
  <2>5. \A i, j \in 1 .. Len(new) : i # j => ~Clash(new[i].offer, new[j].offer)
    BY <1>1, <1>7, <2>1, <2>4 DEF PicksWell
  <2>6. \A j \in 1 .. k + 1 :
          \/ \E i \in 1 .. Len(new) : new[i] = r[j]
          \/ \E i \in 1 .. Len(new) : new[i].score >= r[j].score /\ Clash(new[i].offer, r[j].offer)
          \/ Len(new) = MaxBets /\ \A i \in 1 .. Len(new) : new[i].score >= r[j].score
    <3>1. Len(ch) # MaxBets
      <4>1. Len(ch) < MaxBets
        BY <1>7
      <4>2. Len(ch) \in Int /\ MaxBets \in Int
        BY <1>1, MaxBetsIsPositive
      <4> QED BY <4>1, <4>2
    <3>2. ASSUME NEW j \in 1 .. k
          PROVE  \/ \E i \in 1 .. Len(new) : new[i] = r[j]
                 \/ \E i \in 1 .. Len(new) :
                      new[i].score >= r[j].score /\ Clash(new[i].offer, r[j].offer)
      <4>1. \/ \E i \in 1 .. Len(ch) : ch[i] = r[j]
            \/ \E i \in 1 .. Len(ch) : ch[i].score >= r[j].score /\ Clash(ch[i].offer, r[j].offer)
        BY <3>1 DEF PicksWell
      <4> QED BY <2>1, <4>1
    <3>3. \E i \in 1 .. Len(new) : new[i] = r[k + 1]
      BY <2>1 DEF c
    <3> QED BY <1>4, <3>2, <3>3
  <2>7. PicksWell(new, r, k + 1)
    BY <2>1, <2>2, <2>3, <2>5, <2>6 DEF PicksWell
  <2> QED BY <1>7, <2>7 DEF c, new
<1>8. Len(ch) < MaxBets <=> ~(Len(ch) >= MaxBets)
  BY <1>1, MaxBetsIsPositive
<1>9. \/ Admit(ch, c) = ch /\ (Len(ch) >= MaxBets \/ \E i \in DOMAIN ch : Clash(ch[i].offer, c.offer))
      \/ Admit(ch, c) = Append(ch, c) /\ Len(ch) < MaxBets
         /\ \A i \in DOMAIN ch : ~Clash(ch[i].offer, c.offer)
  BY <1>8 DEF Admit
<1> QED BY <1>6, <1>7, <1>9

LEMMA SelectPicks ==
  ASSUME NEW cs \in Seq(Candidate)
  PROVE  PicksWell(SelectBets(cs), Ranked(cs), Cardinality(EligibleAt(cs)))
<1> DEFINE n == Cardinality(EligibleAt(cs))
           r == Ranked(cs)
           D == 1 .. n
           V == Seq(Candidate)
           step == [z \in D \X V |-> Admit(z[2], r[z[1]])]
           pick == [s \in SUBSET D |-> Max(s)]
           fold(g) == [s \in SUBSET D |-> IF s = {} THEN <<>> ELSE Admit(g[s \ {Max(s)}], r[Max(s)])]
           iter == CHOOSE g : g = fold(g)
<1>1. /\ n \in Nat /\ r \in [1 .. n -> Candidate] /\ DOMAIN r = D
      /\ \A j, k \in 1 .. n : j < k => r[j].score >= r[k].score
  BY RankedDescends
<1> HIDE DEF n, r
<1>2. SelectBets(cs) = iter[D]
  BY <1>1 DEF SelectBets, FoldLeft, MapThenFoldSet, r
<1>3. \A s \in SUBSET D : s # {} => Max(s) \in s /\ \A x \in s : x <= Max(s)
  <2> SUFFICES ASSUME NEW s \in SUBSET D, s # {}
               PROVE  Max(s) \in s /\ \A x \in s : x <= Max(s)
    OBVIOUS
  <2>1. \E m \in s : \A x \in s : x <= m
    BY <1>1, GreatestElement
  <2>2. \E m \in s : \A x \in s : m >= x
    BY <1>1, <2>1
  <2>3. Max(s) \in s /\ \A x \in s : Max(s) >= x
    BY <2>2 DEF Max
  <2> QED BY <1>1, <2>3
<1>4. \E g : g = fold(g)
  <2>1. \A c \in Candidate, v \in V : Admit(v, c) \in V
    BY DEF Admit
  <2>2. step \in [D \X V -> V]
    BY <1>1, <2>1
  <2>3. IsFiniteSet(D) /\ <<>> \in V
    BY <1>1, FS_Interval
  <2>4. PicksFrom(pick, D)
    BY <1>3 DEF PicksFrom
  <2> HIDE DEF step, pick, V, D
  <2> DEFINE base == <<>>
  <2> HIDE DEF base
  <2>0. PICK g : Folds(g, D, V, base, step, pick)
    BY <2>2, <2>3, <2>4, FoldExists DEF base
  <2>5. /\ g \in [SUBSET D -> V]
        /\ \A s \in SUBSET D :
             g[s] = IF s = {} THEN base ELSE step[<<pick[s], g[s \ {pick[s]}]>>]
    BY <2>0 DEF Folds
  <2>6. ASSUME NEW s \in SUBSET D, s # {}
        PROVE  step[<<pick[s], g[s \ {pick[s]}]>>] = Admit(g[s \ {Max(s)}], r[Max(s)])
    <3>1. pick[s] = Max(s) /\ Max(s) \in D
      BY <1>3, <2>6 DEF pick
    <3>2. g[s \ {Max(s)}] \in V
      BY <2>5
    <3> QED BY <3>1, <3>2 DEF step
  <2>7. \A s \in SUBSET D :
          g[s] = IF s = {} THEN <<>> ELSE Admit(g[s \ {Max(s)}], r[Max(s)])
    BY <2>5, <2>6 DEF base
  <2>8. g = fold(g)
    BY <2>5, <2>7
  <2> QED BY <2>8
<1>5. iter = fold(iter)
  <2> HIDE DEF fold
  <2> QED BY <1>4
<1> HIDE DEF iter
<1>6. /\ iter[{}] = <<>>
      /\ \A s \in SUBSET D : s # {} => iter[s] = Admit(iter[s \ {Max(s)}], r[Max(s)])
  BY <1>5
<1> DEFINE T == {k \in Nat : k <= n => PicksWell(iter[1 .. k], r, k)}
<1>7. 0 \in T
  <2>1. 1 .. 0 = {}
    OBVIOUS
  <2>2. PicksWell(<<>>, r, 0)
    <3>1. <<>> \in Seq(Candidate) /\ Len(<<>>) = 0 /\ 0 <= MaxBets
      BY MaxBetsIsPositive
    <3> QED BY <2>1, <3>1 DEF PicksWell
  <2> QED BY <1>6, <2>1, <2>2
<1>8. ASSUME NEW k \in Nat, k \in T PROVE k + 1 \in T
  <2> SUFFICES ASSUME k + 1 <= n PROVE PicksWell(iter[1 .. k + 1], r, k + 1)
    OBVIOUS
  <2>1. k < n /\ PicksWell(iter[1 .. k], r, k)
    BY <1>1, <1>8
  <2>2. /\ 1 .. k + 1 \in SUBSET D /\ 1 .. k + 1 # {}
        /\ \A m \in 1 .. k + 1 : (\A x \in 1 .. k + 1 : x <= m) => m = k + 1
        /\ (1 .. k + 1) \ {k + 1} = 1 .. k
    <3>1. 1 .. k + 1 \in SUBSET D /\ 1 .. k + 1 # {}
      BY <1>1
    <3>2. ASSUME NEW m \in 1 .. k + 1, \A x \in 1 .. k + 1 : x <= m PROVE m = k + 1
      <4>1. k + 1 <= m
        BY <3>2
      <4> QED BY <4>1
    <3>3. (1 .. k + 1) \ {k + 1} = 1 .. k
      OBVIOUS
    <3> QED BY <3>1, <3>2, <3>3
  <2>3. Max(1 .. k + 1) = k + 1
    BY <1>3, <2>2
  <2>4. iter[1 .. k + 1] = Admit(iter[1 .. k], r[k + 1])
    BY <1>6, <2>2, <2>3
  <2> HIDE DEF T
  <2> QED BY <1>1, <2>1, <2>4, AdmitPicks
<1>9. T = Nat
  <2>1. T \in SUBSET Nat
    OBVIOUS
  <2> HIDE DEF T
  <2> QED BY <1>7, <1>8, <2>1, Induction
<1>10. PicksWell(iter[1 .. n], r, n)
  BY <1>1, <1>9
<1> QED BY <1>2, <1>10 DEF n, r
-----------------------------------------------------------------------------
(* The scores.  A sum of strengths is a number, the streamer's part of a   *)
(* score is clamped, and an unwise offer cannot pass 52 by the rule.       *)
LEMMA StrengthIsInt ==
  ASSUME NEW line
  PROVE  Strength(line) \in Int
<1>1. \A signal : Plain(signal) \in Int
  BY DEF Plain
<1>2. \A score \in Int : Clamp(score) \in Int
  BY DEF Clamp
<1> QED BY <1>1, <1>2 DEF Strength

LEMMA StrengthOfIsInt ==
  ASSUME NEW speech \in Seq(Line), NEW signals
  PROVE  StrengthOf(speech, signals) \in Int
<1> DEFINE D == Saying(speech, signals)
           V == Int
           base == 0
           step == [z \in D \X V |-> Strength(speech[z[1]]) + z[2]]
           chosen(s) == CHOOSE x \in s : TRUE
           pick == [s \in SUBSET D |-> chosen(s)]
           fold(g) == [s \in SUBSET D |->
                         IF s = {} THEN 0
                         ELSE Strength(speech[chosen(s)]) + g[s \ {chosen(s)}]]
           iter == CHOOSE g : g = fold(g)
<1>1. IsFiniteSet(D)
  <2>1. D \in SUBSET (1 .. Len(speech)) /\ Len(speech) \in Nat
    BY DEF Saying
  <2>2. IsFiniteSet(1 .. Len(speech))
    BY <2>1, FS_Interval
  <2> HIDE DEF D
  <2> QED BY <2>1, <2>2, FS_Subset
<1>2. StrengthOf(speech, signals) = iter[D]
  BY DEF StrengthOf, MapThenSumSet, MapThenFoldSet
<1> HIDE DEF D, chosen
<1>3. \A s \in SUBSET D : s # {} => chosen(s) \in s
  BY DEF chosen
<1>4. step \in [D \X V -> V]
  <2>1. \A z \in D \X V : Strength(speech[z[1]]) + z[2] \in V
    BY StrengthIsInt
  <2> QED BY <2>1
<1>5. PicksFrom(pick, D)
  BY <1>3 DEF PicksFrom
<1> HIDE DEF step, pick, V
<1>6. base \in V
  BY DEF V
<1> HIDE DEF base
<1>7. PICK g : Folds(g, D, V, base, step, pick)
  BY <1>1, <1>4, <1>5, <1>6, FoldExists
<1>8. /\ g \in [SUBSET D -> V]
      /\ \A s \in SUBSET D :
           g[s] = IF s = {} THEN base ELSE step[<<pick[s], g[s \ {pick[s]}]>>]
  BY <1>7 DEF Folds
<1>9. ASSUME NEW s \in SUBSET D, s # {}
      PROVE  g[s] = Strength(speech[chosen(s)]) + g[s \ {chosen(s)}]
  <2>1. pick[s] = chosen(s) /\ chosen(s) \in D
    BY <1>3, <1>9 DEF pick
  <2>2. g[s \ {chosen(s)}] \in V
    BY <1>8
  <2>3. g[s] = step[<<chosen(s), g[s \ {chosen(s)}]>>]
    BY <1>8, <1>9, <2>1
  <2> QED BY <2>1, <2>2, <2>3 DEF step
<1>10. g = fold(g)
  BY <1>8, <1>9 DEF base
<1>11. iter = fold(iter)
  <2> HIDE DEF fold
  <2> QED BY <1>10
<1> HIDE DEF iter
<1> DEFINE F == {s \in SUBSET D : iter[s] \in Int}
<1>12. \A s \in SUBSET D :
         iter[s] = IF s = {} THEN 0 ELSE Strength(speech[chosen(s)]) + iter[s \ {chosen(s)}]
  BY <1>11
<1> DEFINE T == {n \in Nat : \A s \in SUBSET D : Cardinality(s) = n => iter[s] \in Int}
<1>13. \A s \in SUBSET D : IsFiniteSet(s) /\ Cardinality(s) \in Nat
  BY <1>1, FS_Subset, FS_CardinalityType
<1>14. 0 \in T
  <2>1. ASSUME NEW s \in SUBSET D, Cardinality(s) = 0 PROVE iter[s] \in Int
    <3>1. s = {}
      BY <1>13, <2>1, FS_EmptySet
    <3>2. iter[s] = 0
      BY <1>12, <3>1
    <3> QED BY <3>2
  <2> QED BY <2>1
<1>15. ASSUME NEW n \in Nat, n \in T PROVE n + 1 \in T
  <2>1. ASSUME NEW s \in SUBSET D, Cardinality(s) = n + 1 PROVE iter[s] \in Int
    <3>1. s # {}
      <4>1. Cardinality({}) = 0
        BY FS_EmptySet
      <4>2. n + 1 # 0
        OBVIOUS
      <4> QED BY <2>1, <4>1, <4>2
    <3>2. Cardinality(s \ {chosen(s)}) = Cardinality(s) - 1
      BY <1>3, <1>13, <3>1, FS_RemoveElement
    <3>3. s \ {chosen(s)} \in SUBSET D /\ Cardinality(s \ {chosen(s)}) = n
      BY <2>1, <3>2
    <3>4. iter[s \ {chosen(s)}] \in Int
      BY <1>15, <3>3
    <3>5. Strength(speech[chosen(s)]) \in Int
      BY StrengthIsInt
    <3>6. iter[s] = Strength(speech[chosen(s)]) + iter[s \ {chosen(s)}]
      BY <1>12, <3>1
    <3> QED BY <3>4, <3>5, <3>6
  <2> QED BY <2>1
<1>16. T = Nat
  <2>1. T \in SUBSET Nat
    OBVIOUS
  <2> HIDE DEF T
  <2> QED BY <1>14, <1>15, <2>1, Induction
<1>17. Cardinality(D) \in Nat /\ D \in SUBSET D
  BY <1>13
<1> QED BY <1>2, <1>16, <1>17

LEMMA StreamerScoreBounds ==
  ASSUME NEW o, NEW speech \in Seq(Line)
  PROVE  /\ StreamerScore(o, speech) \in -8 .. 8
         /\ Warned(speech) /\ Support(o, speech) <= 0 => StreamerScore(o, speech) = -8
<1> DEFINE hyped == {i \in DOMAIN speech : Hyped(speech[i])} \ Saying(speech, {"skip_warning"})
           total == Support(o, speech) - StrengthOf(speech, Opposing(o))
                      - 3 * Cardinality(hyped) - (IF Warned(speech) THEN 2 ELSE 0)
<1>1. Support(o, speech) \in Int /\ StrengthOf(speech, Opposing(o)) \in Int
  BY StrengthOfIsInt DEF Support
<1>2. Cardinality(hyped) \in Nat
  <2>1. hyped \in SUBSET (1 .. Len(speech)) /\ Len(speech) \in Nat
    OBVIOUS
  <2>2. IsFiniteSet(1 .. Len(speech))
    BY <2>1, FS_Interval
  <2> HIDE DEF hyped
  <2> QED BY <2>1, <2>2, FS_Subset, FS_CardinalityType
<1>3. total \in Int
  <2> HIDE DEF hyped
  <2>1. (IF Warned(speech) THEN 2 ELSE 0) \in Int
    OBVIOUS
  <2> QED BY <1>1, <1>2, <2>1
<1>4. \A score \in Int : Clamp(score) \in -8 .. 8
  BY DEF Clamp
<1>5. StreamerScore(o, speech) = IF Warned(speech) /\ Support(o, speech) <= 0 THEN -8 ELSE Clamp(total)
  BY DEF StreamerScore
<1> HIDE DEF total
<1> QED BY <1>3, <1>4, <1>5

LEMMA OddsScoreIs ==
  ASSUME NEW odds \in Nat
  PROVE  OddsScore(odds) = IF odds < 130 THEN -20
                           ELSE IF odds \in 140 .. 240 THEN 10
                           ELSE IF odds \in 241 .. 350 THEN 6
                           ELSE IF odds > 350 THEN -5 ELSE 0
  BY SMTT(30) DEF OddsScore

LEMMA OddsScoreBounds ==
  ASSUME NEW odds \in Nat
  PROVE  /\ OddsScore(odds) \in Int /\ OddsScore(odds) <= 10
         /\ odds < 130 => OddsScore(odds) = -20
  BY OddsScoreIs

LEMMA RuleScoreBounds ==
  ASSUME NEW o \in Offers, NEW speech \in Seq(Line)
  PROVE  /\ RuleScore(o, speech) \in Int
         /\ Unwise(o, speech) => RuleScore(o, speech) <= 52
<1>1. o.odds \in Nat /\ o.suspended \in BOOLEAN
  BY OffersAreOffers DEF Offer
<1>2. MarketScore(o.market) \in Int /\ MarketScore(o.market) <= 25
  BY DEF MarketScore
<1>3. /\ PhaseScore(o) \in Int /\ PhaseScore(o) <= 20
      /\ o.suspended \/ o.phase = "finished" => PhaseScore(o) <= -20
  BY <1>1 DEF PhaseScore
<1>4. /\ OddsScore(o.odds) \in Int /\ OddsScore(o.odds) <= 10
      /\ o.odds < 130 => OddsScore(o.odds) = -20
  <2>1. o.odds \in Nat
    BY <1>1
  <2> QED BY <2>1, OddsScoreBounds
<1>5. /\ StreamerScore(o, speech) \in Int /\ StreamerScore(o, speech) <= 8
      /\ Warned(speech) /\ Support(o, speech) <= 0 => StreamerScore(o, speech) = -8
  BY StreamerScoreBounds
<1>6. RuleScore(o, speech) \in Int
  BY <1>2, <1>3, <1>4, <1>5 DEF RuleScore, RiskBonus
<1>7. CASE o.suspended \/ o.phase = "finished"
  BY <1>2, <1>3, <1>4, <1>5, <1>6, <1>7 DEF RuleScore, RiskBonus
<1>8. CASE o.odds < 130
  BY <1>2, <1>3, <1>4, <1>5, <1>6, <1>8 DEF RuleScore, RiskBonus
<1>9. CASE Warned(speech) /\ Support(o, speech) <= 0
  BY <1>2, <1>3, <1>4, <1>5, <1>6, <1>9 DEF RuleScore, RiskBonus
<1> QED BY <1>6, <1>7, <1>8, <1>9 DEF Unwise

LEMMA HybridIsInt ==
  ASSUME NEW rule \in Int, NEW ml \in Scores \cup {NoScore}
  PROVE  Hybrid(rule, ml) \in Int
<1>1. CASE ml = NoScore
  BY <1>1 DEF Hybrid
<1>2. CASE ml \in Int
  <2>1. \A a \in Int : a \div 100 \in Int
    OBVIOUS
  <2>2. (100 - MlWeight) * rule + MlWeight * ml \in Int
    BY <1>2, MlWeightIsPercent
  <2> QED BY <2>1, <2>2 DEF Hybrid
<1> QED BY <1>1, <1>2, ScoresAreIntegers

LEMMA ScoredIsCandidate ==
  ASSUME NEW o \in Offers, NEW speech \in Seq(Line), NEW ml \in Scores \cup {NoScore}
  PROVE  /\ Scored(o, speech, ml) \in Candidate
         /\ Scored(o, speech, ml).offer = o
         /\ Scored(o, speech, ml).rule = RuleScore(o, speech)
         /\ Scored(o, speech, ml).decision = Decision(Scored(o, speech, ml).score)
<1>1. RuleScore(o, speech) \in Int
  BY RuleScoreBounds
<1>2. Hybrid(RuleScore(o, speech), ml) \in Int
  BY <1>1, HybridIsInt
<1>3. \A score : Decision(score) \in {"bet", "watch", "skip"}
  BY DEF Decision
<1> QED BY <1>1, <1>2, <1>3 DEF Scored, Candidate

(* The queue of a pass: ids of matches, each once.                         *)
LEMMA ScopedIdsDiffer ==
  /\ ScopedIds \in Seq(Ids)
  /\ \A i, j \in DOMAIN ScopedIds : ScopedIds[i] = ScopedIds[j] => i = j
<1> DEFINE N == Cardinality(Scoped)
           R == {p \in Scoped \X Scoped : p[1] < p[2]}
           f == ByRank(Scoped, R)
<1>1. Scoped \in SUBSET (1 .. Len(Fetched)) /\ Len(Fetched) \in Nat
      /\ DOMAIN Fetched = 1 .. Len(Fetched)
  BY FetchedAreMatches DEF Scoped
<1>2. IsFiniteSet(Scoped) /\ N \in Nat
  <2>1. IsFiniteSet(1 .. Len(Fetched))
    BY <1>1, FS_Interval
  <2>2. IsFiniteSet(Scoped)
    BY <1>1, <2>1, FS_Subset
  <2> QED BY <2>2, FS_CardinalityType
<1>3. \A i, j \in Scoped : <<i, j>> \in R <=> i < j
  OBVIOUS
<1> HIDE DEF R
<1>4. TotalOrder(R, Scoped)
  BY <1>1, <1>3 DEF TotalOrder
<1>5. Lists(f, Scoped, R)
  BY <1>2, <1>4, RankedList
<1>6. ScopedIds = [k \in 1 .. N |-> Fetched[f[k]].id]
  <2>1. \A x \in Scoped : {y \in Scoped : <<y, x>> \in R} = {y \in Scoped : y < x}
    BY <1>3
  <2>2. \A k \in 1 .. N : f[k] = Nth(k, Scoped)
    BY <2>1 DEF ByRank, Nth
  <2> HIDE DEF f
  <2> QED BY <2>2 DEF ScopedIds
<1> HIDE DEF f, N
<1>7. /\ f \in [1 .. N -> Scoped]
      /\ \A i, j \in 1 .. N : i < j => f[i] < f[j]
  BY <1>3, <1>5 DEF Lists, N
<1>8. ASSUME NEW k \in 1 .. N PROVE f[k] \in DOMAIN Fetched /\ Fetched[f[k]].id \in Ids
  <2>1. f[k] \in Scoped
    BY <1>7
  <2>2. f[k] \in DOMAIN Fetched
    BY <1>1, <2>1
  <2> QED BY <2>2 DEF Ids
<1>9. ScopedIds \in Seq(Ids)
  BY <1>2, <1>6, <1>8
<1>10. ASSUME NEW i \in 1 .. N, NEW j \in 1 .. N, ScopedIds[i] = ScopedIds[j] PROVE i = j
  <2>1. f[i] \in DOMAIN Fetched /\ f[j] \in DOMAIN Fetched
    BY <1>8
  <2>2. f[i] = f[j]
    BY <1>6, <1>10, <2>1, FetchedIdsDiffer
  <2>3. f[i] \in Int
    BY <1>1, <2>1
  <2>4. ~(i < j) /\ ~(j < i)
    BY <1>7, <2>2, <2>3
  <2> QED BY <1>2, <2>4
<1> QED BY <1>6, <1>9, <1>10
-----------------------------------------------------------------------------
(* Types.  A process that works on a match has it at the head of its       *)
(* queue, and is in a pass that was begun.                                 *)
InMatch == {"speech", "odds", "score", "candidates", "select", "bets"}
InPass == InMatch \cup {"match"}

Works(r) ==
  /\ r.pc \in InMatch => r.queue # <<>>
  /\ r.pc \in LoopStages => r.pass >= 1
  /\ r.pc \in {"off", "model"} => r.pass = 0

TypeInv == AutopilotTypeOK /\ \A s \in Runs : Works(run[s])

LEMMA NewRunFits == NewRun \in Run /\ Works(NewRun)
<1>1. <<>> \in Seq(Ids) /\ <<>> \in Seq(Candidate)
  OBVIOUS
<1>2. 0 \in 0 .. MaxPasses
  BY MaxPassesIsPositive
<1> QED BY <1>1, <1>2 DEF NewRun, Run, Candidate, Works, InMatch, LoopStages, Modes

LEMMA TypeInit == AutopilotInit => TypeInv
<1> SUFFICES ASSUME AutopilotInit PROVE TypeInv
  OBVIOUS
<1>1. bets \in [Bets -> BetRow] /\ settler \in [Settlers -> Settler]
  BY InitHolds DEF BookInv
<1>2. owed \in [Settlers -> [Bets -> Outcomes \cup {"none"}]]
  BY DEF AutopilotInit, SettlementInit, Nothing
<1> QED BY <1>1, <1>2, NewRunFits
        DEF AutopilotInit, TypeInv, AutopilotTypeOK, SettlementTypeOK

(* The book keeps its types: see BookInv.                                  *)
LEMMA OwedTypes ==
  ASSUME BookInv, SettlementTypeOK, NEW p \in Settlers, SettlerStep(p)
  PROVE  owed' \in [Settlers -> [Bets -> Outcomes \cup {"none"}]]
<1>1. ASSUME NEW rows \in Files, StartImport(p, rows)
      PROVE  owed' \in [Settlers -> [Bets -> Outcomes \cup {"none"}]]
  <2>1. ASSUME NEW b \in Bets PROVE LastOutcome(rows, b) \in Outcomes \cup {"none"}
    <3> DEFINE good == GoodRows(rows, b)
    <3>1. LastOutcome(rows, b) = IF good = {} \/ b \notin Recorded THEN "none"
                                 ELSE rows[Max(good)].outcome
      BY DEF LastOutcome, GoodRows
    <3>2. rows \in Seq(Row) /\ Len(rows) \in Nat /\ good \in SUBSET (1 .. Len(rows))
      BY FilesAreRows DEF GoodRows
    <3>3. good # {} => Max(good) \in good
      <4>1. ASSUME good # {} PROVE \E m \in good : \A n \in good : n <= m
        <5> HIDE DEF good
        <5> QED BY <3>2, <4>1, GreatestElement
      <4>2. ASSUME good # {} PROVE \E m \in good : \A n \in good : m >= n
        BY <3>2, <4>1, <4>2
      <4> HIDE DEF good
      <4> QED BY <4>2 DEF Max
    <3>4. \A i \in good : rows[i].outcome \in Outcomes
      <4>1. ASSUME NEW i \in good PROVE rows[i].outcome \in Outcomes
        <5>1. rows[i] \in Row /\ rows[i].outcome # "invalid"
          BY <3>2 DEF GoodRows
        <5> QED BY <5>1 DEF Row
      <4> QED BY <4>1
    <3> HIDE DEF good
    <3> QED BY <3>1, <3>3, <3>4
  <2> QED BY <1>1, <2>1 DEF StartImport, SettlementTypeOK
<1>2. ASSUME UpdateBet(p)
      PROVE  owed' \in [Settlers -> [Bets -> Outcomes \cup {"none"}]]
  BY <1>2 DEF UpdateBet, SettlementTypeOK
<1>3. CASE SkipRow(p) \/ ReadBet(p) \/ FinishImport(p)
  <2>1. UNCHANGED owed
    BY <1>3 DEF SkipRow, ReadBet, FinishImport
  <2> QED BY <2>1 DEF SettlementTypeOK
<1>4. CASE ImportAborts(p)
  BY <1>4 DEF ImportAborts, Nothing, SettlementTypeOK
<1> QED BY <1>1, <1>2, <1>3, <1>4 DEF SettlerStep

LEMMA BookTypes ==
  ASSUME BookInv, BookInv', SettlementTypeOK, [AutopilotNext]_autopilotAllVars
  PROVE  SettlementTypeOK'
<1>1. owed' \in [Settlers -> [Bets -> Outcomes \cup {"none"}]]
  <2>1. CASE UNCHANGED owed
    BY <2>1 DEF SettlementTypeOK
  <2>2. ASSUME NEW s \in Runs,
               (\E mode \in Modes : OpenSession(s, mode)) \/ Step(s) \/ Fault(s)
        PROVE  UNCHANGED owed
    BY <2>2, CommandSteps DEF settlementVars, SaveBet
  <2>3. CASE UNCHANGED autopilotAllVars
    BY <2>1, <2>3 DEF autopilotAllVars, settlementVars
  <2> QED BY <2>1, <2>2, <2>3, OwedTypes DEF AutopilotNext
<1> QED BY <1>1 DEF BookInv, SettlementTypeOK

(* A step of a command replaces its process.                               *)
RowsTyped ==
  /\ sessions \in [Runs -> {"none", "active", "ended"}]
  /\ matchRows \subseteq Runs \X Ids
  /\ speechRows \subseteq Runs \X (1 .. MaxPasses) \X Ids \X Nat \X Line
  /\ oddsRows \subseteq Runs \X Ids \X Offers
  /\ candidates \subseteq CandidateRow

LEMMA TypeFrame ==
  ASSUME TypeInv, NEW s \in Runs, NEW r, run' = [run EXCEPT ![s] = r],
         r \in Run, Works(r), RowsTyped', SettlementTypeOK'
  PROVE  TypeInv'
<1>1. run' \in [Runs -> Run]
  BY DEF TypeInv, AutopilotTypeOK
<1>2. \A q \in Runs : Works(run'[q])
  BY DEF TypeInv, AutopilotTypeOK
<1> QED BY <1>1, <1>2 DEF TypeInv, AutopilotTypeOK, RowsTyped

(* What the types say of one process.                                      *)
LEMMA RunIs ==
  ASSUME TypeInv, NEW s \in Runs
  PROVE  /\ run[s] \in Run /\ Works(run[s]) /\ RowsTyped
         /\ run[s].pass \in 0 .. MaxPasses /\ run[s].todo \in Nat /\ run[s].mode \in Modes
         /\ run[s].queue \in Seq(Ids) /\ run[s].cands \in Seq(Candidate)
         /\ run[s].speech \in Seq(Line)
         /\ run[s].pc \in InMatch => Current(s) \in Ids /\ run[s].pass \in 1 .. MaxPasses
<1>1. run[s] \in Run /\ Works(run[s]) /\ RowsTyped
  BY DEF TypeInv, AutopilotTypeOK, RowsTyped
<1>2. /\ run[s].pass \in 0 .. MaxPasses /\ run[s].todo \in Nat /\ run[s].mode \in Modes
      /\ run[s].queue \in Seq(Ids) /\ run[s].cands \in Seq(Candidate)
      /\ run[s].speech \in Transcripts \cup {<<>>}
  BY <1>1 DEF Run, Candidate
<1>3. run[s].speech \in Seq(Line)
  <2>1. <<>> \in Seq(Line)
    OBVIOUS
  <2> QED BY <1>2, <2>1, TranscriptsAreLines
<1>4. run[s].pc \in InMatch => Current(s) \in Ids /\ run[s].pass \in 1 .. MaxPasses
  <2>1. run[s].pc \in InMatch => run[s].queue # <<>> /\ run[s].pass >= 1
    BY <1>1 DEF Works, InMatch, LoopStages
  <2>2. run[s].queue # <<>> => Current(s) \in Ids
    BY <1>2 DEF Current
  <2> QED BY <1>2, <2>1, <2>2, MaxPassesIsPositive
<1> QED BY <1>1, <1>2, <1>3, <1>4

(* The new state of a process in a step that saves no row.                 *)
LEMMA QuietTypes ==
  ASSUME TypeInv, NEW s \in Runs,
         \/ \E mode \in Modes : OpenSession(s, mode)
         \/ LoadModel(s) \/ EndPass(s) \/ PassFails(s) \/ CloseSession(s) \/ Kill(s)
  PROVE  /\ \E r \in Run : run' = [run EXCEPT ![s] = r] /\ Works(r)
         /\ RowsTyped'
<1>1. run[s] \in Run /\ Works(run[s]) /\ RowsTyped /\ run[s].pass \in 0 .. MaxPasses
  BY RunIs
<1>2. \A exit \in {"ok", "failed", "killed", "none"} :
        Gone(run[s], exit) \in Run /\ Works(Gone(run[s], exit))
  <2>1. \A exit \in {"ok", "failed", "killed", "none"} : Gone(run[s], exit) \in Run
    BY <1>1, NewRunFits DEF Gone, Run
  <2>2. \A exit : Gone(run[s], exit).pc = "gone"
    BY DEF Gone, NewRun
  <2> QED BY <2>1, <2>2 DEF Works, InMatch, LoopStages
<1>3. CASE \E mode \in Modes : OpenSession(s, mode)
  <2>1. PICK mode \in Modes : OpenSession(s, mode)
    BY <1>3
  <2> DEFINE r == [run[s] EXCEPT !.pc = "model", !.mode = mode]
  <2>2. r \in Run /\ Works(r)
    <3>1. r \in Run
      BY <1>1, <2>1 DEF Run
    <3>2. run[s].pass = 0
      BY <1>1, <2>1 DEF OpenSession, Works
    <3>3. r.pass = 0 /\ r.pc = "model"
      BY <1>1, <3>2 DEF Run
    <3> QED BY <3>1, <3>3 DEF Works, InMatch, LoopStages
  <2>3. run' = [run EXCEPT ![s] = r] \/ run' = [run EXCEPT ![s] = Gone(run[s], "failed")]
    BY <2>1 DEF OpenSession
  <2>4. RowsTyped'
    BY <1>1, <2>1 DEF OpenSession, RowsTyped
  <2> HIDE DEF r
  <2> QED BY <1>2, <2>2, <2>3, <2>4
<1>4. CASE LoadModel(s)
  <2> DEFINE r == [run[s] EXCEPT !.pc = "pass", !.pass = 1]
             q == [run[s] EXCEPT !.pc = "gone", !.exit = "failed"]
  <2>1. r \in Run /\ r.pc = "pass" /\ r.pass = 1
    <3>1. 1 \in 0 .. MaxPasses
      BY MaxPassesIsPositive
    <3> QED BY <1>1, <3>1 DEF Run, LoopStages
  <2>2. q \in Run /\ q.pc = "gone"
    BY <1>1 DEF Run
  <2>3. run' = [run EXCEPT ![s] = r] \/ run' = [run EXCEPT ![s] = q]
    BY <1>4 DEF LoadModel
  <2>4. RowsTyped'
    BY <1>1, <1>4 DEF LoadModel, RowsTyped
  <2> HIDE DEF r, q
  <2> QED BY <2>1, <2>2, <2>3, <2>4 DEF Works, InMatch, LoopStages
<1>5. CASE EndPass(s)
  <2> DEFINE r == [run[s] EXCEPT !.pc = "pass", !.pass = @ + 1]
             q == [run[s] EXCEPT !.pc = "stop", !.exit = "ok"]
  <2>1. ASSUME run[s].pass < MaxPasses
        PROVE  r \in Run /\ r.pc = "pass" /\ r.pass >= 1
    <3>1. run[s].pass + 1 \in 0 .. MaxPasses /\ run[s].pass + 1 >= 1
      BY <1>1, <2>1, MaxPassesIsPositive
    <3>2. r \in Run
      BY <1>1, <3>1 DEF Run, LoopStages
    <3>3. r.pc = "pass" /\ r.pass = run[s].pass + 1
      BY <1>1 DEF Run
    <3> QED BY <3>1, <3>2, <3>3
  <2>2. q \in Run /\ q.pc = "stop"
    BY <1>1 DEF Run
  <2>3. run' = [run EXCEPT ![s] = IF run[s].pass < MaxPasses THEN r ELSE q]
    BY <1>5 DEF EndPass
  <2>4. RowsTyped'
    BY <1>1, <1>5 DEF EndPass, RowsTyped
  <2> HIDE DEF r, q
  <2> QED BY <2>1, <2>2, <2>3, <2>4 DEF Works, InMatch, LoopStages
<1>6. CASE PassFails(s)
  <2> DEFINE r == [run[s] EXCEPT !.pc = "stop", !.exit = "failed"]
  <2>1. r \in Run /\ r.pc = "stop"
    BY <1>1 DEF Run
  <2>2. run' = [run EXCEPT ![s] = r]
    BY <1>6 DEF PassFails
  <2>3. RowsTyped'
    BY <1>1, <1>6 DEF PassFails, RowsTyped
  <2> HIDE DEF r
  <2> QED BY <2>1, <2>2, <2>3 DEF Works, InMatch, LoopStages
<1>7. CASE CloseSession(s)
  <2>1. run[s].exit \in {"ok", "failed", "killed", "none"}
    BY <1>1 DEF Run
  <2>2. run' = [run EXCEPT ![s] = Gone(run[s], run[s].exit)]
    BY <1>7 DEF CloseSession
  <2>3. RowsTyped'
    BY <1>1, <1>7 DEF CloseSession, RowsTyped
  <2> QED BY <1>2, <2>1, <2>2, <2>3
<1>8. CASE Kill(s)
  <2>1. run' = [run EXCEPT ![s] = Gone(run[s], "killed")]
    BY <1>8 DEF Kill
  <2>2. RowsTyped'
    BY <1>1, <1>8 DEF Kill, RowsTyped
  <2> QED BY <1>2, <2>1, <2>2
<1> QED BY <1>3, <1>4, <1>5, <1>6, <1>7, <1>8

LEMMA StageTypes ==
  ASSUME TypeInv, NEW s \in Runs,
         \/ BeginPass(s) \/ ScoreCandidates(s) \/ Select(s) \/ PlaceBet(s) \/ NextMatch(s)
  PROVE  /\ \E r \in Run : run' = [run EXCEPT ![s] = r] /\ Works(r)
         /\ RowsTyped'
<1>1. run[s] \in Run /\ Works(run[s]) /\ RowsTyped /\ run[s].pass \in 0 .. MaxPasses
  BY RunIs
<1>2. RowsTyped'
  BY <1>1 DEF BeginPass, ScoreCandidates, Select, PlaceBet, NextMatch, RowsTyped
<1>3. /\ run[s].queue \in Seq(Ids) /\ run[s].cands \in Seq(Candidate)
      /\ run[s].speech \in Seq(Line)
  BY RunIs
<1>4. CASE BeginPass(s)
  <2>1. PICK speech \in Transcripts :
          run' = [run EXCEPT ![s].pc = "match", ![s].queue = ScopedIds, ![s].speech = speech]
    BY <1>4 DEF BeginPass
  <2> DEFINE r == [run[s] EXCEPT !.pc = "match", !.queue = ScopedIds, !.speech = speech]
  <2>2. r \in Run /\ r.pc = "match" /\ r.pass = run[s].pass
    BY <1>1, <2>1, ScopedIdsDiffer DEF Run, LoopStages
  <2>3. run[s].pass >= 1
    BY <1>1, <1>4 DEF BeginPass, Works, LoopStages
  <2>4. run' = [run EXCEPT ![s] = r]
    BY <2>1
  <2> HIDE DEF r
  <2> QED BY <1>2, <2>2, <2>3, <2>4 DEF Works, InMatch, LoopStages
<1>5. CASE ScoreCandidates(s)
  <2>1. PICK ml \in [DOMAIN OfferList -> Scores \cup {NoScore}] :
          run' = [run EXCEPT ![s].pc = "candidates",
                    ![s].cands = [k \in DOMAIN OfferList |->
                                    Scored(OfferList[k], run[s].speech, ml[k])]]
    BY <1>5 DEF ScoreCandidates
  <2> DEFINE cs == [k \in DOMAIN OfferList |-> Scored(OfferList[k], run[s].speech, ml[k])]
             r == [run[s] EXCEPT !.pc = "candidates", !.cands = cs]
  <2>2. cs \in Seq(Candidate)
    <3>1. DOMAIN OfferList = 1 .. Len(OfferList) /\ Len(OfferList) \in Nat
      BY OfferListHasOffers
    <3>2. \A k \in DOMAIN OfferList : Scored(OfferList[k], run[s].speech, ml[k]) \in Candidate
      BY <1>3, <2>1, OfferListHasOffers, ScoredIsCandidate
    <3> QED BY <3>1, <3>2
  <2>3. run' = [run EXCEPT ![s] = r]
    BY <2>1
  <2> HIDE DEF cs
  <2>4. r \in Run /\ r.pc = "candidates" /\ r.pass = run[s].pass /\ r.queue = run[s].queue
    BY <1>1, <2>2 DEF Run, LoopStages, Candidate
  <2>5. run[s].pass >= 1 /\ run[s].queue # <<>>
    BY <1>1, <1>5 DEF ScoreCandidates, Works, LoopStages, InMatch
  <2> HIDE DEF r
  <2> QED BY <1>2, <2>3, <2>4, <2>5 DEF Works, InMatch, LoopStages
<1>6. CASE Select(s)
  <2> DEFINE r == [run[s] EXCEPT !.pc = "bets", !.cands = SelectBets(run[s].cands)]
  <2>1. SelectBets(run[s].cands) \in Seq(Candidate)
    BY <1>3, SelectPicks DEF PicksWell
  <2>2. r \in Run /\ r.pc = "bets" /\ r.pass = run[s].pass /\ r.queue = run[s].queue
    BY <1>1, <2>1 DEF Run, LoopStages, Candidate
  <2>3. run[s].pass >= 1 /\ run[s].queue # <<>>
    BY <1>1, <1>6 DEF Select, Works, LoopStages, InMatch
  <2>4. run' = [run EXCEPT ![s] = r]
    BY <1>6 DEF Select
  <2> HIDE DEF r
  <2> QED BY <1>2, <2>2, <2>3, <2>4 DEF Works, InMatch, LoopStages
<1>7. CASE PlaceBet(s)
  <2> DEFINE r == [run[s] EXCEPT !.cands = Tail(run[s].cands)]
             q == [run[s] EXCEPT !.pc = "stop", !.exit = "failed"]
  <2>1. Tail(run[s].cands) \in Seq(Candidate) /\ run[s].pc = "bets"
    BY <1>3, <1>7 DEF PlaceBet
  <2>2. r \in Run /\ r.pc = "bets" /\ r.pass = run[s].pass /\ r.queue = run[s].queue
    BY <1>1, <2>1 DEF Run, Candidate
  <2>3. q \in Run /\ q.pc = "stop"
    BY <1>1 DEF Run
  <2>4. run[s].pass >= 1 /\ run[s].queue # <<>>
    BY <1>1, <2>1 DEF Works, LoopStages, InMatch
  <2>5. run' = [run EXCEPT ![s] = r] \/ run' = [run EXCEPT ![s] = q]
    BY <1>7 DEF PlaceBet
  <2> HIDE DEF r, q
  <2> QED BY <1>2, <2>2, <2>3, <2>4, <2>5 DEF Works, InMatch, LoopStages
<1>8. CASE NextMatch(s)
  <2> DEFINE r == [run[s] EXCEPT !.pc = "match", !.queue = Tail(run[s].queue)]
  <2>1. run[s].pass >= 1 /\ run[s].queue # <<>>
    BY <1>1, <1>8 DEF NextMatch, Works, LoopStages, InMatch
  <2>2. Tail(run[s].queue) \in Seq(Ids)
    BY <1>3, <2>1
  <2>3. r \in Run /\ r.pc = "match" /\ r.pass = run[s].pass
    BY <1>1, <2>2 DEF Run, LoopStages
  <2>4. run' = [run EXCEPT ![s] = r]
    BY <1>8 DEF NextMatch
  <2> HIDE DEF r
  <2> QED BY <1>2, <2>1, <2>3, <2>4 DEF Works, InMatch, LoopStages
<1> QED BY <1>4, <1>5, <1>6, <1>7, <1>8

(* The new state of a process in a step that saves a row, and the row.     *)
LEMMA SaveTypes ==
  ASSUME TypeInv, NEW s \in Runs,
         \/ SaveMatch(s) \/ SaveSpeech(s) \/ SaveOdds(s) \/ SaveCandidate(s)
  PROVE  /\ \E r \in Run : run' = [run EXCEPT ![s] = r] /\ Works(r)
         /\ RowsTyped'
<1>1. /\ run[s] \in Run /\ Works(run[s]) /\ RowsTyped /\ run[s].todo \in Nat
      /\ run[s].queue \in Seq(Ids) /\ run[s].cands \in Seq(Candidate)
      /\ run[s].speech \in Seq(Line)
      /\ run[s].pc \in InMatch => Current(s) \in Ids /\ run[s].pass \in 1 .. MaxPasses
  BY RunIs
<1>2. ASSUME NEW pc \in InMatch, NEW n \in Nat,
             run[s].queue # <<>>, run[s].pc \in LoopStages,
             run' = [run EXCEPT ![s].pc = pc, ![s].todo = n]
      PROVE  \E r \in Run : run' = [run EXCEPT ![s] = r] /\ Works(r)
  <2> DEFINE r == [run[s] EXCEPT !.pc = pc, !.todo = n]
  <2>1. r \in Run /\ r.pc = pc /\ r.queue = run[s].queue /\ r.pass = run[s].pass
    BY <1>1, <1>2 DEF Run, InMatch, LoopStages
  <2>2. run' = [run EXCEPT ![s] = r]
    BY <1>2
  <2>3. run[s].pass >= 1
    BY <1>1, <1>2 DEF Works
  <2> HIDE DEF r
  <2> QED BY <1>2, <2>1, <2>2, <2>3 DEF Works, InMatch
<1>3. ASSUME NEW n \in Nat, run[s].pc \in InMatch, run' = [run EXCEPT ![s].todo = n]
      PROVE  \E r \in Run : run' = [run EXCEPT ![s] = r] /\ Works(r)
  <2> DEFINE r == [run[s] EXCEPT !.todo = n]
  <2>1. r \in Run /\ r.pc = run[s].pc /\ r.queue = run[s].queue /\ r.pass = run[s].pass
    BY <1>1, <1>3 DEF Run
  <2>2. run' = [run EXCEPT ![s] = r]
    BY <1>3
  <2> HIDE DEF r
  <2> QED BY <1>1, <2>1, <2>2 DEF Works
<1>4. CASE SaveMatch(s)
  <2>1. /\ run' = [run EXCEPT ![s].pc = "speech", ![s].todo = 0]
        /\ run[s].queue # <<>> /\ run[s].pc = "match"
    BY <1>4 DEF SaveMatch
  <2>2. Current(s) \in Ids
    BY <1>1, <2>1 DEF Current
  <2>3. RowsTyped'
    BY <1>1, <1>4, <2>2 DEF SaveMatch, RowsTyped
  <2> QED BY <1>2, <2>1, <2>3 DEF InMatch, LoopStages
<1>5. CASE SaveSpeech(s)
  <2> DEFINE k == run[s].todo + 1
  <2>1. run[s].pc = "speech" /\ run[s].queue # <<>>
    BY <1>1, <1>5 DEF SaveSpeech, Works, InMatch
  <2>2. \E r \in Run : run' = [run EXCEPT ![s] = r] /\ Works(r)
    <3>1. CASE k \in DOMAIN run[s].speech
      <4>1. k \in Nat /\ run[s].pc \in InMatch
        BY <1>1, <2>1 DEF InMatch
      <4>2. run' = [run EXCEPT ![s].todo = k]
        BY <1>5, <3>1 DEF SaveSpeech
      <4> HIDE DEF k
      <4> QED BY <1>3, <4>1, <4>2
    <3>2. CASE k \notin DOMAIN run[s].speech
      BY <1>1, <1>2, <1>5, <2>1, <3>2 DEF SaveSpeech, InMatch, LoopStages
    <3> QED BY <3>1, <3>2
  <2>3. speechRows' \subseteq Runs \X (1 .. MaxPasses) \X Ids \X Nat \X Line
    <3>1. k \in DOMAIN run[s].speech => run[s].speech[k] \in Line /\ k \in Nat
      BY <1>1
    <3>2. Current(s) \in Ids /\ run[s].pass \in 1 .. MaxPasses
      BY <1>1, <2>1 DEF InMatch
    <3>3. speechRows \subseteq Runs \X (1 .. MaxPasses) \X Ids \X Nat \X Line
      BY <1>1 DEF RowsTyped
    <3>4. CASE k \in DOMAIN run[s].speech
      BY <1>5, <3>1, <3>2, <3>3, <3>4 DEF SaveSpeech
    <3>5. CASE k \notin DOMAIN run[s].speech
      BY <1>5, <3>3, <3>5 DEF SaveSpeech
    <3> QED BY <3>4, <3>5
  <2>4. RowsTyped'
    BY <1>1, <1>5, <2>3 DEF SaveSpeech, RowsTyped
  <2> QED BY <2>2, <2>4
<1>6. CASE SaveOdds(s)
  <2> DEFINE k == run[s].todo + 1
  <2>1. run[s].pc = "odds" /\ run[s].queue # <<>>
    BY <1>1, <1>6 DEF SaveOdds, Works, InMatch
  <2>2. \E r \in Run : run' = [run EXCEPT ![s] = r] /\ Works(r)
    <3>1. CASE k \in DOMAIN OfferList
      <4>1. k \in Nat /\ run[s].pc \in InMatch
        BY <1>1, <2>1 DEF InMatch
      <4>2. run' = [run EXCEPT ![s].todo = k]
        BY <1>6, <3>1 DEF SaveOdds
      <4> HIDE DEF k
      <4> QED BY <1>3, <4>1, <4>2
    <3>2. CASE k \notin DOMAIN OfferList
      BY <1>1, <1>2, <1>6, <2>1, <3>2 DEF SaveOdds, InMatch, LoopStages
    <3> QED BY <3>1, <3>2
  <2>3. oddsRows' \subseteq Runs \X Ids \X Offers
    <3>1. k \in DOMAIN OfferList => OfferList[k] \in Offers
      BY OfferListHasOffers
    <3>2. Current(s) \in Ids
      BY <1>1, <2>1 DEF InMatch
    <3> QED BY <1>1, <1>6, <3>1, <3>2 DEF SaveOdds, RowsTyped
  <2>4. RowsTyped'
    BY <1>1, <1>6, <2>3 DEF SaveOdds, RowsTyped
  <2> QED BY <2>2, <2>4
<1>7. CASE SaveCandidate(s)
  <2> DEFINE k == run[s].todo + 1
             c == run[s].cands[k]
             row == [id |-> BetOf(s, c.offer), rule |-> c.rule, score |-> c.score,
                     decision |-> c.decision]
  <2>1. run[s].pc = "candidates" /\ run[s].queue # <<>>
    BY <1>1, <1>7 DEF SaveCandidate, Works, InMatch
  <2>2. \E r \in Run : run' = [run EXCEPT ![s] = r] /\ Works(r)
    <3>1. CASE k \in DOMAIN run[s].cands
      <4>1. k \in Nat /\ run[s].pc \in InMatch
        BY <1>1, <2>1 DEF InMatch
      <4>2. run' = [run EXCEPT ![s].todo = k]
        BY <1>7, <3>1 DEF SaveCandidate
      <4> HIDE DEF k
      <4> QED BY <1>3, <4>1, <4>2
    <3>2. CASE k \notin DOMAIN run[s].cands
      BY <1>1, <1>2, <1>7, <2>1, <3>2 DEF SaveCandidate, InMatch, LoopStages
    <3> QED BY <3>1, <3>2
  <2>3. k \in DOMAIN run[s].cands => row \in CandidateRow
    <3>1. SUFFICES ASSUME k \in DOMAIN run[s].cands PROVE row \in CandidateRow
      OBVIOUS
    <3>2. c \in Candidate
      BY <1>1, <3>1
    <3>3. Current(s) \in Ids /\ run[s].pass \in 1 .. MaxPasses
      BY <1>1, <2>1 DEF InMatch
    <3>4. BetOf(s, c.offer) \in Bets
      BY <3>2, <3>3, BetsAreCandidates DEF BetOf, Candidate
    <3> QED BY <3>2, <3>4 DEF CandidateRow, Candidate
  <2>4. candidates' \subseteq candidates \cup (IF k \in DOMAIN run[s].cands THEN {row} ELSE {})
    BY <1>7 DEF SaveCandidate
  <2>5. candidates' \subseteq CandidateRow
    <3> HIDE DEF row, k
    <3> QED BY <1>1, <2>3, <2>4 DEF RowsTyped
  <2>6. RowsTyped'
    BY <1>1, <1>7, <2>5 DEF SaveCandidate, RowsTyped
  <2> QED BY <2>2, <2>6
<1> QED BY <1>4, <1>5, <1>6, <1>7

(* A command replaces its process and nothing else of run.                 *)
LEMMA ProcessSteps ==
  ASSUME TypeInv, NEW s \in Runs,
         (\E mode \in Modes : OpenSession(s, mode)) \/ Step(s) \/ Fault(s)
  PROVE  /\ \E r \in Run : run' = [run EXCEPT ![s] = r] /\ Works(r)
         /\ RowsTyped'
<1>1. CASE \E mode \in Modes : OpenSession(s, mode)
  BY <1>1, QuietTypes
<1>2. CASE Step(s) \/ Fault(s)
  BY <1>2, QuietTypes, StageTypes, SaveTypes DEF Step, Fault
<1> QED BY <1>1, <1>2

LEMMA TypeStep == BookInv /\ TypeInv /\ [AutopilotNext]_autopilotAllVars => TypeInv'
<1> SUFFICES ASSUME BookInv, TypeInv, [AutopilotNext]_autopilotAllVars PROVE TypeInv'
  OBVIOUS
<1>1. SettlementTypeOK'
  BY StepKeeps, BookTypes DEF TypeInv, AutopilotTypeOK
<1>2. ASSUME UNCHANGED autopilotVars PROVE TypeInv'
  BY <1>1, <1>2 DEF autopilotVars, TypeInv, AutopilotTypeOK
<1>3. ASSUME NEW s \in Runs,
             (\E mode \in Modes : OpenSession(s, mode)) \/ Step(s) \/ Fault(s)
      PROVE  TypeInv'
  BY <1>1, <1>3, ProcessSteps, TypeFrame
<1>4. CASE UNCHANGED autopilotAllVars
  BY <1>2, <1>4 DEF autopilotAllVars
<1> QED BY <1>2, <1>3, <1>4 DEF AutopilotNext

LEMMA TypesKept == AutopilotSpec => []TypeInv
  BY TypeInit, TypeStep, BookInvariant, PTL DEF AutopilotSpec
-----------------------------------------------------------------------------
(* Scores.  The utterances stored for a match in a pass are those that the *)
(* process heard; a stored candidate was scored by them, and a bet has     *)
(* such a candidate behind it.                                             *)
Said(id, speech) == {<<id.run, id.pass, id.match, k, speech[k]>> : k \in DOMAIN speech}
RowsOf(rows, id) == {u \in rows : <<u[1], u[2], u[3]>> = <<id.run, id.pass, id.match>>}

(* The utterances of a process, from the passes before its own and from    *)
(* its own.                                                                *)
RowsFit(rows, s, r) ==
  \A u \in rows : u[1] = s =>
    /\ u[2] <= r.pass
    /\ r.pc = "pass" => u[2] < r.pass
    /\ r.pc \in InPass /\ u[2] = r.pass =>
         u[4] \in DOMAIN r.speech /\ u[5] = r.speech[u[4]]

Traced(rows, r, c) ==
  /\ c.id.pass <= r.pass
  /\ r.pc = "pass" => c.id.pass < r.pass
  /\ \E speech \in Seq(Line) :
       /\ RowsOf(rows, c.id) = Said(c.id, speech)
       /\ c.rule = RuleScore(c.id.offer, speech)
       /\ r.pc \in InPass /\ c.id.pass = r.pass => speech = r.speech

Spoken(s, k) == <<s, run[s].pass, Current(s), k, run[s].speech[k]>>
Saved(s, c) == \E row \in candidates : row.id = BetOf(s, c.offer) /\ row.score = c.score

StageOK(s) ==
  /\ run[s].pc = "speech" => \A k \in 1 .. run[s].todo : Spoken(s, k) \in speechRows
  /\ run[s].pc \in InMatch \ {"speech"} =>
       \A k \in DOMAIN run[s].speech : Spoken(s, k) \in speechRows
  /\ run[s].pc = "score" => run[s].todo = 0
  /\ run[s].pc \in {"candidates", "select", "bets"} =>
       \A k \in DOMAIN run[s].cands :
         run[s].cands[k].rule = RuleScore(run[s].cands[k].offer, run[s].speech)
  /\ run[s].pc = "candidates" => \A k \in 1 .. run[s].todo : Saved(s, run[s].cands[k])
  /\ run[s].pc \in {"select", "bets"} =>
       \A k \in DOMAIN run[s].cands : Saved(s, run[s].cands[k])
  /\ run[s].pc = "bets" => \A k \in DOMAIN run[s].cands : run[s].cands[k].score >= Threshold

ScoreInv ==
  /\ \A s \in Runs : RowsFit(speechRows, s, run[s]) /\ StageOK(s)
  /\ \A c \in candidates : Traced(speechRows, run[c.id.run], c)
  /\ \A b \in Recorded : \E c \in candidates : c.id = b /\ c.score >= Threshold

LEMMA ScoreInit == AutopilotInit => ScoreInv
<1> SUFFICES ASSUME AutopilotInit PROVE ScoreInv
  OBVIOUS
<1>1. Recorded = {} /\ speechRows = {} /\ candidates = {}
  BY DEF AutopilotInit, SettlementInit, Recorded, NoBet
<1>2. \A s \in Runs : run[s].pc = "off"
  BY DEF AutopilotInit, NewRun
<1> QED BY <1>1, <1>2 DEF ScoreInv, RowsFit, StageOK, InMatch

(* Passes only go forward, and what was heard in one does not change.      *)
Evolves(r, r2) ==
  /\ r.pass <= r2.pass
  /\ r2.pc = "pass" => r.pass < r2.pass
  /\ r2.pc \in InPass =>
       r2.pass = r.pass /\ (r.pc = "pass" \/ (r.pc \in InPass /\ r2.speech = r.speech))

LEMMA StepsEvolve ==
  ASSUME TypeInv, NEW s \in Runs,
         (\E mode \in Modes : OpenSession(s, mode)) \/ Step(s) \/ Fault(s)
  PROVE  Evolves(run[s], run'[s])
<1>1. run[s] \in Run /\ Works(run[s]) /\ run[s].pass \in 0 .. MaxPasses /\ s \in DOMAIN run
  BY RunIs DEF TypeInv, AutopilotTypeOK
<1>2. \A p \in 0 .. MaxPasses : p <= p /\ p < p + 1 /\ p <= p + 1
  BY MaxPassesIsPositive
<1>3. \A exit : /\ Gone(run[s], exit).pass = run[s].pass
                /\ Gone(run[s], exit).pc = "gone"
  BY DEF Gone, NewRun
<1>4. CASE \E mode \in Modes : OpenSession(s, mode)
  <2>1. run'[s].pass = run[s].pass /\ run'[s].pc \in {"model", "gone"}
    BY <1>1, <1>3, <1>4 DEF OpenSession, Run
  <2> QED BY <1>1, <1>2, <2>1 DEF Evolves, InPass, InMatch
<1>5. CASE LoadModel(s)
  <2>1. run[s].pass = 0
    BY <1>1, <1>5 DEF LoadModel, Works
  <2>2. \/ run'[s].pass = 1 /\ run'[s].pc = "pass"
        \/ run'[s].pass = 0 /\ run'[s].pc = "gone"
    BY <1>1, <1>5, <2>1 DEF LoadModel, Run
  <2> QED BY <2>1, <2>2 DEF Evolves, InPass, InMatch
<1>6. CASE BeginPass(s)
  BY <1>1, <1>2, <1>6 DEF BeginPass, Evolves, Run, InPass, InMatch
<1>7. CASE SaveMatch(s)
  BY <1>1, <1>2, <1>7 DEF SaveMatch, Evolves, Run, InPass, InMatch
<1>8. CASE SaveSpeech(s)
  BY <1>1, <1>2, <1>8 DEF SaveSpeech, Evolves, Run, InPass, InMatch
<1>9. CASE SaveOdds(s)
  <2>1. /\ run'[s].pass = run[s].pass /\ run'[s].speech = run[s].speech
        /\ run'[s].pc \in InMatch /\ run[s].pc \in InMatch
    BY <1>1, <1>9 DEF SaveOdds, Run, InMatch
  <2> QED BY <1>1, <1>2, <2>1 DEF Evolves, InPass, InMatch
<1>10. CASE ScoreCandidates(s)
  BY <1>1, <1>2, <1>10 DEF ScoreCandidates, Evolves, Run, InPass, InMatch
<1>11. CASE SaveCandidate(s)
  <2>1. /\ run'[s].pass = run[s].pass /\ run'[s].speech = run[s].speech
        /\ run'[s].pc \in InMatch /\ run[s].pc \in InMatch
    BY <1>1, <1>11 DEF SaveCandidate, Run, InMatch
  <2> QED BY <1>1, <1>2, <2>1 DEF Evolves, InPass, InMatch
<1>12. CASE Select(s)
  BY <1>1, <1>2, <1>12 DEF Select, Evolves, Run, InPass, InMatch
<1>13. CASE PlaceBet(s)
  BY <1>1, <1>2, <1>13 DEF PlaceBet, Evolves, Run, InPass, InMatch
<1>14. CASE NextMatch(s)
  BY <1>1, <1>2, <1>14 DEF NextMatch, Evolves, Run, InPass, InMatch
<1>15. CASE EndPass(s)
  BY <1>1, <1>2, <1>15 DEF EndPass, Evolves, Run, InPass, InMatch
<1>16. CASE CloseSession(s)
  BY <1>1, <1>2, <1>3, <1>16 DEF CloseSession, Evolves, Run, InPass, InMatch
<1>17. CASE PassFails(s)
  BY <1>1, <1>2, <1>17 DEF PassFails, Evolves, Run, InPass, InMatch
<1>18. CASE Kill(s)
  BY <1>1, <1>2, <1>3, <1>18 DEF Kill, Evolves, Run, InPass, InMatch
<1> QED BY <1>4, <1>5, <1>6, <1>7, <1>8, <1>9, <1>10, <1>11, <1>12, <1>13, <1>14, <1>15,
     <1>16, <1>17, <1>18 DEF Step, Fault

(* What is stored stays explained when a process moves on.                 *)
LEMMA RowsStayFit ==
  ASSUME NEW s, NEW r, NEW r2, Evolves(r, r2), NEW rows, RowsFit(rows, s, r),
         r.pass \in Nat, r2.pass \in Nat, \A u \in rows : u[2] \in Nat
  PROVE  RowsFit(rows, s, r2)
  BY DEF RowsFit, Evolves

LEMMA StaysTraced ==
  ASSUME NEW r, NEW r2, Evolves(r, r2), NEW rows, NEW c, Traced(rows, r, c),
         r.pass \in Nat, r2.pass \in Nat, c.id.pass \in Nat
  PROVE  Traced(rows, r2, c)
  BY DEF Traced, Evolves

(* A step that stores no utterance and no candidate and records no bet     *)
(* keeps all but what the new stage of its process asks for.               *)
LEMMA OthersKeepStage ==
  ASSUME TypeInv, NEW s \in Runs, NEW r, run' = [run EXCEPT ![s] = r],
         speechRows \subseteq speechRows', candidates \subseteq candidates',
         NEW q \in Runs \ {s}, StageOK(q)
  PROVE  StageOK(q)'
<1>1. run'[q] = run[q]
  BY DEF TypeInv, AutopilotTypeOK
<1>2. \A k : Spoken(q, k)' = Spoken(q, k)
  BY <1>1 DEF Spoken, Current
<1>3. \A c : Saved(q, c) => Saved(q, c)'
  BY <1>1 DEF Saved, BetOf, Current
<1> QED BY <1>1, <1>2, <1>3 DEF StageOK

LEMMA PassesAreNat ==
  ASSUME TypeInv
  PROVE  /\ \A s \in Runs : run[s].pass \in Nat
         /\ \A u \in speechRows : u[2] \in Nat
         /\ \A c \in candidates : c.id.pass \in Nat /\ c.id.run \in Runs
<1>1. \A p \in 0 .. MaxPasses : p \in Nat
  BY MaxPassesIsPositive
<1>2. \A p \in 1 .. MaxPasses : p \in Nat
  BY MaxPassesIsPositive
<1>3. \A s \in Runs : run[s].pass \in Nat
  BY <1>1, RunIs
<1>4. \A u \in speechRows : u[2] \in Nat
  BY <1>2 DEF TypeInv, AutopilotTypeOK
<1>5. ASSUME NEW c \in candidates PROVE c.id.pass \in Nat /\ c.id.run \in Runs
  <2>1. c.id \in Bets
    BY DEF TypeInv, AutopilotTypeOK, CandidateRow
  <2>2. c.id.pass \in 1 .. MaxPasses /\ c.id.run \in Runs
    BY <2>1, BetsAreCandidates
  <2> QED BY <1>2, <2>2
<1> QED BY <1>3, <1>4, <1>5

LEMMA MoveKeeps ==
  ASSUME TypeInv, TypeInv', ScoreInv, NEW s \in Runs,
         (\E mode \in Modes : OpenSession(s, mode)) \/ Step(s) \/ Fault(s)
  PROVE  /\ \A q \in Runs : RowsFit(speechRows, q, run'[q])
         /\ \A c \in candidates : Traced(speechRows, run'[c.id.run], c)
<1>1. \A q \in Runs \ {s} : run'[q] = run[q]
  BY ProcessSteps DEF TypeInv, AutopilotTypeOK
<1>2. Evolves(run[s], run'[s])
  BY StepsEvolve
<1>3. /\ \A q \in Runs : run[q].pass \in Nat
      /\ \A u \in speechRows : u[2] \in Nat
      /\ \A c \in candidates : c.id.pass \in Nat /\ c.id.run \in Runs
  BY PassesAreNat
<1>4. run'[s].pass \in Nat
  <2>1. run'[s].pass \in 0 .. MaxPasses
    BY DEF TypeInv, AutopilotTypeOK, Run
  <2> QED BY <2>1, MaxPassesIsPositive
<1>5. RowsFit(speechRows, s, run'[s])
  BY <1>2, <1>3, <1>4, RowsStayFit DEF ScoreInv
<1>6. \A c \in candidates : c.id.run = s => Traced(speechRows, run'[s], c)
  BY <1>2, <1>3, <1>4, StaysTraced DEF ScoreInv
<1>7. \A q \in Runs \ {s} : RowsFit(speechRows, q, run'[q])
  BY <1>1 DEF ScoreInv
<1>8. \A c \in candidates : c.id.run # s => Traced(speechRows, run'[c.id.run], c)
  BY <1>1, <1>3 DEF ScoreInv
<1> QED BY <1>5, <1>6, <1>7, <1>8

(* The stages of a match, one after the other.                             *)
LEMMA StageEnds ==
  ASSUME TypeInv, NEW s \in Runs,
         \/ \E mode \in Modes : OpenSession(s, mode)
         \/ LoadModel(s) \/ BeginPass(s) \/ NextMatch(s) \/ EndPass(s)
         \/ PassFails(s) \/ CloseSession(s) \/ Kill(s)
  PROVE  run'[s].pc \notin InMatch /\ UNCHANGED <<settlementVars, speechRows, candidates>>
<1>1. run[s] \in Run /\ s \in DOMAIN run
  BY RunIs DEF TypeInv, AutopilotTypeOK
<1>2. \A exit : Gone(run[s], exit).pc = "gone"
  BY DEF Gone, NewRun
<1>3. CASE \E mode \in Modes : OpenSession(s, mode)
  <2>1. run'[s].pc \in {"model", "gone"}
    BY <1>1, <1>2, <1>3 DEF OpenSession, Run
  <2>2. UNCHANGED <<settlementVars, speechRows, candidates>>
    BY <1>3 DEF OpenSession
  <2> QED BY <2>1, <2>2 DEF InMatch
<1>4. CASE LoadModel(s) \/ BeginPass(s) \/ NextMatch(s)
  <2>1. run'[s].pc \in {"pass", "match", "gone"}
    BY <1>1, <1>4 DEF LoadModel, BeginPass, NextMatch, Run
  <2>2. UNCHANGED <<settlementVars, speechRows, candidates>>
    BY <1>4 DEF LoadModel, BeginPass, NextMatch
  <2> QED BY <2>1, <2>2 DEF InMatch
<1>5. CASE EndPass(s) \/ PassFails(s)
  <2>1. run'[s].pc \in {"pass", "stop"}
    BY <1>1, <1>5 DEF EndPass, PassFails, Run
  <2>2. UNCHANGED <<settlementVars, speechRows, candidates>>
    BY <1>5 DEF EndPass, PassFails
  <2> QED BY <2>1, <2>2 DEF InMatch
<1>6. CASE CloseSession(s) \/ Kill(s)
  <2>1. run'[s].pc = "gone"
    BY <1>1, <1>2, <1>6 DEF CloseSession, Kill
  <2>2. UNCHANGED <<settlementVars, speechRows, candidates>>
    BY <1>6 DEF CloseSession, Kill
  <2> QED BY <2>1, <2>2 DEF InMatch
<1> QED BY <1>3, <1>4, <1>5, <1>6

(* A step that stores no utterance, candidate or bet.                      *)
LEMMA QuietScores ==
  ASSUME TypeInv, TypeInv', ScoreInv, NEW s \in Runs,
         (\E mode \in Modes : OpenSession(s, mode)) \/ Step(s) \/ Fault(s),
         UNCHANGED <<bets, speechRows, candidates>>, StageOK(s)'
  PROVE  ScoreInv'
<1>1. \A q \in Runs \ {s} : StageOK(q)'
  BY OthersKeepStage, ProcessSteps DEF ScoreInv
<1>2. Recorded' = Recorded
  BY DEF Recorded
<1> QED BY <1>1, <1>2, MoveKeeps DEF ScoreInv

LEMMA SaveMatchStage ==
  ASSUME TypeInv, NEW s \in Runs, SaveMatch(s)
  PROVE  StageOK(s)' /\ UNCHANGED <<bets, speechRows, candidates>>
<1>1. run[s] \in Run /\ s \in DOMAIN run
  BY RunIs DEF TypeInv, AutopilotTypeOK
<1>2. run'[s].pc = "speech" /\ run'[s].todo = 0
  BY <1>1 DEF SaveMatch, Run
<1>3. \A k \in 1 .. 0 : FALSE
  OBVIOUS
<1> QED BY <1>2, <1>3 DEF SaveMatch, StageOK, settlementVars

LEMMA SaveOddsStage ==
  ASSUME TypeInv, NEW s \in Runs, StageOK(s), SaveOdds(s)
  PROVE  StageOK(s)' /\ UNCHANGED <<bets, speechRows, candidates>>
<1>1. run[s] \in Run /\ s \in DOMAIN run
  BY RunIs DEF TypeInv, AutopilotTypeOK
<1>2. /\ run[s].pc = "odds" /\ run'[s].pc \in {"odds", "score"}
      /\ run'[s].pc = "score" => run'[s].todo = 0
      /\ run'[s].speech = run[s].speech /\ run'[s].queue = run[s].queue
      /\ run'[s].pass = run[s].pass
  BY <1>1 DEF SaveOdds, Run
<1>3. UNCHANGED <<bets, speechRows, candidates>>
  BY DEF SaveOdds, settlementVars
<1>4. \A k \in DOMAIN run'[s].speech : Spoken(s, k)' \in speechRows'
  BY <1>2, <1>3 DEF StageOK, InMatch, Spoken, Current
<1> QED BY <1>2, <1>3, <1>4 DEF StageOK

LEMMA ScoreStage ==
  ASSUME TypeInv, NEW s \in Runs, StageOK(s), ScoreCandidates(s)
  PROVE  StageOK(s)' /\ UNCHANGED <<bets, speechRows, candidates>>
<1>1. run[s] \in Run /\ s \in DOMAIN run /\ run[s].speech \in Seq(Line)
  BY RunIs DEF TypeInv, AutopilotTypeOK
<1>2. PICK ml \in [DOMAIN OfferList -> Scores \cup {NoScore}] :
        run' = [run EXCEPT ![s].pc = "candidates",
                  ![s].cands = [k \in DOMAIN OfferList |->
                                  Scored(OfferList[k], run[s].speech, ml[k])]]
  BY DEF ScoreCandidates
<1>3. /\ run[s].pc = "score" /\ run'[s].pc = "candidates" /\ run'[s].todo = run[s].todo
      /\ run'[s].speech = run[s].speech /\ run'[s].queue = run[s].queue
      /\ run'[s].pass = run[s].pass
      /\ run'[s].cands = [k \in DOMAIN OfferList |->
                            Scored(OfferList[k], run[s].speech, ml[k])]
  BY <1>1, <1>2 DEF ScoreCandidates, Run
<1>4. UNCHANGED <<bets, speechRows, candidates>>
  BY DEF ScoreCandidates, settlementVars
<1>5. \A k \in DOMAIN run'[s].speech : Spoken(s, k)' \in speechRows'
  BY <1>3, <1>4 DEF StageOK, InMatch, Spoken, Current
<1>6. ASSUME NEW k \in DOMAIN OfferList
      PROVE  LET c == Scored(OfferList[k], run[s].speech, ml[k])
             IN  c.rule = RuleScore(c.offer, run[s].speech)
  BY DEF Scored
<1>7. run'[s].todo = 0
  BY <1>3 DEF StageOK
<1>8. \A k \in 1 .. 0 : FALSE
  OBVIOUS
<1>9. \A k \in DOMAIN run'[s].cands :
        run'[s].cands[k].rule = RuleScore(run'[s].cands[k].offer, run'[s].speech)
  BY <1>3, <1>6
<1> QED BY <1>3, <1>4, <1>5, <1>7, <1>8, <1>9 DEF StageOK

(* What is selected was among the candidates and reaches the threshold.    *)
LEMMA SelectedIs ==
  ASSUME NEW cs \in Seq(Candidate), NEW k \in DOMAIN SelectBets(cs)
  PROVE  \E i \in DOMAIN cs : SelectBets(cs)[k] = cs[i] /\ cs[i].score >= Threshold
<1> DEFINE ch == SelectBets(cs)
<1>1. PicksWell(ch, Ranked(cs), Cardinality(EligibleAt(cs)))
  BY SelectPicks
<1> HIDE DEF ch
<1>2. k \in 1 .. Len(ch)
  BY <1>1 DEF PicksWell, ch
<1>3. PICK j \in 1 .. Cardinality(EligibleAt(cs)) : ch[k] = Ranked(cs)[j]
  BY <1>1, <1>2 DEF PicksWell
<1>4. PICK i \in EligibleAt(cs) : Ranked(cs)[j] = cs[i]
  BY <1>3, RankedDescends
<1>5. i \in DOMAIN cs /\ cs[i].score >= Threshold
  BY <1>4 DEF EligibleAt, Eligible
<1> QED BY <1>3, <1>4, <1>5 DEF ch

LEMMA SelectStage ==
  ASSUME TypeInv, NEW s \in Runs, StageOK(s), Select(s)
  PROVE  StageOK(s)' /\ UNCHANGED <<bets, speechRows, candidates>>
<1>1. run[s] \in Run /\ s \in DOMAIN run /\ run[s].cands \in Seq(Candidate)
  BY RunIs DEF TypeInv, AutopilotTypeOK
<1>2. /\ run[s].pc = "select" /\ run'[s].pc = "bets"
      /\ run'[s].speech = run[s].speech /\ run'[s].queue = run[s].queue
      /\ run'[s].pass = run[s].pass /\ run'[s].cands = SelectBets(run[s].cands)
  BY <1>1 DEF Select, Run
<1>3. UNCHANGED <<bets, speechRows, candidates>>
  BY DEF Select, settlementVars
<1>4. \A k \in DOMAIN run'[s].speech : Spoken(s, k)' \in speechRows'
  BY <1>2, <1>3 DEF StageOK, InMatch, Spoken, Current
<1>5. \A k \in DOMAIN run'[s].cands :
        /\ \E i \in DOMAIN run[s].cands : run'[s].cands[k] = run[s].cands[i]
        /\ run'[s].cands[k].score >= Threshold
  BY <1>1, <1>2, SelectedIs
<1>6. \A c : Saved(s, c) => Saved(s, c)'
  BY <1>2, <1>3 DEF Saved, BetOf, Current
<1>7. \A i \in DOMAIN run[s].cands :
        /\ run[s].cands[i].rule = RuleScore(run[s].cands[i].offer, run[s].speech)
        /\ Saved(s, run[s].cands[i])
  BY <1>2 DEF StageOK
<1>8. \A k \in DOMAIN run'[s].cands :
        run'[s].cands[k].rule = RuleScore(run'[s].cands[k].offer, run'[s].speech)
  BY <1>2, <1>5, <1>7
<1>9. (\A k \in DOMAIN run[s].cands : Saved(s, run[s].cands[k]))'
  BY <1>5, <1>6, <1>7
<1> QED BY <1>2, <1>3, <1>4, <1>5, <1>8, <1>9 DEF StageOK

LEMMA PlaceBetStage ==
  ASSUME TypeInv, NEW s \in Runs, StageOK(s), PlaceBet(s)
  PROVE  /\ StageOK(s)' /\ UNCHANGED <<speechRows, candidates>>
         /\ UNCHANGED bets \/ (SaveBet(BetOf(s, Head(run[s].cands).offer))
                               /\ Saved(s, Head(run[s].cands))
                               /\ Head(run[s].cands).score >= Threshold)
<1>1. run[s] \in Run /\ s \in DOMAIN run /\ run[s].cands \in Seq(Candidate)
  BY RunIs DEF TypeInv, AutopilotTypeOK
<1>2. run[s].pc = "bets" /\ run[s].cands # <<>> /\ UNCHANGED <<speechRows, candidates>>
  BY DEF PlaceBet
<1>3. /\ 1 \in DOMAIN run[s].cands /\ Head(run[s].cands) = run[s].cands[1]
      /\ \A k \in DOMAIN Tail(run[s].cands) :
           k + 1 \in DOMAIN run[s].cands /\ Tail(run[s].cands)[k] = run[s].cands[k + 1]
  BY <1>1, <1>2
<1>4. UNCHANGED bets \/ SaveBet(BetOf(s, Head(run[s].cands).offer))
  BY DEF PlaceBet, settlementVars
<1>5. Saved(s, Head(run[s].cands)) /\ Head(run[s].cands).score >= Threshold
  BY <1>2, <1>3 DEF StageOK
<1>6. CASE run[s].mode = "auto"
  <2>1. run'[s].pc = "stop"
    BY <1>1, <1>6 DEF PlaceBet, Run
  <2> QED BY <1>2, <1>4, <1>5, <2>1 DEF StageOK, InMatch
<1>7. CASE run[s].mode # "auto"
  <2>1. /\ run'[s].pc = "bets" /\ run'[s].cands = Tail(run[s].cands)
        /\ run'[s].speech = run[s].speech /\ run'[s].queue = run[s].queue
        /\ run'[s].pass = run[s].pass
    BY <1>1, <1>2, <1>7 DEF PlaceBet, Run
  <2>2. \A k \in DOMAIN run'[s].speech : Spoken(s, k)' \in speechRows'
    BY <1>2, <2>1 DEF StageOK, InMatch, Spoken, Current
  <2>3. \A c : Saved(s, c) => Saved(s, c)'
    BY <1>2, <2>1 DEF Saved, BetOf, Current
  <2>4. \A i \in DOMAIN run[s].cands :
          /\ run[s].cands[i].rule = RuleScore(run[s].cands[i].offer, run[s].speech)
          /\ Saved(s, run[s].cands[i])
          /\ run[s].cands[i].score >= Threshold
    BY <1>2 DEF StageOK
  <2>5. \A k \in DOMAIN run'[s].cands :
          /\ run'[s].cands[k].rule = RuleScore(run'[s].cands[k].offer, run'[s].speech)
          /\ run'[s].cands[k].score >= Threshold
    BY <1>3, <2>1, <2>4
  <2>6. (\A k \in DOMAIN run[s].cands : Saved(s, run[s].cands[k]))'
    BY <1>3, <2>1, <2>3, <2>4
  <2> QED BY <1>2, <1>4, <1>5, <2>1, <2>2, <2>5, <2>6 DEF StageOK
<1> QED BY <1>6, <1>7

LEMMA PlaceBetScores ==
  ASSUME TypeInv, TypeInv', ScoreInv, NEW s \in Runs, PlaceBet(s)
  PROVE  ScoreInv'
<1>1. StageOK(s)
  BY DEF ScoreInv
<1>2. StageOK(s)' /\ UNCHANGED <<speechRows, candidates>>
  BY <1>1, PlaceBetStage
<1>3. \A q \in Runs \ {s} : StageOK(q)'
  BY <1>2, OthersKeepStage, ProcessSteps DEF ScoreInv, Step
<1>4. /\ \A q \in Runs : RowsFit(speechRows, q, run'[q])
      /\ \A c \in candidates : Traced(speechRows, run'[c.id.run], c)
  BY MoveKeeps DEF Step
<1>5. \A b \in Recorded' : \E c \in candidates : c.id = b /\ c.score >= Threshold
  <2>1. CASE UNCHANGED bets
    BY <2>1 DEF Recorded, ScoreInv
  <2>2. CASE ~UNCHANGED bets
    <3> DEFINE b0 == BetOf(s, Head(run[s].cands).offer)
    <3>1. SaveBet(b0)
      BY <1>1, <2>2, PlaceBetStage
    <3>2. \E c \in candidates : c.id = b0 /\ c.score >= Threshold
      BY <1>1, <2>2, PlaceBetStage DEF Saved
    <3>3. Recorded' \subseteq Recorded \cup {b0}
      <4> HIDE DEF b0
      <4> QED BY <3>1 DEF SaveBet, Recorded, TypeInv, AutopilotTypeOK, SettlementTypeOK
    <3> QED BY <3>2, <3>3 DEF ScoreInv
  <2> QED BY <2>1, <2>2
<1> QED BY <1>2, <1>3, <1>4, <1>5 DEF ScoreInv

LEMMA SaveCandidateScores ==
  ASSUME TypeInv, TypeInv', ScoreInv, NEW s \in Runs, SaveCandidate(s)
  PROVE  ScoreInv'
<1> DEFINE k == run[s].todo + 1
           c == run[s].cands[k]
           row == [id |-> BetOf(s, c.offer), rule |-> c.rule, score |-> c.score,
                   decision |-> c.decision]
<1>1. /\ run[s] \in Run /\ s \in DOMAIN run /\ run[s].cands \in Seq(Candidate)
      /\ run[s].todo \in Nat /\ run[s].speech \in Seq(Line)
  BY RunIs DEF TypeInv, AutopilotTypeOK
<1>2. run[s].pc = "candidates" /\ UNCHANGED <<bets, speechRows>> /\ StageOK(s)
  BY DEF SaveCandidate, settlementVars, ScoreInv
<1>3. candidates \subseteq candidates'
  BY DEF SaveCandidate
<1>4. \A q \in Runs \ {s} : StageOK(q)'
  BY <1>2, <1>3, OthersKeepStage, ProcessSteps DEF ScoreInv, Step
<1>5. /\ \A q \in Runs : RowsFit(speechRows, q, run'[q])
      /\ \A d \in candidates : Traced(speechRows, run'[d.id.run], d)
  BY MoveKeeps DEF Step
<1>6. Recorded' = Recorded
  BY <1>2 DEF Recorded
<1>7. /\ run'[s].speech = run[s].speech /\ run'[s].queue = run[s].queue
      /\ run'[s].pass = run[s].pass /\ run'[s].cands = run[s].cands
  BY <1>1 DEF SaveCandidate, Run
<1>8. \A i \in DOMAIN run'[s].speech : Spoken(s, i)' \in speechRows'
  BY <1>2, <1>7 DEF StageOK, InMatch, Spoken, Current
<1>9. \A d : Saved(s, d) => Saved(s, d)'
  BY <1>3, <1>7 DEF Saved, BetOf, Current
<1>10. \A i \in DOMAIN run'[s].cands :
         run'[s].cands[i].rule = RuleScore(run'[s].cands[i].offer, run'[s].speech)
  BY <1>2, <1>7 DEF StageOK
<1>11. CASE k \notin DOMAIN run[s].cands
  <2>1. run'[s].pc = "select" /\ UNCHANGED candidates
    BY <1>1, <1>11 DEF SaveCandidate, Run
  <2>2. \A i \in DOMAIN run[s].cands : i \in 1 .. run[s].todo
    BY <1>1, <1>11
  <2>3. (\A i \in DOMAIN run[s].cands : Saved(s, run[s].cands[i]))'
    BY <1>2, <1>7, <1>9, <2>2 DEF StageOK
  <2>4. StageOK(s)'
    BY <1>8, <1>10, <2>1, <2>3 DEF StageOK
  <2> QED BY <1>2, <1>4, <1>5, <1>6, <2>1, <2>4 DEF ScoreInv
<1>12. CASE k \in DOMAIN run[s].cands
  <2>1. /\ candidates' = candidates \cup {row} /\ run'[s].pc = "candidates"
        /\ run'[s].todo = k
    BY <1>1, <1>2, <1>12 DEF SaveCandidate, Run
  <2>2. row.id = BetOf(s, c.offer) /\ row.rule = c.rule /\ row.score = c.score
    OBVIOUS
  <2>3. /\ row.id.run = s /\ row.id.pass = run[s].pass /\ row.id.match = Current(s)
        /\ row.id.offer = c.offer
    BY <2>2 DEF BetOf
  <2>4. row.rule = RuleScore(c.offer, run[s].speech)
    BY <1>2, <1>12, <2>2 DEF StageOK
  <2> HIDE DEF row, c
  <2>5. RowsOf(speechRows, row.id) = Said(row.id, run[s].speech)
    <3>1. \A u \in RowsOf(speechRows, row.id) : u \in Said(row.id, run[s].speech)
      <4> SUFFICES ASSUME NEW u \in speechRows, u[1] = s, u[2] = run[s].pass, u[3] = Current(s)
                   PROVE  u \in Said(row.id, run[s].speech)
        BY <2>3 DEF RowsOf
      <4>1. u[4] \in DOMAIN run[s].speech /\ u[5] = run[s].speech[u[4]]
        BY <1>2 DEF ScoreInv, RowsFit, InPass, InMatch
      <4>2. u = <<u[1], u[2], u[3], u[4], u[5]>>
        BY DEF TypeInv, AutopilotTypeOK
      <4> QED BY <2>3, <4>1, <4>2 DEF Said
    <3>2. ASSUME NEW i \in DOMAIN run[s].speech
          PROVE  <<row.id.run, row.id.pass, row.id.match, i, run[s].speech[i]>>
                   \in RowsOf(speechRows, row.id)
      <4>1. Spoken(s, i) \in speechRows
        BY <1>2 DEF StageOK, InMatch
      <4> QED BY <2>3, <4>1 DEF Spoken, RowsOf
    <3> QED BY <3>1, <3>2 DEF Said
  <2>6. Traced(speechRows, run'[s], row)
    <3>1. run[s].pass <= run[s].pass
      BY PassesAreNat
    <3> QED BY <1>1, <1>7, <2>1, <2>3, <2>4, <2>5, <3>1 DEF Traced
  <2> PICK now : now = c
    OBVIOUS
  <2>7. Saved(s, now)'
    <3>1. row \in candidates' /\ row.score = now.score
      BY <2>1, <2>2
    <3>2. BetOf(s, now.offer)' = BetOf(s, now.offer)
      BY <1>7 DEF BetOf, Current
    <3> QED BY <2>2, <3>1, <3>2 DEF Saved
  <2>8. (\A i \in 1 .. run[s].todo : Saved(s, run[s].cands[i]))'
    <3>1. \A i \in 1 .. k : i \in 1 .. run[s].todo \/ i = k
      BY <1>1
    <3>2. \A i \in 1 .. run[s].todo : Saved(s, run[s].cands[i])
      BY <1>2 DEF StageOK
    <3>3. run'[s].todo = k /\ run'[s].cands = run[s].cands /\ run[s].cands[k] = now
      BY <1>7, <2>1 DEF c
    <3> HIDE DEF k
    <3> QED BY <1>9, <2>7, <3>1, <3>2, <3>3
  <2>9. StageOK(s)'
    BY <1>8, <1>10, <2>1, <2>8 DEF StageOK
  <2>10. \A d \in candidates' : Traced(speechRows', run'[d.id.run], d)
    BY <1>2, <1>5, <2>1, <2>3, <2>6
  <2>11. \A b \in Recorded' : \E d \in candidates' : d.id = b /\ d.score >= Threshold
    BY <1>3, <1>6 DEF ScoreInv
  <2> QED BY <1>2, <1>4, <1>5, <2>9, <2>10, <2>11 DEF ScoreInv
<1> QED BY <1>11, <1>12

LEMMA SaveSpeechScores ==
  ASSUME TypeInv, TypeInv', ScoreInv, NEW s \in Runs, SaveSpeech(s)
  PROVE  ScoreInv'
<1> DEFINE k == run[s].todo + 1
           said == Spoken(s, k)
<1>1. /\ run[s] \in Run /\ s \in DOMAIN run
      /\ run[s].todo \in Nat /\ run[s].speech \in Seq(Line)
  BY RunIs DEF TypeInv, AutopilotTypeOK
<1>2. run[s].pc = "speech" /\ UNCHANGED <<bets, candidates>> /\ StageOK(s)
  BY DEF SaveSpeech, settlementVars, ScoreInv
<1>3. speechRows \subseteq speechRows'
  BY DEF SaveSpeech
<1>4. \A q \in Runs \ {s} : StageOK(q)'
  BY <1>2, <1>3, OthersKeepStage, ProcessSteps DEF ScoreInv, Step
<1>5. /\ \A q \in Runs : RowsFit(speechRows, q, run'[q])
      /\ \A c \in candidates : Traced(speechRows, run'[c.id.run], c)
  BY MoveKeeps DEF Step
<1>6. /\ run'[s].speech = run[s].speech /\ run'[s].queue = run[s].queue
      /\ run'[s].pass = run[s].pass
  BY <1>1 DEF SaveSpeech, Run
<1>7. \A i : Spoken(s, i)' = Spoken(s, i)
  BY <1>6 DEF Spoken, Current
<1>8. CASE k \notin DOMAIN run[s].speech
  <2>1. run'[s].pc = "odds" /\ UNCHANGED speechRows
    BY <1>1, <1>8 DEF SaveSpeech, Run
  <2>2. \A i \in DOMAIN run[s].speech : i \in 1 .. run[s].todo
    BY <1>1, <1>8
  <2>3. \A i \in DOMAIN run'[s].speech : Spoken(s, i)' \in speechRows'
    BY <1>2, <1>6, <1>7, <2>1, <2>2 DEF StageOK
  <2>4. StageOK(s)'
    BY <2>1, <2>3 DEF StageOK
  <2> QED BY <1>2, <2>1, <2>4, QuietScores DEF Step
<1>9. CASE k \in DOMAIN run[s].speech
  <2>1. speechRows' = speechRows \cup {said} /\ run'[s].pc = "speech" /\ run'[s].todo = k
    BY <1>1, <1>2, <1>9 DEF SaveSpeech, Run, Spoken
  <2>2. /\ said = <<s, run[s].pass, Current(s), k, run[s].speech[k]>>
        /\ run[s].pass <= run[s].pass
    BY PassesAreNat DEF Spoken
  <2>3. said[1] = s /\ said[2] = run[s].pass /\ said[3] = Current(s) /\ said[4] = k
        /\ said[5] = run[s].speech[k]
    BY <2>2
  <2>4. \A i \in 1 .. k : i \in 1 .. run[s].todo \/ i = k
    BY <1>1
  <2> HIDE DEF k, said
  <2>5. StageOK(s)'
    <3>1. \A i \in 1 .. k : Spoken(s, i)' \in speechRows'
      BY <1>2, <1>7, <2>1, <2>4 DEF StageOK, said
    <3> QED BY <2>1, <3>1 DEF StageOK, InMatch
  <2>6. ASSUME NEW q \in Runs PROVE RowsFit(speechRows', q, run'[q])
    <3>1. RowsFit(speechRows, q, run'[q])
      BY <1>5
    <3>2. q = s => /\ said[2] <= run'[q].pass /\ run'[q].pc # "pass"
                   /\ said[4] \in DOMAIN run'[q].speech
                   /\ said[5] = run'[q].speech[said[4]]
      BY <1>6, <1>9, <2>1, <2>2, <2>3
    <3> QED BY <2>1, <2>3, <3>1, <3>2 DEF RowsFit
  <2>7. ASSUME NEW c \in candidates PROVE Traced(speechRows', run'[c.id.run], c)
    <3>1. Traced(speechRows, run'[c.id.run], c)
      BY <1>5
    <3>2. PICK speech \in Seq(Line) :
            /\ RowsOf(speechRows, c.id) = Said(c.id, speech)
            /\ c.rule = RuleScore(c.id.offer, speech)
            /\ run'[c.id.run].pc \in InPass /\ c.id.pass = run'[c.id.run].pass
                 => speech = run'[c.id.run].speech
      BY <3>1 DEF Traced
    <3>3. RowsOf(speechRows', c.id) = RowsOf(speechRows, c.id)
      <4>1. CASE ~(c.id.run = s /\ c.id.pass = run[s].pass /\ c.id.match = Current(s))
        BY <2>1, <2>3, <4>1 DEF RowsOf
      <4>2. CASE c.id.run = s /\ c.id.pass = run[s].pass /\ c.id.match = Current(s)
        <5>1. speech = run[s].speech
          BY <1>6, <2>1, <3>2, <4>2 DEF InPass, InMatch
        <5>2. said \in Said(c.id, speech)
          BY <1>9, <2>2, <4>2, <5>1 DEF Said
        <5>3. said \in speechRows
          BY <3>2, <5>2 DEF RowsOf
        <5>4. speechRows' = speechRows
          BY <2>1, <5>3
        <5> QED BY <5>4
      <4> QED BY <4>1, <4>2
    <3> QED BY <3>1, <3>2, <3>3 DEF Traced
  <2>8. Recorded' = Recorded
    BY <1>2 DEF Recorded
  <2> QED BY <1>2, <1>4, <2>5, <2>6, <2>7, <2>8 DEF ScoreInv
<1> QED BY <1>8, <1>9

LEMMA SettlersRecordNothing ==
  ASSUME BookInv, NEW p \in Settlers, SettlerStep(p)
  PROVE  Recorded' = Recorded
<1>1. CASE UpdateBet(p)
  <2> DEFINE row == Head(settler[p].rows)
  <2>1. row.bet \in Recorded
    BY <1>1 DEF BookInv, ReadIsGood, UpdateBet
  <2>2. bets' = [bets EXCEPT ![row.bet] =
                   [status |-> "settled", result |-> row.outcome,
                    profit |-> ProfitUnits(row.outcome)]]
    BY <1>1 DEF UpdateBet
  <2> HIDE DEF row
  <2> QED BY <2>1, <2>2 DEF Recorded, BookInv
<1>2. CASE UNCHANGED bets
  BY <1>2 DEF Recorded
<1> QED BY <1>1, <1>2
        DEF SettlerStep, StartImport, SkipRow, ReadBet, FinishImport, ImportAborts

LEMMA ScoreStep ==
  BookInv /\ TypeInv /\ TypeInv' /\ ScoreInv /\ [AutopilotNext]_autopilotAllVars => ScoreInv'
<1> SUFFICES ASSUME BookInv, TypeInv, TypeInv', ScoreInv, [AutopilotNext]_autopilotAllVars
             PROVE  ScoreInv'
  OBVIOUS
<1>1. ASSUME UNCHANGED autopilotVars, Recorded' = Recorded PROVE ScoreInv'
  <2>1. \A s \in Runs : StageOK(s) => StageOK(s)'
    BY <1>1 DEF autopilotVars, StageOK, Saved, Spoken, BetOf, Current
  <2> QED BY <1>1, <2>1 DEF autopilotVars, ScoreInv
<1>2. ASSUME NEW s \in Runs,
             \/ \E mode \in Modes : OpenSession(s, mode)
             \/ LoadModel(s) \/ BeginPass(s) \/ NextMatch(s) \/ EndPass(s)
             \/ PassFails(s) \/ CloseSession(s) \/ Kill(s)
      PROVE  ScoreInv'
  <2>1. run'[s].pc \notin InMatch /\ UNCHANGED <<settlementVars, speechRows, candidates>>
    BY <1>2, StageEnds
  <2>2. StageOK(s)'
    BY <2>1 DEF StageOK, InMatch
  <2> QED BY <1>2, <2>1, <2>2, QuietScores DEF Step, Fault, settlementVars
<1>3. ASSUME NEW s \in Runs,
             SaveMatch(s) \/ SaveOdds(s) \/ ScoreCandidates(s) \/ Select(s)
      PROVE  ScoreInv'
  <2>1. StageOK(s)
    BY DEF ScoreInv
  <2>2. StageOK(s)' /\ UNCHANGED <<bets, speechRows, candidates>>
    BY <1>3, <2>1, SaveMatchStage, SaveOddsStage, ScoreStage, SelectStage
  <2> QED BY <1>3, <2>2, QuietScores DEF Step
<1>4. ASSUME NEW s \in Runs,
             (\E mode \in Modes : OpenSession(s, mode)) \/ Step(s) \/ Fault(s)
      PROVE  ScoreInv'
  BY <1>2, <1>3, <1>4, SaveSpeechScores, SaveCandidateScores, PlaceBetScores DEF Step, Fault
<1>5. ASSUME NEW p \in Settlers, SettlerStep(p), UNCHANGED autopilotVars
      PROVE  ScoreInv'
  BY <1>1, <1>5, SettlersRecordNothing
<1>6. CASE UNCHANGED autopilotAllVars
  <2>1. Recorded' = Recorded
    BY <1>6 DEF autopilotAllVars, settlementVars, Recorded
  <2> QED BY <1>1, <1>6, <2>1 DEF autopilotAllVars
<1> QED BY <1>4, <1>5, <1>6 DEF AutopilotNext

LEMMA ScoresKept == AutopilotSpec => []ScoreInv
  BY ScoreInit, ScoreStep, BookInvariant, TypesKept, PTL DEF AutopilotSpec

(* The stored utterances, in their order, are what was said.               *)
LEMMA HeardIsSaid ==
  ASSUME TypeInv, NEW id, NEW speech \in Seq(Line),
         RowsOf(speechRows, id) = Said(id, speech)
  PROVE  Heard(id) = speech
<1> DEFINE n == Len(speech)
           rows == RowsOf(speechRows, id)
           f == [k \in 1 .. n |-> <<id.run, id.pass, id.match, k, speech[k]>>]
<1>1. n \in Nat /\ speech = [k \in 1 .. n |-> speech[k]] /\ DOMAIN speech = 1 .. n
  OBVIOUS
<1>2. rows = {f[k] : k \in 1 .. n}
  BY <1>1 DEF Said
<1>3. Cardinality(rows) = n
  <2>1. IsFiniteSet(1 .. n) /\ Cardinality(1 .. n) = n
    <3> HIDE DEF n
    <3> QED BY <1>1, Segment
  <2>2. \A j, k \in 1 .. n : f[j] = f[k] => j = k
    <3>1. \A k \in 1 .. n : f[k][4] = k
      OBVIOUS
    <3> HIDE DEF f
    <3> QED BY <3>1
  <2> HIDE DEF rows
  <2>3. f \in [1 .. n -> rows] /\ \A u \in rows : \E k \in 1 .. n : f[k] = u
    BY <1>2
  <2> HIDE DEF f
  <2>4. f \in Bijection(1 .. n, rows)
    BY <2>2, <2>3 DEF Bijection, Injection, Surjection, IsInjective
  <2> QED BY <2>1, <2>4, FS_Bijection DEF ExistsBijection
<1>4. ASSUME NEW k \in 1 .. n PROVE (CHOOSE u \in rows : u[4] = k)[5] = speech[k]
  <2>1. \A j \in 1 .. n : f[j][4] = j /\ f[j][5] = speech[j]
    OBVIOUS
  <2> HIDE DEF f, rows
  <2>2. \A u \in rows : u[4] = k => u[5] = speech[k]
    BY <1>2, <2>1
  <2>3. \E u \in rows : u[4] = k
    BY <1>2, <2>1
  <2> QED BY <2>2, <2>3
<1>5. Heard(id) = [k \in 1 .. Cardinality(rows) |-> (CHOOSE u \in rows : u[4] = k)[5]]
  BY DEF Heard, RowsOf
<1> HIDE DEF rows, f, n
<1> QED BY <1>1, <1>3, <1>4, <1>5

LEMMA BetsAreBacked ==
  TypeInv /\ RefInv /\ ScoreInv => AutopilotTypeOK /\ ReferencesResolve /\ BetsAreJustified
<1>1. ScoreInv => \A b \in Recorded : \E c \in candidates : c.id = b /\ c.score >= Threshold
  BY DEF ScoreInv
<1> QED BY <1>1 DEF TypeInv, RefInv, ReferencesResolve, BetsAreJustified

(* Every row, from the bet to the session, can be traced back at any       *)
(* moment, and a stored score is that of what was heard.  An unwise offer  *)
(* is never bet on by the rule alone for the thresholds above what the     *)
(* rule can give to one, which is 52; the code's threshold is 62.          *)
THEOREM RowsAreJustified ==
  ASSUME Threshold > 52
  PROVE  AutopilotSpec => []RowsJustified
<1>1. ASSUME TypeInv, RefInv, ScoreInv PROVE RowsJustified
  <2>1. ASSUME NEW c \in candidates
        PROVE  /\ c.rule = RuleScore(c.id.offer, Heard(c.id))
               /\ Unwise(c.id.offer, Heard(c.id)) /\ c.decision = "bet" => c.score > c.rule
    <3>1. PICK speech \in Seq(Line) : /\ RowsOf(speechRows, c.id) = Said(c.id, speech)
                                      /\ c.rule = RuleScore(c.id.offer, speech)
      BY <1>1 DEF ScoreInv, Traced
    <3>2. Heard(c.id) = speech
      BY <1>1, <3>1, HeardIsSaid
    <3>3. /\ c.id \in Bets /\ c.score \in Int /\ c.rule \in Int
      BY <1>1 DEF TypeInv, AutopilotTypeOK, CandidateRow
    <3>4. c.id.offer \in Offers
      BY <3>3, BetsAreCandidates
    <3>5. Unwise(c.id.offer, speech) => c.rule <= 52
      BY <3>1, <3>4, RuleScoreBounds
    <3>6. c.decision = "bet" => c.score >= Threshold
      <4>1. c.decision = Decision(c.score)
        BY <1>1 DEF RefInv, DecisionsFollow
      <4> QED BY <3>3, <4>1, ThresholdInRange DEF Decision
    <3>7. Threshold \in Int
      BY ThresholdInRange
    <3>8. Threshold > 52
      OBVIOUS
    <3> QED BY <3>1, <3>2, <3>3, <3>5, <3>6, <3>7, <3>8
  <2> QED BY <1>1, <2>1, BetsAreBacked DEF RowsJustified, ScoredAsHeard
<1>2. AutopilotSpec => []RefInv
  BY RefInit, RefStep, PTL DEF AutopilotSpec
<1> QED BY <1>1, <1>2, TypesKept, ScoresKept, PTL
-----------------------------------------------------------------------------
(* Caps.  A match comes once in a pass, so that the bets of a match in a   *)
(* pass are those that its selection has brought so far: with what is left *)
(* of the selection they stay within the cap and without a clash.          *)
BeforeMe(rows, r) ==
  /\ \A b \in rows :
       /\ b.pass <= r.pass
       /\ r.pc = "pass" => b.pass < r.pass
       /\ r.pc \in InPass /\ b.pass = r.pass =>
            \A i \in DOMAIN r.queue : b.match = r.queue[i] => i = 1 /\ r.pc = "bets"
  /\ r.pc \in InPass =>
       \A i, j \in DOMAIN r.queue : r.queue[i] = r.queue[j] => i = j

BetsOf(rows, s) == {b \in rows : b.run = s}

LeftFits(placed, left) ==
  /\ Cardinality(placed) + Len(left) <= MaxBets
  /\ \A i, j \in DOMAIN left : i # j => ~Clash(left[i].offer, left[j].offer)
  /\ \A b \in placed, i \in DOMAIN left : ~Clash(b.offer, left[i].offer)

CapsInv ==
  /\ \A s \in Runs :
       /\ BeforeMe(BetsOf(Recorded, s), run[s])
       /\ run[s].pc = "bets" => LeftFits(Placed(s, run[s].pass, Current(s)), run[s].cands)
  /\ \A s \in Runs, pass \in 1 .. MaxPasses, match \in Ids :
       IsFiniteSet(Placed(s, pass, match))
  /\ PassWithinCaps

LEMMA CapsInit == AutopilotInit => CapsInv
<1> SUFFICES ASSUME AutopilotInit PROVE CapsInv
  OBVIOUS
<1>1. Recorded = {} /\ \A s \in Runs : run[s].pc = "off"
  BY DEF AutopilotInit, SettlementInit, Recorded, NoBet, NewRun
<1>2. \A s, pass, match : Placed(s, pass, match) = {}
  BY <1>1 DEF Placed
<1>3. IsFiniteSet({}) /\ Cardinality({}) = 0 /\ 0 <= MaxBets
  BY FS_EmptySet, MaxBetsIsPositive
<1> QED BY <1>1, <1>2, <1>3 DEF CapsInv, BeforeMe, BetsOf, PassWithinCaps, InPass, InMatch

(* How the queue of a process goes.                                        *)
QueueGoes(r, r2) ==
  r2.pc \in InPass =>
    \/ r.pc = "pass" /\ r2.pc = "match" /\ r2.queue = ScopedIds
    \/ r.pc \in InPass /\ r2.queue = r.queue /\ (r.pc = "bets" => r2.pc = "bets")
    \/ r.pc = "bets" /\ r2.pc = "match" /\ r.queue # <<>> /\ r2.queue = Tail(r.queue)

LEMMA QueuesGo ==
  ASSUME TypeInv, NEW s \in Runs,
         (\E mode \in Modes : OpenSession(s, mode)) \/ Step(s) \/ Fault(s)
  PROVE  QueueGoes(run[s], run'[s])
<1>1. run[s] \in Run /\ s \in DOMAIN run /\ Works(run[s])
  BY RunIs DEF TypeInv, AutopilotTypeOK
<1>2. CASE \/ \E mode \in Modes : OpenSession(s, mode)
           \/ LoadModel(s) \/ EndPass(s) \/ PassFails(s) \/ CloseSession(s) \/ Kill(s)
  <2>1. run'[s].pc \notin InPass
    <3>1. \A exit : Gone(run[s], exit).pc = "gone"
      BY DEF Gone, NewRun
    <3>2. CASE \E mode \in Modes : OpenSession(s, mode)
      BY <1>1, <3>1, <3>2 DEF OpenSession, Run, InPass, InMatch
    <3>3. CASE LoadModel(s)
      BY <1>1, <3>3 DEF LoadModel, Run, InPass, InMatch
    <3>4. CASE EndPass(s)
      BY <1>1, <3>4 DEF EndPass, Run, InPass, InMatch
    <3>5. CASE PassFails(s)
      BY <1>1, <3>5 DEF PassFails, Run, InPass, InMatch
    <3>6. CASE CloseSession(s) \/ Kill(s)
      BY <1>1, <3>1, <3>6 DEF CloseSession, Kill, InPass, InMatch
    <3> QED BY <1>2, <3>2, <3>3, <3>4, <3>5, <3>6
  <2> QED BY <2>1 DEF QueueGoes
<1>3. CASE BeginPass(s)
  <2>1. run[s].pc = "pass" /\ run'[s].pc = "match" /\ run'[s].queue = ScopedIds
    <3>1. PICK speech \in Transcripts :
            run' = [run EXCEPT ![s].pc = "match", ![s].queue = ScopedIds, ![s].speech = speech]
      BY <1>3 DEF BeginPass
    <3> QED BY <1>1, <1>3, <3>1 DEF BeginPass, Run
  <2> QED BY <2>1 DEF QueueGoes
<1>4. CASE NextMatch(s)
  <2>1. run[s].queue # <<>>
    BY <1>1, <1>4 DEF NextMatch, Works, InMatch
  <2> QED BY <1>1, <1>4, <2>1 DEF NextMatch, QueueGoes, Run
<1>5. CASE SaveMatch(s)
  BY <1>1, <1>5 DEF SaveMatch, QueueGoes, Run, InPass, InMatch
<1>6. CASE SaveSpeech(s)
  BY <1>1, <1>6 DEF SaveSpeech, QueueGoes, Run, InPass, InMatch
<1>7. CASE SaveOdds(s)
  BY <1>1, <1>7 DEF SaveOdds, QueueGoes, Run, InPass, InMatch
<1>8. CASE ScoreCandidates(s)
  BY <1>1, <1>8 DEF ScoreCandidates, QueueGoes, Run, InPass, InMatch
<1>9. CASE SaveCandidate(s)
  BY <1>1, <1>9 DEF SaveCandidate, QueueGoes, Run, InPass, InMatch
<1>10. CASE Select(s)
  BY <1>1, <1>10 DEF Select, QueueGoes, Run, InPass, InMatch
<1>11. CASE PlaceBet(s)
  BY <1>1, <1>11 DEF PlaceBet, QueueGoes, Run, InPass, InMatch
<1> QED BY <1>2, <1>3, <1>4, <1>5, <1>6, <1>7, <1>8, <1>9, <1>10, <1>11 DEF Step, Fault

LEMMA StaysBefore ==
  ASSUME NEW r \in Run, NEW r2 \in Run, Evolves(r, r2), QueueGoes(r, r2),
         NEW rows, \A b \in rows : b.pass \in Nat, BeforeMe(rows, r),
         r.pass \in Nat, r2.pass \in Nat
  PROVE  BeforeMe(rows, r2)
<1>1. ASSUME NEW b \in rows
      PROVE  b.pass <= r2.pass /\ (r2.pc = "pass" => b.pass < r2.pass)
  BY DEF BeforeMe, Evolves
<1>2. CASE r2.pc \notin InPass
  BY <1>1, <1>2 DEF BeforeMe
<1>3. CASE r.pc = "pass" /\ r2.pc = "match" /\ r2.queue = ScopedIds
  <2>1. \A b \in rows : b.pass # r2.pass
    BY <1>3 DEF BeforeMe, Evolves, InPass
  <2> QED BY <1>1, <1>3, <2>1, ScopedIdsDiffer DEF BeforeMe
<1>4. CASE r.pc \in InPass /\ r2.pc \in InPass /\ r2.queue = r.queue
           /\ (r.pc = "bets" => r2.pc = "bets")
  <2>1. r2.pass = r.pass
    BY <1>4 DEF Evolves
  <2> QED BY <1>1, <1>4, <2>1 DEF BeforeMe
<1>5. CASE r.pc = "bets" /\ r2.pc = "match" /\ r.queue # <<>> /\ r2.queue = Tail(r.queue)
  <2>1. r2.pass = r.pass /\ r.pc \in InPass
    BY <1>5 DEF Evolves, InPass, InMatch
  <2>2. r.queue \in Seq(Ids)
    BY DEF Run
  <2>3. \A i \in DOMAIN r2.queue :
          i + 1 \in DOMAIN r.queue /\ r2.queue[i] = r.queue[i + 1] /\ i \in Nat /\ i + 1 # 1
    BY <1>5, <2>2
  <2>4. \A i, j \in DOMAIN r2.queue : r2.queue[i] = r2.queue[j] => i = j
    BY <2>1, <2>3 DEF BeforeMe
  <2>5. ASSUME NEW b \in rows, b.pass = r2.pass, NEW i \in DOMAIN r2.queue PROVE b.match # r2.queue[i]
    BY <2>1, <2>3, <2>5 DEF BeforeMe
  <2> QED BY <1>1, <2>4, <2>5 DEF BeforeMe
<1> QED BY <1>2, <1>3, <1>4, <1>5 DEF QueueGoes

(* A step of a command that records nothing.                               *)
LEMMA QuietCaps ==
  ASSUME TypeInv, TypeInv', CapsInv, NEW s \in Runs,
         (\E mode \in Modes : OpenSession(s, mode)) \/ Step(s) \/ Fault(s),
         Recorded' = Recorded,
         run'[s].pc = "bets" =>
           LeftFits(Placed(s, run'[s].pass, Head(run'[s].queue)), run'[s].cands)
  PROVE  CapsInv'
<1>1. \A q \in Runs \ {s} : run'[q] = run[q]
  BY ProcessSteps DEF TypeInv, AutopilotTypeOK
<1>2. \A q, pass, match : Placed(q, pass, match)' = Placed(q, pass, match)
  BY DEF Placed
<1>3. BeforeMe(BetsOf(Recorded, s), run'[s])
  <2>1. Evolves(run[s], run'[s]) /\ QueueGoes(run[s], run'[s])
    BY StepsEvolve, QueuesGo
  <2>2. run[s] \in Run /\ run'[s] \in Run
    BY DEF TypeInv, AutopilotTypeOK
  <2>3. \A b \in BetsOf(Recorded, s) : b.pass \in Nat
    <3>1. \A b \in Bets : b.pass \in 1 .. MaxPasses
      BY BetsAreCandidates
    <3>2. \A p \in 1 .. MaxPasses : p \in Nat
      BY MaxPassesIsPositive
    <3> QED BY <3>1, <3>2 DEF BetsOf, Recorded
  <2>4. run[s].pass \in Nat /\ run'[s].pass \in Nat
    <3>1. run[s].pass \in 0 .. MaxPasses /\ run'[s].pass \in 0 .. MaxPasses
      BY <2>2 DEF Run
    <3> QED BY <3>1, MaxPassesIsPositive
  <2>5. BeforeMe(BetsOf(Recorded, s), run[s])
    BY DEF CapsInv
  <2> QED BY <2>1, <2>2, <2>3, <2>4, <2>5, StaysBefore
<1>4. ASSUME NEW q \in Runs
      PROVE  /\ BeforeMe(BetsOf(Recorded, q), run[q])'
             /\ (run[q].pc = "bets" => LeftFits(Placed(q, run[q].pass, Current(q)), run[q].cands))'
  BY <1>1, <1>2, <1>3 DEF CapsInv, Current
<1>5. PassWithinCaps'
  BY <1>2 DEF CapsInv, PassWithinCaps
<1> QED BY <1>2, <1>4, <1>5 DEF CapsInv

LEMMA SelectCaps ==
  ASSUME TypeInv, TypeInv', CapsInv, NEW s \in Runs, Select(s)
  PROVE  CapsInv'
<1>1. /\ run[s] \in Run /\ s \in DOMAIN run /\ run[s].cands \in Seq(Candidate)
      /\ run[s].queue \in Seq(Ids) /\ run[s].queue # <<>>
  BY RunIs DEF TypeInv, AutopilotTypeOK, Select, Works, InMatch
<1>2. /\ run'[s].pass = run[s].pass /\ run'[s].queue = run[s].queue /\ run[s].pc = "select"
      /\ run'[s].cands = SelectBets(run[s].cands)
  BY <1>1 DEF Select, Run
<1>3. Placed(s, run[s].pass, Current(s)) = {}
  <2>1. BeforeMe(BetsOf(Recorded, s), run[s])
    BY DEF CapsInv
  <2>2. 1 \in DOMAIN run[s].queue /\ Current(s) = run[s].queue[1]
    BY <1>1 DEF Current
  <2>3. \A b \in BetsOf(Recorded, s) : b.pass = run[s].pass => b.match # run[s].queue[1]
    BY <1>2, <2>1, <2>2 DEF BeforeMe, InPass, InMatch
  <2> QED BY <2>2, <2>3 DEF Placed, BetsOf
<1>4. LeftFits({}, SelectBets(run[s].cands))
  <2>1. PicksWell(SelectBets(run[s].cands), Ranked(run[s].cands), Cardinality(EligibleAt(run[s].cands)))
    BY <1>1, SelectPicks
  <2> DEFINE ch == SelectBets(run[s].cands)
  <2> HIDE DEF ch
  <2>2. ch \in Seq(Candidate) /\ Len(ch) <= MaxBets /\ DOMAIN ch = 1 .. Len(ch) /\ Len(ch) \in Nat
    BY <2>1 DEF PicksWell, ch
  <2>3. \A i, j \in DOMAIN ch : i # j => ~Clash(ch[i].offer, ch[j].offer)
    BY <2>1, <2>2 DEF PicksWell, ch
  <2>4. Cardinality({}) + Len(ch) <= MaxBets
    BY <2>2, FS_EmptySet
  <2> QED BY <2>3, <2>4 DEF LeftFits, ch
<1>5. Recorded' = Recorded
  BY DEF Select, settlementVars, Recorded
<1> QED BY <1>2, <1>3, <1>4, <1>5, QuietCaps DEF Step, Current

LEMMA StillInBets ==
  ASSUME TypeInv, NEW s \in Runs,
         (\E mode \in Modes : OpenSession(s, mode)) \/ Step(s) \/ Fault(s),
         ~Select(s), ~PlaceBet(s)
  PROVE  run'[s].pc # "bets"
<1>1. run[s] \in Run /\ s \in DOMAIN run
  BY RunIs DEF TypeInv, AutopilotTypeOK
<1>2. CASE \/ \E mode \in Modes : OpenSession(s, mode)
           \/ LoadModel(s) \/ BeginPass(s) \/ NextMatch(s) \/ EndPass(s)
           \/ PassFails(s) \/ CloseSession(s) \/ Kill(s)
  BY <1>2, StageEnds DEF InMatch
<1>3. CASE SaveMatch(s) \/ SaveSpeech(s)
  BY <1>1, <1>3 DEF SaveMatch, SaveSpeech, Run
<1>4. CASE SaveOdds(s)
  BY <1>1, <1>4 DEF SaveOdds, Run
<1>5. CASE ScoreCandidates(s)
  BY <1>1, <1>5 DEF ScoreCandidates, Run
<1>6. CASE SaveCandidate(s)
  BY <1>1, <1>6 DEF SaveCandidate, Run
<1> QED BY <1>2, <1>3, <1>4, <1>5, <1>6 DEF Step, Fault

LEMMA OnlyPlaceBetWrites ==
  ASSUME NEW s \in Runs,
         (\E mode \in Modes : OpenSession(s, mode)) \/ Step(s) \/ Fault(s), ~PlaceBet(s)
  PROVE  UNCHANGED settlementVars
<1>1. CASE (\E mode \in Modes : OpenSession(s, mode)) \/ Fault(s)
  BY <1>1 DEF OpenSession, Fault, PassFails, Kill
<1>2. CASE LoadModel(s) \/ BeginPass(s) \/ SaveMatch(s) \/ SaveSpeech(s) \/ SaveOdds(s)
  BY <1>2 DEF LoadModel, BeginPass, SaveMatch, SaveSpeech, SaveOdds
<1>3. CASE ScoreCandidates(s) \/ SaveCandidate(s) \/ Select(s)
  BY <1>3 DEF ScoreCandidates, SaveCandidate, Select
<1>4. CASE NextMatch(s) \/ EndPass(s) \/ CloseSession(s)
  BY <1>4 DEF NextMatch, EndPass, CloseSession
<1> QED BY <1>1, <1>2, <1>3, <1>4 DEF Step

LEMMA ClashIsSymmetric == \A o, p : Clash(o, p) => Clash(p, o)
  BY DEF Clash

(* One more bet of the selection.                                          *)
LEMMA OneMoreBet ==
  ASSUME NEW placed, IsFiniteSet(placed), NEW left \in Seq(Candidate), left # <<>>,
         NEW b, b.offer = Head(left).offer, LeftFits(placed, left)
  PROVE  /\ LeftFits(placed \cup {b}, Tail(left))
         /\ IsFiniteSet(placed \cup {b}) /\ Cardinality(placed \cup {b}) <= MaxBets
         /\ \A a \in placed : ~Clash(a.offer, b.offer) /\ ~Clash(b.offer, a.offer)
<1>1. /\ 1 \in DOMAIN left /\ Head(left) = left[1] /\ Len(left) \in Nat
      /\ Len(Tail(left)) = Len(left) - 1 /\ Len(left) >= 1
      /\ \A i \in DOMAIN Tail(left) :
           i + 1 \in DOMAIN left /\ Tail(left)[i] = left[i + 1] /\ i \in Nat /\ i + 1 # 1
  OBVIOUS
<1>2. /\ IsFiniteSet(placed \cup {b})
      /\ Cardinality(placed \cup {b}) \in Nat /\ Cardinality(placed) \in Nat
      /\ Cardinality(placed \cup {b}) <= Cardinality(placed) + 1
  <2>1. /\ IsFiniteSet(placed \cup {b})
        /\ Cardinality(placed \cup {b}) = IF b \in placed THEN Cardinality(placed)
                                           ELSE Cardinality(placed) + 1
    BY FS_AddElement
  <2>2. Cardinality(placed) \in Nat
    BY FS_CardinalityType
  <2> QED BY <2>1, <2>2
<1>3. /\ Cardinality(placed \cup {b}) + Len(Tail(left)) <= MaxBets
      /\ Cardinality(placed \cup {b}) <= MaxBets
  BY <1>1, <1>2, MaxBetsIsPositive DEF LeftFits
<1>4. \A i, j \in DOMAIN Tail(left) : i # j => ~Clash(Tail(left)[i].offer, Tail(left)[j].offer)
  BY <1>1 DEF LeftFits
<1>5. \A i \in DOMAIN Tail(left) : ~Clash(b.offer, Tail(left)[i].offer)
  BY <1>1 DEF LeftFits
<1>6. \A a \in placed, i \in DOMAIN Tail(left) : ~Clash(a.offer, Tail(left)[i].offer)
  BY <1>1 DEF LeftFits
<1>7. \A a \in placed : ~Clash(a.offer, b.offer) /\ ~Clash(b.offer, a.offer)
  BY <1>1, ClashIsSymmetric DEF LeftFits
<1> QED BY <1>2, <1>3, <1>4, <1>5, <1>6, <1>7 DEF LeftFits

LEMMA PlaceBetCaps ==
  ASSUME TypeInv, TypeInv', CapsInv, NEW s \in Runs, PlaceBet(s)
  PROVE  CapsInv'
<1> DEFINE b0 == BetOf(s, Head(run[s].cands).offer)
           placed == Placed(s, run[s].pass, Current(s))
<1>1. /\ run[s] \in Run /\ s \in DOMAIN run /\ run[s].cands \in Seq(Candidate)
      /\ run[s].queue \in Seq(Ids) /\ run[s].queue # <<>>
      /\ run[s].pc = "bets" /\ run[s].cands # <<>>
      /\ Current(s) \in Ids /\ run[s].pass \in 1 .. MaxPasses
  BY RunIs DEF TypeInv, AutopilotTypeOK, PlaceBet, Works, InMatch
<1>2. LeftFits(placed, run[s].cands) /\ IsFiniteSet(placed)
  BY <1>1 DEF CapsInv
<1>3. b0.run = s /\ b0.pass = run[s].pass /\ b0.match = Current(s)
      /\ b0.offer = Head(run[s].cands).offer
  BY DEF BetOf
<1> HIDE DEF b0, placed
<1>4. /\ LeftFits(placed \cup {b0}, Tail(run[s].cands))
      /\ IsFiniteSet(placed \cup {b0}) /\ Cardinality(placed \cup {b0}) <= MaxBets
      /\ \A a \in placed : ~Clash(a.offer, b0.offer) /\ ~Clash(b0.offer, a.offer)
  BY <1>1, <1>2, <1>3, OneMoreBet
<1>5. CASE run[s].mode = "auto"
  <2>1. run'[s].pc = "stop" /\ Recorded' = Recorded
    BY <1>1, <1>5 DEF PlaceBet, Run, settlementVars, Recorded
  <2> QED BY <2>1, QuietCaps DEF Step
<1>6. CASE run[s].mode # "auto"
  <2>1. /\ run'[s].pass = run[s].pass /\ run'[s].queue = run[s].queue
        /\ run'[s].pc = "bets" /\ run'[s].cands = Tail(run[s].cands)
    BY <1>1, <1>6 DEF PlaceBet, Run
  <2>2. CASE UNCHANGED settlementVars
    <3>1. Recorded' = Recorded
      BY <2>2 DEF settlementVars, Recorded
    <3>2. LeftFits(placed, Tail(run[s].cands))
      <4>1. /\ Len(run[s].cands) \in Nat /\ Len(Tail(run[s].cands)) = Len(run[s].cands) - 1
            /\ \A i \in DOMAIN Tail(run[s].cands) :
                 /\ i + 1 \in DOMAIN run[s].cands /\ i \in Nat
                 /\ Tail(run[s].cands)[i] = run[s].cands[i + 1]
        BY <1>1
      <4>2. Cardinality(placed) \in Nat
        BY <1>2, FS_CardinalityType
      <4>3. Cardinality(placed) + Len(Tail(run[s].cands)) <= MaxBets
        BY <1>2, <4>1, <4>2, MaxBetsIsPositive DEF LeftFits
      <4>4. \A i, j \in DOMAIN Tail(run[s].cands) :
              i # j => ~Clash(Tail(run[s].cands)[i].offer, Tail(run[s].cands)[j].offer)
        <5>1. \A i, j \in DOMAIN Tail(run[s].cands) : i # j => i + 1 # j + 1
          BY <4>1
        <5> QED BY <1>2, <4>1, <5>1 DEF LeftFits
      <4>5. \A b \in placed, i \in DOMAIN Tail(run[s].cands) :
              ~Clash(b.offer, Tail(run[s].cands)[i].offer)
        BY <1>2, <4>1 DEF LeftFits
      <4> QED BY <4>3, <4>4, <4>5 DEF LeftFits
    <3> QED BY <2>1, <3>1, <3>2, QuietCaps DEF Step, Current, placed
  <2>3. CASE SaveBet(b0)
    <3>1. Recorded' = Recorded \cup {b0}
      <4>1. b0 \in Bets
        <5>1. Head(run[s].cands) \in Candidate
          BY <1>1
        <5> QED BY <1>1, <5>1, BetsAreCandidates DEF b0, BetOf, Candidate
      <4> QED BY <2>3, <4>1 DEF SaveBet, Recorded, PlacedBet, NoBet, TypeInv,
              AutopilotTypeOK, SettlementTypeOK
    <3>2. \A q \in Runs \ {s} : run'[q] = run[q]
      BY ProcessSteps DEF TypeInv, AutopilotTypeOK, Step
    <3>3. \A q \in Runs \ {s} : BetsOf(Recorded', q) = BetsOf(Recorded, q)
      BY <1>3, <3>1 DEF BetsOf
    <3>4. BetsOf(Recorded', s) = BetsOf(Recorded, s) \cup {b0}
      BY <1>3, <3>1 DEF BetsOf
    <3>5. \A q, pass, match :
            Placed(q, pass, match)' =
              IF q = s /\ pass = run[s].pass /\ match = Current(s)
                THEN placed \cup {b0} ELSE Placed(q, pass, match)
      <4>1. ASSUME NEW q, NEW pass, NEW match,
                   q = s /\ pass = run[s].pass /\ match = Current(s)
            PROVE  Placed(q, pass, match)' = placed \cup {b0}
        BY <1>3, <3>1, <4>1 DEF Placed, placed
      <4>2. ASSUME NEW q, NEW pass, NEW match,
                   ~(q = s /\ pass = run[s].pass /\ match = Current(s))
            PROVE  Placed(q, pass, match)' = Placed(q, pass, match)
        BY <1>3, <3>1, <4>2 DEF Placed
      <4> QED BY <4>1, <4>2
    <3>6. BeforeMe(BetsOf(Recorded, s) \cup {b0}, run'[s])
      <4>1. BeforeMe(BetsOf(Recorded, s), run[s])
        BY DEF CapsInv
      <4>2. /\ 1 \in DOMAIN run[s].queue /\ Current(s) = run[s].queue[1]
            /\ run[s].pass <= run[s].pass
        BY <1>1, MaxPassesIsPositive DEF Current
      <4>3. \A i \in DOMAIN run[s].queue : b0.match = run[s].queue[i] => i = 1
        BY <1>1, <1>3, <4>1, <4>2 DEF BeforeMe, InPass, InMatch
      <4> QED BY <1>1, <1>3, <2>1, <4>1, <4>2, <4>3 DEF BeforeMe
    <3>7. ASSUME NEW q \in Runs
          PROVE  /\ BeforeMe(BetsOf(Recorded, q), run[q])'
                 /\ (run[q].pc = "bets" => LeftFits(Placed(q, run[q].pass, Current(q)), run[q].cands))'
      <4>1. CASE q = s
        <5>1. BeforeMe(BetsOf(Recorded, q), run[q])'
          BY <3>4, <3>6, <4>1
        <5>2. Current(s)' = Current(s)
          BY <2>1 DEF Current
        <5>3. Placed(s, run[s].pass, Current(s))' = placed \cup {b0}
          <6>1. \A pass, match : pass = run[s].pass /\ match = Current(s)
                  => Placed(s, pass, match)' = placed \cup {b0}
            BY <3>5
          <6>2. PICK pass, match : pass = run[s].pass /\ match = Current(s)
            OBVIOUS
          <6> QED BY <2>1, <5>2, <6>1, <6>2
        <5> QED BY <1>4, <2>1, <4>1, <5>1, <5>3
      <4>2. CASE q # s
        <5>1. BeforeMe(BetsOf(Recorded, q), run[q])'
          BY <3>2, <3>3, <4>2 DEF CapsInv
        <5>2. Placed(q, run[q].pass, Current(q))' = Placed(q, run[q].pass, Current(q))
          <6>1. PICK pass, match : pass = run[q].pass /\ match = Current(q)
            OBVIOUS
          <6>2. pass = run'[q].pass /\ match = Current(q)'
            BY <3>2, <4>2, <6>1 DEF Current
          <6>3. Placed(q, pass, match)' = Placed(q, pass, match)
            BY <3>5, <4>2
          <6> QED BY <6>1, <6>2, <6>3
        <5> QED BY <3>2, <4>2, <5>1, <5>2 DEF CapsInv
      <4> QED BY <4>1, <4>2
    <3>8. ASSUME NEW q \in Runs, NEW pass \in 1 .. MaxPasses, NEW match \in Ids
          PROVE  /\ IsFiniteSet(Placed(q, pass, match)')
                 /\ Cardinality(Placed(q, pass, match)') <= MaxBets
                 /\ \A a, b \in Placed(q, pass, match)' : a # b => ~Clash(a.offer, b.offer)
      <4>1. CASE q = s /\ pass = run[s].pass /\ match = Current(s)
        <5>1. Placed(q, pass, match)' = placed \cup {b0}
          BY <3>5, <4>1
        <5>2. \A a, b \in placed : a # b => ~Clash(a.offer, b.offer)
          BY <1>1 DEF CapsInv, PassWithinCaps, placed
        <5> QED BY <1>4, <5>1, <5>2
      <4>2. CASE ~(q = s /\ pass = run[s].pass /\ match = Current(s))
        <5>1. Placed(q, pass, match)' = Placed(q, pass, match)
          BY <3>5, <4>2
        <5> QED BY <5>1 DEF CapsInv, PassWithinCaps
      <4> QED BY <4>1, <4>2
    <3>9. PassWithinCaps'
      BY <3>8 DEF PassWithinCaps
    <3> QED BY <3>7, <3>8, <3>9 DEF CapsInv
  <2> QED BY <1>6, <2>2, <2>3 DEF PlaceBet, b0
<1> QED BY <1>5, <1>6

LEMMA CapsStep ==
  BookInv /\ TypeInv /\ TypeInv' /\ CapsInv /\ [AutopilotNext]_autopilotAllVars => CapsInv'
<1> SUFFICES ASSUME BookInv, TypeInv, TypeInv', CapsInv, [AutopilotNext]_autopilotAllVars
             PROVE  CapsInv'
  OBVIOUS
<1>1. ASSUME UNCHANGED autopilotVars, Recorded' = Recorded PROVE CapsInv'
  <2>1. \A q, pass, match : Placed(q, pass, match)' = Placed(q, pass, match)
    BY <1>1 DEF Placed
  <2>2. run' = run /\ \A q : Current(q)' = Current(q)
    BY <1>1 DEF autopilotVars, Current
  <2>3. PassWithinCaps'
    BY <2>1 DEF CapsInv, PassWithinCaps
  <2>4. \A q \in Runs : Placed(q, run[q].pass, Current(q))' = Placed(q, run[q].pass, Current(q))
    BY <1>1, <2>2 DEF Placed
  <2> QED BY <1>1, <2>1, <2>2, <2>3, <2>4 DEF CapsInv
<1>2. ASSUME NEW s \in Runs,
             (\E mode \in Modes : OpenSession(s, mode)) \/ Step(s) \/ Fault(s)
      PROVE  CapsInv'
  <2>1. CASE Select(s)
    BY <2>1, SelectCaps
  <2>2. CASE PlaceBet(s)
    BY <2>2, PlaceBetCaps
  <2>3. CASE ~Select(s) /\ ~PlaceBet(s)
    <3>1. run'[s].pc # "bets"
      BY <1>2, <2>3, StillInBets
    <3>2. UNCHANGED bets
      <4>1. UNCHANGED settlementVars
        BY <1>2, <2>3, OnlyPlaceBetWrites
      <4> QED BY <4>1 DEF settlementVars
    <3>3. Recorded' = Recorded
      BY <3>2 DEF Recorded
    <3> QED BY <1>2, <3>1, <3>3, QuietCaps
  <2> QED BY <2>1, <2>2, <2>3
<1>3. ASSUME NEW p \in Settlers, SettlerStep(p), UNCHANGED autopilotVars
      PROVE  CapsInv'
  BY <1>1, <1>3, SettlersRecordNothing
<1>4. CASE UNCHANGED autopilotAllVars
  <2>1. Recorded' = Recorded
    BY <1>4 DEF autopilotAllVars, settlementVars, Recorded
  <2> QED BY <1>1, <1>4, <2>1 DEF autopilotAllVars
<1> QED BY <1>2, <1>3, <1>4 DEF AutopilotNext

(* Nothing eligible is left out without need: see PicksWell.               *)
LEMMA NothingIsLeftOut ==
  ASSUME NEW all \in Seq(Candidate), NEW i \in DOMAIN all, Eligible(all[i]),
         ~Contains(SelectBets(all), all[i])
  PROVE  LET chosen == SelectBets(all)
             better == {j \in DOMAIN chosen : chosen[j].score >= all[i].score}
         IN  \/ \E j \in better : Clash(chosen[j].offer, all[i].offer)
             \/ Cardinality(better) = MaxBets
<1> DEFINE chosen == SelectBets(all)
           better == {j \in DOMAIN chosen : chosen[j].score >= all[i].score}
<1>1. PicksWell(chosen, Ranked(all), Cardinality(EligibleAt(all)))
  BY SelectPicks
<1>2. PICK k \in 1 .. Cardinality(EligibleAt(all)) : Ranked(all)[k] = all[i]
  <2>1. i \in EligibleAt(all)
    BY DEF EligibleAt
  <2> QED BY <2>1, RankedDescends
<1>3. \A j \in DOMAIN chosen : chosen[j] # all[i]
  BY DEF Contains
<1> HIDE DEF chosen
<1>4. chosen \in Seq(Candidate) /\ Len(chosen) \in Nat /\ DOMAIN chosen = 1 .. Len(chosen)
  BY <1>1 DEF PicksWell
<1>5. \/ \E j \in 1 .. Len(chosen) : chosen[j].score >= all[i].score
                                      /\ Clash(chosen[j].offer, all[i].offer)
      \/ Len(chosen) = MaxBets /\ \A j \in 1 .. Len(chosen) : chosen[j].score >= all[i].score
  BY <1>1, <1>2, <1>3, <1>4 DEF PicksWell
<1>6. ASSUME Len(chosen) = MaxBets, \A j \in 1 .. Len(chosen) : chosen[j].score >= all[i].score
      PROVE  Cardinality(better) = MaxBets
  <2>1. better = 1 .. MaxBets
    BY <1>4, <1>6
  <2>2. MaxBets \in Nat /\ ~(1 > MaxBets) /\ MaxBets - 1 + 1 = MaxBets
    BY MaxBetsIsPositive
  <2>3. Cardinality(1 .. MaxBets) = IF 1 > MaxBets THEN 0 ELSE MaxBets - 1 + 1
    BY <2>2, FS_Interval
  <2>4. Cardinality(1 .. MaxBets) = MaxBets
    BY <2>2, <2>3
  <2> HIDE DEF better
  <2> QED BY <2>1, <2>4
<1> QED BY <1>4, <1>5, <1>6 DEF chosen

(* However a pass ends and whatever runs beside it, the bets of one match  *)
(* stay within the cap and do not clash; and what was left out had to be.  *)
THEOREM SelectionIsSound == AutopilotSpec => []SelectionSound
<1>1. TypeInv => NothingBetterLeftOut
  <2> SUFFICES ASSUME TypeInv, NEW s \in Runs, run[s].pc = "select"
               PROVE  \A i \in DOMAIN run[s].cands :
                        Eligible(run[s].cands[i])
                          /\ ~Contains(SelectBets(run[s].cands), run[s].cands[i]) =>
                          LET chosen == SelectBets(run[s].cands)
                              better == {j \in DOMAIN chosen :
                                           chosen[j].score >= run[s].cands[i].score}
                          IN  \/ \E j \in better : Clash(chosen[j].offer, run[s].cands[i].offer)
                              \/ Cardinality(better) = MaxBets
    BY DEF NothingBetterLeftOut
  <2>1. run[s].cands \in Seq(Candidate)
    BY RunIs
  <2> QED BY <2>1, NothingIsLeftOut
<1>2. CapsInv => PassWithinCaps
  BY DEF CapsInv
<1>3. AutopilotSpec => []CapsInv
  BY CapsInit, CapsStep, BookInvariant, TypesKept, PTL DEF AutopilotSpec
<1> QED BY <1>1, <1>2, <1>3, TypesKept, PTL DEF SelectionSound
=============================================================================
