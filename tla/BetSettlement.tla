--------------------------- MODULE BetSettlement ----------------------------
(***************************************************************************)
(* The bets table and the commands that settle it: settle-bet, and         *)
(* import-settlements, which applies the rows of a CSV file one by one,    *)
(* each in a transaction of its own (app/storage/repositories.py,          *)
(* app/data_io/settlement_import.py).  A settler is a process; nothing     *)
(* keeps two of them, or a running autopilot, from sharing the database.   *)
(***************************************************************************)
EXTENDS Integers, Sequences, SequencesExt

CONSTANTS
  Bets,      \* bet ids
  Settlers,  \* processes that settle bets
  Files      \* CSV files: sequences of [bet, outcome]

Outcomes == {"win", "loss", "push", "void"}
Row == [bet : Bets, outcome : Outcomes \cup {"invalid"}]

ASSUME FilesAreRows == Files \subseteq Seq(Row)

VARIABLES
  bets,     \* bets[b] : the row of b, NoBet when there is none
  settler,  \* settler[p] : the command p is executing
  owed      \* auxiliary: owed[p][b] is the outcome that p, when it is done,
            \* must leave in b; "none" when another process wrote b too

settlementVars == <<bets, settler, owed>>

BetRow == [status : {"none", "placed", "settled"},
           result : Outcomes \cup {"unknown"},
           profit : {"zero", "gain", "stake lost"}]

NoBet == [status |-> "none", result |-> "unknown", profit |-> "zero"]
PlacedBet == [NoBet EXCEPT !.status = "placed"]

Settler == [pc : {"idle", "row", "update"},
            rows : Seq(Row), exit : {"none", "done", "error"}]

IdleSettler == [pc |-> "idle", rows |-> <<>>, exit |-> "none"]

Nothing == [b \in Bets |-> "none"]

Recorded == {b \in Bets : bets[b].status # "none"}

SettlementTypeOK ==
  /\ bets \in [Bets -> BetRow]
  /\ settler \in [Settlers -> Settler]
  /\ owed \in [Settlers -> [Bets -> Outcomes \cup {"none"}]]

SettlementInit ==
  /\ bets = [b \in Bets |-> NoBet]
  /\ settler = [p \in Settlers |-> IdleSettler]
  /\ owed = [p \in Settlers |-> Nothing]
-----------------------------------------------------------------------------
(* calculate_profit_units; the odds and the stake of a bet never change.   *)
ProfitUnits(outcome) ==
  CASE outcome = "win"  -> "gain"
    [] outcome = "loss" -> "stake lost"
    [] OTHER            -> "zero"

(* save_bet of a new bet, the form in which PaperExecutor.place makes it:  *)
(* its id is a fresh uuid4.                                                *)
SaveBet(b) ==
  /\ b \notin Recorded
  /\ bets' = [bets EXCEPT ![b] = PlacedBet]
  /\ UNCHANGED <<settler, owed>>

(* What a file asks for a bet of the book: the outcome of its last good    *)
(* row for it.                                                             *)
LastOutcome(rows, b) ==
  LET good == {i \in DOMAIN rows : rows[i].bet = b /\ rows[i].outcome # "invalid"}
  IN  IF good = {} \/ b \notin Recorded THEN "none" ELSE rows[Max(good)].outcome

StartImport(p, rows) ==
  /\ settler[p].pc = "idle"
  /\ settler' = [settler EXCEPT ![p] = [IdleSettler EXCEPT !.pc = "row", !.rows = rows]]
  /\ owed' = [owed EXCEPT ![p] = [b \in Bets |-> LastOutcome(rows, b)]]
  /\ UNCHANGED bets

(* Mutant: the first bad row ends the import.                              *)
SkipRowAndStop(p) ==
  LET row == Head(settler[p].rows)
  IN  /\ settler[p].pc = "row"
      /\ settler[p].rows # <<>>
      /\ row.outcome = "invalid" \/ row.bet \notin Recorded
      /\ settler' = [settler EXCEPT ![p].rows = <<>>]
      /\ UNCHANGED <<bets, owed>>

(* A malformed row, or a bet that is not in the book: a warning.           *)
SkipRow(p) ==
  LET row == Head(settler[p].rows)
  IN  /\ settler[p].pc = "row"
      /\ settler[p].rows # <<>>
      /\ row.outcome = "invalid" \/ row.bet \notin Recorded
      /\ settler' = [settler EXCEPT ![p].rows = Tail(@)]
      /\ UNCHANGED <<bets, owed>>

(* get_bet of settle_bet: the bet is there, its odds and stake are read.   *)
ReadBet(p) ==
  LET row == Head(settler[p].rows)
  IN  /\ settler[p].pc = "row"
      /\ settler[p].rows # <<>>
      /\ row.outcome # "invalid" /\ row.bet \in Recorded
      /\ settler' = [settler EXCEPT ![p].pc = "update"]
      /\ UNCHANGED <<bets, owed>>

(* Mutant: an already settled bet is opened first.                         *)
UpdateBetReopens(p) ==
  LET row == Head(settler[p].rows)
  IN  /\ settler[p].pc = "update"
      /\ IF bets[row.bet].status = "settled"
           THEN /\ bets' = [bets EXCEPT ![row.bet] = PlacedBet]
                /\ UNCHANGED <<settler, owed>>
           ELSE /\ bets' = [bets EXCEPT ![row.bet] =
                     [status |-> "settled", result |-> row.outcome,
                      profit |-> ProfitUnits(row.outcome)]]
                /\ settler' = [settler EXCEPT ![p].pc = "row", ![p].rows = Tail(@)]
                /\ owed' = [q \in Settlers |-> [owed[q] EXCEPT ![row.bet] =
                                                  IF q = p THEN @ ELSE "none"]]

(* The UPDATE of settle_bet, whatever the bet was settled as before.       *)
UpdateBet(p) ==
  LET row == Head(settler[p].rows)
  IN  /\ settler[p].pc = "update"
      /\ bets' = [bets EXCEPT ![row.bet] =
           [status |-> "settled", result |-> row.outcome,
            profit |-> ProfitUnits(row.outcome)]]
      /\ settler' = [settler EXCEPT ![p].pc = "row", ![p].rows = Tail(@)]
      /\ owed' = [q \in Settlers |-> [owed[q] EXCEPT ![row.bet] =
                                        IF q = p THEN @ ELSE "none"]]

FinishImport(p) ==
  /\ settler[p].pc = "row"
  /\ settler[p].rows = <<>>
  /\ settler' = [settler EXCEPT ![p].pc = "idle", ![p].exit = "done"]
  /\ UNCHANGED <<bets, owed>>

(* The database is locked or full, which is not a ValueError, or the       *)
(* process dies: rows already applied stay applied.                        *)
ImportAborts(p) ==
  /\ settler[p].pc # "idle"
  /\ settler' = [settler EXCEPT ![p].pc = "idle", ![p].rows = <<>>, ![p].exit = "error"]
  /\ owed' = [owed EXCEPT ![p] = Nothing]
  /\ UNCHANGED bets

SettlerStep(p) ==
  \/ \E rows \in Files : StartImport(p, rows)
  \/ SkipRow(p)
  \/ ReadBet(p)
  \/ UpdateBet(p)
  \/ FinishImport(p)
  \/ ImportAborts(p)
-----------------------------------------------------------------------------
(* build_report over a set of recorded bets.                               *)
OpenBets(s) == {b \in s : bets[b].result = "unknown" \/ bets[b].status # "settled"}
SettledBets(s) == {b \in s : bets[b].status = "settled"}
WithResult(s, outcome) == {b \in s : bets[b].result = outcome}

(* The counters of a report taken at any moment add up, and the profit of  *)
(* every bet is the one its result stands for.                             *)
ReportAddsUp ==
  /\ OpenBets(Recorded) = Recorded \ SettledBets(Recorded)
  /\ SettledBets(Recorded) = UNION {WithResult(Recorded, o) : o \in Outcomes}
  /\ \A b \in SettledBets(Recorded) : bets[b].profit = ProfitUnits(bets[b].result)
  /\ \A b \in OpenBets(Recorded) : bets[b].profit = "zero"

(* An import that ends normally has applied every good row: each bet that  *)
(* was in the book when it started, and that no other process wrote since, *)
(* has the outcome of its last good row, whatever bad rows the file has.   *)
ImportLeavesOutcomes ==
  \A p \in Settlers : \A b \in Bets :
    (settler[p].exit = "done" /\ owed[p][b] # "none") => bets[b].result = owed[p][b]

(* Both: what the book says, while imports run and after (build_report,    *)
(* import_settlements_from_csv).                                           *)
BookSound == ReportAddsUp /\ ImportLeavesOutcomes

Ledger == INSTANCE BetLedger
  WITH ledger <- [b \in Bets |->
         IF bets[b].status = "none" THEN "none"
         ELSE IF bets[b].status = "placed" THEN "open" ELSE bets[b].result]

(* Whatever fails or interleaves, a bet is placed once, then settled, and  *)
(* never opens again.                                                      *)
ImplementsLedger == Ledger!Spec
=============================================================================
