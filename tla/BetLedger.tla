----------------------------- MODULE BetLedger ------------------------------
(***************************************************************************)
(* What the paper book promises: a bet is recorded once, as open, and then *)
(* settled; a settlement may be corrected by another one, but a bet is     *)
(* never removed and never opens again.                                    *)
(***************************************************************************)
CONSTANTS
  Bets,      \* ids of the bets that may be recorded
  Outcomes   \* win, loss, push, void

VARIABLE ledger  \* ledger[b] : "none", "open", or the outcome of b

Init == ledger = [b \in Bets |-> "none"]

Place(b) ==
  /\ ledger[b] = "none"
  /\ ledger' = [ledger EXCEPT ![b] = "open"]

Settle(b, outcome) ==
  /\ ledger[b] # "none"
  /\ ledger' = [ledger EXCEPT ![b] = outcome]

Next == \E b \in Bets : Place(b) \/ \E outcome \in Outcomes : Settle(b, outcome)

Spec == Init /\ [][Next]_ledger
=============================================================================
