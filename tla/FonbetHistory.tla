--------------------------- MODULE FonbetHistory ----------------------------
(* What export makes of one coupon summary and the details it has: the      *)
(* coupon records, the sequences of bets on one event, what was known when  *)
(* each bet was placed, what came of it, and the audit of cash-outs.        *)
(* Amounts are whole roubles and odds hundredths: the divisor of the source *)
(* amounts changes units only.  Where a value sits in the provider's JSON   *)
(* is left out; a detail that was not available is NoDetail.                *)
EXTENDS Integers, SequencesExt, FiniteSetsExt

CONSTANTS NoDetail,     \* no detail of a coupon
          None,         \* a JSON null
          NotANumber    \* text where a number is expected

-----------------------------------------------------------------------------
(* normalize.py: one coupon. *)
Settled(state) == state \in {"Win", "Lose", "Sold"}

Legs(detail) == IF detail = NoDetail THEN << >> ELSE detail.legs

(* _is_freebet: a mark in the summary or in the detail, whichever is there. *)
IsFreebet(s, detail) == s.free \/ (detail # NoDetail /\ detail.free)

(* _is_express: by the type, the count or the legs. *)
IsExpress(s, detail) == s.express \/ Len(Legs(detail)) > 1

(* _entry_odds: couponK of the summary or of the detail, else the factor of *)
(* a single leg or the product of all legs, half a hundredth rounded up.    *)
(* A value that is not above zero (_valid_odds) is none.                    *)
SourceK(s, detail) ==
    IF s.k # None THEN s.k ELSE IF detail = NoDetail THEN None ELSE detail.k
ValidOdds(k) == k # None /\ k > 0
HalfUp(n, unit) == (2 * n + unit) \div (2 * unit)
LegProduct(legs) ==
    HalfUp(FoldLeft(LAMBDA p, leg : p * leg.factor, 1, legs), 100 ^ (Len(legs) - 1))
EntryOdds(s, detail) ==
    LET k == SourceK(s, detail)
        legs == Legs(detail)
        priced == legs # << >> /\ \A i \in DOMAIN legs : ValidOdds(legs[i].factor)
    IN  CASE ValidOdds(k) -> k
        [] ~ValidOdds(k) /\ priced -> LegProduct(legs)
        [] OTHER -> None

(* _profit: of settled coupons; a freebet cost nothing. *)
CashStake(s, detail) == IF IsFreebet(s, detail) THEN 0 ELSE s.stake
Profit(s, detail) ==
    IF Settled(s.state) /\ s.win # None THEN s.win - CashStake(s, detail) ELSE None

(* _decimal: a value that is read as a number and is none ends the coupon's *)
(* record.                                                                  *)
Normal(s, detail) ==
    /\ NotANumber \notin {s.stake, s.win, SourceK(s, detail)}
    /\ \A i \in DOMAIN Legs(detail) : Legs(detail)[i].factor # NotANumber

(* normalize_coupon and normalize_coupon_legs *)
Coupon(s, detail, status) ==
    [id |-> s.id, at |-> s.at, state |-> s.state, stake |-> s.stake, won |-> s.win,
     cash |-> CashStake(s, detail), profit |-> Profit(s, detail),
     odds |-> EntryOdds(s, detail), express |-> IsExpress(s, detail),
     free |-> IsFreebet(s, detail), legs |-> Legs(detail), status |-> status]

-----------------------------------------------------------------------------
(* _single_event_sequence_sort_key: by the text of the time, then the id; a *)
(* coupon without a time comes last.  The text of a full second ends with   *)
(* "Z" where that of a fraction goes on with a full stop, which sorts first. *)
TextBefore(s, t) ==
    \/ s.sec < t.sec
    \/ s.sec = t.sec /\ s.frac # 0 /\ (t.frac = 0 \/ s.frac < t.frac)
SortsBefore(x, y) ==
    \/ x.at # None /\ (y.at = None \/ TextBefore(x.at, y.at))
    \/ x.at = y.at /\ x.id < y.id

(* Mutant: bets that are settled come first. *)
SettledFirst(x, y) ==
    \/ Settled(x.state) /\ ~Settled(y.state)
    \/ Settled(x.state) = Settled(y.state) /\ SortsBefore(x, y)

(* build_single_event_sequences: single bets with a known event. *)
Single(c) == ~c.express /\ Len(c.legs) = 1 /\ c.legs[1].event # None
SettledEntries(coupons) == SetToSortSeq({c \in coupons : Single(c)}, SettledFirst)

(* In order: the k-th bet is the one that k - 1 come before.                *)
Entries(coupons) ==
    LET bets == {c \in coupons : Single(c)}
    IN  [k \in 1..Cardinality(bets) |->
           CHOOSE c \in bets : Cardinality({x \in bets : SortsBefore(x, c)}) = k - 1]

Event(c) == c.legs[1].event
Prior(entries, i) == {j \in 1..(i - 1) : Event(entries[j]) = Event(entries[i])}

(* _winner_selection_side *)
Side(c) == IF c.legs[1].selection \in {"1", "2"} THEN c.legs[1].selection ELSE None
Sequence(coupons) ==
    LET e == Entries(coupons)
        Row(i) ==
          LET prior == Prior(e, i)
              last == e[Max(prior)]
          IN  [id |-> e[i].id, event |-> Event(e[i]), at |-> e[i].at,
               index |-> Cardinality(prior) + 1, side |-> Side(e[i]),
               previous |-> IF prior = {} THEN None ELSE last.id,
               previousSide |-> IF prior = {} THEN None ELSE Side(last),
               switch |-> IF prior = {} THEN None
                          ELSE IF None \in {Side(last), Side(e[i])} THEN None
                          ELSE Side(last) # Side(e[i])]
    IN  [i \in DOMAIN e |-> Row(i)]

(* _seconds_between: of bets that have a time. *)
Between(x, y) ==
    IF None \in {x.at, y.at} THEN None
    ELSE 1000 * (y.at.sec - x.at.sec) + y.at.frac - x.at.frac

(* _selected_side_score_fields *)
Lead(c) ==
    IF Side(c) = None \/ c.legs[1].score = None THEN None
    ELSE IF Side(c) = "1" THEN c.legs[1].score[1] - c.legs[1].score[2]
                        ELSE c.legs[1].score[2] - c.legs[1].score[1]

(* build_entry_exports: what was known when a bet was placed ... *)
Decisions(coupons) ==
    LET e == Entries(coupons)
        sequence == Sequence(coupons)
        Row(i) ==
          LET prior == Prior(e, i)
          IN  [of |-> sequence[i],
               since |-> IF prior = {} THEN None ELSE Between(e[Max(prior)], e[i]),
               priorCash |-> SumFunction([j \in prior |-> e[j].cash]),
               odds |-> e[i].odds, lead |-> Lead(e[i]),
               stake |-> e[i].stake, cash |-> e[i].cash, free |-> e[i].free]
    IN  [i \in DOMAIN e |-> Row(i)]

(* ... and what came of it. *)
Outcomes(coupons) ==
    LET e == Entries(coupons)
    IN  [i \in DOMAIN e |-> [id |-> e[i].id, state |-> e[i].state, won |-> e[i].won,
                             profit |-> e[i].profit, result |-> e[i].legs[1].result]]

-----------------------------------------------------------------------------
(* exporter.py: the payout of a cash bet that wins, in whole roubles. *)
Payout(stake, odds) == HalfUp(stake * odds, 100)

(* verify_settled_cash_win_payout_rounding *)
CashWins(coupons) ==
    {c \in coupons : c.state = "Win" /\ c.cash > 0 /\ c.odds # None /\ c.won # None}
PayoutsNotAbove(coupons) ==    \* mutant: only a payout that is too high is noticed
    \A c \in CashWins(coupons) : c.won <= Payout(c.cash, c.odds)
PayoutsVerified(coupons) ==
    \A c \in CashWins(coupons) : c.won = Payout(c.cash, c.odds)

(* _validate_leg_records and the check of build_entry_exports: one record   *)
(* per coupon, with the legs of its own detail.                             *)
LegsMatch(coupons) == \A c, d \in coupons : c.id = d.id => c = d

(* _validate_entry_export_keys: the decisions and the outcomes are of the   *)
(* same bets, each once.                                                    *)
EntryKeysMatch(coupons) ==
    LET decided == [i \in DOMAIN Decisions(coupons) |-> Decisions(coupons)[i].of.id]
        ended == [i \in DOMAIN Outcomes(coupons) |-> Outcomes(coupons)[i].id]
    IN  IsInjective(decided) /\ IsInjective(ended) /\ Range(decided) = Range(ended)

(* build_cashout_hold_audit: what a bet that was sold would have brought.   *)
SoldForCash(coupons) ==
    {c \in coupons : c.state = "Sold" /\ ~c.express /\ ~c.free /\ c.cash > 0}
HoldWon(c) ==
    LET leg == c.legs[1]
    IN  \/ leg.selection = "1" /\ leg.result[1] > leg.result[2]
        \/ leg.selection = "2" /\ leg.result[2] > leg.result[1]
        \/ leg.selection = "draw" /\ leg.result[1] = leg.result[2]
Held(c) ==
    IF c.legs = << >> THEN [id |-> c.id, status |-> "unsupported_selection"]
    ELSE LET leg == c.legs[1]
             return == IF HoldWon(c) THEN Payout(c.cash, c.odds) ELSE 0
         IN  CASE leg.selection \notin {"1", "2", "draw"} ->
                    [id |-> c.id, status |-> "unsupported_selection"]
             [] leg.selection \in {"1", "2", "draw"} /\ leg.result = None ->
                    [id |-> c.id, status |-> "unsupported_result_score"]
             [] leg.selection \in {"1", "2", "draw"} /\ leg.result # None
                /\ HoldWon(c) /\ c.odds = None ->
                    [id |-> c.id, status |-> "unsupported_entry_odds"]
             [] OTHER ->
                    [id |-> c.id, status |-> IF c.won = None THEN "missing_actual_return"
                                             ELSE "derived",
                     won |-> HoldWon(c), return |-> return, profit |-> return - c.cash,
                     delta |-> IF c.won = None THEN None ELSE c.won - return]
Audit(coupons) == {Held(c) : c \in SoldForCash(coupons)}
=============================================================================
