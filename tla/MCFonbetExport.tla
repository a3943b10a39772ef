--------------------------- MODULE MCFonbetExport ---------------------------
(* Three single bets on one event and an express.  Bet 1 wins and bet 2,    *)
(* the same bet, is sold; bet 3, of the same second as bet 2, is a freebet  *)
(* that only the detail marks; the file of bet 2 was damaged.  The account  *)
(* is first seen with bet 1 open, then with a payout that is corrected and  *)
(* an amount that is text; in between a summary lists a bet twice.  The     *)
(* odds of bet 2 are 0 in the summary, and those of the express are text in *)
(* the first detail.                                                        *)
EXTENDS FonbetExport

Summary(id, at, state, win, k) ==
    [id |-> id, at |-> at, state |-> state, stake |-> 100, win |-> win, k |-> k,
     free |-> FALSE, express |-> id = 4]
At(sec, frac) == [sec |-> sec, frac |-> frac]
Leg(selection, factor, score, result) ==
    [event |-> "match", selection |-> selection, factor |-> factor,
     score |-> score, result |-> result]
Detail(k, free, legs) == [k |-> k, free |-> free, legs |-> legs]

Seasons ==
    << << Summary(2, At(2, 0), "Sold", 80, 0), Summary(1, At(1, 0), "Open", None, 155) >>,
       << Summary(1, At(1, 0), "Open", None, 155), Summary(1, At(1, 0), "Win", 150, 155) >>,
       << Summary(4, At(4, 0), "Lose", NotANumber, None), Summary(3, At(2, 250), "Open", None, 200),
          Summary(2, At(2, 0), "Sold", 80, 0), Summary(1, At(1, 0), "Win", 150, 155) >>,
       << Summary(4, At(4, 0), "Lose", 0, None), Summary(3, At(2, 250), "Win", 100, 200),
          Summary(2, At(2, 0), "Sold", 80, 0), Summary(1, At(1, 0), "Win", 155, 155) >> >>
Details(result, k) ==
    << Detail(None, FALSE, << Leg("1", 155, <<0, 0>>, result) >>),
       Detail(None, FALSE, << Leg("1", 155, <<1, 1>>, result) >>),
       Detail(200, TRUE, << Leg("2", 200, None, result) >>),
       Detail(k, FALSE, << Leg("1", 155, <<0, 0>>, result), Leg("2", 133, None, result) >>) >>
Answers == << Details(None, NotANumber), Details(None, NotANumber), Details(None, NotANumber),
              Details(<<2, 1>>, None) >>
=============================================================================
