---------------------------- MODULE BetSelection ----------------------------
(***************************************************************************)
(* Which candidates of one match become bets (app/scoring): the decision a *)
(* final score stands for, the mixture of the rule's score with a model's, *)
(* and the greedy choice of select_bets under its caps.                    *)
(***************************************************************************)
EXTENDS BetScoring

CONSTANTS
  Offers,     \* odds snapshots that may be offered
  Scores,     \* scores a model may give
  Threshold,  \* score_threshold of the session
  MaxBets,    \* max_bets_per_match of the session
  MlWeight,   \* ml_weight, in percent
  NoScore     \* the predictor is unavailable or gives no score

ASSUME OffersAreOffers == Offers \subseteq Offer
ASSUME ScoresAreIntegers == Scores \subseteq Int
ASSUME ThresholdInRange == Threshold \in 0 .. 100
ASSUME MaxBetsIsPositive == MaxBets \in Nat \ {0}
ASSUME MlWeightIsPercent == MlWeight \in 0 .. 100
ASSUME NoScoreIsNoScore == NoScore \notin Scores

Decision(score) ==
  CASE score >= Threshold      -> "bet"
    [] score < Threshold - 10  -> "skip"
    [] OTHER                   -> "watch"

Hybrid(rule, ml) ==
  IF ml = NoScore THEN rule
  ELSE ((100 - MlWeight) * rule + MlWeight * ml) \div 100

(* The row of a candidate keeps the parts of the rule's score: rule.       *)
(* Mutant: the decision is not revised after the model's score.            *)
ScoredByRule(o, speech, ml) ==
  [offer |-> o, rule |-> RuleScore(o, speech), score |-> Hybrid(RuleScore(o, speech), ml),
   decision |-> Decision(RuleScore(o, speech))]

Scored(o, speech, ml) ==
  LET rule == RuleScore(o, speech)
  IN  [offer |-> o, rule |-> rule, score |-> Hybrid(rule, ml),
       decision |-> Decision(Hybrid(rule, ml))]

Eligible(c) == c.decision = "bet" /\ c.score >= Threshold

(* Mutant: ascending.                                                      *)
BeforeAscending(cs, i, j) ==
  cs[i].score < cs[j].score \/ (cs[i].score = cs[j].score /\ i < j)

(* The stable descending order: i comes before j.                          *)
Before(cs, i, j) ==
  cs[i].score > cs[j].score \/ (cs[i].score = cs[j].score /\ i < j)

EligibleAt(cs) == {i \in DOMAIN cs : Eligible(cs[i])}

Ranked(cs) ==
  [k \in 1 .. Cardinality(EligibleAt(cs)) |->
     cs[CHOOSE i \in EligibleAt(cs) :
          Cardinality({j \in EligibleAt(cs) : Before(cs, j, i)}) = k - 1]]

(* Two offers that may not both be bet on.                                 *)
Clash(o, p) ==
  \/ o.market = p.market /\ o.line = p.line
  \/ o.market = "map_winner" /\ p.market = "map_winner"
  \/ Tier(o.market) = "C" /\ Tier(p.market) = "C"

Admit(chosen, c) ==
  IF Len(chosen) >= MaxBets \/ \E i \in DOMAIN chosen : Clash(chosen[i].offer, c.offer)
    THEN chosen
    ELSE Append(chosen, c)

SelectBets(cs) == FoldLeft(Admit, <<>>, Ranked(cs))
=============================================================================
