----------------------------- MODULE BetScoring -----------------------------
(***************************************************************************)
(* The rule score of an odds snapshot (app/scoring): the quality of its    *)
(* market, its phase and its odds, and what the streamer said about it.    *)
(* Scores are whole numbers in the code too; odds are in hundredths.  A    *)
(* line of speech is the set of topics whose keywords it contains, an      *)
(* offer says only whether its selection is an over, an under or neither.  *)
(***************************************************************************)
EXTENDS Integers, Sequences, SequencesExt

Topics == {"skip_warning", "over_kills", "under_kills", "duration_over",
           "duration_under", "team_positive", "hype"}
Line == SUBSET Topics

Offer == [market : STRING, line : Int, side : {"over", "under", "neither"},
          phase : STRING, suspended : BOOLEAN, odds : Nat]

Tier(market) ==
  CASE market \in {"total_kills", "map_duration", "team_total_kills", "total_maps",
                   "map_handicap", "kill_handicap"} -> "A"
    [] market \in {"map_winner", "live_total_kills", "live_duration",
                   "live_team_total_kills", "correct_score"} -> "B"
    [] OTHER -> "C"

MarketScore(market) ==
  CASE Tier(market) = "A" -> 25
    [] Tier(market) = "B" -> 15
    [] OTHER -> -10

(* The first that applies.                                                 *)
PhaseScore(o) ==
  CASE o.phase = "finished" -> -100
    [] o.phase # "finished" /\ o.suspended -> -20
    [] o.phase = "after_draft" /\ ~o.suspended -> 20
    [] o.phase = "pre_match" /\ ~o.suspended -> 10
    [] o.phase = "live" /\ ~o.suspended -> 15
    [] OTHER -> 0

OddsScore(odds) ==
  CASE odds < 130 -> -20
    [] odds \in 140 .. 240 -> 10
    [] odds \in 241 .. 350 -> 6
    [] odds > 350 -> -5
    [] OTHER -> 0
-----------------------------------------------------------------------------
(* analyze_streamer_utterance_text: one signal per line, the first of this *)
(* order that its keywords give; hype is noted beside it.                  *)
SignalOrder == <<"skip_warning", "over_kills", "under_kills", "duration_over",
                 "duration_under", "team_positive", "hype">>

Signal(line) ==
  LET told == SelectSeq(SignalOrder, LAMBDA topic : topic \in line)
  IN  IF told = <<>> THEN "none" ELSE Head(told)

Hyped(line) == "hype" \in line

Clamp(score) == IF score > 8 THEN 8 ELSE IF score < -8 THEN -8 ELSE score

Plain(signal) ==
  CASE signal \in {"over_kills", "under_kills"} -> 7
    [] signal \in {"duration_over", "duration_under"} -> 6
    [] signal = "team_positive" -> 4
    [] signal = "skip_warning" -> -8
    [] signal = "hype" -> -3
    [] OTHER -> 0

Strength(line) ==
  IF Hyped(line) /\ Signal(line) # "hype" THEN Clamp(Plain(Signal(line)) - 3)
  ELSE Plain(Signal(line))

(* The signals for and against a selection; one for a map winner counts    *)
(* for either team.                                                        *)
SignalFor == [total_kills  |-> [over |-> "over_kills", under |-> "under_kills"],
              map_duration |-> [over |-> "duration_over", under |-> "duration_under"]]

Directed(o) == o.market \in DOMAIN SignalFor /\ o.side # "neither"
Opposite(side) == IF side = "over" THEN "under" ELSE "over"

Supporting(o) ==
  IF Directed(o) THEN {SignalFor[o.market][o.side]}
  ELSE IF o.market = "map_winner" THEN {"team_positive"} ELSE {}

Opposing(o) == IF Directed(o) THEN {SignalFor[o.market][Opposite(o.side)]} ELSE {}

Saying(speech, signals) == {i \in DOMAIN speech : Signal(speech[i]) \in signals}
StrengthOf(speech, signals) ==
  MapThenSumSet(LAMBDA i : Strength(speech[i]), Saying(speech, signals))

Support(o, speech) == StrengthOf(speech, Supporting(o))

Warned(speech) == Saying(speech, {"skip_warning"}) # {}

(* streamer_score_for_candidate: a warning against every bet cancels all   *)
(* that does not support the selection; hype costs wherever it is heard    *)
(* but in the warnings themselves.                                         *)
StreamerScore(o, speech) ==
  IF Warned(speech) /\ Support(o, speech) <= 0 THEN -8
  ELSE LET hyped == {i \in DOMAIN speech : Hyped(speech[i])} \ Saying(speech, {"skip_warning"})
       IN  Clamp(Support(o, speech) - StrengthOf(speech, Opposing(o))
                   - 3 * Cardinality(hyped) - (IF Warned(speech) THEN 2 ELSE 0))

RiskBonus == 5

RuleScore(o, speech) ==
  MarketScore(o.market) + PhaseScore(o) + OddsScore(o.odds) + StreamerScore(o, speech) + RiskBonus

(* Nobody should bet on such an offer by the rule alone: the market is     *)
(* closed, or a warning was heard and nothing speaks for the selection.    *)
Unwise(o, speech) ==
  \/ o.suspended
  \/ o.phase = "finished"
  \/ o.odds < 130
  \/ Warned(speech) /\ Support(o, speech) <= 0
=============================================================================
