---------------------------- MODULE MCAutopilot -----------------------------
(* Instances of Autopilot: one match in scope, one out of scope, one       *)
(* blocked, and offers that clash by line and by being map winners, one of *)
(* them suspended, before an audience that cheers or is warned.            *)
EXTENDS Autopilot

CONSTANTS s1, p1, p2

Odds(market, line, side, phase, suspended, odds) ==
  [market |-> market, line |-> line, side |-> side, phase |-> phase,
   suspended |-> suspended, odds |-> odds]

Kills == Odds("total_kills", 48, "over", "after_draft", FALSE, 192)
FewKills == Odds("total_kills", 48, "under", "after_draft", FALSE, 250)
Winner == Odds("map_winner", 0, "neither", "pre_match", FALSE, 185)
WinnerMap2 == Odds("map_winner", 2, "neither", "live", TRUE, 135)
NextKill == Odds("next_kill", 0, "neither", "after_draft", FALSE, 200)

MatchesOfDay ==
  <<[id |-> "main", named |-> TRUE, blocked |-> FALSE, status |-> "upcoming"],
    [id |-> "other", named |-> FALSE, blocked |-> FALSE, status |-> "upcoming"],
    [id |-> "qualifier", named |-> TRUE, blocked |-> TRUE, status |-> "live"]>>

OneMatch == SubSeq(MatchesOfDay, 1, 1)

FiveOffers == <<Kills, FewKills, Winner, WinnerMap2, NextKill>>
TwoOffers == <<Kills, Winner>>

OffersOf(list) == {list[i] : i \in DOMAIN list}
AllFive == OffersOf(FiveOffers)
AllTwo == OffersOf(TwoOffers)

Calm == <<{"over_kills"}>>
Cautious == <<{"team_positive", "hype"}, {"skip_warning", "hype"}>>

Speech == {Calm, Cautious}
OneSpeech == {Calm}

BetIds == [run : Runs, pass : 1 .. MaxPasses, match : Ids, offer : Offers]

(* Good rows, a correction within the file, and bad rows before good ones. *)
CsvFiles ==
  LET b == CHOOSE x \in BetIds : x.offer = Kills
      c == CHOOSE x \in BetIds : x.offer = Winner
      Row2(x, o) == [bet |-> x, outcome |-> o]
  IN  {<<Row2(b, "win")>>, <<Row2(b, "loss"), Row2(c, "push"), Row2(b, "void")>>,
       <<Row2(c, "invalid"), Row2(b, "loss"), Row2(c, "win")>>}

NoFiles == {<<>>}
=============================================================================
