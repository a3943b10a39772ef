--------------------------- MODULE DraftFeatures ----------------------------
(* The row of a game whose draft is complete: what the heroes, the pairs    *)
(* and the match-ups of the two drafts did in the games that were over when *)
(* it started.  OpenDota's team a is always the radiant side.  The row      *)
(* keeps the records (wins and games) that the code condenses to rates,     *)
(* sample counts and numbers of unseen heroes; the heroes, the sides and    *)
(* the patch themselves are copied and left out.                            *)
EXTENDS HistoryStore, FiniteSetsExt

CONSTANTS DraftScope    \* ids of the games of leagues in scope

SideOf == [a |-> "radiant", b |-> "dire"]
Heroes(g, team) == {x.hero : x \in Picks(drafts[g.id], SideOf[team])}
Pairs(heroes) == kSubset(2, heroes)

(* usable_for_draft_training, the scope and has_complete_5v5_picks: the     *)
(* game's own mark and its stored actions both have to be complete.         *)
UsableDraft(g) ==
    /\ g.end # NoTime /\ g.winner # NoSide /\ g.complete
    /\ g.id \in DraftScope
    /\ Complete(drafts[g.id])

StartedBefore(p, at) == p.start < at  \* mutant: a game that is still played is prior

(* completed_before: a game that ended when this one started is not prior. *)
GameEndedBefore(p, at) == EndedBefore(p, at)
PriorGames(g) ==
    {p \in games : p.id # g.id /\ GameEndedBefore(p, g.start) /\ UsableDraft(p)}

(* Wins and games of whatever a team of a game shows.                       *)
Record(appearances) ==
    << Cardinality({x \in appearances : x[1].winner = x[2]}), Cardinality(appearances) >>

(* _hero_stats, _synergy_stats: both sides of every prior game count. *)
HeroRecord(prior, hero) ==
    Record({x \in prior \X {"a", "b"} : hero \in Heroes(x[1], x[2])})
PairRecord(prior, pair) ==
    Record({x \in prior \X {"a", "b"} : pair \subseteq Heroes(x[1], x[2])})

(* _matchup_stats: hero against foe, from hero's side. *)
Other(team) == IF team = "a" THEN "b" ELSE "a"
MatchupRecord(prior, hero, foe) ==
    Record({x \in prior \X {"a", "b"} :
              hero \in Heroes(x[1], x[2]) /\ foe \in Heroes(x[1], Other(x[2]))})

(* _team_hero_familiarity: the organisation's games with a hero, on either  *)
(* side; none are known of a team without an id.                            *)
Familiarity(prior, org, hero) ==
    IF org = NoTeam THEN << >>
    ELSE << Cardinality({x \in prior \X {"a", "b"} :
                           x[1][x[2]] = org /\ hero \in Heroes(x[1], x[2])}) >>

(* build_draft_map_feature_row *)
DraftSide(g, team, org) ==
    LET prior == PriorGames(g)
        own == Heroes(g, team)
    IN  [heroes |-> [h \in own |-> HeroRecord(prior, h)],
         pairs |-> [p \in Pairs(own) |-> PairRecord(prior, p)],
         familiar |-> [h \in own |-> Familiarity(prior, org, h)]]
DraftRow(g) ==
    [a |-> DraftSide(g, "a", g.a), b |-> DraftSide(g, "b", g.b),
     matchups |-> [x \in Heroes(g, "a") \X Heroes(g, "b") |->
                     MatchupRecord(PriorGames(g), x[1], x[2])]]

(* build_draft_map_dataset *)
DraftTargets == {g \in games : UsableDraft(g)}
=============================================================================
