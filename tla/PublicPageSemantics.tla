------------------------ MODULE PublicPageSemantics -------------------------
(* What a public match page is understood to say.  A page holds a sequence  *)
(* of decoded states, embedded or from resources it names.  A state is a    *)
(* record of the fields the extraction looks for: id, start, end, duration, *)
(* winner, a and b (the teams), patch, league, players, draft, gold and xp; *)
(* what a state leaves out is Missing[field], or an empty sequence.         *)
EXTENDS HistoryStore, SequencesExt

CONSTANTS NoText      \* a text or a number that is not there

Missing == [id |-> NoText, start |-> NoTime, end |-> NoTime, duration |-> NoTime,
            winner |-> NoSide, a |-> NoTeam, b |-> NoTeam, patch |-> NoText, league |-> NoText]
Metadata == DOMAIN Missing \ {"id"}
Flag(b) == IF b THEN 1 ELSE 0

-----------------------------------------------------------------------------
(* One state: _semantic_players keeps the rows, of the first two sides'     *)
(* worth, that name a new account, a side and a hero; whatever it drops, or *)
(* a state without players, is a warning.                                   *)
FirstRows(rows) == [i \in DOMAIN rows \cap 1..(2 * TeamSize) |-> rows[i]]
Named(rows, i) ==
    /\ rows[i].account # NoText
    /\ \A k \in 1..(i - 1) : rows[k].account # rows[i].account
Sound(rows, i) == Named(rows, i) /\ rows[i].side # NoSide /\ rows[i].hero # NoText
Players(rows) ==
    LET first == FirstRows(rows)
    IN  {first[i] : i \in {k \in DOMAIN first : Sound(first, k)}}
Warned(rows) ==
    LET first == FirstRows(rows)
    IN  first = << >> \/ \E i \in DOMAIN first : ~Sound(first, i)

(* _semantic_advantage_points: an item without a value is dropped, the      *)
(* others keep their place in the list.                                     *)
Points(metric, items) ==
    {[metric |-> metric, index |-> i, value |-> items[i]] :
        i \in {k \in DOMAIN items : items[k] # NoText}}

(* has_complete_5v5_composition, of players: different heroes of each side. *)
HeroesOf(rows, side) == {r.hero : r \in {x \in rows : x.side = side}}
Composition(rows) ==
    \A side \in {"radiant", "dire"} : Cardinality(HeroesOf(rows, side)) = TeamSize

-----------------------------------------------------------------------------
(* All states of a page together: merge_public_match_semantics. *)

(* The first of the candidates with the greatest key. *)
Above(x, y) == \E i \in DOMAIN x : x[i] > y[i] /\ \A j \in 1..(i - 1) : x[j] = y[j]
Greatest(states, Key(_)) ==
    states[CHOOSE i \in DOMAIN states : \A j \in DOMAIN states :
              /\ ~Above(Key(states[j]), Key(states[i]))
              /\ j < i => Above(Key(states[i]), Key(states[j]))]

(* first_value: a field comes from the states of the requested match, in    *)
(* their order, or else from any state.                                     *)
FirstValue(states, asked, f) ==
    LET ofAsked == SelectSeq(states, LAMBDA s : s.id = asked)
        known == SelectSeq(ofAsked \o states, LAMBDA s : s[f] # Missing[f])
    IN  IF known = << >> THEN Missing[f] ELSE known[1][f]

(* Players, draft and each advantage curve come from the state that has the *)
(* most of them, whatever match it is of; the requested match breaks ties.  *)
BestPlayers(states, asked) ==
    Greatest(states, LAMBDA s : LET rows == Players(s.players)
                                IN  << Flag(Cardinality(rows) = 2 * TeamSize), Cardinality(rows),
                                       Cardinality({r.hero : r \in rows}), Flag(s.id = asked) >>).players
Telling(x) == x.pick # NoText /\ x.side # NoSide /\ x.hero # NoText
BestDraft(states, asked) ==
    Greatest(states, LAMBDA s : << Len(SelectSeq(s.draft, Telling)),
                                   Len(SelectSeq(s.draft, LAMBDA x : x.order # 0)),
                                   Len(s.draft), Flag(s.id = asked) >>).draft
BestCurve(states, asked, metric) ==
    Points(metric, Greatest(states, LAMBDA s : << Cardinality(Points(metric, s[metric])),
                                                  Flag(s.id = asked) >>)[metric])

Understood(states, asked) ==
    [facts |-> [f \in Metadata |-> FirstValue(states, asked, f)],
     players |-> BestPlayers(states, asked), draft |-> BestDraft(states, asked),
     points |-> BestCurve(states, asked, "gold") \cup BestCurve(states, asked, "xp")]

-----------------------------------------------------------------------------
(* normalize_stratz_public_match_semantics *)

Start(facts) ==
    IF facts.start = NoTime /\ facts.end # NoTime /\ facts.duration # NoTime
    THEN facts.end - facts.duration ELSE facts.start
End(facts) ==
    IF facts.end = NoTime /\ facts.start # NoTime /\ facts.duration # NoTime
    THEN facts.start + facts.duration ELSE facts.end

(* The failures that make a page worthless. *)
Acceptable(page) ==
    /\ Start(page.facts) # NoTime
    /\ End(page.facts) # NoTime => Start(page.facts) <= End(page.facts)
    /\ ~Warned(page.players) /\ Composition(Players(page.players))

(* _ordered_draft_actions_from_semantic_actions: all or nothing; an order   *)
(* of 0 was read as missing.                                                *)
Ordered(items) ==
    \A i \in DOMAIN items :
        /\ items[i].order # 0 /\ Telling(items[i])
        /\ \A k \in DOMAIN items : items[k].order = items[i].order => k = i
OrderedActions(items) ==
    IF ~Ordered(items) THEN {}
    ELSE {[items[i] EXCEPT !.order = Cardinality({k \in DOMAIN items :
                                                    items[k].order <= items[i].order})] :
             i \in DOMAIN items}
CompleteOrdered(actions) == Composition({x \in actions : x.pick})

(* The source is part of a game's id: public pages have the negative ones.  *)
GameId(match) == -match
Normalized(page, match) ==
    LET actions == OrderedActions(page.draft)
        facts == page.facts
    IN  [game |-> [id |-> GameId(match), start |-> Start(facts), end |-> End(facts),
                   a |-> facts.a, b |-> facts.b, winner |-> facts.winner,
                   patch |-> facts.patch, league |-> facts.league,
                   complete |-> CompleteOrdered(actions)],
         actions |-> actions, players |-> Players(page.players), points |-> page.points,
         known |-> FALSE, outcome |-> "ingested"]

-----------------------------------------------------------------------------
(* What is stored already is stronger than what a page leaves out. *)

(* Mutant: the incoming row as it is. *)
IncomingGame(old, new) == new

(* _merge_existing_game *)
MergedGame(old, new) ==
    [f \in DOMAIN new |->
        CASE f = "complete" -> new.complete \/ old.complete
          [] f \in Metadata -> IF new[f] = Missing[f] THEN old[f] ELSE new[f]
          [] OTHER -> new[f]]

(* _merge_existing_player_final_stats *)
MergedPlayers(old, new) ==
    {LET same == {q \in old : q.account = r.account}
     IN  [account |-> r.account, side |-> r.side, hero |-> r.hero,
          worth |-> IF r.worth = NoText /\ same # {} THEN (CHOOSE q \in same : TRUE).worth
                                                    ELSE r.worth] : r \in new}
=============================================================================
