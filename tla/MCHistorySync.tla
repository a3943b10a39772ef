--------------------------- MODULE MCHistorySync ----------------------------
(* Three versions of the providers.  Match 2 is listed without its result,  *)
(* then with it; an older match appears in front of it and moves the pages, *)
(* and then match 3 is taken off the list.  Game 12 is answered without a   *)
(* winner, with one, and with the other one; its draft counts its orders    *)
(* from 0 or from 1.  A roster gets a coach and loses him again.  Public    *)
(* page 1 is whole, then says less, then contradicts its start; page 2 is   *)
(* not there, then in a resource, then half.                                *)
EXTENDS PublicPageSync

CONSTANTS q1, q2, q3, t1, t2, h1, h2, h3

Row(id, start, end, won, tour) ==
    [id |-> id, start |-> start, end |-> end, a |-> t1, b |-> t2, won |-> won,
     tour |-> tour, status |-> IF end = NoTime THEN "live" ELSE "finished"]
Unnamed == [Row(9, 3, 4, t1, 1) EXCEPT !.b = t1]

Item(order, pick, side, hero) ==
    [order |-> order, pick |-> pick, side |-> side, hero |-> hero]
FromOne  == << Item(1, TRUE, "radiant", h1), Item(2, TRUE, "dire", h2),
               Item(3, FALSE, "dire", h3) >>
FromZero == << Item(0, TRUE, "radiant", h1), Item(1, TRUE, "dire", h2) >>
Detail(winner, picks) ==
    [start |-> 2, end |-> 3, a |-> t1, b |-> t2, winner |-> winner, picks |-> picks]
Unstarted == [Detail(NoSide, << >>) EXCEPT !.start = NoTime]

Entry(org, players, coach, name) ==
    [org |-> org, players |-> players, coach |-> coach, names |-> (org :> name)]
Plain == << Entry(t1, {"p1", "p2"}, NoTeam, 1), Entry(t2, {NoTeam}, NoTeam, 1) >>
Coached == << Entry(t1, {"p1", "p2"}, "k1", 2) >>

(* Public pages. *)
Player(account, side, hero, worth) ==
    [account |-> account, side |-> side, hero |-> hero, worth |-> worth]
Two(worth) == << Player(1, "radiant", h1, worth), Player(2, "dire", h2, worth) >>
Said(id, facts, players, draft, gold) ==
    facts @@ [Missing EXCEPT !.id = id]
          @@ [players |-> players, draft |-> draft, gold |-> gold, xp |-> << >>]
Whole == [Said(1, [start |-> 2, duration |-> 2, winner |-> "a", a |-> t1, b |-> t2,
                   patch |-> "7.40", league |-> "TI"], Two(5), FromOne, << 0, 3 >>)
          EXCEPT !.xp = << 2 >>]
Less == Said(1, [start |-> 2, end |-> 4, winner |-> NoSide, a |-> t1, b |-> NoTeam,
                 patch |-> NoText, league |-> NoText], Two(NoText), FromZero, << >>)
Moved == [Less EXCEPT !.start = 3]
Elsewhere == Said(7, [start |-> 1, winner |-> "b"], << Two(9)[1] >>, << >>, << 1, NoText >>)
Drafted == Said(2, [end |-> 4, duration |-> 1], << >>, FromOne, << NoText, 1 >>)
Half == Said(2, [start |-> 3], << Player(1, "radiant", h1, 1), Player(2, "dire", NoText, 1) >>,
             << >>, << >>)
Shown(status, states, links) == [status |-> status, states |-> states, links |-> links]
Rule(allow, length) == [allow |-> allow, length |-> length, matches |-> TRUE]

Publish(robots, one, two, resource) ==
    [robots |-> robots, page |-> << one, two >>, resource |-> [main |-> resource, more |-> NoText]]
Web == << Publish({Rule(FALSE, 1), Rule(TRUE, 6)}, Shown(200, << Elsewhere, Whole >>, << >>),
                  Shown(404, << >>, << >>), NoText),
          Publish({}, Shown(200, << Less >>, << >>),
                  Shown(200, << Drafted >>, << "more", "main" >>), [Whole EXCEPT !.id = 2]),
          Publish({Rule(FALSE, 6), [Rule(TRUE, 9) EXCEPT !.matches = FALSE]}, Shown(200, << Moved >>, << >>),
                  Shown(200, << Half >>, << >>), NoText),
          Publish({Rule(FALSE, 0)}, Shown(200, << Moved >>, << >>), Shown(403, << >>, << >>), NoText) >>

State(past, details, rosters) ==
    [past |-> past, pro |-> << [id |-> 13, start |-> 4], [id |-> 12, start |-> 2],
                               [id |-> 11, start |-> 1] >>,
     detail |-> details, rosters |-> rosters]
Providers ==
    << State(<< Row(2, 2, NoTime, NoTeam, 1), Unnamed, Row(3, 4, 5, t1, 2), Row(4, 5, 6, t2, 1) >>,
             11 :> Unstarted @@ 12 :> Detail(NoSide, FromOne) @@ 13 :> Unstarted,
             1 :> Plain @@ 2 :> Plain),
       State(<< Row(1, 1, 2, t1, 1), Row(2, 2, 3, t2, 1), Unnamed, Row(3, 4, 5, t1, 2), Row(4, 5, 6, t2, 1) >>,
             11 :> Unstarted @@ 12 :> Detail("a", FromOne) @@ 13 :> Unstarted,
             1 :> Coached @@ 2 :> Plain),
       State(<< Row(1, 1, 2, t1, 1), Row(2, 2, 3, t2, 1), Row(4, 5, 6, t2, 1) >>,
             11 :> Unstarted @@ 12 :> Detail("b", FromZero) @@ 13 :> Unstarted,
             1 :> Plain @@ 2 :> Coached) >>
FourVersions == [v \in 1..4 |-> Providers[IF v = 4 THEN 3 ELSE v] @@ Web[v]]

(* Roster syncs on three processes race for one row: two that began early   *)
(* read the time that a later one has stored.                               *)
Finals == {ToMatch(Row(1, 1, 2, t1, 1))}
Mixture(kinds, procs, most, stored) ==
    [kinds |-> kinds, procs |-> procs, most |-> most, stored |-> stored]
ProvidersOrPages == {Mixture({"match", "draft", "roster"}, {q1, q2}, 3, {}),
                     Mixture({"roster"}, {q1, q2, q3}, 3, Finals),
                     Mixture({"public"}, {q1, q2}, 2, {})}
BothMatches == << 1, 2 >>
=============================================================================
