------------------------- MODULE MCHistoryFeatures --------------------------
(* Two organisations and a third one.  The roster of t1 goes on as the one  *)
(* of t2 (four of five players), then t1 signs others; a tournament whose   *)
(* matches are over moves a roster in time.  Match 3 is first known without *)
(* its result; match 5 is a qualifier; matches 4 and 6 start together.      *)
EXTENDS HistoricalTraining

CONSTANTS t1, t2, t3, t4, h1, h2, h3, h4, k1

Played(id, start, end, x, y, won, tour) ==
    [id |-> id, start |-> start, end |-> end, a |-> x, b |-> y, winner |-> won,
     tour |-> tour, status |-> IF end = NoTime THEN "running" ELSE "finished"]
Names == << {<<"dream", "league", "s9">>}, {<<"blast", "slam">>, <<"playoffs">>},
            {<<"the", "international">>, <<"closed", "qualifier">>} >>
Ages == [age \in 1..9 |-> 1000 - 100 * age]

Team(org, players, coach, tour) ==
    [org |-> org, players |-> players, coach |-> coach, tour |-> tour]
OldCore == Team(t1, {"p1", "p2", "p3", "p4", "p5"}, k1, 1)
Moved   == Team(t2, {"p1", "p2", "p3", "p4", "p6"}, NoTeam, 2)
Stayed  == Team(t1, {"p1", "p2", "p3", "p7", "p8"}, k1, 2)
Seen(roster, at) == [roster |-> roster, observed |-> at, names |-> << >>]
FewSightings == {Seen(OldCore, 3), Seen(Moved, 4), Seen(Stayed, 6)}

FewMatches ==
    { Played(1, 1, 2, t1, t2, "a", 1), Played(2, 3, 4, t2, t1, "b", 1),
      Played(3, 4, 6, t1, t2, "a", 2), Played(3, 4, NoTime, t1, t2, NoSide, 2),
      Played(4, 7, 8, t3, t1, "b", 2), Played(5, 2, 3, t2, t3, "a", 3),
      Played(6, 7, 8, t2, t4, "b", 1) }

Pick(n, side, hero) == [order |-> n, pick |-> TRUE, side |-> side, hero |-> hero]
Draft(w, x, y, z) == {Pick(1, "radiant", w), Pick(2, "dire", x),
                      Pick(3, "radiant", y), Pick(4, "dire", z)}
Game(id, start, end, won, actions) ==
    [game |-> [id |-> id, start |-> start, end |-> end, a |-> t1, b |-> t2, winner |-> won,
               complete |-> Complete(actions)],
     actions |-> actions]
FewGames ==
    { Game(11, 1, 2, "a", Draft(h1, h2, h3, h4)), Game(12, 3, 4, "b", Draft(h1, h3, h2, h4)),
      Game(13, 4, 5, "a", Draft(h2, h1, h4, h3)), Game(14, 5, 6, "b", Draft(h1, h2, h4, h3)),
      Game(12, 3, 4, NoSide, {Pick(1, "radiant", h1)}) }
Asked == {[id |-> 9, at |-> 5, a |-> t1, b |-> t2], [id |-> 3, at |-> 7, a |-> t2, b |-> t1]}
SeventyFifteen == << 70, 15 >>
Least == [total |-> 4, train |-> 2, validation |-> 1, test |-> 1]
=============================================================================
