-------------------------- MODULE MCReplayFetcher ---------------------------
(* Instance of ReplayFetcher: two leagues that share a match under         *)
(* different start times, a repeated, a foreign, an expired and a future   *)
(* row.                                                                    *)
EXTENDS ReplayFetcher

TwoLeagues == <<20, 10>>

R(match, league, start) == [match |-> match, league |-> league, start |-> start]

Listed ==
  [l \in {10, 20} |->
     IF l = 10
       THEN <<R(1, 10, 5), R(2, 0, 6), R(1, 10, 7), R(4, 10, 1), R(0, 10, 5)>>
       ELSE <<R(2, 20, 4), R(3, 20, 5), R(5, 10, 5), R(6, 20, 9)>>]
=============================================================================
