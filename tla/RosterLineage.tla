--------------------------- MODULE RosterLineage ----------------------------
(* Which observed roster continues which: for one cutoff, every roster that *)
(* was observed before it is linked to at most one earlier roster by the    *)
(* players and the coach they share.  A roster is identified by its         *)
(* content; the collector never gives it a valid_from, so its place in time *)
(* is that of its tournament, or else its first observation.                *)
EXTENDS HistoryStore, FiniteSetsExt

(* _resolve_chronology_point: the earliest start of the tournament's        *)
(* matches that are over at the cutoff, or the observation.                 *)
Context(r, c) ==
    LET starts == ContextStarts(r.tour, c)
    IN  IF starts = {} THEN snapshots[r] ELSE Min(starts)
ByTournament(c) == {r \in RostersBefore(c) : ContextStarts(r.tour, c) # {}}

Shared(p, q)  == Cardinality(p.players \cap q.players)
Smaller(p, q) == Min({Cardinality(p.players), Cardinality(q.players)})
SameCoach(p, q) == p.coach # NoTeam /\ p.coach = q.coach

(* RosterContinuityEvaluator._classify: exact (3), strong (2), supported by *)
(* the coach (1), or too weak to be linked (0).  A ratio of shared players  *)
(* is compared as a fraction.                                               *)
Strength(p, q) ==
    CASE p.players = q.players /\ Smaller(p, q) >= 5 -> 3
      [] Shared(p, q) >= 4 /\ 5 * Shared(p, q) >= 4 * Smaller(p, q) -> 2
      [] Shared(p, q) >= 3 /\ 5 * Shared(p, q) >= 3 * Smaller(p, q)
                           /\ SameCoach(p, q) -> 1
      [] OTHER -> 0

(* RosterLineageResolver.resolve: what may come before q. *)
Candidates(q, c) ==
    {p \in RostersBefore(c) : Context(p, c) < Context(q, c) /\ Strength(p, q) > 0}

(* _predecessor_rank; among candidates that share as many players, the one  *)
(* with the larger ratio is the one with the smaller roster.                *)
Rank(p, q, c) == << Context(p, c), Strength(p, q), Shared(p, q), -Smaller(p, q) >>
Below(x, y) == \E i \in 1..4 : x[i] < y[i] /\ \A j \in 1..(i - 1) : x[j] = y[j]
Highest(candidates, q, c) ==
    {p \in candidates : \A o \in candidates : ~Below(Rank(p, q, c), Rank(o, q, c))}
Best(q, c) == Highest(Candidates(q, c), q, c)

(* _resolve_predecessor: no candidate, a single best one, or a tie, which   *)
(* links to none.                                                           *)
Ambiguous(q, c) == Cardinality(Best(q, c)) > 1
Sole(best) == IF Cardinality(best) > 1 THEN {} ELSE best
Predecessors(q, c) == Sole(Best(q, c))
Edges(c) == {e \in RostersBefore(c) \X RostersBefore(c) : e[1] \in Predecessors(e[2], c)}
Roots(c) == {q \in RostersBefore(c) : Predecessors(q, c) = {}}

(* RosterLineageGraph: each roster's place in time and its predecessor.     *)
Lineage(c) ==
    [r \in RostersBefore(c) |-> [at |-> Context(r, c), previous |-> Predecessors(r, c)]]

(* get_predecessor_chain, with the roster it starts from at the end. *)
Chain(graph, q) ==
    LET chain[r \in DOMAIN graph] ==
          IF graph[r].previous = {} THEN << r >>
          ELSE Append(chain[CHOOSE p \in graph[r].previous : TRUE], r)
    IN  chain[q]

(* derived_component_count: union-find over the accepted edges. *)
Merged(e, classes) ==
    LET touched == {k \in classes : e[1] \in k \/ e[2] \in k}
    IN  (classes \ touched) \cup {UNION touched}
Components(c) == FoldSet(Merged, {{r} : r \in RostersBefore(c)}, Edges(c))

(* build_roster_lineage_status, what lineage-status prints. *)
LineageStatus(c) ==
    LET all == RostersBefore(c)
        OfStrength(n) == Cardinality({e \in Edges(c) : Strength(e[1], e[2]) = n})
    IN  [available |-> Cardinality(all), byTournament |-> Cardinality(ByTournament(c)),
         exact |-> OfStrength(3), strong |-> OfStrength(2), coach |-> OfStrength(1),
         ambiguous |-> Cardinality({q \in all : Ambiguous(q, c)}),
         roots |-> Cardinality(Roots(c)), components |-> Cardinality(Components(c)),
         sameOrg |-> Cardinality({e \in Edges(c) : e[1].org = e[2].org}),
         longest |-> Max({0} \cup {Len(Chain(Lineage(c), q)) : q \in all})]
=============================================================================
