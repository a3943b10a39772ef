------------------------- MODULE HistoricalFeatures -------------------------
(* The feature row of a match that is about to start: what the two teams'   *)
(* history says at that moment.  Numbers are integers in units of 1/Scale.  *)
(* A row keeps, per player, the counts that the code condenses to their     *)
(* mean, least and greatest; the differences of the two sides and the one   *)
(* hot stage columns follow from it and are left out.                       *)
EXTENDS RosterLineage, SequencesExt

CONSTANTS ScopeStart,   \* start of the competition scope
          FieldsOf,     \* tournament -> its names, each a sequence of words
          Weight,       \* age of a match -> its recency weight
          Scale,        \* the integer that stands for 1
          Iterations    \* rounds of the opponent adjustment; the code has 4

ASSUME FeatureAssumption ==
    /\ Scale \in Nat \ {0} /\ Scale % 2 = 0 /\ Iterations \in Nat \ {0}
    /\ \A age \in DOMAIN Weight : Weight[age] \in 1..Scale

-----------------------------------------------------------------------------
(* competition_scope.py: a family is known by a phrase within one name or   *)
(* by words anywhere; every family the code knows is allowed, so which one  *)
(* takes precedence does not matter.                                        *)
Words(fields) == UNION {{f[i] : i \in DOMAIN f} : f \in fields}
HasPhrase(fields, phrase) ==
    \E f \in fields : \E i \in 0..(Len(f) - Len(phrase)) :
        SubSeq(f, i + 1, i + Len(phrase)) = phrase
Phrases == {<<"the", "international">>, <<"esports", "world", "cup">>, <<"dream", "league">>}
WordSets == {{"ewc"}, {"dreamleague"}, {"fissure", "playground"}, {"betboom", "dacha"},
             {"blast"}, {"pgl"}, {"esl"}}
AllowedFamily(fields) ==
    \/ \E p \in Phrases : HasPhrase(fields, p)
    \/ \E w \in WordSets : w \subseteq Words(fields)
Qualifier(fields) == Words(fields) \cap {"qualifier", "qualification"} # {}

(* is_historical_match_scope_eligible *)
InScope(m) ==
    /\ m.start >= ScopeStart
    /\ AllowedFamily(FieldsOf[m.tour]) /\ ~Qualifier(FieldsOf[m.tour])

CompletedBefore(m, c) == Finished(m) /\ m.end < c
Usable(m) == Finished(m) /\ m.winner # NoSide /\ m.a # m.b
HasTeams(m) == NoTeam \notin {m.a, m.b}

(* _match_to_result_pair: a match with a winner and two known teams. *)
Decided(m) == m.winner # NoSide /\ HasTeams(m) /\ m.a # m.b
Won(m, team) == team = (IF m.winner = "a" THEN m.a ELSE m.b)
Opponent(m, team) == IF team = m.a THEN m.b ELSE m.a

(* _eligible_matches: of the candidates, what counts for a context.         *)
Eligible(candidates, ctx) ==
    {m \in candidates : CompletedBefore(m, ctx.at) /\ m.id # ctx.id}

-----------------------------------------------------------------------------
(* resolve_competitive_history: the latest roster and its predecessors,     *)
(* each with its organisation and the time in which it was the roster.  A   *)
(* roster whose time is empty has no window; without a window the history   *)
(* is the organisation's own.                                               *)
OneOf(latest) == CHOOSE r \in latest : TRUE
Direct(org, c) == << [org |-> org, from |-> NoTime, until |-> c, roster |-> {}] >>
WithLasting(windows, w) == IF w.from < w.until THEN Append(windows, w) ELSE windows
Lasting(windows) == FoldLeft(WithLasting, << >>, windows)
(* Mutant: a window ends at the cutoff, not where the next one starts. *)
ChainWindowsToCutoff(graph, chain, c) ==
    Lasting([i \in DOMAIN chain |->
               [org |-> chain[i].org, from |-> graph[chain[i]].at,
                until |-> c, roster |-> {chain[i]}]])
ChainWindows(graph, chain, c) ==
    LET Until(i) == IF i = Len(chain) THEN c ELSE Min({graph[chain[i + 1]].at, c})
    IN  Lasting([i \in DOMAIN chain |->
                   [org |-> chain[i].org, from |-> graph[chain[i]].at,
                    until |-> Until(i), roster |-> {chain[i]}]])
Windows(graph, latest, c) ==
    IF latest = {} THEN << >> ELSE ChainWindows(graph, Chain(graph, OneOf(latest)), c)
(* The history of an organisation with these windows. *)
OrDirect(windows, org, c) == IF windows = << >> THEN Direct(org, c) ELSE windows
History(org, c) == OrDirect(Windows(Lineage(c), LatestRosters(org, c), c), org, c)

(* _match_in_history_window *)
InWindow(m, w) ==
    /\ w.org \in {m.a, m.b}
    /\ w.from # NoTime => m.start >= w.from
    /\ m.start < w.until

ResultOf(m, team, roster, c) ==
    [match |-> m.id, team |-> team, against |-> Opponent(m, team),
     won |-> Won(m, team), weight |-> Weight[c - m.end], roster |-> roster]

(* _collect_competitive_history_results: per organisation, the first window *)
(* that holds a match.                                                      *)
Results(eligible, windows, c) ==
    {ResultOf(e[1], windows[e[2]].org, windows[e[2]].roster, c) :
        e \in {x \in {m \in eligible : Decided(m)} \X DOMAIN windows :
                 /\ InWindow(x[1], windows[x[2]])
                 /\ \A j \in 1..(x[2] - 1) : InWindow(x[1], windows[j])
                                               => windows[j].org # windows[x[2]].org}}

(* _results_by_team *)
TeamsOf(eligible) == UNION {{m.a, m.b} : m \in {x \in eligible : Decided(x)}}
ResultsOf(eligible, team, c) ==
    {ResultOf(m, team, {}, c) : m \in {x \in eligible : Decided(x) /\ team \in {x.a, x.b}}}

-----------------------------------------------------------------------------
(* _summarize_team_results; the rates of no history are one half.           *)
Wins(results) == {r \in results : r.won}
WeightOf(results) == MapThenSumSet(LAMBDA r : r.weight, results)
RateOf(part, whole) == IF whole = 0 THEN Scale \div 2 ELSE (part * Scale) \div whole
Summary(results) ==
    [matches |-> Cardinality(results), wins |-> Cardinality(Wins(results)),
     rate |-> RateOf(Cardinality(Wins(results)), Cardinality(results)),
     weight |-> WeightOf(results),
     recent |-> RateOf(WeightOf(Wins(results)), WeightOf(results))]

(* _regularize_strength: five matches' weight of doubt, within -1 and 1.    *)
Regularized(raw, weight) ==
    IF weight = 0 THEN 0
    ELSE Max({-Scale, Min({Scale, (raw * weight) \div (weight + 5 * Scale)})})

BaseStrength(results) ==
    Regularized(2 * (Summary(results).recent - Scale \div 2), WeightOf(results))

(* The strengths of a round: a set of teams and values; a team that is not  *)
(* among them is neutral.                                                   *)
StrengthOf(team, strengths) ==
    MapThenSumSet(LAMBDA s : s.value, {s \in strengths : s.team = team})

(* _opponent_adjusted_strength_for_result_set: a win or a loss, plus half   *)
(* of what the opponent is worth.                                           *)
Adjusted(results, strengths) ==
    LET Score(r) == (IF r.won THEN Scale \div 2 ELSE -(Scale \div 2))
                      + StrengthOf(r.against, strengths) \div 2
        weight == WeightOf(results)
    IN  IF weight = 0 THEN 0
        ELSE Regularized(MapThenSumSet(LAMBDA r : r.weight * Score(r), results) \div weight,
                         weight)

(* _calculate_opponent_adjusted_strengths: every round reads the last one.  *)
Strengths(eligible, c) ==
    LET round[n \in 0..Iterations] ==
          LET last == round[n - 1]
              Value(t) == IF n = 0 THEN BaseStrength(ResultsOf(eligible, t, c))
                          ELSE Adjusted(ResultsOf(eligible, t, c), last)
          IN  {[team |-> t, value |-> Value(t)] : t \in TeamsOf(eligible)}
    IN  round[Iterations]

(* build_point_in_time_strength_state *)
StrengthState(candidates, c) == Strengths({m \in candidates : CompletedBefore(m, c)}, c)

-----------------------------------------------------------------------------
(* _build_team_roster_feature_summary *)
Overlap(before, r) ==
    IF before = {} THEN << 0, 1, 0 >>
    ELSE LET last == CHOOSE p \in before : TRUE
         IN  << Shared(last, r), Smaller(last, r), Strength(last, r) >>
RosterSummary(graph, latest, together) ==
    IF latest = {} THEN [present |-> FALSE]
    ELSE LET r == OneOf(latest)
         IN  [present |-> TRUE, players |-> Cardinality(r.players),
              chain |-> Len(Chain(graph, r)) - 1, overlap |-> Overlap(graph[r].previous, r),
              together |-> together]

(* _build_team_player_history_feature_summary: a match is a player's when   *)
(* the roster of its window has him.                                        *)
PlayedBy(results, p) == {r \in results : \E q \in r.roster : p \in q.players}
PlayerSummary(latest, results) ==
    IF latest = {} THEN << >>
    ELSE [p \in OneOf(latest).players |->
            LET own == PlayedBy(results, p)
            IN  << Cardinality(own), RateOf(Cardinality(Wins(own)), Cardinality(own)) >>]

(* build_historical_match_features: the features of one side, from the graph *)
(* and the latest roster of its organisation.                               *)
Side(org, graph, latest, eligible, c) ==
    LET windows == Windows(graph, latest, c)
        bridged == windows # << >>
        results == Results(eligible, OrDirect(windows, org, c), c)
    IN  [bridged |-> bridged, summary |-> Summary(results),
         strength |-> Adjusted(results, StrengthState(eligible, c)),
         roster |-> RosterSummary(graph, latest, IF bridged THEN Cardinality(results) ELSE 0),
         players |-> PlayerSummary(latest, results)]
(* Beside the two sides a row has their differences. *)
RowOf(a, b) == [a |-> a, b |-> b, strengthDiff |-> a.strength - b.strength]
FeatureRow(candidates, ctx) ==
    LET eligible == Eligible(candidates, ctx)
        graph == Lineage(ctx.at)
        Of(org) == Side(org, graph, LatestRosters(org, ctx.at), eligible, ctx.at)
    IN  RowOf(Of(ctx.a), Of(ctx.b))

(* build_prediction_context_from_match: at the start of the match. *)
ContextOf(m) == [id |-> m.id, at |-> m.start, a |-> m.a, b |-> m.b]

(* build_historical_feature_dataset: a row for every match in scope that    *)
(* has a winner, from all the matches in scope.                             *)
Targets == {m \in matches : InScope(m) /\ Usable(m) /\ HasTeams(m)}
AllMatches == matches    \* mutant: the history of every competition
ScopedMatches == {m \in matches : InScope(m)}
TrainingFeatures(m) == FeatureRow(ScopedMatches, ContextOf(m))

(* predict_historical_match: the row of a match nobody has played, from     *)
(* what the database says was over before it.                               *)
PredictionRow(ctx) ==
    FeatureRow({m \in MatchesBefore(ctx.at) : InScope(m)}, ctx)

(* build_historical_feature_status, what feature-status prints. *)
FeatureStatus(c) ==
    LET available == {m \in MatchesBefore(c) : InScope(m)}
        values == {s.value : s \in StrengthState(available, c)}
    IN  [matches |-> Cardinality(available),
         results |-> Cardinality({m \in available : Decided(m)}),
         teams |-> Cardinality(TeamsOf(available)),
         range |-> IF values = {} THEN << >> ELSE << Min(values), Max(values) >>]
=============================================================================
