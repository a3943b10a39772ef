---------------------------- MODULE HistoryStore ----------------------------
(* The tables of provider history in the SQLite database and the            *)
(* repository calls on them: matches, Dota games with their draft actions,  *)
(* and observed rosters.  Times are numbers; a time or winner that is not   *)
(* known is NoTime or NoSide.  A call is one transaction, but the upserts   *)
(* read the row they compare with before it begins: a match or a game on a  *)
(* connection of its own, a roster in autocommit.  That row is their        *)
(* argument "seen".                                                         *)
EXTENDS Integers, Sequences, FiniteSets

CONSTANTS NoTime,       \* an end that is not known
          NoSide,       \* a winner that is not known
          NoTeam,       \* a team id the provider left out
          TeamSize      \* picks of a complete side; the code has 5

VARIABLES matches,      \* historical_matches: a set of match rows
          games,        \* historical_dota_games: a set of game rows
          drafts,       \* historical_draft_actions: game id -> set of actions
          snapshots,    \* roster_snapshots: roster content -> observed_at
          names         \* players and team_organizations: source id -> name

store == <<matches, games, drafts, snapshots, names>>

(* A database with these matches and nothing else. *)
StoreInit(stored) ==
    /\ matches = stored /\ games = {} /\ snapshots = << >>
    /\ drafts = << >> /\ names = << >>

-----------------------------------------------------------------------------
(* Functions whose domain grows: a table with a key. *)
Put(f, k, v) == [x \in DOMAIN f \cup {k} |-> IF x = k THEN v ELSE f[x]]
OfSource(table, id) == {r \in table : r.id = id}
Replaced(table, row) == (table \ OfSource(table, row.id)) \cup {row}

(* upsert_historical_match: UNIQUE(source, source_match_id) refuses an      *)
(* insert that another process was faster with; an update overwrites every  *)
(* column, the known winner included.                                       *)
CanStoreMatch(seen, m) == seen = {} => OfSource(matches, m.id) = {}
UpsertMatch(seen, m) ==
    /\ CanStoreMatch(seen, m)
    /\ matches' = IF m \in seen THEN matches ELSE Replaced(matches, m)
    /\ UNCHANGED <<games, drafts, snapshots, names>>

(* Two answers for one field contradict each other when both are there. *)
Contradicts(old, new, none) == old # none /\ new # none /\ old # new

(* _raise_if_conflicting_draft_game *)
Conflicting(old, new) ==
    \/ old.start # new.start
    \/ Contradicts(old.a, new.a, NoTeam)
    \/ Contradicts(old.b, new.b, NoTeam)
    \/ Contradicts(old.winner, new.winner, NoSide)

CanStoreGame(seen, g) ==
    /\ \A old \in seen : ~Conflicting(old, g)
    /\ seen = {} => OfSource(games, g.id) = {}

(* upsert_historical_dota_game: the row is left alone when it equals the    *)
(* one seen, the draft actions are deleted and inserted again in any case.  *)
UpsertGame(seen, g, actions) ==
    /\ CanStoreGame(seen, g)
    /\ games' = IF g \in seen THEN games ELSE Replaced(games, g)
    /\ drafts' = Put(drafts, g.id, actions)
    /\ UNCHANGED <<matches, snapshots, names>>

(* _upsert_player_identity and _upsert_team_organization: the latest name   *)
(* of an id wins.                                                           *)
Renamed(old, new) == [x \in DOMAIN old \cup DOMAIN new |->
                        IF x \in DOMAIN new THEN new[x] ELSE old[x]]

(* The names of a snapshot are those stored: nothing is written for them,   *)
(* so that no transaction has begun when the snapshot's row is read.        *)
Known(s) == \A x \in DOMAIN s.names : x \in DOMAIN names /\ names[x] = s.names[x]

(* The stored time of observation, the one column that may change. *)
ObservedAt(roster) == {snapshots[r] : r \in DOMAIN snapshots \cap {roster}}
CanStoreSnapshot(seen, s) == seen = {} => ObservedAt(s.roster) = {}

(* Mutant: the latest observation wins. *)
UpsertSnapshotLatest(seen, s) ==
    /\ CanStoreSnapshot(seen, s)
    /\ snapshots' = Put(snapshots, s.roster, s.observed)
    /\ UNCHANGED <<matches, games, drafts>>

(* upsert_roster_snapshot, behind its read: the content of a snapshot is    *)
(* its key, so it never changes; UNIQUE refuses a second insert, and an     *)
(* observation earlier than the one seen overwrites observed_at.  The       *)
(* memberships are written with a new snapshot and are part of its content. *)
UpsertSnapshot(seen, s) ==
    /\ CanStoreSnapshot(seen, s)
    /\ snapshots' = IF \E at \in seen : s.observed >= at THEN snapshots
                    ELSE Put(snapshots, s.roster, s.observed)
    /\ UNCHANGED <<matches, games, drafts>>

(* The whole call when nobody else writes between its read and its end: the *)
(* names are written first, and the rest follows in the same transaction.   *)
UpsertRoster(s) ==
    /\ UpsertSnapshot(ObservedAt(s.roster), s)
    /\ names' = Renamed(names, s.names)

-----------------------------------------------------------------------------
(* The queries. *)

(* list_historical_matches_before: the result was known before the cutoff. *)
Finished(m) == m.end # NoTime /\ m.status = "finished"
EndedBefore(m, cutoff) == m.end # NoTime /\ m.end < cutoff
MatchesBefore(cutoff) == {m \in matches : Finished(m) /\ EndedBefore(m, cutoff)}

(* list_historical_dota_games_before *)
GamesBefore(cutoff) == {g \in games : EndedBefore(g, cutoff)}

(* list_roster_snapshots_available_before: valid_from and valid_until are   *)
(* never given by the collector, so the observation decides.                *)
RostersBefore(cutoff) ==
    {r \in DOMAIN snapshots : snapshots[r] < cutoff}

(* get_latest_roster_snapshot_for_organization_as_of *)
LatestRosters(org, cutoff) ==
    LET known == {r \in RostersBefore(cutoff) : r.org = org}
    IN  {r \in known : \A q \in known : snapshots[q] <= snapshots[r]}

(* list_historical_tournament_source_ids: the one that ended last first. *)
LastEnd(tour) ==
    LET ends == {m.end : m \in {x \in matches : x.tour = tour /\ x.end # NoTime}}
    IN  IF ends = {} THEN -1 ELSE CHOOSE e \in ends : \A f \in ends : f <= e
EndedTournaments == {m.tour : m \in {x \in matches : x.end # NoTime}}

(* get_historical_tournament_chronology_context: the matches of a           *)
(* tournament that ended before the cutoff; its earliest start.             *)
(* Mutant: matches that are not over count as well. *)
StartsOf(tour, cutoff) == {m.start : m \in {x \in matches : x.tour = tour}}
ContextStarts(tour, cutoff) ==
    {m.start : m \in {x \in matches : x.tour = tour /\ EndedBefore(x, cutoff)}}

(* has_complete_5v5_picks: five different heroes for each side.  Together   *)
(* with the order of an action, which is unique, a side has exactly five    *)
(* picks.                                                                   *)
Picks(actions, side) == {x \in actions : x.pick /\ x.side = side}
Complete(actions) ==
    \A side \in {"radiant", "dire"} :
        /\ Cardinality(Picks(actions, side)) = TeamSize
        /\ Cardinality({x.hero : x \in Picks(actions, side)}) = TeamSize
=============================================================================
