--------------------------- MODULE PublicPageSync ---------------------------
(* sync-drafts with public match pages: robots.txt, then each requested     *)
(* page, its resources, and three transactions for the game with its draft, *)
(* the final player stats and the advantage points.  What fails for one     *)
(* match is a result of that match, and the next one is fetched.            *)
(* Feed[v] also has robots, page[match] and resource[name].                 *)
EXTENDS HistorySync, PublicPageSemantics

CONSTANTS Asked,          \* the requested matches
          MaxRetries,     \* --max-retries
          MaxResources    \* resources of a page that are fetched

VARIABLES stats,          \* historical_dota_player_final_stats: game id -> rows
          points          \* historical_dota_advantage_points: game id -> points

(* The command asks for a match at least; a side has players. *)
ASSUME PublicAssumption ==
    /\ Asked \in Seq(Nat \ {0}) /\ Asked # << >>
    /\ TeamSize \in Nat \ {0}

pageTables == <<stats, points>>
publicVars == <<sync, pageTables>>
Quiet == UNCHANGED <<store, feed, ran, raced, mix, pageTables>>

-----------------------------------------------------------------------------
(* evaluate_robots_path: the longest rules that match decide, and an allow  *)
(* among them wins; without robots.txt nothing is disallowed.               *)
Disallowed(rules) ==
    LET matching == {r \in rules : r.matches /\ r.length > 0}
        longest == {r \in matching : \A q \in matching : q.length <= r.length}
    IN  matching # {} /\ \A r \in longest : ~r.allow

Result(match, outcome) ==
    [match |-> match, outcome |-> outcome, ordered |-> FALSE, curved |-> FALSE]
StoredResult(match, norm) ==
    [match |-> match, outcome |-> norm.outcome, ordered |-> norm.actions # {},
     curved |-> norm.points # {}]
StoredOutcomes == {"ingested", "updated", "unchanged"}

Match(c) == c.rows[c.cursor + 1]
(* The next match, or the end: Finish takes a command with nothing to do.   *)
Reported(c, result) ==
    [c EXCEPT !.cursor = @ + 1, !.tries = 0, !.todo = << >>, !.seen = {},
              !.results = Append(@, result),
              !.phase = IF c.cursor + 1 = Len(c.rows) THEN "store" ELSE "fetch"]

-----------------------------------------------------------------------------
StartPublic(p) == Begin(p, "public", "robots", Asked) /\ UNCHANGED pageTables

CheckRobots(p) ==
    /\ cmd[p].phase = "robots"
    /\ Set(p, IF Disallowed(Feed[feed].robots)
              THEN [cmd[p] EXCEPT !.phase = "store",
                                  !.results = [i \in DOMAIN Asked |-> Result(Asked[i], "skipped")]]
              ELSE [cmd[p] EXCEPT !.phase = "fetch"])
    /\ Quiet

(* _fetch_with_retries: a page that is busy, or a request that fails, is    *)
(* asked for again; it gives up after one attempt more than MaxRetries + 1. *)
PageBusy(p) ==
    LET c == cmd[p]
    IN  /\ c.phase = "fetch"
        /\ Set(p, IF c.tries + 1 > MaxRetries + 1
                  THEN Reported(c, Result(Match(c), "fetch_failed"))
                  ELSE [c EXCEPT !.tries = @ + 1])
        /\ Quiet

FetchPublicPage(p) ==
    LET c == cmd[p]
        page == Feed[feed].page[Match(c)]
    IN  /\ c.phase = "fetch"
        /\ Set(p, CASE page.status = 404 -> Reported(c, Result(Match(c), "not_found"))
                    [] page.status = 200 -> [c EXCEPT !.phase = "links", !.todo = << page >>]
                    [] OTHER -> Reported(c, Result(Match(c), "fetch_failed")))
        /\ Quiet

(* _referenced_resource_states and normalize_stratz_public_match_page: a    *)
(* resource that cannot be fetched or decoded is left out.  The resources   *)
(* of a page are taken from one version.                                    *)
Linked(page) ==
    LET shown == SubSeq(page.links, 1, IF Len(page.links) < MaxResources THEN Len(page.links)
                                                                         ELSE MaxResources)
    IN  SelectSeq([i \in DOMAIN shown |-> Feed[feed].resource[shown[i]]], LAMBDA s : s # NoText)

(* extract_public_match_semantics_from_page: embedded states come first.    *)
Decoded(page) == page.states \o Linked(page)

Understand(p) ==
    LET c == cmd[p]
        states == Decoded(Head(c.todo))
        page == Understood(states, Match(c))
    IN  /\ c.phase = "links"
        /\ Set(p, IF states = << >> THEN Reported(c, Result(Match(c), "parse_failed"))
                  ELSE IF ~Acceptable(page)
                  THEN Reported(c, Result(Match(c), "source_incomplete"))
                  ELSE [c EXCEPT !.phase = "existing",
                                 !.todo = << Normalized(page, Match(c)) >>])
        /\ Quiet

-----------------------------------------------------------------------------
(* _persist_normalized_match, with a connection for each of its calls. *)

ReadExisting(p) ==
    LET c == cmd[p]
        norm == Head(c.todo)
        old == OfSource(games, norm.game.id)
    IN  /\ c.phase = "existing"
        /\ Set(p, [c EXCEPT !.phase = IF old # {} /\ norm.actions = {} THEN "draft" ELSE "store",
                            !.todo = << [norm EXCEPT !.known = old # {},
                                           !.game = IF old = {} THEN @
                                                    ELSE MergedGame(CHOOSE g \in old : TRUE, @)] >>])
        /\ Quiet

(* A page without an ordered draft keeps the stored one. *)
ReadDraft(p) ==
    LET c == cmd[p]
    IN  /\ c.phase = "draft"
        /\ Set(p, [c EXCEPT !.phase = "store", !.todo[1].actions = drafts[Head(c.todo).game.id]])
        /\ Quiet

(* Lookup of HistorySync is the read of the row that the upsert compares    *)
(* with.  A contradiction is a result of this match; a row that another     *)
(* process inserted since ends the command.                                 *)
Contradicted(c) == \E old \in c.seen : Conflicting(old, Head(c.todo).game)
StorageConflict(p) ==
    LET c == cmd[p]
    IN  /\ c.phase = "found" /\ c.kind = "public" /\ Contradicted(c)
        /\ Set(p, Reported(c, Result(Match(c), "source_incomplete")))
        /\ Quiet
InsertedBefore(p) ==
    LET c == cmd[p]
    IN  /\ c.phase = "found" /\ c.kind = "public" /\ ~Contradicted(c)
        /\ ~CanStoreGame(c.seen, Head(c.todo).game)
        /\ Set(p, [c EXCEPT !.phase = "failed"])
        /\ Quiet

Outcome(c) == IF c.seen = {} THEN "ingested"
              ELSE IF Head(c.todo).game \in c.seen THEN "unchanged" ELSE "updated"

(* Mutant: a game that did not change has all its rows already. *)
StorePublicGameOnce(p) ==
    LET c == cmd[p]
        norm == Head(c.todo)
    IN  /\ c.phase = "found" /\ c.kind = "public"
        /\ UpsertGame(c.seen, norm.game, norm.actions)
        /\ Set(p, IF Outcome(c) = "unchanged"
                  THEN Reported(c, StoredResult(Match(c), [norm EXCEPT !.outcome = Outcome(c)]))
                  ELSE [c EXCEPT !.phase = IF norm.known THEN "stats" ELSE "replace",
                                 !.todo[1].outcome = Outcome(c)])
        /\ UNCHANGED <<feed, ran, raced, mix, pageTables>>

StorePublicGame(p) ==
    LET c == cmd[p]
        norm == Head(c.todo)
    IN  /\ c.phase = "found" /\ c.kind = "public"
        /\ UpsertGame(c.seen, norm.game, norm.actions)
        /\ Set(p, [c EXCEPT !.phase = IF norm.known THEN "stats" ELSE "replace",
                            !.todo[1].outcome = Outcome(c)])
        /\ UNCHANGED <<feed, ran, raced, mix, pageTables>>

Rows(table, id) == IF id \in DOMAIN table THEN table[id] ELSE {}
ReadStats(p) ==
    LET c == cmd[p]
    IN  /\ c.phase = "stats"
        /\ Set(p, [c EXCEPT !.phase = "replace",
                            !.todo[1].players = MergedPlayers(Rows(stats, Head(c.todo).game.id), @)])
        /\ Quiet

(* An accepted page always has players. *)
ReplaceStats(p) ==
    LET c == cmd[p]
        norm == Head(c.todo)
    IN  /\ c.phase = "replace"
        /\ stats' = Put(stats, norm.game.id, norm.players)
        /\ Set(p, IF norm.points # {} THEN [c EXCEPT !.phase = "points"]
                  ELSE Reported(c, StoredResult(Match(c), norm)))
        /\ UNCHANGED <<store, feed, ran, raced, mix, points>>

ReplacePoints(p) ==
    LET c == cmd[p]
        norm == Head(c.todo)
    IN  /\ c.phase = "points"
        /\ points' = Put(points, norm.game.id, norm.points)
        /\ Set(p, Reported(c, StoredResult(Match(c), norm)))
        /\ UNCHANGED <<store, feed, ran, raced, mix, stats>>

-----------------------------------------------------------------------------
PublicInit == SyncInit /\ stats = << >> /\ points = << >>
PublicStep(p) ==
    \/ StartPublic(p) \/ CheckRobots(p) \/ PageBusy(p) \/ FetchPublicPage(p) \/ Understand(p)
    \/ ReadExisting(p) \/ ReadDraft(p) \/ StorageConflict(p) \/ InsertedBefore(p)
    \/ StorePublicGame(p) \/ ReadStats(p) \/ ReplaceStats(p) \/ ReplacePoints(p)
PublicNext == (SyncNext /\ UNCHANGED pageTables) \/ \E p \in Procs : PublicStep(p)
PublicSpec == PublicInit /\ [][PublicNext]_publicVars

-----------------------------------------------------------------------------
(* Properties. *)
Alone == "public" \notin raced

(* What is known of a public match in its single fields stays known when a  *)
(* later page says less, and so does a player's worth, and a page without   *)
(* an ordered draft, or without any points, leaves the stored ones: neither *)
(* is ever emptied.  A page that does show some replaces all that is        *)
(* stored, shorter or not, and of one curve only.  Two overlapping syncs    *)
(* may lose what is known: one that saw no row stores its page as it is.    *)
NothingErased ==
    [][Alone' =>
         /\ \A old \in games, new \in games' :
               old.id < 0 /\ new.id = old.id
               => \A f \in Metadata \ {"duration"} : old[f] # Missing[f] => new[f] # Missing[f]
         /\ \A id \in DOMAIN drafts : id < 0 /\ drafts[id] # {} => drafts'[id] # {}
         /\ \A id \in DOMAIN points : points[id] # {} => points'[id] # {}
         /\ \A id \in DOMAIN stats : \A r \in stats[id], s \in stats'[id] :
               s.account = r.account /\ r.worth # NoText => s.worth # NoText]_publicVars

(* A match that a finished sync reports as stored has its game row, the     *)
(* final stats of two whole sides, and the draft and the points that were   *)
(* reported, although each is a transaction of its own and any earlier sync *)
(* may have been killed between them.                                       *)
ReportedIsWhole ==
    \A p \in Procs :
        LET c == cmd[p]
        IN  c.kind = "public" /\ c.phase = "done" /\ Alone
            => \A r \in Range(c.results) :
                  r.outcome \in StoredOutcomes =>
                     LET id == GameId(r.match)
                     IN  /\ OfSource(games, id) # {} /\ id \in DOMAIN drafts
                         /\ Composition(Rows(stats, id))
                         /\ r.ordered => drafts[id] # {}
                         /\ r.curved => Rows(points, id) # {}
=============================================================================
