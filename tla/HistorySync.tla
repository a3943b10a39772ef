---------------------------- MODULE HistorySync -----------------------------
(* The commands sync-history, sync-drafts with OpenDota and sync-rosters.   *)
(* Each collects everything from its provider first, page by page or record *)
(* by record, then stores one record after the other: a read of the stored  *)
(* row, then a transaction.  PublicPageSync adds sync-drafts with public    *)
(* match pages.                                                             *)
(* Feed[v] is what the providers answer at version v; versions pass while   *)
(* commands run, and the version is the clock.                              *)
EXTENDS HistoryStore, SequencesExt

CONSTANTS Procs,          \* processes that run commands
          Feed,           \* sequence of provider states
          PageSize,       \* rows of a full page
          Since, Until,   \* window of sync-drafts
          MaxTournaments, \* tournaments a sync-rosters asks for
          Mixes           \* bound: the kinds of commands that run together, on
                          \* which processes, how many are started in a
                          \* behaviour, and the matches stored before it

VARIABLES feed,           \* current version of the providers
          cmd,            \* what each process runs
          ran,            \* commands started so far
          raced,          \* kinds of commands that ever overlapped
          mix             \* what this behaviour runs

(* A list, whatever its entries are. *)
IsList(s) == s \in Seq(Range(s))

(* Providers answer with lists; the ids of professional matches are positive. *)
ASSUME SyncAssumption ==
    /\ PageSize \in Nat \ {0}
    /\ IsList(Feed) /\ Feed # << >>
    /\ \A v \in DOMAIN Feed :
          /\ IsList(Feed[v].past) /\ IsList(Feed[v].pro)
          /\ \A r \in Range(Feed[v].pro) : r.id \in Nat \ {0}
          /\ \A t \in DOMAIN Feed[v].rosters : IsList(Feed[v].rosters[t])
    /\ \A m \in Mixes : IsFiniteSet(m.stored)

sync == <<store, feed, cmd, ran, raced, mix>>

Idle == [kind |-> "match", phase |-> "idle", from |-> 0, to |-> 0, cursor |-> 0,
         rows |-> << >>, todo |-> << >>, seen |-> {}, tries |-> 0, results |-> << >>]
Active(p) == cmd[p].phase \notin {"idle", "done", "failed"}

-----------------------------------------------------------------------------
(* What a provider row becomes. *)

(* map_pandascore_historical_match: a row needs an id, a start and two      *)
(* teams of different names.                                                *)
UsableRow(r) == r.id # 0 /\ r.start # NoTime /\ r.a # r.b

(* _winner_side: the winner's id must be one of the two. *)
WinnerSide(r) == IF r.won = r.a THEN "a" ELSE IF r.won = r.b THEN "b" ELSE NoSide
ToMatch(r) == [id |-> r.id, start |-> r.start, end |-> r.end, a |-> r.a, b |-> r.b,
               winner |-> WinnerSide(r), tour |-> r.tour, status |-> r.status]

(* The k-th smallest of a set of places, and what a list has at them. *)
Nth(k, places) == CHOOSE i \in places : Cardinality({j \in places : j < i}) = k - 1
Listed(s, places) == [k \in 1..Cardinality(places) |-> s[Nth(k, places)]]

(* collect: the first row of an id is kept. *)
FirstOfId(rows) ==
    {i \in DOMAIN rows : /\ UsableRow(rows[i])
                         /\ \A k \in 1..(i - 1) : UsableRow(rows[k]) => rows[k].id # rows[i].id}
Deduped(rows) ==
    LET kept == Listed(rows, FirstOfId(rows))
    IN  [i \in DOMAIN kept |-> ToMatch(kept[i])]

(* _draft_actions: an order that is missing or 0 counts as missing and is   *)
(* replaced by the position in the list; a second item of an order is       *)
(* dropped.                                                                 *)
OrderOf(items, i) == IF items[i].order = 0 THEN i ELSE items[i].order
DraftActions(items) ==
    {[order |-> OrderOf(items, i), pick |-> items[i].pick,
      side |-> items[i].side, hero |-> items[i].hero] :
        i \in {j \in DOMAIN items :
                 \A k \in 1..(j - 1) : OrderOf(items, k) # OrderOf(items, j)}}

(* Mutant: the draft is judged by the provider's list, not by what is kept. *)
ToGameOfItems(id, d) == [id |-> id, start |-> d.start, end |-> d.end, a |-> d.a, b |-> d.b,
                         winner |-> d.winner, complete |-> Complete(Range(d.picks))]

(* map_opendota_match_detail *)
ToGame(id, d) == [id |-> id, start |-> d.start, end |-> d.end, a |-> d.a, b |-> d.b,
                  winner |-> d.winner, complete |-> Complete(DraftActions(d.picks))]

(* map_pandascore_tournament_rosters: entries without a team id or without  *)
(* a player that has an id are skipped; what is left identifies the         *)
(* snapshot.                                                                *)
UsableRoster(x) == x.org # NoTeam /\ \E pl \in x.players : pl # NoTeam
ToSnapshot(tour, x, at) ==
    [roster |-> [tour |-> tour, org |-> x.org, players |-> x.players \ {NoTeam},
                 coach |-> x.coach],
     observed |-> at, names |-> x.names]
Snapshots(tour, items, at) ==
    LET usable == Listed(items, {i \in DOMAIN items : UsableRoster(items[i])})
    IN  [i \in DOMAIN usable |-> ToSnapshot(tour, usable[i], at)]

-----------------------------------------------------------------------------
(* Starting. *)
Begin(p, kind, phase, todo) ==
    /\ ~Active(p) /\ p \in mix.procs /\ ran < mix.most /\ kind \in mix.kinds
    /\ ran' = ran + 1
    /\ cmd' = [cmd EXCEPT ![p] = [Idle EXCEPT !.kind = kind, !.phase = phase,
                                              !.from = feed, !.rows = todo]]
    /\ raced' = raced \cup {k \in {kind} : \E q \in Procs : Active(q) /\ cmd[q].kind = k}
    /\ UNCHANGED <<store, feed, mix>>

StartMatches(p) == Begin(p, "match", "page", << >>)
StartDrafts(p)  == Begin(p, "draft", "pro", << >>)

(* sync_roster_history: the tournaments that ended last according to the    *)
(* stored matches; with none the command is done.                           *)
EndedAfter(s, t) == LastEnd(s) > LastEnd(t) \/ (LastEnd(s) = LastEnd(t) /\ s < t)
Place(t) == Cardinality({s \in EndedTournaments : EndedAfter(s, t)}) + 1
Tournaments ==
    [k \in 1..Cardinality({t \in EndedTournaments : Place(t) <= MaxTournaments}) |->
        CHOOSE t \in EndedTournaments : Place(t) = k]
StartRosters(p) == Begin(p, "roster", "roster", Tournaments)

-----------------------------------------------------------------------------
(* Collecting. *)
Set(p, c) == cmd' = [cmd EXCEPT ![p] = c]
Ids(rows) == [i \in DOMAIN rows |-> rows[i].id]
Page(rows, n) ==
    SubSeq(rows, (n - 1) * PageSize + 1,
           IF n * PageSize < Len(rows) THEN n * PageSize ELSE Len(rows))

(* Mutant: a page that is exactly full ends the list. *)
FetchPageFullIsLast(p) ==
    LET c == cmd[p]
        page == Page(Feed[feed].past, c.cursor + 1)
        all == c.rows \o page
    IN  /\ c.phase = "page"
        /\ Set(p, IF Len(page) <= PageSize
                  THEN [c EXCEPT !.phase = "store", !.rows = << >>, !.todo = Deduped(all)]
                  ELSE [c EXCEPT !.rows = all, !.cursor = @ + 1])
        /\ UNCHANGED <<store, feed, ran, raced, mix>>

(* fetch_pandascore_past_match_rows: a page seen before ends the command,   *)
(* a short one ends the list.                                               *)
FetchPage(p) ==
    LET c == cmd[p]
        page == Page(Feed[feed].past, c.cursor + 1)
        repeated == page # << >> /\ \E n \in 1..c.cursor :
                                       Ids(Page(c.rows, n)) = Ids(page)
        all == c.rows \o page
    IN  /\ c.phase = "page"
        /\ Set(p, CASE repeated -> [c EXCEPT !.phase = "failed"]
                  [] ~repeated /\ Len(page) < PageSize ->
                        [c EXCEPT !.phase = "store", !.rows = << >>, !.todo = Deduped(all)]
                  [] OTHER -> [c EXCEPT !.rows = all, !.cursor = @ + 1])
        /\ UNCHANGED <<store, feed, ran, raced, mix>>

(* fetch_opendota_pro_match_rows: the next page holds lower ids; the list   *)
(* ends with an empty or a short page or with one that reaches back before  *)
(* the window.                                                              *)
InPeriod(r) == Since <= r.start /\ r.start <= Until
MinId(page) == CHOOSE i \in {page[k].id : k \in DOMAIN page} :
                   \A k \in DOMAIN page : i <= page[k].id
FetchProPage(p) ==
    LET c == cmd[p]
        all == Feed[feed].pro
        older == {i \in DOMAIN all : c.cursor = 0 \/ all[i].id < c.cursor}
        page == Page(Listed(all, older), 1)
        rows == c.rows \o Listed(page, {i \in DOMAIN page : InPeriod(page[i])})
        last == \/ Len(page) < PageSize
                \/ \E k \in DOMAIN page : page[k].start < Since
    IN  /\ c.phase = "pro"
        /\ Set(p, IF last THEN [c EXCEPT !.phase = "detail", !.rows = rows, !.cursor = 0]
                          ELSE [c EXCEPT !.rows = rows, !.cursor = MinId(page)])
        /\ UNCHANGED <<store, feed, ran, raced, mix>>

(* OpenDotaDraftCollector.collect: one detail after the other; a match      *)
(* without a start is skipped, all others are kept for the store.           *)
FetchDetail(p) ==
    LET c == cmd[p]
        id == c.rows[c.cursor + 1].id
        d == Feed[feed].detail[id]
    IN  /\ c.phase = "detail" /\ c.cursor < Len(c.rows)
        /\ Set(p, [c EXCEPT !.cursor = @ + 1,
                            !.todo = IF d.start = NoTime THEN @
                                     ELSE Append(@, [game |-> ToGame(id, d),
                                                     actions |-> DraftActions(d.picks)])])
        /\ UNCHANGED <<store, feed, ran, raced, mix>>

(* PandaScoreRosterCollector.collect: one answer per tournament, all marked *)
(* with the time the collection began; an unknown tournament is an error.   *)
FetchRoster(p) ==
    LET c == cmd[p]
        tour == c.rows[c.cursor + 1]
    IN  /\ c.phase = "roster" /\ c.cursor < Len(c.rows) /\ tour \in DOMAIN Feed[feed].rosters
        /\ Set(p, [c EXCEPT !.cursor = @ + 1,
                            !.todo = @ \o Snapshots(tour, Feed[feed].rosters[tour], c.from)])
        /\ UNCHANGED <<store, feed, ran, raced, mix>>

Collected(p) ==
    /\ cmd[p].phase \in {"detail", "roster"} /\ cmd[p].cursor = Len(cmd[p].rows)
    /\ Set(p, [cmd[p] EXCEPT !.phase = "store"])
    /\ UNCHANGED <<store, feed, ran, raced, mix>>

-----------------------------------------------------------------------------
(* Storing. *)
Stored(c) == [c EXCEPT !.phase = "store", !.todo = Tail(@), !.seen = {}]
RowsOf(c) == CASE c.kind = "match"  -> OfSource(matches, Head(c.todo).id)
               [] c.kind = "roster" -> ObservedAt(Head(c.todo).roster)
               [] OTHER             -> OfSource(games, Head(c.todo).game.id)

(* The read of the existing row before a transaction begins.  Of a roster   *)
(* the names are read first; they and the row are taken from one moment.    *)
Lookup(p) ==
    LET c == cmd[p]
    IN  /\ c.phase = "store" /\ c.todo # << >>
        /\ c.kind = "roster" => Known(Head(c.todo))
        /\ Set(p, [c EXCEPT !.phase = "found", !.seen = RowsOf(c)])
        /\ UNCHANGED <<store, feed, ran, raced, mix>>

StoreMatch(p) ==
    LET c == cmd[p]
    IN  /\ c.phase = "found" /\ c.kind = "match"
        /\ UpsertMatch(c.seen, Head(c.todo))
        /\ Set(p, Stored(c))
        /\ UNCHANGED <<feed, ran, raced, mix>>

StoreGame(p) ==
    LET c == cmd[p]
    IN  /\ c.phase = "found" /\ c.kind = "draft"
        /\ UpsertGame(c.seen, Head(c.todo).game, Head(c.todo).actions)
        /\ Set(p, Stored(c))
        /\ UNCHANGED <<feed, ran, raced, mix>>

(* upsert_roster_snapshot writes a name, and has the database for itself    *)
(* from there on, ...                                                       *)
StoreRosterRenamed(p) ==
    LET c == cmd[p]
    IN  /\ c.phase = "store" /\ c.kind = "roster" /\ c.todo # << >>
        /\ ~Known(Head(c.todo))
        /\ UpsertRoster(Head(c.todo))
        /\ Set(p, Stored(c))
        /\ UNCHANGED <<feed, ran, raced, mix>>

(* ... or it writes no name, and goes by a row that it read before.         *)
StoreRoster(p) ==
    LET c == cmd[p]
    IN  /\ c.phase = "found" /\ c.kind = "roster"
        /\ UpsertSnapshot(c.seen, Head(c.todo))
        /\ Set(p, Stored(c))
        /\ UNCHANGED <<names, feed, ran, raced, mix>>

(* A contradiction or a row that somebody else inserted: the command ends,  *)
(* what it stored before stays.                                             *)
Refused(p) ==
    LET c == cmd[p]
    IN  /\ c.phase = "found" /\ c.kind # "public"
        /\ CASE c.kind = "match"  -> ~CanStoreMatch(c.seen, Head(c.todo))
             [] c.kind = "roster" -> ~CanStoreSnapshot(c.seen, Head(c.todo))
             [] OTHER             -> ~CanStoreGame(c.seen, Head(c.todo).game)
        /\ Set(p, [c EXCEPT !.phase = "failed"])
        /\ UNCHANGED <<store, feed, ran, raced, mix>>

Finish(p) ==
    /\ cmd[p].phase = "store" /\ cmd[p].todo = << >>
    /\ Set(p, [cmd[p] EXCEPT !.phase = "done", !.to = feed])
    /\ UNCHANGED <<store, feed, ran, raced, mix>>

(* A request that fails, an answer that cannot be decoded, or a kill. *)
Die(p) ==
    /\ Active(p)
    /\ Set(p, [cmd[p] EXCEPT !.phase = "failed"])
    /\ UNCHANGED <<store, feed, ran, raced, mix>>

ProviderMoves ==
    /\ feed < Len(Feed) /\ feed' = feed + 1
    /\ UNCHANGED <<store, cmd, ran, raced, mix>>

-----------------------------------------------------------------------------
SyncInit ==
    /\ mix \in Mixes /\ StoreInit(mix.stored)
    /\ feed = 1 /\ ran = 0 /\ raced = {}
    /\ cmd = [p \in Procs |-> Idle]

SyncStep(p) ==
    \/ FetchPage(p) \/ FetchProPage(p) \/ FetchDetail(p) \/ FetchRoster(p)
    \/ Collected(p) \/ Lookup(p)
    \/ StoreMatch(p) \/ StoreGame(p) \/ StoreRosterRenamed(p) \/ StoreRoster(p)
    \/ Refused(p) \/ Finish(p)

SyncNext ==
    \/ \E p \in Procs : \/ StartMatches(p) \/ StartDrafts(p) \/ StartRosters(p)
                        \/ SyncStep(p) \/ Die(p)
    \/ ProviderMoves

-----------------------------------------------------------------------------
(* Properties. *)

(* Between two versions of the list no row is taken off, made unusable or   *)
(* moved to an earlier place.                                               *)
PastIds(v) == {r.id : r \in {x \in Range(Feed[v].past) : UsableRow(x)}}
NothingRemoved(from, to) ==
    \A v \in from..(to - 1) :
        LET old == Feed[v].past
            new == Feed[v + 1].past
        IN  \A i \in DOMAIN old : \E j \in DOMAIN new :
               /\ j >= i /\ new[j].id = old[i].id
               /\ UsableRow(old[i]) => UsableRow(new[j])

(* A match sync that ended well, without another one beside it, has stored  *)
(* every usable row that was listed all along, in a version no older than   *)
(* its own start, even when rows were added while it read its pages: pages  *)
(* are counted from the oldest row, so an addition repeats rows and only a  *)
(* removal can skip one.                                                    *)
SyncedIsStored ==
    \A p \in Procs :
        LET c == cmd[p]
        IN  c.kind = "match" /\ c.phase = "done" /\ "match" \notin raced
              /\ NothingRemoved(c.from, c.to)
            => \A id \in PastIds(c.from) :
                  \E v \in c.from..feed :
                     \E r \in Range(Feed[v].past) :
                        r.id = id /\ UsableRow(r) /\ ToMatch(r) \in matches

(* A game of OpenDota is marked complete exactly when its stored actions are a   *)
(* complete draft, whatever fails or is killed between collecting and       *)
(* storing.  Two overlapping syncs do break it: one that saw the game row   *)
(* it was about to write leaves it alone and still rewrites the actions.    *)
DraftMatchesGame ==
    "draft" \notin raced =>
        \A g \in games : g.id > 0 =>
            g.id \in DOMAIN drafts /\ (g.complete <=> Complete(drafts[g.id]))

(* Once a roster sync ended, the rosters that one answer for each of its    *)
(* tournaments named are available to every query from the time the sync    *)
(* ended, and from the time it began when no two roster syncs overlapped,   *)
(* whatever is observed later by whom.  With an overlap the later bound is  *)
(* the only one: of two syncs that read the same stored time before either  *)
(* wrote, the one that began later may write last and put its own time in   *)
(* the place of the earlier one.                                            *)
RostersAvailable ==
    \A p \in Procs :
        LET c == cmd[p]
        IN  c.kind = "roster" /\ c.phase = "done"
            => \A t \in Range(c.rows) : \E v \in c.from..c.to :
                  \A s \in Range(Snapshots(t, Feed[v].rosters[t], c.from)) :
                     /\ s.roster \in RostersBefore(c.to + 1)
                     /\ "roster" \notin raced => s.roster \in RostersBefore(c.from + 1)
=============================================================================
