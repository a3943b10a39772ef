--------------------------- MODULE HistoryProofs ----------------------------
(***************************************************************************)
(* What the sync commands store is what their providers answered, for any  *)
(* number of processes, any providers and any page size.  A command works  *)
(* on tables that, of the commands running, only its own kind writes.  So  *)
(* one argument per kind is enough, and each treats the steps of the other *)
(* kinds in one case.  The last parts are about the models trained on      *)
(* these tables: they are tested on later rows, rows see only the past,    *)
(* and each result counts once.                                            *)
(***************************************************************************)
EXTENDS PublicPageSync, HistoricalTraining, DataLemmas

(* Lists. *)
LEMMA ListOf ==
  ASSUME NEW S, NEW s \in Seq(S)
  PROVE  IsList(s) /\ Range(s) \subseteq S
<1>1. Len(s) \in Nat /\ DOMAIN s = 1 .. Len(s) /\ s = [i \in 1 .. Len(s) |-> s[i]]
  OBVIOUS
<1>2. \A i \in 1 .. Len(s) : s[i] \in Range(s) /\ s[i] \in S
  BY <1>1 DEF Range
<1>3. s \in Seq(Range(s))
  BY <1>1, <1>2
<1>4. Range(s) \subseteq S
  BY <1>1, <1>2 DEF Range
<1> QED BY <1>3, <1>4 DEF IsList

LEMMA ListBasics ==
  ASSUME NEW s, IsList(s)
  PROVE  Len(s) \in Nat /\ DOMAIN s = 1 .. Len(s) /\ \A i \in DOMAIN s : s[i] \in Range(s)
BY DEF IsList, Range

LEMMA EmptyList == IsList(<< >>) /\ Range(<< >>) = {}
BY DEF IsList, Range

LEMMA Joined ==
  ASSUME NEW s, IsList(s), NEW t, IsList(t)
  PROVE  IsList(s \o t) /\ Range(s \o t) = Range(s) \cup Range(t)
<1> DEFINE S == Range(s) \cup Range(t)
<1>1. s \in Seq(S) /\ t \in Seq(S)
  BY DEF IsList
<1>2. s \o t \in Seq(S) /\ Len(s \o t) = Len(s) + Len(t)
  BY <1>1
<1>3. IsList(s \o t) /\ Range(s \o t) \subseteq S
  BY <1>2, ListOf
<1>4. DOMAIN s = 1 .. Len(s) /\ DOMAIN t = 1 .. Len(t) /\ Len(s) \in Nat /\ Len(t) \in Nat
      /\ DOMAIN (s \o t) = 1 .. Len(s) + Len(t)
  BY <1>1, <1>2
<1>5. \A i \in DOMAIN s : i \in DOMAIN (s \o t) /\ (s \o t)[i] = s[i]
  BY <1>1, <1>4
<1>6. \A i \in DOMAIN t : Len(s) + i \in DOMAIN (s \o t) /\ (s \o t)[Len(s) + i] = t[i]
  BY <1>1, <1>4
<1>7. S \subseteq Range(s \o t)
  <2>1. Range(s) \subseteq Range(s \o t)
    BY <1>5 DEF Range
  <2>2. Range(t) \subseteq Range(s \o t)
    BY <1>6 DEF Range
  <2> QED BY <2>1, <2>2
<1> QED BY <1>3, <1>7

LEMMA Appended ==
  ASSUME NEW s, IsList(s), NEW x
  PROVE  IsList(Append(s, x)) /\ Range(Append(s, x)) = Range(s) \cup {x}
<1>1. IsList(<< x >>) /\ Range(<< x >>) = {x}
  <2>1. << x >> \in Seq({x})
    OBVIOUS
  <2>2. Range(<< x >>) = {x}
    BY DEF Range
  <2> QED BY <2>1, <2>2, ListOf
<1>2. Append(s, x) = s \o << x >>
  <2> DEFINE S == Range(s) \cup {x}
  <2>1. s \in Seq(S) /\ << x >> \in Seq(S)
    BY DEF IsList
  <2> HIDE DEF S
  <2>2. Append(s, x) \in Seq(S) /\ s \o << x >> \in Seq(S)
    BY <2>1
  <2>3. Len(Append(s, x)) = Len(s) + 1 /\ Len(s \o << x >>) = Len(s) + 1
    BY <2>1
  <2>4. \A i \in 1 .. Len(s) + 1 : Append(s, x)[i] = (s \o << x >>)[i]
    BY <2>1
  <2> QED BY <2>2, <2>3, <2>4
<1> QED BY <1>1, <1>2, Joined

LEMMA TailOf ==
  ASSUME NEW s, IsList(s), s # << >>
  PROVE  /\ IsList(Tail(s)) /\ Head(s) \in Range(s)
         /\ Range(s) = {Head(s)} \cup Range(Tail(s))
<1>1. s \in Seq(Range(s)) /\ Len(s) \in Nat /\ Len(s) # 0 /\ DOMAIN s = 1 .. Len(s)
  BY DEF IsList
<1>2. Tail(s) \in Seq(Range(s)) /\ Len(Tail(s)) = Len(s) - 1
      /\ DOMAIN Tail(s) = 1 .. Len(s) - 1
  BY <1>1
<1>3. \A i \in 1 .. Len(s) - 1 : Tail(s)[i] = s[i + 1]
  BY <1>1
<1>4. Head(s) = s[1] /\ 1 \in DOMAIN s
  BY <1>1
<1>5. \A i \in DOMAIN s : i = 1 \/ (i - 1 \in DOMAIN Tail(s) /\ Tail(s)[i - 1] = s[i])
  BY <1>1, <1>2, <1>3
<1>6. Range(s) \subseteq {Head(s)} \cup Range(Tail(s))
  BY <1>4, <1>5 DEF Range
<1>7. IsList(Tail(s)) /\ Range(Tail(s)) \subseteq Range(s)
  BY <1>2, ListOf
<1>8. Head(s) \in Range(s)
  BY <1>4 DEF Range
<1> QED BY <1>6, <1>7, <1>8

(* The entries of a list at some of its places are a list.                 *)
LEMMA ListedEntries ==
  ASSUME NEW s, IsList(s), NEW places \in SUBSET DOMAIN s
  PROVE  IsList(Listed(s, places)) /\ Range(Listed(s, places)) = {s[i] : i \in places}
<1> DEFINE N == Cardinality(places)
           R == {p \in places \X places : p[1] < p[2]}
           f == ByRank(places, R)
<1>1. places \in SUBSET (1 .. Len(s)) /\ Len(s) \in Nat /\ DOMAIN s = 1 .. Len(s)
  BY DEF IsList
<1>2. IsFiniteSet(places) /\ N \in Nat
  <2>1. IsFiniteSet(1 .. Len(s))
    BY <1>1, FS_Interval
  <2>2. IsFiniteSet(places)
    BY <1>1, <2>1, FS_Subset
  <2> QED BY <2>2, FS_CardinalityType
<1>3. \A i, j \in places : <<i, j>> \in R <=> i < j
  OBVIOUS
<1> HIDE DEF R
<1>4. TotalOrder(R, places)
  BY <1>1, <1>3 DEF TotalOrder
<1>5. Lists(f, places, R)
  BY <1>2, <1>4, RankedList
<1>6. Listed(s, places) = [k \in 1 .. N |-> s[f[k]]]
  <2>1. \A x \in places : {y \in places : <<y, x>> \in R} = {y \in places : y < x}
    BY <1>3
  <2>2. \A k \in 1 .. N : f[k] = Nth(k, places)
    BY <2>1 DEF ByRank, Nth
  <2> HIDE DEF f
  <2> QED BY <2>2 DEF Listed
<1> HIDE DEF f, N
<1>7. f \in [1 .. N -> places] /\ \A x \in places : \E i \in 1 .. N : f[i] = x
  BY <1>5 DEF Lists, N
<1>8. \A k \in 1 .. N : s[f[k]] \in Range(s)
  BY <1>7 DEF Range
<1>9. Listed(s, places) \in Seq(Range(s))
  BY <1>2, <1>6, <1>8
<1>10. Range(Listed(s, places)) = {s[i] : i \in places}
  <2>1. Range(Listed(s, places)) = {s[f[k]] : k \in 1 .. N}
    BY <1>6 DEF Range
  <2> QED BY <1>7, <2>1
<1> QED BY <1>9, <1>10, ListOf

(* A page is part of the list; an entry behind the pages before is on it or *)
(* behind it, and it is full when there are entries behind it.             *)
LEMMA PageOf ==
  ASSUME NEW s, IsList(s), NEW n \in Nat
  PROVE  /\ IsList(Page(s, n + 1)) /\ Range(Page(s, n + 1)) \subseteq Range(s)
         /\ \A j \in DOMAIN s : j > n * PageSize =>
               \/ s[j] \in Range(Page(s, n + 1))
               \/ j > (n + 1) * PageSize /\ ~ (Len(Page(s, n + 1)) < PageSize)
<1> DEFINE a == n * PageSize
           b == (n + 1) * PageSize
           last == IF b < Len(s) THEN b ELSE Len(s)
           page == Page(s, n + 1)
<1>1. s \in Seq(Range(s)) /\ Len(s) \in Nat /\ DOMAIN s = 1 .. Len(s)
  BY DEF IsList
<1>2. PageSize \in Nat /\ PageSize # 0
  BY SyncAssumption
<1>3. a \in Nat /\ b = a + PageSize /\ (n + 1 - 1) * PageSize = a
  <2>1. n + 1 - 1 = n
    OBVIOUS
  <2>2. a \in Nat /\ b = a + PageSize
    BY <1>2
  <2> QED BY <2>1, <2>2
<1>4. page = SubSeq(s, a + 1, last)
  <2>1. \A m : Page(s, m) = SubSeq(s, (m - 1) * PageSize + 1,
                                  IF m * PageSize < Len(s) THEN m * PageSize ELSE Len(s))
    BY DEF Page
  <2>2. PICK m : m = n + 1
    OBVIOUS
  <2>3. (m - 1) * PageSize = a /\ m * PageSize = b /\ page = Page(s, m)
    BY <1>3, <2>2
  <2> HIDE DEF a, b, page
  <2> QED BY <2>1, <2>3
<1> HIDE DEF a, b, page
<1>5. last \in Nat /\ last <= Len(s) /\ last <= b /\ (b < Len(s) => last = b)
  BY <1>1, <1>2, <1>3
<1> HIDE DEF last
<1>6. page \in Seq(Range(s))
  BY <1>1, <1>3, <1>4, <1>5
<1>7. a < last => Len(page) = last - a
  BY <1>1, <1>3, <1>4, <1>5
<1>8. \A j \in DOMAIN s : a < j /\ j <= last => page[j - a] = s[j]
  BY <1>1, <1>3, <1>4, <1>5
<1>9. ASSUME NEW j \in DOMAIN s, j > a
      PROVE  s[j] \in Range(page) \/ (j > b /\ ~ (Len(page) < PageSize))
  <2>1. CASE j <= last
    <3>1. j - a \in 1 .. Len(page)
      BY <1>1, <1>3, <1>5, <1>7, <1>9, <2>1
    <3>2. j - a \in DOMAIN page
      BY <1>6, <3>1
    <3> QED BY <1>8, <1>9, <2>1, <3>2 DEF Range
  <2>2. CASE last < j
    <3>1. b < Len(s) /\ last = b
      <4>1. j \in Nat /\ j <= Len(s)
        BY <1>1
      <4> QED BY <1>1, <1>2, <1>3, <1>5, <2>2, <4>1 DEF last
    <3>2. Len(page) = PageSize
      BY <1>2, <1>3, <1>7, <3>1
    <3> QED BY <1>2, <2>2, <3>1, <3>2
  <2> QED BY <1>1, <1>5, <2>1, <2>2
<1> QED BY <1>6, <1>9, ListOf DEF a, b, page
-----------------------------------------------------------------------------
(* The shape of a command: its kind goes with its phases, and what it has  *)
(* collected are lists.                                                    *)
Fields == {"kind", "phase", "from", "to", "cursor", "rows", "todo", "seen", "tries", "results"}
Resting == {"idle", "done", "failed"}
NormPhases == {"existing", "draft", "found", "stats", "replace", "points"}
PagePhases == NormPhases \cup {"robots", "fetch", "links"}
PhaseFits(c) ==
  \/ c.phase \in Resting \cup {"store"} /\ c.kind \in {"match", "draft", "roster", "public"}
  \/ c.phase \in {"page", "found"} /\ c.kind = "match"
  \/ c.phase \in {"pro", "detail", "found"} /\ c.kind = "draft"
  \/ c.phase \in {"roster", "found"} /\ c.kind = "roster"
  \/ c.phase \in PagePhases /\ c.kind = "public"

(* An OpenDota draft sync writes positive ids, a public page sync negative *)
(* ones.                                                                   *)
DraftIds(c) ==
  /\ c.phase \in {"pro", "detail"} => \A r \in Range(c.rows) : r.id \in Nat \ {0}
  /\ c.phase \notin Resting => \A x \in Range(c.todo) : x.game.id \in Nat \ {0}

HasNorm(c) == c.phase \in NormPhases \/ (c.phase = "store" /\ c.todo # << >>)
NormFields == {"game", "actions", "players", "points", "known", "outcome"}
GameFields == {"id", "start", "end", "a", "b", "winner", "patch", "league", "complete"}
IsNorm(n, match) ==
  DOMAIN n = NormFields /\ DOMAIN n.game = GameFields /\ n.game.id = GameId(match)
PageWork(c) ==
  /\ c.rows = Asked
  /\ c.phase = "robots" => c.cursor = 0 /\ c.todo = << >>
  /\ c.phase \in {"fetch", "links"} \/ HasNorm(c) => c.cursor < Len(Asked)
  /\ c.phase = "links" => \E page : c.todo = << page >>
  /\ HasNorm(c) => \E n : c.todo = << n >> /\ IsNorm(n, Match(c))

Well(c, now) ==
  /\ DOMAIN c = Fields /\ PhaseFits(c)
  /\ IsList(c.rows) /\ IsList(c.todo) /\ IsList(c.results)
  /\ c.from \in Nat /\ c.to \in Nat /\ c.from <= now
  /\ c.phase \notin Resting \cup {"pro"} => c.cursor \in Nat
  /\ c.phase = "found" => c.todo # << >>
  /\ c.kind = "draft" => DraftIds(c)
  /\ c.kind = "public" => PageWork(c)

Shape ==
  /\ feed \in DOMAIN Feed /\ feed \in Nat
  /\ IsFiniteSet(matches)
  /\ cmd = [p \in Procs |-> cmd[p]]
  /\ \A p \in Procs : Well(cmd[p], feed)

(* A step of a running command changes that command only, and neither its  *)
(* kind nor its beginning.                                                 *)
Own(p) ==
  /\ Active(p)
  /\ cmd' = [q \in Procs |-> IF q = p THEN cmd'[p] ELSE cmd[q]]
  /\ cmd'[p].kind = cmd[p].kind /\ cmd'[p].from = cmd[p].from
  /\ UNCHANGED <<feed, raced>>

Starts(p) ==
  \/ StartMatches(p) \/ StartDrafts(p) \/ StartRosters(p) \/ Begin(p, "public", "robots", Asked)
MatchStep(p) ==
  \/ FetchPage(p) \/ Lookup(p) \/ StoreMatch(p) \/ Refused(p) \/ Finish(p) \/ Die(p)
DraftStep(p) ==
  \/ FetchProPage(p) \/ FetchDetail(p) \/ Collected(p)
  \/ Lookup(p) \/ StoreGame(p) \/ Refused(p) \/ Finish(p) \/ Die(p)
RosterStep(p) ==
  \/ FetchRoster(p) \/ Collected(p) \/ Lookup(p) \/ StoreRosterRenamed(p) \/ StoreRoster(p)
  \/ Refused(p) \/ Finish(p) \/ Die(p)
PageStep(p) ==
  \/ CheckRobots(p) \/ PageBusy(p) \/ FetchPublicPage(p) \/ Understand(p)
  \/ ReadExisting(p) \/ ReadDraft(p) \/ StorageConflict(p) \/ InsertedBefore(p)
  \/ StorePublicGame(p) \/ ReadStats(p) \/ ReplaceStats(p) \/ ReplacePoints(p)
PublicOwn(p) ==
  PageStep(p) \/ ((Lookup(p) \/ Finish(p) \/ Die(p)) /\ UNCHANGED pageTables)

AnyStep ==
  \/ UNCHANGED publicVars
  \/ ProviderMoves /\ UNCHANGED pageTables
  \/ \E p \in Procs :
        \/ Starts(p) /\ UNCHANGED pageTables
        \/ cmd[p].kind = "match" /\ MatchStep(p) /\ UNCHANGED pageTables
        \/ cmd[p].kind = "draft" /\ DraftStep(p) /\ UNCHANGED pageTables
        \/ cmd[p].kind = "roster" /\ RosterStep(p) /\ UNCHANGED pageTables
        \/ cmd[p].kind = "public" /\ PublicOwn(p)

LEMMA StepsByKind ==
  ASSUME Shape, [PublicNext]_publicVars
  PROVE  AnyStep
<1>1. CASE UNCHANGED publicVars
  BY <1>1 DEF AnyStep
<1>2. CASE ProviderMoves /\ UNCHANGED pageTables
  BY <1>2 DEF AnyStep
<1>3. ASSUME NEW p \in Procs,
             \/ StartMatches(p) \/ StartDrafts(p) \/ StartRosters(p) \/ StartPublic(p),
             StartPublic(p) \/ UNCHANGED pageTables
      PROVE  AnyStep
  BY <1>3 DEF AnyStep, Starts, StartPublic
<1>4. ASSUME NEW p \in Procs, SyncStep(p) \/ Die(p), UNCHANGED pageTables PROVE AnyStep
  <2>1. PhaseFits(cmd[p])
    BY DEF Shape, Well
  <2>2. CASE FetchPage(p)
    <3>1. cmd[p].phase = "page"
      BY <2>2 DEF FetchPage
    <3>2. cmd[p].kind = "match"
      BY <2>1, <3>1 DEF PhaseFits, Resting, PagePhases, NormPhases
    <3> QED BY <1>4, <2>2, <3>2 DEF AnyStep, MatchStep
  <2>3. CASE FetchProPage(p) \/ FetchDetail(p)
    <3>1. cmd[p].phase \in {"pro", "detail"}
      BY <2>3 DEF FetchProPage, FetchDetail
    <3>2. cmd[p].kind = "draft"
      BY <2>1, <3>1 DEF PhaseFits, Resting, PagePhases, NormPhases
    <3> QED BY <1>4, <2>3, <3>2 DEF AnyStep, DraftStep
  <2>4. CASE FetchRoster(p)
    <3>1. cmd[p].phase = "roster"
      BY <2>4 DEF FetchRoster
    <3>2. cmd[p].kind = "roster"
      BY <2>1, <3>1 DEF PhaseFits, Resting, PagePhases, NormPhases
    <3> QED BY <1>4, <2>4, <3>2 DEF AnyStep, RosterStep
  <2>5. CASE Collected(p)
    <3>1. cmd[p].phase \in {"detail", "roster"}
      BY <2>5 DEF Collected
    <3>2. cmd[p].kind \in {"draft", "roster"}
      BY <2>1, <3>1 DEF PhaseFits, Resting, PagePhases, NormPhases
    <3> QED BY <1>4, <2>5, <3>2 DEF AnyStep, DraftStep, RosterStep
  <2>6. CASE Lookup(p)
    <3>1. cmd[p].phase = "store"
      BY <2>6 DEF Lookup
    <3>2. cmd[p].kind \in {"match", "draft", "roster", "public"}
      BY <2>1, <3>1 DEF PhaseFits, Resting, PagePhases, NormPhases
    <3> QED BY <1>4, <2>6, <3>2 DEF AnyStep, DraftStep, MatchStep, RosterStep, PublicOwn
  <2>7. CASE StoreMatch(p) \/ StoreGame(p) \/ StoreRosterRenamed(p) \/ StoreRoster(p)
    BY <1>4, <2>7
       DEF AnyStep, MatchStep, DraftStep, RosterStep, StoreMatch, StoreGame, StoreRosterRenamed, StoreRoster
  <2>9. CASE Refused(p)
    <3>1. cmd[p].phase = "found" /\ cmd[p].kind # "public"
      BY <2>9 DEF Refused
    <3>2. cmd[p].kind \in {"match", "draft", "roster"}
      BY <2>1, <3>1 DEF PhaseFits
    <3> QED BY <1>4, <2>9, <3>2 DEF AnyStep, MatchStep, DraftStep, RosterStep
  <2>8. CASE Finish(p) \/ Die(p)
    <3>1. cmd[p].kind \in {"match", "draft", "roster", "public"}
      BY <2>1 DEF PhaseFits
    <3> QED BY <1>4, <2>8, <3>1 DEF AnyStep, MatchStep, DraftStep, RosterStep, PublicOwn
  <2> QED BY <1>4, <2>2, <2>3, <2>4, <2>5, <2>6, <2>7, <2>8, <2>9 DEF SyncStep
<1>5. ASSUME NEW p \in Procs, PageStep(p) PROVE AnyStep
  <2>1. PhaseFits(cmd[p])
    BY DEF Shape, Well
  <2>2. cmd[p].phase \in PagePhases \ {"found"} \/ cmd[p].kind = "public"
    BY <1>5 DEF PageStep, CheckRobots, PageBusy, FetchPublicPage, Understand, ReadExisting,
                ReadDraft, StorageConflict, InsertedBefore, StorePublicGame, ReadStats,
                ReplaceStats, ReplacePoints, PagePhases, NormPhases
  <2>3. cmd[p].kind = "public"
    BY <2>1, <2>2 DEF PhaseFits, Resting, PagePhases, NormPhases
  <2> QED BY <1>5, <2>3 DEF AnyStep, PublicOwn
<1>6. PublicNext => \/ SyncNext /\ UNCHANGED pageTables
                   \/ \E p \in Procs : StartPublic(p) \/ PageStep(p)
  BY DEF PublicNext, PublicStep, PageStep
<1>7. SyncNext => \/ ProviderMoves
                 \/ \E p \in Procs : \/ StartMatches(p) \/ StartDrafts(p) \/ StartRosters(p)
                                     \/ SyncStep(p) \/ Die(p)
  BY DEF SyncNext
<1>8. CASE SyncNext /\ UNCHANGED pageTables
  BY <1>2, <1>3, <1>4, <1>7, <1>8
<1>9. CASE \E p \in Procs : StartPublic(p) \/ PageStep(p)
  BY <1>3, <1>5, <1>9
<1> QED BY <1>1, <1>6, <1>8, <1>9
-----------------------------------------------------------------------------
(* Every step keeps the shape.                                             *)
LEMMA OwnStep ==
  ASSUME Shape, NEW p \in Procs, NEW d, Active(p), Set(p, d),
         d.kind = cmd[p].kind, d.from = cmd[p].from, UNCHANGED <<feed, raced>>
  PROVE  Own(p) /\ cmd'[p] = d
<1>1. cmd' = [q \in Procs |-> IF q = p THEN d ELSE cmd[q]]
  BY DEF Shape, Set
<1>2. cmd'[p] = d
  BY <1>1
<1> QED BY <1>1, <1>2 DEF Own

(* The end of a command keeps the shape, whatever it was doing.            *)
LEMMA EndedIsWell ==
  ASSUME NEW c, NEW now, Well(c, now), NEW d, DOMAIN d = Fields,
         d.phase \in Resting, d.kind = c.kind, d.from = c.from, d.to \in Nat,
         d.rows = c.rows, IsList(d.todo), d.results = c.results
  PROVE  Well(d, now)
<1>1. PhaseFits(d)
  BY DEF Well, PhaseFits
<1>2. d.kind = "draft" => DraftIds(d)
  BY DEF DraftIds, Resting
<1>3. d.kind = "public" => PageWork(d)
  BY DEF PageWork, HasNorm, Resting, Well, NormPhases
<1>4. d.phase # "found"
  BY DEF Resting
<1> QED BY <1>1, <1>2, <1>3, <1>4 DEF Well

LEMMA DieIs ==
  ASSUME Shape, NEW p \in Procs, Die(p)
  PROVE  Own(p) /\ cmd'[p] = [cmd[p] EXCEPT !.phase = "failed"] /\ UNCHANGED <<store, mix>>
<1> DEFINE d == [cmd[p] EXCEPT !.phase = "failed"]
<1>1. DOMAIN cmd[p] = Fields
  BY DEF Shape, Well
<1>2. d.kind = cmd[p].kind /\ d.from = cmd[p].from
  BY <1>1 DEF Fields
<1> HIDE DEF d
<1> QED BY <1>2, OwnStep DEF Die, d

LEMMA TournamentsAreListed ==
  ASSUME Shape PROVE IsList(Tournaments)
<1> DEFINE ended == {x \in matches : x.end # NoTime}
           tour == [m \in ended |-> m.tour]
           first == {t \in EndedTournaments : Place(t) <= MaxTournaments}
           n == Cardinality(first)
<1>1. IsFiniteSet(ended)
  BY FS_Subset DEF Shape
<1>2. IsFiniteSet({tour[m] : m \in DOMAIN tour})
  BY <1>1, ImageIsFinite
<1>3. EndedTournaments = {tour[m] : m \in DOMAIN tour}
  BY DEF EndedTournaments
<1>4. n \in Nat
  <2>1. first \subseteq EndedTournaments
    OBVIOUS
  <2>2. IsFiniteSet(first)
    BY <1>2, <1>3, <2>1, FS_Subset
  <2> QED BY <2>2, FS_CardinalityType
<1> DEFINE Entry(k) == CHOOSE t \in EndedTournaments : Place(t) = k
<1>5. Tournaments = [k \in 1 .. n |-> Entry(k)]
  BY DEF Tournaments
<1> HIDE DEF n, Entry
<1>6. Tournaments \in Seq({Entry(k) : k \in 1 .. n})
  BY <1>4, <1>5
<1> QED BY <1>6, ListOf

LEMMA AskedIsListed == IsList(Asked) /\ Len(Asked) \in Nat \ {0}
<1>1. Asked \in Seq(Nat \ {0}) /\ Asked # << >>
  BY PublicAssumption
<1>2. IsList(Asked)
  BY <1>1, ListOf
<1>3. Len(Asked) \in Nat /\ Len(Asked) # 0
  BY <1>1
<1> QED BY <1>2, <1>3

Fresh(kind, phase, rows) ==
  [Idle EXCEPT !.kind = kind, !.phase = phase, !.from = feed, !.rows = rows]
FreshForms ==
  {Fresh("match", "page", << >>), Fresh("draft", "pro", << >>),
   Fresh("roster", "roster", Tournaments), Fresh("public", "robots", Asked)}

LEMMA FreshIsWell ==
  ASSUME Shape, NEW d \in FreshForms
  PROVE  /\ Well(d, feed) /\ d.todo = << >> /\ d.results = << >> /\ d.cursor = 0
         /\ d.from = feed /\ d.phase \notin Resting \cup {"store", "found"} /\ d.seen = {}
<1>1. PICK kind, phase, rows :
        /\ d = Fresh(kind, phase, rows)
        /\ \/ kind = "match" /\ phase = "page" /\ rows = << >>
           \/ kind = "draft" /\ phase = "pro" /\ rows = << >>
           \/ kind = "roster" /\ phase = "roster" /\ rows = Tournaments
           \/ kind = "public" /\ phase = "robots" /\ rows = Asked
  BY DEF FreshForms
<1>2. /\ DOMAIN d = Fields /\ d.kind = kind /\ d.phase = phase /\ d.from = feed /\ d.to = 0
      /\ d.cursor = 0 /\ d.rows = rows /\ d.todo = << >> /\ d.seen = {} /\ d.results = << >>
  BY <1>1 DEF Fresh, Idle, Fields
<1>3. IsList(rows)
  BY <1>1, TournamentsAreListed, AskedIsListed, EmptyList
<1>4. PhaseFits(d)
  BY <1>1, <1>2 DEF PhaseFits, PagePhases
<1>5. d.kind = "draft" => DraftIds(d)
  BY <1>1, <1>2, EmptyList DEF DraftIds
<1>6. d.kind = "public" => PageWork(d)
  <2> SUFFICES ASSUME d.kind = "public" PROVE PageWork(d)
    OBVIOUS
  <2>1. d.phase = "robots" /\ d.rows = Asked
    BY <1>1, <1>2
  <2> QED BY <1>2, <2>1 DEF PageWork, HasNorm, NormPhases
<1>7. d.from \in Nat /\ d.from <= feed /\ d.to \in Nat
  BY <1>2 DEF Shape
<1>8. d.phase \notin Resting \cup {"store", "found"}
  BY <1>1, <1>2 DEF Resting
<1>9. IsList(d.rows) /\ IsList(d.todo) /\ IsList(d.results) /\ d.cursor \in Nat
  BY <1>2, <1>3, EmptyList
<1> QED BY <1>2, <1>4, <1>5, <1>6, <1>7, <1>8, <1>9 DEF Well

LEMMA StartIs ==
  ASSUME Shape, NEW p \in Procs, Starts(p)
  PROVE  \E d \in FreshForms :
           /\ ~Active(p)
           /\ cmd' = [q \in Procs |-> IF q = p THEN d ELSE cmd[q]]
           /\ raced' = raced \cup {k \in {d.kind} : \E q \in Procs : Active(q) /\ cmd[q].kind = k}
           /\ UNCHANGED <<store, feed, mix>>
<1>1. PICK kind, phase, rows :
        /\ Begin(p, kind, phase, rows)
        /\ \/ kind = "match" /\ phase = "page" /\ rows = << >>
           \/ kind = "draft" /\ phase = "pro" /\ rows = << >>
           \/ kind = "roster" /\ phase = "roster" /\ rows = Tournaments
           \/ kind = "public" /\ phase = "robots" /\ rows = Asked
  BY DEF Starts, StartMatches, StartDrafts, StartRosters
<1> DEFINE d == Fresh(kind, phase, rows)
<1>2. d \in FreshForms
  BY <1>1 DEF FreshForms
<1>3. d.kind = kind
  BY DEF Fresh, Idle
<1>4. cmd' = [cmd EXCEPT ![p] = d]
  BY <1>1 DEF Begin, Fresh
<1> HIDE DEF d
<1>5. cmd' = [q \in Procs |-> IF q = p THEN d ELSE cmd[q]]
  BY <1>4 DEF Shape
<1> QED BY <1>1, <1>2, <1>3, <1>5 DEF Begin

LEMMA DedupedRows ==
  ASSUME NEW rows, IsList(rows)
  PROVE  /\ IsList(Deduped(rows))
         /\ Range(Deduped(rows)) = {ToMatch(rows[i]) : i \in FirstOfId(rows)}
<1> DEFINE kept == Listed(rows, FirstOfId(rows))
<1>1. FirstOfId(rows) \in SUBSET DOMAIN rows
  BY DEF FirstOfId
<1>2. IsList(kept) /\ Range(kept) = {rows[i] : i \in FirstOfId(rows)}
  BY <1>1, ListedEntries
<1> HIDE DEF kept
<1>3. Len(kept) \in Nat /\ DOMAIN kept = 1 .. Len(kept)
  BY <1>2, ListBasics
<1> DEFINE result == [i \in 1 .. Len(kept) |-> ToMatch(kept[i])]
<1>4. Deduped(rows) = result
  BY <1>3 DEF Deduped, kept
<1>5. result \in Seq({ToMatch(kept[i]) : i \in 1 .. Len(kept)})
  BY <1>3
<1>6. Range(result) = {ToMatch(kept[i]) : i \in DOMAIN kept}
  BY <1>3 DEF Range
<1>7. {ToMatch(kept[i]) : i \in DOMAIN kept} = {ToMatch(r) : r \in Range(kept)}
  BY DEF Range
<1>8. {ToMatch(r) : r \in Range(kept)} = {ToMatch(rows[i]) : i \in FirstOfId(rows)}
  BY <1>2
<1> HIDE DEF result
<1> QED BY <1>4, <1>5, <1>6, <1>7, <1>8, ListOf

LEMMA FeedIsListed ==
  ASSUME Shape
  PROVE  /\ IsList(Feed[feed].past) /\ IsList(Feed[feed].pro)
         /\ \A r \in Range(Feed[feed].pro) : r.id \in Nat \ {0}
         /\ \A t \in DOMAIN Feed[feed].rosters : IsList(Feed[feed].rosters[t])
BY SyncAssumption DEF Shape

(* The outcomes of a page of past matches.                                 *)
LEMMA FetchPageIs ==
  ASSUME Shape, NEW p \in Procs, FetchPage(p), cmd[p].kind = "match"
  PROVE  LET c == cmd[p]
             d == cmd'[p]
             page == Page(Feed[feed].past, c.cursor + 1)
             all == c.rows \o page
         IN  /\ Own(p) /\ Well(d, feed) /\ c.phase = "page" /\ UNCHANGED store
             /\ \/ d.phase = "failed"
                \/ /\ Len(page) < PageSize /\ d.phase = "store" /\ d.todo = Deduped(all)
                \/ d.phase = "page" /\ d.rows = all /\ d.cursor = c.cursor + 1
<1> DEFINE c == cmd[p]
           page == Page(Feed[feed].past, c.cursor + 1)
           all == c.rows \o page
<1>1. Well(c, feed) /\ DOMAIN c = Fields /\ c.phase = "page" /\ c.cursor \in Nat /\ IsList(c.rows)
  BY DEF Shape, Well, FetchPage, Resting
<1>2. IsList(page)
  BY <1>1, FeedIsListed, PageOf
<1>3. IsList(all) /\ IsList(Deduped(all))
  BY <1>1, <1>2, Joined, DedupedRows
<1>4. PICK d : /\ Set(p, d)
               /\ \/ d = [c EXCEPT !.phase = "failed"]
                  \/ /\ Len(page) < PageSize
                     /\ d = [c EXCEPT !.phase = "store", !.rows = << >>, !.todo = Deduped(all)]
                  \/ d = [c EXCEPT !.rows = all, !.cursor = c.cursor + 1]
  BY DEF FetchPage
<1>5. UNCHANGED <<feed, raced, store>> /\ Active(p)
  BY <1>1 DEF FetchPage, Active
<1> HIDE DEF page, all
<1>6. d.kind = "match" /\ d.from = c.from /\ d.to = c.to /\ d.results = c.results /\ DOMAIN d = Fields
      /\ c.kind = "match"
  BY <1>1, <1>4 DEF Fields
<1>7. Own(p) /\ cmd'[p] = d
  BY <1>4, <1>5, <1>6, OwnStep
<1>8. \/ d.phase = "failed" /\ d.todo = c.todo /\ d.rows = c.rows
      \/ /\ Len(page) < PageSize /\ d.phase = "store" /\ d.todo = Deduped(all) /\ d.rows = << >>
         /\ d.cursor = c.cursor
      \/ d.phase = "page" /\ d.rows = all /\ d.cursor = c.cursor + 1 /\ d.todo = c.todo
  BY <1>1, <1>4 DEF Fields
<1>9. Well(d, feed)
  <2>1. IsList(d.rows) /\ IsList(d.todo)
    BY <1>1, <1>3, <1>8, EmptyList DEF Well
  <2>2. d.phase \notin Resting \cup {"pro"} => d.cursor \in Nat
    BY <1>1, <1>8 DEF Resting
  <2>3. PhaseFits(d) /\ d.phase # "found"
    BY <1>6, <1>8 DEF PhaseFits, Resting
  <2>4. d.kind # "draft" /\ d.kind # "public"
    BY <1>6
  <2>5. d.from \in Nat /\ d.to \in Nat /\ d.from <= feed /\ IsList(d.results)
    BY <1>1, <1>6 DEF Well
  <2> QED BY <1>6, <2>1, <2>2, <2>3, <2>4, <2>5 DEF Well
<1> QED BY <1>1, <1>5, <1>7, <1>8, <1>9 DEF page, all

(* The steps that end a command.                                           *)
LEMMA EndIs ==
  ASSUME Shape, NEW p \in Procs, Refused(p) \/ Finish(p) \/ Die(p) \/ InsertedBefore(p)
  PROVE  LET c == cmd[p]
             d == cmd'[p]
         IN  /\ Own(p) /\ Well(d, feed) /\ UNCHANGED store
             /\ d.rows = c.rows /\ d.todo = c.todo /\ d.results = c.results
             /\ \/ d.phase = "failed"
                \/ c.phase = "store" /\ c.todo = << >> /\ d.phase = "done" /\ d.to = feed
<1> DEFINE c == cmd[p]
<1>1. Well(c, feed) /\ DOMAIN c = Fields
  BY DEF Shape, Well
<1>2. PICK d : /\ Set(p, d)
               /\ \/ d = [c EXCEPT !.phase = "failed"]
                  \/ /\ c.phase = "store" /\ c.todo = << >>
                     /\ d = [c EXCEPT !.phase = "done", !.to = feed]
  BY DEF Refused, Finish, Die, InsertedBefore
<1>3. UNCHANGED <<feed, raced, store>> /\ Active(p)
  BY DEF Refused, Finish, Die, InsertedBefore, Active, Quiet
<1>4. /\ d.kind = c.kind /\ d.from = c.from /\ d.rows = c.rows /\ d.todo = c.todo
      /\ d.results = c.results /\ DOMAIN d = Fields /\ d.to \in {c.to, feed}
      /\ \/ d.phase = "failed"
         \/ c.phase = "store" /\ c.todo = << >> /\ d.phase = "done" /\ d.to = feed
  BY <1>1, <1>2 DEF Fields
<1>5. Own(p) /\ cmd'[p] = d
  BY <1>2, <1>3, <1>4, OwnStep
<1>6. d.to \in Nat /\ IsList(d.todo) /\ d.phase \in Resting
  BY <1>1, <1>4 DEF Well, Shape, Resting
<1>7. Well(d, feed)
  BY <1>1, <1>4, <1>6, EndedIsWell
<1> QED BY <1>3, <1>4, <1>5, <1>7

(* The read before a row is stored.                                        *)
LEMMA LookupIs ==
  ASSUME Shape, NEW p \in Procs, Lookup(p)
  PROVE  LET c == cmd[p]
             d == cmd'[p]
         IN  /\ Own(p) /\ Well(d, feed) /\ UNCHANGED store
             /\ c.phase = "store" /\ c.todo # << >> /\ d.phase = "found"
             /\ d.rows = c.rows /\ d.todo = c.todo /\ d.results = c.results
             /\ d.cursor = c.cursor /\ d.seen = RowsOf(c)
<1> DEFINE c == cmd[p]
           d == [c EXCEPT !.phase = "found", !.seen = RowsOf(c)]
<1>1. Well(c, feed) /\ DOMAIN c = Fields /\ c.phase = "store" /\ c.todo # << >>
  BY DEF Shape, Well, Lookup
<1>2. UNCHANGED <<feed, raced, store>> /\ Active(p) /\ Set(p, d)
  BY <1>1 DEF Lookup, Active
<1>3. /\ d.kind = c.kind /\ d.from = c.from /\ d.to = c.to /\ d.rows = c.rows /\ d.todo = c.todo
      /\ d.cursor = c.cursor /\ d.results = c.results /\ DOMAIN d = Fields
      /\ d.phase = "found" /\ d.seen = RowsOf(c)
  BY <1>1 DEF Fields
<1> HIDE DEF d
<1>4. Own(p) /\ cmd'[p] = d
  BY <1>2, <1>3, OwnStep
<1>5. Well(d, feed)
  <2>1. PhaseFits(d)
    BY <1>1, <1>3 DEF Well, PhaseFits, Resting, PagePhases, NormPhases
  <2>2. d.kind = "draft" => DraftIds(d)
    <3> SUFFICES ASSUME d.kind = "draft" PROVE DraftIds(d)
      OBVIOUS
    <3>1. DraftIds(c)
      BY <1>1, <1>3 DEF Well
    <3> QED BY <1>1, <1>3, <3>1 DEF DraftIds, Resting
  <2>3. d.kind = "public" => PageWork(d)
    <3> SUFFICES ASSUME d.kind = "public" PROVE PageWork(d)
      OBVIOUS
    <3>1. PageWork(c)
      BY <1>1, <1>3 DEF Well
    <3>2. HasNorm(c) /\ Match(d) = Match(c)
      BY <1>1, <1>3 DEF HasNorm, Match
    <3> QED BY <1>3, <3>1, <3>2 DEF PageWork
  <2>4. d.cursor \in Nat
    BY <1>1, <1>3 DEF Well, Resting
  <2> QED BY <1>1, <1>3, <2>1, <2>2, <2>3, <2>4 DEF Well
<1> QED BY <1>1, <1>2, <1>3, <1>4, <1>5

(* A record was stored; the next one follows.                              *)
LEMMA StoredIs ==
  ASSUME Shape, NEW p \in Procs,
         StoreMatch(p) \/ StoreGame(p) \/ StoreRosterRenamed(p) \/ StoreRoster(p)
  PROVE  LET c == cmd[p]
             d == cmd'[p]
         IN  /\ Own(p) /\ Well(d, feed)
             /\ c.todo # << >> /\ d.phase = "store" /\ d.todo = Tail(c.todo)
             /\ d.rows = c.rows /\ d.cursor = c.cursor
<1> DEFINE c == cmd[p]
           d == Stored(c)
<1>1. Well(c, feed) /\ DOMAIN c = Fields
  BY DEF Shape, Well
<1>2. /\ Set(p, d) /\ c.phase \in {"store", "found"} /\ UNCHANGED <<feed, raced>>
      /\ c.kind \in {"match", "draft", "roster"} /\ c.todo # << >>
  BY <1>1 DEF Well, StoreMatch, StoreGame, StoreRosterRenamed, StoreRoster
<1>3. /\ d.kind = c.kind /\ d.from = c.from /\ d.to = c.to /\ d.rows = c.rows
      /\ d.todo = Tail(c.todo) /\ d.cursor = c.cursor /\ d.results = c.results
      /\ DOMAIN d = Fields /\ d.phase = "store"
  BY <1>1 DEF Fields, Stored
<1> HIDE DEF d
<1>4. Active(p)
  BY <1>2 DEF Active
<1>5. Own(p) /\ cmd'[p] = d
  BY <1>2, <1>3, <1>4, OwnStep
<1>6. IsList(Tail(c.todo)) /\ Range(Tail(c.todo)) \subseteq Range(c.todo)
  BY <1>1, <1>2, TailOf DEF Well
<1>7. Well(d, feed)
  <2>1. PhaseFits(d) /\ d.kind # "public"
    BY <1>2, <1>3 DEF PhaseFits
  <2>2. d.kind = "draft" => DraftIds(d)
    <3> SUFFICES ASSUME d.kind = "draft" PROVE DraftIds(d)
      OBVIOUS
    <3>1. DraftIds(c)
      BY <1>1, <1>3 DEF Well
    <3> QED BY <1>2, <1>3, <1>6, <3>1 DEF DraftIds, Resting
  <2>3. d.cursor \in Nat
    BY <1>1, <1>2, <1>3 DEF Well, Resting
  <2> QED BY <1>1, <1>3, <1>6, <2>1, <2>2, <2>3 DEF Well
<1> QED BY <1>2, <1>3, <1>5, <1>7

(* The draft sync collects games with positive ids.                        *)
LEMMA FetchProPageIs ==
  ASSUME Shape, NEW p \in Procs, FetchProPage(p), cmd[p].kind = "draft"
  PROVE  /\ Own(p) /\ Well(cmd'[p], feed) /\ UNCHANGED store
         /\ cmd'[p].todo = cmd[p].todo /\ cmd'[p].phase \in {"pro", "detail"}
<1> DEFINE c == cmd[p]
           all == Feed[feed].pro
           older == {i \in DOMAIN all : c.cursor = 0 \/ all[i].id < c.cursor}
           page == Page(Listed(all, older), 1)
           inside == {i \in DOMAIN page : InPeriod(page[i])}
           rows == c.rows \o Listed(page, inside)
<1>1. Well(c, feed) /\ DOMAIN c = Fields /\ c.phase = "pro" /\ IsList(c.rows)
      /\ c.kind = "draft" /\ DraftIds(c)
  BY DEF Shape, Well, FetchProPage
<1>2. PICK d, next : /\ Set(p, d)
               /\ \/ d = [c EXCEPT !.phase = "detail", !.rows = rows, !.cursor = 0]
                  \/ d = [c EXCEPT !.rows = rows, !.cursor = next]
  BY DEF FetchProPage
<1>3. UNCHANGED <<feed, raced, store>> /\ Active(p)
  BY <1>1 DEF FetchProPage, Active
<1>4. IsList(all) /\ \A r \in Range(all) : r.id \in Nat \ {0}
  BY FeedIsListed
<1>5. IsList(Listed(all, older)) /\ Range(Listed(all, older)) \subseteq Range(all)
  <2>1. \A i \in DOMAIN all : all[i] \in Range(all)
    BY DEF Range
  <2>2. older \in SUBSET DOMAIN all
    OBVIOUS
  <2> HIDE DEF all, older
  <2> QED BY <1>4, <2>1, <2>2, ListedEntries
<1>6. IsList(page) /\ Range(page) \subseteq Range(all)
  <2> HIDE DEF all, older
  <2>1. \A n \in Nat : Range(Page(Listed(all, older), n + 1)) \subseteq Range(Listed(all, older))
                       /\ IsList(Page(Listed(all, older), n + 1))
    BY <1>5, PageOf
  <2>2. 0 + 1 = 1 /\ 0 \in Nat
    OBVIOUS
  <2> QED BY <1>5, <2>1, <2>2
<1> HIDE DEF all, older, page
<1>7. IsList(Listed(page, inside)) /\ Range(Listed(page, inside)) \subseteq Range(page)
  <2>1. inside \in SUBSET DOMAIN page
    OBVIOUS
  <2>2. \A i \in DOMAIN page : page[i] \in Range(page)
    BY DEF Range
  <2> HIDE DEF inside
  <2> QED BY <1>6, <2>1, <2>2, ListedEntries
<1> HIDE DEF inside
<1>8. IsList(rows) /\ \A r \in Range(rows) : r.id \in Nat \ {0}
  <2>1. IsList(rows) /\ Range(rows) = Range(c.rows) \cup Range(Listed(page, inside))
    BY <1>1, <1>7, Joined
  <2>2. \A r \in Range(c.rows) : r.id \in Nat \ {0}
    BY <1>1 DEF DraftIds
  <2> QED BY <1>4, <1>6, <1>7, <2>1, <2>2
<1> HIDE DEF rows
<1>9. /\ d.kind = "draft" /\ d.from = c.from /\ d.to = c.to /\ d.rows = rows /\ d.todo = c.todo
      /\ d.results = c.results /\ DOMAIN d = Fields
      /\ (d.phase = "detail" /\ d.cursor = 0) \/ d.phase = "pro"
  BY <1>1, <1>2 DEF Fields
<1>10. Own(p) /\ cmd'[p] = d
  BY <1>1, <1>2, <1>3, <1>9, OwnStep
<1>11. Well(d, feed)
  <2>1. PhaseFits(d)
    BY <1>9 DEF PhaseFits
  <2>2. DraftIds(d)
    BY <1>1, <1>8, <1>9 DEF DraftIds, Resting
  <2>3. d.phase \notin Resting \cup {"pro"} => d.cursor \in Nat
    BY <1>9
  <2>4. d.phase # "found" /\ d.kind # "public"
    BY <1>9
  <2> QED BY <1>1, <1>8, <1>9, <2>1, <2>2, <2>3, <2>4 DEF Well
<1> QED BY <1>3, <1>9, <1>10, <1>11

LEMMA FetchDetailIs ==
  ASSUME Shape, NEW p \in Procs, FetchDetail(p), cmd[p].kind = "draft"
  PROVE  /\ Own(p) /\ Well(cmd'[p], feed) /\ UNCHANGED store /\ cmd'[p].phase = "detail"
         /\ cmd[p].phase = "detail"
         /\ \/ cmd'[p].todo = cmd[p].todo
            \/ \E id, detail :
                  cmd'[p].todo = Append(cmd[p].todo, [game |-> ToGame(id, detail),
                                                      actions |-> DraftActions(detail.picks)])
<1> DEFINE c == cmd[p]
           id == c.rows[c.cursor + 1].id
           detail == Feed[feed].detail[id]
           x == [game |-> ToGame(id, detail), actions |-> DraftActions(detail.picks)]
           todo == IF detail.start = NoTime THEN c.todo ELSE Append(c.todo, x)
           d == [c EXCEPT !.cursor = c.cursor + 1, !.todo = todo]
<1>1. /\ Well(c, feed) /\ DOMAIN c = Fields /\ c.phase = "detail" /\ IsList(c.rows)
      /\ c.kind = "draft" /\ DraftIds(c) /\ IsList(c.todo) /\ c.cursor \in Nat
      /\ c.cursor < Len(c.rows)
  BY DEF Shape, Well, FetchDetail, Resting
<1>2. UNCHANGED <<feed, raced, store>> /\ Active(p) /\ Set(p, d)
  BY <1>1 DEF FetchDetail, Active
<1>3. x.game.id = id
  BY DEF ToGame
<1>4. id \in Nat \ {0}
  <2>1. c.cursor + 1 \in DOMAIN c.rows
    BY <1>1, ListBasics
  <2>2. c.rows[c.cursor + 1] \in Range(c.rows)
    BY <2>1 DEF Range
  <2> QED BY <1>1, <2>2 DEF DraftIds
<1>5. /\ IsList(todo) /\ \A y \in Range(todo) : y.game.id \in Nat \ {0}
  <2>1. \A y \in Range(c.todo) : y.game.id \in Nat \ {0}
    BY <1>1 DEF DraftIds, Resting
  <2> HIDE DEF x, id, detail
  <2>2. IsList(Append(c.todo, x)) /\ Range(Append(c.todo, x)) = Range(c.todo) \cup {x}
    BY <1>1, Appended
  <2> QED BY <1>1, <1>3, <1>4, <2>1, <2>2
<1>6. todo = c.todo \/ \E i, e : todo = Append(c.todo, [game |-> ToGame(i, e),
                                                     actions |-> DraftActions(e.picks)])
  OBVIOUS
<1> HIDE DEF todo
<1>7. /\ d.kind = "draft" /\ d.from = c.from /\ d.to = c.to /\ d.rows = c.rows /\ d.todo = todo
      /\ d.cursor = c.cursor + 1 /\ d.results = c.results /\ DOMAIN d = Fields
      /\ d.phase = "detail"
  BY <1>1 DEF Fields
<1> HIDE DEF d
<1>8. Own(p) /\ cmd'[p] = d
  BY <1>1, <1>2, <1>7, OwnStep
<1>9. Well(d, feed)
  <2>1. PhaseFits(d)
    BY <1>7 DEF PhaseFits
  <2>2. DraftIds(d)
    BY <1>1, <1>5, <1>7 DEF DraftIds, Resting
  <2>3. d.cursor \in Nat
    BY <1>1, <1>7
  <2>4. d.phase # "found" /\ d.kind # "public"
    BY <1>7
  <2> QED BY <1>1, <1>5, <1>7, <2>1, <2>2, <2>3, <2>4 DEF Well
<1> QED BY <1>1, <1>2, <1>6, <1>7, <1>8, <1>9

LEMMA SnapshotsAreListed ==
  ASSUME NEW tour, NEW items, NEW at, IsList(items)
  PROVE  /\ IsList(Snapshots(tour, items, at))
         /\ \A s \in Range(Snapshots(tour, items, at)) : s.observed = at
<1> DEFINE places == {i \in DOMAIN items : UsableRoster(items[i])}
           usable == Listed(items, places)
           result == [i \in 1 .. Len(usable) |-> ToSnapshot(tour, usable[i], at)]
<1>1. IsList(usable)
  <2>1. places \in SUBSET DOMAIN items
    OBVIOUS
  <2> HIDE DEF places
  <2> QED BY <2>1, ListedEntries
<1>2. Len(usable) \in Nat /\ DOMAIN usable = 1 .. Len(usable)
  <2> HIDE DEF usable
  <2> QED BY <1>1, ListBasics
<1>3. Snapshots(tour, items, at) = result
  BY <1>2 DEF Snapshots
<1> HIDE DEF usable
<1>4. result \in Seq({ToSnapshot(tour, usable[i], at) : i \in 1 .. Len(usable)})
  BY <1>2
<1>5. \A i \in DOMAIN result : result[i].observed = at
  BY DEF ToSnapshot
<1>6. \A s \in Range(result) : s.observed = at
  BY <1>5 DEF Range
<1> HIDE DEF result
<1> QED BY <1>3, <1>4, <1>6, ListOf

LEMMA FetchRosterIs ==
  ASSUME Shape, NEW p \in Procs, FetchRoster(p), cmd[p].kind = "roster"
  PROVE  LET c == cmd[p]
             d == cmd'[p]
             tour == c.rows[c.cursor + 1]
             new == Snapshots(tour, Feed[feed].rosters[tour], c.from)
         IN  /\ Own(p) /\ Well(d, feed) /\ UNCHANGED store /\ c.phase = "roster"
             /\ d.phase = "roster" /\ d.rows = c.rows /\ d.cursor = c.cursor + 1
             /\ IsList(new) /\ d.todo = c.todo \o new
             /\ \A s \in Range(new) : s.observed = c.from
<1> DEFINE c == cmd[p]
           tour == c.rows[c.cursor + 1]
           new == Snapshots(tour, Feed[feed].rosters[tour], c.from)
           d == [c EXCEPT !.cursor = c.cursor + 1, !.todo = c.todo \o new]
<1>1. /\ Well(c, feed) /\ DOMAIN c = Fields /\ c.phase = "roster" /\ c.kind = "roster"
      /\ IsList(c.todo) /\ c.cursor \in Nat /\ tour \in DOMAIN Feed[feed].rosters
  BY DEF Shape, Well, FetchRoster, Resting
<1>2. UNCHANGED <<feed, raced, store>> /\ Active(p) /\ Set(p, d)
  BY <1>1 DEF FetchRoster, Active
<1>3. IsList(new) /\ \A s \in Range(new) : s.observed = c.from
  <2>1. IsList(Feed[feed].rosters[tour])
    BY <1>1, FeedIsListed
  <2> QED BY <2>1, SnapshotsAreListed
<1> HIDE DEF new
<1>4. IsList(c.todo \o new)
  BY <1>1, <1>3, Joined
<1>5. /\ d.kind = "roster" /\ d.from = c.from /\ d.to = c.to /\ d.rows = c.rows
      /\ d.todo = c.todo \o new /\ d.cursor = c.cursor + 1 /\ d.results = c.results
      /\ DOMAIN d = Fields /\ d.phase = "roster"
  BY <1>1 DEF Fields
<1> HIDE DEF d
<1>6. Own(p) /\ cmd'[p] = d
  BY <1>1, <1>2, <1>5, OwnStep
<1>7. Well(d, feed)
  <2>1. PhaseFits(d)
    BY <1>5 DEF PhaseFits
  <2>2. d.cursor \in Nat
    BY <1>1, <1>5
  <2>3. d.phase # "found" /\ d.kind # "public" /\ d.kind # "draft"
    BY <1>5
  <2> QED BY <1>1, <1>4, <1>5, <2>1, <2>2, <2>3 DEF Well
<1> QED BY <1>1, <1>2, <1>3, <1>5, <1>6, <1>7 DEF new

LEMMA CollectedIs ==
  ASSUME Shape, NEW p \in Procs, Collected(p)
  PROVE  LET c == cmd[p]
             d == cmd'[p]
         IN  /\ Own(p) /\ Well(d, feed) /\ UNCHANGED store
             /\ c.phase \in {"detail", "roster"} /\ c.cursor = Len(c.rows)
             /\ d.phase = "store" /\ d.rows = c.rows /\ d.cursor = c.cursor /\ d.todo = c.todo
<1> DEFINE c == cmd[p]
           d == [c EXCEPT !.phase = "store"]
<1>1. /\ Well(c, feed) /\ DOMAIN c = Fields /\ c.phase \in {"detail", "roster"}
      /\ c.cursor \in Nat /\ PhaseFits(c)
  BY DEF Shape, Well, Collected, Resting
<1>2. UNCHANGED <<feed, raced, store>> /\ Active(p) /\ Set(p, d) /\ c.cursor = Len(c.rows)
  BY <1>1 DEF Collected, Active
<1>3. /\ d.kind = c.kind /\ d.from = c.from /\ d.to = c.to /\ d.rows = c.rows /\ d.todo = c.todo
      /\ d.cursor = c.cursor /\ d.results = c.results /\ DOMAIN d = Fields /\ d.phase = "store"
  BY <1>1 DEF Fields
<1> HIDE DEF d
<1>4. Own(p) /\ cmd'[p] = d
  BY <1>2, <1>3, OwnStep
<1>5. Well(d, feed)
  <2>1. PhaseFits(d) /\ d.kind # "public"
    BY <1>1, <1>3 DEF PhaseFits, Resting, PagePhases, NormPhases
  <2>2. d.kind = "draft" => DraftIds(d)
    BY <1>1, <1>3 DEF Well, DraftIds, Resting
  <2> QED BY <1>1, <1>3, <2>1, <2>2 DEF Well
<1> QED BY <1>1, <1>2, <1>3, <1>4, <1>5
-----------------------------------------------------------------------------
(* The steps of a page sync keep the shape.                                *)
Turned(c, d) ==
  d.rows = c.rows /\ d.cursor = c.cursor /\ d.results = c.results /\ d.seen = c.seen

LEMMA NormMet ==
  ASSUME Shape, NEW p \in Procs, cmd[p].kind = "public", HasNorm(cmd[p])
  PROVE  LET c == cmd[p]
             n == Head(c.todo)
         IN  /\ c.todo = << n >> /\ IsNorm(n, Match(c)) /\ c.todo # << >>
             /\ c.cursor \in Nat /\ c.cursor < Len(Asked) /\ c.rows = Asked
             /\ Match(c) \in Nat \ {0} /\ n.game.id \in Int /\ n.game.id < 0
<1> DEFINE c == cmd[p]
<1>1. Well(c, feed) /\ PageWork(c)
  BY DEF Shape, Well
<1>2. PICK n : c.todo = << n >> /\ IsNorm(n, Match(c))
  BY <1>1 DEF PageWork
<1>3. Head(c.todo) = n /\ c.todo # << >>
  BY <1>2
<1>4. c.cursor \in Nat /\ c.cursor < Len(Asked) /\ c.rows = Asked
  BY <1>1 DEF PageWork, HasNorm, Well, Resting, NormPhases
<1>5. Match(c) \in Nat \ {0}
  <2>1. c.cursor + 1 \in 1 .. Len(Asked)
    BY <1>4, AskedIsListed
  <2>2. Asked \in Seq(Nat \ {0})
    BY PublicAssumption
  <2> QED BY <1>4, <2>1, <2>2 DEF Match
<1>6. n.game.id \in Int /\ n.game.id < 0
  BY <1>2, <1>5 DEF IsNorm, GameId
<1> QED BY <1>2, <1>3, <1>4, <1>5, <1>6

LEMMA ReportedIs ==
  ASSUME Shape, NEW p \in Procs, NEW result, cmd[p].kind = "public",
         cmd[p].phase \in {"fetch", "links"} \/ HasNorm(cmd[p]), UNCHANGED <<feed, raced>>,
         Set(p, Reported(cmd[p], result))
  PROVE  LET c == cmd[p]
             d == cmd'[p]
         IN  /\ Own(p) /\ Well(d, feed) /\ d.phase \in {"store", "fetch"} /\ d.todo = << >>
             /\ Range(d.results) = Range(c.results) \cup {result}
<1> DEFINE c == cmd[p]
           d == Reported(c, result)
<1>1. /\ Well(c, feed) /\ DOMAIN c = Fields /\ PageWork(c) /\ c.kind = "public"
      /\ IsList(c.results) /\ c.cursor \in Nat /\ c.phase \notin Resting
  BY DEF Shape, Well, Resting, HasNorm, NormPhases
<1>2. c.cursor < Len(Asked) /\ c.rows = Asked
  BY <1>1 DEF PageWork
<1>3. Active(p)
  BY <1>1 DEF Active, Resting
<1>4. /\ d.kind = c.kind /\ d.from = c.from /\ d.to = c.to /\ d.rows = c.rows /\ d.todo = << >>
      /\ d.cursor = c.cursor + 1 /\ d.results = Append(c.results, result) /\ DOMAIN d = Fields
      /\ d.phase = IF c.cursor + 1 = Len(c.rows) THEN "store" ELSE "fetch"
  BY <1>1 DEF Fields, Reported
<1> HIDE DEF d
<1>5. Own(p) /\ cmd'[p] = d
  BY <1>3, <1>4, OwnStep DEF d
<1>6. IsList(d.results) /\ Range(d.results) = Range(c.results) \cup {result}
  BY <1>1, <1>4, Appended
<1>7. d.phase \in {"store", "fetch"} /\ ~HasNorm(d) /\ d.cursor \in Nat
      /\ (d.phase = "fetch" => d.cursor < Len(Asked))
  BY <1>1, <1>2, <1>4, AskedIsListed DEF HasNorm, NormPhases
<1>8. Well(d, feed)
  <2>1. PhaseFits(d)
    BY <1>1, <1>4, <1>7 DEF PhaseFits, PagePhases
  <2>2. PageWork(d)
    BY <1>2, <1>4, <1>7 DEF PageWork
  <2>3. d.phase # "found" /\ d.kind # "draft"
    BY <1>1, <1>4, <1>7
  <2> QED BY <1>1, <1>4, <1>6, <1>7, <2>1, <2>2, <2>3, EmptyList DEF Well
<1> QED BY <1>4, <1>5, <1>6, <1>7, <1>8

(* The match is worked on.                                                 *)
LEMMA TurnedIsWell ==
  ASSUME Shape, NEW p \in Procs, cmd[p].kind = "public", cmd[p].phase = "links" \/ HasNorm(cmd[p]),
         NEW d, DOMAIN d = Fields, d.kind = "public", d.from = cmd[p].from, d.to = cmd[p].to,
         Turned(cmd[p], d), NEW n, d.todo = << n >>, IsNorm(n, Match(cmd[p])),
         HasNorm(d), Set(p, d), UNCHANGED <<feed, raced>>
  PROVE  Own(p) /\ cmd'[p] = d /\ Well(d, feed)
<1> DEFINE c == cmd[p]
<1>1. /\ Well(c, feed) /\ DOMAIN c = Fields /\ PageWork(c) /\ c.kind = "public"
      /\ IsList(c.results) /\ c.cursor \in Nat /\ c.phase \notin Resting
  BY DEF Shape, Well, Resting, HasNorm, NormPhases
<1>2. c.cursor < Len(Asked) /\ c.rows = Asked
  BY <1>1 DEF PageWork
<1>3. Own(p) /\ cmd'[p] = d
  <2>1. Active(p)
    BY <1>1 DEF Active, Resting
  <2> QED BY <1>1, <2>1, OwnStep
<1>4. IsList(d.todo) /\ d.todo # << >>
  <2>1. << n >> \in Seq({n}) /\ << n >> # << >>
    OBVIOUS
  <2> QED BY <2>1, ListOf
<1>5. PhaseFits(d) /\ d.phase \notin {"robots", "fetch", "links"} \cup Resting
  BY DEF PhaseFits, HasNorm, PagePhases, NormPhases, Resting
<1>6. PageWork(d)
  <2>1. Match(d) = Match(c)
    BY DEF Match, Turned
  <2> QED BY <1>2, <1>5, <2>1 DEF PageWork, Turned
<1>7. d.rows = c.rows /\ d.cursor = c.cursor /\ d.results = c.results
  BY DEF Turned
<1> QED BY <1>1, <1>3, <1>4, <1>5, <1>6, <1>7 DEF Well

(* The steps up to a page that is understood, and the one that gives a     *)
(* match up for a contradiction, store nothing and report nothing stored.  *)
EarlyStep(p) ==
  \/ CheckRobots(p) \/ PageBusy(p) \/ FetchPublicPage(p) \/ Understand(p) \/ StorageConflict(p)
NothingReported(c, d) ==
  \A r \in Range(d.results) : r \in Range(c.results) \/ r.outcome \notin StoredOutcomes
IsUnderstood(c, d) ==
  /\ d.phase = "existing" /\ Match(d) = Match(c)
  /\ \E page : Acceptable(page) /\ d.todo = << Normalized(page, Match(c)) >>

LEMMA GaveUp ==
  ASSUME Shape, NEW p \in Procs, NEW outcome, outcome \notin StoredOutcomes, cmd[p].kind = "public",
         cmd[p].phase \in {"fetch", "links"} \/ HasNorm(cmd[p]), UNCHANGED <<feed, raced>>,
         Set(p, Reported(cmd[p], Result(Match(cmd[p]), outcome)))
  PROVE  /\ Own(p) /\ Well(cmd'[p], feed) /\ NothingReported(cmd[p], cmd'[p]) /\ ~HasNorm(cmd'[p])
<1> DEFINE result == Result(Match(cmd[p]), outcome)
<1>1. result.outcome = outcome
  BY DEF Result
<1> HIDE DEF result
<1>2. LET d == cmd'[p]
      IN  /\ Own(p) /\ Well(d, feed) /\ d.phase \in {"store", "fetch"} /\ d.todo = << >>
          /\ Range(d.results) = Range(cmd[p].results) \cup {result}
  BY ReportedIs DEF result
<1> QED BY <1>1, <1>2 DEF NothingReported, HasNorm, NormPhases

LEMMA CheckRobotsIs ==
  ASSUME Shape, NEW p \in Procs, CheckRobots(p), cmd[p].kind = "public"
  PROVE  /\ Own(p) /\ Well(cmd'[p], feed) /\ NothingReported(cmd[p], cmd'[p]) /\ ~HasNorm(cmd'[p])
<1> DEFINE c == cmd[p]
           skipped == [i \in DOMAIN Asked |-> Result(Asked[i], "skipped")]
<1>1. /\ Well(c, feed) /\ DOMAIN c = Fields /\ PageWork(c) /\ c.phase = "robots"
      /\ c.kind = "public" /\ c.cursor = 0 /\ c.todo = << >> /\ c.rows = Asked /\ IsList(c.results)
  BY DEF Shape, Well, CheckRobots, PageWork
<1>2. PICK d : /\ Set(p, d)
               /\ \/ d = [c EXCEPT !.phase = "store", !.results = skipped]
                  \/ d = [c EXCEPT !.phase = "fetch"]
  BY DEF CheckRobots
<1>3. IsList(skipped)
  <2>1. Len(Asked) \in Nat /\ DOMAIN Asked = 1 .. Len(Asked)
    BY AskedIsListed, ListBasics
  <2>2. skipped = [i \in 1 .. Len(Asked) |-> Result(Asked[i], "skipped")]
    BY <2>1
  <2>3. skipped \in Seq({Result(Asked[i], "skipped") : i \in 1 .. Len(Asked)})
    BY <2>1, <2>2
  <2> QED BY <2>3, ListOf
<1>4. \A r \in Range(skipped) : r.outcome \notin StoredOutcomes
  <2>1. \A i \in DOMAIN skipped : skipped[i].outcome = "skipped"
    BY DEF Result
  <2> QED BY <2>1 DEF Range, StoredOutcomes
<1> HIDE DEF skipped
<1>5. /\ d.kind = c.kind /\ d.from = c.from /\ d.to = c.to /\ d.rows = c.rows /\ d.todo = << >>
      /\ d.cursor = 0 /\ DOMAIN d = Fields
      /\ \/ d.phase = "store" /\ d.results = skipped
         \/ d.phase = "fetch" /\ d.results = c.results
  BY <1>1, <1>2 DEF Fields
<1>6. Own(p) /\ cmd'[p] = d
  <2>1. Active(p) /\ UNCHANGED <<feed, raced>>
    BY <1>1 DEF Active, CheckRobots, Quiet
  <2> QED BY <1>2, <1>5, <2>1, OwnStep
<1>7. ~HasNorm(d) /\ PhaseFits(d) /\ d.phase # "found" /\ IsList(d.results)
  BY <1>1, <1>3, <1>5 DEF HasNorm, PhaseFits, NormPhases, PagePhases
<1>8. PageWork(d)
  BY <1>1, <1>5, <1>7, AskedIsListed DEF PageWork
<1>9. Well(d, feed)
  BY <1>1, <1>5, <1>7, <1>8, EmptyList DEF Well
<1>10. NothingReported(c, d)
  BY <1>4, <1>5 DEF NothingReported
<1> QED BY <1>6, <1>7, <1>9, <1>10

LEMMA PageBusyIs ==
  ASSUME Shape, NEW p \in Procs, PageBusy(p), cmd[p].kind = "public"
  PROVE  /\ Own(p) /\ Well(cmd'[p], feed) /\ NothingReported(cmd[p], cmd'[p]) /\ ~HasNorm(cmd'[p])
<1> DEFINE c == cmd[p]
           d == [c EXCEPT !.tries = @ + 1]
<1>1. /\ Well(c, feed) /\ DOMAIN c = Fields /\ PageWork(c) /\ c.phase = "fetch"
      /\ UNCHANGED <<feed, raced>> /\ Active(p)
  BY DEF Shape, Well, PageBusy, Quiet, Active
<1>2. CASE Set(p, Reported(c, Result(Match(c), "fetch_failed")))
  BY <1>1, <1>2, GaveUp DEF StoredOutcomes
<1>3. CASE Set(p, d)
  <2>1. /\ d.kind = c.kind /\ d.from = c.from /\ d.to = c.to /\ d.rows = c.rows /\ d.todo = c.todo
        /\ d.cursor = c.cursor /\ DOMAIN d = Fields /\ d.phase = "fetch" /\ d.results = c.results
    BY <1>1 DEF Fields
  <2> HIDE DEF d
  <2>2. Own(p) /\ cmd'[p] = d
    BY <1>1, <1>3, <2>1, OwnStep
  <2>3. ~HasNorm(d)
    BY <2>1 DEF HasNorm, NormPhases
  <2>4. PhaseFits(d) /\ PageWork(d)
    BY <1>1, <2>1, <2>3 DEF PhaseFits, PageWork, PagePhases
  <2>5. Well(d, feed)
    BY <1>1, <2>1, <2>4 DEF Well, Resting
  <2>6. NothingReported(c, d)
    BY <2>1 DEF NothingReported
  <2> QED BY <2>2, <2>3, <2>5, <2>6
<1> QED BY <1>2, <1>3 DEF PageBusy

LEMMA FetchPublicPageIs ==
  ASSUME Shape, NEW p \in Procs, FetchPublicPage(p), cmd[p].kind = "public"
  PROVE  /\ Own(p) /\ Well(cmd'[p], feed) /\ NothingReported(cmd[p], cmd'[p]) /\ ~HasNorm(cmd'[p])
<1> DEFINE c == cmd[p]
           page == Feed[feed].page[Match(c)]
           d == [c EXCEPT !.phase = "links", !.todo = << page >>]
<1>1. /\ Well(c, feed) /\ DOMAIN c = Fields /\ PageWork(c) /\ c.phase = "fetch"
      /\ UNCHANGED <<feed, raced>> /\ Active(p)
  BY DEF Shape, Well, FetchPublicPage, Quiet, Active
<1>2. \/ \E outcome \in {"not_found", "fetch_failed"} :
            Set(p, Reported(c, Result(Match(c), outcome)))
      \/ Set(p, d)
  BY DEF FetchPublicPage
<1>3. CASE \E outcome \in {"not_found", "fetch_failed"} :
             Set(p, Reported(c, Result(Match(c), outcome)))
  BY <1>1, <1>3, GaveUp DEF StoredOutcomes
<1>4. CASE Set(p, d)
  <2> HIDE DEF page
  <2>1. /\ d.kind = c.kind /\ d.from = c.from /\ d.to = c.to /\ d.rows = c.rows
        /\ d.todo = << page >> /\ d.cursor = c.cursor /\ DOMAIN d = Fields
        /\ d.phase = "links" /\ d.results = c.results
    BY <1>1 DEF Fields
  <2> HIDE DEF d
  <2>2. Own(p) /\ cmd'[p] = d
    BY <1>1, <1>4, <2>1, OwnStep
  <2>3. ~HasNorm(d)
    BY <2>1 DEF HasNorm, NormPhases
  <2>4. PhaseFits(d) /\ PageWork(d)
    BY <1>1, <2>1, <2>3 DEF PhaseFits, PageWork, PagePhases
  <2>5. IsList(d.todo)
    <3>1. << page >> \in Seq({page})
      OBVIOUS
    <3> QED BY <2>1, <3>1, ListOf
  <2>6. Well(d, feed)
    BY <1>1, <2>1, <2>4, <2>5 DEF Well, Resting
  <2>7. NothingReported(c, d)
    BY <2>1 DEF NothingReported
  <2> QED BY <2>2, <2>3, <2>6, <2>7
<1> QED BY <1>2, <1>3, <1>4

LEMMA UnderstandIs ==
  ASSUME Shape, NEW p \in Procs, Understand(p), cmd[p].kind = "public"
  PROVE  /\ Own(p) /\ Well(cmd'[p], feed) /\ NothingReported(cmd[p], cmd'[p])
         /\ ~HasNorm(cmd'[p]) \/ IsUnderstood(cmd[p], cmd'[p])
<1> DEFINE c == cmd[p]
<1>1. /\ Well(c, feed) /\ DOMAIN c = Fields /\ PageWork(c) /\ c.phase = "links"
      /\ UNCHANGED <<feed, raced>>
  BY DEF Shape, Well, Understand, Quiet
<1>2. \/ \E outcome \in {"parse_failed", "source_incomplete"} :
            Set(p, Reported(c, Result(Match(c), outcome)))
      \/ \E page : /\ Acceptable(page)
                   /\ Set(p, [c EXCEPT !.phase = "existing",
                                        !.todo = << Normalized(page, Match(c)) >>])
  BY DEF Understand
<1>3. CASE \E outcome \in {"parse_failed", "source_incomplete"} :
             Set(p, Reported(c, Result(Match(c), outcome)))
  BY <1>1, <1>3, GaveUp DEF StoredOutcomes
<1>4. ASSUME NEW page, Acceptable(page),
             Set(p, [c EXCEPT !.phase = "existing", !.todo = << Normalized(page, Match(c)) >>])
      PROVE  /\ Own(p) /\ Well(cmd'[p], feed) /\ NothingReported(cmd[p], cmd'[p])
             /\ IsUnderstood(cmd[p], cmd'[p])
  <2> DEFINE n == Normalized(page, Match(c))
             d == [c EXCEPT !.phase = "existing", !.todo = << n >>]
  <2>1. IsNorm(n, Match(c))
    BY DEF IsNorm, Normalized, NormFields, GameFields
  <2> HIDE DEF n
  <2>2. /\ d.kind = c.kind /\ d.from = c.from /\ d.to = c.to /\ Turned(c, d)
        /\ d.todo = << n >> /\ DOMAIN d = Fields /\ d.phase = "existing"
    BY <1>1 DEF Fields, Turned
  <2> HIDE DEF d
  <2>3. HasNorm(d)
    BY <2>2 DEF HasNorm, NormPhases
  <2>4. Own(p) /\ cmd'[p] = d /\ Well(d, feed)
    BY <1>1, <1>4, <2>1, <2>2, <2>3, TurnedIsWell DEF d, n
  <2>5. NothingReported(c, d) /\ Match(d) = Match(c)
    BY <2>2 DEF NothingReported, Turned, Match
  <2> QED BY <1>4, <2>2, <2>4, <2>5 DEF IsUnderstood, n
<1> QED BY <1>2, <1>3, <1>4

LEMMA EarlyStepIs ==
  ASSUME Shape, NEW p \in Procs, EarlyStep(p), cmd[p].kind = "public"
  PROVE  /\ Own(p) /\ Well(cmd'[p], feed) /\ NothingReported(cmd[p], cmd'[p])
         /\ ~HasNorm(cmd'[p]) \/ IsUnderstood(cmd[p], cmd'[p])
         /\ UNCHANGED <<store, stats, points>>
<1>1. UNCHANGED <<store, stats, points, feed, raced>>
  BY DEF EarlyStep, CheckRobots, PageBusy, FetchPublicPage, Understand, StorageConflict, Quiet,
         pageTables
<1>2. CASE StorageConflict(p)
  <2>1. HasNorm(cmd[p]) /\ Set(p, Reported(cmd[p], Result(Match(cmd[p]), "source_incomplete")))
    BY <1>2 DEF StorageConflict, HasNorm, NormPhases
  <2>2. UNCHANGED <<feed, raced>> /\ "source_incomplete" \notin StoredOutcomes
    BY <1>2 DEF StorageConflict, Quiet, StoredOutcomes
  <2>3. /\ Own(p) /\ Well(cmd'[p], feed) /\ NothingReported(cmd[p], cmd'[p]) /\ ~HasNorm(cmd'[p])
    BY <2>1, <2>2, GaveUp
  <2> QED BY <1>1, <2>3
<1> QED BY <1>1, <1>2, CheckRobotsIs, PageBusyIs, FetchPublicPageIs, UnderstandIs DEF EarlyStep

(* The steps of a match that is understood.                                *)
LEMMA OneUpdated ==
  ASSUME NEW n, NEW m PROVE [<< n >> EXCEPT ![1] = m] = << m >>
OBVIOUS

LEMMA MergedGameIs ==
  ASSUME NEW old, NEW new, DOMAIN new = GameFields
  PROVE  LET g == MergedGame(old, new)
         IN  /\ DOMAIN g = GameFields /\ g.id = new.id
             /\ g.complete = (new.complete \/ old.complete)
             /\ \A f \in Metadata \ {"duration"} :
                   old[f] # Missing[f] => g[f] # Missing[f]
<1>1. Metadata = {"start", "end", "duration", "winner", "a", "b", "patch", "league"}
  BY DEF Metadata, Missing
<1> QED BY <1>1 DEF MergedGame, GameFields

LEMMA ReadExistingIs ==
  ASSUME Shape, NEW p \in Procs, ReadExisting(p), cmd[p].kind = "public"
  PROVE  LET c == cmd[p]
             d == cmd'[p]
             n == Head(c.todo)
             m == Head(d.todo)
             old == OfSource(games, n.game.id)
         IN  /\ Own(p) /\ Well(d, feed) /\ HasNorm(c) /\ HasNorm(d) /\ Turned(c, d)
             /\ UNCHANGED <<store, stats, points>> /\ c.phase = "existing"
             /\ d.phase = IF old # {} /\ n.actions = {} THEN "draft" ELSE "store"
             /\ m.known = (old # {}) /\ m.actions = n.actions /\ m.players = n.players
             /\ m.points = n.points /\ m.game.id = n.game.id
             /\ old # {} => m.game = MergedGame(CHOOSE g \in old : TRUE, n.game)
<1> DEFINE c == cmd[p]
           n == Head(c.todo)
           old == OfSource(games, n.game.id)
           game == IF old = {} THEN n.game ELSE MergedGame(CHOOSE g \in old : TRUE, n.game)
           m == [n EXCEPT !.known = (old # {}), !.game = game]
           phase == IF old # {} /\ n.actions = {} THEN "draft" ELSE "store"
           d == [c EXCEPT !.phase = phase, !.todo = << m >>]
<1>1. /\ Well(c, feed) /\ DOMAIN c = Fields /\ c.phase = "existing" /\ c.kind = "public"
      /\ UNCHANGED <<feed, raced>> /\ UNCHANGED <<store, stats, points>> /\ Set(p, d)
  BY DEF Shape, Well, ReadExisting, Quiet, pageTables
<1>2. HasNorm(c)
  BY <1>1 DEF HasNorm, NormPhases
<1>3. IsNorm(n, Match(c))
  BY <1>2, NormMet
<1> HIDE DEF old
<1>4. DOMAIN game = GameFields /\ game.id = n.game.id
  BY <1>3, MergedGameIs DEF IsNorm
<1> HIDE DEF n, game
<1>5. /\ IsNorm(m, Match(c)) /\ m.known = (old # {}) /\ m.actions = n.actions
      /\ m.players = n.players /\ m.points = n.points /\ m.game = game
  BY <1>3, <1>4 DEF IsNorm, NormFields
<1> HIDE DEF m
<1>6. /\ d.kind = "public" /\ d.from = c.from /\ d.to = c.to /\ Turned(c, d)
      /\ d.todo = << m >> /\ DOMAIN d = Fields /\ d.phase = phase
  BY <1>1 DEF Fields, Turned
<1> HIDE DEF d
<1>7. HasNorm(d) /\ Head(d.todo) = m
  BY <1>6 DEF HasNorm, NormPhases
<1>8. Own(p) /\ cmd'[p] = d /\ Well(d, feed)
  BY <1>1, <1>2, <1>5, <1>6, <1>7, TurnedIsWell
<1> QED BY <1>1, <1>2, <1>4, <1>5, <1>6, <1>7, <1>8 DEF n, game, old

LEMMA ReadDraftIs ==
  ASSUME Shape, NEW p \in Procs, ReadDraft(p), cmd[p].kind = "public"
  PROVE  LET c == cmd[p]
             d == cmd'[p]
             n == Head(c.todo)
             m == Head(d.todo)
         IN  /\ Own(p) /\ Well(d, feed) /\ HasNorm(c) /\ HasNorm(d) /\ Turned(c, d)
             /\ UNCHANGED <<store, stats, points>> /\ c.phase = "draft" /\ d.phase = "store"
             /\ m.known = n.known /\ m.actions = drafts[n.game.id] /\ m.players = n.players
             /\ m.points = n.points /\ m.game = n.game
<1> DEFINE c == cmd[p]
           n == Head(c.todo)
           actions == drafts[n.game.id]
           m == [n EXCEPT !.actions = actions]
           d == [c EXCEPT !.phase = "store", !.todo = << m >>]
<1>1. /\ Well(c, feed) /\ DOMAIN c = Fields /\ c.phase = "draft" /\ c.kind = "public"
      /\ UNCHANGED <<feed, raced>> /\ UNCHANGED <<store, stats, points>>
      /\ Set(p, [c EXCEPT !.phase = "store", !.todo[1].actions = actions])
  BY DEF Shape, Well, ReadDraft, Quiet, pageTables
<1>2. HasNorm(c)
  BY <1>1 DEF HasNorm, NormPhases
<1>3. IsNorm(n, Match(c)) /\ c.todo = << n >> /\ c.todo[1] = n
  <2>1. IsNorm(n, Match(c)) /\ c.todo = << n >>
    BY <1>2, NormMet
  <2> HIDE DEF n
  <2> QED BY <2>1
<1> HIDE DEF n, actions
<1>4. IsNorm(m, Match(c)) /\ m.actions = actions /\ m.players = n.players
      /\ m.points = n.points /\ m.game = n.game /\ m.known = n.known
  BY <1>3 DEF IsNorm, NormFields
<1>5. Set(p, d)
  <2>1. [c.todo EXCEPT ![1].actions = actions] = << m >>
    BY <1>3, OneUpdated
  <2> HIDE DEF m
  <2>2. [c EXCEPT !.phase = "store", !.todo[1].actions = actions]
          = [c EXCEPT !.phase = "store", !.todo = [c.todo EXCEPT ![1].actions = actions]]
    BY <1>1 DEF Fields
  <2> QED BY <1>1, <2>1, <2>2
<1> HIDE DEF m
<1>6. /\ d.kind = "public" /\ d.from = c.from /\ d.to = c.to /\ Turned(c, d)
      /\ d.todo = << m >> /\ DOMAIN d = Fields /\ d.phase = "store"
  BY <1>1 DEF Fields, Turned
<1> HIDE DEF d
<1>7. HasNorm(d) /\ Head(d.todo) = m
  BY <1>6 DEF HasNorm, NormPhases
<1>8. Own(p) /\ cmd'[p] = d /\ Well(d, feed)
  BY <1>1, <1>2, <1>4, <1>5, <1>6, <1>7, TurnedIsWell
<1> QED BY <1>1, <1>2, <1>4, <1>6, <1>7, <1>8 DEF n, actions

LEMMA StorePublicGameIs ==
  ASSUME Shape, NEW p \in Procs, StorePublicGame(p), cmd[p].kind = "public"
  PROVE  LET c == cmd[p]
             d == cmd'[p]
             n == Head(c.todo)
             m == Head(d.todo)
         IN  /\ Own(p) /\ Well(d, feed) /\ HasNorm(c) /\ HasNorm(d) /\ Turned(c, d)
             /\ UpsertGame(c.seen, n.game, n.actions) /\ UNCHANGED <<stats, points>>
             /\ c.phase = "found" /\ d.phase = IF n.known THEN "stats" ELSE "replace"
             /\ m.known = n.known /\ m.actions = n.actions /\ m.players = n.players
             /\ m.points = n.points /\ m.game = n.game
<1> DEFINE c == cmd[p]
           n == Head(c.todo)
           outcome == Outcome(c)
           phase == IF n.known THEN "stats" ELSE "replace"
           m == [n EXCEPT !.outcome = outcome]
           d == [c EXCEPT !.phase = phase, !.todo = << m >>]
<1>1. /\ Well(c, feed) /\ DOMAIN c = Fields /\ c.phase = "found" /\ c.kind = "public"
      /\ UNCHANGED <<feed, raced>> /\ UNCHANGED <<stats, points>>
      /\ UpsertGame(c.seen, n.game, n.actions)
      /\ Set(p, [c EXCEPT !.phase = phase, !.todo[1].outcome = outcome])
  BY DEF Shape, Well, StorePublicGame, pageTables
<1>2. HasNorm(c)
  BY <1>1 DEF HasNorm, NormPhases
<1>3. IsNorm(n, Match(c)) /\ c.todo = << n >> /\ c.todo[1] = n
  <2>1. IsNorm(n, Match(c)) /\ c.todo = << n >>
    BY <1>2, NormMet
  <2> HIDE DEF n
  <2> QED BY <2>1
<1> HIDE DEF n, outcome
<1>4. IsNorm(m, Match(c)) /\ m.actions = n.actions /\ m.players = n.players
      /\ m.points = n.points /\ m.game = n.game /\ m.known = n.known
  BY <1>3 DEF IsNorm, NormFields
<1>5. Set(p, d)
  <2>1. [c.todo EXCEPT ![1].outcome = outcome] = << m >>
    BY <1>3, OneUpdated
  <2> HIDE DEF m
  <2>2. [c EXCEPT !.phase = phase, !.todo[1].outcome = outcome]
          = [c EXCEPT !.phase = phase, !.todo = [c.todo EXCEPT ![1].outcome = outcome]]
    BY <1>1 DEF Fields
  <2> QED BY <1>1, <2>1, <2>2
<1> HIDE DEF m
<1>6. /\ d.kind = "public" /\ d.from = c.from /\ d.to = c.to /\ Turned(c, d)
      /\ d.todo = << m >> /\ DOMAIN d = Fields /\ d.phase = phase
  BY <1>1 DEF Fields, Turned
<1> HIDE DEF d
<1>7. HasNorm(d) /\ Head(d.todo) = m
  BY <1>6 DEF HasNorm, NormPhases
<1>8. Own(p) /\ cmd'[p] = d /\ Well(d, feed)
  BY <1>1, <1>2, <1>4, <1>5, <1>6, <1>7, TurnedIsWell
<1> QED BY <1>1, <1>2, <1>4, <1>6, <1>7, <1>8 DEF n

LEMMA ReadStatsIs ==
  ASSUME Shape, NEW p \in Procs, ReadStats(p), cmd[p].kind = "public"
  PROVE  LET c == cmd[p]
             d == cmd'[p]
             n == Head(c.todo)
             m == Head(d.todo)
         IN  /\ Own(p) /\ Well(d, feed) /\ HasNorm(c) /\ HasNorm(d) /\ Turned(c, d)
             /\ UNCHANGED <<store, stats, points>> /\ c.phase = "stats" /\ d.phase = "replace"
             /\ m.known = n.known /\ m.actions = n.actions /\ m.points = n.points
             /\ m.game = n.game /\ m.players = MergedPlayers(Rows(stats, n.game.id), n.players)
<1> DEFINE c == cmd[p]
           n == Head(c.todo)
           players == MergedPlayers(Rows(stats, n.game.id), n.players)
           m == [n EXCEPT !.players = players]
           d == [c EXCEPT !.phase = "replace", !.todo = << m >>]
<1>1. /\ Well(c, feed) /\ DOMAIN c = Fields /\ c.phase = "stats" /\ c.kind = "public"
      /\ UNCHANGED <<feed, raced>> /\ UNCHANGED <<store, stats, points>>
      /\ Set(p, [c EXCEPT !.phase = "replace",
                          !.todo[1].players = MergedPlayers(Rows(stats, n.game.id), @)])
  BY DEF Shape, Well, ReadStats, Quiet, pageTables
<1>2. HasNorm(c)
  BY <1>1 DEF HasNorm, NormPhases
<1>3. IsNorm(n, Match(c)) /\ c.todo = << n >> /\ c.todo[1] = n
  <2>1. IsNorm(n, Match(c)) /\ c.todo = << n >>
    BY <1>2, NormMet
  <2> HIDE DEF n
  <2> QED BY <2>1
<1>4. Set(p, [c EXCEPT !.phase = "replace", !.todo[1].players = players])
  <2>1. Set(p, [c EXCEPT !.phase = "replace",
                         !.todo[1].players = MergedPlayers(Rows(stats, n.game.id), c.todo[1].players)])
    BY <1>1
  <2> HIDE DEF n
  <2> QED BY <1>3, <2>1
<1> HIDE DEF n, players
<1>5. IsNorm(m, Match(c)) /\ m.actions = n.actions /\ m.players = players
      /\ m.points = n.points /\ m.game = n.game /\ m.known = n.known
  BY <1>3 DEF IsNorm, NormFields
<1>6. Set(p, d)
  <2>1. [c.todo EXCEPT ![1].players = players] = << m >>
    BY <1>3, OneUpdated
  <2> HIDE DEF m
  <2>2. [c EXCEPT !.phase = "replace", !.todo[1].players = players]
          = [c EXCEPT !.phase = "replace", !.todo = [c.todo EXCEPT ![1].players = players]]
    BY <1>1 DEF Fields
  <2> QED BY <1>4, <2>1, <2>2
<1> HIDE DEF m
<1>7. /\ d.kind = "public" /\ d.from = c.from /\ d.to = c.to /\ Turned(c, d)
      /\ d.todo = << m >> /\ DOMAIN d = Fields /\ d.phase = "replace"
  BY <1>1 DEF Fields, Turned
<1> HIDE DEF d
<1>8. HasNorm(d) /\ Head(d.todo) = m
  BY <1>7 DEF HasNorm, NormPhases
<1>9. Own(p) /\ cmd'[p] = d /\ Well(d, feed)
  BY <1>1, <1>2, <1>5, <1>6, <1>7, <1>8, TurnedIsWell
<1> QED BY <1>1, <1>2, <1>5, <1>7, <1>8, <1>9 DEF n, players

(* The last of a match: it is reported as stored.                          *)
ReportsStored(c, d) ==
  /\ d.phase \in {"store", "fetch"} /\ d.todo = << >>
  /\ Range(d.results) = Range(c.results) \cup {StoredResult(Match(c), Head(c.todo))}

LEMMA ReplaceStatsIs ==
  ASSUME Shape, NEW p \in Procs, ReplaceStats(p), cmd[p].kind = "public"
  PROVE  LET c == cmd[p]
             d == cmd'[p]
             n == Head(c.todo)
         IN  /\ Own(p) /\ Well(d, feed) /\ HasNorm(c) /\ UNCHANGED <<store, points>>
             /\ c.phase = "replace" /\ stats' = Put(stats, n.game.id, n.players)
             /\ IF n.points # {} THEN HasNorm(d) /\ Turned(c, d) /\ d.phase = "points" /\ d.todo = c.todo
                                 ELSE ReportsStored(c, d)
<1> DEFINE c == cmd[p]
           n == Head(c.todo)
           d == [c EXCEPT !.phase = "points"]
<1>1. /\ Well(c, feed) /\ DOMAIN c = Fields /\ c.phase = "replace" /\ c.kind = "public"
      /\ UNCHANGED <<feed, raced>> /\ UNCHANGED <<store, points>>
      /\ stats' = Put(stats, n.game.id, n.players)
  BY DEF Shape, Well, ReplaceStats
<1>2. HasNorm(c)
  BY <1>1 DEF HasNorm, NormPhases
<1>3. IsNorm(n, Match(c)) /\ c.todo = << n >>
  BY <1>2, NormMet
<1> HIDE DEF n
<1>4. CASE n.points # {}
  <2>1. Set(p, d)
    BY <1>4 DEF ReplaceStats, n
  <2>2. /\ d.kind = "public" /\ d.from = c.from /\ d.to = c.to /\ Turned(c, d)
        /\ d.todo = << n >> /\ DOMAIN d = Fields /\ d.phase = "points"
    BY <1>1, <1>3 DEF Fields, Turned
  <2> HIDE DEF d
  <2>3. HasNorm(d)
    BY <2>2 DEF HasNorm, NormPhases
  <2>4. Own(p) /\ cmd'[p] = d /\ Well(d, feed)
    BY <1>1, <1>2, <1>3, <2>1, <2>2, <2>3, TurnedIsWell
  <2> QED BY <1>1, <1>2, <1>3, <1>4, <2>2, <2>3, <2>4 DEF n
<1>5. CASE n.points = {}
  <2>1. Set(p, Reported(c, StoredResult(Match(c), n)))
    BY <1>5 DEF ReplaceStats, n
  <2>2. /\ Own(p) /\ Well(cmd'[p], feed) /\ cmd'[p].phase \in {"store", "fetch"}
        /\ cmd'[p].todo = << >>
        /\ Range(cmd'[p].results) = Range(c.results) \cup {StoredResult(Match(c), n)}
    BY <1>1, <1>2, <2>1, ReportedIs
  <2> QED BY <1>1, <1>2, <1>5, <2>2 DEF ReportsStored, n
<1> QED BY <1>4, <1>5

LEMMA ReplacePointsIs ==
  ASSUME Shape, NEW p \in Procs, ReplacePoints(p), cmd[p].kind = "public"
  PROVE  LET c == cmd[p]
             d == cmd'[p]
             n == Head(c.todo)
         IN  /\ Own(p) /\ Well(d, feed) /\ HasNorm(c) /\ UNCHANGED <<store, stats>>
             /\ c.phase = "points" /\ points' = Put(points, n.game.id, n.points)
             /\ ReportsStored(c, d)
<1> DEFINE c == cmd[p]
           n == Head(c.todo)
<1>1. /\ c.phase = "points" /\ UNCHANGED <<feed, raced>> /\ UNCHANGED <<store, stats>>
      /\ points' = Put(points, n.game.id, n.points)
      /\ Set(p, Reported(c, StoredResult(Match(c), n)))
  BY DEF ReplacePoints
<1>2. HasNorm(c)
  BY <1>1 DEF HasNorm, NormPhases
<1> HIDE DEF n
<1>3. /\ Own(p) /\ Well(cmd'[p], feed) /\ cmd'[p].phase \in {"store", "fetch"}
      /\ cmd'[p].todo = << >>
      /\ Range(cmd'[p].results) = Range(c.results) \cup {StoredResult(Match(c), n)}
  BY <1>1, <1>2, ReportedIs
<1> QED BY <1>1, <1>2, <1>3 DEF ReportsStored, n

LEMMA OwnKeepsShape ==
  ASSUME Shape, NEW p \in Procs, Own(p), Well(cmd'[p], feed), IsFiniteSet(matches')
  PROVE  Shape'
<1>1. feed' = feed /\ cmd' = [q \in Procs |-> IF q = p THEN cmd'[p] ELSE cmd[q]]
  BY DEF Own
<1>2. \A q \in Procs : cmd'[q] = IF q = p THEN cmd'[p] ELSE cmd[q]
  BY <1>1
<1>3. \A q \in Procs : Well(cmd'[q], feed)
  BY <1>2 DEF Shape
<1>4. cmd' = [q \in Procs |-> cmd'[q]]
  BY <1>1
<1> QED BY <1>1, <1>3, <1>4 DEF Shape

LEMMA ShapeStep ==
  ASSUME Shape, [PublicNext]_publicVars PROVE Shape'
<1>1. CASE UNCHANGED publicVars
  BY <1>1 DEF publicVars, sync, store, Shape
<1>2. CASE ProviderMoves
  <2>1. feed' = feed + 1 /\ feed < Len(Feed) /\ UNCHANGED <<cmd, matches>>
    BY <1>2 DEF ProviderMoves, store
  <2>2. DOMAIN Feed = 1 .. Len(Feed) /\ Len(Feed) \in Nat
    BY SyncAssumption, ListBasics
  <2>3. feed' \in DOMAIN Feed /\ feed' \in Nat
    BY <2>1, <2>2 DEF Shape
  <2>4. ASSUME NEW p \in Procs PROVE Well(cmd[p], feed + 1)
    <3>1. Well(cmd[p], feed) /\ feed \in Nat
      BY DEF Shape
    <3>2. cmd[p].from \in Nat /\ cmd[p].from <= feed
      BY <3>1 DEF Well
    <3>3. cmd[p].from <= feed + 1
      BY <3>1, <3>2
    <3> QED BY <3>1, <3>3 DEF Well
  <2> QED BY <2>1, <2>3, <2>4 DEF Shape
<1>3. ASSUME NEW p \in Procs, Starts(p) PROVE Shape'
  <2>1. PICK d \in FreshForms :
           /\ cmd' = [q \in Procs |-> IF q = p THEN d ELSE cmd[q]]
           /\ UNCHANGED <<store, feed>>
    BY <1>3, StartIs
  <2>2. Well(d, feed) /\ UNCHANGED <<feed, matches>>
    BY <2>1, FreshIsWell DEF store
  <2>3. \A q \in Procs : cmd'[q] = IF q = p THEN d ELSE cmd[q]
    BY <2>1
  <2>4. \A q \in Procs : Well(cmd'[q], feed)
    BY <2>2, <2>3 DEF Shape
  <2>5. cmd' = [q \in Procs |-> cmd'[q]]
    BY <2>1
  <2> QED BY <2>2, <2>4, <2>5 DEF Shape
<1>4. ASSUME NEW p \in Procs, Own(p), Well(cmd'[p], feed), UNCHANGED matches PROVE Shape'
  BY <1>4, OwnKeepsShape DEF Shape
<1>5. ASSUME NEW p \in Procs, Refused(p) \/ Finish(p) \/ Die(p) \/ InsertedBefore(p) PROVE Shape'
  BY <1>4, <1>5, EndIs DEF store
<1>6. ASSUME NEW p \in Procs, Lookup(p) PROVE Shape'
  BY <1>4, <1>6, LookupIs DEF store
<1>7. ASSUME NEW p \in Procs, Collected(p) PROVE Shape'
  BY <1>4, <1>7, CollectedIs DEF store
<1>8. ASSUME NEW p \in Procs, StoreGame(p) \/ StoreRosterRenamed(p) \/ StoreRoster(p) PROVE Shape'
  <2>1. UNCHANGED matches
    BY <1>8 DEF StoreGame, StoreRosterRenamed, StoreRoster, UpsertGame, UpsertRoster, UpsertSnapshot
  <2> QED BY <1>4, <1>8, <2>1, StoredIs
<1>9. ASSUME NEW p \in Procs, StoreMatch(p) PROVE Shape'
  <2>1. IsFiniteSet(matches')
    <3>1. matches' = matches \/ matches' = Replaced(matches, Head(cmd[p].todo))
      BY <1>9 DEF StoreMatch, UpsertMatch
    <3>2. IsFiniteSet(matches \ OfSource(matches, Head(cmd[p].todo).id))
      BY FS_Subset DEF Shape
    <3> QED BY <3>1, <3>2, FS_AddElement DEF Replaced, Shape
  <2> QED BY <1>9, <2>1, StoredIs, OwnKeepsShape
<1>10. ASSUME NEW p \in Procs, cmd[p].kind = "match", MatchStep(p) PROVE Shape'
  BY <1>4, <1>5, <1>6, <1>9, <1>10, FetchPageIs DEF MatchStep, store
<1>11. ASSUME NEW p \in Procs, cmd[p].kind = "draft", DraftStep(p) PROVE Shape'
  BY <1>4, <1>5, <1>6, <1>7, <1>8, <1>11, FetchProPageIs, FetchDetailIs DEF DraftStep, store
<1>12. ASSUME NEW p \in Procs, cmd[p].kind = "roster", RosterStep(p) PROVE Shape'
  BY <1>4, <1>5, <1>6, <1>7, <1>8, <1>12, FetchRosterIs DEF RosterStep, store
<1>13. ASSUME NEW p \in Procs, cmd[p].kind = "public", PublicOwn(p) PROVE Shape'
  <2>1. CASE EarlyStep(p)
    BY <1>4, <1>13, <2>1, EarlyStepIs DEF store
  <2>2. CASE ReadExisting(p) \/ ReadDraft(p) \/ ReadStats(p)
    BY <1>4, <1>13, <2>2, ReadExistingIs, ReadDraftIs, ReadStatsIs DEF store
  <2>3. CASE StorePublicGame(p)
    BY <1>4, <1>13, <2>3, StorePublicGameIs DEF UpsertGame
  <2>4. CASE ReplaceStats(p) \/ ReplacePoints(p)
    BY <1>4, <1>13, <2>4, ReplaceStatsIs, ReplacePointsIs DEF store
  <2>5. CASE InsertedBefore(p) \/ Lookup(p) \/ Finish(p) \/ Die(p)
    BY <1>5, <1>6, <2>5
  <2> QED BY <1>13, <2>1, <2>2, <2>3, <2>4, <2>5 DEF PublicOwn, PageStep, EarlyStep
<1>14. AnyStep
  BY StepsByKind
<1> QED BY <1>1, <1>2, <1>3, <1>10, <1>11, <1>12, <1>13, <1>14 DEF AnyStep

LEMMA ShapeInit == PublicInit => Shape
<1> SUFFICES ASSUME PublicInit PROVE Shape
  OBVIOUS
<1>1. feed = 1 /\ matches = mix.stored /\ mix \in Mixes /\ cmd = [p \in Procs |-> Idle]
  BY DEF PublicInit, SyncInit, StoreInit
<1>2. 1 \in DOMAIN Feed
  <2>1. Feed \in Seq(Range(Feed)) /\ Feed # << >>
    BY SyncAssumption DEF IsList
  <2> QED BY <2>1
<1>3. Well(Idle, 1)
  <2>1. DOMAIN Idle = Fields
    BY DEF Idle, Fields
  <2>2. PhaseFits(Idle) /\ Idle.kind = "match" /\ Idle.phase = "idle"
    BY DEF Idle, PhaseFits, Resting
  <2>3. Idle.rows = << >> /\ Idle.todo = << >> /\ Idle.results = << >> /\ Idle.from = 0
        /\ Idle.to = 0 /\ Idle.cursor = 0
    BY DEF Idle
  <2> QED BY <2>1, <2>2, <2>3, EmptyList DEF Well
<1>4. IsFiniteSet(matches)
  BY <1>1, SyncAssumption
<1>5. \A p \in Procs : cmd[p] = Idle
  BY <1>1
<1> QED BY <1>1, <1>2, <1>3, <1>4, <1>5 DEF Shape

(* What the commands of a kind write.                                      *)
Untouched(id) ==
  /\ OfSource(games', id) = OfSource(games, id)
  /\ id \in DOMAIN drafts' <=> id \in DOMAIN drafts
  /\ drafts'[id] = drafts[id] \/ id \notin DOMAIN drafts
TouchesOnly(id) == \A other : other # id => Untouched(other)

LEMMA UpsertTouches ==
  ASSUME NEW seen, NEW g, NEW actions, UpsertGame(seen, g, actions) PROVE TouchesOnly(g.id)
<1> SUFFICES ASSUME NEW other, other # g.id PROVE Untouched(other)
  BY DEF TouchesOnly
<1>1. games' = games \/ games' = (games \ OfSource(games, g.id)) \cup {g}
  BY DEF UpsertGame, Replaced
<1>2. OfSource(games', other) = OfSource(games, other)
  BY <1>1 DEF OfSource
<1>3. drafts' = [x \in DOMAIN drafts \cup {g.id} |-> IF x = g.id THEN actions ELSE drafts[x]]
  BY DEF UpsertGame, Put
<1> QED BY <1>2, <1>3 DEF Untouched

LEMMA SameTables ==
  ASSUME UNCHANGED <<games, drafts>> PROVE \A id : Untouched(id)
BY DEF Untouched, OfSource

LEMMA MatchFrame ==
  ASSUME Shape, NEW p \in Procs, cmd[p].kind = "match", MatchStep(p)
  PROVE  Own(p) /\ UNCHANGED <<games, drafts, snapshots, names>>
<1>1. CASE FetchPage(p) \/ Lookup(p) \/ Refused(p) \/ Finish(p) \/ Die(p)
  BY <1>1, FetchPageIs, LookupIs, EndIs DEF store
<1>2. CASE StoreMatch(p)
  BY <1>2, StoredIs DEF StoreMatch, UpsertMatch
<1> QED BY <1>1, <1>2 DEF MatchStep

LEMMA RosterFrame ==
  ASSUME Shape, NEW p \in Procs, cmd[p].kind = "roster", RosterStep(p)
  PROVE  Own(p) /\ UNCHANGED <<matches, games, drafts>>
<1>1. CASE FetchRoster(p) \/ Collected(p) \/ Lookup(p) \/ Refused(p) \/ Finish(p) \/ Die(p)
  BY <1>1, FetchRosterIs, CollectedIs, LookupIs, EndIs DEF store
<1>2. CASE StoreRosterRenamed(p) \/ StoreRoster(p)
  BY <1>2, StoredIs DEF StoreRosterRenamed, StoreRoster, UpsertRoster, UpsertSnapshot
<1> QED BY <1>1, <1>2 DEF RosterStep

LEMMA DraftFrame ==
  ASSUME Shape, NEW p \in Procs, cmd[p].kind = "draft", DraftStep(p)
  PROVE  /\ Own(p) /\ UNCHANGED <<matches, snapshots, names>>
         /\ \E id \in Nat \ {0} : TouchesOnly(id)
<1>1. CASE FetchProPage(p) \/ FetchDetail(p) \/ Collected(p)
           \/ Lookup(p) \/ Refused(p) \/ Finish(p) \/ Die(p)
  <2>1. Own(p) /\ UNCHANGED store
    BY <1>1, FetchProPageIs, FetchDetailIs, CollectedIs, LookupIs, EndIs
  <2>2. \A id : Untouched(id)
    BY <2>1, SameTables DEF store
  <2>3. 1 \in Nat \ {0} /\ TouchesOnly(1)
    BY <2>2 DEF TouchesOnly
  <2> QED BY <2>1, <2>3 DEF store
<1>2. CASE StoreGame(p)
  <2> DEFINE x == Head(cmd[p].todo)
  <2>1. Own(p) /\ cmd[p].todo # << >> /\ UNCHANGED <<matches, snapshots, names>>
    BY <1>2, StoredIs DEF StoreGame, UpsertGame
  <2>2. TouchesOnly(x.game.id)
    BY <1>2, UpsertTouches DEF StoreGame
  <2>3. x \in Range(cmd[p].todo)
    BY <2>1, TailOf DEF Shape, Well
  <2>4. DraftIds(cmd[p]) /\ cmd[p].phase \notin Resting
    BY <1>2 DEF Shape, Well, StoreGame, Resting
  <2>5. x.game.id \in Nat \ {0}
    BY <2>3, <2>4 DEF DraftIds
  <2> QED BY <2>1, <2>2, <2>5
<1> QED BY <1>1, <1>2 DEF DraftStep

LEMMA PublicFrame ==
  ASSUME Shape, NEW p \in Procs, cmd[p].kind = "public", PublicOwn(p)
  PROVE  /\ Own(p) /\ UNCHANGED <<matches, snapshots, names>>
         /\ \E id \in Int : id < 0 /\ TouchesOnly(id)
<1>1. CASE StorePublicGame(p)
  <2> DEFINE n == Head(cmd[p].todo)
  <2>1. /\ Own(p) /\ UpsertGame(cmd[p].seen, n.game, n.actions) /\ HasNorm(cmd[p])
    BY <1>1, StorePublicGameIs
  <2>2. n.game.id \in Int /\ n.game.id < 0
    BY <2>1, NormMet
  <2>3. TouchesOnly(n.game.id)
    BY <2>1, UpsertTouches
  <2> HIDE DEF n
  <2> QED BY <2>1, <2>2, <2>3 DEF UpsertGame
<1>2. CASE ~StorePublicGame(p)
  <2>1. (EarlyStep(p)) => Own(p) /\ UNCHANGED store
    BY EarlyStepIs
  <2>2. (ReadExisting(p) \/ ReadDraft(p) \/ ReadStats(p)) => Own(p) /\ UNCHANGED store
    BY ReadExistingIs, ReadDraftIs, ReadStatsIs
  <2>3. (ReplaceStats(p) \/ ReplacePoints(p)) => Own(p) /\ UNCHANGED store
    BY ReplaceStatsIs, ReplacePointsIs
  <2>4. (InsertedBefore(p) \/ Lookup(p) \/ Finish(p) \/ Die(p)) => Own(p) /\ UNCHANGED store
    BY LookupIs, EndIs
  <2>5. Own(p) /\ UNCHANGED store
    BY <1>2, <2>1, <2>2, <2>3, <2>4 DEF PublicOwn, PageStep, EarlyStep
  <2>6. \A id : Untouched(id)
    BY <2>5, SameTables DEF store
  <2>7. -1 \in Int /\ -1 < 0 /\ TouchesOnly(-1)
    BY <2>6 DEF TouchesOnly
  <2> QED BY <2>5, <2>7 DEF store
<1> QED BY <1>1, <1>2
-----------------------------------------------------------------------------
(* Two commands of a kind that never overlapped are not both running, and  *)
(* a game has one row.                                                     *)
Runs(c) == c.phase \notin Resting
OneAtATime ==
  \A p, q \in Procs : /\ Runs(cmd[p]) /\ Runs(cmd[q]) /\ cmd[p].kind = cmd[q].kind
                     /\ cmd[p].kind \notin raced
                     => p = q
OneRow(table) == \A g, h \in table : g.id = h.id => g = h
SyncInv == Shape /\ OneAtATime /\ OneRow(games)

LEMMA UpsertKeepsOneRow ==
  ASSUME OneRow(games), NEW seen, NEW g, NEW actions, UpsertGame(seen, g, actions)
  PROVE  OneRow(games')
BY DEF OneRow, UpsertGame, Replaced, OfSource

LEMMA SyncInvInit == PublicInit => SyncInv
<1> SUFFICES ASSUME PublicInit PROVE OneAtATime /\ OneRow(games)
  BY ShapeInit DEF SyncInv
<1>1. games = {} /\ \A p \in Procs : cmd[p] = Idle
  BY DEF PublicInit, SyncInit, StoreInit
<1>2. Idle.phase \in Resting
  BY DEF Idle, Resting
<1> QED BY <1>1, <1>2 DEF OneAtATime, OneRow, Runs

LEMMA SyncInvStep ==
  ASSUME SyncInv, [PublicNext]_publicVars PROVE SyncInv'
<1>1. Shape /\ Shape'
  BY ShapeStep DEF SyncInv
<1>2. OneAtATime'
  <2>1. CASE UNCHANGED <<cmd, raced>>
    BY <2>1 DEF SyncInv, OneAtATime
  <2>2. ASSUME NEW p \in Procs, Own(p) PROVE OneAtATime'
    <3>1. raced' = raced /\ \A q \in Procs : q # p => cmd'[q] = cmd[q]
      BY <2>2 DEF Own
    <3>2. Runs(cmd[p]) /\ cmd'[p].kind = cmd[p].kind
      BY <2>2 DEF Own, Active, Runs, Resting
    <3> QED BY <3>1, <3>2 DEF SyncInv, OneAtATime
  <2>3. ASSUME NEW p \in Procs, Starts(p) PROVE OneAtATime'
    <3>1. PICK d \in FreshForms :
             /\ ~Active(p)
             /\ cmd' = [q \in Procs |-> IF q = p THEN d ELSE cmd[q]]
             /\ raced' = raced \cup {k \in {d.kind} : \E q \in Procs : Active(q) /\ cmd[q].kind = k}
      BY <1>1, <2>3, StartIs
    <3>2. \A q \in Procs : cmd'[q] = IF q = p THEN d ELSE cmd[q]
      BY <3>1
    <3>3. ASSUME NEW q \in Procs, q # p, Runs(cmd'[q]), cmd'[q].kind = d.kind PROVE d.kind \in raced'
      <4>1. Active(q) /\ cmd[q].kind = d.kind
        BY <3>2, <3>3 DEF Active, Runs, Resting
      <4> QED BY <3>1, <4>1
    <3> QED BY <3>1, <3>2, <3>3 DEF SyncInv, OneAtATime
  <2>4. CASE UNCHANGED publicVars \/ ProviderMoves
    BY <2>1, <2>4 DEF publicVars, sync, ProviderMoves
  <2> QED BY <1>1, <2>2, <2>3, <2>4, StepsByKind, MatchFrame, DraftFrame, RosterFrame, PublicFrame
          DEF AnyStep
<1>3. OneRow(games')
  <2>1. CASE UNCHANGED games
    BY <2>1 DEF SyncInv
  <2>2. ASSUME NEW p \in Procs, StoreGame(p) PROVE OneRow(games')
    BY <2>2, UpsertKeepsOneRow DEF StoreGame, SyncInv
  <2>3. ASSUME NEW p \in Procs, StorePublicGame(p) PROVE OneRow(games')
    BY <2>3, UpsertKeepsOneRow DEF StorePublicGame, SyncInv
  <2>4. CASE UNCHANGED publicVars \/ ProviderMoves
    BY <2>1, <2>4 DEF publicVars, sync, store, ProviderMoves
  <2>5. ASSUME NEW p \in Procs, Starts(p) PROVE OneRow(games')
    BY <1>1, <2>1, <2>5, StartIs DEF store
  <2>6. ASSUME NEW p \in Procs, cmd[p].kind = "draft", DraftStep(p) PROVE OneRow(games')
    <3>1. CASE FetchProPage(p) \/ FetchDetail(p) \/ Collected(p)
               \/ Lookup(p) \/ Refused(p) \/ Finish(p) \/ Die(p)
      <4>1. UNCHANGED store
        BY <1>1, <2>6, <3>1, FetchProPageIs, FetchDetailIs, CollectedIs, LookupIs, EndIs
      <4> QED BY <2>1, <4>1 DEF store
    <3> QED BY <2>2, <2>6, <3>1 DEF DraftStep
  <2>7. ASSUME NEW p \in Procs, cmd[p].kind = "public", PublicOwn(p) PROVE OneRow(games')
    <3>1. EarlyStep(p) => UNCHANGED store
      BY <1>1, <2>7, EarlyStepIs
    <3>2. ReadExisting(p) \/ ReadDraft(p) \/ ReadStats(p) \/ ReplaceStats(p) \/ ReplacePoints(p)
          => UNCHANGED store
      BY <1>1, <2>7, ReadExistingIs, ReadDraftIs, ReadStatsIs, ReplaceStatsIs, ReplacePointsIs
    <3>3. InsertedBefore(p) \/ Lookup(p) \/ Finish(p) \/ Die(p) => UNCHANGED store
      BY <1>1, <2>7, LookupIs, EndIs
    <3>4. UNCHANGED store \/ StorePublicGame(p)
      BY <2>7, <3>1, <3>2, <3>3 DEF PublicOwn, PageStep, EarlyStep
    <3> QED BY <2>1, <2>3, <3>4 DEF store
  <2> QED BY <1>1, <2>1, <2>4, <2>5, <2>6, <2>7, StepsByKind, MatchFrame, RosterFrame DEF AnyStep
<1> QED BY <1>1, <1>2, <1>3 DEF SyncInv
-----------------------------------------------------------------------------
(* Rosters: of what a tournament's answer named, a record waits to be      *)
(* stored or is available since some time, and no command goes by a row    *)
(* for which it would put a later time in its place.                       *)
Available(table, roster, at) ==
  roster \in DOMAIN table /\ table[roster] \in Nat /\ table[roster] <= at
Keeps(d, roster, at) ==
  d.kind = "roster" /\ d.phase = "found" /\ Head(d.todo).roster = roster
  => d.from <= at \/ \E x \in d.seen : d.from >= x
Settled(table, cmds, roster, at) ==
  Available(table, roster, at) /\ \A q \in Procs : Keeps(cmds[q], roster, at)

(* Settled by the end of the command, and by its start when no two overlap. *)
SeenInTime(table, cmds, over, roster, start, last) ==
  /\ Settled(table, cmds, roster, last)
  /\ "roster" \notin over => Settled(table, cmds, roster, start)
Answered(table, cmds, over, c, k, last) ==
  \E v \in c.from .. last :
     \A s \in Range(Snapshots(c.rows[k], Feed[v].rosters[c.rows[k]], c.from)) :
        s \in Range(c.todo) \/ SeenInTime(table, cmds, over, s.roster, c.from, last)
RosterWork(table, cmds, over, c, now) ==
  c.kind = "roster" =>
    /\ c.phase \in {"roster", "store", "found"} => \A s \in Range(c.todo) : s.observed = c.from
    /\ c.phase = "roster" => c.cursor <= Len(c.rows)
    /\ c.phase \in {"store", "found", "done"} => c.cursor = Len(c.rows)
    /\ c.phase \in {"roster", "store", "found"} =>
          \A k \in 1 .. c.cursor : Answered(table, cmds, over, c, k, now)
    /\ c.phase = "done" =>
          c.todo = << >> /\ \A k \in 1 .. c.cursor : Answered(table, cmds, over, c, k, c.to)

(* A row that was read is still there, and as it was without an overlap.   *)
SeenStands(table, over, c) ==
  c.kind = "roster" /\ c.phase = "found" =>
    /\ c.seen # {} => Head(c.todo).roster \in DOMAIN table
    /\ "roster" \notin over => c.seen = {table[r] : r \in DOMAIN table \cap {Head(c.todo).roster}}
RosterInv ==
  /\ \A r \in DOMAIN snapshots : snapshots[r] \in Nat /\ snapshots[r] <= feed
  /\ \A p \in Procs : RosterWork(snapshots, cmd, raced, cmd[p], feed)
  /\ \A p \in Procs : SeenStands(snapshots, raced, cmd[p])

(* Once settled at a time, always settled at it, whatever a step does.     *)
SettledStays ==
  \A roster : \A at \in Nat :
     Settled(snapshots, cmd, roster, at) => Settled(snapshots', cmd', roster, at)

LEMMA Widened ==
  ASSUME NEW table, NEW cmds, \A q \in Procs : cmds[q].from \in Nat, NEW roster,
         NEW at \in Nat, NEW later \in Nat, at <= later, Settled(table, cmds, roster, at)
  PROVE  Settled(table, cmds, roster, later)
<1>1. Available(table, roster, later)
  BY DEF Settled, Available
<1>2. ASSUME NEW q \in Procs PROVE Keeps(cmds[q], roster, later)
  <2>1. Keeps(cmds[q], roster, at)
    BY DEF Settled
  <2>2. cmds[q].from <= at => cmds[q].from <= later
    OBVIOUS
  <2> QED BY <2>1, <2>2 DEF Keeps
<1> QED BY <1>1, <1>2 DEF Settled

LEMMA AnsweredOn ==
  ASSUME NEW c, NEW d, NEW k, NEW last \in Nat, NEW further \in Nat, last <= further,
         c.from \in Nat, d.from = c.from, d.rows = c.rows, Shape', raced \subseteq raced',
         SettledStays, Answered(snapshots, cmd, raced, c, k, last),
         \A s \in Range(c.todo) :
            s \in Range(d.todo) \/ SeenInTime(snapshots', cmd', raced', s.roster, c.from, further)
  PROVE  Answered(snapshots', cmd', raced', d, k, further)
<1>1. PICK v \in c.from .. last :
         \A s \in Range(Snapshots(c.rows[k], Feed[v].rosters[c.rows[k]], c.from)) :
            s \in Range(c.todo) \/ SeenInTime(snapshots, cmd, raced, s.roster, c.from, last)
  BY DEF Answered
<1>2. v \in c.from .. further
  BY <1>1
<1>3. \A q \in Procs : cmd'[q].from \in Nat
  BY DEF Shape, Well
<1>4. ASSUME NEW roster, SeenInTime(snapshots, cmd, raced, roster, c.from, last)
      PROVE  SeenInTime(snapshots', cmd', raced', roster, c.from, further)
  <2>1. Settled(snapshots', cmd', roster, last)
    BY <1>4 DEF SeenInTime, SettledStays
  <2>2. Settled(snapshots', cmd', roster, further)
    BY <1>3, <2>1, Widened
  <2>3. "roster" \notin raced' => Settled(snapshots', cmd', roster, c.from)
    BY <1>4 DEF SeenInTime, SettledStays
  <2> QED BY <2>2, <2>3 DEF SeenInTime
<1> QED BY <1>1, <1>2, <1>4 DEF Answered

(* Commands that do not move keep their part.                              *)
LEMMA RosterWorkStays ==
  ASSUME Shape, Shape', RosterInv, SettledStays, raced \subseteq raced', feed <= feed',
         NEW q \in Procs, cmd'[q] = cmd[q]
  PROVE  RosterWork(snapshots', cmd', raced', cmd[q], feed')
<1> DEFINE c == cmd[q]
<1>1. RosterWork(snapshots, cmd, raced, c, feed) /\ c.from \in Nat /\ c.to \in Nat
      /\ feed \in Nat /\ feed' \in Nat
  BY DEF RosterInv, Shape, Well
<1>2. ASSUME NEW k, NEW last \in Nat, NEW further \in Nat, last <= further,
             Answered(snapshots, cmd, raced, c, k, last)
      PROVE  Answered(snapshots', cmd', raced', c, k, further)
  BY <1>1, <1>2, AnsweredOn
<1> SUFFICES ASSUME c.kind = "roster" PROVE RosterWork(snapshots', cmd', raced', c, feed')
  BY DEF RosterWork
<1>3. c.phase \in {"roster", "store", "found"} =>
         \A k \in 1 .. c.cursor : Answered(snapshots', cmd', raced', c, k, feed')
  BY <1>1, <1>2 DEF RosterWork
<1>4. c.phase = "done" => \A k \in 1 .. c.cursor : Answered(snapshots', cmd', raced', c, k, c.to)
  BY <1>1, <1>2 DEF RosterWork
<1> HIDE DEF c
<1> QED BY <1>1, <1>3, <1>4 DEF RosterWork

(* A step that writes no roster and lets no command read one.              *)
LEMMA QuietStep ==
  ASSUME UNCHANGED snapshots,
         \A q \in Procs : cmd'[q] = cmd[q] \/ ~(cmd'[q].kind = "roster" /\ cmd'[q].phase = "found")
  PROVE  SettledStays
BY DEF SettledStays, Settled, Keeps

LEMMA QuietKeeps ==
  ASSUME Shape, Shape', RosterInv, UNCHANGED snapshots, raced \subseteq raced', feed <= feed',
         \A q \in Procs : \/ cmd'[q] = cmd[q]
                          \/ /\ ~(cmd'[q].kind = "roster" /\ cmd'[q].phase = "found")
                             /\ RosterWork(snapshots', cmd', raced', cmd'[q], feed')
  PROVE  RosterInv'
<1>1. SettledStays
  BY QuietStep
<1>2. \A q \in Procs : RosterWork(snapshots', cmd', raced', cmd'[q], feed')
  BY <1>1, RosterWorkStays
<1>3. \A q \in Procs : SeenStands(snapshots', raced', cmd'[q])
  BY DEF RosterInv, SeenStands
<1>4. \A r \in DOMAIN snapshots' : snapshots'[r] \in Nat /\ snapshots'[r] <= feed'
  <2>1. feed \in Nat /\ feed' \in Nat
    BY DEF Shape
  <2> QED BY <2>1 DEF RosterInv
<1> QED BY <1>2, <1>3, <1>4 DEF RosterInv

(* The command moves on within its work.                                   *)
LEMMA FetchKeeps ==
  ASSUME Shape, Shape', RosterInv, NEW p \in Procs, cmd[p].kind = "roster", FetchRoster(p)
  PROVE  RosterInv'
<1> DEFINE c == cmd[p]
           d == cmd'[p]
           tour == c.rows[c.cursor + 1]
           new == Snapshots(tour, Feed[feed].rosters[tour], c.from)
<1>1. /\ Own(p) /\ Well(c, feed) /\ RosterWork(snapshots, cmd, raced, c, feed)
      /\ feed \in Nat /\ feed' = feed /\ raced' = raced
      /\ c.kind = "roster" /\ d.kind = "roster" /\ d.from = c.from /\ c.from \in Nat
      /\ IsList(c.todo) /\ IsList(c.rows) /\ c.from <= feed
  BY FetchRosterIs DEF RosterInv, Shape, Own, Well
<1>2. /\ UNCHANGED store /\ c.phase = "roster" /\ d.phase = "roster" /\ d.rows = c.rows
      /\ d.cursor = c.cursor + 1 /\ IsList(new) /\ d.todo = c.todo \o new
      /\ \A s \in Range(new) : s.observed = c.from
  BY FetchRosterIs
<1>3. c.cursor < Len(c.rows) /\ c.cursor \in Nat /\ Len(c.rows) \in Nat
  BY <1>1, <1>2, ListBasics DEF FetchRoster, Well, Resting
<1>4. UNCHANGED snapshots /\ \A q \in Procs : q # p => cmd'[q] = cmd[q]
  BY <1>1, <1>2 DEF store, Own
<1>5. SettledStays
  BY <1>2, <1>4, QuietStep
<1>6. Range(d.todo) = Range(c.todo) \cup Range(new)
  BY <1>1, <1>2, Joined
<1>7. ASSUME NEW k \in 1 .. d.cursor PROVE Answered(snapshots', cmd', raced', d, k, feed')
  <2>1. CASE k \in 1 .. c.cursor
    <3>1. Answered(snapshots, cmd, raced, c, k, feed)
      BY <1>1, <1>2, <2>1 DEF RosterWork
    <3>2. feed <= feed' /\ raced \subseteq raced' /\ feed' \in Nat
          /\ \A s \in Range(c.todo) : s \in Range(d.todo)
      BY <1>1, <1>6
    <3>3. d.from = c.from /\ d.rows = c.rows
      BY <1>1, <1>2
    <3> HIDE DEF c, d, new, tour
    <3> QED BY <1>1, <1>5, <3>1, <3>2, <3>3, AnsweredOn
  <2>2. CASE k = c.cursor + 1
    <3>1. feed \in c.from .. feed
      BY <1>1
    <3>2. \A s \in Range(new) : s \in Range(d.todo)
      BY <1>6
    <3> QED BY <1>1, <1>2, <2>2, <3>1, <3>2 DEF Answered
  <2>3. k \in 1 .. c.cursor \/ k = c.cursor + 1
    <3>1. c.cursor \in Nat /\ d.cursor = c.cursor + 1 /\ k \in 1 .. d.cursor
      BY <1>2, <1>3
    <3> HIDE DEF c, d
    <3> QED BY <3>1
  <2> QED BY <2>1, <2>2, <2>3
<1>8. \A s \in Range(d.todo) : s.observed = d.from
  BY <1>1, <1>2, <1>6 DEF RosterWork
<1> HIDE DEF new
<1>9. RosterWork(snapshots', cmd', raced', d, feed')
  BY <1>1, <1>2, <1>3, <1>7, <1>8 DEF RosterWork
<1> QED BY <1>1, <1>2, <1>4, <1>9, QuietKeeps

LEMMA EndKeeps ==
  ASSUME Shape, Shape', RosterInv, NEW p \in Procs, cmd[p].kind = "roster",
         Collected(p) \/ Refused(p) \/ Finish(p) \/ Die(p)
  PROVE  RosterInv'
<1> DEFINE c == cmd[p]
           d == cmd'[p]
<1>1. Well(c, feed) /\ RosterWork(snapshots, cmd, raced, c, feed)
      /\ c.kind = "roster" /\ c.from \in Nat /\ IsList(c.todo) /\ IsList(c.rows) /\ feed \in Nat
  BY DEF RosterInv, Shape, Well
<1>2. /\ Own(p) /\ UNCHANGED store /\ d.rows = c.rows /\ d.todo = c.todo
      /\ \/ d.phase = "failed"
         \/ c.phase = "roster" /\ d.phase = "store" /\ d.cursor = c.cursor /\ c.cursor = Len(c.rows)
         \/ c.phase = "store" /\ d.phase = "done" /\ d.to = feed /\ c.todo = << >>
            /\ d.cursor = c.cursor
  <2>1. CASE Collected(p)
    <3>1. c.phase # "detail"
      BY <1>1 DEF Well, PhaseFits, Resting, PagePhases, NormPhases
    <3> QED BY <2>1, <3>1, CollectedIs
  <2>2. CASE Finish(p)
    <3>1. d = [c EXCEPT !.phase = "done", !.to = feed]
      BY <2>2 DEF Finish, Set, Shape
    <3> QED BY <1>1, <2>2, <3>1, EndIs DEF Finish, Well, Fields
  <2>3. CASE Die(p) \/ Refused(p)
    <3>1. d = [c EXCEPT !.phase = "failed"]
      BY <2>3 DEF Die, Refused, Set, Shape
    <3> QED BY <1>1, <2>3, <3>1, EndIs DEF Well, Fields
  <2> QED BY <2>1, <2>2, <2>3
<1>3. /\ UNCHANGED snapshots /\ raced' = raced /\ feed' = feed /\ d.kind = "roster" /\ d.from = c.from
      /\ d.phase # "found" /\ \A q \in Procs : q # p => cmd'[q] = cmd[q]
  BY <1>1, <1>2 DEF store, Own
<1>4. SettledStays
  BY <1>3, QuietStep
<1>5. \A k : Answered(snapshots, cmd, raced, c, k, feed) => Answered(snapshots', cmd', raced', d, k, feed)
  <2> HIDE DEF c, d
  <2> QED BY <1>1, <1>2, <1>3, <1>4, AnsweredOn
<1>6. RosterWork(snapshots', cmd', raced', d, feed')
  <2> HIDE DEF c, d
  <2>1. CASE d.phase = "failed"
    BY <2>1 DEF RosterWork
  <2>2. CASE c.phase = "roster" /\ d.phase = "store" /\ d.cursor = c.cursor /\ c.cursor = Len(c.rows)
    BY <1>1, <1>2, <1>3, <1>5, <2>2 DEF RosterWork
  <2>3. CASE c.phase = "store" /\ d.phase = "done" /\ d.to = feed /\ c.todo = << >> /\ d.cursor = c.cursor
    BY <1>1, <1>2, <1>3, <1>5, <2>3 DEF RosterWork
  <2> QED BY <1>2, <2>1, <2>2, <2>3
<1>7. feed <= feed' /\ raced \subseteq raced'
  BY <1>1, <1>3
<1> QED BY <1>3, <1>6, <1>7, QuietKeeps

(* A command that reads a settled roster reads a time that holds it back.  *)
LEMMA LookupKeeps ==
  ASSUME Shape, Shape', RosterInv, NEW p \in Procs, cmd[p].kind = "roster", Lookup(p)
  PROVE  RosterInv'
<1> DEFINE c == cmd[p]
           d == cmd'[p]
           key == Head(c.todo).roster
<1>1. Well(c, feed) /\ RosterWork(snapshots, cmd, raced, c, feed)
      /\ c.kind = "roster" /\ c.from \in Nat /\ feed \in Nat
  BY DEF RosterInv, Shape, Well
<1>2. /\ Own(p) /\ UNCHANGED store /\ c.phase = "store" /\ d.phase = "found" /\ d.rows = c.rows
      /\ d.todo = c.todo /\ d.cursor = c.cursor
      /\ d.seen = {snapshots[r] : r \in DOMAIN snapshots \cap {key}}
  BY <1>1, LookupIs DEF RowsOf, ObservedAt
<1>3. /\ UNCHANGED snapshots /\ raced' = raced /\ feed' = feed /\ d.kind = "roster" /\ d.from = c.from
      /\ \A q \in Procs : q # p => cmd'[q] = cmd[q]
  BY <1>1, <1>2 DEF store, Own
<1>4. SettledStays
  <2> SUFFICES ASSUME NEW roster, NEW at \in Nat, Settled(snapshots, cmd, roster, at)
               PROVE  Keeps(d, roster, at)
    BY <1>3 DEF SettledStays, Settled
  <2>1. snapshots[roster] \in Nat /\ snapshots[roster] <= at /\ roster \in DOMAIN snapshots
    BY DEF Settled, Available
  <2>2. Head(d.todo).roster = roster => snapshots[roster] \in d.seen
    BY <1>2, <2>1
  <2>3. d.from <= at \/ d.from >= snapshots[roster]
    <3>1. d.from \in Nat
      BY <1>1, <1>3
    <3> QED BY <2>1, <3>1
  <2> HIDE DEF d
  <2> QED BY <2>2, <2>3 DEF Keeps
<1>5. \A k : Answered(snapshots, cmd, raced, c, k, feed) => Answered(snapshots', cmd', raced', d, k, feed)
  <2> HIDE DEF c, d
  <2> QED BY <1>1, <1>2, <1>3, <1>4, AnsweredOn
<1>6. RosterWork(snapshots', cmd', raced', d, feed')
  <2> HIDE DEF c, d
  <2> QED BY <1>1, <1>2, <1>3, <1>5 DEF RosterWork
<1>7. \A q \in Procs : RosterWork(snapshots', cmd', raced', cmd'[q], feed')
  <2>1. feed <= feed' /\ raced \subseteq raced'
    BY <1>1, <1>3
  <2> HIDE DEF c, d, key
  <2> QED BY <1>3, <1>4, <1>6, <2>1, RosterWorkStays DEF d
<1>8. SeenStands(snapshots', raced', d)
  BY <1>2, <1>3 DEF SeenStands
<1>9. \A q \in Procs : SeenStands(snapshots', raced', cmd'[q])
  BY <1>3, <1>8 DEF RosterInv, SeenStands
<1> QED BY <1>3, <1>7, <1>9 DEF RosterInv

(* The command writes by the row it saw, or by the row that is there.      *)
LEMMA StoreKeeps ==
  ASSUME SyncInv, Shape', RosterInv, NEW p \in Procs, cmd[p].kind = "roster",
         NEW seen, UpsertSnapshot(seen, Head(cmd[p].todo)),
         \/ StoreRoster(p) /\ seen = cmd[p].seen
         \/ StoreRosterRenamed(p) /\ seen = ObservedAt(Head(cmd[p].todo).roster)
  PROVE  RosterInv'
<1> DEFINE c == cmd[p]
           d == cmd'[p]
           s == Head(c.todo)
           key == s.roster
<1> USE DEF SyncInv
<1>1. Shape /\ Well(c, feed) /\ RosterWork(snapshots, cmd, raced, c, feed)
      /\ c.kind = "roster" /\ c.from \in Nat /\ feed \in Nat /\ IsList(c.todo) /\ c.from <= feed
  BY DEF RosterInv, Shape, Well
<1>2. /\ Own(p) /\ c.todo # << >> /\ c.phase \in {"store", "found"} /\ d.phase = "store"
      /\ d.todo = Tail(c.todo) /\ d.rows = c.rows /\ d.cursor = c.cursor
  BY <1>1, StoredIs DEF StoreRoster, StoreRosterRenamed
<1>3. /\ raced' = raced /\ feed' = feed /\ d.kind = "roster" /\ d.from = c.from
      /\ \A q \in Procs : q # p => cmd'[q] = cmd[q]
  BY <1>2 DEF Own
<1>4. s \in Range(c.todo) /\ Range(c.todo) = {s} \cup Range(d.todo)
  BY <1>1, <1>2, TailOf
<1>5. s.observed = c.from
  BY <1>1, <1>2, <1>4 DEF RosterWork
<1>6. /\ seen # {} => key \in DOMAIN snapshots
      /\ "roster" \notin raced => seen = {snapshots[r] : r \in DOMAIN snapshots \cap {key}}
  BY DEF RosterInv, SeenStands, StoreRoster, ObservedAt
<1> HIDE DEF s
<1>7. /\ key \in DOMAIN snapshots'
      /\ \A r \in DOMAIN snapshots' : r # key => r \in DOMAIN snapshots /\ snapshots'[r] = snapshots[r]
      /\ DOMAIN snapshots \subseteq DOMAIN snapshots'
      /\ \A r \in DOMAIN snapshots : r # key => snapshots'[r] = snapshots[r]
      /\ \/ snapshots' = snapshots /\ \E at \in seen : c.from >= at
         \/ snapshots'[key] = c.from /\ ~ (\E at \in seen : c.from >= at)
  BY <1>5, <1>6 DEF UpsertSnapshot, Put, s
<1>8. SettledStays
  <2> SUFFICES ASSUME NEW roster, NEW at \in Nat, Settled(snapshots, cmd, roster, at)
               PROVE  Settled(snapshots', cmd', roster, at)
    BY DEF SettledStays
  <2>1. \A q \in Procs : Keeps(cmd'[q], roster, at)
    BY <1>2, <1>3 DEF Settled, Keeps
  <2>2. Available(snapshots, roster, at) /\ Keeps(c, roster, at)
    BY DEF Settled
  <2>3. CASE roster # key \/ snapshots' = snapshots
    BY <1>7, <2>1, <2>2, <2>3 DEF Settled, Available
  <2>4. CASE roster = key /\ snapshots'[key] = c.from /\ ~ (\E x \in seen : c.from >= x)
    <3>1. CASE StoreRoster(p) /\ seen = c.seen
      <4>1. c.from <= at
        BY <2>2, <2>4, <3>1 DEF Keeps, StoreRoster, s
      <4> QED BY <1>1, <1>7, <2>1, <2>4, <4>1 DEF Settled, Available
    <3>2. CASE seen = ObservedAt(key)
      <4>1. snapshots[key] \in seen /\ snapshots[key] \in Nat /\ snapshots[key] <= at
        BY <2>2, <2>4, <3>2 DEF ObservedAt, Available
      <4>2. c.from <= at
        BY <1>1, <2>4, <4>1
      <4> QED BY <1>1, <1>7, <2>1, <2>4, <4>2 DEF Settled, Available
    <3> QED BY <3>1, <3>2 DEF s
  <2> QED BY <1>7, <2>3, <2>4
<1>9. \A r \in DOMAIN snapshots' : snapshots'[r] \in Nat /\ snapshots'[r] <= feed'
  <2> HIDE DEF c, d, key
  <2> QED BY <1>1, <1>3, <1>7 DEF RosterInv
<1>10. SeenInTime(snapshots', cmd', raced', key, c.from, feed)
  <2>1. Settled(snapshots', cmd', key, feed)
    <3>1. \A q \in Procs : cmd'[q].from <= feed
      BY <1>3 DEF Shape, Well
    <3> QED BY <1>3, <1>7, <1>9, <3>1 DEF Settled, Available, Keeps
  <2>2. ASSUME "roster" \notin raced PROVE Settled(snapshots', cmd', key, c.from)
    <3>1. Available(snapshots', key, c.from)
      <4>1. CASE snapshots'[key] = c.from
        BY <1>1, <1>7, <4>1 DEF Available
      <4>2. CASE snapshots' = snapshots /\ \E at \in seen : c.from >= at
        <5>1. c.from >= snapshots[key] /\ key \in DOMAIN snapshots
          BY <1>6, <2>2, <4>2
        <5>2. snapshots'[key] \in Nat /\ c.from >= snapshots'[key]
          BY <1>9, <4>2, <5>1
        <5> QED BY <1>1, <1>7, <5>2 DEF Available
      <4> QED BY <1>7, <4>1, <4>2
    <3>2. ASSUME NEW q \in Procs PROVE Keeps(cmd'[q], key, c.from)
      <4>1. CASE q = p
        BY <1>2, <4>1 DEF Keeps
      <4>2. CASE q # p
        <5>1. Runs(c)
          BY <1>2 DEF Runs, Resting
        <5>2. cmd[q].kind = "roster" => ~Runs(cmd[q])
          BY <1>1, <2>2, <4>2, <5>1 DEF OneAtATime
        <5>3. ~(cmd'[q].kind = "roster" /\ cmd'[q].phase = "found")
          BY <1>3, <4>2, <5>2 DEF Runs, Resting
        <5> QED BY <5>3 DEF Keeps
      <4> QED BY <4>1, <4>2
    <3> QED BY <3>1, <3>2 DEF Settled
  <2> QED BY <1>3, <2>1, <2>2 DEF SeenInTime
<1>11. \A k : Answered(snapshots, cmd, raced, c, k, feed) => Answered(snapshots', cmd', raced', d, k, feed)
  <2>1. \A x \in Range(c.todo) :
           x \in Range(d.todo) \/ SeenInTime(snapshots', cmd', raced', x.roster, c.from, feed)
    BY <1>4, <1>10
  <2> HIDE DEF c, d
  <2> QED BY <1>1, <1>2, <1>3, <1>8, <2>1, AnsweredOn
<1>12. RosterWork(snapshots', cmd', raced', d, feed')
  <2> HIDE DEF c, d
  <2> QED BY <1>1, <1>2, <1>3, <1>4, <1>11 DEF RosterWork
<1>13. \A q \in Procs : RosterWork(snapshots', cmd', raced', cmd'[q], feed')
  BY <1>1, <1>3, <1>8, <1>12, RosterWorkStays
<1>14. ASSUME NEW q \in Procs PROVE SeenStands(snapshots', raced', cmd'[q])
  <2>1. CASE q = p
    BY <1>2, <2>1 DEF SeenStands
  <2>2. CASE q # p
    <3>1. "roster" \notin raced => ~(cmd[q].kind = "roster" /\ cmd[q].phase = "found")
      <4>1. Runs(c)
        BY <1>2 DEF Runs, Resting
      <4> QED BY <1>1, <2>2, <4>1 DEF OneAtATime, Runs, Resting
    <3> QED BY <1>3, <1>7, <2>2, <3>1 DEF SeenStands, RosterInv
  <2> QED BY <2>1, <2>2
<1> QED BY <1>9, <1>13, <1>14 DEF RosterInv

LEMMA RosterStepKeeps ==
  ASSUME SyncInv, Shape', RosterInv, NEW p \in Procs, cmd[p].kind = "roster", RosterStep(p)
  PROVE  RosterInv'
<1>1. Shape
  BY DEF SyncInv
<1>2. CASE FetchRoster(p)
  BY <1>1, <1>2, FetchKeeps
<1>3. CASE Collected(p) \/ Refused(p) \/ Finish(p) \/ Die(p)
  BY <1>1, <1>3, EndKeeps
<1>4. CASE Lookup(p)
  BY <1>1, <1>4, LookupKeeps
<1>5. CASE StoreRoster(p)
  <2>1. UpsertSnapshot(cmd[p].seen, Head(cmd[p].todo))
    BY <1>5 DEF StoreRoster
  <2> QED BY <1>5, <2>1, StoreKeeps
<1>6. CASE StoreRosterRenamed(p)
  <2>1. UpsertSnapshot(ObservedAt(Head(cmd[p].todo).roster), Head(cmd[p].todo))
    BY <1>6 DEF StoreRosterRenamed, UpsertRoster
  <2> QED BY <1>6, <2>1, StoreKeeps
<1> QED BY <1>2, <1>3, <1>4, <1>5, <1>6 DEF RosterStep

LEMMA RosterInvStep ==
  ASSUME SyncInv, Shape', RosterInv, [PublicNext]_publicVars PROVE RosterInv'
<1>1. Shape /\ feed \in Nat /\ feed <= feed + 1 /\ feed <= feed
  BY DEF SyncInv, Shape
<1>2. CASE UNCHANGED publicVars \/ ProviderMoves
  <2>1. UNCHANGED <<snapshots, cmd, raced>> /\ feed <= feed'
    BY <1>1, <1>2 DEF publicVars, sync, store, ProviderMoves
  <2> QED BY <1>1, <2>1, QuietKeeps
<1>3. ASSUME NEW p \in Procs, Starts(p) PROVE RosterInv'
  <2>1. PICK d \in FreshForms :
           /\ cmd' = [q \in Procs |-> IF q = p THEN d ELSE cmd[q]]
           /\ raced' = raced \cup {k \in {d.kind} : \E q \in Procs : Active(q) /\ cmd[q].kind = k}
           /\ UNCHANGED <<store, feed>>
    BY <1>1, <1>3, StartIs
  <2>2. UNCHANGED <<snapshots, feed>> /\ raced \subseteq raced'
    BY <2>1 DEF store
  <2>3. /\ IsList(d.rows) /\ d.todo = << >> /\ d.cursor = 0
        /\ d.phase \notin {"store", "found", "done"}
    BY <1>1, <2>1, FreshIsWell DEF Well, Resting
  <2>4. RosterWork(snapshots', cmd', raced', d, feed')
    BY <2>3, EmptyList, ListBasics DEF RosterWork
  <2>5. \A q \in Procs : cmd'[q] = IF q = p THEN d ELSE cmd[q]
    BY <2>1
  <2> QED BY <1>1, <2>2, <2>3, <2>4, <2>5, QuietKeeps
<1>4. ASSUME NEW p \in Procs, Own(p), UNCHANGED snapshots, cmd[p].kind # "roster" PROVE RosterInv'
  <2>1. /\ raced' = raced /\ feed' = feed /\ cmd'[p].kind # "roster"
        /\ \A q \in Procs : q # p => cmd'[q] = cmd[q]
    BY <1>4 DEF Own
  <2>2. RosterWork(snapshots', cmd', raced', cmd'[p], feed')
    BY <2>1 DEF RosterWork
  <2> QED BY <1>1, <1>4, <2>1, <2>2, QuietKeeps
<1>5. AnyStep
  BY <1>1, StepsByKind
<1> QED BY <1>1, <1>2, <1>3, <1>4, <1>5, MatchFrame, DraftFrame, PublicFrame, RosterStepKeeps
        DEF AnyStep

(* What a tournament's answer named is available to every query from the   *)
(* time the finished roster sync ended, although its read of a row and its *)
(* write are two steps and other syncs write between them; and from the    *)
(* time it began when none overlapped.                                     *)
THEOREM RostersStayAvailable == PublicSpec => []RostersAvailable
<1>1. PublicInit => SyncInv /\ RosterInv
  <2> SUFFICES ASSUME PublicInit PROVE RosterInv
    BY SyncInvInit
  <2>1. snapshots = << >> /\ \A p \in Procs : cmd[p] = Idle
    BY DEF PublicInit, SyncInit, StoreInit
  <2>2. Idle.kind # "roster"
    BY DEF Idle
  <2> QED BY <2>1, <2>2 DEF RosterInv, RosterWork, SeenStands
<1>2. SyncInv /\ RosterInv /\ [PublicNext]_publicVars => (SyncInv /\ RosterInv)'
  <2> SUFFICES ASSUME SyncInv, RosterInv, [PublicNext]_publicVars PROVE (SyncInv /\ RosterInv)'
    OBVIOUS
  <2>1. SyncInv'
    BY SyncInvStep
  <2>2. Shape'
    BY <2>1 DEF SyncInv
  <2> QED BY <2>1, <2>2, RosterInvStep
<1>3. SyncInv /\ RosterInv => RostersAvailable
  <2> SUFFICES ASSUME Shape, RosterInv, NEW p \in Procs, cmd[p].kind = "roster", cmd[p].phase = "done",
                      NEW t \in Range(cmd[p].rows)
               PROVE  \E v \in cmd[p].from .. cmd[p].to :
                        \A s \in Range(Snapshots(t, Feed[v].rosters[t], cmd[p].from)) :
                          /\ s.roster \in RostersBefore(cmd[p].to + 1)
                          /\ "roster" \notin raced => s.roster \in RostersBefore(cmd[p].from + 1)
    BY DEF RostersAvailable, SyncInv
  <2> DEFINE c == cmd[p]
  <2>1. IsList(c.rows) /\ c.from \in Nat /\ c.to \in Nat
    BY DEF Shape, Well
  <2>2. c.todo = << >> /\ c.cursor = Len(c.rows)
        /\ \A k \in 1 .. c.cursor : Answered(snapshots, cmd, raced, c, k, c.to)
    BY DEF RosterInv, RosterWork
  <2>3. PICK k \in 1 .. Len(c.rows) : c.rows[k] = t
    BY <2>1, ListBasics DEF Range
  <2>4. PICK v \in c.from .. c.to :
          \A s \in Range(Snapshots(t, Feed[v].rosters[t], c.from)) :
             s \in Range(c.todo) \/ SeenInTime(snapshots, cmd, raced, s.roster, c.from, c.to)
    BY <2>2, <2>3 DEF Answered
  <2>5. \A roster, at : at \in Nat /\ Settled(snapshots, cmd, roster, at) => roster \in RostersBefore(at + 1)
    BY DEF Settled, Available, RostersBefore
  <2>6. \A s : s \notin Range(c.todo)
    BY <2>2, EmptyList
  <2> QED BY <2>1, <2>4, <2>5, <2>6 DEF SeenInTime
<1> QED BY <1>1, <1>2, <1>3, PTL DEF PublicSpec
-----------------------------------------------------------------------------
(* Drafts.                                                                 *)
Matching(actions, g) == g.complete <=> Complete(actions)
DraftWork(table, c) ==
  c.kind = "draft" /\ Runs(c) =>
    /\ \A x \in Range(c.todo) : Matching(x.actions, x.game)
    /\ c.phase = "found" => c.seen = OfSource(table, Head(c.todo).game.id)
DraftInv ==
  "draft" \notin raced =>
    DraftMatchesGame /\ \A p \in Procs : DraftWork(games, cmd[p])

LEMMA PositiveStay ==
  ASSUME Shape, NEW low \in Int, low < 0, TouchesOnly(low), NEW c, Well(c, feed), DraftWork(games, c)
  PROVE  DraftWork(games', c)
<1> SUFFICES ASSUME c.kind = "draft", Runs(c), c.phase = "found"
             PROVE  c.seen = OfSource(games', Head(c.todo).game.id)
  BY DEF DraftWork
<1>1. Head(c.todo) \in Range(c.todo)
  BY TailOf DEF Well
<1>2. Head(c.todo).game.id \in Nat \ {0}
  BY <1>1 DEF Well, DraftIds, Runs
<1>3. Untouched(Head(c.todo).game.id)
  BY <1>2 DEF TouchesOnly
<1> QED BY <1>3 DEF DraftWork, Untouched

LEMMA DraftsKeptByOthers ==
  ASSUME DraftMatchesGame, "draft" \notin raced, NEW low \in Int, low < 0, TouchesOnly(low)
  PROVE  \A g \in games' : g.id > 0 => g.id \in DOMAIN drafts' /\ Matching(drafts'[g.id], g)
<1> SUFFICES ASSUME NEW g \in games', g.id > 0
             PROVE  g.id \in DOMAIN drafts' /\ Matching(drafts'[g.id], g)
  OBVIOUS
<1>1. g.id # low
  OBVIOUS
<1>2. Untouched(g.id)
  BY <1>1 DEF TouchesOnly
<1>3. g \in games
  BY <1>2 DEF Untouched, OfSource
<1>4. g.id \in DOMAIN drafts /\ Matching(drafts[g.id], g)
  BY <1>3 DEF DraftMatchesGame, Matching
<1> QED BY <1>2, <1>4 DEF Untouched

LEMMA DraftStepKeeps ==
  ASSUME SyncInv, DraftInv, "draft" \notin raced, NEW p \in Procs, cmd[p].kind = "draft", DraftStep(p)
  PROVE  /\ \A g \in games' : g.id > 0 => g.id \in DOMAIN drafts' /\ Matching(drafts'[g.id], g)
         /\ \A q \in Procs : DraftWork(games', cmd'[q])
<1> DEFINE c == cmd[p]
           d == cmd'[p]
<1>1. /\ Shape /\ Own(p) /\ Well(c, feed) /\ DraftWork(games, c) /\ c.kind = "draft" /\ Runs(c)
      /\ d.kind = "draft" /\ IsList(c.todo) /\ \A q \in Procs : q # p => cmd'[q] = cmd[q]
      /\ \A q \in Procs : DraftWork(games, cmd[q])
  BY DraftFrame DEF SyncInv, DraftInv, Own, Shape, Well, Active, Runs, Resting
<1>2. \A q \in Procs : q # p /\ cmd[q].kind = "draft" => ~Runs(cmd[q])
  BY <1>1 DEF SyncInv, OneAtATime
<1>3. \A q \in Procs : q # p => DraftWork(games', cmd'[q])
  BY <1>1, <1>2 DEF DraftWork
<1>4. \A g \in games : g.id > 0 => g.id \in DOMAIN drafts /\ Matching(drafts[g.id], g)
  BY DEF DraftInv, DraftMatchesGame, Matching
<1>5. CASE UNCHANGED store /\ d.phase # "found" /\ (\/ ~Runs(d) \/ d.todo = c.todo)
  <2>1. DraftWork(games', d)
    BY <1>1, <1>5 DEF DraftWork
  <2> QED BY <1>3, <1>4, <1>5, <2>1 DEF store
<1>6. CASE FetchDetail(p)
  <2>1. UNCHANGED store /\ d.phase = "detail"
    BY <1>1, <1>6, FetchDetailIs
  <2>2. CASE d.todo = c.todo
    BY <1>5, <2>1, <2>2
  <2>3. ASSUME NEW id, NEW detail,
               d.todo = Append(c.todo, [game |-> ToGame(id, detail),
                                        actions |-> DraftActions(detail.picks)])
        PROVE  DraftWork(games', d)
    <3> DEFINE x == [game |-> ToGame(id, detail), actions |-> DraftActions(detail.picks)]
    <3>1. Matching(x.actions, x.game)
      BY DEF Matching, ToGame
    <3> HIDE DEF x
    <3>2. Range(d.todo) = Range(c.todo) \cup {x}
      BY <1>1, <2>3, Appended DEF x
    <3> QED BY <1>1, <2>1, <3>1, <3>2 DEF DraftWork
  <2>4. DraftWork(games', d)
    <3>1. d.todo = c.todo \/ \E id, detail :
                  d.todo = Append(c.todo, [game |-> ToGame(id, detail),
                                           actions |-> DraftActions(detail.picks)])
      BY <1>1, <1>6, FetchDetailIs
    <3>2. d.todo = c.todo => DraftWork(games', d)
      BY <1>1, <2>1 DEF DraftWork
    <3> QED BY <2>3, <3>1, <3>2
  <2> QED BY <1>3, <1>4, <2>1, <2>4 DEF store
<1>7. CASE Lookup(p)
  <2>1. UNCHANGED store /\ d.todo = c.todo /\ d.seen = RowsOf(c)
    BY <1>1, <1>7, LookupIs
  <2>2. d.seen = OfSource(games', Head(d.todo).game.id)
    BY <1>1, <2>1 DEF RowsOf, store
  <2>3. DraftWork(games', d)
    BY <1>1, <2>1, <2>2 DEF DraftWork
  <2> QED BY <1>3, <1>4, <2>1, <2>3 DEF store
<1>8. CASE StoreGame(p)
  <2> DEFINE x == Head(c.todo)
             id == x.game.id
  <2>1. /\ c.todo # << >> /\ d.phase = "store" /\ d.todo = Tail(c.todo)
        /\ UpsertGame(c.seen, x.game, x.actions) /\ c.phase = "found"
    BY <1>1, <1>8, StoredIs DEF StoreGame
  <2>2. x \in Range(c.todo) /\ Range(c.todo) = {x} \cup Range(d.todo)
    BY <1>1, <2>1, TailOf
  <2>3. Matching(x.actions, x.game) /\ c.seen = OfSource(games, id)
    BY <1>1, <2>1, <2>2 DEF DraftWork
  <2> HIDE DEF x
  <2>4. DraftWork(games', d)
    BY <1>1, <2>1, <2>2 DEF DraftWork
  <2>5. TouchesOnly(id) /\ OneRow(games')
    BY <2>1, UpsertTouches, UpsertKeepsOneRow DEF SyncInv
  <2>6. id \in DOMAIN drafts' /\ drafts'[id] = x.actions
    BY <2>1 DEF UpsertGame, Put
  <2>7. x.game \in games'
    BY <2>1, <2>3 DEF UpsertGame, Replaced, OfSource
  <2>8. ASSUME NEW g \in games', g.id > 0
        PROVE  g.id \in DOMAIN drafts' /\ Matching(drafts'[g.id], g)
    <3>1. CASE g.id = id
      BY <2>3, <2>5, <2>6, <2>7, <3>1 DEF OneRow
    <3>2. CASE g.id # id
      <4>1. Untouched(g.id)
        BY <2>5, <3>2 DEF TouchesOnly
      <4>2. g \in games
        BY <4>1 DEF Untouched, OfSource
      <4> QED BY <1>4, <2>8, <4>1, <4>2 DEF Untouched
    <3> QED BY <3>1, <3>2
  <2> QED BY <1>3, <2>4, <2>8
<1>9. CASE FetchProPage(p)
  <2>1. UNCHANGED store /\ d.todo = c.todo /\ d.phase \in {"pro", "detail"}
    BY <1>1, <1>9, FetchProPageIs
  <2> QED BY <1>5, <2>1
<1>10. CASE Collected(p) \/ Refused(p) \/ Finish(p) \/ Die(p)
  <2>1. UNCHANGED store /\ d.todo = c.todo /\ d.phase # "found"
    BY <1>1, <1>10, CollectedIs, EndIs
  <2> QED BY <1>5, <2>1
<1> QED BY <1>6, <1>7, <1>8, <1>9, <1>10 DEF DraftStep

LEMMA DraftInvStep ==
  ASSUME SyncInv, DraftInv, [PublicNext]_publicVars PROVE DraftInv'
<1> DEFINE Kept == \A g \in games' : g.id > 0 => g.id \in DOMAIN drafts' /\ Matching(drafts'[g.id], g)
           Works == \A q \in Procs : DraftWork(games', cmd'[q])
<1>1. ASSUME Kept, Works PROVE DraftInv'
  BY <1>1 DEF DraftInv, DraftMatchesGame, Matching
<1>2. SUFFICES ASSUME "draft" \notin raced' PROVE Kept /\ Works
  BY <1>1 DEF DraftInv
<1>3. Shape
  BY DEF SyncInv
<1>4. ASSUME "draft" \notin raced
      PROVE  /\ DraftMatchesGame /\ \A q \in Procs : DraftWork(games, cmd[q])
             /\ \A g \in games : g.id > 0 => g.id \in DOMAIN drafts /\ Matching(drafts[g.id], g)
  BY <1>4 DEF DraftInv, DraftMatchesGame, Matching
<1>5. CASE UNCHANGED publicVars \/ ProviderMoves
  <2>1. UNCHANGED <<games, drafts, cmd, raced>>
    BY <1>5 DEF publicVars, sync, store, ProviderMoves
  <2> QED BY <1>2, <1>4, <2>1
<1>6. ASSUME NEW p \in Procs, Starts(p) PROVE Kept /\ Works
  <2>1. PICK d \in FreshForms :
           /\ cmd' = [q \in Procs |-> IF q = p THEN d ELSE cmd[q]]
           /\ raced \subseteq raced' /\ UNCHANGED store
    BY <1>3, <1>6, StartIs
  <2>2. d.todo = << >> /\ d.phase # "found"
    BY <1>3, FreshIsWell
  <2>3. DraftWork(games', d)
    BY <2>2, EmptyList DEF DraftWork
  <2>4. \A q \in Procs : cmd'[q] = IF q = p THEN d ELSE cmd[q]
    BY <2>1
  <2> QED BY <1>2, <1>4, <2>1, <2>3, <2>4 DEF store
<1>7. ASSUME NEW p \in Procs, Own(p), cmd[p].kind # "draft", UNCHANGED <<games, drafts>>
      PROVE  Kept /\ Works
  <2>1. raced' = raced /\ \A q \in Procs : q # p => cmd'[q] = cmd[q]
    BY <1>7 DEF Own
  <2>2. DraftWork(games', cmd'[p])
    BY <1>7 DEF DraftWork, Own
  <2> QED BY <1>2, <1>4, <1>7, <2>1, <2>2
<1>8. ASSUME NEW p \in Procs, cmd[p].kind = "public", PublicOwn(p) PROVE Kept /\ Works
  <2>1. PICK low \in Int : low < 0 /\ TouchesOnly(low)
    BY <1>3, <1>8, PublicFrame
  <2>2. Own(p)
    BY <1>3, <1>8, PublicFrame
  <2>3. raced' = raced /\ \A q \in Procs : q # p => cmd'[q] = cmd[q]
    BY <2>2 DEF Own
  <2>4. DraftWork(games', cmd'[p])
    BY <1>8, <2>2 DEF DraftWork, Own
  <2>5. \A q \in Procs : DraftWork(games', cmd[q])
    BY <1>2, <1>3, <1>4, <2>1, <2>3, PositiveStay DEF Shape
  <2>6. Kept
    BY <1>2, <1>4, <2>1, <2>3, DraftsKeptByOthers
  <2> QED BY <2>3, <2>4, <2>5, <2>6
<1>9. ASSUME NEW p \in Procs, cmd[p].kind = "draft", DraftStep(p) PROVE Kept /\ Works
  <2>1. raced' = raced
    BY <1>3, <1>9, DraftFrame DEF Own
  <2> QED BY <1>2, <1>9, <2>1, DraftStepKeeps
<1>10. ASSUME NEW p \in Procs, cmd[p].kind = "match", MatchStep(p) PROVE Kept /\ Works
  BY <1>3, <1>7, <1>10, MatchFrame
<1>11. ASSUME NEW p \in Procs, cmd[p].kind = "roster", RosterStep(p) PROVE Kept /\ Works
  BY <1>3, <1>7, <1>11, RosterFrame
<1> HIDE DEF Kept, Works
<1> QED BY <1>3, <1>5, <1>6, <1>8, <1>9, <1>10, <1>11, StepsByKind DEF AnyStep

(* A game of OpenDota is marked complete exactly when its stored actions   *)
(* are a complete draft, at any moment, unless two draft syncs overlapped. *)
THEOREM DraftsMatchGames == PublicSpec => []DraftMatchesGame
<1>1. PublicInit => SyncInv /\ DraftInv
  <2> SUFFICES ASSUME PublicInit PROVE DraftInv
    BY SyncInvInit
  <2>1. games = {} /\ \A p \in Procs : cmd[p] = Idle
    BY DEF PublicInit, SyncInit, StoreInit
  <2>2. Idle.kind # "draft"
    BY DEF Idle
  <2> QED BY <2>1, <2>2 DEF DraftInv, DraftWork, DraftMatchesGame
<1>2. SyncInv /\ DraftInv /\ [PublicNext]_publicVars => (SyncInv /\ DraftInv)'
  BY SyncInvStep, DraftInvStep
<1>3. DraftInv => DraftMatchesGame
  BY DEF DraftInv, DraftMatchesGame
<1> QED BY <1>1, <1>2, <1>3, PTL DEF PublicSpec
-----------------------------------------------------------------------------
(* Matches.  While pages are read, a usable row that was there when the    *)
(* command began has been read or stands behind the pages read; then a     *)
(* match of its id waits to be stored or is stored.                        *)
ListedSince(r, from, now) == \E v \in from .. now : r \in Range(Feed[v].past)
CopiedSince(m, from, now) ==
  \E v \in from .. now : \E r \in Range(Feed[v].past) : UsableRow(r) /\ m = ToMatch(r)
StoredSince(table, id, from, now) ==
  \E v \in from .. now : \E r \in Range(Feed[v].past) :
     r.id = id /\ UsableRow(r) /\ ToMatch(r) \in table
Read(rows, id) == \E r \in Range(rows) : r.id = id /\ UsableRow(r)
Behind(list, place, id) ==
  \E j \in DOMAIN list : j > place /\ list[j].id = id /\ UsableRow(list[j])
Waits(todo, id) == \E m \in Range(todo) : m.id = id

Reading(c, now) ==
  c.phase = "page" =>
    /\ \A r \in Range(c.rows) : ListedSince(r, c.from, now)
    /\ NothingRemoved(c.from, now) =>
         \A id \in PastIds(c.from) :
           Read(c.rows, id) \/ Behind(Feed[now].past, c.cursor * PageSize, id)
Storing(table, c, now) ==
  c.phase \in {"store", "found"} =>
    /\ \A m \in Range(c.todo) : CopiedSince(m, c.from, now)
    /\ NothingRemoved(c.from, now) =>
         \A id \in PastIds(c.from) : Waits(c.todo, id) \/ StoredSince(table, id, c.from, now)
    /\ c.phase = "found" => c.seen = OfSource(table, Head(c.todo).id)
Synced(table, c, now) ==
  c.phase = "done" =>
    /\ c.from <= c.to /\ c.to <= now
    /\ NothingRemoved(c.from, c.to) =>
         \A id \in PastIds(c.from) : StoredSince(table, id, c.from, now)
MatchWork(table, c, now) ==
  c.kind = "match" => Reading(c, now) /\ Storing(table, c, now) /\ Synced(table, c, now)
InTurn(c, e) ==
  c.kind = "match" /\ c.phase = "done" /\ e.kind = "match" /\ Runs(e) => c.to <= e.from
MatchInv ==
  "match" \notin raced =>
    /\ \A p \in Procs : MatchWork(matches, cmd[p], feed)
    /\ \A p, q \in Procs : InTurn(cmd[p], cmd[q])

LEMMA DedupedKeepsIds ==
  ASSUME NEW rows, IsList(rows), NEW id, Read(rows, id) PROVE Waits(Deduped(rows), id)
<1> DEFINE P == {i \in DOMAIN rows : UsableRow(rows[i]) /\ rows[i].id = id}
<1>1. DOMAIN rows = 1 .. Len(rows) /\ Len(rows) \in Nat
  BY ListBasics
<1>2. P \in SUBSET Nat /\ P # {}
  BY <1>1 DEF Read, Range
<1>3. PICK i \in P : \A n \in P : i <= n
  BY <1>2, LeastElement
<1>4. i \in FirstOfId(rows)
  <2>1. ASSUME NEW k \in 1 .. (i - 1), UsableRow(rows[k]), rows[k].id = rows[i].id PROVE FALSE
    <3>1. k \in DOMAIN rows /\ k < i
      BY <1>1, <1>3
    <3>2. k \in P
      BY <1>3, <2>1, <3>1
    <3> QED BY <1>2, <1>3, <3>1, <3>2
  <2> QED BY <1>3, <2>1 DEF FirstOfId
<1>5. ToMatch(rows[i]) \in Range(Deduped(rows))
  BY <1>4, DedupedRows
<1>6. ToMatch(rows[i]).id = id
  BY <1>3 DEF ToMatch
<1> QED BY <1>5, <1>6 DEF Waits

(* Versions pass.                                                          *)
LEMMA BehindMoves ==
  ASSUME NEW from \in Nat, NEW now \in Nat, from <= now, NEW id, NEW n \in Nat,
         NothingRemoved(from, now + 1), Behind(Feed[now].past, n, id),
         IsList(Feed[now].past), IsList(Feed[now + 1].past)
  PROVE  Behind(Feed[now + 1].past, n, id)
<1> DEFINE old == Feed[now].past
           new == Feed[now + 1].past
<1>1. now \in from .. (now + 1 - 1)
  OBVIOUS
<1>2. PICK i \in DOMAIN old : i > n /\ old[i].id = id /\ UsableRow(old[i])
  BY DEF Behind
<1>3. \E j \in DOMAIN new : j >= i /\ new[j].id = old[i].id /\ (UsableRow(old[i]) => UsableRow(new[j]))
  BY <1>1, <1>2 DEF NothingRemoved
<1> HIDE DEF old, new
<1>4. PICK j \in DOMAIN new : j >= i /\ new[j].id = old[i].id /\ UsableRow(new[j])
  BY <1>2, <1>3
<1>5. DOMAIN old \subseteq Nat /\ DOMAIN new \subseteq Nat
  <2>1. DOMAIN old = 1 .. Len(old) /\ DOMAIN new = 1 .. Len(new)
    BY ListBasics DEF old, new
  <2> QED BY <2>1
<1>6. j > n
  BY <1>2, <1>4, <1>5
<1> QED BY <1>2, <1>4, <1>6 DEF Behind, new

LEMMA MatchWorkMoves ==
  ASSUME NEW table, NEW c, NEW now \in Nat, Well(c, now), MatchWork(table, c, now),
         IsList(Feed[now].past), IsList(Feed[now + 1].past)
  PROVE  MatchWork(table, c, now + 1)
<1> SUFFICES ASSUME c.kind = "match" PROVE MatchWork(table, c, now + 1)
  BY DEF MatchWork
<1>1. c.from \in Nat /\ c.to \in Nat /\ c.from <= now
  BY DEF Well
<1>2. c.from .. now \subseteq c.from .. now + 1 /\ c.from .. (now - 1) \subseteq c.from .. (now + 1 - 1)
  BY <1>1
<1>3. NothingRemoved(c.from, now + 1) => NothingRemoved(c.from, now)
  BY <1>2 DEF NothingRemoved
<1>4. \A r : ListedSince(r, c.from, now) => ListedSince(r, c.from, now + 1)
  BY <1>2 DEF ListedSince
<1>5. \A m : CopiedSince(m, c.from, now) => CopiedSince(m, c.from, now + 1)
  BY <1>2 DEF CopiedSince
<1>6. \A id : StoredSince(table, id, c.from, now) => StoredSince(table, id, c.from, now + 1)
  BY <1>2 DEF StoredSince
<1>7. Reading(c, now) /\ Storing(table, c, now) /\ Synced(table, c, now)
  BY DEF MatchWork
<1>8. Reading(c, now + 1)
  <2> SUFFICES ASSUME c.phase = "page" PROVE Reading(c, now + 1)
    BY DEF Reading
  <2>1. c.cursor * PageSize \in Nat
    <3>1. c.cursor \in Nat /\ PageSize \in Nat
      BY SyncAssumption DEF Well, Resting
    <3> QED BY <3>1
  <2>2. \A id : NothingRemoved(c.from, now + 1) /\ Behind(Feed[now].past, c.cursor * PageSize, id)
                => Behind(Feed[now + 1].past, c.cursor * PageSize, id)
    BY <1>1, <2>1, BehindMoves
  <2> QED BY <1>3, <1>4, <1>7, <2>2 DEF Reading
<1>9. Storing(table, c, now + 1)
  BY <1>3, <1>5, <1>6, <1>7 DEF Storing
<1>10. Synced(table, c, now + 1)
  <2>1. c.to <= now => c.to <= now + 1
    BY <1>1
  <2> QED BY <1>6, <1>7, <2>1 DEF Synced
<1> QED BY <1>8, <1>9, <1>10 DEF MatchWork

(* What was stored stays stored, or is replaced by a later copy.           *)
LEMMA StoredStays ==
  ASSUME NEW m, NEW old, NEW new, m \in new, \A x \in old : x.id # m.id => x \in new,
         NEW from \in Nat, NEW later \in Nat, from <= later, NEW now \in Nat,
         CopiedSince(m, later, now), NEW id, StoredSince(old, id, from, now)
  PROVE  StoredSince(new, id, from, now)
<1>1. PICK v \in from .. now : \E r \in Range(Feed[v].past) :
         r.id = id /\ UsableRow(r) /\ ToMatch(r) \in old
  BY DEF StoredSince
<1>2. PICK r \in Range(Feed[v].past) : r.id = id /\ UsableRow(r) /\ ToMatch(r) \in old
  BY <1>1
<1>3. PICK w \in later .. now : \E s \in Range(Feed[w].past) : UsableRow(s) /\ m = ToMatch(s)
  BY DEF CopiedSince
<1>4. PICK s \in Range(Feed[w].past) : UsableRow(s) /\ m = ToMatch(s)
  BY <1>3
<1>5. w \in from .. now /\ ToMatch(r).id = id /\ m.id = s.id
  <2>1. w \in from .. now
    BY <1>3
  <2>2. \A x : ToMatch(x).id = x.id
    BY DEF ToMatch
  <2> QED BY <1>2, <1>4, <2>1, <2>2
<1>6. CASE m.id = id
  BY <1>4, <1>5, <1>6 DEF StoredSince
<1>7. CASE m.id # id
  BY <1>1, <1>2, <1>5, <1>7 DEF StoredSince
<1> QED BY <1>6, <1>7

LEMMA StoreMatchIs ==
  ASSUME NEW p, StoreMatch(p), cmd[p].seen = OfSource(matches, Head(cmd[p].todo).id)
  PROVE  LET m == Head(cmd[p].todo)
         IN  m \in matches' /\ \A x \in matches : x.id # m.id => x \in matches'
<1> DEFINE m == Head(cmd[p].todo)
<1>1. matches' = IF m \in cmd[p].seen THEN matches ELSE Replaced(matches, m)
  BY DEF StoreMatch, UpsertMatch
<1>2. cmd[p].seen = OfSource(matches, m.id)
  OBVIOUS
<1> HIDE DEF m
<1>3. m \in cmd[p].seen => m \in matches
  BY <1>2 DEF OfSource
<1>4. m \in Replaced(matches, m) /\ \A x \in matches : x.id # m.id => x \in Replaced(matches, m)
  BY DEF OfSource, Replaced
<1>5. m \in matches' /\ \A x \in matches : x.id # m.id => x \in matches'
  BY <1>1, <1>3, <1>4
<1> QED BY <1>5 DEF m

(* A page is read.                                                         *)
LEMMA FetchPageKeeps ==
  ASSUME Shape, NEW p \in Procs, FetchPage(p), cmd[p].kind = "match", MatchWork(matches, cmd[p], feed)
  PROVE  MatchWork(matches', cmd'[p], feed)
<1> DEFINE c == cmd[p]
           d == cmd'[p]
           list == Feed[feed].past
           page == Page(list, c.cursor + 1)
           all == c.rows \o page
<1>1. /\ Own(p) /\ c.phase = "page" /\ UNCHANGED store
      /\ \/ d.phase = "failed"
         \/ /\ Len(page) < PageSize /\ d.phase = "store" /\ d.todo = Deduped(all)
         \/ d.phase = "page" /\ d.rows = all /\ d.cursor = c.cursor + 1
  BY FetchPageIs
<1>2. matches' = matches /\ d.kind = "match" /\ d.from = c.from
  BY <1>1 DEF store, Own
<1>3. /\ IsList(c.rows) /\ c.cursor \in Nat /\ c.from \in Nat /\ c.from <= feed /\ feed \in Nat
      /\ IsList(list)
  BY <1>1, FeedIsListed DEF Shape, Well, Resting
<1>4. /\ IsList(page) /\ Range(page) \subseteq Range(list)
      /\ \A j \in DOMAIN list : j > c.cursor * PageSize =>
            \/ list[j] \in Range(page)
            \/ j > (c.cursor + 1) * PageSize /\ ~ (Len(page) < PageSize)
  BY <1>3, PageOf
<1> HIDE DEF c, d, list, page
<1>5. IsList(all) /\ Range(all) = Range(c.rows) \cup Range(page)
  BY <1>3, <1>4, Joined
<1> HIDE DEF all
<1>6. Reading(c, feed)
  BY <1>2 DEF MatchWork, c
<1>7. \A r \in Range(all) : ListedSince(r, c.from, feed)
  <2>1. \A r \in Range(page) : ListedSince(r, c.from, feed)
    BY <1>3, <1>4 DEF ListedSince, list
  <2> QED BY <1>1, <1>5, <1>6, <2>1 DEF Reading, c
<1>8. ASSUME NEW id \in PastIds(c.from), NothingRemoved(c.from, feed)
      PROVE  \/ Read(all, id)
             \/ ~ (Len(page) < PageSize) /\ Behind(list, (c.cursor + 1) * PageSize, id)
  <2>1. Read(c.rows, id) \/ Behind(list, c.cursor * PageSize, id)
    BY <1>1, <1>6, <1>8 DEF Reading, list, c
  <2>2. CASE Read(c.rows, id)
    BY <1>5, <2>2 DEF Read
  <2>3. CASE Behind(list, c.cursor * PageSize, id)
    <3>1. PICK j \in DOMAIN list : j > c.cursor * PageSize /\ list[j].id = id /\ UsableRow(list[j])
      BY <2>3 DEF Behind
    <3> QED BY <1>4, <1>5, <3>1 DEF Read, Behind
  <2> QED BY <2>1, <2>2, <2>3
<1>9. CASE d.phase = "failed"
  BY <1>9 DEF MatchWork, Reading, Storing, Synced, d
<1>10. CASE Len(page) < PageSize /\ d.phase = "store" /\ d.todo = Deduped(all)
  <2>1. Range(d.todo) = {ToMatch(all[i]) : i \in FirstOfId(all)}
    BY <1>5, <1>10, DedupedRows
  <2>2. ASSUME NEW m \in Range(d.todo) PROVE CopiedSince(m, c.from, feed)
    <3>1. PICK i \in DOMAIN all : m = ToMatch(all[i]) /\ UsableRow(all[i])
      BY <2>1, <2>2 DEF FirstOfId
    <3>2. ListedSince(all[i], c.from, feed)
      BY <1>7, <3>1 DEF Range
    <3> QED BY <3>1, <3>2 DEF ListedSince, CopiedSince
  <2>3. \A id \in PastIds(c.from) : NothingRemoved(c.from, feed) => Waits(d.todo, id)
    BY <1>5, <1>8, <1>10, DedupedKeepsIds
  <2>4. Storing(matches', d, feed)
    BY <1>2, <1>10, <2>2, <2>3 DEF Storing
  <2> QED BY <1>10, <2>4 DEF MatchWork, Reading, Synced, d
<1>11. CASE d.phase = "page" /\ d.rows = all /\ d.cursor = c.cursor + 1
  <2>1. Reading(d, feed)
    BY <1>2, <1>7, <1>8, <1>11 DEF Reading, list
  <2> QED BY <1>11, <2>1 DEF MatchWork, Storing, Synced, d
<1> QED BY <1>1, <1>9, <1>10, <1>11 DEF c, d, page, all, list

(* Every step of a match sync keeps what it has collected and stored.      *)
LEMMA MatchStepKeeps ==
  ASSUME Shape, NEW p \in Procs, cmd[p].kind = "match", MatchStep(p), MatchWork(matches, cmd[p], feed)
  PROVE  /\ MatchWork(matches', cmd'[p], feed)
         /\ \/ matches' = matches
            \/ \E m : /\ CopiedSince(m, cmd[p].from, feed) /\ m \in matches'
                      /\ \A x \in matches : x.id # m.id => x \in matches'
<1> DEFINE c == cmd[p]
           d == cmd'[p]
<1>1. /\ Own(p) /\ Well(c, feed) /\ feed \in Nat /\ IsList(c.todo) /\ c.from \in Nat
      /\ c.from <= feed
  BY MatchFrame DEF Shape, Well
<1>2. d.kind = "match" /\ d.from = c.from
  BY <1>1 DEF Own
<1>3. CASE FetchPage(p)
  BY <1>3, FetchPageKeeps, FetchPageIs DEF store
<1>4. CASE Lookup(p)
  <2>1. /\ UNCHANGED store /\ c.phase = "store" /\ d.phase = "found" /\ d.todo = c.todo
        /\ d.seen = OfSource(matches, Head(c.todo).id)
    BY <1>4, LookupIs DEF RowsOf
  <2>2. matches' = matches
    BY <2>1 DEF store
  <2>3. Storing(matches', d, feed)
    BY <1>2, <2>1, <2>2 DEF MatchWork, Storing
  <2> QED BY <2>1, <2>2, <2>3 DEF MatchWork, Reading, Synced
<1>5. CASE StoreMatch(p)
  <2> DEFINE m == Head(c.todo)
  <2>1. c.phase = "found" /\ c.todo # << >> /\ d.phase = "store" /\ d.todo = Tail(c.todo)
    BY <1>5, StoredIs DEF StoreMatch
  <2>2. Storing(matches, c, feed) /\ c.seen = OfSource(matches, m.id)
    BY <2>1 DEF MatchWork, Storing
  <2>3. m \in matches' /\ \A x \in matches : x.id # m.id => x \in matches'
    BY <1>5, <2>2, StoreMatchIs
  <2>4. m \in Range(c.todo) /\ Range(c.todo) = {m} \cup Range(d.todo)
    BY <1>1, <2>1, TailOf
  <2>5. CopiedSince(m, c.from, feed)
    BY <2>1, <2>2, <2>4 DEF Storing
  <2> HIDE DEF m
  <2>6. \A id : StoredSince(matches, id, c.from, feed) => StoredSince(matches', id, c.from, feed)
    BY <1>1, <2>3, <2>5, StoredStays
  <2>7. ASSUME NEW id, Waits(c.todo, id)
        PROVE  Waits(d.todo, id) \/ StoredSince(matches', id, c.from, feed)
    <3>1. CASE m.id = id
      <4>1. PICK v \in c.from .. feed : \E r \in Range(Feed[v].past) : UsableRow(r) /\ m = ToMatch(r)
        BY <2>5 DEF CopiedSince
      <4>2. PICK r \in Range(Feed[v].past) : UsableRow(r) /\ m = ToMatch(r)
        BY <4>1
      <4>3. r.id = id
        BY <3>1, <4>2 DEF ToMatch
      <4> QED BY <2>3, <4>2, <4>3 DEF StoredSince
    <3>2. CASE m.id # id
      BY <2>4, <2>7, <3>2 DEF Waits
    <3> QED BY <3>1, <3>2
  <2>8. Storing(matches', d, feed)
    BY <1>2, <2>1, <2>2, <2>4, <2>6, <2>7 DEF Storing
  <2> QED BY <2>1, <2>3, <2>5, <2>8 DEF MatchWork, Reading, Synced
<1>6. CASE Refused(p) \/ Finish(p) \/ Die(p)
  <2>1. /\ UNCHANGED store
        /\ \/ d.phase = "failed"
           \/ c.phase = "store" /\ c.todo = << >> /\ d.phase = "done" /\ d.to = feed
    BY <1>6, EndIs
  <2>2. matches' = matches
    BY <2>1 DEF store
  <2>3. CASE d.phase = "failed"
    BY <2>2, <2>3 DEF MatchWork, Reading, Storing, Synced
  <2>4. CASE c.phase = "store" /\ c.todo = << >> /\ d.phase = "done" /\ d.to = feed
    <3>1. \A id : ~Waits(c.todo, id)
      BY <2>4, EmptyList DEF Waits
    <3>2. Storing(matches, c, feed)
      BY DEF MatchWork
    <3>3. Synced(matches', d, feed)
      BY <1>1, <1>2, <2>2, <2>4, <3>1, <3>2 DEF Storing, Synced
    <3> QED BY <2>2, <2>4, <3>3 DEF MatchWork, Reading, Storing
  <2> QED BY <2>1, <2>2, <2>3, <2>4
<1> QED BY <1>3, <1>4, <1>5, <1>6 DEF MatchStep

LEMMA MatchInvStep ==
  ASSUME SyncInv, MatchInv, [PublicNext]_publicVars PROVE MatchInv'
<1> DEFINE Works == \A q \in Procs : MatchWork(matches', cmd'[q], feed')
           Turns == \A p, q \in Procs : InTurn(cmd'[p], cmd'[q])
<1>1. Works /\ Turns => MatchInv'
  BY DEF MatchInv
<1>2. SUFFICES ASSUME "match" \notin raced' PROVE Works /\ Turns
  BY <1>1 DEF MatchInv
<1>3. Shape /\ feed \in Nat
  BY DEF SyncInv, Shape
<1>4. ASSUME "match" \notin raced
      PROVE  /\ \A q \in Procs : MatchWork(matches, cmd[q], feed)
             /\ \A p, q \in Procs : InTurn(cmd[p], cmd[q])
  BY <1>4 DEF MatchInv
<1>5. CASE UNCHANGED publicVars
  <2>1. UNCHANGED <<matches, cmd, feed, raced>>
    BY <1>5 DEF publicVars, sync, store
  <2> QED BY <1>2, <1>4, <2>1
<1>6. CASE ProviderMoves
  <2>1. UNCHANGED <<matches, cmd, raced>> /\ feed' = feed + 1 /\ feed < Len(Feed)
    BY <1>6 DEF ProviderMoves, store
  <2>2. DOMAIN Feed = 1 .. Len(Feed) /\ Len(Feed) \in Nat
    BY SyncAssumption, ListBasics
  <2>3. feed \in DOMAIN Feed /\ feed + 1 \in DOMAIN Feed
    BY <1>3, <2>1, <2>2 DEF Shape
  <2>4. IsList(Feed[feed].past) /\ IsList(Feed[feed + 1].past)
    BY <2>3, SyncAssumption
  <2>5. \A q \in Procs : MatchWork(matches, cmd[q], feed + 1)
    BY <1>2, <1>3, <1>4, <2>1, <2>4, MatchWorkMoves DEF Shape
  <2> QED BY <1>2, <1>4, <2>1, <2>5
<1>7. ASSUME NEW p \in Procs, Starts(p) PROVE Works /\ Turns
  <2>1. PICK d \in FreshForms :
           /\ cmd' = [q \in Procs |-> IF q = p THEN d ELSE cmd[q]]
           /\ raced \subseteq raced' /\ UNCHANGED <<store, feed>>
    BY <1>3, <1>7, StartIs
  <2>2. UNCHANGED <<matches, feed>> /\ "match" \notin raced
    BY <1>2, <2>1 DEF store
  <2>3. \A q \in Procs : cmd'[q] = IF q = p THEN d ELSE cmd[q]
    BY <2>1
  <2>4. Well(d, feed) /\ d.from = feed /\ d.phase \notin Resting \cup {"store", "found"}
        /\ d.cursor = 0
    BY <1>3, FreshIsWell
  <2>5. d.kind = "match" => d.phase = "page" /\ d.rows = << >>
    BY DEF FreshForms, Fresh, Idle
  <2>6. MatchWork(matches, d, feed)
    <3> SUFFICES ASSUME d.kind = "match" PROVE Reading(d, feed) /\ Storing(matches, d, feed) /\ Synced(matches, d, feed)
      BY DEF MatchWork
    <3>1. IsList(Feed[feed].past) /\ d.cursor * PageSize = 0
      BY <1>3, <2>4, FeedIsListed, SyncAssumption
    <3>2. ASSUME NEW id \in PastIds(feed) PROVE Behind(Feed[feed].past, 0, id)
      <4>1. PICK r \in Range(Feed[feed].past) : UsableRow(r) /\ r.id = id
        BY <3>2 DEF PastIds
      <4>2. PICK j \in DOMAIN Feed[feed].past : Feed[feed].past[j] = r
        BY <4>1 DEF Range
      <4>3. j > 0
        BY <3>1, ListBasics
      <4> QED BY <4>1, <4>2, <4>3 DEF Behind
    <3> QED BY <2>4, <2>5, <3>1, <3>2, EmptyList DEF Reading, Storing, Synced
  <2>7. \A q \in Procs : InTurn(cmd[q], d)
    BY <1>4, <2>2, <2>4 DEF InTurn, MatchWork, Synced
  <2>8. \A e : InTurn(d, e)
    BY <2>4 DEF InTurn, Resting
  <2> QED BY <1>4, <2>2, <2>3, <2>6, <2>7, <2>8
<1>8. ASSUME NEW p \in Procs, Own(p), cmd[p].kind # "match", UNCHANGED matches PROVE Works /\ Turns
  <2>1. raced' = raced /\ feed' = feed /\ \A q \in Procs : q # p => cmd'[q] = cmd[q]
    BY <1>8 DEF Own
  <2>2. cmd'[p].kind # "match"
    BY <1>8 DEF Own
  <2>3. MatchWork(matches', cmd'[p], feed') /\ \A e : InTurn(cmd'[p], e) /\ InTurn(e, cmd'[p])
    BY <2>2 DEF MatchWork, InTurn
  <2> QED BY <1>2, <1>4, <1>8, <2>1, <2>3
<1>9. ASSUME NEW p \in Procs, cmd[p].kind = "match", MatchStep(p) PROVE Works /\ Turns
  <2>1. Own(p)
    BY <1>3, <1>9, MatchFrame
  <2>2. raced' = raced /\ feed' = feed /\ (\A q \in Procs : q # p => cmd'[q] = cmd[q]) /\ Runs(cmd[p])
        /\ cmd'[p].kind = "match" /\ cmd'[p].from = cmd[p].from
    BY <1>9, <2>1 DEF Own, Active, Runs, Resting
  <2>3. \A q \in Procs : q # p /\ cmd[q].kind = "match" => ~Runs(cmd[q])
    BY <1>2, <1>9, <2>2 DEF SyncInv, OneAtATime
  <2>4. MatchWork(matches, cmd[p], feed)
    BY <1>2, <1>4, <2>2
  <2>5. /\ MatchWork(matches', cmd'[p], feed)
        /\ \/ matches' = matches
           \/ \E m : /\ CopiedSince(m, cmd[p].from, feed) /\ m \in matches'
                     /\ \A x \in matches : x.id # m.id => x \in matches'
    BY <1>3, <1>9, <2>4, MatchStepKeeps
  <2>6. ASSUME NEW q \in Procs, q # p PROVE MatchWork(matches', cmd[q], feed)
    <3> DEFINE c == cmd[q]
    <3>1. MatchWork(matches, c, feed) /\ InTurn(c, cmd[p]) /\ Well(c, feed) /\ Well(cmd[p], feed)
      BY <1>2, <1>3, <1>4, <2>2 DEF Shape
    <3>2. CASE matches' = matches
      BY <3>1, <3>2
    <3>3. ASSUME NEW m, CopiedSince(m, cmd[p].from, feed), m \in matches',
                 \A x \in matches : x.id # m.id => x \in matches', c.kind = "match"
          PROVE  Reading(c, feed) /\ Storing(matches', c, feed) /\ Synced(matches', c, feed)
      <4>1. c.phase \in Resting
        BY <2>3, <2>6, <3>3 DEF Runs
      <4>2. Reading(c, feed) /\ Storing(matches', c, feed)
        BY <4>1 DEF Reading, Storing, Resting
      <4>3. Synced(matches', c, feed)
        <5> SUFFICES ASSUME c.phase = "done" PROVE Synced(matches', c, feed)
          BY DEF Synced
        <5>1. Synced(matches, c, feed) /\ c.to <= cmd[p].from
          BY <1>9, <2>2, <3>1, <3>3 DEF MatchWork, InTurn
        <5>2. c.from \in Nat /\ c.to \in Nat /\ cmd[p].from \in Nat /\ c.from <= cmd[p].from
          BY <3>1, <5>1 DEF Well, Synced
        <5>3. \A id : StoredSince(matches, id, c.from, feed) => StoredSince(matches', id, c.from, feed)
          <6> HIDE DEF c
          <6> QED BY <1>3, <3>3, <5>2, StoredStays
        <5> QED BY <5>1, <5>3 DEF Synced
      <4> QED BY <4>2, <4>3
    <3> QED BY <2>5, <3>2, <3>3 DEF MatchWork
  <2>7. Works
    BY <2>2, <2>5, <2>6
  <2>8. Turns
    <3>1. ASSUME NEW q \in Procs, q # p PROVE InTurn(cmd'[p], cmd[q]) /\ InTurn(cmd[q], cmd'[p])
      <4>1. InTurn(cmd'[p], cmd[q])
        BY <2>3, <3>1 DEF InTurn
      <4>2. InTurn(cmd[q], cmd'[p])
        BY <1>2, <1>4, <1>9, <2>2 DEF InTurn
      <4> QED BY <4>1, <4>2
    <3>2. InTurn(cmd'[p], cmd'[p])
      BY DEF InTurn, Runs, Resting
    <3> QED BY <1>2, <1>4, <2>2, <3>1, <3>2
  <2> QED BY <2>7, <2>8
<1>10. ASSUME NEW p \in Procs, cmd[p].kind = "draft", DraftStep(p) PROVE Works /\ Turns
  BY <1>3, <1>8, <1>10, DraftFrame
<1>11. ASSUME NEW p \in Procs, cmd[p].kind = "roster", RosterStep(p) PROVE Works /\ Turns
  BY <1>3, <1>8, <1>11, RosterFrame
<1>12. ASSUME NEW p \in Procs, cmd[p].kind = "public", PublicOwn(p) PROVE Works /\ Turns
  BY <1>3, <1>8, <1>12, PublicFrame
<1> HIDE DEF Works, Turns
<1> QED BY <1>3, <1>5, <1>6, <1>7, <1>9, <1>10, <1>11, <1>12, StepsByKind DEF AnyStep

(* A match sync that finished alone has stored every usable row that was   *)
(* there when it began, as it was then or later, unless the provider took  *)
(* rows off its list in the meantime.                                      *)
THEOREM SyncedStaysStored == PublicSpec => []SyncedIsStored
<1>1. PublicInit => SyncInv /\ MatchInv
  <2> SUFFICES ASSUME PublicInit PROVE MatchInv
    BY SyncInvInit
  <2>1. \A p \in Procs : cmd[p] = Idle
    BY DEF PublicInit, SyncInit
  <2>2. Idle.phase = "idle"
    BY DEF Idle
  <2>3. \A p \in Procs : cmd[p].phase = "idle"
    BY <2>1, <2>2
  <2> QED BY <2>3 DEF MatchInv, MatchWork, Reading, Storing, Synced, InTurn
<1>2. SyncInv /\ MatchInv /\ [PublicNext]_publicVars => (SyncInv /\ MatchInv)'
  BY SyncInvStep, MatchInvStep
<1>3. SyncInv /\ MatchInv => SyncedIsStored
  <2> SUFFICES ASSUME MatchInv, NEW p \in Procs, cmd[p].kind = "match", cmd[p].phase = "done",
                      "match" \notin raced, NothingRemoved(cmd[p].from, cmd[p].to),
                      NEW id \in PastIds(cmd[p].from)
               PROVE  StoredSince(matches, id, cmd[p].from, feed)
    BY DEF SyncedIsStored, StoredSince
  <2> QED BY DEF MatchInv, MatchWork, Synced
<1> QED BY <1>1, <1>2, <1>3, PTL DEF PublicSpec
-----------------------------------------------------------------------------
(* Public pages.  While a match is worked on, its page says no less than   *)
(* what is stored of it; what was reported stays whole.                    *)
Unique(rows) == \A r, s \in rows : r.account = s.account => r = s
Knows(g, row) ==
  \A old \in OfSource(g, row.id) : \A f \in Metadata \ {"duration"} :
     old[f] # Missing[f] => row[f] # Missing[f]
WorthKept(old, new) ==
  \A r \in old, s \in new : s.account = r.account /\ r.worth # NoText => s.worth # NoText
Filled(f, id) == id \in DOMAIN f /\ f[id] # {}

(* A game of a public page has a draft, and stats only with a game row.    *)
Tables(g, d, s) ==
  /\ \A row \in g : row.id < 0 => row.id \in DOMAIN d
  /\ \A id \in DOMAIN d : id < 0 => OfSource(g, id) # {}
  /\ \A id \in DOMAIN s : id < 0 /\ OfSource(g, id) # {} /\ Unique(s[id])

NormWork(g, d, s, c) ==
  LET n == Head(c.todo)
      id == n.game.id
  IN  /\ Unique(n.players) /\ Composition(n.players)
      /\ c.phase \in {"draft", "store", "found"} =>
           Knows(g, n.game) /\ (n.known <=> OfSource(g, id) # {})
      /\ c.phase = "draft" => OfSource(g, id) # {}
      /\ c.phase \in {"store", "found"} => (Filled(d, id) => n.actions # {})
      /\ c.phase = "found" => c.seen = OfSource(g, id)
      /\ c.phase \in {"stats", "replace", "points"} =>
           OfSource(g, id) # {} /\ id \in DOMAIN d /\ (n.actions # {} => d[id] # {})
      /\ c.phase = "replace" => WorthKept(Rows(s, id), n.players)
      /\ c.phase = "points" => n.points # {} /\ Composition(Rows(s, id))

IsWhole(g, d, s, t, r) ==
  LET id == GameId(r.match)
  IN  /\ id < 0 /\ OfSource(g, id) # {} /\ id \in DOMAIN d /\ Composition(Rows(s, id))
      /\ r.ordered => d[id] # {}
      /\ r.curved => Rows(t, id) # {}
Reports(g, d, s, t, c) ==
  \A r \in Range(c.results) : r.outcome \in StoredOutcomes => IsWhole(g, d, s, t, r)

PageCommand(g, d, s, t, c) ==
  c.kind = "public" => /\ Reports(g, d, s, t, c)
                       /\ HasNorm(c) => NormWork(g, d, s, c)
PageInv ==
  Alone =>
    /\ Tables(games, drafts, stats)
    /\ \A p \in Procs : PageCommand(games, drafts, stats, points, cmd[p])

(* Players of a page, and what is kept of the stored ones.                 *)
LEMMA PlayersAreUnique ==
  ASSUME NEW rows PROVE Unique(Players(rows))
<1> DEFINE first == FirstRows(rows)
<1>1. DOMAIN first \subseteq Nat
  BY PublicAssumption DEF FirstRows
<1> HIDE DEF first
<1>2. SUFFICES ASSUME NEW i \in DOMAIN first, NEW j \in DOMAIN first, Sound(first, i), Sound(first, j),
                      first[i].account = first[j].account, i # j
               PROVE  FALSE
  BY DEF Unique, Players, first
<1>3. i < j \/ j < i
  BY <1>1, <1>2
<1>4. CASE i < j
  <2>1. i \in 1 .. (j - 1) \/ i = 0
    BY <1>1, <1>4
  <2>2. i # 0
    BY DEF first, FirstRows
  <2> QED BY <1>2, <2>1, <2>2 DEF Sound, Named
<1>5. CASE j < i
  <2>1. j \in 1 .. (i - 1) \/ j = 0
    BY <1>1, <1>5
  <2>2. j # 0
    BY DEF first, FirstRows
  <2> QED BY <1>2, <2>1, <2>2 DEF Sound, Named
<1> QED BY <1>3, <1>4, <1>5

LEMMA MergedPlayersKeep ==
  ASSUME NEW old, Unique(old), NEW new, Unique(new)
  PROVE  LET merged == MergedPlayers(old, new)
         IN  /\ Unique(merged) /\ WorthKept(old, merged)
             /\ Composition(new) => Composition(merged)
<1> DEFINE Worth(r) == IF r.worth = NoText /\ {q \in old : q.account = r.account} # {}
                       THEN (CHOOSE q \in {q \in old : q.account = r.account} : TRUE).worth ELSE r.worth
           M(r) == [account |-> r.account, side |-> r.side, hero |-> r.hero, worth |-> Worth(r)]
           merged == {M(r) : r \in new}
<1>1. MergedPlayers(old, new) = merged
  BY DEF MergedPlayers
<1>2. \A r : M(r).account = r.account /\ M(r).side = r.side /\ M(r).hero = r.hero /\ M(r).worth = Worth(r)
  OBVIOUS
<1>3. ASSUME NEW q \in old, NEW r \in new, q.account = r.account, q.worth # NoText
      PROVE  Worth(r) # NoText
  <2>1. {x \in old : x.account = r.account} = {q}
    BY <1>3 DEF Unique
  <2> QED BY <1>3, <2>1
<1> HIDE DEF Worth
<1>4. Unique(merged)
  BY <1>2 DEF Unique
<1>5. WorthKept(old, merged)
  BY <1>2, <1>3 DEF WorthKept
<1>6. \A side : HeroesOf(merged, side) = HeroesOf(new, side)
  <2> HIDE DEF M
  <2>1. \A x \in merged : \E r \in new : x = M(r)
    OBVIOUS
  <2>2. \A r \in new : M(r) \in merged
    OBVIOUS
  <2> HIDE DEF merged
  <2> QED BY <1>2, <2>1, <2>2 DEF HeroesOf
<1> QED BY <1>1, <1>4, <1>5, <1>6 DEF Composition

(* What a step may not take away.                                          *)
NothingLost ==
  /\ \A old \in games, new \in games' :
        old.id < 0 /\ new.id = old.id
        => \A f \in Metadata \ {"duration"} : old[f] # Missing[f] => new[f] # Missing[f]
  /\ \A id \in DOMAIN drafts : id < 0 /\ drafts[id] # {} => drafts'[id] # {}
  /\ \A id \in DOMAIN points : points[id] # {} => points'[id] # {}
  /\ \A id \in DOMAIN stats : \A r \in stats[id], s \in stats'[id] :
        s.account = r.account /\ r.worth # NoText => s.worth # NoText
Grows ==
  \A id : id < 0 =>
    /\ OfSource(games, id) # {} => OfSource(games', id) # {}
    /\ id \in DOMAIN drafts => id \in DOMAIN drafts'
    /\ Filled(drafts, id) => drafts'[id] # {}
    /\ Composition(Rows(stats, id)) => Composition(Rows(stats', id))
    /\ Rows(points, id) # {} => Rows(points', id) # {}
Moves == Tables(games', drafts', stats') /\ NothingLost /\ Grows

LEMMA ReportsStay ==
  ASSUME Grows, NEW c, NEW d, Reports(games, drafts, stats, points, c), NothingReported(c, d)
  PROVE  Reports(games', drafts', stats', points', d)
<1> SUFFICES ASSUME NEW r \in Range(d.results), r.outcome \in StoredOutcomes
             PROVE  IsWhole(games', drafts', stats', points', r)
  BY DEF Reports
<1>1. IsWhole(games, drafts, stats, points, r)
  BY DEF Reports, NothingReported
<1> QED BY <1>1 DEF IsWhole, Grows, Filled

LEMMA SameRows ==
  ASSUME SyncInv, Tables(games, drafts, stats), UNCHANGED <<games, drafts, stats, points>>
  PROVE  Moves
<1>1. NothingLost
  <2>1. \A old, new \in games : old.id = new.id => old = new
    BY DEF SyncInv, OneRow
  <2>2. \A id \in DOMAIN stats : \A r, s \in stats[id] : r.account = s.account => r = s
    BY DEF Tables, Unique
  <2> QED BY <2>1, <2>2 DEF NothingLost
<1>2. Grows
  BY DEF Grows, Filled
<1> QED BY <1>1, <1>2 DEF Moves

(* The game of a page is stored.                                           *)
LEMMA StoredGameMoves ==
  ASSUME SyncInv, Tables(games, drafts, stats), NEW seen, NEW g, NEW actions,
         UpsertGame(seen, g, actions), seen = OfSource(games, g.id), g.id \in Int, g.id < 0,
         Knows(games, g), Filled(drafts, g.id) => actions # {}, UNCHANGED <<stats, points>>
  PROVE  /\ Moves /\ OfSource(games', g.id) # {} /\ g.id \in DOMAIN drafts'
         /\ drafts'[g.id] = actions
<1>1. TouchesOnly(g.id)
  BY UpsertTouches
<1>2. g \in games' /\ \A row \in games' : row.id = g.id => row = g
  <2>1. OneRow(games')
    BY UpsertKeepsOneRow DEF SyncInv
  <2>2. g \in games'
    BY DEF UpsertGame, OfSource, Replaced
  <2> QED BY <2>1, <2>2 DEF OneRow
<1>3. drafts' = [x \in DOMAIN drafts \cup {g.id} |-> IF x = g.id THEN actions ELSE drafts[x]]
  BY DEF UpsertGame, Put
<1>4. OfSource(games', g.id) # {} /\ g.id \in DOMAIN drafts' /\ drafts'[g.id] = actions
  BY <1>2, <1>3 DEF OfSource
<1>5. \A id : id # g.id => OfSource(games', id) = OfSource(games, id)
  BY <1>1 DEF TouchesOnly, Untouched
<1>6. Tables(games', drafts', stats')
  <2>1. ASSUME NEW row \in games', row.id < 0 PROVE row.id \in DOMAIN drafts'
    <3>1. CASE row.id = g.id
      BY <1>4, <3>1
    <3>2. CASE row.id # g.id
      <4>1. row \in games
        BY <1>5, <2>1, <3>2 DEF OfSource
      <4> QED BY <1>3, <2>1, <4>1 DEF Tables
    <3> QED BY <3>1, <3>2
  <2>2. \A id \in DOMAIN drafts' : id < 0 => OfSource(games', id) # {}
    BY <1>3, <1>4, <1>5 DEF Tables
  <2>3. \A id \in DOMAIN stats : OfSource(games', id) # {} /\ Unique(stats[id])
    BY <1>4, <1>5 DEF Tables
  <2> QED BY <2>1, <2>2, <2>3 DEF Tables
<1>7. NothingLost
  <2>1. ASSUME NEW old \in games, NEW new \in games', new.id = old.id,
               NEW f \in Metadata \ {"duration"}, old[f] # Missing[f]
        PROVE  new[f] # Missing[f]
    <3>1. CASE new.id = g.id
      BY <1>2, <2>1, <3>1 DEF Knows, OfSource
    <3>2. CASE new.id # g.id
      <4>1. new \in games
        BY <1>5, <3>2 DEF OfSource
      <4> QED BY <2>1, <4>1 DEF SyncInv, OneRow
    <3> QED BY <3>1, <3>2
  <2>2. \A id \in DOMAIN drafts : drafts[id] # {} => drafts'[id] # {}
    BY <1>3 DEF Filled
  <2>3. \A id \in DOMAIN stats : \A r, s \in stats[id] : r.account = s.account => r = s
    BY DEF Tables, Unique
  <2> QED BY <2>1, <2>2, <2>3 DEF NothingLost
<1>8. Grows
  <2>1. \A id : OfSource(games, id) # {} => OfSource(games', id) # {}
    BY <1>4, <1>5
  <2>2. \A id : id \in DOMAIN drafts => id \in DOMAIN drafts'
    BY <1>3
  <2>3. \A id : Filled(drafts, id) => drafts'[id] # {}
    BY <1>3 DEF Filled
  <2> QED BY <2>1, <2>2, <2>3 DEF Grows
<1> QED BY <1>4, <1>6, <1>7, <1>8 DEF Moves

(* The stats, or the points, of a game are replaced.                       *)
LEMMA StatsMove ==
  ASSUME SyncInv, Tables(games, drafts, stats), NEW id, NEW rows, stats' = Put(stats, id, rows),
         id < 0, OfSource(games, id) # {}, Unique(rows), Composition(rows), WorthKept(Rows(stats, id), rows),
         UNCHANGED <<games, drafts, points>>
  PROVE  Moves /\ Rows(stats', id) = rows
<1>1. stats' = [x \in DOMAIN stats \cup {id} |-> IF x = id THEN rows ELSE stats[x]]
  BY DEF Put
<1>2. Rows(stats', id) = rows /\ \A x : x # id => Rows(stats', x) = Rows(stats, x)
  BY <1>1 DEF Rows
<1>3. Tables(games', drafts', stats')
  BY <1>1 DEF Tables
<1>4. NothingLost
  <2>1. \A old, new \in games : old.id = new.id => old = new
    BY DEF SyncInv, OneRow
  <2>2. ASSUME NEW x \in DOMAIN stats, NEW r \in stats[x], NEW s \in stats'[x],
               s.account = r.account, r.worth # NoText
        PROVE  s.worth # NoText
    <3>1. CASE x = id
      BY <1>1, <2>2, <3>1 DEF WorthKept, Rows
    <3>2. CASE x # id
      BY <1>1, <2>2, <3>2 DEF Tables, Unique
    <3> QED BY <3>1, <3>2
  <2> QED BY <2>1, <2>2 DEF NothingLost
<1>5. Grows
  <2>1. \A x : Composition(Rows(stats, x)) => Composition(Rows(stats', x))
    BY <1>2
  <2> QED BY <2>1 DEF Grows, Filled
<1> QED BY <1>2, <1>3, <1>4, <1>5 DEF Moves

LEMMA PointsMove ==
  ASSUME SyncInv, Tables(games, drafts, stats), NEW id, NEW rows, points' = Put(points, id, rows),
         rows # {}, UNCHANGED <<games, drafts, stats>>
  PROVE  Moves /\ Rows(points', id) # {}
<1>1. points' = [x \in DOMAIN points \cup {id} |-> IF x = id THEN rows ELSE points[x]]
  BY DEF Put
<1>2. Rows(points', id) = rows /\ \A x : x # id => Rows(points', x) = Rows(points, x)
  BY <1>1 DEF Rows
<1>3. NothingLost
  <2>1. \A old, new \in games : old.id = new.id => old = new
    BY DEF SyncInv, OneRow
  <2>2. \A x \in DOMAIN stats : \A r, s \in stats[x] : r.account = s.account => r = s
    BY DEF Tables, Unique
  <2>3. \A x \in DOMAIN points : points[x] # {} => points'[x] # {}
    BY <1>1
  <2> QED BY <2>1, <2>2, <2>3 DEF NothingLost
<1>4. Grows
  <2>1. \A x : Rows(points, x) # {} => Rows(points', x) # {}
    BY <1>2
  <2> QED BY <2>1 DEF Grows, Filled
<1> QED BY <1>2, <1>3, <1>4 DEF Moves

(* Every step of a page sync that runs alone.                              *)
PageStepKept(d) == Moves /\ PageCommand(games', drafts', stats', points', d)

LEMMA RestKept ==
  ASSUME SyncInv, Tables(games, drafts, stats), UNCHANGED <<games, drafts, stats, points>>,
         NEW c, NEW d, Reports(games, drafts, stats, points, c), NothingReported(c, d),
         HasNorm(d) => NormWork(games, drafts, stats, d)
  PROVE  PageStepKept(d)
<1>1. Moves
  BY SameRows
<1>2. Reports(games', drafts', stats', points', d)
  BY <1>1, ReportsStay DEF Moves
<1> QED BY <1>1, <1>2 DEF PageStepKept, PageCommand

LEMMA TurnedReportsNothing ==
  ASSUME NEW c, NEW d, d.results = c.results PROVE NothingReported(c, d)
BY DEF NothingReported

LEMMA EarlyStepKeeps ==
  ASSUME SyncInv, Tables(games, drafts, stats), NEW p \in Procs, EarlyStep(p), cmd[p].kind = "public",
         Reports(games, drafts, stats, points, cmd[p])
  PROVE  PageStepKept(cmd'[p])
<1> DEFINE c == cmd[p]
           d == cmd'[p]
<1>1. /\ NothingReported(c, d)
      /\ ~HasNorm(d) \/ IsUnderstood(c, d)
      /\ UNCHANGED <<store, stats, points>>
  BY EarlyStepIs DEF SyncInv
<1>2. ASSUME IsUnderstood(c, d) PROVE NormWork(games, drafts, stats, d)
  <2>1. PICK page : Acceptable(page) /\ d.todo = << Normalized(page, Match(c)) >>
    BY <1>2 DEF IsUnderstood
  <2>2. Head(d.todo).players = Players(page.players)
    BY <2>1 DEF Normalized
  <2>3. d.phase = "existing"
    BY <1>2 DEF IsUnderstood
  <2>4. Unique(Players(page.players)) /\ Composition(Players(page.players))
    BY <2>1, PlayersAreUnique DEF Acceptable
  <2> QED BY <2>2, <2>3, <2>4 DEF NormWork
<1> HIDE DEF c, d
<1>3. UNCHANGED <<games, drafts, stats, points>>
  BY <1>1 DEF store
<1> QED BY <1>1, <1>2, <1>3, RestKept DEF c, d

LEMMA ReadExistingKeeps ==
  ASSUME SyncInv, Tables(games, drafts, stats), NEW p \in Procs, ReadExisting(p),
         cmd[p].kind = "public", Reports(games, drafts, stats, points, cmd[p]),
         NormWork(games, drafts, stats, cmd[p])
  PROVE  PageStepKept(cmd'[p])
<1> DEFINE c == cmd[p]
           d == cmd'[p]
           n == Head(c.todo)
           m == Head(d.todo)
           old == OfSource(games, n.game.id)
<1>1. /\ HasNorm(c) /\ HasNorm(d) /\ Turned(c, d)
      /\ UNCHANGED <<store, stats, points>> /\ c.phase = "existing"
      /\ d.phase = IF old # {} /\ n.actions = {} THEN "draft" ELSE "store"
      /\ m.known = (old # {}) /\ m.actions = n.actions /\ m.players = n.players
      /\ m.points = n.points /\ m.game.id = n.game.id
      /\ old # {} => m.game = MergedGame(CHOOSE g \in old : TRUE, n.game)
  BY ReadExistingIs DEF SyncInv
<1>2. IsNorm(n, Match(c)) /\ n.game.id < 0
  BY <1>1, NormMet DEF SyncInv
<1>3. Unique(m.players) /\ Composition(m.players)
  BY <1>1 DEF NormWork
<1>4. Knows(games, m.game)
  <2>1. CASE old = {}
    BY <1>1, <2>1 DEF Knows
  <2>2. CASE old # {}
    <3> DEFINE e == CHOOSE g \in old : TRUE
    <3>1. \A g \in old : g = e
      BY DEF SyncInv, OneRow, OfSource
    <3>2. DOMAIN n.game = GameFields /\ m.game = MergedGame(e, n.game)
      BY <1>1, <1>2, <2>2 DEF IsNorm
    <3> HIDE DEF n, m, e, old
    <3>3. \A f \in Metadata \ {"duration"} : e[f] # Missing[f] => m.game[f] # Missing[f]
      BY <3>2, MergedGameIs
    <3> QED BY <1>1, <3>1, <3>3 DEF Knows, old
  <2> QED BY <2>1, <2>2
<1>5. d.phase = "store" => (Filled(drafts, m.game.id) => m.actions # {})
  <2>1. old = {} => ~Filled(drafts, n.game.id)
    BY <1>2 DEF Tables, Filled
  <2> HIDE DEF n, m, old
  <2> QED BY <1>1, <2>1
<1>6. NormWork(games, drafts, stats, d)
  <2>1. d.phase = "draft" => OfSource(games, m.game.id) # {}
    BY <1>1
  <2>2. (m.known <=> OfSource(games, m.game.id) # {}) /\ d.phase \in {"draft", "store"}
    BY <1>1
  <2> HIDE DEF m
  <2> QED BY <1>3, <1>4, <1>5, <2>1, <2>2 DEF NormWork, m
<1> HIDE DEF c, d
<1>7. UNCHANGED <<games, drafts, stats, points>> /\ NothingReported(c, d)
  BY <1>1, TurnedReportsNothing DEF store, Turned
<1> QED BY <1>6, <1>7, RestKept DEF c, d

LEMMA ReadDraftKeeps ==
  ASSUME SyncInv, Tables(games, drafts, stats), NEW p \in Procs, ReadDraft(p),
         cmd[p].kind = "public", Reports(games, drafts, stats, points, cmd[p]),
         NormWork(games, drafts, stats, cmd[p])
  PROVE  PageStepKept(cmd'[p])
<1> DEFINE c == cmd[p]
           d == cmd'[p]
           n == Head(c.todo)
           m == Head(d.todo)
<1>1. /\ Turned(c, d) /\ UNCHANGED <<store, stats, points>> /\ c.phase = "draft" /\ d.phase = "store"
      /\ m.known = n.known /\ m.actions = drafts[n.game.id] /\ m.players = n.players
      /\ m.points = n.points /\ m.game = n.game
  BY ReadDraftIs DEF SyncInv
<1>2. NormWork(games, drafts, stats, d)
  <2>1. Unique(n.players) /\ Composition(n.players) /\ Knows(games, n.game)
        /\ (n.known <=> OfSource(games, n.game.id) # {})
    BY <1>1 DEF NormWork
  <2> HIDE DEF n, m
  <2> QED BY <1>1, <2>1 DEF NormWork, Filled, m
<1> HIDE DEF c, d
<1>3. UNCHANGED <<games, drafts, stats, points>> /\ NothingReported(c, d)
  BY <1>1, TurnedReportsNothing DEF store, Turned
<1> QED BY <1>2, <1>3, RestKept DEF c, d

LEMMA ReadStatsKeeps ==
  ASSUME SyncInv, Tables(games, drafts, stats), NEW p \in Procs, ReadStats(p),
         cmd[p].kind = "public", Reports(games, drafts, stats, points, cmd[p]),
         NormWork(games, drafts, stats, cmd[p])
  PROVE  PageStepKept(cmd'[p])
<1> DEFINE c == cmd[p]
           d == cmd'[p]
           n == Head(c.todo)
           m == Head(d.todo)
<1>1. /\ Turned(c, d) /\ UNCHANGED <<store, stats, points>> /\ c.phase = "stats" /\ d.phase = "replace"
      /\ m.known = n.known /\ m.actions = n.actions /\ m.points = n.points
      /\ m.game = n.game /\ m.players = MergedPlayers(Rows(stats, n.game.id), n.players)
  BY ReadStatsIs DEF SyncInv
<1>2. NormWork(games, drafts, stats, d)
  <2>1. /\ Unique(n.players) /\ Composition(n.players) /\ OfSource(games, n.game.id) # {}
        /\ n.game.id \in DOMAIN drafts /\ (n.actions # {} => drafts[n.game.id] # {})
    BY <1>1 DEF NormWork
  <2>2. Unique(Rows(stats, n.game.id))
    BY DEF Tables, Rows, Unique
  <2> HIDE DEF n, m
  <2>3. Unique(m.players) /\ Composition(m.players) /\ WorthKept(Rows(stats, n.game.id), m.players)
    BY <1>1, <2>1, <2>2, MergedPlayersKeep
  <2> QED BY <1>1, <2>1, <2>3 DEF NormWork, m
<1> HIDE DEF c, d
<1>3. UNCHANGED <<games, drafts, stats, points>> /\ NothingReported(c, d)
  BY <1>1, TurnedReportsNothing DEF store, Turned
<1> QED BY <1>2, <1>3, RestKept DEF c, d

LEMMA PublicLookupKeeps ==
  ASSUME SyncInv, Tables(games, drafts, stats), NEW p \in Procs, Lookup(p),
         UNCHANGED pageTables, cmd[p].kind = "public", Reports(games, drafts, stats, points, cmd[p]),
         NormWork(games, drafts, stats, cmd[p])
  PROVE  PageStepKept(cmd'[p])
<1> DEFINE c == cmd[p]
           d == cmd'[p]
<1>1. /\ UNCHANGED <<store, pageTables>> /\ c.phase = "store" /\ d.phase = "found"
      /\ d.todo = c.todo /\ d.results = c.results /\ d.seen = OfSource(games, Head(c.todo).game.id)
  BY LookupIs DEF SyncInv, RowsOf
<1>2. NormWork(games, drafts, stats, d)
  BY <1>1 DEF NormWork
<1> HIDE DEF c, d
<1>3. UNCHANGED <<games, drafts, stats, points>> /\ NothingReported(c, d)
  BY <1>1, TurnedReportsNothing DEF store, pageTables
<1> QED BY <1>2, <1>3, RestKept DEF c, d

LEMMA StorePublicGameKeeps ==
  ASSUME SyncInv, Tables(games, drafts, stats), NEW p \in Procs, StorePublicGame(p),
         cmd[p].kind = "public", Reports(games, drafts, stats, points, cmd[p]),
         NormWork(games, drafts, stats, cmd[p])
  PROVE  PageStepKept(cmd'[p])
<1> DEFINE c == cmd[p]
           d == cmd'[p]
           n == Head(c.todo)
           m == Head(d.todo)
           id == n.game.id
<1>1. /\ HasNorm(c) /\ Turned(c, d) /\ UpsertGame(c.seen, n.game, n.actions)
      /\ UNCHANGED <<stats, points>> /\ c.phase = "found"
      /\ d.phase = IF n.known THEN "stats" ELSE "replace"
      /\ m.known = n.known /\ m.actions = n.actions /\ m.players = n.players
      /\ m.points = n.points /\ m.game = n.game
  BY StorePublicGameIs DEF SyncInv
<1>2. id \in Int /\ id < 0
  BY <1>1, NormMet DEF SyncInv
<1>3. /\ Unique(n.players) /\ Composition(n.players) /\ Knows(games, n.game)
      /\ (n.known <=> OfSource(games, id) # {}) /\ c.seen = OfSource(games, id)
      /\ (Filled(drafts, id) => n.actions # {})
  BY <1>1 DEF NormWork
<1> HIDE DEF n
<1>4. /\ Moves /\ OfSource(games', id) # {} /\ id \in DOMAIN drafts' /\ drafts'[id] = n.actions
  BY <1>1, <1>2, <1>3, StoredGameMoves
<1>5. d.phase = "replace" => WorthKept(Rows(stats', id), n.players)
  <2>1. d.phase = "replace" => id \notin DOMAIN stats
    BY <1>1, <1>3 DEF Tables
  <2> QED BY <1>1, <2>1 DEF Rows, WorthKept
<1>6. NormWork(games', drafts', stats', d)
  <2> HIDE DEF m
  <2> QED BY <1>1, <1>3, <1>4, <1>5 DEF NormWork, m
<1> HIDE DEF c, d
<1>7. NothingReported(c, d)
  BY <1>1, TurnedReportsNothing DEF Turned
<1>8. Reports(games', drafts', stats', points', d)
  BY <1>4, <1>7, ReportsStay DEF Moves, c
<1> QED BY <1>4, <1>6, <1>8 DEF PageStepKept, PageCommand, d

(* The report of a match is whole.                                         *)
LEMMA ReportIsWhole ==
  ASSUME Moves, NEW c, NEW d, Reports(games, drafts, stats, points, c), ReportsStored(c, d),
         IsWhole(games', drafts', stats', points', StoredResult(Match(c), Head(c.todo)))
  PROVE  PageStepKept(d)
<1>1. Reports(games', drafts', stats', points', c)
  BY TurnedReportsNothing, ReportsStay DEF Moves
<1>2. Reports(games', drafts', stats', points', d)
  BY <1>1 DEF Reports, ReportsStored
<1>3. ~HasNorm(d)
  BY DEF ReportsStored, HasNorm, NormPhases
<1> QED BY <1>2, <1>3 DEF PageStepKept, PageCommand

LEMMA ReplaceStatsKeeps ==
  ASSUME SyncInv, Tables(games, drafts, stats), NEW p \in Procs, ReplaceStats(p),
         cmd[p].kind = "public", Reports(games, drafts, stats, points, cmd[p]),
         NormWork(games, drafts, stats, cmd[p])
  PROVE  PageStepKept(cmd'[p])
<1> DEFINE c == cmd[p]
           d == cmd'[p]
           n == Head(c.todo)
           id == n.game.id
<1>1. /\ HasNorm(c) /\ UNCHANGED <<store, points>>
      /\ c.phase = "replace" /\ stats' = Put(stats, id, n.players)
      /\ IF n.points # {} THEN HasNorm(d) /\ Turned(c, d) /\ d.phase = "points" /\ d.todo = c.todo
                          ELSE ReportsStored(c, d)
  BY ReplaceStatsIs DEF SyncInv
<1>2. id \in Int /\ id < 0 /\ id = GameId(Match(c))
  BY <1>1, NormMet DEF SyncInv, IsNorm
<1>3. /\ Unique(n.players) /\ Composition(n.players) /\ OfSource(games, id) # {}
      /\ id \in DOMAIN drafts /\ (n.actions # {} => drafts[id] # {})
      /\ WorthKept(Rows(stats, id), n.players)
  BY <1>1 DEF NormWork
<1>4. UNCHANGED <<games, drafts, points>>
  BY <1>1 DEF store
<1> HIDE DEF n
<1>5. Moves /\ Rows(stats', id) = n.players
  BY <1>1, <1>2, <1>3, <1>4, StatsMove
<1>6. CASE n.points # {}
  <2>1. NormWork(games', drafts', stats', d)
    BY <1>1, <1>3, <1>4, <1>5, <1>6 DEF NormWork, n
  <2> HIDE DEF c, d
  <2>2. NothingReported(c, d)
    BY <1>1, <1>6, TurnedReportsNothing DEF Turned
  <2>3. Reports(games', drafts', stats', points', d)
    BY <1>5, <2>2, ReportsStay DEF Moves, c
  <2> QED BY <1>5, <2>1, <2>3 DEF PageStepKept, PageCommand, d
<1>7. CASE n.points = {}
  <2> DEFINE r == StoredResult(Match(c), n)
  <2>1. r.match = Match(c) /\ r.ordered = (n.actions # {}) /\ r.curved = (n.points # {})
    BY DEF StoredResult
  <2> HIDE DEF r
  <2>2. IsWhole(games', drafts', stats', points', r)
    BY <1>2, <1>3, <1>4, <1>5, <1>7, <2>1 DEF IsWhole
  <2> HIDE DEF c, d
  <2> QED BY <1>1, <1>5, <1>7, <2>2, ReportIsWhole DEF r, n, c, d
<1> QED BY <1>6, <1>7

LEMMA ReplacePointsKeeps ==
  ASSUME SyncInv, Tables(games, drafts, stats), NEW p \in Procs, ReplacePoints(p),
         cmd[p].kind = "public", Reports(games, drafts, stats, points, cmd[p]),
         NormWork(games, drafts, stats, cmd[p])
  PROVE  PageStepKept(cmd'[p])
<1> DEFINE c == cmd[p]
           d == cmd'[p]
           n == Head(c.todo)
           id == n.game.id
           r == StoredResult(Match(c), n)
<1>1. /\ HasNorm(c) /\ UNCHANGED <<store, stats>>
      /\ c.phase = "points" /\ points' = Put(points, id, n.points) /\ ReportsStored(c, d)
  BY ReplacePointsIs DEF SyncInv
<1>2. id \in Int /\ id < 0 /\ id = GameId(Match(c))
  BY <1>1, NormMet DEF SyncInv, IsNorm
<1>3. /\ OfSource(games, id) # {} /\ id \in DOMAIN drafts /\ (n.actions # {} => drafts[id] # {})
      /\ n.points # {} /\ Composition(Rows(stats, id))
  BY <1>1 DEF NormWork
<1>4. UNCHANGED <<games, drafts, stats>>
  BY <1>1 DEF store
<1> HIDE DEF n
<1>5. Moves /\ Rows(points', id) # {}
  BY <1>1, <1>3, <1>4, PointsMove
<1>6. r.match = Match(c) /\ r.ordered = (n.actions # {}) /\ r.curved = (n.points # {})
  BY DEF StoredResult
<1> HIDE DEF r
<1>7. IsWhole(games', drafts', stats', points', r)
  BY <1>2, <1>3, <1>4, <1>5, <1>6 DEF IsWhole
<1> HIDE DEF c, d
<1> QED BY <1>1, <1>5, <1>7, ReportIsWhole DEF r, n, c, d

LEMMA PageEndKeeps ==
  ASSUME SyncInv, Tables(games, drafts, stats), NEW p \in Procs,
         InsertedBefore(p) \/ ((Finish(p) \/ Die(p)) /\ UNCHANGED pageTables),
         Reports(games, drafts, stats, points, cmd[p])
  PROVE  PageStepKept(cmd'[p])
<1> DEFINE c == cmd[p]
           d == cmd'[p]
<1>1. UNCHANGED store /\ d.results = c.results /\ d.phase \in {"failed", "done"}
  BY EndIs DEF SyncInv
<1>2. ~HasNorm(d)
  BY <1>1 DEF HasNorm, NormPhases
<1> HIDE DEF c, d
<1>3. UNCHANGED <<games, drafts, stats, points>> /\ NothingReported(c, d)
  BY <1>1, TurnedReportsNothing DEF store, pageTables, InsertedBefore, Quiet
<1> QED BY <1>2, <1>3, RestKept DEF c, d

LEMMA PublicStepKeeps ==
  ASSUME SyncInv, Tables(games, drafts, stats), NEW p \in Procs, PublicOwn(p), cmd[p].kind = "public",
         PageCommand(games, drafts, stats, points, cmd[p])
  PROVE  PageStepKept(cmd'[p])
<1>1. Reports(games, drafts, stats, points, cmd[p])
      /\ (HasNorm(cmd[p]) => NormWork(games, drafts, stats, cmd[p]))
  BY DEF PageCommand
<1>2. CASE EarlyStep(p)
  BY <1>1, <1>2, EarlyStepKeeps
<1>3. CASE \/ ReadExisting(p) \/ ReadDraft(p) \/ ReadStats(p) \/ StorePublicGame(p)
           \/ ReplaceStats(p) \/ ReplacePoints(p) \/ (Lookup(p) /\ UNCHANGED pageTables)
  <2>1. HasNorm(cmd[p])
    BY <1>3 DEF ReadExisting, ReadDraft, ReadStats, StorePublicGame, ReplaceStats, ReplacePoints,
                Lookup, HasNorm, NormPhases
  <2> QED BY <1>1, <1>3, <2>1, ReadExistingKeeps, ReadDraftKeeps, ReadStatsKeeps,
             StorePublicGameKeeps, ReplaceStatsKeeps, ReplacePointsKeeps, PublicLookupKeeps
<1>4. CASE InsertedBefore(p) \/ ((Finish(p) \/ Die(p)) /\ UNCHANGED pageTables)
  BY <1>1, <1>4, PageEndKeeps
<1> QED BY <1>2, <1>3, <1>4 DEF PublicOwn, PageStep, EarlyStep

(* Commands of the other kinds do not touch what public pages store.       *)
LEMMA OthersMove ==
  ASSUME SyncInv, Tables(games, drafts, stats), NEW id \in Nat \ {0}, TouchesOnly(id),
         UNCHANGED <<stats, points>>
  PROVE  Moves
<1>1. ASSUME NEW low, low < 0
      PROVE  /\ OfSource(games', low) = OfSource(games, low)
             /\ low \in DOMAIN drafts' <=> low \in DOMAIN drafts
             /\ low \in DOMAIN drafts => drafts'[low] = drafts[low]
  <2>1. low # id
    BY <1>1
  <2> QED BY <2>1 DEF TouchesOnly, Untouched
<1>2. Tables(games', drafts', stats')
  <2>1. ASSUME NEW row \in games', row.id < 0 PROVE row.id \in DOMAIN drafts'
    <3>1. row \in games
      BY <1>1, <2>1 DEF OfSource
    <3> QED BY <1>1, <2>1, <3>1 DEF Tables
  <2> QED BY <1>1, <2>1 DEF Tables
<1>3. NothingLost
  <2>1. ASSUME NEW old \in games, NEW new \in games', old.id < 0, new.id = old.id PROVE old = new
    <3>1. new \in games
      BY <1>1, <2>1 DEF OfSource
    <3> QED BY <2>1, <3>1 DEF SyncInv, OneRow
  <2>2. \A x \in DOMAIN stats : \A r, s \in stats[x] : r.account = s.account => r = s
    BY DEF Tables, Unique
  <2>3. \A x \in DOMAIN drafts : x < 0 /\ drafts[x] # {} => drafts'[x] # {}
    BY <1>1
  <2> QED BY <2>1, <2>2, <2>3 DEF NothingLost
<1>4. Grows
  BY <1>1 DEF Grows, Filled
<1> QED BY <1>2, <1>3, <1>4 DEF Moves

LEMMA PageCommandStays ==
  ASSUME Grows, NEW c, PageCommand(games, drafts, stats, points, c), c.kind = "public" => ~HasNorm(c)
  PROVE  PageCommand(games', drafts', stats', points', c)
BY TurnedReportsNothing, ReportsStay DEF PageCommand

LEMMA WorkUntouched ==
  ASSUME Shape, NEW q \in Procs, cmd[q].kind = "public", NEW id \in Nat \ {0}, TouchesOnly(id), Grows,
         UNCHANGED <<stats, points>>, PageCommand(games, drafts, stats, points, cmd[q])
  PROVE  PageCommand(games', drafts', stats', points', cmd[q])
<1> DEFINE c == cmd[q]
           n == Head(c.todo)
<1>1. Reports(games', drafts', stats', points', c)
  BY TurnedReportsNothing, ReportsStay DEF PageCommand
<1>2. ASSUME HasNorm(c) PROVE NormWork(games', drafts', stats', c)
  <2>1. NormWork(games, drafts, stats, c)
    BY <1>2 DEF PageCommand
  <2>2. n.game.id \in Int /\ n.game.id < 0
    BY <1>2, NormMet
  <2>3. Untouched(n.game.id)
    BY <2>2 DEF TouchesOnly
  <2> HIDE DEF n
  <2>4. /\ OfSource(games', n.game.id) = OfSource(games, n.game.id)
        /\ n.game.id \in DOMAIN drafts' <=> n.game.id \in DOMAIN drafts
        /\ n.game.id \in DOMAIN drafts => drafts'[n.game.id] = drafts[n.game.id]
    BY <2>3 DEF Untouched
  <2>5. Knows(games, n.game) => Knows(games', n.game)
    BY <2>4 DEF Knows
  <2>6. Filled(drafts', n.game.id) => Filled(drafts, n.game.id)
    BY <2>4 DEF Filled
  <2> QED BY <2>1, <2>4, <2>5, <2>6 DEF NormWork, n
<1> QED BY <1>1, <1>2 DEF PageCommand

LEMMA PageInvStep ==
  ASSUME SyncInv, PageInv, [PublicNext]_publicVars, Alone'
  PROVE  Moves /\ \A q \in Procs : PageCommand(games', drafts', stats', points', cmd'[q])
<1> DEFINE Works == \A q \in Procs : PageCommand(games', drafts', stats', points', cmd'[q])
<1> SUFFICES Moves /\ Works
  OBVIOUS
<1>1. Shape
  BY DEF SyncInv
<1>2. ASSUME Alone
      PROVE  /\ Tables(games, drafts, stats)
             /\ \A q \in Procs : PageCommand(games, drafts, stats, points, cmd[q])
  BY <1>2 DEF PageInv
<1>3. CASE UNCHANGED publicVars \/ (ProviderMoves /\ UNCHANGED pageTables)
  <2>1. UNCHANGED <<games, drafts, stats, points>> /\ UNCHANGED <<cmd, raced>>
    BY <1>3 DEF publicVars, sync, store, pageTables, ProviderMoves
  <2>2. Alone
    BY <2>1 DEF Alone
  <2>3. Moves
    BY <1>2, <2>1, <2>2, SameRows
  <2> QED BY <1>2, <2>1, <2>2, <2>3
<1>4. ASSUME NEW p \in Procs, Starts(p), UNCHANGED pageTables PROVE Moves /\ Works
  <2>1. PICK d \in FreshForms :
           /\ cmd' = [q \in Procs |-> IF q = p THEN d ELSE cmd[q]]
           /\ raced \subseteq raced' /\ UNCHANGED store
    BY <1>1, <1>4, StartIs
  <2>2. Alone /\ UNCHANGED <<games, drafts, stats, points>>
    BY <1>4, <2>1 DEF Alone, store, pageTables
  <2>3. \A q \in Procs : cmd'[q] = IF q = p THEN d ELSE cmd[q]
    BY <2>1
  <2>4. d.results = << >> /\ ~HasNorm(d)
    <3>1. d.results = << >> /\ d.phase \notin Resting \cup {"store", "found"} /\ Well(d, feed)
          /\ d.todo = << >>
      BY <1>1, FreshIsWell
    <3>2. d.phase \in {"page", "pro", "roster", "robots"}
      BY DEF FreshForms, Fresh, Idle
    <3> QED BY <3>1, <3>2 DEF HasNorm, NormPhases
  <2>5. PageCommand(games', drafts', stats', points', d)
    BY <2>4, EmptyList DEF PageCommand, Reports
  <2>6. Moves
    BY <1>2, <2>2, SameRows
  <2> QED BY <1>2, <2>2, <2>3, <2>5, <2>6
<1>5. ASSUME NEW p \in Procs, Own(p), cmd[p].kind # "public", UNCHANGED pageTables,
             UNCHANGED <<games, drafts>>
      PROVE  Moves /\ Works
  <2>1. raced' = raced /\ (\A q \in Procs : q # p => cmd'[q] = cmd[q]) /\ cmd'[p].kind # "public"
    BY <1>5 DEF Own
  <2>2. Alone /\ UNCHANGED <<games, drafts, stats, points>>
    BY <1>5, <2>1 DEF Alone, pageTables
  <2>3. PageCommand(games', drafts', stats', points', cmd'[p])
    BY <2>1 DEF PageCommand
  <2>4. Moves
    BY <1>2, <2>2, SameRows
  <2> QED BY <1>2, <2>1, <2>2, <2>3, <2>4
<1>6. ASSUME NEW p \in Procs, cmd[p].kind = "match", MatchStep(p), UNCHANGED pageTables
      PROVE  Moves /\ Works
  BY <1>1, <1>5, <1>6, MatchFrame
<1>7. ASSUME NEW p \in Procs, cmd[p].kind = "roster", RosterStep(p), UNCHANGED pageTables
      PROVE  Moves /\ Works
  BY <1>1, <1>5, <1>7, RosterFrame
<1>8. ASSUME NEW p \in Procs, cmd[p].kind = "public", PublicOwn(p) PROVE Moves /\ Works
  <2>1. Own(p)
    BY <1>1, <1>8, PublicFrame
  <2>2. raced' = raced /\ (\A q \in Procs : q # p => cmd'[q] = cmd[q]) /\ Runs(cmd[p])
    BY <2>1 DEF Own, Active, Runs, Resting
  <2>3. Alone
    BY <2>2 DEF Alone
  <2>4. PageStepKept(cmd'[p])
    BY <1>2, <1>8, <2>3, PublicStepKeeps
  <2>5. Moves /\ PageCommand(games', drafts', stats', points', cmd'[p])
    BY <2>4 DEF PageStepKept
  <2>6. ASSUME NEW q \in Procs, q # p PROVE PageCommand(games', drafts', stats', points', cmd[q])
    <3>1. cmd[q].kind = "public" => ~Runs(cmd[q])
      BY <1>8, <2>2, <2>3, <2>6 DEF SyncInv, OneAtATime, Alone
    <3>2. cmd[q].kind = "public" => ~HasNorm(cmd[q])
      BY <3>1 DEF Runs, HasNorm, NormPhases, Resting
    <3> QED BY <1>2, <2>3, <2>5, <3>2, PageCommandStays DEF Moves
  <2> QED BY <2>2, <2>5, <2>6
<1>9. ASSUME NEW p \in Procs, cmd[p].kind = "draft", DraftStep(p), UNCHANGED pageTables
      PROVE  Moves /\ Works
  <2>1. PICK id \in Nat \ {0} : TouchesOnly(id)
    BY <1>1, <1>9, DraftFrame
  <2>2. Own(p)
    BY <1>1, <1>9, DraftFrame
  <2>3. raced' = raced /\ (\A q \in Procs : q # p => cmd'[q] = cmd[q]) /\ cmd'[p].kind = "draft"
    BY <1>9, <2>2 DEF Own
  <2>4. Alone /\ UNCHANGED <<stats, points>>
    BY <1>9, <2>3 DEF Alone, pageTables
  <2>5. Moves
    BY <1>2, <2>1, <2>4, OthersMove
  <2>6. PageCommand(games', drafts', stats', points', cmd'[p])
    BY <2>3 DEF PageCommand
  <2>7. ASSUME NEW q \in Procs, cmd[q].kind = "public"
        PROVE  PageCommand(games', drafts', stats', points', cmd[q])
    BY <1>1, <1>2, <2>1, <2>4, <2>5, <2>7, WorkUntouched DEF Moves
  <2>8. \A q \in Procs : cmd[q].kind # "public" => PageCommand(games', drafts', stats', points', cmd[q])
    BY DEF PageCommand
  <2> QED BY <2>3, <2>5, <2>6, <2>7, <2>8
<1> HIDE DEF Works
<1> QED BY <1>1, <1>3, <1>4, <1>6, <1>7, <1>8, <1>9, StepsByKind DEF AnyStep

LEMMA PageInvNext ==
  ASSUME SyncInv, PageInv, [PublicNext]_publicVars PROVE PageInv'
<1>1. Alone' => Moves /\ \A q \in Procs : PageCommand(games', drafts', stats', points', cmd'[q])
  BY PageInvStep
<1> QED BY <1>1 DEF PageInv, Moves

LEMMA PageInvHolds == PublicSpec => [](SyncInv /\ PageInv)
<1>1. PublicInit => SyncInv /\ PageInv
  <2> SUFFICES ASSUME PublicInit PROVE PageInv
    BY SyncInvInit
  <2>1. /\ games = {} /\ drafts = << >> /\ stats = << >> /\ points = << >>
        /\ \A p \in Procs : cmd[p] = Idle
    BY DEF PublicInit, SyncInit, StoreInit
  <2>2. Idle.kind # "public"
    BY DEF Idle
  <2>3. Tables(games, drafts, stats)
    BY <2>1 DEF Tables
  <2> QED BY <2>1, <2>2, <2>3 DEF PageInv, PageCommand
<1>2. SyncInv /\ PageInv /\ [PublicNext]_publicVars => (SyncInv /\ PageInv)'
  BY SyncInvStep, PageInvNext
<1> QED BY <1>1, <1>2, PTL DEF PublicSpec

(* Page syncs that do not overlap keep every field known of a match and    *)
(* every worth known of a player, and never empty a stored draft or a      *)
(* stored set of points; the rows of either may be replaced.               *)
THEOREM NothingIsErased == PublicSpec => NothingErased
<1> DEFINE Kept == Alone' => NothingLost
<1>1. SyncInv /\ PageInv /\ [PublicNext]_publicVars => Kept
  BY PageInvStep DEF Moves
<1>2. PublicSpec => [][Kept]_publicVars
  <2> HIDE DEF Kept
  <2> QED BY <1>1, PageInvHolds, PTL DEF PublicSpec
<1>3. NothingErased <=> [][Kept]_publicVars
  BY DEF NothingErased, NothingLost
<1> QED BY <1>2, <1>3

(* A match that a finished page sync reports as stored is there with its   *)
(* game row, both whole sides, and the draft and points reported.          *)
THEOREM ReportedStaysWhole == PublicSpec => []ReportedIsWhole
<1>1. PageInv => ReportedIsWhole
  BY DEF PageInv, PageCommand, Reports, IsWhole, ReportedIsWhole
<1> QED BY <1>1, PageInvHolds, PTL

-----------------------------------------------------------------------------
(* The split by time.                                                      *)
LEMMA ShareGrows ==
  ASSUME NEW n \in Nat, NEW p \in Nat, NEW q \in Nat
  PROVE  (n * p) \div 100 \in Nat /\ (n * p) \div 100 <= (n * (p + q)) \div 100
<1>1. n * p \in Nat /\ n * q \in Nat /\ n * (p + q) = n * p + n * q
  OBVIOUS
<1>2. \A x, y \in Nat : x \div 100 \in Nat /\ x \div 100 <= (x + y) \div 100
  OBVIOUS
<1> QED BY <1>1, <1>2

LEMMA EarlierIsOrdered ==
  ASSUME NEW rows, IsFiniteSet(rows), \A r \in rows : r.at \in Int,
         NEW x \in rows, NEW y \in rows, ~(x.at < y.at)
  PROVE  Earlier(rows, y) <= Earlier(rows, x)
<1> DEFINE A == {r \in rows : r.at < y.at}
           B == {r \in rows : r.at < x.at}
<1>1. A \in SUBSET B /\ B \in SUBSET rows
  OBVIOUS
<1>2. Earlier(rows, y) = Cardinality(A) /\ Earlier(rows, x) = Cardinality(B)
  BY DEF Earlier
<1> HIDE DEF A, B
<1> QED BY <1>1, <1>2, FS_Subset

LEMMA SplitByTime ==
  ASSUME NEW rows, IsFiniteSet(rows), \A r \in rows : r.at \in Int
  PROVE  /\ \A x \in Split(rows).train, y \in Split(rows).validation : x.at < y.at
         /\ \A x \in Split(rows).validation, y \in Split(rows).test : x.at < y.at
         /\ \A x \in Split(rows).train, y \in Split(rows).test : x.at < y.at
<1> DEFINE low == Share(rows, Parts[1])
           high == Share(rows, Parts[1] + Parts[2])
<1>1. low \in Nat /\ high \in Int /\ low <= high
  <2>1. Cardinality(rows) \in Nat
    BY FS_CardinalityType
  <2>2. /\ (Cardinality(rows) * Parts[1]) \div 100 \in Nat
        /\ (Cardinality(rows) * Parts[1]) \div 100 <= (Cardinality(rows) * (Parts[1] + Parts[2])) \div 100
        /\ (Cardinality(rows) * (Parts[1] + Parts[2])) \div 100 \in Int
    <3>1. Parts[1] \in Nat /\ Parts[2] \in Nat /\ Parts[1] + Parts[2] \in Nat
      BY TrainingAssumption
    <3> QED BY <2>1, <3>1, ShareGrows
  <2> QED BY <2>2 DEF Share
<1>2. \A r \in rows : Earlier(rows, r) \in Nat
  <2> TAKE r \in rows
  <2>1. IsFiniteSet({x \in rows : x.at < r.at})
    BY FS_Subset
  <2> QED BY <2>1, FS_CardinalityType DEF Earlier
<1>3. /\ Split(rows).train = {r \in rows : Earlier(rows, r) < low}
      /\ Split(rows).validation = {r \in rows : Earlier(rows, r) < high} \ {r \in rows : Earlier(rows, r) < low}
      /\ Split(rows).test = rows \ {r \in rows : Earlier(rows, r) < high}
  BY DEF Split
<1> HIDE DEF low, high
<1>4. \A x, y \in rows : Earlier(rows, x) < Earlier(rows, y) => x.at < y.at
  BY <1>2, EarlierIsOrdered
<1>5. ASSUME NEW x \in rows, NEW y \in rows, NEW cut \in Int, Earlier(rows, x) < cut, ~(Earlier(rows, y) < cut)
      PROVE  x.at < y.at
  BY <1>2, <1>4, <1>5
<1> QED BY <1>1, <1>2, <1>3, <1>5

(* What is stored: finitely many rows with times.                          *)
TablesInv ==
  /\ IsFiniteSet(matches) /\ \A m \in matches : m.start \in Int
  /\ IsFiniteSet(games) /\ \A g \in games : g.start \in Int
  /\ IsFiniteSet(DOMAIN snapshots) /\ \A r \in DOMAIN snapshots : snapshots[r] \in Int
ModelInv ==
  /\ model = [k \in Models |-> model[k]]
  /\ \A k \in Models : model[k] = NoModel
       \/ \E rows : /\ IsFiniteSet(rows) /\ \A r \in rows : r.at \in Int
                    /\ Trainable(rows) /\ model[k] = Split(rows)

LEMMA RowsAreDated ==
  ASSUME TablesInv, NEW kind
  PROVE  IsFiniteSet(RowsNow(kind)) /\ \A r \in RowsNow(kind) : r.at \in Int
<1> DEFINE T == IF kind = "match" THEN Targets ELSE DraftTargets
           f == [r \in T |-> Label(r)]
<1>1. T \subseteq matches \/ T \subseteq games
  BY DEF Targets, DraftTargets
<1>2. IsFiniteSet(T) /\ \A r \in T : r.start \in Int
  <2> HIDE DEF T
  <2> QED BY <1>1, FS_Subset DEF TablesInv
<1>3. RowsNow(kind) = {f[r] : r \in DOMAIN f} /\ DOMAIN f = T /\ \A r \in T : f[r].at = r.start
  BY DEF RowsNow, Label
<1> HIDE DEF f, T
<1> QED BY <1>2, <1>3, ImageIsFinite

LEMMA PutTimed ==
  ASSUME TablesInv, NEW s \in Sightings, UpsertRoster(s)
  PROVE  TablesInv'
<1>1. matches' = matches /\ games' = games
  BY DEF UpsertRoster, UpsertSnapshot
<1>2. CASE snapshots' = snapshots
  BY <1>1, <1>2 DEF TablesInv
<1>3. CASE snapshots' = Put(snapshots, s.roster, s.observed)
  <2>1. DOMAIN snapshots' = DOMAIN snapshots \cup {s.roster}
    BY <1>3 DEF Put
  <2>2. \A r \in DOMAIN snapshots' : snapshots'[r] \in Int
    BY <1>3, TrainingAssumption DEF Put, TablesInv
  <2>3. IsFiniteSet(DOMAIN snapshots')
    BY <2>1, FS_AddElement DEF TablesInv
  <2> QED BY <1>1, <2>2, <2>3 DEF TablesInv
<1> QED BY <1>2, <1>3 DEF UpsertRoster, UpsertSnapshot

LEMMA ReplacedIsFinite ==
  ASSUME NEW table, IsFiniteSet(table), NEW row
  PROVE  IsFiniteSet(Replaced(table, row)) /\ Replaced(table, row) \subseteq table \cup {row}
<1>1. IsFiniteSet(table \cup {row})
  BY FS_AddElement
<1>2. Replaced(table, row) \subseteq table \cup {row}
  BY DEF Replaced
<1> QED BY <1>1, <1>2, FS_Subset

LEMMA TablesStep == TablesInv /\ [TrainingNext]_trainVars => TablesInv'
<1> SUFFICES ASSUME TablesInv, [TrainingNext]_trainVars PROVE TablesInv'
  OBVIOUS
<1>1. CASE UNCHANGED store
  BY <1>1 DEF store, TablesInv
<1>2. ASSUME NEW m \in MatchRows, WriteMatch(m) PROVE TablesInv'
  <2>1. UNCHANGED <<games, snapshots>> /\ (matches' = matches \/ matches' = Replaced(matches, m))
    BY <1>2 DEF WriteMatch, UpsertMatch
  <2>2. m.start \in Int
    BY TrainingAssumption
  <2> QED BY <2>1, <2>2, ReplacedIsFinite DEF TablesInv
<1>3. ASSUME NEW x \in GameRows, WriteGame(x) PROVE TablesInv'
  <2>1. UNCHANGED <<matches, snapshots>> /\ (games' = games \/ games' = Replaced(games, x.game))
    BY <1>3 DEF WriteGame, UpsertGame
  <2>2. x.game.start \in Int
    BY TrainingAssumption
  <2> QED BY <2>1, <2>2, ReplacedIsFinite DEF TablesInv
<1>4. ASSUME NEW s \in Sightings, WriteRoster(s) PROVE TablesInv'
  BY <1>4, PutTimed DEF WriteRoster
<1> QED BY <1>1, <1>2, <1>3, <1>4
        DEF TrainingNext, trainVars, TrainHistorical, TrainDraft, EvaluateHistorical, EvaluateDraft,
            DraftCommand, Train, Predict

LEMMA ModelStep == TablesInv /\ ModelInv /\ [TrainingNext]_trainVars => ModelInv'
<1> SUFFICES ASSUME TablesInv, ModelInv, [TrainingNext]_trainVars PROVE ModelInv'
  OBVIOUS
<1>1. CASE UNCHANGED model
  BY <1>1 DEF ModelInv
<1>2. ASSUME NEW k \in Models, Train(k) PROVE ModelInv'
  <2>1. CASE Trainable(RowsNow(k))
    <3>1. model' = [model EXCEPT ![k] = Split(RowsNow(k))]
      BY <1>2, <2>1 DEF Train
    <3> QED BY <2>1, <3>1, RowsAreDated DEF ModelInv
  <2>2. CASE ~Trainable(RowsNow(k))
    <3>1. model' = [model EXCEPT ![k] = model[k]] /\ model = [j \in Models |-> model[j]]
      BY <1>2, <2>2 DEF Train, ModelInv
    <3>2. model' = model
      BY <3>1
    <3> QED BY <1>1, <3>2
  <2> QED BY <2>1, <2>2
<1>3. UNCHANGED model \/ \E k \in Models : Train(k)
  BY DEF TrainingNext, trainVars, TrainHistorical, TrainDraft, EvaluateHistorical, EvaluateDraft,
         DraftCommand, Predict, WriteMatch, WriteRoster, WriteGame, Written, Models
<1> QED BY <1>1, <1>2, <1>3

(* The rows a model file was fitted on are older than those that chose and *)
(* measured it: for any tables, any split in percent and any order in      *)
(* which synchronisation writes rows between two commands.                 *)
THEOREM ModelsAreOutOfSample == TrainingSpec => []OutOfSample
<1>1. TrainingInit => TablesInv /\ ModelInv
  <2> SUFFICES ASSUME TrainingInit PROVE TablesInv /\ ModelInv
    OBVIOUS
  <2>1. matches = {} /\ games = {} /\ DOMAIN snapshots = {}
    BY DEF TrainingInit, StoreInit
  <2>2. model = [k \in Models |-> NoModel]
    BY DEF TrainingInit
  <2> QED BY <2>1, <2>2, FS_EmptySet DEF TablesInv, ModelInv
<1>2. TablesInv /\ ModelInv /\ [TrainingNext]_trainVars => (TablesInv /\ ModelInv)'
  BY TablesStep, ModelStep
<1>3. ModelInv => OutOfSample
  <2> SUFFICES ASSUME ModelInv, NEW k \in Models, model[k] # NoModel
               PROVE  /\ \A x \in model[k].train, y \in model[k].validation : x.at < y.at
                      /\ \A x \in model[k].validation, y \in model[k].test : x.at < y.at
                      /\ \A x \in model[k].train, y \in model[k].test : x.at < y.at
                      /\ \A part \in {"train", "validation", "test"} :
                           Cardinality(model[k][part]) >= Minimum[part]
                      /\ Cardinality({x.target : x \in model[k].train}) = 2
    BY DEF OutOfSample
  <2>1. PICK rows : /\ IsFiniteSet(rows) /\ \A r \in rows : r.at \in Int
                    /\ Trainable(rows) /\ model[k] = Split(rows)
    BY DEF ModelInv
  <2>2. DOMAIN Split(rows) = {"train", "validation", "test"}
    BY DEF Split
  <2>3. \A part \in {"train", "validation", "test"} : Cardinality(model[k][part]) >= Minimum[part]
    BY <2>1, <2>2 DEF Trainable, EnoughRows
  <2>4. Cardinality({x.target : x \in model[k].train}) = 2
    BY <2>1 DEF Trainable
  <2> QED BY <2>1, <2>3, <2>4, SplitByTime
<1> QED BY <1>1, <1>2, <1>3, PTL DEF TrainingSpec

(* A prediction is made from the row a model is trained on: the history    *)
(* the database gives for a cutoff is what the dataset filters.            *)
THEOREM ServedRowsAreTrainingRows == TrainingSpec => []ServedAsTrained
<1>1. ServedAsTrained
  <2> SUFFICES ASSUME NEW m \in Targets PROVE PredictionRow(ContextOf(m)) = TrainingFeatures(m)
    BY DEF ServedAsTrained
  <2>1. ASSUME NEW ctx
        PROVE  Eligible({x \in MatchesBefore(ctx.at) : InScope(x)}, ctx) = Eligible(ScopedMatches, ctx)
    BY DEF Eligible, MatchesBefore, ScopedMatches, CompletedBefore, Finished, EndedBefore
  <2> QED BY <2>1 DEF PredictionRow, TrainingFeatures, FeatureRow
<1> QED BY <1>1, PTL

-----------------------------------------------------------------------------
(* The row of a draft is made of games that were over when it started.     *)
LEMMA PriorGamesKnown ==
  ASSUME NEW at, KnownGames(at)' = KnownGames(at)
  PROVE  /\ GamesBefore(at)' = GamesBefore(at)
         /\ \A p \in GamesBefore(at) : drafts'[p.id] = drafts[p.id]
<1>1. \A p : p \in GamesBefore(at) <=> \E d : <<p, d>> \in KnownGames(at)
  BY DEF KnownGames
<1>2. \A p : p \in GamesBefore(at)' <=> \E d : <<p, d>> \in KnownGames(at)'
  BY DEF KnownGames
<1>3. \A p \in GamesBefore(at) : \A d : <<p, d>> \in KnownGames(at) <=> d = drafts[p.id]
  BY DEF KnownGames
<1>4. \A p \in GamesBefore(at)' : \A d : <<p, d>> \in KnownGames(at)' <=> d = drafts'[p.id]
  BY DEF KnownGames
<1>5. \A p : p \in GamesBefore(at)' <=> p \in GamesBefore(at)
  BY <1>1, <1>2
<1>6. ASSUME NEW p \in GamesBefore(at) PROVE drafts'[p.id] = drafts[p.id]
  <2>1. <<p, drafts'[p.id]>> \in KnownGames(at)'
    BY <1>4, <1>5
  <2>2. <<p, drafts'[p.id]>> \in KnownGames(at)
    BY <2>1
  <2> DEFINE d == drafts'[p.id]
  <2>3. <<p, d>> \in KnownGames(at) => d = drafts[p.id]
    BY <1>3
  <2> QED BY <2>2, <2>3
<1>7. GamesBefore(at)' = GamesBefore(at)
  BY <1>5
<1> QED BY <1>6, <1>7

LEMMA DraftRowKnown ==
  ASSUME NEW g, drafts'[g.id] = drafts[g.id], KnownGames(g.start)' = KnownGames(g.start)
  PROVE  DraftRow(g)' = DraftRow(g)
<1>1. /\ GamesBefore(g.start)' = GamesBefore(g.start)
      /\ \A p \in GamesBefore(g.start) : drafts'[p.id] = drafts[p.id]
  BY PriorGamesKnown
<1>2. PriorGames(g) = {p \in GamesBefore(g.start) : p.id # g.id /\ UsableDraft(p)}
  BY DEF PriorGames, GamesBefore, GameEndedBefore
<1>3. PriorGames(g)' = {p \in GamesBefore(g.start)' : p.id # g.id /\ UsableDraft(p)'}
  BY DEF PriorGames, GamesBefore, GameEndedBefore
<1>4. \A p \in GamesBefore(g.start) : UsableDraft(p)' <=> UsableDraft(p)
  BY <1>1 DEF UsableDraft
<1>5. PriorGames(g)' = PriorGames(g)
  BY <1>1, <1>2, <1>3, <1>4
<1>6. \A team : Heroes(g, team)' = Heroes(g, team)
  BY DEF Heroes
<1>7. \A p \in PriorGames(g) : \A team : Heroes(p, team)' = Heroes(p, team)
  BY <1>1, <1>2 DEF Heroes
<1>8. \A hero : HeroRecord(PriorGames(g), hero)' = HeroRecord(PriorGames(g), hero)
  <2> TAKE hero
  <2>1. {x \in PriorGames(g) \X {"a", "b"} : hero \in Heroes(x[1], x[2])}'
          = {x \in PriorGames(g) \X {"a", "b"} : hero \in Heroes(x[1], x[2])}
    BY <1>5, <1>7
  <2> QED BY <2>1 DEF HeroRecord, Record
<1>9. \A pair : PairRecord(PriorGames(g), pair)' = PairRecord(PriorGames(g), pair)
  <2> TAKE pair
  <2>1. {x \in PriorGames(g) \X {"a", "b"} : pair \subseteq Heroes(x[1], x[2])}'
          = {x \in PriorGames(g) \X {"a", "b"} : pair \subseteq Heroes(x[1], x[2])}
    BY <1>5, <1>7
  <2> QED BY <2>1 DEF PairRecord, Record
<1>10. \A hero, foe : MatchupRecord(PriorGames(g), hero, foe)' = MatchupRecord(PriorGames(g), hero, foe)
  <2> TAKE hero, foe
  <2>1. {x \in PriorGames(g) \X {"a", "b"} :
           hero \in Heroes(x[1], x[2]) /\ foe \in Heroes(x[1], Other(x[2]))}'
          = {x \in PriorGames(g) \X {"a", "b"} :
               hero \in Heroes(x[1], x[2]) /\ foe \in Heroes(x[1], Other(x[2]))}
    BY <1>5, <1>7
  <2> QED BY <2>1 DEF MatchupRecord, Record
<1>11. \A org, hero : Familiarity(PriorGames(g), org, hero)' = Familiarity(PriorGames(g), org, hero)
  <2> TAKE org, hero
  <2>1. {x \in PriorGames(g) \X {"a", "b"} : x[1][x[2]] = org /\ hero \in Heroes(x[1], x[2])}'
          = {x \in PriorGames(g) \X {"a", "b"} : x[1][x[2]] = org /\ hero \in Heroes(x[1], x[2])}
    BY <1>5, <1>7
  <2> QED BY <2>1 DEF Familiarity
<1>12. \A team, org : DraftSide(g, team, org)' = DraftSide(g, team, org)
  BY <1>6, <1>8, <1>9, <1>11 DEF DraftSide
<1> QED BY <1>6, <1>10, <1>12 DEF DraftRow

(* A write changes the row of a game only through games that were over     *)
(* before it, or through another answer about the game itself.             *)
THEOREM DraftRowsSeeThePast == TrainingSpec => DraftNoLookAhead
<1> DEFINE Kept == \A g \in DraftTargets \cap DraftTargets' :
                     drafts[g.id]' = drafts[g.id] /\ KnownGames(g.start)' = KnownGames(g.start)
                     => DraftRow(g)' = DraftRow(g)
<1>1. Kept
  BY DraftRowKnown
<1>2. [][Kept]_trainVars
  <2> HIDE DEF Kept
  <2> QED BY <1>1, PTL
<1>3. DraftNoLookAhead <=> [][Kept]_trainVars
  BY DEF DraftNoLookAhead
<1> QED BY <1>2, <1>3

-----------------------------------------------------------------------------
(* The row of a match is a function of what was known of the time before   *)
(* it.  The tables of another moment are those of an instance: where both  *)
(* know the same, they have the same lineage and the same history.         *)
Past(ms, ss) == INSTANCE RosterLineage WITH matches <- ms, snapshots <- ss
KnownOf(ms, ss, c) ==
  << {m \in ms : EndedBefore(m, c)}, {<<r, ss[r]>> : r \in {q \in DOMAIN ss : ss[q] < c}} >>
RowFrom(ms, ss, ctx) ==
  LET eligible == Eligible({m \in ms : InScope(m)}, ctx)
      graph == Past(ms, ss)!Lineage(ctx.at)
      Of(org) == Side(org, graph, Past(ms, ss)!LatestRosters(org, ctx.at), eligible, ctx.at)
  IN  RowOf(Of(ctx.a), Of(ctx.b))

LEMMA KnownRosters ==
  ASSUME NEW ms, NEW ss, NEW c, KnownOf(ms, ss, c) = KnownMatches(c)
  PROVE  /\ {m \in ms : EndedBefore(m, c)} = {m \in matches : EndedBefore(m, c)}
         /\ Past(ms, ss)!RostersBefore(c) = RostersBefore(c)
         /\ \A r \in RostersBefore(c) : ss[r] = snapshots[r]
<1> DEFINE A == {q \in DOMAIN ss : ss[q] < c}
           B == RostersBefore(c)
           X == {<<r, ss[r]>> : r \in A}
           Y == {<<r, snapshots[r]>> : r \in B}
<1>1. X = Y /\ {m \in ms : EndedBefore(m, c)} = {m \in matches : EndedBefore(m, c)}
  BY DEF KnownOf, KnownMatches
<1>2. Past(ms, ss)!RostersBefore(c) = A
  BY DEF Past!RostersBefore
<1> HIDE DEF A, B
<1>3. \A r : r \in A <=> \E d : <<r, d>> \in X
  OBVIOUS
<1>4. \A r : r \in B <=> \E d : <<r, d>> \in Y
  OBVIOUS
<1>5. A = B
  <2> HIDE DEF X, Y
  <2> QED BY <1>1, <1>3, <1>4
<1>6. ASSUME NEW r \in B PROVE ss[r] = snapshots[r]
  <2>1. <<r, ss[r]>> \in X
    BY <1>5, <1>6
  <2>2. <<r, ss[r]>> \in Y
    BY <1>1, <2>1
  <2> QED BY <2>2
<1> QED BY <1>1, <1>2, <1>5, <1>6 DEF B

LEMMA KnownLatest ==
  ASSUME NEW ms, NEW ss, NEW c, KnownOf(ms, ss, c) = KnownMatches(c), NEW org
  PROVE  Past(ms, ss)!LatestRosters(org, c) = LatestRosters(org, c)
BY KnownRosters DEF LatestRosters, Past!LatestRosters

LEMMA KnownContext ==
  ASSUME NEW ms, NEW ss, NEW c, KnownOf(ms, ss, c) = KnownMatches(c), NEW r \in RostersBefore(c)
  PROVE  Past(ms, ss)!Context(r, c) = Context(r, c)
<1>1. Past(ms, ss)!ContextStarts(r.tour, c) = ContextStarts(r.tour, c)
  <2>1. \A m : m \in ms /\ EndedBefore(m, c) <=> m \in matches /\ EndedBefore(m, c)
    BY KnownRosters
  <2>2. \A m : Past(ms, ss)!EndedBefore(m, c) <=> EndedBefore(m, c)
    BY DEF EndedBefore, Past!EndedBefore
  <2>3. {x \in ms : x.tour = r.tour /\ Past(ms, ss)!EndedBefore(x, c)}
          = {x \in matches : x.tour = r.tour /\ EndedBefore(x, c)}
    BY <2>1, <2>2
  <2> QED BY <2>3 DEF ContextStarts, Past!ContextStarts
<1>2. \A S : Past(ms, ss)!Min(S) = Min(S)
  BY DEF Past!Min, Min
<1> QED BY <1>1, <1>2, KnownRosters DEF Context, Past!Context

LEMMA SameSize ==
  ASSUME NEW ms, NEW ss, NEW S
  PROVE  Past(ms, ss)!Cardinality(S) = Cardinality(S)
BY DEF Past!Cardinality, Cardinality

LEMMA SameStrength ==
  ASSUME NEW ms, NEW ss, NEW p, NEW q
  PROVE  /\ Past(ms, ss)!Strength(p, q) = Strength(p, q)
         /\ Past(ms, ss)!Shared(p, q) = Shared(p, q)
         /\ Past(ms, ss)!Smaller(p, q) = Smaller(p, q)
<1>1. \A S : Past(ms, ss)!Min(S) = Min(S)
  BY DEF Past!Min, Min
<1>2. Past(ms, ss)!Shared(p, q) = Shared(p, q) /\ Past(ms, ss)!Smaller(p, q) = Smaller(p, q)
      /\ (Past(ms, ss)!SameCoach(p, q) <=> SameCoach(p, q))
  BY <1>1, SameSize DEF Shared, Past!Shared, Smaller, Past!Smaller, SameCoach, Past!SameCoach
<1> QED BY <1>2 DEF Strength, Past!Strength

LEMMA KnownPredecessors ==
  ASSUME NEW ms, NEW ss, NEW c, KnownOf(ms, ss, c) = KnownMatches(c), NEW q \in RostersBefore(c)
  PROVE  Past(ms, ss)!Predecessors(q, c) = Predecessors(q, c)
<1>1. Past(ms, ss)!Candidates(q, c) = Candidates(q, c)
  BY KnownRosters, KnownContext, SameStrength DEF Candidates, Past!Candidates
<1>2. \A p \in Candidates(q, c) : Past(ms, ss)!Rank(p, q, c) = Rank(p, q, c)
  BY KnownContext, SameStrength DEF Candidates, Rank, Past!Rank
<1>3. \A x, y : Past(ms, ss)!Below(x, y) <=> Below(x, y)
  BY DEF Below, Past!Below
<1>4. Past(ms, ss)!Best(q, c) = Best(q, c)
  BY <1>1, <1>2, <1>3 DEF Best, Past!Best, Highest, Past!Highest
<1> QED BY <1>4, SameSize DEF Predecessors, Past!Predecessors, Sole, Past!Sole

LEMMA KnownRow ==
  ASSUME NEW ms, NEW ss, NEW ctx, KnownOf(ms, ss, ctx.at) = KnownMatches(ctx.at)
  PROVE  RowFrom(ms, ss, ctx) = PredictionRow(ctx)
<1>1. Past(ms, ss)!Lineage(ctx.at) = Lineage(ctx.at)
  BY KnownRosters, KnownContext, KnownPredecessors DEF Lineage, Past!Lineage
<1>2. \A org : Past(ms, ss)!LatestRosters(org, ctx.at) = LatestRosters(org, ctx.at)
  BY KnownLatest
<1>3. Eligible({m \in ms : InScope(m)}, ctx) = Eligible({m \in MatchesBefore(ctx.at) : InScope(m)}, ctx)
  <2>1. \A m : m \in ms /\ EndedBefore(m, ctx.at) <=> m \in matches /\ EndedBefore(m, ctx.at)
    BY KnownRosters
  <2>2. \A m : CompletedBefore(m, ctx.at) <=> Finished(m) /\ EndedBefore(m, ctx.at)
    BY DEF CompletedBefore, Finished, EndedBefore
  <2> QED BY <2>1, <2>2 DEF Eligible, MatchesBefore
<1> QED BY <1>1, <1>2, <1>3 DEF RowFrom, PredictionRow, FeatureRow

ServedInv ==
  served # NoModel =>
    \E ms, ss : /\ served.known = KnownOf(ms, ss, served.ctx.at)
                /\ served.row = RowFrom(ms, ss, served.ctx)

LEMMA ServedStep == ServedInv /\ [TrainingNext]_trainVars => ServedInv'
<1> SUFFICES ASSUME ServedInv, [TrainingNext]_trainVars PROVE ServedInv'
  OBVIOUS
<1>1. CASE UNCHANGED served
  <2>1. served # NoModel =>
          \E ms, ss : /\ served.known = KnownOf(ms, ss, served.ctx.at)
                      /\ served.row = RowFrom(ms, ss, served.ctx)
    BY DEF ServedInv
  <2> QED BY <1>1, <2>1 DEF ServedInv
<1>2. ASSUME NEW ctx \in Upcoming, Predict(ctx) PROVE ServedInv'
  <2>1. KnownOf(matches, snapshots, ctx.at) = KnownMatches(ctx.at)
    BY DEF KnownOf, KnownMatches, RostersBefore
  <2>2. RowFrom(matches, snapshots, ctx) = PredictionRow(ctx)
    BY <2>1, KnownRow
  <2>3. served' = [ctx |-> ctx, row |-> PredictionRow(ctx), known |-> KnownMatches(ctx.at)]
    BY <1>2 DEF Predict
  <2> QED BY <2>1, <2>2, <2>3 DEF ServedInv
<1>3. UNCHANGED served \/ \E ctx \in Upcoming : Predict(ctx)
  BY DEF TrainingNext, trainVars, TrainHistorical, TrainDraft, EvaluateHistorical, EvaluateDraft,
         DraftCommand, Train, WriteMatch, WriteRoster, WriteGame, Written
<1> QED BY <1>1, <1>2, <1>3

(* A prediction asked again gives the same row unless something of its     *)
(* past became known: for any tables and any order in which rows do.       *)
THEOREM NothingIsSeenAhead == TrainingSpec => []NoLookAhead
<1>1. TrainingInit => ServedInv
  BY DEF TrainingInit, ServedInv
<1>2. ServedInv => NoLookAhead
  <2> SUFFICES ASSUME ServedInv, served # NoModel, KnownMatches(served.ctx.at) = served.known
               PROVE  PredictionRow(served.ctx) = served.row
    BY DEF NoLookAhead
  <2>1. PICK ms, ss : /\ served.known = KnownOf(ms, ss, served.ctx.at)
                      /\ served.row = RowFrom(ms, ss, served.ctx)
    BY DEF ServedInv
  <2> QED BY <2>1, KnownRow
<1> QED BY <1>1, <1>2, ServedStep, PTL DEF TrainingSpec

-----------------------------------------------------------------------------
(* Each result counts once.  The rosters of a chain follow each other in   *)
(* time, so their windows do not overlap; the links form trees; a sum of   *)
(* what is not negative is not negative.                                   *)

(* Where a roster stands in time. *)
LEMMA ContextIsTime ==
  ASSUME TablesInv, NEW c, NEW r \in RostersBefore(c)
  PROVE  Context(r, c) \in Int
<1> DEFINE starts == ContextStarts(r.tour, c)
           M == {x \in matches : x.tour = r.tour /\ EndedBefore(x, c)}
           f == [m \in M |-> m.start]
<1>1. IsFiniteSet(M) /\ \A m \in M : m.start \in Int
  BY FS_Subset DEF TablesInv
<1>2. starts = {f[m] : m \in DOMAIN f} /\ DOMAIN f = M
  BY DEF ContextStarts
<1>3. IsFiniteSet(starts)
  <2> HIDE DEF f, starts, M
  <2> QED BY <1>1, <1>2, ImageIsFinite
<1>4. starts \in SUBSET Int
  BY <1>1 DEF ContextStarts
<1>5. starts # {} => Min(starts) \in Int
  <2> SUFFICES ASSUME starts # {} PROVE Min(starts) \in Int
    OBVIOUS
  <2> DEFINE at == [n \in starts |-> n]
  <2>1. at \in [starts -> Int]
    BY <1>4
  <2>2. PICK m \in starts : \A x \in starts : at[m] <= at[x]
    <3> HIDE DEF at, starts
    <3> QED BY <1>3, <2>1, LeastBy
  <2>3. \E x \in starts : \A y \in starts : x =< y
    <3> HIDE DEF starts
    <3> QED BY <2>2
  <2>4. Min(starts) \in starts
    <3> HIDE DEF starts
    <3> QED BY <2>3 DEF Min
  <2> QED BY <1>4, <2>4
<1>6. snapshots[r] \in Int
  BY DEF TablesInv, RostersBefore
<1> QED BY <1>5, <1>6 DEF Context

LEMMA RostersAreFinite ==
  ASSUME TablesInv, NEW c
  PROVE  IsFiniteSet(RostersBefore(c))
BY FS_Subset DEF TablesInv, RostersBefore

LEMMA PredecessorsAreEarlier ==
  ASSUME NEW c, NEW q, NEW p \in Predecessors(q, c)
  PROVE  p \in RostersBefore(c) /\ Context(p, c) < Context(q, c) /\ Strength(p, q) > 0
BY DEF Predecessors, Sole, Best, Highest, Candidates

(* The chain that leads to a roster, in the order of time. *)
InTime(chain, q, c) ==
  /\ chain \in Seq(RostersBefore(c)) /\ Len(chain) >= 1 /\ chain[Len(chain)] = q
  /\ \A i, j \in DOMAIN chain : i < j => Context(chain[i], c) < Context(chain[j], c)

LEMMA ChainExists ==
  ASSUME TablesInv, NEW c
  PROVE  \E f : f = [r \in RostersBefore(c) |->
                       IF Predecessors(r, c) = {} THEN << r >>
                       ELSE Append(f[CHOOSE p \in Predecessors(r, c) : TRUE], r)]
<1> DEFINE D == RostersBefore(c)
           at == [r \in D |-> Context(r, c)]
           V == Seq(D)
           root == {r \in D : Predecessors(r, c) = {}}
           first == [r \in D |-> << r >>]
           step == [z \in D \X V |-> Append(z[2], z[1])]
           one(r) == CHOOSE p \in Predecessors(r, c) : TRUE
           prev == [r \in D |-> one(r)]
<1>1. IsFiniteSet(D) /\ at \in [D -> Int]
  BY RostersAreFinite, ContextIsTime
<1>2. root \in SUBSET D /\ first \in [D -> V] /\ step \in [D \X V -> V]
  OBVIOUS
<1>3. \A r \in D \ root : one(r) \in Predecessors(r, c)
  OBVIOUS
<1>4. \A r \in D \ root : prev[r] \in D /\ at[prev[r]] < at[r]
  <2> TAKE r \in D \ root
  <2>1. one(r) \in D /\ Context(one(r), c) < Context(r, c)
    BY <1>3, PredecessorsAreEarlier
  <2> HIDE DEF one, root
  <2> QED BY <2>1
<1> HIDE DEF D, at, V, root, first, step, prev
<1>5. PICK f : Follows(f, prev, root, D, V, first, step)
  <2>1. Leads(prev, root, D, at)
    BY <1>4 DEF Leads
  <2> QED BY <1>1, <1>2, <2>1, TimeRecursion
<1>6. f \in [D -> V] /\ \A r \in D : f[r] = IF r \in root THEN first[r] ELSE step[<<r, f[prev[r]]>>]
  BY <1>5 DEF Follows
<1> USE DEF D, at, V, root, first, step, prev
<1>7. \A r \in D : f[r] = IF Predecessors(r, c) = {} THEN << r >> ELSE Append(f[one(r)], r)
  <2> TAKE r \in D
  <2>1. CASE r \in root
    BY <1>6, <2>1
  <2>2. CASE r \notin root
    <3>1. prev[r] = one(r) /\ f[one(r)] \in V
      BY <1>4, <1>6, <2>2
    <3>2. f[r] = step[<<r, f[one(r)]>>]
      BY <1>6, <2>2, <3>1
    <3>3. <<r, f[one(r)]>> \in D \X V
      BY <3>1
    <3>4. f[r] = Append(f[one(r)], r)
      <4> HIDE DEF D, V, one
      <4> QED BY <3>2, <3>3
    <3>5. Predecessors(r, c) # {}
      BY <2>2
    <3> QED BY <3>4, <3>5
  <2> QED BY <2>1, <2>2
<1>8. f = [r \in D |-> IF Predecessors(r, c) = {} THEN << r >> ELSE Append(f[one(r)], r)]
  <2> HIDE DEF one, D
  <2> QED BY <1>6, <1>7
<1> QED BY <1>8

LEMMA ChainIsInTime ==
  ASSUME TablesInv, NEW c, NEW q \in RostersBefore(c)
  PROVE  InTime(Chain(Lineage(c), q), q, c)
<1> DEFINE D == RostersBefore(c)
           graph == Lineage(c)
           one(S) == CHOOSE p \in S : TRUE
           rule(f) == [r \in D |-> IF Predecessors(r, c) = {} THEN << r >>
                                   ELSE Append(f[one(Predecessors(r, c))], r)]
           ruleOf(f) == [r \in DOMAIN graph |->
                           IF graph[r].previous = {} THEN << r >>
                           ELSE Append(f[one(graph[r].previous)], r)]
           chain == CHOOSE f : f = ruleOf(f)
           at == [r \in D |-> Context(r, c)]
<1>1. Chain(graph, q) = chain[q]
  BY DEF Chain
<1>2. DOMAIN graph = D /\ \A r \in D : graph[r].previous = Predecessors(r, c)
  BY DEF Lineage
<1>3. \A f : ruleOf(f) = rule(f)
  <2> TAKE f
  <2>1. ASSUME NEW r \in D PROVE ruleOf(f)[r] = rule(f)[r]
    <3>1. r \in DOMAIN graph /\ graph[r].previous = Predecessors(r, c)
      BY <1>2
    <3> HIDE DEF graph, D, one
    <3> QED BY <3>1
  <2> HIDE DEF graph
  <2> QED BY <1>2, <2>1
<1>4. \E f : f = rule(f)
  BY ChainExists
<1>5. chain = rule(chain)
  <2> HIDE DEF rule, ruleOf
  <2> QED BY <1>3, <1>4
<1> HIDE DEF chain
<1> DEFINE G == {r \in D : InTime(chain[r], r, c)}
<1>6. IsFiniteSet(D) /\ at \in [D -> Int]
  BY RostersAreFinite, ContextIsTime
<1>7. ASSUME NEW r \in D, \A p \in D : at[p] < at[r] => p \in G PROVE r \in G
  <2>1. CASE Predecessors(r, c) = {}
    <3>1. chain[r] = << r >>
      BY <1>5, <2>1
    <3>2. << r >> \in Seq(D) /\ Len(<< r >>) = 1 /\ << r >>[1] = r /\ DOMAIN << r >> = {1}
      OBVIOUS
    <3>3. \A i, j \in {1} : ~(i < j)
      OBVIOUS
    <3>4. InTime(<< r >>, r, c)
      <4> HIDE DEF D
      <4>1. 1 >= 1
        OBVIOUS
      <4> QED BY <3>2, <3>3, <4>1 DEF InTime, D
    <3> QED BY <3>1, <3>4
  <2>2. CASE Predecessors(r, c) # {}
    <3>1. PICK p \in Predecessors(r, c) : p = CHOOSE x \in Predecessors(r, c) : TRUE
      BY <2>2
    <3>2. p \in D /\ Context(p, c) < Context(r, c)
      BY PredecessorsAreEarlier
    <3>3. InTime(chain[p], p, c)
      BY <1>7, <3>2
    <3>4. chain[r] = Append(chain[p], r)
      BY <1>5, <2>2, <3>1
    <3> DEFINE s == chain[p]
               n == Len(s)
    <3>5. /\ s \in Seq(D) /\ n \in Nat /\ n >= 1 /\ s[n] = p /\ DOMAIN s = 1 .. n
          /\ \A i, j \in 1 .. n : i < j => Context(s[i], c) < Context(s[j], c)
      BY <3>3 DEF InTime
    <3> HIDE DEF s
    <3>6. /\ Append(s, r) \in Seq(D) /\ Len(Append(s, r)) = n + 1
          /\ Append(s, r)[n + 1] = r /\ \A i \in 1 .. n : Append(s, r)[i] = s[i]
          /\ DOMAIN Append(s, r) = 1 .. n + 1
      BY <3>5
    <3>7. \A x \in D : Context(x, c) \in Int
      BY ContextIsTime
    <3>8. \A i \in 1 .. n : Context(s[i], c) < Context(r, c)
      <4> TAKE i \in 1 .. n
      <4>1. CASE i = n
        BY <3>2, <3>5, <4>1
      <4>2. CASE i # n
        <5>1. i < n /\ n \in 1 .. n /\ s[i] \in D
          <6>1. s[i] \in D
            BY <3>5
          <6> HIDE DEF n
          <6> QED BY <3>5, <4>2, <6>1
        <5>2. Context(s[i], c) < Context(p, c)
          BY <3>5, <5>1
        <5> QED BY <3>2, <3>7, <5>1, <5>2
      <4> QED BY <4>1, <4>2
    <3>9. ASSUME NEW i \in 1 .. n + 1, NEW j \in 1 .. n + 1, i < j
          PROVE  Context(Append(s, r)[i], c) < Context(Append(s, r)[j], c)
      <4>1. i \in 1 .. n
        BY <3>5, <3>9
      <4>2. CASE j = n + 1
        BY <3>6, <3>8, <4>1, <4>2
      <4>3. CASE j # n + 1
        <5>1. j \in 1 .. n
          BY <3>5, <4>3
        <5> QED BY <3>5, <3>6, <3>9, <4>1, <5>1
      <4> QED BY <4>2, <4>3
    <3>10. n + 1 >= 1
      BY <3>5
    <3> HIDE DEF n
    <3>11. InTime(Append(s, r), r, c)
      BY <3>6, <3>9, <3>10 DEF InTime
    <3> QED BY <3>4, <3>11 DEF s
  <2> QED BY <2>1, <2>2
<1>8. G = D
  <2> HIDE DEF G, D, at
  <2>1. G \in SUBSET D
    BY DEF G
  <2> QED BY <1>6, <1>7, <2>1, TimeInduction
<1> QED BY <1>1, <1>8

(* What Lasting leaves out does not change the order of the rest.          *)
Sifted(kept, ws, s) ==
  /\ kept \in Seq(Range(ws))
  /\ \E place \in [1 .. Len(kept) -> s] :
       /\ \A k \in 1 .. Len(kept) : kept[k] = ws[place[k]]
       /\ \A k, l \in 1 .. Len(kept) : k < l => place[k] < place[l]

LEMMA SiftedByOne ==
  ASSUME NEW n \in Nat, NEW ws, DOMAIN ws = 1 .. n, NEW s \in SUBSET (1 .. n), NEW m \in s,
         \A x \in s : x <= m, NEW kept, Sifted(kept, ws, s \ {m})
  PROVE  Sifted(WithLasting(kept, ws[m]), ws, s)
<1> DEFINE N == Len(kept)
<1>1. kept \in Seq(Range(ws)) /\ N \in Nat
  BY DEF Sifted
<1>2. PICK place \in [1 .. N -> s \ {m}] :
        /\ \A k \in 1 .. N : kept[k] = ws[place[k]]
        /\ \A k, l \in 1 .. N : k < l => place[k] < place[l]
  BY DEF Sifted
<1>3. Sifted(kept, ws, s)
  <2>1. place \in [1 .. N -> s]
    BY <1>2
  <2> QED BY <1>1, <1>2, <2>1 DEF Sifted
<1>4. Sifted(Append(kept, ws[m]), ws, s)
  <2> DEFINE longer == Append(kept, ws[m])
             q == [k \in 1 .. N + 1 |-> IF k = N + 1 THEN m ELSE place[k]]
  <2>1. ws[m] \in Range(ws)
    BY DEF Range
  <2>2. /\ longer \in Seq(Range(ws)) /\ Len(longer) = N + 1
        /\ longer[N + 1] = ws[m] /\ \A k \in 1 .. N : longer[k] = kept[k]
    BY <1>1, <2>1
  <2> HIDE DEF longer, N
  <2>3. \A k \in 1 .. N : place[k] \in s /\ place[k] # m
    BY <1>2
  <2>4. \A k \in 1 .. N + 1 : k = N + 1 \/ k \in 1 .. N
    BY <1>1
  <2>5. /\ q \in [1 .. N + 1 -> s] /\ q[N + 1] = m
        /\ \A k \in 1 .. N : q[k] = place[k]
    <3>1. N + 1 \in 1 .. N + 1 /\ \A k \in 1 .. N : k \in 1 .. N + 1 /\ k # N + 1
      BY <1>1
    <3> QED BY <2>3, <2>4, <3>1
  <2> HIDE DEF q
  <2>6. \A k \in 1 .. N : place[k] < m
    <3> TAKE k \in 1 .. N
    <3>1. place[k] \in 1 .. n /\ m \in 1 .. n /\ place[k] <= m /\ place[k] # m
      BY <2>3
    <3> QED BY <3>1
  <2>7. \A k \in 1 .. N + 1 : longer[k] = ws[q[k]]
    BY <1>2, <2>2, <2>4, <2>5
  <2>8. ASSUME NEW k \in 1 .. N + 1, NEW l \in 1 .. N + 1, k < l PROVE q[k] < q[l]
    <3>1. k \in 1 .. N
      BY <1>1, <2>8
    <3> QED BY <1>2, <2>4, <2>5, <2>6, <2>8, <3>1
  <2>9. Sifted(longer, ws, s)
    BY <2>2, <2>5, <2>7, <2>8 DEF Sifted
  <2> QED BY <2>9 DEF longer
<1> QED BY <1>3, <1>4 DEF WithLasting

LEMMA LastingKeepsOrder ==
  ASSUME NEW n \in Nat, NEW ws, DOMAIN ws = 1 .. n
  PROVE  Sifted(Lasting(ws), ws, 1 .. n)
<1> DEFINE S == DOMAIN ws
           V == Seq(Range(ws))
           greatest(s) == Max(s)
           fold(g) == [s \in SUBSET S |->
                         IF s = {} THEN << >>
                         ELSE WithLasting(g[s \ {greatest(s)}], ws[greatest(s)])]
           iter == CHOOSE g : g = fold(g)
           step == [z \in S \X V |-> WithLasting(z[2], ws[z[1]])]
           pick == [s \in SUBSET S |-> greatest(s)]
<1>1. Lasting(ws) = iter[S]
  BY DEF Lasting, FoldLeft, MapThenFoldSet
<1>2. IsFiniteSet(S) /\ S = 1 .. n
  BY Segment
<1>3. \A s \in SUBSET S : s # {} => greatest(s) \in s /\ \A x \in s : x <= greatest(s)
  <2> SUFFICES ASSUME NEW s \in SUBSET S, s # {}
               PROVE  Max(s) \in s /\ \A x \in s : x <= Max(s)
    OBVIOUS
  <2>1. s \in SUBSET (1 .. n)
    BY <1>2
  <2>2. PICK m \in s : \A x \in s : x <= m
    BY <2>1, GreatestElement
  <2>3. m >= m /\ \A x \in s : m >= x
    BY <2>1, <2>2
  <2>4. Max(s) \in s /\ \A x \in s : Max(s) >= x
    BY <2>3 DEF Max
  <2> QED BY <2>1, <2>4
<1> HIDE DEF greatest
<1>4. PicksFrom(pick, S)
  BY <1>3 DEF PicksFrom
<1>5. step \in [S \X V -> V]
  <2>1. ASSUME NEW i \in S, NEW v \in V PROVE WithLasting(v, ws[i]) \in V
    <3>1. ws[i] \in Range(ws)
      BY DEF Range
    <3> QED BY <3>1 DEF WithLasting
  <2> QED BY <2>1
<1>6. << >> \in V
  OBVIOUS
<1>7. /\ \A s \in SUBSET S : pick[s] = greatest(s)
      /\ \A i \in S, v \in V : step[<<i, v>>] = WithLasting(v, ws[i])
  OBVIOUS
<1> HIDE DEF S, V, step, pick
<1>8. PICK g : Folds(g, S, V, << >>, step, pick)
  BY <1>2, <1>4, <1>5, <1>6, FoldExists
<1>9. g = fold(g)
  <2>1. /\ g \in [SUBSET S -> V]
        /\ \A s \in SUBSET S : g[s] = IF s = {} THEN << >> ELSE step[<<pick[s], g[s \ {pick[s]}]>>]
    BY <1>8 DEF Folds
  <2>2. ASSUME NEW s \in SUBSET S, s # {}
        PROVE  g[s] = WithLasting(g[s \ {greatest(s)}], ws[greatest(s)])
    <3>1. greatest(s) \in S /\ s \ {greatest(s)} \in SUBSET S
      BY <1>3, <2>2
    <3>2. g[s \ {greatest(s)}] \in V
      BY <2>1, <3>1
    <3> QED BY <1>7, <2>1, <2>2, <3>1, <3>2
  <2> QED BY <2>1, <2>2
<1>10. iter = fold(iter)
  <2> HIDE DEF fold
  <2> QED BY <1>9
<1> HIDE DEF iter
<1> DEFINE F == {s \in SUBSET S : Sifted(iter[s], ws, s)}
<1>11. {} \in F
  <2>1. iter[{}] = << >>
    BY <1>10
  <2>2. << >> \in Seq(Range(ws)) /\ Len(<< >>) = 0 /\ 1 .. 0 = {}
    OBVIOUS
  <2>3. [k \in 1 .. 0 |-> k] \in [1 .. 0 -> {}]
    OBVIOUS
  <2>4. Sifted(<< >>, ws, {})
    BY <2>2, <2>3 DEF Sifted
  <2> QED BY <2>1, <2>4
<1>12. ASSUME NEW s \in SUBSET S, s # {}, s \ {pick[s]} \in F PROVE s \in F
  <2>1. greatest(s) \in s /\ (\A x \in s : x <= greatest(s)) /\ pick[s] = greatest(s)
    BY <1>3, <1>7, <1>12
  <2>2. iter[s] = WithLasting(iter[s \ {greatest(s)}], ws[greatest(s)])
    BY <1>10, <1>12
  <2>3. Sifted(iter[s \ {greatest(s)}], ws, s \ {greatest(s)})
    BY <1>12, <2>1
  <2>4. s \in SUBSET (1 .. n)
    BY <1>2
  <2>5. Sifted(iter[s], ws, s)
    BY <2>1, <2>2, <2>3, <2>4, SiftedByOne
  <2> QED BY <2>5
<1>13. F = SUBSET S
  <2>1. F \in SUBSET SUBSET S
    OBVIOUS
  <2>2. \A s \in SUBSET S : s # {} /\ s \ {pick[s]} \in F => s \in F
    <3> HIDE DEF F
    <3> QED BY <1>12
  <2>3. IsFiniteSet(S)
    BY <1>2
  <2> HIDE DEF F
  <2> QED BY <1>4, <1>11, <2>1, <2>2, <2>3, PickInduction
<1> QED BY <1>1, <1>2, <1>13

LEMMA MinOfTwo ==
  ASSUME NEW x \in Int, NEW y \in Int
  PROVE  Min({x, y}) \in Int /\ Min({x, y}) <= x /\ Min({x, y}) <= y
<1>1. \E m \in {x, y} : \A z \in {x, y} : m =< z
  OBVIOUS
<1>2. Min({x, y}) \in {x, y} /\ \A z \in {x, y} : Min({x, y}) =< z
  BY <1>1 DEF Min
<1> QED BY <1>2

(* The times in which one roster after the other was the roster do not     *)
(* overlap, so a match is in one of them at most.                          *)
Apart(ws) ==
  \A i, j \in DOMAIN ws : i # j =>
    \A m \in matches : ~(InWindow(m, ws[i]) /\ InWindow(m, ws[j]))

LEMMA ChainIsApart ==
  ASSUME TablesInv, NEW c \in Int, NEW q \in RostersBefore(c)
  PROVE  Apart(ChainWindows(Lineage(c), Chain(Lineage(c), q), c))
<1> DEFINE graph == Lineage(c)
           chain == Chain(graph, q)
           n == Len(chain)
           Upto(i) == IF i = n THEN c ELSE Min({graph[chain[i + 1]].at, c})
           all == [i \in DOMAIN chain |->
                     [org |-> chain[i].org, from |-> graph[chain[i]].at,
                      until |-> Upto(i), roster |-> {chain[i]}]]
           ws == Lasting(all)
<1>1. /\ chain \in Seq(RostersBefore(c)) /\ n \in Nat /\ DOMAIN chain = 1 .. n
      /\ \A i, j \in 1 .. n : i < j => Context(chain[i], c) < Context(chain[j], c)
  <2>1. InTime(chain, q, c)
    BY ChainIsInTime
  <2> HIDE DEF chain
  <2> QED BY <2>1 DEF InTime
<1>2. ws = ChainWindows(graph, chain, c)
  BY DEF ChainWindows
<1> HIDE DEF chain
<1>3. \A i \in 1 .. n : chain[i] \in RostersBefore(c)
  BY <1>1
<1>4. \A i \in 1 .. n : graph[chain[i]].at = Context(chain[i], c) /\ Context(chain[i], c) \in Int
  BY <1>3, ContextIsTime DEF Lineage
<1> HIDE DEF graph, n
<1>5. ASSUME NEW i \in 1 .. n, NEW j \in 1 .. n, i < j
      PROVE  all[i].until <= all[j].from /\ all[i].until \in Int /\ all[j].from \in Int
  <2>1. i + 1 \in 1 .. n /\ i # n /\ (i + 1 = j \/ i + 1 < j)
    BY <1>1, <1>5
  <2> DEFINE next == Context(chain[i + 1], c)
             last == Context(chain[j], c)
  <2>2. next \in Int /\ last \in Int /\ next <= last
    BY <1>1, <1>4, <2>1
  <2>3. all[i].until = Min({next, c}) /\ all[j].from = last
    BY <1>1, <1>4, <2>1
  <2> HIDE DEF next, last, all
  <2>4. Min({next, c}) \in Int /\ Min({next, c}) <= next
    BY <2>2, MinOfTwo
  <2> QED BY <2>2, <2>3, <2>4
<1>6. DOMAIN all = 1 .. n
  BY <1>1
<1> HIDE DEF all
<1>7. Sifted(ws, all, 1 .. n)
  BY <1>1, <1>6, LastingKeepsOrder
<1> HIDE DEF ws
<1>8. PICK place \in [1 .. Len(ws) -> 1 .. n] :
        /\ \A k \in 1 .. Len(ws) : ws[k] = all[place[k]]
        /\ \A k, l \in 1 .. Len(ws) : k < l => place[k] < place[l]
  BY <1>7 DEF Sifted
<1>9. ws \in Seq(Range(all))
  BY <1>7 DEF Sifted
<1>10. DOMAIN ws = 1 .. Len(ws) /\ Len(ws) \in Nat
  BY <1>9
<1>11. ASSUME NEW k \in 1 .. Len(ws), NEW l \in 1 .. Len(ws), k < l, NEW m \in matches,
              InWindow(m, ws[k]), InWindow(m, ws[l])
       PROVE  FALSE
  <2>1. place[k] < place[l] /\ place[k] \in 1 .. n /\ place[l] \in 1 .. n
    BY <1>8, <1>11
  <2> DEFINE until == all[place[k]].until
             from == all[place[l]].from
  <2>2. until \in Int /\ from \in Int /\ until <= from
    BY <1>5, <2>1
  <2>3. from # NoTime
    BY <2>2, TrainingAssumption
  <2>4. m.start < until /\ m.start >= from
    BY <1>8, <1>11, <2>3 DEF InWindow
  <2>5. m.start \in Int
    BY DEF TablesInv
  <2> HIDE DEF until, from
  <2> QED BY <2>2, <2>4, <2>5
<1>12. Apart(ws)
  <2> SUFFICES ASSUME NEW i \in 1 .. Len(ws), NEW j \in 1 .. Len(ws), i # j, NEW m \in matches,
                      InWindow(m, ws[i]), InWindow(m, ws[j])
               PROVE  FALSE
    BY <1>10 DEF Apart
  <2>1. i < j \/ j < i
    BY <1>10
  <2> QED BY <1>11, <2>1
<1> QED BY <1>2, <1>12 DEF graph, chain

LEMMA HistoryIsApart ==
  ASSUME TablesInv, NEW c \in Int, NEW org
  PROVE  Apart(History(org, c))
<1> DEFINE latest == LatestRosters(org, c)
           windows == Windows(Lineage(c), latest, c)
<1>1. Apart(Direct(org, c))
  <2>1. DOMAIN Direct(org, c) = {1}
    BY DEF Direct
  <2> QED BY <2>1 DEF Apart
<1>2. CASE latest = {}
  <2>1. windows = << >>
    BY <1>2 DEF Windows
  <2> QED BY <1>1, <2>1 DEF History, OrDirect
<1>3. CASE latest # {}
  <2>1. OneOf(latest) \in RostersBefore(c)
    BY <1>3 DEF OneOf, LatestRosters
  <2>2. windows = ChainWindows(Lineage(c), Chain(Lineage(c), OneOf(latest)), c)
    BY <1>3 DEF Windows
  <2>3. Apart(windows)
    <3> HIDE DEF windows
    <3> QED BY <2>1, <2>2, ChainIsApart
  <2> QED BY <1>1, <2>3 DEF History, OrDirect
<1> QED BY <1>2, <1>3

LEMMA OneResultEach ==
  ASSUME OneRow(matches), NEW c, NEW eligible \in SUBSET matches, NEW ws, Apart(ws)
  PROVE  \A x, y \in Results(eligible, ws, c) : x.match = y.match => x = y
<1> SUFFICES ASSUME NEW x \in Results(eligible, ws, c), NEW y \in Results(eligible, ws, c), x.match = y.match
             PROVE  x = y
  OBVIOUS
<1>1. \A z \in Results(eligible, ws, c) : \E m \in eligible, i \in DOMAIN ws :
        z = ResultOf(m, ws[i].org, ws[i].roster, c) /\ InWindow(m, ws[i])
  BY DEF Results
<1>2. PICK m \in eligible, i \in DOMAIN ws :
        x = ResultOf(m, ws[i].org, ws[i].roster, c) /\ InWindow(m, ws[i])
  BY <1>1
<1>3. PICK n \in eligible, j \in DOMAIN ws :
        y = ResultOf(n, ws[j].org, ws[j].roster, c) /\ InWindow(n, ws[j])
  BY <1>1
<1>4. m.id = n.id
  BY <1>2, <1>3 DEF ResultOf
<1>5. m = n
  BY <1>4 DEF OneRow
<1>6. i = j
  BY <1>2, <1>3, <1>5 DEF Apart
<1> QED BY <1>2, <1>3, <1>5, <1>6

LEMMA StrengthIsNamed ==
  ASSUME NEW p, NEW q, Strength(p, q) > 0
  PROVE  Strength(p, q) \in {1, 2, 3}
BY DEF Strength

LEMMA EdgesAreLinks ==
  ASSUME TablesInv, NEW c
  PROVE  /\ IsFiniteSet(Edges(c))
         /\ \A e \in Edges(c) :
              /\ e[1] \in RostersBefore(c) /\ e[2] \in RostersBefore(c)
              /\ Context(e[1], c) < Context(e[2], c)
              /\ Strength(e[1], e[2]) \in {1, 2, 3}
         /\ \A d, e \in Edges(c) : d[2] = e[2] => d = e
<1> DEFINE D == RostersBefore(c)
<1>1. IsFiniteSet(Edges(c))
  <2>1. IsFiniteSet(D \X D)
    BY RostersAreFinite, FS_Product
  <2>2. Edges(c) \subseteq D \X D
    BY DEF Edges
  <2> HIDE DEF D
  <2> QED BY <2>1, <2>2, FS_Subset
<1>2. ASSUME NEW e \in Edges(c)
      PROVE  /\ e[1] \in RostersBefore(c) /\ e[2] \in RostersBefore(c)
             /\ Context(e[1], c) < Context(e[2], c)
             /\ Strength(e[1], e[2]) \in {1, 2, 3}
  <2>1. e[1] \in Predecessors(e[2], c) /\ e[2] \in RostersBefore(c)
    BY DEF Edges
  <2> QED BY <2>1, PredecessorsAreEarlier, StrengthIsNamed
<1>3. ASSUME NEW d \in Edges(c), NEW e \in Edges(c), d[2] = e[2]
      PROVE  d = e
  <2>1. /\ d = <<d[1], d[2]>> /\ d[1] \in Predecessors(d[2], c)
        /\ e = <<e[1], e[2]>> /\ e[1] \in Predecessors(e[2], c)
    BY DEF Edges
  <2> DEFINE best == Best(e[2], c)
  <2>2. d[1] \in Sole(best) /\ e[1] \in Sole(best)
    BY <1>3, <2>1 DEF Predecessors
  <2>3. best \in SUBSET D
    BY DEF Best, Highest, Candidates
  <2>4. IsFiniteSet(best)
    <3> HIDE DEF best
    <3> QED BY <2>3, RostersAreFinite, FS_Subset
  <2> HIDE DEF best
  <2>5. d[1] \in best /\ e[1] \in best /\ ~(Cardinality(best) > 1)
    BY <2>2 DEF Sole
  <2>6. d[1] = e[1]
    <3> SUFFICES ASSUME d[1] # e[1] PROVE FALSE
      OBVIOUS
    <3>1. {d[1], e[1]} \in SUBSET best
      BY <2>5
    <3>2. Cardinality({d[1], e[1]}) = 2
      <4>1. IsFiniteSet({d[1]}) /\ Cardinality({d[1]}) = 1
        BY FS_Singleton
      <4>2. {d[1], e[1]} = {d[1]} \cup {e[1]} /\ e[1] \notin {d[1]}
        OBVIOUS
      <4>3. Cardinality({d[1]} \cup {e[1]}) = 1 + 1
        BY <4>1, <4>2, FS_AddElement
      <4> QED BY <4>2, <4>3
    <3>3. Cardinality(best) \in Nat /\ 2 <= Cardinality(best)
      BY <2>4, <3>1, <3>2, FS_Subset, FS_CardinalityType
    <3> QED BY <2>5, <3>3
  <2> QED BY <1>3, <2>1, <2>6
<1> QED BY <1>1, <1>2, <1>3

LEMMA EdgesByStrength ==
  ASSUME TablesInv, NEW c
  PROVE  LET OfStrength(n) == Cardinality({e \in Edges(c) : Strength(e[1], e[2]) = n})
         IN  Cardinality(Edges(c)) = OfStrength(3) + OfStrength(2) + OfStrength(1)
<1> DEFINE Of(n) == {e \in Edges(c) : Strength(e[1], e[2]) = n}
<1>1. IsFiniteSet(Edges(c)) /\ \A e \in Edges(c) : Strength(e[1], e[2]) \in {1, 2, 3}
  BY EdgesAreLinks
<1>2. /\ Edges(c) = Of(3) \cup Of(2) \cup Of(1)
      /\ Of(3) \cap Of(2) = {} /\ Of(3) \cap Of(1) = {} /\ Of(2) \cap Of(1) = {}
  BY <1>1
<1>3. Cardinality(Edges(c)) = Cardinality(Of(3)) + Cardinality(Of(2)) + Cardinality(Of(1))
  <2> HIDE DEF Of
  <2> QED BY <1>1, <1>2, ThreeParts
<1> QED BY <1>3

(* The links taken so far form trees: every class has one roster that no   *)
(* link leads to, and it is the earliest of its class.                     *)
Rooted(k, links, c) ==
  \E root \in k : \A x \in k \ {root} :
    Context(root, c) < Context(x, c) /\ \E e \in links : e[2] = x
Forest(classes, links, c) ==
  /\ classes \in SUBSET SUBSET RostersBefore(c)
  /\ \A r \in RostersBefore(c) : \E k \in classes : r \in k
  /\ \A k, l \in classes : \A r \in k : r \in l => k = l
  /\ \A k \in classes : Rooted(k, links, c)
  /\ IsFiniteSet(classes)
  /\ Cardinality(classes) = Cardinality(RostersBefore(c)) - Cardinality(links)

LEMMA ForestStart ==
  ASSUME TablesInv, NEW c
  PROVE  Forest({{r} : r \in RostersBefore(c)}, {}, c)
<1> DEFINE D == RostersBefore(c)
           f == [r \in D |-> {r}]
           K == {{r} : r \in D}
<1>1. IsFiniteSet(DOMAIN f) /\ K = {f[r] : r \in DOMAIN f} /\ DOMAIN f = D
  BY RostersAreFinite
<1>2. \A x, y \in DOMAIN f : f[x] = f[y] => x = y
  OBVIOUS
<1>3. IsFiniteSet(K) /\ Cardinality(K) = Cardinality(D)
  <2> HIDE DEF f, K, D
  <2> QED BY <1>1, <1>2, InjectiveImage
<1>4. Cardinality(D) \in Nat /\ Cardinality({}) = 0
  BY RostersAreFinite, FS_CardinalityType, FS_EmptySet
<1>5. Cardinality(K) = Cardinality(D) - Cardinality({})
  <2> HIDE DEF K, D
  <2> QED BY <1>3, <1>4
<1>6. \A k \in K : Rooted(k, {}, c)
  BY DEF Rooted
<1>7. K \in SUBSET SUBSET D /\ (\A r \in D : \E k \in K : r \in k) /\ \A k, l \in K : \A r \in k : r \in l => k = l
  OBVIOUS
<1> HIDE DEF K
<1> QED BY <1>3, <1>5, <1>6, <1>7 DEF Forest, K

LEMMA ForestLink ==
  ASSUME TablesInv, NEW c, NEW links \in SUBSET Edges(c), NEW e \in Edges(c), e \notin links,
         NEW classes, Forest(classes, links, c)
  PROVE  Forest(Merged(e, classes), links \cup {e}, c)
<1> DEFINE D == RostersBefore(c)
           p == e[1]
           q == e[2]
<1>1. /\ classes \in SUBSET SUBSET D
      /\ \A r \in D : \E k \in classes : r \in k
      /\ \A k, l \in classes : \A r \in k : r \in l => k = l
      /\ \A k \in classes : Rooted(k, links, c)
      /\ IsFiniteSet(classes)
      /\ Cardinality(classes) = Cardinality(D) - Cardinality(links)
  BY DEF Forest
<1>2. p \in D /\ q \in D /\ Context(p, c) < Context(q, c)
  BY EdgesAreLinks
<1>3. \A x \in D : Context(x, c) \in Int
  BY ContextIsTime
<1> HIDE DEF D, p, q
<1>4. PICK kp \in classes : p \in kp
  BY <1>1, <1>2
<1>5. PICK kq \in classes : q \in kq
  BY <1>1, <1>2
<1>6. \A d \in links : d[2] # q
  BY EdgesAreLinks DEF q
<1>7. PICK top \in kp : \A x \in kp \ {top} :
        Context(top, c) < Context(x, c) /\ \E d \in links : d[2] = x
  BY <1>1 DEF Rooted
<1>8. \A x \in kq \ {q} : Context(q, c) < Context(x, c) /\ \E d \in links : d[2] = x
  <2>1. PICK root \in kq : \A x \in kq \ {root} :
          Context(root, c) < Context(x, c) /\ \E d \in links : d[2] = x
    BY <1>1 DEF Rooted
  <2>2. root = q
    BY <1>5, <1>6, <2>1
  <2> QED BY <2>1, <2>2
<1>9. kp \subseteq D /\ kq \subseteq D
  BY <1>1
<1>10. kp # kq
  <2> SUFFICES ASSUME p \in kq PROVE FALSE
    BY <1>4
  <2>1. p # q /\ Context(p, c) \in Int /\ Context(q, c) \in Int
    BY <1>2, <1>3
  <2>2. Context(q, c) < Context(p, c)
    BY <1>8, <2>1
  <2> QED BY <1>2, <2>1, <2>2
<1> DEFINE both == kp \cup kq
<1>11. Merged(e, classes) = (classes \ {kp, kq}) \cup {both}
  <2>1. {k \in classes : e[1] \in k \/ e[2] \in k} = {kp, kq}
    BY <1>1, <1>4, <1>5 DEF p, q
  <2>2. UNION {kp, kq} = both
    OBVIOUS
  <2> QED BY <2>1, <2>2 DEF Merged
<1>12. \A k \in classes \ {kp, kq} : \A r \in k : r \notin both
  BY <1>1
<1>13. both \notin classes \ {kp, kq}
  BY <1>4, <1>12
<1>14. /\ IsFiniteSet(Merged(e, classes))
       /\ Cardinality(Merged(e, classes)) = Cardinality(D) - Cardinality(links \cup {e})
  <2> DEFINE one == classes \ {kp}
             rest == one \ {kq}
  <2>1. rest = classes \ {kp, kq}
    OBVIOUS
  <2>2. IsFiniteSet(one) /\ Cardinality(one) = Cardinality(classes) - 1
    <3>1. IsFiniteSet(classes) /\ kp \in classes
      BY <1>1
    <3> QED BY <3>1, FS_RemoveElement
  <2>3. kq \in one
    BY <1>5, <1>10
  <2> HIDE DEF one
  <2>4. IsFiniteSet(rest) /\ Cardinality(rest) = Cardinality(one) - 1
    BY <2>2, <2>3, FS_RemoveElement
  <2>5. both \notin rest
    BY <1>13, <2>1
  <2> HIDE DEF rest, both
  <2>6. IsFiniteSet(rest \cup {both}) /\ Cardinality(rest \cup {both}) = Cardinality(rest) + 1
    BY <2>4, <2>5, FS_AddElement
  <2>7. IsFiniteSet(links) /\ Cardinality(links) \in Nat /\ Cardinality(links \cup {e}) = Cardinality(links) + 1
    <3>1. IsFiniteSet(links)
      BY EdgesAreLinks, FS_Subset
    <3> QED BY <3>1, FS_AddElement, FS_CardinalityType
  <2>8. Cardinality(D) \in Nat /\ Cardinality(classes) \in Nat
    BY <1>1, RostersAreFinite, FS_CardinalityType DEF D
  <2>9. Cardinality(rest \cup {both}) = Cardinality(D) - Cardinality(links \cup {e})
    BY <1>1, <2>2, <2>4, <2>6, <2>7, <2>8
  <2> QED BY <1>11, <2>1, <2>6, <2>9
<1>15. Rooted(both, links \cup {e}, c)
  <2>1. Context(top, c) <= Context(p, c)
    <3>1. Context(top, c) \in Int /\ Context(p, c) \in Int
      BY <1>2, <1>3, <1>7, <1>9
    <3> QED BY <1>4, <1>7, <3>1
  <2>2. ASSUME NEW x \in both \ {top}
        PROVE  Context(top, c) < Context(x, c) /\ \E d \in links \cup {e} : d[2] = x
    <3>1. CASE x \in kp
      BY <1>7, <2>2, <3>1
    <3>2. CASE x \in kq
      <4>1. x \in D /\ top \in D
        BY <1>7, <1>9, <3>2
      <4>2. /\ Context(x, c) \in Int /\ Context(top, c) \in Int
            /\ Context(p, c) \in Int /\ Context(q, c) \in Int
        BY <1>2, <1>3, <4>1
      <4>3. CASE x = q
        BY <1>2, <2>1, <4>2, <4>3 DEF q
      <4>4. CASE x # q
        <5>1. Context(q, c) < Context(x, c) /\ \E d \in links : d[2] = x
          BY <1>8, <3>2, <4>4
        <5> QED BY <1>2, <2>1, <4>2, <5>1
      <4> QED BY <4>3, <4>4
    <3> QED BY <2>2, <3>1, <3>2
  <2>3. top \in both
    OBVIOUS
  <2> QED BY <2>2, <2>3 DEF Rooted
<1>16. \A k \in classes \ {kp, kq} : Rooted(k, links \cup {e}, c)
  BY <1>1 DEF Rooted
<1>17. \A k \in Merged(e, classes) : Rooted(k, links \cup {e}, c)
  <2> HIDE DEF both
  <2> QED BY <1>11, <1>15, <1>16
<1>18. Merged(e, classes) \in SUBSET SUBSET D
  BY <1>1, <1>9, <1>11
<1>19. \A r \in D : \E k \in Merged(e, classes) : r \in k
  <2> TAKE r \in D
  <2>1. PICK k \in classes : r \in k
    BY <1>1
  <2> QED BY <1>11, <2>1
<1>20. \A k, l \in Merged(e, classes) : \A r \in k : r \in l => k = l
  <2>1. \A k \in Merged(e, classes) : k = both \/ k \in classes \ {kp, kq}
    BY <1>11
  <2> HIDE DEF both
  <2> QED BY <1>1, <1>12, <2>1
<1> QED BY <1>14, <1>17, <1>18, <1>19, <1>20 DEF Forest, D

LEMMA ComponentsAreTrees ==
  ASSUME TablesInv, NEW c
  PROVE  Forest(Components(c), Edges(c), c)
<1> DEFINE S == Edges(c)
           base == {{r} : r \in RostersBefore(c)}
           V == SUBSET SUBSET RostersBefore(c)
           chosen(s) == CHOOSE x \in s : TRUE
           fold(g) == [s \in SUBSET S |->
                         IF s = {} THEN base ELSE Merged(chosen(s), g[s \ {chosen(s)}])]
           iter == CHOOSE g : g = fold(g)
           step == [z \in S \X V |-> Merged(z[1], z[2])]
           pick == [s \in SUBSET S |-> chosen(s)]
<1>1. Components(c) = iter[S]
  BY DEF Components, FoldSet, MapThenFoldSet
<1>2. IsFiniteSet(S)
  BY EdgesAreLinks
<1> HIDE DEF chosen
<1>3. \A s \in SUBSET S : s # {} => chosen(s) \in s
  BY DEF chosen
<1>4. PicksFrom(pick, S)
  BY <1>3 DEF PicksFrom
<1>5. base \in V
  OBVIOUS
<1>6. step \in [S \X V -> V]
  <2>1. ASSUME NEW e \in S, NEW v \in V PROVE Merged(e, v) \in V
    BY DEF Merged
  <2> QED BY <2>1
<1>7. /\ \A s \in SUBSET S : pick[s] = chosen(s)
      /\ \A e \in S, v \in V : step[<<e, v>>] = Merged(e, v)
  OBVIOUS
<1> HIDE DEF S, V, step, pick, base
<1>8. PICK g : Folds(g, S, V, base, step, pick)
  BY <1>2, <1>4, <1>5, <1>6, FoldExists
<1>9. g = fold(g)
  <2>1. /\ g \in [SUBSET S -> V]
        /\ \A s \in SUBSET S : g[s] = IF s = {} THEN base ELSE step[<<pick[s], g[s \ {pick[s]}]>>]
    BY <1>8 DEF Folds
  <2>2. ASSUME NEW s \in SUBSET S, s # {}
        PROVE  g[s] = Merged(chosen(s), g[s \ {chosen(s)}])
    <3>1. chosen(s) \in S /\ s \ {chosen(s)} \in SUBSET S
      BY <1>3, <2>2
    <3>2. g[s \ {chosen(s)}] \in V
      BY <2>1, <3>1
    <3> QED BY <1>7, <2>1, <2>2, <3>1, <3>2
  <2> QED BY <2>1, <2>2
<1>10. iter = fold(iter)
  <2> HIDE DEF fold
  <2> QED BY <1>9
<1> HIDE DEF iter
<1> DEFINE F == {s \in SUBSET S : Forest(iter[s], s, c)}
<1>11. {} \in F
  <2>1. iter[{}] = base
    BY <1>10
  <2>2. Forest(base, {}, c)
    BY ForestStart DEF base
  <2> QED BY <2>1, <2>2
<1>12. ASSUME NEW s \in SUBSET S, s # {}, s \ {pick[s]} \in F PROVE s \in F
  <2> DEFINE e == chosen(s)
  <2>1. e \in s /\ pick[s] = e
    BY <1>3, <1>7, <1>12
  <2>2. iter[s] = Merged(e, iter[s \ {e}])
    BY <1>10, <1>12
  <2>3. Forest(iter[s \ {e}], s \ {e}, c)
    BY <1>12, <2>1
  <2> HIDE DEF e
  <2>4. s \ {e} \in SUBSET Edges(c) /\ e \in Edges(c) /\ e \notin s \ {e} /\ s = (s \ {e}) \cup {e}
    BY <2>1 DEF S
  <2>5. Forest(iter[s], (s \ {e}) \cup {e}, c)
    BY <2>2, <2>3, <2>4, ForestLink
  <2> QED BY <2>4, <2>5
<1>13. F = SUBSET S
  <2>1. F \in SUBSET SUBSET S
    OBVIOUS
  <2>2. \A s \in SUBSET S : s # {} /\ s \ {pick[s]} \in F => s \in F
    <3> HIDE DEF F
    <3> QED BY <1>12
  <2> HIDE DEF F
  <2> QED BY <1>2, <1>4, <1>11, <2>1, <2>2, PickInduction
<1> QED BY <1>1, <1>13 DEF S

LEMMA LineageHasNoLoop ==
  ASSUME TablesInv, NEW c
  PROVE  LET s == LineageStatus(c) IN s.components = s.available - s.exact - s.strong - s.coach
<1> DEFINE Of(n) == Cardinality({e \in Edges(c) : Strength(e[1], e[2]) = n})
           D == RostersBefore(c)
<1>1. Cardinality(Components(c)) = Cardinality(D) - Cardinality(Edges(c))
  BY ComponentsAreTrees DEF Forest
<1>2. Cardinality(Edges(c)) = Of(3) + Of(2) + Of(1)
  BY EdgesByStrength
<1>3. Of(3) \in Nat /\ Of(2) \in Nat /\ Of(1) \in Nat
  BY EdgesAreLinks, FS_Subset, FS_CardinalityType
<1>4. Cardinality(D) \in Nat
  BY RostersAreFinite, FS_CardinalityType
<1>5. /\ LineageStatus(c).components = Cardinality(Components(c))
      /\ LineageStatus(c).available = Cardinality(D)
      /\ LineageStatus(c).exact = Of(3) /\ LineageStatus(c).strong = Of(2) /\ LineageStatus(c).coach = Of(1)
  BY DEF LineageStatus
<1> HIDE DEF Of, D
<1> QED BY <1>1, <1>2, <1>3, <1>4, <1>5

LEMMA CountedOnceHolds ==
  ASSUME TablesInv, OneRow(matches)
  PROVE  CountedOnce
<1> SUFFICES ASSUME NEW ctx \in Contexts
             PROVE  /\ \A org \in {ctx.a, ctx.b} :
                         LET results == Results(MatchesBefore(ctx.at), History(org, ctx.at), ctx.at)
                         IN  \A x, y \in results : x.match = y.match => x = y
                    /\ LET s == LineageStatus(ctx.at)
                       IN  s.components = s.available - s.exact - s.strong - s.coach
  BY DEF CountedOnce
<1>1. ctx.at \in Int
  BY TrainingAssumption DEF Contexts, ContextOf
<1>2. MatchesBefore(ctx.at) \in SUBSET matches
  BY DEF MatchesBefore
<1>3. ASSUME NEW org
      PROVE  \A x, y \in Results(MatchesBefore(ctx.at), History(org, ctx.at), ctx.at) :
               x.match = y.match => x = y
  <2>1. Apart(History(org, ctx.at))
    BY <1>1, HistoryIsApart
  <2> QED BY <1>2, <2>1, OneResultEach
<1> QED BY <1>3, LineageHasNoLoop

(* The sums of the feature rows.                                           *)
LEMMA WeightIsTotal ==
  ASSUME NEW R
  PROVE  WeightOf(R) = Total(R, [r \in R |-> r.weight])
<1> DEFINE chosen(s) == CHOOSE x \in s : TRUE
           f == [r \in R |-> r.weight]
           foldA(g) == [s \in SUBSET R |->
                          IF s = {} THEN 0 ELSE chosen(s).weight + g[s \ {chosen(s)}]]
           foldB(g) == [s \in SUBSET R |->
                          IF s = {} THEN 0 ELSE f[chosen(s)] + g[s \ {chosen(s)}]]
           iterA == CHOOSE g : g = foldA(g)
           iterB == CHOOSE g : g = foldB(g)
<1>1. WeightOf(R) = iterA[R]
  BY DEF WeightOf, MapThenSumSet, MapThenFoldSet
<1>2. Total(R, f) = iterB[R]
  BY DEF Total
<1>3. \A g : foldA(g) = foldB(g)
  <2> TAKE g
  <2>1. \A s \in SUBSET R : s # {} => chosen(s) \in R
    OBVIOUS
  <2> HIDE DEF chosen
  <2>2. \A s \in SUBSET R : s # {} => f[chosen(s)] = chosen(s).weight
    BY <2>1
  <2> HIDE DEF f
  <2> QED BY <2>2
<1>4. iterA = iterB
  <2> HIDE DEF foldA, foldB
  <2> QED BY <1>3
<1> QED BY <1>1, <1>2, <1>4

(* Each decided match is one win, of the team that won it.                 *)
Winner(m) == IF m.winner = "a" THEN m.a ELSE m.b

LEMMA WinsOfTeam ==
  ASSUME OneRow(matches), NEW eligible \in SUBSET matches, IsFiniteSet(eligible), NEW c, NEW t
  PROVE  /\ IsFiniteSet(Wins(ResultsOf(eligible, t, c)))
         /\ Cardinality(Wins(ResultsOf(eligible, t, c)))
              = Cardinality({m \in eligible : Decided(m) /\ Winner(m) = t})
<1> DEFINE E == {m \in eligible : Decided(m) /\ Winner(m) = t}
           f == [m \in E |-> ResultOf(m, t, {}, c)]
           W == Wins(ResultsOf(eligible, t, c))
<1>1. \A m \in eligible : /\ ResultOf(m, t, {}, c).won <=> Won(m, t)
                          /\ ResultOf(m, t, {}, c).match = m.id
  BY DEF ResultOf
<1>2. \A m : Won(m, t) <=> Winner(m) = t
  BY DEF Won, Winner
<1>3. \A m : Winner(m) = t => t \in {m.a, m.b}
  BY DEF Winner
<1>4. W = {f[m] : m \in DOMAIN f} /\ DOMAIN f = E
  BY <1>1, <1>2, <1>3 DEF Wins, ResultsOf
<1>5. \A x, y \in DOMAIN f : f[x] = f[y] => x = y
  <2> SUFFICES ASSUME NEW x \in E, NEW y \in E, f[x] = f[y] PROVE x = y
    OBVIOUS
  <2>1. x.id = y.id /\ x \in matches /\ y \in matches
    BY <1>1
  <2> QED BY <2>1 DEF OneRow
<1>6. IsFiniteSet(E)
  BY FS_Subset
<1> HIDE DEF f, E, W
<1>7. IsFiniteSet(W) /\ Cardinality(W) = Cardinality(E)
  BY <1>4, <1>5, <1>6, InjectiveImage
<1> QED BY <1>7 DEF W, E

LEMMA EveryWinCounts ==
  ASSUME OneRow(matches), NEW eligible \in SUBSET matches, IsFiniteSet(eligible), NEW c
  PROVE  Total(TeamsOf(eligible),
               [t \in TeamsOf(eligible) |-> Cardinality(Wins(ResultsOf(eligible, t, c)))])
           = Cardinality({m \in eligible : Decided(m)})
<1> DEFINE T == TeamsOf(eligible)
           D == {m \in eligible : Decided(m)}
           WonBy(s) == {m \in D : Winner(m) \in s}
           f == [t \in T |-> Cardinality(Wins(ResultsOf(eligible, t, c)))]
           R == {z \in (SUBSET T) \X Int : z[2] = Cardinality(WonBy(z[1]))}
<1>1. IsFiniteSet(D) /\ \A s : IsFiniteSet(WonBy(s)) /\ Cardinality(WonBy(s)) \in Nat
  BY FS_Subset, FS_CardinalityType
<1>2. IsFiniteSet(T)
  <2> DEFINE sides == [m \in D |-> {m.a, m.b}]
             K == {sides[m] : m \in DOMAIN sides}
  <2>1. IsFiniteSet(K)
    <3>1. DOMAIN sides = D
      OBVIOUS
    <3> HIDE DEF sides, D
    <3> QED BY <1>1, <3>1, ImageIsFinite
  <2>2. \A k \in K : IsFiniteSet(k)
    <3> SUFFICES ASSUME NEW m \in D PROVE IsFiniteSet({m.a, m.b})
      OBVIOUS
    <3>1. IsFiniteSet({m.a}) /\ {m.a, m.b} = {m.a} \cup {m.b}
      BY FS_Singleton
    <3> QED BY <3>1, FS_AddElement
  <2>3. T = UNION K
    BY DEF TeamsOf
  <2> HIDE DEF K, T
  <2> QED BY <2>1, <2>2, <2>3, FS_UNION
<1>3. \A t \in T : f[t] \in Int /\ f[t] = Cardinality(WonBy({t}))
  <2> TAKE t \in T
  <2>1. WonBy({t}) = {m \in eligible : Decided(m) /\ Winner(m) = t}
    OBVIOUS
  <2>2. f[t] = Cardinality({m \in eligible : Decided(m) /\ Winner(m) = t})
    BY WinsOfTeam
  <2> HIDE DEF f, WonBy
  <2> QED BY <1>1, <2>1, <2>2
<1>4. f \in [T -> Int]
  <2>1. f = [t \in T |-> f[t]]
    OBVIOUS
  <2> HIDE DEF f
  <2> QED BY <1>3, <2>1
<1>5. <<{}, 0>> \in R /\ R \in SUBSET ((SUBSET T) \X Int)
  <2>1. WonBy({}) = {}
    OBVIOUS
  <2>2. Cardinality(WonBy({})) = 0
    BY <2>1, FS_EmptySet
  <2> HIDE DEF WonBy, T
  <2> QED BY <2>2
<1>6. ASSUME NEW s \in SUBSET T, NEW x \in s, NEW n \in Int, <<s \ {x}, n>> \in R
      PROVE  <<s, f[x] + n>> \in R
  <2>1. n = Cardinality(WonBy(s \ {x}))
    BY <1>6
  <2>2. WonBy(s) = WonBy({x}) \cup WonBy(s \ {x}) /\ WonBy({x}) \cap WonBy(s \ {x}) = {}
    OBVIOUS
  <2> HIDE DEF WonBy, f
  <2>3. Cardinality(WonBy({x}) \cup WonBy(s \ {x}))
          = Cardinality(WonBy({x})) + Cardinality(WonBy(s \ {x}))
              - Cardinality(WonBy({x}) \cap WonBy(s \ {x}))
    BY <1>1, FS_Union
  <2>4. Cardinality(WonBy({x}) \cap WonBy(s \ {x})) = 0
    BY <2>2, FS_EmptySet
  <2>5. f[x] = Cardinality(WonBy({x})) /\ f[x] \in Int
    BY <1>3
  <2>6. Cardinality(WonBy(s)) = f[x] + n /\ f[x] + n \in Int
    <3>1. Cardinality(WonBy({x})) \in Nat /\ Cardinality(WonBy(s \ {x})) \in Nat
      BY <1>1
    <3>2. Cardinality(WonBy(s)) = Cardinality(WonBy({x}) \cup WonBy(s \ {x}))
      BY <2>2
    <3> QED BY <2>1, <2>3, <2>4, <2>5, <3>1, <3>2
  <2> QED BY <2>6
<1>7. <<T, Total(T, f)>> \in R
  <2>1. \A s \in SUBSET T : \A x \in s : \A n \in Int : <<s \ {x}, n>> \in R => <<s, f[x] + n>> \in R
    <3> HIDE DEF R, f
    <3> QED BY <1>6
  <2> HIDE DEF R, f, T
  <2> QED BY <1>2, <1>4, <1>5, <2>1, TotalIs
<1>8. WonBy(T) = D
  BY DEF TeamsOf, Winner
<1>9. Total(T, f) = Cardinality(D)
  <2>1. Total(T, f) = Cardinality(WonBy(T))
    <3> HIDE DEF f, WonBy, T
    <3> QED BY <1>7
  <2> QED BY <1>8, <2>1
<1> QED BY <1>9

LEMMA MaxOfTwo ==
  ASSUME NEW x \in Int, NEW y \in Int
  PROVE  Max({x, y}) \in {x, y} /\ Max({x, y}) >= x /\ Max({x, y}) >= y
<1>1. \E m \in {x, y} : \A z \in {x, y} : m >= z
  OBVIOUS
<1>2. Max({x, y}) \in {x, y} /\ \A z \in {x, y} : Max({x, y}) >= z
  BY <1>1 DEF Max
<1> QED BY <1>2

Worth == (0 - Scale) .. Scale

LEMMA RegularizedIsWorth ==
  ASSUME NEW raw \in Int, NEW weight \in Nat
  PROVE  /\ Regularized(raw, weight) \in Worth
         /\ raw >= 0 => Regularized(raw, weight) >= 0
         /\ raw <= 0 => Regularized(raw, weight) <= 0
<1>1. Scale \in Nat /\ Scale # 0
  BY FeatureAssumption
<1>2. CASE weight = 0
  <2>1. Regularized(raw, weight) = 0
    BY <1>2 DEF Regularized
  <2> QED BY <1>1, <2>1 DEF Worth
<1>3. CASE weight # 0
  <2> DEFINE x == (raw * weight) \div (weight + 5 * Scale)
             y == Min({Scale, x})
             z == Max({-Scale, y})
  <2>1. Regularized(raw, weight) = z
    BY <1>3 DEF Regularized
  <2>2. weight + 5 * Scale \in Nat \ {0}
    BY <1>1
  <2>3. /\ raw * weight \in Int
        /\ raw >= 0 => raw * weight >= 0
        /\ raw <= 0 => raw * weight <= 0
    BY Signs
  <2>4. x \in Int /\ (raw >= 0 => x >= 0) /\ (raw <= 0 => x <= 0)
    BY <2>2, <2>3, Signs
  <2> HIDE DEF x
  <2>5. y \in {Scale, x} /\ y <= Scale /\ y <= x
    <3>1. \E m \in {Scale, x} : \A k \in {Scale, x} : m =< k
      BY <1>1, <2>4
    <3>2. y \in {Scale, x} /\ \A k \in {Scale, x} : y =< k
      BY <3>1 DEF Min
    <3> QED BY <3>2
  <2>6. y \in Int /\ (raw >= 0 => y >= 0) /\ (raw <= 0 => y <= 0)
    BY <1>1, <2>4, <2>5
  <2> HIDE DEF y
  <2>7. -Scale \in Int
    BY <1>1
  <2>8. z \in {-Scale, y} /\ z >= -Scale /\ z >= y
    BY <2>6, <2>7, MaxOfTwo
  <2> HIDE DEF z
  <2>9. z \in Int /\ -Scale <= z /\ z <= Scale /\ (raw >= 0 => z >= 0) /\ (raw <= 0 => z <= 0)
    BY <1>1, <2>5, <2>6, <2>8
  <2> QED BY <1>1, <2>1, <2>9 DEF Worth
<1> QED BY <1>2, <1>3

(* The strengths of a round. *)
Priced(val, T) == {[team |-> t, value |-> val[t]] : t \in T}

LEMMA StrengthOfIsWorth ==
  ASSUME NEW T, NEW val \in [T -> Worth], NEW t
  PROVE  StrengthOf(t, Priced(val, T)) \in Worth
<1> DEFINE S == {s \in Priced(val, T) : s.team = t}
           f == [s \in S |-> s.value]
           chosen(s) == CHOOSE x \in s : TRUE
           foldA(g) == [s \in SUBSET S |->
                          IF s = {} THEN 0 ELSE chosen(s).value + g[s \ {chosen(s)}]]
           foldB(g) == [s \in SUBSET S |->
                          IF s = {} THEN 0 ELSE f[chosen(s)] + g[s \ {chosen(s)}]]
           iterA == CHOOSE g : g = foldA(g)
           iterB == CHOOSE g : g = foldB(g)
<1>1. StrengthOf(t, Priced(val, T)) = Total(S, f)
  <2>1. StrengthOf(t, Priced(val, T)) = iterA[S]
    BY DEF StrengthOf, MapThenSumSet, MapThenFoldSet
  <2>2. Total(S, f) = iterB[S]
    BY DEF Total
  <2>3. \A g : foldA(g) = foldB(g)
    <3> TAKE g
    <3> HIDE DEF S
    <3>1. \A s \in SUBSET S : s # {} => chosen(s) \in S
      OBVIOUS
    <3> HIDE DEF chosen
    <3>2. \A s \in SUBSET S : s # {} => f[chosen(s)] = chosen(s).value
      BY <3>1
    <3> HIDE DEF f
    <3> QED BY <3>2
  <2>4. iterA = iterB
    <3> HIDE DEF foldA, foldB
    <3> QED BY <2>3
  <2> QED BY <2>1, <2>2, <2>4
<1>2. Scale \in Nat /\ \A v \in Worth : v \in Int
  BY FeatureAssumption DEF Worth
<1>3. 0 \in Worth
  BY <1>2 DEF Worth
<1>4. CASE t \in T
  <2> DEFINE own == [team |-> t, value |-> val[t]]
  <2>1. S = {own}
    BY <1>4 DEF Priced
  <2>2. own.value \in Worth
    BY <1>4
  <2>3. f \in [S -> Int]
    BY <1>2, <2>1, <2>2
  <2>4. f[own] = own.value
    BY <2>1
  <2> HIDE DEF own, f, S
  <2>5. Total(S, f) = f[own]
    BY <2>1, <2>3, TotalOfOne
  <2> QED BY <1>1, <2>2, <2>4, <2>5
<1>5. CASE t \notin T
  <2>1. S = {}
    BY <1>5 DEF Priced
  <2>2. IsFiniteSet(S) /\ f \in [S -> Int] /\ \A x \in S : \A n \in Worth : f[x] + n \in Worth
    BY <2>1, FS_EmptySet
  <2> HIDE DEF f, S
  <2>3. Worth \in SUBSET Int
    BY <1>2
  <2>4. Total(S, f) \in Worth
    BY <1>3, <2>2, <2>3, TotalWithin
  <2> QED BY <1>1, <2>4
<1> QED BY <1>4, <1>5

(* What the strengths are computed from. *)
Weighed(R) == IsFiniteSet(R) /\ \A r \in R : r.weight \in Nat /\ r.won \in BOOLEAN

LEMMA WeightIsNat ==
  ASSUME NEW R, Weighed(R)
  PROVE  WeightOf(R) \in Nat
<1> DEFINE f == [r \in R |-> r.weight]
<1>1. IsFiniteSet(R) /\ f \in [R -> Int] /\ \A r \in R : f[r] >= 0
  BY DEF Weighed
<1> HIDE DEF f
<1>2. Total(R, f) \in Int /\ Total(R, f) >= 0
  BY <1>1, TotalSign
<1> QED BY <1>2, WeightIsTotal DEF f

LEMMA BaseIsWorth ==
  ASSUME NEW R, Weighed(R)
  PROVE  BaseStrength(R) \in Worth
<1>1. Weighed(Wins(R))
  <2>1. Wins(R) \in SUBSET R
    BY DEF Wins
  <2> QED BY <2>1, FS_Subset DEF Weighed
<1>2. WeightOf(R) \in Nat /\ WeightOf(Wins(R)) \in Nat
  BY <1>1, WeightIsNat
<1>3. Scale \in Nat /\ Scale \div 2 \in Int
  BY FeatureAssumption
<1>4. RateOf(WeightOf(Wins(R)), WeightOf(R)) \in Int
  <2>1. WeightOf(Wins(R)) * Scale \in Int
    BY <1>2, <1>3, Signs
  <2>2. WeightOf(R) # 0 => (WeightOf(Wins(R)) * Scale) \div WeightOf(R) \in Int
    BY <1>2, <2>1, Signs
  <2> QED BY <1>3, <2>2 DEF RateOf
<1>5. Summary(R).recent = RateOf(WeightOf(Wins(R)), WeightOf(R))
  BY DEF Summary
<1>6. 2 * (Summary(R).recent - Scale \div 2) \in Int
  BY <1>3, <1>4, <1>5
<1> QED BY <1>2, <1>6, RegularizedIsWorth DEF BaseStrength

LEMMA AdjustedIsWorth ==
  ASSUME NEW R, Weighed(R), NEW T, NEW val \in [T -> Worth]
  PROVE  LET value == Adjusted(R, Priced(val, T))
         IN  /\ value \in Worth
             /\ (\A r \in R : r.won) => value >= 0
             /\ (\A r \in R : ~r.won) => value <= 0
<1> DEFINE strengths == Priced(val, T)
           half == Scale \div 2
           Score(r) == (IF r.won THEN half ELSE -half) + StrengthOf(r.against, strengths) \div 2
           f == [r \in R |-> r.weight * Score(r)]
           weight == WeightOf(R)
           chosen(s) == CHOOSE x \in s : TRUE
           foldA(g) == [s \in SUBSET R |->
                          IF s = {} THEN 0
                          ELSE chosen(s).weight * Score(chosen(s)) + g[s \ {chosen(s)}]]
           foldB(g) == [s \in SUBSET R |->
                          IF s = {} THEN 0 ELSE f[chosen(s)] + g[s \ {chosen(s)}]]
           iterA == CHOOSE g : g = foldA(g)
           iterB == CHOOSE g : g = foldB(g)
<1>1. Adjusted(R, strengths) = IF weight = 0 THEN 0 ELSE Regularized(iterA[R] \div weight, weight)
  BY DEF Adjusted, MapThenSumSet, MapThenFoldSet
<1>2. iterA[R] = Total(R, f)
  <2>1. Total(R, f) = iterB[R]
    BY DEF Total
  <2>2. \A g : foldA(g) = foldB(g)
    <3> TAKE g
    <3> HIDE DEF Score
    <3>1. \A s \in SUBSET R : s # {} => chosen(s) \in R
      OBVIOUS
    <3> HIDE DEF chosen
    <3>2. \A s \in SUBSET R : s # {} => f[chosen(s)] = chosen(s).weight * Score(chosen(s))
      BY <3>1
    <3> HIDE DEF f
    <3> QED BY <3>2
  <2>3. iterA = iterB
    <3> HIDE DEF foldA, foldB
    <3> QED BY <2>2
  <2> QED BY <2>1, <2>3
<1> HIDE DEF iterA
<1>3. ASSUME NEW r \in R
      PROVE  /\ f[r] \in Int
             /\ r.won => f[r] >= 0
             /\ ~r.won => f[r] <= 0
  <2>1. PICK v \in Int : v = StrengthOf(r.against, strengths) /\ -Scale <= v /\ v <= Scale
    <3>1. StrengthOf(r.against, strengths) \in Worth
      BY StrengthOfIsWorth
    <3>2. Scale \in Nat
      BY FeatureAssumption
    <3> QED BY <3>1, <3>2 DEF Worth
  <2>2. PICK h \in Int : h = half /\ v \div 2 + h >= 0 /\ v \div 2 - h <= 0
    <3>1. Scale \in Nat /\ Scale % 2 = 0
      BY FeatureAssumption
    <3>2. \A s \in Nat : s % 2 = 0 => \A x \in Int : -s <= x /\ x <= s =>
            s \div 2 \in Int /\ x \div 2 + s \div 2 >= 0 /\ x \div 2 - (s \div 2) <= 0
      OBVIOUS
    <3> QED BY <2>1, <3>1, <3>2
  <2>3. r.weight \in Nat /\ r.won \in BOOLEAN
    BY DEF Weighed
  <2>4. PICK n \in Int : n = Score(r) /\ (r.won => n >= 0) /\ (~r.won => n <= 0)
    <3>1. Score(r) = (IF r.won THEN h ELSE -h) + v \div 2
      BY <2>1, <2>2
    <3>2. v \div 2 \in Int
      BY <2>1
    <3> QED BY <2>2, <3>1, <3>2
  <2>5. f[r] = r.weight * n
    <3> HIDE DEF Score
    <3> QED BY <2>4
  <2> HIDE DEF f
  <2> QED BY <2>3, <2>4, <2>5, Signs
<1>4. IsFiniteSet(R) /\ f \in [R -> Int]
  <2>1. f = [r \in R |-> f[r]]
    OBVIOUS
  <2> HIDE DEF f
  <2> QED BY <1>3, <2>1 DEF Weighed
<1>5. PICK sum \in Int : /\ sum = Total(R, f)
                         /\ (\A r \in R : r.won) => sum >= 0
                         /\ (\A r \in R : ~r.won) => sum <= 0
  <2> HIDE DEF f
  <2> QED BY <1>3, <1>4, TotalSign
<1>6. weight \in Nat
  BY WeightIsNat
<1> HIDE DEF f, weight, strengths
<1>7. CASE weight = 0
  <2>1. Adjusted(R, strengths) = 0
    BY <1>1, <1>7
  <2>2. 0 \in Worth
    BY FeatureAssumption DEF Worth
  <2> QED BY <2>1, <2>2 DEF strengths
<1>8. CASE weight # 0
  <2>1. PICK raw \in Int : /\ raw = sum \div weight
                           /\ sum >= 0 => raw >= 0
                           /\ sum <= 0 => raw <= 0
    BY <1>6, <1>8, Signs
  <2>2. Adjusted(R, strengths) = Regularized(raw, weight)
    BY <1>1, <1>2, <1>5, <1>8, <2>1
  <2> QED BY <1>5, <1>6, <2>1, <2>2, RegularizedIsWorth DEF strengths
<1> QED BY <1>7, <1>8

(* After every round each team has a strength, the last one computed from  *)
(* the strengths of the round before.                                      *)
LEMMA LastRound ==
  ASSUME NEW eligible, NEW c, \A t \in TeamsOf(eligible) : Weighed(ResultsOf(eligible, t, c))
  PROVE  \E val \in [TeamsOf(eligible) -> Worth] :
           Strengths(eligible, c)
             = {[team |-> t, value |-> Adjusted(ResultsOf(eligible, t, c), Priced(val, TeamsOf(eligible)))] :
                  t \in TeamsOf(eligible)}
<1> DEFINE T == TeamsOf(eligible)
           Of(t) == ResultsOf(eligible, t, c)
           V == {Priced(val, T) : val \in [T -> Worth]}
           Next1(last) == {[team |-> t, value |-> Adjusted(Of(t), last)] : t \in T}
           first == {[team |-> t, value |-> BaseStrength(Of(t))] : t \in T}
           rule(round) == [n \in 0 .. Iterations |->
              {[team |-> t, value |-> IF n = 0 THEN BaseStrength(Of(t))
                                      ELSE Adjusted(Of(t), round[n - 1])] : t \in T}]
           round == CHOOSE r : r = rule(r)
           step == [z \in Nat \X V |-> Next1(z[2])]
<1>1. Strengths(eligible, c) = round[Iterations]
  BY DEF Strengths
<1>2. Iterations \in Nat /\ Iterations >= 1
  BY FeatureAssumption
<1>3. first \in V
  <2> DEFINE val == [t \in T |-> BaseStrength(Of(t))]
  <2>1. val \in [T -> Worth]
    BY BaseIsWorth
  <2>2. first = Priced(val, T)
    BY DEF Priced
  <2> QED BY <2>1, <2>2
<1>4. ASSUME NEW last \in V PROVE Next1(last) \in V
  <2>1. PICK val \in [T -> Worth] : last = Priced(val, T)
    OBVIOUS
  <2> DEFINE next == [t \in T |-> Adjusted(Of(t), last)]
  <2>2. next \in [T -> Worth]
    BY <2>1, AdjustedIsWorth
  <2>3. Next1(last) = Priced(next, T)
    BY DEF Priced
  <2> QED BY <2>2, <2>3
<1>5. \A r : /\ rule(r)[0] = first
             /\ \A n \in 1 .. Iterations : rule(r)[n] = Next1(r[n - 1])
  <2> TAKE r
  <2>1. 0 \in 0 .. Iterations /\ \A n \in 1 .. Iterations : n \in 0 .. Iterations /\ n # 0
    BY <1>2
  <2> QED BY <2>1
<1>6. step \in [Nat \X V -> V]
  <2> HIDE DEF V, Next1
  <2> QED BY <1>4
<1>7. \A n \in Nat, v \in V : step[<<n, v>>] = Next1(v)
  OBVIOUS
<1>8. \A r : DOMAIN rule(r) = 0 .. Iterations /\ rule(r) = [n \in 0 .. Iterations |-> rule(r)[n]]
  OBVIOUS
<1> HIDE DEF V, Next1, first, rule, step
<1>9. PICK r \in [0 .. Iterations -> V] :
        r[0] = first /\ \A i \in 1 .. Iterations : r[i] = step[<<i, r[i - 1]>>]
  <2>1. \E r : Iterates(r, Iterations, V, first, step)
    BY <1>2, <1>3, <1>6, Recursion
  <2> QED BY <2>1 DEF Iterates
<1>10. r = rule(r)
  <2>1. \A n \in 0 .. Iterations : r[n] = rule(r)[n]
    <3> TAKE n \in 0 .. Iterations
    <3>1. CASE n = 0
      BY <1>5, <1>9, <3>1
    <3>2. CASE n # 0
      <4>1. n \in 1 .. Iterations /\ n \in Nat /\ n - 1 \in 0 .. Iterations
        BY <1>2, <3>2
      <4> QED BY <1>5, <1>7, <1>9, <4>1
    <3> QED BY <3>1, <3>2
  <2>2. r = [n \in 0 .. Iterations |-> r[n]]
    BY <1>9
  <2> QED BY <1>8, <2>1, <2>2
<1>11. round = rule(round)
  BY <1>10
<1> HIDE DEF round
<1> DEFINE G == {n \in Nat : n <= Iterations => round[n] \in V}
<1>12. round[0] = first /\ \A n \in 1 .. Iterations : round[n] = Next1(round[n - 1])
  BY <1>5, <1>11
<1>13. 0 \in G
  BY <1>3, <1>12
<1>14. ASSUME NEW n \in G PROVE n + 1 \in G
  <2> SUFFICES ASSUME n + 1 <= Iterations PROVE round[n + 1] \in V
    OBVIOUS
  <2>1. n \in Nat /\ n <= Iterations /\ n + 1 \in 1 .. Iterations /\ (n + 1) - 1 = n
    BY <1>2
  <2>2. round[n] \in V
    BY <2>1
  <2> QED BY <1>4, <1>12, <2>1, <2>2
<1>15. G = Nat
  <2>1. G \in SUBSET Nat
    OBVIOUS
  <2> HIDE DEF G
  <2> QED BY <1>13, <1>14, <2>1, Induction
<1>16. Iterations - 1 \in Nat /\ Iterations - 1 <= Iterations /\ Iterations \in 1 .. Iterations
  BY <1>2
<1>17. round[Iterations - 1] \in V /\ round[Iterations] = Next1(round[Iterations - 1])
  BY <1>12, <1>15, <1>16
<1> QED BY <1>1, <1>17 DEF V, Next1

CountedInv == TablesInv /\ matches \in SUBSET MatchRows /\ OneRow(matches)

LEMMA ResultsAreWeighed ==
  ASSUME CountedInv, NEW ctx \in Contexts,
         NEW eligible \in SUBSET matches, \A m \in eligible : EndedBefore(m, ctx.at), NEW t
  PROVE  Weighed(ResultsOf(eligible, t, ctx.at))
<1> DEFINE E == {m \in eligible : Decided(m) /\ t \in {m.a, m.b}}
           f == [m \in E |-> ResultOf(m, t, {}, ctx.at)]
           R == ResultsOf(eligible, t, ctx.at)
<1>1. IsFiniteSet(E)
  BY FS_Subset DEF CountedInv, TablesInv
<1>2. R = {f[m] : m \in DOMAIN f} /\ DOMAIN f = E
  BY DEF ResultsOf
<1>3. IsFiniteSet(R)
  <2> HIDE DEF R, f, E
  <2> QED BY <1>1, <1>2, ImageIsFinite
<1>4. ASSUME NEW m \in E PROVE f[m].weight \in Nat /\ f[m].won \in BOOLEAN
  <2>1. PICK n \in MatchRows : ctx.at = n.start
    BY DEF Contexts, ContextOf
  <2>2. m \in MatchRows /\ EndedBefore(m, n.start)
    BY <2>1 DEF CountedInv
  <2>3. n.start - m.end \in DOMAIN Weight
    BY <2>1, <2>2, WeightAssumption
  <2>4. Weight[ctx.at - m.end] \in 1 .. Scale /\ Scale \in Nat
    BY <2>1, <2>3, FeatureAssumption
  <2>5. f[m].weight = Weight[ctx.at - m.end] /\ f[m].won = Won(m, t)
    BY DEF ResultOf
  <2>6. Won(m, t) \in BOOLEAN
    BY DEF Won
  <2> HIDE DEF f
  <2> QED BY <2>4, <2>5, <2>6
<1> HIDE DEF f, E
<1>5. \A r \in R : r.weight \in Nat /\ r.won \in BOOLEAN
  <2> HIDE DEF R
  <2> QED BY <1>2, <1>4
<1> QED BY <1>3, <1>5 DEF Weighed

LEMMA StrengthsFollow ==
  ASSUME CountedInv
  PROVE  StrengthsFollowResults
<1> SUFFICES ASSUME NEW ctx \in Contexts
             PROVE  LET eligible == Eligible({m \in MatchesBefore(ctx.at) : InScope(m)}, ctx)
                        Of(t) == ResultsOf(eligible, t, ctx.at)
                    IN  /\ ctx.id \notin {m.id : m \in MatchesBefore(ctx.at)} =>
                             MapThenSumSet(LAMBDA t : Cardinality(Wins(Of(t))), TeamsOf(eligible))
                               = FeatureStatus(ctx.at).results
                        /\ \A s \in Strengths(eligible, ctx.at) :
                             /\ Wins(Of(s.team)) = Of(s.team) => s.value >= 0
                             /\ Wins(Of(s.team)) = {} => s.value <= 0
  BY DEF StrengthsFollowResults
<1> DEFINE available == {m \in MatchesBefore(ctx.at) : InScope(m)}
           eligible == Eligible(available, ctx)
           Of(t) == ResultsOf(eligible, t, ctx.at)
           T == TeamsOf(eligible)
<1>1. eligible \in SUBSET matches /\ \A m \in eligible : EndedBefore(m, ctx.at)
  BY DEF Eligible, MatchesBefore
<1>2. IsFiniteSet(eligible)
  BY <1>1, FS_Subset DEF CountedInv, TablesInv
<1>3. ASSUME ctx.id \notin {m.id : m \in MatchesBefore(ctx.at)}
      PROVE  MapThenSumSet(LAMBDA t : Cardinality(Wins(Of(t))), T) = FeatureStatus(ctx.at).results
  <2>1. eligible = available
    BY <1>3 DEF Eligible, MatchesBefore, CompletedBefore, EndedBefore
  <2>2. FeatureStatus(ctx.at).results = Cardinality({m \in eligible : Decided(m)})
    BY <2>1 DEF FeatureStatus
  <2> HIDE DEF eligible
  <2> DEFINE won(t) == Cardinality(Wins(Of(t)))
             f == [t \in T |-> won(t)]
             chosen(u) == CHOOSE x \in u : TRUE
             foldA(g) == [u \in SUBSET T |->
                            IF u = {} THEN 0 ELSE won(chosen(u)) + g[u \ {chosen(u)}]]
             foldB(g) == [u \in SUBSET T |->
                            IF u = {} THEN 0 ELSE f[chosen(u)] + g[u \ {chosen(u)}]]
             iterA == CHOOSE g : g = foldA(g)
             iterB == CHOOSE g : g = foldB(g)
  <2>3. MapThenSumSet(LAMBDA t : Cardinality(Wins(Of(t))), T) = iterA[T]
    BY DEF MapThenSumSet, MapThenFoldSet
  <2>4. Total(T, f) = iterB[T]
    BY DEF Total
  <2>5. \A g : foldA(g) = foldB(g)
    <3> TAKE g
    <3> HIDE DEF won, T
    <3>1. \A u \in SUBSET T : u # {} => chosen(u) \in T
      OBVIOUS
    <3> HIDE DEF chosen
    <3>2. \A u \in SUBSET T : u # {} => f[chosen(u)] = won(chosen(u))
      BY <3>1
    <3> HIDE DEF f
    <3> QED BY <3>2
  <2>6. iterA = iterB
    <3> HIDE DEF foldA, foldB
    <3> QED BY <2>5
  <2>7. Total(T, f) = Cardinality({m \in eligible : Decided(m)})
    BY <1>1, <1>2, EveryWinCounts DEF CountedInv
  <2> QED BY <2>2, <2>3, <2>4, <2>6, <2>7
<1>4. ASSUME NEW s \in Strengths(eligible, ctx.at)
      PROVE  /\ Wins(Of(s.team)) = Of(s.team) => s.value >= 0
             /\ Wins(Of(s.team)) = {} => s.value <= 0
  <2> HIDE DEF eligible
  <2>1. \A t : Weighed(Of(t))
    BY <1>1, ResultsAreWeighed
  <2>2. PICK val \in [T -> Worth] :
          Strengths(eligible, ctx.at) = {[team |-> t, value |-> Adjusted(Of(t), Priced(val, T))] : t \in T}
    BY <2>1, LastRound
  <2>3. PICK t \in T : s = [team |-> t, value |-> Adjusted(Of(t), Priced(val, T))]
    BY <1>4, <2>2
  <2> DEFINE value == Adjusted(Of(t), Priced(val, T))
  <2>4. s.team = t /\ s.value = value
    BY <2>3
  <2>5. /\ (\A r \in Of(t) : r.won) => value >= 0
        /\ (\A r \in Of(t) : ~r.won) => value <= 0
    BY <2>1, AdjustedIsWorth
  <2>6. /\ Wins(Of(t)) = Of(t) => \A r \in Of(t) : r.won
        /\ Wins(Of(t)) = {} => \A r \in Of(t) : ~r.won
    BY DEF Wins
  <2> HIDE DEF value
  <2> QED BY <2>4, <2>5, <2>6
<1> QED BY <1>3, <1>4

(* A match is one result of one team in a resolved history, the links of   *)
(* rosters have no loop, every decided match is one win, and the strengths *)
(* of the teams have the sign of their results: for any matches and        *)
(* rosters stored in any order, any weights and any number of rounds.      *)
THEOREM EachResultCountsOnce == TrainingSpec => []ResultsCounted
<1>1. TrainingInit => CountedInv
  <2> SUFFICES ASSUME TrainingInit PROVE CountedInv
    OBVIOUS
  <2>1. matches = {} /\ games = {} /\ DOMAIN snapshots = {}
    BY DEF TrainingInit, StoreInit
  <2> QED BY <2>1, FS_EmptySet DEF CountedInv, TablesInv, OneRow
<1>2. CountedInv /\ [TrainingNext]_trainVars => CountedInv'
  <2> SUFFICES ASSUME CountedInv, [TrainingNext]_trainVars
               PROVE  matches' \in SUBSET MatchRows /\ OneRow(matches')
    BY TablesStep DEF CountedInv
  <2>1. CASE UNCHANGED matches
    BY <2>1 DEF CountedInv
  <2>2. ASSUME NEW m \in MatchRows, WriteMatch(m)
        PROVE  matches' \in SUBSET MatchRows /\ OneRow(matches')
    <3>1. matches' = matches \/ matches' = Replaced(matches, m)
      BY <2>2 DEF WriteMatch, UpsertMatch
    <3>2. Replaced(matches, m) \in SUBSET MatchRows /\ OneRow(Replaced(matches, m))
      BY DEF CountedInv, Replaced, OfSource, OneRow
    <3> QED BY <3>1, <3>2 DEF CountedInv
  <2>3. UNCHANGED matches \/ \E m \in MatchRows : WriteMatch(m)
    BY DEF TrainingNext, trainVars, store, TrainHistorical, TrainDraft, EvaluateHistorical, EvaluateDraft,
           DraftCommand, Train, Predict, WriteRoster, WriteGame, UpsertRoster, UpsertSnapshot,
           UpsertGame
  <2> QED BY <2>1, <2>2, <2>3
<1>3. CountedInv => ResultsCounted
  BY CountedOnceHolds, StrengthsFollow DEF CountedInv, ResultsCounted
<1> QED BY <1>1, <1>2, <1>3, PTL DEF TrainingSpec
=============================================================================
