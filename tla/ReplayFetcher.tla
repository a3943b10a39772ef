---------------------------- MODULE ReplayFetcher ---------------------------
(***************************************************************************)
(* Bounded download runs (app/replay_fetcher.py): discover the matches of  *)
(* one or of every allowlisted league, ask OpenDota for each match without *)
(* a local replay, stream, decompress and publish it.  The status command  *)
(* goes through the leagues in the same way and downloads nothing.  Runs   *)
(* follow one another over the same directory and may be cut off anywhere. *)
(***************************************************************************)
EXTENDS Integers, Sequences, FiniteSets, FiniteSetsExt

CONSTANTS
  Allowlist,    \* league ids, in the order of the allowlist
  LeagueRows,   \* LeagueRows[l] : the rows OpenDota lists for league l
  Cutoff,       \* cutoff and as_of of the runs
  AsOf,
  Count,        \* count
  MaxDetails,   \* max_details
  MaxAttempts,  \* MAX_OPENDOTA_ATTEMPTS
  MaxRuns       \* bound: runs over the directory

Leagues == {Allowlist[i] : i \in DOMAIN Allowlist}

(* A field that is missing or invalid is 0.                                *)
Row == [match : Nat, league : Nat, start : Nat]

ASSUME AllowlistIsLeagues == Allowlist \in Seq(Nat \ {0})
ASSUME RowsAreRows == \A l \in Leagues : LeagueRows[l] \in Seq(Row)
ASSUME CountInRange == Count \in 1 .. 25
ASSUME LimitsArePositive ==
  MaxDetails \in Nat \ {0} /\ MaxAttempts \in Nat \ {0} /\ MaxRuns \in Nat
ASSUME CutoffBeforeAsOf == Cutoff \in Nat \ {0} /\ AsOf \in Nat /\ Cutoff <= AsOf

VARIABLES
  dest,   \* dest[m] : what <m>.dem holds
  fetch,  \* the run in progress
  runs    \* runs started

fetcherVars == <<dest, fetch, runs>>

Modes == {"aggregate", "league", "all", "status"}

(* What a replay server may send: also a body that ends early, one that    *)
(* is not compressed as expected, and one that holds nothing.              *)
Bodies == {"whole", "cut", "garbage", "hollow"}

Found == [match : Nat, league : Leagues, start : Nat]

RowsOf(l) == {LeagueRows[l][i] : i \in DOMAIN LeagueRows[l]}
Matches == (UNION {{row.match : row \in RowsOf(l)} : l \in Leagues}) \ {0}

Fetch == [pc         : {"idle", "league", "match", "detail", "stream",
                        "decompress", "publish", "done"},
          mode       : Modes,
          todo       : Seq(Leagues),  \* leagues still to ask for
          found      : SUBSET Found,  \* eligible matches discovered so far
          queue      : Seq(Found),    \* matches still to handle
          results    : Seq([match : Matches,
                            status : {"DOWNLOADED", "UNCHANGED", "SKIPPED", "FAILED"}]),
          failed     : Seq(Leagues),  \* discovery_failures
          states     : Seq({"active", "expired", "inactive", "unavailable"}),
          attempt    : Nat,           \* of the current request
          asked      : Nat,           \* auxiliary: OpenDota attempts of the run
          limited    : BOOLEAN,       \* rate limited: stop_fetch, stop_reason
          details    : Nat,           \* details_requested
          downloaded : Nat,
          data       : Bodies \cup {"none"},  \* in the temporary file
          exit       : {"none", "ok", "failed", "error", "aborted"}]

FetcherTypeOK ==
  /\ dest \in [Matches -> Bodies \cup {"absent", "empty"}]
  /\ fetch \in Fetch
  /\ runs \in 0 .. MaxRuns

Fresh(mode, leagues) ==
  [pc |-> "league", mode |-> mode, todo |-> leagues, found |-> {}, queue |-> <<>>,
   results |-> <<>>, failed |-> <<>>, states |-> <<>>, attempt |-> 1, asked |-> 0,
   limited |-> FALSE, details |-> 0, downloaded |-> 0, data |-> "none", exit |-> "none"]

FetcherInit ==
  /\ dest \in [Matches -> {"absent", "empty"}]
  /\ fetch = [Fresh("league", <<>>) EXCEPT !.pc = "idle"]
  /\ runs = 0
-----------------------------------------------------------------------------
(* _scan_league_matches.  Of several rows with one match id the first      *)
(* counts, whether or not it is eligible.                                  *)
CountedRows(l) ==
  {LeagueRows[l][i] : i \in
     {j \in DOMAIN LeagueRows[l] :
        /\ LeagueRows[l][j].match # 0
        /\ \A k \in 1 .. j - 1 : LeagueRows[l][k].match # LeagueRows[l][j].match}}

OwnRows(l) == {row \in CountedRows(l) : row.league \in {0, l} /\ row.start # 0}

Scan(l) ==
  {[match |-> row.match, league |-> l, start |-> row.start] :
     row \in {r \in OwnRows(l) : r.start \in Cutoff .. AsOf}}

LeagueState(l) ==
  CASE Scan(l) # {} -> "active"
    [] Scan(l) = {} /\ OwnRows(l) # {} /\ (\A row \in OwnRows(l) : row.start < Cutoff) -> "expired"
    [] OTHER -> "inactive"

(* A match listed by several leagues belongs to the latest listing.        *)
LaterListing(a, b) == a.start > b.start \/ (a.start = b.start /\ a.league > b.league)

Merged(found) ==
  {a \in found : \A b \in found : b.match = a.match => ~LaterListing(b, a)}

(* Newest first, except that all matches of one league go by their ids.    *)
Before(mode, a, b) ==
  IF mode = "all" THEN a.match > b.match
  ELSE a.start > b.start \/ (a.start = b.start /\ a.match > b.match)

Ordered(mode, found) ==
  [k \in 1 .. Cardinality(found) |->
     CHOOSE c \in found : Cardinality({d \in found : Before(mode, d, c)}) = k - 1]

Attempts(mode) == IF mode \in {"all", "status"} THEN MaxAttempts ELSE 1
-----------------------------------------------------------------------------
(* The last attempt of a request: what follows counts it.                  *)
Asked == [fetch EXCEPT !.asked = @ + 1, !.attempt = 1]

(* _fetch_opendota_json: a transient failure, a rate limit included, is    *)
(* tried again while attempts are left.                                    *)
Retry ==
  /\ fetch.pc \in {"league", "detail"}
  /\ fetch.attempt < Attempts(fetch.mode)
  /\ fetch' = [fetch EXCEPT !.asked = @ + 1, !.attempt = @ + 1]
  /\ UNCHANGED <<dest, runs>>

(* The next league, or the matches of all that answered.                   *)
LeagueDone(f) ==
  IF f.todo # <<>> THEN f
  ELSE IF f.mode = "status"
    THEN [f EXCEPT !.pc = "done", !.found = {},
            !.exit = IF \E i \in DOMAIN f.states : f.states[i] = "unavailable"
                       THEN "failed" ELSE "ok"]
    ELSE [f EXCEPT !.pc = "match", !.queue = Ordered(f.mode, f.found)]

(* The allowlist may be empty: then the run has nothing to ask.            *)
Begin(mode, leagues) ==
  /\ fetch.pc \in {"idle", "done"}
  /\ runs < MaxRuns
  /\ fetch' = LeagueDone(Fresh(mode, leagues))
  /\ runs' = runs + 1
  /\ UNCHANGED dest

(* Mutant: a league that is listed twice keeps its first candidates.       *)
LeagueAnswersFirstWins ==
  LET l == Head(fetch.todo)
      known == {c.match : c \in fetch.found}
  IN  /\ fetch.pc = "league"
      /\ fetch' = LeagueDone([Asked EXCEPT
           !.todo = Tail(@),
           !.found = @ \cup {c \in Scan(l) : c.match \notin known},
           !.states = Append(@, LeagueState(l))])
      /\ UNCHANGED <<dest, runs>>

LeagueAnswers ==
  LET l == Head(fetch.todo)
  IN  /\ fetch.pc = "league"
      /\ fetch' = LeagueDone([Asked EXCEPT
           !.todo = Tail(@),
           !.found = Merged(@ \cup Scan(l)),
           !.states = Append(@, LeagueState(l))])
      /\ UNCHANGED <<dest, runs>>

(* The request fails for good or the answer is not a list of matches.  A   *)
(* run for one league raises.                                              *)
LeagueFails ==
  /\ fetch.pc = "league"
  /\ fetch' = IF fetch.mode = "league"
                THEN [Asked EXCEPT !.pc = "done", !.exit = "error"]
                ELSE LeagueDone([Asked EXCEPT
                       !.todo = Tail(@),
                       !.failed = Append(@, Head(fetch.todo)),
                       !.states = Append(@, "unavailable")])
  /\ UNCHANGED <<dest, runs>>

(* Mutant: the other leagues are asked after a rate limit.                 *)
LeagueRateLimitedGoesOn ==
  /\ fetch.pc = "league"
  /\ fetch.attempt = Attempts(fetch.mode)
  /\ fetch' = IF fetch.mode = "league"
                THEN [Asked EXCEPT !.pc = "done", !.exit = "error"]
                ELSE LeagueDone([Asked EXCEPT
                       !.limited = TRUE,
                       !.todo = Tail(@),
                       !.failed = Append(@, Head(fetch.todo)),
                       !.states = Append(@, "unavailable")])
  /\ UNCHANGED <<dest, runs>>

(* 429 on the last attempt: no further league is asked; the status command *)
(* reports the remaining ones as unavailable.                              *)
LeagueRateLimited ==
  /\ fetch.pc = "league"
  /\ fetch.attempt = Attempts(fetch.mode)
  /\ fetch' = IF fetch.mode = "league"
                THEN [Asked EXCEPT !.pc = "done", !.exit = "error"]
                ELSE LeagueDone([Asked EXCEPT
                       !.limited = TRUE,
                       !.todo = <<>>,
                       !.failed = Append(@, Head(fetch.todo)),
                       !.states = @ \o [i \in DOMAIN fetch.todo |-> "unavailable"]])
  /\ UNCHANGED <<dest, runs>>
-----------------------------------------------------------------------------
Current == Head(fetch.queue)

Stops ==
  \/ fetch.limited
  \/ fetch.queue = <<>>
  \/ fetch.details >= MaxDetails
  \/ fetch.mode # "all" /\ fetch.downloaded >= Count

(* Append the result of the current match.                                 *)
Recorded(f, status) ==
  [f EXCEPT !.pc = "match", !.data = "none", !.queue = Tail(@),
            !.results = Append(@, [match |-> Current.match, status |-> status])]

HandleMatch ==
  /\ fetch.pc = "match"
  /\ ~Stops
  /\ \/ fetch' = Recorded(fetch, "FAILED")  \* destination_check_failed
     \/ fetch' = IF dest[Current.match] \notin {"absent", "empty"}
                   THEN Recorded(fetch, "UNCHANGED")
                   ELSE [fetch EXCEPT !.pc = "detail", !.details = @ + 1]
  /\ UNCHANGED <<dest, runs>>

(* A detail with, or without, a usable replay_url.                         *)
DetailAnswers ==
  /\ fetch.pc = "detail"
  /\ \/ fetch' = [Asked EXCEPT !.pc = "stream"]
     \/ fetch' = Recorded(Asked, "SKIPPED")
  /\ UNCHANGED <<dest, runs>>

DetailFails ==
  /\ fetch.pc = "detail"
  /\ fetch' = Recorded(Asked, "FAILED")
  /\ UNCHANGED <<dest, runs>>

DetailRateLimited ==
  /\ fetch.pc = "detail"
  /\ fetch.attempt = Attempts(fetch.mode)
  /\ fetch' = [Recorded(Asked, "FAILED") EXCEPT !.limited = TRUE]
  /\ UNCHANGED <<dest, runs>>

(* _download_compressed: a body shorter than its announced length fails;   *)
(* without an announced length it goes unnoticed here.                     *)
Stream ==
  /\ fetch.pc = "stream"
  /\ \E body \in Bodies, announced \in BOOLEAN :
       fetch' = IF body = "cut" /\ announced
                  THEN Recorded(fetch, "FAILED")
                  ELSE [fetch EXCEPT !.pc = "decompress", !.data = body]
  /\ UNCHANGED <<dest, runs>>

(* Mutant: the end of the compressed stream is not awaited.                *)
DecompressUpToEnd ==
  /\ fetch.pc = "decompress"
  /\ fetch' = IF fetch.data \in {"whole", "cut"}
                THEN [fetch EXCEPT !.pc = "publish"]
                ELSE Recorded(fetch, "FAILED")
  /\ UNCHANGED <<dest, runs>>

(* A truncated stream, an unknown compression and an empty result fail.    *)
Decompress ==
  /\ fetch.pc = "decompress"
  /\ fetch' = IF fetch.data = "whole"
                THEN [fetch EXCEPT !.pc = "publish"]
                ELSE Recorded(fetch, "FAILED")
  /\ UNCHANGED <<dest, runs>>

(* os.replace: the destination is the decompressed file or what it was.    *)
Publish ==
  /\ fetch.pc = "publish"
  /\ dest' = [dest EXCEPT ![Current.match] = fetch.data]
  /\ fetch' = [Recorded(fetch, "DOWNLOADED") EXCEPT !.downloaded = @ + 1]
  /\ UNCHANGED runs

(* A time limit, an HTTP error or a file operation ends the download.      *)
DownloadFails ==
  /\ fetch.pc \in {"stream", "decompress", "publish"}
  /\ fetch' = Recorded(fetch, "FAILED")
  /\ UNCHANGED <<dest, runs>>

(* Mutant: the exit status looks at the replays only.                      *)
FinishByResults ==
  /\ fetch.pc = "match"
  /\ Stops
  /\ fetch' = [fetch EXCEPT !.pc = "done",
       !.exit = IF \E i \in DOMAIN fetch.results : fetch.results[i].status = "FAILED"
                  THEN "failed" ELSE "ok"]
  /\ UNCHANGED <<dest, runs>>

Finish ==
  /\ fetch.pc = "match"
  /\ Stops
  /\ fetch' = [fetch EXCEPT !.pc = "done",
       !.exit = IF \/ fetch.failed # <<>>
                   \/ \E i \in DOMAIN fetch.results : fetch.results[i].status = "FAILED"
                  THEN "failed" ELSE "ok"]
  /\ UNCHANGED <<dest, runs>>

(* The process is killed or interrupted, or an exception that no handler   *)
(* names leaves it: an HTTPException other than IncompleteRead, or any of  *)
(* them while a replay streams.                                            *)
Abort ==
  /\ fetch.pc \notin {"idle", "done"}
  /\ fetch' = [fetch EXCEPT !.pc = "done", !.data = "none", !.exit = "aborted"]
  /\ UNCHANGED <<dest, runs>>

FetchStep ==
  \/ Retry
  \/ LeagueAnswers
  \/ LeagueFails
  \/ LeagueRateLimited
  \/ HandleMatch
  \/ DetailAnswers
  \/ DetailFails
  \/ DetailRateLimited
  \/ Stream
  \/ Decompress
  \/ Publish
  \/ DownloadFails
  \/ Finish

FetcherNext ==
  \/ \E mode \in {"league", "all", "status"}, l \in Leagues : Begin(mode, <<l>>)
  \/ \E mode \in {"aggregate", "status"} : Begin(mode, Allowlist)
  \/ FetchStep
  \/ Abort

FetcherSpec == FetcherInit /\ [][FetcherNext]_fetcherVars
-----------------------------------------------------------------------------
(* A replay file that is not empty holds a whole replay, whatever a server *)
(* sent and wherever a run was cut off: later commands skip it for good.   *)
PublishedWhole == \A m \in Matches : dest[m] \in {"absent", "empty", "whole"}

(* The limits of the command hold over all leagues together, and bound the *)
(* load on OpenDota with every retry counted.                              *)
WithinBudget ==
  /\ fetch.details <= MaxDetails
  /\ fetch.mode # "all" => fetch.downloaded <= Count
  /\ fetch.asked <= Attempts(fetch.mode) * (Len(Allowlist) + MaxDetails)

(* After a rate limit the run asks OpenDota nothing more.                  *)
RateLimitStops ==
  [][fetch.limited /\ fetch'.limited => fetch'.asked = fetch.asked]_fetcherVars

Handled == {fetch.results[i].match : i \in DOMAIN fetch.results}

Eligible == UNION {Scan(l) : l \in Leagues}

LatestStart(m) == Max({c.start : c \in {d \in Eligible : d.match = m}})

(* When every league answered, a run over the allowlist handles matches    *)
(* from the newest down, each once and none skipped, also when leagues     *)
(* list the same match with different start times.                         *)
NewestFirst ==
  (fetch.mode = "aggregate" /\ fetch.failed = <<>> /\ fetch.pc \notin {"league", "idle"}
     /\ (fetch.pc = "done" => fetch.exit # "aborted"))
  => /\ Cardinality(Handled) = Len(fetch.results)
     /\ \A m \in Handled, n \in {c.match : c \in Eligible} \ Handled :
          \/ LatestStart(m) > LatestStart(n)
          \/ LatestStart(m) = LatestStart(n) /\ m > n

(* With the types: the limits hold over all leagues and are spent on the   *)
(* newest matches (ReplayFetcher.fetch).                                   *)
NewestWithinBudget == FetcherTypeOK /\ WithinBudget /\ NewestFirst

(* A run that reports no failure and was not stopped by its limits leaves  *)
(* every eligible match of its leagues on disk, or without a replay.       *)
OkMeansFetched ==
  LET mine == IF fetch.mode = "aggregate" THEN Eligible ELSE fetch.found
  IN  (/\ fetch.exit = "ok" /\ fetch.mode # "status"
       /\ fetch.details < MaxDetails
       /\ fetch.mode = "all" \/ fetch.downloaded < Count)
      => \A c \in mine :
           \/ dest[c.match] = "whole"
           \/ \E i \in DOMAIN fetch.results :
                fetch.results[i] = [match |-> c.match, status |-> "SKIPPED"]
=============================================================================
