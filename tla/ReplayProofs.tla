---------------------------- MODULE ReplayProofs ----------------------------
(***************************************************************************)
(* The replay tools, for any exports, directories, workers and limits: the *)
(* download runs of ReplayFetcher, then the pipeline that turns exports    *)
(* into trajectories, datasets, training sets and models (ReplayPipeline). *)
(***************************************************************************)
EXTENDS ReplayFetcher, ReplayPipeline, DataLemmas

(***************************************************************************)
(* Download runs.  What a run may publish: the program counter and the     *)
(* temporary file of the run are all that matters for it.                  *)
(***************************************************************************)

PublishInv ==
  /\ {"pc", "data"} \subseteq DOMAIN fetch
  /\ fetch.pc = "publish" => fetch.data = "whole"
  /\ dest \in [Matches -> {"absent", "empty", "whole"}]

(* The bookkeeping around a step never makes it ready to publish.          *)
LEMMA RecordedRests ==
  ASSUME NEW f, NEW status, {"pc", "data"} \subseteq DOMAIN f
  PROVE  /\ {"pc", "data"} \subseteq DOMAIN Recorded(f, status)
         /\ Recorded(f, status).pc = "match"
  BY DEF Recorded

LEMMA LeagueDoneRests ==
  ASSUME NEW f, {"pc", "data"} \subseteq DOMAIN f, f.pc # "publish"
  PROVE  /\ {"pc", "data"} \subseteq DOMAIN LeagueDone(f)
         /\ LeagueDone(f).pc # "publish"
  BY DEF LeagueDone

LEMMA AskedRests ==
  ASSUME PublishInv
  PROVE  /\ {"pc", "data"} \subseteq DOMAIN Asked
         /\ Asked.pc = fetch.pc
  BY DEF PublishInv, Asked

LEMMA InitPublishes == FetcherInit => PublishInv
  BY DEF FetcherInit, Fresh, PublishInv

(* Asking for leagues and details.                                         *)
LEMMA RequestsKeep ==
  ASSUME PublishInv,
         Retry \/ LeagueAnswers \/ LeagueFails \/ LeagueRateLimited
  PROVE  PublishInv'
<1>1. CASE Retry
  BY <1>1 DEF Retry, PublishInv
<1>2. CASE LeagueAnswers
  BY <1>2, AskedRests, LeagueDoneRests DEF LeagueAnswers, PublishInv
<1>3. CASE LeagueFails
  BY <1>3, AskedRests, LeagueDoneRests DEF LeagueFails, PublishInv
<1>4. CASE LeagueRateLimited
  BY <1>4, AskedRests, LeagueDoneRests DEF LeagueRateLimited, PublishInv
<1> QED  BY <1>1, <1>2, <1>3, <1>4

LEMMA DetailsKeep ==
  ASSUME PublishInv, DetailAnswers \/ DetailFails \/ DetailRateLimited
  PROVE  PublishInv'
<1>1. CASE DetailAnswers
  BY <1>1, AskedRests, RecordedRests DEF DetailAnswers, PublishInv
<1>2. CASE DetailFails
  BY <1>2, AskedRests, RecordedRests DEF DetailFails, PublishInv
<1>3. CASE DetailRateLimited
  BY <1>3, AskedRests, RecordedRests DEF DetailRateLimited, PublishInv
<1> QED  BY <1>1, <1>2, <1>3

(* The download: only the decompression of a whole body leads to Publish.  *)
LEMMA DownloadKeeps ==
  ASSUME PublishInv,
         HandleMatch \/ Stream \/ Decompress \/ Publish \/ DownloadFails \/ Finish
  PROVE  PublishInv'
<1>1. CASE HandleMatch
  BY <1>1, RecordedRests DEF HandleMatch, PublishInv
<1>2. CASE Stream
  BY <1>2, RecordedRests DEF Stream, PublishInv
<1>3. CASE Decompress
  BY <1>3, RecordedRests DEF Decompress, PublishInv
<1>4. CASE Publish
  <2>1. fetch'.pc = "match" /\ {"pc", "data"} \subseteq DOMAIN fetch'
    BY <1>4, RecordedRests DEF Publish, PublishInv
  <2>2. dest' \in [Matches -> {"absent", "empty", "whole"}]
    BY <1>4 DEF Publish, PublishInv
  <2> QED  BY <2>1, <2>2 DEF PublishInv
<1>5. CASE DownloadFails
  BY <1>5, RecordedRests DEF DownloadFails, PublishInv
<1>6. CASE Finish
  BY <1>6 DEF Finish, PublishInv
<1> QED  BY <1>1, <1>2, <1>3, <1>4, <1>5, <1>6

LEMMA StepKeeps == PublishInv /\ [FetcherNext]_fetcherVars => PublishInv'
<1> SUFFICES ASSUME PublishInv, [FetcherNext]_fetcherVars PROVE PublishInv'
  OBVIOUS
<1>1. ASSUME NEW mode, NEW leagues, Begin(mode, leagues) PROVE PublishInv'
  BY <1>1, LeagueDoneRests DEF Begin, Fresh, PublishInv
<1>2. CASE FetchStep
  BY <1>2, RequestsKeep, DetailsKeep, DownloadKeeps DEF FetchStep
<1>3. CASE Abort
  BY <1>3 DEF Abort, PublishInv
<1>4. CASE UNCHANGED fetcherVars
  BY <1>4 DEF fetcherVars, PublishInv
<1> QED  BY <1>1, <1>2, <1>3, <1>4 DEF FetcherNext

(* Whatever the servers send and wherever a run is cut off, a replay file  *)
(* is absent, empty or a whole replay.                                     *)
THEOREM OnlyWholeReplays == FetcherSpec => []PublishedWhole
<1>1. PublishInv => PublishedWhole
  BY DEF PublishInv, PublishedWhole
<1> QED  BY InitPublishes, StepKeeps, <1>1, PTL DEF FetcherSpec
-----------------------------------------------------------------------------
(* A rate limit.  Once it was met the run only has to notice and finish.   *)
Fields == {"pc", "mode", "todo", "limited", "asked"}

LimitInv ==
  /\ Fields \subseteq DOMAIN fetch
  /\ fetch.limited \in BOOLEAN
  /\ fetch.limited => fetch.pc \in {"match", "done"}

LEMMA RecordedKeepsFields ==
  ASSUME NEW f, NEW status, Fields \subseteq DOMAIN f
  PROVE  LET g == Recorded(f, status)
         IN  /\ Fields \subseteq DOMAIN g
             /\ g.pc = "match"
             /\ g.limited = f.limited
             /\ g.asked = f.asked
  BY DEF Recorded, Fields

LEMMA LeagueDoneKeepsFields ==
  ASSUME NEW f, Fields \subseteq DOMAIN f
  PROVE  LET g == LeagueDone(f)
         IN  /\ Fields \subseteq DOMAIN g
             /\ g.limited = f.limited
             /\ f.todo = <<>> => g.pc \in {"match", "done"}
  BY DEF LeagueDone, Fields

LEMMA AskedKeepsFields ==
  ASSUME LimitInv
  PROVE  /\ Fields \subseteq DOMAIN Asked
         /\ Asked.limited = fetch.limited
         /\ Asked.pc = fetch.pc
  BY DEF LimitInv, Asked, Fields

LEMMA LimitInit == FetcherInit => LimitInv
  BY DEF FetcherInit, Fresh, LimitInv, Fields

(* No step of a limited run asks for anything.                             *)
LEMMA LimitStep ==
  ASSUME LimitInv, [FetcherNext]_fetcherVars
  PROVE  /\ LimitInv'
         /\ fetch.limited /\ fetch'.limited => fetch'.asked = fetch.asked
<1> DEFINE Goal == /\ LimitInv'
                   /\ fetch.limited /\ fetch'.limited => fetch'.asked = fetch.asked
<1>1. ASSUME NEW mode, NEW leagues, Begin(mode, leagues) PROVE Goal
  <2>1. /\ Fields \subseteq DOMAIN Fresh(mode, leagues)
        /\ Fresh(mode, leagues).limited = FALSE
    BY DEF Fresh, Fields
  <2> QED  BY <1>1, <2>1, LeagueDoneKeepsFields DEF Begin, LimitInv
<1>2. CASE Retry
  BY <1>2 DEF Retry, LimitInv, Fields
<1>3. CASE LeagueAnswers
  BY <1>3, AskedKeepsFields, LeagueDoneKeepsFields DEF LeagueAnswers, LimitInv, Fields
<1>4. CASE LeagueFails
  BY <1>4, AskedKeepsFields, LeagueDoneKeepsFields DEF LeagueFails, LimitInv, Fields
<1>5. CASE LeagueRateLimited
  BY <1>5, AskedKeepsFields, LeagueDoneKeepsFields DEF LeagueRateLimited, LimitInv, Fields
<1>6. CASE HandleMatch
  <2>1. ~fetch.limited
    BY <1>6 DEF HandleMatch, Stops
  <2>2. CASE \E status : fetch' = Recorded(fetch, status)
    <3>1. /\ Fields \subseteq DOMAIN fetch'
          /\ fetch'.pc = "match"
          /\ fetch'.limited = fetch.limited
      BY <2>2, RecordedKeepsFields DEF LimitInv
    <3> QED  BY <3>1, <2>1 DEF LimitInv
  <2>3. CASE fetch' = [fetch EXCEPT !.pc = "detail", !.details = @ + 1]
    <3>1. /\ Fields \subseteq DOMAIN fetch'
          /\ fetch'.limited = fetch.limited
      BY <2>3 DEF LimitInv, Fields
    <3> QED  BY <3>1, <2>1 DEF LimitInv
  <2> QED  BY <1>6, <2>2, <2>3 DEF HandleMatch
<1>7. CASE DetailAnswers
  BY <1>7, AskedKeepsFields, RecordedKeepsFields DEF DetailAnswers, LimitInv, Fields
<1>8. CASE DetailFails
  BY <1>8, AskedKeepsFields, RecordedKeepsFields DEF DetailFails, LimitInv, Fields
<1>9. CASE DetailRateLimited
  BY <1>9, AskedKeepsFields, RecordedKeepsFields DEF DetailRateLimited, LimitInv, Fields
<1>10. CASE Stream \/ Decompress \/ DownloadFails
  <2>1. ~fetch.limited
    BY <1>10 DEF Stream, Decompress, DownloadFails, LimitInv
  <2>2. CASE \E status : fetch' = Recorded(fetch, status)
    <3>1. /\ Fields \subseteq DOMAIN fetch'
          /\ fetch'.limited = fetch.limited
      BY <2>2, RecordedKeepsFields DEF LimitInv
    <3> QED  BY <3>1, <2>1 DEF LimitInv
  <2>3. CASE \E body : fetch' = [fetch EXCEPT !.pc = "decompress", !.data = body]
    <3>1. /\ Fields \subseteq DOMAIN fetch'
          /\ fetch'.limited = fetch.limited
      BY <2>3 DEF LimitInv, Fields
    <3> QED  BY <3>1, <2>1 DEF LimitInv
  <2>4. CASE fetch' = [fetch EXCEPT !.pc = "publish"]
    <3>1. /\ Fields \subseteq DOMAIN fetch'
          /\ fetch'.limited = fetch.limited
      BY <2>4 DEF LimitInv, Fields
    <3> QED  BY <3>1, <2>1 DEF LimitInv
  <2> QED  BY <1>10, <2>2, <2>3, <2>4 DEF Stream, Decompress, DownloadFails
<1>11. CASE Publish
  BY <1>11, RecordedKeepsFields DEF Publish, LimitInv, Fields
<1>12. CASE Finish \/ Abort
  BY <1>12 DEF Finish, Abort, LimitInv, Fields
<1>13. CASE UNCHANGED fetcherVars
  BY <1>13 DEF fetcherVars, LimitInv
<1> QED
  BY <1>1, <1>2, <1>3, <1>4, <1>5, <1>6, <1>7, <1>8, <1>9, <1>10, <1>11, <1>12, <1>13
     DEF FetcherNext, FetchStep

(* After a rate limit a run asks OpenDota nothing more, in every mode and  *)
(* whatever is left to do.                                                 *)
THEOREM RateLimitsAreFinal == FetcherSpec => RateLimitStops
<1>1. LimitInv /\ [FetcherNext]_fetcherVars => LimitInv'
  BY LimitStep
<1>2. LimitInv /\ [FetcherNext]_fetcherVars
      => [fetch.limited /\ fetch'.limited => fetch'.asked = fetch.asked]_fetcherVars
  BY LimitStep
<1> QED  BY LimitInit, <1>1, <1>2, PTL DEF FetcherSpec, RateLimitStops
-----------------------------------------------------------------------------
(* The budget.  Each request has a number of attempts.  What is spent is    *)
(* compared with the leagues and details that the run has behind it.        *)
BudgetFields == {"pc", "mode", "todo", "attempt", "asked", "details", "downloaded"}
Downloading == {"detail", "stream", "decompress", "publish"}

(* What holds of a run whatever it does next.                               *)
Thrifty(f) ==
  /\ BudgetFields \subseteq DOMAIN f
  /\ f.attempt \in 1 .. Attempts(f.mode)
  /\ f.todo \in Seq(Leagues)
  /\ f.asked \in Nat /\ f.details \in 0 .. MaxDetails /\ f.downloaded \in Nat
  /\ f.mode # "all" => f.downloaded <= Count

(* All attempts of so many requests cover what was asked.                   *)
Paid(f, requests) == f.asked <= Attempts(f.mode) * requests

(* With a request under way its earlier attempts are spent as well.         *)
Paying(f, requests) == f.asked < Attempts(f.mode) * requests + f.attempt

InBudget(f) ==
  /\ Thrifty(f)
  /\ f.mode # "all" /\ f.pc \in Downloading => f.downloaded < Count
  /\ f.pc = "league" =>
       /\ f.details = 0
       /\ Len(f.todo) \in 1 .. Len(Allowlist)
       /\ Paying(f, Len(Allowlist) - Len(f.todo))
  /\ f.pc = "detail" => f.details > 0 /\ Paying(f, Len(Allowlist) + f.details - 1)
  /\ f.pc \notin {"league", "detail"} => Paid(f, Len(Allowlist) + f.details)

BudgetInv == InBudget(fetch)

LEMMA AllowlistLength == Len(Allowlist) \in Nat /\ Allowlist \in Seq(Leagues)
<1>1. Allowlist \in Seq(Nat \ {0})
  BY AllowlistIsLeagues
<1> QED  BY <1>1 DEF Leagues

LEMMA AttemptsArePositive == \A mode : Attempts(mode) \in Nat \ {0}
  BY LimitsArePositive DEF Attempts

LEMMA MoreRequests ==
  ASSUME NEW a \in Nat, NEW x \in Nat, NEW y \in Nat, x <= y
  PROVE  a * x \in Nat /\ a * y \in Nat /\ a * x <= a * y
<1>1. PICK d \in Nat : y = x + d
  <2>1. y - x \in Nat /\ y = x + (y - x)
    OBVIOUS
  <2> QED  BY <2>1
<1>2. a * y = a * x + a * d /\ a * d \in Nat /\ a * x \in Nat
  BY <1>1
<1> QED  BY <1>1, <1>2

LEMMA OneMoreRequest ==
  ASSUME NEW a \in Nat, NEW x \in Nat
  PROVE  a * (x + 1) = a * x + a
  OBVIOUS

(* A run that is within a smaller budget is within a larger one.            *)
LEMMA PaidGrows ==
  ASSUME NEW f, Thrifty(f), NEW x \in Nat, NEW y \in Nat, x <= y, Paid(f, x)
  PROVE  Paid(f, y)
  BY MoreRequests, AttemptsArePositive DEF Paid, Thrifty

(* The last attempt of a request is within the budget of that request.      *)
LEMMA PayingIsPaid ==
  ASSUME NEW f, Thrifty(f), NEW x \in Nat, Paying(f, x)
  PROVE  f.asked + 1 <= Attempts(f.mode) * (x + 1) /\ Paid(f, x + 1)
<1>1. Attempts(f.mode) \in Nat /\ f.attempt <= Attempts(f.mode) /\ f.attempt \in Nat
  BY AttemptsArePositive DEF Thrifty
<1>2. Attempts(f.mode) * (x + 1) = Attempts(f.mode) * x + Attempts(f.mode)
  BY <1>1, OneMoreRequest
<1>3. Attempts(f.mode) * x \in Nat /\ f.asked \in Nat
  BY <1>1, MoreRequests DEF Thrifty
<1> QED  BY <1>1, <1>2, <1>3 DEF Paying, Paid

(* Between two requests what is paid is what a first attempt may use.       *)
LEMMA PaidIsPaying ==
  ASSUME NEW f, Thrifty(f), NEW x \in Nat, Paid(f, x)
  PROVE  Paying(f, x)
<1>1. Attempts(f.mode) * x \in Nat
  BY AttemptsArePositive, MoreRequests
<1> QED  BY <1>1 DEF Paid, Paying, Thrifty

LEMMA AnyRunIsPaid ==
  ASSUME NEW f, InBudget(f)
  PROVE  Paid(f, Len(Allowlist) + f.details)
<1>1. Len(Allowlist) \in Nat /\ f.details \in Nat /\ f.asked \in Nat
  BY AllowlistLength, LimitsArePositive DEF InBudget, Thrifty
<1>0. Thrifty(f) /\ Attempts(f.mode) \in Nat
  BY AttemptsArePositive DEF InBudget
<1>2. CASE f.pc = "league"
  <2>1. /\ f.details = 0 /\ Len(f.todo) \in 1 .. Len(Allowlist)
        /\ Paying(f, Len(Allowlist) - Len(f.todo))
    BY <1>2 DEF InBudget
  <2>2. PICK x \in Nat : x = Len(Allowlist) - Len(f.todo)
    <3>1. Len(Allowlist) - Len(f.todo) \in Nat
      BY <2>1, <1>1
    <3> QED  BY <3>1
  <2>3. Paid(f, x + 1)
    BY <2>1, <2>2, <1>0, PayingIsPaid
  <2>4. x + 1 \in Nat /\ x + 1 <= Len(Allowlist) + f.details
    BY <2>1, <2>2, <1>1
  <2> QED  BY <2>3, <2>4, <1>0, <1>1, PaidGrows
<1>3. CASE f.pc = "detail"
  <2>1. f.details > 0 /\ Paying(f, Len(Allowlist) + f.details - 1)
    BY <1>3 DEF InBudget
  <2>2. PICK x \in Nat : x = Len(Allowlist) + f.details - 1
    BY <2>1, <1>1
  <2>3. Paid(f, x + 1) /\ x + 1 = Len(Allowlist) + f.details
    BY <2>1, <2>2, <1>0, <1>1, PayingIsPaid
  <2> QED  BY <2>3
<1> QED  BY <1>2, <1>3 DEF InBudget

(* Answering the last attempt of a request.                                 *)
LEMMA AskedIsPaid ==
  ASSUME BudgetInv, fetch.pc \in {"league", "detail"}
  PROVE  /\ Thrifty(Asked)
         /\ Asked.pc = fetch.pc /\ Asked.mode = fetch.mode /\ Asked.todo = fetch.todo
         /\ Asked.details = fetch.details /\ Asked.downloaded = fetch.downloaded
         /\ fetch.pc = "league" => Paid(Asked, Len(Allowlist) - Len(fetch.todo) + 1)
         /\ fetch.pc = "detail" => Paid(Asked, Len(Allowlist) + fetch.details)
<1>1. /\ Asked.pc = fetch.pc /\ Asked.mode = fetch.mode /\ Asked.todo = fetch.todo
      /\ Asked.details = fetch.details /\ Asked.downloaded = fetch.downloaded
      /\ Asked.asked = fetch.asked + 1 /\ Asked.attempt = 1
      /\ BudgetFields \subseteq DOMAIN Asked
  BY DEF BudgetInv, InBudget, Thrifty, Asked, BudgetFields
<1>2. Thrifty(Asked)
  BY <1>1, AttemptsArePositive DEF BudgetInv, InBudget, Thrifty
<1>3. Len(Allowlist) \in Nat /\ fetch.details \in Nat /\ Thrifty(fetch)
  BY AllowlistLength, LimitsArePositive DEF BudgetInv, InBudget, Thrifty
<1>4. ASSUME fetch.pc = "league"
      PROVE  Paid(Asked, Len(Allowlist) - Len(fetch.todo) + 1)
  <2>1. /\ Len(fetch.todo) \in 1 .. Len(Allowlist)
        /\ Paying(fetch, Len(Allowlist) - Len(fetch.todo))
    BY <1>4 DEF BudgetInv, InBudget
  <2>2. Len(Allowlist) - Len(fetch.todo) \in Nat
    BY <2>1, <1>3
  <2> QED  BY <2>1, <2>2, <1>1, <1>3, PayingIsPaid DEF Paid
<1>5. ASSUME fetch.pc = "detail"
      PROVE  Paid(Asked, Len(Allowlist) + fetch.details)
  <2>1. fetch.details > 0 /\ Paying(fetch, Len(Allowlist) + fetch.details - 1)
    BY <1>5 DEF BudgetInv, InBudget
  <2> DEFINE x == Len(Allowlist) + fetch.details - 1
  <2>2. x \in Nat /\ x + 1 = Len(Allowlist) + fetch.details
    BY <2>1, <1>3
  <2>3. fetch.asked + 1 <= Attempts(fetch.mode) * (x + 1)
    BY <2>1, <2>2, <1>3, PayingIsPaid
  <2> QED  BY <2>2, <2>3, <1>1 DEF Paid
<1> QED  BY <1>1, <1>2, <1>4, <1>5

(* After a league: the next one, or everything that was asked is paid for.  *)
LEMMA LeagueDoneInBudget ==
  ASSUME NEW f, Thrifty(f), f.pc = "league", f.details = 0,
         Len(f.todo) \in 0 .. Len(Allowlist), Paid(f, Len(Allowlist) - Len(f.todo))
  PROVE  InBudget(LeagueDone(f))
<1>1. Len(Allowlist) \in Nat /\ f.todo \in Seq(Leagues)
  BY AllowlistLength DEF Thrifty
<1>2. CASE f.todo # <<>>
  <2>1. LeagueDone(f) = f
    BY <1>2 DEF LeagueDone
  <2>2. Len(f.todo) \in 1 .. Len(Allowlist) /\ Len(Allowlist) - Len(f.todo) \in Nat
    BY <1>1, <1>2
  <2>3. Paying(f, Len(Allowlist) - Len(f.todo))
    BY <2>2, PaidIsPaying
  <2> QED  BY <2>1, <2>2, <2>3 DEF InBudget, Downloading
<1>3. CASE f.todo = <<>>
  <2> DEFINE g == LeagueDone(f)
  <2>1. /\ BudgetFields \subseteq DOMAIN g
        /\ g.pc \in {"done", "match"} /\ g.mode = f.mode /\ g.todo = f.todo
        /\ g.attempt = f.attempt /\ g.asked = f.asked /\ g.details = f.details
        /\ g.downloaded = f.downloaded
    BY <1>3 DEF LeagueDone, Thrifty, BudgetFields
  <2>2. Thrifty(g)
    BY <2>1 DEF Thrifty
  <2>3. Len(Allowlist) - Len(f.todo) = Len(Allowlist) + g.details
    BY <1>1, <1>3, <2>1
  <2>4. Paid(g, Len(Allowlist) + g.details)
    BY <2>1, <2>3 DEF Paid
  <2> QED  BY <2>1, <2>2, <2>4 DEF InBudget, Downloading
<1> QED  BY <1>2, <1>3

(* After a match: its result changes nothing that was spent.                *)
LEMMA RecordedInBudget ==
  ASSUME NEW f, NEW status, Thrifty(f), Paid(f, Len(Allowlist) + f.details)
  PROVE  /\ InBudget(Recorded(f, status))
         /\ Recorded(f, status).mode = f.mode
         /\ Recorded(f, status).downloaded = f.downloaded
<1> DEFINE g == Recorded(f, status)
<1>1. /\ BudgetFields \subseteq DOMAIN g
      /\ g.pc = "match" /\ g.mode = f.mode /\ g.todo = f.todo
      /\ g.attempt = f.attempt /\ g.asked = f.asked /\ g.details = f.details
      /\ g.downloaded = f.downloaded
  BY DEF Recorded, Thrifty, BudgetFields
<1>2. Thrifty(g) /\ Paid(g, Len(Allowlist) + g.details)
  BY <1>1 DEF Thrifty, Paid
<1> QED  BY <1>1, <1>2 DEF InBudget, Downloading

-----------------------------------------------------------------------------
LEMMA BudgetInit == FetcherInit => BudgetInv
<1> SUFFICES ASSUME FetcherInit PROVE BudgetInv
  OBVIOUS
<1>1. /\ BudgetFields \subseteq DOMAIN fetch
      /\ fetch.pc = "idle" /\ fetch.mode = "league" /\ fetch.todo = <<>>
      /\ fetch.attempt = 1 /\ fetch.asked = 0 /\ fetch.details = 0 /\ fetch.downloaded = 0
  BY DEF FetcherInit, Fresh, BudgetFields
<1>2. Thrifty(fetch)
  BY <1>1, AttemptsArePositive, LimitsArePositive, CountInRange DEF Thrifty
<1>3. Paid(fetch, Len(Allowlist))
  BY <1>1, AllowlistLength, AttemptsArePositive, MoreRequests DEF Paid
<1> QED  BY <1>1, <1>2, <1>3, AllowlistLength DEF BudgetInv, InBudget, Downloading

(* A run over one league, or over the whole allowlist.                      *)
LEMMA BeginInBudget ==
  ASSUME NEW mode, NEW leagues \in Seq(Leagues), Len(leagues) <= Len(Allowlist),
         Begin(mode, leagues)
  PROVE  BudgetInv'
<1> DEFINE f == Fresh(mode, leagues)
<1>1. /\ BudgetFields \subseteq DOMAIN f
      /\ f.pc = "league" /\ f.mode = mode /\ f.todo = leagues
      /\ f.attempt = 1 /\ f.asked = 0 /\ f.details = 0 /\ f.downloaded = 0
  BY DEF Fresh, BudgetFields
<1>2. Thrifty(f)
  BY <1>1, AttemptsArePositive, LimitsArePositive, CountInRange DEF Thrifty
<1>3. PICK x \in Nat : x = Len(Allowlist) - Len(leagues)
  BY AllowlistLength
<1>4. Paid(f, x)
  BY <1>1, AttemptsArePositive, MoreRequests DEF Paid
<1>5. InBudget(LeagueDone(f))
  BY <1>1, <1>2, <1>3, <1>4, AllowlistLength, LeagueDoneInBudget
<1> QED  BY <1>5 DEF Begin, BudgetInv

(* The answer to a league's request, or that it failed for good, takes the  *)
(* league, and after a rate limit all leagues, off the list.                *)
LEMMA TakesLeagueOff ==
  ASSUME BudgetInv, fetch.pc = "league", NEW f,
         BudgetFields \subseteq DOMAIN f,
         \A x \in BudgetFields \ {"todo"} : f[x] = Asked[x],
         f.todo \in {Tail(fetch.todo), <<>>}
  PROVE  InBudget(LeagueDone(f))
<1>1. /\ Len(Allowlist) \in Nat /\ Len(fetch.todo) \in 1 .. Len(Allowlist)
      /\ fetch.todo \in Seq(Leagues) /\ fetch.details = 0
  BY AllowlistLength DEF BudgetInv, InBudget, Thrifty
<1>2. /\ Thrifty(Asked) /\ Asked.pc = "league" /\ Asked.details = 0
      /\ Paid(Asked, Len(Allowlist) - Len(fetch.todo) + 1)
  BY AskedIsPaid, <1>1
<1>3. /\ f.pc = "league" /\ f.mode = Asked.mode /\ f.details = 0
      /\ f.attempt = Asked.attempt /\ f.asked = Asked.asked
      /\ f.downloaded = Asked.downloaded
  BY <1>2 DEF BudgetFields
<1>4. /\ f.todo \in Seq(Leagues)
      /\ Len(f.todo) \in Nat /\ Len(f.todo) <= Len(fetch.todo) - 1
  <2>1. fetch.todo # <<>> /\ Len(fetch.todo) \in Nat /\ Len(fetch.todo) >= 1
    BY <1>1
  <2>2. /\ Tail(fetch.todo) \in Seq(Leagues)
        /\ Len(Tail(fetch.todo)) = Len(fetch.todo) - 1
    BY <1>1, <2>1
  <2>3. CASE f.todo = Tail(fetch.todo)
    BY <2>1, <2>2, <2>3
  <2>4. CASE f.todo = <<>>
    <3>1. f.todo \in Seq(Leagues) /\ Len(f.todo) = 0
      BY <2>4
    <3> QED  BY <2>1, <3>1
  <2> QED  BY <2>3, <2>4
<1>5. Thrifty(f)
  BY <1>2, <1>3, <1>4 DEF Thrifty
<1>6. Paid(f, Len(Allowlist) - Len(fetch.todo) + 1)
  BY <1>2, <1>3 DEF Paid
<1>7. /\ Len(Allowlist) - Len(fetch.todo) + 1 \in Nat
      /\ Len(Allowlist) - Len(f.todo) \in Nat
      /\ Len(Allowlist) - Len(fetch.todo) + 1 <= Len(Allowlist) - Len(f.todo)
      /\ Len(f.todo) \in 0 .. Len(Allowlist)
  <2>1. Len(fetch.todo) \in Nat /\ Len(fetch.todo) <= Len(Allowlist)
    BY <1>1
  <2>2. ASSUME NEW a \in Nat, NEW b \in Nat, NEW c \in Nat, b <= a, c <= b - 1
        PROVE  a - b + 1 \in Nat /\ a - c \in Nat /\ a - b + 1 <= a - c /\ c \in 0 .. a
    BY <2>2
  <2> QED  BY <2>1, <2>2, <1>1, <1>4
<1>8. Paid(f, Len(Allowlist) - Len(f.todo))
  BY <1>5, <1>6, <1>7, PaidGrows
<1> QED  BY <1>3, <1>5, <1>7, <1>8, LeagueDoneInBudget

(* A run that stops asking stays within what it had.                        *)
LEMMA RestsInBudget ==
  ASSUME BudgetInv, NEW f, BudgetFields \subseteq DOMAIN f,
         \A x \in BudgetFields \ {"pc"} : f[x] = fetch[x],
         f.pc \notin {"league", "detail"},
         f.pc \in Downloading => fetch.pc \in Downloading
  PROVE  InBudget(f)
<1>1. /\ f.mode = fetch.mode /\ f.todo = fetch.todo /\ f.attempt = fetch.attempt
      /\ f.asked = fetch.asked /\ f.details = fetch.details
      /\ f.downloaded = fetch.downloaded
  BY DEF BudgetFields
<1>2. Thrifty(f)
  BY <1>1 DEF BudgetInv, InBudget, Thrifty
<1>3. Paid(fetch, Len(Allowlist) + fetch.details)
  BY AnyRunIsPaid DEF BudgetInv
<1>4. Paid(f, Len(Allowlist) + f.details)
  BY <1>1, <1>3 DEF Paid
<1>5. f.mode # "all" /\ f.pc \in Downloading => f.downloaded < Count
  BY <1>1 DEF BudgetInv, InBudget
<1> QED  BY <1>2, <1>4, <1>5 DEF InBudget

LEMMA LeagueKeepsBudget ==
  ASSUME BudgetInv, LeagueAnswers \/ LeagueFails \/ LeagueRateLimited
  PROVE  BudgetInv'
<1>1. fetch.pc = "league" /\ BudgetFields \subseteq DOMAIN fetch
  BY DEF LeagueAnswers, LeagueFails, LeagueRateLimited, BudgetInv, InBudget, Thrifty
<1>2. BudgetFields \subseteq DOMAIN Asked
  BY AskedIsPaid, <1>1 DEF Thrifty
<1>3. CASE fetch' = [Asked EXCEPT !.pc = "done", !.exit = "error"]
  <2>1. fetch.details = 0 /\ Len(Allowlist) \in Nat /\ Len(fetch.todo) \in 1 .. Len(Allowlist)
    BY <1>1, AllowlistLength DEF BudgetInv, InBudget
  <2>2. /\ Thrifty(Asked) /\ Asked.details = 0
        /\ Paid(Asked, Len(Allowlist) - Len(fetch.todo) + 1)
    BY AskedIsPaid, <1>1, <2>1
  <2>3. /\ Len(Allowlist) - Len(fetch.todo) + 1 \in Nat
        /\ Len(Allowlist) - Len(fetch.todo) + 1 <= Len(Allowlist)
    BY <2>1
  <2>4. Paid(Asked, Len(Allowlist))
    BY <2>1, <2>2, <2>3, PaidGrows
  <2>5. /\ BudgetFields \subseteq DOMAIN fetch' /\ fetch'.pc = "done"
        /\ fetch'.mode = Asked.mode /\ fetch'.todo = Asked.todo
        /\ fetch'.attempt = Asked.attempt /\ fetch'.asked = Asked.asked
        /\ fetch'.details = 0 /\ fetch'.downloaded = Asked.downloaded
    BY <1>2, <1>3, <2>2 DEF BudgetFields
  <2>6. Thrifty(fetch')
    BY <2>2, <2>5 DEF Thrifty
  <2>7. Paid(fetch', Len(Allowlist))
    BY <2>4, <2>5 DEF Paid
  <2> QED  BY <2>1, <2>5, <2>6, <2>7 DEF BudgetInv, InBudget, Downloading
<1>4. CASE LeagueAnswers
  <2> DEFINE f == [Asked EXCEPT
           !.todo = Tail(@),
           !.found = Merged(@ \cup Scan(Head(fetch.todo))),
           !.states = Append(@, LeagueState(Head(fetch.todo)))]
  <2>1. /\ BudgetFields \subseteq DOMAIN f
        /\ \A x \in BudgetFields \ {"todo"} : f[x] = Asked[x]
        /\ f.todo = Tail(Asked.todo) /\ Asked.todo = fetch.todo
    BY <1>1, <1>2, AskedIsPaid DEF BudgetFields
  <2>2. fetch' = LeagueDone(f)
    BY <1>4 DEF LeagueAnswers
  <2> HIDE DEF f
  <2> QED  BY <1>1, <2>1, <2>2, TakesLeagueOff DEF BudgetInv
<1>5. CASE LeagueFails /\ fetch.mode # "league"
  <2> DEFINE f == [Asked EXCEPT
           !.todo = Tail(@),
           !.failed = Append(@, Head(fetch.todo)),
           !.states = Append(@, "unavailable")]
  <2>1. /\ BudgetFields \subseteq DOMAIN f
        /\ \A x \in BudgetFields \ {"todo"} : f[x] = Asked[x]
        /\ f.todo = Tail(Asked.todo) /\ Asked.todo = fetch.todo
    BY <1>1, <1>2, AskedIsPaid DEF BudgetFields
  <2>2. fetch' = LeagueDone(f)
    BY <1>5 DEF LeagueFails
  <2> HIDE DEF f
  <2> QED  BY <1>1, <2>1, <2>2, TakesLeagueOff DEF BudgetInv
<1>6. CASE LeagueRateLimited /\ fetch.mode # "league"
  <2> DEFINE f == [Asked EXCEPT
           !.limited = TRUE,
           !.todo = <<>>,
           !.failed = Append(@, Head(fetch.todo)),
           !.states = @ \o [i \in DOMAIN fetch.todo |-> "unavailable"]]
  <2>1. /\ BudgetFields \subseteq DOMAIN f
        /\ \A x \in BudgetFields \ {"todo"} : f[x] = Asked[x]
        /\ f.todo = <<>>
    BY <1>2 DEF BudgetFields
  <2>2. fetch' = LeagueDone(f)
    BY <1>6 DEF LeagueRateLimited
  <2> HIDE DEF f
  <2> QED  BY <1>1, <2>1, <2>2, TakesLeagueOff DEF BudgetInv
<1> QED  BY <1>3, <1>4, <1>5, <1>6 DEF LeagueFails, LeagueRateLimited

LEMMA RetryKeepsBudget ==
  ASSUME BudgetInv, Retry
  PROVE  BudgetInv'
<1>1. /\ BudgetFields \subseteq DOMAIN fetch' /\ fetch'.pc = fetch.pc
      /\ fetch'.mode = fetch.mode /\ fetch'.todo = fetch.todo
      /\ fetch'.attempt = fetch.attempt + 1 /\ fetch'.asked = fetch.asked + 1
      /\ fetch'.details = fetch.details /\ fetch'.downloaded = fetch.downloaded
      /\ fetch.attempt < Attempts(fetch.mode) /\ fetch.pc \in {"league", "detail"}
  BY DEF Retry, BudgetInv, InBudget, Thrifty, BudgetFields
<1>2. Thrifty(fetch) /\ Attempts(fetch.mode) \in Nat
  BY AttemptsArePositive DEF BudgetInv, InBudget
<1>3. Thrifty(fetch')
  BY <1>1, <1>2 DEF Thrifty
<1>4. ASSUME NEW x \in Nat, Paying(fetch, x) PROVE Paying(fetch', x)
  <2>1. Attempts(fetch.mode) * x \in Nat
    BY <1>2, MoreRequests
  <2> QED  BY <1>1, <1>2, <1>4, <2>1 DEF Paying, Thrifty
<1>5. ASSUME fetch.pc = "league"
      PROVE  Paying(fetch', Len(Allowlist) - Len(fetch.todo))
  <2>1. Len(Allowlist) - Len(fetch.todo) \in Nat
    BY <1>5, AllowlistLength DEF BudgetInv, InBudget
  <2> QED  BY <1>4, <1>5, <2>1 DEF BudgetInv, InBudget
<1>6. ASSUME fetch.pc = "detail"
      PROVE  Paying(fetch', Len(Allowlist) + fetch.details - 1)
  <2>1. Len(Allowlist) + fetch.details - 1 \in Nat
    BY <1>6, AllowlistLength, LimitsArePositive DEF BudgetInv, InBudget, Thrifty
  <2> QED  BY <1>4, <1>6, <2>1 DEF BudgetInv, InBudget
<1> QED  BY <1>1, <1>3, <1>5, <1>6 DEF BudgetInv, InBudget

LEMMA RecordedKeepsBudget ==
  ASSUME BudgetInv, NEW status, fetch' = Recorded(fetch, status)
  PROVE  BudgetInv'
<1>1. Thrifty(fetch) /\ Paid(fetch, Len(Allowlist) + fetch.details)
  BY AnyRunIsPaid DEF BudgetInv, InBudget
<1> QED  BY <1>1, RecordedInBudget DEF BudgetInv

(* A detail is only asked for within both limits.                           *)
LEMMA HandleKeepsBudget ==
  ASSUME BudgetInv, HandleMatch
  PROVE  BudgetInv'
<1>1. CASE fetch' = [fetch EXCEPT !.pc = "detail", !.details = @ + 1]
  <2>1. /\ fetch.pc = "match" /\ fetch.details < MaxDetails
        /\ fetch.mode # "all" => fetch.downloaded < Count
    <3>1. /\ fetch.pc = "match" /\ ~(fetch.details >= MaxDetails)
          /\ fetch.mode # "all" => ~(fetch.downloaded >= Count)
      BY DEF HandleMatch, Stops
    <3>2. fetch.details \in Nat /\ fetch.downloaded \in Nat
      BY LimitsArePositive DEF BudgetInv, InBudget, Thrifty
    <3> QED  BY <3>1, <3>2, CountInRange, LimitsArePositive
  <2>2. Thrifty(fetch) /\ Paid(fetch, Len(Allowlist) + fetch.details)
    BY AnyRunIsPaid DEF BudgetInv, InBudget
  <2>3. /\ BudgetFields \subseteq DOMAIN fetch' /\ fetch'.pc = "detail"
        /\ fetch'.mode = fetch.mode /\ fetch'.todo = fetch.todo
        /\ fetch'.attempt = fetch.attempt /\ fetch'.asked = fetch.asked
        /\ fetch'.details = fetch.details + 1 /\ fetch'.downloaded = fetch.downloaded
    BY <1>1 DEF BudgetInv, InBudget, Thrifty, BudgetFields
  <2>4. Thrifty(fetch')
    BY <2>1, <2>2, <2>3, LimitsArePositive DEF Thrifty
  <2>5. PICK x \in Nat : x = Len(Allowlist) + fetch.details
    BY <2>2, AllowlistLength, LimitsArePositive DEF Thrifty
  <2>6. Paying(fetch, x)
    BY <2>2, <2>5, PaidIsPaying
  <2>7. Len(Allowlist) + fetch'.details - 1 = x /\ fetch'.details > 0
    BY <2>2, <2>3, <2>5, AllowlistLength, LimitsArePositive DEF Thrifty
  <2>8. Paying(fetch', x)
    BY <2>3, <2>6 DEF Paying
  <2> QED  BY <2>1, <2>3, <2>4, <2>7, <2>8 DEF BudgetInv, InBudget
<1> QED  BY <1>1, RecordedKeepsBudget DEF HandleMatch

LEMMA DetailKeepsBudget ==
  ASSUME BudgetInv, DetailAnswers \/ DetailFails \/ DetailRateLimited
  PROVE  BudgetInv'
<1>1. fetch.pc = "detail"
  BY DEF DetailAnswers, DetailFails, DetailRateLimited
<1>2. /\ Thrifty(Asked) /\ Paid(Asked, Len(Allowlist) + Asked.details)
      /\ Asked.mode = fetch.mode /\ Asked.downloaded = fetch.downloaded
  BY <1>1, AskedIsPaid
<1>3. CASE \E status : fetch' = Recorded(Asked, status)
  BY <1>2, <1>3, RecordedInBudget DEF BudgetInv
<1>4. CASE fetch' = [Asked EXCEPT !.pc = "stream"]
  <2>1. /\ BudgetFields \subseteq DOMAIN fetch' /\ fetch'.pc = "stream"
        /\ fetch'.mode = Asked.mode /\ fetch'.todo = Asked.todo
        /\ fetch'.attempt = Asked.attempt /\ fetch'.asked = Asked.asked
        /\ fetch'.details = Asked.details /\ fetch'.downloaded = Asked.downloaded
    BY <1>2, <1>4 DEF Thrifty, BudgetFields
  <2>2. Thrifty(fetch') /\ Paid(fetch', Len(Allowlist) + fetch'.details)
    BY <1>2, <2>1 DEF Thrifty, Paid
  <2>3. fetch.mode # "all" => fetch.downloaded < Count
    BY <1>1 DEF BudgetInv, InBudget, Downloading
  <2> QED  BY <1>2, <2>1, <2>2, <2>3 DEF BudgetInv, InBudget
<1>5. CASE fetch' = [Recorded(Asked, "FAILED") EXCEPT !.limited = TRUE]
  <2> DEFINE g == Recorded(Asked, "FAILED")
  <2>1. InBudget(g) /\ g.pc = "match"
    BY <1>2, RecordedInBudget DEF Recorded, Thrifty, BudgetFields
  <2> HIDE DEF g
  <2>2. /\ BudgetFields \subseteq DOMAIN fetch' /\ fetch'.pc = "match"
        /\ fetch'.mode = g.mode /\ fetch'.todo = g.todo
        /\ fetch'.attempt = g.attempt /\ fetch'.asked = g.asked
        /\ fetch'.details = g.details /\ fetch'.downloaded = g.downloaded
    <3>1. BudgetFields \subseteq DOMAIN g /\ fetch' = [g EXCEPT !.limited = TRUE]
      BY <1>5, <2>1 DEF InBudget, Thrifty, g
    <3> QED  BY <2>1, <3>1 DEF BudgetFields
  <2>3. Thrifty(fetch') /\ Paid(fetch', Len(Allowlist) + fetch'.details)
    BY <2>1, <2>2 DEF InBudget, Thrifty, Paid
  <2> QED  BY <2>2, <2>3 DEF BudgetInv, InBudget, Downloading
<1> QED  BY <1>3, <1>4, <1>5 DEF DetailAnswers, DetailFails, DetailRateLimited

(* Only Publish counts a download, and it was started below the limit.      *)
LEMMA DownloadKeepsBudget ==
  ASSUME BudgetInv, Stream \/ Decompress \/ Publish \/ DownloadFails
  PROVE  BudgetInv'
<1>0. BudgetFields \subseteq DOMAIN fetch
  BY DEF BudgetInv, InBudget, Thrifty
<1>1. CASE \E status : fetch' = Recorded(fetch, status)
  BY <1>1, RecordedKeepsBudget
<1>2. CASE Stream /\ \E body : fetch' = [fetch EXCEPT !.pc = "decompress", !.data = body]
  <2>1. /\ BudgetFields \subseteq DOMAIN fetch' /\ fetch'.pc = "decompress"
        /\ \A x \in BudgetFields \ {"pc"} : fetch'[x] = fetch[x]
    BY <1>0, <1>2 DEF BudgetFields
  <2>2. fetch.pc \in Downloading
    BY <1>2 DEF Stream, Downloading
  <2> QED  BY <2>1, <2>2, RestsInBudget DEF BudgetInv
<1>3. CASE Decompress /\ fetch' = [fetch EXCEPT !.pc = "publish"]
  <2>1. /\ BudgetFields \subseteq DOMAIN fetch' /\ fetch'.pc = "publish"
        /\ \A x \in BudgetFields \ {"pc"} : fetch'[x] = fetch[x]
    BY <1>0, <1>3 DEF BudgetFields
  <2>2. fetch.pc \in Downloading
    BY <1>3 DEF Decompress, Downloading
  <2> QED  BY <2>1, <2>2, RestsInBudget DEF BudgetInv
<1>4. CASE Publish
  <2> DEFINE g == Recorded(fetch, "DOWNLOADED")
  <2>1. /\ Thrifty(fetch) /\ Paid(fetch, Len(Allowlist) + fetch.details)
        /\ fetch.mode # "all" => fetch.downloaded < Count
    BY <1>4, AnyRunIsPaid DEF BudgetInv, InBudget, Publish, Downloading
  <2>2. /\ InBudget(g) /\ g.pc = "match" /\ g.mode = fetch.mode
        /\ g.downloaded = fetch.downloaded
    BY <2>1, RecordedInBudget, <1>0 DEF Recorded, BudgetFields
  <2>3. fetch' = [g EXCEPT !.downloaded = @ + 1]
    BY <1>4 DEF Publish
  <2> HIDE DEF g
  <2>4. /\ BudgetFields \subseteq DOMAIN fetch' /\ fetch'.pc = "match"
        /\ fetch'.mode = g.mode /\ fetch'.todo = g.todo
        /\ fetch'.attempt = g.attempt /\ fetch'.asked = g.asked
        /\ fetch'.details = g.details /\ fetch'.downloaded = g.downloaded + 1
    BY <2>2, <2>3 DEF InBudget, Thrifty, BudgetFields
  <2>5. Thrifty(fetch') /\ Paid(fetch', Len(Allowlist) + fetch'.details)
    BY <2>1, <2>2, <2>4, CountInRange DEF InBudget, Thrifty, Paid
  <2> QED  BY <2>4, <2>5 DEF BudgetInv, InBudget, Downloading
<1> QED  BY <1>1, <1>2, <1>3, <1>4 DEF Stream, Decompress, DownloadFails

LEMMA EndKeepsBudget ==
  ASSUME BudgetInv, Finish \/ Abort
  PROVE  BudgetInv'
<1>1. /\ BudgetFields \subseteq DOMAIN fetch' /\ fetch'.pc = "done"
      /\ \A x \in BudgetFields \ {"pc"} : fetch'[x] = fetch[x]
  BY DEF Finish, Abort, BudgetInv, InBudget, Thrifty, BudgetFields
<1> QED  BY <1>1, RestsInBudget DEF BudgetInv, Downloading

LEMMA BudgetStep == BudgetInv /\ [FetcherNext]_fetcherVars => BudgetInv'
<1> SUFFICES ASSUME BudgetInv, [FetcherNext]_fetcherVars PROVE BudgetInv'
  OBVIOUS
<1>1. ASSUME NEW mode, NEW l \in Leagues, Begin(mode, <<l>>) PROVE BudgetInv'
  <2>1. Len(Allowlist) >= 1
    BY <1>1, AllowlistLength DEF Leagues
  <2>2. <<l>> \in Seq(Leagues) /\ Len(<<l>>) = 1
    BY <1>1
  <2> QED  BY <1>1, <2>1, <2>2, BeginInBudget
<1>2. ASSUME NEW mode, Begin(mode, Allowlist) PROVE BudgetInv'
  BY <1>2, AllowlistLength, BeginInBudget
<1>3. CASE FetchStep
  BY <1>3, RetryKeepsBudget, LeagueKeepsBudget, HandleKeepsBudget, DetailKeepsBudget,
     DownloadKeepsBudget, EndKeepsBudget DEF FetchStep
<1>4. CASE Abort
  BY <1>4, EndKeepsBudget
<1>5. CASE UNCHANGED fetcherVars
  BY <1>5 DEF fetcherVars, BudgetInv
<1> QED  BY <1>1, <1>2, <1>3, <1>4, <1>5 DEF FetcherNext

(* The limits hold at every moment of every run, with every attempt         *)
(* counted: OpenDota is asked at most MaxAttempts times for each league and *)
(* for each of MaxDetails matches.                                          *)
THEOREM BudgetsAreKept == FetcherSpec => []WithinBudget
<1>1. ASSUME BudgetInv PROVE WithinBudget
  <2>1. Thrifty(fetch) /\ Paid(fetch, Len(Allowlist) + fetch.details)
    BY <1>1, AnyRunIsPaid DEF BudgetInv, InBudget
  <2>2. Paid(fetch, Len(Allowlist) + MaxDetails)
    <3>1. /\ Len(Allowlist) + fetch.details \in Nat
          /\ Len(Allowlist) + MaxDetails \in Nat
          /\ Len(Allowlist) + fetch.details <= Len(Allowlist) + MaxDetails
      BY <2>1, AllowlistLength, LimitsArePositive DEF Thrifty
    <3> QED  BY <2>1, <3>1, PaidGrows
  <2> QED  BY <2>1, <2>2, LimitsArePositive DEF WithinBudget, Thrifty, Paid
<1> QED  BY BudgetInit, BudgetStep, <1>1, PTL DEF FetcherSpec
-----------------------------------------------------------------------------
(* What the discovery of one league gives, and of all.                     *)
LEMMA ScanFacts ==
  ASSUME NEW l \in Leagues
  PROVE  /\ IsFiniteSet(Scan(l))
         /\ Scan(l) \subseteq Found
         /\ \A c \in Scan(l) : c.match \in Matches
<1> DEFINE rows == LeagueRows[l]
           found(row) == [match |-> row.match, league |-> l, start |-> row.start]
           g == [i \in DOMAIN rows |-> found(rows[i])]
<1>1. rows \in Seq(Row)
  BY RowsAreRows
<1>2. DOMAIN rows = 1 .. Len(rows) /\ Len(rows) \in Nat /\ \A i \in DOMAIN rows : rows[i] \in Row
  BY <1>1
<1>3. CountedRows(l) \subseteq {rows[i] : i \in DOMAIN rows} /\ \A row \in CountedRows(l) : row.match # 0
  BY DEF CountedRows
<1>4. Scan(l) = {found(row) : row \in {r \in OwnRows(l) : r.start \in Cutoff .. AsOf}}
  BY DEF Scan
<1>5. OwnRows(l) \subseteq CountedRows(l)
  BY DEF OwnRows
<1> HIDE DEF rows
<1>6. Scan(l) \subseteq {g[i] : i \in DOMAIN g}
  <2>1. ASSUME NEW c \in Scan(l) PROVE \E i \in DOMAIN g : c = g[i]
    <3>1. PICK row \in CountedRows(l) : c = found(row)
      BY <1>4, <1>5
    <3>2. PICK i \in DOMAIN rows : row = rows[i]
      BY <1>3
    <3> QED BY <3>1, <3>2
  <2> QED BY <2>1
<1>7. IsFiniteSet(DOMAIN g)
  <2>1. DOMAIN g = DOMAIN rows
    OBVIOUS
  <2> QED BY <2>1, <1>2, FS_Interval
<1>8. IsFiniteSet(Scan(l))
  <2> HIDE DEF g
  <2>1. IsFiniteSet({g[i] : i \in DOMAIN g})
    BY <1>7, ImageIsFinite
  <2> QED BY <1>6, <2>1, FS_Subset
<1>9. ASSUME NEW c \in Scan(l) PROVE c \in Found /\ c.match \in Matches
  <2>1. PICK row \in CountedRows(l) : c = found(row)
    BY <1>4, <1>5
  <2>2. PICK i \in DOMAIN rows : row = rows[i]
    BY <1>3
  <2>3. row \in Row /\ row.match # 0 /\ row \in RowsOf(l)
    BY <1>2, <1>3, <2>2 DEF RowsOf, rows
  <2>4. c \in Found
    BY <2>1, <2>3 DEF Found, Row
  <2>5. row.match \in {r.match : r \in RowsOf(l)}
    BY <2>3
  <2>6. row.match \in Matches
    BY <2>3, <2>5 DEF Matches
  <2> QED BY <2>1, <2>4, <2>6
<1> QED BY <1>8, <1>9

LEMMA LeaguesAreNat == Leagues \subseteq Nat
  BY AllowlistIsLeagues DEF Leagues

LEMMA EligibleFacts ==
  /\ Eligible \subseteq Found
  /\ \A c \in Eligible : c.match \in Matches
  BY ScanFacts DEF Eligible

FoundIsTyped(X) == \A c \in X : c.match \in Nat /\ c.league \in Nat /\ c.start \in Nat
                     /\ c = [match |-> c.match, league |-> c.league, start |-> c.start]

LEMMA FoundTypes == ASSUME NEW X, X \subseteq Found PROVE FoundIsTyped(X)
<1>1. ASSUME NEW c \in Found
      PROVE  /\ c.match \in Nat /\ c.league \in Nat /\ c.start \in Nat
             /\ c = [match |-> c.match, league |-> c.league, start |-> c.start]
  <2>1. c.league \in Leagues
    BY DEF Found
  <2> QED BY <2>1, LeaguesAreNat DEF Found
<1> QED BY <1>1 DEF FoundIsTyped

(* One listing for each match.                                             *)
OnePerMatch(X) == \A a, b \in X : a.match = b.match => a = b

(* For each listing of Y one of its match in X that is not earlier.        *)
Outlists(X, Y) == \A c \in Y : \E d \in X : d.match = c.match /\ ~LaterListing(c, d)

LEMMA MergedFacts ==
  ASSUME NEW X, X \subseteq Found, IsFiniteSet(X)
  PROVE  /\ Merged(X) \subseteq X
         /\ IsFiniteSet(Merged(X))
         /\ OnePerMatch(Merged(X))
         /\ Outlists(Merged(X), X)
<1>1. Merged(X) \subseteq X
  BY DEF Merged
<1>2. IsFiniteSet(Merged(X))
  BY <1>1, FS_Subset
<1>3. FoundIsTyped(X)
  BY FoundTypes
<1>4. OnePerMatch(Merged(X))
  <2> SUFFICES ASSUME NEW a \in Merged(X), NEW b \in Merged(X), a.match = b.match PROVE a = b
    BY DEF OnePerMatch
  <2>1. ~LaterListing(a, b) /\ ~LaterListing(b, a) /\ a \in X /\ b \in X
    BY DEF Merged
  <2>2. a.start = b.start /\ a.league = b.league
    BY <2>1, <1>3 DEF LaterListing, FoundIsTyped
  <2> QED BY <1>3, <2>1, <2>2 DEF FoundIsTyped
<1>5. ASSUME NEW c \in X PROVE \E d \in Merged(X) : d.match = c.match /\ ~LaterListing(c, d)
  <2> DEFINE S == {d \in X : d.match = c.match}
             R == {p \in S \X S : LaterListing(p[2], p[1])}
  <2>1. IsFiniteSet(S) /\ c \in S /\ S \subseteq X
    BY FS_Subset
  <2>2. TotalOrder(R, S)
    <3>1. \A x, y : <<x, y>> \in R <=> x \in S /\ y \in S /\ LaterListing(y, x)
      OBVIOUS
    <3>2. \A x \in S : ~LaterListing(x, x)
      BY <1>3 DEF LaterListing, FoundIsTyped
    <3>3. \A x, y, z \in S : LaterListing(y, x) /\ LaterListing(z, y) => LaterListing(z, x)
      BY <1>3 DEF LaterListing, FoundIsTyped
    <3>4. \A x, y \in S : x = y \/ LaterListing(y, x) \/ LaterListing(x, y)
      BY <1>3 DEF LaterListing, FoundIsTyped
    <3> HIDE DEF R, S
    <3> QED BY <3>1, <3>2, <3>3, <3>4 DEF TotalOrder
  <2>3. PICK m \in S : \A x \in S \ {m} : <<x, m>> \in R
    <3> HIDE DEF R, S
    <3> QED BY <2>1, <2>2, GreatestInOrder
  <2>4. \A x \in S : ~LaterListing(x, m)
    <3>1. \A x \in S \ {m} : LaterListing(m, x)
      BY <2>3
    <3> QED BY <1>3, <3>1 DEF LaterListing, FoundIsTyped
  <2>5. m \in Merged(X)
    BY <2>1, <2>4 DEF Merged
  <2> QED BY <2>4, <2>5
<1> QED BY <1>1, <1>2, <1>4, <1>5 DEF Outlists

(* What is later than something that is not earlier is not earlier.        *)
LEMMA OutlistsFurther ==
  ASSUME NEW X, NEW Y, NEW Z, X \subseteq Found, Y \subseteq Found, Z \subseteq Found,
         Outlists(X, Y), Outlists(Y, Z)
  PROVE  Outlists(X, Z)
<1> SUFFICES ASSUME NEW c \in Z PROVE \E d \in X : d.match = c.match /\ ~LaterListing(c, d)
  BY DEF Outlists
<1>1. PICK b \in Y : b.match = c.match /\ ~LaterListing(c, b)
  BY DEF Outlists
<1>2. PICK d \in X : d.match = b.match /\ ~LaterListing(b, d)
  BY DEF Outlists
<1>3. FoundIsTyped(X) /\ FoundIsTyped(Y) /\ FoundIsTyped(Z)
  BY FoundTypes
<1>4. ~LaterListing(c, d)
  BY <1>1, <1>2, <1>3 DEF LaterListing, FoundIsTyped
<1> QED BY <1>1, <1>2, <1>4

(* The queue lists what was found in its order.                            *)
QueueOrder(mode, X) == {p \in X \X X : Before(mode, p[1], p[2])}

LEMMA OrderedLists ==
  ASSUME NEW X, X \subseteq Found, IsFiniteSet(X), OnePerMatch(X), NEW mode
  PROVE  Lists(Ordered(mode, X), X, QueueOrder(mode, X)) /\ Cardinality(X) \in Nat
<1>1. FoundIsTyped(X)
  BY FoundTypes
<1>2. \A x, y : <<x, y>> \in QueueOrder(mode, X) <=> x \in X /\ y \in X /\ Before(mode, x, y)
  BY DEF QueueOrder
<1>3. TotalOrder(QueueOrder(mode, X), X)
  <2>1. \A x \in X : ~Before(mode, x, x)
    BY <1>1 DEF Before, FoundIsTyped
  <2>2. \A x, y, z \in X : Before(mode, x, y) /\ Before(mode, y, z) => Before(mode, x, z)
    BY <1>1 DEF Before, FoundIsTyped
  <2>3. \A x, y \in X : x = y \/ Before(mode, x, y) \/ Before(mode, y, x)
    BY <1>1 DEF Before, FoundIsTyped, OnePerMatch
  <2> QED BY <1>2, <2>1, <2>2, <2>3 DEF TotalOrder
<1>4. \A c \in X : {d \in X : Before(mode, d, c)} = {d \in X : <<d, c>> \in QueueOrder(mode, X)}
  BY <1>2
<1>5. Ordered(mode, X) = ByRank(X, QueueOrder(mode, X))
  <2> DEFINE f == ByRank(X, QueueOrder(mode, X))
  <2>1. Lists(f, X, QueueOrder(mode, X))
    BY <1>3, RankedList
  <2>2. \A k \in 1 .. Cardinality(X) :
          f[k] = CHOOSE c \in X : Cardinality({d \in X : Before(mode, d, c)}) = k - 1
    BY <1>4 DEF ByRank
  <2> HIDE DEF f
  <2>3. f = [k \in 1 .. Cardinality(X) |-> f[k]]
    BY <2>1 DEF Lists
  <2>4. Ordered(mode, X) = [k \in 1 .. Cardinality(X) |-> f[k]]
    BY <2>2 DEF Ordered
  <2> QED BY <2>3, <2>4 DEF f
<1> QED BY <1>3, <1>5, RankedList, FS_CardinalityType

(***************************************************************************)
(* A run: what it has found, what of that it has handled, and how it ended.*)
(***************************************************************************)
Handling == {"match", "detail", "stream", "decompress", "publish"}

(* The results and then the queue are the list of what was found.          *)
QueueOK(f) ==
  \E q :
    /\ Lists(q, f.found, QueueOrder(f.mode, f.found))
    /\ Len(f.results) + Len(f.queue) = Cardinality(f.found)
    /\ \A i \in 1 .. Len(f.results) : f.results[i].match = q[i].match
    /\ \A i \in 1 .. Len(f.queue) : f.queue[i] = q[Len(f.results) + i]

SomeFailed(f) == \E i \in DOMAIN f.results : f.results[i].status = "FAILED"

(* Every league is still to be asked, or its listings are found.           *)
Discovered(f) ==
  \A l \in Leagues : (\E i \in DOMAIN f.todo : f.todo[i] = l) \/ Outlists(f.found, Scan(l))

FoundOK(f) ==
  /\ f.found \subseteq Eligible
  /\ IsFiniteSet(f.found)
  /\ OnePerMatch(f.found)
  /\ f.mode = "aggregate" /\ f.failed = <<>> => Discovered(f)

StopsAt(f) ==
  \/ f.limited
  \/ f.queue = <<>>
  \/ f.details >= MaxDetails
  \/ f.mode # "all" /\ f.downloaded >= Count

StageFits(f) ==
  /\ f.pc = "league" => f.results = <<>>
  /\ f.pc \in Handling => f.todo = <<>> /\ QueueOK(f)
  /\ f.pc \in Downloading => f.queue # <<>>
  /\ f.limited => f.failed # <<>> \/ SomeFailed(f)

EndFits(f) ==
  /\ f.exit # "none" <=> f.pc = "done"
  /\ f.exit = "error" => f.mode = "league"
  /\ f.exit \in {"ok", "failed"} /\ f.mode # "status" => f.todo = <<>> /\ QueueOK(f)
  /\ f.exit = "ok" /\ f.mode # "status" => f.failed = <<>> /\ ~SomeFailed(f) /\ StopsAt(f)

(* What is reported as fetched is on disk.                                 *)
Kept(f, files) ==
  \A i \in DOMAIN f.results :
    f.results[i].status \in {"DOWNLOADED", "UNCHANGED"} => files[f.results[i].match] = "whole"

RunOK(f, files) ==
  f \in Fetch /\ FoundOK(f) /\ StageFits(f) /\ EndFits(f) /\ Kept(f, files)

RunInv == RunOK(fetch, dest) /\ runs \in 0 .. MaxRuns

(* A step of a run that only moves on.                                     *)
KeptFields == {"mode", "todo", "found", "queue", "results", "failed", "limited", "exit"}

LEMMA MovesOn ==
  ASSUME NEW f, NEW files, RunOK(f, files), NEW g \in Fetch,
         \A x \in KeptFields : g[x] = f[x],
         f.pc # "done",
         g.pc = f.pc \/ (f.pc \in Handling /\ g.pc \in Handling /\ f.queue # <<>>)
  PROVE  RunOK(g, files)
<1>1. /\ g.mode = f.mode /\ g.todo = f.todo /\ g.found = f.found /\ g.queue = f.queue
      /\ g.results = f.results /\ g.failed = f.failed /\ g.limited = f.limited /\ g.exit = f.exit
  BY DEF KeptFields
<1>2. FoundOK(g)
  BY <1>1 DEF RunOK, FoundOK, Discovered
<1>3. QueueOK(f) <=> QueueOK(g)
  BY <1>1 DEF QueueOK
<1>4. SomeFailed(f) <=> SomeFailed(g)
  BY <1>1 DEF SomeFailed
<1>5. StageFits(g)
  BY <1>1, <1>3, <1>4 DEF RunOK, StageFits, Handling, Downloading
<1>6. f.exit = "none"
  BY DEF RunOK, EndFits
<1>7. EndFits(g)
  BY <1>1, <1>6 DEF RunOK, EndFits, Handling
<1>8. Kept(g, files)
  BY <1>1 DEF RunOK, Kept
<1> QED BY <1>2, <1>5, <1>7, <1>8 DEF RunOK

LEMMA FilesGrow ==
  ASSUME NEW f, NEW A, NEW B, RunOK(f, A), \A m \in Matches : A[m] = "whole" => B[m] = "whole"
  PROVE  RunOK(f, B)
<1>1. ASSUME NEW i \in DOMAIN f.results PROVE f.results[i].match \in Matches
  <2> DEFINE Result == [match : Matches, status : {"DOWNLOADED", "UNCHANGED", "SKIPPED", "FAILED"}]
  <2>1. f.results \in Seq(Result)
    BY DEF RunOK, Fetch
  <2>2. f.results[i] \in Result
    <3> HIDE DEF Result
    <3> QED BY <2>1
  <2> QED BY <2>2
<1>2. Kept(f, B)
  BY <1>1 DEF RunOK, Kept
<1> QED BY <1>2 DEF RunOK

LEMMA OneAcross ==
  ASSUME NEW a \in Nat, NEW b \in Nat, b >= 1
  PROVE  (a + 1) + (b - 1) = a + b /\ a + 1 \in 1 .. (a + b) /\ \A i \in Nat : a + (i + 1) = (a + 1) + i
  OBVIOUS

LEMMA NextAcross ==
  ASSUME NEW a \in Nat, NEW b, b = a + 1, NEW i \in Nat
  PROVE  a + (i + 1) = b + i
<1>1. (a + 1) + i = a + (i + 1)
  OBVIOUS
<1> QED BY <1>1

LEMMA QueueHeads ==
  ASSUME NEW f, NEW files, RunOK(f, files), f.pc \in Handling, f.queue # <<>>
  PROVE  Head(f.queue) \in f.found /\ Head(f.queue).match \in Matches
<1>1. QueueOK(f) /\ f.found \subseteq Eligible
  BY DEF RunOK, StageFits, FoundOK
<1>2. PICK q :
        /\ Lists(q, f.found, QueueOrder(f.mode, f.found))
        /\ Len(f.results) + Len(f.queue) = Cardinality(f.found)
        /\ \A i \in 1 .. Len(f.queue) : f.queue[i] = q[Len(f.results) + i]
  BY <1>1 DEF QueueOK
<1>3. /\ f.results \in Seq([match : Matches, status : {"DOWNLOADED", "UNCHANGED", "SKIPPED", "FAILED"}])
      /\ f.queue \in Seq(Found)
  BY DEF RunOK, Fetch
<1>4. Len(f.results) \in Nat /\ Len(f.queue) \in Nat /\ Len(f.queue) >= 1
  BY <1>3
<1>5. Len(f.results) + 1 \in 1 .. Cardinality(f.found)
  BY <1>2, <1>4, OneAcross
<1>6. Head(f.queue) = q[Len(f.results) + 1]
  BY <1>2, <1>3, <1>4
<1>7. Head(f.queue) \in f.found
  BY <1>2, <1>5, <1>6 DEF Lists
<1> QED BY <1>1, <1>7, EligibleFacts

Statuses == {"DOWNLOADED", "UNCHANGED", "SKIPPED", "FAILED"}

LEMMA RecordedFits ==
  ASSUME NEW f, NEW files, RunOK(f, files), f.pc \in Handling, f.queue # <<>>,
         f.queue = fetch.queue, NEW status \in Statuses,
         status \in {"DOWNLOADED", "UNCHANGED"} => files[Current.match] = "whole"
  PROVE  /\ RunOK(Recorded(f, status), files)
         /\ Recorded(f, status).pc = "match"
         /\ status = "FAILED" => SomeFailed(Recorded(f, status))
<1> DEFINE g == Recorded(f, status)
           Result == [match : Matches, status : Statuses]
           r == [match |-> Current.match, status |-> status]
<1>1. /\ f \in Fetch /\ f.results \in Seq(Result) /\ f.queue \in Seq(Found)
      /\ f.mode \in Modes /\ f.limited \in BOOLEAN
  BY DEF RunOK, Fetch, Statuses
<1>2. Current = Head(f.queue) /\ Current \in f.found /\ r \in Result
  BY QueueHeads DEF Current
<1>3. g = [f EXCEPT !.pc = "match", !.data = "none", !.queue = Tail(f.queue),
                    !.results = Append(f.results, r)]
  BY <1>1 DEF Recorded, Fetch
<1>4. Append(f.results, r) \in Seq(Result) /\ Tail(f.queue) \in Seq(Found)
  BY <1>1, <1>2
<1> HIDE DEF r, Result
<1>5. g \in Fetch
  BY <1>1, <1>3, <1>4 DEF Fetch, Result, Statuses
<1>6. /\ g.pc = "match" /\ g.queue = Tail(f.queue) /\ g.results = Append(f.results, r)
      /\ g.mode = f.mode /\ g.todo = f.todo /\ g.found = f.found /\ g.failed = f.failed
      /\ g.limited = f.limited /\ g.exit = f.exit
  BY <1>1, <1>3 DEF Fetch
<1> HIDE DEF g
<1>7. FoundOK(g)
  BY <1>6 DEF RunOK, FoundOK, Discovered
<1>8. /\ Len(f.results) \in Nat /\ Len(f.queue) \in Nat /\ Len(f.queue) >= 1
      /\ Len(g.results) = Len(f.results) + 1 /\ Len(g.queue) = Len(f.queue) - 1
      /\ DOMAIN f.results = 1 .. Len(f.results) /\ DOMAIN g.results = 1 .. Len(g.results)
      /\ \A i \in 1 .. Len(f.results) : g.results[i] = f.results[i]
      /\ g.results[Len(f.results) + 1] = r
      /\ \A i \in 1 .. Len(g.queue) : g.queue[i] = f.queue[i + 1]
      /\ Head(f.queue) = f.queue[1]
  BY <1>1, <1>2, <1>6
<1>9. r.match = Current.match /\ r.status = status
  BY DEF r
<1>10. QueueOK(g)
  <2>1. QueueOK(f)
    BY DEF RunOK, StageFits
  <2>2. PICK q :
          /\ Lists(q, f.found, QueueOrder(f.mode, f.found))
          /\ Len(f.results) + Len(f.queue) = Cardinality(f.found)
          /\ \A i \in 1 .. Len(f.results) : f.results[i].match = q[i].match
          /\ \A i \in 1 .. Len(f.queue) : f.queue[i] = q[Len(f.results) + i]
    BY <2>1 DEF QueueOK
  <2>3. Len(g.results) + Len(g.queue) = Cardinality(g.found)
    BY <1>6, <1>8, <2>2, OneAcross
  <2>4. ASSUME NEW i \in 1 .. Len(g.results) PROVE g.results[i].match = q[i].match
    <3>1. CASE i \in 1 .. Len(f.results)
      BY <3>1, <1>8, <2>2
    <3>2. CASE i = Len(f.results) + 1
      <4>1. q[i] = f.queue[1]
        BY <3>2, <1>8, <2>2
      <4> QED BY <4>1, <3>2, <1>2, <1>8, <1>9
    <3> QED BY <3>1, <3>2, <1>8
  <2>5. ASSUME NEW i \in 1 .. Len(g.queue) PROVE g.queue[i] = q[Len(g.results) + i]
    <3>1. i + 1 \in 1 .. Len(f.queue) /\ g.queue[i] = f.queue[i + 1]
      BY <1>8
    <3>2. f.queue[i + 1] = q[Len(f.results) + (i + 1)]
      BY <3>1, <2>2
    <3>3. i \in Nat
      OBVIOUS
    <3>4. Len(f.results) + (i + 1) = Len(g.results) + i
      <4>1. Len(f.results) \in Nat /\ Len(g.results) = Len(f.results) + 1
        BY <1>8
      <4> QED BY <4>1, <3>3, NextAcross
    <3> QED BY <3>1, <3>2, <3>4
  <2> QED BY <1>6, <2>2, <2>3, <2>4, <2>5 DEF QueueOK
<1>11. SomeFailed(f) \/ status = "FAILED" => SomeFailed(g)
  BY <1>8, <1>9 DEF SomeFailed
<1>12. StageFits(g)
  BY <1>6, <1>10, <1>11 DEF RunOK, StageFits, Handling, Downloading
<1>13. EndFits(g)
  BY <1>6 DEF RunOK, EndFits, Handling
<1>14. Kept(g, files)
  <2>1. ASSUME NEW i \in DOMAIN g.results, g.results[i].status \in {"DOWNLOADED", "UNCHANGED"}
        PROVE  files[g.results[i].match] = "whole"
    <3>1. CASE i \in 1 .. Len(f.results)
      BY <2>1, <3>1, <1>8 DEF RunOK, Kept
    <3>2. CASE i = Len(f.results) + 1
      BY <2>1, <3>2, <1>8, <1>9
    <3> QED BY <3>1, <3>2, <1>8
  <2> QED BY <2>1 DEF Kept
<1> QED BY <1>5, <1>6, <1>7, <1>11, <1>12, <1>13, <1>14 DEF RunOK, g

(* A run that ends or asks for the next league.                            *)
LEMMA LeagueDoneFits ==
  ASSUME NEW g, NEW files, RunOK(g, files), g.pc = "league"
  PROVE  RunOK(LeagueDone(g), files)
<1>1. /\ g \in Fetch /\ g.exit = "none" /\ g.results = <<>> /\ FoundOK(g)
      /\ g.limited => g.failed # <<>> \/ SomeFailed(g)
  BY DEF RunOK, StageFits, EndFits
<1>2. CASE g.todo # <<>>
  BY <1>2 DEF LeagueDone
<1>3. CASE g.todo = <<>> /\ g.mode = "status"
  <2> DEFINE h == LeagueDone(g)
  <2>1. PICK exit \in {"ok", "failed"} : h = [g EXCEPT !.pc = "done", !.found = {}, !.exit = exit]
    BY <1>3 DEF LeagueDone
  <2> HIDE DEF h
  <2>2. h \in Fetch
    BY <1>1, <2>1 DEF Fetch
  <2>3. /\ h.pc = "done" /\ h.found = {} /\ h.exit = exit /\ h.mode = "status"
        /\ h.results = <<>> /\ h.limited = g.limited /\ h.failed = g.failed
    BY <1>1, <1>3, <2>1 DEF Fetch
  <2>4. FoundOK(h)
    BY <2>3, FS_EmptySet DEF FoundOK, OnePerMatch
  <2>5. StageFits(h)
    BY <1>1, <2>3 DEF StageFits, Handling, Downloading, SomeFailed
  <2>6. EndFits(h) /\ Kept(h, files)
    BY <2>3 DEF EndFits, Kept
  <2> QED BY <2>2, <2>4, <2>5, <2>6 DEF RunOK, h
<1>4. CASE g.todo = <<>> /\ g.mode # "status"
  <2> DEFINE h == LeagueDone(g)
             q == Ordered(g.mode, g.found)
  <2>1. h = [g EXCEPT !.pc = "match", !.queue = q]
    BY <1>4 DEF LeagueDone
  <2>2. g.found \subseteq Found /\ Lists(q, g.found, QueueOrder(g.mode, g.found)) /\ Cardinality(g.found) \in Nat
    BY <1>1, EligibleFacts, OrderedLists DEF FoundOK
  <2> HIDE DEF h, q
  <2>3. q \in Seq(Found) /\ Len(q) = Cardinality(g.found)
    <3>1. q \in [1 .. Cardinality(g.found) -> Found]
      BY <2>2 DEF Lists
    <3> QED BY <2>2, <3>1
  <2>4. h \in Fetch
    BY <1>1, <2>1, <2>3 DEF Fetch
  <2>5. /\ h.pc = "match" /\ h.queue = q /\ h.mode = g.mode /\ h.todo = <<>> /\ h.found = g.found
        /\ h.results = <<>> /\ h.limited = g.limited /\ h.failed = g.failed /\ h.exit = "none"
    BY <1>1, <1>4, <2>1 DEF Fetch
  <2>6. FoundOK(h)
    BY <1>1, <1>4, <2>5 DEF FoundOK, Discovered
  <2>7. QueueOK(h)
    <3>1. Len(h.results) = 0 /\ Len(h.queue) \in Nat
      BY <2>3, <2>5
    <3>2. Len(h.results) + Len(h.queue) = Cardinality(h.found)
      BY <3>1, <2>2, <2>3, <2>5
    <3>3. \A i \in 1 .. Len(h.queue) : h.queue[i] = q[Len(h.results) + i]
      BY <3>1, <2>5
    <3>4. \A i \in 1 .. Len(h.results) : h.results[i].match = q[i].match
      BY <3>1
    <3> QED BY <3>2, <3>3, <3>4, <2>2, <2>5 DEF QueueOK
  <2>8. StageFits(h)
    BY <1>1, <2>5, <2>7 DEF StageFits, Handling, Downloading, SomeFailed
  <2>9. EndFits(h) /\ Kept(h, files)
    BY <2>5 DEF EndFits, Kept
  <2> QED BY <2>4, <2>6, <2>8, <2>9 DEF RunOK, h
<1> QED BY <1>2, <1>3, <1>4

LEMMA FreshFits ==
  ASSUME NEW files, NEW mode \in Modes, NEW leagues \in Seq(Leagues),
         mode = "aggregate" => leagues = Allowlist
  PROVE  RunOK(Fresh(mode, leagues), files) /\ Fresh(mode, leagues).pc = "league"
<1> DEFINE f == Fresh(mode, leagues)
<1>1. f \in Fetch
  BY DEF Fresh, Fetch
<1>2. /\ f.pc = "league" /\ f.mode = mode /\ f.todo = leagues /\ f.found = {} /\ f.results = <<>>
      /\ f.failed = <<>> /\ f.limited = FALSE /\ f.exit = "none"
  BY DEF Fresh
<1> HIDE DEF f
<1>3. mode = "aggregate" => Discovered(f)
  BY <1>2 DEF Discovered, Leagues
<1>4. FoundOK(f)
  BY <1>2, <1>3, FS_EmptySet DEF FoundOK, OnePerMatch
<1>5. StageFits(f) /\ EndFits(f) /\ Kept(f, files)
  BY <1>2 DEF StageFits, EndFits, Kept, Handling, Downloading
<1> QED BY <1>1, <1>2, <1>4, <1>5 DEF RunOK, f

LEMMA BeginFits ==
  ASSUME RunInv, NEW mode \in Modes, NEW leagues \in Seq(Leagues),
         mode = "aggregate" => leagues = Allowlist, Begin(mode, leagues)
  PROVE  RunInv'
<1>1. fetch' = LeagueDone(Fresh(mode, leagues)) /\ dest' = dest /\ runs' = runs + 1 /\ runs < MaxRuns
  BY DEF Begin
<1>2. RunOK(LeagueDone(Fresh(mode, leagues)), dest)
  BY FreshFits, LeagueDoneFits
<1>3. runs' \in 0 .. MaxRuns
  BY <1>1, LimitsArePositive DEF RunInv
<1> QED BY <1>1, <1>2, <1>3 DEF RunInv

LEMMA AskedFits ==
  ASSUME RunInv, fetch.pc \in {"league", "detail"}
  PROVE  /\ RunOK(Asked, dest) /\ Asked \in Fetch
         /\ Asked.pc = fetch.pc
         /\ \A x \in KeptFields : Asked[x] = fetch[x]
<1>1. RunOK(fetch, dest) /\ fetch \in Fetch
  BY DEF RunInv, RunOK
<1>2. Asked \in Fetch
  <2>1. fetch.asked \in Nat /\ fetch.asked + 1 \in Nat
    BY <1>1 DEF Fetch
  <2>2. Asked = [fetch EXCEPT !.asked = fetch.asked + 1, !.attempt = 1]
    BY <1>1 DEF Asked, Fetch
  <2>3. \A n \in Nat : [fetch EXCEPT !.asked = n, !.attempt = 1] \in Fetch
    BY <1>1 DEF Fetch
  <2> QED BY <2>1, <2>2, <2>3
<1>3. Asked.pc = fetch.pc /\ \A x \in KeptFields : Asked[x] = fetch[x]
  BY <1>1 DEF Asked, Fetch, KeptFields
<1> QED BY <1>1, <1>2, <1>3, MovesOn

LEMMA LeagueFits ==
  ASSUME NEW g \in Fetch, NEW files, g.pc = "league", g.exit = "none", g.results = <<>>,
         FoundOK(g), g.limited => g.failed # <<>>
  PROVE  RunOK(LeagueDone(g), files)
<1>1. StageFits(g) /\ EndFits(g) /\ Kept(g, files)
  BY DEF StageFits, EndFits, Kept, Handling, Downloading
<1>2. RunOK(g, files)
  BY <1>1 DEF RunOK
<1> QED BY <1>2, LeagueDoneFits

(* What a run that asks for a league has.                                  *)
LEMMA AskingFacts ==
  ASSUME RunInv, BudgetInv, fetch.pc = "league"
  PROVE  /\ Asked \in Fetch /\ Asked.pc = "league"
         /\ Asked.mode = fetch.mode /\ Asked.todo = fetch.todo /\ Asked.found = fetch.found
         /\ Asked.failed = fetch.failed /\ Asked.limited = fetch.limited
         /\ Asked.results = <<>> /\ Asked.exit = "none"
         /\ Asked.todo \in Seq(Leagues) /\ Asked.todo # <<>> /\ Head(fetch.todo) \in Leagues
         /\ Asked.limited => Asked.failed # <<>>
         /\ FoundOK(Asked)
<1>1. /\ RunOK(Asked, dest) /\ Asked \in Fetch /\ Asked.pc = "league"
      /\ \A x \in KeptFields : Asked[x] = fetch[x]
  BY AskedFits
<1>2. /\ Asked.mode = fetch.mode /\ Asked.todo = fetch.todo /\ Asked.found = fetch.found
      /\ Asked.failed = fetch.failed /\ Asked.limited = fetch.limited
  BY <1>1 DEF KeptFields
<1>3. /\ Asked.results = <<>> /\ Asked.exit = "none" /\ FoundOK(Asked)
      /\ Asked.limited => Asked.failed # <<>>
  BY <1>1 DEF RunOK, StageFits, EndFits, SomeFailed
<1>4. Asked.todo \in Seq(Leagues)
  BY <1>1 DEF Fetch
<1>5. Len(fetch.todo) \in 1 .. Len(Allowlist)
  BY DEF BudgetInv, InBudget
<1>6. Asked.todo # <<>>
  BY <1>2, <1>4, <1>5, AllowlistLength
<1> QED BY <1>1, <1>2, <1>3, <1>4, <1>6

LEMMA StateOfLeague == \A l : LeagueState(l) \in {"active", "expired", "inactive", "unavailable"}
  BY DEF LeagueState

LEMMA AnswerFits ==
  ASSUME RunInv, BudgetInv, LeagueAnswers
  PROVE  RunInv'
<1> DEFINE l == Head(fetch.todo)
           X == Asked.found \cup Scan(l)
           g == [Asked EXCEPT !.todo = Tail(Asked.todo), !.found = Merged(X),
                              !.states = Append(Asked.states, LeagueState(l))]
<1>0. fetch.pc = "league"
  BY DEF LeagueAnswers
<1>1. /\ Asked \in Fetch /\ Asked.pc = "league"
      /\ Asked.mode = fetch.mode /\ Asked.todo = fetch.todo /\ Asked.found = fetch.found
      /\ Asked.failed = fetch.failed /\ Asked.limited = fetch.limited
      /\ Asked.results = <<>> /\ Asked.exit = "none"
      /\ Asked.todo \in Seq(Leagues) /\ Asked.todo # <<>> /\ l \in Leagues
      /\ Asked.limited => Asked.failed # <<>>
      /\ FoundOK(Asked)
  BY <1>0, AskingFacts
<1>2. fetch' = LeagueDone(g) /\ dest' = dest /\ runs' = runs
  <2>1. g = [Asked EXCEPT !.todo = Tail(@), !.found = Merged(@ \cup Scan(l)),
                          !.states = Append(@, LeagueState(l))]
    BY <1>1 DEF Fetch
  <2> HIDE DEF g
  <2> QED BY <2>1 DEF LeagueAnswers
<1>3. X \subseteq Eligible /\ X \subseteq Found /\ IsFiniteSet(X)
  <2>1. Asked.found \subseteq Eligible /\ IsFiniteSet(Asked.found)
    BY <1>1 DEF FoundOK
  <2>2. Scan(l) \subseteq Eligible /\ IsFiniteSet(Scan(l))
    BY <1>1, ScanFacts DEF Eligible
  <2>3. IsFiniteSet(X)
    BY <2>1, <2>2, FS_Union
  <2> QED BY <2>1, <2>2, <2>3, EligibleFacts
<1>4. /\ Merged(X) \subseteq X /\ IsFiniteSet(Merged(X)) /\ OnePerMatch(Merged(X))
      /\ Outlists(Merged(X), X)
  <2> HIDE DEF X
  <2> QED BY <1>3, MergedFacts
<1>5. g \in Fetch
  <2> DEFINE States == {"active", "expired", "inactive", "unavailable"}
  <2>1. Tail(Asked.todo) \in Seq(Leagues)
    BY <1>1
  <2>2. Append(Asked.states, LeagueState(l)) \in Seq(States)
    <3>1. Asked.states \in Seq(States)
      BY <1>1 DEF Fetch
    <3> HIDE DEF States, l
    <3> QED BY <3>1, StateOfLeague DEF States
  <2>3. Merged(X) \subseteq Found
    BY <1>3, <1>4
  <2> HIDE DEF X, l
  <2> QED BY <1>1, <2>1, <2>2, <2>3 DEF Fetch
<1>6. /\ g.pc = "league" /\ g.mode = Asked.mode /\ g.todo = Tail(Asked.todo)
      /\ g.found = Merged(X) /\ g.results = <<>> /\ g.failed = Asked.failed
      /\ g.limited = Asked.limited /\ g.exit = "none"
  <2> HIDE DEF X, l
  <2> QED BY <1>1 DEF Fetch
<1> HIDE DEF g
<1>7. ASSUME g.mode = "aggregate", g.failed = <<>> PROVE Discovered(g)
  <2>1. Discovered(Asked)
    BY <1>1, <1>6, <1>7 DEF FoundOK
  <2> SUFFICES ASSUME NEW k \in Leagues, \A i \in DOMAIN g.todo : g.todo[i] # k
               PROVE  Outlists(Merged(X), Scan(k))
    BY <1>6 DEF Discovered
  <2>2. /\ Len(Asked.todo) \in Nat /\ Len(Asked.todo) >= 1 /\ l = Asked.todo[1]
        /\ DOMAIN Asked.todo = 1 .. Len(Asked.todo)
        /\ DOMAIN g.todo = 1 .. Len(Asked.todo) - 1
        /\ \A i \in DOMAIN g.todo : g.todo[i] = Asked.todo[i + 1]
    BY <1>1, <1>6
  <2>3. CASE k = l
    BY <1>4, <2>3 DEF Outlists
  <2>4. CASE \E i \in DOMAIN Asked.todo : Asked.todo[i] = k /\ i # 1
    <3>1. PICK i \in DOMAIN Asked.todo : Asked.todo[i] = k /\ i # 1
      BY <2>4
    <3>2. i - 1 \in DOMAIN g.todo /\ (i - 1) + 1 = i
      BY <2>2, <3>1
    <3> QED BY <2>2, <3>1, <3>2
  <2>5. CASE Outlists(Asked.found, Scan(k))
    <3>1. Outlists(Merged(X), Asked.found)
      BY <1>4 DEF Outlists
    <3>2. Scan(k) \subseteq Found /\ Asked.found \subseteq Found /\ Merged(X) \subseteq Found
      BY <1>3, <1>4, ScanFacts
    <3> HIDE DEF X
    <3> QED BY <3>1, <3>2, <2>5, OutlistsFurther
  <2> QED BY <2>1, <2>2, <2>3, <2>4, <2>5 DEF Discovered
<1>8. FoundOK(g)
  BY <1>3, <1>4, <1>6, <1>7 DEF FoundOK
<1>9. RunOK(LeagueDone(g), dest)
  BY <1>1, <1>5, <1>6, <1>8, LeagueFits
<1> QED BY <1>2, <1>9 DEF RunInv

LEMMA FailureFits ==
  ASSUME RunInv, BudgetInv, LeagueFails \/ LeagueRateLimited
  PROVE  RunInv'
<1>0. fetch.pc = "league" /\ dest' = dest /\ runs' = runs
  BY DEF LeagueFails, LeagueRateLimited
<1>1. /\ Asked \in Fetch /\ Asked.pc = "league"
      /\ Asked.mode = fetch.mode /\ Asked.todo = fetch.todo /\ Asked.found = fetch.found
      /\ Asked.failed = fetch.failed /\ Asked.limited = fetch.limited
      /\ Asked.results = <<>> /\ Asked.exit = "none"
      /\ Asked.todo \in Seq(Leagues) /\ Asked.todo # <<>> /\ Head(fetch.todo) \in Leagues
      /\ Asked.limited => Asked.failed # <<>>
      /\ FoundOK(Asked)
  BY <1>0, AskingFacts
<1>2. CASE fetch.mode = "league"
  <2>1. fetch' = [Asked EXCEPT !.pc = "done", !.exit = "error"]
    BY <1>2 DEF LeagueFails, LeagueRateLimited
  <2>2. fetch' \in Fetch
    BY <1>1, <2>1 DEF Fetch
  <2>3. /\ fetch'.pc = "done" /\ fetch'.exit = "error" /\ fetch'.mode = "league"
        /\ fetch'.found = Asked.found /\ fetch'.results = <<>>
        /\ fetch'.limited = Asked.limited /\ fetch'.failed = Asked.failed
    BY <1>1, <1>2, <2>1 DEF Fetch
  <2>4. FoundOK(fetch')
    BY <1>1, <2>3 DEF FoundOK
  <2>5. StageFits(fetch') /\ EndFits(fetch') /\ Kept(fetch', dest')
    BY <1>1, <2>3 DEF StageFits, EndFits, Kept, Handling, Downloading
  <2> QED BY <1>0, <2>2, <2>4, <2>5 DEF RunInv, RunOK
<1>3. ASSUME NEW g \in Fetch, fetch' = LeagueDone(g), g.pc = "league", g.exit = "none",
             g.results = <<>>, g.found = Asked.found, g.failed # <<>>
      PROVE  RunInv'
  <2>1. FoundOK(g)
    BY <1>1, <1>3 DEF FoundOK
  <2>2. RunOK(LeagueDone(g), dest)
    BY <1>3, <2>1, LeagueFits
  <2> QED BY <1>0, <1>3, <2>2 DEF RunInv
<1> DEFINE States == {"active", "expired", "inactive", "unavailable"}
           others == [i \in DOMAIN fetch.todo |-> "unavailable"]
           failed == Append(Asked.failed, Head(fetch.todo))
<1>4. /\ Asked.states \in Seq(States) /\ Append(Asked.states, "unavailable") \in Seq(States)
      /\ failed \in Seq(Leagues) /\ failed # <<>> /\ Tail(Asked.todo) \in Seq(Leagues)
  <2>1. Asked.states \in Seq(States) /\ Asked.failed \in Seq(Leagues)
    BY <1>1 DEF Fetch
  <2>2. Append(Asked.states, "unavailable") \in Seq(States)
    BY <2>1
  <2>3. failed \in Seq(Leagues) /\ Len(failed) = Len(Asked.failed) + 1 /\ Len(Asked.failed) \in Nat
    BY <1>1, <2>1
  <2>4. failed # <<>>
    <3> HIDE DEF failed
    <3> QED BY <2>3
  <2> QED BY <1>1, <2>1, <2>2, <2>3, <2>4
<1>5. CASE LeagueFails /\ fetch.mode # "league"
  <2> DEFINE g == [Asked EXCEPT !.todo = Tail(Asked.todo), !.failed = failed,
                                !.states = Append(Asked.states, "unavailable")]
  <2>1. fetch' = LeagueDone(g)
    <3>1. g = [Asked EXCEPT !.todo = Tail(@), !.failed = Append(@, Head(fetch.todo)),
                            !.states = Append(@, "unavailable")]
      BY <1>1 DEF Fetch
    <3> HIDE DEF g
    <3> QED BY <1>5, <3>1 DEF LeagueFails
  <2> HIDE DEF failed
  <2>2. g \in Fetch
    BY <1>1, <1>4 DEF Fetch
  <2>3. /\ g.pc = "league" /\ g.exit = "none" /\ g.results = <<>> /\ g.found = Asked.found
        /\ g.failed = failed
    BY <1>1 DEF Fetch
  <2> HIDE DEF g
  <2> QED BY <1>3, <1>4, <2>1, <2>2, <2>3
<1>6. CASE LeagueRateLimited /\ fetch.mode # "league"
  <2> DEFINE g == [Asked EXCEPT !.limited = TRUE, !.todo = <<>>, !.failed = failed,
                                !.states = Asked.states \o others]
  <2>1. fetch' = LeagueDone(g)
    <3>1. g = [Asked EXCEPT !.limited = TRUE, !.todo = <<>>,
                            !.failed = Append(@, Head(fetch.todo)),
                            !.states = @ \o [i \in DOMAIN fetch.todo |-> "unavailable"]]
      BY <1>1 DEF Fetch
    <3> HIDE DEF g
    <3> QED BY <1>6, <3>1 DEF LeagueRateLimited
  <2>2. Asked.states \o others \in Seq(States)
    <3>1. DOMAIN fetch.todo = 1 .. Len(fetch.todo) /\ Len(fetch.todo) \in Nat
      BY <1>1
    <3>2. others \in Seq(States)
      BY <3>1
    <3> HIDE DEF others, States
    <3> QED BY <1>4, <3>2
  <2> HIDE DEF failed, others
  <2>3. g \in Fetch
    <3> DEFINE h == [Asked EXCEPT !.limited = TRUE, !.todo = <<>>]
    <3>1. h \in Fetch
      <4>1. <<>> \in Seq(Leagues)
        OBVIOUS
      <4> QED BY <1>1, <4>1 DEF Fetch
    <3>2. g = [h EXCEPT !.failed = failed, !.states = Asked.states \o others]
      BY <1>1 DEF Fetch
    <3> HIDE DEF g, h
    <3> QED BY <1>4, <2>2, <3>1, <3>2 DEF Fetch
  <2>4. /\ g.pc = "league" /\ g.exit = "none" /\ g.results = <<>> /\ g.found = Asked.found
        /\ g.failed = failed
    BY <1>1 DEF Fetch
  <2> HIDE DEF g
  <2> QED BY <1>3, <1>4, <2>1, <2>3, <2>4
<1> QED BY <1>2, <1>5, <1>6

(* A step that counts or notes something and handles no match.             *)
LEMMA StepMovesOn ==
  ASSUME RunInv, fetch' \in Fetch, UNCHANGED runs,
         \A x \in KeptFields : fetch'[x] = fetch[x],
         fetch.pc # "done",
         fetch'.pc = fetch.pc \/ (fetch.pc \in Handling /\ fetch'.pc \in Handling /\ fetch.queue # <<>>),
         UNCHANGED dest
  PROVE  RunInv'
<1>1. RunOK(fetch, dest)
  BY DEF RunInv
<1>2. RunOK(fetch', dest)
  BY <1>1, MovesOn
<1> QED BY <1>2 DEF RunInv

LEMMA RetryFits ==
  ASSUME RunInv, Retry
  PROVE  RunInv'
<1>1. fetch \in Fetch /\ fetch.asked \in Nat /\ fetch.attempt \in Nat
  BY DEF RunInv, RunOK, Fetch
<1>2. PICK a \in Nat, b \in Nat : fetch' = [fetch EXCEPT !.asked = a, !.attempt = b]
  <2>1. fetch' = [fetch EXCEPT !.asked = fetch.asked + 1, !.attempt = fetch.attempt + 1]
    BY <1>1 DEF Retry, Fetch
  <2>2. fetch.asked + 1 \in Nat /\ fetch.attempt + 1 \in Nat
    BY <1>1
  <2> QED BY <2>1, <2>2
<1>3. fetch' \in Fetch /\ fetch'.pc = fetch.pc /\ \A x \in KeptFields : fetch'[x] = fetch[x]
  BY <1>1, <1>2 DEF Fetch, KeptFields
<1>4. fetch.pc # "done" /\ dest' = dest /\ runs' = runs
  BY DEF Retry
<1> QED BY <1>3, <1>4, StepMovesOn

(* The current match is handled: its result is the next.                   *)
LEMMA HandledFits ==
  ASSUME RunInv, fetch.pc \in Handling, fetch.queue # <<>>, NEW status \in {"SKIPPED", "FAILED"},
         \/ fetch' = Recorded(fetch, status)
         \/ fetch' = Recorded(Asked, status) /\ fetch.pc = "detail",
         UNCHANGED <<dest, runs>>
  PROVE  RunInv'
<1>1. status \in Statuses /\ status \notin {"DOWNLOADED", "UNCHANGED"}
  BY DEF Statuses
<1>2. CASE fetch' = Recorded(fetch, status)
  <2>1. RunOK(Recorded(fetch, status), dest)
    BY <1>1, RecordedFits DEF RunInv
  <2> QED BY <1>2, <2>1 DEF RunInv
<1>3. CASE fetch' = Recorded(Asked, status) /\ fetch.pc = "detail"
  <2>1. RunOK(Asked, dest) /\ Asked.pc = fetch.pc /\ Asked.queue = fetch.queue
    BY <1>3, AskedFits DEF KeptFields
  <2>2. RunOK(Recorded(Asked, status), dest)
    BY <1>1, <2>1, RecordedFits
  <2> QED BY <1>3, <2>2 DEF RunInv
<1> QED BY <1>2, <1>3

LEMMA MatchFits ==
  ASSUME RunInv, PublishInv, HandleMatch
  PROVE  RunInv'
<1>1. /\ fetch.pc = "match" /\ fetch.pc \in Handling /\ fetch.queue # <<>>
      /\ UNCHANGED <<dest, runs>> /\ fetch \in Fetch /\ fetch.details \in Nat
  BY DEF HandleMatch, Stops, Handling, RunInv, RunOK, Fetch
<1>2. CASE fetch' = Recorded(fetch, "FAILED")
  BY <1>1, <1>2, HandledFits
<1>3. CASE fetch' = Recorded(fetch, "UNCHANGED") /\ dest[Current.match] \notin {"absent", "empty"}
  <2>1. Current.match \in Matches
    BY <1>1, QueueHeads DEF RunInv, Current
  <2>2. dest[Current.match] = "whole"
    BY <1>3, <2>1 DEF PublishInv
  <2>3. RunOK(Recorded(fetch, "UNCHANGED"), dest)
    BY <1>1, <2>2, RecordedFits DEF RunInv, Statuses
  <2> QED BY <1>1, <1>3, <2>3 DEF RunInv
<1>4. CASE fetch' = [fetch EXCEPT !.pc = "detail", !.details = @ + 1]
  <2>1. PICK n \in Nat : fetch' = [fetch EXCEPT !.pc = "detail", !.details = n]
    <3>1. fetch' = [fetch EXCEPT !.pc = "detail", !.details = fetch.details + 1]
      BY <1>1, <1>4 DEF Fetch
    <3>2. fetch.details + 1 \in Nat
      BY <1>1
    <3> QED BY <3>1, <3>2
  <2>2. fetch' \in Fetch /\ fetch'.pc = "detail" /\ \A x \in KeptFields : fetch'[x] = fetch[x]
    BY <1>1, <2>1 DEF Fetch, KeptFields
  <2> QED BY <1>1, <2>2, StepMovesOn DEF Handling
<1> QED BY <1>2, <1>3, <1>4 DEF HandleMatch

LEMMA DetailFits ==
  ASSUME RunInv, DetailAnswers \/ DetailFails \/ DetailRateLimited
  PROVE  RunInv'
<1>1. /\ fetch.pc = "detail" /\ fetch.pc \in Handling /\ fetch.queue # <<>>
      /\ UNCHANGED <<dest, runs>>
  BY DEF DetailAnswers, DetailFails, DetailRateLimited, Handling, RunInv, RunOK, StageFits,
         Downloading
<1>2. /\ RunOK(Asked, dest) /\ Asked \in Fetch /\ Asked.pc = "detail"
      /\ \A x \in KeptFields : Asked[x] = fetch[x]
  BY <1>1, AskedFits
<1>3. CASE \E status \in {"SKIPPED", "FAILED"} : fetch' = Recorded(Asked, status)
  BY <1>1, <1>3, HandledFits
<1>4. CASE fetch' = [Asked EXCEPT !.pc = "stream"]
  <2>1. fetch' \in Fetch /\ fetch'.pc = "stream" /\ \A x \in KeptFields : fetch'[x] = Asked[x]
    BY <1>2, <1>4 DEF Fetch, KeptFields
  <2> QED BY <1>1, <1>2, <2>1, StepMovesOn DEF Handling
<1>5. CASE fetch' = [Recorded(Asked, "FAILED") EXCEPT !.limited = TRUE]
  <2> DEFINE g == Recorded(Asked, "FAILED")
  <2>1. RunOK(g, dest) /\ g.pc = "match" /\ SomeFailed(g)
    BY <1>1, <1>2, RecordedFits DEF KeptFields, Statuses
  <2>2. fetch' = [g EXCEPT !.limited = TRUE] /\ g \in Fetch
    BY <1>5, <2>1 DEF RunOK
  <2> HIDE DEF g
  <2>3. /\ fetch' \in Fetch /\ fetch'.pc = "match" /\ fetch'.mode = g.mode
        /\ fetch'.todo = g.todo /\ fetch'.found = g.found /\ fetch'.queue = g.queue
        /\ fetch'.results = g.results /\ fetch'.failed = g.failed /\ fetch'.exit = g.exit
    BY <2>1, <2>2 DEF Fetch
  <2>4. FoundOK(fetch')
    BY <2>1, <2>3 DEF RunOK, FoundOK, Discovered
  <2>5. QueueOK(g) /\ g.todo = <<>> /\ g.exit = "none"
    BY <2>1 DEF RunOK, StageFits, EndFits, Handling
  <2>6. QueueOK(fetch') /\ SomeFailed(fetch')
    BY <2>1, <2>3, <2>5 DEF QueueOK, SomeFailed
  <2>7. StageFits(fetch')
    BY <2>3, <2>5, <2>6 DEF StageFits, Downloading
  <2>8. EndFits(fetch')
    BY <2>3, <2>5 DEF EndFits
  <2>9. Kept(fetch', dest)
    BY <2>1, <2>3 DEF RunOK, Kept
  <2> QED BY <1>1, <2>3, <2>4, <2>7, <2>8, <2>9 DEF RunInv, RunOK
<1> QED BY <1>3, <1>4, <1>5 DEF DetailAnswers, DetailFails, DetailRateLimited

LEMMA DownloadFits ==
  ASSUME RunInv, PublishInv, Stream \/ Decompress \/ Publish \/ DownloadFails
  PROVE  RunInv'
<1>1. /\ fetch.pc \in {"stream", "decompress", "publish"} /\ fetch.pc \in Handling
      /\ fetch.queue # <<>> /\ UNCHANGED runs /\ fetch \in Fetch
  BY DEF Stream, Decompress, Publish, DownloadFails, Handling, RunInv, RunOK, StageFits, Downloading
<1>2. CASE fetch' = Recorded(fetch, "FAILED") /\ UNCHANGED dest
  BY <1>1, <1>2, HandledFits
<1>3. CASE Stream /\ \E body \in Bodies : fetch' = [fetch EXCEPT !.pc = "decompress", !.data = body]
  <2>1. /\ fetch' \in Fetch /\ fetch'.pc = "decompress"
        /\ \A x \in KeptFields : fetch'[x] = fetch[x]
    BY <1>1, <1>3 DEF Fetch, KeptFields
  <2> QED BY <1>1, <1>3, <2>1, StepMovesOn DEF Handling, Stream
<1>4. CASE Decompress /\ fetch' = [fetch EXCEPT !.pc = "publish"]
  <2>1. /\ fetch' \in Fetch /\ fetch'.pc = "publish"
        /\ \A x \in KeptFields : fetch'[x] = fetch[x]
    BY <1>1, <1>4 DEF Fetch, KeptFields
  <2> QED BY <1>1, <1>4, <2>1, StepMovesOn DEF Handling, Decompress
<1>5. CASE Publish
  <2> DEFINE g == Recorded(fetch, "DOWNLOADED")
             m == Current.match
  <2>1. m \in Matches
    BY <1>1, QueueHeads DEF RunInv, Current
  <2>2. fetch.data = "whole" /\ dest' = [dest EXCEPT ![m] = "whole"] /\ m \in DOMAIN dest
    BY <1>5, <2>1 DEF Publish, PublishInv
  <2> HIDE DEF m
  <2>3. dest'[m] = "whole" /\ \A k \in Matches : dest[k] = "whole" => dest'[k] = "whole"
    BY <2>1, <2>2 DEF PublishInv
  <2>4. RunOK(fetch, dest')
    BY <2>3, FilesGrow DEF RunInv
  <2>5. RunOK(g, dest') /\ g.pc = "match"
    BY <1>1, <2>3, <2>4, RecordedFits DEF Statuses, m
  <2>6. fetch' = [g EXCEPT !.downloaded = @ + 1] /\ g \in Fetch
    BY <1>5, <2>5 DEF Publish, RunOK
  <2> HIDE DEF g
  <2>7. PICK n \in Nat : fetch' = [g EXCEPT !.downloaded = n]
    <3>1. fetch' = [g EXCEPT !.downloaded = g.downloaded + 1] /\ g.downloaded \in Nat
      BY <2>6 DEF Fetch
    <3>2. g.downloaded + 1 \in Nat
      BY <3>1
    <3> QED BY <3>1, <3>2
  <2>8. fetch' \in Fetch /\ fetch'.pc = g.pc /\ \A x \in KeptFields : fetch'[x] = g[x]
    BY <2>6, <2>7 DEF Fetch, KeptFields
  <2>9. RunOK(fetch', dest')
    BY <2>5, <2>8, MovesOn
  <2> QED BY <1>1, <2>9 DEF RunInv
<1>6. CASE Stream
  BY <1>2, <1>3, <1>6 DEF Stream
<1>7. CASE Decompress
  BY <1>2, <1>4, <1>7 DEF Decompress
<1> QED BY <1>2, <1>5, <1>6, <1>7 DEF DownloadFails

LEMMA EndFitsStep ==
  ASSUME RunInv, Finish \/ Abort
  PROVE  RunInv'
<1>1. fetch \in Fetch /\ UNCHANGED <<dest, runs>> /\ fetch.pc # "done"
  BY DEF Finish, Abort, RunInv, RunOK
<1>2. PICK data \in Bodies \cup {"none"}, exit \in {"ok", "failed", "aborted"} :
        /\ fetch' = [fetch EXCEPT !.pc = "done", !.data = data, !.exit = exit]
        /\ exit # "aborted" => fetch.pc = "match" /\ Stops
        /\ exit = "ok" => fetch.failed = <<>> /\ ~SomeFailed(fetch)
  <2>1. CASE Abort
    BY <2>1 DEF Abort
  <2>2. CASE Finish
    <3>1. PICK exit \in {"ok", "failed"} :
            /\ fetch' = [fetch EXCEPT !.pc = "done", !.exit = exit]
            /\ exit = "ok" => fetch.failed = <<>> /\ ~SomeFailed(fetch)
      BY <2>2 DEF Finish, SomeFailed
    <3>2. fetch' = [fetch EXCEPT !.pc = "done", !.data = fetch.data, !.exit = exit]
      BY <1>1, <3>1 DEF Fetch
    <3>3. fetch.data \in Bodies \cup {"none"}
      BY <1>1 DEF Fetch
    <3> QED BY <2>2, <3>1, <3>2, <3>3 DEF Finish
  <2> QED BY <2>1, <2>2
<1>3. fetch' \in Fetch
  BY <1>1, <1>2 DEF Fetch
<1>4. /\ fetch'.pc = "done" /\ fetch'.exit = exit /\ fetch'.mode = fetch.mode
      /\ fetch'.todo = fetch.todo /\ fetch'.found = fetch.found /\ fetch'.queue = fetch.queue
      /\ fetch'.results = fetch.results /\ fetch'.failed = fetch.failed
      /\ fetch'.limited = fetch.limited /\ fetch'.details = fetch.details
      /\ fetch'.downloaded = fetch.downloaded
  BY <1>1, <1>2 DEF Fetch
<1>5. RunOK(fetch, dest)
  BY DEF RunInv
<1>6. FoundOK(fetch') /\ Kept(fetch', dest)
  BY <1>4, <1>5 DEF RunOK, FoundOK, Discovered, Kept
<1>7. SomeFailed(fetch') <=> SomeFailed(fetch)
  BY <1>4 DEF SomeFailed
<1>8. StageFits(fetch')
  BY <1>4, <1>5, <1>7 DEF RunOK, StageFits, Handling, Downloading
<1>9. QueueOK(fetch) => QueueOK(fetch')
  BY <1>4 DEF QueueOK
<1>10. Stops => StopsAt(fetch')
  BY <1>4 DEF Stops, StopsAt
<1>11. EndFits(fetch')
  BY <1>2, <1>4, <1>5, <1>7, <1>9, <1>10 DEF EndFits, RunOK, StageFits, Handling
<1> QED BY <1>1, <1>3, <1>6, <1>8, <1>11 DEF RunInv, RunOK

LEMMA RunInit == FetcherInit => RunInv
<1> SUFFICES ASSUME FetcherInit PROVE RunInv
  OBVIOUS
<1> DEFINE f == Fresh("league", <<>>)
<1>1. RunOK(f, dest) /\ f.pc = "league"
  <2>1. <<>> \in Seq(Leagues) /\ "league" \in Modes
    BY DEF Modes
  <2> QED BY <2>1, FreshFits
<1>2. fetch = [f EXCEPT !.pc = "idle"] /\ f \in Fetch
  BY <1>1 DEF FetcherInit, RunOK
<1>3. f.exit = "none" /\ f.results = <<>>
  BY DEF Fresh
<1> HIDE DEF f
<1>4. fetch \in Fetch
  BY <1>2 DEF Fetch
<1>5. /\ fetch.pc = "idle" /\ fetch.mode = f.mode /\ fetch.todo = f.todo
      /\ fetch.found = f.found /\ fetch.failed = f.failed /\ fetch.limited = f.limited
      /\ fetch.results = <<>> /\ fetch.exit = "none"
  BY <1>2, <1>3 DEF Fetch
<1>6. FoundOK(fetch)
  BY <1>1, <1>5 DEF RunOK, FoundOK, Discovered
<1>7. StageFits(fetch) /\ EndFits(fetch) /\ Kept(fetch, dest)
  BY <1>1, <1>3, <1>5 DEF RunOK, StageFits, EndFits, Kept, Handling, Downloading, SomeFailed
<1>8. runs \in 0 .. MaxRuns
  BY LimitsArePositive DEF FetcherInit
<1> QED BY <1>4, <1>6, <1>7, <1>8 DEF RunInv, RunOK

LEMMA RunStep == RunInv /\ PublishInv /\ BudgetInv /\ [FetcherNext]_fetcherVars => RunInv'
<1> SUFFICES ASSUME RunInv, PublishInv, BudgetInv, [FetcherNext]_fetcherVars PROVE RunInv'
  OBVIOUS
<1>1. ASSUME NEW mode \in {"league", "all", "status"}, NEW l \in Leagues, Begin(mode, <<l>>)
      PROVE  RunInv'
  <2>1. <<l>> \in Seq(Leagues) /\ mode \in Modes /\ mode # "aggregate"
    BY <1>1 DEF Modes
  <2> QED BY <1>1, <2>1, BeginFits
<1>2. ASSUME NEW mode \in {"aggregate", "status"}, Begin(mode, Allowlist) PROVE RunInv'
  BY <1>2, AllowlistLength, BeginFits DEF Modes
<1>3. CASE FetchStep
  BY <1>3, RetryFits, AnswerFits, FailureFits, MatchFits, DetailFits, DownloadFits, EndFitsStep
     DEF FetchStep
<1>4. CASE Abort
  BY <1>4, EndFitsStep
<1>5. CASE UNCHANGED fetcherVars
  BY <1>5 DEF fetcherVars, RunInv
<1> QED BY <1>1, <1>2, <1>3, <1>4, <1>5 DEF FetcherNext

-----------------------------------------------------------------------------
(* What was handled, while the results are the head of what was found.     *)
HandledInOrder(f) ==
  /\ Cardinality({f.results[i].match : i \in DOMAIN f.results}) = Len(f.results)
  /\ \A i \in DOMAIN f.results : \E c \in f.found :
       /\ c.match = f.results[i].match
       /\ \A d \in f.found :
            d.match \notin {f.results[j].match : j \in DOMAIN f.results} => Before(f.mode, c, d)

LEMMA QueueInOrder ==
  ASSUME NEW f, QueueOK(f), f.found \subseteq Found, IsFiniteSet(f.found), OnePerMatch(f.found),
         Len(f.results) \in Nat, DOMAIN f.results = 1 .. Len(f.results), Len(f.queue) \in Nat
  PROVE  HandledInOrder(f)
<1> DEFINE N == Len(f.results)
           C == Cardinality(f.found)
           handled == {f.results[i].match : i \in 1 .. N}
           R == QueueOrder(f.mode, f.found)
<1>1. PICK q :
        /\ Lists(q, f.found, R)
        /\ N + Len(f.queue) = C
        /\ \A i \in 1 .. N : f.results[i].match = q[i].match
  BY DEF QueueOK
<1>2. 1 .. N \subseteq 1 .. C
  <2>1. N \in Nat /\ Len(f.queue) \in Nat /\ N + Len(f.queue) = C
    BY <1>1
  <2>2. ASSUME NEW a \in Nat, NEW b \in Nat PROVE 1 .. a \subseteq 1 .. (a + b)
    OBVIOUS
  <2> HIDE DEF C, N
  <2>3. 1 .. N \subseteq 1 .. (N + Len(f.queue))
    BY <2>1, <2>2
  <2> QED BY <2>1, <2>3
<1>3. /\ \A i \in 1 .. C : q[i] \in f.found
      /\ \A x \in f.found : \E i \in 1 .. C : q[i] = x
      /\ \A i, j \in 1 .. C : i < j => Before(f.mode, q[i], q[j])
  <2>1. /\ q \in [1 .. C -> f.found]
        /\ \A x \in f.found : \E i \in 1 .. C : q[i] = x
        /\ \A i, j \in 1 .. C : i < j => <<q[i], q[j]>> \in R
    BY <1>1 DEF Lists
  <2> HIDE DEF C
  <2> QED BY <2>1 DEF QueueOrder
<1>4. \A x \in f.found : ~Before(f.mode, x, x)
  <2>1. FoundIsTyped(f.found)
    BY FoundTypes
  <2> QED BY <2>1 DEF Before, FoundIsTyped
<1>5. C \in Nat /\ N \in Nat
  BY FS_CardinalityType
<1> HIDE DEF C, R
<1>6. \A i, j \in 1 .. C : q[i].match = q[j].match => i = j
  <2> SUFFICES ASSUME NEW i \in 1 .. C, NEW j \in 1 .. C, q[i].match = q[j].match, i # j PROVE FALSE
    OBVIOUS
  <2>1. q[i] = q[j] /\ q[i] \in f.found
    BY <1>3 DEF OnePerMatch
  <2>2. i < j \/ j < i
    BY <1>5
  <2>3. Before(f.mode, q[i], q[i])
    BY <1>3, <2>1, <2>2
  <2> QED BY <1>4, <2>1, <2>3
<1> HIDE DEF N
<1>7. Cardinality(handled) = N
  <2> DEFINE h == [i \in 1 .. N |-> f.results[i].match]
  <2>1. \A i, j \in 1 .. N : h[i] = h[j] => i = j
    BY <1>1, <1>2, <1>6
  <2>2. h \in [1 .. N -> handled] /\ \A y \in handled : \E i \in 1 .. N : h[i] = y
    OBVIOUS
  <2> HIDE DEF h, handled
  <2>3. h \in Bijection(1 .. N, handled)
    BY <2>1, <2>2 DEF Bijection, Injection, Surjection, IsInjective
  <2>4. Cardinality(1 .. N) = N /\ IsFiniteSet(1 .. N)
    BY <1>5, Segment
  <2> QED BY <2>3, <2>4, FS_Bijection DEF ExistsBijection
<1>8. ASSUME NEW i \in 1 .. N, NEW d \in f.found, d.match \notin handled
      PROVE  Before(f.mode, q[i], d)
  <2>1. PICK j \in 1 .. C : q[j] = d
    BY <1>3
  <2>2. j \notin 1 .. N
    BY <1>1, <1>8, <2>1
  <2>3. i < j /\ i \in 1 .. C
    BY <1>2, <1>5, <2>2
  <2> QED BY <1>3, <2>1, <2>3
<1>9. \A i \in 1 .. N : q[i] \in f.found /\ q[i].match = f.results[i].match
  BY <1>1, <1>2, <1>3
<1>10. handled = {f.results[i].match : i \in DOMAIN f.results} /\ DOMAIN f.results = 1 .. N
  BY DEF N
<1> HIDE DEF handled
<1>11. Cardinality({f.results[i].match : i \in DOMAIN f.results}) = Len(f.results)
  BY <1>7, <1>10 DEF N
<1>12. ASSUME NEW i \in DOMAIN f.results
       PROVE  \E c \in f.found :
                /\ c.match = f.results[i].match
                /\ \A d \in f.found :
                     d.match \notin {f.results[j].match : j \in DOMAIN f.results} => Before(f.mode, c, d)
  BY <1>8, <1>9, <1>10
<1> QED BY <1>11, <1>12 DEF HandledInOrder

(* Of a discovered match the found listing starts latest.                  *)
LEMMA LatestIsFound ==
  ASSUME NEW X, X \subseteq Eligible, \A l \in Leagues : Outlists(X, Scan(l)), OnePerMatch(X)
  PROVE  /\ \A c \in Eligible : \E d \in X : d.match = c.match
         /\ \A d \in X : LatestStart(d.match) = d.start /\ d.start \in Nat
<1>1. ASSUME NEW c \in Eligible PROVE \E d \in X : d.match = c.match /\ ~LaterListing(c, d)
  <2>1. PICK l \in Leagues : c \in Scan(l)
    BY DEF Eligible
  <2> QED BY <2>1 DEF Outlists
<1>2. FoundIsTyped(Eligible)
  BY EligibleFacts, FoundTypes
<1>3. ASSUME NEW d \in X PROVE LatestStart(d.match) = d.start /\ d.start \in Nat
  <2> DEFINE S == {c.start : c \in {e \in Eligible : e.match = d.match}}
  <2>1. d.start \in S /\ d.start \in Nat /\ d \in Eligible
    BY <1>2 DEF FoundIsTyped
  <2>2. ASSUME NEW x \in S PROVE x \in Nat /\ x <= d.start
    <3>1. PICK c \in Eligible : c.match = d.match /\ x = c.start
      OBVIOUS
    <3>2. PICK e \in X : e.match = c.match /\ ~LaterListing(c, e)
      BY <1>1
    <3>3. e = d
      BY <3>1, <3>2 DEF OnePerMatch
    <3> QED BY <1>2, <2>1, <3>1, <3>2, <3>3 DEF LaterListing, FoundIsTyped
  <2> HIDE DEF S
  <2>3. \A y \in S : (\A z \in S : z <= y) => y = d.start
    BY <2>1, <2>2
  <2>4. Max(S) = d.start
    BY <2>1, <2>2, <2>3 DEF Max
  <2> QED BY <2>1, <2>4 DEF LatestStart, S
<1> QED BY <1>1, <1>3

LEMMA RunIsNewestFirst ==
  ASSUME RunInv
  PROVE  NewestFirst
<1> SUFFICES ASSUME fetch.mode = "aggregate", fetch.failed = <<>>,
                    fetch.pc \notin {"league", "idle"},
                    fetch.pc = "done" => fetch.exit # "aborted"
             PROVE  /\ Cardinality(Handled) = Len(fetch.results)
                    /\ \A m \in Handled, n \in {c.match : c \in Eligible} \ Handled :
                         \/ LatestStart(m) > LatestStart(n)
                         \/ LatestStart(m) = LatestStart(n) /\ m > n
  BY DEF NewestFirst
<1>1. /\ fetch \in Fetch /\ FoundOK(fetch) /\ StageFits(fetch) /\ EndFits(fetch)
  BY DEF RunInv, RunOK
<1>2. fetch.todo = <<>> /\ QueueOK(fetch)
  BY <1>1 DEF StageFits, EndFits, Fetch, Handling
<1>3. /\ fetch.found \subseteq Eligible /\ IsFiniteSet(fetch.found) /\ OnePerMatch(fetch.found)
      /\ \A l \in Leagues : Outlists(fetch.found, Scan(l))
  BY <1>1, <1>2 DEF FoundOK, Discovered
<1>4. /\ Len(fetch.results) \in Nat /\ DOMAIN fetch.results = 1 .. Len(fetch.results)
      /\ Len(fetch.queue) \in Nat
  <2> DEFINE Result == [match : Matches, status : Statuses]
  <2>1. fetch.results \in Seq(Result) /\ fetch.queue \in Seq(Found)
    BY <1>1 DEF Fetch, Statuses
  <2> HIDE DEF Result
  <2> QED BY <2>1
<1>5. HandledInOrder(fetch)
  BY <1>2, <1>3, <1>4, EligibleFacts, QueueInOrder
<1>6. ASSUME NEW m \in Handled, NEW n \in {c.match : c \in Eligible} \ Handled
      PROVE  \/ LatestStart(m) > LatestStart(n)
             \/ LatestStart(m) = LatestStart(n) /\ m > n
  <2>1. PICK i \in DOMAIN fetch.results : m = fetch.results[i].match
    BY DEF Handled
  <2>2. PICK c \in fetch.found :
          /\ c.match = m
          /\ \A d \in fetch.found : d.match \notin Handled => Before(fetch.mode, c, d)
    BY <1>5, <2>1 DEF HandledInOrder, Handled
  <2>3. PICK d \in fetch.found : d.match = n
    BY <1>3, LatestIsFound
  <2>4. Before("aggregate", c, d)
    BY <2>2, <2>3
  <2>5. LatestStart(m) = c.start /\ LatestStart(n) = d.start
    BY <1>3, <2>2, <2>3, LatestIsFound
  <2> QED BY <2>2, <2>3, <2>4, <2>5 DEF Before
<1> QED BY <1>5, <1>6 DEF HandledInOrder, Handled

LEMMA RunIsFetched ==
  ASSUME RunInv
  PROVE  OkMeansFetched
<1> DEFINE mine == IF fetch.mode = "aggregate" THEN Eligible ELSE fetch.found
<1> SUFFICES ASSUME fetch.exit = "ok", fetch.mode # "status", fetch.details < MaxDetails,
                    fetch.mode = "all" \/ fetch.downloaded < Count,
                    NEW c \in mine
             PROVE  \/ dest[c.match] = "whole"
                    \/ \E i \in DOMAIN fetch.results :
                         fetch.results[i] = [match |-> c.match, status |-> "SKIPPED"]
  BY DEF OkMeansFetched
<1>1. /\ fetch \in Fetch /\ FoundOK(fetch) /\ StageFits(fetch) /\ EndFits(fetch) /\ Kept(fetch, dest)
  BY DEF RunInv, RunOK
<1>2. /\ fetch.todo = <<>> /\ QueueOK(fetch) /\ fetch.failed = <<>> /\ ~SomeFailed(fetch)
      /\ StopsAt(fetch)
  BY <1>1 DEF EndFits
<1>3. fetch.queue = <<>>
  <2>1. fetch.details \in Nat /\ fetch.downloaded \in Nat
    BY <1>1 DEF Fetch
  <2>2. ~(fetch.details >= MaxDetails) /\ ~(fetch.mode # "all" /\ fetch.downloaded >= Count)
    BY <2>1, LimitsArePositive, CountInRange
  <2>3. ~fetch.limited
    BY <1>1, <1>2 DEF StageFits
  <2> QED BY <1>2, <2>2, <2>3 DEF StopsAt
<1>4. PICK d \in fetch.found : d.match = c.match
  <2>1. CASE fetch.mode = "aggregate"
    <3>1. PICK l \in Leagues : c \in Scan(l)
      BY <2>1 DEF Eligible
    <3>2. Outlists(fetch.found, Scan(l))
      BY <1>1, <1>2, <2>1 DEF FoundOK, Discovered
    <3> QED BY <3>1, <3>2 DEF Outlists
  <2> QED BY <2>1
<1>5. PICK i \in DOMAIN fetch.results :
        /\ fetch.results[i].match = d.match
        /\ fetch.results[i] = [match |-> fetch.results[i].match, status |-> fetch.results[i].status]
        /\ fetch.results[i].status \in Statuses
  <2> DEFINE Result == [match : Matches, status : Statuses]
  <2>1. fetch.results \in Seq(Result)
    BY <1>1 DEF Fetch, Statuses
  <2>2. PICK q :
          /\ Lists(q, fetch.found, QueueOrder(fetch.mode, fetch.found))
          /\ Len(fetch.results) + Len(fetch.queue) = Cardinality(fetch.found)
          /\ \A i \in 1 .. Len(fetch.results) : fetch.results[i].match = q[i].match
    BY <1>2 DEF QueueOK
  <2> HIDE DEF Result
  <2>3. Len(fetch.results) = Cardinality(fetch.found) /\ DOMAIN fetch.results = 1 .. Len(fetch.results)
    <3>1. Len(fetch.queue) = 0 /\ Len(fetch.results) \in Nat
      BY <1>3, <2>1
    <3>2. Len(fetch.results) + 0 = Cardinality(fetch.found)
      BY <2>2, <3>1
    <3> QED BY <2>1, <3>1, <3>2
  <2>4. PICK i \in DOMAIN fetch.results : q[i] = d
    BY <2>2, <2>3 DEF Lists
  <2>5. fetch.results[i] \in Result /\ fetch.results[i].match = d.match
    BY <2>1, <2>2, <2>3, <2>4
  <2> QED BY <2>5 DEF Result
<1>6. CASE fetch.results[i].status = "SKIPPED"
  BY <1>4, <1>5, <1>6
<1>7. CASE fetch.results[i].status \in {"DOWNLOADED", "UNCHANGED"}
  BY <1>1, <1>4, <1>5, <1>7 DEF Kept
<1> QED BY <1>2, <1>5, <1>6, <1>7 DEF Statuses, SomeFailed

LEMMA RunInvariant == FetcherSpec => [](RunInv /\ PublishInv /\ BudgetInv)
<1>1. FetcherInit => RunInv /\ PublishInv /\ BudgetInv
  BY RunInit, InitPublishes, BudgetInit
<1>2. RunInv /\ PublishInv /\ BudgetInv /\ [FetcherNext]_fetcherVars
        => (RunInv /\ PublishInv /\ BudgetInv)'
  BY RunStep, StepKeeps, BudgetStep
<1> QED BY <1>1, <1>2, PTL DEF FetcherSpec

(* When every league answered, a run over the allowlist spends its limits  *)
(* on the newest matches, each handled once and none skipped.              *)
THEOREM NewestAreFetched == FetcherSpec => []NewestWithinBudget
<1>1. RunInv /\ PublishInv => FetcherTypeOK
  BY DEF RunInv, RunOK, PublishInv, FetcherTypeOK, Bodies
<1>2. RunInv => NewestFirst
  BY RunIsNewestFirst
<1>3. RunInv /\ PublishInv /\ WithinBudget => NewestWithinBudget
  BY <1>1, <1>2 DEF NewestWithinBudget
<1> QED BY RunInvariant, BudgetsAreKept, <1>3, PTL

(* A run that reports no failure and was not stopped by its limits leaves  *)
(* every eligible match of its leagues on disk, or without a replay.       *)
THEOREM OkIsFetched == FetcherSpec => []OkMeansFetched
<1>1. RunInv => OkMeansFetched
  BY RunIsFetched
<1> QED BY RunInvariant, <1>1, PTL
-----------------------------------------------------------------------------

(***************************************************************************)
(* What is in the files of the pipeline.  known is the matches that have a *)
(* trajectory.                                                             *)
(***************************************************************************)
Genuine(artifacts, known) ==
  /\ artifacts \subseteq Artifacts
  /\ IsFiniteSet(artifacts)
  /\ \A a, b \in artifacts : FileOf(a) = FileOf(b) => a = b
  /\ \A a \in artifacts : FileOf(a) \in known

DatasetManifestOf(manifest, known) ==
  \E artifacts \in SUBSET Artifacts :
    /\ Genuine(artifacts, known)
    /\ manifest.decisions = [decisions |-> artifacts]
    /\ manifest.outcomes = [outcomes |-> artifacts]

TrainingManifestOf(manifest, known) ==
  \E artifacts \in SUBSET Artifacts :
    /\ Genuine(artifacts, known)
    /\ manifest.training = [decisions |-> artifacts, outcomes |-> artifacts]

ManifestOf(d, manifest, known) ==
  /\ d = "dataset" => DatasetManifestOf(manifest, known)
  /\ d = "training" => TrainingManifestOf(manifest, known)

SplitsInOrder(predictions) ==
  \A fold \in ToSet(predictions) :
    /\ fold.test # {}
    /\ \A m \in fold.train, n \in fold.test : m < n

OfOneBuild(d, set) ==
  CASE d = "dataset" ->
         /\ set.manifest.decisions = set.decisions
         /\ set.manifest.outcomes = set.outcomes
         /\ set.decisions.decisions = set.outcomes.outcomes
    [] d = "training" ->
         /\ set.training = set.manifest.training
         /\ set.training.decisions = set.manifest.source.decisions.decisions
         /\ set.training.outcomes = set.manifest.source.outcomes.outcomes
    [] d = "model" ->
         /\ set.manifest.model = set.model
         /\ set.model.training = set.manifest.source.training
    [] OTHER -> set.evaluation.folds = set.predictions

Unseen(d, set) ==
  /\ d = "baseline" => SplitsInOrder(set.predictions)
  /\ d = "holdout" => set.predictions[1].train \cap set.predictions[1].test = {}

(* A set that is complete is of one build; a set that lost files in a      *)
(* removal still has the manifest it was built with, if it has one.        *)
Proper(d, set, known) ==
  set # NoSet =>
    /\ Filenames[d] \subseteq DOMAIN set => OfOneBuild(d, set) /\ Unseen(d, set)
    /\ "manifest" \in DOMAIN set => ManifestOf(d, set.manifest, known)

KnownIn(files) == {FileOf(files[name]) : name \in DOMAIN files}
Known == KnownIn(stored)

(***************************************************************************)
(* The replacement of a set.                                               *)
(***************************************************************************)
TransactionFields == {"at", "dir", "new", "old", "failed"}

TransactionStages ==
  {"prepare", "look", "move", "install", "remove", "undo", "restore", "retry", "clean"}

AsFunction(set) == set = [name \in DOMAIN set |-> set[name]]

Solid(d, set, spoilt) == spoilt \/ (Whole(d, set) /\ AsFunction(set))

SolidOrNone(d, set, spoilt) == set = NoSet \/ Solid(d, set, spoilt)

TransactionSound(t, spoilt) ==
  /\ t.dir \in Stages
  /\ t.at \in TransactionStages
  /\ SolidOrNone(t.dir, t.old, spoilt)
  /\ SolidOrNone(t.dir, t.failed, spoilt)
  /\ t.at \in {"prepare", "look", "move", "install"} =>
       Whole(t.dir, t.new) /\ AsFunction(t.new)
  /\ t.at \in {"prepare", "look", "move"} => t.old = NoSet
  /\ t.at \notin {"restore", "retry", "clean"} => t.failed = NoSet
  /\ t.at = "remove" => t.old # NoSet
  /\ t.at \in {"remove", "undo", "retry"} => Solid(t.dir, t.old, spoilt)
  /\ t.at = "restore" /\ t.old = NoSet /\ ~spoilt => t.failed = NoSet

Guards(t, d) ==
  /\ t.at \in {"install", "undo", "restore", "retry"}
  /\ t.dir = d
  /\ Whole(d, t.old) \/ Whole(d, t.failed)

(* The set of d survives in what is in place, was left behind, or is in    *)
(* the hands of t.                                                         *)
Safe(d, set, left, t) ==
  \/ Whole(d, set)
  \/ \E other \in left : Whole(d, other)
  \/ Guards(t, d)

OutputTypes ==
  /\ DOMAIN sets = Stages /\ AsFunction(sets)
  /\ DOMAIN litter = Stages /\ AsFunction(litter)
  /\ published \in [Stages -> BOOLEAN]
  /\ spoiled \in [Stages -> BOOLEAN]
  /\ DOMAIN publishing = Workers /\ AsFunction(publishing)
  /\ \A w \in Workers : DOMAIN publishing[w] = TransactionFields

TransactionsInv ==
  \A w \in Workers :
    \/ publishing[w] = NoTransaction
    \/ TransactionSound(publishing[w], spoiled[publishing[w].dir])

PlacesInv ==
  \A d \in Stages :
    /\ SolidOrNone(d, sets[d], spoiled[d])
    /\ ~spoiled[d] /\ published[d] =>
         \E w \in Workers : Safe(d, sets[d], litter[d], publishing[w])

ProperInv ==
  /\ \A d \in Stages : Proper(d, sets[d], Known)
  /\ \A w \in Workers : publishing[w].at # "idle" =>
       /\ Proper(publishing[w].dir, publishing[w].new, Known)
       /\ Proper(publishing[w].dir, publishing[w].old, Known)
       /\ Proper(publishing[w].dir, publishing[w].failed, Known)

OutputsInv == OutputTypes /\ TransactionsInv /\ PlacesInv /\ ProperInv

(* What a step of w may do, with t for its transaction and the new sets,   *)
(* litter, published and spoiled.                                          *)
GoodStep(w, t, setsA, litterA, publishedA, spoiledA, known) ==
  /\ DOMAIN setsA = Stages /\ AsFunction(setsA)
  /\ DOMAIN litterA = Stages /\ AsFunction(litterA)
  /\ publishedA \in [Stages -> BOOLEAN]
  /\ spoiledA \in [Stages -> BOOLEAN]
  /\ DOMAIN t = TransactionFields
  /\ \/ t = NoTransaction
     \/ /\ TransactionSound(t, spoiledA[t.dir])
        /\ Proper(t.dir, t.new, known)
        /\ Proper(t.dir, t.old, known)
        /\ Proper(t.dir, t.failed, known)
  /\ \A d \in Stages :
       /\ spoiled[d] => spoiledA[d]
       /\ SolidOrNone(d, setsA[d], spoiledA[d])
       /\ Proper(d, setsA[d], known)
       /\ litter[d] \subseteq litterA[d]
       /\ ~spoiledA[d] /\ publishedA[d] /\ ~published[d] =>
            Safe(d, setsA[d], litterA[d], t)
       /\ ~spoiledA[d] /\ Safe(d, sets[d], litter[d], publishing[w]) =>
            Safe(d, setsA[d], litterA[d], t)
       /\ Whole(d, sets[d]) => Safe(d, setsA[d], litterA[d], t) \/ spoiledA[d]

Advances(w) ==
  \E t : /\ publishing' = [publishing EXCEPT ![w] = t]
         /\ GoodStep(w, t, sets', litter', published', spoiled', Known)

LEMMA Apart ==
  /\ "idle" \notin TransactionStages
  /\ NoTransaction.at = "idle"
  /\ DOMAIN NoTransaction = TransactionFields
BY DEF TransactionStages, NoTransaction, TransactionFields

LEMMA GoodStepsKeep ==
  ASSUME OutputsInv, NEW w \in Workers, Advances(w), UNCHANGED stored
  PROVE  OutputsInv'
<1>1. PICK t : /\ publishing' = [publishing EXCEPT ![w] = t]
               /\ GoodStep(w, t, sets', litter', published', spoiled', Known)
  BY DEF Advances
<1>2. /\ publishing'[w] = t
      /\ \A v \in Workers : v # w => publishing'[v] = publishing[v]
      /\ DOMAIN publishing' = Workers
      /\ AsFunction(publishing')
  BY <1>1 DEF OutputsInv, OutputTypes, AsFunction
<1>3. \A d \in Stages : spoiled[d] \in BOOLEAN /\ (spoiled[d] => spoiled'[d])
  BY <1>1 DEF GoodStep, OutputsInv, OutputTypes
<1>4. OutputTypes'
  BY <1>1, <1>2 DEF GoodStep, OutputsInv, OutputTypes, AsFunction
<1>5. TransactionsInv'
  <2> SUFFICES ASSUME NEW v \in Workers, publishing'[v] # NoTransaction
               PROVE  TransactionSound(publishing'[v], spoiled'[publishing'[v].dir])
    BY DEF TransactionsInv
  <2>1. CASE v = w
    BY <1>1, <1>2, <2>1 DEF GoodStep
  <2>2. CASE v # w
    <3>1. TransactionSound(publishing[v], spoiled[publishing[v].dir]) /\ publishing'[v] = publishing[v]
      BY <1>2, <2>2 DEF OutputsInv, TransactionsInv
    <3>2. spoiled[publishing[v].dir] => spoiled'[publishing[v].dir]
      BY <1>3, <3>1 DEF TransactionSound
    <3> QED BY <3>1, <3>2 DEF TransactionSound, SolidOrNone, Solid
  <2> QED BY <2>1, <2>2
<1>6. PlacesInv'
  <2> SUFFICES ASSUME NEW d \in Stages
               PROVE  /\ SolidOrNone(d, sets'[d], spoiled'[d])
                      /\ ~spoiled'[d] /\ published'[d] =>
                           \E v \in Workers : Safe(d, sets'[d], litter'[d], publishing'[v])
    BY DEF PlacesInv
  <2>1. SolidOrNone(d, sets'[d], spoiled'[d])
    BY <1>1 DEF GoodStep
  <2>2. ASSUME ~spoiled'[d], published'[d]
        PROVE  \E v \in Workers : Safe(d, sets'[d], litter'[d], publishing'[v])
    <3>1. CASE ~published[d]
      BY <1>1, <1>2, <2>2, <3>1 DEF GoodStep
    <3>2. CASE published[d]
      <4>1. PICK v \in Workers : Safe(d, sets[d], litter[d], publishing[v])
        BY <1>3, <2>2, <3>2 DEF OutputsInv, PlacesInv
      <4>2. CASE v = w
        BY <1>1, <1>2, <2>2, <4>1, <4>2 DEF GoodStep
      <4>3. CASE v # w
        <5>1. CASE Whole(d, sets[d])
          BY <1>1, <1>2, <2>2, <5>1 DEF GoodStep
        <5>2. CASE \E other \in litter[d] : Whole(d, other)
          BY <1>1, <2>2, <5>2 DEF GoodStep, Safe
        <5>3. CASE Guards(publishing[v], d)
          BY <1>2, <4>3, <5>3 DEF Safe
        <5> QED BY <4>1, <5>1, <5>2, <5>3 DEF Safe
      <4> QED BY <4>2, <4>3
    <3> QED BY <3>1, <3>2
  <2> QED BY <2>1, <2>2
<1>7. ProperInv'
  <2>1. Known' = Known
    BY DEF Known, KnownIn
  <2>2. \A d \in Stages : Proper(d, sets'[d], Known)
    BY <1>1 DEF GoodStep
  <2>3. ASSUME NEW v \in Workers, publishing'[v].at # "idle"
        PROVE  /\ Proper(publishing'[v].dir, publishing'[v].new, Known)
               /\ Proper(publishing'[v].dir, publishing'[v].old, Known)
               /\ Proper(publishing'[v].dir, publishing'[v].failed, Known)
    <3>1. CASE v = w
      BY <1>1, <1>2, <2>3, <3>1, Apart DEF GoodStep
    <3>2. CASE v # w
      BY <1>2, <2>3, <3>2 DEF OutputsInv, ProperInv
    <3> QED BY <3>1, <3>2
  <2> QED BY <2>1, <2>2, <2>3 DEF ProperInv
<1> QED BY <1>4, <1>5, <1>6, <1>7 DEF OutputsInv

(* A step that concerns one directory.                                     *)
StepHere(w, d, set, left, there, spoilt, t) ==
  /\ publishing[w].at = "idle" \/ publishing[w].dir = d
  /\ sets' = [sets EXCEPT ![d] = set]
  /\ litter' = [litter EXCEPT ![d] = litter[d] \cup left]
  /\ published' = [published EXCEPT ![d] = there] /\ there \in BOOLEAN
  /\ spoiled' = [spoiled EXCEPT ![d] = spoilt] /\ spoilt \in BOOLEAN
  /\ publishing' = [publishing EXCEPT ![w] = t]
  /\ DOMAIN t = TransactionFields
  /\ \/ t = NoTransaction
     \/ /\ t.dir = d
        /\ TransactionSound(t, spoilt)
        /\ Proper(d, t.new, Known)
        /\ Proper(d, t.old, Known)
        /\ Proper(d, t.failed, Known)
  /\ spoiled[d] => spoilt
  /\ SolidOrNone(d, set, spoilt)
  /\ Proper(d, set, Known)
  /\ ~spoilt /\ there /\ ~published[d] => Safe(d, set, litter[d] \cup left, t)
  /\ ~spoilt /\ Safe(d, sets[d], litter[d], publishing[w]) =>
       Safe(d, set, litter[d] \cup left, t)

LEMMA StepsHere ==
  ASSUME OutputsInv, NEW w \in Workers, NEW d \in Stages,
         NEW set, NEW left, NEW there, NEW spoilt, NEW t,
         StepHere(w, d, set, left, there, spoilt, t)
  PROVE  Advances(w)
<1> USE DEF StepHere
<1>1. /\ sets'[d] = set /\ litter'[d] = litter[d] \cup left
      /\ published'[d] = there /\ spoiled'[d] = spoilt
  BY DEF OutputsInv, OutputTypes
<1>2. \A e \in Stages : e # d =>
        /\ sets'[e] = sets[e] /\ litter'[e] = litter[e]
        /\ published'[e] = published[e] /\ spoiled'[e] = spoiled[e]
  BY DEF OutputsInv, OutputTypes
<1>3. /\ DOMAIN sets' = Stages /\ AsFunction(sets')
      /\ DOMAIN litter' = Stages /\ AsFunction(litter')
      /\ published' \in [Stages -> BOOLEAN]
      /\ spoiled' \in [Stages -> BOOLEAN]
  BY DEF OutputsInv, OutputTypes, AsFunction
<1>4. ASSUME NEW e \in Stages
      PROVE  /\ spoiled[e] => spoiled'[e]
             /\ SolidOrNone(e, sets'[e], spoiled'[e])
             /\ Proper(e, sets'[e], Known)
             /\ litter[e] \subseteq litter'[e]
             /\ ~spoiled'[e] /\ published'[e] /\ ~published[e] =>
                  Safe(e, sets'[e], litter'[e], t)
             /\ ~spoiled'[e] /\ Safe(e, sets[e], litter[e], publishing[w]) =>
                  Safe(e, sets'[e], litter'[e], t)
  <2>1. CASE e = d
    BY <1>1, <2>1
  <2>2. CASE e # d
    <3>1. ~Guards(publishing[w], e)
      BY <2>2 DEF Guards
    <3> QED BY <1>2, <2>2, <3>1 DEF Safe, OutputsInv, PlacesInv, ProperInv
  <2> QED BY <2>1, <2>2
<1>5. \A e \in Stages : Whole(e, sets[e]) => Safe(e, sets'[e], litter'[e], t) \/ spoiled'[e]
  BY <1>4 DEF Safe
<1>6. \/ t = NoTransaction
      \/ /\ TransactionSound(t, spoiled'[t.dir])
         /\ Proper(t.dir, t.new, Known)
         /\ Proper(t.dir, t.old, Known)
         /\ Proper(t.dir, t.failed, Known)
  BY <1>1
<1>7. GoodStep(w, t, sets', litter', published', spoiled', Known)
  BY <1>3, <1>4, <1>5, <1>6 DEF GoodStep
<1> QED BY <1>7 DEF Advances

Same(f, g, d) == g = [f EXCEPT ![d] = f[d]]

Unmoved(d) ==
  /\ Same(sets, sets', d)
  /\ litter' = [litter EXCEPT ![d] = litter[d] \cup {}]
  /\ Same(published, published', d) /\ published[d] \in BOOLEAN
  /\ Same(spoiled, spoiled', d) /\ spoiled[d] \in BOOLEAN

LEMMA AsBefore ==
  ASSUME OutputsInv, NEW d \in Stages
  PROVE  /\ sets = [sets EXCEPT ![d] = sets[d]]
         /\ litter = [litter EXCEPT ![d] = litter[d] \cup {}]
         /\ published = [published EXCEPT ![d] = published[d]]
         /\ spoiled = [spoiled EXCEPT ![d] = spoiled[d]]
         /\ published[d] \in BOOLEAN /\ spoiled[d] \in BOOLEAN
<1>1. litter[d] \cup {} = litter[d]
  OBVIOUS
<1> QED BY <1>1 DEF OutputsInv, OutputTypes, AsFunction

(* What is known of the transaction a step starts from.                    *)
LEMMA Underway ==
  ASSUME OutputsInv, NEW w \in Workers, publishing[w].at # "idle"
  PROVE  /\ publishing[w].dir \in Stages
         /\ DOMAIN publishing[w] = TransactionFields
         /\ TransactionSound(publishing[w], spoiled[publishing[w].dir])
         /\ Proper(publishing[w].dir, publishing[w].new, Known)
         /\ Proper(publishing[w].dir, publishing[w].old, Known)
         /\ Proper(publishing[w].dir, publishing[w].failed, Known)
         /\ SolidOrNone(publishing[w].dir, sets[publishing[w].dir], spoiled[publishing[w].dir])
         /\ Proper(publishing[w].dir, sets[publishing[w].dir], Known)
<1>1. publishing[w] # NoTransaction
  BY Apart
<1>2. TransactionSound(publishing[w], spoiled[publishing[w].dir])
  BY <1>1 DEF OutputsInv, TransactionsInv
<1>3. publishing[w].dir \in Stages
  BY <1>2 DEF TransactionSound
<1> QED BY <1>2, <1>3 DEF OutputsInv, OutputTypes, PlacesInv, ProperInv

LEMMA NoSetIsProper ==
  ASSUME NEW d, NEW known PROVE Proper(d, NoSet, known) /\ ~Whole(d, NoSet)
BY DEF Proper, Whole

LEMMA PrepareAdvances ==
  ASSUME OutputsInv, NEW w \in Workers, PrepareNew(w)
  PROVE  Advances(w)
<1> DEFINE t == publishing[w]
           d == t.dir
           u == [t EXCEPT !.at = "look"]
<1>1. t.at = "prepare"
  BY DEF PrepareNew
<1>2. /\ d \in Stages /\ DOMAIN t = TransactionFields /\ TransactionSound(t, spoiled[d])
      /\ Proper(d, t.new, Known) /\ Proper(d, t.old, Known) /\ Proper(d, t.failed, Known)
      /\ SolidOrNone(d, sets[d], spoiled[d]) /\ Proper(d, sets[d], Known)
  BY <1>1, Underway
<1>3. publishing' = [publishing EXCEPT ![w] = u] \/ publishing' = [publishing EXCEPT ![w] = NoTransaction]
  BY DEF PrepareNew, Reaches, Goes
<1>4. /\ u.at = "look" /\ u.dir = d /\ u.new = t.new /\ u.old = t.old /\ u.failed = t.failed
      /\ DOMAIN u = TransactionFields
  BY <1>2 DEF TransactionFields
<1>5. ~Guards(t, d)
  BY <1>1 DEF Guards
<1> HIDE DEF u
<1>6. TransactionSound(u, spoiled[d])
  BY <1>1, <1>2, <1>4 DEF TransactionSound, TransactionStages
<1>7. Unmoved(d)
  BY <1>2, AsBefore DEF PrepareNew, Unmoved, Same
<1>8. CASE publishing' = [publishing EXCEPT ![w] = u]
  <2>1. StepHere(w, d, sets[d], {}, published[d], spoiled[d], u)
    BY <1>2, <1>4, <1>5, <1>6, <1>7, <1>8 DEF Safe, StepHere, Unmoved, Same
  <2> QED BY <1>2, <2>1, StepsHere
<1>9. CASE publishing' = [publishing EXCEPT ![w] = NoTransaction]
  <2>1. StepHere(w, d, sets[d], {}, published[d], spoiled[d], NoTransaction)
    BY <1>2, <1>5, <1>7, <1>9, Apart DEF Safe, StepHere, Unmoved, Same
  <2> QED BY <1>2, <2>1, StepsHere
<1> QED BY <1>3, <1>8, <1>9

(* Steps that change nothing but the stage of the transaction, and steps   *)
(* that end it.                                                            *)
LEMMA Reaching ==
  ASSUME OutputsInv, NEW w \in Workers, publishing[w].at # "idle",
         NEW next, Reaches(w, next),
         UNCHANGED <<sets, litter, published, spoiled>>,
         TransactionSound([publishing[w] EXCEPT !.at = next], spoiled[publishing[w].dir]),
         \/ spoiled[publishing[w].dir]
         \/ ~Guards(publishing[w], publishing[w].dir)
         \/ next \in {"install", "undo", "restore", "retry"}
         \/ Whole(publishing[w].dir, sets[publishing[w].dir])
  PROVE  Advances(w)
<1> DEFINE t == publishing[w]
           d == t.dir
           u == [t EXCEPT !.at = next]
<1>1. /\ d \in Stages /\ DOMAIN t = TransactionFields
      /\ Proper(d, t.new, Known) /\ Proper(d, t.old, Known) /\ Proper(d, t.failed, Known)
      /\ SolidOrNone(d, sets[d], spoiled[d]) /\ Proper(d, sets[d], Known)
  BY Underway
<1>2. /\ u.at = next /\ u.dir = d /\ u.new = t.new /\ u.old = t.old /\ u.failed = t.failed
      /\ DOMAIN u = TransactionFields
  BY <1>1 DEF TransactionFields
<1>3. publishing' = [publishing EXCEPT ![w] = u]
  BY DEF Reaches
<1>4. TransactionSound(u, spoiled[d])
  OBVIOUS
<1>5. Unmoved(d)
  BY <1>1, AsBefore DEF Unmoved, Same
<1> HIDE DEF u
<1>6. ~spoiled[d] /\ Safe(d, sets[d], litter[d], t) => Safe(d, sets[d], litter[d] \cup {}, u)
  BY <1>2 DEF Safe, Guards
<1>7. StepHere(w, d, sets[d], {}, published[d], spoiled[d], u)
  BY <1>1, <1>2, <1>3, <1>4, <1>5, <1>6 DEF StepHere, Unmoved, Same
<1> QED BY <1>1, <1>7, StepsHere

LEMMA Ending ==
  ASSUME OutputsInv, NEW w \in Workers, publishing[w].at # "idle",
         Goes(w, NoTransaction), UNCHANGED <<sets, published, spoiled>>,
         NEW left, litter' = [litter EXCEPT ![publishing[w].dir] = litter[publishing[w].dir] \cup left],
         \/ ~Guards(publishing[w], publishing[w].dir)
         \/ {publishing[w].old, publishing[w].failed} \subseteq left
  PROVE  Advances(w)
<1> DEFINE t == publishing[w]
           d == t.dir
<1>1. /\ d \in Stages
      /\ SolidOrNone(d, sets[d], spoiled[d]) /\ Proper(d, sets[d], Known)
  BY Underway
<1>2. /\ Same(sets, sets', d)
      /\ Same(published, published', d) /\ published[d] \in BOOLEAN
      /\ Same(spoiled, spoiled', d) /\ spoiled[d] \in BOOLEAN
  BY <1>1, AsBefore DEF Same
<1>3. Safe(d, sets[d], litter[d], t) => Safe(d, sets[d], litter[d] \cup left, NoTransaction)
  BY DEF Safe, Guards
<1>4. StepHere(w, d, sets[d], left, published[d], spoiled[d], NoTransaction)
  BY <1>1, <1>2, <1>3, Apart DEF StepHere, Same, Goes
<1> QED BY <1>1, <1>4, StepsHere

LEMMA AtOnly ==
  ASSUME NEW t, DOMAIN t = TransactionFields, NEW next
  PROVE  LET u == [t EXCEPT !.at = next]
         IN  /\ u.at = next /\ u.dir = t.dir /\ u.new = t.new /\ u.old = t.old
             /\ u.failed = t.failed
BY DEF TransactionFields

LEMMA LookAdvances ==
  ASSUME OutputsInv, NEW w \in Workers, LookForOld(w)
  PROVE  Advances(w)
<1> DEFINE t == publishing[w]
           d == t.dir
           next == IF sets[d] = NoSet THEN "install" ELSE "move"
           u == [t EXCEPT !.at = next]
<1>1. t.at = "look" /\ Reaches(w, next)
  BY DEF LookForOld
<1>2. DOMAIN t = TransactionFields /\ TransactionSound(t, spoiled[d])
  BY <1>1, Underway
<1>3. u.at = next /\ u.dir = d /\ u.new = t.new /\ u.old = t.old /\ u.failed = t.failed
  BY <1>2, AtOnly
<1> HIDE DEF u
<1>4. TransactionSound(u, spoiled[d])
  BY <1>1, <1>2, <1>3 DEF TransactionSound, TransactionStages
<1>5. ~Guards(t, d)
  BY <1>1 DEF Guards
<1> QED BY <1>1, <1>4, <1>5, Reaching DEF LookForOld, u

LEMMA MoveAdvances ==
  ASSUME OutputsInv, NEW w \in Workers, MoveOld(w)
  PROVE  Advances(w)
<1> DEFINE t == publishing[w]
           d == t.dir
           u == [t EXCEPT !.at = "install", !.old = sets[d]]
           c == [t EXCEPT !.at = "clean"]
<1>1. t.at = "move"
  BY DEF MoveOld
<1>2. /\ d \in Stages /\ DOMAIN t = TransactionFields /\ TransactionSound(t, spoiled[d])
      /\ Proper(d, t.new, Known) /\ Proper(d, t.failed, Known)
      /\ SolidOrNone(d, sets[d], spoiled[d]) /\ Proper(d, sets[d], Known)
  BY <1>1, Underway
<1>3. ~Guards(t, d)
  BY <1>1 DEF Guards
<1>4. CASE /\ sets[d] # NoSet
           /\ Goes(w, u)
           /\ sets' = [sets EXCEPT ![d] = NoSet]
           /\ UNCHANGED <<litter, published, spoiled>>
  <2>1. /\ u.at = "install" /\ u.dir = d /\ u.new = t.new /\ u.old = sets[d] /\ u.failed = t.failed
        /\ DOMAIN u = TransactionFields
    BY <1>2 DEF TransactionFields
  <2> HIDE DEF u
  <2>2. TransactionSound(u, spoiled[d])
    BY <1>1, <1>2, <2>1 DEF TransactionSound, TransactionStages
  <2>3. Safe(d, sets[d], litter[d], t) => Safe(d, NoSet, litter[d] \cup {}, u)
    BY <1>3, <2>1 DEF Safe, Guards
  <2>4. StepHere(w, d, NoSet, {}, published[d], spoiled[d], u)
    BY <1>2, <1>4, <2>1, <2>2, <2>3, AsBefore, NoSetIsProper DEF StepHere, Goes, SolidOrNone
  <2> QED BY <1>2, <2>4, StepsHere
<1>5. CASE Reaches(w, "clean") /\ UNCHANGED <<sets, litter, published, spoiled>>
  <2>1. c.at = "clean" /\ c.dir = d /\ c.new = t.new /\ c.old = t.old /\ c.failed = t.failed
    BY <1>2, AtOnly
  <2> HIDE DEF c
  <2>2. TransactionSound(c, spoiled[d])
    BY <1>1, <1>2, <2>1 DEF TransactionSound, TransactionStages
  <2> QED BY <1>1, <1>3, <1>5, <2>2, Reaching DEF c
<1> QED BY <1>4, <1>5 DEF MoveOld

LEMMA VacantIsNone ==
  ASSUME NEW d \in Stages, SolidOrNone(d, sets[d], spoiled[d]), ~spoiled[d], Vacant(d)
  PROVE  sets[d] = NoSet
<1>1. Filenames[d] # {}
  BY DEF Stages, Filenames
<1> QED BY <1>1 DEF SolidOrNone, Solid, Whole, Vacant

LEMMA InstallAdvances ==
  ASSUME OutputsInv, NEW w \in Workers, InstallNew(w)
  PROVE  Advances(w)
<1> DEFINE t == publishing[w]
           d == t.dir
           next == IF t.old = NoSet THEN "clean" ELSE "remove"
           u == [t EXCEPT !.at = next, !.new = NoSet]
           c == [t EXCEPT !.at = "restore"]
<1>1. t.at = "install"
  BY DEF InstallNew
<1>2. /\ d \in Stages /\ DOMAIN t = TransactionFields /\ TransactionSound(t, spoiled[d])
      /\ Proper(d, t.new, Known) /\ Proper(d, t.old, Known) /\ Proper(d, t.failed, Known)
      /\ SolidOrNone(d, sets[d], spoiled[d]) /\ Proper(d, sets[d], Known)
  BY <1>1, Underway
<1>3. CASE /\ Goes(w, u)
           /\ sets' = [sets EXCEPT ![d] = t.new]
           /\ published' = [published EXCEPT ![d] = TRUE]
           /\ UNCHANGED <<litter, spoiled>>
  <2>1. /\ u.at = next /\ u.dir = d /\ u.new = NoSet /\ u.old = t.old /\ u.failed = t.failed
        /\ DOMAIN u = TransactionFields
    BY <1>2 DEF TransactionFields
  <2> HIDE DEF u
  <2>2. Whole(d, t.new) /\ AsFunction(t.new)
    BY <1>1, <1>2 DEF TransactionSound
  <2>3. TransactionSound(u, spoiled[d])
    BY <1>1, <1>2, <2>1 DEF TransactionSound, TransactionStages, SolidOrNone
  <2>4. Safe(d, t.new, litter[d] \cup {}, u) /\ SolidOrNone(d, t.new, spoiled[d])
    BY <2>2 DEF Safe, SolidOrNone, Solid
  <2>5. StepHere(w, d, t.new, {}, TRUE, spoiled[d], u)
    BY <1>2, <1>3, <2>1, <2>3, <2>4, AsBefore, NoSetIsProper DEF StepHere, Goes
  <2> QED BY <1>2, <2>5, StepsHere
<1>4. CASE Reaches(w, "restore") /\ UNCHANGED <<sets, litter, published, spoiled>>
  <2>1. c.at = "restore" /\ c.dir = d /\ c.new = t.new /\ c.old = t.old /\ c.failed = t.failed
    BY <1>2, AtOnly
  <2> HIDE DEF c
  <2>2. TransactionSound(c, spoiled[d])
    BY <1>1, <1>2, <2>1 DEF TransactionSound, TransactionStages
  <2> QED BY <1>1, <1>4, <2>2, Reaching DEF c
<1> QED BY <1>3, <1>4 DEF InstallNew

(* A set that lost files is proper: it still is of one build if it is      *)
(* complete, and its manifest is what it was.                              *)
LEMMA PartsAreProper ==
  ASSUME NEW d \in Stages, NEW set, NEW known, set # NoSet, Proper(d, set, known),
         NEW names \in SUBSET DOMAIN set
  PROVE  /\ Proper(d, Only(set, names), known)
         /\ AsFunction(Only(set, names))
         /\ DOMAIN Only(set, names) = names
<1> DEFINE part == Only(set, names)
<1>1. DOMAIN part = names /\ \A name \in names : part[name] = set[name]
  BY DEF Only
<1>2. AsFunction(part)
  BY DEF Only, AsFunction
<1>3. ASSUME "manifest" \in names PROVE part.manifest = set.manifest
  BY <1>1, <1>3
<1>4. ASSUME Filenames[d] \subseteq names PROVE OfOneBuild(d, part) /\ Unseen(d, part)
  <2>1. OfOneBuild(d, set) /\ Unseen(d, set)
    BY <1>4 DEF Proper
  <2>2. CASE d = "dataset"
    <3>1. part.manifest = set.manifest /\ part.decisions = set.decisions /\ part.outcomes = set.outcomes
      BY <1>1, <1>4, <2>2 DEF Filenames
    <3> HIDE DEF part
    <3> QED BY <2>1, <2>2, <3>1 DEF OfOneBuild, Unseen
  <2>3. CASE d = "training"
    <3>1. part.manifest = set.manifest /\ part.training = set.training
      BY <1>1, <1>4, <2>3 DEF Filenames
    <3> HIDE DEF part
    <3> QED BY <2>1, <2>3, <3>1 DEF OfOneBuild, Unseen
  <2>4. CASE d = "model"
    <3>1. part.manifest = set.manifest /\ part.model = set.model
      BY <1>1, <1>4, <2>4 DEF Filenames
    <3> HIDE DEF part
    <3> QED BY <2>1, <2>4, <3>1 DEF OfOneBuild, Unseen
  <2>5. CASE d \in {"baseline", "holdout"}
    <3>1. part.evaluation = set.evaluation /\ part.predictions = set.predictions
      BY <1>1, <1>4, <2>5 DEF Filenames
    <3> HIDE DEF part
    <3> QED BY <2>1, <2>5, <3>1 DEF OfOneBuild, Unseen
  <2> QED BY <2>2, <2>3, <2>4, <2>5 DEF Stages
<1> HIDE DEF part
<1>5. Proper(d, part, known)
  BY <1>1, <1>3, <1>4 DEF Proper
<1> QED BY <1>1, <1>2, <1>5 DEF part

LEMMA RemoveAdvances ==
  ASSUME OutputsInv, NEW w \in Workers, RemoveOld(w)
  PROVE  Advances(w)
<1> DEFINE t == publishing[w]
           d == t.dir
           u == [t EXCEPT !.at = "clean", !.old = NoSet]
<1>1. t.at = "remove"
  BY DEF RemoveOld
<1>2. /\ d \in Stages /\ DOMAIN t = TransactionFields /\ TransactionSound(t, spoiled[d])
      /\ Proper(d, t.new, Known) /\ Proper(d, t.old, Known) /\ Proper(d, t.failed, Known)
      /\ SolidOrNone(d, sets[d], spoiled[d]) /\ Proper(d, sets[d], Known)
  BY <1>1, Underway
<1>3. ~Guards(t, d) /\ t.old # NoSet /\ (spoiled[d] \/ Whole(d, t.old))
  BY <1>1, <1>2 DEF Guards, TransactionSound, Solid
<1>4. CASE Goes(w, u) /\ UNCHANGED <<sets, litter, published, spoiled>>
  <2>1. /\ u.at = "clean" /\ u.dir = d /\ u.new = t.new /\ u.old = NoSet /\ u.failed = t.failed
        /\ DOMAIN u = TransactionFields
    BY <1>2 DEF TransactionFields
  <2> HIDE DEF u
  <2>2. TransactionSound(u, spoiled[d])
    BY <1>1, <1>2, <2>1 DEF TransactionSound, TransactionStages, SolidOrNone
  <2>3. Safe(d, sets[d], litter[d], t) => Safe(d, sets[d], litter[d] \cup {}, u)
    BY <1>3 DEF Safe
  <2>4. StepHere(w, d, sets[d], {}, published[d], spoiled[d], u)
    BY <1>2, <1>4, <2>1, <2>2, <2>3, AsBefore, NoSetIsProper DEF StepHere, Goes
  <2> QED BY <1>2, <2>4, StepsHere
<1>5. ASSUME NEW names \in SUBSET DOMAIN t.old,
             Goes(w, [t EXCEPT !.at = "undo", !.old = Only(t.old, names)]),
             spoiled' = [spoiled EXCEPT ![d] = spoiled[d] \/ names # DOMAIN t.old],
             UNCHANGED <<sets, litter, published>>
      PROVE  Advances(w)
  <2> DEFINE part == Only(t.old, names)
             v == [t EXCEPT !.at = "undo", !.old = part]
             spoilt == spoiled[d] \/ names # DOMAIN t.old
  <2>1. /\ v.at = "undo" /\ v.dir = d /\ v.new = t.new /\ v.old = part /\ v.failed = t.failed
        /\ DOMAIN v = TransactionFields
    BY <1>2 DEF TransactionFields
  <2>2. Goes(w, v)
    BY <1>5
  <2>3. Proper(d, part, Known) /\ AsFunction(part) /\ DOMAIN part = names
    BY <1>2, <1>3, PartsAreProper
  <2>4. ~spoilt => part = t.old
    <3>1. ~spoilt => AsFunction(t.old) /\ names = DOMAIN t.old
      BY <1>1, <1>2 DEF TransactionSound, Solid
    <3>2. AsFunction(t.old) /\ names = DOMAIN t.old => part = t.old
      BY DEF AsFunction, Only
    <3> QED BY <3>1, <3>2
  <2> HIDE DEF v, part
  <2>5. Solid(d, part, spoilt)
    BY <1>1, <1>2, <2>4 DEF Solid, TransactionSound
  <2>6. spoilt \in BOOLEAN /\ (spoiled[d] => spoilt)
    BY <1>2 DEF OutputsInv, OutputTypes
  <2> HIDE DEF spoilt
  <2>7. TransactionSound(v, spoilt)
    BY <1>1, <1>2, <2>1, <2>5, <2>6 DEF TransactionSound, TransactionStages, SolidOrNone, Solid
  <2>8. Safe(d, sets[d], litter[d], t) => Safe(d, sets[d], litter[d] \cup {}, v)
    BY <1>3 DEF Safe
  <2>9. SolidOrNone(d, sets[d], spoilt)
    BY <1>2, <2>6 DEF SolidOrNone, Solid
  <2>10. spoiled' = [spoiled EXCEPT ![d] = spoilt]
    BY <1>5 DEF spoilt
  <2>11. StepHere(w, d, sets[d], {}, published[d], spoilt, v)
    BY <1>2, <1>5, <2>1, <2>2, <2>3, <2>6, <2>7, <2>8, <2>9, <2>10, AsBefore DEF StepHere, Goes
  <2> QED BY <1>2, <2>11, StepsHere
<1>6. CASE \E names \in SUBSET DOMAIN t.old :
             /\ Goes(w, [t EXCEPT !.at = "undo", !.old = Only(t.old, names)])
             /\ spoiled' = [spoiled EXCEPT ![d] = spoiled[d] \/ names # DOMAIN t.old]
             /\ UNCHANGED <<sets, litter, published>>
  BY <1>5, <1>6
<1> QED BY <1>4, <1>6 DEF RemoveOld

LEMMA UndoAdvances ==
  ASSUME OutputsInv, NEW w \in Workers, UndoInstall(w)
  PROVE  Advances(w)
<1> DEFINE t == publishing[w]
           d == t.dir
           u == [t EXCEPT !.at = "restore", !.failed = sets[d]]
           c == [t EXCEPT !.at = "retry"]
<1>1. t.at = "undo"
  BY DEF UndoInstall
<1>2. /\ d \in Stages /\ DOMAIN t = TransactionFields /\ TransactionSound(t, spoiled[d])
      /\ Proper(d, t.new, Known) /\ Proper(d, t.old, Known) /\ Proper(d, t.failed, Known)
      /\ SolidOrNone(d, sets[d], spoiled[d]) /\ Proper(d, sets[d], Known)
  BY <1>1, Underway
<1>3. CASE /\ Goes(w, u)
           /\ sets' = [sets EXCEPT ![d] = NoSet]
           /\ UNCHANGED <<litter, published, spoiled>>
  <2>1. /\ u.at = "restore" /\ u.dir = d /\ u.new = t.new /\ u.old = t.old /\ u.failed = sets[d]
        /\ DOMAIN u = TransactionFields
    BY <1>2 DEF TransactionFields
  <2> HIDE DEF u
  <2>2. TransactionSound(u, spoiled[d])
    <3>1. ~spoiled[d] => t.old # NoSet
      BY <1>1, <1>2 DEF TransactionSound, Solid, Whole
    <3> QED BY <1>1, <1>2, <2>1, <3>1 DEF TransactionSound, TransactionStages
  <2>3. t.failed = NoSet /\ ~Whole(d, t.failed)
    BY <1>1, <1>2, NoSetIsProper DEF TransactionSound
  <2>4. Safe(d, sets[d], litter[d], t) => Safe(d, NoSet, litter[d] \cup {}, u)
    BY <2>1, <2>3 DEF Safe, Guards
  <2>5. StepHere(w, d, NoSet, {}, published[d], spoiled[d], u)
    BY <1>2, <1>3, <2>1, <2>2, <2>4, AsBefore, NoSetIsProper DEF StepHere, Goes, SolidOrNone
  <2> QED BY <1>2, <2>5, StepsHere
<1>4. CASE Reaches(w, "retry") /\ UNCHANGED <<sets, litter, published, spoiled>>
  <2>1. c.at = "retry" /\ c.dir = d /\ c.new = t.new /\ c.old = t.old /\ c.failed = t.failed
    BY <1>2, AtOnly
  <2> HIDE DEF c
  <2>2. TransactionSound(c, spoiled[d])
    BY <1>1, <1>2, <2>1 DEF TransactionSound, TransactionStages
  <2> QED BY <1>1, <1>4, <2>2, Reaching DEF c
<1> QED BY <1>3, <1>4 DEF UndoInstall

(* Putting the old set back, at the first or at the last attempt.          *)
LEMMA RestoringAdvances ==
  ASSUME OutputsInv, NEW w \in Workers, publishing[w].at \in {"restore", "retry"},
         publishing[w].old # NoSet,
         sets' = [sets EXCEPT ![publishing[w].dir] = publishing[w].old],
         Goes(w, [publishing[w] EXCEPT !.at = "clean", !.old = NoSet]),
         UNCHANGED <<litter, published, spoiled>>
  PROVE  Advances(w)
<1> DEFINE t == publishing[w]
           d == t.dir
           u == [t EXCEPT !.at = "clean", !.old = NoSet]
<1>1. t.at # "idle"
  OBVIOUS
<1>2. /\ d \in Stages /\ DOMAIN t = TransactionFields /\ TransactionSound(t, spoiled[d])
      /\ Proper(d, t.new, Known) /\ Proper(d, t.old, Known) /\ Proper(d, t.failed, Known)
  BY <1>1, Underway
<1>3. /\ u.at = "clean" /\ u.dir = d /\ u.new = t.new /\ u.old = NoSet /\ u.failed = t.failed
      /\ DOMAIN u = TransactionFields
  BY <1>2 DEF TransactionFields
<1>4. Goes(w, u)
  OBVIOUS
<1> HIDE DEF u
<1>5. TransactionSound(u, spoiled[d])
  BY <1>2, <1>3 DEF TransactionSound, TransactionStages, SolidOrNone
<1>6. SolidOrNone(d, t.old, spoiled[d]) /\ (~spoiled[d] => Whole(d, t.old))
  BY <1>2 DEF TransactionSound, SolidOrNone, Solid
<1>7. ~spoiled[d] => Safe(d, t.old, litter[d] \cup {}, u)
  BY <1>6 DEF Safe
<1>8. StepHere(w, d, t.old, {}, published[d], spoiled[d], u)
  BY <1>2, <1>3, <1>4, <1>5, <1>6, <1>7, AsBefore, NoSetIsProper DEF StepHere, Goes
<1> QED BY <1>2, <1>8, StepsHere

LEMMA RestoreAdvances ==
  ASSUME OutputsInv, NEW w \in Workers, RestoreOld(w)
  PROVE  Advances(w)
<1> DEFINE t == publishing[w]
           d == t.dir
           c == [t EXCEPT !.at = "clean"]
           r == [t EXCEPT !.at = "retry"]
<1>1. t.at = "restore"
  BY DEF RestoreOld
<1>2. d \in Stages /\ DOMAIN t = TransactionFields /\ TransactionSound(t, spoiled[d])
  BY <1>1, Underway
<1>3. CASE t.old = NoSet /\ Reaches(w, "clean") /\ UNCHANGED <<sets, litter, published, spoiled>>
  <2>1. c.at = "clean" /\ c.dir = d /\ c.new = t.new /\ c.old = t.old /\ c.failed = t.failed
    BY <1>2, AtOnly
  <2> HIDE DEF c
  <2>2. TransactionSound(c, spoiled[d])
    BY <1>1, <1>2, <2>1 DEF TransactionSound, TransactionStages
  <2>3. spoiled[d] \/ ~Guards(t, d)
    BY <1>1, <1>2, <1>3, NoSetIsProper DEF TransactionSound, Guards
  <2> QED BY <1>1, <1>3, <2>2, <2>3, Reaching DEF c
<1>4. CASE /\ t.old # NoSet
           /\ sets' = [sets EXCEPT ![d] = t.old]
           /\ Goes(w, [t EXCEPT !.at = "clean", !.old = NoSet])
           /\ UNCHANGED <<litter, published, spoiled>>
  BY <1>1, <1>4, RestoringAdvances
<1>5. CASE t.old # NoSet /\ Reaches(w, "retry") /\ UNCHANGED <<sets, litter, published, spoiled>>
  <2>1. r.at = "retry" /\ r.dir = d /\ r.new = t.new /\ r.old = t.old /\ r.failed = t.failed
    BY <1>2, AtOnly
  <2> HIDE DEF r
  <2>2. TransactionSound(r, spoiled[d])
    BY <1>1, <1>2, <1>5, <2>1 DEF TransactionSound, TransactionStages, SolidOrNone
  <2> QED BY <1>1, <1>5, <2>2, Reaching DEF r
<1> QED BY <1>3, <1>4, <1>5 DEF RestoreOld

LEMMA RetryAdvances ==
  ASSUME OutputsInv, NEW w \in Workers, RetryRestore(w)
  PROVE  Advances(w)
<1> DEFINE t == publishing[w]
           d == t.dir
           u == [t EXCEPT !.at = "clean", !.old = NoSet]
           c == [t EXCEPT !.at = "clean"]
<1>1. t.at = "retry"
  BY DEF RetryRestore
<1>2. /\ d \in Stages /\ DOMAIN t = TransactionFields /\ TransactionSound(t, spoiled[d])
      /\ Proper(d, t.new, Known) /\ Proper(d, t.old, Known) /\ Proper(d, t.failed, Known)
      /\ SolidOrNone(d, sets[d], spoiled[d]) /\ Proper(d, sets[d], Known)
  BY <1>1, Underway
<1>3. CASE /\ sets' = [sets EXCEPT ![d] = t.old]
           /\ Goes(w, u)
           /\ UNCHANGED <<litter, published, spoiled>>
  <2>1. CASE t.old # NoSet
    BY <1>1, <1>3, <2>1, RestoringAdvances
  <2>2. CASE t.old = NoSet
    <3>1. spoiled[d]
      BY <1>1, <1>2, <2>2, NoSetIsProper DEF TransactionSound, Solid
    <3>2. /\ u.at = "clean" /\ u.dir = d /\ u.new = t.new /\ u.old = NoSet /\ u.failed = t.failed
          /\ DOMAIN u = TransactionFields
      BY <1>2 DEF TransactionFields
    <3> HIDE DEF u
    <3>3. TransactionSound(u, spoiled[d])
      BY <1>2, <1>1, <3>2 DEF TransactionSound, TransactionStages, SolidOrNone
    <3>4. SolidOrNone(d, t.old, spoiled[d]) /\ Proper(d, NoSet, Known)
      BY <1>2, NoSetIsProper DEF TransactionSound
    <3>5. Goes(w, u)
      BY <1>3 DEF u
    <3>6. StepHere(w, d, t.old, {}, published[d], spoiled[d], u)
      BY <1>2, <1>3, <3>1, <3>2, <3>3, <3>4, <3>5, AsBefore DEF StepHere, Goes
    <3> QED BY <1>2, <3>6, StepsHere
  <2> QED BY <2>1, <2>2
<1>4. CASE sets[d] # NoSet /\ Reaches(w, "clean") /\ UNCHANGED <<sets, litter, published, spoiled>>
  <2>1. c.at = "clean" /\ c.dir = d /\ c.new = t.new /\ c.old = t.old /\ c.failed = t.failed
    BY <1>2, AtOnly
  <2> HIDE DEF c
  <2>2. TransactionSound(c, spoiled[d])
    BY <1>1, <1>2, <2>1 DEF TransactionSound, TransactionStages
  <2>3. spoiled[d] \/ Whole(d, sets[d])
    BY <1>2, <1>4 DEF SolidOrNone, Solid
  <2> QED BY <1>1, <1>4, <2>2, <2>3, Reaching DEF c
<1>5. CASE /\ litter' = [litter EXCEPT ![d] = litter[d] \cup {t.new, t.old, t.failed}]
           /\ Goes(w, NoTransaction)
           /\ UNCHANGED <<sets, published, spoiled>>
  <2>1. {t.old, t.failed} \subseteq {t.new, t.old, t.failed}
    OBVIOUS
  <2> QED BY <1>1, <1>5, <2>1, Ending
<1> QED BY <1>3, <1>4, <1>5 DEF RetryRestore

LEMMA CleaningAdvances ==
  ASSUME OutputsInv, NEW w \in Workers, RemoveTransaction(w)
  PROVE  Advances(w)
<1>1. publishing[w].at = "clean" /\ ~Guards(publishing[w], publishing[w].dir)
  BY DEF RemoveTransaction, Guards
<1>2. publishing[w].dir \in Stages
  BY <1>1, Underway
<1>3. litter' = [litter EXCEPT ![publishing[w].dir] = litter[publishing[w].dir] \cup {}]
  BY <1>2, AsBefore DEF RemoveTransaction
<1> QED BY <1>1, <1>3, Ending DEF RemoveTransaction

LEMMA KilledAdvances ==
  ASSUME OutputsInv, NEW w \in Workers, BuildKilled(w)
  PROVE  Advances(w)
<1> DEFINE t == publishing[w]
           left == IF t.at = "prepare" THEN {} ELSE {t.new, t.old, t.failed}
<1>1. /\ t.at # "idle"
      /\ litter' = [litter EXCEPT ![t.dir] = litter[t.dir] \cup left]
      /\ Goes(w, NoTransaction) /\ UNCHANGED <<sets, published, spoiled>>
  BY DEF BuildKilled
<1>2. \/ ~Guards(t, t.dir)
      \/ {t.old, t.failed} \subseteq left
  BY DEF Guards
<1> HIDE DEF left
<1> QED BY <1>1, <1>2, Ending

LEMMA ReplacingKeeps ==
  ASSUME OutputsInv, NEW w \in Workers, ReplaceOutputSet(w)
  PROVE  OutputsInv'
<1>1. Advances(w)
  BY PrepareAdvances, LookAdvances, MoveAdvances, InstallAdvances, RemoveAdvances,
     UndoAdvances, RestoreAdvances, RetryAdvances, CleaningAdvances, KilledAdvances
  DEF ReplaceOutputSet
<1>2. UNCHANGED stored
  BY DEF ReplaceOutputSet, trajectoryVars
<1> QED BY <1>1, <1>2, GoodStepsKeep

(* A build that has a proper set ready.                                    *)
LEMMA StartingKeeps ==
  ASSUME OutputsInv, NEW w \in Workers, publishing[w].at = "idle",
         NEW d \in Stages, NEW files, StartPublishing(w, d, files),
         Whole(d, files), AsFunction(files), Proper(d, files, Known),
         UNCHANGED stored
  PROVE  OutputsInv'
<1> DEFINE u == [NoTransaction EXCEPT !.at = "prepare", !.dir = d, !.new = files]
<1>1. /\ u.at = "prepare" /\ u.dir = d /\ u.new = files /\ u.old = NoSet /\ u.failed = NoSet
      /\ DOMAIN u = TransactionFields
  BY DEF NoTransaction, TransactionFields
<1>2. Goes(w, u) /\ UNCHANGED <<sets, litter, published, spoiled>>
  BY DEF StartPublishing
<1> HIDE DEF u
<1>3. TransactionSound(u, spoiled[d])
  BY <1>1 DEF TransactionSound, TransactionStages, SolidOrNone
<1>4. ~Guards(publishing[w], d)
  BY DEF Guards
<1>5. SolidOrNone(d, sets[d], spoiled[d]) /\ Proper(d, sets[d], Known)
  BY DEF OutputsInv, PlacesInv, ProperInv
<1>6. StepHere(w, d, sets[d], {}, published[d], spoiled[d], u)
  BY <1>1, <1>2, <1>3, <1>4, <1>5, AsBefore, NoSetIsProper DEF StepHere, Goes, Safe
<1> QED BY <1>6, StepsHere, GoodStepsKeep

(***************************************************************************)
(* Imports and the commands.                                               *)
(***************************************************************************)
ImportRecord ==
  [at : {"idle", "write", "recheck", "replace"}, artifact : Artifacts \cup {Nothing}]

TrajectoriesInv ==
  /\ importing \in [Importers -> ImportRecord]
  /\ raced \in [Importers -> BOOLEAN]
  /\ IsFiniteSet(DOMAIN stored)
  /\ \A name \in DOMAIN stored : name \in Nat /\ stored[name] \in Artifacts
  /\ \A i \in Importers :
       /\ importing[i].at # "idle" => importing[i].artifact \in Artifacts
       /\ importing[i].at = "replace" /\ Target(i) \in DOMAIN stored =>
            raced[i] /\ FileOf(stored[Target(i)]) = Target(i)

JobFields == {"at", "stage", "read", "todo", "artifacts"}

(* Every match of the training set that was read is in an artifact that    *)
(* was loaded or will be.                                                  *)
Covers(job, files, training) ==
  \A a \in training.decisions :
    \/ \E name \in DOMAIN job.artifacts : FileOf(job.artifacts[name]) = FileOf(a)
    \/ \E name \in job.todo : FileOf(files[name]) = FileOf(a)

Reads(job) == \E S : job.read \in Seq(S)

ReadSound(job, known) ==
  /\ job.at = "files" => job.stage # "dataset" /\ Len(job.read) < Len(Plan(job.stage))
  /\ job.at # "files" => Len(job.read) = Len(Plan(job.stage))
  /\ Len(job.read) >= 1 => ManifestOf(SourceDir(job.stage), job.read[1], known)

LoadSound(job, files) ==
  /\ job.todo \subseteq DOMAIN files
  /\ job.at = "artifacts" => job.todo # {}
  /\ job.at # "artifacts" => job.todo = {}
  /\ \A name \in DOMAIN job.artifacts :
       /\ job.artifacts[name] \in Artifacts
       /\ name \in DOMAIN files /\ FileOf(files[name]) = FileOf(job.artifacts[name])
  /\ job.at \in {"artifacts", "build"} /\ job.stage \in {"holdout", "model"} =>
       Covers(job, files, job.read[1].training)

JobSound(job, files, known) ==
  /\ DOMAIN job = JobFields
  /\ job.at \in {"idle", "files", "scan", "artifacts", "build"}
  /\ job.at # "idle" =>
       job.stage \in Stages /\ ReadSound(job, known) /\ LoadSound(job, files)

JobsInv ==
  /\ DOMAIN jobs = Workers
  /\ \A w \in Workers :
       /\ JobSound(jobs[w], stored, Known)
       /\ jobs[w].at = "idle" \/ publishing[w].at = "idle"

LEMMA ArtifactTypes ==
  /\ \A a \in Artifacts : FileOf(a) \in Nat \ {0}
  /\ \A e \in ValidExports : ArtifactOf[e] \in Artifacts
<1>1. ASSUME NEW a \in Artifacts PROVE FileOf(a) \in Nat \ {0}
  <2>1. PICK e \in ValidExports : Canonical(Raw[e]) = Trajectory[a]
    BY ArtifactsAreCanonical
  <2>2. Trajectory[a].match = Raw[e].match
    BY <2>1 DEF Canonical
  <2> QED BY <2>2, ExportsAreTyped DEF FileOf
<1>2. ASSUME NEW e \in ValidExports PROVE ArtifactOf[e] \in Artifacts
  <2>1. \E a \in Artifacts : Trajectory[a] = Canonical(Raw[e])
    BY ArtifactsAreCanonical
  <2> QED BY <2>1 DEF ArtifactOf
<1> QED BY <1>1, <1>2

(* A name keeps the match its file is of.                                  *)
StaysIn(old, new) ==
  \A name \in DOMAIN old : name \in DOMAIN new /\ FileOf(new[name]) = FileOf(old[name])

LEMMA NothingChanged ==
  /\ StaysIn(stored, stored)
BY DEF StaysIn

LEMMA ImportSteps ==
  ASSUME TrajectoriesInv, NEW i \in Importers,
         \/ \E e \in Exports : LoadExport(i, e)
         \/ WriteTemporary(i)
         \/ RecheckExisting(i)
         \/ ReplaceArtifact(i)
         \/ ImportKilled(i)
  PROVE  TrajectoriesInv' /\ StaysIn(stored, stored')
<1> USE DEF TrajectoriesInv
<1>1. \A j \in Importers : importing[j] \in ImportRecord
  OBVIOUS
<1>2. NoImport \in ImportRecord /\ NoImport.at = "idle"
  BY DEF NoImport, ImportRecord
<1>3. ASSUME UNCHANGED <<stored, raced>>, NEW r \in ImportRecord,
             importing' = [importing EXCEPT ![i] = r],
             r.at # "idle" => r.artifact \in Artifacts,
             r.at # "replace" \/ FileOf(r.artifact) \notin DOMAIN stored
      PROVE  TrajectoriesInv' /\ StaysIn(stored, stored')
  <2>1. importing'[i] = r /\ \A j \in Importers : j # i => importing'[j] = importing[j]
    BY <1>3
  <2>2. importing' \in [Importers -> ImportRecord]
    BY <1>3
  <2>3. ASSUME NEW j \in Importers
        PROVE  /\ importing'[j].at # "idle" => importing'[j].artifact \in Artifacts
               /\ importing'[j].at = "replace" /\ FileOf(importing'[j].artifact) \in DOMAIN stored =>
                    /\ raced[j]
                    /\ FileOf(stored[FileOf(importing'[j].artifact)]) = FileOf(importing'[j].artifact)
    <3>1. CASE j = i
      BY <1>3, <2>1, <3>1
    <3>2. CASE j # i
      BY <2>1, <3>2 DEF Target
    <3> QED BY <3>1, <3>2
  <2> QED BY <1>3, <2>2, <2>3 DEF StaysIn, Target
<1>4. ASSUME NEW e \in Exports, LoadExport(i, e) PROVE TrajectoriesInv' /\ StaysIn(stored, stored')
  <2> DEFINE r == [at |-> "write", artifact |-> ArtifactOf[e]]
  <2>1. e \in ValidExports /\ ArtifactOf[e] \in Artifacts
    BY <1>4, ArtifactTypes DEF LoadExport
  <2>2. r \in ImportRecord /\ r.at = "write" /\ r.artifact \in Artifacts
    BY <2>1 DEF ImportRecord
  <2>3. importing' = [importing EXCEPT ![i] = r] /\ UNCHANGED stored
        /\ raced' = [raced EXCEPT ![i] = FALSE]
    BY <1>4 DEF LoadExport
  <2> HIDE DEF r
  <2>4. importing' \in [Importers -> ImportRecord] /\ raced' \in [Importers -> BOOLEAN]
    BY <2>2, <2>3
  <2>5. ASSUME NEW j \in Importers
        PROVE  /\ importing'[j].at # "idle" => importing'[j].artifact \in Artifacts
               /\ importing'[j].at = "replace" /\ FileOf(importing'[j].artifact) \in DOMAIN stored =>
                    /\ raced'[j]
                    /\ FileOf(stored[FileOf(importing'[j].artifact)]) = FileOf(importing'[j].artifact)
    <3>1. CASE j = i
      BY <2>2, <2>3, <3>1
    <3>2. CASE j # i
      BY <2>3, <3>2 DEF Target
    <3> QED BY <3>1, <3>2
  <2> QED BY <2>3, <2>4, <2>5 DEF StaysIn, Target
<1>5. ASSUME NEW to \in {"recheck", "replace"}, Proceed(i, to), UNCHANGED <<stored, raced>>,
             importing[i].at # "idle",
             to # "replace" \/ Target(i) \notin DOMAIN stored
      PROVE  TrajectoriesInv' /\ StaysIn(stored, stored')
  <2> DEFINE r == [importing[i] EXCEPT !.at = to]
  <2>1. r \in ImportRecord /\ r.at = to /\ r.artifact = importing[i].artifact
    BY <1>1 DEF ImportRecord
  <2>2. importing' = [importing EXCEPT ![i] = r]
    BY <1>5 DEF Proceed
  <2> HIDE DEF r
  <2> QED BY <1>3, <1>5, <2>1, <2>2 DEF Target
<1>6. ASSUME Leave(i), UNCHANGED <<stored, raced>>
      PROVE  TrajectoriesInv' /\ StaysIn(stored, stored')
  BY <1>2, <1>3, <1>6 DEF Leave
<1>7. CASE WriteTemporary(i)
  BY <1>5, <1>6, <1>7 DEF WriteTemporary
<1>8. CASE RecheckExisting(i)
  BY <1>5, <1>6, <1>8 DEF RecheckExisting, ExistingArtifact
<1>9. CASE ImportKilled(i)
  BY <1>6, <1>9 DEF ImportKilled
<1>10. CASE ReplaceArtifact(i)
  <2> DEFINE target == Target(i)
             a == importing[i].artifact
  <2>1. importing[i].at = "replace" /\ a \in Artifacts /\ FileOf(a) = target /\ target \in Nat
    BY <1>10, ArtifactTypes DEF ReplaceArtifact, Target
  <2>2. /\ DOMAIN stored' = DOMAIN stored \cup {target}
        /\ stored'[target] = a
        /\ \A name \in DOMAIN stored : name # target => stored'[name] = stored[name]
    BY <1>10 DEF ReplaceArtifact
  <2>3. /\ importing' = [importing EXCEPT ![i] = NoImport]
        /\ raced' \in [Importers -> BOOLEAN]
        /\ \A j \in Importers :
             raced'[j] = (raced[j] \/ (importing[j].at = "replace" /\ j # i /\ Target(j) = target))
    BY <1>10 DEF ReplaceArtifact, Leave
  <2>4. IsFiniteSet(DOMAIN stored')
    BY <2>2, FS_AddElement
  <2>5. \A name \in DOMAIN stored' : name \in Nat /\ stored'[name] \in Artifacts
    BY <2>1, <2>2
  <2>6. target \in DOMAIN stored => FileOf(stored[target]) = target
    BY <2>1
  <2>7. StaysIn(stored, stored')
    BY <2>1, <2>2, <2>6 DEF StaysIn
  <2>8. importing' \in [Importers -> ImportRecord]
    BY <1>2, <2>3
  <2>9. ASSUME NEW j \in Importers
        PROVE  /\ importing'[j].at # "idle" => importing'[j].artifact \in Artifacts
               /\ importing'[j].at = "replace" /\ FileOf(importing'[j].artifact) \in DOMAIN stored' =>
                    /\ raced'[j]
                    /\ FileOf(stored'[FileOf(importing'[j].artifact)]) = FileOf(importing'[j].artifact)
    <3>1. CASE j = i
      BY <1>2, <2>3, <3>1
    <3>2. CASE j # i
      <4>1. importing'[j] = importing[j] /\ FileOf(importing[j].artifact) = Target(j)
        BY <2>3, <3>2 DEF Target
      <4>2. CASE importing[j].at = "replace" /\ Target(j) = target
        BY <2>1, <2>2, <2>3, <3>2, <4>1, <4>2
      <4>3. CASE importing[j].at = "replace" /\ Target(j) # target
        BY <2>2, <2>3, <4>1, <4>3
      <4>4. CASE importing[j].at # "replace"
        BY <4>1, <4>4
      <4> QED BY <4>2, <4>3, <4>4
    <3> QED BY <3>1, <3>2
  <2> HIDE DEF target, a
  <2> QED BY <2>3, <2>4, <2>5, <2>7, <2>8, <2>9 DEF Target
<1> QED BY <1>4, <1>7, <1>8, <1>9, <1>10

LEMMA CopySteps ==
  ASSUME TrajectoriesInv, CopyStep
  PROVE  TrajectoriesInv' /\ StaysIn(stored, stored')
<1>1. PICK name \in CopyNames, a \in Artifacts : LeaveCopy(name, a)
  BY DEF CopyStep
<1>2. /\ DOMAIN stored' = DOMAIN stored \cup {name} /\ stored'[name] = a
      /\ \A n \in DOMAIN stored : n # name /\ stored'[n] = stored[n]
      /\ importing' = importing /\ raced' = raced
  BY <1>1 DEF LeaveCopy
<1>3. IsFiniteSet(DOMAIN stored') /\ name \in Nat
  BY <1>2, FS_AddElement, CopiesAreApart DEF TrajectoriesInv
<1>4. \A i \in Importers : importing[i].at # "idle" => Target(i) # name
  BY CopiesAreApart DEF TrajectoriesInv, Target
<1> QED BY <1>2, <1>3, <1>4 DEF TrajectoriesInv, StaysIn, Target

(* What was proper stays proper while trajectories are imported.           *)
LEMMA KnownGrows ==
  ASSUME StaysIn(stored, stored') PROVE Known \subseteq Known'
BY DEF StaysIn, Known, KnownIn

LEMMA ManifestStays ==
  ASSUME NEW d, NEW manifest, NEW known, NEW more, known \subseteq more,
         ManifestOf(d, manifest, known)
  PROVE  ManifestOf(d, manifest, more)
<1>1. \A artifacts : Genuine(artifacts, known) => Genuine(artifacts, more)
  BY DEF Genuine
<1> QED BY <1>1 DEF ManifestOf, DatasetManifestOf, TrainingManifestOf

LEMMA ProperStays ==
  ASSUME NEW d, NEW set, NEW known, NEW more, known \subseteq more, Proper(d, set, known)
  PROVE  Proper(d, set, more)
BY ManifestStays DEF Proper

LEMMA OutputsStay ==
  ASSUME OutputsInv, StaysIn(stored, stored'), UNCHANGED outputVars
  PROVE  OutputsInv'
<1>1. Known \subseteq Known'
  BY KnownGrows
<1>2. /\ sets' = sets /\ publishing' = publishing /\ litter' = litter
      /\ published' = published /\ spoiled' = spoiled
  BY DEF outputVars
<1>3. OutputTypes' /\ TransactionsInv' /\ PlacesInv'
  BY <1>2 DEF OutputsInv, OutputTypes, TransactionsInv, PlacesInv
<1>4. ProperInv'
  BY <1>1, <1>2, ProperStays DEF OutputsInv, ProperInv
<1> QED BY <1>3, <1>4 DEF OutputsInv

LEMMA JobsStay ==
  ASSUME JobsInv, StaysIn(stored, stored'), UNCHANGED <<jobs, publishing>>
  PROVE  JobsInv'
<1>1. Known \subseteq Known'
  BY KnownGrows
<1>2. ASSUME NEW job, JobSound(job, stored, Known) PROVE JobSound(job, stored', Known')
  <2>1. ASSUME ReadSound(job, Known) PROVE ReadSound(job, Known')
    BY <1>1, <2>1, ManifestStays DEF ReadSound
  <2>2. ASSUME LoadSound(job, stored) PROVE LoadSound(job, stored')
    <3>1. ASSUME job.at \in {"artifacts", "build"}, job.stage \in {"holdout", "model"}
          PROVE  Covers(job, stored', job.read[1].training)
      <4>1. Covers(job, stored, job.read[1].training) /\ job.todo \subseteq DOMAIN stored
        BY <2>2, <3>1 DEF LoadSound
      <4> QED BY <4>1 DEF Covers, StaysIn
    <3> QED BY <2>2, <3>1 DEF LoadSound, StaysIn
  <2> QED BY <1>2, <2>1, <2>2 DEF JobSound
<1> QED BY <1>2 DEF JobsInv

LEMMA PlanFacts ==
  /\ \A stage \in Stages \ {"dataset"} :
       /\ Len(Plan(stage)) \in {2, 3} /\ Plan(stage)[1] = "manifest"
       /\ SourceDir(stage) \in {"dataset", "training"}
       /\ SourceDir(stage) \in Stages
  /\ Len(Plan("dataset")) = 0
BY DEF Stages, Plan, DatasetFiles, TrainingFiles, SourceDir

LEMMA ReadFacts ==
  ASSUME NEW read, \E S : read \in Seq(S), NEW x
  PROVE  /\ Len(read) \in Nat
         /\ \E S : Append(read, x) \in Seq(S)
         /\ Len(Append(read, x)) = Len(read) + 1
         /\ Len(read) = 0 => Append(read, x)[1] = x
         /\ Len(read) >= 1 => Append(read, x)[1] = read[1]
<1>1. PICK S : read \in Seq(S)
  OBVIOUS
<1> DEFINE T == S \cup {x}
<1>2. read \in Seq(T)
  <2>1. read \in [1 .. Len(read) -> T] /\ Len(read) \in Nat
    BY <1>1
  <2> HIDE DEF T
  <2> QED BY <2>1
<1>3. x \in T
  OBVIOUS
<1> HIDE DEF T
<1>4. Append(read, x) \in Seq(T)
  BY <1>2, <1>3
<1> QED BY <1>2, <1>3, <1>4

JobsOk == JobsInv /\ \A w \in Workers : Reads(jobs[w])

LEMMA JobsMove ==
  ASSUME JobsOk, NEW w \in Workers, NEW r, Job(w, r), UNCHANGED <<stored, publishing>>,
         JobSound(r, stored, Known), Reads(r), r.at = "idle" \/ publishing[w].at = "idle"
  PROVE  JobsOk'
<1>1. /\ jobs'[w] = r /\ \A v \in Workers : v # w => jobs'[v] = jobs[v]
      /\ DOMAIN jobs' = Workers
  BY DEF Job, JobsOk, JobsInv
<1>2. Known' = Known
  BY DEF Known, KnownIn
<1> QED BY <1>1, <1>2 DEF JobsOk, JobsInv

LEMMA IdleJob ==
  ASSUME NEW files, NEW known
  PROVE  JobSound(NoJob, files, known) /\ Reads(NoJob) /\ NoJob.at = "idle"
<1>1. <<>> \in Seq({})
  OBVIOUS
<1> QED BY <1>1 DEF NoJob, JobSound, JobFields, Reads

LEMMA StartKeeps ==
  ASSUME JobsOk, NEW w \in Workers, NEW s \in Stages, StartStage(w, s)
  PROVE  JobsOk'
<1> DEFINE at == IF s = "dataset" THEN "scan" ELSE "files"
           r == [NoJob EXCEPT !.at = at, !.stage = s]
<1>1. /\ r.at = at /\ r.stage = s /\ r.read = <<>> /\ r.todo = {} /\ r.artifacts = <<>>
      /\ DOMAIN r = JobFields
  BY DEF NoJob, JobFields
<1>2. Job(w, r) /\ publishing[w].at = "idle" /\ UNCHANGED <<stored, publishing>>
  BY DEF StartStage, trajectoryVars, outputVars
<1> HIDE DEF r
<1>3. Reads(r)
  <2>1. <<>> \in Seq({})
    OBVIOUS
  <2> QED BY <1>1, <2>1 DEF Reads
<1>4. Len(r.read) = 0 /\ DOMAIN r.artifacts = {}
  BY <1>1
<1>5. ReadSound(r, Known)
  <2>1. CASE s = "dataset"
    BY <1>1, <1>4, <2>1, PlanFacts DEF ReadSound
  <2>2. CASE s # "dataset"
    BY <1>1, <1>4, <2>2, PlanFacts DEF ReadSound
  <2> QED BY <2>1, <2>2
<1>6. LoadSound(r, stored)
  BY <1>1, <1>4 DEF LoadSound
<1>7. JobSound(r, stored, Known)
  BY <1>1, <1>5, <1>6 DEF JobSound
<1> QED BY <1>2, <1>3, <1>7, JobsMove

LEMMA ReadKeeps ==
  ASSUME JobsOk, OutputsInv, NEW w \in Workers, ReadSourceFile(w)
  PROVE  JobsOk'
<1> DEFINE job == jobs[w]
           d == SourceDir(job.stage)
           files == sets[d]
           name == Plan(job.stage)[Len(job.read) + 1]
           got == Append(job.read, files[name])
           at == IF Len(got) < Len(Plan(job.stage)) THEN "files"
                 ELSE IF ReadsTrajectories(job.stage) THEN "scan" ELSE "build"
           r == [job EXCEPT !.read = got, !.at = at]
<1>1. job.at = "files" /\ UNCHANGED <<stored, publishing>>
  BY DEF ReadSourceFile, trajectoryVars, outputVars
<1>2. /\ DOMAIN job = JobFields /\ job.stage \in Stages \ {"dataset"}
      /\ ReadSound(job, Known) /\ LoadSound(job, stored) /\ Reads(job)
      /\ publishing[w].at = "idle"
  BY <1>1 DEF JobsOk, JobsInv, JobSound, ReadSound
<1>3. CASE Job(w, NoJob)
  BY <1>1, <1>3, IdleJob, JobsMove
<1>4. CASE files # NoSet /\ name \in DOMAIN files /\ Job(w, r)
  <2>1. /\ r.at = at /\ r.stage = job.stage /\ r.read = got /\ r.todo = job.todo
        /\ r.artifacts = job.artifacts /\ DOMAIN r = JobFields
    BY <1>2 DEF JobFields
  <2>2. /\ Len(job.read) \in Nat /\ Reads(r) /\ Len(got) = Len(job.read) + 1
        /\ Len(job.read) = 0 => got[1] = files[name]
        /\ Len(job.read) >= 1 => got[1] = job.read[1]
    <3> HIDE DEF r
    <3>1. \E S : job.read \in Seq(S)
      BY <1>2 DEF Reads
    <3> DEFINE content == files[name]
    <3>2. got = Append(job.read, content)
      OBVIOUS
    <3> HIDE DEF content, got
    <3>3. /\ Len(job.read) \in Nat
          /\ \E S : Append(job.read, content) \in Seq(S)
          /\ Len(Append(job.read, content)) = Len(job.read) + 1
          /\ Len(job.read) = 0 => Append(job.read, content)[1] = content
          /\ Len(job.read) >= 1 => Append(job.read, content)[1] = job.read[1]
      <4> HIDE DEF job
      <4> QED BY <3>1, ReadFacts
    <3> HIDE DEF job
    <3> QED BY <2>1, <3>2, <3>3 DEF Reads, content
  <2>3. Len(job.read) < Len(Plan(job.stage)) /\ Len(Plan(job.stage)) \in {2, 3}
    BY <1>1, <1>2, PlanFacts DEF ReadSound
  <2>4. d \in Stages
    BY <1>2, PlanFacts
  <2>5. Proper(d, files, Known)
    BY <2>4 DEF OutputsInv, ProperInv
  <2>6. ManifestOf(d, got[1], Known)
    <3>1. CASE Len(job.read) = 0
      <4>1. name = "manifest"
        BY <1>2, <3>1, PlanFacts
      <4>2. files["manifest"] = files.manifest
        OBVIOUS
      <4> HIDE DEF files, name, d, got
      <4> QED BY <1>4, <2>2, <2>5, <3>1, <4>1, <4>2 DEF Proper
    <3>2. CASE Len(job.read) >= 1
      BY <1>2, <2>2, <3>2 DEF ReadSound
    <3> QED BY <2>2, <3>1, <3>2
  <2> HIDE DEF r, got, files, name
  <2>7. ReadSound(r, Known)
    <3>1. at \in {"files", "scan", "build"} /\ (at = "files" <=> Len(got) < Len(Plan(job.stage)))
      OBVIOUS
    <3>2. Len(got) <= Len(Plan(job.stage))
      BY <2>2, <2>3
    <3> HIDE DEF at
    <3>3. at # "files" => Len(got) = Len(Plan(job.stage))
      BY <2>2, <2>3, <3>1, <3>2
    <3> QED BY <1>2, <2>1, <2>6, <3>1, <3>3 DEF ReadSound
  <2>8. at \in {"files", "scan", "build"}
        /\ (at = "build" => job.stage \notin {"holdout", "model"})
    BY DEF ReadsTrajectories
  <2> HIDE DEF at
  <2>9. LoadSound(r, stored)
    BY <1>1, <1>2, <2>1, <2>8 DEF LoadSound
  <2>10. JobSound(r, stored, Known)
    BY <1>2, <2>1, <2>7, <2>8, <2>9 DEF JobSound
  <2> QED BY <1>1, <1>2, <1>4, <2>2, <2>10, JobsMove
<1> QED BY <1>3, <1>4 DEF ReadSourceFile

LEMMA ScanKeeps ==
  ASSUME JobsOk, NEW w \in Workers, ScanTrajectories(w)
  PROVE  JobsOk'
<1> DEFINE job == jobs[w]
           r == [job EXCEPT !.at = "artifacts", !.todo = DOMAIN stored]
<1>1. job.at = "scan" /\ UNCHANGED <<stored, publishing>>
  BY DEF ScanTrajectories, trajectoryVars, outputVars
<1>2. /\ DOMAIN job = JobFields /\ job.stage \in Stages
      /\ ReadSound(job, Known) /\ LoadSound(job, stored) /\ Reads(job)
      /\ publishing[w].at = "idle"
  BY <1>1 DEF JobsOk, JobsInv, JobSound
<1>3. CASE Job(w, NoJob)
  BY <1>1, <1>3, IdleJob, JobsMove
<1>4. CASE DOMAIN stored # {} /\ Job(w, r)
  <2>1. /\ r.at = "artifacts" /\ r.stage = job.stage /\ r.read = job.read /\ r.todo = DOMAIN stored
        /\ r.artifacts = job.artifacts /\ DOMAIN r = JobFields
    BY <1>2 DEF JobFields
  <2> HIDE DEF r
  <2>2. ReadSound(r, Known) /\ Reads(r)
    BY <1>1, <1>2, <2>1 DEF ReadSound, Reads
  <2>3. ASSUME job.stage \in {"holdout", "model"} PROVE Covers(r, stored, job.read[1].training)
    <3>1. Len(job.read) = Len(Plan(job.stage)) /\ Len(Plan(job.stage)) \in {2, 3}
      BY <1>1, <1>2, <2>3, PlanFacts DEF ReadSound
    <3>2. TrainingManifestOf(job.read[1], Known)
      BY <1>2, <2>3, <3>1 DEF ReadSound, ManifestOf, SourceDir
    <3>3. PICK artifacts : /\ Genuine(artifacts, Known)
                           /\ job.read[1].training = [decisions |-> artifacts, outcomes |-> artifacts]
      BY <3>2 DEF TrainingManifestOf
    <3>4. \A a \in artifacts : \E name \in DOMAIN stored : FileOf(stored[name]) = FileOf(a)
      BY <3>3 DEF Genuine, Known, KnownIn
    <3> QED BY <2>1, <3>3, <3>4 DEF Covers
  <2>4. LoadSound(r, stored)
    BY <1>2, <1>4, <2>1, <2>3 DEF LoadSound
  <2>5. JobSound(r, stored, Known)
    BY <1>2, <2>1, <2>2, <2>4 DEF JobSound
  <2> QED BY <1>1, <1>2, <1>4, <2>2, <2>5, JobsMove
<1> QED BY <1>3, <1>4 DEF ScanTrajectories

LEMMA LoadKeeps ==
  ASSUME JobsOk, TrajectoriesInv, NEW w \in Workers, LoadTrajectory(w)
  PROVE  JobsOk'
<1> DEFINE job == jobs[w]
           name == Min(job.todo)
           left == job.todo \ {name}
           at == IF left = {} THEN "build" ELSE "artifacts"
           loaded == [n \in DOMAIN job.artifacts \cup {name} |->
                        IF n = name THEN stored[name] ELSE job.artifacts[n]]
           r == [job EXCEPT !.todo = left, !.at = at, !.artifacts = loaded]
<1>1. job.at = "artifacts" /\ UNCHANGED <<stored, publishing>> /\ Job(w, r)
  BY DEF LoadTrajectory, trajectoryVars, outputVars
<1>2. /\ DOMAIN job = JobFields /\ job.stage \in Stages
      /\ ReadSound(job, Known) /\ LoadSound(job, stored) /\ Reads(job)
      /\ publishing[w].at = "idle"
  BY <1>1 DEF JobsOk, JobsInv, JobSound
<1>3. name \in job.todo /\ name \in DOMAIN stored
  <2>1. job.todo \subseteq Nat /\ job.todo # {} /\ job.todo \subseteq DOMAIN stored
    BY <1>1, <1>2 DEF LoadSound, TrajectoriesInv
  <2>2. \E x \in job.todo : \A y \in job.todo : x <= y
    BY <2>1, LeastElement
  <2> QED BY <2>1, <2>2 DEF Min
<1>4. /\ r.at = at /\ r.stage = job.stage /\ r.read = job.read /\ r.todo = left
      /\ r.artifacts = loaded /\ DOMAIN r = JobFields
  BY <1>2 DEF JobFields
<1> HIDE DEF r, name
<1>5. /\ DOMAIN loaded = DOMAIN job.artifacts \cup {name}
      /\ loaded[name] = stored[name]
      /\ \A n \in DOMAIN job.artifacts : n # name => loaded[n] = job.artifacts[n]
  OBVIOUS
<1> HIDE DEF loaded
<1>6. ReadSound(r, Known) /\ Reads(r)
  BY <1>1, <1>2, <1>4 DEF ReadSound, Reads
<1>7. \A n \in DOMAIN loaded :
        /\ loaded[n] \in Artifacts
        /\ n \in DOMAIN stored /\ FileOf(stored[n]) = FileOf(loaded[n])
  BY <1>2, <1>3, <1>5 DEF LoadSound, TrajectoriesInv
<1>8. ASSUME job.stage \in {"holdout", "model"} PROVE Covers(r, stored, job.read[1].training)
  <2> SUFFICES ASSUME NEW a \in job.read[1].training.decisions
               PROVE  \/ \E n \in DOMAIN loaded : FileOf(loaded[n]) = FileOf(a)
                      \/ \E n \in left : FileOf(stored[n]) = FileOf(a)
    BY <1>4 DEF Covers
  <2>1. Covers(job, stored, job.read[1].training)
    BY <1>1, <1>2, <1>8 DEF LoadSound
  <2>2. CASE \E n \in DOMAIN job.artifacts : FileOf(job.artifacts[n]) = FileOf(a)
    <3>1. PICK n \in DOMAIN job.artifacts : FileOf(job.artifacts[n]) = FileOf(a)
      BY <2>2
    <3>2. FileOf(stored[n]) = FileOf(job.artifacts[n])
      BY <1>2, <3>1 DEF LoadSound
    <3> QED BY <1>5, <3>1, <3>2
  <2>3. CASE \E n \in job.todo : FileOf(stored[n]) = FileOf(a)
    BY <1>5, <2>3
  <2> QED BY <2>1, <2>2, <2>3 DEF Covers
<1>9. LoadSound(r, stored)
  <2>1. at \in {"build", "artifacts"} /\ (at = "artifacts" <=> left # {})
    OBVIOUS
  <2>2. left \subseteq DOMAIN stored
    BY <1>2 DEF LoadSound
  <2> HIDE DEF at, left
  <2> QED BY <1>4, <1>7, <1>8, <2>1, <2>2 DEF LoadSound
<1>10. JobSound(r, stored, Known)
  BY <1>2, <1>4, <1>6, <1>9 DEF JobSound
<1> QED BY <1>1, <1>2, <1>6, <1>10, JobsMove

(***************************************************************************)
(* What the stages build.                                                  *)
(***************************************************************************)
LEMMA RowsAreOfMatches ==
  ASSUME NEW artifacts \in SUBSET Artifacts
  PROVE  RowMatches(Rows([decisions |-> artifacts, outcomes |-> artifacts]))
           \subseteq {FileOf(a) : a \in artifacts}
<1> DEFINE training == [decisions |-> artifacts, outcomes |-> artifacts]
           decisions == Decisions(artifacts)
           outcomes == Outcomes(artifacts)
<1>1. DOMAIN Rows(training) = TrainingKeys(decisions, outcomes)
  BY DEF Rows, TrainingRows
<1>2. DOMAIN decisions = DecisionKeys(artifacts)
  BY DEF Decisions
<1> HIDE DEF decisions, outcomes, training
<1>3. ASSUME NEW m \in RowMatches(Rows(training)) PROVE \E a \in artifacts : m = FileOf(a)
  <2>1. PICK key \in TrainingKeys(decisions, outcomes) : m = key[1]
    BY <1>1 DEF RowMatches
  <2>2. PICK k \in DOMAIN decisions : key = <<k[1], k[2]>>
    BY <2>1 DEF TrainingKeys
  <2>3. PICK a \in artifacts : k \in {<<Trajectory[a].match, time, team>> :
                                        time \in DOMAIN SnapshotsByTime(a), team \in TeamNames}
    BY <1>2, <2>2 DEF DecisionKeys
  <2>4. k[1] = FileOf(a)
    BY <2>3 DEF FileOf
  <2> QED BY <2>1, <2>2, <2>4
<1> QED BY <1>3 DEF training

LEMMA MatchesOfRows ==
  ASSUME NEW artifacts \in SUBSET Artifacts, IsFiniteSet(artifacts)
  PROVE  LET matches == RowMatches(Rows([decisions |-> artifacts, outcomes |-> artifacts]))
         IN  IsFiniteSet(matches) /\ matches \subseteq Int
<1>1. IsFiniteSet({FileOf(a) : a \in artifacts})
  <2> DEFINE f == [a \in artifacts |-> FileOf(a)]
  <2>1. DOMAIN f = artifacts /\ {f[a] : a \in DOMAIN f} = {FileOf(a) : a \in artifacts}
    OBVIOUS
  <2> HIDE DEF f
  <2> QED BY <2>1, ImageIsFinite
<1>2. {FileOf(a) : a \in artifacts} \subseteq Int
  BY ArtifactTypes
<1> HIDE DEF FileOf
<1> QED BY <1>1, <1>2, RowsAreOfMatches, FS_Subset

(* The tests of the expanding splits are not empty and come after what     *)
(* they are trained on.                                                    *)
LEMMA SplitsAreInOrder ==
  ASSUME NEW matches, \A x \in matches : x \in Int, IsFiniteSet(matches),
         Cardinality(matches) >= MinimumMatchCount
  PROVE  SplitsInOrder(ExpandingSplits(matches))
<1> DEFINE splits == ExpandingSplits(matches)
<1>1. SUFFICES ASSUME NEW fold \in DOMAIN TrainMatchCounts
               PROVE  /\ splits[fold].test # {}
                      /\ \A m \in splits[fold].train, n \in splits[fold].test : m < n
  <2>1. DOMAIN splits = DOMAIN TrainMatchCounts
    BY DEF ExpandingSplits
  <2> HIDE DEF splits
  <2>2. ToSet(splits) = {splits[fold] : fold \in DOMAIN TrainMatchCounts}
    BY <2>1 DEF ToSet
  <2>3. SUFFICES SplitsInOrder(splits)
    BY DEF splits
  <2> QED BY <1>1, <2>2 DEF SplitsInOrder
<1> DEFINE trained == TrainMatchCounts[fold]
<1>2. trained \in Nat /\ TestMatchCount \in Nat \ {0} /\ MinimumMatchCount \in Nat
      /\ trained + TestMatchCount <= MinimumMatchCount
  BY FoldsAreCounts, FoldsFit
<1> HIDE DEF trained
<1>0. \A x \in matches : x \in Int
  OBVIOUS
<1>3. \A m \in matches : /\ IsFiniteSet({x \in matches : x < m})
                         /\ Place(m, matches) \in Nat
  <2>1. \A m \in matches : IsFiniteSet({x \in matches : x < m})
    BY FS_Subset
  <2> QED BY <2>1, FS_CardinalityType DEF Place
<1>4. /\ splits[fold].train = {m \in matches : Place(m, matches) < trained}
      /\ splits[fold].test = {m \in matches :
                                Place(m, matches) \in trained .. trained + TestMatchCount - 1}
  BY DEF ExpandingSplits, trained
<1> HIDE DEF splits
<1>5. \A m \in splits[fold].train, n \in splits[fold].test : m < n
  <2> SUFFICES ASSUME NEW m \in matches, NEW n \in matches, Place(m, matches) < trained,
                      trained <= Place(n, matches), ~ (m < n)
               PROVE  FALSE
    BY <1>2, <1>3, <1>4
  <2>1. {x \in matches : x < n} \subseteq {x \in matches : x < m}
    BY <1>0
  <2>2. Place(n, matches) <= Place(m, matches)
    BY <1>3, <2>1, FS_Subset DEF Place
  <2>3. Place(m, matches) \in Int /\ Place(n, matches) \in Int /\ trained \in Int
    <3>1. Place(m, matches) \in Nat /\ Place(n, matches) \in Nat
      BY <1>3
    <3>2. trained \in Nat
      BY <1>2
    <3> QED BY <3>1, <3>2
  <2> QED BY <2>2, <2>3
<1>6. splits[fold].test # {}
  <2> DEFINE R == {pair \in matches \X matches : pair[1] < pair[2]}
  <2>1. \A x, y \in matches : <<x, y>> \in R <=> x < y
    OBVIOUS
  <2> HIDE DEF R
  <2>2. TotalOrder(R, matches)
    BY <1>0, <2>1 DEF TotalOrder
  <2> DEFINE k == trained + 1
  <2>3. k \in 1 .. Cardinality(matches) /\ k - 1 = trained
    <3>1. Cardinality(matches) \in Nat
      BY FS_CardinalityType
    <3> QED BY <1>2, <3>1
  <2> HIDE DEF k
  <2>4. PICK x \in matches : Cardinality({y \in matches : <<y, x>> \in R}) = k - 1
    BY <2>2, <2>3, RankExists
  <2>5. {y \in matches : <<y, x>> \in R} = {y \in matches : y < x}
    BY <2>1
  <2>6. Place(x, matches) = trained
    BY <2>3, <2>4, <2>5 DEF Place
  <2> QED BY <1>2, <1>4, <2>6
<1> QED BY <1>5, <1>6

Ready(d, files, known) == Whole(d, files) /\ AsFunction(files) /\ Proper(d, files, known)

(* The artifacts of a job that has loaded them.                            *)
LEMMA LoadedArtifacts ==
  ASSUME TrajectoriesInv, NEW job, LoadSound(job, stored)
  PROVE  LET named == job.artifacts
             artifacts == {named[name] : name \in DOMAIN named}
         IN  /\ artifacts \in SUBSET Artifacts
             /\ IsFiniteSet(artifacts)
             /\ \A a \in artifacts : FileOf(a) \in Known
             /\ IsFiniteSet(DOMAIN named)
<1> DEFINE named == job.artifacts
           artifacts == {named[name] : name \in DOMAIN named}
<1>1. DOMAIN named \subseteq DOMAIN stored
  BY DEF LoadSound
<1>2. IsFiniteSet(DOMAIN named)
  BY <1>1, FS_Subset DEF TrajectoriesInv
<1>3. IsFiniteSet(artifacts)
  BY <1>2, ImageIsFinite
<1>4. \A name \in DOMAIN named :
        named[name] \in Artifacts /\ FileOf(named[name]) \in Known
  BY DEF LoadSound, Known, KnownIn
<1> QED BY <1>2, <1>3, <1>4

LEMMA DatasetIsReady ==
  ASSUME TrajectoriesInv, NEW job, LoadSound(job, stored),
         BuildDataset(job.artifacts) # NoSet
  PROVE  Ready("dataset", BuildDataset(job.artifacts), Known)
<1> DEFINE named == job.artifacts
           artifacts == {named[name] : name \in DOMAIN named}
           files == DatasetSet(artifacts)
<1>1. \A name \in DOMAIN named : FileOf(named[name]) = name
  BY DEF BuildDataset
<1>2. BuildDataset(named) = files
  BY DEF BuildDataset
<1>3. artifacts \in SUBSET Artifacts /\ Genuine(artifacts, Known)
  <2>1. \A a, b \in artifacts : FileOf(a) = FileOf(b) => a = b
    BY <1>1
  <2> QED BY <2>1, LoadedArtifacts DEF Genuine
<1> HIDE DEF artifacts
<1>4. /\ DOMAIN files = Filenames["dataset"] /\ AsFunction(files)
      /\ files.decisions = [decisions |-> artifacts]
      /\ files.outcomes = [outcomes |-> artifacts]
      /\ files.manifest.decisions = [decisions |-> artifacts]
      /\ files.manifest.outcomes = [outcomes |-> artifacts]
  BY DEF DatasetSet, Filenames, AsFunction
<1> HIDE DEF files
<1>5. OfOneBuild("dataset", files) /\ Unseen("dataset", files)
  BY <1>4 DEF OfOneBuild, Unseen
<1>6. ManifestOf("dataset", files.manifest, Known)
  BY <1>3, <1>4 DEF ManifestOf, DatasetManifestOf
<1> QED BY <1>2, <1>4, <1>5, <1>6 DEF Ready, Whole, Proper

LEMMA TrainingIsReady ==
  ASSUME NEW job, job.at = "build", job.stage = "training", ReadSound(job, Known),
         BuildTraining(job.read) # NoSet
  PROVE  Ready("training", BuildTraining(job.read), Known)
<1> DEFINE read == job.read
           rows == [decisions |-> read[2].decisions, outcomes |-> read[3].outcomes]
           files == TrainingSet(read[1], rows)
<1>1. SourceHashesHold(read) /\ BuildTraining(read) = files
  BY DEF BuildTraining
<1>2. DatasetManifestOf(read[1], Known)
  <2>1. Len(read) = 3 /\ SourceDir("training") = "dataset"
    BY DEF ReadSound, Plan, DatasetFiles, SourceDir
  <2> QED BY <2>1 DEF ReadSound, ManifestOf
<1>3. PICK artifacts \in SUBSET Artifacts :
        /\ Genuine(artifacts, Known)
        /\ read[1].decisions = [decisions |-> artifacts]
        /\ read[1].outcomes = [outcomes |-> artifacts]
  BY <1>2 DEF DatasetManifestOf
<1>4. read[2] = [decisions |-> artifacts] /\ read[3] = [outcomes |-> artifacts]
  BY <1>1, <1>3 DEF SourceHashesHold
<1>5. rows = [decisions |-> artifacts, outcomes |-> artifacts]
  BY <1>4
<1>6. /\ DOMAIN files = Filenames["training"] /\ AsFunction(files)
      /\ files.training = rows /\ files.manifest.source = read[1] /\ files.manifest.training = rows
  BY DEF TrainingSet, Filenames, AsFunction
<1> HIDE DEF files
<1>7. OfOneBuild("training", files) /\ Unseen("training", files)
  BY <1>3, <1>4, <1>6 DEF OfOneBuild, Unseen
<1>8. ManifestOf("training", files.manifest, Known)
  BY <1>3, <1>5, <1>6 DEF ManifestOf, TrainingManifestOf
<1> QED BY <1>1, <1>6, <1>7, <1>8 DEF Ready, Whole, Proper

(* The training set that an evaluation or the bundle has read.             *)
LEMMA TrainingRead ==
  ASSUME NEW job, job.at = "build", job.stage \in {"baseline", "holdout", "model"},
         ReadSound(job, Known), TrainingHashHolds(job.read)
  PROVE  \E artifacts \in SUBSET Artifacts :
           /\ Genuine(artifacts, Known)
           /\ job.read[1].training = [decisions |-> artifacts, outcomes |-> artifacts]
           /\ job.read[2] = [decisions |-> artifacts, outcomes |-> artifacts]
<1>1. Len(job.read) = 2 /\ SourceDir(job.stage) = "training"
  BY DEF ReadSound, Plan, TrainingFiles, SourceDir
<1>2. TrainingManifestOf(job.read[1], Known)
  BY <1>1 DEF ReadSound, ManifestOf
<1> QED BY <1>2 DEF TrainingManifestOf, TrainingHashHolds

LEMMA BaselineIsReady ==
  ASSUME NEW job, job.at = "build", job.stage = "baseline", ReadSound(job, Known),
         BuildBaseline(job.read) # NoSet
  PROVE  Ready("baseline", BuildBaseline(job.read), Known)
<1> DEFINE read == job.read
           matches == RowMatches(Rows(read[2]))
           folds == ExpandingSplits(matches)
           files == Evaluation(read[1], folds)
<1>1. TrainingHashHolds(read) /\ Cardinality(matches) >= MinimumMatchCount /\ BuildBaseline(read) = files
  BY DEF BuildBaseline
<1>2. PICK artifacts \in SUBSET Artifacts :
        /\ Genuine(artifacts, Known)
        /\ read[2] = [decisions |-> artifacts, outcomes |-> artifacts]
  BY <1>1, TrainingRead
<1>3. IsFiniteSet(matches) /\ matches \subseteq Int
  BY <1>2, MatchesOfRows DEF Genuine
<1> HIDE DEF matches
<1>4. SplitsInOrder(folds)
  <2>1. \A x \in matches : x \in Int
    BY <1>3
  <2> QED BY <1>1, <1>3, <2>1, SplitsAreInOrder
<1> HIDE DEF folds
<1>5. /\ DOMAIN files = Filenames["baseline"] /\ AsFunction(files)
      /\ files.predictions = folds /\ files.evaluation.folds = folds
  BY DEF Evaluation, Filenames, AsFunction
<1> HIDE DEF files
<1>6. OfOneBuild("baseline", files) /\ Unseen("baseline", files)
  BY <1>4, <1>5 DEF OfOneBuild, Unseen
<1>7. "manifest" \notin DOMAIN files
  BY <1>5 DEF Filenames
<1> QED BY <1>1, <1>5, <1>6, <1>7 DEF Ready, Whole, Proper

LEMMA HoldoutIsReady ==
  ASSUME NEW job, BuildHoldout(job.read, job.artifacts) # NoSet
  PROVE  Ready("holdout", BuildHoldout(job.read, job.artifacts), Known)
<1> DEFINE read == job.read
           matches == RowMatches(Rows(read[2]))
           lineage == Lineage(job.artifacts)
           fold == [train |-> LeagueMatches(matches, lineage, TrainLeagues),
                    test |-> LeagueMatches(matches, lineage, TestLeagues)]
           leagues == [m \in matches |-> lineage[m]]
           files == HoldoutEvaluation(read[1], leagues, fold)
<1>1. BuildHoldout(read, job.artifacts) = files
  BY DEF BuildHoldout
<1> HIDE DEF lineage
<1>2. fold.train \cap fold.test = {}
  BY LeaguesApart DEF LeagueMatches
<1> HIDE DEF fold, leagues
<1>3. /\ DOMAIN files = Filenames["holdout"] /\ AsFunction(files)
      /\ files.predictions = <<fold>> /\ files.evaluation.folds = <<fold>>
      /\ files.predictions[1] = fold
  BY DEF HoldoutEvaluation, Filenames, AsFunction
<1> HIDE DEF files
<1>4. OfOneBuild("holdout", files) /\ Unseen("holdout", files)
  BY <1>2, <1>3 DEF OfOneBuild, Unseen
<1>5. "manifest" \notin DOMAIN files
  BY <1>3 DEF Filenames
<1> QED BY <1>1, <1>3, <1>4, <1>5 DEF Ready, Whole, Proper

LEMMA ModelIsReady ==
  ASSUME NEW job, job.at = "build", job.stage = "model", ReadSound(job, Known),
         BuildModel(job.read, job.artifacts) # NoSet
  PROVE  Ready("model", BuildModel(job.read, job.artifacts), Known)
<1> DEFINE read == job.read
           lineage == Lineage(job.artifacts)
           matches == LeagueMatches(RowMatches(Rows(read[2])), lineage, TrainLeagues)
           model == TrainedModel(read[2], matches)
           leagues == [m \in matches |-> lineage[m]]
           files == [model |-> model, manifest |-> BundleManifest(read[1], leagues, model)]
<1>1. TrainingHashHolds(read) /\ BuildModel(read, job.artifacts) = files
  BY DEF BuildModel
<1>2. read[2] = read[1].training
  BY <1>1 DEF TrainingHashHolds
<1> HIDE DEF matches, leagues
<1>3. /\ DOMAIN files = Filenames["model"] /\ AsFunction(files)
      /\ files.model = model /\ files.manifest.model = model /\ files.manifest.source = read[1]
      /\ model.training = read[2]
  BY DEF TrainedModel, BundleManifest, Filenames, AsFunction
<1> HIDE DEF files, model
<1>4. OfOneBuild("model", files) /\ Unseen("model", files)
  BY <1>2, <1>3 DEF OfOneBuild, Unseen
<1>5. ManifestOf("model", files.manifest, Known)
  BY DEF ManifestOf
<1> QED BY <1>1, <1>3, <1>4, <1>5 DEF Ready, Whole, Proper

LEMMA BuiltIsReady ==
  ASSUME TrajectoriesInv, NEW job, job.at = "build", job.stage \in Stages,
         ReadSound(job, Known), LoadSound(job, stored), Built(job) # NoSet
  PROVE  Ready(job.stage, Built(job), Known)
<1>1. CASE job.stage = "dataset"
  BY <1>1, DatasetIsReady DEF Built
<1>2. CASE job.stage = "training"
  BY <1>2, TrainingIsReady DEF Built
<1>3. CASE job.stage = "baseline"
  BY <1>3, BaselineIsReady DEF Built
<1>4. CASE job.stage = "holdout"
  BY <1>4, HoldoutIsReady DEF Built
<1>5. CASE job.stage = "model"
  BY <1>5, ModelIsReady DEF Built
<1> QED BY <1>1, <1>2, <1>3, <1>4, <1>5 DEF Stages

LEMMA BuildKeeps ==
  ASSUME TrajectoriesInv, OutputsInv, JobsOk, NEW w \in Workers, BuildOutputs(w)
  PROVE  OutputsInv' /\ JobsOk'
<1> DEFINE job == jobs[w]
           files == Built(job)
<1>1. job.at = "build" /\ Job(w, NoJob) /\ UNCHANGED stored
      /\ PublishUnlessThere(w, job.stage, files)
  BY DEF BuildOutputs, trajectoryVars
<1>2. /\ job.stage \in Stages /\ ReadSound(job, Known) /\ LoadSound(job, stored)
      /\ publishing[w].at = "idle"
  BY <1>1 DEF JobsOk, JobsInv, JobSound
<1>3. files # NoSet => Ready(job.stage, files, Known)
  BY <1>1, <1>2, BuiltIsReady
<1> HIDE DEF files
<1>4. CASE UNCHANGED outputVars
  <2>1. OutputsInv'
    BY <1>1, <1>4, OutputsStay, NothingChanged
  <2>2. JobsOk'
    BY <1>1, <1>4, IdleJob, JobsMove DEF outputVars
  <2> QED BY <2>1, <2>2
<1>5. CASE files # NoSet /\ StartPublishing(w, job.stage, files)
  <2>1. OutputsInv'
    BY <1>1, <1>2, <1>3, <1>5, StartingKeeps DEF Ready
  <2>2. /\ jobs'[w] = NoJob /\ \A v \in Workers : v # w => jobs'[v] = jobs[v]
        /\ DOMAIN jobs' = Workers
    BY <1>1 DEF Job, JobsOk, JobsInv
  <2>3. \A v \in Workers : v # w => publishing'[v] = publishing[v]
    BY <1>5 DEF StartPublishing, Goes, OutputsInv, OutputTypes
  <2>4. Known' = Known
    BY <1>1 DEF Known, KnownIn
  <2>5. JobsOk'
    BY <1>1, <2>2, <2>3, <2>4, IdleJob DEF JobsOk, JobsInv
  <2> QED BY <2>1, <2>5
<1> QED BY <1>1, <1>4, <1>5 DEF PublishUnlessThere

(***************************************************************************)
(* The invariant of the pipeline.                                          *)
(***************************************************************************)
ReplayInv == TrajectoriesInv /\ OutputsInv /\ JobsOk

LEMMA InitialPipeline == PipelineInit => ReplayInv
<1> SUFFICES ASSUME PipelineInit PROVE ReplayInv
  OBVIOUS
<1>1. TrajectoriesInv
  <2>1. /\ stored = <<>> /\ importing = [i \in Importers |-> NoImport]
        /\ raced = [i \in Importers |-> FALSE]
    BY DEF PipelineInit, TrajectoriesInit
  <2>2. NoImport \in ImportRecord /\ NoImport.at = "idle"
    BY DEF NoImport, ImportRecord
  <2>3. /\ importing \in [Importers -> ImportRecord] /\ raced \in [Importers -> BOOLEAN]
        /\ \A i \in Importers : importing[i].at = "idle"
    BY <2>1, <2>2
  <2>4. DOMAIN stored = {} /\ IsFiniteSet(DOMAIN stored)
    BY <2>1, FS_EmptySet
  <2> QED BY <2>3, <2>4 DEF TrajectoriesInv
<1>2. OutputsInv
  <2>1. /\ sets = [d \in Stages |-> NoSet] /\ publishing = [w \in Workers |-> NoTransaction]
        /\ litter = [d \in Stages |-> {}] /\ published = [d \in Stages |-> FALSE]
        /\ spoiled = [d \in Stages |-> FALSE]
    BY StagesHaveOutputs DEF PipelineInit, OutputsInit
  <2>2. OutputTypes
    BY <2>1, Apart DEF OutputTypes, AsFunction
  <2>3. TransactionsInv /\ PlacesInv /\ ProperInv
    BY <2>1, Apart, NoSetIsProper DEF TransactionsInv, PlacesInv, ProperInv, SolidOrNone
  <2> QED BY <2>2, <2>3 DEF OutputsInv
<1>3. JobsOk
  <2>1. jobs = [w \in Workers |-> NoJob]
    BY DEF PipelineInit
  <2> QED BY <2>1, IdleJob DEF JobsOk, JobsInv
<1> QED BY <1>1, <1>2, <1>3 DEF ReplayInv

LEMMA PipelineSteps == ReplayInv /\ [ReplayNext]_replayVars => ReplayInv'
<1> SUFFICES ASSUME ReplayInv, [ReplayNext]_replayVars PROVE ReplayInv'
  OBVIOUS
<1> USE DEF ReplayInv
<1>1. CASE ImportStep /\ UNCHANGED <<outputVars, pipelineVars>>
  <2>1. TrajectoriesInv' /\ StaysIn(stored, stored')
    BY <1>1, ImportSteps DEF ImportStep
  <2>2. JobsInv' /\ UNCHANGED jobs
    BY <1>1, <2>1, JobsStay DEF JobsOk, outputVars, pipelineVars
  <2>3. JobsOk'
    BY <2>2 DEF JobsOk, Reads
  <2>4. OutputsInv'
    BY <1>1, <2>1, OutputsStay
  <2> QED BY <2>1, <2>3, <2>4
<1>0. CASE CopyStep /\ UNCHANGED <<outputVars, pipelineVars>>
  <2>1. TrajectoriesInv' /\ StaysIn(stored, stored')
    BY <1>0, CopySteps
  <2>2. JobsInv' /\ UNCHANGED jobs
    BY <1>0, <2>1, JobsStay DEF JobsOk, outputVars, pipelineVars
  <2>3. JobsOk'
    BY <2>2 DEF JobsOk, Reads
  <2>4. OutputsInv'
    BY <1>0, <2>1, OutputsStay
  <2> QED BY <2>1, <2>3, <2>4
<1>2. ASSUME UNCHANGED trajectoryVars PROVE TrajectoriesInv' /\ UNCHANGED stored
  BY <1>2 DEF trajectoryVars, TrajectoriesInv, Target
<1>3. ASSUME UNCHANGED <<trajectoryVars, outputVars>>, JobsOk' PROVE ReplayInv'
  BY <1>2, <1>3, OutputsStay, NothingChanged
<1>4. ASSUME NEW w \in Workers, NEW s \in Stages, StartStage(w, s) PROVE ReplayInv'
  BY <1>3, <1>4, StartKeeps DEF StartStage
<1>5. ASSUME NEW w \in Workers, ReadSourceFile(w) PROVE ReplayInv'
  BY <1>3, <1>5, ReadKeeps DEF ReadSourceFile
<1>6. ASSUME NEW w \in Workers, ScanTrajectories(w) PROVE ReplayInv'
  BY <1>3, <1>6, ScanKeeps DEF ScanTrajectories
<1>7. ASSUME NEW w \in Workers, LoadTrajectory(w) PROVE ReplayInv'
  BY <1>3, <1>7, LoadKeeps DEF LoadTrajectory
<1>8. ASSUME NEW w \in Workers, BuildOutputs(w) PROVE ReplayInv'
  BY <1>2, <1>8, BuildKeeps DEF BuildOutputs
<1>9. ASSUME NEW w \in Workers, ReplaceOutputSet(w) PROVE ReplayInv'
  <2>1. UNCHANGED <<trajectoryVars, jobs>> /\ OutputsInv'
    BY <1>9, ReplacingKeeps DEF ReplaceOutputSet, pipelineVars
  <2>2. publishing[w].at # "idle"
    BY <1>9 DEF ReplaceOutputSet, PrepareNew, LookForOld, MoveOld, InstallNew, RemoveOld,
                UndoInstall, RestoreOld, RetryRestore, RemoveTransaction, BuildKilled
  <2>3. \A v \in Workers : v # w => publishing'[v] = publishing[v]
    <3>1. Advances(w)
      BY <1>9, PrepareAdvances, LookAdvances, MoveAdvances, InstallAdvances, RemoveAdvances,
         UndoAdvances, RestoreAdvances, RetryAdvances, CleaningAdvances, KilledAdvances
      DEF ReplaceOutputSet
    <3> QED BY <3>1 DEF Advances, OutputsInv, OutputTypes
  <2>4. Known' = Known /\ stored' = stored
    BY <2>1 DEF Known, KnownIn, trajectoryVars
  <2>5. JobsOk'
    BY <2>1, <2>2, <2>3, <2>4 DEF JobsOk, JobsInv, Reads
  <2> QED BY <1>2, <2>1, <2>5
<1>10. CASE UNCHANGED replayVars
  <2>1. UNCHANGED <<trajectoryVars, outputVars>> /\ UNCHANGED <<jobs, stored, publishing>>
    BY <1>10 DEF replayVars, pipelineVars, trajectoryVars, outputVars
  <2>2. JobsOk'
    BY <2>1, JobsStay, NothingChanged DEF JobsOk, Reads
  <2> QED BY <1>3, <2>1, <2>2
<1>11. ASSUME NEW w \in Workers,
              \/ BuildDatasetCommand(w) \/ BuildTrainingCommand(w) \/ EvaluateBaselineCommand(w)
              \/ EvaluateHoldoutCommand(w) \/ BuildModelCommand(w)
       PROVE  ReplayInv'
  BY <1>4, <1>11 DEF BuildDatasetCommand, BuildTrainingCommand, EvaluateBaselineCommand,
                     EvaluateHoldoutCommand, BuildModelCommand, Stages
<1>12. ASSUME NEW w \in Workers,
              \/ ReplaceDatasetOutputs(w) \/ ReplaceTrainingOutputs(w) \/ ReplaceEvaluation(w)
              \/ ReplaceBundle(w)
       PROVE  ReplayInv'
  BY <1>9, <1>12 DEF ReplaceDatasetOutputs, ReplaceTrainingOutputs, ReplaceEvaluation,
                     ReplaceBundle, Publishes
<1> QED BY <1>0, <1>1, <1>5, <1>6, <1>7, <1>8, <1>10, <1>11, <1>12 DEF ReplayNext

THEOREM ReplayInvariant == ReplaySpec => []ReplayInv
BY InitialPipeline, PipelineSteps, PTL DEF ReplaySpec

(* Whatever fails and whoever is killed, no command loses what another one *)
(* stored: an import overwrites only a file of the same match, and only if *)
(* it raced with it, and a published set is in place, in the hands of a    *)
(* process, or in what one left behind.                                    *)
THEOREM NothingIsLost == ReplaySpec => []NothingLost
<1>1. ReplayInv => NothingLost
  <2> SUFFICES ASSUME ReplayInv PROVE NothingLost
    OBVIOUS
  <2>1. OverwriteNeedsRace
    BY DEF ReplayInv, TrajectoriesInv, OverwriteNeedsRace
  <2>2. ASSUME NEW d \in Stages, ~spoiled[d]
        PROVE  /\ sets[d] = NoSet \/ Whole(d, sets[d])
               /\ published[d] =>
                    \E set \in {sets[d]} \cup litter[d] \cup UNION {Held(w) : w \in Busy(d)} :
                      Whole(d, set)
    <3>1. sets[d] = NoSet \/ Whole(d, sets[d])
      BY <2>2 DEF ReplayInv, OutputsInv, PlacesInv, SolidOrNone, Solid
    <3>2. ASSUME published[d]
          PROVE  \E set \in {sets[d]} \cup litter[d] \cup UNION {Held(w) : w \in Busy(d)} :
                   Whole(d, set)
      <4>1. PICK w \in Workers : Safe(d, sets[d], litter[d], publishing[w])
        BY <2>2, <3>2 DEF ReplayInv, OutputsInv, PlacesInv
      <4>2. Guards(publishing[w], d) => w \in Busy(d)
        BY DEF Guards, Busy
      <4>3. publishing[w].old \in Held(w) /\ publishing[w].failed \in Held(w)
        BY DEF Held
      <4>4. CASE Guards(publishing[w], d)
        <5>1. \E set \in Held(w) : Whole(d, set)
          BY <4>3, <4>4 DEF Guards
        <5> QED BY <4>2, <4>4, <5>1
      <4> QED BY <4>1, <4>4 DEF Safe
    <3> QED BY <3>1, <3>2
  <2> QED BY <2>1, <2>2 DEF NothingLost, SetSurvives
<1> QED BY <1>1, ReplayInvariant, PTL

(* Sources that are replaced while they are read are refused, never mixed. *)
THEOREM SetsAreOfOneBuild == ReplaySpec => []OneBuild
<1>1. ReplayInv => OneBuild
  <2> SUFFICES ASSUME ReplayInv, NEW d \in Stages, Whole(d, sets[d]) PROVE OfOneBuild(d, sets[d])
    BY DEF OneBuild, OfOneBuild
  <2>1. Proper(d, sets[d], Known) /\ sets[d] # NoSet /\ DOMAIN sets[d] = Filenames[d]
    BY DEF ReplayInv, OutputsInv, ProperInv, Whole
  <2> QED BY <2>1 DEF Proper
<1> QED BY <1>1, ReplayInvariant, PTL

(***************************************************************************)
(* Where the matches are placed.  places is the league in which the        *)
(* evaluations and bundles built so far have found a match: each of them   *)
(* found the same, but for matches whose file was overwritten.             *)
(***************************************************************************)

(* The names that the scan of a job listed.                                *)
Names(job) == job.todo \cup DOMAIN job.artifacts

LeagueIn(a) == Trajectory[a].league

Shows(files, names, m, league) ==
  \E name \in names : FileOf(files[name]) = m /\ LeagueIn(files[name]) = league

(* A look at these files finds the match in this league, or a conflict, or *)
(* nothing of the match.                                                   *)
Agrees(files, names, m, league) ==
  \/ Shows(files, names, m, league)
  \/ \A name \in names : FileOf(files[name]) = m => LeagueIn(files[name]) = league

NamesInv ==
  /\ \A w \in Workers : Names(jobs[w]) \subseteq DOMAIN stored
  /\ \A v, w \in Workers :
       Names(jobs[v]) \subseteq Names(jobs[w]) \/ Names(jobs[w]) \subseteq Names(jobs[v])

(* What was loaded is what is stored, or was overwritten.                  *)
LoadedInv ==
  \A w \in Workers : \A name \in DOMAIN jobs[w].artifacts :
    jobs[w].artifacts[name] = stored[name] \/ FileOf(stored[name]) \in overwritten

PlacesHold(places) ==
  \A m \in DOMAIN places \ overwritten :
    /\ Shows(stored, DOMAIN stored, m, places[m])
    /\ \A w \in Workers : Agrees(stored, Names(jobs[w]), m, places[m])

Taught(matches, training, places, gone) ==
  LET all == RowMatches(Rows(training)) \ gone
  IN  /\ all \subseteq DOMAIN places
      /\ matches \ gone = {m \in all : places[m] \in TrainLeagues}

(* An evaluation or bundle that is complete was trained on the matches     *)
(* that the places say.                                                    *)
SetFollows(d, set, places, gone) ==
  set # NoSet /\ Filenames[d] \subseteq DOMAIN set =>
    /\ d = "holdout" =>
         Taught(set.predictions[1].train, set.evaluation.source.training, places, gone)
    /\ d = "model" =>
         Taught(set.model.matches, set.manifest.source.training, places, gone)

HandFollows(t, places, gone) ==
  t.at # "idle" =>
    /\ SetFollows(t.dir, t.new, places, gone)
    /\ SetFollows(t.dir, t.old, places, gone)
    /\ SetFollows(t.dir, t.failed, places, gone)

SetsFollow(places) ==
  /\ \A d \in Stages : SetFollows(d, sets[d], places, overwritten)
  /\ \A w \in Workers : HandFollows(publishing[w], places, overwritten)

PlacedInv ==
  /\ NamesInv
  /\ LoadedInv
  /\ \E places : PlacesHold(places) /\ SetsFollow(places)

(* More matches are placed, or overwritten, and none is placed anew.       *)
Extends(more, places, gone) ==
  /\ DOMAIN places \subseteq DOMAIN more
  /\ \A m \in DOMAIN places \ gone : more[m] = places[m]

LEMMA FollowsStays ==
  ASSUME NEW d, NEW set, NEW places, NEW more, NEW gone, NEW further,
         gone \subseteq further, Extends(more, places, further),
         SetFollows(d, set, places, gone)
  PROVE  SetFollows(d, set, more, further)
<1>1. ASSUME NEW matches, NEW training, Taught(matches, training, places, gone)
      PROVE  Taught(matches, training, more, further)
  <2> DEFINE all == RowMatches(Rows(training))
  <2>1. all \ gone \subseteq DOMAIN places
        /\ matches \ gone = {m \in all \ gone : places[m] \in TrainLeagues}
    BY <1>1 DEF Taught
  <2> SUFFICES /\ all \ further \subseteq DOMAIN more
               /\ matches \ further = {m \in all \ further : more[m] \in TrainLeagues}
    BY DEF Taught
  <2> HIDE DEF all
  <2>2. \A m \in all \ further : m \in all \ gone /\ m \in DOMAIN places /\ more[m] = places[m]
    BY <2>1 DEF Extends
  <2>3. all \ further \subseteq DOMAIN more
    BY <2>2 DEF Extends
  <2>4. \A m : m \in matches \ further <=> m \in all \ further /\ more[m] \in TrainLeagues
    BY <2>1, <2>2
  <2> QED BY <2>3, <2>4
<1> QED BY <1>1 DEF SetFollows

LEMMA HandStays ==
  ASSUME NEW t, NEW places, NEW more, NEW gone, NEW further,
         gone \subseteq further, Extends(more, places, further),
         HandFollows(t, places, gone)
  PROVE  HandFollows(t, more, further)
BY FollowsStays DEF HandFollows

LEMMA SameExtends == \A places, gone : Extends(places, places, gone)
BY DEF Extends

(* The directory gets a new file, or one in place of another of the match. *)
StoreMoves ==
  /\ StaysIn(stored, stored')
  /\ overwritten \subseteq overwritten'
  /\ \A name \in DOMAIN stored :
       stored'[name] = stored[name] \/ FileOf(stored[name]) \in overwritten'

LEMMA StoreStepsMove ==
  ASSUME TrajectoriesInv, ImportStep \/ CopyStep
  PROVE  StoreMoves
<1>1. StaysIn(stored, stored')
  BY ImportSteps, CopySteps DEF ImportStep
<1>2. CASE \E i \in Importers : ReplaceArtifact(i)
  <2>1. PICK i \in Importers : ReplaceArtifact(i)
    BY <1>2
  <2> DEFINE target == Target(i)
             a == importing[i].artifact
  <2>2. target \in DOMAIN stored => FileOf(stored[target]) = target
    BY <2>1 DEF TrajectoriesInv, ReplaceArtifact
  <2>3. /\ overwritten' = overwritten \cup {name \in {target} \cap DOMAIN stored : stored[name] # a}
        /\ \A name \in DOMAIN stored : stored'[name] = IF name = target THEN a ELSE stored[name]
    BY <2>1 DEF ReplaceArtifact
  <2> HIDE DEF target, a
  <2> QED BY <1>1, <2>2, <2>3 DEF StoreMoves
<1>3. CASE CopyStep
  BY <1>1, <1>3 DEF StoreMoves, CopyStep, LeaveCopy
<1>4. CASE UNCHANGED <<stored, overwritten>>
  BY <1>1, <1>4 DEF StoreMoves
<1> QED BY <1>2, <1>3, <1>4 DEF ImportStep, LoadExport, WriteTemporary, RecheckExisting, ImportKilled

LEMMA PlacesStay ==
  ASSUME NamesInv, LoadedInv, NEW places, PlacesHold(places), SetsFollow(places),
         StoreMoves, UNCHANGED <<jobs, sets, publishing>>
  PROVE  NamesInv' /\ LoadedInv' /\ PlacesHold(places)' /\ SetsFollow(places)'
<1>1. NamesInv'
  BY DEF NamesInv, StoreMoves, StaysIn, Names
<1>2. \A w \in Workers : Names(jobs[w])' = Names(jobs[w]) /\ DOMAIN jobs[w].artifacts \subseteq DOMAIN stored
                         /\ Names(jobs[w]) \subseteq DOMAIN stored
  BY DEF NamesInv, Names
<1>3. LoadedInv'
  <2> SUFFICES ASSUME NEW w \in Workers, NEW name \in DOMAIN jobs[w].artifacts
               PROVE  jobs[w].artifacts[name] = stored'[name] \/ FileOf(stored'[name]) \in overwritten'
    BY DEF LoadedInv
  <2>1. name \in DOMAIN stored /\ FileOf(stored'[name]) = FileOf(stored[name])
    BY <1>2 DEF StoreMoves, StaysIn
  <2>2. jobs[w].artifacts[name] = stored[name] \/ FileOf(stored[name]) \in overwritten
    BY DEF LoadedInv
  <2> QED BY <2>1, <2>2 DEF StoreMoves
<1>4. PlacesHold(places)'
  <2> SUFFICES ASSUME NEW m \in DOMAIN places \ overwritten'
               PROVE  /\ Shows(stored', DOMAIN stored', m, places[m])
                      /\ \A w \in Workers : Agrees(stored', Names(jobs[w]), m, places[m])
    BY <1>2 DEF PlacesHold
  <2>1. m \in DOMAIN places \ overwritten
    BY DEF StoreMoves
  <2>2. ASSUME NEW name \in DOMAIN stored
        PROVE  /\ name \in DOMAIN stored'
               /\ FileOf(stored'[name]) = FileOf(stored[name])
               /\ FileOf(stored[name]) = m => stored'[name] = stored[name]
    BY DEF StoreMoves, StaysIn
  <2>3. ASSUME NEW names, names \subseteq DOMAIN stored, Shows(stored, names, m, places[m])
        PROVE  Shows(stored', names, m, places[m])
    BY <2>2, <2>3 DEF Shows
  <2>4. Shows(stored', DOMAIN stored', m, places[m])
    BY <2>1, <2>2, <2>3 DEF PlacesHold, Shows
  <2>5. ASSUME NEW w \in Workers PROVE Agrees(stored', Names(jobs[w]), m, places[m])
    <3>1. Agrees(stored, Names(jobs[w]), m, places[m])
      BY <2>1 DEF PlacesHold
    <3> QED BY <1>2, <2>2, <2>3, <3>1 DEF Agrees
  <2> QED BY <2>4, <2>5
<1>5. SetsFollow(places)'
  BY FollowsStays, HandStays, SameExtends DEF SetsFollow, StoreMoves
<1> QED BY <1>1, <1>3, <1>4, <1>5

(* A job moves on: it listed the directory, loaded a file, or is done.     *)
LEMMA JobsStayPlaced ==
  ASSUME NamesInv, LoadedInv, DOMAIN jobs = Workers, NEW w \in Workers, NEW r, Job(w, r),
         Names(r) \in {{}, Names(jobs[w]), DOMAIN stored},
         \A name \in DOMAIN r.artifacts :
           r.artifacts[name] = stored[name] \/ FileOf(stored[name]) \in overwritten,
         UNCHANGED <<stored, overwritten>>
  PROVE  /\ NamesInv' /\ LoadedInv'
         /\ \A places : PlacesHold(places) => PlacesHold(places)'
<1>1. jobs'[w] = r /\ \A v \in Workers : v # w => jobs'[v] = jobs[v]
  BY DEF Job
<1>2. \A v \in Workers : Names(jobs'[v]) = IF v = w THEN Names(r) ELSE Names(jobs[v])
  BY <1>1
<1> HIDE DEF Names
<1>3. NamesInv'
  <2>1. \A v \in Workers : Names(jobs'[v]) \subseteq DOMAIN stored
    BY <1>2 DEF NamesInv
  <2>2. ASSUME NEW u \in Workers, NEW v \in Workers
        PROVE  Names(jobs'[u]) \subseteq Names(jobs'[v]) \/ Names(jobs'[v]) \subseteq Names(jobs'[u])
    <3>1. CASE Names(r) = {}
      BY <1>2, <3>1 DEF NamesInv
    <3>2. CASE Names(r) = Names(jobs[w])
      <4>1. Names(jobs'[u]) = Names(jobs[u]) /\ Names(jobs'[v]) = Names(jobs[v])
        BY <1>2, <3>2
      <4> QED BY <4>1 DEF NamesInv
    <3>3. CASE Names(r) = DOMAIN stored
      BY <1>2, <2>1, <3>3 DEF NamesInv
    <3> QED BY <3>1, <3>2, <3>3
  <2>3. \A v \in Workers : Names(jobs[v])' = Names(jobs'[v])
    BY DEF Names
  <2> QED BY <2>1, <2>2, <2>3 DEF NamesInv
<1>4. LoadedInv'
  BY <1>1 DEF LoadedInv
<1>5. ASSUME NEW places, PlacesHold(places) PROVE PlacesHold(places)'
  <2> SUFFICES ASSUME NEW m \in DOMAIN places \ overwritten
               PROVE  /\ Shows(stored, DOMAIN stored, m, places[m])
                      /\ \A v \in Workers : Agrees(stored, Names(jobs'[v]), m, places[m])
    BY DEF PlacesHold, Names
  <2>1. /\ Shows(stored, DOMAIN stored, m, places[m])
        /\ \A v \in Workers : Agrees(stored, Names(jobs[v]), m, places[m])
    BY <1>5 DEF PlacesHold
  <2>2. Agrees(stored, {}, m, places[m])
    BY DEF Agrees
  <2>3. Agrees(stored, DOMAIN stored, m, places[m])
    BY <2>1 DEF Agrees
  <2>4. Agrees(stored, Names(r), m, places[m])
    BY <2>1, <2>2, <2>3
  <2> QED BY <1>2, <2>1, <2>4
<1> QED BY <1>3, <1>4, <1>5

(***************************************************************************)
(* A replacement brings no set that was in nobody's hands before.          *)
(***************************************************************************)
LEMMA NoSetFollows ==
  ASSUME NEW places, NEW gone
  PROVE  /\ \A d : SetFollows(d, NoSet, places, gone)
         /\ HandFollows(NoTransaction, places, gone)
BY DEF SetFollows, HandFollows, NoTransaction

LEMMA PartsFollow ==
  ASSUME NEW d \in Stages, NEW set, NEW places, NEW gone, SetFollows(d, set, places, gone),
         set # NoSet, NEW names \in SUBSET DOMAIN set
  PROVE  SetFollows(d, Only(set, names), places, gone)
<1> DEFINE part == Only(set, names)
<1>1. DOMAIN part = names /\ \A name \in names : part[name] = set[name]
  BY DEF Only
<1>2. SUFFICES ASSUME Filenames[d] \subseteq names, d \in {"holdout", "model"}
               PROVE  SetFollows(d, part, places, gone)
  BY <1>1 DEF SetFollows
<1>3. CASE d = "holdout"
  <2>1. part.evaluation = set.evaluation /\ part.predictions = set.predictions
    BY <1>1, <1>2, <1>3 DEF Filenames
  <2> HIDE DEF part
  <2> QED BY <1>2, <1>3, <2>1 DEF SetFollows
<1>4. CASE d = "model"
  <2>1. part.manifest = set.manifest /\ part.model = set.model
    BY <1>1, <1>2, <1>4 DEF Filenames
  <2> HIDE DEF part
  <2> QED BY <1>2, <1>4, <2>1 DEF SetFollows
<1> QED BY <1>2, <1>3, <1>4

(* What a step of w leaves in place, and in its hands.                     *)
LEMMA HandsFollow ==
  ASSUME OutputTypes, NEW places, SetsFollow(places), NEW w \in Workers, NEW t,
         publishing' = [publishing EXCEPT ![w] = t], HandFollows(t, places, overwritten),
         \A d \in Stages : SetFollows(d, sets'[d], places, overwritten),
         UNCHANGED overwritten
  PROVE  SetsFollow(places)'
<1>1. \A v \in Workers : publishing'[v] = IF v = w THEN t ELSE publishing[v]
  BY DEF OutputTypes, AsFunction
<1> QED BY <1>1 DEF SetsFollow

LEMMA ReplacingFollows ==
  ASSUME OutputsInv, NEW places, SetsFollow(places), NEW w \in Workers, ReplaceOutputSet(w)
  PROVE  SetsFollow(places)'
<1> DEFINE t == publishing[w]
           d == t.dir
           F(set) == SetFollows(d, set, places, overwritten)
<1>1. /\ t.at # "idle" /\ d \in Stages /\ DOMAIN t = TransactionFields
      /\ DOMAIN sets = Stages
  <2>1. t.at # "idle"
    BY DEF ReplaceOutputSet, PrepareNew, LookForOld, MoveOld, InstallNew, RemoveOld,
           UndoInstall, RestoreOld, RetryRestore, RemoveTransaction, BuildKilled
  <2>2. t # NoTransaction
    BY <2>1, Apart
  <2> QED BY <2>1, <2>2 DEF OutputsInv, OutputTypes, TransactionsInv, TransactionSound
<1>2. F(t.new) /\ F(t.old) /\ F(t.failed) /\ F(sets[d])
  BY <1>1 DEF SetsFollow, HandFollows
<1>3. UNCHANGED overwritten
  BY DEF ReplaceOutputSet, trajectoryVars
<1>4. F(NoSet) /\ HandFollows(NoTransaction, places, overwritten)
  BY NoSetFollows
<1>5. \A e \in Stages : SetFollows(e, sets[e], places, overwritten)
  BY DEF SetsFollow
<1>6. ASSUME NEW u, publishing' = [publishing EXCEPT ![w] = u],
             \/ u = NoTransaction
             \/ /\ u.dir = d
                /\ F(u.new) /\ F(u.old) /\ F(u.failed),
             \/ UNCHANGED sets
             \/ \E set : F(set) /\ sets' = [sets EXCEPT ![d] = set]
      PROVE  SetsFollow(places)'
  <2>1. HandFollows(u, places, overwritten)
    BY <1>4, <1>6 DEF HandFollows
  <2>2. \A e \in Stages : SetFollows(e, sets'[e], places, overwritten)
    <3>1. CASE UNCHANGED sets
      BY <1>5, <3>1
    <3>2. ASSUME NEW set, F(set), sets' = [sets EXCEPT ![d] = set]
          PROVE  \A e \in Stages : SetFollows(e, sets'[e], places, overwritten)
      <4>1. \A e \in Stages : sets'[e] = IF e = d THEN set ELSE sets[e]
        BY <1>1, <3>2
      <4> QED BY <1>5, <3>2, <4>1
    <3> QED BY <1>6, <3>1, <3>2
  <2> QED BY <1>3, <1>6, <2>1, <2>2, HandsFollow DEF OutputsInv
<1> HIDE DEF F
<1>7. ASSUME NEW at, Reaches(w, at), UNCHANGED sets PROVE SetsFollow(places)'
  <2> DEFINE u == [t EXCEPT !.at = at]
  <2>1. u.dir = d /\ u.new = t.new /\ u.old = t.old /\ u.failed = t.failed
    BY <1>1 DEF TransactionFields
  <2>2. publishing' = [publishing EXCEPT ![w] = u]
    BY <1>7 DEF Reaches
  <2> HIDE DEF u
  <2> QED BY <1>2, <1>6, <1>7, <2>1, <2>2
<1>8. ASSUME Goes(w, NoTransaction), UNCHANGED sets PROVE SetsFollow(places)'
  BY <1>6, <1>8 DEF Goes
<1>9. ASSUME NEW at, NEW part, F(part), Goes(w, [t EXCEPT !.at = at, !.new = part]),
             \/ UNCHANGED sets
             \/ \E set : F(set) /\ sets' = [sets EXCEPT ![d] = set]
      PROVE  SetsFollow(places)'
  <2> DEFINE u == [t EXCEPT !.at = at, !.new = part]
  <2>1. u.dir = d /\ F(u.new) /\ F(u.old) /\ F(u.failed)
    BY <1>1, <1>2, <1>9 DEF TransactionFields
  <2>2. publishing' = [publishing EXCEPT ![w] = u]
    BY <1>9 DEF Goes
  <2> HIDE DEF u
  <2> QED BY <1>6, <1>9, <2>1, <2>2
<1>10. ASSUME NEW at, NEW part, F(part), Goes(w, [t EXCEPT !.at = at, !.old = part]),
             \/ UNCHANGED sets
             \/ \E set : F(set) /\ sets' = [sets EXCEPT ![d] = set]
      PROVE  SetsFollow(places)'
  <2> DEFINE u == [t EXCEPT !.at = at, !.old = part]
  <2>1. u.dir = d /\ F(u.new) /\ F(u.old) /\ F(u.failed)
    BY <1>1, <1>2, <1>10 DEF TransactionFields
  <2>2. publishing' = [publishing EXCEPT ![w] = u]
    BY <1>10 DEF Goes
  <2> HIDE DEF u
  <2> QED BY <1>6, <1>10, <2>1, <2>2
<1>11. ASSUME NEW at, NEW part, F(part), Goes(w, [t EXCEPT !.at = at, !.failed = part]),
             \/ UNCHANGED sets
             \/ \E set : F(set) /\ sets' = [sets EXCEPT ![d] = set]
      PROVE  SetsFollow(places)'
  <2> DEFINE u == [t EXCEPT !.at = at, !.failed = part]
  <2>1. u.dir = d /\ F(u.new) /\ F(u.old) /\ F(u.failed)
    BY <1>1, <1>2, <1>11 DEF TransactionFields
  <2>2. publishing' = [publishing EXCEPT ![w] = u]
    BY <1>11 DEF Goes
  <2> HIDE DEF u
  <2> QED BY <1>6, <1>11, <2>1, <2>2
<1>12. CASE PrepareNew(w) \/ LookForOld(w) \/ RemoveTransaction(w) \/ BuildKilled(w)
  BY <1>7, <1>8, <1>12 DEF PrepareNew, LookForOld, RemoveTransaction, BuildKilled
<1>13. CASE MoveOld(w)
  BY <1>2, <1>4, <1>7, <1>10, <1>13 DEF MoveOld
<1>14. CASE InstallNew(w)
  BY <1>2, <1>4, <1>7, <1>9, <1>14 DEF InstallNew
<1>15. CASE RemoveOld(w)
  <2>1. CASE Goes(w, [t EXCEPT !.at = "clean", !.old = NoSet])
    BY <1>4, <1>10, <1>15, <2>1 DEF RemoveOld
  <2>2. ASSUME NEW names \in SUBSET DOMAIN t.old,
               Goes(w, [t EXCEPT !.at = "undo", !.old = Only(t.old, names)])
        PROVE  SetsFollow(places)'
    <3>1. t.at = "remove" /\ t # NoTransaction
      BY <1>15, Apart DEF RemoveOld
    <3>2. t.old # NoSet
      BY <3>1 DEF OutputsInv, TransactionsInv, TransactionSound
    <3>3. F(Only(t.old, names))
      BY <1>1, <1>2, <3>2, PartsFollow DEF F
    <3> QED BY <1>10, <1>15, <2>2, <3>3 DEF RemoveOld
  <2> QED BY <1>15, <2>1, <2>2 DEF RemoveOld
<1>16. CASE UndoInstall(w)
  BY <1>2, <1>4, <1>7, <1>11, <1>16 DEF UndoInstall
<1>17. CASE RestoreOld(w)
  BY <1>2, <1>4, <1>7, <1>10, <1>17 DEF RestoreOld
<1>18. CASE RetryRestore(w)
  BY <1>2, <1>4, <1>7, <1>8, <1>10, <1>18 DEF RetryRestore
<1> QED BY <1>12, <1>13, <1>14, <1>15, <1>16, <1>17, <1>18 DEF ReplaceOutputSet

(***************************************************************************)
(* What the steps of a job list and load.                                  *)
(***************************************************************************)
LEMMA NoJobNames == Names(NoJob) = {} /\ DOMAIN NoJob.artifacts = {}
BY DEF Names, NoJob

LEMMA JobStepsPlace ==
  ASSUME TrajectoriesInv, JobsOk, NamesInv, LoadedInv, NEW w \in Workers,
         \/ \E s \in Stages : StartStage(w, s)
         \/ ReadSourceFile(w)
         \/ ScanTrajectories(w)
         \/ LoadTrajectory(w)
  PROVE  /\ NamesInv' /\ LoadedInv'
         /\ \A places : PlacesHold(places) => PlacesHold(places)'
<1> DEFINE job == jobs[w]
           Loaded(r) == \A name \in DOMAIN r.artifacts :
                          r.artifacts[name] = stored[name] \/ FileOf(stored[name]) \in overwritten
<1>1. UNCHANGED <<stored, overwritten>> /\ DOMAIN jobs = Workers
  BY DEF StartStage, ReadSourceFile, ScanTrajectories, LoadTrajectory, trajectoryVars, JobsOk, JobsInv
<1>2. Loaded(job) /\ Names(job) \subseteq DOMAIN stored
  BY DEF LoadedInv, NamesInv
<1>3. ASSUME NEW r, Job(w, r), Loaded(r), Names(r) \in {{}, Names(job), DOMAIN stored}
      PROVE  /\ NamesInv' /\ LoadedInv'
             /\ \A places : PlacesHold(places) => PlacesHold(places)'
  BY <1>1, <1>3, JobsStayPlaced
<1>4. ASSUME Job(w, NoJob)
      PROVE  /\ NamesInv' /\ LoadedInv'
             /\ \A places : PlacesHold(places) => PlacesHold(places)'
  BY <1>3, <1>4, NoJobNames
<1>5. job.at # "idle" => DOMAIN job = JobFields /\ LoadSound(job, stored)
  BY DEF JobsOk, JobsInv, JobSound
<1>6. ASSUME NEW s \in Stages, StartStage(w, s)
      PROVE  /\ NamesInv' /\ LoadedInv'
             /\ \A places : PlacesHold(places) => PlacesHold(places)'
  <2> DEFINE r == [NoJob EXCEPT !.at = IF s = "dataset" THEN "scan" ELSE "files", !.stage = s]
  <2>1. Job(w, r)
    BY <1>6 DEF StartStage
  <2>2. r.todo = {} /\ r.artifacts = <<>>
    BY DEF NoJob
  <2> HIDE DEF r
  <2>3. DOMAIN r.artifacts = {}
    BY <2>2
  <2>4. Names(r) = {} /\ Loaded(r)
    BY <2>2, <2>3 DEF Names
  <2> QED BY <1>3, <2>1, <2>4
<1>7. CASE ReadSourceFile(w)
  <2>1. ASSUME NEW got, NEW at, Job(w, [job EXCEPT !.read = got, !.at = at]), job.at = "files"
        PROVE  /\ NamesInv' /\ LoadedInv'
               /\ \A places : PlacesHold(places) => PlacesHold(places)'
    <3> DEFINE r == [job EXCEPT !.read = got, !.at = at]
    <3>1. r.todo = job.todo /\ r.artifacts = job.artifacts
      BY <1>5, <2>1 DEF JobFields
    <3>2. Job(w, r)
      BY <2>1
    <3> HIDE DEF r
    <3>3. Names(r) = Names(job) /\ Loaded(r)
      BY <1>2, <3>1 DEF Names
    <3> QED BY <1>3, <3>2, <3>3
  <2> QED BY <1>4, <1>7, <2>1 DEF ReadSourceFile
<1>8. CASE ScanTrajectories(w)
  <2> DEFINE r == [job EXCEPT !.at = "artifacts", !.todo = DOMAIN stored]
  <2>1. job.at = "scan" /\ (Job(w, NoJob) \/ Job(w, r))
    BY <1>8 DEF ScanTrajectories
  <2>2. r.todo = DOMAIN stored /\ r.artifacts = job.artifacts
    BY <1>5, <2>1 DEF JobFields
  <2> HIDE DEF r
  <2>3. Names(r) = DOMAIN stored /\ Loaded(r)
    BY <1>2, <2>2 DEF Names
  <2> QED BY <1>3, <1>4, <2>1, <2>3
<1>9. CASE LoadTrajectory(w)
  <2> DEFINE name == Min(job.todo)
             left == job.todo \ {name}
             at == IF left = {} THEN "build" ELSE "artifacts"
             loaded == [n \in DOMAIN job.artifacts \cup {name} |->
                          IF n = name THEN stored[name] ELSE job.artifacts[n]]
             r == [job EXCEPT !.todo = left, !.at = at, !.artifacts = loaded]
  <2>1. job.at = "artifacts" /\ Job(w, r)
    BY <1>9 DEF LoadTrajectory
  <2>2. name \in job.todo
    <3>1. job.todo \subseteq Nat /\ job.todo # {}
      BY <1>5, <2>1 DEF LoadSound, TrajectoriesInv
    <3>2. \E x \in job.todo : \A y \in job.todo : x <= y
      BY <3>1, LeastElement
    <3> QED BY <3>1, <3>2 DEF Min
  <2>3. r.todo = left /\ r.artifacts = loaded
    BY <1>5, <2>1 DEF JobFields
  <2> HIDE DEF r, name
  <2>4. /\ DOMAIN loaded = DOMAIN job.artifacts \cup {name}
        /\ loaded[name] = stored[name]
        /\ \A n \in DOMAIN job.artifacts : n # name => loaded[n] = job.artifacts[n]
    OBVIOUS
  <2> HIDE DEF loaded
  <2>5. Names(r) = Names(job)
    BY <2>2, <2>3, <2>4 DEF Names
  <2>6. Loaded(r)
    BY <1>2, <2>3, <2>4
  <2> QED BY <1>3, <2>1, <2>5, <2>6
<1> QED BY <1>6, <1>7, <1>8, <1>9

(***************************************************************************)
(* A look at the directory that finds no conflict places its matches where *)
(* the others did, or first.                                               *)
(***************************************************************************)
LEMMA LineageFacts ==
  ASSUME NEW named, LineageHolds(named)
  PROVE  /\ \A n \in DOMAIN named : FileOf(named[n]) \in DOMAIN Lineage(named)
         /\ \A m \in DOMAIN Lineage(named) : \E n \in DOMAIN named : FileOf(named[n]) = m
         /\ \A n \in DOMAIN named : Lineage(named)[FileOf(named[n])] = LeagueIn(named[n])
<1> DEFINE artifacts == {named[n] : n \in DOMAIN named}
<1>1. Lineage(named) = [m \in MatchIds(artifacts) |-> Trajectory[Source(artifacts, m)].league]
  BY DEF Lineage
<1>2. \A a, b \in artifacts : FileOf(a) = FileOf(b) => LeagueIn(a) = LeagueIn(b)
  BY DEF LineageHolds, LineageConflicts, FileOf, LeagueIn
<1>3. MatchIds(artifacts) = {FileOf(a) : a \in artifacts}
  BY DEF MatchIds, FileOf
<1>4. \A a \in artifacts : Source(artifacts, FileOf(a)) \in artifacts
                           /\ FileOf(Source(artifacts, FileOf(a))) = FileOf(a)
  BY DEF Source, FileOf
<1>5. \A n \in DOMAIN named : named[n] \in artifacts
  OBVIOUS
<1>6. \A a \in artifacts : \E n \in DOMAIN named : a = named[n]
  OBVIOUS
<1> HIDE DEF artifacts
<1>7. \A a \in artifacts : FileOf(a) \in DOMAIN Lineage(named) /\ Lineage(named)[FileOf(a)] = LeagueIn(a)
  BY <1>1, <1>2, <1>3, <1>4 DEF LeagueIn
<1>8. DOMAIN Lineage(named) = {FileOf(a) : a \in artifacts}
  BY <1>1, <1>3
<1> QED BY <1>5, <1>6, <1>7, <1>8

LEMMA Placing ==
  ASSUME JobsOk, NamesInv, LoadedInv, NEW places, PlacesHold(places), NEW w \in Workers,
         jobs[w].at = "build", LineageHolds(jobs[w].artifacts)
  PROVE  \E more :
           /\ PlacesHold(more)
           /\ Extends(more, places, overwritten)
           /\ \A m \in DOMAIN Lineage(jobs[w].artifacts) \ overwritten :
                m \in DOMAIN more /\ more[m] = Lineage(jobs[w].artifacts)[m]
<1> DEFINE named == jobs[w].artifacts
           lineage == Lineage(named)
           more == [m \in DOMAIN places \cup DOMAIN lineage |->
                      IF m \in DOMAIN places THEN places[m] ELSE lineage[m]]
<1>1. /\ DOMAIN named \subseteq DOMAIN stored /\ Names(jobs[w]) = DOMAIN named
      /\ \A n \in DOMAIN named : FileOf(stored[n]) = FileOf(named[n])
  BY DEF JobsOk, JobsInv, JobSound, LoadSound, Names
<1>2. \A n \in DOMAIN named : FileOf(named[n]) \notin overwritten => named[n] = stored[n]
  BY <1>1 DEF LoadedInv
<1>3. /\ \A n \in DOMAIN named : FileOf(named[n]) \in DOMAIN lineage
      /\ \A m \in DOMAIN lineage : \E n \in DOMAIN named : FileOf(named[n]) = m
      /\ \A n \in DOMAIN named : lineage[FileOf(named[n])] = LeagueIn(named[n])
  BY LineageFacts
<1>4. /\ DOMAIN more = DOMAIN places \cup DOMAIN lineage
      /\ \A m \in DOMAIN places : more[m] = places[m]
      /\ \A m \in DOMAIN lineage \ DOMAIN places : more[m] = lineage[m]
  OBVIOUS
<1> HIDE DEF more, lineage, named
<1>5. ASSUME NEW m \in DOMAIN lineage \ overwritten
      PROVE  /\ Shows(stored, DOMAIN named, m, lineage[m])
             /\ \A n \in DOMAIN named : FileOf(stored[n]) = m => LeagueIn(stored[n]) = lineage[m]
  BY <1>1, <1>2, <1>3 DEF Shows
<1>6. ASSUME NEW m \in DOMAIN places \ overwritten, m \in DOMAIN lineage
      PROVE  places[m] = lineage[m]
  <2>1. Agrees(stored, DOMAIN named, m, places[m])
    BY <1>1 DEF PlacesHold
  <2> QED BY <1>5, <1>6, <2>1 DEF Agrees, Shows
<1>7. ASSUME NEW m \in DOMAIN more \ overwritten
      PROVE  /\ Shows(stored, DOMAIN stored, m, more[m])
             /\ \A v \in Workers : Agrees(stored, Names(jobs[v]), m, more[m])
  <2>1. CASE m \in DOMAIN places
    BY <1>4, <1>7, <2>1 DEF PlacesHold
  <2>2. CASE m \notin DOMAIN places
    <3>1. m \in DOMAIN lineage /\ more[m] = lineage[m]
      BY <1>4, <1>7, <2>2
    <3>2. Shows(stored, DOMAIN stored, m, more[m])
      BY <1>1, <1>5, <3>1 DEF Shows
    <3>3. ASSUME NEW v \in Workers PROVE Agrees(stored, Names(jobs[v]), m, more[m])
      <4>1. DOMAIN named \subseteq Names(jobs[v]) \/ Names(jobs[v]) \subseteq DOMAIN named
        BY <1>1 DEF NamesInv
      <4>2. CASE DOMAIN named \subseteq Names(jobs[v])
        BY <1>5, <3>1, <4>2 DEF Agrees, Shows
      <4>3. CASE Names(jobs[v]) \subseteq DOMAIN named
        BY <1>5, <3>1, <4>3 DEF Agrees
      <4> QED BY <4>1, <4>2, <4>3
    <3> QED BY <3>2, <3>3
  <2> QED BY <2>1, <2>2
<1>8. PlacesHold(more)
  BY <1>7 DEF PlacesHold
<1>9. Extends(more, places, overwritten)
  BY <1>4 DEF Extends
<1>10. \A m \in DOMAIN lineage \ overwritten : m \in DOMAIN more /\ more[m] = lineage[m]
  BY <1>4, <1>6
<1> QED BY <1>8, <1>9, <1>10 DEF lineage, named

(* The training matches of a lineage are those of the places it was in.    *)
LEMMA TaughtByLineage ==
  ASSUME NEW training, NEW lineage, NEW places, NEW gone,
         RowMatches(Rows(training)) \subseteq DOMAIN lineage,
         \A m \in DOMAIN lineage \ gone : m \in DOMAIN places /\ places[m] = lineage[m]
  PROVE  Taught(LeagueMatches(RowMatches(Rows(training)), lineage, TrainLeagues),
                training, places, gone)
<1> DEFINE all == RowMatches(Rows(training))
<1> HIDE DEF all
<1>1. /\ all \ gone \subseteq DOMAIN places
      /\ LeagueMatches(all, lineage, TrainLeagues) \ gone
           = {m \in all \ gone : places[m] \in TrainLeagues}
  BY DEF all, LeagueMatches
<1> QED BY <1>1 DEF Taught, all

(* Every match of the rows the bundle is trained on has a file, for it had *)
(* one when the rows were made.                                            *)
LEMMA RowsAreNamed ==
  ASSUME JobsOk, NEW w \in Workers, jobs[w].at = "build", jobs[w].stage = "model",
         TrainingHashHolds(jobs[w].read), LineageHolds(jobs[w].artifacts)
  PROVE  RowMatches(Rows(jobs[w].read[2])) \subseteq DOMAIN Lineage(jobs[w].artifacts)
<1> DEFINE job == jobs[w]
           named == job.artifacts
<1>1. ReadSound(job, Known) /\ LoadSound(job, stored)
  BY DEF JobsOk, JobsInv, JobSound
<1>2. PICK artifacts \in SUBSET Artifacts :
        /\ job.read[1].training = [decisions |-> artifacts, outcomes |-> artifacts]
        /\ job.read[2] = [decisions |-> artifacts, outcomes |-> artifacts]
  BY <1>1, TrainingRead
<1>3. \A a \in artifacts : \E name \in DOMAIN named : FileOf(named[name]) = FileOf(a)
  <2>1. Covers(job, stored, job.read[1].training) /\ job.todo = {}
    BY <1>1 DEF LoadSound
  <2> QED BY <1>2, <2>1 DEF Covers
<1>4. \A a \in artifacts : FileOf(a) \in DOMAIN Lineage(named)
  BY <1>3, LineageFacts
<1> HIDE DEF named, job
<1>5. RowMatches(Rows(job.read[2])) \subseteq {FileOf(a) : a \in artifacts}
  BY <1>2, RowsAreOfMatches
<1>6. {FileOf(a) : a \in artifacts} \subseteq DOMAIN Lineage(named)
  BY <1>4
<1> QED BY <1>5, <1>6 DEF named, job

LEMMA HoldoutFollows ==
  ASSUME NEW read, NEW named, NEW places, NEW gone, BuildHoldout(read, named) # NoSet,
         \A m \in DOMAIN Lineage(named) \ gone : m \in DOMAIN places /\ places[m] = Lineage(named)[m]
  PROVE  SetFollows("holdout", BuildHoldout(read, named), places, gone)
<1> DEFINE matches == RowMatches(Rows(read[2]))
           lineage == Lineage(named)
           train == LeagueMatches(matches, lineage, TrainLeagues)
           fold == [train |-> train, test |-> LeagueMatches(matches, lineage, TestLeagues)]
           leagues == [m \in matches |-> lineage[m]]
           files == HoldoutEvaluation(read[1], leagues, fold)
<1>1. /\ read[2] = read[1].training /\ matches \subseteq DOMAIN lineage
      /\ BuildHoldout(read, named) = files
  BY DEF BuildHoldout, TrainingHashHolds
<1> HIDE DEF lineage, leagues
<1>2. Taught(train, read[2], places, gone)
  BY <1>1, TaughtByLineage DEF lineage
<1> HIDE DEF train
<1>3. files.predictions[1].train = train /\ files.evaluation.source = read[1]
  BY DEF HoldoutEvaluation
<1> HIDE DEF files
<1> QED BY <1>1, <1>2, <1>3 DEF SetFollows

LEMMA ModelFollows ==
  ASSUME NEW read, NEW named, NEW places, NEW gone, BuildModel(read, named) # NoSet,
         RowMatches(Rows(read[2])) \subseteq DOMAIN Lineage(named),
         \A m \in DOMAIN Lineage(named) \ gone : m \in DOMAIN places /\ places[m] = Lineage(named)[m]
  PROVE  SetFollows("model", BuildModel(read, named), places, gone)
<1> DEFINE lineage == Lineage(named)
           matches == LeagueMatches(RowMatches(Rows(read[2])), lineage, TrainLeagues)
           model == TrainedModel(read[2], matches)
           leagues == [m \in matches |-> lineage[m]]
           files == [model |-> model, manifest |-> BundleManifest(read[1], leagues, model)]
<1>1. read[2] = read[1].training /\ BuildModel(read, named) = files
  BY DEF BuildModel, TrainingHashHolds
<1> HIDE DEF lineage, leagues
<1>2. Taught(matches, read[2], places, gone)
  BY TaughtByLineage DEF lineage
<1> HIDE DEF matches
<1>3. files.model.matches = matches /\ files.manifest.source = read[1]
  BY DEF TrainedModel, BundleManifest
<1> HIDE DEF files
<1> QED BY <1>1, <1>2, <1>3 DEF SetFollows

(* What a build publishes follows the places, and those it is the first to *)
(* look at.                                                                *)
LEMMA BuiltFollows ==
  ASSUME JobsOk, NamesInv, LoadedInv, NEW places, PlacesHold(places), NEW w \in Workers,
         jobs[w].at = "build", Built(jobs[w]) # NoSet
  PROVE  \E more :
           /\ PlacesHold(more)
           /\ Extends(more, places, overwritten)
           /\ SetFollows(jobs[w].stage, Built(jobs[w]), more, overwritten)
<1> DEFINE job == jobs[w]
           read == job.read
           named == job.artifacts
<1>1. CASE job.stage = "holdout"
  <2>1. Built(job) = BuildHoldout(read, named)
    BY <1>1 DEF Built
  <2>2. LineageHolds(named)
    BY <2>1 DEF BuildHoldout
  <2> QED BY <1>1, <2>1, <2>2, Placing, HoldoutFollows
<1>2. CASE job.stage = "model"
  <2>1. Built(job) = BuildModel(read, named)
    BY <1>2 DEF Built
  <2>2. LineageHolds(named) /\ TrainingHashHolds(read)
    BY <2>1 DEF BuildModel
  <2>3. RowMatches(Rows(read[2])) \subseteq DOMAIN Lineage(named)
    BY <1>2, <2>2, RowsAreNamed
  <2> QED BY <1>2, <2>1, <2>2, <2>3, Placing, ModelFollows
<1>3. CASE job.stage \notin {"holdout", "model"}
  BY <1>3, SameExtends DEF SetFollows
<1> QED BY <1>1, <1>2, <1>3

LEMMA BuildPlaces ==
  ASSUME JobsOk, OutputTypes, PlacedInv, NEW w \in Workers, BuildOutputs(w)
  PROVE  PlacedInv'
<1> DEFINE job == jobs[w]
           files == Built(job)
<1>1. job.at = "build" /\ Job(w, NoJob) /\ UNCHANGED <<stored, overwritten>>
      /\ PublishUnlessThere(w, job.stage, files)
  BY DEF BuildOutputs, trajectoryVars
<1>2. PICK places : PlacesHold(places) /\ SetsFollow(places)
  BY DEF PlacedInv
<1>3. /\ NamesInv' /\ LoadedInv'
      /\ \A some : PlacesHold(some) => PlacesHold(some)'
  <2>1. NamesInv /\ LoadedInv /\ DOMAIN jobs = Workers
    BY DEF PlacedInv, JobsOk, JobsInv
  <2> QED BY <1>1, <2>1, NoJobNames, JobsStayPlaced
<1>4. CASE UNCHANGED outputVars
  <2>1. SetsFollow(places)'
    BY <1>1, <1>2, <1>4 DEF SetsFollow, outputVars
  <2> QED BY <1>2, <1>3, <2>1 DEF PlacedInv
<1>5. CASE files # NoSet /\ StartPublishing(w, job.stage, files)
  <2>1. PICK more : /\ PlacesHold(more)
                    /\ Extends(more, places, overwritten)
                    /\ SetFollows(job.stage, files, more, overwritten)
    BY <1>1, <1>2, <1>5, BuiltFollows DEF PlacedInv
  <2> DEFINE t == [NoTransaction EXCEPT !.at = "prepare", !.dir = job.stage, !.new = files]
  <2>2. t.dir = job.stage /\ t.new = files /\ t.old = NoSet /\ t.failed = NoSet
    BY DEF NoTransaction
  <2>3. publishing' = [publishing EXCEPT ![w] = t] /\ UNCHANGED sets
    BY <1>5 DEF StartPublishing, Goes
  <2> HIDE DEF t, files
  <2>4. HandFollows(t, more, overwritten)
    BY <2>1, <2>2, NoSetFollows DEF HandFollows
  <2>5. SetsFollow(more)
    <3>1. overwritten \subseteq overwritten
      OBVIOUS
    <3> QED BY <1>2, <2>1, <3>1, FollowsStays, HandStays DEF SetsFollow
  <2>6. \A d \in Stages : SetFollows(d, sets'[d], more, overwritten)
    BY <2>3, <2>5 DEF SetsFollow
  <2>7. SetsFollow(more)'
    BY <1>1, <2>3, <2>4, <2>5, <2>6, HandsFollow
  <2> QED BY <1>3, <2>1, <2>7 DEF PlacedInv
<1> QED BY <1>1, <1>4, <1>5 DEF PublishUnlessThere

LEMMA InitialPlaces == PipelineInit => PlacedInv
<1> SUFFICES ASSUME PipelineInit PROVE PlacedInv
  OBVIOUS
<1>1. /\ jobs = [w \in Workers |-> NoJob] /\ sets = [d \in Stages |-> NoSet]
      /\ publishing = [w \in Workers |-> NoTransaction]
  BY StagesHaveOutputs DEF PipelineInit, OutputsInit
<1>2. \A w \in Workers : Names(jobs[w]) = {} /\ DOMAIN jobs[w].artifacts = {}
  BY <1>1, NoJobNames
<1> DEFINE none == [m \in {} |-> m]
<1>3. PlacesHold(none)
  BY DEF PlacesHold
<1> HIDE DEF none
<1>4. SetsFollow(none)
  BY <1>1, NoSetFollows DEF SetsFollow
<1> QED BY <1>2, <1>3, <1>4 DEF PlacedInv, NamesInv, LoadedInv

LEMMA PlacedSteps == ReplayInv /\ PlacedInv /\ [ReplayNext]_replayVars => PlacedInv'
<1> SUFFICES ASSUME ReplayInv, PlacedInv, [ReplayNext]_replayVars PROVE PlacedInv'
  OBVIOUS
<1> USE DEF ReplayInv
<1>1. PICK places : PlacesHold(places) /\ SetsFollow(places)
  BY DEF PlacedInv
<1>2. NamesInv /\ LoadedInv /\ OutputTypes
  BY DEF PlacedInv, OutputsInv
<1>3. ASSUME StoreMoves, UNCHANGED <<jobs, sets, publishing>> PROVE PlacedInv'
  BY <1>1, <1>2, <1>3, PlacesStay DEF PlacedInv
<1>4. CASE (ImportStep \/ CopyStep) /\ UNCHANGED <<outputVars, pipelineVars>>
  BY <1>3, <1>4, StoreStepsMove DEF outputVars, pipelineVars
<1>5. CASE UNCHANGED replayVars
  <2>1. StoreMoves
    BY <1>5 DEF StoreMoves, StaysIn, replayVars, trajectoryVars
  <2> QED BY <1>3, <1>5, <2>1 DEF replayVars, outputVars, pipelineVars
<1>6. ASSUME NEW w \in Workers,
             \/ \E s \in Stages : StartStage(w, s)
             \/ ReadSourceFile(w)
             \/ ScanTrajectories(w)
             \/ LoadTrajectory(w)
      PROVE  PlacedInv'
  <2>1. /\ NamesInv' /\ LoadedInv'
        /\ PlacesHold(places)'
    BY <1>1, <1>2, <1>6, JobStepsPlace
  <2>2. UNCHANGED <<sets, publishing, overwritten>>
    BY <1>6 DEF StartStage, ReadSourceFile, ScanTrajectories, LoadTrajectory,
                trajectoryVars, outputVars
  <2>3. SetsFollow(places)'
    BY <1>1, <2>2 DEF SetsFollow
  <2> QED BY <2>1, <2>3 DEF PlacedInv
<1>7. ASSUME NEW w \in Workers, BuildOutputs(w) PROVE PlacedInv'
  BY <1>2, <1>7, BuildPlaces
<1>8. ASSUME NEW w \in Workers, ReplaceOutputSet(w) PROVE PlacedInv'
  <2>1. SetsFollow(places)'
    BY <1>1, <1>8, ReplacingFollows
  <2>2. UNCHANGED <<jobs, stored, overwritten>>
    BY <1>8 DEF ReplaceOutputSet, trajectoryVars, pipelineVars
  <2>3. NamesInv' /\ LoadedInv' /\ PlacesHold(places)'
    BY <1>1, <1>2, <2>2 DEF NamesInv, LoadedInv, PlacesHold, Names
  <2> QED BY <2>1, <2>3 DEF PlacedInv
<1>9. ASSUME NEW w \in Workers,
             \/ BuildDatasetCommand(w) \/ BuildTrainingCommand(w) \/ EvaluateBaselineCommand(w)
             \/ EvaluateHoldoutCommand(w) \/ BuildModelCommand(w)
      PROVE  PlacedInv'
  BY <1>6, <1>9 DEF BuildDatasetCommand, BuildTrainingCommand, EvaluateBaselineCommand,
                    EvaluateHoldoutCommand, BuildModelCommand, Stages
<1>10. ASSUME NEW w \in Workers,
              \/ ReplaceDatasetOutputs(w) \/ ReplaceTrainingOutputs(w) \/ ReplaceEvaluation(w)
              \/ ReplaceBundle(w)
       PROVE  PlacedInv'
  BY <1>8, <1>10 DEF ReplaceDatasetOutputs, ReplaceTrainingOutputs, ReplaceEvaluation,
                     ReplaceBundle, Publishes
<1> QED BY <1>4, <1>5, <1>6, <1>7, <1>9, <1>10 DEF ReplayNext

(* No baseline tests a match before one it was trained on.  The bundle and *)
(* the holdout of one training set were trained on the same matches, so    *)
(* the bundle has seen no match that the holdout tested, whatever was      *)
(* imported or left by hand between their looks at the directory; but for  *)
(* the matches whose file was overwritten by imports that raced.           *)
THEOREM TestsAreUnseen == ReplaySpec => []EvaluatedOnUnseen
<1>1. ReplayInv /\ PlacedInv => EvaluatedOnUnseen
  <2> SUFFICES ASSUME ReplayInv, PlacedInv PROVE EvaluatedOnUnseen
    OBVIOUS
  <2> DEFINE holdout == sets["holdout"]
             model == sets["model"]
             fold == holdout.predictions[1]
             trained == model.model.matches
  <2>1. \A d \in Stages : Whole(d, sets[d]) => Unseen(d, sets[d])
    BY DEF ReplayInv, OutputsInv, ProperInv, Proper, Whole
  <2>2. {"baseline", "holdout", "model"} \subseteq Stages
    BY DEF Stages
  <2>3. Whole("baseline", sets["baseline"]) => SplitsInOrder(sets["baseline"].predictions)
    BY <2>1, <2>2 DEF Unseen
  <2>4. ASSUME Whole("holdout", holdout), Whole("model", model),
               model.manifest.source = holdout.evaluation.source
        PROVE  /\ trained \ overwritten = fold.train \ overwritten
               /\ trained \cap fold.test \subseteq overwritten
    <3>1. PICK places : SetsFollow(places)
      BY DEF PlacedInv
    <3>2. /\ Taught(fold.train, holdout.evaluation.source.training, places, overwritten)
          /\ Taught(trained, model.manifest.source.training, places, overwritten)
      BY <2>2, <2>4, <3>1 DEF SetsFollow, SetFollows, Whole
    <3>3. fold.train \cap fold.test = {}
      BY <2>1, <2>2, <2>4 DEF Unseen
    <3> HIDE DEF fold, trained
    <3>4. trained \ overwritten = fold.train \ overwritten
      BY <2>4, <3>2 DEF Taught
    <3> QED BY <3>3, <3>4
  <2> QED BY <2>3, <2>4 DEF EvaluatedOnUnseen, SplitsInOrder
<1> QED BY <1>1, InitialPlaces, PlacedSteps, ReplayInvariant, PTL DEF ReplaySpec
-----------------------------------------------------------------------------
Minutes(a) == DOMAIN SnapshotsByTime(a)

(* The snapshot of a minute, as the live path normalises it.               *)
NormalAt(a, t) ==
  LET s == SnapshotsByTime(a)[t]
  IN  [time |-> t, diff |-> s.teams["RADIANT"] - s.teams["DIRE"],
       total |-> s.teams["RADIANT"] + s.teams["DIRE"]]

MinutesOf(a) ==
  /\ \A t \in Minutes(a) : t \in Int
  /\ \A t \in Minutes(a), team \in TeamNames : SnapshotsByTime(a)[t].teams[team] \in Int
  /\ NormalizedSnapshots(a) = {NormalAt(a, t) : t \in Minutes(a)}

LEMMA TeamsOfExport ==
  ASSUME NEW e \in ValidExports, NEW i \in DOMAIN Raw[e].snapshots, NEW team \in TeamNames
  PROVE  /\ Raw[e].snapshots[i].time = (i - 1) * SnapshotInterval
         /\ CanonicalSnapshot(Raw[e].snapshots[i]).time = (i - 1) * SnapshotInterval
         /\ CanonicalSnapshot(Raw[e].snapshots[i]).teams[team] \in Int
<1> DEFINE s == Raw[e].snapshots[i]
<1>1. ValidTrajectory(Raw[e])
  BY DEF ValidExports
<1>2. s.time = (i - 1) * SnapshotInterval /\ ValidTeams(s.teams, s.players)
  BY <1>1 DEF ValidTrajectory, ValidSnapshots
<1>3. \E k \in DOMAIN s.teams : s.teams[k].team = team
  BY <1>2 DEF ValidTeams
<1>4. \A k \in DOMAIN s.teams : s.teams[k].worth \in Nat
  BY ExportsAreTyped
<1> HIDE DEF s
<1>5. ByTeam(s.teams)[team] \in DOMAIN s.teams
  BY <1>3 DEF ByTeam
<1>6. CanonicalSnapshot(s).time = s.time
  BY DEF CanonicalSnapshot
<1>7. CanonicalSnapshot(s).teams[team] = s.teams[ByTeam(s.teams)[team]].worth
  BY DEF CanonicalSnapshot
<1> QED BY <1>2, <1>4, <1>5, <1>6, <1>7 DEF s

LEMMA SnapshotFacts ==
  ASSUME NEW a \in Artifacts
  PROVE  MinutesOf(a)
<1> DEFINE S == Trajectory[a].snapshots
<1>1. PICK e \in ValidExports : Canonical(Raw[e]) = Trajectory[a]
  BY ArtifactsAreCanonical
<1>2. S = [i \in DOMAIN Raw[e].snapshots |-> CanonicalSnapshot(Raw[e].snapshots[i])]
  BY <1>1 DEF Canonical
<1>3. PICK n \in Nat : DOMAIN Raw[e].snapshots = 1 .. n
  BY ExportsAreTyped
<1>4. DOMAIN S = 1 .. n
  BY <1>2, <1>3
<1>5. ASSUME NEW i \in 1 .. n
      PROVE  S[i].time = (i - 1) * 60 /\ \A team \in TeamNames : S[i].teams[team] \in Int
  <2>1. S[i] = CanonicalSnapshot(Raw[e].snapshots[i])
    BY <1>2, <1>3
  <2>2. TeamNames # {}
    BY DEF TeamNames
  <2> HIDE DEF S
  <2> QED BY <2>1, <2>2, <1>3, TeamsOfExport DEF SnapshotInterval
<1> HIDE DEF S
<1>6. Minutes(a) = {S[i].time : i \in 1 .. n}
  BY <1>4 DEF Minutes, SnapshotsByTime, S
<1>7. \A t \in Minutes(a) : SnapshotsByTime(a)[t] = S[1 + t \div 60]
  BY DEF Minutes, SnapshotsByTime, S, SnapshotInterval
<1>8. ASSUME NEW t \in Minutes(a)
      PROVE  \E i \in 1 .. n : t = (i - 1) * 60 /\ SnapshotsByTime(a)[t] = S[i]
  <2>1. PICK i \in 1 .. n : t = S[i].time
    BY <1>6
  <2>2. t = (i - 1) * 60
    BY <1>5, <2>1
  <2>3. 1 + t \div 60 = i
    <3>1. i \in Int
      OBVIOUS
    <3> QED BY <2>2, <3>1
  <2> QED BY <1>7, <2>2, <2>3
<1>9. ASSUME NEW i \in 1 .. n
      PROVE  (i - 1) * 60 \in Minutes(a) /\ SnapshotsByTime(a)[(i - 1) * 60] = S[i]
  <2>1. (i - 1) * 60 \in Minutes(a)
    BY <1>5, <1>6
  <2>2. PICK j \in 1 .. n : (i - 1) * 60 = (j - 1) * 60 /\ SnapshotsByTime(a)[(i - 1) * 60] = S[j]
    BY <2>1, <1>8
  <2>3. i = j
    BY <2>2
  <2> QED BY <2>1, <2>2, <2>3
<1>10. \A t \in Minutes(a) : t \in Int
  BY <1>8
<1>11. \A t \in Minutes(a), team \in TeamNames : SnapshotsByTime(a)[t].teams[team] \in Int
  BY <1>8, <1>5
<1> DEFINE N(s) == [time |-> s.time, diff |-> s.teams["RADIANT"] - s.teams["DIRE"],
                    total |-> s.teams["RADIANT"] + s.teams["DIRE"]]
<1>12. NormalizedSnapshots(a) = {N(S[i]) : i \in 1 .. n}
  BY <1>4 DEF NormalizedSnapshots, S
<1>13. ASSUME NEW i \in 1 .. n PROVE NormalAt(a, (i - 1) * 60) = N(S[i])
  BY <1>5, <1>9 DEF NormalAt
<1> HIDE DEF N
<1>14. {N(S[i]) : i \in 1 .. n} = {NormalAt(a, t) : t \in Minutes(a)}
  <2>1. ASSUME NEW t \in Minutes(a) PROVE \E i \in 1 .. n : NormalAt(a, t) = N(S[i])
    BY <1>8, <1>13
  <2>2. ASSUME NEW i \in 1 .. n PROVE \E t \in Minutes(a) : NormalAt(a, t) = N(S[i])
    BY <1>9, <1>13
  <2> QED BY <2>1, <2>2
<1> QED BY <1>10, <1>11, <1>12, <1>14 DEF MinutesOf

(* The rows of a choice of trajectories, and their keys.                   *)
RowsOfMinutes(artifacts, a) ==
  LET m == Trajectory[a].match
      decisions == Decisions(artifacts)
  IN  /\ \A t, team : <<m, t, team>> \in DOMAIN decisions <=> t \in Minutes(a) /\ team \in TeamNames
      /\ \A t \in Minutes(a), team \in TeamNames :
           decisions[<<m, t, team>>] = DecisionRow(SnapshotsByTime(a)[t], team)

LEMMA DecisionFacts ==
  ASSUME NEW artifacts \in SUBSET Artifacts, NEW known, Genuine(artifacts, known), NEW a \in artifacts
  PROVE  Source(artifacts, Trajectory[a].match) = a /\ RowsOfMinutes(artifacts, a)
<1> DEFINE m == Trajectory[a].match
           decisions == Decisions(artifacts)
<1>1. \A b \in artifacts : Trajectory[b].match = m => b = a
  BY DEF Genuine, FileOf
<1>2. Source(artifacts, m) = a
  BY <1>1 DEF Source
<1>3. DOMAIN decisions = DecisionKeys(artifacts)
  BY DEF Decisions
<1>4. \A key \in DecisionKeys(artifacts) :
        decisions[key] = DecisionRow(SnapshotsByTime(Source(artifacts, key[1]))[key[2]], key[3])
  BY DEF Decisions
<1> HIDE DEF decisions, m
<1>5. \A b \in artifacts : \A t \in Minutes(b), team \in TeamNames :
        <<Trajectory[b].match, t, team>> \in DecisionKeys(artifacts)
  BY DEF DecisionKeys, Minutes
<1>6. \A key \in DecisionKeys(artifacts) :
        \E b \in artifacts : \E t \in Minutes(b), team \in TeamNames : key = <<Trajectory[b].match, t, team>>
  BY DEF DecisionKeys, Minutes
<1>7. ASSUME NEW t, NEW team
      PROVE  <<m, t, team>> \in DecisionKeys(artifacts) <=> t \in Minutes(a) /\ team \in TeamNames
  <2>1. ASSUME <<m, t, team>> \in DecisionKeys(artifacts) PROVE t \in Minutes(a) /\ team \in TeamNames
    <3>1. PICK b \in artifacts : \E u \in Minutes(b), side \in TeamNames :
            <<m, t, team>> = <<Trajectory[b].match, u, side>>
      BY <1>6, <2>1
    <3>0. PICK u \in Minutes(b), side \in TeamNames :
            <<m, t, team>> = <<Trajectory[b].match, u, side>>
      BY <3>1
    <3>2. m = Trajectory[b].match /\ t = u /\ team = side
      BY <3>0
    <3> QED BY <3>2, <1>1
  <2> QED BY <2>1, <1>5 DEF m
<1>8. ASSUME NEW t \in Minutes(a), NEW team \in TeamNames
      PROVE  decisions[<<m, t, team>>] = DecisionRow(SnapshotsByTime(a)[t], team)
  <2> DEFINE key == <<m, t, team>>
  <2>1. key \in DecisionKeys(artifacts) /\ key[1] = m /\ key[2] = t /\ key[3] = team
    BY <1>7
  <2> HIDE DEF key
  <2>2. decisions[key] = DecisionRow(SnapshotsByTime(a)[t], team)
    BY <2>1, <1>4, <1>2
  <2> QED BY <2>2 DEF key
<1> QED BY <1>2, <1>3, <1>7, <1>8 DEF RowsOfMinutes, decisions, m

AheadOf(artifacts, a) ==
  LET m == Trajectory[a].match
      outcomes == Outcomes(artifacts)
  IN  \A t : LET key == <<m, t, "RADIANT", RequiredHorizon>>
             IN  /\ key \in DOMAIN outcomes <=> t \in Minutes(a) /\ t + RequiredHorizon \in Minutes(a)
                 /\ key \in DOMAIN outcomes =>
                      outcomes[key].change =
                        DecisionRow(SnapshotsByTime(a)[t + RequiredHorizon], "RADIANT").diff
                          - DecisionRow(SnapshotsByTime(a)[t], "RADIANT").diff

LEMMA OutcomeFacts ==
  ASSUME NEW artifacts \in SUBSET Artifacts, NEW known, Genuine(artifacts, known), NEW a \in artifacts
  PROVE  AheadOf(artifacts, a)
<1> DEFINE m == Trajectory[a].match
           decisions == Decisions(artifacts)
           outcomes == Outcomes(artifacts)
           Ahead(key) == <<key[1], key[2] + key[4], key[3]>>
<1>1. Source(artifacts, m) = a /\ RowsOfMinutes(artifacts, a)
  BY DecisionFacts
<1>2. DOMAIN outcomes = {k \in OutcomeKeys(artifacts) : Ahead(k) \in DOMAIN decisions}
  BY DEF Outcomes
<1>3. \A key \in DOMAIN outcomes :
        outcomes[key] = OutcomeRow(decisions[<<key[1], key[2], key[3]>>],
                          SnapshotsByTime(Source(artifacts, key[1]))[key[2] + key[4]],
                          Source(artifacts, key[1]), key[3])
  BY DEF Outcomes
<1>4. \A key \in OutcomeKeys(artifacts) :
        \E b \in artifacts : \E t \in Minutes(b), team \in TeamNames, h \in Horizons :
          key = <<Trajectory[b].match, t, team, h>>
  BY DEF OutcomeKeys, Minutes
<1>5. \A t \in Minutes(a) : <<m, t, "RADIANT", RequiredHorizon>> \in OutcomeKeys(artifacts)
  <2>1. "RADIANT" \in TeamNames /\ RequiredHorizon \in Horizons
    BY DEF TeamNames, RequiredHorizon, Horizons
  <2> QED BY <2>1 DEF OutcomeKeys, Minutes
<1>6. /\ \A t, team : <<m, t, team>> \in DOMAIN decisions <=> t \in Minutes(a) /\ team \in TeamNames
      /\ \A t \in Minutes(a), team \in TeamNames :
           decisions[<<m, t, team>>] = DecisionRow(SnapshotsByTime(a)[t], team)
  BY <1>1 DEF RowsOfMinutes
<1>7. \A b \in artifacts : Trajectory[b].match = m => b = a
  BY DEF Genuine, FileOf
<1>8. "RADIANT" \in TeamNames
  BY DEF TeamNames
<1> HIDE DEF m, decisions, outcomes
<1>9. ASSUME NEW t
      PROVE  LET key == <<m, t, "RADIANT", RequiredHorizon>>
             IN  /\ key \in DOMAIN outcomes <=> t \in Minutes(a) /\ t + RequiredHorizon \in Minutes(a)
                 /\ key \in DOMAIN outcomes =>
                      outcomes[key].change =
                        DecisionRow(SnapshotsByTime(a)[t + RequiredHorizon], "RADIANT").diff
                          - DecisionRow(SnapshotsByTime(a)[t], "RADIANT").diff
  <2> DEFINE key == <<m, t, "RADIANT", RequiredHorizon>>
  <2>1. key[1] = m /\ key[2] = t /\ key[3] = "RADIANT" /\ key[4] = RequiredHorizon
    OBVIOUS
  <2>2. Ahead(key) = <<m, t + RequiredHorizon, "RADIANT">>
    BY <2>1
  <2>3. key \in OutcomeKeys(artifacts) <=> t \in Minutes(a)
    <3>1. ASSUME key \in OutcomeKeys(artifacts) PROVE t \in Minutes(a)
      <4>1. PICK b \in artifacts : \E u \in Minutes(b), side \in TeamNames, h \in Horizons :
              key = <<Trajectory[b].match, u, side, h>>
        BY <1>4, <3>1
      <4>0. PICK u \in Minutes(b), side \in TeamNames, h \in Horizons :
              key = <<Trajectory[b].match, u, side, h>>
        BY <4>1
      <4>2. m = Trajectory[b].match /\ t = u
        BY <4>0, <2>1
      <4> QED BY <4>2, <1>7
    <3> QED BY <3>1, <1>5
  <2> HIDE DEF key
  <2>4. key \in DOMAIN outcomes <=> t \in Minutes(a) /\ t + RequiredHorizon \in Minutes(a)
    BY <1>2, <1>6, <1>8, <2>2, <2>3
  <2>5. ASSUME key \in DOMAIN outcomes
        PROVE  outcomes[key].change =
                 DecisionRow(SnapshotsByTime(a)[t + RequiredHorizon], "RADIANT").diff
                   - DecisionRow(SnapshotsByTime(a)[t], "RADIANT").diff
    <3>1. outcomes[key] = OutcomeRow(decisions[<<m, t, "RADIANT">>],
                            SnapshotsByTime(a)[t + RequiredHorizon], a, "RADIANT")
      BY <1>1, <1>3, <2>1, <2>5 DEF m
    <3>2. decisions[<<m, t, "RADIANT">>] = DecisionRow(SnapshotsByTime(a)[t], "RADIANT")
      BY <1>6, <1>8, <2>4, <2>5
    <3> QED BY <3>1, <3>2 DEF OutcomeRow
  <2> QED BY <2>4, <2>5 DEF key
<1> QED BY <1>9 DEF AheadOf, m, outcomes

(* Whether there is a row for a minute, and what it says.                  *)
Complete(a, t) ==
  /\ t \in Minutes(a)
  /\ \A lag \in RequiredLags : t - lag \in Minutes(a)
  /\ t + RequiredHorizon \in Minutes(a)

FeaturesAt(a, t) ==
  [diff |-> NormalAt(a, t).diff, total |-> NormalAt(a, t).total,
   momentum |-> [lag \in RequiredLags |-> NormalAt(a, t).diff - NormalAt(a, t - lag).diff]]

RowsComplete(artifacts, a) ==
  LET rows == TrainingRows(Decisions(artifacts), Outcomes(artifacts))
  IN  \A t : LET key == <<Trajectory[a].match, t>>
             IN  /\ key \in DOMAIN rows <=> Complete(a, t)
                 /\ key \in DOMAIN rows =>
                      /\ rows[key].features = FeaturesAt(a, t)
                      /\ rows[key].target = NormalAt(a, t + RequiredHorizon).diff - NormalAt(a, t).diff

LEMMA RowFacts ==
  ASSUME NEW artifacts \in SUBSET Artifacts, NEW known, Genuine(artifacts, known), NEW a \in artifacts
  PROVE  RowsComplete(artifacts, a)
<1> DEFINE m == Trajectory[a].match
           decisions == Decisions(artifacts)
           outcomes == Outcomes(artifacts)
           rows == TrainingRows(decisions, outcomes)
<1>1. /\ \A t, team : <<m, t, team>> \in DOMAIN decisions <=> t \in Minutes(a) /\ team \in TeamNames
      /\ \A t \in Minutes(a), team \in TeamNames :
           decisions[<<m, t, team>>] = DecisionRow(SnapshotsByTime(a)[t], team)
  BY DecisionFacts DEF RowsOfMinutes
<1>2. \A t : LET key == <<m, t, "RADIANT", RequiredHorizon>>
             IN  /\ key \in DOMAIN outcomes <=> t \in Minutes(a) /\ t + RequiredHorizon \in Minutes(a)
                 /\ key \in DOMAIN outcomes =>
                      outcomes[key].change =
                        DecisionRow(SnapshotsByTime(a)[t + RequiredHorizon], "RADIANT").diff
                          - DecisionRow(SnapshotsByTime(a)[t], "RADIANT").diff
  BY OutcomeFacts DEF AheadOf
<1>3. "RADIANT" \in TeamNames
  BY DEF TeamNames
<1>4. DOMAIN rows = TrainingKeys(decisions, outcomes)
  BY DEF TrainingRows
<1>5. \A key \in TrainingKeys(decisions, outcomes) :
        /\ rows[key].features =
             [diff |-> decisions[<<key[1], key[2], "RADIANT">>].diff,
              total |-> decisions[<<key[1], key[2], "RADIANT">>].own
                          + decisions[<<key[1], key[2], "RADIANT">>].opponent,
              momentum |-> [lag \in RequiredLags |->
                              decisions[<<key[1], key[2], "RADIANT">>].diff
                                - decisions[<<key[1], key[2] - lag, "RADIANT">>].diff]]
        /\ rows[key].target = outcomes[<<key[1], key[2], "RADIANT", RequiredHorizon>>].change
  BY DEF TrainingRows
<1>6. DOMAIN decisions = DecisionKeys(artifacts)
  BY DEF Decisions
<1>7. \A key \in DecisionKeys(artifacts) :
        \E b \in artifacts : \E t \in Minutes(b), team \in TeamNames : key = <<Trajectory[b].match, t, team>>
  BY DEF DecisionKeys, Minutes
<1> HIDE DEF m, decisions, outcomes, rows
<1>8. \A t \in Minutes(a) :
        /\ DecisionRow(SnapshotsByTime(a)[t], "RADIANT").diff = NormalAt(a, t).diff
        /\ DecisionRow(SnapshotsByTime(a)[t], "RADIANT").own
             + DecisionRow(SnapshotsByTime(a)[t], "RADIANT").opponent = NormalAt(a, t).total
  BY DEF DecisionRow, NormalAt, Opponent
<1>9. ASSUME NEW t
      PROVE  <<m, t>> \in TrainingKeys(decisions, outcomes) <=> Complete(a, t)
  <2>1. ASSUME Complete(a, t) PROVE <<m, t>> \in TrainingKeys(decisions, outcomes)
    <3> DEFINE k == <<m, t, "RADIANT">>
    <3>1. k \in DOMAIN decisions /\ k[1] = m /\ k[2] = t /\ k[3] = "RADIANT"
      BY <1>1, <1>3, <2>1 DEF Complete
    <3>2. \A lag \in RequiredLags : <<m, t - lag, "RADIANT">> \in DOMAIN decisions
      BY <1>1, <1>3, <2>1 DEF Complete
    <3>3. /\ <<m, t + RequiredHorizon, "RADIANT">> \in DOMAIN decisions
          /\ <<m, t, "RADIANT", RequiredHorizon>> \in DOMAIN outcomes
      BY <1>1, <1>2, <1>3, <2>1 DEF Complete
    <3> HIDE DEF k
    <3> QED BY <3>1, <3>2, <3>3 DEF TrainingKeys
  <2>2. ASSUME <<m, t>> \in TrainingKeys(decisions, outcomes) PROVE Complete(a, t)
    <3>1. PICK k \in DOMAIN decisions :
            /\ <<m, t>> = <<k[1], k[2]>>
            /\ k[3] = "RADIANT"
            /\ \A lag \in RequiredLags : <<k[1], k[2] - lag, "RADIANT">> \in DOMAIN decisions
            /\ <<k[1], k[2] + RequiredHorizon, "RADIANT">> \in DOMAIN decisions
            /\ <<k[1], k[2], "RADIANT", RequiredHorizon>> \in DOMAIN outcomes
      BY <2>2 DEF TrainingKeys
    <3>2. k[1] = m /\ k[2] = t
      BY <3>1
    <3> QED BY <1>1, <1>2, <3>1, <3>2 DEF Complete
  <2> QED BY <2>1, <2>2
<1>10. ASSUME NEW t, Complete(a, t)
       PROVE  /\ rows[<<m, t>>].features = FeaturesAt(a, t)
              /\ rows[<<m, t>>].target = NormalAt(a, t + RequiredHorizon).diff - NormalAt(a, t).diff
  <2> DEFINE key == <<m, t>>
  <2>1. key \in TrainingKeys(decisions, outcomes) /\ key[1] = m /\ key[2] = t
    BY <1>9, <1>10
  <2> HIDE DEF key
  <2>2. decisions[<<m, t, "RADIANT">>] = DecisionRow(SnapshotsByTime(a)[t], "RADIANT")
    BY <1>1, <1>3, <1>10 DEF Complete
  <2>3. \A lag \in RequiredLags :
          decisions[<<m, t - lag, "RADIANT">>] = DecisionRow(SnapshotsByTime(a)[t - lag], "RADIANT")
    BY <1>1, <1>3, <1>10 DEF Complete
  <2>4. rows[key].features = FeaturesAt(a, t)
    <3>1. \A lag \in RequiredLags :
            decisions[<<m, t, "RADIANT">>].diff - decisions[<<m, t - lag, "RADIANT">>].diff
              = NormalAt(a, t).diff - NormalAt(a, t - lag).diff
      BY <1>8, <1>10, <2>2, <2>3 DEF Complete
    <3>2. /\ decisions[<<m, t, "RADIANT">>].diff = NormalAt(a, t).diff
          /\ decisions[<<m, t, "RADIANT">>].own + decisions[<<m, t, "RADIANT">>].opponent
               = NormalAt(a, t).total
      BY <1>8, <1>10, <2>2 DEF Complete
    <3>3. rows[key].features =
             [diff |-> decisions[<<m, t, "RADIANT">>].diff,
              total |-> decisions[<<m, t, "RADIANT">>].own
                          + decisions[<<m, t, "RADIANT">>].opponent,
              momentum |-> [lag \in RequiredLags |->
                              decisions[<<m, t, "RADIANT">>].diff
                                - decisions[<<m, t - lag, "RADIANT">>].diff]]
      BY <1>5, <2>1
    <3> QED BY <3>1, <3>2, <3>3 DEF FeaturesAt
  <2>5. rows[key].target = NormalAt(a, t + RequiredHorizon).diff - NormalAt(a, t).diff
    <3>1. rows[key].target = outcomes[<<m, t, "RADIANT", RequiredHorizon>>].change
      BY <1>5, <2>1
    <3> QED BY <3>1, <1>2, <1>8, <1>10 DEF Complete
  <2> QED BY <2>4, <2>5 DEF key
<1> QED BY <1>4, <1>9, <1>10 DEF RowsComplete, rows, m, decisions, outcomes

(* What the live path makes of the snapshots up to a minute.               *)
SeenAt(a, t) == {x \in NormalizedSnapshots(a) : x.time <= t}

LiveAt(a, t) ==
  /\ FeatureMapping(SeenAt(a, t)) # Nothing <=> \A lag \in RequiredLags : t - lag \in Minutes(a)
  /\ FeatureMapping(SeenAt(a, t)) # Nothing => FeatureMapping(SeenAt(a, t)) = FeaturesAt(a, t)

LEMMA SnapshotsAt ==
  ASSUME NEW a \in Artifacts, NEW u
  PROVE  At(NormalizedSnapshots(a), u) = IF u \in Minutes(a) THEN {NormalAt(a, u)} ELSE {}
<1>1. NormalizedSnapshots(a) = {NormalAt(a, t) : t \in Minutes(a)}
  BY SnapshotFacts DEF MinutesOf
<1>2. \A t : NormalAt(a, t).time = t
  BY DEF NormalAt
<1> QED BY <1>1, <1>2 DEF At

LEMMA LiveFacts ==
  ASSUME NEW a \in Artifacts, NEW t \in Minutes(a)
  PROVE  LiveAt(a, t)
<1> DEFINE seen == SeenAt(a, t)
<1>1. /\ \A u \in Minutes(a) : u \in Int
      /\ \A u \in Minutes(a), team \in TeamNames : SnapshotsByTime(a)[u].teams[team] \in Int
      /\ NormalizedSnapshots(a) = {NormalAt(a, u) : u \in Minutes(a)}
  BY SnapshotFacts DEF MinutesOf
<1>2. \A u : NormalAt(a, u).time = u
  BY DEF NormalAt
<1>3. NormalAt(a, t) \in seen /\ \A x \in seen : x.time <= t /\ \E u \in Minutes(a) : x = NormalAt(a, u)
  BY <1>1, <1>2 DEF SeenAt
<1>4. Latest(seen) = NormalAt(a, t)
  <2>1. \A x \in seen : x.time <= NormalAt(a, t).time
    BY <1>2, <1>3
  <2>2. ASSUME NEW s \in seen, \A x \in seen : x.time <= s.time PROVE s = NormalAt(a, t)
    <3>1. PICK u \in Minutes(a) : s = NormalAt(a, u)
      BY <1>3
    <3>2. u <= t /\ t <= u
      BY <1>2, <1>3, <2>2, <3>1
    <3>3. u = t
      BY <1>1, <3>2
    <3> QED BY <3>1, <3>3
  <2> HIDE DEF seen
  <2> QED BY <1>3, <2>1, <2>2 DEF Latest
<1>5. ASSUME NEW lag \in RequiredLags
      PROVE  At(seen, t - lag) = IF t - lag \in Minutes(a) THEN {NormalAt(a, t - lag)} ELSE {}
  <2>1. t \in Int /\ t - lag <= t
    BY <1>1 DEF RequiredLags
  <2>2. At(seen, t - lag) = At(NormalizedSnapshots(a), t - lag)
    BY <2>1 DEF At, SeenAt
  <2> QED BY <2>2, SnapshotsAt
<1> HIDE DEF seen
<1>6. MissingLags(seen) = {lag \in RequiredLags : t - lag \notin Minutes(a)}
  <2>1. \A lag \in RequiredLags : At(seen, t - lag) = {} <=> t - lag \notin Minutes(a)
    BY <1>5
  <2> QED BY <1>2, <1>4, <2>1 DEF MissingLags
<1>7. CASE \A lag \in RequiredLags : t - lag \in Minutes(a)
  <2>1. MissingLags(seen) = {}
    BY <1>6, <1>7
  <2>2. ASSUME NEW lag \in RequiredLags
        PROVE  (CHOOSE s \in At(seen, t - lag) : TRUE) = NormalAt(a, t - lag)
    <3>1. At(seen, t - lag) = {NormalAt(a, t - lag)}
      BY <1>5, <1>7
    <3>2. \A x : (CHOOSE s \in {x} : TRUE) = x
      OBVIOUS
    <3> QED BY <3>1, <3>2
  <2>3. FeatureMapping(seen) =
          [diff |-> NormalAt(a, t).diff, total |-> NormalAt(a, t).total,
           momentum |-> [lag \in RequiredLags |->
             NormalAt(a, t).diff - (CHOOSE s \in At(seen, t - lag) : TRUE).diff]]
    BY <1>2, <1>4, <2>1 DEF FeatureMapping
  <2>4. FeatureMapping(seen) = FeaturesAt(a, t)
    BY <2>2, <2>3 DEF FeaturesAt
  <2>5. \A u \in Minutes(a) : NormalAt(a, u).diff \in Int /\ NormalAt(a, u).total \in Int
    BY <1>1 DEF NormalAt, TeamNames
  <2>6. FeaturesAt(a, t) \in [diff : Int, total : Int, momentum : [RequiredLags -> Int]]
    BY <1>7, <2>5 DEF FeaturesAt
  <2>7. FeatureMapping(seen) # Nothing
    BY <2>4, <2>6, NothingIsNoFeatures
  <2> QED BY <1>7, <2>4, <2>7 DEF LiveAt, seen
<1>8. CASE \E lag \in RequiredLags : t - lag \notin Minutes(a)
  <2>1. MissingLags(seen) # {}
    BY <1>6, <1>8
  <2>2. FeatureMapping(seen) = Nothing
    BY <2>1 DEF FeatureMapping
  <2> QED BY <1>8, <2>2 DEF LiveAt, seen
<1> QED BY <1>7, <1>8

(* What a training set has to say of a trajectory it was made of.          *)
ServedRows(rows, a) ==
  LET all == NormalizedSnapshots(a)
      Seen(s) == {x \in all : x.time <= s.time}
  IN  \A s \in all :
        LET key == <<Trajectory[a].match, s.time>>
            later == At(all, s.time + RequiredHorizon)
        IN  /\ (key \in DOMAIN rows) <=> (FeatureMapping(Seen(s)) # Nothing /\ later # {})
            /\ key \in DOMAIN rows =>
                 /\ rows[key].features = FeatureMapping(Seen(s))
                 /\ \A x \in later : rows[key].target = x.diff - s.diff

LEMMA RowsAreServed ==
  ASSUME NEW artifacts \in SUBSET Artifacts, NEW known, Genuine(artifacts, known), NEW a \in artifacts
  PROVE  ServedRows(TrainingRows(Decisions(artifacts), Outcomes(artifacts)), a)
<1> DEFINE rows == TrainingRows(Decisions(artifacts), Outcomes(artifacts))
           all == NormalizedSnapshots(a)
<1>1. \A t : LET key == <<Trajectory[a].match, t>>
             IN  /\ key \in DOMAIN rows <=> Complete(a, t)
                 /\ key \in DOMAIN rows =>
                      /\ rows[key].features = FeaturesAt(a, t)
                      /\ rows[key].target = NormalAt(a, t + RequiredHorizon).diff - NormalAt(a, t).diff
  BY RowFacts DEF RowsComplete
<1>2. all = {NormalAt(a, u) : u \in Minutes(a)}
  BY SnapshotFacts DEF MinutesOf
<1>3. \A u : At(all, u) = IF u \in Minutes(a) THEN {NormalAt(a, u)} ELSE {}
  BY SnapshotsAt
<1>4. \A u \in Minutes(a) : LiveAt(a, u)
  BY LiveFacts
<1>5. \A u : SeenAt(a, u) = {x \in all : x.time <= u}
  BY DEF SeenAt
<1> HIDE DEF rows, all
<1>6. ASSUME NEW s \in all
      PROVE  LET key == <<Trajectory[a].match, s.time>>
                 later == At(all, s.time + RequiredHorizon)
                 seen == {x \in all : x.time <= s.time}
             IN  /\ (key \in DOMAIN rows) <=> (FeatureMapping(seen) # Nothing /\ later # {})
                 /\ key \in DOMAIN rows =>
                      /\ rows[key].features = FeatureMapping(seen)
                      /\ \A x \in later : rows[key].target = x.diff - s.diff
  <2>1. PICK t \in Minutes(a) : s = NormalAt(a, t)
    BY <1>2
  <2>2. s.time = t
    BY <2>1 DEF NormalAt
  <2> DEFINE key == <<Trajectory[a].match, t>>
             later == At(all, t + RequiredHorizon)
             seen == {x \in all : x.time <= t}
  <2>3. seen = SeenAt(a, t) /\ LiveAt(a, t)
    BY <1>4, <1>5
  <2>4. /\ key \in DOMAIN rows <=> Complete(a, t)
        /\ key \in DOMAIN rows =>
             /\ rows[key].features = FeaturesAt(a, t)
             /\ rows[key].target = NormalAt(a, t + RequiredHorizon).diff - NormalAt(a, t).diff
    BY <1>1
  <2>5. later = IF t + RequiredHorizon \in Minutes(a) THEN {NormalAt(a, t + RequiredHorizon)} ELSE {}
    BY <1>3
  <2> HIDE DEF key, later, seen
  <2>6. key \in DOMAIN rows <=> (FeatureMapping(seen) # Nothing /\ later # {})
    BY <2>3, <2>4, <2>5 DEF LiveAt, Complete
  <2>7. ASSUME key \in DOMAIN rows
        PROVE  /\ rows[key].features = FeatureMapping(seen)
               /\ \A x \in later : rows[key].target = x.diff - s.diff
    <3>1. FeatureMapping(seen) = FeaturesAt(a, t)
      BY <2>3, <2>6, <2>7 DEF LiveAt
    <3>2. \A x \in later : x = NormalAt(a, t + RequiredHorizon)
      BY <2>5
    <3> QED BY <2>1, <2>4, <2>7, <3>1, <3>2
  <2> QED BY <2>2, <2>6, <2>7 DEF key, later, seen
<1> QED BY <1>6 DEF ServedRows, all, rows

(* A training set about to be published has, for every minute at which the *)
(* live path is ready and the future is known, the row with the features   *)
(* the live path would compute then, and no other row.                     *)
THEOREM RowsAreAsServed == ReplaySpec => []TrainedAsServed
<1>1. ReplayInv => TrainedAsServed
  <2> SUFFICES ASSUME ReplayInv, NEW w \in Workers,
                      publishing[w].at = "prepare", publishing[w].dir = "training"
               PROVE  LET file == publishing[w].new.training
                          rows == Rows(file)
                      IN  /\ RowMatches(rows) \subseteq MatchIds(file.decisions)
                          /\ \A a \in file.decisions : ServedRows(rows, a)
    BY DEF TrainedAsServed, ServedRows
  <2> DEFINE new == publishing[w].new
  <2>1. Whole("training", new)
    <3>1. publishing[w] # NoTransaction
      BY DEF NoTransaction
    <3>2. TransactionSound(publishing[w], spoiled[publishing[w].dir])
      BY <3>1 DEF ReplayInv, OutputsInv, TransactionsInv
    <3> QED BY <3>2 DEF TransactionSound
  <2>2. Proper("training", new, Known)
    BY DEF ReplayInv, OutputsInv, ProperInv
  <2> HIDE DEF new
  <2>3. new.training = new.manifest.training /\ TrainingManifestOf(new.manifest, Known)
    <3>1. new # NoSet /\ DOMAIN new = Filenames["training"] /\ "manifest" \in Filenames["training"]
      BY <2>1 DEF Whole, Filenames
    <3> QED BY <2>2, <3>1 DEF Proper, OfOneBuild, ManifestOf
  <2>4. PICK artifacts \in SUBSET Artifacts :
          /\ Genuine(artifacts, Known)
          /\ new.manifest.training = [decisions |-> artifacts, outcomes |-> artifacts]
    BY <2>3 DEF TrainingManifestOf
  <2> DEFINE file == [decisions |-> artifacts, outcomes |-> artifacts]
             rows == Rows(file)
  <2>5. RowMatches(rows) \subseteq MatchIds(file.decisions)
    BY RowsAreOfMatches DEF MatchIds, FileOf
  <2>6. rows = TrainingRows(Decisions(artifacts), Outcomes(artifacts))
    BY DEF Rows
  <2>7. \A a \in artifacts : ServedRows(rows, a)
    BY <2>4, <2>6, RowsAreServed
  <2>8. publishing[w].new.training = file /\ file.decisions = artifacts
    BY <2>3, <2>4 DEF new
  <2> HIDE DEF rows, file
  <2> QED BY <2>5, <2>7, <2>8 DEF rows
<1> QED BY <1>1, ReplayInvariant, PTL
=============================================================================
