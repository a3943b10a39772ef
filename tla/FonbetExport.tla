---------------------------- MODULE FonbetExport ----------------------------
(* The command export: the user saves a summary of the account now and      *)
(* then; a run goes through its coupons one by one, keeps every detail it   *)
(* could fetch as a file, and writes six tables about all coupons at the    *)
(* end, each as JSON and as CSV.  A run may be cut off anywhere; the next   *)
(* one goes on with the files it finds.  One export runs at a time: every   *)
(* file has one temporary name, and nothing locks the directory.            *)
(* Account[v] and Server[v] are the summary and the details the provider    *)
(* would give at version v.                                                 *)
EXTENDS FonbetHistory

CONSTANTS Account,      \* version -> sequence of coupon summaries
          Server,       \* version -> coupon id -> its detail
          Offers,       \* values of --max-fetches the user gives
          MaxRuns,      \* bound: runs of the command
          NoFile, Broken, \* a raw file that is missing, or cannot be read
          Unreadable    \* ids whose raw file was damaged in the past

ASSUME BrokenIsThere == Broken # NoFile

(* A coupon that was listed once has a detail for ever.                     *)
ASSUME AccountIsServed ==
    /\ Len(Account) \in Nat \ {0}
    /\ \A v \in 1..Len(Account) : \A i \in 1..Len(Account[v]), u \in v..Len(Account) :
         Server[u][Account[v][i].id] \notin {NoFile, Broken}

(* Ids compare as their texts do, times are counted in milliseconds, and    *)
(* the legs of a detail are a list of records.                              *)
IsTime(at) == at = None \/ at \in [sec : Int, frac : 0..999]
IsLegs(legs) ==
    /\ Len(legs) \in Nat /\ DOMAIN legs = 1..Len(legs)
    /\ \A i \in DOMAIN legs :
         DOMAIN legs[i] = {"event", "selection", "factor", "score", "result"}
ASSUME AccountIsTyped ==
    \A v \in 1..Len(Account) :
        /\ DOMAIN Server[v] = DOMAIN Server[1]
        /\ \A id \in DOMAIN Server[v] :
             Server[v][id] \notin {NoFile, Broken, NoDetail} => IsLegs(Server[v][id].legs)
        /\ \A i \in 1..Len(Account[v]) :
             LET s == Account[v][i]
             IN  s.id \in Int /\ s.id \in DOMAIN Server[1] /\ IsTime(s.at)

VARIABLES now,          \* version of the account
          summary,      \* version saved as summary.json
          raw,          \* coupon id -> stored detail, NoFile or Broken
          run,          \* the running export
          files,        \* file -> what is published: its rows and, known to the
                        \* model only, the number of the run that wrote it
          runs          \* runs started so far

vars == <<now, summary, raw, run, files, runs>>
Ids == DOMAIN raw
Formats == {"json", "csv"}
Files == << <<"coupons", "json">>, <<"coupons", "csv">>, <<"legs", "json">>, <<"legs", "csv">>,
            <<"sequences", "json">>, <<"sequences", "csv">>,
            <<"decisions", "json">>, <<"decisions", "csv">>,
            <<"outcomes", "json">>, <<"outcomes", "csv">>, <<"audit", "json">>, <<"audit", "csv">> >>
Idle == [phase |-> "idle", of |-> 1, next |-> 1, limit |-> 0, attempts |-> 0, temp |-> NoDetail,
         coupons |-> {}, failures |-> {}, written |-> 0]
NotYet == [of |-> 0, rows |-> << >>]

Init ==
    /\ now = 1 /\ summary = 1 /\ run = Idle /\ runs = 0
    /\ raw = [id \in DOMAIN Server[1] |-> IF id \in Unreadable THEN Broken ELSE NoFile]
    /\ files = [f \in Range(Files) |-> NotYet]

-----------------------------------------------------------------------------
(* The account and its user. *)
AccountMoves ==
    /\ now < Len(Account) /\ now' = now + 1
    /\ UNCHANGED <<summary, raw, run, files, runs>>
SaveSummary ==
    /\ summary < now /\ summary' = now
    /\ UNCHANGED <<now, raw, run, files, runs>>
DeleteUnreadable(id) ==
    /\ raw[id] = Broken /\ raw' = [raw EXCEPT ![id] = NoFile]
    /\ UNCHANGED <<now, summary, run, files, runs>>

(* export_personal_history up to the loop: a summary that lists a coupon    *)
(* twice is refused, and without credentials nothing may be missing, unless *)
(* no request is allowed at all.                                            *)
ListedOnce(coupons) == IsInjective([i \in DOMAIN coupons |-> coupons[i].id])
Stored(coupons) == \A i \in DOMAIN coupons : raw[coupons[i].id] # NoFile
Start(limit, client) ==
    /\ run.phase = "idle" /\ runs < MaxRuns /\ ListedOnce(Account[summary])
    /\ client \/ limit = 0 \/ Stored(Account[summary])
    /\ run' = [Idle EXCEPT !.phase = "coupon", !.of = summary, !.limit = limit]
    /\ runs' = runs + 1
    /\ UNCHANGED <<now, summary, raw, files>>

-----------------------------------------------------------------------------
(* The loop.  Whatever became of the detail, the coupon is normalised: it   *)
(* becomes a record, or a failure.                                          *)
Coupons == Account[run.of]
Current == Coupons[run.next]
AtCoupon == run.phase = "coupon" /\ run.next <= Len(Coupons)
Failure(stage) == {<<Current.id, stage>>}
Normalise(r, detail, status, failed) ==
    run' = [r EXCEPT
              !.phase = "coupon", !.next = @ + 1, !.temp = NoDetail,
              !.coupons = IF Normal(Current, detail)
                          THEN @ \cup {Coupon(Current, detail, status)} ELSE @,
              !.failures = @ \cup failed \cup
                           IF Normal(Current, detail) THEN {} ELSE Failure("normalize")]

Resume ==
    /\ AtCoupon /\ raw[Current.id] \notin {NoFile, Broken}
    /\ Normalise(run, raw[Current.id], "resumed", {})
    /\ UNCHANGED <<now, summary, raw, files, runs>>
ReadUnreadable ==
    /\ AtCoupon /\ raw[Current.id] = Broken
    /\ Normalise(run, NoDetail, "invalid_raw", Failure("read_raw"))
    /\ UNCHANGED <<now, summary, raw, files, runs>>
Defer ==
    /\ AtCoupon /\ raw[Current.id] = NoFile /\ run.attempts >= run.limit
    /\ Normalise(run, NoDetail, "deferred_by_limit", {})
    /\ UNCHANGED <<now, summary, raw, files, runs>>

(* fetch_coupon_detail, one request after the other. *)
MayFetch == AtCoupon /\ raw[Current.id] = NoFile /\ run.attempts < run.limit
Attempted == [run EXCEPT !.attempts = @ + 1]

Fetch ==
    /\ MayFetch
    /\ run' = [Attempted EXCEPT !.phase = "store", !.temp = Server[now][Current.id]]
    /\ UNCHANGED <<now, summary, raw, files, runs>>
FetchFails ==
    /\ MayFetch
    /\ Normalise(Attempted, NoDetail, "fetch_failed", Failure("fetch"))
    /\ UNCHANGED <<now, summary, raw, files, runs>>

(* _write_json_atomic: the temporary file takes the place of the raw file.  *)
(* Without it the detail is not used either.                                *)
Store ==
    /\ run.phase = "store"
    /\ raw' = [raw EXCEPT ![Current.id] = run.temp]
    /\ Normalise(run, run.temp, "fetched", {})
    /\ UNCHANGED <<now, summary, files, runs>>
StoreFails ==
    /\ run.phase = "store"
    /\ Normalise(run, NoDetail, "store_failed", Failure("store_raw"))
    /\ UNCHANGED <<now, summary, raw, files, runs>>

-----------------------------------------------------------------------------
(* The end of a run: everything is built and checked before anything is     *)
(* published; a check that fails ends the run with the files as they were.  *)
Checked == LegsMatch(run.coupons) /\ EntryKeysMatch(run.coupons) /\ PayoutsVerified(run.coupons)
LoopDone == run.phase = "coupon" /\ run.next > Len(Coupons)
Build ==
    /\ LoopDone /\ Checked
    /\ run' = [run EXCEPT !.phase = "write"]
    /\ UNCHANGED <<now, summary, raw, files, runs>>
CheckFails ==
    /\ LoopDone /\ ~Checked
    /\ run' = Idle
    /\ UNCHANGED <<now, summary, raw, files, runs>>

(* The rows of a file; the failures are listed in the JSON of the coupons.  *)
Content(file, coupons, failures) ==
    CASE file[1] = "coupons" ->
           [records |-> coupons, failures |-> IF file[2] = "json" THEN failures ELSE {}]
      [] file[1] = "legs" ->
           UNION {{<<c.id, i, c.legs[i]>> : i \in DOMAIN c.legs} : c \in coupons}
      [] file[1] = "sequences" -> Sequence(coupons)
      [] file[1] = "decisions" -> Decisions(coupons)
      [] file[1] = "outcomes" -> Outcomes(coupons)
      [] file[1] = "audit" -> Audit(coupons)
Due == Files[run.written + 1]
Put(file) == files' = [files EXCEPT ![file] = [of |-> runs,
                                               rows |-> Content(file, run.coupons, run.failures)]]
Written == run' = IF run.written + 1 = Len(Files) THEN Idle ELSE [run EXCEPT !.written = @ + 1]

(* Mutant: the file of sequences is only written when it has rows. *)
WriteFilledFile ==
    /\ run.phase = "write"
    /\ IF Due[1] = "sequences" /\ Sequence(run.coupons) = << >> THEN UNCHANGED files
                                                                ELSE Put(Due)
    /\ Written
    /\ UNCHANGED <<now, summary, raw, runs>>

(* One file after the other takes the place of the one there is: the JSON   *)
(* of a table, its CSV, and then those of the next table.                   *)
WriteFile ==
    /\ run.phase = "write" /\ Put(Due) /\ Written
    /\ UNCHANGED <<now, summary, raw, runs>>

(* The process ends, or a file cannot be written. *)
CutOff ==
    /\ run.phase # "idle" /\ run' = Idle
    /\ UNCHANGED <<now, summary, raw, files, runs>>

Next ==
    \/ AccountMoves \/ SaveSummary
    \/ \E id \in Ids : DeleteUnreadable(id)
    \/ \E limit \in Offers, client \in BOOLEAN : Start(limit, client)
    \/ Resume \/ ReadUnreadable \/ Defer
    \/ Fetch \/ FetchFails \/ Store \/ StoreFails
    \/ Build \/ CheckFails \/ WriteFile \/ CutOff

Spec == Init /\ [][Next]_vars

-----------------------------------------------------------------------------
(* What is known of a bet the moment it is placed: neither the bets placed  *)
(* later nor how any bet ended changes what a published row says about it.  *)
(* A model trained on these rows does not see the future.  Excepted is only *)
(* a bet on a full second with another one later in the same second, which  *)
(* is ListedAhead of it by the text of its time.                            *)
WithoutOutcome(c) ==
    [c EXCEPT !.state = None, !.won = None, !.profit = None,
              !.legs = [i \in DOMAIN @ |-> [@[i] EXCEPT !.result = None]]]
NotAfter(x, c) == c.at = None \/ (x.at # None /\ Between(x, c) >= 0)
ListedAhead(x, c) ==
    None \notin {x.at, c.at} /\ x.at.sec = c.at.sec /\ x.at.frac # 0 /\ c.at.frac = 0
RowsOf(table, id) == {table[i] : i \in {j \in DOMAIN table : table[j].of.id = id}}
DecisionsPointInTime ==
    \A f, g \in Formats :
        LET decisions == files[<<"decisions", f>>]
            coupons == files[<<"coupons", g>>]
            all == coupons.rows.records
        IN  decisions.of = coupons.of /\ coupons.of # 0 =>
              \A c \in all :
                 (\A x \in all : ~ListedAhead(x, c)) =>
                   RowsOf(decisions.rows, c.id)
                     = RowsOf(Decisions({WithoutOutcome(x) : x \in {y \in all : NotAfter(y, c)}}), c.id)

(* The audit says a bet that was sold would have paid what a bet on the     *)
(* same odds with the same stake did pay when it won.                       *)
HoldMatchesWins ==
    \A f, g \in Formats :
        LET audit == files[<<"audit", f>>]
            coupons == files[<<"coupons", g>>]
        IN  audit.of = coupons.of /\ coupons.of # 0 =>
              \A c, w \in coupons.rows.records, h \in audit.rows :
                 /\ h.id = c.id /\ h.status = "derived" /\ h.won
                 /\ w \in CashWins(coupons.rows.records)
                 /\ w.cash = c.cash /\ w.odds = c.odds
                 => h.return = w.won

(* Wherever the runs were cut off, between two tables or between the JSON   *)
(* and the CSV of one: no file is of an older run than a file behind it in  *)
(* the order of writing, so that a run whose last file is there has left    *)
(* all twelve, whatever earlier runs had left; and the decisions and the    *)
(* outcomes of one run, in either format, are about the same bets.          *)
TablesSealed ==
    /\ \A i, j \in DOMAIN Files : i < j => files[Files[i]].of >= files[Files[j]].of
    /\ \A f, g \in Formats :
         LET decisions == files[<<"decisions", f>>]
             outcomes == files[<<"outcomes", g>>]
         IN  decisions.of = outcomes.of =>
               [i \in DOMAIN decisions.rows |-> decisions.rows[i].of.id]
                 = [i \in DOMAIN outcomes.rows |-> outcomes.rows[i].id]

(* A run that is cut off leaves no file behind that the next run cannot     *)
(* read and would not fetch again.                                          *)
NoTornRaw == \A id \in Ids : raw[id] = Broken => id \in Unreadable

(* Both: what a run leaves behind is readable, and the files of an earlier  *)
(* run are those it did not reach (export_personal_history,                 *)
(* _write_json_atomic and the CSV writers).  Nothing in the files says      *)
(* which they are: only the export that is run again repairs them.          *)
FilesSealed == TablesSealed /\ NoTornRaw
=============================================================================
