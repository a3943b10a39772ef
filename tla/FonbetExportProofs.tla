------------------------- MODULE FonbetExportProofs --------------------------
(* What runs of the export leave behind is sealed, for every account, every *)
(* limit and any number of runs that are cut off between any two files: no  *)
(* raw file is torn, no file is of an older run than one written after it,  *)
(* and the files of one run are all made of the same coupons.  A published  *)
(* decision says of a bet what was known when it was placed, and the audit  *)
(* of sold bets calculates what such bets paid.                             *)
EXTENDS FonbetExport, DataLemmas

FileNames == Range(Files)
Fields == {"phase", "of", "next", "limit", "attempts", "temp", "coupons", "failures", "written"}

LEMMA FilesAreTwelve ==
    /\ Len(Files) = 12 /\ DOMAIN Files = 1..12
    /\ \A i \in 1..12 : Files[i] \in FileNames
    /\ \A f \in FileNames : \E i \in 1..12 : f = Files[i]
<1>1. Len(Files) = 12 /\ DOMAIN Files = 1..12
  BY DEF Files
<1> QED BY <1>1 DEF FileNames, Range

LEMMA FilesDiffer == \A i, j \in 1..12 : Files[i] = Files[j] => i = j
<1> TAKE i \in 1..12, j \in 1..12
<1>1. i \in {1, 2, 3, 4, 5, 6, 7, 8, 9, 10, 11, 12} /\ j \in {1, 2, 3, 4, 5, 6, 7, 8, 9, 10, 11, 12}
  OBVIOUS
<1>2. \A x \in {i, j} :
         /\ Files[x][2] = "json" <=> x \in {1, 3, 5, 7, 9, 11}
         /\ Files[x][1] = "coupons" <=> x \in {1, 2}
         /\ Files[x][1] = "legs" <=> x \in {3, 4}
         /\ Files[x][1] = "sequences" <=> x \in {5, 6}
         /\ Files[x][1] = "decisions" <=> x \in {7, 8}
         /\ Files[x][1] = "outcomes" <=> x \in {9, 10}
         /\ Files[x][1] = "audit" <=> x \in {11, 12}
  BY <1>1 DEF Files
<1> QED BY <1>1, <1>2

LEMMA NamesOfFiles ==
    \A f \in Formats : /\ <<"coupons", f>> \in FileNames /\ <<"decisions", f>> \in FileNames
                       /\ <<"outcomes", f>> \in FileNames /\ <<"audit", f>> \in FileNames
<1>1. /\ Files[1] = <<"coupons", "json">> /\ Files[2] = <<"coupons", "csv">>
      /\ Files[7] = <<"decisions", "json">> /\ Files[8] = <<"decisions", "csv">>
      /\ Files[9] = <<"outcomes", "json">> /\ Files[10] = <<"outcomes", "csv">>
      /\ Files[11] = <<"audit", "json">> /\ Files[12] = <<"audit", "csv">>
  BY DEF Files
<1>2. \A i \in {1, 2, 7, 8, 9, 10, 11, 12} : Files[i] \in FileNames
  BY FilesAreTwelve
<1> QED BY <1>1, <1>2 DEF Formats

-----------------------------------------------------------------------------
(* The run in progress: where it is in the account and in its tables.       *)
RunInv ==
    /\ DOMAIN run = Fields
    /\ run.phase \in {"idle", "coupon", "store", "write"}
    /\ now \in 1..Len(Account) /\ summary \in 1..now /\ run.of \in 1..now
    /\ run.next \in Nat \ {0}
    /\ run.written \in 0..11
    /\ run.phase # "write" => run.written = 0
    /\ runs \in Nat

(* A detail that is about to be stored can be read again.                   *)
RawInv ==
    /\ run.phase = "store" => run.temp # Broken
    /\ NoTornRaw

(* Files up to the last one written are of this run, the others are older.  *)
OrderInv ==
    /\ files = [f \in FileNames |-> files[f]]
    /\ \A f \in FileNames :
         /\ DOMAIN files[f] = {"of", "rows"} /\ files[f].of \in 0..runs
         /\ files[f].of = 0 => files[f].rows = << >>
    /\ \A i, j \in 1..12 : i < j => files[Files[i]].of >= files[Files[j]].of
    /\ run.phase \in {"coupon", "store"} => \A f \in FileNames : files[f].of < runs
    /\ run.phase = "write" =>
         \A i \in 1..12 : IF i <= run.written THEN files[Files[i]].of = runs
                                              ELSE files[Files[i]].of < runs

ExportInv == RunInv /\ RawInv /\ OrderInv

-----------------------------------------------------------------------------
LEMMA InitHolds == Init => ExportInv
<1> SUFFICES ASSUME Init PROVE ExportInv
  OBVIOUS
<1>1. RunInv
  BY AccountIsServed DEF Init, RunInv, Idle, Fields
<1>2. RawInv
  BY BrokenIsThere DEF Init, RawInv, Idle, NoTornRaw, Ids
<1>3. files = [f \in FileNames |-> NotYet] /\ runs = 0 /\ run.phase = "idle"
  BY DEF Init, Idle, FileNames
<1>4. OrderInv
  BY <1>3, FilesAreTwelve DEF OrderInv, NotYet
<1> QED BY <1>1, <1>2, <1>4 DEF ExportInv

(* What a coupon leaves of the run, whatever became of its detail.          *)
LEMMA NormaliseMoves ==
  ASSUME RunInv, NEW r \in {run, Attempted}, NEW detail, NEW status, NEW failed,
         Normalise(r, detail, status, failed)
  PROVE  /\ DOMAIN run' = Fields
         /\ run'.phase = "coupon" /\ run'.of = run.of /\ run'.next = run.next + 1
         /\ run'.written = run.written
<1>1. /\ DOMAIN r = Fields /\ r.of = run.of /\ r.next = run.next
      /\ r.written = run.written
  BY DEF Attempted, RunInv, Fields
<1> QED BY <1>1 DEF Normalise, Fields

(* While the files are left alone, only a run that starts to write them,    *)
(* and the number of a new run, could matter to their order.                *)
LEMMA FilesStay ==
  ASSUME OrderInv, UNCHANGED <<files, runs>>,
         \/ run'.phase = "idle"
         \/ run.phase \in {"coupon", "store"} /\ run'.phase \in {"coupon", "store"}
         \/ UNCHANGED run
  PROVE  OrderInv'
  BY DEF OrderInv

LEMMA AccountKeeps ==
  ASSUME ExportInv, AccountMoves \/ SaveSummary \/ \E id \in Ids : DeleteUnreadable(id)
  PROVE  ExportInv'
<1>1. UNCHANGED <<run, files, runs>>
  BY DEF AccountMoves, SaveSummary, DeleteUnreadable
<1>2. OrderInv'
  BY <1>1, FilesStay DEF ExportInv
<1>3. RunInv'
  BY <1>1, AccountIsServed DEF ExportInv, RunInv, AccountMoves, SaveSummary, DeleteUnreadable
<1>4. RawInv'
  BY <1>1 DEF ExportInv, RawInv, NoTornRaw, Ids, AccountMoves, SaveSummary, DeleteUnreadable
<1> QED BY <1>2, <1>3, <1>4 DEF ExportInv

LEMMA StartKeeps ==
  ASSUME ExportInv, NEW limit, NEW client, Start(limit, client)
  PROVE  ExportInv'
<1>1. /\ run' = [Idle EXCEPT !.phase = "coupon", !.of = summary, !.limit = limit]
      /\ runs' = runs + 1 /\ UNCHANGED <<now, summary, raw, files>>
  BY DEF Start
<1>2. /\ DOMAIN run' = Fields /\ run'.phase = "coupon" /\ run'.of = summary
      /\ run'.next = 1 /\ run'.written = 0
  BY <1>1 DEF Idle, Fields
<1>3. RunInv'
  BY <1>1, <1>2 DEF ExportInv, RunInv
<1>4. RawInv'
  BY <1>1, <1>2 DEF ExportInv, RawInv, NoTornRaw, Ids
<1>5. OrderInv'
  <2>1. runs \in Nat /\ \A f \in FileNames : files[f].of \in 0..runs
    BY DEF ExportInv, RunInv, OrderInv
  <2>2. \A f \in FileNames : files[f].of \in 0..(runs + 1) /\ files[f].of < runs + 1
    BY <2>1
  <2> QED BY <1>1, <1>2, <2>2 DEF ExportInv, OrderInv
<1> QED BY <1>3, <1>4, <1>5 DEF ExportInv

LEMMA CouponKeeps ==
  ASSUME ExportInv, Resume \/ ReadUnreadable \/ Defer \/ FetchFails \/ StoreFails
  PROVE  ExportInv'
<1>1. PICK r \in {run, Attempted} : \E detail, status, failed : Normalise(r, detail, status, failed)
  BY DEF Resume, ReadUnreadable, Defer, FetchFails, StoreFails
<1>2. /\ run.phase \in {"coupon", "store"}
      /\ UNCHANGED <<now, summary, raw, files, runs>>
  BY DEF Resume, ReadUnreadable, Defer, FetchFails, StoreFails, AtCoupon, MayFetch
<1>3. /\ DOMAIN run' = Fields
      /\ run'.phase = "coupon" /\ run'.of = run.of /\ run'.next = run.next + 1
      /\ run'.written = run.written
  BY <1>1, NormaliseMoves DEF ExportInv
<1>4. OrderInv'
  BY <1>2, <1>3, FilesStay DEF ExportInv
<1>5. RunInv'
  BY <1>2, <1>3 DEF ExportInv, RunInv
<1>6. RawInv'
  BY <1>2, <1>3 DEF ExportInv, RawInv, NoTornRaw, Ids
<1> QED BY <1>4, <1>5, <1>6 DEF ExportInv

LEMMA FetchKeeps ==
  ASSUME ExportInv, Fetch
  PROVE  ExportInv'
<1>1. /\ run.phase = "coupon" /\ run.next <= Len(Account[run.of])
      /\ UNCHANGED <<now, summary, raw, files, runs>>
      /\ run' = [Attempted EXCEPT !.phase = "store",
                                  !.temp = Server[now][Account[run.of][run.next].id]]
  BY DEF Fetch, MayFetch, AtCoupon, Coupons, Current
<1>2. /\ DOMAIN run' = Fields
      /\ run'.phase = "store" /\ run'.of = run.of /\ run'.next = run.next
      /\ run'.written = run.written
      /\ run'.temp = Server[now][Account[run.of][run.next].id]
  BY <1>1 DEF Attempted, ExportInv, RunInv, Fields
<1>3. OrderInv'
  BY <1>1, <1>2, FilesStay DEF ExportInv
<1>4. RunInv'
  BY <1>1, <1>2 DEF ExportInv, RunInv
<1>5. run'.temp # Broken
  <2>1. run.of \in 1..Len(Account) /\ now \in run.of..Len(Account)
    BY AccountIsServed DEF ExportInv, RunInv
  <2>2. run.next \in 1..Len(Account[run.of])
    BY <1>1 DEF ExportInv, RunInv
  <2> QED BY <1>2, <2>1, <2>2, AccountIsServed
<1>6. RawInv'
  BY <1>1, <1>5 DEF ExportInv, RawInv, NoTornRaw, Ids
<1> QED BY <1>3, <1>4, <1>6 DEF ExportInv

LEMMA StoreKeeps ==
  ASSUME ExportInv, Store
  PROVE  ExportInv'
<1>1. /\ run.phase = "store" /\ UNCHANGED <<now, summary, files, runs>>
      /\ raw' = [raw EXCEPT ![Current.id] = run.temp]
      /\ Normalise(run, run.temp, "fetched", {})
  BY DEF Store
<1>2. /\ DOMAIN run' = Fields
      /\ run'.phase = "coupon" /\ run'.of = run.of /\ run'.next = run.next + 1
      /\ run'.written = run.written
  BY <1>1, NormaliseMoves DEF ExportInv
<1>3. OrderInv'
  BY <1>1, <1>2, FilesStay DEF ExportInv
<1>4. RunInv'
  BY <1>1, <1>2 DEF ExportInv, RunInv
<1>5. NoTornRaw'
  <2>1. run.temp # Broken
    BY <1>1 DEF ExportInv, RawInv
  <2>2. DOMAIN raw' = DOMAIN raw
    BY <1>1
  <2>3. \A id \in DOMAIN raw : raw'[id] = raw[id] \/ raw'[id] = run.temp
    BY <1>1
  <2> QED BY <2>1, <2>2, <2>3 DEF ExportInv, RawInv, NoTornRaw, Ids
<1>6. RawInv'
  BY <1>2, <1>5 DEF RawInv
<1> QED BY <1>3, <1>4, <1>6 DEF ExportInv

LEMMA EndsKeep ==
  ASSUME ExportInv, CheckFails \/ CutOff
  PROVE  ExportInv'
<1>1. run' = Idle /\ UNCHANGED <<now, summary, raw, files, runs>>
  BY DEF CheckFails, CutOff
<1>2. /\ DOMAIN run' = Fields
      /\ run'.phase = "idle" /\ run'.of = 1 /\ run'.next = 1 /\ run'.written = 0
  BY <1>1 DEF Idle, Fields
<1>3. OrderInv'
  BY <1>1, <1>2, FilesStay DEF ExportInv
<1>4. RunInv'
  BY <1>1, <1>2 DEF ExportInv, RunInv
<1>5. RawInv'
  BY <1>1, <1>2 DEF ExportInv, RawInv, NoTornRaw, Ids
<1> QED BY <1>3, <1>4, <1>5 DEF ExportInv

LEMMA BuildKeeps ==
  ASSUME ExportInv, Build
  PROVE  ExportInv'
<1>1. /\ run.phase = "coupon" /\ run' = [run EXCEPT !.phase = "write"]
      /\ UNCHANGED <<now, summary, raw, files, runs>>
  BY DEF Build, LoopDone
<1>2. /\ DOMAIN run' = Fields
      /\ run'.phase = "write" /\ run'.of = run.of /\ run'.next = run.next
      /\ run'.written = 0
  BY <1>1 DEF ExportInv, RunInv, Fields
<1>3. RunInv'
  BY <1>1, <1>2 DEF ExportInv, RunInv
<1>4. RawInv'
  BY <1>1, <1>2 DEF ExportInv, RawInv, NoTornRaw, Ids
<1>5. \A f \in FileNames : files[f].of < runs
  BY <1>1 DEF ExportInv, OrderInv
<1>6. OrderInv'
  <2>1. \A i \in 1..12 : files[Files[i]].of < runs /\ ~(i <= 0)
    BY <1>5, FilesAreTwelve
  <2> QED BY <1>1, <1>2, <2>1 DEF ExportInv, OrderInv
<1> QED BY <1>3, <1>4, <1>6 DEF ExportInv

(* A step of writing replaces the next file and leaves the others.          *)
LEMMA WriteMoves ==
  ASSUME ExportInv, WriteFile
  PROVE  LET k == run.written + 1
         IN  /\ k \in 1..12 /\ run.phase = "write" /\ UNCHANGED <<now, summary, raw, runs>>
             /\ files' = [f \in FileNames |-> files'[f]]
             /\ \A i \in 1..12 : i # k => files'[Files[i]] = files[Files[i]]
             /\ files'[Files[k]] = [of |-> runs, rows |-> Content(Files[k], run.coupons, run.failures)]
             /\ \/ k = 12 /\ run' = Idle
                \/ /\ k \in 1..11 /\ DOMAIN run' = Fields
                   /\ run'.phase = "write" /\ run'.of = run.of /\ run'.next = run.next
                   /\ run'.written = k /\ run'.coupons = run.coupons
                   /\ run'.failures = run.failures
<1> DEFINE k == run.written + 1
           name == Files[k]
           new == [of |-> runs, rows |-> Content(name, run.coupons, run.failures)]
<1>1. k \in 1..12 /\ name \in FileNames
  BY FilesAreTwelve DEF ExportInv, RunInv
<1>2. /\ run.phase = "write" /\ UNCHANGED <<now, summary, raw, runs>>
      /\ files' = [files EXCEPT ![name] = new]
      /\ run' = IF k = 12 THEN Idle ELSE [run EXCEPT !.written = k]
  BY FilesAreTwelve DEF WriteFile, Due, Put, Written
<1>3. \/ k = 12 /\ run' = Idle
      \/ /\ k \in 1..11 /\ DOMAIN run' = Fields
         /\ run'.phase = "write" /\ run'.of = run.of /\ run'.next = run.next
         /\ run'.written = k /\ run'.coupons = run.coupons /\ run'.failures = run.failures
  BY <1>1, <1>2 DEF ExportInv, RunInv, Fields
<1> HIDE DEF new
<1>4. files' = [f \in FileNames |-> IF f = name THEN new ELSE files[f]]
  BY <1>1, <1>2 DEF ExportInv, OrderInv
<1>5. \A i \in 1..12 : i # k => files'[Files[i]] = files[Files[i]]
  BY <1>1, <1>4, FilesAreTwelve, FilesDiffer
<1>6. files'[name] = new
  BY <1>1, <1>4
<1>7. files' = [f \in FileNames |-> files'[f]]
  BY <1>4
<1> QED BY <1>1, <1>2, <1>3, <1>5, <1>6, <1>7 DEF new

LEMMA WriteKeeps ==
  ASSUME ExportInv, WriteFile
  PROVE  ExportInv'
<1> DEFINE k == run.written + 1
<1>1. /\ k \in 1..12 /\ run.phase = "write" /\ UNCHANGED <<now, summary, raw, runs>>
      /\ files' = [f \in FileNames |-> files'[f]]
      /\ \A i \in 1..12 : i # k => files'[Files[i]] = files[Files[i]]
      /\ \/ k = 12 /\ run' = Idle
         \/ /\ k \in 1..11 /\ DOMAIN run' = Fields
            /\ run'.phase = "write" /\ run'.of = run.of /\ run'.next = run.next
            /\ run'.written = k
  BY WriteMoves
<1>2. DOMAIN files'[Files[k]] = {"of", "rows"} /\ files'[Files[k]].of = runs
  BY WriteMoves
<1>3. RunInv'
  BY <1>1, AccountIsServed DEF ExportInv, RunInv, Idle, Fields
<1>4. RawInv'
  BY <1>1 DEF ExportInv, RawInv, NoTornRaw, Ids, Idle
<1>5. /\ runs \in Nat \ {0} /\ run.written \in 0..11 /\ k = run.written + 1
      /\ \A i \in 1..12 : IF i <= run.written THEN files[Files[i]].of = runs
                                               ELSE files[Files[i]].of < runs
  <2>1. /\ runs \in Nat /\ run.written \in 0..11
        /\ \A i \in 1..12 : IF i <= run.written THEN files[Files[i]].of = runs
                                                 ELSE files[Files[i]].of < runs
    BY <1>1 DEF ExportInv, OrderInv, RunInv
  <2>2. files[Files[12]].of \in 0..runs /\ files[Files[12]].of < runs
    <3>1. 12 \in 1..12 /\ ~(12 <= run.written)
      BY <2>1
    <3>2. Files[12] \in FileNames
      BY <3>1, FilesAreTwelve
    <3> QED BY <2>1, <3>1, <3>2 DEF ExportInv, OrderInv
  <2> QED BY <2>1, <2>2
<1> HIDE DEF k
<1>6. \A i \in 1..12 : files'[Files[i]].of = IF i <= k THEN runs ELSE files[Files[i]].of
  <2> TAKE i \in 1..12
  <2>1. CASE i = k
    BY <1>2, <2>1
  <2>2. CASE i # k
    BY <1>1, <1>5, <2>2
  <2> QED BY <2>1, <2>2
<1>7. \A i \in 1..12 : files[Files[i]].of \in 0..runs
  BY FilesAreTwelve DEF ExportInv, OrderInv
<1>8. ASSUME NEW f \in FileNames
      PROVE  /\ DOMAIN files'[f] = {"of", "rows"} /\ files'[f].of \in 0..runs
             /\ files'[f].of = 0 => files'[f].rows = << >>
  <2>1. PICK i \in 1..12 : f = Files[i]
    BY FilesAreTwelve
  <2>2. CASE i = k
    BY <1>2, <1>5, <2>1, <2>2
  <2>3. CASE i # k
    BY <1>1, <2>1, <2>3 DEF ExportInv, OrderInv
  <2> QED BY <2>2, <2>3
<1>9. \A i, j \in 1..12 : i < j => files'[Files[i]].of >= files'[Files[j]].of
  <2> SUFFICES ASSUME NEW i \in 1..12, NEW j \in 1..12, i < j
               PROVE  files'[Files[i]].of >= files'[Files[j]].of
    OBVIOUS
  <2>1. files[Files[i]].of >= files[Files[j]].of
    BY DEF ExportInv, OrderInv
  <2> QED BY <1>1, <1>5, <1>6, <1>7, <2>1
<1>10. ASSUME run'.phase = "write", NEW i \in 1..12
       PROVE  IF i <= run'.written THEN files'[Files[i]].of = runs ELSE files'[Files[i]].of < runs
  <2>1. run'.written = k
    BY <1>1, <1>10 DEF Idle
  <2> QED BY <1>1, <1>5, <1>6, <2>1
<1>11. run'.phase \in {"idle", "write"}
  BY <1>1 DEF Idle
<1>12. OrderInv'
  BY <1>1, <1>8, <1>9, <1>10, <1>11 DEF OrderInv
<1> QED BY <1>3, <1>4, <1>12 DEF ExportInv

LEMMA NextKeeps == ExportInv /\ [Next]_vars => ExportInv'
<1> SUFFICES ASSUME ExportInv, [Next]_vars PROVE ExportInv'
  OBVIOUS
<1>1. CASE UNCHANGED vars
  BY <1>1 DEF vars, ExportInv, RunInv, RawInv, OrderInv, NoTornRaw, Ids
<1>2. CASE Next
  BY <1>2, AccountKeeps, StartKeeps, CouponKeeps, FetchKeeps, StoreKeeps, EndsKeep,
     BuildKeeps, WriteKeeps DEF Next
<1> QED BY <1>1, <1>2

(* The inductive invariant of the command export.                           *)
THEOREM ExportInvariant == Spec => []ExportInv
  BY InitHolds, NextKeeps, PTL DEF Spec

(* Both tables list the same entries in the same order.                     *)
LEMMA SameBets ==
  ASSUME NEW coupons
  PROVE  [i \in DOMAIN Decisions(coupons) |-> Decisions(coupons)[i].of.id]
           = [i \in DOMAIN Outcomes(coupons) |-> Outcomes(coupons)[i].id]
<1> DEFINE e == Entries(coupons)
<1>1. DOMAIN Sequence(coupons) = DOMAIN e
      /\ \A i \in DOMAIN e : Sequence(coupons)[i].id = e[i].id
  BY DEF Sequence
<1>2. DOMAIN Decisions(coupons) = DOMAIN e
      /\ \A i \in DOMAIN e : Decisions(coupons)[i].of = Sequence(coupons)[i]
  BY DEF Decisions
<1>3. DOMAIN Outcomes(coupons) = DOMAIN e
      /\ \A i \in DOMAIN e : Outcomes(coupons)[i].id = e[i].id
  BY DEF Outcomes
<1> HIDE DEF e
<1> QED BY <1>1, <1>2, <1>3

-----------------------------------------------------------------------------
(* The order of bets. *)
BetKeys == {"id", "at", "state", "stake", "won", "cash", "profit", "odds", "express",
            "free", "legs", "status"}
IsRecord(c) ==
    /\ DOMAIN c = BetKeys /\ c = [k \in BetKeys |-> c[k]]
    /\ c.id \in Int /\ IsTime(c.at) /\ IsLegs(c.legs)
AreRecords(coupons) ==
    IsFiniteSet(coupons) /\ LegsMatch(coupons) /\ \A c \in coupons : IsRecord(c)

Order(bets) == {p \in bets \X bets : SortsBefore(p[1], p[2])}
Bets(coupons) == {c \in coupons : Single(c)}

LEMMA ListLength ==
  ASSUME NEW n \in Nat, NEW s, s = [i \in 1..n |-> s[i]]
  PROVE  Len(s) = n
<1>1. s \in Seq({s[i] : i \in 1..n})
  OBVIOUS
<1>2. DOMAIN s = 1..n /\ DOMAIN s = 1..Len(s) /\ Len(s) \in Nat
  BY <1>1
<1> QED BY <1>2

LEMMA Compared == \A a, b \in Int : a < b \/ b < a \/ a = b
OBVIOUS

(* The text of a time orders all times.                                     *)
LEMMA TimesInOrder ==
  ASSUME NEW s \in [sec : Int, frac : 0..999], NEW t \in [sec : Int, frac : 0..999],
         NEW u \in [sec : Int, frac : 0..999]
  PROVE  /\ ~TextBefore(s, s)
         /\ TextBefore(s, t) /\ TextBefore(t, u) => TextBefore(s, u)
         /\ s = t \/ TextBefore(s, t) \/ TextBefore(t, s)
<1>1. /\ s.sec \in Int /\ t.sec \in Int /\ u.sec \in Int
      /\ s.frac \in Int /\ t.frac \in Int /\ u.frac \in Int
  OBVIOUS
<1>2. s.sec = t.sec /\ s.frac = t.frac => s = t
  OBVIOUS
<1>3. ~TextBefore(s, s)
  BY <1>1 DEF TextBefore
<1>4. ASSUME TextBefore(s, t), TextBefore(t, u) PROVE TextBefore(s, u)
  <2>1. /\ s.sec < t.sec \/ (s.sec = t.sec /\ s.frac # 0 /\ (t.frac = 0 \/ s.frac < t.frac))
        /\ t.sec < u.sec \/ (t.sec = u.sec /\ t.frac # 0 /\ (u.frac = 0 \/ t.frac < u.frac))
    BY <1>4 DEF TextBefore
  <2>2. s.sec < u.sec \/ (s.sec = u.sec /\ s.frac # 0 /\ (u.frac = 0 \/ s.frac < u.frac))
    <3>0. PICK a \in Int, b \in Int, c \in Int : a = s.sec /\ b = t.sec /\ c = u.sec
      BY <1>1, Zenon
    <3>1. PICK p \in Int, q \in Int, r \in Int : p = s.frac /\ q = t.frac /\ r = u.frac
      BY <1>1, Zenon
    <3>2. /\ a < b \/ (a = b /\ p # 0 /\ (q = 0 \/ p < q))
          /\ b < c \/ (b = c /\ q # 0 /\ (r = 0 \/ q < r))
      BY <2>1, <3>0, <3>1, Zenon
    <3>3. a < c \/ (a = c /\ p # 0 /\ (r = 0 \/ p < r))
      BY <3>2
    <3> QED BY <3>0, <3>1, <3>3, Zenon
  <2> QED BY <2>2 DEF TextBefore
<1>5. s = t \/ TextBefore(s, t) \/ TextBefore(t, s)
  <2>1. s.sec < t.sec \/ t.sec < s.sec \/ s.sec = t.sec
    BY <1>1, Compared, Zenon
  <2>2. s.frac < t.frac \/ t.frac < s.frac \/ s.frac = t.frac
    BY <1>1, Compared, Zenon
  <2> QED BY <1>1, <1>2, <2>1, <2>2 DEF TextBefore
<1> QED BY <1>3, <1>4, <1>5

LEMMA SortsInOrder ==
  ASSUME NEW x, NEW y, NEW z,
         IsTime(x.at), IsTime(y.at), IsTime(z.at), x.id \in Int, y.id \in Int, z.id \in Int
  PROVE  /\ ~SortsBefore(x, x)
         /\ SortsBefore(x, y) /\ SortsBefore(y, z) => SortsBefore(x, z)
         /\ x.id = y.id \/ SortsBefore(x, y) \/ SortsBefore(y, x)
<1>1. /\ x.at = None \/ x.at \in [sec : Int, frac : 0..999]
      /\ y.at = None \/ y.at \in [sec : Int, frac : 0..999]
      /\ z.at = None \/ z.at \in [sec : Int, frac : 0..999]
  BY DEF IsTime
<1>2. ~SortsBefore(x, x)
  BY <1>1, TimesInOrder DEF SortsBefore
<1>3. ASSUME SortsBefore(x, y), SortsBefore(y, z) PROVE SortsBefore(x, z)
  <2>1. CASE z.at = None
    <3>1. x.at = None => y.at = None /\ x.id < z.id
      BY <1>3, <2>1 DEF SortsBefore
    <3> QED BY <2>1, <3>1 DEF SortsBefore
  <2>2. CASE z.at # None
    <3>1. y.at # None /\ (TextBefore(y.at, z.at) \/ (y.at = z.at /\ y.id < z.id))
      BY <1>3, <2>2 DEF SortsBefore
    <3>2. x.at # None /\ (TextBefore(x.at, y.at) \/ (x.at = y.at /\ x.id < y.id))
      BY <1>3, <3>1 DEF SortsBefore
    <3>3. TextBefore(x.at, y.at) /\ TextBefore(y.at, z.at) => TextBefore(x.at, z.at)
      BY <1>1, <2>2, <3>1, <3>2, TimesInOrder
    <3>4. CASE TextBefore(x.at, z.at)
      BY <3>2, <3>4 DEF SortsBefore
    <3>5. CASE x.at = z.at /\ x.id < y.id /\ y.id < z.id
      BY <3>5 DEF SortsBefore
    <3> QED BY <3>1, <3>2, <3>3, <3>4, <3>5
  <2> QED BY <2>1, <2>2
<1>4. x.id = y.id \/ SortsBefore(x, y) \/ SortsBefore(y, x)
  <2>1. x.at # None /\ y.at # None =>
          x.at = y.at \/ TextBefore(x.at, y.at) \/ TextBefore(y.at, x.at)
    BY <1>1, TimesInOrder
  <2>2. x.id = y.id \/ x.id < y.id \/ y.id < x.id
    OBVIOUS
  <2> QED BY <2>1, <2>2 DEF SortsBefore
<1> QED BY <1>2, <1>3, <1>4

LEMMA BetsInOrder ==
  ASSUME NEW bets, LegsMatch(bets), \A c \in bets : IsRecord(c)
  PROVE  TotalOrder(Order(bets), bets)
<1>1. \A x \in bets : x.id \in Int /\ IsTime(x.at)
  BY DEF IsRecord
<1>2. \A x, y \in bets : <<x, y>> \in Order(bets) <=> SortsBefore(x, y)
  BY DEF Order
<1>3. \A x \in bets : <<x, x>> \notin Order(bets)
  BY <1>1, <1>2, SortsInOrder
<1>4. \A x, y, z \in bets :
        <<x, y>> \in Order(bets) /\ <<y, z>> \in Order(bets) => <<x, z>> \in Order(bets)
  BY <1>1, <1>2, SortsInOrder
<1>5. \A x, y \in bets : x = y \/ <<x, y>> \in Order(bets) \/ <<y, x>> \in Order(bets)
  BY <1>1, <1>2, SortsInOrder DEF LegsMatch
<1> QED BY <1>3, <1>4, <1>5 DEF TotalOrder

(* The entries are the bets, each at the place that its rank gives it.      *)
LEMMA EntriesAreRanked ==
  ASSUME NEW coupons, AreRecords(coupons)
  PROVE  LET e == Entries(coupons)
             bets == Bets(coupons)
             n == Cardinality(bets)
             Before(c) == {x \in bets : SortsBefore(x, c)}
         IN  /\ n \in Nat /\ DOMAIN e = 1..n
             /\ \A i \in 1..n : e[i] \in bets /\ Cardinality(Before(e[i])) = i - 1
             /\ \A c \in bets : Cardinality(Before(c)) + 1 \in 1..n
                                /\ e[Cardinality(Before(c)) + 1] = c
             /\ \A i, j \in 1..n : i < j => SortsBefore(e[i], e[j])
<1> DEFINE e == Entries(coupons)
           bets == Bets(coupons)
           n == Cardinality(bets)
           R == Order(bets)
           Before(c) == {x \in bets : SortsBefore(x, c)}
<1>1. IsFiniteSet(bets) /\ n \in Nat
  BY FS_Subset, FS_CardinalityType DEF AreRecords, Bets
<1>2. TotalOrder(R, bets)
  <2>1. LegsMatch(bets) /\ \A c \in bets : IsRecord(c)
    BY DEF AreRecords, Bets, LegsMatch
  <2> QED BY <2>1, BetsInOrder
<1>3. \A c \in bets : {y \in bets : <<y, c>> \in R} = Before(c)
  BY DEF Order
<1> HIDE DEF n, R, bets
<1>4. PICK f : Lists(f, bets, R)
  BY <1>1, <1>2, SortedListExists
<1>5. /\ f \in [1..n -> bets]
      /\ \A c \in bets : \E i \in 1..n : f[i] = c
      /\ \A i, j \in 1..n : i < j => <<f[i], f[j]>> \in R
  BY <1>4 DEF Lists, n
<1>6. \A i \in 1..n : Cardinality(Before(f[i])) = i - 1
  <2>1. \A i \in 1..n : Cardinality({y \in bets : <<y, f[i]>> \in R}) = i - 1
    BY <1>1, <1>2, <1>4, RankInList DEF n
  <2> HIDE DEF Before
  <2> QED BY <1>3, <1>5, <2>1
<1>7. ASSUME NEW c \in bets
      PROVE  Cardinality(Before(c)) + 1 \in 1..n /\ f[Cardinality(Before(c)) + 1] = c
  <2>1. PICK i \in 1..n : f[i] = c
    BY <1>5
  <2> HIDE DEF Before
  <2> QED BY <1>1, <1>6, <2>1
<1>8. /\ DOMAIN e = 1..n
      /\ \A i \in 1..n : e[i] = CHOOSE c \in bets : Cardinality(Before(c)) = i - 1
  BY DEF Entries, n, bets, Bets
<1>9. \A i \in 1..n : e[i] = f[i]
  <2> SUFFICES ASSUME NEW i \in 1..n PROVE e[i] = f[i]
    OBVIOUS
  <2>1. f[i] \in bets /\ Cardinality(Before(f[i])) = i - 1
    BY <1>5, <1>6
  <2> HIDE DEF Before, e
  <2>2. e[i] \in bets /\ Cardinality(Before(e[i])) = i - 1
    BY <1>8, <2>1
  <2> QED BY <1>1, <1>7, <2>2
<1>10. \A i, j \in 1..n : <<f[i], f[j]>> \in R => SortsBefore(f[i], f[j])
  BY DEF R, Order
<1> HIDE DEF e, Before
<1>11. \A i \in 1..n : e[i] \in bets /\ Cardinality(Before(e[i])) = i - 1
  BY <1>5, <1>6, <1>9
<1>12. \A c \in bets : Cardinality(Before(c)) + 1 \in 1..n /\ e[Cardinality(Before(c)) + 1] = c
  BY <1>7, <1>9
<1>13. \A i, j \in 1..n : i < j => SortsBefore(e[i], e[j])
  BY <1>5, <1>9, <1>10
<1> QED BY <1>1, <1>8, <1>11, <1>12, <1>13 DEF e, n, bets, Before

(* What a row of the decisions says is said of the bets up to its own.      *)
SameBet(x, y) ==
    /\ x.id = y.id /\ x.at = y.at /\ x.cash = y.cash /\ x.odds = y.odds
    /\ x.stake = y.stake /\ x.free = y.free
    /\ Event(x) = Event(y) /\ Side(x) = Side(y) /\ Lead(x) = Lead(y)

LEMMA LastIsEarlier ==
  ASSUME NEW n \in Nat, NEW P \in SUBSET (1..n), P # {}
  PROVE  Max(P) \in P
<1>1. \E m \in P : \A k \in P : m >= k
  BY GreatestElement
<1> QED BY <1>1 DEF Max

LEMMA SameRow ==
  ASSUME NEW A, NEW B, NEW i \in Nat \ {0}, 1..i \subseteq DOMAIN Entries(A),
         1..i \subseteq DOMAIN Entries(B),
         \A j \in 1..i : SameBet(Entries(A)[j], Entries(B)[j])
  PROVE  Decisions(A)[i] = Decisions(B)[i]
<1> DEFINE e == Entries(A)
           f == Entries(B)
           P == Prior(e, i)
           last == Max(P)
<1>1. i \in 1..i /\ i \in DOMAIN e /\ i \in DOMAIN f
  OBVIOUS
<1>2. \A j \in 1..i : SameBet(e[j], f[j])
  OBVIOUS
<1> HIDE DEF e, f
<1>3. Prior(f, i) = P
  BY <1>1, <1>2 DEF Prior, SameBet
<1>4. P \subseteq 1..(i - 1) /\ P \subseteq 1..i
  BY DEF Prior
<1>5. P # {} => last \in 1..i
  BY <1>4, LastIsEarlier
<1>6. SameBet(e[i], f[i]) /\ (P # {} => SameBet(e[last], f[last]))
  BY <1>1, <1>2, <1>5
<1>7. P # {} => Between(e[last], e[i]) = Between(f[last], f[i])
  BY <1>6 DEF Between, SameBet
<1>8. [j \in P |-> e[j].cash] = [j \in P |-> f[j].cash]
  BY <1>2, <1>4 DEF SameBet
<1>9. Sequence(A)[i] = Sequence(B)[i]
  <2>1. Sequence(A)[i] =
          [id |-> e[i].id, event |-> Event(e[i]), at |-> e[i].at,
           index |-> Cardinality(P) + 1, side |-> Side(e[i]),
           previous |-> IF P = {} THEN None ELSE e[last].id,
           previousSide |-> IF P = {} THEN None ELSE Side(e[last]),
           switch |-> IF P = {} THEN None
                      ELSE IF None \in {Side(e[last]), Side(e[i])} THEN None
                      ELSE Side(e[last]) # Side(e[i])]
    BY <1>1 DEF Sequence, e
  <2>2. Sequence(B)[i] =
          [id |-> f[i].id, event |-> Event(f[i]), at |-> f[i].at,
           index |-> Cardinality(P) + 1, side |-> Side(f[i]),
           previous |-> IF P = {} THEN None ELSE f[last].id,
           previousSide |-> IF P = {} THEN None ELSE Side(f[last]),
           switch |-> IF P = {} THEN None
                      ELSE IF None \in {Side(f[last]), Side(f[i])} THEN None
                      ELSE Side(f[last]) # Side(f[i])]
    <3> HIDE DEF P
    <3> QED BY <1>1, <1>3 DEF Sequence, f
  <2> HIDE DEF P, last
  <2> QED BY <1>6, <2>1, <2>2 DEF SameBet
<1>10. Decisions(A)[i] =
         [of |-> Sequence(A)[i],
          since |-> IF P = {} THEN None ELSE Between(e[last], e[i]),
          priorCash |-> SumFunction([j \in P |-> e[j].cash]),
          odds |-> e[i].odds, lead |-> Lead(e[i]),
          stake |-> e[i].stake, cash |-> e[i].cash, free |-> e[i].free]
  BY <1>1 DEF Decisions, e
<1>11. Decisions(B)[i] =
         [of |-> Sequence(B)[i],
          since |-> IF P = {} THEN None ELSE Between(f[last], f[i]),
          priorCash |-> SumFunction([j \in P |-> f[j].cash]),
          odds |-> f[i].odds, lead |-> Lead(f[i]),
          stake |-> f[i].stake, cash |-> f[i].cash, free |-> f[i].free]
  <2> HIDE DEF P
  <2> QED BY <1>1, <1>3 DEF Decisions, f
<1> HIDE DEF P, last
<1> QED BY <1>6, <1>7, <1>8, <1>9, <1>10, <1>11 DEF SameBet

LEMMA WithoutKeeps ==
  ASSUME NEW c, IsRecord(c)
  PROVE  LET w == WithoutOutcome(c)
         IN  /\ IsRecord(w) /\ w.id = c.id /\ w.at = c.at
             /\ Single(w) = Single(c)
             /\ Single(c) => SameBet(c, w)
<1> DEFINE w == WithoutOutcome(c)
           n == Len(c.legs)
           legs == [i \in 1..n |-> [c.legs[i] EXCEPT !.result = None]]
<1>1. n \in Nat /\ DOMAIN c.legs = 1..n
  BY DEF IsRecord, IsLegs
<1>2. \A i \in 1..n :
        /\ DOMAIN c.legs[i] = {"event", "selection", "factor", "score", "result"}
        /\ DOMAIN legs[i] = {"event", "selection", "factor", "score", "result"}
        /\ legs[i].event = c.legs[i].event /\ legs[i].selection = c.legs[i].selection
        /\ legs[i].score = c.legs[i].score
  BY <1>1 DEF IsRecord, IsLegs
<1>3. Len(legs) = n /\ DOMAIN legs = 1..n
  <2>1. legs = [i \in 1..n |-> legs[i]] /\ DOMAIN legs = 1..n
    OBVIOUS
  <2> HIDE DEF legs, n
  <2> QED BY <1>1, <2>1, ListLength
<1>4. /\ DOMAIN w = BetKeys /\ w = [k \in BetKeys |-> w[k]]
      /\ w.id = c.id /\ w.at = c.at /\ w.stake = c.stake /\ w.cash = c.cash
      /\ w.odds = c.odds /\ w.express = c.express /\ w.free = c.free
      /\ w.legs = [i \in DOMAIN c.legs |-> [c.legs[i] EXCEPT !.result = None]]
  BY DEF WithoutOutcome, IsRecord, BetKeys
<1>5. w.legs = legs
  BY <1>1, <1>4
<1> HIDE DEF w, legs
<1>6. IsLegs(w.legs)
  BY <1>1, <1>2, <1>3, <1>5 DEF IsLegs
<1>7. IsRecord(w)
  BY <1>4, <1>6 DEF IsRecord
<1>8. n = 1 => /\ w.legs[1].event = c.legs[1].event
               /\ w.legs[1].selection = c.legs[1].selection
               /\ w.legs[1].score = c.legs[1].score
  BY <1>2, <1>5
<1>9. Single(w) = Single(c)
  BY <1>3, <1>4, <1>5, <1>8 DEF Single
<1>10. Single(c) => SameBet(c, w)
  BY <1>4, <1>8 DEF Single, SameBet, Event, Side, Lead
<1> QED BY <1>4, <1>7, <1>9, <1>10 DEF w

(* A bet that is listed before another was not placed after it.             *)
LEMMA ListedIsNotAfter ==
  ASSUME NEW x, NEW c, IsTime(x.at), IsTime(c.at), ~ListedAhead(x, c),
         SortsBefore(x, c) \/ x = c
  PROVE  NotAfter(x, c)
<1>1. CASE c.at = None
  BY <1>1 DEF NotAfter
<1>2. CASE c.at # None
  <2>1. x.at # None /\ (TextBefore(x.at, c.at) \/ x.at = c.at)
    BY <1>2 DEF SortsBefore
  <2>2. /\ x.at.sec \in Int /\ c.at.sec \in Int
        /\ x.at.frac \in 0..999 /\ c.at.frac \in 0..999
    BY <1>2, <2>1 DEF IsTime
  <2>3. ~(x.at.sec = c.at.sec /\ x.at.frac # 0 /\ c.at.frac = 0)
    BY <1>2, <2>1 DEF ListedAhead
  <2>4. 1000 * (c.at.sec - x.at.sec) + c.at.frac - x.at.frac >= 0
    <3>1. x.at.sec < c.at.sec \/ (x.at.sec = c.at.sec /\ (x.at.frac = c.at.frac \/ x.at.frac < c.at.frac))
      BY <2>1, <2>3, Zenon DEF TextBefore
    <3>2. PICK a \in Int, b \in Int, p \in 0..999, q \in 0..999 :
            /\ a = x.at.sec /\ b = c.at.sec /\ p = x.at.frac /\ q = c.at.frac
      BY <2>2
    <3>3. a < b \/ (a = b /\ (p = q \/ p < q))
      BY <3>1, <3>2, Zenon
    <3>4. 1000 * (b - a) + q - p >= 0
      <4>1. a < b => 1000 * (b - a) >= 1000
        OBVIOUS
      <4>2. q - p >= -999
        OBVIOUS
      <4> QED BY <3>3, <4>1, <4>2
    <3> QED BY <3>2, <3>4, Zenon
  <2>5. Between(x, c) = 1000 * (c.at.sec - x.at.sec) + c.at.frac - x.at.frac
    BY <1>2, <2>1 DEF Between
  <2> QED BY <2>1, <2>4, <2>5 DEF NotAfter
<1> QED BY <1>1, <1>2

(* The row of a bet depends on the bets up to it, as they were placed.      *)
LEMMA RowSeesThePast ==
  ASSUME NEW all, AreRecords(all), NEW c \in all, \A x \in all : ~ListedAhead(x, c)
  PROVE  RowsOf(Decisions(all), c.id)
           = RowsOf(Decisions({WithoutOutcome(x) : x \in {y \in all : NotAfter(y, c)}}), c.id)
<1> DEFINE Y == {y \in all : NotAfter(y, c)}
           W == {WithoutOutcome(x) : x \in Y}
           e == Entries(all)
           f == Entries(W)
           BeforeAll(x) == {y \in Bets(all) : SortsBefore(y, x)}
           BeforeW(x) == {y \in Bets(W) : SortsBefore(y, x)}
<1>1. \A x \in all : /\ IsRecord(x) /\ IsRecord(WithoutOutcome(x))
                     /\ WithoutOutcome(x).id = x.id /\ WithoutOutcome(x).at = x.at
                     /\ Single(WithoutOutcome(x)) = Single(x)
                     /\ Single(x) => SameBet(x, WithoutOutcome(x))
  BY WithoutKeeps DEF AreRecords
<1>2. \A x, y \in all : x.id = y.id => x = y
  BY DEF AreRecords, LegsMatch
<1>3. AreRecords(W)
  <2>1. IsFiniteSet(Y)
    BY FS_Subset DEF AreRecords
  <2>2. IsFiniteSet(W)
    <3> DEFINE g == [x \in Y |-> WithoutOutcome(x)]
    <3>1. DOMAIN g = Y /\ {g[x] : x \in DOMAIN g} = W
      OBVIOUS
    <3> HIDE DEF g, W, Y
    <3> QED BY <2>1, <3>1, ImageIsFinite
  <2>3. LegsMatch(W)
    BY <1>1, <1>2 DEF LegsMatch
  <2> QED BY <1>1, <2>2, <2>3 DEF AreRecords
<1>4. \A x, y \in all : SortsBefore(WithoutOutcome(x), WithoutOutcome(y)) = SortsBefore(x, y)
  BY <1>1 DEF SortsBefore
<1>5. \A x \in Bets(all) : SortsBefore(x, c) \/ x = c => x \in Y
  <2>1. \A x \in all : IsTime(x.at) /\ ~ListedAhead(x, c)
    BY <1>1 DEF IsRecord
  <2> QED BY <2>1, ListedIsNotAfter DEF Bets
<1>6. \A x \in Y : x \in Bets(all) <=> WithoutOutcome(x) \in Bets(W)
  BY <1>1 DEF Bets
<1>7. /\ Cardinality(Bets(all)) \in Nat /\ DOMAIN e = 1..Cardinality(Bets(all))
      /\ \A i \in DOMAIN e : e[i] \in Bets(all) /\ Cardinality(BeforeAll(e[i])) = i - 1
      /\ \A x \in Bets(all) : Cardinality(BeforeAll(x)) + 1 \in DOMAIN e
                              /\ e[Cardinality(BeforeAll(x)) + 1] = x
      /\ \A i, j \in DOMAIN e : i < j => SortsBefore(e[i], e[j])
  BY EntriesAreRanked
<1>8. /\ Cardinality(Bets(W)) \in Nat /\ DOMAIN f = 1..Cardinality(Bets(W))
      /\ \A i \in DOMAIN f : f[i] \in Bets(W) /\ Cardinality(BeforeW(f[i])) = i - 1
      /\ \A x \in Bets(W) : Cardinality(BeforeW(x)) + 1 \in DOMAIN f
                            /\ f[Cardinality(BeforeW(x)) + 1] = x
  <2> HIDE DEF W
  <2> QED BY <1>3, EntriesAreRanked
<1>9. /\ DOMAIN Decisions(all) = DOMAIN e
      /\ \A i \in DOMAIN e : Decisions(all)[i].of.id = e[i].id
  BY DEF Decisions, Sequence
<1>10. /\ DOMAIN Decisions(W) = DOMAIN f
       /\ \A i \in DOMAIN f : Decisions(W)[i].of.id = f[i].id
  <2> HIDE DEF W
  <2> QED BY DEF Decisions, Sequence
<1> HIDE DEF e, f
<1>11. \A i \in DOMAIN e : e[i].id = c.id => e[i] = c /\ Single(c)
  BY <1>2, <1>7 DEF Bets
<1>12. \A i \in DOMAIN f : f[i].id = c.id => f[i] = WithoutOutcome(c) /\ Single(c)
  <2> SUFFICES ASSUME NEW i \in DOMAIN f, f[i].id = c.id
               PROVE  f[i] = WithoutOutcome(c) /\ Single(c)
    OBVIOUS
  <2>1. PICK x \in Y : f[i] = WithoutOutcome(x)
    BY <1>8 DEF Bets
  <2>2. Single(f[i])
    BY <1>8 DEF Bets
  <2>3. x = c
    BY <1>1, <1>2, <2>1
  <2> QED BY <1>1, <2>1, <2>2, <2>3
<1>13. CASE ~Single(c)
  BY <1>9, <1>10, <1>11, <1>12, <1>13 DEF RowsOf
<1>14. CASE Single(c)
  <2> DEFINE i == Cardinality(BeforeAll(c)) + 1
  <2>1. c \in Bets(all) /\ i \in DOMAIN e /\ e[i] = c
    <3>1. c \in Bets(all)
      BY <1>14 DEF Bets
    <3> HIDE DEF BeforeAll
    <3> QED BY <1>7, <3>1
  <2>2. ASSUME NEW y \in Bets(all), SortsBefore(y, c) \/ y = c
        PROVE  Cardinality(BeforeW(WithoutOutcome(y))) = Cardinality(BeforeAll(y))
    <3>1. \A x \in BeforeAll(y) : SortsBefore(x, c)
      <4>1. \A x \in Bets(all) : IsTime(x.at) /\ x.id \in Int
        BY <1>1 DEF IsRecord, Bets
      <4> QED BY <2>1, <2>2, <4>1, SortsInOrder
    <3>2. BeforeAll(y) \subseteq Y /\ y \in Y
      BY <1>5, <2>2, <3>1
    <3>3. BeforeW(WithoutOutcome(y)) = {WithoutOutcome(x) : x \in BeforeAll(y)}
      <4>1. \A x \in BeforeAll(y) : WithoutOutcome(x) \in BeforeW(WithoutOutcome(y))
        BY <1>4, <1>6, <3>2
      <4>2. \A w \in BeforeW(WithoutOutcome(y)) : \E x \in BeforeAll(y) : w = WithoutOutcome(x)
        <5> TAKE w \in BeforeW(WithoutOutcome(y))
        <5>1. PICK x \in Y : w = WithoutOutcome(x)
          BY DEF Bets
        <5> QED BY <1>4, <1>6, <3>2, <5>1
      <4> QED BY <4>1, <4>2
    <3> DEFINE g == [x \in BeforeAll(y) |-> WithoutOutcome(x)]
    <3>4. g \in Bijection(BeforeAll(y), BeforeW(WithoutOutcome(y)))
      <4>1. \A x \in BeforeAll(y) : x \in all
        BY DEF Bets
      <4>2. g \in [BeforeAll(y) -> BeforeW(WithoutOutcome(y))]
        BY <3>3
      <4>3. \A w \in BeforeW(WithoutOutcome(y)) : \E x \in BeforeAll(y) : g[x] = w
        BY <3>3
      <4>4. \A x, z \in BeforeAll(y) : g[x] = g[z] => x = z
        BY <1>1, <1>2, <4>1
      <4> HIDE DEF g, BeforeAll, BeforeW
      <4> QED BY <4>2, <4>3, <4>4 DEF Bijection, Injection, Surjection, IsInjective
    <3>5. IsFiniteSet(BeforeAll(y))
      BY FS_Subset DEF AreRecords, Bets
    <3> HIDE DEF g, BeforeAll, BeforeW
    <3> QED BY <3>4, <3>5, FS_Bijection DEF ExistsBijection
  <2>3. \A j \in 1..i : j \in DOMAIN e /\ (SortsBefore(e[j], c) \/ e[j] = c)
    <3> HIDE DEF i
    <3> QED BY <1>7, <2>1
  <2>4. ASSUME NEW j \in 1..i PROVE j \in DOMAIN f /\ f[j] = WithoutOutcome(e[j])
    <3>1. e[j] \in Bets(all) /\ Cardinality(BeforeAll(e[j])) = j - 1
      <4> HIDE DEF BeforeAll, i
      <4> QED BY <1>7, <2>3
    <3>2. e[j] \in Y
      BY <1>5, <2>3, <3>1
    <3>3. WithoutOutcome(e[j]) \in Bets(W)
      BY <1>6, <3>1, <3>2
    <3>4. Cardinality(BeforeW(WithoutOutcome(e[j]))) = j - 1
      <4> HIDE DEF BeforeAll, BeforeW, i
      <4> QED BY <2>2, <2>3, <3>1
    <3>5. j - 1 + 1 = j
      <4>1. j \in Int
        OBVIOUS
      <4> QED BY <4>1
    <3> HIDE DEF BeforeW, W, i
    <3> QED BY <1>8, <3>3, <3>4, <3>5
  <2>5. i \in Nat \ {0}
    <3> HIDE DEF i
    <3> QED BY <1>7, <2>1
  <2> HIDE DEF i
  <2>6. \A j \in 1..i : SameBet(e[j], f[j])
    BY <1>1, <1>7, <2>3, <2>4 DEF Bets
  <2>7. Decisions(all)[i] = Decisions(W)[i]
    <3>1. 1..i \subseteq DOMAIN e /\ 1..i \subseteq DOMAIN f
      BY <2>3, <2>4
    <3> HIDE DEF W
    <3> QED BY <2>5, <2>6, <3>1, SameRow DEF e, f
  <2>8. i \in DOMAIN f /\ f[i] = WithoutOutcome(c)
    BY <2>1, <2>4, <2>5
  <2>9. \A j \in DOMAIN e : e[j] = c => j = i
    <3>1. \A j \in DOMAIN e : e[j] = c => j - 1 = i - 1 /\ j \in Int /\ i \in Int
      <4> HIDE DEF BeforeAll
      <4> QED BY <1>7, <2>1
    <3> QED BY <3>1
  <2>10. \A j \in DOMAIN f : f[j] = WithoutOutcome(c) => j = i
    <3>1. \A j \in DOMAIN f : f[j] = WithoutOutcome(c) => j - 1 = i - 1 /\ j \in Int /\ i \in Int
      <4> HIDE DEF BeforeW, W
      <4> QED BY <1>8, <2>8
    <3> QED BY <3>1
  <2>11. RowsOf(Decisions(all), c.id) = {Decisions(all)[i]}
    BY <1>9, <1>11, <2>1, <2>9 DEF RowsOf
  <2>12. RowsOf(Decisions(W), c.id) = {Decisions(W)[i]}
    <3>1. WithoutOutcome(c).id = c.id
      BY <1>1
    <3> HIDE DEF W
    <3> QED BY <1>10, <1>12, <2>8, <2>10, <3>1 DEF RowsOf
  <2> QED BY <2>7, <2>11, <2>12
<1> QED BY <1>13, <1>14

-----------------------------------------------------------------------------
(* What runs make of an account: records of coupons.                        *)
IsDetail(d) == d = NoDetail \/ IsLegs(d.legs)
RecordsInv ==
    /\ DOMAIN raw = DOMAIN Server[1]
    /\ \A id \in DOMAIN raw : raw[id] \notin {NoFile, Broken} => IsDetail(raw[id])
    /\ run.phase = "store" => IsDetail(run.temp) /\ run.next <= Len(Coupons)
    /\ IsFiniteSet(run.coupons) /\ \A c \in run.coupons : IsRecord(c)

(* The files of one run are made of the same coupons, which were checked.   *)
Sound(coupons) == AreRecords(coupons) /\ PayoutsVerified(coupons)
MadeOf(n, coupons, failures) ==
    \A f \in FileNames : files[f].of = n => files[f].rows = Content(f, coupons, failures)
Published ==
    /\ run.phase = "write" => Sound(run.coupons) /\ MadeOf(runs, run.coupons, run.failures)
    /\ \A n \in 1..runs : \E coupons, failures : Sound(coupons) /\ MadeOf(n, coupons, failures)

LEMMA NoLegs == IsLegs(<< >>)
BY DEF IsLegs

LEMMA CurrentIsTyped ==
  ASSUME RunInv, run.next <= Len(Coupons)
  PROVE  /\ Current.id \in Int /\ Current.id \in DOMAIN Server[1] /\ IsTime(Current.at)
         /\ IsDetail(Server[now][Current.id])
         /\ Server[now][Current.id] \notin {NoFile, Broken}
<1>1. run.of \in 1..Len(Account) /\ now \in run.of..Len(Account) /\ now \in 1..Len(Account)
  BY AccountIsServed DEF RunInv
<1>2. run.next \in 1..Len(Account[run.of])
  BY DEF RunInv, Coupons
<1>3. Current = Account[run.of][run.next]
  BY DEF Current, Coupons
<1>4. Current.id \in Int /\ Current.id \in DOMAIN Server[1] /\ IsTime(Current.at)
  BY <1>1, <1>2, <1>3, AccountIsTyped
<1>5. Server[now][Current.id] \notin {NoFile, Broken}
  BY <1>1, <1>2, <1>3, AccountIsServed
<1>6. DOMAIN Server[now] = DOMAIN Server[1]
  BY <1>1, AccountIsTyped
<1>7. IsDetail(Server[now][Current.id])
  BY <1>1, <1>4, <1>5, <1>6, AccountIsTyped DEF IsDetail
<1> QED BY <1>4, <1>5, <1>7

LEMMA CouponIsRecord ==
  ASSUME NEW s, s.id \in Int, IsTime(s.at), NEW detail, IsDetail(detail), NEW status
  PROVE  IsRecord(Coupon(s, detail, status))
<1>1. IsLegs(Legs(detail))
  BY NoLegs DEF IsDetail, Legs
<1> DEFINE c == Coupon(s, detail, status)
<1>2. /\ DOMAIN c = BetKeys /\ c = [k \in BetKeys |-> c[k]]
      /\ c.id = s.id /\ c.at = s.at /\ c.legs = Legs(detail)
  BY DEF Coupon, BetKeys
<1> HIDE DEF c
<1>3. IsRecord(c)
  BY <1>1, <1>2 DEF IsRecord
<1> QED BY <1>3 DEF c

LEMMA NormaliseRecords ==
  ASSUME RunInv, RecordsInv, run.next <= Len(Coupons),
         NEW r \in {run, Attempted}, NEW detail, IsDetail(detail), NEW status, NEW failed,
         Normalise(r, detail, status, failed)
  PROVE  IsFiniteSet(run'.coupons) /\ \A c \in run'.coupons : IsRecord(c)
<1>1. DOMAIN r = Fields /\ r.coupons = run.coupons
  BY DEF Attempted, RunInv, Fields
<1>2. run'.coupons = IF Normal(Current, detail)
                     THEN run.coupons \cup {Coupon(Current, detail, status)} ELSE run.coupons
  BY <1>1 DEF Normalise, Fields
<1>3. IsRecord(Coupon(Current, detail, status))
  BY CurrentIsTyped, CouponIsRecord
<1>4. IsFiniteSet(run.coupons \cup {Coupon(Current, detail, status)})
  BY FS_AddElement DEF RecordsInv
<1> QED BY <1>2, <1>3, <1>4 DEF RecordsInv

LEMMA RecordsInit == Init => RecordsInv /\ Published
<1> SUFFICES ASSUME Init PROVE RecordsInv /\ Published
  OBVIOUS
<1>1. /\ run.phase = "idle" /\ run.coupons = {}
      /\ raw = [id \in DOMAIN Server[1] |-> IF id \in Unreadable THEN Broken ELSE NoFile]
  BY DEF Init, Idle
<1>2. runs = 0
  BY DEF Init
<1> QED BY <1>1, <1>2, FS_EmptySet DEF RecordsInv, Published

LEMMA RecordsStep == RunInv /\ RecordsInv /\ [Next]_vars => RecordsInv'
<1> SUFFICES ASSUME RunInv, RecordsInv, [Next]_vars PROVE RecordsInv'
  OBVIOUS
<1>1. CASE UNCHANGED <<raw, run>>
  BY <1>1 DEF RecordsInv, Coupons
<1>2. ASSUME NEW id \in Ids, DeleteUnreadable(id) PROVE RecordsInv'
  <2>1. /\ UNCHANGED run /\ DOMAIN raw' = DOMAIN raw
        /\ \A x \in DOMAIN raw : raw'[x] = raw[x] \/ raw'[x] = NoFile
    BY <1>2 DEF DeleteUnreadable, Ids
  <2> QED BY <2>1 DEF RecordsInv, Coupons
<1>3. ASSUME NEW limit, NEW client, Start(limit, client) PROVE RecordsInv'
  <2>1. run'.phase = "coupon" /\ run'.coupons = {} /\ UNCHANGED raw
    BY <1>3 DEF Start, Idle
  <2> QED BY <2>1, FS_EmptySet DEF RecordsInv
<1>4. CASE Resume \/ ReadUnreadable \/ Defer \/ FetchFails
  <2>1. UNCHANGED raw /\ run.next <= Len(Coupons)
    BY <1>4 DEF Resume, ReadUnreadable, Defer, FetchFails, AtCoupon, MayFetch
  <2>2. IsDetail(NoDetail)
    BY DEF IsDetail
  <2>3. Resume => IsDetail(raw[Current.id])
    BY <2>1, CurrentIsTyped DEF Resume, RecordsInv
  <2>4. PICK r \in {run, Attempted} :
          \E detail, status, failed : IsDetail(detail) /\ Normalise(r, detail, status, failed)
    BY <1>4, <2>2, <2>3 DEF Resume, ReadUnreadable, Defer, FetchFails
  <2>5. run'.phase = "coupon"
    BY <2>4, NormaliseMoves
  <2> QED BY <2>1, <2>4, <2>5, NormaliseRecords DEF RecordsInv
<1>5. CASE Fetch
  <2>1. run.next <= Len(Coupons) /\ UNCHANGED raw
    BY <1>5 DEF Fetch, MayFetch, AtCoupon
  <2>2. /\ run'.coupons = run.coupons /\ run'.temp = Server[now][Current.id]
        /\ run'.of = run.of /\ run'.next = run.next
    BY <1>5 DEF Fetch, Attempted, RunInv, Fields
  <2> QED BY <2>1, <2>2, CurrentIsTyped DEF RecordsInv, Coupons
<1>6. CASE Store
  <2>1. run.phase = "store" /\ raw' = [raw EXCEPT ![Current.id] = run.temp]
    BY <1>6 DEF Store
  <2>2. /\ DOMAIN raw' = DOMAIN raw
        /\ \A x \in DOMAIN raw : raw'[x] = raw[x] \/ raw'[x] = run.temp
    BY <2>1
  <2>3. run'.phase = "coupon" /\ IsFiniteSet(run'.coupons) /\ \A c \in run'.coupons : IsRecord(c)
    BY <1>6, <2>1, NormaliseMoves, NormaliseRecords DEF Store, RecordsInv
  <2> QED BY <2>1, <2>2, <2>3 DEF RecordsInv
<1>7. CASE StoreFails
  <2>1. IsDetail(NoDetail) /\ UNCHANGED raw /\ run.next <= Len(Coupons)
    BY <1>7 DEF IsDetail, StoreFails, RecordsInv
  <2>2. run'.phase = "coupon" /\ IsFiniteSet(run'.coupons) /\ \A c \in run'.coupons : IsRecord(c)
    BY <1>7, <2>1, NormaliseMoves, NormaliseRecords DEF StoreFails
  <2> QED BY <2>1, <2>2 DEF RecordsInv
<1>8. CASE CheckFails \/ CutOff
  <2>1. run'.phase = "idle" /\ run'.coupons = {} /\ UNCHANGED raw
    BY <1>8 DEF CheckFails, CutOff, Idle
  <2> QED BY <2>1, FS_EmptySet DEF RecordsInv
<1>9. CASE Build
  <2>1. run'.phase = "write" /\ run'.coupons = run.coupons /\ UNCHANGED raw
    BY <1>9 DEF Build, RunInv, Fields
  <2> QED BY <2>1 DEF RecordsInv
<1>10. CASE WriteFile
  <2>1. /\ UNCHANGED raw
        /\ \/ run'.phase = "idle" /\ run'.coupons = {}
           \/ run'.phase = "write" /\ run'.coupons = run.coupons
    BY <1>10 DEF WriteFile, Written, RunInv, Fields, Idle
  <2> QED BY <2>1, FS_EmptySet DEF RecordsInv
<1>11. AccountMoves \/ SaveSummary => UNCHANGED <<raw, run>>
  BY DEF AccountMoves, SaveSummary
<1> QED BY <1>1, <1>2, <1>3, <1>4, <1>5, <1>6, <1>7, <1>8, <1>9, <1>10, <1>11 DEF Next, vars

LEMMA PublishedStep == ExportInv /\ RecordsInv /\ Published /\ [Next]_vars => Published'
<1> SUFFICES ASSUME ExportInv, RecordsInv, Published, [Next]_vars PROVE Published'
  OBVIOUS
<1>1. CASE UNCHANGED <<run, files, runs>>
  BY <1>1 DEF Published, MadeOf
<1>2. CASE run'.phase # "write" /\ UNCHANGED <<files, runs>>
  BY <1>2 DEF Published, MadeOf
<1>3. ASSUME run'.phase = "coupon", runs' = runs + 1, UNCHANGED files PROVE Published'
  <2>1. runs \in Nat /\ \A f \in FileNames : files[f].of \in 0..runs
    BY DEF ExportInv, RunInv, OrderInv
  <2>2. Sound({}) /\ MadeOf(runs, {}, {})'
    BY <1>3, <2>1, FS_EmptySet DEF Sound, AreRecords, LegsMatch, PayoutsVerified, CashWins, MadeOf
  <2>3. ASSUME NEW n \in 1..runs, NEW coupons, NEW failures, MadeOf(n, coupons, failures)
        PROVE  MadeOf(n, coupons, failures)'
    BY <1>3, <2>3 DEF MadeOf
  <2>4. \A n \in 1..runs' : n = runs' \/ n \in 1..runs
    BY <1>3, <2>1
  <2>5. ASSUME NEW n \in 1..runs'
        PROVE  (\E coupons, failures : Sound(coupons) /\ MadeOf(n, coupons, failures))'
    <3>1. CASE n = runs'
      BY <2>2, <3>1
    <3>2. CASE n \in 1..runs
      <4>1. PICK coupons, failures : Sound(coupons) /\ MadeOf(n, coupons, failures)
        BY <3>2 DEF Published
      <4> QED BY <2>3, <3>2, <4>1
    <3> QED BY <2>4, <3>1, <3>2
  <2> QED BY <1>3, <2>5 DEF Published
<1>4. CASE Build
  <2>1. /\ run.phase = "coupon" /\ Checked /\ UNCHANGED <<files, runs>>
        /\ run'.coupons = run.coupons
    BY <1>4 DEF Build, LoopDone, ExportInv, RunInv, Fields
  <2>2. runs \in Nat /\ \A f \in FileNames : files[f].of \in 0..runs /\ files[f].of < runs
    BY <2>1 DEF ExportInv, OrderInv, RunInv
  <2>3. Sound(run'.coupons)
    BY <2>1 DEF Checked, RecordsInv, AreRecords, Sound
  <2>4. MadeOf(runs, run.coupons, run.failures)'
    BY <2>1, <2>2 DEF MadeOf
  <2> QED BY <2>1, <2>3, <2>4 DEF Published, MadeOf
<1>5. CASE WriteFile
  <2> DEFINE k == run.written + 1
             coupons == run.coupons
             failures == run.failures
  <2>1. /\ k \in 1..12 /\ run.phase = "write" /\ runs' = runs
        /\ \A i \in 1..12 : i # k => files'[Files[i]] = files[Files[i]]
        /\ files'[Files[k]] = [of |-> runs, rows |-> Content(Files[k], coupons, failures)]
        /\ run' = Idle \/ (run'.coupons = run.coupons /\ run'.failures = run.failures)
    BY <1>5, WriteMoves
  <2>2. Sound(coupons) /\ MadeOf(runs, coupons, failures)
    BY <2>1 DEF Published
  <2> HIDE DEF k, coupons, failures
  <2>3. \A f \in FileNames :
           \/ files'[f] = files[f]
           \/ files'[f].of = runs /\ files'[f].rows = Content(f, coupons, failures)
    BY <2>1, FilesAreTwelve
  <2>4. \A f \in FileNames : files'[f].of = runs => files'[f].rows = Content(f, coupons, failures)
    BY <2>2, <2>3 DEF MadeOf
  <2>5. ASSUME NEW n, n # runs, NEW c, NEW e, MadeOf(n, c, e)
        PROVE  \A f \in FileNames : files'[f].of = n => files'[f].rows = Content(f, c, e)
    BY <2>3, <2>5 DEF MadeOf
  <2>6. \A n \in 1..runs : \E c, e : Sound(c) /\ \A f \in FileNames :
           files'[f].of = n => files'[f].rows = Content(f, c, e)
    <3> TAKE n \in 1..runs
    <3>1. CASE n = runs
      BY <2>2, <2>4, <3>1
    <3>2. CASE n # runs
      <4>1. PICK c, e : Sound(c) /\ MadeOf(n, c, e)
        BY DEF Published
      <4> QED BY <2>5, <3>2, <4>1
    <3> QED BY <3>1, <3>2
  <2>7. run'.phase = "write" => run'.coupons = coupons /\ run'.failures = failures
    BY <2>1 DEF Idle, coupons, failures
  <2> QED BY <2>1, <2>2, <2>4, <2>6, <2>7 DEF Published, MadeOf
<1>6. \/ UNCHANGED <<run, files, runs>> \/ (run'.phase # "write" /\ UNCHANGED <<files, runs>>)
      \/ (run'.phase = "coupon" /\ runs' = runs + 1 /\ UNCHANGED files) \/ Build \/ WriteFile
  <2>1. \A r, detail, status, failed :
          r \in {run, Attempted} /\ Normalise(r, detail, status, failed) => run'.phase = "coupon"
    BY NormaliseMoves DEF ExportInv
  <2>2. Resume \/ ReadUnreadable \/ Defer \/ FetchFails \/ Store \/ StoreFails =>
          run'.phase # "write" /\ UNCHANGED <<files, runs>>
    BY <2>1 DEF Resume, ReadUnreadable, Defer, FetchFails, Store, StoreFails
  <2>3. Fetch => run'.phase # "write" /\ UNCHANGED <<files, runs>>
    BY DEF Fetch, Attempted, ExportInv, RunInv, Fields
  <2>4. \A limit, client :
          Start(limit, client) => run'.phase = "coupon" /\ runs' = runs + 1 /\ UNCHANGED files
    BY DEF Start, Idle
  <2>5. CheckFails \/ CutOff => run'.phase = "idle" /\ UNCHANGED <<files, runs>>
    BY DEF CheckFails, CutOff, Idle
  <2>6. AccountMoves \/ SaveSummary \/ (\E id \in Ids : DeleteUnreadable(id)) \/ UNCHANGED vars =>
          UNCHANGED <<run, files, runs>>
    BY DEF AccountMoves, SaveSummary, DeleteUnreadable, vars
  <2> QED BY <2>2, <2>3, <2>4, <2>5, <2>6 DEF Next
<1> QED BY <1>1, <1>2, <1>3, <1>4, <1>5, <1>6

LEMMA PublishedHolds == Spec => [](RecordsInv /\ Published)
<1>1. ExportInv => RunInv
  BY DEF ExportInv
<1>2. ExportInv /\ RecordsInv /\ Published /\ [Next]_vars => (RecordsInv /\ Published)'
  BY <1>1, RecordsStep, PublishedStep
<1> QED BY <1>2, RecordsInit, ExportInvariant, PTL DEF Spec

(* Two files of one run come from the same checked coupons.                 *)
LEMMA OfOneRun ==
  ASSUME ExportInv, Published, NEW f \in FileNames, NEW g \in FileNames,
         files[f].of = files[g].of, files[g].of # 0
  PROVE  \E coupons, failures : /\ Sound(coupons)
                               /\ files[f].rows = Content(f, coupons, failures)
                               /\ files[g].rows = Content(g, coupons, failures)
<1>1. files[g].of \in 1..runs
  <2>1. files[g].of \in 0..runs /\ runs \in Nat
    BY DEF ExportInv, OrderInv, RunInv
  <2> QED BY <2>1
<1>2. PICK coupons, failures : Sound(coupons) /\ MadeOf(files[g].of, coupons, failures)
  BY <1>1 DEF Published
<1> QED BY <1>2 DEF MadeOf

(* Wherever the runs were cut off, the files of earlier runs are those      *)
(* behind in the order of writing, decisions and outcomes of one run are    *)
(* about the same bets, and no raw file is torn: for every account, every   *)
(* answer of the provider and any number of runs.                           *)
THEOREM FilesAreSealed == Spec => []FilesSealed
<1>1. ExportInv /\ Published => FilesSealed
  <2> SUFFICES ASSUME ExportInv, Published PROVE FilesSealed
    OBVIOUS
  <2>1. NoTornRaw
    BY DEF ExportInv, RawInv
  <2>2. \A i, j \in DOMAIN Files : i < j => files[Files[i]].of >= files[Files[j]].of
    BY FilesAreTwelve DEF ExportInv, OrderInv
  <2>3. ASSUME NEW f \in Formats, NEW g \in Formats,
               files[<<"decisions", f>>].of = files[<<"outcomes", g>>].of
        PROVE  [i \in DOMAIN files[<<"decisions", f>>].rows |-> files[<<"decisions", f>>].rows[i].of.id]
                 = [i \in DOMAIN files[<<"outcomes", g>>].rows |-> files[<<"outcomes", g>>].rows[i].id]
    <3> DEFINE d == <<"decisions", f>>
               o == <<"outcomes", g>>
    <3>1. d \in FileNames /\ o \in FileNames
      BY NamesOfFiles
    <3>2. CASE files[o].of = 0
      <4>1. files[d].rows = << >> /\ files[o].rows = << >>
        BY <2>3, <3>1, <3>2 DEF ExportInv, OrderInv
      <4> QED BY <4>1
    <3>3. CASE files[o].of # 0
      <4>1. PICK coupons, failures : /\ files[d].rows = Content(d, coupons, failures)
                                     /\ files[o].rows = Content(o, coupons, failures)
        BY <2>3, <3>1, <3>3, OfOneRun
      <4>2. Content(d, coupons, failures) = Decisions(coupons)
            /\ Content(o, coupons, failures) = Outcomes(coupons)
        BY DEF Content
      <4> QED BY <4>1, <4>2, SameBets
    <3> QED BY <3>2, <3>3
  <2> QED BY <2>1, <2>2, <2>3 DEF FilesSealed, TablesSealed
<1> QED BY <1>1, PublishedHolds, ExportInvariant, PTL

(* The tables that a summary of the account and its details lead to say of  *)
(* a bet what was known when it was placed, for any account and provider.   *)
THEOREM DecisionsSeeThePast == Spec => []DecisionsPointInTime
<1>1. ExportInv /\ Published => DecisionsPointInTime
  <2> SUFFICES ASSUME ExportInv, Published, NEW f \in Formats, NEW g \in Formats,
                      files[<<"decisions", f>>].of = files[<<"coupons", g>>].of,
                      files[<<"coupons", g>>].of # 0,
                      NEW c \in files[<<"coupons", g>>].rows.records,
                      \A x \in files[<<"coupons", g>>].rows.records : ~ListedAhead(x, c)
               PROVE  RowsOf(files[<<"decisions", f>>].rows, c.id)
                        = RowsOf(Decisions({WithoutOutcome(x) :
                                   x \in {y \in files[<<"coupons", g>>].rows.records : NotAfter(y, c)}}),
                                 c.id)
    BY DEF DecisionsPointInTime
  <2> DEFINE d == <<"decisions", f>>
             k == <<"coupons", g>>
  <2>1. PICK coupons, failures : /\ Sound(coupons)
                                 /\ files[d].rows = Content(d, coupons, failures)
                                 /\ files[k].rows = Content(k, coupons, failures)
    <3>1. d \in FileNames /\ k \in FileNames /\ files[d].of = files[k].of /\ files[k].of # 0
      BY NamesOfFiles
    <3> HIDE DEF d, k
    <3> QED BY <3>1, OfOneRun
  <2>2. files[d].rows = Decisions(coupons) /\ files[k].rows.records = coupons
    BY <2>1 DEF Content
  <2> QED BY <2>1, <2>2, RowSeesThePast DEF Sound
<1> QED BY <1>1, PublishedHolds, ExportInvariant, PTL

(* What the audit calculates for a bet that was sold is what the same bet   *)
(* was paid when it won, whatever the account holds.                        *)
THEOREM HoldsMatchWins == Spec => []HoldMatchesWins
<1>1. ExportInv /\ Published => HoldMatchesWins
  <2> SUFFICES ASSUME ExportInv, Published, NEW f \in Formats, NEW g \in Formats,
                      files[<<"audit", f>>].of = files[<<"coupons", g>>].of,
                      files[<<"coupons", g>>].of # 0,
                      NEW c \in files[<<"coupons", g>>].rows.records,
                      NEW w \in files[<<"coupons", g>>].rows.records,
                      NEW h \in files[<<"audit", f>>].rows,
                      h.id = c.id, h.status = "derived", h.won,
                      w \in CashWins(files[<<"coupons", g>>].rows.records),
                      w.cash = c.cash, w.odds = c.odds
               PROVE  h.return = w.won
    BY DEF HoldMatchesWins
  <2> DEFINE a == <<"audit", f>>
             k == <<"coupons", g>>
  <2>1. PICK coupons, failures : /\ Sound(coupons)
                                 /\ files[a].rows = Content(a, coupons, failures)
                                 /\ files[k].rows = Content(k, coupons, failures)
    <3>1. a \in FileNames /\ k \in FileNames /\ files[a].of = files[k].of /\ files[k].of # 0
      BY NamesOfFiles
    <3> HIDE DEF a, k
    <3> QED BY <3>1, OfOneRun
  <2>2. files[a].rows = Audit(coupons) /\ files[k].rows.records = coupons
    BY <2>1 DEF Content
  <2>3. LegsMatch(coupons) /\ PayoutsVerified(coupons) /\ c \in coupons /\ w \in CashWins(coupons)
    BY <2>1, <2>2 DEF Sound, AreRecords
  <2>4. PICK b \in SoldForCash(coupons) : h = Held(b)
    BY <2>2 DEF Audit
  <2>5. Held(b).id = b.id
    BY DEF Held
  <2>6. b = c
    BY <2>3, <2>4, <2>5 DEF LegsMatch, SoldForCash
  <2>7. Held(b).return = IF HoldWon(b) THEN Payout(b.cash, b.odds) ELSE 0
    BY <2>4 DEF Held
  <2>8. Held(b).won = HoldWon(b)
    BY <2>4 DEF Held
  <2>9. w.won = Payout(w.cash, w.odds)
    BY <2>3 DEF PayoutsVerified
  <2> QED BY <2>4, <2>6, <2>7, <2>8, <2>9
<1> QED BY <1>1, PublishedHolds, ExportInvariant, PTL
=============================================================================
