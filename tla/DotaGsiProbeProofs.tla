------------------------- MODULE DotaGsiProbeProofs -------------------------
(***************************************************************************)
(* Proofs about the payload capture for any number of captures, payloads   *)
(* and restarts on one directory.                                          *)
(***************************************************************************)
EXTENDS DotaGsiProbe, FiniteSetTheorems, TLAPS

Holding == {"stage", "link", "audit", "record", "reply"}
Linked == {"audit", "record"}

(* What a capture knows of the directory: its records are the files of the *)
(* first numbers, and after the link also the payload of its request is.   *)
Knows(c) ==
  /\ \A n \in DOMAIN c.records : n \in Numbers /\ files[n] = c.records[n]
  /\ c.pc \in Holding => c.payload \in Contents
  /\ c.pc \in Holding \ {"reply"} => c.accepted < MaxPayloads
  /\ c.pc \in Linked \cup {"link"} => Len(c.records) + 1 \in Numbers
  /\ c.pc \in Linked => files[Len(c.records) + 1] = c.payload
  /\ c.pc = "reply" => /\ Len(c.records) \in DOMAIN c.records
                       /\ c.records[Len(c.records)] = c.payload

(* A capture that has the directory for itself knows all of it, and is the *)
(* only one that may be behind with the audit.                             *)
Known(c) == Len(c.records) + IF c.pc \in Linked THEN 1 ELSE 0
KnowsAll(c) ==
  /\ Stored = 1 .. Known(c)
  /\ c.pc \notin {"validated", "audit"} => Len(audit) = Known(c)

Audited(a) == a[1] \in DOMAIN audit /\ audit[a[1]] = a[2]

SoleInv ==
  ~shared => /\ \A p, q \in Up : p = q
             /\ \A p \in Up : KnowsAll(capture[p])
             /\ \A a \in acked : Audited(a)

ProbeInv ==
  /\ ProbeTypeOK /\ Gapless /\ AuditIsTruthful
  /\ \A p \in Captures : Knows(capture[p])
  /\ SoleInv

-----------------------------------------------------------------------------
LEMMA DownIsCapture ==
  ASSUME NEW exit \in Exits
  PROVE  /\ DownCapture \in Capture /\ DownCapture.pc = "down" /\ DownCapture.records = <<>>
         /\ Exited(exit) \in Capture /\ Exited(exit).pc = "down" /\ Exited(exit).records = <<>>
<1>1. <<>> \in Seq(Contents) /\ 0 \in 0 .. MaxPayloads /\ "none" \in Exits /\ "down" \in CapturePCs
  BY MaxPayloadsIsPositive DEF Exits, CapturePCs
<1>2. DownCapture \in Capture
  BY <1>1 DEF DownCapture, Capture
<1>3. Exited(exit) \in Capture
  BY <1>1 DEF DownCapture, Exited, Capture
<1> QED BY <1>2, <1>3 DEF DownCapture, Exited

(* Files that are stored are the numbers up to how many there are.         *)
LEMMA StoredIsInterval ==
  ASSUME Gapless
  PROVE  /\ Cardinality(Stored) \in Nat
         /\ Stored = 1 .. Cardinality(Stored)
<1> DEFINE k == Cardinality(Stored)
<1>1. IsFiniteSet(Numbers) /\ Stored \subseteq Numbers
  BY FS_Interval, MaxNumberIsNatural DEF Numbers, Stored
<1>2. IsFiniteSet(Stored) /\ k \in Nat
  BY <1>1, FS_Subset, FS_CardinalityType
<1>3. Stored \subseteq 1 .. k
  <2> SUFFICES ASSUME NEW n \in Stored PROVE n \in 1 .. k
    OBVIOUS
  <2>1. n \in Nat \ {0} /\ 1 .. n \subseteq Stored
    BY MaxNumberIsNatural DEF Gapless, Stored, Numbers
  <2>2. Cardinality(1 .. n) = n
    BY <2>1, FS_Interval
  <2>3. Cardinality(1 .. n) <= k
    BY <2>1, <1>2, FS_Subset
  <2> QED BY <1>2, <2>1, <2>2, <2>3
<1>4. IsFiniteSet(1 .. k) /\ Cardinality(1 .. k) = k
  BY <1>2, FS_Interval
<1>5. Stored = 1 .. k
  BY <1>2, <1>3, <1>4, FS_Subset
<1> QED BY <1>2, <1>5

(* Two captures that are up are two.                                       *)
LEMMA TwoAreUp ==
  ASSUME NEW S \in SUBSET Captures, ~(Cardinality(S) > 1)
  PROVE  \A p, q \in S : p = q
<1> SUFFICES ASSUME NEW p \in S, NEW q \in S, p # q PROVE FALSE
  OBVIOUS
<1>1. IsFiniteSet(S) /\ Cardinality(S) \in Nat
  BY CapturesAreFinite, FS_Subset, FS_CardinalityType
<1>2. IsFiniteSet({p}) /\ Cardinality({p}) = 1
  BY FS_Singleton
<1>3. Cardinality({p} \cup {q}) = 2
  BY <1>2, FS_AddElement
<1>4. {p} \cup {q} \in SUBSET S
  OBVIOUS
<1>5. Cardinality({p} \cup {q}) <= Cardinality(S)
  BY <1>1, <1>4, FS_Subset
<1> QED BY <1>1, <1>3, <1>5

-----------------------------------------------------------------------------
LEMMA InitHolds == ProbeInit => ProbeInv
<1> SUFFICES ASSUME ProbeInit PROVE ProbeInv
  OBVIOUS
<1>1. \A p \in Captures : capture[p] = DownCapture
  BY DEF ProbeInit
<1>2. DownCapture \in Capture /\ DownCapture.pc = "down" /\ DownCapture.records = <<>>
  BY DownIsCapture DEF Exits
<1>3. ProbeTypeOK
  <2>1. <<>> \in Seq(Contents)
    OBVIOUS
  <2> QED BY <1>2, <2>1 DEF ProbeInit, ProbeTypeOK
<1>4. Gapless /\ AuditIsTruthful
  BY DEF ProbeInit, Gapless, Stored, AuditIsTruthful
<1>5. \A p \in Captures : Knows(capture[p])
  BY <1>1, <1>2 DEF Knows, Holding, Linked
<1>6. SoleInv
  BY <1>1, <1>2 DEF SoleInv, Up, ProbeInit
<1> QED BY <1>3, <1>4, <1>5, <1>6 DEF ProbeInv

(* No step changes a file that is stored.                                  *)
FilesGrow ==
  /\ files' \in [Numbers -> Contents \cup {NoFile}]
  /\ \A n \in Numbers : files[n] # NoFile => files'[n] = files[n]

(* What a step of one capture leaves alone: what the others know, and the  *)
(* audit as far as it was true.                                            *)
LEMMA OthersKnow ==
  ASSUME ProbeInv, NEW p \in Captures, NEW c \in Capture, FilesGrow,
         capture' = [capture EXCEPT ![p] = c], Knows(c)'
  PROVE  /\ capture' \in [Captures -> Capture]
         /\ \A q \in Captures : Knows(capture[q])'
<1>1. capture' \in [Captures -> Capture]
  BY DEF ProbeInv, ProbeTypeOK
<1>2. ASSUME NEW q \in Captures, q # p PROVE Knows(capture[q])'
  <2>1. capture'[q] = capture[q] /\ capture[q] \in Capture /\ Knows(capture[q])
    BY <1>2 DEF ProbeInv, ProbeTypeOK
  <2>2. \A n \in Numbers : files[n] \in Contents => files'[n] = files[n]
    BY NoFileIsNoContent DEF FilesGrow
  <2>3. capture[q].records \in Seq(Contents)
    BY <2>1 DEF Capture
  <2>4. \A n \in DOMAIN capture[q].records : capture[q].records[n] \in Contents
    BY <2>3
  <2> QED BY <2>1, <2>2, <2>4 DEF Knows, Holding, Linked
<1>3. capture'[p] = c
  BY DEF ProbeInv, ProbeTypeOK
<1> QED BY <1>1, <1>2, <1>3

(* A step of a capture that has the directory for itself.                  *)
LEMMA SoleKnows ==
  ASSUME ProbeInv, NEW p \in Captures, NEW c \in Capture,
         capture' = [capture EXCEPT ![p] = c],
         shared' = (shared \/ Cardinality(Up') > 1),
         capture[p].pc # "down" \/ c.pc # "down",
         (~shared /\ Up \subseteq {p}) =>
            /\ c.pc # "down" => KnowsAll(c)'
            /\ \A a \in acked' : Audited(a)'
  PROVE  SoleInv' /\ shared' \in BOOLEAN
<1>1. shared' \in BOOLEAN
  BY DEF ProbeInv, ProbeTypeOK
<1>2. ASSUME ~shared' PROVE SoleInv'
  <2>1. ~shared /\ ~(Cardinality(Up') > 1)
    BY <1>2
  <2>2. Up' \in SUBSET Captures
    BY DEF Up
  <2>3. \A q, r \in Up' : q = r
    BY <2>1, <2>2, TwoAreUp
  <2>4. \A q \in Captures : q # p => capture'[q] = capture[q]
    BY DEF ProbeInv, ProbeTypeOK
  <2>5. capture'[p] = c
    BY DEF ProbeInv, ProbeTypeOK
  <2>6. Up \subseteq {p}
    <3> SUFFICES ASSUME NEW q \in Up, q # p PROVE FALSE
      OBVIOUS
    <3>1. CASE capture[p].pc # "down"
      BY <3>1, <2>1 DEF ProbeInv, SoleInv, Up
    <3>2. CASE c.pc # "down"
      BY <3>2, <2>3, <2>4, <2>5 DEF Up
    <3> QED BY <3>1, <3>2
  <2>7. Up' \subseteq {p}
    BY <2>4, <2>6 DEF Up
  <2> QED BY <2>1, <2>3, <2>5, <2>6, <2>7 DEF SoleInv, Up
<1> QED BY <1>1, <1>2 DEF SoleInv

(* Steps that touch neither the files nor the audit.                       *)
LEMMA QuietKeeps ==
  ASSUME ProbeInv, NEW p \in Captures, NEW c \in Capture,
         capture' = [capture EXCEPT ![p] = c],
         shared' = (shared \/ Cardinality(Up') > 1),
         UNCHANGED <<files, audit>>, orphan' \in BOOLEAN, acked' \subseteq Numbers \X Contents,
         capture[p].pc # "down" \/ c.pc # "down",
         Knows(c),
         (~shared /\ Up \subseteq {p} /\ c.pc # "down") => KnowsAll(c),
         ~shared => \A a \in acked' : Audited(a)
  PROVE  ProbeInv'
<1>1. FilesGrow
  BY DEF FilesGrow, ProbeInv, ProbeTypeOK
<1>2. Knows(c)'
  BY DEF Knows
<1>3. KnowsAll(c) => KnowsAll(c)'
  BY DEF KnowsAll, Stored, Known
<1>4. \A a : Audited(a) => Audited(a)'
  BY DEF Audited
<1>5. SoleInv' /\ shared' \in BOOLEAN
  BY <1>3, <1>4, SoleKnows
<1>6. /\ capture' \in [Captures -> Capture]
      /\ \A q \in Captures : Knows(capture[q])'
  BY <1>1, <1>2, OthersKnow
<1>7. ProbeTypeOK'
  BY <1>5, <1>6 DEF ProbeInv, ProbeTypeOK
<1>8. Gapless' /\ AuditIsTruthful'
  BY DEF ProbeInv, Gapless, Stored, AuditIsTruthful
<1> QED BY <1>5, <1>6, <1>7, <1>8 DEF ProbeInv

-----------------------------------------------------------------------------
SharedNow == shared' = (shared \/ Cardinality(Up') > 1)

(* The parts of the invariant that a step of capture p uses.               *)
LEMMA StepKnows ==
  ASSUME ProbeInv, NEW p \in Captures
  PROVE  /\ capture[p] \in Capture /\ Knows(capture[p])
         /\ Len(capture[p].records) \in Nat
         /\ DOMAIN capture[p].records = 1 .. Len(capture[p].records)
         /\ orphan \in BOOLEAN /\ acked \subseteq Numbers \X Contents
         /\ ~shared => \A a \in acked : Audited(a)
         /\ ~shared /\ capture[p].pc # "down" => KnowsAll(capture[p])
<1>1. capture[p] \in Capture /\ Knows(capture[p])
  BY DEF ProbeInv, ProbeTypeOK
<1>2. capture[p].records \in Seq(Contents)
  BY <1>1 DEF Capture
<1>3. ~shared /\ capture[p].pc # "down" => KnowsAll(capture[p])
  BY DEF ProbeInv, SoleInv, Up
<1> QED BY <1>1, <1>2, <1>3 DEF ProbeInv, ProbeTypeOK, SoleInv

LEMMA EndsKeep ==
  ASSUME ProbeInv, NEW p \in Captures, FileOperationFails(p) \/ Finish(p) \/ Crash(p), SharedNow
  PROVE  ProbeInv'
<1>1. PICK exit \in Exits :
        capture' = [capture EXCEPT ![p] = Exited(exit)] \/ capture' = [capture EXCEPT ![p] = DownCapture]
  BY DEF FileOperationFails, Finish, Crash, Exits
<1>2. PICK c \in {Exited(exit), DownCapture} : capture' = [capture EXCEPT ![p] = c]
  BY <1>1
<1>3. c \in Capture /\ c.pc = "down" /\ c.records = <<>>
  BY DownIsCapture
<1>4. Knows(c)
  BY <1>3 DEF Knows, Holding, Linked
<1>5. /\ capture[p].pc # "down" /\ UNCHANGED <<files, audit, acked>> /\ orphan' \in BOOLEAN
  BY StepKnows DEF FileOperationFails, Finish, Crash, Capture
<1> QED BY <1>2, <1>3, <1>4, <1>5, StepKnows, QuietKeeps DEF SharedNow

LEMMA StartKeeps ==
  ASSUME ProbeInv, NEW p \in Captures, Start(p), SharedNow
  PROVE  ProbeInv'
<1> DEFINE k == Cardinality(Stored)
           fresh == [DownCapture EXCEPT !.pc = "validated", !.records = [n \in 1 .. k |-> files[n]]]
<1>1. capture[p].pc = "down" /\ UNCHANGED <<files, orphan, audit, acked>>
  BY DEF Start
<1>2. k \in Nat /\ Stored = 1 .. k
  BY StoredIsInterval DEF ProbeInv
<1>3. CASE Staged \/ ~Gapless
  <2>1. "existing_payloads_invalid" \in Exits
    BY DEF Exits
  <2> DEFINE c == Exited("existing_payloads_invalid")
  <2>2. c \in Capture /\ c.pc = "down" /\ c.records = <<>>
    BY <2>1, DownIsCapture
  <2>3. capture' = [capture EXCEPT ![p] = c]
    BY <1>3 DEF Start
  <2> HIDE DEF c
  <2>4. capture' = capture \/ capture[p] # c
    BY <2>3 DEF ProbeInv, ProbeTypeOK
  <2>5. \A q \in Captures : capture'[q] = IF q = p THEN c ELSE capture[q]
    BY <2>3 DEF ProbeInv, ProbeTypeOK
  <2>6. Up' = Up
    BY <1>1, <2>2, <2>5 DEF Up
  <2>7. FilesGrow /\ Knows(c)'
    BY <1>1, <2>2 DEF FilesGrow, ProbeInv, ProbeTypeOK, Knows, Holding, Linked
  <2>8. capture' \in [Captures -> Capture] /\ \A q \in Captures : Knows(capture[q])'
    BY <2>2, <2>3, <2>7, OthersKnow
  <2>9. shared' \in BOOLEAN
    BY DEF SharedNow, ProbeInv, ProbeTypeOK
  <2>10. ProbeTypeOK' /\ Gapless' /\ AuditIsTruthful'
    BY <1>1, <2>8, <2>9 DEF ProbeInv, ProbeTypeOK, Gapless, Stored, AuditIsTruthful
  <2>11. SoleInv'
    <3>1. \A q \in Up : capture'[q] = capture[q]
      BY <1>1, <2>5 DEF Up
    <3> QED BY <1>1, <2>6, <3>1 DEF SharedNow, ProbeInv, SoleInv, KnowsAll, Known, Stored, Audited
  <2> QED BY <2>8, <2>10, <2>11 DEF ProbeInv
<1>4. CASE ~(Staged \/ ~Gapless)
  <2>1. capture' = [capture EXCEPT ![p] = fresh]
    BY <1>4 DEF Start
  <2>2. DownCapture \in Capture
    BY DownIsCapture DEF Exits
  <2>3. \A n \in 1 .. k : n \in Numbers /\ files[n] \in Contents
    BY <1>2 DEF Stored, ProbeInv, ProbeTypeOK
  <2>4. [n \in 1 .. k |-> files[n]] \in Seq(Contents) /\ Len([n \in 1 .. k |-> files[n]]) = k
    BY <1>2, <2>3
  <2>5. fresh \in Capture /\ fresh.pc = "validated" /\ fresh.records = [n \in 1 .. k |-> files[n]]
    BY <2>2, <2>4 DEF Capture, CapturePCs
  <2> HIDE DEF fresh
  <2>6. Knows(fresh)
    BY <2>3, <2>5 DEF Knows, Holding, Linked
  <2>7. KnowsAll(fresh)
    BY <1>2, <2>4, <2>5 DEF KnowsAll, Known, Linked
  <2> QED BY <1>1, <2>1, <2>5, <2>6, <2>7, StepKnows, QuietKeeps DEF SharedNow
<1> QED BY <1>3, <1>4

LEMMA ReceiveKeeps ==
  ASSUME ProbeInv, NEW p \in Captures, NEW content \in Contents, Receive(p, content), SharedNow
  PROVE  ProbeInv'
<1> DEFINE c == [capture[p] EXCEPT !.pc = "stage", !.payload = content]
<1>1. /\ capture[p].pc = "serve" /\ capture[p].accepted < MaxPayloads
      /\ capture' = [capture EXCEPT ![p] = c] /\ UNCHANGED <<files, orphan, audit, acked>>
  BY DEF Receive
<1>2. /\ c \in Capture /\ c.pc = "stage" /\ c.payload = content
      /\ c.records = capture[p].records /\ c.accepted = capture[p].accepted
  BY StepKnows DEF Capture, CapturePCs
<1> HIDE DEF c
<1>3. Knows(c)
  BY <1>1, <1>2, StepKnows DEF Knows, Holding, Linked
<1>4. KnowsAll(capture[p]) => KnowsAll(c)
  BY <1>1, <1>2 DEF KnowsAll, Known, Linked
<1> QED BY <1>1, <1>2, <1>3, <1>4, StepKnows, QuietKeeps DEF SharedNow

LEMMA StageKeeps ==
  ASSUME ProbeInv, NEW p \in Captures, StagePayload(p), SharedNow
  PROVE  ProbeInv'
<1> DEFINE c == [capture[p] EXCEPT !.pc = "link", !.staged = TRUE]
           out == Exited("persistence_failed")
<1>1. /\ capture[p].pc = "stage" /\ UNCHANGED <<files, orphan, audit, acked>>
      /\ capture' = [capture EXCEPT ![p] = c] \/ capture' = [capture EXCEPT ![p] = out]
  BY DEF StagePayload
<1>2. /\ c \in Capture /\ c.pc = "link" /\ c.payload = capture[p].payload
      /\ c.records = capture[p].records /\ c.accepted = capture[p].accepted
  BY StepKnows DEF Capture, CapturePCs
<1>3. out \in Capture /\ out.pc = "down" /\ out.records = <<>>
  BY DownIsCapture DEF Exits
<1> HIDE DEF c, out
<1>4. Knows(c) \/ capture' # [capture EXCEPT ![p] = c]
  <2>1. CASE NextNumber(p) \in Numbers
    BY <1>1, <1>2, <2>1, StepKnows DEF Knows, Holding, Linked, NextNumber
  <2> QED BY <2>1 DEF StagePayload
<1>9. Knows(out)
  BY <1>3 DEF Knows, Holding, Linked
<1>5. KnowsAll(capture[p]) => KnowsAll(c)
  BY <1>1, <1>2 DEF KnowsAll, Known, Linked
<1>6. CASE capture' = [capture EXCEPT ![p] = c]
  BY <1>1, <1>2, <1>4, <1>5, <1>6, StepKnows, QuietKeeps DEF SharedNow
<1>7. CASE capture' = [capture EXCEPT ![p] = out]
  BY <1>1, <1>3, <1>9, <1>7, StepKnows, QuietKeeps DEF SharedNow
<1> QED BY <1>1, <1>6, <1>7

LEMMA RecordKeeps ==
  ASSUME ProbeInv, NEW p \in Captures, Record(p), SharedNow
  PROVE  ProbeInv'
<1> DEFINE d == capture[p]
           c == [d EXCEPT !.pc = "reply", !.accepted = @ + 1, !.records = Append(@, d.payload)]
<1>1. /\ d.pc = "record" /\ capture' = [capture EXCEPT ![p] = c]
      /\ UNCHANGED <<files, orphan, audit, acked>>
  BY DEF Record
<1>2. /\ d \in Capture /\ d.payload \in Contents /\ d.accepted < MaxPayloads
      /\ d.records \in Seq(Contents) /\ d.accepted \in 0 .. MaxPayloads
  BY <1>1, StepKnows DEF Capture, Knows, Holding
<1>3. Append(d.records, d.payload) \in Seq(Contents) /\ d.accepted + 1 \in 0 .. MaxPayloads
  BY <1>2, MaxPayloadsIsPositive
<1>4. /\ c \in Capture /\ c.pc = "reply" /\ c.payload = d.payload
      /\ c.records = Append(d.records, d.payload)
  BY <1>2, <1>3 DEF Capture, CapturePCs
<1> HIDE DEF c
<1>5. /\ Len(c.records) = Len(d.records) + 1 /\ DOMAIN c.records = 1 .. Len(d.records) + 1
      /\ \A n \in 1 .. Len(d.records) : c.records[n] = d.records[n]
      /\ c.records[Len(d.records) + 1] = d.payload
  BY <1>2, <1>4
<1>6. Knows(d) /\ Len(d.records) \in Nat /\ DOMAIN d.records = 1 .. Len(d.records)
  BY StepKnows
<1>7. Knows(c)
  BY <1>1, <1>2, <1>4, <1>5, <1>6 DEF Knows, Holding, Linked
<1>8. KnowsAll(d) => KnowsAll(c)
  BY <1>1, <1>4, <1>5, <1>6 DEF KnowsAll, Known, Linked
<1> QED BY <1>1, <1>4, <1>7, <1>8, StepKnows, QuietKeeps DEF SharedNow

LEMMA ReplyKeeps ==
  ASSUME ProbeInv, NEW p \in Captures, Reply(p), SharedNow
  PROVE  ProbeInv'
<1> DEFINE d == capture[p]
           a == <<Len(d.records), d.payload>>
           c == [d EXCEPT !.pc = "serve", !.payload = NoFile]
<1>1. /\ d.pc = "reply" /\ capture' = [capture EXCEPT ![p] = c]
      /\ acked' \subseteq acked \cup {a} /\ UNCHANGED <<files, orphan, audit>>
  BY DEF Reply
<1>2. /\ c \in Capture /\ c.pc = "serve" /\ c.records = d.records
  BY StepKnows DEF Capture, CapturePCs
<1> HIDE DEF c
<1>3. /\ d.payload \in Contents /\ Len(d.records) \in Numbers
      /\ files[Len(d.records)] = d.payload
  BY <1>1, StepKnows DEF Knows, Holding
<1>4. Knows(c)
  BY <1>2, StepKnows DEF Knows, Holding, Linked
<1>5. KnowsAll(d) => KnowsAll(c)
  BY <1>1, <1>2 DEF KnowsAll, Known, Linked
<1>6. acked' \subseteq Numbers \X Contents
  BY <1>1, <1>3, StepKnows
<1>7. ~shared => Audited(a)
  <2> SUFFICES ASSUME ~shared PROVE Audited(a)
    OBVIOUS
  <2>1. Len(audit) = Len(d.records)
    <3>1. KnowsAll(d) /\ Len(d.records) \in Nat
      BY <1>1, StepKnows
    <3> QED BY <1>1, <3>1 DEF KnowsAll, Known, Linked
  <2>2. DOMAIN audit = 1 .. Len(audit)
    BY DEF ProbeInv, ProbeTypeOK
  <2>3. Len(d.records) \in DOMAIN audit
    BY <1>3, <2>1, <2>2, StepKnows DEF Numbers
  <2> QED BY <1>3, <2>3 DEF Audited, ProbeInv, AuditIsTruthful
<1>8. ~shared => \A x \in acked' : Audited(x)
  BY <1>1, <1>7, StepKnows
<1> QED BY <1>1, <1>2, <1>4, <1>5, <1>6, <1>8, StepKnows, QuietKeeps DEF SharedNow

(* The three steps that write: the audit of all files, a file of the next  *)
(* number, and the audit with it.                                          *)
LEMMA RebuildKeeps ==
  ASSUME ProbeInv, NEW p \in Captures, RebuildAudit(p), SharedNow
  PROVE  ProbeInv'
<1>10. PICK c : c = [capture[p] EXCEPT !.pc = "serve"]
  OBVIOUS
<1>11. PICK d : d = capture[p]
  OBVIOUS
<1>1. /\ d.pc = "validated" /\ audit' = d.records
      /\ capture' = [capture EXCEPT ![p] = c] /\ UNCHANGED <<files, orphan, acked>>
  BY <1>10, <1>11 DEF RebuildAudit
<1>2. /\ c \in Capture /\ c.pc = "serve" /\ c.records = d.records /\ d.records \in Seq(Contents)
  BY <1>10, <1>11, StepKnows DEF Capture, CapturePCs
<1>12. /\ Knows(d) /\ Len(d.records) \in Nat /\ DOMAIN d.records = 1 .. Len(d.records)
       /\ ~shared => KnowsAll(d)
  BY <1>1, <1>11, StepKnows
<1>3. FilesGrow /\ Knows(c)'
  BY <1>1, <1>2, <1>12 DEF FilesGrow, ProbeInv, ProbeTypeOK, Knows, Holding, Linked
<1>4. AuditIsTruthful'
  BY <1>1, <1>12 DEF Knows, AuditIsTruthful
<1>5. ASSUME ~shared PROVE KnowsAll(c)' /\ \A a \in acked' : Audited(a)'
  <2>1. Stored = 1 .. Len(d.records) /\ Stored' = Stored
    BY <1>1, <1>5, <1>12 DEF KnowsAll, Known, Linked, Stored
  <2>2. KnowsAll(c)'
    BY <1>1, <1>2, <1>12, <2>1 DEF KnowsAll, Known, Linked
  <2>3. ASSUME NEW a \in acked PROVE Audited(a)'
    <3>1. a[1] \in DOMAIN audit /\ audit[a[1]] = a[2] /\ a \in Numbers \X Contents
      BY <1>5, StepKnows DEF Audited
    <3>2. a[1] \in Numbers /\ files[a[1]] = a[2] /\ a[2] # NoFile
      BY <3>1, NoFileIsNoContent DEF ProbeInv, AuditIsTruthful
    <3>3. a[1] \in DOMAIN d.records
      BY <1>12, <2>1, <3>2 DEF Stored
    <3> QED BY <1>1, <1>12, <3>2, <3>3 DEF Knows, Audited
  <2> QED BY <1>1, <2>2, <2>3
<1>6. SoleInv' /\ shared' \in BOOLEAN
  BY <1>1, <1>2, <1>5, <1>11, SoleKnows DEF SharedNow
<1>7. capture' \in [Captures -> Capture] /\ \A q \in Captures : Knows(capture[q])'
  BY <1>1, <1>2, <1>3, OthersKnow
<1>8. ProbeTypeOK' /\ Gapless'
  BY <1>1, <1>2, <1>6, <1>7 DEF ProbeInv, ProbeTypeOK, Gapless, Stored
<1> QED BY <1>4, <1>6, <1>7, <1>8 DEF ProbeInv

LEMMA LinkKeeps ==
  ASSUME ProbeInv, NEW p \in Captures, LinkPayload(p), SharedNow
  PROVE  ProbeInv'
<1>10. PICK d : d = capture[p]
  OBVIOUS
<1>11. PICK c : c = [capture[p] EXCEPT !.pc = "audit", !.staged = FALSE]
  OBVIOUS
<1> DEFINE n == Len(d.records) + 1
           out == Exited("persistence_failed")
<1>12. /\ d \in Capture /\ Knows(d)
       /\ Len(d.records) \in Nat /\ DOMAIN d.records = 1 .. Len(d.records)
       /\ ~shared /\ d.pc # "down" => KnowsAll(d)
  BY <1>10, StepKnows
<1>1. /\ d.pc = "link" /\ orphan' \in {orphan, TRUE} /\ UNCHANGED <<audit, acked>>
  BY <1>10 DEF LinkPayload
<1>2. /\ c \in Capture /\ c.pc = "audit" /\ c.payload = d.payload
      /\ c.records = d.records /\ c.accepted = d.accepted
  BY <1>10, <1>11, StepKnows DEF Capture, CapturePCs
<1>3. out \in Capture /\ out.pc = "down" /\ out.records = <<>>
  BY DownIsCapture DEF Exits
<1>4. CASE files[n] # NoFile
  <2>1. CASE /\ files' = files /\ capture' = [capture EXCEPT ![p] = out]
    <3> HIDE DEF out
    <3>1. Knows(out)
      BY <1>3 DEF Knows, Holding, Linked
    <3>2. orphan' \in BOOLEAN
      BY <1>1, StepKnows
    <3> QED BY <1>1, <1>3, <1>10, <2>1, <3>1, <3>2, StepKnows, QuietKeeps DEF SharedNow
  <2> QED BY <1>4, <1>10, <2>1 DEF LinkPayload, NextNumber
<1>5. CASE files[n] = NoFile
  <2>1. files' = [files EXCEPT ![n] = d.payload] /\ capture' = [capture EXCEPT ![p] = c]
    BY <1>5, <1>10, <1>11 DEF LinkPayload, NextNumber
  <2> HIDE DEF out
  <2>2. /\ n \in Numbers /\ d.payload \in Contents /\ d.accepted < MaxPayloads
        /\ files \in [Numbers -> Contents \cup {NoFile}]
    BY <1>1, <1>12 DEF Knows, Holding, ProbeInv, ProbeTypeOK
  <2>3. FilesGrow /\ files'[n] = d.payload /\ Stored' = Stored \cup {n}
    BY <1>5, <2>1, <2>2, NoFileIsNoContent DEF FilesGrow, Stored
  <2>4. \A i \in DOMAIN d.records : i \in Numbers /\ files[i] = d.records[i] /\ files[i] # NoFile
    <3>1. d.records \in Seq(Contents)
      BY <1>12 DEF Capture
    <3> QED BY <3>1, <1>12, NoFileIsNoContent DEF Knows
  <2>5. Knows(c)'
    BY <1>2, <2>2, <2>3, <2>4 DEF Knows, Holding, Linked, FilesGrow
  <2>6. 1 .. Len(d.records) \subseteq Stored
    BY <2>4, <1>12 DEF Stored
  <2>7. Gapless'
    <3>1. 1 .. n \subseteq Stored'
      BY <2>3, <2>6, <1>12
    <3>2. \A i \in Stored : 1 .. i \subseteq Stored'
      BY <2>3 DEF ProbeInv, Gapless
    <3> QED BY <2>3, <3>1, <3>2 DEF Gapless
  <2>8. AuditIsTruthful'
    <3>1. \A i \in DOMAIN audit : i \in Numbers /\ files[i] = audit[i] /\ audit[i] \in Contents
      BY DEF ProbeInv, ProbeTypeOK, AuditIsTruthful
    <3> QED BY <1>1, <2>3, <3>1, NoFileIsNoContent DEF AuditIsTruthful, FilesGrow
  <2>9. ~shared => KnowsAll(c)' /\ \A a \in acked' : Audited(a)'
    <3> SUFFICES ASSUME ~shared PROVE KnowsAll(c)' /\ \A a \in acked' : Audited(a)'
      OBVIOUS
    <3>1. Stored = 1 .. Len(d.records)
      BY <1>1, <1>12 DEF KnowsAll, Known, Linked
    <3>2. Stored' = 1 .. n
      BY <2>3, <3>1, <1>12
    <3>3. \A a \in acked : Audited(a)
      BY StepKnows
    <3> QED BY <1>1, <1>2, <1>12, <3>2, <3>3 DEF KnowsAll, Known, Linked, Audited
  <2>10. SoleInv' /\ shared' \in BOOLEAN
    BY <1>1, <1>2, <1>10, <2>1, <2>9, SoleKnows DEF SharedNow
  <2>11. capture' \in [Captures -> Capture] /\ \A q \in Captures : Knows(capture[q])'
    BY <1>2, <2>1, <2>3, <2>5, OthersKnow
  <2>12. ProbeTypeOK'
    BY <1>1, <2>3, <2>10, <2>11 DEF ProbeInv, ProbeTypeOK, FilesGrow
  <2> QED BY <2>7, <2>8, <2>10, <2>11, <2>12 DEF ProbeInv
<1> QED BY <1>4, <1>5

LEMMA WriteKeeps ==
  ASSUME ProbeInv, NEW p \in Captures, WriteAudit(p), SharedNow
  PROVE  ProbeInv'
<1>1. PICK d : d = capture[p]
  OBVIOUS
<1>2. PICK c : c = [d EXCEPT !.pc = "record"]
  OBVIOUS
<1> DEFINE n == Len(d.records) + 1
<1>3. /\ d.pc = "audit" /\ audit' = Append(d.records, d.payload)
      /\ capture' = [capture EXCEPT ![p] = c] /\ UNCHANGED <<files, orphan, acked>>
  BY <1>1, <1>2 DEF WriteAudit
<1>4. /\ d \in Capture /\ Knows(d)
      /\ Len(d.records) \in Nat /\ DOMAIN d.records = 1 .. Len(d.records)
      /\ ~shared => KnowsAll(d)
  BY <1>1, <1>3, StepKnows
<1>5. /\ c \in Capture /\ c.pc = "record" /\ c.payload = d.payload
      /\ c.records = d.records /\ c.accepted = d.accepted
  BY <1>2, <1>4 DEF Capture, CapturePCs
<1>6. d.records \in Seq(Contents) /\ d.payload \in Contents
  BY <1>3, <1>4 DEF Capture, Knows, Holding
<1>7. /\ audit' \in Seq(Contents) /\ Len(audit') = n /\ DOMAIN audit' = 1 .. n
      /\ \A i \in 1 .. n : audit'[i] = IF i = n THEN d.payload ELSE d.records[i]
  BY <1>3, <1>4, <1>6
<1>8. FilesGrow /\ Knows(c)'
  BY <1>3, <1>4, <1>5 DEF FilesGrow, ProbeInv, ProbeTypeOK, Knows, Holding, Linked
<1>9. AuditIsTruthful'
  <2> SUFFICES ASSUME NEW i \in 1 .. n PROVE i \in Numbers /\ files[i] = audit'[i]
    BY <1>3, <1>7 DEF AuditIsTruthful
  <2>1. CASE i = n
    BY <1>3, <1>4, <1>7, <2>1 DEF Knows, Linked
  <2>2. CASE i # n
    BY <1>4, <1>7, <2>2 DEF Knows
  <2> QED BY <2>1, <2>2
<1>10. ASSUME ~shared PROVE KnowsAll(c)' /\ \A a \in acked' : Audited(a)'
  <2>1. Stored = 1 .. n /\ Stored' = Stored
    BY <1>3, <1>4, <1>10 DEF KnowsAll, Known, Linked, Stored
  <2>2. KnowsAll(c)'
    BY <1>4, <1>5, <1>7, <2>1 DEF KnowsAll, Known, Linked
  <2>3. ASSUME NEW a \in acked PROVE Audited(a)'
    <3>1. a[1] \in DOMAIN audit /\ audit[a[1]] = a[2] /\ a \in Numbers \X Contents
      BY <1>10, StepKnows DEF Audited
    <3>2. a[1] \in Numbers /\ files[a[1]] = a[2] /\ a[2] # NoFile
      BY <3>1, NoFileIsNoContent DEF ProbeInv, AuditIsTruthful
    <3>3. a[1] \in DOMAIN audit'
      BY <1>7, <2>1, <3>2 DEF Stored
    <3> QED BY <1>3, <1>9, <3>2, <3>3 DEF AuditIsTruthful, Audited
  <2> QED BY <1>3, <2>2, <2>3
<1>11. SoleInv' /\ shared' \in BOOLEAN
  BY <1>1, <1>3, <1>5, <1>10, SoleKnows DEF SharedNow
<1>12. capture' \in [Captures -> Capture] /\ \A q \in Captures : Knows(capture[q])'
  BY <1>3, <1>5, <1>8, OthersKnow
<1>13. ProbeTypeOK' /\ Gapless'
  BY <1>3, <1>7, <1>11, <1>12 DEF ProbeInv, ProbeTypeOK, Gapless, Stored
<1> QED BY <1>9, <1>11, <1>12, <1>13 DEF ProbeInv

LEMMA CleanUpKeeps ==
  ASSUME ProbeInv, CleanUp, SharedNow
  PROVE  ProbeInv'
<1>1. UNCHANGED <<files, audit, capture, acked>> /\ orphan' = FALSE
  BY DEF CleanUp
<1>2. ProbeTypeOK' /\ Gapless' /\ AuditIsTruthful'
  BY <1>1 DEF SharedNow, ProbeInv, ProbeTypeOK, Gapless, Stored, AuditIsTruthful
<1>3. \A p \in Captures : Knows(capture[p])'
  BY <1>1 DEF ProbeInv, Knows
<1>4. SoleInv'
  BY <1>1 DEF SharedNow, ProbeInv, SoleInv, Up, KnowsAll, Known, Stored, Audited
<1> QED BY <1>2, <1>3, <1>4 DEF ProbeInv

LEMMA NextKeeps == ProbeInv /\ [ProbeNext]_probeVars => ProbeInv'
<1> SUFFICES ASSUME ProbeInv, [ProbeNext]_probeVars PROVE ProbeInv'
  OBVIOUS
<1>1. CASE UNCHANGED probeVars
  <2>1. UNCHANGED <<files, orphan, audit, capture, acked, shared>>
    BY <1>1 DEF probeVars
  <2>2. ProbeTypeOK' /\ Gapless' /\ AuditIsTruthful'
    BY <2>1 DEF ProbeInv, ProbeTypeOK, Gapless, Stored, AuditIsTruthful
  <2>3. \A p \in Captures : Knows(capture[p])'
    BY <2>1 DEF ProbeInv, Knows
  <2>4. SoleInv'
    BY <2>1 DEF ProbeInv, SoleInv, Up, KnowsAll, Known, Stored, Audited
  <2> QED BY <2>2, <2>3, <2>4 DEF ProbeInv
<1>2. CASE ProbeNext
  <2>1. SharedNow
    BY <1>2 DEF ProbeNext, SharedNow
  <2>2. CASE CleanUp
    BY <2>1, <2>2, CleanUpKeeps
  <2>3. ASSUME NEW p \in Captures, ProbeStep(p) PROVE ProbeInv'
    BY <2>1, <2>3, StartKeeps, RebuildKeeps, ReceiveKeeps, StageKeeps, LinkKeeps, WriteKeeps,
       RecordKeeps, ReplyKeeps, EndsKeep DEF ProbeStep
  <2> QED BY <1>2, <2>2, <2>3 DEF ProbeNext
<1> QED BY <1>1, <1>2

(* The inductive invariant of the directory and of what captures know.     *)
THEOREM ProbeInvariant == ProbeSpec => []ProbeInv
  BY InitHolds, NextKeeps, PTL DEF ProbeSpec

(* For any number of captures on one directory, however they end: numbers  *)
(* stay gapless, the audit names only stored payloads, and a capture that  *)
(* has the directory for itself loses nothing that it acknowledged.        *)
THEOREM DirectoryIsSound == ProbeSpec => []DirectorySound
<1>1. ProbeInv => DirectorySound
  <2> SUFFICES ASSUME ProbeInv PROVE DirectorySound
    OBVIOUS
  <2>1. AckedIsAudited
    <3> SUFFICES ASSUME ~shared PROVE
            /\ \A a \in acked : Audited(a)
            /\ \A p \in Captures : capture[p].pc = "serve" => Len(audit) = Cardinality(Stored)
      BY DEF AckedIsAudited, Audited
    <3>1. ASSUME NEW p \in Captures, capture[p].pc = "serve"
          PROVE  Len(audit) = Cardinality(Stored)
      <4>1. KnowsAll(capture[p]) /\ Len(capture[p].records) \in Nat
        BY <3>1, StepKnows
      <4>2. Len(audit) = Len(capture[p].records) /\ Stored = 1 .. Len(capture[p].records)
        BY <3>1, <4>1 DEF KnowsAll, Known, Linked
      <4>3. Cardinality(1 .. Len(capture[p].records)) = Len(capture[p].records)
        BY <4>1, FS_Interval
      <4> QED BY <4>2, <4>3
    <3> QED BY <3>1 DEF ProbeInv, SoleInv
  <2> QED BY <2>1 DEF ProbeInv, DirectorySound, NumbersGapless
<1> QED BY <1>1, ProbeInvariant, PTL

(* No step replaces or removes a payload file, for any number of captures  *)
(* that compute the same next number.                                      *)
THEOREM PublishedPayloadsStay == ProbeSpec => NeverOverwritten
<1>1. ProbeInv /\ [ProbeNext]_probeVars => [\A n \in Stored : files'[n] = files[n]]_probeVars
  <2> SUFFICES ASSUME ProbeInv, ProbeNext PROVE \A n \in Stored : files'[n] = files[n]
    OBVIOUS
  <2>1. ASSUME UNCHANGED files PROVE \A n \in Stored : files'[n] = files[n]
    BY <2>1
  <2>2. ASSUME NEW p \in Captures, LinkPayload(p) PROVE \A n \in Stored : files'[n] = files[n]
    BY <2>2 DEF LinkPayload, Stored, ProbeInv, ProbeTypeOK
  <2>3. \/ UNCHANGED files
        \/ \E p \in Captures : LinkPayload(p)
    BY DEF ProbeNext, ProbeStep, CleanUp, Start, RebuildAudit, Receive, StagePayload,
           WriteAudit, Record, Reply, FileOperationFails, Finish, Crash
  <2> QED BY <2>1, <2>2, <2>3
<1> QED BY <1>1, ProbeInvariant, PTL DEF ProbeSpec, NeverOverwritten
=============================================================================
