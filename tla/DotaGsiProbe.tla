---------------------------- MODULE DotaGsiProbe ----------------------------
(***************************************************************************)
(* The payload capture (app/dota_gsi_probe.py): it numbers the payloads it *)
(* accepts 000001, 000002, ... in a directory, publishing each with a hard *)
(* link that fails when the number is taken, and rebuilds an audit file    *)
(* from all of them after each.  A payload is staged in the same directory *)
(* first, and a capture refuses to start over a directory that holds       *)
(* anything but a gapless run of payload files.  Captures are processes;   *)
(* two of them may be pointed at one directory.                            *)
(***************************************************************************)
EXTENDS Integers, Sequences, FiniteSets

CONSTANTS
  Captures,     \* capture processes
  Contents,     \* sanitized payloads
  NoFile,
  MaxPayloads,  \* max_payloads
  MaxNumber     \* bound: numbers of payload files

ASSUME CapturesAreFinite == IsFiniteSet(Captures)
ASSUME NoFileIsNoContent == NoFile \notin Contents
ASSUME MaxPayloadsIsPositive == MaxPayloads \in Nat \ {0}
ASSUME MaxNumberIsNatural == MaxNumber \in Nat

Numbers == 1 .. MaxNumber

VARIABLES
  files,    \* files[n] : payloads/<n>.json
  orphan,   \* a staged payload of a dead capture is in the directory
  audit,    \* payload_files of probe.json
  capture,  \* capture[p] : the process p
  acked,    \* auxiliary: numbers and payloads answered with 200
  shared    \* auxiliary: two captures were up at the same time

probeVars == <<files, orphan, audit, capture, acked, shared>>

CapturePCs == {"down", "validated", "serve", "stage", "link", "audit", "record", "reply"}

Exits == {"none", "existing_payloads_invalid", "persistence_failed", "done"}

Capture == [pc       : CapturePCs,
            records  : Seq(Contents),         \* server.records
            payload  : Contents \cup {NoFile}, \* of the current request
            staged   : BOOLEAN,               \* its temporary file exists
            accepted : 0 .. MaxPayloads,
            exit     : Exits]

DownCapture == [pc |-> "down", records |-> <<>>, payload |-> NoFile,
                staged |-> FALSE, accepted |-> 0, exit |-> "none"]

Exited(reason) == [DownCapture EXCEPT !.exit = reason]

ProbeTypeOK ==
  /\ files \in [Numbers -> Contents \cup {NoFile}]
  /\ orphan \in BOOLEAN
  /\ audit \in Seq(Contents)
  /\ capture \in [Captures -> Capture]
  /\ acked \subseteq Numbers \X Contents
  /\ shared \in BOOLEAN

ProbeInit ==
  /\ files = [n \in Numbers |-> NoFile]
  /\ orphan = FALSE
  /\ audit = <<>>
  /\ capture = [p \in Captures |-> DownCapture]
  /\ acked = {}
  /\ shared = FALSE
-----------------------------------------------------------------------------
Stored == {n \in Numbers : files[n] # NoFile}

Gapless == \A n \in Stored : 1 .. n \subseteq Stored

Staged == orphan \/ \E p \in Captures : capture[p].staged

(* Mutant: the audit of a restarted capture waits for its first payload.   *)
RebuildAuditLater(p) ==
  /\ capture[p].pc = "validated"
  /\ capture' = [capture EXCEPT ![p].pc = "serve"]
  /\ UNCHANGED <<files, orphan, audit, acked>>

(* validate_existing_payloads: a stray entry or a gap is refused.          *)
Start(p) ==
  /\ capture[p].pc = "down"
  /\ capture' = [capture EXCEPT ![p] =
       IF Staged \/ ~Gapless
         THEN Exited("existing_payloads_invalid")
         ELSE [DownCapture EXCEPT
                 !.pc = "validated",
                 !.records = [n \in 1 .. Cardinality(Stored) |-> files[n]]]]
  /\ UNCHANGED <<files, orphan, audit, acked>>

(* The audit is rebuilt from the loaded payloads before the first request. *)
RebuildAudit(p) ==
  /\ capture[p].pc = "validated"
  /\ audit' = capture[p].records
  /\ capture' = [capture EXCEPT ![p].pc = "serve"]
  /\ UNCHANGED <<files, orphan, acked>>

(* An authenticated payload; every refused request changes nothing.        *)
Receive(p, content) ==
  /\ capture[p].pc = "serve"
  /\ capture[p].accepted < MaxPayloads
  /\ capture' = [capture EXCEPT ![p].pc = "stage", ![p].payload = content]
  /\ UNCHANGED <<files, orphan, audit, acked>>

NextNumber(p) == Len(capture[p].records) + 1

(* persist_payload up to the link: the number must still be free.          *)
StagePayload(p) ==
  /\ capture[p].pc = "stage"
  /\ NextNumber(p) \in Numbers
  /\ capture' = [capture EXCEPT ![p] =
       IF files[NextNumber(p)] # NoFile
         THEN Exited("persistence_failed")
         ELSE [@ EXCEPT !.pc = "link", !.staged = TRUE]]
  /\ UNCHANGED <<files, orphan, audit, acked>>

(* Mutant: the payload is renamed over whatever has its number.            *)
RenamePayload(p) ==
  /\ capture[p].pc = "link"
  /\ files' = [files EXCEPT ![NextNumber(p)] = capture[p].payload]
  /\ capture' = [capture EXCEPT ![p].pc = "audit", ![p].staged = FALSE]
  /\ UNCHANGED <<orphan, audit, acked>>

(* os.link, which fails when the number was taken meanwhile, and the       *)
(* removal of the staged file, whose own failure is passed over.           *)
LinkPayload(p) ==
  /\ capture[p].pc = "link"
  /\ IF files[NextNumber(p)] = NoFile
       THEN /\ files' = [files EXCEPT ![NextNumber(p)] = capture[p].payload]
            /\ capture' = [capture EXCEPT ![p].pc = "audit", ![p].staged = FALSE]
       ELSE /\ files' = files
            /\ capture' = [capture EXCEPT ![p] = Exited("persistence_failed")]
  /\ orphan' \in {orphan, TRUE}
  /\ UNCHANGED <<audit, acked>>

WriteAudit(p) ==
  /\ capture[p].pc = "audit"
  /\ audit' = Append(capture[p].records, capture[p].payload)
  /\ capture' = [capture EXCEPT ![p].pc = "record"]
  /\ UNCHANGED <<files, orphan, acked>>

Record(p) ==
  /\ capture[p].pc = "record"
  /\ capture' = [capture EXCEPT ![p].pc = "reply", ![p].accepted = @ + 1,
                                ![p].records = Append(@, capture[p].payload)]
  /\ UNCHANGED <<files, orphan, audit, acked>>

(* The answer is sent; it may not arrive.                                  *)
Reply(p) ==
  /\ capture[p].pc = "reply"
  /\ acked' \in {acked, acked \cup {<<Len(capture[p].records), capture[p].payload>>}}
  /\ capture' = [capture EXCEPT ![p].pc = "serve", ![p].payload = NoFile]
  /\ UNCHANGED <<files, orphan, audit>>

(* A file operation raises OSError: answered with 500, the run ends.  A    *)
(* payload that was already linked stays.                                  *)
FileOperationFails(p) ==
  /\ capture[p].pc \in {"validated", "stage", "link", "audit"}
  /\ capture' = [capture EXCEPT ![p] = Exited("persistence_failed")]
  /\ orphan' \in {orphan, orphan \/ capture[p].staged}
  /\ UNCHANGED <<files, audit, acked>>

(* max_payloads were accepted, or none came for the idle timeout.          *)
Finish(p) ==
  /\ capture[p].pc = "serve"
  /\ capture' = [capture EXCEPT ![p] = Exited("done")]
  /\ UNCHANGED <<files, orphan, audit, acked>>

Crash(p) ==
  /\ capture[p].pc # "down"
  /\ orphan' = (orphan \/ capture[p].staged)
  /\ capture' = [capture EXCEPT ![p] = DownCapture]
  /\ UNCHANGED <<files, audit, acked>>

(* Somebody removes the staged file of a dead capture by hand.             *)
CleanUp ==
  /\ orphan
  /\ orphan' = FALSE
  /\ UNCHANGED <<files, audit, capture, acked>>

ProbeStep(p) ==
  \/ Start(p)
  \/ RebuildAudit(p)
  \/ \E content \in Contents : Receive(p, content)
  \/ StagePayload(p)
  \/ LinkPayload(p)
  \/ WriteAudit(p)
  \/ Record(p)
  \/ Reply(p)
  \/ FileOperationFails(p)
  \/ Finish(p)
  \/ Crash(p)

Up == {p \in Captures : capture[p].pc # "down"}

ProbeNext ==
  /\ (\E p \in Captures : ProbeStep(p)) \/ CleanUp
  /\ shared' = (shared \/ Cardinality(Up') > 1)

ProbeSpec == ProbeInit /\ [][ProbeNext]_probeVars
-----------------------------------------------------------------------------
(* A payload file, once published under its number, is never replaced or   *)
(* removed, whoever else writes to the directory.                          *)
NeverOverwritten ==
  [][\A n \in Stored : files'[n] = files[n]]_probeVars

(* The numbers stay gapless, so that crashes and competing captures never  *)
(* make a directory that the next start refuses for its numbers.           *)
NumbersGapless == Gapless

(* The audit lists payload files in their order, from the first one on,    *)
(* and never a payload that is not stored.                                 *)
AuditIsTruthful == \A n \in DOMAIN audit : n \in Numbers /\ files[n] = audit[n]

(* With one capture at a time on the directory every acknowledged payload  *)
(* is stored and listed by the audit, across crashes and restarts, and a   *)
(* serving capture has audited everything.                                 *)
AckedIsAudited ==
  ~shared =>
  /\ \A a \in acked : a[1] \in DOMAIN audit /\ audit[a[1]] = a[2]
  /\ \A p \in Captures :
       capture[p].pc = "serve" => Len(audit) = Cardinality(Stored)

(* With the types: a directory that captures left, however they ended,     *)
(* starts the next one, and its audit can be believed                      *)
(* (validate_existing_payloads, rebuild_structural_audit).                 *)
DirectorySound == ProbeTypeOK /\ NumbersGapless /\ AuditIsTruthful /\ AckedIsAudited
=============================================================================
