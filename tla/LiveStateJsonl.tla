--------------------------- MODULE LiveStateJsonl ---------------------------
(***************************************************************************)
(* The JSONL bridge (app/live_state_jsonl.py).  Every run of the command   *)
(* is one pass: it checks that the lines behind its cursor are unchanged,  *)
(* ingests the complete lines after it one by one, each through            *)
(* LiveStateSignal, moves the cursor past each ingested line, and writes a *)
(* summary at the end.  The file is appended to by another program while   *)
(* passes run, and a pass may die anywhere.                                *)
(*                                                                         *)
(* A byte offset, a line count and the SHA-256 of the bytes before it are  *)
(* together the processed lines themselves: a cursor is a prefix.          *)
(***************************************************************************)
EXTENDS LiveStateSignal, SequencesExt

CONSTANTS
  Jsonl,         \* the writer that runs the passes
  Malformed,     \* a complete line that is not a valid request
  Lines,         \* the lines the producer may write
  MaxLines,      \* bound: lines appended to the input
  MaxEdits       \* bound: changes of the input other than appending to it

ASSUME JsonlIsWriter == Jsonl \in Writers
ASSUME MalformedIsNoRequest == Malformed \notin Request

AllLines == Request \cup {Malformed}

ASSUME LinesAreLines == Lines \subseteq AllLines
ASSUME MaxLinesIsNatural == MaxLines \in Nat
ASSUME MaxEditsIsNatural == MaxEdits \in Nat

VARIABLES
  input,        \* the complete lines of the input file
  tail,         \* bytes follow the last newline
  cursorFile,   \* the persisted cursor
  summaryFile,  \* the persisted summary
  sync,         \* the pass in progress
  edits         \* auxiliary: how often the input was changed other than by appending

jsonlVars == <<input, tail, cursorFile, summaryFile, sync, edits>>
jsonlAllVars == <<storeVars, jsonlVars>>

Cursor == [exists : BOOLEAN, prefix : Seq(Lines)]

SummaryStatus == {"absent", "processed", "idle", "waiting_for_complete_record"}

Summary == [status : SummaryStatus, prefix : Seq(Lines), processed : Nat,
            changed : Nat, scored : Nat, pending : BOOLEAN]

AbsentSummary == [status |-> "absent", prefix |-> <<>>, processed |-> 0,
                  changed |-> 0, scored |-> 0, pending |-> FALSE]

SyncPCs == {"idle", "line", "ingest", "cursor", "firstCursor", "summary"}

Sync == [pc      : SyncPCs,
         seen    : Seq(Lines),   \* the complete lines the pass has read
         pending : BOOLEAN,     \* it also read an unterminated record
         start   : Nat,         \* lines processed before the pass
         count   : Nat,         \* lines processed so far
         changed : Nat,
         scored  : Nat,
         exit    : {"none", "ok", "error"}]  \* how the last pass ended

IdleSync == [pc |-> "idle", seen |-> <<>>, pending |-> FALSE, start |-> 0,
             count |-> 0, changed |-> 0, scored |-> 0, exit |-> "none"]

Ended(exit) == [IdleSync EXCEPT !.exit = exit]

JsonlTypeOK ==
  /\ StoreTypeOK
  /\ input \in Seq(Lines)
  /\ tail \in BOOLEAN
  /\ cursorFile \in Cursor
  /\ summaryFile \in Summary
  /\ sync \in Sync
  /\ edits \in 0 .. MaxEdits

JsonlInit ==
  /\ StoreInit
  /\ input = <<>>
  /\ tail = FALSE
  /\ cursorFile = [exists |-> FALSE, prefix |-> <<>>]
  /\ summaryFile = AbsentSummary
  /\ sync = IdleSync
  /\ edits = 0
-----------------------------------------------------------------------------
(* The program that produces the input.                                    *)
AppendPartial ==
  /\ ~tail
  /\ Len(input) < MaxLines
  /\ tail' = TRUE
  /\ UNCHANGED <<input, cursorFile, summaryFile, sync, edits, storeVars>>

CompleteLine(line) ==
  /\ tail
  /\ input' = Append(input, line)
  /\ tail' = FALSE
  /\ UNCHANGED <<cursorFile, summaryFile, sync, edits, storeVars>>

(* Somebody rewrites a line or cuts the file, which the contract forbids.  *)
EditInput ==
  /\ edits < MaxEdits
  /\ \/ \E i \in DOMAIN input, line \in Lines : input' = [input EXCEPT ![i] = line]
     \/ \E n \in 0 .. Len(input) : input' = SubSeq(input, 1, n)
  /\ edits' = edits + 1
  /\ UNCHANGED <<tail, cursorFile, summaryFile, sync, storeVars>>
-----------------------------------------------------------------------------
(* load_live_state_jsonl_cursor, verify_processed_prefix and               *)
(* discover_complete_jsonl_records.                                        *)
PrefixUnchanged == IsPrefix(cursorFile.prefix, input)

StartSync ==
  LET n == Len(cursorFile.prefix)
  IN  /\ sync.pc = "idle"
      /\ sync' =
           IF ~PrefixUnchanged
             THEN Ended("error")
             ELSE [IdleSync EXCEPT
                     !.pc = IF n < Len(input) THEN "line"
                            ELSE IF cursorFile.exists THEN "summary"
                            ELSE "firstCursor",
                     !.seen = input, !.pending = tail, !.start = n, !.count = n]
      /\ UNCHANGED <<input, tail, cursorFile, summaryFile, edits, storeVars>>

(* A pass without a complete line creates the cursor file at offset 0.     *)
PersistFirstCursor ==
  /\ sync.pc = "firstCursor"
  /\ cursorFile' = [cursorFile EXCEPT !.exists = TRUE]
  /\ sync' = [sync EXCEPT !.pc = "summary"]
  /\ UNCHANGED <<input, tail, summaryFile, edits, storeVars>>

CurrentLine == sync.seen[sync.count + 1]

(* _process_complete_line: validation, then the ingestion call.            *)
RejectLine ==
  /\ sync.pc = "line"
  /\ CurrentLine = Malformed
  /\ sync' = Ended("error")
  /\ UNCHANGED <<input, tail, cursorFile, summaryFile, edits, storeVars>>

IngestLine ==
  /\ sync.pc = "line"
  /\ CurrentLine # Malformed
  /\ Begin(Jsonl, CurrentLine)
  /\ sync' = [sync EXCEPT !.pc = "ingest"]
  /\ UNCHANGED <<input, tail, cursorFile, summaryFile, edits>>

(* The temporary request file cannot be written.                           *)
StageFails ==
  /\ sync.pc = "line"
  /\ sync' = Ended("error")
  /\ UNCHANGED <<input, tail, cursorFile, summaryFile, edits, storeVars>>

(* Mutant: the cursor is persisted once, at the end of the pass.           *)
LineIngestedDefersCursor ==
  LET c == call[Jsonl]
  IN  /\ sync.pc = "ingest"
      /\ c.outcome \in {"BUILT", "UNCHANGED"}
      /\ Return(Jsonl)
      /\ sync' = [sync EXCEPT
                    !.pc = IF sync.count + 1 < Len(sync.seen) THEN "line" ELSE "cursor",
                    !.count = @ + 1]
      /\ UNCHANGED <<input, tail, cursorFile, summaryFile, edits>>

LineIngested ==
  LET c == call[Jsonl]
  IN  /\ sync.pc = "ingest"
      /\ c.outcome \in {"BUILT", "UNCHANGED"}
      /\ Return(Jsonl)
      /\ sync' = [sync EXCEPT
                    !.pc = "cursor", !.count = @ + 1,
                    !.changed = IF c.outcome = "BUILT" THEN @ + 1 ELSE @,
                    !.scored = IF c.response.status = "scored" THEN @ + 1 ELSE @]
      /\ UNCHANGED <<input, tail, cursorFile, summaryFile, edits>>

(* Mutant: a line that cannot be ingested is skipped.                      *)
LineFailedSkips ==
  /\ sync.pc = "ingest"
  /\ call[Jsonl].outcome \in {"signal_error", "model_error"}
  /\ Return(Jsonl)
  /\ sync' = [sync EXCEPT !.pc = "cursor", !.count = @ + 1]
  /\ UNCHANGED <<input, tail, cursorFile, summaryFile, edits>>

(* The pass stops at the line; earlier lines stay committed.               *)
LineFailed ==
  /\ sync.pc = "ingest"
  /\ call[Jsonl].outcome \in {"signal_error", "model_error"}
  /\ Return(Jsonl)
  /\ sync' = Ended("error")
  /\ UNCHANGED <<input, tail, cursorFile, summaryFile, edits>>

(* advance_live_state_jsonl_cursor and its persistence.                    *)
PersistCursor ==
  /\ sync.pc = "cursor"
  /\ cursorFile' = [exists |-> TRUE, prefix |-> SubSeq(sync.seen, 1, sync.count)]
  /\ sync' = [sync EXCEPT !.pc = IF sync.count < Len(sync.seen)
                                   THEN "line" ELSE "summary"]
  /\ UNCHANGED <<input, tail, summaryFile, edits, storeVars>>

(* The summary the pass would write.                                       *)
PassSummary ==
  [status    |-> IF sync.count > sync.start THEN "processed"
                 ELSE IF sync.pending THEN "waiting_for_complete_record"
                 ELSE "idle",
   prefix    |-> SubSeq(sync.seen, 1, sync.count),
   processed |-> sync.count - sync.start,
   changed   |-> sync.changed,
   scored    |-> sync.scored,
   pending   |-> sync.pending]

(* Mutant: any summary is kept by a pass that found nothing.               *)
HasSummary ==
  /\ PassSummary.status = "idle"
  /\ summaryFile.status # "absent"
  /\ ~summaryFile.pending

(* A pass that found nothing keeps a summary that still describes it.      *)
HasCurrentSummary ==
  /\ PassSummary.status = "idle"
  /\ summaryFile.status # "absent"
  /\ summaryFile.prefix = PassSummary.prefix
  /\ ~summaryFile.pending

WriteSummary ==
  /\ sync.pc = "summary"
  /\ summaryFile' = IF HasCurrentSummary THEN summaryFile ELSE PassSummary
  /\ sync' = Ended("ok")
  /\ UNCHANGED <<input, tail, cursorFile, edits, storeVars>>

(* A cursor or summary write raises OSError before its os.replace.         *)
BridgeWriteFails ==
  /\ sync.pc \in {"firstCursor", "cursor", "summary"}
  /\ sync' = Ended("error")
  /\ UNCHANGED <<input, tail, cursorFile, summaryFile, edits, storeVars>>

(* The process of the pass dies.                                           *)
CrashSync ==
  /\ sync.pc # "idle"
  /\ sync' = IdleSync
  /\ call' = [call EXCEPT ![Jsonl] = IdleCall]
  /\ UNCHANGED <<historyFile, signalFile, modelBundle, raced>>
  /\ UNCHANGED <<input, tail, cursorFile, summaryFile, edits>>
-----------------------------------------------------------------------------
Producer ==
  \/ AppendPartial
  \/ \E line \in Lines : CompleteLine(line)
  \/ EditInput

SyncStep ==
  \/ StartSync
  \/ PersistFirstCursor
  \/ RejectLine
  \/ IngestLine
  \/ LineIngested
  \/ LineFailed
  \/ PersistCursor
  \/ WriteSummary

JsonlFault ==
  \/ StageFails
  \/ BridgeWriteFails
  \/ CrashSync
  \/ WriteFails(Jsonl) /\ UNCHANGED jsonlVars

JsonlStoreStep ==
  /\ LoadHistory(Jsonl) \/ ScoreHistory(Jsonl) \/ WriteHistory(Jsonl) \/ WriteSignal(Jsonl)
  /\ UNCHANGED jsonlVars

ModelReplaced ==
  /\ \E bundle \in Models \cup {NoModel} : ReplaceModel(bundle)
  /\ UNCHANGED jsonlVars

JsonlNext == Producer \/ SyncStep \/ JsonlStoreStep \/ JsonlFault \/ ModelReplaced

JsonlSpec == JsonlInit /\ [][JsonlNext]_jsonlAllVars

(* A started pass runs on, and the command is run again and again; nothing *)
(* is assumed of the producer, of the model or of faults.                  *)
JsonlFairSpec ==
  JsonlSpec /\ WF_jsonlAllVars(SyncStep) /\ WF_jsonlAllVars(JsonlStoreStep)
-----------------------------------------------------------------------------
(* Every line behind the cursor is a valid request whose snapshot is in    *)
(* the history of its match: skipping a line on the next pass never loses  *)
(* it, whatever crashed in between and whatever became of the input.       *)
CursorIngested ==
  \A i \in DOMAIN cursorFile.prefix :
    LET line == cursorFile.prefix[i]
    IN  /\ line # Malformed
        /\ line.match \notin raced => line.snap \in historyFile[line.match]

(* Lines are ingested in physical order, at most one ahead of the cursor:  *)
(* after any crash only that one line is ingested a second time.           *)
IngestInOrder ==
  edits = 0 => \A m \in Matches : \A s \in historyFile[m] :
    \E i \in 1 .. Len(cursorFile.prefix) + 1 :
      i \in DOMAIN input /\ input[i] = [match |-> m, snap |-> s]

(* With the types: a pass may be cut off anywhere and the next one         *)
(* continues at the cursor, losing no line and repeating at most one       *)
(* (sync_live_state_jsonl and _process_complete_line).                     *)
LinesTakenInOrder == JsonlTypeOK /\ CursorIngested /\ IngestInOrder

(* A pass that reports success leaves a summary of the persisted cursor.   *)
SuccessIsSummarised ==
  sync.exit = "ok" => /\ cursorFile.exists
                      /\ summaryFile.status # "absent"
                      /\ summaryFile.prefix = cursorFile.prefix

(* Lines 1..n are valid and no two of them contradict each other.          *)
GoodPrefix(n) ==
  \A i \in 1 .. n :
    /\ input[i] # Malformed
    /\ \A j \in 1 .. n :
         (/\ input[j] # Malformed
          /\ input[i].match = input[j].match
          /\ input[i].snap.time = input[j].snap.time) => input[i] = input[j]

(* Once faults stop and a model can be loaded, every line of a good prefix *)
(* is eventually processed: a crash, a partial record or a failed write    *)
(* never blocks the bridge for good.  The rejection of a malformed line is *)
(* no such fault: it may go on behind the prefix, pass after pass.         *)
GoodLinesConsumed ==
  (/\ [](edits = 0)
   /\ <>[][JsonlFault => RejectLine]_jsonlAllVars
   /\ <>[](modelBundle # NoModel))
  => \A n \in 1 .. MaxLines :
       (Len(input) >= n /\ GoodPrefix(n)) ~> (Len(cursorFile.prefix) >= n)
=============================================================================
