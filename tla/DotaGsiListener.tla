-------------------------- MODULE DotaGsiListener ---------------------------
(***************************************************************************)
(* The bounded live listener (app/dota_gsi_listener.py): one process,      *)
(* one request at a time.  It accepts a payload, ingests it through        *)
(* LiveStateSignal, counts it, prints at most one line and answers, until  *)
(* enough payloads were accepted, none came for the idle timeout, a        *)
(* terminal failure, or an interrupt.  KeyboardInterrupt may be raised     *)
(* between any two statements, so the statements of record_accepted are    *)
(* actions of their own.                                                   *)
(***************************************************************************)
EXTENDS DotaGsiLive

CONSTANTS
  Listener,           \* the writer that is the listener process
  Payloads,           \* payloads the game sends
  BadRequest,         \* a request refused before its payload is looked at
  MaxPayloads,        \* max_payloads
  IdleTimeout,        \* idle_timeout_seconds, in ticks
  InterruptsAllowed,  \* whether the operator may press Ctrl-C
  MaxRuns             \* bound: how often the command is started

ASSUME ListenerIsWriter == Listener \in Writers
ASSUME PayloadsAreGsi == Payloads \subseteq GsiPayload
ASSUME BadRequestIsNoPayload == BadRequest \notin Payloads
ASSUME MaxPayloadsIsPositive == MaxPayloads \in Nat \ {0}
ASSUME IdleTimeoutIsPositive == IdleTimeout \in Nat \ {0}
ASSUME MaxRunsIsPositive == MaxRuns \in Nat \ {0}
ASSUME InterruptsAllowedIsBoolean == InterruptsAllowed \in BOOLEAN

VARIABLES
  lpc,        \* where the process is
  request,    \* the request being handled
  result,     \* InMemoryDotaGSILiveResult being recorded
  accepted,   \* accepted_count
  counts,     \* status_counts
  idle,       \* ticks since last_accepted_at, stopping at IdleTimeout
  emitted,    \* emitted_lines
  fatal,      \* fatal_error
  exit,       \* how the last run ended
  runs,       \* how often the command was started
  acked,      \* auxiliary: snapshot requests answered with 200
  printed     \* auxiliary: lines printed by all runs

listenerVars == <<lpc, request, result, accepted, counts, idle, emitted,
                  fatal, exit, runs, acked, printed>>
listenerAllVars == <<storeVars, listenerVars>>

ListenerPCs == {"down", "loop", "select", "read", "call", "reread", "count",
                "countStatus", "touch", "console", "reply", "stop"}

Statuses == {"ignored", "not_ready", "scored"}

Fatals == {"none", "persistence_failed", "model_failure", "internal_failure"}

Exits == {"none", "max_payloads", "idle_timeout", "interrupted", "fatal",
          "inconsistent"}

(* STATE, SIGNAL or IGNORED: the match and what the line shows of it.      *)
ConsoleLine == (Matches \cup {NoMatch}) \X Signal

Result == [status : {"BUILT", "UNCHANGED"},
           responseStatus : Statuses,
           response : Signal]

NoResult == [status |-> "UNCHANGED", responseStatus |-> "ignored",
             response |-> AbsentSignal]

ListenerTypeOK ==
  /\ StoreTypeOK
  /\ lpc \in ListenerPCs
  /\ request \in Payloads \cup {BadRequest}
  /\ result \in Result
  /\ accepted \in Nat
  /\ counts \in [Statuses -> Nat]
  /\ idle \in 0 .. IdleTimeout
  /\ emitted \subseteq ConsoleLine
  /\ fatal \in Fatals
  /\ exit \in Exits
  /\ runs \in 0 .. MaxRuns
  /\ acked \subseteq Request
  /\ printed \subseteq ConsoleLine

Fresh ==
  /\ request' = BadRequest
  /\ result' = NoResult
  /\ accepted' = 0
  /\ counts' = [s \in Statuses |-> 0]
  /\ idle' = 0
  /\ emitted' = {}
  /\ fatal' = "none"

ListenerInit ==
  /\ StoreInit
  /\ lpc = "down"
  /\ request = BadRequest
  /\ result = NoResult
  /\ accepted = 0
  /\ counts = [s \in Statuses |-> 0]
  /\ idle = 0
  /\ emitted = {}
  /\ fatal = "none"
  /\ exit = "none"
  /\ runs = 0
  /\ acked = {}
  /\ printed = {}
-----------------------------------------------------------------------------
(* run_dota_gsi_live up to its loop.                                       *)
Start ==
  /\ lpc = "down"
  /\ runs < MaxRuns
  /\ runs' = runs + 1
  /\ lpc' = "loop"
  /\ Fresh
  /\ exit' = "none"
  /\ UNCHANGED <<storeVars, acked, printed>>

(* Mutant: a terminal failure does not leave the loop.                     *)
LoopCheckIgnoringFatal ==
  /\ lpc = "loop"
  /\ IF accepted < MaxPayloads /\ idle < IdleTimeout
       THEN lpc' = "select" /\ exit' = exit
       ELSE lpc' = "stop" /\ exit' = "max_payloads"
  /\ UNCHANGED <<storeVars, request, result, accepted, counts, idle, emitted,
                 fatal, runs, acked, printed>>

(* The loop condition and the remaining idle time.                         *)
LoopCheck ==
  /\ lpc = "loop"
  /\ IF accepted < MaxPayloads /\ fatal = "none"
       THEN IF idle < IdleTimeout
              THEN lpc' = "select" /\ exit' = exit
              ELSE lpc' = "stop" /\ exit' = "idle_timeout"
       ELSE lpc' = "stop" /\ exit' = "max_payloads"
  /\ UNCHANGED <<storeVars, request, result, accepted, counts, idle, emitted,
                 fatal, runs, acked, printed>>

(* handle_request returns without a connection.                            *)
SelectTimesOut ==
  /\ lpc = "select"
  /\ idle = IdleTimeout
  /\ lpc' = "loop"
  /\ UNCHANGED <<storeVars, request, result, accepted, counts, idle, emitted,
                 fatal, exit, runs, acked, printed>>

Connect(p) ==
  /\ lpc = "select"
  /\ request' = p
  /\ lpc' = "read"
  /\ UNCHANGED <<storeVars, result, accepted, counts, idle, emitted, fatal,
                 exit, runs, acked, printed>>

(* The handler returns to the loop.                                        *)
Handled ==
  /\ lpc' = "loop"
  /\ request' = BadRequest
  /\ result' = NoResult

(* The peer closes before its body is complete: 400, or a ConnectionError  *)
(* that handle_error takes for local to the request.                       *)
PeerAborts ==
  /\ lpc = "read"
  /\ Handled
  /\ UNCHANGED <<storeVars, accepted, counts, idle, emitted, fatal, exit,
                 runs, acked, printed>>

(* Mutant: every request, also a refused one, restarts the idle timeout.   *)
RefuseTouchesClock ==
  /\ lpc = "read"
  /\ request # BadRequest => Invalid(request)
  /\ idle' = 0
  /\ Handled
  /\ UNCHANGED <<storeVars, accepted, counts, emitted, fatal, exit, runs,
                 acked, printed>>

(* The rest of do_POST once the body has been read.                        *)
Refuse ==
  /\ lpc = "read"
  /\ request # BadRequest => Invalid(request)
  /\ Handled
  /\ UNCHANGED <<storeVars, accepted, counts, idle, emitted, fatal, exit,
                 runs, acked, printed>>

IgnoreWithoutMatch ==
  /\ lpc = "read"
  /\ request # BadRequest /\ Ignored(request) /\ request.match = NoMatch
  /\ result' = [NoResult EXCEPT !.response = IgnoredSignal(IgnoreNote(request))]
  /\ lpc' = "count"
  /\ UNCHANGED <<storeVars, request, accepted, counts, idle, emitted, fatal,
                 exit, runs, acked, printed>>

IgnorePayload ==
  /\ lpc = "read"
  /\ request # BadRequest /\ Ignored(request) /\ request.match # NoMatch
  /\ \/ PublishIgnored(Listener, request.match, IgnoreNote(request))
     \/ PublishIgnoredFails(Listener)
  /\ lpc' = "call"
  /\ UNCHANGED <<request, result, accepted, counts, idle, emitted, fatal,
                 exit, runs, acked, printed>>

IngestPayload ==
  /\ lpc = "read"
  /\ request # BadRequest /\ Sampled(request)
  /\ Begin(Listener, SampledRequest(request))
  /\ lpc' = "call"
  /\ UNCHANGED <<request, result, accepted, counts, idle, emitted, fatal,
                 exit, runs, acked, printed>>

(* Mutant: a failed call is answered like a successful one.                *)
CallFailedAnswersOk ==
  /\ lpc = "call"
  /\ call[Listener].outcome \in {"signal_error", "model_error"}
  /\ Return(Listener)
  /\ lpc' = "reply"
  /\ UNCHANGED <<request, result, accepted, counts, idle, emitted, fatal,
                 exit, runs, acked, printed>>

(* LiveStateSignalError or ReplayStateModelError: answered with 500.       *)
CallFailed ==
  /\ lpc = "call"
  /\ call[Listener].outcome \in {"signal_error", "model_error"}
  /\ fatal' = IF call[Listener].outcome = "signal_error"
                THEN "persistence_failed" ELSE "model_failure"
  /\ Return(Listener)
  /\ Handled
  /\ UNCHANGED <<accepted, counts, idle, emitted, exit, runs, acked,
                 printed>>

CallSucceeded ==
  LET c == call[Listener]
  IN  /\ lpc = "call"
      /\ c.outcome \in {"BUILT", "UNCHANGED"}
      /\ result' = [status |-> c.outcome, responseStatus |-> c.response.status,
                    response |-> c.response]
      /\ Return(Listener)
      /\ lpc' = IF Sampled(request) THEN "reread" ELSE "count"
      /\ UNCHANGED <<request, accepted, counts, idle, emitted, fatal, exit,
                     runs, acked, printed>>

(* _load_signal_response: the console shows what the file says now.        *)
RereadSignal ==
  /\ lpc = "reread"
  /\ result' = [result EXCEPT !.response = signalFile[request.match]]
  /\ lpc' = "count"
  /\ UNCHANGED <<storeVars, request, accepted, counts, idle, emitted, fatal,
                 exit, runs, acked, printed>>

(* The file cannot be read back: terminal, though the snapshot was stored. *)
RereadFails ==
  /\ lpc = "reread"
  /\ fatal' = "persistence_failed"
  /\ Handled
  /\ UNCHANGED <<storeVars, accepted, counts, idle, emitted, exit, runs,
                 acked, printed>>

(* record_accepted, statement by statement.                                *)
CountAccepted ==
  /\ lpc = "count"
  /\ accepted' = accepted + 1
  /\ lpc' = "countStatus"
  /\ UNCHANGED <<storeVars, request, result, counts, idle, emitted, fatal,
                 exit, runs, acked, printed>>

CountStatus ==
  /\ lpc = "countStatus"
  /\ counts' = [counts EXCEPT ![result.responseStatus] = @ + 1]
  /\ lpc' = "touch"
  /\ UNCHANGED <<storeVars, request, result, accepted, idle, emitted, fatal,
                 exit, runs, acked, printed>>

TouchClock ==
  /\ lpc = "touch"
  /\ idle' = 0
  /\ lpc' = "console"
  /\ UNCHANGED <<storeVars, request, result, accepted, counts, emitted,
                 fatal, exit, runs, acked, printed>>

(* _console_line returns a line for this result.                           *)
HasLine ==
  /\ result.status = "BUILT"
  /\ result.responseStatus = "ignored" =>
       /\ request.match # NoMatch
       /\ IgnoreReason(request) = "game_not_in_progress"

Announcement == <<request.match, result.response>>

ConsoleMismatch ==
  result.status = "BUILT" /\ result.response.status # result.responseStatus

(* The file was replaced by another process: DotaGSIListenerError, which   *)
(* do_POST reports as internal_failure.  A closed standard output is the   *)
(* other way to fail here.                                                 *)
ConsoleFails ==
  /\ lpc = "console"
  /\ ConsoleMismatch \/ (HasLine /\ Announcement \notin emitted)
  /\ fatal' = "internal_failure"
  /\ Handled
  /\ UNCHANGED <<storeVars, accepted, counts, idle, emitted, exit, runs,
                 acked, printed>>

PrintLine ==
  LET new == {l \in {Announcement} : HasLine} \ emitted
  IN  /\ lpc = "console"
      /\ ~ConsoleMismatch
      /\ emitted' = emitted \cup new
      /\ printed' = printed \cup new
      /\ lpc' = "reply"
      /\ UNCHANGED <<storeVars, request, result, accepted, counts, idle,
                     fatal, exit, runs, acked>>

(* The 200 arrives, or the connection breaks: the payload stays counted.   *)
Reply ==
  /\ lpc = "reply"
  /\ acked' \in {acked, acked \cup {r \in Request :
                                      Sampled(request) /\ r = SampledRequest(request)}}
  /\ Handled
  /\ UNCHANGED <<storeVars, accepted, counts, idle, emitted, fatal, exit,
                 runs, printed>>

StatusTotal == counts["ignored"] + counts["not_ready"] + counts["scored"]

(* After the loop: the terminal failure is raised, or the result built,    *)
(* whose constructor checks the accounting.                                *)
Stop ==
  /\ lpc = "stop"
  /\ exit' = IF fatal # "none" THEN "fatal"
             ELSE IF accepted # StatusTotal THEN "inconsistent"
             ELSE exit
  /\ lpc' = "down"
  /\ Fresh
  /\ UNCHANGED <<storeVars, runs, acked, printed>>

(* KeyboardInterrupt unwinds the handler and leaves the loop.              *)
Interrupt ==
  /\ InterruptsAllowed
  /\ lpc \notin {"down", "stop"}
  /\ exit' = "interrupted"
  /\ lpc' = "stop"
  /\ request' = BadRequest
  /\ result' = NoResult
  /\ call' = [call EXCEPT ![Listener] = IdleCall]
  /\ UNCHANGED <<historyFile, signalFile, modelBundle, raced>>
  /\ UNCHANGED <<accepted, counts, idle, emitted, fatal, runs, acked,
                 printed>>

(* The process is killed.                                                  *)
Kill ==
  /\ lpc # "down"
  /\ lpc' = "down"
  /\ exit' = "none"
  /\ Fresh
  /\ call' = [call EXCEPT ![Listener] = IdleCall]
  /\ UNCHANGED <<historyFile, signalFile, modelBundle, raced>>
  /\ UNCHANGED <<runs, acked, printed>>

Tick ==
  /\ lpc # "down"
  /\ idle < IdleTimeout
  /\ idle' = idle + 1
  /\ UNCHANGED <<storeVars, lpc, request, result, accepted, counts, emitted,
                 fatal, exit, runs, acked, printed>>
-----------------------------------------------------------------------------
(* The peer has sent its whole body and do_POST goes on, or it closes.     *)
BodyArrives ==
  \/ PeerAborts
  \/ Refuse
  \/ IgnoreWithoutMatch
  \/ IgnorePayload
  \/ IngestPayload

ListenerStep ==
  \/ LoopCheck
  \/ SelectTimesOut
  \/ CallFailed
  \/ CallSucceeded
  \/ RereadSignal
  \/ RereadFails
  \/ CountAccepted
  \/ CountStatus
  \/ TouchClock
  \/ ConsoleFails
  \/ PrintLine
  \/ Reply
  \/ Stop

ListenerStoreStep == StoreStep(Listener) /\ UNCHANGED listenerVars

ListenerEnvironment ==
  \/ Start
  \/ \E p \in Payloads \cup {BadRequest} : Connect(p)
  \/ Interrupt
  \/ Kill
  \/ \E bundle \in Models \cup {NoModel} :
       ReplaceModel(bundle) /\ UNCHANGED listenerVars

ListenerNext ==
  BodyArrives \/ ListenerStep \/ ListenerStoreStep \/ ListenerEnvironment \/ Tick

ListenerSpec == ListenerInit /\ [][ListenerNext]_listenerAllVars

(* A running process runs on and time passes.                              *)
ListenerProcessFairness ==
  /\ WF_listenerAllVars(ListenerStep)
  /\ WF_listenerAllVars(ListenerStoreStep)
  /\ WF_listenerAllVars(Tick)

ListenerFairSpec == ListenerSpec /\ ListenerProcessFairness

(* In addition every peer that connects sends its body or goes away.       *)
ListenerPeerFairSpec == ListenerFairSpec /\ WF_listenerAllVars(BodyArrives)
-----------------------------------------------------------------------------
(* A snapshot answered with 200 is in the history file, and stays there    *)
(* when the listener is killed and started again.                          *)
AckedIsDurable ==
  \A r \in acked : r.match \notin raced => r.snap \in historyFile[r.match]

(* A printed STATE or SIGNAL line was computed from snapshots that are all *)
(* on disk: nothing is announced that a restart could not reproduce.       *)
PrintedIsDurable ==
  \A line \in printed :
    line[1] \in Matches \ raced => line[2].history \subseteq historyFile[line[1]]

(* With the types: what the game or the operator was told survives a kill  *)
(* (_DotaGSILiveRequestHandler.do_POST, record_accepted).                  *)
ToldIsDurable == ListenerTypeOK /\ AckedIsDurable /\ PrintedIsDurable

(* After a terminal failure no later payload of the run is written or      *)
(* counted, so the operator sees the store as the failure left it.         *)
FatalWritesNothing ==
  [][fatal # "none" => /\ UNCHANGED <<historyFile, signalFile>>
                       /\ accepted' <= accepted]_listenerAllVars

(* Every started run ends, by payloads, by silence or by failure; peers    *)
(* that only send refused requests do not keep it alive.                   *)
RunEnds == lpc # "down" ~> lpc = "down"
=============================================================================
