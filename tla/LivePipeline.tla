---------------------------- MODULE LivePipeline ----------------------------
(***************************************************************************)
(* The GSI listener and the JSONL bridge run as two processes over the     *)
(* same state and signal directories.  Nothing in the code locks them: a   *)
(* call of one may fall between any two file operations of the other.      *)
(* What holds then is stated for matches whose calls did not overlap       *)
(* (raced) and, where possible, for every match.                           *)
(***************************************************************************)
EXTENDS LiveStateJsonl, DotaGsiListener

ASSUME WritersAreDistinct == Listener # Jsonl

pipelineVars == <<storeVars, jsonlVars, listenerVars>>

PipelineInit == JsonlInit /\ ListenerInit

BridgeRuns ==
  /\ Producer \/ SyncStep \/ JsonlStoreStep \/ JsonlFault
  /\ UNCHANGED listenerVars

ListenerRuns ==
  /\ \/ Start
     \/ \E p \in Payloads \cup {BadRequest} : Connect(p)
     \/ BodyArrives
     \/ ListenerStep
     \/ ListenerStoreStep
     \/ Interrupt
     \/ Kill
     \/ Tick
  /\ UNCHANGED jsonlVars

ModelTrained ==
  /\ \E bundle \in Models \cup {NoModel} : ReplaceModel(bundle)
  /\ UNCHANGED <<jsonlVars, listenerVars>>

PipelineNext == BridgeRuns \/ ListenerRuns \/ ModelTrained

PipelineSpec == PipelineInit /\ [][PipelineNext]_pipelineVars
-----------------------------------------------------------------------------
(* What one process has acknowledged, printed or moved its cursor past is  *)
(* not undone by the other, as long as their calls did not overlap.        *)
NothingUndone == CursorIngested /\ AckedIsDurable /\ PrintedIsDurable

(* The listener's internal failure is never a stale read back of its own   *)
(* signal: it has shown what it computed unless the bridge published for   *)
(* the same match after it, or the console itself failed.                  *)
ShownIsOwnOrNewer ==
  (/\ lpc \in {"count", "countStatus", "touch", "console"}
   /\ Sampled(request)
   /\ request.match \notin raced)
  => SampledRequest(request).snap \in result.response.history
=============================================================================
