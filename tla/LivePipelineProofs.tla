------------------------- MODULE LivePipelineProofs -------------------------
(***************************************************************************)
(* Proofs about the GSI listener, for any payloads, limits, kills and      *)
(* interrupts, and then about the listener and the bridge over one store.  *)
(* OwnInv is what the listener knows of its own request; it is stated so   *)
(* that it also survives what another process does to the store between    *)
(* two steps of the listener.                                              *)
(***************************************************************************)
EXTENDS LivePipeline, LiveStateProofs

Recording == {"count", "countStatus", "touch", "console"}
Ingested == {"reread", "reply"} \cup Recording

OwnTypes ==
  /\ lpc \in ListenerPCs
  /\ request \in Payloads \cup {BadRequest} /\ result \in Result
  /\ accepted \in Nat /\ counts \in [Statuses -> Nat]
  /\ idle \in 0 .. IdleTimeout /\ runs \in 0 .. MaxRuns
  /\ fatal \in Fatals /\ exit \in Exits
  /\ emitted \subseteq ConsoleLine /\ printed \subseteq ConsoleLine
  /\ acked \subseteq Request

(* What was computed for a match was computed from what is on disk, and    *)
(* from the snapshot of the request.                                       *)
Durable(m, signal) == m \in Matches \ raced => signal.history \subseteq historyFile[m]
Shows(signal) ==
  request.match \notin raced => SampledRequest(request).snap \in signal.history

(* A snapshot is committed from the return of its call on.                 *)
RequestInv ==
  /\ lpc \in {"call"} \cup Ingested =>
       request \in Payloads /\ (Sampled(request) \/ Ignored(request))
  /\ lpc = "reread" => Sampled(request) /\ Shows(signalFile[request.match])
  /\ lpc \in Ingested /\ Sampled(request) => Committed(SampledRequest(request))
  /\ lpc \in Recording => Durable(request.match, result.response)
                          /\ (Sampled(request) => Shows(result.response))

(* The process is in a call exactly when it waits for one.                 *)
OwnCallInv ==
  /\ lpc = "call" <=> call[Listener].pc # "idle"
  /\ lpc = "call" /\ Sampled(request) => call[Listener].req = SampledRequest(request)
  /\ lpc = "call" /\ Ignored(request) => call[Listener].pc = "returned"

Answered == lpc = "call" /\ call[Listener].pc = "returned" /\ call[Listener].outcome \in Successes
AnswerInv ==
  Answered =>
    /\ call[Listener].response.status \in Statuses
    /\ Durable(request.match, call[Listener].response)
    /\ Sampled(request) => /\ Committed(SampledRequest(request))
                           /\ Shows(signalFile[request.match])

ToldInv == /\ \A r \in acked : Committed(r)
           /\ \A line \in printed : Durable(line[1], line[2])

FatalInv == fatal # "none" => lpc \in {"loop", "stop"}

OwnInv == OwnTypes /\ RequestInv /\ OwnCallInv /\ AnswerInv /\ ToldInv /\ FatalInv

ListenerInv == StoreInv /\ OwnInv
-----------------------------------------------------------------------------
(* A sampled payload is a request: it is at a boundary of a game that has  *)
(* a match id and two valid teams.                                         *)
LEMMA SampledIsRequest ==
  ASSUME NEW p \in Payloads, Sampled(p)
  PROVE  /\ SampledRequest(p) \in Request /\ p.match \in Matches
         /\ SampledRequest(p).match = p.match /\ ~Ignored(p)
<1>1. p \in GsiPayload /\ ~Invalid(p) /\ ~Ignored(p)
  BY PayloadsAreGsi DEF Sampled
<1>2. /\ p.state \in {"in_progress", "other", "missing"} /\ p.clock \in Clocks
      /\ p.match \in Matches \cup {NoMatch} /\ p.teams \in Features \cup {BadTeams}
  BY <1>1 DEF GsiPayload
<1>3. ~NotInProgress(p) /\ ~OffBoundary(p) /\ p.state # "missing"
  BY <1>1 DEF Ignored, Invalid
<1>4. p.match # NoMatch /\ p.teams # BadTeams
  BY <1>1, <1>3 DEF Invalid
<1>5. p.clock >= 0
  <2>1. PICK t : t = p.clock
    OBVIOUS
  <2>2. ~(t < 0) /\ t \in Int
    BY <1>2, <1>3, <2>1, ClocksAreIntegers DEF NotInProgress
  <2> QED BY <2>1, <2>2
<1>6. p.clock \in Times
  BY <1>2, <1>3, <1>5, BoundariesAreTimes DEF OffBoundary
<1> QED BY <1>1, <1>2, <1>4, <1>6 DEF SampledRequest, Request, Snapshot

LEMMA IgnoredHasNote ==
  ASSUME NEW p \in Payloads
  PROVE  IgnoreNote(p) \in Notes
<1>1. p.clock \in Clocks
  BY PayloadsAreGsi DEF GsiPayload
<1> QED BY <1>1, NotesAreIgnoreReasons DEF IgnoreNote, IgnoreReason

LEMMA NoResultIsResult == NoResult \in Result
  BY AbsentIsSignal DEF NoResult, Result, Statuses

LEMMA DurableStays ==
  ASSUME NEW m, NEW signal, Durable(m, signal), raced \subseteq raced',
         \A n \in Matches \ raced' : historyFile[n] \subseteq historyFile'[n]
  PROVE  Durable(m, signal)'
  BY DEF Durable

LEMMA ToldStays ==
  ASSUME ToldInv, UNCHANGED <<acked, printed>>, raced \subseteq raced',
         \A n \in Matches \ raced' : historyFile[n] \subseteq historyFile'[n]
  PROVE  ToldInv'
<1>1. ASSUME NEW r \in acked PROVE Committed(r)'
  BY CommittedStays DEF ToldInv
<1>2. ASSUME NEW line \in printed PROVE Durable(line[1], line[2])'
  BY DEF ToldInv, Durable
<1> QED BY <1>1, <1>2 DEF ToldInv

(* Another process changes the store: it only adds to histories, and       *)
(* signals it replaces are computed from a whole history.                  *)
LEMMA OthersKeep ==
  ASSUME OwnInv, UNCHANGED listenerVars, call'[Listener] = call[Listener],
         raced \subseteq raced',
         \A m \in Matches \ raced' : historyFile[m] \subseteq historyFile'[m],
         \A m \in Matches \ raced' :
           signalFile'[m] = signalFile[m] \/ signalFile'[m].history = historyFile'[m]
  PROVE  OwnInv'
<1>1. UNCHANGED <<lpc, request, result, accepted, counts, idle, emitted, fatal,
                  exit, runs, acked, printed>>
  BY DEF listenerVars
<1>2. OwnTypes' /\ OwnCallInv' /\ FatalInv'
  BY <1>1 DEF OwnInv, OwnTypes, OwnCallInv, FatalInv
<1>3. ToldInv'
  BY <1>1, ToldStays DEF OwnInv
<1>4. ASSUME Committed(SampledRequest(request)), Sampled(request), request \in Payloads
      PROVE  /\ Committed(SampledRequest(request))'
             /\ Shows(signalFile[request.match]) => Shows(signalFile[request.match])'
  <2>1. PICK p \in Payloads : p = request
    BY <1>4
  <2>2. PICK r : r = SampledRequest(p)
    OBVIOUS
  <2>3. r = SampledRequest(request) /\ SampledRequest(request)' = r /\ request' = p /\ request = p
    BY <1>1, <2>1, <2>2 DEF SampledRequest
  <2>4. r.match = p.match /\ p.match \in Matches
    BY <1>4, <2>1, <2>2, SampledIsRequest
  <2>5. Committed(r)'
    BY <1>4, <2>3, CommittedStays
  <2>6. p.match \notin raced' => r.snap \in historyFile'[p.match]
    BY <2>4, <2>5 DEF Committed
  <2>7. Shows(signalFile[p.match]) => (p.match \notin raced' => r.snap \in signalFile'[p.match].history)
    BY <2>3, <2>4, <2>6 DEF Shows
  <2> QED BY <2>3, <2>5, <2>7 DEF Shows, Committed
<1>5. ASSUME NEW signal PROVE Durable(request.match, signal) => Durable(request.match, signal)'
  BY <1>1, DurableStays DEF Durable
<1>6. ASSUME NEW signal PROVE Shows(signal) => Shows(signal)'
  BY <1>1 DEF Shows, SampledRequest
<1>7. Sampled(request)' = Sampled(request) /\ Ignored(request)' = Ignored(request)
  BY <1>1 DEF Sampled, Ignored, Invalid, NotInProgress, OffBoundary
<1>8. RequestInv'
  <2>1. ASSUME lpc \in {"call"} \cup Ingested
        PROVE  request \in Payloads /\ (Sampled(request) \/ Ignored(request))
    BY <2>1 DEF OwnInv, RequestInv
  <2>2. ASSUME lpc \in Ingested, Sampled(request)
        PROVE  Committed(SampledRequest(request))'
    BY <1>4, <2>1, <2>2 DEF OwnInv, RequestInv
  <2>3. ASSUME lpc = "reread"
        PROVE  Sampled(request) /\ Shows(signalFile[request.match])'
    BY <1>4, <2>1, <2>3 DEF OwnInv, RequestInv, Ingested
  <2>4. ASSUME lpc \in Recording
        PROVE  /\ Durable(request.match, result.response)'
               /\ Sampled(request) => Shows(result.response)'
    <3>1. PICK signal : signal = result.response /\ signal = result'.response
      BY <1>1
    <3>2. Durable(request.match, signal) /\ (Sampled(request) => Shows(signal))
      BY <2>4, <3>1 DEF OwnInv, RequestInv
    <3>3. Durable(request.match, signal)' /\ (Sampled(request) => Shows(signal)')
      BY <1>5, <1>6, <3>2
    <3> QED BY <3>1, <3>3 DEF Durable, Shows
  <2> QED BY <1>1, <1>7, <2>1, <2>2, <2>3, <2>4 DEF RequestInv
<1>9. AnswerInv'
  <2> SUFFICES ASSUME Answered
               PROVE  /\ call[Listener].response.status \in Statuses
                      /\ Durable(request.match, call[Listener].response)'
                      /\ Sampled(request) => /\ Committed(SampledRequest(request))'
                                             /\ Shows(signalFile[request.match])'
    BY <1>1, <1>7 DEF AnswerInv, Answered
  <2>1. PICK signal : signal = call[Listener].response /\ signal = call'[Listener].response
    OBVIOUS
  <2>2. /\ signal.status \in Statuses /\ Durable(request.match, signal)
        /\ Sampled(request) => /\ Committed(SampledRequest(request))
                               /\ Shows(signalFile[request.match])
        /\ request \in Payloads
    BY <2>1 DEF OwnInv, AnswerInv, Answered, RequestInv
  <2>3. Durable(request.match, signal)'
    BY <1>5, <2>2
  <2> QED BY <1>4, <2>1, <2>2, <2>3 DEF Durable
<1> QED BY <1>2, <1>3, <1>8, <1>9 DEF OwnInv
-----------------------------------------------------------------------------
(* Steps of the listener that leave the store alone.                       *)
LEMMA FreshIsTyped ==
  ASSUME Fresh
  PROVE  /\ request' = BadRequest /\ result' \in Result /\ accepted' \in Nat
         /\ counts' \in [Statuses -> Nat] /\ idle' \in 0 .. IdleTimeout
         /\ emitted' \subseteq ConsoleLine /\ fatal' = "none"
  BY NoResultIsResult, IdleTimeoutIsPositive DEF Fresh

LEMMA HandledIsTyped ==
  ASSUME Handled
  PROVE  lpc' = "loop" /\ request' = BadRequest /\ result' \in Result
  BY NoResultIsResult DEF Handled

(* The process ends up with no request that has been taken on.             *)
LEMMA RestKeeps ==
  ASSUME OwnInv, UNCHANGED <<historyFile, raced>>, UNCHANGED <<acked, printed>>,
         lpc' \notin {"call"} \cup Ingested, call'[Listener].pc = "idle",
         OwnTypes', FatalInv'
  PROVE  OwnInv'
<1>1. RequestInv' /\ OwnCallInv' /\ AnswerInv'
  BY DEF RequestInv, OwnCallInv, AnswerInv, Answered, Ingested, Recording
<1>2. ToldInv'
  BY ToldStays DEF OwnInv
<1> QED BY <1>1, <1>2 DEF OwnInv

LEMMA StoreAlone ==
  ASSUME UNCHANGED storeVars
  PROVE  UNCHANGED <<historyFile, signalFile, modelBundle, call, raced>>
  BY DEF storeVars

LEMMA LoopKeeps ==
  ASSUME OwnInv, LoopCheck \/ SelectTimesOut
  PROVE  OwnInv'
<1>1. /\ lpc \in {"loop", "select"} /\ lpc' \in {"loop", "select", "stop"} /\ exit' \in Exits
      /\ UNCHANGED <<storeVars, request, result, accepted, counts, idle, emitted,
                     fatal, runs, acked, printed>>
      /\ lpc' \in {"loop", "select"} /\ fatal # "none" => lpc = "select"
  BY DEF LoopCheck, SelectTimesOut, OwnInv, OwnTypes, Exits
<1>2. call'[Listener].pc = "idle" /\ UNCHANGED <<historyFile, raced>>
  BY <1>1, StoreAlone DEF OwnInv, OwnCallInv
<1>3. OwnTypes'
  BY <1>1 DEF OwnInv, OwnTypes, ListenerPCs
<1>4. FatalInv'
  BY <1>1 DEF OwnInv, FatalInv
<1> QED BY <1>1, <1>2, <1>3, <1>4, RestKeeps DEF Ingested, Recording

LEMMA StartKeepsOwn ==
  ASSUME OwnInv, Start
  PROVE  OwnInv'
<1>1. /\ lpc = "down" /\ lpc' = "loop" /\ exit' = "none" /\ Fresh
      /\ UNCHANGED <<storeVars, acked, printed>> /\ runs < MaxRuns /\ runs' = runs + 1
  BY DEF Start
<1>2. runs' \in 0 .. MaxRuns
  BY <1>1, MaxRunsIsPositive DEF OwnInv, OwnTypes
<1>3. OwnTypes' /\ FatalInv'
  BY <1>1, <1>2, FreshIsTyped DEF OwnInv, OwnTypes, ListenerPCs, Fatals, Exits, FatalInv
<1>4. call'[Listener].pc = "idle" /\ UNCHANGED <<historyFile, raced>>
  BY <1>1, StoreAlone DEF OwnInv, OwnCallInv
<1> QED BY <1>1, <1>3, <1>4, RestKeeps DEF Ingested, Recording

LEMMA StopKeepsOwn ==
  ASSUME OwnInv, Stop
  PROVE  OwnInv'
<1>1. /\ lpc = "stop" /\ lpc' = "down" /\ exit' \in Exits /\ Fresh
      /\ UNCHANGED <<storeVars, runs, acked, printed>>
  BY DEF Stop, OwnInv, OwnTypes, Exits
<1>2. OwnTypes' /\ FatalInv'
  BY <1>1, FreshIsTyped DEF OwnInv, OwnTypes, ListenerPCs, Fatals, FatalInv
<1>3. call'[Listener].pc = "idle" /\ UNCHANGED <<historyFile, raced>>
  BY <1>1, StoreAlone DEF OwnInv, OwnCallInv
<1> QED BY <1>1, <1>2, <1>3, RestKeeps DEF Ingested, Recording

LEMMA ConnectKeeps ==
  ASSUME OwnInv, NEW p \in Payloads \cup {BadRequest}, Connect(p)
  PROVE  OwnInv'
<1>1. /\ lpc = "select" /\ lpc' = "read" /\ request' = p
      /\ UNCHANGED <<storeVars, result, accepted, counts, idle, emitted, fatal,
                     exit, runs, acked, printed>>
  BY DEF Connect
<1>2. OwnTypes' /\ FatalInv'
  BY <1>1 DEF OwnInv, OwnTypes, ListenerPCs, FatalInv
<1>3. call'[Listener].pc = "idle" /\ UNCHANGED <<historyFile, raced>>
  BY <1>1, StoreAlone DEF OwnInv, OwnCallInv
<1> QED BY <1>1, <1>2, <1>3, RestKeeps DEF Ingested, Recording

(* The request is given up, with or without a terminal failure.            *)
LEMMA GivenUpKeeps ==
  ASSUME OwnInv, lpc # "call", UNCHANGED storeVars, Handled, fatal' \in Fatals,
         UNCHANGED <<accepted, counts, idle, emitted, exit, runs, acked, printed>>
  PROVE  OwnInv'
<1>1. OwnTypes' /\ FatalInv'
  BY HandledIsTyped DEF OwnInv, OwnTypes, ListenerPCs, FatalInv
<1>2. call'[Listener].pc = "idle" /\ UNCHANGED <<historyFile, raced>>
  BY StoreAlone DEF OwnInv, OwnCallInv
<1> QED BY <1>1, <1>2, HandledIsTyped, RestKeeps DEF Ingested, Recording

LEMMA GiveUpSteps ==
  ASSUME OwnInv, PeerAborts \/ Refuse \/ RereadFails \/ ConsoleFails
  PROVE  OwnInv'
<1>1. /\ lpc # "call" /\ UNCHANGED storeVars /\ Handled /\ fatal' \in Fatals
      /\ UNCHANGED <<accepted, counts, idle, emitted, exit, runs, acked, printed>>
  BY DEF PeerAborts, Refuse, RereadFails, ConsoleFails, OwnInv, OwnTypes, Fatals
<1> QED BY <1>1, GivenUpKeeps

LEMMA ReplyKeeps ==
  ASSUME OwnInv, Reply
  PROVE  OwnInv'
<1>1. /\ lpc = "reply" /\ Handled
      /\ UNCHANGED <<storeVars, accepted, counts, idle, emitted, fatal, exit, runs, printed>>
      /\ acked' \in {acked, acked \cup {r \in Request :
                                          Sampled(request) /\ r = SampledRequest(request)}}
  BY DEF Reply
<1>2. UNCHANGED <<historyFile, raced, call>>
  BY <1>1, StoreAlone
<1>3. ASSUME NEW r \in acked' PROVE r \in Request /\ Committed(r)
  BY <1>1, <1>3 DEF OwnInv, OwnTypes, ToldInv, RequestInv, Ingested
<1>4. ToldInv'
  BY <1>1, <1>2, <1>3 DEF OwnInv, ToldInv, Committed, Durable
<1>5. OwnTypes' /\ FatalInv'
  BY <1>1, <1>3, HandledIsTyped DEF OwnInv, OwnTypes, ListenerPCs, FatalInv
<1>6. RequestInv' /\ OwnCallInv' /\ AnswerInv'
  BY <1>1, <1>2, HandledIsTyped
     DEF OwnInv, RequestInv, OwnCallInv, AnswerInv, Answered, Ingested, Recording
<1> QED BY <1>4, <1>5, <1>6 DEF OwnInv

(* The request is recorded: what was known of it is still known.           *)
LEMMA RecordKeeps ==
  ASSUME OwnInv, UNCHANGED <<storeVars, request, fatal, acked>>,
         lpc # "call", fatal = "none", lpc' \in {"reply"} \cup Recording, OwnTypes',
         request \in Payloads, Sampled(request) \/ Ignored(request),
         Sampled(request) => Committed(SampledRequest(request)),
         lpc' \in Recording => Durable(request.match, result'.response)
                               /\ (Sampled(request) => Shows(result'.response)),
         \A line \in printed' : Durable(line[1], line[2])
  PROVE  OwnInv'
<1>1. UNCHANGED <<historyFile, raced, call, signalFile>>
  BY StoreAlone
<1>2. Sampled(request)' = Sampled(request) /\ Ignored(request)' = Ignored(request)
      /\ SampledRequest(request)' = SampledRequest(request)
  BY DEF Sampled, Ignored, Invalid, NotInProgress, OffBoundary, SampledRequest
<1>3. RequestInv'
  BY <1>1, <1>2 DEF RequestInv, Ingested, Recording, Durable, Shows, Committed
<1>4. OwnCallInv' /\ AnswerInv' /\ FatalInv'
  BY <1>1 DEF OwnInv, OwnCallInv, AnswerInv, Answered, FatalInv, Recording
<1>5. ToldInv'
  BY <1>1 DEF OwnInv, ToldInv, Committed, Durable
<1> QED BY <1>3, <1>4, <1>5 DEF OwnInv

LEMMA CountKeeps ==
  ASSUME OwnInv, CountAccepted \/ CountStatus \/ TouchClock
  PROVE  OwnInv'
<1>1. /\ lpc \in {"count", "countStatus", "touch"} /\ lpc' \in {"countStatus", "touch", "console"}
      /\ UNCHANGED <<storeVars, request, result, emitted, fatal, exit, runs, acked, printed>>
  BY DEF CountAccepted, CountStatus, TouchClock
<1>2. accepted' \in Nat /\ idle' \in 0 .. IdleTimeout
  <2>1. idle' = idle \/ idle' = 0
    BY DEF CountAccepted, CountStatus, TouchClock
  <2>2. accepted' = accepted \/ accepted' = accepted + 1
    BY DEF CountAccepted, CountStatus, TouchClock
  <2> QED BY <2>1, <2>2, IdleTimeoutIsPositive DEF OwnInv, OwnTypes
<1>3. counts' \in [Statuses -> Nat]
  BY DEF CountAccepted, CountStatus, TouchClock, OwnInv, OwnTypes
<1>4. OwnTypes'
  BY <1>1, <1>2, <1>3 DEF OwnInv, OwnTypes, ListenerPCs
<1>5. fatal = "none" /\ lpc # "call"
  BY <1>1 DEF OwnInv, FatalInv
<1>6. /\ request \in Payloads /\ (Sampled(request) \/ Ignored(request))
      /\ Sampled(request) => Committed(SampledRequest(request)) /\ Shows(result.response)
      /\ Durable(request.match, result.response)
  BY <1>1 DEF OwnInv, RequestInv, Ingested, Recording
<1>7. \A line \in printed' : Durable(line[1], line[2])
  BY <1>1 DEF OwnInv, ToldInv
<1>8. lpc' \in Recording /\ result'.response = result.response
  BY <1>1 DEF Recording
<1> QED BY <1>1, <1>4, <1>5, <1>6, <1>7, <1>8, RecordKeeps

LEMMA RereadKeeps ==
  ASSUME StoreInv, OwnInv, RereadSignal
  PROVE  OwnInv'
<1>1. /\ lpc = "reread" /\ lpc' = "count"
      /\ result' = [result EXCEPT !.response = signalFile[request.match]]
      /\ UNCHANGED <<storeVars, request, accepted, counts, idle, emitted, fatal,
                     exit, runs, acked, printed>>
  BY DEF RereadSignal
<1>2. /\ request \in Payloads /\ Sampled(request) /\ Committed(SampledRequest(request))
      /\ Shows(signalFile[request.match])
  BY <1>1 DEF OwnInv, RequestInv, Ingested
<1>3. request.match \in Matches
  BY <1>2, SampledIsRequest
<1>4. signalFile[request.match] \in Signal /\ Durable(request.match, signalFile[request.match])
  BY <1>3 DEF StoreInv, StoreTypeOK, SignalBacked, Durable
<1>5. result' \in Result /\ result'.response = signalFile[request.match]
  BY <1>1, <1>4 DEF OwnInv, OwnTypes, Result
<1>6. OwnTypes'
  BY <1>1, <1>5 DEF OwnInv, OwnTypes, ListenerPCs
<1>7. fatal = "none" /\ \A line \in printed' : Durable(line[1], line[2])
  BY <1>1 DEF OwnInv, FatalInv, ToldInv
<1> QED BY <1>1, <1>2, <1>4, <1>5, <1>6, <1>7, RecordKeeps DEF Recording

LEMMA PrintKeeps ==
  ASSUME OwnInv, PrintLine
  PROVE  OwnInv'
<1>1. /\ lpc = "console" /\ lpc' = "reply"
      /\ UNCHANGED <<storeVars, request, result, accepted, counts, idle, fatal, exit, runs, acked>>
      /\ emitted' \subseteq emitted \cup {l \in {Announcement} : HasLine}
      /\ printed' \subseteq printed \cup {l \in {Announcement} : HasLine}
  BY DEF PrintLine
<1>2. /\ request \in Payloads /\ (Sampled(request) \/ Ignored(request))
      /\ Sampled(request) => Committed(SampledRequest(request))
      /\ Durable(request.match, result.response)
  BY <1>1 DEF OwnInv, RequestInv, Ingested, Recording
<1>3. Announcement \in ConsoleLine /\ Durable(Announcement[1], Announcement[2])
  <2>1. request.match \in Matches \cup {NoMatch}
    BY <1>2, PayloadsAreGsi DEF GsiPayload
  <2>2. result.response \in Signal
    BY DEF OwnInv, OwnTypes, Result
  <2> QED BY <1>2, <2>1, <2>2 DEF Announcement, ConsoleLine
<1>4. \A line \in printed' : Durable(line[1], line[2])
  BY <1>1, <1>3 DEF OwnInv, ToldInv
<1>5. OwnTypes'
  BY <1>1, <1>3 DEF OwnInv, OwnTypes, ListenerPCs
<1>6. fatal = "none"
  BY <1>1 DEF OwnInv, FatalInv
<1> QED BY <1>1, <1>2, <1>4, <1>5, <1>6, RecordKeeps DEF Recording

LEMMA IgnoreWithoutMatchKeeps ==
  ASSUME OwnInv, IgnoreWithoutMatch
  PROVE  OwnInv'
<1>1. /\ lpc = "read" /\ request # BadRequest /\ Ignored(request) /\ request.match = NoMatch
      /\ result' = [NoResult EXCEPT !.response = IgnoredSignal(IgnoreNote(request))]
      /\ lpc' = "count"
      /\ UNCHANGED <<storeVars, request, accepted, counts, idle, emitted, fatal,
                     exit, runs, acked, printed>>
  BY DEF IgnoreWithoutMatch
<1>2. request \in Payloads /\ ~Sampled(request)
  BY <1>1 DEF OwnInv, OwnTypes, Sampled
<1>3. IgnoredSignal(IgnoreNote(request)) \in Signal
  BY <1>2, IgnoredHasNote, IgnoredIsSignal
<1>4. result' \in Result
  BY <1>1, <1>3, NoResultIsResult DEF Result
<1>5. OwnTypes'
  BY <1>1, <1>4 DEF OwnInv, OwnTypes, ListenerPCs
<1>6. Durable(request.match, result'.response)
  BY <1>1, NoMatchIsNoMatch DEF Durable
<1>7. fatal = "none" /\ \A line \in printed' : Durable(line[1], line[2])
  BY <1>1 DEF OwnInv, FatalInv, ToldInv
<1> QED BY <1>1, <1>2, <1>5, <1>6, <1>7, RecordKeeps DEF Recording

(* Time passes.                                                            *)
LEMMA TickKeeps ==
  ASSUME OwnInv, Tick
  PROVE  OwnInv'
<1>1. /\ UNCHANGED <<historyFile, signalFile, call, raced>>
      /\ UNCHANGED <<lpc, request, result, accepted, counts, emitted, fatal, exit, runs, acked, printed>>
      /\ idle < IdleTimeout /\ idle' = idle + 1
  BY StoreAlone DEF Tick
<1>2. idle' \in 0 .. IdleTimeout
  BY <1>1, IdleTimeoutIsPositive DEF OwnInv, OwnTypes
<1>3. OwnTypes' /\ OwnCallInv' /\ ToldInv' /\ FatalInv'
  BY <1>1, <1>2 DEF OwnInv, OwnTypes, OwnCallInv, ToldInv, Committed, Durable, FatalInv,
     Sampled, Ignored, Invalid, NotInProgress, OffBoundary, SampledRequest
<1>4. RequestInv'
  BY <1>1 DEF OwnInv, RequestInv, Committed, Durable, Shows,
     Sampled, Ignored, Invalid, NotInProgress, OffBoundary, SampledRequest
<1>5. AnswerInv'
  BY <1>1 DEF OwnInv, AnswerInv, Answered, Committed, Durable, Shows,
     Sampled, Ignored, Invalid, NotInProgress, OffBoundary, SampledRequest
<1> QED BY <1>3, <1>4, <1>5 DEF OwnInv
-----------------------------------------------------------------------------
(* Steps in which the listener uses the store.                             *)
LEMMA SameRequest ==
  ASSUME request' = request
  PROVE  /\ Sampled(request)' = Sampled(request) /\ Ignored(request)' = Ignored(request)
         /\ SampledRequest(request)' = SampledRequest(request)
  BY DEF Sampled, Ignored, Invalid, NotInProgress, OffBoundary, SampledRequest

LEMMA OwnCallChanges ==
  ASSUME StoreInv, NEW c, call' = [call EXCEPT ![Listener] = c]
  PROVE  call'[Listener] = c
  BY ListenerIsWriter DEF StoreInv, StoreTypeOK

(* A call is begun, or an ignored payload published in one step.           *)
LEMMA CalledKeeps ==
  ASSUME OwnInv, lpc = "read", lpc' = "call", UNCHANGED <<historyFile, raced>>,
         UNCHANGED <<request, result, accepted, counts, idle, emitted, fatal,
                     exit, runs, acked, printed>>,
         request \in Payloads,
         \/ Sampled(request) /\ call'[Listener].pc = "load"
              /\ call'[Listener].req = SampledRequest(request)
         \/ Ignored(request) /\ ~Sampled(request) /\ call'[Listener].pc = "returned"
              /\ (call'[Listener].outcome \in Successes =>
                    /\ call'[Listener].response.status \in Statuses
                    /\ Durable(request.match, call'[Listener].response))
  PROVE  OwnInv'
<1>1. OwnTypes' /\ FatalInv'
  BY DEF OwnInv, OwnTypes, ListenerPCs, FatalInv
<1>2. ToldInv'
  BY ToldStays DEF OwnInv
<1>3. RequestInv'
  BY SameRequest DEF RequestInv, Ingested, Recording
<1>4. OwnCallInv'
  BY SameRequest DEF OwnCallInv, Sampled
<1>5. AnswerInv'
  BY SameRequest DEF AnswerInv, Answered, Durable
<1> QED BY <1>1, <1>2, <1>3, <1>4, <1>5 DEF OwnInv

LEMMA IngestPayloadKeeps ==
  ASSUME StoreInv, OwnInv, IngestPayload
  PROVE  StoreInv' /\ OwnInv'
<1>1. /\ lpc = "read" /\ lpc' = "call" /\ request # BadRequest /\ Sampled(request)
      /\ Begin(Listener, SampledRequest(request))
      /\ UNCHANGED <<request, result, accepted, counts, idle, emitted, fatal,
                     exit, runs, acked, printed>>
  BY DEF IngestPayload
<1>2. request \in Payloads
  BY <1>1 DEF OwnInv, OwnTypes
<1>3. SampledRequest(request) \in Request
  BY <1>1, <1>2, SampledIsRequest
<1>4. StoreInv'
  BY <1>1, <1>3, BeginPreserves, ListenerIsWriter
<1>5. PICK r : r = SampledRequest(request)
  OBVIOUS
<1>6. PICK c : c = [IdleCall EXCEPT !.pc = "load", !.req = r]
  OBVIOUS
<1>7. c.pc = "load" /\ c.req = r
  BY <1>6 DEF IdleCall
<1>8. call' = [call EXCEPT ![Listener] = c] /\ UNCHANGED <<historyFile, raced>>
  BY <1>1, <1>5, <1>6 DEF Begin
<1>9. call'[Listener] = c
  BY <1>8, OwnCallChanges
<1> QED BY <1>1, <1>2, <1>4, <1>5, <1>7, <1>8, <1>9, CalledKeeps

LEMMA IgnorePayloadKeeps ==
  ASSUME StoreInv, OwnInv, IgnorePayload
  PROVE  StoreInv' /\ OwnInv'
<1>1. /\ lpc = "read" /\ lpc' = "call" /\ request # BadRequest /\ Ignored(request)
      /\ request.match # NoMatch
      /\ PublishIgnored(Listener, request.match, IgnoreNote(request)) \/ PublishIgnoredFails(Listener)
      /\ UNCHANGED <<request, result, accepted, counts, idle, emitted, fatal,
                     exit, runs, acked, printed>>
  BY DEF IgnorePayload
<1>2. request \in Payloads /\ ~Sampled(request)
  BY <1>1 DEF OwnInv, OwnTypes, Sampled
<1>3. request.match \in Matches /\ IgnoreNote(request) \in Notes
  BY <1>1, <1>2, PayloadsAreGsi, IgnoredHasNote DEF GsiPayload
<1>4. StoreInv'
  BY <1>1, <1>3, PublishIgnoredPreserves, EndingPreserves, ListenerIsWriter
<1>5. UNCHANGED <<historyFile, raced>>
  BY <1>1 DEF PublishIgnored, PublishIgnoredFails
<1>6. CASE PublishIgnored(Listener, request.match, IgnoreNote(request))
  <2>1. PICK signal : signal = IgnoredSignal(IgnoreNote(request))
    OBVIOUS
  <2>2. signal.status = "ignored" /\ signal.history = {}
    BY <2>1 DEF IgnoredSignal, AbsentSignal
  <2>3. PICK outcome : call' = [call EXCEPT ![Listener] =
           [IdleCall EXCEPT !.pc = "returned", !.response = signal, !.outcome = outcome]]
    BY <1>6, <2>1 DEF PublishIgnored
  <2>4. PICK c : c = [IdleCall EXCEPT !.pc = "returned", !.response = signal, !.outcome = outcome]
    OBVIOUS
  <2>5. c.pc = "returned" /\ c.response = signal
    BY <2>4 DEF IdleCall
  <2>6. call'[Listener] = c
    BY <2>3, <2>4, OwnCallChanges
  <2>7. c.response.status \in Statuses /\ Durable(request.match, c.response)
    BY <2>2, <2>5 DEF Statuses, Durable
  <2> QED BY <1>1, <1>2, <1>4, <1>5, <2>5, <2>6, <2>7, CalledKeeps
<1>7. CASE PublishIgnoredFails(Listener)
  <2>1. PICK c : c = [IdleCall EXCEPT !.pc = "returned", !.outcome = "signal_error"]
    OBVIOUS
  <2>2. c.pc = "returned" /\ c.outcome = "signal_error"
    BY <2>1 DEF IdleCall
  <2>3. call'[Listener] = c
    BY <1>7, <2>1, OwnCallChanges DEF PublishIgnoredFails
  <2>4. c.outcome \notin Successes
    BY <2>2 DEF Successes
  <2> QED BY <1>1, <1>2, <1>4, <1>5, <2>2, <2>3, <2>4, CalledKeeps
<1> QED BY <1>1, <1>6, <1>7

LEMMA CallFailedKeeps ==
  ASSUME StoreInv, OwnInv, CallFailed
  PROVE  StoreInv' /\ OwnInv'
<1>1. /\ Return(Listener) /\ Handled /\ fatal' \in Fatals
      /\ UNCHANGED <<accepted, counts, idle, emitted, exit, runs, acked, printed>>
  BY DEF CallFailed, Fatals
<1>2. StoreInv'
  BY <1>1, EndingPreserves, ListenerIsWriter
<1>3. call'[Listener] = IdleCall /\ UNCHANGED <<historyFile, raced>>
  BY <1>1, OwnCallChanges DEF Return
<1>4. OwnTypes' /\ FatalInv'
  BY <1>1, HandledIsTyped DEF OwnInv, OwnTypes, ListenerPCs, FatalInv
<1>5. call'[Listener].pc = "idle"
  BY <1>3, IdleCallIsCall
<1> QED BY <1>1, <1>2, <1>3, <1>4, <1>5, HandledIsTyped, RestKeeps DEF Ingested, Recording

LEMMA CallSucceededKeeps ==
  ASSUME StoreInv, OwnInv, CallSucceeded
  PROVE  StoreInv' /\ OwnInv'
<1>1. PICK c : c = call[Listener]
  OBVIOUS
<1>2. /\ lpc = "call" /\ c.outcome \in Successes /\ Return(Listener)
      /\ result' = [status |-> c.outcome, responseStatus |-> c.response.status,
                    response |-> c.response]
      /\ lpc' = IF Sampled(request) THEN "reread" ELSE "count"
      /\ UNCHANGED <<request, accepted, counts, idle, emitted, fatal, exit, runs, acked, printed>>
  BY <1>1 DEF CallSucceeded, Successes
<1>3. StoreInv'
  BY <1>2, EndingPreserves, ListenerIsWriter
<1>4. c.pc = "returned" /\ call'[Listener] = IdleCall
      /\ UNCHANGED <<historyFile, raced, signalFile>>
  BY <1>1, <1>2, OwnCallChanges DEF Return
<1>5. /\ request \in Payloads /\ (Sampled(request) \/ Ignored(request))
      /\ c.response.status \in Statuses /\ Durable(request.match, c.response)
      /\ Sampled(request) => /\ Committed(SampledRequest(request))
                             /\ Shows(signalFile[request.match])
  BY <1>1, <1>2, <1>4 DEF OwnInv, RequestInv, AnswerInv, Answered
<1>6. c \in Call
  BY <1>1, ListenerIsWriter DEF StoreInv, StoreTypeOK
<1>7. result' \in Result /\ result'.response = c.response
  BY <1>2, <1>5, <1>6 DEF Result, Call, Successes
<1>8. OwnTypes'
  BY <1>2, <1>7 DEF OwnInv, OwnTypes, ListenerPCs
<1>9. RequestInv'
  <2>1. CASE Sampled(request)
    BY <1>2, <1>4, <1>5, <2>1, SameRequest DEF RequestInv, Recording, Committed, Shows
  <2>2. CASE ~Sampled(request)
    BY <1>2, <1>4, <1>5, <1>7, <2>2, SameRequest DEF RequestInv, Durable
  <2> QED BY <2>1, <2>2
<1>10. OwnCallInv' /\ AnswerInv' /\ FatalInv'
  BY <1>2, <1>4, IdleCallIsCall DEF OwnInv, OwnCallInv, AnswerInv, Answered, FatalInv
<1>11. ToldInv'
  BY <1>2, <1>4, ToldStays DEF OwnInv
<1> QED BY <1>3, <1>8, <1>9, <1>10, <1>11 DEF OwnInv

(* The process is interrupted or killed.                                   *)
LEMMA CutOffKeeps ==
  ASSUME StoreInv, OwnInv, Interrupt \/ Kill
  PROVE  StoreInv' /\ OwnInv'
<1>1. /\ call' = [call EXCEPT ![Listener] = IdleCall]
      /\ UNCHANGED <<historyFile, signalFile, modelBundle, raced>>
      /\ UNCHANGED <<runs, acked, printed>>
  BY DEF Interrupt, Kill
<1>2. StoreInv'
  <2>1. modelBundle' \in Models \cup {NoModel}
    BY <1>1 DEF StoreInv, StoreTypeOK
  <2> QED BY <1>1, <2>1, IdleCallIsCall, ListenerIsWriter, OneCallChanges
<1>3. call'[Listener].pc = "idle"
  BY <1>1, OwnCallChanges, IdleCallIsCall
<1>4. CASE Interrupt
  <2>1. /\ lpc' = "stop" /\ exit' = "interrupted" /\ request' = BadRequest /\ result' = NoResult
        /\ UNCHANGED <<accepted, counts, idle, emitted, fatal>>
    BY <1>4 DEF Interrupt
  <2>2. OwnTypes' /\ FatalInv'
    BY <1>1, <2>1, NoResultIsResult DEF OwnInv, OwnTypes, ListenerPCs, Exits, FatalInv
  <2> QED BY <1>1, <1>2, <1>3, <2>1, <2>2, RestKeeps DEF Ingested, Recording
<1>5. CASE Kill
  <2>1. lpc' = "down" /\ exit' = "none" /\ Fresh
    BY <1>5 DEF Kill
  <2>2. OwnTypes' /\ FatalInv'
    BY <1>1, <2>1, FreshIsTyped DEF OwnInv, OwnTypes, ListenerPCs, Exits, Fatals, FatalInv
  <2> QED BY <1>1, <1>2, <1>3, <2>1, <2>2, RestKeeps DEF Ingested, Recording
<1> QED BY <1>4, <1>5

LEMMA OwnStoreStep ==
  ASSUME StoreInv, OwnInv, ListenerStoreStep
  PROVE  StoreInv' /\ OwnInv'
<1>1. StoreStep(Listener) /\ UNCHANGED listenerVars
  BY DEF ListenerStoreStep
<1>2. /\ StoreInv' /\ raced \subseteq raced'
      /\ \A m \in Matches \ raced' : historyFile[m] \subseteq historyFile'[m]
  BY <1>1, ListenerIsWriter, StoreStepPreserves
<1>3. UNCHANGED <<lpc, request, result, accepted, counts, idle, emitted, fatal,
                  exit, runs, acked, printed>>
  BY <1>1 DEF listenerVars
<1>4. /\ call[Listener].pc \notin {"idle", "returned"} /\ call'[Listener].pc # "idle"
      /\ call'[Listener].req = call[Listener].req
      /\ call'[Listener].pc = "returned" /\ call'[Listener].outcome \in Successes
           => SuccessKnows(Listener)
  BY <1>1, ListenerIsWriter, CallGoesOn
<1>5. lpc = "call" /\ request \in Payloads /\ ~Ignored(request) /\ Sampled(request)
      /\ call[Listener].req = SampledRequest(request)
  BY <1>4 DEF OwnInv, OwnCallInv, RequestInv
<1>6. OwnTypes' /\ FatalInv'
  BY <1>3 DEF OwnInv, OwnTypes, FatalInv
<1>7. RequestInv'
  BY <1>3, <1>5, SameRequest DEF RequestInv, Ingested, Recording
<1>8. OwnCallInv'
  BY <1>3, <1>4, <1>5, SameRequest DEF OwnCallInv
<1>9. ToldInv'
  BY <1>2, <1>3, ToldStays DEF OwnInv
<1>10. AnswerInv'
  <2>1. PICK r : r = SampledRequest(request)
    OBVIOUS
  <2>2. SampledRequest(request)' = r /\ request' = request /\ request.match = r.match /\ r.match \in Matches
    BY <1>3, <1>5, <2>1, SameRequest, SampledIsRequest
  <2> SUFFICES ASSUME call'[Listener].pc = "returned", call'[Listener].outcome \in Successes
               PROVE  /\ call'[Listener].response.status \in Statuses
                      /\ Durable(request.match, call[Listener].response)'
                      /\ Committed(SampledRequest(request))'
                      /\ Shows(signalFile[request.match])'
    BY <1>3 DEF AnswerInv, Answered
  <2>3. PICK signal : signal = call'[Listener].response
    OBVIOUS
  <2>4. /\ UNCHANGED <<historyFile, raced>> /\ r \in Request
        /\ signal = signalFile'[r.match] /\ signal.status \in {"not_ready", "scored"}
        /\ r.snap \in signal.history
        /\ r.match \notin raced => signal.history = historyFile[r.match]
    BY <1>4, <1>5, <2>1, <2>3 DEF SuccessKnows
  <2>5. signal.status \in Statuses
    BY <2>4 DEF Statuses
  <2>6. Durable(request.match, call[Listener].response)'
    BY <2>2, <2>3, <2>4 DEF Durable
  <2>7. Committed(SampledRequest(request))'
    BY <2>2, <2>4 DEF Committed
  <2>8. Shows(signalFile[request.match])'
    BY <2>2, <2>4 DEF Shows
  <2> QED BY <2>3, <2>5, <2>6, <2>7, <2>8
<1> QED BY <1>2, <1>6, <1>7, <1>8, <1>9, <1>10 DEF OwnInv

(* The bundle is replaced, or nothing happens.                             *)
LEMMA CalmKeepsOwn ==
  ASSUME OwnInv, UNCHANGED listenerVars, UNCHANGED <<historyFile, signalFile, call, raced>>
  PROVE  OwnInv'
  BY OthersKeep

(* Every step of the listener process, whoever else uses the store.        *)
OwnStep ==
  \/ BodyArrives \/ ListenerStep \/ ListenerStoreStep
  \/ Start \/ (\E p \in Payloads \cup {BadRequest} : Connect(p))
  \/ Interrupt \/ Kill \/ Tick

LEMMA LocalStepLeavesStore ==
  ASSUME StoreInv,
         \/ Start \/ LoopCheck \/ SelectTimesOut \/ PeerAborts \/ Refuse \/ IgnoreWithoutMatch
         \/ RereadSignal \/ RereadFails \/ CountAccepted \/ CountStatus \/ TouchClock
         \/ ConsoleFails \/ PrintLine \/ Reply \/ Stop \/ Tick
         \/ \E p \in Payloads \cup {BadRequest} : Connect(p)
  PROVE  StoreInv'
<1>1. UNCHANGED storeVars
  BY DEF Start, LoopCheck, SelectTimesOut, PeerAborts, Refuse, IgnoreWithoutMatch,
     RereadSignal, RereadFails, CountAccepted, CountStatus, TouchClock, ConsoleFails,
     PrintLine, Reply, Stop, Tick, Connect
<1> QED BY <1>1, StutterPreserves

LEMMA OwnStepKeeps ==
  ASSUME StoreInv, OwnInv, OwnStep
  PROVE  StoreInv' /\ OwnInv'
<1>1. CASE BodyArrives
  BY <1>1, LocalStepLeavesStore, GiveUpSteps, IgnoreWithoutMatchKeeps, IgnorePayloadKeeps,
     IngestPayloadKeeps DEF BodyArrives
<1>2. CASE ListenerStep
  BY <1>2, LocalStepLeavesStore, LoopKeeps, CallFailedKeeps, CallSucceededKeeps, RereadKeeps,
     GiveUpSteps, CountKeeps, PrintKeeps, ReplyKeeps, StopKeepsOwn DEF ListenerStep
<1>3. CASE Start
  BY <1>3, LocalStepLeavesStore, StartKeepsOwn
<1>4. ASSUME NEW p \in Payloads \cup {BadRequest}, Connect(p) PROVE StoreInv' /\ OwnInv'
  BY <1>4, LocalStepLeavesStore, ConnectKeeps
<1>5. CASE Tick
  BY <1>5, LocalStepLeavesStore, TickKeeps
<1> QED BY <1>1, <1>2, <1>3, <1>4, <1>5, OwnStoreStep, CutOffKeeps DEF OwnStep

LEMMA OwnInitHolds ==
  ASSUME ListenerInit
  PROVE  ListenerInv
<1>1. StoreInv
  BY InitEstablishes DEF ListenerInit
<1>2. /\ lpc = "down" /\ request = BadRequest /\ result = NoResult /\ accepted = 0
      /\ counts = [s \in Statuses |-> 0] /\ idle = 0 /\ emitted = {} /\ fatal = "none"
      /\ exit = "none" /\ runs = 0 /\ acked = {} /\ printed = {} /\ StoreInit
  BY DEF ListenerInit
<1>3. OwnTypes
  BY <1>2, NoResultIsResult, IdleTimeoutIsPositive, MaxRunsIsPositive
     DEF OwnTypes, ListenerPCs, Fatals, Exits
<1>4. call[Listener].pc = "idle"
  BY <1>2, ListenerIsWriter, IdleCallIsCall DEF StoreInit
<1>5. RequestInv /\ OwnCallInv /\ AnswerInv /\ ToldInv /\ FatalInv
  BY <1>2, <1>4 DEF RequestInv, OwnCallInv, AnswerInv, Answered, ToldInv, FatalInv, Ingested, Recording
<1> QED BY <1>1, <1>3, <1>5 DEF ListenerInv, OwnInv

LEMMA ListenerNextKeeps == ListenerInv /\ [ListenerNext]_listenerAllVars => ListenerInv'
<1> SUFFICES ASSUME StoreInv, OwnInv, [ListenerNext]_listenerAllVars PROVE StoreInv' /\ OwnInv'
  BY DEF ListenerInv
<1>1. CASE OwnStep
  BY <1>1, OwnStepKeeps
<1>2. ASSUME NEW bundle \in Models \cup {NoModel}, ReplaceModel(bundle), UNCHANGED listenerVars
      PROVE  StoreInv' /\ OwnInv'
  <2>1. UNCHANGED <<historyFile, signalFile, call, raced>>
    BY <1>2 DEF ReplaceModel
  <2> QED BY <1>2, <2>1, ReplaceModelPreserves, CalmKeepsOwn
<1>3. CASE UNCHANGED listenerAllVars
  BY <1>3, StutterPreserves, CalmKeepsOwn, StoreAlone DEF listenerAllVars
<1> QED BY <1>1, <1>2, <1>3 DEF ListenerNext, ListenerEnvironment, OwnStep
-----------------------------------------------------------------------------
(* The listener and the store stay in agreement through any number of      *)
(* runs, interrupts and kills.                                             *)
THEOREM ListenerInvariant == ListenerSpec => []ListenerInv
<1>1. ListenerInit => ListenerInv
  BY OwnInitHolds
<1>2. ListenerInv /\ [ListenerNext]_listenerAllVars => ListenerInv'
  BY ListenerNextKeeps
<1> QED BY <1>1, <1>2, PTL DEF ListenerSpec

LEMMA OwnToldIsDurable ==
  ASSUME ListenerInv
  PROVE  ToldIsDurable
<1>1. ListenerTypeOK
  BY DEF ListenerInv, StoreInv, OwnInv, OwnTypes, ListenerTypeOK
<1>2. AckedIsDurable /\ PrintedIsDurable
  BY DEF ListenerInv, OwnInv, ToldInv, Committed, Durable, AckedIsDurable, PrintedIsDurable
<1> QED BY <1>1, <1>2 DEF ToldIsDurable

(* A snapshot answered with 200, and all snapshots behind a printed line,  *)
(* are on disk, whatever the listener is killed or interrupted in.         *)
THEOREM WhatIsToldIsDurable == ListenerSpec => []ToldIsDurable
<1>1. ListenerInv => ToldIsDurable
  BY OwnToldIsDurable
<1> QED BY <1>1, ListenerInvariant, PTL

(* After a terminal failure the process only leaves its loop: no file is   *)
(* written and nothing is counted any more.                                *)
THEOREM FatalFailuresAreFinal == ListenerSpec => FatalWritesNothing
<1>1. ASSUME ListenerInv, ListenerNext, fatal # "none"
      PROVE  UNCHANGED <<historyFile, signalFile>> /\ accepted' <= accepted
  <2>1. lpc \in {"loop", "stop"} /\ call[Listener].pc = "idle" /\ accepted \in Nat
    BY <1>1 DEF ListenerInv, OwnInv, FatalInv, OwnCallInv, OwnTypes
  <2>2. ~ListenerStoreStep
    BY <1>1, <2>1, ListenerIsWriter, CallGoesOn DEF ListenerInv, ListenerStoreStep
  <2>3. ~BodyArrives
    BY <2>1 DEF BodyArrives, PeerAborts, Refuse, IgnoreWithoutMatch, IgnorePayload, IngestPayload
  <2>4. CASE ListenerStep
    <3>1. LoopCheck \/ Stop
      BY <2>1, <2>4 DEF ListenerStep, SelectTimesOut, CallFailed, CallSucceeded, RereadSignal,
         RereadFails, CountAccepted, CountStatus, TouchClock, ConsoleFails, PrintLine, Reply
    <3> QED BY <2>1, <3>1, StoreAlone DEF LoopCheck, Stop, Fresh
  <2>5. CASE ListenerEnvironment
    BY <2>1, <2>5, StoreAlone
       DEF ListenerEnvironment, Start, Connect, Interrupt, Kill, Fresh, ReplaceModel, listenerVars
  <2>6. CASE Tick
    BY <2>1, <2>6, StoreAlone DEF Tick
  <2> QED BY <1>1, <2>2, <2>3, <2>4, <2>5, <2>6 DEF ListenerNext
<1>2. ListenerInv /\ [ListenerNext]_listenerAllVars =>
        [fatal # "none" => /\ UNCHANGED <<historyFile, signalFile>>
                           /\ accepted' <= accepted]_listenerAllVars
  BY <1>1
<1> QED BY <1>2, ListenerInvariant, PTL DEF ListenerSpec, FatalWritesNothing
-----------------------------------------------------------------------------
(***************************************************************************)
(* The listener and the bridge over one store.  Each process keeps its own *)
(* invariant; what remains to show is that it also keeps the invariant of  *)
(* the other, because it leaves the call of the other alone, only adds to  *)
(* histories outside raced, and replaces a signal only by one computed     *)
(* from the whole history.                                                 *)
(***************************************************************************)

PipelineInv == BridgeInv /\ OwnInv

LEMMA PipelineInitHolds == PipelineInit => PipelineInv
  BY InitHolds, OwnInitHolds DEF PipelineInit, PipelineInv, ListenerInv

LEMMA OneCallOnly ==
  ASSUME StoreInv, NEW w \in Writers, NEW c, call' = [call EXCEPT ![w] = c],
         NEW v \in Writers, v # w
  PROVE  call'[v] = call[v]
  BY DEF StoreInv, StoreTypeOK

(* What a step of the bridge does to the listener's part of the store.     *)
LEMMA BridgeLeavesListener ==
  ASSUME BridgeInv, BridgeStep
  PROVE  /\ call'[Listener] = call[Listener] /\ raced \subseteq raced'
         /\ \A m \in Matches \ raced' : historyFile[m] \subseteq historyFile'[m]
         /\ \A m \in Matches \ raced' :
              signalFile'[m] = signalFile[m] \/ signalFile'[m].history = historyFile'[m]
<1> DEFINE Left == /\ call'[Listener] = call[Listener] /\ raced \subseteq raced'
                   /\ \A m \in Matches \ raced' : historyFile[m] \subseteq historyFile'[m]
                   /\ \A m \in Matches \ raced' :
                        signalFile'[m] = signalFile[m] \/ signalFile'[m].history = historyFile'[m]
<1>1. StoreInv /\ Listener \in Writers \ {Jsonl} /\ Jsonl \in Writers
  BY ListenerIsWriter, JsonlIsWriter, WritersAreDistinct DEF BridgeInv
<1>2. ASSUME StoreStep(Jsonl) PROVE Left
  BY <1>1, <1>2, CallGoesOn, StoreStepPreserves, SignalsAreCurrent
<1>3. ASSUME UNCHANGED <<historyFile, signalFile, raced>>,
             call' = call \/ \E c : call' = [call EXCEPT ![Jsonl] = c]
      PROVE  Left
  BY <1>1, <1>3, OneCallOnly
<1>4. CASE Producer
  BY <1>3, <1>4, ProducerAppends
<1>5. CASE SyncStep
  BY <1>3, <1>5 DEF SyncStep, StartSync, PersistFirstCursor, RejectLine, IngestLine, Begin,
     LineIngested, LineFailed, Return, PersistCursor, WriteSummary, storeVars
<1>6. CASE JsonlStoreStep
  BY <1>2, <1>6 DEF JsonlStoreStep, StoreStep
<1>7. CASE JsonlFault
  BY <1>2, <1>3, <1>7 DEF JsonlFault, StageFails, BridgeWriteFails, CrashSync, StoreStep, storeVars
<1> QED BY <1>4, <1>5, <1>6, <1>7 DEF BridgeStep

(* What a step of the listener does to the bridge's part of the store.     *)
LEMMA ListenerLeavesBridge ==
  ASSUME StoreInv, OwnStep
  PROVE  /\ call'[Jsonl] = call[Jsonl] /\ raced \subseteq raced'
         /\ \A m \in Matches \ raced' : historyFile[m] \subseteq historyFile'[m]
<1> DEFINE Left == /\ call'[Jsonl] = call[Jsonl] /\ raced \subseteq raced'
                   /\ \A m \in Matches \ raced' : historyFile[m] \subseteq historyFile'[m]
<1>1. Jsonl \in Writers \ {Listener} /\ Listener \in Writers
  BY ListenerIsWriter, JsonlIsWriter, WritersAreDistinct
<1>2. ASSUME StoreStep(Listener) PROVE Left
  BY <1>1, <1>2, CallGoesOn, StoreStepPreserves
<1>3. ASSUME UNCHANGED <<historyFile, raced>>,
             call' = call \/ \E c : call' = [call EXCEPT ![Listener] = c]
      PROVE  Left
  BY <1>1, <1>3, OneCallOnly
<1>4. CASE BodyArrives
  BY <1>3, <1>4, StoreAlone DEF BodyArrives, PeerAborts, Refuse, IgnoreWithoutMatch, IgnorePayload,
     IngestPayload, Begin, PublishIgnored, PublishIgnoredFails
<1>5. CASE ListenerStep
  BY <1>3, <1>5, StoreAlone DEF ListenerStep, LoopCheck, SelectTimesOut, CallFailed, CallSucceeded,
     RereadSignal, RereadFails, CountAccepted, CountStatus, TouchClock, ConsoleFails, PrintLine,
     Reply, Stop, Return
<1>6. CASE ListenerStoreStep
  BY <1>2, <1>6 DEF ListenerStoreStep
<1>7. CASE Start \/ (\E p \in Payloads \cup {BadRequest} : Connect(p)) \/ Interrupt \/ Kill \/ Tick
  BY <1>3, <1>7, StoreAlone DEF Start, Connect, Interrupt, Kill, Tick
<1> QED BY <1>4, <1>5, <1>6, <1>7 DEF OwnStep

LEMMA PipelineNextKeeps == PipelineInv /\ [PipelineNext]_pipelineVars => PipelineInv'
<1> SUFFICES ASSUME BridgeInv, OwnInv, [PipelineNext]_pipelineVars PROVE BridgeInv' /\ OwnInv'
  BY DEF PipelineInv
<1>1. StoreInv
  BY DEF BridgeInv
<1>2. CASE BridgeRuns
  <2>1. BridgeStep /\ UNCHANGED listenerVars
    BY <1>2 DEF BridgeRuns, BridgeStep
  <2>2. BridgeInv'
    BY <2>1, BridgeStepKeeps
  <2>3. OwnInv'
    BY <2>1, BridgeLeavesListener, OthersKeep
  <2> QED BY <2>2, <2>3
<1>3. CASE ListenerRuns
  <2>1. OwnStep /\ UNCHANGED jsonlVars
    BY <1>3 DEF ListenerRuns, OwnStep
  <2>2. StoreInv' /\ OwnInv'
    BY <1>1, <2>1, OwnStepKeeps
  <2>3. BridgeInv'
    BY <1>1, <2>1, <2>2, ListenerLeavesBridge, OthersKeepBridge
  <2> QED BY <2>2, <2>3
<1>4. ASSUME StoreInv', UNCHANGED <<historyFile, signalFile, call, raced, jsonlVars, listenerVars>>
      PROVE  BridgeInv' /\ OwnInv'
  BY <1>4, OthersKeepBridge, CalmKeepsOwn
<1>5. CASE ModelTrained
  BY <1>1, <1>4, <1>5, ReplaceModelPreserves DEF ModelTrained, ReplaceModel
<1>6. CASE UNCHANGED pipelineVars
  BY <1>1, <1>4, <1>6, StutterPreserves, StoreAlone DEF pipelineVars
<1> QED BY <1>2, <1>3, <1>5, <1>6 DEF PipelineNext
-----------------------------------------------------------------------------
(* Both processes stay in agreement with the store they share, whatever    *)
(* falls between two file operations of either.                            *)
THEOREM PipelineInvariant == PipelineSpec => []PipelineInv
<1>1. PipelineInit => PipelineInv
  BY PipelineInitHolds
<1>2. PipelineInv /\ [PipelineNext]_pipelineVars => PipelineInv'
  BY PipelineNextKeeps
<1> QED BY <1>1, <1>2, PTL DEF PipelineSpec

(* What one process has acknowledged, printed or moved its cursor past is  *)
(* not undone by the other.                                                *)
THEOREM NothingIsUndone == PipelineSpec => []NothingUndone
<1>1. PipelineInv => NothingUndone
  <2> SUFFICES ASSUME PipelineInv PROVE NothingUndone
    OBVIOUS
  <2>1. CursorIngested
    BY PrefixIsIngested DEF PipelineInv
  <2>2. ListenerInv
    BY DEF PipelineInv, BridgeInv, ListenerInv
  <2>3. AckedIsDurable /\ PrintedIsDurable
    BY <2>2, OwnToldIsDurable DEF ToldIsDurable
  <2> QED BY <2>1, <2>3 DEF NothingUndone
<1> QED BY <1>1, PipelineInvariant, PTL

(* What the listener shows for a snapshot was computed from a history that *)
(* contains it, also when the bridge published in between.                 *)
THEOREM ShownContainsOwn == PipelineSpec => []ShownIsOwnOrNewer
<1>1. PipelineInv => ShownIsOwnOrNewer
  BY DEF PipelineInv, OwnInv, RequestInv, Recording, Shows, ShownIsOwnOrNewer
<1> QED BY <1>1, PipelineInvariant, PTL
=============================================================================
