----------------------------- MODULE Autopilot ------------------------------
(***************************************************************************)
(* The run-once and loop commands (app/cli.py, app/services): a process    *)
(* opens a session, makes a bounded number of passes over the matches in   *)
(* scope, and closes the session.  A pass saves the match, the utterances, *)
(* the odds, the candidates and the bets row by row, each in a transaction *)
(* of its own; a save that fails, an interrupt or a kill may come between  *)
(* any two, and the settlement commands run beside it.                     *)
(***************************************************************************)
EXTENDS BetSelection, BetSettlement

CONSTANTS
  Runs,        \* commands; each makes a session of its own
  Fetched,     \* matches the collector returns, in order
  OfferList,   \* odds the collector returns for a match, in order
  Transcripts, \* what the transcript file may hold: sequences of lines
  MaxPasses    \* iterations of the loop command

Modes == {"paper", "confirm", "auto", "signal"}

MatchRecord == [id : STRING, named : BOOLEAN, blocked : BOOLEAN,
                status : {"upcoming", "live", "finished", "cancelled"}]

ASSUME FetchedAreMatches == Fetched \in Seq(MatchRecord)
ASSUME FetchedIdsDiffer ==
  \A i, j \in DOMAIN Fetched : Fetched[i].id = Fetched[j].id => i = j
ASSUME OfferListHasOffers == OfferList \in Seq(Offers)
ASSUME TranscriptsAreLines == \A t \in Transcripts : t \in Seq(Line)
ASSUME MaxPassesIsPositive == MaxPasses \in Nat \ {0}

Ids == {Fetched[i].id : i \in DOMAIN Fetched}

(* A candidate and its bet get fresh ids in every pass.                    *)
ASSUME BetsAreCandidates ==
  Bets = [run : Runs, pass : 1 .. MaxPasses, match : Ids, offer : Offers]

VARIABLES
  sessions,    \* sessions[s] : the row of the session of command s
  matchRows,   \* <<s, match>>
  speechRows,  \* <<s, pass, match, number, line>>
  oddsRows,    \* <<s, match, offer>>
  candidates,  \* candidate rows
  run          \* run[s] : the process

autopilotVars == <<sessions, matchRows, speechRows, oddsRows, candidates, run>>
autopilotAllVars == <<settlementVars, autopilotVars>>

CandidateRow == [id : Bets, rule : Int, score : Int, decision : {"bet", "watch", "skip"}]

LoopStages == {"pass", "match", "speech", "odds", "score", "candidates", "select", "bets"}

Run == [pc     : LoopStages \cup {"off", "session", "model", "stop", "gone"},
        mode   : Modes,
        pass   : 0 .. MaxPasses,
        speech : Transcripts \cup {<<>>},  \* utterances of the pass
        queue  : Seq(Ids),  \* matches of the pass that are left
        todo   : Nat,       \* rows of the stage that were saved
        cands  : Seq([offer : Offers, rule : Int, score : Int,
                      decision : {"bet", "watch", "skip"}]),
        exit   : {"none", "ok", "failed", "killed"}]

NewRun == [pc |-> "off", mode |-> "paper", pass |-> 0, speech |-> <<>>, queue |-> <<>>,
           todo |-> 0, cands |-> <<>>, exit |-> "none"]

AutopilotTypeOK ==
  /\ SettlementTypeOK
  /\ sessions \in [Runs -> {"none", "active", "ended"}]
  /\ matchRows \subseteq Runs \X Ids
  /\ speechRows \subseteq Runs \X (1 .. MaxPasses) \X Ids \X Nat \X Line
  /\ oddsRows \subseteq Runs \X Ids \X Offers
  /\ candidates \subseteq CandidateRow
  /\ run \in [Runs -> Run]

AutopilotInit ==
  /\ SettlementInit
  /\ sessions = [s \in Runs |-> "none"]
  /\ matchRows = {}
  /\ speechRows = {}
  /\ oddsRows = {}
  /\ candidates = {}
  /\ run = [s \in Runs |-> NewRun]
-----------------------------------------------------------------------------
(* match_in_scope                                                          *)
InScope(match) ==
  match.named /\ ~match.blocked /\ match.status \in {"upcoming", "live"}

Scoped == {i \in DOMAIN Fetched : InScope(Fetched[i])}

(* The k-th smallest of a set of positions.                                *)
Nth(k, S) == CHOOSE i \in S : Cardinality({j \in S : j < i}) = k - 1

ScopedIds == [k \in 1 .. Cardinality(Scoped) |-> Fetched[Nth(k, Scoped)].id]

Current(s) == Head(run[s].queue)

BetOf(s, offer) ==
  [run |-> s, pass |-> run[s].pass, match |-> Current(s), offer |-> offer]

(* The process has ended; what its command line printed is left out.       *)
Gone(r, exit) ==
  [NewRun EXCEPT !.pc = "gone", !.mode = r.mode, !.pass = r.pass, !.exit = exit]

(* start_session and the first save_session, which may both raise.         *)
OpenSession(s, mode) ==
  /\ run[s].pc = "off"
  /\ \/ /\ sessions' = [sessions EXCEPT ![s] = "active"]
        /\ run' = [run EXCEPT ![s].pc = "model", ![s].mode = mode]
     \/ /\ run' = [run EXCEPT ![s] = Gone(@, "failed")]
        /\ UNCHANGED sessions
  /\ UNCHANGED <<settlementVars, matchRows, speechRows, oddsRows, candidates>>

(* _build_ml_predictor: not yet inside the try, so that a model file that  *)
(* cannot be loaded leaves the session row active.                         *)
LoadModel(s) ==
  /\ run[s].pc = "model"
  /\ \/ run' = [run EXCEPT ![s].pc = "pass", ![s].pass = 1]
     \/ run' = [run EXCEPT ![s].pc = "gone", ![s].exit = "failed"]
  /\ UNCHANGED <<settlementVars, sessions, matchRows, speechRows, oddsRows, candidates>>

(* The file is read once for the pass.                                     *)
BeginPass(s) ==
  /\ run[s].pc = "pass"
  /\ \E speech \in Transcripts :
       run' = [run EXCEPT ![s].pc = "match", ![s].queue = ScopedIds, ![s].speech = speech]
  /\ UNCHANGED <<settlementVars, sessions, matchRows, speechRows, oddsRows, candidates>>

SaveMatch(s) ==
  /\ run[s].pc = "match"
  /\ run[s].queue # <<>>
  /\ matchRows' = matchRows \cup {<<s, Current(s)>>}
  /\ run' = [run EXCEPT ![s].pc = "speech", ![s].todo = 0]
  /\ UNCHANGED <<settlementVars, sessions, speechRows, oddsRows, candidates>>

(* What was read is saved again for every match of the pass.               *)
SaveSpeech(s) ==
  LET k == run[s].todo + 1
  IN  /\ run[s].pc = "speech"
      /\ IF k \in DOMAIN run[s].speech
           THEN /\ speechRows' = speechRows \cup
                     {<<s, run[s].pass, Current(s), k, run[s].speech[k]>>}
                /\ run' = [run EXCEPT ![s].todo = k]
           ELSE /\ run' = [run EXCEPT ![s].pc = "odds", ![s].todo = 0]
                /\ UNCHANGED speechRows
      /\ UNCHANGED <<settlementVars, sessions, matchRows, oddsRows, candidates>>

SaveOdds(s) ==
  LET k == run[s].todo + 1
  IN  /\ run[s].pc = "odds"
      /\ IF k \in DOMAIN OfferList
           THEN /\ oddsRows' = oddsRows \cup {<<s, Current(s), OfferList[k]>>}
                /\ run' = [run EXCEPT ![s].todo = k]
           ELSE /\ run' = [run EXCEPT ![s].pc = "score", ![s].todo = 0]
                /\ UNCHANGED oddsRows
      /\ UNCHANGED <<settlementVars, sessions, matchRows, speechRows, candidates>>

(* Every candidate is scored before the first one is saved; the model may  *)
(* have no score for some.                                                 *)
ScoreCandidates(s) ==
  /\ run[s].pc = "score"
  /\ \E ml \in [DOMAIN OfferList -> Scores \cup {NoScore}] :
       run' = [run EXCEPT ![s].pc = "candidates",
                 ![s].cands = [k \in DOMAIN OfferList |->
                                 Scored(OfferList[k], run[s].speech, ml[k])]]
  /\ UNCHANGED <<settlementVars, sessions, matchRows, speechRows, oddsRows, candidates>>

SaveCandidate(s) ==
  LET k == run[s].todo + 1
      c == run[s].cands[k]
  IN  /\ run[s].pc = "candidates"
      /\ IF k \in DOMAIN run[s].cands
           THEN /\ candidates' = candidates \cup
                     {[id |-> BetOf(s, c.offer), rule |-> c.rule, score |-> c.score,
                       decision |-> c.decision]}
                /\ run' = [run EXCEPT ![s].todo = k]
           ELSE /\ run' = [run EXCEPT ![s].pc = "select", ![s].todo = 0]
                /\ UNCHANGED candidates
      /\ UNCHANGED <<settlementVars, sessions, matchRows, speechRows, oddsRows>>

Select(s) ==
  /\ run[s].pc = "select"
  /\ run' = [run EXCEPT ![s].pc = "bets", ![s].cands = SelectBets(@)]
  /\ UNCHANGED <<settlementVars, sessions, matchRows, speechRows, oddsRows, candidates>>

(* handle_candidate and save_bet: only paper mode places anything, and     *)
(* auto mode raises at the first selected candidate.                       *)
PlaceBet(s) ==
  /\ run[s].pc = "bets"
  /\ run[s].cands # <<>>
  /\ IF run[s].mode = "auto"
       THEN /\ run' = [run EXCEPT ![s].pc = "stop", ![s].exit = "failed"]
            /\ UNCHANGED settlementVars
       ELSE /\ run' = [run EXCEPT ![s].cands = Tail(@)]
            /\ IF run[s].mode = "paper"
                 THEN SaveBet(BetOf(s, Head(run[s].cands).offer))
                 ELSE UNCHANGED settlementVars
  /\ UNCHANGED <<sessions, matchRows, speechRows, oddsRows, candidates>>

NextMatch(s) ==
  /\ run[s].pc = "bets"
  /\ run[s].cands = <<>>
  /\ run' = [run EXCEPT ![s].pc = "match", ![s].queue = Tail(@)]
  /\ UNCHANGED <<settlementVars, sessions, matchRows, speechRows, oddsRows, candidates>>

EndPass(s) ==
  /\ run[s].pc = "match"
  /\ run[s].queue = <<>>
  /\ run' = IF run[s].pass < MaxPasses
               THEN [run EXCEPT ![s].pc = "pass", ![s].pass = @ + 1]
               ELSE [run EXCEPT ![s].pc = "stop", ![s].exit = "ok"]
  /\ UNCHANGED <<settlementVars, sessions, matchRows, speechRows, oddsRows, candidates>>

(* Mutant: an exception skips the end of the session.                      *)
PassFailsForGood(s) ==
  /\ run[s].pc \in LoopStages
  /\ run' = [run EXCEPT ![s].pc = "gone", ![s].exit = "failed"]
  /\ UNCHANGED <<settlementVars, sessions, matchRows, speechRows, oddsRows, candidates>>

(* A save or a collector raises, or the operator interrupts: the finally   *)
(* clause runs.                                                            *)
PassFails(s) ==
  /\ run[s].pc \in LoopStages
  /\ run' = [run EXCEPT ![s].pc = "stop", ![s].exit = "failed"]
  /\ UNCHANGED <<settlementVars, sessions, matchRows, speechRows, oddsRows, candidates>>

(* stop_session and the last save_session.                                 *)
CloseSession(s) ==
  /\ run[s].pc = "stop"
  /\ sessions' = [sessions EXCEPT ![s] = "ended"]
  /\ run' = [run EXCEPT ![s] = Gone(@, @.exit)]
  /\ UNCHANGED <<settlementVars, matchRows, speechRows, oddsRows, candidates>>

(* That save fails, or the process is killed: the row stays active.        *)
Kill(s) ==
  /\ run[s].pc \notin {"off", "gone"}
  /\ run' = [run EXCEPT ![s] = Gone(@, "killed")]
  /\ UNCHANGED <<settlementVars, sessions, matchRows, speechRows, oddsRows, candidates>>

Step(s) ==
  \/ LoadModel(s)
  \/ BeginPass(s)
  \/ SaveMatch(s)
  \/ SaveSpeech(s)
  \/ SaveOdds(s)
  \/ ScoreCandidates(s)
  \/ SaveCandidate(s)
  \/ Select(s)
  \/ PlaceBet(s)
  \/ NextMatch(s)
  \/ EndPass(s)
  \/ CloseSession(s)

Fault(s) == PassFails(s) \/ Kill(s)

AutopilotNext ==
  \/ \E s \in Runs : (\E mode \in Modes : OpenSession(s, mode)) \/ Step(s) \/ Fault(s)
  \/ \E p \in Settlers : SettlerStep(p) /\ UNCHANGED autopilotVars

AutopilotSpec == AutopilotInit /\ [][AutopilotNext]_autopilotAllVars

-----------------------------------------------------------------------------
Placed(s, pass, match) ==
  {b \in Recorded : b.run = s /\ b.pass = pass /\ b.match = match}

(* Every row refers to rows that were saved before it, so that no foreign  *)
(* key ever refuses a save, wherever an earlier pass was cut off.          *)
RowsResolve ==
  /\ \A m \in matchRows : sessions[m[1]] # "none"
  /\ \A u \in speechRows : <<u[1], u[3]>> \in matchRows
  /\ \A o \in oddsRows : <<o[1], o[2]>> \in matchRows
  /\ \A c \in candidates : <<c.id.run, c.id.match, c.id.offer>> \in oddsRows

ReferencesResolve ==
  RowsResolve /\ \A b \in Recorded : \E c \in candidates : c.id = b

(* The stored decision is the one of the stored score, with the model or   *)
(* without, and a bet is backed by a stored candidate that is one.         *)
DecisionsFollow == \A c \in candidates : c.decision = Decision(c.score)

BetsAreJustified ==
  /\ DecisionsFollow
  /\ \A b \in Recorded : \E c \in candidates : c.id = b /\ c.score >= Threshold

(* The utterances stored for a match in a pass, in their order.            *)
Heard(id) ==
  LET rows == {u \in speechRows : <<u[1], u[2], u[3]>> = <<id.run, id.pass, id.match>>}
  IN  [k \in 1 .. Cardinality(rows) |-> (CHOOSE u \in rows : u[4] = k)[5]]

(* A stored rule score is the one of the stored utterances and odds, also  *)
(* when the transcript is edited between passes; and an offer that is      *)
(* closed, poor or warned off is never bet on unless a model raised it.    *)
ScoredAsHeard ==
  \A c \in candidates :
    /\ c.rule = RuleScore(c.id.offer, Heard(c.id))
    /\ Unwise(c.id.offer, Heard(c.id)) /\ c.decision = "bet" => c.score > c.rule

(* With the types: every row can be traced back, from the bet to the       *)
(* session, at any moment (AutopilotService.run_once).                     *)
RowsJustified == AutopilotTypeOK /\ ReferencesResolve /\ BetsAreJustified /\ ScoredAsHeard

(* Of the bets of one pass on one match no two clash, and there are no     *)
(* more than the session allows, also when the pass is cut off.            *)
PassWithinCaps ==
  \A s \in Runs, pass \in 1 .. MaxPasses, match \in Ids :
    LET placed == Placed(s, pass, match)
    IN  /\ Cardinality(placed) <= MaxBets
        /\ \A a, b \in placed : a # b => ~Clash(a.offer, b.offer)

(* What the selection leaves out it had to: an eligible candidate is       *)
(* missing only if one at least as good clashes with it or the cap is      *)
(* filled by ones at least as good.                                        *)
NothingBetterLeftOut ==
  \A s \in Runs :
    run[s].pc = "select" =>
      LET all == run[s].cands
          chosen == SelectBets(all)
      IN  \A i \in DOMAIN all :
            (Eligible(all[i]) /\ ~Contains(chosen, all[i])) =>
              LET better == {j \in DOMAIN chosen : chosen[j].score >= all[i].score}
              IN  \/ \E j \in better : Clash(chosen[j].offer, all[i].offer)
                  \/ Cardinality(better) = MaxBets

(* Both: the greedy selection is safe and leaves nothing out (select_bets).*)
SelectionSound == PassWithinCaps /\ NothingBetterLeftOut

(* A command that entered its passes and was not killed leaves its session *)
(* ended, whatever failed in them.                                         *)
SessionClosed ==
  \A s \in Runs :
    (run[s].pc = "gone" /\ run[s].exit # "killed" /\ run[s].pass > 0)
    => sessions[s] = "ended"
=============================================================================
