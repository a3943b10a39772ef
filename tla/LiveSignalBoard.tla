-------------------------- MODULE LiveSignalBoard ---------------------------
(***************************************************************************)
(* What the live state store promises its readers: per match, an           *)
(* append-only log of mutually consistent snapshots, and a board that      *)
(* always shows what was computed from the whole log as it then was, or    *)
(* that the last payload was ignored.  It says nothing of files, of calls  *)
(* in progress or of crashes; LiveStateSignal implements it.               *)
(***************************************************************************)
EXTENDS LiveStateHistory

VARIABLES
  log,     \* log[m]   : snapshots recorded for match m
  board    \* board[m] : what the reader of the signal of m sees

boardVars == <<log, board>>

Init ==
  /\ log = [m \in Matches |-> {}]
  /\ board = [m \in Matches |-> AbsentSignal]

(* A snapshot enters the log only when it contradicts nothing in it.       *)
Record(m, snap) ==
  /\ ~Conflicts(log[m], snap)
  /\ log' = [log EXCEPT ![m] = @ \cup {snap}]
  /\ UNCHANGED board

(* The board is computed from the current log, never from an older one.    *)
Publish(m, bundle) ==
  /\ log[m] # {}
  /\ board' = [board EXCEPT ![m] = Response(log[m], bundle)]
  /\ UNCHANGED log

Dismiss(m, note) ==
  /\ board' = [board EXCEPT ![m] = IgnoredSignal(note)]
  /\ UNCHANGED log

Next ==
  \E m \in Matches :
    \/ \E snap \in Snapshot : Record(m, snap)
    \/ \E bundle \in Models : Publish(m, bundle)
    \/ \E note \in Notes : Dismiss(m, note)

Spec == Init /\ [][Next]_boardVars
=============================================================================
