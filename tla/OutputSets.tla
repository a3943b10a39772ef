----------------------------- MODULE OutputSets -----------------------------
(***************************************************************************)
(* The output sets of the replay pipeline: directories whose files belong  *)
(* together (rows and the manifest that names their hashes).  A build      *)
(* replaces a whole set: it writes the new one in a transaction directory, *)
(* moves the old one there, moves the new one in, and then removes the     *)
(* transaction.  Any of these calls may fail, the process may be killed    *)
(* between two of them, and another build may do the same beside it.       *)
(***************************************************************************)
EXTENDS Integers, FiniteSets

CONSTANTS
  Dirs,      \* output directories
  Workers,   \* processes that build
  NoSet      \* no directory there

VARIABLES
  sets,        \* sets[d] : the files of directory d, by name
  publishing,  \* publishing[w] : the replacement process w is in
  litter,      \* litter[d] : sets that stayed behind in transactions of d
  published,   \* published[d] : a set was in place once
  spoiled,     \* spoiled[d] : the removal of an old set failed midway
  faults       \* calls that may still fail, and processes be killed

outputVars == <<sets, publishing, litter, published, spoiled, faults>>

NoTransaction ==
  [at |-> "idle", dir |-> NoSet, new |-> NoSet, old |-> NoSet, failed |-> NoSet]

OutputsInit(failures) ==
  /\ sets = [d \in Dirs |-> NoSet]
  /\ publishing = [w \in Workers |-> NoTransaction]
  /\ litter = [d \in Dirs |-> {}]
  /\ published = [d \in Dirs |-> FALSE]
  /\ spoiled = [d \in Dirs |-> FALSE]
  /\ faults = failures

Only(set, names) == [name \in names |-> set[name]]

(* A directory can be moved to where nothing or an empty directory is.     *)
Vacant(d) == IF sets[d] = NoSet THEN TRUE ELSE DOMAIN sets[d] = {}

Busy(d) == {w \in Workers : publishing[w].at # "idle" /\ publishing[w].dir = d}

Fault == faults > 0 /\ faults' = faults - 1

Goes(w, transaction) == publishing' = [publishing EXCEPT ![w] = transaction]

Reaches(w, at) == publishing' = [publishing EXCEPT ![w].at = at]

-----------------------------------------------------------------------------
(* A build that has its files ready.                                       *)
StartPublishing(w, d, files) ==
  /\ Goes(w, [NoTransaction EXCEPT !.at = "prepare", !.dir = d, !.new = files])
  /\ UNCHANGED <<sets, litter, published, spoiled, faults>>

(* The new set is written file by file, each forced to the disk.           *)
PrepareNew(w) ==
  /\ publishing[w].at = "prepare"
  /\ \/ Reaches(w, "look") /\ UNCHANGED faults
     \/ Goes(w, NoTransaction) /\ Fault
  /\ UNCHANGED <<sets, litter, published, spoiled>>

LookForOld(w) ==
  /\ publishing[w].at = "look"
  /\ Reaches(w, IF sets[publishing[w].dir] = NoSet THEN "install" ELSE "move")
  /\ UNCHANGED <<sets, litter, published, spoiled, faults>>

(* Another build may have moved the old set away since it was seen.        *)
MoveOld(w) ==
  LET t == publishing[w]
  IN  /\ t.at = "move"
      /\ \/ /\ sets[t.dir] # NoSet
            /\ Goes(w, [t EXCEPT !.at = "install", !.old = sets[t.dir]])
            /\ sets' = [sets EXCEPT ![t.dir] = NoSet]
            /\ UNCHANGED faults
         \/ /\ sets[t.dir] = NoSet
            /\ Reaches(w, "clean")
            /\ UNCHANGED <<sets, faults>>
         \/ Fault /\ Reaches(w, "clean") /\ UNCHANGED sets
      /\ UNCHANGED <<litter, published, spoiled>>

(* A mutant: a failure to install goes straight to the clean-up.           *)
InstallWithoutRollback(w) ==
  LET t == publishing[w]
  IN  /\ t.at = "install"
      /\ \/ /\ Vacant(t.dir)
            /\ sets' = [sets EXCEPT ![t.dir] = t.new]
            /\ published' = [published EXCEPT ![t.dir] = TRUE]
            /\ Goes(w, [t EXCEPT !.at = IF t.old = NoSet THEN "clean" ELSE "remove",
                                 !.new = NoSet])
            /\ UNCHANGED faults
         \/ Fault /\ Reaches(w, "clean") /\ UNCHANGED <<sets, published>>
      /\ UNCHANGED <<litter, spoiled>>

InstallNew(w) ==
  LET t == publishing[w]
  IN  /\ t.at = "install"
      /\ \/ /\ Vacant(t.dir)
            /\ sets' = [sets EXCEPT ![t.dir] = t.new]
            /\ published' = [published EXCEPT ![t.dir] = TRUE]
            /\ Goes(w, [t EXCEPT !.at = IF t.old = NoSet THEN "clean" ELSE "remove",
                                 !.new = NoSet])
            /\ UNCHANGED faults
         \/ /\ ~Vacant(t.dir)
            /\ Reaches(w, "restore")
            /\ UNCHANGED <<sets, published, faults>>
         \/ Fault /\ Reaches(w, "restore") /\ UNCHANGED <<sets, published>>
      /\ UNCHANGED <<litter, spoiled>>

(* The removal may stop after some of the files.                           *)
RemoveOld(w) ==
  LET t == publishing[w]
  IN  /\ t.at = "remove"
      /\ \/ /\ Goes(w, [t EXCEPT !.at = "clean", !.old = NoSet])
            /\ UNCHANGED <<spoiled, faults>>
         \/ /\ Fault
            /\ \E names \in SUBSET DOMAIN t.old :
                 /\ Goes(w, [t EXCEPT !.at = "undo", !.old = Only(t.old, names)])
                 /\ spoiled' = [spoiled EXCEPT ![t.dir] = @ \/ names # DOMAIN t.old]
      /\ UNCHANGED <<sets, litter, published>>

(* The handler takes the directory that is in place for its own.           *)
UndoInstall(w) ==
  LET t == publishing[w]
  IN  /\ t.at = "undo"
      /\ \/ /\ Goes(w, [t EXCEPT !.at = "restore", !.failed = sets[t.dir]])
            /\ sets' = [sets EXCEPT ![t.dir] = NoSet]
            /\ UNCHANGED faults
         \/ sets[t.dir] # NoSet /\ Fault /\ Reaches(w, "retry") /\ UNCHANGED sets
      /\ UNCHANGED <<litter, published, spoiled>>

RestoreOld(w) ==
  LET t == publishing[w]
      Restored ==
        /\ sets' = [sets EXCEPT ![t.dir] = t.old]
        /\ Goes(w, [t EXCEPT !.at = "clean", !.old = NoSet])
        /\ UNCHANGED faults
  IN  /\ t.at = "restore"
      /\ \/ t.old = NoSet /\ Reaches(w, "clean") /\ UNCHANGED <<sets, faults>>
         \/ t.old # NoSet /\ Vacant(t.dir) /\ Restored
         \/ /\ t.old # NoSet /\ ~Vacant(t.dir)
            /\ Reaches(w, "retry")
            /\ UNCHANGED <<sets, faults>>
         \/ t.old # NoSet /\ Fault /\ Reaches(w, "retry") /\ UNCHANGED sets
      /\ UNCHANGED <<litter, published, spoiled>>

(* The last attempt, and if that fails too the transaction is kept.        *)
RetryRestore(w) ==
  LET t == publishing[w]
  IN  /\ t.at = "retry"
      /\ \/ /\ sets[t.dir] = NoSet
            /\ sets' = [sets EXCEPT ![t.dir] = t.old]
            /\ Goes(w, [t EXCEPT !.at = "clean", !.old = NoSet])
            /\ UNCHANGED <<litter, faults>>
         \/ /\ sets[t.dir] # NoSet
            /\ Reaches(w, "clean")
            /\ UNCHANGED <<sets, litter, faults>>
         \/ /\ sets[t.dir] = NoSet /\ Fault
            /\ litter' = [litter EXCEPT ![t.dir] = @ \cup {t.new, t.old, t.failed}]
            /\ Goes(w, NoTransaction)
            /\ UNCHANGED sets
      /\ UNCHANGED <<published, spoiled>>

(* What is left of the transaction is removed.                             *)
RemoveTransaction(w) ==
  /\ publishing[w].at = "clean"
  /\ Goes(w, NoTransaction)
  /\ UNCHANGED <<sets, litter, published, spoiled, faults>>

BuildKilled(w) ==
  LET t == publishing[w]
  IN  /\ t.at # "idle"
      /\ Fault
      /\ litter' = [litter EXCEPT ![t.dir] =
                      @ \cup (IF t.at = "prepare" THEN {} ELSE {t.new, t.old, t.failed})]
      /\ Goes(w, NoTransaction)
      /\ UNCHANGED <<sets, published, spoiled>>
=============================================================================
