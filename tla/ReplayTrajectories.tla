------------------------ MODULE ReplayTrajectories --------------------------
(***************************************************************************)
(* A replay trajectory (app/replay_trajectory.py): the state of one match  *)
(* at every full minute, as the extractor exported it, and the import      *)
(* that keeps one artifact per match.  Of the eight aggregates of a team   *)
(* the model carries one, the net worth; the others are treated alike.     *)
(***************************************************************************)
EXTENDS Integers, Sequences, FiniteSets, FiniteSetsExt, SequencesExt

CONSTANTS
  Exports,         \* names of the files the extractor wrote
  Raw,             \* what each of them holds
  Trajectory,      \* the canonical content of every artifact there may be
  CopyNames,       \* names under which somebody may leave a copy by hand
  PlayersPerTeam,
  Importers,       \* import commands that may run side by side
  Nothing          \* an absent file, directory or value

TeamNames == {"RADIANT", "DIRE"}
DotaTeamNumbers == {2, 3}
SnapshotInterval == 60

(* Times of the source clock are in hundredths of a second, and may be off *)
(* the schedule by one of them.                                            *)
ClockTolerance == 1

-----------------------------------------------------------------------------
(* Validation.                                                             *)

Slots == 0 .. 2 * PlayersPerTeam - 1

SidePlayers(players, team) == {i \in DOMAIN players : players[i].team = team}

Distinct(seq) == Cardinality(ToSet(seq)) = Len(seq)

ValidItems(items) == Distinct(items)

ValidPlayers(players) ==
  /\ {players[i].slot : i \in DOMAIN players} = Slots
  /\ Len(players) = 2 * PlayersPerTeam
  /\ \A team \in TeamNames : Cardinality(SidePlayers(players, team)) = PlayersPerTeam
  /\ \A i \in DOMAIN players : ValidItems(players[i].items)

(* The total of a team is the sum over its players.                        *)
ValidTeams(teams, players) ==
  /\ Len(teams) = 2
  /\ {teams[i].team : i \in DOMAIN teams} = TeamNames
  /\ \A i \in DOMAIN teams :
       teams[i].worth = MapThenSumSet(LAMBDA p : players[p].worth,
                                      SidePlayers(players, teams[i].team))

Deviation(snapshot) ==
  LET off == snapshot.source - 100 * snapshot.time
  IN  IF off < 0 THEN -off ELSE off

(* One snapshot for every full minute from the start, on a clock that does *)
(* not run backwards and on ticks that advance.                            *)
ValidSnapshots(snapshots) ==
  /\ snapshots # <<>>
  /\ \A i \in DOMAIN snapshots :
       /\ snapshots[i].time = (i - 1) * SnapshotInterval
       /\ Deviation(snapshots[i]) <= ClockTolerance
       /\ ValidPlayers(snapshots[i].players)
       /\ ValidTeams(snapshots[i].teams, snapshots[i].players)
  /\ \A i \in 2 .. Len(snapshots) :
       /\ snapshots[i].source >= snapshots[i - 1].source
       /\ snapshots[i].tick > snapshots[i - 1].tick

ValidPause(pause) ==
  IF pause.ticks = 0 THEN pause.seconds = 0
                     ELSE pause.seconds > 0 /\ pause.witnessed

ValidDraft(draft) ==
  \A i \in DOMAIN draft : draft[i].team \in DotaTeamNumbers

ValidTrajectory(raw) ==
  /\ raw.winner \in DotaTeamNumbers
  /\ ValidDraft(raw.draft)
  /\ raw.clock = "PROVEN"
  /\ ValidPause(raw.pause)
  /\ ValidSnapshots(raw.snapshots)
  /\ LET last == Last(raw.snapshots).time
     IN  raw.end \in last .. last + SnapshotInterval - 1

(* What is written does not depend on the order in which the extractor     *)
(* listed players, items and teams.                                        *)
ByTeam(teams) ==
  [team \in TeamNames |-> (CHOOSE i \in DOMAIN teams : teams[i].team = team)]

CanonicalSnapshot(s) ==
  LET Player(n) == s.players[CHOOSE p \in DOMAIN s.players : s.players[p].slot = n]
  IN  [time |-> s.time, source |-> s.source, tick |-> s.tick,
       teams |-> [team \in TeamNames |-> s.teams[ByTeam(s.teams)[team]].worth],
       players |-> [n \in Slots |-> [team |-> Player(n).team, worth |-> Player(n).worth,
                                     items |-> ToSet(Player(n).items)]]]

Canonical(raw) ==
  [match |-> raw.match, sha |-> raw.sha, league |-> raw.league, winner |-> raw.winner,
   draft |-> raw.draft, pause |-> raw.pause, end |-> raw.end,
   snapshots |-> [i \in DOMAIN raw.snapshots |-> CanonicalSnapshot(raw.snapshots[i])]]

ValidExports == {e \in Exports : ValidTrajectory(Raw[e])}

(* The artifacts are the canonical contents of the valid exports; exports   *)
(* with the same canonical bytes become the same artifact.                  *)
Artifacts == DOMAIN Trajectory

ASSUME ArtifactsAreCanonical ==
  /\ {Canonical(Raw[e]) : e \in ValidExports} = {Trajectory[a] : a \in Artifacts}
  /\ \A a, b \in Artifacts : Trajectory[a] = Trajectory[b] => a = b

(* A match id is a positive integer, the snapshots are a list, and the net *)
(* worth of a team is a number.                                            *)
ASSUME ExportsAreTyped ==
  \A e \in ValidExports :
    /\ Raw[e].match \in Nat \ {0}
    /\ Len(Raw[e].snapshots) \in Nat
    /\ DOMAIN Raw[e].snapshots = 1 .. Len(Raw[e].snapshots)
    /\ \A i \in DOMAIN Raw[e].snapshots : \A k \in DOMAIN Raw[e].snapshots[i].teams :
         Raw[e].snapshots[i].teams[k].worth \in Nat

ArtifactOf == [e \in ValidExports |-> CHOOSE a \in Artifacts : Trajectory[a] = Canonical(Raw[e])]

(* The file of a match is named after it.                                  *)
FileOf(a) == Trajectory[a].match

(* Such a name is no match id: an import never looks there.                *)
ASSUME CopiesAreApart ==
  CopyNames \subseteq Nat /\ \A a \in Artifacts : FileOf(a) \notin CopyNames

-----------------------------------------------------------------------------
VARIABLES
  stored,      \* the trajectory directory: stored[name] is an artifact
  importing,   \* importing[i] : the import command i
  raced,       \* raced[i] : a file of its match appeared after its second look
  overwritten, \* matches whose file an import replaced by a different one
  importsLeft, \* imports, and copies left by hand, that are still to come
  copiesLeft

trajectoryVars == <<stored, importing, raced, overwritten, importsLeft, copiesLeft>>

NoImport == [at |-> "idle", artifact |-> Nothing]

TrajectoriesInit(imports, copies) ==
  /\ importsLeft = imports
  /\ copiesLeft = copies
  /\ stored = <<>>
  /\ overwritten = {}
  /\ importing = [i \in Importers |-> NoImport]
  /\ raced = [i \in Importers |-> FALSE]

Leave(i) == importing' = [importing EXCEPT ![i] = NoImport]

Proceed(i, to) == importing' = [importing EXCEPT ![i].at = to]

Target(i) == FileOf(importing[i].artifact)

ExistingArtifact(name) == name \in DOMAIN stored

(* An input that is no valid trajectory ends the command, and so does a    *)
(* file that is there already: the command reports that nothing changed,   *)
(* or refuses to overwrite it.                                             *)
LoadExport(i, e) ==
  /\ importing[i].at = "idle"
  /\ importsLeft > 0
  /\ importsLeft' = importsLeft - 1
  /\ e \in ValidExports
  /\ ~ExistingArtifact(FileOf(ArtifactOf[e]))
  /\ importing' = [importing EXCEPT ![i] = [at |-> "write", artifact |-> ArtifactOf[e]]]
  /\ raced' = [raced EXCEPT ![i] = FALSE]
  /\ UNCHANGED <<stored, overwritten, copiesLeft>>

(* The content goes to a file of its own first, which may fail.            *)
WriteTemporary(i) ==
  /\ importing[i].at = "write"
  /\ Proceed(i, "recheck") \/ Leave(i)
  /\ UNCHANGED <<stored, raced, overwritten, importsLeft, copiesLeft>>

RecheckExisting(i) ==
  /\ importing[i].at = "recheck"
  /\ IF ExistingArtifact(Target(i)) THEN Leave(i) ELSE Proceed(i, "replace")
  /\ UNCHANGED <<stored, raced, overwritten, importsLeft, copiesLeft>>

(* The rename looks at nothing: it overwrites what another import put      *)
(* there after the second look.                                            *)
ReplaceArtifact(i) ==
  /\ importing[i].at = "replace"
  /\ stored' = [name \in DOMAIN stored \cup {Target(i)} |->
                  IF name = Target(i) THEN importing[i].artifact ELSE stored[name]]
  /\ raced' = [j \in Importers |->
                 \/ raced[j]
                 \/ importing[j].at = "replace" /\ j # i /\ Target(j) = Target(i)]
  /\ overwritten' = overwritten \cup {name \in {Target(i)} \cap DOMAIN stored :
                                       stored[name] # importing[i].artifact}
  /\ Leave(i)
  /\ UNCHANGED <<importsLeft, copiesLeft>>

ImportKilled(i) ==
  /\ importing[i].at # "idle"
  /\ Leave(i)
  /\ UNCHANGED <<stored, raced, overwritten, importsLeft, copiesLeft>>

(* External: a file of a trajectory is put into the directory by hand.     *)
LeaveCopy(name, a) ==
  /\ copiesLeft > 0
  /\ copiesLeft' = copiesLeft - 1
  /\ name \notin DOMAIN stored
  /\ stored' = [n \in DOMAIN stored \cup {name} |-> IF n = name THEN a ELSE stored[n]]
  /\ UNCHANGED <<importing, raced, overwritten, importsLeft>>

ImportStep ==
  \E i \in Importers :
    \/ \E e \in Exports : LoadExport(i, e)
    \/ WriteTemporary(i)
    \/ RecheckExisting(i)
    \/ ReplaceArtifact(i)
    \/ ImportKilled(i)

CopyStep == \E name \in CopyNames, a \in Artifacts : LeaveCopy(name, a)

-----------------------------------------------------------------------------
(* An import is about to overwrite a file only if that file appeared after *)
(* its second look: everything that was there before is left alone, by any *)
(* interleaving of imports (replay_trajectory.py, import_replay_trajectory *)
(* and _write_atomic).                                                     *)
OverwriteNeedsRace ==
  \A i \in Importers :
    importing[i].at = "replace" /\ Target(i) \in DOMAIN stored => raced[i]
=============================================================================
