------------------------------ MODULE Watcher -------------------------------
(***************************************************************************)
(* Config hot reload (internal/config/watcher.go): main loads the file,    *)
(* starts the watcher some time later, and from then on a goroutine polls  *)
(* the file's mtime and hands every config that loads to engine.Reload.    *)
(*                                                                         *)
(* The file belongs to somebody else: it is written, and made unreadable   *)
(* and readable again, between any two steps of the program.  A write      *)
(* gets a later mtime than the one before it; what happens when it does    *)
(* not is outside the model.                                               *)
(***************************************************************************)
EXTENDS Integers

CONSTANT MaxWrites  \* bound on the writes of the file

ASSUME WatcherAssumption == MaxWrites \in Nat

VARIABLES
    file,     \* the config file: content (a version), mtime, and if Load accepts it
    phase,    \* main: "loading" and "starting", then "serving" and "stopping"
    pc,       \* the goroutine: "none", "idle", "load" (in check, after Stat), "done"
    stat,     \* check: the mtime that os.Stat returned
    lastMod,  \* Watcher.lastMod
    applied,  \* the version that the engine runs with
    gap       \* history: the file was written between main's Load and Start

watcherVars == <<file, phase, pc, stat, lastMod, applied, gap>>

WatcherTypeOK ==
    /\ file \in [content : 1..MaxWrites + 1, mtime : 1..MaxWrites + 1, ok : BOOLEAN]
    /\ phase \in {"loading", "starting", "serving", "stopping", "exited"}
    /\ pc \in {"none", "idle", "load", "done"}
    /\ stat \in 0..file.mtime
    /\ lastMod \in 0..file.mtime
    /\ applied \in 0..file.content
    /\ gap \in BOOLEAN

WatcherInit ==
    /\ file \in [content : {1}, mtime : {1}, ok : BOOLEAN]
    /\ phase = "loading"
    /\ pc = "none"
    /\ stat = 0
    /\ lastMod = 0
    /\ applied = 0
    /\ gap = FALSE

(***************************************************************************)
(* The owner of the file                                                   *)
(***************************************************************************)

\* The file gets new content; a half-written or invalid one does not load.
Write ==
    /\ file.mtime <= MaxWrites
    /\ \E ok \in BOOLEAN :
           file' = [content |-> file.content + 1, mtime |-> file.mtime + 1, ok |-> ok]
    /\ gap' = (gap \/ phase = "starting")
    /\ UNCHANGED <<phase, pc, stat, lastMod, applied>>

\* The file becomes readable, or unreadable, with its content and mtime as they were.
Permit ==
    /\ \E ok \in BOOLEAN : ok # file.ok /\ file' = [file EXCEPT !.ok = ok]
    /\ UNCHANGED <<phase, pc, stat, lastMod, applied, gap>>

\* Load: the file can be read, its variables are set and the YAML parses.
Loads == file.ok

(***************************************************************************)
(* main                                                                    *)
(***************************************************************************)

\* main's Load; a config that does not load ends the program.
LoadFirst ==
    /\ phase = "loading"
    /\ IF Loads
       THEN phase' = "starting" /\ applied' = file.content
       ELSE phase' = "exited" /\ UNCHANGED applied
    /\ UNCHANGED <<file, pc, stat, lastMod, gap>>

\* Start seeds lastMod, if os.Stat finds the file.
Start ==
    /\ phase = "starting"
    /\ phase' = "serving"
    /\ \/ lastMod' = file.mtime
       \/ ~Loads /\ UNCHANGED lastMod
    /\ pc' = "idle"
    /\ UNCHANGED <<file, stat, applied, gap>>

\* SIGINT or SIGTERM: Stop closes the channel, from then on the loop may leave.
Stop ==
    /\ phase = "serving"
    /\ phase' = "stopping"
    /\ UNCHANGED <<file, pc, stat, lastMod, applied, gap>>

(***************************************************************************)
(* The goroutine: loop and check                                           *)
(***************************************************************************)

\* A tick of the ticker: check reads the mtime and goes on if it is new.
Stat ==
    /\ pc = "idle"
    /\ file.mtime > lastMod
    /\ stat' = file.mtime
    /\ pc' = "load"
    /\ UNCHANGED <<file, phase, lastMod, applied, gap>>

\* Variant: lastMod is remembered even if the file does not load.
LoadSwapped ==
    /\ pc = "load"
    /\ pc' = "idle"
    /\ lastMod' = stat
    /\ applied' = IF Loads THEN file.content ELSE applied
    /\ UNCHANGED <<file, phase, stat, gap>>

\* The rest of check: the file as it is by now is loaded and handed to onChange;
\* one that does not load is tried again at the next tick.
Load ==
    /\ pc = "load"
    /\ pc' = "idle"
    /\ IF Loads
       THEN lastMod' = stat /\ applied' = file.content
       ELSE UNCHANGED <<lastMod, applied>>
    /\ UNCHANGED <<file, phase, stat, gap>>

\* Variant: the loop tests the channel only after the file changed.
LeaveLate ==
    /\ pc = "idle"
    /\ phase = "stopping"
    /\ file.mtime > lastMod
    /\ pc' = "done"
    /\ UNCHANGED <<file, phase, stat, lastMod, applied, gap>>

\* The loop receives from the closed channel; the select may also take a tick.
Leave ==
    /\ pc = "idle"
    /\ phase = "stopping"
    /\ pc' = "done"
    /\ UNCHANGED <<file, phase, stat, lastMod, applied, gap>>

WatcherNext == Write \/ Permit \/ LoadFirst \/ Start \/ Stop \/ Stat \/ Load \/ Leave

WatcherSpec == WatcherInit /\ [][WatcherNext]_watcherVars

\* main and the loop go on; select picks a closed channel with probability 1/2.
WatcherFairSpec ==
    /\ WatcherSpec
    /\ WF_watcherVars(LoadFirst) /\ WF_watcherVars(Start)
    /\ WF_watcherVars(Stat) /\ WF_watcherVars(Load)
    /\ SF_watcherVars(Leave)

(***************************************************************************)
(* Properties                                                              *)
(***************************************************************************)

\* Between two checks, a file that check would not look at again is the one the
\* engine runs with, even if it was written while check was reading it.  The
\* exception is a file written between main's Load and Start, until the watcher
\* has picked up a later one.
InSync ==
    WatcherTypeOK /\ (pc = "idle" /\ file.mtime <= lastMod /\ ~(gap /\ stat = 0) => applied = file.content)

\* Once the file is left alone and loads, the engine ends up running with it,
\* whatever failed before; the exception is a write between Load and Start.
PicksUpChanges ==
    \A v \in 1..MaxWrites + 1 :
        <>[](phase = "serving" /\ file.content = v /\ file.ok) =>
            <>[](applied = v \/ (gap /\ stat = 0))

\* Stop ends the goroutine, also when it comes in the middle of a check.
StopEnds == phase = "stopping" ~> pc = "done"
=============================================================================
