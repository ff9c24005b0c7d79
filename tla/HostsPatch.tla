------------------------------ MODULE HostsPatch ------------------------------
(***************************************************************************)
(* The redirection of /etc/hosts that comes and goes with the proxy        *)
(* process: the hosts.patch step                                           *)
(* (src/internal/control/reversibility/steps/hosts_patch.go), the process  *)
(* that arms it at start and reverts it on a signal                        *)
(* (src/cmd/slimference/hosts_lifecycle.go, headless.go and the daemon),   *)
(* and the people who edit the same file meanwhile.                        *)
(*                                                                         *)
(* The content of the file is the set of its lines outside the fence and   *)
(* whether it holds a fenced block. The process may be killed at any step. *)
(***************************************************************************)
EXTENDS Naturals

CONSTANTS
  Line,         \* lines that may stand outside the fence
  NoBackup,     \* the backup file does not exist
  MaxStarts,    \* bound: starts of the process
  MaxEdits,     \* bound: edits of the hosts file by others
  MaxFlips,     \* bound: changes of sni_peek_mode in the configuration
  MaxRemovals   \* bound: removals of the backup directory

ASSUME HostsAssumption ==
  /\ MaxStarts \in Nat /\ MaxEdits \in Nat
  /\ MaxFlips \in Nat /\ MaxRemovals \in Nat

VARIABLES
  hosts,      \* /etc/hosts
  backup,     \* hosts.slimference.bak, or NoBackup
  gate,       \* the process: where it is, how it was started, what it holds
  wantOn,     \* sni_peek_mode in the configuration file
  written,    \* history: the lines the last person to edit the file left in it
  mishaps,    \* history: what has gone wrong or in between
  budget      \* bounds: starts, edits, flips and removals so far

hostsVars == <<hosts, backup, gate, wantOn, written, mishaps, budget>>

Content == [lines : SUBSET Line, block : BOOLEAN]

(* The steps of HostsPatch.Apply, and the one of Reverse after its read.   *)
Arming == {"reading", "saving", "patching"}
GateAt == {"off", "starting", "running", "undoing", "leaving"} \cup Arming

(* The cleanup function: none, one that does nothing, one that will        *)
(* reverse the patch, one that has been called.                            *)
Cleanup == {"none", "noop", "live", "spent"}

(* What leaves a block behind, until a reverse removes it. "killed": the   *)
(* process died while it was armed. "kept": it left by a path that does    *)
(* not revert. "stuck": a reverse failed.                                  *)
Orphaning == {"killed", "kept", "stuck"}

(* "fenced": a backup was taken of a file with a block. "torn": a backup   *)
(* was cut short. "raced": the file was edited between a read and a write  *)
(* of it. "edited": it was edited at rest, when a backup existed.          *)
Mishap == Orphaning \cup {"fenced", "torn", "raced", "edited"}

HostsTypeOK ==
  /\ hosts \in Content
  /\ backup \in Content \cup {NoBackup}
  /\ gate \in [at : GateAt, mode : {"headless", "daemon"}, armed : BOOLEAN,
               cleanup : Cleanup, read : Content, back : GateAt]
  /\ wantOn \in BOOLEAN
  /\ written \in SUBSET Line
  /\ mishaps \in SUBSET Mishap
  /\ budget \in [starts : 0..MaxStarts, edits : 0..MaxEdits,
                 flips : 0..MaxFlips, removals : 0..MaxRemovals]

Empty == [lines |-> {}, block |-> FALSE]
Off == [at |-> "off", mode |-> "headless", armed |-> FALSE,
        cleanup |-> "none", read |-> Empty, back |-> "off"]

HostsInit ==
  /\ hosts = [lines |-> Line, block |-> FALSE]
  /\ backup = NoBackup
  /\ gate = Off
  /\ wantOn \in BOOLEAN
  /\ written = Line
  /\ mishaps = {}
  /\ budget = [starts |-> 0, edits |-> 0, flips |-> 0, removals |-> 0]

-----------------------------------------------------------------------------
(* Arming: applyHostsPatch and HostsPatch.Apply.                           *)

(* The start of the process: startProxyFn and startProxyForDaemon.         *)
Start(mode) ==
  /\ gate.at = "off"
  /\ budget.starts < MaxStarts
  /\ gate' = [Off EXCEPT !.at = IF wantOn THEN "reading" ELSE "starting",
                         !.mode = mode, !.cleanup = "noop", !.back = "starting"]
  /\ budget' = [budget EXCEPT !.starts = @ + 1]
  /\ UNCHANGED <<hosts, backup, wantOn, written, mishaps>>

(* Any failure of the step is logged; the cleanup does nothing.            *)
ArmingFails ==
  /\ gate.at \in Arming
  /\ gate' = [gate EXCEPT !.at = gate.back, !.cleanup = "noop", !.read = Empty]
  /\ \/ UNCHANGED <<backup, mishaps>>
     \/ /\ gate.at = "saving" /\ backup = NoBackup
        /\ \E torn \in Content : /\ torn.lines \subseteq gate.read.lines
                                 /\ torn.block => gate.read.block
                                 /\ backup' = torn
        /\ mishaps' = mishaps \cup {"torn"}
                      \cup (IF gate.read.block THEN {"fenced"} ELSE {})
  /\ UNCHANGED <<hosts, wantOn, written, budget>>

ReadHosts ==
  /\ gate.at = "reading"
  /\ gate' = [gate EXCEPT !.at = "saving", !.read = hosts]
  /\ UNCHANGED <<hosts, backup, wantOn, written, mishaps, budget>>

(* writeBackup: an older backup is kept.                                   *)
WriteBackup ==
  /\ gate.at = "saving"
  /\ gate' = [gate EXCEPT !.at = "patching"]
  /\ IF backup = NoBackup
     THEN /\ backup' = gate.read
          /\ mishaps' = mishaps \cup (IF gate.read.block THEN {"fenced"} ELSE {})
     ELSE UNCHANGED <<backup, mishaps>>
  /\ UNCHANGED <<hosts, wantOn, written, budget>>

(* A mutant: the process forgets that it has patched the file.             *)
WritePatchedForgotten ==
  /\ gate.at = "patching"
  /\ hosts' = [gate.read EXCEPT !.block = TRUE]
  /\ gate' = [gate EXCEPT !.at = gate.back, !.read = Empty]
  /\ UNCHANGED <<backup, wantOn, written, mishaps, budget>>

(* The lines that were read, without their blocks, and a new block, by an  *)
(* atomic rename.                                                          *)
WritePatched ==
  /\ gate.at = "patching"
  /\ hosts' = [gate.read EXCEPT !.block = TRUE]
  /\ gate' = [gate EXCEPT !.at = gate.back, !.armed = TRUE, !.cleanup = "live",
                          !.read = Empty]
  /\ UNCHANGED <<backup, wantOn, written, mishaps, budget>>

(* The listener comes up, or the process ends with an error.               *)
ListenerUp ==
  /\ gate.at = "starting"
  /\ gate' = [gate EXCEPT !.at = "running"]
  /\ UNCHANGED <<hosts, backup, wantOn, written, mishaps, budget>>

ListenerFails ==
  /\ gate.at = "starting"
  /\ gate' = Off
  /\ mishaps' = mishaps \cup (IF gate.armed THEN {"kept"} ELSE {})
  /\ UNCHANGED <<hosts, backup, wantOn, written, budget>>

-----------------------------------------------------------------------------
(* Signals: reloadSNIPeekModeFromDisk and the exit of each kind of process. *)

(* A mutant: without a backup an empty file is written.                    *)
RunCleanupBlank(back) ==
  gate' = [gate EXCEPT !.at = "undoing", !.cleanup = "spent", !.back = back,
             !.read = IF backup # NoBackup THEN backup ELSE Empty]

(* The cleanup function runs once. Reverse will write the backup back, or  *)
(* without one the present file less its blocks.                           *)
RunCleanup(back) ==
  gate' = [gate EXCEPT !.at = "undoing", !.cleanup = "spent", !.back = back,
             !.read = IF backup # NoBackup THEN backup
                      ELSE [hosts EXCEPT !.block = FALSE]]

Reload ==
  /\ gate.at = "running"
  /\ \/ /\ wantOn /\ ~gate.armed
        /\ gate' = [gate EXCEPT !.at = "reading", !.back = "running"]
     \/ /\ ~wantOn /\ gate.armed
        /\ RunCleanup("running")
  /\ UNCHANGED <<hosts, backup, wantOn, written, mishaps, budget>>

(* SIGTERM. The headless process calls the cleanup before it shuts down;   *)
(* the daemon command has no such call.                                    *)
Terminate ==
  /\ gate.at = "running"
  /\ \/ /\ gate.mode = "headless" /\ gate.cleanup = "live"
        /\ RunCleanup("leaving")
        /\ UNCHANGED mishaps
     \/ /\ gate.mode = "headless" /\ gate.cleanup # "live"
        /\ gate' = [gate EXCEPT !.at = "leaving"]
        /\ UNCHANGED mishaps
     \/ /\ gate.mode = "daemon"
        /\ gate' = [gate EXCEPT !.at = "leaving"]
        /\ mishaps' = mishaps \cup (IF gate.armed THEN {"kept"} ELSE {})
  /\ UNCHANGED <<hosts, backup, wantOn, written, budget>>

(* After a reload the process forgets the cleanup and that it was armed,   *)
(* whatever came of the reverse.                                           *)
UndoEnds(ok) ==
  gate' = [gate EXCEPT !.at = gate.back, !.read = Empty,
             !.armed = gate.back = "leaving" /\ ~ok,
             !.cleanup = IF gate.back = "running" THEN "none" ELSE @]

UndoFails ==
  /\ gate.at = "undoing"
  /\ UndoEnds(FALSE)
  /\ mishaps' = mishaps \cup {"stuck"}
  /\ UNCHANGED <<hosts, backup, wantOn, written, budget>>

WriteBack ==
  /\ gate.at = "undoing"
  /\ hosts' = gate.read
  /\ UndoEnds(TRUE)
  /\ mishaps' = IF gate.read.block THEN mishaps ELSE mishaps \ Orphaning
  /\ UNCHANGED <<backup, wantOn, written, budget>>

Leave ==
  /\ gate.at = "leaving"
  /\ gate' = Off
  /\ UNCHANGED <<hosts, backup, wantOn, written, mishaps, budget>>

-----------------------------------------------------------------------------
(* What the process does not control.                                      *)

Kill ==
  /\ gate.at # "off"
  /\ gate' = Off
  /\ \/ /\ mishaps' = mishaps \cup (IF gate.armed THEN {"killed"} ELSE {})
        /\ UNCHANGED backup
     \/ /\ gate.at = "saving" /\ backup = NoBackup
        /\ \E torn \in Content : /\ torn.lines \subseteq gate.read.lines
                                 /\ torn.block => gate.read.block
                                 /\ backup' = torn
        /\ mishaps' = mishaps \cup {"torn"}
                      \cup (IF gate.read.block THEN {"fenced"} ELSE {})
                      \cup (IF gate.armed THEN {"killed"} ELSE {})
  /\ UNCHANGED <<hosts, wantOn, written, budget>>

(* Somebody saves the file with other lines; the block stays as it is.     *)
Edit ==
  /\ budget.edits < MaxEdits
  /\ budget' = [budget EXCEPT !.edits = @ + 1]
  /\ \E lines \in SUBSET Line : /\ hosts' = [hosts EXCEPT !.lines = lines]
                                /\ written' = lines
  /\ mishaps' = mishaps
       \cup (IF gate.at \in Arming \cup {"undoing"} THEN {"raced"} ELSE {})
       \cup (IF backup # NoBackup THEN {"edited"} ELSE {})
  /\ UNCHANGED <<backup, gate, wantOn>>

(* enable and disable.                                                     *)
Flip ==
  /\ budget.flips < MaxFlips
  /\ budget' = [budget EXCEPT !.flips = @ + 1]
  /\ wantOn' = ~wantOn
  /\ UNCHANGED <<hosts, backup, gate, written, mishaps>>

RemoveBackups ==
  /\ backup # NoBackup
  /\ budget.removals < MaxRemovals
  /\ budget' = [budget EXCEPT !.removals = @ + 1]
  /\ backup' = NoBackup
  /\ UNCHANGED <<hosts, gate, wantOn, written, mishaps>>

HostsNext ==
  \/ \E mode \in {"headless", "daemon"} : Start(mode)
  \/ ReadHosts \/ WriteBackup \/ WritePatched \/ ArmingFails
  \/ ListenerUp \/ ListenerFails
  \/ Reload \/ Terminate \/ WriteBack \/ UndoFails \/ Leave
  \/ Kill \/ Edit \/ Flip \/ RemoveBackups

HostsSpec == HostsInit /\ [][HostsNext]_hostsVars

-----------------------------------------------------------------------------
(* A redirection in the file belongs to a live process that will take it   *)
(* back, unless that process was killed, left by the daemon's or a failed  *)
(* start's exit, or failed to revert, or the backup it restored was itself *)
(* taken of a redirected file. Conversely an armed process is redirected.  *)
RedirectIsOwned ==
  /\ hosts.block => \/ gate.armed
                    \/ mishaps \cap (Orphaning \cup {"fenced"}) # {}
  /\ gate.armed => hosts.block

(* As long as nobody edits the file while a backup exists or between a     *)
(* read and a write of it, and no backup is cut short, every write of the  *)
(* process leaves the lines outside the fence as their author left them.   *)
LinesKeptUnlessEdited ==
  mishaps \cap {"edited", "raced", "torn"} = {} => hosts.lines = written
=============================================================================
