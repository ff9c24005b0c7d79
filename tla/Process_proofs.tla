---------------------------- MODULE Process_proofs ----------------------------
(***************************************************************************)
(* Theorems about parts of the process that keep to themselves: the        *)
(* patched hosts file (HostsPatch), the health monitor's ring              *)
(* (HealthMonitor), the recertification of Codex (Recert), the commands    *)
(* that change the host (Install), the telemetry of the WebSocket          *)
(* dispatcher (Dispatcher), and the hooks' turn state (HookState).         *)
(***************************************************************************)
EXTENDS HostsPatch, HealthMonitor, Recert, Install, Dispatcher, HookState,
        SequenceTheorems, FiniteSetTheorems, TLAPS

-----------------------------------------------------------------------------
(* The hosts file: its types, who owns a redirection that stands in it,    *)
(* and what becomes of the other lines, for every set of lines and every   *)
(* number of starts, edits, flips and removals.                            *)

LEMMA ContentParts ==
  ASSUME NEW c \in Content
  PROVE  /\ c.lines \in SUBSET Line /\ c.block \in BOOLEAN
         /\ \A b \in BOOLEAN : [c EXCEPT !.block = b] \in Content
         /\ \A b \in BOOLEAN : /\ [c EXCEPT !.block = b].lines = c.lines
                               /\ [c EXCEPT !.block = b].block = b
         /\ \A l \in SUBSET Line : [c EXCEPT !.lines = l] \in Content
         /\ \A l \in SUBSET Line : /\ [c EXCEPT !.lines = l].lines = l
                                   /\ [c EXCEPT !.lines = l].block = c.block
BY DEF Content

(* The records of HostsTypeOK, by their names.                             *)
Gate == [at : GateAt, mode : {"headless", "daemon"}, armed : BOOLEAN,
         cleanup : Cleanup, read : Content, back : GateAt]
Budget == [starts : 0..MaxStarts, edits : 0..MaxEdits,
           flips : 0..MaxFlips, removals : 0..MaxRemovals]

LEMMA OffType == Off \in Gate
BY DEF Off, Gate, Empty, Content, Cleanup, GateAt

LEMMA GateTypes ==
  ASSUME HostsTypeOK
  PROVE  gate \in Gate /\ budget \in Budget /\ hosts \in Content
BY DEF HostsTypeOK, Gate, Budget

LEMMA HostsTypeInit == HostsInit => HostsTypeOK
BY HostsAssumption, OffType
   DEF HostsInit, HostsTypeOK, Content, Gate

LEMMA HostsTypeStep == HostsTypeOK /\ [HostsNext]_hostsVars => HostsTypeOK'
<1> SUFFICES ASSUME HostsTypeOK, [HostsNext]_hostsVars PROVE HostsTypeOK'
  OBVIOUS
<1>g. gate \in Gate /\ hosts \in Content /\ budget \in Budget
  BY GateTypes
<1> USE DEF Mishap, Orphaning
<1>1. ASSUME NEW mode \in {"headless", "daemon"}, Start(mode) PROVE HostsTypeOK'
  <2>1. gate' \in Gate
    BY <1>1, OffType DEF Start, Gate, GateAt, Arming, Cleanup
  <2>2. budget' \in Budget
    BY <1>1, <1>g, HostsAssumption DEF Start, Budget
  <2>3. QED BY <1>1, <2>1, <2>2 DEF Start, HostsTypeOK, Gate, Budget
<1>2. CASE ArmingFails
  <2>1. gate' \in Gate
    BY <1>2, <1>g DEF ArmingFails, Gate, Cleanup, Empty, Content
  <2>2. QED BY <1>2, <2>1 DEF ArmingFails, HostsTypeOK, Gate
<1>3. CASE ReadHosts
  <2>1. gate' \in Gate
    BY <1>3, <1>g DEF ReadHosts, Gate, GateAt, Arming
  <2>2. QED BY <1>3, <2>1 DEF ReadHosts, HostsTypeOK, Gate
<1>4. CASE WriteBackup
  <2>1. gate' \in Gate
    BY <1>4, <1>g DEF WriteBackup, Gate, GateAt, Arming
  <2>2. gate.read \in Content
    BY <1>g DEF Gate
  <2>3. QED BY <1>4, <2>1, <2>2 DEF WriteBackup, HostsTypeOK, Gate
<1>5. CASE WritePatched
  <2>1. gate' \in Gate
    BY <1>5, <1>g DEF WritePatched, Gate, Cleanup, Empty, Content
  <2>2. hosts' \in Content
    BY <1>5, <1>g, ContentParts DEF WritePatched, Gate
  <2>3. QED BY <1>5, <2>1, <2>2 DEF WritePatched, HostsTypeOK, Gate
<1>6. CASE ListenerUp
  <2>1. gate' \in Gate
    BY <1>6, <1>g DEF ListenerUp, Gate, GateAt
  <2>2. QED BY <1>6, <2>1 DEF ListenerUp, HostsTypeOK, Gate
<1>7. CASE ListenerFails
  BY <1>7, OffType DEF ListenerFails, HostsTypeOK, Gate
<1>8. ASSUME NEW back \in {"running", "leaving"}, RunCleanup(back)
      PROVE  gate' \in Gate
  <2>1. (IF backup # NoBackup THEN backup ELSE [hosts EXCEPT !.block = FALSE])
          \in Content
    BY <1>g, ContentParts DEF HostsTypeOK
  <2>2. QED BY <1>8, <2>1, <1>g DEF RunCleanup, Gate, GateAt, Cleanup
<1>9. CASE Reload
  <2>1. gate' \in Gate
    BY <1>8, <1>9, <1>g DEF Reload, Gate, GateAt, Arming
  <2>2. QED BY <1>9, <2>1 DEF Reload, HostsTypeOK, Gate
<1>10. CASE Terminate
  <2>1. gate' \in Gate
    BY <1>8, <1>10, <1>g DEF Terminate, Gate, GateAt
  <2>2. mishaps' \in SUBSET Mishap
    BY <1>10 DEF Terminate, HostsTypeOK
  <2>3. QED BY <1>10, <2>1, <2>2 DEF Terminate, HostsTypeOK, Gate
<1>11. ASSUME NEW ok \in BOOLEAN, UndoEnds(ok) PROVE gate' \in Gate
  BY <1>11, <1>g DEF UndoEnds, Gate, Cleanup, Empty, Content
<1>12. CASE UndoFails
  BY <1>11, <1>12 DEF UndoFails, HostsTypeOK, Gate
<1>13. CASE WriteBack
  BY <1>11, <1>13, <1>g DEF WriteBack, HostsTypeOK, Gate
<1>14. CASE Leave
  BY <1>14, OffType DEF Leave, HostsTypeOK, Gate
<1>15. CASE Kill
  BY <1>15, OffType DEF Kill, HostsTypeOK, Gate
<1>16. CASE Edit
  <2>1. budget' \in Budget
    BY <1>16, <1>g, HostsAssumption DEF Edit, Budget
  <2>2. hosts' \in Content /\ written' \in SUBSET Line
    BY <1>16, <1>g, ContentParts DEF Edit
  <2>3. QED BY <1>16, <2>1, <2>2 DEF Edit, HostsTypeOK, Budget
<1>17. CASE Flip
  <2>1. budget' \in Budget
    BY <1>17, <1>g, HostsAssumption DEF Flip, Budget
  <2>2. QED BY <1>17, <2>1 DEF Flip, HostsTypeOK, Budget
<1>18. CASE RemoveBackups
  <2>1. budget' \in Budget
    BY <1>18, <1>g, HostsAssumption DEF RemoveBackups, Budget
  <2>2. QED BY <1>18, <2>1 DEF RemoveBackups, HostsTypeOK, Budget
<1>19. CASE UNCHANGED hostsVars
  BY <1>19 DEF hostsVars, HostsTypeOK
<1>20. QED
  BY <1>1, <1>2, <1>3, <1>4, <1>5, <1>6, <1>7, <1>9, <1>10, <1>12, <1>13,
     <1>14, <1>15, <1>16, <1>17, <1>18, <1>19 DEF HostsNext

(* Every variable keeps its type.                                          *)
THEOREM HostsTypeCorrect == HostsSpec => []HostsTypeOK
BY HostsTypeInit, HostsTypeStep, PTL DEF HostsSpec

-----------------------------------------------------------------------------
(* RedirectIsOwned is not inductive. What is missing is how the record of  *)
(* the process fits its stage, and where a block in a backup comes from.   *)

(* A process is armed only between the write of the block and its reverse, *)
(* and while it runs it has the cleanup that takes the block back.         *)
GateFits ==
  /\ gate.at \in Arming => gate.back \in {"starting", "running"}
  /\ gate.at \in Arming \cup {"off"} => ~gate.armed
  /\ gate.at = "undoing" => /\ gate.back \in {"running", "leaving"}
                            /\ gate.armed /\ gate.cleanup = "spent"
  /\ gate.cleanup = "live" => gate.armed
  /\ gate.armed => gate.cleanup = "live" \/ gate.at \in {"undoing", "leaving"}
  /\ gate.at = "leaving" /\ gate.armed => mishaps \cap Orphaning # {}

(* A fenced backup has been noted.                                         *)
FencedBackup ==
  /\ backup # NoBackup /\ backup.block => "fenced" \in mishaps
  /\ gate.at = "undoing" /\ gate.read.block => "fenced" \in mishaps

OwnInv == HostsTypeOK /\ GateFits /\ FencedBackup /\ RedirectIsOwned

(* The fields after a step that EXCEPT would hide from the provers.        *)
LEMMA PatchedGate ==
  ASSUME gate \in Gate, WritePatched
  PROVE  /\ gate'.at = gate.back /\ gate'.armed /\ gate'.cleanup = "live"
         /\ gate'.back = gate.back
BY DEF WritePatched, Gate

LEMMA UndoneGate ==
  ASSUME gate \in Gate, NEW ok \in BOOLEAN, UndoEnds(ok)
  PROVE  /\ gate'.at = gate.back /\ gate'.back = gate.back
         /\ gate'.armed = (gate.back = "leaving" /\ ~ok)
         /\ gate'.cleanup = IF gate.back = "running" THEN "none" ELSE gate.cleanup
<1>1. /\ gate'.at = gate.back /\ gate'.back = gate.back
      /\ gate'.cleanup = IF gate.back = "running" THEN "none" ELSE gate.cleanup
  BY DEF UndoEnds, Gate
<1>2. gate'.armed = (gate.back = "leaving" /\ ~ok)
  BY Zenon DEF UndoEnds, Gate
<1>3. QED BY <1>1, <1>2

LEMMA FailedGate ==
  ASSUME gate \in Gate, ArmingFails
  PROVE  /\ gate'.at = gate.back /\ gate'.back = gate.back
         /\ gate'.armed = gate.armed /\ gate'.cleanup = "noop"
BY DEF ArmingFails, Gate

LEMMA OwnInit == HostsInit => OwnInv
<1> SUFFICES ASSUME HostsInit PROVE OwnInv
  OBVIOUS
<1>1. HostsTypeOK
  BY HostsTypeInit
<1>2. GateFits /\ FencedBackup /\ RedirectIsOwned
  BY DEF HostsInit, GateFits, FencedBackup, RedirectIsOwned, Off, Arming
<1>3. QED BY <1>1, <1>2 DEF OwnInv

LEMMA OwnStep == OwnInv /\ [HostsNext]_hostsVars => OwnInv'
<1> SUFFICES ASSUME OwnInv, [HostsNext]_hostsVars PROVE OwnInv'
  OBVIOUS
<1>t. HostsTypeOK /\ HostsTypeOK'
  BY HostsTypeStep DEF OwnInv
<1>g. gate \in Gate /\ hosts \in Content /\ gate' \in Gate /\ gate.read \in Content
  BY <1>t DEF HostsTypeOK, Gate
<1> DEFINE Rest == GateFits /\ FencedBackup /\ RedirectIsOwned
<1>r. Rest
  BY DEF OwnInv
<1> SUFFICES Rest'
  BY <1>t DEF OwnInv
<1> USE DEF GateFits, FencedBackup, RedirectIsOwned, Arming, Orphaning
<1>1. ASSUME NEW mode \in {"headless", "daemon"}, Start(mode) PROVE Rest'
  BY <1>1, <1>g, <1>r DEF Start, Off, Gate
<1>2. CASE ArmingFails
  BY <1>2, <1>g, <1>r DEF ArmingFails, Gate
<1>3. CASE ReadHosts
  BY <1>3, <1>g, <1>r DEF ReadHosts, Gate
<1>4. CASE WriteBackup
  BY <1>4, <1>g, <1>r DEF WriteBackup, Gate
<1>5. CASE WritePatched
  <2>1. hosts'.block
    BY <1>5, <1>g, ContentParts DEF WritePatched
  <2>2. /\ gate'.at \in {"starting", "running", "leaving"}
        /\ gate'.armed /\ gate'.cleanup = "live"
        /\ UNCHANGED <<backup, mishaps>>
    BY <1>5, <1>g, <1>r, PatchedGate DEF WritePatched
  <2>3. gate.back # "leaving"
    BY <1>5, <1>g, <1>r DEF WritePatched
  <2>4. QED BY <1>5, <1>g, <1>r, <2>1, <2>2, <2>3, PatchedGate
<1>6. CASE ListenerUp
  BY <1>6, <1>g, <1>r DEF ListenerUp, Gate
<1>7. CASE ListenerFails
  BY <1>7, <1>g, <1>r DEF ListenerFails, Off
<1>8. ASSUME NEW back \in {"running", "leaving"}, RunCleanup(back), gate.armed,
             UNCHANGED <<hosts, backup, mishaps>>
      PROVE  Rest'
  <2>1. gate'.read.block => "fenced" \in mishaps
    BY <1>8, <1>g, <1>r, ContentParts DEF RunCleanup, Gate
  <2>2. QED BY <1>8, <1>g, <1>r, <2>1 DEF RunCleanup, Gate
<1>9. CASE Reload
  <2>1. CASE wantOn /\ ~gate.armed /\ gate' = [gate EXCEPT !.at = "reading", !.back = "running"]
    BY <1>9, <1>g, <1>r, <2>1 DEF Reload, Gate
  <2>2. QED BY <1>8, <1>9, <2>1 DEF Reload
<1>10. CASE Terminate
  <2>1. CASE gate.mode = "headless" /\ gate.cleanup = "live"
    BY <1>8, <1>10, <1>r, <2>1 DEF Terminate
  <2>2. CASE gate.mode = "headless" /\ gate.cleanup # "live"
    BY <1>10, <1>g, <1>r, <2>2 DEF Terminate, Gate
  <2>3. CASE gate.mode = "daemon"
    BY <1>10, <1>g, <1>r, <2>3 DEF Terminate, Gate
  <2>4. QED BY <1>10, <2>1, <2>2, <2>3 DEF Terminate
<1>11. CASE UndoFails
  <2>1. /\ gate'.at = gate.back
        /\ gate'.armed = (gate.back = "leaving")
        /\ gate'.cleanup = IF gate.back = "running" THEN "none" ELSE gate.cleanup
    <3>1. UndoEnds(FALSE)
      BY <1>11 DEF UndoFails
    <3>2. QED BY <3>1, <1>g, UndoneGate
  <2>2. /\ gate.back \in {"running", "leaving"} /\ gate.cleanup = "spent"
        /\ gate.armed
        /\ mishaps' = mishaps \cup {"stuck"} /\ UNCHANGED <<hosts, backup>>
    BY <1>11, <1>r DEF UndoFails
  <2>3. QED BY <1>r, <2>1, <2>2
<1>12. CASE WriteBack
  <2>1. /\ gate'.at = gate.back
        /\ ~gate'.armed
        /\ gate'.cleanup = IF gate.back = "running" THEN "none" ELSE gate.cleanup
    <3>1. UndoEnds(TRUE)
      BY <1>12 DEF WriteBack
    <3>2. QED BY <3>1, <1>g, UndoneGate
  <2>2. /\ gate.back \in {"running", "leaving"} /\ gate.cleanup = "spent"
        /\ hosts' = gate.read /\ UNCHANGED backup
        /\ gate.read.block => "fenced" \in mishaps
        /\ "fenced" \in mishaps => "fenced" \in mishaps'
    BY <1>12, <1>r DEF WriteBack
  <2>3. QED BY <1>r, <2>1, <2>2
<1>13. CASE Leave
  BY <1>13, <1>g, <1>r DEF Leave, Off
<1>14. CASE Kill
  BY <1>14, <1>g, <1>r DEF Kill, Off
<1>15. CASE Edit
  <2>1. hosts'.block = hosts.block
    BY <1>15, <1>g, ContentParts DEF Edit
  <2>2. QED BY <1>15, <1>g, <1>r, <2>1 DEF Edit, Gate
<1>16. CASE Flip
  BY <1>16, <1>r DEF Flip
<1>17. CASE RemoveBackups
  BY <1>17, <1>r DEF RemoveBackups
<1>18. CASE UNCHANGED hostsVars
  BY <1>18, <1>r DEF hostsVars
<1>19. QED
  BY <1>1, <1>2, <1>3, <1>4, <1>5, <1>6, <1>7, <1>9, <1>10, <1>11, <1>12, <1>13,
     <1>14, <1>15, <1>16, <1>17, <1>18 DEF HostsNext

(* A redirection that stands in the file is owned by a live process, or    *)
(* one of the exits that leave it behind has been noted.                   *)
THEOREM RedirectAlwaysOwned == HostsSpec => []RedirectIsOwned
<1>1. OwnInv => RedirectIsOwned
  BY DEF OwnInv
<1>2. QED BY OwnInit, OwnStep, <1>1, PTL DEF HostsSpec

-----------------------------------------------------------------------------
(* The other lines: what has been read and what was backed up are the      *)
(* lines as their author left them, as long as nothing came in between.    *)

LeftAlone == mishaps \cap {"edited", "raced", "torn"} = {}

CopiesCurrent ==
  LeftAlone => /\ backup # NoBackup => backup.lines = written
               /\ gate.at \in {"saving", "patching", "undoing"} =>
                    gate.read.lines = written

LinesInv == OwnInv /\ CopiesCurrent /\ LinesKeptUnlessEdited

LEMMA LinesInit == HostsInit => LinesInv
<1> SUFFICES ASSUME HostsInit PROVE LinesInv
  OBVIOUS
<1>1. OwnInv
  BY OwnInit
<1>2. CopiesCurrent /\ LinesKeptUnlessEdited
  BY DEF HostsInit, CopiesCurrent, LinesKeptUnlessEdited, Off
<1>3. QED BY <1>1, <1>2 DEF LinesInv

LEMMA LinesStep == LinesInv /\ [HostsNext]_hostsVars => LinesInv'
<1> SUFFICES ASSUME LinesInv, [HostsNext]_hostsVars PROVE LinesInv'
  OBVIOUS
<1>o. OwnInv /\ OwnInv'
  BY OwnStep DEF LinesInv
<1>t. HostsTypeOK /\ GateFits
  BY <1>o DEF OwnInv
<1>g. gate \in Gate /\ hosts \in Content /\ gate.read \in Content
  BY <1>t DEF HostsTypeOK, Gate
<1> DEFINE Rest == CopiesCurrent /\ LinesKeptUnlessEdited
<1>r. Rest
  BY DEF LinesInv
<1> SUFFICES Rest'
  BY <1>o DEF LinesInv
<1> USE DEF CopiesCurrent, LinesKeptUnlessEdited, LeftAlone
<1>1. ASSUME NEW mode \in {"headless", "daemon"}, Start(mode) PROVE Rest'
  BY <1>1, <1>g, <1>r DEF Start, Off, Gate
<1>2. CASE ArmingFails
  BY <1>2, <1>g, <1>t, <1>r, FailedGate DEF ArmingFails, Arming, GateFits
<1>3. CASE ReadHosts
  BY <1>3, <1>g, <1>r DEF ReadHosts, Gate
<1>4. CASE WriteBackup
  BY <1>4, <1>g, <1>r DEF WriteBackup, Gate, Orphaning
<1>5. CASE WritePatched
  <2>1. hosts'.lines = gate.read.lines
    BY <1>5, <1>g, ContentParts DEF WritePatched
  <2>2. QED BY <1>5, <1>g, <1>t, <1>r, <2>1, PatchedGate DEF WritePatched, GateFits, Arming
<1>6. CASE ListenerUp
  BY <1>6, <1>g, <1>r DEF ListenerUp, Gate
<1>7. CASE ListenerFails
  BY <1>7, <1>g, <1>r DEF ListenerFails, Off
<1>8. ASSUME NEW back \in {"running", "leaving"}, RunCleanup(back),
             UNCHANGED <<hosts, backup, written, mishaps>>
      PROVE  Rest'
  <2>1. LeftAlone => gate'.read.lines = written
    BY <1>8, <1>g, <1>r, ContentParts DEF RunCleanup, Gate
  <2>2. QED BY <1>8, <1>r, <2>1
<1>9. CASE Reload
  <2>1. CASE wantOn /\ ~gate.armed /\ gate' = [gate EXCEPT !.at = "reading", !.back = "running"]
    BY <1>9, <1>g, <1>r, <2>1 DEF Reload, Gate
  <2>2. QED BY <1>8, <1>9, <2>1 DEF Reload
<1>10. CASE Terminate
  <2>1. CASE gate.mode = "headless" /\ gate.cleanup = "live"
    BY <1>8, <1>10, <1>r, <2>1 DEF Terminate
  <2>2. CASE gate.mode = "headless" /\ gate.cleanup # "live"
    BY <1>10, <1>g, <1>r, <2>2 DEF Terminate, Gate
  <2>3. CASE gate.mode = "daemon"
    BY <1>10, <1>g, <1>r, <2>3 DEF Terminate, Gate
  <2>4. QED BY <1>10, <2>1, <2>2, <2>3 DEF Terminate
<1>11. CASE UndoFails
  BY <1>11, <1>g, <1>t, <1>r, UndoneGate DEF UndoFails, GateFits
<1>12. CASE WriteBack
  BY <1>12, <1>g, <1>t, <1>r, UndoneGate DEF WriteBack, Orphaning, GateFits
<1>13. CASE Leave
  BY <1>13, <1>g, <1>r DEF Leave, Off
<1>14. CASE Kill
  BY <1>14, <1>g, <1>r DEF Kill, Off
<1>15. CASE Edit
  <2>1. hosts'.lines = written'
    BY <1>15, <1>g, ContentParts DEF Edit
  <2>2. QED BY <1>15, <1>g, <1>r, <2>1 DEF Edit, Arming
<1>16. CASE Flip
  BY <1>16, <1>r DEF Flip
<1>17. CASE RemoveBackups
  BY <1>17, <1>r DEF RemoveBackups
<1>18. CASE UNCHANGED hostsVars
  BY <1>18, <1>r DEF hostsVars
<1>19. QED
  BY <1>1, <1>2, <1>3, <1>4, <1>5, <1>6, <1>7, <1>9, <1>10, <1>11, <1>12, <1>13,
     <1>14, <1>15, <1>16, <1>17, <1>18 DEF HostsNext

(* Unless the file is edited under a backup or in the middle of a step,    *)
(* or a backup is cut short, the other lines stay as they were left.       *)
THEOREM LinesAlwaysKept == HostsSpec => []LinesKeptUnlessEdited
<1>1. LinesInv => LinesKeptUnlessEdited
  BY DEF LinesInv
<1>2. QED BY LinesInit, LinesStep, <1>1, PTL DEF HostsSpec

-----------------------------------------------------------------------------
(* The ring: its types, and that the status is that of the last outcomes,  *)
(* for every capacity of the ring and every number of outcomes.            *)

Slots == 0..(Window - 1)

LEMMA HealthTypeInit == HealthInit => HealthTypeOK
<1> SUFFICES ASSUME HealthInit PROVE HealthTypeOK
  OBVIOUS
<1>1. head \in Slots /\ count \in 0..Window
  BY HealthAssumption DEF HealthInit, Slots
<1>2. ring \in [Slots -> BOOLEAN]
  BY DEF HealthInit, Slots
<1>3. quiet \in BOOLEAN /\ outcomes \in Seq(BOOLEAN)
  <2>1. quiet = FALSE /\ outcomes = << >>
    BY DEF HealthInit
  <2>2. << >> \in Seq(BOOLEAN)
    BY EmptySeq
  <2>3. QED BY <2>1, <2>2
<1>4. QED BY <1>1, <1>2, <1>3 DEF HealthTypeOK, Slots

LEMMA HealthTypeStep == HealthTypeOK /\ [HealthNext]_healthVars => HealthTypeOK'
<1> SUFFICES ASSUME HealthTypeOK, [HealthNext]_healthVars PROVE HealthTypeOK'
  OBVIOUS
<1>1. ASSUME NEW success \in BOOLEAN, Record(success) PROVE HealthTypeOK'
  <2>1. ring' \in [Slots -> BOOLEAN]
    BY <1>1 DEF Record, HealthTypeOK, Slots
  <2>2. head' \in Slots /\ count' \in 0..Window
    BY <1>1, HealthAssumption DEF Record, HealthTypeOK, Slots
  <2>3. outcomes' \in Seq(BOOLEAN)
    BY <1>1 DEF Record, HealthTypeOK
  <2>4. QED BY <1>1, <2>1, <2>2, <2>3 DEF Record, HealthTypeOK, Slots
<1>2. CASE FiveMinutesPass
  BY <1>2 DEF FiveMinutesPass, HealthTypeOK
<1>3. CASE UNCHANGED healthVars
  BY <1>3 DEF healthVars, HealthTypeOK
<1>4. QED BY <1>1, <1>2, <1>3 DEF HealthNext

(* The head stays in the ring, the count within the capacity.              *)
THEOREM HealthTypeCorrect == HealthSpec => []HealthTypeOK
BY HealthTypeInit, HealthTypeStep, PTL DEF HealthSpec

-----------------------------------------------------------------------------
(* StatusTellsLastOutcomes is not inductive: a status may be right by      *)
(* chance. The ring holds the latest outcomes, each at its position.       *)

Known == IF Len(outcomes) < Window THEN Len(outcomes) ELSE Window

RingHoldsLatest ==
  /\ count = Known
  /\ \A i \in 0..(count - 1) : ring[Position(i)] = outcomes[Len(outcomes) - i]

LEMMA PositionInRing ==
  ASSUME HealthTypeOK, NEW i \in Slots
  PROVE  Position(i) \in Slots /\ (Position(i) = head => i = Window - 1)
BY HealthAssumption DEF Position, HealthTypeOK, Slots

(* One more outcome shifts every position by one.                          *)
LEMMA PositionShifts ==
  ASSUME HealthTypeOK, NEW success \in BOOLEAN, Record(success)
  PROVE  /\ Position(0)' = head
         /\ \A i \in Slots : i > 0 => Position(i)' = Position(i - 1)
BY HealthAssumption DEF Position, Record, HealthTypeOK, Slots

HealthInv == HealthTypeOK /\ RingHoldsLatest

LEMMA HealthInvInit == HealthInit => HealthInv
<1> SUFFICES ASSUME HealthInit PROVE HealthInv
  OBVIOUS
<1>1. Len(outcomes) = 0
  BY DEF HealthInit
<1>2. RingHoldsLatest
  BY <1>1, HealthAssumption DEF HealthInit, RingHoldsLatest, Known
<1>3. QED BY <1>2, HealthTypeInit DEF HealthInv

LEMMA RecordShifts ==
  ASSUME HealthInv, NEW success \in BOOLEAN, Record(success)
  PROVE  RingHoldsLatest'
<1>1. HealthTypeOK /\ RingHoldsLatest /\ outcomes \in Seq(BOOLEAN)
  BY DEF HealthInv, HealthTypeOK
<1>2. /\ outcomes' = Append(outcomes, success)
      /\ Len(outcomes') = Len(outcomes) + 1
      /\ Len(outcomes) \in Nat
      /\ outcomes'[Len(outcomes')] = success
      /\ \A k \in 1..Len(outcomes) : outcomes'[k] = outcomes[k]
  BY <1>1, AppendProperties DEF Record
<1> DEFINE n == IF count < Window THEN count + 1 ELSE count
<1>3. count' = n /\ count' = Known'
  <2>1. count' = n
    BY DEF Record
  <2>2. Len(outcomes') = Len(outcomes) + 1
    BY <1>2
  <2>3. n = IF Len(outcomes) + 1 < Window THEN Len(outcomes) + 1 ELSE Window
    BY <1>1, <1>2, HealthAssumption DEF RingHoldsLatest, Known
  <2>4. QED BY <2>1, <2>2, <2>3 DEF Known
<1>4. ASSUME NEW i \in 0..(n - 1)
      PROVE  ring'[Position(i)'] = outcomes'[Len(outcomes') - i]
  <2>1. /\ count \in 0..Window /\ n \in 0..Window /\ n <= count + 1
        /\ count <= Len(outcomes)
    BY <1>1, <1>2, HealthAssumption DEF HealthTypeOK, RingHoldsLatest, Known
  <2> HIDE DEF n
  <2>2. i \in Slots
    BY <2>1, HealthAssumption DEF Slots
  <2>3. CASE i = 0
    <3>1. Position(0)' = head
      BY <1>1, PositionShifts
    <3>2. ring'[head] = success
      BY <1>1 DEF Record, HealthTypeOK
    <3>3. QED BY <2>3, <3>1, <3>2, <1>2
  <2>4. CASE i > 0
    <3>1. /\ i - 1 \in Slots /\ i - 1 \in 0..(count - 1)
          /\ i - 1 # Window - 1
      BY <2>1, <2>2, <2>4, HealthAssumption DEF Slots
    <3>2. Position(i)' = Position(i - 1)
      BY <1>1, <2>2, <2>4, PositionShifts
    <3>3. Position(i - 1) \in Slots /\ Position(i - 1) # head
      BY <1>1, <3>1, PositionInRing
    <3>4. ring'[Position(i - 1)] = ring[Position(i - 1)]
      BY <1>1, <3>3 DEF Record, HealthTypeOK, Slots
    <3>5. ring[Position(i - 1)] = outcomes[Len(outcomes) - (i - 1)]
      BY <1>1, <3>1 DEF RingHoldsLatest
    <3>6. /\ Len(outcomes) - (i - 1) = Len(outcomes) + 1 - i
          /\ Len(outcomes) - (i - 1) \in 1..Len(outcomes)
      BY <1>2, <2>1, <2>4, <3>1
    <3>7. QED BY <1>2, <3>2, <3>4, <3>5, <3>6
  <2>5. QED BY <2>1, <2>3, <2>4
<1>5. QED
  <2> HIDE DEF n
  <2>1. QED BY <1>3, <1>4 DEF RingHoldsLatest

LEMMA HealthInvStep == HealthInv /\ [HealthNext]_healthVars => HealthInv'
<1> SUFFICES ASSUME HealthInv, [HealthNext]_healthVars PROVE HealthInv'
  OBVIOUS
<1>1. HealthTypeOK /\ HealthTypeOK' /\ RingHoldsLatest
  BY HealthTypeStep DEF HealthInv
<1>2. ASSUME NEW success \in BOOLEAN, Record(success) PROVE RingHoldsLatest'
  BY <1>2, RecordShifts
<1>3. CASE UNCHANGED <<ring, head, count, outcomes>>
  BY <1>1, <1>3 DEF RingHoldsLatest, Known, Position, HealthInv
<1>4. QED
  BY <1>1, <1>2, <1>3 DEF HealthNext, FiveMinutesPass, healthVars, HealthInv

LEMMA RingGivesStatus == HealthInv => StatusTellsLastOutcomes
<1> SUFFICES ASSUME HealthInv PROVE StatusTellsLastOutcomes
  OBVIOUS
<1>1. /\ count = Known
      /\ \A i \in 0..(count - 1) : ring[Position(i)] = outcomes[Len(outcomes) - i]
  BY DEF HealthInv, RingHoldsLatest
<1>2. {i \in 0..(count - 1) : ~ring[Position(i)]}
        = {i \in 0..(Known - 1) : ~outcomes[Len(outcomes) - i]}
  BY <1>1
<1>3. QED BY <1>1, <1>2 DEF StatusTellsLastOutcomes, Status, Known

(* The status is that of the last outcomes, for every capacity of the      *)
(* ring, however often it has wrapped.                                     *)
THEOREM StatusAlwaysTells == HealthSpec => []StatusTellsLastOutcomes
BY HealthInvInit, HealthInvStep, RingGivesStatus, PTL DEF HealthSpec

-----------------------------------------------------------------------------
(* Recertification: its types, that two processes are at it at a time only *)
(* after a takeover, and that a state file which says "running" belongs to *)
(* somebody, for every set of processes.                                   *)

LEMMA RecertTypeInit == RecertInit => RecertTypeOK
BY DEF RecertInit, RecertTypeOK, RunnerAt

LEMMA GoesType ==
  ASSUME RecertTypeOK, NEW p \in Runner, NEW from, NEW to \in RunnerAt, Goes(p, from, to)
  PROVE  runner' \in [Runner -> RunnerAt]
BY DEF RecertTypeOK, Goes

LEMMA SavesType ==
  ASSUME RecertTypeOK, NEW status \in {"running", "passed", "failed"},
         NEW backoff \in BOOLEAN, Saves(status, backoff)
  PROVE  /\ state' \in [status : {"none", "running", "passed", "failed"}, backoff : BOOLEAN]
         /\ upsets' \in SUBSET Upset
<1>1. CASE state' = [status |-> status, backoff |-> backoff] /\ UNCHANGED upsets
  BY <1>1 DEF RecertTypeOK
<1>2. CASE UNCHANGED state /\ upsets' = upsets \cup {"unsaved"}
  BY <1>2 DEF RecertTypeOK, Upset
<1>3. QED BY <1>1, <1>2 DEF Saves

(* A lock that has just been written.                                      *)
LEMMA FreshLock ==
  ASSUME NEW pid \in Runner \cup {NoPid}
  PROVE  LET fresh == [pid |-> pid, old |-> FALSE]
         IN  fresh \in Lock /\ fresh # NoLock /\ fresh.pid = pid
<1>1. [pid |-> pid, old |-> FALSE] \in Lock
  BY DEF Lock
<1>2. QED BY <1>1, RecertAssumption

LEMMA RecertTypeStep == RecertTypeOK /\ [RecertNext]_recertVars => RecertTypeOK'
<1> SUFFICES ASSUME RecertTypeOK, [RecertNext]_recertVars PROVE RecertTypeOK'
  OBVIOUS
<1> DEFINE lockOK == lock \in Lock \cup {NoLock} /\ creator \in Runner \cup {NoPid}
                     /\ seen \in SUBSET Runner
           restOK == /\ state \in [status : {"none", "running", "passed", "failed"},
                                   backoff : BOOLEAN]
                     /\ upsets \in SUBSET Upset
           runnerOK == runner \in [Runner -> RunnerAt]
<1>0. lockOK /\ restOK /\ runnerOK
  BY DEF RecertTypeOK
<1> SUFFICES lockOK' /\ restOK' /\ runnerOK'
  BY DEF RecertTypeOK
<1> USE DEF RunnerAt, Holding
<1>1. ASSUME NEW p \in Runner, NEW force \in BOOLEAN, AskByHand(p, force)
      PROVE  lockOK' /\ restOK' /\ runnerOK'
  BY <1>0, <1>1, GoesType DEF AskByHand
<1>2. ASSUME NEW p \in Runner, CreateLock(p) PROVE lockOK' /\ restOK' /\ runnerOK'
  BY <1>0, <1>2, GoesType DEF CreateLock, Lock
<1>3. ASSUME NEW p \in Runner, LockExists(p) PROVE lockOK' /\ restOK' /\ runnerOK'
  BY <1>0, <1>3, GoesType DEF LockExists
<1>4. ASSUME NEW p \in Runner, InspectLock(p) PROVE lockOK' /\ restOK' /\ runnerOK'
  BY <1>0, <1>4, GoesType DEF InspectLock
<1>5. ASSUME NEW p \in Runner, TakeOver(p) PROVE lockOK' /\ restOK' /\ runnerOK'
  BY <1>0, <1>5, GoesType DEF TakeOver, Upset
<1>6. ASSUME NEW p \in Runner, SignLock(p) PROVE lockOK' /\ restOK' /\ runnerOK'
  BY <1>0, <1>6, GoesType, FreshLock DEF SignLock
<1>7. ASSUME NEW p \in Runner, BeginAttempt(p) PROVE lockOK' /\ restOK' /\ runnerOK'
  BY <1>0, <1>7, GoesType, SavesType DEF BeginAttempt
<1>8. ASSUME NEW p \in Runner, FinishAttempt(p) PROVE lockOK' /\ restOK' /\ runnerOK'
  BY <1>0, <1>8, GoesType, SavesType DEF FinishAttempt
<1>9. ASSUME NEW p \in Runner, Unlock(p) PROVE lockOK' /\ restOK' /\ runnerOK'
  BY <1>0, <1>9, GoesType DEF Unlock
<1>10. ASSUME NEW p \in Runner, CrashRunner(p) PROVE lockOK' /\ restOK' /\ runnerOK'
  BY <1>0, <1>10 DEF CrashRunner, Lock, Upset
<1>11. CASE LockAges
  BY <1>0, <1>11 DEF LockAges, Lock
<1>12. CASE BackoffEnds
  BY <1>0, <1>12 DEF BackoffEnds
<1>13. CASE UNCHANGED recertVars
  BY <1>0, <1>13 DEF recertVars
<1>14. QED
  BY <1>1, <1>2, <1>3, <1>4, <1>5, <1>6, <1>7, <1>8, <1>9, <1>10, <1>11, <1>12,
     <1>13 DEF RecertNext, AskAutomatically

(* Every variable keeps its type.                                          *)
THEOREM RecertTypeCorrect == RecertSpec => []RecertTypeOK
BY RecertTypeInit, RecertTypeStep, PTL DEF RecertSpec

-----------------------------------------------------------------------------
(* The lock file and those who act on it. The last part alone depends on   *)
(* nobody having taken over a lock that was in use.                        *)

SignedByCreator == lock # NoLock /\ lock.pid \in Runner => creator = lock.pid
DeadLockUnowned == lock # NoLock /\ lock.pid = DeadPid => creator = NoPid
SeenIsStale == seen # {} => Stale
HoldersCreated ==
  upsets \cap {"slow", "raced"} = {} =>
    Holders \subseteq {creator} /\ (Holders # {} => lock # NoLock)

LockInv ==
  RecertTypeOK /\ SignedByCreator /\ DeadLockUnowned /\ SeenIsStale /\ HoldersCreated

LEMMA LockInvInit == RecertInit => LockInv
<1> SUFFICES ASSUME RecertInit PROVE LockInv
  OBVIOUS
<1>1. RecertTypeOK
  BY RecertTypeInit
<1>2. SignedByCreator /\ DeadLockUnowned /\ SeenIsStale /\ HoldersCreated
  BY DEF RecertInit, SignedByCreator, DeadLockUnowned, SeenIsStale,
         HoldersCreated, Holders, Holding
<1>3. QED BY <1>1, <1>2 DEF LockInv

(* Who holds the lock after a process has moved on.                        *)
LEMMA GoesHolders ==
  ASSUME RecertTypeOK, NEW p \in Runner, NEW from, NEW to \in RunnerAt,
         Goes(p, from, to)
  PROVE  /\ to \notin Holding => Holders' = Holders \ {p}
         /\ to \in Holding => Holders' = Holders \cup {p}
         /\ from \in Holding => p \in Holders
         /\ from \notin Holding => p \notin Holders
<1>1. \A q \in Runner : runner'[q] = IF q = p THEN to ELSE runner[q]
  BY DEF RecertTypeOK, Goes
<1>2. runner[p] = from
  BY DEF Goes
<1>3. QED BY <1>1, <1>2 DEF Holders

LEMMA LockInvStep == LockInv /\ [RecertNext]_recertVars => LockInv'
<1> SUFFICES ASSUME LockInv, [RecertNext]_recertVars PROVE LockInv'
  OBVIOUS
<1>t. RecertTypeOK /\ RecertTypeOK'
  BY RecertTypeStep DEF LockInv
<1> DEFINE files == SignedByCreator /\ DeadLockUnowned /\ SeenIsStale
<1>0. files /\ HoldersCreated /\ lock \in Lock \cup {NoLock} /\ seen \in SUBSET Runner
  BY <1>t DEF LockInv, RecertTypeOK
<1> SUFFICES files' /\ HoldersCreated'
  BY <1>t DEF LockInv
<1> USE DEF SignedByCreator, DeadLockUnowned, SeenIsStale, Stale, HoldersCreated,
            RunnerAt
<1>1. ASSUME NEW p \in Runner, NEW from, NEW to \in RunnerAt \ Holding, Goes(p, from, to),
             UNCHANGED <<lock, creator, upsets>>,
             seen' = seen \/ (Stale /\ seen' = seen \cup {p})
      PROVE  files' /\ HoldersCreated'
  <2>1. Holders' = Holders \ {p}
    BY <1>t, <1>1, GoesHolders
  <2>2. QED BY <1>0, <1>1, <2>1
<1>2. ASSUME NEW p \in Runner, NEW from \in Holding, NEW to \in Holding, Goes(p, from, to),
             UNCHANGED <<lock, creator, seen>>, upsets \subseteq upsets'
      PROVE  files' /\ HoldersCreated'
  <2>1. Holders' = Holders
    BY <1>t, <1>2, GoesHolders
  <2>2. QED BY <1>0, <1>2, <2>1
<1>3. ASSUME NEW p \in Runner, NEW force \in BOOLEAN, AskByHand(p, force)
      PROVE  files' /\ HoldersCreated'
  BY <1>1, <1>3 DEF AskByHand, Holding
<1>4. ASSUME NEW p \in Runner, CreateLock(p) PROVE files' /\ HoldersCreated'
  <2>1. Holders' = Holders \cup {p}
    BY <1>t, <1>4, GoesHolders DEF CreateLock, Holding
  <2>2. lock' # NoLock /\ lock'.pid = NoPid
    BY <1>4, FreshLock DEF CreateLock
  <2>3. QED BY <1>0, <1>4, <2>1, <2>2, RecertAssumption DEF CreateLock
<1>5. ASSUME NEW p \in Runner, LockExists(p) PROVE files' /\ HoldersCreated'
  BY <1>1, <1>5 DEF LockExists, Holding
<1>6. ASSUME NEW p \in Runner, InspectLock(p) PROVE files' /\ HoldersCreated'
  BY <1>1, <1>6 DEF InspectLock, Holding
<1>7. ASSUME NEW p \in Runner, TakeOver(p) PROVE files' /\ HoldersCreated'
  <2>1. Holders' = Holders
    BY <1>t, <1>7, GoesHolders DEF TakeOver, Holding
  <2>2. upsets' \cap {"slow", "raced"} = {} => Holders = {}
    <3>1. CASE lock = NoLock
      BY <1>0, <1>7, <3>1 DEF TakeOver
    <3>2. CASE lock # NoLock /\ p \notin seen
      BY <1>7, <3>2 DEF TakeOver
    <3>3. CASE lock # NoLock /\ p \in seen /\ lock.old
      BY <1>0, <1>7, <3>3 DEF TakeOver
    <3>4. CASE lock # NoLock /\ p \in seen /\ ~lock.old
      <4>1. creator \notin Holders
        BY <1>0, <3>4, RecertAssumption DEF Holders
      <4>2. QED BY <1>0, <1>7, <4>1 DEF TakeOver
    <3>5. QED BY <3>1, <3>2, <3>3, <3>4
  <2>3. QED BY <1>7, <2>1, <2>2 DEF TakeOver
<1>8. ASSUME NEW p \in Runner, SignLock(p) PROVE files' /\ HoldersCreated'
  <2>1. Holders' = Holders
    BY <1>t, <1>8, GoesHolders DEF SignLock, Holding
  <2>2. CASE creator = p
    <3>1. lock' # NoLock /\ lock'.pid = p /\ lock'.pid # DeadPid
      BY <1>8, <2>2, FreshLock, RecertAssumption DEF SignLock
    <3>2. QED BY <1>0, <1>8, <2>1, <2>2, <3>1 DEF SignLock
  <2>3. CASE creator # p
    BY <1>0, <1>8, <2>1, <2>3 DEF SignLock
  <2>4. QED BY <2>2, <2>3
<1>9. ASSUME NEW p \in Runner, BeginAttempt(p) PROVE files' /\ HoldersCreated'
  BY <1>2, <1>9 DEF BeginAttempt, Saves, Holding
<1>10. ASSUME NEW p \in Runner, FinishAttempt(p) PROVE files' /\ HoldersCreated'
  BY <1>2, <1>10 DEF FinishAttempt, Saves, Holding
<1>11. ASSUME NEW p \in Runner, Unlock(p) PROVE files' /\ HoldersCreated'
  <2>1. Holders' = Holders \ {p} /\ p \in Holders
    BY <1>t, <1>11, GoesHolders DEF Unlock, Holding
  <2>2. QED BY <1>0, <1>11, <2>1 DEF Unlock
<1>12. ASSUME NEW p \in Runner, CrashRunner(p) PROVE files' /\ HoldersCreated'
  <2>1. Holders' = Holders \ {p}
    <3>1. \A q \in Runner : runner'[q] = IF q = p THEN "idle" ELSE runner[q]
      BY <1>t, <1>12 DEF CrashRunner, RecertTypeOK
    <3>2. QED BY <3>1 DEF Holders, Holding
  <2>2. CASE lock # NoLock /\ lock.pid = p
    <3>1. /\ lock' \in Lock /\ lock'.pid = DeadPid /\ lock'.old = lock.old
          /\ lock' # NoLock
      BY <1>0, <1>12, <2>2, RecertAssumption DEF CrashRunner, Lock
    <3>2. QED BY <1>0, <1>12, <2>1, <2>2, <3>1, RecertAssumption DEF CrashRunner
  <2>3. CASE ~(lock # NoLock /\ lock.pid = p)
    <3>1. lock' = lock
      BY <1>12, <2>3 DEF CrashRunner
    <3>2. QED BY <1>0, <1>12, <2>1, <2>3, <3>1, RecertAssumption DEF CrashRunner
  <2>4. QED BY <2>2, <2>3
<1>13. CASE LockAges
  <2>1. /\ lock' \in Lock /\ lock' # NoLock /\ lock'.pid = lock.pid /\ lock'.old
    BY <1>0, <1>13, RecertAssumption DEF LockAges, Lock
  <2>2. Holders' = Holders
    BY <1>13 DEF LockAges, Holders
  <2>3. QED BY <1>0, <1>13, <2>1, <2>2 DEF LockAges
<1>14. CASE UNCHANGED <<lock, creator, runner, seen, upsets>>
  BY <1>0, <1>14 DEF Holders
<1>15. QED
  BY <1>3, <1>4, <1>5, <1>6, <1>7, <1>8, <1>9, <1>10, <1>11, <1>12, <1>13, <1>14
     DEF RecertNext, AskAutomatically, BackoffEnds, recertVars

LEMMA LockInvGivesOne == LockInv => OneRecertUnlessTakenOver
<1> SUFFICES ASSUME LockInv, upsets \cap {"slow", "raced"} = {}
             PROVE  Cardinality(Holders) <= 1
  BY DEF OneRecertUnlessTakenOver
<1>1. Holders = {} \/ Holders = {creator}
  BY DEF LockInv, HoldersCreated
<1>2. QED BY <1>1, FS_EmptySet, FS_Singleton

(* At most one process recertifies at a time, until the lock of a slow one *)
(* or a lock somebody has just replaced is taken over.                     *)
LEMMA OneRecertAtATime == RecertSpec => []OneRecertUnlessTakenOver
BY LockInvInit, LockInvStep, LockInvGivesOne, PTL DEF RecertSpec

-----------------------------------------------------------------------------
LEMMA RunnerStep ==
  RecertTypeOK /\ RunningHasRunner /\ [RecertNext]_recertVars => RunningHasRunner'
<1> SUFFICES ASSUME RecertTypeOK, RunningHasRunner, [RecertNext]_recertVars
             PROVE  RunningHasRunner'
  OBVIOUS
<1> USE DEF RunningHasRunner, RecertTypeOK
<1>1. ASSUME NEW p \in Runner, NEW from \in RunnerAt \ {"work"}, NEW to \in RunnerAt,
             Goes(p, from, to), UNCHANGED state, upsets \subseteq upsets'
      PROVE  RunningHasRunner'
  BY <1>1 DEF Goes
<1> USE DEF RunnerAt, Holding
<1>2. ASSUME NEW p \in Runner, BeginAttempt(p) PROVE RunningHasRunner'
  <2>1. runner'[p] = "work"
    BY <1>2 DEF BeginAttempt, Goes
  <2>2. QED BY <2>1
<1>3. ASSUME NEW p \in Runner, FinishAttempt(p) PROVE RunningHasRunner'
  BY <1>3 DEF FinishAttempt, Saves
<1>4. ASSUME NEW p \in Runner, CrashRunner(p) PROVE RunningHasRunner'
  BY <1>4 DEF CrashRunner
<1>5. ASSUME NEW p \in Runner, NEW force \in BOOLEAN, AskByHand(p, force)
      PROVE  RunningHasRunner'
  BY <1>1, <1>5 DEF AskByHand
<1>6. ASSUME NEW p \in Runner,
             CreateLock(p) \/ LockExists(p) \/ InspectLock(p) \/ TakeOver(p)
               \/ SignLock(p) \/ Unlock(p)
      PROVE  RunningHasRunner'
  BY <1>1, <1>6 DEF CreateLock, LockExists, InspectLock, TakeOver, SignLock, Unlock
<1>7. CASE LockAges
  BY <1>7 DEF LockAges
<1>8. CASE BackoffEnds
  BY <1>8 DEF BackoffEnds
<1>9. CASE UNCHANGED recertVars
  BY <1>9 DEF recertVars
<1>10. QED
  BY <1>2, <1>3, <1>4, <1>5, <1>6, <1>7, <1>8, <1>9 DEF RecertNext, AskAutomatically

(* A state file that says "running" belongs to a process at work, or one   *)
(* has died or could not write the file.                                   *)
LEMMA RunningAlwaysHasRunner == RecertSpec => []RunningHasRunner
<1>1. RecertInit => RunningHasRunner
  BY DEF RecertInit, RunningHasRunner
<1>2. RecertInit => RecertTypeOK
  BY RecertTypeInit
<1>3. QED BY <1>1, <1>2, RecertTypeStep, RunnerStep, PTL DEF RecertSpec

(* Attempts exclude each other and the state does not claim one that is    *)
(* not there, but for takeovers, deaths and files that cannot be written.  *)
THEOREM RecertAlwaysHonest == RecertSpec => []RecertHonest
<1>1. OneRecertUnlessTakenOver /\ RunningHasRunner => RecertHonest
  BY DEF RecertHonest
<1> QED BY <1>1, OneRecertAtATime, RunningAlwaysHasRunner, PTL

-----------------------------------------------------------------------------
(* The commands that change the host: their types, and that what they have *)
(* done can be undone, for every set of flags and certificates and any     *)
(* number of commands and proxies.                                         *)

(* Where a command is in its plan, and the CA files' part in it. A plan    *)
(* begins with the CA, and what a rollback undoes was applied.             *)
CommandFits ==
  /\ cli.at # "idle" => cli.plan \in Plans /\ cli.i \in DOMAIN cli.plan
  /\ loader["cli"].at # "idle" <=> cli.at # "idle" /\ cli.i = 1
  /\ loader["cli"].at = "aside" <=> cli.at \in {"rollback", "reverse"} /\ cli.i = 1
  /\ loader["proxy"].at # "aside"
  /\ cli.at = "rollback" => cli.i < cli.reached /\ cli.reached \in DOMAIN cli.plan
  /\ cli.result # "none" => cli.at = "idle" /\ cli.plan \in Plans
  /\ cli.result = "failed" => cli.reached \in DOMAIN cli.plan
Fingerprinted ==
  /\ cli.at = "reverse" \/ (cli.at = "apply" /\ cli.i = 1) => cli.fingerprint = NoCert
  /\ "keychain" \in Steps(cli.plan) =>
       /\ cli.at = "apply" /\ cli.i > 2 => cli.fingerprint \in Cert
       /\ cli.at = "rollback" /\ cli.reached > 2 => cli.fingerprint \in Cert

(* Two work on the CA files only in an overlap, which the command knows.   *)
Apart ==
  /\ "overlap" \notin accidents => cli.at = "idle" \/ loader["proxy"].at = "idle"
  /\ cli.alone /\ (cli.at # "idle" \/ cli.result # "none") => loader["proxy"].at = "idle"

(* The CA files while they are replaced.                                   *)
FilesFit ==
  /\ \A p \in Process : loader[p].at = "writeCert" => loader[p].new \in Cert
  /\ "overlap" \notin accidents =>
       /\ {site.key, site.cert} \subseteq Cert => site.key = site.cert
       /\ \A p \in Process :
            /\ loader[p].at = "writeKey" => site.key = NoCert /\ site.cert = NoCert
            /\ loader[p].at = "writeCert" =>
                 site.cert = NoCert /\ site.key \in {loader[p].new, Garbage}

(* Nothing is trusted but the certificate on disk, which goes, by a new    *)
(* one or aside, when it is not.                                           *)
Coherent == accidents \cap {"untrust", "rotated", "skipped", "overlap"} = {}
Replacing == {"rotate", "writeKey", "writeCert"}
TrustFits ==
  Coherent =>
    /\ site.trusted \subseteq {site.cert}
    /\ \A p \in Process : loader[p].at \in Replacing => site.trusted = {}
    /\ cli.at # "idle" /\ cli.fingerprint # NoCert => cli.fingerprint = site.cert
    /\ cli.at \in {"rollback", "reverse"} /\ cli.i = 1 /\ KeychainReversed =>
         site.cert \notin site.trusted
JobFits == site.loaded => site.plist \/ "launchctl" \in accidents

(* What a command that was alone has walked back over is undone.           *)
UndoneSoFar ==
  cli.alone =>
    /\ cli.at = "reverse" => site.cert = cli.began
    /\ cli.at = "reverse" /\ ~cli.errors =>
         \A j \in DOMAIN cli.plan : j > cli.i => StepUndone(cli.plan[j])
    /\ cli.at = "rollback" /\ ~cli.errors =>
         \A j \in DOMAIN cli.plan : cli.i < j /\ j < cli.reached => StepUndone(cli.plan[j])
    /\ cli.result = "uninstalled" =>
         \A j \in DOMAIN cli.plan : StepUndone(cli.plan[j])
    /\ cli.result = "failed" /\ ~cli.errors =>
         \A j \in DOMAIN cli.plan : j < cli.reached => StepUndone(cli.plan[j])

InstallInv ==
  /\ InstallTypeOK /\ CommandFits /\ Fingerprinted /\ Apart
  /\ FilesFit /\ TrustFits /\ JobFits /\ UndoneSoFar

(* The records of InstallTypeOK, by their names.                           *)
Site == [key : File, cert : File, trusted : SUBSET Cert,
         plist : BOOLEAN, loaded : BOOLEAN, entries : BOOLEAN]
Command == [at : CommandAt, plan : Plans \cup {<<>>}, i : 0..4, errors : BOOLEAN,
            fingerprint : Cert \cup {NoCert}, began : File, reached : 0..4,
            alone : BOOLEAN, result : Result]
Load == [at : LoadAt, new : Cert \cup {NoCert}]

LEMMA InstallTypes ==
  ASSUME InstallTypeOK
  PROVE  /\ site \in Site /\ expired \in SUBSET Cert /\ cli \in Command
         /\ loader \in [Process -> Load] /\ runs \in 0..MaxRuns
         /\ made \in SUBSET Cert /\ accidents \in SUBSET Accident
BY DEF InstallTypeOK, Site, Command, Load

LEMMA InstallTypesBack ==
  ASSUME site' \in Site, expired' \in SUBSET Cert, cli' \in Command,
         loader' \in [Process -> Load], runs' \in 0..MaxRuns,
         made' \in SUBSET Cert, accidents' \in SUBSET Accident
  PROVE  InstallTypeOK'
BY DEF InstallTypeOK, Site, Command, Load

LEMMA SiteParts ==
  ASSUME NEW s \in Site
  PROVE  /\ s.key \in File /\ s.cert \in File /\ s.trusted \in SUBSET Cert
         /\ \A f \in File : /\ [s EXCEPT !.key = f] \in Site
                            /\ [s EXCEPT !.cert = f] \in Site
                            /\ [s EXCEPT !.key = f].trusted = s.trusted
                            /\ [s EXCEPT !.cert = f].trusted = s.trusted
BY DEF Site

(* A plan begins with the CA, and goes on with other steps, each once.     *)
StepName == {"ca", "keychain", "launchd", "hooks"}
PlanOf(plan, steps) ==
  /\ plan \in Seq(StepName) /\ Len(plan) > 0 /\ plan[1] = "ca"
  /\ \A i \in 1..Len(plan) : plan[i] \in steps
  /\ \A i \in 1..Len(plan) : plan[i] = "keychain" => i = 2
  /\ \A i, j \in 1..Len(plan) : plan[i] = plan[j] => i = j

LEMMA OneMore ==
  ASSUME NEW plan, NEW steps, PlanOf(plan, steps),
         NEW step \in StepName \ steps, step = "keychain" => Len(plan) = 1,
         NEW more \in {<<>>, <<step>>}, NEW n \in Nat, Len(plan) \in 1..n
  PROVE  PlanOf(plan \o more, steps \cup {step}) /\ Len(plan \o more) \in 1..(n + 1)
<1>1. plan \in Seq(StepName) /\ Len(plan) \in Nat
  BY DEF PlanOf
<1>2. CASE more = <<>>
  BY <1>1, <1>2, ConcatEmptySeq DEF PlanOf
<1>3. CASE more = <<step>>
  <2> DEFINE next == Append(plan, step)
  <2>1. plan \o more = next
    BY <1>1, <1>3, AppendIsConcat
  <2>2. /\ next \in Seq(StepName) /\ Len(next) = Len(plan) + 1
        /\ \A i \in 1..Len(plan) : next[i] = plan[i]
        /\ next[Len(plan) + 1] = step
    BY <1>1, AppendProperties
  <2> HIDE DEF next
  <2>3. \A i \in 1..Len(next) :
          \/ i \in 1..Len(plan) /\ next[i] = plan[i]
          \/ i = Len(plan) + 1 /\ next[i] = step
    BY <1>1, <2>2
  <2>4. PlanOf(next, steps \cup {step})
    <3>1. next[1] = "ca" /\ Len(next) > 0
      BY <1>1, <2>2 DEF PlanOf
    <3>2. \A i \in 1..Len(next) : next[i] \in steps \cup {step}
      BY <2>3 DEF PlanOf
    <3>3. \A i \in 1..Len(next) : next[i] = "keychain" => i = 2
      BY <1>1, <2>3 DEF PlanOf
    <3>4. \A i, j \in 1..Len(next) : next[i] = next[j] => i = j
      <4> SUFFICES ASSUME NEW i \in 1..Len(next), NEW j \in 1..Len(next), next[i] = next[j]
                   PROVE  i = j
        OBVIOUS
      <4> QED BY <2>3 DEF PlanOf
    <3> QED BY <2>2, <3>1, <3>2, <3>3, <3>4 DEF PlanOf
  <2> QED BY <2>1, <2>2, <2>4
<1> QED BY <1>2, <1>3

LEMMA PlanFacts ==
  ASSUME NEW plan \in Plans
  PROVE  /\ Len(plan) \in 1..4 /\ DOMAIN plan = 1..Len(plan) /\ plan[1] = "ca"
         /\ \A i \in DOMAIN plan : plan[i] = "ca" => i = 1
         /\ \A i \in DOMAIN plan : plan[i] = "keychain" => i = 2
         /\ "keychain" \in Steps(plan) => Len(plan) > 1 /\ plan[2] = "keychain"
         /\ \A i, j \in DOMAIN plan : plan[i] = plan[j] => i = j
         /\ \A i \in DOMAIN plan : plan[i] \in {"ca", "keychain", "launchd", "hooks"}
<1>1. PICK options \in Options : plan = Plan(options)
  BY DEF Plans
<1> DEFINE k == IF options.keychain THEN <<"keychain">> ELSE <<>>
           a == IF options.autoStart THEN <<"launchd">> ELSE <<>>
           h == IF options.hooks THEN <<"hooks">> ELSE <<>>
           first == <<"ca">>
           second == first \o k
           third == second \o a
<1>2. k \in {<<>>, <<"keychain">>} /\ a \in {<<>>, <<"launchd">>} /\ h \in {<<>>, <<"hooks">>}
  OBVIOUS
<1>3. plan = third \o h
  BY <1>1 DEF Plan
<1>4. PlanOf(first, {"ca"}) /\ Len(first) = 1
  <2>1. first \in Seq(StepName) /\ Len(first) = 1 /\ first[1] = "ca"
    BY DEF StepName
  <2> HIDE DEF first
  <2>2. \A i \in 1..Len(first) : i = 1
    BY <2>1
  <2> QED BY <2>1, <2>2 DEF PlanOf
<1> HIDE DEF k, a, h, first, second, third
<1> DEFINE S1 == {"ca"}
           S2 == S1 \cup {"keychain"}
           S3 == S2 \cup {"launchd"}
           S4 == S3 \cup {"hooks"}
<1>5. "keychain" \in StepName \ S1 /\ "launchd" \in StepName \ S2 /\ "hooks" \in StepName \ S3
      /\ "launchd" # "keychain" /\ "hooks" # "keychain"
      /\ S4 = {"ca", "keychain", "launchd", "hooks"}
  <2>1. "keychain" \in StepName /\ "launchd" \in StepName /\ "hooks" \in StepName
        /\ "launchd" # "keychain" /\ "hooks" # "keychain"
    BY DEF StepName
  <2>2. "keychain" \notin S1 /\ "launchd" \notin S2 /\ "hooks" \notin S3
    OBVIOUS
  <2>3. \A s : s \in S4 <=> s \in {"ca", "keychain", "launchd", "hooks"}
    OBVIOUS
  <2>4. S4 = {"ca", "keychain", "launchd", "hooks"}
    BY <2>3, Zenon
  <2> QED BY <2>1, <2>2, <2>4
<1>6. PlanOf(first, S1) /\ Len(first) \in 1..1
  BY <1>4
<1> HIDE DEF S1, S2, S3, S4
<1>7. PlanOf(plan, S4) /\ Len(plan) \in 1..4
  <2>1. PlanOf(second, S2) /\ Len(second) \in 1..(1 + 1)
    BY <1>2, <1>4, <1>5, <1>6, OneMore DEF S2, second
  <2>2. PlanOf(third, S3) /\ Len(third) \in 1..(2 + 1)
    BY <1>2, <1>5, <2>1, 1 + 1 = 2, OneMore DEF S3, third
  <2>3. PlanOf(plan, S4) /\ Len(plan) \in 1..(3 + 1)
    BY <1>2, <1>3, <1>5, <2>2, 2 + 1 = 3, OneMore DEF S4
  <2> QED BY <2>3, 3 + 1 = 4
<1>8. DOMAIN plan = 1..Len(plan)
  BY <1>7 DEF PlanOf
<1>9. \A i \in DOMAIN plan : plan[i] = "ca" => i = 1
  BY <1>7, <1>8 DEF PlanOf
<1>10. "keychain" \in Steps(plan) => Len(plan) > 1 /\ plan[2] = "keychain"
  BY <1>7, <1>8 DEF PlanOf, Steps
<1> QED BY <1>5, <1>7, <1>8, <1>9, <1>10 DEF PlanOf

LEMMA Positions ==
  ASSUME NEW n \in 1..4, NEW i \in 1..n
  PROVE  /\ i \in 0..4 /\ i \in Nat
         /\ i # n => i + 1 \in 0..4 /\ i + 1 \in 1..n
         /\ i # 1 => i > 1 /\ i - 1 \in 0..4 /\ i - 1 \in 1..n
         /\ i > 1 => i # 1
OBVIOUS

-----------------------------------------------------------------------------
(* How a command goes on: to its next step, back over what it applied, or  *)
(* over the next step to be reversed.                                      *)
Same(next) == /\ next \in Command /\ next.plan = cli.plan
              /\ next.began = cli.began /\ next.alone = cli.alone
Onward(next) ==
  /\ cli.at = "apply" /\ Same(next)
  /\ IF cli.i = Len(cli.plan) THEN next.at = "idle" /\ next.result = "installed"
     ELSE next.at = "apply" /\ next.result = "none" /\ next.i = cli.i + 1
BackOff(next) ==
  /\ cli.at = "apply" /\ Same(next)
  /\ next.reached = cli.i /\ next.fingerprint = cli.fingerprint
  /\ IF cli.i = 1 THEN next.at = "idle" /\ next.result = "failed"
     ELSE next.at = "rollback" /\ next.result = "none" /\ next.i = cli.i - 1
Back(next, ok) ==
  /\ cli.at \in {"rollback", "reverse"} /\ Same(next)
  /\ next.reached = cli.reached /\ next.fingerprint = cli.fingerprint
  /\ ~next.errors => ok /\ ~cli.errors
  /\ IF cli.i > 1 THEN next.at = cli.at /\ next.result = "none" /\ next.i = cli.i - 1
     ELSE /\ next.at = "idle"
          /\ cli.at = "rollback" => next.result = "failed"
          /\ cli.at = "reverse" => \/ next.result = "errors"
                                   \/ next.result = "uninstalled" /\ ok /\ ~cli.errors
Proceeds(next) == Onward(next) \/ BackOff(next) \/ Back(next, TRUE) \/ Back(next, FALSE)

LEMMA CommandFacts ==
  ASSUME InstallInv, cli.at # "idle"
  PROVE  /\ cli \in Command /\ cli.plan \in Plans /\ cli.i \in 1..Len(cli.plan)
         /\ Len(cli.plan) \in 1..4 /\ cli.result = "none"
         /\ cli.i # 1 <=> Step # "ca"
<1>1. cli \in Command
  BY InstallTypes DEF InstallInv
<1>2. cli.plan \in Plans /\ cli.i \in DOMAIN cli.plan /\ cli.result = "none"
  BY DEF InstallInv, CommandFits
<1> QED BY <1>1, <1>2, PlanFacts DEF Step

LEMMA AppliedProceeds ==
  ASSUME InstallInv, cli.at = "apply"
  PROVE  Onward(Applied) /\ Applied.fingerprint = cli.fingerprint
<1>1. /\ cli \in Command /\ cli.i \in 1..Len(cli.plan) /\ Len(cli.plan) \in 1..4
      /\ cli.result = "none"
  BY CommandFacts
<1>2. CASE cli.i = Len(cli.plan)
  BY <1>1, <1>2 DEF Applied, Onward, Same, Command, CommandAt, Result
<1>3. CASE cli.i # Len(cli.plan)
  <2> DEFINE i == cli.i + 1
  <2>0. i \in 0..4
    BY <1>1, <1>3, Positions
  <2>1. i \in 0..4 /\ Applied = [cli EXCEPT !.i = i]
    BY <1>3, <2>0 DEF Applied
  <2> HIDE DEF i
  <2>2. /\ Applied \in Command /\ Applied.i = i /\ Applied.plan = cli.plan
        /\ Applied.began = cli.began /\ Applied.alone = cli.alone
        /\ Applied.at = cli.at /\ Applied.result = cli.result
        /\ Applied.fingerprint = cli.fingerprint
    BY <1>1, <2>1 DEF Command
  <2> QED BY <1>1, <1>3, <2>2 DEF Onward, Same, i
<1> QED BY <1>2, <1>3

LEMMA FailedProceeds == ASSUME InstallInv, cli.at = "apply" PROVE BackOff(Failed)
<1>1. /\ cli \in Command /\ cli.i \in 1..Len(cli.plan) /\ Len(cli.plan) \in 1..4
      /\ cli.result = "none"
  BY CommandFacts
<1>2. CASE cli.i = 1
  BY <1>1, <1>2 DEF Failed, BackOff, Same, Command, CommandAt, Result
<1>3. CASE cli.i # 1
  <2> DEFINE i == cli.i - 1
  <2>0. i \in 0..4 /\ cli.i \in 0..4
    BY <1>1, <1>3, Positions
  <2>1. i \in 0..4 /\ cli.i \in 0..4
        /\ Failed = [cli EXCEPT !.at = "rollback", !.i = i, !.reached = cli.i]
    BY <1>3, <2>0 DEF Failed
  <2> HIDE DEF i
  <2>2. /\ Failed \in Command /\ Failed.i = i /\ Failed.plan = cli.plan
        /\ Failed.began = cli.began /\ Failed.alone = cli.alone
        /\ Failed.at = "rollback" /\ Failed.result = cli.result
        /\ Failed.fingerprint = cli.fingerprint /\ Failed.reached = cli.i
    BY <1>1, <2>1 DEF Command, CommandAt
  <2> QED BY <1>1, <1>3, <2>2 DEF BackOff, Same, i
<1> QED BY <1>2, <1>3

LEMMA ReversedProceeds ==
  ASSUME InstallInv, cli.at \in {"rollback", "reverse"}, NEW ok \in BOOLEAN
  PROVE  Back(Reversed(ok), ok)
<1>1. /\ cli \in Command /\ cli.i \in 1..Len(cli.plan) /\ Len(cli.plan) \in 1..4
      /\ cli.result = "none"
  BY CommandFacts
<1> DEFINE errors == cli.errors \/ ~ok
<1>2. errors \in BOOLEAN /\ (~errors <=> ok /\ ~cli.errors)
  BY <1>1 DEF Command
<1>3. CASE cli.i > 1
  <2> DEFINE i == cli.i - 1
             next == [cli EXCEPT !.i = i, !.errors = errors]
  <2>0. i \in 0..4
    BY <1>1, <1>3, Positions
  <2>1. i \in 0..4 /\ Reversed(ok) = next
    BY <1>3, <2>0 DEF Reversed
  <2> HIDE DEF i, errors
  <2>2. /\ next \in Command /\ next.i = i /\ next.plan = cli.plan
        /\ next.began = cli.began /\ next.alone = cli.alone
        /\ next.at = cli.at /\ next.result = cli.result /\ next.errors = errors
        /\ next.fingerprint = cli.fingerprint /\ next.reached = cli.reached
    BY <1>1, <1>2, <2>1 DEF Command
  <2> HIDE DEF next
  <2> QED BY <1>1, <1>2, <1>3, <2>1, <2>2 DEF Back, Same, i
<1>4. CASE ~(cli.i > 1)
  <2> DEFINE result == IF cli.at = "rollback" THEN "failed"
                       ELSE IF errors THEN "errors" ELSE "uninstalled"
             next == [cli EXCEPT !.at = "idle", !.errors = errors, !.result = result]
  <2>1. result \in Result /\ Reversed(ok) = next
    BY <1>4 DEF Reversed, Result
  <2>2. /\ cli.at = "rollback" => result = "failed"
        /\ cli.at = "reverse" => \/ result = "errors"
                                 \/ result = "uninstalled" /\ ~errors
    OBVIOUS
  <2> HIDE DEF result, errors
  <2>3. /\ next \in Command /\ next.plan = cli.plan
        /\ next.began = cli.began /\ next.alone = cli.alone
        /\ next.at = "idle" /\ next.result = result /\ next.errors = errors
        /\ next.fingerprint = cli.fingerprint /\ next.reached = cli.reached
    BY <1>1, <1>2, <2>1 DEF Command, CommandAt
  <2> HIDE DEF next
  <2> QED BY <1>1, <1>2, <1>4, <2>1, <2>2, <2>3 DEF Back, Same
<1> QED BY <1>3, <1>4

(* Only one of the two walks on the CA files, and the command on its own   *)
(* way: what becomes of its loader when a step of the command is over.     *)
Carried ==
  /\ loader' \in [Process -> Load] /\ loader'["proxy"] = loader["proxy"]
  /\ IF cli'.at \in {"rollback", "reverse"} /\ cli'.i = 1
     THEN loader'["cli"].at = "aside" ELSE loader'["cli"].at = "idle"

Remembers ==
  \/ /\ cli'.fingerprint = cli.fingerprint
     /\ cli.at = "apply" => Step # "keychain" \/ BackOff(cli')
  \/ /\ Onward(cli') /\ Step = "keychain"
     /\ cli'.fingerprint \in Cert /\ cli'.fingerprint = site.cert

LEMMA ProceedsFacts ==
  ASSUME InstallInv, Proceeds(cli')
  PROVE  /\ cli.at # "idle" /\ cli' \in Command /\ cli'.plan = cli.plan
         /\ cli'.began = cli.began /\ cli'.alone = cli.alone
         /\ cli.i \in 1..Len(cli.plan) /\ Len(cli.plan) \in 1..4 /\ cli.result = "none"
         /\ DOMAIN cli.plan = 1..Len(cli.plan) /\ cli.plan \in Plans
         /\ cli'.at # "idle" => cli'.i \in 1..Len(cli.plan) /\ cli'.result = "none"
<1>1. /\ cli.at # "idle" /\ cli' \in Command /\ cli'.plan = cli.plan
      /\ cli'.began = cli.began /\ cli'.alone = cli.alone
  BY DEF Proceeds, Onward, BackOff, Back, Same
<1>2. /\ cli.i \in 1..Len(cli.plan) /\ Len(cli.plan) \in 1..4 /\ cli.result = "none"
      /\ cli.plan \in Plans
  BY <1>1, CommandFacts
<1>3. DOMAIN cli.plan = 1..Len(cli.plan)
  BY <1>2, PlanFacts
<1> DEFINE n == Len(cli.plan)
           i == cli.i
<1>4. /\ i # n => i + 1 \in 1..n
      /\ i # 1 => i > 1 /\ i - 1 \in 1..n
      /\ i > 1 => i # 1
  BY <1>2, Positions
<1> HIDE DEF n, i
<1>5. cli'.at # "idle" => cli'.i \in 1..n /\ cli'.result = "none"
  BY <1>4 DEF Proceeds, Onward, BackOff, Back, n, i
<1> QED BY <1>1, <1>2, <1>3, <1>5 DEF n

LEMMA CommandKeeps ==
  ASSUME InstallInv, Proceeds(cli'), Carried, accidents \subseteq accidents', Remembers
  PROVE  CommandFits' /\ Apart' /\ Fingerprinted'
<1>0. CommandFits /\ Apart /\ Fingerprinted
  BY DEF InstallInv
<1>1. /\ cli.at # "idle" /\ cli' \in Command /\ cli'.plan = cli.plan
      /\ cli'.began = cli.began /\ cli'.alone = cli.alone
      /\ cli.i \in 1..Len(cli.plan) /\ Len(cli.plan) \in 1..4 /\ cli.result = "none"
      /\ DOMAIN cli.plan = 1..Len(cli.plan) /\ cli.plan \in Plans
      /\ cli'.at # "idle" => cli'.i \in 1..Len(cli.plan) /\ cli'.result = "none"
  BY ProceedsFacts
<1>2. loader["proxy"].at # "aside" /\ loader'["proxy"] = loader["proxy"]
  BY <1>0 DEF CommandFits, Carried
<1>3. CommandFits'
  <2>1. /\ cli'.at = "apply" => cli'.i # 1
        /\ cli'.at = "rollback" => cli'.i < cli'.reached /\ cli'.reached \in DOMAIN cli'.plan
        /\ cli'.result = "failed" => cli'.reached \in DOMAIN cli'.plan
    <3>1. CASE Onward(cli')
      BY <1>1, <3>1 DEF Onward
    <3>2. CASE BackOff(cli')
      BY <1>1, <3>2 DEF BackOff
    <3>3. ASSUME NEW ok, Back(cli', ok)
          PROVE  /\ cli'.at = "apply" => cli'.i # 1
                 /\ cli'.at = "rollback" =>
                      cli'.i < cli'.reached /\ cli'.reached \in DOMAIN cli'.plan
                 /\ cli'.result = "failed" => cli'.reached \in DOMAIN cli'.plan
      <4>1. cli.at = "rollback" => cli.i < cli.reached /\ cli.reached \in DOMAIN cli.plan
        BY <1>0 DEF CommandFits
      <4>2. /\ cli'.reached = cli.reached
            /\ cli'.at # "apply"
            /\ cli'.at = "rollback" => cli.at = "rollback" /\ cli'.i = cli.i - 1
            /\ cli'.result = "failed" => cli.at = "rollback"
        BY <3>3 DEF Back
      <4> QED BY <1>1, <4>1, <4>2
    <3> QED BY <3>1, <3>2, <3>3 DEF Proceeds
  <2>2. /\ cli'.at # "idle" => cli'.plan \in Plans /\ cli'.i \in DOMAIN cli'.plan
        /\ cli'.result # "none" => cli'.at = "idle" /\ cli'.plan \in Plans
    BY <1>1
  <2>3. /\ loader'["cli"].at # "idle" <=> cli'.at # "idle" /\ cli'.i = 1
        /\ loader'["cli"].at = "aside" <=> cli'.at \in {"rollback", "reverse"} /\ cli'.i = 1
    BY <1>1, <2>1 DEF Carried, Command, CommandAt
  <2> QED BY <1>2, <2>1, <2>2, <2>3 DEF CommandFits
<1>4. Apart'
  BY <1>0, <1>1, <1>2 DEF Apart
<1>5. Fingerprinted'
  <2>1. Steps(cli'.plan) = Steps(cli.plan)
    BY <1>1
  <2>2. "keychain" \in Steps(cli.plan) => cli.plan[2] = "keychain"
    BY <1>1, PlanFacts
  <2>3. CASE Onward(cli')
    <3>1. /\ cli.at = "apply" /\ cli'.at \in {"apply", "idle"}
          /\ cli'.at = "apply" => cli'.i = cli.i + 1
      BY <2>3 DEF Onward
    <3>2. cli'.at = "apply" => cli'.i # 1
      BY <1>1, <3>1
    <3>3. ASSUME "keychain" \in Steps(cli.plan), cli'.at = "apply", cli'.i > 2
          PROVE  cli'.fingerprint \in Cert
      <4>1. CASE Step = "keychain"
        BY <2>3, <3>1, <4>1 DEF Remembers, Onward, BackOff
      <4>2. CASE Step # "keychain"
        <5>1. cli.i # 2
          BY <2>2, <3>3, <4>2 DEF Step
        <5>2. cli.i > 2
          BY <1>1, <3>1, <3>3, <5>1
        <5> QED BY <1>0, <3>1, <3>3, <4>2, <5>2 DEF Remembers, Fingerprinted
      <4> QED BY <4>1, <4>2
    <3> QED BY <2>1, <3>1, <3>2, <3>3 DEF Fingerprinted
  <2>4. CASE BackOff(cli')
    <3>1. /\ cli.at = "apply" /\ cli'.at \in {"rollback", "idle"} /\ cli'.reached = cli.i
          /\ cli'.fingerprint = cli.fingerprint
      BY <2>4 DEF BackOff
    <3> QED BY <1>0, <2>1, <3>1 DEF Fingerprinted
  <2>5. ASSUME NEW ok, Back(cli', ok) PROVE Fingerprinted'
    <3>1. /\ cli'.at \in {cli.at, "idle"} /\ cli'.reached = cli.reached
          /\ cli'.fingerprint = cli.fingerprint /\ cli.at \in {"rollback", "reverse"}
      BY <2>5 DEF Back
    <3> QED BY <1>0, <2>1, <3>1 DEF Fingerprinted
  <2> QED BY <2>3, <2>4, <2>5 DEF Proceeds
<1> QED BY <1>3, <1>4, <1>5

(* A step other than the CA's leaves the CA files alone; it trusts only    *)
(* the certificate on disk, and a reversed one is undone and stays so.     *)
StepDone ==
  /\ site' \in Site /\ site'.key = site.key /\ site'.cert = site.cert
  /\ Coherent' => site'.trusted \subseteq {site.cert}
  /\ Step # "launchd" /\ ~site.plist => ~site'.plist
  /\ Step # "hooks" /\ ~site.entries => ~site'.entries
  /\ Step # "keychain" => site'.trusted = site.trusted
StepReversed ==
  /\ Step = "launchd" => ~site'.plist
  /\ Step = "hooks" => ~site'.entries
  /\ Step = "keychain" =>
       (IF cli.fingerprint # NoCert THEN cli.fingerprint ELSE site.cert) \notin site'.trusted
LEMMA StepTrust ==
  ASSUME InstallInv, Proceeds(cli'), Carried, accidents \subseteq accidents', Remembers,
         cli.i # 1, StepDone,
         cli.at # "apply" /\ Step = "keychain" /\ Coherent' => StepReversed
  PROVE  TrustFits'
<1>0. TrustFits /\ Apart /\ Fingerprinted
  BY DEF InstallInv
<1>1. /\ cli.at # "idle" /\ cli' \in Command /\ cli'.plan = cli.plan
      /\ cli.i \in 1..Len(cli.plan) /\ Len(cli.plan) \in 1..4 /\ cli.plan \in Plans
  BY ProceedsFacts
<1> SUFFICES ASSUME Coherent'
             PROVE  /\ site'.trusted \subseteq {site'.cert}
                    /\ \A p \in Process : loader'[p].at \in Replacing => site'.trusted = {}
                    /\ cli'.at # "idle" /\ cli'.fingerprint # NoCert =>
                         cli'.fingerprint = site'.cert
                    /\ cli'.at \in {"rollback", "reverse"} /\ cli'.i = 1 /\ KeychainReversed' =>
                         site'.cert \notin site'.trusted
  BY DEF TrustFits
<1>2. Coherent /\ "overlap" \notin accidents
  BY DEF Coherent
<1>3. loader'["proxy"].at = "idle" /\ loader'["cli"].at \in {"idle", "aside"}
  BY <1>0, <1>1, <1>2 DEF Apart, Carried
<1>4. \A p \in Process : loader'[p].at \notin Replacing
  BY <1>3 DEF Process, Replacing
<1>5. cli.fingerprint # NoCert => cli.fingerprint = site.cert
  BY <1>0, <1>1, <1>2 DEF TrustFits
<1>6. cli'.fingerprint # NoCert => cli'.fingerprint = site'.cert
  BY <1>5 DEF Remembers, StepDone
<1>7. ASSUME cli'.at \in {"rollback", "reverse"}, cli'.i = 1, KeychainReversed'
      PROVE  site'.cert \notin site'.trusted
  <2>1. "keychain" \in Steps(cli.plan) /\ (cli'.at = "rollback" => cli'.reached > 2)
    BY <1>1, <1>7 DEF KeychainReversed
  <2>2. /\ cli.i - 1 = 1
        /\ BackOff(cli') \/ cli.at \in {"rollback", "reverse"}
        /\ BackOff(cli') => cli'.reached = cli.i /\ cli'.at = "rollback"
    BY <1>7, <1>1 DEF Proceeds, Onward, BackOff, Back
  <2>3. cli.i = 2
    BY <1>1, <2>2
  <2>4. Step = "keychain"
    BY <1>1, <2>1, <2>3, PlanFacts DEF Step
  <2>5. cli.at # "apply"
    BY <2>1, <2>2, <2>3 DEF BackOff
  <2>6. StepReversed
    BY <2>4, <2>5
  <2> QED BY <1>5, <2>4, <2>6 DEF StepReversed, StepDone
<1> QED BY <1>4, <1>6, <1>7 DEF StepDone

LEMMA StepUndoes ==
  ASSUME InstallInv, Proceeds(cli'), Remembers, cli.i # 1, StepDone,
         cli.at # "apply" /\ ~cli'.errors => StepReversed
  PROVE  UndoneSoFar'
<1>0. UndoneSoFar /\ Fingerprinted
  BY DEF InstallInv
<1>1. /\ cli.at # "idle" /\ cli' \in Command /\ cli'.plan = cli.plan
      /\ cli'.began = cli.began /\ cli'.alone = cli.alone
      /\ cli.i \in 1..Len(cli.plan) /\ Len(cli.plan) \in 1..4 /\ cli.plan \in Plans
      /\ DOMAIN cli.plan = 1..Len(cli.plan) /\ cli.result = "none"
  BY ProceedsFacts
<1> SUFFICES ASSUME cli.alone PROVE UndoneSoFar'
  BY <1>1 DEF UndoneSoFar
<1>2. CASE Onward(cli')
  <2>1. cli'.at \notin {"reverse", "rollback"} /\ cli'.result \notin {"uninstalled", "failed"}
    BY <1>2 DEF Onward
  <2> QED BY <2>1 DEF UndoneSoFar
<1>3. CASE BackOff(cli')
  <2>1. /\ cli'.at = "rollback" /\ cli'.result = "none"
        /\ cli'.i = cli.i - 1 /\ cli'.reached = cli.i
    BY <1>3 DEF BackOff
  <2>2. \A j \in 1..Len(cli.plan) : ~(cli'.i < j /\ j < cli'.reached)
    BY <1>1, <2>1
  <2> QED BY <1>1, <2>1, <2>2 DEF UndoneSoFar
<1>4. ASSUME NEW ok \in BOOLEAN, Back(cli', ok) PROVE UndoneSoFar'
  <2>1. /\ cli'.at = cli.at /\ cli.at \in {"rollback", "reverse"} /\ cli'.result = "none"
        /\ cli'.i = cli.i - 1 /\ cli'.reached = cli.reached
        /\ cli'.fingerprint = cli.fingerprint
        /\ ~cli'.errors => ok /\ ~cli.errors
    BY <1>1, <1>4, Positions DEF Back
  <2>2. cli'.at = "reverse" => site'.cert = cli'.began
    BY <1>0, <1>1, <2>1 DEF UndoneSoFar, StepDone
  <2>3. ASSUME ~cli'.errors, NEW j \in 1..Len(cli.plan), j > cli'.i,
               cli.at = "reverse" \/ j < cli.reached
        PROVE  StepUndone(cli.plan[j])'
    <3>1. ok = TRUE /\ ~cli.errors
      BY <2>1, <2>3
    <3>2. StepReversed
      BY <2>1, <2>3
    <3>3. j # 1 /\ (j = cli.i \/ j > cli.i)
      BY <1>1, <2>1, <2>3
    <3>4. cli.plan[j] \in {"keychain", "launchd", "hooks"}
      BY <1>1, <3>3, PlanFacts
    <3>5. CASE j = cli.i
      <4>1. Step = cli.plan[j]
        BY <3>5 DEF Step
      <4>2. Step = "keychain" =>
              cli.fingerprint # NoCert \/ (cli.at = "reverse" /\ site.cert = cli.began)
        <5>1. CASE cli.at = "reverse"
          BY <1>0, <5>1 DEF UndoneSoFar
        <5>2. CASE cli.at = "rollback" /\ Step = "keychain"
          <6>1. "keychain" \in Steps(cli.plan) /\ cli.i = 2
            BY <1>1, <5>2, PlanFacts DEF Step, Steps
          <6>2. cli.reached > 2
            <7>1. cli.reached \in Nat /\ j < cli.reached
              <8>1. cli.reached \in DOMAIN cli.plan
                BY <5>2 DEF InstallInv, CommandFits
              <8> QED BY <1>1, <2>3, <5>2, <8>1
            <7> QED BY <3>5, <6>1, <7>1
          <6>3. cli.fingerprint \in Cert
            BY <1>0, <5>2, <6>1, <6>2 DEF Fingerprinted
          <6>4. NoCert \notin Cert
            BY InstallAssumption
          <6> HIDE <6>1, <6>2
          <6> QED BY <6>3, <6>4
        <5> QED BY <2>1, <5>1, <5>2
      <4> QED BY <1>1, <2>1, <3>2, <3>4, <4>1, <4>2 DEF StepReversed, StepUndone
    <3>6. CASE j > cli.i
      <4>1. StepUndone(cli.plan[j])
        BY <1>0, <1>1, <2>1, <2>3, <3>1, <3>6 DEF UndoneSoFar
      <4>2. cli.plan[j] # Step
        BY <1>1, <3>6, PlanFacts DEF Step
      <4>3. cli.plan[j] # "keychain"
        <5>1. cli.i > 1
          BY <1>1, Positions
        <5>2. j # 2
          BY <1>1, <3>6, <5>1
        <5> QED BY <1>1, <5>2, PlanFacts
      <4>4. CASE cli.plan[j] = "launchd"
        BY <1>1, <4>1, <4>2, <4>4 DEF StepUndone, StepDone
      <4>5. CASE cli.plan[j] = "hooks"
        BY <1>1, <4>1, <4>2, <4>5 DEF StepUndone, StepDone
      <4> QED BY <3>4, <4>3, <4>4, <4>5
    <3> QED BY <3>3, <3>5, <3>6
  <2> HIDE <1>4
  <2> QED BY <1>1, <2>1, <2>2, <2>3 DEF UndoneSoFar
<1> QED BY <1>2, <1>3, <1>4 DEF Proceeds

LEMMA StepKeeps ==
  ASSUME InstallInv, NEW next, Proceeds(next), CommandMoves(next), cli.i # 1, Remembers, StepDone,
         accidents \subseteq accidents', accidents' \in SUBSET Accident, JobFits',
         cli.at # "apply" /\ Step = "keychain" /\ Coherent' => StepReversed,
         cli.at # "apply" /\ ~cli'.errors => StepReversed
  PROVE  InstallInv'
<1>1. cli' = next /\ UNCHANGED <<expired, runs, made>>
  BY DEF CommandMoves
<1>2. Proceeds(cli')
  BY <1>1
<1>3. /\ loader \in [Process -> Load] /\ expired \in SUBSET Cert
      /\ runs \in 0..MaxRuns /\ made \in SUBSET Cert
  BY InstallTypes DEF InstallInv
<1>4. loader["cli"].at = "idle" /\ "cli" \in Process /\ "proxy" \in Process
  BY DEF InstallInv, CommandFits, Process
<1>5. Carried
  <2> DEFINE aside == [at |-> "aside", new |-> NoCert]
  <2>1. aside \in Load /\ aside.at = "aside"
    BY DEF Load, LoadAt
  <2>2. loader' = IF cli'.at \in {"rollback", "reverse"} /\ cli'.i = 1
                  THEN [loader EXCEPT !["cli"] = aside] ELSE loader
    <3>1. cli'.at \in {"rollback", "reverse"} => cli'.at # "idle"
      OBVIOUS
    <3> QED BY <1>1, <3>1 DEF CommandMoves, BackTo, Works
  <2> HIDE DEF aside
  <2>3. "cli" # "proxy"
    OBVIOUS
  <2> QED BY <1>3, <1>4, <2>1, <2>2, <2>3 DEF Carried
<1>6. CommandFits' /\ Apart' /\ Fingerprinted'
  BY <1>2, <1>5, CommandKeeps
<1>7. TrustFits'
  BY <1>2, <1>5, StepTrust
<1>8. UndoneSoFar'
  BY <1>2, StepUndoes
<1>9. FilesFit'
  <2>1. /\ site'.key = site.key /\ site'.cert = site.cert
        /\ \A p \in Process : loader'[p] = loader[p] \/ loader'[p].at \in {"idle", "aside"}
    BY <1>5 DEF StepDone, Carried, Process
  <2>2. FilesFit
    BY DEF InstallInv
  <2> QED BY <2>1, <2>2 DEF FilesFit
<1>10. InstallTypeOK'
  BY <1>1, <1>2, <1>3, <1>5, ProceedsFacts, InstallTypesBack DEF Carried, StepDone
<1> QED BY <1>6, <1>7, <1>8, <1>9, <1>10 DEF InstallInv

-----------------------------------------------------------------------------
(* The CA files: the loader of the command or of the proxy goes on, or is  *)
(* done; nothing else works on the files unless there is an overlap.       *)
LoadsOn(p) ==
  /\ cli' = cli /\ loader[p].at \notin {"idle", "aside"}
  /\ loader'[p].at \in Replacing
LoadOver(p) ==
  /\ loader'[p].at = "idle"
  /\ p = "proxy" => cli' = cli
  /\ p = "cli" => /\ Proceeds(cli') /\ cli'.fingerprint = cli.fingerprint
                  /\ loader[p].at = "aside" => cli'.at = "idle"
Loads(p) ==
  /\ loader[p].at # "idle" /\ loader' \in [Process -> Load]
  /\ \A q \in Process \ {p} : loader'[q] = loader[q]
  /\ LoadsOn(p) \/ LoadOver(p)
  /\ site' \in Site /\ site'.trusted = site.trusted /\ site'.plist = site.plist
  /\ site'.loaded = site.loaded /\ site'.entries = site.entries
  /\ accidents \subseteq accidents'

LEMMA LoadFacts ==
  ASSUME InstallInv, NEW p \in Process, loader[p].at # "idle"
  PROVE  /\ p \in {"cli", "proxy"} /\ "cli" \in Process /\ "proxy" \in Process
         /\ p = "cli" =>
              /\ cli.at # "idle" /\ cli.i = 1 /\ Step = "ca" /\ cli.result = "none"
              /\ loader[p].at # "aside" => cli.at = "apply" /\ cli.fingerprint = NoCert
              /\ loader[p].at = "aside" => cli.at \in {"rollback", "reverse"}
         /\ p = "proxy" =>
              /\ loader[p].at # "aside"
              /\ "overlap" \notin accidents => cli.at = "idle"
              /\ cli.alone => cli.at = "idle" /\ cli.result = "none"
         /\ "overlap" \notin accidents =>
              \A q \in Process \ {p} : loader[q].at = "idle"
<1>0. CommandFits /\ Fingerprinted /\ Apart /\ InstallTypeOK
  BY DEF InstallInv
<1>1. cli.at \in CommandAt /\ Process = {"cli", "proxy"}
  BY <1>0, InstallTypes DEF Command, Process
<1>2. CASE p = "cli"
  <2>1. cli.at # "idle" /\ cli.i = 1
    BY <1>0, <1>2 DEF CommandFits
  <2>2. Step = "ca" /\ cli.result = "none"
    BY <2>1, CommandFacts
  <2>3. loader[p].at # "aside" => cli.at = "apply" /\ cli.fingerprint = NoCert
    BY <1>0, <1>1, <1>2, <2>1 DEF CommandFits, Fingerprinted, CommandAt
  <2>4. loader[p].at = "aside" => cli.at \in {"rollback", "reverse"}
    BY <1>0, <1>2 DEF CommandFits
  <2>5. "overlap" \notin accidents => loader["proxy"].at = "idle"
    BY <1>0, <2>1 DEF Apart
  <2> QED BY <1>1, <1>2, <2>1, <2>2, <2>3, <2>4, <2>5
<1>3. CASE p = "proxy"
  <2>1. /\ loader[p].at # "aside"
        /\ "overlap" \notin accidents => cli.at = "idle"
        /\ cli.alone => cli.at = "idle" /\ cli.result = "none"
    BY <1>0, <1>3 DEF CommandFits, Apart
  <2>2. cli.at = "idle" => loader["cli"].at = "idle"
    BY <1>0 DEF CommandFits
  <2> QED BY <1>1, <1>3, <2>1, <2>2
<1> QED BY <1>1, <1>2, <1>3

LEMMA LoadsCommand ==
  ASSUME InstallInv, NEW p \in Process, Loads(p)
  PROVE  cli' \in Command /\ CommandFits' /\ Apart' /\ Fingerprinted' /\ JobFits'
<1>0. /\ InstallTypeOK /\ CommandFits /\ Fingerprinted /\ Apart /\ JobFits
      /\ cli \in Command /\ "cli" # "proxy"
  BY InstallTypes DEF InstallInv
<1>1. JobFits'
  BY <1>0 DEF JobFits, Loads
<1>2. CASE cli' = cli
  <2>1. Fingerprinted'
    BY <1>0, <1>2 DEF Fingerprinted
  <2>2. CASE p = "cli"
    <3>1. loader'["proxy"] = loader["proxy"]
      BY <2>2, LoadFacts DEF Loads
    <3>2. LoadsOn(p)
      <4>1. ~Proceeds(cli)
        BY <2>2, LoadFacts, CommandFacts DEF Proceeds, Onward, BackOff, Back, Loads
      <4> QED BY <1>2, <2>2, <4>1 DEF LoadOver, Loads
    <3>3. loader'["cli"].at \in Replacing /\ loader["cli"].at \notin {"idle", "aside"}
      BY <2>2, <3>2 DEF LoadsOn
    <3> QED BY <1>0, <1>1, <1>2, <2>1, <3>1, <3>3 DEF CommandFits, Apart, Replacing, Loads
  <2>3. CASE p = "proxy"
    <3>1. loader'["cli"] = loader["cli"]
      BY <2>3, LoadFacts DEF Loads
    <3>2. loader["proxy"].at # "idle" /\ loader'["proxy"].at # "aside"
      BY <2>3 DEF Loads, LoadsOn, LoadOver, Replacing
    <3>3. CommandFits'
      BY <1>0, <1>2, <3>1, <3>2 DEF CommandFits
    <3>4. Apart'
      BY <1>0, <1>2, <3>2 DEF Apart, Loads
    <3> QED BY <1>0, <1>1, <1>2, <2>1, <3>3, <3>4
  <2> QED BY <2>2, <2>3, LoadFacts DEF Loads
<1>3. CASE cli' # cli
  <2>1. p = "cli" /\ LoadOver(p)
    BY <1>3, LoadFacts DEF Loads, LoadsOn, LoadOver
  <2>2. /\ Proceeds(cli') /\ cli'.fingerprint = cli.fingerprint /\ loader'["cli"].at = "idle"
        /\ cli.i = 1 /\ Step # "keychain" /\ loader'["proxy"] = loader["proxy"]
    BY <2>1, LoadFacts DEF LoadOver, Loads
  <2>3. ~(cli'.at \in {"rollback", "reverse"} /\ cli'.i = 1)
    BY <2>2 DEF Proceeds, Onward, BackOff, Back
  <2>4. Carried
    BY <2>2, <2>3 DEF Carried, Loads
  <2>5. Remembers
    BY <2>2 DEF Remembers
  <2> QED BY <1>1, <2>2, <2>4, <2>5, CommandKeeps, ProceedsFacts DEF Loads
<1> QED BY <1>2, <1>3

LEMMA LoadsFiles ==
  ASSUME InstallInv, NEW p \in Process, Loads(p),
         loader'[p].at = "writeCert" => loader'[p].new \in Cert,
         "overlap" \notin accidents =>
           /\ {site'.key, site'.cert} \subseteq Cert => site'.key = site'.cert
           /\ loader'[p].at = "writeKey" => site'.key = NoCert /\ site'.cert = NoCert
           /\ loader'[p].at = "writeCert" =>
                site'.cert = NoCert /\ site'.key \in {loader'[p].new, Garbage}
  PROVE  FilesFit'
<1>1. FilesFit
  BY DEF InstallInv
<1>2. \A q \in Process \ {p} : loader'[q] = loader[q]
  BY DEF Loads
<1>3. "overlap" \notin accidents => \A q \in Process \ {p} : loader'[q].at = "idle"
  BY <1>2, LoadFacts DEF Loads
<1>4. \A q \in Process : loader'[q].at = "writeCert" => loader'[q].new \in Cert
  BY <1>1, <1>2 DEF FilesFit
<1>5. "overlap" \notin accidents' => "overlap" \notin accidents
  BY DEF Loads
<1> QED BY <1>3, <1>4, <1>5 DEF FilesFit

LEMMA LoadsTrust ==
  ASSUME InstallInv, NEW p \in Process, Loads(p),
         Coherent' => \/ site.trusted = {}
                      \/ site'.cert = site.cert /\ loader'[p].at \notin Replacing
  PROVE  TrustFits'
<1>0. TrustFits
  BY DEF InstallInv
<1> SUFFICES ASSUME Coherent'
             PROVE  /\ site'.trusted \subseteq {site'.cert}
                    /\ \A q \in Process : loader'[q].at \in Replacing => site'.trusted = {}
                    /\ cli'.at # "idle" /\ cli'.fingerprint # NoCert =>
                         cli'.fingerprint = site'.cert
                    /\ cli'.at \notin {"rollback", "reverse"}
  BY DEF TrustFits
<1>1. Coherent /\ "overlap" \notin accidents /\ site'.trusted = site.trusted
  BY DEF Coherent, Loads
<1>2. site'.trusted \subseteq {site'.cert}
  BY <1>0, <1>1 DEF TrustFits
<1>3. \A q \in Process \ {p} : loader'[q].at = "idle"
  BY <1>1, LoadFacts DEF Loads
<1>4. \A q \in Process : loader'[q].at \in Replacing => site'.trusted = {}
  BY <1>1, <1>3 DEF Replacing
<1>5. CASE p = "proxy"
  <2>1. cli'.at = "idle"
    BY <1>1, <1>5, LoadFacts DEF Loads, LoadsOn, LoadOver
  <2> QED BY <1>2, <1>4, <2>1
<1>6. CASE p = "cli" /\ LoadsOn(p)
  <2>1. cli' = cli /\ cli.at = "apply" /\ cli.fingerprint = NoCert
    BY <1>6, LoadFacts DEF Loads, LoadsOn
  <2> QED BY <1>2, <1>4, <2>1
<1>7. CASE p = "cli" /\ LoadOver(p)
  <2>1. /\ Proceeds(cli') /\ cli'.fingerprint = cli.fingerprint /\ cli.i = 1
        /\ loader[p].at = "aside" => cli'.at = "idle"
        /\ loader[p].at # "aside" => cli.at = "apply" /\ cli.fingerprint = NoCert
    BY <1>7, LoadFacts DEF LoadOver, Loads
  <2>2. cli'.at \notin {"rollback", "reverse"}
    BY <2>1 DEF Proceeds, Onward, BackOff, Back
  <2> QED BY <1>2, <1>4, <2>1, <2>2
<1> QED BY <1>5, <1>6, <1>7, LoadFacts DEF Loads

LEMMA LoadsUndo ==
  ASSUME InstallInv, NEW p \in Process, Loads(p),
         loader[p].at = "aside" /\ (cli'.result = "uninstalled" \/ ~cli'.errors) =>
           site'.key = NoCert /\ site'.cert = NoCert
  PROVE  UndoneSoFar'
<1>0. UndoneSoFar
  BY DEF InstallInv
<1>1. CASE p = "proxy"
  <2>1. cli' = cli /\ (cli.alone => cli.at = "idle" /\ cli.result = "none")
    BY <1>1, LoadFacts DEF Loads, LoadsOn, LoadOver
  <2> QED BY <2>1 DEF UndoneSoFar
<1>2. CASE p = "cli" /\ LoadsOn(p)
  <2>1. cli' = cli /\ cli.at = "apply" /\ cli.result = "none"
    BY <1>2, LoadFacts DEF Loads, LoadsOn
  <2> QED BY <2>1 DEF UndoneSoFar
<1>3. CASE p = "cli" /\ LoadOver(p)
  <2>1. /\ Proceeds(cli') /\ cli'.fingerprint = cli.fingerprint /\ cli.i = 1
        /\ loader[p].at # "aside" => cli.at = "apply"
        /\ loader[p].at = "aside" => cli.at \in {"rollback", "reverse"}
    BY <1>3, LoadFacts DEF LoadOver, Loads
  <2>2. /\ cli'.plan = cli.plan /\ cli'.began = cli.began /\ cli'.alone = cli.alone
        /\ DOMAIN cli.plan = 1..Len(cli.plan) /\ Len(cli.plan) \in 1..4 /\ cli.plan \in Plans
    BY <2>1, ProceedsFacts
  <2>3. CASE Onward(cli')
    <3>1. cli'.at \notin {"reverse", "rollback"} /\ cli'.result \notin {"uninstalled", "failed"}
      BY <2>3 DEF Onward
    <3> QED BY <3>1 DEF UndoneSoFar
  <2>4. CASE BackOff(cli')
    <3>1. cli'.at = "idle" /\ cli'.result = "failed" /\ cli'.reached = 1
      BY <2>1, <2>4 DEF BackOff
    <3>2. \A j \in 1..Len(cli.plan) : ~(j < 1)
      BY <2>2
    <3> QED BY <2>2, <3>1, <3>2 DEF UndoneSoFar
  <2>5. ASSUME NEW ok \in BOOLEAN, Back(cli', ok) PROVE UndoneSoFar'
    <3>1. /\ cli.at \in {"rollback", "reverse"} /\ cli'.at = "idle"
          /\ cli'.reached = cli.reached
          /\ ~cli'.errors => ~cli.errors
          /\ cli'.result = "failed" => cli.at = "rollback"
          /\ cli'.result = "uninstalled" => cli.at = "reverse" /\ ~cli.errors
      BY <2>1, <2>5 DEF Back
    <3>2. loader[p].at = "aside"
      BY <2>1, <3>1
    <3>3. ASSUME cli.alone, NEW j \in 1..Len(cli.plan), ~cli.errors,
                 cli'.result = "uninstalled" \/ ~cli'.errors,
                 cli.at = "reverse" \/ j < cli.reached
          PROVE  StepUndone(cli.plan[j])'
      <4>1. site'.key = NoCert /\ site'.cert = NoCert
        BY <3>2, <3>3
      <4>2. CASE j = 1
        <5>1. cli.plan[j] = "ca"
          BY <2>2, <4>2, PlanFacts
        <5> QED BY <2>2, <4>1, <5>1 DEF StepUndone
      <4>3. CASE j # 1
        <5>1. j > cli.i
          BY <2>1, <2>2, <4>3
        <5>2. StepUndone(cli.plan[j])
          BY <1>0, <2>2, <3>1, <3>3, <5>1 DEF UndoneSoFar
        <5>3. cli.plan[j] \in {"keychain", "launchd", "hooks"}
          BY <2>2, <4>3, PlanFacts
        <5>4. /\ site'.trusted = site.trusted /\ site'.plist = site.plist
              /\ site'.entries = site.entries
          BY DEF Loads
        <5> QED BY <2>1, <2>2, <5>2, <5>3, <5>4 DEF StepUndone
      <4> QED BY <4>2, <4>3
    <3> HIDE <2>5
    <3> QED BY <2>2, <3>1, <3>3 DEF UndoneSoFar
  <2> QED BY <2>1, <2>3, <2>4, <2>5 DEF Proceeds
<1> QED BY <1>1, <1>2, <1>3, LoadFacts DEF Loads

LEMMA LoadsKeep ==
  ASSUME InstallInv, NEW p \in Process, Loads(p),
         expired' = expired, runs' = runs, made' \in SUBSET Cert, accidents' \in SUBSET Accident,
         loader'[p].at = "writeCert" => loader'[p].new \in Cert,
         "overlap" \notin accidents =>
           /\ {site'.key, site'.cert} \subseteq Cert => site'.key = site'.cert
           /\ loader'[p].at = "writeKey" => site'.key = NoCert /\ site'.cert = NoCert
           /\ loader'[p].at = "writeCert" =>
                site'.cert = NoCert /\ site'.key \in {loader'[p].new, Garbage},
         Coherent' => \/ site.trusted = {}
                      \/ site'.cert = site.cert /\ loader'[p].at \notin Replacing,
         loader[p].at = "aside" /\ (cli'.result = "uninstalled" \/ ~cli'.errors) =>
           site'.key = NoCert /\ site'.cert = NoCert
  PROVE  InstallInv'
<1>1. cli' \in Command /\ CommandFits' /\ Apart' /\ Fingerprinted' /\ JobFits'
  BY LoadsCommand
<1>2. FilesFit' /\ TrustFits' /\ UndoneSoFar'
  BY LoadsFiles, LoadsTrust, LoadsUndo
<1>3. expired' \in SUBSET Cert /\ runs' \in 0..MaxRuns
  BY InstallTypes DEF InstallInv
<1>4. InstallTypeOK'
  BY <1>1, <1>3, InstallTypesBack DEF Loads
<1> QED BY <1>1, <1>2, <1>4 DEF InstallInv

(* The two ways the loader goes on, and the rest of what Loads asks for.   *)
Ends(p) == p = "cli" => /\ Proceeds(cli') /\ cli'.fingerprint = cli.fingerprint
                        /\ loader[p].at = "aside" => cli'.at = "idle"
Elsewhere ==
  /\ site' \in Site /\ site'.trusted = site.trusted /\ site'.plist = site.plist
  /\ site'.loaded = site.loaded /\ site'.entries = site.entries
  /\ accidents \subseteq accidents'

LEMMA LoadEndsLoads ==
  ASSUME InstallInv, NEW p \in Process, loader[p].at # "idle", Elsewhere,
         NEW next, LoadEnds(p, next), Ends(p)
  PROVE  /\ Loads(p) /\ loader'[p].at = "idle" /\ expired' = expired /\ runs' = runs
         /\ p = "cli" => cli' = next
<1>1. loader \in [Process -> Load]
  BY InstallTypes DEF InstallInv
<1>2. NoLoad \in Load /\ NoLoad.at = "idle"
  BY DEF NoLoad, Load, LoadAt
<1>3. /\ loader' = [loader EXCEPT ![p] = NoLoad] /\ expired' = expired /\ runs' = runs
      /\ cli' = IF p = "cli" THEN next ELSE cli
  BY DEF LoadEnds
<1>4. /\ loader' \in [Process -> Load] /\ loader'[p].at = "idle"
      /\ \A q \in Process \ {p} : loader'[q] = loader[q]
  BY <1>1, <1>2, <1>3
<1>5. LoadOver(p)
  BY <1>3, <1>4 DEF LoadOver, Ends
<1> QED BY <1>3, <1>4, <1>5 DEF Loads, Elsewhere

LEMMA LoadGoesLoads ==
  ASSUME InstallInv, NEW p \in Process, loader[p].at \notin {"idle", "aside"}, Elsewhere,
         NEW to \in Replacing, LoadGoes(p, to)
  PROVE  Loads(p) /\ loader'[p].at = to /\ expired' = expired /\ runs' = runs
<1>1. loader \in [Process -> Load]
  BY InstallTypes DEF InstallInv
<1>2. \A l \in Load : [l EXCEPT !.at = to] \in Load /\ [l EXCEPT !.at = to].at = to
  BY DEF Load, LoadAt, Replacing
<1>3. /\ loader' = [loader EXCEPT ![p].at = to] /\ expired' = expired /\ runs' = runs
      /\ cli' = cli
  BY DEF LoadGoes
<1>4. /\ loader' \in [Process -> Load] /\ loader'[p].at = to
      /\ \A q \in Process \ {p} : loader'[q] = loader[q]
  BY <1>1, <1>2, <1>3
<1>5. LoadsOn(p)
  BY <1>3, <1>4 DEF LoadsOn
<1> QED BY <1>3, <1>4, <1>5 DEF Loads, Elsewhere

LEMMA CutShortFacts ==
  ASSUME InstallInv, NEW p \in Process, NEW s \in CutShort(p)
  PROVE  /\ s \in Site /\ s.trusted = site.trusted /\ s.plist = site.plist
         /\ s.loaded = site.loaded /\ s.entries = site.entries
         /\ s.cert = site.cert \/ loader[p].at = "writeCert"
         /\ {s.key, s.cert} \subseteq Cert => s.key = site.key /\ s.cert = site.cert
<1>1. site \in Site /\ NoCert \notin Cert /\ Garbage \notin Cert
  BY InstallTypes, InstallAssumption DEF InstallInv
<1>2. CASE s = site
  BY <1>1, <1>2
<1>3. ASSUME NEW f \in {NoCert, Garbage}, s = [site EXCEPT !.key = f]
      PROVE  /\ s \in Site /\ s.trusted = site.trusted /\ s.plist = site.plist
             /\ s.loaded = site.loaded /\ s.entries = site.entries
             /\ s.cert = site.cert /\ s.key \notin Cert
  BY <1>1, <1>3 DEF Site, File
<1>4. CASE s = [site EXCEPT !.cert = Garbage]
  <2>1. /\ s \in Site /\ s.trusted = site.trusted /\ s.plist = site.plist
        /\ s.loaded = site.loaded /\ s.entries = site.entries
        /\ s.cert \notin Cert
    BY <1>1, <1>4 DEF Site, File
  <2>2. \/ loader[p].at = "writeCert" \/ s = site
        \/ \E f \in {NoCert, Garbage} : s = [site EXCEPT !.key = f]
    BY DEF CutShort
  <2> QED BY <1>2, <1>3, <2>1, <2>2
<1>5. \/ s = site \/ s = [site EXCEPT !.cert = Garbage]
      \/ \E f \in {NoCert, Garbage} : s = [site EXCEPT !.key = f]
  BY DEF CutShort
<1> QED BY <1>2, <1>3, <1>4, <1>5

(* What is known of the files and of what is trusted at each of the        *)
(* loader's steps.                                                         *)
LEMMA LoaderKnows ==
  ASSUME InstallInv, NEW p \in Process, loader[p].at # "idle"
  PROVE  /\ site \in Site /\ loader[p] \in Load /\ made \in SUBSET Cert
         /\ accidents \in SUBSET Accident
         /\ loader[p].at = "writeCert" => loader[p].new \in Cert
         /\ "overlap" \notin accidents =>
              /\ {site.key, site.cert} \subseteq Cert => site.key = site.cert
              /\ loader[p].at = "writeKey" => site.key = NoCert /\ site.cert = NoCert
              /\ loader[p].at = "writeCert" =>
                   site.cert = NoCert /\ site.key \in {loader[p].new, Garbage}
         /\ Coherent => /\ site.trusted \subseteq {site.cert} /\ "overlap" \notin accidents
                        /\ loader[p].at \in Replacing => site.trusted = {}
<1>1. InstallTypeOK /\ FilesFit /\ TrustFits
  BY DEF InstallInv
<1> QED BY <1>1, InstallTypes DEF FilesFit, TrustFits, Coherent

LEMMA StepLoadCA ==
  ASSUME InstallInv, NEW p \in Process, LoadCA(p)
  PROVE  InstallInv'
<1>1. loader[p].at = "load" /\ site' = site /\ made' = made /\ accidents \subseteq accidents'
  BY DEF LoadCA
<1>2. /\ site \in Site /\ made \in SUBSET Cert /\ accidents \in SUBSET Accident
      /\ "overlap" \notin accidents =>
           ({site.key, site.cert} \subseteq Cert => site.key = site.cert)
  BY <1>1, LoaderKnows
<1>3. Elsewhere
  BY <1>1, <1>2 DEF Elsewhere
<1>4. p = "cli" => Onward(Applied) /\ Applied.fingerprint = cli.fingerprint
  BY <1>1, LoadFacts, AppliedProceeds
<1>5. CASE LoadEnds(p, Applied) /\ UNCHANGED accidents
  <2>1. Ends(p)
    BY <1>1, <1>4, <1>5 DEF Ends, LoadEnds, Proceeds
  <2>2. Loads(p) /\ loader'[p].at = "idle" /\ expired' = expired /\ runs' = runs
    BY <1>1, <1>3, <1>5, <2>1, LoadEndsLoads
  <2>3. loader'[p].at \notin Replacing
    BY <2>2 DEF Replacing
  <2> QED BY <1>1, <1>2, <1>5, <2>2, <2>3, LoadsKeep
<1>6. CASE /\ LoadGoes(p, "rotate")
           /\ accidents' = IF site.cert \in site.trusted
                           THEN accidents \cup {"rotated"} ELSE accidents
  <2>1. "rotate" \in Replacing
    BY DEF Replacing
  <2>2. Loads(p) /\ loader'[p].at = "rotate" /\ expired' = expired /\ runs' = runs
    BY <1>1, <1>3, <1>6, <2>1, LoadGoesLoads
  <2>3. Coherent' => site.trusted = {}
    <3>1. SUFFICES ASSUME Coherent' PROVE site.trusted = {}
      OBVIOUS
    <3>2. Coherent /\ site.cert \notin site.trusted
      BY <1>6, <3>1 DEF Coherent
    <3> QED BY <1>1, <3>2, LoaderKnows
  <2>4. accidents' \in SUBSET Accident
    BY <1>2, <1>6 DEF Accident
  <2> QED BY <1>1, <1>2, <2>2, <2>3, <2>4, LoadsKeep
<1> QED BY <1>5, <1>6 DEF LoadCA

LEMMA StepMoveAside ==
  ASSUME InstallInv, NEW p \in Process, MoveAside(p)
  PROVE  InstallInv'
<1>1. /\ loader[p].at \in {"rotate", "aside"} /\ made' = made /\ accidents \subseteq accidents'
      /\ site' = [site EXCEPT !.key = NoCert, !.cert = NoCert]
  BY DEF MoveAside
<1>2. /\ site \in Site /\ made \in SUBSET Cert /\ accidents \in SUBSET Accident
      /\ NoCert \notin Cert
  BY <1>1, LoaderKnows, InstallAssumption
<1>3. /\ site' \in Site /\ site'.key = NoCert /\ site'.cert = NoCert
      /\ site'.trusted = site.trusted /\ site'.plist = site.plist
      /\ site'.loaded = site.loaded /\ site'.entries = site.entries
  BY <1>1, <1>2 DEF Site, File
<1>4. Elsewhere
  BY <1>1, <1>3 DEF Elsewhere
<1>5. CASE loader[p].at = "rotate" /\ LoadGoes(p, "writeKey") /\ UNCHANGED accidents
  <2>1. "writeKey" \in Replacing /\ "rotate" \in Replacing
    BY DEF Replacing
  <2>2. Loads(p) /\ loader'[p].at = "writeKey" /\ expired' = expired /\ runs' = runs
    BY <1>4, <1>5, <2>1, LoadGoesLoads
  <2>3. Coherent' => site.trusted = {}
    BY <1>5, <2>1, LoaderKnows DEF Coherent
  <2> QED BY <1>1, <1>2, <1>3, <1>5, <2>2, <2>3, LoadsKeep
<1>6. CASE /\ loader[p].at = "aside"
           /\ LoadEnds(p, Reversed(TRUE))
           /\ accidents' = IF site.cert \in site.trusted /\ ~KeychainReversed
                           THEN accidents \cup {"skipped"} ELSE accidents
  <2>1. p = "cli" /\ cli.at \in {"rollback", "reverse"} /\ cli.i = 1
    BY <1>6, LoadFacts
  <2>2. Back(Reversed(TRUE), TRUE)
    BY <2>1, ReversedProceeds
  <2>3. cli' = Reversed(TRUE)
    BY <1>6, <2>1 DEF LoadEnds
  <2>4. ~(cli.i > 1)
    BY <2>1
  <2>5. Ends(p)
    <3>1. Back(cli', TRUE)
      BY <2>2, <2>3, Zenon
    <3> QED BY <2>4, <3>1 DEF Ends, Proceeds, Back
  <2>6. Loads(p) /\ loader'[p].at = "idle" /\ expired' = expired /\ runs' = runs
    BY <1>4, <1>6, <2>5, LoadEndsLoads
  <2>7. Coherent' => site.trusted = {}
    <3>1. SUFFICES ASSUME Coherent' PROVE site.trusted = {}
      OBVIOUS
    <3>2. Coherent /\ (site.cert \notin site.trusted \/ KeychainReversed)
      BY <1>6, <3>1 DEF Coherent
    <3>3. site.cert \notin site.trusted
      BY <2>1, <3>2 DEF InstallInv, TrustFits
    <3> QED BY <1>6, <3>2, <3>3, LoaderKnows
  <2>8. accidents' \in SUBSET Accident
    BY <1>2, <1>6 DEF Accident
  <2> QED BY <1>1, <1>2, <1>3, <2>6, <2>7, <2>8, LoadsKeep
<1> QED BY <1>5, <1>6 DEF MoveAside

LEMMA StepWriteKey ==
  ASSUME InstallInv, NEW p \in Process, WriteKey(p)
  PROVE  InstallInv'
<1> DEFINE fresh == CHOOSE c \in Cert : c \notin made
           load == [at |-> "writeCert", new |-> fresh]
<1>1. /\ loader[p].at = "writeKey" /\ made # Cert
      /\ \E f \in {fresh, Garbage} : site' = [site EXCEPT !.key = f]
      /\ made' = made \cup {fresh}
      /\ loader' = [loader EXCEPT ![p] = load]
      /\ expired' = expired /\ cli' = cli /\ runs' = runs /\ accidents' = accidents
  BY DEF WriteKey
<1>2. /\ site \in Site /\ made \in SUBSET Cert /\ accidents \in SUBSET Accident
      /\ loader \in [Process -> Load]
      /\ "overlap" \notin accidents => site.cert = NoCert
      /\ Coherent => site.trusted = {}
  BY <1>1, LoaderKnows, InstallTypes DEF InstallInv, Replacing
<1>3. fresh \in Cert
  <2>1. \E c \in Cert : c \notin made
    BY <1>1, <1>2
  <2> QED BY <2>1
<1>4. load \in Load /\ load.at = "writeCert" /\ load.new = fresh /\ "writeCert" \in Replacing
  BY <1>3 DEF Load, LoadAt, Replacing
<1> HIDE DEF fresh, load
<1>5. /\ site' \in Site /\ site'.key \in {fresh, Garbage} /\ site'.cert = site.cert
      /\ site'.trusted = site.trusted /\ site'.plist = site.plist
      /\ site'.loaded = site.loaded /\ site'.entries = site.entries
  BY <1>1, <1>2, <1>3 DEF Site, File
<1>6. /\ loader' \in [Process -> Load] /\ loader'[p] = load
      /\ \A q \in Process \ {p} : loader'[q] = loader[q]
  BY <1>1, <1>2, <1>4
<1>7. Loads(p)
  BY <1>1, <1>4, <1>5, <1>6 DEF Loads, LoadsOn
<1>8. Coherent' => site.trusted = {}
  BY <1>1, <1>2 DEF Coherent
<1>9. /\ made' \in SUBSET Cert /\ accidents' \in SUBSET Accident
      /\ loader'[p].at = "writeCert" /\ loader'[p].new = fresh
  BY <1>1, <1>2, <1>3, <1>4, <1>6
<1>10. "overlap" \notin accidents =>
         /\ {site'.key, site'.cert} \subseteq Cert => site'.key = site'.cert
         /\ loader'[p].at = "writeKey" => site'.key = NoCert /\ site'.cert = NoCert
         /\ loader'[p].at = "writeCert" =>
              site'.cert = NoCert /\ site'.key \in {loader'[p].new, Garbage}
  BY <1>2, <1>5, <1>9, InstallAssumption
<1>11. loader[p].at # "aside" /\ expired' = expired /\ runs' = runs
  BY <1>1
<1> HIDE DEF InstallInv
<1> QED BY <1>3, <1>7, <1>8, <1>9, <1>10, <1>11, LoadsKeep

LEMMA StepWriteCert ==
  ASSUME InstallInv, NEW p \in Process, WriteCert(p)
  PROVE  InstallInv'
<1>1. /\ loader[p].at = "writeCert"
      /\ \E f \in {loader[p].new, Garbage} : site' = [site EXCEPT !.cert = f]
      /\ LoadEnds(p, Applied) /\ made' = made /\ accidents' = accidents
  BY DEF WriteCert
<1>2. /\ site \in Site /\ made \in SUBSET Cert /\ accidents \in SUBSET Accident
      /\ loader[p].new \in Cert
      /\ "overlap" \notin accidents => site.key \in {loader[p].new, Garbage}
      /\ Coherent => site.trusted = {}
  BY <1>1, LoaderKnows DEF Replacing
<1>3. /\ site' \in Site /\ site'.key = site.key /\ site'.cert \in {loader[p].new, Garbage}
      /\ site'.trusted = site.trusted /\ site'.plist = site.plist
      /\ site'.loaded = site.loaded /\ site'.entries = site.entries
  BY <1>1, <1>2 DEF Site, File
<1>4. Elsewhere
  BY <1>1, <1>3 DEF Elsewhere
<1>5. p = "cli" => Onward(Applied) /\ Applied.fingerprint = cli.fingerprint
  BY <1>1, LoadFacts, AppliedProceeds
<1>6. Ends(p)
  BY <1>1, <1>5 DEF Ends, LoadEnds, Proceeds
<1>7. Loads(p) /\ loader'[p].at = "idle" /\ expired' = expired /\ runs' = runs
  BY <1>1, <1>4, <1>6, LoadEndsLoads
<1>8. Coherent' => site.trusted = {}
  BY <1>1, <1>2 DEF Coherent
<1>9. "overlap" \notin accidents /\ {site'.key, site'.cert} \subseteq Cert =>
        site'.key = site'.cert
  BY <1>2, <1>3, InstallAssumption
<1>10. loader[p].at # "aside" /\ loader'[p].at \notin {"writeKey", "writeCert"}
  BY <1>1, <1>7
<1> QED BY <1>1, <1>2, <1>7, <1>8, <1>9, <1>10, LoadsKeep

LEMMA StepLoadFails ==
  ASSUME InstallInv, NEW p \in Process, LoadFails(p)
  PROVE  InstallInv'
<1> DEFINE next == IF cli.at = "apply" THEN Failed ELSE Reversed(FALSE)
<1>1. /\ loader[p].at # "idle" /\ site' \in CutShort(p) /\ LoadEnds(p, next)
      /\ made' = made /\ accidents' = accidents
  BY DEF LoadFails
<1>2. /\ site \in Site /\ made \in SUBSET Cert /\ accidents \in SUBSET Accident
      /\ "overlap" \notin accidents =>
           ({site.key, site.cert} \subseteq Cert => site.key = site.cert)
      /\ Coherent /\ loader[p].at = "writeCert" => site.trusted = {}
  BY <1>1, LoaderKnows DEF Replacing
<1>3. /\ site' \in Site /\ site'.trusted = site.trusted /\ site'.plist = site.plist
      /\ site'.loaded = site.loaded /\ site'.entries = site.entries
      /\ site'.cert = site.cert \/ loader[p].at = "writeCert"
      /\ {site'.key, site'.cert} \subseteq Cert => site'.key = site.key /\ site'.cert = site.cert
  BY <1>1, CutShortFacts
<1>4. Elsewhere
  BY <1>1, <1>3 DEF Elsewhere
<1>5. p = "cli" =>
        /\ Proceeds(next) /\ next.fingerprint = cli.fingerprint
        /\ loader[p].at = "aside" =>
             next.at = "idle" /\ next.errors /\ next.result # "uninstalled"
  <2> SUFFICES ASSUME p = "cli"
               PROVE  /\ Proceeds(next) /\ next.fingerprint = cli.fingerprint
                      /\ loader[p].at = "aside" =>
                           next.at = "idle" /\ next.errors /\ next.result # "uninstalled"
    OBVIOUS
  <2>1. CASE loader[p].at = "aside"
    <3>1. cli.at \in {"rollback", "reverse"} /\ cli.i = 1
      BY <1>1, <2>1, LoadFacts
    <3>2. Back(next, FALSE)
      BY <3>1, ReversedProceeds
    <3>3. ~(cli.i > 1)
      BY <3>1
    <3> HIDE DEF next
    <3>4. next.at = "idle" /\ next.result # "uninstalled"
      BY <3>1, <3>2, <3>3 DEF Back
    <3>5. next.errors
      BY <3>2 DEF Back
    <3> QED BY <3>2, <3>4, <3>5 DEF Proceeds, Back
  <2>2. CASE loader[p].at # "aside"
    <3>1. cli.at = "apply"
      BY <1>1, <2>2, LoadFacts
    <3>2. BackOff(next)
      BY <3>1, FailedProceeds
    <3> HIDE DEF next
    <3> QED BY <2>2, <3>2 DEF Proceeds, BackOff
  <2> QED BY <2>1, <2>2
<1> HIDE DEF next
<1>6. Ends(p)
  BY <1>1, <1>5 DEF Ends, LoadEnds
<1>7. /\ Loads(p) /\ loader'[p].at = "idle" /\ expired' = expired /\ runs' = runs
      /\ p = "cli" => cli' = next
  BY <1>1, <1>4, <1>6, LoadEndsLoads
<1>8. Coherent' => \/ site.trusted = {}
                   \/ site'.cert = site.cert /\ loader'[p].at \notin Replacing
  BY <1>1, <1>2, <1>3, <1>7 DEF Coherent, Replacing
<1>9. loader[p].at = "aside" => cli'.errors /\ cli'.result # "uninstalled"
  BY <1>1, <1>5, <1>7, LoadFacts
<1> QED BY <1>1, <1>2, <1>3, <1>7, <1>8, <1>9, LoadsKeep

-----------------------------------------------------------------------------
(* The other steps of a plan: of each, how the command goes on and what    *)
(* becomes of the machine.                                                 *)
LEMMA OtherStep ==
  ASSUME InstallInv, cli.at # "idle", Step # "ca"
  PROVE  /\ cli.i # 1 /\ site \in Site /\ accidents \in SUBSET Accident
         /\ cli.at \in {"apply", "rollback", "reverse"}
         /\ Coherent => site.trusted \subseteq {site.cert}
         /\ Coherent /\ cli.fingerprint # NoCert => cli.fingerprint = site.cert
         /\ site.loaded => site.plist \/ "launchctl" \in accidents
<1>1. InstallTypeOK /\ TrustFits /\ JobFits
  BY DEF InstallInv
<1>2. site \in Site /\ cli \in Command /\ accidents \in SUBSET Accident
  BY <1>1, InstallTypes
<1> QED BY <1>1, <1>2, CommandFacts DEF TrustFits, JobFits, Command, CommandAt

LEMMA StepTrustCert == ASSUME InstallInv, TrustCert PROVE InstallInv'
<1> DEFINE cert == site.cert
           next == [Applied EXCEPT !.fingerprint = cert]
<1>1. /\ cli.at = "apply" /\ Step = "keychain" /\ Step # "ca" /\ cert \in Cert
      /\ site' = [site EXCEPT !.trusted = site.trusted \cup {site.cert}]
      /\ CommandMoves(next) /\ accidents' = accidents
  BY DEF TrustCert, Applying
<1>2. /\ cli.i # 1 /\ site \in Site /\ accidents \in SUBSET Accident
      /\ Coherent => site.trusted \subseteq {site.cert}
      /\ site.loaded => site.plist \/ "launchctl" \in accidents
  BY <1>1, OtherStep
<1>3. /\ site' \in Site /\ site'.key = site.key /\ site'.cert = site.cert
      /\ site'.plist = site.plist /\ site'.loaded = site.loaded
      /\ site'.entries = site.entries
      /\ site'.trusted = site.trusted \cup {site.cert}
  BY <1>1, <1>2 DEF Site
<1>4. Onward(Applied)
  BY <1>1, AppliedProceeds
<1> HIDE DEF cert
<1>5. Onward(next) /\ next.fingerprint = cert
  <2>1. Applied \in Command
    BY <1>4 DEF Onward, Same
  <2>2. /\ next \in Command /\ next.fingerprint = cert /\ next.plan = Applied.plan
        /\ next.began = Applied.began /\ next.alone = Applied.alone
        /\ next.at = Applied.at /\ next.result = Applied.result /\ next.i = Applied.i
    BY <1>1, <2>1 DEF Command
  <2> HIDE DEF next
  <2> QED BY <1>4, <2>2 DEF Onward, Same
<1> HIDE DEF next
<1>6. cli' = next
  BY <1>1 DEF CommandMoves
<1>7. Remembers
  BY <1>1, <1>5, <1>6 DEF Remembers, cert
<1>8. StepDone
  BY <1>1, <1>2, <1>3 DEF StepDone, Coherent
<1>9. JobFits'
  BY <1>1, <1>2, <1>3 DEF JobFits
<1> QED BY <1>1, <1>2, <1>5, <1>7, <1>8, <1>9, StepKeeps DEF Proceeds

(* A step that is applied, or fails, other than ca.keychain's success.     *)
LEMMA Applies ==
  ASSUME InstallInv, cli.at = "apply", Step # "ca", NEW next \in {Applied, Failed},
         CommandMoves(next), next = Applied => Step # "keychain",
         StepDone, JobFits', accidents \subseteq accidents', accidents' \in SUBSET Accident
  PROVE  InstallInv'
<1>1. cli.i # 1 /\ cli' = next
  BY OtherStep DEF CommandMoves
<1>2. /\ Proceeds(next) /\ next.fingerprint = cli.fingerprint
      /\ Step = "keychain" => BackOff(next)
  <2>1. CASE next = Applied
    BY <2>1, AppliedProceeds DEF Proceeds
  <2>2. CASE next = Failed
    BY <2>2, FailedProceeds DEF Proceeds, BackOff
  <2> QED BY <2>1, <2>2
<1>3. Remembers
  BY <1>1, <1>2 DEF Remembers
<1> QED BY <1>1, <1>2, <1>3, StepKeeps

LEMMA Reverses ==
  ASSUME InstallInv, cli.at \in {"rollback", "reverse"}, Step # "ca", NEW ok \in BOOLEAN,
         CommandMoves(Reversed(ok)),
         StepDone, JobFits', accidents \subseteq accidents', accidents' \in SUBSET Accident,
         ok => StepReversed,
         Step = "keychain" /\ Coherent' => StepReversed
  PROVE  InstallInv'
<1> DEFINE next == Reversed(ok)
<1>1. cli.i # 1 /\ cli.at # "apply" /\ cli' = next
  BY OtherStep DEF CommandMoves
<1>2. Back(next, ok)
  BY ReversedProceeds
<1> HIDE DEF next
<1>3. /\ Proceeds(next) /\ next.fingerprint = cli.fingerprint
      /\ ~next.errors => ok
  <2>1. Back(next, TRUE) \/ Back(next, FALSE)
    BY <1>2
  <2> QED BY <1>2, <2>1 DEF Proceeds, Back
<1>4. Remembers
  BY <1>1, <1>3 DEF Remembers
<1>5. CommandMoves(next)
  BY DEF next
<1> QED BY <1>1, <1>3, <1>4, <1>5, StepKeeps

LEMMA StepTrustFails == ASSUME InstallInv, TrustFails PROVE InstallInv'
<1>1. /\ cli.at = "apply" /\ Step = "keychain" /\ Step # "ca" /\ CommandMoves(Failed)
      /\ \/ site' = site /\ accidents' = accidents
         \/ /\ site.cert \in Cert
            /\ site' = [site EXCEPT !.trusted = site.trusted \cup {site.cert}]
            /\ accidents' = accidents \cup {"untrust"}
  BY DEF TrustFails, Applying
<1>2. /\ site \in Site /\ accidents \in SUBSET Accident
      /\ Coherent => site.trusted \subseteq {site.cert}
      /\ site.loaded => site.plist \/ "launchctl" \in accidents
  BY <1>1, OtherStep
<1>3. /\ site' \in Site /\ site'.key = site.key /\ site'.cert = site.cert
      /\ site'.plist = site.plist /\ site'.loaded = site.loaded
      /\ site'.entries = site.entries
  BY <1>1, <1>2 DEF Site
<1>4. /\ accidents \subseteq accidents' /\ accidents' \in SUBSET Accident
      /\ Coherent' => site' = site /\ Coherent
  BY <1>1, <1>2 DEF Accident, Coherent
<1>5. StepDone
  BY <1>1, <1>2, <1>3, <1>4 DEF StepDone
<1>6. JobFits'
  BY <1>2, <1>3, <1>4 DEF JobFits
<1>7. Failed = Applied => Step # "keychain"
  <2>1. BackOff(Failed) /\ Onward(Applied)
    BY <1>1, AppliedProceeds, FailedProceeds
  <2> QED BY <2>1 DEF BackOff, Onward
<1> QED BY <1>1, <1>4, <1>5, <1>6, <1>7, Applies

LEMMA StepUntrust == ASSUME InstallInv, Untrust PROVE InstallInv'
<1> DEFINE by == IF cli.fingerprint # NoCert THEN cli.fingerprint ELSE site.cert
<1>1. /\ cli.at \in {"rollback", "reverse"} /\ Step = "keychain" /\ Step # "ca"
      /\ \/ /\ site' = [site EXCEPT !.trusted = site.trusted \ {by}]
            /\ CommandMoves(Reversed(TRUE)) /\ accidents' = accidents
         \/ /\ CommandMoves(Reversed(FALSE)) /\ site' = site
            /\ accidents' = accidents \cup {"untrust"}
  BY DEF Untrust, Reversing
<1>2. /\ site \in Site /\ accidents \in SUBSET Accident
      /\ Coherent => site.trusted \subseteq {site.cert}
      /\ site.loaded => site.plist \/ "launchctl" \in accidents
  BY <1>1, OtherStep
<1> HIDE DEF by
<1>3. CASE /\ site' = [site EXCEPT !.trusted = site.trusted \ {by}]
           /\ CommandMoves(Reversed(TRUE)) /\ accidents' = accidents
  <2>1. /\ site' \in Site /\ site'.key = site.key /\ site'.cert = site.cert
        /\ site'.plist = site.plist /\ site'.loaded = site.loaded
        /\ site'.entries = site.entries /\ site'.trusted = site.trusted \ {by}
    BY <1>2, <1>3 DEF Site
  <2>2. StepDone /\ JobFits'
    BY <1>1, <1>2, <1>3, <2>1 DEF StepDone, Coherent, JobFits
  <2>3. StepReversed
    BY <1>1, <2>1 DEF StepReversed, by
  <2> QED BY <1>1, <1>2, <1>3, <2>2, <2>3, Reverses
<1>4. CASE /\ CommandMoves(Reversed(FALSE)) /\ site' = site
           /\ accidents' = accidents \cup {"untrust"}
  <2>1. /\ accidents \subseteq accidents' /\ accidents' \in SUBSET Accident
        /\ ~Coherent'
    BY <1>2, <1>4 DEF Accident, Coherent
  <2>2. StepDone /\ JobFits'
    BY <1>2, <1>4, <2>1 DEF StepDone, JobFits
  <2> QED BY <1>1, <1>4, <2>1, <2>2, Reverses
<1> QED BY <1>1, <1>3, <1>4

LEMMA StepJob ==
  ASSUME InstallInv, InstallJob \/ InstallJobFails
  PROVE  InstallInv'
<1>1. /\ cli.at = "apply" /\ Step = "launchd" /\ Step # "ca"
      /\ \/ /\ site' = [site EXCEPT !.plist = TRUE, !.loaded = TRUE]
            /\ CommandMoves(Applied) /\ accidents' = accidents
         \/ /\ CommandMoves(Failed) /\ site' = site /\ accidents' = accidents
         \/ /\ CommandMoves(Failed) /\ site' = [site EXCEPT !.plist = FALSE]
            /\ accidents' = accidents \cup {"launchctl"}
  BY DEF InstallJob, InstallJobFails, Applying
<1>2. /\ site \in Site /\ accidents \in SUBSET Accident
      /\ Coherent => site.trusted \subseteq {site.cert}
      /\ site.loaded => site.plist \/ "launchctl" \in accidents
  BY <1>1, OtherStep
<1>3. PICK next \in {Applied, Failed} : CommandMoves(next)
  BY <1>1
<1>4. /\ site' \in Site /\ site'.key = site.key /\ site'.cert = site.cert
      /\ site'.entries = site.entries /\ site'.trusted = site.trusted
      /\ site'.plist \/ "launchctl" \in accidents' \/ site' = site
  BY <1>1, <1>2 DEF Site
<1>5. /\ accidents \subseteq accidents' /\ accidents' \in SUBSET Accident
      /\ Coherent' => Coherent
  BY <1>1, <1>2 DEF Accident, Coherent
<1>6. StepDone /\ JobFits'
  BY <1>1, <1>2, <1>4, <1>5 DEF StepDone, JobFits
<1> QED BY <1>1, <1>3, <1>5, <1>6, Applies

LEMMA StepRemoveJob == ASSUME InstallInv, RemoveJob PROVE InstallInv'
<1>1. cli.at \in {"rollback", "reverse"} /\ Step = "launchd" /\ Step # "ca"
  BY DEF RemoveJob, Reversing
<1>2. /\ site \in Site /\ accidents \in SUBSET Accident
      /\ Coherent => site.trusted \subseteq {site.cert}
      /\ site.loaded => site.plist \/ "launchctl" \in accidents
  BY <1>1, OtherStep
<1>3. CASE ~site.plist /\ site' = site /\ accidents' = accidents /\ CommandMoves(Reversed(TRUE))
  <2>1. StepDone /\ JobFits' /\ StepReversed
    BY <1>1, <1>2, <1>3 DEF StepDone, JobFits, StepReversed, Coherent
  <2> QED BY <1>1, <1>2, <1>3, <2>1, Reverses
<1>4. ASSUME NEW unloaded \in BOOLEAN, NEW removed \in BOOLEAN, site.plist,
             site' = [site EXCEPT !.loaded = site.loaded /\ ~unloaded, !.plist = ~removed],
             accidents' = IF unloaded THEN accidents ELSE accidents \cup {"launchctl"},
             CommandMoves(Reversed(removed))
      PROVE  InstallInv'
  <2> DEFINE loaded == site.loaded /\ ~unloaded
             plist == ~removed
  <2>1. loaded \in BOOLEAN /\ plist \in BOOLEAN /\ (loaded => ~unloaded)
    OBVIOUS
  <2>2. site' = [site EXCEPT !.loaded = loaded, !.plist = plist]
    BY <1>4
  <2> HIDE DEF loaded, plist
  <2>3. /\ site' \in Site /\ site'.key = site.key /\ site'.cert = site.cert
        /\ site'.entries = site.entries /\ site'.trusted = site.trusted
        /\ site'.loaded = loaded /\ site'.plist = plist
    BY <1>2, <2>1, <2>2 DEF Site
  <2>4. /\ accidents \subseteq accidents' /\ accidents' \in SUBSET Accident
        /\ Coherent' => Coherent
        /\ ~unloaded => "launchctl" \in accidents'
    BY <1>2, <1>4 DEF Accident, Coherent
  <2>5. JobFits'
    BY <2>1, <2>3, <2>4 DEF JobFits
  <2>6. StepDone
    BY <1>1, <1>2, <2>3, <2>4 DEF StepDone
  <2>7. removed => StepReversed
    BY <1>1, <2>3 DEF StepReversed, plist
  <2> QED BY <1>1, <1>4, <2>4, <2>5, <2>6, <2>7, Reverses
<1> QED BY <1>3, <1>4 DEF RemoveJob

LEMMA StepHooks ==
  ASSUME InstallInv, InstallHooks \/ InstallHooksFails
  PROVE  InstallInv'
<1>1. /\ cli.at = "apply" /\ Step = "hooks" /\ Step # "ca" /\ accidents' = accidents
      /\ site' = site \/ site' = [site EXCEPT !.entries = TRUE]
  BY DEF InstallHooks, InstallHooksFails, Applying
<1>2. PICK next \in {Applied, Failed} : CommandMoves(next)
  BY DEF InstallHooks, InstallHooksFails
<1>3. /\ site \in Site /\ accidents \in SUBSET Accident
      /\ Coherent => site.trusted \subseteq {site.cert}
      /\ site.loaded => site.plist \/ "launchctl" \in accidents
  BY <1>1, OtherStep
<1>4. /\ site' \in Site /\ site'.key = site.key /\ site'.cert = site.cert
      /\ site'.plist = site.plist /\ site'.loaded = site.loaded
      /\ site'.trusted = site.trusted
  BY <1>1, <1>3 DEF Site
<1>5. StepDone /\ JobFits'
  BY <1>1, <1>3, <1>4 DEF StepDone, JobFits, Coherent
<1> QED BY <1>1, <1>2, <1>3, <1>5, Applies

LEMMA StepRemoveHooks == ASSUME InstallInv, RemoveHooks PROVE InstallInv'
<1>1. /\ cli.at \in {"rollback", "reverse"} /\ Step = "hooks" /\ Step # "ca"
      /\ accidents' = accidents
  BY DEF RemoveHooks, Reversing
<1>2. /\ site \in Site /\ accidents \in SUBSET Accident
      /\ Coherent => site.trusted \subseteq {site.cert}
      /\ site.loaded => site.plist \/ "launchctl" \in accidents
  BY <1>1, OtherStep
<1>3. PICK ok \in BOOLEAN : /\ CommandMoves(Reversed(ok))
                            /\ IF ok THEN site' = [site EXCEPT !.entries = FALSE]
                                     ELSE site' = site
  <2>1. CASE site' = [site EXCEPT !.entries = FALSE] /\ CommandMoves(Reversed(TRUE))
    BY <2>1
  <2>2. CASE site' = site /\ CommandMoves(Reversed(FALSE))
    BY <2>2
  <2> QED BY <2>1, <2>2 DEF RemoveHooks
<1>4. /\ site' \in Site /\ site'.key = site.key /\ site'.cert = site.cert
      /\ site'.plist = site.plist /\ site'.loaded = site.loaded
      /\ site'.trusted = site.trusted /\ (ok => ~site'.entries)
  <2>1. CASE ok /\ site' = [site EXCEPT !.entries = FALSE]
    BY <1>2, <2>1 DEF Site
  <2>2. CASE ~ok /\ site' = site
    BY <1>2, <2>2
  <2> QED BY <1>3, <2>1, <2>2
<1>5. StepDone /\ JobFits' /\ (ok => StepReversed)
  BY <1>1, <1>2, <1>4 DEF StepDone, JobFits, StepReversed, Coherent
<1> QED BY <1>1, <1>2, <1>3, <1>5, Reverses

-----------------------------------------------------------------------------
(* Commands begin and are killed, proxies start, certificates expire.      *)
LEMMA InstallInitially == ASSUME InstallInit PROVE InstallInv
<1>1. /\ site = [key |-> NoCert, cert |-> NoCert, trusted |-> {}, plist |-> FALSE,
                 loaded |-> FALSE, entries |-> FALSE]
      /\ expired = {} /\ cli = NoCommand /\ loader = [p \in Process |-> NoLoad]
      /\ runs = 0 /\ made = {} /\ accidents = {}
  BY DEF InstallInit
<1>2. /\ cli \in Command /\ cli.at = "idle" /\ cli.result = "none" /\ cli.plan = <<>>
      /\ cli.alone
  BY <1>1 DEF Command, NoCommand, CommandAt, Result, File
<1>3. NoLoad \in Load /\ NoLoad.at = "idle"
  BY DEF NoLoad, Load, LoadAt
<1>4. /\ \A p \in Process : loader[p].at = "idle"
      /\ "cli" \in Process /\ "proxy" \in Process
      /\ loader \in [Process -> Load]
  BY <1>1, <1>3 DEF Process
<1>5. NoCert \notin Cert /\ MaxRuns \in Nat
  BY InstallAssumption
<1>6. InstallTypeOK
  BY <1>1, <1>2, <1>4, <1>5 DEF InstallTypeOK, Command, Load, File
<1>7. CommandFits
  BY <1>2, <1>4 DEF CommandFits
<1>8. "keychain" \notin Steps(cli.plan)
  BY <1>2 DEF Steps
<1>9. Fingerprinted /\ Apart
  BY <1>2, <1>4, <1>8 DEF Fingerprinted, Apart
<1>10. FilesFit
  BY <1>1, <1>4, <1>5 DEF FilesFit
<1>11. TrustFits /\ JobFits
  BY <1>1, <1>2, <1>4 DEF TrustFits, JobFits, Replacing
<1>12. UndoneSoFar
  BY <1>2 DEF UndoneSoFar
<1> QED BY <1>6, <1>7, <1>9, <1>10, <1>11, <1>12 DEF InstallInv

LEMMA BeginKeeps ==
  ASSUME InstallInv, NEW plan \in Plans, NEW i \in DOMAIN plan, NEW at \in {"apply", "reverse"},
         at = "apply" => i = 1, at = "reverse" => i = Len(plan), Begin(at, plan, i),
         loader' \in [Process -> Load], loader'["proxy"] = loader["proxy"],
         loader'["cli"].at = IF i # 1 THEN "idle" ELSE IF at = "apply" THEN "load" ELSE "aside"
  PROVE  InstallInv'
<1>0. /\ InstallTypeOK /\ CommandFits /\ Apart /\ FilesFit /\ TrustFits /\ JobFits
      /\ Process = {"cli", "proxy"}
  BY DEF InstallInv, Process
<1> DEFINE alone == loader["proxy"].at = "idle"
           next == [at |-> at, plan |-> plan, i |-> i, errors |-> FALSE,
                    fingerprint |-> NoCert, began |-> site.cert, reached |-> 0,
                    alone |-> alone, result |-> "none"]
<1>1. /\ cli.at = "idle" /\ cli' = next /\ runs < MaxRuns /\ runs' = runs + 1
      /\ accidents' = accidents \cup (IF alone THEN {} ELSE {"overlap"})
      /\ site' = site /\ expired' = expired /\ made' = made
  BY DEF Begin
<1>2. alone \in BOOLEAN /\ (alone <=> loader["proxy"].at = "idle")
  OBVIOUS
<1> HIDE DEF alone
<1>3. /\ Len(plan) \in 1..4 /\ DOMAIN plan = 1..Len(plan) /\ i \in 0..4
      /\ "keychain" \in Steps(plan) => Len(plan) > 1
  <2>1. /\ Len(plan) \in 1..4 /\ DOMAIN plan = 1..Len(plan)
        /\ "keychain" \in Steps(plan) => Len(plan) > 1
    BY PlanFacts
  <2> QED BY <2>1, Positions
<1>4. /\ site \in Site /\ expired \in SUBSET Cert /\ runs \in 0..MaxRuns
      /\ made \in SUBSET Cert /\ accidents \in SUBSET Accident
      /\ NoCert \notin Cert /\ MaxRuns \in Nat /\ site.cert \in File
  BY <1>0, InstallTypes, SiteParts, InstallAssumption
<1>5. /\ cli' \in Command /\ cli'.at = at /\ cli'.plan = plan /\ cli'.i = i
      /\ ~cli'.errors /\ cli'.fingerprint = NoCert /\ cli'.began = site.cert
      /\ cli'.alone = alone /\ cli'.result = "none"
  <2>1. next \in Command
    BY <1>2, <1>3, <1>4 DEF Command, CommandAt, Result
  <2> QED BY <1>1, <2>1
<1> HIDE DEF next
<1>6. InstallTypeOK'
  <2>1. runs' \in 0..MaxRuns
    BY <1>1, <1>4
  <2>2. accidents' \in SUBSET Accident
    BY <1>1, <1>4 DEF Accident
  <2> QED BY <1>1, <1>4, <1>5, <2>1, <2>2, InstallTypesBack
<1>7. CommandFits'
  BY <1>0, <1>5 DEF CommandFits
<1>8. Fingerprinted'
  <2>1. /\ cli'.fingerprint = NoCert /\ cli'.at # "rollback"
        /\ ~(cli'.at = "apply" /\ cli'.i > 2)
    BY <1>3, <1>5
  <2> QED BY <2>1 DEF Fingerprinted
<1>9. Apart' /\ ("overlap" \notin accidents' => alone)
  BY <1>1, <1>2, <1>5 DEF Apart
<1>10. \A p \in Process : loader'[p].at \in Replacing => p = "proxy"
  BY <1>0 DEF Replacing
<1>11. FilesFit'
  <2>1. \A p \in Process : loader'[p] = loader[p] \/ loader'[p].at \notin Replacing
    BY <1>0, <1>10
  <2>2. "overlap" \notin accidents' => "overlap" \notin accidents
    BY <1>1
  <2> QED BY <1>0, <1>1, <2>1, <2>2 DEF FilesFit, Replacing
<1>12. TrustFits'
  <2> SUFFICES ASSUME Coherent'
               PROVE  /\ site'.trusted \subseteq {site'.cert}
                      /\ \A p \in Process : loader'[p].at \notin Replacing
                      /\ cli'.fingerprint = NoCert
                      /\ ~(cli'.at \in {"rollback", "reverse"} /\ cli'.i = 1 /\ KeychainReversed')
    BY DEF TrustFits
  <2>1. Coherent /\ "overlap" \notin accidents'
    BY <1>1 DEF Coherent
  <2>2. \A p \in Process : loader'[p].at \notin Replacing
    BY <1>2, <1>9, <1>10, <2>1 DEF Replacing
  <2>3. ASSUME cli'.at \in {"rollback", "reverse"}, cli'.i = 1, KeychainReversed' PROVE FALSE
    <3>1. "keychain" \in Steps(plan) /\ i = 1 /\ i = Len(plan)
      BY <1>5, <2>3 DEF KeychainReversed
    <3>2. Len(plan) > 1
      BY <1>3, <3>1
    <3>3. ~(1 > 1)
      OBVIOUS
    <3> QED BY <3>1, <3>2, <3>3
  <2>4. site'.trusted \subseteq {site'.cert}
    BY <1>0, <1>1, <2>1 DEF TrustFits
  <2> QED BY <1>5, <2>2, <2>3, <2>4
<1>13. JobFits'
  BY <1>0, <1>1 DEF JobFits
<1>14. UndoneSoFar'
  <2>1. at = "reverse" => \A j \in 1..Len(plan) : ~(j > i)
    BY <1>3
  <2> QED BY <1>1, <1>3, <1>5, <2>1 DEF UndoneSoFar
<1> QED BY <1>6, <1>7, <1>8, <1>9, <1>11, <1>12, <1>13, <1>14 DEF InstallInv

LEMMA StepBegin ==
  ASSUME InstallInv, Install \/ Uninstall
  PROVE  InstallInv'
<1>1. /\ loader \in [Process -> Load] /\ "cli" \in Process /\ "proxy" \in Process
      /\ "cli" # "proxy"
  BY InstallTypes DEF InstallInv, Process
<1>2. ASSUME NEW at \in {"load", "aside"}, loader' = Works("cli", at)
      PROVE  /\ loader' \in [Process -> Load] /\ loader'["proxy"] = loader["proxy"]
             /\ loader'["cli"].at = at
  <2> DEFINE load == [at |-> at, new |-> NoCert]
  <2>1. load \in Load /\ load.at = at /\ loader' = [loader EXCEPT !["cli"] = load]
    BY <1>2 DEF Load, LoadAt, Works
  <2> HIDE DEF load
  <2> QED BY <1>1, <2>1
<1>3. ASSUME NEW plan \in Plans, Begin("apply", plan, 1), loader' = Works("cli", "load")
      PROVE  InstallInv'
  <2>1. 1 \in DOMAIN plan
    BY PlanFacts
  <2> QED BY <1>2, <1>3, <2>1, BeginKeeps
<1>4. ASSUME NEW plan \in Plans, Begin("reverse", plan, Len(plan)),
             loader' = IF Len(plan) = 1 THEN Works("cli", "aside") ELSE loader
      PROVE  InstallInv'
  <2>1. Len(plan) \in DOMAIN plan
    BY PlanFacts
  <2>2. CASE Len(plan) = 1
    BY <1>2, <1>4, <2>1, <2>2, BeginKeeps
  <2>3. CASE Len(plan) # 1
    <3>1. cli.at = "idle"
      BY <1>4 DEF Begin
    <3>2. loader'["cli"].at = "idle" /\ loader' = loader
      BY <1>4, <2>3, <3>1 DEF InstallInv, CommandFits
    <3> QED BY <1>1, <1>4, <2>1, <2>3, <3>2, BeginKeeps
  <2> QED BY <2>2, <2>3
<1> QED BY <1>3, <1>4 DEF Install, Uninstall

LEMMA StepProxyLoads == ASSUME InstallInv, ProxyLoads PROVE InstallInv'
<1>0. /\ InstallTypeOK /\ CommandFits /\ Fingerprinted /\ Apart /\ FilesFit /\ TrustFits
      /\ JobFits /\ Process = {"cli", "proxy"} /\ "cli" # "proxy"
  BY DEF InstallInv, Process
<1> DEFINE load == [at |-> "load", new |-> NoCert]
<1>1. /\ loader["proxy"].at = "idle" /\ runs < MaxRuns /\ runs' = runs + 1
      /\ loader' = [loader EXCEPT !["proxy"] = load]
      /\ cli' = [cli EXCEPT !.alone = FALSE]
      /\ accidents' = accidents \cup (IF cli.at = "idle" THEN {} ELSE {"overlap"})
      /\ site' = site /\ expired' = expired /\ made' = made
  BY DEF ProxyLoads, Works
<1>2. load \in Load /\ load.at = "load" /\ "load" \notin Replacing
  BY DEF Load, LoadAt, Replacing
<1> HIDE DEF load
<1>3. /\ site \in Site /\ expired \in SUBSET Cert /\ cli \in Command
      /\ loader \in [Process -> Load] /\ runs \in 0..MaxRuns
      /\ made \in SUBSET Cert /\ accidents \in SUBSET Accident /\ MaxRuns \in Nat
  BY <1>0, InstallTypes, InstallAssumption
<1>4. /\ loader' \in [Process -> Load] /\ loader'["cli"] = loader["cli"]
      /\ loader'["proxy"].at = "load"
  BY <1>0, <1>1, <1>2, <1>3
<1>5. /\ cli' \in Command /\ ~cli'.alone /\ cli'.at = cli.at /\ cli'.plan = cli.plan
      /\ cli'.i = cli.i /\ cli'.errors = cli.errors /\ cli'.fingerprint = cli.fingerprint
      /\ cli'.began = cli.began /\ cli'.reached = cli.reached /\ cli'.result = cli.result
  BY <1>1, <1>3 DEF Command
<1>6. /\ runs' \in 0..MaxRuns /\ accidents' \in SUBSET Accident
      /\ "overlap" \notin accidents' => "overlap" \notin accidents /\ cli.at = "idle"
      /\ Coherent' => Coherent
  <2>1. runs' \in 0..MaxRuns
    BY <1>1, <1>3
  <2> QED BY <1>1, <1>3, <2>1 DEF Accident, Coherent
<1>7. InstallTypeOK'
  BY <1>1, <1>3, <1>4, <1>5, <1>6, InstallTypesBack
<1>8. CommandFits'
  BY <1>0, <1>4, <1>5 DEF CommandFits
<1>9. Fingerprinted'
  BY <1>0, <1>5 DEF Fingerprinted
<1>10. Apart'
  BY <1>5, <1>6 DEF Apart
<1>11. \A p \in Process : loader'[p] = loader[p] \/ loader'[p].at = "load"
  BY <1>0, <1>4
<1>12. FilesFit'
  BY <1>0, <1>1, <1>6, <1>11 DEF FilesFit
<1>13. TrustFits'
  <2>1. KeychainReversed' <=> KeychainReversed
    BY <1>5 DEF KeychainReversed
  <2>2. \A p \in Process : loader'[p].at \in Replacing => loader[p].at \in Replacing
    BY <1>2, <1>11
  <2> QED BY <1>0, <1>1, <1>5, <1>6, <2>1, <2>2 DEF TrustFits
<1>14. JobFits' /\ UndoneSoFar'
  BY <1>0, <1>1, <1>5 DEF JobFits, UndoneSoFar
<1> QED BY <1>7, <1>8, <1>9, <1>10, <1>12, <1>13, <1>14 DEF InstallInv

LEMMA StepKillCommand == ASSUME InstallInv, KillCommand PROVE InstallInv'
<1>0. /\ InstallTypeOK /\ CommandFits /\ Apart /\ FilesFit /\ TrustFits
      /\ JobFits /\ Process = {"cli", "proxy"} /\ "cli" # "proxy" /\ "cli" \in Process
  BY DEF InstallInv, Process
<1>1. /\ cli.at # "idle" /\ cli' = NoCommand
      /\ loader' = [loader EXCEPT !["cli"] = NoLoad]
      /\ site' \in CutShort("cli") \/ site' = [site EXCEPT !.plist = TRUE]
      /\ expired' = expired /\ runs' = runs /\ made' = made /\ accidents' = accidents
  BY DEF KillCommand
<1>2. /\ site \in Site /\ expired \in SUBSET Cert
      /\ loader \in [Process -> Load] /\ runs \in 0..MaxRuns
      /\ made \in SUBSET Cert /\ accidents \in SUBSET Accident
  BY <1>0, InstallTypes
<1>3. /\ site' \in Site /\ site'.trusted = site.trusted /\ site'.loaded = site.loaded
      /\ site'.plist \/ site'.plist = site.plist
      /\ site'.cert = site.cert \/ loader["cli"].at = "writeCert"
      /\ {site'.key, site'.cert} \subseteq Cert => site'.key = site.key /\ site'.cert = site.cert
  <2>1. CASE site' \in CutShort("cli")
    BY <1>0, <2>1, CutShortFacts
  <2>2. CASE site' = [site EXCEPT !.plist = TRUE]
    BY <1>2, <2>2 DEF Site
  <2> QED BY <1>1, <2>1, <2>2
<1>4. NoLoad \in Load /\ NoLoad.at = "idle" /\ "idle" \notin Replacing /\ "writeCert" \in Replacing
  BY DEF NoLoad, Load, LoadAt, Replacing
<1>5. /\ loader' \in [Process -> Load] /\ loader'["proxy"] = loader["proxy"]
      /\ loader'["cli"].at = "idle"
  BY <1>0, <1>1, <1>2, <1>4
<1>6. /\ cli' \in Command /\ cli'.at = "idle" /\ cli'.result = "none" /\ cli'.plan = <<>>
  BY <1>1 DEF Command, NoCommand, CommandAt, Result, File
<1>7. InstallTypeOK'
  BY <1>1, <1>2, <1>3, <1>5, <1>6, InstallTypesBack
<1>8. CommandFits' /\ Apart'
  BY <1>0, <1>5, <1>6 DEF CommandFits, Apart
<1>9. Fingerprinted'
  <2>1. "keychain" \notin Steps(cli'.plan)
    BY <1>6 DEF Steps
  <2> QED BY <1>6, <2>1 DEF Fingerprinted
<1>10. "overlap" \notin accidents => \A p \in Process : loader'[p].at = "idle"
  BY <1>0, <1>1, <1>5 DEF Apart
<1>11. FilesFit'
  <2>1. \A p \in Process : loader'[p] = loader[p] \/ loader'[p].at = "idle"
    BY <1>0, <1>5
  <2> QED BY <1>0, <1>1, <1>3, <1>10, <2>1 DEF FilesFit
<1>12. TrustFits'
  <2> SUFFICES ASSUME Coherent'
               PROVE  /\ site'.trusted \subseteq {site'.cert}
                      /\ \A p \in Process : loader'[p].at \notin Replacing
    BY <1>6 DEF TrustFits
  <2>1. Coherent /\ "overlap" \notin accidents
    BY <1>1 DEF Coherent
  <2>2. \A p \in Process : loader'[p].at \notin Replacing
    BY <1>4, <1>10, <2>1
  <2>3. /\ site.trusted \subseteq {site.cert}
        /\ loader["cli"].at = "writeCert" => site.trusted = {}
    BY <1>0, <1>4, <2>1 DEF TrustFits
  <2> QED BY <1>3, <2>2, <2>3
<1>13. JobFits' /\ UndoneSoFar'
  BY <1>0, <1>1, <1>3, <1>6 DEF JobFits, UndoneSoFar
<1> QED BY <1>7, <1>8, <1>9, <1>11, <1>12, <1>13 DEF InstallInv

LEMMA InstallUnchanged ==
  ASSUME InstallInv, expired' \in SUBSET Cert,
         UNCHANGED <<site, cli, loader, runs, made, accidents>>
  PROVE  InstallInv'
<1>1. InstallTypeOK'
  BY DEF InstallInv, InstallTypeOK
<1>2. CommandFits' /\ Fingerprinted' /\ Apart'
  BY DEF InstallInv, CommandFits, Fingerprinted, Apart
<1>3. FilesFit' /\ JobFits'
  BY DEF InstallInv, FilesFit, JobFits
<1>4. TrustFits'
  BY DEF InstallInv, TrustFits, Coherent, KeychainReversed
<1>5. UndoneSoFar'
  <2>1. \A step : StepUndone(step)' <=> StepUndone(step)
    BY DEF StepUndone
  <2> QED BY <2>1 DEF InstallInv, UndoneSoFar
<1> QED BY <1>1, <1>2, <1>3, <1>4, <1>5 DEF InstallInv

LEMMA InstallStep == ASSUME InstallInv, [InstallNext]_installVars PROVE InstallInv'
<1>1. expired \in SUBSET Cert
  BY InstallTypes DEF InstallInv
<1>2. CASE UNCHANGED installVars
  BY <1>1, <1>2, InstallUnchanged DEF installVars
<1>3. CASE CertExpires
  <2>1. expired' \in SUBSET Cert /\ UNCHANGED <<site, cli, loader, runs, made, accidents>>
    BY <1>1, <1>3 DEF CertExpires
  <2> QED BY <2>1, InstallUnchanged
<1>4. CASE Install \/ Uninstall \/ ProxyLoads \/ KillCommand
  BY <1>4, StepBegin, StepProxyLoads, StepKillCommand
<1>5. ASSUME NEW p \in Process,
             LoadCA(p) \/ MoveAside(p) \/ WriteKey(p) \/ WriteCert(p) \/ LoadFails(p)
      PROVE  InstallInv'
  BY <1>5, StepLoadCA, StepMoveAside, StepWriteKey, StepWriteCert, StepLoadFails
<1>6. CASE \/ TrustCert \/ TrustFails \/ Untrust
           \/ InstallJob \/ InstallJobFails \/ RemoveJob
           \/ InstallHooks \/ InstallHooksFails \/ RemoveHooks
  BY <1>6, StepTrustCert, StepTrustFails, StepUntrust, StepJob, StepRemoveJob, StepHooks,
     StepRemoveHooks
<1> QED BY <1>2, <1>3, <1>4, <1>5, <1>6 DEF InstallNext

LEMMA InstallInvariant == InstallSpec => []InstallInv
<1>1. InstallInit => InstallInv
  BY InstallInitially
<1>2. InstallInv /\ [InstallNext]_installVars => InstallInv'
  BY InstallStep
<1> QED BY <1>1, <1>2, PTL DEF InstallSpec

(* The types of what the commands and the proxy leave on the machine, of a *)
(* command's way through its plan and of the work on the CA files.         *)
THEOREM InstallTypeCorrect == InstallSpec => []InstallTypeOK
<1>1. InstallInv => InstallTypeOK
  BY DEF InstallInv
<1> QED BY <1>1, InstallInvariant, PTL

LEMMA InstallInvReversible == ASSUME InstallInv PROVE InstallReversible
<1>0. /\ CommandFits /\ FilesFit /\ TrustFits /\ JobFits /\ UndoneSoFar
      /\ cli \in Command
  BY InstallTypes DEF InstallInv
<1>1. FailedInstallIsUndone
  <2> SUFFICES ASSUME cli.result = "failed", cli.alone, ~cli.errors,
                      NEW j \in 1..(cli.reached - 1)
               PROVE  StepUndone(cli.plan[j])
    BY DEF FailedInstallIsUndone
  <2>1. cli.plan \in Plans /\ cli.reached \in DOMAIN cli.plan
    BY <1>0 DEF CommandFits
  <2>2. DOMAIN cli.plan = 1..Len(cli.plan) /\ Len(cli.plan) \in 1..4
    BY <2>1, PlanFacts
  <2>3. j \in DOMAIN cli.plan /\ j < cli.reached
    BY <2>1, <2>2
  <2> QED BY <1>0, <2>3 DEF UndoneSoFar
<1>2. UninstallUndoes
  BY <1>0 DEF UndoneSoFar, UninstallUndoes, Steps
<1>3. StillReversible
  BY <1>0 DEF TrustFits, JobFits, StillReversible, Coherent
<1>4. KeyMatchesCert
  BY <1>0 DEF FilesFit, KeyMatchesCert
<1> QED BY <1>1, <1>2, <1>3, <1>4 DEF InstallReversible

(* For every set of flags, any number of commands, proxies and             *)
(* certificates, with steps that fail, half-written files and commands     *)
(* killed at any point: an install that fails leaves none of the steps it  *)
(* had completed, an uninstall that reports success has undone them all,   *)
(* what is in place can still be undone, and the key on disk is the        *)
(* certificate's; each as long as the accidents it names have not          *)
(* happened.                                                               *)
THEOREM HostStaysReversible == InstallSpec => []InstallReversible
<1>1. InstallInv => InstallReversible
  BY InstallInvReversible
<1> QED BY <1>1, InstallInvariant, PTL

-----------------------------------------------------------------------------
(* The dispatcher's telemetry: its types, and that a snapshot neither      *)
(* counts nor lists anything twice, for every set of sockets and every     *)
(* limit of the ring.                                                      *)

(* The sockets whose counts have been added to the dispatcher's counter,   *)
(* and those that the ring has been told of.                               *)
Folded == {s \in Socket : stage[s] \in
            {"gone"} \cup (IF counter = "frames" THEN {"counted", "listed"} ELSE {})}
Over == {s \in Socket : stage[s] \in {"listed", "gone"}}

CountsFit ==
  /\ total = Sum(final, Folded)
  /\ \A s \in Socket : final[s] <= own[s]
  /\ \A s \in Socket : stage[s] = "absent" => own[s] = 0

(* The ring holds sockets that are over, each once, as many as it may.     *)
Upto(limit, n) == IF n <= limit THEN n ELSE limit
Ring(list, n, over) ==
  /\ Len(list) = Upto(RingLimit, n)
  /\ \A i \in 1..Len(list) : list[i] \in over
  /\ \A i, j \in 1..Len(list) : list[i] = list[j] => i = j

(* What is known of a snapshot while it is taken, and ever after. What has *)
(* been handled so far, by the live sockets and by all, and by those in    *)
(* the ring, only grows meanwhile, or is held still by the lock.           *)
Begun(snapshot, handled, live, listed) ==
  /\ snapshot.before <= handled
  /\ snapshot.count <= total
  /\ Clean(snapshot) => snapshot.before <= snapshot.count + live
  /\ snapshot.closed = closed
  /\ counter = "frames" => listed <= snapshot.count
Taken(snapshot, handled, over, finals) ==
  /\ snapshot.count <= snapshot.after /\ snapshot.after <= handled
  /\ Clean(snapshot) => snapshot.before <= snapshot.count
  /\ Ring(snapshot.recent, snapshot.closed, over)
  /\ snapshot.active \cap Range(snapshot.recent) = {}
  /\ counter = "frames" => Sum(finals, Range(snapshot.recent)) <= snapshot.count

ViewFits ==
  /\ Len(view.taken) \in 0..2 /\ (view.locked => Len(view.taken) # 0)
  /\ \A i \in 1..Len(view.taken) : i # Len(view.taken) \/ ~view.locked =>
       Taken(view.taken[i], Handled, Over, final)
  /\ view.locked => Begun(view.taken[Len(view.taken)], Handled, Sum(own, Active),
                          Sum(final, Range(recent)))
  /\ Len(view.taken) = 2 => view.taken[1].after <= view.taken[2].before

DispatcherInv ==
  DispatcherTypeOK /\ CountsFit /\ Ring(recent, closed, Over) /\ ViewFits

(* The counts of a set of sockets.                                         *)
Counts == [Socket -> Nat]
Items(counts, sockets) == UNION {{s} \X (1..counts[s]) : s \in sockets}

LEMMA ItemsFinite ==
  ASSUME NEW counts \in Counts, NEW sockets \in SUBSET Socket
  PROVE  IsFiniteSet(Items(counts, sockets))
<1> DEFINE each == [s \in sockets |-> {s} \X (1..counts[s])]
           all == {{s} \X (1..counts[s]) : s \in sockets}
<1>1. IsFiniteSet(sockets)
  BY DispatcherAssumption, FS_Subset
<1>2. each \in Surjection(sockets, all)
  BY DEF Surjection
<1>3. IsFiniteSet(all)
  BY <1>1, <1>2, FS_Surjection
<1>4. ASSUME NEW s \in sockets PROVE IsFiniteSet({s} \X (1..counts[s]))
  <2>1. counts[s] \in Int /\ 1 \in Int
    BY DEF Counts
  <2>2. IsFiniteSet({s})
    BY FS_Singleton
  <2>3. IsFiniteSet(1..counts[s])
    BY <2>1, FS_Interval
  <2> QED BY <2>2, <2>3, FS_Product
<1>5. \A T \in all : IsFiniteSet(T)
  BY <1>4
<1> QED BY <1>3, <1>5, FS_UNION DEF Items

LEMMA SumOfTwo ==
  ASSUME NEW counts \in Counts, NEW a \in SUBSET Socket, NEW b \in SUBSET Socket
  PROVE  /\ Sum(counts, a) \in Nat
         /\ a \subseteq b => Sum(counts, a) <= Sum(counts, b)
         /\ a \cap b = {} => Sum(counts, a \cup b) = Sum(counts, a) + Sum(counts, b)
<1> DEFINE A == Items(counts, a)
           B == Items(counts, b)
<1>1. IsFiniteSet(A) /\ IsFiniteSet(B)
  BY ItemsFinite
<1>2. /\ Sum(counts, a) = Cardinality(A) /\ Sum(counts, b) = Cardinality(B)
      /\ Sum(counts, a \cup b) = Cardinality(A \cup B)
  <2>1. Items(counts, a \cup b) = A \cup B
    BY DEF Items
  <2> QED BY <2>1 DEF Sum, Items
<1>3. a \subseteq b => A \subseteq B
  BY DEF Items
<1>4. a \cap b = {} => A \cap B = {}
  BY DEF Items
<1> HIDE DEF A, B
<1>5. Cardinality(A) \in Nat /\ Cardinality(B) \in Nat
  BY <1>1, FS_CardinalityType
<1>6. a \subseteq b => Cardinality(A) <= Cardinality(B)
  BY <1>1, <1>3, FS_Subset
<1>7. a \cap b = {} => Cardinality(A \cup B) = Cardinality(A) + Cardinality(B)
  <2> SUFFICES ASSUME a \cap b = {}
               PROVE  Cardinality(A \cup B) = Cardinality(A) + Cardinality(B)
    OBVIOUS
  <2>1. Cardinality(A \cap B) = 0
    BY <1>4, FS_EmptySet
  <2>2. Cardinality(A \cup B) = Cardinality(A) + Cardinality(B) - Cardinality(A \cap B)
    BY <1>1, FS_Union
  <2> QED BY <1>5, <2>1, <2>2
<1> QED BY <1>2, <1>5, <1>6, <1>7

LEMMA SumMonotone ==
  ASSUME NEW fewer \in Counts, NEW more \in Counts, NEW a \in SUBSET Socket,
         \A s \in a : fewer[s] <= more[s]
  PROVE  Sum(fewer, a) <= Sum(more, a)
<1>1. IsFiniteSet(Items(more, a))
  BY ItemsFinite
<1>2. \A s \in a : 1..fewer[s] \subseteq 1..more[s]
  BY DEF Counts
<1>3. Items(fewer, a) \subseteq Items(more, a)
  BY <1>2 DEF Items
<1> QED BY <1>1, <1>3, FS_Subset DEF Sum, Items

LEMMA SumSame ==
  ASSUME NEW c \in Counts, NEW d \in Counts, NEW a \in SUBSET Socket,
         \A s \in a : c[s] = d[s]
  PROVE  Sum(c, a) = Sum(d, a)
<1>1. Items(c, a) = Items(d, a)
  BY DEF Items
<1> QED BY <1>1 DEF Sum, Items

LEMMA SumOfOne ==
  ASSUME NEW counts \in Counts, NEW s \in Socket
  PROVE  Sum(counts, {s}) = counts[s]
<1>1. Items(counts, {s}) = {s} \X (1..counts[s])
  BY DEF Items
<1>2. counts[s] \in Nat
  BY DEF Counts
<1>3. IsFiniteSet({s}) /\ Cardinality({s}) = 1
  BY FS_Singleton
<1>4. IsFiniteSet(1..counts[s]) /\ Cardinality(1..counts[s]) = counts[s]
  <2>1. /\ IsFiniteSet(1..counts[s])
        /\ Cardinality(1..counts[s]) = IF 1 > counts[s] THEN 0 ELSE counts[s] - 1 + 1
    <3>1. 1 \in Int /\ counts[s] \in Int
      BY <1>2
    <3> HIDE <1>2
    <3> QED BY <3>1, FS_Interval
  <2> QED BY <1>2, <2>1
<1>5. Cardinality({s} \X (1..counts[s])) = Cardinality({s}) * Cardinality(1..counts[s])
  BY <1>3, <1>4, FS_Product
<1>6. Cardinality({s} \X (1..counts[s])) = counts[s]
  BY <1>2, <1>3, <1>4, <1>5
<1> QED BY <1>1, <1>6 DEF Sum, Items

LEMMA SumOfZeros ==
  ASSUME NEW counts \in Counts, NEW a \in SUBSET Socket, \A s \in a : counts[s] = 0
  PROVE  Sum(counts, a) = 0
<1>1. Items(counts, a) = {}
  BY DEF Items
<1> QED BY <1>1, FS_EmptySet DEF Sum, Items

LEMMA DispatcherTypes ==
  ASSUME DispatcherInv
  PROVE  /\ stage \in [Socket -> Stage] /\ own \in Counts /\ final \in Counts
         /\ total \in Nat /\ closed \in Nat /\ recent \in Seq(Socket)
         /\ view.taken \in Seq(SnapshotType) /\ view.locked \in BOOLEAN
         /\ Handled \in Nat /\ Range(recent) \in SUBSET Over /\ Range(recent) \in SUBSET Socket
<1>1. /\ stage \in [Socket -> Stage] /\ own \in Counts /\ final \in Counts
      /\ total \in Nat /\ closed \in Nat /\ recent \in Seq(Socket)
      /\ view.taken \in Seq(SnapshotType) /\ view.locked \in BOOLEAN
  BY DEF DispatcherInv, DispatcherTypeOK, Counts
<1>2. Handled \in Nat
  BY <1>1, SumOfTwo DEF Handled
<1>3. Range(recent) \in SUBSET Over
  <2>1. Range(recent) = {recent[i] : i \in 1..Len(recent)}
    BY <1>1, RangeEquality
  <2> QED BY <2>1 DEF DispatcherInv, Ring
<1> QED BY <1>1, <1>2, <1>3 DEF Over

LEMMA RangeWithin ==
  ASSUME NEW list \in Seq(Socket), NEW n, NEW over \in SUBSET Socket,
         Ring(list, n, over)
  PROVE  Range(list) \in SUBSET over /\ Range(list) \in SUBSET Socket
<1>1. Range(list) = {list[i] : i \in 1..Len(list)}
  BY RangeEquality
<1> QED BY <1>1 DEF Ring

(* A step of a socket leaves the snapshots as true as they were.           *)
LEMMA ViewKept ==
  ASSUME DispatcherInv, counter' = counter, view' = view,
         own' \in Counts, final' \in Counts, total' \in Nat, total <= total',
         \A s \in Socket : own[s] <= own'[s],
         Over \subseteq Over', \A s \in Over : final'[s] = final[s],
         view.locked => closed' = closed /\ recent' = recent /\ Active' = Active
  PROVE  ViewFits'
<1>1. /\ own \in Counts /\ final \in Counts /\ total \in Nat /\ recent \in Seq(Socket)
      /\ view.taken \in Seq(SnapshotType) /\ Handled \in Nat
      /\ Range(recent) \in SUBSET Over /\ Range(recent) \in SUBSET Socket
  BY DispatcherTypes
<1>2. Handled <= Handled' /\ Handled' \in Nat
  BY <1>1, SumMonotone, SumOfTwo DEF Handled
<1>3. ASSUME NEW i \in 1..Len(view.taken), Taken(view.taken[i], Handled, Over, final)
      PROVE  Taken(view.taken[i], Handled, Over, final)'
  <2> DEFINE n == view.taken[i]
  <2>1. n \in SnapshotType
    BY <1>1
  <2>2. /\ n.count \in Nat /\ n.after \in Nat /\ n.recent \in Seq(Socket)
    BY <2>1 DEF SnapshotType
  <2>3. Taken(n, Handled, Over, final) /\ view'.taken[i] = n
    BY <1>3
  <2> HIDE DEF n
  <2>4. Range(n.recent) \in SUBSET Over /\ Range(n.recent) \in SUBSET Socket
    BY <2>2, <2>3, RangeWithin DEF Taken, Over
  <2>5. Sum(final, Range(n.recent)) = Sum(final', Range(n.recent))
    BY <1>1, <2>4, SumSame
  <2>6. Ring(n.recent, n.closed, Over')
    BY <2>3 DEF Taken, Ring
  <2>7. n.count <= n.after /\ n.after <= Handled'
    BY <1>2, <1>1, <2>2, <2>3 DEF Taken
  <2> QED BY <2>3, <2>5, <2>6, <2>7 DEF Taken
<1>4. ASSUME view.locked,
             Begun(view.taken[Len(view.taken)], Handled, Sum(own, Active),
                   Sum(final, Range(recent)))
      PROVE  Begun(view.taken[Len(view.taken)], Handled, Sum(own, Active),
                   Sum(final, Range(recent)))'
  <2> DEFINE n == view.taken[Len(view.taken)]
  <2>1. n \in SnapshotType
    BY <1>1, <1>4 DEF DispatcherInv, ViewFits
  <2>2. n.count \in Nat /\ n.before \in Nat
    BY <2>1 DEF SnapshotType
  <2>3. /\ Begun(n, Handled, Sum(own, Active), Sum(final, Range(recent)))
        /\ view'.taken[Len(view'.taken)] = n
    BY <1>4
  <2> HIDE DEF n
  <2>4. closed' = closed /\ recent' = recent /\ Active' = Active /\ Active \in SUBSET Socket
    BY <1>4 DEF Active
  <2>5. Sum(own, Active) \in Nat /\ Sum(own', Active) \in Nat
        /\ Sum(own, Active) <= Sum(own', Active)
    BY <1>1, <2>4, SumOfTwo, SumMonotone
  <2>6. Sum(final', Range(recent)) = Sum(final, Range(recent))
    BY <1>1, SumSame
  <2>7. n.before <= Handled' /\ n.count <= total'
    BY <1>1, <1>2, <2>2, <2>3 DEF Begun
  <2>8. Clean(n) => n.before <= n.count + Sum(own', Active)
    BY <2>2, <2>3, <2>5 DEF Begun
  <2>9. /\ n.closed = closed'
        /\ counter' = "frames" => Sum(final', Range(recent')) <= n.count
    BY <2>3, <2>4, <2>6 DEF Begun
  <2> QED BY <2>3, <2>4, <2>7, <2>8, <2>9 DEF Begun
<1>5. ViewFits
  BY DEF DispatcherInv
<1> QED BY <1>3, <1>4, <1>5 DEF ViewFits

(* The steps of a socket, by the stages they lead from and to.             *)
LEMMA PassesFacts ==
  ASSUME DispatcherInv, NEW s \in Socket, NEW from \in Stage, NEW to \in Stage,
         Passes(s, from, to)
  PROVE  /\ stage[s] = from /\ stage'[s] = to /\ stage' \in [Socket -> Stage]
         /\ \A t \in Socket \ {s} : stage'[t] = stage[t]
BY DispatcherTypes DEF Passes

LEMMA StepRegister ==
  ASSUME DispatcherInv, NEW s \in Socket, Register(s) \/ Deregister(s)
  PROVE  DispatcherInv'
<1>1. /\ ~view.locked /\ UNCHANGED <<counter, own, final, total, closed, recent, view>>
      /\ Passes(s, "absent", "served") \/ Passes(s, "ended", "removed")
  BY DEF Register, Deregister, Unlocked
<1>2. /\ stage' \in [Socket -> Stage]
      /\ \A t \in Socket : \/ stage'[t] = stage[t]
                           \/ stage[t] = "absent" /\ stage'[t] = "served"
                           \/ stage[t] = "ended" /\ stage'[t] = "removed"
  <2>1. CASE Passes(s, "absent", "served")
    BY <2>1, PassesFacts DEF Stage
  <2>2. CASE Passes(s, "ended", "removed")
    BY <2>2, PassesFacts DEF Stage
  <2> QED BY <1>1, <2>1, <2>2
<1>3. Folded' = Folded /\ Over' = Over
  <2>1. \A t \in Socket :
          /\ stage'[t] \in {"counted", "listed"} <=> stage[t] \in {"counted", "listed"}
          /\ stage'[t] = "gone" <=> stage[t] = "gone"
          /\ stage'[t] \in {"listed", "gone"} <=> stage[t] \in {"listed", "gone"}
    BY <1>2
  <2> QED BY <1>1, <2>1 DEF Folded, Over
<1>4. /\ own \in Counts /\ final \in Counts /\ total \in Nat
      /\ \A t \in Socket : own[t] <= own[t]
  BY DispatcherTypes DEF Counts
<1>5. ViewFits'
  BY <1>1, <1>3, <1>4, ViewKept
<1>6. CountsFit'
  <2>1. \A t \in Socket : stage'[t] = "absent" => stage[t] = "absent"
    BY <1>2
  <2> QED BY <1>1, <1>3, <2>1 DEF DispatcherInv, CountsFit
<1>7. DispatcherTypeOK'
  BY <1>1, <1>2 DEF DispatcherInv, DispatcherTypeOK
<1> QED BY <1>1, <1>3, <1>5, <1>6, <1>7 DEF DispatcherInv

LEMMA StepHandle ==
  ASSUME DispatcherInv, NEW s \in Socket, Handle(s)
  PROVE  DispatcherInv'
<1>1. /\ UNCHANGED <<counter, stage, final, total, closed, recent, view>>
      /\ stage[s] # "absent" /\ own' = [own EXCEPT ![s] = own[s] + 1]
  BY DEF Handle
<1>2. own \in Counts /\ final \in Counts /\ total \in Nat
  BY DispatcherTypes
<1>3. /\ own' \in Counts
      /\ \A t \in Socket : own[t] <= own'[t]
      /\ \A t \in Socket : t # s => own'[t] = own[t]
  BY <1>1, <1>2 DEF Counts
<1>4. Folded' = Folded /\ Over' = Over /\ Active' = Active
  BY <1>1 DEF Folded, Over, Active
<1>5. ViewFits'
  BY <1>1, <1>2, <1>3, <1>4, ViewKept
<1>6. CountsFit'
  <2>1. \A t \in Socket : final[t] <= own[t]
    BY DEF DispatcherInv, CountsFit
  <2>2. \A t \in Socket : final[t] <= own'[t]
    BY <1>2, <1>3, <2>1 DEF Counts
  <2> QED BY <1>1, <1>3, <1>4, <2>2 DEF DispatcherInv, CountsFit
<1>7. DispatcherTypeOK'
  BY <1>1, <1>3 DEF DispatcherInv, DispatcherTypeOK, Counts
<1> QED BY <1>1, <1>4, <1>5, <1>6, <1>7 DEF DispatcherInv

LEMMA StepEnd ==
  ASSUME DispatcherInv, NEW s \in Socket, End(s)
  PROVE  DispatcherInv'
<1>1. /\ UNCHANGED <<counter, own, total, closed, recent, view>>
      /\ Passes(s, "served", "ended") /\ final' = [final EXCEPT ![s] = own[s]]
  BY DEF End
<1>2. /\ stage[s] = "served" /\ stage'[s] = "ended" /\ stage' \in [Socket -> Stage]
      /\ \A t \in Socket \ {s} : stage'[t] = stage[t]
  BY <1>1, PassesFacts DEF Stage
<1>3. own \in Counts /\ final \in Counts /\ total \in Nat
  BY DispatcherTypes
<1>4. /\ final' \in Counts /\ final'[s] = own[s]
      /\ \A t \in Socket \ {s} : final'[t] = final[t]
      /\ \A t \in Socket : own[t] <= own[t]
  BY <1>1, <1>3 DEF Counts
<1>5. /\ Folded' = Folded /\ Over' = Over /\ Active' = Active
      /\ s \notin Folded /\ s \notin Over /\ Folded \in SUBSET Socket
  BY <1>1, <1>2 DEF Folded, Over, Active
<1>6. ViewFits'
  BY <1>1, <1>3, <1>4, <1>5, ViewKept DEF Over
<1>7. CountsFit'
  <2>1. Sum(final', Folded) = Sum(final, Folded)
    BY <1>3, <1>4, <1>5, SumSame
  <2>2. \A t \in Socket : final'[t] <= own[t]
    BY <1>4 DEF DispatcherInv, CountsFit
  <2>3. \A t \in Socket : stage'[t] = "absent" => stage[t] = "absent"
    BY <1>2
  <2> QED BY <1>1, <1>5, <2>1, <2>2, <2>3 DEF DispatcherInv, CountsFit
<1>8. DispatcherTypeOK'
  BY <1>1, <1>2, <1>4 DEF DispatcherInv, DispatcherTypeOK, Counts
<1> QED BY <1>1, <1>5, <1>6, <1>7, <1>8 DEF DispatcherInv

LEMMA StepAdd ==
  ASSUME DispatcherInv, NEW s \in Socket, AddFrames(s) \/ AddRequests(s)
  PROVE  DispatcherInv'
<1>1. /\ UNCHANGED <<counter, own, final, closed, recent, view>>
      /\ \/ Passes(s, "removed", "counted") /\ Add(s, "frames")
         \/ Passes(s, "listed", "gone") /\ Add(s, "requests")
  BY DEF AddFrames, AddRequests
<1>2. /\ stage' \in [Socket -> Stage]
      /\ \A t \in Socket \ {s} : stage'[t] = stage[t]
      /\ \/ stage[s] = "removed" /\ stage'[s] = "counted" /\ Add(s, "frames")
         \/ stage[s] = "listed" /\ stage'[s] = "gone" /\ Add(s, "requests")
  <2>1. CASE Passes(s, "removed", "counted") /\ Add(s, "frames")
    BY <2>1, PassesFacts DEF Stage
  <2>2. CASE Passes(s, "listed", "gone") /\ Add(s, "requests")
    BY <2>2, PassesFacts DEF Stage
  <2> QED BY <1>1, <2>1, <2>2
<1>3. /\ own \in Counts /\ final \in Counts /\ total \in Nat /\ counter \in Counter
      /\ final[s] \in Nat /\ \A t \in Socket : own[t] <= own[t]
  BY DispatcherTypes DEF Counts, DispatcherInv, DispatcherTypeOK
<1>4. Over' = Over /\ Active' = Active
  <2>1. \A t \in Socket :
          /\ stage'[t] \in {"listed", "gone"} <=> stage[t] \in {"listed", "gone"}
          /\ stage'[t] \in {"served", "ended"} <=> stage[t] \in {"served", "ended"}
    BY <1>2
  <2> QED BY <2>1 DEF Over, Active
<1>5. total = Sum(final, Folded) /\ Folded \in SUBSET Socket
  BY DEF DispatcherInv, CountsFit, Folded
<1>6. total' \in Nat /\ total <= total' /\ total' = Sum(final, Folded')
  <2>1. CASE \/ counter = "frames" /\ stage'[s] = "counted"
             \/ counter = "requests" /\ stage'[s] = "gone"
    <3>1. total' = total + final[s]
      BY <1>2, <2>1 DEF Add
    <3>2. Folded' = Folded \cup {s} /\ Folded \cap {s} = {}
      <4>1. CASE counter = "frames" /\ stage'[s] = "counted"
        BY <1>1, <1>2, <4>1 DEF Folded
      <4>2. CASE counter = "requests" /\ stage'[s] = "gone"
        BY <1>1, <1>2, <4>2 DEF Folded
      <4> QED BY <2>1, <4>1, <4>2
    <3>3. Sum(final, Folded') = total + final[s]
      <4>1. Sum(final, {s}) = final[s] /\ {s} \in SUBSET Socket
        BY <1>3, SumOfOne
      <4>2. Sum(final, Folded \cup {s}) = Sum(final, Folded) + Sum(final, {s})
        BY <1>3, <1>5, <3>2, <4>1, SumOfTwo
      <4> QED BY <1>5, <3>2, <4>1, <4>2
    <3> QED BY <1>3, <3>1, <3>3
  <2>2. CASE \/ counter = "frames" /\ stage'[s] = "gone"
             \/ counter = "requests" /\ stage'[s] = "counted"
    <3>1. total' = total
      BY <1>2, <2>2 DEF Add
    <3>2. Folded' = Folded
      <4>1. CASE counter = "frames" /\ stage'[s] = "gone"
        BY <1>1, <1>2, <4>1 DEF Folded
      <4>2. CASE counter = "requests" /\ stage'[s] = "counted"
        BY <1>1, <1>2, <4>2 DEF Folded
      <4> QED BY <2>2, <4>1, <4>2
    <3> QED BY <1>3, <1>5, <3>1, <3>2
  <2> QED BY <1>2, <1>3, <2>1, <2>2 DEF Counter
<1>7. ViewFits'
  BY <1>1, <1>3, <1>4, <1>6, ViewKept
<1>8. CountsFit'
  <2>1. \A t \in Socket : stage'[t] = "absent" => stage[t] = "absent"
    BY <1>2
  <2> QED BY <1>1, <1>6, <2>1 DEF DispatcherInv, CountsFit
<1>9. DispatcherTypeOK'
  BY <1>1, <1>2, <1>6 DEF DispatcherInv, DispatcherTypeOK
<1> QED BY <1>1, <1>4, <1>7, <1>8, <1>9 DEF DispatcherInv

LEMMA SmallerOfTwo ==
  ASSUME NEW a \in Nat, NEW b \in Nat
  PROVE  Min({a, b}) = Upto(b, a)
<1>1. CASE a <= b
  <2>1. \A x \in {a, b} : (\A y \in {a, b} : x <= y) <=> x = a
    BY <1>1
  <2> QED BY <1>1, <2>1 DEF Min, Upto
<1>2. CASE ~(a <= b)
  <2>1. \A x \in {a, b} : (\A y \in {a, b} : x <= y) <=> x = b
    BY <1>2
  <2> QED BY <1>2, <2>1 DEF Min, Upto
<1> QED BY <1>1, <1>2

LEMMA StepRecord ==
  ASSUME DispatcherInv, NEW s \in Socket, RecordLifecycle(s)
  PROVE  DispatcherInv'
<1> DEFINE longer == <<s>> \o recent
           n == Min({Len(longer), RingLimit})
<1>1. /\ ~view.locked /\ UNCHANGED <<counter, own, final, total, view>>
      /\ Passes(s, "counted", "listed") /\ closed' = closed + 1
      /\ recent' = SubSeq(longer, 1, n)
  BY DEF RecordLifecycle, Unlocked
<1>2. /\ stage[s] = "counted" /\ stage'[s] = "listed" /\ stage' \in [Socket -> Stage]
      /\ \A t \in Socket \ {s} : stage'[t] = stage[t]
  BY <1>1, PassesFacts DEF Stage
<1>3. /\ own \in Counts /\ final \in Counts /\ total \in Nat /\ closed \in Nat
      /\ recent \in Seq(Socket) /\ Len(recent) \in Nat /\ RingLimit \in Nat
      /\ \A t \in Socket : own[t] <= own[t]
  BY DispatcherTypes, LenProperties, DispatcherAssumption DEF Counts
<1>4. Folded' = Folded /\ Over' = Over \cup {s} /\ s \notin Over
  BY <1>1, <1>2 DEF Folded, Over
<1>5. ViewFits'
  BY <1>1, <1>3, <1>4, ViewKept
<1>6. CountsFit'
  <2>1. \A t \in Socket : stage'[t] = "absent" => stage[t] = "absent"
    BY <1>2
  <2> QED BY <1>1, <1>4, <2>1 DEF DispatcherInv, CountsFit
<1>7. /\ longer \in Seq(Socket) /\ Len(longer) = Len(recent) + 1 /\ longer[1] = s
      /\ \A i \in 2..(Len(recent) + 1) : longer[i] = recent[i - 1]
  <2> DEFINE one == <<s>>
  <2>1. one \in Seq(Socket) /\ Len(one) = 1 /\ one[1] = s /\ longer = one \o recent
    OBVIOUS
  <2> HIDE DEF one, longer
  <2>2. /\ longer \in Seq(Socket) /\ Len(longer) = Len(one) + Len(recent)
        /\ \A i \in 1..(Len(one) + Len(recent)) :
             longer[i] = IF i <= Len(one) THEN one[i] ELSE recent[i - Len(one)]
    BY <1>3, <2>1, ConcatProperties
  <2> QED BY <1>3, <2>1, <2>2
<1> HIDE DEF longer
<1>8. n = Upto(RingLimit, Len(recent) + 1) /\ n \in Nat /\ n <= Len(longer)
  BY <1>3, <1>7, SmallerOfTwo DEF Upto
<1> HIDE DEF n
<1>9. /\ recent' \in Seq(Socket) /\ Len(recent') = n
      /\ \A i \in 1..n : recent'[i] = longer[i]
  <2>1. \A i \in 1..n : longer[i] \in Socket
    BY <1>7, <1>8
  <2>2. /\ SubSeq(longer, 1, n) \in Seq(Socket)
        /\ Len(SubSeq(longer, 1, n)) = IF 1 <= n THEN n - 1 + 1 ELSE 0
        /\ \A i \in 1..(n - 1 + 1) : SubSeq(longer, 1, n)[i] = longer[1 + i - 1]
    BY <1>8, <2>1, SubSeqProperties
  <2> QED BY <1>1, <1>8, <2>2
<1>10. Ring(recent', closed', Over')
  <2>1. Ring(recent, closed, Over)
    BY DEF DispatcherInv
  <2>2. n = Upto(RingLimit, closed')
    BY <1>1, <1>3, <1>8, <2>1 DEF Ring, Upto
  <2>3. \A i \in 1..n : \/ i = 1 /\ recent'[i] = s
                        \/ i - 1 \in 1..Len(recent) /\ recent'[i] = recent[i - 1]
    BY <1>3, <1>7, <1>8, <1>9
  <2>4. \A i \in 1..n : recent'[i] \in Over'
    BY <1>4, <2>1, <2>3 DEF Ring
  <2>5. \A i, j \in 1..n : recent'[i] = recent'[j] => i = j
    <3> SUFFICES ASSUME NEW i \in 1..n, NEW j \in 1..n, recent'[i] = recent'[j] PROVE i = j
      OBVIOUS
    <3>1. \A k \in 1..Len(recent) : recent[k] # s
      BY <1>4, <2>1 DEF Ring
    <3>2. CASE i = 1 /\ recent'[i] = s
      BY <2>3, <3>1, <3>2
    <3>3. CASE j = 1 /\ recent'[j] = s
      BY <2>3, <3>1, <3>3
    <3>4. CASE /\ i - 1 \in 1..Len(recent) /\ recent'[i] = recent[i - 1]
               /\ j - 1 \in 1..Len(recent) /\ recent'[j] = recent[j - 1]
      <4>1. i - 1 = j - 1
        BY <2>1, <3>4 DEF Ring
      <4> QED BY <1>8, <4>1
    <3> QED BY <2>3, <3>2, <3>3, <3>4
  <2> QED BY <1>9, <2>2, <2>4, <2>5 DEF Ring
<1>11. DispatcherTypeOK'
  BY <1>1, <1>2, <1>3, <1>9 DEF DispatcherInv, DispatcherTypeOK
<1> QED BY <1>5, <1>6, <1>10, <1>11 DEF DispatcherInv

(* The observer: what it loads, and what it adds of the live sockets.      *)
LEMMA HandledAtLoad ==
  ASSUME DispatcherInv, Adrift = {}, Late = {}
  PROVE  Handled <= total + Sum(own, Active)
<1> DEFINE rest == Socket \ Active
           absent == {s \in Socket : stage[s] = "absent"}
<1>1. /\ stage \in [Socket -> Stage] /\ counter \in Counter
      /\ own \in Counts /\ final \in Counts
      /\ CountsFit /\ Folded \in SUBSET Socket /\ Active \in SUBSET Socket
      /\ rest \in SUBSET Socket /\ absent \in SUBSET Socket /\ Socket \in SUBSET Socket
  BY DispatcherTypes DEF DispatcherInv, DispatcherTypeOK, Folded, Active
<1>2. rest = Folded \cup absent /\ Folded \cap absent = {}
  <2>1. \A s \in Socket : /\ stage[s] # "removed"
                          /\ counter = "requests" => stage[s] \notin {"counted", "listed"}
    BY DEF Adrift
  <2> QED BY <1>1, <2>1 DEF Folded, Active, Stage, Counter
<1>3. \A s \in rest : own[s] <= final[s]
  <2>1. \A s \in rest : own[s] = final[s]
    BY DEF Late
  <2> QED BY <1>1, <2>1 DEF Counts
<1>4. \A s \in absent : final[s] = 0
  <2>1. \A s \in absent : own[s] = final[s]
    BY <1>2 DEF Late
  <2> QED BY <1>1, <2>1 DEF CountsFit
<1> HIDE DEF rest, absent
<1>5. rest \cap Active = {} /\ Socket = rest \cup Active
  BY <1>1 DEF rest
<1>6. Handled = Sum(own, rest) + Sum(own, Active)
  BY <1>1, <1>5, SumOfTwo DEF Handled
<1>7. Sum(own, rest) <= Sum(final, rest)
  BY <1>1, <1>3, SumMonotone
<1>8. Sum(final, rest) = Sum(final, Folded) + Sum(final, absent)
  BY <1>1, <1>2, SumOfTwo
<1>9. Sum(final, absent) = 0
  BY <1>1, <1>4, SumOfZeros
<1>10. /\ Sum(own, rest) \in Nat /\ Sum(own, Active) \in Nat
       /\ Sum(final, Folded) \in Nat /\ total = Sum(final, Folded)
  BY <1>1, SumOfTwo DEF CountsFit
<1> QED BY <1>6, <1>7, <1>8, <1>9, <1>10

LEMMA FoldedWithin ==
  ASSUME DispatcherInv
  PROVE  /\ total + Sum(own, Active) <= Handled
         /\ counter = "frames" => Sum(final, Range(recent)) <= total
         /\ Sum(own, Active) \in Nat /\ Sum(final, Range(recent)) \in Nat
<1>1. /\ own \in Counts /\ final \in Counts /\ CountsFit
      /\ Folded \in SUBSET Socket /\ Active \in SUBSET Socket /\ Socket \in SUBSET Socket
      /\ Range(recent) \in SUBSET Over /\ Range(recent) \in SUBSET Socket
      /\ Folded \cup Active \in SUBSET Socket
  BY DispatcherTypes DEF DispatcherInv, Folded, Active
<1>2. Folded \cap Active = {}
  BY DEF Folded, Active
<1>3. Sum(final, Folded) <= Sum(own, Folded)
  BY <1>1, SumMonotone DEF CountsFit
<1>4. Sum(own, Folded \cup Active) = Sum(own, Folded) + Sum(own, Active)
  BY <1>1, <1>2, SumOfTwo
<1>5. Sum(own, Folded \cup Active) <= Handled
  BY <1>1, SumOfTwo DEF Handled
<1>6. counter = "frames" => Range(recent) \subseteq Folded
  BY <1>1 DEF Over, Folded
<1>7. counter = "frames" => Sum(final, Range(recent)) <= Sum(final, Folded)
  BY <1>1, <1>6, SumOfTwo
<1>8. /\ Sum(final, Folded) \in Nat /\ Sum(own, Folded) \in Nat
      /\ Sum(own, Active) \in Nat /\ Sum(final, Range(recent)) \in Nat
      /\ Handled \in Nat /\ total = Sum(final, Folded)
  BY <1>1, SumOfTwo, DispatcherTypes DEF CountsFit
<1> QED BY <1>3, <1>4, <1>5, <1>7, <1>8

LEMMA StepLoadCounters == ASSUME DispatcherInv, LoadCounters PROVE DispatcherInv'
<1> DEFINE n == [count |-> total, active |-> {}, recent |-> <<>>,
                 closed |-> closed, before |-> Handled, after |-> Handled,
                 adrift |-> Adrift, late |-> Late]
           taken == view.taken
<1>1. /\ ~view.locked /\ Len(taken) < 2
      /\ view' = [locked |-> TRUE, taken |-> Append(taken, n)]
      /\ UNCHANGED <<counter, stage, own, final, total, closed, recent>>
  BY DEF LoadCounters, Unlocked
<1>2. /\ total \in Nat /\ closed \in Nat /\ taken \in Seq(SnapshotType) /\ Len(taken) \in 0..1
      /\ Handled \in Nat /\ ViewFits
  <2>1. /\ total \in Nat /\ closed \in Nat /\ taken \in Seq(SnapshotType)
        /\ Handled \in Nat /\ ViewFits
    BY DispatcherTypes DEF DispatcherInv
  <2> QED BY <1>1, <2>1 DEF ViewFits
<1>3. n \in SnapshotType
  BY <1>2 DEF SnapshotType, Adrift, Late
<1>4. Begun(n, Handled, Sum(own, Active), Sum(final, Range(recent)))
  <2>1. Clean(n) => Handled <= total + Sum(own, Active)
    BY HandledAtLoad DEF Clean
  <2>2. counter = "frames" => Sum(final, Range(recent)) <= total
    BY FoldedWithin
  <2> QED BY <1>2, <2>1, <2>2 DEF Begun
<1>5. n.before = Handled
  OBVIOUS
<1> HIDE DEF n
<1>6. view'.locked /\ view'.taken = Append(taken, n)
  BY <1>1
<1>7. /\ view'.taken \in Seq(SnapshotType) /\ Len(view'.taken) = Len(taken) + 1
      /\ \A i \in 1..Len(taken) : view'.taken[i] = taken[i]
      /\ view'.taken[Len(view'.taken)] = n
  BY <1>2, <1>3, <1>6, AppendProperties
<1> HIDE DEF taken
<1>8. Handled' = Handled /\ Over' = Over /\ Folded' = Folded /\ Active' = Active
  BY <1>1 DEF Handled, Over, Folded, Active
<1>9. ViewFits'
  <2>1. Begun(view.taken[Len(view.taken)], Handled, Sum(own, Active),
              Sum(final, Range(recent)))'
    BY <1>1, <1>4, <1>7, <1>8 DEF Begun
  <2>2. \A i \in 1..Len(taken) : Taken(taken[i], Handled, Over, final)
    BY <1>1, <1>2 DEF ViewFits, taken
  <2>3. \A i \in 1..Len(view'.taken) : i # Len(view'.taken) =>
          i \in 1..Len(taken) /\ view'.taken[i] = taken[i]
    BY <1>2, <1>7
  <2>4. ASSUME NEW i \in 1..Len(taken), view'.taken[i] = taken[i]
        PROVE  Taken(view'.taken[i], Handled', Over', final')
    BY <1>8, <2>2, <2>4, <1>1
  <2>5. Len(view'.taken) = 2 => view'.taken[1].after <= view'.taken[2].before
    <3> SUFFICES ASSUME Len(view'.taken) = 2
                 PROVE  view'.taken[1].after <= view'.taken[2].before
      OBVIOUS
    <3>1. 1 \in 1..Len(taken) /\ view'.taken[2] = n /\ view'.taken[1] = taken[1]
      BY <1>2, <1>7
    <3>2. Taken(taken[1], Handled, Over, final)
      BY <2>2, <3>1
    <3> QED BY <1>5, <3>1, <3>2 DEF Taken
  <2>6. ASSUME NEW i \in 1..Len(view'.taken), i # Len(view'.taken)
        PROVE  Taken(view.taken[i], Handled, Over, final)'
    <3>1. Taken(view'.taken[i], Handled', Over', final')
      BY <2>3, <2>4, <2>6
    <3> QED BY <1>1, <3>1 DEF Taken
  <2> QED BY <1>2, <1>6, <1>7, <2>1, <2>5, <2>6 DEF ViewFits
<1>10. CountsFit' /\ Ring(recent, closed, Over)'
  BY <1>1, <1>8 DEF DispatcherInv, CountsFit, Ring
<1>11. DispatcherTypeOK'
  BY <1>1, <1>7 DEF DispatcherInv, DispatcherTypeOK
<1> QED BY <1>9, <1>10, <1>11 DEF DispatcherInv

LEMMA StepAddActive == ASSUME DispatcherInv, AddActive PROVE DispatcherInv'
<1> DEFINE k == Len(view.taken)
           loaded == view.taken[k]
           sum == loaded.count + Sum(own, Active)
           n == [loaded EXCEPT !.count = sum, !.active = Active,
                               !.recent = recent, !.after = Handled]
<1>1. /\ view.locked
      /\ view' = [locked |-> FALSE, taken |-> [view.taken EXCEPT ![k] = n]]
      /\ UNCHANGED <<counter, stage, own, final, total, closed, recent>>
  BY DEF AddActive, Last
<1>2. /\ view.taken \in Seq(SnapshotType) /\ Handled \in Nat /\ ViewFits /\ k \in 1..2
      /\ recent \in Seq(Socket) /\ Sum(own, Active) \in Nat /\ total \in Nat
      /\ Ring(recent, closed, Over) /\ Range(recent) \in SUBSET Over
      /\ Sum(final, Range(recent)) \in Nat
  <2>1. Len(view.taken) \in 0..2 /\ Len(view.taken) # 0
    BY <1>1 DEF DispatcherInv, ViewFits
  <2> QED BY <2>1, DispatcherTypes, FoldedWithin DEF DispatcherInv
<1>3. loaded \in SnapshotType /\ k \in 1..Len(view.taken)
  <2>1. k \in 1..Len(view.taken)
    <3>1. k \in 1..2
      BY <1>2
    <3> QED BY <3>1
  <2>2. view.taken \in Seq(SnapshotType)
    BY <1>2
  <2> QED BY <2>1, <2>2
<1>4. Begun(loaded, Handled, Sum(own, Active), Sum(final, Range(recent)))
  <2>1. ViewFits /\ view.locked
    BY <1>1, <1>2
  <2> QED BY <2>1 DEF ViewFits
<1> HIDE DEF loaded
<1>5. Active \in SUBSET Socket /\ sum \in Nat
  <2>1. loaded.count \in Nat
    BY <1>3 DEF SnapshotType
  <2> QED BY <1>2, <2>1 DEF Active
<1> HIDE DEF sum
<1>6. /\ n \in SnapshotType /\ n.count = sum /\ n.active = Active /\ n.recent = recent
      /\ n.after = Handled /\ n.before = loaded.before /\ n.closed = loaded.closed
      /\ n.adrift = loaded.adrift /\ n.late = loaded.late
  BY <1>2, <1>3, <1>5 DEF SnapshotType
<1> HIDE DEF n
<1>7. Taken(n, Handled, Over, final)
  <2>1. loaded.count \in Nat /\ loaded.before \in Nat /\ sum = loaded.count + Sum(own, Active)
    BY <1>3 DEF SnapshotType, sum
  <2>2. sum <= Handled
    BY <1>2, <1>4, <2>1, FoldedWithin DEF Begun
  <2>3. Clean(n) => loaded.before <= sum
    BY <1>4, <1>6, <2>1 DEF Begun, Clean
  <2>4. Active \cap Range(recent) = {}
    BY <1>2 DEF Active, Over
  <2>5. counter = "frames" => Sum(final, Range(recent)) <= sum
    BY <1>2, <1>4, <2>1 DEF Begun
  <2>6. Handled <= Handled /\ loaded.closed = closed
    BY <1>2, <1>4 DEF Begun
  <2> QED BY <1>2, <1>6, <2>2, <2>3, <2>4, <2>5, <2>6 DEF Taken
<1>8. /\ ~view'.locked /\ view'.taken \in Seq(SnapshotType) /\ Len(view'.taken) = k
      /\ \A i \in 1..k : view'.taken[i] = IF i = k THEN n ELSE view.taken[i]
  <2>1. view'.taken = [view.taken EXCEPT ![k] = n] /\ ~view'.locked
    BY <1>1
  <2>2. k \in 1..Len(view.taken) /\ view.taken \in Seq(SnapshotType) /\ n \in SnapshotType
    BY <1>2, <1>3, <1>6
  <2> DEFINE next == [view.taken EXCEPT ![k] = n]
  <2>3. /\ next \in Seq(SnapshotType) /\ Len(next) = Len(view.taken)
        /\ \A i \in 1..Len(view.taken) : next[i] = IF i = k THEN n ELSE view.taken[i]
    BY <2>2, ExceptSeq
  <2> QED BY <2>1, <2>3
<1>9. Handled' = Handled /\ Over' = Over /\ Folded' = Folded
  BY <1>1 DEF Handled, Over, Folded
<1>10. ViewFits'
  <2>1. \A i \in 1..k : Taken(view'.taken[i], Handled, Over, final)
    BY <1>1, <1>2, <1>7, <1>8 DEF ViewFits
  <2>2. ASSUME NEW i \in 1..k PROVE Taken(view.taken[i], Handled, Over, final)'
    <3>1. Taken(view'.taken[i], Handled, Over, final)
      BY <2>1
    <3> QED BY <1>1, <1>9, <3>1 DEF Taken
  <2>3. k = 2 => view'.taken[1].after <= view'.taken[2].before
    <3> SUFFICES ASSUME k = 2 PROVE view'.taken[1].after <= view'.taken[2].before
      OBVIOUS
    <3>1. view'.taken[1] = view.taken[1] /\ view'.taken[2] = n
      BY <1>8
    <3>2. view.taken[1].after <= view.taken[2].before /\ loaded = view.taken[2]
      BY <1>2 DEF ViewFits, loaded
    <3> QED BY <1>6, <3>1, <3>2
  <2> HIDE DEF k
  <2> QED BY <1>2, <1>8, <2>2, <2>3 DEF ViewFits
<1>11. CountsFit' /\ Ring(recent, closed, Over)'
  BY <1>1, <1>9 DEF DispatcherInv, CountsFit, Ring
<1>12. DispatcherTypeOK'
  BY <1>1, <1>8 DEF DispatcherInv, DispatcherTypeOK
<1> QED BY <1>10, <1>11, <1>12 DEF DispatcherInv

LEMMA DispatcherInitially == ASSUME DispatcherInit PROVE DispatcherInv
<1>1. /\ counter \in Counter /\ stage = [s \in Socket |-> "absent"]
      /\ own = [s \in Socket |-> 0] /\ final = [s \in Socket |-> 0]
      /\ total = 0 /\ closed = 0 /\ recent = <<>> /\ Len(recent) = 0
      /\ ~view.locked /\ view.taken = <<>> /\ Len(view.taken) = 0
  BY DEF DispatcherInit
<1>2. DispatcherTypeOK
  BY DEF DispatcherInit, DispatcherTypeOK, Stage
<1>3. Folded = {} /\ own \in Counts /\ final \in Counts
  BY <1>1 DEF Folded, Counts
<1>4. CountsFit
  <2>1. Sum(final, {}) = 0
    BY <1>3, SumOfZeros
  <2> QED BY <1>1, <1>3, <2>1 DEF CountsFit
<1>5. Ring(recent, closed, Over)
  BY <1>1, DispatcherAssumption DEF Ring, Upto
<1>6. ViewFits
  BY <1>1 DEF ViewFits
<1> QED BY <1>2, <1>4, <1>5, <1>6 DEF DispatcherInv

LEMMA DispatcherStep ==
  ASSUME DispatcherInv, [DispatcherNext]_dispatcherVars
  PROVE  DispatcherInv'
<1>1. CASE UNCHANGED dispatcherVars
  <2>1. UNCHANGED <<counter, stage, own, final, total, closed, recent, view>>
    BY <1>1 DEF dispatcherVars
  <2>2. DispatcherTypeOK'
    BY <2>1 DEF DispatcherInv, DispatcherTypeOK
  <2>3. Handled' = Handled /\ Over' = Over /\ Folded' = Folded /\ Active' = Active
    BY <2>1 DEF Handled, Over, Folded, Active
  <2>4. CountsFit' /\ Ring(recent, closed, Over)'
    BY <2>1, <2>3 DEF DispatcherInv, CountsFit, Ring
  <2>5. ViewFits'
    BY <2>1, <2>3 DEF DispatcherInv, ViewFits, Taken, Begun
  <2> QED BY <2>2, <2>4, <2>5 DEF DispatcherInv
<1>2. ASSUME NEW s \in Socket,
             \/ Register(s) \/ End(s) \/ Deregister(s) \/ AddFrames(s)
             \/ RecordLifecycle(s) \/ AddRequests(s) \/ Handle(s)
      PROVE  DispatcherInv'
  BY <1>2, StepRegister, StepEnd, StepAdd, StepRecord, StepHandle
<1>3. CASE LoadCounters \/ AddActive
  BY <1>3, StepLoadCounters, StepAddActive
<1> QED BY <1>1, <1>2, <1>3 DEF DispatcherNext

LEMMA DispatcherInvariant == DispatcherSpec => []DispatcherInv
<1>1. DispatcherInit => DispatcherInv
  BY DispatcherInitially
<1>2. DispatcherInv /\ [DispatcherNext]_dispatcherVars => DispatcherInv'
  BY DispatcherStep
<1> QED BY <1>1, <1>2, PTL DEF DispatcherSpec

(* The types of the counters, the ring and the snapshots.                  *)
THEOREM DispatcherTypeCorrect == DispatcherSpec => []DispatcherTypeOK
<1>1. DispatcherInv => DispatcherTypeOK
  BY DEF DispatcherInv
<1> QED BY <1>1, DispatcherInvariant, PTL

LEMMA DispatcherInvHonest == ASSUME DispatcherInv PROVE SnapshotHonest
<1>1. ViewFits /\ view.taken \in Seq(SnapshotType) /\ Handled \in Nat /\ counter \in Counter
  BY DispatcherTypes DEF DispatcherInv, DispatcherTypeOK
<1>2. ASSUME NEW n \in Snapshots
      PROVE  n \in SnapshotType /\ Taken(n, Handled, Over, final)
  <2>1. PICK i \in 1..(Len(view.taken) - IF view.locked THEN 1 ELSE 0) : n = view.taken[i]
    BY DEF Snapshots
  <2>2. Len(view.taken) \in 0..2
    BY <1>1 DEF ViewFits
  <2>3. i \in 1..Len(view.taken) /\ (i # Len(view.taken) \/ ~view.locked)
    BY <2>2
  <2> QED BY <1>1, <2>1, <2>3 DEF ViewFits
<1>3. \A n \in SnapshotType :
        /\ n.count \in Nat /\ n.before \in Nat /\ n.after \in Nat /\ n.closed \in Nat
        /\ n.recent \in Seq(Socket)
  BY DEF SnapshotType
<1>4. SnapshotWithinTraffic
  BY <1>2, <1>3 DEF SnapshotWithinTraffic, Taken
<1>5. ListedOnceAndCounted
  <2> SUFFICES ASSUME NEW n \in Snapshots
               PROVE  /\ Cardinality(Range(n.recent)) = Len(n.recent)
                      /\ Range(n.recent) \cap n.active = {}
                      /\ Len(n.recent) = Min({n.closed, RingLimit})
                      /\ counter = "frames" => n.count >= Sum(final, Range(n.recent))
    BY DEF ListedOnceAndCounted
  <2>1. n.recent \in Seq(Socket) /\ n.closed \in Nat /\ n.count \in Nat
    BY <1>2, <1>3
  <2>2. Taken(n, Handled, Over, final)
    BY <1>2
  <2>3. Cardinality(Range(n.recent)) = Len(n.recent)
    <3> DEFINE list == n.recent
    <3>1. list \in [1..Len(list) -> Socket] /\ Len(list) \in Nat
      BY <2>1, LenProperties
    <3>2. Range(list) = {list[i] : i \in 1..Len(list)}
      BY <2>1, RangeEquality
    <3>3. \A i, j \in 1..Len(list) : list[i] = list[j] => i = j
      BY <2>2 DEF Taken, Ring
    <3> HIDE DEF list
    <3>4. list \in Bijection(1..Len(list), Range(list))
      BY <3>1, <3>2, <3>3 DEF Bijection, Injection, Surjection, IsInjective
    <3>5. ExistsBijection(1..Len(list), Range(list))
      BY <3>4 DEF ExistsBijection
    <3>6. Cardinality(Range(list)) = Len(list)
      BY <3>1, <3>5, FS_CountingElements
    <3> QED BY <3>6 DEF list
  <2>4. Len(n.recent) = Min({n.closed, RingLimit})
    BY <2>1, <2>2, SmallerOfTwo, DispatcherAssumption DEF Taken, Ring
  <2>5. counter = "frames" => n.count >= Sum(final, Range(n.recent))
    <3>1. Range(n.recent) \in SUBSET Socket
      BY <2>1, RangeOfSeq
    <3>2. Sum(final, Range(n.recent)) \in Nat
      BY <3>1, SumOfTwo, DispatcherTypes
    <3> QED BY <2>1, <2>2, <3>2 DEF Taken
  <2> QED BY <2>2, <2>3, <2>4, <2>5 DEF Taken
<1>6. DeltaIsTraffic
  <2> SUFFICES ASSUME Len(view.taken) = 2, ~view.locked,
                      NEW pre, pre = view.taken[1], NEW post, post = view.taken[2],
                      Clean(pre), Clean(post)
               PROVE  CounterDelta(pre.count, post.count)
                        \in (post.before - pre.after)..(post.after - pre.before)
    BY DEF DeltaIsTraffic
  <2>1. pre \in Snapshots /\ post \in Snapshots
    BY DEF Snapshots
  <2>2. /\ pre \in SnapshotType /\ post \in SnapshotType
        /\ Taken(pre, Handled, Over, final) /\ Taken(post, Handled, Over, final)
        /\ pre.after <= post.before
    BY <1>1, <1>2, <2>1 DEF ViewFits
  <2>3. /\ pre.count <= pre.after /\ pre.before <= pre.count
        /\ post.count <= post.after /\ post.before <= post.count
    BY <2>2 DEF Taken
  <2>4. /\ pre.count \in Nat /\ pre.before \in Nat /\ pre.after \in Nat
        /\ post.count \in Nat /\ post.before \in Nat /\ post.after \in Nat
    BY <1>3, <2>2
  <2> QED BY <2>2, <2>3, <2>4 DEF CounterDelta
<1> QED BY <1>4, <1>5, <1>6 DEF SnapshotHonest

(* For any set of sockets, at any point of their ends and with any limit   *)
(* of the ring: no snapshot counts anything twice, or misses what was      *)
(* handled before it but for the sockets just being folded in; none lists  *)
(* a socket twice; and the difference of two clean ones is what was        *)
(* handled between them.                                                   *)
THEOREM SnapshotsAlwaysHonest == DispatcherSpec => []SnapshotHonest
<1>1. DispatcherInv => SnapshotHonest
  BY DispatcherInvHonest
<1> QED BY <1>1, DispatcherInvariant, PTL
-----------------------------------------------------------------------------
(* The hooks' turn state, for any set of hooks and items.                  *)

OrderedState == {saved \in TurnState : InOrder(saved)}
OrderedFile == OrderedState \cup {NoState} \cup Unparsable
Saving == {"open", "fill", "rename"}

(* Whatever a file or a process holds is a state in order, or no state.    *)
StatesOrdered ==
  /\ turnFile \in OrderedFile /\ tmpFile \in OrderedFile
  /\ history.due \in OrderedState \cup {NoState}
  /\ \A h \in Hook :
       /\ hook[h].op \in {"edit", "list"} => hook[h].item \in Item
       /\ hook[h].at = "reply" => hook[h].op = "list"
       /\ hook[h].at \in Saving => hook[h].op # "inspect" /\ hook[h].result \in OrderedState

(* The lock is the only one's that is inside.                              *)
Exclusive == \A h \in Hook : hook[h].at \in Inside => fileLock = h

(* What the one that saves is about to put in the place of the state.      *)
SavesDue ==
  \A h \in Hook :
    LET call == hook[h]
    IN  /\ call.at \in Saving =>
             /\ call.result = Mutated(call.op, call.item, Loaded(history.due))
             /\ call.epoch = history.epoch
             /\ call.marker <=> /\ call.op = "list"
                                /\ call.item \in CurrentLists(Loaded(history.due))
        /\ call.at = "fill" => call.writes = "tmp" /\ tmpFile = Blank
        /\ call.at = "rename" => tmpFile = call.result

(* Backed, of a given history and given calls.                             *)
BackedIn(past, calls, epoch, item) ==
  \/ <<epoch, item>> \in past.given
  \/ "unsent" \in past.kinds
  \/ \E h \in Hook : /\ calls[h].at \in {"unlock", "reply"} /\ calls[h].op = "list"
                     /\ ~calls[h].marker /\ calls[h].epoch = epoch /\ calls[h].item = item

(* The lists of the current turn have gone out or are about to.            *)
ListsBacked ==
  /\ history.due # NoState =>
       \A item \in CurrentLists(history.due) : BackedIn(history, hook, history.epoch, item)
  /\ \A h \in Hook :
       /\ hook[h].at \in {"unlock", "reply"} /\ hook[h].op = "list" /\ hook[h].marker
       => BackedIn(history, hook, hook[h].epoch, hook[h].item)

Kept == turnFile = history.due /\ Exclusive /\ SavesDue /\ ListsBacked

HookInv == HookTypeOK /\ StatesOrdered /\ (Undisturbed => Kept)

-----------------------------------------------------------------------------
(* The state in memory.                                                    *)

(* The latest n of a sequence end where the sequence ends.                 *)
LEMMA LatestIsSuffix ==
  ASSUME NEW S, NEW s \in Seq(S), NEW n \in Nat \ {0}
  PROVE  LET t == Latest(s, n)
         IN  /\ t \in Seq(S)
             /\ Len(t) = IF Len(s) > n THEN n ELSE Len(s)
             /\ \A i \in 1..Len(t) : t[i] = s[i + Len(s) - Len(t)]
<1>1. CASE Len(s) > n
  <2> DEFINE from == Len(s) - n + 1
  <2>1. Latest(s, n) = SubSeq(s, from, Len(s))
    BY <1>1 DEF Latest
  <2>2. from \in 1..Len(s) /\ Len(s) - from + 1 = n
    BY <1>1
  <2>3. /\ SubSeq(s, from, Len(s)) \in Seq(S)
        /\ Len(SubSeq(s, from, Len(s))) = n
        /\ \A i \in 1..n : SubSeq(s, from, Len(s))[i] = s[from + i - 1]
    BY <2>2
  <2>4. \A i \in 1..n : from + i - 1 = i + Len(s) - n
    OBVIOUS
  <2> QED BY <1>1, <2>1, <2>3, <2>4
<1>2. CASE ~(Len(s) > n)
  <2>1. Latest(s, n) = s
    BY <1>2 DEF Latest
  <2> QED BY <1>2, <2>1
<1> QED BY <1>1, <1>2

(* What is remembered is the new item, or was remembered before.           *)
LEMMA RememberType ==
  ASSUME NEW S, NEW s \in Seq(S), NEW item \in S
  PROVE  /\ Remember(s, item) \in Seq(S)
         /\ ToSet(Remember(s, item)) \subseteq ToSet(s) \cup {item}
<1> DEFINE t == Append(s, item)
           r == Latest(t, MaxItems)
<1>1. CASE item \in ToSet(s)
  BY <1>1 DEF Remember
<1>2. CASE item \notin ToSet(s)
  <2>1. Remember(s, item) = r
    BY <1>2 DEF Remember
  <2>2. t \in Seq(S) /\ Len(t) = Len(s) + 1
    OBVIOUS
  <2>3. \A i \in 1..Len(t) : t[i] \in ToSet(s) \cup {item}
    <3>1. \A i \in 1..Len(s) : t[i] = s[i] /\ s[i] \in ToSet(s)
      BY DEF ToSet
    <3>2. t[Len(t)] = item /\ Len(t) = Len(s) + 1
      OBVIOUS
    <3> QED BY <3>1, <3>2
  <2>4. /\ r \in Seq(S) /\ Len(r) <= Len(t)
        /\ \A i \in 1..Len(r) : r[i] = t[i + Len(t) - Len(r)]
    <3> HIDE DEF t
    <3>1. /\ r \in Seq(S)
          /\ Len(r) = IF Len(t) > MaxItems THEN MaxItems ELSE Len(t)
          /\ \A i \in 1..Len(r) : r[i] = t[i + Len(t) - Len(r)]
      BY <2>2, LatestIsSuffix, HookAssumption
    <3>2. Len(r) <= Len(t)
      BY <2>2, <3>1, HookAssumption
    <3> QED BY <3>1, <3>2
  <2> HIDE DEF r, t
  <2>5. \A i \in 1..Len(r) : i + Len(t) - Len(r) \in 1..Len(t)
    BY <2>2, <2>4
  <2>6. ToSet(r) \subseteq ToSet(s) \cup {item}
    <3>1. ToSet(r) = {r[i] : i \in 1..Len(r)}
      BY <2>4 DEF ToSet
    <3>2. \A i \in 1..Len(r) : r[i] \in ToSet(s) \cup {item}
      BY <2>3, <2>4, <2>5
    <3> QED BY <3>1, <3>2
  <2> QED BY <2>1, <2>4, <2>6
<1> QED BY <1>1, <1>2

LEMMA FirstOrdered ==
  FirstTurn \in OrderedState /\ CurrentLists(FirstTurn) = {}
<1>1. FirstTurn \in TurnState
  BY DEF FirstTurn, NewTurn, TurnState, Turn
<1>2. InOrder(FirstTurn)
  BY HookAssumption DEF InOrder, FirstTurn, NewTurn
<1>3. CurrentIndex(FirstTurn) = 1
  BY DEF CurrentIndex, FirstTurn, NewTurn
<1>4. CurrentLists(FirstTurn) = {}
  BY <1>3 DEF CurrentLists, FirstTurn, NewTurn, ToSet
<1> QED BY <1>1, <1>2, <1>4 DEF OrderedState

LEMMA OrderedParts ==
  ASSUME NEW saved \in OrderedState
  PROVE  LET last == Len(saved.turns)
         IN  /\ saved \in TurnState
             /\ saved.sequence \in Nat /\ saved.current = saved.sequence
             /\ saved.turns \in Seq(Turn)
             /\ last \in 1..MaxTurns /\ last \in Nat /\ DOMAIN saved.turns = 1..last
             /\ \A i \in 1..last : /\ saved.turns[i] \in Turn /\ saved.turns[i].id \in Nat
                                   /\ saved.turns[i].id + last = saved.sequence + i
<1>1. saved \in TurnState /\ InOrder(saved)
  BY DEF OrderedState
<1>2. saved.sequence \in Nat /\ saved.turns \in Seq(Turn)
  BY <1>1 DEF TurnState
<1>3. \A i \in 1..Len(saved.turns) : saved.turns[i] \in Turn /\ saved.turns[i].id \in Nat
  <2> SUFFICES ASSUME NEW i \in 1..Len(saved.turns)
               PROVE  saved.turns[i] \in Turn /\ saved.turns[i].id \in Nat
    OBVIOUS
  <2>1. saved.turns[i] \in Turn
    BY <1>2
  <2> QED BY <2>1 DEF Turn
<1> QED BY <1>1, <1>2, <1>3 DEF InOrder

(* In a state in order the current turn is the last one.                   *)
LEMMA CurrentIsLast ==
  ASSUME NEW saved \in OrderedState
  PROVE  /\ HasCurrent(saved)
         /\ CurrentIndex(saved) = Len(saved.turns)
         /\ CurrentIndex(saved) \in DOMAIN saved.turns
<1> DEFINE last == Len(saved.turns)
           sequence == saved.sequence
           Id(i) == saved.turns[i].id
<1>1. /\ saved.current = sequence /\ sequence \in Nat
      /\ last \in Nat /\ last \in 1..last /\ DOMAIN saved.turns = 1..last
      /\ \A i \in 1..last : Id(i) \in Nat /\ Id(i) + last = sequence + i
  BY HookAssumption, OrderedParts
<1>2. \A i \in 1..last : Id(i) = sequence <=> i = last
  <2> HIDE DEF Id, last, sequence
  <2> QED BY <1>1
<1>3. HasCurrent(saved)
  BY <1>1, <1>2 DEF HasCurrent
<1>4. CurrentIndex(saved) = last
  BY <1>1, <1>2 DEF CurrentIndex
<1> QED BY <1>1, <1>3, <1>4

LEMMA StartTurnOrdered ==
  ASSUME NEW saved \in OrderedState
  PROVE  StartTurn(saved) \in OrderedState /\ CurrentLists(StartTurn(saved)) = {}
<1> DEFINE id == saved.sequence + 1
           old == saved.turns
           all == Append(old, NewTurn(id))
           new == Latest(all, MaxTurns)
           next == StartTurn(saved)
<1>1. /\ saved.sequence \in Nat /\ old \in Seq(Turn) /\ Len(old) \in 1..MaxTurns
      /\ \A i \in 1..Len(old) : old[i].id + Len(old) = saved.sequence + i
      /\ \A i \in 1..Len(old) : old[i].id \in Nat
  BY OrderedParts
<1>2. id \in Nat /\ NewTurn(id) \in Turn /\ NewTurn(id).id = id /\ NewTurn(id).lists = <<>>
  BY <1>1 DEF NewTurn, Turn
<1>3. all \in Seq(Turn) /\ Len(all) = Len(old) + 1
  BY <1>1, <1>2
<1>4. \A i \in 1..Len(all) : all[i].id \in Nat /\ all[i].id + Len(all) = id + i
  <2> SUFFICES ASSUME NEW i \in 1..Len(all)
               PROVE  all[i].id \in Nat /\ all[i].id + Len(all) = id + i
    OBVIOUS
  <2>1. CASE i = Len(all)
    BY <2>1, <1>1, <1>2, <1>3
  <2>2. CASE i \in 1..Len(old)
    <3>1. all[i] = old[i]
      BY <2>2, <1>1, <1>2
    <3>2. old[i].id \in Nat /\ old[i].id + Len(old) = saved.sequence + i
      BY <2>2, <1>1
    <3> DEFINE n == Len(old)
               k == old[i].id
    <3>3. k \in Nat /\ n \in Nat /\ k + n = saved.sequence + i
          /\ i \in Nat /\ saved.sequence \in Nat
      BY <3>2, <2>2, <1>1
    <3>4. Len(all) = n + 1 /\ all[i].id = k
      BY <3>1, <1>3
    <3> HIDE DEF old, all, n, k
    <3>5. k + (n + 1) = (saved.sequence + 1) + i
      BY <3>3
    <3> QED BY <3>3, <3>4, <3>5
  <2> QED BY <2>1, <2>2, <1>1, <1>3
<1>5. all[Len(all)] = NewTurn(id)
  BY <1>1, <1>3
<1> HIDE DEF all
<1>6. /\ new \in Seq(Turn)
      /\ Len(new) = IF Len(all) > MaxTurns THEN MaxTurns ELSE Len(all)
      /\ \A i \in 1..Len(new) : new[i] = all[i + Len(all) - Len(new)]
  BY <1>3, LatestIsSuffix, HookAssumption
<1>7. Len(new) \in 1..MaxTurns /\ Len(new) <= Len(all)
  BY <1>1, <1>3, <1>6, HookAssumption
<1>8. next = [sequence |-> id, current |-> id, turns |-> new]
  BY DEF StartTurn, all
<1> HIDE DEF new, next
<1>9. \A i \in 1..Len(new) : new[i].id + Len(new) = id + i
  <2> SUFFICES ASSUME NEW i \in 1..Len(new)
               PROVE  new[i].id + Len(new) = id + i
    OBVIOUS
  <2> DEFINE j == i + Len(all) - Len(new)
             m == Len(all)
             n == Len(new)
             k == all[j].id
  <2>1. m \in Nat /\ n \in Nat /\ i \in Nat /\ n <= m /\ 1 <= i /\ i <= n
    BY <1>3, <1>6, <1>7
  <2>2. j = i + m - n /\ j \in 1..m
    BY <2>1
  <2>3. new[i] = all[j]
    BY <1>6
  <2>4. k \in Nat /\ k + m = id + j
    BY <1>4, <2>2
  <2>5. new[i].id = k
    BY <2>3
  <2>6. id \in Nat
    BY <1>2
  <2> HIDE DEF j, m, n, k, id
  <2>7. k + n = id + i
    BY <2>1, <2>2, <2>4, <2>6
  <2> QED BY <2>5, <2>7 DEF n
<1>10. next \in OrderedState
  BY <1>2, <1>6, <1>7, <1>8, <1>9 DEF OrderedState, TurnState, InOrder
<1>11. new[Len(new)].lists = <<>>
  BY <1>2, <1>3, <1>5, <1>6, <1>7
<1>12. CurrentLists(next) = {}
  <2>1. next.turns = new
    BY <1>8
  <2>2. CurrentIndex(next) = Len(new)
    BY <1>10, <2>1, CurrentIsLast
  <2>3. CurrentLists(next) = ToSet(new[Len(new)].lists)
    BY <2>1, <2>2 DEF CurrentLists
  <2> QED BY <1>11, <2>3 DEF ToSet
<1> QED BY <1>10, <1>12 DEF next

(* An update of the current turn leaves the state in order.                *)
LEMMA TurnUpdated ==
  ASSUME NEW saved \in OrderedState, NEW turn \in Turn,
         turn.id = saved.turns[CurrentIndex(saved)].id
  PROVE  LET next == [saved EXCEPT !.turns[CurrentIndex(saved)] = turn]
         IN  next \in OrderedState /\ CurrentLists(next) = ToSet(turn.lists)
<1> DEFINE last == Len(saved.turns)
           turns == [saved.turns EXCEPT ![last] = turn]
           next == [saved EXCEPT !.turns[CurrentIndex(saved)] = turn]
<1>1. /\ CurrentIndex(saved) = last /\ last \in 1..last
  BY CurrentIsLast, OrderedParts
<1>2. next = [saved EXCEPT !.turns = turns]
  BY <1>1
<1>3. /\ turns \in Seq(Turn) /\ Len(turns) = last
      /\ \A i \in 1..last : turns[i] = IF i = last THEN turn ELSE saved.turns[i]
  BY <1>1, OrderedParts
<1> HIDE DEF turns
<1>4. next = [sequence |-> saved.sequence, current |-> saved.current, turns |-> turns]
  <2>1. saved \in [sequence : Nat, current : Nat, turns : Seq(Turn)]
    BY DEF OrderedState, TurnState
  <2>2. saved = [sequence |-> saved.sequence, current |-> saved.current,
                 turns |-> saved.turns]
    BY <2>1
  <2>3. [saved EXCEPT !.turns = turns]
          = [sequence |-> saved.sequence, current |-> saved.current, turns |-> turns]
    BY <2>2
  <2> QED BY <1>2, <2>3
<1> HIDE DEF next
<1>5. \A i \in 1..last : turns[i].id = saved.turns[i].id
  BY <1>1, <1>3
<1>6. next \in TurnState
  BY <1>3, <1>4, OrderedParts DEF TurnState
<1>7. InOrder(next)
  BY <1>3, <1>4, <1>5, OrderedParts DEF InOrder
<1>8. next \in OrderedState
  BY <1>6, <1>7 DEF OrderedState
<1>9. CurrentIndex(next) = last
  BY <1>3, <1>4, <1>8, CurrentIsLast
<1>10. CurrentLists(next) = ToSet(turn.lists)
  BY <1>1, <1>3, <1>4, <1>9 DEF CurrentLists
<1> QED BY <1>8, <1>10 DEF next

(* What a call makes of a state in order is in order, and no list comes to *)
(* the current turn but the one that is observed.                          *)
LEMMA MutatedOrdered ==
  ASSUME NEW saved \in OrderedState, NEW op \in Op \ {"inspect"},
         NEW item \in Item \cup {NoItem}, op \in {"edit", "list"} => item \in Item
  PROVE  /\ Mutated(op, item, saved) \in OrderedState
         /\ CurrentLists(Mutated(op, item, saved)) \subseteq
              IF op \in {"session", "turn"} THEN {}
              ELSE CurrentLists(saved) \cup (IF op = "list" THEN {item} ELSE {})
<1> DEFINE i == CurrentIndex(saved)
           turn == saved.turns[i]
<1>1. WithCurrent(saved) = saved
  BY CurrentIsLast DEF WithCurrent
<1>2. turn \in Turn /\ i \in DOMAIN saved.turns
  BY CurrentIsLast, OrderedParts
<1>3. CurrentLists(saved) = ToSet(turn.lists)
  BY DEF CurrentLists
<1>4. CASE op = "session"
  BY <1>4, FirstOrdered DEF Mutated
<1>5. CASE op = "turn"
  BY <1>5, StartTurnOrdered DEF Mutated
<1>6. CASE op = "close"
  <2> DEFINE new == [turn EXCEPT !.closed = TRUE]
  <2>1. Mutated(op, item, saved) = [saved EXCEPT !.turns[i] = new]
    BY <1>1, <1>2, <1>6 DEF Mutated
  <2>2. new \in Turn /\ new.id = turn.id /\ new.lists = turn.lists
    BY <1>2 DEF Turn
  <2> HIDE DEF new
  <2> QED BY <1>3, <1>6, <2>1, <2>2, TurnUpdated
<1>7. CASE op = "edit"
  <2> DEFINE new == [turn EXCEPT !.edited = Remember(@, item)]
  <2>1. Mutated(op, item, saved) = [saved EXCEPT !.turns[i] = new]
    BY <1>1, <1>2, <1>7 DEF Mutated
  <2>2. new \in Turn /\ new.id = turn.id /\ new.lists = turn.lists
    BY <1>2, <1>7, RememberType DEF Turn
  <2> HIDE DEF new
  <2> QED BY <1>3, <1>7, <2>1, <2>2, TurnUpdated
<1>8. CASE op = "list"
  <2> DEFINE new == [turn EXCEPT !.lists = Remember(@, item)]
  <2>1. Mutated(op, item, saved) = [saved EXCEPT !.turns[i] = new]
    BY <1>1, <1>2, <1>8 DEF Mutated
  <2>2. turn.lists \in Seq(Item)
    BY <1>2 DEF Turn
  <2>3. /\ Remember(turn.lists, item) \in Seq(Item)
        /\ ToSet(Remember(turn.lists, item)) \subseteq ToSet(turn.lists) \cup {item}
    BY <1>8, <2>2, RememberType
  <2>4. new \in Turn /\ new.id = turn.id /\ new.lists = Remember(turn.lists, item)
    BY <1>2, <2>3 DEF Turn
  <2> HIDE DEF new
  <2> QED BY <1>3, <1>8, <2>1, <2>3, <2>4, TurnUpdated
<1> QED BY <1>4, <1>5, <1>6, <1>7, <1>8 DEF Op

(* A list that is remembered already changes nothing.                      *)
LEMMA RepeatedUnchanged ==
  ASSUME NEW saved \in OrderedState, NEW item \in CurrentLists(saved)
  PROVE  CurrentLists(Mutated("list", item, saved)) = CurrentLists(saved)
<1> DEFINE i == CurrentIndex(saved)
           turn == saved.turns[i]
           new == [turn EXCEPT !.lists = Remember(@, item)]
<1>1. WithCurrent(saved) = saved
  BY CurrentIsLast DEF WithCurrent
<1>2. turn \in Turn /\ i \in DOMAIN saved.turns
  BY CurrentIsLast, OrderedParts
<1>3. CurrentLists(saved) = ToSet(turn.lists)
  BY DEF CurrentLists
<1>4. Remember(turn.lists, item) = turn.lists
  BY <1>3 DEF Remember
<1>5. new \in Turn /\ new.id = turn.id /\ new.lists = turn.lists
  BY <1>2, <1>4 DEF Turn
<1>6. Mutated("list", item, saved) = [saved EXCEPT !.turns[i] = new]
  BY <1>1, <1>2 DEF Mutated
<1> HIDE DEF new
<1> QED BY <1>3, <1>5, <1>6, TurnUpdated

-----------------------------------------------------------------------------
(* Every variable keeps its type, and every state its order.               *)

LEMMA LoadedOrdered ==
  ASSUME NEW content \in OrderedFile, content \notin Unparsable
  PROVE  Loaded(content) \in OrderedState
  BY FirstOrdered DEF Loaded, OrderedFile

LEMMA OrderedIsFile == OrderedState \subseteq OrderedFile /\ OrderedFile \subseteq TurnFile
  BY DEF OrderedState, OrderedFile, TurnFile

(* What the saving of a call adds to what is due.                          *)
LEMMA DueOrdered ==
  ASSUME HookTypeOK, StatesOrdered, NEW h \in Hook, hook[h].at \in Saving
  PROVE  Mutated(hook[h].op, hook[h].item, Loaded(history.due)) \in OrderedState
<1>1. Loaded(history.due) \in OrderedState
  BY FirstOrdered DEF StatesOrdered, Loaded
<1>2. hook[h].op \in Op \ {"inspect"} /\ hook[h].item \in Item \cup {NoItem}
  BY DEF HookTypeOK, StatesOrdered, Call
<1>3. hook[h].op \in {"edit", "list"} => hook[h].item \in Item
  BY DEF StatesOrdered
<1> QED BY <1>1, <1>2, <1>3, MutatedOrdered

LEMMA NoCallType ==
  NoCall \in Call /\ NoCall.at = "idle" /\ NoCall.op = "inspect"
  BY DEF NoCall, Call, Op, TurnFile

LEMMA AbandonedType ==
  LET left == [NoCall EXCEPT !.at = "unlock"]
  IN  left \in Call /\ left.at = "unlock" /\ left.op = "inspect"
  BY DEF NoCall, Call, Op, TurnFile, Inside

LEMMA HookTypeInit == HookInit => HookTypeOK /\ StatesOrdered
<1> SUFFICES ASSUME HookInit PROVE HookTypeOK /\ StatesOrdered
  OBVIOUS
<1>1. history \in History /\ history.due = NoState
  BY DEF HookInit, History, TurnFile
<1>2. hook \in [Hook -> Call] /\ \A h \in Hook : hook[h] = NoCall
  BY NoCallType DEF HookInit
<1>3. HookTypeOK
  BY <1>1, <1>2 DEF HookInit, HookTypeOK, TurnFile
<1>4. StatesOrdered
  BY <1>1, <1>2, NoCallType DEF HookInit, StatesOrdered, OrderedFile, Saving
<1> QED BY <1>3, <1>4

(* A call that moves on, and changes no file but the lock.                 *)
LEMMA CallMoves ==
  ASSUME HookTypeOK, StatesOrdered, NEW h \in Hook, NEW c \in Call,
         hook' = [hook EXCEPT ![h] = c], UNCHANGED <<turnFile, tmpFile>>,
         history' \in History, history'.due = history.due,
         fileLock' \in Hook \cup {NoLockFile, Orphan}, lockOld' \in BOOLEAN,
         c.op \in {"edit", "list"} => c.item \in Item, c.at # "reply",
         c.at \in Saving => c.op # "inspect" /\ c.result \in OrderedState
  PROVE  HookTypeOK' /\ StatesOrdered'
<1>1. hook' \in [Hook -> Call]
  BY DEF HookTypeOK
<1>2. HookTypeOK'
  BY <1>1 DEF HookTypeOK
<1>3. ASSUME NEW g \in Hook
      PROVE  /\ hook'[g].op \in {"edit", "list"} => hook'[g].item \in Item
             /\ hook'[g].at = "reply" => hook'[g].op = "list"
             /\ hook'[g].at \in Saving => /\ hook'[g].op # "inspect"
                                          /\ hook'[g].result \in OrderedState
  <2>1. CASE g = h
    <3>1. hook'[g] = c
      BY <2>1 DEF HookTypeOK
    <3> QED BY <3>1
  <2>2. CASE g # h
    <3>1. hook'[g] = hook[g]
      BY <2>2 DEF HookTypeOK
    <3> QED BY <3>1 DEF StatesOrdered
  <2> QED BY <2>1, <2>2
<1>4. StatesOrdered'
  BY <1>3 DEF StatesOrdered
<1> QED BY <1>2, <1>4

LEMMA CallGoes ==
  ASSUME HookTypeOK, StatesOrdered, NEW h \in Hook, NEW place \in {"wait", "takeover", "load"},
         HookGoes(h, place), UNCHANGED <<turnFile, tmpFile>>,
         history' \in History, history'.due = history.due,
         fileLock' \in Hook \cup {NoLockFile, Orphan}, lockOld' \in BOOLEAN
  PROVE  HookTypeOK' /\ StatesOrdered'
<1> DEFINE call == hook[h]
           c == [call EXCEPT !.at = place]
<1>1. call \in Call /\ (call.op \in {"edit", "list"} => call.item \in Item)
  BY DEF HookTypeOK, StatesOrdered
<1> HIDE DEF call
<1>2. hook' = [hook EXCEPT ![h] = c]
  BY DEF HookGoes, call
<1>3. /\ c \in Call /\ c.op = call.op /\ c.item = call.item
      /\ c.at # "reply" /\ c.at \notin Saving
  BY <1>1 DEF Call, Inside, Saving
<1> HIDE DEF c
<1> QED BY <1>1, <1>2, <1>3, CallMoves

LEMMA HookTypeStep ==
  ASSUME HookTypeOK, StatesOrdered, [HookNext]_hookVars
  PROVE  HookTypeOK' /\ StatesOrdered'
<1> USE DEF HookTypeOK, StatesOrdered
<1>1. ASSUME NEW h \in Hook, NEW op \in Op, NEW item \in Item \cup {NoItem},
             CallHook(h, op, item)
      PROVE  HookTypeOK' /\ StatesOrdered'
  <2>1. history' \in History /\ history'.due = history.due
    BY <1>1 DEF CallHook, History
  <2>2. /\ hook' = [hook EXCEPT ![h] = hook'[h]] /\ hook'[h] \in Call
        /\ hook'[h].at = "wait" /\ hook'[h].op = op /\ hook'[h].item = item
    BY <1>1 DEF CallHook, NoCall, Call, TurnFile
  <2>3. op \in {"edit", "list"} => item \in Item
    BY <1>1 DEF CallHook
  <2> QED BY <1>1, <2>1, <2>2, <2>3 DEF CallHook, Saving
<1>2. ASSUME NEW h \in Hook, TakeLock(h)
      PROVE  HookTypeOK' /\ StatesOrdered'
  BY <1>2, CallGoes DEF TakeLock
<1>3. ASSUME NEW h \in Hook, GiveUp(h)
      PROVE  HookTypeOK' /\ StatesOrdered'
  <2>1. /\ hook' = [hook EXCEPT ![h] = NoCall]
        /\ UNCHANGED <<turnFile, tmpFile, fileLock, lockOld, history>>
    BY <1>3 DEF GiveUp
  <2>2. NoCall.at # "reply" /\ NoCall.at \notin Saving
    BY NoCallType DEF Saving
  <2> QED BY <2>1, <2>2, NoCallType, CallMoves
<1>4. ASSUME NEW h \in Hook, FindOld(h)
      PROVE  HookTypeOK' /\ StatesOrdered'
  BY <1>4, CallGoes DEF FindOld
<1>5. ASSUME NEW h \in Hook, RemoveOld(h)
      PROVE  HookTypeOK' /\ StatesOrdered'
  <2>1. history' \in History /\ history'.due = history.due
    BY <1>5 DEF RemoveOld, History, Happens
  <2> QED BY <1>5, <2>1, CallGoes DEF RemoveOld
<1>6. ASSUME NEW h \in Hook, LoadBroken(h)
      PROVE  HookTypeOK' /\ StatesOrdered'
  <2>1. /\ hook' = [hook EXCEPT ![h] = [NoCall EXCEPT !.at = "unlock"]]
        /\ UNCHANGED <<turnFile, tmpFile, fileLock, lockOld, history>>
    BY <1>6 DEF LoadBroken, Abandons
  <2> QED BY <2>1, AbandonedType, CallMoves DEF Saving
<1>7. ASSUME NEW h \in Hook, LoadState(h)
      PROVE  HookTypeOK' /\ StatesOrdered'
  <2> DEFINE call == hook[h]
             result == Mutated(call.op, call.item, Loaded(turnFile))
             marker == call.op = "list" /\ Repeated(call.item, Loaded(turnFile))
  <2>1. call \in Call /\ history.epoch \in Nat /\ marker \in BOOLEAN
    BY DEF History
  <2>2. CASE call.op = "inspect"
    <3> HIDE DEF call
    <3>1. /\ hook' = [hook EXCEPT ![h] = [call EXCEPT !.at = "unlock"]]
          /\ UNCHANGED <<turnFile, tmpFile, fileLock, lockOld, history>>
      BY <1>7, <2>2 DEF LoadState, call
    <3> DEFINE c == [call EXCEPT !.at = "unlock"]
    <3>2. c \in Call /\ c.at = "unlock" /\ c.op = "inspect"
      BY <2>1, <2>2 DEF Call, Inside
    <3> HIDE DEF c
    <3> QED BY <3>1, <3>2, CallMoves DEF c, Saving
  <2>3. CASE call.op # "inspect"
    <3>1. result \in OrderedState /\ result \in TurnFile
      BY <1>7, <2>1, <2>3, LoadedOrdered, MutatedOrdered, OrderedIsFile DEF LoadState, Call
    <3>2. hook' = [hook EXCEPT ![h] = [call EXCEPT !.at = "open", !.result = result,
                                        !.marker = marker, !.epoch = history.epoch]]
      BY <1>7, <2>3 DEF LoadState
    <3>3. UNCHANGED <<turnFile, tmpFile, fileLock, lockOld, history>>
      BY <1>7 DEF LoadState
    <3> DEFINE c == [call EXCEPT !.at = "open", !.result = result,
                                 !.marker = marker, !.epoch = history.epoch]
    <3>4. call.op \in {"edit", "list"} => call.item \in Item
      OBVIOUS
    <3> HIDE DEF result, marker, call
    <3>5. c \in Call /\ c.at = "open" /\ c.op = call.op /\ c.item = call.item
          /\ c.result = result
      BY <2>1, <3>1 DEF Call, Inside
    <3> HIDE DEF c
    <3>6. hook' = [hook EXCEPT ![h] = c]
      BY <3>2 DEF c
    <3> QED BY <2>3, <3>1, <3>3, <3>4, <3>5, <3>6, CallMoves
  <2> QED BY <2>2, <2>3
<1>8. ASSUME NEW h \in Hook, OpenTmp(h)
      PROVE  HookTypeOK' /\ StatesOrdered'
  <2>1. hook' \in [Hook -> Call]
    <3>1. hook' = [hook EXCEPT ![h] = [hook[h] EXCEPT !.at = "fill", !.writes = "tmp"]]
      BY <1>8 DEF OpenTmp
    <3> DEFINE call == hook[h]
    <3>2. call \in Call
      OBVIOUS
    <3> HIDE DEF call
    <3>3. [call EXCEPT !.at = "fill", !.writes = "tmp"] \in Call
      BY <3>2 DEF Call, Inside
    <3> QED BY <3>1, <3>3 DEF call
  <2>2. tmpFile' \in OrderedFile
    BY <1>8 DEF OpenTmp, OrderedFile, Unparsable
  <2>3. \A g \in Hook : /\ hook'[g].op = hook[g].op /\ hook'[g].item = hook[g].item
                        /\ hook'[g].result = hook[g].result
                        /\ hook'[g].at \in Saving => hook[g].at \in Saving
    BY <1>8 DEF OpenTmp, HookAt, Call, Saving
  <2> QED BY <1>8, <2>1, <2>2, <2>3, OrderedIsFile DEF OpenTmp
<1>9. ASSUME NEW h \in Hook, FillTmp(h)
      PROVE  HookTypeOK' /\ StatesOrdered'
  <2>1. hook[h].result \in OrderedState /\ Garbled \in OrderedFile
    BY <1>9 DEF FillTmp, HookAt, Saving, OrderedFile, Unparsable
  <2>2. turnFile' \in OrderedFile /\ tmpFile' \in OrderedFile
    BY <1>9, <2>1, OrderedIsFile DEF FillTmp, Filled
  <2>3. UNCHANGED <<fileLock, lockOld, history>> /\ HookGoes(h, "rename") /\ HookAt(h, "fill")
    BY <1>9 DEF FillTmp
  <2> QED BY <2>2, <2>3, OrderedIsFile DEF HookAt, HookGoes, Call, Inside, Saving
<1>10. ASSUME NEW h \in Hook, RenameTmp(h)
       PROVE  HookTypeOK' /\ StatesOrdered'
  <2> DEFINE due == Mutated(hook[h].op, hook[h].item, Loaded(history.due))
  <2>1. due \in OrderedState
    BY <1>10, DueOrdered DEF RenameTmp, HookAt, Saving
  <2>2. /\ turnFile' = tmpFile /\ tmpFile' = NoState
        /\ UNCHANGED <<fileLock, lockOld>>
        /\ history' = [history EXCEPT
             !.due = due, !.epoch = IF hook[h].op \in {"session", "turn"} THEN @ + 1 ELSE @]
    BY <1>10 DEF RenameTmp
  <2> HIDE DEF due
  <2>3. history' \in History /\ history'.due = due
    <3>1. due \in TurnFile
      BY <2>1, OrderedIsFile
    <3> DEFINE epoch == IF hook[h].op \in {"session", "turn"} THEN history.epoch + 1
                        ELSE history.epoch
    <3>2. epoch \in Nat
      BY DEF History
    <3>3. history' = [history EXCEPT !.due = due, !.epoch = epoch]
      BY <2>2
    <3> HIDE DEF epoch
    <3> QED BY <3>1, <3>2, <3>3 DEF History
  <2>4. \A g \in Hook :
          /\ hook'[g] \in Call
          /\ hook'[g].op = hook[g].op /\ hook'[g].item = hook[g].item
          /\ hook'[g].at \in {hook[g].at, "unlock"} /\ hook'[g].result = hook[g].result
    BY <1>10 DEF RenameTmp, Call, Inside
  <2>5. hook' \in [Hook -> Call]
    BY <1>10, <2>4 DEF RenameTmp
  <2> QED BY <2>1, <2>2, <2>3, <2>4, <2>5 DEF TurnFile, OrderedFile, Saving
<1>11. ASSUME NEW h \in Hook, RenameFails(h)
       PROVE  HookTypeOK' /\ StatesOrdered'
  <2>1. /\ hook' = [hook EXCEPT ![h] = [NoCall EXCEPT !.at = "unlock"]]
        /\ UNCHANGED <<turnFile, tmpFile, fileLock, lockOld, history>>
    BY <1>11 DEF RenameFails, Abandons
  <2> QED BY <2>1, AbandonedType, CallMoves DEF Saving
<1>12. ASSUME NEW h \in Hook, SaveFails(h)
       PROVE  HookTypeOK' /\ StatesOrdered'
  <2>1. history' \in History /\ history'.due = history.due
    BY <1>12 DEF SaveFails, History
  <2>2. /\ hook' \in [Hook -> Call]
        /\ \A g \in Hook : hook'[g] = hook[g] \/ hook'[g] = [NoCall EXCEPT !.at = "unlock"]
    BY <1>12, NoCallType DEF SaveFails, Abandons, Call, Inside
  <2> QED BY <1>12, <2>1, <2>2, NoCallType DEF SaveFails, Saving, NoCall
<1>13. ASSUME NEW h \in Hook, Release(h)
       PROVE  HookTypeOK' /\ StatesOrdered'
  <2>1. /\ hook' \in [Hook -> Call]
        /\ \A g \in Hook : \/ hook'[g] = hook[g] \/ hook'[g] = NoCall
                           \/ /\ hook[g].op = "list"
                              /\ hook'[g] = [hook[g] EXCEPT !.at = "reply"]
    BY <1>13, NoCallType DEF Release, Call
  <2>2. \A g \in Hook : hook[g] \in Call
    OBVIOUS
  <2>3. UNCHANGED <<turnFile, tmpFile, history>> /\ fileLock' = NoLockFile /\ lockOld' = FALSE
    BY <1>13 DEF Release
  <2>4. \A g \in Hook :
          /\ hook'[g].op \in {"edit", "list"} => hook'[g].item \in Item
          /\ hook'[g].at = "reply" => hook'[g].op = "list"
          /\ hook'[g].at \in Saving => hook'[g] = hook[g]
    BY <2>1, <2>2, NoCallType DEF Call, Saving
  <2> QED BY <2>1, <2>3, <2>4
<1>14. ASSUME NEW h \in Hook, ReplyList(h)
       PROVE  HookTypeOK' /\ StatesOrdered'
  <2>1. hook' \in [Hook -> Call] /\ UNCHANGED <<turnFile, tmpFile, fileLock, lockOld>>
    BY <1>14 DEF ReplyList, HookAt, NoCall, Call, Inside, Op, TurnFile
  <2>2. /\ history' \in History /\ history'.due = history.due
    <3>1. hook[h].epoch \in Nat /\ hook[h].op \in Op /\ hook[h].item \in Item \cup {NoItem}
      BY DEF Call
    <3>2. hook[h].item \in Item
      BY <1>14 DEF ReplyList, HookAt
    <3> QED BY <1>14, <3>1, <3>2 DEF ReplyList, History
  <2> QED BY <1>14, <2>1, <2>2 DEF ReplyList, NoCall, Saving
<1>15. ASSUME NEW h \in Hook, HookDies(h)
       PROVE  HookTypeOK' /\ StatesOrdered'
  <2>1. history' \in History /\ history'.due = history.due
    <3> DEFINE kinds == Happens("unsent", hook[h].op = "list" /\ hook[h].at \in {"unlock", "reply"})
    <3>1. kinds \in SUBSET {"slow", "raced", "unsent"}
      BY DEF Happens, History
    <3> DEFINE spoils == history.upsets + 1
    <3>2. history' = [history EXCEPT !.upsets = spoils, !.kinds = kinds] /\ spoils \in Nat
      BY <1>15 DEF HookDies, History
    <3> HIDE DEF kinds, spoils
    <3> QED BY <3>1, <3>2 DEF History
  <2>2. /\ hook' \in [Hook -> Call]
        /\ \A g \in Hook : hook'[g] = hook[g] \/ hook'[g] = NoCall
    BY <1>15, NoCallType DEF HookDies
  <2> QED BY <1>15, <2>1, <2>2, NoCallType DEF HookDies, Saving
<1>16. CASE HookLockAges
  BY <1>16 DEF HookLockAges, History
<1>17. CASE UNCHANGED hookVars
  BY <1>17 DEF hookVars
<1> QED
  BY <1>1, <1>2, <1>3, <1>4, <1>5, <1>6, <1>7, <1>8, <1>9, <1>10, <1>11, <1>12, <1>13,
     <1>14, <1>15, <1>16, <1>17 DEF HookNext

(* Every variable of the turn state keeps its type, for every set of hooks.*)
THEOREM HookTypeCorrect == HookSpec => []HookTypeOK
<1>1. HookInit => HookTypeOK /\ StatesOrdered
  BY HookTypeInit
<1>2. HookTypeOK /\ StatesOrdered /\ [HookNext]_hookVars => HookTypeOK' /\ StatesOrdered'
  BY HookTypeStep
<1> QED BY <1>1, <1>2, PTL DEF HookSpec

-----------------------------------------------------------------------------
(* As long as nothing disturbs the lock, the file is what is due.          *)

(* Backing outlasts a step that takes away neither what has gone out nor a *)
(* list on its way.                                                        *)
LEMMA BackedStays ==
  ASSUME NEW epoch, NEW item, BackedIn(history, hook, epoch, item),
         history.given \subseteq history'.given, history.kinds \subseteq history'.kinds,
         \A h \in Hook :
           /\ hook[h].at \in {"unlock", "reply"} /\ hook[h].op = "list" /\ ~hook[h].marker
           => \/ /\ hook'[h].at \in {"unlock", "reply"} /\ hook'[h].op = "list"
                 /\ ~hook'[h].marker /\ hook'[h].epoch = hook[h].epoch
                 /\ hook'[h].item = hook[h].item
              \/ <<hook[h].epoch, hook[h].item>> \in history'.given
              \/ "unsent" \in history'.kinds
  PROVE  BackedIn(history', hook', epoch, item)
  BY DEF BackedIn

(* A step by which a process leaves without an answer, or one that is not  *)
(* inside yet gets on.                                                     *)
LEMMA OutsideStep ==
  ASSUME HookInv, HookTypeOK', NEW h \in Hook, Undisturbed,
         \A g \in Hook \ {h} : hook'[g] = hook[g],
         hook'[h].at \notin Inside \cup {"reply"},
         hook[h].at \notin {"unlock", "reply"},
         fileLock' = fileLock, UNCHANGED <<turnFile, tmpFile>>,
         history'.due = history.due, history'.epoch = history.epoch,
         history'.given = history.given, history.kinds \subseteq history'.kinds
  PROVE  Kept'
<1> USE DEF HookInv, Kept
<1>1. Exclusive'
  BY DEF Exclusive, Inside
<1>2. SavesDue'
  BY DEF SavesDue, Saving, Inside
<1>3. ListsBacked'
  BY BackedStays DEF ListsBacked, Inside
<1> QED BY <1>1, <1>2, <1>3

(* A step after which the lock is nobody's: the process is done with it.   *)
LEMMA InsideStep ==
  ASSUME HookInv, HookTypeOK', NEW h \in Hook, Undisturbed, hook[h].at \in Inside,
         \A g \in Hook \ {h} : hook'[g] = hook[g],
         hook'[h].at \notin Saving,
         \/ fileLock' = fileLock
         \/ hook'[h].at \notin Inside,
         turnFile' = turnFile,
         history'.due = history.due, history'.epoch = history.epoch,
         ListsBacked'
  PROVE  Kept'
<1> USE DEF HookInv, Kept
<1>1. \A g \in Hook : hook[g].at \in Inside => g = h
  BY DEF Exclusive
<1>2. Exclusive'
  BY <1>1 DEF Exclusive
<1>3. SavesDue'
  BY <1>1 DEF SavesDue, Saving, Inside
<1> QED BY <1>2, <1>3

(* The error path.                                                         *)
LEMMA AbandonStep ==
  ASSUME HookInv, HookTypeOK', NEW h \in Hook, Undisturbed, hook[h].at \in Saving \cup {"load"},
         Abandons(h), UNCHANGED <<turnFile, tmpFile, fileLock>>,
         history'.due = history.due, history'.epoch = history.epoch,
         history'.given = history.given, history'.kinds = history.kinds
  PROVE  Kept'
<1>1. hook'[h].at = "unlock" /\ hook'[h].op = "inspect"
  BY DEF Abandons, NoCall, HookInv, HookTypeOK
<1>2. \A g \in Hook \ {h} : hook'[g] = hook[g]
  BY DEF Abandons, HookInv, HookTypeOK
<1>3. ListsBacked'
  BY <1>1, <1>2, BackedStays DEF HookInv, Kept, ListsBacked, Saving
<1> QED BY <1>1, <1>2, <1>3, InsideStep DEF Saving, Inside

LEMMA KeptInit == HookInit => Kept
  BY DEF HookInit, Kept, Exclusive, SavesDue, ListsBacked, NoCall, Inside, Saving

LEMMA KeptStep ==
  ASSUME HookInv, HookTypeOK', StatesOrdered', [HookNext]_hookVars, Undisturbed'
  PROVE  Kept'
<1> USE DEF HookInv
<1>0. Undisturbed /\ history.kinds \subseteq history'.kinds
  <2>1. history.kinds \subseteq history'.kinds
    <3> USE DEF HookTypeOK, History
    <3>1. ASSUME NEW h \in Hook, NEW op \in Op, NEW item \in Item \cup {NoItem},
                 CallHook(h, op, item)
          PROVE  history.kinds \subseteq history'.kinds
      BY <3>1 DEF CallHook
    <3>2. ASSUME NEW h \in Hook, RenameTmp(h)
          PROVE  history.kinds \subseteq history'.kinds
      BY <3>2 DEF RenameTmp
    <3>3. ASSUME NEW h \in Hook, RemoveOld(h)
          PROVE  history.kinds \subseteq history'.kinds
      BY <3>3 DEF RemoveOld, Happens
    <3>8. ASSUME NEW h \in Hook, HookDies(h)
          PROVE  history.kinds \subseteq history'.kinds
      BY <3>8 DEF HookDies, Happens
    <3>4. ASSUME NEW h \in Hook, SaveFails(h) \/ ReplyList(h)
          PROVE  history.kinds \subseteq history'.kinds
      BY <3>4 DEF SaveFails, ReplyList
    <3>5. ASSUME NEW h \in Hook,
                 \/ TakeLock(h) \/ GiveUp(h) \/ FindOld(h) \/ LoadBroken(h) \/ LoadState(h)
                 \/ OpenTmp(h) \/ FillTmp(h) \/ RenameFails(h) \/ Release(h)
          PROVE  history' = history
      BY <3>5 DEF TakeLock, GiveUp, FindOld, LoadBroken, LoadState, OpenTmp, FillTmp,
                  RenameFails, Release
    <3>6. CASE HookLockAges
      BY <3>6 DEF HookLockAges
    <3>7. CASE UNCHANGED hookVars
      BY <3>7 DEF hookVars
    <3> QED BY <3>1, <3>2, <3>3, <3>4, <3>5, <3>6, <3>7, <3>8 DEF HookNext
  <2> QED BY <2>1 DEF Undisturbed
<1>1. ASSUME NEW h \in Hook, NEW op \in Op, NEW item \in Item \cup {NoItem},
             CallHook(h, op, item)
      PROVE  Kept'
  <2>1. /\ hook'[h].at = "wait" /\ hook[h].at = "idle"
        /\ \A g \in Hook \ {h} : hook'[g] = hook[g]
    BY <1>1 DEF CallHook, HookAt, HookTypeOK, NoCall
  <2>2. /\ history'.due = history.due /\ history'.epoch = history.epoch
        /\ history'.given = history.given
    BY <1>1 DEF CallHook, HookTypeOK, History
  <2> QED BY <1>0, <1>1, <2>1, <2>2, OutsideStep DEF CallHook, Inside
<1>2. ASSUME NEW h \in Hook, TakeLock(h)
      PROVE  Kept'
  <2>1. \A g \in Hook : hook[g].at \notin Inside
    BY <1>0, <1>2, HookAssumption DEF TakeLock, Kept, Exclusive
  <2>2. /\ \A g \in Hook \ {h} : hook'[g] = hook[g]
        /\ hook[h].at = "wait" /\ hook'[h].at = "load" /\ fileLock' = h
        /\ UNCHANGED <<turnFile, tmpFile, history>>
    BY <1>2 DEF TakeLock, HookAt, HookGoes, HookTypeOK, Call
  <2>3. Exclusive' /\ SavesDue'
    BY <2>1, <2>2 DEF Exclusive, SavesDue, Saving, Inside
  <2>4. ListsBacked'
    BY <1>0, <2>2, BackedStays DEF Kept, ListsBacked
  <2> QED BY <1>0, <2>2, <2>3, <2>4 DEF Kept
<1>3. ASSUME NEW h \in Hook, GiveUp(h)
      PROVE  Kept'
  <2>1. /\ hook'[h].at = "idle" /\ hook[h].at = "wait"
        /\ \A g \in Hook \ {h} : hook'[g] = hook[g]
    BY <1>3 DEF GiveUp, HookAt, HookTypeOK, NoCall
  <2> QED BY <1>0, <1>3, <2>1, OutsideStep DEF GiveUp, Inside
<1>4. ASSUME NEW h \in Hook, FindOld(h)
      PROVE  Kept'
  <2>1. /\ hook'[h].at = "takeover" /\ hook[h].at = "wait"
        /\ \A g \in Hook \ {h} : hook'[g] = hook[g]
    BY <1>4 DEF FindOld, HookAt, HookGoes, HookTypeOK, Call
  <2> QED BY <1>0, <1>4, <2>1, OutsideStep DEF FindOld, Inside
<1>5. ASSUME NEW h \in Hook, RemoveOld(h)
      PROVE  Kept'
  <2>1. fileLock \notin Hook
    BY <1>5 DEF RemoveOld, Happens, Undisturbed, HookTypeOK, History
  <2>2. \A g \in Hook : hook[g].at \notin Inside
    BY <1>0, <2>1 DEF Kept, Exclusive
  <2>3. /\ \A g \in Hook \ {h} : hook'[g] = hook[g]
        /\ hook[h].at = "takeover" /\ hook'[h].at = "wait"
        /\ UNCHANGED <<turnFile, tmpFile>>
        /\ history'.due = history.due /\ history'.epoch = history.epoch
        /\ history'.given = history.given
    BY <1>5 DEF RemoveOld, HookAt, HookGoes, HookTypeOK, Call, History
  <2>4. Exclusive' /\ SavesDue'
    BY <2>2, <2>3 DEF Exclusive, SavesDue, Saving, Inside
  <2>5. ListsBacked'
    BY <1>0, <2>3, BackedStays DEF Kept, ListsBacked
  <2> QED BY <1>0, <2>3, <2>4, <2>5 DEF Kept
<1>6. ASSUME NEW h \in Hook, LoadBroken(h)
      PROVE  Kept'
  BY <1>0, <1>6, AbandonStep DEF LoadBroken, HookAt
<1>7. ASSUME NEW h \in Hook, LoadState(h)
      PROVE  Kept'
  <2> DEFINE call == hook[h]
             saved == Loaded(turnFile)
             result == Mutated(call.op, call.item, saved)
             marker == call.op = "list" /\ Repeated(call.item, saved)
  <2>1. /\ call.at = "load" /\ turnFile = history.due
        /\ \A g \in Hook \ {h} : hook'[g] = hook[g]
        /\ UNCHANGED <<turnFile, tmpFile, fileLock, lockOld, history>>
    BY <1>0, <1>7 DEF LoadState, HookAt, HookTypeOK, Kept
  <2>2. \A g \in Hook : hook[g].at \in Inside => g = h
    BY <1>0, <2>1 DEF Kept, Exclusive, Inside
  <2>3. CASE call.op = "inspect"
    <3>1. hook'[h].at = "unlock" /\ hook'[h].op = "inspect"
      BY <1>7, <2>3 DEF LoadState, HookTypeOK, Call
    <3>2. ListsBacked'
      BY <1>0, <2>1, <3>1, BackedStays DEF Kept, ListsBacked
    <3> QED BY <1>0, <2>1, <3>1, <3>2, InsideStep DEF Inside, Saving
  <2>4. CASE call.op # "inspect"
    <3>1. saved \in OrderedState
      BY <1>7, LoadedOrdered DEF LoadState, StatesOrdered
    <3>2. /\ hook'[h].at = "open" /\ hook'[h].result = result
          /\ hook'[h].epoch = history.epoch /\ hook'[h].marker = marker
          /\ hook'[h].op = call.op /\ hook'[h].item = call.item
      <4> HIDE DEF result, marker, saved
      <4>1. call \in Call
        BY DEF HookTypeOK
      <4>2. hook'[h] = [call EXCEPT !.at = "open", !.result = result,
                                    !.marker = marker, !.epoch = history.epoch]
        BY <1>7, <2>4 DEF LoadState, result, marker, saved, HookTypeOK
      <4> QED BY <4>1, <4>2 DEF Call
    <3>3. marker <=> call.op = "list" /\ call.item \in CurrentLists(saved)
      BY <3>1, CurrentIsLast DEF Repeated
    <3>4. Exclusive'
      BY <1>0, <2>1, <3>2 DEF Kept, Exclusive, Inside
    <3>5. SavesDue'
      <4> HIDE DEF result, marker
      <4>1. result = Mutated(call.op, call.item, Loaded(history.due))
        BY <2>1 DEF result
      <4>2. marker <=> call.op = "list" /\ call.item \in CurrentLists(Loaded(history.due))
        BY <2>1, <3>3
      <4> QED BY <2>1, <2>2, <3>2, <4>1, <4>2 DEF SavesDue, Saving, Inside
    <3>6. ListsBacked'
      BY <1>0, <2>1, <3>2, BackedStays DEF Kept, ListsBacked
    <3> QED BY <2>1, <3>4, <3>5, <3>6 DEF Kept
  <2> QED BY <2>3, <2>4
<1>8. ASSUME NEW h \in Hook, OpenTmp(h)
      PROVE  Kept'
  <2>1. /\ hook[h].at = "open" /\ hook'[h].at = "fill" /\ hook'[h].writes = "tmp"
        /\ hook'[h] = [hook[h] EXCEPT !.at = "fill", !.writes = "tmp"]
        /\ \A g \in Hook \ {h} : hook'[g] = hook[g]
        /\ tmpFile' = Blank /\ UNCHANGED <<turnFile, fileLock, history>>
    BY <1>8 DEF OpenTmp, HookAt, HookTypeOK, Call
  <2>2. /\ hook'[h].op = hook[h].op /\ hook'[h].item = hook[h].item
        /\ hook'[h].result = hook[h].result /\ hook'[h].epoch = hook[h].epoch
        /\ hook'[h].marker = hook[h].marker
    BY <2>1 DEF HookTypeOK, Call
  <2>3. \A g \in Hook : hook[g].at \in Inside => g = h
    BY <1>0, <2>1 DEF Kept, Exclusive, Inside
  <2>4. Exclusive' /\ SavesDue'
    <3>1. Exclusive'
      BY <1>0, <2>1 DEF Kept, Exclusive, Inside
    <3>2. /\ hook[h].result = Mutated(hook[h].op, hook[h].item, Loaded(history.due))
          /\ hook[h].epoch = history.epoch
          /\ hook[h].marker <=> /\ hook[h].op = "list"
                                /\ hook[h].item \in CurrentLists(Loaded(history.due))
      BY <1>0, <2>1 DEF Kept, SavesDue, Saving
    <3>3. ASSUME NEW g \in Hook, hook'[g].at \in Saving
          PROVE  g = h
      BY <2>1, <2>2, <2>3, <3>3 DEF Saving, Inside
    <3>4. \A g \in Hook : hook'[g].at \in {"fill", "rename"} => g = h
      BY <3>3 DEF Saving
    <3>5. /\ hook'[h].result = Mutated(hook'[h].op, hook'[h].item, Loaded(history'.due))
          /\ hook'[h].epoch = history'.epoch
          /\ hook'[h].marker <=> /\ hook'[h].op = "list"
                                 /\ hook'[h].item \in CurrentLists(Loaded(history'.due))
      BY <2>1, <2>2, <2>3, <3>2
    <3> QED BY <2>1, <2>2, <2>3, <3>1, <3>3, <3>4, <3>5 DEF SavesDue
  <2>5. ListsBacked'
    <3>1. \A epoch, item :
            BackedIn(history, hook, epoch, item) => BackedIn(history', hook', epoch, item)
      BY <1>0, <2>1, BackedStays
    <3>2. history'.due # NoState =>
            \A item \in CurrentLists(history'.due) :
              BackedIn(history', hook', history'.epoch, item)
      BY <1>0, <2>1, <3>1 DEF Kept, ListsBacked
    <3>3. ASSUME NEW g \in Hook, hook'[g].at \in {"unlock", "reply"},
                 hook'[g].op = "list", hook'[g].marker
          PROVE  BackedIn(history', hook', hook'[g].epoch, hook'[g].item)
      <4>1. hook'[g] = hook[g]
        BY <2>1, <3>3
      <4> QED BY <1>0, <3>1, <3>3, <4>1 DEF Kept, ListsBacked
    <3> QED BY <3>2, <3>3 DEF ListsBacked
  <2> QED BY <1>0, <2>1, <2>4, <2>5 DEF Kept
<1>9. ASSUME NEW h \in Hook, FillTmp(h)
      PROVE  Kept'
  <2>1. /\ hook[h].at = "fill" /\ hook[h].writes = "tmp" /\ tmpFile = Blank
    BY <1>0, <1>9 DEF FillTmp, HookAt, Kept, SavesDue
  <2>2. /\ tmpFile' = hook[h].result /\ UNCHANGED <<turnFile, fileLock, history>>
        /\ hook'[h] = [hook[h] EXCEPT !.at = "rename"]
        /\ \A g \in Hook \ {h} : hook'[g] = hook[g]
    BY <1>9, <2>1 DEF FillTmp, Filled, HookGoes, HookTypeOK
  <2>3. /\ hook'[h].at = "rename"
        /\ hook'[h].op = hook[h].op /\ hook'[h].item = hook[h].item
        /\ hook'[h].result = hook[h].result /\ hook'[h].epoch = hook[h].epoch
        /\ hook'[h].marker = hook[h].marker
    BY <2>2 DEF HookTypeOK, Call
  <2>4. \A g \in Hook : hook[g].at \in Inside => g = h
    BY <1>0, <2>1 DEF Kept, Exclusive, Inside
  <2>5. Exclusive' /\ SavesDue'
    <3>1. Exclusive'
      BY <1>0, <2>1, <2>2 DEF Kept, Exclusive, Inside
    <3>2. /\ hook[h].result = Mutated(hook[h].op, hook[h].item, Loaded(history.due))
          /\ hook[h].epoch = history.epoch
          /\ hook[h].marker <=> /\ hook[h].op = "list"
                                /\ hook[h].item \in CurrentLists(Loaded(history.due))
      BY <1>0, <2>1 DEF Kept, SavesDue, Saving
    <3>3. ASSUME NEW g \in Hook, hook'[g].at \in Saving
          PROVE  g = h
      BY <2>2, <2>3, <2>4, <3>3 DEF Saving, Inside
    <3>4. \A g \in Hook : hook'[g].at \in {"fill", "rename"} => g = h
      BY <3>3 DEF Saving
    <3>5. /\ hook'[h].result = Mutated(hook'[h].op, hook'[h].item, Loaded(history'.due))
          /\ hook'[h].epoch = history'.epoch
          /\ hook'[h].marker <=> /\ hook'[h].op = "list"
                                 /\ hook'[h].item \in CurrentLists(Loaded(history'.due))
      BY <2>2, <2>3, <2>4, <3>2
    <3> QED BY <2>2, <2>3, <2>4, <3>1, <3>3, <3>4, <3>5 DEF SavesDue
  <2>6. ListsBacked'
    <3>1. \A epoch, item :
            BackedIn(history, hook, epoch, item) => BackedIn(history', hook', epoch, item)
      BY <1>0, <2>1, <2>2, BackedStays
    <3>2. history'.due # NoState =>
            \A item \in CurrentLists(history'.due) :
              BackedIn(history', hook', history'.epoch, item)
      BY <1>0, <2>2, <3>1 DEF Kept, ListsBacked
    <3>3. ASSUME NEW g \in Hook, hook'[g].at \in {"unlock", "reply"},
                 hook'[g].op = "list", hook'[g].marker
          PROVE  BackedIn(history', hook', hook'[g].epoch, hook'[g].item)
      <4>1. hook'[g] = hook[g]
        BY <2>2, <2>3, <3>3
      <4> QED BY <1>0, <3>1, <3>3, <4>1 DEF Kept, ListsBacked
    <3> QED BY <3>2, <3>3 DEF ListsBacked
  <2> QED BY <1>0, <2>2, <2>5, <2>6 DEF Kept
<1>10. ASSUME NEW h \in Hook, RenameTmp(h)
       PROVE  Kept'
  <2> DEFINE call == hook[h]
             old == Loaded(history.due)
             due == Mutated(call.op, call.item, old)
             turns == call.op \in {"session", "turn"}
  <2>1. /\ call.at = "rename" /\ tmpFile = call.result /\ call.result = due
        /\ call.epoch = history.epoch
        /\ call.marker <=> call.op = "list" /\ call.item \in CurrentLists(old)
    BY <1>0, <1>10 DEF RenameTmp, HookAt, Kept, SavesDue, Saving
  <2>2. /\ turnFile' = tmpFile /\ fileLock' = fileLock
        /\ history'.due = due /\ history'.given = history.given
        /\ history'.epoch = IF turns THEN history.epoch + 1 ELSE history.epoch
    <3> HIDE DEF due
    <3>1. history' = [history EXCEPT
            !.due = due, !.epoch = IF turns THEN @ + 1 ELSE @]
      BY <1>10 DEF RenameTmp, due
    <3> QED BY <1>10, <3>1 DEF RenameTmp, HookTypeOK, History
  <2>3. \A g \in Hook : hook[g].at \in Inside => g = h
    BY <1>0, <2>1 DEF Kept, Exclusive, Inside
  <2>4. /\ hook'[h] = [call EXCEPT !.at = "unlock"]
        /\ \A g \in Hook \ {h} : hook'[g] = hook[g]
    BY <1>10, <2>3 DEF RenameTmp, Inside
  <2>5. /\ hook'[h].at = "unlock" /\ hook'[h].op = call.op /\ hook'[h].item = call.item
        /\ hook'[h].marker = call.marker /\ hook'[h].epoch = call.epoch
    BY <2>4 DEF HookTypeOK, Call
  <2>6. Exclusive'
    BY <1>0, <2>1, <2>2, <2>4 DEF Kept, Exclusive, Inside
  <2>7. SavesDue'
    <3>1. \A g \in Hook : hook'[g].at \notin Saving
      BY <2>3, <2>4, <2>5 DEF Saving, Inside
    <3> QED BY <3>1 DEF SavesDue, Saving
  <2>8. \A epoch, item : BackedIn(history, hook, epoch, item) => BackedIn(history', hook', epoch, item)
    BY <1>0, <2>1, <2>2, <2>4, BackedStays
  <2>9. old \in OrderedState /\ \A item \in CurrentLists(old) :
                                     BackedIn(history, hook, history.epoch, item)
    BY <1>0, FirstOrdered DEF StatesOrdered, Loaded, Kept, ListsBacked
  <2>10. CurrentLists(due) \subseteq
           IF turns THEN {} ELSE CurrentLists(old) \cup (IF call.op = "list" THEN {call.item} ELSE {})
    <3>1. /\ call.op \in Op \ {"inspect"} /\ call.item \in Item \cup {NoItem}
          /\ call.op \in {"edit", "list"} => call.item \in Item
      BY <2>1 DEF HookTypeOK, Call, StatesOrdered, Saving
    <3> QED BY <2>9, <3>1, MutatedOrdered
  <2>11. \A item \in CurrentLists(due) : BackedIn(history', hook', history'.epoch, item)
    <3> SUFFICES ASSUME NEW item \in CurrentLists(due)
                 PROVE  BackedIn(history', hook', history'.epoch, item)
      OBVIOUS
    <3>1. history'.epoch = history.epoch
      BY <2>2, <2>10
    <3>2. CASE item \in CurrentLists(old)
      BY <2>8, <2>9, <3>1, <3>2
    <3>3. CASE item \notin CurrentLists(old)
      <4>1. call.op = "list" /\ item = call.item /\ ~call.marker
        BY <2>1, <2>10, <3>3
      <4> QED BY <2>1, <2>5, <3>1, <4>1 DEF BackedIn
    <3> QED BY <3>2, <3>3
  <2>12. \A g \in Hook :
           /\ hook'[g].at \in {"unlock", "reply"} /\ hook'[g].op = "list" /\ hook'[g].marker
           => BackedIn(history', hook', hook'[g].epoch, hook'[g].item)
    <3>1. call.marker => BackedIn(history, hook, call.epoch, call.item)
      BY <2>1, <2>9
    <3> HIDE DEF call
    <3> SUFFICES ASSUME NEW g \in Hook, hook'[g].at \in {"unlock", "reply"},
                        hook'[g].op = "list", hook'[g].marker
                 PROVE  BackedIn(history', hook', hook'[g].epoch, hook'[g].item)
      OBVIOUS
    <3>2. CASE g = h
      BY <2>5, <2>8, <3>1, <3>2
    <3>3. CASE g # h
      BY <1>0, <2>4, <2>8, <3>3 DEF Kept, ListsBacked
    <3> QED BY <3>2, <3>3
  <2>13. ListsBacked'
    BY <2>2, <2>11, <2>12 DEF ListsBacked
  <2> QED BY <2>1, <2>2, <2>6, <2>7, <2>13 DEF Kept
<1>11. ASSUME NEW h \in Hook, RenameFails(h)
       PROVE  Kept'
  BY <1>0, <1>11, AbandonStep DEF RenameFails, HookAt, Saving
<1>12. ASSUME NEW h \in Hook, SaveFails(h)
       PROVE  Kept'
  <2>1. /\ history'.due = history.due /\ history'.epoch = history.epoch
        /\ history'.given = history.given /\ history'.kinds = history.kinds
    BY <1>12 DEF SaveFails, HookTypeOK, History
  <2> QED BY <1>0, <1>12, <2>1, AbandonStep DEF SaveFails, Saving
<1>13. ASSUME NEW h \in Hook, Release(h)
       PROVE  Kept'
  <2>1. /\ hook[h].at = "unlock" /\ UNCHANGED <<turnFile, tmpFile, history>>
        /\ \A g \in Hook \ {h} : hook'[g] = hook[g]
        /\ \/ hook'[h].at = "idle" /\ hook[h].op # "list"
           \/ hook'[h] = [hook[h] EXCEPT !.at = "reply"]
    BY <1>13 DEF Release, HookAt, HookTypeOK, NoCall
  <2>2. \/ hook'[h].at = "idle" /\ hook[h].op # "list"
        \/ /\ hook'[h].at = "reply" /\ hook'[h].op = hook[h].op
           /\ hook'[h].item = hook[h].item /\ hook'[h].marker = hook[h].marker
           /\ hook'[h].epoch = hook[h].epoch
    BY <2>1 DEF HookTypeOK, Call
  <2>3. ListsBacked'
    BY <1>0, <2>1, <2>2, BackedStays DEF Kept, ListsBacked
  <2> QED BY <1>0, <2>1, <2>2, <2>3, InsideStep DEF Inside, Saving
<1>14. ASSUME NEW h \in Hook, ReplyList(h)
       PROVE  Kept'
  <2>1. /\ hook[h].at = "reply" /\ hook'[h].at = "idle"
        /\ \A g \in Hook \ {h} : hook'[g] = hook[g]
        /\ UNCHANGED <<turnFile, tmpFile, fileLock>>
    BY <1>14 DEF ReplyList, HookAt, HookTypeOK, NoCall
  <2>2. /\ history'.due = history.due /\ history'.epoch = history.epoch
        /\ history.given \subseteq history'.given
        /\ ~hook[h].marker => <<hook[h].epoch, hook[h].item>> \in history'.given
    BY <1>14 DEF ReplyList, HookTypeOK, History
  <2>3. Exclusive' /\ SavesDue'
    BY <1>0, <2>1, <2>2 DEF Kept, Exclusive, SavesDue, Saving, Inside
  <2>4. ListsBacked'
    BY <1>0, <2>1, <2>2, BackedStays DEF Kept, ListsBacked
  <2> QED BY <1>0, <2>1, <2>2, <2>3, <2>4 DEF Kept
<1>15. ASSUME NEW h \in Hook, HookDies(h)
       PROVE  Kept'
  <2>1. /\ hook'[h].at = "idle" /\ UNCHANGED <<turnFile, tmpFile>>
        /\ \A g \in Hook \ {h} : hook'[g] = hook[g]
        /\ fileLock' = IF fileLock = h THEN Orphan ELSE fileLock
    BY <1>15 DEF HookDies, HookTypeOK, NoCall
  <2>2. /\ history'.due = history.due /\ history'.epoch = history.epoch
        /\ history'.given = history.given
        /\ hook[h].op = "list" /\ hook[h].at \in {"unlock", "reply"} => "unsent" \in history'.kinds
    BY <1>15 DEF HookDies, HookTypeOK, History, Happens
  <2>3. Exclusive'
    BY <1>0, <2>1 DEF Kept, Exclusive, Inside
  <2>4. SavesDue'
    BY <1>0, <2>1, <2>2 DEF Kept, SavesDue, Saving, Inside
  <2>5. ListsBacked'
    BY <1>0, <2>1, <2>2, BackedStays DEF Kept, ListsBacked
  <2> QED BY <1>0, <2>1, <2>2, <2>3, <2>4, <2>5 DEF Kept
<1>16. CASE HookLockAges
  <2>1. /\ history'.due = history.due /\ history'.epoch = history.epoch
        /\ history'.given = history.given
        /\ UNCHANGED <<turnFile, tmpFile, fileLock, hook>>
    BY <1>16 DEF HookLockAges, HookTypeOK, History
  <2>2. Exclusive' /\ SavesDue'
    BY <1>0, <2>1 DEF Kept, Exclusive, SavesDue
  <2>3. ListsBacked'
    BY <1>0, <2>1, BackedStays DEF Kept, ListsBacked
  <2> QED BY <1>0, <2>1, <2>2, <2>3 DEF Kept
<1>17. CASE UNCHANGED hookVars
  BY <1>0, <1>17 DEF hookVars, Kept, Exclusive, SavesDue, ListsBacked, BackedIn
<1> QED
  BY <1>1, <1>2, <1>3, <1>4, <1>5, <1>6, <1>7, <1>8, <1>9, <1>10, <1>11, <1>12, <1>13,
     <1>14, <1>15, <1>16, <1>17 DEF HookNext

LEMMA InvHolds == HookSpec => []HookInv
<1>1. HookInit => HookInv
  BY HookTypeInit, KeptInit DEF HookInv
<1>2. HookInv /\ [HookNext]_hookVars => HookInv'
  BY HookTypeStep, KeptStep DEF HookInv
<1> QED BY <1>1, <1>2, PTL DEF HookSpec

(* No saved call is lost and no broken file left, for every set of hooks.  *)
LEMMA UpdatesAlwaysKept == HookSpec => []UpdatesKept
<1>1. HookInv => UpdatesKept
  BY DEF HookInv, Kept, UpdatesKept
<1> QED BY <1>1, InvHolds, PTL

(* The turns of the file are always in order, and markers always backed.   *)
LEMMA TurnsAlwaysHonest == HookSpec => []TurnsHonest
<1>1. HookInv => TurnsInOrder
  BY HookAssumption DEF HookInv, StatesOrdered, TurnsInOrder, OrderedFile, OrderedState, Unparsable
<1>2. HookInv => MarkerIsBacked
  BY DEF HookInv, StatesOrdered, Kept, ListsBacked, BackedIn, Backed, MarkerIsBacked, HookAt
<1>3. HookInv => TurnsHonest
  BY <1>1, <1>2 DEF TurnsHonest
<1> QED BY <1>3, InvHolds, PTL

(* No update is lost, and what the file says of the turns can be relied on, *)
(* for any number of hooks, whatever fails or dies.                        *)
THEOREM TurnStateAlwaysHonest == HookSpec => []TurnStateHonest
<1>1. UpdatesKept /\ TurnsHonest => TurnStateHonest
  BY DEF TurnStateHonest
<1> QED BY <1>1, UpdatesAlwaysKept, TurnsAlwaysHonest, PTL
===============================================================================
