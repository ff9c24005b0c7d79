----------------------------- MODULE HealthMonitor -----------------------------
(***************************************************************************)
(* The health of one upstream provider                                     *)
(* (src/internal/proxy/health_monitor.go): a ring of the last outcomes of  *)
(* its requests, and the status computed from it when somebody asks.       *)
(* Recording and reading hold the monitor's lock, so each is one step.     *)
(***************************************************************************)
EXTENDS Integers, Sequences, FiniteSets

CONSTANTS
  Window,      \* the outcomes the ring holds: 20 in the code
  MaxOutcomes  \* bound: outcomes recorded

ASSUME HealthAssumption == Window \in Nat /\ Window >= 3 /\ MaxOutcomes \in Nat

VARIABLES
  ring,      \* the outcomes, TRUE for a success
  head,      \* the position the next outcome goes to
  count,     \* how many are stored
  quiet,     \* whether the last outcome is more than five minutes old
  outcomes   \* history: every outcome recorded, oldest first

healthVars == <<ring, head, count, quiet, outcomes>>

HealthTypeOK ==
  /\ ring \in [0..(Window - 1) -> BOOLEAN]
  /\ head \in 0..(Window - 1)
  /\ count \in 0..Window
  /\ quiet \in BOOLEAN
  /\ outcomes \in Seq(BOOLEAN)

HealthInit ==
  /\ ring = [i \in 0..(Window - 1) |-> FALSE]
  /\ head = 0
  /\ count = 0
  /\ quiet = FALSE
  /\ outcomes = <<>>

(* A mutant: the latest outcome is sought where the next one will go.      *)
PositionNext(i) == IF i <= head THEN head - i ELSE head - i + Window

(* The position of the i-th latest outcome, from 0: (head-1-i+20) % 20.    *)
Position(i) == IF i < head THEN head - 1 - i ELSE head - 1 - i + Window

(* A mutant: the position is not taken modulo the capacity.                *)
RecordNoWrap(success) ==
  /\ Len(outcomes) < MaxOutcomes
  /\ ring' = [ring EXCEPT ![head] = success]
  /\ head' = head + 1
  /\ count' = IF count < Window THEN count + 1 ELSE count
  /\ quiet' = FALSE
  /\ outcomes' = Append(outcomes, success)

Record(success) ==
  /\ Len(outcomes) < MaxOutcomes
  /\ ring' = [ring EXCEPT ![head] = success]
  /\ head' = IF head + 1 = Window THEN 0 ELSE head + 1
  /\ count' = IF count < Window THEN count + 1 ELSE count
  /\ quiet' = FALSE
  /\ outcomes' = Append(outcomes, success)

FiveMinutesPass ==
  /\ count > 0 /\ ~quiet
  /\ quiet' = TRUE
  /\ UNCHANGED <<ring, head, count, outcomes>>

HealthNext == (\E success \in BOOLEAN : Record(success)) \/ FiveMinutesPass

HealthSpec == HealthInit /\ [][HealthNext]_healthVars

-----------------------------------------------------------------------------
(* getStatus, of how many outcomes are stored and which of them, counted   *)
(* from the latest, failed. More than a fifth is what the code's floating- *)
(* point quotient says: it is above 0.20 exactly then.                     *)
Judge(stored, idle, failed) ==
  IF stored = 0 \/ idle THEN "idle"
  ELSE IF stored >= 3 /\ 0..2 \subseteq failed THEN "down"
  ELSE IF 5 * Cardinality(failed) > stored THEN "degraded" ELSE "healthy"

Status == Judge(count, quiet, {i \in 0..(count - 1) : ~ring[Position(i)]})

(* The status tells what the last outcomes, as many as the ring holds,     *)
(* were, however often it has wrapped: the position it writes to, those it *)
(* reads back from and the number it stores fit together.                  *)
StatusTellsLastOutcomes ==
  LET known == IF Len(outcomes) < Window THEN Len(outcomes) ELSE Window
  IN  Status = Judge(known, quiet,
                     {i \in 0..(known - 1) : ~outcomes[Len(outcomes) - i]})
=============================================================================
