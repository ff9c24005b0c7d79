----------------------------- MODULE MCUpstream -----------------------------
(***************************************************************************)
(* What happens on the connections of the proxy, model-checked in one run: *)
(* the writers of one, its response chains and their recovery, the bytes   *)
(* of one, or how they are taken in, as "part" says; the others stay in    *)
(* one of their initial states.                                            *)
(***************************************************************************)
EXTENDS MCUpstreamWriter, MCWssRecovery, Relay, FrontEnd

CONSTANTS k1, k2, w1, w2 \* connections to the engine and the raw listener
VARIABLE part

vars == <<part, writerVars, recoveryVars, relayVars, frontEndVars>>

Idle ==
  [route |-> "direct", codex |-> TRUE, tells |-> 1, switches |-> TRUE, framed |-> TRUE,
   eager |-> FALSE]

Init ==
  /\ part \in {"writer", "recovery", "relay", "frontend"}
  /\ WriterInit /\ (part # "writer" => crew = {"pump"})
  /\ RecoveryInit /\ (part # "recovery" => scenario = Calm)
  /\ RelayInit /\ (part # "relay" => conn = Idle)
  /\ FrontEndInit

(* The good ends: the session is over and nothing is unwritten, or the     *)
(* handler, or Run, has returned.                                          *)
WritersDone == ended /\ gone /\ unread = 0 /\ \A w \in Writers : queue[w] = << >>

Over ==
  /\ \/ part = "writer" /\ WritersDone
     \/ part = "relay" /\ stage = "over"
     \/ part = "frontend" /\ loop = "returned"
  /\ UNCHANGED vars

Next ==
  \/ /\ part = "writer" /\ WriterNext
     /\ UNCHANGED <<part, recoveryVars, relayVars, frontEndVars>>
  \/ /\ part = "recovery" /\ RecoveryNext
     /\ UNCHANGED <<part, writerVars, relayVars, frontEndVars>>
  \/ /\ part = "relay" /\ RelayNext
     /\ UNCHANGED <<part, writerVars, recoveryVars, frontEndVars>>
  \/ /\ part = "frontend" /\ FrontEndNext
     /\ UNCHANGED <<part, writerVars, recoveryVars, relayVars>>
  \/ Over

(* The parts' fairness; the guard on "part" only spares TLC work.          *)
Fairness ==
  /\ WF_writerVars(part = "writer" /\ WriterProceeds)
  /\ WF_recoveryVars(part = "recovery" /\ HandleFrame)
  /\ WF_recoveryVars(part = "recovery" /\ ServerAnswers)
  /\ WF_relayVars(part = "relay" /\ RelayProceeds)
  /\ WF_frontEndVars(part = "frontend" /\ FrontEndProceeds)

Spec == Init /\ [][Next]_vars /\ Fairness

(* The variables of every part have their types.                           *)
TypeOK == WriterTypeOK /\ RecoveryTypeOK /\ RelayTypeOK /\ FrontEndTypeOK

(* WebSocket upgrades over every way in, answered and refused; an eager    *)
(* client where the way in allows for one; what is only passed through.    *)
Upgrade(r, s, f) == [Idle EXCEPT !.route = r, !.switches = s, !.framed = f]
Eager(c) == [c EXCEPT !.eager = TRUE]
MCRelayScenarios ==
  LET upgrades == {Upgrade(r, s, f) :
                     r \in {"direct", "connect", "raw"}, s \in BOOLEAN, f \in BOOLEAN}
      plain == {[Upgrade("raw", TRUE, FALSE) EXCEPT !.codex = FALSE, !.tells = 2],
                Upgrade("transparent", TRUE, TRUE),
                [Upgrade("transparent", TRUE, TRUE) EXCEPT !.codex = FALSE],
                [Upgrade("passthrough", TRUE, TRUE) EXCEPT !.codex = FALSE]}
  IN  upgrades \cup {Eager(Upgrade("connect", TRUE, f)) : f \in BOOLEAN}
      \cup plain \cup {Eager(c) : c \in plain}
=============================================================================
