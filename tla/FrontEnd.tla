------------------------------ MODULE FrontEnd ------------------------------
(***************************************************************************)
(* How connections are taken in: by the transparent engine                 *)
(* (src/internal/proxy/transparent/listener.go), whose slots a connection  *)
(* holds from its handshake to its end, and by the raw listener            *)
(* (raw_wss_listener.go), which reads the head of one connection before it *)
(* accepts the next.  What a connection carries is the module Relay's.     *)
(***************************************************************************)
EXTENDS Naturals, FiniteSets, Sequences

CONSTANTS
  TlsConn,  \* connections to the engine
  RawConn,  \* connections to the raw listener
  NoConn,   \* none
  Slots     \* Engine.MaxConcurrent

ASSUME FrontEndAssumption ==
  /\ IsFiniteSet(TlsConn) /\ IsFiniteSet(RawConn)
  /\ NoConn \notin TlsConn \cup RawConn /\ Slots \in Nat \ {0}

VARIABLES
  loop,      \* Run's loop: in Accept, waiting for a slot, in wg.Wait, returned
  next,      \* the connection it has accepted
  place,     \* per connection of the engine: how far it is
  stopping,  \* the engine's context is done
  listening, \* its listener is open
  tally,     \* Engine's counters
  backlog,   \* connections the raw listener has not accepted
  sniffed,   \* the one whose head it reads
  passed     \* those it has passed on

engineVars == <<loop, next, place, stopping, listening, tally>>
rawVars == <<backlog, sniffed, passed>>
frontEndVars == <<engineVars, rawVars>>

(* A connection is nowhere, in the listener's queue, accepted, in its      *)
(* handshake, has its head read, is relayed by the bridge, is a WebSocket  *)
(* session, or its handler has returned an error, which is counted. It     *)
(* ends unmet by a handshake, with such an error ("erred"), or without.    *)
Handled == {"head", "bridge", "session"}
Served == Handled \cup {"hello", "faulted"}
Place == {"out", "queued", "accepted", "closed", "unmet", "erred"} \cup Served

FrontEndTypeOK ==
  /\ loop \in {"accept", "slot", "drain", "returned"}
  /\ next \in TlsConn \cup {NoConn}
  /\ place \in [TlsConn -> Place]
  /\ stopping \in BOOLEAN /\ listening \in BOOLEAN
  /\ tally \in [accepted : Nat, served : Nat, failed : Nat]
  /\ backlog \in Seq(RawConn) /\ sniffed \in RawConn \cup {NoConn} /\ passed \subseteq RawConn

FrontEndInit ==
  /\ loop = "accept" /\ next = NoConn
  /\ place = [c \in TlsConn |-> "out"]
  /\ stopping = FALSE /\ listening = TRUE
  /\ tally = [accepted |-> 0, served |-> 0, failed |-> 0]
  /\ backlog = <<>> /\ sniffed = NoConn /\ passed = {}

-----------------------------------------------------------------------------
(* The engine.                                                             *)

Holding == {c \in TlsConn : place[c] \in Served}

Connect(c) ==
  /\ place[c] = "out" /\ listening
  /\ place' = [place EXCEPT ![c] = "queued"]
  /\ UNCHANGED <<loop, next, stopping, listening, tally, rawVars>>

AcceptTls(c) ==
  /\ loop = "accept" /\ place[c] = "queued" /\ listening
  /\ place' = [place EXCEPT ![c] = "accepted"]
  /\ next' = c
  /\ loop' = "slot"
  /\ tally' = [tally EXCEPT !.accepted = @ + 1]
  /\ UNCHANGED <<stopping, listening, rawVars>>

(* sem <- struct{}{}, which does not look at the context.                  *)
TakeSlot ==
  /\ loop = "slot" /\ Cardinality(Holding) < Slots
  /\ place' = [place EXCEPT ![next] = "hello"]
  /\ next' = NoConn
  /\ loop' = "accept"
  /\ UNCHANGED <<stopping, listening, tally, rawVars>>

(* Accept fails, when the listener is closed or for any other reason: Run  *)
(* waits for what it serves, and leaves an open listener open.             *)
AcceptFails ==
  /\ loop = "accept"
  /\ loop' = "drain"
  /\ UNCHANGED <<next, place, stopping, listening, tally, rawVars>>

(* A step of serve that adds to a counter; at the end of serve the slot is *)
(* given back.                                                             *)
Counts(c, how, where) ==
  /\ place' = [place EXCEPT ![c] = where]
  /\ tally' = [tally EXCEPT ![how] = @ + 1]
  /\ UNCHANGED <<loop, next, stopping, listening, rawVars>>

(* The handshake: it fails after HandshakeTimeout at the latest. The       *)
(* context ends one that is under way, or misses one that is just done.    *)
HandshakeFails(c) == place[c] = "hello" /\ Counts(c, "failed", "unmet")

HandshakeDone(c) ==
  /\ place[c] = "hello"
  /\ place' = [place EXCEPT ![c] = "head"]
  /\ UNCHANGED <<loop, next, stopping, listening, tally, rawVars>>

(* Handle returns without an error: an end has come, and is no surprise.   *)
HandleEnds(c) == place[c] \in Handled /\ Counts(c, "served", "closed")

(* Handle returns an error: it cannot read the head or dial, a copy fails. *)
HandleFails(c) == place[c] \in Handled /\ Counts(c, "failed", "faulted")

(* A mutant: an error is not counted as served, too.                       *)
FaultDropped(c) ==
  /\ place[c] = "faulted"
  /\ place' = [place EXCEPT ![c] = "erred"]
  /\ UNCHANGED <<loop, next, stopping, listening, tally, rawVars>>

(* A connection whose handler has failed counts as served all the same.    *)
FaultServed(c) == place[c] = "faulted" /\ Counts(c, "served", "erred")

(* routeInitialHTTP has read a head.                                       *)
HeadRouted(c, where) ==
  /\ place[c] = "head"
  /\ place' = [place EXCEPT ![c] = where]
  /\ UNCHANGED <<loop, next, stopping, listening, tally, rawVars>>

(* Handle returns with the context, whose error it returns, only from the  *)
(* bridge. A mutant: nor from there.                                       *)
BridgeWaits(c) == FALSE
HandleCancelled(c) == stopping /\ place[c] = "bridge" /\ Counts(c, "failed", "faulted")

RunReturns ==
  /\ loop = "drain" /\ Holding = {}
  /\ loop' = "returned"
  /\ UNCHANGED <<next, place, stopping, listening, tally, rawVars>>

CancelEngine ==
  /\ ~stopping
  /\ stopping' = TRUE
  /\ UNCHANGED <<loop, next, place, listening, tally, rawVars>>

(* What is still queued is refused.                                        *)
CloseListener ==
  /\ stopping /\ listening
  /\ listening' = FALSE
  /\ place' = [c \in TlsConn |-> IF place[c] = "queued" THEN "closed" ELSE place[c]]
  /\ UNCHANGED <<loop, next, stopping, tally, rawVars>>

-----------------------------------------------------------------------------
(* The raw listener, as the HTTP server's loop calls its Accept.           *)

RawConnects(c) ==
  /\ c \notin passed \cup {sniffed} /\ \A i \in DOMAIN backlog : backlog[i] # c
  /\ backlog' = Append(backlog, c)
  /\ UNCHANGED <<engineVars, sniffed, passed>>

RawAccept ==
  /\ sniffed = NoConn /\ backlog # <<>>
  /\ sniffed' = Head(backlog)
  /\ backlog' = Tail(backlog)
  /\ UNCHANGED <<engineVars, passed>>

(* maybeHandle: the head is there, or the deadline passes.                 *)
RawPassesOn ==
  /\ sniffed # NoConn
  /\ passed' = passed \cup {sniffed}
  /\ sniffed' = NoConn
  /\ UNCHANGED <<engineVars, backlog>>

(* What the deadline makes certain. A mutant: there is none.               *)
NoDeadline == FALSE
RawDeadline == RawPassesOn

FrontEndNext ==
  \/ TakeSlot \/ AcceptFails \/ RunReturns \/ CancelEngine \/ CloseListener
  \/ \E c \in TlsConn :
       \/ Connect(c) \/ AcceptTls(c) \/ HandshakeFails(c) \/ HandshakeDone(c)
       \/ HandleEnds(c) \/ HandleFails(c) \/ HandleCancelled(c) \/ FaultServed(c)
       \/ \E where \in {"bridge", "session"} : HeadRouted(c, where)
  \/ RawAccept \/ RawPassesOn
  \/ \E c \in RawConn : RawConnects(c)

(* The loops run, the handshake's and the sniff's deadlines pass. No       *)
(* client has to say or end anything. A connection goes through its places *)
(* once, so fairness for all of this is fairness for each part of it.      *)
FrontEndProceeds ==
  \/ TakeSlot \/ RunReturns \/ CloseListener
  \/ ~listening /\ AcceptFails
  \/ \E c \in TlsConn : HandshakeFails(c) \/ HandleCancelled(c) \/ FaultServed(c)
  \/ RawAccept \/ RawDeadline

FrontEndFairness == WF_frontEndVars(FrontEndProceeds)

FrontEndSpec == FrontEndInit /\ [][FrontEndNext]_frontEndVars /\ FrontEndFairness

-----------------------------------------------------------------------------
(* A slot is never held twice, and the counters add up at any time: what   *)
(* was accepted has been served, was unmet by a handshake, or is in hand;  *)
(* and errors are the handshakes and the handlers that failed, the latter  *)
(* served as well: what is served and what failed is not what was accepted.*)
At(where) == {c \in TlsConn : place[c] \in where}
TallyHonest ==
  /\ Cardinality(Holding) <= Slots
  /\ tally.accepted = tally.served + Cardinality(At({"unmet"})) + Cardinality(Holding)
                      + (IF next = NoConn THEN 0 ELSE 1)
  /\ tally.failed = Cardinality(At({"unmet", "faulted", "erred"}))

(* When the engine is told to stop its Run returns, although the loop may  *)
(* wait for a slot; unless a client says nothing while its head is read,   *)
(* or in its session, which do not hear of the context.                    *)
StopsUnlessSilent ==
  stopping ~> loop = "returned" \/ \E c \in TlsConn : place[c] \in {"head", "session"}

(* No client keeps the raw listener from the next one for good.            *)
EveryoneIsTaken ==
  \A c \in RawConn : (\E i \in DOMAIN backlog : backlog[i] = c) ~> c \in passed

(* The counters stay honest, the engine stops and the listener goes on.    *)
FrontEndGoesOn == []TallyHonest /\ StopsUnlessSilent /\ EveryoneIsTaken
=============================================================================
