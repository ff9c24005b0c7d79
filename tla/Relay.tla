------------------------------- MODULE Relay -------------------------------
(***************************************************************************)
(* The bytes of one connection between a client and its upstream, over any *)
(* of the ways into the proxy: a hijacked HTTP request ("direct"), one     *)
(* inside a CONNECT tunnel ("connect"; "passthrough" for hosts that are    *)
(* not intercepted), the raw listener ("raw", raw_wss_listener.go) and the *)
(* transparent engine's dispatcher ("transparent").  Heads are read ahead, *)
(* what was read too far is kept, and two goroutines copy the rest.        *)
(*                                                                         *)
(* A stream is numbered: the client's head is the units 1..HeadLen, the    *)
(* server's response head is unit 1.  0 is the proxy's own bad gateway.    *)
(***************************************************************************)
EXTENDS Naturals, Sequences, SequencesExt

CONSTANTS
  HeadLen,        \* units of the client's head
  ClientLen,      \* bound: units the client sends
  ServerLen,      \* bound: units the server sends
  RelayScenarios  \* what connections there are

(* codex: the head asks for the scoped Codex WebSocket, as the first       *)
(* "tells" units of it show. switches: the answer is a 101. framed: the    *)
(* tunnel has a frame bridge. eager: the client sends on before it has an  *)
(* answer, as HTTP allows and WebSocket does not.                          *)
ASSUME RelayAssumption ==
  /\ HeadLen \in Nat \ {0} /\ ClientLen \in Nat /\ ServerLen \in Nat
  /\ RelayScenarios \subseteq
       [route : {"direct", "connect", "passthrough", "raw", "transparent"},
        codex : BOOLEAN, tells : 1..HeadLen, switches : BOOLEAN, framed : BOOLEAN,
        eager : BOOLEAN]
  /\ \A s \in RelayScenarios : s.route = "direct" => ~s.eager

Peers == {"client", "server"}
Other(p) == IF p = "client" THEN "server" ELSE "client"

VARIABLES
  conn,    \* the scenario
  stage,   \* where the handler is
  relay,   \* how it copies: until one direction ends, or both
  sent,    \* per peer: units sent
  fin,     \* per peer: it sends no more
  left,    \* per peer: nor does it read
  told,    \* per peer: the proxy has closed its sending side to it
  taken,   \* per peer: units read from its connection
  held,    \* per peer: those that are read and still in a buffer
  hand,    \* per peer: those its copying goroutine is about to write
  copy,    \* per peer: that goroutine
  got,     \* per peer: units received
  cut,     \* a head was taken for whole that is not
  cancelled

relayVars == <<conn, stage, relay, sent, fin, left, told, taken, held, hand, copy, got, cut,
               cancelled>>
peerVars == <<sent, fin, left>>
copyVars == <<hand, copy, told>>

Units == Seq(1..(ClientLen + ServerLen))

RelayTypeOK ==
  /\ conn \in RelayScenarios
  /\ stage \in {"head", "dial", "answer", "relay", "over"}
  /\ relay \in {"none", "first", "both"}
  /\ sent \in [Peers -> Nat] /\ taken \in [Peers -> Nat]
  /\ fin \in [Peers -> BOOLEAN] /\ left \in [Peers -> BOOLEAN] /\ told \in [Peers -> BOOLEAN]
  /\ held \in [Peers -> Units] /\ hand \in [Peers -> Units]
  /\ copy \in [Peers -> {"on", "eof", "err"}]
  /\ got \in [Peers -> Seq(Nat)]
  /\ cut \in BOOLEAN /\ cancelled \in BOOLEAN

(* The dispatcher and the passthrough dial before they read.               *)
RelayInit ==
  /\ conn \in RelayScenarios
  /\ stage = IF conn.route \in {"passthrough", "transparent"} THEN "dial" ELSE "head"
  /\ relay = "none"
  /\ sent = [p \in Peers |-> 0] /\ taken = [p \in Peers |-> 0]
  /\ fin = [p \in Peers |-> FALSE] /\ left = [p \in Peers |-> FALSE]
  /\ told = [p \in Peers |-> FALSE]
  /\ held = [p \in Peers |-> <<>>] /\ hand = [p \in Peers |-> <<>>]
  /\ copy = [p \in Peers |-> "on"]
  /\ got = [p \in Peers |-> <<>>]
  /\ cut = FALSE /\ cancelled = FALSE

-----------------------------------------------------------------------------
(* The peers.                                                              *)

HeadArrived == Len(got["server"]) >= HeadLen

(* A server answers a whole head; a client waits for the answer, unless it *)
(* is eager.                                                               *)
MayPeerSend(p) ==
  /\ ~fin[p]
  /\ IF p = "server" THEN sent[p] < ServerLen /\ HeadArrived
     ELSE sent[p] < ClientLen /\ (sent[p] >= HeadLen => conn.eager \/ got["client"] # <<>>)

PeerSends(p) ==
  /\ stage # "over" /\ MayPeerSend(p)
  /\ sent' = [sent EXCEPT ![p] = @ + 1]
  /\ UNCHANGED <<conn, stage, relay, fin, left, taken, held, copyVars, got, cut, cancelled>>

PeerEnds(p, leaves) ==
  /\ stage # "over" /\ ~fin[p]
  /\ fin' = [fin EXCEPT ![p] = TRUE]
  /\ left' = [left EXCEPT ![p] = leaves]
  /\ UNCHANGED <<conn, stage, relay, sent, taken, held, copyVars, got, cut, cancelled>>

(* The engine's context; nothing else that copies has one.                 *)
CancelRelay ==
  /\ stage # "over" /\ ~cancelled /\ conn.route = "transparent"
  /\ cancelled' = TRUE
  /\ UNCHANGED <<conn, stage, relay, peerVars, taken, held, copyVars, got, cut>>

-----------------------------------------------------------------------------
(* Reading ahead.                                                          *)

(* readHTTPHeader reads bytes; a bufio.Reader whatever has arrived.        *)
Ahead(p) ==
  LET most == sent[p] - taken[p]
  IN  IF conn.route \in {"raw", "transparent"} THEN 1..(IF most > 0 THEN 1 ELSE 0) ELSE 1..most

ReadAhead(p, length) ==
  /\ Len(held[p]) < length
  /\ \E n \in Ahead(p) :
       /\ taken' = [taken EXCEPT ![p] = @ + n]
       /\ held' = [held EXCEPT ![p] = @ \o [i \in 1..n |-> taken[p] + i]]
  /\ UNCHANGED <<conn, stage, relay, peerVars, copyVars, got, cut, cancelled>>

ReadHead == stage = "head" /\ ReadAhead("client", HeadLen)
ReadAnswer == stage = "answer" /\ ReadAhead("server", 1)

StreamEnded(p) == fin[p] /\ taken[p] = sent[p]
HeadRead == Len(held["client"]) >= HeadLen

(* The raw listener gives what it does not want to the HTTP server, which  *)
(* takes the server's place here and reads the prefix first. A mutant: the *)
(* connection is returned without it.                                      *)
PrefixForgotten == [held EXCEPT !["client"] = <<>>]
PrefixReplayed == held

Replay ==
  /\ stage' = "relay" /\ relay' = "first"
  /\ held' = PrefixReplayed
  /\ UNCHANGED <<conn, peerVars, taken, copyVars, got, cut, cancelled>>

(* maybeHandle. What was read when the deadline passes, or the client ends *)
(* is parsed all the same: a head without its end may be taken for whole.  *)
Sniff ==
  /\ stage = "head" /\ conn.route = "raw"
  /\ IF conn.codex /\ Len(held["client"]) >= conn.tells /\ held["client"] # <<>>
     THEN /\ stage' = "dial"
          /\ cut' = ~HeadRead
          /\ UNCHANGED <<conn, relay, peerVars, taken, held, copyVars, got, cancelled>>
     ELSE Replay

(* ServeHTTP after ReadRequest; Hijack gives the connection without the    *)
(* server's reader.                                                        *)
RequestRead ==
  /\ stage = "head" /\ conn.route \in {"connect", "direct"} /\ HeadRead
  /\ stage' = "dial"
  /\ held' = IF conn.route = "connect" THEN held
             ELSE [held EXCEPT !["client"] = SubSeq(@, 1, HeadLen)]
  /\ UNCHANGED <<conn, relay, peerVars, taken, copyVars, got, cut, cancelled>>

RequestEnds ==
  /\ stage = "head" /\ conn.route \in {"connect", "direct"}
  /\ StreamEnded("client") /\ ~HeadRead
  /\ stage' = "over"
  /\ UNCHANGED <<conn, relay, peerVars, taken, held, copyVars, got, cut, cancelled>>

(* The head goes to the server, if it is still there.                      *)
HeadWritten ==
  /\ ~left["server"]
  /\ LET n == IF HeadRead THEN HeadLen ELSE Len(held["client"])
     IN  /\ got' = [got EXCEPT !["server"] = SubSeq(held["client"], 1, n)]
         /\ held' = [held EXCEPT !["client"] = SubSeq(@, n + 1, Len(@))]

(* routeInitialHTTP: what is no Codex WebSocket, or no whole head, goes    *)
(* over the bridge.                                                        *)
RouteInitialHTTP ==
  /\ stage = "head" /\ conn.route = "transparent"
  /\ HeadRead \/ StreamEnded("client")
  /\ \/ HeadWritten /\ IF HeadRead /\ conn.codex THEN stage' = "answer" /\ UNCHANGED relay
                       ELSE stage' = "relay" /\ relay' = "both"
     \/ left["server"] /\ stage' = "over" /\ UNCHANGED <<relay, got, held>>
  /\ UNCHANGED <<conn, peerVars, taken, copyVars, cut, cancelled>>

(* writeBadGateway.                                                        *)
BadGateway ==
  /\ stage' = "over"
  /\ got' = IF left["client"] THEN got ELSE [got EXCEPT !["client"] = Append(@, 0)]
  /\ UNCHANGED <<relay, held>>

(* The dial, and the head, for those who have read it by then.             *)
Dial ==
  /\ stage = "dial"
  /\ CASE conn.route = "passthrough" ->
            \/ stage' = "relay" /\ relay' = "first" /\ UNCHANGED <<held, got>>
            \/ stage' = "over" /\ UNCHANGED <<relay, held, got>>
       [] conn.route = "transparent" ->
            stage' \in {"head", "over"} /\ UNCHANGED <<relay, held, got>>
       [] OTHER ->
            \/ stage' = "answer" /\ HeadWritten /\ UNCHANGED relay
            \/ BadGateway
  /\ UNCHANGED <<conn, peerVars, taken, copyVars, cut, cancelled>>

(* ReadResponse fails when the server ends first; the dispatcher gives up. *)
AnswerEnds ==
  /\ stage = "answer" /\ held["server"] = <<>> /\ StreamEnded("server")
  /\ IF conn.route = "transparent" THEN stage' = "over" /\ UNCHANGED <<relay, held, got>>
     ELSE BadGateway
  /\ UNCHANGED <<conn, peerVars, taken, copyVars, cut, cancelled>>

(* What was read beyond the answer: bufferedReadConn keeps it for the      *)
(* frame bridge, flushBufferedUpstream writes it to the client. A mutant:  *)
(* the bridge reads from the connection itself.                            *)
BeyondForgotten(rest) == <<>>
Beyond(rest) == IF conn.framed THEN rest ELSE <<>>

(* An answer that is no 101 is forwarded, and that is all.                 *)
Answered ==
  /\ stage = "answer" /\ held["server"] # <<>>
  /\ LET rest == Tail(held["server"])
         tunnel == conn.route # "transparent"
         flushed == IF tunnel /\ conn.switches /\ ~conn.framed THEN rest ELSE <<>>
     IN  /\ got' = IF left["client"] THEN got
                   ELSE [got EXCEPT !["client"] = @ \o <<1>> \o flushed]
         /\ held' = [held EXCEPT !["server"] = Beyond(rest)]
         /\ \/ (IF tunnel THEN conn.switches ELSE ~left["client"])
               /\ stage' = "relay" /\ relay' = "first"
            \/ (IF tunnel THEN ~conn.switches ELSE left["client"])
               /\ stage' = "over" /\ UNCHANGED relay
  /\ UNCHANGED <<conn, peerVars, taken, copyVars, cut, cancelled>>

-----------------------------------------------------------------------------
(* Copying: pipeBytes, pipeWebSocketBytes and, as far as its frames go     *)
(* through, a session; or bridge.                                          *)

CopyReads(p) ==
  /\ stage = "relay" /\ copy[p] = "on" /\ hand[p] = <<>>
  /\ \/ \E n \in 1..Len(held[p]) :
          /\ hand' = [hand EXCEPT ![p] = SubSeq(held[p], 1, n)]
          /\ held' = [held EXCEPT ![p] = SubSeq(@, n + 1, Len(@))]
          /\ UNCHANGED taken
     \/ /\ held[p] = <<>>
        /\ \E n \in 1..(sent[p] - taken[p]) :
             /\ hand' = [hand EXCEPT ![p] = [i \in 1..n |-> taken[p] + i]]
             /\ taken' = [taken EXCEPT ![p] = @ + n]
        /\ UNCHANGED held
  /\ UNCHANGED <<conn, stage, relay, peerVars, copy, told, got, cut, cancelled>>

(* closeWrite, by the bridge's goroutines. A mutant: they do not.          *)
NotTold(q) == told
Told(q) == IF relay = "both" THEN [told EXCEPT ![q] = TRUE] ELSE told

(* A peer that has left may still seem to take what is written.            *)
CopyWrites(p) ==
  LET q == Other(p) IN
  /\ stage = "relay" /\ hand[p] # <<>>
  /\ hand' = [hand EXCEPT ![p] = <<>>]
  /\ \/ /\ got' = IF left[q] THEN got ELSE [got EXCEPT ![q] = @ \o hand[p]]
        /\ UNCHANGED <<copy, told>>
     \/ /\ left[q]
        /\ copy' = [copy EXCEPT ![p] = "err"] /\ told' = Told(q)
        /\ UNCHANGED got
  /\ UNCHANGED <<conn, stage, relay, peerVars, taken, held, cut, cancelled>>

CopyEnds(p) ==
  /\ stage = "relay" /\ copy[p] = "on" /\ hand[p] = <<>> /\ held[p] = <<>>
  /\ StreamEnded(p)
  /\ copy' = [copy EXCEPT ![p] = "eof"] /\ told' = Told(Other(p))
  /\ UNCHANGED <<conn, stage, relay, peerVars, taken, held, hand, got, cut, cancelled>>

(* servePlaintextOnTLS gives each read of a request 120 seconds; nobody    *)
(* takes the deadline back when the request becomes a WebSocket, so it     *)
(* also ends the reads of a client whose connection is older than that.    *)
ReadTimesOut ==
  /\ conn.route = "connect"
  /\ \/ /\ stage = "head" /\ ~HeadRead
        /\ stage' = "over" /\ UNCHANGED copy
     \/ /\ stage = "relay" /\ copy["client"] = "on"
        /\ hand["client"] = <<>> /\ held["client"] = <<>>
        /\ copy' = [copy EXCEPT !["client"] = "err"] /\ UNCHANGED stage
  /\ UNCHANGED <<conn, relay, peerVars, taken, held, hand, told, got, cut, cancelled>>

(* When the handler returns: pipeBytes after one direction, bridge after   *)
(* both or with the context. A mutant: bridge, too, after one.             *)
OneDone == \E p \in Peers : copy[p] # "on"
CopyDone == IF relay = "first" THEN OneDone
            ELSE cancelled \/ \A p \in Peers : copy[p] # "on"

(* The handler returns and both connections are closed.                    *)
RelayReturns ==
  /\ stage = "relay" /\ CopyDone
  /\ stage' = "over"
  /\ UNCHANGED <<conn, relay, peerVars, taken, held, copyVars, got, cut, cancelled>>

ProxyStep ==
  \/ ReadHead \/ ReadAnswer \/ Sniff \/ RequestRead \/ RequestEnds \/ RouteInitialHTTP
  \/ Dial \/ AnswerEnds \/ Answered \/ RelayReturns
  \/ \E p \in Peers : CopyReads(p) \/ CopyWrites(p) \/ CopyEnds(p)

RelayNext ==
  \/ ProxyStep \/ CancelRelay \/ ReadTimesOut
  \/ \E p \in Peers : PeerSends(p) \/ \E leaves \in BOOLEAN : PeerEnds(p, leaves)

(* The handler's goroutines run and deadlines pass; a server answers, and  *)
(* ends when it is told that the client has. Streams are finite, so        *)
(* fairness for all of this is fairness for each part of it.               *)
ServerResponds == sent["server"] = 0 /\ PeerSends("server")
ServerFollows == told["server"] /\ PeerEnds("server", FALSE)

RelayProceeds == ProxyStep \/ ServerResponds \/ ServerFollows
RelayFairness == WF_relayVars(RelayProceeds)

RelaySpec == RelayInit /\ [][RelayNext]_relayVars /\ RelayFairness

-----------------------------------------------------------------------------
InOrder(units) == \A i \in DOMAIN units : units[i] = i

(* What a peer has received is what the other sent, from the start and     *)
(* without a gap, through every buffer on the way, or the proxy's own      *)
(* answer and nothing else. A direction that came to its end has carried   *)
(* everything, and the bridge does not end before both have.               *)
RelayFaithful ==
  /\ InOrder(got["server"]) /\ (got["client"] = <<0>> \/ InOrder(got["client"]))
  /\ \A p \in Peers :
       copy[p] = "eof" /\ ~left[Other(p)] => Len(got[Other(p)]) = sent[p]
  /\ stage = "over" /\ relay = "both" /\ ~cancelled => \A p \in Peers : copy[p] # "on"

(* A client that has ended is let go, unless its head was cut short by the *)
(* raw listener's deadline: then the server waits for the rest of a head   *)
(* that nobody will read before it has answered.                           *)
RelayEnds == fin["client"] /\ ~cut ~> stage = "over" \/ cut
=============================================================================
