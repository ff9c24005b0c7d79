------------------------------ MODULE WssRecovery ------------------------------
(***************************************************************************)
(* Response chains and recovery of the Codex WebSocket route               *)
(* (src/internal/proxy/wss_recovery.go, wss_stateless_chain_store.go and   *)
(* the request and response handlers of wsmitm_phasef.go).  For every      *)
(* completed response the adapter of a connection remembers the chain of   *)
(* items that led to it, in its own map and in a store all adapters share; *)
(* from a chain it rebuilds a request that no longer needs the server's    *)
(* state, to retry a rejected continuation once, or to expand the next one *)
(* beforehand.                                                             *)
(*                                                                         *)
(* An item is the input of a client turn or the output of a response;      *)
(* what the pipeline does to the text of an item is left out, but not what *)
(* it does to the list of items, to previous_response_id or to the         *)
(* adapter.  The client (one request at a time) and the upstream server    *)
(* are the environment.                                                    *)
(***************************************************************************)
EXTENDS Integers, Sequences, FiniteSets

CONSTANTS
  MaxTurns,   \* bound: requests the client makes
  MaxChains,  \* wssRecoveryMaxChains, the capacity of a chain map
  Scenarios   \* the configurations and environments to consider

(* serverState is the option Proxy.ServerStateEnabled; the rest is what    *)
(* the environment may do: the reconnects, restarts of the daemon, chains  *)
(* of other sessions and errors out of the blue there may be, whether a    *)
(* response may fail after it has streamed an item, whether                *)
(* response.completed leaves its output list out, whether the server may   *)
(* forget a response, and whether writing the retry may fail.              *)
Scenario ==
  [serverState : BOOLEAN, reconnects : Nat, restarts : Nat, others : Nat,
   strays : Nat, midstream : BOOLEAN, omits : BOOLEAN, forgets : BOOLEAN,
   sendFails : BOOLEAN]

ASSUME RecoveryAssumption ==
  /\ MaxTurns \in Nat
  /\ MaxChains \in Nat \ {0}
  /\ Scenarios \subseteq Scenario

Item == [kind : {"in", "out"}, n : Nat]
In(turn) == [kind |-> "in", n |-> turn]
Out(r) == [kind |-> "out", n |-> r]
Chain == Seq(Item)

(* A response.create body: response ids are numbers, 0 is no               *)
(* previous_response_id; pruned when tool definitions were taken out.      *)
Body == [prev : Nat, input : Chain, pruned : BOOLEAN]

(* Classes of upstream errors, as tryWSSRecoveryRetry tells them apart:    *)
(* generic is any retryable invalid request but a missing tool; fatal is   *)
(* everything else (limits, authentication, other statuses and types).     *)
ErrorClass == {"generic", "missing_tool", "fatal"}
Frame == [kind : {"item", "completed", "error"}, r : Nat, output : Chain,
          class : ErrorClass]

(* Response ids are numbers; those of other sessions are negative.         *)
ChainMap == [order : Seq(Int), chains : UNION {[S -> Chain] : S \in SUBSET Int}]
EmptyMap == [order |-> << >>, chains |-> [r \in {} |-> << >>]]

(* A wssRecoveryCandidate; without input there is none.                    *)
Candidate == [input : Chain, prev : Nat, pruned : BOOLEAN, used : BOOLEAN]
NoCandidate == [input |-> << >>, prev |-> 0, pruned |-> FALSE, used |-> FALSE]

Adapter ==
  [responseChains : ChainMap, pendingChain : Chain, pendingOutput : Chain,
   pendingRecovery : Candidate, pendingExport : BOOLEAN, activeRecovery : BOOLEAN,
   historyStatelessMode : BOOLEAN, degraded : BOOLEAN]
NewAdapter ==
  [responseChains |-> EmptyMap, pendingChain |-> << >>, pendingOutput |-> << >>,
   pendingRecovery |-> NoCandidate, pendingExport |-> FALSE, activeRecovery |-> FALSE,
   historyStatelessMode |-> FALSE, degraded |-> FALSE]

VARIABLES
  scenario,  \* configuration and environment; never changes
  adapter,   \* the wsPhaseFAdapter of the current connection
  store,     \* Proxy.wssStatelessChains, shared and outliving adapters
  client,    \* the client: waiting or not, its turn, its last response
  history,   \* the conversation that ended in a response, to the client
  link,      \* the connection to the server: up or broken
  up,        \* bodies on their way to the server
  down,      \* frames on their way to the adapter
  ctx,       \* the conversation that ended in a response, to the server
  known,     \* the responses the server can continue
  sends,     \* times the client's current request was sent upstream
  events     \* reconnects, restarts, others, strays so far

envVars == <<scenario, events>>
serverVars == <<ctx, known>>
recoveryVars == <<scenario, adapter, store, client, history, link, up, down, ctx,
                  known, sends, events>>

RecoveryInit ==
  /\ scenario \in Scenarios
  /\ adapter = NewAdapter
  /\ store = EmptyMap
  /\ client = [waiting |-> FALSE, turn |-> 0, last |-> 0]
  /\ history = [r \in {0} |-> << >>]
  /\ link = "up"
  /\ up = << >>
  /\ down = << >>
  /\ ctx = << >>
  /\ known = {}
  /\ sends = 0
  /\ events = [reconnects |-> 0, restarts |-> 0, others |-> 0, strays |-> 0]

-----------------------------------------------------------------------------
(* Chain maps.                                                             *)

(* Mutant: nothing is evicted.                                             *)
PutForGood(m, r, chain) ==
  [order  |-> IF r \in DOMAIN m.chains THEN m.order ELSE Append(m.order, r),
   chains |-> [id \in DOMAIN m.chains \cup {r} |->
                 IF id = r THEN chain ELSE m.chains[id]]]

(* wssStatelessChainStore.put, and the same code on responseChains: a new  *)
(* id joins the order, and the oldest ids leave when there are too many.   *)
Put(m, r, chain) ==
  LET order == IF r \in DOMAIN m.chains THEN m.order ELSE Append(m.order, r)
      excess == IF Len(order) > MaxChains THEN Len(order) - MaxChains ELSE 0
      kept == SubSeq(order, excess + 1, Len(order))
  IN  [order  |-> kept,
       chains |-> [id \in {kept[i] : i \in DOMAIN kept} |->
                     IF id = r THEN chain ELSE m.chains[id]]]

Get(m, r) == IF r \in DOMAIN m.chains THEN m.chains[r] ELSE << >>

(* wssResponseChain: the adapter's own chain, else the shared one.         *)
ResponseChain(r) ==
  IF Get(adapter.responseChains, r) # << >>
    THEN Get(adapter.responseChains, r) ELSE Get(store, r)

StatelessContinuationChain(r) ==
  IF adapter.historyStatelessMode THEN ResponseChain(r) ELSE Get(store, r)

-----------------------------------------------------------------------------
(* Client requests.                                                        *)

(* A continuation sends the new input and the response it continues; any   *)
(* request may also bring its whole history.                               *)
ClientBodies ==
  LET input == <<In(client.turn + 1)>>
  IN  {[prev |-> client.last, input |-> input, pruned |-> FALSE],
       [prev |-> 0, input |-> history[client.last] \o input, pruned |-> FALSE]}

(* wssRequestShape.                                                        *)
Shape(body) ==
  CASE \E i \in DOMAIN body.input : body.input[i].kind = "out" -> "full_history"
    [] body.prev # 0 -> "delta"
    [] OTHER -> "root"

Expands(body) == /\ ~scenario.serverState
                 /\ body.prev # 0
                 /\ StatelessContinuationChain(body.prev) # << >>

(* Mutant: the expanded body still continues a response.                   *)
ExpandedInPlace(body) ==
  [body EXCEPT !.input = StatelessContinuationChain(body.prev) \o body.input]

(* wssStatelessHistoryContinuationBody.                                    *)
Expanded(body) ==
  [body EXCEPT !.prev = 0,
               !.input = StatelessContinuationChain(body.prev) \o body.input]

(* prepareWSSRecoveryCandidate: body is the recovery body, prev the        *)
(* previous_response_id of the request's metadata.                         *)
Prepared(a, body, prev, pruned) ==
  LET prior == IF prev # 0 THEN ResponseChain(prev) ELSE << >>
      fullInput == prior \o body.input
  IN  [a EXCEPT !.pendingChain = fullInput,
                !.pendingOutput = << >>,
                !.pendingExport = TRUE,
                !.pendingRecovery =
                  IF prior # << >> \/ pruned
                    THEN [input |-> fullInput, prev |-> prev, pruned |-> pruned,
                          used |-> FALSE]
                    ELSE NoCandidate]

(* handleRequest and applyInputPipelineDetailed.  The pipeline may prune   *)
(* tool definitions of a request that continues nothing, and may rewrite a *)
(* continuation or a full history so that the adapter turns stateless; a   *)
(* degraded adapter forwards the client's own body, although its metadata  *)
(* is that of the expanded one.                                            *)
HandleRequest ==
  /\ ~client.waiting
  /\ client.turn < MaxTurns
  /\ link = "up"
  /\ \E body \in ClientBodies, pruned, rewritten \in BOOLEAN :
       LET out == IF Expands(body) THEN Expanded(body) ELSE body
           forwarded == IF adapter.degraded THEN body ELSE out
           arms == \/ Expands(body)
                   \/ rewritten
                   \/ pruned /\ Shape(out) = "full_history"
       IN  /\ pruned => ~adapter.degraded /\ out.prev = 0
           /\ rewritten => ~adapter.degraded /\ Shape(out) # "root"
           /\ adapter' = Prepared(
                [adapter EXCEPT !.historyStatelessMode = @ \/ arms],
                forwarded, out.prev, pruned)
           /\ up' = Append(up, [forwarded EXCEPT !.pruned = pruned])
  /\ client' = [client EXCEPT !.waiting = TRUE, !.turn = @ + 1]
  /\ sends' = 1
  /\ UNCHANGED <<envVars, serverVars, store, history, link, down>>

-----------------------------------------------------------------------------
(* Response frames.                                                        *)

(* The frame goes on to the client.                                        *)
Forward(f) ==
  IF ~client.waiting \/ f.kind = "item" THEN UNCHANGED <<client, history>>
  ELSE /\ client' = [client EXCEPT !.waiting = FALSE,
                                   !.last = IF f.kind = "completed" THEN f.r ELSE @]
       /\ history' =
            IF f.kind # "completed" THEN history
            ELSE [r \in DOMAIN history \cup {f.r} |->
                    IF r = f.r
                      THEN history[client.last] \o <<In(client.turn), Out(f.r)>>
                      ELSE history[r]]

TakeFrame == /\ down' = Tail(down)
             /\ UNCHANGED <<envVars, serverVars>>

(* rememberWSSResponseState of response.output_item.done.                  *)
HandleItem(f) ==
  /\ TakeFrame
  /\ f.kind = "item"
  /\ adapter' = [adapter EXCEPT !.pendingOutput = @ \o f.output]
  /\ Forward(f)
  /\ UNCHANGED <<store, link, up, sends>>

(* Mutant: streamed items are added to the listed ones.                    *)
RememberedTwice(f) == adapter.pendingChain \o adapter.pendingOutput \o f.output

(* observeWSSRecoveryResponse and rememberWSSResponseState of              *)
(* response.completed: the chain goes to the shared store once, for the    *)
(* first response to a request.                                            *)
Remembered(f) ==
  adapter.pendingChain \o
    (IF f.output = << >> THEN adapter.pendingOutput ELSE f.output)

HandleCompleted(f) ==
  /\ TakeFrame
  /\ f.kind = "completed"
  /\ adapter' =
       [adapter EXCEPT
          !.activeRecovery = FALSE,
          !.historyStatelessMode = @ \/ adapter.activeRecovery,
          !.pendingOutput = << >>,
          !.pendingExport = FALSE,
          !.responseChains = IF adapter.pendingChain = << >> THEN @
                             ELSE Put(@, f.r, Remembered(f))]
  /\ store' = IF adapter.pendingExport /\ adapter.pendingChain # << >>
                THEN Put(store, f.r, Remembered(f)) ELSE store
  /\ Forward(f)
  /\ UNCHANGED <<link, up, sends>>

(* wssRetryableInvalidRequest, and what tryWSSRecoveryRetry asks of the    *)
(* candidate.                                                              *)
Retryable(class) ==
  LET c == adapter.pendingRecovery
  IN  /\ class # "fatal"
      /\ c # NoCandidate
      /\ ~c.used
      /\ c.prev = 0 /\ c.pruned => class = "missing_tool"

(* Mutant: the candidate stays fresh.                                      *)
NeverUsed(a, class) == a

(* A retryable error uses the candidate up, whether it is sent or not.     *)
Used(a, class) ==
  IF class # "fatal" /\ a.pendingRecovery # NoCandidate
    THEN [a EXCEPT !.pendingRecovery.used = TRUE] ELSE a

TakeError(f) == TakeFrame /\ f.kind = "error" /\ UNCHANGED store

(* failActiveWSSRecovery: the retry itself was rejected.                   *)
FailRecovery(f) ==
  /\ TakeError(f)
  /\ adapter.activeRecovery
  /\ adapter' = [adapter EXCEPT !.activeRecovery = FALSE, !.degraded = TRUE]
  /\ Forward(f)
  /\ UNCHANGED <<link, up, sends>>

(* tryWSSRecoveryRetry sends the candidate; the error frame is consumed.   *)
RetryRequest(f) ==
  /\ TakeError(f)
  /\ ~adapter.activeRecovery
  /\ Retryable(f.class)
  /\ link = "up"
  /\ up' = Append(up, [prev |-> 0, input |-> adapter.pendingRecovery.input,
                       pruned |-> FALSE])
  /\ adapter' = [Used(adapter, f.class) EXCEPT !.activeRecovery = TRUE,
                                               !.historyStatelessMode = TRUE]
  /\ sends' = sends + 1
  /\ UNCHANGED <<client, history, link>>

(* Mutant: the error frame is consumed although no retry was sent.         *)
SwallowError(f) ==
  /\ TakeError(f)
  /\ ~adapter.activeRecovery
  /\ ~Retryable(f.class) \/ link = "broken"
  /\ adapter' = [Used(adapter, f.class) EXCEPT !.degraded = TRUE]
  /\ UNCHANGED <<client, history, link, up, sends>>

(* No candidate to send, or writing it fails: the session degrades and the *)
(* client sees the error.                                                  *)
SurfaceError(f) ==
  /\ TakeError(f)
  /\ ~adapter.activeRecovery
  /\ \/ ~Retryable(f.class) /\ UNCHANGED <<link, up>>
     \/ /\ Retryable(f.class)
        /\ link = "broken" \/ scenario.sendFails
        /\ link' = "broken"
        /\ up' = << >>
  /\ adapter' = [Used(adapter, f.class) EXCEPT !.degraded = TRUE]
  /\ Forward(f)
  /\ UNCHANGED sends

-----------------------------------------------------------------------------
(* The server, the connection and the daemon.                              *)

OutputItem(r) == [kind |-> "item", r |-> r, output |-> <<Out(r)>>, class |-> "fatal"]
Completed(r) == [kind |-> "completed", r |-> r, class |-> "fatal",
                 output |-> IF scenario.omits THEN << >> ELSE <<Out(r)>>]
Error(class) == [kind |-> "error", r |-> 0, output |-> << >>, class |-> class]

Resolves(body) == body.prev = 0 \/ body.prev \in known

TakeBody == /\ up' = Tail(up)
            /\ UNCHANGED <<envVars, adapter, store, client, history, link, sends>>

(* The server answers with a response, in full or up to a failure.         *)
Accept(body) ==
  LET r == Len(ctx) + 1
  IN  /\ TakeBody
      /\ Resolves(body)
      /\ ctx' = Append(ctx, (IF body.prev = 0 THEN << >> ELSE ctx[body.prev])
                            \o body.input \o <<Out(r)>>)
      /\ \/ /\ down' = down \o <<OutputItem(r), Completed(r)>>
            /\ known' = known \cup {r}
         \/ /\ scenario.midstream
            /\ \E class \in ErrorClass \ {"missing_tool"} :
                 down' = down \o <<OutputItem(r), Error(class)>>
            /\ UNCHANGED known

Reject(body) ==
  /\ TakeBody
  /\ \E class \in ErrorClass :
       /\ class = "missing_tool" => body.pruned
       /\ down' = Append(down, Error(class))
  /\ UNCHANGED serverVars

ServerAnswers == up # << >> /\ (Accept(Head(up)) \/ Reject(Head(up)))

Forget(r) ==
  /\ scenario.forgets
  /\ r \in known
  /\ known' = known \ {r}
  /\ UNCHANGED <<envVars, adapter, store, client, history, link, up, down, ctx, sends>>

Happens(event) == /\ events[event] < scenario[event]
                  /\ events' = [events EXCEPT ![event] = @ + 1]
                  /\ UNCHANGED <<scenario, serverVars, history>>

(* The connections end and the client opens a new one: a new adapter.      *)
FreshConnection ==
  /\ adapter' = NewAdapter
  /\ client' = [client EXCEPT !.waiting = FALSE]
  /\ link' = "up"
  /\ up' = << >>
  /\ down' = << >>
  /\ sends' = 0

Reconnect == Happens("reconnects") /\ FreshConnection /\ UNCHANGED store

DaemonRestart == Happens("restarts") /\ FreshConnection /\ store' = EmptyMap

(* The adapter of another session exports a chain; its response id is one  *)
(* this conversation never gets.                                           *)
OtherSessionExports ==
  /\ Happens("others")
  /\ store' = Put(store, -1 - events.others, <<In(0)>>)
  /\ UNCHANGED <<adapter, client, link, up, down, sends>>

(* An error frame that answers no request.                                 *)
StrayError ==
  /\ Happens("strays")
  /\ \E class \in ErrorClass \ {"missing_tool"} : down' = Append(down, Error(class))
  /\ UNCHANGED <<adapter, store, client, link, up, sends>>

Quiet == /\ ~client.waiting /\ up = << >> /\ down = << >>
         /\ UNCHANGED recoveryVars

HandleFrame ==
  /\ down # << >>
  /\ LET f == Head(down)
     IN  HandleItem(f) \/ HandleCompleted(f) \/ FailRecovery(f) \/ RetryRequest(f)
           \/ SurfaceError(f)

RecoveryNext ==
  \/ HandleRequest
  \/ HandleFrame
  \/ ServerAnswers
  \/ \E r \in known : Forget(r)
  \/ Reconnect
  \/ DaemonRestart
  \/ OtherSessionExports
  \/ StrayError
  \/ Quiet

RecoverySpec == RecoveryInit /\ [][RecoveryNext]_recoveryVars

(* The upstream pump handles what arrives, and the server answers what it  *)
(* receives.  Nothing makes the client send or a connection end.           *)
RecoveryFairness == WF_recoveryVars(HandleFrame) /\ WF_recoveryVars(ServerAnswers)
-----------------------------------------------------------------------------
(* Properties.                                                             *)

(* Every variable holds a value of the type the code gives it; a chain map *)
(* holds exactly the ids of its order, no more than its capacity.          *)
RecoveryTypeOK ==
  /\ scenario \in Scenarios
  /\ adapter.pendingChain \in Chain /\ adapter.pendingOutput \in Chain
  /\ adapter.pendingRecovery \in Candidate
  /\ \A flag \in {"pendingExport", "activeRecovery", "historyStatelessMode", "degraded"} :
       adapter[flag] \in BOOLEAN
  /\ \A m \in {adapter.responseChains, store} :
       /\ m.order \in Seq(Int)
       /\ DOMAIN m.chains = {m.order[i] : i \in DOMAIN m.order}
       /\ Cardinality(DOMAIN m.chains) = Len(m.order)
       /\ Len(m.order) <= MaxChains
       /\ \A r \in DOMAIN m.chains : m.chains[r] \in Chain \ {<< >>}
  /\ client \in [waiting : BOOLEAN, turn : 0 .. MaxTurns, last : DOMAIN history]
  /\ \A r \in DOMAIN history : history[r] \in Chain
  /\ link \in {"up", "broken"}
  /\ up \in Seq(Body)
  /\ down \in Seq(Frame)
  /\ ctx \in Seq(Chain)
  /\ known \subseteq DOMAIN ctx
  /\ sends \in Nat
  /\ \A event \in DOMAIN events : events[event] <= scenario[event]

(* One request of the client reaches the server at most twice, whatever    *)
(* errors arrive, late or out of the blue: Used and activeRecovery keep    *)
(* tryWSSRecoveryRetry from a second retry.                                *)
SentAtMostTwice == sends <= 2

(* The output of a response that failed after streaming may stay in        *)
(* pendingOutput, and a stray error makes a response nobody asked for.     *)
Orderly == scenario.strays = 0 /\ ~(scenario.midstream /\ scenario.omits)

(* A remembered chain that reaches back to the start of its conversation   *)
(* is that conversation: no item is lost, doubled, or taken from another   *)
(* turn, through retries, expansions, evictions and reconnects.            *)
ChainsExact ==
  Orderly => \A m \in {adapter.responseChains, store} :
    \A r \in DOMAIN m.chains \cap DOMAIN history :
      Head(m.chains[r]) = Head(history[r]) => m.chains[r] = history[r]

(* Nothing made a chain that a later request needs disappear: not a        *)
(* restart, not another session's chains, and no degraded adapter recorded *)
(* a continuation as if it were a conversation (as one does without        *)
(* ServerStateEnabled) for the adapter of a new connection to expand.      *)
ChainsSurvive == /\ scenario.restarts = 0
                 /\ scenario.others = 0
                 /\ scenario.serverState \/ scenario.reconnects = 0

SameView == \A r \in DOMAIN history \ {0} : ctx[r] = history[r]

(* As long as errors answer requests and chains survive, the server        *)
(* answered in the context of the whole conversation, however often        *)
(* requests were retried, rewritten to stand alone, or continued by a new  *)
(* connection's adapter.                                                   *)
SameConversation == Orderly /\ ChainsSurvive => SameView

(* Both: what the adapters remember of conversations, and what the server  *)
(* makes of it.                                                            *)
ConversationKept == ChainsExact /\ SameConversation

(* Every request ends: in a completed response, in an error the client     *)
(* sees, or with its connection; a consumed error frame is no end.         *)
EveryRequestAnswered == client.waiting ~> ~client.waiting

(* What docs/documentation.md says of the recovery retry, that it is made  *)
(* with the exact local chain and the full reconstructed input: no         *)
(* response is given in a shortened conversation.                          *)
AnsweredInFullContext == Orderly => SameView
=============================================================================
