----------------------------- MODULE RequestPath -----------------------------
(***************************************************************************)
(* The stateful part of an HTTP request's way through the proxy            *)
(* (src/internal/proxy/handler.go): idle tool definitions are pruned and   *)
(* brought back (src/internal/toolprune), prompt-cache hints are added,    *)
(* the history is replaced by the id of the last answer (server_state.go,  *)
(* src/internal/sessions/response_state.go), and the upstream's refusal of *)
(* any of the three is answered by a request without it.                   *)
(***************************************************************************)
EXTENDS Integers, FiniteSets, SequencesExt

CONSTANTS
  Server,        \* goroutines that handle requests
  Conversation,        \* conversations: a session key of every request
  Tool,          \* tools that are not always kept
  World,         \* bound: configurations, each with the clients and faults it meets
  IdleThreshold, \* turns without a use after which a tool is idle
  MaxTracked,    \* UsageTracker.maxSessions
  MaxAnchors,    \* ResponseStateStore.maxEntries
  NoId, NoTurn   \* no response id; no turn of a user

(* What a request adds to its conversation and says of tools: whether it   *)
(* lists one that is always kept, and what it lists, used, names and needs *)
(* of the others.                                                          *)
IsShape(q) == q \in [adds : Seq({"user", "output"}), delta : BOOLEAN, stream : BOOLEAN,
                     always : BOOLEAN, lists : SUBSET Tool, uses : SUBSET Tool,
                     mentions : SUBSET Tool, needs : SUBSET Tool]

ASSUME RequestPathAssumption ==
  /\ \A w \in World :
       /\ w.levers \subseteq {"prune", "hints", "anchor"}
       /\ \A q \in w.shapes : IsShape(q)
       /\ w.servers \subseteq Server /\ w.old \subseteq w.dialogs /\ w.dialogs \subseteq Conversation
       /\ IsFiniteSet(w.old) /\ Cardinality(w.old) <= MaxTracked
       /\ w.turns \in Nat /\ w.troubles \in Nat
  /\ IdleThreshold \in Nat /\ MaxTracked \in Nat \ {0} /\ MaxAnchors \in Nat \ {0}
  /\ NoId \notin Nat

VARIABLES
  world,    \* which levers are on, and the bounds
  talk,      \* per conversation: the turns its client has
  tracker,  \* UsageTracker: its sessions from the idlest on, what it knows of each
  anchor,   \* ResponseStateStore: its sessions from the oldest on, their ids
  rejected, \* the upstream has refused prompt-cache hints less than 30 minutes ago
  known,    \* upstream: the responses it stores, each with what it was made from
  ids,      \* upstream: responses so far
  way,      \* per goroutine: its request's way
  turns,    \* requests so far
  troubles, \* what went wrong so far
  odd,      \* conversations that were more than one question at a time
  misses    \* tools missed that it knew: conversation, tool, turn of the tracker

clientVars == <<talk, turns, odd>>
upstreamVars == <<known, ids>>
requestPathVars == <<world, clientVars, tracker, anchor, rejected, upstreamVars, way,
                     troubles, misses>>

Idle == [at |-> "idle"]
Never == -1
Unused == [turn |-> 0, seen |-> [t \in Tool |-> Never], defs |-> {}, cool |-> 0]

(* A session that used all tools in its first turn, none after it.         *)
Aged == [Unused EXCEPT !.turn = IdleThreshold + 1, !.seen = [t \in Tool |-> 1]]

RequestPathInit ==
  /\ world \in World
  /\ talk = [d \in Conversation |-> << >>]
  /\ tracker = [order |-> SetToSeq(world.old),
                use |-> [d \in Conversation |-> IF d \in world.old THEN Aged ELSE Unused]]
  /\ anchor = [order |-> << >>, id |-> [d \in Conversation |-> NoId]]
  /\ rejected = FALSE
  /\ known = << >> /\ ids = 0
  /\ way = [s \in Server |-> Idle]
  /\ turns = 0 /\ troubles = 0
  /\ odd = {} /\ misses = {}

Trouble == troubles < world.troubles /\ troubles' = troubles + 1

(* The request of s goes from one place to another, as w says of it.       *)
Go(s, from, w) == way[s].at = from /\ way' = [way EXCEPT ![s] = w]

-----------------------------------------------------------------------------
(* The client.  A body lists its items; a reply is the item of its id.     *)

ReplyItem(id) == <<"reply", id, 0>>
IsUser(item) == item[1] = "user"
IsReply(item) == item[1] = "reply"

(* A request with the whole history, or with the new items after the last  *)
(* reply the client has.                                                   *)
Ask(s) ==
  /\ s \in world.servers /\ way[s].at = "idle" /\ turns < world.turns
  /\ turns' = turns + 1
  /\ \E d \in world.dialogs, q \in world.shapes :
       LET new == [i \in DOMAIN q.adds |-> <<q.adds[i], turns', i>>]
           reply == SelectLastInSeq(talk[d], IsReply)
           delta == q.delta /\ reply # 0
           input == IF delta THEN new ELSE talk[d] \o new
           user == SelectLastInSeq(input, IsUser)
           own == [items |-> ToSet(input), tools |-> q.lists, hints |-> FALSE,
                   prev |-> IF delta THEN talk[d][reply][2] ELSE NoId]
           alone == \A o \in Server : way[o].at # "idle" => way[o].dialog # d
       IN  /\ q.adds[1] = "output" => reply # 0
           /\ odd' = IF q.adds = <<"user">> /\ ~q.stream /\ alone THEN odd ELSE odd \cup {d}
           /\ way' = [way EXCEPT ![s] =
                [at |-> IF "prune" \in world.levers THEN "mention" ELSE "hint",
                 dialog |-> d, history |-> talk[d] \o new, stream |-> q.stream,
                 last |-> IF user = 0 THEN NoTurn ELSE input[user],
                 own |-> own, sent |-> own, resp |-> "none", id |-> NoId, from |-> {},
                 always |-> q.always, uses |-> q.uses, mentions |-> q.mentions, needs |-> q.needs,
                 full |-> q.lists, todo |-> {}, dropped |-> {},
                 hinted |-> FALSE, anchored |-> FALSE, stage |-> 1, tries |-> 0,
                 again |-> FALSE, accepted |-> 0, gone |-> FALSE]]
  /\ UNCHANGED <<world, talk, tracker, anchor, rejected, upstreamVars, troubles, misses>>

(* The client closes its connection: the request's context is cancelled.   *)
Disconnect(s) ==
  /\ way[s].at # "idle" /\ ~way[s].gone
  /\ Trouble
  /\ way' = [way EXCEPT ![s].gone = TRUE]
  /\ odd' = odd \cup {way[s].dialog}
  /\ UNCHANGED <<world, talk, turns, tracker, anchor, rejected, upstreamVars, misses>>

-----------------------------------------------------------------------------
(* The tracker of tool usage, one lock at a time.                          *)

Tracked(d) == d \in ToSet(tracker.order)

(* The sessions of a store, in their order, without the one that is going  *)
(* to be the last or to be dropped.                                        *)
Without(order, d) ==
  IF d \in ToSet(order) THEN RemoveAt(order, CHOOSE i \in DOMAIN order : order[i] = d)
  ELSE order

(* A session is written, as the most recently active one; for a new one    *)
(* the idlest makes room.                                                  *)
Tracks(d, usage, missed) ==
  LET evicts == ~Tracked(d) /\ Len(tracker.order) >= MaxTracked
      rest == IF evicts THEN Tail(tracker.order)
              ELSE Without(tracker.order, d)
      out == IF evicts THEN {Head(tracker.order)} ELSE {}
  IN  /\ tracker' = [order |-> Append(rest, d),
                     use |-> [o \in Conversation |-> IF o = d THEN usage
                                               ELSE IF o \in out THEN Unused
                                               ELSE tracker.use[o]]]
      /\ misses' = {m \in misses : m[1] \notin out} \cup missed

SameTracker == UNCHANGED <<tracker, misses>>

(* PrunedToolNames: which of them does an instruction mention?             *)
Mention(s) ==
  LET w == way[s]
      names == w.mentions \cap tracker.use[w.dialog].defs
  IN  /\ Go(s, "mention", [w EXCEPT !.todo = names,
                                    !.at = IF names = {} THEN "observe" ELSE "peek"])
      /\ SameTracker

(* PeekPrunedDefs; ReattachToolDefinitions adds what the body does not     *)
(* list, and only if it added something the names count as used.           *)
Peek(s) ==
  LET w == way[s]
      defs == w.todo \cap tracker.use[w.dialog].defs
  IN  /\ Go(s, "peek", IF defs \subseteq w.full
                         THEN [w EXCEPT !.at = "observe", !.todo = {}]
                         ELSE [w EXCEPT !.at = "forget", !.full = @ \cup defs,
                                        !.uses = @ \cup defs])
      /\ SameTracker

ForgetDefs(s) ==
  LET w == way[s]
  IN  /\ Go(s, "forget", [w EXCEPT !.at = "observe", !.todo = {}])
      /\ tracker' = [tracker EXCEPT !.use[w.dialog].defs = @ \ w.todo]
      /\ UNCHANGED misses

ObserveTurn(s) ==
  LET w == way[s]
      u == tracker.use[w.dialog]
  IN  \/ /\ Go(s, "observe", [w EXCEPT !.at = "hint"])
         /\ w.full = {} /\ ~w.always
         /\ SameTracker
      \/ /\ Go(s, "observe", [w EXCEPT !.at = "cool"])
         /\ w.full # {} \/ w.always
         /\ Tracks(w.dialog,
                   [u EXCEPT !.turn = @ + 1,
                             !.seen = [t \in Tool |-> IF t \in w.uses THEN u.turn + 1
                                                      ELSE @[t]]], {})

(* DecideWithOptions, in four steps: consumeQualityCooldown, Active for    *)
(* one tool after the other, and the most recently used one if none is     *)
(* left (MinKeep is 1).                                                    *)
ConsumeCooldown(s) ==
  LET w == way[s]
      u == tracker.use[w.dialog]
  IN  \/ /\ Go(s, "cool", [w EXCEPT !.at = "hint"])
         /\ u.cool > 0
         /\ Tracks(w.dialog, [u EXCEPT !.cool = @ - 1], {})
      \/ /\ Go(s, "cool", [w EXCEPT !.at = "judge", !.todo = w.full])
         /\ u.cool = 0
         /\ SameTracker

Warm(u, t) == u.seen[t] = Never \/ u.turn - u.seen[t] <= IdleThreshold
ActiveTool(d, t) == Warm(tracker.use[d], t)

JudgeTool(s) ==
  LET w == way[s]
  IN  /\ w.at = "judge"
      /\ \E t \in w.todo :
           Go(s, "judge", [w EXCEPT !.todo = @ \ {t},
                                    !.dropped = IF ActiveTool(w.dialog, t) THEN @ ELSE @ \cup {t}])
      /\ SameTracker

KeepOne(s) ==
  LET w == way[s]
      seen == tracker.use[w.dialog].seen
      spared(t) == \A o \in w.dropped : seen[o] <= seen[t]
      leaves(ts) == Go(s, "judge", [w EXCEPT !.dropped = ts, !.todo = ts,
                                       !.at = IF ts = {} THEN "hint" ELSE "remember"])
  IN  /\ w.at = "judge" /\ w.todo = {}
      /\ IF w.dropped = w.full /\ w.dropped # {} /\ ~w.always /\ Tracked(w.dialog)
           THEN \E t \in w.dropped : spared(t) /\ leaves(w.dropped \ {t})
           ELSE leaves(w.dropped)
      /\ SameTracker

RememberDef(s) ==
  LET w == way[s]
      u == tracker.use[w.dialog]
  IN  w.at = "remember" /\ \E t \in w.todo :
        /\ Go(s, "remember", [w EXCEPT !.todo = @ \ {t},
                                       !.at = IF w.todo = {t} THEN "hint" ELSE @])
        /\ Tracks(w.dialog, [u EXCEPT !.defs = @ \cup {t}], {})

Prune(s) == /\ \/ Mention(s) \/ Peek(s) \/ ForgetDefs(s) \/ ObserveTurn(s)
               \/ ConsumeCooldown(s) \/ JudgeTool(s) \/ KeepOne(s) \/ RememberDef(s)
            /\ UNCHANGED <<world, clientVars, anchor, rejected, upstreamVars, troubles>>

-----------------------------------------------------------------------------
(* What is sent upstream.                                                  *)

Kept(w) == w.full \ w.dropped

Whole(w, tools, hints) == [w.own EXCEPT !.tools = tools, !.hints = hints]

(* rewriteWithPreviousID: of the items only the last turn of the user.     *)
Rewritten(w, body, id) ==
  IF id = NoId \/ w.last = NoTurn THEN body
  ELSE [body EXCEPT !.items = {w.last}, !.prev = id]

AddHints(s) ==
  LET w == way[s]
  IN  Go(s, "hint", [w EXCEPT !.at = "rewrite",
                              !.hinted = "hints" \in world.levers /\ ~rejected])

UseAnchor(s) ==
  LET w == way[s]
      id == IF "anchor" \in world.levers THEN anchor.id[w.dialog] ELSE NoId
      body == Whole(w, Kept(w), w.hinted)
  IN  Go(s, "rewrite", [w EXCEPT !.at = "send", !.sent = Rewritten(w, body, id),
                                 !.anchored = id # NoId /\ w.last # NoTurn])

Prepare(s) == /\ AddHints(s) \/ UseAnchor(s)
              /\ SameTracker
              /\ UNCHANGED <<world, clientVars, anchor, rejected, upstreamVars, troubles>>

-----------------------------------------------------------------------------
(* doUpstreamRequest and the upstream it meets: twice more for one that is *)
(* busy; for one whose context overflows the client's own body compressed  *)
(* aggressively, then as it is.                                            *)

MaxRetries == 2
Attempt == {"send", "aggressive", "original"}
Body(w) == IF w.at = "send" THEN w.sent ELSE w.own

Refuses(w, resp) ==
  \/ resp = "hints" /\ Body(w).hints
  \/ resp = "missing" /\ ~(w.needs \subseteq Body(w).tools)
  \/ resp = "unknown" /\ Body(w).prev # NoId /\ Body(w).prev \notin DOMAIN known

Answered(w, resp) == [w EXCEPT !.at = "answered", !.resp = resp]
Original(w) == [w EXCEPT !.at = "original"]

(* An aggressively compressed body is given up for a status of 400.        *)
UpstreamRefuses(s) ==
  LET w == way[s]
  IN  /\ \E resp \in {"hints", "missing", "unknown"} :
           /\ Refuses(w, resp)
           /\ \/ Go(s, w.at, Answered(w, resp))
              \/ w.at = "aggressive" /\ Go(s, w.at, Original(w))
      /\ UNCHANGED <<upstreamVars, troubles>>

UpstreamTroubled(s) ==
  LET w == way[s]
  IN  /\ Trouble
      /\ \/ /\ w.at = "send" /\ w.tries < MaxRetries
            /\ Go(s, "send", [w EXCEPT !.tries = @ + 1])
         \/ /\ w.at # "send" \/ w.tries = MaxRetries
            /\ Go(s, w.at, Answered(w, "busy"))
         \/ /\ w.at = "send"
            /\ \E to \in {"aggressive", "original"} : Go(s, "send", [w EXCEPT !.at = to])
         \/ w.at = "aggressive" /\ Go(s, w.at, Original(w))
         \/ w.at # "aggressive" /\ Go(s, w.at, Answered(w, "error"))
      /\ UNCHANGED upstreamVars

Accepts(s) ==
  LET w == way[s]
      b == Body(w)
      from == b.items \cup (IF b.prev = NoId THEN {} ELSE known[b.prev])
      taken == [w EXCEPT !.accepted = @ + 1]
  IN  /\ ~Refuses(w, "missing") /\ ~Refuses(w, "unknown")
      /\ ids' = ids + 1
      /\ known' = [id \in DOMAIN known \cup {ids'} |->
                     IF id = ids' THEN from \cup {ReplyItem(id)} ELSE known[id]]
      /\ \/ /\ Go(s, w.at, [Answered(taken, "ok") EXCEPT !.id = ids', !.from = from])
            /\ UNCHANGED troubles
         \/ Trouble /\ Go(s, w.at, IF w.at = "aggressive"
                                     THEN [Original(taken) EXCEPT !.again = TRUE] ELSE Idle)

(* The connection fails before the upstream has read the request.          *)
Unreachable(s) ==
  LET w == way[s]
  IN  /\ Trouble
      /\ Go(s, w.at, IF w.at = "aggressive" THEN Original(w) ELSE Idle)
      /\ UNCHANGED upstreamVars

Send(s) == /\ way[s].at \in Attempt
           /\ IF way[s].gone
                THEN way' = [way EXCEPT ![s] = Idle] /\ UNCHANGED <<upstreamVars, troubles>>
                ELSE \/ UpstreamRefuses(s) \/ UpstreamTroubled(s)
                     \/ Accepts(s) \/ Unreachable(s)
           /\ SameTracker
           /\ UNCHANGED <<world, clientVars, anchor, rejected>>

-----------------------------------------------------------------------------
(* What the handler makes of the answer: three retries in a fixed order.   *)

Resend(s, stage, body) ==
  way' = [way EXCEPT ![s] = [@ EXCEPT !.at = "send", !.tries = 0, !.stage = stage,
                                      !.sent = body]]

AnchorNow(w) == IF w.anchored THEN anchor.id[w.dialog] ELSE NoId

(* A mutant: one retry only.                                               *)
MissedToolsFirst(w) == w.stage = 1 /\ w.resp = "missing" /\ w.dropped # {}

RefusedHints(w) == w.stage = 1 /\ w.resp = "hints" /\ w.hinted
MissedTools(w) == w.stage <= 2 /\ w.resp = "missing" /\ w.dropped # {}
LostAnchor(w) == w.stage <= 3 /\ w.resp = "unknown" /\ w.anchored

RetryWithoutHints(s) ==
  LET w == way[s]
  IN  /\ RefusedHints(w)
      /\ rejected' = TRUE
      /\ Resend(s, 2, Rewritten(w, Whole(w, Kept(w), FALSE), AnchorNow(w)))
      /\ SameTracker
      /\ UNCHANGED <<talk, anchor, troubles>>

(* A mutant: a miss is counted, as it is without a session, no more.       *)
MissCounted(d, dropped) ==
  LET u == tracker.use[d]
  IN  Tracks(d, u, {<<d, t, u.turn>> : t \in dropped \cap u.defs})

(* MarkMiss: every tool whose definition is remembered counts as used. One *)
(* that was dropped, but whose definition is gone, does not.               *)
Missed(d, dropped) ==
  LET u == tracker.use[d]
  IN  Tracks(d, [u EXCEPT !.cool = 1,
                          !.seen = [t \in Tool |-> IF t \in u.defs THEN u.turn ELSE @[t]]],
             {<<d, t, u.turn>> : t \in dropped \cap u.defs})

RetryWithAllTools(s) ==
  LET w == way[s]
  IN  /\ MissedTools(w)
      /\ Missed(w.dialog, w.dropped)
      /\ Resend(s, 3, Rewritten(w, Whole(w, w.full, FALSE), AnchorNow(w)))
      /\ UNCHANGED <<talk, anchor, rejected, troubles>>

(* A mutant: the entry that is replaced or dropped stays in line.          *)
AllOf(d) == anchor.order

Others(d) == Without(anchor.order, d)

(* A mutant: the shortened body once more, only without the id.            *)
RetryShortened(s) ==
  LET w == way[s]
  IN  /\ LostAnchor(w)
      /\ anchor' = [order |-> Others(w.dialog), id |-> [anchor.id EXCEPT ![w.dialog] = NoId]]
      /\ Resend(s, 4, [w.sent EXCEPT !.prev = NoId])
      /\ SameTracker
      /\ UNCHANGED <<talk, rejected, troubles>>

RetryUnanchored(s) ==
  LET w == way[s]
  IN  /\ LostAnchor(w)
      /\ anchor' = [order |-> Others(w.dialog), id |-> [anchor.id EXCEPT ![w.dialog] = NoId]]
      /\ Resend(s, 4, Whole(w, Kept(w), w.hinted))
      /\ SameTracker
      /\ UNCHANGED <<talk, rejected, troubles>>

(* A body that is not a stream is read to its end before the client gets   *)
(* any of it; its id is kept after that.                                   *)
Deliver(s) ==
  LET w == way[s]
      reaches == talk' = IF w.gone THEN talk
                        ELSE [talk EXCEPT ![w.dialog] = Append(w.history, ReplyItem(w.id))]
  IN  /\ ~RefusedHints(w) /\ ~MissedTools(w) /\ ~LostAnchor(w)
      /\ \/ /\ w.resp # "ok"
            /\ way' = [way EXCEPT ![s] = Idle]
            /\ UNCHANGED <<talk, troubles>>
         \/ /\ w.resp = "ok"
            /\ way' = [way EXCEPT ![s] = IF w.stream THEN Idle ELSE [w EXCEPT !.at = "store"]]
            /\ reaches
            /\ UNCHANGED troubles
         \/ /\ w.resp = "ok"
            /\ way' = [way EXCEPT ![s] = Idle]
            /\ (w.gone /\ UNCHANGED troubles) \/ Trouble
            /\ UNCHANGED talk
      /\ SameTracker
      /\ UNCHANGED <<anchor, rejected>>

(* Set.                                                                    *)
StoreId(s) ==
  LET d == way[s].dialog
      order == Append(Others(d), d)
      full == Len(order) > MaxAnchors
  IN  /\ Go(s, "store", Idle)
      /\ IF "anchor" \in world.levers
           THEN anchor' = [order |-> IF full THEN Tail(order) ELSE order,
                           id |-> [o \in Conversation |-> IF o = d THEN way[s].id
                                                    ELSE IF full /\ o = Head(order) THEN NoId
                                                    ELSE anchor.id[o]]]
           ELSE UNCHANGED anchor
      /\ SameTracker
      /\ UNCHANGED <<talk, rejected, troubles>>

Respond(s) == /\ \/ /\ way[s].at = "answered"
                    /\ \/ RetryWithoutHints(s) \/ RetryWithAllTools(s)
                       \/ RetryUnanchored(s) \/ Deliver(s)
                 \/ StoreId(s)
              /\ UNCHANGED <<world, turns, odd, upstreamVars>>

-----------------------------------------------------------------------------

(* The upstream drops a response it has stored.                            *)
UpstreamForgets ==
  /\ Trouble
  /\ \E old \in DOMAIN known :
       known' = [id \in DOMAIN known \ {old} |-> known[id]]
  /\ UNCHANGED <<world, clientVars, tracker, anchor, rejected, ids, way, misses>>

(* openAIPromptCacheRejectTTL has passed.                                  *)
RejectionExpires ==
  /\ rejected /\ rejected' = FALSE
  /\ UNCHANGED <<world, clientVars, tracker, anchor, upstreamVars, way, troubles, misses>>

RequestPathNext ==
  \/ \E s \in Server : Ask(s) \/ Disconnect(s) \/ Prune(s) \/ Prepare(s) \/ Send(s) \/ Respond(s)
  \/ UpstreamForgets \/ RejectionExpires

RequestPathSpec == RequestPathInit /\ [][RequestPathNext]_requestPathVars

-----------------------------------------------------------------------------
(* Properties.                                                             *)

(* The state has its types: the stores stay within their limits and hold   *)
(* nothing of a conversation they do not track.                            *)
Place == {"mention", "peek", "forget", "observe", "cool", "judge", "remember", "hint",
          "rewrite", "store", "answered"} \cup Attempt
Response == {"none", "ok", "busy", "error", "hints", "missing", "unknown"}
Entry == ({"user", "output"} \X Nat \X Nat) \cup ({"reply"} \X Nat \X {0})
Id == Nat \cup {NoId}
Sendable == [items : SUBSET Entry, tools : SUBSET Tool, hints : BOOLEAN, prev : Id]
Way == [at : Place, dialog : Conversation, history : Seq(Entry), stream : BOOLEAN,
        last : Entry \cup {NoTurn}, own : Sendable, sent : Sendable, resp : Response,
        id : Id, from : SUBSET Entry, always : BOOLEAN, uses : SUBSET Tool,
        mentions : SUBSET Tool, needs : SUBSET Tool, full : SUBSET Tool,
        todo : SUBSET Tool, dropped : SUBSET Tool, hinted : BOOLEAN, anchored : BOOLEAN,
        stage : 1 .. 4, tries : 0 .. MaxRetries, again : BOOLEAN, accepted : Nat,
        gone : BOOLEAN]
Usage == [turn : Nat, seen : [Tool -> Nat \cup {Never}], defs : SUBSET Tool, cool : Nat]

RequestPathTypeOK ==
  /\ world \in World /\ rejected \in BOOLEAN /\ turns \in Nat /\ troubles \in Nat
  /\ talk \in [Conversation -> Seq(Entry)] /\ odd \subseteq Conversation
  /\ way \in [Server -> Way \cup {Idle}]
  /\ ids \in Nat /\ DOMAIN known \subseteq 1 .. ids /\ known \in [DOMAIN known -> SUBSET Entry]
  /\ misses \subseteq Conversation \X Tool \X Nat
  /\ tracker \in [order : Seq(Conversation), use : [Conversation -> Usage]]
  /\ anchor \in [order : Seq(Conversation), id : [Conversation -> 1 .. ids \cup {NoId}]]
  /\ \A store \in {tracker.order, anchor.order} : IsInjective(store)
  /\ Len(tracker.order) <= MaxTracked /\ Len(anchor.order) <= MaxAnchors
  /\ \A d \in Conversation :
       /\ ~Tracked(d) => tracker.use[d] = Unused
       /\ anchor.id[d] = NoId <=> d \notin ToSet(anchor.order)

(* An answer is made from everything that the client's request says.       *)
InFull(w) == w.at = "answered" /\ w.resp = "ok" => w.from = ToSet(w.history)

(* In a conversation of single questions, one request at a time and not    *)
(* streamed, each of which the client waits for and drops when it fails,   *)
(* every answer is made from the client's whole history and nothing else,  *)
(* although the proxy sends its end only: through lost answers, refused    *)
(* hints, tools and ids, overflows, and ids that the proxy or the upstream *)
(* has dropped.                                                            *)
QuestionsAnsweredInFull ==
  \A s \in Server : way[s].at # "idle" /\ way[s].dialog \notin odd => InFull(way[s])

(* What server_state.go says of rewriteWithPreviousID, that it leaves a    *)
(* body alone which it cannot rewrite safely.                              *)
AnsweredInFull == \A s \in Server : way[s].at # "idle" => InFull(way[s])

(* A refusal that the request as the client sent it would not have got.    *)
OwnFault(w) ==
  \/ w.resp = "hints"
  \/ w.resp = "missing" /\ w.needs \subseteq w.own.tools
  \/ w.resp = "unknown" /\ w.own.prev = NoId

(* The client does not get a refusal that is due to what the proxy made of *)
(* its request, unless the last retry took back the id but neither hints   *)
(* nor pruned tools; and the upstream accepts a request once, unless the   *)
(* answer to the aggressively compressed body gets lost.                   *)
RetriedInSecret ==
  \A s \in Server : LET w == way[s] IN w.at # "idle" =>
    /\ w.at = "answered" /\ OwnFault(w) =>
         \/ RefusedHints(w) \/ MissedTools(w) \/ LostAnchor(w)
         \/ w.stage = 4 /\ (w.hinted \/ w.dropped # {})
    /\ w.accepted > 1 => w.again

(* A tool that was missed upstream while the tracker remembered its        *)
(* definition is not dropped again by any request of its conversation,     *)
(* until it has been idle for IdleThreshold more turns: in spite of        *)
(* evictions, of the one full schema being used up by another request, and *)
(* of requests that were under way when it was missed.                     *)
Drops(s, t) == way[s].at = "judge" /\ way'[s].at = "judge" /\ t \in way'[s].dropped \ way[s].dropped

MissedToolsStay ==
  [][\A s \in Server : way[s].at = "judge" =>
       \A m \in misses :
         m[1] = way[s].dialog /\ Drops(s, m[2]) =>
           tracker.use[m[1]].turn > m[3] + IdleThreshold]_requestPathVars
=============================================================================
