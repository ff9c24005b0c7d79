--------------------------- MODULE MCRequestPath ---------------------------
(* The worlds TLC explores RequestPath in.                                 *)
EXTENDS RequestPath

CONSTANTS q1, q2, v1, v2, u1, u2  \* handlers, conversations, tools

(* Questions without tools; with the history or after the last reply, with *)
(* a streamed answer, or the output of a tool.                             *)
Question == [adds |-> <<"user">>, delta |-> FALSE, stream |-> FALSE, always |-> FALSE,
             lists |-> {}, uses |-> {}, mentions |-> {}, needs |-> {}]
Delta == [Question EXCEPT !.delta = TRUE]
Turns == {Question, Delta, [Question EXCEPT !.stream = TRUE],
          [Question EXCEPT !.adds = <<"output">>]}

(* Both tools: one was used, one is needed; one that is not listed is      *)
(* named and needed; one is needed beside what is always kept.             *)
Both == [Question EXCEPT !.lists = {u1, u2}]
Using == [Both EXCEPT !.uses = {u2}]
Needy == [Both EXCEPT !.needs = {u1}]
Naming == [Question EXCEPT !.lists = {u2}, !.mentions = {u1}, !.needs = {u1}]
Beside == [Needy EXCEPT !.always = TRUE]

(* A session of tools is one that has left them idle; two requests in it,  *)
(* or one in each of two, of which the tracker knows one; and a tool that  *)
(* is missed, kept for a turn and judged again beside another request.     *)
ToolWorld ==
  [levers |-> {"prune"}, shapes |-> {Using, Needy, Naming}, servers |-> {q1, q2},
   dialogs |-> {v1}, old |-> {v1}, turns |-> 3, troubles |-> 0]
RivalWorld == [ToolWorld EXCEPT !.shapes = {Needy}, !.dialogs = {v1, v2}]
RepeatWorld == [ToolWorld EXCEPT !.turns = 4, !.shapes = {Needy, Naming}]

(* Conversations without tools, one after the other or at once.            *)
TurnWorld ==
  [ToolWorld EXCEPT !.levers = {"hints", "anchor"}, !.shapes = Turns, !.servers = {q1},
                    !.old = {}, !.troubles = 2]
EvictingWorld ==
  [TurnWorld EXCEPT !.levers = {"anchor"}, !.shapes = {Question}, !.servers = {q1, q2},
                    !.dialogs = {v1, v2}, !.troubles = 1]
LongWorld ==
  [EvictingWorld EXCEPT !.shapes = {Question, Delta}, !.servers = {q1}, !.turns = 5]

(* All levers at once, with faults.                                        *)
AllWorld ==
  [ToolWorld EXCEPT !.levers = {"prune", "hints", "anchor"}, !.servers = {q1},
                    !.shapes = {Needy, Naming, Beside}, !.turns = 2, !.troubles = 2]

MCWorlds == {ToolWorld, RepeatWorld, RivalWorld, TurnWorld, EvictingWorld, LongWorld, AllWorld}
MCTurnWorlds == {[TurnWorld EXCEPT !.troubles = 0]}
=============================================================================
