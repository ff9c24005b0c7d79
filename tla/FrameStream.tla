---------------------------- MODULE FrameStream ----------------------------
(***************************************************************************)
(* What the bridge owes the upstream, however many goroutines write to its *)
(* connection: messages arrive whole, each writer's in the order it wrote  *)
(* them, none twice and none skipped.  A stream that stops being parseable *)
(* stays so: nothing is delivered from then on.                            *)
(***************************************************************************)
EXTENDS Naturals, Sequences

CONSTANT Writers

VARIABLES
  arrived,  \* per writer: the numbers of its messages that have arrived
  broken    \* the upstream can no longer parse the stream

StreamInit == /\ arrived = [w \in Writers |-> << >>]
              /\ broken = FALSE

Deliver(w) == /\ ~broken
              /\ arrived' = [arrived EXCEPT ![w] = Append(@, Len(@) + 1)]
              /\ UNCHANGED broken

Break == /\ broken' = TRUE
         /\ UNCHANGED arrived

StreamNext == Break \/ \E w \in Writers : Deliver(w)

StreamSpec == StreamInit /\ [][StreamNext]_<<arrived, broken>>
=============================================================================
