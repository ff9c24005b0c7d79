----------------------------- MODULE MCWssRecovery -----------------------------
(* Instances of WssRecovery for TLC.                                       *)
EXTENDS WssRecovery

Calm == [serverState |-> TRUE, reconnects |-> 1, restarts |-> 0, others |-> 0,
         strays |-> 0, midstream |-> FALSE, omits |-> FALSE, forgets |-> TRUE,
         sendFails |-> TRUE]

(* The default configuration with outputs listed or not, and with failures *)
(* in the middle of a response; stateless expansion; a full store; a       *)
(* restart; errors out of the blue.                                        *)
MCScenarios ==
  {Calm,
   [Calm EXCEPT !.omits = TRUE],
   [Calm EXCEPT !.midstream = TRUE],
   [Calm EXCEPT !.midstream = TRUE, !.omits = TRUE, !.reconnects = 0],
   [Calm EXCEPT !.serverState = FALSE],
   [Calm EXCEPT !.serverState = FALSE, !.reconnects = 0],
   [Calm EXCEPT !.others = 2],
   [Calm EXCEPT !.restarts = 1, !.reconnects = 0],
   [Calm EXCEPT !.strays = 1, !.reconnects = 0]}

(* A restart of the daemon and a server that rejects a continuation.       *)
TruncatedScenarios == {[Calm EXCEPT !.restarts = 1, !.reconnects = 0,
                                    !.forgets = FALSE, !.sendFails = FALSE]}
=============================================================================
