---------------------------- MODULE MCWsSession ----------------------------
(* The sessions and environments TLC explores WsSession with.              *)
EXTENDS WsSession

Each(c2s, s2c) == [d \in Dir |-> IF d = "c2s" THEN c2s ELSE s2c]

(* Three compressed messages from the client, no one leaving.              *)
Deep == [negotiated |-> TRUE, noTakeover |-> Each(FALSE, FALSE),
         verdicts |-> Each(AllVerdicts, {}), maxMsgs |-> Each(3, 0),
         kinds |-> AllKinds, rsv1 |-> {TRUE}, leavers |-> {},
         cancels |-> FALSE]

(* Compressed and plain messages in both directions.                       *)
Mixed == [Deep EXCEPT !.verdicts = Each({"keep", "replace", "consume"},
                                        {"replace"}),
                      !.maxMsgs = Each(2, 1),
                      !.noTakeover = Each(FALSE, TRUE),
                      !.kinds = {"envelope", "malformed", "other"},
                      !.rsv1 = {TRUE, FALSE}]

(* One message each way, everyone leaving and the context ending.          *)
Closing == [Deep EXCEPT !.maxMsgs = Each(1, 1),
                        !.verdicts = Each(AllVerdicts, {"keep"}),
                        !.kinds = {"envelope"},
                        !.leavers = Peer,
                        !.cancels = TRUE]

MCScenarios ==
  {Deep, Mixed, Closing,
   [Deep EXCEPT !.noTakeover = Each(TRUE, FALSE)],
   [Deep EXCEPT !.verdicts = Each({}, {})],
   [Mixed EXCEPT !.negotiated = FALSE, !.maxMsgs = Each(1, 1)]}

(* A compressed conversation whose handler keeps or rewrites envelopes.    *)
TakeoverScenarios ==
  {[Deep EXCEPT !.verdicts = Each({"keep", "replace"}, {}),
                !.kinds = {"envelope"}]}

(* The same, in which an envelope may be malformed.                        *)
MalformedScenarios ==
  {[Deep EXCEPT !.verdicts = Each({"keep", "replace"}, {}),
                !.kinds = {"envelope", "malformed"}]}

(* Two idle peers and a context that is cancelled.                         *)
IdleScenarios ==
  {[Deep EXCEPT !.maxMsgs = Each(0, 0), !.cancels = TRUE]}
=============================================================================
