----------------------------- MODULE MCTraffic -----------------------------
(***************************************************************************)
(* What serves a client, model-checked in one run: a WebSocket session,    *)
(* the response cache of the HTTP requests with its file watcher, or the   *)
(* end of the proxy that serves them, as "part" says; the others stay in   *)
(* one of their initial states.                                            *)
(***************************************************************************)
EXTENDS MCWsSession, MCCacheInvalidation, ProxyShutdown

CONSTANTS h1, x1, x2, p1, p2  \* requests, sessions and callers of Shutdown
VARIABLE part

trafficVars == <<part, vars, invalidationVars, shutdownVars>>

TrafficInit ==
  /\ part \in {"session", "cache", "shutdown"}
  /\ Init /\ (part # "session" => scenario = Deep)
  /\ InvalidationInit
  /\ ShutdownInit /\ (part # "shutdown" => load.callers = {})

(* All requests are over and every caller of Shutdown has returned.        *)
ShutDown == /\ \A r \in load.requests : sender[r] \in {"idle", "done"}
            /\ \A c \in load.callers : caller[c].at = "returned"

TrafficNext ==
  \/ part = "session" /\ Next /\ UNCHANGED <<part, invalidationVars, shutdownVars>>
  \/ part = "cache" /\ InvalidationNext /\ UNCHANGED <<part, vars, shutdownVars>>
  \/ part = "shutdown" /\ ShutdownNext /\ UNCHANGED <<part, vars, invalidationVars>>
  \/ part = "shutdown" /\ ShutDown /\ UNCHANGED trafficVars

(* The parts' fairness; what is idle is not asked to run.                  *)
TrafficFairness ==
  /\ \A d \in Dir : /\ WF_vars(part = "session" /\ CheckContext(d))
                    /\ WF_vars(part = "session" /\ ReadFails(d))
  /\ WF_vars(part = "session" /\ ServeRecordsClose)
  /\ WF_vars(part = "session" /\ ServeReturns)
  /\ WF_vars(part = "session" /\ CallerCloses)
  /\ \A p \in Path : /\ WF_invalidationVars(part = "cache" /\ ReadEvent(p))
                     /\ WF_invalidationVars(part = "cache" /\ Fire(p))
                     /\ WF_invalidationVars(part = "cache" /\ Forget(p))
                     /\ WF_invalidationVars(part = "cache" /\ OnChange(p))
  /\ WF_shutdownVars(part = "shutdown" /\ DeadlinePasses)
  /\ \A c \in Caller : WF_shutdownVars(part = "shutdown" /\ Proceed(c))

TrafficSpec == TrafficInit /\ [][TrafficNext]_trafficVars /\ TrafficFairness

(* The variables of every part have their types.                           *)
TrafficTypeOK == TypeOK /\ InvalidationTypeOK /\ ShutdownTypeOK

(* Three senders compete for the queue; a flush meets a Shutdown; two      *)
(* callers call it.                                                        *)
MCLoads == {[requests |-> {h1, x1, x2}, callers |-> {}, flushes |-> 0],
            [requests |-> {h1, x1}, callers |-> {p1}, flushes |-> 1],
            [requests |-> {h1}, callers |-> {p1, p2}, flushes |-> 0]}
=============================================================================
