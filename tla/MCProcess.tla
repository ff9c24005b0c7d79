------------------------------ MODULE MCProcess ------------------------------
(***************************************************************************)
(* The parts of the program around the sessions, model-checked in one run. *)
(* They share no state, so each behaviour exercises the one that "part"    *)
(* names and leaves the others in one of their initial states.             *)
(***************************************************************************)
EXTENDS HostsPatch, Install, Recert, HealthMonitor, Dispatcher, HookState,
        MCRequestPath

CONSTANTS k1, k2, i1, i2  \* hooks and what they observe
VARIABLE part

Part == {"hosts", "install", "recert", "health", "dispatcher", "hooks", "request"}
vars == <<part, hostsVars, installVars, recertVars, healthVars, dispatcherVars,
          hookVars, requestPathVars>>

(* A part that is not exercised has one initial state.                     *)
Init ==
  /\ part \in Part
  /\ HostsInit /\ (part # "hosts" => wantOn)
  /\ InstallInit
  /\ RecertInit
  /\ HealthInit
  /\ DispatcherInit /\ (part # "dispatcher" => counter = "frames")
  /\ HookInit
  /\ RequestPathInit /\ (part # "request" => world = ToolWorld)

Next ==
  \/ /\ part = "hosts" /\ HostsNext
     /\ UNCHANGED <<part, installVars, recertVars, healthVars,
                    dispatcherVars, hookVars, requestPathVars>>
  \/ /\ part = "install" /\ InstallNext
     /\ UNCHANGED <<part, hostsVars, recertVars, healthVars,
                    dispatcherVars, hookVars, requestPathVars>>
  \/ /\ part = "recert" /\ RecertNext
     /\ UNCHANGED <<part, hostsVars, installVars, healthVars,
                    dispatcherVars, hookVars, requestPathVars>>
  \/ /\ part = "health" /\ HealthNext
     /\ UNCHANGED <<part, hostsVars, installVars, recertVars,
                    dispatcherVars, hookVars, requestPathVars>>
  \/ /\ part = "dispatcher" /\ DispatcherNext
     /\ UNCHANGED <<part, hostsVars, installVars, recertVars,
                    healthVars, hookVars, requestPathVars>>
  \/ /\ part = "hooks" /\ HookNext
     /\ UNCHANGED <<part, hostsVars, installVars, recertVars,
                    healthVars, dispatcherVars, requestPathVars>>
  \/ /\ part = "request" /\ RequestPathNext
     /\ UNCHANGED <<part, hostsVars, installVars, recertVars,
                    healthVars, dispatcherVars, hookVars>>

Spec == Init /\ [][Next]_vars

(* The variables of every part have their types.                           *)
TypeOK ==
  /\ part \in Part
  /\ HostsTypeOK /\ InstallTypeOK /\ RecertTypeOK
  /\ HealthTypeOK /\ DispatcherTypeOK
  /\ HookTypeOK /\ RequestPathTypeOK

(* The flags of the install commands: with and without the keychain, which *)
(* an uninstall may lack though the install had it, and the CA alone.      *)
Flags(k, a, h) == [keychain |-> k, autoStart |-> a, hooks |-> h]
MCOptions == {Flags(TRUE, TRUE, TRUE), Flags(FALSE, TRUE, TRUE),
              Flags(FALSE, FALSE, FALSE)}
=============================================================================
