------------------------------- MODULE Install -------------------------------
(***************************************************************************)
(* `slimference install` and `uninstall`: a plan of reversible steps       *)
(* (src/internal/install/install.go) that the reversibility framework      *)
(* applies, rolls back and reverses                                        *)
(* (src/internal/control/reversibility/reversibility.go), over what the    *)
(* steps leave on the machine: the CA files, the certificates the keychain *)
(* trusts, the launchd job, the Codex hooks (with which the plan writes a  *)
(* notice, left out). A command may fail in any step, or be killed, and a  *)
(* starting proxy loads or generates the same CA files.                    *)
(***************************************************************************)
EXTENDS Naturals, Sequences

CONSTANTS
  Options,   \* the flags of the commands: keychain, autoStart, hooks
  Cert,      \* bound: the certificates, with their keys, that get generated
  NoCert,    \* no such file, or no fingerprint
  Garbage,   \* a file that does not parse
  MaxRuns    \* bound: commands, and starts of a proxy that loads the CA

ASSUME InstallAssumption ==
  /\ Options \subseteq [keychain : BOOLEAN, autoStart : BOOLEAN, hooks : BOOLEAN]
  /\ NoCert \notin Cert /\ Garbage \notin Cert /\ NoCert # Garbage
  /\ MaxRuns \in Nat

VARIABLES
  site,       \* what is on the machine
  expired,    \* the certificates that have expired
  cli,        \* the last command
  loader,     \* per process: where it is in its work on the CA files
  runs,       \* bound: commands and starts of a proxy so far
  made,       \* history: the certificates generated
  accidents   \* history: what has come in between

installVars == <<site, expired, cli, loader, runs, made, accidents>>

Process == {"cli", "proxy"}
File == Cert \cup {NoCert, Garbage}

(* The steps of a plan, in order.                                          *)
Plan(options) ==
  <<"ca">> \o (IF options.keychain THEN <<"keychain">> ELSE <<>>)
           \o (IF options.autoStart THEN <<"launchd">> ELSE <<>>)
           \o (IF options.hooks THEN <<"hooks">> ELSE <<>>)
Plans == {Plan(options) : options \in Options}
Steps(plan) == {plan[i] : i \in DOMAIN plan}

CommandAt == {"idle", "apply", "rollback", "reverse"}
Result == {"none", "installed", "failed", "uninstalled", "errors"}
LoadAt == {"idle", "load", "rotate", "writeKey", "writeCert", "aside"}

(* "untrust": the keychain refused to drop a certificate, or the           *)
(* fingerprint of one just trusted could not be read. "rotated": a trusted *)
(* CA no longer loaded and was replaced. "skipped": a command without the  *)
(* keychain step moved the CA aside. "overlap": two processes worked on    *)
(* the CA files at a time. "launchctl": a load or an unload failed.        *)
Accident == {"untrust", "rotated", "skipped", "overlap", "launchctl"}

InstallTypeOK ==
  /\ site \in [key : File, cert : File, trusted : SUBSET Cert,
               plist : BOOLEAN, loaded : BOOLEAN,
               entries : BOOLEAN]
  /\ expired \in SUBSET Cert
  /\ cli \in [at : CommandAt, plan : Plans \cup {<<>>}, i : 0..4, errors : BOOLEAN,
              fingerprint : Cert \cup {NoCert}, began : File, reached : 0..4,
              alone : BOOLEAN, result : Result]
  /\ loader \in [Process -> [at : LoadAt, new : Cert \cup {NoCert}]]
  /\ runs \in 0..MaxRuns
  /\ made \in SUBSET Cert
  /\ accidents \in SUBSET Accident

NoLoad == [at |-> "idle", new |-> NoCert]

NoCommand == [at |-> "idle", plan |-> <<>>, i |-> 0, errors |-> FALSE,
              fingerprint |-> NoCert, began |-> NoCert, reached |-> 0,
              alone |-> TRUE, result |-> "none"]

InstallInit ==
  /\ site = [key |-> NoCert, cert |-> NoCert, trusted |-> {}, plist |-> FALSE,
             loaded |-> FALSE, entries |-> FALSE]
  /\ expired = {}
  /\ cli = NoCommand
  /\ loader = [p \in Process |-> NoLoad]
  /\ runs = 0
  /\ made = {} /\ accidents = {}

-----------------------------------------------------------------------------
(* The commands: Plan.Apply with its rollback, and Plan.Reverse.           *)

Step == cli.plan[cli.i]
Applying(step) == cli.at = "apply" /\ Step = step
Reversing(step) == cli.at \in {"rollback", "reverse"} /\ Step = step

(* The CA step works file by file, in the loader.                          *)
Works(p, at) == [loader EXCEPT ![p] = [at |-> at, new |-> NoCert]]

Begin(at, plan, i) ==
  /\ cli.at = "idle"
  /\ runs < MaxRuns
  /\ runs' = runs + 1
  /\ cli' = [at |-> at, plan |-> plan, i |-> i, errors |-> FALSE,
             fingerprint |-> NoCert, began |-> site.cert, reached |-> 0,
             alone |-> loader["proxy"].at = "idle", result |-> "none"]
  /\ accidents' = accidents \cup (IF loader["proxy"].at = "idle" THEN {}
                                                          ELSE {"overlap"})
  /\ UNCHANGED <<site, expired, made>>

Install == \E plan \in Plans : /\ Begin("apply", plan, 1)
                               /\ loader' = Works("cli", "load")

Uninstall == \E plan \in Plans :
  /\ Begin("reverse", plan, Len(plan))
  /\ loader' = IF Len(plan) = 1 THEN Works("cli", "aside") ELSE loader

(* A step is applied: the next one, or the command is complete.            *)
Applied == IF cli.i = Len(cli.plan)
           THEN [cli EXCEPT !.at = "idle", !.result = "installed"]
           ELSE [cli EXCEPT !.i = @ + 1]

(* A mutant: a failed step ends the command without a rollback.            *)
FailedAtOnce == [cli EXCEPT !.at = "idle", !.result = "failed", !.reached = cli.i]

(* A step fails: those before it are reversed, last first. The failed step *)
(* itself is not.                                                          *)
Failed == IF cli.i = 1
          THEN [cli EXCEPT !.at = "idle", !.result = "failed", !.reached = 1]
          ELSE [cli EXCEPT !.at = "rollback", !.i = @ - 1, !.reached = cli.i]

(* A mutant: errors of the steps are not collected.                        *)
ReversedAnyway(ok) ==
  IF cli.i > 1 THEN [cli EXCEPT !.i = @ - 1]
  ELSE [cli EXCEPT !.at = "idle",
          !.result = IF cli.at = "rollback" THEN "failed" ELSE "uninstalled"]

(* A step is reversed, or could not be: on to the one before it.           *)
Reversed(ok) ==
  IF cli.i > 1 THEN [cli EXCEPT !.i = @ - 1, !.errors = @ \/ ~ok]
  ELSE [cli EXCEPT !.at = "idle", !.errors = @ \/ ~ok,
          !.result = IF cli.at = "rollback" THEN "failed"
                     ELSE IF cli.errors \/ ~ok THEN "errors" ELSE "uninstalled"]

(* The loader of the command starts on the CA when the walk back gets there.*)
BackTo(next) == IF next.at # "idle" /\ next.i = 1 THEN Works("cli", "aside")
                ELSE loader

CommandMoves(next) == /\ cli' = next
                      /\ loader' = IF next.at \in {"rollback", "reverse"}
                                   THEN BackTo(next) ELSE loader
                      /\ UNCHANGED <<expired, runs, made>>

-----------------------------------------------------------------------------
(* ca.generate: tlsca.LoadOrGenerateCA, for the command and for the proxy, *)
(* and the move aside of CAGenerate.Reverse.                               *)

(* tryLoadCA does not ask whether the key is the certificate's.            *)
Loadable == site.key \in Cert /\ site.cert \in Cert \ expired

(* The loader is done: the command goes on, the proxy needs nothing more.  *)
LoadEnds(p, next) ==
  /\ loader' = [loader EXCEPT ![p] = NoLoad]
  /\ cli' = IF p = "cli" THEN next ELSE cli
  /\ UNCHANGED <<expired, runs>>

LoadGoes(p, to) ==
  /\ loader' = [loader EXCEPT ![p].at = to]
  /\ UNCHANGED <<expired, cli, runs>>

LoadCA(p) ==
  /\ loader[p].at = "load"
  /\ \/ /\ Loadable
        /\ LoadEnds(p, Applied)
        /\ UNCHANGED accidents
     \/ /\ ~Loadable
        /\ LoadGoes(p, "rotate")
        /\ accidents' = IF site.cert \in site.trusted
                        THEN accidents \cup {"rotated"} ELSE accidents
  /\ UNCHANGED <<site, made>>

(* Whether this command has been through the reverse of ca.keychain: not   *)
(* when its plan lacks the step, nor when it rolls back because of it.     *)
KeychainReversed == /\ "keychain" \in Steps(cli.plan)
                    /\ cli.at = "rollback" => cli.reached > 2

(* A mutant: only the key is moved aside for a new one.                    *)
MoveKeyAside(p) ==
  /\ \/ /\ loader[p].at = "rotate"
        /\ LoadGoes(p, "writeKey")
        /\ site' = [site EXCEPT !.key = NoCert]
     \/ /\ loader[p].at = "aside"
        /\ LoadEnds(p, Reversed(TRUE))
        /\ site' = [site EXCEPT !.key = NoCert, !.cert = NoCert]
  /\ UNCHANGED <<made, accidents>>

(* Key and certificate are renamed, one after the other.                   *)
MoveAside(p) ==
  /\ \/ /\ loader[p].at = "rotate"
        /\ LoadGoes(p, "writeKey")
        /\ UNCHANGED accidents
     \/ /\ loader[p].at = "aside"
        /\ LoadEnds(p, Reversed(TRUE))
        /\ accidents' = IF site.cert \in site.trusted /\ ~KeychainReversed
                        THEN accidents \cup {"skipped"} ELSE accidents
  /\ site' = [site EXCEPT !.key = NoCert, !.cert = NoCert]
  /\ UNCHANGED made

(* writePEM drops the error of its write: the file may not parse, and the  *)
(* loader goes on with the key or the certificate it has in memory.        *)
WriteKey(p) ==
  LET fresh == CHOOSE c \in Cert : c \notin made
  IN  /\ loader[p].at = "writeKey"
      /\ made # Cert
      /\ \E written \in {fresh, Garbage} : site' = [site EXCEPT !.key = written]
      /\ made' = made \cup {fresh}
      /\ loader' = [loader EXCEPT ![p] = [at |-> "writeCert", new |-> fresh]]
      /\ UNCHANGED <<expired, cli, runs, accidents>>

WriteCert(p) ==
  /\ loader[p].at = "writeCert"
  /\ \E written \in {loader[p].new, Garbage} : site' = [site EXCEPT !.cert = written]
  /\ LoadEnds(p, Applied)
  /\ UNCHANGED <<made, accidents>>

(* What is left when it fails or is killed: a write may leave a file that  *)
(* does not parse, a move aside the certificate without its key.           *)
CutShort(p) ==
  {site} \cup (IF loader[p].at \in {"rotate", "aside"}
               THEN {[site EXCEPT !.key = NoCert]}
               ELSE IF loader[p].at = "writeKey" THEN {[site EXCEPT !.key = Garbage]}
               ELSE IF loader[p].at = "writeCert"
               THEN {[site EXCEPT !.cert = Garbage]} ELSE {})

(* Any file operation may fail.                                            *)
LoadFails(p) ==
  /\ loader[p].at # "idle"
  /\ site' \in CutShort(p)
  /\ LoadEnds(p, IF cli.at = "apply" THEN Failed ELSE Reversed(FALSE))
  /\ UNCHANGED <<made, accidents>>

ProxyLoads ==
  /\ loader["proxy"].at = "idle"
  /\ runs < MaxRuns
  /\ runs' = runs + 1
  /\ loader' = Works("proxy", "load")
  /\ cli' = [cli EXCEPT !.alone = FALSE]
  /\ accidents' = accidents \cup (IF cli.at = "idle" THEN {} ELSE {"overlap"})
  /\ UNCHANGED <<site, expired, made>>

-----------------------------------------------------------------------------
(* ca.keychain.                                                            *)

TrustCert ==
  /\ Applying("keychain")
  /\ site.cert \in Cert
  /\ site' = [site EXCEPT !.trusted = @ \cup {site.cert}]
  /\ CommandMoves([Applied EXCEPT !.fingerprint = site.cert])
  /\ UNCHANGED accidents

(* The keychain refuses, or the certificate is trusted but its fingerprint *)
(* cannot be read.                                                         *)
TrustFails ==
  /\ Applying("keychain")
  /\ \/ UNCHANGED <<site, accidents>>
     \/ /\ site.cert \in Cert
        /\ site' = [site EXCEPT !.trusted = @ \cup {site.cert}]
        /\ accidents' = accidents \cup {"untrust"}
  /\ CommandMoves(Failed)

(* By the fingerprint remembered from Apply, or else by the file's; no     *)
(* file is success.                                                        *)
Untrust ==
  LET by == IF cli.fingerprint # NoCert THEN cli.fingerprint ELSE site.cert
  IN  /\ Reversing("keychain")
      /\ \/ /\ by # Garbage
            /\ site' = [site EXCEPT !.trusted = @ \ {by}]
            /\ CommandMoves(Reversed(TRUE))
            /\ UNCHANGED accidents
         \/ /\ by # NoCert
            /\ CommandMoves(Reversed(FALSE))
            /\ accidents' = accidents \cup {"untrust"}
            /\ UNCHANGED site

-----------------------------------------------------------------------------
(* launchd and hooks.codex.                                                *)

InstallJob ==
  /\ Applying("launchd")
  /\ site' = [site EXCEPT !.plist = TRUE, !.loaded = TRUE]
  /\ CommandMoves(Applied)
  /\ UNCHANGED accidents

(* The file cannot be written, or the job cannot be loaded and the file,   *)
(* an earlier command's too, is removed.                                   *)
InstallJobFails ==
  /\ Applying("launchd")
  /\ \/ UNCHANGED <<site, accidents>>
     \/ /\ site' = [site EXCEPT !.plist = FALSE]
        /\ accidents' = accidents \cup {"launchctl"}
  /\ CommandMoves(Failed)

(* A mutant: the file is removed and the job left loaded.                  *)
RemoveJobFile ==
  /\ Reversing("launchd")
  /\ site' = [site EXCEPT !.plist = FALSE]
  /\ CommandMoves(Reversed(TRUE))
  /\ UNCHANGED accidents

(* Without the file there is nothing to do; a failed unload is ignored.    *)
RemoveJob ==
  /\ Reversing("launchd")
  /\ IF ~site.plist THEN UNCHANGED <<site, accidents>> /\ CommandMoves(Reversed(TRUE))
     ELSE \E unloaded, removed \in BOOLEAN :
            /\ site' = [site EXCEPT !.loaded = @ /\ ~unloaded,
                                    !.plist = ~removed]
            /\ accidents' = IF unloaded THEN accidents
                            ELSE accidents \cup {"launchctl"}
            /\ CommandMoves(Reversed(removed))

(* Nine scripts, which nothing runs until the entries in hooks.json name   *)
(* them, then the entries, then the feature flag.                          *)
InstallHooks ==
  /\ Applying("hooks")
  /\ site' = [site EXCEPT !.entries = TRUE]
  /\ CommandMoves(Applied)
  /\ UNCHANGED accidents

InstallHooksFails ==
  /\ Applying("hooks")
  /\ site' \in {site, [site EXCEPT !.entries = TRUE]}
  /\ CommandMoves(Failed)
  /\ UNCHANGED accidents

RemoveHooks ==
  /\ Reversing("hooks")
  /\ \/ site' = [site EXCEPT !.entries = FALSE] /\ CommandMoves(Reversed(TRUE))
     \/ UNCHANGED site /\ CommandMoves(Reversed(FALSE))
  /\ UNCHANGED accidents

-----------------------------------------------------------------------------
(* A command or the proxy is killed; a certificate expires.                *)

KillCommand ==
  /\ cli.at # "idle"
  /\ site' \in CutShort("cli")
               \cup (IF Applying("launchd") THEN {[site EXCEPT !.plist = TRUE]} ELSE {})
  /\ cli' = NoCommand
  /\ loader' = [loader EXCEPT !["cli"] = NoLoad]
  /\ UNCHANGED <<expired, runs, made, accidents>>

CertExpires ==
  /\ site.cert \in Cert \ expired
  /\ expired' = expired \cup {site.cert}
  /\ UNCHANGED <<site, cli, loader, runs, made, accidents>>

InstallNext ==
  \/ Install \/ Uninstall \/ ProxyLoads
  \/ \E p \in Process : LoadCA(p) \/ MoveAside(p) \/ WriteKey(p)
                        \/ WriteCert(p) \/ LoadFails(p)
  \/ TrustCert \/ TrustFails \/ Untrust
  \/ InstallJob \/ InstallJobFails \/ RemoveJob
  \/ InstallHooks \/ InstallHooksFails \/ RemoveHooks
  \/ KillCommand \/ CertExpires

InstallSpec == InstallInit /\ [][InstallNext]_installVars

-----------------------------------------------------------------------------
(* What reversing a step has to achieve.                                   *)
StepUndone(step) ==
  CASE step = "ca"       -> site.key = NoCert /\ site.cert = NoCert
    [] step = "keychain" -> (IF cli.fingerprint # NoCert THEN cli.fingerprint
                               ELSE cli.began) \notin site.trusted
    [] step = "launchd"  -> ~site.plist
    [] step = "hooks"    -> ~site.entries

(* An install that fails leaves none of the steps it had completed         *)
(* (reversibility.go:4), provided it could reverse them and no proxy       *)
(* generated a CA meanwhile. What the failed step itself left stays.       *)
FailedInstallIsUndone ==
  cli.result = "failed" /\ cli.alone /\ ~cli.errors =>
    \A j \in 1..(cli.reached - 1) : StepUndone(cli.plan[j])

(* An uninstall that reports success has undone every step of its plan; in *)
(* particular the CA that was on disk is no longer trusted.                *)
UninstallUndoes ==
  cli.result = "uninstalled" /\ cli.alone => \A step \in Steps(cli.plan) : StepUndone(step)

(* What an install has put in place a later uninstall can still find: a    *)
(* trusted certificate is the one on disk, a loaded job has its file.      *)
(* Otherwise one of the accidents has happened.                            *)
StillReversible ==
  /\ \/ site.trusted \subseteq {site.cert}
     \/ accidents \cap {"untrust", "rotated", "skipped", "overlap"} # {}
  /\ site.loaded => site.plist \/ "launchctl" \in accidents

(* The key on disk is the certificate's, unless two processes worked on    *)
(* the files at the same time: nothing checks it when the CA is loaded.    *)
KeyMatchesCert ==
  {site.key, site.cert} \subseteq Cert /\ site.key # site.cert =>
    "overlap" \in accidents

(* The ways back work, the rollback of an install and an uninstall, and    *)
(* what stands after any of the commands, or half of one, is coherent.     *)
InstallReversible ==
  FailedInstallIsUndone /\ UninstallUndoes /\ StillReversible /\ KeyMatchesCert
=============================================================================
