------------------------------ MODULE HookState ------------------------------
(***************************************************************************)
(* The turn state of a session (src/internal/sessions/hook_state.go): what *)
(* the hooks, each a process of its own, have seen in the last turns. They *)
(* exclude each other by a lock file that is taken over once it is thirty  *)
(* seconds old, and replace the state file by renaming a temporary one,    *)
(* whose name they share.                                                  *)
(***************************************************************************)
EXTENDS Naturals, Sequences, SequencesExt

CONSTANTS
  Hook,             \* the processes, each for one call at a time
  Item, NoItem,     \* files and lists of paths that hooks observe
  NoState,          \* there is no such file
  Blank, Garbled,   \* a file that cannot be parsed
  NoLockFile, Orphan, \* no lock file; one whose process has died
  MaxTurns,         \* hookStateMaxTurns
  MaxItems,         \* hookStateMaxFilesPerSet
  MaxCalls,         \* bound: calls
  MaxUpsets         \* bound: deaths, failures and slow holders

(* The tools and the files read are kept like the files edited, and left   *)
(* out. lists: the lists of paths of git.                                  *)
Turn == [id : Nat, closed : BOOLEAN, edited : Seq(Item), lists : Seq(Item)]
TurnState == [sequence : Nat, current : Nat, turns : Seq(Turn)]

ASSUME HookAssumption ==
  /\ MaxTurns \in Nat \ {0} /\ MaxItems \in Nat \ {0}
  /\ MaxCalls \in Nat /\ MaxUpsets \in Nat
  /\ {NoLockFile, Orphan} \cap Hook = {} /\ NoLockFile # Orphan /\ NoItem \notin Item
  /\ {NoState, Blank, Garbled} \cap TurnState = {} /\ Blank # Garbled

VARIABLES
  turnFile,  \* the state file
  tmpFile,   \* the temporary file
  fileLock,  \* whose lock file it is
  lockOld,   \* it is older than hookStateStaleLockAge
  hook,      \* per process: the call it executes
  history    \* what has come of the calls

hookVars == <<turnFile, tmpFile, fileLock, lockOld, hook, history>>

Unparsable == {Blank, Garbled}
TurnFile == TurnState \cup {NoState} \cup Unparsable

Op == {"session", "turn", "close", "edit", "list", "inspect"}
Inside == {"load", "open", "fill", "rename", "unlock"}

(* writes: where the file that the process has open is now. marker: the    *)
(* list is not new. epoch: history, the turn the process has found.        *)
Call == [at : {"idle", "wait", "takeover", "reply"} \cup Inside,
         op : Op, item : Item \cup {NoItem}, result : TurnFile,
         writes : {"tmp", "state", "nowhere"}, marker : BOOLEAN, epoch : Nat]
NoCall == [at |-> "idle", op |-> "inspect", item |-> NoItem, result |-> NoState,
           writes |-> "tmp", marker |-> FALSE, epoch |-> 0]

(* due: what the saved calls add up to. given: the lists that went out in  *)
(* full, with the turn. "slow": a live holder's lock was taken over.       *)
(* "raced": a lock was removed that another had just put in the place of a *)
(* stale one. "unsent": a process died before its list went out.           *)
History == [due : TurnFile, epoch : Nat, given : SUBSET (Nat \X Item),
            kinds : SUBSET {"slow", "raced", "unsent"}, calls : Nat, upsets : Nat]

HookTypeOK ==
  /\ turnFile \in TurnFile /\ tmpFile \in TurnFile
  /\ fileLock \in Hook \cup {NoLockFile, Orphan}
  /\ lockOld \in BOOLEAN
  /\ hook \in [Hook -> Call]
  /\ history \in History

HookInit ==
  /\ turnFile = NoState /\ tmpFile = NoState
  /\ fileLock = NoLockFile /\ lockOld = FALSE
  /\ hook = [h \in Hook |-> NoCall]
  /\ history = [due |-> NoState, epoch |-> 0, given |-> {}, kinds |-> {},
                calls |-> 0, upsets |-> 0]

-----------------------------------------------------------------------------
(* The state in memory.                                                    *)

NewTurn(id) == [id |-> id, closed |-> FALSE, edited |-> <<>>, lists |-> <<>>]
FirstTurn == [sequence |-> 1, current |-> 1, turns |-> <<NewTurn(1)>>]

Latest(s, n) == IF Len(s) > n THEN SubSeq(s, Len(s) - n + 1, Len(s)) ELSE s

(* appendUniqueCapped                                                      *)
Remember(s, item) == IF item \in ToSet(s) THEN s ELSE Latest(Append(s, item), MaxItems)

(* A mutant: what is trimmed are the latest turns.                         *)
StartTurnOldest(state) ==
  LET id == state.sequence + 1
      turns == Append(state.turns, NewTurn(id))
  IN  [sequence |-> id, current |-> id,
       turns |-> IF Len(turns) > MaxTurns THEN SubSeq(turns, 1, MaxTurns) ELSE turns]

StartTurn(state) ==
  LET id == state.sequence + 1
  IN  [sequence |-> id, current |-> id,
       turns |-> Latest(Append(state.turns, NewTurn(id)), MaxTurns)]

(* currentHookTurn, which starts a turn should the current one be missing. *)
HasCurrent(state) == \E i \in DOMAIN state.turns : state.turns[i].id = state.current
WithCurrent(state) == IF HasCurrent(state) THEN state ELSE StartTurn(state)
CurrentIndex(state) ==
  CHOOSE i \in DOMAIN state.turns : state.turns[i].id = state.current

(* What a call makes of the state it has loaded.                           *)
Mutated(op, item, loaded) ==
  LET state == WithCurrent(loaded)
      i == CurrentIndex(state)
  IN  CASE op = "session" -> FirstTurn
        [] op = "turn"    -> StartTurn(loaded)
        [] op = "close"   -> [state EXCEPT !.turns[i].closed = TRUE]
        [] op = "edit"    -> [state EXCEPT !.turns[i].edited = Remember(@, item)]
        [] op = "list"    -> [state EXCEPT !.turns[i].lists = Remember(@, item)]

Loaded(content) == IF content = NoState THEN FirstTurn ELSE content

(* A mutant: it is looked up after it has been added.                      *)
RepeatedOnceAdded(item, state) ==
  LET added == Mutated("list", item, state)
  IN  item \in ToSet(added.turns[CurrentIndex(added)].lists)

CurrentLists(state) == ToSet(state.turns[CurrentIndex(state)].lists)
Repeated(item, state) == HasCurrent(state) /\ item \in CurrentLists(state)

-----------------------------------------------------------------------------
(* withHookStateLock                                                       *)

HookAt(h, place) == hook[h].at = place
HookGoes(h, place) == hook' = [hook EXCEPT ![h].at = place]
Upsettable == history.upsets < MaxUpsets
Happens(kind, happens) == IF happens THEN history.kinds \cup {kind} ELSE history.kinds

CallHook(h, op, item) ==
  /\ HookAt(h, "idle") /\ history.calls < MaxCalls
  /\ (item = NoItem) <=> op \notin {"edit", "list"}
  /\ hook' = [hook EXCEPT ![h] = [NoCall EXCEPT !.at = "wait", !.op = op, !.item = item]]
  /\ history' = [history EXCEPT !.calls = @ + 1]
  /\ UNCHANGED <<turnFile, tmpFile, fileLock, lockOld>>

(* A mutant: the file is opened without O_EXCL.                            *)
TakeLockAnyway(h) ==
  /\ HookAt(h, "wait")
  /\ HookGoes(h, "load")
  /\ fileLock' = h /\ lockOld' = FALSE
  /\ UNCHANGED <<turnFile, tmpFile, history>>

TakeLock(h) ==
  /\ HookAt(h, "wait") /\ fileLock = NoLockFile
  /\ HookGoes(h, "load")
  /\ fileLock' = h /\ lockOld' = FALSE
  /\ UNCHANGED <<turnFile, tmpFile, history>>

(* After two seconds of trying.                                            *)
GiveUp(h) ==
  /\ HookAt(h, "wait") /\ fileLock # NoLockFile /\ ~lockOld
  /\ hook' = [hook EXCEPT ![h] = NoCall]
  /\ UNCHANGED <<turnFile, tmpFile, fileLock, lockOld, history>>

FindOld(h) ==
  /\ HookAt(h, "wait") /\ fileLock # NoLockFile /\ lockOld
  /\ HookGoes(h, "takeover")
  /\ UNCHANGED <<turnFile, tmpFile, fileLock, lockOld, history>>

(* By name, whatever is there now.                                         *)
RemoveOld(h) ==
  /\ HookAt(h, "takeover")
  /\ HookGoes(h, "wait")
  /\ fileLock' = NoLockFile /\ lockOld' = FALSE
  /\ history' = [history EXCEPT !.kinds =
                   Happens(IF lockOld THEN "slow" ELSE "raced", fileLock \in Hook)]
  /\ UNCHANGED <<turnFile, tmpFile>>

HookLockAges ==
  /\ fileLock # NoLockFile /\ ~lockOld
  /\ fileLock \in Hook => Upsettable
  /\ lockOld' = TRUE
  /\ history' = [history EXCEPT !.upsets = IF fileLock \in Hook THEN @ + 1 ELSE @]
  /\ UNCHANGED <<turnFile, tmpFile, fileLock, hook>>

-----------------------------------------------------------------------------
(* mutateHookState, inspectHookState                                       *)

(* An error: the lock is given back, the caller goes on without an answer. *)
Abandons(h) == hook' = [hook EXCEPT ![h] = [NoCall EXCEPT !.at = "unlock"]]

LoadBroken(h) ==
  /\ HookAt(h, "load") /\ turnFile \in Unparsable
  /\ Abandons(h)
  /\ UNCHANGED <<turnFile, tmpFile, fileLock, lockOld, history>>

LoadState(h) ==
  LET state == Loaded(turnFile)
      call == hook[h]
  IN  /\ HookAt(h, "load") /\ turnFile \notin Unparsable
      /\ hook' = [hook EXCEPT ![h] =
           IF call.op = "inspect" THEN [call EXCEPT !.at = "unlock"]
           ELSE [call EXCEPT !.at = "open", !.result = Mutated(call.op, call.item, state),
                             !.marker = call.op = "list" /\ Repeated(call.item, state),
                             !.epoch = history.epoch]]
      /\ UNCHANGED <<turnFile, tmpFile, fileLock, lockOld, history>>

(* A mutant: the state file is written in place.                           *)
OpenState(h) ==
  /\ HookAt(h, "open")
  /\ turnFile' = Blank
  /\ hook' = [hook EXCEPT ![h].at = "fill", ![h].writes = "state"]
  /\ UNCHANGED <<tmpFile, fileLock, lockOld, history>>

(* os.WriteFile truncates the temporary file, then fills it.               *)
OpenTmp(h) ==
  /\ HookAt(h, "open")
  /\ tmpFile' = Blank
  /\ hook' = [hook EXCEPT ![h].at = "fill", ![h].writes = "tmp"]
  /\ UNCHANGED <<turnFile, fileLock, lockOld, history>>

(* A file that another has filled meanwhile keeps that text's longer end.  *)
Filled(old, new) == IF old = Blank THEN {new} ELSE {new, Garbled}

FillTmp(h) ==
  LET new == hook[h].result
  IN  /\ HookAt(h, "fill")
      /\ HookGoes(h, "rename")
      /\ tmpFile' \in IF hook[h].writes = "tmp" THEN Filled(tmpFile, new) ELSE {tmpFile}
      /\ turnFile' \in IF hook[h].writes = "state" THEN Filled(turnFile, new) ELSE {turnFile}
      /\ UNCHANGED <<fileLock, lockOld, history>>

(* The file open in another process is renamed, or replaced, with it.      *)
RenameTmp(h) ==
  LET call == hook[h]
      due == Mutated(call.op, call.item, Loaded(history.due))
      moved(c) == IF c.at # "fill" THEN c
                  ELSE [c EXCEPT !.writes = IF @ = "tmp" THEN "state" ELSE "nowhere"]
  IN  /\ HookAt(h, "rename") /\ tmpFile # NoState
      /\ turnFile' = tmpFile /\ tmpFile' = NoState
      /\ hook' = [g \in Hook |-> IF g = h THEN [call EXCEPT !.at = "unlock"]
                                 ELSE moved(hook[g])]
      /\ history' = [history EXCEPT
           !.due = due, !.epoch = IF call.op \in {"session", "turn"} THEN @ + 1 ELSE @]
      /\ UNCHANGED <<fileLock, lockOld>>

RenameFails(h) ==
  /\ HookAt(h, "rename") /\ tmpFile = NoState
  /\ Abandons(h)
  /\ UNCHANGED <<turnFile, tmpFile, fileLock, lockOld, history>>

SaveFails(h) ==
  /\ hook[h].at \in {"open", "fill", "rename"} /\ Upsettable
  /\ Abandons(h)
  /\ history' = [history EXCEPT !.upsets = @ + 1]
  /\ UNCHANGED <<turnFile, tmpFile, fileLock, lockOld>>

(* By name, whosever it is; then a list goes to the model, or its marker.  *)
Release(h) ==
  /\ HookAt(h, "unlock")
  /\ fileLock' = NoLockFile /\ lockOld' = FALSE
  /\ hook' = [hook EXCEPT ![h] = IF @.op = "list" THEN [@ EXCEPT !.at = "reply"] ELSE NoCall]
  /\ UNCHANGED <<turnFile, tmpFile, history>>

ReplyList(h) ==
  /\ HookAt(h, "reply")
  /\ hook' = [hook EXCEPT ![h] = NoCall]
  /\ history' = IF hook[h].marker THEN history
                ELSE [history EXCEPT !.given = @ \cup {<<hook[h].epoch, hook[h].item>>}]
  /\ UNCHANGED <<turnFile, tmpFile, fileLock, lockOld>>

HookDies(h) ==
  /\ ~HookAt(h, "idle") /\ Upsettable
  /\ hook' = [hook EXCEPT ![h] = NoCall]
  /\ fileLock' = IF fileLock = h THEN Orphan ELSE fileLock
  /\ history' = [history EXCEPT !.upsets = @ + 1,
                   !.kinds = Happens("unsent", hook[h].op = "list" /\ hook[h].at \in {"unlock", "reply"})]
  /\ UNCHANGED <<turnFile, tmpFile, lockOld>>

HookNext ==
  \/ \E h \in Hook :
       \/ \E op \in Op, item \in Item \cup {NoItem} : CallHook(h, op, item)
       \/ TakeLock(h) \/ GiveUp(h) \/ FindOld(h) \/ RemoveOld(h)
       \/ LoadBroken(h) \/ LoadState(h) \/ OpenTmp(h) \/ FillTmp(h)
       \/ RenameTmp(h) \/ RenameFails(h) \/ SaveFails(h) \/ Release(h)
       \/ ReplyList(h) \/ HookDies(h)
  \/ HookLockAges

HookSpec == HookInit /\ [][HookNext]_hookVars

-----------------------------------------------------------------------------
Undisturbed == history.kinds \cap {"slow", "raced"} = {}

(* The state file holds what the calls that were saved add up to, in their *)
(* order, whatever else has failed or died: no update is lost and no file  *)
(* is left that cannot be parsed, which would make every later call fail.  *)
(* Only the lock of a live process, taken over, disturbs that.             *)
UpdatesKept == Undisturbed => turnFile = history.due

(* The turns are the latest ones, without a gap, and the current one is    *)
(* the last: that is where the readers look for what was edited lately.    *)
InOrder(state) ==
  LET last == Len(state.turns)
  IN  /\ state.current = state.sequence
      /\ last \in 1..MaxTurns
      /\ \A i \in 1..last : state.turns[i].id + last = state.sequence + i
TurnsInOrder == turnFile \in TurnState => InOrder(turnFile)

(* A list is replaced by a marker only when it has gone out in full in the *)
(* same turn, or is on its way, or its process died on the way.            *)
Backed(epoch, item) ==
  \/ <<epoch, item>> \in history.given
  \/ "unsent" \in history.kinds
  \/ \E h \in Hook : /\ hook[h].at \in {"unlock", "reply"} /\ hook[h].op = "list"
                     /\ ~hook[h].marker /\ hook[h].epoch = epoch /\ hook[h].item = item
MarkerIsBacked ==
  \A h \in Hook :
    HookAt(h, "reply") /\ hook[h].marker /\ Undisturbed =>
      Backed(hook[h].epoch, hook[h].item)

(* What the readers of the state rely on.                                  *)
TurnsHonest == TurnsInOrder /\ MarkerIsBacked

(* No update is lost, and what the file says of the turns can be relied on. *)
TurnStateHonest == UpdatesKept /\ TurnsHonest
=============================================================================
