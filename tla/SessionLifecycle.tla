-------------------------- MODULE SessionLifecycle --------------------------
(***************************************************************************)
(* The life of one session: its record in internal/storage, the provider   *)
(* runtime, and the actors that move it: the creator (internal/app,        *)
(* initialstartretry), the Telegram handler (telegramcontroller, serial),  *)
(* the session's worker (turn lifecycle), the namer, the closer            *)
(* (SessionCloser, under its mutex), the expiry sweep, the supervisor      *)
(* (sessionsupervisor and sessionattachment, under sessionrecoverycontrol's *)
(* gate), the standby keeper, and crashes.                                 *)
(*                                                                         *)
(* Actors share the record by optimistic concurrency: they load a copy,    *)
(* and Replace it if it still Equals the stored one.  Times and names make *)
(* two versions never Equal, so a copy is fresh until the next write.  The *)
(* controller's live map is such a copy, used to decide what is usable.    *)
(*                                                                         *)
(* What the environment does is bounded by left, a budget of events chosen *)
(* in Init.  Inputs are counted; their journal is the subject of           *)
(* InputRecovery.  Steers and the turn's output are left out.              *)
(***************************************************************************)
EXTENDS ProviderRuntime, SessionRecord

CONSTANTS
    Absent,        \* no record: deleted
    Budgets,       \* the budgets of environment events
    MaxAttempts    \* Policy.MaxAttempts of the initial start

ASSUME LifecycleAssumption == MaxAttempts \in Nat \ {0}

VARIABLES
    store,      \* the session in the session store
    empty,      \* its card's EmptyCloseEligible, with an empty history
    deleted,    \* SessionStore.deletedEmpty: the binding of the deleted session
    copies,     \* what each holder last loaded or wrote
    pc,         \* where each actor stands
    attempts,   \* starts the creator has tried
    pending,    \* Controller.pending holds the session
    inputs,     \* durable inputs not yet dispatched
    turn,       \* the CLI's turn: "none", "running", "ended"
    worker,     \* the worker's turn: its binding, and whether it was accepted
    caller,     \* on whose behalf the closer runs
    async,      \* completeAsync goroutines that wait for the closer
    dropping,   \* asynchronous closes that have yet to remove the session from live
    naming,     \* a name is being generated
    launched,   \* the binding an actor has started and not yet settled
    left,       \* what is left of the budget
    kept        \* history: the card or a turn has recorded content

card == <<empty, deleted>>
data == <<store, card, copies>>
closes == <<caller, async, dropping>>
control == <<attempts, pending, inputs, worker, closes, naming>>
machine == <<runtime, turn, launched>>
vars == <<data, machine, pc, control, left, kept>>

Actors == {"creator", "user", "worker", "closer", "super", "standby", "expiry"}
Launchers == {"creator", "user", "super"}
Holders == {"live", "creator", "user", "worker", "closer", "super", "standby"}
NoCopy == [rec |-> Absent, fresh |-> FALSE]
NoTurn == [gen |-> 0, accepted |-> FALSE]

At(a, where) == pc[a] = where
Go(a, where) == pc' = [pc EXCEPT ![a] = where]
Spend(event) == left[event] > 0 /\ left' = [left EXCEPT ![event] = @ - 1]

\* The session as a holder sees it.
Seen(h) == copies[h].rec
Load(cs, h) == [cs EXCEPT ![h] = [rec |-> store, fresh |-> TRUE]]
Forget(cs, h) == [cs EXCEPT ![h] = NoCopy]

\* replaceLive: only a session that is in the map.
replaceLive(cs, h) == IF cs["live"] = NoCopy THEN cs ELSE [cs EXCEPT !["live"] = cs[h]]
setLive(cs, h) == [cs EXCEPT !["live"] = cs[h]]

-----------------------------------------------------------------------------
(* storage.SessionStore: every operation is atomic under the store's lock. *)

Written(h, next) ==
    [k \in Holders |-> IF k = h THEN [rec |-> next, fresh |-> TRUE]
                       ELSE [copies[k] EXCEPT !.fresh = FALSE]]

\* Replace and CompareAndSwap: work on the session ends the proof of emptiness.
Fresh(h) == store # Absent /\ copies[h].fresh
Swap(h, next, cs) ==
    /\ Fresh(h)
    /\ store' = next
    /\ empty' = (empty /\ store.status \notin Busy /\ next.status \notin Busy)
    /\ copies' = cs
    /\ UNCHANGED deleted
Replace(h, next) == Swap(h, next, Written(h, next))

\* The same, by a holder that is then done with its copy.
ReplaceLast(h, next) == Swap(h, next, Forget(Written(h, next), h))
Discard(h) == copies' = Forget(copies, h) /\ UNCHANGED <<store, card>>
Lost(h) == ~Fresh(h) /\ Discard(h)

\* deleteProven, the common part of the deletions of empty sessions.  Deleting
\* once more what was deleted succeeds.
Delete(h) ==
    /\ store' = Absent /\ empty' = FALSE
    /\ deleted' = IF store = Absent THEN deleted ELSE store.gen
    /\ copies' = Forget(copies, h)
Deletable(h) == copies[h].fresh /\ (empty \/ store = Absent)
WasEmptySessionDeleted(g) == store = Absent /\ g # 0 /\ deleted = g
deleteProven_Advisory(h) == copies[h].fresh /\ Delete(h)
deleteProven(h) == Deletable(h) /\ Delete(h)

\* RenameSession, with the generated name.
RenameSession ==
    /\ naming
    /\ naming' = FALSE
    /\ IF store = Absent THEN UNCHANGED data
       ELSE /\ store' = [store EXCEPT !.named = TRUE]
            /\ copies' = [k \in Holders |-> [copies[k] EXCEPT !.fresh = FALSE]]
            /\ UNCHANGED card
    /\ UNCHANGED <<machine, pc, attempts, pending, inputs, worker, closes, left, kept>>

\* The turn dies with its terminal.
TurnGoesOn == turn' = IF terminal' = "none" THEN "none" ELSE turn

\* An actor's Start or Attach, and what becomes of the binding it got.
Holds(a) == launched' = [launched EXCEPT ![a] = adapter'.gen]
Launch(a, prior) == Start(prior) /\ Holds(a)
FailsToStart(prior, event) == IF Startable(prior) THEN Spend(event) ELSE UNCHANGED left
Settled(a) == launched' = [launched EXCEPT ![a] = 0]

\* Abort's two outcomes for a caller.
AbortSucceeds(g) == AbortConfirmed(g) /\ TurnGoesOn /\ UNCHANGED left
AbortErrs(g) ==
    /\ \/ AbortUnconfirmed(g) /\ Spend("unconfirmed")
       \/ AbortRefused(g) /\ UNCHANGED left
    /\ TurnGoesOn

-----------------------------------------------------------------------------
(* app.SessionCreator and initialstartretry.                               *)

CreatorStarts ==
    /\ At("creator", "start")
    /\ \/ Launch("creator", 0) /\ Go("creator", "persist") /\ UNCHANGED <<attempts, left>>
       \/ /\ Spend("startFail")
          /\ attempts' = attempts + 1
          /\ Go("creator", IF attempts' = MaxAttempts THEN "failed" ELSE "start")
          /\ UNCHANGED <<runtime, launched>>
    /\ UNCHANGED <<data, turn, pending, inputs, worker, closes, naming, kept>>

\* persistReady; the write may fail at the file system.
CreatorPersists ==
    /\ At("creator", "persist")
    /\ \/ /\ Replace("creator", Ready(Seen("creator"), launched["creator"]))
          /\ Settled("creator")
          /\ Go("creator", "publish") /\ UNCHANGED left
       \/ Spend("fault") /\ Go("creator", "abort") /\ UNCHANGED <<data, launched>>
    /\ UNCHANGED <<runtime, turn, control, kept>>

\* An unconfirmed abort leaves the outcome of the creation unknown.
CreatorAborts ==
    /\ At("creator", "abort")
    /\ \/ AbortSucceeds(launched["creator"]) /\ Go("creator", "unpersisted")
       \/ AbortErrs(launched["creator"]) /\ Go("creator", "done")
    /\ Settled("creator")
    /\ UNCHANGED <<data, control, kept>>

\* PersistFailure, and finishFailure's deletion of what is provably empty.
CreatorGivesUp ==
    /\ \/ /\ pc["creator"] \in {"failed", "unpersisted"}
          /\ Replace("creator", AwaitRecoveryAt(Seen("creator")))
          /\ Go("creator", IF At("creator", "failed") THEN "delete" ELSE "done")
          /\ UNCHANGED pending
       \/ /\ At("creator", "delete")
          /\ \/ deleteProven("creator") /\ pending' = FALSE
             \/ ~Deletable("creator") /\ Discard("creator") /\ UNCHANGED pending
          /\ Go("creator", "done")
    /\ UNCHANGED <<machine, attempts, inputs, worker, closes, naming,
                   left, kept>>

\* awaitCreatedSession.
CreatorPublishes ==
    /\ At("creator", "publish")
    /\ copies' = Forget(setLive(copies, "creator"), "creator")
    /\ pending' = FALSE
    /\ Go("creator", "done")
    /\ UNCHANGED <<store, card, machine, attempts, inputs, worker, closes, naming, left, kept>>

-----------------------------------------------------------------------------
(* Controller.Handle: a prompt for the session.                            *)

Handle ==
    /\ At("user", "idle") /\ Spend("prompt")
    /\ store # Absent
    /\ Go("user", IF store.status = "awaiting" THEN "queue" ELSE "set")
    /\ UNCHANGED <<data, machine, control, kept>>

\* The successor of an unresolved input goes to the journal, not to the card.
queueRecoveryInput ==
    /\ At("user", "queue")
    /\ inputs' = inputs + 1
    /\ Go("user", "idle")
    /\ UNCHANGED <<data, machine, attempts, pending, worker, closes, naming, left, kept>>

SetCardPrompt ==
    /\ At("user", "set")
    /\ IF store = Absent \/ store.status \in {"closing", "archived", "awaiting"}
       THEN Go("user", "idle") /\ UNCHANGED <<card, kept>>
       ELSE Go("user", "enqueue") /\ empty' = FALSE /\ kept' = TRUE /\ UNCHANGED deleted
    /\ UNCHANGED <<store, copies, machine, control, left>>

\* usableLocked of the session the live map holds.
UsableLive ==
    Seen("live") # Absent /\ Seen("live").status \in {"ready", "running", "stopping"}

enqueueSession ==
    /\ At("user", "enqueue")
    /\ inputs' = IF UsableLive \/ pending THEN inputs + 1 ELSE inputs
    /\ Go("user", "idle")
    /\ UNCHANGED <<data, machine, attempts, pending, worker, closes, naming, left, kept>>

-----------------------------------------------------------------------------
(* The session's worker: ProcessDurableInput, runTurnWithAcceptance, and   *)
(* app.SessionTurnLifecycle, which loads and writes under one mutex.       *)

TrackerFree(a) ==
    IF a = "user" THEN pc["worker"] \notin {"startWrite", "finishWrite"}
                  ELSE ~At("user", "stopWrite")

\* The worker's turn is over; a supervisor that waits for it goes on.
WorkerDone(where) ==
    /\ pc' = [pc EXCEPT !["worker"] = "idle", !["super"] = IF @ = "continue" THEN where ELSE @]
    /\ worker' = NoTurn

\* A root input refused after its lease is not tried again.
InputRefused == inputs' = inputs - 1 /\ Go("worker", "idle")

ProcessDurableInput ==
    /\ At("worker", "idle") /\ ~At("super", "continue")
    /\ inputs > 0 /\ UsableLive
    /\ store # Absent /\ store.status \in {"ready", "running"}
    /\ Go("worker", "check")
    /\ UNCHANGED <<data, machine, control, left, kept>>

\* The stored session must be ready and Equal to the live one.
CheckRoot ==
    /\ At("worker", "check")
    /\ IF store # Absent /\ store.status = "ready" /\ Fresh("live")
       THEN Go("worker", "startLoad") /\ UNCHANGED inputs
       ELSE InputRefused
    /\ UNCHANGED <<data, machine, attempts, pending, worker, closes, naming, left, kept>>

StartLoad ==
    /\ At("worker", "startLoad") /\ TrackerFree("worker")
    /\ IF store # Absent /\ CanStartWork(store)
       THEN copies' = Load(copies, "worker") /\ Go("worker", "startWrite") /\ UNCHANGED inputs
       ELSE InputRefused /\ UNCHANGED copies
    /\ UNCHANGED <<store, card, machine, attempts, pending, worker, closes, naming, left,
                   kept>>

StartWrite ==
    /\ At("worker", "startWrite")
    /\ \/ /\ Replace("worker", StartWork(Seen("worker")))
          /\ kept' = TRUE
          /\ Go("worker", "startLive") /\ UNCHANGED inputs
       \/ Lost("worker") /\ InputRefused /\ UNCHANGED kept
    /\ UNCHANGED <<machine, attempts, pending, worker, closes, naming, left>>

\* The mirror is updated, and naming may begin in the background.
StartLive ==
    /\ At("worker", "startLive")
    /\ copies' = Forget(replaceLive(copies, "worker"), "worker")
    /\ worker' = [gen |-> Seen("worker").gen, accepted |-> FALSE]
    /\ inputs' = inputs - 1
    /\ \/ Spend("rename") /\ ~Seen("worker").named /\ naming' = TRUE
       \/ UNCHANGED <<naming, left>>
    /\ Go("worker", "submit")
    /\ UNCHANGED <<store, card, machine, attempts, pending, closes, kept>>

\* The provider acknowledges the input, or it never gets there.
Submit ==
    /\ At("worker", "submit")
    /\ \/ /\ adapter.gen = worker.gen
          /\ turn' = "running" /\ worker' = [worker EXCEPT !.accepted = TRUE]
          /\ Go("worker", "turn") /\ UNCHANGED left
       \/ /\ (adapter.gen # worker.gen /\ UNCHANGED left) \/ Spend("submitFail")
          /\ Go("worker", "finishLoad") /\ UNCHANGED <<turn, worker>>
    /\ UNCHANGED <<data, runtime, launched, attempts, pending, inputs, closes, naming, kept>>

\* The terminal outcome is seen, or the adapter goes first: an accepted
\* transport failure writes nothing.
ObserveTurn ==
    /\ At("worker", "turn")
    /\ \/ /\ adapter.gen = worker.gen /\ turn = "ended"
          /\ turn' = "none" /\ Go("worker", "finishLoad") /\ UNCHANGED worker
       \/ adapter.gen # worker.gen /\ WorkerDone("block") /\ UNCHANGED turn
    /\ UNCHANGED <<data, runtime, launched, attempts, pending, inputs, closes, naming, left, kept>>

\* Finish's load.  An accepted turn is finished by Retry, which gives way to a
\* newer binding and else tries until it can; any other is tried once.
FinishLoad ==
    /\ At("worker", "finishLoad") /\ TrackerFree("worker")
    /\ \/ /\ store # Absent /\ (store.gen = worker.gen \/ ~worker.accepted)
          /\ \/ /\ CanFinishWork(store)
                /\ copies' = Load(copies, "worker") /\ Go("worker", "finishWrite")
                /\ UNCHANGED worker
             \/ /\ store.status = "closing_after_work"
                /\ copies' = Forget(replaceLive(Load(copies, "worker"), "worker"), "worker")
                /\ Go("worker", "closeAfter")
                /\ UNCHANGED worker
             \/ /\ worker.accepted /\ store.status \in {"ready", "archived"}
                /\ copies' = Forget(replaceLive(Load(copies, "worker"), "worker"), "worker")
                /\ WorkerDone("notify")
       \/ /\ \/ worker.accepted /\ store # Absent /\ store.gen # worker.gen
             \/ ~worker.accepted /\ (store = Absent \/ store.status \notin Busy)
          /\ WorkerDone("block")
          /\ UNCHANGED copies
    /\ UNCHANGED <<store, card, machine, attempts, pending, inputs, closes, naming, left,
                   kept>>

FinishWrite ==
    /\ At("worker", "finishWrite")
    /\ \/ /\ Replace("worker", FinishWork(Seen("worker")))
          /\ Go("worker", "finishLive") /\ UNCHANGED worker
       \/ /\ Lost("worker")
          /\ IF worker.accepted THEN Go("worker", "finishLoad") /\ UNCHANGED worker
                                ELSE WorkerDone("block")
    /\ UNCHANGED <<machine, attempts, pending, inputs, closes, naming, left, kept>>

FinishLive ==
    /\ At("worker", "finishLive")
    /\ copies' = Forget(replaceLive(copies, "worker"), "worker")
    /\ WorkerDone("notify")
    /\ UNCHANGED <<store, card, machine, attempts, pending, inputs, closes, naming, left,
                   kept>>

\* stopSession: the claim, BeginStop's load and write, the mirror.  The
\* interrupt only ends a turn that may end by itself at any time.
StopTurn ==
    /\ \/ /\ At("user", "idle") /\ Spend("stop") /\ At("worker", "turn")
          /\ Go("user", "stopLoad") /\ UNCHANGED data
       \/ /\ At("user", "stopLoad") /\ TrackerFree("user") /\ UNCHANGED <<store, card, left>>
          /\ IF store # Absent /\ CanBeginStop(store)
             THEN copies' = Load(copies, "user") /\ Go("user", "stopWrite")
             ELSE Go("user", "idle") /\ UNCHANGED copies
       \/ /\ At("user", "stopWrite") /\ UNCHANGED left
          /\ \/ Replace("user", BeginStop(Seen("user"))) /\ Go("user", "stopLive")
             \/ Lost("user") /\ Go("user", "idle")
       \/ /\ At("user", "stopLive") /\ UNCHANGED <<store, card, left>>
          /\ copies' = Forget(replaceLive(copies, "user"), "user")
          /\ Go("user", "idle")
    /\ UNCHANGED <<machine, control, kept>>

-----------------------------------------------------------------------------
(* app.SessionCloser, one call at a time under its mutex.                  *)

\* Sweep has listed the session as expired.
Sweep ==
    /\ At("expiry", "idle") /\ Spend("expiry")
    /\ store # Absent /\ store.status \in {"ready", "running", "stopping"}
    /\ Go("expiry", "close")
    /\ UNCHANGED <<data, machine, control, kept>>

\* BeginClose by the user; Close by completeAsync, the sweep, and the worker of
\* a turn that ended in closing_after_work, as Retry's binding check allows.
EnterCloser ==
    /\ At("closer", "idle") /\ store # Absent
    /\ copies' = Load(copies, "closer")
    /\ \/ /\ At("user", "idle") /\ Spend("close")
          /\ caller' = "user" /\ UNCHANGED async
          /\ pc' = [pc EXCEPT !["user"] = "closing", !["closer"] = "begin"]
       \/ /\ async > 0 /\ async' = async - 1
          /\ caller' = "async" /\ UNCHANGED left
          /\ Go("closer", "close")
       \/ /\ At("expiry", "close")
          /\ caller' = "expiry" /\ UNCHANGED <<async, left>>
          /\ pc' = [pc EXCEPT !["expiry"] = "closing", !["closer"] = "close"]
       \/ /\ At("worker", "closeAfter") /\ (worker.accepted => store.gen = worker.gen)
          /\ caller' = "worker" /\ UNCHANGED <<async, left>>
          /\ pc' = [pc EXCEPT !["worker"] = "closing", !["closer"] = "close"]
    /\ UNCHANGED <<store, card, machine, attempts, pending, inputs, worker, dropping, naming, kept>>

\* The session to close cannot be loaded, or has a newer binding.
CloseTooLate ==
    /\ \/ /\ store = Absent /\ At("closer", "idle")
          /\ \/ async > 0 /\ async' = async - 1 /\ UNCHANGED pc
             \/ At("expiry", "close") /\ Go("expiry", "idle") /\ UNCHANGED async
          /\ UNCHANGED worker
       \/ /\ store # Absent /\ At("worker", "closeAfter")
          /\ worker.accepted /\ store.gen # worker.gen
          /\ WorkerDone("block") /\ UNCHANGED async
    /\ UNCHANGED <<data, machine, attempts, pending, inputs, caller, dropping, naming, left, kept>>

\* The call returns.  The caller removes the session from the live map, the
\* asynchronous one only when the session is gone; the sweep does not.
EndClose(result) ==
    /\ caller' = "none"
    /\ dropping' = IF caller = "async" /\ result = "done" THEN dropping + 1 ELSE dropping
    /\ worker' = IF caller = "worker" /\ result = "error" /\ ~worker.accepted THEN NoTurn ELSE worker
    /\ pc' = [pc EXCEPT
                !["closer"] = "idle",
                !["expiry"] = IF caller = "expiry" THEN "idle" ELSE @,
                !["user"] = IF caller # "user" THEN @ ELSE IF result = "error" THEN "idle" ELSE "drop",
                !["worker"] = IF caller # "worker" THEN @
                              ELSE IF result # "error" THEN "drop"
                              ELSE IF worker.accepted THEN "closeAfter" ELSE "idle"]
    /\ UNCHANGED async

\* The closer's write, after which the call returns, or which finds a conflict.
WriteAndEnd(next, result) ==
    \/ ReplaceLast("closer", next) /\ EndClose(result)
    \/ Lost("closer") /\ EndClose("error")

\* closeCurrent and closeNow, as far as the call of Abort.
closeCurrent(s) ==
    \/ s.status = "archived" /\ Discard("closer") /\ EndClose("done")
    \/ CanCloseAfterWork(s) /\ WriteAndEnd(CloseAfterWork(s), "scheduled")
    \/ s.status = "closing" /\ Go("closer", "abort") /\ UNCHANGED <<data, worker, closes>>
    \/ /\ CanBeginClose(s)
       /\ \/ /\ Replace("closer", BeginClose(s))
             /\ Go("closer", "abort") /\ UNCHANGED <<worker, closes>>
          \/ Lost("closer") /\ EndClose("error")
    \/ /\ s.status = "awaiting" /\ ~Bound(s)
       /\ \/ deleteProven("closer") /\ EndClose("done")
          \/ ~Deletable("closer") /\ Discard("closer") /\ EndClose("error")
    \/ s.status = "starting" /\ Discard("closer") /\ EndClose("error")

\* BeginCloseWithCompletion: ready and closing sessions are closed behind the
\* caller's back, busy ones after their work.
completeAsync == async' = async + 1 /\ caller' = "none" /\ UNCHANGED <<dropping, worker>>
Scheduled == pc' = [pc EXCEPT !["closer"] = "idle", !["user"] = "drop"]
CloserDecides ==
    LET s == Seen("closer")
        interactive == At("closer", "begin")
    IN
    /\ pc["closer"] \in {"begin", "close"}
    /\ \/ /\ interactive /\ s.status = "closing_after_work"
          /\ Discard("closer") /\ EndClose("scheduled")
       \/ /\ interactive /\ s.status = "ready"
          /\ \/ ReplaceLast("closer", BeginClose(s)) /\ completeAsync /\ Scheduled
             \/ Lost("closer") /\ EndClose("error")
       \/ /\ interactive /\ s.status = "closing"
          /\ Discard("closer") /\ completeAsync /\ Scheduled
       \/ /\ interactive => s.status \notin {"closing_after_work", "ready", "closing"}
          /\ closeCurrent(s)
    /\ UNCHANGED <<machine, attempts, pending, inputs, naming, left, kept>>

CloserAborts ==
    /\ At("closer", "abort")
    /\ \/ AbortSucceeds(Seen("closer").gen) /\ Go("closer", "finish")
       \/ AbortErrs(Seen("closer").gen) /\ Go("closer", "block")
    /\ UNCHANGED <<data, launched, control, kept>>

\* closeNow after Abort: an exit that is not confirmed leaves a recovery, unless
\* the session is proven deleted.  finishClose deletes what is empty.
CloserFinishes ==
    /\ \/ /\ At("closer", "block")
          /\ \/ WasEmptySessionDeleted(Seen("closer").gen) /\ Discard("closer") /\ EndClose("done")
             \/ /\ ~WasEmptySessionDeleted(Seen("closer").gen)
                /\ WriteAndEnd(AwaitRecoveryAt(Seen("closer")), "error")
       \/ /\ At("closer", "finish")
          /\ \/ deleteProven("closer") /\ EndClose("done")
             \/ ~Deletable("closer") /\ Lost("closer") /\ EndClose("error")
             \/ /\ Fresh("closer") /\ ~empty
                /\ Go("closer", "archive") /\ UNCHANGED <<data, worker, closes>>
       \/ /\ At("closer", "archive")
          /\ WriteAndEnd(Archive(Seen("closer")), "done")
    /\ UNCHANGED <<machine, attempts, pending, inputs, naming, left, kept>>

\* selectAfterClose by the user's handler, by applyClosedSession in the worker,
\* and by the completion of an asynchronous close, which waits for the handler.
selectAfterClose ==
    /\ copies' = Forget(copies, "live")
    /\ \/ At("user", "drop") /\ Go("user", "idle") /\ UNCHANGED <<worker, dropping>>
       \/ At("worker", "drop") /\ WorkerDone("notify") /\ UNCHANGED dropping
       \/ /\ dropping > 0 /\ ~At("user", "drop")
          /\ dropping' = dropping - 1 /\ UNCHANGED <<pc, worker>>
    /\ UNCHANGED <<store, card, machine, attempts, pending, inputs, caller, async, naming, left,
                   kept>>

-----------------------------------------------------------------------------
(* Recovery: sessionsupervisor.Watch and RecoverPersisted, which attach to *)
(* the terminal (sessionattachment.Recover), and RecoverUnbound, one at a  *)
(* time under sessionrecoverycontrol's gate.                               *)

\* The sweep's watch of a binding finds its adapter gone, or finds a session
\* that already awaits recovery.
Watch ==
    /\ At("super", "idle") /\ store # Absent
    /\ copies' = Load(copies, "super")
    /\ \/ /\ Bound(store) /\ store.status \notin {"archived", "awaiting"}
          /\ adapter.gen # store.gen
          /\ Go("super", "exited")
       \/ store.status = "awaiting" /\ Go("super", IF Bound(store) THEN "attach" ELSE "initial")
    /\ UNCHANGED <<store, card, machine, control, left, kept>>

AwaitExited ==
    /\ At("super", "exited")
    /\ \/ Replace("super", AwaitRecoveryAt(Seen("super"))) /\ Go("super", "attach")
       \/ Lost("super") /\ Go("super", "idle")
    /\ UNCHANGED <<machine, control, left, kept>>

\* Attach; a terminal that is not there is the end of the session.
AttachTerminal ==
    /\ At("super", "attach")
    /\ \/ /\ Attach(Seen("super").gen) /\ Holds("super")
          /\ Go("super", "attached") /\ UNCHANGED <<data, left>>
       \/ /\ terminal = "none" /\ Startable(Seen("super").gen)
          /\ Go("super", "unavailable") /\ UNCHANGED <<data, runtime, launched, left>>
       \/ /\ FailsToStart(Seen("super").gen, "attachFail")
          /\ Discard("super") /\ Go("super", "idle") /\ UNCHANGED <<runtime, launched>>
    /\ UNCHANGED <<turn, control, kept>>

ArchiveUnavailable ==
    /\ At("super", "unavailable")
    /\ \/ ReplaceLast("super", Archive(Seen("super"))) /\ Go("super", "notify")
       \/ Lost("super") /\ Go("super", "idle")
    /\ UNCHANGED <<machine, control, left, kept>>

\* What the attached session becomes, with a turn of the CLI still going on.
Continued_Ready(s, g) == Recovered(s, g)
Continued(s, g) ==
    LET r == Recovered(s, g) IN
    CASE r.status = "closing" -> [r EXCEPT !.status = "closing_after_work"]
      [] r.status = "ready" -> [r EXCEPT !.status = IF s.target = "stopping" THEN "stopping" ELSE "running"]
      [] OTHER -> r

\* The turns are reconciled and the binding is written.  A conflict, or a
\* reconciliation that fails, leaves the observer to be detached.
Reconcile ==
    LET s == Seen("super")
        g == launched["super"]
        active == turn = "running"
        next == IF active THEN Continued(s, g) ELSE Recovered(s, g)
    IN
    /\ At("super", "attached")
    /\ \/ /\ Replace("super", next) /\ UNCHANGED left
          /\ turn' = IF active THEN turn ELSE "none"
          /\ Go("super", IF active THEN "continuing"
                         ELSE IF next.status \in {"closing", "closing_after_work"} THEN "abort"
                         ELSE "recovered")
       \/ /\ (Lost("super") /\ UNCHANGED left) \/ (Spend("attachFail") /\ Discard("super"))
          /\ Go("super", "detach") /\ UNCHANGED turn
    /\ UNCHANGED <<runtime, launched, control, kept>>

Keep ==
    /\ At("super", "recovered")
    /\ Settled("super") /\ Discard("super")
    /\ Go("super", "notify")
    /\ UNCHANGED <<runtime, turn, control, left, kept>>

\* ContinueAcceptedBatchWithRecovery: the session's worker observes the turn,
\* unless it is still busy or the session has moved on.
ContinueAccepted ==
    /\ At("super", "continuing")
    /\ IF At("worker", "idle") /\ store # Absent /\ store.gen = launched["super"]
          /\ store.status \in Busy
       THEN /\ copies' = [copies EXCEPT !["live"] = [rec |-> store, fresh |-> TRUE]]
            /\ worker' = [gen |-> store.gen, accepted |-> TRUE]
            /\ pc' = [pc EXCEPT !["super"] = "continue", !["worker"] = "turn"]
       ELSE Go("super", "block") /\ UNCHANGED <<copies, worker>>
    /\ UNCHANGED <<store, card, machine, attempts, pending, inputs, closes, naming, left, kept>>

\* A close intent that survived: the terminal is closed, then the session is
\* archived.
FinishSavedClose ==
    /\ \/ /\ At("super", "abort") /\ UNCHANGED data
          /\ \/ AbortSucceeds(launched["super"]) /\ Settled("super") /\ Go("super", "archive")
             \/ AbortErrs(launched["super"]) /\ Go("super", "block") /\ UNCHANGED launched
       \/ /\ At("super", "archive") /\ UNCHANGED <<machine, left>>
          /\ \/ ReplaceLast("super", Archive(Seen("super"))) /\ Go("super", "notify")
             \/ Lost("super") /\ Go("super", "idle")
    /\ UNCHANGED <<control, kept>>

\* blockAttached, then the deferred Detach of the observer.
blockAttached ==
    /\ At("super", "block")
    /\ \/ ReplaceLast("super", AwaitRecoveryAt(Seen("super")))
       \/ Lost("super")
    /\ Go("super", "detach")
    /\ UNCHANGED <<machine, control, left, kept>>

DetachObserver_Forgets ==
    /\ At("super", "detach")
    /\ Settled("super")
    /\ Go("super", "idle")
    /\ UNCHANGED <<data, runtime, turn, control, left, kept>>
DetachObserver ==
    /\ At("super", "detach")
    /\ Detach(launched["super"]) /\ Settled("super")
    /\ Go("super", "idle")
    /\ UNCHANGED <<data, turn, control, left, kept>>

\* RecoverUnbound: one start of a session that never had a binding.
RecoverUnbound ==
    /\ \/ /\ At("super", "initial") /\ UNCHANGED turn
          /\ \/ Launch("super", 0) /\ Go("super", "bind") /\ UNCHANGED <<data, left>>
             \/ /\ FailsToStart(0, "attachFail")
                /\ Discard("super") /\ Go("super", "notify") /\ UNCHANGED <<runtime, launched>>
       \/ /\ At("super", "bind") /\ UNCHANGED <<turn, runtime, left>>
          /\ \/ ReplaceLast("super", Recovered(Seen("super"), launched["super"]))
                /\ Settled("super") /\ Go("super", "notify")
             \/ Lost("super") /\ Go("super", "unbind") /\ UNCHANGED launched
       \/ /\ At("super", "unbind") /\ UNCHANGED data
          /\ AbortSucceeds(launched["super"]) \/ AbortErrs(launched["super"])
          /\ Settled("super") /\ Go("super", "notify")
    /\ UNCHANGED <<control, kept>>

\* RefreshRecoveryCard.
RefreshRecoveryCard ==
    /\ At("super", "notify") /\ Go("super", "idle")
    /\ IF store # Absent /\ store.status = "ready"
       THEN copies' = Load(copies, "live") /\ pending' = FALSE
       ELSE pending' = (pending \/ (store # Absent /\ AcceptsDurableInput(store))) /\ UNCHANGED copies
    /\ UNCHANGED <<store, card, machine, attempts, inputs, worker, closes, naming, left, kept>>

\* RecoverStartup of a session that was still starting: DeferUnboundInitial.
RecoverStartup ==
    /\ At("super", "startup")
    /\ IF store # Absent /\ store.status = "starting"
       THEN /\ store' = AwaitRecoveryAt(store)
            /\ copies' = Forget(Written("super", store'), "super")
            /\ UNCHANGED card
       ELSE UNCHANGED data
    /\ Go("super", "notify")
    /\ UNCHANGED <<machine, control, left, kept>>

-----------------------------------------------------------------------------
(* The archive, the standby session, and the environment.                  *)

\* ResumeArchived: Start from the exact binding, persist, publish.
ResumeArchived ==
    /\ \/ /\ At("user", "idle") /\ Spend("resume")
          /\ store # Absent /\ store.status = "archived" /\ UNCHANGED <<store, card, runtime, launched>>
          /\ copies' = Load(copies, "user") /\ Go("user", "resumeStart")
       \/ /\ At("user", "resumeStart")
          /\ \/ Launch("user", Seen("user").gen) /\ Go("user", "resumePersist")
                /\ UNCHANGED <<data, left>>
             \/ /\ FailsToStart(Seen("user").gen, "startFail")
                /\ Discard("user") /\ Go("user", "idle") /\ UNCHANGED <<runtime, launched>>
       \/ /\ At("user", "resumePersist") /\ UNCHANGED <<runtime, left>>
          /\ \/ Replace("user", Ready(Seen("user"), launched["user"]))
                /\ Settled("user") /\ Go("user", "resumeLive")
             \/ Lost("user") /\ Go("user", "resumeDetach") /\ UNCHANGED launched
       \/ /\ At("user", "resumeDetach") /\ UNCHANGED <<data, left>>
          /\ Detach(launched["user"]) /\ Settled("user") /\ Go("user", "idle")
       \/ /\ At("user", "resumeLive") /\ UNCHANGED <<store, card, runtime, launched, left>>
          /\ copies' = Forget(setLive(copies, "user"), "user") /\ Go("user", "idle")
    /\ UNCHANGED <<turn, control, kept>>

\* ensureStandby retires an empty session that awaits recovery.
ensureStandby ==
    /\ \/ /\ At("standby", "idle") /\ Spend("standby")
          /\ store # Absent /\ store.status = "awaiting" /\ empty
          /\ copies' = Load(copies, "standby") /\ Go("standby", "retire")
          /\ UNCHANGED <<store, card>>
       \/ /\ At("standby", "retire") /\ UNCHANGED left
          /\ \/ deleteProven("standby")
             \/ ~Deletable("standby") /\ Discard("standby")
          /\ Go("standby", "idle")
    /\ UNCHANGED <<machine, control, kept>>

\* The CLI ends its turn.
TurnEnds ==
    /\ turn = "running" /\ turn' = "ended"
    /\ UNCHANGED <<data, runtime, launched, pc, control, left, kept>>

AdapterDies ==
    /\ Spend("exit")
    /\ AdapterExits /\ TurnGoesOn
    /\ UNCHANGED <<data, launched, pc, control, kept>>

\* Bria dies: the adapters go with it, the terminal and what is stored stay.
Crash ==
    /\ Spend("crash")
    /\ adapter' = NoAdapter /\ tombstone' = NoTombstone
    /\ launched' = [a \in Launchers |-> 0]
    /\ copies' = [h \in Holders |-> NoCopy]
    /\ pc' = [a \in Actors |-> CASE a = "creator" -> "done" [] a = "super" -> "startup"
                                 [] OTHER -> "idle"]
    /\ pending' = FALSE /\ naming' = FALSE /\ worker' = NoTurn
    /\ caller' = "none" /\ async' = 0 /\ dropping' = 0 /\ deleted' = 0
    /\ UNCHANGED <<store, empty, terminal, turn, attempts, inputs, kept>>

-----------------------------------------------------------------------------
LifecycleInit ==
    /\ store = NewSession /\ empty = TRUE /\ deleted = 0
    /\ copies = [h \in Holders |-> IF h = "creator" THEN [rec |-> NewSession, fresh |-> TRUE]
                                                    ELSE NoCopy]
    /\ RuntimeInit /\ turn = "none" /\ launched = [a \in Launchers |-> 0]
    /\ pc = [a \in Actors |-> IF a = "creator" THEN "start" ELSE "idle"]
    /\ attempts = 0 /\ pending = TRUE /\ inputs = 0 /\ worker = NoTurn
    /\ caller = "none" /\ async = 0 /\ dropping = 0 /\ naming = FALSE
    /\ left \in Budgets /\ kept = FALSE

CreatorNext ==
    CreatorStarts \/ CreatorPersists \/ CreatorAborts \/ CreatorGivesUp \/ CreatorPublishes
HandlerNext == Handle \/ queueRecoveryInput \/ SetCardPrompt \/ enqueueSession \/ StopTurn \/ ResumeArchived
WorkerNext ==
    \/ ProcessDurableInput \/ CheckRoot \/ StartLoad \/ StartWrite \/ StartLive \/ Submit
    \/ ObserveTurn \/ FinishLoad \/ FinishWrite \/ FinishLive
CloserNext ==
    EnterCloser \/ CloseTooLate \/ CloserDecides \/ CloserAborts \/ CloserFinishes \/ selectAfterClose
SupervisorNext ==
    \/ Watch \/ AwaitExited \/ AttachTerminal \/ ArchiveUnavailable \/ Reconcile \/ Keep
    \/ ContinueAccepted \/ FinishSavedClose \/ blockAttached \/ DetachObserver
    \/ RecoverUnbound \/ RefreshRecoveryCard \/ RecoverStartup
LifecycleNext ==
    \/ CreatorNext \/ HandlerNext \/ WorkerNext \/ CloserNext \/ SupervisorNext
    \/ RenameSession \/ Sweep \/ ensureStandby
    \/ TurnEnds \/ AdapterDies \/ Crash

LifecycleSpec == LifecycleInit /\ [][LifecycleNext]_vars

-----------------------------------------------------------------------------
(* Properties.                                                             *)

Records ==
    [status : Statuses, gen : Generations, target : Statuses \cup {"none"}, named : BOOLEAN]

\* The shape of the state, and of a record: archived, ready, busy and closing
\* sessions are bound, and a recovery target exists exactly in awaiting.
LifecycleTypeOK ==
    /\ store \in Records \cup {Absent}
    /\ store # Absent =>
          /\ (store.status = "awaiting") = (store.target # "none")
          /\ ~Bound(store) => store.status = "starting" \/ store.target = "starting"
    /\ empty \in BOOLEAN /\ deleted \in Generations
    /\ copies \in [Holders -> [rec : Records \cup {Absent}, fresh : BOOLEAN]]
    /\ RuntimeTypeOK
    /\ turn \in {"none", "running", "ended"}
    /\ launched \in [Launchers -> Generations]
    /\ DOMAIN pc = Actors
    /\ attempts \in 0 .. MaxAttempts /\ inputs \in Nat /\ async \in Nat /\ dropping \in Nat
    /\ worker \in [gen : Generations, accepted : BOOLEAN]
    /\ caller \in {"none", "user", "async", "expiry", "worker"}
    /\ {pending, naming, kept} \subseteq BOOLEAN

IsArchived(s) == s # Absent /\ s.status = "archived"

\* A session becomes archived only when its terminal is gone: whichever actor
\* archives it (finishClose, sessionattachment.Recover), and whatever the others
\* do between its Abort and its write, no CLI is left behind.
ExitBeforeArchive ==
    [][ (IsArchived(store') /\ ~IsArchived(store)) => terminal' = "none" ]_vars

\* A tracked adapter belongs to the binding the store shows, or to an actor that
\* will still write that binding or stop the adapter: none is leaked by a lost
\* CompareAndSwap.
AdapterOwned ==
    adapter # NoAdapter =>
        \/ store # Absent /\ store.gen = adapter.gen
        \/ \E a \in Launchers : launched[a] = adapter.gen

\* A session whose card or store has recorded content (SetCardPrompt, StartWork)
\* is never deleted, by any of the deletions of empty sessions.
KeptNotDeleted == kept => store # Absent

\* While the CLI works on a turn the record says so, or awaits a recovery, or a
\* close is under way: a running turn is never taken for a ready session, to
\* which the next root input would be submitted.
RunningTurnIsRecorded ==
    (turn = "running" /\ store # Absent) => store.status \in Busy \cup {"awaiting", "closing"}

\* The session is to be closed, in whatever state that wish waits.
Closings == {"closing", "closing_after_work"}
WantsClose(s) == s # Absent /\ (s.status \in Closings \/ s.target \in Closings)

\* A close once recorded is carried through: no turn that ends, no recovery and
\* no writer with an old copy puts the session back to work.
CloseIntentKept ==
    [][ WantsClose(store) => (store' = Absent \/ WantsClose(store') \/ IsArchived(store')) ]_vars

\* A session that owns a durable input is not deleted.
CustodyNotDeleted == inputs > 0 => store # Absent
=============================================================================
