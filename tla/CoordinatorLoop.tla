---------------------------- MODULE CoordinatorLoop ----------------------------
(***************************************************************************)
(* internal/coordinator over the Telegram flow: the loop that polls        *)
(* updates, lets telegramflow.Handler execute each one, delivers its       *)
(* answer, and saves the checkpoint that moves NextUpdateID past it.  The  *)
(* background status runner and the receipt reconciler run beside it.      *)
(*                                                                         *)
(* Every durable write and every external effect is a step of its own, and *)
(* a crash can come between any two.  A failed call of the loop ends Run;  *)
(* the service manager starts the process again.  The checkpoint's         *)
(* revision is left out: only the holder of loop.mutation saves, so the    *)
(* compare-and-swap on it cannot fail.                                     *)
(*                                                                         *)
(* Kinds of update: a message; an "other" the controller does not handle;  *)
(* a "button" whose effect must not run twice                              *)
(* on its own; a "repeatable" button (page, session selection), whose      *)
(* projection may; and a "recovery" button of the prompt that asks the     *)
(* owner what became of an earlier callback.                               *)
(***************************************************************************)
EXTENDS TelegramDelivery, FiniteSetsExt

CONSTANTS
    Updates,        \* update IDs, in Telegram's order
    KindChoices,    \* what the updates may be
    FirstUpdateIDs, \* what Source.Bootstrap may return
    MaxCrashes      \* bound: crashes of the process

StatusOf(u) == <<"status", u>>
PromptOf(u) == <<"recovery", u>>

ASSUME LoopAssumption ==
    /\ Updates \subseteq Nat \ {0}
    /\ KindChoices \subseteq [Updates -> {"message", "other", "button", "repeatable", "recovery"}]
    /\ OperationIDs = {StatusOf(u) : u \in Updates} \cup {PromptOf(u) : u \in Updates}
    /\ Senders = {"loop", "runner"}
    /\ FirstUpdateIDs \subseteq Nat /\ MaxCrashes \in Nat

VARIABLES
    Kind,           \* what each update is
    checkpoint,     \* the coordinator's checkpoint file
    loop,           \* the goroutine of Loop.Run
    plan,           \* which unknown operation a recovery click resolves, and how
    prompts,        \* the unknown phase each recovery prompt was projected for
    effects,        \* history: how often the effect of each callback ran
    retries,        \* history: explicit "possible duplicate" retries of an effect
    crashes

tracking == <<plan, prompts, effects, retries, crashes, Kind>>
loopVars == <<ledger, sending, checkpoint, loop, tracking>>

NoOutbound == [id |-> NoOperation, update |-> 0, phase |-> "none"]
NoCheckpoint == [found |-> FALSE, Next |-> 0, Blocked |-> 0, Outbound |-> NoOutbound, Recovery |-> 0]
Down == [at |-> "down", next |-> 0, batch |-> {}, op |-> NoOperation]
NoPlan == [target |-> 0, decision |-> "none"]

Decisions == {"effect_confirmed", "effect_retry", "send_confirmed", "send_retry"}

\* telegramrecovery.ProjectUnknown: the buttons of a prompt.
ProjectUnknown(phase) ==
    CASE phase = "effect_unknown" -> {"effect_confirmed", "effect_retry"}
      [] phase = "effect_retry_unknown" -> {"effect_confirmed"}
      [] phase = "send_unknown" -> {"send_confirmed", "send_retry"}
      [] OTHER -> {}

UnknownPhases == {"effect_unknown", "effect_retry_unknown", "send_unknown"}

\* The update being handled, and its operation.
Current == Min(loop.batch)
Own == StatusOf(Current)

validateCheckpoint(c) ==
    LET o == c.Outbound IN
    /\ c.found
    /\ c.Blocked = 0 \/ c.Blocked >= c.Next
    /\ c.Recovery <= c.Next
    /\ c.Recovery # 0 /\ c.Recovery = c.Next =>
          o.id = PromptOf(c.Recovery) /\ o.update = c.Recovery /\ o.phase \in {"prepared", "unknown"}
    /\ o.phase \in {"prepared", "unknown"} => o.update >= c.Next
    /\ o.phase \in {"enqueued", "confirmed"} => c.Next > o.update

-----------------------------------------------------------------------------
(* The steps of the loop.                                                  *)

Goto(at) == loop' = [loop EXCEPT !.at = at]

\* Run returns an error and the process ends.
Exit == loop' = Down

Fails == failures < MaxFailures /\ failures' = failures + 1 /\ UNCHANGED <<delivery, sends, allowed>>

\* handleUpdate returned: the next update of the batch, or the next poll.
Advance(next) ==
    loop' = [at |-> IF loop.batch = {Current} THEN "poll" ELSE "next", next |-> next,
             batch |-> loop.batch \ {Current}, op |-> NoOperation]

\* saveVerified: an invalid checkpoint is refused before anything is written.
saveVerified(c, then) ==
    IF validateCheckpoint(c) THEN checkpoint' = c /\ then ELSE UNCHANGED checkpoint /\ Exit

Run ==
    /\ loop.at = "down"
    /\ \/ checkpoint.found /\ UNCHANGED checkpoint
       \/ /\ ~checkpoint.found
          /\ \E n \in FirstUpdateIDs :
                checkpoint' = [NoCheckpoint EXCEPT !.found = TRUE, !.Next = n]
    /\ Goto("recover")
    /\ delivery' = [s \in Senders |-> NotDelivering]
    /\ UNCHANGED <<ledger, sends, allowed, failures, tracking>>

confirmOutbound_Rewinds(c) ==
    [c EXCEPT !.Next = c.Outbound.update + 1, !.Outbound.phase = "confirmed"]

\* The offset moves past the update only if it has not already.
confirmOutbound(c) ==
    [c EXCEPT !.Next = IF @ <= c.Outbound.update THEN c.Outbound.update + 1 ELSE @,
              !.Outbound.phase = "confirmed"]

resolveInterruptedState_Waits ==
    LET c == checkpoint
        open == c.Outbound.phase \in {"prepared", "unknown", "enqueued"}
    IN
    /\ loop.at = "recover"
    /\ IF open /\ ~ResolveStatusReceipt(c.Outbound.id)
       THEN Exit
       ELSE loop' = [loop EXCEPT !.at = "poll", !.next = c.Next]
    /\ UNCHANGED <<ledger, sending, checkpoint, tracking>>

resolveInterruptedState_Rewinds ==
    LET c == confirmOutbound_Rewinds(checkpoint) IN
    /\ loop.at = "recover"
    /\ IF checkpoint.Outbound.phase = "enqueued" /\ ResolveStatusReceipt(checkpoint.Outbound.id)
       THEN saveVerified(c, loop' = [loop EXCEPT !.at = "poll", !.next = c.Next])
       ELSE UNCHANGED checkpoint /\ loop' = [loop EXCEPT !.at = "poll", !.next = checkpoint.Next]
    /\ UNCHANGED <<ledger, sending, tracking>>

\* What the last run left behind is settled before the first poll: from the
\* receipt in the ledger if there is one.  A prepared outbound without a receipt
\* becomes unknown, and neither is ever sent again.
resolveInterruptedState ==
    LET c == checkpoint
        open == c.Outbound.phase \in {"prepared", "unknown", "enqueued"}
        confirmed == open /\ ResolveStatusReceipt(c.Outbound.id)
        Polls(next) == loop' = [loop EXCEPT !.at = "poll", !.next = next]
    IN
    /\ loop.at = "recover"
    /\ \/ c.Blocked # 0 /\ UNCHANGED checkpoint /\ Exit
       \/ /\ c.Blocked = 0 /\ confirmed
          /\ saveVerified(confirmOutbound(c), Polls(confirmOutbound(c).Next))
       \/ /\ c.Blocked = 0 /\ ~confirmed
          /\ c.Outbound.phase \in {"none", "confirmed", "enqueued"}
          /\ UNCHANGED checkpoint /\ Polls(c.Next)
       \/ /\ c.Blocked = 0 /\ ~confirmed
          /\ c.Outbound.phase \in {"prepared", "unknown"}
          /\ saveVerified([c EXCEPT !.Outbound.phase = "unknown"], Exit)
    /\ UNCHANGED <<ledger, sending, tracking>>

\* Source.Poll and validateUpdates: the updates from NextUpdateID up to one that
\* Telegram has so far.
Poll ==
    /\ loop.at = "poll"
    /\ \E last \in {u \in Updates : u >= loop.next} :
          loop' = [loop EXCEPT !.at = "next", !.batch = {u \in Updates : u >= loop.next /\ u <= last}]
    /\ UNCHANGED <<ledger, sending, checkpoint, tracking>>

Skip == [checkpoint EXCEPT !.Next = Current + 1]
SaveSkip == saveVerified(Skip, Advance(Current + 1))

-----------------------------------------------------------------------------
(* handleUpdate: loop.mutation is taken and the checkpoint read again.      *)

\* ErrCheckpointMismatch, when the offset has moved, is shown unreachable by
\* OffsetIsOwn.
Handling(u) == loop.at = "next" /\ u = Current /\ checkpoint.Next = loop.next

PrepareOutbound_AtOffset(id, recovery) ==
    LET c == [checkpoint EXCEPT !.Outbound = [id |-> id, update |-> checkpoint.Next, phase |-> "prepared"],
                                !.Recovery = recovery]
    IN saveVerified(c, loop' = [loop EXCEPT !.at = "enqueue", !.op = id])

\* sendStatus of a message: the outbound is durable before it is enqueued.
PrepareOutbound(id, recovery) ==
    LET c == [checkpoint EXCEPT !.Outbound = [id |-> id, update |-> Current, phase |-> "prepared"],
                                !.Recovery = recovery]
    IN saveVerified(c, loop' = [loop EXCEPT !.at = "enqueue", !.op = id])

HandleMessage(u) ==
    /\ Handling(u) /\ Kind[u] = "message"
    /\ \/ Fails /\ Exit /\ UNCHANGED checkpoint
       \/ SaveSkip /\ UNCHANGED sending
       \/ PrepareOutbound(StatusOf(u), checkpoint.Recovery) /\ UNCHANGED sending
    /\ UNCHANGED <<ledger, tracking>>

\* DecisionBlock.
HandleOther(u) ==
    /\ Handling(u) /\ Kind[u] = "other"
    /\ saveVerified([checkpoint EXCEPT !.Blocked = u], Exit)
    /\ UNCHANGED <<ledger, sending, tracking>>

\* Handler.Handle of a callback the ledger does not know: it is discarded, or
\* accepted and claimed.  A recovery click carries the prompt's operation and
\* phase, and the prompt is on the owner's screen.
AcceptCallback(u) ==
    /\ Handling(u) /\ callbacks[Own] = "none"
    /\ \/ SaveSkip /\ UNCHANGED <<ledger, plan>>
       \/ /\ Kind[u] = "button"
          /\ createCallback(Own, "claimed") /\ Goto("fence")
          /\ UNCHANGED <<checkpoint, plan>>
       \/ /\ Kind[u] = "recovery"
          /\ \E t \in Updates : \E d \in ProjectUnknown(prompts[t]) :
                sends[PromptOf(t)] > 0 /\ plan' = [plan EXCEPT ![u] = [target |-> t, decision |-> d]]
          /\ createCallback(Own, "claimed") /\ Goto("fence")
          /\ UNCHANGED checkpoint
       \/ /\ Kind[u] = "repeatable"          \* executeReplaySafe
          /\ createCallback(Own, "prepared") /\ loop' = [loop EXCEPT !.at = "show", !.op = Own]
          /\ UNCHANGED <<checkpoint, plan>>
    /\ Kind[u] \in {"button", "recovery", "repeatable"}
    /\ UNCHANGED <<sending, prompts, effects, retries, crashes, Kind>>

\* A callback the ledger knows, polled again after a restart.
resumeOperation(u) ==
    /\ Handling(u) /\ Kind[u] \in {"button", "recovery", "repeatable"}
    /\ \/ callbacks[Own] = "claimed" /\ Goto("fence") /\ UNCHANGED <<ledger, checkpoint>>
       \/ /\ callbacks[Own] = "prepared" /\ loop' = [loop EXCEPT !.at = "show", !.op = Own]
          /\ UNCHANGED <<ledger, checkpoint>>
       \/ swapCallback(Own, "receipt_confirmed", "committed") /\ Goto("skip") /\ UNCHANGED checkpoint
       \/ callbacks[Own] \in {"effect_resolved", "committed"} /\ SaveSkip /\ UNCHANGED ledger
       \/ callbacks[Own] \in UnknownPhases /\ Goto("prompt") /\ UNCHANGED <<ledger, checkpoint>>
    /\ UNCHANGED <<sending, tracking>>

SkipResumed ==
    /\ loop.at = "skip"
    /\ SaveSkip
    /\ UNCHANGED <<ledger, sending, tracking>>

-----------------------------------------------------------------------------
(* executeClaimed: fence, effect, output.                                   *)

FenceEffect_Late ==
    /\ loop.at = "fence"
    /\ Goto("effect")
    /\ UNCHANGED <<ledger, sending, checkpoint, tracking>>

FenceEffect ==
    /\ loop.at = "fence"
    /\ swapCallback(Own, "claimed", "effect_unknown")
    /\ Goto("effect")
    /\ UNCHANGED <<sending, checkpoint, tracking>>

\* An effect that ran and returned, or an error that leaves open whether it ran.
RunEffect(u, then) ==
    \/ /\ effects' = [effects EXCEPT ![u] = @ + 1] /\ Goto(then)
       /\ UNCHANGED sending
    \/ /\ Fails /\ Goto("prompt")
       /\ \E n \in {0, 1} : effects' = [effects EXCEPT ![u] = @ + n]

ExecuteEffect ==
    /\ loop.at = "effect" /\ Kind[Current] = "button"
    /\ RunEffect(Current, "persist")
    /\ UNCHANGED <<ledger, checkpoint, plan, prompts, retries, crashes, Kind>>

PersistOutput ==
    /\ loop.at = "persist"
    /\ \/ /\ swapCallback(Own, "effect_unknown", "prepared")
          /\ loop' = [loop EXCEPT !.at = "show", !.op = Own]
          /\ UNCHANGED sending
       \/ /\ Kind[Current] = "recovery"     \* the current card could not be projected
          /\ Fails /\ Goto("prompt") /\ UNCHANGED ledger
    /\ UNCHANGED <<checkpoint, tracking>>

-----------------------------------------------------------------------------
(* telegramrecoverycomposition.Executor: the effect of a recovery click.    *)

Target == plan[Current].target

\* The click applies only to the operation in the phase its prompt showed.  A
\* retry is counted when its fence is written: the owner has authorised it.
resolveCallback ==
    LET d == plan[Current].decision
        id == StatusOf(Target)
    IN
    /\ loop.at = "effect" /\ Kind[Current] = "recovery"
    /\ \/ /\ callbacks[id] # prompts[Target] /\ Goto("prompt")
          /\ UNCHANGED <<ledger, sending, retries>>
       \/ /\ d = "effect_confirmed" /\ swapCallback(id, prompts[Target], "effect_resolved")
          /\ Goto("persist") /\ UNCHANGED <<sending, retries>>
       \/ /\ d = "effect_retry" /\ swapCallback(id, "effect_unknown", "effect_retry_unknown")
          /\ retries' = [retries EXCEPT ![Target] = @ + 1]
          /\ Goto("retry") /\ UNCHANGED sending
       \/ /\ d = "send_confirmed" /\ swapCallback(id, "send_unknown", "receipt_confirmed")
          /\ Goto("settle") /\ UNCHANGED <<sending, retries>>
       \/ /\ d = "send_retry" /\ swapCallback(id, "send_unknown", "prepared")
          /\ allowed' = [allowed EXCEPT ![id] = @ + 1]
          /\ loop' = [loop EXCEPT !.at = "show", !.op = id]
          /\ UNCHANGED <<delivery, sends, failures, retries>>
    /\ UNCHANGED <<checkpoint, plan, prompts, effects, crashes, Kind>>

\* retryCallbackEffect: the plan is given to the executor below, which knows no
\* recovery clicks.
RetryEffect ==
    /\ loop.at = "retry"
    /\ \/ Kind[Target] = "button" /\ RunEffect(Target, "retried")
       \/ Kind[Target] = "recovery" /\ Goto("prompt") /\ UNCHANGED <<sending, effects>>
    /\ UNCHANGED <<ledger, checkpoint, plan, prompts, retries, crashes, Kind>>

ResolveRetried ==
    /\ loop.at = "retried"
    /\ swapCallback(StatusOf(Target), "effect_retry_unknown", "effect_resolved")
    /\ Goto("persist")
    /\ UNCHANGED <<sending, checkpoint, tracking>>

\* The second half of settlePreparedReceipt.
SettleReceipt ==
    /\ loop.at = "settle"
    /\ \/ /\ swapCallback(StatusOf(Target), "receipt_confirmed", "committed")
          /\ Goto("persist") /\ UNCHANGED sending
       \/ Fails /\ Goto("prompt") /\ UNCHANGED ledger
    /\ UNCHANGED <<checkpoint, tracking>>

-----------------------------------------------------------------------------
(* sendPrepared of a callback operation: the update's own, through          *)
(* DeliverPreparedStatus, or the one whose send a recovery click retries.   *)

ReplaySafe == Kind[loop.op[2]] = "repeatable"

\* An error ends Run, or is the error of the recovery click's effect.
SendFailed == IF loop.op = Own THEN Exit ELSE Goto("prompt")

\* The card is no longer current, or the previous one could not be deactivated,
\* or the send is fenced; an idempotent edit needs no fence.
ShowCallback ==
    LET op == loop.op IN
    /\ loop.at = "show"
    /\ \/ ReplaySafe /\ Goto("send") /\ UNCHANGED <<ledger, sending>>
       \/ ~ReplaySafe /\ swapCallback(op, "prepared", "send_unknown") /\ Goto("send") /\ UNCHANGED sending
       \/ op = Own /\ swapCallback(op, "prepared", "effect_resolved") /\ Goto("save") /\ UNCHANGED sending
       \/ Fails /\ SendFailed /\ UNCHANGED ledger
    /\ UNCHANGED <<checkpoint, tracking>>

SendCallback ==
    /\ loop.at = "send"
    /\ \/ Applied(loop.op) /\ Goto("receipt")
       \/ Unanswered(loop.op) /\ SendFailed
    /\ UNCHANGED <<delivery, ledger, checkpoint, tracking>>

SaveCallbackReceipt ==
    /\ loop.at = "receipt"
    /\ swapCallback(loop.op, IF ReplaySafe THEN "prepared" ELSE "send_unknown", "receipt_confirmed")
    /\ Goto("finalize")
    /\ UNCHANGED <<sending, checkpoint, tracking>>

\* finalizePrepared binds the keyboard, and the operation is committed.
FinalizeCallback ==
    /\ loop.at = "finalize"
    /\ \/ /\ swapCallback(loop.op, "receipt_confirmed", "committed")
          /\ Goto(IF loop.op = Own THEN "save" ELSE "persist") /\ UNCHANGED sending
       \/ Fails /\ SendFailed /\ UNCHANGED ledger
    /\ UNCHANGED <<checkpoint, tracking>>

SaveConfirmed ==
    /\ loop.at = "save"
    /\ saveVerified([checkpoint EXCEPT !.Next = Current + 1,
                         !.Outbound = [id |-> Own, update |-> Current, phase |-> "confirmed"]],
                    Advance(Current + 1))
    /\ UNCHANGED <<ledger, sending, tracking>>

-----------------------------------------------------------------------------
(* Durable statuses: the answer to a message, and the recovery prompt.      *)

Prompt_Unfenced ==
    /\ loop.at = "prompt"
    /\ SaveSkip
    /\ UNCHANGED <<ledger, sending, tracking>>

\* PrepareUnknownRecovery and enqueueRecoveryPrompt: only an operation in an
\* unknown phase has a prompt, and only one recovery is open at a time.
Prompt ==
    LET c == checkpoint IN
    /\ loop.at = "prompt"
    /\ IF callbacks[Own] \notin UnknownPhases \/ (c.Recovery # 0 /\ c.Next <= c.Recovery)
       THEN Exit /\ UNCHANGED <<checkpoint, prompts>>
       ELSE /\ prompts' = [prompts EXCEPT ![Current] = callbacks[Own]]
            /\ PrepareOutbound(PromptOf(Current), Current)
    /\ UNCHANGED <<ledger, sending, plan, effects, retries, crashes, Kind>>

\* EnqueueStatus: the status is inserted, or the write fails and the outbound is
\* unknown for good.
EnqueueStatus ==
    /\ loop.at = "enqueue"
    /\ \/ /\ enqueueStatus(loop.op) /\ Goto("deliver")
          /\ UNCHANGED <<sending, checkpoint>>
       \/ /\ Fails /\ UNCHANGED ledger
          /\ saveVerified([checkpoint EXCEPT !.Outbound.phase = "unknown"], Exit)
    /\ UNCHANGED tracking

\* The enqueuing goroutine tries the delivery at once, and ignores its result.
DeliverInline ==
    /\ loop.at = "deliver"
    /\ deliverStatusOperation("loop", loop.op)
    /\ Goto("delivering")
    /\ UNCHANGED <<checkpoint, tracking>>

DeliverInlineStep ==
    /\ DeliveryStep("loop")
    /\ UNCHANGED <<loop, checkpoint, tracking>>

SaveEnqueued ==
    /\ loop.at = "delivering" /\ delivery["loop"] = NotDelivering
    /\ saveVerified([checkpoint EXCEPT !.Next = Current + 1, !.Outbound.phase = "enqueued"],
                    Advance(Current + 1))
    /\ UNCHANGED <<ledger, sending, tracking>>

-----------------------------------------------------------------------------
(* Beside the loop.                                                         *)

\* StatusDeliveryRunner.
DeliverStatuses ==
    /\ DeliverPendingStatuses("runner") \/ DeliveryStep("runner")
    /\ UNCHANGED <<checkpoint, loop, tracking>>

\* ReconcileEnqueuedOutbound and ConfirmEnqueuedOutbound, under loop.mutation.
ConfirmEnqueuedOutbound ==
    /\ loop.at \in {"recover", "poll", "next"}
    /\ checkpoint.Outbound.phase = "enqueued"
    /\ ResolveStatusReceipt(checkpoint.Outbound.id)
    /\ saveVerified(confirmOutbound(checkpoint), UNCHANGED loop)
    /\ UNCHANGED <<ledger, sending, tracking>>

Crash ==
    /\ loop.at # "down" /\ crashes < MaxCrashes
    /\ crashes' = crashes + 1
    /\ loop' = Down
    /\ delivery' = [s \in Senders |-> NotDelivering]
    /\ UNCHANGED <<ledger, checkpoint, sends, allowed, failures, plan, prompts, effects, retries, Kind>>

-----------------------------------------------------------------------------
LoopInit ==
    /\ DeliveryInit
    /\ Kind \in KindChoices
    /\ checkpoint = NoCheckpoint /\ loop = Down
    /\ plan = [u \in Updates |-> NoPlan]
    /\ prompts = [u \in Updates |-> "none"]
    /\ effects = [u \in Updates |-> 0]
    /\ retries = [u \in Updates |-> 0]
    /\ crashes = 0

LoopNext ==
    \/ Run \/ resolveInterruptedState \/ Poll
    \/ \E u \in Updates : HandleMessage(u) \/ HandleOther(u) \/ AcceptCallback(u) \/ resumeOperation(u)
    \/ SkipResumed \/ FenceEffect \/ ExecuteEffect \/ PersistOutput
    \/ resolveCallback \/ RetryEffect \/ ResolveRetried \/ SettleReceipt
    \/ ShowCallback \/ SendCallback \/ SaveCallbackReceipt \/ FinalizeCallback \/ SaveConfirmed
    \/ Prompt \/ EnqueueStatus \/ DeliverInline \/ DeliverInlineStep \/ SaveEnqueued

CoordinatorNext == LoopNext \/ DeliverStatuses \/ ConfirmEnqueuedOutbound \/ Crash

CoordinatorSpec == LoopInit /\ [][CoordinatorNext]_loopVars

\* The service manager restarts the process, and the goroutines are scheduled.
CoordinatorFairness ==
    /\ WF_loopVars(LoopNext)
    /\ WF_loopVars(DeliveryStep("runner") /\ UNCHANGED <<checkpoint, loop, tracking>>)
=============================================================================
