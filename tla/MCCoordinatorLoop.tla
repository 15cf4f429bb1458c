--------------------------- MODULE MCCoordinatorLoop ---------------------------
(***************************************************************************)
(* The coordinator loop on small instances, and its properties.            *)
(***************************************************************************)
EXTENDS CoordinatorLoop

MCOperationIDs == {StatusOf(u) : u \in Updates} \cup {PromptOf(u) : u \in Updates}
MCAge == [id \in MCOperationIDs |-> 2 * id[2] + (IF id[1] = "status" THEN 1 ELSE 0)]
MCCards == {StatusOf(u) : u \in Updates}

\* A click whose effect or send becomes unknown, and two recovery clicks; two
\* answers around a click; an idempotent edit and an update that blocks.
ClickKinds == <<"button", "recovery", "recovery">>
AnswerKinds == <<"message", "button", "message">>
MixedKinds == <<"message", "repeatable", "other">>
MCKinds == {ClickKinds, AnswerKinds, MixedKinds}

\* Two failures or crashes in all; a bootstrap of an empty chat (offset 0) only
\* without the clicks.
Within ==
    /\ crashes + failures <= 2
    /\ Kind # MixedKinds => ~checkpoint.found \/ checkpoint.Next > 0

BoundedNext == CoordinatorNext /\ Within'
BoundedSpec == LoopInit /\ [][BoundedNext]_loopVars /\ CoordinatorFairness

Callbacks == {u \in Updates : Kind[u] \in {"button", "recovery"}}

\* Every field has its type.
LoopTypeOK ==
    /\ DeliveryTypeOK
    /\ checkpoint \in [found : BOOLEAN, Next : Nat, Blocked : Updates \cup {0},
                       Outbound : [id : OperationIDs, update : Updates,
                                   phase : {"prepared", "unknown", "enqueued", "confirmed"}] \cup {NoOutbound},
                       Recovery : Updates \cup {0}]
    /\ loop.batch \subseteq Updates /\ loop.op \in OperationIDs \cup {NoOperation}
    /\ plan \in [Updates -> [target : Updates, decision : Decisions] \cup {NoPlan}]
    /\ prompts \in [Updates -> UnknownPhases \cup {"none"}]
    /\ effects \in [Updates -> Nat] /\ retries \in [Updates -> Nat] /\ crashes \in 0 .. MaxCrashes

\* Handler.executeClaimed, across crashes, failed effects and updates polled
\* again: the effect of a callback runs once, and once more only for each
\* explicit "possible duplicate" retry of the owner.
EffectsFenced == \A u \in Callbacks : effects[u] <= 1 + retries[u]

\* sendPrepared and deliverStatusOperation, with two senders and lost answers:
\* Telegram applies an operation once, and once more only for each explicit
\* retry.  Edits of repeatable buttons are idempotent and exempt.
SendsFenced ==
    \A u \in Updates :
        /\ Kind[u] # "repeatable" => sends[StatusOf(u)] <= 1 + allowed[StatusOf(u)]
        /\ sends[PromptOf(u)] <= 1

\* handleUpdate: NextUpdateID does not pass a callback that has no outcome.  It
\* is settled; or it is unknown and its recovery prompt is in the ledger; or a
\* recovery click that has begun to resolve it was itself interrupted.
PassedIsSettled ==
    \A u \in Callbacks : u < checkpoint.Next =>
        \/ callbacks[StatusOf(u)] \in {"none", "effect_resolved", "committed"}
        \/ callbacks[StatusOf(u)] \in UnknownPhases /\ (statuses[PromptOf(u)] # "none" \/ sends[PromptOf(u)] > 0)
        \/ \E r \in Updates : r > u /\ plan[r].target = u /\ callbacks[StatusOf(r)] # "none"

\* A saved receipt is the receipt of a delivery: Telegram applied the operation,
\* or the answer was found to be obsolete and dropped on purpose.
ConfirmedWasDelivered ==
    LET o == checkpoint.Outbound IN
    o.phase = "confirmed" =>
        sends[o.id] > 0 \/ statuses[o.id] = "superseded" \/ callbacks[o.id] = "effect_resolved"

\* The reconciler saves the checkpoint beside the loop, which goes on with the
\* offset it read before: ErrCheckpointMismatch cannot happen.
OffsetIsOwn == loop.at \in {"poll", "next"} => checkpoint.Next = loop.next

\* The offset never goes back, and a blocked update is never passed.
OffsetNeverRegresses ==
    [][checkpoint.found => /\ checkpoint'.Next >= checkpoint.Next
                           /\ checkpoint.Blocked # 0 => checkpoint'.Next = checkpoint.Next]_checkpoint

\* Run, restarted after every failure, passes every update, unless an outbound
\* whose fate is unknown or a blocked update stops it on purpose.
EveryUpdateIsPassed ==
    <>(\/ checkpoint.found /\ \A u \in Updates : u < checkpoint.Next
       \/ checkpoint.Outbound.phase = "unknown"
       \/ checkpoint.Blocked # 0)
=============================================================================
