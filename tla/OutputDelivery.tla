---------------------------- MODULE OutputDelivery ----------------------------
(***************************************************************************)
(* The way of a session's output to the owner's chat: custody in the       *)
(* message journal (durablecomposition.OutputCustody), the dispatcher that *)
(* leases outputs (OutputDispatcher, durableflow.DeliverNextOutput), the   *)
(* completion deliverer that projects a card and puts it in the Telegram   *)
(* ledger, and the status runner that delivers what the ledger holds.  Two *)
(* durable records, the journal's output and the ledger's status, describe *)
(* one delivery; a crash can separate them.                                *)
(*                                                                         *)
(* The journal is module MessageJournal with no inputs.  Foreign are the   *)
(* statuses of the coordinator loop, which share the ledger.  A failed     *)
(* journal or ledger write and a failed call count against MaxFailures.    *)
(***************************************************************************)
EXTENDS TelegramDelivery

CONSTANTS
    Outputs,        \* operation IDs of the session's outputs
    KindChoices,    \* the notification kinds that the outputs may have
    MaxCrashes      \* bound: crashes of the process

Foreign == OperationIDs \ Outputs
OutputKinds == {"commentary", "question", "final", "error"}

ASSUME OutputAssumption ==
    /\ Outputs \subseteq OperationIDs /\ Cards = Outputs
    /\ KindChoices \subseteq [Outputs -> OutputKinds]
    /\ Senders = {"dispatcher", "runner"}
    /\ MaxCrashes \in Nat

VARIABLES
    KindOf,         \* the notification kind of each output
    journal,        \* the session's record in the message journal
    refused,        \* history: clauses of validateSession that refused a change
    leased,         \* history: outputs that have been leased
    retried,        \* history: outputs made pending again (none: RetryOutput has no caller)
    coalescing,     \* outputs whose AcceptOutput has not yet superseded older ones
    dispatcher,     \* the dispatcher goroutine, and the output it delivers
    crashes

custody == <<journal, refused, leased, retried>>
outputVars == <<KindOf, ledger, sending, custody, coalescing, dispatcher, crashes>>

J == INSTANCE MessageJournal WITH
    MessageIDs <- {}, OperationIDs <- Outputs, Owners <- {"flow"}, Tokens <- {}, Payloads <- {},
    Kinds <- OutputKinds, Receipts <- {"confirmed", "suppressed"},
    MaxInputsPerSession <- 1, MaxPendingInputsPerSession <- 1,
    MaxOutputsPerSession <- Cardinality(Outputs),
    session <- journal, sent <- leased, handed <- {}, settled <- {}, captured <- {}

Resting == [at |-> "idle", op |-> NoOperation]
Step(at) == dispatcher' = [dispatcher EXCEPT !.at = at]
Phase(p) == journal.Outputs[p].Phase

\* A durable write fails.
Fault ==
    /\ failures < MaxFailures /\ failures' = failures + 1
    /\ UNCHANGED <<delivery, sends, allowed>>

-----------------------------------------------------------------------------
(* OutputCustody.AcceptOutput: two journal transactions.                    *)

\* What a newer output of the kind makes obsolete.
coalescedStateKinds(kind) == IF kind = "question" THEN {} ELSE {"commentary"}

AcceptOutput(p) ==
    /\ J!EnqueueOutput(p, KindOf[p])
    /\ coalescing' = IF coalescedStateKinds(KindOf[p]) = {} THEN coalescing ELSE coalescing \cup {p}
    /\ UNCHANGED <<ledger, sending, dispatcher, crashes, KindOf>>

Coalesce(p) ==
    /\ p \in coalescing
    /\ coalescing' = coalescing \ {p}
    /\ \/ J!SupersedePendingOutputs(p, coalescedStateKinds(KindOf[p]))
       \/ /\ \A q \in J!OutputsIn(journal, {"pending"}) :
                \/ journal.Outputs[q].Sequence >= journal.Outputs[p].Sequence
                \/ journal.Outputs[q].Lease.Owner # ""
                \/ KindOf[q] \notin coalescedStateKinds(KindOf[p])
          /\ UNCHANGED custody
    /\ UNCHANGED <<ledger, sending, dispatcher, crashes, KindOf>>

-----------------------------------------------------------------------------
(* The dispatcher.  It sweeps every session twice a second, so that the     *)
(* wake channel only shortens the wait.                                     *)

DeliverNextOutput(p) ==
    /\ dispatcher = Resting
    /\ J!LeaseNextOutput(p, "flow")
    /\ dispatcher' = [at |-> "project", op |-> p]
    /\ UNCHANGED <<ledger, sending, coalescing, crashes, KindOf>>

\* CompletionDeliverer: commentary, a question or an error that the owner does
\* not watch is suppressed, which counts as confirmed.  A final is always shown.
Suppress ==
    /\ dispatcher.at = "project" /\ KindOf[dispatcher.op] # "final"
    /\ Step("suppressed")
    /\ UNCHANGED <<ledger, sending, custody, coalescing, crashes, KindOf>>

\* The card cannot be projected, or is no longer the one to edit.
ProjectionFails ==
    /\ dispatcher.at = "project"
    /\ Fault /\ Step("seal")
    /\ UNCHANGED <<ledger, custody, coalescing, crashes, KindOf>>

EnqueueCompletionPrepared_Again ==
    LET p == dispatcher.op IN
    /\ dispatcher.at = "project"
    /\ write(callbacks, [statuses EXCEPT ![p] = "queued"]) /\ Step("deliver")
    /\ UNCHANGED <<sending, custody, coalescing, crashes, KindOf>>

\* EnqueueCompletionPrepared: the first projection of an output is the one that
\* is delivered; a settled or fenced status is left as it is.
EnqueueCompletionPrepared ==
    LET p == dispatcher.op IN
    /\ dispatcher.at = "project"
    /\ \/ enqueueStatus(p) /\ Step("deliver") /\ UNCHANGED sending
       \/ statuses[p] = "none" /\ Fault /\ Step("seal") /\ UNCHANGED ledger
       \/ statuses[p] = "queued" /\ Step("deliver") /\ UNCHANGED <<ledger, sending>>
       \/ statuses[p] \notin {"none", "queued"} /\ Step("resolve") /\ UNCHANGED <<ledger, sending>>
    /\ UNCHANGED <<custody, coalescing, crashes, KindOf>>

\* The inline delivery; its error is ignored.
Deliver ==
    /\ \/ /\ dispatcher.at = "deliver"
          /\ deliverStatusOperation("dispatcher", dispatcher.op) /\ Step("delivering")
       \/ DeliveryStep("dispatcher") /\ UNCHANGED dispatcher
    /\ UNCHANGED <<custody, coalescing, crashes, KindOf>>

ResolveDelivery_Waits ==
    LET p == dispatcher.op IN
    /\ \/ dispatcher.at = "resolve"
       \/ dispatcher.at = "delivering" /\ delivery["dispatcher"] = NotDelivering
    /\ ResolveStatusReceipt(p) /\ Step("confirmed")
    /\ UNCHANGED <<ledger, sending, custody, coalescing, crashes, KindOf>>

\* DeliverCompletionPrepared asks the ledger what became of it.  A commentary or
\* question whose card was hidden meanwhile is suppressed instead of failing.
ResolveDelivery ==
    LET p == dispatcher.op IN
    /\ \/ dispatcher.at = "resolve"
       \/ dispatcher.at = "delivering" /\ delivery["dispatcher"] = NotDelivering
    /\ \/ ResolveStatusReceipt(p) /\ Step("confirmed")
       \/ ~ResolveStatusReceipt(p) /\ Step("seal")
       \/ ~ResolveStatusReceipt(p) /\ KindOf[p] \in {"commentary", "question"} /\ Step("suppressed")
    /\ UNCHANGED <<ledger, sending, custody, coalescing, crashes, KindOf>>

\* The rest of deliverLeasedOutput.  A confirmation that cannot be written is
\* sealed as unknown; a seal that cannot be written leaves the lease to expire.
deliverLeasedOutput ==
    LET p == dispatcher.op IN
    /\ \/ /\ dispatcher.at \in {"confirmed", "suppressed"}
          /\ \/ J!ConfirmOutput(p, "flow", dispatcher.at) /\ dispatcher' = Resting /\ UNCHANGED sending
             \/ Fault /\ Step("seal") /\ UNCHANGED custody
       \/ /\ dispatcher.at = "seal"
          /\ \/ J!MarkOutputUnknown(p, "flow") /\ UNCHANGED sending
             \/ Fault /\ UNCHANGED custody
          /\ dispatcher' = Resting
    /\ UNCHANGED <<ledger, coalescing, crashes, KindOf>>

-----------------------------------------------------------------------------
(* Beside the dispatcher.                                                   *)

\* StatusDeliveryRunner.
RunStatuses ==
    /\ DeliverPendingStatuses("runner") \/ DeliveryStep("runner")
    /\ UNCHANGED <<custody, coalescing, dispatcher, crashes, KindOf>>

\* The coordinator loop answers an update.
AnswerUpdate(id) ==
    /\ enqueueStatus(id)
    /\ sends[id] = 0
    /\ UNCHANGED <<sending, custody, coalescing, dispatcher, crashes, KindOf>>

Expire ==
    /\ J!LeaseExpires
    /\ UNCHANGED <<ledger, sending, coalescing, dispatcher, crashes, KindOf>>

Crash ==
    /\ crashes < MaxCrashes /\ crashes' = crashes + 1
    /\ dispatcher' = Resting /\ coalescing' = {}
    /\ delivery' = [s \in Senders |-> NotDelivering]
    /\ UNCHANGED <<ledger, sends, allowed, failures, custody, KindOf>>

-----------------------------------------------------------------------------
OutputInit ==
    /\ DeliveryInit
    /\ KindOf \in KindChoices
    /\ journal = [NextSequence |-> 0, Inputs |-> [m \in {} |-> J!NoInput],
                  Outputs |-> [p \in Outputs |-> J!NoOutput], Recovery |-> J!NoRecovery]
    /\ refused = {} /\ leased = {} /\ retried = {}
    /\ coalescing = {} /\ dispatcher = Resting /\ crashes = 0

DispatcherNext ==
    \/ \E p \in Outputs : DeliverNextOutput(p)
    \/ Suppress \/ ProjectionFails \/ EnqueueCompletionPrepared
    \/ Deliver \/ ResolveDelivery \/ deliverLeasedOutput

OutputNext ==
    \/ \E p \in Outputs : AcceptOutput(p) \/ Coalesce(p)
    \/ DispatcherNext \/ RunStatuses
    \/ \E id \in Foreign : AnswerUpdate(id)
    \/ Expire \/ Crash

OutputSpec == OutputInit /\ [][OutputNext]_outputVars

\* The dispatcher and the runner are scheduled, and time passes.
OutputFairness ==
    /\ WF_outputVars(DispatcherNext)
    /\ WF_outputVars(DeliveryStep("runner") /\ UNCHANGED <<custody, coalescing, dispatcher, crashes, KindOf>>)
    /\ WF_outputVars(Expire)
=============================================================================
