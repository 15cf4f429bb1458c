--------------------------- MODULE TelegramDelivery ---------------------------
(***************************************************************************)
(* telegramflow.Sender: delivery of one status operation from the ledger   *)
(* to Telegram (deliverStatusOperation), by whichever goroutine comes to   *)
(* it: the one that enqueued the status, and the background runner of      *)
(* telegramruntimecomposition.  Two deliveries of one operation exclude    *)
(* each other by the delivery lock.                                        *)
(*                                                                         *)
(* Telegram is external: a request is applied or not, and its answer may   *)
(* be lost either way (at most MaxFailures calls fail).  The step between  *)
(* the send and the durable receipt is what the send_unknown fence is for. *)
(***************************************************************************)
EXTENDS TelegramOperations

CONSTANTS
    Senders,        \* goroutines that deliver statuses
    Cards,          \* operations that replace a session's card
    NoOperation,    \* no operation
    MaxFailures     \* bound: calls that fail or whose answer is lost

ASSUME DeliveryAssumption ==
    /\ Cards \subseteq OperationIDs
    /\ NoOperation \notin OperationIDs
    /\ MaxFailures \in Nat

VARIABLES
    delivery,       \* what each sender is doing, and for which operation
    sends,          \* history: how often Telegram applied each operation
    allowed,        \* history: explicit "possible duplicate" retries of each operation
    failures        \* failed calls so far

sending == <<delivery, sends, allowed, failures>>

NotDelivering == [at |-> "idle", id |-> NoOperation]

Delivering(s, at, id) == delivery' = [delivery EXCEPT ![s] = [at |-> at, id |-> id]]

DeliveryTypeOK ==
    /\ LedgerTypeOK
    /\ delivery \in [Senders -> [at : {"send", "receipt", "commit"}, id : OperationIDs]
                                \cup {NotDelivering}]
    /\ sends \in [OperationIDs -> Nat]
    /\ allowed \in [OperationIDs -> Nat]
    /\ failures \in 0 .. MaxFailures

DeliveryInit ==
    /\ LedgerInit
    /\ delivery = [s \in Senders |-> NotDelivering]
    /\ sends = [id \in OperationIDs |-> 0]
    /\ allowed = [id \in OperationIDs |-> 0]
    /\ failures = 0

-----------------------------------------------------------------------------
\* lockPreparedDelivery: the operation is not being delivered by anyone.
Free(id) == \A s \in Senders : delivery[s].id # id

\* The delivery lock is taken, the operation is read again, and the status is
\* fenced; or it was settled or fenced by another delivery in the meantime; or
\* the retirement of the previous card failed, or found the card replaced.
deliverStatusOperation_Unfenced(s, id) ==
    /\ delivery[s] = NotDelivering /\ Free(id)
    /\ \/ /\ statuses[id] \in {"queued", "send_unknown"} /\ Delivering(s, "send", id)
          /\ write(callbacks, [statuses EXCEPT ![id] = "send_unknown"])
       \/ statuses[id] = "receipt_confirmed" /\ Delivering(s, "commit", id) /\ UNCHANGED ledger
       \/ statuses[id] # "receipt_confirmed" /\ UNCHANGED <<delivery, ledger>>
       \/ id \in Cards /\ swapStatus(id, "queued", "superseded") /\ UNCHANGED delivery
    /\ UNCHANGED <<sends, allowed, failures>>

deliverStatusOperation(s, id) ==
    /\ delivery[s] = NotDelivering /\ Free(id)
    /\ \/ swapStatus(id, "queued", "send_unknown") /\ Delivering(s, "send", id)
       \/ statuses[id] = "receipt_confirmed" /\ Delivering(s, "commit", id) /\ UNCHANGED ledger
       \/ statuses[id] # "receipt_confirmed" /\ UNCHANGED <<delivery, ledger>>
       \/ id \in Cards /\ swapStatus(id, "queued", "superseded") /\ UNCHANGED delivery
    /\ UNCHANGED <<sends, allowed, failures>>

\* A request to Telegram: applied and answered, or without an answer.
Applied(id) == sends' = [sends EXCEPT ![id] = @ + 1] /\ UNCHANGED <<allowed, failures>>
Unanswered(id) ==
    /\ failures < MaxFailures
    /\ failures' = failures + 1
    /\ \E n \in {0, 1} : sends' = [sends EXCEPT ![id] = @ + n]
    /\ UNCHANGED allowed

\* The transport call of deliverStatusOperation; for a prepared output the
\* binding of its keyboard (finalizePrepared), whose failure also leaves the
\* status unknown.
SendStatus(s) ==
    LET id == delivery[s].id IN
    /\ delivery[s].at = "send"
    /\ \/ Applied(id) /\ Delivering(s, "receipt", id)
       \/ Unanswered(id) /\ delivery' = [delivery EXCEPT ![s] = NotDelivering]
    /\ UNCHANGED ledger

SaveReceipt(s) ==
    LET id == delivery[s].id IN
    /\ delivery[s].at = "receipt"
    /\ swapStatus(id, "send_unknown", "receipt_confirmed")
    /\ Delivering(s, "commit", id)
    /\ UNCHANGED <<sends, allowed, failures>>

\* The last write, or commitConfirmedStatus of a status found confirmed.
CommitStatus(s) ==
    LET id == delivery[s].id IN
    /\ delivery[s].at = "commit"
    /\ swapStatus(id, "receipt_confirmed", "committed")
    /\ delivery' = [delivery EXCEPT ![s] = NotDelivering]
    /\ UNCHANGED <<sends, allowed, failures>>

DeliveryStep(s) == SendStatus(s) \/ SaveReceipt(s) \/ CommitStatus(s)

\* DeliverPendingStatuses takes what is queued or only lacks its commit.  A
\* status and a callback operation never share an ID in the current code, so
\* there is no coupled status to converge.
DeliverPendingStatuses(s) ==
    \E id \in OperationIDs :
        /\ statuses[id] \in {"queued", "receipt_confirmed"}
        /\ deliverStatusOperation(s, id)

ResolveStatusReceipt_Fenced(id) == statuses[id] \notin {"none", "queued"}

\* The receipt of a status that is settled.
ResolveStatusReceipt(id) == statuses[id] \in {"receipt_confirmed", "committed", "superseded"}
=============================================================================
