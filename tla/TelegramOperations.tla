-------------------------- MODULE TelegramOperations --------------------------
(***************************************************************************)
(* The durable ledger of Telegram operations: internal/telegramops, its    *)
(* retention (internal/telegramopsretention) and the two typed views of    *)
(* internal/telegramflow/callback_operations.go.  A callback operation and *)
(* a status operation live in separate namespaces and may share an ID.     *)
(*                                                                         *)
(* An operation is represented by its phase, "none" when the ledger has no *)
(* record of it.  The output and the receipt it carries are determined by  *)
(* the phase.  Every write compacts the finalized history before the file  *)
(* is replaced, so a write and its compaction are one step.                *)
(***************************************************************************)
EXTENDS Naturals, FiniteSets

CONSTANTS
    OperationIDs,   \* IDs of callback and status operations
    Age,            \* the order of prune: the sequence of an operation, then its ID
    HistoryLimit    \* maxFinalizedHistoryRecords

ASSUME LedgerAssumption ==
    /\ Age \in [OperationIDs -> Nat]
    /\ \A i, j \in OperationIDs : Age[i] = Age[j] => i = j
    /\ HistoryLimit \in Nat

VARIABLES
    callbacks,      \* Snapshot.Operations
    statuses        \* Snapshot.Statuses

ledger == <<callbacks, statuses>>

CallbackPhases ==
    {"claimed", "effect_unknown", "effect_retry_unknown", "effect_resolved", "prepared",
     "send_unknown", "receipt_confirmed", "committed"}

StatusPhases == {"queued", "send_unknown", "receipt_confirmed", "committed", "superseded"}

LedgerTypeOK ==
    /\ callbacks \in [OperationIDs -> CallbackPhases \cup {"none"}]
    /\ statuses \in [OperationIDs -> StatusPhases \cup {"none"}]

LedgerInit ==
    /\ callbacks = [id \in OperationIDs |-> "none"]
    /\ statuses = [id \in OperationIDs |-> "none"]

-----------------------------------------------------------------------------
(* Retention.                                                              *)

\* "superseded" and "effect_resolved" are not finalized: such a record stays.
finalized(records) == {id \in OperationIDs : records[id] = "committed"}

nonFinalized(records) == {id \in OperationIDs : records[id] \notin {"none", "committed"}}

\* The oldest candidates go; a finalized record whose counterpart in the other
\* namespace is still active is protected, and counts against the limit.
prune(records, protected) ==
    LET candidates == finalized(records) \ protected
        kept == Cardinality(finalized(records) \cap protected)
    IN [id \in OperationIDs |->
           IF id \in candidates
              /\ Cardinality({j \in candidates : Age[j] > Age[id]}) + kept >= HistoryLimit
           THEN "none" ELSE records[id]]

\* writeAtomic of the compacted snapshot.
write(operations, status) ==
    /\ callbacks' = prune(operations, nonFinalized(status))
    /\ statuses' = prune(status, nonFinalized(operations))

-----------------------------------------------------------------------------
(* Typed operations.  A compare-and-swap that finds another phase changes  *)
(* nothing: its caller sees changed = false.                               *)

validCallbackOperationTransition(old, next) ==
    next \in CASE old = "claimed" -> {"effect_unknown"}
               [] old = "effect_unknown" -> {"prepared", "effect_resolved", "effect_retry_unknown"}
               [] old = "effect_retry_unknown" -> {"effect_resolved"}
               [] old = "prepared" -> {"prepared", "send_unknown", "effect_resolved", "receipt_confirmed"}
               [] old = "send_unknown" -> {"prepared", "receipt_confirmed"}
               [] old = "receipt_confirmed" -> {"committed"}
               [] OTHER -> {}

validStatusTransition(old, next) ==
    next \in CASE old = "queued" -> {"queued", "send_unknown", "superseded"}
               [] old = "send_unknown" -> {"queued", "receipt_confirmed"}
               [] old = "receipt_confirmed" -> {"committed"}
               [] OTHER -> {}

createCallback(id, phase) ==
    /\ callbacks[id] = "none" /\ phase \in {"claimed", "prepared"}
    /\ write([callbacks EXCEPT ![id] = phase], statuses)

swapCallback(id, old, next) ==
    /\ validCallbackOperationTransition(old, next)
    /\ callbacks[id] = old
    /\ write([callbacks EXCEPT ![id] = next], statuses)

enqueueStatus(id) ==
    /\ statuses[id] = "none"
    /\ write(callbacks, [statuses EXCEPT ![id] = "queued"])

swapStatus(id, old, next) ==
    /\ validStatusTransition(old, next)
    /\ statuses[id] = old
    /\ write(callbacks, [statuses EXCEPT ![id] = next])
=============================================================================
