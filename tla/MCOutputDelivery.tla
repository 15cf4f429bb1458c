--------------------------- MODULE MCOutputDelivery ---------------------------
(* Model checking of OutputDelivery on one or two outputs. *)
EXTENDS OutputDelivery

\* Statuses of the coordinator loop carry update IDs, far above the journal
\* sequences of the outputs.
MCOperationIDs == Outputs \cup {"answer"}
MCAge == [id \in MCOperationIDs |->
             CASE id = "answer" -> 9 [] id = "o1" -> 1 [] OTHER -> 2]
StateKinds == [p \in Outputs |-> IF p = "o1" THEN "commentary" ELSE "final"]
QuestionKinds == [p \in Outputs |-> IF p = "o1" THEN "question" ELSE "error"]
MCKinds == {StateKinds, QuestionKinds}
FinalKinds == {[p \in Outputs |-> "final"]}

\* A crash or a failure, and an answer of the loop only beside state outputs.
Within ==
    /\ crashes + failures <= 1
    /\ KindOf # StateKinds => \A id \in Foreign : statuses[id] = "none"

BoundedNext == OutputNext /\ Within'
BoundedSpec == OutputInit /\ [][BoundedNext]_outputVars /\ OutputFairness

\* The journal, the ledger and the dispatcher hold the values the code gives them.
OutputTypeOK ==
    /\ DeliveryTypeOK
    /\ journal \in [NextSequence : 0 .. Cardinality(Outputs), Inputs : [{} -> {}],
                    Outputs : [Outputs -> J!outputRecord], Recovery : {J!NoRecovery}]
    /\ refused = {} /\ retried = {} /\ leased \subseteq Outputs /\ coalescing \subseteq Outputs
    /\ dispatcher.at \in {"idle", "project", "deliver", "delivering", "resolve", "confirmed",
                          "suppressed", "seal"}
    /\ dispatcher.op \in Outputs \cup {NoOperation}

\* An output reaches the chat at most once: neither a crash between the send and
\* the journal's confirmation, nor an expired lease, nor the status runner sends
\* it again.
OutputSentOnce == \A p \in Outputs : sends[p] <= 1

\* The journal confirms an output only if the chat shows it, the owner does not
\* watch its card, or a newer card took its place.
ConfirmedIsShown ==
    \A p \in Outputs :
        journal.Outputs[p].Receipt = "confirmed" => sends[p] > 0 \/ statuses[p] = "superseded"

\* An output that a newer one superseded never reaches the chat, in whatever
\* order custody, dispatch, crash and expiry come.
SupersededIsSilent ==
    \A p \in Outputs : Phase(p) = "superseded" => sends[p] = 0 /\ statuses[p] = "none"

\* Every accepted output is settled: it is confirmed, superseded or sealed.
OutputsSettle == \A p \in Outputs : (Phase(p) = "pending") ~> (Phase(p) # "pending")
=============================================================================
