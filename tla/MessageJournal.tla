--------------------------- MODULE MessageJournal ---------------------------
(***************************************************************************)
(* internal/messagejournal: the durable journal of one session's input and *)
(* output lanes.  Every operation of the Go package is one read-change-    *)
(* validate-write transaction under an in-process mutex and a file lock    *)
(* (persistence.go, mutate), so each is one atomic action here.  An        *)
(* operation that returns an error or errNoMutation writes nothing and is  *)
(* a stuttering step; the one refusal that matters, a change that its own  *)
(* guards allow and validateSession rejects, is remembered in refused.     *)
(*                                                                         *)
(* The journal file holds independent session records; the module models   *)
(* one of them.  Identities, payloads and receipts are opaque values.  A   *)
(* lease's expiry time is abstracted to whether the caller's clock has     *)
(* passed it (Live); LeaseExpires is the passing of that time.             *)
(***************************************************************************)
EXTENDS Naturals, FiniteSets

CONSTANTS
    MessageIDs,                 \* identities of inputs
    OperationIDs,               \* identities of outputs
    Owners,                     \* lease owners (flow owner names)
    Tokens,                     \* input recovery tokens
    Payloads,                   \* input payloads
    Kinds,                      \* output kinds
    Receipts,                   \* output delivery receipts
    MaxInputsPerSession,        \* Limits.MaxInputsPerSession
    MaxPendingInputsPerSession, \* Limits.MaxPendingInputsPerSession
    MaxOutputsPerSession        \* Limits.MaxOutputsPerSession

\* Opaque identities are non-empty strings (validateOpaqueID), the empty one
\* meaning "none"; validateLimits bounds the limits from below.
ASSUME JournalAssumption ==
    /\ IsFiniteSet(MessageIDs) /\ IsFiniteSet(OperationIDs)
    /\ "" \notin Owners \cup Tokens \cup Payloads \cup Kinds \cup Receipts
    /\ MaxInputsPerSession \in Nat \ {0}
    /\ MaxPendingInputsPerSession \in 1 .. MaxInputsPerSession
    /\ MaxOutputsPerSession \in Nat \ {0}

VARIABLES
    session,   \* the session record on disk (sessionRecord)
    refused,   \* history: clauses of validateSession that refused a change
    handed,    \* history: inputs that have been leased at least once
    settled,   \* history: inputs that have been accepted or given an outcome
    captured,  \* history: inputs present when some boundary was opened
    sent,      \* history: outputs that have been leased at least once
    retried    \* history: outputs an explicit RetryOutput made pending again

history == <<handed, settled, captured, sent, retried>>
vars == <<session, refused, history>>

InputPhases == {"pending", "accepted", "completed", "failed",
                "terminal_failed", "unknown", "skipped"}
OutputPhases == {"pending", "confirmed", "failed", "unknown", "superseded"}

NoLease == [Owner |-> "", Live |-> FALSE]
Lease == {NoLease} \cup [Owner : Owners, Live : BOOLEAN]
NoRecovery == [Phase |-> "none", Token |-> "", ThroughSequence |-> 0]
RecoveryPhases == {"none", "open", "committed", "attached"}
NoInput == [Phase |-> "absent", Sequence |-> 0, Payload |-> "", Lease |-> NoLease]
NoOutput == [Phase |-> "absent", Sequence |-> 0, Kind |-> "", Receipt |-> "",
             Lease |-> NoLease]

inputRecord == {NoInput} \cup
    [Phase : InputPhases, Sequence : Nat \ {0}, Payload : Payloads, Lease : Lease]
outputRecord == {NoOutput} \cup
    [Phase : OutputPhases, Sequence : Nat \ {0}, Kind : Kinds,
     Receipt : Receipts \cup {""}, Lease : Lease]
inputRecoveryRecord == [Phase : RecoveryPhases, Token : Tokens \cup {""},
                        ThroughSequence : Nat]
sessionRecord == [NextSequence : Nat,
                  Inputs : [MessageIDs -> inputRecord],
                  Outputs : [OperationIDs -> outputRecord],
                  Recovery : inputRecoveryRecord]

InputsIn(s, phases) == {m \in MessageIDs : s.Inputs[m].Phase \in phases}
OutputsIn(s, phases) == {p \in OperationIDs : s.Outputs[p].Phase \in phases}
PendingInputs(s) == InputsIn(s, {"pending"})

\* The phases that still await a decision (recovery.go, hasUnresolvedInputs).
Unresolved == {"pending", "accepted", "failed", "unknown"}

\* The phases past hand-off, which LeaseNextInput passes over with skipped.
Settled == {"accepted", "completed", "terminal_failed"}

\* The record with one input, or one output, rewritten.
WithInput(s, m, record) == [s EXCEPT !.Inputs[m] = record]
WithOutput(s, p, record) == [s EXCEPT !.Outputs[p] = record]

\* The input lies at or before the boundary of the current recovery record.
Captured(s, m) == s.Inputs[m].Sequence <= s.Recovery.ThroughSequence

-----------------------------------------------------------------------------
(* validateSession: the clauses a written record must satisfy.             *)

BoundaryValid(s) ==
    s.Recovery.Phase # "none" =>
        s.Recovery.ThroughSequence \in 1 .. s.NextSequence
CommittedValid(s) ==
    s.Recovery.Phase = "committed" =>
        \A m \in InputsIn(s, Unresolved) : ~Captured(s, m)
AttachedValid(s) ==
    s.Recovery.Phase = "attached" =>
        \A m \in InputsIn(s, {"failed", "unknown"}) : ~Captured(s, m)
LeaseValid(s) ==
    /\ \A m \in MessageIDs :
          \/ s.Inputs[m].Lease = NoLease
          \/ s.Inputs[m].Phase = "pending" /\ s.Inputs[m].Lease.Owner # ""
    /\ \A p \in OperationIDs :
          \/ s.Outputs[p].Lease = NoLease
          \/ s.Outputs[p].Phase = "pending" /\ s.Outputs[p].Lease.Owner # ""
CapacityValid(s) ==
    /\ Cardinality(InputsIn(s, InputPhases)) <= MaxInputsPerSession
    /\ Cardinality(PendingInputs(s)) <= MaxPendingInputsPerSession
    /\ Cardinality(OutputsIn(s, OutputPhases)) <= MaxOutputsPerSession
ReceiptValid(s) ==
    \A p \in OperationIDs :
        (s.Outputs[p].Phase = "confirmed") <=> (s.Outputs[p].Receipt # "")
InputSequences(s) == {s.Inputs[m].Sequence : m \in InputsIn(s, InputPhases)}
OutputSequences(s) == {s.Outputs[p].Sequence : p \in OutputsIn(s, OutputPhases)}
SequenceValid(s) ==
    /\ InputSequences(s) \cup OutputSequences(s) = 1 .. s.NextSequence
    /\ InputSequences(s) \cap OutputSequences(s) = {}
    /\ \A m, n \in InputsIn(s, InputPhases) :
          s.Inputs[m].Sequence = s.Inputs[n].Sequence => m = n
    /\ \A p, q \in OutputsIn(s, OutputPhases) :
          s.Outputs[p].Sequence = s.Outputs[q].Sequence => p = q

BrokenClauses(s) ==
    {c \in {"boundary", "committed", "attached", "lease", "capacity",
            "receipt", "sequence"} :
        \/ c = "boundary" /\ ~BoundaryValid(s)
        \/ c = "committed" /\ ~CommittedValid(s)
        \/ c = "attached" /\ ~AttachedValid(s)
        \/ c = "lease" /\ ~LeaseValid(s)
        \/ c = "capacity" /\ ~CapacityValid(s)
        \/ c = "receipt" /\ ~ReceiptValid(s)
        \/ c = "sequence" /\ ~SequenceValid(s)}

validateSession(s) == BrokenClauses(s) = {}

mutate_Unvalidated(next) == session' = next /\ UNCHANGED refused

\* mutate: validate, then replace the file atomically; a rejected change
\* leaves the file as it was and the caller gets an error.
mutate(next) ==
    \/ /\ validateSession(next)
       /\ session' = next
       /\ UNCHANGED refused
    \/ /\ ~validateSession(next)
       /\ refused' = refused \cup BrokenClauses(next)
       /\ UNCHANGED session

-----------------------------------------------------------------------------
(* Inputs (input.go).                                                      *)

EnqueueInput_NoPayload(m, payload) ==
    /\ session.Inputs[m].Phase = "absent"
    /\ Cardinality(InputsIn(session, InputPhases)) # MaxInputsPerSession
    /\ Cardinality(PendingInputs(session)) # MaxPendingInputsPerSession
    /\ mutate([WithInput(session, m,
                  [Phase |-> "pending", Sequence |-> session.NextSequence + 1,
                   Payload |-> "", Lease |-> NoLease])
                EXCEPT !.NextSequence = @ + 1])
    /\ UNCHANGED history

EnqueueInput(m, payload) ==
    /\ session.Inputs[m].Phase = "absent"
    /\ Cardinality(InputsIn(session, InputPhases)) # MaxInputsPerSession
    /\ Cardinality(PendingInputs(session)) # MaxPendingInputsPerSession
    /\ mutate([WithInput(session, m,
                  [Phase |-> "pending", Sequence |-> session.NextSequence + 1,
                   Payload |-> payload, Lease |-> NoLease])
                EXCEPT !.NextSequence = @ + 1])
    /\ UNCHANGED history

LaneHead_PassesFailed(s, m) ==
    /\ s.Inputs[m].Phase = "pending"
    /\ \A n \in PendingInputs(s) : s.Inputs[m].Sequence <= s.Inputs[n].Sequence

\* The first input, in sequence order, that is not already past hand-off: a
\* failed or unknown one blocks the lane, so only a pending one is leasable.
LaneHead(s, m) ==
    /\ s.Inputs[m].Phase = "pending"
    /\ \A n \in InputsIn(s, {"pending", "failed", "unknown"}) :
          s.Inputs[m].Sequence <= s.Inputs[n].Sequence

LeaseNextInput(m, owner) ==
    /\ session.Recovery.Phase # "open"
    /\ LaneHead(session, m)
    /\ ~session.Inputs[m].Lease.Live
    /\ mutate(WithInput(session, m,
          [session.Inputs[m] EXCEPT !.Lease = [Owner |-> owner, Live |-> TRUE]]))
    /\ handed' = handed \cup {m}
    /\ UNCHANGED <<settled, captured, sent, retried>>

\* The conditions under which an owner may still act on its leased input.
LeasedBy(m, owner) ==
    /\ session.Inputs[m].Phase = "pending"
    /\ session.Inputs[m].Lease.Owner = owner

\* transitionInput: one record changes its phase and gives up its lease.
transitionInput(m, phase) ==
    /\ mutate(WithInput(session, m,
          [session.Inputs[m] EXCEPT !.Phase = phase, !.Lease = NoLease]))
    /\ settled' = settled \cup InputsIn(session', Settled)
    /\ UNCHANGED <<handed, captured, sent, retried>>

MarkInputAccepted(m, owner) ==
    /\ ~(session.Recovery.Phase = "open" /\ Captured(session, m))
    /\ LeasedBy(m, owner)
    /\ transitionInput(m, "accepted")

ReplaceLeasedInputPayload(m, owner, payload) ==
    /\ LeasedBy(m, owner)
    /\ session.Inputs[m].Payload # payload
    /\ mutate(WithInput(session, m, [session.Inputs[m] EXCEPT !.Payload = payload]))
    /\ UNCHANGED history

ReleaseInputLease(m, owner) ==
    LeasedBy(m, owner) /\ transitionInput(m, "pending")

MarkInputDeliveryFailed(m, owner) ==
    LeasedBy(m, owner) /\ transitionInput(m, "failed")

MarkInputDeliveryUnknown(m, owner) ==
    LeasedBy(m, owner) /\ transitionInput(m, "unknown")

\* exact: the caller names the record's sequence (ResolveUnknownInput and
\* ResolveAcceptedInput); the accepted-only operations do not.
transitionInputOutcome(m, outcome, from, exact) ==
    LET phase == session.Inputs[m].Phase IN
    /\ phase \notin {"absent", "skipped", outcome}
    /\ ~(phase = "accepted" /\ outcome = "unknown")
    /\ \/ phase = from
       \/ /\ exact
          /\ from = "accepted"
          /\ \/ phase = "unknown"
             \/ phase = "failed" /\ outcome = "terminal_failed"
    /\ transitionInput(m, outcome)

CompleteInput(m) == transitionInputOutcome(m, "completed", "accepted", FALSE)
FailInput(m) == transitionInputOutcome(m, "failed", "accepted", FALSE)

ResolveUnknownInput(m, outcome) ==
    /\ outcome \in {"completed", "failed", "terminal_failed"}
    /\ transitionInputOutcome(m, outcome, "unknown", TRUE)

ResolveAcceptedInput(m, outcome) ==
    /\ outcome \in {"completed", "failed", "unknown", "terminal_failed"}
    /\ transitionInputOutcome(m, outcome, "accepted", TRUE)

RetryInput_Unbounded(m) ==
    session.Inputs[m].Phase \in {"failed", "unknown"} /\ transitionInput(m, "pending")

RetryInput_Terminal(m) ==
    /\ session.Inputs[m].Phase \in {"failed", "unknown", "terminal_failed"}
    /\ Cardinality(PendingInputs(session)) # MaxPendingInputsPerSession
    /\ transitionInput(m, "pending")

RetryInput(m) ==
    /\ session.Inputs[m].Phase \in {"failed", "unknown"}
    /\ Cardinality(PendingInputs(session)) # MaxPendingInputsPerSession
    /\ transitionInput(m, "pending")

-----------------------------------------------------------------------------
(* Input recovery boundaries (recovery.go).                                *)

hasUnresolvedInputs(s) == InputsIn(s, Unresolved) # {}

hasBlockedSuccessor(s) ==
    \E m \in InputsIn(s, {"failed", "unknown"}), n \in PendingInputs(s) :
        s.Inputs[n].Sequence > s.Inputs[m].Sequence

BeginInputRecovery_Widens(token, legacyBlockedOnly) ==
    /\ session.Recovery.Token # token
    /\ hasUnresolvedInputs(session)
    /\ legacyBlockedOnly => hasBlockedSuccessor(session)
    /\ mutate([session EXCEPT
                 !.Recovery = [Phase |-> "open", Token |-> token,
                               ThroughSequence |-> session.NextSequence]])
    /\ captured' = IF session.Recovery.Phase = "open" THEN captured
                   ELSE captured \cup InputsIn(session, InputPhases)
    /\ UNCHANGED <<handed, settled, sent, retried>>

\* A second owner takes over an open boundary without moving it; otherwise a
\* new boundary is opened at the current end of the journal.
BeginInputRecovery(token, legacyBlockedOnly) ==
    /\ session.Recovery.Token # token
    /\ \/ /\ session.Recovery.Phase = "open"
          /\ mutate([session EXCEPT !.Recovery = [@ EXCEPT !.Token = token]])
          /\ UNCHANGED captured
       \/ /\ session.Recovery.Phase # "open"
          /\ hasUnresolvedInputs(session)
          /\ legacyBlockedOnly => hasBlockedSuccessor(session)
          /\ mutate([session EXCEPT
                       !.Recovery = [Phase |-> "open", Token |-> token,
                                     ThroughSequence |-> session.NextSequence]])
          /\ captured' = captured \cup InputsIn(session, InputPhases)
    /\ UNCHANGED <<handed, settled, sent, retried>>

\* Tombstone the captured inputs among gone and seal the boundary.
SealRecovery(token, phase, gone) ==
    /\ session.Recovery.Token = token
    /\ session.Recovery.Phase = "open"
    /\ mutate([session EXCEPT
                 !.Inputs = [m \in MessageIDs |->
                    IF m \in gone /\ Captured(session, m)
                    THEN [session.Inputs[m] EXCEPT !.Phase = "skipped", !.Lease = NoLease]
                    ELSE session.Inputs[m]],
                 !.Recovery = [@ EXCEPT !.Phase = phase]])
    /\ UNCHANGED history

CommitInputRecoverySkip(token) ==
    SealRecovery(token, "committed", InputsIn(session, Unresolved))

\* Attach keeps durable acceptances and definitely unsent (unleased) inputs.
CommitInputRecoveryAttach(token) ==
    SealRecovery(token, "attached",
        {m \in PendingInputs(session) : session.Inputs[m].Lease.Owner # ""}
            \cup InputsIn(session, {"failed", "unknown"}))

-----------------------------------------------------------------------------
(* Outputs (output.go).                                                    *)

EnqueueOutput_SameSequence(p, kind) ==
    /\ session.Outputs[p].Phase = "absent"
    /\ Cardinality(OutputsIn(session, OutputPhases)) # MaxOutputsPerSession
    /\ mutate([WithOutput(session, p,
                  [Phase |-> "pending", Sequence |-> session.NextSequence,
                   Kind |-> kind, Receipt |-> "", Lease |-> NoLease])
                EXCEPT !.NextSequence = @ + 1])
    /\ UNCHANGED history

EnqueueOutput(p, kind) ==
    /\ session.Outputs[p].Phase = "absent"
    /\ Cardinality(OutputsIn(session, OutputPhases)) # MaxOutputsPerSession
    /\ mutate([WithOutput(session, p,
                  [Phase |-> "pending", Sequence |-> session.NextSequence + 1,
                   Kind |-> kind, Receipt |-> "", Lease |-> NoLease])
                EXCEPT !.NextSequence = @ + 1])
    /\ UNCHANGED history

\* Failed, unknown and superseded outputs are passed over, not waited for.
LeaseNextOutput(p, owner) ==
    /\ p \in OutputsIn(session, {"pending"})
    /\ \A q \in OutputsIn(session, {"pending"}) :
          session.Outputs[p].Sequence <= session.Outputs[q].Sequence
    /\ ~session.Outputs[p].Lease.Live
    /\ mutate(WithOutput(session, p,
          [session.Outputs[p] EXCEPT !.Lease = [Owner |-> owner, Live |-> TRUE]]))
    /\ sent' = sent \cup {p}
    /\ UNCHANGED <<handed, settled, captured, retried>>

SupersedePendingOutputs_Expired(keep, wanted) ==
    LET older == {p \in OutputsIn(session, {"pending"}) :
                     /\ session.Outputs[p].Sequence < session.Outputs[keep].Sequence
                     /\ ~session.Outputs[p].Lease.Live
                     /\ session.Outputs[p].Kind \in wanted}
    IN  /\ session.Outputs[keep].Phase # "absent"
        /\ older # {}
        /\ mutate([session EXCEPT
                     !.Outputs = [p \in OperationIDs |->
                        IF p \in older
                        THEN [session.Outputs[p] EXCEPT !.Phase = "superseded",
                                                        !.Lease = NoLease]
                        ELSE session.Outputs[p]]])
        /\ UNCHANGED history

SupersedePendingOutputs(keep, wanted) ==
    LET older == {p \in OutputsIn(session, {"pending"}) :
                     /\ session.Outputs[p].Sequence < session.Outputs[keep].Sequence
                     /\ session.Outputs[p].Lease.Owner = ""
                     /\ session.Outputs[p].Kind \in wanted}
    IN  /\ session.Outputs[keep].Phase # "absent"
        /\ older # {}
        /\ mutate([session EXCEPT
                     !.Outputs = [p \in OperationIDs |->
                        IF p \in older
                        THEN [session.Outputs[p] EXCEPT !.Phase = "superseded"]
                        ELSE session.Outputs[p]]])
        /\ UNCHANGED history

\* transitionOutput: one record changes its phase and gives up its lease.
transitionOutput(p, phase, receipt) ==
    mutate(WithOutput(session, p,
        [session.Outputs[p] EXCEPT !.Phase = phase, !.Receipt = receipt, !.Lease = NoLease]))

OutputLeasedBy(p, owner) ==
    /\ session.Outputs[p].Phase = "pending"
    /\ session.Outputs[p].Lease.Owner = owner

ConfirmOutput(p, owner, receipt) ==
    /\ OutputLeasedBy(p, owner)
    /\ transitionOutput(p, "confirmed", receipt)
    /\ UNCHANGED history

finishOutput(p, owner, phase) ==
    /\ OutputLeasedBy(p, owner)
    /\ transitionOutput(p, phase, "")
    /\ UNCHANGED history

MarkOutputFailed(p, owner) == finishOutput(p, owner, "failed")
MarkOutputUnknown(p, owner) == finishOutput(p, owner, "unknown")

RetryOutput(p) ==
    /\ session.Outputs[p].Phase \in {"failed", "unknown"}
    /\ transitionOutput(p, "pending", "")
    /\ retried' = retried \cup {p}
    /\ UNCHANGED <<handed, settled, captured, sent>>

-----------------------------------------------------------------------------
\* The clock of the callers passes the expiry of a lease.
LeaseExpires ==
    /\ \/ \E m \in MessageIDs :
             /\ session.Inputs[m].Lease.Live
             /\ session' = WithInput(session, m,
                   [session.Inputs[m] EXCEPT !.Lease = [@ EXCEPT !.Live = FALSE]])
       \/ \E p \in OperationIDs :
             /\ session.Outputs[p].Lease.Live
             /\ session' = WithOutput(session, p,
                   [session.Outputs[p] EXCEPT !.Lease = [@ EXCEPT !.Live = FALSE]])
    /\ UNCHANGED <<refused, history>>

Init ==
    /\ session = [NextSequence |-> 0,
                  Inputs |-> [m \in MessageIDs |-> NoInput],
                  Outputs |-> [p \in OperationIDs |-> NoOutput],
                  Recovery |-> NoRecovery]
    /\ refused = {} /\ handed = {} /\ settled = {} /\ captured = {} /\ sent = {} /\ retried = {}

InputNext(m) ==
    \/ \E payload \in Payloads : EnqueueInput(m, payload)
    \/ \E owner \in Owners :
          \/ LeaseNextInput(m, owner)
          \/ MarkInputAccepted(m, owner)
          \/ \E payload \in Payloads : ReplaceLeasedInputPayload(m, owner, payload)
          \/ ReleaseInputLease(m, owner)
          \/ MarkInputDeliveryFailed(m, owner)
          \/ MarkInputDeliveryUnknown(m, owner)
    \/ CompleteInput(m)
    \/ FailInput(m)
    \/ \E outcome \in InputPhases :
          ResolveUnknownInput(m, outcome) \/ ResolveAcceptedInput(m, outcome)
    \/ RetryInput(m)

RecoveryNext(token) ==
    \/ \E legacy \in BOOLEAN : BeginInputRecovery(token, legacy)
    \/ CommitInputRecoverySkip(token)
    \/ CommitInputRecoveryAttach(token)

OutputNext(p) ==
    \/ \E kind \in Kinds : EnqueueOutput(p, kind)
    \/ \E owner \in Owners :
          \/ LeaseNextOutput(p, owner)
          \/ \E receipt \in Receipts : ConfirmOutput(p, owner, receipt)
          \/ MarkOutputFailed(p, owner)
          \/ MarkOutputUnknown(p, owner)
    \/ \E wanted \in SUBSET Kinds : SupersedePendingOutputs(p, wanted)
    \/ RetryOutput(p)

Next ==
    \/ \E m \in MessageIDs : InputNext(m)
    \/ \E token \in Tokens : RecoveryNext(token)
    \/ \E p \in OperationIDs : OutputNext(p)
    \/ LeaseExpires

Spec == Init /\ [][Next]_vars

-----------------------------------------------------------------------------
(* Properties.                                                             *)

\* Every record the journal writes has the shape of sessionRecord.
TypeOK ==
    /\ session \in sessionRecord
    /\ refused \subseteq {"boundary", "committed", "attached", "lease", "capacity",
                          "receipt", "sequence"}
    /\ handed \subseteq MessageIDs /\ settled \subseteq MessageIDs
    /\ captured \subseteq MessageIDs
    /\ sent \subseteq OperationIDs /\ retried \subseteq OperationIDs

\* The guards of the operations already imply validateSession: whatever the
\* order of calls, owners and tokens, no operation computes a record that
\* validation rejects, but for one clause: an input kept pending or accepted
\* by CommitInputRecoveryAttach can no longer be recorded failed or unknown.
GuardsImplyValidation == refused \subseteq {"attached"}

\* No overtaking (LeaseNextInput): when an input has ever been leased, each
\* earlier one had been accepted, had been given its outcome, or has been
\* tombstoned; retries, releases, expiries and boundaries included.
NoOvertaking ==
    \A m \in handed, n \in InputsIn(session, InputPhases) :
        session.Inputs[n].Sequence < session.Inputs[m].Sequence =>
            n \in settled \/ session.Inputs[n].Phase = "skipped"

\* Only inputs that were in the journal when a boundary was opened are ever
\* tombstoned: neither an input enqueued while the boundary is open nor a
\* takeover by a later recovery owner widens the cutoff (BeginInputRecovery).
SkippedWasCaptured == InputsIn(session, {"skipped"}) \subseteq captured

\* A sealed boundary leaves nothing ambiguous behind it for as long as it is
\* the current one (CommitInputRecoverySkip, CommitInputRecoveryAttach).
SealedBoundaryClean == CommittedValid(session) /\ AttachedValid(session)

\* An output is superseded only in favour of a later one that is still in the
\* journal, and never while the outcome of an earlier send is open: if it was
\* ever leased, an explicit RetryOutput came between (SupersedePendingOutputs).
SupersededSafely ==
    \A p \in OutputsIn(session, {"superseded"}) :
        /\ \E q \in OutputsIn(session, OutputPhases) :
              session.Outputs[q].Sequence > session.Outputs[p].Sequence
        /\ p \in sent => p \in retried

\* Outcomes are final: a completed, terminally failed or skipped input keeps
\* its record, an accepted one is never put back in the queue in one step, and
\* a confirmed or superseded output keeps its record and receipt.
OutcomesKept ==
    /\ \A m \in MessageIDs :
          /\ session.Inputs[m].Phase \in {"completed", "terminal_failed", "skipped"} =>
                 session'.Inputs[m] = session.Inputs[m]
          /\ session.Inputs[m].Phase = "accepted" =>
                 session'.Inputs[m].Phase # "pending"
    /\ \A p \in OperationIDs :
          session.Outputs[p].Phase \in {"confirmed", "superseded"} =>
             session'.Outputs[p] = session.Outputs[p]

\* Every step of every operation keeps the outcomes recorded so far.
OutcomesAreFinal == [][OutcomesKept]_vars
=============================================================================
