------------------------ MODULE JournalRecordProofs -------------------------
(***************************************************************************)
(* Lemmas about the journal's record: the shape of the changes a step      *)
(* makes to it, and which of them pass validateSession.                    *)
(***************************************************************************)
EXTENDS MessageJournal, FiniteSetTheorems, TLAPS

StoredInput == [Phase : InputPhases, Sequence : Nat \ {0}, Payload : Payloads, Lease : Lease]
StoredOutput == [Phase : OutputPhases, Sequence : Nat \ {0}, Kind : Kinds,
                 Receipt : Receipts \cup {""}, Lease : Lease]

\* The limits are positive naturals and the opaque identities are not empty.
LEMMA Limits ==
    /\ MaxInputsPerSession \in Nat /\ MaxPendingInputsPerSession \in Nat
    /\ MaxOutputsPerSession \in Nat
    /\ \A owner \in Owners : owner # ""
    /\ \A receipt \in Receipts : receipt # ""
<1>1. MaxInputsPerSession \in Nat /\ MaxOutputsPerSession \in Nat
  BY JournalAssumption
<1>2. MaxPendingInputsPerSession \in 1 .. MaxInputsPerSession
  BY JournalAssumption
<1>3. MaxPendingInputsPerSession \in Nat
  BY <1>1, <1>2
<1>4. "" \notin Owners /\ "" \notin Receipts
  BY JournalAssumption
<1> QED BY <1>1, <1>3, <1>4

\* A set within a limit stays within it when it shrinks, and when one element
\* is added below the limit.
LEMMA CapacityKept ==
    ASSUME NEW S, NEW T \in SUBSET S, NEW max \in Nat, IsFiniteSet(S), Cardinality(S) <= max
    PROVE  Cardinality(T) <= max
<1>1. Cardinality(T) \in Nat /\ Cardinality(S) \in Nat /\ Cardinality(T) <= Cardinality(S)
  BY FS_Subset, FS_CardinalityType
<1> QED BY <1>1

\* A set at most as full as its limit, and not full, has room for one more.
LEMMA CapacityAdd ==
    ASSUME NEW S, NEW x, NEW max \in Nat, IsFiniteSet(S), Cardinality(S) <= max,
           Cardinality(S) # max
    PROVE  Cardinality(S \cup {x}) <= max
<1>1. Cardinality(S) \in Nat /\ Cardinality(S \cup {x}) \in {Cardinality(S), Cardinality(S) + 1}
  BY FS_AddElement, FS_CardinalityType
<1> QED BY <1>1

\* The next number extends a gapless interval of sequences.
LEMMA IntervalGrows ==
    ASSUME NEW n \in Nat
    PROVE  /\ 1 .. n \subseteq 1 .. (n + 1)
           /\ 1 .. (n + 1) = (1 .. n) \cup {n + 1}
           /\ n + 1 \notin 1 .. n
OBVIOUS

\* The fields of a session record have their types.
LEMMA SessionFields ==
    ASSUME NEW s \in sessionRecord
    PROVE  /\ s.NextSequence \in Nat
           /\ s.Inputs \in [MessageIDs -> inputRecord]
           /\ s.Outputs \in [OperationIDs -> outputRecord]
           /\ s.Recovery \in inputRecoveryRecord
BY DEF sessionRecord

\* Rewriting one input keeps the shape of the record and its other fields.
LEMMA WithInputFields ==
    ASSUME NEW s \in sessionRecord, NEW m \in MessageIDs, NEW r \in StoredInput
    PROVE  /\ WithInput(s, m, r) \in sessionRecord
           /\ WithInput(s, m, r).Inputs = [s.Inputs EXCEPT ![m] = r]
           /\ WithInput(s, m, r).NextSequence = s.NextSequence
           /\ WithInput(s, m, r).Outputs = s.Outputs
           /\ WithInput(s, m, r).Recovery = s.Recovery
BY DEF sessionRecord, inputRecord, StoredInput, WithInput

\* Rewriting one output keeps the shape of the record and its other fields.
LEMMA WithOutputFields ==
    ASSUME NEW s \in sessionRecord, NEW p \in OperationIDs, NEW r \in StoredOutput
    PROVE  /\ WithOutput(s, p, r) \in sessionRecord
           /\ WithOutput(s, p, r).Outputs = [s.Outputs EXCEPT ![p] = r]
           /\ WithOutput(s, p, r).NextSequence = s.NextSequence
           /\ WithOutput(s, p, r).Inputs = s.Inputs
           /\ WithOutput(s, p, r).Recovery = s.Recovery
BY DEF sessionRecord, outputRecord, StoredOutput, WithOutput

\* An input record that is not absent is a stored one.
LEMMA StoredInputs ==
    ASSUME NEW r \in inputRecord, r.Phase # "absent"
    PROVE  r \in StoredInput
<1>1. NoInput.Phase = "absent"
  BY DEF NoInput
<1>2. r # NoInput
  BY <1>1
<1> QED BY <1>2 DEF inputRecord, StoredInput

\* An output record that is not absent is a stored one.
LEMMA StoredOutputs ==
    ASSUME NEW r \in outputRecord, r.Phase # "absent"
    PROVE  r \in StoredOutput
<1>1. NoOutput.Phase = "absent"
  BY DEF NoOutput
<1>2. r # NoOutput
  BY <1>1
<1> QED BY <1>2 DEF outputRecord, StoredOutput

-----------------------------------------------------------------------------
(* The shape of a step.                                                    *)

\* Everything validateSession requires, and everything but its attached clause.
GuardedValid(s) ==
    /\ BoundaryValid(s) /\ CommittedValid(s) /\ LeaseValid(s)
    /\ CapacityValid(s) /\ ReceiptValid(s) /\ SequenceValid(s)
Valid(s) == GuardedValid(s) /\ AttachedValid(s)

\* validateSession is the conjunction of its clauses, and a record that passes
\* the guarded ones can break the attached clause only.
LEMMA ValidationClauses ==
    ASSUME NEW s
    PROVE  /\ validateSession(s) <=> Valid(s)
           /\ GuardedValid(s) => BrokenClauses(s) \subseteq {"attached"}
BY DEF validateSession, BrokenClauses, Valid, GuardedValid

\* mutate writes a valid record or leaves the file alone.
LEMMA MutateCases ==
    ASSUME NEW next, mutate(next)
    PROVE  \/ session' = next /\ Valid(next) /\ refused' = refused
           \/ session' = session /\ refused' = refused \cup BrokenClauses(next)
BY ValidationClauses DEF mutate

\* One stored, still undecided input is rewritten to r under the guards every
\* operation on an existing input has.
InputChange(m, r) ==
    /\ r \in StoredInput
    /\ session.Inputs[m].Phase \in Unresolved
    /\ r.Sequence = session.Inputs[m].Sequence
    /\ r.Lease = NoLease \/ (r.Phase = "pending" /\ r.Lease.Owner # "")
    /\ r.Phase = "pending" =>
          \/ session.Inputs[m].Phase = "pending"
          \/ Cardinality(PendingInputs(session)) # MaxPendingInputsPerSession
    /\ r.Phase # "skipped"
    /\ mutate(WithInput(session, m, r))

\* The record transitionInput computes is a change of one undecided input.
LEMMA TransitionShape ==
    ASSUME TypeOK, NEW m \in MessageIDs, NEW phase \in InputPhases \ {"skipped"},
           session.Inputs[m].Phase \in Unresolved,
           phase = "pending" =>
              \/ session.Inputs[m].Phase = "pending"
              \/ Cardinality(PendingInputs(session)) # MaxPendingInputsPerSession,
           transitionInput(m, phase)
    PROVE  InputChange(m, [session.Inputs[m] EXCEPT !.Phase = phase, !.Lease = NoLease])
<1> DEFINE old == session.Inputs[m]
           r == [old EXCEPT !.Phase = phase, !.Lease = NoLease]
<1>1. old \in StoredInput
  <2>1. old \in inputRecord
    BY SessionFields DEF TypeOK
  <2>2. old.Phase # "absent"
    BY DEF Unresolved
  <2> QED BY <2>1, <2>2, StoredInputs
<1>2. r \in StoredInput
  <2>1. NoLease \in Lease
    BY DEF Lease
  <2> QED BY <1>1, <2>1 DEF StoredInput
<1>3. r.Phase = phase /\ r.Lease = NoLease /\ r.Sequence = old.Sequence
  BY <1>1 DEF StoredInput
<1>4. mutate(WithInput(session, m, r))
  BY DEF transitionInput
<1>5. InputChange(m, r)
  <2> HIDE DEF r
  <2> QED BY <1>2, <1>3, <1>4 DEF InputChange
<1> QED BY <1>5

\* An operation that moves an existing, undecided input to another phase.
InputTransition(m, phase) ==
    /\ phase # "skipped"
    /\ session.Inputs[m].Phase \in Unresolved
    /\ phase = "pending" => session.Inputs[m].Phase # "accepted"
    /\ phase = "pending" =>
          \/ session.Inputs[m].Phase = "pending"
          \/ Cardinality(PendingInputs(session)) # MaxPendingInputsPerSession
    /\ transitionInput(m, phase)

\* The outcome operations are phase transitions of an undecided input.
LEMMA OutcomeSteps ==
    ASSUME NEW m \in MessageIDs, NEW outcome \in {"completed", "failed", "unknown", "terminal_failed"},
           NEW from \in {"accepted", "unknown"}, NEW exact \in BOOLEAN,
           transitionInputOutcome(m, outcome, from, exact)
    PROVE  InputTransition(m, outcome)
BY DEF transitionInputOutcome, InputTransition, Unresolved

\* Every operation on inputs is an enqueue, a lease, a payload replacement or
\* one of the phase transitions.
LEMMA InputSteps ==
    ASSUME NEW m \in MessageIDs, InputNext(m)
    PROVE  \/ \E payload \in Payloads : EnqueueInput(m, payload)
           \/ \E owner \in Owners : LeaseNextInput(m, owner)
           \/ \E owner \in Owners, payload \in Payloads :
                 ReplaceLeasedInputPayload(m, owner, payload)
           \/ \E phase \in InputPhases : InputTransition(m, phase)
<1>1. ASSUME NEW owner \in Owners, MarkInputAccepted(m, owner)
      PROVE  InputTransition(m, "accepted")
  BY <1>1 DEF MarkInputAccepted, LeasedBy, InputTransition, Unresolved
<1>2. ASSUME NEW owner \in Owners, ReleaseInputLease(m, owner)
      PROVE  InputTransition(m, "pending")
  BY <1>2 DEF ReleaseInputLease, LeasedBy, InputTransition, Unresolved
<1>3. ASSUME NEW owner \in Owners, MarkInputDeliveryFailed(m, owner)
      PROVE  InputTransition(m, "failed")
  BY <1>3 DEF MarkInputDeliveryFailed, LeasedBy, InputTransition, Unresolved
<1>4. ASSUME NEW owner \in Owners, MarkInputDeliveryUnknown(m, owner)
      PROVE  InputTransition(m, "unknown")
  BY <1>4 DEF MarkInputDeliveryUnknown, LeasedBy, InputTransition, Unresolved
<1>5. ASSUME CompleteInput(m) PROVE InputTransition(m, "completed")
  BY <1>5, OutcomeSteps DEF CompleteInput
<1>6. ASSUME FailInput(m) PROVE InputTransition(m, "failed")
  BY <1>6, OutcomeSteps DEF FailInput
<1>7. ASSUME NEW outcome \in InputPhases,
             ResolveUnknownInput(m, outcome) \/ ResolveAcceptedInput(m, outcome)
      PROVE  InputTransition(m, outcome)
  BY <1>7, OutcomeSteps DEF ResolveUnknownInput, ResolveAcceptedInput
<1>8. ASSUME RetryInput(m) PROVE InputTransition(m, "pending")
  BY <1>8 DEF RetryInput, InputTransition, Unresolved
<1>9. {"accepted", "pending", "failed", "unknown", "completed"} \subseteq InputPhases
  BY DEF InputPhases
<1> QED BY <1>1, <1>2, <1>3, <1>4, <1>5, <1>6, <1>7, <1>8, <1>9 DEF InputNext

-----------------------------------------------------------------------------
(* The guards imply validation.                                            *)

\* Rewriting one undecided input in place keeps every clause but the attached
\* one.
LEMMA InputRewriteValid ==
    ASSUME NEW s \in sessionRecord, GuardedValid(s), NEW m \in MessageIDs,
           NEW r \in StoredInput,
           s.Inputs[m].Phase \in Unresolved,
           r.Sequence = s.Inputs[m].Sequence,
           r.Lease = NoLease \/ (r.Phase = "pending" /\ r.Lease.Owner # ""),
           r.Phase = "pending" =>
              \/ s.Inputs[m].Phase = "pending"
              \/ Cardinality(PendingInputs(s)) # MaxPendingInputsPerSession
    PROVE  GuardedValid(WithInput(s, m, r))
<1> DEFINE t == WithInput(s, m, r)
<1>1. /\ t \in sessionRecord /\ t.Inputs = [s.Inputs EXCEPT ![m] = r]
      /\ t.NextSequence = s.NextSequence /\ t.Outputs = s.Outputs /\ t.Recovery = s.Recovery
  BY WithInputFields
<1>2. s.Inputs \in [MessageIDs -> inputRecord] /\ r.Phase \in InputPhases
  BY SessionFields DEF StoredInput
<1>3. /\ t.Inputs[m] = r
      /\ \A n \in MessageIDs \ {m} : t.Inputs[n] = s.Inputs[n]
      /\ \A n \in MessageIDs : t.Inputs[n].Sequence = s.Inputs[n].Sequence
  BY <1>1, <1>2
<1>4. InputsIn(t, InputPhases) = InputsIn(s, InputPhases)
  BY <1>2, <1>3 DEF InputsIn, Unresolved, InputPhases
<1>5. \A phases : OutputsIn(t, phases) = OutputsIn(s, phases)
  BY <1>1 DEF OutputsIn
<1> HIDE DEF t
<1>6. BoundaryValid(t)
  BY <1>1 DEF GuardedValid, BoundaryValid
<1>7. CommittedValid(t)
  <2> SUFFICES ASSUME t.Recovery.Phase = "committed", NEW n \in InputsIn(t, Unresolved)
               PROVE  ~Captured(t, n)
    BY DEF CommittedValid
  <2>1. n \in InputsIn(s, Unresolved)
    BY <1>3 DEF InputsIn
  <2> QED BY <2>1, <1>1, <1>3 DEF GuardedValid, CommittedValid, Captured, InputsIn
<1>8. LeaseValid(t)
  BY <1>1, <1>3 DEF GuardedValid, LeaseValid
<1>9. CapacityValid(t)
  <2>1. IsFiniteSet(PendingInputs(s))
    BY JournalAssumption, FS_Subset DEF PendingInputs, InputsIn
  <2>2. Cardinality(PendingInputs(s)) <= MaxPendingInputsPerSession
    BY DEF GuardedValid, CapacityValid
  <2>3. CASE r.Phase # "pending" \/ s.Inputs[m].Phase = "pending"
    <3>1. PendingInputs(t) \subseteq PendingInputs(s)
      BY <2>3, <1>3 DEF PendingInputs, InputsIn
    <3> QED BY <2>1, <2>2, <3>1, <1>4, <1>5, CapacityKept, Limits DEF GuardedValid, CapacityValid
  <2>4. CASE r.Phase = "pending" /\ s.Inputs[m].Phase # "pending"
    <3>1. PendingInputs(t) = PendingInputs(s) \cup {m}
      BY <2>4, <1>3 DEF PendingInputs, InputsIn
    <3>2. Cardinality(PendingInputs(s)) # MaxPendingInputsPerSession
      BY <2>4
    <3>3. Cardinality(PendingInputs(t)) <= MaxPendingInputsPerSession
      BY <2>1, <2>2, <3>1, <3>2, CapacityAdd, Limits
    <3> QED BY <3>3, <1>4, <1>5 DEF GuardedValid, CapacityValid
  <2> QED BY <2>3, <2>4
<1>10. ReceiptValid(t)
  BY <1>1 DEF GuardedValid, ReceiptValid
<1>11. SequenceValid(t)
  <2>1. InputsIn(s, InputPhases) \subseteq MessageIDs
    BY DEF InputsIn
  <2>2. InputSequences(t) = InputSequences(s)
    BY <2>1, <1>3, <1>4 DEF InputSequences
  <2>3. OutputSequences(t) = OutputSequences(s)
    BY <1>1 DEF OutputSequences, OutputsIn
  <2>4. SequenceValid(s)
    BY DEF GuardedValid
  <2> QED BY <2>1, <2>2, <2>3, <2>4, <1>1, <1>3, <1>4, <1>5 DEF SequenceValid
<1> QED BY <1>6, <1>7, <1>8, <1>9, <1>10, <1>11 DEF GuardedValid, t

\* The same for outputs, any number of which may be rewritten at once
\* (SupersedePendingOutputs): sequences stay, and each rewritten record keeps
\* the clauses on leases and receipts.
LEMMA OutputRewriteValid ==
    ASSUME NEW s \in sessionRecord, GuardedValid(s), NEW t \in sessionRecord,
           t.Inputs = s.Inputs, t.NextSequence = s.NextSequence, t.Recovery = s.Recovery,
           \A p \in OperationIDs :
              \/ t.Outputs[p] = s.Outputs[p]
              \/ /\ s.Outputs[p].Phase \in OutputPhases /\ t.Outputs[p].Phase \in OutputPhases
                 /\ t.Outputs[p].Sequence = s.Outputs[p].Sequence
                 /\ \/ t.Outputs[p].Lease = NoLease
                    \/ (t.Outputs[p].Phase = "pending" /\ t.Outputs[p].Lease.Owner # "")
                 /\ (t.Outputs[p].Phase = "confirmed") <=> (t.Outputs[p].Receipt # "")
    PROVE  GuardedValid(t)
<1>1. \A phases : InputsIn(t, phases) = InputsIn(s, phases)
  BY DEF InputsIn
<1>2. OutputsIn(t, OutputPhases) = OutputsIn(s, OutputPhases)
  BY DEF OutputsIn
<1>3. \A p \in OperationIDs : t.Outputs[p].Sequence = s.Outputs[p].Sequence
  OBVIOUS
<1>4. OutputsIn(s, OutputPhases) \subseteq OperationIDs
  BY DEF OutputsIn
<1>5. BoundaryValid(t) /\ CommittedValid(t)
  BY <1>1 DEF GuardedValid, BoundaryValid, CommittedValid, Captured
<1>6. LeaseValid(t)
  BY DEF GuardedValid, LeaseValid
<1>7. CapacityValid(t)
  BY <1>1, <1>2 DEF GuardedValid, CapacityValid, PendingInputs
<1>8. ReceiptValid(t)
  BY DEF GuardedValid, ReceiptValid
<1>9. SequenceValid(t)
  <2>1. SequenceValid(s)
    BY DEF GuardedValid
  <2>2. InputSequences(t) = InputSequences(s)
    BY DEF InputSequences, InputsIn
  <2>3. OutputSequences(t) = OutputSequences(s)
    BY <1>2, <1>3, <1>4 DEF OutputSequences
  <2> QED BY <2>1, <2>2, <2>3, <1>1, <1>2, <1>3, <1>4 DEF SequenceValid
<1> QED BY <1>5, <1>6, <1>7, <1>8, <1>9 DEF GuardedValid

\* Appending an input, or an output, at the end of the sequence.
LEMMA EnqueueInputValid ==
    ASSUME NEW s \in sessionRecord, GuardedValid(s), NEW m \in MessageIDs,
           NEW t \in sessionRecord, NEW r \in StoredInput,
           s.Inputs[m].Phase = "absent",
           Cardinality(InputsIn(s, InputPhases)) # MaxInputsPerSession,
           Cardinality(PendingInputs(s)) # MaxPendingInputsPerSession,
           r.Phase = "pending", r.Sequence = s.NextSequence + 1, r.Lease = NoLease,
           t.Inputs = [s.Inputs EXCEPT ![m] = r], t.NextSequence = s.NextSequence + 1,
           t.Outputs = s.Outputs, t.Recovery = s.Recovery
    PROVE  GuardedValid(t)
<1>1. /\ s.NextSequence \in Nat /\ s.Inputs \in [MessageIDs -> inputRecord]
      /\ s.Recovery \in inputRecoveryRecord
  BY SessionFields
<1>2. s.Recovery.ThroughSequence \in Nat
  BY <1>1 DEF inputRecoveryRecord
<1>3. t.Inputs[m] = r /\ \A n \in MessageIDs \ {m} : t.Inputs[n] = s.Inputs[n]
  BY <1>1
<1>4. /\ InputsIn(t, InputPhases) = InputsIn(s, InputPhases) \cup {m}
      /\ m \notin InputsIn(s, InputPhases)
  BY <1>3 DEF InputsIn, InputPhases
<1>5. PendingInputs(t) = PendingInputs(s) \cup {m}
  BY <1>3 DEF PendingInputs, InputsIn
<1>6. \A phases : OutputsIn(t, phases) = OutputsIn(s, phases)
  BY DEF OutputsIn
<1>7. InputsIn(s, InputPhases) \subseteq MessageIDs
  BY DEF InputsIn
<1>8. SequenceValid(s)
  BY DEF GuardedValid
<1>9. BoundaryValid(t)
  <2>1. BoundaryValid(s)
    BY DEF GuardedValid
  <2>2. 1 .. s.NextSequence \subseteq 1 .. t.NextSequence
    BY <1>1, IntervalGrows
  <2> QED BY <2>1, <2>2 DEF BoundaryValid
<1>10. CommittedValid(t)
  <2> SUFFICES ASSUME t.Recovery.Phase = "committed", NEW n \in InputsIn(t, Unresolved)
               PROVE  ~Captured(t, n)
    BY DEF CommittedValid
  <2>1. CASE n = m
    <3>1. s.Recovery.ThroughSequence \in 1 .. s.NextSequence
      BY DEF GuardedValid, BoundaryValid
    <3>2. t.Inputs[n].Sequence = s.NextSequence + 1
      BY <2>1, <1>3
    <3> QED BY <3>1, <3>2, <1>1, <1>2 DEF Captured
  <2>2. CASE n # m
    BY <2>2, <1>3 DEF GuardedValid, CommittedValid, Captured, InputsIn
  <2> QED BY <2>1, <2>2
<1>11. LeaseValid(t)
  <2>1. LeaseValid(s)
    BY DEF GuardedValid
  <2>2. t.Inputs[m].Lease = NoLease
    BY <1>3
  <2> QED BY <2>1, <2>2, <1>3, Zenon DEF LeaseValid
<1>12. CapacityValid(t)
  <2>1. IsFiniteSet(InputsIn(s, InputPhases)) /\ IsFiniteSet(PendingInputs(s))
    BY JournalAssumption, FS_Subset DEF PendingInputs, InputsIn
  <2>2. CapacityValid(s)
    BY DEF GuardedValid
  <2>3. Cardinality(InputsIn(t, InputPhases)) <= MaxInputsPerSession
    BY <2>1, <2>2, <1>4, CapacityAdd, Limits DEF CapacityValid
  <2>4. Cardinality(PendingInputs(t)) <= MaxPendingInputsPerSession
    BY <2>1, <2>2, <1>5, CapacityAdd, Limits DEF CapacityValid
  <2> QED BY <2>2, <2>3, <2>4, <1>6 DEF CapacityValid
<1>13. ReceiptValid(t)
  BY DEF GuardedValid, ReceiptValid
<1>14. SequenceValid(t)
  <2>1. InputSequences(t) = InputSequences(s) \cup {s.NextSequence + 1}
    BY <1>3, <1>4, <1>7 DEF InputSequences
  <2>2. OutputSequences(t) = OutputSequences(s)
    BY DEF OutputSequences, OutputsIn
  <2>3. 1 .. t.NextSequence = (1 .. s.NextSequence) \cup {s.NextSequence + 1}
    BY <1>1, IntervalGrows
  <2>4. s.NextSequence + 1 \notin 1 .. s.NextSequence
    BY <1>1, IntervalGrows
  <2>5. \A n \in InputsIn(s, InputPhases) : s.Inputs[n].Sequence \in 1 .. s.NextSequence
    BY <1>8 DEF SequenceValid, InputSequences
  <2>6. \A n, k \in InputsIn(t, InputPhases) :
           t.Inputs[n].Sequence = t.Inputs[k].Sequence => n = k
    BY <2>4, <2>5, <1>3, <1>4, <1>7, <1>8 DEF SequenceValid
  <2>7. InputSequences(t) \cup OutputSequences(t) = 1 .. t.NextSequence
    BY <2>1, <2>2, <2>3, <1>8 DEF SequenceValid
  <2>8. InputSequences(t) \cap OutputSequences(t) = {}
    BY <2>1, <2>2, <2>4, <1>8 DEF SequenceValid
  <2> QED BY <2>6, <2>7, <2>8, <1>6, <1>8 DEF SequenceValid
<1> QED BY <1>9, <1>10, <1>11, <1>12, <1>13, <1>14 DEF GuardedValid

\* Adding one output to a record that otherwise keeps its sequences.
LEMMA OutputSequenceAdded ==
    ASSUME NEW s \in sessionRecord, NEW t \in sessionRecord, NEW p \in OperationIDs,
           t.Outputs[p].Sequence = s.NextSequence + 1,
           OutputsIn(t, OutputPhases) = OutputsIn(s, OutputPhases) \cup {p},
           \A y \in OutputsIn(s, OutputPhases) :
              /\ t.Outputs[y].Sequence = s.Outputs[y].Sequence
              /\ s.Outputs[y].Sequence # s.NextSequence + 1,
           \A y, z \in OutputsIn(s, OutputPhases) :
              s.Outputs[y].Sequence = s.Outputs[z].Sequence => y = z
    PROVE  /\ OutputSequences(t) = OutputSequences(s) \cup {s.NextSequence + 1}
           /\ \A y, z \in OutputsIn(t, OutputPhases) :
                 t.Outputs[y].Sequence = t.Outputs[z].Sequence => y = z
<1>1. \A y \in OutputsIn(t, OutputPhases) : y = p \/ y \in OutputsIn(s, OutputPhases)
  OBVIOUS
<1>2. OutputSequences(t) = OutputSequences(s) \cup {s.NextSequence + 1}
  BY DEF OutputSequences
<1>3. ASSUME NEW y \in OutputsIn(t, OutputPhases), NEW z \in OutputsIn(t, OutputPhases),
             t.Outputs[y].Sequence = t.Outputs[z].Sequence
      PROVE  y = z
  BY <1>1, <1>3
<1> QED BY <1>2, <1>3

\* Enqueuing an output below the limit keeps every guarded clause.
LEMMA EnqueueOutputValid ==
    ASSUME NEW s \in sessionRecord, GuardedValid(s), NEW p \in OperationIDs,
           NEW t \in sessionRecord,
           s.Outputs[p].Phase = "absent",
           Cardinality(OutputsIn(s, OutputPhases)) # MaxOutputsPerSession,
           t.Outputs[p].Phase = "pending", t.Outputs[p].Sequence = s.NextSequence + 1,
           t.Outputs[p].Lease = NoLease, t.Outputs[p].Receipt = "",
           \A q \in OperationIDs \ {p} : t.Outputs[q] = s.Outputs[q],
           t.NextSequence = s.NextSequence + 1,
           t.Inputs = s.Inputs, t.Recovery = s.Recovery
    PROVE  GuardedValid(t)
<1>1. /\ s.NextSequence \in Nat /\ s.Outputs \in [OperationIDs -> outputRecord]
      /\ s.Recovery \in inputRecoveryRecord
  BY SessionFields
<1>3. /\ OutputsIn(t, OutputPhases) = OutputsIn(s, OutputPhases) \cup {p}
      /\ p \notin OutputsIn(s, OutputPhases)
  BY DEF OutputsIn, OutputPhases
<1>4. \A phases : InputsIn(t, phases) = InputsIn(s, phases)
  BY DEF InputsIn
<1>5. OutputsIn(s, OutputPhases) \subseteq OperationIDs
  BY DEF OutputsIn
<1>6. SequenceValid(s)
  BY DEF GuardedValid
<1>7. BoundaryValid(t)
  <2>1. BoundaryValid(s)
    BY DEF GuardedValid
  <2>2. 1 .. s.NextSequence \subseteq 1 .. t.NextSequence
    BY <1>1, IntervalGrows
  <2> QED BY <2>1, <2>2 DEF BoundaryValid
<1>8. CommittedValid(t)
  BY <1>4 DEF GuardedValid, CommittedValid, Captured
<1>9. LeaseValid(t)
  <2>1. LeaseValid(s)
    BY DEF GuardedValid
  <2> QED BY <2>1 DEF LeaseValid
<1>10. CapacityValid(t)
  <2>1. IsFiniteSet(OutputsIn(s, OutputPhases))
    BY JournalAssumption, FS_Subset DEF OutputsIn
  <2>2. CapacityValid(s)
    BY DEF GuardedValid
  <2>3. Cardinality(OutputsIn(t, OutputPhases)) <= MaxOutputsPerSession
    BY <2>1, <2>2, <1>3, CapacityAdd, Limits DEF CapacityValid
  <2> QED BY <2>2, <2>3, <1>4 DEF CapacityValid, PendingInputs
<1>11. ReceiptValid(t)
  BY DEF GuardedValid, ReceiptValid
<1>12. SequenceValid(t)
  <2>1. \A q \in OutputsIn(s, OutputPhases) : t.Outputs[q].Sequence = s.Outputs[q].Sequence
    BY <1>3, <1>5
  <2>2. InputSequences(t) = InputSequences(s)
    BY DEF InputSequences, InputsIn
  <2>3. 1 .. t.NextSequence = (1 .. s.NextSequence) \cup {s.NextSequence + 1}
    BY <1>1, IntervalGrows
  <2>4. s.NextSequence + 1 \notin 1 .. s.NextSequence
    BY <1>1, IntervalGrows
  <2>5. \A q \in OutputsIn(s, OutputPhases) : s.Outputs[q].Sequence # s.NextSequence + 1
    BY <2>4, <1>6 DEF SequenceValid, OutputSequences
  <2>6. /\ OutputSequences(t) = OutputSequences(s) \cup {s.NextSequence + 1}
        /\ \A q, k \in OutputsIn(t, OutputPhases) :
              t.Outputs[q].Sequence = t.Outputs[k].Sequence => q = k
    <3>1. \A q, k \in OutputsIn(s, OutputPhases) :
              s.Outputs[q].Sequence = s.Outputs[k].Sequence => q = k
      BY <1>6 DEF SequenceValid
    <3> QED BY <2>1, <2>5, <3>1, <1>3, OutputSequenceAdded
  <2>7. InputSequences(t) \cup OutputSequences(t) = 1 .. t.NextSequence
    BY <2>6, <2>2, <2>3, <1>6 DEF SequenceValid
  <2>8. InputSequences(t) \cap OutputSequences(t) = {}
    BY <2>6, <2>2, <2>4, <1>6 DEF SequenceValid
  <2> QED BY <2>6, <2>7, <2>8, <1>4, <1>6 DEF SequenceValid
<1> QED BY <1>7, <1>8, <1>9, <1>10, <1>11, <1>12 DEF GuardedValid

\* Opening, taking over and sealing a boundary: sequences, outputs and leases
\* stay, and inputs only become tombstones.
LEMMA RecoveryRewriteValid ==
    ASSUME NEW s \in sessionRecord, GuardedValid(s), NEW t \in sessionRecord,
           t.Outputs = s.Outputs, t.NextSequence = s.NextSequence,
           \A m \in MessageIDs :
              \/ t.Inputs[m] = s.Inputs[m]
              \/ /\ s.Inputs[m].Phase \in InputPhases /\ t.Inputs[m].Phase = "skipped"
                 /\ t.Inputs[m].Sequence = s.Inputs[m].Sequence /\ t.Inputs[m].Lease = NoLease,
           BoundaryValid(t), CommittedValid(t)
    PROVE  GuardedValid(t)
<1>1. InputsIn(t, InputPhases) = InputsIn(s, InputPhases)
  BY DEF InputsIn, InputPhases
<1>2. PendingInputs(t) \subseteq PendingInputs(s)
  BY DEF PendingInputs, InputsIn
<1>3. \A phases : OutputsIn(t, phases) = OutputsIn(s, phases)
  BY DEF OutputsIn
<1>4. \A m \in MessageIDs : t.Inputs[m].Sequence = s.Inputs[m].Sequence
  OBVIOUS
<1>5. InputsIn(s, InputPhases) \subseteq MessageIDs
  BY DEF InputsIn
<1>6. LeaseValid(t)
  BY DEF GuardedValid, LeaseValid
<1>7. CapacityValid(t)
  <2>1. IsFiniteSet(PendingInputs(s))
    BY JournalAssumption, FS_Subset DEF PendingInputs, InputsIn
  <2>2. CapacityValid(s)
    BY DEF GuardedValid
  <2>3. Cardinality(PendingInputs(t)) <= MaxPendingInputsPerSession
    BY <2>1, <2>2, <1>2, CapacityKept, Limits DEF CapacityValid
  <2> QED BY <2>2, <2>3, <1>1, <1>3 DEF CapacityValid
<1>8. ReceiptValid(t)
  BY DEF GuardedValid, ReceiptValid
<1>9. SequenceValid(t)
  <2>1. SequenceValid(s)
    BY DEF GuardedValid
  <2>2. InputSequences(t) = InputSequences(s)
    BY <1>1, <1>4, <1>5 DEF InputSequences
  <2>3. OutputSequences(t) = OutputSequences(s)
    BY DEF OutputSequences, OutputsIn
  <2> QED BY <2>1, <2>2, <2>3, <1>1, <1>3, <1>4, <1>5 DEF SequenceValid
<1> QED BY <1>6, <1>7, <1>8, <1>9 DEF GuardedValid
=============================================================================
