------------------------- MODULE JournalStepProofs --------------------------
(***************************************************************************)
(* Each step of the journal keeps the record well formed and validated.    *)
(***************************************************************************)
EXTENDS JournalRecordProofs

Core == TypeOK /\ Valid(session) /\ refused \subseteq {"attached"}
CoreNext ==
    /\ session' \in sessionRecord
    /\ Valid(session')
    /\ refused' \subseteq {"attached"}

\* A mutation that passes the guarded clauses keeps Core, and is written when it
\* is valid altogether.
LEMMA MutateStep ==
    ASSUME Core, NEW next \in sessionRecord, GuardedValid(next), mutate(next)
    PROVE  CoreNext /\ session' \in {session, next} /\ (Valid(next) => session' = next)
<1>1. CoreNext /\ session' \in {session, next}
  BY MutateCases, ValidationClauses DEF Core, CoreNext, TypeOK
<1>2. Valid(next) => session' = next
  BY ValidationClauses DEF mutate
<1> QED BY <1>1, <1>2

\* A present input of the current record is a stored one.
LEMMA SessionInputs ==
    ASSUME TypeOK, NEW m \in MessageIDs, session.Inputs[m].Phase # "absent"
    PROVE  session.Inputs[m] \in StoredInput
<1>1. session.Inputs[m] \in inputRecord
  BY SessionFields DEF TypeOK
<1> QED BY <1>1, StoredInputs

\* A present output of the current record is a stored one.
LEMMA SessionOutputs ==
    ASSUME TypeOK, NEW p \in OperationIDs, session.Outputs[p].Phase # "absent"
    PROVE  session.Outputs[p] \in StoredOutput
<1>1. session.Outputs[p] \in outputRecord
  BY SessionFields DEF TypeOK
<1> QED BY <1>1, StoredOutputs

\* A step that touches at most the record of input m, and not its sequence.
OneInput(m) ==
    /\ session'.NextSequence = session.NextSequence
    /\ session'.Outputs = session.Outputs
    /\ session'.Recovery = session.Recovery
    /\ \A n \in MessageIDs \ {m} : session'.Inputs[n] = session.Inputs[n]
    /\ session'.Inputs[m].Sequence = session.Inputs[m].Sequence

\* A change of one undecided input keeps Core, written or refused.
LEMMA InputChangeStep ==
    ASSUME Core, NEW m \in MessageIDs, NEW r, InputChange(m, r)
    PROVE  CoreNext /\ OneInput(m) /\ session'.Inputs[m] \in {session.Inputs[m], r}
<1> DEFINE next == WithInput(session, m, r)
<1>1. session \in sessionRecord /\ r \in StoredInput
  BY DEF Core, TypeOK, InputChange
<1>2. /\ next \in sessionRecord /\ next.Inputs = [session.Inputs EXCEPT ![m] = r]
      /\ next.NextSequence = session.NextSequence /\ next.Outputs = session.Outputs
      /\ next.Recovery = session.Recovery
  BY <1>1, WithInputFields
<1>3. GuardedValid(next)
  BY <1>1, InputRewriteValid DEF InputChange, Core, Valid
<1>4. CoreNext /\ session' \in {session, next}
  BY <1>2, <1>3, MutateStep DEF InputChange
<1>5. r.Sequence = session.Inputs[m].Sequence /\ session.Inputs \in [MessageIDs -> inputRecord]
  BY <1>1, SessionFields DEF InputChange
<1> HIDE DEF next
<1> QED BY <1>2, <1>4, <1>5 DEF OneInput

\* The same for the phase transitions of inputs.
LEMMA TransitionStep ==
    ASSUME Core, NEW m \in MessageIDs, NEW phase \in InputPhases, InputTransition(m, phase)
    PROVE  /\ CoreNext /\ OneInput(m)
           /\ \/ session'.Inputs[m] = session.Inputs[m]
              \/ session'.Inputs[m].Phase = phase /\ session'.Inputs[m].Lease = NoLease
<1> DEFINE r == [session.Inputs[m] EXCEPT !.Phase = phase, !.Lease = NoLease]
<1>1. InputChange(m, r)
  BY TransitionShape DEF InputTransition, Core
<1>2. session.Inputs[m] \in StoredInput
  BY SessionInputs DEF InputTransition, Core, Unresolved
<1>3. r.Phase = phase /\ r.Lease = NoLease
  BY <1>2 DEF StoredInput
<1> HIDE DEF r
<1> QED BY <1>1, <1>3, InputChangeStep

\* Replacing the lease, or the payload, of a stored input changes nothing else.
LEMMA LeaseUpdate ==
    ASSUME NEW r \in StoredInput, NEW lease \in Lease
    PROVE  /\ [r EXCEPT !.Lease = lease] \in StoredInput
           /\ [r EXCEPT !.Lease = lease].Phase = r.Phase
           /\ [r EXCEPT !.Lease = lease].Sequence = r.Sequence
           /\ [r EXCEPT !.Lease = lease].Lease = lease
BY DEF StoredInput

\* Replacing the payload keeps the other fields.
LEMMA PayloadUpdate ==
    ASSUME NEW r \in StoredInput, NEW payload \in Payloads
    PROVE  /\ [r EXCEPT !.Payload = payload] \in StoredInput
           /\ [r EXCEPT !.Payload = payload].Phase = r.Phase
           /\ [r EXCEPT !.Payload = payload].Sequence = r.Sequence
           /\ [r EXCEPT !.Payload = payload].Lease = r.Lease
BY DEF StoredInput

\* A fresh lease is a lease with an owner.
LEMMA NewLease ==
    ASSUME NEW owner \in Owners
    PROVE  /\ [Owner |-> owner, Live |-> TRUE] \in Lease
           /\ [Owner |-> owner, Live |-> TRUE].Owner # ""
BY Limits DEF Lease

\* LeaseNextInput keeps Core and the phase of the input it leases.
LEMMA LeaseStep ==
    ASSUME Core, NEW m \in MessageIDs, NEW owner \in Owners, LeaseNextInput(m, owner)
    PROVE  /\ CoreNext /\ OneInput(m)
           /\ session'.Inputs[m].Phase = session.Inputs[m].Phase
<1> DEFINE old == session.Inputs[m]
           r == [old EXCEPT !.Lease = [Owner |-> owner, Live |-> TRUE]]
<1>1. old.Phase = "pending"
  BY DEF LeaseNextInput, LaneHead
<1>2. old \in StoredInput
  BY <1>1, SessionInputs DEF Core
<1>3. /\ r \in StoredInput /\ r.Phase = "pending" /\ r.Sequence = old.Sequence
      /\ r.Lease = [Owner |-> owner, Live |-> TRUE]
  BY <1>1, <1>2, NewLease, LeaseUpdate
<1>4. r.Lease.Owner # ""
  BY <1>3, NewLease
<1>5. mutate(WithInput(session, m, r))
  BY DEF LeaseNextInput
<1>6. InputChange(m, r)
  <2> HIDE DEF r
  <2> QED BY <1>1, <1>3, <1>4, <1>5 DEF InputChange, Unresolved
<1> HIDE DEF r
<1> QED BY <1>1, <1>3, <1>6, InputChangeStep

\* ReplaceLeasedInputPayload keeps Core, the phase and the lease.
LEMMA ReplaceStep ==
    ASSUME Core, NEW m \in MessageIDs, NEW owner \in Owners, NEW payload \in Payloads,
           ReplaceLeasedInputPayload(m, owner, payload)
    PROVE  /\ CoreNext /\ OneInput(m)
           /\ session'.Inputs[m].Phase = session.Inputs[m].Phase
           /\ session'.Inputs[m].Lease = session.Inputs[m].Lease
<1> DEFINE old == session.Inputs[m]
           r == [old EXCEPT !.Payload = payload]
<1>1. old.Phase = "pending" /\ old.Lease.Owner = owner
  BY DEF ReplaceLeasedInputPayload, LeasedBy
<1>2. old \in StoredInput
  BY <1>1, SessionInputs DEF Core
<1>3. r \in StoredInput /\ r.Phase = "pending" /\ r.Sequence = old.Sequence /\ r.Lease = old.Lease
  BY <1>1, <1>2, PayloadUpdate
<1>4. r.Lease.Owner # ""
  BY <1>1, <1>3, Limits
<1>5. mutate(WithInput(session, m, r))
  BY DEF ReplaceLeasedInputPayload
<1>6. InputChange(m, r)
  <2> HIDE DEF r
  <2> QED BY <1>1, <1>3, <1>4, <1>5 DEF InputChange, Unresolved
<1> HIDE DEF r
<1> QED BY <1>1, <1>3, <1>6, InputChangeStep

\* EnqueueInput keeps Core and appends one input at the next sequence.
LEMMA EnqueueInputStep ==
    ASSUME Core, NEW m \in MessageIDs, NEW payload \in Payloads, EnqueueInput(m, payload)
    PROVE  /\ CoreNext
           /\ session'.Outputs = session.Outputs /\ session'.Recovery = session.Recovery
           /\ \A n \in MessageIDs \ {m} : session'.Inputs[n] = session.Inputs[n]
           /\ \/ session'.Inputs[m] = session.Inputs[m]
              \/ /\ session'.Inputs[m].Phase = "pending"
                 /\ session'.Inputs[m].Sequence = session.NextSequence + 1
                 /\ session'.Inputs[m].Lease = NoLease
<1> DEFINE r == [Phase |-> "pending", Sequence |-> session.NextSequence + 1,
                 Payload |-> payload, Lease |-> NoLease]
           mid == WithInput(session, m, r)
           next == [mid EXCEPT !.NextSequence = mid.NextSequence + 1]
<1>1. session \in sessionRecord /\ session.NextSequence \in Nat
      /\ session.Inputs \in [MessageIDs -> inputRecord]
  BY SessionFields DEF Core, TypeOK
<1>2. /\ r \in StoredInput /\ r.Phase = "pending" /\ r.Sequence = session.NextSequence + 1
      /\ r.Lease = NoLease
  BY <1>1 DEF StoredInput, InputPhases, Lease
<1>3. /\ mid \in sessionRecord /\ mid.Inputs = [session.Inputs EXCEPT ![m] = r]
      /\ mid.NextSequence = session.NextSequence /\ mid.Outputs = session.Outputs
      /\ mid.Recovery = session.Recovery
  BY <1>1, <1>2, WithInputFields
<1>4. /\ next \in sessionRecord /\ next.Inputs = mid.Inputs
      /\ next.NextSequence = session.NextSequence + 1
      /\ next.Outputs = mid.Outputs /\ next.Recovery = mid.Recovery
  <2> HIDE DEF mid
  <2> QED BY <1>1, <1>3 DEF sessionRecord
<1>5. mutate(next)
  BY DEF EnqueueInput
<1>6. GuardedValid(next)
  <2> HIDE DEF mid, next, r
  <2> QED BY <1>1, <1>2, <1>3, <1>4, EnqueueInputValid DEF EnqueueInput, Core, Valid
<1>7. CoreNext /\ session' \in {session, next}
  <2> HIDE DEF mid, next, r
  <2> QED BY <1>4, <1>5, <1>6, MutateStep
<1> HIDE DEF mid, next, r
<1> QED BY <1>1, <1>2, <1>3, <1>4, <1>7

\* Rewriting the boundary keeps the shape of the record and its other fields.
LEMMA WithRecoveryFields ==
    ASSUME NEW s \in sessionRecord, NEW rec \in inputRecoveryRecord
    PROVE  LET t == [s EXCEPT !.Recovery = rec] IN
           /\ t \in sessionRecord /\ t.Recovery = rec /\ t.Inputs = s.Inputs
           /\ t.Outputs = s.Outputs /\ t.NextSequence = s.NextSequence
BY DEF sessionRecord

\* A boundary at the end of the journal, or one already validated, is valid.
LEMMA BoundaryStep ==
    ASSUME Core, NEW rec \in inputRecoveryRecord, rec.Phase = "open",
           rec.ThroughSequence \in 1 .. session.NextSequence,
           mutate([session EXCEPT !.Recovery = rec])
    PROVE  /\ CoreNext
           /\ session'.Inputs = session.Inputs /\ session'.Outputs = session.Outputs
           /\ session'.NextSequence = session.NextSequence
           /\ session'.Recovery \in {session.Recovery, rec}
<1> DEFINE next == [session EXCEPT !.Recovery = rec]
<1>1. session \in sessionRecord
  BY DEF Core, TypeOK
<1>2. /\ next \in sessionRecord /\ next.Recovery = rec /\ next.Inputs = session.Inputs
      /\ next.Outputs = session.Outputs /\ next.NextSequence = session.NextSequence
  BY <1>1, WithRecoveryFields
<1> HIDE DEF next
<1>3. BoundaryValid(next) /\ CommittedValid(next)
  BY <1>2 DEF BoundaryValid, CommittedValid
<1>4. GuardedValid(next)
  BY <1>1, <1>2, <1>3, RecoveryRewriteValid DEF Core, Valid
<1>5. CoreNext /\ session' \in {session, next}
  BY <1>2, <1>4, MutateStep DEF next
<1> QED BY <1>2, <1>5

\* BeginInputRecovery touches the boundary only: a new one starts at the last
\* sequence and a takeover keeps the cutoff.
LEMMA BeginStep ==
    ASSUME Core, NEW token \in Tokens, NEW legacy \in BOOLEAN,
           BeginInputRecovery(token, legacy)
    PROVE  /\ CoreNext
           /\ session'.Inputs = session.Inputs /\ session'.Outputs = session.Outputs
           /\ session'.NextSequence = session.NextSequence
           /\ \/ session'.Recovery = session.Recovery /\ captured \subseteq captured'
              \/ /\ session.Recovery.Phase = "open" /\ captured' = captured
                 /\ session'.Recovery.ThroughSequence = session.Recovery.ThroughSequence
              \/ captured' = captured \cup InputsIn(session, InputPhases)
<1>1. session \in sessionRecord /\ session.Recovery \in inputRecoveryRecord
      /\ session.NextSequence \in Nat
  BY SessionFields DEF Core, TypeOK
<1>2. BoundaryValid(session) /\ SequenceValid(session)
  BY DEF Core, Valid, GuardedValid
<1>3. CASE /\ session.Recovery.Phase = "open"
           /\ mutate([session EXCEPT !.Recovery = [session.Recovery EXCEPT !.Token = token]])
           /\ UNCHANGED captured
  <2> DEFINE rec == [session.Recovery EXCEPT !.Token = token]
  <2>1. /\ rec \in inputRecoveryRecord /\ rec.Phase = "open"
        /\ rec.ThroughSequence = session.Recovery.ThroughSequence
    BY <1>1, <1>3 DEF inputRecoveryRecord
  <2>2. rec.ThroughSequence \in 1 .. session.NextSequence
    BY <2>1, <1>2, <1>3 DEF BoundaryValid
  <2>3. mutate([session EXCEPT !.Recovery = rec])
    BY <1>3
  <2> HIDE DEF rec
  <2> QED BY <1>3, <2>1, <2>2, <2>3, BoundaryStep
<1>4. CASE /\ hasUnresolvedInputs(session)
           /\ mutate([session EXCEPT !.Recovery = [Phase |-> "open", Token |-> token,
                                       ThroughSequence |-> session.NextSequence]])
           /\ captured' = captured \cup InputsIn(session, InputPhases)
  <2> DEFINE rec == [Phase |-> "open", Token |-> token, ThroughSequence |-> session.NextSequence]
  <2>1. /\ rec \in inputRecoveryRecord /\ rec.Phase = "open"
        /\ rec.ThroughSequence = session.NextSequence
    BY <1>1 DEF inputRecoveryRecord, RecoveryPhases
  <2>2. PICK m \in InputsIn(session, Unresolved) : TRUE
    BY <1>4 DEF hasUnresolvedInputs
  <2>3. session.Inputs[m].Sequence \in 1 .. session.NextSequence
    BY <2>2, <1>2 DEF SequenceValid, InputSequences, InputsIn, Unresolved, InputPhases
  <2>4. rec.ThroughSequence \in 1 .. session.NextSequence
    <3>1. \A k \in 1 .. session.NextSequence : session.NextSequence \in 1 .. session.NextSequence
      BY <1>1
    <3> QED BY <2>1, <2>3, <3>1
  <2>5. mutate([session EXCEPT !.Recovery = rec])
    BY <1>4
  <2> HIDE DEF rec
  <2> QED BY <1>4, <2>1, <2>4, <2>5, BoundaryStep
<1> QED BY <1>3, <1>4 DEF BeginInputRecovery

\* The input as SealRecovery leaves it.
Sealed(gone, m) ==
    IF m \in gone /\ Captured(session, m)
    THEN [session.Inputs[m] EXCEPT !.Phase = "skipped", !.Lease = NoLease]
    ELSE session.Inputs[m]

\* The inputs after a boundary is sealed: the tombstoned ones and the rest.
LEMMA SealedInputs ==
    ASSUME Core, NEW gone, gone \subseteq InputsIn(session, Unresolved)
    PROVE  /\ [m \in MessageIDs |-> Sealed(gone, m)] \in [MessageIDs -> inputRecord]
           /\ \A m \in MessageIDs :
                \/ Sealed(gone, m) = session.Inputs[m] /\ ~(m \in gone /\ Captured(session, m))
                \/ /\ m \in gone /\ Captured(session, m)
                   /\ session.Inputs[m].Phase \in InputPhases
                   /\ Sealed(gone, m).Phase = "skipped"
                   /\ Sealed(gone, m).Sequence = session.Inputs[m].Sequence
                   /\ Sealed(gone, m).Lease = NoLease
<1>1. ASSUME NEW m \in MessageIDs, m \in gone, Captured(session, m)
      PROVE  /\ Sealed(gone, m) \in inputRecord
             /\ session.Inputs[m].Phase \in InputPhases
             /\ Sealed(gone, m).Phase = "skipped"
             /\ Sealed(gone, m).Sequence = session.Inputs[m].Sequence
             /\ Sealed(gone, m).Lease = NoLease
  <2> DEFINE old == session.Inputs[m]
             new == [old EXCEPT !.Phase = "skipped", !.Lease = NoLease]
  <2>1. old.Phase \in Unresolved
    BY <1>1 DEF InputsIn
  <2>2. old \in StoredInput
    BY <2>1, SessionInputs DEF Core, Unresolved
  <2>3. /\ new \in StoredInput /\ new.Phase = "skipped" /\ new.Lease = NoLease
        /\ new.Sequence = old.Sequence
    BY <2>2 DEF StoredInput, Lease, InputPhases
  <2>4. Sealed(gone, m) = new
    BY <1>1 DEF Sealed
  <2>5. old.Phase \in InputPhases
    BY <2>2 DEF StoredInput
  <2>6. new \in inputRecord
    BY <2>3 DEF inputRecord, StoredInput
  <2> QED BY <2>3, <2>4, <2>5, <2>6
<1>2. ASSUME NEW m \in MessageIDs, ~(m \in gone /\ Captured(session, m))
      PROVE  Sealed(gone, m) = session.Inputs[m] /\ Sealed(gone, m) \in inputRecord
  <2>1. session.Inputs[m] \in inputRecord
    BY SessionFields DEF Core, TypeOK
  <2> QED BY <1>2, <2>1 DEF Sealed
<1>3. \A m \in MessageIDs : Sealed(gone, m) \in inputRecord
  BY <1>1, <1>2
<1> QED BY <1>1, <1>2, <1>3

\* Sealing a boundary keeps Core and tombstones captured, undecided inputs only.
LEMMA SealStep ==
    ASSUME Core, NEW token, NEW gone, gone \subseteq InputsIn(session, Unresolved),
           NEW phase \in {"committed", "attached"},
           phase = "committed" => gone = InputsIn(session, Unresolved),
           SealRecovery(token, phase, gone)
    PROVE  /\ CoreNext
           /\ session'.Outputs = session.Outputs
           /\ session'.NextSequence = session.NextSequence
           /\ session.Recovery.Phase = "open"
           /\ session'.Recovery = session.Recovery \/ session'.Recovery.Phase = phase
           /\ \A m \in MessageIDs :
                \/ session'.Inputs[m] = session.Inputs[m]
                \/ /\ m \in gone /\ Captured(session, m)
                   /\ session'.Inputs[m].Phase = "skipped"
                   /\ session'.Inputs[m].Sequence = session.Inputs[m].Sequence
                   /\ session'.Inputs[m].Lease = NoLease
<1> DEFINE inputs == [m \in MessageIDs |-> Sealed(gone, m)]
           rec == [session.Recovery EXCEPT !.Phase = phase]
           next == [session EXCEPT !.Inputs = inputs, !.Recovery = rec]
<1>1. session \in sessionRecord /\ session.Recovery.Phase = "open" /\ GuardedValid(session)
  BY DEF Core, TypeOK, Valid, SealRecovery
<1>2. /\ inputs \in [MessageIDs -> inputRecord]
      /\ \A m \in MessageIDs :
            \/ inputs[m] = session.Inputs[m] /\ ~(m \in gone /\ Captured(session, m))
            \/ /\ m \in gone /\ Captured(session, m)
               /\ session.Inputs[m].Phase \in InputPhases
               /\ inputs[m].Phase = "skipped"
               /\ inputs[m].Sequence = session.Inputs[m].Sequence
               /\ inputs[m].Lease = NoLease
  BY SealedInputs
<1>3. mutate(next)
  BY DEF SealRecovery, Sealed
<1> HIDE DEF inputs
<1>4. /\ next \in sessionRecord /\ next.Inputs = inputs /\ next.Outputs = session.Outputs
      /\ next.NextSequence = session.NextSequence /\ next.Recovery.Phase = phase
      /\ next.Recovery.ThroughSequence = session.Recovery.ThroughSequence
  <2>1. /\ rec \in inputRecoveryRecord /\ rec.Phase = phase
        /\ rec.ThroughSequence = session.Recovery.ThroughSequence
    BY <1>1, SessionFields DEF inputRecoveryRecord, RecoveryPhases
  <2> HIDE DEF rec
  <2>2. /\ next \in sessionRecord /\ next.Inputs = inputs /\ next.Outputs = session.Outputs
        /\ next.NextSequence = session.NextSequence /\ next.Recovery = rec
    BY <1>1, <1>2, <2>1 DEF sessionRecord
  <2> QED BY <2>1, <2>2
<1> HIDE DEF next
<1>5. BoundaryValid(next)
  BY <1>1, <1>4 DEF BoundaryValid, GuardedValid
<1>6. CommittedValid(next)
  <2> SUFFICES ASSUME phase = "committed", NEW m \in InputsIn(next, Unresolved)
               PROVE  ~Captured(next, m)
    BY <1>4 DEF CommittedValid
  <2>1. m \in MessageIDs /\ inputs[m].Phase \in Unresolved
    BY <1>4 DEF InputsIn
  <2>2. inputs[m] = session.Inputs[m] /\ ~(m \in gone /\ Captured(session, m))
    BY <2>1, <1>2 DEF Unresolved
  <2>3. m \in gone
    BY <2>1, <2>2 DEF InputsIn
  <2> QED BY <2>2, <2>3, <1>4 DEF Captured
<1>7. GuardedValid(next)
  BY <1>1, <1>2, <1>4, <1>5, <1>6, RecoveryRewriteValid
<1>8. CoreNext /\ session' \in {session, next}
  BY <1>3, <1>4, <1>7, MutateStep
<1> QED BY <1>1, <1>2, <1>4, <1>8

\* CommitInputRecoverySkip seals with every undecided captured input tombstoned.
LEMMA SkipStep ==
    ASSUME NEW token, CommitInputRecoverySkip(token)
    PROVE  SealRecovery(token, "committed", InputsIn(session, Unresolved))
BY DEF CommitInputRecoverySkip

\* CommitInputRecoveryAttach seals with the ambiguous ones tombstoned.
LEMMA AttachStep ==
    ASSUME NEW token, CommitInputRecoveryAttach(token)
    PROVE  \E gone : /\ gone \subseteq InputsIn(session, Unresolved)
                     /\ SealRecovery(token, "attached", gone)
<1>1. {m \in PendingInputs(session) : session.Inputs[m].Lease.Owner # ""}
         \cup InputsIn(session, {"failed", "unknown"}) \subseteq InputsIn(session, Unresolved)
  BY DEF PendingInputs, InputsIn, Unresolved
<1> QED BY <1>1 DEF CommitInputRecoveryAttach

\* Either way of sealing a boundary.
LEMMA CommitSteps ==
    ASSUME Core, NEW token, CommitInputRecoverySkip(token) \/ CommitInputRecoveryAttach(token)
    PROVE  /\ CoreNext
           /\ session'.Outputs = session.Outputs
           /\ session'.NextSequence = session.NextSequence
           /\ session.Recovery.Phase = "open"
           /\ session'.Recovery = session.Recovery \/ session'.Recovery.Phase # "open"
           /\ \A m \in MessageIDs :
                \/ session'.Inputs[m] = session.Inputs[m]
                \/ /\ session.Inputs[m].Phase \in Unresolved /\ Captured(session, m)
                   /\ session'.Inputs[m].Phase = "skipped"
                   /\ session'.Inputs[m].Sequence = session.Inputs[m].Sequence
                   /\ session'.Inputs[m].Lease = NoLease
<1>1. PICK phase \in {"committed", "attached"}, gone \in SUBSET MessageIDs :
        /\ gone \subseteq InputsIn(session, Unresolved)
        /\ phase = "committed" => gone = InputsIn(session, Unresolved)
        /\ SealRecovery(token, phase, gone)
  BY SkipStep, AttachStep DEF InputsIn
<1>2. \A m \in gone : session.Inputs[m].Phase \in Unresolved
  BY <1>1 DEF InputsIn
<1>3. phase # "open"
  OBVIOUS
<1> QED BY <1>1, <1>2, <1>3, SealStep

\* A step that rewrites outputs in place, and nothing else of the record.
OutputsOnly ==
    /\ session'.NextSequence = session.NextSequence
    /\ session'.Inputs = session.Inputs
    /\ session'.Recovery = session.Recovery
    /\ \A p \in OperationIDs : session'.Outputs[p].Sequence = session.Outputs[p].Sequence

OutputChange(p, r) ==
    /\ r \in StoredOutput
    /\ session.Outputs[p].Phase \in OutputPhases
    /\ r.Sequence = session.Outputs[p].Sequence
    /\ r.Lease = NoLease \/ (r.Phase = "pending" /\ r.Lease.Owner # "")
    /\ (r.Phase = "confirmed") <=> (r.Receipt # "")

\* A change of one stored output keeps Core and is always written.
LEMMA OutputChangeStep ==
    ASSUME Core, NEW p \in OperationIDs, NEW r, OutputChange(p, r),
           mutate(WithOutput(session, p, r))
    PROVE  /\ CoreNext /\ OutputsOnly
           /\ \A q \in OperationIDs \ {p} : session'.Outputs[q] = session.Outputs[q]
           /\ session'.Outputs[p] = r
<1> DEFINE next == WithOutput(session, p, r)
<1>1. session \in sessionRecord /\ r \in StoredOutput /\ GuardedValid(session)
  BY DEF Core, TypeOK, OutputChange, Valid
<1>2. /\ next \in sessionRecord /\ next.Outputs = [session.Outputs EXCEPT ![p] = r]
      /\ next.NextSequence = session.NextSequence /\ next.Inputs = session.Inputs
      /\ next.Recovery = session.Recovery
  BY <1>1, WithOutputFields
<1>3. session.Outputs \in [OperationIDs -> outputRecord]
  BY <1>1, SessionFields
<1> HIDE DEF next
<1>4. next.Outputs[p] = r /\ \A q \in OperationIDs \ {p} : next.Outputs[q] = session.Outputs[q]
  BY <1>2, <1>3
<1>5. r.Phase \in OutputPhases
  BY <1>1 DEF StoredOutput
<1>6. GuardedValid(next)
  <2>1. \A q \in OperationIDs :
          \/ next.Outputs[q] = session.Outputs[q]
          \/ /\ session.Outputs[q].Phase \in OutputPhases /\ next.Outputs[q].Phase \in OutputPhases
             /\ next.Outputs[q].Sequence = session.Outputs[q].Sequence
             /\ \/ next.Outputs[q].Lease = NoLease
                \/ (next.Outputs[q].Phase = "pending" /\ next.Outputs[q].Lease.Owner # "")
             /\ (next.Outputs[q].Phase = "confirmed") <=> (next.Outputs[q].Receipt # "")
    BY <1>4, <1>5 DEF OutputChange
  <2> QED BY <2>1, <1>1, <1>2, OutputRewriteValid
<1>7. Valid(next)
  BY <1>2, <1>6 DEF Core, Valid, AttachedValid, Captured, InputsIn
<1>8. CoreNext /\ session' = next
  BY <1>2, <1>6, <1>7, MutateStep DEF next
<1> QED BY <1>2, <1>4, <1>8 DEF OutputsOnly, OutputChange

\* The phase changes of outputs: confirmation, the two failures and the retry.
LEMMA OutputTransitionStep ==
    ASSUME Core, NEW p \in OperationIDs, NEW phase \in OutputPhases,
           NEW receipt \in Receipts \cup {""},
           (phase = "confirmed") <=> (receipt # ""),
           session.Outputs[p].Phase \in OutputPhases,
           transitionOutput(p, phase, receipt)
    PROVE  /\ CoreNext /\ OutputsOnly
           /\ \A q \in OperationIDs \ {p} : session'.Outputs[q] = session.Outputs[q]
           /\ \/ session'.Outputs[p] = session.Outputs[p]
              \/ session'.Outputs[p].Phase = phase /\ session'.Outputs[p].Lease = NoLease
<1> DEFINE old == session.Outputs[p]
           r == [old EXCEPT !.Phase = phase, !.Receipt = receipt, !.Lease = NoLease]
<1>1. old \in StoredOutput
  BY SessionOutputs DEF Core, OutputPhases
<1>2. /\ r \in StoredOutput /\ r.Phase = phase /\ r.Receipt = receipt /\ r.Lease = NoLease
      /\ r.Sequence = old.Sequence
  BY <1>1 DEF StoredOutput, Lease
<1>3. mutate(WithOutput(session, p, r))
  BY DEF transitionOutput
<1> HIDE DEF r
<1>4. OutputChange(p, r)
  BY <1>2 DEF OutputChange
<1> QED BY <1>2, <1>3, <1>4, OutputChangeStep

\* Replacing the lease of an output keeps the other fields.
LEMMA OutputLeaseUpdate ==
    ASSUME NEW r \in StoredOutput, NEW lease \in Lease
    PROVE  /\ [r EXCEPT !.Lease = lease] \in StoredOutput
           /\ [r EXCEPT !.Lease = lease].Phase = r.Phase
           /\ [r EXCEPT !.Lease = lease].Sequence = r.Sequence
           /\ [r EXCEPT !.Lease = lease].Receipt = r.Receipt
           /\ [r EXCEPT !.Lease = lease].Lease = lease
BY DEF StoredOutput

\* LeaseNextOutput keeps Core and leaves its output pending and leased.
LEMMA OutputLeaseStep ==
    ASSUME Core, NEW p \in OperationIDs, NEW owner \in Owners, LeaseNextOutput(p, owner)
    PROVE  /\ CoreNext /\ OutputsOnly
           /\ session.Outputs[p].Phase = "pending"
           /\ session'.Outputs[p].Phase = "pending" /\ session'.Outputs[p].Lease # NoLease
           /\ \A q \in OperationIDs \ {p} : session'.Outputs[q] = session.Outputs[q]
<1> DEFINE old == session.Outputs[p]
           r == [old EXCEPT !.Lease = [Owner |-> owner, Live |-> TRUE]]
<1>1. old.Phase = "pending"
  BY DEF LeaseNextOutput, OutputsIn
<1>2. old \in StoredOutput
  BY <1>1, SessionOutputs DEF Core
<1>3. /\ r \in StoredOutput /\ r.Phase = "pending" /\ r.Sequence = old.Sequence
      /\ r.Receipt = old.Receipt /\ r.Lease = [Owner |-> owner, Live |-> TRUE]
  BY <1>1, <1>2, NewLease, OutputLeaseUpdate
<1>4. r.Lease.Owner # ""
  BY <1>3, NewLease
<1>5. mutate(WithOutput(session, p, r))
  BY DEF LeaseNextOutput
<1>6. old.Receipt = ""
  BY <1>1 DEF Core, Valid, GuardedValid, ReceiptValid
<1> HIDE DEF r
<1>7. OutputChange(p, r)
  BY <1>1, <1>3, <1>4, <1>6 DEF OutputChange, OutputPhases
<1>8. NoLease.Owner = ""
  BY DEF NoLease
<1> QED BY <1>1, <1>3, <1>4, <1>5, <1>7, <1>8, OutputChangeStep

\* EnqueueOutput keeps Core and appends one pending output.
LEMMA EnqueueOutputStep ==
    ASSUME Core, NEW p \in OperationIDs, NEW kind \in Kinds, EnqueueOutput(p, kind)
    PROVE  /\ CoreNext
           /\ session'.Inputs = session.Inputs /\ session'.Recovery = session.Recovery
           /\ \A q \in OperationIDs \ {p} : session'.Outputs[q] = session.Outputs[q]
           /\ \/ session'.Outputs[p] = session.Outputs[p]
              \/ /\ session'.Outputs[p].Phase = "pending"
                 /\ session'.Outputs[p].Lease = NoLease
<1> DEFINE r == [Phase |-> "pending", Sequence |-> session.NextSequence + 1,
                 Kind |-> kind, Receipt |-> "", Lease |-> NoLease]
           mid == WithOutput(session, p, r)
           next == [mid EXCEPT !.NextSequence = mid.NextSequence + 1]
<1>1. session \in sessionRecord /\ session.NextSequence \in Nat
      /\ session.Outputs \in [OperationIDs -> outputRecord]
  BY SessionFields DEF Core, TypeOK
<1>2. /\ r \in StoredOutput /\ r.Phase = "pending" /\ r.Sequence = session.NextSequence + 1
      /\ r.Lease = NoLease /\ r.Receipt = ""
  BY <1>1 DEF StoredOutput, OutputPhases, Lease
<1>3. /\ mid \in sessionRecord /\ mid.Outputs = [session.Outputs EXCEPT ![p] = r]
      /\ mid.NextSequence = session.NextSequence /\ mid.Inputs = session.Inputs
      /\ mid.Recovery = session.Recovery
  BY <1>1, <1>2, WithOutputFields
<1>4. /\ next \in sessionRecord /\ next.Outputs = mid.Outputs
      /\ next.NextSequence = session.NextSequence + 1
      /\ next.Inputs = mid.Inputs /\ next.Recovery = mid.Recovery
  <2> HIDE DEF mid, r
  <2> QED BY <1>1, <1>3 DEF sessionRecord
<1>5. mutate(next)
  BY DEF EnqueueOutput
<1> HIDE DEF mid, next, r
<1>6. next.Outputs[p] = r /\ \A q \in OperationIDs \ {p} : next.Outputs[q] = session.Outputs[q]
  BY <1>1, <1>3, <1>4
<1>7. GuardedValid(next)
  BY <1>1, <1>2, <1>3, <1>4, <1>6, EnqueueOutputValid DEF EnqueueOutput, Core, Valid
<1>8. CoreNext /\ session' \in {session, next}
  BY <1>4, <1>5, <1>7, MutateStep
<1> QED BY <1>2, <1>3, <1>4, <1>6, <1>8

\* SupersedePendingOutputs keeps Core and supersedes only pending outputs without
\* a lease that are older than the kept one.
LEMMA SupersedeStep ==
    ASSUME Core, NEW keep \in OperationIDs, NEW wanted, SupersedePendingOutputs(keep, wanted)
    PROVE  /\ CoreNext /\ OutputsOnly
           /\ \A p \in OperationIDs :
                \/ session'.Outputs[p] = session.Outputs[p]
                \/ /\ session.Outputs[p].Phase = "pending" /\ session.Outputs[p].Lease = NoLease
                   /\ session'.Outputs[p].Phase = "superseded"
                   /\ session'.Outputs[p].Lease = NoLease
                   /\ session.Outputs[p].Sequence < session.Outputs[keep].Sequence
                   /\ session.Outputs[keep].Phase # "absent"
<1> DEFINE older == {p \in OutputsIn(session, {"pending"}) :
                       /\ session.Outputs[p].Sequence < session.Outputs[keep].Sequence
                       /\ session.Outputs[p].Lease.Owner = ""
                       /\ session.Outputs[p].Kind \in wanted}
           new(p) == [session.Outputs[p] EXCEPT !.Phase = "superseded"]
           outputs == [p \in OperationIDs |-> IF p \in older THEN new(p) ELSE session.Outputs[p]]
           next == [session EXCEPT !.Outputs = outputs]
<1>1. session \in sessionRecord /\ session.Outputs \in [OperationIDs -> outputRecord]
      /\ GuardedValid(session)
  BY SessionFields DEF Core, TypeOK, Valid
<1>2. mutate(next) /\ session.Outputs[keep].Phase # "absent"
  BY DEF SupersedePendingOutputs
<1>3. ASSUME NEW p \in older
      PROVE  /\ p \in OperationIDs /\ session.Outputs[p].Phase = "pending"
             /\ session.Outputs[p].Lease = NoLease
             /\ session.Outputs[p].Receipt = ""
             /\ session.Outputs[p].Sequence < session.Outputs[keep].Sequence
             /\ new(p) \in outputRecord /\ new(p).Phase = "superseded" /\ new(p).Lease = NoLease
             /\ new(p).Receipt = "" /\ new(p).Sequence = session.Outputs[p].Sequence
  <2>1. /\ p \in OperationIDs /\ session.Outputs[p].Phase = "pending"
        /\ session.Outputs[p].Lease.Owner = ""
        /\ session.Outputs[p].Sequence < session.Outputs[keep].Sequence
    BY <1>3 DEF OutputsIn
  <2>2. session.Outputs[p] \in StoredOutput
    BY <2>1, SessionOutputs DEF Core
  <2>3. session.Outputs[p].Lease = NoLease /\ session.Outputs[p].Receipt = ""
    BY <2>1, <1>1 DEF GuardedValid, LeaseValid, ReceiptValid
  <2>4. /\ new(p) \in StoredOutput /\ new(p).Phase = "superseded"
        /\ new(p).Lease = session.Outputs[p].Lease
        /\ new(p).Receipt = session.Outputs[p].Receipt
        /\ new(p).Sequence = session.Outputs[p].Sequence
    BY <2>2 DEF StoredOutput, OutputPhases
  <2>5. new(p) \in outputRecord
    BY <2>4 DEF StoredOutput, outputRecord
  <2> QED BY <2>1, <2>3, <2>4, <2>5
<1> HIDE DEF older, new
<1>4. outputs \in [OperationIDs -> outputRecord]
  BY <1>1, <1>3
<1>5. \A p \in OperationIDs :
        \/ outputs[p] = session.Outputs[p]
        \/ /\ session.Outputs[p].Phase = "pending" /\ session.Outputs[p].Lease = NoLease
           /\ session.Outputs[p].Sequence < session.Outputs[keep].Sequence
           /\ outputs[p].Phase = "superseded" /\ outputs[p].Lease = NoLease
           /\ outputs[p].Receipt = "" /\ outputs[p].Sequence = session.Outputs[p].Sequence
  <2>1. ASSUME NEW p \in OperationIDs, p \in older PROVE outputs[p] = new(p)
    BY <2>1
  <2>2. ASSUME NEW p \in OperationIDs, p \notin older PROVE outputs[p] = session.Outputs[p]
    BY <2>2
  <2> HIDE DEF outputs
  <2> QED BY <2>1, <2>2, <1>3
<1> HIDE DEF outputs
<1>6. /\ next \in sessionRecord /\ next.Outputs = outputs /\ next.Inputs = session.Inputs
      /\ next.NextSequence = session.NextSequence /\ next.Recovery = session.Recovery
  BY <1>1, <1>4 DEF sessionRecord
<1> HIDE DEF next
<1>7. GuardedValid(next)
  <2>1. "superseded" \in OutputPhases /\ "pending" \in OutputPhases /\ "superseded" # "confirmed"
    BY Zenon DEF OutputPhases
  <2>2. \A p \in OperationIDs :
          \/ next.Outputs[p] = session.Outputs[p]
          \/ /\ session.Outputs[p].Phase \in OutputPhases /\ next.Outputs[p].Phase \in OutputPhases
             /\ next.Outputs[p].Sequence = session.Outputs[p].Sequence
             /\ \/ next.Outputs[p].Lease = NoLease
                \/ (next.Outputs[p].Phase = "pending" /\ next.Outputs[p].Lease.Owner # "")
             /\ (next.Outputs[p].Phase = "confirmed") <=> (next.Outputs[p].Receipt # "")
    BY <2>1, <1>5, <1>6
  <2> QED BY <2>2, <1>1, <1>6, OutputRewriteValid
<1>8. CoreNext /\ session' \in {session, next}
  BY <1>2, <1>6, <1>7, MutateStep
<1>9. \A p \in OperationIDs : outputs[p].Sequence = session.Outputs[p].Sequence
  BY <1>5
<1>10. OutputsOnly
  BY <1>6, <1>8, <1>9 DEF OutputsOnly
<1>11. CASE session' = session
  BY <1>8, <1>10, <1>11
<1>12. CASE session' = next
  BY <1>2, <1>5, <1>6, <1>8, <1>10, <1>12
<1> QED BY <1>8, <1>11, <1>12

\* Every operation on outputs is an enqueue, a lease, a coalescing or one of
\* the phase transitions; only a retry makes an output pending again.
LEMMA OutputSteps ==
    ASSUME NEW p \in OperationIDs, OutputNext(p)
    PROVE  \/ \E kind \in Kinds : EnqueueOutput(p, kind)
           \/ \E owner \in Owners : LeaseNextOutput(p, owner)
           \/ \E wanted \in SUBSET Kinds : SupersedePendingOutputs(p, wanted)
           \/ \E phase \in OutputPhases, receipt \in Receipts \cup {""} :
                 /\ phase # "superseded"
                 /\ (phase = "confirmed") <=> (receipt # "")
                 /\ session.Outputs[p].Phase \in {"pending", "failed", "unknown"}
                 /\ transitionOutput(p, phase, receipt)
                 /\ UNCHANGED <<handed, settled, captured, sent>>
                 /\ retried \subseteq retried' /\ retried' \subseteq retried \cup {p}
                 /\ phase = "pending" => p \in retried'
<1>1. ASSUME NEW owner \in Owners, NEW receipt \in Receipts, ConfirmOutput(p, owner, receipt)
      PROVE  /\ session.Outputs[p].Phase = "pending"
             /\ transitionOutput(p, "confirmed", receipt) /\ receipt # ""
             /\ UNCHANGED history
  BY <1>1, Limits DEF ConfirmOutput, OutputLeasedBy
<1>2. ASSUME NEW owner \in Owners, MarkOutputFailed(p, owner)
      PROVE  /\ session.Outputs[p].Phase = "pending"
             /\ transitionOutput(p, "failed", "") /\ UNCHANGED history
  BY <1>2 DEF MarkOutputFailed, finishOutput, OutputLeasedBy
<1>3. ASSUME NEW owner \in Owners, MarkOutputUnknown(p, owner)
      PROVE  /\ session.Outputs[p].Phase = "pending"
             /\ transitionOutput(p, "unknown", "") /\ UNCHANGED history
  BY <1>3 DEF MarkOutputUnknown, finishOutput, OutputLeasedBy
<1>4. ASSUME RetryOutput(p)
      PROVE  /\ session.Outputs[p].Phase \in {"failed", "unknown"}
             /\ transitionOutput(p, "pending", "")
             /\ retried' = retried \cup {p} /\ UNCHANGED <<handed, settled, captured, sent>>
  BY <1>4 DEF RetryOutput
<1>5. {"confirmed", "failed", "unknown", "pending"} \subseteq OutputPhases
  BY DEF OutputPhases
<1>6. CASE \E owner \in Owners, receipt \in Receipts : ConfirmOutput(p, owner, receipt)
  BY <1>1, <1>5, <1>6, Zenon DEF history
<1>7. CASE \E owner \in Owners : MarkOutputFailed(p, owner)
  BY <1>2, <1>5, <1>7, Zenon DEF history
<1>8. CASE \E owner \in Owners : MarkOutputUnknown(p, owner)
  BY <1>3, <1>5, <1>8, Zenon DEF history
<1>9. CASE RetryOutput(p)
  BY <1>4, <1>5, <1>9, Zenon
<1> QED BY <1>6, <1>7, <1>8, <1>9 DEF OutputNext

\* An expiry keeps Core and every phase, sequence and lease owner.
LEMMA LeaseExpiresStep ==
    ASSUME Core, LeaseExpires
    PROVE  /\ CoreNext /\ UNCHANGED history
           /\ session'.NextSequence = session.NextSequence
           /\ session'.Recovery = session.Recovery
           /\ \A m \in MessageIDs :
                /\ session'.Inputs[m].Phase = session.Inputs[m].Phase
                /\ session'.Inputs[m].Sequence = session.Inputs[m].Sequence
           /\ \A p \in OperationIDs :
                /\ session'.Outputs[p].Phase = session.Outputs[p].Phase
                /\ session'.Outputs[p].Sequence = session.Outputs[p].Sequence
                /\ session'.Outputs[p].Lease = NoLease => session.Outputs[p].Lease = NoLease
<1>1. session \in sessionRecord /\ Valid(session) /\ LeaseValid(session)
  BY DEF Core, TypeOK, Valid, GuardedValid
<1>2. /\ session.Inputs \in [MessageIDs -> inputRecord]
      /\ session.Outputs \in [OperationIDs -> outputRecord]
  BY <1>1, SessionFields
<1>3. NoLease.Live = FALSE
  BY DEF NoLease
<1>4. ASSUME NEW lease \in Lease, lease.Live, lease.Owner # ""
      PROVE  /\ [lease EXCEPT !.Live = FALSE] \in Lease
             /\ [lease EXCEPT !.Live = FALSE].Owner # ""
  <2>1. lease \in [Owner : Owners, Live : BOOLEAN]
    BY <1>3, <1>4 DEF Lease
  <2> QED BY <1>4, <2>1 DEF Lease
<1>5. ASSUME NEW m \in MessageIDs, session.Inputs[m].Lease.Live,
             session' = WithInput(session, m,
                          [session.Inputs[m] EXCEPT !.Lease = [@ EXCEPT !.Live = FALSE]])
      PROVE  /\ session' \in sessionRecord /\ Valid(session')
             /\ session'.NextSequence = session.NextSequence
             /\ session'.Recovery = session.Recovery /\ session'.Outputs = session.Outputs
             /\ \A n \in MessageIDs :
                  /\ session'.Inputs[n].Phase = session.Inputs[n].Phase
                  /\ session'.Inputs[n].Sequence = session.Inputs[n].Sequence
  <2> DEFINE old == session.Inputs[m]
             lease == [old.Lease EXCEPT !.Live = FALSE]
             r == [old EXCEPT !.Lease = lease]
  <2>1. old.Phase = "pending" /\ old.Lease.Owner # ""
    BY <1>1, <1>3, <1>5 DEF LeaseValid
  <2>2. old \in StoredInput /\ old.Lease \in Lease
    <3>1. old \in StoredInput
      BY <2>1, SessionInputs DEF Core
    <3> QED BY <3>1 DEF StoredInput
  <2>3. lease \in Lease /\ lease.Owner # ""
    BY <1>4, <1>5, <2>1, <2>2
  <2> HIDE DEF lease
  <2>4. /\ r \in StoredInput /\ r.Phase = old.Phase /\ r.Sequence = old.Sequence
        /\ r.Lease = lease
    BY <2>2, <2>3, LeaseUpdate
  <2>5. session' = WithInput(session, m, r)
    BY <1>5 DEF lease
  <2> HIDE DEF r
  <2>6. /\ session' \in sessionRecord /\ session'.Inputs = [session.Inputs EXCEPT ![m] = r]
        /\ session'.NextSequence = session.NextSequence
        /\ session'.Outputs = session.Outputs /\ session'.Recovery = session.Recovery
    BY <1>1, <2>4, <2>5, WithInputFields
  <2>7. GuardedValid(session')
    BY <1>1, <2>1, <2>3, <2>4, <2>5, InputRewriteValid DEF Valid, Unresolved
  <2>8. \A n \in MessageIDs : /\ session'.Inputs[n].Phase = session.Inputs[n].Phase
                              /\ session'.Inputs[n].Sequence = session.Inputs[n].Sequence
    BY <1>2, <2>4, <2>6
  <2>9. AttachedValid(session')
    BY <1>1, <2>6, <2>8 DEF Valid, AttachedValid, Captured, InputsIn
  <2> QED BY <2>6, <2>7, <2>8, <2>9 DEF Valid
<1>6. ASSUME NEW p \in OperationIDs, session.Outputs[p].Lease.Live,
             session' = WithOutput(session, p,
                          [session.Outputs[p] EXCEPT !.Lease = [@ EXCEPT !.Live = FALSE]])
      PROVE  /\ session' \in sessionRecord /\ Valid(session')
             /\ session'.NextSequence = session.NextSequence
             /\ session'.Recovery = session.Recovery /\ session'.Inputs = session.Inputs
             /\ \A q \in OperationIDs :
                  /\ session'.Outputs[q].Phase = session.Outputs[q].Phase
                  /\ session'.Outputs[q].Sequence = session.Outputs[q].Sequence
                  /\ session'.Outputs[q].Lease = NoLease => session.Outputs[q].Lease = NoLease
  <2> DEFINE old == session.Outputs[p]
             lease == [old.Lease EXCEPT !.Live = FALSE]
             r == [old EXCEPT !.Lease = lease]
  <2>1. old.Phase = "pending" /\ old.Lease.Owner # ""
    BY <1>1, <1>3, <1>6 DEF LeaseValid
  <2>2. old \in StoredOutput /\ old.Lease \in Lease /\ old.Receipt = ""
    <3>1. old \in StoredOutput
      BY <2>1, SessionOutputs DEF Core
    <3> QED BY <2>1, <3>1, <1>1 DEF StoredOutput, Valid, GuardedValid, ReceiptValid
  <2>3. lease \in Lease /\ lease.Owner # ""
    BY <1>4, <1>6, <2>1, <2>2
  <2> HIDE DEF lease
  <2>4. /\ r \in StoredOutput /\ r.Phase = old.Phase /\ r.Sequence = old.Sequence
        /\ r.Lease = lease /\ r.Receipt = old.Receipt
    BY <2>2, <2>3, OutputLeaseUpdate
  <2>5. session' = WithOutput(session, p, r)
    BY <1>6 DEF lease
  <2> HIDE DEF r
  <2>6. /\ session' \in sessionRecord /\ session'.Outputs = [session.Outputs EXCEPT ![p] = r]
        /\ session'.NextSequence = session.NextSequence
        /\ session'.Inputs = session.Inputs /\ session'.Recovery = session.Recovery
    BY <1>1, <2>4, <2>5, WithOutputFields
  <2>7. session'.Outputs[p] = r /\ \A q \in OperationIDs \ {p} : session'.Outputs[q] = session.Outputs[q]
    BY <1>2, <2>6
  <2>8. lease # NoLease
    <3>1. NoLease.Owner = ""
      BY DEF NoLease
    <3> QED BY <2>3, <3>1
  <2>9. GuardedValid(session')
    <3>1. \A q \in OperationIDs :
            \/ session'.Outputs[q] = session.Outputs[q]
            \/ /\ session.Outputs[q].Phase \in OutputPhases /\ session'.Outputs[q].Phase \in OutputPhases
               /\ session'.Outputs[q].Sequence = session.Outputs[q].Sequence
               /\ \/ session'.Outputs[q].Lease = NoLease
                  \/ (session'.Outputs[q].Phase = "pending" /\ session'.Outputs[q].Lease.Owner # "")
               /\ (session'.Outputs[q].Phase = "confirmed") <=> (session'.Outputs[q].Receipt # "")
      BY <2>1, <2>2, <2>3, <2>4, <2>7 DEF OutputPhases
    <3> QED BY <3>1, <1>1, <2>6, OutputRewriteValid DEF Valid
  <2>10. AttachedValid(session')
    BY <1>1, <2>6 DEF Valid, AttachedValid, Captured, InputsIn
  <2> QED BY <2>1, <2>4, <2>6, <2>7, <2>8, <2>9, <2>10 DEF Valid
<1>7. refused' \subseteq {"attached"} /\ UNCHANGED history
  BY DEF LeaseExpires, Core
<1> QED BY <1>5, <1>6, <1>7 DEF LeaseExpires, CoreNext
=============================================================================
