------------------------ MODULE MessageJournalProofs ------------------------
(***************************************************************************)
(* Proofs about the message journal for every set of identities and every  *)
(* limit: the inductive invariant and the theorems.                        *)
(***************************************************************************)
EXTENDS JournalStepProofs

\* settled and handed record what they are meant to.
Custody ==
    \A m \in MessageIDs :
        /\ session.Inputs[m].Phase \in Settled => m \in settled
        /\ m \in handed => session.Inputs[m].Phase # "absent"

\* Everything at or before an open boundary was there when it was opened.
Cutoff ==
    session.Recovery.Phase = "open" =>
        \A m \in InputsIn(session, InputPhases) : Captured(session, m) => m \in captured

\* A pending, unleased output that was leased before has been retried.
SendHistory ==
    \A p \in OperationIDs :
        /\ session.Outputs[p].Phase = "absent" => p \notin sent
        /\ /\ session.Outputs[p].Phase = "pending"
           /\ session.Outputs[p].Lease = NoLease
           /\ p \in sent
           => p \in retried

InputInv == Custody /\ NoOvertaking
BoundaryInv == Cutoff /\ SkippedWasCaptured
OutputInv == SendHistory /\ SupersededSafely
IInv == Core /\ InputInv /\ BoundaryInv /\ OutputInv

\* Sequences lie between 1 and NextSequence.
LEMMA SequenceBounds ==
    ASSUME Core
    PROVE  /\ session.NextSequence \in Nat
           /\ \A m \in InputsIn(session, InputPhases) :
                session.Inputs[m].Sequence \in 1 .. session.NextSequence
<1>1. SequenceValid(session) /\ session.NextSequence \in Nat
  BY SessionFields DEF Core, TypeOK, Valid, GuardedValid
<1> QED BY <1>1 DEF SequenceValid, InputSequences

\* The phase and the sequence of an input have their types.
LEMMA PhaseTypes ==
    ASSUME TypeOK, NEW m \in MessageIDs
    PROVE  session.Inputs[m].Phase \in InputPhases \cup {"absent"}
           /\ session.Inputs[m].Sequence \in Nat
<1>1. session.Inputs[m] \in inputRecord
  BY SessionFields DEF TypeOK
<1>2. CASE session.Inputs[m] = NoInput
  <2>1. NoInput.Phase = "absent" /\ NoInput.Sequence = 0
    BY DEF NoInput
  <2> QED BY <1>2, <2>1
<1>3. CASE session.Inputs[m] # NoInput
  <2>1. session.Inputs[m] \in StoredInput
    BY <1>1, <1>3 DEF inputRecord, StoredInput
  <2> QED BY <2>1 DEF StoredInput
<1> QED BY <1>2, <1>3

\* The input half of the invariant over a step that keeps the sequences, only
\* tombstones or moves undecided inputs, and records what it settles.
LEMMA InputInvKept ==
    ASSUME InputInv, handed \subseteq MessageIDs, handed' = handed, settled \subseteq settled',
           \A m \in MessageIDs :
              /\ session'.Inputs[m].Sequence = session.Inputs[m].Sequence
              /\ session'.Inputs[m].Phase \in Settled => m \in settled'
              /\ \/ session'.Inputs[m].Phase = session.Inputs[m].Phase
                 \/ /\ session.Inputs[m].Phase \in Unresolved
                    /\ session'.Inputs[m].Phase \in InputPhases
    PROVE  InputInv'
<1>1. Custody'
  BY DEF InputInv, Custody, InputPhases
<1>2. NoOvertaking'
  <2> SUFFICES ASSUME NEW m \in handed', NEW n \in InputsIn(session', InputPhases),
                      session'.Inputs[n].Sequence < session'.Inputs[m].Sequence
               PROVE  n \in settled' \/ session'.Inputs[n].Phase = "skipped"
    BY DEF NoOvertaking
  <2>1. n \in InputsIn(session, InputPhases)
    BY DEF InputsIn, Unresolved, InputPhases
  <2>2. n \in MessageIDs
    BY DEF InputsIn
  <2>3. session'.Inputs[n].Sequence = session.Inputs[n].Sequence
    BY <2>2
  <2>4. session.Inputs[n].Sequence < session.Inputs[m].Sequence
    BY <2>3
  <2>5. n \in settled \/ session.Inputs[n].Phase = "skipped"
    BY <2>1, <2>4 DEF InputInv, NoOvertaking
  <2> QED BY <2>2, <2>5 DEF Unresolved
<1> QED BY <1>1, <1>2 DEF InputInv

\* A new input is later than every other, so it overtakes nothing, and it is
\* behind any open boundary.
LEMMA EnqueueInputInv ==
    ASSUME Core, InputInv, BoundaryInv, NEW m \in MessageIDs, NEW payload \in Payloads,
           EnqueueInput(m, payload)
    PROVE  InputInv' /\ BoundaryInv'
<1>1. /\ CoreNext
      /\ session'.Outputs = session.Outputs /\ session'.Recovery = session.Recovery
      /\ \A n \in MessageIDs \ {m} : session'.Inputs[n] = session.Inputs[n]
      /\ \/ session'.Inputs[m] = session.Inputs[m]
         \/ /\ session'.Inputs[m].Phase = "pending"
            /\ session'.Inputs[m].Sequence = session.NextSequence + 1
            /\ session'.Inputs[m].Lease = NoLease
  BY EnqueueInputStep
<1>2. /\ session.Inputs[m].Phase = "absent" /\ UNCHANGED <<handed, settled, captured>>
      /\ m \notin handed
  BY DEF EnqueueInput, history, InputInv, Custody
<1>3. CASE session'.Inputs[m] = session.Inputs[m]
  <2>1. \A n \in MessageIDs : session'.Inputs[n] = session.Inputs[n]
    BY <1>1, <1>3
  <2> QED BY <2>1, <1>1, <1>2 DEF InputInv, Custody, NoOvertaking, BoundaryInv, Cutoff,
                                SkippedWasCaptured, InputsIn, Captured, Core, TypeOK
<1>4. CASE /\ session'.Inputs[m].Phase = "pending"
           /\ session'.Inputs[m].Sequence = session.NextSequence + 1
  <2>1. Custody'
    BY <1>1, <1>2, <1>4 DEF InputInv, Custody, Settled
  <2>2. NoOvertaking'
    <3> SUFFICES ASSUME NEW h \in handed, NEW n \in InputsIn(session', InputPhases),
                        session'.Inputs[n].Sequence < session'.Inputs[h].Sequence
                 PROVE  n \in settled \/ session'.Inputs[n].Phase = "skipped"
      BY <1>2 DEF NoOvertaking
    <3>1. h # m /\ h \in MessageIDs
      BY <1>2 DEF Core, TypeOK
    <3>2. session'.Inputs[h] = session.Inputs[h]
      BY <1>1, <3>1
    <3>3. h \in InputsIn(session, InputPhases)
      BY <3>1, PhaseTypes DEF InputInv, Custody, InputsIn, Core
    <3>4. session.Inputs[h].Sequence \in 1 .. session.NextSequence /\ session.NextSequence \in Nat
      BY <3>3, SequenceBounds
    <3>5. n # m
      BY <3>2, <3>4, <1>4
    <3>6. n \in InputsIn(session, InputPhases) /\ session'.Inputs[n] = session.Inputs[n]
      BY <3>5, <1>1 DEF InputsIn
    <3> QED BY <3>2, <3>6 DEF InputInv, NoOvertaking
  <2>3. Cutoff'
    <3> SUFFICES ASSUME session.Recovery.Phase = "open", NEW n \in InputsIn(session', InputPhases),
                        Captured(session', n)
                 PROVE  n \in captured
      BY <1>1, <1>2 DEF Cutoff
    <3>1. session.Recovery.ThroughSequence \in 1 .. session.NextSequence
      BY DEF Core, Valid, GuardedValid, BoundaryValid
    <3>2. session.NextSequence \in Nat
      BY SequenceBounds
    <3>3. n # m
      BY <3>1, <3>2, <1>1, <1>4 DEF Captured
    <3>4. n \in InputsIn(session, InputPhases) /\ Captured(session, n)
      BY <3>3, <1>1 DEF InputsIn, Captured
    <3> QED BY <3>4 DEF BoundaryInv, Cutoff
  <2>4. SkippedWasCaptured'
    BY <1>1, <1>2, <1>4 DEF BoundaryInv, SkippedWasCaptured, InputsIn
  <2> QED BY <2>1, <2>2, <2>3, <2>4 DEF InputInv, BoundaryInv
<1> QED BY <1>1, <1>3, <1>4

\* Only the head of the lane is leased: everything before it is settled or
\* tombstoned.
LEMMA LeaseInv ==
    ASSUME Core, InputInv, NEW m \in MessageIDs, NEW owner \in Owners,
           LeaseNextInput(m, owner)
    PROVE  InputInv'
<1>1. OneInput(m) /\ session'.Inputs[m].Phase = session.Inputs[m].Phase
  BY LeaseStep
<1>2. LaneHead(session, m) /\ handed' = handed \cup {m} /\ settled' = settled
  BY DEF LeaseNextInput
<1>3. \A n \in MessageIDs : /\ session'.Inputs[n].Phase = session.Inputs[n].Phase
                            /\ session'.Inputs[n].Sequence = session.Inputs[n].Sequence
  BY <1>1 DEF OneInput
<1>4. Custody'
  BY <1>2, <1>3 DEF InputInv, Custody, LaneHead
<1>5. NoOvertaking'
  <2> SUFFICES ASSUME NEW h \in handed', NEW n \in InputsIn(session', InputPhases),
                      session'.Inputs[n].Sequence < session'.Inputs[h].Sequence
               PROVE  n \in settled \/ session'.Inputs[n].Phase = "skipped"
    BY <1>2 DEF NoOvertaking
  <2>1. h \in MessageIDs /\ n \in MessageIDs /\ n \in InputsIn(session, InputPhases)
    BY <1>2, <1>3 DEF Core, TypeOK, InputsIn
  <2>2. session.Inputs[n].Sequence < session.Inputs[h].Sequence
    BY <2>1, <1>3
  <2>3. CASE h = m
    <3>1. session.Inputs[n].Sequence \in Nat /\ session.Inputs[m].Sequence \in Nat
      BY <2>1, PhaseTypes DEF Core
    <3>2. n \notin InputsIn(session, {"pending", "failed", "unknown"})
      BY <2>2, <2>3, <3>1, <1>2 DEF LaneHead
    <3>3. session.Inputs[n].Phase \in Settled \cup {"skipped"}
      BY <2>1, <3>2 DEF InputsIn, InputPhases, Settled
    <3> QED BY <2>1, <3>3, <1>3 DEF InputInv, Custody
  <2>4. CASE h # m
    BY <2>1, <2>2, <2>4, <1>2, <1>3 DEF InputInv, NoOvertaking
  <2> QED BY <2>3, <2>4
<1> QED BY <1>4, <1>5 DEF InputInv

\* The boundary half of the invariant over a step that moves no boundary,
\* tombstones nothing and adds nothing.
LEMMA BoundaryInvKept ==
    ASSUME BoundaryInv, captured' = captured,
           session'.Recovery = session.Recovery,
           \A m \in MessageIDs :
              /\ session'.Inputs[m].Sequence = session.Inputs[m].Sequence
              /\ \/ session'.Inputs[m].Phase = session.Inputs[m].Phase
                 \/ /\ session.Inputs[m].Phase \in Unresolved
                    /\ session'.Inputs[m].Phase # "skipped"
    PROVE  BoundaryInv'
<1>1. Cutoff'
  <2>1. \A n \in InputsIn(session', InputPhases) : n \in InputsIn(session, InputPhases)
    BY DEF InputsIn, Unresolved, InputPhases
  <2>2. \A n \in InputsIn(session', InputPhases) : Captured(session', n) <=> Captured(session, n)
    BY DEF InputsIn, Captured
  <2> QED BY <2>1, <2>2 DEF BoundaryInv, Cutoff
<1>2. SkippedWasCaptured'
  BY DEF BoundaryInv, SkippedWasCaptured, InputsIn
<1> QED BY <1>1, <1>2 DEF BoundaryInv

\* A step that keeps the phases and sequences of outputs keeps OutputInv.
LEMMA OutputInvKept ==
    ASSUME OutputInv, sent' = sent, retried' = retried,
           \A p \in OperationIDs :
              /\ session'.Outputs[p].Sequence = session.Outputs[p].Sequence
              /\ session'.Outputs[p].Phase = session.Outputs[p].Phase
              /\ session'.Outputs[p].Lease = NoLease => session.Outputs[p].Lease = NoLease
    PROVE  OutputInv'
<1>1. SendHistory'
  BY DEF OutputInv, SendHistory
<1>2. \A phases : OutputsIn(session', phases) = OutputsIn(session, phases)
  BY DEF OutputsIn
<1>3. \A phases : OutputsIn(session, phases) \subseteq OperationIDs
  BY DEF OutputsIn
<1>4. SupersededSafely'
  <2> SUFFICES ASSUME NEW p \in OutputsIn(session', {"superseded"})
               PROVE  /\ \E q \in OutputsIn(session', OutputPhases) :
                            session'.Outputs[q].Sequence > session'.Outputs[p].Sequence
                      /\ p \in sent => p \in retried
    BY DEF SupersededSafely
  <2>1. p \in OutputsIn(session, {"superseded"}) /\ p \in OperationIDs
    BY <1>2, <1>3
  <2>2. PICK q \in OutputsIn(session, OutputPhases) :
          session.Outputs[q].Sequence > session.Outputs[p].Sequence
    BY <2>1 DEF OutputInv, SupersededSafely
  <2>3. q \in OutputsIn(session', OutputPhases) /\ q \in OperationIDs
    BY <1>2, <1>3
  <2>4. session'.Outputs[q].Sequence > session'.Outputs[p].Sequence
    BY <2>1, <2>2, <2>3
  <2> QED BY <2>1, <2>3, <2>4 DEF OutputInv, SupersededSafely
<1> QED BY <1>1, <1>4 DEF OutputInv

\* One step of an operation on inputs.
LEMMA InputNextInv ==
    ASSUME IInv, NEW m \in MessageIDs, InputNext(m)
    PROVE  IInv'
<1>1. /\ Core /\ InputInv /\ BoundaryInv /\ OutputInv
      /\ handed \subseteq MessageIDs /\ settled \subseteq MessageIDs
      /\ captured \subseteq MessageIDs
      /\ sent \subseteq OperationIDs /\ retried \subseteq OperationIDs
  BY DEF IInv, Core, TypeOK
<1>2. ASSUME CoreNext, session'.Outputs = session.Outputs, InputInv', BoundaryInv',
             handed' \subseteq MessageIDs, settled' \subseteq MessageIDs,
             captured' = captured, sent' = sent, retried' = retried
      PROVE  IInv'
  <2>1. OutputInv'
    BY <1>1, <1>2, OutputInvKept
  <2>2. Core'
    BY <1>1, <1>2 DEF Core, CoreNext, TypeOK
  <2> QED BY <1>2, <2>1, <2>2 DEF IInv
<1>3. ASSUME NEW payload \in Payloads, EnqueueInput(m, payload)
      PROVE  IInv'
  <2>1. CoreNext /\ session'.Outputs = session.Outputs
    BY <1>1, <1>3, EnqueueInputStep
  <2>2. InputInv' /\ BoundaryInv'
    BY <1>1, <1>3, EnqueueInputInv
  <2> QED BY <1>1, <1>2, <1>3, <2>1, <2>2 DEF EnqueueInput, history
<1>4. ASSUME NEW owner \in Owners, LeaseNextInput(m, owner)
      PROVE  IInv'
  <2>1. CoreNext /\ OneInput(m) /\ session'.Inputs[m].Phase = session.Inputs[m].Phase
    BY <1>1, <1>4, LeaseStep
  <2>2. InputInv'
    BY <1>1, <1>4, LeaseInv
  <2>3. BoundaryInv'
    BY <1>1, <1>4, <2>1, BoundaryInvKept DEF LeaseNextInput, OneInput
  <2> QED BY <1>1, <1>2, <1>4, <2>1, <2>2, <2>3 DEF LeaseNextInput, OneInput
<1>5. ASSUME NEW owner \in Owners, NEW payload \in Payloads,
             ReplaceLeasedInputPayload(m, owner, payload)
      PROVE  IInv'
  <2>1. CoreNext /\ OneInput(m) /\ session'.Inputs[m].Phase = session.Inputs[m].Phase
    BY <1>1, <1>5, ReplaceStep
  <2>2. UNCHANGED <<handed, settled, captured, sent, retried>>
    BY <1>5 DEF ReplaceLeasedInputPayload, history
  <2>3. \A n \in MessageIDs : /\ session'.Inputs[n].Phase = session.Inputs[n].Phase
                              /\ session'.Inputs[n].Sequence = session.Inputs[n].Sequence
    BY <2>1 DEF OneInput
  <2>4. \A n \in MessageIDs : session'.Inputs[n].Phase \in Settled => n \in settled'
    BY <1>1, <2>2, <2>3 DEF InputInv, Custody
  <2>5. InputInv'
    BY <1>1, <2>2, <2>3, <2>4, InputInvKept
  <2>6. BoundaryInv'
    BY <1>1, <2>1, <2>2, <2>3, BoundaryInvKept DEF OneInput
  <2> QED BY <1>1, <1>2, <2>1, <2>2, <2>5, <2>6 DEF OneInput
<1>6. ASSUME NEW phase \in InputPhases, InputTransition(m, phase)
      PROVE  IInv'
  <2>1. /\ CoreNext /\ OneInput(m)
        /\ \/ session'.Inputs[m] = session.Inputs[m]
           \/ session'.Inputs[m].Phase = phase /\ session'.Inputs[m].Lease = NoLease
    BY <1>1, <1>6, TransitionStep
  <2>2. /\ handed' = handed /\ captured' = captured /\ sent' = sent /\ retried' = retried
        /\ settled' = settled \cup InputsIn(session', Settled)
        /\ session.Inputs[m].Phase \in Unresolved /\ phase # "skipped"
    BY <1>6 DEF InputTransition, transitionInput
  <2>3. \A n \in MessageIDs :
          /\ session'.Inputs[n].Sequence = session.Inputs[n].Sequence
          /\ session'.Inputs[n].Phase \in Settled => n \in settled'
          /\ \/ session'.Inputs[n].Phase = session.Inputs[n].Phase
             \/ /\ session.Inputs[n].Phase \in Unresolved
                /\ session'.Inputs[n].Phase \in InputPhases
                /\ session'.Inputs[n].Phase # "skipped"
    BY <2>1, <2>2 DEF OneInput, InputsIn
  <2>4. InputInv'
    BY <1>1, <2>2, <2>3, InputInvKept
  <2>5. BoundaryInv'
    BY <1>1, <2>1, <2>2, <2>3, BoundaryInvKept DEF OneInput
  <2>6. settled' \subseteq MessageIDs
    BY <1>1, <2>2 DEF InputsIn
  <2> QED BY <1>1, <1>2, <2>1, <2>2, <2>4, <2>5, <2>6 DEF OneInput
<1> QED BY <1>3, <1>4, <1>5, <1>6, InputSteps

\* One step of an operation on recovery boundaries.
LEMMA RecoveryNextInv ==
    ASSUME IInv, NEW token \in Tokens, RecoveryNext(token)
    PROVE  IInv'
<1>1. /\ Core /\ InputInv /\ BoundaryInv /\ OutputInv
      /\ handed \subseteq MessageIDs /\ settled \subseteq MessageIDs
      /\ captured \subseteq MessageIDs
      /\ sent \subseteq OperationIDs /\ retried \subseteq OperationIDs
  BY DEF IInv, Core, TypeOK
<1>2. ASSUME CoreNext, session'.Outputs = session.Outputs, InputInv', BoundaryInv',
             handed' = handed, settled' = settled, captured' \subseteq MessageIDs,
             sent' = sent, retried' = retried
      PROVE  IInv'
  <2>1. OutputInv'
    BY <1>1, <1>2, OutputInvKept
  <2>2. Core'
    BY <1>1, <1>2 DEF Core, CoreNext, TypeOK
  <2> QED BY <1>2, <2>1, <2>2 DEF IInv
<1>3. ASSUME NEW legacy \in BOOLEAN, BeginInputRecovery(token, legacy)
      PROVE  IInv'
  <2>1. /\ CoreNext
        /\ session'.Inputs = session.Inputs /\ session'.Outputs = session.Outputs
        /\ session'.NextSequence = session.NextSequence
        /\ \/ session'.Recovery = session.Recovery /\ captured \subseteq captured'
           \/ /\ session.Recovery.Phase = "open" /\ captured' = captured
              /\ session'.Recovery.ThroughSequence = session.Recovery.ThroughSequence
           \/ captured' = captured \cup InputsIn(session, InputPhases)
    BY <1>1, <1>3, BeginStep
  <2>2. /\ handed' = handed /\ settled' = settled /\ sent' = sent /\ retried' = retried
        /\ captured \subseteq captured' /\ captured' \subseteq captured \cup InputsIn(session, InputPhases)
    BY <1>3 DEF BeginInputRecovery
  <2>3. InputInv'
    <3>1. \A n \in MessageIDs : session'.Inputs[n].Phase \in Settled => n \in settled'
      BY <1>1, <2>1, <2>2 DEF InputInv, Custody
    <3> QED BY <1>1, <2>1, <2>2, <3>1, InputInvKept
  <2>4. Cutoff'
    BY <1>1, <2>1, <2>2 DEF BoundaryInv, Cutoff, InputsIn, Captured
  <2>5. SkippedWasCaptured'
    BY <1>1, <2>1, <2>2 DEF BoundaryInv, SkippedWasCaptured, InputsIn
  <2>6. captured' \subseteq MessageIDs
    BY <1>1, <2>2 DEF InputsIn
  <2> QED BY <1>2, <2>1, <2>2, <2>3, <2>4, <2>5, <2>6 DEF BoundaryInv
<1>4. ASSUME CommitInputRecoverySkip(token) \/ CommitInputRecoveryAttach(token)
      PROVE  IInv'
  <2>1. /\ CoreNext
        /\ session'.Outputs = session.Outputs
        /\ session.Recovery.Phase = "open"
        /\ session'.Recovery = session.Recovery \/ session'.Recovery.Phase # "open"
        /\ \A m \in MessageIDs :
              \/ session'.Inputs[m] = session.Inputs[m]
              \/ /\ session.Inputs[m].Phase \in Unresolved /\ Captured(session, m)
                 /\ session'.Inputs[m].Phase = "skipped"
                 /\ session'.Inputs[m].Sequence = session.Inputs[m].Sequence
                 /\ session'.Inputs[m].Lease = NoLease
    BY <1>1, <1>4, CommitSteps
  <2>2. UNCHANGED <<handed, settled, captured, sent, retried>>
    BY <1>4 DEF CommitInputRecoverySkip, CommitInputRecoveryAttach, SealRecovery, history
  <2>3. InputInv'
    <3>1. \A n \in MessageIDs :
            /\ session'.Inputs[n].Sequence = session.Inputs[n].Sequence
            /\ session'.Inputs[n].Phase \in Settled => n \in settled'
            /\ \/ session'.Inputs[n].Phase = session.Inputs[n].Phase
               \/ /\ session.Inputs[n].Phase \in Unresolved
                  /\ session'.Inputs[n].Phase \in InputPhases
      BY <1>1, <2>1, <2>2 DEF InputInv, Custody, Settled, InputPhases
    <3> QED BY <1>1, <2>2, <3>1, InputInvKept
  <2>4. Cutoff'
    <3> SUFFICES ASSUME session'.Recovery.Phase = "open", NEW n \in InputsIn(session', InputPhases),
                        Captured(session', n)
                 PROVE  n \in captured
      BY <2>2 DEF Cutoff
    <3>1. n \in InputsIn(session, InputPhases) /\ Captured(session, n)
      BY <2>1 DEF InputsIn, Captured, Unresolved, InputPhases
    <3> QED BY <1>1, <2>1, <3>1 DEF BoundaryInv, Cutoff
  <2>5. SkippedWasCaptured'
    <3> SUFFICES ASSUME NEW n \in InputsIn(session', {"skipped"}) PROVE n \in captured
      BY <2>2 DEF SkippedWasCaptured
    <3>1. CASE n \in InputsIn(session, {"skipped"})
      BY <1>1, <3>1 DEF BoundaryInv, SkippedWasCaptured
    <3>2. CASE n \notin InputsIn(session, {"skipped"})
      <4>1. n \in InputsIn(session, InputPhases) /\ Captured(session, n)
        BY <2>1, <3>2 DEF InputsIn, Unresolved, InputPhases
      <4> QED BY <1>1, <2>1, <4>1 DEF BoundaryInv, Cutoff
    <3> QED BY <3>1, <3>2
  <2> QED BY <1>1, <1>2, <2>1, <2>2, <2>3, <2>4, <2>5 DEF BoundaryInv
<1> QED BY <1>3, <1>4 DEF RecoveryNext

\* The empty journal satisfies the invariant.
LEMMA InitInv ==
    ASSUME Init PROVE IInv
<1>1. session.NextSequence = 0 /\ session.Recovery = NoRecovery
      /\ session.Inputs = [m \in MessageIDs |-> NoInput]
      /\ session.Outputs = [p \in OperationIDs |-> NoOutput]
  BY DEF Init
<1>2. /\ \A m \in MessageIDs : session.Inputs[m] = NoInput
      /\ \A p \in OperationIDs : session.Outputs[p] = NoOutput
  BY <1>1
<1>3. /\ NoInput.Phase = "absent" /\ NoInput.Lease = NoLease
      /\ NoOutput.Phase = "absent" /\ NoOutput.Lease = NoLease /\ NoOutput.Receipt = ""
      /\ NoRecovery.Phase = "none"
  BY DEF NoInput, NoOutput, NoRecovery
<1>4. \A phases : "absent" \notin phases => InputsIn(session, phases) = {} /\ OutputsIn(session, phases) = {}
  BY <1>2, <1>3 DEF InputsIn, OutputsIn
<1>5. /\ "absent" \notin InputPhases /\ "absent" \notin OutputPhases
      /\ "absent" \notin Unresolved /\ "absent" \notin Settled
  BY DEF InputPhases, OutputPhases, Unresolved, Settled
<1>6. TypeOK
  <2>1. session \in sessionRecord
    <3>1. NoRecovery \in inputRecoveryRecord
      BY DEF NoRecovery, inputRecoveryRecord, RecoveryPhases
    <3>2. NoInput \in inputRecord /\ NoOutput \in outputRecord
      BY DEF inputRecord, outputRecord
    <3> QED BY <3>1, <3>2 DEF Init, sessionRecord
  <2> QED BY <2>1 DEF Init, TypeOK
<1>7. Valid(session)
  <2>1. BoundaryValid(session) /\ CommittedValid(session) /\ AttachedValid(session)
    BY <1>1, <1>3 DEF BoundaryValid, CommittedValid, AttachedValid
  <2>2. LeaseValid(session) /\ ReceiptValid(session)
    BY <1>2, <1>3 DEF LeaseValid, ReceiptValid
  <2>3. CapacityValid(session)
    <3>1. /\ InputsIn(session, InputPhases) = {} /\ PendingInputs(session) = {}
          /\ OutputsIn(session, OutputPhases) = {}
      BY <1>4, <1>5 DEF PendingInputs
    <3>2. Cardinality({}) = 0
      BY FS_EmptySet
    <3>3. \A n \in Nat : 0 <= n
      OBVIOUS
    <3> QED BY <3>1, <3>2, <3>3, Limits, Zenon DEF CapacityValid
  <2>4. SequenceValid(session)
    BY <1>1, <1>4, <1>5 DEF SequenceValid, InputSequences, OutputSequences
  <2> QED BY <2>1, <2>2, <2>3, <2>4 DEF Valid, GuardedValid
<1>8. InputInv
  BY <1>2, <1>3, <1>5 DEF Init, InputInv, Custody, NoOvertaking
<1>9. BoundaryInv
  BY <1>1, <1>3, <1>4 DEF BoundaryInv, Cutoff, SkippedWasCaptured
<1>10. OutputInv
  <2>1. OutputsIn(session, {"superseded"}) = {}
    BY <1>4
  <2> QED BY <1>2, <1>3, <2>1 DEF Init, OutputInv, SendHistory, SupersededSafely
<1> QED BY <1>6, <1>7, <1>8, <1>9, <1>10 DEF IInv, Core, Init

\* One step of an operation on outputs.
LEMMA OutputNextInv ==
    ASSUME IInv, NEW p \in OperationIDs, OutputNext(p)
    PROVE  IInv'
<1>1. /\ Core /\ InputInv /\ BoundaryInv /\ OutputInv
      /\ handed \subseteq MessageIDs /\ settled \subseteq MessageIDs
      /\ captured \subseteq MessageIDs
      /\ sent \subseteq OperationIDs /\ retried \subseteq OperationIDs
  BY DEF IInv, Core, TypeOK
<1>2. ASSUME CoreNext, session'.Inputs = session.Inputs, session'.Recovery = session.Recovery,
             OutputInv', UNCHANGED <<handed, settled, captured>>,
             sent' \subseteq OperationIDs, retried' \subseteq OperationIDs
      PROVE  IInv'
  <2>1. InputInv'
    <3>1. \A n \in MessageIDs : session'.Inputs[n].Phase \in Settled => n \in settled'
      BY <1>1, <1>2 DEF InputInv, Custody
    <3> QED BY <1>1, <1>2, <3>1, InputInvKept
  <2>2. BoundaryInv'
    BY <1>1, <1>2, BoundaryInvKept
  <2>3. Core'
    BY <1>1, <1>2 DEF Core, CoreNext, TypeOK
  <2> QED BY <1>2, <2>1, <2>2, <2>3 DEF IInv
<1>3. \A phases : OutputsIn(session, phases) \subseteq OperationIDs
  BY DEF OutputsIn
\* Superseded outputs stay superseded by a later one when outputs only change
\* phase, or arrive.
<1>4. ASSUME NEW q \in OperationIDs, session.Outputs[q].Phase = "superseded",
             \A k \in OperationIDs :
                session.Outputs[k].Phase \in OutputPhases =>
                    /\ session'.Outputs[k].Phase \in OutputPhases
                    /\ session'.Outputs[k].Sequence = session.Outputs[k].Sequence
      PROVE  \E k \in OutputsIn(session', OutputPhases) :
                session'.Outputs[k].Sequence > session'.Outputs[q].Sequence
  <2>1. PICK k \in OutputsIn(session, OutputPhases) :
          session.Outputs[k].Sequence > session.Outputs[q].Sequence
    BY <1>1, <1>4 DEF OutputInv, SupersededSafely, OutputsIn
  <2>2. k \in OutputsIn(session', OutputPhases)
    BY <1>4 DEF OutputsIn
  <2>3. k \in OperationIDs /\ session.Outputs[k].Phase \in OutputPhases
    BY DEF OutputsIn
  <2>4. session'.Outputs[k].Sequence = session.Outputs[k].Sequence
    BY <1>4, <2>3
  <2>5. session'.Outputs[q].Sequence = session.Outputs[q].Sequence
    BY <1>4 DEF OutputPhases
  <2> QED BY <2>1, <2>2, <2>4, <2>5
<1>5. ASSUME NEW kind \in Kinds, EnqueueOutput(p, kind)
      PROVE  IInv'
  <2>1. /\ CoreNext
        /\ session'.Inputs = session.Inputs /\ session'.Recovery = session.Recovery
        /\ \A q \in OperationIDs \ {p} : session'.Outputs[q] = session.Outputs[q]
        /\ \/ session'.Outputs[p] = session.Outputs[p]
           \/ /\ session'.Outputs[p].Phase = "pending"
              /\ session'.Outputs[p].Lease = NoLease
    BY <1>1, <1>5, EnqueueOutputStep
  <2>2. /\ session.Outputs[p].Phase = "absent"
        /\ UNCHANGED <<handed, settled, captured, sent, retried>>
    BY <1>5 DEF EnqueueOutput, history
  <2>3. SendHistory'
    BY <1>1, <2>1, <2>2 DEF OutputInv, SendHistory
  <2>4. \A k \in OperationIDs :
          session.Outputs[k].Phase \in OutputPhases =>
            /\ session'.Outputs[k].Phase \in OutputPhases
            /\ session'.Outputs[k].Sequence = session.Outputs[k].Sequence
    BY <2>1, <2>2 DEF OutputPhases
  <2>5. \A q \in OutputsIn(session', {"superseded"}) :
          q \in OperationIDs /\ session.Outputs[q].Phase = "superseded"
    BY <2>1, <2>2 DEF OutputsIn
  <2>6. SupersededSafely'
    BY <1>1, <1>4, <2>2, <2>4, <2>5 DEF OutputInv, SupersededSafely, OutputsIn
  <2> QED BY <1>1, <1>2, <2>1, <2>2, <2>3, <2>6 DEF OutputInv
<1>6. ASSUME NEW owner \in Owners, LeaseNextOutput(p, owner)
      PROVE  IInv'
  <2>1. /\ CoreNext /\ OutputsOnly
        /\ session.Outputs[p].Phase = "pending"
        /\ session'.Outputs[p].Phase = "pending" /\ session'.Outputs[p].Lease # NoLease
        /\ \A q \in OperationIDs \ {p} : session'.Outputs[q] = session.Outputs[q]
    BY <1>1, <1>6, OutputLeaseStep
  <2>2. sent' = sent \cup {p} /\ UNCHANGED <<handed, settled, captured, retried>>
    BY <1>6 DEF LeaseNextOutput
  <2>3. SendHistory'
    BY <1>1, <2>1, <2>2 DEF OutputInv, SendHistory
  <2>4. \A k \in OperationIDs :
          session.Outputs[k].Phase \in OutputPhases =>
            /\ session'.Outputs[k].Phase \in OutputPhases
            /\ session'.Outputs[k].Sequence = session.Outputs[k].Sequence
    BY <2>1 DEF OutputsOnly
  <2>5. \A q \in OutputsIn(session', {"superseded"}) :
          q \in OperationIDs /\ session.Outputs[q].Phase = "superseded" /\ q # p
    BY <2>1 DEF OutputsIn
  <2>6. SupersededSafely'
    BY <1>1, <1>4, <2>2, <2>4, <2>5 DEF OutputInv, SupersededSafely, OutputsIn
  <2> QED BY <1>1, <1>2, <2>1, <2>2, <2>3, <2>6 DEF OutputInv, OutputsOnly
<1>7. ASSUME NEW wanted \in SUBSET Kinds, SupersedePendingOutputs(p, wanted)
      PROVE  IInv'
  <2>1. /\ CoreNext /\ OutputsOnly
        /\ \A q \in OperationIDs :
             \/ session'.Outputs[q] = session.Outputs[q]
             \/ /\ session.Outputs[q].Phase = "pending" /\ session.Outputs[q].Lease = NoLease
                /\ session'.Outputs[q].Phase = "superseded"
                /\ session'.Outputs[q].Lease = NoLease
                /\ session.Outputs[q].Sequence < session.Outputs[p].Sequence
                /\ session.Outputs[p].Phase # "absent"
    BY <1>1, <1>7, SupersedeStep
  <2>2. UNCHANGED <<handed, settled, captured, sent, retried>>
    BY <1>7 DEF SupersedePendingOutputs, history
  <2>3. SendHistory'
    BY <1>1, <2>1, <2>2 DEF OutputInv, SendHistory
  <2>4. \A k \in OperationIDs :
          session.Outputs[k].Phase \in OutputPhases =>
            /\ session'.Outputs[k].Phase \in OutputPhases
            /\ session'.Outputs[k].Sequence = session.Outputs[k].Sequence
    <3>1. "superseded" \in OutputPhases
      BY Zenon DEF OutputPhases
    <3> QED BY <2>1, <3>1 DEF OutputsOnly
  <2>5. ASSUME NEW q \in OutputsIn(session', {"superseded"})
        PROVE  /\ \E k \in OutputsIn(session', OutputPhases) :
                     session'.Outputs[k].Sequence > session'.Outputs[q].Sequence
               /\ q \in sent => q \in retried
    <3>1. q \in OperationIDs /\ session'.Outputs[q].Phase = "superseded"
      BY <2>5 DEF OutputsIn
    <3>2. CASE session'.Outputs[q] = session.Outputs[q]
      BY <1>1, <1>4, <2>4, <3>1, <3>2 DEF OutputInv, SupersededSafely, OutputsIn
    <3>3. CASE session'.Outputs[q] # session.Outputs[q]
      <4>1. /\ session.Outputs[q].Phase = "pending" /\ session.Outputs[q].Lease = NoLease
            /\ session.Outputs[q].Sequence < session.Outputs[p].Sequence
            /\ session.Outputs[p].Phase # "absent"
        BY <2>1, <3>1, <3>3
      <4>2. session.Outputs[p].Phase \in OutputPhases
        <5>1. session.Outputs[p] \in StoredOutput
          BY <1>1, <4>1, SessionOutputs DEF Core
        <5> QED BY <5>1 DEF StoredOutput
      <4>3. p \in OutputsIn(session', OutputPhases)
        BY <2>4, <4>2 DEF OutputsIn
      <4>4. /\ session.Outputs[q].Sequence \in Nat /\ session.Outputs[p].Sequence \in Nat
            /\ session'.Outputs[q].Sequence = session.Outputs[q].Sequence
            /\ session'.Outputs[p].Sequence = session.Outputs[p].Sequence
        <5>1. session.Outputs[q] \in StoredOutput /\ session.Outputs[p] \in StoredOutput
          BY <1>1, <3>1, <4>1, SessionOutputs DEF Core
        <5> QED BY <2>1, <3>1, <5>1 DEF OutputsOnly, StoredOutput
      <4>5. session'.Outputs[p].Sequence > session'.Outputs[q].Sequence
        BY <4>1, <4>4
      <4>6. q \in sent => q \in retried
        BY <1>1, <3>1, <4>1 DEF OutputInv, SendHistory
      <4> QED BY <4>3, <4>5, <4>6
    <3> QED BY <3>2, <3>3
  <2>6. SupersededSafely'
    BY <2>2, <2>5 DEF SupersededSafely
  <2> QED BY <1>1, <1>2, <2>1, <2>2, <2>3, <2>6 DEF OutputInv, OutputsOnly
<1>8. ASSUME NEW phase \in OutputPhases, NEW receipt \in Receipts \cup {""},
             phase # "superseded",
             (phase = "confirmed") <=> (receipt # ""),
             session.Outputs[p].Phase \in {"pending", "failed", "unknown"},
             transitionOutput(p, phase, receipt),
             UNCHANGED <<handed, settled, captured, sent>>,
             retried \subseteq retried', retried' \subseteq retried \cup {p},
             phase = "pending" => p \in retried'
      PROVE  IInv'
  <2>1. /\ CoreNext /\ OutputsOnly
        /\ \A q \in OperationIDs \ {p} : session'.Outputs[q] = session.Outputs[q]
        /\ \/ session'.Outputs[p] = session.Outputs[p]
           \/ session'.Outputs[p].Phase = phase /\ session'.Outputs[p].Lease = NoLease
    BY <1>1, <1>8, OutputTransitionStep DEF OutputPhases
  <2>2. SendHistory'
    BY <1>1, <1>8, <2>1 DEF OutputInv, SendHistory, OutputPhases
  <2>3. \A k \in OperationIDs :
          session.Outputs[k].Phase \in OutputPhases =>
            /\ session'.Outputs[k].Phase \in OutputPhases
            /\ session'.Outputs[k].Sequence = session.Outputs[k].Sequence
    BY <1>8, <2>1 DEF OutputsOnly
  <2>4. \A q \in OutputsIn(session', {"superseded"}) :
          q \in OperationIDs /\ session.Outputs[q].Phase = "superseded"
    BY <1>8, <2>1 DEF OutputsIn
  <2>5. SupersededSafely'
    BY <1>1, <1>4, <1>8, <2>3, <2>4 DEF OutputInv, SupersededSafely, OutputsIn
  <2> QED BY <1>1, <1>2, <1>8, <2>1, <2>2, <2>5 DEF OutputInv, OutputsOnly
<1> QED BY <1>5, <1>6, <1>7, <1>8, OutputSteps

\* A lease expiring changes neither phases nor sequences.
LEMMA LeaseExpiresInv ==
    ASSUME IInv, LeaseExpires
    PROVE  IInv'
<1>1. /\ Core /\ InputInv /\ BoundaryInv /\ OutputInv
      /\ handed \subseteq MessageIDs
  BY DEF IInv, Core, TypeOK
<1>2. /\ CoreNext /\ UNCHANGED history
      /\ session'.Recovery = session.Recovery
      /\ \A m \in MessageIDs :
            /\ session'.Inputs[m].Phase = session.Inputs[m].Phase
            /\ session'.Inputs[m].Sequence = session.Inputs[m].Sequence
      /\ \A p \in OperationIDs :
            /\ session'.Outputs[p].Phase = session.Outputs[p].Phase
            /\ session'.Outputs[p].Sequence = session.Outputs[p].Sequence
            /\ session'.Outputs[p].Lease = NoLease => session.Outputs[p].Lease = NoLease
  BY <1>1, LeaseExpiresStep
<1>3. UNCHANGED <<handed, settled, captured, sent, retried>>
  BY <1>2 DEF history
<1>4. Core'
  BY <1>1, <1>2, <1>3 DEF Core, CoreNext, TypeOK
<1>5. InputInv'
  <2>1. \A n \in MessageIDs : session'.Inputs[n].Phase \in Settled => n \in settled'
    BY <1>1, <1>2, <1>3 DEF InputInv, Custody
  <2> QED BY <1>1, <1>2, <1>3, <2>1, InputInvKept
<1>6. BoundaryInv'
  BY <1>1, <1>2, <1>3, BoundaryInvKept
<1>7. OutputInv'
  BY <1>1, <1>2, <1>3, OutputInvKept
<1> QED BY <1>4, <1>5, <1>6, <1>7 DEF IInv

\* A step that changes no variable keeps everything.
LEMMA StutterInv ==
    ASSUME IInv, UNCHANGED vars
    PROVE  IInv'
<1>1. /\ session' = session /\ refused' = refused
      /\ handed' = handed /\ settled' = settled /\ captured' = captured
      /\ sent' = sent /\ retried' = retried
  BY DEF vars, history
<1>2. Core'
  BY <1>1 DEF IInv, Core, TypeOK
<1>3. InputInv'
  BY <1>1 DEF IInv, InputInv, Custody, NoOvertaking
<1>4. BoundaryInv'
  BY <1>1 DEF IInv, BoundaryInv, Cutoff, SkippedWasCaptured
<1>5. OutputInv'
  BY <1>1 DEF IInv, OutputInv, SendHistory, SupersededSafely
<1> QED BY <1>2, <1>3, <1>4, <1>5 DEF IInv

\* IInv is an inductive invariant of the journal: it holds of the empty
\* journal and every operation of every caller keeps it.
THEOREM Invariance == Spec => []IInv
<1>1. Init => IInv
  BY InitInv
<1>2. IInv /\ [Next]_vars => IInv'
  <2> SUFFICES ASSUME IInv, [Next]_vars PROVE IInv'
    OBVIOUS
  <2>1. ASSUME NEW m \in MessageIDs, InputNext(m) PROVE IInv'
    BY <2>1, InputNextInv
  <2>2. ASSUME NEW token \in Tokens, RecoveryNext(token) PROVE IInv'
    BY <2>2, RecoveryNextInv
  <2>3. ASSUME NEW p \in OperationIDs, OutputNext(p) PROVE IInv'
    BY <2>3, OutputNextInv
  <2>4. CASE LeaseExpires
    BY <2>4, LeaseExpiresInv
  <2>5. CASE UNCHANGED vars
    BY <2>5, StutterInv
  <2> QED BY <2>1, <2>2, <2>3, <2>4, <2>5 DEF Next
<1> QED BY <1>1, <1>2, PTL DEF Spec

\* Type correctness: every record the journal ever writes has its shape.
THEOREM TypeCorrect == Spec => []TypeOK
<1>1. IInv => TypeOK
  BY DEF IInv, Core
<1> QED BY <1>1, Invariance, PTL

\* The guards of the operations imply validateSession, but for the clause on
\* attached boundaries: no other clause ever rejects a computed record.
THEOREM ValidationNeverSurprises == Spec => []GuardsImplyValidation
<1>1. IInv => GuardsImplyValidation
  BY DEF IInv, Core, GuardsImplyValidation
<1> QED BY <1>1, Invariance, PTL

\* FIFO custody: no input is handed out before each earlier one is accepted,
\* has its outcome or is tombstoned.
THEOREM LaneOrder == Spec => []NoOvertaking
<1>1. IInv => NoOvertaking
  BY DEF IInv, InputInv
<1> QED BY <1>1, Invariance, PTL

\* The cutoff of a recovery boundary never widens: whatever is tombstoned was
\* in the journal when the boundary was opened.
THEOREM CutoffIsExact == Spec => []SkippedWasCaptured
<1>1. IInv => SkippedWasCaptured
  BY DEF IInv, BoundaryInv
<1> QED BY <1>1, Invariance, PTL

\* A sealed boundary never has an ambiguous input behind it.
THEOREM BoundaryStaysClean == Spec => []SealedBoundaryClean
<1>1. IInv => SealedBoundaryClean
  BY DEF IInv, Core, Valid, GuardedValid, SealedBoundaryClean
<1> QED BY <1>1, Invariance, PTL

\* Outputs are superseded only in favour of later ones, and never while the
\* outcome of an earlier send is open.
THEOREM SupersessionSafe == Spec => []SupersededSafely
<1>1. IInv => SupersededSafely
  BY DEF IInv, OutputInv
<1> QED BY <1>1, Invariance, PTL

\* No operation on an input disturbs a recorded outcome.
LEMMA InputOutcomes ==
    ASSUME IInv, NEW m \in MessageIDs, InputNext(m)
    PROVE  OutcomesKept
<1>1. Core
  BY DEF IInv
<1>2. ASSUME NEW payload \in Payloads, EnqueueInput(m, payload)
      PROVE  OutcomesKept
  <2>1. session.Inputs[m].Phase = "absent"
    BY <1>2 DEF EnqueueInput
  <2> QED BY <1>1, <1>2, <2>1, EnqueueInputStep DEF OutcomesKept
<1>3. ASSUME NEW owner \in Owners, LeaseNextInput(m, owner)
      PROVE  OutcomesKept
  <2>1. session.Inputs[m].Phase = "pending"
    BY <1>3 DEF LeaseNextInput, LaneHead
  <2> QED BY <1>1, <1>3, <2>1, LeaseStep DEF OutcomesKept, OneInput
<1>4. ASSUME NEW owner \in Owners, NEW payload \in Payloads,
             ReplaceLeasedInputPayload(m, owner, payload)
      PROVE  OutcomesKept
  <2>1. session.Inputs[m].Phase = "pending"
    BY <1>4 DEF ReplaceLeasedInputPayload, LeasedBy
  <2> QED BY <1>1, <1>4, <2>1, ReplaceStep DEF OutcomesKept, OneInput
<1>5. ASSUME NEW phase \in InputPhases, InputTransition(m, phase)
      PROVE  OutcomesKept
  <2>1. /\ session.Inputs[m].Phase \in Unresolved
        /\ phase = "pending" => session.Inputs[m].Phase # "accepted"
    BY <1>5 DEF InputTransition
  <2> QED BY <1>1, <1>5, <2>1, TransitionStep DEF OutcomesKept, OneInput, Unresolved
<1> QED BY <1>2, <1>3, <1>4, <1>5, InputSteps

\* No operation on a recovery boundary does.
LEMMA RecoveryOutcomes ==
    ASSUME IInv, NEW token \in Tokens, RecoveryNext(token)
    PROVE  OutcomesKept
<1>1. Core
  BY DEF IInv
<1>2. ASSUME NEW legacy \in BOOLEAN, BeginInputRecovery(token, legacy)
      PROVE  OutcomesKept
  BY <1>1, <1>2, BeginStep DEF OutcomesKept
<1>3. ASSUME CommitInputRecoverySkip(token) \/ CommitInputRecoveryAttach(token)
      PROVE  OutcomesKept
  <2>1. /\ session'.Outputs = session.Outputs
        /\ \A m \in MessageIDs :
             \/ session'.Inputs[m] = session.Inputs[m]
             \/ session.Inputs[m].Phase \in Unresolved /\ session'.Inputs[m].Phase = "skipped"
    BY <1>1, <1>3, CommitSteps
  <2> QED BY <2>1 DEF OutcomesKept, Unresolved
<1> QED BY <1>2, <1>3 DEF RecoveryNext

\* No operation on an output does.
LEMMA OutputOutcomes ==
    ASSUME IInv, NEW p \in OperationIDs, OutputNext(p)
    PROVE  OutcomesKept
<1>1. Core
  BY DEF IInv
<1>2. ASSUME NEW kind \in Kinds, EnqueueOutput(p, kind)
      PROVE  OutcomesKept
  <2>1. session.Outputs[p].Phase = "absent"
    BY <1>2 DEF EnqueueOutput
  <2> QED BY <1>1, <1>2, <2>1, EnqueueOutputStep DEF OutcomesKept
<1>3. ASSUME NEW owner \in Owners, LeaseNextOutput(p, owner)
      PROVE  OutcomesKept
  BY <1>1, <1>3, OutputLeaseStep DEF OutcomesKept, OutputsOnly
<1>4. ASSUME NEW wanted \in SUBSET Kinds, SupersedePendingOutputs(p, wanted)
      PROVE  OutcomesKept
  <2>1. /\ OutputsOnly
        /\ \A q \in OperationIDs :
             session'.Outputs[q] = session.Outputs[q] \/ session.Outputs[q].Phase = "pending"
    BY <1>1, <1>4, SupersedeStep
  <2> QED BY <2>1 DEF OutcomesKept, OutputsOnly
<1>5. ASSUME NEW phase \in OutputPhases, NEW receipt \in Receipts \cup {""},
             (phase = "confirmed") <=> (receipt # ""),
             session.Outputs[p].Phase \in {"pending", "failed", "unknown"},
             transitionOutput(p, phase, receipt)
      PROVE  OutcomesKept
  <2>1. session.Outputs[p].Phase \in OutputPhases
    BY <1>5 DEF OutputPhases
  <2>2. /\ OutputsOnly
        /\ \A q \in OperationIDs \ {p} : session'.Outputs[q] = session.Outputs[q]
    BY <1>1, <1>5, <2>1, OutputTransitionStep
  <2> QED BY <1>5, <2>2 DEF OutcomesKept, OutputsOnly
<1> QED BY <1>2, <1>3, <1>4, <1>5, OutputSteps

\* Only pending records have a lease to lose.
LEMMA LeaseExpiresOutcomes ==
    ASSUME IInv, LeaseExpires
    PROVE  OutcomesKept
<1>1. LeaseValid(session) /\ session \in sessionRecord
  BY DEF IInv, Core, Valid, GuardedValid, TypeOK
<1>2. /\ session.Inputs \in [MessageIDs -> inputRecord]
      /\ session.Outputs \in [OperationIDs -> outputRecord]
  BY <1>1, SessionFields
<1>3. NoLease.Live = FALSE
  BY DEF NoLease
<1>4. ASSUME NEW m \in MessageIDs, session.Inputs[m].Lease.Live, NEW r,
             session' = WithInput(session, m, r), r.Phase = "pending"
      PROVE  OutcomesKept
  <2>1. session.Inputs[m].Phase = "pending"
    BY <1>1, <1>3, <1>4 DEF LeaseValid
  <2>2. /\ session'.Outputs = session.Outputs
        /\ \A n \in MessageIDs \ {m} : session'.Inputs[n] = session.Inputs[n]
    BY <1>1, <1>2, <1>4 DEF WithInput, sessionRecord
  <2> QED BY <2>1, <2>2 DEF OutcomesKept
<1>5. ASSUME NEW p \in OperationIDs, session.Outputs[p].Lease.Live, NEW r,
             session' = WithOutput(session, p, r)
      PROVE  OutcomesKept
  <2>1. session.Outputs[p].Phase = "pending"
    BY <1>1, <1>3, <1>5 DEF LeaseValid
  <2>2. /\ session'.Inputs = session.Inputs
        /\ \A q \in OperationIDs \ {p} : session'.Outputs[q] = session.Outputs[q]
    BY <1>1, <1>2, <1>5 DEF WithOutput, sessionRecord
  <2> QED BY <2>1, <2>2 DEF OutcomesKept
<1>6. ASSUME NEW m \in MessageIDs, session.Inputs[m].Lease.Live,
             session' = WithInput(session, m,
                          [session.Inputs[m] EXCEPT !.Lease = [@ EXCEPT !.Live = FALSE]])
      PROVE  OutcomesKept
  <2>1. session.Inputs[m].Phase = "pending"
    BY <1>1, <1>3, <1>6 DEF LeaseValid
  <2>2. session.Inputs[m] \in StoredInput
    BY <2>1, SessionInputs DEF IInv, Core
  <2>3. [session.Inputs[m] EXCEPT !.Lease = [@ EXCEPT !.Live = FALSE]].Phase = "pending"
    BY <2>1, <2>2 DEF StoredInput
  <2> QED BY <1>4, <1>6, <2>3
<1> QED BY <1>5, <1>6 DEF LeaseExpires

\* A recorded outcome is final: completed, terminally failed and skipped
\* inputs and confirmed and superseded outputs keep their records for ever.
THEOREM FinalOutcomes == Spec => OutcomesAreFinal
<1>1. IInv /\ [Next]_vars => [OutcomesKept]_vars
  <2> SUFFICES ASSUME IInv, Next PROVE OutcomesKept
    OBVIOUS
  <2> QED BY InputOutcomes, RecoveryOutcomes, OutputOutcomes, LeaseExpiresOutcomes DEF Next
<1> QED BY <1>1, Invariance, PTL DEF Spec, OutcomesAreFinal
=============================================================================
