---------------------------- MODULE InputRecovery ----------------------------
(***************************************************************************)
(* Recovery of one bound session and of its input lane: the supervisor     *)
(* (internal/sessionsupervisor, internal/sessionattachment), the manager   *)
(* that starts it at process start, after a provider exit and in sweeps    *)
(* (internal/supervisioncomposition, internal/sessionrecoverycontrol), the *)
(* reconciliation of accepted inputs with the provider's history           *)
(* (durableflow.ReconcileAcceptedInputs, internal/acceptedrecovery), and   *)
(* crashes of the whole process, all running against DurableFlow.          *)
(*                                                                         *)
(* Modelled are the recovery targets ready, running and stopping, which    *)
(* all return to ready; a closing session is left out.  With SupportsAttach*)
(* the provider's terminal survives and is reattached, otherwise it is     *)
(* restarted.  Control.gate serialises recoveries: there is one rec.       *)
(***************************************************************************)
EXTENDS DurableFlow

CONSTANTS
    Environments,     \* the providers and circumstances considered
    MaxCrashes        \* bound: crashes of the Bria process

ASSUME RecoveryAssumption ==
    /\ Environments \subseteq [SupportsAttach : BOOLEAN, Reachable : BOOLEAN, Conclusive : BOOLEAN,
                               LateCompletions : BOOLEAN]
    /\ MaxCrashes \in Nat

VARIABLES
    env,       \* the provider and the circumstances of this behaviour
    up,        \* the Bria process runs
    token,     \* inputRecoveryToken of the persisted awaiting_recovery state
    used,      \* tokens of earlier awaiting_recovery states, this one included
    rec,       \* the recovery in progress
    barrier,   \* recoverybarrier.Gate: evidence that must change before a retry
    kept,      \* history: inputs an attached boundary left pending
    crashes    \* crashes so far

SupportsAttach == env.SupportsAttach    \* SessionAttacher.SupportsAttach of the provider
Reachable == env.Reachable              \* the terminal and the history can always be read
Conclusive == env.Conclusive            \* finals and failures in the history can always be proven
LateCompletions == env.LateCompletions  \* turns may record their outcome while a recovery runs

NoBarrier == <<>>

recVars == <<up, token, used, rec, barrier, kept, crashes, env>>
allVars == <<flowVars, recVars>>

NoRec == [at |-> "none", by |-> "none", active |-> FALSE, read |-> <<>>, proven |-> "none",
          unknown |-> {}, err |-> "none", revision |-> NoBarrier]

\* RecoveryEvidenceRevision: a digest of the journal's inputs and of the
\* provider's history.
Evidence == <<[m \in MessageIDs |-> <<PhaseOf(m), session.Inputs[m].Lease.Owner>>], native>>

\* The inputs whose hand-off is open: a lease is on record, no acceptance is.
Unaccepted(record) == record.Phase = "pending" /\ record.Lease.Owner # ""

\* The dispatchers run once RecoverStartup has returned.
Serving == up /\ rec.by # "startup"

\* A turn may record its outcome now.
InTime == LateCompletions \/ rec.at \in {"none", "observe"}

-----------------------------------------------------------------------------
(* Crash, process start and the causes of a recovery (Manager).            *)

Stopped ==
    /\ up' = FALSE
    /\ wake' = FALSE /\ fence' = {} /\ worker' = Idle /\ observing' = {} /\ turns' = {}
    /\ rec' = NoRec /\ barrier' = NoBarrier

Crash ==
    /\ up /\ crashes < MaxCrashes
    /\ crashes' = crashes + 1
    /\ Stopped
    /\ NoJournalChange
    /\ UNCHANGED <<status, external, flowHistory, token, used, kept, env>>

\* AwaitRecoveryAt and its Replace: a new StateChangedAt, hence a new token.
AwaitRecovery ==
    /\ status' = "awaiting"
    /\ \E t \in Tokens \ used : token' = t /\ used' = used \cup {t}

Begin(by) == rec' = [NoRec EXCEPT !.at = "begin", !.by = by]

\* A provider that is not attached to has exited: what it has not accepted by
\* then it never will.
ProviderExited ==
    /\ inflight' = IF SupportsAttach THEN inflight ELSE {}
    /\ UNCHANGED <<native, accepts>>

\* RecoverStartup, before the dispatchers run: Watch, or RecoverPersisted.
RecoverStartup ==
    /\ ~up
    /\ up' = TRUE
    /\ \/ status = "live" /\ AwaitRecovery /\ Begin("startup")
       \/ status = "awaiting" /\ Begin("startup") /\ UNCHANGED <<status, token, used>>
       \/ status = "archived" /\ UNCHANGED <<status, token, used, rec>>
    /\ ProviderExited
    /\ NoJournalChange
    /\ UNCHANGED <<dispatch, flowHistory, barrier, kept, crashes, env>>

\* Watch of a live session: its provider, or its observer, is gone.
Watch ==
    /\ up /\ rec.at = "none" /\ status = "live"
    /\ AwaitRecovery
    /\ Begin("watch")
    /\ ProviderExited
    /\ NoJournalChange
    /\ UNCHANGED <<dispatch, flowHistory, up, barrier, kept, crashes, env>>

\* sweep: an awaiting session of an attachable provider is retried once its
\* backoff is over, unless a stable barrier holds and the evidence is the same.
Sweep ==
    /\ up /\ rec.at = "none" /\ status = "awaiting" /\ SupportsAttach
    /\ barrier # Evidence
    /\ Begin("watch")
    /\ barrier' = NoBarrier
    /\ NoJournalChange
    /\ UNCHANGED <<status, dispatch, external, flowHistory, up, token, used, kept, crashes, env>>

\* RecoverSession: the user asks for a recovery.
RecoverSession ==
    /\ up /\ rec.at = "none" /\ status = "awaiting"
    /\ Begin("manual")
    /\ NoJournalChange
    /\ UNCHANGED <<status, dispatch, external, flowHistory, up, token, used, barrier, kept, crashes, env>>

-----------------------------------------------------------------------------
(* One recovery: Supervisor.Watch and RecoverPersisted after awaiting is   *)
(* saved, and sessionattachment.Recover.                                   *)

Goto(at) == rec' = [NoRec EXCEPT !.at = at, !.by = rec.by, !.active = rec.active,
                                 !.unknown = IF at = "continue" THEN rec.unknown ELSE {}]

\* What every step of a recovery leaves alone unless it says otherwise.
RestUnchanged == UNCHANGED <<external, flowHistory, used, token, crashes, env>>

\* The recovery returns an error and the session stays awaiting: Gate.Failed
\* for the manager's own recoveries, and the dispatchers' start after startup.
Blocked(revision) ==
    /\ rec' = NoRec
    /\ barrier' = IF rec.by = "manual" THEN barrier ELSE revision
    /\ wake' = (wake \/ rec.by = "startup")

\* beginInputRecovery; only the startup supervisor is LegacyBlockedRecovery.
BeginStep ==
    LET legacy == rec.by = "startup"
        opens == session.Recovery.Phase = "open"
                 \/ (hasUnresolvedInputs(session) /\ (legacy => hasBlockedSuccessor(session)))
    IN  /\ rec.at = "begin"
        /\ \/ BeginInputRecovery(token, legacy)
           \/ (session.Recovery.Token = token \/ ~opens) /\ NoJournalChange
        /\ rec' = [rec EXCEPT !.at = "attach", !.active = session'.Recovery.Token = token]
        /\ RestUnchanged
        /\ UNCHANGED <<status, dispatch, up, barrier, kept>>

\* What ReconcileAcceptedInputs takes from one read of the journal, and its
\* resolver from one read of the history.
Relevant ==
    {m \in MessageIDs : \/ Unaccepted(session.Inputs[m])
                        \/ PhaseOf(m) \in {"accepted", "unknown", "failed"}}
ReadInputs == [m \in Relevant |-> [was |-> PhaseOf(m), outcome |-> native[m]]]

\* Attach: the terminal is there, cannot be reached now, or is proven gone; a
\* provider without attach goes on directly.  Then the journal and the history
\* are read; an unreadable history is an error once an input asks for it.
AttachStep ==
    /\ rec.at = "attach"
    /\ \/ /\ rec' = [rec EXCEPT !.at = "resolve", !.read = ReadInputs]
          /\ UNCHANGED <<barrier, wake>>
       \/ ~Reachable /\ (SupportsAttach \/ Relevant # {}) /\ Blocked(NoBarrier)
       \/ ~Reachable /\ SupportsAttach /\ Goto("archive") /\ UNCHANGED <<barrier, wake>>
    /\ NoJournalChange
    /\ RestUnchanged
    /\ UNCHANGED <<status, fence, worker, observing, turns, up, kept>>

ResolveAccepted_AbsentBlocks(was, outcome) ==
    CASE outcome = "none" -> {"unverifiable"}
      [] was = "failed" /\ outcome \in {"running", "completed"} -> {"failed"}
      [] was # "failed" /\ outcome = "running" -> {"unknown"}
      [] was # "failed" /\ outcome = "completed" -> {"completed"}
      [] outcome = "failed" -> {"terminal_failed"}

\* ResolveAccepted: what the history says of an input, given the phase it had
\* when the journal was read; a pending one is a lease without an acceptance.
ResolveAccepted(was, outcome) ==
    CASE outcome = "none" -> IF was = "unknown" THEN {"omitted"} ELSE {"unverifiable"}
      [] was = "failed" /\ outcome \in {"running", "completed"} -> {"failed"}
      [] was # "failed" /\ outcome = "running" -> {"unknown"}
      [] was # "failed" /\ outcome = "completed" ->
            {"completed"} \cup (IF Conclusive THEN {} ELSE {"unverifiable"})
      [] outcome = "failed" ->
            {"terminal_failed"} \cup
            (IF Conclusive THEN {}
             ELSE {IF was \in {"accepted", "failed"} THEN "failed" ELSE "unknown",
                   "unverifiable"})

ReconcileNext(m, unknown) ==
    rec' = [rec EXCEPT !.read = [n \in DOMAIN rec.read \ {m} |-> rec.read[n]],
                       !.unknown = @ \cup unknown, !.proven = "none"]
ReconcileStop(unknown, err) ==
    rec' = [rec EXCEPT !.at = "decide", !.read = <<>>, !.proven = "none",
                       !.unknown = @ \cup unknown, !.err = err,
                       !.revision = IF err = "barrier" THEN Evidence ELSE NoBarrier]

\* Inputs are reconciled in sequence order.
ReconcilesNow(m) ==
    /\ rec.at = "resolve" /\ m \in DOMAIN rec.read
    /\ \A n \in DOMAIN rec.read : session.Inputs[m].Sequence <= session.Inputs[n].Sequence

\* ResolveAcceptedInput would change this input.
Resolvable(m, outcome) ==
    \/ PhaseOf(m) \in {"accepted", "unknown"} /\ outcome # "unknown"
    \/ PhaseOf(m) = "failed" /\ outcome = "terminal_failed"

\* ResolveAcceptedInput with a proven outcome; a refused write is an error.
WriteOutcome(m, outcome) ==
    /\ \/ Resolvable(m, outcome) /\ ResolveAcceptedInput(m, outcome)
       \/ ~Resolvable(m, outcome) /\ NoJournalChange
    /\ IF session'.Inputs[m].Phase = outcome
       THEN ReconcileNext(m, {}) ELSE ReconcileStop({}, "other")

\* acceptedinput.Commit of an acceptance the history proves, before its outcome.
WriteAcceptance(m, outcome) ==
    \/ /\ \/ MarkInputAccepted(m, owner)
          \/ /\ PhaseOf(m) \in {"accepted", "completed", "terminal_failed", "failed"}
             /\ NoJournalChange
       /\ rec' = [rec EXCEPT !.proven = outcome]
    \/ /\ \/ PhaseOf(m) \in {"unknown", "skipped"}
          \/ PhaseOf(m) = "pending" /\ ~Acceptable(m)
       /\ NoJournalChange
       /\ ReconcileStop({m}, "other")

\* One input of ReconcileAcceptedInputs.
ReconcileInput(m) ==
    LET was == rec.read[m].was
        keepsUnknown == PhaseOf(m) \in {"accepted", "unknown"}
    IN  /\ ReconcilesNow(m)
        /\ \/ rec.proven # "none" /\ WriteOutcome(m, rec.proven)
           \/ /\ rec.proven = "none"
              /\ \E outcome \in ResolveAccepted(was, rec.read[m].outcome) :
                    \/ /\ outcome = "omitted"
                       /\ IF keepsUnknown THEN ReconcileNext(m, {}) ELSE ReconcileStop({}, "other")
                       /\ NoJournalChange
                    \/ /\ outcome = "unverifiable"
                       /\ ReconcileStop({m}, "barrier")
                       /\ NoJournalChange
                    \/ /\ outcome = "unknown"
                       /\ IF was = "pending" THEN ReconcileStop({m}, "none")
                          ELSE IF keepsUnknown THEN ReconcileNext(m, {m})
                          ELSE ReconcileStop({m}, "other")
                       /\ NoJournalChange
                    \/ /\ outcome \in {"completed", "terminal_failed", "failed"}
                       /\ IF was = "pending" THEN WriteAcceptance(m, outcome)
                          ELSE WriteOutcome(m, outcome)
        /\ RestUnchanged
        /\ UNCHANGED <<status, dispatch, up, barrier, kept>>

\* acceptedcontinuation.Selector.Required on the journal as it is now: "no",
\* "yes", or "error" for an unknown turn without acceptance custody.
Required ==
    LET held == {m \in rec.unknown : PhaseOf(m) \notin {"completed", "terminal_failed", "skipped"}}
        observable == InputsIn(session, {"accepted"}) \cup held
    IN  CASE \E m \in held : PhaseOf(m) \notin {"accepted", "unknown"} -> "error"
          [] observable = {} -> "no"
          [] \E n \in PendingInputs(session) : \A m \in observable :
                session.Inputs[n].Sequence > session.Inputs[m].Sequence -> "no"
          [] OTHER -> "yes"

\* What follows the reconciliation.  Without attach every error and every
\* unknown turn blocks, and so do restart attempts that all fail; with it a
\* stable barrier under an active boundary does not block, and unknown turns
\* are observed unless Required says otherwise.
Decide ==
    LET fails == rec.err # "none" /\ ~(rec.err = "barrier" /\ rec.active)
        need == IF rec.unknown = {} THEN "no" ELSE Required
    IN  /\ rec.at = "decide" \/ (rec.at = "resolve" /\ rec.read = <<>>)
        /\ IF SupportsAttach
           THEN \/ fails /\ Blocked(rec.revision)
                \/ ~fails /\ need = "error" /\ Blocked(NoBarrier)
                \/ /\ ~fails /\ need # "error"
                   /\ Goto(IF need = "yes" THEN "continue" ELSE "commit")
                   /\ UNCHANGED <<barrier, wake>>
           ELSE \/ Blocked(rec.revision)
                \/ /\ rec.err = "none" /\ rec.unknown = {}
                   /\ Goto("commit") /\ UNCHANGED <<barrier, wake>>
        /\ NoJournalChange
        /\ RestUnchanged
        /\ UNCHANGED <<status, fence, worker, observing, turns, up, kept>>

\* The boundary is sealed before the session is published: as skipped when the
\* provider was restarted or is gone, as attached when it was reattached.  A
\* boundary this token sealed the other way is an error, and RecoverStartup
\* passes that error on: the process exits.
Seal(phase) ==
    \/ /\ ~rec.active \/ (session.Recovery.Token = token /\ session.Recovery.Phase = phase)
       /\ NoJournalChange
       /\ UNCHANGED kept
    \/ /\ rec.active /\ phase = "committed"
       /\ CommitInputRecoverySkip(token)
       /\ UNCHANGED kept
    \/ /\ rec.active /\ phase = "attached"
       /\ CommitInputRecoveryAttach(token)
       /\ kept' = kept \cup PendingInputs(session')
Unsealable(phase) ==
    /\ rec.active
    /\ session.Recovery.Token # token \/ session.Recovery.Phase \notin {"open", phase}
SealFails(phase) == Unsealable(phase) /\ NoJournalChange /\ UNCHANGED kept

CommitRecovery_Unsealed ==
    /\ rec.at \in {"commit", "archive"}
    /\ Goto(IF rec.at = "commit" THEN "publish" ELSE "publish archived")
    /\ NoJournalChange
    /\ RestUnchanged
    /\ UNCHANGED <<status, dispatch, up, barrier, kept>>

CommitRecovery ==
    LET phase == IF SupportsAttach /\ rec.at = "commit" THEN "attached" ELSE "committed" IN
    /\ rec.at \in {"commit", "archive"}
    /\ \/ /\ Seal(phase)
          /\ Goto(IF rec.at = "commit" THEN "publish" ELSE "publish archived")
          /\ UNCHANGED <<dispatch, up, barrier>>
       \/ /\ SealFails(phase)
          /\ rec.by # "startup" /\ Blocked(NoBarrier)
          /\ UNCHANGED <<fence, worker, observing, turns, up>>
       \/ SealFails(phase) /\ rec.by = "startup" /\ Stopped
    /\ RestUnchanged
    /\ UNCHANGED status

\* Replace of awaiting by ready, or by archived: then the session is woken.
Publish ==
    /\ \/ rec.at = "publish" /\ status' = "live"
       \/ rec.at = "publish archived" /\ status' = "archived"
    /\ rec' = NoRec /\ barrier' = NoBarrier /\ wake' = TRUE
    /\ NoJournalChange
    /\ RestUnchanged
    /\ UNCHANGED <<fence, worker, observing, turns, up, kept>>

-----------------------------------------------------------------------------
(* Accepted turns observed after a reattach: continueAcceptedTurns and     *)
(* continueAcceptedBatch, synchronous when a boundary must be sealed.      *)

PublishRunning ==
    /\ rec.at = "continue"
    /\ status' = "live"
    /\ rec' = [rec EXCEPT !.at = "observe start"]
    /\ NoJournalChange
    /\ RestUnchanged
    /\ UNCHANGED <<dispatch, up, barrier, kept>>

\* blockAttached: awaiting again, with a new token.
BlockAttached ==
    /\ AwaitRecovery
    /\ rec' = NoRec /\ barrier' = NoBarrier
    /\ wake' = (wake \/ rec.by = "startup")

\* An unknown turn without acceptance custody, or an observer of an earlier
\* binding that has not ended, is an error.  No turn left is a plain success.
ObserveStart ==
    LET held == {m \in rec.unknown : PhaseOf(m) \notin {"completed", "terminal_failed", "skipped"}}
        invalid == \/ \E m \in held : PhaseOf(m) \notin {"accepted", "unknown"}
                   \/ held # {} /\ observing # {}
    IN  /\ rec.at = "observe start"
        /\ \/ invalid /\ BlockAttached /\ UNCHANGED observing
           \/ /\ ~invalid
              /\ observing' = observing \cup held
              /\ IF held # {} /\ rec.active
                 THEN Goto("observe") /\ UNCHANGED <<barrier, wake>>
                 ELSE /\ rec' = NoRec /\ barrier' = NoBarrier
                      /\ wake' = (wake \/ rec.by = "startup")
              /\ UNCHANGED <<status, token, used>>
        /\ NoJournalChange
        /\ UNCHANGED <<external, flowHistory, crashes, env, fence, worker, turns, up, kept>>

Observed(m, outcome) ==
    /\ m \in observing /\ InTime
    /\ \A n \in observing : session.Inputs[m].Sequence <= session.Inputs[n].Sequence
    /\ \/ native[m] = "completed" /\ outcome = "completed"
       \/ native[m] = "failed" /\ outcome = "terminal_failed"
    /\ \/ ResolveAcceptedInput(m, outcome)
       \/ PhaseOf(m) = outcome /\ NoJournalChange
    /\ session'.Inputs[m].Phase = outcome
    /\ observing' = observing \ {m}
    /\ wake' = (wake \/ (observing' = {} /\ rec.at # "observe"))
    /\ RestUnchanged
    /\ UNCHANGED <<status, fence, worker, turns, up, barrier, rec, kept>>

\* The observer is lost, or the failure it saw is not proven terminal: then
\* the input may be recorded failed.
ObserveLost ==
    /\ observing # {}
    /\ observing' = {}
    /\ \/ NoJournalChange
       \/ \E m \in observing : /\ ~Conclusive /\ native[m] = "failed"
                               /\ ResolveAcceptedInput(m, "failed")
    /\ IF rec.at = "observe" THEN BlockAttached
       ELSE UNCHANGED <<status, token, used, rec, barrier, wake>>
    /\ UNCHANGED <<external, flowHistory, crashes, env, fence, worker, turns, up, kept>>

\* Every member is terminal: the boundary is sealed, then the session is ready.
ObserveDone ==
    /\ rec.at = "observe" /\ observing = {}
    /\ Seal("attached")
    /\ rec' = NoRec /\ barrier' = NoBarrier /\ wake' = TRUE
    /\ RestUnchanged
    /\ UNCHANGED <<status, fence, worker, observing, turns, up>>

-----------------------------------------------------------------------------
RecInit ==
    /\ FlowInit
    /\ env \in Environments
    /\ up = TRUE /\ token = "" /\ used = {} /\ rec = NoRec /\ barrier = NoBarrier
    /\ kept = {} /\ crashes = 0

RecoverStep ==
    \/ BeginStep \/ AttachStep \/ Decide
    \/ \E m \in MessageIDs : ReconcileInput(m)
    \/ CommitRecovery \/ Publish
    \/ PublishRunning \/ ObserveStart \/ ObserveLost \/ ObserveDone
    \/ \E m \in MessageIDs, outcome \in {"completed", "terminal_failed"} : Observed(m, outcome)

RecNext ==
    \/ Serving /\ FlowNext /\ UNCHANGED recVars
    \/ /\ up /\ InTime
       /\ \E m \in MessageIDs, outcome \in {"completed", "terminal_failed", "failed"} :
             OnCompleted(m, outcome)
       /\ UNCHANGED recVars
    \/ ProviderNext /\ UNCHANGED recVars
    \/ Crash \/ RecoverStartup \/ Watch \/ Sweep \/ RecoverSession
    \/ RecoverStep

RecSpec == RecInit /\ [][RecNext]_allVars

\* A recovery that has begun goes on, the sweep's timer keeps firing, a stopped
\* process is started again, and a dispatcher goroutine does not rest halfway.
RecFairness ==
    /\ WF_allVars(RecoverStep) /\ WF_allVars(Sweep) /\ WF_allVars(RecoverStartup)
    /\ WF_allVars(Serving /\ DispatcherNext /\ UNCHANGED recVars)

-----------------------------------------------------------------------------
(* Properties.                                                             *)

\* Every variable keeps its type: what the recovery and the dispatcher write to
\* the journal, the session store and their own memory.
RecoveryTypeOK ==
    /\ session \in [NextSequence : Nat, Inputs : [MessageIDs -> inputRecord],
                    Outputs : [OperationIDs -> outputRecord], Recovery : inputRecoveryRecord]
    /\ status \in {"live", "awaiting", "archived"}
    /\ worker.at \in {"idle", "loop", "process", "sent", "observed"}
    /\ {wake, up} \subseteq BOOLEAN
    /\ fence \cup turns \cup observing \cup inflight \cup unsealed \cup kept \subseteq MessageIDs
    /\ native \in [MessageIDs -> {"none", "running", "completed", "failed"}]
    /\ token \in Tokens \cup {""} /\ used \subseteq Tokens
    /\ rec.at \in {"none", "begin", "attach", "resolve", "decide", "commit", "archive",
                   "publish", "publish archived", "continue", "observe start", "observe"}

\* "HandoffUnknown may already have been accepted and is never auto-retried"
\* (flow.go): without an explicit RetryInput, the provider never accepts the
\* same input twice, whatever is lost, late, recovered or restarted.
NoReplay == \A m \in MessageIDs : accepts[m] <= 1

\* The same but for the two ways in which an ambiguous outcome is not on
\* record: its write failed (unsealed), or an attached boundary keeps the input
\* pending and validateSession then refuses the outcome (kept).
NoAutoReplay == \A m \in MessageIDs \ (kept \cup unsealed) : accepts[m] <= 1

\* A session is live again only behind a sealed boundary: when no recovery is
\* running, the journal of a live session has no open boundary, which would
\* refuse every lease (CommitRecovery before Publish, the finalizer of
\* continueAcceptedTurns before ready).  Exempt is a reattached session whose
\* turns report their outcome while it recovers: continueAcceptedTurns returns
\* without the finalizer when it finds no retained turn left.
NoOpenBoundary ==
    status = "live" /\ up /\ rec.at = "none" /\ ~(SupportsAttach /\ LateCompletions)
        => session.Recovery.Phase # "open"

\* A recovery that begins with no hand-off open or on its way ends the awaiting
\* state, or the process goes down first: unknown, failed and accepted inputs,
\* successors and late completions never make it wait forever.
QuietRecoveryEnds ==
    (/\ rec.at = "begin" /\ worker.at = "idle" /\ inflight = {}
     /\ \A m \in MessageIDs : ~Unaccepted(session.Inputs[m]))
        ~> (status # "awaiting" \/ ~up)
=============================================================================
