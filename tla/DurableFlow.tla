----------------------------- MODULE DurableFlow -----------------------------
(***************************************************************************)
(* internal/durableflow over internal/messagejournal: how one session's    *)
(* dispatcher goroutine (durablecomposition.InputDispatcher) takes the     *)
(* head of the input lane, hands it to the provider through the turn       *)
(* processor, and records what it learned.  The in-memory acceptance fence *)
(* (internal/acceptedinput) keeps an acknowledged input from being leased  *)
(* again when the acceptance could not be written.                         *)
(*                                                                         *)
(* The provider is external: an inflight input is accepted at any later    *)
(* time or never, whatever Bria concluded in between.  A journal write by  *)
(* the dispatcher may fail (Fault), at most MaxFaults times.  Status       *)
(* "live" stands for ready and running, the two statuses                   *)
(* ProcessReadySession dispatches in.                                      *)
(***************************************************************************)
EXTENDS MessageJournal

CONSTANTS
    owner,       \* Options.Owner: the computer's name, the same after a restart
    None,        \* no message
    MaxFaults    \* bound: journal writes of the dispatcher that fail

ASSUME FlowAssumption ==
    /\ owner \in Owners
    /\ None \notin MessageIDs
    /\ MaxFaults \in Nat

VARIABLES
    status,      \* the session's status in the session store
    wake,        \* a dispatch hint waits in the session's wake channel
    fence,       \* Fence.blocked: acknowledged, acceptance not yet written
    worker,      \* the dispatcher goroutine of the session
    observing,   \* accepted turns of an earlier binding that are being observed
    turns,       \* accepted turns whose OnCompleted callback is still held
    inflight,    \* inputs on their way to the provider
    native,      \* the provider's own history of each input
    accepts,     \* history: how often the provider accepted each input
    unsealed,    \* history: inputs whose ambiguous outcome could not be written
    faults       \* failed writes so far

dispatch == <<wake, fence, worker, observing, turns>>
external == <<inflight, native, accepts>>
flowHistory == <<unsealed, faults>>
flowVars == <<vars, status, dispatch, external, flowHistory>>

Idle == [at |-> "idle", msg |-> None, before |-> 0]

\* What a journal operation left behind: unchanged when it returned an error.
NoJournalChange == UNCHANGED vars

PhaseOf(m) == session.Inputs[m].Phase

\* The journal would grant the lease, or take the acceptance, of this input.
Leasable(m) ==
    session.Recovery.Phase # "open" /\ LaneHead(session, m) /\ ~session.Inputs[m].Lease.Live
Acceptable(m) ==
    LeasedBy(m, owner) /\ ~(session.Recovery.Phase = "open" /\ Captured(session, m))

-----------------------------------------------------------------------------
(* durablecomposition.InputCustody and InputDispatcher.                    *)

\* Accept: the input is durable before the hint is given.
Accept(m, payload) ==
    /\ EnqueueInput(m, payload)
    /\ wake' = TRUE
    /\ UNCHANGED <<status, fence, worker, observing, turns, external, flowHistory>>

\* ProcessReadySession: the status is read once, before the loop.
ProcessReadySession ==
    /\ worker.at = "idle" /\ wake
    /\ wake' = FALSE
    /\ worker' = IF status = "live" THEN [worker EXCEPT !.at = "loop"] ELSE worker
    /\ NoJournalChange
    /\ UNCHANGED <<status, fence, observing, turns, external, flowHistory>>

\* Fenced inputs whose acceptance the journal does not show yet.
Uncommitted ==
    {m \in fence : PhaseOf(m) \notin {"accepted", "completed", "terminal_failed", "skipped"}}

FenceLease_Unfenced(m) ==
    /\ worker.at = "loop"
    /\ LeaseNextInput(m, owner)
    /\ fence' = {}
    /\ worker' = [at |-> "process", msg |-> m, before |-> accepts[m]]
    /\ UNCHANGED <<status, wake, observing, turns, external, flowHistory>>

\* Fence.Lease of the next input, under the fence's mutex.
FenceLease(m) ==
    /\ worker.at = "loop"
    /\ Uncommitted = {}
    /\ LeaseNextInput(m, owner)
    /\ fence' = {}
    /\ worker' = [at |-> "process", msg |-> m, before |-> accepts[m]]
    /\ UNCHANGED <<status, wake, observing, turns, external, flowHistory>>

\* ErrNoAvailable or ErrUncommitted: the goroutine goes back to its channel.
\* The keys seen before an uncommitted one (map order) have been deleted.
NothingToLease ==
    /\ worker.at = "loop"
    /\ \/ Uncommitted # {} /\ fence' \in {f \in SUBSET fence : Uncommitted \subseteq f}
       \/ /\ Uncommitted = {} /\ fence' = {}
          /\ \A m \in MessageIDs : ~Leasable(m)
    /\ worker' = Idle
    /\ NoJournalChange
    /\ UNCHANGED <<status, wake, observing, turns, external, flowHistory>>

-----------------------------------------------------------------------------
(* Flow.ProcessNextInput after the lease.                                  *)

\* A write of the dispatcher fails at the file system.
Fault ==
    /\ faults < MaxFaults
    /\ faults' = faults + 1
    /\ NoJournalChange

\* The processor deferred before any hand-off began: ReleaseInputLease.
Deferred ==
    /\ worker.at = "process"
    /\ \/ ReleaseInputLease(worker.msg, owner) /\ UNCHANGED faults
       \/ ~LeasedBy(worker.msg, owner) /\ NoJournalChange /\ UNCHANGED faults
       \/ LeasedBy(worker.msg, owner) /\ Fault
    /\ worker' = Idle
    /\ UNCHANGED <<status, wake, fence, observing, turns, external, unsealed>>

\* OnPrepared: the preprocessed payload is durable before any hand-off.
OnPrepared(payload) ==
    /\ worker.at = "process"
    /\ ReplaceLeasedInputPayload(worker.msg, owner, payload)
    /\ UNCHANGED <<status, dispatch, external, flowHistory>>

\* The processor sends the input to the provider: as the root of a turn of a
\* ready session (StartWork), or as a steer of the turn that is running.
Submit ==
    /\ worker.at = "process" /\ observing = {}
    /\ status = "live" \/ turns # {}
    /\ worker' = [worker EXCEPT !.at = "sent"]
    /\ inflight' = inflight \cup {worker.msg}
    /\ NoJournalChange
    /\ UNCHANGED <<status, wake, fence, observing, turns, native, accepts, flowHistory>>

\* OnAccepted: the exact acknowledgement is fenced before it is written.
OnAccepted ==
    /\ worker.at = "sent"
    /\ accepts[worker.msg] > worker.before
    /\ fence' = fence \cup {worker.msg}
    /\ worker' = [worker EXCEPT !.at = "observed"]
    /\ NoJournalChange
    /\ UNCHANGED <<status, wake, observing, turns, external, flowHistory>>

\* The two attempts of Fence.Commit have failed: the input stays fenced, and
\* ProcessNextInput returns an error without touching the record.
CommitRefused ==
    LET m == worker.msg IN
    /\ \/ PhaseOf(m) \in {"unknown", "skipped"}
       \/ PhaseOf(m) = "pending" /\ ~Acceptable(m)
    /\ NoJournalChange /\ UNCHANGED faults

\* Fence.Commit and the return of the processor with the turn running: the
\* loop goes on to the next input while the completion callback is held.
Commit ==
    LET m == worker.msg IN
    /\ worker.at = "observed"
    /\ \/ /\ \/ /\ MarkInputAccepted(m, owner)
                /\ fence' = fence \ {m}
             \/ /\ PhaseOf(m) \in {"accepted", "completed", "terminal_failed", "failed"}
                /\ NoJournalChange /\ UNCHANGED fence
          /\ turns' = turns \cup {m}
          /\ worker' = [Idle EXCEPT !.at = "loop"]
          /\ UNCHANGED faults
       \/ /\ CommitRefused \/ (PhaseOf(m) = "pending" /\ Fault)
          /\ worker' = Idle
          /\ UNCHANGED <<fence, turns>>
    /\ UNCHANGED <<status, wake, observing, external, unsealed>>

\* The processor returned an error, or no acknowledgement: markInputUnknown.
ProcessFailed ==
    LET m == worker.msg IN
    /\ worker.at \in {"process", "sent"}
    /\ \/ /\ MarkInputDeliveryUnknown(m, owner)
          /\ UNCHANGED <<faults, unsealed>>
       \/ ~LeasedBy(m, owner) /\ NoJournalChange /\ UNCHANGED <<faults, unsealed>>
       \/ LeasedBy(m, owner) /\ Fault /\ unsealed' = unsealed \cup {m}
    /\ worker' = Idle
    /\ UNCHANGED <<status, wake, fence, observing, turns, external>>

\* recordProcessOutcome: the write is made, or it is refused or fails and the
\* record stays as it is.
recordProcessOutcome(m, outcome) ==
    ResolveAcceptedInput(m, outcome) \/ NoJournalChange

\* OnCompleted of an accepted turn.  A provider failure is proven terminal or
\* not; a lifecycle write that failed makes any outcome "failed".  A committed
\* completion or terminal failure wakes the session (durableinputbridge).  A turn
\* that awaits recovery writes nothing: its callback is simply never run.
OnCompleted(m, outcome) ==
    /\ m \in turns
    /\ \/ native[m] = "completed" /\ outcome \in {"completed", "failed"}
       \/ native[m] = "failed" /\ outcome \in {"terminal_failed", "failed"}
    /\ recordProcessOutcome(m, outcome)
    /\ turns' = turns \ {m}
    /\ wake' = (wake \/ (outcome \in {"completed", "terminal_failed"}
                         /\ session'.Inputs[m].Phase = outcome))
    /\ UNCHANGED <<status, fence, worker, observing, external, flowHistory>>

-----------------------------------------------------------------------------
(* The provider (external).                                                *)

ProviderAccepts(m) ==
    /\ m \in inflight
    /\ inflight' = inflight \ {m}
    /\ native' = [native EXCEPT ![m] = "running"]
    /\ accepts' = [accepts EXCEPT ![m] = @ + 1]
    /\ NoJournalChange
    /\ UNCHANGED <<status, dispatch, flowHistory>>

ProviderFinishes(m, outcome) ==
    /\ native[m] = "running"
    /\ native' = [native EXCEPT ![m] = outcome]
    /\ NoJournalChange
    /\ UNCHANGED <<status, dispatch, inflight, accepts, flowHistory>>

\* A lease runs out on the dispatcher's clock.
Expire ==
    /\ LeaseExpires
    /\ UNCHANGED <<status, dispatch, external, flowHistory>>

-----------------------------------------------------------------------------
FlowInit ==
    /\ Init
    /\ status = "live" /\ wake = TRUE
    /\ fence = {} /\ worker = Idle /\ observing = {} /\ turns = {}
    /\ inflight = {}
    /\ native = [m \in MessageIDs |-> "none"]
    /\ accepts = [m \in MessageIDs |-> 0]
    /\ unsealed = {} /\ faults = 0

DispatcherNext ==
    \/ ProcessReadySession \/ NothingToLease \/ \E m \in MessageIDs : FenceLease(m)
    \/ \E payload \in Payloads : OnPrepared(payload)
    \/ Deferred \/ Submit \/ OnAccepted \/ Commit \/ ProcessFailed

ProviderNext ==
    \E m \in MessageIDs :
        \/ ProviderAccepts(m)
        \/ \E outcome \in {"completed", "failed"} : ProviderFinishes(m, outcome)

\* What a running process does besides recovering the session and finishing
\* its turns.
FlowNext ==
    \/ \E m \in MessageIDs, payload \in Payloads : Accept(m, payload)
    \/ DispatcherNext
    \/ Expire
=============================================================================
