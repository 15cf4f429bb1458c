------------------------- MODULE MCMutationScheduler -------------------------
(* Instances of MutationScheduler for TLC: one tick is the spacing of starts, *)
(* and a second has three of them, so that one routine and two interactive    *)
(* starts fill their classes.                                                 *)
EXTENDS MutationScheduler

CONSTANTS
    a, b, c, theCard, theChat,
    FreeTime       \* bound: ticks that pass for no reason

Plain == [Priority |-> "routine", ChatID |-> theChat, CardID |-> NoCard, Edit |-> FALSE, Heavy |-> FALSE]
Edit == [Plain EXCEPT !.CardID = theCard, !.Edit = TRUE]
CallbackAnswer == [Plain EXCEPT !.Priority = "interactive", !.ChatID = NoChat]
Upload == [Plain EXCEPT !.Heavy = TRUE]

Mix(x, y, z) == [r \in Requests |-> IF r = a THEN x ELSE IF r = b THEN y ELSE z]
Messages == Mix(Plain, Plain, CallbackAnswer)
Uploads == Mix(Upload, Upload, Plain)
CardUpdates == Mix(Edit, Edit, [Edit EXCEPT !.Priority = "interactive"])
MCMutations == {Messages, Uploads, CardUpdates}
MCCadence == [t \in 0 .. MaxTime |-> IF t < 2 THEN 2 ELSE 3]
MCBackoff == <<2, 3, 3, 3>>

\* Each mix of requests meets the outcomes and failures that matter for it.
Within ==
    CASE mutation = Messages -> /\ ~state.BlockedAll /\ faults + restarts <= 1
      [] mutation = Uploads -> ~state.ProbeRequired /\ ~state.BlockedAll /\ faults = 0
      [] mutation = CardUpdates -> ~state.ProbeRequired /\ state.BlockedChats = {} /\ faults = 0

-----------------------------------------------------------------------------
\* Once FreeTime is over, time passes only when a waiting request depends on it:
\* that is enough for progress, and it ends by itself before MaxTime.
BoundedTick ==
    /\ now < FreeTime \/ \E r \in Requests : HeldByTimeOnly(r) /\ Delayed(r)
    /\ Tick

BoundedNext ==
    /\ \/ \E r \in Requests : RequestNext(r)
       \/ ConfirmAuthorization
       \/ \E chat \in CardChats : RecordUserActivity(chat)
       \/ BoundedTick \/ Open
    /\ Within'

\* A waiting goroutine is woken by every change and by its timer, a call returns
\* (the client has a deadline), and time passes.
FairSpec ==
    /\ Init /\ [][BoundedNext]_vars
    /\ WF_vars(BoundedTick)
    /\ \A r \in Requests :
         WF_vars(Acquire(r)) /\ WF_vars(Refuse(r)) /\ WF_vars(ReleaseHeavy(r)) /\ WF_vars(Complete(r))

-----------------------------------------------------------------------------
\* Types of what the scheduler keeps (mutationDiskState, its clone and leases).
SchedulerTypeOK ==
    LET DiskState == [CooldownUntil : Nat, LastMutationAt : {Never} \cup Nat, ServerFailures : 0 .. 4,
                      ProbeRequired : BOOLEAN, BlockedAll : BOOLEAN, BlockedChats : SUBSET {theChat}]
    IN  /\ state \in DiskState /\ disk \in DiskState
        /\ \A s \in globalStarts : s.at \in 0 .. now /\ s.request \in Requests
        /\ probeInFlight \in BOOLEAN /\ heavy \in BOOLEAN /\ epoch \in Nat
        /\ \A r \in Requests : calls[r].at \in {"new", "waiting", "leased", "returned", "done"}

\* No two calls start within globalStartInterval, whatever restarts lie between
\* them: LastMutationAt is durable before a call is made (Acquire, delayLocked).
StartsAreSpaced ==
    \A s, t \in history.starts : s.at = t.at => s = t

\* In any second of one process the routine calls stay two below the global limit
\* and the interactive ones one, so that neither class can shut the other out
\* (regularMutationLimit, interactiveLimit; classDelayLocked).
HeadroomIsKept ==
    \A s \in history.starts :
        LET window == {t \in history.starts : t.life = s.life /\ t.at \in s.at .. (s.at + second - 1)}
            class(p) == Cardinality({t \in window : mutation[t.request].Priority = p})
        IN  /\ Cardinality(window) <= globalMutationLimit
            /\ class("routine") <= regularMutationLimit
            /\ class("interactive") <= interactiveLimit

\* A routine call never starts before the deadline of a rate limit, unless an
\* answer lifted it: one to a call made after the limit, or the probe's
\* (complete: lease.epoch == scheduler.epoch || lease.probe).
RateLimitIsObeyed ==
    \A s \in history.starts : ~Interactive(s.request) =>
        \A l \in s.during : \E x \in history.lifted :
            x.limit = l /\ (x.by \notin l.before \/ x.probe)

\* No call is made to a chat after it answered 403, restarts included: the stop
\* is written by complete, and nothing clears it.
ForbiddenChatStaysStopped ==
    \A s \in history.starts : ~s.forbidden

\* Two edits of a card start in the order they were asked for: an edit that a
\* newer one replaced is never started after it (cardVersions, ErrSuperseded).
NewestEditIsLast ==
    \A s, t \in history.starts :
        (/\ s.request \in CardEdits /\ t.request \in CardEdits
         /\ Card(s.request) = Card(t.request) /\ s.life = t.life /\ s.version < t.version)
            => s.at < t.at

\* Every waiting request is granted or refused in the end, whatever failed before
\* it: no slot, probe or cooldown is held for good (Acquire, complete).
EveryRequestEnds ==
    \A r \in Requests : (r \in Waiting) ~> (r \notin Waiting)
=============================================================================
