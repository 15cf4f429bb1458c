-------------------------- MODULE MutationScheduler --------------------------
(***************************************************************************)
(* internal/mutationscheduler: the gate every mutating Bot API call passes *)
(* (Acquire) and reports its outcome to (Complete).  It spaces the starts, *)
(* keeps routine work behind interactive work, holds it back during a      *)
(* cooldown, lets one routine call probe after it, stops after 401 and     *)
(* 403, and keeps that state on disk.                                      *)
(*                                                                         *)
(* Acquire and complete run under one mutex, so that the evaluation of a   *)
(* waiting request is one step; the wait between two evaluations ends by a *)
(* broadcast or by the passing of time.  Time is counted in ticks of       *)
(* globalStartInterval.  A request is one call, made once.                 *)
(***************************************************************************)
EXTENDS Integers, FiniteSets

CONSTANTS
    Requests,            \* calls of the client
    Mutations,           \* what the calls of a behaviour may be
    NoChat, NoCard,      \* a callback answer names no chat, most calls no card
    globalMutationLimit, \* starts per second
    second,              \* ticks per second
    cadenceInterval,     \* spacing of card edits by the time since user activity
    serverBackoff,       \* cooldown after 1 .. 4 failures in a row
    minRateLimit,        \* least cooldown after 429
    RetryAfters,         \* what a 429 may ask for, the jitter included
    Outcomes,            \* bound: what calls end with
    MaxTime,             \* bound: ticks
    MaxFaults,           \* bound: writes of the state file that fail
    MaxRestarts          \* bound: restarts of the process

ASSUME SchedulerAssumption ==
    /\ \A m \in Mutations, r \in Requests :
         m[r].Priority \in {"routine", "interactive"} /\ {m[r].Edit, m[r].Heavy} \subseteq BOOLEAN
    /\ globalMutationLimit \in Nat /\ globalMutationLimit > 2
    /\ second \in Nat \ {0} /\ minRateLimit \in Nat \ {0}
    /\ cadenceInterval \in [0 .. MaxTime -> Nat]
    /\ serverBackoff \in [1 .. 4 -> Nat \ {0}]
    /\ RetryAfters \subseteq Nat
    /\ Outcomes \subseteq {"succeeded", "rejected", "cancelled", "no_answer", "rate_limited",
                           "forbidden", "unauthorized"}
    /\ MaxTime \in Nat /\ MaxFaults \in Nat /\ MaxRestarts \in Nat

VARIABLES
    mutation,       \* the Mutation of each request
    now,
    state,          \* mutationDiskState in memory
    disk,           \* mutationDiskState in the file
    globalStarts,   \* starts of the last second: [at, request]
    cadence,        \* per chat: when user activity and the last card edit were
    epoch,          \* counts the cooldowns and stops
    cardVersions,   \* the latest version asked for of each card
    probeInFlight,
    heavy,          \* the one heavy slot is taken
    calls,          \* each request, with its lease
    faults,         \* failed writes so far
    restarts,
    history         \* history: starts, rate limits, what lifted them, chats forbidden

limits == <<globalStarts, cadence>>
slots == <<probeInFlight, heavy>>
ghosts == <<faults, restarts, history>>
vars == <<mutation, now, state, disk, limits, epoch, cardVersions, slots, calls, ghosts>>

Chat(r) == mutation[r].ChatID
Card(r) == mutation[r].CardID
Interactive(r) == mutation[r].Priority = "interactive"
Heavy == {r \in Requests : mutation[r].Heavy}
CardChats == {Chat(r) : r \in {q \in Requests : Card(q) # NoCard}}
CardEdits == {r \in Requests : mutation[r].Edit /\ Card(r) # NoCard}
regularMutationLimit == globalMutationLimit - 2
interactiveLimit == globalMutationLimit - 1

Never == -1
emptyState == [CooldownUntil |-> 0, LastMutationAt |-> Never, ServerFailures |-> 0,
               ProbeRequired |-> FALSE, BlockedAll |-> FALSE, BlockedChats |-> {}]
NoLease == [at |-> "new", probe |-> FALSE, epoch |-> 0, version |-> 0, persisted |-> emptyState]

Leased == {r \in Requests : calls[r].at \in {"leased", "returned"}}
Waiting == {r \in Requests : calls[r].at = "waiting"}
At(r, at) == calls' = [calls EXCEPT ![r].at = at]

\* persistStateLocked: an error leaves memory ahead of the file.
persist(next) ==
    \/ disk' = next /\ UNCHANGED faults
    \/ faults < MaxFaults /\ faults' = faults + 1 /\ UNCHANGED disk

-----------------------------------------------------------------------------
(* When a request may start.                                               *)

Recent == {s \in globalStarts : s.at > now - second}
Later(a, b) == IF a > b THEN a ELSE b

classDelayLocked_OffByOne(priority, limit) ==
    Cardinality({s \in Recent : mutation[s.request].Priority = priority}) > limit

\* The starts of a class that are still in the window use up its limit.
classDelayLocked(priority, limit) ==
    Cardinality({s \in Recent : mutation[s.request].Priority = priority}) >= limit

\* delayLocked > 0: the cooldown holds routine work only.
Delayed(r) ==
    LET pace == cadence[Chat(r)] IN
    \/ ~Interactive(r) /\ state.CooldownUntil > now
    \/ state.LastMutationAt # Never /\ state.LastMutationAt + 1 > now
    \/ Cardinality(Recent) >= globalMutationLimit
    \/ classDelayLocked(mutation[r].Priority, IF Interactive(r) THEN interactiveLimit ELSE regularMutationLimit)
    \/ /\ ~Interactive(r) /\ Card(r) # NoCard /\ pace.lastAt # Never
       /\ pace.lastAt + cadenceInterval[now - pace.startedAt] > now

Stopped(r) == state.BlockedAll \/ Chat(r) \in state.BlockedChats

Superseded_Never(r) == FALSE

\* A newer edit of the same card has been asked for.
Superseded(r) == r \in CardEdits /\ cardVersions[Card(r)] # calls[r].version

Probes(r) == state.ProbeRequired /\ ~Interactive(r)

\* Nothing but time holds a waiting request back.
HeldByTimeOnly(r) ==
    /\ r \in Waiting /\ ~Superseded(r) /\ ~Stopped(r)
    /\ Interactive(r) \/ \A q \in Leased : ~Interactive(q)
    /\ ~(Probes(r) /\ probeInFlight)
    /\ ~(r \in Heavy /\ heavy)

-----------------------------------------------------------------------------
(* Acquire.                                                                *)

\* The request takes its place; an edit replaces the older ones of its card.
Enqueue(r) ==
    /\ calls[r].at = "new"
    /\ IF r \in CardEdits
       THEN /\ cardVersions' = [cardVersions EXCEPT ![Card(r)] = @ + 1]
            /\ calls' = [calls EXCEPT ![r].at = "waiting", ![r].version = cardVersions'[Card(r)]]
       ELSE At(r, "waiting") /\ UNCHANGED cardVersions
    /\ UNCHANGED <<mutation, now, state, disk, limits, epoch, slots, ghosts>>

recordStartLocked(r) ==
    /\ globalStarts' = Recent \cup {[at |-> now, request |-> r]}
    /\ cadence' = IF Card(r) = NoCard \/ Interactive(r) THEN cadence
                  ELSE [cadence EXCEPT ![Chat(r)] =
                           [startedAt |-> IF @.startedAt = Never THEN now ELSE @.startedAt, lastAt |-> now]]

\* The call is made: what it runs into is remembered for the properties.
Start(r, persisted) ==
    /\ calls' = [calls EXCEPT ![r].at = "leased", ![r].probe = Probes(r),
                              ![r].epoch = epoch, ![r].persisted = persisted]
    /\ history' = [history EXCEPT !.starts = @ \cup
          {[at |-> now, request |-> r, version |-> calls[r].version, life |-> restarts,
            during |-> {l \in history.limited : l.until > now},
            forbidden |-> Chat(r) \in history.forbidden]}]

acquireSlots_Leak(r, granted) ==
    /\ probeInFlight' = (probeInFlight \/ Probes(r))
    /\ heavy' = (heavy \/ (granted /\ r \in Heavy))

\* The probe and heavy slots are given back when the state cannot be written.
acquireSlots(r, granted) ==
    /\ probeInFlight' = (probeInFlight \/ (granted /\ Probes(r)))
    /\ heavy' = (heavy \/ (granted /\ r \in Heavy))

\* The start is recorded before the state is written; if that fails the request
\* ends with the error, and the start still counts.
Acquire(r) ==
    /\ HeldByTimeOnly(r) /\ ~Delayed(r)
    /\ recordStartLocked(r)
    /\ state' = [state EXCEPT !.LastMutationAt = now]
    /\ persist(state')
    /\ acquireSlots(r, faults' = faults)
    /\ IF faults' = faults THEN Start(r, state') ELSE At(r, "done") /\ UNCHANGED history
    /\ UNCHANGED <<mutation, now, epoch, cardVersions, restarts>>

\* The caller's context ends while the request waits.
Abandon(r) ==
    /\ r \in Waiting
    /\ At(r, "done")
    /\ UNCHANGED <<mutation, now, state, disk, limits, epoch, cardVersions, slots, ghosts>>

\* ErrSuperseded or ErrStopped.
Refuse(r) ==
    /\ r \in Waiting /\ (Superseded(r) \/ Stopped(r))
    /\ At(r, "done")
    /\ UNCHANGED <<mutation, now, state, disk, limits, epoch, cardVersions, slots, ghosts>>

-----------------------------------------------------------------------------
(* Complete.                                                               *)

\* A heavy call frees its slot before complete takes the mutex.
ReleaseHeavy(r) ==
    /\ r \in Heavy /\ calls[r].at = "leased"
    /\ heavy' = FALSE
    /\ At(r, "returned")
    /\ UNCHANGED <<mutation, now, state, disk, limits, epoch, cardVersions, probeInFlight, ghosts>>

enterCooldownLocked(s, delay) ==
    [s EXCEPT !.CooldownUntil = Later(@, now + delay), !.ProbeRequired = TRUE]

\* After a 5xx, or no valid answer at all.
Backoff(s) ==
    LET failures == IF s.ServerFailures < 4 THEN s.ServerFailures + 1 ELSE 4
    IN  enterCooldownLocked([s EXCEPT !.ServerFailures = failures], serverBackoff[failures])

Recovered(r, s) == [s EXCEPT !.ServerFailures = 0, !.ProbeRequired = FALSE, !.CooldownUntil = 0]

definitive_Stale(r, s) == Recovered(r, s)

\* Any definitive answer proves the transport reachable, but one to a call from
\* before the last cooldown or stop counts for nothing, unless it is the probe.
definitive(r, s) ==
    IF calls[r].epoch = epoch \/ calls[r].probe THEN Recovered(r, s) ELSE s

Outcome403_Chatless(r, s) == [s EXCEPT !.BlockedChats = @ \cup {Chat(r)}]

\* A callback answer names no chat to stop.
Outcome403(r, s) == [s EXCEPT !.BlockedChats = @ \cup ({Chat(r)} \ {NoChat})]

outcomeState(r, outcome, retryAfter) ==
    CASE outcome = "unauthorized" -> [state EXCEPT !.BlockedAll = TRUE]
      [] outcome = "forbidden" -> Outcome403(r, state)
      [] outcome = "rate_limited" -> enterCooldownLocked(state, Later(minRateLimit, retryAfter))
      [] outcome = "no_answer" -> Backoff(state)
      [] outcome \in {"succeeded", "rejected"} -> definitive(r, state)
      [] outcome = "cancelled" -> state

completePersist_Never(r, outcome) == UNCHANGED <<disk, faults>>

\* A success that left the state as its own Acquire wrote it is not written.
completePersist(r, outcome) ==
    IF outcome = "succeeded" /\ state' = calls[r].persisted
    THEN UNCHANGED <<disk, faults>>
    ELSE persist(state')

Remember(r, outcome, retryAfter) ==
    LET lifted == IF state'.CooldownUntil = 0 THEN {l \in history.limited : l.until > now} ELSE {} IN
    history' = [history EXCEPT
        !.limited = IF outcome # "rate_limited" THEN @
                    ELSE @ \cup {[until |-> now + Later(minRateLimit, retryAfter),
                                  of |-> r, before |-> Leased \ {r}]},
        !.lifted = @ \cup {[limit |-> l, by |-> r, probe |-> calls[r].probe] : l \in lifted},
        !.forbidden = IF outcome = "forbidden" THEN @ \cup ({Chat(r)} \ {NoChat}) ELSE @]

complete(r, outcome, retryAfter) ==
    /\ calls[r].at = IF r \in Heavy THEN "returned" ELSE "leased"
    /\ state' = outcomeState(r, outcome, retryAfter)
    /\ epoch' = IF outcome \in {"succeeded", "rejected", "cancelled"} THEN epoch ELSE epoch + 1
    /\ probeInFlight' = (probeInFlight /\ ~calls[r].probe)
    /\ completePersist(r, outcome)
    /\ At(r, "done")
    /\ Remember(r, outcome, retryAfter)
    /\ UNCHANGED <<mutation, now, limits, cardVersions, heavy, restarts>>

Complete(r) ==
    \/ \E outcome \in Outcomes \ {"rate_limited"} : complete(r, outcome, 0)
    \/ \E retryAfter \in RetryAfters : "rate_limited" \in Outcomes /\ complete(r, "rate_limited", retryAfter)

-----------------------------------------------------------------------------
\* The client authenticated again after a 401.
ConfirmAuthorization ==
    /\ state.BlockedAll
    /\ state' = [state EXCEPT !.BlockedAll = FALSE]
    /\ persist(state')
    /\ UNCHANGED <<mutation, now, limits, epoch, cardVersions, slots, calls, restarts, history>>

\* A fresh update of the owner: the pace of card edits starts again.
RecordUserActivity(chat) ==
    /\ cadence[chat].startedAt # now
    /\ cadence' = [cadence EXCEPT ![chat].startedAt = now]
    /\ UNCHANGED <<mutation, now, state, disk, globalStarts, epoch, cardVersions, slots, calls, ghosts>>

Tick ==
    /\ now < MaxTime /\ now' = now + 1
    /\ UNCHANGED <<mutation, state, disk, limits, epoch, cardVersions, slots, calls, ghosts>>

noCadence == [chat \in CardChats |-> [startedAt |-> Never, lastAt |-> Never]]
noVersions == [card \in {Card(r) : r \in CardEdits} |-> 0]
forgotten == [r \in Requests |-> IF calls[r].at = "new" THEN NoLease ELSE [NoLease EXCEPT !.at = "done"]]

Open_ForgetsLast ==
    /\ restarts < MaxRestarts /\ restarts' = restarts + 1
    /\ state' = [disk EXCEPT !.LastMutationAt = Never]
    /\ globalStarts' = {} /\ epoch' = 0 /\ probeInFlight' = FALSE /\ heavy' = FALSE
    /\ cadence' = noCadence /\ cardVersions' = noVersions
    /\ calls' = forgotten
    /\ UNCHANGED <<mutation, now, disk, faults, history>>

\* The process restarts: Open reads the file, everything else starts empty and
\* the calls that waited or were under way are gone.
Open ==
    /\ restarts < MaxRestarts /\ restarts' = restarts + 1
    /\ state' = disk
    /\ globalStarts' = {} /\ epoch' = 0 /\ probeInFlight' = FALSE /\ heavy' = FALSE
    /\ cadence' = noCadence /\ cardVersions' = noVersions
    /\ calls' = forgotten
    /\ UNCHANGED <<mutation, now, disk, faults, history>>

Init ==
    /\ mutation \in Mutations
    /\ now = 0 /\ state = emptyState /\ disk = emptyState
    /\ globalStarts = {} /\ epoch = 0 /\ probeInFlight = FALSE /\ heavy = FALSE
    /\ cadence = noCadence /\ cardVersions = noVersions
    /\ calls = [r \in Requests |-> NoLease]
    /\ faults = 0 /\ restarts = 0
    /\ history = [starts |-> {}, limited |-> {}, lifted |-> {}, forbidden |-> {}]

RequestNext(r) == Enqueue(r) \/ Acquire(r) \/ Refuse(r) \/ Abandon(r) \/ ReleaseHeavy(r) \/ Complete(r)

Next ==
    \/ \E r \in Requests : RequestNext(r)
    \/ ConfirmAuthorization
    \/ \E chat \in CardChats : RecordUserActivity(chat)
    \/ Tick \/ Open

Spec == Init /\ [][Next]_vars
=============================================================================
