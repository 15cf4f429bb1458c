# A verification project for bria

bria drives coding-agent sessions (Codex, Claude) on one or several computers
from a Telegram chat. A prompt typed in the chat is taken into durable custody,
handed to exactly one provider process, and everything the provider answers is
delivered back to the chat, across crashes of bria, of the provider and of the
network in between. The TLA+ modules here model the parts of that path on which
its promises rest: what is durable, who may act on it, and what a crash, a lost
answer or a late one may never cause.

`PROJECT.json` is the index: components, runs, the source lines behind every
definition, hazards, mutants (a plausible bug for every property, which the run
of that property finds), findings and theorems.

## The parts of the system

| part | packages under `src/internal/` | module |
|---|---|---|
| message journal: durable inputs, outputs, recovery boundary | `messagejournal` | `MessageJournal` |
| input dispatch: lease, hand-off, acceptance fence | `durableflow`, `acceptedinput`, `durablecomposition` | `DurableFlow` |
| session recovery: supervisor, attach, reconciliation, sweeps | `sessionsupervisor`, `sessionattachment`, `acceptedrecovery`, `acceptedcontinuation`, `supervisioncomposition`, `sessionrecoverycontrol` | `InputRecovery` |
| Telegram operation ledger | `telegramops`, `telegramopsretention`, `telegramflow` | `TelegramOperations` |
| delivery of a status to Telegram | `telegramflow` | `TelegramDelivery` |
| coordinator loop, callbacks, recovery clicks | `coordinator`, `telegramflow`, `telegramrecovery`, `telegramrecoverycomposition` | `CoordinatorLoop` |
| output custody and dispatch | `durableflow`, `durablecomposition`, `telegramcompletioncomposition` | `OutputDelivery` |
| rate limits of the Bot API | `mutationscheduler` | `MutationScheduler` |
| session record: statuses and transitions | `domain` | `SessionRecord` |
| provider processes: start, attach, abort, detach | `sessionruntime` | `ProviderRuntime` |
| session lifecycle: create, turn, stop, close, expire, recover, archive, resume | `storage`, `app`, `initialstartretry`, `sessioncloseflow`, `sessionexpiry`, `sessionnaming`, `sessionsupervisor`, `sessionattachment`, `turnfinalization`, `telegramcontroller` | `SessionLifecycle` |

An update comes in through the coordinator loop, which lets the flow handler
execute it; a message becomes an input of the journal. The dispatcher of the
session leases it and hands it to the provider. What the provider answers
becomes an output of the journal, which the output dispatcher projects into a
status of the Telegram ledger; that is delivered under the mutation scheduler.
A crash or a lost provider sends the session through recovery, which opens a
boundary in the journal, reads the provider's own history and seals the boundary
before the session is live again.

The modules compose along these lines: `DurableFlow` extends `MessageJournal`
and `InputRecovery` extends `DurableFlow`; `TelegramDelivery` extends
`TelegramOperations`, and both `CoordinatorLoop` and `OutputDelivery` extend
`TelegramDelivery`; `OutputDelivery` also instantiates `MessageJournal` (with no
inputs) as its custody. `SessionLifecycle` extends `SessionRecord` and
`ProviderRuntime`.

## Modules and code

### MessageJournal

One session record of the journal file (`persistence.go`: `sessionRecord`). The
variable `session` is the record on disk; every operation of `input.go`,
`recovery.go` and `output.go` that changes it is one action, because each runs
under the journal's mutex and ends in one atomic file replacement (`mutate`),
which validates the whole record first (`validateSession`) and changes nothing
if a clause fails.

* `Inputs[m]`: phase, sequence, payload and lease of an input.
* `Outputs[p]`: phase, sequence, kind, receipt and lease of an output.
* `Recovery`: the boundary (`open`, `committed`, `attached`), its token and the
  sequence through which it captures inputs.
* `refused`, `handed`, `settled`, `captured`, `sent`, `retried` are history
  variables: which clauses refused a change, which inputs were ever leased, ...
  No guard reads them.

A lease is `[Owner, Live]`; `LeaseExpires` is the only clock. Payloads,
attachments and receipts are opaque values.

### DurableFlow and InputRecovery

One session, its dispatcher goroutine, the provider and, in `InputRecovery`, the
process with its crashes and the one recovery that may run (the recovery gate
serialises them). `worker` is the program counter of `ProcessNextInput`: every
journal write and the hand-off itself are steps of their own, so that a crash,
an expiring lease or a recovery comes between any two. `fence` is the in-memory
`Fence.blocked`. The provider is external: what is `inflight` is accepted at any
later time or never, and `native` is its own history, which the reconciliation
reads. `env` fixes, once per behaviour, what kind of provider it is: it can be
reattached or must be restarted, its terminal is always reachable or not, its
history always proves an outcome or not, and turns may record their outcome
while a recovery runs or not.

`rec` is the program counter of a recovery: begin the boundary, attach and read,
reconcile input by input, decide, seal, publish; or observe the accepted turns
and seal after them. Awaiting states have fresh tokens (`token`, `used`).

### TelegramOperations, TelegramDelivery

The ledger maps an operation ID to its phase in two namespaces (callbacks,
statuses). Every write compacts the finalized history in the same step
(`prune`). `TelegramDelivery` is `deliverStatusOperation`: lock, fence
(`send_unknown`), send, receipt, commit, by several senders. Telegram applies a
request or not, and its answer may be lost either way.

### CoordinatorLoop

`checkpoint` is the durable offset with its outbound and recovery records,
`loop` the program counter of `Loop.Run` through every decision. `Kind` says
what each update is; it is chosen once per behaviour. `Crash` is possible before
every step. `effects`, `retries` and `sends` count what became visible outside.

### OutputDelivery

Two durable records, the journal's output and the ledger's status, describe one
delivery. `dispatcher` is the program counter of `DeliverNextOutput` and of the
completion deliverer below it. `KindOf` is the notification kind of each output,
chosen once per behaviour.

### MutationScheduler

`state` is the scheduler's memory, `disk` its file, `calls` the requests waiting
in `Acquire`, holding a lease or returned. Time is a counter of ticks; one tick
is the spacing between starts. `mutation` gives each request its priority, chat,
card and weight, chosen once per behaviour.

### SessionRecord, ProviderRuntime, SessionLifecycle

One session of a native provider (whose CLI lives in a terminal that outlives
its adapter process) and everybody who moves it. `store` is its record in the
session store, `empty` the proof on its card that it never had content,
`copies` what each actor last loaded or wrote. All writes are
compare-and-swaps: `Swap` needs a copy that still equals the stored record,
which, as every write has a new time or name, is a copy loaded or written since
the last write (`fresh`). `copies["live"]` is the controller's mirror of the
session. `pc` is the program counter of each actor: the creator with its start
retries, the serial Telegram handler, the session's worker, the closer (one call
at a time under its mutex, on behalf of `caller`), the expiry sweep, the
supervisor and the standby keeper. A call of the provider and each access to the
store is a step of its own, so any other actor, an exit or a crash may come in
between. `launched` is the binding an actor has started and not yet recorded.

`adapter`, `tombstone` and `terminal` are the process table of `sessionruntime`
and the CLI. `Abort` may end without a confirmation; an adapter may exit with or
without its CLI. What the environment may do is the budget `left`.

## Runs

| run | what it shows | bounds |
|---|---|---|
| `journal` | the lane is handed over in order, the cutoff of a boundary never widens, sealed boundaries stay clean, coalescing never drops an output whose send is open, outcomes are final, and the guards imply every clause of `validateSession` but the attached one | three inputs with two owners, tokens and payloads, two pending at a time; or two outputs and one input without a recovery, which never touches outputs |
| `recovery_safety` | no input with a recorded outcome is handed over twice, and no session is live behind an open boundary | two inputs with an awaiting state and a crash (two awaiting states when the provider is restarted); one input with two awaiting states, a failing write, late completions or an inconclusive history |
| `recovery_quiet` | a recovery that begins with no open hand-off ends the awaiting state | two inputs, one crash, reachable and conclusive provider |
| `recovery_replay` | finding: an input kept pending by an attached boundary can be accepted twice | two inputs, one crash |
| `loop` | effects and sends are repeated only at the owner's word, no update is passed while its outcome is open, the offset never goes back, and the loop gets past every update it may pass | three updates in three mixes, two crashes or failures |
| `outputs` | an output is sent once, the journal confirms only what was shown, superseded outputs stay silent, every output settles | two outputs in two mixes beside an answer of the loop, one crash or failure |
| `output_retention` | finding: with the ledger's history at its limit a crash sends an output twice | one output |
| `lifecycle` | archived sessions leave no CLI behind, no adapter is leaked by a lost compare-and-swap, a session with content is never deleted as empty, a running turn is never taken for a ready session, a close once recorded is carried through | one prompt and every choice of three other events; or an initial start that fails for good and one other event |
| `lifecycle_custody` | finding: a session is deleted as empty while it owns a durable input | the same |
| `scheduler` | spacing, headroom, rate limits, stopped chats, order of edits, and that every request ends | three requests in three mixes |

The operators named `..._Something` next to a definition are its mutants: the
definition with a plausible bug, under which the run must fail.

### Bounds

Each MC module has an operator `Within`; the run takes only steps that stay in
it (`BoundedNext`). It replaces several configurations by one: the kind of
updates, requests or provider is chosen in the initial state and `Within` gives
each choice the crashes, failures and identities that matter for it. Two
identities of each sort are enough for one to be handled while the other is
open, and the third input or update is the successor that must not overtake.
Failures and crashes are bounded by two: the properties speak of one lost answer
and one crash in the window after it, and the third would repeat a state that
the second has reached. Identities are interchangeable where the code only
compares them, which the symmetry sets of the journal and recovery runs use; the
run with a liveness property uses none.

`MCSessionLifecycle` bounds events instead: a budget allows one prompt and any
three of the other events once each (close, expiry, stop, rename, resume,
standby, crash, exit of the adapter, and failures of a start, an attach, a
submission, a write or a confirmation). A race of this module is one between two
actors with a third event in the window. Larger budgets (four other events, or
one event twice) have been explored without a violation; they take too long to
be kept. `CHECK_DEADLOCK FALSE`: when the budget is spent a session may rest.

### Fairness

* `recovery_quiet`: a recovery that has begun goes on, the sweep's timer keeps
  firing, the service manager starts a stopped process again, and the dispatcher
  goroutine does not rest halfway. Nothing is assumed of the provider.
* `loop`: the goroutine of `Loop.Run` is scheduled and restarted (the process
  exits on an error and the service manager starts it), and a delivery that the
  runner has begun goes on.
* `outputs`: the dispatcher (which sweeps twice a second) and the runner are
  scheduled, and leases run out.
* `scheduler`: a waiting goroutine is woken by every change and by its timer, a
  call returns because the client has a deadline, and time passes.

## Proofs

`MessageJournalProofs` proves the properties of the `journal` run for every set
of messages, outputs, owners, tokens, payloads and for all limits. It rests on
`JournalStepProofs` (what each shape of step does to the record) and this on
`JournalRecordProofs` (lemmas about records, lanes and validation). The only
assumption is `JournalAssumption` of `MessageJournal`: the limits are positive
(`validateLimits`) and the empty string is not an identity.

None of the properties is inductive. The invariant `IInv` has four parts:

* `Core`: the types, and that the record on disk passes `validateSession` (the
  file is only ever replaced by a validated record), with sequences that are
  distinct and at most `NextSequence`;
* `InputInv`: what the history variables remember of leases and settlements, in
  particular that every input before a leased one is settled or tombstoned; this
  needs that the head of the lane is the first unsettled input;
* `BoundaryInv`: the inputs at or before an open boundary were captured by it,
  so that tombstones stay inside what was captured;
* `OutputInv`: a pending, unleased output that was ever leased has been retried,
  and a superseded one has a successor.

Each action is reduced to one of a few shapes (one undecided input rewritten,
one appended, a boundary opened or sealed, one output rewritten) and each shape
is shown to preserve each part. `TypeCorrect`, `ValidationNeverSurprises`,
`LaneOrder`, `CutoffIsExact`, `BoundaryStaysClean` and `SupersessionSafe` follow
from `Invariance`; `FinalOutcomes` is the action property, from the same
invariant.

Only model-checked: everything about the other modules, and all liveness
properties, which are out of the prover's reach.

## Behaviours worth knowing

Three runs state a promise of a comment and show the code breaking it; the
findings of `PROJECT.json` quote the lines. Besides, the models reach:

* a completion recorded between `Selector.Required` and the continuation leaves
  a live session behind an open boundary (`accepted_continuation.go:45`);
  `NoOpenBoundary` exempts this environment by name;
* a crash after an attached commit followed by the loss of the terminal makes
  the archive's skip commit fail, at startup with an error that ends the process
  (`sessionattachment/recover.go:23`);
* an input leased before a crash has no acceptance custody, and with unchanged
  evidence its session awaits recovery until the evidence changes
  (`acceptedcontinuation/selector.go:70`);
* a gap between the checkpoint's offset and the first update ID makes the
  checkpoint of an unknown callback's recovery prompt invalid, so that the loop
  fails on every restart (`coordinator/loop.go:613`);
* the success of a probe lifts a rate limit that arrived after the probe was
  started (`mutationscheduler/scheduler.go:339`);
* a name generated during the first turn, or a creation published after a
  recovery, leaves the controller's mirror unequal to the stored session, and the
  next root input is refused as not ready (`telegramcontroller/controller.go:2794`);
* a close and a recovery can invalidate each other's compare-and-swap without
  end, so that no liveness of a close follows from fair scheduling alone; the
  recovery backoff, which the model does not time, makes it unlikely;
* an expiry that listed a busy session just before a close was scheduled calls
  `Close` on `closing_after_work` and aborts the turn that close waited for;
* after a confirmed abort of an initial start whose write failed, the tombstone
  refuses every new start of the session until the process restarts
  (`sessionruntime/starter.go:387`);
* the completion of an asynchronous close removes a session from the live map
  that was resumed in the meantime;
* `ensureStandby` deletes an empty session that awaits recovery although its
  terminal may still be open (`telegramcontroller/standby.go:123`).

## Not modelled, and the plan

Not modelled for good: parsing and rendering (terminal screens, transcripts,
cards), transports, encryption and archive formats, logging, installation of
external programs. Their outcomes are nondeterministic choices in the modules
above. Left out of the session lifecycle: providers without a persistent
terminal (no production command is one), other computers, imported archives, and
the statuses `resuming` and `resume_failed`, which no production path stores.

Planned, in this order:

1. the refinement of the statuses of `InputRecovery` by those of
   `SessionLifecycle`, and proofs of `AdapterOwned` and `CloseIntentKept`;
2. turn execution in `telegramcontroller`: root and steer admission and the
   completion they share, with the retry of the final save;
3. callback registry, tokens and acknowledgements; interactions and approvals;
4. card state and notification parts; artifact delivery and its retry;
5. coordinator transfer and node link; self-update and rollback; backup;
   authentication flow; preprocessing pool;
6. proofs: spacing of starts in the scheduler, the effect and send fences of the
   ledger, and the acceptance fence of the dispatcher.
