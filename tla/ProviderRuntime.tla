--------------------------- MODULE ProviderRuntime ---------------------------
(***************************************************************************)
(* internal/sessionruntime: the process table of one session.  At most one *)
(* adapter process is tracked; when it has been reaped a tombstone keeps   *)
(* its binding, so that only a resume of exactly that generation (or a     *)
(* retry from the same prior one) may follow it.  The provider's CLI runs  *)
(* in a terminal of its own that outlives the adapter: production commands *)
(* are PersistentTerminal (runtimefactory), so an adapter's exit proves    *)
(* nothing about the terminal unless it reported it closed.                *)
(*                                                                         *)
(* A binding is its generation, 0 for none.  A start that fails leaves the *)
(* table as it was, and is a step of the caller alone.                     *)
(***************************************************************************)
EXTENDS Naturals

CONSTANT MaxGeneration   \* bound: launches of the session

ASSUME RuntimeAssumption == MaxGeneration \in Nat \ {0}

VARIABLES
    adapter,     \* Starter.processes: the tracked adapter and what it resumed
    tombstone,   \* Starter.tombstones: the last reaped binding
    terminal     \* the CLI's terminal: "open" or "none"

runtime == <<adapter, tombstone, terminal>>

Generations == 0 .. MaxGeneration
NoAdapter == [gen |-> 0, prior |-> 0]
NoTombstone == [gen |-> 0, prior |-> 0, closed |-> FALSE]

RuntimeInit == adapter = NoAdapter /\ tombstone = NoTombstone /\ terminal = "none"

RuntimeTypeOK ==
    /\ adapter \in [gen : Generations, prior : Generations]
    /\ tombstone \in [gen : Generations, prior : Generations, closed : BOOLEAN]
    /\ terminal \in {"open", "none"}

\* The checks of start under the table's mutex; prior is 0 for a new session.
Startable(prior) ==
    /\ adapter = NoAdapter
    /\ \/ tombstone = NoTombstone
       \/ prior # 0 /\ prior = tombstone.gen
       \/ prior # 0 /\ prior = tombstone.prior /\ ~tombstone.closed

NextGeneration(prior) == (IF tombstone = NoTombstone THEN prior ELSE tombstone.gen) + 1

\* Start: launch, handshake, and the record bound.
Start(prior) ==
    /\ Startable(prior)
    /\ NextGeneration(prior) \in Generations
    /\ adapter' = [gen |-> NextGeneration(prior), prior |-> prior]
    /\ tombstone' = NoTombstone
    /\ terminal' = "open"

\* Attach: the same launch, which must find the terminal.
Attach(prior) == terminal = "open" /\ Start(prior)

\* finalizeReap: the tracked adapter has exited.
Reaped(closed) ==
    /\ adapter # NoAdapter
    /\ adapter' = NoAdapter
    /\ tombstone' = [gen |-> adapter.gen, prior |-> adapter.prior, closed |-> closed]

\* Abort (release in mode close): the adapter closed the terminal and said so,
\* now or when it was reaped.
ClosedBefore(g) == adapter = NoAdapter /\ tombstone.gen = g /\ tombstone.closed
AbortConfirmed_Reaped(g) ==
    \/ adapter.gen = g /\ Reaped(TRUE) /\ terminal' = "none"
    \/ adapter = NoAdapter /\ tombstone.gen = g /\ UNCHANGED runtime
AbortConfirmed(g) ==
    \/ adapter.gen = g /\ Reaped(TRUE) /\ terminal' = "none"
    \/ ClosedBefore(g) /\ UNCHANGED runtime

\* Abort's errors: the adapter went without reporting the terminal closed
\* (ErrTerminalCloseUnconfirmed), or there is no such adapter to ask.
AbortUnconfirmed(g) == adapter.gen = g /\ Reaped(FALSE) /\ terminal' \in {terminal, "none"}
AbortRefused(g) == adapter.gen # g /\ ~ClosedBefore(g) /\ UNCHANGED runtime

\* Detach: the adapter goes, the terminal stays.
Detach(g) ==
    IF adapter.gen = g THEN Reaped(FALSE) /\ UNCHANGED terminal ELSE UNCHANGED runtime

\* reapOnOutputEnd: the adapter exits by itself, alone or with its CLI.
AdapterExits == Reaped(FALSE) /\ terminal' \in {terminal, "none"}
=============================================================================
