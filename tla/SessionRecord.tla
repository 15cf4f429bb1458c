---------------------------- MODULE SessionRecord ----------------------------
(***************************************************************************)
(* internal/domain, session.go: the lifecycle of a session record as pure  *)
(* transitions.  A record keeps its status, the generation of its binding  *)
(* (0 for none), the status a recovery returns to, and whether it has been *)
(* given its generated name.  A transition outside its Can guard returns   *)
(* an error and no record.  The statuses resuming and resume_failed are    *)
(* left out: Resume stores an archived session as ready in one write.      *)
(***************************************************************************)
EXTENDS Naturals

Statuses == {"starting", "ready", "running", "stopping", "closing_after_work",
             "closing", "archived", "awaiting"}
Busy == {"running", "stopping", "closing_after_work"}

NewSession == [status |-> "starting", gen |-> 0, target |-> "none", named |-> FALSE]

transition(s, status) == [s EXCEPT !.status = status, !.target = "none"]
Bound(s) == s.gen # 0

CanStartWork(s) == s.status = "ready"
StartWork(s) == transition(s, "running")
CanBeginStop(s) == s.status = "running"
BeginStop(s) == transition(s, "stopping")
CanFinishWork(s) == s.status \in {"running", "stopping"}
FinishWork(s) == transition(s, "ready")
CanCloseAfterWork(s) == s.status \in {"running", "stopping"}
CloseAfterWork(s) == transition(s, "closing_after_work")
CanBeginClose(s) == Bound(s) /\ s.status \in {"ready", "closing_after_work", "awaiting"}
BeginClose(s) == transition(s, "closing")
Archive(s) == transition(s, "archived")

\* ReadyAt, and ResumeReady of an archived record.
Ready(s, g) == [transition(s, "ready") EXCEPT !.gen = g]

AwaitRecoveryAt_NoTarget(s) == [s EXCEPT !.status = "awaiting"]
AwaitRecoveryAt(s) == [s EXCEPT !.status = "awaiting", !.target = s.status]

\* Recovered: an interrupted start or turn is over, a close intent is kept.
Recovered_Ready(s, g) == [transition(s, "ready") EXCEPT !.gen = g]
Recovered(s, g) ==
    [transition(s, IF s.target \in {"closing", "closing_after_work"} THEN s.target ELSE "ready")
        EXCEPT !.gen = g]

AcceptsDurableInput(s) ==
    s.status = "starting" \/ (s.status = "awaiting" /\ s.target = "starting")
=============================================================================
