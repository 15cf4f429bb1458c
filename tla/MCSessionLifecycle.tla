------------------------- MODULE MCSessionLifecycle -------------------------
(***************************************************************************)
(* SessionLifecycle with every choice of three events of the environment   *)
(* besides one prompt, and of one when the initial start fails for good.   *)
(***************************************************************************)
EXTENDS SessionLifecycle

Events == {"prompt", "rename", "submitFail", "stop", "close", "expiry", "attachFail", "resume",
           "standby", "exit", "crash", "startFail", "fault", "unconfirmed"}
Once(es) == [e \in Events |-> IF e \in es THEN 1 ELSE 0]
FailedStart(es) == [Once(es) EXCEPT !["startFail"] = MaxAttempts]
MCBudgets ==
    {Once({"prompt", a, b, c}) : a, b, c \in Events}
        \cup {FailedStart({"prompt", a}) : a \in Events}
=============================================================================
