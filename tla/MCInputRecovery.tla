--------------------------- MODULE MCInputRecovery ---------------------------
(* InputRecovery on small instances.                                       *)
EXTENDS InputRecovery, TLC

Symmetry == Permutations(MessageIDs) \cup Permutations(Tokens)

Environment(attach, reachable, conclusive, late) ==
    [SupportsAttach |-> attach, Reachable |-> reachable, Conclusive |-> conclusive,
     LateCompletions |-> late]

Attached == Environment(TRUE, FALSE, TRUE, FALSE)
AttachedLate == Environment(TRUE, FALSE, TRUE, TRUE)
Restarted == Environment(FALSE, FALSE, TRUE, TRUE)
Inconclusive == Environment(TRUE, FALSE, FALSE, FALSE)
AllEnvironments == {Attached, AttachedLate, Restarted, Inconclusive}
ReachableOnly == {Environment(TRUE, TRUE, TRUE, TRUE)}
TimelyOnly == {Environment(TRUE, FALSE, TRUE, FALSE)}

\* Two inputs with an awaiting state and a crash (two of them where the provider
\* is restarted); and one input with two awaiting states or one and a crash,
\* with failing writes and a prepared payload.
Within ==
    /\ crashes + Cardinality(used) <= 2
    /\ IF env \in {AttachedLate, Inconclusive}
       THEN Cardinality({m \in MessageIDs : PhaseOf(m) # "absent"}) <= 1
       ELSE /\ faults = 0
            /\ env = Attached => Cardinality(used) <= 1
            /\ \A m \in MessageIDs : session.Inputs[m].Payload # "prepared"

BoundedNext == RecNext /\ Within'
BoundedSpec == RecInit /\ [][BoundedNext]_allVars
FairSpec == RecInit /\ [][RecNext]_allVars /\ RecFairness
=============================================================================
