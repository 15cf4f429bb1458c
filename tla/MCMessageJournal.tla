------------------------- MODULE MCMessageJournal -------------------------
(***************************************************************************)
(* MessageJournal on small instances.  Identities are interchangeable:     *)
(* owners, tokens, payloads, kinds and receipts by TLC's symmetry, and     *)
(* messages and outputs, which are numbers, by enqueuing them in order.    *)
(***************************************************************************)
EXTENDS MessageJournal, TLC

Symmetry ==
    Permutations(Owners) \cup Permutations(Tokens) \cup Permutations(Payloads)
        \cup Permutations(Kinds)

InOrder(records) ==
    \A i, j \in DOMAIN records :
        i < j => \/ records[j].Phase = "absent"
                 \/ records[i].Phase # "absent" /\ records[i].Sequence < records[j].Sequence

\* Three inputs and their recovery, or two outputs and the refusal of a third, or
\* an input and two outputs in their common sequence, which is all that the two
\* lanes share.
Within ==
    /\ InOrder(session.Inputs) /\ InOrder(session.Outputs)
    /\ \/ InputsIn(session, InputPhases) \subseteq {1} /\ session.Recovery = NoRecovery
       \/ OutputsIn(session, OutputPhases) = {}

BoundedNext == Next /\ Within'
BoundedSpec == Init /\ [][BoundedNext]_vars
=============================================================================
