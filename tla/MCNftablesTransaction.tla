---------------------- MODULE MCNftablesTransaction ----------------------
(* Instances of NftablesTransaction for TLC. *)
EXTENDS NftablesTransaction

CONSTANT v1

OneVersion == {v1}
Lost == {"lost"}
AllFaults == {"lost", "failing"}

\* The constraint of nft_faults: either one transaction with all its attempts and a
\* reboot, or a second one beside what is left of the first, whose provider dies
\* before it hears of its prepare script.
Bounded ==
  \A t \in Tokens : t > 1 /\ client[t].pc # "idle" =>
    client[t].pc = "preparing" /\ client[t - 1].tries =< 1 /\ reboots = 0
=============================================================================
