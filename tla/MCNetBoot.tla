----------------------------- MODULE MCNetBoot -----------------------------
(* Instances of NetBoot for TLC.                                           *)
EXTENDS NetBoot

\* No fault, each alone, those of the network together, and all.
AllFaultSets == {{}, {"lose", "dup", "slow"}, Faults} \cup {{f} : f \in Faults}
=============================================================================
