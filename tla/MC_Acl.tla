------------------------------- MODULE MC_Acl -------------------------------
(***************************************************************************)
(* Two SUTs.  SUT 1 has a VM on NUMA node 0 and one on node 1 (topology   *)
(* fills numa 0 first); SUT 2 one VM on node 0.  So a sep has a dep on    *)
(* its node of no VM, a dep on the other node of its host, and one on the *)
(* other host, in each of the two subnets.                                *)
(***************************************************************************)
EXTENDS Acl

MCVmNumas == [s \in Suts |-> IF s = 1 THEN <<0, 1>> ELSE <<0>>]

TC(sepc, depc, locc) == [sepc |-> sepc, depc |-> depc, locc |-> locc]

\* No locality, cross NUMA (no VM qualifies), cross host; and a source
\* pnic criterion.
MCCriteria == {TC(UNDEF, UNDEF, l) : l \in {UNDEF, XNUMA, XHOST}}
              \cup {TC(NUMA, UNDEF, UNDEF)}

=============================================================================
