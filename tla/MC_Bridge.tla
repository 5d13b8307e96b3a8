----------------------------- MODULE MC_Bridge -----------------------------
EXTENDS Bridge

\* One VM (two vifs) per SUT.
MCVmsOf == [s \in Suts |-> 1]

\* SUT 1 runs OVS-DPDK, the others the kernel datapath; two interfaces each.
MCDpTypeOf == [s \in Suts |-> IF s = 1 THEN "ovs-dpdk" ELSE "ovs-native"]

\* Fixed remote ip and key, and both 'flow' with tunnel metadata.
MCTnlModes == {<<"fixed", "fixed", FALSE>>, <<FLOW, FLOW, TRUE>>}

=============================================================================
