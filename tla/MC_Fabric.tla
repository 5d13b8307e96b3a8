----------------------------- MODULE MC_Fabric -----------------------------
(***************************************************************************)
(* Topologies and deployments for Fabric.  topology.py numbers the vifs   *)
(* of a SUT from ofp 11 on, two per VM (VM_VIFS_NUM), with MAC            *)
(* 00:00:00:node:guest:if; create_bridge puts the TAP (OFP_LOCAL,         *)
(* VNI_NONE) first in br.vifs.  Every vif keeps VNI_NONE: the VNI        *)
(* assignments of overlay.py loop over sut.vms, which topology.py never  *)
(* fills (see Bridge!SutVms), so every deployment runs with one VNI.      *)
(***************************************************************************)
EXTENDS Fabric

\* The TAP of SUT s followed by the vifs of its VMs.
TapOf(s) == [ofp |-> 0, mac |-> <<s, 0, 0>>, vni |-> PyInt(0)]
VniOfIdx(d, i) == VNI_NONE
VmVifs(d, s, g) ==
    << [ofp |-> 10 + 2 * g - 1, mac |-> <<s, g, 1>>, vni |-> VniOfIdx(d, 0)],
       [ofp |-> 10 + 2 * g,     mac |-> <<s, g, 2>>, vni |-> VniOfIdx(d, 1)] >>

\* SUT 1 runs two VMs, every other SUT one.
MCVifs(d) == [s \in Suts |-> <<TapOf(s)>> \o VmVifs(d, s, 1) \o
                             (IF s = 1 THEN VmVifs(d, s, 2) ELSE << >>)]

\* tnl mode keeps the uplinks on the physical bridge; vlan, qinq and
\* native put the single non-bond uplink (OFP_UPLINK_BASE) on the
\* integration bridge.
MCUplinks(d) == [s \in Suts |-> IF d.deploy = "tnl" THEN << >> ELSE <<OFP_UPLINK_BASE>>]

\* setup_uplink_bridge_on_all_suts(br, bond=True) on OvsDpdk: the bond
\* members dpdk1 and dpdk2 are in br.uplinks with ofps OFP_UPLINK_BASE + 1
\* and + 2 (Bridge!UplinkOfps); the physical switch takes them as one LAG.
MCDpdkBondUplinks(d) == [s \in Suts |-> <<OFP_UPLINK_BASE + 1, OFP_UPLINK_BASE + 2>>]

Dep(deploy, md, rip, tun) == [deploy |-> deploy, md |-> md, rip |-> rip, tun |-> tun]

\* The deployments the two-SUT run chooses among.
MCDeployments ==
    { Dep("native", FALSE, "fixed", "fixed"),
      Dep("vlan", FALSE, "fixed", "fixed"),
      Dep("qinq", FALSE, "fixed", "fixed"),
      Dep("tnl", FALSE, "fixed", "fixed"),
      Dep("tnl", TRUE, FLOW, FLOW) }

\* The single deployments of the three-SUT runs.
MCTnlFlow  == { Dep("tnl", FALSE, FLOW, FLOW) }
MCTnlFixed == { Dep("tnl", FALSE, "fixed", "fixed") }

\* The deployments that flood through the uplinks.
MCUplinkDeps == { Dep("native", FALSE, "fixed", "fixed"), Dep("vlan", FALSE, "fixed", "fixed") }

=============================================================================
