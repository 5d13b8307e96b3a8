------------------------------- MODULE Bridge -------------------------------
(***************************************************************************)
(* The per-SUT bookkeeping of vswitch.py (Bridge, IDAllocator, br.vifs,   *)
(* br.vnis, br.tnl_ports, br.with_md) for the integration bridge, driven  *)
(* by the calls a test suite makes through pal.py and overlay.py.  Each   *)
(* call loops over every SUT and runs to completion before the next one   *)
(* (the libraries are single-threaded), so a call is one action.  The    *)
(* flow tables are kept as the name of the rule set a bridge holds.       *)
(***************************************************************************)
EXTENDS Constants, Sequences, FiniteSets

LOCAL INSTANCE SequencesExt

CONSTANTS
    NumSuts,      \* the suts list is 1..NumSuts in this order
    VmsOf,        \* VmsOf[s]: number of VMs topology.py places on SUT s
    FLOW,         \* model value for the string 'flow'
    MaxVifs,      \* bound on Len(br.vifs)
    MaxTnlPorts,  \* bound on Len(br.tnl_ports)
    TnlModes,     \* the (rip_mode, tun_id_mode, tnl_md) deployments to try
    MaxDeploys,   \* bound on the number of tunnel overlay deployments
    DpTypeOf,     \* DpTypeOf[s]: the node's dp_type, "ovs-dpdk" or "ovs-native"
    NumUplinks    \* Len(vswitch.uplinks): the interfaces of the node spec

Suts == 1..NumSuts
VM_VIFS_NUM == 2

(* topology.py: vif idx i of VM g on SUT s, ofp 10 + if_idx_of_host.     *)
GuestVifsOf(s) ==
    [k \in 1..VmsOf[s] * VM_VIFS_NUM |->
        [sut |-> s, vm |-> (k - 1) \div VM_VIFS_NUM + 1,
         idx |-> (k - 1) % VM_VIFS_NUM, ofp |-> OFP_VHOST_BASE + k]]
Guests == UNION {ToSet(GuestVifsOf(s)) : s \in Suts}
\* create_bridge's TapInterface(br_name, OFP_LOCAL); its vni stays VNI_NONE.
Tap(s) == [sut |-> s, vm |-> 0, idx |-> 0, ofp |-> OFP_LOCAL]

(* IDAllocator(name, OFP_TUNNEL_BASE, OFP_TUNNEL_BASE + 100).ids *)
TunnelPool == OFP_TUNNEL_BASE..OFP_TUNNEL_BASE + 100
\* Slip: list(range(min_id, max_id + 2)).
FreshIdsPastEnd == [i \in 1..102 |-> OFP_TUNNEL_BASE + i - 1]
FreshIds == [i \in 1..101 |-> OFP_TUNNEL_BASE + i - 1]

(* sut.vms, the list overlay.py assigns VNIs through: SUT.__init__ sets  *)
(* self.vms = list() and nothing appends to it (the VMs go to numa.vms,  *)
(* which get_vms() reads), so it holds no VM.                            *)
SutVms(s) == << >>

(* The objects br.uplinks can hold: vswitch.uplinks[u] for u in        *)
(* 1..NumUplinks, and the pseudo Uplink "bondif" of _create_uplink_bond_impl. *)
BONDIF == 0
NoOfp  == -1    \* uplink.ofp = None
Uplinks == 1..NumUplinks

(* OvsDpdk._create_uplink_bond_impl: ofp_idx += 1 before each member.    *)
\* Slip: the member ofps counted from the vhost base.
BondMemberOfpVhostBase(i) == OFP_VHOST_BASE + i
BondMemberOfp(i) == OFP_UPLINK_BASE + i

VARIABLES
    bridges,    \* SUTs whose vswitch holds the bridge
    brVifs,     \* brVifs[s]: br.vifs
    brVnis,     \* brVnis[s]: br.vnis, a Seq of [vni, vifs] in key order
    vifVni,     \* vifVni[v]: the vni attribute of guest vif object v
    tnlPorts,   \* tnlPorts[s]: br.tnl_ports, Seq of [rip, vni, ofp]
    tnlIds,     \* tnlIds[s]: br.ofp_ids_tunnel.ids
    withMd,     \* withMd[s]: br.with_md
    flows,      \* flows[s]: the rule set the bridge holds
    ovsPorts,   \* ovsPorts[s]: the guest vifs the switch has as ports
    raised,     \* the exception the last call raised, or "none"
    deploys,    \* number of tunnel overlay deployments so far (bounded)
    brUplinks,  \* brUplinks[s]: br.uplinks, a Seq of Uplinks \cup {BONDIF}
    uplinkOfp   \* uplinkOfp[s][u]: vswitch.uplinks[u].ofp of SUT s

vars == <<bridges, brVifs, brVnis, vifVni, tnlPorts, tnlIds, withMd, flows,
          ovsPorts, raised, deploys, brUplinks, uplinkOfp>>
upVars == <<brUplinks, uplinkOfp>>

\* vif.vni of v under the attribute values vv (the TAP keeps VNI_NONE).
VniOf(vv, v) == IF v.vm = 0 THEN VNI_NONE ELSE vv[v]

---------------------------------------------------------------------------
(* _bridge_add_vni: append to the bucket of vif.vni, creating it last.   *)
BridgeAddVni(vv, vnis, v) ==
    IF \E i \in 1..Len(vnis) : vnis[i].vni = VniOf(vv, v)
    THEN [i \in 1..Len(vnis) |->
            IF vnis[i].vni = VniOf(vv, v) THEN [vnis[i] EXCEPT !.vifs = Append(@, v)]
            ELSE vnis[i]]
    ELSE Append(vnis, [vni |-> VniOf(vv, v), vifs |-> <<v>>])

(* refresh_bridge_vnis: br.vnis = dict(), then _bridge_add_vni per vif.  *)
RefreshBridgeVnis(vv, s) ==
    FoldLeft(LAMBDA acc, v : BridgeAddVni(vv, acc, v), << >>, brVifs[s])

VniKeys(s) == [i \in 1..Len(brVnis[s]) |-> brVnis[s][i].vni]

(* The three vni assignments of overlay.py, by guest vif. *)
ByIdxOnVm(v)   == PyStr(200 + v.idx)
ByIdxOnHost(v) == PyStr(300 + v.ofp - OFP_VHOST_BASE - 1)
Reset(v)       == PyStr(Txt(VNI_NONE))

(* Python: for x in lst: lst.remove(x) -- the iterator's index runs on   *)
(* while the list shrinks under it.  Returns <<what is left, removed>>.  *)
RemoveWhileIterating(lst) ==
    LET RECURSIVE Go(_, _, _)
        Go(l, i, gone) == IF i > Len(l) THEN <<l, gone>>
                          ELSE Go(RemoveAt(l, i), i + 1, Append(gone, l[i]))
    IN Go(lst, 1, << >>)

(* _create_tunnel_ports for SUT s: the (rip, vni) of each port in order. *)
TnlSpecs(s, rip, tun) ==
    LET remotes == SelectSeq([i \in Suts |-> i], LAMBDA r : r # s)
        keys    == VniKeys(s)
    IN IF rip # FLOW
       THEN FoldLeft(LAMBDA acc, r :
                acc \o (IF tun # FLOW
                        THEN [i \in 1..Len(keys) |-> [rip |-> r, vni |-> keys[i]]]
                        ELSE << [rip |-> r, vni |-> FLOW] >>),
                << >>, remotes)
       ELSE IF tun # FLOW
            THEN [i \in 1..Len(keys) |-> [rip |-> FLOW, vni |-> keys[i]]]
            ELSE << [rip |-> FLOW, vni |-> FLOW] >>

(* create_tunnel_port for each spec: ofp = ids.pop(0), append the port. *)
CreateTunnelPorts(s, specs) ==
    [ports |-> tnlPorts[s] \o [i \in 1..Len(specs) |-> specs[i] @@ [ofp |-> tnlIds[s][i]]],
     ids   |-> SubSeq(tnlIds[s], Len(specs) + 1, Len(tnlIds[s]))]

\* Slip: delete_tunnel_port forgets br.ofp_ids_tunnel.put(tnl_port.ofp).
ReleaseIdsNone(ids, gone) == ids

(* delete_tunnel_port: ofp_ids_tunnel.put(ofp) appends each freed id.   *)
ReleaseIds(ids, gone) == ids \o [i \in 1..Len(gone) |-> gone[i].ofp]

\* The number of leading elements of seq that are in the set ok.
OkPrefix(seq, ok) ==
    LET bad == {i \in 1..Len(seq) : seq[i] \notin ok}
    IN IF bad = {} THEN Len(seq) ELSE Min(bad) - 1

---------------------------------------------------------------------------
Init ==
    /\ bridges = {}
    /\ brVifs = [s \in Suts |-> << >>]
    /\ brVnis = [s \in Suts |-> << >>]
    /\ vifVni = [v \in Guests |-> VNI_NONE]
    /\ tnlPorts = [s \in Suts |-> << >>]
    /\ tnlIds = [s \in Suts |-> FreshIds]
    /\ withMd = [s \in Suts |-> FALSE]
    /\ flows = [s \in Suts |-> "absent"]
    /\ ovsPorts = [s \in Suts |-> {}]
    /\ raised = "none"
    /\ deploys = 0
    /\ brUplinks = [s \in Suts |-> << >>]
    /\ uplinkOfp = [s \in Suts |-> [u \in Uplinks |-> NoOfp]]

(* create_bridge on every SUT: a fresh Bridge whose br.vifs and br.vnis *)
(* hold the TAP and whose br.uplinks is empty; OVS starts it with the    *)
(* NORMAL rule.                                                          *)
CreateBridge ==
    /\ bridges = {}
    /\ bridges' = Suts
    /\ brVifs' = [s \in Suts |-> <<Tap(s)>>]
    /\ brVnis' = [s \in Suts |-> << [vni |-> VNI_NONE, vifs |-> <<Tap(s)>>] >>]
    /\ tnlPorts' = [s \in Suts |-> << >>]
    /\ tnlIds' = [s \in Suts |-> FreshIds]
    /\ withMd' = [s \in Suts |-> FALSE]
    /\ flows' = [s \in Suts |-> "normal"]
    /\ ovsPorts' = [s \in Suts |-> {}]
    /\ raised' = "none"
    /\ UNCHANGED <<vifVni, deploys>>

(* create_bridge_on_all_suts. *)
CreateBridgeOnAllSuts ==
    /\ CreateBridge
    /\ brUplinks' = [s \in Suts |-> << >>]
    /\ UNCHANGED uplinkOfp

(* create_uplink_bridge's uplinks on SUT s: <<br.uplinks, the ofps of     *)
(* vswitch.uplinks>>.  Without bond, uplinks[0] at OFP_UPLINK_BASE; with  *)
(* bond, OvsDpdk appends every uplink as a bond member, OvsNative the     *)
(* pseudo "bondif" at OFP_UPLINK_BASE over a kernel bond.                 *)
AttachUplinks(s, bond) ==
    CASE ~bond -> << <<1>>, [uplinkOfp[s] EXCEPT ![1] = OFP_UPLINK_BASE] >>
      [] DpTypeOf[s] = "ovs-dpdk" -> << [u \in Uplinks |-> u], [u \in Uplinks |-> BondMemberOfp(u)] >>
      [] OTHER -> << <<BONDIF>>, uplinkOfp[s] >>

(* uplink.ofp of each entry of br.uplinks, as the flow compiler reads it. *)
UplinkOfps(s) ==
    [i \in 1..Len(brUplinks[s]) |->
        IF brUplinks[s][i] = BONDIF THEN OFP_UPLINK_BASE ELSE uplinkOfp[s][brUplinks[s][i]]]

(* setup_uplink_bridge_on_all_suts: create_bridge, the TEP addresses on   *)
(* its local port, then the uplinks.                                     *)
SetupUplinkBridgeOnAllSuts(bond) ==
    /\ CreateBridge
    /\ brUplinks' = [s \in Suts |-> AttachUplinks(s, bond)[1]]
    /\ uplinkOfp' = [s \in Suts |-> AttachUplinks(s, bond)[2]]

(* delete_bridge on every SUT: del-br, and the Bridge object is dropped. *)
DeleteBridge ==
    /\ bridges = Suts
    /\ bridges' = {}
    /\ flows' = [s \in Suts |-> "absent"]
    /\ ovsPorts' = [s \in Suts |-> {}]
    /\ raised' = "none"
    /\ UNCHANGED <<brVifs, brVnis, vifVni, tnlPorts, tnlIds, withMd, deploys,
                   brUplinks>>

(* delete_bridge_on_all_suts. *)
DeleteBridgeOnAllSuts == DeleteBridge /\ UNCHANGED uplinkOfp

(* teardown_uplink_bridge_on_all_suts: delete_uplink_bridge sets the ofp *)
(* of every uplink in br.uplinks to None, then delete_bridge.           *)
TeardownUplinkBridgeOnAllSuts ==
    /\ DeleteBridge
    /\ uplinkOfp' = [s \in Suts |-> [u \in Uplinks |->
                        IF u \in ToSet(brUplinks[s]) THEN NoOfp ELSE uplinkOfp[s][u]]]

(* add_vif_ports_on_all_suts: create_vhost_user_interface per vif, then  *)
(* _bridge_add_vif.  OvsDpdk's impl runs add-port (RuntimeError if the   *)
(* port exists), OvsNative's only writes the vif's ifup and ifdown       *)
(* scripts, which QEMU runs.  The first failure ends the whole call.     *)
Native(v) == DpTypeOf[v.sut] = "ovs-native"

AddVifPortsOnAllSuts ==
    /\ bridges = Suts
    /\ \A s \in Suts : Len(brVifs[s]) + Len(GuestVifsOf(s)) <= MaxVifs
    /\ LET all  == FoldLeft(LAMBDA acc, s : acc \o GuestVifsOf(s), << >>, [i \in Suts |-> i])
           n    == OkPrefix(all, {v \in Guests : Native(v) \/ v \notin ovsPorts[v.sut]})
           done == SubSeq(all, 1, n)
           mine(s) == SelectSeq(done, LAMBDA v : v.sut = s)
       IN /\ brVifs' = [s \in Suts |-> brVifs[s] \o mine(s)]
          /\ brVnis' = [s \in Suts |->
                FoldLeft(LAMBDA acc, v : BridgeAddVni(vifVni, acc, v), brVnis[s], mine(s))]
          /\ ovsPorts' = [s \in Suts |-> ovsPorts[s] \cup {v \in ToSet(mine(s)) : ~Native(v)}]
          /\ raised' = IF n < Len(all) THEN "RuntimeError" ELSE "none"
    /\ UNCHANGED <<bridges, vifVni, tnlPorts, tnlIds, withMd, flows, deploys, upVars>>

(* delete_vif_ports_on_all_suts: del-port per vif; br.vifs and br.vnis  *)
(* are left as they are.                                                 *)
DeleteVifPortsOnAllSuts ==
    /\ bridges = Suts
    /\ LET all == FoldLeft(LAMBDA acc, s : acc \o GuestVifsOf(s), << >>, [i \in Suts |-> i])
           n   == OkPrefix(all, {v \in Guests : v \in ovsPorts[v.sut]})
       IN /\ ovsPorts' = [s \in Suts |-> ovsPorts[s] \ ToSet(SubSeq(all, 1, n))]
          /\ raised' = IF n < Len(all) THEN "RuntimeError" ELSE "none"
    /\ UNCHANGED <<bridges, brVifs, brVnis, vifVni, tnlPorts, tnlIds, withMd,
                   flows, deploys, upVars>>

(* OvsNative's scripts, run by QEMU as it brings the vif's tap up and    *)
(* down: add-port with ofport_request = vif.ofp, and del-port.  A script *)
(* whose command fails changes nothing.                                  *)
VifIfup(v) ==
    /\ Native(v) /\ v.sut \in bridges /\ v \in ToSet(brVifs[v.sut]) /\ v \notin ovsPorts[v.sut]
    /\ ovsPorts' = [ovsPorts EXCEPT ![v.sut] = @ \cup {v}]
    /\ UNCHANGED <<bridges, brVifs, brVnis, vifVni, tnlPorts, tnlIds, withMd, flows,
                   raised, deploys, upVars>>
VifIfdown(v) ==
    /\ Native(v) /\ v \in ovsPorts[v.sut]
    /\ ovsPorts' = [ovsPorts EXCEPT ![v.sut] = @ \ {v}]
    /\ UNCHANGED <<bridges, brVifs, brVnis, vifVni, tnlPorts, tnlIds, withMd, flows,
                   raised, deploys, upVars>>

(* set_vif_vni_by_idx_on_vm, set_vif_vni_by_idx_on_host and            *)
(* reset_vif_vni_on_all_suts: "for vm in sut.vms: for vif in vm.vifs"   *)
(* set vif.vni, then refresh_bridge_vnis on each SUT.                    *)
SetVifVni(how) ==
    LET vv == [v \in Guests |->
                 IF v.vm \notin ToSet(SutVms(v.sut)) THEN vifVni[v]
                 ELSE CASE how = "on_vm"   -> ByIdxOnVm(v)
                        [] how = "on_host" -> ByIdxOnHost(v)
                        [] how = "reset"   -> Reset(v)]
    IN /\ vifVni' = vv
       /\ brVnis' = [s \in Suts |-> IF s \in bridges THEN RefreshBridgeVnis(vv, s)
                                    ELSE brVnis[s]]
       /\ raised' = "none"
       /\ UNCHANGED <<bridges, brVifs, tnlPorts, tnlIds, withMd, flows, ovsPorts, deploys, upVars>>

(* deploy_vni_as_tunnel_overlay: _create_tunnel_ports on every SUT, the  *)
(* default pipeline on every SUT, then _tunnel_overlay_flow_setup, which *)
(* adds the tlv map and sets br.with_md when tnl_md is on.               *)
DeployTunnelOverlay(rip, tun, md) ==
    LET made(s) == CreateTunnelPorts(s, TnlSpecs(s, rip, tun))
    IN /\ bridges = Suts
       /\ deploys < MaxDeploys
       /\ \A s \in Suts : Len(made(s).ports) <= MaxTnlPorts
       /\ deploys' = deploys + 1
       /\ tnlPorts' = [s \in Suts |-> made(s).ports]
       /\ tnlIds' = [s \in Suts |-> made(s).ids]
       /\ withMd' = [s \in Suts |-> withMd[s] \/ md]
       /\ flows' = [s \in Suts |-> "tnl"]
       /\ raised' = "none"
       /\ UNCHANGED <<bridges, brVifs, brVnis, vifVni, ovsPorts, upVars>>

(* undeploy_vni_as_tunnel_overlay: _overlay_flow_clear (del-flows, the  *)
(* tlv map and br.with_md), then _delete_tunnel_ports, which calls      *)
(* delete_tunnel_port while iterating br.tnl_ports.                     *)
UndeployTunnelOverlay ==
    LET del(s) == RemoveWhileIterating(tnlPorts[s])
    IN /\ bridges = Suts
       /\ flows' = [s \in Suts |-> "none"]
       /\ withMd' = [s \in Suts |-> FALSE]
       /\ tnlPorts' = [s \in Suts |-> del(s)[1]]
       /\ tnlIds' = [s \in Suts |-> ReleaseIds(tnlIds[s], del(s)[2])]
       /\ raised' = "none"
       /\ UNCHANGED <<bridges, brVifs, brVnis, vifVni, ovsPorts, deploys, upVars>>

(* deploy_vni_as_vlan_overlay: default pipeline, then                    *)
(* _l2_overlay_flow_setup(br_name, 'vlan') on every SUT.                 *)
DeployVlanOverlay ==
    /\ bridges = Suts
    /\ flows' = [s \in Suts |-> "vlan"]
    /\ raised' = "none"
    /\ UNCHANGED <<bridges, brVifs, brVnis, vifVni, tnlPorts, tnlIds, withMd, ovsPorts, deploys, upVars>>

(* deploy_vni_as_qinq_overlay: default pipeline on every SUT, then per   *)
(* SUT clear_input_output_flows and generate_input_flows, whose          *)
(* vif.vni + 100 raises TypeError on the first vif with a str VNI:       *)
(* earlier SUTs hold the qinq rules, that SUT has no INPUT/OUTPUT rules, *)
(* later SUTs keep the default pipeline.                                 *)
DeployQinqOverlay ==
    LET strVni(s) == \E i \in 1..Len(brVifs[s]) : PyAdd(VniOf(vifVni, brVifs[s][i]), 100) = TypeError
        bad == {s \in Suts : strVni(s)}
        first == IF bad = {} THEN NumSuts + 1 ELSE Min(bad)
    IN /\ bridges = Suts
       /\ flows' = [s \in Suts |-> CASE s < first -> "qinq"
                                       [] s = first -> "cleared"
                                       [] OTHER     -> "default"]
       /\ raised' = IF bad = {} THEN "none" ELSE "TypeError"
       /\ UNCHANGED <<bridges, brVifs, brVnis, vifVni, tnlPorts, tnlIds, withMd, ovsPorts, deploys, upVars>>

(* undeploy_vni_as_vlan_overlay, undeploy_vni_as_qinq_overlay:           *)
(* _overlay_flow_clear.                                                  *)
UndeployL2Overlay ==
    /\ bridges = Suts
    /\ flows' = [s \in Suts |-> "none"]
    /\ withMd' = [s \in Suts |-> FALSE]
    /\ raised' = "none"
    /\ UNCHANGED <<bridges, brVifs, brVnis, vifVni, tnlPorts, tnlIds, ovsPorts, deploys, upVars>>

(* Any undeploy without the bridge: the first del-flows of               *)
(* _overlay_flow_clear fails and execute raises RuntimeError.             *)
UndeployWithoutBridge ==
    /\ bridges = {}
    /\ raised' = "RuntimeError"
    /\ UNCHANGED <<bridges, brVifs, brVnis, vifVni, tnlPorts, tnlIds, withMd, flows,
                   ovsPorts, deploys, upVars>>

Next ==
    \/ CreateBridgeOnAllSuts
    \/ DeleteBridgeOnAllSuts
    \/ \E bond \in BOOLEAN : SetupUplinkBridgeOnAllSuts(bond)
    \/ TeardownUplinkBridgeOnAllSuts
    \/ AddVifPortsOnAllSuts
    \/ DeleteVifPortsOnAllSuts
    \/ \E how \in {"on_vm", "on_host", "reset"} : SetVifVni(how)
    \/ \E m \in TnlModes : DeployTunnelOverlay(m[1], m[2], m[3])
    \/ UndeployTunnelOverlay
    \/ DeployVlanOverlay
    \/ DeployQinqOverlay
    \/ UndeployL2Overlay
    \/ UndeployWithoutBridge
    \/ \E v \in Guests : VifIfup(v) \/ VifIfdown(v)

Spec == Init /\ [][Next]_vars

---------------------------------------------------------------------------
\* VNI_NONE, its string, and the strings _VNI_BASE_BY_IDX_ON_VM and
\* _VNI_BASE_BY_IDX_ON_HOST number the vifs of a VM and of a host with.
Vni == {VNI_NONE, PyStr(Txt(VNI_NONE))}
       \cup {PyStr(200 + i) : i \in 0..VM_VIFS_NUM - 1}
       \cup UNION {{PyStr(300 + i) : i \in 0..VM_VIFS_NUM * VmsOf[s] - 1} : s \in Suts}
Vif == Guests \cup {Tap(s) : s \in Suts}

TypeOK ==
    /\ bridges \subseteq Suts
    /\ \A s \in Suts :
        /\ brVifs[s] \in Seq(Vif)
        /\ \A i \in 1..Len(brVnis[s]) : brVnis[s][i].vni \in Vni /\ brVnis[s][i].vifs \in Seq(Vif)
        /\ ToSet(tnlIds[s]) \subseteq TunnelPool
        /\ ovsPorts[s] \subseteq Guests
        /\ withMd[s] \in BOOLEAN
        /\ flows[s] \in {"absent", "normal", "none", "default", "cleared", "tnl", "vlan", "qinq"}
    /\ vifVni \in [Guests -> Vni]
    /\ raised \in {"none", "RuntimeError", "TypeError"}
    /\ \A s \in Suts : /\ brUplinks[s] \in Seq(Uplinks \cup {BONDIF})
                       /\ uplinkOfp[s] \in [Uplinks -> {NoOfp} \cup Nat]

(* The tunnel ofp allocator neither leaks nor hands out an id twice:    *)
(* across create_tunnel_port and delete_tunnel_port, the free ids and   *)
(* the ofps of br.tnl_ports are together each id of the pool once.      *)
TunnelIdsConserved ==
    \A s \in bridges :
        /\ Len(tnlIds[s]) + Len(tnlPorts[s]) = Cardinality(TunnelPool)
        /\ ToSet(tnlIds[s]) \cup {tnlPorts[s][i].ofp : i \in 1..Len(tnlPorts[s])} = TunnelPool

(* The ports of bridge s the flow compiler names by ofp: the vifs of     *)
(* br.vifs (the TAP included), br.tnl_ports and br.uplinks.              *)
LivePorts(s) ==
    {[id |-> <<"vif", v.vm, v.idx>>, ofp |-> v.ofp] : v \in ToSet(brVifs[s])}
    \cup {[id |-> <<"tnl", i, 0>>, ofp |-> tnlPorts[s][i].ofp] : i \in 1..Len(tnlPorts[s])}
    \cup {[id |-> <<"uplink", brUplinks[s][i], 0>>, ofp |-> UplinkOfps(s)[i]] :
            i \in 1..Len(brUplinks[s])}

(* No two live ports of a bridge share an ofp, and none has ofp None:    *)
(* vif ofps come from topology.py's numbering, tunnel ofps from          *)
(* br.ofp_ids_tunnel, uplink ofps are written into the shared Uplink     *)
(* objects by create_uplink_bridge and cleared by delete_uplink_bridge,  *)
(* across any sequence of bridge, vif, uplink and overlay calls.  A      *)
(* clash would make the OUTPUT and INPUT rules of flowutils.py send a    *)
(* port's traffic to another port.                                       *)
PortIdsDisjoint ==
    \A s \in bridges :
        \A p, q \in LivePorts(s) : /\ p.ofp # NoOfp
                                  /\ p.ofp = q.ofp => p.id = q.id

(* undeploy_vni_as_tunnel_overlay removes every tunnel port the          *)
(* deployments created: after the call br.tnl_ports is empty on every    *)
(* SUT, so the next deployment starts from no ports.                     *)
UndeployRemovesTunnelPorts ==
    [][UndeployTunnelOverlay => \A s \in Suts : tnlPorts'[s] = << >>]_vars

=============================================================================
