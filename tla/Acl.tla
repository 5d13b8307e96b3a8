-------------------------------- MODULE Acl --------------------------------
(***************************************************************************)
(* The conntrack ACL of conntrack.py, the verify topology of pal.py that   *)
(* chooses the endpoints it is tested with, and the connections guests    *)
(* open through it.  A test calls the library one call at a time and a    *)
(* verification runs one ping or iperf session at a time, so at most one  *)
(* connection is open and library calls happen between connections.       *)
(* Each SUT has its own conntrack table and its own ACL table; a packet   *)
(* crosses the ACL of the sender's SUT and, when the receiver is on       *)
(* another SUT, the ACL of the receiver's SUT, entering it on the trunk   *)
(* port (the tunnel port or the uplink of the integration bridge).        *)
(***************************************************************************)
EXTENDS Constants, Sequences, FiniteSets

LOCAL INSTANCE SequencesExt

CONSTANTS
    NumSuts,    \* suts = 1..NumSuts
    VmNumas,    \* VmNumas[s]: the NUMA node topology.py places each VM of
                \* SUT s on, in get_vms() order (numa by numa)
    Deploys,    \* the overlays the bridges may run: "native", "tnl", ...
    Protos,     \* the L4 protocols guests open connections with
    AclProtos,  \* the proto arguments a test gives the ACL calls
    Criteria,   \* the TopologyCriteria a test gives verify_topology_get
    MaxGuarded  \* bound on the (sep, proto) pairs allow_originate closes

Suts == 1..NumSuts
VM_VIFS_NUM == 2

(* pal.py Locality. *)
UNDEF == 0
NUMA  == 1
XNUMA == 2
XHOST == 3

---------------------------------------------------------------------------
(* topology.py: vif idx i of the g-th VM of SUT s (get_vms() order): ofp  *)
(* OFP_VHOST_BASE + if_idx_of_host, MAC 00:00:00:node:guest:if, address   *)
(* 172.(168 + i).node.guest/16, so two vifs share a subnet iff they have  *)
(* the same index on their VMs (vif.has_same_subnet).                      *)
EP == UNION {{[host |-> s, guest |-> g, idx |-> i] :
                 g \in 1..Len(VmNumas[s]), i \in 0..VM_VIFS_NUM - 1} : s \in Suts}
Ofp(e) == OFP_VHOST_BASE + (e.guest - 1) * VM_VIFS_NUM + e.idx + 1
Mac(e) == <<e.host, e.guest, e.idx + 1>>
SameSubnet(a, b) == a.idx = b.idx

(* vm.numa_id: VirtualMachine.__init__ sets 0 and topology.py, placing    *)
(* the VM on numa.vms, never sets it.                                      *)
VmNumaId(s, g) == 0

(* vif.vni: VNI_NONE for every guest vif (overlay.py assigns VNIs through *)
(* sut.vms, which holds no VM; see Bridge!SutVms).                        *)
VniOf(e) == VNI_NONE

\* The endpoints of SUT s in the loop order of verify_topology_get.
EPsOf(s) == SetToSortSeq({e \in EP : e.host = s},
                         LAMBDA a, b : a.guest < b.guest \/ (a.guest = b.guest /\ a.idx < b.idx))
NoEP == [host |-> 0, guest |-> 0, idx |-> 0]

---------------------------------------------------------------------------
(* The verify topology: [allow, deny], each a sequence of entries         *)
(* [sep, numa, xnuma, xhost], the dep_* lists in the order found.         *)
NoVt == [allow |-> << >>, deny |-> << >>]
Entry(sep) == [sep |-> sep, numa |-> << >>, xnuma |-> << >>, xhost |-> << >>]
Vt(allow, deny) == [allow |-> allow, deny |-> deny]
Err(ex) == [ok |-> FALSE, ex |-> ex, vt |-> NoVt, sep |-> NoEP]
Ok(vt, sep) == [ok |-> TRUE, ex |-> "none", vt |-> vt, sep |-> sep]

(* The pnic_loc filter: "sut.pnic.numa_id" is evaluated for a NUMA or     *)
(* XNUMA criterion, and a SUT object has no attribute pnic.               *)
PnicRaises(loc) == loc \in {NUMA, XNUMA}

(* VerifyTopologyEntry.get_deps: the first dep of each locality. *)
GetDeps(vte) ==
    LET first(l) == IF l = << >> THEN << >> ELSE <<Head(l)>>
    IN first(vte.numa) \o first(vte.xnuma) \o first(vte.xhost)

(* _get_vte(vte_list, sep) and the append of dep to the list of its      *)
(* locality: the entry for sep is the one found, else a new one last.    *)
AddDep(lst, sep, dep) ==
    LET loc == IF sep.host # dep.host THEN "xhost"
               ELSE IF VmNumaId(sep.host, sep.guest) # VmNumaId(dep.host, dep.guest)
               THEN "xnuma" ELSE "numa"
        at  == {i \in 1..Len(lst) : lst[i].sep = sep}
        lst2 == IF at = {} THEN Append(lst, Entry(sep)) ELSE lst
        i   == IF at = {} THEN Len(lst2) ELSE CHOOSE i \in at : TRUE
    IN [lst2 EXCEPT ![i][loc] = Append(@, dep)]

(* verify_topology_get(tc): the sep is vif 0 of the first VM of suts[0]  *)
(* that passes tc.sepc; then every vif of a VM passing tc.locc and        *)
(* tc.depc, in a subnet with the sep, is a dep of the allow entry when    *)
(* its vni equals the sep's and of the deny entry otherwise.              *)
VerifyTopologyGet(tc) ==
    LET seps == SelectSeq(EPsOf(1), LAMBDA e : e.idx = 0)
        hostOk(s, sep) == ~ (tc.locc = XHOST /\ s = sep.host)
                          /\ ~ (tc.locc \in {NUMA, XNUMA} /\ s # sep.host)
        numaOk(e, sep) == ~ (tc.locc = NUMA /\ VmNumaId(e.host, e.guest) # VmNumaId(sep.host, sep.guest))
                          /\ ~ (tc.locc = XNUMA /\ VmNumaId(e.host, e.guest) = VmNumaId(sep.host, sep.guest))
        all == FoldLeft(LAMBDA acc, s : acc \o EPsOf(s), << >>, [i \in Suts |-> i])
        cands(sep) == SelectSeq(all, LAMBDA e : hostOk(e.host, sep) /\ numaOk(e, sep))
        deps(sep) == SelectSeq(cands(sep), LAMBDA e : e # sep /\ SameSubnet(e, sep))
        fill(sep) == FoldLeft(LAMBDA vt, e :
                        IF VniOf(e) = VniOf(sep) THEN [vt EXCEPT !.allow = AddDep(@, sep, e)]
                        ELSE [vt EXCEPT !.deny = AddDep(@, sep, e)],
                        NoVt, deps(sep))
    IN IF seps = << >> THEN Err("RuntimeError")
       ELSE IF PnicRaises(tc.sepc) THEN Err("AttributeError")
       ELSE IF PnicRaises(tc.depc) /\ cands(Head(seps)) # << >> THEN Err("AttributeError")
       ELSE Ok(fill(Head(seps)), Head(seps))

(* verify_topology_allow_originate(vt): the first allow entry stays the  *)
(* only allow entry; each of its deps becomes the sep of a deny entry   *)
(* whose one dep, in the same locality list, is the original sep.        *)
AllowOriginate(vt) ==
    LET vte == Head(vt.allow)
        rev(loc) == [i \in 1..Len(vte[loc]) |-> [Entry(vte[loc][i]) EXCEPT ![loc] = <<vte.sep>>]]
    IN IF vt.allow = << >> THEN Err("RuntimeError")
       ELSE Ok(Vt(<<vte>>, rev("numa") \o rev("xnuma") \o rev("xhost")), vte.sep)

(* verify_topology_select_pair(vt, loc): the first allow entry cut to the *)
(* first dep of the locality loc.                                          *)
SelectPair(vt, loc) ==
    LET vte == Head(vt.allow)
        key == CASE loc = "NUMA" -> "numa" [] loc = "XNUMA" -> "xnuma" [] OTHER -> "xhost"
    IN IF vt.allow = << >> THEN Err("RuntimeError")
       ELSE IF loc \notin {"NUMA", "XNUMA", "XHOST"} \/ vte[key] = << >> THEN Err("RuntimeError")
       ELSE Ok(Vt(<<[Entry(vte.sep) EXCEPT ![key] = <<Head(vte[key])>>]>>, << >>), vte.sep)

(* verify_topology_change_allow_to_deny / _deny_to_allow: move one list *)
(* to the other in place; RuntimeError when the source list is empty.   *)
ChangeAllowToDeny(vt) ==
    IF vt.allow = << >> THEN Err("RuntimeError") ELSE Ok(Vt(<< >>, vt.allow), NoEP)
ChangeDenyToAllow(vt) ==
    IF vt.deny = << >> THEN Err("RuntimeError") ELSE Ok(Vt(vt.deny, << >>), NoEP)

---------------------------------------------------------------------------
(* An ACL rule [prio, match, act].  A match maps field names to values;   *)
(* its "ct_state" is [on, off], the flags written +x and -x.  An action   *)
(* is [op, zone]: "ct" is ct(zone=reg0[0..15],table=ACL), "commit" is     *)
(* ct(commit,zone=<zone>) then goto CORE, "goto" is goto_table CORE.      *)
Act(op, zone) == [op |-> op, zone |-> zone]
Rule(prio, match, act) == [prio |-> prio, match |-> match, act |-> act]
St(on, off) == [on |-> on, off |-> off]
NoMatch == [f \in {} |-> 0]
REG0 == -1   \* the zone of "ct" rules, read from the packet's reg0

\* The ct_zone ct(zone=reg0[0..15]) tracks a packet of register reg0 in.
\* Slip: zone=reg0, the whole register.
ZoneOfWhole(reg0) == reg0
ZoneOf(reg0) == reg0 % 65536

(* reg0 as INPUT leaves it, for every port, when every vif has VNI_NONE: *)
(* native loads nothing, tnl and vlan load the VNI, qinq loads the VNI   *)
(* into bits 0..11 and vni + 100 into bits 16..27.                       *)
Reg0(d) == CASE d = "native" -> 0
             [] d = "qinq"   -> Txt(VNI_NONE) + Txt(PyAdd(VNI_NONE, 100)) * 65536
             [] OTHER        -> Txt(VNI_NONE)

(* The trunk of a bridge: its one tunnel port (two SUTs, one VNI) for tnl, *)
(* its one uplink otherwise.                                              *)
Trunks(d) == IF d = "tnl" THEN <<OFP_TUNNEL_BASE>> ELSE <<OFP_UPLINK_BASE>>

(* br.vnis as refresh_bridge_vnis builds it: the TAP and every guest vif  *)
(* keep VNI_NONE, so one bucket holds br.vifs in order.                   *)
Buckets(s) == << [vni |-> VNI_NONE,
                  ofps |-> <<OFP_LOCAL>> \o [i \in 1..Len(EPsOf(s)) |-> Ofp(EPsOf(s)[i])]] >>

V6(p) == p \o "6"

(* The protocols _generate_flow_track_proto tracks for proto. *)
TrackProtos(proto) ==
    IF proto = "udp" THEN <<"tcp", "tcp6", "udp", "udp6">> ELSE <<proto, V6(proto)>>

\* Slip: the +trk+new rule goes on to CORE without committing.
NewActionNoCommit(vni) == Act("goto", 0)

\* Slip: commit in the zone of the whole qinq reg0, outer tag included.
NewActionRegZone(vni) == Act("commit", Txt(vni) + Txt(PyAdd(vni, 100)) * 65536)

(* The action of the +trk+new rule: ct(commit,zone=<vni>), goto CORE. *)
NewAction(vni) == Act("commit", Txt(vni))

(* _generate_flow_track_proto(vni, ofp, proto): the later-fragment rule, *)
(* then per tracked protocol: untracked -> ct in the zone of reg0, new   *)
(* in the VNI's zone -> commit, established (or its reply) -> CORE.      *)
GenerateFlowTrackProto(vni, ofp, proto) ==
    << Rule(100, [in_port |-> ofp, dl_type |-> "ipv6", ip_frag |-> "later",
                  ct_state |-> St({}, {"trk"})], Act("ct", REG0)) >>
    \o FoldLeft(LAMBDA acc, p : acc \o
         << Rule(100, [in_port |-> ofp, proto |-> p, ct_state |-> St({}, {"trk"})], Act("ct", REG0)),
            Rule(100, [in_port |-> ofp, proto |-> p, ct_zone |-> Txt(vni),
                       ct_state |-> St({"trk", "new"}, {})], NewAction(vni)),
            Rule(100, [in_port |-> ofp, proto |-> p, ct_zone |-> Txt(vni),
                       ct_state |-> St({"trk", "est"}, {})], Act("goto", 0)),
            Rule(100, [in_port |-> ofp, proto |-> p, ct_zone |-> Txt(vni),
                       ct_state |-> St({"trk", "est", "rpl"}, {})], Act("goto", 0)) >>,
         << >>, TrackProtos(proto))

(* provision_flows: add-flow each rule in order; one with the priority   *)
(* and match of a rule in the table replaces it.                          *)
AddFlows(tbl, flows) ==
    LET key(r) == <<r.prio, r.match>>
        keys   == {key(flows[i]) : i \in DOMAIN flows}
    IN {r \in tbl : key(r) \notin keys}
       \cup {flows[i] : i \in {i \in DOMAIN flows :
                                 \A j \in DOMAIN flows : j > i => key(flows[j]) # key(flows[i])}}

(* The ACL table setup_default_pipeline_on_all_suts installs. *)
DefaultAcl == AddFlows({}, << Rule(1, NoMatch, Act("drop", 0)), Rule(100, NoMatch, Act("goto", 0)) >>)

(* acl_setup_allow_proto_on_all_suts, the flows for SUT s: drop at 1,    *)
(* ARP and ND at 2000, then the tracking rules of every vif by VNI and of *)
(* every trunk port for every VNI.                                        *)
AllowProtoFlows(d, s, proto) ==
    LET keys == Buckets(s)
        vifFlows == FoldLeft(LAMBDA acc, b :
                        acc \o FoldLeft(LAMBDA a2, o : a2 \o GenerateFlowTrackProto(b.vni, o, proto),
                                        << >>, b.ofps), << >>, keys)
        trunkFlows == FoldLeft(LAMBDA acc, b :
                        acc \o FoldLeft(LAMBDA a2, o : a2 \o GenerateFlowTrackProto(b.vni, o, proto),
                                        << >>, Trunks(d)), << >>, keys)
    IN << Rule(1, NoMatch, Act("drop", 0)),
          Rule(2000, [dl_type |-> "arp"], Act("goto", 0)),
          Rule(2000, [proto |-> "icmp6", icmp_type |-> 135], Act("goto", 0)),
          Rule(2000, [proto |-> "icmp6", icmp_type |-> 136], Act("goto", 0)) >>
       \o vifFlows \o trunkFlows

(* acl_setup_allow_originate: drop new or invalid proto and proto6       *)
(* traffic to the sep's MAC, at priority 2000, on the sep's host.         *)
OriginateFlows(sep, proto) ==
    FoldLeft(LAMBDA acc, p : acc \o
        << Rule(2000, [ct_state |-> St({"trk", "new"}, {}), dl_dst |-> Mac(sep), proto |-> p], Act("drop", 0)),
           Rule(2000, [ct_state |-> St({"trk", "inv"}, {}), dl_dst |-> Mac(sep), proto |-> p], Act("drop", 0)) >>,
        << >>, <<proto, V6(proto)>>)

---------------------------------------------------------------------------
(* The data path of the ACL table of one SUT.  A packet is a record of    *)
(* the fields the rules match; "ct" is the set of conntrack flags (empty  *)
(* until the packet has been through ct).                                 *)
Matches(m, pkt) ==
    /\ \A f \in DOMAIN m \ {"ct_state"} : pkt[f] = m[f]
    /\ "ct_state" \in DOMAIN m =>
         m.ct_state.on \subseteq pkt.ct /\ m.ct_state.off \cap pkt.ct = {}

\* The rules of highest priority among those matching: an equal-priority
\* overlap is a choice the switch makes.
Top(tbl, pkt) ==
    LET m == {r \in tbl : Matches(r.match, pkt)}
    IN {r \in m : \A q \in m : q.prio <= r.prio}

(* ct(zone=z): the flags conntrack gives a packet of connection c, going   *)
(* in direction dir.  An entry of c in zone z makes it established, a     *)
(* reply when it runs against the committing direction.  Without one a   *)
(* connection's opening packet, and any UDP packet, is new; a later TCP   *)
(* or ICMP packet is invalid.                                              *)
Lookup(ctTbl, z, c, dir, opening) ==
    LET hits == {e \in ctTbl : e.zone = z /\ e.conn = c}
    IN IF hits # {}
       THEN {"trk", "est"} \cup (IF \E e \in hits : e.dir # dir THEN {"rpl"} ELSE {})
       ELSE IF opening \/ c[3] \in {"udp", "udp6"} THEN {"trk", "new"}
       ELSE {"trk", "inv"}

(* One pass of a packet through the ACL table of a SUT: the set of        *)
(* [fwd, commit] outcomes, commit the conntrack entries it adds.  A "ct"  *)
(* rule recirculates the packet to the table with its flags and zone.     *)
AclOutcomes(tbl, ctTbl, d, pkt, c, dir, opening) ==
    LET Out(fwd, commit) == [fwd |-> fwd, commit |-> commit]
        z    == ZoneOf(Reg0(d))
        pkt2 == [pkt EXCEPT !.ct = Lookup(ctTbl, z, c, dir, opening), !.ct_zone = z]
        Second(r) == CASE r.act.op = "goto"   -> Out(TRUE, {})
                       [] r.act.op = "commit" -> Out(TRUE, {[zone |-> r.act.zone, conn |-> c, dir |-> dir]})
                       [] OTHER               -> Out(FALSE, {})
    IN UNION {CASE r.act.op = "goto" -> {Out(TRUE, {})}
                [] r.act.op = "ct"   -> {Second(r2) : r2 \in Top(tbl, pkt2)}
                [] OTHER             -> {Out(FALSE, {})} : r \in Top(tbl, pkt)}

---------------------------------------------------------------------------
VARIABLES
    dep,       \* the overlay the bridges run (fixed by the suite)
    acl,       \* acl[s]: the rules of the ACL table of SUT s
    ct,        \* ct[s]: the conntrack entries of SUT s, [zone, conn, dir]
    vt,        \* the verify topology the test holds
    raised,    \* the exception the last library call raised, or "none"
    aclProto,  \* the proto of the last acl_setup_allow_proto, "default" before
    guarded,   \* the [mac, protos] acl_setup_allow_originate has closed since
    conn       \* the connection of the current (or last) verification step

vars == <<dep, acl, ct, vt, raised, aclProto, guarded, conn>>

NoConn == [src |-> NoEP, dst |-> NoEP, proto |-> "none", stage |-> 0, at |-> 0,
           port |-> 0, status |-> "idle", reached |-> 0,
           cfg |-> [proto |-> "default", guarded |-> {}]]

\* Packets of a connection: TCP SYN, SYN-ACK, ACK; otherwise request, reply.
Stages(p) == IF p \in {"tcp", "tcp6"} THEN 3 ELSE 2
Sender(c)   == IF c.stage % 2 = 1 THEN c.src ELSE c.dst
Receiver(c) == IF c.stage % 2 = 1 THEN c.dst ELSE c.src
Dir(c)      == IF c.stage % 2 = 1 THEN "orig" ELSE "reply"
ConnId(c)   == <<c.src, c.dst, c.proto>>
Packet(c) ==
    [in_port |-> c.port, dl_type |-> IF c.proto \in {"tcp6", "udp6", "icmp6"} THEN "ipv6" ELSE "ip",
     proto |-> c.proto, ip_frag |-> "no", icmp_type |-> 0, dl_dst |-> Mac(Receiver(c)),
     ct_zone |-> 0, ct |-> {}]

Idle == conn.status # "open"

Init ==
    /\ dep \in Deploys
    /\ acl = [s \in Suts |-> DefaultAcl]
    /\ ct = [s \in Suts |-> {}]
    /\ vt = NoVt
    /\ raised = "none"
    /\ aclProto = "default"
    /\ guarded = {}
    /\ conn = NoConn

(* A guest opens a connection to a vif of its subnet (a ping or iperf of  *)
(* execute_*_verification).                                               *)
Open(src, dst, p) ==
    /\ Idle
    /\ src # dst /\ SameSubnet(src, dst)
    /\ conn' = [src |-> src, dst |-> dst, proto |-> p, stage |-> 1, at |-> src.host,
                port |-> Ofp(src), status |-> "open", reached |-> 0,
                cfg |-> [proto |-> aclProto, guarded |-> guarded]]
    /\ UNCHANGED <<dep, acl, ct, vt, raised, aclProto, guarded>>

(* The bridge of SUT conn.at passes the current packet through its ACL:   *)
(* dropped; delivered to the receiver's vif on this SUT (which answers    *)
(* with the next packet); or sent out of the trunk to the receiver's SUT. *)
(* Once the connection is over its entries can match no later one (other *)
(* ports, another ICMP id), and the model drops them.                     *)
Forward ==
    /\ conn.status = "open"
    /\ LET s == conn.at
           rcv == Receiver(conn)
       IN \E o \in AclOutcomes(acl[s], ct[s], dep, Packet(conn), ConnId(conn), Dir(conn), conn.stage = 1) :
            /\ conn' = IF ~ o.fwd THEN [conn EXCEPT !.status = "dropped"]
                       ELSE IF rcv.host # s
                       THEN [conn EXCEPT !.at = rcv.host, !.port = Trunks(dep)[1]]
                       ELSE IF conn.stage = Stages(conn.proto)
                       THEN [conn EXCEPT !.status = "done", !.reached = @ + 1]
                       ELSE [conn EXCEPT !.stage = @ + 1, !.reached = @ + 1, !.port = Ofp(rcv)]
            /\ ct' = IF conn'.status = "open" THEN [ct EXCEPT ![s] = @ \cup o.commit]
                     ELSE [t \in Suts |-> {}]
    /\ UNCHANGED <<dep, acl, vt, raised, aclProto, guarded>>

(* setup_default_pipeline_on_all_suts (every deploy_* call runs it): the  *)
(* ACL table goes back to drop at 1 and goto CORE at 100.                  *)
SetupDefaultPipeline ==
    /\ Idle
    /\ acl' = [s \in Suts |-> DefaultAcl]
    /\ aclProto' = "default"
    /\ guarded' = {}
    /\ raised' = "none"
    /\ conn' = NoConn
    /\ UNCHANGED <<dep, ct, vt>>

(* acl_setup_allow_proto_on_all_suts(br, proto): per SUT, del-flows on    *)
(* the ACL table, then provision AllowProtoFlows.                          *)
AclSetupAllowProtoOnAllSuts(p) ==
    /\ Idle
    /\ acl' = [s \in Suts |-> AddFlows({}, AllowProtoFlows(dep, s, p))]
    /\ aclProto' = p
    /\ guarded' = {}
    /\ raised' = "none"
    /\ conn' = NoConn
    /\ UNCHANGED <<dep, ct, vt>>

(* acl_setup_allow_originate(br, proto, vt): verify_topology_allow_       *)
(* originate first (its RuntimeError ends the call), then the drop rules  *)
(* on the sep's host; the test keeps the returned verify topology.        *)
AclSetupAllowOriginate(p) ==
    LET r == AllowOriginate(vt)
    IN /\ Idle
       /\ Cardinality(guarded) < MaxGuarded
       /\ raised' = r.ex
       /\ IF r.ok
          THEN /\ acl' = [acl EXCEPT ![r.sep.host] = AddFlows(@, OriginateFlows(r.sep, p))]
               /\ guarded' = guarded \cup {[mac |-> Mac(r.sep), protos |-> {p, V6(p)}]}
               /\ vt' = r.vt
          ELSE UNCHANGED <<acl, guarded, vt>>
       /\ conn' = NoConn
       /\ UNCHANGED <<dep, ct, aclProto>>

(* A verify-topology call: vt is replaced on success; an exception leaves  *)
(* it as it was.  A library call ends the verification step before it.   *)
VtCall(r) ==
    /\ Idle
    /\ raised' = r.ex
    /\ vt' = IF r.ok THEN r.vt ELSE vt
    /\ conn' = NoConn
    /\ UNCHANGED <<dep, acl, ct, aclProto, guarded>>

Next ==
    \/ \E src, dst \in EP, p \in Protos : Open(src, dst, p)
    \/ Forward
    \/ SetupDefaultPipeline
    \/ \E p \in AclProtos : AclSetupAllowProtoOnAllSuts(p)
    \/ \E p \in AclProtos : AclSetupAllowOriginate(p)
    \/ \E tc \in Criteria : VtCall(VerifyTopologyGet(tc))
    \/ \E loc \in {"NUMA", "XNUMA", "XHOST"} : VtCall(SelectPair(vt, loc))
    \/ VtCall(ChangeAllowToDeny(vt))
    \/ VtCall(ChangeDenyToAllow(vt))

Spec == Init /\ [][Next]_vars

---------------------------------------------------------------------------
Zones == 0..65535
Status == {"idle", "open", "done", "dropped"}

TypeOK ==
    /\ dep \in Deploys
    /\ \A s \in Suts :
         /\ \A r \in acl[s] : r.prio \in {1, 100, 2000} /\ r.act.op \in {"ct", "commit", "goto", "drop"}
         /\ \A e \in ct[s] : e.zone \in Zones /\ e.dir \in {"orig", "reply"}
    /\ raised \in {"none", "RuntimeError", "AttributeError"}
    /\ aclProto \in AclProtos \cup {"default"}
    /\ conn.status \in Status
    /\ conn.reached \in 0..3

\* The protocols the ACL passes between guests for a proto the test
\* allowed (spec 4.3: udp brings tcp along for iperf's control channel).
AllowedProtos(cfg) ==
    IF cfg.proto = "udp" THEN {"tcp", "tcp6", "udp", "udp6"} ELSE {cfg.proto, V6(cfg.proto)}

\* The connection is opened towards an endpoint acl_setup_allow_originate
\* closed for its protocol.
Closed(c) == \E g \in c.cfg.guarded : g.mac = Mac(c.dst) /\ c.proto \in g.protos

\* What the test asked for: everything under the default ACL; after
\* acl_setup_allow_proto only its protocols, and not towards a closed sep.
Allowed(c) ==
    c.cfg.proto = "default" \/ (c.proto \in AllowedProtos(c.cfg) /\ ~ Closed(c))

(* The ACL does what the test configured (spec 4.3): a connection between *)
(* two guests completes, every packet of it both ways across the ACL of   *)
(* each SUT it passes and its conntrack entries, exactly when the last    *)
(* acl_setup_allow_proto allows its protocol and no                      *)
(* acl_setup_allow_originate closed its destination; and towards a closed *)
(* sep not even the opening packet arrives.                               *)
Verdict ==
    conn.status \in {"done", "dropped"} =>
        /\ conn.status = "done" <=> Allowed(conn)
        /\ conn.cfg.proto # "default" /\ Closed(conn) => conn.reached = 0

=============================================================================
