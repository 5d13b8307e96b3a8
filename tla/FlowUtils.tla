----------------------------- MODULE FlowUtils -----------------------------
(***************************************************************************)
(* The OpenFlow pipeline compiler of flowutils.py, the table numbering of  *)
(* constants.py and the tunnel-port creation of overlay.py, as pure        *)
(* operators over one bridge per SUT.  A flow rule is a record            *)
(*     [table, prio, match, acts]                                          *)
(* where match is a function from the match fields the compiler uses to   *)
(* their values and acts is the ordered action list; each action is a     *)
(* record [op, arg] standing for the text the compiler writes.             *)
(***************************************************************************)
EXTENDS Constants, Sequences, FiniteSets

LOCAL INSTANCE SequencesExt

CONSTANTS
    NumSuts,    \* number of SUTs; the suts list is 1..NumSuts in this order
    Vifs,       \* Vifs[s]: br.vifs of SUT s, a Seq of [ofp, mac, vni]
    Uplinks,    \* Uplinks[s]: the ofps of br.uplinks of SUT s
    Deploy,     \* "native", "tnl", "vlan" or "qinq"
    TnlMd,      \* tunnel metadata enabled (GENEVE tlv map)
    RipMode,    \* rip_mode of deploy_vni_as_tunnel_overlay: FLOW or "fixed"
    TunIdMode,  \* tun_id_mode of deploy_vni_as_tunnel_overlay: FLOW or "fixed"
    FLOW        \* model value for the string 'flow'

Suts == 1..NumSuts

ASSUME Deploy \in {"native", "tnl", "vlan", "qinq"}
ASSUME TnlMd \in BOOLEAN /\ (TnlMd => Deploy = "tnl")

(* The static value written to tun_metadata1. *)
MD1 == 1234567890

(* An action of a rule; op names the action verb the compiler writes. *)
A(op, arg) == [op |-> op, arg |-> arg]
Rule(table, prio, match, acts) ==
    [table |-> table, prio |-> prio, match |-> match, acts |-> acts]

(* Map a sequence elementwise and concatenate the results. *)
SeqMap(s, F(_)) == [i \in 1..Len(s) |-> F(s[i])]
Concat(ss) == FoldLeft(LAMBDA acc, x : acc \o x, <<>>, ss)

---------------------------------------------------------------------------
(* vswitch.py: br.vnis, built by _bridge_add_vni for every vif in br.vifs *)
(* order (create_vhost_user_interface or refresh_bridge_vnis): the keys   *)
(* in order of first appearance, each bucket in br.vifs order.            *)
VniKeys(s) ==
    FoldLeft(LAMBDA acc, v : IF v.vni \in ToSet(acc) THEN acc
                             ELSE Append(acc, v.vni),
             <<>>, Vifs[s])

\* Slip: refresh_bridge_vnis re-adds every vif without clearing br.vnis.
VniBucketNoReset(s, vni) == SelectSeq(Vifs[s] \o Vifs[s], LAMBDA v : v.vni = vni)

VniBucket(s, vni) == SelectSeq(Vifs[s], LAMBDA v : v.vni = vni)

LocalOfps(s, vni) == SeqMap(VniBucket(s, vni), LAMBDA v : v.ofp)

(* overlay.py _create_tunnel_ports with vswitch.py create_tunnel_port:   *)
(* the ports in creation order, each taking the next id of the fresh     *)
(* tunnel IDAllocator (ids.pop(0) of 100..200).                           *)
Remotes(s) == SelectSeq([i \in Suts |-> i], LAMBDA r : r # s)

TnlSpecs(s) ==
    IF RipMode # FLOW
    THEN Concat(SeqMap(Remotes(s), LAMBDA r :
            IF TunIdMode # FLOW
            THEN SeqMap(VniKeys(s), LAMBDA k : [rip |-> r, vni |-> k])
            ELSE << [rip |-> r, vni |-> FLOW] >>))
    ELSE IF TunIdMode # FLOW
         THEN SeqMap(VniKeys(s), LAMBDA k : [rip |-> FLOW, vni |-> k])
         ELSE << [rip |-> FLOW, vni |-> FLOW] >>

TnlPorts(s) ==
    IF Deploy # "tnl" THEN <<>>
    ELSE LET sp == TnlSpecs(s)
         IN [i \in 1..Len(sp) |-> sp[i] @@ [ofp |-> OFP_TUNNEL_BASE + i - 1]]

---------------------------------------------------------------------------
(* _tnl_as: actions to send on one tunnel port.  With rip 'flow' it sets  *)
(* tun_dst once per remote SUT, all before the single output.             *)
TnlAs(s, tp) ==
       (IF tp.rip = FLOW THEN SeqMap(Remotes(s), LAMBDA r : A("set_tun_dst", r))
                         ELSE <<>>)
    \o (IF tp.vni = FLOW THEN << A("move_reg0_tun_id", 0) >> ELSE <<>>)
    \o (IF TnlMd THEN << A("move_reg0_md0", 0), A("set_md1", MD1) >> ELSE <<>>)
    \o << A("out", tp.ofp) >>

(* _uplink_as: vlan pushes reg0[0..11]; qinq pushes the inner tag from    *)
(* reg0[0..11], then the outer one from reg0[16..27].                     *)
UplinkAs(deploy) ==
    IF deploy = "vlan" THEN << A("push_tag", "lo") >>
    ELSE << A("push_tag", "lo"), A("push_tag", "hi") >>

UplinkOuts(s) == SeqMap(Uplinks[s], LAMBDA u : A("out", u))

(* generate_output_flows, flooding part, for one vni. *)
\* Slip in the tunnel-port filter of the flood: 'and' for 'or'.
FloodFromLocalOrFilter(s, vni, lofp) ==
    LET others == SelectSeq(LocalOfps(s, vni), LAMBDA o : o # lofp)
        ext == CASE Deploy = "tnl" ->
                      Concat(SeqMap(SelectSeq(TnlPorts(s),
                                     LAMBDA tp : tp.vni = FLOW /\ tp.vni = vni),
                                    LAMBDA tp : TnlAs(s, tp)))
                 [] Deploy \in {"vlan", "qinq"} -> UplinkAs(Deploy) \o UplinkOuts(s)
                 [] OTHER -> UplinkOuts(s)
    IN Rule(OF_TABLE_OUTPUT, 100, [in_port |-> lofp, reg1 |-> 0],
            SeqMap(others, LAMBDA o : A("out", o)) \o ext)

FloodFromLocal(s, vni, lofp) ==
    LET others == SelectSeq(LocalOfps(s, vni), LAMBDA o : o # lofp)
        ext == CASE Deploy = "tnl" ->
                      Concat(SeqMap(SelectSeq(TnlPorts(s),
                                     LAMBDA tp : tp.vni = FLOW \/ tp.vni = vni),
                                    LAMBDA tp : TnlAs(s, tp)))
                 [] Deploy \in {"vlan", "qinq"} -> UplinkAs(Deploy) \o UplinkOuts(s)
                 [] OTHER -> UplinkOuts(s)
    IN Rule(OF_TABLE_OUTPUT, 100, [in_port |-> lofp, reg1 |-> 0],
            SeqMap(others, LAMBDA o : A("out", o)) \o ext)

FloodFromExternal(s, vni) ==
    LET outs == SeqMap(LocalOfps(s, vni), LAMBDA o : A("out", o))
    IN CASE Deploy = "tnl" ->
              SeqMap(TnlPorts(s), LAMBDA tp :
                 Rule(OF_TABLE_OUTPUT, 100,
                      IF TnlMd
                      THEN [in_port |-> tp.ofp, reg0 |-> Txt(vni), reg1 |-> 0,
                            md0 |-> Txt(vni), md1 |-> MD1]
                      ELSE [in_port |-> tp.ofp, reg0 |-> Txt(vni), reg1 |-> 0],
                      outs))
         [] Deploy \in {"vlan", "qinq"} ->
              SeqMap(Uplinks[s], LAMBDA u :
                 Rule(OF_TABLE_OUTPUT, 100,
                      [in_port |-> u, reg0lo |-> Txt(vni), reg1 |-> 0], outs))
         [] OTHER ->
              SeqMap(Uplinks[s], LAMBDA u :
                 Rule(OF_TABLE_OUTPUT, 100, [in_port |-> u, reg1 |-> 0], outs))

FloodFlows(s) ==
    Concat(SeqMap(VniKeys(s), LAMBDA vni :
              SeqMap(LocalOfps(s, vni), LAMBDA o : FloodFromLocal(s, vni, o))
           \o FloodFromExternal(s, vni)))

(* generate_output_flows, unicast part. *)
UnicastFlows(s) ==
    LET ext == CASE Deploy = "tnl" ->
                      SeqMap(TnlPorts(s), LAMBDA tp :
                         Rule(OF_TABLE_OUTPUT, 20, [reg1 |-> tp.ofp], TnlAs(s, tp)))
                 [] Deploy \in {"vlan", "qinq"} ->
                      SeqMap(Uplinks[s], LAMBDA u :
                         Rule(OF_TABLE_OUTPUT, 20, [reg1 |-> u],
                              UplinkAs(Deploy) \o << A("out", u) >>))
                 [] OTHER ->
                      SeqMap(Uplinks[s], LAMBDA u :
                         Rule(OF_TABLE_OUTPUT, 20, [reg1 |-> u], << A("out", u) >>))
        md == IF TnlMd
              THEN Concat(SeqMap(TnlPorts(s), LAMBDA tp :
                      SeqMap(VniKeys(s), LAMBDA vni :
                         Rule(OF_TABLE_OUTPUT, 15,
                              [in_port |-> tp.ofp, md0 |-> Txt(vni), md1 |-> MD1],
                              << A("out_reg1", 0) >>))))
              ELSE <<>>
        vif == SeqMap(Vifs[s], LAMBDA v :
                  Rule(OF_TABLE_OUTPUT, 10, [reg1 |-> v.ofp], << A("out", v.ofp) >>))
    IN ext \o md \o vif

GenerateOutputFlows(s) == FloodFlows(s) \o UnicastFlows(s)

(* generate_input_flows: load the packet's VNI into reg0. *)
GenerateInputFlows(s) ==
    IF Deploy = "native"
    THEN << Rule(OF_TABLE_INPUT, 100, << >>, << A("goto", OF_TABLE_ACL) >>) >>
    ELSE
      SeqMap(Vifs[s], LAMBDA v :
        Rule(OF_TABLE_INPUT, 100, [in_port |-> v.ofp],
             IF Deploy = "qinq"
             THEN << A("load_lo", Txt(v.vni)), A("load_hi", PyAdd(v.vni, 100)),
                     A("goto", OF_TABLE_ACL) >>
             ELSE << A("load_reg0", Txt(v.vni)), A("goto", OF_TABLE_ACL) >>))
      \o
      CASE Deploy = "tnl" ->
             SeqMap(TnlPorts(s), LAMBDA tp :
               Rule(OF_TABLE_INPUT, 100, [in_port |-> tp.ofp],
                    << A("move_tun_id_reg0", 0), A("goto", OF_TABLE_ACL) >>))
        [] Deploy = "vlan" ->
             SeqMap(Uplinks[s], LAMBDA u :
               Rule(OF_TABLE_INPUT, 100, [in_port |-> u],
                    << A("pop_tag_to", "lo"), A("goto", OF_TABLE_ACL) >>))
        [] OTHER ->
             SeqMap(Uplinks[s], LAMBDA u :
               Rule(OF_TABLE_INPUT, 100, [in_port |-> u],
                    << A("pop_tag_to", "hi"), A("pop_tag_to", "lo"),
                       A("goto", OF_TABLE_ACL) >>))

---------------------------------------------------------------------------
(* provision_flows: ovs-ofctl add-flow, one rule after another; a rule   *)
(* with the same table, priority and match replaces the earlier one.     *)
Provision(flows) ==
    FoldLeft(LAMBDA T, r : {x \in T : ~(x.table = r.table /\ x.prio = r.prio
                                        /\ x.match = r.match)} \cup {r},
             {}, flows)

=============================================================================
