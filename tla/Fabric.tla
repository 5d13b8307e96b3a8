------------------------------- MODULE Fabric -------------------------------
(***************************************************************************)
(* The overlay data plane that the flows of FlowUtils program: one        *)
(* integration bridge per SUT running the default pipeline of            *)
(* setup_default_pipeline_on_all_suts with the INPUT and OUTPUT tables   *)
(* replaced by the overlay deployment (_tunnel_overlay_flow_setup or     *)
(* _l2_overlay_flow_setup).  Guests send frames; a bridge handles one    *)
(* arriving frame per step through INPUT, ACL, CORE (learn), NAT,        *)
(* L2_MATCH (FIB lookup) and OUTPUT, executing the chosen rule's action   *)
(* list in order; outputs reach a guest, the other SUTs' uplinks, or the *)
(* remote end of a tunnel.                                                *)
(***************************************************************************)
EXTENDS Constants, Sequences, FiniteSets

LOCAL INSTANCE SequencesExt
LOCAL INSTANCE BagsExt

CONSTANTS
    NumSuts,        \* number of SUTs, in suts list order 1..NumSuts
    Deployments,    \* the deployments a test may make: [deploy, md, rip, tun]
    VifsFor(_),     \* VifsFor(d)[s]: br.vifs of SUT s under deployment d
    UplinksFor(_),  \* UplinksFor(d)[s]: the uplink ofps on the bridge
    FLOW,           \* model value for the string 'flow'
    BCAST,          \* the broadcast destination MAC
    MaxPkts         \* bound on the number of frames the guests send

Suts == 1..NumSuts

\* The flow compiler of FlowUtils with the arguments of deployment d.
FU(d) == INSTANCE FlowUtils WITH Vifs <- VifsFor(d), Uplinks <- UplinksFor(d),
                                 Deploy <- d.deploy, TnlMd <- d.md,
                                 RipMode <- d.rip, TunIdMode <- d.tun

VARIABLES
    dep,        \* the deployment in force (chosen once, at the start)
    inflight,   \* bag of frames arriving at a bridge port: [sut, port, frame]
    fib,        \* fib[s]: the learned FIB table of SUT s, [key, mac] -> port
    sent,       \* history: the frames the guests sent, indexed by pid
    delivered   \* history: bag of [pid, sut, ofp] handed to a guest vif

vars == <<dep, inflight, fib, sent, delivered>>

NoMd == -1                  \* tunnel metadata option absent

\* Per deployment: the tunnel ports and the uplinks of each SUT.
TnlPortsOf == [d \in Deployments |-> [s \in Suts |-> FU(d)!TnlPorts(s)]]
TnlPorts(s) == TnlPortsOf[dep][s]
Uplinks == UplinksFor(dep)

VifSet(s) == ToSet(VifsFor(dep)[s])
VifAt(s, ofp) == CHOOSE v \in VifSet(s) : v.ofp = ofp
\* vhost-user vifs of the guests (the bridge's own TAP has OFP_LOCAL)
GuestVifs(s) == {v \in VifSet(s) : v.ofp > OFP_VHOST_BASE}
Guests == UNION {{<<s, v.ofp>> : v \in GuestVifs(s)} : s \in Suts}
GuestMacs == UNION {{v.mac : v \in GuestVifs(s)} : s \in Suts}

\* The flow tables each bridge holds after the deployment.
InTab  == [d \in Deployments |-> [s \in Suts |-> FU(d)!Provision(FU(d)!GenerateInputFlows(s))]]
OutTab == [d \in Deployments |-> [s \in Suts |-> FU(d)!Provision(FU(d)!GenerateOutputFlows(s))]]

---------------------------------------------------------------------------
(* OpenFlow semantics of the match fields and actions the compiler uses. *)
(* reg0 and tun_id are 32 bits wide; the VNIs the overlays use are far   *)
(* below 2^31, so the 32-bit loads and moves keep their value.  The      *)
(* 12-bit VLAN fields and the 16-bit load into reg1 keep their width.    *)
SetBits(x, lo, w, v) ==
    LET m == 2^lo
        k == 2^w
    IN x - ((x \div m) % k) * m + (v % k) * m
TagBit(which) == IF which = "lo" THEN 0 ELSE 16
TagOf(reg0, which) == (reg0 \div 2^TagBit(which)) % 4096

Field(p, f) == IF f = "reg0lo" THEN p.reg0 % 4096 ELSE p[f]
Matches(r, p) == \A f \in DOMAIN r.match : Field(p, f) = r.match[f]
\* The highest-priority matching rules; several when rules overlap.
Top(T, p) ==
    LET M == {r \in T : Matches(r, p)}
    IN {r \in M : \A q \in M : q.prio <= r.prio}

\* output: a copy of the packet as modified so far; never to in_port.
Output(acc, port) ==
    IF port = acc.pkt.in_port THEN acc
    ELSE [acc EXCEPT !.outs = Append(@, <<port, acc.pkt>>)]

Apply(acc, a) ==
    LET p == acc.pkt
        Set(f, v) == [acc EXCEPT !.pkt[f] = v]
    IN CASE a.op = "out"              -> Output(acc, a.arg)
         [] a.op = "out_reg1"         -> Output(acc, p.reg1)
         [] a.op = "set_tun_dst"      -> Set("tun_dst", a.arg)
         [] a.op = "move_reg0_tun_id" -> Set("tun_id", p.reg0)
         [] a.op = "move_reg0_md0"    -> Set("md0", p.reg0)
         [] a.op = "set_md1"          -> Set("md1", a.arg)
         [] a.op = "push_tag"         -> Set("vlans", <<TagOf(p.reg0, a.arg)>> \o p.vlans)
         [] a.op = "load_reg0"        -> Set("reg0", a.arg)
         [] a.op = "load_lo"          -> Set("reg0", SetBits(p.reg0, 0, 12, a.arg))
         [] a.op = "load_hi"          -> Set("reg0", SetBits(p.reg0, 16, 12, Txt(a.arg)))
         [] a.op = "move_tun_id_reg0" -> Set("reg0", p.tun_id)
         [] a.op = "pop_tag_to"       ->
              [acc EXCEPT !.pkt.reg0 = SetBits(p.reg0, TagBit(a.arg), 12,
                                               IF p.vlans = <<>> THEN 0 ELSE Head(p.vlans)),
                          !.pkt.vlans = IF @ = <<>> THEN @ ELSE Tail(@)]
         [] a.op = "goto"             -> acc

Exec(acts, p) == FoldLeft(Apply, [pkt |-> p, outs |-> <<>>], acts)

---------------------------------------------------------------------------
(* What leaves a bridge port.  An uplink reaches the uplink of every     *)
(* other SUT (the physical network floods).  A tunnel port sends to its   *)
(* remote_ip, or to tun_dst when remote_ip is 'flow', with its key or    *)
(* tun_id when the key is 'flow'; the remote bridge takes it in on the   *)
(* tunnel port whose remote_ip and key accept it, or drops it.           *)
Wire(q) == [pid |-> q.pid, src |-> q.src, dst |-> q.dst, vlans |-> q.vlans,
            tun_id |-> 0, tun_dst |-> 0, md0 |-> NoMd, md1 |-> NoMd]

Egress(s, port, q) ==
    LET tps == {tp \in ToSet(TnlPorts(s)) : tp.ofp = port}
    IN IF port \in ToSet(Uplinks[s])
       THEN {[sut |-> t, port |-> Uplinks[t][1], frame |-> Wire(q)] :
               t \in {t \in Suts \ {s} : Uplinks[t] # <<>>}}
       ELSE IF tps = {} THEN {}
       ELSE LET tp  == CHOOSE tp \in tps : TRUE
                dst == IF tp.rip = FLOW THEN q.tun_dst ELSE tp.rip
                key == IF tp.vni = FLOW THEN q.tun_id ELSE Txt(tp.vni)
            IN IF dst \notin Suts \ {s} THEN {}
               ELSE {[sut |-> dst, port |-> tq.ofp,
                      frame |-> [Wire(q) EXCEPT !.tun_id = key, !.tun_dst = dst,
                                                !.md0 = q.md0, !.md1 = q.md1]] :
                       tq \in {tq \in ToSet(TnlPorts(dst)) :
                                 /\ tq.rip \in {FLOW, s}
                                 /\ tq.vni = FLOW \/ Txt(tq.vni) = key}}

Route(s, acc, o) ==
    IF o[1] \in {v.ofp : v \in GuestVifs(s)}
    THEN [acc EXCEPT !.dl = BagAdd(@, [pid |-> o[2].pid, sut |-> s, ofp |-> o[1]])]
    ELSE [acc EXCEPT !.arr = @ (+) SetToBag(Egress(s, o[1], o[2]))]

Emit(s, outs) ==
    FoldLeft(LAMBDA acc, o : Route(s, acc, o), [dl |-> EmptyBag, arr |-> EmptyBag], outs)

---------------------------------------------------------------------------
Init ==
    /\ dep \in Deployments
    /\ inflight = EmptyBag
    /\ fib = [s \in Suts |-> << >>]
    /\ sent = << >>
    /\ delivered = EmptyBag

(* A guest transmits a frame on its vhost-user vif. *)
Send(s, v, dst) ==
    /\ Len(sent) < MaxPkts
    /\ sent' = Append(sent, [sut |-> s, ofp |-> v.ofp, vni |-> v.vni, dst |-> dst])
    /\ inflight' = BagAdd(inflight,
          [sut |-> s, port |-> v.ofp,
           frame |-> [pid |-> Len(sent) + 1, src |-> v.mac, dst |-> dst,
                      vlans |-> << >>, tun_id |-> 0, tun_dst |-> 0,
                      md0 |-> NoMd, md1 |-> NoMd]])
    /\ UNCHANGED <<dep, fib, delivered>>

(* The bridge of SUT a.sut handles one arriving frame end to end:        *)
(* ADMISS -> INPUT (reg0 := VNI) -> ACL -> CORE (learn the source into   *)
(* FIB) -> NAT -> L2_MATCH (resubmit FIB: reg1 := learned port, then      *)
(* resubmit OUTPUT).  A table miss drops the frame.                       *)
NoRule == [prio |-> -1, acts |-> << >>]

\* Slips in the learn action: ETH_DST learned from ETH_DST, or reg1 loaded.
LearnDst(fibs, p) == ([key |-> p.reg0, mac |-> p.dst] :> p.in_port % 2^16) @@ fibs
LearnReg1(fibs, p) == ([key |-> p.reg0, mac |-> p.src] :> p.reg1 % 2^16) @@ fibs

(* CORE: learn(table=FIB, NXM_NX_REG0[0..31], NXM_OF_ETH_DST[]=NXM_OF_ETH_SRC[], *)
(* load:NXM_OF_IN_PORT[]->NXM_NX_REG1[0..15]); a learned flow with the   *)
(* same match replaces the earlier one.                                   *)
Learn(fibs, p) == ([key |-> p.reg0, mac |-> p.src] :> p.in_port % 2^16) @@ fibs
Pick(T, p) == IF Top(T, p) = {} THEN {NoRule} ELSE Top(T, p)

Process(a) ==
    LET s  == a.sut
        p0 == a.frame @@ [in_port |-> a.port, reg0 |-> 0, reg1 |-> 0]
    IN \E ri \in Pick(InTab[dep][s], p0) :
       LET p1   == Exec(ri.acts, p0).pkt
           fib1 == IF ri = NoRule THEN fib[s]
                   ELSE Learn(fib[s], p1)
           k    == [key |-> p1.reg0, mac |-> p1.dst]
           p2   == IF k \in DOMAIN fib1 THEN [p1 EXCEPT !.reg1 = fib1[k]] ELSE p1
       IN \E ro \in IF ri = NoRule THEN {NoRule} ELSE Pick(OutTab[dep][s], p2) :
          LET e == Emit(s, Exec(ro.acts, p2).outs)
          IN /\ fib' = [fib EXCEPT ![s] = fib1]
             /\ inflight' = BagRemove(inflight, a) (+) e.arr
             /\ delivered' = delivered (+) e.dl
             /\ UNCHANGED <<dep, sent>>

Next ==
    \/ \E s \in Suts : \E v \in GuestVifs(s) :
          \E dst \in (GuestMacs \ {v.mac}) \cup {BCAST} : Send(s, v, dst)
    \/ \E a \in BagToSet(inflight) : Process(a)

Spec == Init /\ [][Next]_vars

---------------------------------------------------------------------------
Frame == [pid : Nat, src : GuestMacs, dst : GuestMacs \cup {BCAST},
          vlans : Seq(0..4095), tun_id : Nat, tun_dst : Suts \cup {0},
          md0 : Nat \cup {NoMd}, md1 : Nat \cup {NoMd}]

TypeOK ==
    /\ dep \in Deployments
    /\ BagToSet(inflight) \subseteq [sut : Suts, port : Nat, frame : Frame]
    /\ \A s \in Suts : \A k \in DOMAIN fib[s] : k.mac \in GuestMacs /\ fib[s][k] \in Nat
    /\ \A i \in 1..Len(sent) : sent[i].dst \in GuestMacs \cup {BCAST}
    /\ BagToSet(delivered) \subseteq [pid : 1..Len(sent), sut : Suts, ofp : Nat]

Sender(pid) == sent[pid]
Quiescent == BagToSet(inflight) = {}

(* The guests a frame is meant for: every other vif on the sender's VNI  *)
(* for a broadcast, the vif owning the destination MAC when it is on the *)
(* sender's VNI for a unicast.                                            *)
Intended(pid) ==
    {g \in Guests :
        /\ VifAt(g[1], g[2]).vni = Sender(pid).vni
        /\ g # <<Sender(pid).sut, Sender(pid).ofp>>
        /\ Sender(pid).dst \in {BCAST, VifAt(g[1], g[2]).mac}}

(* A guest receives each frame at most once and never its own frame      *)
(* back: flooding skips the ingress vif, external frames are flooded     *)
(* only to local vifs, and a remote SUT accepts it on one port only.     *)
DeliveredOnce ==
    \A d \in BagToSet(delivered) :
        /\ CopiesIn(d, delivered) = 1
        /\ <<d.sut, d.ofp>> # <<Sender(d.pid).sut, Sender(d.pid).ofp>>

(* Once the fabric is idle, every frame has reached every guest it is   *)
(* meant for: the flood list of a vif holds the other local vifs of its *)
(* VNI and the external ports, a learned FIB entry leads to the owner.   *)
DeliveryComplete ==
    Quiescent =>
        \A pid \in 1..Len(sent) : \A g \in Intended(pid) :
            [pid |-> pid, sut |-> g[1], ofp |-> g[2]] \in BagToSet(delivered)

(* reg0 as the INPUT table of a bridge loads it for a VNI. *)
KeyOf(vni) ==
    CASE dep.deploy = "native" -> 0
      [] dep.deploy = "qinq"   -> Txt(vni) + (Txt(vni) + 100) * 65536
      [] OTHER             -> Txt(vni)

\* The ports of SUT s that lead towards SUT t.
PortsTowards(s, t) ==
    ToSet(Uplinks[s]) \cup {tp.ofp : tp \in {tp \in ToSet(TnlPorts(s)) : tp.rip \in {FLOW, t}}}

(* The CORE learn action only records what is true: a FIB entry of SUT s *)
(* for (key, mac) names the vif of that MAC when it is local, or a port  *)
(* towards its SUT when it is remote, and key is the reg0 of its VNI.    *)
FibSound ==
    \A s \in Suts : \A k \in DOMAIN fib[s] :
        \E t \in Suts : \E v \in GuestVifs(t) :
            /\ v.mac = k.mac
            /\ k.key = KeyOf(v.vni)
            /\ fib[s][k] \in IF t = s THEN {v.ofp} ELSE PortsTowards(s, t)

=============================================================================
