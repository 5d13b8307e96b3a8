-------------------------------- MODULE Nat --------------------------------
(***************************************************************************)
(* The NAT tests of nat.py: the guests' NAT network configuration         *)
(* (snat_configure_vms, dnat_configure_vms, nat_restore_vms), the NAT     *)
(* tables _nat_setup_flows installs on the client's SUT, and the          *)
(* connections verify_snat and verify_dnat open through them.  All NAT    *)
(* traffic crosses the NAT tables of the client's SUT once, in either     *)
(* direction, so the model keeps one conntrack table: the one of that     *)
(* SUT.  The conntrack is OVS's own (the userspace datapath):             *)
(*   - ct(nat) looks a packet up; a packet of a committed connection is   *)
(*     translated and is +est, a new one is +new, or +new+rel when an     *)
(*     ALG expectation matches it, and is not translated;                 *)
(*   - ct(commit,nat(...)) creates the entry with a free translation of   *)
(*     the range, ct(commit,nat) that of the matching expectation;        *)
(*   - ct(alg=...) makes the connection's ALG expect the data connection  *)
(*     the control connection announces;                                  *)
(*   - of the highest-priority rules a packet matches, OVS takes one, and *)
(*     which one is not defined when several have the same priority.      *)
(* Addresses are [net, idx]: the idx-th address of the client, server or  *)
(* topology network; an IPv4 and an IPv6 address of the same idx play the *)
(* same role, so a tuple carries the family and an address.               *)
(***************************************************************************)
EXTENDS Constants, Integers, Sequences, FiniteSets, TLC

CONSTANTS
    NumDeps,     \* the destination endpoints of vt.allow[0], get_full_deps() order
    SnatCalls,   \* the argument records a test passes verify_snat
    DnatTools,   \* the tool arguments a test passes verify_dnat
    VtAllowInit, \* the len(vt.allow) values of the verify topology given to the tests
    DepLocality  \* DepLocality[d]: the locality list of vte that holds dep d

SEP  == 0
Deps == 1..NumDeps
EPs  == {SEP} \cup Deps
Vers == {4, 6}

Addr(net, i) == [net |-> net, idx |-> i]
NoAddr == Addr("none", 0)        \* if_addr None
TopoAddr(e) == Addr("topo", e)   \* the address topology.py gave the vif

(* nat.py module constants. *)
NAT_SNAT_ADDR_IDX_START     == 10
NAT_SNAT_ADDR_NUM           == 10
NAT_ENDPOINT_ADDR_IDX_START == 100
NAT_SNAT_PORT_START         == 10001
NAT_ROUTER_CIF == Addr("client", 1)
NAT_ROUTER_SIF == Addr("server", 1)
NAT_ROUTER_CIF_MAC == <<"router", 1>>
NAT_ROUTER_SIF_MAC == <<"router", 2>>
VifMac(e) == <<"vif", e>>

(* The ports the guests' tools use. *)
TELNET_PORT == 22
FTP_PORT    == 21
TFTP_PORT   == 69
FTP_DATA_SPORT == 20     \* active mode: the server connects from port 20
FTP_PORT_CPORT == 2000   \* the port curl --ftp-port announces
FTP_PASV_SPORT == 3000   \* the port the server announces in passive mode
TFTP_DATA_SPORT == 4000  \* tftpd answers from a port of its own
CPORT_BASE == 30000      \* the client's i-th socket takes CPORT_BASE + i
NC_PORT == 10000         \* the nc server of _nat_execute_related

(***************************************************************************)
(* NATSpec and generate_nat_action.  The action string OVS parses is the  *)
(* range it denotes: src= or dst=, the addresses ia_start ..              *)
(* ia_start + ia_num - 1 and, when port_num is not 0, the ports           *)
(* port_start .. port_start + port_num - 1.  The IPv6 brackets are syntax *)
(* and the callers pass no flags.                                         *)
(***************************************************************************)
NATSpec(ia, iaNum, portStart, portNum, vip) ==
    [ia |-> ia, ia_num |-> iaNum, port_start |-> portStart,
     port_num |-> portNum, vip |-> vip]
IsSnat(ns) == ns.vip = NoAddr

(* Slip: port_start + port_num as the last port of the range. *)
GenerateNatActionPastEnd(ns) ==
    [kind  |-> IF IsSnat(ns) THEN "src" ELSE "dst",
     addrs |-> {Addr(ns.ia.net, i) : i \in ns.ia.idx .. ns.ia.idx + ns.ia_num - 1},
     ports |-> IF ns.port_num = 0 THEN {}
               ELSE ns.port_start .. (ns.port_start + ns.port_num)]
(* Slip: is_snat read the wrong way round. *)
GenerateNatActionSwapped(ns) ==
    [kind  |-> IF IsSnat(ns) THEN "dst" ELSE "src",
     addrs |-> {Addr(ns.ia.net, i) : i \in ns.ia.idx .. ns.ia.idx + ns.ia_num - 1},
     ports |-> IF ns.port_num = 0 THEN {}
               ELSE ns.port_start .. ns.port_start + ns.port_num - 1]
GenerateNatAction(ns) ==
    [kind  |-> IF IsSnat(ns) THEN "src" ELSE "dst",
     addrs |-> {Addr(ns.ia.net, i) : i \in ns.ia.idx .. ns.ia.idx + ns.ia_num - 1},
     ports |-> IF ns.port_num = 0 THEN {}
               ELSE ns.port_start .. ns.port_start + ns.port_num - 1]

(***************************************************************************)
(* The rules of _nat_setup_flows.  Tables are numbered from OF_TABLE_NAT; *)
(* a match is a record of the packet fields it fixes, its ct field the    *)
(* ct_state flags it requires set and clear.                              *)
(***************************************************************************)
St(on, off) == [on |-> on, off |-> off]
Rule(tbl, prio, match, act) == [tbl |-> tbl, prio |-> prio, match |-> match, act |-> act]
Commit(alg, nat) == [op |-> "commit", alg |-> alg, nat |-> nat]
Resubmit == [op |-> "resubmit"]
Drop == [op |-> "drop"]
CtNat == [op |-> "ct_nat"]
ModDl(dst, src) == [op |-> "mod_dl", dst |-> dst, src |-> src]
NoMatch == [f \in {} |-> 0]
INHERIT == [kind |-> "inherit"]   \* ct(commit,nat): the expectation's NAT

(* Slip: the ipv6 rule left out. *)
NatTable0IpOnly ==
    { Rule(0, 10, [ver |-> 4], CtNat), Rule(0, 0, NoMatch, Drop) }
(* Table 0: ip and ipv6 go through ct(nat), anything else is dropped. *)
NatTable0 ==
    { Rule(0, 10, [ver |-> 4], CtNat), Rule(0, 10, [ver |-> 6], CtNat),
      Rule(0, 0, NoMatch, Drop) }

(* Slip: no rule passes the +rel packets. *)
NatPassRulesEstOnly == { Rule(1, 10, [ct |-> St({"est"}, {})], Resubmit) }
(* Table 1, parts 1.2 and 1.3: +est and +rel packets go on to NAT+2. *)
NatPassRules ==
    { Rule(1, 10, [ct |-> St({"est"}, {})], Resubmit),
      Rule(1, 10, [ct |-> St({"rel"}, {})], Resubmit) }

NatSetupFlows(ns, sepAddr, depAddrs) ==
    LET act  == GenerateNatAction(ns)
        base(v) == [in_port |-> "client", ct |-> St({"new"}, {}), ver |-> v]
                   @@ (IF IsSnat(ns) THEN << >> ELSE [dst |-> ns.vip])
        alg  == { Rule(1, 10, base(v) @@ [proto |-> "tcp", dport |-> FTP_PORT],
                       Commit("ftp", act)) : v \in Vers }
                \cup { Rule(1, 10, base(v) @@ [proto |-> "udp", dport |-> TFTP_PORT],
                            Commit("tftp", act)) : v \in Vers }
        gen  == { Rule(1, 10, base(v) @@ [proto |-> p], Commit("none", act)) :
                    v \in Vers, p \in {"tcp", "udp", "icmp"} }
        rel  == { Rule(1, 10, [ct |-> St({"new", "rel"}, {}), ver |-> v, proto |-> p],
                       Commit("none", INHERIT)) : v \in Vers, p \in {"tcp", "udp"} }
        macs == { Rule(3, 32768, [ver |-> v, dst |-> sepAddr],
                       ModDl(VifMac(SEP), NAT_ROUTER_CIF_MAC)) : v \in Vers }
                \cup { Rule(3, 32768, [ver |-> v, dst |-> depAddrs[d]],
                            ModDl(VifMac(d), NAT_ROUTER_SIF_MAC)) : v \in Vers, d \in Deps }
    IN NatTable0 \cup alg \cup gen \cup rel \cup NatPassRules \cup macs

(***************************************************************************)
(* Tuples, and the conntrack of the client's SUT.  An entry is a          *)
(* connection's original tuple, its reply tuple (translated) and its ALG; *)
(* an expectation is the tuple of the data connection an ALG announced    *)
(* and the translation it inherits.  ICMP keeps its id in both port       *)
(* fields and NAT leaves it alone.                                        *)
(***************************************************************************)
Tup(ver, proto, src, sport, dst, dport) ==
    [ver |-> ver, proto |-> proto, src |-> src, sport |-> sport, dst |-> dst, dport |-> dport]
NoTup == Tup(0, "none", NoAddr, 0, NoAddr, 0)
Reply(t) == [t EXCEPT !.src = t.dst, !.sport = t.dport, !.dst = t.src, !.dport = t.sport]
Entry(orig, xlated, alg) == [orig |-> orig, reply |-> Reply(xlated), alg |-> alg]
NoExp == [tup |-> NoTup, xlate |-> NoTup]

(* An ICMP error (destination unreachable) quoting a packet of a         *)
(* connection, written as the tuple of the connection's direction it     *)
(* travels in: its outer addresses are that direction's, and the ports   *)
(* stand for those of the header it quotes.                               *)
IcmpErr(t) == [t EXCEPT !.proto = "icmp_err"]

(* ct(nat): the ct_state of a packet and the tuple it leaves with.  An  *)
(* ICMP error is +rel to the connection of the header it quotes and is  *)
(* translated with it, outer addresses and quoted header alike; one     *)
(* that quotes no connection is +inv.                                   *)
CtLookup(ct, exps, t) ==
    LET o  == {e \in ct : e.orig = t}
        r  == {e \in ct : e.reply = t}
        x  == {e \in exps : e.tup = t}
        io == {e \in ct : IcmpErr(e.orig) = t}
        ir == {e \in ct : IcmpErr(e.reply) = t}
    IN CASE o # {} -> [st |-> {"trk", "est"}, t |-> Reply((CHOOSE e \in o : TRUE).reply), exp |-> NoExp]
         [] r # {} -> [st |-> {"trk", "est", "rpl"}, t |-> Reply((CHOOSE e \in r : TRUE).orig), exp |-> NoExp]
         [] io # {} -> [st |-> {"trk", "rel"},
                        t |-> IcmpErr(Reply((CHOOSE e \in io : TRUE).reply)), exp |-> NoExp]
         [] ir # {} -> [st |-> {"trk", "rel", "rpl"},
                        t |-> IcmpErr(Reply((CHOOSE e \in ir : TRUE).orig)), exp |-> NoExp]
         [] t.proto = "icmp_err" -> [st |-> {"trk", "inv"}, t |-> t, exp |-> NoExp]
         [] x # {} -> [st |-> {"trk", "new", "rel"}, t |-> t, exp |-> CHOOSE e \in x : TRUE]
         [] OTHER  -> [st |-> {"trk", "new"}, t |-> t, exp |-> NoExp]

(* The translations nat(src=...) or nat(dst=...) may give a new tuple:  *)
(* those whose reply tuple no entry holds yet.                          *)
NatChoices(ct, act, t) ==
    LET ports(p) == IF act.ports = {} \/ t.proto = "icmp" THEN {p} ELSE act.ports
        all == IF act.kind = "src"
               THEN {[t EXCEPT !.src = a, !.sport = p] : a \in act.addrs, p \in ports(t.sport)}
               ELSE {[t EXCEPT !.dst = a, !.dport = p] : a \in act.addrs, p \in ports(t.dport)}
    IN {u \in all : \A e \in ct : e.reply # Reply(u)}

Matches(m, pkt) ==
    /\ \A f \in DOMAIN m \ {"ct"} : pkt[f] = m[f]
    /\ "ct" \in DOMAIN m => (m.ct.on \subseteq pkt.ct /\ m.ct.off \cap pkt.ct = {})
(* The rules of table t OVS may pick for pkt. *)
Top(tbl, t, pkt) ==
    LET m == {r \in tbl : r.tbl = t /\ Matches(r.match, pkt)}
    IN {r \in m : \A q \in m : q.prio <= r.prio}

(***************************************************************************)
(* A packet through tables NAT .. NAT+3 of the client's SUT: the tuple    *)
(* and dl_dst it leaves with and the conntrack after it, or nothing when  *)
(* it is dropped.  A commit of a connection an expectation matches takes  *)
(* the expectation's translation whatever nat() says.                     *)
(***************************************************************************)
NatOutcomes(tbl, ct, exps, p, inPort, dl) ==
    LET l    == CtLookup(ct, exps, p)
        pkt1 == l.t @@ [in_port |-> inPort, ct |-> l.st]
        out(t, ct2, exps2) ==
            LET m == Top(tbl, 3, t @@ [in_port |-> inPort, ct |-> l.st])
            IN IF m = {} THEN {[tf |-> t, dl |-> dl, ct |-> ct2, exps |-> exps2]}
               ELSE {[tf |-> t, dl |-> r.act.dst, ct |-> ct2, exps |-> exps2] : r \in m}
        commit(r) ==
            IF l.exp # NoExp
            THEN out(l.exp.xlate, ct \cup {Entry(p, l.exp.xlate, r.act.alg)}, exps \ {l.exp})
            ELSE IF r.act.nat = INHERIT
            THEN out(p, ct \cup {Entry(p, p, r.act.alg)}, exps)
            ELSE UNION {out(u, ct \cup {Entry(p, u, r.act.alg)}, exps) :
                          u \in NatChoices(ct, r.act.nat, p)}
    IN IF \E r \in Top(tbl, 0, p @@ [in_port |-> inPort, ct |-> {}]) : r.act.op = "drop"
       THEN {}
       ELSE UNION {IF r.act.op = "commit" THEN commit(r) ELSE out(l.t, ct, exps) :
                     r \in Top(tbl, 1, pkt1)}

-----------------------------------------------------------------------------
VARIABLES
    vtAllow,      \* len(vt.allow)
    ifAddr,       \* ifAddr[e]: vif.if_addr of endpoint e
    restoreAddr,  \* restoreAddr[e]: vif.restore_if_addr
    gAddr,        \* gAddr[e]: the address the guest's interface has
    neighs,       \* neighs[e]: the permanent neighbours the guest has
    cfgKind,      \* the NAT kind the guests were last configured for
    tbl,          \* the NAT tables of the client's SUT
    natSpec,      \* the NATSpec they were built from
    ct,           \* its conntrack entries
    exps,         \* its ALG expectations
    conns,        \* the connections of the current verify call
    call          \* the current, or last, verify call

vars == <<vtAllow, ifAddr, restoreAddr, gAddr, neighs, cfgKind, tbl, natSpec, ct, exps, conns, call>>
cfgVars == <<vtAllow, ifAddr, restoreAddr, gAddr, neighs, cfgKind>>

(***************************************************************************)
(* The guests.  _configure_vm gives a guest its address, an on-link route *)
(* for its network, a route to the other NAT network through the router   *)
(* and permanent neighbours.  The NAT router answers no ARP or ND: a next *)
(* hop that is not a permanent neighbour is never reached.                *)
(***************************************************************************)
NextHop(e, dst) ==
    CASE dst.net = gAddr[e].net                          -> dst
      [] gAddr[e].net = "client" /\ dst.net = "server"   -> NAT_ROUTER_CIF
      [] gAddr[e].net = "server" /\ dst.net = "client"   -> NAT_ROUTER_SIF
      [] OTHER                                           -> NoAddr
NeighMac(e) == IF e = SEP THEN NAT_ROUTER_CIF_MAC ELSE NAT_ROUTER_SIF_MAC
(* The guests a frame with dl_dst dl and tuple t is taken in by. *)
Receivers(dl, t) == {g \in EPs : VifMac(g) = dl /\ gAddr[g] = t.dst}

NatAddr(e) ==
    IF e = SEP THEN Addr("client", NAT_ENDPOINT_ADDR_IDX_START)
    ELSE Addr("server", NAT_ENDPOINT_ADDR_IDX_START + e - 1)

Idle == call.result # "pending"

(* _nat_configure_vms, after the tests' own trimming of vt. *)
NatConfigureVms(svrNeighs, kind) ==
    /\ Idle
    /\ vtAllow >= 1
    /\ vtAllow' = 1
    /\ restoreAddr' = ifAddr
    /\ ifAddr' = [e \in EPs |-> NatAddr(e)]
    /\ gAddr' = ifAddr'
    /\ neighs' = [e \in EPs |-> neighs[e] \cup
                    IF e = SEP THEN {NAT_ROUTER_CIF} ELSE {NAT_ROUTER_SIF} \cup svrNeighs]
    /\ cfgKind' = kind
    /\ UNCHANGED <<tbl, natSpec, ct, exps, conns, call>>

SnatConfigureVms ==
    NatConfigureVms({Addr("server", NAT_SNAT_ADDR_IDX_START + i) : i \in 0..NAT_SNAT_ADDR_NUM - 1},
                    "snat")
DnatConfigureVms == NatConfigureVms({}, "dnat")

(* nat_restore_vms puts back vif.if_addr; the guests keep their setup. *)
NatRestoreVms ==
    /\ Idle
    /\ ifAddr' = restoreAddr
    /\ restoreAddr' = [e \in EPs |-> NoAddr]
    /\ cfgKind' = "none"
    /\ UNCHANGED <<vtAllow, gAddr, neighs, tbl, natSpec, ct, exps, conns, call>>

(***************************************************************************)
(* The connections of a verify call.  A leg is one connection: its        *)
(* initiator sends its socket's tuple (stage 1), the guest that takes it  *)
(* answers the tuple it saw (stage 2), and the initiator accepts only an  *)
(* answer to its own socket.  A responder that is not listening on a      *)
(* socket accepts only the tuple "want" fixes (a field left at NoTup's    *)
(* value is free).  FTP and TFTP connections are a control leg and the    *)
(* data leg it announces; telnet and ping have a control leg only.        *)
(***************************************************************************)
FileTools == {"tftp", "ftp_active", "ftp_passive"}
(* The tools whose connections run one after the other, and whose check *)
(* only logs: the file copies and the ICMP related test.                *)
LoggedTools == FileTools \cup {"related"}
ToolProto(tool) ==
    CASE tool = "ping" -> "icmp" [] tool = "tftp" -> "udp" [] OTHER -> "tcp"
ToolPort(tool) ==
    CASE tool = "telnet" -> TELNET_PORT [] tool = "tftp" -> TFTP_PORT [] OTHER -> FTP_PORT

Leg(from, sock, want) ==
    [from |-> from, sock |-> sock, want |-> want, stage |-> 1, seen |-> NoTup,
     peer |-> SEP, status |-> "open"]
NoLeg == [Leg(SEP, NoTup, NoTup) EXCEPT !.status = "none"]
Wants(w, t) ==
    /\ w.src = NoAddr \/ w.src = t.src
    /\ w.dst = NoAddr \/ w.dst = t.dst
    /\ w.dport = 0 \/ w.dport = t.dport
Settled(c) == c.ctl.status \in {"done", "failed"} /\ c.data.status # "open"

(* The client's i-th command: telnet, ping, tftp or curl to dst. *)
MkConn(tool, i, ver, dst) ==
    LET sp == CPORT_BASE + i
    IN [tool |-> tool, data |-> NoLeg,
        ctl  |-> Leg(SEP, Tup(ver, ToolProto(tool), gAddr[SEP], sp, dst,
                              IF tool = "ping" THEN sp ELSE ToolPort(tool)), NoTup)]

(* The data leg a completed control leg l announces, with the ALG of   *)
(* entry e (or "none") telling whether the payload was rewritten.      *)
DataLeg(tool, l, alg) ==
    LET ctlSock == l.sock
        srv == l.seen
    IN CASE tool = "tftp" ->
              Leg(l.peer, Tup(srv.ver, "udp", srv.dst, TFTP_DATA_SPORT, srv.src, srv.sport),
                  [NoTup EXCEPT !.src = ctlSock.dst, !.dst = ctlSock.src, !.dport = ctlSock.sport])
         [] tool = "ftp_active" ->
              Leg(l.peer, Tup(srv.ver, "tcp", srv.dst, FTP_DATA_SPORT,
                              IF alg THEN srv.src ELSE ctlSock.src, FTP_PORT_CPORT),
                  [NoTup EXCEPT !.dst = ctlSock.src, !.dport = FTP_PORT_CPORT])
         [] OTHER ->
              Leg(SEP, Tup(srv.ver, "tcp", ctlSock.src, ctlSock.sport + 1000,
                           IF alg THEN ctlSock.dst ELSE srv.dst, FTP_PASV_SPORT), NoTup)

(* The expectation the ALG of entry e registers for data leg d. *)
Expectation(tool, e, d) ==
    IF d.from = SEP
    THEN [tup |-> d.sock,
          xlate |-> [d.sock EXCEPT !.src = e.reply.dst, !.dst = e.reply.src]]
    ELSE [tup |-> d.sock,
          xlate |-> [d.sock EXCEPT !.src = e.orig.dst, !.dst = e.orig.src,
                       !.dport = IF tool = "tftp" THEN e.orig.sport ELSE d.sock.dport]]

(***************************************************************************)
(* _nat_execute_related(nat_spec, sep, dep, ip_ver, direction): nc sends  *)
(* UDP from the client to client_view_server_ip port 10000 and the server *)
(* answers (the control leg); then an iptables REJECT on the client       *)
(* ('orig') or the server ('reply') answers the peer's next datagram with *)
(* an ICMP error, and tcpdump on the other guest must capture it with the *)
(* addresses of verify_strs (the data leg, "pending" until the datagrams  *)
(* flow).  With SNAT the client sees the server's own address and the     *)
(* server sees ia_start; with DNAT the client sends to the vip.           *)
(***************************************************************************)
MkRelConn(i, dir, ver, dep, ns) ==
    LET clientIp == ifAddr[SEP]
        serverIp == ifAddr[dep]
        clientViewServerIp == IF IsSnat(ns) THEN serverIp ELSE ns.vip
        serverViewClientIp == IF IsSnat(ns) THEN ns.ia ELSE clientIp
        want == IF dir = "orig"
                THEN [NoTup EXCEPT !.src = serverViewClientIp, !.dst = serverIp]
                ELSE [NoTup EXCEPT !.src = clientViewServerIp, !.dst = clientIp]
    IN [tool |-> IF dir = "orig" THEN "rel_orig" ELSE "rel_reply",
        ctl  |-> Leg(SEP, Tup(ver, "udp", gAddr[SEP], CPORT_BASE + i, clientViewServerIp, NC_PORT),
                     NoTup),
        data |-> [Leg(IF dir = "orig" THEN SEP ELSE dep, NoTup, want) EXCEPT !.status = "pending"]]

(* The ICMP error a REJECT sends once the nc datagrams flow: the client *)
(* rejects the server's datagram, the server the client's as it saw it.  *)
RelatedLeg(c, l) ==
    [c.data EXCEPT !.status = "open",
                   !.sock = IcmpErr(IF c.tool = "rel_orig" THEN l.sock ELSE Reply(l.seen))]

(* A completed control leg: the connection goes on with its data leg. *)
Announce(c, l, ct2, exps2) ==
    LET es  == {e \in ct2 : e.orig = l.sock /\ e.alg # "none"}
        d   == DataLeg(c.tool, l, es # {})
    IN IF c.tool \in {"rel_orig", "rel_reply"}
       THEN [conn |-> [c EXCEPT !.ctl = l, !.data = RelatedLeg(c, l)], exps |-> exps2]
       ELSE IF c.tool \notin FileTools
       THEN [conn |-> [c EXCEPT !.ctl = l], exps |-> exps2]
       ELSE [conn |-> [c EXCEPT !.ctl = l, !.data = d],
             exps |-> exps2 \cup {Expectation(c.tool, e, d) : e \in es}]

(* One packet of leg "which" of connection c, out of the NAT tables as  *)
(* o: the leg moves on, completes (a control leg then announces its    *)
(* data leg) or fails when nobody takes the packet.                    *)
Advance(c, which, o) ==
    LET l    == c[which]
        R    == Receivers(o.dl, o.tf)
        fail == [conn |-> [c EXCEPT ![which].status = "failed"], exps |-> o.exps]
        l2   == [l EXCEPT !.seen = o.tf, !.peer = CHOOSE g \in R : TRUE, !.stage = 2]
        done(m) == IF which = "ctl" THEN Announce(c, [m EXCEPT !.status = "done"], o.ct, o.exps)
                   ELSE [conn |-> [c EXCEPT ![which] = [m EXCEPT !.status = "done"]],
                         exps |-> o.exps]
    IN CASE l.stage = 1 /\ R # {} /\ Wants(l.want, o.tf) ->
              IF \/ which = "ctl" /\ c.tool = "tftp"
                 \/ which = "data" /\ c.tool \in {"rel_orig", "rel_reply"}
              THEN done(l2)
              ELSE [conn |-> [c EXCEPT ![which] = l2], exps |-> o.exps]
         [] l.stage = 2 /\ R = {l.from} /\ o.tf = Reply(l.sock) -> done(l)
         [] OTHER -> fail

Step(i, which) ==
    LET c   == conns[i]
        l   == c[which]
        snd == IF l.stage = 1 THEN l.from ELSE l.peer
        p   == IF l.stage = 1 THEN l.sock ELSE Reply(l.seen)
        os  == NatOutcomes(tbl, ct, exps, p, IF snd = SEP THEN "client" ELSE "other",
                           NeighMac(snd))
    IN /\ call.result = "pending"
       /\ l.status = "open"
       /\ call.tool \in LoggedTools => \A j \in 1..i - 1 : Settled(conns[j])
       /\ IF NextHop(snd, p.dst) \notin neighs[snd] \/ os = {}
          THEN /\ conns' = [conns EXCEPT ![i][which].status = "failed"]
               /\ UNCHANGED <<ct, exps>>
          ELSE \E o \in os :
                 LET a == Advance(c, which, o)
                 IN /\ conns' = [conns EXCEPT ![i] = a.conn]
                    /\ ct' = o.ct
                    /\ exps' = a.exps
       /\ UNCHANGED <<cfgVars, tbl, natSpec, call>>

(* _check_nat_result: the number of conntrack entries of proto ("none" *)
(* for all) dpctl/dump-conntrack lists.                                *)
CheckNatResult(ctTbl, expConnNum, proto) ==
    Cardinality({e \in ctTbl : proto = "none" \/ e.orig.proto = proto}) = expConnNum

(* The call's checks, once its connections have settled.  A file copy  *)
(* that went wrong is only logged by _compare_files, a related count    *)
(* that is wrong only by _nat_execute_related.                          *)
Settle ==
    /\ call.result = "pending"
    /\ \A i \in DOMAIN conns : Settled(conns[i])
    /\ call' = [call EXCEPT !.result =
                  IF call.tool \in LoggedTools \/ CheckNatResult(ct, call.expect, call.proto)
                  THEN "ok" ELSE "RuntimeError"]
    /\ UNCHANGED <<cfgVars, tbl, natSpec, ct, exps, conns>>

NoSpec == NATSpec(NoAddr, 0, 0, 0, NoAddr)
CallRec(fn, tool, spec, expect, proto, result) ==
    [fn |-> fn, tool |-> tool, spec |-> spec, expect |-> expect, proto |-> proto,
     ready |-> cfgKind = fn, result |-> result]
NoCall == [CallRec("none", "none", NoSpec, 0, "none", "none") EXCEPT !.ready = FALSE]

Raise(fn, tool, ex) ==
    /\ call' = CallRec(fn, tool, NoSpec, 0, "none", ex)
    /\ UNCHANGED <<cfgVars, tbl, natSpec, ct, exps, conns>>

(* Slip: the conntrack of the previous call left in place. *)
StartCallNoFlush(fn, tool, spec, cs, expect, proto) ==
    /\ UNCHANGED <<ct, exps>>
    /\ tbl' = NatSetupFlows(spec, ifAddr[SEP], [d \in Deps |-> ifAddr[d]])
    /\ natSpec' = spec
    /\ conns' = cs
    /\ call' = CallRec(fn, tool, spec, expect, proto, "pending")
    /\ UNCHANGED cfgVars

(* flush_conntrack_on_all_suts, then _nat_setup_flows, which raises on  *)
(* an if_addr of None after it has emptied the NAT table.               *)
StartCall(fn, tool, spec, cs, expect, proto) ==
    /\ ct' = {}
    /\ exps' = {}
    /\ IF \E e \in EPs : ifAddr[e] = NoAddr
       THEN /\ tbl' = {}
            /\ natSpec' = NoSpec
            /\ conns' = << >>
            /\ call' = CallRec(fn, tool, spec, expect, proto, "AttributeError")
       ELSE /\ tbl' = NatSetupFlows(spec, ifAddr[SEP], [d \in Deps |-> ifAddr[d]])
            /\ natSpec' = spec
            /\ conns' = cs
            /\ call' = CallRec(fn, tool, spec, expect, proto, "pending")
    /\ UNCHANGED cfgVars

SnatConns(c) ==
    [i \in 1..c.svr * c.par * 2 |->
        MkConn(c.tool, i, IF i % 2 = 1 THEN 4 ELSE 6, ifAddr[(i - 1) \div (2 * c.par) + 1])]

VerifySnat(c) ==
    /\ Idle
    /\ CASE vtAllow # 1 -> Raise("snat", c.tool, "TypeError")
         [] c.tool \in FileTools /\ c.par > 1 -> Raise("snat", c.tool, "skipped")
         [] OTHER ->
              StartCall("snat", c.tool,
                        NATSpec(Addr("server", NAT_SNAT_ADDR_IDX_START), c.ip_num,
                                NAT_SNAT_PORT_START, c.port_num, NoAddr),
                        SnatConns(c), c.par * c.svr * 2,
                        IF c.tool = "telnet" THEN "tcp" ELSE "none")

VerifyDnat(tool) ==
    /\ Idle
    /\ IF vtAllow # 1 THEN Raise("dnat", tool, "TypeError")
       ELSE StartCall("dnat", tool,
                      NATSpec(Addr("server", NAT_ENDPOINT_ADDR_IDX_START), 1, 0, 0, NAT_ROUTER_CIF),
                      [i \in 1..2 |-> MkConn(tool, i, IF i = 1 THEN 4 ELSE 6, NAT_ROUTER_CIF)],
                      2, IF tool = "telnet" THEN "tcp" ELSE "none")

(* vte.get_deps(): the first dep of each locality list, in get_full_deps *)
(* order.                                                              *)
GetDeps == SelectSeq([d \in Deps |-> d],
                     LAMBDA d : \A d2 \in 1..d - 1 : DepLocality[d2] # DepLocality[d])

(* The runs of a related test: for each dep, 'orig' then 'reply', each  *)
(* over ipv4 then ipv6.                                                 *)
RelatedConns(ns, deps) ==
    [i \in 1..4 * Len(deps) |->
        MkRelConn(i, IF ((i - 1) \div 2) % 2 = 0 THEN "orig" ELSE "reply",
                  IF i % 2 = 1 THEN 4 ELSE 6, deps[(i - 1) \div 4 + 1], ns)]

(* verify_snat_related: raise "..." is a TypeError; one server address, *)
(* no port range; every dep of get_deps().                              *)
VerifySnatRelated ==
    /\ Idle
    /\ IF vtAllow # 1 THEN Raise("snat", "related", "TypeError")
       ELSE LET ns == NATSpec(Addr("server", NAT_SNAT_ADDR_IDX_START), 1, NAT_SNAT_PORT_START, 0, NoAddr)
            IN StartCall("snat", "related", ns, RelatedConns(ns, GetDeps), 0, "none")

(* verify_dnat_related: the first dep of get_full_deps(). *)
VerifyDnatRelated ==
    /\ Idle
    /\ IF vtAllow # 1 THEN Raise("dnat", "related", "TypeError")
       ELSE LET ns == NATSpec(Addr("server", NAT_ENDPOINT_ADDR_IDX_START), 1, 0, 0, NAT_ROUTER_CIF)
            IN StartCall("dnat", "related", ns, RelatedConns(ns, <<1>>), 0, "none")

Init ==
    /\ vtAllow \in VtAllowInit
    /\ ifAddr = [e \in EPs |-> TopoAddr(e)]
    /\ restoreAddr = [e \in EPs |-> NoAddr]
    /\ gAddr = ifAddr
    /\ neighs = [e \in EPs |-> {}]
    /\ cfgKind = "none"
    /\ tbl = {}
    /\ natSpec = NoSpec
    /\ ct = {}
    /\ exps = {}
    /\ conns = << >>
    /\ call = NoCall

Next ==
    \/ SnatConfigureVms
    \/ DnatConfigureVms
    \/ NatRestoreVms
    \/ \E c \in SnatCalls : VerifySnat(c)
    \/ \E t \in DnatTools : VerifyDnat(t)
    \/ VerifySnatRelated
    \/ VerifyDnatRelated
    \/ \E i \in DOMAIN conns, w \in {"ctl", "data"} : Step(i, w)
    \/ Settle

Spec == Init /\ [][Next]_vars

-----------------------------------------------------------------------------
(* Properties. *)
Addrs ==
    {TopoAddr(e) : e \in EPs} \cup {NatAddr(e) : e \in EPs} \cup {NAT_ROUTER_CIF, NAT_ROUTER_SIF}
    \cup {Addr("server", NAT_SNAT_ADDR_IDX_START + i) : i \in 0..NAT_SNAT_ADDR_NUM - 1}
Ports ==
    {TELNET_PORT, FTP_PORT, TFTP_PORT, FTP_DATA_SPORT, FTP_PORT_CPORT, FTP_PASV_SPORT,
     TFTP_DATA_SPORT, NC_PORT}
    \cup {p + k : p \in {CPORT_BASE, CPORT_BASE + 1000}, k \in 1..8}
    \cup {c.port_num : c \in SnatCalls} \cup
    UNION {NAT_SNAT_PORT_START .. NAT_SNAT_PORT_START + c.port_num - 1 : c \in SnatCalls}
Tuples ==
    [ver : Vers, proto : {"tcp", "udp", "icmp"}, src : Addrs, sport : Ports,
     dst : Addrs, dport : Ports]

TypeOK ==
    /\ vtAllow \in VtAllowInit \cup {1}
    /\ ifAddr \in [EPs -> Addrs \cup {NoAddr}]
    /\ restoreAddr \in [EPs -> Addrs \cup {NoAddr}]
    /\ gAddr \in [EPs -> Addrs]
    /\ cfgKind \in {"none", "snat", "dnat"}
    /\ \A e \in ct : e.orig \in Tuples /\ e.reply \in Tuples /\ e.alg \in {"none", "ftp", "tftp"}
    /\ \A x \in exps : x.tup \in Tuples /\ x.xlate \in Tuples
    /\ call.result \in {"none", "pending", "ok", "RuntimeError", "TypeError",
                        "AttributeError", "skipped"}

(***************************************************************************)
(* Every conntrack entry of a connection the client opened translates it  *)
(* the way the NATSpec of the installed NAT tables says: verify_snat's rewrite only    *)
(* the source, into the SNAT range (address and, with port_num, port),    *)
(* verify_dnat's only the destination of what goes to the vip, into the   *)
(* DNAT address.  It relates the flows _nat_setup_flows builds from       *)
(* generate_nat_action, the ALG expectations the data connections use     *)
(* and the conntrack flush at the start of each call.                     *)
(***************************************************************************)
NatTranslation ==
    LET ns  == natSpec
        act == GenerateNatAction(ns)
    IN \A e \in ct :
         LET o == e.orig
             x == Reply(e.reply)
         IN o.src.net = "client" =>
              IF IsSnat(ns)
              THEN /\ x.src \in act.addrs
                   /\ act.ports # {} /\ o.proto # "icmp" => x.sport \in act.ports
                   /\ x.dst = o.dst /\ x.dport = o.dport
              ELSE /\ x.src = o.src /\ x.sport = o.sport
                   /\ o.dst = ns.vip => x.dst \in act.addrs

(***************************************************************************)
(* A telnet or ping verify_snat or verify_dnat made on guests configured  *)
(* for that kind of NAT (snat_configure_vms or dnat_configure_vms, no     *)
(* nat_restore_vms since) passes _check_nat_result, and every connection  *)
(* it opened was answered: the SNAT neighbours, the addresses of          *)
(* _nat_configure_vms, the DNAT target and the NAT+3 rules keyed on       *)
(* vif.if_addr all agree.                                                 *)
(***************************************************************************)
NatCheckPasses ==
    call.ready /\ call.tool \in {"telnet", "ping"} /\ call.result \in {"ok", "RuntimeError"}
      => /\ call.result = "ok"
         /\ \A i \in DOMAIN conns : conns[i].ctl.status = "done"

(***************************************************************************)
(* A tftp or ftp verify_snat or verify_dnat made on guests configured for *)
(* it copies its file: the data connection the ALG of the control         *)
(* connection expects gets through the NAT tables.                        *)
(***************************************************************************)
TransferCompletes ==
    call.ready /\ call.tool \in FileTools /\ call.result = "ok"
      => \A i \in DOMAIN conns : conns[i].data.status = "done"


(***************************************************************************)
(* An ICMP related test (verify_snat_related, verify_dnat_related) made   *)
(* on guests configured for its kind of NAT captures every ICMP error it  *)
(* provokes, with the addresses _nat_execute_related looks for: the NAT   *)
(* tables pass the +rel packet and translate it with the nc connection,   *)
(* in both directions and both families, across the runs of one call     *)
(* that share the conntrack.                                              *)
(***************************************************************************)
RelatedTranslated ==
    call.ready /\ call.tool = "related" /\ call.result = "ok"
      => \A i \in DOMAIN conns : conns[i].data.status = "done"

====
