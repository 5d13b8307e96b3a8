------------------------------- MODULE Verify -------------------------------
(***************************************************************************)
(* The traffic verification keywords of pal.py: execute_ping_verification, *)
(* execute_iperf_verification and execute_performance_test, with the      *)
(* guest tools they run (guest.py).  A keyword walks the verify topology: *)
(* every (sep, dep) pair of vt.allow, then (ping and iperf) every pair of *)
(* vt.deny with exp_fail=True, one remote command per step.               *)
(*                                                                         *)
(* What the network does to a command is a nondeterministic choice of the *)
(* tool's output, abstracted to the numbers the parsers extract: the ping *)
(* summary, the iperf3 bandwidth lines and their zeros, the UDP lost and  *)
(* total datagrams, the netperf result line.  Addresses, command text and *)
(* the IPv4/IPv6 choice of command are left out: both families run the    *)
(* same code.                                                             *)
(*                                                                         *)
(* Guest.execute never raises: a non-zero rc, or an SSHTimeout, is only   *)
(* logged and returned as -1.  The variable `bad` is a monitor: the pairs *)
(* of the running call whose command saw traffic other than vt says.     *)
(***************************************************************************)
EXTENDS Integers, Sequences, FiniteSets
LOCAL INSTANCE SequencesExt

CONSTANTS
    Allowed,    \* the (sep, dep) pairs of vt.allow
    Denied,     \* the (sep, dep) pairs of vt.deny
    PING_CNT,   \* ping -c cnt (ping_ipv4_addr's default is 5)
    UDP_TOTAL   \* datagrams an iperf3 UDP run sends

ASSUME Allowed \cap Denied = {}

(* The outputs a command can give.  rc is exec_cmd's return code, -1 for *)
(* an SSHTimeout, whose stdout is ''.                                     *)
PingLogs ==
    {[rc |-> IF r > 0 THEN 0 ELSE 1, summary |-> TRUE, sent |-> PING_CNT, recv |-> r]
        : r \in 0..PING_CNT}
    \cup {[rc |-> -1, summary |-> FALSE, sent |-> 0, recv |-> 0]}
\* Bandwidth lines, and how many of them read 0 (around the threshold 5).
TcpLogs == {[lines |-> TRUE, zeros |-> z] : z \in {0, 5, 6}} \cup {[lines |-> FALSE, zeros |-> 0]}
UdpLogs == {[jitter |-> TRUE, lost |-> l, total |-> UDP_TOTAL] : l \in {0, 1, UDP_TOTAL}}
           \cup {[jitter |-> FALSE, lost |-> 0, total |-> 0]}
NetperfLogs == {[rc |-> 0, line |-> b] : b \in BOOLEAN} \cup {[rc |-> r, line |-> FALSE] : r \in {1, -1}}

(* _verify_ping_result: the summary must be there, sent = cnt and        *)
(* recv >= cnt.  _exec_ping computes it and drops it.                     *)
VerifyPingResult(log, cnt) == log.summary /\ log.sent = cnt /\ log.recv >= cnt

(* _verify_iperf_result with exp_rate 0 (_run_iperf_client passes its    *)
(* `rate`, still 0): no bandwidth line gives "0 Kbits/sec"; more than 5   *)
(* zero lines give the tuple (False, -1); otherwise the last bandwidth.   *)
VerifyIperfResult(log) ==
    CASE ~log.lines     -> "zero"
      [] log.zeros > 5  -> "tuple"
      [] OTHER          -> "rate"

(* _verify_iperf_udp_result: no line after 'Jitter' gives 0, as does     *)
(* lost = total; otherwise the rate from total - lost.                    *)
VerifyIperfUdpResult(log) ==
    IF ~log.jitter \/ log.lost = log.total THEN "zero" ELSE "rate"

(* _process_netperf_result: the first line of six numbers, else 0. *)
ProcessNetperfResult(log) == IF log.line THEN "rate" ELSE "zero"

(* What a pair expects: an allowed pair gets all its traffic through, a  *)
(* denied one none.                                                       *)
Delivered(tool, log) ==
    CASE tool = "ping"    -> log.summary /\ log.recv = log.sent
      [] tool = "tcp"     -> log.lines /\ log.zeros = 0
      [] tool = "udp"     -> log.jitter /\ log.lost = 0
      [] tool = "netperf" -> log.rc = 0
Blocked(tool, log) ==
    CASE tool = "ping"    -> log.recv = 0
      [] tool = "tcp"     -> ~log.lines
      [] tool = "udp"     -> ~log.jitter \/ log.lost = log.total
      [] tool = "netperf" -> log.rc # 0
AsExpected(w, log) == IF w.exp THEN Blocked(w.tool, log) ELSE Delivered(w.tool, log)

(* The work lists.  Ping sends three sizes (default, -s 1600, -s 3200)   *)
(* per family; iperf and netperf one run per family.                       *)
Cmd(tool, fam) == [tool |-> tool, fam |-> fam]
PingCmds == [i \in 1..6 |-> Cmd("ping", IF i <= 3 THEN "v4" ELSE "v6")]
IperfCmds(proto) == << Cmd(proto, "v4"), Cmd(proto, "v6") >>
PerfCmds == IperfCmds("tcp") \o IperfCmds("udp") \o IperfCmds("netperf")
Work(pairs, cmds, exp) ==
    FoldLeft(LAMBDA acc, p : acc \o [i \in 1..Len(cmds) |->
                 [pair |-> p, tool |-> cmds[i].tool, fam |-> cmds[i].fam, exp |-> exp]],
             << >>, SetToSeq(pairs))

VARIABLES call, todo, results, bad, last
vars == <<call, todo, results, bad, last>>

Init ==
    /\ call = "idle" /\ todo = << >> /\ results = << >> /\ bad = {}
    /\ last = [op |-> "none", raised |-> FALSE]

Begin(op, work) ==
    /\ call = "idle"
    /\ call' = op /\ todo' = work /\ results' = << >> /\ bad' = {}
    /\ UNCHANGED last

(* execute_ping_verification *)
ExecutePingVerification ==
    Begin("ping", Work(Allowed, PingCmds, FALSE) \o Work(Denied, PingCmds, TRUE))
(* execute_iperf_verification(vt, proto) *)
ExecuteIperfVerification ==
    \E proto \in {"tcp", "udp"} :
        Begin("iperf", Work(Allowed, IperfCmds(proto), FALSE) \o Work(Denied, IperfCmds(proto), TRUE))
(* execute_performance_test: allowed pairs only *)
ExecutePerformanceTest == Begin("perf", Work(Allowed, PerfCmds, FALSE))

Observe(w, log) == bad' = IF AsExpected(w, log) THEN bad ELSE bad \cup {w.pair}

(* _exec_ping: execute(cmd, exp_fail); with exp_fail False the summary  *)
(* is checked by _verify_ping_result and the answer dropped.              *)
ExecPing ==
    /\ call # "idle" /\ todo # << >> /\ Head(todo).tool = "ping"
    /\ \E log \in PingLogs :
          /\ Observe(Head(todo), log)
          /\ todo' = Tail(todo)
    /\ UNCHANGED <<call, results, last>>

(* start_iperf_server, _run_iperf_client, stop_iperf_server: the result *)
(* is verified only when exp_fail is False; execute_iperf_verification   *)
(* and execute_performance_test append the allowed pairs' results.        *)
RunIperfClient ==
    /\ call # "idle" /\ todo # << >> /\ Head(todo).tool \in {"tcp", "udp"}
    /\ LET w == Head(todo) IN
       \E log \in IF w.tool = "tcp" THEN TcpLogs ELSE UdpLogs :
          /\ Observe(w, log)
          /\ results' = IF w.exp THEN results
                        ELSE Append(results, IF w.tool = "tcp" THEN VerifyIperfResult(log)
                                             ELSE VerifyIperfUdpResult(log))
          /\ todo' = Tail(todo)
    /\ UNCHANGED <<call, last>>

(* execute_netperf_ipv4/6: a non-zero rc from the client raises          *)
(* RuntimeError("NetPerf Not Successful") after the server is stopped.   *)
RunNetperfClient ==
    /\ call # "idle" /\ todo # << >> /\ Head(todo).tool = "netperf"
    /\ \E log \in NetperfLogs :
          /\ Observe(Head(todo), log)
          /\ IF log.rc # 0
             THEN /\ call' = "idle" /\ last' = [op |-> call, raised |-> TRUE]
                  /\ UNCHANGED <<todo, results>>
             ELSE /\ results' = Append(results, ProcessNetperfResult(log))
                  /\ todo' = Tail(todo)
                  /\ UNCHANGED <<call, last>>

(* The keyword returns once every pair has been run. *)
Return ==
    /\ call # "idle" /\ todo = << >>
    /\ call' = "idle" /\ last' = [op |-> call, raised |-> FALSE]
    /\ UNCHANGED <<todo, results, bad>>

Next ==
    \/ ExecutePingVerification \/ ExecuteIperfVerification \/ ExecutePerformanceTest
    \/ ExecPing \/ RunIperfClient \/ RunNetperfClient
    \/ Return

Spec == Init /\ [][Next]_vars

---------------------------------------------------------------------------
Results == {"zero", "tuple", "rate"}
TypeOK ==
    /\ call \in {"idle", "ping", "iperf", "perf"}
    /\ results \in Seq(Results)
    /\ bad \subseteq Allowed \cup Denied
    /\ last \in [op : {"none", "ping", "iperf", "perf"}, raised : BOOLEAN]

(* A verification keyword that returns normally has seen, for every pair *)
(* it ran, the traffic the verify topology gives it: everything through  *)
(* to an allowed pair, nothing to a denied one (the exp_fail contract of  *)
(* the guest tools' docstrings).  About Guest.execute, _exec_ping and     *)
(* _run_iperf_client.                                                     *)
VerdictSound == (call = "idle" /\ last.op # "none" /\ ~last.raised) => bad = {}
=============================================================================
