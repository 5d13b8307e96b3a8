------------------------------- MODULE MC_Nat -------------------------------
(* The NAT tests on a verify topology entry with two destination endpoints. *)
EXTENDS Nat

(* verify_snat arguments: telnet to both servers, telnet in parallel to  *)
(* one with a two-address, two-port range, ping, the file copies, and a   *)
(* parallel file copy, which verify_snat refuses.                        *)
MCSnatCalls ==
    {[tool |-> "telnet", ip_num |-> 1, port_num |-> 0, svr |-> 2, par |-> 1],
     [tool |-> "telnet", ip_num |-> 2, port_num |-> 2, svr |-> 1, par |-> 2],
     [tool |-> "ping",   ip_num |-> 1, port_num |-> 0, svr |-> 1, par |-> 1],
     [tool |-> "tftp",   ip_num |-> 1, port_num |-> 0, svr |-> 1, par |-> 1],
     [tool |-> "ftp_active",  ip_num |-> 1, port_num |-> 0, svr |-> 1, par |-> 1],
     [tool |-> "ftp_passive", ip_num |-> 1, port_num |-> 0, svr |-> 1, par |-> 1],
     [tool |-> "tftp",   ip_num |-> 1, port_num |-> 0, svr |-> 1, par |-> 2]}
(* The servers are on the client's NUMA node and on another host, so   *)
(* get_deps() returns both.                                             *)
MCDepLocality == <<"numa", "xhost">>
====
