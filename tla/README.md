# TLA+ models of the cne-ovs-sit test libraries

This directory models `src/resources/libraries/python/` of cne-ovs-sit in TLA+
and checks the models with TLC. cne-ovs-sit is a Robot Framework suite that
builds Open vSwitch overlay networks on several SUTs (systems under test).
Its tests put ACLs and NAT on those networks and check them with traffic
between guest VMs.

## The system

The libraries drive one OVS *integration bridge* per SUT. Guest VMs attach to
it through vhost-user vifs.

- **Topology** (`topology.py`, `vif.py`, `vm.py`): the SUTs, in the YAML's
  order. Each SUT has NUMA nodes with VMs, and each VM has `VM_VIFS_NUM = 2`
  vifs. A vif's ofp is 10 + its index on the host, and its VNI starts as
  `VNI_NONE` (the int 0). `SUT.__init__` reads each NUMA node's free
  hugepages and cores over SSH, keeps core 0 free, finds the node of the
  uplinks, gives ovs-dpdk socket memory and PMD cores on every node, and
  then places up to `MAX_VM_PER_NUMA` VMs per node with what is left.
- **VM life cycle** (`vm.py`, `guest.py`): `qemu_start` launches QEMU under
  `numactl`, polls the guest's sshd until it boots or 300 s pass, pins the
  vCPUs and configures the interfaces. `qemu_guest_poweroff` runs
  `poweroff` in the guest, sleeps 2 s and kills whatever still listens on
  the serial port with `fuser -k`.
- **Bridge bookkeeping** (`vswitch.py`): a `Bridge` object per switch holds:
  - `br.vifs`, the attached vifs, the TAP first;
  - `br.vnis`, a dict from VNI to vif list, rebuilt by `refresh_bridge_vnis`;
  - `br.tnl_ports` and `br.with_md`;
  - the tunnel-port `IDAllocator`, a FIFO list of 100..200.
- **Calls across all SUTs** (`pal.py`): start or stop every VM, create or delete the bridge, add or
  delete the vif ports, flush conntrack, and the *verify topology*. The verify
  topology is the list of endpoint pairs a test expects to reach each other
  (allow) or not (deny). `verify_topology_get` sorts each source's
  destinations by locality: same NUMA node, other node, other host.
- **Overlay deployment** (`overlay.py`): assigns VNIs, creates tunnel ports
  (remote IP and key each fixed or `flow`), and deploys or undeploys a tnl,
  vlan or qinq overlay. Deploying installs the default pipeline, then the
  INPUT and OUTPUT rules that `flowutils.py` generates.
- **Flow compiler** (`flowutils.py`):
  - the default pipeline, ADMISS → INPUT → ACL → CORE → NAT → L2_MATCH → OUTPUT;
  - CORE learns (VNI, source MAC) → in_port into FIB;
  - L2_MATCH resubmits to FIB (reg1 := learned port), then to OUTPUT;
  - INPUT loads the VNI into reg0;
  - OUTPUT floods when reg1 = 0 and sends unicast by reg1.
- **Conntrack ACL** (`conntrack.py`): ACL rules that track each allowed
  protocol in a zone derived from reg0. `acl_setup_allow_originate` closes a
  destination to connections it did not open.
- **NAT** (`nat.py`, with the guest tools of `guest.py`):
  - the guests' NAT addressing, neighbours and routes
    (`snat_configure_vms`, `dnat_configure_vms`, `nat_restore_vms`);
  - the four NAT tables of `_nat_setup_flows`, built from a `NATSpec`;
  - `verify_snat` and `verify_dnat`, which run telnet, ping, tftp or ftp
    through those tables and check the result with `_check_nat_result`;
  - `_parse_kv` / `_parse_conns`, which parse `dpctl/dump-conntrack`.

The libraries are single-threaded. A test calls them one at a time, and each
call loops over every SUT. Concurrency lives in the guests, which boot and
halt on their own while the test polls them, and in the data plane:
- frames and connections of several guests are in flight at once;
- each bridge handles them in any order;
- MAC learning and conntrack change the switch's state as packets pass;
- the physical network floods.

Three facts of the code shape every model:
1. `SUT.__init__` puts the VMs in `numa.vms` and never fills `sut.vms`. The
   VNI assignments of `overlay.py` loop over `sut.vms`, so every vif keeps
   VNI 0, and every overlay runs with one VNI (see the observations).
2. `VirtualMachine.__init__` sets `numa_id = 0` for every VM (see the
   observations).
3. `overlay.py:24` and `nat.py:27` import
   `setup_default_pipeline_on_all_duts`, but flowutils defines
   `setup_default_pipeline_on_all_suts`. As written, the two modules fail to
   import. The models use the function that exists.

## Modules

| Module | Models | State and actions |
|---|---|---|
| `Constants` | `constants.py`; Python's int/str VNIs | `PyInt`/`PyStr` tag a VNI with its Python type. `PyAdd` is `+` on a VNI, and gives `TypeError` on a str. `Txt` is `f"{vni}"`. |
| `FlowUtils` | `generate_input_flows`, `generate_output_flows`, `_tnl_as`, `_uplink_as`, `provision_flows`; the tunnel ports of `_create_tunnel_ports` | Pure operators. A rule is `[table, prio, match, acts]`, and an action is `[op, arg]`. `Provision` replaces a rule that has the same table, priority and match, as `add-flow` does. |
| `Fabric` | the data plane that those flows program, under `setup_default_pipeline_on_all_suts` | Variables: `dep` (the deployment), `inflight` (a bag of frames at bridge ports), `fib` (the learned FIB per SUT), and the histories `sent` and `delivered`. `Send` is a guest transmitting a frame. `Process` is one bridge handling one frame: INPUT → CORE learn → FIB lookup → OUTPUT. Equal-priority overlaps are a nondeterministic choice. |
| `Bridge` | the `vswitch.py` bookkeeping, driven by the `pal.py` and `overlay.py` calls | One action per library call, covering its loop over every SUT and any exception raised part way through. `brUplinks` is `br.uplinks` and `uplinkOfp` the `ofp` field of the shared `vswitch.uplinks` objects; `SetupUplinkBridgeOnAllSuts(bond)` is `create_bridge` followed by the uplink attachment of the SUT's backend (`DpTypeOf`), and `TeardownUplinkBridgeOnAllSuts` clears the ofps before `delete_bridge`. `UplinkOfps(s)` is what the flow compiler reads from `br.uplinks`. `ovsPorts` is the ports OVS has: OvsDpdk's `create_vhost_user_interface` adds a vif's port at once (and a re-add raises), while OvsNative's only writes the vif's ifup/ifdown scripts, so its ports come and go as `VifIfup`/`VifIfdown`, the scripts QEMU runs. No call checks which overlay is deployed: a deploy runs over whatever is there, and an undeploy without a bridge raises at its first `del-flows` (`UndeployWithoutBridge`). |
| `Acl` | `conntrack.py`, `verify_topology_get` and the `VerifyTopology` edits of `pal.py`, and guest connections through the ACL tables | Variables: the ACL table and conntrack table per SUT, the verify topology, the allowed protocol and guarded destinations, and the one open connection. `Open` starts a connection; `Forward` moves one packet through the ACL of each SUT it crosses, with OVS conntrack semantics. |
| `Nat` | `nat.py` (configure, restore, `NATSpec`, `_nat_setup_flows`, `verify_snat`, `verify_dnat`, `_check_nat_result`) and the guest tools it runs | Variables: `ifAddr`/`restoreAddr` (the Python `vif.if_addr` fields), `gAddr`/`neighs` (what the guests were configured with), `tbl`/`natSpec` (the NAT tables), `ct`/`exps` (conntrack entries and ALG expectations of the client's SUT), `conns`, and `call`. `VerifySnatRelated` and `VerifyDnatRelated` run the ICMP related tests: an nc UDP session is the control leg, and the ICMP error that the REJECT answers it with is the data leg. Conntrack finds the session from the header the error quotes. `Step` moves one packet of one connection through the NAT tables, and `Settle` is the call's check. |
| `Sut` | `SUT.__init__`'s allocation and `init_topology`; `qemu_start`, `_wait_until_vm_boot`, `qemu_set_affinity`, `configure`, `qemu_guest_poweroff`, `qemu_clear_socks`; `start_vms_on_all_suts`, `stop_vms_on_all_suts` | The allocation is the operator `SutInit(hw)`, a chain of steps over a record `r` (`err`, `numas`, `pnic`, `pmd`, `sock`, `guest`) that stops at the first error, as the exception or `sys.exit` does. `topo` holds its result per SUT. Variables `qemu`, `guest`, `pinned`, `configured` per VM; `call`, `cur`, `phase`, `polls` are the test thread inside a call, `last` how its last call ended. One action per remote step (`Launch`, `WaitRetry`, `PinAndConfigure`, `Poweroff`, `ClearSocks`, ...) and its raising branch; `GuestBoots` and `GuestHalts` are the guests. |
| `Verify` | `execute_ping_verification`, `execute_iperf_verification`, `execute_performance_test` of `pal.py`, and the guest tools they run with their result parsers (`_verify_ping_result`, `_verify_iperf_result`, `_verify_iperf_udp_result`, `_process_netperf_result`) | A keyword builds its work list (`Work`: every allowed pair, then every denied pair with `exp_fail`), and one action per guest tool runs its head. The network's answer is a nondeterministic tool output, abstracted to the numbers the parsers read. `results` is what the keyword appends; the monitor `bad` holds the pairs whose traffic disagreed with the verify topology. |
| `ConnParser` | `_parse_kv`, `_parse_conns`, `_check_nat_result`, `flush_conntrack_on_all_suts` | Text is a sequence of tokens, and Python's 0-based indexing is kept. `RenderKv`/`Dump` print the datapath table the way `dpctl/dump-conntrack` does. |

Each `MC_*` module gives the constants of its runs:
- `MC_Fabric`: SUT 1 runs two VMs and each other SUT runs one. MACs are
  `<<sut, vm, if>>` triples.  The uplinks are the single non-bond uplink (ofp 1); the bond
  run gives each SUT the two OVS-DPDK bond members (ofps 2 and 3).
- `MC_Acl`: SUT 1 has a VM on NUMA node 0 and one on node 1, and SUT 2 has one
  VM. So a source has a destination on another node of its host and one on
  another host.
- `MC_Sut`: two SUTs, each one of four hardware descriptions: one node
  with 4 cores, two nodes with the uplink on node 1, a native datapath with
  2 MB pages, and two nodes whose node 0 hugepages cannot be read.
- `MC_Verify`: one allowed and one denied pair, `ping -c 2`, two UDP
  datagrams.
- `MC_Nat`: a verify topology entry with a client (sep) and two servers
  (deps), and the argument records of the `verify_snat` calls.

### How Nat works

`Nat` models the packet path through the NAT tables of the client's SUT.
It assumes OVS userspace conntrack, the one of the `datapath_type=netdev`
bridges that `vswitch.py:457` creates:
- `ct(nat)` translates only packets of committed connections (`+est`);
- a new packet that an ALG expectation matches is `+new+rel`;
- a commit takes the expectation's translation whatever `nat(...)` says;
- a commit otherwise takes a free address and port of the range.

A guest sends only to a next hop that is one of its permanent neighbours,
since the NAT router answers no ARP or ND. A guest takes a frame only if it
carries the guest's MAC and address. A connection *leg* has two stages: the
request, then the answer to what the responder saw. The initiator accepts
only an answer to its own socket. Completing an FTP or TFTP control leg
announces a data leg:
- the PORT address is rewritten by the ALG, or is the client's own address;
- the PASV address is rewritten by the ALG, or is the server's own address;
- TFTP answers from a new server port.

If the control connection's entry has an ALG, the ALG registers an
expectation for the data leg.

## Runs

| Run | Result | What it shows |
|---|---|---|
| `fabric` | pass, 64k states | The deployment is one of native, vlan, qinq, fixed tunnels, or a flow tunnel with metadata, on 2 SUTs; guests send 2 frames (unicast or broadcast). `DeliveredOnce`: no guest gets a frame twice or its own frame back. `DeliveryComplete`: once the fabric is idle, every intended receiver has the frame. `FibSound`: each learned FIB entry points at the MAC's vif, or at a port towards its SUT, under the reg0 of its VNI. |
| `fabric_tnl_flow_3suts` | `DeliveryComplete` violated | With `rip_mode='flow'` on 3 SUTs, `_tnl_as` writes `set_field:<rip>->tun_dst` once per remote before a single `output`. A flood therefore reaches only the last remote. |
| `fabric_tnl_fixed_3suts` | `DeliveredOnce` violated | The priority-20 `reg1=<tunnel>` rule has no `in_port` match, so a SUT relays a frame from one tunnel into another. With learning, a guest receives the frame twice. |
| `fabric_dpdk_bond` | `DeliveredOnce` violated | On OVS-DPDK, `setup_uplink_bridge_on_all_suts(br, bond=True)` puts both bond members in `br.uplinks` (ofps 2 and 3), and every flood rule outputs to each entry of `br.uplinks`. The two copies enter the one LAG, and each guest of the other SUT receives a flooded frame (broadcast or unknown unicast) twice. `OvsNative` lists its single `bondif` port and floods once. |
| `bridge` | pass, 79k states | Any sequence of bridge, uplink-bridge (with and without bond), vif, VNI and overlay calls on 2 SUTs; SUT 1 runs OVS-DPDK, SUT 2 the kernel datapath with its vif scripts run by QEMU. `TunnelIdsConserved`: each tunnel id is either in the pool or held by one port, never both, never lost, across deploys, undeploys, redeploys and new bridges. `PortIdsDisjoint`: the vifs, tunnel ports and uplinks of a bridge never share an ofp and none has ofp None, although the uplink ofps are written by hand rather than allocated. |
| `bridge_undeploy_ports` | `UndeployRemovesTunnelPorts` violated | The action property says every undeploy of a tunnel overlay leaves no tunnel port on any SUT. `_delete_tunnel_ports` removes from `br.tnl_ports` while iterating it, so every second port stays. It needs two tunnel ports per SUT, which with a single VNI takes 3 SUTs. |
| `acl` | pass, 80k states | Any sequence of default-pipeline, allow-proto, allow-originate and verify-topology calls, with guest connections between them. `Verdict`: a connection completes, every packet both ways through the ACL and conntrack of each SUT it crosses, exactly when the last configuration allows it; towards a closed destination not even the first packet arrives. |
| `sut` | pass, 5k states | Two SUTs on every pair of the four hardware descriptions, then up to 3 start or stop calls while guests boot and halt. `AllocationSound`: no VM gets core 0, a PMD core or another VM's core, its cores are on its node, and the node's socket memory and VMs fit its hugepages. `StartTerminates`: every start call ends, by returning or raising. |
| `connparser` | pass, 1.6k states | `ParsesTable`: any table of one-deep connections, with up to two fields per group and every line ending in the newline `readlines()` keeps, parses back exactly, the last value of each line losing only that newline. Deeper groups are not claimed (see the observations). |
| `nat` | pass, 66k states | Any order of configure, restore and verify calls, with the seven `verify_snat` argument records of `MC_Nat`, every `verify_dnat` tool and both related tests. `NatTranslation`: every conntrack entry of a client connection translates it the way the installed `NATSpec` says: SNAT rewrites only the source into the range, DNAT only the destination of what goes to the vip. `NatCheckPasses`: a telnet or ping verify on guests configured for its NAT kind passes `_check_nat_result`, and every connection it opened was answered. `RelatedTranslated`: a related test on guests configured for its kind captures every ICMP error it provokes, carrying the addresses in `verify_strs`. This holds for both directions and both families, over the eight runs of `verify_snat_related`, which share one conntrack table. |
| `verify_blind` | `VerdictSound` violated | A verification keyword returns normally after an allowed pair got no traffic through: `Guest.execute` logs a non-zero rc and returns -1, `_exec_ping` drops the result of `_verify_ping_result`, and `_run_iperf_client` appends `0 Kbits/sec` without judging it. Only netperf's non-zero rc raises. |
| `nat_alg` | `TransferCompletes` violated | `_nat_setup_flows` gives the ALG rules (tcp/21, udp/69) the priority of the generic tcp/udp commit rules that match the same packets. It also gives the `+new+rel` commit rules the priority of the `+rel` pass rule. OVS may apply either rule of a tie, so the data connection of a tftp or ftp test can be dropped. `_compare_files` only logs the failed copy. |

Every property of a passing run has a mutant in `PROJECT.json`. A mutant is
a plausible slip in the code that the property catches. The slips are written
beside the definitions they replace, marked `Slip:`. The NAT slips are:
- a port range one past `port_start + port_num - 1` (caught by `TypeOK`);
- a call that skips the conntrack flush (caught by `NatTranslation`);
- a table 0 without its `ipv6` rule (caught by `NatCheckPasses`);
- table NAT+1 without the `+rel` pass rule (caught by `RelatedTranslated`).

## Bounds

- **Fabric.** Two SUTs and three VMs give local and remote receivers, and two
  vifs on one SUT. Three SUTs appear only in the runs that need a third
  (relaying, several remotes). Two frames (`MaxPkts`) let a second frame use
  or overwrite what the first one taught the FIB.
- **Bridge.** Two SUTs, one per backend: each gets a tunnel port per
  deploy, so a redeploy and a new bridge meet a used pool. `MaxVifs = 5`
  (one re-add), `MaxTnlPorts = 4`, and `MaxDeploys = 3`, which allows a
  redeploy after an undeploy. `bridge_undeploy_ports` uses three SUTs: two
  tunnel ports per SUT are needed for one to be left behind.
- **Acl.** Two SUTs, the qinq overlay only (the one whose reg0 carries two
  tags into the zone), protocols tcp and udp, and ACL calls for udp and icmp.
  `MaxGuarded = 1` bounds the (destination, protocol) pairs that
  `acl_setup_allow_originate` closes. Repeated calls would otherwise grow that
  set over all subsets; one closed pair already separates closed from open
  destinations.
- **Nat.**
  - `NumDeps = 2` servers, so `svr_num = 2` reaches both and `NAT+3` has rules
    for more than one server.
  - `verify_snat` runs telnet to two servers; telnet twice in parallel with a
    two-address, two-port range, so translations must avoid each other;
    ping; each file tool; and a parallel tftp, which the call refuses.
  - `len(vt.allow)` starts at 1 or 2, so the TypeError of an untrimmed
    topology is reached.
  - `ip_num` stays at most 2, inside the 10 SNAT neighbours.
  - `DepLocality` puts the two servers in different locality lists, so
    `get_deps()` returns both, and `verify_snat_related` runs eight
    sessions.
- **Verify.** One allowed and one denied pair give both `exp_fail` values.
  `PING_CNT = 2` separates no, some and all replies. The zero-line counts
  0, 5 and 6 sit on both sides of `_verify_iperf_result`'s threshold of 5,
  and UDP losses 0, 1 and all of 2 give each branch of the UDP parser.
- **ConnParser.** One connection of depth 1 with up to two keys: the depth
  of `dpctl/dump-conntrack` lines.
- **Bridge uplinks.** Two uplink interfaces per SUT, the number a bond
  needs; one DPDK and one kernel-datapath SUT reach both bond branches.
- **fabric_dpdk_bond.** Two SUTs, native and vlan deployments, one frame:
  one broadcast is enough.

## Fairness

Only `Sut` assumes fairness: `WF_vars(LibStep)` on the steps of the test
thread inside a call. Each of them is one remote command, and every remote
command of `vm.py` and `guest.py` runs with an SSH timeout, so a step that
stays enabled is taken. The guests (`GuestBoots`, `GuestHalts`) and the
test's choice of its next call get no fairness: a guest may never boot.
`StartTerminates` holds because `_wait_until_vm_boot` raises after its
timeout; with that check removed the run fails it. `Sut` runs with
`CHECK_DEADLOCK FALSE`, because the test makes at most `MaxCalls` calls and
then stops.

The other modules assume none, and their properties are safety properties.
- Completion is stated as "once nothing is in flight" (Fabric's `Quiescent`,
  Nat's `Settle`), not as `<>`. No library call guarantees that a guest keeps
  sending.
- Fabric runs with `CHECK_DEADLOCK FALSE`, because its guests stop after
  `MaxPkts` frames and the fabric then drains.
- In the other modules some library call is always enabled, so deadlock is
  checked.

## Not modelled

- **SSH, shell execution and tool output** (most of `guest.py` and
  `vswitch.py`, the QMP/QGA commands of `vm.py`): DPDK binding, bond and
  uplink-bridge setup, the text of the traffic tools' output, QEMU's
  command line and vhost-user options. These are I/O with no state the
  libraries keep. `set_uplink_mtu` and `set_bond_member_up` change only an
  interface's MTU and link state, which no library code reads back. Of the VM life cycle, `Sut` models what the tests call:
  start, boot wait, pinning, configure, poweroff and socket cleanup; of the
  traffic tools, `Verify` models what their parsers extract.
- **A second bridge holding uplinks.** `Bridge` models the one integration
  bridge the library calls are made on. The `Uplink` objects are shared by
  all bridges of a vswitch, so `delete_uplink_bridge` of one bridge would
  clear the ofps another still lists; no call path creates two.
- **QMP commands no keyword calls**: `qemu_quit`, `qemu_system_powerdown`,
  `qemu_system_reset`, `qemu_cleanup`, `verify_active_rxq` and
  `reconfigure_vhost_user_if`.
- **Time** in `Sut` is the count of boot polls, `BOOT_POLLS = 1` standing
  for the 60 polls of 5 s in 300 s: only whether the timeout has passed
  matters to the call.
- **How many ICMP errors a related test captures.** `_nat_execute_related`
  logs an error unless the 'reply' count is exactly 1 and the 'orig' count
  at least 1. The model captures the first error or none; the count depends
  on how long nc keeps sending, which is timing.
- **The physical network.** It is modelled as one switch that floods: a
  frame leaving any uplink of a SUT reaches every other SUT once, on the
  first entry of its `br.uplinks` (a LAG hands a flow to one member).
- **Timing.** `_check_nat_result` sleeps 3 s and dumps conntrack. The model
  checks once all connections have settled; it does not model a check that
  runs earlier.

## Observations without a run

- `set_vif_vni_by_idx_on_vm` and `set_vif_vni_by_idx_on_host` loop over
  `sut.vms`, which `SUT.__init__` never fills, so every vif keeps VNI 0.
  `Bridge` models the loops as written; the vifs' VNIs stay 0 in every
  state it reaches.

- `_parse_kv` cannot parse a group nested two deep followed by another
  field: after the inner group, the middle call does not stop at its own
  `)`, so `tcp,src=(src=(src=v)),dst=v` loses `dst`. Lines of
  `dpctl/dump-conntrack` nest one deep, where the parser is exact
  (`ParsesTable`).
- `delete_vif_ports_on_all_suts` leaves `br.vifs` and `br.vnis` as they
  were, so adding the ports again lists each vif twice.
- `IDAllocator` is FIFO, so a recycled tunnel id is handed out last, while
  spec §3 says `acquire()` returns the lowest free id.
- `_check_nat_result` counts conntrack entries, and the first packet of a
  connection creates one. A NAT whose replies never reach the client still
  passes. An example is `verify_snat` on guests set up by
  `dnat_configure_vms`, which lack the SNAT neighbours. `NatCheckPasses`
  checks the answers itself, for calls on guests configured for their NAT
  kind.
- Running `_nat_configure_vms` twice without a restore in between overwrites
  `restore_if_addr` with the NAT address. Running `nat_restore_vms` twice sets
  `if_addr` to None, and the next NAT call then raises AttributeError after
  it has emptied the NAT table.
- `VirtualMachine.__init__` sets `numa_id = 0`, and `qemu_start` runs every
  QEMU under `numactl --cpunodebind 0 --membind 0`, whatever node
  `SUT.__init__` placed the VM on and took its cores and hugepages from.
  `verify_topology_get` reads the same field, so it files a VM on the other
  node of its host under `dep_numa`. `Sut` keeps the node the allocation
  chose (`vm.node`); `AllocationSound` is about that choice.
- `SUT.__init__` tests `if not self.pnic_numa_id`, so a first uplink on
  node 0 does not fix the node: a second uplink on node 1 replaces it rather
  than stopping the test.
- `SUT.__init__` builds `numas` without the nodes whose hugepages cannot be
  read, but appends cores by `numas[numa_id]`. With node 0 unreadable, the
  cores of node 1 raise IndexError (host `HostNoPages` of `MC_Sut`).
- `qemu_guest_poweroff` sleeps 2 s before `fuser -k`. If the guest has
  halted and QEMU exited in that time, fuser finds nothing, exits 1, and
  `execute_host` raises: `stop_vms_on_all_suts` fails on a guest that shut
  down in time and leaves the later VMs running. `Sut` reaches this branch
  (`ClearSocksFails`); a start after it raises on the first VM still running
  (`LaunchFails`).
