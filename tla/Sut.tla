-------------------------------- MODULE Sut --------------------------------
(***************************************************************************)
(* The SUT nodes of topology.py and the life cycle of their VMs.          *)
(*                                                                         *)
(* SUT.__init__ reads the host (lscpu, free hugepages per NUMA node, the   *)
(* NUMA node of every uplink NIC) and shares it out: the vswitch's socket  *)
(* memory and PMD cores, then up to MAX_VM_PER_NUMA VMs per node, each     *)
(* with vm_cpu_num cores and vm_mem_size of hugepage memory.  It is a      *)
(* sequential computation of the host and the node_spec, so it is the     *)
(* operator SutInit, evaluated for every host of the constant Hardware.    *)
(*                                                                         *)
(* start_vms_on_all_suts and stop_vms_on_all_suts run qemu_start and      *)
(* qemu_guest_poweroff on every VM, SUT by SUT.  The test thread is one    *)
(* step at a time; the guests boot and halt on their own, concurrently     *)
(* with it.  Memory is in MB (the code's KB / 1024).                       *)
(***************************************************************************)
EXTENDS Integers, Sequences, FiniteSets

LOCAL INSTANCE SequencesExt

CONSTANTS
    NumSuts,    \* the SUT nodes of the topology YAML, in its order
    Hardware,   \* the hosts (and node_spec values) a SUT may be
    MISSING,    \* a free_hugepages file that cannot be read (ret_code != 0)
    BOOT_POLLS, \* the polls _wait_until_vm_boot makes within its timeout
    MaxCalls    \* bound on the start_vms / stop_vms calls of a test run

Suts == 1..NumSuts

(* A host: node[i] is the NUMA node of CPU i - 1 (lscpu -p, by CPU id);  *)
(* free[n + 1] the free hugepages of node n or MISSING; pnics the         *)
(* numa_node sysfs values of the uplink NICs; dp the dp_type; page the    *)
(* hugepage_size; vm_mem, vm_cpus, pnic_cpus, norm_cpus the node_spec's   *)
(* vm_mem_size, vm_cpu_num, pnic_numa_cpu_num and norm_numa_cpu_num.      *)
OVSDPDK_MEM_PER_SOCKET == 512
MAX_VM_PER_NUMA == 2
NONE == -1      \* pnic_numa_id = None

Max2(a, b) == IF a >= b THEN a ELSE b

(* An allocation step of __init__ runs only while nothing has raised. *)
Guard(r, Step(_)) == IF r.err = "none" THEN Step(r) ELSE r
Fail(r, e) == [r EXCEPT !.err = e]

(* list.pop(0) taken k times: the first k entries, and what is left. *)
\* Slip: one pop(0) too few.
PopOneShort(seq, k) == SubSeq(seq, 1, k - 1)
Pop(seq, k) == SubSeq(seq, 1, k)
Rest(seq, k) == SubSeq(seq, k + 1, Len(seq))

(* The last lscpu line names the largest node; a Numa(numa_id), with     *)
(* avail_mem = hugepage_size * free_hugepages, for every node whose      *)
(* free_hugepages reads; the others are skipped.                          *)
ReadNumas(hw) ==
    LET ids == SelectSeq([i \in 1..hw.node[Len(hw.node)] + 1 |-> i - 1],
                         LAMBDA n : hw.free[n + 1] # MISSING)
    IN [i \in 1..Len(ids) |-> [numa_id |-> ids[i], cpus |-> << >>,
                               mem |-> hw.page * hw.free[ids[i] + 1], vms |-> << >>]]

(* self.numas[cpu[3]].avail_cpus.append(cpu[0]): the list is indexed by *)
(* the node id, which is its position only when no node was skipped.      *)
GiveCpus(r, hw) ==
    FoldLeft(
        LAMBDA a, c : IF a.err # "none" THEN a
                      ELSE IF hw.node[c + 1] >= Len(a.numas) THEN Fail(a, "IndexError")
                      ELSE [a EXCEPT !.numas[hw.node[c + 1] + 1].cpus = Append(@, c)],
        r, [i \in 1..Len(hw.node) |-> i - 1])

(* self.numas[0].avail_cpus.remove(0): "Don't use core 0". *)
DontUseCore0(r) ==
    CASE r.numas = << >>                     -> Fail(r, "IndexError")
      [] 0 \notin ToSet(r.numas[1].cpus)     -> Fail(r, "ValueError")
      [] OTHER -> [r EXCEPT !.numas[1].cpus = RemoveFirst(@, 0)]

(* The uplinks' node.  `if not self.pnic_numa_id` takes node 0 for "not *)
(* set yet", as it takes None.                                            *)
PnicStep(r, raw) ==
    LET n == IF raw < 0 THEN 0 ELSE raw
    IN CASE r.err # "none"        -> r
         [] r.pnic \in {NONE, 0}  -> [r EXCEPT !.pnic = n]
         [] n # r.pnic            -> Fail(r, "SystemExit")
         [] OTHER                 -> r
ReadPnics(r, hw) == FoldLeft(PnicStep, r, hw.pnics)

(* ovs-dpdk socket_mem: a node with no more than socket_mem gets none    *)
(* and is left out (avail_mem = 0); the others give socket_mem up.        *)
SocketMem(hw) == Max2(OVSDPDK_MEM_PER_SOCKET, hw.page)
\* Slip: socket_mem recorded but not taken from avail_mem.
ReserveSocketMemKeep(r, hw) ==
    [r EXCEPT !.sock = [i \in DOMAIN r.numas |->
                            IF r.numas[i].mem <= SocketMem(hw) THEN 0 ELSE SocketMem(hw)],
                         !.numas = [i \in DOMAIN r.numas |->
                            IF r.numas[i].mem <= SocketMem(hw)
                            THEN [r.numas[i] EXCEPT !.mem = 0] ELSE r.numas[i]]]
ReserveSocketMem(r, hw) ==
    [r EXCEPT !.sock = [i \in DOMAIN r.numas |->
                            IF r.numas[i].mem <= SocketMem(hw) THEN 0 ELSE SocketMem(hw)],
                         !.numas = [i \in DOMAIN r.numas |->
                            [r.numas[i] EXCEPT !.mem = IF @ <= SocketMem(hw) THEN 0
                                                      ELSE @ - SocketMem(hw)]]]

(* The PMD cores: pnic_numa_cpu_num of the pnic's node, norm_numa_cpu_num *)
(* of every other node with socket memory; too few cores exit.            *)
PmdStep(r, i, hw) ==
    LET nm == r.numas[i]
        k  == IF nm.numa_id = r.pnic THEN hw.pnic_cpus ELSE hw.norm_cpus
    IN CASE r.err # "none" \/ nm.mem = 0 -> r
         [] Len(nm.cpus) < k             -> Fail(r, "SystemExit")
         [] OTHER -> [r EXCEPT !.pmd = @ \cup ToSet(Pop(nm.cpus, k)),
                               !.numas[i].cpus = Rest(@, k)]

(* The vswitch of the dp_type. *)
Vswitch(r, hw) ==
    CASE hw.dp = "ovs-dpdk"   -> FoldLeftDomain(LAMBDA a, i : PmdStep(a, i, hw),
                                                ReserveSocketMem(r, hw), r.numas)
      [] hw.dp = "ovs-native" -> r
      [] OTHER                -> Fail(r, "RuntimeError")

(* The VMs: on every node with avail_mem left, up to MAX_VM_PER_NUMA VMs *)
(* of max(vm_mem_size, hugepage_size) memory and vm_cpu_num cores, the    *)
(* loop breaking at the first that does not fit.  guest_idx counts the    *)
(* SUT's VMs from 1; VirtualMachine(name, guest_idx, ...) keeps it.       *)
VmMem(hw) == Max2(hw.vm_mem, hw.page)
NewVm(idx, cpus, node, mem) == [idx |-> idx, cpus |-> cpus, node |-> node, mem |-> mem]
PlaceVm(r, i, hw) ==
    LET nm == r.numas[i]
    IN IF r.brk \/ nm.mem < VmMem(hw) \/ Len(nm.cpus) < hw.vm_cpus
       THEN [r EXCEPT !.brk = TRUE]
       ELSE [r EXCEPT !.numas[i].mem  = @ - VmMem(hw),
                      !.numas[i].cpus = Rest(@, hw.vm_cpus),
                      !.numas[i].vms  = Append(@, NewVm(r.guest, ToSet(Pop(nm.cpus, hw.vm_cpus)),
                                                         nm.numa_id, VmMem(hw))),
                      !.guest = @ + 1]
PlaceVms(r, hw) ==
    FoldLeftDomain(
        LAMBDA a, i : IF a.numas[i].mem = 0 THEN a
                      ELSE FoldLeft(LAMBDA b, t : PlaceVm(b, i, hw), [a EXCEPT !.brk = FALSE],
                                    [t \in 1..MAX_VM_PER_NUMA |-> t]),
        r, r.numas)

(* SUT(name, node_spec): the steps above in the order __init__ runs them. *)
SutInit(hw) ==
    LET r0 == [err |-> "none", numas |-> ReadNumas(hw), pnic |-> NONE, pmd |-> {},
               sock |-> << >>, guest |-> 1, brk |-> FALSE]
        r1 == Guard(r0, LAMBDA r : GiveCpus(r, hw))
        r2 == Guard(r1, DontUseCore0)
        r3 == Guard(r2, LAMBDA r : ReadPnics(r, hw))
        r4 == Guard(r3, LAMBDA r : Vswitch(r, hw))
    IN Guard(r4, LAMBDA r : PlaceVms(r, hw))

(* sut.get_vms(): the VMs of numa 0, then of numa 1, ... *)
GetVms(r) == FoldLeft(LAMBDA acc, nm : acc \o nm.vms, << >>, r.numas)

(* load_topo_from_yaml: a SUT per node of the YAML, in its order. *)
Topology(h) == [s \in Suts |-> SutInit(h[s])]

---------------------------------------------------------------------------
VARIABLES
    hw,          \* hw[s]: the host and node_spec of SUT s
    topo,        \* topo[s]: what SUT(name, node_spec) built, or the error it raised
    qemu,        \* qemu[v]: "running" while VM v's QEMU process is alive
    guest,       \* guest[v]: "off", "booting", "up" or "halting"
    pinned,      \* pinned[v]: qemu_set_affinity pinned the running QEMU's vCPUs
    configured,  \* configured[v]: configure() set the running guest's interfaces up
    call,        \* "idle", or the pal.py call in progress: "start" or "stop"
    cur,         \* the index of the VM the call is at
    phase,       \* where in qemu_start / qemu_guest_poweroff the call is
    polls,       \* the failed polls of _wait_until_vm_boot so far
    last,        \* the call that ended last, and whether it raised
    calls        \* the calls made so far (bounded by MaxCalls)

vmVars  == <<qemu, guest, pinned, configured>>
libVars == <<call, cur, phase, polls, last, calls>>
vars    == <<hw, topo, vmVars, libVars>>

(* The VMs in the order the pal.py loops visit them. *)
VmList == FoldLeft(LAMBDA acc, s : acc \o [i \in 1..Len(GetVms(topo[s])) |->
                                              [sut |-> s, vm |-> GetVms(topo[s])[i]]],
                   << >>, [s \in Suts |-> s])
NV  == Len(VmList)
Vms == 1..NV
TopoOk == \A s \in Suts : topo[s].err = "none"

Init ==
    /\ hw \in [Suts -> Hardware]
    /\ topo = Topology(hw)
    /\ qemu = [v \in Vms |-> "none"]
    /\ guest = [v \in Vms |-> "off"]
    /\ pinned = [v \in Vms |-> FALSE]
    /\ configured = [v \in Vms |-> FALSE]
    /\ call = "idle" /\ cur = 1 /\ phase = "launch" /\ polls = 0
    /\ last = [op |-> "none", raised |-> FALSE]
    /\ calls = 0

(* A call ends by raising: the exception leaves the remaining VMs as     *)
(* they are.                                                              *)
Raise ==
    /\ call' = "idle"
    /\ last' = [op |-> call, raised |-> TRUE]
    /\ UNCHANGED <<cur, phase, polls, calls>>

(* start_vms_on_all_suts / stop_vms_on_all_suts: the test calls one of   *)
(* them; init_topology must have succeeded.                               *)
StartVms ==
    /\ call = "idle" /\ TopoOk /\ calls < MaxCalls
    /\ call' = "start" /\ cur' = 1 /\ phase' = "launch" /\ calls' = calls + 1
    /\ UNCHANGED <<hw, topo, vmVars, polls, last>>
StopVms ==
    /\ call = "idle" /\ TopoOk /\ calls < MaxCalls
    /\ call' = "stop" /\ cur' = 1 /\ phase' = "poweroff" /\ calls' = calls + 1
    /\ UNCHANGED <<hw, topo, vmVars, polls, last>>

(* The loops end after the last VM. *)
Return ==
    /\ call # "idle" /\ cur > NV
    /\ call' = "idle" /\ last' = [op |-> call, raised |-> FALSE]
    /\ UNCHANGED <<hw, topo, vmVars, cur, phase, polls, calls>>

Starting(p) == call = "start" /\ cur <= NV /\ phase = p

(* qemu_start: execute_host(numactl ... qemu-system-x86_64 -daemonize).   *)
(* The VM's ports (hostfwd 10022 + idx, serial 4556 + idx) and disk image *)
(* are its own, so QEMU starts unless the VM's previous QEMU still holds  *)
(* them; then it exits non-zero and execute_host raises RuntimeError.     *)
Launch ==
    /\ Starting("launch") /\ qemu[cur] = "none"
    /\ qemu' = [qemu EXCEPT ![cur] = "running"]
    /\ guest' = [guest EXCEPT ![cur] = "booting"]
    /\ pinned' = [pinned EXCEPT ![cur] = FALSE]
    /\ configured' = [configured EXCEPT ![cur] = FALSE]
    /\ phase' = "wait" /\ polls' = 0
    /\ UNCHANGED <<hw, topo, call, cur, last, calls>>
LaunchFails ==
    /\ Starting("launch") /\ qemu[cur] = "running"
    /\ Raise /\ UNCHANGED <<hw, topo, vmVars>>

(* _wait_until_vm_boot: `if time() - start > timeout: raise`, then       *)
(* execute("pwd", timeout=5, exp_fail=None); a non-zero rc (an SSHTimeout *)
(* or IOError too) sleeps 5 s and loops.  The guest's sshd answers once   *)
(* it has booted.                                                         *)
\* Slip: the timeout check left out.
BootTimedOutNever(p) == FALSE
BootTimedOut(p) == p > BOOT_POLLS
Answers(g) == g = "up"

WaitTimeout ==
    /\ Starting("wait") /\ BootTimedOut(polls)
    /\ Raise /\ UNCHANGED <<hw, topo, vmVars>>
WaitBooted ==
    /\ Starting("wait") /\ ~BootTimedOut(polls) /\ Answers(guest[cur])
    /\ phase' = "affinity"
    /\ UNCHANGED <<hw, topo, vmVars, call, cur, polls, last, calls>>
\* Time past the timeout is not told apart: polls stops at BOOT_POLLS + 1.
WaitRetry ==
    /\ Starting("wait") /\ ~BootTimedOut(polls) /\ ~Answers(guest[cur])
    /\ polls' = IF polls > BOOT_POLLS THEN polls ELSE polls + 1
    /\ UNCHANGED <<hw, topo, vmVars, call, cur, phase, last, calls>>

(* qemu_set_affinity: query-cpus over QMP, one taskset per vCPU (the     *)
(* counts match: -smp is len(host_cpus)); then configure(): the guest's  *)
(* ip commands, whose failures execute only logs, take effect in a       *)
(* guest that is up.                                                      *)
InterfacesUp(g) == g = "up"
PinAndConfigure ==
    /\ Starting("affinity")
    /\ pinned' = [pinned EXCEPT ![cur] = TRUE]
    /\ configured' = [configured EXCEPT ![cur] = InterfacesUp(guest[cur])]
    /\ cur' = cur + 1 /\ phase' = "launch"
    /\ UNCHANGED <<hw, topo, qemu, guest, call, polls, last, calls>>

Stopping(p) == call = "stop" /\ cur <= NV /\ phase = p

(* qemu_guest_poweroff: execute("poweroff") halts a guest that is up; a  *)
(* guest that does not answer leaves rc -1, which is only logged.  Then  *)
(* sleep(2), while the guest may or may not finish halting.              *)
Poweroff ==
    /\ Stopping("poweroff")
    /\ guest' = [guest EXCEPT ![cur] = IF @ = "up" THEN "halting" ELSE @]
    /\ phase' = "clear"
    /\ UNCHANGED <<hw, topo, qemu, pinned, configured, call, cur, polls, last, calls>>

(* qemu_clear_socks: execute_host("fuser -k <serial_port>/tcp") kills    *)
(* the QEMU still listening on the VM's serial port, then rm -f of its    *)
(* QMP and QGA sockets.  With no process on the port fuser exits 1 and    *)
(* execute_host raises RuntimeError.                                      *)
ClearSocks ==
    /\ Stopping("clear") /\ qemu[cur] = "running"
    /\ qemu' = [qemu EXCEPT ![cur] = "none"]
    /\ guest' = [guest EXCEPT ![cur] = "off"]
    /\ cur' = cur + 1 /\ phase' = "poweroff"
    /\ UNCHANGED <<hw, topo, pinned, configured, call, polls, last, calls>>
ClearSocksFails ==
    /\ Stopping("clear") /\ qemu[cur] = "none"
    /\ Raise /\ UNCHANGED <<hw, topo, vmVars>>

(* The guests: a booting guest comes up, a halting one powers off and    *)
(* its QEMU exits.  Neither is bound to happen.                           *)
GuestBoots(v) ==
    /\ guest[v] = "booting"
    /\ guest' = [guest EXCEPT ![v] = "up"]
    /\ UNCHANGED <<hw, topo, qemu, pinned, configured, libVars>>
GuestHalts(v) ==
    /\ guest[v] = "halting"
    /\ guest' = [guest EXCEPT ![v] = "off"]
    /\ qemu' = [qemu EXCEPT ![v] = "none"]
    /\ UNCHANGED <<hw, topo, pinned, configured, libVars>>

(* A step of the test thread inside a call. *)
LibStep ==
    \/ Launch \/ LaunchFails
    \/ WaitTimeout \/ WaitBooted \/ WaitRetry
    \/ PinAndConfigure
    \/ Poweroff \/ ClearSocks \/ ClearSocksFails
    \/ Return

Next ==
    \/ StartVms \/ StopVms
    \/ LibStep
    \/ \E v \in Vms : GuestBoots(v) \/ GuestHalts(v)

(* Every step of a call runs to completion (each remote command has a    *)
(* timeout), so the test thread is weakly fair; the test's choice of the *)
(* next call and the guests are not.                                      *)
Spec == Init /\ [][Next]_vars /\ WF_vars(LibStep)

---------------------------------------------------------------------------
Errors == {"none", "IndexError", "ValueError", "SystemExit", "RuntimeError"}
SutVms(s) == ToSet(GetVms(topo[s]))

TypeOK ==
    /\ \A s \in Suts : topo[s].err \in Errors
    /\ \A s \in Suts : \A vm \in SutVms(s) :
          /\ vm.cpus \subseteq 0..Len(hw[s].node) - 1
          /\ Cardinality(vm.cpus) = hw[s].vm_cpus
    /\ qemu \in [Vms -> {"none", "running"}]
    /\ guest \in [Vms -> {"off", "booting", "up", "halting"}]
    /\ pinned \in [Vms -> BOOLEAN] /\ configured \in [Vms -> BOOLEAN]
    /\ call \in {"idle", "start", "stop"} /\ cur \in 1..NV + 1
    /\ polls \in 0..BOOT_POLLS + 1 /\ calls \in 0..MaxCalls

(* SUT.__init__ never gives out what the host does not have: no core to *)
(* two users (the PMD mask, the VMs) nor core 0, a VM's cores on the     *)
(* node whose hugepages it takes, and on every node the vswitch's socket *)
(* memory and its VMs' memory within the node's free hugepages.          *)
AllocationSound ==
    \A s \in Suts : topo[s].err = "none" =>
        LET h == hw[s]
            r == topo[s]
            vms == SutVms(s)
        IN /\ 0 \notin r.pmd \cup UNION {vm.cpus : vm \in vms}
           /\ \A vm \in vms : vm.cpus \cap r.pmd = {}
           /\ \A vm, wm \in vms : vm # wm => vm.cpus \cap wm.cpus = {}
           /\ \A vm \in vms : \A c \in vm.cpus : h.node[c + 1] = vm.node
           /\ \A i \in DOMAIN r.numas :
                 LET n == r.numas[i].numa_id
                     used == (IF i \in DOMAIN r.sock THEN r.sock[i] ELSE 0)
                             + Cardinality({vm \in vms : vm.node = n}) * VmMem(h)
                 IN used <= h.page * h.free[n + 1]

(* start_vms_on_all_suts always returns or raises: a guest that never   *)
(* boots ends _wait_until_vm_boot by its timeout.                        *)
StartTerminates == (call = "start") ~> (call = "idle")

=============================================================================
