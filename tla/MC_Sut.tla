------------------------------ MODULE MC_Sut ------------------------------
EXTENDS Sut

(* Hosts, memory in MB.  CPU ids are lscpu's, node[i] the node of CPU    *)
(* i - 1.                                                                 *)
\* One node, four cores, two 1 GB pages: socket memory and one VM.
HostSmall == [node |-> <<0, 0, 0, 0>>, free |-> <<2>>, pnics |-> <<0>>,
              dp |-> "ovs-dpdk", page |-> 1024, vm_mem |-> 1024, vm_cpus |-> 1,
              pnic_cpus |-> 1, norm_cpus |-> 1]
\* Two nodes, the NIC on node 1: node 0's cores all go to the PMD mask.
HostTwoNodes == [node |-> <<0, 0, 1, 1>>, free |-> <<2, 3>>, pnics |-> <<1>>,
                 dp |-> "ovs-dpdk", page |-> 1024, vm_mem |-> 1024, vm_cpus |-> 1,
                 pnic_cpus |-> 1, norm_cpus |-> 1]
\* ovs-native, 2 MB pages: no socket memory, two VMs on node 0.
HostNative == [node |-> <<0, 0, 0>>, free |-> <<1024>>, pnics |-> << >>,
               dp |-> "ovs-native", page |-> 2, vm_mem |-> 1024, vm_cpus |-> 1,
               pnic_cpus |-> 1, norm_cpus |-> 1]
\* Node 0's free_hugepages unreadable.
HostNoPages == [node |-> <<0, 0, 1, 1>>, free |-> <<MISSING, 3>>, pnics |-> <<1>>,
                dp |-> "ovs-dpdk", page |-> 1024, vm_mem |-> 1024, vm_cpus |-> 1,
                pnic_cpus |-> 1, norm_cpus |-> 1]

MCHardware == {HostSmall, HostTwoNodes, HostNative, HostNoPages}

=============================================================================
