CONSTANTS
    NumSuts = 2
    VmNumas <- MCVmNumas
    Deploys = {"qinq"}
    Protos = {"tcp", "udp"}
    AclProtos = {"udp", "icmp"}
    Criteria <- MCCriteria
    MaxGuarded = 1
SPECIFICATION Spec
INVARIANTS
    TypeOK
    Verdict
