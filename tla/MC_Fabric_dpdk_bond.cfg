CONSTANTS
    NumSuts = 2
    Deployments <- MCUplinkDeps
    VifsFor <- MCVifs
    UplinksFor <- MCDpdkBondUplinks
    FLOW = FLOW
    BCAST = BCAST
    MaxPkts = 1
SPECIFICATION Spec
CHECK_DEADLOCK FALSE
INVARIANT
    DeliveredOnce
