CONSTANTS
    NumSuts = 3
    Deployments <- MCTnlFixed
    VifsFor <- MCVifs
    UplinksFor <- MCUplinks
    FLOW = FLOW
    BCAST = BCAST
    MaxPkts = 2
SPECIFICATION Spec
CHECK_DEADLOCK FALSE
INVARIANT
    DeliveredOnce
