CONSTANTS
    NumSuts = 3
    Deployments <- MCTnlFlow
    VifsFor <- MCVifs
    UplinksFor <- MCUplinks
    FLOW = FLOW
    BCAST = BCAST
    MaxPkts = 1
SPECIFICATION Spec
CHECK_DEADLOCK FALSE
INVARIANT
    DeliveryComplete
