CONSTANTS
    NumSuts = 2
    Deployments <- MCDeployments
    VifsFor <- MCVifs
    UplinksFor <- MCUplinks
    FLOW = FLOW
    BCAST = BCAST
    MaxPkts = 2
SPECIFICATION Spec
\* The guests stop after MaxPkts frames and the fabric drains.
CHECK_DEADLOCK FALSE
INVARIANTS
    TypeOK
    DeliveredOnce
    DeliveryComplete
    FibSound
