CONSTANTS
    NumSuts = 3
    VmsOf <- MCVmsOf
    FLOW = FLOW
    MaxVifs = 5
    MaxTnlPorts = 4
    TnlModes <- MCTnlModes
    MaxDeploys = 3
    DpTypeOf <- MCDpTypeOf
    NumUplinks = 2
SPECIFICATION Spec
PROPERTY
    UndeployRemovesTunnelPorts
