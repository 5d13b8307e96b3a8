CONSTANTS
    NumDeps = 2
    SnatCalls <- MCSnatCalls
    DnatTools = {"tftp", "ftp_active", "ftp_passive"}
    DepLocality <- MCDepLocality
    VtAllowInit = {1}
SPECIFICATION Spec
INVARIANT TransferCompletes
