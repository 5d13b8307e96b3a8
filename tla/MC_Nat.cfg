CONSTANTS
    NumDeps = 2
    SnatCalls <- MCSnatCalls
    DnatTools = {"telnet", "ping", "tftp", "ftp_active", "ftp_passive"}
    DepLocality <- MCDepLocality
    VtAllowInit = {1, 2}
SPECIFICATION Spec
INVARIANTS TypeOK NatTranslation NatCheckPasses RelatedTranslated
