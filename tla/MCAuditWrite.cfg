SPECIFICATION FairSpec
CONSTANTS
    c1 = c1
    c2 = c2
    c3 = c3
    n1 = n1
    n2 = n2
    e1 = e1
    e2 = e2
    e3 = e3
    None = None
    Names <- MCOneName
    Entries <- MCEntries
    Cmds <- MCPair
PROPERTIES
    AuditOutsideCapture
