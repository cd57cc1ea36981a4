SPECIFICATION FairSpec
CONSTANTS
    i1 = i1
    i2 = i2
    s1 = s1
    t1 = t1
    b1 = b1
    b2 = b2
    d1 = d1
    p1 = p1
    p2 = p2
    None = None
    Instances <- MCInstances
    StartReqs <- MCStart
    StopReqs <- MCStop
    BootReqs <- MCBoot
    ProofReqs <- MCProof
    PlainReqs <- MCPlain
    PlainReq <- MCPlainReq
    Bind <- MCBind
    MaxGen = 1
    Stages = 2
INVARIANTS
    ExecutedOnce
    CancelledNeverRuns
    FencedInstanceUntouched
    ReceiptMeansTornDown
PROPERTIES
    DeletionCompletes
