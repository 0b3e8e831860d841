CONSTANTS
    r1 = r1
    r2 = r2
    Owned = Owned
    Unowned = Unowned
    s1 = s1
    s2 = s2
    w1 = w1
    w2 = w2
    NoSG = NoSG
    Rules <- MCRules
    Labels <- MCLabels
    SGs <- MCSGs
    Workers <- MCOneWorker
    OwnedLabels <- MCOwnedLabels
    DesiredSpecs <- MCDesiredSpecs
    UseSelector = TRUE
    QuotaLimit = 2
    MaxFailures = 1
    MaxSpecChanges = 1
    MaxExternal = 1
SPECIFICATION Spec
PROPERTY EventuallyConverged
