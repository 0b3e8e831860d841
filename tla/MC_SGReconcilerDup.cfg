CONSTANTS
    r1 = r1
    r2 = r2
    Owned = Owned
    Unowned = Unowned
    s1 = s1
    s2 = s2
    w1 = w1
    w2 = w2
    NoSG = NoSG
    Rules <- MCRules
    Labels <- MCLabels
    SGs <- MCOneSG
    Workers <- MCWorkers
    OwnedLabels <- MCOwnedLabels
    DesiredSpecs <- DupDesiredSpecs
    UseSelector = TRUE
    QuotaLimit = 2
    MaxFailures = 0
    MaxSpecChanges = 0
    MaxExternal = 0
SPECIFICATION Spec
PROPERTY EventuallyConverged
