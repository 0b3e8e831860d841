\* One group at a quota of one rule, with owned and unowned labels, two
\* failures, three spec changes and two
\* manual changes: rule swaps need the revoke first, and an unmanaged rule
\* can take the only slot and give it back.
CONSTANTS
    r1 = r1
    r2 = r2
    Owned = Owned
    Unowned = Unowned
    s1 = s1
    s2 = s2
    w1 = w1
    w2 = w2
    NoSG = NoSG
    Rules <- MCRules
    Labels <- MCLabels
    SGs <- MCOneSG
    Workers <- MCWorkers
    OwnedLabels <- MCOwnedLabels
    DesiredSpecs <- QuotaDesiredSpecs
    UseSelector = TRUE
    QuotaLimit = 1
    MaxFailures = 2
    MaxSpecChanges = 3
    MaxExternal = 2
SPECIFICATION Spec
PROPERTY ConvergedUnlessStarved
