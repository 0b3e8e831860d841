CONSTANTS
    r1 = r1
    r2 = r2
    Owned = Owned
    Unowned = Unowned
    Rules <- MCRules
    Labels <- MCLabels
SPECIFICATION Spec
INVARIANT DiffMatchesReference
