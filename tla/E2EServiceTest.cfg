\* A failed Expect or a panic ends the Ginkgo test: those states have no successor.
SPECIFICATION Spec
CHECK_DEADLOCK FALSE
INVARIANT TypeOK
INVARIANT CreateReturnsActive
INVARIANT CleanupReturnsDeleted
INVARIANT TrafficReturnsServed
