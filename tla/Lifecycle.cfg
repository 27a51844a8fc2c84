CONSTANT MaxRuns = 2
SPECIFICATION Spec
CHECK_DEADLOCK FALSE
INVARIANTS TypeOK ServingIsRegistered RegistrationFindsFreeSlot ErrorExitUnregisters
INVARIANT BackendClosedBeforeExit
PROPERTY ShutdownCompletes
