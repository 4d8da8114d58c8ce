\* One call under every failure, all interleavings of its three handlers, with
\* the fairness of Spec.
SPECIFICATION Spec
CONSTANTS
    Calls = {c1}
    Faults <- EveryFault
INVARIANTS
    TypeOK
    ReadStillCurrent
    ScreeningNotBypassed
    RecordTellsTheCall
    OnlyFaultsReachFallback
PROPERTIES
    AllowedSteps
    AttestationNeverLost
    EmergencyRings
    CallersAnswered
    RecordReclaimed
    ImplementsLifecycle
