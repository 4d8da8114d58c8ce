\* The callback delivered twice, transcribed as the program is and with a key,
\* with every fault.
SPECIFICATION RecordingSpec
CONSTANTS
    None = None
    Blank = Blank
    Deliveries = {d1, d2}
    Texts = {"hello", "hallo"}
    Faults <- EveryFault
    Constructors = {"bare", "keyed"}
    MaxClock = 1
INVARIANTS
    NothingDropped
    SummaryFits
PROPERTIES
    NothingUndone
    VoicemailKept
CHECK_DEADLOCK FALSE
