\* One delivery without any fault, and the user listens.
SPECIFICATION RecordingSpec
CONSTANTS
    None = None
    Blank = Blank
    Deliveries = {d1}
    Texts = {"hello", "hallo"}
    Faults = {}
    Constructors = {"bare"}
    MaxClock = 1
INVARIANTS
    PlaybackIsAudio
CHECK_DEADLOCK FALSE
