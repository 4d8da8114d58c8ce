\* Four connections to two calls: two and three of one call at once, and a new
\* one after an old one was cut off.
SPECIFICATION Spec
CONSTANTS
    Calls = {k1, k2}
    Connections = {c1, c2, c3, c4}
    None = None
SYMMETRY Symmetry
INVARIANTS
    NoLeak
    StreamIsLive
    LostOnlyByOverlap
CHECK_DEADLOCK FALSE
