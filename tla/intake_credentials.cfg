\* Two sources, three credential calls, two requests in flight.
SPECIFICATION Spec
CONSTANTS
    Sources = {s1, s2}
    Keys = {k1, k2, k3}
    Requests = {q1, q2}
    Calls = {c1, c2, c3}
    Bodies <- TwoBodies
    NoKey = NoKey
    NoSource = NoSource
    NoName = NoName
CHECK_DEADLOCK FALSE
SYMMETRY Alike
INVARIANTS
    OneActiveCredential
    RevokedKeyRefused
    UsedKeySigned
