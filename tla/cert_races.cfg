SPECIFICATION Spec
CONSTANTS
    s1 = s1
    e1 = e1
    s2 = s2
    e2 = e2
    Workers = {w1, w2}
    Names = {c1, c2}
    SNs = {s1, e1, s2, e2}
    NoContainer = NoContainer
    NoCert = NoCert
    Installs <- Pairs
    Destroys <- TwoDestroys
SYMMETRY Symmetry
INVARIANTS
    TypeOK
    StaleOnlyByDelete
    BareExcused
    PairsMatch
PROPERTIES
    OnlyNamedDestroyed
