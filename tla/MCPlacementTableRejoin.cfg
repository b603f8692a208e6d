\* Two nodes re-register at the same time.
CONSTANTS
    Node = {n1, n2, n3}
    Worker = {w1, w2}
    NoNode = none
    RF = 2
    W = 2
SPECIFICATION Spec
SYMMETRY Symmetry
PROPERTY NoReleaseBelowRF
CHECK_DEADLOCK FALSE
