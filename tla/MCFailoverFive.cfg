SPECIFICATION Spec
CONSTANTS
    Queries = {q1, q2, q3, q4, q5}
    N = 2
    Dead = {}
    Threshold = 3
SYMMETRY Symmetry
PROPERTIES
    InnocentNotDemoted
