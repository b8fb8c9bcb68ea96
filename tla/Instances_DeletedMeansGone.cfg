CONSTANTS
    Requests = {q1, q2}
    Workers = {w1}
    Tasks = {q1, q2, w1}
    Ids = {i1}
    Names = {n1}
    Ports = {5554, 5556}
    Offered = {"start", "delete"}
    None = None
SYMMETRY Symmetry
SPECIFICATION Spec
INVARIANT DeletedMeansGone
CHECK_DEADLOCK FALSE
