CONSTANTS
    p1 = p1
    p2 = p2
    p3 = p3
    o1 = o1
    o2 = o2
    o3 = o3
    Null = Null
    Ptrs = {p1, p2, p3}
    Objs = {o1, o2, o3}
SPECIFICATION Spec
INVARIANTS
    NoDangling
    ExactlyOneOwner
