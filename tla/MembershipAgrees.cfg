SPECIFICATION Spec
CONSTANTS
    User = {u1, u2, u3}
    Group = {g1}
    Permanent = {u3}
    None = None
    Request = {r1, r2}
    MaxInterrupts = 1
SYMMETRY Alike
INVARIANTS TypeOK SidesAgree
PROPERTIES AloneSettles StaysDeleted
CHECK_DEADLOCK FALSE
