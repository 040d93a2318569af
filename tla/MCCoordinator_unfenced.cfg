SPECIFICATION Spec
CONSTANTS
    Instances = {a, b}
    Slots = {s1}
    Leases = {l1, l2, l3}
    NoOne = NoOne
    NoLease = NoLease
    Manual = Manual
    MaxReigns = 2
    MaxLate = 0
SYMMETRY Interchangeable
INVARIANT FencedAppointments
