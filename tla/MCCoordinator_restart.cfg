SPECIFICATION FairSpec
CONSTANTS
    Instances = {a}
    Slots = {s1, s2}
    Leases = {l1, l2}
    NoOne = NoOne
    NoLease = NoLease
    Manual = Manual
    MaxReigns = 2
    MaxLate = 0
CONSTRAINT Reignable
PROPERTIES
    EventuallyGoverned
    StoppedLeavesKey
