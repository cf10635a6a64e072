CONSTANTS
    rc = rc
    dep = dep
    set = set
    pod1 = pod1
    pod2 = pod2
    rs1 = rs1
    rs2 = rs2
    None = None
    ItemNames = {rc, dep, set, pod1, pod2, rs1, rs2}
    Listed <- MCListed
SPECIFICATION Spec
INVARIANT ResourcesComplete
INVARIANT StatefulSetMasked
PROPERTY InventoryRefined
