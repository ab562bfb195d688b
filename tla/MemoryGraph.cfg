SPECIFICATION Spec
CONSTANTS
    ma = ma
    mb = mb
    mc = mc
    x = x
    y = y
    v = v
    w = w
    Memories = {ma, mb, mc}
    Edges = {1, 2, 3}
    Source <- MCSource
    Target <- MCTarget
    Relation <- MCRelation
    Writers = {v, w}
    Updates <- MCUpdates
    Written = {mb, mc}
    Starts = {ma}
    Depths = {0, 2, 11}
    RelationFilters = {{}, {"SUPPORTS"}}
    TierFilters = {{}, {"ACTIVE"}}
    Linked = {1, 2}
    MaxWrites = 2
    MaxLinks = 2
SYMMETRY Symmetry
INVARIANTS NeighborsBetween RowsAsPromised
CHECK_DEADLOCK FALSE
