CONSTANTS
    w = w
    Nil = Nil
    Names = {w}
    DecisionResources <- MCDecisionResources
    ReplicaValues = {0, 1, 3}
    Partitions = {0, 1}
    Writer = TRUE
SPECIFICATION Spec
PROPERTY PatchRespectsGuard
