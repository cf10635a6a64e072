CONSTANTS
    n1 = n1
    n2 = n2
    p1 = p1
    p2 = p2
    p3 = p3
    web = web
    side = side
    s1 = s1
    c1 = c1
    Nil = Nil
    Nodes <- MCNodes
    Pods <- MCPods
    Names <- MCNames
    Services = {s1}
    CtrIDs = {c1}
    PodsOf <- MCPodsOf
    SamplesOf <- MCSamplesOf
    ServiceOf <- MCServiceOf
    ContainerOf <- MCContainerOf
    SpecContainers <- MCSpecContainers
    MaxRetries = 1
SPECIFICATION Spec
INVARIANT ThrottlePerPod
