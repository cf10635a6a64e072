--------------------------- MODULE MC_ScrapeCycle ---------------------------
(* Two nodes.  n1 runs two replicas p1, p2 of service s1 whose "web"      *)
(* container is the scanner's container c1; p1 lists a restarted "web"    *)
(* twice (older first) and a sidecar FindContainer does not know, p2 lists *)
(* "web" twice (newer first).  n2 runs p3, a pod FindService does not     *)
(* know.                                                                  *)
EXTENDS ScrapeCycle, TLC

CONSTANTS n1, n2, p1, p2, p3, web, side, s1, c1

MCNodes == {n1, n2}
MCPods == {p1, p2, p3}
MCNames == {web, side}
MCPodsOf == (n1 :> {p1, p2}) @@ (n2 :> {p3})
MCSamplesOf ==
    (p1 :> << [name |-> web, start |-> 0], [name |-> side, start |-> 0],
              [name |-> web, start |-> 2] >>)
    @@ (p2 :> << [name |-> web, start |-> 2], [name |-> web, start |-> 1] >>)
    @@ (p3 :> << [name |-> web, start |-> 0] >>)
MCServiceOf == (p1 :> s1) @@ (p2 :> s1)
MCContainerOf == (<<p1, web>> :> c1) @@ (<<p2, web>> :> c1) @@ (<<p3, web>> :> c1)
MCSpecContainers == {[svc |-> s1, ctr |-> c1]}

=============================================================================
