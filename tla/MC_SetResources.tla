--------------------------- MODULE MC_SetResources ---------------------------
(* One container `w`.  A decision sets all four fields with limits above   *)
(* requests, only a memory limit, only a CPU request, or nothing (the      *)
(* invalid container).                                                    *)
EXTENDS SetResources, TLC

CONSTANTS w

Req(lm, lc, rm, rc) ==
    [limits |-> [memory |-> lm, cpu |-> lc], requests |-> [memory |-> rm, cpu |-> rc]]

MCDecisionResources ==
    {Req(2, 500, 1, 250), Req(2, Nil, Nil, Nil), Req(Nil, Nil, Nil, 250),
     Req(Nil, Nil, Nil, Nil)}

=============================================================================
