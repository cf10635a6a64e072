----------------------------- MODULE Inventory -----------------------------
(***************************************************************************)
(* What GetResources promises its caller (spec section 4.1), without the   *)
(* goroutines that do the listing: a call starts from nothing, the         *)
(* inventory grows only by objects of the complete inventory, an error may *)
(* be recorded at any point, and the call returns either with an error or *)
(* with the complete inventory.                                           *)
(***************************************************************************)
CONSTANTS
    Complete,   \* the inventory of the cluster as listed
    Errors,     \* the errors a listing may fail with
    None        \* no error

VARIABLES
    phase,      \* "idle", or "listing" during a call
    inventory,  \* what the call has collected
    error       \* the error the call will return, or None

vars == <<phase, inventory, error>>

Init ==
    /\ phase = "idle"
    /\ inventory = {}
    /\ error = None

(* The caller calls GetResources.                                         *)
Call ==
    /\ phase = "idle"
    /\ phase' = "listing"
    /\ inventory' = {}
    /\ error' = None

(* Part of the inventory is collected.                                   *)
Collect ==
    /\ phase = "listing"
    /\ \E part \in SUBSET Complete : inventory' = inventory \cup part
    /\ UNCHANGED <<phase, error>>

(* A listing fails; the first error is the one returned.                 *)
Fail ==
    /\ phase = "listing"
    /\ \E e \in Errors : error' = IF error = None THEN e ELSE error
    /\ UNCHANGED <<phase, inventory>>

(* The call returns: complete unless it failed.                          *)
Return ==
    /\ phase = "listing"
    /\ error = None => inventory = Complete
    /\ phase' = "idle"
    /\ UNCHANGED <<inventory, error>>

Next == Call \/ Collect \/ Fail \/ Return

Spec == Init /\ [][Next]_vars

=============================================================================
