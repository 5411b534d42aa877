---------------------------- MODULE ResourceHandle ----------------------------
(***************************************************************************)
(* What managing one resource instance promises, with everything else left *)
(* out: Terraform holds at most one handle, on an object that was created; *)
(* it lets go of it only when the object is gone, and never moves it       *)
(* straight from one object to another.                                    *)
(***************************************************************************)
CONSTANTS Ids, Null

VARIABLES
    born,    \* objects ever created
    dead,    \* objects removed since
    handle   \* the object in the state file, or Null

vars == <<born, dead, handle>>

Init == born = {} /\ dead = {} /\ handle = Null

Create(id) ==
    /\ id \notin born
    /\ born' = born \cup {id}
    /\ UNCHANGED <<dead, handle>>

Remove(id) ==
    /\ id \in born \ dead
    /\ dead' = dead \cup {id}
    /\ UNCHANGED <<born, handle>>

Adopt(id) ==
    /\ handle = Null
    /\ id \in born
    /\ handle' = id
    /\ UNCHANGED <<born, dead>>

Release ==
    /\ handle \in dead
    /\ handle' = Null
    /\ UNCHANGED <<born, dead>>

Next ==
    \/ \E id \in Ids : Create(id) \/ Remove(id) \/ Adopt(id)
    \/ Release

Spec == Init /\ [][Next]_vars
=============================================================================
