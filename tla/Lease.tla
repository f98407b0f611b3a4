-------------------------------- MODULE Lease --------------------------------
(***************************************************************************)
(* What a lease promises: at any time at most one owner holds it, and it   *)
(* never passes from one owner to another without having ended first, by   *)
(* release or because its time ran out.                                    *)
(***************************************************************************)
CONSTANTS Owners, NoOwner

VARIABLE holder

Init == holder = NoOwner

Grant(o) ==
    /\ holder = NoOwner
    /\ holder' = o

End ==
    /\ holder # NoOwner
    /\ holder' = NoOwner

Next == (\E o \in Owners : Grant(o)) \/ End

Spec == Init /\ [][Next]_holder
=============================================================================
