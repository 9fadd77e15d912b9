------------------------------ MODULE Follower ------------------------------
(***************************************************************************)
(* What a service that follows the assignments promises: it holds a device *)
(* for adopted only if the retained stream has said so, it may forget at   *)
(* any time, and once the stream rests it comes to agree with it for good. *)
(***************************************************************************)
CONSTANT Device

VARIABLES
    register,   \* devices whose retained assignment is adopted
    said,       \* devices the stream has ever called adopted
    view        \* devices the follower holds for adopted

vars == <<register, said, view>>

Init ==
    /\ register \subseteq Device
    /\ said = register
    /\ view \subseteq said

Next ==
    /\ register' \subseteq Device
    /\ said' = said \cup register'
    /\ view' \subseteq view \cup said'

Spec == Init /\ [][Next]_vars

CatchesUp ==
    \A d \in Device :
        /\ <>[](d \in register) => <>[](d \in view)
        /\ <>[](d \notin register) => <>[](d \notin view)

LiveSpec == Spec /\ CatchesUp
=============================================================================
