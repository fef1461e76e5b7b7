---------------------------- MODULE FrameDelivery ----------------------------
(***************************************************************************)
(* What the video path promises a viewer: frames of the host are shown     *)
(* whole, each at most once and in the order they were captured; any of    *)
(* them may be missing.                                                    *)
(***************************************************************************)
EXTENDS Integers, Sequences

VARIABLES
    offered,    \* frames the host has begun to send
    shown       \* the frames given to the decoder, oldest first

Init == offered = 0 /\ shown = <<>>

Offer == offered' = offered + 1 /\ UNCHANGED shown

Show(f) ==
    /\ f \in 1..offered
    /\ shown # <<>> => shown[Len(shown)].frame < f
    /\ shown' = Append(shown, [frame |-> f, whole |-> TRUE])
    /\ UNCHANGED offered

Next == Offer \/ \E f \in 1..offered : Show(f)

Spec == Init /\ [][Next]_<<offered, shown>>
=============================================================================
