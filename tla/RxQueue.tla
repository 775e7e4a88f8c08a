------------------------------- MODULE RxQueue -------------------------------
(***************************************************************************)
(* What the receive path of stmmac_main.c promises: a queue.  A frame from *)
(* the wire is stored when a descriptor is armed for it and is lost only   *)
(* when none is; stored frames are taken in the order of arrival, each     *)
(* once, and the intact ones go up the stack; a descriptor is armed again  *)
(* only after its frame was taken.  RxRing implements this module.         *)
(***************************************************************************)
EXTENDS Integers, Sequences

CONSTANTS
    RxSize,   \* priv->dma_rx_size
    Frames,   \* frames received without error
    Bad,      \* a frame with an error status
    NoFrame   \* no frame

VARIABLES
    q,       \* frames stored and not taken, oldest first
    armed,   \* descriptors ready for a frame
    hand,    \* the frame just taken
    up       \* the last frame given to the stack

vars == <<q, armed, hand, up>>

Init == q = <<>> /\ armed = RxSize /\ hand = NoFrame /\ up = NoFrame

Store(f) ==
    /\ armed > 0
    /\ q' = Append(q, f)
    /\ armed' = armed - 1
    /\ UNCHANGED <<hand, up>>

Take ==
    /\ q # <<>> /\ hand = NoFrame
    /\ hand' = Head(q)
    /\ q' = Tail(q)
    /\ UNCHANGED <<armed, up>>

Deliver ==
    /\ hand \in Frames
    /\ up' = hand
    /\ hand' = NoFrame
    /\ UNCHANGED <<q, armed>>

Discard ==
    /\ hand = Bad
    /\ hand' = NoFrame
    /\ UNCHANGED <<q, armed, up>>

Arm ==
    /\ hand = NoFrame
    /\ armed + Len(q) < RxSize
    /\ armed' = armed + 1
    /\ UNCHANGED <<q, hand, up>>

Next ==
    \/ \E f \in Frames \cup {Bad} : Store(f)
    \/ Take \/ Deliver \/ Discard \/ Arm

Spec == Init /\ [][Next]_vars

-----------------------------------------------------------------------------
(* Type invariant.                                                         *)
TypeOK ==
    /\ q \in Seq(Frames \cup {Bad})
    /\ armed \in 0 .. RxSize
    /\ armed + Len(q) <= RxSize
    /\ hand \in Frames \cup {Bad, NoFrame}
    /\ up \in Frames \cup {NoFrame}

=============================================================================
