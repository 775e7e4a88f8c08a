-------------------------------- MODULE TxFlow --------------------------------
(***************************************************************************)
(* What the transmit path of stmmac_main.c promises the networking core:   *)
(* flow control.  Of the ring only the number of descriptors in use is     *)
(* left.  stmmac_xmit claims the descriptors of a frame when it accepts    *)
(* it and stops the queue when the frame is queued and the largest frame   *)
(* might not fit any more; tx_clean gives descriptors back one by one and  *)
(* wakes the queue above a threshold.  TxRing implements this module.      *)
(***************************************************************************)
EXTENDS Integers

CONSTANTS
    TxSize,    \* priv->dma_tx_size
    MaxFrags   \* MAX_SKB_FRAGS

VARIABLES
    used,     \* descriptors claimed and not yet reclaimed
    stopped,  \* netif_queue_stopped(dev)
    phase     \* stmmac_xmit: "idle", "sending" a frame, ring found "full"

vars == <<used, stopped, phase>>

Free      == TxSize - 1 - used
Threshold == TxSize \div 4

Init == used = 0 /\ stopped = FALSE /\ phase = "idle"

Accept(n) ==
    /\ phase = "idle" /\ ~stopped
    /\ Free >= n + 1
    /\ used' = used + n + 1
    /\ phase' = "sending"
    /\ UNCHANGED stopped

Refuse(n) ==
    /\ phase = "idle" /\ ~stopped
    /\ Free < n + 1
    /\ phase' = "full"
    /\ UNCHANGED <<used, stopped>>

Busy ==
    /\ phase = "full"
    /\ phase' = "idle"
    /\ stopped' = TRUE
    /\ UNCHANGED used

Queued ==
    /\ phase = "sending"
    /\ phase' = "idle"
    /\ stopped' = (stopped \/ Free <= MaxFrags + 1)
    /\ UNCHANGED used

Reclaim ==
    /\ used > 0
    /\ used' = used - 1
    /\ UNCHANGED <<stopped, phase>>

Wake ==
    /\ phase = "idle"
    /\ stopped /\ Free > Threshold
    /\ stopped' = FALSE
    /\ UNCHANGED <<used, phase>>

Next ==
    \/ \E n \in 0 .. MaxFrags : Accept(n) \/ Refuse(n)
    \/ Busy \/ Queued \/ Reclaim \/ Wake

Spec == Init /\ [][Next]_vars

-----------------------------------------------------------------------------
(* Type invariant.                                                         *)
TypeOK ==
    /\ used \in 0 .. TxSize - 1
    /\ stopped \in BOOLEAN
    /\ phase \in {"idle", "sending", "full"}

(* "Tx Ring full when queue awake" is never logged: whenever the core may  *)
(* call stmmac_xmit, the ring takes the largest frame there is.  It needs  *)
(* Threshold >= MaxFrags.                                                  *)
NoHardError ==
    /\ phase # "full"
    /\ phase = "idle" /\ ~stopped => Free >= MaxFrags + 1

=============================================================================
