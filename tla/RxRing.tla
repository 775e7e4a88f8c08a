-------------------------------- MODULE RxRing --------------------------------
(***************************************************************************)
(* The receive path of stmmac_main.c: the descriptor ring filled by the    *)
(* DMA engine and emptied by stmmac_rx, which runs in the interrupt        *)
(* handler stmmac_direct_dma_interrupt, and the refill of the ring with    *)
(* new socket buffers, which may fail to find memory.                      *)
(*                                                                         *)
(* cur_rx and dirty_rx are the driver's free-running 32-bit counters, kept *)
(* modulo RxSize * Laps.  A socket buffer is either recorded in the ring   *)
(* or gone to the stack, and a new one is never one in use: its identity   *)
(* is not needed.  Normal descriptors, no hardware time stamps, one        *)
(* interrupt line.                                                         *)
(***************************************************************************)
EXTENDS Integers, FiniteSets, Sequences

CONSTANTS
    RxSize,   \* priv->dma_rx_size
    Laps,     \* turns of the ring before the counters wrap
    Budget,   \* limit of stmmac_rx, 64 in the handler
    Starve,   \* an allocation may fail while at most so many descriptors
              \*   wait for the refill (0: never)
    UseRiwt,  \* priv->use_riwt: a watchdog raises the receive interrupt
    Frames,   \* frames received without error
    Bad,      \* a frame rx_status discards
    NoFrame   \* nothing was ever received in a buffer

ASSUME RxAssumption ==
    /\ RxSize \in Nat \ {0}
    /\ Laps \in Nat \ {0, 1}
    /\ Budget \in Nat \ {0}
    /\ Starve \in Nat
    /\ UseRiwt \in BOOLEAN
    /\ Bad \notin Frames
    /\ NoFrame \notin Frames \cup {Bad}

VARIABLES
    cur_rx, dirty_rx,  \* next descriptor to look at, next one to refill
    rx_skbuff,         \* a socket buffer is recorded for a descriptor
    own,               \* OWN: the descriptor is the DMA's
    data,              \* what the descriptor's status and buffer hold
    dmaIdx,            \* the DMA's descriptor
    quiet,             \* frames stored since the last receive interrupt
    ri,                \* receive interrupt latched in DMA_STATUS
    pc,                \* the interrupt handler
    entry, count,      \* locals of stmmac_rx
    up                 \* the last frame given to the stack

ring == <<rx_skbuff, own, data>>
vars == <<cur_rx, dirty_rx, ring, dmaIdx, quiet, ri, pc, entry, count, up>>

Slots == 0 .. RxSize - 1
Wrap  == RxSize * Laps
Count == 0 .. Wrap - 1

Unsigned(x) == x % Wrap
Slot(c)     == c % RxSize
(* MUTANT: the end of the ring is missed.                                  *)
SuccNoWrap(i) == i + 1
Succ(i)     == IF i = RxSize - 1 THEN 0 ELSE i + 1

(* Descriptors stmmac_rx has looked at and stmmac_rx_refill has not.       *)
Used == Unsigned(cur_rx - dirty_rx)

-----------------------------------------------------------------------------
(* stmmac_init_rx_buffers, for each descriptor.                            *)
InitBuffers == rx_skbuff = [i \in Slots |-> TRUE]

(* stmmac_clear_descriptors: init_rx_desc sets OWN.                        *)
ClearDescriptors == own = [i \in Slots |-> TRUE]

(* init_dma_desc_rings with every buffer allocated.                        *)
Init ==
    /\ InitBuffers /\ ClearDescriptors
    /\ cur_rx = 0 /\ dirty_rx = 0
    /\ data = [i \in Slots |-> NoFrame]
    /\ dmaIdx = 0
    /\ quiet = FALSE
    /\ ri = FALSE
    /\ pc = "idle" /\ entry = 0 /\ count = 0
    /\ up = NoFrame

-----------------------------------------------------------------------------
(* The DMA engine (hardware).  A frame goes to the DMA's descriptor if the *)
(* DMA owns it and is lost otherwise.  With the watchdog the descriptors   *)
(* ask for no interrupt of their own.                                      *)
DmaStore(f) ==
    /\ own[dmaIdx]
    /\ data' = [data EXCEPT ![dmaIdx] = f]
    /\ own' = [own EXCEPT ![dmaIdx] = FALSE]
    /\ dmaIdx' = Succ(dmaIdx)
    /\ ri' = (ri \/ ~UseRiwt)
    /\ quiet' = UseRiwt
    /\ UNCHANGED <<cur_rx, dirty_rx, rx_skbuff, pc, entry, count, up>>

Watchdog ==
    /\ quiet
    /\ quiet' = FALSE
    /\ ri' = TRUE
    /\ UNCHANGED <<cur_rx, dirty_rx, ring, dmaIdx, pc, entry, count, up>>

-----------------------------------------------------------------------------
(* The interrupt handler.                                                  *)

(* dwmac_dma_interrupt reads the status and clears the bits it has read;   *)
(* the DMA interrupt is then masked while tx_clean and stmmac_rx run.      *)
IrqEnter ==
    /\ pc = "idle"
    /\ ri
    /\ ri' = FALSE
    /\ pc' = "loop" /\ count' = 0
    /\ UNCHANGED <<cur_rx, dirty_rx, ring, dmaIdx, quiet, entry, up>>

(* The same handler entered for a transmit interrupt.                      *)
IrqEnterTx ==
    /\ pc = "idle"
    /\ ri' = FALSE
    /\ pc' = "loop" /\ count' = 0
    /\ UNCHANGED <<cur_rx, dirty_rx, ring, dmaIdx, quiet, entry, up>>

(* MUTANT: the OWN bit is not looked at.                                   *)
RxTakeAny ==
    /\ pc = "loop"
    /\ count < Budget
    /\ count' = count + 1
    /\ entry' = Slot(cur_rx)
    /\ cur_rx' = Unsigned(cur_rx + 1)
    /\ pc' = "frame"
    /\ UNCHANGED <<dirty_rx, ring, dmaIdx, quiet, ri, up>>

(* MUTANT: the limit is not looked at.                                     *)
RxTakeUnlimited ==
    /\ pc = "loop"
    /\ ~own[Slot(cur_rx)]
    /\ count' = count + 1
    /\ entry' = Slot(cur_rx)
    /\ cur_rx' = Unsigned(cur_rx + 1)
    /\ pc' = "frame"
    /\ UNCHANGED <<dirty_rx, ring, dmaIdx, quiet, ri, up>>

(* Top of the loop of stmmac_rx: a descriptor the DMA has given back.      *)
RxTake ==
    /\ pc = "loop"
    /\ count < Budget
    /\ ~own[Slot(cur_rx)]
    /\ count' = count + 1
    /\ entry' = Slot(cur_rx)
    /\ cur_rx' = Unsigned(cur_rx + 1)
    /\ pc' = "frame"
    /\ UNCHANGED <<dirty_rx, ring, dmaIdx, quiet, ri, up>>

(* discard_frame: the socket buffer stays and will be used again.          *)
RxDiscard ==
    /\ pc = "frame"
    /\ data[entry] = Bad
    /\ pc' = "loop"
    /\ UNCHANGED <<cur_rx, dirty_rx, ring, dmaIdx, quiet, ri, entry,
                   count, up>>

(* A good frame goes up the stack with its buffer.                         *)
RxDeliver ==
    /\ pc = "frame"
    /\ data[entry] # Bad
    /\ rx_skbuff[entry]
    /\ rx_skbuff' = [rx_skbuff EXCEPT ![entry] = FALSE]
    /\ up' = data[entry]
    /\ pc' = "loop"
    /\ UNCHANGED <<cur_rx, dirty_rx, own, data, dmaIdx, quiet, ri, entry,
                   count>>

(* "Inconsistent Rx descriptor chain": the loop ends, cur_rx has moved.    *)
RxNoBuffer ==
    /\ pc = "frame"
    /\ data[entry] # Bad
    /\ ~rx_skbuff[entry]
    /\ pc' = "refill"
    /\ UNCHANGED <<cur_rx, dirty_rx, ring, dmaIdx, quiet, ri, entry,
                   count, up>>

RxDone ==
    /\ pc = "loop"
    /\ count = Budget \/ own[Slot(cur_rx)]
    /\ pc' = "refill"
    /\ UNCHANGED <<cur_rx, dirty_rx, ring, dmaIdx, quiet, ri, entry,
                   count, up>>

(* stmmac_rx_refill: a new buffer for a descriptor without one.            *)
RefillAlloc ==
    /\ pc = "refill"
    /\ cur_rx # dirty_rx
    /\ ~rx_skbuff[Slot(dirty_rx)]
    /\ rx_skbuff' = [rx_skbuff EXCEPT ![Slot(dirty_rx)] = TRUE]
    /\ data' = [data EXCEPT ![Slot(dirty_rx)] = NoFrame]
    /\ pc' = "give"
    /\ UNCHANGED <<cur_rx, dirty_rx, own, dmaIdx, quiet, ri, entry, count, up>>

(* MUTANT: the descriptor is given away without a buffer.                  *)
RefillFailGives ==
    /\ pc = "refill"
    /\ cur_rx # dirty_rx
    /\ ~rx_skbuff[Slot(dirty_rx)]
    /\ Used <= Starve
    /\ pc' = "give"
    /\ UNCHANGED <<cur_rx, dirty_rx, ring, dmaIdx, quiet, ri, entry,
                   count, up>>

(* No memory: the refill ends, to be continued at the next interrupt.      *)
RefillFail ==
    /\ pc = "refill"
    /\ cur_rx # dirty_rx
    /\ ~rx_skbuff[Slot(dirty_rx)]
    /\ Used <= Starve
    /\ pc' = "enable"
    /\ UNCHANGED <<cur_rx, dirty_rx, ring, dmaIdx, quiet, ri, entry,
                   count, up>>

RefillKeep ==
    /\ pc = "refill"
    /\ cur_rx # dirty_rx
    /\ rx_skbuff[Slot(dirty_rx)]
    /\ pc' = "give"
    /\ UNCHANGED <<cur_rx, dirty_rx, ring, dmaIdx, quiet, ri, entry,
                   count, up>>

(* set_rx_owner and dirty_rx++.                                            *)
RefillGive ==
    /\ pc = "give"
    /\ own' = [own EXCEPT ![Slot(dirty_rx)] = TRUE]
    /\ dirty_rx' = Unsigned(dirty_rx + 1)
    /\ pc' = "refill"
    /\ UNCHANGED <<cur_rx, rx_skbuff, data, dmaIdx, quiet, ri, entry,
                   count, up>>

RefillDone ==
    /\ pc = "refill"
    /\ cur_rx = dirty_rx
    /\ pc' = "enable"
    /\ UNCHANGED <<cur_rx, dirty_rx, ring, dmaIdx, quiet, ri, entry,
                   count, up>>

(* MUTANT: the status is acknowledged when the handler returns.            *)
IrqExitAcks ==
    /\ pc = "enable"
    /\ ri' = FALSE
    /\ pc' = "idle" /\ entry' = 0 /\ count' = 0
    /\ UNCHANGED <<cur_rx, dirty_rx, ring, dmaIdx, quiet, up>>

(* stmmac_enable_dma_irq and the return from the handler.                  *)
IrqExit ==
    /\ pc = "enable"
    /\ pc' = "idle" /\ entry' = 0 /\ count' = 0
    /\ UNCHANGED <<cur_rx, dirty_rx, ring, dmaIdx, quiet, ri, up>>

Handler ==
    \/ RxTake \/ RxDiscard \/ RxDeliver \/ RxNoBuffer \/ RxDone
    \/ RefillAlloc \/ RefillFail \/ RefillKeep \/ RefillGive \/ RefillDone
    \/ IrqExit

-----------------------------------------------------------------------------
Next ==
    \/ \E f \in Frames \cup {Bad} : DmaStore(f)
    \/ Watchdog
    \/ IrqEnter \/ IrqEnterTx
    \/ Handler

Spec == Init /\ [][Next]_vars

(* A raised interrupt is taken, the handler runs to its end, the watchdog  *)
(* expires.  Nothing makes frames arrive or transmit interrupts happen.    *)
Fairness ==
    /\ WF_vars(Watchdog)
    /\ WF_vars(IrqEnter)
    /\ WF_vars(Handler)

FairSpec == Spec /\ Fairness

-----------------------------------------------------------------------------
(* Type invariant.                                                         *)
TypeOK ==
    /\ cur_rx \in Count /\ dirty_rx \in Count
    /\ rx_skbuff \in [Slots -> BOOLEAN]
    /\ own \in [Slots -> BOOLEAN]
    /\ data \in [Slots -> Frames \cup {Bad, NoFrame}]
    /\ dmaIdx \in Slots
    /\ quiet \in BOOLEAN /\ ri \in BOOLEAN
    /\ pc \in {"idle", "loop", "frame", "refill", "give", "enable"}
    /\ entry \in Slots
    /\ count \in 0 .. Budget
    /\ up \in Frames \cup {NoFrame}

(* The DMA only ever writes to a buffer the driver still holds: a          *)
(* descriptor it owns has its socket buffer, also after allocations have   *)
(* failed.                                                                 *)
DmaHasBuffer == \A i \in Slots : own[i] => rx_skbuff[i]

(* The stack never gets a buffer in which nothing was received: whatever   *)
(* allocations fail, a descriptor that is not the DMA's and has a buffer   *)
(* when stmmac_rx looks at it holds a frame.                               *)
NoEmptyFrame ==
    pc = "frame" /\ rx_skbuff[entry] => data[entry] # NoFrame

(* Frames the DMA has stored and stmmac_rx has not looked at: they follow  *)
(* cur_rx.                                                                 *)
Stored  == Cardinality({i \in Slots : ~own[i]}) - Used
Pending == [k \in 1 .. Stored |-> data[Slot(cur_rx + k - 1)]]

(* No receive interrupt is lost between the handler's reading of the       *)
(* status and the end of its loop: while a frame waits in the ring the     *)
(* interrupt is latched or the watchdog will raise it, or the handler has  *)
(* still to come to the frame.                                             *)
NoFrameStranded == Stored > 0 => quiet \/ ri \/ pc \in {"loop", "frame"}

(* stmmac_rx never takes a descriptor without a socket buffer for a        *)
(* received frame ("Inconsistent Rx descriptor chain").                    *)
ChainConsistent ==
    pc = "frame" /\ data[entry] # Bad => rx_skbuff[entry]

(* The ring implements the queue of RxQueue: frames go up in the order of  *)
(* arrival, each once, and are lost only when no descriptor is armed.      *)
Queue == INSTANCE RxQueue WITH
            q <- Pending,
            armed <- Cardinality({i \in Slots : own[i]}),
            hand <- IF pc = "frame" THEN data[entry] ELSE NoFrame
FirstInFirstOut == Queue!Spec

(* A stored frame is looked at ("It gets all the frames inside the ring"). *)
FrameTaken ==
    \A c \in Count : (cur_rx = c /\ ~own[Slot(c)] /\ Stored > 0) ~> cur_rx # c

=============================================================================
