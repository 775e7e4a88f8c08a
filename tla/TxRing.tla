-------------------------------- MODULE TxRing --------------------------------
(***************************************************************************)
(* The transmit path of stmmac_main.c: the descriptor ring shared by       *)
(* stmmac_xmit (one caller at a time: the networking core holds the        *)
(* device's transmit lock around it), by stmmac_tx_clean, which runs in    *)
(* the DMA interrupt and in the coalescing timer under priv->tx_lock, and  *)
(* by the DMA engine, which takes no lock at all and is told what it may   *)
(* read by the OWN bit of each descriptor alone.                           *)
(*                                                                         *)
(* cur_tx and dirty_tx are the driver's free-running 32-bit counters, kept *)
(* here modulo TxSize * Laps (2^32 is TxSize * Laps for the ring of 64     *)
(* descriptors that the driver builds).  EEE is off: eee_enabled and       *)
(* tx_path_in_lpi_mode are FALSE.                                          *)
(*                                                                         *)
(* Left out: the transmit watchdog of the networking core, which resets    *)
(* the ring (stmmac_tx_err) when its queue was stopped for too long, and   *)
(* rtl8211_xmit.  With that go the steps of stmmac_xmit that keep it away: *)
(* the wait for the device timer and m_Tx_Lock, disable_irq(98) before and *)
(* enable_irq(98) after the work on the ring.  To the rest they are delays.*)
(***************************************************************************)
EXTENDS Integers, FiniteSets

CONSTANTS
    TxSize,      \* priv->dma_tx_size
    Laps,        \* turns of the ring before the counters wrap
    MaxFrags,    \* MAX_SKB_FRAGS: page fragments of one socket buffer
    CoalFrames,  \* priv->tx_coal_frames
    Skbs,        \* socket buffers the stack can hand to the driver
    NoSkb        \* NULL

ASSUME SizesAssumption ==
    /\ TxSize \in Nat \ {0}
    /\ Laps \in Nat \ {0, 1}
    /\ MaxFrags \in Nat
    /\ CoalFrames \in Nat
    /\ MaxFrags + 1 < TxSize
    /\ NoSkb \notin Skbs

VARIABLES
    cur_tx, dirty_tx,       \* next free descriptor, next one to reclaim
    tx_skbuff,              \* the socket buffer recorded for a descriptor
    tx_skbuff_dma,          \* a DMA mapping is recorded for it
    own, fs, ls, ic,        \* OWN, FIRST_SEGMENT, LAST_SEGMENT, INTERRUPT
    seg,                    \* the data the descriptor points at
    queueStopped,           \* netif_queue_stopped(dev)
    tx_lock,                \* holder of priv->tx_lock
    tx_count_frames,        \* segments queued since the last INTERRUPT bit
    held,                   \* socket buffers the driver has and must free
    xpc, xskb, xfrags, xi, xfirst,  \* stmmac_xmit and its locals
    cpc, centry, cskb,      \* stmmac_tx_clean in each context, its locals
    dmaRunning, dmaIdx,     \* the DMA: running or suspended, its descriptor
    wire,                   \* last segment sent of the frame on the wire
    ti,                     \* transmit interrupt latched in DMA_STATUS
    timerArmed              \* priv->txtimer is pending

cursors == <<cur_tx, dirty_tx>>
book    == <<tx_skbuff, tx_skbuff_dma, held>>
descs   == <<own, fs, ls, ic, seg>>
xlocals == <<xskb, xfrags, xi, xfirst>>
cleaner == <<cpc, centry, cskb>>
dma     == <<dmaRunning, dmaIdx, wire>>
vars == <<cursors, book, descs, queueStopped, tx_lock, tx_count_frames,
          xpc, xlocals, cleaner, dma, ti, timerArmed>>

(* Contexts in which stmmac_tx_clean runs.                                 *)
Cleaners == {"irq", "timer"}

Slots == 0 .. TxSize - 1
Wrap  == TxSize * Laps
Count == 0 .. Wrap - 1

(* Segment k of the n + 1 segments of socket buffer skb.                   *)
NoSeg    == [skb |-> NoSkb, k |-> 0, n |-> 0]
Segments == [skb : Skbs \cup {NoSkb}, k : 0 .. MaxFrags, n : 0 .. MaxFrags]

Unsigned(x) == x % Wrap
Slot(c)     == c % TxSize
(* MUTANT: the end of the ring is missed.                                  *)
SuccNoWrap(i) == i + 1
Succ(i)     == IF i = TxSize - 1 THEN 0 ELSE i + 1
InFlight    == Unsigned(cur_tx - dirty_tx)

(* stmmac_tx_avail, in the unsigned arithmetic of the code.                *)
Avail == Unsigned(dirty_tx + TxSize - cur_tx - 1)

(* MUTANT: wakes the queue as soon as one descriptor is free.              *)
AnyFree == 0

(* STMMAC_TX_THRESH: free descriptors required to wake the queue.          *)
WakeThreshold == TxSize \div 4

-----------------------------------------------------------------------------
Init ==
    /\ cur_tx = 0 /\ dirty_tx = 0
    /\ tx_skbuff = [i \in Slots |-> NoSkb]
    /\ tx_skbuff_dma = [i \in Slots |-> FALSE]
    /\ own = [i \in Slots |-> FALSE]
    /\ fs = [i \in Slots |-> FALSE]
    /\ ls = [i \in Slots |-> FALSE]
    /\ ic = [i \in Slots |-> FALSE]
    /\ seg = [i \in Slots |-> NoSeg]
    /\ queueStopped = FALSE
    /\ tx_lock = "free"
    /\ tx_count_frames = 0
    /\ held = {}
    /\ xpc = "idle" /\ xskb = NoSkb /\ xfrags = 0 /\ xi = 0 /\ xfirst = 0
    /\ cpc = [c \in Cleaners |-> "idle"]
    /\ centry = [c \in Cleaners |-> 0]
    /\ cskb = [c \in Cleaners |-> NoSkb]
    /\ dmaRunning = TRUE /\ dmaIdx = 0 /\ wire = NoSeg
    /\ ti = FALSE
    /\ timerArmed = TRUE

-----------------------------------------------------------------------------
(* stmmac_xmit.  The core calls it with the transmit lock held and only    *)
(* while the queue is awake.  xpc # "idle" is therefore also "the          *)
(* transmit lock of the device is held".                                   *)

Call(s, n) ==
    /\ xpc = "idle"
    /\ ~queueStopped
    /\ s \notin held
    /\ xskb' = s
    /\ xfrags' = n

(* MUTANT: room is required for the fragments only, not for the head.      *)
XmitAcceptShort(s, n) ==
    /\ Call(s, n)
    /\ Avail >= n
    /\ xpc' = "lock"
    /\ UNCHANGED <<cursors, book, descs, queueStopped, tx_lock,
                   tx_count_frames, xi, xfirst, cleaner, dma, ti, timerArmed>>

XmitAccept(s, n) ==
    /\ Call(s, n)
    /\ Avail >= n + 1
    /\ xpc' = "lock"
    /\ UNCHANGED <<cursors, book, descs, queueStopped, tx_lock,
                   tx_count_frames, xi, xfirst, cleaner, dma, ti, timerArmed>>

(* The ring cannot take the frame; the test and the stop are two steps.    *)
XmitFull(s, n) ==
    /\ Call(s, n)
    /\ Avail < n + 1
    /\ xpc' = "full"
    /\ UNCHANGED <<cursors, book, descs, queueStopped, tx_lock,
                   tx_count_frames, xi, xfirst, cleaner, dma, ti, timerArmed>>

XmitBusy ==
    /\ xpc = "full"
    /\ queueStopped' = TRUE
    /\ xpc' = "idle"
    /\ xskb' = NoSkb /\ xfrags' = 0
    /\ UNCHANGED <<cursors, book, descs, tx_lock, tx_count_frames, xi,
                   xfirst, cleaner, dma, ti, timerArmed>>

(* MUTANT: the first descriptor is given away when it is prepared.         *)
XmitFirstOwned ==
    /\ xpc = "lock"
    /\ tx_lock = "free"
    /\ tx_lock' = "xmit"
    /\ LET e == Slot(cur_tx) IN
       /\ xfirst' = e
       /\ tx_skbuff' = [tx_skbuff EXCEPT ![e] = xskb]
       /\ tx_skbuff_dma' = [tx_skbuff_dma EXCEPT ![e] = TRUE]
       /\ seg' = [seg EXCEPT ![e] = [skb |-> xskb, k |-> 0, n |-> xfrags]]
       /\ fs' = [fs EXCEPT ![e] = TRUE]
       /\ own' = [own EXCEPT ![e] = TRUE]
    /\ held' = held \cup {xskb}
    /\ xi' = 0
    /\ xpc' = "frags"
    /\ UNCHANGED <<cursors, ls, ic, queueStopped, tx_count_frames,
                   xskb, xfrags, cleaner, dma, ti, timerArmed>>

(* Take tx_lock, record the buffer and prepare the first descriptor        *)
(* without giving it away: prepare_tx_desc leaves LS and INTERRUPT alone.  *)
(* The wait for the device timer, before the lock, is a delay here.        *)
XmitFirst ==
    /\ xpc = "lock"
    /\ tx_lock = "free"
    /\ tx_lock' = "xmit"
    /\ LET e == Slot(cur_tx) IN
       /\ xfirst' = e
       /\ tx_skbuff' = [tx_skbuff EXCEPT ![e] = xskb]
       /\ tx_skbuff_dma' = [tx_skbuff_dma EXCEPT ![e] = TRUE]
       /\ seg' = [seg EXCEPT ![e] = [skb |-> xskb, k |-> 0, n |-> xfrags]]
       /\ fs' = [fs EXCEPT ![e] = TRUE]
    /\ held' = held \cup {xskb}
    /\ xi' = 0
    /\ xpc' = "frags"
    /\ UNCHANGED <<cursors, own, ls, ic, queueStopped, tx_count_frames,
                   xskb, xfrags, cleaner, dma, ti, timerArmed>>

(* One turn of the fragment loop: the descriptor is owned at once.         *)
XmitFrag ==
    /\ xpc = "frags"
    /\ xi < xfrags
    /\ xi' = xi + 1
    /\ cur_tx' = Unsigned(cur_tx + 1)
    /\ LET e == Slot(cur_tx') IN
       /\ tx_skbuff' = [tx_skbuff EXCEPT ![e] = NoSkb]
       /\ tx_skbuff_dma' = [tx_skbuff_dma EXCEPT ![e] = TRUE]
       /\ seg' = [seg EXCEPT ![e] = [skb |-> xskb, k |-> xi + 1, n |-> xfrags]]
       /\ fs' = [fs EXCEPT ![e] = FALSE]
       /\ own' = [own EXCEPT ![e] = TRUE]
    /\ UNCHANGED <<dirty_tx, held, ls, ic, queueStopped, tx_lock,
                   tx_count_frames, xpc, xskb, xfrags, xfirst, cleaner, dma,
                   ti, timerArmed>>

(* MUTANT: one segment too many is coalesced.                              *)
XmitCloseLate ==
    /\ xpc = "frags"
    /\ xi = xfrags
    /\ LET e == Slot(cur_tx)
           count == tx_count_frames + xfrags + 1
           quiet == CoalFrames >= count IN
       /\ ls' = [ls EXCEPT ![e] = TRUE]
       /\ ic' = [ic EXCEPT ![e] = ~quiet]
       /\ tx_count_frames' = IF quiet THEN count ELSE 0
       /\ timerArmed' = (timerArmed \/ quiet)
    /\ xpc' = "handover"
    /\ UNCHANGED <<cursors, book, own, fs, seg, queueStopped, tx_lock,
                   xlocals, cleaner, dma, ti>>

(* close_tx_desc on the last descriptor, then interrupt coalescing: while  *)
(* fewer than CoalFrames segments were queued the INTERRUPT bit is taken   *)
(* back and the timer is started instead.                                  *)
XmitClose ==
    /\ xpc = "frags"
    /\ xi = xfrags
    /\ LET e == Slot(cur_tx)
           count == tx_count_frames + xfrags + 1
           quiet == CoalFrames > count IN
       /\ ls' = [ls EXCEPT ![e] = TRUE]
       /\ ic' = [ic EXCEPT ![e] = ~quiet]
       /\ tx_count_frames' = IF quiet THEN count ELSE 0
       /\ timerArmed' = (timerArmed \/ quiet)
    /\ xpc' = "handover"
    /\ UNCHANGED <<cursors, book, own, fs, seg, queueStopped, tx_lock,
                   xlocals, cleaner, dma, ti>>

(* set_tx_owner(first): from here on the DMA may send the frame.           *)
XmitHandOver ==
    /\ xpc = "handover"
    /\ own' = [own EXCEPT ![xfirst] = TRUE]
    /\ xpc' = "publish"
    /\ UNCHANGED <<cursors, book, fs, ls, ic, seg, queueStopped, tx_lock,
                   tx_count_frames, xlocals, cleaner, dma, ti, timerArmed>>

(* MUTANT: the queue is not stopped when the ring runs short.              *)
XmitPublishAwake ==
    /\ xpc = "publish"
    /\ cur_tx' = Unsigned(cur_tx + 1)
    /\ xpc' = "kick"
    /\ UNCHANGED <<dirty_tx, queueStopped, book, descs, tx_lock,
                   tx_count_frames, xlocals, cleaner, dma, ti, timerArmed>>

(* The frame becomes visible to tx_clean; stop the queue while the largest *)
(* frame might not fit any more.                                           *)
XmitPublish ==
    /\ xpc = "publish"
    /\ cur_tx' = Unsigned(cur_tx + 1)
    /\ queueStopped' =
          (queueStopped \/ Unsigned(dirty_tx + TxSize - cur_tx' - 1) <= MaxFrags + 1)
    /\ xpc' = "kick"
    /\ UNCHANGED <<dirty_tx, book, descs, tx_lock, tx_count_frames, xlocals,
                   cleaner, dma, ti, timerArmed>>

(* MUTANT: the poll demand is only issued while the queue is awake.        *)
XmitKickAwake ==
    /\ xpc = "kick"
    /\ dmaRunning' = (dmaRunning \/ ~queueStopped)
    /\ tx_lock' = "free"
    /\ xpc' = "idle"
    /\ xskb' = NoSkb /\ xfrags' = 0 /\ xi' = 0 /\ xfirst' = 0
    /\ UNCHANGED <<cursors, book, descs, queueStopped, tx_count_frames,
                   cleaner, dmaIdx, wire, ti, timerArmed>>

(* enable_dma_transmission and the end of the call.                        *)
XmitKick ==
    /\ xpc = "kick"
    /\ dmaRunning' = TRUE
    /\ tx_lock' = "free"
    /\ xpc' = "idle"
    /\ xskb' = NoSkb /\ xfrags' = 0 /\ xi' = 0 /\ xfirst' = 0
    /\ UNCHANGED <<cursors, book, descs, queueStopped, tx_count_frames,
                   cleaner, dmaIdx, wire, ti, timerArmed>>

XmitStep == XmitBusy \/ XmitFirst \/ XmitFrag \/ XmitClose \/ XmitHandOver
            \/ XmitPublish \/ XmitKick

-----------------------------------------------------------------------------
(* stmmac_tx_clean, called by context c.                                   *)

CleanLock(c) ==
    /\ cpc[c] = "lock"
    /\ tx_lock = "free"
    /\ tx_lock' = c
    /\ cpc' = [cpc EXCEPT ![c] = "loop"]
    /\ UNCHANGED <<cursors, book, descs, queueStopped, tx_count_frames, xpc,
                   xlocals, centry, cskb, dma, ti, timerArmed>>

(* MUTANT: the OWN bit is not looked at.                                   *)
CleanTakeAny(c) ==
    /\ cpc[c] = "loop"
    /\ dirty_tx # cur_tx
    /\ centry' = [centry EXCEPT ![c] = Slot(dirty_tx)]
    /\ cskb' = [cskb EXCEPT ![c] = tx_skbuff[Slot(dirty_tx)]]
    /\ cpc' = [cpc EXCEPT ![c] = "free"]
    /\ UNCHANGED <<cursors, book, descs, queueStopped, tx_lock,
                   tx_count_frames, xpc, xlocals, dma, ti, timerArmed>>

(* MUTANT: the buffer is looked up after dirty_tx was advanced.            *)
CleanTakeNext(c) ==
    /\ cpc[c] = "loop"
    /\ dirty_tx # cur_tx
    /\ ~own[Slot(dirty_tx)]
    /\ centry' = [centry EXCEPT ![c] = Slot(dirty_tx)]
    /\ cskb' = [cskb EXCEPT ![c] = tx_skbuff[Succ(Slot(dirty_tx))]]
    /\ cpc' = [cpc EXCEPT ![c] = "free"]
    /\ UNCHANGED <<cursors, book, descs, queueStopped, tx_lock,
                   tx_count_frames, xpc, xlocals, dma, ti, timerArmed>>

(* Top of the loop: the entry, its buffer, and the test of the OWN bit.    *)
CleanTake(c) ==
    /\ cpc[c] = "loop"
    /\ dirty_tx # cur_tx
    /\ ~own[Slot(dirty_tx)]
    /\ centry' = [centry EXCEPT ![c] = Slot(dirty_tx)]
    /\ cskb' = [cskb EXCEPT ![c] = tx_skbuff[Slot(dirty_tx)]]
    /\ cpc' = [cpc EXCEPT ![c] = "free"]
    /\ UNCHANGED <<cursors, book, descs, queueStopped, tx_lock,
                   tx_count_frames, xpc, xlocals, dma, ti, timerArmed>>

(* MUTANT: tx_skbuff keeps the freed buffer.                               *)
CleanFreeKeep(c) ==
    /\ cpc[c] = "free"
    /\ LET e == centry[c] IN
       /\ tx_skbuff_dma' = [tx_skbuff_dma EXCEPT ![e] = FALSE]
       /\ tx_skbuff' = tx_skbuff
       /\ held' = held \ {cskb[c]}
       /\ own' = [own EXCEPT ![e] = FALSE]
       /\ fs' = [fs EXCEPT ![e] = FALSE]
       /\ ls' = [ls EXCEPT ![e] = FALSE]
       /\ ic' = [ic EXCEPT ![e] = FALSE]
       /\ seg' = [seg EXCEPT ![e] = NoSeg]
    /\ dirty_tx' = Unsigned(dirty_tx + 1)
    /\ centry' = [centry EXCEPT ![c] = 0]
    /\ cskb' = [cskb EXCEPT ![c] = NoSkb]
    /\ cpc' = [cpc EXCEPT ![c] = "loop"]
    /\ UNCHANGED <<cur_tx, queueStopped, tx_lock, tx_count_frames, xpc,
                   xlocals, dma, ti, timerArmed>>

(* Unmap, free the buffer, release_tx_desc, dirty_tx++.  The stale buffer  *)
(* address that release_tx_desc leaves behind is dropped: every descriptor *)
(* is given a new one before it is owned again.                            *)
CleanFree(c) ==
    /\ cpc[c] = "free"
    /\ LET e == centry[c] IN
       /\ tx_skbuff_dma' = [tx_skbuff_dma EXCEPT ![e] = FALSE]
       /\ tx_skbuff' = IF cskb[c] = NoSkb THEN tx_skbuff
                       ELSE [tx_skbuff EXCEPT ![e] = NoSkb]
       /\ held' = held \ {cskb[c]}
       /\ own' = [own EXCEPT ![e] = FALSE]
       /\ fs' = [fs EXCEPT ![e] = FALSE]
       /\ ls' = [ls EXCEPT ![e] = FALSE]
       /\ ic' = [ic EXCEPT ![e] = FALSE]
       /\ seg' = [seg EXCEPT ![e] = NoSeg]
    /\ dirty_tx' = Unsigned(dirty_tx + 1)
    /\ centry' = [centry EXCEPT ![c] = 0]
    /\ cskb' = [cskb EXCEPT ![c] = NoSkb]
    /\ cpc' = [cpc EXCEPT ![c] = "loop"]
    /\ UNCHANGED <<cur_tx, queueStopped, tx_lock, tx_count_frames, xpc,
                   xlocals, dma, ti, timerArmed>>

CanWake == queueStopped /\ Avail > WakeThreshold

(* MUTANT: the transmit lock is always taken after the loop.               *)
CleanDoneLocks(c) ==
    /\ cpc[c] = "loop"
    /\ dirty_tx = cur_tx \/ own[Slot(dirty_tx)]
    /\ cpc' = [cpc EXCEPT ![c] = "wake"]
    /\ UNCHANGED <<cursors, book, descs, queueStopped, tx_lock,
                   tx_count_frames, xpc, xlocals, centry, cskb, dma, ti,
                   timerArmed>>

(* MUTANT: the queue is never woken.                                       *)
CleanDoneQuiet(c) ==
    /\ cpc[c] = "loop"
    /\ dirty_tx = cur_tx \/ own[Slot(dirty_tx)]
    /\ cpc' = [cpc EXCEPT ![c] = "unlock"]
    /\ UNCHANGED <<cursors, book, descs, queueStopped, tx_lock,
                   tx_count_frames, xpc, xlocals, centry, cskb, dma, ti,
                   timerArmed>>

(* End of the loop; the first test of the wake-up condition decides        *)
(* whether the transmit lock is taken for the second one.                  *)
CleanDone(c) ==
    /\ cpc[c] = "loop"
    /\ dirty_tx = cur_tx \/ own[Slot(dirty_tx)]
    /\ cpc' = [cpc EXCEPT ![c] = IF CanWake THEN "wake" ELSE "unlock"]
    /\ UNCHANGED <<cursors, book, descs, queueStopped, tx_lock,
                   tx_count_frames, xpc, xlocals, centry, cskb, dma, ti,
                   timerArmed>>

(* netif_tx_lock; test again; netif_wake_queue; netif_tx_unlock.           *)
CleanWake(c) ==
    /\ cpc[c] = "wake"
    /\ xpc = "idle"
    /\ queueStopped' = (queueStopped /\ ~CanWake)
    /\ cpc' = [cpc EXCEPT ![c] = "unlock"]
    /\ UNCHANGED <<cursors, book, descs, tx_lock, tx_count_frames, xpc,
                   xlocals, centry, cskb, dma, ti, timerArmed>>

(* MUTANT: the status is acknowledged when the handler returns.            *)
CleanUnlockAcks(c) ==
    /\ cpc[c] = "unlock"
    /\ tx_lock' = "free"
    /\ cpc' = [cpc EXCEPT ![c] = "idle"]
    /\ ti' = FALSE
    /\ UNCHANGED <<cursors, book, descs, queueStopped, tx_count_frames, xpc,
                   xlocals, centry, cskb, dma, timerArmed>>

CleanUnlock(c) ==
    /\ cpc[c] = "unlock"
    /\ tx_lock' = "free"
    /\ cpc' = [cpc EXCEPT ![c] = "idle"]
    /\ UNCHANGED <<cursors, book, descs, queueStopped, tx_count_frames, xpc,
                   xlocals, centry, cskb, dma, ti, timerArmed>>

CleanStep(c) == CleanLock(c) \/ CleanTake(c) \/ CleanFree(c) \/ CleanDone(c)
                \/ CleanWake(c) \/ CleanUnlock(c)

(* stmmac_direct_dma_interrupt: the status is read and cleared, then       *)
(* tx_clean runs.  The DMA interrupt stays masked until it has returned.   *)
TxInterrupt ==
    /\ ti
    /\ cpc["irq"] = "idle"
    /\ ti' = FALSE
    /\ cpc' = [cpc EXCEPT !["irq"] = "lock"]
    /\ UNCHANGED <<cursors, book, descs, queueStopped, tx_lock,
                   tx_count_frames, xpc, xlocals, centry, cskb, dma,
                   timerArmed>>

(* The same handler, entered for a received frame.                         *)
RxInterrupt ==
    /\ cpc["irq"] = "idle"
    /\ ti' = FALSE
    /\ cpc' = [cpc EXCEPT !["irq"] = "lock"]
    /\ UNCHANGED <<cursors, book, descs, queueStopped, tx_lock,
                   tx_count_frames, xpc, xlocals, centry, cskb, dma,
                   timerArmed>>

(* stmmac_tx_timer; the timer is not started again by its handler.         *)
TimerFires ==
    /\ timerArmed
    /\ cpc["timer"] = "idle"
    /\ timerArmed' = FALSE
    /\ cpc' = [cpc EXCEPT !["timer"] = "lock"]
    /\ UNCHANGED <<cursors, book, descs, queueStopped, tx_lock,
                   tx_count_frames, xpc, xlocals, centry, cskb, dma, ti>>

-----------------------------------------------------------------------------
(* The DMA engine (hardware).  It walks the ring, sends the segment of a   *)
(* descriptor it owns and gives the descriptor back; at one it does not    *)
(* own it suspends until the poll demand of enable_dma_transmission.       *)

DmaSend ==
    /\ dmaRunning
    /\ own[dmaIdx]
    /\ own' = [own EXCEPT ![dmaIdx] = FALSE]
    /\ wire' = IF ls[dmaIdx] THEN NoSeg ELSE seg[dmaIdx]
    /\ ti' = (ti \/ (ls[dmaIdx] /\ ic[dmaIdx]))
    /\ dmaIdx' = Succ(dmaIdx)
    /\ UNCHANGED <<cursors, book, fs, ls, ic, seg, queueStopped, tx_lock,
                   tx_count_frames, xpc, xlocals, cleaner, dmaRunning,
                   timerArmed>>

DmaSuspend ==
    /\ dmaRunning
    /\ ~own[dmaIdx]
    /\ dmaRunning' = FALSE
    /\ UNCHANGED <<cursors, book, descs, queueStopped, tx_lock,
                   tx_count_frames, xpc, xlocals, cleaner, dmaIdx, wire, ti,
                   timerArmed>>

-----------------------------------------------------------------------------
Next ==
    \/ \E s \in Skbs, n \in 0 .. MaxFrags : XmitAccept(s, n) \/ XmitFull(s, n)
    \/ XmitStep
    \/ \E c \in Cleaners : CleanStep(c)
    \/ TxInterrupt \/ RxInterrupt \/ TimerFires
    \/ DmaSend \/ DmaSuspend

Spec == Init /\ [][Next]_vars

(* The processor runs every thread and handler that can run, pending       *)
(* interrupts and timers are delivered, the DMA sends what it owns.  The   *)
(* spin lock is only intermittently free, so taking it is strongly fair.   *)
(* Nothing makes the stack send a frame or the line deliver one.           *)
Fairness ==
    /\ WF_vars(XmitStep)
    /\ SF_vars(XmitFirst)
    /\ \A c \in Cleaners : WF_vars(CleanStep(c)) /\ SF_vars(CleanLock(c))
    /\ \A c \in Cleaners : SF_vars(CleanWake(c))
    /\ WF_vars(TxInterrupt)
    /\ WF_vars(TimerFires)
    /\ WF_vars(DmaSend)
    /\ WF_vars(DmaSuspend)

FairSpec == Spec /\ Fairness

-----------------------------------------------------------------------------
Building == {"frags", "handover", "publish"}

(* Type invariant.                                                         *)
TypeOK ==
    /\ cur_tx \in Count /\ dirty_tx \in Count
    /\ tx_skbuff \in [Slots -> Skbs \cup {NoSkb}]
    /\ tx_skbuff_dma \in [Slots -> BOOLEAN]
    /\ own \in [Slots -> BOOLEAN]
    /\ fs \in [Slots -> BOOLEAN]
    /\ ls \in [Slots -> BOOLEAN]
    /\ ic \in [Slots -> BOOLEAN]
    /\ seg \in [Slots -> Segments]
    /\ queueStopped \in BOOLEAN
    /\ tx_lock \in {"free", "xmit"} \cup Cleaners
    /\ tx_count_frames \in Nat
    /\ held \subseteq Skbs
    /\ xpc \in {"idle", "full", "lock", "frags", "handover", "publish", "kick"}
    /\ xskb \in Skbs \cup {NoSkb}
    /\ xfrags \in 0 .. MaxFrags
    /\ xi \in 0 .. MaxFrags
    /\ xfirst \in Slots
    /\ cpc \in [Cleaners -> {"idle", "lock", "loop", "free", "wake", "unlock"}]
    /\ centry \in [Cleaners -> Slots]
    /\ cskb \in [Cleaners -> Skbs \cup {NoSkb}]
    /\ dmaRunning \in BOOLEAN
    /\ dmaIdx \in Slots
    /\ wire \in Segments
    /\ ti \in BOOLEAN
    /\ timerArmed \in BOOLEAN

(* Position of descriptor i counted from the oldest unreclaimed one.       *)
Offset(i) == IF i >= Slot(dirty_tx) THEN i - Slot(dirty_tx)
             ELSE i - Slot(dirty_tx) + TxSize

(* Descriptors in use: those in flight and the one being prepared.         *)
Reserved == InFlight + (IF xpc \in Building THEN 1 ELSE 0)

(* The ring never overruns: stmmac_xmit never prepares a descriptor that   *)
(* tx_clean has not reclaimed, one descriptor always stays free, and the   *)
(* DMA owns nothing outside the part of the ring in use.  The room is      *)
(* checked before tx_lock is taken and used after it.                      *)
NoOverrun ==
    /\ Reserved <= TxSize - 1
    /\ \A i \in Slots : own[i] => Offset(i) < Reserved

(* What the DMA may fetch next continues the frame on the wire, or starts  *)
(* a new one at its first segment; the frame ends exactly at its last      *)
(* segment; and in the middle of a frame the next descriptor is never      *)
(* missing.  This is what handing over the first descriptor last is for    *)
(* ("To avoid raise condition").                                           *)
WholeFrames ==
    /\ own[dmaIdx] =>
         /\ ls[dmaIdx] <=> (seg[dmaIdx].k = seg[dmaIdx].n)
         /\ IF wire = NoSeg THEN fs[dmaIdx] /\ seg[dmaIdx].k = 0
            ELSE ~fs[dmaIdx] /\ seg[dmaIdx] = [wire EXCEPT !.k = @ + 1]
    /\ wire # NoSeg => own[dmaIdx]

(* The socket buffers the driver must free are exactly those it has        *)
(* recorded in the ring, each at one descriptor in use: none is lost, none *)
(* can be freed twice.                                                     *)
SkbLedger ==
    /\ held = {tx_skbuff[i] : i \in Slots} \ {NoSkb}
    /\ \A i, j \in Slots : tx_skbuff[i] = tx_skbuff[j] /\ i # j
                             => tx_skbuff[i] = NoSkb
    /\ \A i \in Slots : tx_skbuff[i] # NoSkb => Offset(i) < Reserved

(* tx_clean reclaims only what the DMA has sent: not a descriptor the DMA  *)
(* still owns, and not the first descriptor of a frame in preparation,     *)
(* which has no OWN bit either while cur_tx already moves past it.         *)
ReclaimSent ==
    \A c \in Cleaners :
        cpc[c] = "free" => /\ ~own[centry[c]]
                          /\ xpc \notin {"frags", "handover"}

(* No part of a socket buffer, fragments included, is freed while the DMA  *)
(* may still read it ("it reclaims resources after transmission            *)
(* completes").                                                            *)
BufferLive ==
    \A i \in Slots : own[i] => seg[i].skb \in held

(* What BufferLive does hold for: the buffer is not freed before its first *)
(* segment was read, so a frame without fragments is never touched.        *)
HeadLive ==
    \A i \in Slots : own[i] /\ seg[i].k = 0 => seg[i].skb \in held

(* The first descriptor of the frame being built is given away last.       *)
Unready(i) == xpc \in {"frags", "handover"} /\ i = xfirst

(* A descriptor the DMA was given and has given back, not reclaimed yet.   *)
Sent(i) == Offset(i) < Reserved /\ ~own[i] /\ ~Unready(i)

(* No transmit interrupt is lost between the handler's reading of the      *)
(* status and the end of its cleaning: while a sent frame that asked for   *)
(* an interrupt waits to be reclaimed, the interrupt is latched, or the    *)
(* handler has still to look at the ring.                                  *)
NoLostInterrupt ==
    \A i \in Slots : Sent(i) /\ ls[i] /\ ic[i] =>
        ti \/ cpc["irq"] \in {"lock", "loop", "free"}

(* No wake-up is lost between the two tests of tx_clean and the stop in    *)
(* stmmac_xmit: a stopped queue with room for the wake-up and for the      *)
(* largest frame has a tx_clean on the way that will test for it.          *)
NoStrandedQueue ==
    queueStopped /\ Avail > WakeThreshold /\ Avail > MaxFrags + 1 =>
        \E c \in Cleaners : cpc[c] \in {"loop", "free", "wake"}

(* "Minimum number of free TX descriptors required to wake up TX process": *)
(* a queue that is stopped although every descriptor is free has a         *)
(* tx_clean on the way that will wake it, or an interrupt or timer to call *)
(* one.                                                                    *)
EmptyRingWakes ==
    queueStopped /\ InFlight = 0 /\ Avail > WakeThreshold =>
        \/ ti \/ timerArmed
        \/ \E c \in Cleaners : cpc[c] \in {"lock", "loop", "free", "wake"}

(* stmmac_xmit never finds the ring too full while the queue is awake,     *)
(* the "hard error" it logs.                                               *)
NoHardError == xpc # "full"

(* A suspended DMA never sleeps on a descriptor it owns, unless the poll   *)
(* demand for it is still to come in the running stmmac_xmit.              *)
NoLostKick ==
    ~dmaRunning /\ own[dmaIdx] => xpc \in {"publish", "kick"}

(* stmmac_xmit takes tx_lock inside the transmit lock, tx_clean the        *)
(* transmit lock inside tx_lock; the two never wait for each other.        *)
NoLockCycle ==
    \A c \in Cleaners : cpc[c] = "wake" => xpc # "lock"

(* Descriptors promised to the running stmmac_xmit and not yet counted.    *)
Owed == CASE xpc = "lock"  -> xfrags + 1
          [] xpc = "frags" -> xfrags - xi + 1
          [] xpc \in {"handover", "publish"} -> 1
          [] OTHER -> 0

FlowPhase == CASE xpc = "full" -> "full"
               [] xpc \in {"idle", "kick"} -> "idle"
               [] OTHER -> "sending"

(* The ring implements the flow control of TxFlow: a frame that was        *)
(* accepted always finds its descriptors, the queue is stopped and woken   *)
(* only where TxFlow allows it.                                            *)
Flow == INSTANCE TxFlow WITH used <- InFlight + Owed,
                             stopped <- queueStopped,
                             phase <- FlowPhase
FlowControl == Flow!Spec

(* A stopped queue is started again.                                       *)
QueueRestarts == queueStopped ~> ~queueStopped

(* The oldest descriptor in flight is reclaimed.                           *)
OldestReclaimed ==
    \A c \in Count : (dirty_tx = c /\ cur_tx # c) ~> dirty_tx # c

=============================================================================
