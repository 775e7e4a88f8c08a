----------------------------- MODULE TxRing_proofs -----------------------------
(***************************************************************************)
(* Proofs about TxRing for every ring size, frame size, number of socket   *)
(* buffers and counter width that satisfies SizesAssumption.               *)
(***************************************************************************)
EXTENDS TxRing, Counters, TLAPS

-----------------------------------------------------------------------------
(* Arithmetic of the free-running counters and of the ring index.          *)

(* The counters wrap at a multiple of the ring size, at least twice it.    *)
LEMMA WrapFacts ==
    /\ Wrap \in Nat \ {0, 1}
    /\ 2 * TxSize <= Wrap
    /\ TxSize \in Nat \ {0}
    /\ (Wrap - 1) % TxSize = TxSize - 1
  BY MultipleFacts, SizesAssumption DEF Wrap

(* The distance of two counters, without the modulus.                      *)
LEMMA Distance ==
    ASSUME NEW c \in Count, NEW d \in Count
    PROVE  /\ Unsigned(c - d) = (IF c >= d THEN c - d ELSE c - d + Wrap)
           /\ Unsigned(c - d) \in Count
           /\ Unsigned(c - d) = 0 <=> c = d
  BY WrapFacts, CounterDistance DEF Count, Unsigned

(* Incrementing a counter.                                                 *)
LEMMA Increment ==
    ASSUME NEW c \in Count
    PROVE  /\ Unsigned(c + 1) = (IF c = Wrap - 1 THEN 0 ELSE c + 1)
           /\ Unsigned(c + 1) \in Count
  BY WrapFacts, CounterIncrement DEF Count, Unsigned

(* Incrementing cur_tx adds one descriptor in flight.                      *)
LEMMA Advance ==
    ASSUME NEW c \in Count, NEW d \in Count, Unsigned(c - d) < TxSize
    PROVE  Unsigned(Unsigned(c + 1) - d) = Unsigned(c - d) + 1
  <1>1. Wrap \in Nat \ {0, 1} /\ c \in 0 .. Wrap - 1 /\ d \in 0 .. Wrap - 1
        /\ (c - d) % Wrap < Wrap - 1
    BY WrapFacts DEF Count, Unsigned
  <1> QED
    BY <1>1, CounterAdvance, Zenon DEF Unsigned

(* Incrementing dirty_tx takes one away.                                   *)
LEMMA Retire ==
    ASSUME NEW c \in Count, NEW d \in Count, c # d
    PROVE  Unsigned(c - Unsigned(d + 1)) = Unsigned(c - d) - 1
  <1>1. Wrap \in Nat \ {0, 1} /\ c \in 0 .. Wrap - 1 /\ d \in 0 .. Wrap - 1
    BY WrapFacts DEF Count, Unsigned
  <1> QED
    BY <1>1, CounterRetire DEF Unsigned

(* stmmac_tx_avail counts the free descriptors less one while at most      *)
(* TxSize - 1 of them are in flight.                                       *)
LEMMA Room ==
    ASSUME NEW c \in Count, NEW d \in Count, Unsigned(c - d) < TxSize
    PROVE  Unsigned(d + TxSize - c - 1) = TxSize - 1 - Unsigned(c - d)
  <1> DEFINE x == d + TxSize - c - 1
  <1>1. Unsigned(c - d) = (IF c >= d THEN c - d ELSE c - d + Wrap)
    BY Distance
  <1>2. x \in Int /\ Wrap \in Nat \ {0}
    BY WrapFacts DEF Count
  <1>3. CASE c >= d
    <2>1. x \in 0 .. Wrap - 1
      BY <1>1, <1>3, WrapFacts DEF Count
    <2>2. Unsigned(x) = x
      BY <1>2, <2>1, Reduce DEF Unsigned
    <2> QED
      BY <1>1, <1>3, <2>2, WrapFacts DEF Count
  <1>4. CASE c < d
    <2>1. x \in Wrap .. 2 * Wrap - 1
      BY <1>1, <1>4, WrapFacts DEF Count
    <2>2. Unsigned(x) = x - Wrap
      BY <1>2, <2>1, Reduce DEF Unsigned
    <2> QED
      BY <1>1, <1>4, <2>2, WrapFacts DEF Count
  <1> QED
    BY <1>3, <1>4 DEF Count

(* The ring index of an incremented counter is the next descriptor, also   *)
(* when the counter wraps.                                                 *)
LEMMA SlotAdvance ==
    ASSUME NEW c \in Count
    PROVE  Slot(c) \in Slots /\ Slot(Unsigned(c + 1)) = Succ(Slot(c))
  BY WrapFacts, CounterSlot DEF Count, Unsigned, Slot, Slots, Succ

-----------------------------------------------------------------------------
(* The inductive invariant.                                                *)

Locked == {"frags", "handover", "publish", "kick"}
Active == {"loop", "free", "wake", "unlock"}

(* Who holds tx_lock.                                                      *)
LockInv ==
    /\ tx_lock = "xmit" <=> xpc \in Locked
    /\ \A c \in Cleaners : tx_lock = c <=> cpc[c] \in Active

(* The descriptors in flight and those promised to stmmac_xmit leave one   *)
(* free.                                                                   *)
RoomInv == InFlight + Owed <= TxSize - 1

(* The two ring indices are as far apart as the two counters.              *)
CursorInv == Offset(Slot(cur_tx)) = InFlight

(* The DMA owns nothing that is not in use.                                *)
OwnInv == \A i \in Slots : own[i] => Offset(i) < Reserved

(* The first descriptor of the frame being built is in use.                *)
FirstInv == xpc \in {"frags", "handover"} => Offset(xfirst) < Reserved

(* Between the two halves of an iteration of tx_clean.                     *)
FreeInv ==
    \A c \in Cleaners :
        cpc[c] = "free" => /\ dirty_tx # cur_tx
                          /\ centry[c] = Slot(dirty_tx)

(* The locals of stmmac_xmit: it has a socket buffer, and its fragment     *)
(* index starts at 0.                                                      *)
CallInv ==
    /\ xpc # "idle" => xskb \in Skbs
    /\ xpc \in {"idle", "full", "lock"} => xi = 0
    /\ xpc # "idle" => xi <= xfrags

(* tx_clean waits for the transmit lock only while the queue is stopped,   *)
(* stmmac_xmit for tx_lock only while it is not.                           *)
WakeInv ==
    /\ xpc = "lock" => ~queueStopped
    /\ \A c \in Cleaners : cpc[c] = "wake" => queueStopped

IInv == /\ TypeOK /\ LockInv /\ RoomInv /\ CursorInv /\ OwnInv /\ FirstInv
        /\ FreeInv /\ CallInv /\ WakeInv

(* The numbers the code computes, in a state of the invariant.             *)
LEMMA StateFacts ==
    ASSUME TypeOK, CallInv, RoomInv
    PROVE  /\ InFlight \in 0 .. TxSize - 1
           /\ Owed \in Nat
           /\ Avail = TxSize - 1 - InFlight
           /\ Slot(cur_tx) \in Slots
           /\ Slot(dirty_tx) \in Slots
           /\ Reserved <= InFlight + Owed
           /\ InFlight = 0 <=> cur_tx = dirty_tx
  <1>1. InFlight \in Count /\ (InFlight = 0 <=> cur_tx = dirty_tx)
    BY Distance DEF TypeOK, InFlight
  <1>2. Owed \in Nat /\ Reserved <= InFlight + Owed
    BY <1>1, WrapFacts, SizesAssumption
       DEF TypeOK, CallInv, Owed, Reserved, Building, Count
  <1>3. InFlight \in 0 .. TxSize - 1
    BY <1>1, <1>2, WrapFacts DEF RoomInv, Count
  <1>4. Avail = TxSize - 1 - InFlight
    BY <1>3, WrapFacts, Room DEF TypeOK, Avail, InFlight
  <1>5. Slot(cur_tx) \in Slots /\ Slot(dirty_tx) \in Slots
    BY SlotAdvance DEF TypeOK
  <1> QED
    BY <1>1, <1>2, <1>3, <1>4, <1>5

(* Positions are counted modulo the ring.                                  *)
LEMMA OffsetFacts ==
    ASSUME TypeOK, NEW i \in Slots
    PROVE  Offset(i) \in Slots
  BY SlotAdvance, WrapFacts DEF TypeOK, Offset, Slots

(* Steps that move no counter keep every number.                           *)
LEMMA SameCursors ==
    ASSUME UNCHANGED cursors
    PROVE  /\ InFlight' = InFlight
           /\ Avail' = Avail
           /\ Slot(cur_tx)' = Slot(cur_tx)
           /\ Slot(dirty_tx)' = Slot(dirty_tx)
           /\ \A i \in Slots : Offset(i)' = Offset(i)
  BY DEF cursors, InFlight, Avail, Offset, Slot, Unsigned

(* Effect of cur_tx++ on the numbers.                                      *)
LEMMA CurStep ==
    ASSUME TypeOK, CallInv, RoomInv, CursorInv, InFlight < TxSize - 1,
           cur_tx' = Unsigned(cur_tx + 1), dirty_tx' = dirty_tx
    PROVE  /\ cur_tx' \in Count
           /\ InFlight' = InFlight + 1
           /\ Slot(cur_tx)' = Succ(Slot(cur_tx))
           /\ Offset(Slot(cur_tx))' = InFlight + 1
           /\ \A i \in Slots : Offset(i)' = Offset(i)
           /\ Slot(dirty_tx)' = Slot(dirty_tx)
  <1>1. cur_tx' \in Count /\ Slot(cur_tx') = Succ(Slot(cur_tx))
    BY Increment, SlotAdvance DEF TypeOK
  <1>2. InFlight' = InFlight + 1
    BY StateFacts, Advance, WrapFacts DEF TypeOK, InFlight
  <1>3. \A i \in Slots : Offset(i)' = Offset(i)
    BY DEF Offset, Slot
  <1>4. Slot(cur_tx)' = Slot(cur_tx') /\ Slot(dirty_tx)' = Slot(dirty_tx)
    BY DEF Slot
  <1>5. Offset(Slot(cur_tx))' = Offset(Succ(Slot(cur_tx)))
    BY <1>1, <1>4 DEF Offset
  <1>6. Offset(Succ(Slot(cur_tx))) = InFlight + 1
    BY StateFacts, WrapFacts DEF CursorInv, Offset, Succ, Slots
  <1> QED
    BY <1>1, <1>2, <1>3, <1>4, <1>5, <1>6

(* Effect of dirty_tx++ on the numbers.                                    *)
LEMMA DirtyStep ==
    ASSUME TypeOK, CallInv, RoomInv, CursorInv, dirty_tx # cur_tx,
           dirty_tx' = Unsigned(dirty_tx + 1), cur_tx' = cur_tx
    PROVE  /\ dirty_tx' \in Count
           /\ InFlight' = InFlight - 1
           /\ InFlight > 0
           /\ Slot(cur_tx)' = Slot(cur_tx)
           /\ \A i \in Slots :
                 Offset(i)' = IF i = Slot(dirty_tx) THEN TxSize - 1 ELSE Offset(i) - 1
           /\ \A i \in Slots : i # Slot(dirty_tx) => Offset(i) > 0
           /\ Offset(Slot(cur_tx))' = InFlight'
  <1>1. dirty_tx' \in Count /\ Slot(dirty_tx') = Succ(Slot(dirty_tx))
    BY Increment, SlotAdvance DEF TypeOK
  <1>2. InFlight' = InFlight - 1
    BY Retire DEF TypeOK, InFlight
  <1>3. InFlight > 0 /\ InFlight \in Nat
    BY StateFacts, WrapFacts
  <1>4. Slot(cur_tx)' = Slot(cur_tx) /\ Slot(dirty_tx)' = Slot(dirty_tx')
    BY DEF Slot
  <1>5. \A i \in Slots :
          /\ Offset(i)' = IF i = Slot(dirty_tx) THEN TxSize - 1 ELSE Offset(i) - 1
          /\ i # Slot(dirty_tx) => Offset(i) > 0
    BY <1>1, <1>4, StateFacts, WrapFacts DEF Offset, Succ, Slots
  <1>6. Offset(Slot(cur_tx))' = Offset(Slot(cur_tx)) - 1
    <2>1. Slot(cur_tx) # Slot(dirty_tx)
      BY <1>3, StateFacts, WrapFacts DEF CursorInv, Offset, Slots
    <2>2. Slot(cur_tx) \in Slots
      BY StateFacts
    <2>3. Offset(Slot(cur_tx))' = IF Slot(cur_tx) >= Slot(dirty_tx')
                                  THEN Slot(cur_tx) - Slot(dirty_tx')
                                  ELSE Slot(cur_tx) - Slot(dirty_tx') + TxSize
      BY <1>4 DEF Offset
    <2> QED
      BY <2>1, <2>2, <2>3, <1>1, StateFacts, WrapFacts DEF Offset, Succ, Slots
  <1> QED
    BY <1>1, <1>2, <1>3, <1>4, <1>5, <1>6 DEF CursorInv

-----------------------------------------------------------------------------
(* Each action preserves the invariant.                                    *)

(* Steps of tx_clean, of the handlers and of the DMA that neither move a   *)
(* counter nor give a descriptor to the DMA.                               *)
LEMMA RingUntouched ==
    ASSUME IInv, UNCHANGED <<cursors, xpc, xlocals>>,
           \A i \in Slots : own'[i] => own[i]
    PROVE  RoomInv' /\ CursorInv' /\ OwnInv' /\ FirstInv' /\ CallInv'
  <1>1. Reserved' = Reserved /\ Owed' = Owed
    BY SameCursors DEF Reserved, Owed, Building, xlocals
  <1>2. CursorInv' <=> CursorInv
    BY SameCursors DEF CursorInv, Offset, Slot, cursors
  <1>3. OwnInv'
    BY <1>1, SameCursors DEF OwnInv, IInv
  <1>4. FirstInv'
    BY <1>1, SameCursors DEF FirstInv, IInv, TypeOK, xlocals
  <1> QED
    BY <1>1, <1>2, <1>3, <1>4, SameCursors DEF RoomInv, CallInv, IInv, xlocals

(* stmmac_xmit is called and finds room.                                   *)
LEMMA XmitAcceptStep ==
    ASSUME IInv, NEW s \in Skbs, NEW n \in 0 .. MaxFrags, XmitAccept(s, n)
    PROVE  IInv'
  <1>1. /\ UNCHANGED <<cursors, book, descs, queueStopped, tx_lock,
                        tx_count_frames, xi, xfirst, cleaner, dma, ti, timerArmed>>
        /\ xpc = "idle" /\ xpc' = "lock" /\ ~queueStopped
        /\ xskb' = s /\ xfrags' = n /\ Avail >= n + 1
    BY DEF XmitAccept, Call, cursors, book, descs, xlocals, cleaner, dma
  <1>2. TypeOK'
    BY <1>1, StateFacts, WrapFacts, SizesAssumption
       DEF IInv, TypeOK, Slots, cursors, book, descs, xlocals, cleaner, dma
  <1>3. LockInv' /\ FreeInv' /\ CallInv' /\ WakeInv'
    BY <1>1, SameCursors
       DEF IInv, LockInv, FreeInv, CallInv, WakeInv, Locked, Active, Cleaners,
           cursors, book, descs, xlocals, cleaner, dma
  <1>4. RoomInv'
    BY <1>1, StateFacts, SameCursors, SizesAssumption
       DEF IInv, TypeOK, CallInv, RoomInv, Owed
  <1>5. CursorInv'
    BY <1>1, SameCursors DEF IInv, CursorInv, Offset, Slot, cursors
  <1>6. OwnInv' /\ FirstInv'
    BY <1>1, StateFacts, SameCursors
       DEF IInv, TypeOK, OwnInv, FirstInv, CursorInv, Reserved, Building,
           cursors, book, descs, xlocals, cleaner, dma
  <1> QED
    BY <1>2, <1>3, <1>4, <1>5, <1>6 DEF IInv

(* stmmac_xmit is called and finds no room.                                *)
LEMMA XmitFullStep ==
    ASSUME IInv, NEW s \in Skbs, NEW n \in 0 .. MaxFrags, XmitFull(s, n)
    PROVE  IInv'
  <1>1. /\ UNCHANGED <<cursors, book, descs, queueStopped, tx_lock,
                        tx_count_frames, xi, xfirst, cleaner, dma, ti, timerArmed>>
        /\ xpc = "idle" /\ xpc' = "full" /\ ~queueStopped
        /\ xskb' = s /\ xfrags' = n
    BY DEF XmitFull, Call, cursors, book, descs, xlocals, cleaner, dma
  <1>2. TypeOK'
    BY <1>1, StateFacts, WrapFacts, SizesAssumption
       DEF IInv, TypeOK, Slots, cursors, book, descs, xlocals, cleaner, dma
  <1>3. LockInv' /\ FreeInv' /\ CallInv' /\ WakeInv'
    BY <1>1, SameCursors
       DEF IInv, LockInv, FreeInv, CallInv, WakeInv, Locked, Active, Cleaners,
           cursors, book, descs, xlocals, cleaner, dma
  <1>4. RoomInv'
    BY <1>1, StateFacts, SameCursors, SizesAssumption
       DEF IInv, TypeOK, CallInv, RoomInv, Owed
  <1>5. CursorInv'
    BY <1>1, SameCursors DEF IInv, CursorInv, Offset, Slot, cursors
  <1>6. OwnInv' /\ FirstInv'
    BY <1>1, StateFacts, SameCursors
       DEF IInv, TypeOK, OwnInv, FirstInv, CursorInv, Reserved, Building,
           cursors, book, descs, xlocals, cleaner, dma
  <1> QED
    BY <1>2, <1>3, <1>4, <1>5, <1>6 DEF IInv

(* The queue is stopped.                                                   *)
LEMMA XmitBusyStep ==
    ASSUME IInv, XmitBusy
    PROVE  IInv'
  <1>1. /\ UNCHANGED <<cursors, book, descs, tx_lock, tx_count_frames, xi,
                        xfirst, cleaner, dma, ti, timerArmed>>
        /\ xpc = "full" /\ xpc' = "idle" /\ queueStopped' = TRUE
        /\ xskb' = NoSkb /\ xfrags' = 0
    BY DEF XmitBusy, cursors, book, descs, xlocals, cleaner, dma
  <1>2. TypeOK'
    BY <1>1, StateFacts, WrapFacts, SizesAssumption
       DEF IInv, TypeOK, Slots, cursors, book, descs, xlocals, cleaner, dma
  <1>3. LockInv' /\ FreeInv' /\ CallInv' /\ WakeInv'
    BY <1>1, SameCursors
       DEF IInv, LockInv, FreeInv, CallInv, WakeInv, Locked, Active, Cleaners,
           cursors, book, descs, xlocals, cleaner, dma
  <1>4. RoomInv'
    BY <1>1, StateFacts, SameCursors, SizesAssumption
       DEF IInv, TypeOK, CallInv, RoomInv, Owed
  <1>5. CursorInv'
    BY <1>1, SameCursors DEF IInv, CursorInv, Offset, Slot, cursors
  <1>6. OwnInv' /\ FirstInv'
    BY <1>1, StateFacts, SameCursors
       DEF IInv, TypeOK, OwnInv, FirstInv, CursorInv, Reserved, Building,
           cursors, book, descs, xlocals, cleaner, dma
  <1> QED
    BY <1>2, <1>3, <1>4, <1>5, <1>6 DEF IInv

(* The poll demand, and tx_lock is released.                               *)
LEMMA XmitKickStep ==
    ASSUME IInv, XmitKick
    PROVE  IInv'
  <1>1. /\ UNCHANGED <<cursors, book, descs, queueStopped, tx_count_frames,
                        cleaner, dmaIdx, wire, ti, timerArmed>>
        /\ xpc = "kick" /\ xpc' = "idle" /\ tx_lock' = "free"
        /\ dmaRunning' = TRUE
        /\ xskb' = NoSkb /\ xfrags' = 0 /\ xi' = 0 /\ xfirst' = 0
    BY DEF XmitKick, cursors, book, descs, xlocals, cleaner, dma
  <1>2. TypeOK'
    BY <1>1, StateFacts, WrapFacts, SizesAssumption
       DEF IInv, TypeOK, Slots, cursors, book, descs, xlocals, cleaner, dma
  <1>3. LockInv' /\ FreeInv' /\ CallInv' /\ WakeInv'
    BY <1>1, SameCursors
       DEF IInv, LockInv, FreeInv, CallInv, WakeInv, Locked, Active, Cleaners,
           cursors, book, descs, xlocals, cleaner, dma
  <1>4. RoomInv'
    BY <1>1, StateFacts, SameCursors, SizesAssumption
       DEF IInv, TypeOK, CallInv, RoomInv, Owed
  <1>5. CursorInv'
    BY <1>1, SameCursors DEF IInv, CursorInv, Offset, Slot, cursors
  <1>6. OwnInv' /\ FirstInv'
    BY <1>1, StateFacts, SameCursors
       DEF IInv, TypeOK, OwnInv, FirstInv, CursorInv, Reserved, Building,
           cursors, book, descs, xlocals, cleaner, dma
  <1> QED
    BY <1>2, <1>3, <1>4, <1>5, <1>6 DEF IInv

(* The first descriptor is given to the DMA.                               *)
LEMMA XmitHandOverStep ==
    ASSUME IInv, XmitHandOver
    PROVE  IInv'
  <1>1. /\ UNCHANGED <<cursors, book, fs, ls, ic, seg, queueStopped, tx_lock,
                        tx_count_frames, xlocals, cleaner, dma, ti, timerArmed>>
        /\ xpc = "handover" /\ xpc' = "publish"
        /\ own' = [own EXCEPT ![xfirst] = TRUE]
    BY DEF XmitHandOver, cursors, book, descs, xlocals, cleaner, dma
  <1>2. TypeOK'
    BY <1>1, StateFacts, WrapFacts, SizesAssumption
       DEF IInv, TypeOK, Slots, cursors, book, descs, xlocals, cleaner, dma
  <1>3. LockInv' /\ FreeInv' /\ CallInv' /\ WakeInv'
    BY <1>1, SameCursors
       DEF IInv, LockInv, FreeInv, CallInv, WakeInv, Locked, Active, Cleaners,
           cursors, book, descs, xlocals, cleaner, dma
  <1>4. RoomInv'
    BY <1>1, StateFacts, SameCursors, SizesAssumption
       DEF IInv, TypeOK, CallInv, RoomInv, Owed, xlocals
  <1>5. CursorInv'
    BY <1>1, SameCursors DEF IInv, CursorInv, Offset, Slot, cursors
  <1>6. OwnInv' /\ FirstInv'
    BY <1>1, StateFacts, SameCursors
       DEF IInv, TypeOK, OwnInv, FirstInv, CursorInv, Reserved, Building,
           cursors, book, descs, xlocals, cleaner, dma
  <1> QED
    BY <1>2, <1>3, <1>4, <1>5, <1>6 DEF IInv

(* The first descriptor is prepared.                                       *)
LEMMA XmitFirstStep ==
    ASSUME IInv, XmitFirst
    PROVE  IInv'
  <1> DEFINE e == Slot(cur_tx)
  <1>1. /\ UNCHANGED <<cursors, own, ls, ic, queueStopped, tx_count_frames,
                        xskb, xfrags, cleaner, dma, ti, timerArmed>>
        /\ xpc = "lock" /\ xpc' = "frags"
        /\ tx_lock = "free" /\ tx_lock' = "xmit"
        /\ xfirst' = e /\ xi' = 0
        /\ tx_skbuff' = [tx_skbuff EXCEPT ![e] = xskb]
        /\ tx_skbuff_dma' = [tx_skbuff_dma EXCEPT ![e] = TRUE]
        /\ seg' = [seg EXCEPT ![e] = [skb |-> xskb, k |-> 0, n |-> xfrags]]
        /\ fs' = [fs EXCEPT ![e] = TRUE]
        /\ held' = held \cup {xskb}
    BY DEF XmitFirst
  <1>e. e \in Slots
    BY StateFacts DEF IInv
  <1> HIDE DEF e
  <1>2. TypeOK'
    <2>1. xskb \in Skbs /\ [skb |-> xskb, k |-> 0, n |-> xfrags] \in Segments
      BY <1>1, SizesAssumption DEF IInv, TypeOK, CallInv, Segments
    <2> QED
      BY <1>1, <1>e, <2>1, SizesAssumption
         DEF IInv, TypeOK, cursors, book, descs, xlocals, cleaner, dma
  <1>3. LockInv' /\ FreeInv' /\ CallInv' /\ WakeInv'
    BY <1>1, SameCursors, SizesAssumption
       DEF IInv, TypeOK, LockInv, FreeInv, CallInv, WakeInv, Locked, Active,
           Cleaners, cursors, book, descs, xlocals, cleaner, dma
  <1>4. RoomInv'
    BY <1>1, StateFacts, SameCursors, SizesAssumption
       DEF IInv, TypeOK, CallInv, RoomInv, Owed, xlocals
  <1>5. CursorInv'
    BY <1>1, SameCursors DEF IInv, CursorInv, Offset, Slot, cursors
  <1>6. OwnInv' /\ FirstInv'
    <2>1. Reserved' = InFlight + 1 /\ Reserved = InFlight
      BY <1>1, StateFacts, SameCursors DEF IInv, Reserved, Building
    <2>2. OwnInv'
      BY <1>1, <2>1, OffsetFacts, StateFacts, SameCursors
         DEF IInv, OwnInv, Slots
    <2>3. Offset(xfirst)' = InFlight
      BY <1>1, <1>e, SameCursors DEF IInv, CursorInv, Offset, Slot, cursors, e
    <2> QED
      BY <2>1, <2>2, <2>3, StateFacts DEF IInv, FirstInv
  <1> QED
    BY <1>2, <1>3, <1>4, <1>5, <1>6 DEF IInv

(* A fragment takes the next descriptor and gives it to the DMA.           *)
LEMMA XmitFragStep ==
    ASSUME IInv, XmitFrag
    PROVE  IInv'
  <1>1. /\ UNCHANGED <<dirty_tx, held, ls, ic, queueStopped, tx_lock,
                        tx_count_frames, xpc, xskb, xfrags, xfirst, cleaner,
                        dma, ti, timerArmed>>
        /\ xpc = "frags" /\ xi < xfrags /\ xi' = xi + 1
        /\ cur_tx' = Unsigned(cur_tx + 1)
    BY DEF XmitFrag
  <1>a. InFlight + 2 <= TxSize - 1 /\ Owed = xfrags - xi + 1
    BY <1>1, StateFacts, SizesAssumption DEF IInv, RoomInv, Owed, TypeOK
  <1>b. /\ cur_tx' \in Count /\ InFlight' = InFlight + 1
        /\ Slot(cur_tx)' = Succ(Slot(cur_tx)) /\ Offset(Slot(cur_tx))' = InFlight + 1
        /\ \A i \in Slots : Offset(i)' = Offset(i)
        /\ Slot(dirty_tx)' = Slot(dirty_tx)
    BY <1>1, <1>a, StateFacts, CurStep, SizesAssumption DEF IInv
  <1>e. PICK e \in Slots : e = Slot(cur_tx)'
    BY <1>b, SlotAdvance DEF Slot
  <1>f. Offset(e)' = InFlight + 1 /\ Offset(e) = InFlight + 1
    <2>1. Offset(e)' = Offset(Slot(cur_tx))'
      BY <1>e DEF Offset
    <2> QED
      BY <2>1, <1>b
  <1>g. /\ tx_skbuff' = [tx_skbuff EXCEPT ![e] = NoSkb]
        /\ tx_skbuff_dma' = [tx_skbuff_dma EXCEPT ![e] = TRUE]
        /\ seg' = [seg EXCEPT ![e] = [skb |-> xskb, k |-> xi + 1, n |-> xfrags]]
        /\ fs' = [fs EXCEPT ![e] = FALSE]
        /\ own' = [own EXCEPT ![e] = TRUE]
    BY <1>e DEF XmitFrag, Slot
  <1>2. TypeOK'
    <2>1. [skb |-> xskb, k |-> xi + 1, n |-> xfrags] \in Segments
          /\ xi' \in 0 .. MaxFrags
      BY <1>1, SizesAssumption DEF IInv, TypeOK, Segments
    <2> QED
      BY <1>1, <1>b, <1>e, <1>g, <2>1, SizesAssumption
         DEF IInv, TypeOK, cursors, book, descs, xlocals, cleaner, dma
  <1>3. LockInv' /\ FreeInv' /\ CallInv' /\ WakeInv'
    <2>1. \A c \in Cleaners : cpc'[c] # "free"
      BY <1>1 DEF IInv, LockInv, Locked, Active, Cleaners, cleaner
    <2>2. LockInv' /\ WakeInv'
      BY <1>1 DEF IInv, LockInv, WakeInv, Locked, Active, cleaner
    <2>3. CallInv'
      BY <1>1 DEF IInv, CallInv, TypeOK
    <2> QED
      BY <2>1, <2>2, <2>3 DEF FreeInv
  <1>4. RoomInv'
    BY <1>1, <1>a, <1>b, StateFacts, SizesAssumption
       DEF IInv, TypeOK, RoomInv, Owed
  <1>5. CursorInv'
    BY <1>b DEF CursorInv
  <1>6. OwnInv' /\ FirstInv'
    <2>1. Reserved' = Reserved + 1 /\ Reserved = InFlight + 1 /\ InFlight \in Nat
      BY <1>1, <1>b, StateFacts, WrapFacts DEF IInv, Reserved, Building
    <2>2. OwnInv'
      <3> SUFFICES ASSUME NEW i \in Slots, own'[i]
                   PROVE  Offset(i)' < Reserved'
        BY DEF OwnInv
      <3>1. CASE i = e
        BY <3>1, <1>f, <2>1
      <3>2. CASE i # e
        <4>1. own[i]
          BY <3>2, <1>e, <1>g DEF IInv, TypeOK
        <4>2. Offset(i) < Reserved /\ Offset(i) \in Nat
          BY <4>1, OffsetFacts, WrapFacts DEF IInv, OwnInv, Slots
        <4> QED
          BY <4>2, <1>b, <2>1
      <3> QED
        BY <3>1, <3>2
    <2>3. FirstInv'
      <3>1. Offset(xfirst)' = Offset(xfirst)
        BY <1>1 DEF Offset, Slot
      <3>2. Offset(xfirst) < Reserved /\ Offset(xfirst) \in Nat
        BY <1>1, OffsetFacts, WrapFacts DEF IInv, FirstInv, TypeOK, Slots
      <3> QED
        BY <3>1, <3>2, <2>1 DEF FirstInv
    <2> QED
      BY <2>2, <2>3
  <1> QED
    BY <1>2, <1>3, <1>4, <1>5, <1>6 DEF IInv

(* The last descriptor is closed.                                          *)
LEMMA XmitCloseStep ==
    ASSUME IInv, XmitClose
    PROVE  IInv'
  <1> DEFINE e == Slot(cur_tx)
             count == tx_count_frames + xfrags + 1
             quiet == CoalFrames > count
  <1>1. /\ UNCHANGED <<cursors, book, own, fs, seg, queueStopped, tx_lock,
                        xlocals, cleaner, dma, ti>>
        /\ xpc = "frags" /\ xpc' = "handover" /\ xi = xfrags
        /\ ls' = [ls EXCEPT ![e] = TRUE]
        /\ ic' = [ic EXCEPT ![e] = ~quiet]
        /\ tx_count_frames' = IF quiet THEN count ELSE 0
        /\ timerArmed' = (timerArmed \/ quiet)
    BY DEF XmitClose
  <1>2. TypeOK'
    <2>1. count \in Nat
      BY SizesAssumption DEF IInv, TypeOK
    <2>2. quiet \in BOOLEAN /\ e \in Slots
      BY StateFacts DEF IInv
    <2> HIDE DEF count, quiet, e
    <2>3. tx_count_frames' \in Nat /\ timerArmed' \in BOOLEAN
      BY <1>1, <2>1, <2>2 DEF IInv, TypeOK
    <2>4. ls' \in [Slots -> BOOLEAN] /\ ic' \in [Slots -> BOOLEAN]
      BY <1>1, <2>2 DEF IInv, TypeOK
    <2> QED
      BY <1>1, <2>3, <2>4
         DEF IInv, TypeOK, cursors, book, descs, xlocals, cleaner, dma
  <1> HIDE DEF count, quiet, e
  <1>3. LockInv' /\ FreeInv' /\ CallInv' /\ WakeInv'
    BY <1>1, SameCursors
       DEF IInv, LockInv, FreeInv, CallInv, WakeInv, Locked, Active, Cleaners,
           cursors, book, descs, xlocals, cleaner, dma
  <1>4. RoomInv'
    BY <1>1, StateFacts, SameCursors, SizesAssumption
       DEF IInv, TypeOK, CallInv, RoomInv, Owed, xlocals
  <1>5. CursorInv'
    BY <1>1, SameCursors DEF IInv, CursorInv, Offset, Slot, cursors
  <1>6. OwnInv' /\ FirstInv'
    BY <1>1, StateFacts, SameCursors
       DEF IInv, TypeOK, OwnInv, FirstInv, Reserved, Building, cursors, book,
           descs, xlocals, cleaner, dma
  <1> QED
    BY <1>2, <1>3, <1>4, <1>5, <1>6 DEF IInv

(* The frame becomes visible to tx_clean.                                  *)
LEMMA XmitPublishStep ==
    ASSUME IInv, XmitPublish
    PROVE  IInv'
  <1>1. /\ UNCHANGED <<dirty_tx, book, descs, tx_lock, tx_count_frames,
                        xlocals, cleaner, dma, ti, timerArmed>>
        /\ xpc = "publish" /\ xpc' = "kick"
        /\ cur_tx' = Unsigned(cur_tx + 1)
        /\ queueStopped' = (queueStopped \/ Unsigned(dirty_tx + TxSize - cur_tx' - 1) <= MaxFrags + 1)
    BY DEF XmitPublish
  <1>a. InFlight + 1 <= TxSize - 1 /\ Owed = 1
    BY <1>1, StateFacts, SizesAssumption DEF IInv, RoomInv, Owed, TypeOK
  <1>b. /\ cur_tx' \in Count /\ InFlight' = InFlight + 1
        /\ Offset(Slot(cur_tx))' = InFlight + 1
        /\ \A i \in Slots : Offset(i)' = Offset(i)
        /\ Slot(dirty_tx)' = Slot(dirty_tx)
    BY <1>1, <1>a, StateFacts, CurStep, SizesAssumption DEF IInv
  <1>2. TypeOK'
    <2>1. queueStopped' \in BOOLEAN
      BY <1>1 DEF IInv, TypeOK
    <2> QED
      BY <1>1, <1>b, <2>1
         DEF IInv, TypeOK, cursors, book, descs, xlocals, cleaner, dma
  <1>3. LockInv' /\ FreeInv' /\ CallInv' /\ WakeInv'
    <2>1. \A c \in Cleaners : cpc'[c] \notin Active
      BY <1>1 DEF IInv, LockInv, Locked, Cleaners, cleaner
    <2>2. LockInv' /\ WakeInv' /\ FreeInv'
      BY <1>1, <2>1
         DEF IInv, LockInv, WakeInv, FreeInv, Locked, Active, cleaner
    <2>3. CallInv'
      BY <1>1 DEF IInv, CallInv, xlocals
    <2> QED
      BY <2>2, <2>3
  <1>4. RoomInv'
    BY <1>1, <1>a, <1>b, StateFacts, SizesAssumption
       DEF IInv, TypeOK, RoomInv, Owed
  <1>5. CursorInv'
    BY <1>b DEF CursorInv
  <1>6. OwnInv' /\ FirstInv'
    <2>1. Reserved' = Reserved /\ Reserved = InFlight + 1
      BY <1>1, <1>b, StateFacts DEF IInv, Reserved, Building
    <2> QED
      BY <1>1, <1>b, <2>1 DEF IInv, OwnInv, FirstInv, TypeOK, descs
  <1> QED
    BY <1>2, <1>3, <1>4, <1>5, <1>6 DEF IInv

(* tx_clean takes tx_lock.                                                 *)
LEMMA CleanLockStep ==
    ASSUME IInv, NEW c \in Cleaners, CleanLock(c)
    PROVE  IInv'
  <1>1. /\ UNCHANGED <<cursors, book, descs, queueStopped, tx_count_frames,
                        xpc, xlocals, centry, cskb, dma, ti, timerArmed>>
        /\ cpc[c] = "lock" /\ tx_lock = "free" /\ tx_lock' = c
        /\ cpc' = [cpc EXCEPT ![c] = "loop"]
    BY DEF CleanLock, cursors, book, descs, xlocals, cleaner, dma
  <1>2. TypeOK'
    BY <1>1, StateFacts, SizesAssumption
       DEF IInv, TypeOK, Cleaners, cursors, book, descs, xlocals, cleaner, dma
  <1>3. LockInv' /\ FreeInv' /\ WakeInv'
    BY <1>1, SameCursors
       DEF IInv, TypeOK, LockInv, FreeInv, WakeInv, Locked, Active, Cleaners,
           cursors, book, descs, xlocals, cleaner, dma
  <1>4. RoomInv' /\ CursorInv' /\ OwnInv' /\ FirstInv' /\ CallInv'
    BY <1>1, RingUntouched DEF descs
  <1> QED
    BY <1>2, <1>3, <1>4 DEF IInv


(* tx_clean reads the entry it will free.                                  *)
LEMMA CleanTakeStep ==
    ASSUME IInv, NEW c \in Cleaners, CleanTake(c)
    PROVE  IInv'
  <1>1. /\ UNCHANGED <<cursors, book, descs, queueStopped, tx_lock,
                        tx_count_frames, xpc, xlocals, dma, ti, timerArmed>>
        /\ cpc[c] = "loop" /\ dirty_tx # cur_tx
        /\ centry' = [centry EXCEPT ![c] = Slot(dirty_tx)]
        /\ cskb' = [cskb EXCEPT ![c] = tx_skbuff[Slot(dirty_tx)]]
        /\ cpc' = [cpc EXCEPT ![c] = "free"]
    BY DEF CleanTake, cursors, book, descs, xlocals, cleaner, dma
  <1>2. TypeOK'
    BY <1>1, StateFacts, SizesAssumption
       DEF IInv, TypeOK, Cleaners, cursors, book, descs, xlocals, cleaner, dma
  <1>3. LockInv' /\ FreeInv' /\ WakeInv'
    BY <1>1, SameCursors
       DEF IInv, TypeOK, LockInv, FreeInv, WakeInv, Locked, Active, Cleaners,
           cursors, book, descs, xlocals, cleaner, dma
  <1>4. RoomInv' /\ CursorInv' /\ OwnInv' /\ FirstInv' /\ CallInv'
    BY <1>1, RingUntouched DEF descs
  <1> QED
    BY <1>2, <1>3, <1>4 DEF IInv


(* tx_clean leaves its loop.                                               *)
LEMMA CleanDoneStep ==
    ASSUME IInv, NEW c \in Cleaners, CleanDone(c)
    PROVE  IInv'
  <1>1. /\ UNCHANGED <<cursors, book, descs, queueStopped, tx_lock,
                        tx_count_frames, xpc, xlocals, centry, cskb, dma, ti,
                        timerArmed>>
        /\ cpc[c] = "loop"
        /\ \/ cpc' = [cpc EXCEPT ![c] = "wake"] /\ queueStopped
           \/ cpc' = [cpc EXCEPT ![c] = "unlock"]
    BY DEF CleanDone, CanWake, cursors, book, descs, xlocals, cleaner, dma
  <1>2. TypeOK'
    BY <1>1, StateFacts, SizesAssumption
       DEF IInv, TypeOK, Cleaners, cursors, book, descs, xlocals, cleaner, dma
  <1>3. LockInv' /\ FreeInv' /\ WakeInv'
    BY <1>1, SameCursors
       DEF IInv, TypeOK, LockInv, FreeInv, WakeInv, Locked, Active, Cleaners,
           cursors, book, descs, xlocals, cleaner, dma
  <1>4. RoomInv' /\ CursorInv' /\ OwnInv' /\ FirstInv' /\ CallInv'
    BY <1>1, RingUntouched DEF descs
  <1> QED
    BY <1>2, <1>3, <1>4 DEF IInv


(* tx_clean wakes the queue.                                               *)
LEMMA CleanWakeStep ==
    ASSUME IInv, NEW c \in Cleaners, CleanWake(c)
    PROVE  IInv'
  <1>1. /\ UNCHANGED <<cursors, book, descs, tx_lock, tx_count_frames, xpc,
                        xlocals, centry, cskb, dma, ti, timerArmed>>
        /\ cpc[c] = "wake" /\ xpc = "idle" /\ queueStopped' \in BOOLEAN
        /\ cpc' = [cpc EXCEPT ![c] = "unlock"]
    BY DEF CleanWake, cursors, book, descs, xlocals, cleaner, dma
  <1>2. TypeOK'
    BY <1>1, StateFacts, SizesAssumption
       DEF IInv, TypeOK, Cleaners, cursors, book, descs, xlocals, cleaner, dma
  <1>3. LockInv' /\ FreeInv' /\ WakeInv'
    BY <1>1, SameCursors
       DEF IInv, TypeOK, LockInv, FreeInv, WakeInv, Locked, Active, Cleaners,
           cursors, book, descs, xlocals, cleaner, dma
  <1>4. RoomInv' /\ CursorInv' /\ OwnInv' /\ FirstInv' /\ CallInv'
    BY <1>1, RingUntouched DEF descs
  <1> QED
    BY <1>2, <1>3, <1>4 DEF IInv


(* tx_clean releases tx_lock.                                              *)
LEMMA CleanUnlockStep ==
    ASSUME IInv, NEW c \in Cleaners, CleanUnlock(c)
    PROVE  IInv'
  <1>1. /\ UNCHANGED <<cursors, book, descs, queueStopped, tx_count_frames,
                        xpc, xlocals, centry, cskb, dma, ti, timerArmed>>
        /\ cpc[c] = "unlock" /\ tx_lock' = "free"
        /\ cpc' = [cpc EXCEPT ![c] = "idle"]
    BY DEF CleanUnlock, cursors, book, descs, xlocals, cleaner, dma
  <1>2. TypeOK'
    BY <1>1, StateFacts, SizesAssumption
       DEF IInv, TypeOK, Cleaners, cursors, book, descs, xlocals, cleaner, dma
  <1>3. LockInv' /\ FreeInv' /\ WakeInv'
    BY <1>1, SameCursors
       DEF IInv, TypeOK, LockInv, FreeInv, WakeInv, Locked, Active, Cleaners,
           cursors, book, descs, xlocals, cleaner, dma
  <1>4. RoomInv' /\ CursorInv' /\ OwnInv' /\ FirstInv' /\ CallInv'
    BY <1>1, RingUntouched DEF descs
  <1> QED
    BY <1>2, <1>3, <1>4 DEF IInv


(* The transmit interrupt starts tx_clean.                                 *)
LEMMA TxInterruptStep ==
    ASSUME IInv, TxInterrupt
    PROVE  IInv'
  <1>1. /\ UNCHANGED <<cursors, book, descs, queueStopped, tx_lock,
                        tx_count_frames, xpc, xlocals, centry, cskb, dma>>
        /\ cpc["irq"] = "idle" /\ ti' = FALSE /\ timerArmed' = timerArmed
        /\ cpc' = [cpc EXCEPT !["irq"] = "lock"]
    BY DEF TxInterrupt, cursors, book, descs, xlocals, cleaner, dma
  <1>2. TypeOK'
    BY <1>1, StateFacts, SizesAssumption
       DEF IInv, TypeOK, Cleaners, cursors, book, descs, xlocals, cleaner, dma
  <1>3. LockInv' /\ FreeInv' /\ WakeInv'
    BY <1>1, SameCursors
       DEF IInv, TypeOK, LockInv, FreeInv, WakeInv, Locked, Active, Cleaners,
           cursors, book, descs, xlocals, cleaner, dma
  <1>4. RoomInv' /\ CursorInv' /\ OwnInv' /\ FirstInv' /\ CallInv'
    BY <1>1, RingUntouched DEF descs
  <1> QED
    BY <1>2, <1>3, <1>4 DEF IInv


(* The receive interrupt starts tx_clean.                                  *)
LEMMA RxInterruptStep ==
    ASSUME IInv, RxInterrupt
    PROVE  IInv'
  <1>1. /\ UNCHANGED <<cursors, book, descs, queueStopped, tx_lock,
                        tx_count_frames, xpc, xlocals, centry, cskb, dma>>
        /\ cpc["irq"] = "idle" /\ ti' = FALSE /\ timerArmed' = timerArmed
        /\ cpc' = [cpc EXCEPT !["irq"] = "lock"]
    BY DEF RxInterrupt, cursors, book, descs, xlocals, cleaner, dma
  <1>2. TypeOK'
    BY <1>1, StateFacts, SizesAssumption
       DEF IInv, TypeOK, Cleaners, cursors, book, descs, xlocals, cleaner, dma
  <1>3. LockInv' /\ FreeInv' /\ WakeInv'
    BY <1>1, SameCursors
       DEF IInv, TypeOK, LockInv, FreeInv, WakeInv, Locked, Active, Cleaners,
           cursors, book, descs, xlocals, cleaner, dma
  <1>4. RoomInv' /\ CursorInv' /\ OwnInv' /\ FirstInv' /\ CallInv'
    BY <1>1, RingUntouched DEF descs
  <1> QED
    BY <1>2, <1>3, <1>4 DEF IInv


(* The coalescing timer starts tx_clean.                                   *)
LEMMA TimerFiresStep ==
    ASSUME IInv, TimerFires
    PROVE  IInv'
  <1>1. /\ UNCHANGED <<cursors, book, descs, queueStopped, tx_lock,
                        tx_count_frames, xpc, xlocals, centry, cskb, dma>>
        /\ cpc["timer"] = "idle" /\ ti' = ti /\ timerArmed' = FALSE
        /\ cpc' = [cpc EXCEPT !["timer"] = "lock"]
    BY DEF TimerFires, cursors, book, descs, xlocals, cleaner, dma
  <1>2. TypeOK'
    BY <1>1, StateFacts, SizesAssumption
       DEF IInv, TypeOK, Cleaners, cursors, book, descs, xlocals, cleaner, dma
  <1>3. LockInv' /\ FreeInv' /\ WakeInv'
    BY <1>1, SameCursors
       DEF IInv, TypeOK, LockInv, FreeInv, WakeInv, Locked, Active, Cleaners,
           cursors, book, descs, xlocals, cleaner, dma
  <1>4. RoomInv' /\ CursorInv' /\ OwnInv' /\ FirstInv' /\ CallInv'
    BY <1>1, RingUntouched DEF descs
  <1> QED
    BY <1>2, <1>3, <1>4 DEF IInv

(* tx_clean frees the entry and advances dirty_tx.                         *)
LEMMA CleanFreeStep ==
    ASSUME IInv, NEW c \in Cleaners, CleanFree(c)
    PROVE  IInv'
  <1>1. /\ UNCHANGED <<cur_tx, queueStopped, tx_lock, tx_count_frames, xpc,
                        xlocals, dma, ti, timerArmed>>
        /\ cpc[c] = "free" /\ dirty_tx' = Unsigned(dirty_tx + 1)
        /\ centry' = [centry EXCEPT ![c] = 0]
        /\ cskb' = [cskb EXCEPT ![c] = NoSkb]
        /\ cpc' = [cpc EXCEPT ![c] = "loop"]
    BY DEF CleanFree
  <1>e. PICK e \in Slots : e = centry[c]
    BY DEF IInv, TypeOK
  <1>f. /\ tx_skbuff_dma' = [tx_skbuff_dma EXCEPT ![e] = FALSE]
        /\ \/ tx_skbuff' = tx_skbuff
           \/ tx_skbuff' = [tx_skbuff EXCEPT ![e] = NoSkb]
        /\ held' = held \ {cskb[c]}
        /\ own' = [own EXCEPT ![e] = FALSE]
        /\ fs' = [fs EXCEPT ![e] = FALSE]
        /\ ls' = [ls EXCEPT ![e] = FALSE]
        /\ ic' = [ic EXCEPT ![e] = FALSE]
        /\ seg' = [seg EXCEPT ![e] = NoSeg]
    BY <1>e DEF CleanFree
  <1>g. dirty_tx # cur_tx /\ e = Slot(dirty_tx)
    BY <1>1, <1>e DEF IInv, FreeInv
  <1>h. xpc \notin Locked /\ xpc \notin Building
    BY <1>1 DEF IInv, LockInv, Locked, Active, Building, Cleaners
  <1>b. /\ dirty_tx' \in Count /\ InFlight' = InFlight - 1 /\ InFlight > 0
        /\ \A i \in Slots :
             Offset(i)' = IF i = Slot(dirty_tx) THEN TxSize - 1 ELSE Offset(i) - 1
        /\ Offset(Slot(cur_tx))' = InFlight'
    BY <1>1, <1>g, DirtyStep DEF IInv
  <1>2. TypeOK'
    <2>1. NoSeg \in Segments /\ 0 \in Slots
      BY SizesAssumption DEF NoSeg, Segments, Slots
    <2>2. /\ tx_skbuff_dma' \in [Slots -> BOOLEAN] /\ own' \in [Slots -> BOOLEAN]
          /\ fs' \in [Slots -> BOOLEAN] /\ ls' \in [Slots -> BOOLEAN]
          /\ ic' \in [Slots -> BOOLEAN] /\ seg' \in [Slots -> Segments]
          /\ tx_skbuff' \in [Slots -> Skbs \cup {NoSkb}] /\ held' \subseteq Skbs
      BY <1>e, <1>f, <2>1 DEF IInv, TypeOK
    <2>3. /\ cpc' \in [Cleaners -> {"idle", "lock", "loop", "free", "wake", "unlock"}]
          /\ centry' \in [Cleaners -> Slots]
          /\ cskb' \in [Cleaners -> Skbs \cup {NoSkb}]
      BY <1>1, <2>1 DEF IInv, TypeOK
    <2> QED
      BY <1>1, <1>b, <2>2, <2>3 DEF IInv, TypeOK, xlocals, dma
  <1>3. LockInv' /\ CallInv' /\ WakeInv'
    BY <1>1
       DEF IInv, TypeOK, LockInv, CallInv, WakeInv, Locked, Active, Cleaners,
           xlocals
  <1>4. FreeInv'
    BY <1>1 DEF IInv, TypeOK, LockInv, FreeInv, Active, Cleaners
  <1>5. RoomInv' /\ CursorInv'
    <2>1. Owed' = Owed
      BY <1>1 DEF Owed, xlocals
    <2> QED
      BY <1>b, <2>1, StateFacts, WrapFacts DEF IInv, RoomInv, CursorInv
  <1>6. OwnInv' /\ FirstInv'
    <2>1. Reserved' = Reserved - 1 /\ Reserved \in Nat
      BY <1>1, <1>b, <1>h, StateFacts, WrapFacts DEF IInv, Reserved, Building
    <2>2. OwnInv'
      <3> SUFFICES ASSUME NEW i \in Slots, own'[i]
                   PROVE  Offset(i)' < Reserved'
        BY DEF OwnInv
      <3>1. i # e /\ own[i]
        BY <1>e, <1>f DEF IInv, TypeOK
      <3>2. Offset(i) < Reserved /\ Offset(i) \in Nat
        BY <3>1, OffsetFacts, WrapFacts DEF IInv, OwnInv, Slots
      <3> QED
        BY <3>1, <3>2, <1>b, <1>g, <2>1
    <2>3. FirstInv'
      BY <1>1, <1>h DEF FirstInv, Locked
    <2> QED
      BY <2>2, <2>3
  <1> QED
    BY <1>2, <1>3, <1>4, <1>5, <1>6 DEF IInv


(* The DMA sends one segment and gives its descriptor back.                *)
LEMMA DmaSendStep ==
    ASSUME IInv, DmaSend
    PROVE  IInv'
  <1>1. /\ UNCHANGED <<cursors, book, fs, ls, ic, seg, queueStopped, tx_lock,
                        tx_count_frames, xpc, xlocals, cleaner, dmaRunning, timerArmed>>
        /\ own' = [own EXCEPT ![dmaIdx] = FALSE]
        /\ wire' \in {NoSeg, seg[dmaIdx]}
        /\ ti' = (ti \/ (ls[dmaIdx] /\ ic[dmaIdx]))
        /\ dmaIdx' = Succ(dmaIdx)
    BY DEF DmaSend, cursors, book, xlocals, cleaner
  <1>2. TypeOK'
    <2>1. NoSeg \in Segments /\ Succ(dmaIdx) \in Slots
      BY WrapFacts, SizesAssumption
         DEF IInv, TypeOK, NoSeg, Segments, Slots, Succ
    <2>2. wire' \in Segments /\ ti' \in BOOLEAN /\ own' \in [Slots -> BOOLEAN]
      BY <1>1, <2>1 DEF IInv, TypeOK
    <2> QED
      BY <1>1, <2>1, <2>2 DEF IInv, TypeOK, cursors, book, xlocals, cleaner
  <1>3. LockInv' /\ FreeInv' /\ WakeInv'
    BY <1>1, SameCursors
       DEF IInv, LockInv, FreeInv, WakeInv, Locked, Active, cursors, cleaner
  <1>4. RoomInv' /\ CursorInv' /\ OwnInv' /\ FirstInv' /\ CallInv'
    <2>1. \A i \in Slots : own'[i] => own[i]
      BY <1>1 DEF IInv, TypeOK
    <2> QED
      BY <1>1, <2>1, RingUntouched
  <1> QED
    BY <1>2, <1>3, <1>4 DEF IInv


(* The DMA suspends.                                                       *)
LEMMA DmaSuspendStep ==
    ASSUME IInv, DmaSuspend
    PROVE  IInv'
  <1>1. /\ UNCHANGED <<cursors, book, descs, queueStopped, tx_lock,
                        tx_count_frames, xpc, xlocals, cleaner, dmaIdx, wire, ti,
                        timerArmed>>
        /\ dmaRunning' = FALSE
    BY DEF DmaSuspend
  <1>2. TypeOK'
    BY <1>1 DEF IInv, TypeOK, cursors, book, descs, xlocals, cleaner
  <1>3. LockInv' /\ FreeInv' /\ WakeInv'
    BY <1>1, SameCursors
       DEF IInv, LockInv, FreeInv, WakeInv, Locked, Active, cursors, cleaner
  <1>4. RoomInv' /\ CursorInv' /\ OwnInv' /\ FirstInv' /\ CallInv'
    BY <1>1, RingUntouched DEF descs
  <1> QED
    BY <1>2, <1>3, <1>4 DEF IInv


(* The invariant holds initially.                                          *)
LEMMA InitIInv == Init => IInv
  <1> SUFFICES ASSUME Init
               PROVE  IInv
    OBVIOUS
  <1>1. TypeOK
    <2>1. 0 \in Slots /\ 0 \in Count /\ 0 \in 0 .. MaxFrags /\ NoSeg \in Segments
      BY WrapFacts, SizesAssumption DEF Slots, Count, NoSeg, Segments
    <2>2. /\ cur_tx \in Count /\ dirty_tx \in Count
          /\ tx_skbuff \in [Slots -> Skbs \cup {NoSkb}]
          /\ tx_skbuff_dma \in [Slots -> BOOLEAN]
          /\ own \in [Slots -> BOOLEAN] /\ fs \in [Slots -> BOOLEAN]
          /\ ls \in [Slots -> BOOLEAN] /\ ic \in [Slots -> BOOLEAN]
          /\ seg \in [Slots -> Segments]
      BY <2>1 DEF Init
    <2>3. /\ cpc \in [Cleaners -> {"idle", "lock", "loop", "free", "wake", "unlock"}]
          /\ centry \in [Cleaners -> Slots]
          /\ cskb \in [Cleaners -> Skbs \cup {NoSkb}]
      BY <2>1 DEF Init
    <2> QED
      BY <2>1, <2>2, <2>3 DEF Init, TypeOK
  <1>2. InFlight = 0 /\ Slot(0) = 0
    BY WrapFacts, Distance, Reduce DEF Init, InFlight, Count, Slot
  <1>3. LockInv /\ FirstInv /\ FreeInv /\ CallInv /\ WakeInv /\ OwnInv
    BY DEF Init, LockInv, FirstInv, FreeInv, CallInv, WakeInv, OwnInv, Locked,
           Active, Cleaners
  <1>4. RoomInv
    BY <1>2, WrapFacts DEF Init, RoomInv, Owed
  <1>5. CursorInv
    BY <1>2, WrapFacts DEF Init, CursorInv, Offset
  <1> QED
    BY <1>1, <1>3, <1>4, <1>5 DEF IInv

(* Every step preserves it.                                                *)
LEMMA NextIInv == IInv /\ [Next]_vars => IInv'
  <1> SUFFICES ASSUME IInv, [Next]_vars
               PROVE  IInv'
    OBVIOUS
  <1>1. ASSUME NEW s \in Skbs, NEW n \in 0 .. MaxFrags,
               XmitAccept(s, n) \/ XmitFull(s, n)
        PROVE  IInv'
    BY <1>1, XmitAcceptStep, XmitFullStep
  <1>2. CASE XmitStep
    BY <1>2, XmitBusyStep, XmitFirstStep, XmitFragStep, XmitCloseStep,
       XmitHandOverStep, XmitPublishStep, XmitKickStep DEF XmitStep
  <1>3. ASSUME NEW c \in Cleaners, CleanStep(c)
        PROVE  IInv'
    BY <1>3, CleanLockStep, CleanTakeStep, CleanFreeStep, CleanDoneStep,
       CleanWakeStep, CleanUnlockStep DEF CleanStep
  <1>4. CASE TxInterrupt \/ RxInterrupt \/ TimerFires
    BY <1>4, TxInterruptStep, RxInterruptStep, TimerFiresStep
  <1>5. CASE DmaSend \/ DmaSuspend
    BY <1>5, DmaSendStep, DmaSuspendStep
  <1>6. CASE UNCHANGED vars
    <2>1. TypeOK'
      BY <1>6
         DEF IInv, TypeOK, vars, cursors, book, descs, xlocals, cleaner, dma
    <2>2. LockInv' /\ FreeInv' /\ WakeInv'
      BY <1>6, SameCursors
         DEF vars, IInv, LockInv, FreeInv, WakeInv, Locked, Active, cursors,
             cleaner
    <2>3. RoomInv' /\ CursorInv' /\ OwnInv' /\ FirstInv' /\ CallInv'
      BY <1>6, RingUntouched DEF vars, descs
    <2> QED
      BY <2>1, <2>2, <2>3 DEF IInv
  <1> QED
    BY <1>1, <1>2, <1>3, <1>4, <1>5, <1>6 DEF Next

(* It is therefore an invariant of the transmit path.                      *)
LEMMA Inductive == Spec => []IInv
  BY InitIInv, NextIInv, PTL DEF Spec

-----------------------------------------------------------------------------
(* The theorems.                                                           *)

(* The transmit path keeps every variable in its type: in particular every *)
(* ring index it uses is a descriptor of the ring and cur_tx and dirty_tx  *)
(* stay 32-bit counters, for every ring size and frame size.               *)
THEOREM TypeCorrect == Spec => []TypeOK
  <1>1. IInv => TypeOK
    BY DEF IInv
  <1> QED
    BY <1>1, Inductive, PTL

(* stmmac_xmit never runs over a descriptor that tx_clean has not          *)
(* reclaimed, and the DMA owns nothing outside the part of the ring in     *)
(* use, although the room is checked before tx_lock is taken.              *)
THEOREM RingNeverOverruns == Spec => []NoOverrun
  <1>1. IInv => NoOverrun
    <2> SUFFICES ASSUME IInv
                 PROVE  NoOverrun
      OBVIOUS
    <2>1. Reserved <= InFlight + Owed /\ InFlight + Owed <= TxSize - 1
      BY StateFacts DEF IInv, RoomInv
    <2>2. Reserved <= TxSize - 1
      BY <2>1, StateFacts, WrapFacts DEF IInv, Reserved
    <2> QED
      BY <2>2 DEF NoOverrun, IInv, OwnInv
  <1> QED
    BY <1>1, Inductive, PTL

(* The two locks taken in opposite orders by stmmac_xmit and tx_clean      *)
(* never block each other: tx_clean waits for the transmit lock only while *)
(* the queue is stopped, and stmmac_xmit runs up to tx_lock only while it  *)
(* is not.                                                                 *)
THEOREM LocksNeverCross == Spec => []NoLockCycle
  <1>1. IInv => NoLockCycle
    BY DEF IInv, WakeInv, NoLockCycle
  <1> QED
    BY <1>1, Inductive, PTL

-----------------------------------------------------------------------------
(* Between the two halves of an iteration of tx_clean the descriptor stays *)
(* the driver's: only stmmac_xmit sets OWN, and it would need tx_lock.     *)
SentInv == \A c \in Cleaners : cpc[c] = "free" => ~own[centry[c]]

LEMMA SentNext ==
    ASSUME IInv, SentInv, [Next]_vars
    PROVE  SentInv'
  <1> DEFINE Quiet == UNCHANGED <<own, cpc, centry>>
  <1>a. Quiet => SentInv'
    BY DEF SentInv
  <1>b. \A c \in Cleaners : cpc[c] = "free" => xpc \notin Locked
    BY DEF IInv, LockInv, Locked, Active, Cleaners
  <1>c. \A c, d \in Cleaners : cpc[c] = "free" /\ cpc[d] \in Active => c = d
    BY DEF IInv, LockInv, Active, Cleaners
  <1>1. CASE \E s \in Skbs, n \in 0 .. MaxFrags : XmitAccept(s, n) \/ XmitFull(s, n)
    BY <1>1, <1>a DEF XmitAccept, XmitFull, cleaner, descs
  <1>2. CASE XmitStep
    <2>1. CASE XmitBusy \/ XmitFirst \/ XmitClose \/ XmitPublish \/ XmitKick
      BY <2>1, <1>a
         DEF XmitBusy, XmitFirst, XmitClose, XmitPublish, XmitKick, cleaner,
             descs
    <2>2. CASE XmitFrag \/ XmitHandOver
      <3>1. xpc \in Locked /\ UNCHANGED <<cpc, centry>>
        BY <2>2 DEF XmitFrag, XmitHandOver, cleaner, Locked
      <3> QED
        BY <3>1, <1>b DEF SentInv
    <2> QED
      BY <1>2, <2>1, <2>2 DEF XmitStep
  <1>3. ASSUME NEW c \in Cleaners, CleanStep(c)
        PROVE  SentInv'
    <2>1. CASE CleanLock(c) \/ CleanDone(c) \/ CleanWake(c) \/ CleanUnlock(c)
      BY <2>1 DEF CleanLock, CleanDone, CleanWake, CleanUnlock, SentInv, descs,
                  IInv, TypeOK
    <2>2. CASE CleanTake(c)
      BY <2>2 DEF CleanTake, SentInv, descs, IInv, TypeOK
    <2>3. CASE CleanFree(c)
      <3>1. \A d \in Cleaners : cpc'[d] # "free"
        BY <2>3, <1>c DEF CleanFree, Active, IInv, TypeOK
      <3> QED
        BY <3>1 DEF SentInv
    <2> QED
      BY <1>3, <2>1, <2>2, <2>3 DEF CleanStep
  <1>4. CASE TxInterrupt \/ RxInterrupt \/ TimerFires
    BY <1>4
       DEF TxInterrupt, RxInterrupt, TimerFires, SentInv, descs, IInv, TypeOK
  <1>5. CASE DmaSend
    BY <1>5 DEF DmaSend, SentInv, cleaner, IInv, TypeOK
  <1>6. CASE DmaSuspend
    BY <1>6, <1>a DEF DmaSuspend, cleaner, descs
  <1>7. CASE UNCHANGED vars
    BY <1>7, <1>a DEF vars, cleaner, descs
  <1> QED
    BY <1>1, <1>2, <1>3, <1>4, <1>5, <1>6, <1>7 DEF Next

(* stmmac_tx_clean reclaims a descriptor only when the DMA has given it    *)
(* back and no frame is being prepared: its test of OWN, made under        *)
(* tx_lock, still holds when the socket buffer is freed.                   *)
THEOREM OnlySentReclaimed == Spec => []ReclaimSent
  <1>1. Init => SentInv
    BY DEF Init, SentInv, Cleaners
  <1>2. IInv /\ SentInv /\ [Next]_vars => SentInv'
    BY SentNext
  <1>3. IInv /\ SentInv => ReclaimSent
    BY DEF IInv, LockInv, Locked, Active, SentInv, ReclaimSent, Cleaners
  <1> QED
    BY <1>1, <1>2, <1>3, Inductive, PTL DEF Spec

-----------------------------------------------------------------------------
(* The ring implements the flow control of TxFlow.                         *)

FlowVars == <<InFlight + Owed, queueStopped, FlowPhase>>

(* Steps that leave the locals of stmmac_xmit and the counters alone, and  *)
(* do not touch the queue, are invisible in TxFlow.                        *)
LEMMA FlowStutter ==
    ASSUME UNCHANGED <<cursors, xpc, xlocals, queueStopped>>
    PROVE  UNCHANGED FlowVars
  <1>1. InFlight' = InFlight
    BY SameCursors
  <1>2. Owed' = Owed /\ FlowPhase' = FlowPhase
    BY DEF Owed, FlowPhase, xlocals
  <1> QED
    BY <1>1, <1>2 DEF FlowVars

(* stmmac_xmit step by step.                                               *)
LEMMA FlowXmit ==
    ASSUME IInv, XmitStep
    PROVE  Flow!Next \/ UNCHANGED FlowVars
  <1>f. /\ InFlight \in 0 .. TxSize - 1 /\ Owed \in Nat
        /\ InFlight + Owed <= TxSize - 1 /\ TxSize \in Nat
        /\ xi \in Nat /\ xfrags \in Nat /\ MaxFrags \in Nat
    BY StateFacts, WrapFacts, SizesAssumption DEF IInv, RoomInv, TypeOK
  <1>1. CASE XmitBusy
    <2>1. UNCHANGED cursors /\ xpc = "full" /\ xpc' = "idle" /\ queueStopped' = TRUE
      BY <1>1 DEF XmitBusy
    <2>2. Flow!Busy
      BY <2>1, SameCursors DEF Flow!Busy, Owed, FlowPhase
    <2> QED
      BY <2>2 DEF Flow!Next
  <1>2. CASE XmitFirst
    <2>1. /\ UNCHANGED cursors /\ xpc = "lock" /\ xpc' = "frags" /\ xi' = 0
          /\ xfrags' = xfrags /\ queueStopped' = queueStopped
      BY <1>2 DEF XmitFirst
    <2> QED
      BY <2>1, <1>f, SameCursors DEF FlowVars, Owed, FlowPhase
  <1>3. CASE XmitFrag
    <2>1. /\ xpc = "frags" /\ xpc' = "frags" /\ xi' = xi + 1 /\ xi < xfrags
          /\ xfrags' = xfrags /\ queueStopped' = queueStopped
          /\ cur_tx' = Unsigned(cur_tx + 1) /\ dirty_tx' = dirty_tx
      BY <1>3 DEF XmitFrag
    <2>2. Owed = xfrags - xi + 1 /\ Owed' = Owed - 1
      BY <2>1, <1>f DEF Owed
    <2>3. InFlight' = InFlight + 1
      BY <2>1, <2>2, <1>f, CurStep DEF IInv
    <2>4. FlowPhase' = FlowPhase
      BY <2>1 DEF FlowPhase
    <2> QED
      BY <2>1, <2>2, <2>3, <2>4, <1>f DEF FlowVars
  <1>4. CASE XmitClose
    <2>1. /\ UNCHANGED <<cursors, xlocals>> /\ xpc = "frags" /\ xpc' = "handover"
          /\ xi = xfrags /\ queueStopped' = queueStopped
      BY <1>4 DEF XmitClose
    <2> QED
      BY <2>1, <1>f, SameCursors DEF FlowVars, Owed, FlowPhase
  <1>5. CASE XmitHandOver
    <2>1. /\ UNCHANGED cursors /\ xpc = "handover" /\ xpc' = "publish"
          /\ queueStopped' = queueStopped
      BY <1>5 DEF XmitHandOver
    <2> QED
      BY <2>1, SameCursors DEF FlowVars, Owed, FlowPhase
  <1>6. CASE XmitPublish
    <2>1. /\ xpc = "publish" /\ xpc' = "kick"
          /\ cur_tx' = Unsigned(cur_tx + 1) /\ dirty_tx' = dirty_tx
          /\ queueStopped' = (queueStopped \/ Unsigned(dirty_tx + TxSize - cur_tx' - 1) <= MaxFrags + 1)
      BY <1>6 DEF XmitPublish
    <2>2. Owed = 1 /\ Owed' = 0
      BY <2>1 DEF Owed
    <2>3. InFlight' = InFlight + 1 /\ cur_tx' \in Count
      BY <2>1, <2>2, <1>f, CurStep DEF IInv
    <2>4. InFlight' = Unsigned(cur_tx' - dirty_tx)
      BY <2>1 DEF InFlight, Unsigned
    <2>5. Unsigned(dirty_tx + TxSize - cur_tx' - 1) = TxSize - 1 - (InFlight + 1)
      BY <2>2, <2>3, <2>4, <1>f, Room DEF IInv, TypeOK
    <2>6. FlowPhase = "sending" /\ FlowPhase' = "idle"
      BY <2>1 DEF FlowPhase
    <2>7. Flow!Queued
      BY <2>1, <2>2, <2>3, <2>5, <2>6, <1>f DEF Flow!Queued, Flow!Free
    <2> QED
      BY <2>7 DEF Flow!Next
  <1>7. CASE XmitKick
    <2>1. /\ UNCHANGED cursors /\ xpc = "kick" /\ xpc' = "idle"
          /\ queueStopped' = queueStopped
      BY <1>7 DEF XmitKick
    <2> QED
      BY <2>1, SameCursors DEF FlowVars, Owed, FlowPhase
  <1> QED
    BY <1>1, <1>2, <1>3, <1>4, <1>5, <1>6, <1>7 DEF XmitStep

(* stmmac_tx_clean step by step.                                           *)
LEMMA FlowClean ==
    ASSUME IInv, NEW c \in Cleaners, CleanStep(c)
    PROVE  Flow!Next \/ UNCHANGED FlowVars
  <1>1. CASE CleanLock(c) \/ CleanTake(c) \/ CleanDone(c) \/ CleanUnlock(c)
    BY <1>1, FlowStutter DEF CleanLock, CleanTake, CleanDone, CleanUnlock
  <1>2. CASE CleanFree(c)
    <2>1. /\ UNCHANGED <<xpc, xlocals, queueStopped>> /\ cpc[c] = "free"
          /\ cur_tx' = cur_tx /\ dirty_tx' = Unsigned(dirty_tx + 1)
      BY <1>2 DEF CleanFree
    <2>2. InFlight' = InFlight - 1 /\ InFlight > 0
      BY <2>1, DirtyStep DEF IInv, FreeInv
    <2>3. Owed' = Owed /\ FlowPhase' = FlowPhase
      BY <2>1 DEF Owed, FlowPhase, xlocals
    <2>4. Flow!Reclaim
      BY <2>1, <2>2, <2>3, StateFacts, WrapFacts DEF Flow!Reclaim, IInv
    <2> QED
      BY <2>4 DEF Flow!Next
  <1>3. CASE CleanWake(c)
    <2>1. /\ UNCHANGED <<cursors, xpc, xlocals>> /\ xpc = "idle"
          /\ queueStopped' = (queueStopped /\ ~CanWake)
      BY <1>3 DEF CleanWake
    <2>2. Owed = 0 /\ Owed' = 0 /\ FlowPhase = "idle" /\ FlowPhase' = "idle"
      BY <2>1 DEF Owed, FlowPhase
    <2>3. InFlight' = InFlight /\ InFlight \in 0 .. TxSize - 1 /\ TxSize \in Nat
      BY <2>1, StateFacts, WrapFacts, SameCursors DEF IInv
    <2>4. CASE CanWake
      <3>1. InFlight + Owed = InFlight /\ (InFlight + Owed)' = InFlight + Owed
        BY <2>2, <2>3
      <3>2. TxSize - 1 - (InFlight + Owed) > TxSize \div 4
        BY <2>4, <3>1, StateFacts DEF CanWake, WakeThreshold, IInv
      <3>3. queueStopped /\ queueStopped' = FALSE
        BY <2>1, <2>4 DEF CanWake
      <3>4. Flow!Wake
        BY <2>2, <3>1, <3>2, <3>3 DEF Flow!Wake, Flow!Free, Flow!Threshold
      <3> QED
        BY <3>4 DEF Flow!Next
    <2>5. CASE ~CanWake
      BY <2>1, <2>2, <2>3, <2>5 DEF FlowVars, IInv, TypeOK
    <2> QED
      BY <2>4, <2>5
  <1> QED
    BY <1>1, <1>2, <1>3 DEF CleanStep

(* The networking core calls stmmac_xmit.                                  *)
LEMMA FlowCall ==
    ASSUME IInv, NEW s \in Skbs, NEW n \in 0 .. MaxFrags,
           XmitAccept(s, n) \/ XmitFull(s, n)
    PROVE  Flow!Next
  <1>1. /\ UNCHANGED <<cursors, queueStopped>> /\ xpc = "idle" /\ ~queueStopped
        /\ xfrags' = n /\ n \in Nat
        /\ \/ xpc' = "lock" /\ Avail >= n + 1
           \/ xpc' = "full" /\ Avail < n + 1
    BY SizesAssumption DEF XmitAccept, XmitFull, Call
  <1>2. /\ InFlight' = InFlight /\ InFlight \in 0 .. TxSize - 1 /\ TxSize \in Nat
        /\ Avail = TxSize - 1 - InFlight
    BY <1>1, SameCursors, StateFacts, WrapFacts DEF IInv
  <1>3. Owed = 0 /\ FlowPhase = "idle"
    BY <1>1 DEF Owed, FlowPhase
  <1>4. CASE xpc' = "lock"
    <2>1. Owed' = n + 1 /\ FlowPhase' = "sending"
      BY <1>1, <1>4 DEF Owed, FlowPhase
    <2>2. Flow!Accept(n)
      BY <1>1, <1>2, <1>3, <1>4, <2>1 DEF Flow!Accept, Flow!Free
    <2> QED
      BY <2>2 DEF Flow!Next
  <1>5. CASE xpc' = "full"
    <2>1. Owed' = 0 /\ FlowPhase' = "full"
      BY <1>1, <1>5 DEF Owed, FlowPhase
    <2>2. Flow!Refuse(n)
      BY <1>1, <1>2, <1>3, <1>5, <2>1 DEF Flow!Refuse, Flow!Free
    <2> QED
      BY <2>2 DEF Flow!Next
  <1> QED
    BY <1>1, <1>4, <1>5

(* Every step of the ring is a step of TxFlow or invisible there.          *)
LEMMA FlowNext == IInv /\ [Next]_vars => [Flow!Next]_(Flow!vars)
  <1> SUFFICES ASSUME IInv, [Next]_vars
               PROVE  Flow!Next \/ UNCHANGED FlowVars
    BY DEF Flow!vars, FlowVars
  <1>1. CASE TxInterrupt \/ RxInterrupt \/ TimerFires \/ DmaSend \/ DmaSuspend
    BY <1>1, FlowStutter
       DEF TxInterrupt, RxInterrupt, TimerFires, DmaSend, DmaSuspend
  <1>2. CASE UNCHANGED vars
    BY <1>2, FlowStutter DEF vars
  <1> QED
    BY <1>1, <1>2, FlowCall, FlowXmit, FlowClean DEF Next

(* The transmit path implements the flow control of TxFlow: whatever the   *)
(* interleaving of stmmac_xmit, both runs of tx_clean and the DMA, a frame *)
(* is accepted only when all its descriptors are free and the queue is     *)
(* stopped and woken only where TxFlow does it.                            *)
THEOREM RingImplementsFlow == Spec => FlowControl
  <1>1. Init => Flow!Init
    <2> SUFFICES ASSUME Init
                 PROVE  Flow!Init
      OBVIOUS
    <2>1. InFlight = 0
      BY WrapFacts, Distance DEF Init, InFlight, Count
    <2> QED
      BY <2>1 DEF Init, Flow!Init, Owed, FlowPhase
  <1> QED
    BY <1>1, FlowNext, Inductive, PTL DEF Spec, FlowControl, Flow!Spec

-----------------------------------------------------------------------------
(* The hard error of stmmac_xmit.                                          *)

(* While the queue is awake and stmmac_xmit may be called, the ring takes  *)
(* the largest frame.                                                      *)
AwakeInv ==
    /\ xpc # "full"
    /\ xpc \in {"idle", "kick"} /\ ~queueStopped => Avail >= MaxFrags + 1

(* It is inductive when the wake-up threshold reaches MaxFrags.            *)
LEMMA AwakeNext ==
    ASSUME TxSize \div 4 >= MaxFrags, IInv, AwakeInv, [Next]_vars
    PROVE  AwakeInv'
  <1>f. /\ InFlight \in 0 .. TxSize - 1 /\ Avail = TxSize - 1 - InFlight
        /\ TxSize \in Nat /\ MaxFrags \in Nat /\ TxSize \div 4 \in Nat
    BY StateFacts, WrapFacts, SizesAssumption DEF IInv
  <1>1. ASSUME NEW s \in Skbs, NEW n \in 0 .. MaxFrags,
               XmitAccept(s, n) \/ XmitFull(s, n)
        PROVE  AwakeInv'
    <2>1. Avail >= n + 1
      BY <1>f, <1>1 DEF AwakeInv, XmitAccept, XmitFull, Call
    <2>2. ~XmitFull(s, n)
      BY <1>f, <2>1 DEF XmitFull
    <2> QED
      BY <1>1, <2>2 DEF XmitAccept, AwakeInv
  <1>2. CASE XmitStep
    <2>1. CASE XmitBusy
      BY <2>1 DEF XmitBusy, AwakeInv
    <2>2. CASE XmitFirst \/ XmitFrag \/ XmitClose \/ XmitHandOver
      BY <2>2 DEF XmitFirst, XmitFrag, XmitClose, XmitHandOver, AwakeInv
    <2>3. CASE XmitPublish
      <3>1. Avail' = Unsigned(dirty_tx + TxSize - cur_tx' - 1) /\ xpc' = "kick"
        BY <2>3 DEF XmitPublish, Avail, Unsigned
      <3>2. ~queueStopped' => ~(Avail' <= MaxFrags + 1)
        BY <2>3, <3>1 DEF XmitPublish
      <3>3. Avail' \in Int
        BY <3>1, <2>3, WrapFacts, Increment
           DEF XmitPublish, IInv, TypeOK, Count, Unsigned
      <3> QED
        BY <3>1, <3>2, <3>3, <1>f DEF AwakeInv
    <2>4. CASE XmitKick
      BY <2>4, SameCursors DEF XmitKick, AwakeInv
    <2> QED
      BY <1>2, <2>1, <2>2, <2>3, <2>4 DEF XmitStep
  <1>3. ASSUME NEW c \in Cleaners, CleanStep(c)
        PROVE  AwakeInv'
    <2>1. CASE CleanLock(c) \/ CleanTake(c) \/ CleanDone(c) \/ CleanUnlock(c)
      BY <2>1, SameCursors
         DEF CleanLock, CleanTake, CleanDone, CleanUnlock, AwakeInv
    <2>2. CASE CleanFree(c)
      <3>1. /\ UNCHANGED <<xpc, queueStopped, xlocals>> /\ cpc[c] = "free"
            /\ cur_tx' = cur_tx /\ dirty_tx' = Unsigned(dirty_tx + 1)
        BY <2>2 DEF CleanFree
      <3>2. /\ InFlight' = InFlight - 1 /\ InFlight > 0
            /\ cur_tx' \in Count /\ dirty_tx' \in Count
        BY <3>1, DirtyStep DEF IInv, FreeInv, TypeOK
      <3>3. InFlight' = Unsigned(cur_tx' - dirty_tx')
            /\ Avail' = Unsigned(dirty_tx' + TxSize - cur_tx' - 1)
        BY DEF InFlight, Avail, Unsigned
      <3>4. Avail' = TxSize - 1 - InFlight'
        BY <3>2, <3>3, <1>f, Room
      <3> QED
        BY <3>1, <3>2, <3>4, <1>f DEF AwakeInv
    <2>3. CASE CleanWake(c)
      <3>1. /\ UNCHANGED <<cursors, xpc>> /\ queueStopped' = (queueStopped /\ ~CanWake)
        BY <2>3 DEF CleanWake
      <3>2. Avail' = Avail
        BY <3>1, SameCursors
      <3>3. CanWake => Avail >= MaxFrags + 1
        BY <1>f DEF CanWake, WakeThreshold
      <3> QED
        BY <3>1, <3>2, <3>3 DEF AwakeInv
    <2> QED
      BY <1>3, <2>1, <2>2, <2>3 DEF CleanStep
  <1>4. CASE TxInterrupt \/ RxInterrupt \/ TimerFires \/ DmaSend \/ DmaSuspend
    BY <1>4, SameCursors
       DEF TxInterrupt, RxInterrupt, TimerFires, DmaSend, DmaSuspend, AwakeInv
  <1>5. CASE UNCHANGED vars
    BY <1>5, SameCursors DEF vars, AwakeInv
  <1> QED
    BY <1>1, <1>2, <1>3, <1>4, <1>5 DEF Next

(* NoStrandedQueue is inductive beside it: stmmac_xmit stops the queue     *)
(* only when it is short of room, and tx_clean gives up only after a test. *)
LEMMA StrandedNext ==
    ASSUME IInv, AwakeInv, NoStrandedQueue, [Next]_vars
    PROVE  NoStrandedQueue'
  <1> DEFINE Busy(pcs) == \E c \in Cleaners : pcs[c] \in {"loop", "free", "wake"}
             Stuck == /\ queueStopped /\ Avail > WakeThreshold
                      /\ Avail > MaxFrags + 1
  <1>a. Stuck => Busy(cpc)
    BY DEF NoStrandedQueue
  <1>b. ASSUME Stuck' => Stuck, Busy(cpc) => Busy(cpc')
        PROVE  NoStrandedQueue'
    BY <1>a, <1>b DEF NoStrandedQueue
  <1>c. ASSUME UNCHANGED <<cursors, queueStopped>>
        PROVE  Stuck' => Stuck
    BY <1>c, SameCursors DEF WakeThreshold
  <1>1. ASSUME NEW s \in Skbs, NEW n \in 0 .. MaxFrags,
               XmitAccept(s, n) \/ XmitFull(s, n)
        PROVE  NoStrandedQueue'
    BY <1>1, <1>b, <1>c DEF XmitAccept, XmitFull, cleaner
  <1>2. CASE XmitStep
    <2>1. CASE XmitBusy
      BY <2>1 DEF XmitBusy, AwakeInv
    <2>2. CASE XmitFirst \/ XmitClose \/ XmitHandOver \/ XmitKick
      <3>1. UNCHANGED <<cursors, queueStopped, cpc>>
        BY <2>2 DEF XmitFirst, XmitClose, XmitHandOver, XmitKick, cleaner
      <3> QED
        BY <3>1, <1>b, <1>c
    <2>3. CASE XmitFrag \/ XmitPublish
      <3>1. /\ UNCHANGED <<dirty_tx, cpc>> /\ cur_tx' = Unsigned(cur_tx + 1)
            /\ InFlight < TxSize - 1
        BY <2>3, StateFacts, WrapFacts, SizesAssumption
           DEF XmitFrag, XmitPublish, IInv, RoomInv, Owed, TypeOK, cleaner
      <3>2. /\ InFlight \in Nat /\ Avail = TxSize - 1 - InFlight
            /\ InFlight' = InFlight + 1 /\ cur_tx' \in Count
            /\ dirty_tx' \in Count
        BY <3>1, CurStep, StateFacts DEF IInv, TypeOK
      <3>3. InFlight' = Unsigned(cur_tx' - dirty_tx')
            /\ Avail' = Unsigned(dirty_tx' + TxSize - cur_tx' - 1)
        BY DEF InFlight, Avail, Unsigned
      <3>4. Avail' = TxSize - 1 - InFlight'
        BY <3>1, <3>2, <3>3, Room, SizesAssumption
      <3>5. Avail' < Avail /\ Avail \in Int /\ Avail' \in Int
        BY <3>2, <3>4, SizesAssumption
      <3>6. Stuck' => Avail' > WakeThreshold /\ Avail' > MaxFrags + 1
                      /\ queueStopped'
        BY DEF WakeThreshold
      <3>7. queueStopped' => queueStopped \/ Avail' <= MaxFrags + 1
        BY <2>3, <3>1, <3>3 DEF XmitFrag, XmitPublish
      <3>8. WakeThreshold \in Nat /\ MaxFrags \in Nat
        BY WrapFacts, SizesAssumption DEF WakeThreshold
      <3>9. Stuck' => Stuck
        BY <3>5, <3>6, <3>7, <3>8
      <3> QED
        BY <3>1, <3>9, <1>b
    <2> QED
      BY <1>2, <2>1, <2>2, <2>3 DEF XmitStep
  <1>3. ASSUME NEW c \in Cleaners, CleanStep(c)
        PROVE  NoStrandedQueue'
    <2>1. CASE CleanLock(c) \/ CleanTake(c) \/ CleanFree(c)
      <3>1. cpc'[c] \in {"loop", "free"}
        BY <2>1 DEF CleanLock, CleanTake, CleanFree, IInv, TypeOK
      <3> QED
        BY <3>1 DEF NoStrandedQueue
    <2>2. CASE CleanDone(c)
      <3>1. /\ UNCHANGED <<cursors, queueStopped>>
            /\ cpc' = [cpc EXCEPT ![c] = IF CanWake THEN "wake" ELSE "unlock"]
        BY <2>2 DEF CleanDone
      <3>2. CASE CanWake
        <4>1. cpc'[c] = "wake"
          BY <3>1, <3>2 DEF IInv, TypeOK
        <4> QED
          BY <4>1 DEF NoStrandedQueue
      <3>3. CASE ~CanWake
        <4>1. ~Stuck'
          BY <3>1, <3>3, <1>c DEF CanWake
        <4> QED
          BY <4>1 DEF NoStrandedQueue
      <3> QED
        BY <3>2, <3>3
    <2>3. CASE CleanWake(c)
      <3>1. /\ UNCHANGED cursors
            /\ queueStopped' = (queueStopped /\ ~CanWake)
        BY <2>3 DEF CleanWake
      <3>2. Avail' = Avail /\ WakeThreshold' = WakeThreshold
        BY <3>1, SameCursors DEF WakeThreshold
      <3>3. ~Stuck'
        BY <3>1, <3>2 DEF CanWake
      <3> QED
        BY <3>3 DEF NoStrandedQueue
    <2>4. CASE CleanUnlock(c)
      <3>1. /\ UNCHANGED <<cursors, queueStopped>> /\ cpc[c] = "unlock"
            /\ \A d \in Cleaners : d # c => cpc'[d] = cpc[d]
        BY <2>4 DEF CleanUnlock, IInv, TypeOK
      <3> QED
        BY <3>1, <1>b, <1>c
    <2> QED
      BY <1>3, <2>1, <2>2, <2>3, <2>4 DEF CleanStep
  <1>4. CASE TxInterrupt \/ RxInterrupt
    <2>1. /\ UNCHANGED <<cursors, queueStopped>> /\ cpc["irq"] = "idle"
          /\ \A d \in Cleaners : d # "irq" => cpc'[d] = cpc[d]
      BY <1>4 DEF TxInterrupt, RxInterrupt, IInv, TypeOK
    <2> QED
      BY <2>1, <1>b, <1>c
  <1>5. CASE TimerFires
    <2>1. /\ UNCHANGED <<cursors, queueStopped>> /\ cpc["timer"] = "idle"
          /\ \A d \in Cleaners : d # "timer" => cpc'[d] = cpc[d]
      BY <1>5 DEF TimerFires, IInv, TypeOK
    <2> QED
      BY <2>1, <1>b, <1>c
  <1>6. CASE DmaSend \/ DmaSuspend \/ UNCHANGED vars
    <2>1. UNCHANGED <<cursors, queueStopped, cpc>>
      BY <1>6 DEF DmaSend, DmaSuspend, vars, cleaner
    <2> QED
      BY <2>1, <1>b, <1>c
  <1> QED
    BY <1>1, <1>2, <1>3, <1>4, <1>5, <1>6 DEF Next

(* AwakeInv holds initially.                                               *)
LEMMA AwakeInit == Init => AwakeInv
  <1> SUFFICES ASSUME Init
               PROVE  AwakeInv
    OBVIOUS
  <1>1. IInv
    BY InitIInv
  <1>2. InFlight = 0 /\ Avail = TxSize - 1
    BY <1>1, StateFacts, WrapFacts DEF Init, IInv
  <1> QED
    BY <1>2, SizesAssumption DEF Init, AwakeInv

(* stmmac_xmit never finds the ring full while the queue is awake (the     *)
(* error it logs as "Tx Ring full when queue awake"), provided the wake-up *)
(* threshold dma_tx_size / 4 is at least MAX_SKB_FRAGS.                    *)
THEOREM AwakeMeansRoom ==
    ASSUME TxSize \div 4 >= MaxFrags
    PROVE  Spec => []NoHardError
  <1>1. Init => AwakeInv
    BY AwakeInit
  <1>2. IInv /\ AwakeInv /\ [Next]_vars => AwakeInv'
    BY AwakeNext
  <1>3. AwakeInv => NoHardError
    BY DEF AwakeInv, NoHardError
  <1> QED
    BY <1>1, <1>2, <1>3, Inductive, PTL DEF Spec

(* Under the same condition no wake-up is lost: a queue that stays stopped *)
(* although the ring has room for the wake-up has a tx_clean that will     *)
(* still test for it, whatever the steps of stmmac_xmit in between.        *)
THEOREM WakeUpNotLost ==
    ASSUME TxSize \div 4 >= MaxFrags
    PROVE  Spec => []NoStrandedQueue
  <1>1. Init => NoStrandedQueue
    BY DEF Init, NoStrandedQueue
  <1>2. IInv /\ AwakeInv /\ NoStrandedQueue /\ [Next]_vars
          => AwakeInv' /\ NoStrandedQueue'
    BY AwakeNext, StrandedNext
  <1> QED
    BY <1>1, <1>2, AwakeInit, Inductive, PTL DEF Spec

-----------------------------------------------------------------------------
(* The socket buffers of the driver.                                       *)

(* h holds the buffers recorded in f, each at one descriptor.              *)
Ledger(f, h) ==
    /\ h = {f[i] : i \in Slots} \ {NoSkb}
    /\ \A i, j \in Slots : f[i] = f[j] /\ i # j => f[i] = NoSkb

(* A buffer is recorded at a descriptor that had none.                     *)
LEMMA LedgerRecord ==
    ASSUME NEW f \in [Slots -> Skbs \cup {NoSkb}], NEW h, Ledger(f, h),
           NEW e \in Slots, f[e] = NoSkb, NEW s \in Skbs, s \notin h
    PROVE  Ledger([f EXCEPT ![e] = s], h \cup {s})
  <1> DEFINE g == [f EXCEPT ![e] = s]
  <1>1. s # NoSkb
    BY SizesAssumption
  <1>2. g[e] = s /\ \A i \in Slots : i # e => g[i] = f[i]
    OBVIOUS
  <1>3. \A i \in Slots : f[i] # s
    BY <1>1 DEF Ledger
  <1> HIDE DEF g
  <1>4. h \cup {s} = {g[i] : i \in Slots} \ {NoSkb}
    <2>1. ASSUME NEW x \in h \cup {s}
          PROVE  x \in {g[i] : i \in Slots} \ {NoSkb}
      <3>1. CASE x = s
        BY <3>1, <1>1, <1>2
      <3>2. CASE x # s
        <4>1. PICK i \in Slots : f[i] = x /\ x # NoSkb
          BY <3>2 DEF Ledger
        <4> QED
          BY <4>1, <1>2
      <3> QED
        BY <3>1, <3>2
    <2>2. ASSUME NEW i \in Slots, g[i] # NoSkb
          PROVE  g[i] \in h \cup {s}
      BY <2>2, <1>2 DEF Ledger
    <2> QED
      BY <2>1, <2>2
  <1>5. \A i, j \in Slots : g[i] = g[j] /\ i # j => g[i] = NoSkb
    BY <1>2, <1>3 DEF Ledger
  <1>6. Ledger(g, h \cup {s})
    BY <1>4, <1>5 DEF Ledger
  <1> QED
    BY <1>6 DEF g

(* The record of a descriptor is cleared and its buffer is freed.          *)
LEMMA LedgerClear ==
    ASSUME NEW f \in [Slots -> Skbs \cup {NoSkb}], NEW h, Ledger(f, h),
           NEW e \in Slots
    PROVE  Ledger([f EXCEPT ![e] = NoSkb], h \ {f[e]})
  <1> DEFINE g == [f EXCEPT ![e] = NoSkb]
  <1>2. g[e] = NoSkb /\ \A i \in Slots : i # e => g[i] = f[i]
    OBVIOUS
  <1> HIDE DEF g
  <1>4. h \ {f[e]} = {g[i] : i \in Slots} \ {NoSkb}
    <2>1. ASSUME NEW x \in h \ {f[e]}
          PROVE  x \in {g[i] : i \in Slots} \ {NoSkb}
      <3>1. PICK i \in Slots : f[i] = x /\ x # NoSkb
        BY DEF Ledger
      <3> QED
        BY <3>1, <1>2
    <2>2. ASSUME NEW i \in Slots, g[i] # NoSkb
          PROVE  g[i] \in h \ {f[e]}
      <3>1. i # e /\ g[i] = f[i]
        BY <2>2, <1>2
      <3> QED
        BY <2>2, <3>1 DEF Ledger
    <2> QED
      BY <2>1, <2>2
  <1>5. \A i, j \in Slots : g[i] = g[j] /\ i # j => g[i] = NoSkb
    BY <1>2 DEF Ledger
  <1>6. Ledger(g, h \ {f[e]})
    BY <1>4, <1>5 DEF Ledger
  <1> QED
    BY <1>6 DEF g

(* Only descriptors in use have a buffer recorded.                         *)
InUse == \A i \in Slots : tx_skbuff[i] # NoSkb => Offset(i) < Reserved

(* The buffer stmmac_xmit was called with is not recorded yet.             *)
FreshInv == xpc = "lock" => xskb \notin held

(* tx_clean still has the buffer recorded at its entry in its local.       *)
TakenInv ==
    \A c \in Cleaners : cpc[c] = "free" => cskb[c] = tx_skbuff[centry[c]]

LedgerInv == Ledger(tx_skbuff, held) /\ InUse /\ FreshInv /\ TakenInv

(* Steps that leave the books alone and take no descriptor out of use.     *)
LEMMA BooksUntouched ==
    ASSUME IInv, LedgerInv, UNCHANGED <<tx_skbuff, held>>,
           \A i \in Slots : Offset(i) < Reserved => Offset(i)' < Reserved'
    PROVE  Ledger(tx_skbuff, held)' /\ InUse'
  BY DEF LedgerInv, Ledger, InUse

(* Steps that move no counter and stay in the same part of stmmac_xmit.    *)
LEMMA SameReserved ==
    ASSUME UNCHANGED <<cursors, xpc>>
    PROVE  \A i \in Slots : Offset(i) < Reserved => Offset(i)' < Reserved'
  BY SameCursors DEF Reserved, Building

(* stmmac_xmit records the buffer at its first descriptor.                 *)
LEMMA LedgerFirst ==
    ASSUME IInv, LedgerInv, XmitFirst
    PROVE  LedgerInv'
  <1>1. /\ UNCHANGED cursors /\ xpc = "lock" /\ xpc' = "frags"
        /\ tx_lock = "free" /\ UNCHANGED <<cpc, centry, cskb>>
    BY DEF XmitFirst, cleaner
  <1>2. PICK e \in Slots : e = Slot(cur_tx)
    BY StateFacts DEF IInv
  <1>3. tx_skbuff' = [tx_skbuff EXCEPT ![e] = xskb] /\ held' = held \cup {xskb}
    BY <1>2 DEF XmitFirst
  <1>4. Offset(e) = InFlight /\ Reserved = InFlight /\ Reserved' = InFlight + 1
        /\ InFlight \in Nat
    BY <1>1, <1>2, StateFacts, SameCursors, WrapFacts
       DEF IInv, CursorInv, Reserved, Building
  <1>5. tx_skbuff[e] = NoSkb
    BY <1>4 DEF LedgerInv, InUse
  <1>6. Ledger(tx_skbuff, held)'
    <2>1. tx_skbuff \in [Slots -> Skbs \cup {NoSkb}] /\ xskb \in Skbs
          /\ xskb \notin held /\ Ledger(tx_skbuff, held)
      BY <1>1 DEF IInv, TypeOK, CallInv, LedgerInv, FreshInv
    <2>2. Ledger([tx_skbuff EXCEPT ![e] = xskb], held \cup {xskb})
      BY <2>1, <1>5, LedgerRecord
    <2> QED
      BY <2>2, <1>3 DEF Ledger
  <1>7. InUse'
    <2> SUFFICES ASSUME NEW i \in Slots, tx_skbuff'[i] # NoSkb
                 PROVE  Offset(i)' < Reserved'
      BY DEF InUse
    <2>0. Offset(i)' = Offset(i) /\ Offset(i) \in Nat
      BY <1>1, SameCursors, OffsetFacts DEF IInv, Slots
    <2>1. CASE i = e
      BY <2>0, <2>1, <1>4
    <2>2. CASE i # e
      <3>1. tx_skbuff[i] # NoSkb
        BY <2>2, <1>3 DEF IInv, TypeOK
      <3> QED
        BY <3>1, <2>0, <1>4 DEF LedgerInv, InUse
    <2> QED
      BY <2>1, <2>2
  <1>8. FreshInv' /\ TakenInv'
    <2>1. \A c \in Cleaners : cpc'[c] # "free"
      BY <1>1 DEF IInv, LockInv, Active, Cleaners
    <2> QED
      BY <1>1, <2>1 DEF FreshInv, TakenInv
  <1> QED
    BY <1>6, <1>7, <1>8 DEF LedgerInv

(* A fragment is queued with no buffer recorded: its descriptor had none.  *)
LEMMA LedgerFrag ==
    ASSUME IInv, LedgerInv, XmitFrag
    PROVE  LedgerInv'
  <1>1. /\ xpc = "frags" /\ xpc' = "frags" /\ xi < xfrags
        /\ UNCHANGED <<dirty_tx, held, cpc, centry, cskb>>
        /\ cur_tx' = Unsigned(cur_tx + 1)
    BY DEF XmitFrag, cleaner
  <1>2. InFlight + 2 <= TxSize - 1 /\ InFlight \in Nat
    BY <1>1, StateFacts, WrapFacts, SizesAssumption
       DEF IInv, RoomInv, Owed, TypeOK
  <1>3. /\ InFlight' = InFlight + 1
        /\ Offset(Slot(cur_tx))' = InFlight + 1
        /\ \A i \in Slots : Offset(i)' = Offset(i)
    BY <1>1, <1>2, CurStep, WrapFacts, SizesAssumption DEF IInv
  <1>4. PICK e \in Slots : e = Slot(cur_tx)'
    BY <1>1, <1>2, CurStep, SlotAdvance, WrapFacts, SizesAssumption
       DEF IInv, Slot
  <1>5. Offset(e) = InFlight + 1
    <2>1. Offset(e)' = Offset(Slot(cur_tx))'
      BY <1>4 DEF Offset
    <2> QED
      BY <2>1, <1>3
  <1>6. Reserved = InFlight + 1 /\ Reserved' = InFlight + 2
    BY <1>1, <1>2, <1>3 DEF Reserved, Building
  <1>7. tx_skbuff' = tx_skbuff
    <2>1. tx_skbuff[e] = NoSkb
      BY <1>2, <1>5, <1>6 DEF LedgerInv, InUse
    <2>2. tx_skbuff' = [tx_skbuff EXCEPT ![e] = NoSkb]
      BY <1>4 DEF XmitFrag, Slot
    <2> QED
      BY <2>1, <2>2 DEF IInv, TypeOK
  <1>8. \A i \in Slots : Offset(i) < Reserved => Offset(i)' < Reserved'
    BY <1>2, <1>3, <1>6, OffsetFacts DEF IInv, Slots
  <1>9. Ledger(tx_skbuff, held)' /\ InUse'
    BY <1>1, <1>7, <1>8, BooksUntouched
  <1>10. FreshInv' /\ TakenInv'
    BY <1>1, <1>7 DEF LedgerInv, FreshInv, TakenInv
  <1> QED
    BY <1>9, <1>10 DEF LedgerInv

(* tx_clean frees the buffer of its entry and forgets it.                  *)
LEMMA LedgerFree ==
    ASSUME IInv, LedgerInv, NEW c \in Cleaners, CleanFree(c)
    PROVE  LedgerInv'
  <1>1. /\ cpc[c] = "free" /\ UNCHANGED <<cur_tx, xpc, xskb>>
        /\ dirty_tx' = Unsigned(dirty_tx + 1)
        /\ cpc' = [cpc EXCEPT ![c] = "loop"]
    BY DEF CleanFree, xlocals
  <1>2. PICK e \in Slots : e = centry[c]
    BY DEF IInv, TypeOK
  <1>3. dirty_tx # cur_tx /\ e = Slot(dirty_tx) /\ cskb[c] = tx_skbuff[e]
    BY <1>1, <1>2 DEF IInv, FreeInv, LedgerInv, TakenInv
  <1>4. tx_skbuff' = [tx_skbuff EXCEPT ![e] = NoSkb]
        /\ held' = held \ {tx_skbuff[e]}
    <2>1. tx_skbuff[e] = NoSkb => tx_skbuff = [tx_skbuff EXCEPT ![e] = NoSkb]
      BY DEF IInv, TypeOK
    <2> QED
      BY <1>2, <1>3, <2>1 DEF CleanFree
  <1>5. xpc \notin Building
    BY <1>1 DEF IInv, LockInv, Locked, Active, Building, Cleaners
  <1>6. /\ InFlight' = InFlight - 1 /\ InFlight \in Nat
        /\ \A i \in Slots :
             Offset(i)' = IF i = e THEN TxSize - 1 ELSE Offset(i) - 1
    BY <1>1, <1>3, DirtyStep, StateFacts, WrapFacts DEF IInv
  <1>7. Reserved = InFlight /\ Reserved' = InFlight - 1
    BY <1>1, <1>5, <1>6 DEF Reserved, Building
  <1>8. Ledger(tx_skbuff, held)'
    <2>1. Ledger([tx_skbuff EXCEPT ![e] = NoSkb], held \ {tx_skbuff[e]})
      BY LedgerClear DEF IInv, TypeOK, LedgerInv
    <2> QED
      BY <2>1, <1>4 DEF Ledger
  <1>9. InUse'
    <2> SUFFICES ASSUME NEW i \in Slots, tx_skbuff'[i] # NoSkb
                 PROVE  Offset(i)' < Reserved'
      BY DEF InUse
    <2>1. i # e /\ tx_skbuff[i] # NoSkb
      BY <1>4 DEF IInv, TypeOK
    <2>2. Offset(i) < Reserved /\ Offset(i) \in Nat
      BY <2>1, OffsetFacts DEF IInv, LedgerInv, InUse, Slots
    <2> QED
      BY <2>1, <2>2, <1>6, <1>7
  <1>10. FreshInv'
    BY <1>1, <1>4 DEF LedgerInv, FreshInv
  <1>11. TakenInv'
    <2>1. \A d \in Cleaners : cpc'[d] # "free"
      BY <1>1 DEF IInv, TypeOK, LockInv, Active, Cleaners
    <2> QED
      BY <2>1 DEF TakenInv
  <1> QED
    BY <1>8, <1>9, <1>10, <1>11 DEF LedgerInv

LEMMA LedgerNext ==
    ASSUME IInv, LedgerInv, [Next]_vars
    PROVE  LedgerInv'
  <1>a. ASSUME UNCHANGED <<cursors, book, xpc, xskb>>, TakenInv'
        PROVE  LedgerInv'
    <2>1. UNCHANGED <<tx_skbuff, held>>
      BY <1>a DEF book
    <2>2. Ledger(tx_skbuff, held)' /\ InUse'
      BY <1>a, <2>1, BooksUntouched, SameReserved
    <2>3. FreshInv'
      BY <1>a, <2>1 DEF LedgerInv, FreshInv
    <2> QED
      BY <1>a, <2>2, <2>3 DEF LedgerInv
  <1>b. ASSUME UNCHANGED <<tx_skbuff, cpc, centry, cskb>>
        PROVE  TakenInv'
    BY <1>b DEF LedgerInv, TakenInv
  <1>1. ASSUME NEW s \in Skbs, NEW n \in 0 .. MaxFrags,
               XmitAccept(s, n) \/ XmitFull(s, n)
        PROVE  LedgerInv'
    <2>1. /\ UNCHANGED <<cursors, book, cleaner>> /\ xpc = "idle"
          /\ xpc' \in {"lock", "full"} /\ s \notin held /\ xskb' = s
      BY <1>1 DEF XmitAccept, XmitFull, Call
    <2>2. UNCHANGED <<tx_skbuff, held, cpc, centry, cskb>>
      BY <2>1 DEF book, cleaner
    <2>3. Reserved' = Reserved
      BY <2>1, SameCursors DEF Reserved, Building
    <2>4. Ledger(tx_skbuff, held)' /\ InUse'
      BY <2>1, <2>2, <2>3, SameCursors, BooksUntouched
    <2>5. FreshInv' /\ TakenInv'
      BY <2>1, <2>2, <1>b DEF FreshInv
    <2> QED
      BY <2>4, <2>5 DEF LedgerInv
  <1>2. CASE XmitStep
    <2>1. CASE XmitBusy \/ XmitKick
      <3>1. /\ UNCHANGED <<cursors, book, cleaner>> /\ xpc \in {"full", "kick"}
            /\ xpc' = "idle"
        BY <2>1 DEF XmitBusy, XmitKick
      <3>2. UNCHANGED <<tx_skbuff, held, cpc, centry, cskb>>
        BY <3>1 DEF book, cleaner
      <3>3. Reserved' = Reserved
        BY <3>1, SameCursors DEF Reserved, Building
      <3>4. Ledger(tx_skbuff, held)' /\ InUse'
        BY <3>1, <3>2, <3>3, SameCursors, BooksUntouched
      <3> QED
        BY <3>1, <3>2, <3>4, <1>b DEF LedgerInv, FreshInv
    <2>2. CASE XmitClose \/ XmitHandOver
      <3>1. /\ UNCHANGED <<cursors, book, cleaner>>
            /\ xpc \in Building /\ xpc' \in Building /\ xpc' # "lock"
        BY <2>2 DEF XmitClose, XmitHandOver, Building
      <3>2. UNCHANGED <<tx_skbuff, held, cpc, centry, cskb>>
        BY <3>1 DEF book, cleaner
      <3>3. Reserved' = Reserved
        BY <3>1, SameCursors DEF Reserved
      <3>4. Ledger(tx_skbuff, held)' /\ InUse'
        BY <3>1, <3>2, <3>3, SameCursors, BooksUntouched
      <3> QED
        BY <3>1, <3>2, <3>4, <1>b DEF LedgerInv, FreshInv
    <2>3. CASE XmitPublish
      <3>1. /\ UNCHANGED <<dirty_tx, book, cleaner>> /\ xpc = "publish"
            /\ xpc' = "kick" /\ cur_tx' = Unsigned(cur_tx + 1)
        BY <2>3 DEF XmitPublish
      <3>2. UNCHANGED <<tx_skbuff, held, cpc, centry, cskb>>
        BY <3>1 DEF book, cleaner
      <3>3. InFlight < TxSize - 1 /\ InFlight \in Nat
        BY <3>1, StateFacts, WrapFacts DEF IInv, RoomInv, Owed
      <3>4. InFlight' = InFlight + 1 /\ \A i \in Slots : Offset(i)' = Offset(i)
        BY <3>1, <3>3, CurStep DEF IInv
      <3>5. Reserved' = Reserved
        BY <3>1, <3>4 DEF Reserved, Building
      <3>6. Ledger(tx_skbuff, held)' /\ InUse'
        BY <3>2, <3>4, <3>5, BooksUntouched
      <3> QED
        BY <3>1, <3>2, <3>6, <1>b DEF LedgerInv, FreshInv
    <2> QED
      BY <1>2, <2>1, <2>2, <2>3, LedgerFirst, LedgerFrag DEF XmitStep
  <1>3. ASSUME NEW c \in Cleaners, CleanStep(c)
        PROVE  LedgerInv'
    <2>1. CASE CleanLock(c) \/ CleanDone(c) \/ CleanWake(c) \/ CleanUnlock(c)
      <3>1. /\ UNCHANGED <<cursors, book, xpc, xlocals, centry, cskb>>
            /\ \A d \in Cleaners : cpc'[d] = "free" => cpc[d] = "free"
        BY <2>1 DEF CleanLock, CleanDone, CleanWake, CleanUnlock, IInv, TypeOK
      <3>2. UNCHANGED <<tx_skbuff, centry, cskb, xskb>>
        BY <3>1 DEF book, xlocals
      <3>3. TakenInv'
        BY <3>1, <3>2 DEF LedgerInv, TakenInv
      <3> QED
        BY <3>1, <3>2, <3>3, <1>a
    <2>2. CASE CleanTake(c)
      <3>1. UNCHANGED <<cursors, book, xpc, xlocals>>
        BY <2>2 DEF CleanTake
      <3>2. UNCHANGED <<tx_skbuff, xskb>>
        BY <3>1 DEF book, xlocals
      <3>3. TakenInv'
        BY <2>2, <3>2 DEF CleanTake, LedgerInv, TakenInv, IInv, TypeOK
      <3> QED
        BY <3>1, <3>2, <3>3, <1>a
    <2> QED
      BY <1>3, <2>1, <2>2, LedgerFree DEF CleanStep
  <1>4. CASE TxInterrupt \/ RxInterrupt \/ TimerFires
    <2>1. /\ UNCHANGED <<cursors, book, xpc, xlocals, centry, cskb>>
          /\ \A d \in Cleaners : cpc'[d] = "free" => cpc[d] = "free"
      BY <1>4 DEF TxInterrupt, RxInterrupt, TimerFires, IInv, TypeOK
    <2>2. UNCHANGED <<tx_skbuff, centry, cskb, xskb>>
      BY <2>1 DEF book, xlocals
    <2>3. TakenInv'
      BY <2>1, <2>2 DEF LedgerInv, TakenInv
    <2> QED
      BY <2>1, <2>2, <2>3, <1>a
  <1>5. CASE DmaSend \/ DmaSuspend \/ UNCHANGED vars
    <2>1. UNCHANGED <<cursors, book, xpc, xlocals, cleaner>>
      BY <1>5 DEF DmaSend, DmaSuspend, vars
    <2>2. UNCHANGED <<tx_skbuff, cpc, centry, cskb, xskb>>
      BY <2>1 DEF book, cleaner, xlocals
    <2> QED
      BY <2>1, <2>2, <1>a, <1>b
  <1> QED
    BY <1>1, <1>2, <1>3, <1>4, <1>5 DEF Next

(* The socket buffers the driver must free are those it has recorded in    *)
(* the ring, each at one descriptor in use: stmmac_xmit never overwrites a *)
(* record and tx_clean frees every buffer once.                            *)
THEOREM BuffersAccounted == Spec => []SkbLedger
  <1>1. Init => LedgerInv
    BY DEF Init, LedgerInv, Ledger, InUse, FreshInv, TakenInv, Cleaners
  <1>2. IInv /\ LedgerInv /\ [Next]_vars => LedgerInv'
    BY LedgerNext
  <1>3. LedgerInv => SkbLedger
    BY DEF LedgerInv, Ledger, InUse, SkbLedger
  <1> QED
    BY <1>1, <1>2, <1>3, Inductive, PTL DEF Spec

-----------------------------------------------------------------------------
(* The buffer of a frame whose first segment is still to be read.          *)

(* It is recorded at the first descriptor.                                 *)
HeadInv ==
    \A i \in Slots : (own[i] \/ Unready(i)) /\ seg[i].k = 0
                       => tx_skbuff[i] = seg[i].skb /\ seg[i].skb # NoSkb

(* Steps that give no descriptor away and leave the books alone.           *)
LEMMA HeadSame ==
    ASSUME HeadInv, UNCHANGED <<seg, tx_skbuff>>,
           \A i \in Slots : own'[i] \/ Unready(i)' => own[i] \/ Unready(i)
    PROVE  HeadInv'
  BY DEF HeadInv

(* The first descriptor of a frame is prepared.                            *)
LEMMA HeadFirst ==
    ASSUME IInv, HeadInv, XmitFirst
    PROVE  HeadInv'
  <1>1. PICK e \in Slots : e = Slot(cur_tx)
    BY StateFacts DEF IInv
  <1>2. /\ own' = own /\ xpc = "lock" /\ xfirst' = e
        /\ tx_skbuff' = [tx_skbuff EXCEPT ![e] = xskb]
        /\ seg' = [seg EXCEPT ![e] = [skb |-> xskb, k |-> 0, n |-> xfrags]]
    BY <1>1 DEF XmitFirst
  <1>3. xskb # NoSkb
    BY <1>2, SizesAssumption DEF IInv, CallInv
  <1> SUFFICES ASSUME NEW i \in Slots, own'[i] \/ Unready(i)', seg'[i].k = 0
               PROVE  tx_skbuff'[i] = seg'[i].skb /\ seg'[i].skb # NoSkb
    BY DEF HeadInv
  <1>4. CASE i = e
    BY <1>2, <1>3, <1>4 DEF IInv, TypeOK
  <1>5. CASE i # e
    BY <1>2, <1>5 DEF HeadInv, Unready, IInv, TypeOK
  <1> QED
    BY <1>4, <1>5

(* A fragment is no first segment.                                         *)
LEMMA HeadFrag ==
    ASSUME IInv, HeadInv, XmitFrag
    PROVE  HeadInv'
  <1>1. /\ UNCHANGED <<xpc, xfirst>> /\ xi \in Nat
        /\ cur_tx' = Unsigned(cur_tx + 1)
    BY DEF XmitFrag, IInv, TypeOK
  <1>2. PICK e \in Slots : e = Slot(cur_tx')
    BY <1>1, Increment, SlotAdvance DEF IInv, TypeOK
  <1>3. /\ own' = [own EXCEPT ![e] = TRUE]
        /\ tx_skbuff' = [tx_skbuff EXCEPT ![e] = NoSkb]
        /\ seg' = [seg EXCEPT ![e] = [skb |-> xskb, k |-> xi + 1, n |-> xfrags]]
    BY <1>2 DEF XmitFrag
  <1> SUFFICES ASSUME NEW i \in Slots, own'[i] \/ Unready(i)', seg'[i].k = 0
               PROVE  tx_skbuff'[i] = seg'[i].skb /\ seg'[i].skb # NoSkb
    BY DEF HeadInv
  <1>4. i # e
    BY <1>1, <1>3 DEF IInv, TypeOK
  <1> QED
    BY <1>1, <1>3, <1>4 DEF HeadInv, Unready, IInv, TypeOK

(* tx_clean clears the record of a descriptor that is not the DMA's.       *)
LEMMA HeadFree ==
    ASSUME IInv, HeadInv, NEW c \in Cleaners, CleanFree(c)
    PROVE  HeadInv'
  <1>1. PICK e \in Slots : e = centry[c]
    BY DEF IInv, TypeOK
  <1>2. /\ cpc[c] = "free" /\ xpc' = xpc
        /\ own' = [own EXCEPT ![e] = FALSE]
        /\ seg' = [seg EXCEPT ![e] = NoSeg]
        /\ \/ tx_skbuff' = tx_skbuff
           \/ tx_skbuff' = [tx_skbuff EXCEPT ![e] = NoSkb]
    BY <1>1 DEF CleanFree
  <1>3. \A i \in Slots : ~Unready(i)'
    BY <1>2 DEF IInv, LockInv, Locked, Active, Cleaners, Unready
  <1> SUFFICES ASSUME NEW i \in Slots, own'[i] \/ Unready(i)', seg'[i].k = 0
               PROVE  tx_skbuff'[i] = seg'[i].skb /\ seg'[i].skb # NoSkb
    BY DEF HeadInv
  <1>4. i # e /\ own[i]
    BY <1>2, <1>3 DEF IInv, TypeOK
  <1> QED
    BY <1>2, <1>4 DEF HeadInv, IInv, TypeOK

LEMMA HeadNext ==
    ASSUME IInv, HeadInv, [Next]_vars
    PROVE  HeadInv'
  <1>a. ASSUME UNCHANGED <<descs, book, xpc, xfirst>>
        PROVE  HeadInv'
    BY <1>a, HeadSame DEF descs, book, Unready
  <1>1. ASSUME NEW s \in Skbs, NEW n \in 0 .. MaxFrags,
               XmitAccept(s, n) \/ XmitFull(s, n)
        PROVE  HeadInv'
    <2>1. UNCHANGED <<descs, book>> /\ xpc' \notin {"frags", "handover"}
      BY <1>1 DEF XmitAccept, XmitFull
    <2> QED
      BY <2>1, HeadSame DEF descs, book, Unready
  <1>2. CASE XmitStep
    <2>1. CASE XmitBusy \/ XmitPublish \/ XmitKick
      <3>1. UNCHANGED <<descs, book>> /\ xpc' \notin {"frags", "handover"}
        BY <2>1 DEF XmitBusy, XmitPublish, XmitKick
      <3> QED
        BY <3>1, HeadSame DEF descs, book, Unready
    <2>2. CASE XmitClose
      BY <2>2, HeadSame DEF XmitClose, book, xlocals, Unready
    <2>3. CASE XmitHandOver
      <3>1. /\ UNCHANGED <<seg, tx_skbuff, xfirst>> /\ xpc = "handover"
            /\ own' = [own EXCEPT ![xfirst] = TRUE] /\ xpc' = "publish"
        BY <2>3 DEF XmitHandOver, book, xlocals
      <3>2. \A i \in Slots : own'[i] \/ Unready(i)' => own[i] \/ Unready(i)
        BY <3>1 DEF Unready, IInv, TypeOK
      <3> QED
        BY <3>1, <3>2, HeadSame
    <2> QED
      BY <1>2, <2>1, <2>2, <2>3, HeadFirst, HeadFrag DEF XmitStep
  <1>3. ASSUME NEW c \in Cleaners, CleanStep(c)
        PROVE  HeadInv'
    <2>1. CASE CleanLock(c) \/ CleanTake(c) \/ CleanDone(c) \/ CleanWake(c)
               \/ CleanUnlock(c)
      <3>1. UNCHANGED <<descs, book, xpc, xlocals>>
        BY <2>1 DEF CleanLock, CleanTake, CleanDone, CleanWake, CleanUnlock
      <3> QED
        BY <3>1, <1>a DEF xlocals
    <2> QED
      BY <1>3, <2>1, HeadFree DEF CleanStep
  <1>4. CASE TxInterrupt \/ RxInterrupt \/ TimerFires \/ DmaSuspend
             \/ UNCHANGED vars
    <2>1. UNCHANGED <<descs, book, xpc, xlocals>>
      BY <1>4 DEF TxInterrupt, RxInterrupt, TimerFires, DmaSuspend, vars
    <2> QED
      BY <2>1, <1>a DEF xlocals
  <1>5. CASE DmaSend
    <2>1. /\ UNCHANGED <<seg, tx_skbuff, xpc, xfirst>>
          /\ own' = [own EXCEPT ![dmaIdx] = FALSE]
      BY <1>5 DEF DmaSend, book, xlocals
    <2>2. \A i \in Slots : own'[i] \/ Unready(i)' => own[i] \/ Unready(i)
      BY <2>1 DEF Unready, IInv, TypeOK
    <2> QED
      BY <2>1, <2>2, HeadSame
  <1> QED
    BY <1>1, <1>2, <1>3, <1>4, <1>5 DEF Next

(* HeadInv, with the books it is read in.                                  *)
LEMMA HeadInductive == Spec => [](IInv /\ LedgerInv /\ HeadInv)
  <1>1. Init => LedgerInv /\ HeadInv
    BY DEF Init, LedgerInv, Ledger, InUse, FreshInv, TakenInv, Cleaners,
           HeadInv, Unready
  <1>2. IInv /\ LedgerInv /\ HeadInv /\ [Next]_vars => LedgerInv' /\ HeadInv'
    BY LedgerNext, HeadNext
  <1> QED
    BY <1>1, <1>2, Inductive, PTL DEF Spec

(* A buffer the DMA may be given is still the driver's.                    *)
LEMMA HeadHeld ==
    ASSUME LedgerInv, HeadInv, NEW i \in Slots, own[i], seg[i].k = 0
    PROVE  seg[i].skb \in held
  <1>1. tx_skbuff[i] = seg[i].skb /\ seg[i].skb # NoSkb
    BY DEF HeadInv
  <1> QED
    BY <1>1 DEF LedgerInv, Ledger

(* tx_clean frees no socket buffer whose first segment the DMA has still   *)
(* to read.                                                                *)
THEOREM HeadsAreLive == Spec => []HeadLive
  <1>1. LedgerInv /\ HeadInv => HeadLive
    BY HeadHeld DEF HeadLive
  <1> QED
    BY <1>1, HeadInductive, PTL

(* What is wrong with BufferLive is the fragments alone: on a device that  *)
(* is given no fragmented buffers tx_clean frees none the DMA may read.    *)
THEOREM UnfragmentedLive ==
    ASSUME MaxFrags = 0
    PROVE  Spec => []BufferLive
  <1>1. IInv /\ LedgerInv /\ HeadInv => BufferLive
    <2> SUFFICES ASSUME IInv, LedgerInv, HeadInv, NEW i \in Slots, own[i]
                 PROVE  seg[i].skb \in held
      BY DEF BufferLive
    <2>1. seg[i].k = 0
      BY DEF IInv, TypeOK, Segments
    <2> QED
      BY <2>1, HeadHeld
  <1> QED
    BY <1>1, HeadInductive, PTL

===============================================================================
