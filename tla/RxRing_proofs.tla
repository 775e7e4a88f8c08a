---------------------------- MODULE RxRing_proofs ----------------------------
(***************************************************************************)
(* Proofs about RxRing, for every ring size, limit and pattern of failing  *)
(* allocations: the DMA only writes to buffers the driver holds, no buffer *)
(* goes up the stack in which nothing was received, and the ring is the    *)
(* queue of RxQueue.                                                       *)
(***************************************************************************)
EXTENDS RxRing, Counters, FiniteSetTheorems, SequenceTheorems, TLAPS

LEMMA RingFacts ==
    /\ Wrap \in Nat \ {0}
    /\ \A x \in Int : Unsigned(x) \in Count
    /\ \A c \in Count : Slot(c) \in Slots
    /\ \A i \in Slots : Succ(i) \in Slots
    /\ 0 \in Count /\ 0 \in Slots
  <1>1. Wrap \in Nat \ {0}
    BY RxAssumption DEF Wrap
  <1>2. \A x \in Int : Unsigned(x) \in Count
    BY <1>1 DEF Unsigned, Count
  <1>3. \A c \in Count : Slot(c) \in Slots
    BY <1>1, RxAssumption DEF Slot, Slots, Count
  <1>4. \A i \in Slots : Succ(i) \in Slots
    BY RxAssumption DEF Succ, Slots
  <1>5. 0 \in Count /\ 0 \in Slots
    BY <1>1, RxAssumption DEF Count, Slots
  <1> QED
    BY <1>1, <1>2, <1>3, <1>4, <1>5

(* The DMA's descriptors have buffers; the frame in hand is not the DMA's; *)
(* the descriptor about to be given away has a buffer.                     *)
BufferInv ==
    /\ \A i \in Slots : own[i] => rx_skbuff[i]
    /\ pc = "frame" => ~own[entry]
    /\ pc = "give" => rx_skbuff[Slot(dirty_rx)]

(* A buffer the driver holds and the DMA does not own has been filled,     *)
(* except the one the refill is about to give away.                        *)
FilledInv ==
    \A i \in Slots :
        ~own[i] /\ rx_skbuff[i] /\ ~(pc = "give" /\ i = Slot(dirty_rx))
          => data[i] # NoFrame

LEMMA InitTypeOK == Init => TypeOK
  <1> SUFFICES ASSUME Init
               PROVE  TypeOK
    OBVIOUS
  <1>1. cur_rx \in Count /\ dirty_rx \in Count /\ dmaIdx \in Slots
        /\ entry \in Slots
    BY RingFacts DEF Init, InitBuffers, ClearDescriptors
  <1>2. count \in 0 .. Budget
    BY RxAssumption DEF Init, InitBuffers, ClearDescriptors
  <1>3. quiet \in BOOLEAN /\ ri \in BOOLEAN
    BY Zenon DEF Init, InitBuffers, ClearDescriptors
  <1>4. /\ rx_skbuff \in [Slots -> BOOLEAN]
        /\ own \in [Slots -> BOOLEAN]
        /\ data \in [Slots -> Frames \cup {Bad, NoFrame}]
    BY DEF Init, InitBuffers, ClearDescriptors
  <1>5. /\ pc \in {"idle", "loop", "frame", "refill", "give", "enable"}
        /\ up \in Frames \cup {NoFrame}
    BY DEF Init, InitBuffers, ClearDescriptors
  <1> QED
    BY <1>1, <1>2, <1>3, <1>4, <1>5 DEF TypeOK

LEMMA NextTypeOK ==
    ASSUME TypeOK, [Next]_vars
    PROVE  TypeOK'
  <1> USE RingFacts, RxAssumption DEF TypeOK, ring
  <1>a. cur_rx + 1 \in Int /\ dirty_rx + 1 \in Int
    BY DEF Count
  <1>1. ASSUME NEW f \in Frames \cup {Bad}, DmaStore(f)
        PROVE  TypeOK'
    BY <1>1 DEF DmaStore
  <1>2. CASE Watchdog
    BY <1>2 DEF Watchdog
  <1>3. CASE IrqEnter
    <2>1. ri' \in BOOLEAN
      BY <1>3, Zenon DEF IrqEnter
    <2>2. pc' = "loop" /\ count' \in 0 .. Budget
      BY <1>3 DEF IrqEnter
    <2>3. UNCHANGED <<cur_rx, dirty_rx, rx_skbuff, own, data, dmaIdx, quiet,
                      entry, up>>
      BY <1>3 DEF IrqEnter
    <2> QED
      BY <2>1, <2>2, <2>3
  <1>4. CASE IrqEnterTx
    <2>1. ri' \in BOOLEAN
      BY <1>4, Zenon DEF IrqEnterTx
    <2>2. pc' = "loop" /\ count' \in 0 .. Budget
      BY <1>4 DEF IrqEnterTx
    <2>3. UNCHANGED <<cur_rx, dirty_rx, rx_skbuff, own, data, dmaIdx, quiet,
                      entry, up>>
      BY <1>4 DEF IrqEnterTx
    <2> QED
      BY <2>1, <2>2, <2>3
  <1>5. CASE Handler
    <2>1. CASE RxTake
      BY <2>1, <1>a DEF RxTake
    <2>2. CASE RxDiscard
      BY <2>2 DEF RxDiscard
    <2>3. CASE RxDeliver
      BY <2>3 DEF RxDeliver
    <2>4. CASE RxNoBuffer
      BY <2>4 DEF RxNoBuffer
    <2>5. CASE RxDone
      BY <2>5 DEF RxDone
    <2>6. CASE RefillAlloc
      BY <2>6 DEF RefillAlloc
    <2>7. CASE RefillFail
      BY <2>7 DEF RefillFail
    <2>8. CASE RefillKeep
      BY <2>8 DEF RefillKeep
    <2>9. CASE RefillGive
      BY <2>9, <1>a DEF RefillGive
    <2>10. CASE RefillDone
      BY <2>10 DEF RefillDone
    <2>11. CASE IrqExit
      BY <2>11 DEF IrqExit
    <2> QED
      BY <1>5, <2>1, <2>2, <2>3, <2>4, <2>5, <2>6, <2>7, <2>8, <2>9, <2>10,
         <2>11 DEF Handler
  <1>6. CASE UNCHANGED vars
    BY <1>6 DEF vars
  <1> QED
    BY <1>1, <1>2, <1>3, <1>4, <1>5, <1>6 DEF Next

(* One step of BufferInv and FilledInv for each action.                    *)
LEMMA NextBuffer ==
    ASSUME TypeOK, TypeOK', BufferInv, FilledInv, [Next]_vars
    PROVE  BufferInv' /\ FilledInv'
  <1> USE RingFacts, RxAssumption DEF TypeOK, BufferInv, FilledInv, ring
  <1>1. ASSUME NEW f \in Frames \cup {Bad}, DmaStore(f)
        PROVE  BufferInv' /\ FilledInv'
    BY <1>1 DEF DmaStore
  <1>2. CASE Watchdog
    BY <1>2 DEF Watchdog
  <1>3. CASE IrqEnter
    BY <1>3 DEF IrqEnter
  <1>4. CASE IrqEnterTx
    BY <1>4 DEF IrqEnterTx
  <1>5. CASE Handler
    <2>1. CASE RxTake
      BY <2>1 DEF RxTake
    <2>2. CASE RxDiscard
      BY <2>2 DEF RxDiscard
    <2>3. CASE RxDeliver
      BY <2>3 DEF RxDeliver
    <2>4. CASE RxNoBuffer
      BY <2>4 DEF RxNoBuffer
    <2>5. CASE RxDone
      BY <2>5 DEF RxDone
    <2>6. CASE RefillAlloc
      BY <2>6 DEF RefillAlloc
    <2>7. CASE RefillFail
      BY <2>7 DEF RefillFail
    <2>8. CASE RefillKeep
      BY <2>8 DEF RefillKeep
    <2>9. CASE RefillGive
      BY <2>9 DEF RefillGive
    <2>10. CASE RefillDone
      BY <2>10 DEF RefillDone
    <2>11. CASE IrqExit
      BY <2>11 DEF IrqExit
    <2> QED
      BY <1>5, <2>1, <2>2, <2>3, <2>4, <2>5, <2>6, <2>7, <2>8, <2>9, <2>10,
         <2>11 DEF Handler
  <1>6. CASE UNCHANGED vars
    BY <1>6 DEF vars
  <1> QED
    BY <1>1, <1>2, <1>3, <1>4, <1>5, <1>6 DEF Next

RxInv == TypeOK /\ BufferInv /\ FilledInv

LEMMA Inductive == Spec => []RxInv
  <1>1. Init => RxInv
    BY InitTypeOK DEF Init, InitBuffers, ClearDescriptors, RxInv, BufferInv,
                       FilledInv
  <1>2. RxInv /\ [Next]_vars => RxInv'
    BY NextTypeOK, NextBuffer DEF RxInv
  <1> QED
    BY <1>1, <1>2, PTL DEF Spec

(* Every variable of the receive path keeps its type, the cursors across   *)
(* their wrap and the loop counter of stmmac_rx within its limit.          *)
THEOREM TypeCorrect == Spec => []TypeOK
  <1>1. RxInv => TypeOK
    BY DEF RxInv
  <1> QED
    BY <1>1, Inductive, PTL

(* The DMA never owns a descriptor without a socket buffer, whichever      *)
(* allocations of stmmac_rx_refill fail.                                   *)
THEOREM DmaAlwaysHasBuffer == Spec => []DmaHasBuffer
  <1>1. RxInv => DmaHasBuffer
    BY DEF RxInv, BufferInv, DmaHasBuffer
  <1> QED
    BY <1>1, Inductive, PTL

(* stmmac_rx never gives a buffer to the stack in which nothing was        *)
(* received, whichever allocations fail.                                   *)
THEOREM OnlyFilledDelivered == Spec => []NoEmptyFrame
  <1>1. RxInv => NoEmptyFrame
    BY DEF RxInv, TypeOK, BufferInv, FilledInv, NoEmptyFrame
  <1> QED
    BY <1>1, Inductive, PTL

-----------------------------------------------------------------------------
(* How far cur_rx runs ahead of dirty_rx.                                  *)

(* The counters wrap at a multiple of the ring size, at least twice it.    *)
LEMMA WrapFacts ==
    /\ Wrap \in Nat \ {0, 1}
    /\ 2 * RxSize <= Wrap
    /\ RxSize \in Nat \ {0}
    /\ (Wrap - 1) % RxSize = RxSize - 1
  BY MultipleFacts, RxAssumption DEF Wrap

(* The distance of two counters, without the modulus.                      *)
LEMMA Distance ==
    ASSUME NEW c \in Count, NEW d \in Count
    PROVE  /\ Unsigned(c - d) = (IF c >= d THEN c - d ELSE c - d + Wrap)
           /\ Unsigned(c - d) \in Count
           /\ Unsigned(c - d) = 0 <=> c = d
  BY WrapFacts, CounterDistance DEF Count, Unsigned

(* Incrementing cur_rx adds one descriptor to refill.                      *)
LEMMA Advance ==
    ASSUME NEW c \in Count, NEW d \in Count, Unsigned(c - d) < RxSize
    PROVE  Unsigned(Unsigned(c + 1) - d) = Unsigned(c - d) + 1
  <1>1. Wrap \in Nat \ {0, 1} /\ c \in 0 .. Wrap - 1 /\ d \in 0 .. Wrap - 1
        /\ (c - d) % Wrap < Wrap - 1
    BY WrapFacts DEF Count, Unsigned
  <1> QED
    BY <1>1, CounterAdvance, Zenon DEF Unsigned

(* Incrementing dirty_rx takes one away.                                   *)
LEMMA Retire ==
    ASSUME NEW c \in Count, NEW d \in Count, c # d
    PROVE  Unsigned(c - Unsigned(d + 1)) = Unsigned(c - d) - 1
  <1>1. Wrap \in Nat \ {0, 1} /\ c \in 0 .. Wrap - 1 /\ d \in 0 .. Wrap - 1
    BY WrapFacts DEF Count, Unsigned
  <1> QED
    BY <1>1, CounterRetire DEF Unsigned

(* The ring index of an incremented counter is the next descriptor.        *)
LEMMA SlotAdvance ==
    ASSUME NEW c \in Count
    PROVE  /\ Unsigned(c + 1) \in Count
           /\ Slot(c) \in Slots
           /\ Slot(Unsigned(c + 1)) = Succ(Slot(c))
  BY WrapFacts, CounterSlot, CounterIncrement
     DEF Count, Unsigned, Slot, Slots, Succ

(* Position of descriptor i counted from the oldest one to refill.         *)
Offset(i) == IF i >= Slot(dirty_rx) THEN i - Slot(dirty_rx)
             ELSE i - Slot(dirty_rx) + RxSize

LEMMA OffsetFacts ==
    ASSUME TypeOK, NEW i \in Slots
    PROVE  /\ Offset(i) \in Slots
           /\ \A j \in Slots : Offset(i) = Offset(j) => i = j
           /\ Offset(i) < RxSize - 1 => Offset(Succ(i)) = Offset(i) + 1
           /\ Offset(i) = RxSize - 1 => Succ(i) = Slot(dirty_rx)
  <1>1. PICK b \in Slots : b = Slot(dirty_rx)
    BY SlotAdvance DEF TypeOK
  <1>2. \A j \in Slots : Offset(j) = IF j >= b THEN j - b ELSE j - b + RxSize
    BY <1>1 DEF Offset
  <1>3. /\ RxSize \in Nat \ {0} /\ b \in 0 .. RxSize - 1
        /\ Slots = 0 .. RxSize - 1
        /\ Succ(i) = IF i = RxSize - 1 THEN 0 ELSE i + 1
    BY WrapFacts DEF Slots, Succ
  <1>4. Succ(i) \in Slots
    BY <1>3
  <1>5. Offset(i) \in Slots /\ \A j \in Slots : Offset(i) = Offset(j) => i = j
    BY <1>2, <1>3
  <1>6. Offset(i) < RxSize - 1 => Offset(Succ(i)) = Offset(i) + 1
    BY <1>2, <1>3, <1>4
  <1>7. Offset(i) = RxSize - 1 => Succ(i) = b
    BY <1>2, <1>3
  <1> QED
    BY <1>1, <1>5, <1>6, <1>7

(* stmmac_rx starts with at most Starve descriptors to refill and takes    *)
(* one more for each turn of its loop.                                     *)
AheadInv ==
    /\ Used <= RxSize
    /\ pc \in {"idle", "enable"} => Used <= Starve
    /\ pc \in {"loop", "frame"} => Used <= Starve + count
    /\ pc = "frame" => Used > 0
    /\ pc = "give" => Used > 0

(* cur_rx is that far behind dirty_rx in the ring; the descriptors to      *)
(* refill are the only ones without a buffer.                              *)
AheadPos ==
    /\ Used = RxSize => Slot(cur_rx) = Slot(dirty_rx)
    /\ Used < RxSize => Offset(Slot(cur_rx)) = Used
    /\ \A i \in Slots : ~rx_skbuff[i] => Offset(i) < Used
    /\ pc = "frame" => rx_skbuff[entry] /\ Offset(entry) < Used

ChainInv == AheadInv /\ AheadPos

(* Steps that move neither counter.                                        *)
LEMMA SameCursors ==
    ASSUME UNCHANGED <<cur_rx, dirty_rx>>
    PROVE  /\ Used' = Used
           /\ Slot(cur_rx)' = Slot(cur_rx)
           /\ Slot(dirty_rx)' = Slot(dirty_rx)
           /\ \A i : Offset(i)' = Offset(i)
  BY DEF Used, Offset, Slot, Unsigned

(* stmmac_rx takes a descriptor that has a buffer.                         *)
LEMMA ChainTake ==
    ASSUME Starve + Budget <= RxSize, TypeOK, ChainInv, RxTake
    PROVE  ChainInv'
  <1>1. /\ pc = "loop" /\ pc' = "frame" /\ count < Budget /\ count' = count + 1
        /\ entry' = Slot(cur_rx) /\ cur_rx' = Unsigned(cur_rx + 1)
        /\ UNCHANGED <<dirty_rx, rx_skbuff>>
    BY DEF RxTake, ring
  <1>2. Used < RxSize /\ Used \in Nat /\ count \in Nat /\ Starve \in Nat
    BY <1>1, Distance, WrapFacts, RxAssumption
       DEF ChainInv, AheadInv, TypeOK, Used, Count
  <1>3. Used' = Used + 1
    BY <1>1, <1>2, Advance DEF TypeOK, Used
  <1>4. Slot(cur_rx)' = Succ(Slot(cur_rx)) /\ Slot(cur_rx) \in Slots
    BY <1>1, SlotAdvance DEF TypeOK, Slot
  <1>5. \A i : Offset(i)' = Offset(i)
    BY <1>1 DEF Offset, Slot
  <1>6. Offset(Slot(cur_rx)) = Used
    BY <1>2 DEF ChainInv, AheadPos
  <1>7. AheadInv'
    BY <1>1, <1>2, <1>3, WrapFacts DEF ChainInv, AheadInv
  <1>8. Used' < RxSize => Offset(Slot(cur_rx))' = Used'
    <2> SUFFICES ASSUME Used' < RxSize
                 PROVE  Offset(Slot(cur_rx))' = Used'
      OBVIOUS
    <2>1. Offset(Succ(Slot(cur_rx))) = Used + 1
      BY <1>2, <1>3, <1>4, <1>6, OffsetFacts, WrapFacts
    <2>2. Offset(Slot(cur_rx))' = Offset(Succ(Slot(cur_rx)))
      BY <1>1, <1>4 DEF Offset, Slot
    <2> QED
      BY <2>1, <2>2, <1>3
  <1>9. Used' = RxSize => Slot(cur_rx)' = Slot(dirty_rx)'
    <2>1. Slot(dirty_rx)' = Slot(dirty_rx)
      BY <1>1 DEF Slot
    <2> QED
      BY <2>1, <1>2, <1>3, <1>4, <1>6, OffsetFacts, WrapFacts
  <1>10. \A i \in Slots : ~rx_skbuff'[i] => Offset(i)' < Used'
    BY <1>1, <1>2, <1>3, <1>5, OffsetFacts, WrapFacts
       DEF ChainInv, AheadPos, Slots
  <1>11. rx_skbuff'[entry'] /\ Offset(entry)' < Used'
    <2>1. rx_skbuff[Slot(cur_rx)]
      BY <1>2, <1>4, <1>6 DEF ChainInv, AheadPos
    <2>2. Offset(entry)' = Used
      BY <1>1, <1>6 DEF Offset, Slot
    <2> QED
      BY <2>1, <2>2, <1>1, <1>2, <1>3
  <1> QED
    BY <1>7, <1>8, <1>9, <1>10, <1>11 DEF ChainInv, AheadPos

(* A refilled descriptor goes back to the DMA.                             *)
LEMMA ChainGive ==
    ASSUME TypeOK, BufferInv, ChainInv, RefillGive
    PROVE  ChainInv'
  <1>1. /\ pc = "give" /\ pc' = "refill" /\ dirty_rx' = Unsigned(dirty_rx + 1)
        /\ UNCHANGED <<cur_rx, rx_skbuff>>
    BY DEF RefillGive
  <1>2. PICK e \in Slots : e = Slot(dirty_rx)
    BY SlotAdvance DEF TypeOK
  <1>3. rx_skbuff[e] /\ Used \in Nat /\ Used > 0 /\ cur_rx # dirty_rx /\ Used <= RxSize
    BY <1>1, <1>2, Distance, WrapFacts
       DEF BufferInv, ChainInv, AheadInv, TypeOK, Used, Count
  <1>4. Used' = Used - 1
    BY <1>1, <1>3, Retire DEF TypeOK, Used
  <1>5. Slot(dirty_rx)' = Succ(e) /\ Slot(cur_rx)' = Slot(cur_rx)
        /\ Slot(cur_rx) \in Slots
    BY <1>1, <1>2, SlotAdvance DEF TypeOK, Slot
  <1>6. \A i \in Slots :
          /\ Offset(i)' = IF i = e THEN RxSize - 1 ELSE Offset(i) - 1
          /\ Offset(i) \in Nat
          /\ Offset(i) = 0 <=> i = e
    <2> SUFFICES ASSUME NEW i \in Slots
                 PROVE  /\ Offset(i)' = IF i = e THEN RxSize - 1 ELSE Offset(i) - 1
                        /\ Offset(i) \in Nat
                        /\ Offset(i) = 0 <=> i = e
      OBVIOUS
    <2>1. /\ Offset(i) = IF i >= e THEN i - e ELSE i - e + RxSize
          /\ Offset(i)' = IF i >= Succ(e) THEN i - Succ(e)
                          ELSE i - Succ(e) + RxSize
      BY <1>2, <1>5 DEF Offset
    <2>2. /\ RxSize \in Nat \ {0} /\ Slots = 0 .. RxSize - 1
          /\ Succ(e) = IF e = RxSize - 1 THEN 0 ELSE e + 1
      BY WrapFacts DEF Slots, Succ
    <2> QED
      BY <2>1, <2>2
  <1>7. Offset(Slot(cur_rx))' = IF Slot(cur_rx) = e THEN RxSize - 1
                                ELSE Offset(Slot(cur_rx)) - 1
    <2> PICK b \in Slots : b = Slot(cur_rx)
      BY <1>5
    <2>1. Offset(Slot(cur_rx))' = Offset(b)'
      BY <1>5 DEF Offset
    <2> QED
      BY <2>1, <1>6
  <1>8. Used' < RxSize /\ Offset(Slot(cur_rx))' = Used'
    <2>1. CASE Used = RxSize
      BY <2>1, <1>2, <1>4, <1>7, WrapFacts DEF ChainInv, AheadPos
    <2>2. CASE Used < RxSize
      BY <2>2, <1>3, <1>4, <1>5, <1>6, <1>7, WrapFacts DEF ChainInv, AheadPos
    <2> QED
      BY <2>1, <2>2, <1>3, WrapFacts
  <1>9. \A i \in Slots : ~rx_skbuff'[i] => Offset(i)' < Used'
    BY <1>1, <1>3, <1>4, <1>6 DEF ChainInv, AheadPos
  <1>10. AheadInv'
    BY <1>1, <1>3, <1>4, WrapFacts DEF ChainInv, AheadInv
  <1> QED
    BY <1>1, <1>8, <1>9, <1>10, WrapFacts DEF ChainInv, AheadPos

LEMMA ChainNext ==
    ASSUME Starve + Budget <= RxSize, RxInv, ChainInv, [Next]_vars
    PROVE  ChainInv'
  <1>t. /\ TypeOK /\ BufferInv /\ Used \in Nat /\ count \in 0 .. Budget
        /\ Budget \in Nat /\ Starve \in Nat /\ RxSize \in Nat
        /\ (Used = 0 <=> cur_rx = dirty_rx)
    <2>1. TypeOK /\ BufferInv /\ count \in 0 .. Budget
      BY DEF RxInv, TypeOK
    <2>2. Used \in Count /\ (Used = 0 <=> cur_rx = dirty_rx)
      BY <2>1, Distance DEF TypeOK, Used
    <2>3. Used \in Nat
      BY <2>2, WrapFacts DEF Count
    <2> QED
      BY <2>1, <2>2, <2>3, RxAssumption
  <1>a. ASSUME UNCHANGED <<cur_rx, dirty_rx, rx_skbuff, entry>>,
               pc' = "frame" => pc = "frame", AheadInv'
        PROVE  ChainInv'
    BY <1>a, SameCursors DEF ChainInv, AheadPos
  <1>1. CASE (\E f \in Frames \cup {Bad} : DmaStore(f)) \/ Watchdog \/ UNCHANGED vars
    <2>1. UNCHANGED <<cur_rx, dirty_rx, rx_skbuff, entry, pc, count>>
      BY <1>1 DEF DmaStore, Watchdog, vars, ring
    <2>2. AheadInv'
      BY <2>1, SameCursors DEF ChainInv, AheadInv
    <2> QED
      BY <2>1, <2>2, <1>a
  <1>2. CASE IrqEnter \/ IrqEnterTx
    <2>1. /\ UNCHANGED <<cur_rx, dirty_rx, rx_skbuff, entry>>
          /\ pc = "idle" /\ pc' = "loop" /\ count' = 0
      BY <1>2 DEF IrqEnter, IrqEnterTx, ring
    <2>2. AheadInv'
      BY <2>1, <1>t, SameCursors DEF ChainInv, AheadInv
    <2> QED
      BY <2>1, <2>2, <1>a
  <1>3. CASE RxDiscard \/ RxDone \/ RxNoBuffer
    <2>1. /\ UNCHANGED <<cur_rx, dirty_rx, rx_skbuff, entry, count>>
          /\ \/ pc = "frame" /\ pc' = "loop"
             \/ pc \in {"loop", "frame"} /\ pc' = "refill"
      BY <1>3 DEF RxDiscard, RxDone, RxNoBuffer, ring
    <2>2. AheadInv'
      BY <2>1, SameCursors DEF ChainInv, AheadInv
    <2> QED
      BY <2>1, <2>2, <1>a
  <1>4. CASE RxDeliver
    <2>1. /\ UNCHANGED <<cur_rx, dirty_rx, entry, count>>
          /\ pc = "frame" /\ pc' = "loop"
          /\ rx_skbuff' = [rx_skbuff EXCEPT ![entry] = FALSE]
      BY <1>4 DEF RxDeliver
    <2>2. AheadInv'
      BY <2>1, SameCursors DEF ChainInv, AheadInv
    <2>3. \A i \in Slots : ~rx_skbuff'[i] => i = entry \/ ~rx_skbuff[i]
      BY <2>1, <1>t DEF TypeOK
    <2> QED
      BY <2>1, <2>2, <2>3, SameCursors DEF ChainInv, AheadPos
  <1>5. CASE RefillAlloc
    <2>1. /\ UNCHANGED <<cur_rx, dirty_rx>> /\ cur_rx # dirty_rx
          /\ pc = "refill" /\ pc' = "give"
          /\ rx_skbuff' = [rx_skbuff EXCEPT ![Slot(dirty_rx)] = TRUE]
      BY <1>5 DEF RefillAlloc
    <2>2. AheadInv'
      BY <2>1, <1>t, SameCursors DEF ChainInv, AheadInv
    <2>3. \A i \in Slots : ~rx_skbuff'[i] => ~rx_skbuff[i]
      BY <2>1, <1>t DEF TypeOK
    <2> QED
      BY <2>1, <2>2, <2>3, SameCursors DEF ChainInv, AheadPos
  <1>6. CASE RefillFail \/ RefillKeep \/ RefillDone
    <2>1. /\ UNCHANGED <<cur_rx, dirty_rx, rx_skbuff, entry>> /\ pc = "refill"
          /\ \/ pc' = "enable" /\ Used <= Starve
             \/ pc' = "give" /\ cur_rx # dirty_rx
             \/ pc' = "enable" /\ cur_rx = dirty_rx
      BY <1>6 DEF RefillFail, RefillKeep, RefillDone, ring
    <2>2. AheadInv'
      BY <2>1, <1>t, SameCursors DEF ChainInv, AheadInv
    <2> QED
      BY <2>1, <2>2, <1>a
  <1>7. CASE IrqExit
    <2>1. /\ UNCHANGED <<cur_rx, dirty_rx, rx_skbuff>>
          /\ pc = "enable" /\ pc' = "idle"
      BY <1>7 DEF IrqExit, ring
    <2>2. AheadInv'
      BY <2>1, SameCursors DEF ChainInv, AheadInv
    <2> QED
      BY <2>1, <2>2, SameCursors DEF ChainInv, AheadPos
  <1> QED
    BY <1>t, <1>1, <1>2, <1>3, <1>4, <1>5, <1>6, <1>7, ChainTake, ChainGive
       DEF Next, Handler

LEMMA ChainInit == Init => ChainInv
  <1> SUFFICES ASSUME Init
               PROVE  ChainInv
    OBVIOUS
  <1>1. TypeOK /\ Used = 0 /\ Slot(cur_rx) = Slot(dirty_rx)
    BY InitTypeOK, Distance DEF Init, Used, TypeOK
  <1>2. Offset(Slot(cur_rx)) = 0
    BY <1>1, SlotAdvance DEF Offset, TypeOK, Slots
  <1> QED
    BY <1>1, <1>2, WrapFacts, RxAssumption
       DEF Init, InitBuffers, ChainInv, AheadInv, AheadPos

(* stmmac_rx never meets a descriptor without a buffer if what failed      *)
(* allocations may leave to refill and the limit of one call fit the ring  *)
(* together.  With the limit of 64 and a ring of 64 that leaves no failure *)
(* at all.                                                                 *)
THEOREM ChainConsistentThm ==
    ASSUME Starve + Budget <= RxSize
    PROVE  Spec => []ChainConsistent
  <1>1. RxInv /\ ChainInv /\ [Next]_vars => ChainInv'
    BY ChainNext
  <1>2. ChainInv => ChainConsistent
    BY DEF ChainInv, AheadPos, ChainConsistent
  <1> QED
    BY ChainInit, <1>1, <1>2, Inductive, PTL DEF Spec

-----------------------------------------------------------------------------
(* The queue of received frames.                                           *)

(* Functions on 1 .. n are sequences; one more value at the end is an      *)
(* Append, one less at the front a Tail.                                   *)
LEMMA SequenceOfFunction ==
    ASSUME NEW S, NEW n \in Nat, NEW g \in [1 .. n -> S]
    PROVE  g \in Seq(S) /\ Len(g) = n
  OBVIOUS

LEMMA FunctionAppend ==
    ASSUME NEW S, NEW n \in Nat, NEW g \in [1 .. n -> S], NEW h \in [1 .. n + 1 -> S],
           \A k \in 1 .. n : h[k] = g[k]
    PROVE  h = Append(g, h[n + 1])
  <1>1. /\ g \in Seq(S) /\ Len(g) = n
        /\ h \in Seq(S) /\ Len(h) = n + 1 /\ h[n + 1] \in S
    BY SequenceOfFunction
  <1>2. /\ Append(g, h[n + 1]) \in Seq(S)
        /\ Len(Append(g, h[n + 1])) = n + 1
        /\ \A k \in 1 .. n : Append(g, h[n + 1])[k] = g[k]
        /\ Append(g, h[n + 1])[n + 1] = h[n + 1]
    BY <1>1, AppendProperties
  <1> QED
    BY <1>1, <1>2, SeqEqual

LEMMA FunctionTail ==
    ASSUME NEW S, NEW n \in Nat, NEW g \in [1 .. n + 1 -> S], NEW h \in [1 .. n -> S],
           \A k \in 1 .. n : h[k] = g[k + 1]
    PROVE  g # << >> /\ g[1] = Head(g) /\ h = Tail(g)
  <1>1. /\ g \in Seq(S) /\ Len(g) = n + 1 /\ g # << >>
        /\ h \in Seq(S) /\ Len(h) = n
    BY SequenceOfFunction
  <1>2. /\ Tail(g) \in Seq(S)
        /\ Len(Tail(g)) = n
        /\ \A k \in 1 .. n : Tail(g)[k] = g[k + 1]
    BY <1>1, HeadTailProperties
  <1>3. h = Tail(g)
    BY <1>1, <1>2, SeqEqual
  <1>4. g[1] = Head(g)
    BY <1>1
  <1> QED
    BY <1>1, <1>3, <1>4

(* Descriptors the DMA has filled and the refill has not given back.       *)
Given == {i \in Slots : ~own[i]}
Held  == Cardinality(Given)

LEMMA HeldFacts ==
    ASSUME TypeOK
    PROVE  /\ IsFiniteSet(Given)
           /\ Held \in 0 .. RxSize
           /\ Cardinality({i \in Slots : own[i]}) = RxSize - Held
           /\ Stored = Held - Used
  <1>1. IsFiniteSet(Slots) /\ Cardinality(Slots) = RxSize
    BY FS_Interval, WrapFacts DEF Slots
  <1>2. IsFiniteSet(Given) /\ Held \in Nat /\ Held <= RxSize
    BY <1>1, FS_Subset, FS_CardinalityType DEF Given, Held
  <1>3. {i \in Slots : own[i]} = Slots \ Given /\ Slots \cap Given = Given
    BY DEF Given
  <1>4. Cardinality(Slots \ Given) = RxSize - Held
    BY <1>1, <1>3, FS_Difference DEF Held
  <1>5. Cardinality({i \in Slots : own[i]}) = RxSize - Held
    BY <1>3, <1>4, Zenon
  <1>6. Stored = Held - Used
    BY DEF Stored, Held, Given
  <1>7. Held \in 0 .. RxSize
    BY <1>2, WrapFacts
  <1> QED
    BY <1>2, <1>5, <1>6, <1>7, Zenon

(* The DMA gives back one descriptor after the other, from where the       *)
(* refill ended; stmmac_rx takes only those.                               *)
DmaInv ==
    /\ Used <= Held
    /\ \A i \in Slots : ~own[i] <=> Offset(i) < Held
    /\ Held < RxSize => Offset(dmaIdx) = Held
    /\ Held = RxSize => dmaIdx = Slot(dirty_rx)

LEMMA HeldSame ==
    ASSUME UNCHANGED own
    PROVE  Held' = Held
  BY DEF Held, Given

LEMMA UsedFacts ==
    ASSUME TypeOK
    PROVE  Used \in Nat /\ (Used = 0 <=> cur_rx = dirty_rx)
  <1>1. Used \in Count /\ (Used = 0 <=> cur_rx = dirty_rx)
    BY Distance DEF TypeOK, Used
  <1> QED
    BY <1>1, WrapFacts DEF Count

LEMMA DmaStored ==
    ASSUME TypeOK, DmaInv, NEW f \in Frames \cup {Bad}, DmaStore(f)
    PROVE  DmaInv' /\ Held' = Held + 1 /\ Held < RxSize /\ Offset(dmaIdx) = Held
  <1>1. /\ own[dmaIdx] /\ dmaIdx \in Slots
        /\ own' = [own EXCEPT ![dmaIdx] = FALSE] /\ own \in [Slots -> BOOLEAN]
        /\ dmaIdx' = Succ(dmaIdx) /\ UNCHANGED <<cur_rx, dirty_rx>>
    BY DEF DmaStore, TypeOK
  <1>2. Given' = Given \cup {dmaIdx} /\ dmaIdx \notin Given
    BY <1>1 DEF Given
  <1>3. Held' = Held + 1 /\ Held \in 0 .. RxSize
    BY <1>2, HeldFacts, FS_AddElement DEF Held
  <1>4. Offset(dmaIdx) \in Slots /\ ~(Offset(dmaIdx) < Held)
    BY <1>1, OffsetFacts DEF DmaInv
  <1>5. Held < RxSize /\ Offset(dmaIdx) = Held
    BY <1>3, <1>4, WrapFacts DEF DmaInv, Slots
  <1>6. /\ Used' = Used /\ Slot(dirty_rx)' = Slot(dirty_rx)
        /\ \A i : Offset(i)' = Offset(i)
    BY <1>1, SameCursors
  <1>7. \A i \in Slots : ~own'[i] <=> Offset(i) < Held + 1
    <2> SUFFICES ASSUME NEW i \in Slots
                 PROVE  ~own'[i] <=> Offset(i) < Held + 1
      OBVIOUS
    <2>1. Offset(i) \in Slots /\ (Offset(i) = Offset(dmaIdx) => i = dmaIdx)
      BY <1>1, OffsetFacts
    <2>2. ~own[i] <=> Offset(i) < Held
      BY DEF DmaInv
    <2>3. ~own'[i] <=> i = dmaIdx \/ ~own[i]
      BY <1>1
    <2> QED
      BY <1>3, <1>5, <2>1, <2>2, <2>3, WrapFacts DEF Slots
  <1>8. Held' < RxSize => Offset(dmaIdx)' = Held'
    <2>1. Offset(dmaIdx)' = Offset(Succ(dmaIdx))
      BY <1>1 DEF Offset, Slot
    <2> QED
      BY <2>1, <1>1, <1>3, <1>5, OffsetFacts, WrapFacts
  <1>9. Held' = RxSize => dmaIdx' = Slot(dirty_rx)'
    BY <1>1, <1>3, <1>5, <1>6, OffsetFacts, WrapFacts
  <1>10. Used' <= Held'
    BY <1>3, <1>6, UsedFacts DEF DmaInv
  <1> QED
    BY <1>3, <1>5, <1>6, <1>7, <1>8, <1>9, <1>10 DEF DmaInv

LEMMA DmaTaken ==
    ASSUME Starve + Budget <= RxSize, TypeOK, ChainInv, DmaInv, RxTake
    PROVE  /\ DmaInv' /\ Held' = Held /\ Used' = Used + 1
           /\ Used < Held /\ Offset(Slot(cur_rx)) = Used
  <1>1. /\ pc = "loop" /\ count < Budget /\ ~own[Slot(cur_rx)]
        /\ cur_rx' = Unsigned(cur_rx + 1)
        /\ UNCHANGED <<dirty_rx, own, dmaIdx>>
    BY DEF RxTake, ring
  <1>2. Used < RxSize /\ Used \in Nat
    BY <1>1, UsedFacts, RxAssumption DEF ChainInv, AheadInv, TypeOK
  <1>3. Offset(Slot(cur_rx)) = Used /\ Slot(cur_rx) \in Slots
    BY <1>2, SlotAdvance DEF ChainInv, AheadPos, TypeOK
  <1>4. Used < Held
    BY <1>1, <1>3 DEF DmaInv
  <1>5. Held' = Held /\ Held \in Nat
    BY <1>1, HeldSame, HeldFacts
  <1>6. Used' = Used + 1
    BY <1>1, <1>2, Advance DEF TypeOK, Used
  <1>7. Slot(dirty_rx)' = Slot(dirty_rx) /\ (\A i : Offset(i)' = Offset(i))
        /\ Offset(dmaIdx)' = Offset(dmaIdx)
    BY <1>1 DEF Offset, Slot
  <1> QED
    BY <1>1, <1>2, <1>3, <1>4, <1>5, <1>6, <1>7 DEF DmaInv

LEMMA DmaGiven ==
    ASSUME TypeOK, ChainInv, DmaInv, RefillGive
    PROVE  DmaInv' /\ Held' = Held - 1 /\ Used' = Used - 1 /\ Used > 0
  <1>1. /\ pc = "give" /\ dirty_rx' = Unsigned(dirty_rx + 1)
        /\ own' = [own EXCEPT ![Slot(dirty_rx)] = TRUE]
        /\ UNCHANGED <<cur_rx, dmaIdx>>
    BY DEF RefillGive
  <1>2. PICK e \in Slots : e = Slot(dirty_rx)
    BY SlotAdvance DEF TypeOK
  <1>3. Used \in Nat /\ Used > 0 /\ cur_rx # dirty_rx /\ Held \in 0 .. RxSize
        /\ Used <= Held /\ Held > 0
    <2>1. Used \in Nat /\ Used > 0 /\ cur_rx # dirty_rx
      BY <1>1, UsedFacts DEF ChainInv, AheadInv
    <2>2. Held \in 0 .. RxSize /\ Used <= Held
      BY HeldFacts DEF DmaInv
    <2> QED
      BY <2>1, <2>2, WrapFacts
  <1>4. Used' = Used - 1
    BY <1>1, <1>3, Retire DEF TypeOK, Used
  <1>5. Slot(dirty_rx)' = Succ(e)
    BY <1>1, <1>2, SlotAdvance DEF TypeOK, Slot
  <1>6. \A i \in Slots :
          /\ Offset(i)' = IF i = e THEN RxSize - 1 ELSE Offset(i) - 1
          /\ Offset(i) \in Nat
          /\ Offset(i) = 0 <=> i = e
          /\ Offset(i) < RxSize
    <2> SUFFICES ASSUME NEW i \in Slots
                 PROVE  /\ Offset(i)' = IF i = e THEN RxSize - 1 ELSE Offset(i) - 1
                        /\ Offset(i) \in Nat
                        /\ Offset(i) = 0 <=> i = e
                        /\ Offset(i) < RxSize
      OBVIOUS
    <2>1. /\ Offset(i) = IF i >= e THEN i - e ELSE i - e + RxSize
          /\ Offset(i)' = IF i >= Succ(e) THEN i - Succ(e)
                          ELSE i - Succ(e) + RxSize
      BY <1>2, <1>5 DEF Offset
    <2>2. /\ RxSize \in Nat \ {0} /\ Slots = 0 .. RxSize - 1
          /\ Succ(e) = IF e = RxSize - 1 THEN 0 ELSE e + 1
      BY WrapFacts DEF Slots, Succ
    <2> QED
      BY <2>1, <2>2
  <1>7. ~own[e]
    BY <1>3, <1>6 DEF DmaInv
  <1>8. Given' = Given \ {e} /\ e \in Given
    BY <1>1, <1>2, <1>7 DEF Given, TypeOK
  <1>9. Held' = Held - 1
    BY <1>8, HeldFacts, FS_RemoveElement DEF Held
  <1>10. \A i \in Slots : ~own'[i] <=> Offset(i)' < Held'
    <2> SUFFICES ASSUME NEW i \in Slots
                 PROVE  ~own'[i] <=> Offset(i)' < Held'
      OBVIOUS
    <2>1. ~own'[i] <=> ~own[i] /\ i # e
      BY <1>1, <1>2 DEF TypeOK
    <2>2. ~own[i] <=> Offset(i) < Held
      BY DEF DmaInv
    <2> QED
      BY <2>1, <2>2, <1>3, <1>6, <1>9, WrapFacts
  <1>11. Held' < RxSize /\ Offset(dmaIdx)' = Held'
    <2> PICK d \in Slots : d = dmaIdx
      BY DEF TypeOK
    <2>1. Offset(dmaIdx)' = Offset(d)'
      BY <1>1 DEF Offset
    <2>2. CASE Held = RxSize
      BY <2>1, <2>2, <1>2, <1>6, <1>9, WrapFacts DEF DmaInv
    <2>3. CASE Held < RxSize
      BY <2>1, <2>3, <1>3, <1>6, <1>9, WrapFacts DEF DmaInv
    <2> QED
      BY <2>2, <2>3, <1>3, WrapFacts
  <1>12. Used' <= Held'
    BY <1>3, <1>4, <1>9, WrapFacts
  <1> QED
    BY <1>3, <1>4, <1>9, <1>10, <1>11, <1>12, WrapFacts DEF DmaInv

(* The descriptor m places after s in the ring.                            *)
After(s, m) == IF s + m < RxSize THEN s + m ELSE s + m - RxSize

LEMMA SlotAfter ==
    ASSUME NEW c \in Count, NEW k \in 1 .. RxSize
    PROVE  Slot(c + k - 1) = After(Slot(c), k - 1)
  <1>1. /\ RxSize \in Nat \ {0} /\ c \in Nat
        /\ k - 1 \in 0 .. RxSize - 1 /\ c + k - 1 = c + (k - 1)
    BY WrapFacts DEF Count
  <1>2. (c + (k - 1)) % RxSize = After(c % RxSize, k - 1)
    BY <1>1, CounterIndex DEF After
  <1> QED
    BY <1>1, <1>2 DEF Slot

(* Counted from cur_rx, a descriptor that is not waiting for the refill is *)
(* that far behind the ones that are; the pending frames are the first.    *)
LEMMA PendingFacts ==
    ASSUME TypeOK, ChainInv, DmaInv
    PROVE  /\ Stored \in 0 .. RxSize
           /\ Stored = Held - Used
           /\ Used \in Nat /\ Stored <= RxSize - Used
           /\ \A k \in 1 .. RxSize - Used :
                /\ Slot(cur_rx + k - 1) = After(Slot(cur_rx), k - 1)
                /\ Slot(cur_rx + k - 1) \in Slots
                /\ Offset(Slot(cur_rx + k - 1)) = Used + k - 1
           /\ Pending \in [1 .. Stored -> Frames \cup {Bad, NoFrame}]
           /\ Stored > 0 => Pending[1] = data[Slot(cur_rx)]
  <1>1. /\ Stored \in 0 .. RxSize /\ Stored = Held - Used
        /\ Used \in Nat /\ Held \in 0 .. RxSize /\ Used <= Held
    BY HeldFacts, UsedFacts, WrapFacts DEF DmaInv
  <1>2. PICK b \in Slots, d \in Slots : b = Slot(cur_rx) /\ d = Slot(dirty_rx)
    BY SlotAdvance DEF TypeOK
  <1>3. ASSUME NEW k \in 1 .. RxSize - Used
        PROVE  /\ Slot(cur_rx + k - 1) = After(Slot(cur_rx), k - 1)
               /\ Slot(cur_rx + k - 1) \in Slots
               /\ Offset(Slot(cur_rx + k - 1)) = Used + k - 1
    <2>1. k \in 1 .. RxSize /\ Used + k - 1 < RxSize /\ Used < RxSize
      BY <1>1, <1>3, WrapFacts
    <2>2. Slot(cur_rx + k - 1) = After(b, k - 1)
      BY <1>2, <2>1, SlotAfter DEF TypeOK
    <2>3. Offset(b) = Used
      BY <1>2, <2>1 DEF ChainInv, AheadPos
    <2>4. Used = IF b >= d THEN b - d ELSE b - d + RxSize
      BY <2>3, <1>2 DEF Offset
    <2>5. After(b, k - 1) \in Slots
      BY <1>2, <2>1, WrapFacts DEF After, Slots
    <2>6. Offset(After(b, k - 1)) = Used + k - 1
      <3>1. Offset(After(b, k - 1)) = IF After(b, k - 1) >= d THEN After(b, k - 1) - d
                                      ELSE After(b, k - 1) - d + RxSize
        BY <1>2 DEF Offset
      <3> QED
        BY <3>1, <1>1, <1>2, <2>1, <2>4, WrapFacts DEF After, Slots
    <2> QED
      BY <2>2, <2>5, <2>6, <1>2
  <1>4. Pending \in [1 .. Stored -> Frames \cup {Bad, NoFrame}]
    BY <1>1, <1>3, WrapFacts DEF Pending, TypeOK
  <1>5. Stored > 0 => Pending[1] = data[Slot(cur_rx)]
    <2> SUFFICES ASSUME Stored > 0
                 PROVE  Pending[1] = data[Slot(cur_rx)]
      OBVIOUS
    <2>1. 1 \in 1 .. Stored
      BY <1>1, WrapFacts
    <2>2. Pending[1] = data[Slot(cur_rx + 1 - 1)]
      BY <2>1 DEF Pending
    <2>3. cur_rx + 1 - 1 = cur_rx
      BY WrapFacts DEF TypeOK, Count
    <2> QED
      BY <2>2, <2>3
  <1>6. Stored <= RxSize - Used
    BY <1>1, WrapFacts
  <1> QED
    BY <1>1, <1>3, <1>4, <1>5, <1>6

(* The queue's view of the counts.                                         *)
HeldCount ==
    /\ Cardinality({i \in Slots : own[i]}) = RxSize - Held
    /\ Stored = Held - Used

LEMMA HeldNext == TypeOK' => HeldCount'
  <1>1. TypeOK => HeldCount
    BY HeldFacts DEF HeldCount
  <1> QED
    BY <1>1, PTL

LEMMA PendingSame ==
    ASSUME TypeOK, ChainInv, DmaInv, cur_rx' = cur_rx, Stored' = Stored,
           \A k \in 1 .. Stored :
               data'[Slot(cur_rx + k - 1)] = data[Slot(cur_rx + k - 1)]
    PROVE  Pending' = Pending
  <1>1. Pending' = [k \in 1 .. Stored' |-> data'[Slot(cur_rx' + k - 1)]]
    BY DEF Pending, Slot
  <1> QED
    BY <1>1 DEF Pending

(* What the queue shows of the frame stmmac_rx has in hand.                *)
Hand == IF pc = "frame" THEN data[entry] ELSE NoFrame

QueueVars == <<Pending, Cardinality({i \in Slots : own[i]}), Hand, up>>

LEMMA QueueStore ==
    ASSUME RxInv, ChainInv, DmaInv, NEW f \in Frames \cup {Bad}, DmaStore(f)
    PROVE  Queue!Store(f)
  <1>t. TypeOK /\ BufferInv /\ TypeOK'
    BY NextTypeOK DEF RxInv, Next
  <1>1. /\ data' = [data EXCEPT ![dmaIdx] = f] /\ dmaIdx \in Slots
        /\ own[dmaIdx] /\ UNCHANGED <<cur_rx, dirty_rx, pc, entry, up>>
    BY <1>t DEF DmaStore, TypeOK
  <1>2. /\ Held' = Held + 1 /\ Held < RxSize /\ Offset(dmaIdx) = Held
        /\ Held \in 0 .. RxSize
    BY <1>t, DmaStored, HeldFacts
  <1>3. /\ Cardinality({i \in Slots : own[i]}) = RxSize - Held
        /\ Cardinality({i \in Slots : own[i]})' = RxSize - Held'
        /\ Used' = Used /\ Stored' = Held' - Used' /\ Stored = Held - Used
    BY <1>1, <1>t, SameCursors, HeldFacts, HeldNext DEF HeldCount
  <1>4. PICK n \in 0 .. RxSize : n = Stored
    BY <1>t, PendingFacts
  <1>5. n + 1 \in 1 .. RxSize - Used /\ Stored' = n + 1
    BY <1>t, <1>2, <1>3, <1>4, PendingFacts, WrapFacts
  <1>6. /\ Slot(cur_rx + (n + 1) - 1) \in Slots
        /\ Offset(Slot(cur_rx + (n + 1) - 1)) = Used + (n + 1) - 1
        /\ Used \in Nat
    BY <1>t, <1>5, PendingFacts
  <1>7. Slot(cur_rx + (n + 1) - 1) = dmaIdx
    <2>1. Used + (n + 1) - 1 = Held
      BY <1>2, <1>3, <1>4, <1>6
    <2> QED
      BY <1>t, <1>1, <1>2, <1>6, <2>1, OffsetFacts
  <1>8. \A k \in 1 .. n : /\ Slot(cur_rx + k - 1) \in Slots
                          /\ Slot(cur_rx + k - 1) # dmaIdx
    <2> SUFFICES ASSUME NEW k \in 1 .. n
                 PROVE  /\ Slot(cur_rx + k - 1) \in Slots
                        /\ Slot(cur_rx + k - 1) # dmaIdx
      OBVIOUS
    <2>1. k \in 1 .. RxSize - Used /\ Used + k - 1 < Held
      BY <1>2, <1>3, <1>4, <1>5, <1>6, WrapFacts
    <2>2. /\ Slot(cur_rx + k - 1) \in Slots
          /\ Offset(Slot(cur_rx + k - 1)) = Used + k - 1
      BY <1>t, <2>1, PendingFacts
    <2> QED
      BY <2>1, <2>2, <1>2
  <1>9. Pending' = Append(Pending, f)
    <2> DEFINE S == Frames \cup {Bad, NoFrame}
    <2>1. Pending \in [1 .. n -> S]
      BY <1>t, <1>4, PendingFacts
    <2>2. Pending' = [k \in 1 .. n + 1 |-> data'[Slot(cur_rx + k - 1)]]
      BY <1>1, <1>5 DEF Pending, Slot
    <2>3. Pending = [k \in 1 .. n |-> data[Slot(cur_rx + k - 1)]]
      BY <1>4 DEF Pending
    <2>4. \A k \in 1 .. n : data'[Slot(cur_rx + k - 1)] = data[Slot(cur_rx + k - 1)]
      BY <1>t, <1>1, <1>8 DEF TypeOK
    <2>5. data'[Slot(cur_rx + (n + 1) - 1)] = f
      BY <1>t, <1>1, <1>7 DEF TypeOK
    <2>6. Pending' \in [1 .. n + 1 -> S] /\ Pending'[n + 1] = f
      <3>1. \A k \in 1 .. n + 1 : data'[Slot(cur_rx + k - 1)] \in S
        BY <2>4, <2>5, <1>t, <1>8 DEF TypeOK
      <3> QED
        BY <3>1, <2>2, <2>5
    <2>7. \A k \in 1 .. n : Pending'[k] = Pending[k]
      BY <2>2, <2>3, <2>4
    <2> HIDE DEF S
    <2> QED
      BY <2>1, <2>6, <2>7, FunctionAppend
  <1>10. Hand' = Hand
    <2>1. pc = "frame" => entry \in Slots /\ entry # dmaIdx
      BY <1>t, <1>1 DEF TypeOK, BufferInv
    <2> QED
      BY <2>1, <1>t, <1>1 DEF Hand, TypeOK
  <1> QED
    BY <1>1, <1>2, <1>3, <1>9, <1>10, WrapFacts DEF Queue!Store, Hand

(* stmmac_rx takes the oldest pending frame.                               *)
LEMMA QueueTake ==
    ASSUME Starve + Budget <= RxSize, RxInv, ChainInv, DmaInv, RxTake
    PROVE  Queue!Take
  <1>t. TypeOK /\ FilledInv /\ TypeOK'
    BY NextTypeOK DEF RxInv, Next, Handler
  <1>1. /\ pc = "loop" /\ pc' = "frame" /\ entry' = Slot(cur_rx)
        /\ cur_rx' = Unsigned(cur_rx + 1) /\ ~own[Slot(cur_rx)]
        /\ UNCHANGED <<rx_skbuff, own, data, up>>
    BY DEF RxTake, ring
  <1>2. /\ Held' = Held /\ Used' = Used + 1 /\ Used < Held
        /\ Offset(Slot(cur_rx)) = Used /\ Held \in 0 .. RxSize /\ Used \in Nat
    BY <1>t, DmaTaken, HeldFacts, UsedFacts
  <1>3. /\ Cardinality({i \in Slots : own[i]})' = Cardinality({i \in Slots : own[i]})
        /\ Stored' = Held' - Used' /\ Stored = Held - Used
    BY <1>1, <1>t, <1>2, HeldFacts, HeldNext DEF HeldCount
  <1>4. PICK n \in Nat : n + 1 = Stored /\ n + 1 <= RxSize - Used /\ Stored' = n
    <2>1. Stored - 1 \in Nat
      BY <1>2, <1>3
    <2> QED
      BY <2>1, <1>2, <1>3, WrapFacts
  <1>5. PICK b \in Slots : b = Slot(cur_rx) /\ Succ(b) = Slot(cur_rx')
    BY <1>1, <1>t, SlotAdvance DEF TypeOK
  <1>6. \A k \in 1 .. n : Slot(cur_rx' + k - 1) = Slot(cur_rx + (k + 1) - 1)
    <2> SUFFICES ASSUME NEW k \in 1 .. n
                 PROVE  Slot(cur_rx' + k - 1) = Slot(cur_rx + (k + 1) - 1)
      OBVIOUS
    <2>1. k \in 1 .. RxSize /\ k + 1 \in 1 .. RxSize
      BY <1>2, <1>4, WrapFacts
    <2>2. /\ Slot(cur_rx + (k + 1) - 1) = After(b, (k + 1) - 1)
          /\ Slot(cur_rx' + k - 1) = After(Succ(b), k - 1)
      BY <2>1, <1>5, <1>t, SlotAfter DEF TypeOK
    <2>3. After(b, (k + 1) - 1) = After(Succ(b), k - 1)
      BY <2>1, WrapFacts DEF After, Succ, Slots
    <2> QED
      BY <2>2, <2>3
  <1>7. Pending # << >> /\ Pending[1] = Head(Pending) /\ Pending' = Tail(Pending)
    <2> DEFINE S == Frames \cup {Bad, NoFrame}
    <2>1. Pending \in [1 .. n + 1 -> S]
      BY <1>t, <1>4, PendingFacts
    <2>2. Pending' = [k \in 1 .. n |-> data[Slot(cur_rx' + k - 1)]]
      BY <1>1, <1>4 DEF Pending, Slot
    <2>3. Pending = [k \in 1 .. n + 1 |-> data[Slot(cur_rx + k - 1)]]
      BY <1>4 DEF Pending
    <2>4. \A k \in 1 .. n : Pending'[k] = Pending[k + 1]
      BY <1>6, <2>2, <2>3
    <2>5. Pending' \in [1 .. n -> S]
      BY <2>1, <2>2, <2>4
    <2> HIDE DEF S
    <2> QED
      BY <2>1, <2>4, <2>5, FunctionTail
  <1>8. Hand = NoFrame /\ Hand' = Pending[1]
    BY <1>1, <1>t, <1>2, <1>3, PendingFacts DEF Hand
  <1> QED
    BY <1>1, <1>3, <1>7, <1>8 DEF Queue!Take, Hand

(* The frame in hand is given to the stack or dropped.                     *)
LEMMA QueueHand ==
    ASSUME RxInv, ChainInv, DmaInv, RxDeliver \/ RxDiscard
    PROVE  Queue!Deliver \/ Queue!Discard
  <1>t. TypeOK /\ BufferInv /\ FilledInv
    BY DEF RxInv
  <1>1. /\ pc = "frame" /\ pc' = "loop"
        /\ UNCHANGED <<cur_rx, dirty_rx, own, data>>
        /\ \/ data[entry] = Bad /\ up' = up
           \/ data[entry] # Bad /\ up' = data[entry]
    BY DEF RxDeliver, RxDiscard, ring
  <1>2. data[entry] \in Frames \cup {Bad}
    BY <1>1, <1>t DEF TypeOK, BufferInv, FilledInv, ChainInv, AheadPos
  <1>3. /\ Pending' = Pending
        /\ Cardinality({i \in Slots : own[i]})' = Cardinality({i \in Slots : own[i]})
    BY <1>1, SameCursors DEF Pending, Stored, Slot
  <1>4. Hand = data[entry] /\ Hand' = NoFrame
    BY <1>1 DEF Hand
  <1> QED
    BY <1>1, <1>2, <1>3, <1>4 DEF Queue!Deliver, Queue!Discard, Hand

(* A descriptor is armed again only when its frame has been taken.         *)
LEMMA QueueArm ==
    ASSUME RxInv, ChainInv, DmaInv, RefillGive
    PROVE  Queue!Arm
  <1>t. TypeOK /\ TypeOK'
    BY NextTypeOK DEF RxInv, Next, Handler
  <1>1. /\ pc = "give" /\ pc' = "refill" /\ UNCHANGED <<cur_rx, data, up>>
    BY DEF RefillGive
  <1>2. /\ Held' = Held - 1 /\ Used' = Used - 1 /\ Used > 0
        /\ Used \in Nat /\ Held \in 0 .. RxSize
    BY <1>t, DmaGiven, UsedFacts, HeldFacts
  <1>3. /\ Cardinality({i \in Slots : own[i]}) = RxSize - Held
        /\ Cardinality({i \in Slots : own[i]})' = RxSize - Held'
        /\ Stored' = Held' - Used' /\ Stored = Held - Used
    BY <1>t, HeldFacts, HeldNext DEF HeldCount
  <1>4. Stored' = Stored
    BY <1>2, <1>3
  <1>5. Pending' = Pending
    BY <1>1, <1>4, <1>t, PendingSame
  <1>6. Len(Pending) = Stored
    <2>1. Pending \in [1 .. Stored -> Frames \cup {Bad, NoFrame}] /\ Stored \in Nat
      BY <1>t, PendingFacts, WrapFacts
    <2> QED
      BY <2>1, SequenceOfFunction
  <1>7. Hand = NoFrame /\ Hand' = NoFrame
    BY <1>1 DEF Hand
  <1> QED
    BY <1>1, <1>2, <1>3, <1>5, <1>6, <1>7, WrapFacts DEF Queue!Arm, Hand

(* The refill finds memory: the buffer it replaces is no pending one.      *)
LEMMA QueueAlloc ==
    ASSUME RxInv, ChainInv, DmaInv, RefillAlloc
    PROVE  UNCHANGED QueueVars
  <1>t. TypeOK
    BY DEF RxInv
  <1>1. /\ pc = "refill" /\ pc' = "give" /\ cur_rx # dirty_rx
        /\ data' = [data EXCEPT ![Slot(dirty_rx)] = NoFrame]
        /\ UNCHANGED <<cur_rx, dirty_rx, own, up>>
    BY DEF RefillAlloc
  <1>2. PICK e \in Slots : e = Slot(dirty_rx)
    BY <1>t, SlotAdvance DEF TypeOK
  <1>3. Offset(e) = 0 /\ Used \in Nat /\ Used > 0 /\ Stored <= RxSize - Used
        /\ Stored \in 0 .. RxSize
    BY <1>t, <1>1, <1>2, UsedFacts, PendingFacts, WrapFacts DEF Offset, Slots
  <1>4. Stored' = Stored
        /\ Cardinality({i \in Slots : own[i]})' = Cardinality({i \in Slots : own[i]})
    BY <1>1, SameCursors DEF Stored
  <1>5. \A k \in 1 .. Stored :
            data'[Slot(cur_rx + k - 1)] = data[Slot(cur_rx + k - 1)]
    <2> SUFFICES ASSUME NEW k \in 1 .. Stored
                 PROVE  data'[Slot(cur_rx + k - 1)] = data[Slot(cur_rx + k - 1)]
      OBVIOUS
    <2>1. k \in 1 .. RxSize - Used
      BY <1>3, WrapFacts
    <2>2. /\ Slot(cur_rx + k - 1) \in Slots
          /\ Offset(Slot(cur_rx + k - 1)) = Used + k - 1
      BY <2>1, <1>t, PendingFacts
    <2>3. Slot(cur_rx + k - 1) # e
      BY <2>1, <2>2, <1>3
    <2> QED
      BY <2>2, <2>3, <1>1, <1>2, <1>t DEF TypeOK
  <1>6. Pending' = Pending
    BY <1>1, <1>4, <1>5, <1>t, PendingSame
  <1>7. Hand = NoFrame /\ Hand' = NoFrame
    BY <1>1 DEF Hand
  <1> QED
    BY <1>1, <1>4, <1>6, <1>7 DEF QueueVars

(* Steps the queue does not see.                                           *)
LEMMA QueueStutter ==
    ASSUME UNCHANGED <<cur_rx, dirty_rx, own, data, up>>, Hand' = Hand
    PROVE  UNCHANGED QueueVars
  <1>1. Pending' = Pending
    BY SameCursors DEF Pending, Stored, Slot
  <1> QED
    BY <1>1 DEF QueueVars

LEMMA QueueNext ==
    ASSUME Starve + Budget <= RxSize, RxInv, ChainInv, DmaInv, [Next]_vars
    PROVE  Queue!Next \/ UNCHANGED QueueVars
  <1>1. ASSUME NEW f \in Frames \cup {Bad}, DmaStore(f)
        PROVE  Queue!Next
    BY <1>1, QueueStore DEF Queue!Next
  <1>2. CASE Watchdog \/ UNCHANGED vars
    <2>1. UNCHANGED <<cur_rx, dirty_rx, own, data, up, pc, entry>>
      BY <1>2 DEF Watchdog, vars, ring
    <2> QED
      BY <2>1, QueueStutter DEF Hand
  <1>3. CASE IrqEnter \/ IrqEnterTx \/ RxDone \/ RefillFail \/ RefillKeep
             \/ RefillDone \/ IrqExit
    <2>1. /\ UNCHANGED <<cur_rx, dirty_rx, own, data, up>>
          /\ pc # "frame" /\ pc' # "frame"
      BY <1>3 DEF IrqEnter, IrqEnterTx, RxDone, RefillFail, RefillKeep,
                  RefillDone, IrqExit, ring
    <2> QED
      BY <2>1, QueueStutter DEF Hand
  <1>4. CASE RxTake
    BY <1>4, QueueTake DEF Queue!Next
  <1>5. CASE RxDiscard \/ RxDeliver
    BY <1>5, QueueHand DEF Queue!Next
  <1>6. ~RxNoBuffer
    BY DEF RxNoBuffer, ChainInv, AheadPos
  <1>7. CASE RefillGive
    BY <1>7, QueueArm DEF Queue!Next
  <1> QED
    BY <1>1, <1>2, <1>3, <1>4, <1>5, <1>6, <1>7, QueueAlloc DEF Next, Handler

LEMMA DmaNext ==
    ASSUME Starve + Budget <= RxSize, RxInv, ChainInv, DmaInv, [Next]_vars
    PROVE  DmaInv'
  <1>t. TypeOK
    BY DEF RxInv
  <1>1. ASSUME NEW f \in Frames \cup {Bad}, DmaStore(f)
        PROVE  DmaInv'
    BY <1>1, <1>t, DmaStored
  <1>2. CASE UNCHANGED <<cur_rx, dirty_rx, own, dmaIdx>>
    <2>1. Offset(dmaIdx)' = Offset(dmaIdx)
      BY <1>2 DEF Offset, Slot
    <2> QED
      BY <1>2, <2>1, HeldSame, SameCursors DEF DmaInv
  <1>3. CASE Watchdog \/ IrqEnter \/ IrqEnterTx \/ UNCHANGED vars
    BY <1>2, <1>3 DEF Watchdog, IrqEnter, IrqEnterTx, vars, ring
  <1>4. CASE Handler
    <2>1. CASE RxTake
      BY <2>1, <1>t, DmaTaken
    <2>2. CASE RefillGive
      BY <2>2, <1>t, DmaGiven
    <2>3. CASE \/ RxDiscard \/ RxDeliver \/ RxNoBuffer \/ RxDone \/ RefillAlloc
               \/ RefillFail \/ RefillKeep \/ RefillDone \/ IrqExit
      BY <2>3, <1>2 DEF RxDiscard, RxDeliver, RxNoBuffer, RxDone, RefillAlloc,
                        RefillFail, RefillKeep, RefillDone, IrqExit, ring
    <2> QED
      BY <1>4, <2>1, <2>2, <2>3 DEF Handler
  <1> QED
    BY <1>1, <1>3, <1>4 DEF Next

LEMMA DmaInit ==
    ASSUME Init
    PROVE  DmaInv /\ Stored = 0 /\ Cardinality({i \in Slots : own[i]}) = RxSize
  <1>1. TypeOK /\ Used = 0 /\ own = [i \in Slots |-> TRUE] /\ dmaIdx = 0
    BY InitTypeOK, Distance DEF Init, Used, TypeOK, ClearDescriptors
  <1>2. Given = {} /\ Held = 0
    BY <1>1, FS_EmptySet DEF Given, Held
  <1>3. Offset(dmaIdx) = 0
    BY <1>1, WrapFacts, Reduce DEF Init, Offset, Slot
  <1>4. DmaInv
    BY <1>1, <1>2, <1>3, OffsetFacts, WrapFacts DEF DmaInv, Slots
  <1> QED
    BY <1>1, <1>2, <1>4, HeldFacts, WrapFacts

(* The ring implements the queue of RxQueue under the bound of             *)
(* ChainConsistentThm: whatever the interleaving of the DMA, the handler   *)
(* and failing allocations, and across the wrap of both counters, a frame  *)
(* is stored only in an armed descriptor, goes to the stack in the order   *)
(* of arrival and once, and its descriptor is armed again only afterwards. *)
THEOREM RingImplementsQueue ==
    ASSUME Starve + Budget <= RxSize
    PROVE  Spec => FirstInFirstOut
  <1>1. Init => ChainInv /\ DmaInv /\ Queue!Init
    <2> SUFFICES ASSUME Init
                 PROVE  ChainInv /\ DmaInv /\ Queue!Init
      OBVIOUS
    <2>1. /\ ChainInv /\ DmaInv /\ Stored = 0
          /\ Cardinality({i \in Slots : own[i]}) = RxSize
      BY ChainInit, DmaInit
    <2>2. Pending = << >> /\ pc = "idle" /\ up = NoFrame
      BY <2>1 DEF Pending, Init
    <2> QED
      BY <2>1, <2>2 DEF Queue!Init
  <1>2. RxInv /\ ChainInv /\ DmaInv /\ [Next]_vars
          => ChainInv' /\ DmaInv' /\ [Queue!Next]_(Queue!vars)
    BY ChainNext, DmaNext, QueueNext DEF Queue!vars, QueueVars, Hand
  <1> QED
    BY <1>1, <1>2, Inductive, PTL DEF Spec, FirstInFirstOut, Queue!Spec

-----------------------------------------------------------------------------
(* The receive interrupt.                                                  *)

(* What stmmac_rx has taken in this call still waits for the refill.       *)
CountInv == pc \in {"loop", "frame"} => count <= Used

LEMMA CountNext ==
    ASSUME Starve + Budget <= RxSize, RxInv, ChainInv, DmaInv, CountInv,
           [Next]_vars
    PROVE  CountInv'
  <1>t. TypeOK /\ Used \in Nat /\ count \in Nat
    BY UsedFacts, RxAssumption DEF RxInv, TypeOK
  <1>a. ASSUME UNCHANGED <<cur_rx, dirty_rx, pc, count>>
        PROVE  CountInv'
    BY <1>a, SameCursors DEF CountInv
  <1>1. CASE (\E f \in Frames \cup {Bad} : DmaStore(f)) \/ Watchdog
             \/ UNCHANGED vars
    BY <1>1, <1>a DEF DmaStore, Watchdog, vars
  <1>2. CASE IrqEnter \/ IrqEnterTx
    BY <1>2, <1>t, SameCursors DEF IrqEnter, IrqEnterTx, CountInv
  <1>3. CASE RxTake
    <2>1. Used' = Used + 1
      BY <1>3, <1>t, DmaTaken
    <2> QED
      BY <1>3, <1>t, <2>1 DEF RxTake, CountInv
  <1>4. CASE RxDiscard \/ RxDeliver
    <2>1. UNCHANGED <<cur_rx, dirty_rx, count>> /\ pc = "frame"
      BY <1>4 DEF RxDiscard, RxDeliver
    <2> QED
      BY <2>1, SameCursors DEF CountInv
  <1>5. CASE RxNoBuffer \/ RxDone \/ RefillAlloc \/ RefillFail \/ RefillKeep
             \/ RefillGive \/ RefillDone \/ IrqExit
    <2>1. pc' \notin {"loop", "frame"}
      BY <1>5 DEF RxNoBuffer, RxDone, RefillAlloc, RefillFail, RefillKeep,
                  RefillGive, RefillDone, IrqExit
    <2> QED
      BY <2>1 DEF CountInv
  <1> QED
    BY <1>1, <1>2, <1>3, <1>4, <1>5 DEF Next, Handler

(* With a limit of the size of the ring the loop ends only when the ring   *)
(* is empty.                                                               *)
LEMMA LoopEmpties ==
    ASSUME Starve = 0, Budget = RxSize, RxInv, ChainInv, DmaInv, CountInv,
           RxDone
    PROVE  Stored = 0
  <1>1. /\ TypeOK /\ pc = "loop"
        /\ count = RxSize \/ own[Slot(cur_rx)]
        /\ count <= Used
    BY DEF RxDone, RxInv, CountInv
  <1>2. /\ Used \in Nat /\ Held \in 0 .. RxSize /\ Used <= Held
        /\ Stored = Held - Used
        /\ Slot(cur_rx) \in Slots /\ RxSize \in Nat
    BY <1>1, UsedFacts, HeldFacts, SlotAdvance, WrapFacts DEF DmaInv, TypeOK
  <1>3. CASE Used = RxSize
    BY <1>2, <1>3
  <1>4. CASE Used # RxSize
    <2>1. Used < RxSize /\ own[Slot(cur_rx)]
      BY <1>1, <1>2, <1>4
    <2>2. Offset(Slot(cur_rx)) = Used
      BY <2>1 DEF ChainInv, AheadPos
    <2>3. ~(Used < Held)
      BY <1>2, <2>1, <2>2 DEF DmaInv
    <2> QED
      BY <1>2, <2>3
  <1> QED
    BY <1>3, <1>4

LEMMA StrandedNext ==
    ASSUME Starve = 0, Budget = RxSize, RxInv, ChainInv, DmaInv, CountInv,
           NoFrameStranded, TypeOK', [Next]_vars
    PROVE  NoFrameStranded'
  <1>t. TypeOK /\ Starve + Budget <= RxSize /\ HeldCount' /\ HeldCount
    BY HeldNext, HeldFacts, WrapFacts DEF RxInv, HeldCount
  <1>a. ASSUME UNCHANGED <<cur_rx, dirty_rx, own>>
        PROVE  Stored' = Stored
    BY <1>a, <1>t, HeldSame, SameCursors DEF HeldCount
  <1>1. ASSUME NEW f \in Frames \cup {Bad}, DmaStore(f)
        PROVE  NoFrameStranded'
    <2>1. CASE UseRiwt
      BY <1>1, <2>1 DEF DmaStore, NoFrameStranded
    <2>2. CASE ~UseRiwt
      BY <1>1, <2>2 DEF DmaStore, NoFrameStranded
    <2> QED
      BY <2>1, <2>2
  <1>2. CASE Watchdog \/ IrqEnter \/ IrqEnterTx
    BY <1>2 DEF Watchdog, IrqEnter, IrqEnterTx, NoFrameStranded
  <1>3. CASE RxTake \/ RxDiscard \/ RxDeliver
    BY <1>3 DEF RxTake, RxDiscard, RxDeliver, NoFrameStranded
  <1>4. ~RxNoBuffer
    BY DEF RxNoBuffer, ChainInv, AheadPos
  <1>5. CASE RxDone
    <2>1. UNCHANGED <<cur_rx, dirty_rx, own>>
      BY <1>5 DEF RxDone, ring
    <2>2. Stored' = 0
      BY <1>5, <1>a, <2>1, LoopEmpties
    <2> QED
      BY <2>2 DEF NoFrameStranded
  <1>6. CASE RefillGive
    <2>1. Held' = Held - 1 /\ Used' = Used - 1
      BY <1>6, <1>t, DmaGiven
    <2>2. Stored' = Stored
      BY <1>t, <2>1, UsedFacts, HeldFacts DEF HeldCount
    <2>3. UNCHANGED <<quiet, ri>> /\ pc = "give"
      BY <1>6 DEF RefillGive
    <2> QED
      BY <2>2, <2>3 DEF NoFrameStranded
  <1>7. CASE RefillAlloc \/ RefillFail \/ RefillKeep \/ RefillDone \/ IrqExit
             \/ UNCHANGED vars
    <2>1. UNCHANGED <<cur_rx, dirty_rx, own, quiet, ri>>
      BY <1>7 DEF RefillAlloc, RefillFail, RefillKeep, RefillDone, IrqExit,
                  vars, ring
    <2>2. pc \in {"loop", "frame"} => pc' \in {"loop", "frame"}
      BY <1>7
         DEF RefillAlloc, RefillFail, RefillKeep, RefillDone, IrqExit, vars
    <2> QED
      BY <2>1, <2>2, <1>a DEF NoFrameStranded
  <1> QED
    BY <1>1, <1>2, <1>3, <1>4, <1>5, <1>6, <1>7 DEF Next, Handler

(* With the driver's limit of 64 and its default ring of 64, and while     *)
(* memory lasts, no receive interrupt is lost: the status is acknowledged  *)
(* before the loop of stmmac_rx and the loop ends only when the ring is    *)
(* empty, so a frame that waits has an interrupt, a watchdog or the        *)
(* running loop to come for it.                                            *)
THEOREM ReceiveInterruptNotLost ==
    ASSUME Starve = 0, Budget = RxSize
    PROVE  Spec => []NoFrameStranded
  <1>h. Starve + Budget <= RxSize
    BY WrapFacts
  <1>1. Init => ChainInv /\ DmaInv /\ CountInv /\ NoFrameStranded
    <2> SUFFICES ASSUME Init
                 PROVE  ChainInv /\ DmaInv /\ CountInv /\ NoFrameStranded
      OBVIOUS
    <2>1. ChainInv /\ DmaInv /\ TypeOK
      BY ChainInit, DmaInit, InitTypeOK
    <2>2. CountInv
      BY DEF Init, CountInv
    <2>3. Stored = 0
      BY DmaInit
    <2> QED
      BY <2>1, <2>2, <2>3 DEF NoFrameStranded
  <1>2. RxInv /\ ChainInv /\ DmaInv /\ CountInv /\ NoFrameStranded /\ RxInv'
        /\ [Next]_vars
          => ChainInv' /\ DmaInv' /\ CountInv' /\ NoFrameStranded'
    BY <1>h, ChainNext, DmaNext, CountNext, StrandedNext DEF RxInv
  <1> QED
    BY <1>1, <1>2, Inductive, PTL DEF Spec

=============================================================================
