---------------------------- MODULE TxFrames_proofs ----------------------------
(***************************************************************************)
(* Proofs about what the DMA finds in the ring of TxRing: a poll demand is *)
(* never lost, and the frames it sends are whole and in order.  They rest  *)
(* on the inductive invariant of TxRing_proofs.                            *)
(***************************************************************************)
EXTENDS TxRing_proofs

-----------------------------------------------------------------------------
(* The DMA and the frames in the ring.                                     *)

(* The descriptors the DMA has still to send.                              *)
Pending(i) == Offset(dmaIdx) <= Offset(i) /\ Offset(i) < Reserved

(* OWN says exactly that, but for the first descriptor of a frame being    *)
(* built.                                                                  *)
PosInv ==
    /\ Offset(dmaIdx) <= Reserved
    /\ \A i \in Slots : own[i] <=> Pending(i) /\ ~Unready(i)
    /\ xpc \in {"frags", "handover"} => Pending(xfirst)
    /\ NoLostKick

(* The last descriptor of a frame that has no LAST_SEGMENT yet.            *)
Tail(i) == xpc = "frags" /\ i = Slot(cur_tx)

(* The marks of a descriptor agree with its segment.                       *)
Marked(i) ==
    /\ Pending(i) => /\ seg[i].k <= seg[i].n
                     /\ fs[i] <=> seg[i].k = 0
                     /\ ls[i] <=> seg[i].k = seg[i].n /\ ~Tail(i)
    /\ ls[i] => Offset(i) < Reserved

MarkInv ==
    /\ \A i \in Slots : Marked(i)
    /\ xpc \in {"frags", "handover"} => seg[xfirst].k = 0
    /\ xpc = "frags" =>
          seg[Slot(cur_tx)] = [skb |-> xskb, k |-> xi, n |-> xfrags]

(* Segment t may follow segment s.                                         *)
Follows(s, t) == IF s.k < s.n THEN t = [s EXCEPT !.k = @ + 1] ELSE t.k = 0

(* The frames lie one behind the other, only the last may be unfinished.   *)
OrderInv ==
    /\ \A i, j \in Slots :
          Pending(i) /\ Pending(j) /\ Offset(j) = Offset(i) + 1
            => Follows(seg[i], seg[j])
    /\ \A i \in Slots :
          Pending(i) /\ Offset(i) = Reserved - 1 /\ ~Tail(i)
            => seg[i].k = seg[i].n

(* The DMA is between two frames, or the next segment is there.            *)
WireInv ==
    IF wire = NoSeg THEN Pending(dmaIdx) => seg[dmaIdx].k = 0
    ELSE Pending(dmaIdx) /\ seg[dmaIdx] = [wire EXCEPT !.k = @ + 1]

(* Two descriptors have different positions.                               *)
LEMMA OffsetInjective ==
    ASSUME TypeOK, NEW i \in Slots, NEW j \in Slots, Offset(i) = Offset(j)
    PROVE  i = j
  BY SlotAdvance, WrapFacts DEF TypeOK, Offset, Slots

(* The next descriptor is one position further.                            *)
LEMMA OffsetSucc ==
    ASSUME TypeOK, NEW i \in Slots, Offset(i) < TxSize - 1
    PROVE  Succ(i) \in Slots /\ Offset(Succ(i)) = Offset(i) + 1
  BY SlotAdvance, WrapFacts DEF TypeOK, Offset, Succ, Slots

(* One descriptor always stays free.                                       *)
LEMMA ReservedFits ==
    ASSUME IInv
    PROVE  Reserved \in Nat /\ Reserved <= TxSize - 1
  BY StateFacts, WrapFacts DEF IInv, RoomInv, Reserved, Building, Owed, TypeOK

(* What the DMA owns at its position is no unfinished end of a frame.      *)
LEMMA NotTail ==
    ASSUME IInv, PosInv, own[dmaIdx]
    PROVE  ~Tail(dmaIdx)
  <1> SUFFICES ASSUME Tail(dmaIdx)
               PROVE  FALSE
    OBVIOUS
  <1>1. PICK d \in Slots : d = dmaIdx
    BY DEF IInv, TypeOK
  <1>2. PICK f \in Slots : f = xfirst
    BY DEF IInv, TypeOK
  <1>3. xpc = "frags" /\ d = Slot(cur_tx)
    BY <1>1 DEF Tail
  <1>4. Offset(d) = Reserved - 1 /\ Reserved \in Nat
    BY <1>3, StateFacts, WrapFacts DEF IInv, CursorInv, Reserved, Building
  <1>5. Pending(f) /\ Offset(f) \in Nat
    BY <1>2, <1>3, OffsetFacts DEF PosInv, IInv, Slots
  <1>6. f = d
    BY <1>1, <1>4, <1>5, OffsetInjective DEF Pending, IInv
  <1>7. ~Unready(d)
    BY <1>1 DEF PosInv
  <1> QED
    BY <1>2, <1>3, <1>6, <1>7 DEF Unready

(* Steps that leave the DMA, OWN and every position alone.                 *)
LEMMA PosSame ==
    ASSUME IInv, PosInv, UNCHANGED <<own, dmaIdx>>,
           Reserved' = Reserved, \A i \in Slots : Offset(i)' = Offset(i),
           xpc \in {"frags", "handover"} <=> xpc' \in {"frags", "handover"},
           xpc' \in {"frags", "handover"} => xfirst' = xfirst,
           NoLostKick'
    PROVE  PosInv'
  <1>1. dmaIdx \in Slots /\ xfirst \in Slots
    BY DEF IInv, TypeOK
  <1>2. \A i \in Slots : (Pending(i)' <=> Pending(i)) /\ (Unready(i)' <=> Unready(i))
    BY <1>1 DEF Pending, Unready
  <1>3. Offset(dmaIdx)' <= Reserved'
    <2>1. Offset(dmaIdx)' = Offset(dmaIdx)
      BY <1>1 DEF Offset
    <2> QED
      BY <2>1 DEF PosInv
  <1>4. \A i \in Slots : own'[i] <=> Pending(i)' /\ ~Unready(i)'
    BY <1>2 DEF PosInv
  <1>5. xpc' \in {"frags", "handover"} => Pending(xfirst)'
    <2> SUFFICES ASSUME xpc' \in {"frags", "handover"}
                 PROVE  Pending(xfirst)'
      OBVIOUS
    <2>1. Pending(xfirst) /\ xfirst' = xfirst
      BY DEF PosInv
    <2> QED
      BY <2>1, <1>1 DEF Pending
  <1> QED
    BY <1>3, <1>4, <1>5 DEF PosInv

(* The first descriptor of a frame is prepared where the DMA owns nothing. *)
LEMMA PosFirst ==
    ASSUME IInv, PosInv, XmitFirst
    PROVE  PosInv'
  <1>1. /\ UNCHANGED <<cursors, own, dmaIdx, dmaRunning>>
        /\ xpc = "lock" /\ xpc' = "frags" /\ xfirst' = Slot(cur_tx)
    BY DEF XmitFirst, dma
  <1>2. PICK e \in Slots : e = Slot(cur_tx)
    BY StateFacts DEF IInv
  <1>3. dmaIdx \in Slots /\ \A i \in Slots : Offset(i)' = Offset(i)
    BY <1>1, SameCursors DEF IInv, TypeOK
  <1>4. Offset(e) = Reserved /\ Reserved' = Reserved + 1 /\ Reserved \in Nat
    BY <1>1, <1>2, StateFacts, SameCursors, WrapFacts
       DEF IInv, CursorInv, Reserved, Building
  <1>5. \A i \in Slots : Pending(i)' <=> Pending(i) \/ i = e
    <2> SUFFICES ASSUME NEW i \in Slots
                 PROVE  Pending(i)' <=> Pending(i) \/ i = e
      OBVIOUS
    <2>1. /\ Offset(i) \in Nat /\ Offset(i)' = Offset(i)
          /\ Offset(dmaIdx)' = Offset(dmaIdx) /\ Offset(dmaIdx) \in Nat
          /\ Offset(dmaIdx) <= Reserved
      BY <1>1, <1>3, OffsetFacts DEF IInv, Slots, PosInv, Offset, Slot, cursors
    <2>2. Offset(i) = Reserved <=> i = e
      BY <1>4, OffsetInjective DEF IInv
    <2> QED
      BY <2>1, <2>2, <1>1, <1>4 DEF Pending
  <1>6. ~Pending(e) /\ \A i \in Slots : ~Unready(i) /\ (Unready(i)' <=> i = e)
    BY <1>1, <1>2, <1>4 DEF Pending, Unready
  <1>7. \A i \in Slots : own'[i] <=> Pending(i)' /\ ~Unready(i)'
    BY <1>1, <1>5, <1>6 DEF PosInv
  <1>8. Pending(xfirst)'
    BY <1>1, <1>2, <1>5 DEF Pending, Offset, Slot, cursors
  <1>9. NoLostKick'
    BY <1>1 DEF PosInv, NoLostKick
  <1>10. Offset(dmaIdx)' <= Reserved'
    BY <1>1, <1>3, <1>4, OffsetFacts
       DEF PosInv, Offset, Slot, cursors, IInv, Slots
  <1> QED
    BY <1>7, <1>8, <1>9, <1>10 DEF PosInv

(* A fragment is given away behind everything the DMA has to send.         *)
LEMMA PosFrag ==
    ASSUME IInv, PosInv, XmitFrag
    PROVE  PosInv'
  <1>1. /\ xpc = "frags" /\ xpc' = "frags" /\ xi < xfrags
        /\ UNCHANGED <<dirty_tx, dmaIdx, dmaRunning, xfirst>>
        /\ cur_tx' = Unsigned(cur_tx + 1)
    BY DEF XmitFrag, dma
  <1>2. InFlight + 2 <= TxSize - 1 /\ InFlight \in Nat
    BY <1>1, StateFacts, WrapFacts, SizesAssumption
       DEF IInv, RoomInv, Owed, TypeOK
  <1>3. /\ InFlight' = InFlight + 1
        /\ Offset(Slot(cur_tx))' = InFlight + 1
        /\ \A i \in Slots : Offset(i)' = Offset(i)
    BY <1>1, <1>2, CurStep, WrapFacts, SizesAssumption DEF IInv
  <1>4. PICK e \in Slots : e = Slot(cur_tx)'
    BY <1>1, <1>2, CurStep, SlotAdvance, WrapFacts, SizesAssumption
       DEF IInv, Slot
  <1>5. Offset(e) = Reserved /\ Reserved' = Reserved + 1 /\ Reserved \in Nat
    <2>1. Offset(e)' = Offset(Slot(cur_tx))'
      BY <1>4 DEF Offset
    <2>2. Reserved = InFlight + 1 /\ Reserved' = InFlight + 2
      BY <1>1, <1>2, <1>3 DEF Reserved, Building
    <2> QED
      BY <2>1, <2>2, <1>2, <1>3
  <1>6. own' = [own EXCEPT ![e] = TRUE]
    BY <1>4 DEF XmitFrag, Slot
  <1>7. /\ dmaIdx \in Slots /\ xfirst \in Slots
        /\ Offset(dmaIdx) <= Offset(xfirst) /\ Offset(xfirst) < Reserved
        /\ Offset(dmaIdx) \in Nat /\ Offset(xfirst) \in Nat
    BY <1>1, OffsetFacts DEF IInv, TypeOK, PosInv, Pending, Slots
  <1>8. /\ Offset(dmaIdx)' = Offset(dmaIdx) /\ Offset(xfirst)' = Offset(xfirst)
        /\ dmaIdx # e /\ xfirst # e
    BY <1>1, <1>5, <1>7 DEF Offset, Slot
  <1>9. \A i \in Slots : Pending(i)' <=> Pending(i) \/ i = e
    <2> SUFFICES ASSUME NEW i \in Slots
                 PROVE  Pending(i)' <=> Pending(i) \/ i = e
      OBVIOUS
    <2>1. Offset(i) \in Nat /\ Offset(i)' = Offset(i)
      BY <1>3, OffsetFacts DEF IInv, Slots
    <2>2. Offset(i) = Reserved <=> i = e
      BY <1>5, OffsetInjective DEF IInv
    <2> QED
      BY <2>1, <2>2, <1>1, <1>5, <1>7, <1>8 DEF Pending
  <1>10. \A i \in Slots : own'[i] <=> Pending(i)' /\ ~Unready(i)'
    BY <1>1, <1>6, <1>8, <1>9 DEF PosInv, Unready, IInv, TypeOK
  <1>11. Pending(xfirst)'
    BY <1>1, <1>5, <1>7, <1>8 DEF Pending
  <1>12. NoLostKick'
    BY <1>1, <1>6, <1>8 DEF PosInv, NoLostKick, IInv, TypeOK
  <1> QED
    BY <1>5, <1>7, <1>8, <1>10, <1>11, <1>12 DEF PosInv

(* The first descriptor is given away; the poll demand follows.            *)
LEMMA PosHandOver ==
    ASSUME IInv, PosInv, XmitHandOver
    PROVE  PosInv'
  <1>1. /\ UNCHANGED <<cursors, dmaIdx>> /\ xpc = "handover" /\ xpc' = "publish"
        /\ own' = [own EXCEPT ![xfirst] = TRUE]
    BY DEF XmitHandOver, dma
  <1>2. dmaIdx \in Slots /\ \A i \in Slots : Offset(i)' = Offset(i)
    BY <1>1, SameCursors DEF IInv, TypeOK
  <1>3. Offset(dmaIdx)' = Offset(dmaIdx)
    BY <1>1 DEF Offset, Slot, cursors
  <1>4. Reserved' = Reserved
    BY <1>1, SameCursors DEF Reserved, Building
  <1>5. \A i \in Slots : Pending(i)' <=> Pending(i)
    BY <1>1, <1>2, <1>3, <1>4 DEF Pending
  <1>6. \A i \in Slots : own'[i] <=> Pending(i)' /\ ~Unready(i)'
    BY <1>1, <1>5 DEF PosInv, Unready, IInv, TypeOK
  <1> QED
    BY <1>1, <1>3, <1>4, <1>6 DEF PosInv, NoLostKick

(* tx_clean reclaims a descriptor the DMA has passed.                      *)
LEMMA PosFree ==
    ASSUME IInv, SentInv, PosInv, NEW c \in Cleaners, CleanFree(c)
    PROVE  /\ PosInv'
           /\ ~Pending(centry[c])
           /\ \A i \in Slots : Pending(i)' <=> Pending(i)
  <1>1. /\ cpc[c] = "free" /\ UNCHANGED <<cur_tx, xpc, dmaIdx, dmaRunning>>
        /\ dirty_tx' = Unsigned(dirty_tx + 1)
    BY DEF CleanFree, dma
  <1>2. PICK e \in Slots : e = centry[c]
    BY DEF IInv, TypeOK
  <1>3. /\ dirty_tx # cur_tx /\ e = Slot(dirty_tx) /\ ~own[e]
        /\ own' = [own EXCEPT ![e] = FALSE]
    BY <1>1, <1>2 DEF IInv, FreeInv, SentInv, CleanFree
  <1>4. xpc \notin Building
    BY <1>1 DEF IInv, LockInv, Locked, Active, Building, Cleaners
  <1>5. /\ InFlight' = InFlight - 1 /\ InFlight \in Nat /\ InFlight > 0
        /\ \A i \in Slots :
             Offset(i)' = IF i = e THEN TxSize - 1 ELSE Offset(i) - 1
        /\ \A i \in Slots : i # e => Offset(i) > 0
    BY <1>1, <1>3, DirtyStep, StateFacts, WrapFacts DEF IInv
  <1>6. /\ Reserved = InFlight /\ Reserved' = InFlight - 1
        /\ InFlight <= TxSize - 1 /\ TxSize \in Nat
    BY <1>1, <1>4, <1>5, ReservedFits, SizesAssumption DEF Reserved, Building
  <1>7. Offset(e) = 0
    BY <1>2, <1>3, WrapFacts DEF Offset, Slots
  <1>8. \A i \in Slots : ~Unready(i) /\ ~Unready(i)'
    BY <1>1, <1>4 DEF Unready, Building
  <1>9. ~Pending(e)
    BY <1>3, <1>8 DEF PosInv
  <1>10. /\ dmaIdx \in Slots /\ dmaIdx # e /\ Offset(dmaIdx) \in Nat
         /\ Offset(dmaIdx) <= InFlight /\ Offset(dmaIdx)' = Offset(dmaIdx) - 1
    <2>1. dmaIdx \in Slots /\ Offset(dmaIdx) \in Nat /\ Offset(dmaIdx) <= InFlight
      BY <1>6, OffsetFacts DEF IInv, TypeOK, PosInv, Slots
    <2>2. dmaIdx # e
      BY <1>5, <1>6, <1>7, <1>9 DEF Pending
    <2>3. Offset(dmaIdx)' = Offset(dmaIdx) - 1
      <3> PICK d \in Slots : d = dmaIdx
        BY <2>1
      <3>1. Offset(d)' = Offset(d) - 1
        BY <1>5, <2>2
      <3>2. Offset(d)' = Offset(dmaIdx)'
        BY <1>1 DEF Offset
      <3> QED
        BY <3>1, <3>2
    <2> QED
      BY <2>1, <2>2, <2>3
  <1>11. \A i \in Slots : Pending(i)' <=> Pending(i)
    <2> SUFFICES ASSUME NEW i \in Slots
                 PROVE  Pending(i)' <=> Pending(i)
      OBVIOUS
    <2>1. CASE i = e
      BY <2>1, <1>5, <1>6, <1>9 DEF Pending
    <2>2. CASE i # e
      <3>1. Offset(i)' = Offset(i) - 1 /\ Offset(i) \in Nat
        BY <2>2, <1>5, OffsetFacts DEF IInv, Slots
      <3> QED
        BY <3>1, <1>6, <1>10, <1>5 DEF Pending
    <2> QED
      BY <2>1, <2>2
  <1>12. \A i \in Slots : own'[i] <=> Pending(i)' /\ ~Unready(i)'
    BY <1>3, <1>8, <1>9, <1>11 DEF PosInv, IInv, TypeOK
  <1>13. NoLostKick'
    BY <1>1, <1>3, <1>10 DEF PosInv, NoLostKick, IInv, TypeOK
  <1>14. xpc' \notin {"frags", "handover"} /\ Offset(dmaIdx)' <= Reserved'
    BY <1>1, <1>4, <1>5, <1>6, <1>10 DEF Building
  <1> QED
    BY <1>2, <1>9, <1>11, <1>12, <1>13, <1>14 DEF PosInv

(* The DMA sends the segment at its descriptor and goes on to the next.    *)
LEMMA PosSend ==
    ASSUME IInv, PosInv, DmaSend
    PROVE  /\ PosInv'
           /\ Pending(dmaIdx)
           /\ \A i \in Slots : Pending(i)' <=> Pending(i) /\ i # dmaIdx
           /\ dmaIdx' \in Slots /\ Offset(dmaIdx') = Offset(dmaIdx) + 1
           /\ ~Tail(dmaIdx)
  <1>1. /\ UNCHANGED <<cursors, xpc, xfirst, dmaRunning>>
        /\ dmaRunning /\ own[dmaIdx] /\ dmaIdx' = Succ(dmaIdx)
        /\ own' = [own EXCEPT ![dmaIdx] = FALSE]
    BY DEF DmaSend, xlocals
  <1>2. PICK d \in Slots : d = dmaIdx
    BY DEF IInv, TypeOK
  <1>3. /\ Pending(d) /\ ~Unready(d)
        /\ Offset(d) \in Nat /\ Offset(d) < Reserved
        /\ Reserved \in Nat /\ Reserved <= TxSize - 1 /\ TxSize \in Nat
    BY <1>1, <1>2, ReservedFits, OffsetFacts, SizesAssumption
       DEF IInv, PosInv, Pending, Slots
  <1>4. Succ(d) \in Slots /\ Offset(Succ(d)) = Offset(d) + 1
    BY <1>3, OffsetSucc DEF IInv
  <1>5. Reserved' = Reserved /\ \A i \in Slots : Offset(i)' = Offset(i)
    BY <1>1, SameCursors DEF Reserved
  <1>6. Offset(dmaIdx)' = Offset(d) + 1
    <2>1. Offset(dmaIdx)' = Offset(Succ(d))'
      BY <1>1, <1>2 DEF Offset
    <2>2. Offset(Succ(d))' = Offset(Succ(d))
      BY <1>1, <1>2 DEF Offset, Slot, Succ, cursors
    <2> QED
      BY <2>1, <2>2, <1>4
  <1>7. \A i \in Slots : Pending(i)' <=> Pending(i) /\ i # d
    <2> SUFFICES ASSUME NEW i \in Slots
                 PROVE  Pending(i)' <=> Pending(i) /\ i # d
      OBVIOUS
    <2>1. Offset(i) \in Nat /\ Offset(i)' = Offset(i)
      BY <1>5, OffsetFacts DEF IInv, Slots
    <2>2. Offset(i) = Offset(d) <=> i = d
      BY OffsetInjective DEF IInv
    <2> QED
      BY <2>1, <2>2, <1>2, <1>3, <1>5, <1>6 DEF Pending
  <1>8. \A i \in Slots : Unready(i)' <=> Unready(i)
    BY <1>1 DEF Unready
  <1>9. \A i \in Slots : own'[i] <=> Pending(i)' /\ ~Unready(i)'
    BY <1>1, <1>2, <1>7, <1>8 DEF PosInv, IInv, TypeOK
  <1>10. xpc' \in {"frags", "handover"} => Pending(xfirst)'
    <2> SUFFICES ASSUME xpc' \in {"frags", "handover"}
                 PROVE  Pending(xfirst)'
      OBVIOUS
    <2>1. PICK f \in Slots : f = xfirst
      BY DEF IInv, TypeOK
    <2>2. Pending(f) /\ f # d
      BY <1>1, <1>3, <2>1 DEF PosInv, Unready
    <2>3. Pending(f)'
      BY <2>2, <1>7
    <2> QED
      BY <2>1, <2>3, <1>1 DEF Pending, Offset
  <1>11. ~Tail(d)
    BY <1>1, <1>2, NotTail
  <1>12. Offset(dmaIdx)' <= Reserved' /\ NoLostKick'
    BY <1>1, <1>3, <1>5, <1>6 DEF NoLostKick
  <1> QED
    BY <1>1, <1>2, <1>3, <1>4, <1>7, <1>9, <1>10, <1>11, <1>12 DEF PosInv

(* Steps of tx_clean, of the handlers and stuttering steps.                *)
LEMMA PosQuiet ==
    ASSUME IInv, PosInv, UNCHANGED <<cursors, own, dmaIdx, dmaRunning, xpc, xfirst>>
    PROVE  PosInv'
  <1>1. Reserved' = Reserved /\ \A i \in Slots : Offset(i)' = Offset(i)
    BY SameCursors DEF Reserved
  <1>2. NoLostKick'
    BY DEF PosInv, NoLostKick
  <1> QED
    BY <1>1, <1>2, PosSame

LEMMA PosNext ==
    ASSUME IInv, SentInv, PosInv, [Next]_vars
    PROVE  PosInv'
  <1>1. ASSUME NEW s \in Skbs, NEW n \in 0 .. MaxFrags,
               XmitAccept(s, n) \/ XmitFull(s, n)
        PROVE  PosInv'
    <2>1. /\ UNCHANGED <<cursors, own, dmaIdx, dmaRunning, xfirst>>
          /\ xpc = "idle" /\ xpc' \in {"lock", "full"}
      BY <1>1 DEF XmitAccept, XmitFull, Call, descs, dma
    <2>2. Reserved' = Reserved /\ \A i \in Slots : Offset(i)' = Offset(i)
      BY <2>1, SameCursors DEF Reserved, Building
    <2>3. NoLostKick'
      BY <2>1 DEF PosInv, NoLostKick
    <2> QED
      BY <2>1, <2>2, <2>3, PosSame
  <1>2. CASE XmitStep
    <2>1. CASE XmitBusy \/ XmitKick
      <3>1. /\ UNCHANGED <<cursors, own, dmaIdx>> /\ xpc \in {"full", "kick"}
            /\ xpc' = "idle" /\ (dmaRunning' = dmaRunning \/ dmaRunning')
            /\ (xpc = "kick" => dmaRunning')
        BY <2>1 DEF XmitBusy, XmitKick, descs, dma
      <3>2. Reserved' = Reserved /\ \A i \in Slots : Offset(i)' = Offset(i)
        BY <3>1, SameCursors DEF Reserved, Building
      <3>3. NoLostKick'
        BY <3>1 DEF PosInv, NoLostKick
      <3> QED
        BY <3>1, <3>2, <3>3, PosSame
    <2>2. CASE XmitClose
      <3>1. /\ UNCHANGED <<cursors, own, dmaIdx, dmaRunning, xfirst>>
            /\ xpc = "frags" /\ xpc' = "handover"
        BY <2>2 DEF XmitClose, dma, xlocals
      <3>2. Reserved' = Reserved /\ \A i \in Slots : Offset(i)' = Offset(i)
        BY <3>1, SameCursors DEF Reserved, Building
      <3>3. NoLostKick'
        BY <3>1 DEF PosInv, NoLostKick
      <3> QED
        BY <3>1, <3>2, <3>3, PosSame
    <2>3. CASE XmitPublish
      <3>1. /\ UNCHANGED <<dirty_tx, own, dmaIdx, dmaRunning>> /\ xpc = "publish"
            /\ xpc' = "kick" /\ cur_tx' = Unsigned(cur_tx + 1)
        BY <2>3 DEF XmitPublish, descs, dma
      <3>2. InFlight < TxSize - 1 /\ InFlight \in Nat
        BY <3>1, StateFacts, WrapFacts DEF IInv, RoomInv, Owed
      <3>3. InFlight' = InFlight + 1 /\ \A i \in Slots : Offset(i)' = Offset(i)
        BY <3>1, <3>2, CurStep DEF IInv
      <3>4. Reserved' = Reserved
        BY <3>1, <3>3 DEF Reserved, Building
      <3>5. NoLostKick'
        BY <3>1 DEF NoLostKick
      <3> QED
        BY <3>1, <3>3, <3>4, <3>5, PosSame
    <2> QED
      BY <1>2, <2>1, <2>2, <2>3, PosFirst, PosFrag, PosHandOver DEF XmitStep
  <1>3. ASSUME NEW c \in Cleaners, CleanStep(c)
        PROVE  PosInv'
    <2>1. CASE CleanLock(c) \/ CleanTake(c) \/ CleanDone(c) \/ CleanWake(c)
               \/ CleanUnlock(c)
      <3>1. UNCHANGED <<cursors, descs, dma, xpc, xlocals>>
        BY <2>1 DEF CleanLock, CleanTake, CleanDone, CleanWake, CleanUnlock
      <3> QED
        BY <3>1, PosQuiet DEF descs, dma, xlocals
    <2> QED
      BY <1>3, <2>1, PosFree DEF CleanStep
  <1>4. CASE TxInterrupt \/ RxInterrupt \/ TimerFires \/ UNCHANGED vars
    <2>1. UNCHANGED <<cursors, descs, dma, xpc, xlocals>>
      BY <1>4 DEF TxInterrupt, RxInterrupt, TimerFires, vars
    <2> QED
      BY <2>1, PosQuiet DEF descs, dma, xlocals
  <1>5. CASE DmaSuspend
    <2>1. UNCHANGED <<cursors, own, dmaIdx, xpc, xfirst>> /\ ~own[dmaIdx]
      BY <1>5 DEF DmaSuspend, descs, xlocals
    <2>2. Reserved' = Reserved /\ \A i \in Slots : Offset(i)' = Offset(i)
      BY <2>1, SameCursors DEF Reserved
    <2>3. NoLostKick'
      BY <2>1 DEF NoLostKick
    <2> QED
      BY <2>1, <2>2, <2>3, PosSame
  <1> QED
    BY <1>1, <1>2, <1>3, <1>4, <1>5, PosSend DEF Next

(* The DMA stands at the oldest descriptor it has to send; the ring starts *)
(* empty.                                                                  *)
LEMMA PosInit ==
    ASSUME Init
    PROVE  PosInv
  <1>1. TypeOK /\ CallInv /\ RoomInv /\ CursorInv
    BY InitIInv DEF IInv
  <1>2. InFlight = 0 /\ Slot(cur_tx) = Slot(dirty_tx) /\ Slot(dirty_tx) = 0
    BY <1>1, StateFacts, SlotAdvance, SizesAssumption DEF Init, Slot
  <1>3. Reserved = 0 /\ Offset(dmaIdx) = 0
    BY <1>2, WrapFacts DEF Init, Reserved, Building, Offset
  <1>4. \A i \in Slots : ~Pending(i)
    BY <1>1, <1>3, OffsetFacts DEF Pending, Slots
  <1> QED
    BY <1>3, <1>4 DEF Init, PosInv, NoLostKick

(* The DMA position, inductively.                                          *)
LEMMA PosInductive == Spec => [](IInv /\ SentInv /\ PosInv)
  <1>1. Init => SentInv /\ PosInv
    BY PosInit DEF Init, SentInv, Cleaners
  <1>2. IInv /\ SentInv /\ PosInv /\ [Next]_vars => SentInv' /\ PosInv'
    BY SentNext, PosNext
  <1> QED
    BY <1>1, <1>2, Inductive, PTL DEF Spec

(* A suspended DMA never sleeps on a descriptor it owns: stmmac_xmit's     *)
(* poll demand comes after the last OWN bit it sets, and in between the    *)
(* DMA finds no descriptor of its own before the first one of the frame.   *)
THEOREM PollDemandNotLost == Spec => []NoLostKick
  <1>1. PosInv => NoLostKick
    BY DEF PosInv
  <1> QED
    BY <1>1, PosInductive, PTL

-----------------------------------------------------------------------------
(* The transmit interrupt.                                                 *)

(* Steps that send nothing, reclaim nothing and keep the handler going.    *)
LEMMA InterruptSame ==
    ASSUME IInv, NoLostInterrupt, UNCHANGED <<own, ls, ic>>,
           Reserved' = Reserved, \A i \in Slots : Offset(i)' = Offset(i),
           \A i \in Slots : Unready(i) => Unready(i)',
           ti => ti' \/ cpc'["irq"] = "lock",
           cpc["irq"] \in {"lock", "loop", "free"}
             => cpc'["irq"] \in {"lock", "loop", "free"}
    PROVE  NoLostInterrupt'
  <1> SUFFICES ASSUME NEW i \in Slots, Sent(i)', ls'[i], ic'[i]
               PROVE  ti' \/ cpc'["irq"] \in {"lock", "loop", "free"}
    BY DEF NoLostInterrupt
  <1>1. Sent(i)
    BY DEF Sent
  <1> QED
    BY <1>1 DEF NoLostInterrupt

(* A descriptor is put to use that the DMA has not sent.                   *)
LEMMA InterruptFirst ==
    ASSUME IInv, NoLostInterrupt, XmitFirst
    PROVE  NoLostInterrupt'
  <1>1. /\ UNCHANGED <<cursors, own, ls, ic, ti, cpc>>
        /\ xpc = "lock" /\ xpc' = "frags" /\ xfirst' = Slot(cur_tx)
    BY DEF XmitFirst, cleaner
  <1>2. Reserved = InFlight /\ Reserved' = InFlight + 1 /\ InFlight \in Nat
    BY <1>1, SameCursors, StateFacts DEF IInv, Reserved, Building
  <1> SUFFICES ASSUME NEW i \in Slots, Sent(i)', ls'[i], ic'[i]
               PROVE  ti' \/ cpc'["irq"] \in {"lock", "loop", "free"}
    BY DEF NoLostInterrupt
  <1>3. Offset(i)' = Offset(i) /\ Offset(i) \in Nat
    BY <1>1, SameCursors, OffsetFacts DEF IInv, Slots
  <1>4. i # Slot(cur_tx) /\ ~own[i] /\ Offset(i) <= InFlight
    BY <1>1, <1>2, <1>3 DEF Sent, Unready
  <1>5. Offset(i) # InFlight
    BY <1>4, StateFacts, OffsetInjective DEF IInv, CursorInv
  <1>6. Sent(i)
    BY <1>1, <1>2, <1>3, <1>4, <1>5 DEF Sent, Unready
  <1> QED
    BY <1>1, <1>6 DEF NoLostInterrupt

(* A fragment is the DMA's as soon as it is in use.                        *)
LEMMA InterruptFrag ==
    ASSUME IInv, PosInv, NoLostInterrupt, XmitFrag
    PROVE  NoLostInterrupt'
  <1>1. /\ UNCHANGED <<dirty_tx, ls, ic, ti, cpc, xfirst>>
        /\ xpc = "frags" /\ xpc' = "frags" /\ xi < xfrags
        /\ cur_tx' = Unsigned(cur_tx + 1)
    BY DEF XmitFrag, cleaner
  <1>2. InFlight + 2 <= TxSize - 1 /\ InFlight \in Nat
    BY <1>1, StateFacts, WrapFacts, SizesAssumption
       DEF IInv, RoomInv, Owed, TypeOK
  <1>3. /\ InFlight' = InFlight + 1
        /\ Offset(Slot(cur_tx))' = InFlight + 1
        /\ \A i \in Slots : Offset(i)' = Offset(i)
    BY <1>1, <1>2, CurStep, WrapFacts, SizesAssumption DEF IInv
  <1>4. PICK e \in Slots : e = Slot(cur_tx)'
    BY <1>1, <1>2, CurStep, SlotAdvance, WrapFacts, SizesAssumption
       DEF IInv, Slot
  <1>5. Reserved = InFlight + 1 /\ Reserved' = InFlight + 2
    BY <1>1, <1>2, <1>3 DEF Reserved, Building
  <1>6. Offset(e) = InFlight + 1
    <2>1. Offset(e)' = Offset(Slot(cur_tx))'
      BY <1>4 DEF Offset
    <2> QED
      BY <2>1, <1>3
  <1>7. own' = [own EXCEPT ![e] = TRUE]
    BY <1>4 DEF XmitFrag, Slot
  <1> SUFFICES ASSUME NEW i \in Slots, Sent(i)', ls'[i], ic'[i]
               PROVE  ti' \/ cpc'["irq"] \in {"lock", "loop", "free"}
    BY DEF NoLostInterrupt
  <1>8. i # e /\ ~own[i]
    BY <1>7 DEF Sent, IInv, TypeOK
  <1>9. Offset(i)' = Offset(i) /\ Offset(i) \in Nat /\ Offset(i) # InFlight + 1
    BY <1>3, <1>6, <1>8, OffsetFacts, OffsetInjective DEF IInv, Slots
  <1>10. Sent(i)
    BY <1>1, <1>2, <1>5, <1>8, <1>9 DEF Sent, Unready
  <1> QED
    BY <1>1, <1>10 DEF NoLostInterrupt

(* The INTERRUPT bit is written while the DMA cannot reach the descriptor: *)
(* it still owns it, or the descriptor is the first of the frame.          *)
LEMMA InterruptClose ==
    ASSUME IInv, PosInv, NoLostInterrupt, XmitClose
    PROVE  NoLostInterrupt'
  <1> DEFINE quiet == CoalFrames > tx_count_frames + xfrags + 1
  <1>1. /\ UNCHANGED <<cursors, own, ti, cpc, xfirst>>
        /\ xpc = "frags" /\ xpc' = "handover"
        /\ ls' = [ls EXCEPT ![Slot(cur_tx)] = TRUE]
        /\ ic' = [ic EXCEPT ![Slot(cur_tx)] = ~quiet]
    BY DEF XmitClose, cleaner, xlocals
  <1> HIDE DEF quiet
  <1>2. PICK e \in Slots : e = Slot(cur_tx)
    BY StateFacts DEF IInv
  <1>3. Offset(e) = InFlight /\ Reserved = InFlight + 1 /\ InFlight \in Nat
        /\ Reserved' = Reserved
    BY <1>1, <1>2, SameCursors, StateFacts
       DEF IInv, CursorInv, Reserved, Building
  <1>4. own[e] \/ e = xfirst
    <2>1. xfirst \in Slots /\ Pending(xfirst) /\ dmaIdx \in Slots
      BY <1>1 DEF PosInv, IInv, TypeOK
    <2>2. Pending(e)
      BY <2>1, <1>3, OffsetFacts DEF Pending, IInv, Slots
    <2> QED
      BY <2>2 DEF PosInv, Unready
  <1> SUFFICES ASSUME NEW i \in Slots, Sent(i)', ls'[i], ic'[i]
               PROVE  ti' \/ cpc'["irq"] \in {"lock", "loop", "free"}
    BY DEF NoLostInterrupt
  <1>5. i # e
    BY <1>1, <1>4 DEF Sent, Unready
  <1>6. Sent(i)
    BY <1>1, <1>3, SameCursors DEF Sent, Unready
  <1>7. ls[i] /\ ic[i]
    BY <1>1, <1>2, <1>5 DEF IInv, TypeOK
  <1> QED
    BY <1>1, <1>6, <1>7 DEF NoLostInterrupt

(* The first descriptor is the DMA's when it stops being unready.          *)
LEMMA InterruptHandOver ==
    ASSUME IInv, NoLostInterrupt, XmitHandOver
    PROVE  NoLostInterrupt'
  <1>1. /\ UNCHANGED <<cursors, ls, ic, ti, cpc, xfirst>>
        /\ xpc = "handover" /\ xpc' = "publish"
        /\ own' = [own EXCEPT ![xfirst] = TRUE]
    BY DEF XmitHandOver, cleaner, xlocals
  <1>2. Reserved' = Reserved
    BY <1>1, SameCursors DEF Reserved, Building
  <1> SUFFICES ASSUME NEW i \in Slots, Sent(i)', ls'[i], ic'[i]
               PROVE  ti' \/ cpc'["irq"] \in {"lock", "loop", "free"}
    BY DEF NoLostInterrupt
  <1>3. i # xfirst /\ ~own[i]
    BY <1>1 DEF Sent, IInv, TypeOK
  <1>4. Sent(i)
    BY <1>1, <1>2, <1>3, SameCursors DEF Sent, Unready
  <1> QED
    BY <1>1, <1>4 DEF NoLostInterrupt

(* tx_clean ends its loop only when every descriptor in use is the DMA's.  *)
LEMMA InterruptDone ==
    ASSUME IInv, PosInv, NEW c \in Cleaners, CleanDone(c)
    PROVE  \A i \in Slots : ~Sent(i)
  <1>1. cpc[c] = "loop" /\ (dirty_tx = cur_tx \/ own[Slot(dirty_tx)])
    BY DEF CleanDone
  <1>2. xpc \notin Building
    BY <1>1 DEF IInv, LockInv, Locked, Active, Building, Cleaners
  <1>a. Reserved = InFlight
    BY <1>2, StateFacts DEF IInv, Reserved
  <1> SUFFICES ASSUME NEW i \in Slots, Offset(i) < Reserved
               PROVE  own[i]
    BY DEF Sent
  <1>3. Offset(i) \in Nat /\ Offset(dmaIdx) \in Nat
    BY OffsetFacts DEF IInv, TypeOK, Slots
  <1>4. dirty_tx # cur_tx
    BY <1>a, <1>3, StateFacts DEF IInv
  <1>5. PICK d \in Slots : d = Slot(dirty_tx)
    BY StateFacts DEF IInv
  <1>6. Offset(d) = 0
    BY <1>5, WrapFacts DEF Offset, Slots
  <1>7. Pending(d)
    BY <1>1, <1>4, <1>5 DEF PosInv
  <1>8. Pending(i)
    BY <1>3, <1>6, <1>7 DEF Pending
  <1> QED
    BY <1>2, <1>8 DEF PosInv, Unready, Building

(* tx_clean takes the oldest descriptor out of use.                        *)
LEMMA InterruptFree ==
    ASSUME IInv, SentInv, PosInv, NoLostInterrupt, NEW c \in Cleaners,
           CleanFree(c)
    PROVE  NoLostInterrupt'
  <1>1. /\ cpc[c] = "free" /\ UNCHANGED <<cur_tx, xpc, ti>>
        /\ dirty_tx' = Unsigned(dirty_tx + 1)
        /\ cpc' = [cpc EXCEPT ![c] = "loop"]
    BY DEF CleanFree
  <1>2. PICK e \in Slots : e = centry[c]
    BY DEF IInv, TypeOK
  <1>3. /\ dirty_tx # cur_tx /\ e = Slot(dirty_tx)
        /\ own' = [own EXCEPT ![e] = FALSE]
        /\ ls' = [ls EXCEPT ![e] = FALSE]
        /\ ic' = [ic EXCEPT ![e] = FALSE]
    BY <1>1, <1>2 DEF IInv, FreeInv, CleanFree
  <1>4. xpc \notin Building
    BY <1>1 DEF IInv, LockInv, Locked, Active, Building, Cleaners
  <1>5. /\ InFlight' = InFlight - 1 /\ InFlight \in Nat
        /\ \A i \in Slots :
             Offset(i)' = IF i = e THEN TxSize - 1 ELSE Offset(i) - 1
    BY <1>1, <1>3, DirtyStep, StateFacts, WrapFacts DEF IInv
  <1>6. Reserved = InFlight /\ Reserved' = InFlight - 1
    BY <1>1, <1>4, <1>5 DEF Reserved, Building
  <1> SUFFICES ASSUME NEW i \in Slots, Sent(i)', ls'[i], ic'[i]
               PROVE  ti' \/ cpc'["irq"] \in {"lock", "loop", "free"}
    BY DEF NoLostInterrupt
  <1>7. i # e /\ ls[i] /\ ic[i] /\ ~own[i]
    BY <1>3 DEF Sent, IInv, TypeOK
  <1>8. Offset(i)' = Offset(i) - 1 /\ Offset(i) \in Nat
    BY <1>5, <1>7, OffsetFacts DEF IInv, Slots
  <1>9. Sent(i)
    BY <1>4, <1>5, <1>6, <1>7, <1>8 DEF Sent, Unready, Building
  <1>10. ti \/ cpc["irq"] \in {"lock", "loop", "free"}
    BY <1>7, <1>9 DEF NoLostInterrupt
  <1> QED
    BY <1>1, <1>10 DEF IInv, TypeOK

(* The DMA raises the interrupt with the last segment that asks for it.    *)
LEMMA InterruptSend ==
    ASSUME IInv, NoLostInterrupt, DmaSend
    PROVE  NoLostInterrupt'
  <1>1. /\ UNCHANGED <<cursors, ls, ic, cpc, xpc, xfirst>>
        /\ own' = [own EXCEPT ![dmaIdx] = FALSE]
        /\ ti' = (ti \/ (ls[dmaIdx] /\ ic[dmaIdx]))
    BY DEF DmaSend, cleaner, xlocals
  <1>2. Reserved' = Reserved
    BY <1>1, SameCursors DEF Reserved
  <1> SUFFICES ASSUME NEW i \in Slots, Sent(i)', ls'[i], ic'[i]
               PROVE  ti' \/ cpc'["irq"] \in {"lock", "loop", "free"}
    BY DEF NoLostInterrupt
  <1>3. CASE i = dmaIdx
    BY <1>1, <1>3
  <1>4. CASE i # dmaIdx
    <2>1. Sent(i)
      BY <1>1, <1>2, <1>4, SameCursors DEF Sent, Unready, IInv, TypeOK
    <2> QED
      BY <2>1, <1>1 DEF NoLostInterrupt
  <1> QED
    BY <1>3, <1>4

LEMMA InterruptNext ==
    ASSUME IInv, SentInv, PosInv, NoLostInterrupt, [Next]_vars
    PROVE  NoLostInterrupt'
  <1>a. ASSUME UNCHANGED <<cursors, own, ls, ic, xpc, xfirst>>,
               ti => ti' \/ cpc'["irq"] = "lock",
               cpc["irq"] \in {"lock", "loop", "free"}
                 => cpc'["irq"] \in {"lock", "loop", "free"}
        PROVE  NoLostInterrupt'
    <2>1. Reserved' = Reserved /\ \A i \in Slots : Offset(i)' = Offset(i)
      BY <1>a, SameCursors DEF Reserved
    <2>2. \A i \in Slots : Unready(i) => Unready(i)'
      BY <1>a DEF Unready
    <2> QED
      BY <1>a, <2>1, <2>2, InterruptSame
  <1>b. ASSUME UNCHANGED <<own, ls, ic, ti, cpc>>, Reserved' = Reserved,
               \A i \in Slots : Offset(i)' = Offset(i),
               xpc \notin {"frags", "handover"}
        PROVE  NoLostInterrupt'
    BY <1>b, InterruptSame DEF Unready
  <1>1. ASSUME NEW s \in Skbs, NEW n \in 0 .. MaxFrags,
               XmitAccept(s, n) \/ XmitFull(s, n)
        PROVE  NoLostInterrupt'
    <2>1. /\ UNCHANGED <<cursors, own, ls, ic, ti, cpc>>
          /\ xpc = "idle" /\ xpc' \in {"lock", "full"}
      BY <1>1 DEF XmitAccept, XmitFull, Call, descs, cleaner
    <2>2. Reserved' = Reserved /\ \A i \in Slots : Offset(i)' = Offset(i)
      BY <2>1, SameCursors DEF Reserved, Building
    <2> QED
      BY <2>1, <2>2, <1>b
  <1>2. CASE XmitStep
    <2>1. CASE XmitBusy \/ XmitKick
      <3>1. /\ UNCHANGED <<cursors, own, ls, ic, ti, cpc>>
            /\ xpc \in {"full", "kick"} /\ xpc' = "idle"
        BY <2>1 DEF XmitBusy, XmitKick, descs, cleaner
      <3>2. Reserved' = Reserved /\ \A i \in Slots : Offset(i)' = Offset(i)
        BY <3>1, SameCursors DEF Reserved, Building
      <3> QED
        BY <3>1, <3>2, <1>b
    <2>2. CASE XmitPublish
      <3>1. /\ UNCHANGED <<dirty_tx, own, ls, ic, ti, cpc>> /\ xpc = "publish"
            /\ xpc' = "kick" /\ cur_tx' = Unsigned(cur_tx + 1)
        BY <2>2 DEF XmitPublish, descs, cleaner
      <3>2. InFlight < TxSize - 1 /\ InFlight \in Nat
        BY <3>1, StateFacts, WrapFacts DEF IInv, RoomInv, Owed
      <3>3. InFlight' = InFlight + 1 /\ \A i \in Slots : Offset(i)' = Offset(i)
        BY <3>1, <3>2, CurStep DEF IInv
      <3>4. Reserved' = Reserved
        BY <3>1, <3>3 DEF Reserved, Building
      <3> QED
        BY <3>1, <3>3, <3>4, <1>b
    <2> QED
      BY <1>2, <2>1, <2>2, InterruptFirst, InterruptFrag, InterruptClose,
         InterruptHandOver DEF XmitStep
  <1>3. ASSUME NEW c \in Cleaners, CleanStep(c)
        PROVE  NoLostInterrupt'
    <2>1. CASE CleanLock(c) \/ CleanTake(c)
      <3>1. /\ UNCHANGED <<cursors, descs, xpc, xlocals, ti>>
            /\ \/ cpc' = [cpc EXCEPT ![c] = "loop"]
               \/ cpc' = [cpc EXCEPT ![c] = "free"]
        BY <2>1 DEF CleanLock, CleanTake
      <3>2. cpc["irq"] \in {"lock", "loop", "free"}
              => cpc'["irq"] \in {"lock", "loop", "free"}
        BY <3>1 DEF IInv, TypeOK, Cleaners
      <3> QED
        BY <3>1, <3>2, <1>a DEF descs, xlocals
    <2>2. CASE CleanDone(c)
      <3>1. UNCHANGED <<cursors, descs, xpc, xlocals>>
        BY <2>2 DEF CleanDone
      <3>2. Reserved' = Reserved /\ \A i \in Slots : Offset(i)' = Offset(i)
        BY <3>1, SameCursors DEF Reserved
      <3>3. \A i \in Slots : ~Sent(i)'
        BY <2>2, <3>1, <3>2, InterruptDone DEF Sent, Unready, descs, xlocals
      <3> QED
        BY <3>3 DEF NoLostInterrupt
    <2>3. CASE CleanWake(c) \/ CleanUnlock(c)
      <3>1. /\ UNCHANGED <<cursors, descs, xpc, xlocals, ti>>
            /\ cpc[c] \in {"wake", "unlock"}
            /\ \/ cpc' = [cpc EXCEPT ![c] = "unlock"]
               \/ cpc' = [cpc EXCEPT ![c] = "idle"]
        BY <2>3 DEF CleanWake, CleanUnlock
      <3>2. cpc["irq"] \in {"lock", "loop", "free"}
              => cpc'["irq"] \in {"lock", "loop", "free"}
        BY <3>1 DEF IInv, TypeOK, Cleaners
      <3> QED
        BY <3>1, <3>2, <1>a DEF descs, xlocals
    <2> QED
      BY <1>3, <2>1, <2>2, <2>3, InterruptFree DEF CleanStep
  <1>4. CASE TxInterrupt \/ RxInterrupt
    <2>1. /\ UNCHANGED <<cursors, descs, xpc, xlocals>>
          /\ cpc' = [cpc EXCEPT !["irq"] = "lock"]
      BY <1>4 DEF TxInterrupt, RxInterrupt
    <2>2. cpc'["irq"] = "lock"
      BY <2>1 DEF IInv, TypeOK, Cleaners
    <2> QED
      BY <2>1, <2>2, <1>a DEF descs, xlocals
  <1>5. CASE TimerFires
    <2>1. /\ UNCHANGED <<cursors, descs, xpc, xlocals, ti>>
          /\ cpc' = [cpc EXCEPT !["timer"] = "lock"]
      BY <1>5 DEF TimerFires
    <2>2. cpc'["irq"] = cpc["irq"]
      BY <2>1 DEF IInv, TypeOK, Cleaners
    <2> QED
      BY <2>1, <2>2, <1>a DEF descs, xlocals
  <1>6. CASE DmaSuspend \/ UNCHANGED vars
    <2>1. UNCHANGED <<cursors, descs, xpc, xlocals, ti, cpc>>
      BY <1>6 DEF DmaSuspend, vars, cleaner
    <2> QED
      BY <2>1, <1>a DEF descs, xlocals
  <1> QED
    BY <1>1, <1>2, <1>3, <1>4, <1>5, <1>6, InterruptSend DEF Next

(* The handler acknowledges the transmit interrupt before tx_clean looks   *)
(* at the ring: while a frame that asked for an interrupt is sent and not  *)
(* reclaimed, the interrupt is latched or tx_clean has still to look.      *)
THEOREM InterruptNotLost == Spec => []NoLostInterrupt
  <1>1. Init => NoLostInterrupt
    BY DEF Init, NoLostInterrupt
  <1>2. IInv /\ SentInv /\ PosInv /\ NoLostInterrupt /\ [Next]_vars
          => NoLostInterrupt'
    BY InterruptNext
  <1> QED
    BY <1>1, <1>2, PosInductive, PTL DEF Spec

-----------------------------------------------------------------------------
(* The frames in the ring, as the DMA finds them.                          *)
FrameInv == MarkInv /\ OrderInv /\ WireInv

(* Steps that touch neither the frames nor the DMA.                        *)
LEMMA FrameSame ==
    ASSUME IInv, FrameInv, UNCHANGED <<seg, fs, ls, wire, dmaIdx>>,
           Reserved' = Reserved, \A i \in Slots : Offset(i)' = Offset(i),
           \A i \in Slots : Tail(i)' <=> Tail(i),
           xpc' \in {"frags", "handover"}
             => xpc \in {"frags", "handover"} /\ xfirst' = xfirst,
           xpc' = "frags" => UNCHANGED <<xpc, cur_tx, xskb, xi, xfrags>>
    PROVE  FrameInv'
  <1>1. dmaIdx \in Slots
    BY DEF IInv, TypeOK
  <1>2. \A i \in Slots : Pending(i)' <=> Pending(i)
    BY <1>1 DEF Pending
  <1>3. MarkInv'
    <2>1. \A i \in Slots : Marked(i)'
      BY <1>2 DEF FrameInv, MarkInv, Marked
    <2>2. xpc' \in {"frags", "handover"} => seg'[xfirst'].k = 0
      BY DEF FrameInv, MarkInv
    <2>3. xpc' = "frags" =>
            seg'[Slot(cur_tx)'] = [skb |-> xskb', k |-> xi', n |-> xfrags']
      BY DEF FrameInv, MarkInv, Slot
    <2> QED
      BY <2>1, <2>2, <2>3 DEF MarkInv
  <1>4. OrderInv'
    BY <1>2 DEF FrameInv, OrderInv, Follows
  <1>5. WireInv'
    <2>1. Pending(dmaIdx)' <=> Pending(dmaIdx)
      BY <1>1 DEF Pending
    <2> QED
      BY <2>1 DEF FrameInv, WireInv, NoSeg
  <1> QED
    BY <1>3, <1>4, <1>5 DEF FrameInv

(* A frame starts behind the last one.                                     *)
LEMMA FrameFirst ==
    ASSUME IInv, PosInv, FrameInv, XmitFirst
    PROVE  FrameInv'
  <1>1. /\ UNCHANGED <<cursors, ls, xskb, xfrags, wire, dmaIdx>>
        /\ xpc = "lock" /\ xpc' = "frags" /\ xfirst' = Slot(cur_tx) /\ xi' = 0
    BY DEF XmitFirst, dma
  <1>2. PICK e \in Slots : e = Slot(cur_tx)
    BY StateFacts DEF IInv
  <1>3. /\ seg' = [seg EXCEPT ![e] = [skb |-> xskb, k |-> 0, n |-> xfrags]]
        /\ fs' = [fs EXCEPT ![e] = TRUE]
    BY <1>2 DEF XmitFirst
  <1>4. /\ \A i \in Slots : Offset(i)' = Offset(i) /\ Offset(i) \in Nat
        /\ dmaIdx \in Slots /\ Offset(dmaIdx)' = Offset(dmaIdx)
        /\ Offset(dmaIdx) <= Reserved
    BY <1>1, SameCursors, OffsetFacts
       DEF IInv, TypeOK, Slots, PosInv, Offset, Slot, cursors
  <1>5. Offset(e) = Reserved /\ Reserved' = Reserved + 1 /\ Reserved \in Nat
    BY <1>1, <1>2, StateFacts, SameCursors, WrapFacts
       DEF IInv, CursorInv, Reserved, Building
  <1>6. \A i \in Slots : Offset(i) = Reserved <=> i = e
    BY <1>5, OffsetInjective DEF IInv
  <1>7. \A i \in Slots : Pending(i)' <=> Pending(i) \/ i = e
    BY <1>1, <1>4, <1>5, <1>6 DEF Pending
  <1>8. ~Pending(e) /\ ~ls[e] /\ \A i \in Slots : ~Tail(i) /\ (Tail(i)' <=> i = e)
    BY <1>1, <1>2, <1>5
       DEF Pending, FrameInv, MarkInv, Marked, Tail, Slot, cursors
  <1>9. /\ xfrags \in Nat
        /\ seg'[e] = [skb |-> xskb, k |-> 0, n |-> xfrags] /\ fs'[e]
        /\ \A i \in Slots : i # e => seg'[i] = seg[i] /\ (fs'[i] <=> fs[i])
    BY <1>3 DEF IInv, TypeOK
  <1>10. MarkInv'
    <2>1. ASSUME NEW i \in Slots
          PROVE  Marked(i)'
      <3>1. CASE i = e
        BY <3>1, <1>1, <1>8, <1>9 DEF Marked
      <3>2. CASE i # e
        BY <3>2, <1>1, <1>4, <1>5, <1>7, <1>8, <1>9
           DEF FrameInv, MarkInv, Marked
      <3> QED
        BY <3>1, <3>2
    <2>2. xfirst' = e /\ Slot(cur_tx)' = e
      BY <1>1, <1>2, SameCursors
    <2> QED
      BY <2>1, <2>2, <1>1, <1>9 DEF MarkInv
  <1>11. OrderInv'
    <2>1. ASSUME NEW i \in Slots, NEW j \in Slots, Pending(i)', Pending(j)',
                 Offset(j)' = Offset(i)' + 1
          PROVE  Follows(seg'[i], seg'[j])
      <3>1. i # e /\ Pending(i)
        BY <2>1, <1>4, <1>5, <1>7 DEF Pending
      <3>2. CASE j = e
        <4>1. Offset(i) = Reserved - 1
          BY <2>1, <3>2, <1>4, <1>5
        <4>2. seg[i].k = seg[i].n /\ seg[i].k \in Nat
          BY <4>1, <3>1, <1>8 DEF FrameInv, OrderInv, IInv, TypeOK, Segments
        <4> QED
          BY <4>2, <3>1, <3>2, <1>9 DEF Follows
      <3>3. CASE j # e
        BY <2>1, <3>1, <3>3, <1>4, <1>7, <1>9 DEF FrameInv, OrderInv, Follows
      <3> QED
        BY <3>2, <3>3
    <2>2. ASSUME NEW i \in Slots, Pending(i)', Offset(i)' = Reserved' - 1, ~Tail(i)'
          PROVE  FALSE
      BY <2>2, <1>4, <1>5, <1>6, <1>8
    <2> QED
      BY <2>1, <2>2 DEF OrderInv, Follows
  <1>12. WireInv'
    <2>1. PICK d \in Slots : d = dmaIdx
      BY <1>4
    <2>2. Pending(dmaIdx)' <=> Pending(d) \/ d = e
      BY <2>1, <1>1, <1>7 DEF Pending, Offset, Slot, cursors
    <2> QED
      BY <2>1, <2>2, <1>1, <1>8, <1>9 DEF FrameInv, WireInv, NoSeg
  <1> QED
    BY <1>10, <1>11, <1>12 DEF FrameInv

(* A fragment continues the frame.                                         *)
LEMMA FrameFrag ==
    ASSUME IInv, PosInv, FrameInv, XmitFrag
    PROVE  FrameInv'
  <1>1. /\ xpc = "frags" /\ xpc' = "frags" /\ xi < xfrags /\ xi' = xi + 1
        /\ UNCHANGED <<dirty_tx, ls, wire, dmaIdx, xfirst, xskb, xfrags>>
        /\ cur_tx' = Unsigned(cur_tx + 1)
    BY DEF XmitFrag, dma
  <1>2. InFlight + 2 <= TxSize - 1 /\ InFlight \in Nat
    BY <1>1, StateFacts, WrapFacts, SizesAssumption
       DEF IInv, RoomInv, Owed, TypeOK
  <1>3. /\ InFlight' = InFlight + 1
        /\ Offset(Slot(cur_tx))' = InFlight + 1
        /\ \A i \in Slots : Offset(i)' = Offset(i)
    BY <1>1, <1>2, CurStep, WrapFacts, SizesAssumption DEF IInv
  <1>4. PICK e \in Slots : e = Slot(cur_tx)'
    BY <1>1, <1>2, CurStep, SlotAdvance, WrapFacts, SizesAssumption
       DEF IInv, Slot
  <1>5. /\ Offset(e) = Reserved /\ Reserved' = Reserved + 1 /\ Reserved \in Nat
        /\ Reserved = InFlight + 1
    <2>1. Offset(e)' = Offset(Slot(cur_tx))'
      BY <1>4 DEF Offset
    <2>2. Reserved = InFlight + 1 /\ Reserved' = InFlight + 2
      BY <1>1, <1>2, <1>3 DEF Reserved, Building
    <2> QED
      BY <2>1, <2>2, <1>2, <1>3
  <1>6. /\ seg' = [seg EXCEPT ![e] = [skb |-> xskb, k |-> xi + 1, n |-> xfrags]]
        /\ fs' = [fs EXCEPT ![e] = FALSE]
    BY <1>4 DEF XmitFrag, Slot
  <1>7. PICK b \in Slots : b = Slot(cur_tx)
    BY StateFacts DEF IInv
  <1>8. Offset(b) = Reserved - 1 /\ b # e
        /\ seg[b] = [skb |-> xskb, k |-> xi, n |-> xfrags]
    BY <1>1, <1>2, <1>5, <1>7 DEF IInv, CursorInv, FrameInv, MarkInv
  <1>9. \A i \in Slots : Offset(i)' = Offset(i) /\ Offset(i) \in Nat
                         /\ (Offset(i) = Reserved <=> i = e)
                         /\ (Offset(i) = Reserved - 1 <=> i = b)
    BY <1>3, <1>5, <1>8, OffsetFacts, OffsetInjective DEF IInv, Slots
  <1>10. /\ dmaIdx \in Slots /\ xfirst \in Slots /\ xfirst # e /\ dmaIdx # e
         /\ Offset(dmaIdx) < Reserved
    BY <1>1, <1>5, <1>9 DEF IInv, TypeOK, PosInv, Pending
  <1>11. Offset(dmaIdx)' = Offset(dmaIdx)
    BY <1>1 DEF Offset, Slot
  <1>12. \A i \in Slots : Pending(i)' <=> Pending(i) \/ i = e
    BY <1>1, <1>5, <1>9, <1>10, <1>11 DEF Pending
  <1>13. ~Pending(e) /\ ~ls[e]
         /\ \A i \in Slots : (Tail(i) <=> i = b) /\ (Tail(i)' <=> i = e)
    BY <1>1, <1>4, <1>5, <1>7 DEF Pending, FrameInv, MarkInv, Marked, Tail
  <1>14. /\ xfrags \in Nat /\ xi \in Nat
         /\ seg'[e] = [skb |-> xskb, k |-> xi + 1, n |-> xfrags] /\ ~fs'[e]
         /\ \A i \in Slots : i # e => seg'[i] = seg[i] /\ (fs'[i] <=> fs[i])
    BY <1>6 DEF IInv, TypeOK
  <1>15. MarkInv'
    <2>1. ASSUME NEW i \in Slots
          PROVE  Marked(i)'
      <3>0. ls'[i] <=> ls[i]
        BY <1>1
      <3>1. CASE i = e
        BY <3>0, <3>1, <1>1, <1>13, <1>14 DEF Marked
      <3>2. CASE i = b
        BY <3>0, <3>2, <1>1, <1>5, <1>8, <1>9, <1>12, <1>13, <1>14
           DEF FrameInv, MarkInv, Marked
      <3>3. CASE i # e /\ i # b
        BY <3>0, <3>3, <1>5, <1>9, <1>12, <1>13, <1>14
           DEF FrameInv, MarkInv, Marked
      <3> QED
        BY <3>1, <3>2, <3>3
    <2>2. seg'[xfirst'].k = 0
      BY <1>1, <1>10, <1>14 DEF FrameInv, MarkInv
    <2> QED
      BY <2>1, <2>2, <1>1, <1>4, <1>14 DEF MarkInv
  <1>16. OrderInv'
    <2>1. ASSUME NEW i \in Slots, NEW j \in Slots, Pending(i)', Pending(j)',
                 Offset(j)' = Offset(i)' + 1
          PROVE  Follows(seg'[i], seg'[j])
      <3>1. i # e /\ Pending(i)
        BY <2>1, <1>5, <1>9, <1>12 DEF Pending
      <3>2. CASE j = e
        <4>1. i = b
          BY <2>1, <3>2, <1>5, <1>9
        <4> QED
          BY <4>1, <3>1, <3>2, <1>1, <1>8, <1>14 DEF Follows
      <3>3. CASE j # e
        BY <2>1, <3>1, <3>3, <1>9, <1>12, <1>14 DEF FrameInv, OrderInv, Follows
      <3> QED
        BY <3>2, <3>3
    <2>2. ASSUME NEW i \in Slots, Pending(i)', Offset(i)' = Reserved' - 1, ~Tail(i)'
          PROVE  FALSE
      BY <2>2, <1>5, <1>9, <1>13
    <2> QED
      BY <2>1, <2>2 DEF OrderInv, Follows
  <1>17. WireInv'
    <2>1. PICK d \in Slots : d = dmaIdx
      BY <1>10
    <2>2. Pending(dmaIdx)' <=> Pending(d)
      BY <2>1, <1>1, <1>10, <1>12 DEF Pending, Offset, Slot
    <2> QED
      BY <2>1, <2>2, <1>1, <1>10, <1>14 DEF FrameInv, WireInv, NoSeg
  <1> QED
    BY <1>15, <1>16, <1>17 DEF FrameInv

(* The last descriptor of the frame is marked.                             *)
LEMMA FrameClose ==
    ASSUME IInv, PosInv, FrameInv, XmitClose
    PROVE  FrameInv'
  <1>1. /\ UNCHANGED <<cursors, seg, fs, wire, dmaIdx, xfirst>>
        /\ xpc = "frags" /\ xpc' = "handover" /\ xi = xfrags
    BY DEF XmitClose, dma, xlocals
  <1>2. PICK b \in Slots : b = Slot(cur_tx)
    BY StateFacts DEF IInv
  <1>3. ls' = [ls EXCEPT ![b] = TRUE]
    BY <1>2 DEF XmitClose
  <1>4. /\ Reserved' = Reserved /\ Reserved = InFlight + 1 /\ InFlight \in Nat
        /\ Offset(b) = InFlight
    BY <1>1, <1>2, StateFacts, SameCursors, WrapFacts
       DEF IInv, CursorInv, Reserved, Building
  <1>5. dmaIdx \in Slots /\ \A i \in Slots : Offset(i)' = Offset(i)
    BY <1>1, SameCursors DEF IInv, TypeOK
  <1>6. \A i \in Slots : (Pending(i)' <=> Pending(i)) /\ (Tail(i) <=> i = b) /\ ~Tail(i)'
    BY <1>1, <1>2, <1>4, <1>5 DEF Pending, Tail
  <1>7. /\ seg[b].k = seg[b].n /\ ls'[b]
        /\ \A i \in Slots : i # b => (ls'[i] <=> ls[i])
    BY <1>1, <1>2, <1>3 DEF FrameInv, MarkInv, IInv, TypeOK
  <1>8. MarkInv'
    <2>1. ASSUME NEW i \in Slots
          PROVE  Marked(i)'
      <3>1. CASE i = b
        BY <3>1, <1>1, <1>4, <1>5, <1>6, <1>7 DEF FrameInv, MarkInv, Marked
      <3>2. CASE i # b
        BY <3>2, <1>1, <1>4, <1>5, <1>6, <1>7 DEF FrameInv, MarkInv, Marked
      <3> QED
        BY <3>1, <3>2
    <2>2. seg'[xfirst'].k = 0
      BY <1>1 DEF FrameInv, MarkInv
    <2> QED
      BY <2>1, <2>2, <1>1 DEF MarkInv
  <1>9. OrderInv'
    BY <1>1, <1>4, <1>5, <1>6, <1>7 DEF FrameInv, OrderInv, Follows
  <1>10. WireInv'
    <2>1. Pending(dmaIdx)' <=> Pending(dmaIdx)
      BY <1>1, <1>4, <1>5 DEF Pending
    <2> QED
      BY <2>1, <1>1 DEF FrameInv, WireInv, NoSeg
  <1> QED
    BY <1>8, <1>9, <1>10 DEF FrameInv

(* tx_clean wipes a descriptor the DMA has passed.                         *)
LEMMA FrameFree ==
    ASSUME IInv, SentInv, PosInv, FrameInv, NEW c \in Cleaners, CleanFree(c)
    PROVE  FrameInv'
  <1>1. /\ cpc[c] = "free" /\ UNCHANGED <<cur_tx, xpc, wire, dmaIdx>>
        /\ dirty_tx' = Unsigned(dirty_tx + 1)
    BY DEF CleanFree, dma
  <1>2. PICK e \in Slots : e = centry[c]
    BY DEF IInv, TypeOK
  <1>3. /\ dirty_tx # cur_tx /\ e = Slot(dirty_tx)
        /\ fs' = [fs EXCEPT ![e] = FALSE] /\ ls' = [ls EXCEPT ![e] = FALSE]
        /\ seg' = [seg EXCEPT ![e] = NoSeg]
    BY <1>1, <1>2 DEF IInv, FreeInv, CleanFree
  <1>4. xpc \notin Building /\ xpc' \notin Building
    BY <1>1 DEF IInv, LockInv, Locked, Active, Building, Cleaners
  <1>5. /\ InFlight' = InFlight - 1 /\ InFlight \in Nat
        /\ \A i \in Slots :
             Offset(i)' = IF i = e THEN TxSize - 1 ELSE Offset(i) - 1
    BY <1>1, <1>3, DirtyStep, StateFacts, WrapFacts DEF IInv
  <1>6. Reserved = InFlight /\ Reserved' = InFlight - 1
    BY <1>1, <1>4, <1>5 DEF Reserved, Building
  <1>7. ~Pending(e) /\ \A i \in Slots : Pending(i)' <=> Pending(i)
    BY <1>2, PosFree
  <1>8. \A i \in Slots : ~Tail(i) /\ ~Tail(i)'
    BY <1>4 DEF Tail, Building
  <1>9. /\ ~ls'[e]
        /\ \A i \in Slots : i # e => /\ seg'[i] = seg[i]
                                     /\ fs'[i] <=> fs[i]
                                     /\ ls'[i] <=> ls[i]
    BY <1>3 DEF IInv, TypeOK
  <1>10. \A i \in Slots : Offset(i) \in Nat
    BY OffsetFacts DEF IInv, Slots
  <1>11. MarkInv'
    <2>1. ASSUME NEW i \in Slots
          PROVE  Marked(i)'
      <3>1. CASE i = e
        BY <3>1, <1>7, <1>9 DEF Marked
      <3>2. CASE i # e
        BY <3>2, <1>5, <1>6, <1>7, <1>8, <1>9, <1>10
           DEF FrameInv, MarkInv, Marked
      <3> QED
        BY <3>1, <3>2
    <2> QED
      BY <2>1, <1>4 DEF MarkInv, Building
  <1>12. OrderInv'
    <2>1. ASSUME NEW i \in Slots, NEW j \in Slots, Pending(i)', Pending(j)',
                 Offset(j)' = Offset(i)' + 1
          PROVE  Follows(seg'[i], seg'[j])
      <3>1. i # e /\ j # e /\ Pending(i) /\ Pending(j)
        BY <2>1, <1>7
      <3>2. Offset(j) = Offset(i) + 1
        BY <2>1, <3>1, <1>5, <1>10
      <3> QED
        BY <3>1, <3>2, <1>9 DEF FrameInv, OrderInv
    <2>2. ASSUME NEW i \in Slots, Pending(i)', Offset(i)' = Reserved' - 1
          PROVE  seg'[i].k = seg'[i].n
      <3>1. i # e /\ Pending(i)
        BY <2>2, <1>7
      <3>2. Offset(i) = Reserved - 1
        BY <2>2, <3>1, <1>5, <1>6, <1>10
      <3> QED
        BY <3>1, <3>2, <1>8, <1>9 DEF FrameInv, OrderInv
    <2> QED
      BY <2>1, <2>2 DEF OrderInv, Follows
  <1>13. WireInv'
    <2>1. PICK d \in Slots : d = dmaIdx
      BY DEF IInv, TypeOK
    <2>2. Pending(dmaIdx)' <=> Pending(d)
      BY <2>1, <1>1, <1>7 DEF Pending, Offset
    <2> QED
      BY <2>1, <2>2, <1>1, <1>7, <1>9 DEF FrameInv, WireInv, NoSeg
  <1> QED
    BY <1>11, <1>12, <1>13 DEF FrameInv

(* The DMA sends one segment: the next one continues the frame.            *)
LEMMA FrameSend ==
    ASSUME IInv, PosInv, FrameInv, DmaSend
    PROVE  FrameInv'
  <1>1. /\ UNCHANGED <<cursors, xpc, xfirst, xskb, xi, xfrags, seg, fs, ls>>
        /\ dmaIdx' = Succ(dmaIdx)
        /\ wire' = IF ls[dmaIdx] THEN NoSeg ELSE seg[dmaIdx]
    BY DEF DmaSend, xlocals
  <1>2. PICK d \in Slots : d = dmaIdx
    BY DEF IInv, TypeOK
  <1>3. PICK t \in Slots : t = dmaIdx'
    BY PosSend
  <1>4. /\ Pending(d) /\ ~Tail(d) /\ Offset(t) = Offset(d) + 1
        /\ \A i \in Slots : Pending(i)' <=> Pending(i) /\ i # d
    BY <1>2, <1>3, PosSend
  <1>5. Reserved' = Reserved /\ \A i \in Slots : Offset(i)' = Offset(i)
    BY <1>1, SameCursors DEF Reserved
  <1>6. \A i \in Slots : Tail(i)' <=> Tail(i)
    BY <1>1, SameCursors DEF Tail
  <1>7. MarkInv'
    <2>1. \A i \in Slots : Marked(i)'
      BY <1>1, <1>4, <1>5, <1>6 DEF FrameInv, MarkInv, Marked
    <2>2. Slot(cur_tx)' = Slot(cur_tx)
      BY <1>1, SameCursors
    <2> QED
      BY <2>1, <2>2, <1>1 DEF FrameInv, MarkInv
  <1>8. OrderInv'
    BY <1>1, <1>4, <1>5, <1>6 DEF FrameInv, OrderInv, Follows
  <1>9. WireInv'
    <2>0. seg[d].k \in Nat /\ seg[d].n \in Nat /\ seg[d].k <= seg[d].n
          /\ (ls[d] <=> seg[d].k = seg[d].n)
      BY <1>4 DEF FrameInv, MarkInv, Marked, IInv, TypeOK, Segments
    <2>1. Pending(dmaIdx)' <=> Pending(t)
      <3>1. Pending(t)' <=> Pending(t)
        BY <1>2, <1>4, OffsetFacts DEF IInv, Slots
      <3> QED
        BY <3>1, <1>3 DEF Pending, Offset
    <2>2. Pending(t) => Follows(seg[d], seg[t])
      BY <1>4 DEF FrameInv, OrderInv
    <2>3. CASE ls[d]
      <3>1. wire' = NoSeg
        BY <2>3, <1>1, <1>2
      <3>2. Pending(t) => seg[t].k = 0
        BY <2>0, <2>2, <2>3 DEF Follows
      <3> QED
        BY <3>1, <3>2, <2>1, <1>1, <1>3 DEF WireInv, NoSeg
    <2>4. CASE ~ls[d]
      <3>1. wire' = seg[d] /\ wire' # NoSeg /\ seg[d].k < seg[d].n
        BY <2>0, <2>4, <1>1, <1>2 DEF NoSeg
      <3>2. Pending(t)
        <4>1. Offset(d) # Reserved - 1
          BY <3>1, <2>0, <1>4 DEF FrameInv, OrderInv
        <4>2. Offset(d) \in Nat /\ Offset(d) < Reserved /\ Reserved \in Nat
          BY <1>4, OffsetFacts, ReservedFits DEF IInv, Pending, Slots
        <4> QED
          BY <4>1, <4>2, <1>2, <1>4 DEF Pending
      <3>3. seg[t] = [seg[d] EXCEPT !.k = @ + 1]
        BY <3>1, <3>2, <2>2 DEF Follows
      <3> QED
        BY <3>1, <3>2, <3>3, <2>1, <1>1, <1>3 DEF WireInv, NoSeg
    <2> QED
      BY <2>3, <2>4
  <1> QED
    BY <1>7, <1>8, <1>9 DEF FrameInv

LEMMA FrameQuiet ==
    ASSUME IInv, FrameInv,
           UNCHANGED <<cursors, seg, fs, ls, wire, dmaIdx, xpc, xlocals>>
    PROVE  FrameInv'
  <1>1. Reserved' = Reserved /\ \A i \in Slots : Offset(i)' = Offset(i)
    BY SameCursors DEF Reserved
  <1>2. \A i \in Slots : Tail(i)' <=> Tail(i)
    BY SameCursors DEF Tail
  <1> QED
    BY <1>1, <1>2, FrameSame DEF xlocals, cursors

LEMMA FrameNext ==
    ASSUME IInv, SentInv, PosInv, FrameInv, [Next]_vars
    PROVE  FrameInv'
  <1>1. ASSUME NEW s \in Skbs, NEW n \in 0 .. MaxFrags,
               XmitAccept(s, n) \/ XmitFull(s, n)
        PROVE  FrameInv'
    <2>1. /\ UNCHANGED <<cursors, seg, fs, ls, wire, dmaIdx>>
          /\ xpc = "idle" /\ xpc' \in {"lock", "full"}
      BY <1>1 DEF XmitAccept, XmitFull, Call, descs, dma
    <2>2. Reserved' = Reserved /\ \A i \in Slots : Offset(i)' = Offset(i)
      BY <2>1, SameCursors DEF Reserved, Building
    <2>3. \A i \in Slots : Tail(i)' <=> Tail(i)
      BY <2>1 DEF Tail
    <2> QED
      BY <2>1, <2>2, <2>3, FrameSame
  <1>2. CASE XmitStep
    <2>1. CASE XmitBusy \/ XmitKick
      <3>1. /\ UNCHANGED <<cursors, seg, fs, ls, wire, dmaIdx>>
            /\ xpc \in {"full", "kick"} /\ xpc' = "idle"
        BY <2>1 DEF XmitBusy, XmitKick, descs, dma
      <3>2. Reserved' = Reserved /\ \A i \in Slots : Offset(i)' = Offset(i)
        BY <3>1, SameCursors DEF Reserved, Building
      <3>3. \A i \in Slots : Tail(i)' <=> Tail(i)
        BY <3>1 DEF Tail
      <3> QED
        BY <3>1, <3>2, <3>3, FrameSame
    <2>2. CASE XmitHandOver
      <3>1. /\ UNCHANGED <<cursors, seg, fs, ls, wire, dmaIdx>>
            /\ xpc = "handover" /\ xpc' = "publish"
        BY <2>2 DEF XmitHandOver, dma
      <3>2. Reserved' = Reserved /\ \A i \in Slots : Offset(i)' = Offset(i)
        BY <3>1, SameCursors DEF Reserved, Building
      <3>3. \A i \in Slots : Tail(i)' <=> Tail(i)
        BY <3>1 DEF Tail
      <3> QED
        BY <3>1, <3>2, <3>3, FrameSame
    <2>3. CASE XmitPublish
      <3>1. /\ UNCHANGED <<dirty_tx, seg, fs, ls, wire, dmaIdx>>
            /\ xpc = "publish" /\ xpc' = "kick" /\ cur_tx' = Unsigned(cur_tx + 1)
        BY <2>3 DEF XmitPublish, descs, dma
      <3>2. InFlight < TxSize - 1 /\ InFlight \in Nat
        BY <3>1, StateFacts, WrapFacts DEF IInv, RoomInv, Owed
      <3>3. InFlight' = InFlight + 1 /\ \A i \in Slots : Offset(i)' = Offset(i)
        BY <3>1, <3>2, CurStep DEF IInv
      <3>4. Reserved' = Reserved /\ \A i \in Slots : Tail(i)' <=> Tail(i)
        BY <3>1, <3>3 DEF Reserved, Building, Tail
      <3> QED
        BY <3>1, <3>3, <3>4, FrameSame
    <2> QED
      BY <1>2, <2>1, <2>2, <2>3, FrameFirst, FrameFrag, FrameClose DEF XmitStep
  <1>3. ASSUME NEW c \in Cleaners, CleanStep(c)
        PROVE  FrameInv'
    <2>1. CASE CleanLock(c) \/ CleanTake(c) \/ CleanDone(c) \/ CleanWake(c)
               \/ CleanUnlock(c)
      <3>1. UNCHANGED <<cursors, descs, dma, xpc, xlocals>>
        BY <2>1 DEF CleanLock, CleanTake, CleanDone, CleanWake, CleanUnlock
      <3> QED
        BY <3>1, FrameQuiet DEF descs, dma
    <2> QED
      BY <1>3, <2>1, FrameFree DEF CleanStep
  <1>4. CASE TxInterrupt \/ RxInterrupt \/ TimerFires \/ DmaSuspend \/ UNCHANGED vars
    <2>1. UNCHANGED <<cursors, descs, dmaIdx, wire, xpc, xlocals>>
      BY <1>4 DEF TxInterrupt, RxInterrupt, TimerFires, DmaSuspend, vars, dma
    <2> QED
      BY <2>1, FrameQuiet DEF descs
  <1> QED
    BY <1>1, <1>2, <1>3, <1>4, FrameSend DEF Next

(* What the DMA may fetch next continues the frame on the wire or starts   *)
(* the next one: giving the first descriptor away last keeps it from a     *)
(* frame that stmmac_xmit has not finished.                                *)
THEOREM FramesAreWhole == Spec => []WholeFrames
  <1>1. Init => FrameInv
    <2> SUFFICES ASSUME Init
                 PROVE  FrameInv
      OBVIOUS
    <2>1. PosInv /\ TypeOK
      BY PosInit, InitIInv DEF IInv
    <2>2. \A i \in Slots : ~Pending(i)
      BY <2>1 DEF Init, PosInv, Unready
    <2>3. dmaIdx \in Slots
      BY <2>1 DEF TypeOK
    <2> QED
      BY <2>2, <2>3
         DEF Init, FrameInv, MarkInv, Marked, OrderInv, WireInv, NoSeg
  <1>2. IInv /\ SentInv /\ PosInv /\ FrameInv /\ [Next]_vars => FrameInv'
    BY FrameNext
  <1>3. IInv /\ PosInv /\ FrameInv => WholeFrames
    <2> SUFFICES ASSUME IInv, PosInv, FrameInv
                 PROVE  WholeFrames
      OBVIOUS
    <2>1. PICK d \in Slots : d = dmaIdx
      BY DEF IInv, TypeOK
    <2>2. wire # NoSeg => own[d]
      <3> SUFFICES ASSUME wire # NoSeg
                   PROVE  own[d]
        OBVIOUS
      <3>1. Pending(d) /\ seg[d].k = wire.k + 1 /\ wire.k \in Nat
        BY <2>1 DEF FrameInv, WireInv, IInv, TypeOK, Segments
      <3>2. ~Unready(d)
        BY <3>1 DEF FrameInv, MarkInv, Unready
      <3> QED
        BY <3>1, <3>2 DEF PosInv
    <2>3. ASSUME own[d]
          PROVE  /\ ls[d] <=> (seg[d].k = seg[d].n)
                 /\ IF wire = NoSeg THEN fs[d] /\ seg[d].k = 0
                    ELSE ~fs[d] /\ seg[d] = [wire EXCEPT !.k = @ + 1]
      <3>1. Pending(d) /\ ~Unready(d)
        BY <2>3 DEF PosInv
      <3>2. ~Tail(d)
        BY <2>1, <2>3, NotTail
      <3>3. /\ ls[d] <=> (seg[d].k = seg[d].n)
            /\ fs[d] <=> seg[d].k = 0
        BY <3>1, <3>2 DEF FrameInv, MarkInv, Marked
      <3>4. CASE wire = NoSeg
        BY <3>1, <3>3, <3>4, <2>1 DEF FrameInv, WireInv
      <3>5. CASE wire # NoSeg
        <4>1. seg[d] = [wire EXCEPT !.k = @ + 1] /\ wire \in Segments
          BY <3>5, <2>1 DEF FrameInv, WireInv, IInv, TypeOK
        <4>2. seg[d].k = wire.k + 1 /\ wire.k \in Nat
          BY <4>1 DEF Segments
        <4> QED
          BY <4>1, <4>2, <3>3, <3>5
      <3> QED
        BY <3>4, <3>5
    <2> QED
      BY <2>1, <2>2, <2>3 DEF WholeFrames
  <1> QED
    BY <1>1, <1>2, <1>3, PosInductive, PTL DEF Spec

================================================================================
