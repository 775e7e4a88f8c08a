----------------------------- MODULE Mdio_proofs -----------------------------
(***************************************************************************)
(* Proofs about Mdio, for every set of registers and values, every time    *)
(* limit and every width of jiffies: the bus is the memory of PhyRegs, and *)
(* -EBUSY is never returned early.                                         *)
(***************************************************************************)
EXTENDS Mdio, TLAPS

-----------------------------------------------------------------------------
(* Arithmetic modulo Wrap.                                                 *)

LEMMA WrapFacts ==
    /\ Wrap \in Nat \ {0} /\ Timeout \in Nat \ {0} /\ MaxWait \in Nat
    /\ \A a \in Int : a % Wrap \in 0 .. Wrap - 1
    /\ \A a \in 0 .. Wrap - 1 : a % Wrap = a
    /\ NoReg \in Regs /\ NoVal \in Values /\ NoCall \in Calls
  <1>1. Wrap \in Nat \ {0} /\ Timeout \in Nat \ {0} /\ MaxWait \in Nat
    BY MdioAssumption
  <1>2. \A a \in Int : a % Wrap \in 0 .. Wrap - 1
    BY <1>1
  <1>3. \A a \in 0 .. Wrap - 1 : a % Wrap = a
    BY <1>1
  <1>4. NoReg \in Regs /\ NoVal \in Values
    BY MdioAssumption DEF NoReg, NoVal
  <1> QED
    BY <1>1, <1>2, <1>3, <1>4 DEF NoCall, Calls

LEMMA DivMod ==
    ASSUME NEW a \in Int
    PROVE  /\ a = Wrap * (a \div Wrap) + (a % Wrap)
           /\ a \div Wrap \in Int
           /\ a % Wrap \in 0 .. Wrap - 1
  BY WrapFacts

LEMMA ModUnique ==
    ASSUME NEW a \in Int, NEW q \in Int, NEW r \in 0 .. Wrap - 1,
           a = Wrap * q + r
    PROVE  a % Wrap = r
  <1> DEFINE p == a \div Wrap
             m == a % Wrap
  <1>1. a = Wrap * p + m /\ p \in Int /\ m \in 0 .. Wrap - 1
    BY DivMod
  <1> HIDE DEF p, m
  <1>2. Wrap * (q - p) = m - r
    BY <1>1, WrapFacts
  <1>3. CASE q - p >= 1
    <2>1. Wrap * (q - p) >= Wrap
      BY <1>1, <1>3, WrapFacts
    <2> QED
      BY <1>1, <1>2, <2>1, WrapFacts
  <1>4. CASE q - p <= -1
    <2>1. Wrap * (q - p) <= 0 - Wrap
      BY <1>1, <1>4, WrapFacts
    <2> QED
      BY <1>1, <1>2, <2>1, WrapFacts
  <1>5. CASE q = p
    BY <1>1, <1>2, <1>5, WrapFacts DEF m
  <1> QED
    BY <1>1, <1>3, <1>4, <1>5

(* One tick later.                                                         *)
LEMMA ModTick ==
    ASSUME NEW a \in Int
    PROVE  ((a % Wrap) + 1) % Wrap = (a + 1) % Wrap
  <1> DEFINE q == a \div Wrap
             r == a % Wrap
  <1>1. a = Wrap * q + r /\ q \in Int /\ r \in 0 .. Wrap - 1
    BY DivMod
  <1> HIDE DEF q, r
  <1>2. CASE r + 1 < Wrap
    <2>1. a + 1 = Wrap * q + (r + 1) /\ r + 1 \in 0 .. Wrap - 1
      BY <1>1, <1>2, WrapFacts
    <2>2. (a + 1) % Wrap = r + 1
      BY <1>1, <2>1, ModUnique
    <2> QED
      BY <1>1, <2>1, <2>2, WrapFacts DEF r
  <1>3. CASE r + 1 = Wrap
    <2>1. a + 1 = Wrap * (q + 1) + 0
      BY <1>1, <1>3, WrapFacts
    <2>2. (a + 1) % Wrap = 0
      BY <1>1, <2>1, ModUnique, WrapFacts
    <2>3. (r + 1) % Wrap = 0
      BY <1>1, <1>3, WrapFacts
    <2> QED
      BY <2>2, <2>3 DEF r
  <1> QED
    BY <1>1, <1>2, <1>3, WrapFacts

(* What time_after_eq makes of two moments counted from the same start: no *)
(* moment before the limit is taken for one after it.                      *)
LEMMA NotEarly ==
    ASSUME NEW s \in Int, NEW e \in 0 .. MaxWait,
           TimeAfterEq((s + e) % Wrap, (s + Timeout) % Wrap)
    PROVE  e >= Timeout
  <1> DEFINE x == (s + e) % Wrap
             y == (s + Timeout) % Wrap
             i == (s + e) \div Wrap
             j == (s + Timeout) \div Wrap
             r == (x - y) % Wrap
             k == (x - y) \div Wrap
  <1>0. s + e \in Int /\ s + Timeout \in Int
    BY WrapFacts
  <1>1. /\ s + e = Wrap * i + x /\ i \in Int
        /\ s + Timeout = Wrap * j + y /\ j \in Int
        /\ x \in 0 .. Wrap - 1 /\ y \in 0 .. Wrap - 1
    BY <1>0, DivMod
  <1>2. x - y = Wrap * k + r /\ k \in Int /\ r \in 0 .. Wrap - 1
    BY <1>1, WrapFacts
  <1>3. 2 * r < Wrap
    BY DEF TimeAfterEq
  <1> HIDE DEF x, y, i, j, r, k
  <1> DEFINE n == i - j + k
  <1>4. e - Timeout = Wrap * n + r /\ n \in Int
    BY <1>1, <1>2, WrapFacts
  <1> HIDE DEF n
  <1>5. ASSUME e < Timeout
        PROVE  FALSE
    <2>1. Wrap * n < 0
      BY <1>2, <1>4, <1>5, WrapFacts
    <2>2. n <= -1
      BY <2>1, <1>4, WrapFacts
    <2>3. Wrap * n <= 0 - Wrap
      BY <2>2, <1>4, WrapFacts
    <2>4. e - Timeout >= 0 - MaxWait
      BY MdioAssumption
    <2> QED
      BY <2>3, <2>4, <1>2, <1>3, <1>4, MdioAssumption
  <1> QED
    BY <1>5, WrapFacts

-----------------------------------------------------------------------------
(* Types.                                                                  *)

LEMMA InitMdioTypeOK ==
    ASSUME NEW content \in [Regs -> Values], MdioInit(content)
    PROVE  MdioTypeOK
  <1>1. /\ cmd \in [op : {"read", "write"}, reg : Regs]
        /\ call \in Calls
        /\ ret \in [status : {"none", "ok", "EBUSY"}, val : Values]
    BY WrapFacts DEF MdioInit, NoRet
  <1>2. /\ finish \in 0 .. Wrap - 1 /\ curr \in 0 .. Wrap - 1
        /\ elapsed \in 0 .. MaxWait /\ polled \in 0 .. MaxWait
    BY WrapFacts DEF MdioInit
  <1>3. /\ phy \in [Regs -> Values] /\ data \in Values
        /\ jiffies \in 0 .. Wrap - 1
        /\ step = "idle"
    BY WrapFacts DEF MdioInit
  <1>4. busy \in BOOLEAN /\ issued \in BOOLEAN
    BY DEF MdioInit
  <1> QED
    BY <1>1, <1>2, <1>3, <1>4 DEF MdioTypeOK

LEMMA NextMdioTypeOK ==
    ASSUME MdioTypeOK, [MdioNext]_mvars
    PROVE  MdioTypeOK'
  <1> USE WrapFacts DEF MdioTypeOK, hw, timer, wait
  <1>1. ASSUME NEW c \in Calls, Access(c)
        PROVE  MdioTypeOK'
    <2>1. finish' \in 0 .. Wrap - 1 /\ elapsed' \in 0 .. MaxWait
      BY <1>1 DEF Access, BeginWait
    <2>2. ret' \in [status : {"none", "ok", "EBUSY"}, val : Values]
      BY <1>1 DEF Access, NoRet
    <2> QED
      BY <1>1, <2>1, <2>2 DEF Access, BeginWait
  <1>2. CASE AccessStep
    <2>1. CASE WaitCurr
      BY <2>1 DEF WaitCurr
    <2>2. CASE WaitBusy
      BY <2>2 DEF WaitBusy
    <2>3. CASE WaitReady
      BY <2>3 DEF WaitReady, EndWait
    <2>4. CASE WaitDone
      <3>1. /\ call' \in Calls /\ issued' \in BOOLEAN
            /\ ret' \in [status : {"none", "ok", "EBUSY"}, val : Values]
            /\ step' \in {"idle", "result"}
        <4>1. CASE call.op = "write"
          <5>1. call' = NoCall /\ step' = "idle"
            BY <2>4, <4>1 DEF WaitDone, Return
          <5>2. issued' = FALSE
            BY <2>4, <4>1 DEF WaitDone, Return
          <5>3. ret' = [status |-> "ok", val |-> NoVal]
            BY <2>4, <4>1 DEF WaitDone, Return
          <5> QED
            BY <5>1, <5>2, <5>3
        <4>2. CASE call.op # "write"
          BY <2>4, <4>2 DEF WaitDone
        <4> QED
          BY <4>1, <4>2
      <3>2. /\ finish' = 0 /\ curr' = 0 /\ polled' = 0 /\ elapsed' = 0
            /\ UNCHANGED <<hw, jiffies>>
        BY <2>4 DEF WaitDone, EndWait
      <3> QED
        BY <3>1, <3>2
    <2>5. CASE WaitAgain
      BY <2>5 DEF WaitAgain
    <2>6. CASE GiveUp
      <3>1. /\ call' \in Calls /\ issued' \in BOOLEAN
            /\ ret' \in [status : {"none", "ok", "EBUSY"}, val : Values]
            /\ step' = "idle"
        BY <2>6 DEF GiveUp, Return
      <3>2. /\ finish' = 0 /\ curr' = 0 /\ polled' = 0 /\ elapsed' = 0
            /\ UNCHANGED <<hw, jiffies>>
        BY <2>6 DEF GiveUp, EndWait
      <3> QED
        BY <3>1, <3>2
    <2>7. CASE WriteData
      BY <2>7 DEF WriteData, Calls
    <2>8. CASE WriteCmd
      <3>1. cmd' \in [op : {"read", "write"}, reg : Regs]
        BY <2>8 DEF WriteCmd, Calls
      <3> QED
        BY <2>8, <3>1 DEF WriteCmd, BeginWait
    <2>9. CASE ReadData
      BY <2>9 DEF ReadData, Return
    <2> QED
      BY <1>2, <2>1, <2>2, <2>3, <2>4, <2>5, <2>6, <2>7, <2>8, <2>9
      DEF AccessStep
  <1>3. CASE Reset
    <2>1. busy' \in BOOLEAN
      BY <1>3, Zenon DEF Reset
    <2> QED
      BY <1>3, <2>1 DEF Reset
  <1>4. CASE Complete
    <2>1. phy' \in [Regs -> Values] /\ data' \in Values
      BY <1>4 DEF Complete
    <2> QED
      BY <1>4, <2>1 DEF Complete
  <1>5. CASE Tick
    BY <1>5 DEF Tick
  <1>6. CASE UNCHANGED mvars
    BY <1>6 DEF mvars
  <1> QED
    BY <1>1, <1>2, <1>3, <1>4, <1>5, <1>6 DEF MdioNext

-----------------------------------------------------------------------------
(* What an access may rely on at each of its steps: nothing is under way   *)
(* before it is issued; after that the hardware holds its command, and     *)
(* when the hardware is done the data register holds its result.           *)
AccessInv ==
    /\ step = "idle" => ~issued
    /\ step = "data" => ~issued /\ ~busy /\ call.op = "write"
    /\ step = "cmd" => /\ ~issued /\ ~busy
                       /\ call.op = "write" => data = call.val
    /\ issued /\ busy => /\ cmd = [op |-> call.op, reg |-> call.reg]
                         /\ call.op = "write" => data = call.val
    /\ issued /\ ~busy /\ call.op = "read" => data = phy[call.reg]
    /\ step = "result" => issued /\ ~busy /\ call.op = "read"

LEMMA NextAccessInv ==
    ASSUME MdioTypeOK, AccessInv, [MdioNext]_mvars
    PROVE  AccessInv'
  <1> USE DEF MdioTypeOK, AccessInv, hw, timer, wait
  <1>1. ASSUME NEW c \in Calls, Access(c)
        PROVE  AccessInv'
    BY <1>1 DEF Access
  <1>2. CASE AccessStep
    <2>1. CASE WaitCurr
      BY <2>1 DEF WaitCurr
    <2>2. CASE WaitBusy
      BY <2>2 DEF WaitBusy
    <2>3. CASE WaitReady
      BY <2>3 DEF WaitReady, Calls
    <2>4. CASE WaitDone
      BY <2>4 DEF WaitDone, Return, Calls
    <2>5. CASE WaitAgain
      BY <2>5 DEF WaitAgain
    <2>6. CASE GiveUp
      BY <2>6 DEF GiveUp, Return
    <2>7. CASE WriteData
      BY <2>7 DEF WriteData
    <2>8. CASE WriteCmd
      BY <2>8 DEF WriteCmd
    <2>9. CASE ReadData
      BY <2>9 DEF ReadData, Return
    <2> QED
      BY <1>2, <2>1, <2>2, <2>3, <2>4, <2>5, <2>6, <2>7, <2>8, <2>9
      DEF AccessStep
  <1>3. CASE Reset
    BY <1>3 DEF Reset
  <1>4. CASE Complete
    <2>1. ~(step \in {"data", "cmd", "result"})
      BY <1>4 DEF Complete
    <2>2. CASE cmd.op = "read"
      BY <1>4, <2>1, <2>2 DEF Complete, Calls
    <2>3. CASE cmd.op = "write"
      BY <1>4, <2>1, <2>3 DEF Complete, Calls
    <2> QED
      BY <2>2, <2>3
  <1>5. CASE Tick
    BY <1>5 DEF Tick
  <1>6. CASE UNCHANGED mvars
    BY <1>6 DEF mvars
  <1> QED
    BY <1>1, <1>2, <1>3, <1>4, <1>5, <1>6 DEF MdioNext

LEMMA InitAccessInv ==
    ASSUME NEW content, MdioInit(content)
    PROVE  AccessInv
  BY DEF MdioInit, AccessInv

-----------------------------------------------------------------------------
(* The moments a busy wait works with, counted from its start.             *)
TimerInv ==
    step \in {"curr", "poll", "test"} =>
        \E s \in Int :
            /\ jiffies = (s + elapsed) % Wrap
            /\ finish = (s + Timeout) % Wrap
            /\ step # "curr" => \E e \in 0 .. elapsed :
                                    /\ curr = (s + e) % Wrap
                                    /\ step = "test" => e <= polled

(* A wait that begins begins now.                                          *)
LEMMA BeginWaitTimer ==
    ASSUME MdioTypeOK, BeginWait, step' = "curr"
    PROVE  TimerInv'
  <1>1. /\ jiffies \in Int /\ jiffies + 0 = jiffies
        /\ jiffies % Wrap = jiffies
    BY WrapFacts DEF MdioTypeOK
  <1>2. /\ jiffies' = jiffies /\ elapsed' = 0
        /\ finish' = (jiffies + Timeout) % Wrap
    BY DEF BeginWait
  <1>3. /\ jiffies' = (jiffies + elapsed') % Wrap
        /\ finish' = (jiffies + Timeout) % Wrap
    BY <1>1, <1>2
  <1> QED
    BY <1>1, <1>3 DEF TimerInv

LEMMA NextTimerInv ==
    ASSUME MdioTypeOK, TimerInv, [MdioNext]_mvars
    PROVE  TimerInv'
  <1> USE DEF hw, timer, wait
  <1>1. ASSUME NEW c \in Calls, Access(c)
        PROVE  TimerInv'
    BY <1>1, BeginWaitTimer DEF Access
  <1>2. CASE WaitCurr
    <2>1. PICK s \in Int : /\ jiffies = (s + elapsed) % Wrap
                           /\ finish = (s + Timeout) % Wrap
      BY <1>2 DEF TimerInv, WaitCurr
    <2>2. /\ curr' = (s + elapsed') % Wrap /\ jiffies' = (s + elapsed') % Wrap
          /\ finish' = (s + Timeout) % Wrap
          /\ step' = "poll" /\ elapsed' = elapsed
      BY <1>2, <2>1 DEF WaitCurr
    <2>3. elapsed' \in 0 .. elapsed'
      BY <2>2 DEF MdioTypeOK
    <2>4. \E e \in 0 .. elapsed' : /\ curr' = (s + e) % Wrap
                                   /\ step' = "test" => e <= polled'
      BY <2>2, <2>3
    <2> QED
      BY <2>2, <2>4 DEF TimerInv
  <1>3. CASE WaitBusy
    <2>1. PICK s \in Int : /\ jiffies = (s + elapsed) % Wrap
                           /\ finish = (s + Timeout) % Wrap
                           /\ \E e \in 0 .. elapsed : curr = (s + e) % Wrap
      BY <1>3 DEF TimerInv, WaitBusy
    <2>2. PICK e \in 0 .. elapsed : curr = (s + e) % Wrap
      BY <2>1
    <2>3. /\ jiffies' = (s + elapsed') % Wrap
          /\ finish' = (s + Timeout) % Wrap
          /\ curr' = (s + e) % Wrap
          /\ elapsed' = elapsed /\ polled' = elapsed
      BY <1>3, <2>1, <2>2 DEF WaitBusy
    <2>4. e \in 0 .. elapsed' /\ e <= polled'
      BY <2>2, <2>3 DEF MdioTypeOK
    <2>5. \E d \in 0 .. elapsed' : /\ curr' = (s + d) % Wrap
                                   /\ step' = "test" => d <= polled'
      BY <2>3, <2>4
    <2> QED
      BY <2>3, <2>5 DEF TimerInv
  <1>4. CASE WaitAgain
    <2>1. PICK s \in Int : /\ jiffies = (s + elapsed) % Wrap
                           /\ finish = (s + Timeout) % Wrap
      BY <1>4 DEF TimerInv, WaitAgain
    <2>2. /\ jiffies' = (s + elapsed') % Wrap
          /\ finish' = (s + Timeout) % Wrap
          /\ step' = "curr"
      BY <1>4, <2>1 DEF WaitAgain
    <2> QED
      BY <2>2 DEF TimerInv
  <1>5. CASE WriteCmd
    BY <1>5, BeginWaitTimer DEF WriteCmd
  <1>6. CASE WaitReady \/ WaitDone \/ GiveUp \/ WriteData \/ ReadData
             \/ Reset
    <2>1. step' \notin {"curr", "poll", "test"}
      BY <1>6 DEF WaitReady, WaitDone, GiveUp, WriteData, ReadData, Reset,
                  Return
    <2> QED
      BY <2>1 DEF TimerInv
  <1>7. CASE Complete
    <2>1. UNCHANGED <<timer, wait, step>>
      BY <1>7 DEF Complete
    <2> QED
      BY <2>1 DEF TimerInv
  <1>8. CASE Tick
    <2>1. PICK s \in Int :
              /\ jiffies = (s + elapsed) % Wrap
              /\ finish = (s + Timeout) % Wrap
              /\ step # "curr" => \E e \in 0 .. elapsed :
                                      /\ curr = (s + e) % Wrap
                                      /\ step = "test" => e <= polled
      BY <1>8 DEF TimerInv, Tick
    <2>2. /\ jiffies' = (jiffies + 1) % Wrap /\ elapsed' = elapsed + 1
          /\ UNCHANGED <<finish, curr, polled, step>>
      BY <1>8 DEF Tick
    <2>3. s + elapsed \in Int /\ (s + elapsed) + 1 = s + elapsed'
      BY <2>2 DEF MdioTypeOK
    <2>4. jiffies' = (s + elapsed') % Wrap
      BY <2>1, <2>2, <2>3, ModTick
    <2>5. 0 .. elapsed \subseteq 0 .. elapsed'
      BY <2>2 DEF MdioTypeOK
    <2>6. finish' = (s + Timeout) % Wrap
      BY <2>1, <2>2
    <2>7. step' # "curr" => \E e \in 0 .. elapsed' :
                                /\ curr' = (s + e) % Wrap
                                /\ step' = "test" => e <= polled'
      BY <2>1, <2>2, <2>5
    <2> QED
      BY <2>4, <2>6, <2>7 DEF TimerInv
  <1>9. CASE UNCHANGED mvars
    BY <1>9 DEF mvars, TimerInv
  <1> QED
    BY <1>1, <1>2, <1>3, <1>4, <1>5, <1>6, <1>7, <1>8, <1>9
    DEF MdioNext, AccessStep

(* -EBUSY is returned by GiveUp alone, and GiveUp is not early.            *)
LEMMA StepNoFalseTimeout ==
    ASSUME MdioTypeOK, TimerInv, [MdioNext]_mvars,
           ret'.status = "EBUSY", step = "test", step' = "idle"
    PROVE  polled >= Timeout
  <1>1. GiveUp
    BY DEF MdioNext, mvars, AccessStep, Access, WaitCurr, WaitBusy, WaitReady,
           WaitDone, WaitAgain, WriteData, WriteCmd, ReadData, Reset, Complete,
           Tick
  <1>2. PICK s \in Int :
            /\ finish = (s + Timeout) % Wrap
            /\ \E e \in 0 .. elapsed : curr = (s + e) % Wrap /\ e <= polled
    BY DEF TimerInv
  <1>3. PICK e \in 0 .. elapsed : curr = (s + e) % Wrap /\ e <= polled
    BY <1>2
  <1>4. e \in 0 .. MaxWait
    BY WrapFacts DEF MdioTypeOK
  <1>5. TimeAfterEq((s + e) % Wrap, (s + Timeout) % Wrap)
    BY <1>1, <1>2, <1>3 DEF GiveUp
  <1>6. e >= Timeout
    BY <1>4, <1>5, NotEarly
  <1> QED
    BY <1>3, <1>6, WrapFacts DEF MdioTypeOK

-----------------------------------------------------------------------------
MdioIInv == MdioTypeOK /\ AccessInv /\ TimerInv

LEMMA MdioInvariant == MdioSpec => []MdioIInv
  <1>1. (\E content \in [Regs -> Values] : MdioInit(content)) => MdioIInv
    <2>1. ASSUME NEW content \in [Regs -> Values], MdioInit(content)
          PROVE  MdioIInv
      BY <2>1, InitMdioTypeOK, InitAccessInv DEF MdioIInv, TimerInv, MdioInit
    <2> QED
      BY <2>1
  <1>2. MdioIInv /\ [MdioNext]_mvars => MdioIInv'
    BY NextMdioTypeOK, NextAccessInv, NextTimerInv DEF MdioIInv
  <1> QED
    BY <1>1, <1>2, PTL DEF MdioSpec

(* The type invariant of the bus.                                          *)
THEOREM MdioTypeCorrect == MdioSpec => []MdioTypeOK
  BY MdioInvariant, PTL DEF MdioIInv

(* stmmac_mdio_busy_wait says -EBUSY only of an MII_BUSY that was seen set *)
(* Timeout ticks after the wait began or later, for every Timeout, every   *)
(* width of jiffies and wherever the caller loses the processor.           *)
THEOREM NoFalseTimeoutThm == MdioSpec => NoFalseTimeout
  <1>1. MdioIInv /\ [MdioNext]_mvars
        => [ret'.status = "EBUSY" /\ step = "test" /\ step' = "idle"
               => polled >= Timeout]_mvars
    BY StepNoFalseTimeout DEF MdioIInv
  <1> QED
    BY <1>1, MdioInvariant, PTL DEF MdioSpec, NoFalseTimeout

-----------------------------------------------------------------------------
(* The bus implements the memory of PhyRegs.                               *)

LEMMA MemoryInit ==
    ASSUME NEW content \in [Regs -> Values], MdioInit(content)
    PROVE  Memory!Init
  BY WrapFacts
  DEF MdioInit, Memory!Init, Memory!Calls, Calls, Memory!None, Late,
      Memory!NoRet, NoRet

LEMMA MemoryStep ==
    ASSUME MdioTypeOK, AccessInv, [MdioNext]_mvars
    PROVE  [Memory!Next]_(Memory!vars)
  <1> USE DEF hw, timer, wait, Memory!vars
  <1>1. ASSUME NEW c \in Calls, Access(c)
        PROVE  Memory!Start
    <2>1. /\ step = "idle" /\ step' = "curr" /\ call' = c
          /\ UNCHANGED <<phy, busy, cmd, data>>
          /\ ret' = NoRet
      BY <1>1 DEF Access
    <2>2. issued' = FALSE
      BY <1>1 DEF Access
    <2>3. Late' = Late
      BY <2>1 DEF Late
    <2>4. call' \in Memory!Calls /\ ret' \in Memory!NoRet
      BY <2>1, WrapFacts DEF Memory!Calls, Calls, Memory!NoRet, NoRet
    <2> QED
      BY <2>1, <2>2, <2>3, <2>4 DEF Memory!Start
  <1>2. CASE WaitCurr \/ WaitBusy \/ WaitReady \/ WaitAgain
    BY <1>2 DEF WaitCurr, WaitBusy, WaitReady, WaitAgain, Late
  <1>3. CASE WaitDone
    <2>1. CASE call.op = "write"
      <3>1. /\ call' = NoCall /\ step' = "idle"
            /\ ret' = [status |-> "ok", val |-> NoVal]
            /\ step # "idle" /\ issued /\ ~busy
        BY <1>3, <2>1 DEF WaitDone, Return
      <3>2. issued' = FALSE
        BY <1>3, <2>1 DEF WaitDone, Return
      <3>3. Late = Memory!None /\ UNCHANGED <<phy, Late>>
        BY <1>3 DEF WaitDone, Late, Memory!None
      <3> QED
        BY <2>1, <3>1, <3>2, <3>3, WrapFacts
        DEF Memory!Next, Memory!WriteOk, Memory!Return, Memory!Calls, Calls
    <2>2. CASE call.op # "write"
      BY <1>3, <2>2 DEF WaitDone, Late
    <2> QED
      BY <2>1, <2>2
  <1>4. CASE GiveUp
    <2>1. /\ call' = NoCall /\ step' = "idle" /\ step # "idle"
          /\ ret' = [status |-> "EBUSY", val |-> NoVal]
      BY <1>4 DEF GiveUp, Return
    <2>2. issued' = FALSE
      BY <1>4 DEF GiveUp, Return
    <2>3. UNCHANGED <<phy, Late>>
      BY <1>4 DEF GiveUp, Late
    <2> QED
      BY <2>1, <2>2, <2>3, WrapFacts
      DEF Memory!Next, Memory!GiveUp, Memory!Return, Memory!Calls, Calls
  <1>5. CASE WriteData
    BY <1>5 DEF WriteData, AccessInv, Late
  <1>6. CASE WriteCmd
    <2>1. ~busy /\ ~issued
      BY <1>6 DEF WriteCmd, AccessInv
    <2>2. issued' = TRUE /\ busy' = TRUE
      BY <1>6 DEF WriteCmd
    <2>3. Late = Memory!None
      BY <2>1, Zenon DEF Late, Memory!None
    <2>4. /\ step # "idle" /\ step' # "idle"
          /\ UNCHANGED <<phy, call, ret, data>>
          /\ cmd' = [op |-> call.op, reg |-> call.reg]
      BY <1>6, <2>1 DEF WriteCmd
    <2>5. call.op = "write" => data' = call.val
      BY <1>6 DEF WriteCmd, AccessInv
    <2>6. Late' = IF call.op = "write" THEN call
                  ELSE [op |-> "read", reg |-> call.reg]
      <3>1. call.op \in {"read", "write"}
            /\ call = [op |-> call.op, reg |-> call.reg, val |-> call.val]
        BY DEF MdioTypeOK, Calls
      <3>2. Late' = IF cmd'.op = "write"
                    THEN [op |-> "write", reg |-> cmd'.reg, val |-> data']
                    ELSE [op |-> "read", reg |-> cmd'.reg]
        BY <2>2, Zenon DEF Late
      <3>3. cmd'.op = call.op /\ cmd'.reg = call.reg
        BY <2>4
      <3> QED
        BY <2>5, <3>1, <3>2, <3>3
    <2>7. Memory!Issue
      <3>1. step # "idle" /\ ~issued /\ Late = Memory!None
            /\ UNCHANGED <<phy, call, ret>>
        BY <2>1, <2>3, <2>4
      <3>2. (step # "idle")' <=> (step # "idle")
        BY <2>4
      <3>3. (step # "idle")' = (step # "idle")
        BY <3>2, Zenon
      <3> QED
        BY <2>2, <2>6, <3>1, <3>3, Zenon DEF Memory!Issue
    <2> QED
      BY <2>7 DEF Memory!Next
  <1>7. CASE ReadData
    <2>1. /\ call' = NoCall /\ step' = "idle" /\ step # "idle"
          /\ ret' = [status |-> "ok", val |-> data]
          /\ issued /\ ~busy /\ call.op = "read"
          /\ data = phy[call.reg]
      BY <1>7 DEF ReadData, Return, AccessInv
    <2>2. issued' = FALSE
      BY <1>7 DEF ReadData, Return
    <2>3. Late = Memory!None /\ UNCHANGED <<phy, Late>>
      BY <1>7, <2>1 DEF ReadData, Late, Memory!None
    <2> QED
      BY <2>1, <2>2, <2>3, WrapFacts
      DEF Memory!Next, Memory!ReadOk, Memory!Return, Memory!Calls, Calls
  <1>8. CASE Reset
    <2>1. step = "idle" /\ step' = step
          /\ UNCHANGED <<phy, cmd, data, call, issued, ret>>
      BY <1>8 DEF Reset
    <2>2. busy' = busy \/ ~busy'
      BY <1>8, Zenon DEF Reset
    <2>3. CASE busy' = busy
      BY <2>1, <2>3, Zenon DEF Late
    <2>4. CASE ~busy'
      <3>1. Late' = Memory!None
        BY <2>4, Zenon DEF Late, Memory!None
      <3>2. Memory!Drop
        BY <2>1, <3>1, Zenon DEF Memory!Drop
      <3> QED
        BY <3>2 DEF Memory!Next
    <2> QED
      BY <2>2, <2>3, <2>4
  <1>9. CASE Complete
    <2>1. Late # Memory!None /\ Late' = Memory!None
          /\ UNCHANGED <<step, call, ret>>
      BY <1>9 DEF Complete, Late, Memory!None
    <2>2. UNCHANGED issued
      BY <1>9 DEF Complete
    <2>3. phy' = IF Late.op = "write" THEN [phy EXCEPT ![Late.reg] = Late.val]
                                      ELSE phy
      BY <1>9 DEF Complete, Late, MdioTypeOK
    <2> QED
      BY <2>1, <2>2, <2>3 DEF Memory!Next, Memory!Land
  <1>10. CASE Tick
    BY <1>10 DEF Tick, Late
  <1>11. CASE UNCHANGED mvars
    BY <1>11 DEF mvars, Late
  <1> QED
    BY <1>1, <1>2, <1>3, <1>4, <1>5, <1>6, <1>7, <1>8, <1>9, <1>10, <1>11
    DEF MdioNext, AccessStep, Memory!Next

(* stmmac_mdio_read and stmmac_mdio_write make the memory of PhyRegs of    *)
(* two busy waits, a command and a data register, whatever the registers,  *)
(* the values and the time limit.                                          *)
THEOREM MemoryImplementedThm == MdioSpec => MemoryImplemented
  <1>1. (\E content \in [Regs -> Values] : MdioInit(content)) => Memory!Init
    BY MemoryInit
  <1>2. MdioIInv /\ [MdioNext]_mvars => [Memory!Next]_(Memory!vars)
    BY MemoryStep DEF MdioIInv
  <1> QED
    BY <1>1, <1>2, MdioInvariant, PTL DEF MdioSpec, MemoryImplemented,
    Memory!Spec

=============================================================================
