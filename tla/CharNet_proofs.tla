--------------------------- MODULE CharNet_proofs ---------------------------
(***************************************************************************)
(* Proofs about CharNet, for every set of addresses, every set of things   *)
(* that fail and every bound: the module uses the bus of Mdio, so the bus  *)
(* keeps its promises under it, and the module keeps the clocks and the    *)
(* power on while the bus is used, and the registers mapped while the      *)
(* driver is bound, never frees a registered bus and chooses the address   *)
(* of a PHY.                                                               *)
(***************************************************************************)
EXTENDS CharNet, Mdio_proofs, FiniteSetTheorems

-----------------------------------------------------------------------------
(* The least number of a finite set of numbers is one of them.             *)
LEMMA LeastMember ==
    ASSUME NEW S, S \subseteq Nat, IsFiniteSet(S), S # {}
    PROVE  Least(S) \in S
  <1> DEFINE Upto(x) == {y \in S : y <= x}
             T == {Upto(x) : x \in S}
  <1>1. T \subseteq SUBSET S /\ T # {}
    OBVIOUS
  <1>2. IsWellFoundedOn(StrictSubsetOrdering(S), SUBSET S)
    BY FS_StrictSubsetOrderingWellFounded, FS_FiniteSubsetsOfFinite
  <1>3. PICK t \in T : \A u \in T : <<u, t>> \notin StrictSubsetOrdering(S)
    <2> HIDE DEF T
    <2> QED
      BY <1>1, <1>2, WFMin
  <1>4. PICK x \in S : t = Upto(x)
    OBVIOUS
  <1>5. ASSUME NEW b \in S, b < x
        PROVE  FALSE
    <2>1. b \in Nat /\ x \in Nat
      OBVIOUS
    <2>2. \A y \in S : y <= b => y <= x
      BY <1>5, <2>1
    <2>3. Upto(b) \subseteq Upto(x)
      BY <2>2
    <2>4. x \in Upto(x) /\ x \notin Upto(b)
      BY <1>5, <2>1
    <2>5. <<Upto(b), Upto(x)>> \in StrictSubsetOrdering(S)
      BY <2>3, <2>4 DEF StrictSubsetOrdering
    <2> QED
      BY <1>3, <1>4, <2>5
  <1>6. \A b \in S : x <= b
    BY <1>5
  <1> QED
    BY <1>6 DEF Least

-----------------------------------------------------------------------------
(* The module uses the bus: its steps are steps of Mdio or leave it alone. *)

LEMMA RegFacts ==
    /\ \A a \in Addrs : Reg(a, "id") \in Regs /\ Reg(a, "ctl") \in Regs
    /\ NoPhy \in Values /\ PhyId \in Values /\ NoPhy # PhyId
    /\ 0 \in Addrs
    /\ \A v \in Values : Contents(v) \subseteq [Regs -> Values]
  BY CharNetAssumption DEF Reg, Contents

LEMMA InitMdio == Init => \E content \in [Regs -> Values] : MdioInit(content)
  <1> SUFFICES ASSUME Init
               PROVE  \E content \in [Regs -> Values] : MdioInit(content)
    OBVIOUS
  <1>1. PICK v \in Values : \E content \in Contents(v) : MdioInit(content)
    BY DEF Init
  <1> QED
    BY <1>1, RegFacts

LEMMA StepMdio ==
    ASSUME TypeOK, [Next]_vars
    PROVE  [MdioNext]_mvars
  <1>1. CASE CharNetInit \/ LoadStep \/ FileOpen \/ FileClose \/ Bind
             \/ Unbind \/ AccessFaults \/ AccessWithoutCode \/ Exit
             \/ CharDevDestroy \/ UnregisterDriver \/ UnregisterUnderAccess
    BY <1>1 DEF CharNetInit, LoadStep, AllocRegion, AllocRegionFails,
       CharDevCreate, RegisterDriver, RegisterDriverFails, CharNetInitDone,
       FileOpen, FileClose, Bind, Unbind, MayRebind, AccessFaults,
       AccessWithoutCode, Exit, CharDevDestroy, UnregisterDriver,
       UnregisterUnderAccess
  <1>2. CASE ProbeStep
    <2>1. CASE RegisterReset
      BY <2>1 DEF RegisterReset, MdioNext
    <2>2. CASE ScanRead
      <3>1. [op |-> "read", reg |-> Reg(scan, "id"), val |-> NoVal] \in Calls
        BY <2>2, RegFacts, WrapFacts DEF ScanRead, Calls
      <3> QED
        BY <2>2, <3>1 DEF ScanRead, MdioNext
    <2>3. CASE ~RegisterReset /\ ~ScanRead
      BY <1>2, <2>3
         DEF ProbeStep, ProbeConfig, ConfigDt, ProbeMapFails, ProbeHw,
         ProbeIrqFails, NetOpen, RegisterFails, ScanAnswer, ScanFails,
         RegisterDone, RegisterNoPhy
    <2> QED
      BY <2>1, <2>2, <2>3
  <1>3. CASE ClientAccess
    <2>1. PICK o \in {"read", "write"}, a \in found, v \in Values :
              Access([op |-> o, reg |-> Reg(a, "ctl"), val |-> v])
      BY <1>3 DEF ClientAccess
    <2>2. [op |-> o, reg |-> Reg(a, "ctl"), val |-> v] \in Calls
      BY RegFacts DEF TypeOK, Calls
    <2> QED
      BY <2>1, <2>2 DEF MdioNext
  <1>4. CASE BusStep
    BY <1>4 DEF BusStep, AccessGoesOn, MdioNext
  <1>5. CASE UNCHANGED vars
    BY <1>5 DEF vars
  <1> QED
    BY <1>1, <1>2, <1>3, <1>4, <1>5 DEF Next

-----------------------------------------------------------------------------
(* The inductive invariant: which parts of the module exist at each step   *)
(* of its life, who may use the bus, what holds while the driver probes.   *)

LoadInv ==
    /\ load \in {"out", "init", "cdev", "exit", "exitdriver"} => files = 0
    /\ load \in {"out", "init", "cdev", "exitdriver"} => ~cdev
    /\ load \in {"out", "init", "cdev", "driver"} => ~bound
    /\ drv # "idle" => load \in {"probe", "in", "exit", "exitdriver"} /\ ~bound

UseInv ==
    step # "idle" => drv = "answer" \/ mii

DevInv ==
    /\ drv \in {"irq", "open", "register", "scan", "answer"} => mapped
    /\ drv \in {"register", "scan", "answer"} => enables > 0 /\ phyPower
    /\ bound => mapped /\ enables > 0 /\ phyPower
    /\ mii => enables > 0 /\ phyPower
    /\ clk_enable => enables > 0

BusInv ==
    /\ BusNotFreed
    /\ drv \in {"scan", "answer"} => ~mii /\ busName

(* The ID registers are never written; the scan reads them, and keeps what *)
(* it finds.                                                               *)
IdInv ==
    /\ \A a \in Addrs : phy[Reg(a, "id")] \in {NoPhy, PhyId}
    /\ call.op = "write" => call.reg.reg = "ctl"
    /\ busy /\ cmd.op = "write" => cmd.reg.reg = "ctl"

ScanInv ==
    /\ drv = "answer" =>
           /\ scan \in Addrs
           /\ step # "idle" => call.op = "read" /\ call.reg = Reg(scan, "id")
           /\ step = "idle" /\ ret.status = "ok" =>
                  ret.val = phy[Reg(scan, "id")]
    /\ drv \in {"scan", "answer"} => found \subseteq Present
    /\ drv \in {"irq", "open", "register", "scan", "answer"} => phy_addr = 0

LEMMA NextLoadInv ==
    ASSUME TypeOK, LoadInv, [Next]_vars
    PROVE  LoadInv'
  <1> USE DEF LoadInv, TypeOK, modVars, devVars, boardVars, busVars,
              scanVars, cvars
  <1>1. CASE CharNetInit \/ LoadStep
    BY <1>1 DEF CharNetInit, LoadStep, AllocRegion, AllocRegionFails,
                CharDevCreate, RegisterDriver, RegisterDriverFails,
                CharNetInitDone
  <1>2. CASE ProbeStep
    BY <1>2 DEF ProbeStep, ProbeConfig, ConfigDt, ProbeMapFails, ProbeHw,
       ProbeIrqFails, NetOpen, RegisterFails, RegisterReset, ScanRead,
       ScanAnswer, ScanFails, RegisterDone, RegisterNoPhy
  <1>3. CASE FileOpen \/ FileClose
    BY <1>3 DEF FileOpen, FileClose
  <1>4. CASE Bind \/ Unbind \/ ClientAccess \/ AccessFaults
             \/ AccessWithoutCode
    BY <1>4 DEF Bind, Unbind, MayRebind, ClientAccess, AccessFaults,
       AccessWithoutCode
  <1>5. CASE Exit \/ CharDevDestroy \/ UnregisterDriver
             \/ UnregisterUnderAccess
    BY <1>5 DEF Exit, CharDevDestroy, UnregisterDriver, UnregisterUnderAccess
  <1>6. CASE BusStep
    BY <1>6 DEF BusStep
  <1>7. CASE UNCHANGED vars
    BY <1>7 DEF vars
  <1> QED
    BY <1>1, <1>2, <1>3, <1>4, <1>5, <1>6, <1>7 DEF Next

LEMMA NextUseInv ==
    ASSUME LoadInv, UseInv, DevInv, [Next]_vars
    PROVE  UseInv'
  <1> USE DEF LoadInv, UseInv, modVars, devVars, boardVars, busVars,
              scanVars, cvars, mvars
  <1>1. CASE CharNetInit \/ LoadStep
    BY <1>1 DEF CharNetInit, LoadStep, AllocRegion, AllocRegionFails,
                CharDevCreate, RegisterDriver, RegisterDriverFails,
                CharNetInitDone
  <1>2. CASE ProbeStep
    BY <1>2 DEF ProbeStep, ProbeConfig, ConfigDt, ProbeMapFails, ProbeHw,
       ProbeIrqFails, NetOpen, RegisterFails, RegisterReset, ScanRead,
       ScanAnswer, ScanFails, RegisterDone, RegisterNoPhy, Reset
  <1>3. CASE FileOpen \/ FileClose
    BY <1>3 DEF FileOpen, FileClose
  <1>4. CASE Bind \/ Unbind \/ ClientAccess
    BY <1>4 DEF Bind, Unbind, MayRebind, ClientAccess
  <1>8. CASE AccessFaults
    <2>1. drv # "answer" /\ UNCHANGED <<step, mii>>
      BY <1>8 DEF AccessFaults, DevInv
    <2> QED
      BY <2>1, Zenon DEF UseInv
  <1>9. CASE AccessWithoutCode
    <2>1. step = "idle" /\ UNCHANGED step
      BY <1>9 DEF AccessWithoutCode
    <2> QED
      BY <2>1 DEF UseInv
  <1>5. CASE Exit \/ CharDevDestroy \/ UnregisterDriver
             \/ UnregisterUnderAccess
    BY <1>5 DEF Exit, CharDevDestroy, UnregisterDriver, UnregisterUnderAccess
  <1>6. CASE BusStep
    <2>1. step = "idle" => step' = "idle"
      BY <1>6 DEF BusStep, AccessGoesOn, AccessStep, WaitCurr, WaitBusy, WaitReady,
         WaitDone, WaitAgain, GiveUp, WriteData, WriteCmd, ReadData,
         Complete, Tick
    <2> QED
      BY <1>6, <2>1 DEF BusStep
  <1>7. CASE UNCHANGED vars
    BY <1>7 DEF vars
  <1> QED
    BY <1>1, <1>2, <1>3, <1>4, <1>5, <1>6, <1>7, <1>8, <1>9 DEF Next

LEMMA NextDevInv ==
    ASSUME TypeOK, LoadInv, DevInv, [Next]_vars
    PROVE  DevInv'
  <1> USE DEF LoadInv, DevInv, modVars, devVars, boardVars, busVars,
              scanVars, cvars
  <1>1. CASE CharNetInit \/ LoadStep
    BY <1>1 DEF CharNetInit, LoadStep, AllocRegion, AllocRegionFails,
                CharDevCreate, RegisterDriver, RegisterDriverFails,
                CharNetInitDone
  <1>2. CASE ProbeStep
    <2>1. CASE NetOpen
      <3>1. clk_enable' /\ phyPower'
        BY <2>1 DEF NetOpen, GmacClkEnable, PhyPowerOn, PowerOn
      <3>2. enables' > 0
        <4>1. CASE clk_enable
          BY <2>1, <4>1 DEF NetOpen, GmacClkEnable
        <4>2. CASE ~clk_enable
          <5>1. enables' = Count(enables)
            BY <2>1, <4>2, Zenon DEF NetOpen, GmacClkEnable
          <5>2. enables \in Nat /\ MaxEnables \in Nat \ {0}
            BY CharNetAssumption DEF TypeOK
          <5> QED
            BY <5>1, <5>2 DEF Count
        <4> QED
          BY <4>1, <4>2
      <3>3. mapped' = mapped /\ drv = "open"
        BY <2>1 DEF NetOpen
      <3>4. drv \in {"irq", "open", "register", "scan", "answer"} => mapped
        BY DEF DevInv
      <3> QED
        BY <3>1, <3>2, <3>3, <3>4 DEF DevInv
    <2>2. CASE ProbeConfig
      BY <2>2 DEF ProbeConfig, ConfigDt, GmacClkInit
    <2>3. CASE ~NetOpen /\ ~ProbeConfig
      BY <1>2, <2>3 DEF ProbeStep, ProbeMapFails, ProbeHw, ProbeIrqFails,
         RegisterFails, RegisterReset, ScanRead, ScanAnswer, ScanFails,
         RegisterDone, RegisterNoPhy
    <2> QED
      BY <2>1, <2>2, <2>3
  <1>3. CASE FileOpen \/ FileClose
    BY <1>3 DEF FileOpen, FileClose
  <1>4. CASE Bind \/ Unbind \/ ClientAccess \/ AccessFaults
             \/ AccessWithoutCode
    BY <1>4 DEF Bind, Unbind, MayRebind, ClientAccess, AccessFaults,
       AccessWithoutCode
  <1>5. CASE Exit \/ CharDevDestroy \/ UnregisterDriver
             \/ UnregisterUnderAccess
    BY <1>5 DEF Exit, CharDevDestroy, UnregisterDriver, UnregisterUnderAccess
  <1>6. CASE BusStep
    BY <1>6 DEF BusStep
  <1>7. CASE UNCHANGED vars
    BY <1>7 DEF vars
  <1> QED
    BY <1>1, <1>2, <1>3, <1>4, <1>5, <1>6, <1>7 DEF Next

LEMMA NextBusInv ==
    ASSUME LoadInv, BusInv, [Next]_vars
    PROVE  BusInv'
  <1> USE DEF LoadInv, BusInv, BusNotFreed, modVars, devVars, boardVars, busVars,
              scanVars, cvars
  <1>1. CASE CharNetInit \/ LoadStep
    BY <1>1 DEF CharNetInit, LoadStep, AllocRegion, AllocRegionFails,
                CharDevCreate, RegisterDriver, RegisterDriverFails,
                CharNetInitDone
  <1>2. CASE ProbeStep
    BY <1>2 DEF ProbeStep, ProbeConfig, ConfigDt, ProbeMapFails, ProbeHw,
       ProbeIrqFails, NetOpen, RegisterFails, RegisterReset, ScanRead,
       ScanAnswer, ScanFails, RegisterDone, RegisterNoPhy
  <1>3. CASE FileOpen \/ FileClose
    BY <1>3 DEF FileOpen, FileClose
  <1>4. CASE Bind \/ Unbind \/ ClientAccess \/ AccessFaults
             \/ AccessWithoutCode
    BY <1>4 DEF Bind, Unbind, MayRebind, ClientAccess, AccessFaults,
       AccessWithoutCode
  <1>5. CASE Exit \/ CharDevDestroy \/ UnregisterDriver
             \/ UnregisterUnderAccess
    BY <1>5 DEF Exit, CharDevDestroy, UnregisterDriver, UnregisterUnderAccess
  <1>6. CASE BusStep
    BY <1>6 DEF BusStep
  <1>7. CASE UNCHANGED vars
    BY <1>7 DEF vars
  <1> QED
    BY <1>1, <1>2, <1>3, <1>4, <1>5, <1>6, <1>7 DEF Next

-----------------------------------------------------------------------------
(* The bus between the module and the PHYs.                                *)

LEMMA WrittenIsCtl ==
    ASSUME IdInv, busy, cmd.op = "write"
    PROVE  \A a \in Addrs : Reg(a, "id") # cmd.reg
  <1>1. cmd.reg.reg = "ctl"
    BY Zenon DEF IdInv
  <1>2. \A a \in Addrs : Reg(a, "id").reg = "id"
    BY DEF Reg
  <1> QED
    BY <1>1, <1>2

LEMMA NextIdInv ==
    ASSUME TypeOK, IdInv, [Next]_vars
    PROVE  IdInv'
  <1> USE DEF hw
  <1>1. ASSUME NEW o \in {"read", "write"}, NEW a \in Addrs, NEW r,
               NEW v, o = "write" => r = "ctl",
               Access([op |-> o, reg |-> Reg(a, r), val |-> v])
        PROVE  IdInv'
    BY <1>1 DEF Access, IdInv, Reg
  <1>2. CASE ClientAccess
    BY <1>1, <1>2 DEF ClientAccess, TypeOK
  <1>3. CASE ScanRead
    BY <1>1, <1>3 DEF ScanRead
  <1>4. CASE RegisterReset
    <2>1. UNCHANGED <<phy, cmd, call>>
      BY <1>4 DEF RegisterReset, Reset
    <2>2. busy' => busy
      BY <1>4, Zenon DEF RegisterReset, Reset
    <2> QED
      BY <2>1, <2>2, Zenon DEF IdInv
  <1>5. CASE Complete
    <2>1. CASE cmd.op = "write"
      <3>1. \A a \in Addrs : Reg(a, "id") # cmd.reg
        BY <1>5, <2>1, WrittenIsCtl DEF Complete
      <3>2. \A a \in Addrs : phy'[Reg(a, "id")] = phy[Reg(a, "id")]
        BY <1>5, <2>1, <3>1, RegFacts DEF Complete, TypeOK, MdioTypeOK
      <3>3. ~busy' /\ UNCHANGED <<cmd, call>>
        BY <1>5 DEF Complete
      <3> QED
        BY <3>2, <3>3 DEF IdInv
    <2>2. CASE cmd.op # "write"
      <3>1. cmd.op = "read"
        BY <2>2 DEF TypeOK, MdioTypeOK
      <3>2. ~busy' /\ UNCHANGED <<cmd, call, phy>>
        BY <1>5, <3>1 DEF Complete
      <3> QED
        BY <3>2 DEF IdInv
    <2> QED
      BY <2>1, <2>2
  <1>6. CASE WriteCmd
    BY <1>6 DEF WriteCmd, IdInv
  <1>7. CASE WaitDone \/ GiveUp \/ ReadData
    <2>1. UNCHANGED <<phy, busy, cmd>> /\ (UNCHANGED call \/ call' = NoCall)
      BY <1>7 DEF WaitDone, GiveUp, ReadData, Return
    <2> QED
      BY <2>1 DEF IdInv, NoCall
  <1>8. CASE WaitCurr \/ WaitBusy \/ WaitReady \/ WaitAgain \/ WriteData \/ Tick
    BY <1>8 DEF WaitCurr, WaitBusy, WaitReady, WaitAgain, WriteData, Tick,
                IdInv
  <1>9. CASE UNCHANGED mvars
    BY <1>9 DEF mvars, IdInv
  <1>10. ASSUME ~ClientAccess, ~ScanRead, ~RegisterReset, ~BusStep
         PROVE  UNCHANGED mvars
    BY <1>10 DEF Next, vars, CharNetInit, LoadStep, AllocRegion,
       AllocRegionFails, CharDevCreate, RegisterDriver, RegisterDriverFails,
       CharNetInitDone, FileOpen, FileClose, Bind, Unbind, MayRebind,
       AccessFaults, AccessWithoutCode, Exit, CharDevDestroy, UnregisterDriver,
       UnregisterUnderAccess, ProbeStep, ProbeConfig, ConfigDt, ProbeMapFails,
       ProbeHw, ProbeIrqFails, NetOpen, RegisterFails, ScanAnswer, ScanFails,
       RegisterDone, RegisterNoPhy
  <1> QED
    BY <1>2, <1>3, <1>4, <1>5, <1>6, <1>7, <1>8, <1>9, <1>10
    DEF BusStep, AccessGoesOn, AccessStep

LEMMA IdsStay ==
    ASSUME TypeOK, IdInv, [Next]_vars
    PROVE  /\ \A a \in Addrs : phy'[Reg(a, "id")] = phy[Reg(a, "id")]
           /\ Present' = Present
  <1>1. [MdioNext]_mvars
    BY StepMdio
  <1>2. CASE Complete /\ cmd.op = "write"
    <2>1. \A a \in Addrs : Reg(a, "id") # cmd.reg
      BY <1>2, WrittenIsCtl DEF Complete
    <2> QED
      BY <1>2, <2>1, RegFacts DEF Complete, TypeOK, MdioTypeOK, Present
  <1>3. CASE ~(Complete /\ cmd.op = "write")
    <2>1. phy' = phy
      BY <1>1, <1>3 DEF MdioNext, AccessStep, Access, WaitCurr, WaitBusy,
         WaitReady, WaitDone, WaitAgain, GiveUp, WriteData, WriteCmd,
         ReadData, Reset, Complete, Tick, mvars, hw, TypeOK, MdioTypeOK
    <2> QED
      BY <2>1 DEF Present
  <1> QED
    BY <1>2, <1>3

LEMMA NextScanInv ==
    ASSUME TypeOK, AccessInv, BusInv, IdInv, ScanInv, [Next]_vars
    PROVE  ScanInv'
  <1> USE DEF cvars, modVars, devVars, boardVars, busVars, scanVars
  <1>1. /\ \A a \in Addrs : phy'[Reg(a, "id")] = phy[Reg(a, "id")]
        /\ Present' = Present
    BY IdsStay
  <1>2. CASE BusStep
    <2>1. UNCHANGED cvars
      BY <1>2 DEF BusStep
    <2>2. ASSUME drv = "answer"
          PROVE  /\ step' # "idle" => call'.op = "read"
                                      /\ call'.reg = Reg(scan, "id")
                 /\ step' = "idle" /\ ret'.status = "ok" =>
                        ret'.val = phy[Reg(scan, "id")]
      <3> USE <2>2 DEF ScanInv
      <3>1. CASE WaitDone
        BY <3>1 DEF WaitDone
      <3>2. CASE GiveUp
        BY <3>2 DEF GiveUp, Return
      <3>3. CASE ReadData
        BY <3>3 DEF ReadData, Return, AccessInv
      <3>4. CASE WaitCurr \/ WaitBusy \/ WaitReady \/ WaitAgain \/ WriteData
                 \/ WriteCmd \/ Complete \/ Tick
        BY <3>4 DEF WaitCurr, WaitBusy, WaitReady, WaitAgain, WriteData,
                    WriteCmd, Complete, Tick
      <3> QED
        BY <1>2, <3>1, <3>2, <3>3, <3>4 DEF BusStep, AccessGoesOn, AccessStep
    <2> QED
      BY <1>1, <2>1, <2>2 DEF ScanInv
  <1>3. CASE ScanRead
    <2>1. /\ step' = "curr" /\ call'.op = "read"
          /\ call'.reg = Reg(scan, "id") /\ scan \in Addrs
          /\ UNCHANGED <<scan, found, phy_addr>> /\ drv = "scan"
      BY <1>3 DEF ScanRead, Access
    <2> QED
      BY <1>1, <2>1 DEF ScanInv
  <1>4. CASE ScanAnswer
    <2>1. ret.val = phy[Reg(scan, "id")] /\ scan \in Addrs
      BY <1>4 DEF ScanAnswer, ScanInv
    <2>2. ret.val # NoPhy => scan \in Present
      BY <2>1 DEF IdInv, Present
    <2>3. found' \subseteq Present
      BY <1>4, <2>2 DEF ScanAnswer, ScanInv
    <2> QED
      BY <1>1, <1>4, <2>3 DEF ScanAnswer, ScanInv
  <1>5. CASE RegisterReset
    BY <1>5 DEF RegisterReset, ScanInv
  <1>6. CASE ProbeStep /\ ~ScanRead /\ ~ScanAnswer /\ ~RegisterReset
    BY <1>6 DEF ProbeStep, ProbeConfig, ConfigDt, ProbeMapFails, ProbeHw,
       ProbeIrqFails, NetOpen, RegisterFails, ScanFails, RegisterDone,
       RegisterNoPhy, ScanInv
  <1>7. CASE CharNetInit \/ LoadStep \/ FileOpen \/ FileClose \/ Bind
             \/ Unbind \/ AccessFaults \/ AccessWithoutCode \/ Exit
             \/ CharDevDestroy \/ UnregisterDriver \/ UnregisterUnderAccess
             \/ UNCHANGED vars
    <2>1. UNCHANGED <<mvars, scanVars>>
          /\ (drv' = drv \/ drv' \in {"map", "idle"})
      BY <1>7 DEF CharNetInit, LoadStep, AllocRegion, AllocRegionFails,
         CharDevCreate, RegisterDriver, RegisterDriverFails, CharNetInitDone,
         FileOpen, FileClose, Bind, Unbind, MayRebind, AccessFaults,
         AccessWithoutCode, Exit, CharDevDestroy, UnregisterDriver,
         UnregisterUnderAccess, vars
    <2> QED
      BY <1>1, <2>1 DEF ScanInv, mvars
  <1>8. CASE ClientAccess
    <2>1. UNCHANGED cvars /\ drv # "answer"
      BY <1>8 DEF ClientAccess, BusInv
    <2> QED
      BY <1>1, <2>1 DEF ScanInv
  <1> QED
    BY <1>2, <1>3, <1>4, <1>5, <1>6, <1>7, <1>8 DEF Next

-----------------------------------------------------------------------------
(* Types.                                                                  *)

LEMMA ChosenPresent ==
    ASSUME TypeOK, ScanInv, RegisterDone
    PROVE  phy_addr' \in found /\ found \subseteq Present
  <1>1. phy_addr = 0 /\ found \subseteq Present /\ found # {}
        /\ phy_addr' = Chosen
    BY DEF RegisterDone, ScanInv
  <1>2. CASE found = {0}
    BY <1>1, <1>2 DEF Chosen
  <1>3. CASE found # {0}
    <2>1. found \ {0} # {} /\ found \ {0} \subseteq Addrs
      BY <1>1, <1>3 DEF TypeOK
    <2>2. found \ {0} \subseteq Nat /\ IsFiniteSet(found \ {0})
      BY <2>1, CharNetAssumption, FS_Subset
    <2>3. Least(found \ {0}) \in found
      BY <2>1, <2>2, LeastMember
    <2> QED
      BY <1>1, <1>3, <2>3 DEF Chosen
  <1> QED
    BY <1>1, <1>2, <1>3

LEMMA NextTypeOK ==
    ASSUME TypeOK, ScanInv, [Next]_vars
    PROVE  TypeOK'
  <1> USE DEF modVars, devVars, boardVars, busVars, scanVars, cvars
  <1>1. MdioTypeOK'
    BY StepMdio, NextMdioTypeOK DEF TypeOK
  <1>2. /\ load' \in {"out", "init", "cdev", "driver", "probe", "in", "stray",
                      "exit", "exitdriver"}
        /\ drv' \in {"idle", "map", "irq", "open", "register", "scan",
                     "answer"}
    BY DEF TypeOK, Next, vars, CharNetInit, LoadStep, AllocRegion,
       AllocRegionFails, CharDevCreate, RegisterDriver, RegisterDriverFails,
       CharNetInitDone, FileOpen, FileClose, Bind, Unbind, MayRebind, Exit,
       CharDevDestroy, UnregisterDriver, UnregisterUnderAccess, ProbeStep,
       ProbeConfig, ConfigDt, ProbeMapFails, ProbeHw, ProbeIrqFails, NetOpen,
       RegisterFails, RegisterReset, ScanRead, ScanAnswer, ScanFails,
       RegisterDone, RegisterNoPhy, ClientAccess, AccessFaults,
       AccessWithoutCode, BusStep
  <1>3. files' \in 0 .. MaxFiles
    <2>1. CASE FileOpen
      BY <2>1, CharNetAssumption DEF FileOpen, TypeOK
    <2>2. CASE FileClose
      BY <2>2, CharNetAssumption DEF FileClose, TypeOK
    <2>3. CASE ~FileOpen /\ ~FileClose
      <3>1. files' = files
        BY <2>3 DEF Next, vars, CharNetInit, LoadStep, AllocRegion,
           AllocRegionFails, CharDevCreate, RegisterDriver,
           RegisterDriverFails, CharNetInitDone, Bind, Unbind, MayRebind, Exit,
           CharDevDestroy, UnregisterDriver, UnregisterUnderAccess, ProbeStep,
           ProbeConfig, ConfigDt, ProbeMapFails, ProbeHw, ProbeIrqFails,
           NetOpen, RegisterFails, RegisterReset, ScanRead, ScanAnswer,
           ScanFails, RegisterDone, RegisterNoPhy, ClientAccess, AccessFaults,
           AccessWithoutCode, BusStep
      <3> QED
        BY <3>1 DEF TypeOK
    <2> QED
      BY <2>1, <2>2, <2>3
  <1>4. enables' \in 0 .. MaxEnables
    <2>1. CASE NetOpen
      <3>1. enables' = enables \/ enables' = Count(enables)
        BY <2>1, Zenon DEF NetOpen, GmacClkEnable
      <3> QED
        BY <3>1, CharNetAssumption DEF Count, TypeOK
    <2>2. CASE ~NetOpen
      <3>1. enables' = enables
        BY <2>2 DEF Next, vars, CharNetInit, LoadStep, AllocRegion,
           AllocRegionFails, CharDevCreate, RegisterDriver,
           RegisterDriverFails, CharNetInitDone, FileOpen, FileClose, Bind,
           Unbind, MayRebind, Exit, CharDevDestroy, UnregisterDriver,
           UnregisterUnderAccess, ProbeStep, ProbeConfig, ConfigDt,
           ProbeMapFails, ProbeHw, ProbeIrqFails, RegisterFails, RegisterReset,
           ScanRead, ScanAnswer, ScanFails, RegisterDone, RegisterNoPhy,
           ClientAccess, AccessFaults, AccessWithoutCode, BusStep, GmacClkInit
      <3> QED
        BY <3>1 DEF TypeOK
    <2> QED
      BY <2>1, <2>2
  <1>5. /\ major' \in BOOLEAN
        /\ region' \in BOOLEAN
        /\ cdev' \in BOOLEAN
        /\ driver' \in BOOLEAN
    <2>1. /\ major' = major \/ major' = TRUE \/ major' = FALSE
          /\ region' = region \/ region' = TRUE \/ region' = FALSE
          /\ cdev' = cdev \/ cdev' = TRUE \/ cdev' = FALSE
          /\ driver' = driver \/ driver' = TRUE \/ driver' = FALSE
      BY DEF Next, vars, CharNetInit, LoadStep, AllocRegion, AllocRegionFails,
         CharDevCreate, RegisterDriver, RegisterDriverFails, CharNetInitDone,
         FileOpen, FileClose, Bind, Unbind, MayRebind, Exit, CharDevDestroy,
         UnregisterDriver, UnregisterUnderAccess, ProbeStep, ProbeConfig,
         ConfigDt, ProbeMapFails, ProbeHw, ProbeIrqFails, NetOpen,
         RegisterFails, RegisterReset, ScanRead, ScanAnswer, ScanFails,
         RegisterDone, RegisterNoPhy, ClientAccess, AccessFaults,
         AccessWithoutCode, BusStep, GmacClkInit, GmacClkEnable, PhyPowerOn,
         PowerOn
    <2> QED
      BY <2>1, Zenon DEF TypeOK
  <1>6. /\ bound' \in BOOLEAN
        /\ mapped' \in BOOLEAN
        /\ clk_enable' \in BOOLEAN
        /\ phyPower' \in BOOLEAN
    <2>1. /\ bound' = bound \/ bound' = TRUE \/ bound' = FALSE
          /\ mapped' = mapped \/ mapped' = TRUE \/ mapped' = FALSE
          /\ clk_enable' = clk_enable \/ clk_enable' = TRUE \/ clk_enable' = FALSE
          /\ phyPower' = phyPower \/ phyPower' = TRUE \/ phyPower' = FALSE
      BY DEF Next, vars, CharNetInit, LoadStep, AllocRegion, AllocRegionFails,
         CharDevCreate, RegisterDriver, RegisterDriverFails, CharNetInitDone,
         FileOpen, FileClose, Bind, Unbind, MayRebind, Exit, CharDevDestroy,
         UnregisterDriver, UnregisterUnderAccess, ProbeStep, ProbeConfig,
         ConfigDt, ProbeMapFails, ProbeHw, ProbeIrqFails, NetOpen,
         RegisterFails, RegisterReset, ScanRead, ScanAnswer, ScanFails,
         RegisterDone, RegisterNoPhy, ClientAccess, AccessFaults,
         AccessWithoutCode, BusStep, GmacClkInit, GmacClkEnable, PhyPowerOn,
         PowerOn
    <2> QED
      BY <2>1, Zenon DEF TypeOK
  <1>7. /\ busName' \in BOOLEAN
        /\ busMem' \in BOOLEAN
        /\ mii' \in BOOLEAN
    <2>1. /\ busName' = busName \/ busName' = TRUE \/ busName' = FALSE
          /\ busMem' = busMem \/ busMem' = TRUE \/ busMem' = FALSE
          /\ mii' = mii \/ mii' = TRUE \/ mii' = FALSE
      BY DEF Next, vars, CharNetInit, LoadStep, AllocRegion, AllocRegionFails,
         CharDevCreate, RegisterDriver, RegisterDriverFails, CharNetInitDone,
         FileOpen, FileClose, Bind, Unbind, MayRebind, Exit, CharDevDestroy,
         UnregisterDriver, UnregisterUnderAccess, ProbeStep, ProbeConfig,
         ConfigDt, ProbeMapFails, ProbeHw, ProbeIrqFails, NetOpen,
         RegisterFails, RegisterReset, ScanRead, ScanAnswer, ScanFails,
         RegisterDone, RegisterNoPhy, ClientAccess, AccessFaults,
         AccessWithoutCode, BusStep, GmacClkInit, GmacClkEnable, PhyPowerOn,
         PowerOn
    <2> QED
      BY <2>1, Zenon DEF TypeOK
  <1>8. phy_addr' \in Addrs /\ scan' \in Nat /\ found' \subseteq Addrs
    <2>1. CASE RegisterDone
      BY <2>1, ChosenPresent DEF TypeOK, RegisterDone
    <2>2. CASE ScanAnswer
      BY <2>2 DEF TypeOK, ScanAnswer, ScanInv
    <2>3. CASE RegisterReset \/ ProbeConfig
      BY <2>3, CharNetAssumption DEF TypeOK, RegisterReset, ProbeConfig,
         ConfigDt
    <2>4. CASE ~RegisterDone /\ ~ScanAnswer /\ ~RegisterReset /\ ~ProbeConfig
      <3>1. UNCHANGED scanVars
        BY <2>4 DEF Next, vars, CharNetInit, LoadStep, AllocRegion,
           AllocRegionFails, CharDevCreate, RegisterDriver,
           RegisterDriverFails, CharNetInitDone, FileOpen, FileClose, Bind,
           Unbind, MayRebind, Exit, CharDevDestroy, UnregisterDriver,
           UnregisterUnderAccess, ProbeStep, ProbeMapFails, ProbeHw,
           ProbeIrqFails, NetOpen, RegisterFails, ScanRead, ScanFails,
           RegisterNoPhy, ClientAccess, AccessFaults, AccessWithoutCode,
           BusStep
      <3> QED
        BY <3>1 DEF TypeOK
    <2> QED
      BY <2>1, <2>2, <2>3, <2>4
  <1> QED
    BY <1>1, <1>2, <1>3, <1>4, <1>5, <1>6, <1>7, <1>8 DEF TypeOK

-----------------------------------------------------------------------------
(* The invariant holds, and with it the properties.                        *)

IInv == TypeOK /\ AccessInv /\ LoadInv /\ UseInv /\ DevInv /\ BusInv
        /\ IdInv /\ ScanInv

LEMMA InitIInv == Init => IInv
  <1> SUFFICES ASSUME Init
               PROVE  IInv
    OBVIOUS
  <1>1. PICK v \in Values : \E content \in Contents(v) : MdioInit(content)
    BY DEF Init
  <1>2. PICK content \in Contents(v) : MdioInit(content)
    BY <1>1
  <1>3. MdioTypeOK /\ AccessInv
    BY <1>2, RegFacts, InitMdioTypeOK, InitAccessInv
  <1>4. TypeOK
    <2>1. /\ load = "out" /\ files = 0 /\ drv = "idle" /\ enables = 0
          /\ phy_addr = 0 /\ scan = 0 /\ found = {}
      BY DEF Init
    <2>2. /\ major \in BOOLEAN /\ region \in BOOLEAN /\ cdev \in BOOLEAN
          /\ driver \in BOOLEAN /\ bound \in BOOLEAN /\ mapped \in BOOLEAN
          /\ clk_enable \in BOOLEAN /\ phyPower \in BOOLEAN
          /\ busName \in BOOLEAN /\ busMem \in BOOLEAN /\ mii \in BOOLEAN
      BY DEF Init
    <2>3. files \in 0 .. MaxFiles /\ enables \in 0 .. MaxEnables
      BY <2>1, CharNetAssumption
    <2> QED
      BY <1>3, <2>1, <2>2, <2>3, RegFacts DEF TypeOK
  <1>5. LoadInv /\ DevInv /\ BusInv /\ ScanInv
    BY DEF Init, LoadInv, DevInv, BusInv, BusNotFreed, ScanInv
  <1>6. UseInv
    BY <1>2 DEF MdioInit, UseInv
  <1>7. IdInv
    <2>1. phy = content /\ call.op = "read"
      BY <1>2 DEF MdioInit, NoCall
    <2>2. ~busy
      BY <1>2 DEF MdioInit
    <2>3. \A a \in Addrs : content[Reg(a, "id")] \in {NoPhy, PhyId}
      BY <1>2, RegFacts DEF Contents, Reg
    <2> QED
      BY <2>1, <2>2, <2>3 DEF IdInv
  <1> QED
    BY <1>3, <1>4, <1>5, <1>6, <1>7 DEF IInv

LEMMA NextIInv ==
    ASSUME IInv, [Next]_vars
    PROVE  IInv'
  <1> USE DEF IInv
  <1>1. MdioTypeOK /\ [MdioNext]_mvars
    BY StepMdio DEF TypeOK
  <1> QED
    BY <1>1, NextTypeOK, NextAccessInv, NextLoadInv, NextUseInv, NextDevInv,
       NextBusInv, NextIdInv, NextScanInv

LEMMA Invariant == Spec => []IInv
  BY InitIInv, NextIInv, PTL DEF Spec

(* The type invariant of the module.                                       *)
THEOREM TypeCorrect == Spec => []TypeOK
  BY Invariant, PTL DEF IInv

(* The file operations of the character device are not called after an     *)
(* unload: the reference the open file holds keeps the module.             *)
THEOREM FopsHaveCodeThm == Spec => []FopsHaveCode
  <1>1. IInv => FopsHaveCode
    BY DEF IInv, LoadInv, FopsHaveCode
  <1> QED
    BY <1>1, Invariant, PTL

(* Every access to the bus, also of a client that begins or goes on after  *)
(* an unbind, finds the clocks on and the PHY powered, and while the       *)
(* driver probes or is bound the registers are mapped, whatever fails and  *)
(* in whatever order the driver is bound, unbound, loaded and unloaded.    *)
THEOREM AccessClockedThm == Spec => []AccessClocked
  <1>1. IInv => AccessClocked
    BY DEF IInv, UseInv, DevInv, AccessClocked
  <1> QED
    BY <1>1, Invariant, PTL

(* A registered bus is never freed, and net_priv.mii never points to one   *)
(* that is gone.                                                           *)
THEOREM BusNotFreedThm == Spec => []BusNotFreed
  <1>1. IInv => BusNotFreed
    BY DEF IInv, BusInv
  <1> QED
    BY <1>1, Invariant, PTL

(* The loop of stmmac_mdio_register ends on the address of a PHY, for      *)
(* every set of addresses and every set of PHYs.                           *)
THEOREM PhyChosenThm == Spec => PhyChosen
  <1>1. ASSUME IInv, [Next]_vars, ~mii, mii'
        PROVE  phy_addr' \in Present
    <2>1. RegisterDone
      BY <1>1 DEF Next, vars, modVars, devVars, boardVars, busVars, scanVars,
         cvars, CharNetInit, LoadStep, AllocRegion, AllocRegionFails,
         CharDevCreate, RegisterDriver, RegisterDriverFails, CharNetInitDone,
         FileOpen, FileClose, Bind, Unbind, MayRebind, Exit, CharDevDestroy,
         UnregisterDriver, UnregisterUnderAccess, ProbeStep, ProbeConfig,
         ConfigDt, ProbeMapFails, ProbeHw, ProbeIrqFails, NetOpen,
         RegisterFails, RegisterReset, ScanRead, ScanAnswer, ScanFails,
         RegisterNoPhy, ClientAccess, AccessFaults, AccessWithoutCode, BusStep
    <2> QED
      BY <1>1, <2>1, ChosenPresent DEF IInv
  <1>2. IInv /\ [Next]_vars => [~mii /\ mii' => phy_addr' \in Present]_vars
    BY <1>1
  <1> QED
    BY <1>2, Invariant, PTL DEF Spec, PhyChosen

-----------------------------------------------------------------------------
(* The module as a user of the bus.                                        *)

(* Every behaviour of the module is one of Mdio: what is proved of the bus *)
(* holds of it under char_net.ko.                                          *)
THEOREM ModuleUsesBus == Spec => MdioSpec
  <1>1. Init => \E content \in [Regs -> Values] : MdioInit(content)
    BY InitMdio
  <1>2. IInv /\ [Next]_vars => [MdioNext]_mvars
    BY StepMdio DEF IInv
  <1> QED
    BY <1>1, <1>2, Invariant, PTL DEF Spec, MdioSpec

(* Under the module the bus is the memory of PhyRegs.                      *)
THEOREM ModuleMemory == Spec => MemoryImplemented
  BY ModuleUsesBus, MemoryImplementedThm

(* Under the module -EBUSY is never early.                                 *)
THEOREM ModuleTimeout == Spec => NoFalseTimeout
  BY ModuleUsesBus, NoFalseTimeoutThm

=============================================================================
