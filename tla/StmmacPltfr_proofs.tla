-------------------------- MODULE StmmacPltfr_proofs --------------------------
(***************************************************************************)
(* Proofs about StmmacPltfr, for every set of boards and link modes and    *)
(* every set of steps of stmmac_open that may fail: the platform glue runs *)
(* on the life cycle of NetDev; clocks and power are paired, the PHY is    *)
(* polled and the link adjusted only while they are on, the speeds agree.  *)
(***************************************************************************)
EXTENDS StmmacPltfr, NetDev_proofs

-----------------------------------------------------------------------------
(* The life cycle without restore.                                         *)

LifeStep ==
    \/ Open \/ OpenStep \/ Close \/ Freeze \/ Remove \/ CloseStep
    \/ ProbeStep \/ (\E w \in BOOLEAN : Suspend(w)) \/ Resume
    \/ (\E l \in AllLines : IrqEnter(l)) \/ TimerFires
    \/ (\E c \in Contexts : CleanDone(c))
    \/ XmitEnter \/ XmitDone
    \/ UNCHANGED vars

LEMMA StepLife ==
    ASSUME [PltfrNext]_<<vars, pvars>>
    PROVE  LifeStep
  BY DEF PltfrNext, LifeStep, OpenStep, CloseStep, ProbeStep,
     PltfrOpenPower, PltfrOpenPhy, PltfrOpenDma, PltfrOpenStart,
     PltfrOpenFails, PltfrUndoRest, PltfrClosePhy, PltfrCloseOff,
     PltfrSuspend, PltfrResume, PltfrRemove, PltfrProbe, PltfrProbeCsr,
     Halted, AdjustRead, AdjustUp, AdjustDown, Elsewhere

LEMMA LifeIsNetDev == LifeStep => [Next]_vars
  BY DEF LifeStep, Next

(* Without restore only the networking core opens the device.              *)
OpenBy == (pc \in OpenSteps \cup {"undo"} => by = "core") /\ frozen # "failed"
LifeInv == StepInv /\ OpenBy

LEMMA NextLifeInv ==
    ASSUME TypeOK, LifeInv, LifeStep
    PROVE  LifeInv'
  <1> USE DEF OpenBy, OpenSteps, CloseSteps, core, drv, pm, hw
  <1>1. StepInv'
    BY NextStepInv, LifeIsNetDev DEF LifeInv
  <1>2. OpenBy
    BY DEF LifeInv
  <1> SUFFICES OpenBy'
    BY <1>1 DEF LifeInv
  <1>3. CASE Open
    BY <1>2, <1>3 DEF Open
  <1>4. CASE OpenStep
    <2>1. by = "core"
      BY <1>2, <1>4, NetDevAssumption DEF OpenStep, OpenPower, OpenMdio,
         OpenPhy, OpenRings, OpenDma, OpenIrq, OpenStart, OpenUp, OpenFails,
         UndoIrq, UndoRest, AllLines
    <2>2. by' = "core" /\ frozen' \in {frozen, "no"}
      BY <1>4, <2>1 DEF OpenStep, OpenPower, OpenMdio, OpenPhy, OpenRings,
         OpenDma, OpenIrq, OpenStart, OpenUp, OpenFails, UndoIrq, UndoRest
    <2> QED
      BY <1>2, <2>2
  <1>5. CASE Close \/ Freeze \/ Resume \/ \E w \in BOOLEAN : Suspend(w)
    <2>1. pc' \in {"idle", "close"} /\ frozen' = frozen
      BY <1>5 DEF Close, Freeze, Resume, Suspend
    <2> QED
      BY <1>2, <2>1
  <1>6. CASE CloseStep
    <2>1. CASE RemoveClose \/ RemoveDone
      <3>1. pc' \in {"idle", "close"} /\ frozen' = frozen
        BY <2>1 DEF RemoveClose, RemoveDone
      <3> QED
        BY <1>2, <3>1
    <2>2. CASE ClosePhy \/ CloseTimer \/ CloseIrq \/ CloseDma \/ CloseRings
      <3>1. pc' \in CloseSteps /\ frozen' = frozen
        BY <2>2 DEF ClosePhy, CloseTimer, CloseIrq, CloseDma, CloseRings
      <3> QED
        BY <1>2, <3>1
    <2>3. CASE CloseOff
      <3>1. pc' = "idle" /\ frozen' \in {"yes", "no"}
        BY <2>3 DEF CloseOff
      <3> QED
        BY <3>1
    <2> QED
      BY <1>6, <2>1, <2>2, <2>3 DEF CloseStep
  <1>7. CASE \/ Remove \/ ProbeStep
             \/ (\E l \in AllLines : IrqEnter(l)) \/ TimerFires
             \/ (\E c \in Contexts : CleanDone(c)) \/ XmitEnter \/ XmitDone
             \/ UNCHANGED vars
    <2>1. UNCHANGED <<pc, by, frozen>>
      BY <1>7 DEF Remove, ProbeStep, Probe, ProbeMdio, ProbeCsr, ProbeLine,
         IrqEnter, TimerFires, CleanDone, XmitEnter, XmitDone, vars
    <2> QED
      BY <1>2, <2>1
  <1> QED
    BY <1>3, <1>4, <1>5, <1>6, <1>7 DEF LifeStep

(* What the steps that leave the board alone do to the life cycle, as far  *)
(* as the board is concerned.                                              *)
Stopped == pc = "idle" /\ (~running \/ frozen = "yes")
InService ==
    \/ pc \in {"mdio", "phy", "rings", "dma", "mac", "wol", "lpi", "start",
               "up"} \cup CloseSteps
    \/ pc = "idle" /\ running /\ frozen # "yes" /\ (suspended => wake)
Starting == pc \in {"power", "mdio", "phy", "rings", "dma", "mac", "wol",
                    "lpi", "start", "undo"}
Connected == \/ pc \in {"up", "close"}
             \/ pc = "idle" /\ running /\ frozen # "yes"

LEMMA ElsewherePhase ==
    ASSUME LifeInv, Elsewhere
    PROVE  /\ InService' => InService
           /\ Stopped' => Stopped
           /\ Starting' => Starting \/ Stopped
           /\ Connected => Connected'
           /\ UNCHANGED <<suspended, pvars>>
           /\ pc' \in {"rings", "dma"} => pc \in {"rings", "dma"}
           /\ pc = "off" => pc' = "off"
  <1> USE DEF LifeInv, StepInv, InService, Stopped, Starting, Connected,
              OpenSteps, CloseSteps, core, drv, pm, hw
  <1>0. UNCHANGED pvars
    BY DEF Elsewhere
  <1>1. CASE Open \/ Close \/ Freeze
    BY <1>0, <1>1 DEF Open, Close, Freeze
  <1>6. CASE RemoveClose
    <2>1. /\ pc = "idle" /\ remove = "hw"
          /\ running' = FALSE /\ UNCHANGED <<frozen, suspended, wake>>
          /\ (running /\ pc' = "close") \/ (~running /\ pc' = "idle")
      BY <1>6 DEF RemoveClose
    <2>2. ~suspended /\ frozen # "yes"
      BY <2>1
    <2> QED
      BY <1>0, <2>1, <2>2
  <1>7. CASE RemoveDone
    <2>1. UNCHANGED <<pc, running, frozen, suspended, wake>>
      BY <1>7 DEF RemoveDone
    <2> QED
      BY <1>0, <2>1
  <1>2. CASE OpenMdio \/ OpenRings \/ OpenUp
    BY <1>0, <1>2 DEF OpenMdio, OpenRings, OpenUp, After
  <1>3. CASE OpenIrq
    <2>1. pc \in {"mac", "wol", "lpi"} /\ pc' \in {"wol", "lpi", "start"}
          /\ UNCHANGED <<suspended, wake, running, frozen>>
      BY <1>3 DEF OpenIrq, AllLines, After
    <2> QED
      BY <1>0, <2>1
  <1>4. CASE CloseTimer \/ CloseIrq \/ CloseDma \/ CloseRings
    BY <1>0, <1>4 DEF CloseTimer, CloseIrq, CloseDma, CloseRings
  <1>5. CASE \/ (\E l \in AllLines : IrqEnter(l)) \/ TimerFires
             \/ (\E c \in Contexts : CleanDone(c)) \/ XmitEnter \/ XmitDone
             \/ (\E l \in AllLines : UndoIrq(l)) \/ ProbeMdio \/ ProbeLine
    <2>1. UNCHANGED <<pc, running, frozen, suspended, wake>>
      BY <1>5 DEF IrqEnter, TimerFires, CleanDone, XmitEnter, XmitDone,
         UndoIrq, ProbeMdio, ProbeLine
    <2> QED
      BY <1>0, <2>1
  <1> QED
    BY <1>1, <1>2, <1>3, <1>4, <1>5, <1>6, <1>7 DEF Elsewhere

-----------------------------------------------------------------------------
(* Clocks and power.                                                       *)

PowerOnInv ==
    /\ supply \in {0, 1}
    /\ ClocksPaired
    /\ InService => clk_enable /\ Powered /\ ~reset_io
    /\ Stopped => ~clk_enable

LEMMA ClockSwitch ==
    ASSUME NEW on \in BOOLEAN, ClocksPaired, GmacClkEnable(on),
           clk_enable \in BOOLEAN, board' = board
    PROVE  ClocksPaired' /\ clk_enable' = on
  <1>1. ASSUME NEW c \in Clocks
        PROVE  count'[c] = IF on /\ c \in Used(board) THEN 1 ELSE 0
    <2>1. count[c] = IF clk_enable /\ c \in Used(board) THEN 1 ELSE 0
      BY DEF ClocksPaired
    <2>2. count'[c] = IF c \in Used(board) /\ on # clk_enable
                      THEN count[c] + (IF on THEN 1 ELSE -1) ELSE count[c]
      BY DEF GmacClkEnable
    <2>3. CASE c \notin Used(board)
      BY <2>1, <2>2, <2>3
    <2>4. CASE c \in Used(board) /\ (on <=> clk_enable)
      <3>1. on = clk_enable
        <4>1. CASE on
          BY <2>4, <4>1
        <4>2. CASE ~on
          BY <2>4, <4>2
        <4> QED
          BY <4>1, <4>2
      <3> QED
        BY <2>1, <2>2, <2>4, <3>1
    <2>5. CASE c \in Used(board) /\ on /\ ~clk_enable
      <3>1. on # clk_enable
        BY <2>5, Zenon
      <3>2. count'[c] = count[c] + 1 /\ count[c] = 0
        BY <2>1, <2>2, <2>5, <3>1
      <3> QED
        BY <2>5, <3>2
    <2>6. CASE c \in Used(board) /\ ~on /\ clk_enable
      <3>1. on # clk_enable
        BY <2>6, Zenon
      <3>2. count'[c] = count[c] + -1 /\ count[c] = 1
        BY <2>1, <2>2, <2>6, <3>1
      <3> QED
        BY <2>6, <3>2
    <2> QED
      BY <2>3, <2>4, <2>5, <2>6
  <1>2. clk_enable' = on
    BY DEF GmacClkEnable
  <1> QED
    BY <1>1, <1>2 DEF ClocksPaired, Used

LEMMA PowerSwitch ==
    ASSUME NEW on \in BOOLEAN, supply \in {0, 1}, PhyPowerOn(on),
           board' = board
    PROVE  supply' \in {0, 1} /\ (Powered' <=> on) /\ (reset_io' <=> ~on)
  <1>1. CASE board.pmu
    <2>1. supply' = IF on THEN 1 ELSE 0
      BY <1>1 DEF PhyPowerOn, PowerOnByPmu
    <2>2. reset_io' = ~on
      BY DEF PhyPowerOn
    <2>3. Powered' <=> supply' > 0
      BY <1>1 DEF Powered
    <2>4. supply' \in {0, 1} /\ (supply' > 0 <=> on)
      BY <2>1
    <2> QED
      BY <2>2, <2>3, <2>4
  <1>2. CASE ~board.pmu
    BY <1>2 DEF PhyPowerOn, Powered
  <1> QED
    BY <1>1, <1>2

LEMMA NextPowerOnInv ==
    ASSUME PltfrTypeOK, LifeInv, PowerOnInv, [PltfrNext]_<<vars, pvars>>
    PROVE  PowerOnInv'
  <1> USE DEF clkVars, powerVars, fixed, macVars, pvars, core, drv, pm, hw
  <1>0. clk_enable \in BOOLEAN
    BY DEF PltfrTypeOK
  <1>1. CASE PltfrOpenPower
    <2>1. board' = board /\ PhyPowerOn(TRUE) /\ GmacClkEnable(TRUE)
      BY <1>1 DEF PltfrOpenPower
    <2>2. ClocksPaired' /\ clk_enable' /\ supply' \in {0, 1}
          /\ Powered' /\ ~reset_io'
      BY <1>0, <2>1, ClockSwitch, PowerSwitch DEF PowerOnInv
    <2>3. ~Stopped'
      BY <1>1 DEF PltfrOpenPower, OpenPower, After, Stopped
    <2> QED
      BY <2>2, <2>3 DEF PowerOnInv
  <1>2. CASE PltfrUndoRest
    <2>1. board' = board /\ GmacClkEnable(FALSE)
          /\ UNCHANGED <<supply, power_io, reset_io>>
      BY <1>2 DEF PltfrUndoRest
    <2>2. ClocksPaired' /\ ~clk_enable' /\ supply' \in {0, 1}
      BY <1>0, <2>1, ClockSwitch DEF PowerOnInv
    <2>3. ~InService'
      BY <1>2 DEF PltfrUndoRest, UndoRest, InService, LifeInv, OpenBy,
         OpenSteps, CloseSteps
    <2> QED
      BY <2>2, <2>3 DEF PowerOnInv
  <1>3. CASE PltfrCloseOff
    <2>1. board' = board /\ PhyPowerOn(FALSE) /\ GmacClkEnable(FALSE)
      BY <1>3 DEF PltfrCloseOff
    <2>2. ClocksPaired' /\ ~clk_enable' /\ supply' \in {0, 1}
      BY <1>0, <2>1, ClockSwitch, PowerSwitch DEF PowerOnInv
    <2>3. ~InService'
      BY <1>3 DEF PltfrCloseOff, CloseOff, InService, LifeInv, StepInv,
         CloseSteps
    <2> QED
      BY <2>2, <2>3 DEF PowerOnInv
  <1>4. ASSUME NEW w \in BOOLEAN, PltfrSuspend(w)
        PROVE  PowerOnInv'
    <2>1. /\ board' = board
          /\ pc = "idle" /\ pc' = "idle" /\ running /\ running' /\ ~suspended
          /\ frozen # "yes" /\ frozen' # "yes"
      BY <1>4 DEF PltfrSuspend, Suspend
    <2>2. ~Stopped'
      BY <2>1 DEF Stopped
    <2>3. CASE w
      <3>1. UNCHANGED <<clkVars, powerVars>>
        BY <1>4, <2>3 DEF PltfrSuspend
      <3>2. InService
        BY <2>1 DEF InService
      <3> QED
        BY <2>1, <2>2, <3>1, <3>2 DEF PowerOnInv, ClocksPaired, Used, Powered
    <2>4. CASE ~w
      <3>1. PhyPowerOn(FALSE) /\ GmacClkEnable(FALSE)
        BY <1>4, <2>4 DEF PltfrSuspend
      <3>2. ClocksPaired' /\ supply' \in {0, 1}
        BY <1>0, <2>1, <3>1, ClockSwitch, PowerSwitch DEF PowerOnInv
      <3>3. suspended' /\ ~wake'
        BY <1>4, <2>4 DEF PltfrSuspend, Suspend
      <3>4. ~InService'
        BY <2>1, <3>3 DEF InService, CloseSteps
      <3> QED
        BY <2>2, <3>2, <3>4 DEF PowerOnInv
    <2> QED
      BY <2>3, <2>4
  <1>5. CASE PltfrResume
    <2>1. /\ board' = board
          /\ pc = "idle" /\ pc' = "idle" /\ suspended
          /\ UNCHANGED <<running, frozen>>
      BY <1>5 DEF PltfrResume, Resume
    <2>2. ~Stopped' /\ running /\ frozen # "yes"
      BY <2>1 DEF Stopped, LifeInv, StepInv
    <2>3. CASE wake
      <3>1. UNCHANGED <<clkVars, powerVars>>
        BY <1>5, <2>3 DEF PltfrResume
      <3>2. InService
        BY <2>1, <2>2, <2>3 DEF InService
      <3> QED
        BY <2>1, <2>2, <3>1, <3>2 DEF PowerOnInv, ClocksPaired, Used, Powered
    <2>4. CASE ~wake
      <3>1. PhyPowerOn(TRUE) /\ GmacClkEnable(TRUE)
        BY <1>5, <2>4 DEF PltfrResume
      <3>2. ClocksPaired' /\ clk_enable' /\ supply' \in {0, 1}
            /\ Powered' /\ ~reset_io'
        BY <1>0, <2>1, <3>1, ClockSwitch, PowerSwitch DEF PowerOnInv
      <3> QED
        BY <2>2, <3>2 DEF PowerOnInv
    <2> QED
      BY <2>3, <2>4
  <1>6. CASE PltfrProbe
    <2>1. /\ UNCHANGED <<board, powerVars, pc, running, count>>
          /\ clk_enable' = FALSE /\ ~present
      BY <1>6 DEF PltfrProbe, Probe, GmacClkInit
    <2>2. Stopped /\ ~InService'
      BY <2>1 DEF LifeInv, StepInv, Stopped, InService, CloseSteps
    <2>3. ~clk_enable
      BY <2>2 DEF PowerOnInv
    <2>4. ClocksPaired'
      BY <2>1, <2>3 DEF PowerOnInv, ClocksPaired, Used
    <2> QED
      BY <2>1, <2>2, <2>4 DEF PowerOnInv
  <1>7. CASE Elsewhere
    BY <1>7, ElsewherePhase DEF PowerOnInv, ClocksPaired, Used, Powered
  <1>8. CASE \/ PltfrOpenPhy \/ PltfrOpenDma \/ PltfrOpenStart
             \/ PltfrOpenFails \/ PltfrClosePhy \/ PltfrRemove
             \/ (\E s \in Statuses : AdjustRead(s)) \/ AdjustUp \/ AdjustDown
             \/ PltfrProbeCsr \/ Halted \/ UNCHANGED <<vars, pvars>>
    <2>1. UNCHANGED <<board, clkVars, powerVars>>
      BY <1>8 DEF PltfrOpenPhy, PltfrOpenDma, PltfrOpenStart, PltfrOpenFails,
         PltfrClosePhy, PltfrRemove, AdjustRead, AdjustUp, AdjustDown,
         PltfrProbeCsr, Halted
    <2>2. (InService' => InService) /\ (Stopped' => Stopped)
      <3>1. CASE PltfrOpenPhy \/ PltfrOpenDma \/ PltfrOpenStart
        <4>1. pc \in {"phy", "dma", "start"} /\ pc' \in {"rings", "mac", "up"}
          <5>1. CASE PltfrOpenPhy
            BY <5>1 DEF PltfrOpenPhy, OpenPhy, After
          <5>2. CASE PltfrOpenDma
            BY <5>2 DEF PltfrOpenDma, OpenDma, After
          <5>3. CASE PltfrOpenStart
            BY <5>3 DEF PltfrOpenStart, OpenStart, After
          <5> QED
            BY <3>1, <5>1, <5>2, <5>3
        <4> QED
          BY <4>1 DEF InService, Stopped, CloseSteps
      <3>2. CASE PltfrOpenFails
        BY <3>2 DEF PltfrOpenFails, OpenFails, InService, Stopped, CloseSteps
      <3>3. CASE PltfrClosePhy
        <4>1. pc = "close" /\ pc' = "timer"
          BY <3>3 DEF PltfrClosePhy, ClosePhy
        <4> QED
          BY <4>1 DEF InService, Stopped, CloseSteps
      <3>4. CASE \/ (\E s \in Statuses : AdjustRead(s)) \/ AdjustUp
                 \/ AdjustDown \/ PltfrRemove \/ PltfrProbeCsr \/ Halted
                 \/ UNCHANGED <<vars, pvars>>
        <4>1. UNCHANGED <<pc, running, frozen, suspended, wake>>
          BY <3>4 DEF AdjustRead, AdjustUp, AdjustDown, PltfrRemove, Remove,
             PltfrProbeCsr, ProbeCsr, Halted, vars
        <4> QED
          BY <4>1 DEF InService, Stopped
      <3> QED
        BY <1>8, <3>1, <3>2, <3>3, <3>4
    <2> QED
      BY <2>1, <2>2 DEF PowerOnInv, ClocksPaired, Used, Powered
  <1> QED
    BY <1>1, <1>2, <1>3, <1>4, <1>5, <1>6, <1>7, <1>8 DEF PltfrNext

-----------------------------------------------------------------------------
(* The PHY state machine and the link.                                     *)

MachineInv ==
    /\ machine # "off" => Connected
    /\ machine = "up" => ~suspended
    /\ machine = "halted" => suspended
    /\ adj.run => machine # "off" /\ adj.status \in Statuses
    /\ adj.run /\ adj.status.up => machine = "up"

(* The MAC is off until an open turns it on, and after a release.          *)
MacInv == Starting \/ Stopped => ~mac.on

(* What the driver remembers of the link is what the MAC and the GRF work  *)
(* with, and what stmmac_adjust_link has read is still there.              *)
LinkInv ==
    /\ \/ link = NoLink
       \/ /\ link.oldlink
          /\ link.speed # 0 /\ link.oldduplex # "none"
          /\ link.speed = mac.speed /\ link.oldduplex = mac.duplex
          /\ board.grf => grf.speed = link.speed
    /\ pc \in {"rings", "dma"} => link = NoLink
    /\ adj.run => adj.ctrl.speed = mac.speed /\ adj.ctrl.duplex = mac.duplex

(* The probe has selected the interface.                                   *)
IfaceInv == present /\ board.grf => grf.iface = board.iface

LEMMA BoardFixed ==
    ASSUME [PltfrNext]_<<vars, pvars>>
    PROVE  board' = board
  <1> USE DEF fixed, pvars
  <1>1. CASE PltfrOpenPower \/ PltfrOpenPhy \/ PltfrOpenDma \/ PltfrOpenStart
             \/ PltfrOpenFails \/ PltfrUndoRest \/ PltfrClosePhy
             \/ PltfrCloseOff
    BY <1>1 DEF PltfrOpenPower, PltfrOpenPhy, PltfrOpenDma, PltfrOpenStart,
       PltfrOpenFails, PltfrUndoRest, PltfrClosePhy, PltfrCloseOff
  <1>2. CASE \/ (\E w \in BOOLEAN : PltfrSuspend(w)) \/ PltfrResume
             \/ PltfrRemove \/ PltfrProbe \/ PltfrProbeCsr
    BY <1>2 DEF PltfrSuspend, PltfrResume, PltfrRemove, PltfrProbe,
       PltfrProbeCsr
  <1>3. CASE \/ (\E s \in Statuses : AdjustRead(s)) \/ AdjustUp \/ AdjustDown
             \/ Elsewhere \/ Halted \/ UNCHANGED <<vars, pvars>>
    BY <1>3 DEF AdjustRead, AdjustUp, AdjustDown, Elsewhere, Halted
  <1> QED
    BY <1>1, <1>2, <1>3 DEF PltfrNext

(* Only a probe registers the device, and changes rate and clk_csr.        *)
LEMMA DriverStep ==
    ASSUME [PltfrNext]_<<vars, pvars>>
    PROVE  \/ PltfrProbe \/ PltfrProbeCsr
           \/ /\ UNCHANGED fixed
              /\ present' => present
              /\ probe' \notin {"mdio", "csr"} => probe \notin {"mdio", "csr"}
  <1> USE DEF pvars, core, drv
  <1>1. CASE PltfrOpenPower \/ PltfrOpenPhy \/ PltfrOpenDma \/ PltfrOpenStart
             \/ PltfrOpenFails \/ PltfrUndoRest \/ PltfrClosePhy
             \/ PltfrCloseOff
    <2>1. UNCHANGED <<fixed, drv>>
      BY <1>1 DEF PltfrOpenPower, PltfrOpenPhy, PltfrOpenDma, PltfrOpenStart,
         PltfrOpenFails, PltfrUndoRest, PltfrClosePhy, PltfrCloseOff,
         OpenPower, OpenPhy, OpenDma, OpenStart, OpenFails, UndoRest,
         ClosePhy, CloseOff
    <2> QED
      BY <2>1
  <1>2. CASE \/ (\E w \in BOOLEAN : PltfrSuspend(w)) \/ PltfrResume
             \/ PltfrRemove
    <2>1. UNCHANGED <<fixed, present, probe>>
      BY <1>2 DEF PltfrSuspend, PltfrResume, PltfrRemove, Suspend, Resume,
         Remove
    <2> QED
      BY <2>1
  <1>3. CASE \/ (\E s \in Statuses : AdjustRead(s)) \/ AdjustUp \/ AdjustDown
             \/ Halted \/ UNCHANGED <<vars, pvars>>
    <2>1. UNCHANGED <<fixed, vars>>
      BY <1>3 DEF AdjustRead, AdjustUp, AdjustDown, Halted
    <2> QED
      BY <2>1 DEF vars
  <1>4. CASE Elsewhere
    <2>1. UNCHANGED fixed
      BY <1>4 DEF Elsewhere
    <2>2. CASE ProbeMdio
      BY <2>1, <2>2 DEF ProbeMdio, ProbeAfter
    <2>3. CASE ProbeLine
      BY <2>1, <2>3 DEF ProbeLine, AllLines
    <2>4. CASE RemoveClose \/ RemoveDone
      <3>1. probe' = probe /\ (present' = present \/ present' = FALSE)
        BY <2>4 DEF RemoveClose, RemoveDone
      <3> QED
        BY <2>1, <3>1
    <2>5. CASE \/ Open \/ OpenMdio \/ OpenRings \/ OpenIrq \/ OpenUp
               \/ (\E l \in AllLines : UndoIrq(l)) \/ Close \/ Freeze
               \/ CloseTimer \/ CloseIrq \/ CloseDma \/ CloseRings
               \/ (\E l \in AllLines : IrqEnter(l)) \/ TimerFires
               \/ (\E c \in Contexts : CleanDone(c))
               \/ XmitEnter \/ XmitDone
      <3>1. UNCHANGED drv
        BY <2>5 DEF Open, OpenMdio, OpenRings, OpenIrq, OpenUp, UndoIrq,
           Close, Freeze, CloseTimer, CloseIrq, CloseDma, CloseRings,
           IrqEnter, TimerFires, CleanDone, XmitEnter, XmitDone
      <3> QED
        BY <2>1, <3>1
    <2> QED
      BY <1>4, <2>2, <2>3, <2>4, <2>5 DEF Elsewhere
  <1> QED
    BY <1>1, <1>2, <1>3, <1>4 DEF PltfrNext

LEMMA NextMachineInv ==
    ASSUME LifeInv, MachineInv, [PltfrNext]_<<vars, pvars>>
    PROVE  MachineInv'
  <1> USE DEF MachineInv, clkVars, powerVars, fixed, macVars, pvars, core, drv,
              pm, hw
  <1>0. board' = board /\ Statuses' = Statuses
    BY BoardFixed DEF Statuses
  <1>1. CASE PltfrOpenPower \/ PltfrOpenPhy \/ PltfrOpenDma \/ PltfrOpenFails
             \/ PltfrUndoRest \/ PltfrCloseOff
    <2>1. ~Connected /\ UNCHANGED <<machine, adj>>
      <3>1. CASE PltfrOpenFails
        <4>1. pc \in {"mdio", "phy", "dma", "mac", "wol", "lpi"}
          BY <3>1, NetDevAssumption DEF PltfrOpenFails, OpenFails, AllLines
        <4>2. UNCHANGED <<machine, adj>>
          BY <3>1 DEF PltfrOpenFails
        <4> QED
          BY <4>1, <4>2 DEF Connected
      <3>2. CASE ~PltfrOpenFails
        BY <1>1, <3>2 DEF PltfrOpenPower, PltfrOpenPhy, PltfrOpenDma,
           PltfrUndoRest, PltfrCloseOff, OpenPower, OpenPhy, OpenDma,
           UndoRest, CloseOff, Connected
      <3> QED
        BY <3>1, <3>2
    <2>2. machine = "off" /\ ~adj.run
      BY <2>1
    <2> QED
      BY <2>1, <2>2
  <1>2. CASE PltfrOpenStart
    <2>1. pc = "start" /\ pc' = "up" /\ machine' = "up"
          /\ UNCHANGED <<adj, suspended>>
      BY <1>2 DEF PltfrOpenStart, OpenStart, After
    <2>2. ~suspended /\ ~Connected
      BY <2>1 DEF LifeInv, StepInv, Connected
    <2> QED
      BY <2>1, <2>2 DEF Connected
  <1>3. CASE PltfrClosePhy
    <2>1. machine' = "off" /\ ~adj.run /\ adj' = adj
      BY <1>3 DEF PltfrClosePhy
    <2> QED
      BY <2>1
  <1>4. ASSUME NEW w \in BOOLEAN, PltfrSuspend(w)
        PROVE  MachineInv'
    <2>1. /\ machine' = "halted" /\ ~adj.run /\ adj' = adj
          /\ pc' = "idle" /\ running' /\ frozen' # "yes"
      BY <1>4 DEF PltfrSuspend, Suspend
    <2>2. suspended'
      BY <1>4 DEF PltfrSuspend, Suspend
    <2> QED
      BY <2>1, <2>2 DEF Connected
  <1>5. CASE PltfrResume
    <2>1. /\ machine' = "up" /\ ~adj.run /\ adj' = adj
          /\ pc' = "idle" /\ (running' <=> running) /\ suspended
          /\ frozen' = frozen
      BY <1>5 DEF PltfrResume, Resume
    <2>2. ~suspended'
      BY <1>5 DEF PltfrResume, Resume
    <2> QED
      BY <2>1, <2>2 DEF Connected, LifeInv, StepInv
  <1>6. CASE PltfrRemove \/ PltfrProbe \/ PltfrProbeCsr
    <2>1. UNCHANGED <<machine, adj, suspended, running, frozen, pc>>
      BY <1>6 DEF PltfrRemove, PltfrProbe, PltfrProbeCsr, Remove, Probe,
         ProbeCsr
    <2> QED
      BY <1>0, <2>1 DEF Connected
  <1>7. ASSUME NEW s \in Statuses, AdjustRead(s)
        PROVE  MachineInv'
    <2>1. /\ UNCHANGED <<vars, machine>> /\ adj'.status = s
          /\ machine \in {"up", "halted"} /\ (machine = "halted" => s = Down)
      BY <1>7 DEF AdjustRead
    <2> QED
      BY <1>0, <2>1 DEF Connected, vars, Down
  <1>8. CASE AdjustUp \/ AdjustDown
    <2>1. UNCHANGED <<vars, machine>> /\ ~adj'.run
      BY <1>8 DEF AdjustUp, AdjustDown, NoAdjust
    <2> QED
      BY <2>1 DEF Connected, vars
  <1>9. CASE Elsewhere
    <2>1. /\ Connected => Connected'
          /\ UNCHANGED <<suspended, machine, adj>>
      BY <1>9, ElsewherePhase
    <2> QED
      BY <1>0, <2>1
  <1>10. CASE Halted \/ UNCHANGED <<vars, pvars>>
    BY <1>0, <1>10 DEF Halted, vars, Connected
  <1> QED
    BY <1>1, <1>2, <1>3, <1>4, <1>5, <1>6, <1>7, <1>8, <1>9, <1>10
    DEF PltfrNext

(* What stmmac_adjust_link makes of a link that is up.                     *)
LEMMA AdjustUpAgrees ==
    ASSUME PltfrTypeOK, MachineInv, LinkInv, AdjustUp
    PROVE  /\ link'.oldlink /\ link'.speed # 0 /\ link'.oldduplex # "none"
           /\ link'.speed = mac'.speed /\ link'.oldduplex = mac'.duplex
           /\ board.grf => grf'.speed = link'.speed /\ grf'.iface = grf.iface
  <1> DEFINE s == adj.status
  <1>1. /\ adj.run /\ s.up
        /\ link' = [oldlink |-> TRUE, speed |-> s.speed,
                    oldduplex |-> s.duplex]
        /\ mac' = [adj.ctrl EXCEPT
               !.duplex = IF s.duplex # link.oldduplex THEN s.duplex ELSE @,
               !.speed  = IF s.speed # link.speed THEN s.speed ELSE @]
        /\ grf' = IF s.speed # link.speed THEN FixMacSpeed(s.speed) ELSE grf
    BY DEF AdjustUp
  <1>2. /\ s.speed \in {10, 100, 1000} /\ s.duplex \in {"half", "full"}
        /\ board.iface = "rmii" => s.speed # 1000
    BY <1>1, StmmacPltfrAssumption DEF MachineInv, Statuses, Down, Mode
  <1>3. /\ mac'.duplex = IF s.duplex # link.oldduplex THEN s.duplex
                         ELSE adj.ctrl.duplex
        /\ mac'.speed = IF s.speed # link.speed THEN s.speed
                        ELSE adj.ctrl.speed
    BY <1>1 DEF PltfrTypeOK
  <1>4. adj.ctrl.speed = mac.speed /\ adj.ctrl.duplex = mac.duplex
    BY <1>1 DEF LinkInv
  <1>5. /\ s.speed = link.speed => mac.speed = link.speed
        /\ s.duplex = link.oldduplex => mac.duplex = link.oldduplex
        /\ s.speed = link.speed /\ board.grf => grf.speed = link.speed
    BY <1>2 DEF LinkInv, NoLink
  <1>6. link'.speed = mac'.speed /\ link'.oldduplex = mac'.duplex
    BY <1>1, <1>3, <1>4, <1>5
  <1>7. board.grf => grf'.speed = s.speed /\ grf'.iface = grf.iface
    BY <1>1, <1>2, <1>5 DEF FixMacSpeed, SetSpeed, PltfrTypeOK
  <1> QED
    BY <1>1, <1>2, <1>6, <1>7

LEMMA MacSwitch ==
    ASSUME PltfrTypeOK, NEW on \in BOOLEAN, SetMac(on)
    PROVE  mac'.on = on /\ mac'.speed = mac.speed /\ mac'.duplex = mac.duplex
  <1>1. mac = [on |-> mac.on, speed |-> mac.speed, duplex |-> mac.duplex]
    BY DEF PltfrTypeOK
  <1>2. mac' = [on |-> on, speed |-> mac.speed, duplex |-> mac.duplex]
    BY <1>1 DEF SetMac
  <1> QED
    BY <1>2

LEMMA NextMacInv ==
    ASSUME PltfrTypeOK, LifeInv, MachineInv, MacInv,
           [PltfrNext]_<<vars, pvars>>
    PROVE  MacInv'
  <1> USE DEF MacInv, clkVars, powerVars, fixed, macVars, pvars, core, drv,
              pm, hw
  <1>1. CASE PltfrOpenPower \/ PltfrOpenPhy
    <2>1. Starting /\ mac' = mac
      BY <1>1 DEF PltfrOpenPower, PltfrOpenPhy, OpenPower, OpenPhy, Starting
    <2> QED
      BY <2>1
  <1>2. CASE PltfrOpenDma
    BY <1>2 DEF PltfrOpenDma, ResetMac
  <1>3. CASE PltfrOpenStart
    <2>1. pc' = "up"
      BY <1>3 DEF PltfrOpenStart, OpenStart, After
    <2> QED
      BY <2>1 DEF Starting, Stopped
  <1>4. CASE PltfrOpenFails \/ PltfrUndoRest
    <2>1. Starting
      BY <1>4, NetDevAssumption DEF PltfrOpenFails, PltfrUndoRest, OpenFails,
         AllLines, UndoRest, Starting
    <2>2. mac' = mac
      BY <1>4 DEF PltfrOpenFails, PltfrUndoRest
    <2> QED
      BY <2>1, <2>2
  <1>5. CASE PltfrClosePhy
    <2>1. pc' = "timer"
      BY <1>5 DEF PltfrClosePhy, ClosePhy
    <2> QED
      BY <2>1 DEF Starting, Stopped
  <1>6. CASE PltfrCloseOff \/ PltfrRemove
    <2>1. SetMac(FALSE)
      BY <1>6 DEF PltfrCloseOff, PltfrRemove
    <2>2. mac'.on = FALSE
      BY <2>1, MacSwitch
    <2> QED
      BY <2>2
  <1>7. CASE \/ (\E w \in BOOLEAN : PltfrSuspend(w)) \/ PltfrResume
    <2>1. pc' = "idle" /\ UNCHANGED <<running, frozen>>
          /\ running /\ frozen # "yes"
      BY <1>7 DEF PltfrSuspend, PltfrResume, Suspend, Resume, LifeInv,
         StepInv
    <2> QED
      BY <2>1 DEF Starting, Stopped
  <1>8. CASE PltfrProbe \/ PltfrProbeCsr
    <2>1. UNCHANGED <<mac, pc, running, frozen>>
      BY <1>8 DEF PltfrProbe, PltfrProbeCsr, Probe, ProbeCsr
    <2> QED
      BY <2>1 DEF Starting, Stopped
  <1>9. CASE \E s \in Statuses : AdjustRead(s)
    BY <1>9 DEF AdjustRead, vars, Starting, Stopped
  <1>10. CASE AdjustUp \/ AdjustDown
    <2>1. Connected /\ UNCHANGED vars
      BY <1>10 DEF AdjustUp, AdjustDown, MachineInv
    <2> QED
      BY <2>1 DEF Connected, Starting, Stopped, vars
  <1>11. CASE Elsewhere
    BY <1>11, ElsewherePhase
  <1>12. CASE Halted \/ UNCHANGED <<vars, pvars>>
    BY <1>12 DEF Halted, vars, Starting, Stopped
  <1> QED
    BY <1>1, <1>2, <1>3, <1>4, <1>5, <1>6, <1>7, <1>8, <1>9, <1>10, <1>11,
       <1>12 DEF PltfrNext

LEMMA NextLinkInv ==
    ASSUME PltfrTypeOK, LifeInv, MachineInv, LinkInv,
           [PltfrNext]_<<vars, pvars>>
    PROVE  LinkInv'
  <1> USE DEF LinkInv, clkVars, powerVars, fixed, macVars, pvars, core, drv,
              pm, hw
  <1>0. board' = board
    BY BoardFixed
  <1>1. CASE PltfrOpenPower \/ PltfrUndoRest
    <2>1. UNCHANGED <<grf, mac, link, adj>>
      BY <1>1 DEF PltfrOpenPower, PltfrUndoRest
    <2>2. pc' \in {"mdio", "idle"}
      <3>1. CASE PltfrOpenPower
        BY <3>1 DEF PltfrOpenPower, OpenPower, After
      <3>2. CASE PltfrUndoRest
        BY <3>2 DEF PltfrUndoRest, UndoRest
      <3> QED
        BY <1>1, <3>1, <3>2
    <2> QED
      BY <1>0, <2>1, <2>2
  <1>2. CASE PltfrOpenPhy
    BY <1>0, <1>2 DEF PltfrOpenPhy
  <1>3. CASE PltfrOpenDma
    <2>1. /\ pc = "dma" /\ pc' = "mac" /\ UNCHANGED <<grf, link, adj>>
      BY <1>3 DEF PltfrOpenDma, OpenDma, After
    <2>2. link = NoLink /\ ~adj.run
      BY <2>1 DEF MachineInv, Connected
    <2> QED
      BY <1>0, <2>1, <2>2
  <1>4. CASE PltfrOpenFails
    <2>1. pc' = "undo" /\ UNCHANGED <<grf, mac, adj>>
          /\ (link' = NoLink \/ link' = link)
      BY <1>4 DEF PltfrOpenFails, OpenFails
    <2> QED
      BY <1>0, <2>1
  <1>5. CASE PltfrOpenStart \/ PltfrCloseOff \/ PltfrRemove
    <2>1. UNCHANGED <<grf, link, adj>> /\ \E on \in BOOLEAN : SetMac(on)
      BY <1>5 DEF PltfrOpenStart, PltfrCloseOff, PltfrRemove
    <2>2. mac'.speed = mac.speed /\ mac'.duplex = mac.duplex
      BY <2>1, MacSwitch
    <2>3. pc' \in {"rings", "dma"} => pc \in {"rings", "dma"}
      <3>1. CASE PltfrOpenStart
        BY <3>1 DEF PltfrOpenStart, OpenStart, After
      <3>2. CASE PltfrCloseOff
        BY <3>2 DEF PltfrCloseOff, CloseOff
      <3>3. CASE PltfrRemove
        <4>1. pc' = pc
          BY <3>3 DEF PltfrRemove, Remove
        <4> QED
          BY <4>1
      <3> QED
        BY <1>5, <3>1, <3>2, <3>3
    <2> QED
      BY <1>0, <2>1, <2>2, <2>3
  <1>6. CASE PltfrClosePhy
    <2>1. UNCHANGED <<grf, mac, link, adj>> /\ pc' = "timer"
      BY <1>6 DEF PltfrClosePhy, ClosePhy
    <2> QED
      BY <1>0, <2>1
  <1>7. CASE \/ (\E w \in BOOLEAN : PltfrSuspend(w)) \/ PltfrResume
    <2>1. UNCHANGED <<grf, link, adj>>
      BY <1>7 DEF PltfrSuspend, PltfrResume
    <2>2. mac' = mac \/ \E on \in BOOLEAN : SetMac(on)
      BY <1>7 DEF PltfrSuspend, PltfrResume
    <2>3. mac'.speed = mac.speed /\ mac'.duplex = mac.duplex
      BY <2>2, MacSwitch
    <2>4. pc' = "idle"
      BY <1>7 DEF PltfrSuspend, PltfrResume, Suspend, Resume
    <2> QED
      BY <1>0, <2>1, <2>3, <2>4
  <1>8. CASE PltfrProbe \/ PltfrProbeCsr
    <2>1. UNCHANGED <<mac, adj, pc>> /\ (link' = NoLink \/ UNCHANGED link)
      BY <1>8 DEF PltfrProbe, PltfrProbeCsr, Probe, ProbeCsr
    <2>2. link' # NoLink => grf' = grf
      BY <1>8 DEF PltfrProbe, PltfrProbeCsr
    <2> QED
      BY <1>0, <2>1, <2>2
  <1>9. ASSUME NEW s \in Statuses, AdjustRead(s)
        PROVE  LinkInv'
    <2>1. UNCHANGED <<pc, grf, mac, link>> /\ adj'.ctrl = mac
      BY <1>9 DEF AdjustRead, vars
    <2> QED
      BY <1>0, <2>1
  <1>10. CASE AdjustUp
    <2>1. pc \notin {"rings", "dma"} /\ pc' = pc /\ ~adj'.run
      BY <1>10 DEF AdjustUp, vars, NoAdjust, MachineInv, Connected
    <2> QED
      BY <1>0, <1>10, <2>1, AdjustUpAgrees
  <1>11. CASE AdjustDown
    <2>1. UNCHANGED <<pc, grf, mac>> /\ ~adj'.run
          /\ (link' = NoLink \/ link' = link)
      BY <1>11 DEF AdjustDown, vars, NoAdjust
    <2> QED
      BY <1>0, <2>1
  <1>12. CASE Elsewhere
    <2>1. UNCHANGED <<grf, mac, link, adj>>
          /\ (pc' \in {"rings", "dma"} => pc \in {"rings", "dma"})
      BY <1>12, ElsewherePhase
    <2> QED
      BY <1>0, <2>1
  <1>13. CASE Halted \/ UNCHANGED <<vars, pvars>>
    BY <1>13 DEF Halted, vars
  <1> QED
    BY <1>1, <1>2, <1>3, <1>4, <1>5, <1>6, <1>7, <1>8, <1>9, <1>10, <1>11,
       <1>12, <1>13 DEF PltfrNext

-----------------------------------------------------------------------------
(* Types, and the rate of MDC.                                             *)

MdcInv ==
    present => /\ rate = ParentRate(board)
               /\ probe \notin {"mdio", "csr"} => clk_csr = ClkCsr(rate)

LEMMA ClkCsrType ==
    ASSUME NEW r \in Nat
    PROVE  ClkCsr(r) \in Nat
  BY SMT DEF ClkCsr, UnsetClkCsr

LEMMA RateFacts ==
    ASSUME NEW r \in Rates
    PROVE  r <= 2500000 * ClkCsr(r)
  BY SMT DEF ClkCsr, UnsetClkCsr, Rates

LEMMA BoardFacts ==
    ASSUME board \in Boards
    PROVE  /\ ParentRate(board) \in Rates
           /\ board.iface \in {"rgmii", "rmii"} /\ board.pmu \in BOOLEAN
           /\ board.grf \in BOOLEAN
  <1>1. board \in Board
    BY StmmacPltfrAssumption
  <1> QED
    BY <1>1, SMT DEF Board, ParentRate, Rates

(* The ways in which a step changes the board and the link.                *)
ClkStep == \/ UNCHANGED clkVars
           \/ \E on \in BOOLEAN : GmacClkEnable(on)
           \/ clk_enable' = FALSE /\ UNCHANGED count
PowerStep == UNCHANGED powerVars \/ \E on \in BOOLEAN : PhyPowerOn(on)
MacStep == \/ UNCHANGED mac \/ mac' = ResetMac \/ AdjustUp
           \/ \E on \in BOOLEAN : SetMac(on)
GrfStep == UNCHANGED grf \/ AdjustUp \/ grf' = SetInterface(board.iface)
LinkStep == UNCHANGED link \/ link' = NoLink \/ AdjustUp
AdjStep == \/ UNCHANGED adj \/ adj' = NoAdjust
           \/ \E s \in Statuses : AdjustRead(s)
FixedStep == \/ UNCHANGED fixed
             \/ /\ board' = board /\ rate' \in {rate, ParentRate(board)}
                /\ clk_csr' \in {UnsetClkCsr, ClkCsr(rate)}

LEMMA BoardStep ==
    ASSUME [PltfrNext]_<<vars, pvars>>
    PROVE  /\ ClkStep /\ PowerStep /\ MacStep /\ GrfStep /\ LinkStep
           /\ AdjStep /\ FixedStep
           /\ UNCHANGED machine \/ machine' \in {"off", "up", "halted"}
  <1> USE DEF ClkStep, PowerStep, MacStep, GrfStep, LinkStep, AdjStep,
              FixedStep, clkVars, powerVars, fixed, macVars, pvars
  <1>1. CASE PltfrOpenPower \/ PltfrUndoRest
    BY <1>1 DEF PltfrOpenPower, PltfrUndoRest
  <1>2. CASE PltfrOpenPhy \/ PltfrOpenDma \/ PltfrOpenFails \/ PltfrClosePhy
    BY <1>2 DEF PltfrOpenPhy, PltfrOpenDma, PltfrOpenFails, PltfrClosePhy
  <1>3. CASE PltfrOpenStart \/ PltfrRemove
    BY <1>3 DEF PltfrOpenStart, PltfrRemove
  <1>4. CASE PltfrCloseOff
    BY <1>4 DEF PltfrCloseOff
  <1>5. CASE \E w \in BOOLEAN : PltfrSuspend(w)
    BY <1>5 DEF PltfrSuspend
  <1>6. CASE PltfrResume
    BY <1>6 DEF PltfrResume
  <1>7. CASE PltfrProbe
    BY <1>7 DEF PltfrProbe, StmmcPltfrInit, GmacClkInit
  <1>12. CASE PltfrProbeCsr
    BY <1>12 DEF PltfrProbeCsr
  <1>8. CASE \E s \in Statuses : AdjustRead(s)
    <2>1. UNCHANGED <<fixed, clkVars, powerVars, grf, mac, link, machine>>
      BY <1>8 DEF AdjustRead
    <2> QED
      BY <1>8, <2>1
  <1>9. CASE AdjustUp
    <2>1. UNCHANGED <<fixed, clkVars, powerVars, machine>> /\ adj' = NoAdjust
      BY <1>9 DEF AdjustUp
    <2> QED
      BY <1>9, <2>1
  <1>10. CASE AdjustDown
    BY <1>10 DEF AdjustDown
  <1>11. CASE Elsewhere \/ Halted \/ UNCHANGED <<vars, pvars>>
    BY <1>11 DEF Elsewhere, Halted
  <1> QED
    BY <1>1, <1>2, <1>3, <1>4, <1>5, <1>6, <1>7, <1>8, <1>9, <1>10, <1>11,
       <1>12 DEF PltfrNext

LEMMA NextIfaceInv ==
    ASSUME PltfrTypeOK, MachineInv, LinkInv, IfaceInv,
           [PltfrNext]_<<vars, pvars>>
    PROVE  IfaceInv'
  <1>0. board' = board /\ (present' => present \/ PltfrProbe)
    BY BoardFixed, DriverStep DEF PltfrProbeCsr, ProbeCsr
  <1>1. CASE PltfrProbe \/ grf' = SetInterface(board.iface)
    <2>1. grf' = SetInterface(board.iface)
      BY <1>1 DEF PltfrProbe, StmmcPltfrInit
    <2>2. board.grf => grf'.iface = board.iface
      BY <2>1 DEF SetInterface, PltfrTypeOK
    <2> QED
      BY <1>0, <2>2 DEF IfaceInv
  <1>2. CASE AdjustUp /\ ~PltfrProbe
    BY <1>0, <1>2, AdjustUpAgrees DEF IfaceInv
  <1>3. CASE UNCHANGED grf /\ ~PltfrProbe
    BY <1>0, <1>3 DEF IfaceInv
  <1> QED
    BY <1>1, <1>2, <1>3, BoardStep DEF GrfStep

LEMMA NextMdcInv ==
    ASSUME MdcInv, [PltfrNext]_<<vars, pvars>>
    PROVE  MdcInv'
  <1>0. ParentRate(board)' = ParentRate(board)
    BY BoardFixed DEF ParentRate
  <1>1. CASE PltfrProbe
    <2>1. rate' = ParentRate(board) /\ probe' = "mdio"
      BY <1>1 DEF PltfrProbe, GmacClkInit, Probe
    <2> QED
      BY <1>0, <2>1 DEF MdcInv
  <1>2. CASE PltfrProbeCsr
    <2>1. UNCHANGED <<rate, present>> /\ clk_csr' = ClkCsr(rate)
      BY <1>2 DEF PltfrProbeCsr, ProbeCsr
    <2>2. ClkCsr(rate)' = ClkCsr(rate)
      BY <2>1 DEF ClkCsr
    <2> QED
      BY <1>0, <2>1, <2>2 DEF MdcInv
  <1>3. CASE /\ UNCHANGED fixed
             /\ present' => present
             /\ probe' \notin {"mdio", "csr"} => probe \notin {"mdio", "csr"}
    <2>1. ClkCsr(rate)' = ClkCsr(rate) /\ UNCHANGED <<rate, clk_csr>>
      BY <1>3 DEF ClkCsr, fixed
    <2> QED
      BY <1>0, <1>3, <2>1 DEF MdcInv
  <1> QED
    BY <1>1, <1>2, <1>3, DriverStep

LEMMA StatusFacts ==
    ASSUME NEW s \in Statuses
    PROVE  /\ s.speed \in {10, 100, 1000} /\ s.duplex \in {"half", "full"}
  BY StmmacPltfrAssumption DEF Statuses, Down, Mode

LEMMA NextPltfrTypeOK ==
    ASSUME PltfrTypeOK, PowerOnInv, MdcInv, MachineInv,
           [PltfrNext]_<<vars, pvars>>
    PROVE  PltfrTypeOK'
  <1> USE BoardStep
  <1>1. TypeOK'
    BY StepLife, LifeIsNetDev, NextTypeOK DEF PltfrTypeOK
  <1>2. board' = board /\ board' \in Boards
    BY BoardFixed DEF PltfrTypeOK
  <1>3. clk_enable' \in BOOLEAN /\ count' \in [Clocks -> Int]
    <2>1. CASE UNCHANGED clkVars \/ (clk_enable' = FALSE /\ UNCHANGED count)
      <3>1. count' = count /\ (clk_enable' = clk_enable \/ clk_enable' = FALSE)
        BY <2>1 DEF clkVars
      <3>2. clk_enable \in BOOLEAN /\ count \in [Clocks -> Int]
        BY DEF PltfrTypeOK
      <3>3. clk_enable' \in BOOLEAN
        BY <3>1, <3>2, Zenon
      <3> QED
        BY <3>1, <3>2, <3>3
    <2>2. ASSUME NEW on \in BOOLEAN, GmacClkEnable(on)
          PROVE  clk_enable' \in BOOLEAN /\ count' \in [Clocks -> Int]
      <3>1. clk_enable' = on
        BY <2>2 DEF GmacClkEnable
      <3>2. count' \in [Clocks -> Int]
        BY <2>2 DEF GmacClkEnable, PltfrTypeOK
      <3> QED
        BY <3>1, <3>2
    <2> QED
      BY <2>1, <2>2 DEF ClkStep
  <1>4. supply' \in Nat /\ power_io' \in BOOLEAN /\ reset_io' \in BOOLEAN
    <2>1. CASE UNCHANGED powerVars
      BY <2>1 DEF powerVars, PltfrTypeOK
    <2>2. ASSUME NEW on \in BOOLEAN, PhyPowerOn(on)
          PROVE  supply' \in Nat /\ power_io' \in BOOLEAN
                 /\ reset_io' \in BOOLEAN
      <3>1. supply' \in Nat
        BY <1>2, <2>2, PowerSwitch DEF PowerOnInv
      <3>2. power_io' = on \/ power_io' = power_io
        BY <2>2 DEF PhyPowerOn
      <3>3. reset_io' = ~on
        BY <2>2 DEF PhyPowerOn
      <3>4. power_io \in BOOLEAN
        BY DEF PltfrTypeOK
      <3> QED
        BY <3>1, <3>2, <3>3, <3>4
    <2> QED
      BY <2>1, <2>2 DEF PowerStep
  <1>5. rate' \in Nat /\ clk_csr' \in Nat
    <2>1. rate \in Nat /\ clk_csr \in Nat /\ UnsetClkCsr \in Nat
      BY DEF PltfrTypeOK, UnsetClkCsr
    <2>2. ParentRate(board) \in Nat
      BY BoardFacts, SMT DEF PltfrTypeOK, Rates
    <2>3. ClkCsr(rate) \in Nat
      BY <2>1, ClkCsrType
    <2> QED
      BY <2>1, <2>2, <2>3 DEF FixedStep, fixed
  <1>6. mac' \in [on : BOOLEAN, speed : {10, 100, 1000},
                  duplex : {"half", "full"}]
    <2> DEFINE M == [on : BOOLEAN, speed : {10, 100, 1000},
                     duplex : {"half", "full"}]
    <2>1. mac \in M
      BY DEF PltfrTypeOK
    <2>2. CASE AdjustUp
      <3>1. adj.ctrl \in M /\ adj.run
        BY <2>2 DEF AdjustUp, PltfrTypeOK
      <3>2. adj.status.speed \in {10, 100, 1000}
            /\ adj.status.duplex \in {"half", "full"}
        BY <3>1, StatusFacts DEF MachineInv
      <3>3. PICK c \in M : c = adj.ctrl
        BY <3>1
      <3> DEFINE d == IF adj.status.duplex # link.oldduplex
                      THEN adj.status.duplex ELSE c.duplex
                 v == IF adj.status.speed # link.speed
                      THEN adj.status.speed ELSE c.speed
      <3>4. mac' = [c EXCEPT !.duplex = d, !.speed = v]
        BY <2>2, <3>3 DEF AdjustUp
      <3>5. d \in {"half", "full"} /\ v \in {10, 100, 1000}
        BY <3>2
      <3> HIDE DEF d, v
      <3>6. mac' = [on |-> c.on, speed |-> v, duplex |-> d]
        <4>1. c = [on |-> c.on, speed |-> c.speed, duplex |-> c.duplex]
          OBVIOUS
        <4> HIDE DEF M
        <4> QED
          BY <3>4, <4>1
      <3> QED
        BY <3>5, <3>6
    <2>3. ASSUME NEW on \in BOOLEAN, SetMac(on)
          PROVE  mac' \in M
      BY <2>1, <2>3 DEF SetMac
    <2>4. ResetMac \in M
      BY DEF ResetMac
    <2> QED
      BY <2>1, <2>2, <2>3, <2>4 DEF MacStep
  <1>7. grf' \in [iface : {"none", "rgmii", "rmii"}, speed : {0, 10, 100, 1000}]
    <2> DEFINE G == [iface : {"none", "rgmii", "rmii"},
                     speed : {0, 10, 100, 1000}]
    <2>1. grf \in G
      BY DEF PltfrTypeOK
    <2>2. CASE AdjustUp
      <3>1. adj.status.speed \in {10, 100, 1000}
        BY <2>2, StatusFacts DEF MachineInv, AdjustUp
      <3>2. grf' = grf \/ grf' = [grf EXCEPT !.speed = adj.status.speed]
        BY <2>2 DEF AdjustUp, FixMacSpeed, SetSpeed
      <3> QED
        BY <2>1, <3>1, <3>2
    <2>3. CASE grf' = SetInterface(board.iface)
      <3>1. board.iface \in {"rgmii", "rmii"}
        BY BoardFacts DEF PltfrTypeOK
      <3>2. grf' = grf \/ grf' = [grf EXCEPT !.iface = board.iface]
        BY <2>3 DEF SetInterface
      <3> QED
        BY <2>1, <3>1, <3>2
    <2> QED
      BY <2>1, <2>2, <2>3 DEF GrfStep
  <1>8. link' \in [oldlink : BOOLEAN, speed : {0, 10, 100, 1000},
                   oldduplex : {"none", "half", "full"}]
    <2>1. CASE AdjustUp
      <3>1. adj.status.speed \in {10, 100, 1000}
            /\ adj.status.duplex \in {"half", "full"}
        BY <2>1, StatusFacts DEF MachineInv, AdjustUp
      <3> QED
        BY <2>1, <3>1 DEF AdjustUp
    <2>2. CASE UNCHANGED link
      BY <2>2 DEF PltfrTypeOK
    <2>3. CASE link' = NoLink
      BY <2>3 DEF NoLink
    <2> QED
      BY <2>1, <2>2, <2>3 DEF LinkStep
  <1>9. machine' \in {"off", "up", "halted"}
    BY DEF PltfrTypeOK
  <1>10. adj' \in [run : BOOLEAN, status : Statuses',
                   ctrl : [on : BOOLEAN, speed : {10, 100, 1000},
                           duplex : {"half", "full"}]]
    <2>1. Statuses' = Statuses
      BY <1>2 DEF Statuses
    <2>2. CASE UNCHANGED adj
      BY <2>1, <2>2 DEF PltfrTypeOK
    <2>3. CASE adj' = NoAdjust
      BY <2>1, <2>3 DEF NoAdjust, ResetMac, Statuses
    <2>4. ASSUME NEW s \in Statuses, AdjustRead(s)
          PROVE  adj' \in [run : BOOLEAN, status : Statuses,
                           ctrl : [on : BOOLEAN, speed : {10, 100, 1000},
                                   duplex : {"half", "full"}]]
      BY <2>4 DEF AdjustRead, PltfrTypeOK
    <2> QED
      BY <2>1, <2>2, <2>3, <2>4 DEF AdjStep
  <1> QED
    BY <1>1, <1>2, <1>3, <1>4, <1>5, <1>6, <1>7, <1>8, <1>9, <1>10
    DEF PltfrTypeOK

-----------------------------------------------------------------------------
(* The invariant holds, and with it the properties.                        *)

PltfrIInv == PltfrTypeOK /\ LifeInv /\ PowerOnInv /\ MachineInv /\ MacInv
             /\ LinkInv /\ IfaceInv /\ MdcInv

LEMMA InitPltfrIInv == PltfrInit => PltfrIInv
  <1> SUFFICES ASSUME PltfrInit
               PROVE  PltfrIInv
    OBVIOUS
  <1>1. Init /\ board \in Boards
    BY DEF PltfrInit
  <1>2. TypeOK
    BY <1>1, InitIInv DEF IInv
  <1>3. /\ pc = "idle" /\ by = "core" /\ ~suspended
    BY <1>1 DEF Init
  <1>4. ~running /\ ~present /\ frozen = "no"
    BY <1>1 DEF Init
  <1>5. LifeInv
    BY <1>1, <1>3, <1>4, InitIInv DEF IInv, LifeInv, OpenBy, OpenSteps
  <1>6. PowerOnInv
    <2>1. ClocksPaired /\ ~clk_enable /\ supply = 0
      BY DEF PltfrInit, ClocksPaired
    <2>2. ~InService
      BY <1>3, <1>4 DEF InService, CloseSteps
    <2> QED
      BY <2>1, <2>2 DEF PowerOnInv
  <1>7. MachineInv /\ MacInv
    BY DEF PltfrInit, MachineInv, MacInv, NoAdjust, ResetMac
  <1>8. LinkInv
    <2>1. link = NoLink /\ ~adj.run
      BY DEF PltfrInit, NoAdjust
    <2> QED
      BY <1>3, <2>1 DEF LinkInv
  <1>9. IfaceInv /\ MdcInv
    BY <1>4 DEF IfaceInv, MdcInv
  <1>10. PltfrTypeOK
    <2>2. grf \in [iface : {"none", "rgmii", "rmii"}, speed : {0, 10, 100, 1000}]
      BY DEF PltfrInit
    <2>3. rate \in Nat /\ clk_csr \in Nat
      BY StmmacPltfrAssumption DEF PltfrInit, UnsetClkCsr
    <2>4. /\ clk_enable \in BOOLEAN /\ power_io \in BOOLEAN
          /\ reset_io \in BOOLEAN
      BY DEF PltfrInit
    <2>5. count \in [Clocks -> Int] /\ supply \in Nat
      BY DEF PltfrInit
    <2>6. mac \in [on : BOOLEAN, speed : {10, 100, 1000},
                   duplex : {"half", "full"}]
      BY DEF PltfrInit, ResetMac
    <2>7. link \in [oldlink : BOOLEAN, speed : {0, 10, 100, 1000},
                    oldduplex : {"none", "half", "full"}]
      BY DEF PltfrInit, NoLink
    <2>8. adj \in [run : BOOLEAN, status : Statuses,
                   ctrl : [on : BOOLEAN, speed : {10, 100, 1000},
                           duplex : {"half", "full"}]]
      BY DEF PltfrInit, NoAdjust, ResetMac, Statuses
    <2>9. machine \in {"off", "up", "halted"}
      BY DEF PltfrInit
    <2> QED
      BY <1>1, <1>2, <2>2, <2>3, <2>4, <2>5, <2>6, <2>7, <2>8, <2>9
      DEF PltfrTypeOK
  <1> QED
    BY <1>5, <1>6, <1>7, <1>8, <1>9, <1>10 DEF PltfrIInv

LEMMA NextPltfrIInv ==
    ASSUME PltfrIInv, [PltfrNext]_<<vars, pvars>>
    PROVE  PltfrIInv'
  <1> USE DEF PltfrIInv
  <1>1. LifeInv'
    BY StepLife, NextLifeInv DEF PltfrTypeOK
  <1> QED
    BY <1>1, NextPltfrTypeOK, NextPowerOnInv, NextMachineInv, NextMacInv,
       NextLinkInv, NextIfaceInv, NextMdcInv

LEMMA PltfrInvariant == PltfrSpec => []PltfrIInv
  BY InitPltfrIInv, NextPltfrIInv, PTL DEF PltfrSpec

(* The platform glue runs on the life cycle of NetDev: each of its steps   *)
(* is one of NetDev or leaves the network device alone.                    *)
THEOREM PltfrIsNetDev == PltfrSpec => Spec
  <1>1. PltfrInit => Init
    BY DEF PltfrInit
  <1>2. [PltfrNext]_<<vars, pvars>> => [Next]_vars
    BY StepLife, LifeIsNetDev
  <1> QED
    BY <1>1, <1>2, PTL DEF PltfrSpec, Spec

(* On a board with a device tree, where a freeze runs stmmac_release but   *)
(* no restore follows, the exception of FreedOnce does not arise: every    *)
(* release finds the rings that the last open has made.                    *)
THEOREM PltfrFreedOnce == PltfrSpec => [](pc = "free" => rings = "live")
  <1>1. PltfrIInv /\ IInv /\ RingInv => (pc = "free" => rings = "live")
    BY DEF PltfrIInv, LifeInv, OpenBy, IInv, TypeOK, StepInv, RingInv,
           CloseSteps
  <1> QED
    BY <1>1, PltfrInvariant, PltfrIsNetDev, RingsInductive, PTL

(* The type invariant of the platform glue.                                *)
THEOREM PltfrTypeCorrect == PltfrSpec => []PltfrTypeOK
  BY PltfrInvariant, PTL DEF PltfrIInv

(* A clock the board uses is enabled once while gmac_clk_enable's flag is  *)
(* set and not at all while it is not, also after a second probe.          *)
THEOREM ClocksPairedThm == PltfrSpec => []ClocksPaired
  BY PltfrInvariant, PTL DEF PltfrIInv, PowerOnInv

(* stmmac_adjust_link works on MAC_CTRL with the clocks on only.           *)
THEOREM AdjustClockedThm == PltfrSpec => []AdjustClocked
  <1>1. PltfrIInv => AdjustClocked
    BY DEF PltfrIInv, MachineInv, PowerOnInv, Connected, InService,
           CloseSteps, AdjustClocked
  <1> QED
    BY <1>1, PltfrInvariant, PTL

(* The PHY is polled only while it is powered and out of reset.            *)
THEOREM PhyAwakeThm == PltfrSpec => []PhyAwake
  <1>1. PltfrIInv => PhyAwake
    BY DEF PltfrIInv, MachineInv, PowerOnInv, Connected, InService,
           CloseSteps, PhyAwake
  <1> QED
    BY <1>1, PltfrInvariant, PTL

(* The MAC, the GRF and priv agree on the link, whatever the links were    *)
(* before it.                                                              *)
THEOREM SpeedAgreesThm == PltfrSpec => []SpeedAgrees
  <1>1. ASSUME PltfrIInv, link.oldlink, mac.on
        PROVE  /\ mac.speed = link.speed /\ mac.duplex = link.oldduplex
               /\ board.grf => grf = [iface |-> board.iface,
                                      speed |-> link.speed]
    <2>1. link # NoLink
      BY <1>1 DEF NoLink
    <2>2. grf = [iface |-> grf.iface, speed |-> grf.speed]
      BY <1>1 DEF PltfrIInv, PltfrTypeOK
    <2>3. present
      BY <1>1 DEF PltfrIInv, LifeInv, StepInv, MacInv, Stopped
    <2> QED
      BY <1>1, <2>1, <2>2, <2>3 DEF PltfrIInv, LinkInv, IfaceInv
  <1>2. PltfrIInv => SpeedAgrees
    BY <1>1 DEF SpeedAgrees
  <1> QED
    BY <1>2, PltfrInvariant, PTL

(* A removed driver leaves the MAC off, although stmmac_dvr_remove takes   *)
(* no lock against stmmac_adjust_link.                                     *)
THEOREM RemoveStopsMacThm == PltfrSpec => []RemoveStopsMac
  <1>1. PltfrIInv => RemoveStopsMac
    BY DEF PltfrIInv, LifeInv, StepInv, MacInv, Stopped, RemoveStopsMac
  <1> QED
    BY <1>1, PltfrInvariant, PTL

(* MDC is within its limit for every parent rate up to 300 MHz, from the   *)
(* step of the probe that chooses the divider on.                          *)
THEOREM MdcWithinLimitThm == PltfrSpec => []MdcWithinLimit
  <1>1. PltfrIInv => MdcWithinLimit
    <2> SUFFICES ASSUME PltfrIInv, present, probe \notin {"mdio", "csr"}
                 PROVE  rate <= 2500000 * clk_csr
      BY DEF MdcWithinLimit
    <2>1. rate = ParentRate(board) /\ clk_csr = ClkCsr(rate)
      BY DEF PltfrIInv, MdcInv
    <2>2. rate \in Rates
      BY <2>1, BoardFacts DEF PltfrIInv, PltfrTypeOK
    <2> QED
      BY <2>1, <2>2, RateFacts
  <1> QED
    BY <1>1, PltfrInvariant, PTL

(* The steps PowerCut is about.                                            *)
LEMMA CutSteps ==
    ASSUME LifeInv, [PltfrNext]_<<vars, pvars>>
    PROVE  /\ pc = "off" /\ pc' # "off" => PltfrCloseOff
           /\ ~suspended /\ suspended' => \E w \in BOOLEAN : PltfrSuspend(w)
  <1> USE DEF core, drv, pm, hw
  <1>1. CASE PltfrOpenPower \/ PltfrOpenPhy \/ PltfrOpenDma \/ PltfrOpenStart
    <2>1. pc # "off" /\ suspended' = suspended
      BY <1>1 DEF PltfrOpenPower, PltfrOpenPhy, PltfrOpenDma, PltfrOpenStart,
         OpenPower, OpenPhy, OpenDma, OpenStart
    <2> QED
      BY <2>1
  <1>2. CASE PltfrOpenFails
    BY <1>2, NetDevAssumption DEF PltfrOpenFails, OpenFails, AllLines
  <1>3. CASE PltfrUndoRest \/ PltfrClosePhy
    <2>1. pc # "off" /\ suspended' = suspended
      BY <1>3 DEF PltfrUndoRest, PltfrClosePhy, UndoRest, ClosePhy
    <2> QED
      BY <2>1
  <1>4. CASE PltfrCloseOff
    <2>1. suspended' = suspended
      BY <1>4 DEF PltfrCloseOff, CloseOff
    <2> QED
      BY <1>4, <2>1
  <1>5. CASE \E w \in BOOLEAN : PltfrSuspend(w)
    <2>1. pc = "idle"
      BY <1>5 DEF PltfrSuspend, Suspend
    <2> QED
      BY <1>5, <2>1
  <1>6. CASE PltfrResume \/ PltfrRemove \/ PltfrProbe \/ PltfrProbeCsr
    <2>1. pc' = pc
      BY <1>6 DEF PltfrResume, PltfrRemove, PltfrProbe, PltfrProbeCsr, Resume,
         Remove, Probe, ProbeCsr
    <2>2. suspended' = suspended \/ suspended' = FALSE
      BY <1>6 DEF PltfrResume, PltfrRemove, PltfrProbe, PltfrProbeCsr, Resume,
         Remove, Probe, ProbeCsr
    <2>3. suspended' => suspended
      BY <2>2, Zenon
    <2> QED
      BY <2>1, <2>3, Zenon
  <1>7. CASE \/ (\E s \in Statuses : AdjustRead(s)) \/ AdjustUp \/ AdjustDown
             \/ Halted \/ UNCHANGED <<vars, pvars>>
    <2>1. UNCHANGED vars
      BY <1>7 DEF AdjustRead, AdjustUp, AdjustDown, Halted
    <2> QED
      BY <2>1 DEF vars
  <1>8. CASE Elsewhere
    BY <1>8, ElsewherePhase
  <1> QED
    BY <1>1, <1>2, <1>3, <1>4, <1>5, <1>6, <1>7, <1>8 DEF PltfrNext

(* A close, and a suspend without wake-up, take the power from the PHY.    *)
THEOREM PowerCutThm == PltfrSpec => PowerCut
  <1>1. ASSUME PltfrIInv, [PltfrNext]_<<vars, pvars>>,
               pc = "off" /\ pc' # "off"
        PROVE  ~Powered'
    <2>1. PltfrCloseOff
      BY <1>1, CutSteps DEF PltfrIInv
    <2>2. PhyPowerOn(FALSE) /\ board' = board
      BY <2>1 DEF PltfrCloseOff, fixed
    <2> QED
      BY <1>1, <2>2, PowerSwitch DEF PltfrIInv, PowerOnInv
  <1>2. ASSUME PltfrIInv, [PltfrNext]_<<vars, pvars>>,
               ~suspended /\ suspended' /\ ~wake'
        PROVE  ~Powered'
    <2>1. PICK w \in BOOLEAN : PltfrSuspend(w)
      BY <1>2, CutSteps DEF PltfrIInv
    <2>2. ~w
      BY <1>2, <2>1 DEF PltfrSuspend, Suspend
    <2>3. PhyPowerOn(FALSE) /\ board' = board
      BY <2>1, <2>2 DEF PltfrSuspend, fixed
    <2> QED
      BY <1>2, <2>3, PowerSwitch DEF PltfrIInv, PowerOnInv
  <1>3. PltfrIInv /\ [PltfrNext]_<<vars, pvars>>
        => [ (pc = "off" /\ pc' # "off") \/ (~suspended /\ suspended' /\ ~wake')
             => ~Powered' ]_<<vars, pvars>>
    BY <1>1, <1>2
  <1> QED
    BY <1>3, PltfrInvariant, PTL DEF PltfrSpec, PowerCut

=============================================================================
