---------------------------- MODULE NetDev_proofs ----------------------------
(***************************************************************************)
(* Proofs about NetDev, for every set of interrupt lines and every set of  *)
(* steps of stmmac_open that may fail, also that of a restore.  The        *)
(* interrupt handlers find rings and clock, and a closed device is quiet,  *)
(* at any time; the timer and stmmac_xmit find rings except between a      *)
(* freeze and the next open that succeeds, and rings are freed twice only  *)
(* after a restore that failed.                                            *)
(***************************************************************************)
EXTENDS NetDev, TLAPS

(* The device is up, or stmmac_release has not begun to free anything.     *)
InUse == \/ pc = "idle" /\ running /\ frozen # "yes"
         \/ pc \in {"close", "timer"}

(* The part of stmmac_open after init_dma_desc_rings.                      *)
Built == {"dma", "mac", "wol", "lpi", "start", "up"}

(* Who runs the current step, and what the device is then.                 *)
StepInv ==
    /\ pc = "idle" => by = "core"
    /\ pc \in OpenSteps \cup {"undo"} =>
          running /\ frozen = IF by = "pm" THEN "yes" ELSE "no"
    /\ pc \in CloseSteps => frozen # "yes" /\ (by = "pm" <=> running)
    /\ frozen = "yes" => running /\ (pc = "idle" \/ by = "pm")
    /\ frozen = "failed" => running \/ pc \in CloseSteps
    /\ suspended => running /\ pc = "idle" /\ frozen # "yes"
    /\ suspended \/ by = "pm" \/ frozen = "yes" => remove = "no"
    /\ remove = "net" => pc \in CloseSteps \cup {"idle"} /\ ~running
    /\ ~present => pc = "idle" /\ ~running /\ remove = "no"
    /\ active => running /\ (pc = "idle" \/ by = "pm")

(* A handler is at work on a requested line, and a line is requested while *)
(* the rings exist.                                                        *)
LineInv ==
    /\ busy \cap AllLines \subseteq irqs
    /\ pc \in Built => rings = "live"
    /\ irqs # {} => /\ rings = "live"
                    /\ InUse \/ pc \in {"wol", "lpi", "start", "up", "undo",
                                        "irq"}

(* The clock is on while a line is requested, and off on a device that is  *)
(* closed; the DMA runs on a device in use or about to be released.        *)
PowerInv ==
    /\ pc \in {"mdio", "phy", "rings", "undo"} \cup Built => clk
    /\ irqs # {} /\ (suspended => wake) => clk
    /\ ~running /\ pc = "idle" => ~clk
    /\ dmaOn => \/ pc = "idle" /\ running /\ frozen # "yes"
                \/ pc \in {"up", "close", "timer", "irq", "dmaoff"}

(* stmmac_xmit and the timer are at work on a device that is running or    *)
(* has not been quieted, or around a freeze.                               *)
QuietInv ==
    /\ "xmit" \in busy => active
    /\ txtimer \/ "timer" \in busy =>
          \/ by = "pm"
          \/ pc = "idle" /\ running
          \/ pc \in {"close", "timer"}

IInv == TypeOK /\ StepInv /\ LineInv /\ PowerInv /\ QuietInv

(* A device that no freeze has released has rings while it is in use, and  *)
(* stmmac_release finds them; a device that is frozen has none.            *)
RingInv ==
    /\ frozen = "no" /\ (InUse \/ pc \in {"irq", "dmaoff", "free"}) =>
          rings = "live"
    /\ pc = "off" => rings = "freed"
    /\ frozen = "yes" /\ pc = "idle" => rings = "freed"

(* An stmmac_open that has made the rings fails.                           *)
FailsLate == OpenFails /\ pc \in Built

(* Rings are allocated only while an operation or a later one will come to *)
(* free them.                                                              *)
LeakInv ==
    /\ ~lost
    /\ rings = "live" => InUse \/ pc \in Built \cup {"irq", "dmaoff", "free"}

LEMMA InitIInv == Init => IInv
  BY NetDevAssumption
     DEF Init, IInv, TypeOK, StepInv, LineInv, PowerInv, QuietInv, InUse,
         Built, OpenSteps, CloseSteps, Contexts, AllLines

(* The type invariant is inductive by itself.                              *)
LEMMA NextTypeOK ==
    ASSUME TypeOK, [Next]_vars
    PROVE  TypeOK'
  <1> USE DEF TypeOK, OpenSteps, CloseSteps, core, drv, pm, hw
  <1>1. CASE Open
    BY <1>1 DEF Open
  <1>2. CASE Restore
    BY <1>2 DEF Restore
  <1>3. CASE OpenStep
    <2>1. CASE OpenPower
      BY <2>1 DEF OpenPower, After
    <2>2. CASE OpenMdio
      BY <2>2 DEF OpenMdio, After
    <2>3. CASE OpenPhy
      BY <2>3 DEF OpenPhy, After
    <2>4. CASE OpenRings
      BY <2>4 DEF OpenRings, After
    <2>5. CASE OpenDma
      BY <2>5 DEF OpenDma, After
    <2>6. CASE OpenIrq
      <3>1. pc \in AllLines /\ pc' = After[pc]
        BY <2>6 DEF OpenIrq
      <3>2. pc' \in {"wol", "lpi", "start"}
        BY <3>1 DEF AllLines, After
      <3>3. irqs' \subseteq AllLines
        BY <2>6 DEF OpenIrq
      <3>4. UNCHANGED <<by, core, pm, queueStopped, hw, mdio_registered,
                        phydev, rings, lost, txtimer, busy>>
        BY <2>6 DEF OpenIrq
      <3> QED
        BY <3>2, <3>3, <3>4
    <2>7. CASE OpenStart
      BY <2>7 DEF OpenStart, After
    <2>8. CASE OpenUp
      <3>1. /\ txtimer' \in BOOLEAN /\ queueStopped' \in BOOLEAN
            /\ active' \in BOOLEAN /\ frozen' = "no"
            /\ pc' = "idle" /\ by' = "core"
        BY <2>8 DEF OpenUp
      <3>2. UNCHANGED <<drv, running, attached, suspended, wake, hw,
                        mdio_registered, phydev, rings, lost, irqs, busy>>
        BY <2>8 DEF OpenUp
      <3> QED
        BY <3>1, <3>2
    <2>9. CASE OpenFails
      BY <2>9 DEF OpenFails
    <2>10. CASE \E l \in AllLines : UndoIrq(l)
      BY <2>10 DEF UndoIrq
    <2>11. CASE UndoRest
      <3>1. /\ phydev' \in {"none", "stale"} /\ pc' = "idle" /\ by' = "core"
            /\ clk' \in BOOLEAN /\ running' \in BOOLEAN
            /\ frozen' \in {"no", "failed"}
        BY <2>11 DEF UndoRest
      <3>2. UNCHANGED <<drv, active, attached, suspended, wake,
                        queueStopped, phyPower, dmaOn, mdio_registered,
                        rings, lost, irqs, txtimer, busy>>
        BY <2>11 DEF UndoRest
      <3> QED
        BY <3>1, <3>2
    <2> QED
      BY <1>3, <2>1, <2>2, <2>3, <2>4, <2>5, <2>6, <2>7, <2>8, <2>9, <2>10,
         <2>11 DEF OpenStep
  <1>4. CASE Close
    <2>1. /\ running' \in BOOLEAN /\ active' \in BOOLEAN
          /\ pc' = "close" /\ by' = "core"
      BY <1>4 DEF Close
    <2>2. UNCHANGED <<drv, attached, pm, queueStopped, hw,
                      mdio_registered, phydev, rings, lost, irqs, txtimer,
                      busy>>
      BY <1>4 DEF Close
    <2> QED
      BY <2>1, <2>2
  <1>5. CASE Freeze
    BY <1>5 DEF Freeze
  <1>6. CASE Remove
    <2>1. /\ dmaOn' \in BOOLEAN /\ mdio_registered' \in BOOLEAN
          /\ remove' = "hw"
      BY <1>6 DEF Remove
    <2>2. UNCHANGED <<pc, by, present, probe, running, active, attached, pm,
                      queueStopped, clk, phyPower, phydev, rings, lost,
                      irqs, txtimer, busy>>
      BY <1>6 DEF Remove
    <2> QED
      BY <2>1, <2>2
  <1>7. CASE CloseStep
    <2>1. CASE RemoveClose
      <3>1. /\ running' \in BOOLEAN /\ active' \in BOOLEAN
            /\ pc' \in {"close", "idle"} /\ remove' = "net"
        BY <2>1 DEF RemoveClose
      <3>2. UNCHANGED <<by, present, probe, attached, pm, queueStopped, hw,
                        mdio_registered, phydev, rings, lost, irqs, txtimer,
                        busy>>
        BY <2>1 DEF RemoveClose
      <3> QED
        BY <3>1, <3>2
    <2>2. CASE RemoveDone
      <3>1. present' \in BOOLEAN /\ remove' = "no"
        BY <2>2 DEF RemoveDone
      <3>2. UNCHANGED <<pc, by, probe, running, active, attached, pm,
                        queueStopped, hw, mdio_registered, phydev, rings,
                        lost, irqs, txtimer, busy>>
        BY <2>2 DEF RemoveDone
      <3> QED
        BY <3>1, <3>2
    <2>3. CASE ClosePhy
      BY <2>3 DEF ClosePhy
    <2>4. CASE CloseTimer
      <3>1. txtimer' \in BOOLEAN /\ pc' = "irq"
        BY <2>4 DEF CloseTimer
      <3>2. UNCHANGED <<by, core, pm, queueStopped, hw, mdio_registered,
                        phydev, rings, lost, irqs, busy>>
        BY <2>4 DEF CloseTimer
      <3> QED
        BY <3>1, <3>2
    <2>5. CASE CloseIrq
      <3>1. irqs' \subseteq AllLines /\ pc' \in {"irq", "dmaoff"}
        BY <2>5 DEF CloseIrq
      <3>2. UNCHANGED <<by, core, pm, queueStopped, hw, mdio_registered,
                        phydev, rings, lost, txtimer, busy>>
        BY <2>5 DEF CloseIrq
      <3> QED
        BY <3>1, <3>2
    <2>6. CASE CloseDma
      <3>1. dmaOn' \in BOOLEAN /\ pc' = "free"
        BY <2>6 DEF CloseDma
      <3>2. UNCHANGED <<by, core, pm, queueStopped, clk, phyPower,
                        mdio_registered, phydev, rings, lost, irqs, txtimer,
                        busy>>
        BY <2>6 DEF CloseDma
      <3> QED
        BY <3>1, <3>2
    <2>7. CASE CloseRings
      BY <2>7 DEF CloseRings
    <2>8. CASE CloseOff
      <3>1. /\ clk' \in BOOLEAN /\ phyPower' \in BOOLEAN
            /\ frozen' \in {"no", "yes"}
            /\ pc' = "idle" /\ by' = "core"
        BY <2>8 DEF CloseOff
      <3>2. UNCHANGED <<core, suspended, wake, queueStopped, dmaOn,
                        mdio_registered, phydev, rings, lost, irqs, txtimer,
                        busy>>
        BY <2>8 DEF CloseOff
      <3> QED
        BY <3>1, <3>2
    <2> QED
      BY <1>7, <2>1, <2>2, <2>3, <2>4, <2>5, <2>6, <2>7, <2>8 DEF CloseStep
  <1>8. CASE ProbeStep
    <2>1. CASE Probe
      <3>1. /\ present' \in BOOLEAN /\ mdio_registered' \in BOOLEAN
            /\ attached' \in BOOLEAN /\ queueStopped' \in BOOLEAN
            /\ phydev' = "none" /\ rings' = "none" /\ probe' = "mdio"
        BY <2>1 DEF Probe
      <3>2. lost' \in BOOLEAN
        BY <2>1, Zenon DEF Probe
      <3>3. UNCHANGED <<pc, by, remove, running, active, pm, hw, irqs,
                        txtimer, busy>>
        BY <2>1 DEF Probe
      <3> QED
        BY <3>1, <3>2, <3>3
    <2>2. CASE ProbeMdio
      <3>1. mdio_registered' \in BOOLEAN /\ probe' = "csr"
        BY <2>2 DEF ProbeMdio, ProbeAfter
      <3>2. UNCHANGED <<pc, by, present, remove, running, active, attached,
                        pm, queueStopped, hw, phydev, rings, lost, irqs,
                        txtimer, busy>>
        BY <2>2 DEF ProbeMdio
      <3> QED
        BY <3>1, <3>2
    <2>3. CASE ProbeCsr
      BY <2>3 DEF ProbeCsr, ProbeAfter
    <2>4. CASE ProbeLine
      <3>1. probe \in AllLines /\ probe' = ProbeAfter[probe]
        BY <2>4 DEF ProbeLine
      <3>2. probe' \in {"wol", "lpi", "done"}
        BY <3>1 DEF AllLines, ProbeAfter
      <3>3. UNCHANGED <<pc, by, present, remove, running, active, attached,
                        pm, queueStopped, hw, mdio_registered, phydev, rings,
                        lost, irqs, txtimer, busy>>
        BY <2>4 DEF ProbeLine
      <3> QED
        BY <3>2, <3>3
    <2> QED
      BY <1>8, <2>1, <2>2, <2>3, <2>4 DEF ProbeStep
  <1>9. ASSUME NEW w \in BOOLEAN, Suspend(w)
        PROVE  TypeOK'
    <2>1. /\ suspended' \in BOOLEAN /\ wake' \in BOOLEAN
          /\ attached' \in BOOLEAN /\ queueStopped' \in BOOLEAN
          /\ dmaOn' \in BOOLEAN
      BY <1>9 DEF Suspend
    <2>2. clk' \in BOOLEAN /\ phyPower' \in BOOLEAN
      BY <1>9 DEF Suspend
    <2>3. UNCHANGED <<pc, by, drv, running, active, frozen,
                      mdio_registered, phydev, rings, lost, irqs, txtimer,
                      busy>>
      BY <1>9 DEF Suspend
    <2> QED
      BY <2>1, <2>2, <2>3
  <1>10. CASE Resume
    <2>1. /\ suspended' \in BOOLEAN /\ wake' \in BOOLEAN
          /\ attached' \in BOOLEAN /\ queueStopped' \in BOOLEAN
          /\ dmaOn' \in BOOLEAN
      BY <1>10 DEF Resume
    <2>2. clk' \in BOOLEAN /\ phyPower' \in BOOLEAN
      BY <1>10 DEF Resume
    <2>3. UNCHANGED <<pc, by, drv, running, active, frozen,
                      mdio_registered, phydev, rings, lost, irqs, txtimer,
                      busy>>
      BY <1>10 DEF Resume
    <2> QED
      BY <2>1, <2>2, <2>3
  <1>11. ASSUME NEW l \in AllLines, IrqEnter(l)
         PROVE  TypeOK'
    BY <1>11 DEF IrqEnter, Contexts
  <1>12. CASE TimerFires
    <2>1. busy' \subseteq Contexts /\ txtimer' \in BOOLEAN
      BY <1>12 DEF TimerFires, Contexts
    <2>2. UNCHANGED <<pc, by, core, pm, queueStopped, hw, mdio_registered,
                      phydev, rings, lost, irqs>>
      BY <1>12 DEF TimerFires
    <2> QED
      BY <2>1, <2>2
  <1>13. ASSUME NEW c \in Contexts, CleanDone(c)
         PROVE  TypeOK'
    <2>1. busy' \subseteq Contexts /\ queueStopped' \in BOOLEAN
      BY <1>13 DEF CleanDone
    <2>2. UNCHANGED <<pc, by, core, pm, hw, mdio_registered, phydev, rings,
                      lost, irqs, txtimer>>
      BY <1>13 DEF CleanDone
    <2> QED
      BY <2>1, <2>2
  <1>14. CASE XmitEnter
    BY <1>14 DEF XmitEnter, Contexts
  <1>15. CASE XmitDone
    <2>1. /\ busy' \subseteq Contexts
          /\ queueStopped' \in BOOLEAN /\ txtimer' \in BOOLEAN
      BY <1>15 DEF XmitDone
    <2>2. UNCHANGED <<pc, by, core, pm, hw, mdio_registered, phydev, rings,
                      lost, irqs>>
      BY <1>15 DEF XmitDone
    <2> QED
      BY <2>1, <2>2
  <1>16. CASE UNCHANGED vars
    BY <1>16 DEF vars
  <1> QED
    BY <1>1, <1>2, <1>3, <1>4, <1>5, <1>6, <1>7, <1>8, <1>9, <1>10, <1>11,
       <1>12, <1>13, <1>14, <1>15, <1>16 DEF Next


-----------------------------------------------------------------------------
(* The invariant, part by part.                                            *)

(* Each step finds the caller and the device it expects.                   *)
LEMMA NextStepInv ==
    ASSUME TypeOK, StepInv, [Next]_vars
    PROVE  StepInv'
  <1> USE DEF TypeOK, StepInv, OpenSteps, CloseSteps, core, drv, pm, hw
  <1>1. CASE Open
    BY <1>1 DEF Open
  <1>2. CASE Restore
    BY <1>2 DEF Restore
  <1>3. CASE OpenStep
    <2>1. CASE OpenPower
      BY <2>1 DEF OpenPower, After
    <2>2. CASE OpenMdio
      BY <2>2 DEF OpenMdio, After
    <2>3. CASE OpenPhy
      BY <2>3 DEF OpenPhy, After
    <2>4. CASE OpenRings
      BY <2>4 DEF OpenRings, After
    <2>5. CASE OpenDma
      BY <2>5 DEF OpenDma, After
    <2>6. CASE OpenIrq
      BY <2>6 DEF OpenIrq, After, AllLines
    <2>7. CASE OpenStart
      BY <2>7 DEF OpenStart, After
    <2>8. CASE OpenUp
      BY <2>8 DEF OpenUp
    <2>9. CASE OpenFails
      BY <2>9, NetDevAssumption DEF OpenFails, AllLines
    <2>10. CASE \E l \in AllLines : UndoIrq(l)
      BY <2>10 DEF UndoIrq
    <2>11. CASE UndoRest
      BY <2>11 DEF UndoRest
    <2> QED
      BY <1>3, <2>1, <2>2, <2>3, <2>4, <2>5, <2>6, <2>7, <2>8, <2>9, <2>10,
         <2>11 DEF OpenStep
  <1>4. CASE Close
    BY <1>4 DEF Close
  <1>5. CASE Freeze
    BY <1>5 DEF Freeze
  <1>6. CASE Remove
    BY <1>6 DEF Remove
  <1>7. CASE CloseStep
    <2>1. CASE RemoveClose
      BY <2>1 DEF RemoveClose
    <2>2. CASE RemoveDone
      BY <2>2 DEF RemoveDone
    <2>3. CASE ClosePhy
      BY <2>3 DEF ClosePhy
    <2>4. CASE CloseTimer
      BY <2>4 DEF CloseTimer
    <2>5. CASE CloseIrq
      <3>1. /\ pc = "irq"
            /\ irqs' \subseteq irqs
            /\ busy \cap irqs \subseteq irqs'
            /\ pc' = "irq" \/ (pc' = "dmaoff" /\ irqs' = {})
        BY <2>5 DEF CloseIrq
      <3>2. UNCHANGED <<by, core, pm, queueStopped, hw, mdio_registered,
                        phydev, rings, lost, txtimer, busy>>
        BY <2>5 DEF CloseIrq
      <3> QED
        BY <3>1, <3>2
    <2>6. CASE CloseDma
      BY <2>6 DEF CloseDma
    <2>7. CASE CloseRings
      BY <2>7 DEF CloseRings
    <2>8. CASE CloseOff
      BY <2>8 DEF CloseOff
    <2> QED
      BY <1>7, <2>1, <2>2, <2>3, <2>4, <2>5, <2>6, <2>7, <2>8 DEF CloseStep
  <1>8. CASE ProbeStep
    <2>1. CASE Probe
      BY <2>1 DEF Probe
    <2>2. CASE ProbeMdio
      BY <2>2 DEF ProbeMdio
    <2>3. CASE ProbeCsr
      BY <2>3 DEF ProbeCsr
    <2>4. CASE ProbeLine
      BY <2>4 DEF ProbeLine
    <2> QED
      BY <1>8, <2>1, <2>2, <2>3, <2>4 DEF ProbeStep
  <1>9. CASE \E w \in BOOLEAN : Suspend(w)
    BY <1>9 DEF Suspend
  <1>10. CASE Resume
    BY <1>10 DEF Resume
  <1>11. CASE \E l \in AllLines : IrqEnter(l)
    BY <1>11 DEF IrqEnter
  <1>12. CASE TimerFires
    BY <1>12 DEF TimerFires
  <1>13. CASE \E c \in Contexts : CleanDone(c)
    BY <1>13 DEF CleanDone
  <1>14. CASE XmitEnter
    BY <1>14 DEF XmitEnter
  <1>15. CASE XmitDone
    BY <1>15 DEF XmitDone
  <1>16. CASE UNCHANGED vars
    BY <1>16 DEF vars
  <1> QED
    BY <1>1, <1>2, <1>3, <1>4, <1>5, <1>6, <1>7, <1>8, <1>9, <1>10, <1>11,
       <1>12, <1>13, <1>14, <1>15, <1>16 DEF Next

(* free_irq waits for the handler of its line, and comes before the rings  *)
(* are freed.                                                              *)
LEMMA NextLineInv ==
    ASSUME TypeOK, StepInv, LineInv, [Next]_vars
    PROVE  LineInv'
  <1> USE DEF TypeOK, StepInv, LineInv, InUse, Built, AllLines,
             OpenSteps, CloseSteps, core, drv, pm, hw
  <1>1. CASE Open
    BY <1>1 DEF Open
  <1>2. CASE Restore
    BY <1>2 DEF Restore
  <1>3. CASE OpenStep
    <2>1. CASE OpenPower
      BY <2>1 DEF OpenPower, After
    <2>2. CASE OpenMdio
      BY <2>2 DEF OpenMdio, After
    <2>3. CASE OpenPhy
      BY <2>3 DEF OpenPhy, After
    <2>4. CASE OpenRings
      BY <2>4 DEF OpenRings, After
    <2>5. CASE OpenDma
      BY <2>5 DEF OpenDma, After
    <2>6. CASE OpenIrq
      BY <2>6 DEF OpenIrq, After, AllLines
    <2>7. CASE OpenStart
      BY <2>7 DEF OpenStart, After
    <2>8. CASE OpenUp
      BY <2>8 DEF OpenUp
    <2>9. CASE OpenFails
      BY <2>9, NetDevAssumption DEF OpenFails, AllLines
    <2>10. CASE \E l \in AllLines : UndoIrq(l)
      BY <2>10 DEF UndoIrq
    <2>11. CASE UndoRest
      BY <2>11 DEF UndoRest
    <2> QED
      BY <1>3, <2>1, <2>2, <2>3, <2>4, <2>5, <2>6, <2>7, <2>8, <2>9, <2>10,
         <2>11 DEF OpenStep
  <1>4. CASE Close
    BY <1>4 DEF Close
  <1>5. CASE Freeze
    BY <1>5 DEF Freeze
  <1>6. CASE Remove
    BY <1>6 DEF Remove
  <1>7. CASE CloseStep
    <2>1. CASE RemoveClose
      BY <2>1 DEF RemoveClose
    <2>2. CASE RemoveDone
      BY <2>2 DEF RemoveDone
    <2>3. CASE ClosePhy
      BY <2>3 DEF ClosePhy
    <2>4. CASE CloseTimer
      BY <2>4 DEF CloseTimer
    <2>5. CASE CloseIrq
      <3>1. /\ pc = "irq"
            /\ irqs' \subseteq irqs
            /\ busy \cap irqs \subseteq irqs'
            /\ pc' = "irq" \/ (pc' = "dmaoff" /\ irqs' = {})
        BY <2>5 DEF CloseIrq
      <3>2. UNCHANGED <<by, core, pm, queueStopped, hw, mdio_registered,
                        phydev, rings, lost, txtimer, busy>>
        BY <2>5 DEF CloseIrq
      <3> QED
        BY <3>1, <3>2
    <2>6. CASE CloseDma
      BY <2>6 DEF CloseDma
    <2>7. CASE CloseRings
      BY <2>7 DEF CloseRings
    <2>8. CASE CloseOff
      BY <2>8 DEF CloseOff
    <2> QED
      BY <1>7, <2>1, <2>2, <2>3, <2>4, <2>5, <2>6, <2>7, <2>8 DEF CloseStep
  <1>8. CASE ProbeStep
    <2>1. CASE Probe
      BY <2>1 DEF Probe
    <2>2. CASE ProbeMdio
      BY <2>2 DEF ProbeMdio
    <2>3. CASE ProbeCsr
      BY <2>3 DEF ProbeCsr
    <2>4. CASE ProbeLine
      BY <2>4 DEF ProbeLine
    <2> QED
      BY <1>8, <2>1, <2>2, <2>3, <2>4 DEF ProbeStep
  <1>9. CASE \E w \in BOOLEAN : Suspend(w)
    BY <1>9 DEF Suspend
  <1>10. CASE Resume
    BY <1>10 DEF Resume
  <1>11. CASE \E l \in AllLines : IrqEnter(l)
    BY <1>11 DEF IrqEnter
  <1>12. CASE TimerFires
    BY <1>12 DEF TimerFires
  <1>13. CASE \E c \in Contexts : CleanDone(c)
    BY <1>13 DEF CleanDone
  <1>14. CASE XmitEnter
    BY <1>14 DEF XmitEnter
  <1>15. CASE XmitDone
    BY <1>15 DEF XmitDone
  <1>16. CASE UNCHANGED vars
    BY <1>16 DEF vars
  <1> QED
    BY <1>1, <1>2, <1>3, <1>4, <1>5, <1>6, <1>7, <1>8, <1>9, <1>10, <1>11,
       <1>12, <1>13, <1>14, <1>15, <1>16 DEF Next

(* The clock is turned on before the first line is requested and off after *)
(* the last one is free.                                                   *)
LEMMA NextPowerInv ==
    ASSUME TypeOK, StepInv, LineInv, PowerInv, [Next]_vars
    PROVE  PowerInv'
  <1> USE DEF TypeOK, StepInv, LineInv, PowerInv, InUse, Built,
             OpenSteps, CloseSteps, core, drv, pm, hw
  <1>1. CASE Open
    BY <1>1 DEF Open
  <1>2. CASE Restore
    BY <1>2 DEF Restore
  <1>3. CASE OpenStep
    <2>1. CASE OpenPower
      BY <2>1 DEF OpenPower, After
    <2>2. CASE OpenMdio
      BY <2>2 DEF OpenMdio, After
    <2>3. CASE OpenPhy
      BY <2>3 DEF OpenPhy, After
    <2>4. CASE OpenRings
      BY <2>4 DEF OpenRings, After
    <2>5. CASE OpenDma
      BY <2>5 DEF OpenDma, After
    <2>6. CASE OpenIrq
      BY <2>6 DEF OpenIrq, After, AllLines
    <2>7. CASE OpenStart
      BY <2>7 DEF OpenStart, After
    <2>8. CASE OpenUp
      BY <2>8 DEF OpenUp
    <2>9. CASE OpenFails
      BY <2>9, NetDevAssumption DEF OpenFails, AllLines
    <2>10. CASE \E l \in AllLines : UndoIrq(l)
      BY <2>10 DEF UndoIrq
    <2>11. CASE UndoRest
      BY <2>11 DEF UndoRest
    <2> QED
      BY <1>3, <2>1, <2>2, <2>3, <2>4, <2>5, <2>6, <2>7, <2>8, <2>9, <2>10,
         <2>11 DEF OpenStep
  <1>4. CASE Close
    BY <1>4 DEF Close
  <1>5. CASE Freeze
    BY <1>5 DEF Freeze
  <1>6. CASE Remove
    BY <1>6 DEF Remove
  <1>7. CASE CloseStep
    <2>1. CASE RemoveClose
      BY <2>1 DEF RemoveClose
    <2>2. CASE RemoveDone
      BY <2>2 DEF RemoveDone
    <2>3. CASE ClosePhy
      BY <2>3 DEF ClosePhy
    <2>4. CASE CloseTimer
      BY <2>4 DEF CloseTimer
    <2>5. CASE CloseIrq
      <3>1. /\ pc = "irq"
            /\ irqs' \subseteq irqs
            /\ busy \cap irqs \subseteq irqs'
            /\ pc' = "irq" \/ (pc' = "dmaoff" /\ irqs' = {})
        BY <2>5 DEF CloseIrq
      <3>2. UNCHANGED <<by, core, pm, queueStopped, hw, mdio_registered,
                        phydev, rings, lost, txtimer, busy>>
        BY <2>5 DEF CloseIrq
      <3> QED
        BY <3>1, <3>2
    <2>6. CASE CloseDma
      BY <2>6 DEF CloseDma
    <2>7. CASE CloseRings
      BY <2>7 DEF CloseRings
    <2>8. CASE CloseOff
      BY <2>8 DEF CloseOff
    <2> QED
      BY <1>7, <2>1, <2>2, <2>3, <2>4, <2>5, <2>6, <2>7, <2>8 DEF CloseStep
  <1>8. CASE ProbeStep
    <2>1. CASE Probe
      BY <2>1 DEF Probe
    <2>2. CASE ProbeMdio
      BY <2>2 DEF ProbeMdio
    <2>3. CASE ProbeCsr
      BY <2>3 DEF ProbeCsr
    <2>4. CASE ProbeLine
      BY <2>4 DEF ProbeLine
    <2> QED
      BY <1>8, <2>1, <2>2, <2>3, <2>4 DEF ProbeStep
  <1>9. CASE \E w \in BOOLEAN : Suspend(w)
    BY <1>9 DEF Suspend
  <1>10. CASE Resume
    BY <1>10 DEF Resume
  <1>11. CASE \E l \in AllLines : IrqEnter(l)
    BY <1>11 DEF IrqEnter
  <1>12. CASE TimerFires
    BY <1>12 DEF TimerFires
  <1>13. CASE \E c \in Contexts : CleanDone(c)
    BY <1>13 DEF CleanDone
  <1>14. CASE XmitEnter
    BY <1>14 DEF XmitEnter
  <1>15. CASE XmitDone
    BY <1>15 DEF XmitDone
  <1>16. CASE UNCHANGED vars
    BY <1>16 DEF vars
  <1> QED
    BY <1>1, <1>2, <1>3, <1>4, <1>5, <1>6, <1>7, <1>8, <1>9, <1>10, <1>11,
       <1>12, <1>13, <1>14, <1>15, <1>16 DEF Next

(* The core waits for stmmac_xmit, del_timer_sync for the timer.           *)
LEMMA NextQuietInv ==
    ASSUME TypeOK, StepInv, QuietInv, [Next]_vars
    PROVE  QuietInv'
  <1> USE DEF TypeOK, StepInv, QuietInv, AllLines,
             OpenSteps, CloseSteps, core, drv, pm, hw
  <1>1. CASE Open
    BY <1>1 DEF Open
  <1>2. CASE Restore
    BY <1>2 DEF Restore
  <1>3. CASE OpenStep
    <2>1. CASE OpenPower
      BY <2>1 DEF OpenPower, After
    <2>2. CASE OpenMdio
      BY <2>2 DEF OpenMdio, After
    <2>3. CASE OpenPhy
      BY <2>3 DEF OpenPhy, After
    <2>4. CASE OpenRings
      BY <2>4 DEF OpenRings, After
    <2>5. CASE OpenDma
      BY <2>5 DEF OpenDma, After
    <2>6. CASE OpenIrq
      BY <2>6 DEF OpenIrq, After, AllLines
    <2>7. CASE OpenStart
      BY <2>7 DEF OpenStart, After
    <2>8. CASE OpenUp
      BY <2>8 DEF OpenUp
    <2>9. CASE OpenFails
      BY <2>9, NetDevAssumption DEF OpenFails, AllLines
    <2>10. CASE \E l \in AllLines : UndoIrq(l)
      BY <2>10 DEF UndoIrq
    <2>11. CASE UndoRest
      BY <2>11 DEF UndoRest
    <2> QED
      BY <1>3, <2>1, <2>2, <2>3, <2>4, <2>5, <2>6, <2>7, <2>8, <2>9, <2>10,
         <2>11 DEF OpenStep
  <1>4. CASE Close
    BY <1>4 DEF Close
  <1>5. CASE Freeze
    BY <1>5 DEF Freeze
  <1>6. CASE Remove
    BY <1>6 DEF Remove
  <1>7. CASE CloseStep
    <2>1. CASE RemoveClose
      BY <2>1 DEF RemoveClose
    <2>2. CASE RemoveDone
      BY <2>2 DEF RemoveDone
    <2>3. CASE ClosePhy
      BY <2>3 DEF ClosePhy
    <2>4. CASE CloseTimer
      BY <2>4 DEF CloseTimer
    <2>5. CASE CloseIrq
      <3>1. /\ pc = "irq"
            /\ irqs' \subseteq irqs
            /\ busy \cap irqs \subseteq irqs'
            /\ pc' = "irq" \/ (pc' = "dmaoff" /\ irqs' = {})
        BY <2>5 DEF CloseIrq
      <3>2. UNCHANGED <<by, core, pm, queueStopped, hw, mdio_registered,
                        phydev, rings, lost, txtimer, busy>>
        BY <2>5 DEF CloseIrq
      <3> QED
        BY <3>1, <3>2
    <2>6. CASE CloseDma
      BY <2>6 DEF CloseDma
    <2>7. CASE CloseRings
      BY <2>7 DEF CloseRings
    <2>8. CASE CloseOff
      BY <2>8 DEF CloseOff
    <2> QED
      BY <1>7, <2>1, <2>2, <2>3, <2>4, <2>5, <2>6, <2>7, <2>8 DEF CloseStep
  <1>8. CASE ProbeStep
    <2>1. CASE Probe
      BY <2>1 DEF Probe
    <2>2. CASE ProbeMdio
      BY <2>2 DEF ProbeMdio
    <2>3. CASE ProbeCsr
      BY <2>3 DEF ProbeCsr
    <2>4. CASE ProbeLine
      BY <2>4 DEF ProbeLine
    <2> QED
      BY <1>8, <2>1, <2>2, <2>3, <2>4 DEF ProbeStep
  <1>9. CASE \E w \in BOOLEAN : Suspend(w)
    BY <1>9 DEF Suspend
  <1>10. CASE Resume
    BY <1>10 DEF Resume
  <1>11. CASE \E l \in AllLines : IrqEnter(l)
    BY <1>11 DEF IrqEnter
  <1>12. CASE TimerFires
    BY <1>12 DEF TimerFires
  <1>13. CASE \E c \in Contexts : CleanDone(c)
    BY <1>13 DEF CleanDone
  <1>14. CASE XmitEnter
    BY <1>14 DEF XmitEnter
  <1>15. CASE XmitDone
    BY <1>15 DEF XmitDone
  <1>16. CASE UNCHANGED vars
    BY <1>16 DEF vars
  <1> QED
    BY <1>1, <1>2, <1>3, <1>4, <1>5, <1>6, <1>7, <1>8, <1>9, <1>10, <1>11,
       <1>12, <1>13, <1>14, <1>15, <1>16 DEF Next

LEMMA NextIInv ==
    ASSUME IInv, [Next]_vars
    PROVE  IInv'
  BY NextTypeOK, NextStepInv, NextLineInv, NextPowerInv, NextQuietInv DEF IInv

LEMMA Inductive == Spec => []IInv
  BY InitIInv, NextIInv, PTL DEF Spec

(* A release leaves no rings, an open that succeeds leaves them.            *)
LEMMA NextRingInv ==
    ASSUME TypeOK, StepInv, LineInv, RingInv, [Next]_vars
    PROVE  RingInv'
  <1> USE DEF TypeOK, StepInv, LineInv, RingInv, InUse, Built,
             OpenSteps, CloseSteps, core, drv, pm, hw
  <1>1. CASE Open
    BY <1>1 DEF Open
  <1>2. CASE Restore
    BY <1>2 DEF Restore
  <1>3. CASE OpenStep
    <2>1. CASE OpenPower
      BY <2>1 DEF OpenPower, After
    <2>2. CASE OpenMdio
      BY <2>2 DEF OpenMdio, After
    <2>3. CASE OpenPhy
      BY <2>3 DEF OpenPhy, After
    <2>4. CASE OpenRings
      BY <2>4 DEF OpenRings, After
    <2>5. CASE OpenDma
      BY <2>5 DEF OpenDma, After
    <2>6. CASE OpenIrq
      BY <2>6 DEF OpenIrq, After, AllLines
    <2>7. CASE OpenStart
      BY <2>7 DEF OpenStart, After
    <2>8. CASE OpenUp
      BY <2>8 DEF OpenUp
    <2>9. CASE OpenFails
      BY <2>9, NetDevAssumption DEF OpenFails, AllLines
    <2>10. CASE \E l \in AllLines : UndoIrq(l)
      BY <2>10 DEF UndoIrq
    <2>11. CASE UndoRest
      BY <2>11 DEF UndoRest
    <2> QED
      BY <1>3, <2>1, <2>2, <2>3, <2>4, <2>5, <2>6, <2>7, <2>8, <2>9, <2>10,
         <2>11 DEF OpenStep
  <1>4. CASE Close
    BY <1>4 DEF Close
  <1>5. CASE Freeze
    BY <1>5 DEF Freeze
  <1>6. CASE Remove
    BY <1>6 DEF Remove
  <1>7. CASE CloseStep
    <2>1. CASE RemoveClose
      BY <2>1 DEF RemoveClose
    <2>2. CASE RemoveDone
      BY <2>2 DEF RemoveDone
    <2>3. CASE ClosePhy
      BY <2>3 DEF ClosePhy
    <2>4. CASE CloseTimer
      BY <2>4 DEF CloseTimer
    <2>5. CASE CloseIrq
      <3>1. /\ pc = "irq"
            /\ irqs' \subseteq irqs
            /\ busy \cap irqs \subseteq irqs'
            /\ pc' = "irq" \/ (pc' = "dmaoff" /\ irqs' = {})
        BY <2>5 DEF CloseIrq
      <3>2. UNCHANGED <<by, core, pm, queueStopped, hw, mdio_registered,
                        phydev, rings, lost, txtimer, busy>>
        BY <2>5 DEF CloseIrq
      <3> QED
        BY <3>1, <3>2
    <2>6. CASE CloseDma
      BY <2>6 DEF CloseDma
    <2>7. CASE CloseRings
      BY <2>7 DEF CloseRings
    <2>8. CASE CloseOff
      BY <2>8 DEF CloseOff
    <2> QED
      BY <1>7, <2>1, <2>2, <2>3, <2>4, <2>5, <2>6, <2>7, <2>8 DEF CloseStep
  <1>8. CASE ProbeStep
    <2>1. CASE Probe
      BY <2>1 DEF Probe
    <2>2. CASE ProbeMdio
      BY <2>2 DEF ProbeMdio
    <2>3. CASE ProbeCsr
      BY <2>3 DEF ProbeCsr
    <2>4. CASE ProbeLine
      BY <2>4 DEF ProbeLine
    <2> QED
      BY <1>8, <2>1, <2>2, <2>3, <2>4 DEF ProbeStep
  <1>9. CASE \E w \in BOOLEAN : Suspend(w)
    BY <1>9 DEF Suspend
  <1>10. CASE Resume
    BY <1>10 DEF Resume
  <1>11. CASE \E l \in AllLines : IrqEnter(l)
    BY <1>11 DEF IrqEnter
  <1>12. CASE TimerFires
    BY <1>12 DEF TimerFires
  <1>13. CASE \E c \in Contexts : CleanDone(c)
    BY <1>13 DEF CleanDone
  <1>14. CASE XmitEnter
    BY <1>14 DEF XmitEnter
  <1>15. CASE XmitDone
    BY <1>15 DEF XmitDone
  <1>16. CASE UNCHANGED vars
    BY <1>16 DEF vars
  <1> QED
    BY <1>1, <1>2, <1>3, <1>4, <1>5, <1>6, <1>7, <1>8, <1>9, <1>10, <1>11,
       <1>12, <1>13, <1>14, <1>15, <1>16 DEF Next

-----------------------------------------------------------------------------
(* The theorems.                                                           *)

(* Type correctness, without any assumption on restores and the stack.     *)
THEOREM TypeCorrect == Spec => []TypeOK
  BY Inductive, PTL DEF IInv

(* The interrupt handlers work on allocated rings, wherever stmmac_open    *)
(* fails, also that of a restore, and whatever the stack sends meanwhile.  *)
THEOREM HandlersFindRings == Spec => []HandlersOnRings
  <1>1. IInv => HandlersOnRings
    BY DEF IInv, LineInv, HandlersOnRings
  <1> QED
    BY <1>1, Inductive, PTL

(* They run with the clock on, except during a suspend.                    *)
THEOREM ClockOutlivesHandlers == Spec => []HandlersClocked
  <1>1. IInv => HandlersClocked
    BY DEF IInv, LineInv, PowerInv, HandlersClocked
  <1> QED
    BY <1>1, Inductive, PTL

(* A device that is closed, or whose open has failed at whatever step,     *)
(* holds no interrupt line, timer or clock, and nothing works on it.       *)
THEOREM ClosedIsQuiet == Spec => []ClosedHoldsNothing
  <1>1. IInv => ClosedHoldsNothing
    <2> SUFFICES ASSUME IInv, pc = "idle", ~running
                 PROVE  /\ irqs = {} /\ ~txtimer /\ ~clk /\ ~dmaOn
                        /\ busy = {}
      BY DEF ClosedHoldsNothing
    <2>1. irqs = {}
      BY DEF IInv, LineInv, InUse
    <2>2. ~txtimer /\ "timer" \notin busy /\ "xmit" \notin busy
      BY DEF IInv, StepInv, QuietInv
    <2>3. busy = {}
      BY <2>1, <2>2 DEF IInv, TypeOK, LineInv, Contexts, AllLines
    <2>4. ~clk /\ ~dmaOn
      BY DEF IInv, PowerInv
    <2> QED
      BY <2>1, <2>2, <2>3, <2>4
  <1> QED
    BY <1>1, Inductive, PTL

LEMMA RingsInductive == Spec => [](IInv /\ RingInv)
  <1>1. Init => RingInv
    BY DEF Init, RingInv, InUse
  <1>2. IInv /\ RingInv /\ [Next]_vars => (IInv /\ RingInv)'
    BY NextIInv, NextRingInv DEF IInv
  <1> QED
    BY <1>1, <1>2, InitIInv, PTL DEF Spec

(* stmmac_release frees the rings twice only when it is called for a       *)
(* device that a failed restore has left running.                          *)
THEOREM NoDoubleFree == Spec => []FreedOnce
  <1>1. IInv /\ RingInv => FreedOnce
    BY DEF IInv, TypeOK, StepInv, RingInv, FreedOnce, CloseSteps
  <1> QED
    BY <1>1, RingsInductive, PTL

(* Handlers, timer and stmmac_xmit work on allocated rings only, wherever  *)
(* stmmac_open fails and however they overlap stmmac_release, but for the  *)
(* time from a freeze to the next open that succeeds.                      *)
THEOREM RingsOutliveUsers == Spec => []RingsLive
  <1>1. ASSUME IInv, RingInv, busy # {}, frozen = "no", by # "pm"
        PROVE  rings = "live"
    <2>1. CASE busy \cap AllLines # {}
      BY <1>1, <2>1 DEF IInv, LineInv
    <2>2. CASE "timer" \in busy
      BY <1>1, <2>2 DEF IInv, QuietInv, RingInv, InUse
    <2>3. CASE "xmit" \in busy
      BY <1>1, <2>3 DEF IInv, StepInv, QuietInv, RingInv, InUse
    <2> QED
      BY <1>1, <2>1, <2>2, <2>3 DEF IInv, TypeOK, Contexts
  <1> QED
    BY <1>1, RingsInductive, PTL DEF RingsLive

-----------------------------------------------------------------------------
(* The rings of a removed driver.                                          *)

(* What init_dma_desc_rings makes is freed, unless a later step fails.     *)
LEMMA NextLeakInv ==
    ASSUME ~FailsLate, TypeOK, StepInv, LeakInv, [Next]_vars
    PROVE  LeakInv'
  <1> USE DEF TypeOK, StepInv, LeakInv, InUse, Built,
             OpenSteps, CloseSteps, core, drv, pm, hw
  <1>1. CASE Open
    BY <1>1 DEF Open
  <1>2. CASE Restore
    BY <1>2 DEF Restore
  <1>3. CASE OpenStep
    <2>1. CASE OpenPower
      BY <2>1 DEF OpenPower, After
    <2>2. CASE OpenMdio
      BY <2>2 DEF OpenMdio, After
    <2>3. CASE OpenPhy
      BY <2>3 DEF OpenPhy, After
    <2>4. CASE OpenRings
      <3>1. pc = "rings" /\ rings # "live"
        BY <2>4 DEF OpenRings
      <3>2. pc' = "dma" /\ ~lost'
        <4>1. pc' = "dma"
          BY <2>4 DEF OpenRings, After
        <4>2. lost' = (lost \/ rings = "live")
          BY <2>4 DEF OpenRings
        <4> QED
          BY <4>1, <4>2, <3>1, Zenon
      <3> QED
        BY <3>2
    <2>5. CASE OpenDma
      BY <2>5 DEF OpenDma, After
    <2>6. CASE OpenIrq
      BY <2>6 DEF OpenIrq, After, AllLines
    <2>7. CASE OpenStart
      BY <2>7 DEF OpenStart, After
    <2>8. CASE OpenUp
      BY <2>8 DEF OpenUp
    <2>9. CASE OpenFails
      <3>1. pc \notin Built
        BY <2>9 DEF FailsLate
      <3>2. /\ pc \in {"mdio", "phy"} /\ pc' = "undo"
            /\ UNCHANGED <<rings, lost>>
        BY <2>9, <3>1, NetDevAssumption DEF OpenFails, AllLines
      <3> QED
        BY <3>1, <3>2
    <2>10. CASE \E l \in AllLines : UndoIrq(l)
      BY <2>10 DEF UndoIrq
    <2>11. CASE UndoRest
      BY <2>11 DEF UndoRest
    <2> QED
      BY <1>3, <2>1, <2>2, <2>3, <2>4, <2>5, <2>6, <2>7, <2>8, <2>9, <2>10,
         <2>11 DEF OpenStep
  <1>4. CASE Close
    BY <1>4 DEF Close
  <1>5. CASE Freeze
    BY <1>5 DEF Freeze
  <1>6. CASE Remove
    BY <1>6 DEF Remove
  <1>7. CASE CloseStep
    <2>1. CASE RemoveClose
      BY <2>1 DEF RemoveClose
    <2>2. CASE RemoveDone
      BY <2>2 DEF RemoveDone
    <2>3. CASE ClosePhy
      BY <2>3 DEF ClosePhy
    <2>4. CASE CloseTimer
      BY <2>4 DEF CloseTimer
    <2>5. CASE CloseIrq
      <3>1. /\ pc = "irq"
            /\ irqs' \subseteq irqs
            /\ busy \cap irqs \subseteq irqs'
            /\ pc' = "irq" \/ (pc' = "dmaoff" /\ irqs' = {})
        BY <2>5 DEF CloseIrq
      <3>2. UNCHANGED <<by, core, pm, queueStopped, hw, mdio_registered,
                        phydev, rings, lost, txtimer, busy>>
        BY <2>5 DEF CloseIrq
      <3> QED
        BY <3>1, <3>2
    <2>6. CASE CloseDma
      BY <2>6 DEF CloseDma
    <2>7. CASE CloseRings
      BY <2>7 DEF CloseRings
    <2>8. CASE CloseOff
      BY <2>8 DEF CloseOff
    <2> QED
      BY <1>7, <2>1, <2>2, <2>3, <2>4, <2>5, <2>6, <2>7, <2>8 DEF CloseStep
  <1>8. CASE ProbeStep
    <2>1. CASE Probe
      <3>1. ~running /\ rings # "live" /\ pc = "idle"
        BY <2>1 DEF Probe
      <3> QED
        BY <2>1, <3>1 DEF Probe
    <2>2. CASE ProbeMdio
      BY <2>2 DEF ProbeMdio
    <2>3. CASE ProbeCsr
      BY <2>3 DEF ProbeCsr
    <2>4. CASE ProbeLine
      BY <2>4 DEF ProbeLine
    <2> QED
      BY <1>8, <2>1, <2>2, <2>3, <2>4 DEF ProbeStep
  <1>9. CASE \E w \in BOOLEAN : Suspend(w)
    BY <1>9 DEF Suspend
  <1>10. CASE Resume
    BY <1>10 DEF Resume
  <1>11. CASE \E l \in AllLines : IrqEnter(l)
    BY <1>11 DEF IrqEnter
  <1>12. CASE TimerFires
    BY <1>12 DEF TimerFires
  <1>13. CASE \E c \in Contexts : CleanDone(c)
    BY <1>13 DEF CleanDone
  <1>14. CASE XmitEnter
    BY <1>14 DEF XmitEnter
  <1>15. CASE XmitDone
    BY <1>15 DEF XmitDone
  <1>16. CASE UNCHANGED vars
    BY <1>16 DEF vars
  <1> QED
    BY <1>1, <1>2, <1>3, <1>4, <1>5, <1>6, <1>7, <1>8, <1>9, <1>10, <1>11,
       <1>12, <1>13, <1>14, <1>15, <1>16 DEF Next

(* The rings a removed driver leaves behind are those of an open that has  *)
(* failed after it made them: in a run without such a failure a removal    *)
(* leaves none, whatever else happens.                                     *)
THEOREM OnlyFailedOpenLeaks ==
    Spec /\ [][~FailsLate]_vars => []RemoveReleasesRings
  <1>1. Init => LeakInv
    BY DEF Init, LeakInv
  <1>2. ASSUME IInv, LeakInv, [Next]_vars, [~FailsLate]_vars
        PROVE  IInv' /\ LeakInv'
    <2>1. IInv'
      BY <1>2, NextIInv
    <2>2. LeakInv'
      <3>1. CASE UNCHANGED vars
        BY <1>2, <3>1 DEF vars, core, drv, pm, LeakInv, InUse
      <3>2. CASE ~FailsLate
        BY <1>2, <3>2, NextLeakInv DEF IInv
      <3> QED
        BY <1>2, <3>1, <3>2
    <2> QED
      BY <2>1, <2>2
  <1>3. IInv /\ LeakInv => RemoveReleasesRings
    BY DEF IInv, StepInv, LeakInv, RemoveReleasesRings, InUse, Built
  <1> QED
    BY <1>1, <1>2, <1>3, InitIInv, PTL DEF Spec

=============================================================================
