-------------------------------- MODULE NetDev --------------------------------
(***************************************************************************)
(* The life cycle of the network device of stmmac_main.c: stmmac_open and  *)
(* stmmac_release step by step, called by the networking core, by freeze   *)
(* and restore, and by the removal of the driver, together with the        *)
(* contexts that use what they make and free: the interrupt handler on     *)
(* each line, the transmit timer and stmmac_xmit.                          *)
(*                                                                         *)
(* The networking core (not in the repository) marks the device running    *)
(* around ndo_open, and before ndo_stop takes it out of use and waits for  *)
(* a running stmmac_xmit.  Freeze does none of this.  The driver core      *)
(* locks the device over a probe, a removal, a suspend or a freeze, and    *)
(* tasks are frozen over the last two, so that no open or close is under   *)
(* way.  The networking core does not wait for probe or removal: it may    *)
(* open the device from register_netdev on and until unregister_netdev     *)
(* has its lock.                                                           *)
(*                                                                         *)
(* EEE is off, the PHY is on an MDIO bus, both descriptor rings can be     *)
(* allocated, the probe succeeds.                                          *)
(***************************************************************************)
EXTENDS FiniteSets

CONSTANTS
    Lines,   \* interrupt lines beside "mac": a subset of {"wol", "lpi"}
    Failing  \* the steps of stmmac_open that may fail

ASSUME NetDevAssumption ==
    /\ Lines \subseteq {"wol", "lpi"}
    /\ Failing \subseteq {"mdio", "phy", "dma", "mac", "wol", "lpi"}

VARIABLES
    pc, by,          \* step of the operation that runs, and its caller
    present,         \* the network device is registered
    probe,           \* step of the probe after register_netdev
    remove,          \* removal: "no", "hw" with the hardware stopped,
                     \* "net" inside unregister_netdev
    running, active, \* netif_running; the core may call stmmac_xmit
    frozen,          \* "yes": released by stmmac_freeze and not restored;
                     \* "failed": the restore has failed, and the device is
                     \* running without having been opened
    suspended, wake, \* suspended; device_may_wakeup at that time
    attached,        \* netif_device_present
    queueStopped,    \* netif_queue_stopped
    clk, phyPower,   \* gmac_clk_enable, phy_power_on
    mdio_registered,
    phydev,          \* "none", "attached", or "stale": disconnected and kept
    rings, lost,     \* the rings; whether rings were overwritten unfreed
    irqs,            \* interrupt lines requested
    dmaOn,           \* DMA and MAC are started
    txtimer,         \* the transmit timer is pending
    busy             \* what the handlers, the timer and stmmac_xmit do

hw   == <<clk, phyPower, dmaOn>>
drv  == <<present, probe, remove>>
core == <<drv, running, active, attached>>
pm   == <<frozen, suspended, wake>>
vars == <<pc, by, core, pm, queueStopped, hw, mdio_registered, phydev,
          rings, lost, irqs, txtimer, busy>>

AllLines == {"mac", "wol", "lpi"}
Requests == {"mac"} \cup Lines
Contexts == AllLines \cup {"timer", "xmit"}

(* The steps of stmmac_open, each with the one that follows it.            *)
After == [power |-> "mdio", mdio |-> "phy", phy |-> "rings", rings |-> "dma",
          dma |-> "mac", mac |-> "wol", wol |-> "lpi", lpi |-> "start",
          start |-> "up"]

(* The same for the part of stmmac_pltfr_probe that follows                *)
(* register_netdev.                                                        *)
ProbeAfter == [mdio |-> "csr", csr |-> "mac", mac |-> "wol", wol |-> "lpi",
               lpi |-> "done"]

OpenSteps == {"power", "mdio", "phy", "rings", "dma", "mac", "wol", "lpi",
              "start", "up"}
CloseSteps == {"close", "timer", "irq", "dmaoff", "free", "off"}

Init ==
    /\ pc = "idle" /\ by = "core"
    /\ present = FALSE /\ probe = "done" /\ remove = "no"
    /\ running = FALSE /\ active = FALSE /\ attached = TRUE
    /\ frozen = "no" /\ suspended = FALSE /\ wake = FALSE
    /\ queueStopped = TRUE
    /\ clk = FALSE /\ phyPower = FALSE /\ dmaOn = FALSE
    /\ mdio_registered = FALSE
    /\ phydev = "none"
    /\ rings = "none" /\ lost = FALSE
    /\ irqs = {}
    /\ txtimer = FALSE
    /\ busy = {}

-----------------------------------------------------------------------------
(* stmmac_open.                                                            *)

(* dev->irq, wol_irq and lpi_irq are zero until the probe has read them.   *)
IsSet(l) ==
    probe \notin {"mdio", "csr"} \cup
                 (CASE l = "mac" -> {"mac"}
                    [] l = "wol" -> {"mac", "wol"}
                    [] OTHER -> AllLines)

(* The core opens the device; a restore opens one that is still running.   *)
Open ==
    /\ pc = "idle" /\ present /\ ~running /\ remove # "net"
    /\ pc' = "power" /\ by' = "core"
    /\ running' = TRUE
    /\ UNCHANGED <<drv, active, attached, pm, queueStopped, hw,
                   mdio_registered, phydev, rings, lost, irqs, txtimer, busy>>

Restore ==
    /\ pc = "idle" /\ frozen = "yes"
    /\ pc' = "power" /\ by' = "pm"
    /\ UNCHANGED <<core, pm, queueStopped, hw, mdio_registered, phydev,
                   rings, lost, irqs, txtimer, busy>>

OpenPower ==
    /\ pc = "power"
    /\ clk' = TRUE /\ phyPower' = TRUE
    /\ pc' = After[pc]
    /\ UNCHANGED <<by, core, pm, queueStopped, dmaOn, mdio_registered,
                   phydev, rings, lost, irqs, txtimer, busy>>

OpenMdio ==
    /\ pc = "mdio"
    /\ mdio_registered' = TRUE
    /\ pc' = After[pc]
    /\ UNCHANGED <<by, core, pm, queueStopped, hw, phydev, rings, lost,
                   irqs, txtimer, busy>>

OpenPhy ==
    /\ pc = "phy"
    /\ phydev' = "attached"
    /\ pc' = After[pc]
    /\ UNCHANGED <<by, core, pm, queueStopped, hw, mdio_registered, rings,
                   lost, irqs, txtimer, busy>>

(* init_dma_desc_rings does not look at what the pointers held before.     *)
OpenRings ==
    /\ pc = "rings"
    /\ rings' = "live"
    /\ lost' = (lost \/ rings = "live")
    /\ pc' = After[pc]
    /\ UNCHANGED <<by, core, pm, queueStopped, hw, mdio_registered, phydev,
                   irqs, txtimer, busy>>

(* The software reset of the DMA.                                          *)
OpenDma ==
    /\ pc = "dma"
    /\ pc' = After[pc]
    /\ UNCHANGED <<by, core, pm, queueStopped, hw, mdio_registered, phydev,
                   rings, lost, irqs, txtimer, busy>>

(* request_irq for the line of this step, if the board has it.             *)
OpenIrq ==
    /\ pc \in AllLines
    /\ IsSet(pc)
    /\ irqs' = irqs \cup ({pc} \cap Requests)
    /\ pc' = After[pc]
    /\ UNCHANGED <<by, core, pm, queueStopped, hw, mdio_registered, phydev,
                   rings, lost, txtimer, busy>>

OpenStart ==
    /\ pc = "start"
    /\ dmaOn' = TRUE
    /\ pc' = After[pc]
    /\ UNCHANGED <<by, core, pm, queueStopped, clk, phyPower,
                   mdio_registered, phydev, rings, lost, irqs, txtimer, busy>>

(* The timer and the queue; on return the core activates the device.       *)
OpenUp ==
    /\ pc = "up"
    /\ txtimer' = TRUE
    /\ queueStopped' = FALSE
    /\ active' = TRUE
    /\ frozen' = "no"
    /\ pc' = "idle" /\ by' = "core"
    /\ UNCHANGED <<drv, running, attached, suspended, wake, hw,
                   mdio_registered, phydev, rings, lost, irqs, busy>>

(* A step fails.  A bus that is registered is not registered again, a line *)
(* the board does not have is not requested; the number 0 of a line that   *)
(* is not set is requested, and refused.                                   *)
OpenFails ==
    /\ \/ pc \in Failing
       \/ pc \in AllLines /\ ~IsSet(pc)
    /\ pc = "mdio" => ~mdio_registered
    /\ pc \in AllLines => pc \in Requests \/ ~IsSet(pc)
    /\ pc' = "undo"
    /\ UNCHANGED <<by, core, pm, queueStopped, hw, mdio_registered, phydev,
                   rings, lost, irqs, txtimer, busy>>

(* open_error_lpiirq, open_error_wolirq: free_irq waits for the handler.   *)
UndoIrq(l) ==
    /\ pc = "undo"
    /\ l \in irqs \ busy
    /\ l = "mac" => irqs = {"mac"}
    /\ irqs' = irqs \ {l}
    /\ UNCHANGED <<pc, by, core, pm, queueStopped, hw, mdio_registered,
                   phydev, rings, lost, txtimer, busy>>

(* MUTANT: the core is not told that the device is down.                   *)
UndoRestRuns ==
    /\ pc = "undo"
    /\ irqs = {}
    /\ phydev' = IF phydev = "none" THEN "none" ELSE "stale"
    /\ clk' = FALSE
    /\ frozen' = IF by = "pm" THEN "failed" ELSE "no"
    /\ pc' = "idle" /\ by' = "core"
    /\ UNCHANGED <<core, suspended, wake, queueStopped, phyPower, dmaOn,
                   mdio_registered, rings, lost, irqs, txtimer, busy>>

(* MUTANT: the clock stays on.                                             *)
UndoRestClocked ==
    /\ pc = "undo"
    /\ irqs = {}
    /\ phydev' = IF phydev = "none" THEN "none" ELSE "stale"
    /\ running' = (by = "pm")
    /\ frozen' = IF by = "pm" THEN "failed" ELSE "no"
    /\ pc' = "idle" /\ by' = "core"
    /\ UNCHANGED <<drv, active, attached, suspended, wake,
                   queueStopped, hw, mdio_registered, rings, lost, irqs,
                   txtimer, busy>>

(* open_error: the PHY is disconnected and kept, the clock turned off, the *)
(* power of the PHY and the rings left as they are.                        *)
UndoRest ==
    /\ pc = "undo"
    /\ irqs = {}
    /\ phydev' = IF phydev = "none" THEN "none" ELSE "stale"
    /\ clk' = FALSE
    /\ running' = (by = "pm")
    /\ frozen' = IF by = "pm" THEN "failed" ELSE "no"
    /\ pc' = "idle" /\ by' = "core"
    /\ UNCHANGED <<drv, active, attached, suspended, wake,
                   queueStopped, phyPower, dmaOn, mdio_registered, rings,
                   lost, irqs, txtimer, busy>>

OpenStep == OpenPower \/ OpenMdio \/ OpenPhy \/ OpenRings \/ OpenDma
            \/ OpenIrq \/ OpenStart \/ OpenUp \/ OpenFails
            \/ (\E l \in AllLines : UndoIrq(l)) \/ UndoRest

-----------------------------------------------------------------------------
(* stmmac_release.                                                         *)

(* The core takes the device out of use, waits for stmmac_xmit, and calls. *)
Close ==
    /\ pc = "idle" /\ running /\ frozen # "yes" /\ ~suspended
    /\ "xmit" \notin busy
    /\ running' = FALSE /\ active' = FALSE
    /\ pc' = "close" /\ by' = "core"
    /\ UNCHANGED <<drv, attached, pm, queueStopped, hw, mdio_registered,
                   phydev, rings, lost, irqs, txtimer, busy>>

Freeze ==
    /\ pc = "idle" /\ probe = "done" /\ remove = "no"
    /\ running /\ frozen # "yes" /\ ~suspended
    /\ pc' = "close" /\ by' = "pm"
    /\ UNCHANGED <<core, pm, queueStopped, hw, mdio_registered, phydev,
                   rings, lost, irqs, txtimer, busy>>

(* stmmac_dvr_remove stops the hardware and unregisters the bus, whatever  *)
(* runs on the device meanwhile ...                                        *)
Remove ==
    /\ present /\ probe = "done" /\ remove = "no"
    /\ by # "pm" /\ frozen # "yes" /\ ~suspended
    /\ dmaOn' = FALSE
    /\ mdio_registered' = FALSE
    /\ remove' = "hw"
    /\ UNCHANGED <<pc, by, present, probe, running, active, attached, pm,
                   queueStopped, clk, phyPower, phydev, rings, lost, irqs,
                   txtimer, busy>>

(* ... then unregister_netdev closes the device if it is running,          *)
RemoveClose ==
    /\ pc = "idle" /\ remove = "hw"
    /\ "xmit" \notin busy
    /\ remove' = "net"
    /\ running' = FALSE /\ active' = FALSE
    /\ pc' = IF running THEN "close" ELSE pc
    /\ UNCHANGED <<by, present, probe, attached, pm, queueStopped, hw,
                   mdio_registered, phydev, rings, lost, irqs, txtimer, busy>>

(* ... and free_netdev frees priv and the last pointer to its rings.       *)
RemoveDone ==
    /\ pc = "idle" /\ remove = "net"
    /\ present' = FALSE
    /\ remove' = "no"
    /\ UNCHANGED <<pc, by, probe, running, active, attached, pm,
                   queueStopped, hw, mdio_registered, phydev, rings, lost,
                   irqs, txtimer, busy>>

(* stmmac_dvr_probe: a new, zeroed priv, and register_netdev.              *)
Probe ==
    /\ pc = "idle" /\ ~present
    /\ present' = TRUE /\ probe' = "mdio"
    /\ mdio_registered' = FALSE
    /\ phydev' = "none"
    /\ lost' = (lost \/ rings = "live")
    /\ rings' = "none"
    /\ attached' = TRUE /\ queueStopped' = TRUE
    /\ UNCHANGED <<pc, by, remove, running, active, pm, hw, irqs, txtimer,
                   busy>>

(* The rest of the probe, beside an open or close of the device: it        *)
(* forgets a bus that was registered meanwhile, chooses clk_csr, and reads *)
(* the interrupt lines.                                                    *)
ProbeMdio ==
    /\ probe = "mdio"
    /\ mdio_registered' = FALSE
    /\ probe' = ProbeAfter[probe]
    /\ UNCHANGED <<pc, by, present, remove, running, active, attached, pm,
                   queueStopped, hw, phydev, rings, lost, irqs, txtimer, busy>>

ProbeCsr ==
    /\ probe = "csr"
    /\ probe' = ProbeAfter[probe]
    /\ UNCHANGED <<pc, by, present, remove, running, active, attached, pm,
                   queueStopped, hw, mdio_registered, phydev, rings, lost,
                   irqs, txtimer, busy>>

ProbeLine ==
    /\ probe \in AllLines
    /\ probe' = ProbeAfter[probe]
    /\ UNCHANGED <<pc, by, present, remove, running, active, attached, pm,
                   queueStopped, hw, mdio_registered, phydev, rings, lost,
                   irqs, txtimer, busy>>

ProbeStep == Probe \/ ProbeMdio \/ ProbeCsr \/ ProbeLine

ClosePhy ==
    /\ pc = "close"
    /\ phydev' = "none"
    /\ queueStopped' = TRUE
    /\ pc' = "timer"
    /\ UNCHANGED <<by, core, pm, hw, mdio_registered, rings, lost, irqs,
                   txtimer, busy>>

(* MUTANT: del_timer, which does not wait for the handler.                 *)
CloseTimerNoSync ==
    /\ pc = "timer"
    /\ txtimer' = FALSE
    /\ pc' = "irq"
    /\ UNCHANGED <<by, core, pm, queueStopped, hw, mdio_registered, phydev,
                   rings, lost, irqs, busy>>

(* del_timer_sync.                                                         *)
CloseTimer ==
    /\ pc = "timer"
    /\ "timer" \notin busy
    /\ txtimer' = FALSE
    /\ pc' = "irq"
    /\ UNCHANGED <<by, core, pm, queueStopped, hw, mdio_registered, phydev,
                   rings, lost, irqs, busy>>

(* MUTANT: the wake-up and LPI lines are not freed.                        *)
CloseIrqMac ==
    /\ pc = "irq"
    /\ "mac" \notin busy
    /\ irqs' = irqs \ {"mac"}
    /\ pc' = "dmaoff"
    /\ UNCHANGED <<by, core, pm, queueStopped, hw, mdio_registered, phydev,
                   rings, lost, txtimer, busy>>

(* free_irq of the lines in turn, each once its handler has returned.      *)
CloseIrq ==
    /\ pc = "irq"
    /\ IF irqs = {} THEN pc' = "dmaoff" /\ UNCHANGED irqs
       ELSE LET l == CHOOSE k \in irqs :
                        /\ k = "wol" => "mac" \notin irqs
                        /\ k = "lpi" => irqs = {"lpi"} IN
            l \notin busy /\ irqs' = irqs \ {l} /\ UNCHANGED pc
    /\ UNCHANGED <<by, core, pm, queueStopped, hw, mdio_registered, phydev,
                   rings, lost, txtimer, busy>>

CloseDma ==
    /\ pc = "dmaoff"
    /\ dmaOn' = FALSE
    /\ pc' = "free"
    /\ UNCHANGED <<by, core, pm, queueStopped, clk, phyPower,
                   mdio_registered, phydev, rings, lost, irqs, txtimer, busy>>

(* free_dma_desc_resources; the pointers keep their values.                *)
CloseRings ==
    /\ pc = "free"
    /\ rings' = "freed"
    /\ pc' = "off"
    /\ UNCHANGED <<by, core, pm, queueStopped, hw, mdio_registered, phydev,
                   lost, irqs, txtimer, busy>>

CloseOff ==
    /\ pc = "off"
    /\ clk' = FALSE /\ phyPower' = FALSE
    /\ frozen' = IF by = "pm" THEN "yes" ELSE "no"
    /\ pc' = "idle" /\ by' = "core"
    /\ UNCHANGED <<core, suspended, wake, queueStopped, dmaOn,
                   mdio_registered, phydev, rings, lost, irqs, txtimer, busy>>

CloseStep == RemoveClose \/ RemoveDone \/ ClosePhy \/ CloseTimer \/ CloseIrq
             \/ CloseDma \/ CloseRings \/ CloseOff

-----------------------------------------------------------------------------
(* stmmac_suspend and stmmac_resume of a running device.                   *)

Suspend(w) ==
    /\ pc = "idle" /\ probe = "done" /\ remove = "no"
    /\ running /\ frozen # "yes" /\ ~suspended
    /\ suspended' = TRUE /\ wake' = w
    /\ attached' = FALSE /\ queueStopped' = TRUE
    /\ dmaOn' = FALSE
    /\ clk' = (clk /\ w) /\ phyPower' = (phyPower /\ w)
    /\ UNCHANGED <<pc, by, drv, running, active, frozen,
                   mdio_registered, phydev, rings, lost, irqs, txtimer, busy>>

Resume ==
    /\ pc = "idle" /\ suspended
    /\ suspended' = FALSE /\ wake' = FALSE
    /\ attached' = TRUE /\ queueStopped' = FALSE
    /\ dmaOn' = TRUE
    /\ clk' = (clk \/ ~wake) /\ phyPower' = (phyPower \/ ~wake)
    /\ UNCHANGED <<pc, by, drv, running, active, frozen,
                   mdio_registered, phydev, rings, lost, irqs, txtimer, busy>>

-----------------------------------------------------------------------------
(* The users of the rings.                                                 *)

(* The handler of a requested line; the lines may be shared with other     *)
(* devices, so it may be called at any time.                               *)
IrqEnter(l) ==
    /\ l \in irqs \ busy
    /\ busy' = busy \cup {l}
    /\ UNCHANGED <<pc, by, core, pm, queueStopped, hw, mdio_registered,
                   phydev, rings, lost, irqs, txtimer>>

TimerFires ==
    /\ txtimer
    /\ "timer" \notin busy
    /\ txtimer' = FALSE
    /\ busy' = busy \cup {"timer"}
    /\ UNCHANGED <<pc, by, core, pm, queueStopped, hw, mdio_registered,
                   phydev, rings, lost, irqs>>

(* The end of tx_clean in a handler or the timer: it may wake the queue.   *)
CleanDone(c) ==
    /\ c \in busy \ {"xmit"}
    /\ busy' = busy \ {c}
    /\ queueStopped' \in {queueStopped, FALSE}
    /\ UNCHANGED <<pc, by, core, pm, hw, mdio_registered, phydev, rings,
                   lost, irqs, txtimer>>

XmitEnter ==
    /\ active /\ attached /\ ~queueStopped
    /\ "xmit" \notin busy
    /\ busy' = busy \cup {"xmit"}
    /\ UNCHANGED <<pc, by, core, pm, queueStopped, hw, mdio_registered,
                   phydev, rings, lost, irqs, txtimer>>

(* The frame is queued: the queue may be stopped, the timer started.       *)
XmitDone ==
    /\ "xmit" \in busy
    /\ busy' = busy \ {"xmit"}
    /\ queueStopped' \in {queueStopped, TRUE}
    /\ txtimer' \in {txtimer, TRUE}
    /\ UNCHANGED <<pc, by, core, pm, hw, mdio_registered, phydev, rings,
                   lost, irqs>>

-----------------------------------------------------------------------------
Next ==
    \/ Open \/ Restore \/ OpenStep
    \/ Close \/ Freeze \/ Remove \/ CloseStep \/ ProbeStep
    \/ (\E w \in BOOLEAN : Suspend(w)) \/ Resume
    \/ (\E l \in AllLines : IrqEnter(l)) \/ TimerFires
    \/ (\E c \in Contexts : CleanDone(c))
    \/ XmitEnter \/ XmitDone

Spec == Init /\ [][Next]_vars

-----------------------------------------------------------------------------
(* Type invariant.                                                         *)
TypeOK ==
    /\ pc \in OpenSteps \cup CloseSteps \cup {"idle", "undo"}
    /\ by \in {"core", "pm"}
    /\ present \in BOOLEAN /\ remove \in {"no", "hw", "net"}
    /\ probe \in {"mdio", "csr", "mac", "wol", "lpi", "done"}
    /\ running \in BOOLEAN /\ active \in BOOLEAN
    /\ frozen \in {"no", "yes", "failed"}
    /\ suspended \in BOOLEAN /\ wake \in BOOLEAN
    /\ attached \in BOOLEAN /\ queueStopped \in BOOLEAN
    /\ clk \in BOOLEAN /\ phyPower \in BOOLEAN /\ dmaOn \in BOOLEAN
    /\ mdio_registered \in BOOLEAN
    /\ lost \in BOOLEAN /\ txtimer \in BOOLEAN
    /\ phydev \in {"none", "attached", "stale"}
    /\ rings \in {"none", "live", "freed"}
    /\ irqs \subseteq AllLines
    /\ busy \subseteq Contexts

(* No handler, timer or stmmac_xmit works on rings that are not there yet  *)
(* or not there any more, however its run overlaps stmmac_open, a failed   *)
(* open, stmmac_release, a removal or a probe.  The exception begins with  *)
(* stmmac_freeze, which does not stop the stack, and ends when the device  *)
(* is opened again.                                                        *)
RingsLive == busy # {} /\ frozen = "no" /\ by # "pm" => rings = "live"

(* An interrupt handler finds the rings in that time too, since free_irq   *)
(* waits for it and all paths free the lines before the rings.             *)
HandlersOnRings == busy \cap AllLines # {} => rings = "live"

(* stmmac_release frees only rings that an stmmac_open has made since the  *)
(* last release, unless a restore has failed: then the device is running   *)
(* without having been opened.                                             *)
FreedOnce == pc = "free" => rings = "live" \/ frozen = "failed"

(* A handler, which reads and writes the registers of the DMA, runs only   *)
(* with the clock of the device on, outside of a suspend.                  *)
HandlersClocked == busy \cap AllLines # {} /\ ~suspended => clk

(* A device that is not running and on which no operation runs holds no    *)
(* line, timer or clock, and no context is at work on it, wherever the     *)
(* last open has failed.  The rings are another matter: see below.         *)
ClosedHoldsNothing ==
    pc = "idle" /\ ~running =>
      /\ irqs = {} /\ ~txtimer /\ ~clk /\ ~dmaOn
      /\ busy = {}

(* A removed driver has released its descriptor rings ("releases the DMA   *)
(* descriptor rings").                                                     *)
RemoveReleasesRings == ~present => rings # "live" /\ ~lost

=============================================================================
