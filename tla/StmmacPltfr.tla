----------------------------- MODULE StmmacPltfr -----------------------------
(***************************************************************************)
(* The board under the network device: stmmac_platform.c (clocks, power    *)
(* and reset of the PHY, interface and speed selection in the GRF) and the *)
(* link handling of stmmac_main.c (stmmac_init_phy, stmmac_adjust_link),   *)
(* composed with the life cycle of NetDev.  Every action here is an action *)
(* of NetDev together with what it does to the board, or a step of         *)
(* stmmac_adjust_link, which the PHY library calls from a work queue.      *)
(*                                                                         *)
(* Boards are described by a device tree, and dev_get_platdata returns     *)
(* NULL on them.  stmmac_pltfr_freeze runs all of stmmac_freeze before it  *)
(* dereferences that NULL; the task that freezes the devices dies there,   *)
(* with the device locked and the other tasks frozen, while interrupts     *)
(* and the stack go on.  No restore gets as far as the device.  EEE is     *)
(* off.                                                                    *)
(***************************************************************************)
EXTENDS NetDev, Integers

CONSTANTS
    Boards,     \* what the device tree and the clock tree say
    LinkModes,  \* the speeds and duplex modes a link may come up with
    BootRate    \* rate of clk_mac before the driver is loaded

RmiiClocks == {"mac_clk_rx", "clk_mac_ref", "clk_mac_refout"}
MacClocks  == {"aclk_mac", "pclk_mac", "mac_clk_tx", "clk_mac"}
Clocks     == RmiiClocks \cup MacClocks

Mode  == [speed : {10, 100, 1000}, duplex : {"half", "full"}]

(* A board that names pmu_enable_level also names pmu_regulator, no other  *)
(* device uses that regulator, clk_mac exists, and its parent's rate is    *)
(* within the range of stmmac_clk_csr_set.                                 *)
Rates == {r \in Nat : 0 < r /\ r < 300000000}
Board == [pmu : BOOLEAN, grf : BOOLEAN, iface : {"rgmii", "rmii"},
          have : {H \in SUBSET Clocks : "clk_mac" \in H}, rate : Rates]

ASSUME StmmacPltfrAssumption ==
    /\ Boards \subseteq Board
    /\ LinkModes \subseteq Mode
    /\ BootRate \in Nat

VARIABLES
    board,       \* the board the driver runs on
    clk_enable,  \* the flag of gmac_clk_enable
    count,       \* enable count of each clock
    rate,        \* rate of clk_mac
    clk_csr,     \* range of the MDC divider
    supply,      \* use count of the regulator of the PHY
    power_io, reset_io, \* the PHY's power and reset pins are active
    grf,         \* interface and speed selected in the GRF
    mac,         \* MAC_CTRL: transmitter and receiver, speed and duplex bits
    link,        \* oldlink, speed and oldduplex of priv
    machine,     \* PHY state machine: "off", "up", "halted"
    adj          \* stmmac_adjust_link between its read and write of MAC_CTRL

clkVars   == <<clk_enable, count>>
powerVars == <<supply, power_io, reset_io>>
fixed     == <<board, rate, clk_csr>>
macVars   == <<grf, mac, link, machine, adj>>
pvars     == <<fixed, clkVars, powerVars, macVars>>

-----------------------------------------------------------------------------
(* Clocks.                                                                 *)

Used(b) == b.have \ (IF b.iface = "rmii" THEN {} ELSE RmiiClocks)

(* clk_set_rate and clk_set_parent of gmac_clk_init.                       *)
ParentRate(b) == IF b.iface = "rmii" THEN 50000000 ELSE b.rate

(* gmac_clk_enable: nothing if the flag says that it is done.              *)
GmacClkEnable(on) ==
    /\ clk_enable' = on
    /\ count' = [c \in Clocks |->
                    IF c \in Used(board) /\ on # clk_enable
                    THEN count[c] + (IF on THEN 1 ELSE -1) ELSE count[c]]

(* What the MAC divides clk_mac by to make MDC, in the range chosen by     *)
(* stmmac_clk_csr_set; from 300 MHz on the field keeps its value in a new  *)
(* priv, zero, and zero means 42.                                          *)
UnsetClkCsr == 42

ClkCsr(r) ==
    IF r < 35000000 THEN 16
    ELSE IF r < 60000000 THEN 26
    ELSE IF r < 100000000 THEN 42
    ELSE IF r < 150000000 THEN 62
    ELSE IF r < 250000000 THEN 102
    ELSE IF r < 300000000 THEN 122
    ELSE UnsetClkCsr

-----------------------------------------------------------------------------
(* Power of the PHY.                                                       *)

Powered == IF board.pmu THEN supply > 0 ELSE power_io

(* MUTANT: without the question whether the regulator is on already.       *)
PowerOnByPmuAlways(on) ==
    supply' = IF on THEN supply + 1
              ELSE IF supply > 0 THEN supply - 1 ELSE supply

(* power_on_by_pmu: regulator_is_enabled is asked first.                   *)
PowerOnByPmu(on) ==
    supply' = IF on /\ supply = 0 THEN supply + 1
              ELSE IF ~on /\ supply > 0 THEN supply - 1 ELSE supply

(* phy_power_on: on, it pulses the reset; off, it leaves the PHY in reset. *)
PhyPowerOn(on) ==
    /\ IF board.pmu THEN PowerOnByPmu(on) /\ UNCHANGED power_io
                    ELSE power_io' = on /\ UNCHANGED supply
    /\ reset_io' = ~on

-----------------------------------------------------------------------------
(* Speed selection and the link.                                           *)

NoLink  == [oldlink |-> FALSE, speed |-> 0, oldduplex |-> "none"]
Down    == [up |-> FALSE, speed |-> 10, duplex |-> "half"]
(* The MAC after the software reset of the DMA and core_init.              *)
ResetMac == [on |-> FALSE, speed |-> 10, duplex |-> "half"]
(* stmmac_set_mac.                                                         *)
SetMac(on) == mac' = [mac EXCEPT !.on = on]

NoAdjust == [run |-> FALSE, status |-> Down, ctrl |-> ResetMac]

(* stmmac_init_phy does not advertise 1000 Mbit/s on RMII.                 *)
Statuses == {Down} \cup {[up |-> TRUE, speed |-> m.speed, duplex |-> m.duplex] :
                m \in {k \in LinkModes : board.iface = "rmii" => k.speed # 1000}}

(* The SET_ functions write the GRF of the RK3288 only.                    *)
SetInterface(i) == IF board.grf THEN [grf EXCEPT !.iface = i] ELSE grf
SetSpeed(s)     == IF board.grf THEN [grf EXCEPT !.speed = s] ELSE grf

(* stmmc_pltfr_fix_mac_speed: RMII has no 1000 Mbit/s.                     *)
FixMacSpeed(s) ==
    IF board.iface = "rmii" /\ s = 1000 THEN grf ELSE SetSpeed(s)

(* The PHY state machine has read a new status s and calls                 *)
(* stmmac_adjust_link, which reads MAC_CTRL if the link is up.  A machine  *)
(* that phy_stop has halted reports the link down.                         *)
AdjustRead(s) ==
    /\ machine \in {"up", "halted"}
    /\ machine = "halted" => s = Down
    /\ ~adj.run
    /\ s \in Statuses
    /\ adj' = [run |-> TRUE, status |-> s, ctrl |-> mac]
    /\ UNCHANGED <<vars, fixed, clkVars, powerVars, grf, mac, link, machine>>

(* The rest of stmmac_adjust_link: bits are changed in the copy of         *)
(* MAC_CTRL where the status differs from what the driver remembers, and   *)
(* the copy is written back.                                               *)
AdjustUp ==
    LET s == adj.status IN
    /\ adj.run /\ s.up
    /\ mac' = [adj.ctrl EXCEPT
                 !.duplex = IF s.duplex # link.oldduplex THEN s.duplex ELSE @,
                 !.speed  = IF s.speed # link.speed THEN s.speed ELSE @]
    /\ grf' = IF s.speed # link.speed THEN FixMacSpeed(s.speed) ELSE grf
    /\ link' = [oldlink |-> TRUE, speed |-> s.speed, oldduplex |-> s.duplex]
    /\ adj' = NoAdjust
    /\ UNCHANGED <<vars, fixed, clkVars, powerVars, machine>>

AdjustDown ==
    /\ adj.run /\ ~adj.status.up
    /\ link' = IF link.oldlink THEN NoLink ELSE link
    /\ adj' = NoAdjust
    /\ UNCHANGED <<vars, fixed, clkVars, powerVars, grf, mac, machine>>

-----------------------------------------------------------------------------
(* stmmac_open and stmmac_release on the board.                            *)

PltfrOpenPower ==
    /\ OpenPower
    /\ PhyPowerOn(TRUE) /\ GmacClkEnable(TRUE)
    /\ UNCHANGED <<fixed, macVars>>

(* MUTANT: priv->speed is kept from the last connection.                   *)
PltfrOpenPhyKeepsSpeed ==
    /\ OpenPhy
    /\ link' = [NoLink EXCEPT !.speed = link.speed]
    /\ UNCHANGED <<fixed, clkVars, powerVars, grf, mac, machine, adj>>

(* stmmac_init_phy forgets the last link.                                  *)
PltfrOpenPhy ==
    /\ OpenPhy
    /\ link' = NoLink
    /\ UNCHANGED <<fixed, clkVars, powerVars, grf, mac, machine, adj>>

(* The software reset of the DMA resets the MAC too; then core_init.       *)
PltfrOpenDma ==
    /\ OpenDma
    /\ mac' = ResetMac
    /\ UNCHANGED <<fixed, clkVars, powerVars, grf, link, machine, adj>>

(* stmmac_set_mac(true), then phy_start.                                   *)
PltfrOpenStart ==
    /\ OpenStart
    /\ SetMac(TRUE)
    /\ machine' = "up"
    /\ UNCHANGED <<fixed, clkVars, powerVars, grf, link, adj>>

PltfrOpenFails ==
    /\ OpenFails
    /\ link' = IF pc = "phy" THEN NoLink ELSE link
    /\ UNCHANGED <<fixed, clkVars, powerVars, grf, mac, machine, adj>>

(* MUTANT: open_error leaves the clocks on.                                *)
PltfrUndoRestClocked ==
    /\ UndoRest
    /\ UNCHANGED pvars

(* open_error turns the clocks off and leaves the PHY powered.             *)
PltfrUndoRest ==
    /\ UndoRest
    /\ GmacClkEnable(FALSE)
    /\ UNCHANGED <<fixed, powerVars, macVars>>

(* MUTANT: the PHY is disconnected without waiting for its state machine.  *)
PltfrClosePhyNoWait ==
    /\ ClosePhy
    /\ machine' = "off"
    /\ UNCHANGED <<fixed, clkVars, powerVars, grf, mac, link, adj>>

(* phy_stop and phy_disconnect wait for a running stmmac_adjust_link.      *)
PltfrClosePhy ==
    /\ ClosePhy
    /\ ~adj.run
    /\ machine' = "off"
    /\ UNCHANGED <<fixed, clkVars, powerVars, grf, mac, link, adj>>

(* MUTANT: stmmac_release does not turn the MAC off.                       *)
PltfrCloseOffMacOn ==
    /\ CloseOff
    /\ PhyPowerOn(FALSE) /\ GmacClkEnable(FALSE)
    /\ UNCHANGED <<fixed, macVars>>

(* stmmac_set_mac(false), the power of the PHY and the clocks off.         *)
PltfrCloseOff ==
    /\ CloseOff
    /\ SetMac(FALSE)
    /\ PhyPowerOn(FALSE) /\ GmacClkEnable(FALSE)
    /\ UNCHANGED <<fixed, grf, link, machine, adj>>

-----------------------------------------------------------------------------
(* Suspend and resume, removal and probe.                                  *)

(* MUTANT: stmmac_suspend does not stop the PHY.                           *)
PltfrSuspendPhyRuns(w) ==
    /\ Suspend(w)
    /\ ~adj.run
    /\ IF w THEN UNCHANGED <<clkVars, powerVars, mac>>
       ELSE /\ SetMac(FALSE)
            /\ GmacClkEnable(FALSE) /\ PhyPowerOn(FALSE)
    /\ UNCHANGED <<fixed, grf, link, machine, adj>>

(* phy_stop waits for stmmac_adjust_link; priv->lock keeps it out after.   *)
PltfrSuspend(w) ==
    /\ Suspend(w)
    /\ ~adj.run
    /\ machine' = "halted"
    /\ IF w THEN UNCHANGED <<clkVars, powerVars, mac>>
       ELSE /\ SetMac(FALSE)
            /\ GmacClkEnable(FALSE) /\ PhyPowerOn(FALSE)
    /\ UNCHANGED <<fixed, grf, link, adj>>

PltfrResume ==
    /\ Resume
    /\ ~adj.run
    /\ IF wake THEN UNCHANGED <<clkVars, powerVars>>
       ELSE GmacClkEnable(TRUE) /\ PhyPowerOn(TRUE)
    /\ SetMac(TRUE)
    /\ machine' = "up"
    /\ UNCHANGED <<fixed, grf, link, adj>>

(* stmmac_dvr_remove turns the MAC off without priv->lock, while the       *)
(* device may be up, opening or closing.                                   *)
PltfrRemove ==
    /\ Remove
    /\ SetMac(FALSE)
    /\ UNCHANGED <<fixed, clkVars, powerVars, grf, link, machine, adj>>

(* stmmc_pltfr_init: the pins are requested, at a second probe in vain but *)
(* without consequence, and the interface is selected.                     *)
StmmcPltfrInit == grf' = SetInterface(board.iface)

(* gmac_clk_init: the flag is cleared, the enable counts are not.          *)
GmacClkInit == /\ clk_enable' = FALSE
               /\ rate' = ParentRate(board)
               /\ UNCHANGED count

(* stmmac_pltfr_probe up to register_netdev; the priv is new.              *)
PltfrProbe ==
    /\ Probe
    /\ StmmcPltfrInit /\ GmacClkInit
    /\ clk_csr' = UnsetClkCsr
    /\ link' = NoLink
    /\ UNCHANGED <<board, powerVars, mac, machine, adj>>

(* MUTANT: stmmac_dvr_probe is called before gmac_clk_init.                *)
PltfrProbeCsrEarly ==
    /\ ProbeCsr
    /\ clk_csr' = ClkCsr(BootRate)
    /\ UNCHANGED <<board, rate, clkVars, powerVars, macVars>>

(* stmmac_clk and clk_csr; the device may be open by now.                  *)
PltfrProbeCsr ==
    /\ ProbeCsr
    /\ clk_csr' = ClkCsr(rate)
    /\ UNCHANGED <<board, rate, clkVars, powerVars, macVars>>

(* After the release stmmac_pltfr_freeze dereferences NULL: no operation   *)
(* on the device runs any more.                                            *)
Halted == frozen = "yes" /\ UNCHANGED <<vars, pvars>>

(* The steps of NetDev that leave the board alone.                         *)
Elsewhere ==
    /\ \/ Open \/ OpenMdio \/ OpenRings \/ OpenIrq \/ OpenUp
       \/ (\E l \in AllLines : UndoIrq(l))
       \/ Close \/ Freeze \/ RemoveClose \/ RemoveDone
       \/ ProbeMdio \/ ProbeLine
       \/ CloseTimer \/ CloseIrq \/ CloseDma \/ CloseRings
       \/ (\E l \in AllLines : IrqEnter(l)) \/ TimerFires
       \/ (\E c \in Contexts : CleanDone(c))
       \/ XmitEnter \/ XmitDone
    /\ UNCHANGED pvars

-----------------------------------------------------------------------------
PltfrInit ==
    /\ Init
    /\ board \in Boards
    /\ clk_enable = FALSE /\ count = [c \in Clocks |-> 0]
    /\ rate = BootRate /\ clk_csr = UnsetClkCsr
    /\ supply = 0 /\ power_io = FALSE /\ reset_io = FALSE
    /\ grf = [iface |-> "none", speed |-> 0]
    /\ mac = ResetMac
    /\ link = NoLink
    /\ machine = "off"
    /\ adj = NoAdjust

PltfrNext ==
    \/ PltfrOpenPower \/ PltfrOpenPhy \/ PltfrOpenDma \/ PltfrOpenStart
    \/ PltfrOpenFails \/ PltfrUndoRest
    \/ PltfrClosePhy \/ PltfrCloseOff
    \/ (\E w \in BOOLEAN : PltfrSuspend(w)) \/ PltfrResume
    \/ PltfrRemove \/ PltfrProbe \/ PltfrProbeCsr \/ Halted
    \/ (\E s \in Statuses : AdjustRead(s)) \/ AdjustUp \/ AdjustDown
    \/ Elsewhere

PltfrSpec == PltfrInit /\ [][PltfrNext]_<<vars, pvars>>

-----------------------------------------------------------------------------
(* Type invariant.                                                         *)
PltfrTypeOK ==
    /\ TypeOK
    /\ board \in Boards
    /\ clk_enable \in BOOLEAN /\ count \in [Clocks -> Int]
    /\ rate \in Nat /\ clk_csr \in Nat /\ supply \in Nat
    /\ power_io \in BOOLEAN /\ reset_io \in BOOLEAN
    /\ grf \in [iface : {"none", "rgmii", "rmii"}, speed : {0, 10, 100, 1000}]
    /\ mac \in [on : BOOLEAN, speed : {10, 100, 1000}, duplex : {"half", "full"}]
    /\ link \in [oldlink : BOOLEAN, speed : {0, 10, 100, 1000},
                 oldduplex : {"none", "half", "full"}]
    /\ machine \in {"off", "up", "halted"}
    /\ adj \in [run : BOOLEAN, status : Statuses,
                ctrl : [on : BOOLEAN, speed : {10, 100, 1000},
                        duplex : {"half", "full"}]]

(* However opens, failed opens, closes, suspends, removals and new probes  *)
(* (which clear the flag of gmac_clk_enable) follow each other, a clock    *)
(* that the board uses is enabled once while the flag is set and not at    *)
(* all while it is not.                                                    *)
ClocksPaired ==
    \A c \in Clocks :
        count[c] = IF clk_enable /\ c \in Used(board) THEN 1 ELSE 0

(* stmmac_adjust_link, which reads and writes MAC_CTRL when the link is    *)
(* up, runs only with the clocks on, from its read to its write.           *)
AdjustClocked == adj.run /\ adj.status.up => clk_enable

(* The PHY state machine polls the PHY only while it is powered and out of *)
(* reset.                                                                  *)
PhyAwake == machine = "up" => Powered /\ ~reset_io

(* While the driver believes the link to be up and the MAC is on, the MAC, *)
(* the GRF (on a chip that has the register) and priv agree on the speed   *)
(* and the duplex mode, and a 1000 Mbit/s link is not on RMII.             *)
SpeedAgrees ==
    link.oldlink /\ mac.on =>
        /\ mac.speed = link.speed /\ mac.duplex = link.oldduplex
        /\ board.grf => grf = [iface |-> board.iface, speed |-> link.speed]

(* A removed driver leaves the transmitter and receiver of the MAC off     *)
(* ("disables the MAC RX/TX"), although stmmac_adjust_link may write back  *)
(* a copy of MAC_CTRL that it read before.                                 *)
RemoveStopsMac == ~present => ~mac.on

(* From the choice of clk_csr to the removal MDC stays within the 2.5 MHz  *)
(* of IEEE 802.3, also where gmac_clk_init gives clk_mac another parent.   *)
(* An open that begins between register_netdev and that choice still runs  *)
(* MDC from a clk_csr of zero, which is too fast above 105 MHz.            *)
MdcWithinLimit ==
    present /\ probe \notin {"mdio", "csr"} => rate <= 2500000 * clk_csr

(* A close, and a suspend without wake-up, take the power from the PHY,    *)
(* whatever failed opens came before.                                      *)
PowerCut ==
    [][ (pc = "off" /\ pc' # "off") \/ (~suspended /\ suspended' /\ ~wake')
            => ~Powered' ]_<<vars, pvars>>

=============================================================================
