------------------------------- MODULE CharNet -------------------------------
(***************************************************************************)
(* The module char_net.ko: the character device (char_dev_create.c), the   *)
(* platform driver and its probe (char_net_platform.c), clocks and power   *)
(* of the GMAC (gmac_ctrl.c), net_open (net_ctrl.c) and the registration   *)
(* of the MDIO bus (phy_ctrl.c), whose accesses are those of Mdio.         *)
(*                                                                         *)
(* The module is loaded, unloaded and loaded again, the driver unbound     *)
(* from the device and bound again, and the device file opened and closed, *)
(* in every order the kernel allows.  The bus is used by the scan of       *)
(* mdiobus_register and by other parts of the kernel, at any time from     *)
(* then on: nothing unregisters it, nothing waits for an access to end.    *)
(* An access without its registers or its code ends the behaviour.         *)
(***************************************************************************)
EXTENDS Mdio, FiniteSets

CONSTANTS
    Addrs,       \* the addresses of the bus that are scanned
    NoPhy, PhyId, \* the ID register of an address without and with a PHY
    Failing,     \* what may fail
    MaxFiles,    \* bound: open files
    MaxEnables   \* bound: enables of a clock are counted up to here

ASSUME CharNetAssumption ==
    /\ Addrs \subseteq Nat /\ IsFiniteSet(Addrs) /\ 0 \in Addrs
    /\ Regs = [addr : Addrs, reg : {"id", "ctl"}]
    /\ {NoPhy, PhyId} \subseteq Values /\ NoPhy # PhyId
    /\ Failing \subseteq {"region", "driver", "map", "irq", "alloc"}
    /\ MaxFiles \in Nat /\ MaxEnables \in Nat \ {0}

VARIABLES
    load,        \* the module: "out", "in", steps of init and exit, "stray":
                 \* something is used that is gone, nothing is specified
    major,       \* a device number is reserved and known to the module
    region,      \* some region of device numbers is reserved
    cdev,        \* the character device is registered
    files,       \* open files of it
    driver,      \* the platform driver is registered
    drv,         \* step of char_net_probe, or "idle"
    bound,       \* the driver is bound to the device
    mapped,      \* the registers are mapped
    clk_enable, enables, \* the flag of gmac_clk_enable, the clocks' count
    phyPower,
    busName, busMem, \* the bus is registered; its memory is allocated
    mii,         \* net_priv.mii points to it
    phy_addr, scan, found \* address chosen; address scanned; PHYs found

modVars == <<load, major, region, cdev, files, driver>>
devVars == <<bound, mapped>>
boardVars == <<clk_enable, enables, phyPower>>
busVars == <<busName, busMem, mii>>
scanVars == <<phy_addr, scan, found>>
cvars   == <<modVars, drv, devVars, boardVars, busVars, scanVars>>

Reg(a, r) == [addr |-> a, reg |-> r]
Present   == {a \in Addrs : phy[Reg(a, "id")] = PhyId}

(* A board has PHYs at some of the addresses.                              *)
Contents(ctl) ==
    {[r \in Regs |-> IF r.reg = "ctl" THEN ctl
                     ELSE IF r.addr \in P THEN PhyId ELSE NoPhy] :
        P \in SUBSET Addrs}

-----------------------------------------------------------------------------
(* char_net_init: char_dev_create, then platform_driver_register.          *)

CharNetInit ==
    /\ load = "out"
    /\ load' = "init"
    /\ UNCHANGED <<mvars, major, region, cdev, files, driver, drv, devVars,
                   boardVars, busVars, scanVars>>

(* A number is taken from the kernel, or there is none: nothing is left.   *)
AllocRegion ==
    /\ load = "init"
    /\ load' = "cdev"
    /\ major' = TRUE /\ region' = TRUE
    /\ UNCHANGED <<mvars, cdev, files, driver, drv, devVars, boardVars,
                   busVars, scanVars>>

AllocRegionFails ==
    /\ "region" \in Failing
    /\ load = "init"
    /\ load' = "out"
    /\ UNCHANGED <<mvars, major, region, cdev, files, driver, drv, devVars,
                   boardVars, busVars, scanVars>>

(* cdev_add: from here on the file can be opened.                          *)
CharDevCreate ==
    /\ load = "cdev"
    /\ load' = "driver"
    /\ cdev' = TRUE
    /\ UNCHANGED <<mvars, major, region, files, driver, drv, devVars,
                   boardVars, busVars, scanVars>>

(* The registration binds the driver to the device of the board at once.   *)
RegisterDriver ==
    /\ load = "driver"
    /\ load' = "probe"
    /\ driver' = TRUE
    /\ drv' = "map"
    /\ UNCHANGED <<mvars, major, region, cdev, files, devVars, boardVars,
                   busVars, scanVars>>

(* It fails: char_dev_destroy is not called, the module goes and the       *)
(* character device stays.  Nothing is specified after that: an open file  *)
(* or the next load would use the device and the class of a module that is *)
(* gone.                                                                   *)
RegisterDriverFails ==
    /\ "driver" \in Failing
    /\ load = "driver"
    /\ load' = "stray"
    /\ major' = FALSE
    /\ UNCHANGED <<mvars, region, cdev, files, driver, drv, devVars,
                   boardVars, busVars, scanVars>>

CharNetInitDone ==
    /\ load = "probe" /\ drv = "idle"
    /\ load' = "in"
    /\ UNCHANGED <<mvars, major, region, cdev, files, driver, drv, devVars,
                   boardVars, busVars, scanVars>>

-----------------------------------------------------------------------------
(* The device file.  An open file holds the module, its owner.             *)

FileOpen ==
    /\ cdev /\ load \in {"driver", "probe", "in"}
    /\ files < MaxFiles
    /\ files' = files + 1
    /\ UNCHANGED <<mvars, load, major, region, cdev, driver, drv, devVars,
                   boardVars, busVars, scanVars>>

FileClose ==
    /\ files > 0
    /\ files' = files - 1
    /\ UNCHANGED <<mvars, load, major, region, cdev, driver, drv, devVars,
                   boardVars, busVars, scanVars>>

-----------------------------------------------------------------------------
(* gmac_ctrl.c.                                                            *)

Count(n) == IF n < MaxEnables THEN n + 1 ELSE n

(* gmac_clk_enable(true); nothing here ever turns the clocks off again.    *)
GmacClkEnable ==
    /\ clk_enable' = TRUE
    /\ enables' = IF clk_enable THEN enables ELSE Count(enables)

(* gmac_clk_init forgets that the clocks may be on.                        *)
GmacClkInit == clk_enable' = FALSE /\ UNCHANGED enables

(* power_on_by_pmu and power_on_by_gpio, to switch on: either way the PHY  *)
(* has power after it.                                                     *)
PowerOn == phyPower' = TRUE

(* phy_power_on(true), which pulses the reset after it.                    *)
PhyPowerOn == PowerOn

-----------------------------------------------------------------------------
(* char_net_probe.                                                         *)

(* stmmac_probe_config_dt: the new plat has a phy_addr of 0.               *)
ConfigDt == phy_addr' = 0

(* The registers are mapped and the device tree is read; stmmc_pltfr_init  *)
(* and gmac_clk_init.  A probe that fails gives the mapping back.          *)
ProbeConfig ==
    /\ drv = "map"
    /\ mapped' = TRUE
    /\ ConfigDt
    /\ GmacClkInit
    /\ drv' = "irq"
    /\ UNCHANGED <<mvars, modVars, bound, phyPower, busVars, scan, found>>

ProbeMapFails ==
    /\ "map" \in Failing
    /\ drv = "map"
    /\ drv' = "idle"
    /\ UNCHANGED <<mvars, modVars, devVars, boardVars, busVars, scanVars>>

(* "macirq" is named by the device tree; gmac_init and stmmac_get_         *)
(* synopsys_id.                                                            *)
ProbeHw ==
    /\ drv = "irq"
    /\ drv' = "open"
    /\ UNCHANGED <<mvars, modVars, devVars, boardVars, busVars, scanVars>>

(* It is not: what devm_ioremap_resource mapped is unmapped.               *)
ProbeIrqFails ==
    /\ "irq" \in Failing
    /\ drv = "irq"
    /\ mapped' = FALSE
    /\ drv' = "idle"
    /\ UNCHANGED <<mvars, modVars, bound, boardVars, busVars, scanVars>>

(* MUTANT: the clocks are not turned on.                                   *)
NetOpenUnclocked ==
    /\ drv = "open"
    /\ PhyPowerOn
    /\ drv' = "register"
    /\ UNCHANGED <<mvars, modVars, devVars, clk_enable, enables, busVars,
                   scanVars>>

(* net_open: power, clocks, the MAC address and the core.                  *)
NetOpen ==
    /\ drv = "open"
    /\ PhyPowerOn /\ GmacClkEnable
    /\ drv' = "register"
    /\ UNCHANGED <<mvars, modVars, devVars, busVars, scanVars>>

(* stmmac_mdio_register fails early: no memory, or the bus of an earlier   *)
(* bind still has the name.  char_net_probe ignores the result.            *)
RegisterFails ==
    /\ drv = "register"
    /\ busName \/ "alloc" \in Failing
    /\ drv' = "idle" /\ bound' = TRUE
    /\ UNCHANGED <<mvars, modVars, mapped, boardVars, busVars, scanVars>>

(* mdiobus_register takes the name and resets the bus.                     *)
RegisterReset ==
    /\ drv = "register"
    /\ ~busName
    /\ busName' = TRUE /\ busMem' = TRUE
    /\ Reset
    /\ scan' = 0 /\ found' = {}
    /\ drv' = "scan"
    /\ UNCHANGED <<modVars, devVars, boardVars, mii, phy_addr>>

(* The scan reads the ID of each address in turn.                          *)
ScanRead ==
    /\ drv = "scan"
    /\ scan \in Addrs
    /\ Access([op |-> "read", reg |-> Reg(scan, "id"), val |-> NoVal])
    /\ drv' = "answer"
    /\ UNCHANGED <<modVars, devVars, boardVars, busVars, scanVars>>

ScanAnswer ==
    /\ drv = "answer"
    /\ step = "idle"
    /\ ret.status = "ok"
    /\ found' = IF ret.val = NoPhy THEN found ELSE found \cup {scan}
    /\ scan' = scan + 1
    /\ drv' = "scan"
    /\ UNCHANGED <<mvars, modVars, devVars, boardVars, busVars, phy_addr>>

(* A read that fails ends the scan: the bus is unregistered and freed.     *)
ScanFails ==
    /\ drv = "answer"
    /\ step = "idle"
    /\ ret.status = "EBUSY"
    /\ busName' = FALSE /\ busMem' = FALSE
    /\ drv' = "idle" /\ bound' = TRUE
    /\ UNCHANGED <<mvars, modVars, mapped, boardVars, mii, scanVars>>

Least(S) == CHOOSE a \in S : \A b \in S : a <= b

(* MUTANT: an address 0 that was never set is kept.                        *)
ChosenNever == phy_addr

(* The loop over the PHYs found takes the first whose address is not       *)
(* replaced by the next one: 0 counts as not set.                          *)
Chosen == IF phy_addr # 0 THEN phy_addr
          ELSE IF found = {0} THEN 0 ELSE Least(found \ {0})

RegisterDone ==
    /\ drv = "scan"
    /\ scan \notin Addrs
    /\ found # {}
    /\ phy_addr' = Chosen
    /\ mii' = TRUE
    /\ drv' = "idle" /\ bound' = TRUE
    /\ UNCHANGED <<mvars, modVars, mapped, boardVars, busName, busMem, scan,
                   found>>

(* MUTANT: the bus is freed without being unregistered.                    *)
RegisterNoPhyFreed ==
    /\ drv = "scan"
    /\ scan \notin Addrs
    /\ found = {}
    /\ busMem' = FALSE
    /\ drv' = "idle" /\ bound' = TRUE
    /\ UNCHANGED <<mvars, modVars, mapped, boardVars, busName, mii, scanVars>>

RegisterNoPhy ==
    /\ drv = "scan"
    /\ scan \notin Addrs
    /\ found = {}
    /\ busName' = FALSE /\ busMem' = FALSE
    /\ drv' = "idle" /\ bound' = TRUE
    /\ UNCHANGED <<mvars, modVars, mapped, boardVars, mii, scanVars>>

ProbeStep == ProbeConfig \/ ProbeMapFails \/ ProbeHw \/ ProbeIrqFails
             \/ NetOpen \/ RegisterFails \/ RegisterReset
             \/ ScanRead \/ ScanAnswer \/ ScanFails
             \/ RegisterDone \/ RegisterNoPhy

(* The kernel binds and unbinds one device at a time.  The module stays    *)
(* bound at the instant between the first probe and the end of the load.   *)
MayRebind == load \in {"in", "exit", "exitdriver"} /\ driver /\ drv = "idle"

(* The driver is bound to the device again.                                *)
Bind ==
    /\ MayRebind /\ ~bound
    /\ drv' = "map"
    /\ UNCHANGED <<mvars, modVars, devVars, boardVars, busVars, scanVars>>

(* char_net_remove: the registers are unmapped, under an access or not;    *)
(* the bus, the clocks and the power stay.                                 *)
Unbind ==
    /\ MayRebind /\ bound
    /\ bound' = FALSE /\ mapped' = FALSE
    /\ UNCHANGED <<mvars, modVars, drv, boardVars, busVars, scanVars>>

-----------------------------------------------------------------------------
(* Another part of the kernel, such as the power management of a PHY       *)
(* driver, reads or writes a register of a PHY of a registered bus.        *)
ClientAccess ==
    /\ load # "stray" /\ mii
    /\ \E o \in {"read", "write"}, a \in found, v \in Values \ {NoPhy, PhyId} :
           Access([op |-> o, reg |-> Reg(a, "ctl"), val |-> v])
    /\ UNCHANGED cvars

(* The steps that read or write a register do it through net_priv.ioaddr.  *)
AtRegister == step \in {"poll", "data", "cmd", "result"}

(* An access of a client goes on after an unbind: to unmapped registers.   *)
(* A busy wait keeps their address: if a new bind maps them elsewhere, it  *)
(* faults after that.  The states before the fault are all reached here.   *)
AccessFaults ==
    /\ load # "stray" /\ AtRegister /\ ~mapped
    /\ load' = "stray" /\ drv' = "idle"
    /\ UNCHANGED <<mvars, major, region, cdev, files, driver, devVars,
                   boardVars, busVars, scanVars>>

(* A client calls the bus that an unloaded module left registered: its     *)
(* read and write functions are gone.                                      *)
AccessWithoutCode ==
    /\ load # "stray" /\ busName /\ ~mii /\ drv \notin {"scan", "answer"}
    /\ load' = "stray" /\ drv' = "idle"
    /\ UNCHANGED <<mvars, major, region, cdev, files, driver, devVars,
                   boardVars, busVars, scanVars>>

AccessGoesOn == (AtRegister => mapped) /\ AccessStep

-----------------------------------------------------------------------------
(* char_net_exit.                                                          *)

(* MUTANT: the file does not hold the module (no .owner).                  *)
ExitAnyway ==
    /\ load = "in"
    /\ load' = "exit"
    /\ UNCHANGED <<mvars, major, region, cdev, files, driver, drv, devVars,
                   boardVars, busVars, scanVars>>

(* The kernel unloads a module that nothing holds.                         *)
Exit ==
    /\ load = "in"
    /\ files = 0
    /\ load' = "exit"
    /\ UNCHANGED <<mvars, major, region, cdev, files, driver, drv, devVars,
                   boardVars, busVars, scanVars>>

(* char_dev_destroy: the number is given back as a region of one, which    *)
(* is not the region that was reserved: it stays.                          *)
CharDevDestroy ==
    /\ load = "exit"
    /\ cdev' = FALSE
    /\ load' = "exitdriver"
    /\ UNCHANGED <<mvars, major, region, files, driver, drv, devVars,
                   boardVars, busVars, scanVars>>

(* platform_driver_unregister waits for a probe and unbinds a bound device;*)
(* the module's memory, with the flag of the clocks and the pointer to the *)
(* bus, is gone.                                                           *)
UnregisterDriver ==
    /\ load = "exitdriver" /\ drv = "idle" /\ step = "idle"
    /\ driver' = FALSE
    /\ bound' = FALSE /\ mapped' = FALSE
    /\ major' = FALSE /\ clk_enable' = FALSE
    /\ mii' = FALSE
    /\ load' = "out"
    /\ UNCHANGED <<mvars, region, cdev, files, drv, enables, phyPower,
                   busName, busMem, scanVars>>

(* Its code is gone under an access that runs.                             *)
UnregisterUnderAccess ==
    /\ load = "exitdriver" /\ drv = "idle" /\ step # "idle"
    /\ load' = "stray"
    /\ UNCHANGED <<mvars, major, region, cdev, files, driver, drv, devVars,
                   boardVars, busVars, scanVars>>

-----------------------------------------------------------------------------
Init ==
    /\ \E v \in Values \ {NoPhy, PhyId} :
           \E content \in Contents(v) : MdioInit(content)
    /\ load = "out" /\ major = FALSE /\ region = FALSE
    /\ cdev = FALSE /\ files = 0 /\ driver = FALSE
    /\ drv = "idle" /\ bound = FALSE /\ mapped = FALSE
    /\ clk_enable = FALSE /\ enables = 0 /\ phyPower = FALSE
    /\ busName = FALSE /\ busMem = FALSE /\ mii = FALSE
    /\ phy_addr = 0 /\ scan = 0 /\ found = {}

LoadStep == AllocRegion \/ AllocRegionFails \/ CharDevCreate
            \/ RegisterDriver \/ RegisterDriverFails \/ CharNetInitDone

BusStep ==
    /\ load # "stray"
    /\ AccessGoesOn \/ Complete \/ Tick
    /\ UNCHANGED cvars

Next ==
    \/ CharNetInit \/ LoadStep \/ ProbeStep
    \/ FileOpen \/ FileClose
    \/ Bind \/ Unbind
    \/ ClientAccess \/ AccessFaults \/ AccessWithoutCode
    \/ Exit \/ CharDevDestroy \/ UnregisterDriver \/ UnregisterUnderAccess
    \/ BusStep

vars == <<mvars, cvars>>

(* The processor that loads the module goes on, and time passes; nothing   *)
(* is assumed of the hardware, which may stay busy for ever.               *)
Fairness ==
    /\ WF_vars(LoadStep)
    /\ WF_vars(ProbeStep)
    /\ WF_vars(BusStep /\ AccessGoesOn)
    /\ WF_vars(BusStep /\ Tick)

Spec == Init /\ [][Next]_vars /\ Fairness

-----------------------------------------------------------------------------
(* Type invariant.                                                         *)
TypeOK ==
    /\ MdioTypeOK
    /\ load \in {"out", "init", "cdev", "driver", "probe", "in", "stray",
                 "exit", "exitdriver"}
    /\ major \in BOOLEAN /\ region \in BOOLEAN /\ cdev \in BOOLEAN
    /\ files \in 0 .. MaxFiles
    /\ driver \in BOOLEAN
    /\ drv \in {"idle", "map", "irq", "open", "register", "scan", "answer"}
    /\ bound \in BOOLEAN /\ mapped \in BOOLEAN
    /\ clk_enable \in BOOLEAN /\ enables \in 0 .. MaxEnables
    /\ phyPower \in BOOLEAN
    /\ busName \in BOOLEAN /\ busMem \in BOOLEAN /\ mii \in BOOLEAN
    /\ phy_addr \in Addrs /\ scan \in Nat /\ found \subseteq Addrs

(* The file operations are called only while the module is loaded: after   *)
(* an unload or a failed load (but for that of RegisterDriverFails) no     *)
(* file is open and no character device registered.                        *)
FopsHaveCode == load = "out" => files = 0 /\ ~cdev

(* An access, also one that a client begins or goes on with after an       *)
(* unbind, finds the clocks on and the PHY powered.  Without its registers *)
(* mapped there is only that of a client of a bus an unbind left behind:   *)
(* never that of the scan, and never one while the driver is bound.        *)
AccessClocked ==
    step # "idle" => /\ enables > 0 /\ phyPower
                     /\ ~mapped => mii /\ ~bound

(* A bus that is registered is not freed, and the pointer to the bus, when *)
(* it is set, points to one that is registered.                            *)
BusNotFreed == (busName => busMem) /\ (mii => busName)

(* When a bus is registered, the address chosen is that of a PHY.          *)
PhyChosen == [][~mii /\ mii' => phy_addr' \in Present]_vars

(* A load of the module ends, although it scans the bus and the hardware   *)
(* may stay busy: the module is loaded at boot, which waits for it.        *)
LoadEnds == load = "init" ~> load \in {"in", "out", "stray"}

=============================================================================
