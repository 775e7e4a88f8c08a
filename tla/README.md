# Verification of the char_device network driver

The repository is a Linux driver for a gigabit Ethernet controller: a modified
copy of the `stmmac` vendor driver (`stmmac_main.c`, `stmmac_platform.c`) and a
character device with its own platform driver that reuses the lower layers of it
(`char_net_platform.c` and the files its `Makefile` links).  This directory holds
TLA+ models of the parts that keep state shared between several actors, the TLC
configurations that check them, and theorems checked by TLAPS.

## 1. Inventory

| component | files | state it keeps | operations | what is hard | what makes it correct |
|---|---|---|---|---|---|
| transmit path | `stmmac_main.c`, bits of `descs_com.h`, `norm_desc.c` | descriptor ring, `cur_tx`, `dirty_tx`, `tx_skbuff`, `tx_lock`, queue state, coalescing counter and timer | `stmmac_xmit`, `stmmac_tx_clean`, `stmmac_tx_timer` | three contexts and a DMA engine on one ring; room tested outside the lock; two locks nested both ways; OWN bits handed over in a certain order | no overrun, whole frames, each buffer freed once and not early, no lost wake-up, everything reclaimed |
| transmit recovery | `stmmac_main.c` | the same ring | `stmmac_tx_err`, `stmmac_tx_timeout` | resets the ring without the lock | a "sane state" of ring, cursors and queue |
| direct transmit | `stmmac_main.c` | the same ring | `rtl8211_xmit` | a second producer without lock or room test | no overrun |
| receive path | `stmmac_main.c` | descriptor ring, `cur_rx`, `dirty_rx`, `rx_skbuff` | `stmmac_rx`, `stmmac_rx_refill` | the DMA writes behind the driver's back; allocations fail; interrupts coalesced and cleared by write-back | frames in order, once, each taken; the DMA always has a buffer |
| receive polling | `stmmac_main.c` | the same ring, read only | `stmmac_peek_packet` | never advances | each packet counted once |
| interrupt dispatch | `stmmac_main.c`, `dwmac_lib.c` | latched status bits | `stmmac_interrupt`, `stmmac_direct_dma_interrupt`, `dwmac_dma_interrupt` | read and clear race with the DMA | no event lost |
| life cycle | `stmmac_main.c` | rings, interrupt lines, timers, clock, PHY, queue | open, release, suspend, resume, freeze, restore, probe, remove | failures half way, operations of a device that is still in use | nothing used before it is made or after it is freed, nothing leaked |
| EEE | `stmmac_main.c` | `tx_path_in_lpi_mode`, `eee_ctrl_timer` | enable, disable, timer | a timer that is started again by `tx_clean` | no timer after release |
| link handling | `stmmac_main.c` | `oldlink`, `speed`, `oldduplex` of `priv`, MAC_CTRL, the PHY state machine | `stmmac_init_phy`, `stmmac_adjust_link` | a work queue of the PHY library beside open, close, suspend and removal; remembered values against a MAC that is reset | clock on while registers are used, MAC and driver agree |
| configuration, time stamps, ioctl | `stmmac_main.c`, `mmc.h` | single fields and registers | setters | little | - |
| vendor platform glue | `stmmac_platform.c`, `stmmac.h` | clock-enabled flag, enable counts, regulator, power and reset pins, GRF, clock rate | probe, remove, clock and power switching, speed selection | a flag cleared at probe; failed opens that leave the power on; rate read after it is set | enables pair, power cut when closed, MDC within its limit |
| char device | `char_dev_create.c`, `char_net.c` | device number, class, cdev | create, destroy, open, close | usable before the load ends; files held over an unload | no file operation without its code |
| module's platform driver | `char_net_platform.c`, `net_ctrl.c`, `gmac_init.c` | `net_priv`, mapped registers, GPIO | init, exit, probe, remove | bind, unbind, bind again; a bus that outlives the driver | registers used while mapped and clocked |
| clocks and power | `gmac_ctrl.c` | clock-enabled flag | enable, disable, speed | flag reset at probe | pairing |
| MDIO bus | `phy_ctrl.c` | the bus, found PHY | read, write, reset, register | busy wait with a time limit, a clock that wraps, hardware that stays busy | a memory: success means done, no early time-out |
| MAC core, DMA programming | `dwmac1000_*.c`, `dwmac100_*.c`, `dwmac_lib.c` | registers | setters, reset | little | - |

How they interact: the networking core calls `stmmac_xmit` under the transmit
lock of the device; the DMA interrupt calls `stmmac_tx_clean` and `stmmac_rx`
with the DMA interrupt masked; the coalescing timer calls `stmmac_tx_clean`; the
DMA engine shares nothing but descriptors and latched status bits with the
driver.  `stmmac_open` and `stmmac_release` create and free what all of them use, and switch clocks
and power through callbacks into `stmmac_platform.c`.  The PHY library calls
`stmmac_adjust_link` from a work queue between `phy_start` and `phy_stop`.  In the other
driver, `char_net_init` makes the character device and registers the platform driver; its
probe maps the registers, turns power and clocks on and registers the MDIO bus, whose scan
and later users call `stmmac_mdio_read` and `stmmac_mdio_write`.

`PROJECT.json` lists every component with its status, and under `hazards` what in
this code is hard to test, line by line.

## 2. Plan

The project was built in this order, the most important behaviour first:

1. `TxRing` with `TxFlow` (the heart of the driver) and its proofs,
2. `RxRing` with `RxQueue`, and `NetDev`, with their proofs,
3. `StmmacPltfr`: the board and the link under `NetDev`, and its proofs,
4. `Mdio` with `PhyRegs`, and `CharNet`, which composes the module with the bus, and their proofs.

What it does not cover, and why, is section 6.  Every safety property a passing run checks is also the subject of a
theorem; what could still be proved are weaker assumptions for those theorems that have one (section 5).

## 3. Modules

| module | models | proofs |
|---|---|---|
| `TxFlow` | abstract flow control of the transmit queue: descriptors in use, stopped or not | - |
| `TxRing` | the transmit ring, step by step | `TxRing_proofs`, `TxFrames_proofs` |
| `RxQueue` | abstract receive path: a queue of frames, a number of armed descriptors | - |
| `RxRing` | the receive ring, step by step | `RxRing_proofs` |
| `NetDev` | open, release and the other operations on the device, beside the contexts they serve | `NetDev_proofs` |
| `StmmacPltfr` | clocks, power, reset, speed selection and `stmmac_adjust_link`, composed with `NetDev` | `StmmacPltfr_proofs` |
| `PhyRegs` | what the MDIO bus promises: registers as a memory | - |
| `Mdio` | `stmmac_mdio_read`, `stmmac_mdio_write` and their busy wait against the hardware and `jiffies` | `Mdio_proofs` |
| `CharNet` | the module `char_net.ko`: character device, platform driver, probe, bus registration; it extends `Mdio` | `CharNet_proofs` |
| `Counters` | lemmas on counters that wrap and their ring index, used by the proofs of both rings | itself |
| `MCTxRing`, `MCRxRing`, `MCNetDev`, `MCStmmacPltfr`, `MCCharNet` | the small sets TLC needs | - |

The models meet at few points.  `TxRing` and `RxRing` describe a device that is up;
`NetDev` describes how it gets there and away, and sees of the rings only whether they
are allocated and whether a context is at work on them.  The interrupt handler runs
`stmmac_tx_clean` and then `stmmac_rx`: each ring module has its half and treats the other as
an entry that brings no event (`RxInterrupt`, `IrqEnterTx`).  `StmmacPltfr` extends `NetDev`: every
action of it is an action of `NetDev` with its effect on the board, or a step of
`stmmac_adjust_link`, so `PltfrSpec => Spec`.  `CharNet` extends `Mdio` in the same way, `Spec => MdioSpec`; the
two drivers bind to the same kind of device and are not loaded together, so the two halves have nothing in common.

### TxRing

The variables carry the names of the fields (`cur_tx`, `tx_skbuff`, `own`, ...).
`xpc` is the program counter of `stmmac_xmit`; there is one, since the core calls
it under the transmit lock, and `xpc # "idle"` is the statement that this lock is
held.  `cpc` has one program counter per context that runs `stmmac_tx_clean`: the
interrupt handler (masked while it runs, so it does not nest) and the timer.
A step ends where another actor could see the difference: the test of the room,
taking `tx_lock`, each fragment (its OWN bit is set at once), closing the frame and
the coalescing decision, handing over the first descriptor, `cur_tx++` with the
stop of the queue, and the poll demand.  The DMA is modelled from how the driver
uses it: it sends the descriptor it is at while it owns it, and suspends otherwise
until the next poll demand.  `seg` and `held` are the data a descriptor points at
and the set of buffers the driver has not freed.  The counters are kept modulo
`TxSize * Laps`, as the code's wrap modulo 2^32, a multiple of the ring size.

Left out: EEE (`eee_enabled` is false), time stamps, the transmit watchdog and with it `stmmac_tx_err`, which resets
the ring of a queue that was stopped for too long.  The direct transmit path is left out, and so are the steps of
`stmmac_xmit` that keep it away (the wait for the device timer and `m_Tx_Lock`, and `disable_irq(98)` and `enable_irq(98)`
around the work on the ring): to the other actors they are delays, and every step may be delayed anyway.
Jumbo frames go through `ring_mode.c`, which the repository lacks.

### TxFlow

Descriptors claimed, queue stopped, phase of the call.  `TxRing!FlowControl` is the
refinement: `used` is what is in flight plus what the running call was promised
(`Owed`).  It says that a frame accepted outside the lock always finds its
descriptors and that the queue is stopped and woken only as TxFlow allows.

### RxRing and RxQueue

`RxRing` has the handler with its program counter, the DMA that stores a frame
in its descriptor if it owns it, and the watchdog that raises the receive interrupt
when `use_riwt` is set.  `ri` is latched by the hardware and cleared when the handler
reads it; frames that arrive later latch it again.  An allocation of the refill
may fail while at most `Starve` descriptors wait for it.  A socket buffer is
recorded or gone, so `rx_skbuff` is a Boolean.  `RxQueue` is a FIFO queue with a
number of armed descriptors; the mapping reads the frames between `cur_rx` and the
DMA's descriptor.

### NetDev

`pc` walks through `stmmac_open` (`"power"` to `"up"`), its error path (`"undo"`) and
`stmmac_release` (`"close"` to `"off"`); `by` says who called: the core, which calls `stmmac_release` also for
`unregister_netdev`, or freeze and restore (`"pm"`).  `busy` is the set of contexts in the middle of their work: the
handler on each line, the timer, `stmmac_xmit`.  `free_irq` and `del_timer_sync` wait for
theirs, and the core waits for `stmmac_xmit` before `ndo_stop`.  Interrupt lines are shared, so a handler
may be called at any time while its line is requested.  `rings` is `"none"`, `"live"` or `"freed"`;
`lost` records that live rings were overwritten.  `stmmac_suspend` and `stmmac_resume` are one
step each, the contexts run before, across and after it.

Probe and removal take several steps, and the core may open and close the device beside them.  `Probe` ends with
`register_netdev`.  What follows it in `stmmac_dvr_probe` and `stmmac_pltfr_probe` has a step each: the bus that an open has
registered meanwhile is forgotten (`ProbeMdio`), `clk_csr` is chosen (`ProbeCsr`), and the three interrupt numbers are
stored (`ProbeLine`).  A number that is not stored yet is zero, and an open that requests it fails (`IsSet`).  `Remove` is
the part of `stmmac_dvr_remove` before `unregister_netdev`, which runs at any step of an open or close; `RemoveClose` and
`RemoveDone` are `unregister_netdev` and `free_netdev`.

Freeze calls `stmmac_release` on a device that the core still uses, and restore calls `stmmac_open`, which may
fail.  `frozen` is `"yes"` in between and `"failed"` after a restore that failed, when the device counts as running and was
not opened.  The module makes no assumption about either.  `stmmac_xmit` and the timer do run on freed rings there (a
`tx_clean` may wake the queue again right after `netif_stop_queue`, and nothing stops the stack), so `RingsLive` says
that its exception begins with a freeze and ends with the next open that succeeds.  In the same way `FreedOnce` says that the rings are freed a
second time only by a release after a failed restore.  `HandlersOnRings` is the part of `RingsLive` that needs no exception.
With `frozen = "no" /\ by # "pm"` dropped from `RingsLive`, or `frozen = "failed"` from `FreedOnce`, TLC finds these cases.

Left out: the state of the descriptors over a suspend, rings that cannot be allocated, EEE, the failure paths of the probe.

### StmmacPltfr

`board` is what the device tree and the clock tree say; the regulator and the reset pin of
the PHY, the enable count of each clock beside the flag of `gmac_clk_enable`, the speed bits
of MAC_CTRL and of the GRF, and what `priv` remembers of the link are the state.
`stmmac_adjust_link` is two steps, since it reads MAC_CTRL, changes a copy and writes it back:
`AdjustRead`, and `AdjustUp` or `AdjustDown`; other operations on MAC_CTRL, all of
`stmmac_set_mac`, come between unless the code waits.  `phy_stop` and `phy_disconnect` wait for a running
call (`PltfrClosePhy`, `PltfrSuspend`); `stmmac_dvr_remove` does not (`PltfrRemove`).  The software reset of
the DMA takes MAC_CTRL back to its reset value (`ResetMac`) while `priv->speed` is forgotten by
`stmmac_init_phy` (`PltfrOpenPhy`); `SpeedAgrees` is about those two.  A second probe clears the flag of
the clocks (`GmacClkInit`) and keeps their counts.

The probe is `PltfrProbe`, up to `register_netdev`, and `PltfrProbeCsr`, which computes `clk_csr` afterwards.  A device that
is opened in between runs MDC from a `clk_csr` of zero, the divider 42, which a clock above 105 MHz makes too fast.
`MdcWithinLimit` is therefore a statement about the time after the choice, and its comment names the window: with the condition
on `probe` dropped TLC finds the violation on the board with 125 MHz.

On a board with a device tree `dev_get_platdata` is `NULL`.  `stmmac_pltfr_freeze` runs `stmmac_freeze`, all of
`stmmac_release`, and only then dereferences that `NULL` (`stmmac_platform.c:760-761`).  The task that freezes the
devices dies there, with the device locked and the other tasks frozen: `Halted` stands for what is left, where the
handlers, the timer and the stack go on but no operation on the device runs.  A restore is not reached, so `PltfrNext` has none.

Assumptions, which `Board` and the header state: the regulator of the PHY has no other user, `clk_mac`
exists, the rate of its parent is one `stmmac_clk_csr_set` has a range for.
Probes succeed.  EEE and flow control are off.

### PhyRegs and Mdio

`PhyRegs` is the bus as its callers see it: a memory that one access at a time reads or writes, that may
refuse with `-EBUSY`, and that may still carry out later what it refused.  The result of an access stays until the
next one begins.  `Mdio` has a step for each
point at which the processor may be lost: `finish` computed (`Access`), `curr` sampled (`WaitCurr`), the register polled
(`WaitBusy`, `WaitReady`, `WaitDone`), the time tested (`WaitAgain`, `GiveUp`), the data and the address register written.
The hardware clears `MII_BUSY` when it likes, or never (`Complete`); `jiffies` count modulo `Wrap`.  `elapsed`
and `polled` are history variables: the ticks since the wait began, now and at the last poll.
`NoFalseTimeout` is stated with them, since `jiffies` themselves wrap.  `MemoryImplemented` maps `late` to what the
hardware is at.

### CharNet

`load` is the step of `char_net_init` and `char_net_exit`, `drv` that of `char_net_probe`, which a load, or
a bind from user space, starts.  `mdiobus_register` is code of the kernel: it resets the
bus and reads the ID register of each address, each of these reads an access of `Mdio` with all its steps
(`ScanRead` to `ScanAnswer` or `ScanFails`).  `RegisterDone` makes the driver's choice among the PHYs
found.  The errors of the steps are taken as the code handles them: the result of `stmmac_mdio_register` is ignored,
the removal leaves bus, clocks and power as they are, the region given back is not the one
reserved (`region` stays).  A failed registration of the driver (`RegisterDriverFails`) leaves the
character device of a module that is gone: the source handles nothing after that, the model stops
there (`"stray"`), and therefore `char_net` is the run that does not check deadlock.

Clients of the bus, such as a PHY driver, use it at any time from its registration on (`ClientAccess`).  Nothing in
`char_net_remove` or `char_net_exit` unregisters the bus or waits for an access to end, so an unbind may come
between any two steps of one, and accesses begin after it too.  A step that touches a register which is not mapped any more, or that runs when the
module is gone, ends the behaviour in `"stray"` as well (`AccessFaults`, `AccessWithoutCode`), and so does an unload under a running
access (`UnregisterUnderAccess`).  What is left to `AccessClocked` is what the code does achieve:
clocks and power are on during every access, also after an unbind, since `char_net_remove` leaves both as they are, and the registers can be missing only for a
client of a bus that an unbind left behind, never for the scan and never while the driver is bound.

## 4. Runs

| run | question | result |
|---|---|---|
| `tx_ring` | safety of the transmit path (no overrun, no frame torn, no interrupt or poll demand lost, no buffer freed early) and refinement of `TxFlow`; 7 descriptors, 2 laps, up to 3 segments, 2 buffers | holds |
| `tx_ring_live` | with threshold >= `MaxFrags` and no coalescing: no hard error, no wake-up lost, queue restarted, descriptors reclaimed | holds |
| `tx_ring_coalesced` | is the oldest descriptor reclaimed when interrupts are coalesced? | violated |
| `tx_ring_lost_wake` | threshold below `MaxFrags`: does a stopped queue with an empty ring have an interrupt, timer or `tx_clean` on the way to wake it? | violated: it waits for a received frame or for the transmit watchdog |
| `tx_ring_buffer_live` | is a buffer kept until the DMA has read all of it? | violated |
| `rx_ring` | order, completeness and liveness of reception without failures, no receive interrupt lost; 4 descriptors, limit 4 | holds |
| `rx_ring_starved` | any allocation may fail, 3 descriptors | holds |
| `rx_ring_chain` | is the descriptor chain consistent after one failed allocation? | violated |
| `net_dev` | rings and their users, interrupt handlers and closed devices across the whole life cycle; opens beside probe and removal, three lines, an open or a restore may fail at every step, the stack sends during a freeze | holds |
| `net_dev_remove` | does a removal release the rings after an open that failed at `request_irq`? | violated |
| `stmmac_pltfr` | clocks, power, MAC and link over the whole life cycle with `stmmac_adjust_link` across it; three boards, three link modes, an open may fail at every step | holds |
| `char_net` | load, bind, unbind, unload with every failure and with clients of the bus at any time, over a bus whose hardware may stay busy for ever; refinement of `PhyRegs`; a load ends | holds |

Bounds.  `NetDev` is finite as it stands: no counter is bounded.  Seven descriptors is the smallest ring where frames of three segments
wrap in every position and where the wake-up threshold (1) lies below `MaxFrags` (2),
as 16 lies below 17 in the driver; two laps let every counter comparison meet the wrap.
Two buffers suffice for one in the ring and one on its way; an additional one would
only lengthen the ring's content, which seven descriptors already fill.  `Laps` of 3
in `rx_ring_starved` keeps the two cursors of the receive ring apart by more than a
lap, which happens after failures.  The buffers are symmetric in the safety runs;
no symmetry is used for liveness.

`StmmacPltfr` is finite too: nothing in it counts further than the enables of the clocks, which the
invariant keeps at one.  Its three boards take every branch on regulator, GRF, interface and missing clock,
with rates of which two lie in different ranges of `stmmac_clk_csr_set` and one on the edge of a range; one shared wake-up line is
enough, since lines only matter to `NetDev`, which has a run with three.
`CharNet` bounds the open files (`MaxFiles`, one suffices to hold a module), the count of clock enables
(`MaxEnables`, of which only zero matters), the time limit (`Timeout`, 2 ticks), how long one wait may be kept off the
processor (`MaxWait`, 3, one tick beyond the limit) and `jiffies` (`Wrap`, 7, so that a wait begins at every distance
from the wrap).  Two addresses, 0 and another one, are the two cases of the choice of the PHY.  The values of the registers are
the two an ID register may have and one that clients write; `MemoryImplemented` is proved for every set of values.

Fairness.  Handlers and threads that can run do run, latched interrupts are taken,
armed timers fire, the DMA sends what it owns.  `tx_lock` is a spin lock that is only
intermittently free, so taking it is strongly fair; the same holds for the transmit
lock in `CleanWake`.  Nothing forces the stack to send a frame, the wire to deliver one
or a receive interrupt to happen.

`CharNet` assumes weak fairness of the processor that loads the module (`LoadStep`, `ProbeStep`, the steps of an access) and of
time (`Tick`), and nothing of the hardware: `LoadEnds` holds because the busy wait gives up, not because
the hardware answers.

`NetDev` and `StmmacPltfr` state no liveness property and no fairness.

Deadlock checking stays on in every run but `char_net`, for the reason given above.

The type invariants of `TxRing` and `RxRing`, which say how the counters wrap, are checked in `tx_ring` and `rx_ring_starved`; those of `NetDev`,
`StmmacPltfr` and `CharNet` are proved only.

What the violated runs show about the code is in `PROJECT.json` under `findings`.

## 5. Theorems

`TxRing_proofs` proves for every ring size, number of fragments, coalescing limit and
set of buffers that satisfies `SizesAssumption` (a frame is smaller than the ring):
`TypeCorrect`, `RingNeverOverruns`, `LocksNeverCross`, `OnlySentReclaimed`, `BuffersAccounted`, `HeadsAreLive` and `RingImplementsFlow`.
Three theorems delimit what the violated runs show.  Under `TxSize \div 4 >= MaxFrags`, which the driver's ring of 64 misses,
`AwakeMeansRoom` and `WakeUpNotLost` hold: the hard error does not occur, and a stopped queue with room has a
`tx_clean` on its way that will test for it.  Under `MaxFrags = 0`, a device without scatter-gather, `UnfragmentedLive` is the property
that `tx_ring_buffer_live` refutes.

None of the properties is inductive.  `NoOverrun` needs to know that the room tested
before the lock was taken is still there when it is used: `RoomInv` says that what is
in flight plus what the running call was promised fits into the ring at every step
(only `stmmac_xmit` adds, only `tx_clean` removes).  That the DMA owns nothing outside the part in use
(`OwnInv`) needs to know where each cleaner is (`FreeInv`: between the test of OWN and the release of
the descriptor it stays the driver's, because the lock is held, `LockInv`), and where the descriptor
held back by the producer is (`FirstInv`).  `CursorInv` relates the counters modulo the
wrap to positions in the ring.  `IInv` is the conjunction, `Inductive` proves it
for each action, and the theorems follow from it.  The facts about modular arithmetic that the solvers
do not find on their own are the lemmas of `Counters`.

`OnlySentReclaimed` adds to `IInv` that a descriptor between its test and its release is not
the DMA's (`SentInv`).  `BuffersAccounted` adds that the buffer `stmmac_xmit` was called with is not
recorded yet (`FreshInv`) and that `tx_clean` holds in its local the one recorded at its entry (`TakenInv`).
`HeadsAreLive` adds where the buffer of a first segment that is not sent is recorded (`HeadInv`): at its own descriptor, which the DMA still
owns, so that no `tx_clean` can be about to free it.  `WakeUpNotLost` is inductive together with `AwakeInv`: only a `tx_clean`
makes room, and it is then still before its test.

`TxFrames_proofs` proves, for the same parameters, what the DMA finds in the ring: `PollDemandNotLost` and
`FramesAreWhole`.  `PosInv` says exactly which descriptors the DMA owns: those from its own position to the end of
the part in use (`Pending`), except the first one of a frame in preparation (`Unready`); a step of `tx_clean` never passes
the DMA because the descriptor it takes is not owned.  `FrameInv` says what these descriptors hold: the marks
agree with the segments (`MarkInv`), each segment follows its predecessor (`OrderInv`) and the DMA's next one follows the
wire (`WireInv`).  That LAST_SEGMENT is never set outside the part in use is needed too, since
`prepare_tx_desc` does not clear it.  `InterruptNotLost` rests on the same positions: a descriptor becomes one of the sent ones by a
step of the DMA, which latches the interrupt, and the handler that clears it has still its whole walk over the ring ahead; the walk
ends at a descriptor the DMA owns, behind which nothing is sent.

`NetDev_proofs` holds for every set of lines and of failing steps.  The invariant says who may be the caller at each step
(`StepInv`), that a handler works on a requested line and a line is requested only while the rings exist (`LineInv`), over which
steps the clock is on and the DMA may run (`PowerInv`), and when `stmmac_xmit` and the timer may be at work (`QuietInv`).  It needs
no assumption about freeze and restore, and the theorems need none either: `TypeCorrect`, `HandlersFindRings`, `ClockOutlivesHandlers` and
`ClosedIsQuiet` follow from it.  `RingInv` adds that a device in use and a release in progress have rings unless a freeze came before, which
gives `NoDoubleFree` and, with `QuietInv`, `RingsOutliveUsers`; their exceptions are those of the properties, and are part of what is stated.
The late failures, after which the rings are leaked, are included: they lose memory but free nothing that is in use.
`OnlyFailedOpenLeaks` says that they are the only leak: if no step of `stmmac_open` after `init_dma_desc_rings` fails, a removal leaves no rings
behind (`LeakInv`), which the run `net_dev_remove` refutes without that assumption.

`RxRing_proofs` proves, for every ring size, limit and pattern of failing allocations,
`TypeCorrect`, `DmaAlwaysHasBuffer` and `OnlyFilledDelivered`.  The invariant is small:
`BufferInv` says that what the DMA owns has a buffer, that the frame in hand is not the DMA's
and that the descriptor about to be given away has a buffer; `FilledInv` that a buffer the driver
holds and the DMA does not own was filled, except the one about to be given away.  It needs
no assumption about the distance of `cur_rx` and `dirty_rx`, which failed allocations may
drive more than a lap apart.  `ChainConsistentThm` does: under `Starve + Budget <= RxSize`, `AheadInv` bounds
how far `cur_rx` runs ahead, and `AheadPos` says that only what lies between the counters lacks a buffer.  The
condition is exact on the instances tried: TLC finds no violation up to the bound and the run `rx_ring_chain`, one
above it, has one.

Under the same condition `RingImplementsQueue` proves the refinement of `RxQueue`: `DmaInv` says that the descriptors the DMA has given
back are the first `Held` ones after `dirty_rx`, of which the driver has taken the first `Used`, and that the DMA stands at the next one; so a stored frame
is appended at the end of what the mapping reads and a taken one is its head.  `ReceiveInterruptNotLost`, for a ring as long as the limit and
without failing allocations, adds that one call takes no more than the limit (`CountInv`), so the loop ends at a descriptor the DMA owns and
nothing is left (`LoopEmpties`); the condition is needed: with a ring of 4 and a
limit of 3 TLC finds `FrameTaken` and `NoFrameStranded` violated (the handler leaves a frame whose status bit it has cleared), although the comment of `stmmac_rx` says that
it "gets all the frames inside the ring".  The driver's limit is 64, its ring the module parameter `dma_rxsize` rounded up to a cache line.

`StmmacPltfr_proofs` proves every property of its run for every board, set of link modes,
boot rate, set of lines and of failing steps.  `PltfrIsNetDev` says that each step is a
step of `NetDev` (or leaves it alone), so the theorems of `NetDev_proofs` hold on every board.  `PltfrFreedOnce` sharpens one of them: where no restore follows a
freeze (`OpenBy`), every release finds the rings the last open has made.  For the rest only the phase of the life cycle matters, not its details:
`LifeInv` is `StepInv` of `NetDev_proofs` with `OpenBy`, and `LifeStep` is what a step may do to the life cycle.
`PowerOnInv` says when clocks and power are on, as a function of the phase (a failed open leaves
the power, not the clocks), and contains `ClocksPaired`; `MachineInv` that the PHY
state machine runs only between `phy_start` and `phy_disconnect`, and a call of `stmmac_adjust_link` only while the machine
is there; `MacInv` when the MAC is off; `LinkInv` is the strengthening of `SpeedAgrees`: either nothing is remembered of a link or
MAC and GRF work with what is, between `stmmac_init_phy` and the reset of the MAC nothing is, and the
copy of MAC_CTRL in a running `stmmac_adjust_link` still has the MAC's speed bits.  `MdcInv` fixes `clk_csr` by the rate from `PltfrProbeCsr` to the removal, and `MdcWithinLimitThm` checks the
ranges one by one.  The proof goes by variable: a step changes the clocks only through `gmac_clk_enable`, the MAC only in five ways, and so on
(`ClkStep`, `PowerStep`, `MacStep`, ...), which keeps one case per action small.

`Mdio_proofs` proves, for every set of registers and values and every `Timeout`, `MaxWait` and `Wrap` that satisfy
`MdioAssumption` (a wait is never kept off the processor for half the range of `jiffies`), `MdioTypeCorrect`,
`NoFalseTimeoutThm` and `MemoryImplementedThm`.  `TimerInv` expresses `finish` and `curr` by the history variables:
`finish` is `Timeout` after the start of the wait and `curr` is not later than the last poll,
modulo `Wrap`; the lemmas on `%` turn the sign test of `time_after_eq` into a comparison of
`elapsed` times.  `AccessInv` says which steps an access may be at and what the hardware is doing there: before
its own command is issued the hardware, once seen ready, stays so, and after it what is under way is the
command of the running call.

`CharNet_proofs` proves, for every set of addresses that contains 0, of PHYs, and of failing steps,
all properties of its run except `LoadEnds`.  `ModuleUsesBus` shows that each step of the module is a step of `Mdio` or leaves it alone;
so its theorems hold of the bus under the module (`ModuleMemory`, `ModuleTimeout`).  The invariant: `LoadInv` ties the
character device and the driver to the step of the load, `UseInv` says who may be in an access (the scan, or a client of a bus that is registered, bound or not), `DevInv` what a
probe has mapped and switched on at each of its steps and that a registered bus keeps clocks and power, `BusInv` is `BusNotFreed` together with the bus being registered while it is scanned, `IdInv` says that the ID registers never change
(nobody writes them, not even a late command), and `ScanInv` that `found` holds only
addresses with a PHY, since a read that succeeds returned the ID; the choice follows from it.

Only model-checked: the liveness properties (`QueueRestarts`, `OldestReclaimed`, `FrameTaken`, `LoadEnds`), which are out of the
reach of the prover.  The safety side of the first three is proved: `WakeUpNotLost`, `InterruptNotLost` (for a frame that asks for its interrupt) and
`ReceiveInterruptNotLost` say that whoever has to act is on its way.

## 6. Not modelled

- Transmit recovery (`stmmac_tx_err`, the transmit watchdog): it stops and starts the DMA, and where
  the engine resumes, which decides whether the reset ring works, is hardware behaviour that nothing in the
  source describes.  It is what ends the state that `tx_ring_lost_wake` finds: the watchdog wakes the queue after its time limit.
- Direct transmit (`rtl8211_xmit`) and receive polling (`stmmac_peek_packet`): nothing in the repository calls
  them, and nothing says beside what a caller may run, so any property would be about an assumption.  The wait of `stmmac_xmit` for
  the device timer and `m_Tx_Lock`, and its `disable_irq` and `enable_irq`, go with it.
- Energy efficient Ethernet: `eee_enabled` is false in all modules.
- Time stamps, ioctls, MTU, features, filters, module parameters, statistics, debug output: single
  fields or registers no two actors could disagree on.
- Flow control, wake-up patterns and the DMA's bus mode and thresholds: register values without a protocol.
- Probes of the vendor driver that fail half way, and boards without a device tree.  A restore is in `NetDev`, not on the boards of
  `StmmacPltfr`, where the freeze before it does not end.
- A single processor on which the interrupt handler spins on a lock its own interrupted
  thread holds: every context runs on a processor of its own.
- Sleeping calls made under a spin lock: the models have no scheduler to forbid them.
- The demonstration program `test.c`, build and IDE files.
