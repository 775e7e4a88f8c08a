--------------------------------- MODULE Mdio ---------------------------------
(***************************************************************************)
(* The MDIO bus of phy_ctrl.c: stmmac_mdio_read, stmmac_mdio_write and     *)
(* their busy wait, against the station management hardware, which works   *)
(* on its own and may stay busy for ever, and against jiffies, which wrap. *)
(* The MDIO core's lock lets one access run at a time.                     *)
(***************************************************************************)
EXTENDS Integers

CONSTANTS
    Regs, Values, \* the registers of the PHYs, what they may hold
    Timeout,      \* 3 * HZ in ticks
    MaxWait,      \* ticks that may pass while one busy wait runs
    Wrap          \* jiffies count modulo Wrap

(* A caller is not kept off the processor for half the range of jiffies.   *)
ASSUME MdioAssumption ==
    /\ Timeout \in Nat /\ MaxWait \in Nat /\ Wrap \in Nat
    /\ 0 < Timeout /\ Timeout <= MaxWait /\ 2 * MaxWait < Wrap
    /\ Regs # {} /\ Values # {}

VARIABLES
    phy,             \* content of the registers
    busy, cmd,       \* MII_BUSY, and the operation in the address register
    data,            \* the data register
    jiffies,
    step, call,      \* step of the access that runs; the access
    issued,          \* it has written the address register
    finish, curr,    \* the locals of stmmac_mdio_busy_wait
    elapsed, polled, \* ticks since the wait began: now, at the last poll
    ret              \* what the last access returned, till the next begins

hw    == <<phy, busy, cmd, data>>
timer == <<jiffies, elapsed>>
wait  == <<finish, curr, polled>>
mvars == <<hw, timer, wait, step, call, issued, ret>>

Calls  == [op : {"read", "write"}, reg : Regs, val : Values]
NoReg  == CHOOSE r \in Regs : TRUE
NoVal  == CHOOSE v \in Values : TRUE
NoCall == [op |-> "read", reg |-> NoReg, val |-> NoVal]
NoRet  == [status |-> "none", val |-> NoVal]

(* time_after_eq: the sign of the difference, in the width of jiffies.     *)
TimeAfterEq(a, b) == 2 * ((a - b) % Wrap) < Wrap

MdioInit(content) ==
    /\ phy = content
    /\ busy = FALSE
    /\ cmd = [op |-> "read", reg |-> NoReg]
    /\ data = NoVal
    /\ jiffies \in 0 .. Wrap - 1
    /\ step = "idle"
    /\ call = NoCall
    /\ issued = FALSE
    /\ finish = 0 /\ curr = 0
    /\ elapsed = 0 /\ polled = 0
    /\ ret = NoRet

-----------------------------------------------------------------------------
BeginWait ==
    /\ finish' = (jiffies + Timeout) % Wrap
    /\ elapsed' = 0
    /\ UNCHANGED <<jiffies, curr, polled>>

(* The locals of the wait are gone, and at the end those of the access.    *)
EndWait ==
    /\ finish' = 0 /\ curr' = 0 /\ polled' = 0
    /\ elapsed' = 0
    /\ UNCHANGED jiffies

Return(status, v) ==
    /\ step' = "idle"
    /\ call' = NoCall
    /\ issued' = FALSE
    /\ ret' = [status |-> status, val |-> v]

(* MUTANT: the access does not wait for the one before.                    *)
AccessNoWait(c) ==
    /\ step = "idle"
    /\ call' = c
    /\ issued' = FALSE
    /\ ret' = NoRet
    /\ step' = IF c.op = "write" THEN "data" ELSE "cmd"
    /\ UNCHANGED <<hw, timer, wait>>

(* stmmac_mdio_read or stmmac_mdio_write is called.                        *)
Access(c) ==
    /\ step = "idle"
    /\ call' = c
    /\ issued' = FALSE
    /\ ret' = NoRet
    /\ BeginWait
    /\ step' = "curr"
    /\ UNCHANGED hw

WaitCurr ==
    /\ step = "curr"
    /\ curr' = jiffies
    /\ step' = "poll"
    /\ UNCHANGED <<hw, timer, finish, polled, call, issued, ret>>

(* The register is read while MII_BUSY is set: the wait goes on ...        *)
WaitBusy ==
    /\ step = "poll"
    /\ busy
    /\ polled' = elapsed
    /\ step' = "test"
    /\ UNCHANGED <<hw, timer, finish, curr, call, issued, ret>>

(* ... or it is clear, and the access goes on, to issue its command ...    *)
WaitReady ==
    /\ step = "poll"
    /\ ~busy /\ ~issued
    /\ EndWait
    /\ step' = IF call.op = "write" THEN "data" ELSE "cmd"
    /\ UNCHANGED <<hw, call, issued, ret>>

(* ... or, when the command is done, to its result.                        *)
WaitDone ==
    /\ step = "poll"
    /\ ~busy /\ issued
    /\ EndWait
    /\ IF call.op = "write" THEN Return("ok", NoVal)
       ELSE step' = "result" /\ UNCHANGED <<call, issued, ret>>
    /\ UNCHANGED hw

(* MUTANT: the time limit starts anew with every poll.                     *)
WaitAgainRenewed ==
    /\ step = "test"
    /\ ~TimeAfterEq(curr, finish)
    /\ step' = "curr"
    /\ finish' = (jiffies + Timeout) % Wrap
    /\ elapsed' = 0 /\ curr' = 0 /\ polled' = 0
    /\ UNCHANGED <<hw, jiffies, call, issued, ret>>

WaitAgain ==
    /\ step = "test"
    /\ ~TimeAfterEq(curr, finish)
    /\ step' = "curr"
    /\ curr' = 0 /\ polled' = 0
    /\ UNCHANGED <<hw, timer, finish, call, issued, ret>>

(* MUTANT: while (!time_after_eq(jiffies, finish)).                        *)
GiveUpNow ==
    /\ step = "test"
    /\ TimeAfterEq(jiffies, finish)
    /\ EndWait
    /\ Return("EBUSY", NoVal)
    /\ UNCHANGED hw

(* -EBUSY, from the first wait or the second.                              *)
GiveUp ==
    /\ step = "test"
    /\ TimeAfterEq(curr, finish)
    /\ EndWait
    /\ Return("EBUSY", NoVal)
    /\ UNCHANGED hw

WriteData ==
    /\ step = "data"
    /\ data' = call.val
    /\ step' = "cmd"
    /\ UNCHANGED <<phy, busy, cmd, timer, wait, call, issued, ret>>

(* The write to the address register starts the operation.  Written while  *)
(* one is under way it may be lost or take its place.                      *)
WriteCmd ==
    /\ step = "cmd"
    /\ cmd' \in {[op |-> call.op, reg |-> call.reg]} \cup (IF busy THEN {cmd} ELSE {})
    /\ busy' = TRUE
    /\ issued' = TRUE
    /\ BeginWait
    /\ step' = "curr"
    /\ UNCHANGED <<phy, data, call, ret>>

ReadData ==
    /\ step = "result"
    /\ Return("ok", data)
    /\ UNCHANGED <<hw, timer, wait>>

(* stmmac_mdio_reset writes 0 to the address register, which may end an    *)
(* operation that is under way.                                            *)
Reset ==
    /\ step = "idle"
    /\ busy' \in {busy, FALSE}
    /\ UNCHANGED <<phy, cmd, data, timer, wait, step, call, issued, ret>>

-----------------------------------------------------------------------------
(* The hardware ends its operation and clears MII_BUSY.                    *)
Complete ==
    /\ busy
    /\ busy' = FALSE
    /\ IF cmd.op = "read"
       THEN data' = phy[cmd.reg] /\ UNCHANGED phy
       ELSE phy' = [phy EXCEPT ![cmd.reg] = data] /\ UNCHANGED data
    /\ UNCHANGED <<cmd, timer, wait, step, call, issued, ret>>

(* Time matters only while somebody waits.                                 *)
Tick ==
    /\ step \in {"curr", "poll", "test"}
    /\ elapsed < MaxWait
    /\ jiffies' = (jiffies + 1) % Wrap
    /\ elapsed' = elapsed + 1
    /\ UNCHANGED <<hw, wait, step, call, issued, ret>>

AccessStep == WaitCurr \/ WaitBusy \/ WaitReady \/ WaitDone \/ WaitAgain
              \/ GiveUp \/ WriteData \/ WriteCmd \/ ReadData

MdioNext == (\E c \in Calls : Access(c)) \/ AccessStep \/ Reset
            \/ Complete \/ Tick

MdioSpec == (\E content \in [Regs -> Values] : MdioInit(content))
            /\ [][MdioNext]_mvars

-----------------------------------------------------------------------------
(* Type invariant.                                                         *)
MdioTypeOK ==
    /\ phy \in [Regs -> Values] /\ data \in Values
    /\ busy \in BOOLEAN
    /\ cmd \in [op : {"read", "write"}, reg : Regs]
    /\ jiffies \in 0 .. Wrap - 1
    /\ step \in {"idle", "curr", "poll", "test", "data", "cmd", "result"}
    /\ call \in Calls
    /\ issued \in BOOLEAN
    /\ finish \in 0 .. Wrap - 1 /\ curr \in 0 .. Wrap - 1
    /\ elapsed \in 0 .. MaxWait /\ polled \in 0 .. MaxWait
    /\ ret \in [status : {"none", "ok", "EBUSY"}, val : Values]

(* The operation under way, with the value the hardware would write.       *)
Late == IF ~busy THEN [op |-> "none"]
        ELSE IF cmd.op = "write"
             THEN [op |-> "write", reg |-> cmd.reg, val |-> data]
             ELSE [op |-> "read", reg |-> cmd.reg]

(* Two busy waits, a command and a data register make the memory of        *)
(* PhyRegs: a read that succeeds returns the content of the register it    *)
(* names, a write that succeeds has been done, nothing is issued while     *)
(* something is under way.                                                 *)
Memory == INSTANCE PhyRegs WITH active <- step # "idle", late <- Late
MemoryImplemented == Memory!Spec

(* -EBUSY is returned only when MII_BUSY was seen set 3 * HZ after the     *)
(* wait began or later, also across a wrap of jiffies and when the caller  *)
(* lost the processor between any two of its steps.                        *)
NoFalseTimeout ==
    [][ret'.status = "EBUSY" /\ step = "test" /\ step' = "idle"
          => polled >= Timeout]_mvars

=============================================================================
