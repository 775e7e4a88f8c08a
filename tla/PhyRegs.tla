------------------------------- MODULE PhyRegs -------------------------------
(***************************************************************************)
(* What the MDIO bus promises its callers: the registers of the PHYs as a  *)
(* memory that one access at a time reads or writes.  An access is issued  *)
(* at most once, and only when nothing issued before it is still under     *)
(* way.  It returns success only after it has taken effect, a read with    *)
(* the content of the register.  It may also give up with -EBUSY; what it  *)
(* has issued may then still take effect, until the next access is issued. *)
(***************************************************************************)
CONSTANTS Regs, Values

VARIABLES phy,            \* content of the registers
          active, call,   \* an access runs, and which
          issued,         \* it has been given to the hardware
          late,           \* what the hardware is at
          ret             \* what the last access returned

vars == <<phy, active, call, issued, late, ret>>

Calls == [op : {"read", "write"}, reg : Regs, val : Values]
None  == [op |-> "none"]
NoRet == [status : {"none"}, val : Values]

Init ==
    /\ phy \in [Regs -> Values]
    /\ active = FALSE
    /\ call \in Calls
    /\ issued = FALSE
    /\ late = None
    /\ ret \in NoRet

Start ==
    /\ ~active
    /\ active' = TRUE
    /\ call' \in Calls
    /\ issued' = FALSE
    /\ ret' \in NoRet
    /\ UNCHANGED <<phy, late>>

Issue ==
    /\ active /\ ~issued
    /\ late = None
    /\ issued' = TRUE
    /\ late' = IF call.op = "write" THEN call
                ELSE [op |-> "read", reg |-> call.reg]
    /\ UNCHANGED <<phy, active, call, ret>>

Land ==
    /\ late # None
    /\ phy' = IF late.op = "write" THEN [phy EXCEPT ![late.reg] = late.val]
                                   ELSE phy
    /\ late' = None
    /\ UNCHANGED <<active, call, issued, ret>>

(* A reset of the bus, between two accesses.                               *)
Drop ==
    /\ ~active
    /\ late' = None
    /\ UNCHANGED <<phy, active, call, issued, ret>>

Return(status, v) ==
    /\ active' = FALSE
    /\ call' \in Calls
    /\ issued' = FALSE
    /\ ret' = [status |-> status, val |-> v]

ReadOk ==
    /\ active /\ issued /\ call.op = "read"
    /\ late = None
    /\ Return("ok", phy[call.reg])
    /\ UNCHANGED <<phy, late>>

WriteOk ==
    /\ active /\ issued /\ call.op = "write"
    /\ late = None
    /\ \E v \in Values : Return("ok", v)
    /\ UNCHANGED <<phy, late>>

GiveUp ==
    /\ active
    /\ \E v \in Values : Return("EBUSY", v)
    /\ UNCHANGED <<phy, late>>

Next == Start \/ Issue \/ Land \/ Drop \/ ReadOk \/ WriteOk
        \/ GiveUp

Spec == Init /\ [][Next]_vars
=============================================================================
