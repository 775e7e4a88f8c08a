------------------------------ MODULE MCCharNet ------------------------------
(* An instance of CharNet for TLC: two addresses, with PHYs at none, one   *)
(* or both of them.                                                        *)
EXTENDS CharNet

TwoAddrs == {0, 1}
AllRegs  == [addr : TwoAddrs, reg : {"id", "ctl"}]
ThreeValues == {1, 2, 3}
AllFail  == {"region", "driver", "map", "irq", "alloc"}
=============================================================================
