------------------------------ MODULE MCNetDev ------------------------------
(* Instances of NetDev for TLC: the board's lines and the failing steps.   *)
EXTENDS NetDev

BothLines   == {"wol", "lpi"}
AllSteps    == {"mdio", "phy", "dma", "mac", "wol", "lpi"}
LateSteps   == {"mac"}
=============================================================================
