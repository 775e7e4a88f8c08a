---------------------------- MODULE MCStmmacPltfr ----------------------------
(* An instance of StmmacPltfr for TLC: one RGMII board with a regulator    *)
(* and every clock, one RMII board with a power pin, a chip without the    *)
(* GRF register and one clock missing.                                     *)
EXTENDS StmmacPltfr

TwoBoards ==
    {[pmu |-> TRUE, grf |-> TRUE, iface |-> "rgmii",
      have |-> Clocks, rate |-> 125000000],
     [pmu |-> FALSE, grf |-> TRUE, iface |-> "rmii",
      have |-> Clocks \ {"clk_mac_ref"}, rate |-> 24000000],
     [pmu |-> FALSE, grf |-> FALSE, iface |-> "rgmii",
      have |-> Clocks, rate |-> 59999999]}

TwoModes == {[speed |-> 1000, duplex |-> "full"],
             [speed |-> 100, duplex |-> "full"],
             [speed |-> 10, duplex |-> "half"]}

OneLine  == {"wol"}
AllSteps == {"mdio", "phy", "dma", "mac", "wol"}
=============================================================================
