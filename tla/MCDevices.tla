------------------------------- MODULE MCDevices -------------------------------
(***************************************************************************)
(* The instance of Devices that is checked.                                *)
(***************************************************************************)
EXTENDS Devices

\* The SPI: every protocol and choice of wires, with and without the stages before the data.
Config(p, m, c, a, d) == [protocol |-> p, multi_wire |-> m, cmd |-> c, addr |-> a, dummy |-> d]
MCConfigs ==
  {Config("QUAD", m, s[1], s[2], s[2]) : m \in {"DATA_ONLY", "ADDR_DATA"}, s \in {<<0, 0>>, <<1, 0>>, <<1, 1>>}} \cup
  {Config("QUAD", "ALL", n, n, n) : n \in {0, 1}} \cup
  {Config("SINGLE", "ALL", 1, 0, 0)}

\* The I2C: calls of each kind and direction, and of no bytes.
Call(o, t, r, s) == [op |-> o, tx |-> t, rx |-> r, stop |-> s]
MCI2cCalls ==
  {Call("write", n, 0, s) : n \in 0 .. 2, s \in BOOLEAN} \cup
  {Call("read", 0, n, s) : n \in {1, 2}, s \in BOOLEAN} \cup
  {Call("transfer", n, m, FALSE) : n, m \in 0 .. 2}

ASSUME DevicesAssumption /\ G # 1 /\ ExactAssumption /\ Len(pll_configs) = num_configs
===============================================================================
