---------------------------------- MODULE Pmp ----------------------------------
(***************************************************************************)
(* Physical memory protection (freedom-metal, pmp.c): a program that       *)
(* initialises, configures and locks the regions of its hart, and the      *)
(* hart's registers, which have a granularity of their own.                *)
(* Addresses are those of pmpaddr, in units of four bytes.                 *)
(***************************************************************************)
EXTENDS Integers

CONSTANTS
  Regions,    \* __metal_driver_cpu_num_pmp_regions
  G,          \* the hart's granularity is 2^(G + 2) bytes
  Bits,       \* bits of pmpaddr
  Asks        \* addresses asked for

GranularityAssumption == Bits \in Nat /\ G \in 0 .. Bits - 1 /\ Asks \subseteq 0 .. 2 ^ Bits - 2

\* The law of powers, which are defined by recursion.
PowersAssumption ==
  /\ 2 ^ 0 = 1 /\ 2 ^ 1 = 2
  /\ \A j \in 0 .. Bits + 3 : 2 ^ j \in Nat \ {0}
  /\ \A j, k \in 0 .. Bits + 3 : j + k <= Bits + 3 => 2 ^ (j + k) = 2 ^ j * 2 ^ k

VARIABLES
  pmpcfg, pmpaddr,   \* the registers, per region
  granularity,       \* _granularity of this hart; 0 before metal_pmp_init
  wanted,            \* per region, the configuration and address that was accepted last
  rc                 \* what the last call returned

pmpVars == <<pmpcfg, pmpaddr, granularity, wanted, rc>>

Region == 0 .. Regions - 1
Mode == {"OFF", "TOR", "NA4", "NAPOT"}
Config == [L : BOOLEAN, A : Mode, R : BOOLEAN]   \* W and X are as R
Off == [L |-> FALSE, A |-> "OFF", R |-> FALSE]

-----------------------------------------------------------------------------
(* The registers. *)

\* Below the granularity a naturally aligned power of two reads ones, and the others zeros.
Seen(a, mode) ==
  IF mode = "NAPOT" THEN (IF G < 2 THEN a ELSE a - (a % 2 ^ (G - 1)) + 2 ^ (G - 1) - 1)
  ELSE a - (a % 2 ^ G)

TrailingOnes(a) == CHOOSE k \in 0 .. Bits : a % 2 ^ k = 2 ^ k - 1 /\ (a \div 2 ^ k) % 2 = 0
TrailingZeros(a) == CHOOSE k \in 0 .. Bits : a % 2 ^ k = 0 /\ (a \div 2 ^ k) % 2 = 1

\* What a naturally aligned power of two covers, its base and its size.
Covers(a) == <<a - (a % 2 ^ TrailingOnes(a)), 2 ^ (TrailingOnes(a) + 1)>>

PmpInit ==
  /\ pmpcfg = [r \in Region |-> Off] /\ pmpaddr \in [Region -> {0, 2 ^ Bits - 2}]
  /\ granularity = 0 /\ rc = 0
  /\ wanted = [r \in Region |-> [config |-> Off, address |-> Seen(pmpaddr[r], "OFF")]]

-----------------------------------------------------------------------------
(* The driver.  Each call is one step: nothing else changes the registers. *)

\* A region past the last, which is let through, reads as zero.
get_region(r) ==
  IF r \in Region THEN [config |-> pmpcfg[r], address |-> Seen(pmpaddr[r], pmpcfg[r].A)]
  ELSE [config |-> Off, address |-> 0]

pmpaddr_granularity(a) == 2 ^ (TrailingOnes(a) + 3)

\* Slip: the granularity of a range is not looked at.
Refusal_coarse(r, config, address) ==
  CASE r > Regions -> 2
    [] config.A = "NA4" /\ granularity > 4 -> 3
    [] get_region(r).config.L -> 4
    [] OTHER -> 0
\* The checks of metal_pmp_set_region, in their order.
Refusal(r, config, address) ==
  CASE r > Regions -> 2
    [] config.A = "NA4" /\ granularity > 4 -> 3
    [] config.A = "NAPOT" /\ granularity > pmpaddr_granularity(address) -> 3
    [] get_region(r).config.L -> 4
    [] OTHER -> 0

\* Slip: the configuration first; once the region is locked its address stays.
Write_config_first(r, config, address) ==
  /\ pmpcfg' = IF r \in Region THEN [pmpcfg EXCEPT ![r] = config] ELSE pmpcfg
  /\ pmpaddr' = IF r \in Region /\ ~config.L THEN [pmpaddr EXCEPT ![r] = address] ELSE pmpaddr
\* The address first, if it reads differently; then the configuration.
Write(r, config, address) ==
  /\ pmpaddr' = IF r \in Region /\ get_region(r).address # address
                THEN [pmpaddr EXCEPT ![r] = address] ELSE pmpaddr
  /\ pmpcfg' = IF r \in Region THEN [pmpcfg EXCEPT ![r] = config] ELSE pmpcfg

\* metal_pmp_set_region; asked is what the caller wants of the region.
Set(r, config, address, asked) ==
  /\ rc' = Refusal(r, config, address)
  /\ IF rc' # 0 THEN UNCHANGED <<pmpcfg, pmpaddr, wanted>>
     ELSE /\ Write(r, config, address)
          /\ wanted' = IF r \in Region THEN [wanted EXCEPT ![r] = asked] ELSE wanted
  /\ UNCHANGED granularity

metal_pmp_set_region(r, config, address) ==
  Set(r, config, address, [config |-> config, address |-> address])

\* metal_pmp_set_address, _set_address_mode, _set_readable: what is read, with one field new.
\* A caller who sets the rest means the address that reads back.
metal_pmp_set_address(r, address) ==
  LET old == get_region(r) IN
  Set(r, old.config, address, [config |-> old.config, address |-> address])
metal_pmp_set_field(r, config) ==
  LET old == get_region(r) IN
  Set(r, config, old.address, [config |-> config, address |-> old.address])
metal_pmp_set_address_mode(r, A) == metal_pmp_set_field(r, [get_region(r).config EXCEPT !.A = A])
metal_pmp_set_readable(r, R) == metal_pmp_set_field(r, [get_region(r).config EXCEPT !.R = R])

\* metal_pmp_lock: a locked region is not written again.
metal_pmp_lock(r) ==
  IF get_region(r).config.L THEN rc' = 0 /\ UNCHANGED <<pmpcfg, pmpaddr, wanted, granularity>>
  ELSE metal_pmp_set_field(r, [get_region(r).config EXCEPT !.L = TRUE])

\* Slip: the granularity is read with the ones of the range's own.
Detected_fine(a) == IF a = 0 THEN 2 ^ (Bits + 3) ELSE 2 ^ (TrailingZeros(a) + 1)
\* 0 stands for more than any granularity.
Detected(a) == IF a = 0 THEN 2 ^ (Bits + 3) ELSE 2 ^ (TrailingZeros(a) + 2)

\* Slip: regions keep their configuration, so a range's ones are read back.
metal_pmp_init_keeps ==
  /\ rc' = 0
  /\ granularity' = IF pmpcfg[0].L THEN granularity ELSE Detected(Seen(2 ^ Bits - 1, pmpcfg[0].A))
  /\ UNCHANGED <<pmpcfg, pmpaddr, wanted>>

\* metal_pmp_init: every unlocked region is switched off, and is at 0 unless it reads so already;
\* then ones are written to region 0, read back and cleared, unless it is locked.
metal_pmp_init ==
  LET free(r) == ~pmpcfg[r].L IN
  /\ pmpcfg' = [r \in Region |-> IF free(r) THEN Off ELSE pmpcfg[r]]
  /\ pmpaddr' = [r \in Region |-> IF free(r) /\ (r = 0 \/ get_region(r).address # 0) THEN 0 ELSE pmpaddr[r]]
  /\ wanted' = [r \in Region |-> IF free(r) THEN [config |-> Off, address |-> 0] ELSE wanted[r]]
  /\ granularity' = IF free(0) THEN Detected(Seen(2 ^ Bits - 1, "OFF")) ELSE granularity
  /\ rc' = 0

\* Ranges whose top is another region's bottom are not locked, and lie on the granularity.
Sensible(config, address) ==
  config.A = "TOR" => ~config.L /\ address % 2 ^ G = 0

\* The program's calls, after metal_pmp_init.
Call ==
  \/ \E r \in 0 .. Regions : metal_pmp_lock(r)
  \/ \E r \in 0 .. Regions + 1, config \in Config, a \in Asks :
       Sensible(config, a) /\ metal_pmp_set_region(r, config, a)
  \/ \E r \in Region, a \in Asks : Sensible(pmpcfg[r], a) /\ metal_pmp_set_address(r, a)
  \/ \E r \in Region, A \in Mode \ {"TOR"} : metal_pmp_set_address_mode(r, A)
  \/ \E r \in Region, R \in BOOLEAN : metal_pmp_set_readable(r, R)
PmpNext == metal_pmp_init \/ (granularity # 0 /\ Call)
PmpSpec == PmpInit /\ [][PmpNext]_pmpVars

-----------------------------------------------------------------------------
(* Properties. *)

\* A region that a call accepted is configured as the call asked, and a naturally aligned range
\* covers exactly what was asked, whatever the calls before and after it (pmp.c:54-63,
\* 109-259).
RegionAsAsked ==
  \A r \in Region :
    /\ pmpcfg[r] = wanted[r].config
    /\ pmpcfg[r].A = "NAPOT" => Covers(Seen(pmpaddr[r], "NAPOT")) = Covers(wanted[r].address)
    /\ pmpcfg[r].A = "NA4" => G = 0
===============================================================================
