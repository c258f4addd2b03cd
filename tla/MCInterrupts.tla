----------------------------- MODULE MCInterrupts -----------------------------
(***************************************************************************)
(* Instances of the interrupt controllers for TLC: the PLIC with two       *)
(* programs, the CLIC with four.                                           *)
(***************************************************************************)
EXTENDS Interrupts, TLC

\* Each hart's context has its number.
MCContextOf == [h \in 0 .. 1 |-> h]

\* Two harts share two sources; and one source with handlers that enable and disable, and the
\* affinity calls.
MCClients == {
  [sources |-> {1, 2}, priorities |-> {3}, thresholds |-> {}, nested |-> FALSE, affinity |-> FALSE],
  [sources |-> {1}, priorities |-> {}, thresholds |-> {1}, nested |-> TRUE, affinity |-> TRUE]}

\* Levels, priorities and modes; the handler of the software interrupt, which is the hart's
\* own, with NULL that replaces the pointer; that of a local one; and both, with NULL that
\* leaves the pointer.
MCModes == {"nonvectored", "selective", "vectored"}
MCUsers == {
  [handled |-> {}, null |-> "program", modes |-> MCModes, bytes |-> {16},
   thresholds |-> {0, 3, 4, 8}, levels |-> {{}, {7}, {4, 6}, {0, 5, 7}}],
  [handled |-> {3}, null |-> "program", modes |-> MCModes, bytes |-> {3},
   thresholds |-> {}, levels |-> {{}}],
  [handled |-> {16}, null |-> "program", modes |-> MCModes, bytes |-> {16},
   thresholds |-> {}, levels |-> {{}}],
  [handled |-> {3, 16}, null |-> "clic", modes |-> {"nonvectored"}, bytes |-> {},
   thresholds |-> {}, levels |-> {}]}

\* A program of an instruction of one halfword and one of two.
MCCode == 0 :> 1 @@ 1 :> 3 @@ 2 :> 2

ASSUME ControllersAssumption /\ Plic!ContextAssumption
===============================================================================
