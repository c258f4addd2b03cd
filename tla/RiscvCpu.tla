------------------------------- MODULE RiscvCpu -------------------------------
(***************************************************************************)
(* A hart's interrupts and exceptions (riscv_cpu.c, vector.S) with the     *)
(* CLINT that is wired to it (riscv_clint0.c).  A trap finds its way       *)
(* through mtvec, the vector table or the common handler, the tables of    *)
(* handlers, and the pointer to the CLINT that its initialisation leaves   *)
(* beside its handlers.  Other harts send this one software interrupts.    *)
(* Left out: the bus error unit, which no call of this driver enables; a   *)
(* trap handler that the program installed before; handlers that enable    *)
(* interrupts or register.                                                 *)
(***************************************************************************)
EXTENDS Integers

CONSTANTS
  Clint,      \* the lines of the CLINT to the hart: SW, and TMR or not
  Local,      \* the ids that the program registers with the hart: local ones, or EXT
  Codes,      \* the exceptions that it raises and handles
  Functions,  \* its handlers of interrupts, each with data of its own
  Size,       \* of the program, in halfwords
  Code,       \* their low two bits
  Starts      \* those where instructions start

SW == 3
TMR == 7
EXT == 11
Breakpoint == 3
Ids == Clint \cup Local

\* The program is a loop of instructions of one halfword or two (3 in the low bits).
CodeAssumption ==
  /\ SW \in Clint /\ Clint \subseteq {SW, TMR}
  /\ Codes \subseteq 0 .. 11
  /\ Code \in [0 .. Size - 1 -> 0 .. 3] /\ 0 \in Starts
  /\ \A a \in Starts : (a + (IF Code[a] = 3 THEN 2 ELSE 1)) % Size \in Starts

\* Handlers have names of their own.
FunctionsAssumption == Functions \cap {"null", "none", "default"} = {}

VARIABLES
  inited,    \* the controllers that are: "cpu", "clint"
  mtvec,     \* "early", "direct" or "vectored"
  gie, saved,              \* mstatus: MIE and MPIE
  mie, pc, mepc,
  ints,      \* metal_int_table: [is, priv, sub]
  excs,      \* metal_exception_table
  reg,       \* the registration under way: [id, fn], or Nothing
  at,        \* the handler that runs: [kind, id, is, priv], or Main
  served,    \* it has done its work
  lines,     \* the interrupts that are pending at the hart
  given,     \* for an id: "none", "default" or what the program registered last
  caught,    \* the codes for which it registered a handler
  stopped    \* why the program is over, or "no"

csrs == <<mtvec, gie, saved, mie, mepc>>
tables == <<ints, excs, given, caught>>
running == <<at, served, pc>>
cpuVars == <<inited, csrs, tables, reg, running, lines, stopped>>

Nothing == [id |-> 0, fn |-> "none"]
Main == [kind |-> "main", id |-> 0, is |-> "none", priv |-> "none"]
Empty == [is |-> "null", priv |-> "null", sub |-> "null"]

CpuInit ==
  /\ inited = {} /\ mtvec = "early" /\ gie = FALSE /\ saved = TRUE /\ mie = {} /\ pc = 0 /\ mepc = 0
  /\ ints = [i \in Ids |-> Empty] /\ excs = [c \in Codes \cup {Breakpoint} |-> "null"]
  /\ reg = Nothing /\ at = Main /\ served = FALSE /\ lines = {} /\ stopped = "no"
  /\ given = [i \in Ids |-> "none"] /\ caught = {}

-----------------------------------------------------------------------------
(* The program's calls. *)

Running == stopped = "no"
Calling == Running /\ at = Main /\ reg = Nothing

\* Slip: the tables are cleared each time.
cpu_init_again ==
  /\ Calling /\ inited' = inited \cup {"cpu"}
  /\ ints' = [i \in Ids |-> Empty] /\ excs' = [c \in DOMAIN excs |-> "exit"]
  /\ mtvec' = (IF mtvec = "early" THEN "direct" ELSE mtvec)
  /\ UNCHANGED <<gie, saved, mie, mepc, given, caught, reg, running, lines, stopped>>

\* Once: no handlers, the exceptions' default one, and the common handler in mtvec.
cpu_init ==
  /\ Calling /\ "cpu" \notin inited /\ inited' = inited \cup {"cpu"}
  /\ ints' = [i \in Ids |-> Empty] /\ excs' = [c \in DOMAIN excs |-> "exit"]
  /\ mtvec' = (IF mtvec = "early" THEN "direct" ELSE mtvec)
  /\ UNCHANGED <<gie, saved, mie, mepc, given, caught, reg, running, lines, stopped>>

Default(i) == IF i = SW THEN "sw" ELSE IF i = TMR THEN "timer" ELSE "exit"

\* Slip: the default handlers are registered each time.
clint0_init_again ==
  /\ Calling /\ "cpu" \in inited /\ inited' = inited \cup {"clint"}
  /\ ints' = [i \in Ids |->
                IF i \in Clint THEN [ints[i] EXCEPT !.is = Default(i), !.sub = "clint"] ELSE ints[i]]
  /\ given' = [i \in Ids |-> IF i \in Clint /\ given[i] = "none" THEN "default" ELSE given[i]]
  /\ UNCHANGED <<csrs, excs, caught, reg, running, lines, stopped>>

\* Once, and after the hart (interrupts.rst): both lines get their default handlers, and
\* the table the pointer to the CLINT.
clint0_init ==
  /\ Calling /\ "cpu" \in inited /\ "clint" \notin inited /\ inited' = inited \cup {"clint"}
  /\ ints' = [i \in Ids |->
                IF i \in Clint THEN [ints[i] EXCEPT !.is = Default(i), !.sub = "clint"] ELSE ints[i]]
  /\ given' = [i \in Ids |-> IF i \in Clint /\ given[i] = "none" THEN "default" ELSE given[i]]
  /\ UNCHANGED <<csrs, excs, caught, reg, running, lines, stopped>>

\* A controller is initialised before its interrupts are registered (interrupt.h).
Registers(i) == Calling /\ (IF i \in Clint THEN "clint" ELSE "cpu") \in inited

\* The handler, then its data: a trap may come between.
register_handler(i) ==
  /\ Registers(i)
  /\ \E f \in Functions :
       /\ ints' = [ints EXCEPT ![i].is = f] /\ reg' = [id |-> i, fn |-> f]
  /\ UNCHANGED <<inited, csrs, excs, given, caught, running, lines, stopped>>

\* Slip: the data goes where the pointer to the CLINT is.
register_data_sub ==
  /\ Running /\ at = Main /\ reg # Nothing /\ reg' = Nothing
  /\ ints' = [ints EXCEPT ![reg.id].sub = reg.fn] /\ given' = [given EXCEPT ![reg.id] = reg.fn]
  /\ UNCHANGED <<inited, csrs, excs, caught, running, lines, stopped>>

register_data ==
  /\ Running /\ at = Main /\ reg # Nothing /\ reg' = Nothing
  /\ ints' = [ints EXCEPT ![reg.id].priv = reg.fn] /\ given' = [given EXCEPT ![reg.id] = reg.fn]
  /\ UNCHANGED <<inited, csrs, excs, caught, running, lines, stopped>>

\* NULL for the default handler; what comes with it replaces the pointer, so it is the
\* controller again for the CLINT's lines.
register_null(i) ==
  /\ Registers(i)
  /\ ints' = [ints EXCEPT ![i].is = Default(i),
                          ![i].sub = IF i \in Clint THEN "clint" ELSE "program"]
  /\ given' = [given EXCEPT ![i] = "default"]
  /\ UNCHANGED <<inited, csrs, excs, caught, reg, running, lines, stopped>>

exception_register(c) ==
  /\ Calling /\ "cpu" \in inited
  /\ excs' = [excs EXCEPT ![c] = "program"] /\ caught' = caught \cup {c}
  /\ UNCHANGED <<inited, csrs, ints, given, reg, running, lines, stopped>>

\* An interrupt is enabled when it has a handler, by one instruction on mie.
local_interrupt_enable(i) ==
  /\ Calling /\ given[i] # "none" /\ mie' \in {mie \cup {i}, mie \ {i}}
  /\ UNCHANGED <<inited, mtvec, gie, saved, mepc, tables, reg, running, lines, stopped>>

global_enable ==
  /\ Calling /\ "cpu" \in inited /\ gie' \in BOOLEAN
  /\ UNCHANGED <<inited, mtvec, saved, mie, mepc, tables, reg, running, lines, stopped>>

set_vector_mode ==
  /\ Calling /\ "cpu" \in inited /\ mtvec' \in {"direct", "vectored"}
  /\ UNCHANGED <<inited, gie, saved, mie, mepc, tables, reg, running, lines, stopped>>

\* To itself: refused without the pointer.
set_sw_ipi ==
  /\ Calling /\ ints[SW].sub = "clint" /\ lines' = lines \cup {SW}
  /\ UNCHANGED <<inited, csrs, tables, reg, running, stopped>>

\* Slip: an instruction of one halfword is taken for one of two.
get_instruction_length_of_two(a) == IF Code[a] # 3 THEN 2 ELSE 1
get_instruction_length(a) == IF Code[a] = 3 THEN 2 ELSE 1

Instruction ==
  /\ Calling /\ pc' = (pc + (IF Code[pc] = 3 THEN 2 ELSE 1)) % Size
  /\ UNCHANGED <<inited, csrs, tables, reg, at, served, lines, stopped>>

-----------------------------------------------------------------------------
(* Traps. *)

Enter(kind, i, is, priv) ==
  /\ at' = [kind |-> kind, id |-> i, is |-> is, priv |-> priv] /\ served' = FALSE
  /\ mepc' = pc /\ saved' = gie /\ gie' = FALSE
  /\ UNCHANGED <<inited, mtvec, mie, tables, reg, pc, lines, stopped>>

\* Directly or through its own row, an interrupt comes to the table of the hart; the row
\* of EXT and the first, where exceptions come, end the program.
Interrupt(i) ==
  /\ Running /\ at = Main /\ gie /\ i \in mie \cap lines
  /\ IF mtvec = "vectored" /\ i = EXT THEN Enter("interrupt", i, "exit", "none")
     ELSE Enter("interrupt", i, ints[i].is, ints[i].priv)

Exception(c) ==
  /\ Calling
  /\ Enter("exception", c, IF mtvec = "direct" THEN excs[c] ELSE "exit", "none")

Finish == served' = TRUE /\ UNCHANGED <<inited, mtvec, gie, saved, mie, tables, reg, at, pc, stopped>>
Exit ==
  /\ stopped' = at.is
  /\ UNCHANGED <<inited, csrs, tables, reg, running, lines>>

\* The program's handler of an exception returns behind the instruction, or to it.
Advance ==
  \/ mepc' = (mepc + get_instruction_length(mepc)) % Size
  \/ UNCHANGED mepc

\* Slip: the software interrupt stays.
Quieted_not(i) ==
  IF i = SW THEN lines \cup {SW} ELSE
  IF i \in Clint /\ ints[i].sub # "clint" THEN lines ELSE lines \ {i}

\* The handler quiets its interrupt, those of the CLINT through the pointer.
Quieted(i) == IF i \in Clint /\ ints[i].sub # "clint" THEN lines ELSE lines \ {i}

\* The default handlers: a timer is set again; a software interrupt is taken for the
\* exception of its number; the others end the program.
Serve ==
  /\ Running /\ at # Main /\ ~served
  /\ \/ at.is \in {"exit", "null"} /\ Exit
     \/ at.is = "sw" /\ excs[Breakpoint] = "exit" /\ Exit
     \/ /\ \/ at.is = "sw" /\ excs[Breakpoint] # "exit"
           \/ at.kind = "exception" /\ at.is = "program"
        /\ Advance /\ UNCHANGED lines /\ Finish
     \/ /\ at.kind = "interrupt" /\ at.is \in Functions \cup {"timer"}
        /\ lines' = Quieted(at.id) /\ UNCHANGED mepc /\ Finish

\* mepc is not looked at outside the handlers, so its old value is forgotten.
Return ==
  /\ Running /\ at # Main /\ served
  /\ at' = Main /\ served' = FALSE /\ pc' = mepc /\ gie' = saved /\ saved' = TRUE /\ mepc' = 0
  /\ UNCHANGED <<inited, mtvec, mie, tables, reg, lines, stopped>>

\* Other harts and devices.
Raise ==
  /\ Running /\ \E i \in Ids : lines' = lines \cup {i}
  /\ UNCHANGED <<inited, csrs, tables, reg, running, stopped>>

Traps == (\E i \in Ids : Interrupt(i)) \/ Serve \/ Return

CpuNext ==
  \/ cpu_init \/ clint0_init \/ register_data \/ global_enable \/ set_vector_mode \/ set_sw_ipi
  \/ \E i \in Ids : register_handler(i) \/ register_null(i) \/ local_interrupt_enable(i)
  \/ \E c \in Codes : exception_register(c) \/ Exception(c)
  \/ Instruction \/ Traps \/ Raise

CpuSpec == CpuInit /\ [][CpuNext]_cpuVars

-----------------------------------------------------------------------------
(* Properties. *)

\* What a trap calls, if the program has a handler for it that it is not just registering.
CallsIts(f) == at'.is = f /\ (at'.kind = "interrupt" => at'.priv = f)
Entered == at = Main /\ at' # Main
Asked ==
  IF at'.kind = "interrupt" THEN given[at'.id] ELSE IF at'.id \in caught THEN "program" ELSE "none"
Settled == Asked \notin {"none", "default"} /\ ~ (at'.kind = "interrupt" /\ at'.id = reg.id)

\* A trap calls the handler that the program registered last for it, with its data, in
\* whatever mode and order the controllers were initialised; but for exceptions and EXT
\* in the vectored mode (riscv_cpu.c:168-206, 453-549).
HandlerReached ==
  [][Entered /\ Settled /\ (mtvec = "vectored" => at'.kind = "interrupt" /\ at'.id # EXT)
       => CallsIts(Asked)]_cpuVars

\* An exception calls "the corresponding exception handler function, if one has been
\* registered by the application" (devguide/exceptions.rst:5-7).
ExceptionHandled ==
  [][Entered /\ at'.kind = "exception" /\ Settled => CallsIts(Asked)]_cpuVars

\* What is enabled has a handler, the CLINT is reached through the tables whatever was
\* registered, and the program goes on where an instruction starts
\* (riscv_cpu.c:453-549, 810-821).
Sound ==
  /\ \A i \in mie : ints[i].is # "null"
  /\ "clint" \in inited => \A i \in Clint : ints[i].sub = "clint"
  /\ pc \in Starts

\* A software interrupt is served, unless it is masked, others keep the hart busy, or it
\* was left to the default handler (riscv_cpu.c:740-755, riscv_clint0.c:211-243).
IpiDone ==
  \/ SW \notin lines \cap mie \/ ~Running \/ given[SW] \notin Functions
  \/ (at = Main /\ ~gie) \/ \E i \in mie \cap lines : i # SW
IpiServed == []<>IpiDone
===============================================================================
