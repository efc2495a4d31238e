-------------------------------- MODULE Irq --------------------------------
(***************************************************************************)
(* From boot to served interrupts: the set-up steps of cmain (kernel.c),   *)
(* the interrupt gates and the remapped controllers of idt.c, irq_handler  *)
(* with its end-of-interrupt commands, and the two devices with a handler  *)
(* (time.c, keybd.c).                                                      *)
(*                                                                         *)
(* External: the two 8259 controllers, the CPU's interrupt flag and the    *)
(* devices, modelled as far as the code programs them. Requests are        *)
(* edges: a device that holds its line until its data is read (the         *)
(* keyboard) raises no second edge before. The gates' stubs disable        *)
(* interrupts, so irq_handler runs with IF = 0 until its iret.             *)
(***************************************************************************)
EXTENDS Integers, FiniteSets, FiniteSetsExt

CONSTANTS
  Irqs,      \* the requests that occur, a subset of 0 .. 15
  Ticks      \* bound: edges each device raises

ASSUME IrqAssumption == /\ Irqs \subseteq 0 .. 15 /\ {0, 1} \subseteq Irqs
                        /\ Ticks \in Nat

VARIABLES
  boot,          \* next set-up step of cmain
  intFlag,       \* IF, the CPU's interrupt flag
  gates,         \* vectors with an entry in the IDT
  remapped,      \* do the controllers use vectors 32 to 47?
  irq_routines,  \* installed handlers
  irr,           \* requests latched by the controllers
  isrM, isrS,    \* requests in service at the master and at the slave
  line,          \* requests whose device holds its line high
  edges,         \* edges raised so far, per device
  cpu,           \* "main", "routine", "eoiS", "eoiM", "iret" or "fault"
  int_no,        \* vector of the interrupt in progress
  uptime,        \* timer ticks counted
  scancodes      \* scancodes read from the keyboard

bootVars == <<boot, gates, remapped, irq_routines>>
picVars  == <<irr, isrM, isrS>>
devVars  == <<line, edges>>
cpuVars  == <<intFlag, cpu, int_no, uptime, scancodes>>
vars     == <<bootVars, picVars, devVars, cpuVars>>

Slave(n)  == n >= 8
Cascade   == 2
Vector(n) == IF remapped THEN 32 + n ELSE IF Slave(n) THEN 112 + n - 8 ELSE 8 + n

Steps == {"idt", "exceptions", "remap", "gates", "keybd", "timer", "sti", "loop"}

TypeOK ==
  /\ boot \in Steps /\ gates \subseteq 0 .. 255 /\ remapped \in BOOLEAN
  /\ irq_routines \in [0 .. 15 -> {"none", "timer_handler", "keyboard_handler"}]
  /\ irr \subseteq Irqs /\ line \subseteq Irqs
  /\ isrM \subseteq 0 .. 7 /\ isrS \subseteq 8 .. 15
  /\ edges \in [Irqs -> 0 .. Ticks]
  /\ intFlag \in {0, 1} /\ cpu \in {"main", "routine", "eoiS", "eoiM", "iret", "fault"}
  /\ int_no \in 0 .. 255
  /\ uptime \in Nat /\ scancodes \in Nat

\* The boot loader hands over with interrupts disabled.
Init ==
  /\ boot = "idt" /\ gates = {} /\ remapped = FALSE
  /\ irq_routines = [n \in 0 .. 15 |-> "none"]
  /\ irr = {} /\ isrM = {} /\ isrS = {}
  /\ line = {} /\ edges = [n \in Irqs |-> 0]
  /\ intFlag = 0 /\ cpu = "main" /\ int_no = 0
  /\ uptime = 0 /\ scancodes = 0

-----------------------------------------------------------------------------
(* cmain's set-up, in its order.                                           *)

Then(step, next) == cpu = "main" /\ boot = step /\ boot' = next

\* idt_install: an empty table.
InstallIdt ==
  /\ Then("idt", "exceptions")
  /\ gates' = {}
  /\ UNCHANGED <<remapped, irq_routines, picVars, devVars, cpuVars>>

\* The 32 exception gates of init_idt.
ExceptionGates ==
  /\ Then("exceptions", "remap")
  /\ gates' = gates \cup 0 .. 31
  /\ UNCHANGED <<remapped, irq_routines, picVars, devVars, cpuVars>>

\* Mutant: the controllers keep their vectors.
NoRemap ==
  /\ Then("remap", "gates")
  /\ irr' = {} /\ isrM' = {} /\ isrS' = {}
  /\ UNCHANGED <<gates, remapped, irq_routines, devVars, cpuVars>>

\* irq_remap: the initialisation words also drop what the controllers had
\* latched, but not the lines that devices hold.
irq_remap ==
  /\ Then("remap", "gates")
  /\ remapped' = TRUE
  /\ irr' = {} /\ isrM' = {} /\ isrS' = {}
  /\ UNCHANGED <<gates, irq_routines, devVars, cpuVars>>

\* The gates of irq_install, one per request.
IrqGates ==
  /\ Then("gates", "keybd")
  /\ gates' = gates \cup 32 .. 47
  /\ UNCHANGED <<remapped, irq_routines, picVars, devVars, cpuVars>>

irq_install_handler(irq, handler) ==
  irq_routines' = [irq_routines EXCEPT ![irq] = handler]

\* Mutant: the keyboard is forgotten.
KeybdUninstalled ==
  /\ Then("keybd", "timer")
  /\ UNCHANGED <<irq_routines, gates, remapped, picVars, devVars, cpuVars>>

init_keybd ==
  /\ Then("keybd", "timer")
  /\ irq_install_handler(1, "keyboard_handler")
  /\ UNCHANGED <<gates, remapped, picVars, devVars, cpuVars>>

init_timer ==
  /\ Then("timer", "sti")
  /\ uptime' = 0
  /\ irq_install_handler(0, "timer_handler")
  /\ UNCHANGED <<gates, remapped, picVars, devVars, intFlag, cpu, int_no, scancodes>>

Sti ==
  /\ Then("sti", "loop")
  /\ intFlag' = 1
  /\ UNCHANGED <<gates, remapped, irq_routines, picVars, devVars,
                 cpu, int_no, uptime, scancodes>>

Setup == \/ InstallIdt \/ ExceptionGates \/ irq_remap \/ IrqGates
         \/ init_keybd \/ init_timer \/ Sti

-----------------------------------------------------------------------------
(* Devices and controllers.                                                *)

\* The timer's square wave falls by itself; any other device holds its line
\* until the driver reads its data.
Holds(n) == n # 0

Raise(n) ==
  /\ edges[n] < Ticks /\ n \notin line
  /\ irr' = irr \cup {n}
  /\ line' = IF Holds(n) THEN line \cup {n} ELSE line
  /\ edges' = [edges EXCEPT ![n] = @ + 1]
  /\ UNCHANGED <<bootVars, isrM, isrS, cpuVars>>

\* A request gets through unless one of the same or a higher priority is in
\* service. The slave's requests have the priority of the cascade.
Level(n) == IF Slave(n) THEN Cascade ELSE n
Passes(n) == /\ \A m \in isrM : Level(n) < m
             /\ Slave(n) => \A m \in isrS : n < m

First(n) == \A m \in irr : \/ Level(n) < Level(m)
                           \/ Level(n) = Level(m) /\ n <= m

\* The CPU takes the first request through its gate; a vector without a gate,
\* or the gate of an exception, ends in fault_handler's panic or a reset.
Take(n) ==
  /\ intFlag = 1 /\ cpu = "main"
  /\ n \in irr /\ Passes(n) /\ First(n)
  /\ irr' = irr \ {n}
  /\ isrM' = isrM \cup {Level(n)}
  /\ isrS' = IF Slave(n) THEN isrS \cup {n} ELSE isrS
  /\ int_no' = Vector(n)
  /\ intFlag' = 0
  /\ cpu' = IF Vector(n) \in gates \ 0 .. 31 THEN "routine" ELSE "fault"
  /\ UNCHANGED <<bootVars, devVars, uptime, scancodes>>

-----------------------------------------------------------------------------
(* irq_handler.                                                            *)

\* Mutant: the uptime is counted down.
RoutineCountingDown ==
  /\ cpu = "routine" /\ cpu' = "eoiS"
  /\ LET handler == irq_routines[int_no - 32]
     IN  /\ uptime' = IF handler = "timer_handler" THEN uptime - 1 ELSE uptime
         /\ IF handler = "keyboard_handler"
              THEN scancodes' = scancodes + 1 /\ line' = line \ {1}
              ELSE UNCHANGED <<scancodes, line>>
  /\ UNCHANGED <<bootVars, picVars, edges, intFlag, int_no>>

\* Run the installed handler, if there is one.
Routine ==
  /\ cpu = "routine" /\ cpu' = "eoiS"
  /\ LET handler == irq_routines[int_no - 32]
     IN  /\ uptime' = IF handler = "timer_handler" THEN uptime + 1 ELSE uptime
         /\ IF handler = "keyboard_handler"
              THEN scancodes' = scancodes + 1 /\ line' = line \ {1}
              ELSE UNCHANGED <<scancodes, line>>
  /\ UNCHANGED <<bootVars, picVars, edges, intFlag, int_no>>

\* A non-specific EOI ends the most urgent request in service.
Eoi(isr) == IF isr = {} THEN {} ELSE isr \ {Min(isr)}

\* Mutant: the test of the comment, "greater than 40".
EoiSlaveAbove40 ==
  /\ cpu = "eoiS" /\ cpu' = "eoiM"
  /\ isrS' = IF int_no > 40 THEN Eoi(isrS) ELSE isrS
  /\ UNCHANGED <<bootVars, irr, isrM, devVars, intFlag, int_no, uptime, scancodes>>

EoiSlave ==
  /\ cpu = "eoiS" /\ cpu' = "eoiM"
  /\ isrS' = IF int_no >= 40 THEN Eoi(isrS) ELSE isrS
  /\ UNCHANGED <<bootVars, irr, isrM, devVars, intFlag, int_no, uptime, scancodes>>

\* Mutant: the master is forgotten.
EoiMasterForgotten ==
  /\ cpu = "eoiM" /\ cpu' = "iret"
  /\ UNCHANGED <<bootVars, picVars, devVars, intFlag, int_no, uptime, scancodes>>

EoiMaster ==
  /\ cpu = "eoiM" /\ cpu' = "iret"
  /\ isrM' = Eoi(isrM)
  /\ UNCHANGED <<bootVars, irr, isrS, devVars, intFlag, int_no, uptime, scancodes>>

\* iret restores the flags of the interrupted code.
Iret ==
  /\ cpu = "iret" /\ cpu' = "main"
  /\ intFlag' = 1
  /\ UNCHANGED <<bootVars, picVars, devVars, int_no, uptime, scancodes>>

irq_handler == Routine \/ EoiSlave \/ EoiMaster \/ Iret

Cpu == Setup \/ irq_handler \/ \E n \in Irqs : Take(n)

\* cmain's prompt loop between interrupts.
Loop == boot = "loop" /\ cpu = "main" /\ UNCHANGED vars

Next == Cpu \/ Loop \/ \E n \in Irqs : Raise(n)

\* The CPU keeps executing and takes what the controllers present; devices
\* owe nothing.
Spec == Init /\ [][Next]_vars /\ WF_vars(Cpu)

-----------------------------------------------------------------------------
(* Properties.                                                             *)

\* No request, whenever its device raises it during boot, reaches a vector
\* without a gate or "a Double Fault Exception, which is NOT actually what's
\* happening".
NoStrayVector == cpu # "fault"

\* Every request is acknowledged where it is in service, so that none stays
\* in service after its iret and blocks the less urgent ones: "you need to
\* acknowledge the interrupt at BOTH controllers".
NothingLeftInService == cpu = "main" => isrM = {} /\ isrS = {}

\* Once the controllers are remapped, a latched keyboard request leads to
\* its scancode being read, which lets the keyboard raise the next one.
KeysRead == (remapped /\ 1 \in irr) ~> (1 \notin line)

\* Once remapped, a latched tick is counted.
TicksCounted ==
  \A k \in 0 .. Ticks : (remapped /\ 0 \in irr /\ uptime = k) ~> (uptime > k)
=============================================================================
