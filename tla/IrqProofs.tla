----------------------------- MODULE IrqProofs -----------------------------
(***************************************************************************)
(* No interrupt goes astray and none stays in service, for every set of    *)
(* requests and any number of edges. Neither property is inductive: that a *)
(* request finds its gate depends on the order of cmain's steps up to sti, *)
(* and that the end-of-interrupt commands hit the right request on there   *)
(* being only one, on interrupts being off in irq_handler.                 *)
(***************************************************************************)
EXTENDS Irq, TLAPS

\* The order of cmain: once remapped, the gates follow before sti, and until
\* sti nothing is taken.
BootOrder ==
  /\ remapped <=> boot \in {"gates", "keybd", "timer", "sti", "loop"}
  /\ boot \in {"keybd", "timer", "sti", "loop"} => 32 .. 47 \subseteq gates
  /\ (intFlag = 1 \/ cpu # "main") => boot = "loop"
  /\ cpu # "main" => intFlag = 0

\* Request n is the one in service, at one controller or at both.
InService(n) ==
  /\ int_no = 32 + n
  /\ isrM = {Level(n)}
  /\ isrS = IF Slave(n) /\ cpu # "eoiM" THEN {n} ELSE {}

\* What the controllers have in service, at each step of irq_handler.
OneInService ==
  /\ cpu \in {"main", "iret"} => isrM = {} /\ isrS = {}
  /\ cpu \in {"routine", "eoiS", "eoiM"} => \E n \in Irqs : InService(n)

IInv == TypeOK /\ BootOrder /\ OneInService /\ NoStrayVector

\* A non-specific EOI to a controller with one request in service ends it.
LEMMA EoiEmpties == ASSUME NEW n \in Int PROVE Eoi({n}) = {}
<1>1. \E x \in {n} : \A y \in {n} : x <= y
  OBVIOUS
<1>2. Min({n}) \in {n}
  BY <1>1 DEF Min
<1> QED BY <1>2 DEF Eoi

\* Boot starts with interrupts off and nothing in service.
LEMMA InitInv == Init => IInv
<1> SUFFICES ASSUME Init PROVE IInv
  OBVIOUS
<1>1. TypeOK
  <2>1. edges \in [Irqs -> 0 .. Ticks]
    BY IrqAssumption DEF Init
  <2>2. irq_routines \in [0 .. 15 -> {"none", "timer_handler", "keyboard_handler"}]
    BY DEF Init
  <2>3. remapped \in BOOLEAN
    BY DEF Init
  <2>4. /\ boot \in Steps /\ gates \subseteq 0 .. 255 /\ irr \subseteq Irqs /\ line \subseteq Irqs
        /\ isrM \subseteq 0 .. 7 /\ isrS \subseteq 8 .. 15
        /\ intFlag \in {0, 1} /\ cpu \in {"main", "routine", "eoiS", "eoiM", "iret", "fault"}
        /\ int_no \in 0 .. 255 /\ uptime \in Nat /\ scancodes \in Nat
    BY DEF Init, Steps
  <2> QED BY <2>1, <2>2, <2>3, <2>4 DEF TypeOK
<1>2. BootOrder
  BY DEF Init, BootOrder
<1>3. OneInService /\ NoStrayVector
  BY DEF Init, OneInService, NoStrayVector
<1> QED BY <1>1, <1>2, <1>3 DEF IInv

\* The set-up runs in main, with nothing in service, and leaves it so.
LEMMA SetupInv == IInv /\ Setup => IInv'
<1> SUFFICES ASSUME IInv, Setup PROVE IInv'
  OBVIOUS
<1> USE DEF IInv, Then, bootVars, picVars, devVars, cpuVars
<1>1. CASE InstallIdt
  BY <1>1 DEF InstallIdt, TypeOK, Steps, BootOrder, OneInService, NoStrayVector
<1>2. CASE ExceptionGates
  BY <1>2 DEF ExceptionGates, TypeOK, Steps, BootOrder, OneInService, NoStrayVector
<1>3. CASE irq_remap
  BY <1>3 DEF irq_remap, TypeOK, Steps, BootOrder, OneInService, NoStrayVector
<1>4. CASE IrqGates
  BY <1>4 DEF IrqGates, TypeOK, Steps, BootOrder, OneInService, NoStrayVector
<1>5. CASE init_keybd
  BY <1>5 DEF init_keybd, irq_install_handler, TypeOK, Steps, BootOrder, OneInService, NoStrayVector
<1>6. CASE init_timer
  BY <1>6 DEF init_timer, irq_install_handler, TypeOK, Steps, BootOrder, OneInService, NoStrayVector
<1>7. CASE Sti
  BY <1>7 DEF Sti, TypeOK, Steps, BootOrder, OneInService, NoStrayVector
<1> QED BY <1>1, <1>2, <1>3, <1>4, <1>5, <1>6, <1>7 DEF Setup

\* A device only latches its request.
LEMMA RaiseInv == ASSUME NEW n \in Irqs, IInv, Raise(n) PROVE IInv'
<1> USE DEF IInv, Raise, bootVars, cpuVars
<1>1. TypeOK'
  BY IrqAssumption DEF TypeOK
<1>2. BootOrder' /\ NoStrayVector'
  BY DEF BootOrder, NoStrayVector
<1>3. OneInService'
  BY DEF OneInService, InService
<1> QED BY <1>1, <1>2, <1>3

\* A request is taken only after sti, when all gates are there.
LEMMA TakeInv == ASSUME NEW n \in Irqs, IInv, Take(n) PROVE IInv'
<1> USE DEF IInv, Take, bootVars, devVars
<1>1. n \in 0 .. 15 /\ Level(n) \in 0 .. 7 /\ (Slave(n) => n \in 8 .. 15)
  BY IrqAssumption DEF Level, Slave, Cascade
<1>2. boot = "loop" /\ remapped /\ isrM = {} /\ isrS = {}
  BY DEF BootOrder, OneInService
<1>3. Vector(n) = 32 + n
  BY <1>2 DEF Vector
<1>4. Vector(n) \in gates \ 0 .. 31
  BY <1>1, <1>2, <1>3 DEF BootOrder
<1>5. cpu' = "routine" /\ int_no' = 32 + n /\ isrM' = {Level(n)}
      /\ isrS' = IF Slave(n) THEN {n} ELSE {}
  BY <1>2, <1>3, <1>4
<1>6. TypeOK'
  BY <1>1, <1>5 DEF TypeOK
<1>7. BootOrder' /\ NoStrayVector'
  BY <1>5 DEF BootOrder, NoStrayVector
<1>8. OneInService'
  BY <1>5 DEF OneInService, InService
<1> QED BY <1>6, <1>7, <1>8

\* irq_handler acknowledges the request where it is in service.
LEMMA HandlerInv == IInv /\ irq_handler => IInv'
<1> SUFFICES ASSUME IInv, irq_handler PROVE IInv'
  OBVIOUS
<1> USE DEF IInv, bootVars, picVars, devVars
<1>0. ASSUME NEW n \in Irqs
      PROVE  n \in 0 .. 15 /\ Level(n) \in Int /\ (Slave(n) <=> 32 + n >= 40)
  BY IrqAssumption DEF Level, Slave, Cascade
<1>1. CASE Routine
  <2> USE <1>1 DEF Routine
  <2>1. TypeOK'
    BY DEF TypeOK
  <2>2. BootOrder' /\ NoStrayVector'
    BY DEF BootOrder, NoStrayVector
  <2>3. OneInService'
    BY DEF OneInService, InService
  <2> QED BY <2>1, <2>2, <2>3
<1>2. CASE EoiSlave
  <2> USE <1>2 DEF EoiSlave
  <2>1. PICK n \in Irqs : InService(n)
    BY DEF OneInService
  <2>2. isrS' = {} /\ isrM' = {Level(n)} /\ int_no' = 32 + n
    <3>1. CASE Slave(n)
      BY <1>0, <2>1, <3>1, EoiEmpties DEF InService
    <3>2. CASE ~Slave(n)
      BY <1>0, <2>1, <3>2 DEF InService
    <3> QED BY <3>1, <3>2
  <2>3. TypeOK'
    BY <2>2 DEF TypeOK
  <2>4. BootOrder' /\ NoStrayVector'
    BY DEF BootOrder, NoStrayVector
  <2>5. OneInService'
    BY <2>2 DEF OneInService, InService
  <2> QED BY <2>3, <2>4, <2>5
<1>3. CASE EoiMaster
  <2> USE <1>3 DEF EoiMaster
  <2>1. PICK n \in Irqs : InService(n)
    BY DEF OneInService
  <2>2. isrM' = {} /\ isrS' = {}
    BY <1>0, <2>1, EoiEmpties DEF InService
  <2>3. TypeOK'
    BY <2>2 DEF TypeOK
  <2>4. BootOrder' /\ NoStrayVector'
    BY DEF BootOrder, NoStrayVector
  <2>5. OneInService'
    BY <2>2 DEF OneInService
  <2> QED BY <2>3, <2>4, <2>5
<1>4. CASE Iret
  BY <1>4 DEF Iret, TypeOK, BootOrder, OneInService, NoStrayVector
<1> QED BY <1>1, <1>2, <1>3, <1>4 DEF irq_handler

\* The invariant holds from boot on, whatever the devices do.
THEOREM Invariance == Spec => []IInv
<1>1. IInv /\ [Next]_vars => IInv'
  <2> SUFFICES ASSUME IInv, [Next]_vars PROVE IInv'
    OBVIOUS
  <2>1. CASE UNCHANGED vars
    BY <2>1 DEF vars, bootVars, picVars, devVars, cpuVars, IInv, TypeOK, BootOrder,
                OneInService, InService, NoStrayVector
  <2>2. CASE Cpu
    BY <2>2, SetupInv, HandlerInv, TakeInv DEF Cpu
  <2>3. CASE \E n \in Irqs : Raise(n)
    BY <2>3, RaiseInv
  <2> QED BY <2>1, <2>2, <2>3 DEF Next, Loop
<1> QED BY <1>1, InitInv, PTL DEF Spec

\* The variables keep their types.
THEOREM TypeCorrect == Spec => []TypeOK
BY Invariance, PTL DEF IInv

\* Whenever a device raises a request, no interrupt goes through an exception
\* gate or a missing one.
THEOREM NoneAstray == Spec => []NoStrayVector
BY Invariance, PTL DEF IInv

\* When irq_handler is not running, no controller believes a request to be
\* in service: each is acknowledged at the controllers that have it.
THEOREM AllAcknowledged == Spec => []NothingLeftInService
<1>1. IInv => NothingLeftInService
  BY DEF IInv, OneInService, NothingLeftInService
<1> QED BY <1>1, Invariance, PTL
=============================================================================
