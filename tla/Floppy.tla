------------------------------- MODULE Floppy -------------------------------
(***************************************************************************)
(* The floppy driver of fat12.c, from init_fat12 to the answer of          *)
(* flpydsk_read_sector, with an external controller (FDC) that takes a     *)
(* command byte by byte, executes it, interrupts, and hands out result     *)
(* bytes; and with an external handler of interrupt 6. The file has no     *)
(* such handler, and nothing else can set its static _FloppyDiskIRQ:       *)
(* without one (installed = FALSE) the first wait never ends.              *)
(*                                                                         *)
(* The driver is the list of register accesses it is still to make. A      *)
(* function of the source is an operator with the accesses of that         *)
(* function; where the code tests what it has read, the list holds a test  *)
(* that is replaced by what follows from it. _CurrentDrive is always 0.    *)
(* The sleeps are in module Time.                                          *)
(***************************************************************************)
EXTENDS Integers, Sequences

CONSTANTS
  Lbas,     \* sectors to read: init_fat12 reads 10, fat12.h offers the rest
  Cyls,     \* cylinders where the head may come to rest
  Junk,     \* what a read returns when there is nothing to read
  Polls,    \* bound: reads of the status register for a byte (500)
  Tries     \* bound: attempts at a calibration or a seek (10)

Byte == 0 .. 255

\* The disk has 80 cylinders of 36 sectors; the data register has 8 bits.
ASSUME FloppyAssumption ==
  /\ Lbas \subseteq 0 .. 2879 /\ 0 \in Cyls /\ Cyls \subseteq Byte /\ Junk \subseteq Byte
  /\ Polls \in Nat \ {0} /\ Tries \in Nat \ {0}

VARIABLES
  todo,             \* the accesses to come
  polls,            \* i in flpydsk_send_command and flpydsk_read_data
  cyl,              \* the cylinder that flpydsk_check_int read
  _FloppyDiskIRQ,   \* the flag that flpydsk_wait_irq spins on
  installed,        \* a handler of interrupt 6 sets that flag
  dma,              \* the DMA channel is "off", on to "read", or on in no known "other" mode
  dor, ccr,         \* the registers for motor, interrupts and reset; for the data rate
  fdc,              \* the controller, see FdcInit
  irq,              \* it has requested an interrupt
  lba,              \* the sector to read
  dropped,          \* history: an access ran out of polls
  missed,           \* history: seeks that came to rest elsewhere
  atread            \* history: the state when the READ command began

driver == <<todo, polls, cyl>>
fdcvars == <<fdc, irq, missed, atread>>
vars == <<driver, _FloppyDiskIRQ, installed, dma, dor, ccr, fdcvars, lba, dropped>>

-----------------------------------------------------------------------------
(* The controller.                                                         *)

CALIBRATE == 7
CHECK_INT == 8
SPECIFY   == 3
SEEK      == 15
READ_SECT == 6

\* Commands are told apart by the low five bits; the rest are options.
Code(byte) == byte % 32
Bytes(code) == CASE code = CALIBRATE -> 2 [] code \in {SEEK, SPECIFY} -> 3
                 [] code = READ_SECT -> 9 [] OTHER -> 1

\* phase:  "reset" while held in reset, "command" while it takes bytes,
\*         "execute", "data" while the sector goes through the data register,
\*         "result" while it hands out bytes
\* rqm:    the data register is ready (FLPYDSK_MSR_MASK_DATAREG)
\* bytes:  of the command so far          out:  result bytes to come
\* senses: cylinders for CHECK_INT to report, one for each interrupt
\* pcn:    where the head is              nd:   no DMA is used
FdcInit(c, b) == [phase |-> "command", rqm |-> TRUE, bytes |-> << >>, out |-> << >>,
                  senses |-> << >>, pcn |-> c, nd |-> b]

Interrupts == "DMA" \in dor    \* this bit gates the request line, too

\* The command whose bytes are complete begins.
Begin(f) ==
  LET b == f.bytes
      code == Code(b[1])
      Answer(out) == [f EXCEPT !.phase = "result", !.rqm = FALSE, !.out = out]
  IN  CASE code = SPECIFY -> [f EXCEPT !.bytes = << >>, !.rqm = FALSE, !.nd = (b[3] % 2 = 1)]
        [] code = CHECK_INT /\ f.senses # << >> ->
             [Answer(<<32, Head(f.senses)>>) EXCEPT !.senses = Tail(f.senses)]
        [] code \in {CALIBRATE, SEEK, READ_SECT} -> [f EXCEPT !.phase = "execute", !.rqm = FALSE]
        [] OTHER -> Answer(<<128>>)

\* A byte is written to the data register. One that comes in a phase that
\* does not take bytes is lost.
Take(byte) ==
  LET g == [fdc EXCEPT !.bytes = Append(@, byte), !.rqm = FALSE]
      whole == Len(g.bytes) = Bytes(Code(g.bytes[1]))
  IN  IF fdc.phase = "command"
        THEN /\ fdc' = IF whole THEN Begin(g) ELSE g
             /\ atread' = IF whole /\ Code(g.bytes[1]) = READ_SECT
                            THEN {[bytes |-> g.bytes, dor |-> dor, ccr |-> ccr, dma |-> dma, pcn |-> fdc.pcn]}
                            ELSE atread
        ELSE UNCHANGED <<fdc, atread>>

\* A byte is read from the data register.
Give(byte) ==
  \/ /\ fdc.phase = "result" /\ byte = Head(fdc.out)
     /\ fdc' = IF Len(fdc.out) = 1
                 THEN [fdc EXCEPT !.phase = "command", !.bytes = << >>, !.out = << >>, !.rqm = FALSE]
                 ELSE [fdc EXCEPT !.out = Tail(@), !.rqm = FALSE]
  \/ fdc.phase # "result" /\ byte \in Junk /\ UNCHANGED fdc

\* It needs time from one byte to the next.
Ready ==
  /\ fdc.phase \in {"command", "result"} /\ ~fdc.rqm
  /\ fdc' = [fdc EXCEPT !.rqm = TRUE]
  /\ UNCHANGED <<driver, _FloppyDiskIRQ, installed, dma, dor, ccr, irq, lba, dropped, missed, atread>>

\* It is out of reset, or has moved the head, not always to where it should
\* be, or starts to transfer.
Finish ==
  /\ fdc.phase = "execute"
  /\ irq' = (irq \/ Interrupts)
  /\ \/ /\ fdc.bytes = << >>
        /\ fdc' = [fdc EXCEPT !.phase = "command", !.rqm = TRUE, !.senses = <<0, 0, 0, 0>>]
        /\ UNCHANGED missed
     \/ \E c \in Cyls :
          /\ fdc.bytes # << >> /\ Code(fdc.bytes[1]) \in {CALIBRATE, SEEK}
          /\ fdc' = [fdc EXCEPT !.phase = "command", !.rqm = TRUE, !.bytes = << >>,
                                !.senses = Append(@, c), !.pcn = c]
          /\ missed' = IF Code(fdc.bytes[1]) = SEEK /\ c # fdc.bytes[3] THEN missed + 1 ELSE missed
     \/ /\ fdc.bytes # << >> /\ Code(fdc.bytes[1]) = READ_SECT
        /\ fdc' = [fdc EXCEPT !.phase = IF fdc.nd THEN "data" ELSE "result", !.rqm = fdc.nd,
                              !.out = <<0, 0, 0, 0, 0, 0, 2>>]
        /\ UNCHANGED missed
  /\ UNCHANGED <<driver, _FloppyDiskIRQ, installed, dma, dor, ccr, lba, dropped, atread>>

\* Without DMA, bytes that nobody fetches in time end the transfer.
Overrun ==
  /\ fdc.phase = "data"
  /\ fdc' = [fdc EXCEPT !.phase = "result", !.rqm = FALSE]
  /\ irq' = (irq \/ Interrupts)
  /\ UNCHANGED <<driver, _FloppyDiskIRQ, installed, dma, dor, ccr, lba, dropped, missed, atread>>

Controller == Ready \/ Finish \/ Overrun

\* The CPU takes the interrupt.
Handler ==
  /\ irq /\ irq' = FALSE
  /\ _FloppyDiskIRQ' = IF installed THEN 1 ELSE _FloppyDiskIRQ
  /\ UNCHANGED <<driver, installed, dma, dor, ccr, fdc, lba, dropped, missed, atread>>

-----------------------------------------------------------------------------
(* The functions of the driver, as the accesses they make.                 *)

Send(bytes) == [i \in 1 .. Len(bytes) |-> <<"send", bytes[i]>>]
Read(to)    == << <<"read", to>> >>

flpydsk_wait_irq == << <<"wait">> >>
flpydsk_write_dor(bits) == << <<"dor", bits>> >>
flpydsk_write_ccr(val)  == << <<"ccr", val>> >>

\* Mutant: the cylinder is not fetched.
flpydsk_check_int_status == Send(<<CHECK_INT>>) \o Read("st0")

flpydsk_check_int == Send(<<CHECK_INT>>) \o Read("st0") \o Read("cyl")

\* Switching the motor off clears the bit of interrupts and DMA with it.
flpydsk_control_motor(b) ==
  flpydsk_write_dor(IF b THEN {"MOTOR", "RESET", "DMA"} ELSE {"RESET"})

\* Mask, program, unmask.
flpydsk_initialize_dma == << <<"dma", "off">>, <<"dma", "other">> >>
flpydsk_dma_read       == << <<"dma", "off">>, <<"dma", "read">> >>

flpydsk_disable_controller == flpydsk_write_dor({})
flpydsk_enable_controller  == flpydsk_write_dor({"RESET", "DMA"})

\* | binds tighter than ?:, so the last byte is 1 for every true dma: head
\* load time 0, and the bit that says not to use DMA.
flpydsk_drive_data(stepr, loadt, unloadt, isdma) ==
  Send(<<SPECIFY, (stepr % 16) * 16 + (unloadt % 16), IF loadt # 0 \/ isdma THEN 1 ELSE 0>>)

\* Attempt i, if there is one; the test decides on the next.
flpydsk_calibrate(i) ==
  IF i < Tries
    THEN Send(<<CALIBRATE, 0>>) \o flpydsk_wait_irq \o flpydsk_check_int \o << <<"calibrated?", i>> >>
    ELSE flpydsk_control_motor(FALSE)

\* Mutant: attempts are not counted.
CalibratedUncounted(i) == IF cyl = 0 THEN flpydsk_control_motor(FALSE) ELSE flpydsk_calibrate(i)

Calibrated(i) == IF cyl = 0 THEN flpydsk_control_motor(FALSE) ELSE flpydsk_calibrate(i + 1)

\* Mutant: one attempt fewer.
flpydsk_seek_once_less(track, head, i) ==
  IF i + 1 < Tries
    THEN Send(<<SEEK, head * 4, track>>) \o flpydsk_wait_irq \o flpydsk_check_int
           \o << <<"sought?", track, head, i>> >>
    ELSE << <<"panic">> >>

\* flpydsk_read_sector panics when flpydsk_seek has used up its attempts.
flpydsk_seek(track, head, i) ==
  IF i < Tries
    THEN Send(<<SEEK, head * 4, track>>) \o flpydsk_wait_irq \o flpydsk_check_int
           \o << <<"sought?", track, head, i>> >>
    ELSE << <<"panic">> >>

Sought(track, head, i) == IF cyl = track THEN << >> ELSE flpydsk_seek(track, head, i + 1)

\* Mutant: not every drive's interrupt is asked for.
flpydsk_reset_three ==
  flpydsk_disable_controller \o flpydsk_enable_controller \o flpydsk_wait_irq
    \o flpydsk_check_int \o flpydsk_check_int \o flpydsk_check_int
    \o flpydsk_write_ccr(0) \o flpydsk_drive_data(3, 16, 240, TRUE)
    \o flpydsk_control_motor(TRUE) \o flpydsk_calibrate(0)

\* What flpydsk_calibrate returns is not looked at.
flpydsk_reset ==
  flpydsk_disable_controller \o flpydsk_enable_controller \o flpydsk_wait_irq
    \o flpydsk_check_int \o flpydsk_check_int \o flpydsk_check_int \o flpydsk_check_int
    \o flpydsk_write_ccr(0) \o flpydsk_drive_data(3, 16, 240, TRUE)
    \o flpydsk_control_motor(TRUE) \o flpydsk_calibrate(0)

FLPY_SECTORS_PER_TRACK == 18

flpydsk_lba_to_chs(n) ==
  [head   |-> (n % (FLPY_SECTORS_PER_TRACK * 2)) \div FLPY_SECTORS_PER_TRACK,
   track  |-> n \div (FLPY_SECTORS_PER_TRACK * 2),
   sector |-> (n % FLPY_SECTORS_PER_TRACK) + 1]

\* The last sector to read.
Eot(sector) == IF sector + 1 >= FLPY_SECTORS_PER_TRACK THEN FLPY_SECTORS_PER_TRACK ELSE sector + 1

\* The 7 status bytes are read and not looked at.
flpydsk_read_sector_imp(head, track, sector) ==
  flpydsk_dma_read
    \o Send(<<READ_SECT + 224, head * 4, track, head, sector, 2, Eot(sector), 27, 255>>)
    \o flpydsk_wait_irq \o [i \in 1 .. 7 |-> <<"read", "status">>] \o flpydsk_check_int

\* Mutant: the motor is expected to be on from the calibration.
flpydsk_read_sector_motor_off(n) ==
  LET p == flpydsk_lba_to_chs(n)
  IN  flpydsk_seek(p.track, p.head, 0)
        \o flpydsk_read_sector_imp(p.head, p.track, p.sector) \o flpydsk_control_motor(FALSE)

flpydsk_read_sector(n) ==
  LET p == flpydsk_lba_to_chs(n)
  IN  flpydsk_control_motor(TRUE) \o flpydsk_seek(p.track, p.head, 0)
        \o flpydsk_read_sector_imp(p.head, p.track, p.sector) \o flpydsk_control_motor(FALSE)

init_fat12(n) ==
  flpydsk_initialize_dma \o flpydsk_reset \o flpydsk_drive_data(13, 1, 15, TRUE)
    \o flpydsk_read_sector(n)

-----------------------------------------------------------------------------
(* The accesses.                                                           *)

Now == IF todo = << >> THEN "done" ELSE Head(todo)[1]
Arg == Head(todo)[2]

\* Mutant: one poll more.
GivenUpLater == polls = Polls

\* The polls are used up.
GivenUp == polls + 1 = Polls

\* A poll that finds the data register not ready.
flpydsk_read_status ==
  /\ Now \in {"send", "read"} /\ ~fdc.rqm
  /\ IF GivenUp
       THEN /\ dropped' = TRUE /\ polls' = 0 /\ todo' = Tail(todo)
            \* a read returns what was in the register
            /\ IF Head(todo) = <<"read", "cyl">> THEN cyl' \in Junk ELSE UNCHANGED cyl
       ELSE polls' = polls + 1 /\ UNCHANGED <<todo, cyl, dropped>>
  /\ UNCHANGED <<_FloppyDiskIRQ, installed, dma, dor, ccr, fdcvars, lba>>

flpydsk_send_command ==
  /\ Now = "send" /\ fdc.rqm
  /\ Take(Arg) /\ polls' = 0 /\ todo' = Tail(todo)
  /\ UNCHANGED <<cyl, _FloppyDiskIRQ, installed, dma, dor, ccr, irq, lba, dropped, missed>>

flpydsk_read_data ==
  /\ Now = "read" /\ fdc.rqm
  /\ \E byte \in Junk \cup Cyls \cup {0, 2, 32, 128} :
       Give(byte) /\ cyl' = IF Arg = "cyl" THEN byte ELSE cyl
  /\ polls' = 0 /\ todo' = Tail(todo)
  /\ UNCHANGED <<_FloppyDiskIRQ, installed, dma, dor, ccr, irq, lba, dropped, missed, atread>>

Wait ==
  /\ Now = "wait" /\ _FloppyDiskIRQ # 0
  /\ _FloppyDiskIRQ' = 0 /\ todo' = Tail(todo)
  /\ UNCHANGED <<polls, cyl, installed, dma, dor, ccr, fdcvars, lba, dropped>>

\* A controller held in reset forgets what it was doing.
WriteDor ==
  /\ Now = "dor" /\ dor' = Arg /\ todo' = Tail(todo)
  /\ fdc' = IF "RESET" \notin Arg
              THEN [FdcInit(fdc.pcn, fdc.nd) EXCEPT !.phase = "reset", !.rqm = FALSE]
              ELSE IF fdc.phase = "reset" THEN [fdc EXCEPT !.phase = "execute"] ELSE fdc
  /\ UNCHANGED <<polls, cyl, _FloppyDiskIRQ, installed, dma, ccr, irq, lba, dropped, missed, atread>>

WriteOther ==
  /\ Now \in {"ccr", "dma"} /\ todo' = Tail(todo)
  /\ ccr' = IF Now = "ccr" THEN Arg ELSE ccr
  /\ dma' = IF Now = "dma" THEN Arg ELSE dma
  /\ UNCHANGED <<polls, cyl, _FloppyDiskIRQ, installed, dor, fdcvars, lba, dropped>>

Test ==
  /\ Now \in {"calibrated?", "sought?"}
  /\ LET next == IF Now = "calibrated?" THEN Calibrated(Arg)
                                        ELSE Sought(Arg, Head(todo)[3], Head(todo)[4])
     IN  todo' = IF next = << <<"panic">> >> THEN next ELSE next \o Tail(todo)
  /\ UNCHANGED <<polls, cyl, _FloppyDiskIRQ, installed, dma, dor, ccr, fdcvars, lba, dropped>>

Driver == flpydsk_read_status \/ flpydsk_send_command \/ flpydsk_read_data
            \/ Wait \/ WriteDor \/ WriteOther \/ Test

\* The firmware has left the controller idle, in either mode.
Init ==
  /\ lba \in Lbas /\ todo = init_fat12(lba)
  /\ polls = 0 /\ cyl \in Junk /\ _FloppyDiskIRQ = 0 /\ installed \in BOOLEAN
  /\ dma = "off" /\ dor = {"RESET", "DMA"} /\ ccr = 2 /\ irq = FALSE
  /\ \E c \in Cyls, b \in BOOLEAN : fdc = FdcInit(c, b)
  /\ dropped = FALSE /\ missed = 0 /\ atread = {}

Next == Driver \/ Controller \/ Handler

\* The CPU runs and takes interrupts, the controller does what it was told.
Spec == Init /\ [][Next]_vars /\ WF_vars(Driver) /\ WF_vars(Controller) /\ WF_vars(Handler)

-----------------------------------------------------------------------------
(* Properties.                                                             *)

\* Every byte that is sent fits the data register, every list ends.
TypeOK ==
  /\ \A i \in 1 .. Len(todo) :
       /\ todo[i][1] \in {"send", "read", "wait", "dor", "ccr", "dma", "calibrated?", "sought?", "panic"}
       /\ todo[i][1] = "send" => todo[i][2] \in Byte
       /\ todo[i][1] = "panic" => i = Len(todo)
  /\ polls \in 0 .. Polls - 1 /\ cyl \in Byte /\ _FloppyDiskIRQ \in {0, 1}
  /\ fdc.phase \in {"reset", "command", "execute", "data", "result"}
  /\ Len(fdc.bytes) <= 9 /\ Len(fdc.out) <= 7 /\ fdc.pcn \in Cyls
  /\ \A i \in 1 .. Len(fdc.senses) : fdc.senses[i] \in Cyls
  /\ dma \in {"off", "read", "other"} /\ dor \subseteq {"MOTOR", "RESET", "DMA"} /\ ccr \in {0, 2}
  /\ {installed, irq, dropped, fdc.rqm, fdc.nd} \subseteq BOOLEAN
  /\ missed \in Nat

\* Driver and controller never lose each other as long as no byte is given
\* up, up to the READ (whose data the controller hands out byte by byte, to
\* a driver that takes them for its status): a byte is sent when one is
\* awaited, and read when there is one; the first of a command is a command;
\* and neither believes a command complete before the other does.
InStep ==
  (~dropped /\ atread = {}) =>
    /\ Now = "send" => /\ fdc.phase = "command"
                       /\ fdc.bytes = << >> => Code(Arg) \in {SPECIFY, CALIBRATE, CHECK_INT, SEEK, READ_SECT}
    /\ Now = "read" => fdc.phase = "result"
    /\ Now \notin {"send", "read", "wait"} => fdc.bytes = << >> /\ fdc.out = << >>

\* With a handler, a wait has an answer: the flag is up, the interrupt is on
\* its way, or the controller is at work and allowed to interrupt. And the
\* answer is that of its own command: no flag is left from an earlier one
\* while the controller is at work.
WaitsAnswered ==
  (Now = "wait" /\ ~dropped /\ installed) =>
    IF fdc.phase = "execute" THEN Interrupts /\ ~irq /\ _FloppyDiskIRQ = 0
                             ELSE irq \/ _FloppyDiskIRQ = 1

\* If no byte was given up, the READ command began with the motor and the
\* DMA channel on, in read direction, at 500 kb/s, with the head at rest at
\* the cylinder of the sector, and it names that sector.
ReadPrepared ==
  ~dropped => \A r \in atread :
    /\ r.dor = {"MOTOR", "RESET", "DMA"} /\ r.dma = "read" /\ r.ccr = 0
    /\ r.pcn = r.bytes[3] /\ r.bytes[2] = r.bytes[4] * 4
    /\ (r.bytes[3] * 2 + r.bytes[4]) * FLPY_SECTORS_PER_TRACK + r.bytes[5] = lba + 1
    /\ r.bytes[5] \in 1 .. r.bytes[7] /\ r.bytes[7] <= FLPY_SECTORS_PER_TRACK

\* If no byte was given up, the kernel panics with "Seek failure" only after
\* every attempt that the code grants has come to rest at another cylinder.
PanicJustified == (Now = "panic" /\ ~dropped) => missed = Tries

\* With a handler, and as long as the controller answers within the polls,
\* init_fat12 ends, or panics: no retry and no wait goes on for ever.
InitReturns == installed ~> (Now \in {"done", "panic"} \/ dropped)
=============================================================================
