---------------------------- MODULE FloppyProofs ----------------------------
(***************************************************************************)
(* What flpydsk_lba_to_chs computes, for every sector number; and the      *)
(* safety properties of the driver, for every number of polls and          *)
(* attempts and every cylinder the head may come to rest at.               *)
(***************************************************************************)
EXTENDS Floppy, TLAPS

\* The address that a cylinder, a head and a sector stand for.
Linear(p) == (p.track * 2 + p.head) * FLPY_SECTORS_PER_TRACK + (p.sector - 1)

Places(tracks) == [head : 0 .. 1, track : tracks, sector : 1 .. FLPY_SECTORS_PER_TRACK]

\* Quotient and remainder by the sectors of a track and of a cylinder.
LEMMA Division ==
  ASSUME NEW n \in Nat
  PROVE  /\ n = 36 * (n \div 36) + (n % 36) /\ n % 36 \in 0 .. 35 /\ n \div 36 \in Nat
         /\ n % 36 = 18 * ((n % 36) \div 18) + ((n % 36) % 18)
         /\ (n % 36) \div 18 \in 0 .. 1
         /\ n % 18 \in 0 .. 17
         /\ (n % 36) % 18 = n % 18
BY SMTT(30)

\* The place of a sector exists on a disk with enough cylinders, and it is
\* the place of no other sector: flpydsk_lba_to_chs has an inverse.
THEOREM ChsInverse ==
  ASSUME NEW n \in Nat
  PROVE  /\ flpydsk_lba_to_chs(n) \in Places(Nat)
         /\ Linear(flpydsk_lba_to_chs(n)) = n
<1>1. FLPY_SECTORS_PER_TRACK = 18 /\ FLPY_SECTORS_PER_TRACK * 2 = 36
  BY DEF FLPY_SECTORS_PER_TRACK
<1>2. flpydsk_lba_to_chs(n) \in Places(Nat)
  BY <1>1, Division DEF flpydsk_lba_to_chs, Places
<1>3. Linear(flpydsk_lba_to_chs(n)) = n
  BY <1>1, Division DEF flpydsk_lba_to_chs, Linear
<1> QED BY <1>2, <1>3

\* Quotients and remainders of a place's address.
LEMMA Composition ==
  ASSUME NEW C \in Nat, NEW t \in 0 .. C - 1, NEW h \in 0 .. 1, NEW s \in 1 .. 18,
         NEW n \in Int, n = (t * 2 + h) * 18 + (s - 1)
  PROVE  /\ n \in 0 .. 36 * C - 1
         /\ n \div 36 = t /\ (n % 36) \div 18 = h /\ n % 18 = s - 1
<1>1. CASE h = 0
  BY <1>1, SMTT(30)
<1>2. CASE h = 1
  BY <1>2, SMTT(30)
<1> QED BY <1>1, <1>2

\* Every place is the place of the sector it stands for, and a disk of C
\* cylinders has 36 * C of them: flpydsk_lba_to_chs misses none.
THEOREM ChsOnto ==
  ASSUME NEW C \in Nat, NEW p \in Places(0 .. C - 1)
  PROVE  /\ Linear(p) \in 0 .. 36 * C - 1
         /\ flpydsk_lba_to_chs(Linear(p)) = p
<1>1. p.head \in 0 .. 1 /\ p.sector \in 1 .. 18 /\ p.track \in 0 .. C - 1
  BY DEF Places, FLPY_SECTORS_PER_TRACK
<1>2. PICK t \in 0 .. C - 1, h \in 0 .. 1, s \in 1 .. 18 :
        p = [head |-> h, track |-> t, sector |-> s]
  <2>1. p = [head |-> p.head, track |-> p.track, sector |-> p.sector]
    BY DEF Places
  <2> QED BY <1>1, <2>1
<1> DEFINE n == (t * 2 + h) * 18 + (s - 1)
<1>3. Linear(p) = n /\ n \in Int
  BY <1>2 DEF Linear, FLPY_SECTORS_PER_TRACK
<1> HIDE DEF n
<1>4. /\ n \in 0 .. 36 * C - 1
      /\ n \div 36 = t /\ (n % 36) \div 18 = h /\ n % 18 = s - 1
  BY <1>2, <1>3, Composition DEF n
<1>5. flpydsk_lba_to_chs(n) = p
  BY <1>2, <1>4 DEF flpydsk_lba_to_chs, FLPY_SECTORS_PER_TRACK
<1> QED BY <1>3, <1>4, <1>5

\* The last sector of the transfer is on the track, and not before the first.
THEOREM EotOnTrack ==
  ASSUME NEW s \in 1 .. FLPY_SECTORS_PER_TRACK
  PROVE  Eot(s) \in s .. FLPY_SECTORS_PER_TRACK
BY DEF Eot, FLPY_SECTORS_PER_TRACK

-----------------------------------------------------------------------------
(* Types.                                                                  *)

Lines == {"MOTOR", "RESET", "DMA"}

Access ==
  {<<"send", b>> : b \in Byte} \cup {<<"read", to>> : to \in {"st0", "cyl", "status"}}
    \cup {<<"wait">>} \cup {<<"dor", bits>> : bits \in SUBSET Lines}
    \cup {<<"ccr", v>> : v \in {0, 2}} \cup {<<"dma", m>> : m \in {"off", "read", "other"}}
    \cup {<<"calibrated?", i>> : i \in Nat}
    \cup {<<"sought?", t, h, i>> : t \in Byte, h \in 0 .. 1, i \in Nat}

PANIC == << <<"panic">> >>

Fdc == [phase : {"reset", "command", "execute", "data", "result"}, rqm : BOOLEAN,
        bytes : Seq(Byte), out : Seq(Byte), senses : Seq(Cyls), pcn : Cyls, nd : BOOLEAN]

\* A command that is being taken is not complete, and while the controller
\* hands out bytes there are some: so neither list outgrows its bound.
FdcInv ==
  /\ fdc \in Fdc /\ Len(fdc.bytes) <= 9 /\ Len(fdc.out) <= 7
  /\ fdc.phase = "command" => fdc.bytes = << >> \/ Len(fdc.bytes) < Bytes(Code(fdc.bytes[1]))
  /\ fdc.phase \in {"data", "result"} => fdc.out # << >>

TypeInv ==
  /\ lba \in Lbas /\ (todo = PANIC \/ todo \in Seq(Access))
  /\ polls \in 0 .. Polls - 1 /\ cyl \in Byte /\ _FloppyDiskIRQ \in {0, 1} /\ installed \in BOOLEAN
  /\ dma \in {"off", "read", "other"} /\ dor \in SUBSET Lines /\ ccr \in {0, 2}
  /\ FdcInv /\ irq \in BOOLEAN /\ dropped \in BOOLEAN /\ missed \in Nat

\* The lists are made of accesses.
LEMMA ConcatType ==
  ASSUME NEW S, NEW s \in Seq(S), NEW t \in Seq(S)
  PROVE  s \o t \in Seq(S)
OBVIOUS

LEMMA SendType ==
  ASSUME NEW b \in Seq(Byte)
  PROVE  Send(b) \in Seq(Access)
BY DEF Send, Access

LEMMA CheckIntType == flpydsk_check_int \in Seq(Access)
<1>1. <<CHECK_INT>> \in Seq(Byte)
  BY DEF CHECK_INT, Byte
<1>2. Read("st0") \in Seq(Access) /\ Read("cyl") \in Seq(Access)
  BY DEF Read, Access
<1>3. QED
  BY <1>1, <1>2, SendType, ConcatType DEF flpydsk_check_int

LEMMA DorType ==
  ASSUME NEW b \in BOOLEAN
  PROVE  /\ flpydsk_control_motor(b) \in Seq(Access)
         /\ flpydsk_disable_controller \in Seq(Access)
         /\ flpydsk_enable_controller \in Seq(Access)
<1>1. \A bits \in SUBSET Lines : flpydsk_write_dor(bits) \in Seq(Access)
  BY DEF flpydsk_write_dor, Access
<1>2. {"MOTOR", "RESET", "DMA"} \in SUBSET Lines /\ {"RESET"} \in SUBSET Lines
      /\ {"RESET", "DMA"} \in SUBSET Lines /\ {} \in SUBSET Lines
  BY DEF Lines
<1>3. QED
  BY <1>1, <1>2 DEF flpydsk_control_motor, flpydsk_disable_controller, flpydsk_enable_controller

LEMMA WaitType == flpydsk_wait_irq \in Seq(Access)
BY DEF flpydsk_wait_irq, Access

LEMMA CalibrateType ==
  ASSUME NEW i \in Nat
  PROVE  flpydsk_calibrate(i) \in Seq(Access)
<1>1. <<CALIBRATE, 0>> \in Seq(Byte)
  BY DEF CALIBRATE, Byte
<1>2. << <<"calibrated?", i>> >> \in Seq(Access)
  BY DEF Access
<1>3. QED
  BY <1>1, <1>2, SendType, WaitType, CheckIntType, DorType, ConcatType DEF flpydsk_calibrate

LEMMA SeekType ==
  ASSUME NEW t \in Byte, NEW h \in 0 .. 1, NEW i \in Nat
  PROVE  flpydsk_seek(t, h, i) \in Seq(Access) \/ flpydsk_seek(t, h, i) = PANIC
<1>1. <<SEEK, h * 4, t>> \in Seq(Byte)
  BY DEF SEEK, Byte
<1>2. << <<"sought?", t, h, i>> >> \in Seq(Access)
  BY DEF Access
<1>3. QED
  BY <1>1, <1>2, SendType, WaitType, CheckIntType, ConcatType DEF flpydsk_seek, PANIC

\* A list of accesses is not the panic.
LEMMA NoPanic == PANIC \notin Seq(Access)
<1>1. PANIC[1] = <<"panic">> /\ Len(PANIC) = 1
  BY DEF PANIC
<1>2. <<"panic">> \notin Access
  BY DEF Access
<1>3. QED
  BY <1>1, <1>2

\* The fields of the controller, one by one.
LEMMA FdcFields ==
  ASSUME fdc \in Fdc
  PROVE  /\ fdc.phase \in {"reset", "command", "execute", "data", "result"}
         /\ fdc.rqm \in BOOLEAN /\ fdc.bytes \in Seq(Byte) /\ fdc.out \in Seq(Byte)
         /\ fdc.senses \in Seq(Cyls) /\ fdc.pcn \in Cyls /\ fdc.nd \in BOOLEAN
BY DEF Fdc

\* The empty list is one of bytes, and no other list has its length.
LEMMA EmptyType ==
  /\ << >> \in Seq(Byte) /\ << >> \in Seq(Cyls) /\ Len(<< >>) = 0
  /\ \A s \in Seq(Byte) : Len(s) \in Nat /\ (s = << >> <=> Len(s) = 0)
OBVIOUS

LEMMA NotEmpty ==
  ASSUME NEW s \in Seq(Byte), Len(s) # 0
  PROVE  s # << >>
OBVIOUS

\* A list of several bytes is one without the first.
LEMMA TailType ==
  ASSUME NEW s \in Seq(Byte), s # << >>, Len(s) # 1, Len(s) <= 7
  PROVE  Tail(s) \in Seq(Byte) /\ Tail(s) # << >> /\ Len(Tail(s)) <= 7
<1>1. Len(s) \in 2 .. 7
  <2>1. Len(s) \in Nat /\ Len(s) # 0
    OBVIOUS
  <2>2. \A k \in Nat : k # 0 /\ k # 1 /\ k <= 7 => k \in 2 .. 7
    OBVIOUS
  <2>3. QED
    BY <2>1, <2>2
<1>2. Tail(s) \in Seq(Byte) /\ Len(Tail(s)) = Len(s) - 1
  OBVIOUS
<1>3. Len(Tail(s)) # 0 /\ Len(Tail(s)) <= 7
  BY <1>1, <1>2
<1>4. QED
  BY <1>2, <1>3, NotEmpty

\* No command has more than nine bytes.
LEMMA BytesBound ==
  ASSUME NEW c
  PROVE  Bytes(c) \in 1 .. 9
BY DEF Bytes, CALIBRATE, SEEK, SPECIFY, READ_SECT

\* The controller keeps its type when it takes a byte.
LEMMA TakeType ==
  ASSUME FdcInv, NEW x \in Byte, Take(x)
  PROVE  FdcInv'
<1>0. /\ fdc \in Fdc /\ fdc.bytes \in Seq(Byte) /\ fdc.out \in Seq(Byte) /\ fdc.senses \in Seq(Cyls)
      /\ Len(fdc.out) <= 7
  BY FdcFields DEF FdcInv
<1>1. CASE fdc.phase # "command"
  BY <1>1 DEF Take, FdcInv
<1>2. CASE fdc.phase = "command"
  <2>1. PICK b : b = Append(fdc.bytes, x)
    OBVIOUS
  <2>2. /\ b \in Seq(Byte) /\ Len(b) = Len(fdc.bytes) + 1 /\ b # << >>
        /\ b[1] = IF fdc.bytes = << >> THEN x ELSE fdc.bytes[1]
    BY <1>0, <2>1
  <2>3. Len(b) <= Bytes(Code(b[1])) /\ Len(b) <= 9
    <3>1. fdc.bytes = << >> => Len(fdc.bytes) = 0
      OBVIOUS
    <3>2. Bytes(Code(b[1])) \in 1 .. 9 /\ Len(fdc.bytes) \in Nat
      BY <1>0, BytesBound
    <3>3. QED
      BY <1>2, <2>2, <3>1, <3>2 DEF FdcInv
  <2>4. PICK g : g = [fdc EXCEPT !.bytes = Append(@, x), !.rqm = FALSE]
    OBVIOUS
  <2>5. g = [fdc EXCEPT !.bytes = b, !.rqm = FALSE]
    BY <1>0, <2>1, <2>4 DEF Fdc
  <2>6. /\ g \in Fdc /\ g.bytes = b /\ g.phase = "command"
        /\ g.senses = fdc.senses /\ g.out = fdc.out
    BY <1>0, <1>2, <2>2, <2>5 DEF Fdc
  <2>7. fdc' = IF Len(b) = Bytes(Code(b[1])) THEN Begin(g) ELSE g
    BY <1>2, <2>4, <2>6 DEF Take
  <2>8. CASE Len(b) # Bytes(Code(b[1]))
    <3>1. Len(b) \in Nat /\ Bytes(Code(b[1])) \in Nat
      BY <2>2, BytesBound
    <3>2. QED
      BY <1>0, <2>2, <2>3, <2>6, <2>7, <2>8, <3>1 DEF FdcInv
  <2>9. CASE Len(b) = Bytes(Code(b[1]))
    <3>1. fdc' = Begin(g)
      BY <2>7, <2>9
    <3>2. CASE Code(b[1]) = SPECIFY
      <4>1. fdc' = [g EXCEPT !.bytes = << >>, !.rqm = FALSE, !.nd = (b[3] % 2 = 1)]
        BY <2>6, <3>1, <3>2 DEF Begin, CALIBRATE, SEEK, READ_SECT, SPECIFY, CHECK_INT
      <4>2. /\ fdc' \in Fdc /\ fdc'.bytes = << >> /\ fdc'.phase = "command" /\ fdc'.out = fdc.out
        BY <2>6, <4>1, EmptyType DEF Fdc
      <4>3. QED
        BY <1>0, <4>2, EmptyType DEF FdcInv
    <3>3. CASE Code(b[1]) = CHECK_INT /\ g.senses # << >>
      <4>1. PICK o, t : o = <<32, Head(g.senses)>> /\ t = Tail(g.senses)
        OBVIOUS
      <4>2. o \in Seq(Byte) /\ Len(o) = 2 /\ t \in Seq(Cyls)
        <5>1. Head(g.senses) \in Byte /\ Tail(g.senses) \in Seq(Cyls)
          BY <1>0, <2>6, <3>3, FloppyAssumption
        <5>2. 32 \in Byte
          BY DEF Byte
        <5>3. QED
          BY <4>1, <5>1, <5>2
      <4>3. fdc' = [[g EXCEPT !.phase = "result", !.rqm = FALSE, !.out = o] EXCEPT !.senses = t]
        BY <2>6, <3>1, <3>3, <4>1 DEF Begin, CALIBRATE, SEEK, READ_SECT, SPECIFY, CHECK_INT
      <4>4. fdc' \in Fdc /\ fdc'.bytes = b /\ fdc'.phase = "result" /\ fdc'.out = o
        BY <2>6, <4>2, <4>3 DEF Fdc
      <4>5. Len(o) # 0 /\ Len(o) <= 7
        BY <4>2
      <4>6. QED
        BY <2>3, <4>2, <4>4, <4>5, NotEmpty DEF FdcInv
    <3>4. CASE Code(b[1]) \in {CALIBRATE, SEEK, READ_SECT}
      <4>1. fdc' = [g EXCEPT !.phase = "execute", !.rqm = FALSE]
        BY <2>6, <3>1, <3>4 DEF Begin, CALIBRATE, SEEK, READ_SECT, SPECIFY, CHECK_INT
      <4>2. fdc' \in Fdc /\ fdc'.bytes = b /\ fdc'.phase = "execute" /\ fdc'.out = fdc.out
        BY <2>6, <4>1 DEF Fdc
      <4>3. QED
        BY <1>0, <2>3, <4>2 DEF FdcInv
    <3>5. CASE /\ Code(b[1]) \notin {SPECIFY, CALIBRATE, SEEK, READ_SECT}
               /\ ~(Code(b[1]) = CHECK_INT /\ g.senses # << >>)
      <4>1. PICK o : o = <<128>>
        OBVIOUS
      <4>2. o \in Seq(Byte) /\ Len(o) = 1
        BY <4>1 DEF Byte
      <4>3. fdc' = [g EXCEPT !.phase = "result", !.rqm = FALSE, !.out = o]
        BY <2>6, <3>1, <3>5, <4>1 DEF Begin
      <4>4. fdc' \in Fdc /\ fdc'.bytes = b /\ fdc'.phase = "result" /\ fdc'.out = o
        BY <2>6, <4>2, <4>3 DEF Fdc
      <4>5. Len(o) # 0 /\ Len(o) <= 7
        BY <4>2
      <4>6. QED
        BY <2>3, <4>2, <4>4, <4>5, NotEmpty DEF FdcInv
    <3>6. QED
      BY <3>2, <3>3, <3>4, <3>5
  <2>10. QED
    BY <2>8, <2>9
<1>3. QED
  BY <1>1, <1>2

\* And when it hands one out.
LEMMA GiveType ==
  ASSUME FdcInv, NEW x, Give(x)
  PROVE  FdcInv'
<1>0. fdc \in Fdc /\ fdc.out \in Seq(Byte)
  BY FdcFields DEF FdcInv
<1>1. CASE fdc.phase # "result"
  BY <1>1 DEF Give, FdcInv
<1>2. CASE fdc.phase = "result"
  <2>1. CASE Len(fdc.out) = 1
    <3>1. fdc' = [fdc EXCEPT !.phase = "command", !.bytes = << >>, !.out = << >>, !.rqm = FALSE]
      BY <1>2, <2>1 DEF Give
    <3>2. fdc' \in Fdc /\ fdc'.phase = "command" /\ fdc'.bytes = << >> /\ fdc'.out = << >>
      BY <1>0, <3>1, EmptyType DEF Fdc
    <3>3. QED
      BY <3>2, EmptyType DEF FdcInv
  <2>2. CASE Len(fdc.out) # 1
    <3>1. PICK o : o = Tail(fdc.out)
      OBVIOUS
    <3>2. o \in Seq(Byte) /\ o # << >> /\ Len(o) <= 7
      <4>1. fdc.out # << >> /\ Len(fdc.out) <= 7
        BY <1>2 DEF FdcInv
      <4>2. QED
        BY <1>0, <2>2, <3>1, <4>1, TailType
    <3>3. fdc' = [fdc EXCEPT !.out = o, !.rqm = FALSE]
      BY <1>0, <1>2, <2>2, <3>1 DEF Give, Fdc
    <3>4. fdc' \in Fdc /\ fdc'.phase = "result" /\ fdc'.bytes = fdc.bytes /\ fdc'.out = o
      BY <1>0, <1>2, <3>2, <3>3 DEF Fdc
    <3>5. QED
      BY <3>2, <3>4 DEF FdcInv
  <2>3. QED
    BY <2>1, <2>2
<1>3. QED
  BY <1>1, <1>2

\* And when it works by itself, or the driver resets it.
LEMMA ControllerType ==
  ASSUME FdcInv, Controller \/ WriteDor
  PROVE  FdcInv'
<1>0. /\ fdc \in Fdc /\ fdc.senses \in Seq(Cyls) /\ fdc.pcn \in Cyls /\ fdc.nd \in BOOLEAN
      /\ Len(fdc.bytes) <= 9 /\ Len(fdc.out) <= 7
  BY FdcFields DEF FdcInv
<1>1. CASE Ready
  <2>1. fdc' = [fdc EXCEPT !.rqm = TRUE]
    BY <1>1 DEF Ready
  <2>2. fdc' \in Fdc /\ fdc'.phase = fdc.phase /\ fdc'.bytes = fdc.bytes /\ fdc'.out = fdc.out
    BY <1>0, <2>1 DEF Fdc
  <2>3. QED
    BY <2>2 DEF FdcInv
<1>2. CASE Finish
  <2>1. CASE /\ fdc.bytes = << >>
             /\ fdc' = [fdc EXCEPT !.phase = "command", !.rqm = TRUE, !.senses = <<0, 0, 0, 0>>]
    <3>1. <<0, 0, 0, 0>> \in Seq(Cyls)
      BY FloppyAssumption
    <3>2. fdc' \in Fdc /\ fdc'.phase = "command" /\ fdc'.bytes = << >> /\ fdc'.out = fdc.out
      BY <1>0, <2>1, <3>1 DEF Fdc
    <3>3. QED
      BY <1>0, <3>2 DEF FdcInv
  <2>2. ASSUME NEW c \in Cyls,
               fdc' = [fdc EXCEPT !.phase = "command", !.rqm = TRUE, !.bytes = << >>,
                                  !.senses = Append(@, c), !.pcn = c]
        PROVE  FdcInv'
    <3>1. PICK t : t = Append(fdc.senses, c)
      OBVIOUS
    <3>2. t \in Seq(Cyls)
      BY <1>0, <3>1
    <3>3. fdc' = [fdc EXCEPT !.phase = "command", !.rqm = TRUE, !.bytes = << >>, !.senses = t, !.pcn = c]
      BY <1>0, <2>2, <3>1 DEF Fdc
    <3>4. fdc' \in Fdc /\ fdc'.phase = "command" /\ fdc'.bytes = << >> /\ fdc'.out = fdc.out
      BY <1>0, <3>2, <3>3, EmptyType DEF Fdc
    <3>5. QED
      BY <1>0, <3>4 DEF FdcInv
  <2>3. CASE fdc' = [fdc EXCEPT !.phase = IF fdc.nd THEN "data" ELSE "result", !.rqm = fdc.nd,
                                !.out = <<0, 0, 0, 0, 0, 0, 2>>]
    <3>1. PICK o : o = <<0, 0, 0, 0, 0, 0, 2>>
      OBVIOUS
    <3>2. o \in Seq(Byte) /\ Len(o) = 7
      BY <3>1 DEF Byte
    <3>3. fdc' \in Fdc /\ fdc'.phase \in {"data", "result"} /\ fdc'.bytes = fdc.bytes /\ fdc'.out = o
      BY <1>0, <2>3, <3>1, <3>2 DEF Fdc
    <3>4. Len(o) # 0 /\ Len(o) <= 7 /\ fdc'.phase # "command"
      BY <3>2, <3>3
    <3>5. QED
      BY <1>0, <3>2, <3>3, <3>4, NotEmpty DEF FdcInv
  <2>4. QED
    BY <1>2, <2>1, <2>2, <2>3 DEF Finish
<1>3. CASE Overrun
  <2>1. fdc.phase = "data" /\ fdc' = [fdc EXCEPT !.phase = "result", !.rqm = FALSE]
    BY <1>3 DEF Overrun
  <2>2. fdc' \in Fdc /\ fdc'.phase = "result" /\ fdc'.bytes = fdc.bytes /\ fdc'.out = fdc.out
    BY <1>0, <2>1 DEF Fdc
  <2>3. QED
    BY <2>1, <2>2 DEF FdcInv
<1>4. CASE WriteDor
  <2>1. CASE "RESET" \notin Arg
    <3>1. fdc' = [phase |-> "reset", rqm |-> FALSE, bytes |-> << >>, out |-> << >>,
                  senses |-> << >>, pcn |-> fdc.pcn, nd |-> fdc.nd]
      BY <1>4, <2>1 DEF WriteDor, FdcInit
    <3>2. fdc' \in Fdc /\ fdc'.phase = "reset" /\ fdc'.bytes = << >> /\ fdc'.out = << >>
      BY <1>0, <3>1 DEF Fdc
    <3>3. QED
      BY <3>2 DEF FdcInv
  <2>2. CASE "RESET" \in Arg /\ fdc.phase = "reset"
    <3>1. fdc' = [fdc EXCEPT !.phase = "execute"]
      BY <1>4, <2>2 DEF WriteDor
    <3>2. fdc' \in Fdc /\ fdc'.phase = "execute" /\ fdc'.bytes = fdc.bytes /\ fdc'.out = fdc.out
      BY <1>0, <3>1 DEF Fdc
    <3>3. QED
      BY <1>0, <3>2 DEF FdcInv
  <2>3. CASE "RESET" \in Arg /\ fdc.phase # "reset"
    BY <1>4, <2>3 DEF WriteDor, FdcInv
  <2>4. QED
    BY <2>1, <2>2, <2>3
<1>5. QED
  BY <1>1, <1>2, <1>3, <1>4 DEF Controller

\* An access is taken off the list.
LEMMA Access1 ==
  ASSUME TypeInv, Now \in {"send", "read", "wait", "dor", "ccr", "dma", "calibrated?", "sought?"}
  PROVE  /\ todo \in Seq(Access) /\ todo # << >> /\ todo # PANIC
         /\ Head(todo) \in Access /\ Tail(todo) \in Seq(Access) /\ Now = Head(todo)[1]
<1>1. todo # << >> /\ Now = Head(todo)[1]
  BY DEF Now
<1>2. Head(PANIC)[1] = "panic"
  BY DEF PANIC
<1>3. todo # PANIC
  BY <1>1, <1>2
<1>4. todo \in Seq(Access)
  BY <1>3 DEF TypeInv
<1>5. QED
  BY <1>1, <1>3, <1>4

\* The values an access carries.
LEMMA AccessArgs ==
  ASSUME NEW x \in Access
  PROVE  /\ x[1] = "send" => x[2] \in Byte
         /\ x[1] = "dor" => x[2] \in SUBSET Lines
         /\ x[1] = "ccr" => x[2] \in {0, 2}
         /\ x[1] = "dma" => x[2] \in {"off", "read", "other"}
         /\ x[1] = "calibrated?" => x[2] \in Nat
         /\ x[1] = "sought?" => x[2] \in Byte /\ x[3] \in 0 .. 1 /\ x[4] \in Nat
BY DEF Access

\* Every step keeps the types.
LEMMA NextType ==
  ASSUME TypeInv, [Next]_vars
  PROVE  TypeInv'
<1>0. FloppyAssumption /\ 0 \in Byte
  BY FloppyAssumption DEF Byte
<1>1. CASE flpydsk_read_status
  <2>1. Now \in {"send", "read"}
    BY <1>1 DEF flpydsk_read_status
  <2>2. todo' = todo \/ todo' \in Seq(Access)
    BY <1>1, <2>1, Access1 DEF flpydsk_read_status
  <2>3. polls' \in 0 .. Polls - 1
    BY <1>0, <1>1 DEF flpydsk_read_status, GivenUp, TypeInv, FloppyAssumption
  <2>4. cyl' \in Byte /\ dropped' \in BOOLEAN
    <3>1. cyl' = cyl \/ cyl' \in Junk
      BY <1>1 DEF flpydsk_read_status
    <3>2. dropped' = dropped \/ dropped' = TRUE
      BY <1>1 DEF flpydsk_read_status
    <3>3. cyl' \in Byte
      BY <3>1, FloppyAssumption DEF TypeInv
    <3>4. dropped' \in BOOLEAN
      BY <3>2, Zenon DEF TypeInv
    <3>5. QED
      BY <3>3, <3>4
  <2>5. UNCHANGED <<_FloppyDiskIRQ, installed, dma, dor, ccr, fdc, irq, missed, lba>>
    BY <1>1 DEF flpydsk_read_status, fdcvars
  <2>6. QED
    BY <2>2, <2>3, <2>4, <2>5 DEF TypeInv, FdcInv
<1>2. CASE flpydsk_send_command
  <2>1. Now = "send" /\ todo' = Tail(todo) /\ polls' = 0 /\ Take(Head(todo)[2])
        /\ UNCHANGED <<cyl, _FloppyDiskIRQ, installed, dma, dor, ccr, irq, lba, dropped, missed>>
    BY <1>2 DEF flpydsk_send_command, Arg
  <2>2. todo' \in Seq(Access) /\ Head(todo)[2] \in Byte
    BY <2>1, Access1, AccessArgs
  <2>3. FdcInv'
    BY <2>1, <2>2, TakeType DEF TypeInv
  <2>4. QED
    BY <1>0, <2>1, <2>2, <2>3 DEF TypeInv, FloppyAssumption
<1>3. CASE flpydsk_read_data
  <2>1. Now = "read" /\ todo' = Tail(todo) /\ polls' = 0
        /\ UNCHANGED <<_FloppyDiskIRQ, installed, dma, dor, ccr, irq, lba, dropped, missed>>
    BY <1>3 DEF flpydsk_read_data
  <2>2. PICK byte \in Junk \cup Cyls \cup {0, 2, 32, 128} :
          Give(byte) /\ cyl' = IF Arg = "cyl" THEN byte ELSE cyl
    BY <1>3 DEF flpydsk_read_data
  <2>3. todo' \in Seq(Access)
    BY <2>1, Access1
  <2>4. byte \in Byte
    BY FloppyAssumption DEF Byte
  <2>5. FdcInv'
    BY <2>2, GiveType DEF TypeInv
  <2>6. QED
    BY <1>0, <2>1, <2>2, <2>3, <2>4, <2>5 DEF TypeInv, FloppyAssumption
<1>4. CASE Wait
  <2>1. Now = "wait" /\ todo' = Tail(todo) /\ _FloppyDiskIRQ' = 0
        /\ UNCHANGED <<polls, cyl, installed, dma, dor, ccr, fdc, irq, missed, lba, dropped>>
    BY <1>4 DEF Wait, fdcvars
  <2>2. todo' \in Seq(Access)
    BY <2>1, Access1
  <2>3. QED
    BY <2>1, <2>2 DEF TypeInv, FdcInv
<1>5. CASE WriteDor
  <2>1. Now = "dor" /\ todo' = Tail(todo) /\ dor' = Head(todo)[2]
        /\ UNCHANGED <<polls, cyl, _FloppyDiskIRQ, installed, dma, ccr, irq, lba, dropped, missed>>
    BY <1>5 DEF WriteDor, Arg
  <2>2. todo' \in Seq(Access) /\ dor' \in SUBSET Lines
    BY <2>1, Access1, AccessArgs
  <2>3. FdcInv'
    BY <1>5, ControllerType DEF TypeInv
  <2>4. QED
    BY <2>1, <2>2, <2>3 DEF TypeInv
<1>6. CASE WriteOther
  <2>1. Now \in {"ccr", "dma"} /\ todo' = Tail(todo)
        /\ ccr' = (IF Now = "ccr" THEN Head(todo)[2] ELSE ccr)
        /\ dma' = (IF Now = "dma" THEN Head(todo)[2] ELSE dma)
        /\ UNCHANGED <<polls, cyl, _FloppyDiskIRQ, installed, dor, fdc, irq, missed, lba, dropped>>
    BY <1>6 DEF WriteOther, Arg, fdcvars
  <2>2. todo' \in Seq(Access) /\ ccr' \in {0, 2} /\ dma' \in {"off", "read", "other"}
    BY <2>1, Access1, AccessArgs DEF TypeInv
  <2>3. QED
    BY <2>1, <2>2 DEF TypeInv, FdcInv
<1>7. CASE Test
  <2>1. Now \in {"calibrated?", "sought?"}
        /\ UNCHANGED <<polls, cyl, _FloppyDiskIRQ, installed, dma, dor, ccr, fdc, irq, missed, lba, dropped>>
    BY <1>7 DEF Test, fdcvars
  <2>2. Head(todo) \in Access /\ Tail(todo) \in Seq(Access) /\ Now = Head(todo)[1]
    BY <2>1, Access1
  <2>3. PICK next : /\ next = IF Now = "calibrated?" THEN Calibrated(Arg)
                              ELSE Sought(Arg, Head(todo)[3], Head(todo)[4])
                    /\ todo' = IF next = PANIC THEN next ELSE next \o Tail(todo)
    BY <1>7 DEF Test, PANIC
  <2>4. next = PANIC \/ next \in Seq(Access)
    <3>1. CASE Now = "calibrated?"
      <4>1. Arg \in Nat /\ Arg + 1 \in Nat
        BY <2>2, <3>1, AccessArgs DEF Arg
      <4>2. QED
        BY <2>3, <3>1, <4>1, DorType, CalibrateType DEF Calibrated
    <3>2. CASE Now = "sought?"
      <4>1. Arg \in Byte /\ Head(todo)[3] \in 0 .. 1 /\ Head(todo)[4] + 1 \in Nat
        BY <2>2, <3>2, AccessArgs DEF Arg
      <4>2. << >> \in Seq(Access)
        OBVIOUS
      <4>3. QED
        BY <2>3, <3>2, <4>1, <4>2, SeekType DEF Sought
    <3>3. QED
      BY <2>1, <3>1, <3>2
  <2>5. todo' = PANIC \/ todo' \in Seq(Access)
    BY <2>2, <2>3, <2>4, ConcatType
  <2>6. QED
    BY <2>1, <2>5 DEF TypeInv, FdcInv
<1>8. CASE Controller
  <2>1. UNCHANGED <<driver, _FloppyDiskIRQ, installed, dma, dor, ccr, lba, dropped>>
        /\ irq' \in BOOLEAN /\ missed' \in Nat
    <3>1. UNCHANGED <<driver, _FloppyDiskIRQ, installed, dma, dor, ccr, lba, dropped>>
      BY <1>8 DEF Controller, Ready, Finish, Overrun
    <3>2. irq' = irq \/ irq' = (irq \/ Interrupts)
      BY <1>8, Zenon DEF Controller, Ready, Finish, Overrun
    <3>3. missed' = missed \/ missed' = missed + 1
      BY <1>8 DEF Controller, Ready, Finish, Overrun
    <3>4. (irq \/ Interrupts) \in BOOLEAN
      BY Zenon DEF Interrupts
    <3>5. irq' \in BOOLEAN
      BY <3>2, <3>4, Zenon DEF TypeInv
    <3>6. QED
      BY <3>1, <3>3, <3>5 DEF TypeInv
  <2>2. FdcInv'
    BY <1>8, ControllerType DEF TypeInv
  <2>3. QED
    BY <2>1, <2>2 DEF TypeInv, driver
<1>9. CASE Handler
  BY <1>9 DEF Handler, TypeInv, FdcInv, driver
<1>10. CASE UNCHANGED vars
  BY <1>10 DEF vars, driver, fdcvars, TypeInv, FdcInv
<1>11. QED
  BY <1>1, <1>2, <1>3, <1>4, <1>5, <1>6, <1>7, <1>8, <1>9, <1>10 DEF Next, Driver

-----------------------------------------------------------------------------
(* Driver and controller in step. A label says what the driver may count   *)
(* on before an access; May and Then say which accesses are in order there *)
(* and what it may count on afterwards.                                    *)
(*   ctl     the controller is "taking" bytes, "answering", held in        *)
(*           "reset", "working" until the driver has seen its interrupt,   *)
(*           the same for a READ ("reading"), or past that ("after")       *)
(*   bytes   of the command given       senses, out  lengths of its lists  *)
(*   know    of the head: "nothing", that it was "aimed" at a cylinder,    *)
(*           that cyl has been "told", that it is "there"                  *)
(*   aim     that cylinder              miss  the seeks that failed before *)

Label ==
  [ctl : {"taking", "answering", "reset", "working", "reading", "after"},
   bytes : Seq(Byte), senses : 0 .. 4, out : 0 .. 2,
   dor : SUBSET Lines, dma : {"off", "read", "other"}, ccr : {0, 2},
   know : {"nothing", "aimed", "told", "there"}, aim : Byte, miss : Nat]

Idle(a) == a.ctl = "taking" /\ a.bytes = << >> /\ a.out = 0

After == [ctl |-> "after", bytes |-> << >>, senses |-> 0, out |-> 0, dor |-> {}, dma |-> "off",
          ccr |-> 0, know |-> "nothing", aim |-> 0, miss |-> 0]

\* What ReadPrepared asks of the command's bytes.
Names(n, b) ==
  /\ b[2] = b[4] * 4 /\ (b[3] * 2 + b[4]) * FLPY_SECTORS_PER_TRACK + b[5] = n + 1
  /\ b[5] \in 1 .. b[7] /\ b[7] <= FLPY_SECTORS_PER_TRACK

MayBegin(n, a, b) ==
  LET code == Code(b[1])
  IN  \/ code = SPECIFY
      \/ code = CHECK_INT /\ a.senses > 0
      \/ code \in {CALIBRATE, SEEK} /\ a.senses = 0 /\ "DMA" \in a.dor /\ a.know = "nothing"
      \/ /\ code = READ_SECT /\ a.dor = Lines /\ a.dma = "read" /\ a.ccr = 0
         /\ a.know = "there" /\ a.aim = b[3] /\ Names(n, b)

Begun(a, b) ==
  LET code == Code(b[1])
  IN  CASE code = SPECIFY   -> [a EXCEPT !.bytes = << >>]
        [] code = CHECK_INT -> [a EXCEPT !.ctl = "answering", !.bytes = << >>, !.senses = @ - 1, !.out = 2]
        [] code = CALIBRATE -> [a EXCEPT !.ctl = "working", !.bytes = b, !.senses = 1]
        [] code = SEEK      -> [a EXCEPT !.ctl = "working", !.bytes = b, !.senses = 1,
                                         !.know = "aimed", !.aim = b[3]]
        [] OTHER            -> [a EXCEPT !.ctl = "reading", !.bytes = b]

Whole(b) == Len(b) = Bytes(Code(b[1]))

May(n, a, x) ==
  \/ /\ x[1] = "send" /\ a.ctl = "taking"
     /\ LET b == Append(a.bytes, x[2])
        IN  /\ Code(b[1]) \in {SPECIFY, CALIBRATE, CHECK_INT, SEEK, READ_SECT}
            /\ Whole(b) => MayBegin(n, a, b)
  \/ x[1] = "read" /\ a.ctl = "answering" /\ a.out > 0 /\ x[2] = IF a.out = 2 THEN "st0" ELSE "cyl"
  \/ x[1] = "wait" /\ a.ctl \in {"working", "reading"}
  \/ x[1] = "dor" /\ Idle(a) /\ ("RESET" \notin x[2] => a.know = "nothing")
  \/ x[1] = "dor" /\ a.ctl = "reset" /\ "RESET" \in x[2] /\ "DMA" \in x[2]
  \/ x[1] \in {"ccr", "dma"} /\ Idle(a)
  \/ x[1] = "calibrated?" /\ Idle(a) /\ a.senses = 0 /\ a.know = "nothing" /\ a.dor = Lines
  \/ /\ x[1] = "sought?" /\ Idle(a) /\ a.senses = 0 /\ a.know = "told" /\ a.dor = Lines
     /\ a.aim = x[2] /\ a.miss = x[4] /\ x[4] < Tries
  \/ a.ctl = "after" /\ (x[1] \in {"read", "dor"} \/ x = <<"send", CHECK_INT>>)

Then(a, x) ==
  IF a.ctl = "after" \/ a.ctl = "reading" THEN After
  ELSE CASE x[1] = "send" -> LET b == Append(a.bytes, x[2])
                             IN  IF Whole(b) THEN Begun(a, b) ELSE [a EXCEPT !.bytes = b]
         [] x[1] = "read" -> IF a.out = 2 THEN [a EXCEPT !.out = 1]
                             ELSE [a EXCEPT !.ctl = "taking", !.out = 0,
                                            !.know = IF @ = "aimed" THEN "told" ELSE @]
         [] x[1] = "wait" -> [a EXCEPT !.ctl = "taking", !.bytes = << >>]
         [] x[1] = "dor"  -> IF "RESET" \notin x[2] THEN [a EXCEPT !.ctl = "reset", !.dor = x[2], !.senses = 0]
                             ELSE IF a.ctl = "reset" THEN [a EXCEPT !.ctl = "working", !.dor = x[2], !.senses = 4]
                             ELSE [a EXCEPT !.dor = x[2]]
         [] x[1] = "ccr"  -> [a EXCEPT !.ccr = x[2]]
         [] x[1] = "dma"  -> [a EXCEPT !.dma = x[2]]
         [] x[1] = "calibrated?" -> [a EXCEPT !.dor = {"RESET"}]
         [] OTHER -> [a EXCEPT !.know = "there", !.miss = 0]

\* The accesses of s, one after the other, lead from a to z.
Run(n, s, a, z) ==
  /\ s \in Seq(Access)
  /\ \E L \in [1 .. Len(s) + 1 -> Label] :
       /\ L[1] = a /\ L[Len(s) + 1] = z
       /\ \A i \in 1 .. Len(s) : May(n, L[i], s[i]) /\ L[i + 1] = Then(L[i], s[i])

\* The state is as the label says.
Quiet == ~irq /\ _FloppyDiskIRQ = 0

Senses(a) ==
  /\ Len(fdc.senses) = a.senses
  /\ a.know \in {"aimed", "told"} => \A i \in 1 .. Len(fdc.senses) : fdc.senses[i] = fdc.pcn

Place(a) ==
  /\ a.know = "nothing" => missed = a.miss
  /\ a.know \in {"aimed", "told"} => missed = a.miss + (IF fdc.pcn = a.aim THEN 0 ELSE 1)
  /\ a.know = "told" => cyl = fdc.pcn
  /\ a.know = "there" => fdc.pcn = a.aim

Registers(a) == dor = a.dor /\ dma = a.dma /\ ccr = a.ccr

Taking(a) ==
  /\ Quiet /\ fdc.phase = "command" /\ fdc.bytes = a.bytes /\ fdc.out = << >> /\ a.out = 0
  /\ Senses(a) /\ Place(a)

Answering(a) ==
  /\ Quiet /\ fdc.phase = "result" /\ Len(fdc.out) = a.out /\ a.out > 0
  /\ a.know \in {"aimed", "told"} => fdc.out[a.out] = fdc.pcn
  /\ a.bytes = << >> /\ Senses(a) /\ Place(a)

InReset(a) ==
  /\ Quiet /\ fdc.phase = "reset" /\ fdc.bytes = << >> /\ fdc.out = << >> /\ fdc.senses = << >>
  /\ a.bytes = << >> /\ a.know = "nothing" /\ a.out = 0 /\ missed = a.miss

\* The work under way is that of the label's command.
Ordered(a) ==
  \/ a.bytes = << >> /\ a.senses = 4 /\ a.know = "nothing"
  \/ a.bytes # << >> /\ Code(a.bytes[1]) = CALIBRATE /\ a.senses = 1 /\ a.know = "nothing"
  \/ /\ a.bytes # << >> /\ Code(a.bytes[1]) = SEEK /\ a.senses = 1
     /\ a.know = "aimed" /\ a.aim = a.bytes[3]

Working(a) ==
  /\ Interrupts /\ fdc.out = << >> /\ a.out = 0 /\ Ordered(a)
  /\ \/ /\ Quiet /\ fdc.phase = "execute" /\ fdc.bytes = a.bytes
        /\ fdc.senses = << >> /\ missed = a.miss
     \/ /\ fdc.phase = "command" /\ fdc.bytes = << >> /\ Senses(a) /\ Place(a)
        /\ irq => _FloppyDiskIRQ = 0
        /\ installed => irq \/ _FloppyDiskIRQ = 1

Reading ==
  /\ Interrupts /\ atread # {}
  /\ \/ /\ Quiet /\ fdc.phase = "execute"
        /\ fdc.bytes # << >> /\ Code(fdc.bytes[1]) = READ_SECT
     \/ fdc.phase \in {"data", "result"} /\ (installed => irq \/ _FloppyDiskIRQ = 1)

Past == atread # {} /\ (fdc.phase = "command" => fdc.bytes = << >>)

Matches(a) ==
  /\ a.ctl = "taking"    => Taking(a)
  /\ a.ctl = "answering" => Answering(a)
  /\ a.ctl = "reset"     => InReset(a)
  /\ a.ctl = "working"   => Working(a)
  /\ a.ctl = "reading"   => Reading
  /\ a.ctl = "after"     => Past
  /\ a.ctl # "after"     => Registers(a)

\* The accesses to come lead to the end of init_fat12, or the attempts are
\* used up.
Goes(a) ==
  \/ Run(lba, todo, a, After)
  \/ todo = PANIC /\ Idle(a) /\ a.know = "nothing" /\ a.miss = Tries

\* As long as no byte was given up, some label describes the state and what
\* is to come.
Sync ==
  ~dropped => \E a \in Label : Matches(a) /\ Goes(a)

IInv == TypeInv /\ Sync /\ ReadPrepared

-----------------------------------------------------------------------------
(* What the functions of the driver lead to.                               *)

\* One access, two lists after each other, and the first access of a list.
LEMMA RunOne ==
  ASSUME NEW n, NEW x \in Access, NEW a \in Label, NEW z \in Label, May(n, a, x), z = Then(a, x)
  PROVE  Run(n, <<x>>, a, z)
<1>1. PICK L : L = [i \in 1 .. 2 |-> IF i = 1 THEN a ELSE z]
  OBVIOUS
<1>2. L \in [1 .. Len(<<x>>) + 1 -> Label] /\ L[1] = a /\ L[Len(<<x>>) + 1] = z
  BY <1>1
<1>3. \A i \in 1 .. Len(<<x>>) : May(n, L[i], <<x>>[i]) /\ L[i + 1] = Then(L[i], <<x>>[i])
  BY <1>1
<1>4. <<x>> \in Seq(Access)
  OBVIOUS
<1>5. QED
  BY <1>2, <1>3, <1>4 DEF Run

LEMMA RunConcat ==
  ASSUME NEW n, NEW s, NEW t, NEW a, NEW b, NEW z, Run(n, s, a, b), Run(n, t, b, z)
  PROVE  Run(n, s \o t, a, z)
<1>1. PICK K \in [1 .. Len(s) + 1 -> Label] :
        /\ K[1] = a /\ K[Len(s) + 1] = b
        /\ \A i \in 1 .. Len(s) : May(n, K[i], s[i]) /\ K[i + 1] = Then(K[i], s[i])
  BY DEF Run
<1>2. PICK M \in [1 .. Len(t) + 1 -> Label] :
        /\ M[1] = b /\ M[Len(t) + 1] = z
        /\ \A i \in 1 .. Len(t) : May(n, M[i], t[i]) /\ M[i + 1] = Then(M[i], t[i])
  BY DEF Run
<1>3. /\ s \in Seq(Access) /\ t \in Seq(Access) /\ s \o t \in Seq(Access)
      /\ Len(s) \in Nat /\ Len(t) \in Nat /\ Len(s \o t) = Len(s) + Len(t)
  BY DEF Run
<1>4. PICK k \in Nat, l \in Nat : k = Len(s) /\ l = Len(t)
  BY <1>3
<1>5. PICK L : L = [i \in 1 .. k + l + 1 |-> IF i <= k THEN K[i] ELSE M[i - k]]
  OBVIOUS
<1>6. L \in [1 .. k + l + 1 -> Label]
  <2>1. \A i \in 1 .. k + l + 1 : (i <= k => i \in 1 .. k + 1) /\ (~(i <= k) => i - k \in 1 .. l + 1)
    OBVIOUS
  <2>2. QED
    BY <1>1, <1>2, <1>4, <1>5, <2>1
<1>7. L[1] = a /\ L[k + l + 1] = z
  <2>1. CASE k = 0
    BY <1>1, <1>2, <1>4, <1>5, <2>1
  <2>2. CASE k > 0
    BY <1>1, <1>2, <1>4, <1>5, <2>2
  <2>3. QED
    BY <2>1, <2>2
<1>8. ASSUME NEW i \in 1 .. k + l
      PROVE  May(n, L[i], (s \o t)[i]) /\ L[i + 1] = Then(L[i], (s \o t)[i])
  <2>1. CASE i <= k
    <3>1. (s \o t)[i] = s[i] /\ L[i] = K[i] /\ i \in 1 .. k
      BY <1>3, <1>4, <1>5, <2>1
    <3>2. L[i + 1] = K[i + 1]
      <4>1. CASE i + 1 <= k
        BY <1>5, <4>1
      <4>2. CASE i = k
        BY <1>1, <1>2, <1>4, <1>5, <4>2
      <4>3. QED
        BY <2>1, <4>1, <4>2
    <3>3. QED
      BY <1>1, <1>4, <3>1, <3>2
  <2>2. CASE i > k
    <3>1. i - k \in 1 .. l /\ (i + 1) - k = (i - k) + 1
      BY <2>2
    <3>2. (s \o t)[i] = t[i - k]
      BY <1>3, <1>4, <2>2
    <3>3. L[i] = M[i - k] /\ L[i + 1] = M[(i - k) + 1]
      BY <1>5, <2>2, <3>1
    <3>4. QED
      BY <1>2, <1>4, <3>1, <3>2, <3>3
  <2>3. i <= k \/ i > k
    OBVIOUS
  <2>4. QED
    BY <2>1, <2>2, <2>3
<1>9. QED
  BY <1>3, <1>4, <1>6, <1>7, <1>8 DEF Run

LEMMA RunFirst ==
  ASSUME NEW n, NEW s, NEW a, NEW z, Run(n, s, a, z), s # << >>
  PROVE  May(n, a, Head(s)) /\ Then(a, Head(s)) \in Label /\ Run(n, Tail(s), Then(a, Head(s)), z)
<1>1. PICK L \in [1 .. Len(s) + 1 -> Label] :
        /\ L[1] = a /\ L[Len(s) + 1] = z
        /\ \A i \in 1 .. Len(s) : May(n, L[i], s[i]) /\ L[i + 1] = Then(L[i], s[i])
  BY DEF Run
<1>2. /\ s \in Seq(Access) /\ Len(s) \in Nat /\ Len(s) >= 1 /\ Head(s) = s[1]
      /\ Tail(s) \in Seq(Access) /\ Len(Tail(s)) = Len(s) - 1
      /\ \A i \in 1 .. Len(s) - 1 : Tail(s)[i] = s[i + 1]
  BY DEF Run
<1>3. May(n, a, Head(s)) /\ L[2] = Then(a, Head(s)) /\ L[2] \in Label
  BY <1>1, <1>2
<1>4. PICK k \in Nat : k = Len(s) - 1 /\ Len(s) = k + 1
  <2>1. Len(s) - 1 \in Nat /\ Len(s) = (Len(s) - 1) + 1
    BY <1>2
  <2>2. QED
    BY <2>1
<1>5. PICK M : M = [i \in 1 .. k + 1 |-> L[i + 1]]
  OBVIOUS
<1>6. M \in [1 .. k + 1 -> Label] /\ M[1] = Then(a, Head(s)) /\ M[k + 1] = z
  BY <1>1, <1>3, <1>4, <1>5
<1>7. \A i \in 1 .. k : May(n, M[i], Tail(s)[i]) /\ M[i + 1] = Then(M[i], Tail(s)[i])
  BY <1>1, <1>2, <1>4, <1>5
<1>8. Run(n, Tail(s), Then(a, Head(s)), z)
  BY <1>2, <1>4, <1>6, <1>7 DEF Run
<1>9. QED
  BY <1>3, <1>8

\* What a command leads to does not depend on the bytes before.
LEMMA BegunBytes ==
  ASSUME NEW a \in Label, NEW c, NEW e \in Seq(Byte), c = [a EXCEPT !.bytes = e], NEW b
  PROVE  Begun(c, b) = Begun(a, b)
<1>1. CASE Code(b[1]) = SPECIFY
  <2>1. [c EXCEPT !.bytes = << >>] = [a EXCEPT !.bytes = << >>]
    BY DEF Label
  <2>2. QED
    BY <1>1, <2>1 DEF Begun, SPECIFY, CHECK_INT, CALIBRATE, SEEK
<1>2. CASE Code(b[1]) = CHECK_INT
  <2>1. [c EXCEPT !.ctl = "answering", !.bytes = << >>, !.senses = @ - 1, !.out = 2]
          = [a EXCEPT !.ctl = "answering", !.bytes = << >>, !.senses = @ - 1, !.out = 2]
    BY DEF Label
  <2>2. QED
    BY <1>2, <2>1 DEF Begun, SPECIFY, CHECK_INT, CALIBRATE, SEEK
<1>3. CASE Code(b[1]) = CALIBRATE
  <2>1. [c EXCEPT !.ctl = "working", !.bytes = b, !.senses = 1]
          = [a EXCEPT !.ctl = "working", !.bytes = b, !.senses = 1]
    BY DEF Label
  <2>2. QED
    BY <1>3, <2>1 DEF Begun, SPECIFY, CHECK_INT, CALIBRATE, SEEK
<1>4. CASE Code(b[1]) = SEEK
  <2>1. [c EXCEPT !.ctl = "working", !.bytes = b, !.senses = 1, !.know = "aimed", !.aim = b[3]]
          = [a EXCEPT !.ctl = "working", !.bytes = b, !.senses = 1, !.know = "aimed", !.aim = b[3]]
    BY DEF Label
  <2>2. QED
    BY <1>4, <2>1 DEF Begun, SPECIFY, CHECK_INT, CALIBRATE, SEEK
<1>5. CASE Code(b[1]) \notin {SPECIFY, CHECK_INT, CALIBRATE, SEEK}
  <2>1. [c EXCEPT !.ctl = "reading", !.bytes = b] = [a EXCEPT !.ctl = "reading", !.bytes = b]
    BY DEF Label
  <2>2. QED
    BY <1>5, <2>1 DEF Begun, SPECIFY, CHECK_INT, CALIBRATE, SEEK
<1>6. QED
  BY <1>1, <1>2, <1>3, <1>4, <1>5

\* The bytes of a command that may begin.
LEMMA SendRun ==
  ASSUME NEW n, NEW a \in Label, Idle(a), NEW b \in Seq(Byte), b # << >>, Whole(b),
         Code(b[1]) \in {SPECIFY, CALIBRATE, CHECK_INT, SEEK, READ_SECT},
         MayBegin(n, a, b), NEW z \in Label, z = Begun(a, b)
  PROVE  Run(n, Send(b), a, z)
<1>1. PICK k \in Nat : k = Len(b) /\ k >= 1
  BY EmptyType
<1>2. PICK p : p = [i \in 1 .. k |-> SubSeq(b, 1, i - 1)]
  OBVIOUS
<1>3. ASSUME NEW i \in 1 .. k
      PROVE  /\ p[i] \in Seq(Byte) /\ Append(p[i], b[i]) = SubSeq(b, 1, i)
             /\ SubSeq(b, 1, i)[1] = b[1] /\ Len(SubSeq(b, 1, i)) = i
  <2>1. i - 1 \in 0 .. Len(b) /\ i \in 1 .. Len(b)
    BY <1>1
  <2>2. p[i] = SubSeq(b, 1, i - 1)
    BY <1>2
  <2>3. QED
    BY <2>1, <2>2
<1>4. p[1] = << >> /\ SubSeq(b, 1, k) = b
  BY <1>1, <1>2
<1>5. PICK L : L = [i \in 1 .. k + 1 |-> IF i <= k THEN [a EXCEPT !.bytes = p[i]] ELSE z]
  OBVIOUS
<1>6. ASSUME NEW i \in 1 .. k
      PROVE  /\ L[i] = [a EXCEPT !.bytes = p[i]] /\ L[i] \in Label /\ L[i].ctl = "taking"
             /\ L[i].bytes = p[i]
  <2>1. L[i] = [a EXCEPT !.bytes = p[i]]
    BY <1>5
  <2>2. QED
    BY <1>3, <2>1 DEF Label, Idle
<1>7. L \in [1 .. k + 1 -> Label] /\ L[k + 1] = z
  <2>1. \A i \in 1 .. k + 1 : i \in 1 .. k \/ (i = k + 1 /\ ~(i <= k))
    OBVIOUS
  <2>2. \A i \in 1 .. k + 1 : L[i] \in Label
    BY <1>5, <1>6, <2>1
  <2>3. QED
    BY <1>5, <2>2
<1>8. L[1] = a
  <2>1. a.bytes = p[1] /\ 1 \in 1 .. k
    BY <1>1, <1>4 DEF Idle
  <2>2. L[1] = [a EXCEPT !.bytes = p[1]]
    BY <1>6, <2>1
  <2>3. QED
    BY <2>1, <2>2 DEF Label
<1>9. ASSUME NEW i \in 1 .. k
      PROVE  May(n, L[i], <<"send", b[i]>>) /\ L[i + 1] = Then(L[i], <<"send", b[i]>>)
  <2>1. PICK c : c = SubSeq(b, 1, i)
    OBVIOUS
  <2>2. Append(L[i].bytes, b[i]) = c /\ c[1] = b[1] /\ Len(c) = i
    BY <1>3, <1>6, <2>1
  <2>3. Whole(c) => i = k /\ c = b
    BY <1>1, <1>4, <2>1, <2>2 DEF Whole
  <2>4. i = k => Whole(c) /\ c = b
    BY <1>1, <1>4, <2>1, <2>2 DEF Whole
  <2>5. MayBegin(n, L[i], b) /\ Begun(L[i], b) = z
    <3>1. /\ L[i].senses = a.senses /\ L[i].dor = a.dor /\ L[i].dma = a.dma
          /\ L[i].ccr = a.ccr /\ L[i].know = a.know /\ L[i].aim = a.aim
      BY <1>6 DEF Label
    <3>2. MayBegin(n, L[i], b)
      BY <3>1 DEF MayBegin
    <3>3. PICK c1, e : c1 = L[i] /\ e = p[i] /\ e \in Seq(Byte) /\ c1 = [a EXCEPT !.bytes = e]
      BY <1>3, <1>6
    <3>4. Begun(c1, b) = Begun(a, b)
      BY <3>3, BegunBytes
    <3>5. QED
      BY <3>2, <3>3, <3>4
  <2>6. May(n, L[i], <<"send", b[i]>>)
    BY <1>6, <2>2, <2>3, <2>5 DEF May
  <2>7. Then(L[i], <<"send", b[i]>>) = IF Whole(c) THEN Begun(L[i], c) ELSE [L[i] EXCEPT !.bytes = c]
    BY <1>6, <2>2 DEF Then
  <2>8. CASE i = k
    BY <1>7, <2>4, <2>5, <2>6, <2>7, <2>8
  <2>9. CASE i # k
    <3>1. i + 1 \in 1 .. k /\ (i + 1) - 1 = i
      BY <2>9
    <3>2. p[i + 1] = c
      BY <1>2, <2>1, <3>1
    <3>3. L[i + 1] = [a EXCEPT !.bytes = c]
      BY <1>6, <3>1, <3>2
    <3>4. [L[i] EXCEPT !.bytes = c] = [a EXCEPT !.bytes = c]
      BY <1>6 DEF Label
    <3>5. QED
      BY <2>3, <2>6, <2>7, <2>9, <3>3, <3>4
  <2>10. QED
    BY <2>8, <2>9
<1>10. Send(b) \in Seq(Access) /\ Len(Send(b)) = k
       /\ \A i \in 1 .. k : Send(b)[i] = <<"send", b[i]>>
  <2>1. Send(b) \in Seq(Access)
    BY SendType
  <2>2. QED
    BY <1>1, <2>1 DEF Send
<1>11. QED
  BY <1>7, <1>8, <1>9, <1>10 DEF Run

\* A register is written while the controller is idle.
LEMMA WriteRun ==
  ASSUME NEW n, NEW a \in Label, Idle(a), NEW z
  PROVE  /\ \A bits \in SUBSET Lines :
              "RESET" \in bits /\ z = [a EXCEPT !.dor = bits] => Run(n, flpydsk_write_dor(bits), a, z)
         /\ \A v \in {0, 2} : z = [a EXCEPT !.ccr = v] => Run(n, flpydsk_write_ccr(v), a, z)
<1>1. ASSUME NEW bits \in SUBSET Lines, "RESET" \in bits, z = [a EXCEPT !.dor = bits]
      PROVE  Run(n, flpydsk_write_dor(bits), a, z)
  <2>1. PICK x : x = <<"dor", bits>>
    OBVIOUS
  <2>2. x \in Access /\ x[1] = "dor" /\ x[2] = bits
    BY <2>1 DEF Access
  <2>3. z \in Label
    BY <1>1 DEF Label
  <2>4. May(n, a, x) /\ Then(a, x) = z
    BY <1>1, <2>2 DEF May, Then, Idle
  <2>5. QED
    BY <2>1, <2>2, <2>3, <2>4, RunOne DEF flpydsk_write_dor
<1>2. ASSUME NEW v \in {0, 2}, z = [a EXCEPT !.ccr = v]
      PROVE  Run(n, flpydsk_write_ccr(v), a, z)
  <2>1. PICK x : x = <<"ccr", v>>
    OBVIOUS
  <2>2. x \in Access /\ x[1] = "ccr" /\ x[2] = v
    BY <2>1 DEF Access
  <2>3. z \in Label
    BY <1>2 DEF Label
  <2>4. May(n, a, x) /\ Then(a, x) = z
    BY <1>2, <2>2 DEF May, Then, Idle
  <2>5. QED
    BY <2>1, <2>2, <2>3, <2>4, RunOne DEF flpydsk_write_ccr
<1>3. QED
  BY <1>1, <1>2

\* The DMA channel is masked and unmasked in a mode.
LEMMA DmaRun ==
  ASSUME NEW n, NEW a \in Label, Idle(a), NEW m \in {"off", "read", "other"},
         NEW z, z = [a EXCEPT !.dma = m]
  PROVE  Run(n, << <<"dma", "off">>, <<"dma", m>> >>, a, z)
<1>1. PICK x, y : x = <<"dma", "off">> /\ y = <<"dma", m>>
  OBVIOUS
<1>2. x \in Access /\ x[1] = "dma" /\ x[2] = "off" /\ y \in Access /\ y[1] = "dma" /\ y[2] = m
  BY <1>1 DEF Access
<1>3. PICK b : b = [a EXCEPT !.dma = "off"]
  OBVIOUS
<1>4. b \in Label /\ Idle(b) /\ z \in Label /\ z = [b EXCEPT !.dma = m]
  BY <1>3 DEF Label, Idle
<1>5. May(n, a, x) /\ Then(a, x) = b
  BY <1>2, <1>3 DEF May, Then, Idle
<1>6. May(n, b, y) /\ Then(b, y) = z
  BY <1>2, <1>4 DEF May, Then, Idle
<1>7. PICK s : s = <<x, y>>
  OBVIOUS
<1>8. s \in Seq(Access) /\ Len(s) = 2 /\ s[1] = x /\ s[2] = y
  BY <1>2, <1>7
<1>9. PICK L : L = [i \in 1 .. 3 |-> IF i = 1 THEN a ELSE IF i = 2 THEN b ELSE z]
  OBVIOUS
<1>10. L \in [1 .. 3 -> Label] /\ L[1] = a /\ L[2] = b /\ L[3] = z
  <2>1. L[1] = a /\ L[2] = b /\ L[3] = z
    BY <1>9
  <2>2. \A i \in 1 .. 3 : (IF i = 1 THEN a ELSE IF i = 2 THEN b ELSE z) \in Label
    BY <1>4
  <2>3. QED
    BY <1>9, <2>1, <2>2
<1>11. \A i \in 1 .. 2 : May(n, L[i], s[i]) /\ L[i + 1] = Then(L[i], s[i])
  <2>1. \A i \in 1 .. 2 : i = 1 \/ i = 2
    OBVIOUS
  <2>2. 1 + 1 = 2 /\ 2 + 1 = 3
    OBVIOUS
  <2>3. QED
    BY <1>5, <1>6, <1>8, <1>10, <2>1, <2>2
<1>12. 2 + 1 = 3
  OBVIOUS
<1>13. Run(n, s, a, z)
  BY <1>8, <1>10, <1>11, <1>12 DEF Run
<1>14. QED
  BY <1>1, <1>7, <1>13

\* The driver waits for what the controller does.
LEMMA WaitRun ==
  ASSUME NEW n, NEW a \in Label, a.ctl = "working", NEW z,
         z = [a EXCEPT !.ctl = "taking", !.bytes = << >>]
  PROVE  Run(n, flpydsk_wait_irq, a, z) /\ z \in Label
<1>1. PICK x : x = <<"wait">>
  OBVIOUS
<1>2. x \in Access /\ x[1] = "wait"
  BY <1>1 DEF Access
<1>3. z \in Label
  BY EmptyType DEF Label
<1>4. May(n, a, x) /\ Then(a, x) = z
  BY <1>2 DEF May, Then
<1>5. QED
  BY <1>1, <1>2, <1>3, <1>4, RunOne DEF flpydsk_wait_irq

\* An interrupt is asked for; if it was a seek's, the driver knows where the
\* head is.
LEMMA CheckIntRun ==
  ASSUME NEW n, NEW a \in Label, Idle(a), a.senses > 0, NEW z,
         z = [a EXCEPT !.senses = @ - 1, !.know = IF @ = "aimed" THEN "told" ELSE @]
  PROVE  Run(n, flpydsk_check_int, a, z) /\ z \in Label
<1>1. PICK b : b = <<CHECK_INT>>
  OBVIOUS
<1>2. /\ b \in Seq(Byte) /\ b # << >> /\ Len(b) = 1 /\ b[1] = CHECK_INT
      /\ Code(b[1]) = CHECK_INT /\ Whole(b)
  BY <1>1 DEF CHECK_INT, Byte, Code, Whole, Bytes, CALIBRATE, SEEK, SPECIFY, READ_SECT
<1>3. a.senses - 1 \in 0 .. 4 /\ 1 \in 0 .. 2 /\ 2 \in 0 .. 2
  BY DEF Label
<1>4. PICK a1 : a1 = [a EXCEPT !.ctl = "answering", !.bytes = << >>, !.senses = @ - 1, !.out = 2]
  OBVIOUS
<1>5. a1 \in Label /\ a1.ctl = "answering" /\ a1.out = 2
  <2>1. PICK k : k = a.senses - 1
    OBVIOUS
  <2>2. a1 = [a EXCEPT !.ctl = "answering", !.bytes = << >>, !.senses = k, !.out = 2]
    BY <1>4, <2>1 DEF Label
  <2>3. QED
    BY <1>3, <2>1, <2>2, EmptyType DEF Label
<1>6. Begun(a, b) = a1
  BY <1>2, <1>4 DEF Begun, SPECIFY, CHECK_INT, CALIBRATE, SEEK
<1>7. MayBegin(n, a, b)
  BY <1>2 DEF MayBegin
<1>8. Run(n, Send(b), a, a1)
  BY <1>2, <1>5, <1>6, <1>7, SendRun
<1>9. PICK a2 : a2 = [a1 EXCEPT !.out = 1]
  OBVIOUS
<1>10. a2 \in Label /\ a2.ctl = "answering" /\ a2.out = 1
  BY <1>3, <1>5, <1>9 DEF Label
<1>11. Run(n, Read("st0"), a1, a2)
  <2>1. PICK x : x = <<"read", "st0">>
    OBVIOUS
  <2>2. x \in Access /\ x[1] = "read" /\ x[2] = "st0"
    BY <2>1 DEF Access
  <2>3. May(n, a1, x) /\ Then(a1, x) = a2
    BY <1>5, <1>9, <2>2 DEF May, Then
  <2>4. QED
    BY <1>5, <1>10, <2>1, <2>2, <2>3, RunOne DEF Read
<1>12. z \in Label
  BY <1>3 DEF Label
<1>13. [a2 EXCEPT !.ctl = "taking", !.out = 0, !.know = IF @ = "aimed" THEN "told" ELSE @] = z
  BY <1>4, <1>9 DEF Label, Idle
<1>14. Run(n, Read("cyl"), a2, z)
  <2>1. PICK x : x = <<"read", "cyl">>
    OBVIOUS
  <2>2. x \in Access /\ x[1] = "read" /\ x[2] = "cyl"
    BY <2>1 DEF Access
  <2>3. May(n, a2, x) /\ Then(a2, x) = z
    BY <1>10, <1>13, <2>2 DEF May, Then
  <2>4. QED
    BY <1>10, <1>12, <2>1, <2>2, <2>3, RunOne DEF Read
<1>15. Run(n, Send(b) \o Read("st0"), a, a2)
  BY <1>8, <1>11, RunConcat
<1>16. Run(n, Send(b) \o Read("st0") \o Read("cyl"), a, z)
  BY <1>14, <1>15, RunConcat
<1>17. QED
  BY <1>1, <1>12, <1>16 DEF flpydsk_check_int

\* The drive's data are sent; nothing is answered.
LEMMA DriveDataRun ==
  ASSUME NEW n, NEW a \in Label, Idle(a), NEW u \in Nat, NEW v \in Nat, NEW w \in Nat
  PROVE  Run(n, flpydsk_drive_data(u, v, w, TRUE), a, a)
<1>1. PICK b : b = <<SPECIFY, (u % 16) * 16 + (w % 16), 1>>
  OBVIOUS
<1>2. /\ b \in Seq(Byte) /\ b # << >> /\ Len(b) = 3 /\ b[1] = SPECIFY
      /\ Code(b[1]) = SPECIFY /\ Whole(b)
  <2>1. (u % 16) * 16 + (w % 16) \in Byte
    <3>1. u % 16 \in 0 .. 15 /\ w % 16 \in 0 .. 15
      OBVIOUS
    <3>2. QED
      BY <3>1 DEF Byte
  <2>2. QED
    BY <1>1, <2>1 DEF CHECK_INT, Byte, Code, Whole, Bytes, CALIBRATE, SEEK, SPECIFY, READ_SECT
<1>3. [a EXCEPT !.bytes = << >>] = a
  BY DEF Label, Idle
<1>4. Begun(a, b) = a
  BY <1>2, <1>3 DEF Begun, SPECIFY, CHECK_INT, CALIBRATE, SEEK
<1>5. MayBegin(n, a, b)
  BY <1>2 DEF MayBegin
<1>6. Run(n, Send(b), a, a)
  BY <1>2, <1>4, <1>5, SendRun
<1>7. QED
  BY <1>1, <1>6 DEF flpydsk_drive_data

\* A calibration ends with the motor off, whatever its attempts found.
LEMMA CalibrateRun ==
  ASSUME NEW n, NEW a \in Label, Idle(a), a.senses = 0, a.know = "nothing", a.dor = Lines,
         NEW i \in Nat, NEW z, z = [a EXCEPT !.dor = {"RESET"}]
  PROVE  /\ Run(n, flpydsk_calibrate(i), a, z) /\ z \in Label
         /\ Run(n, flpydsk_control_motor(FALSE), a, z)
<1>1. {"RESET"} \in SUBSET Lines
  BY DEF Lines
<1>2. z \in Label
  BY <1>1 DEF Label
<1>3. Run(n, flpydsk_control_motor(FALSE), a, z)
  BY <1>1, WriteRun DEF flpydsk_control_motor
<1>4. CASE i < Tries
  <2>1. PICK b : b = <<CALIBRATE, 0>>
    OBVIOUS
  <2>2. /\ b \in Seq(Byte) /\ b # << >> /\ Len(b) = 2 /\ b[1] = CALIBRATE
        /\ Code(b[1]) = CALIBRATE /\ Whole(b)
    BY <2>1 DEF CHECK_INT, Byte, Code, Whole, Bytes, CALIBRATE, SEEK, SPECIFY, READ_SECT
  <2>3. PICK a1 : a1 = [a EXCEPT !.ctl = "working", !.bytes = b, !.senses = 1]
    OBVIOUS
  <2>4. 1 \in 0 .. 4 /\ 1 > 0 /\ 1 - 1 = 0
    OBVIOUS
  <2>5. a1 \in Label /\ a1.ctl = "working"
    BY <2>2, <2>3, <2>4 DEF Label
  <2>6. Begun(a, b) = a1
    BY <2>2, <2>3 DEF Begun, SPECIFY, CHECK_INT, CALIBRATE, SEEK
  <2>7. MayBegin(n, a, b)
    BY <2>2 DEF MayBegin, Lines
  <2>8. Run(n, Send(b), a, a1)
    BY <2>2, <2>5, <2>6, <2>7, SendRun
  <2>9. PICK a2 : a2 = [a1 EXCEPT !.ctl = "taking", !.bytes = << >>]
    OBVIOUS
  <2>10. Run(n, flpydsk_wait_irq, a1, a2) /\ a2 \in Label
    BY <2>5, <2>9, WaitRun
  <2>11. Idle(a2) /\ a2.senses = 1
    BY <2>3, <2>9 DEF Label, Idle
  <2>12. [a2 EXCEPT !.senses = @ - 1, !.know = IF @ = "aimed" THEN "told" ELSE @] = a
    BY <2>3, <2>4, <2>9 DEF Label, Idle
  <2>13. Run(n, flpydsk_check_int, a2, a)
    BY <2>4, <2>10, <2>11, <2>12, CheckIntRun
  <2>14. Run(n, << <<"calibrated?", i>> >>, a, z)
    <3>1. PICK x : x = <<"calibrated?", i>>
      OBVIOUS
    <3>2. x \in Access /\ x[1] = "calibrated?"
      BY <3>1 DEF Access
    <3>3. May(n, a, x) /\ Then(a, x) = z
      BY <3>2 DEF May, Then, Idle
    <3>4. QED
      BY <1>2, <3>1, <3>2, <3>3, RunOne
  <2>15. Run(n, Send(b) \o flpydsk_wait_irq, a, a2)
    BY <2>8, <2>10, RunConcat
  <2>16. Run(n, Send(b) \o flpydsk_wait_irq \o flpydsk_check_int, a, a)
    BY <2>13, <2>15, RunConcat
  <2>17. Run(n, Send(b) \o flpydsk_wait_irq \o flpydsk_check_int \o << <<"calibrated?", i>> >>, a, z)
    BY <2>14, <2>16, RunConcat
  <2>18. QED
    BY <1>2, <1>3, <1>4, <2>1, <2>17 DEF flpydsk_calibrate
<1>5. CASE ~(i < Tries)
  BY <1>2, <1>3, <1>5 DEF flpydsk_calibrate
<1>6. QED
  BY <1>4, <1>5

\* A seek ends with the head at the track: it is over only when the test
\* finds it there, and every earlier attempt has counted one miss.
LEMMA SeekRun ==
  ASSUME NEW n, NEW a \in Label, Idle(a), a.senses = 0, a.know = "nothing", a.dor = Lines,
         NEW t \in Byte, NEW h \in 0 .. 1, NEW i \in Nat, i < Tries, a.miss = i,
         NEW z, z = [a EXCEPT !.know = "there", !.aim = t, !.miss = 0]
  PROVE  Run(n, flpydsk_seek(t, h, i), a, z) /\ z \in Label
<1>1. PICK b : b = <<SEEK, h * 4, t>>
  OBVIOUS
<1>2. /\ b \in Seq(Byte) /\ b # << >> /\ Len(b) = 3 /\ b[1] = SEEK /\ b[3] = t
      /\ Code(b[1]) = SEEK /\ Whole(b)
  BY <1>1 DEF CHECK_INT, Byte, Code, Whole, Bytes, CALIBRATE, SEEK, SPECIFY, READ_SECT
<1>3. PICK a1 : a1 = [a EXCEPT !.ctl = "working", !.bytes = b, !.senses = 1, !.know = "aimed", !.aim = t]
  OBVIOUS
<1>4. 1 \in 0 .. 4 /\ 1 > 0 /\ 1 - 1 = 0 /\ 0 \in Nat
  OBVIOUS
<1>5. a1 \in Label /\ a1.ctl = "working"
  BY <1>2, <1>3, <1>4 DEF Label
<1>6. Begun(a, b) = a1
  BY <1>2, <1>3 DEF Begun, SPECIFY, CHECK_INT, CALIBRATE, SEEK
<1>7. MayBegin(n, a, b)
  BY <1>2 DEF MayBegin, Lines
<1>8. Run(n, Send(b), a, a1)
  BY <1>2, <1>5, <1>6, <1>7, SendRun
<1>9. PICK a2 : a2 = [a1 EXCEPT !.ctl = "taking", !.bytes = << >>]
  OBVIOUS
<1>10. Run(n, flpydsk_wait_irq, a1, a2) /\ a2 \in Label
  BY <1>5, <1>9, WaitRun
<1>11. Idle(a2) /\ a2.senses = 1
  BY <1>3, <1>9 DEF Label, Idle
<1>12. PICK a3 : a3 = [a2 EXCEPT !.senses = @ - 1, !.know = IF @ = "aimed" THEN "told" ELSE @]
  OBVIOUS
<1>13. Run(n, flpydsk_check_int, a2, a3) /\ a3 \in Label
  BY <1>4, <1>10, <1>11, <1>12, CheckIntRun
<1>14. a3 = [a EXCEPT !.know = "told", !.aim = t]
  BY <1>3, <1>4, <1>9, <1>12, ZenonT(60) DEF Label, Idle
<1>15. /\ Idle(a3) /\ a3.senses = 0 /\ a3.know = "told" /\ a3.dor = Lines
       /\ a3.aim = t /\ a3.miss = i /\ a3.ctl = "taking"
  BY <1>14 DEF Label, Idle
<1>16. z \in Label /\ [a3 EXCEPT !.know = "there", !.miss = 0] = z
  BY <1>4, <1>14 DEF Label
<1>17. Run(n, << <<"sought?", t, h, i>> >>, a3, z)
  <2>1. PICK x : x = <<"sought?", t, h, i>>
    OBVIOUS
  <2>2. x \in Access /\ x[1] = "sought?" /\ x[2] = t /\ x[4] = i
    BY <2>1 DEF Access
  <2>3. May(n, a3, x) /\ Then(a3, x) = z
    BY <1>15, <1>16, <2>2 DEF May, Then
  <2>4. QED
    BY <1>13, <1>16, <2>1, <2>2, <2>3, RunOne
<1>18. Run(n, Send(b) \o flpydsk_wait_irq, a, a2)
  BY <1>8, <1>10, RunConcat
<1>19. Run(n, Send(b) \o flpydsk_wait_irq \o flpydsk_check_int, a, a3)
  BY <1>13, <1>18, RunConcat
<1>20. Run(n, Send(b) \o flpydsk_wait_irq \o flpydsk_check_int \o << <<"sought?", t, h, i>> >>, a, z)
  BY <1>17, <1>19, RunConcat
<1>21. QED
  BY <1>1, <1>16, <1>20 DEF flpydsk_seek

\* A reset asks for the interrupts of four drives, and calibrates.
LEMMA ResetRun ==
  ASSUME NEW n, NEW a \in Label, Idle(a), a.know = "nothing",
         NEW z, z = [a EXCEPT !.senses = 0, !.ccr = 0, !.dor = {"RESET"}]
  PROVE  Run(n, flpydsk_reset, a, z) /\ z \in Label
<1>1. {} \in SUBSET Lines /\ {"RESET", "DMA"} \in SUBSET Lines /\ {"RESET"} \in SUBSET Lines
      /\ {"MOTOR", "RESET", "DMA"} = Lines /\ Lines \in SUBSET Lines
  BY DEF Lines
<1>2. 0 \in 0 .. 4 /\ 4 \in 0 .. 4 /\ 0 \in {0, 2} /\ 3 \in Nat /\ 16 \in Nat /\ 240 \in Nat /\ 0 \in Nat
  OBVIOUS
<1>3. PICK a1 : a1 = [a EXCEPT !.ctl = "reset", !.dor = {}, !.senses = 0]
  OBVIOUS
<1>4. a1 \in Label /\ a1.ctl = "reset"
  BY <1>1, <1>2, <1>3 DEF Label
<1>5. Run(n, flpydsk_disable_controller, a, a1)
  <2>1. PICK x : x = <<"dor", {}>>
    OBVIOUS
  <2>2. x \in Access /\ x[1] = "dor" /\ x[2] = {}
    BY <1>1, <2>1 DEF Access
  <2>3. May(n, a, x)
    BY <2>2 DEF May
  <2>4. Then(a, x) = a1
    BY <1>3, <2>2 DEF Then, Idle
  <2>5. QED
    BY <1>4, <2>1, <2>2, <2>3, <2>4, RunOne DEF flpydsk_disable_controller, flpydsk_write_dor
<1>6. PICK a2 : a2 = [a1 EXCEPT !.ctl = "working", !.dor = {"RESET", "DMA"}, !.senses = 4]
  OBVIOUS
<1>7. a2 \in Label /\ a2.ctl = "working"
  BY <1>1, <1>2, <1>4, <1>6 DEF Label
<1>8. Run(n, flpydsk_enable_controller, a1, a2)
  <2>1. PICK x : x = <<"dor", {"RESET", "DMA"}>>
    OBVIOUS
  <2>2. x \in Access /\ x[1] = "dor" /\ x[2] = {"RESET", "DMA"}
    BY <1>1, <2>1 DEF Access
  <2>3. May(n, a1, x) /\ Then(a1, x) = a2
    BY <1>4, <1>6, <2>2 DEF May, Then
  <2>4. QED
    BY <1>4, <1>7, <2>1, <2>2, <2>3, RunOne DEF flpydsk_enable_controller, flpydsk_write_dor
<1>9. PICK a3 : a3 = [a2 EXCEPT !.ctl = "taking", !.bytes = << >>]
  OBVIOUS
<1>10. Run(n, flpydsk_wait_irq, a2, a3) /\ a3 \in Label
  BY <1>7, <1>9, WaitRun
<1>11. a3 = [a EXCEPT !.dor = {"RESET", "DMA"}, !.senses = 4]
  BY <1>3, <1>6, <1>9 DEF Label, Idle
<1>12. ASSUME NEW k \in 1 .. 4
       PROVE  Run(n, flpydsk_check_int, [a EXCEPT !.dor = {"RESET", "DMA"}, !.senses = k],
                                        [a EXCEPT !.dor = {"RESET", "DMA"}, !.senses = k - 1])
  <2>1. PICK b, c : /\ b = [a EXCEPT !.dor = {"RESET", "DMA"}, !.senses = k]
                    /\ c = [a EXCEPT !.dor = {"RESET", "DMA"}, !.senses = k - 1]
    OBVIOUS
  <2>2. k \in 0 .. 4 /\ k > 0
    OBVIOUS
  <2>3. b \in Label /\ Idle(b) /\ b.senses = k
    BY <1>1, <2>1, <2>2 DEF Label, Idle
  <2>4. [b EXCEPT !.senses = @ - 1, !.know = IF @ = "aimed" THEN "told" ELSE @] = c
    BY <2>1 DEF Label
  <2>5. Run(n, flpydsk_check_int, b, c)
    BY <2>2, <2>3, <2>4, CheckIntRun
  <2>6. QED
    BY <2>1, <2>5
<1>13. PICK b3, b2, b1, b0 : /\ b3 = [a EXCEPT !.dor = {"RESET", "DMA"}, !.senses = 3]
                             /\ b2 = [a EXCEPT !.dor = {"RESET", "DMA"}, !.senses = 2]
                             /\ b1 = [a EXCEPT !.dor = {"RESET", "DMA"}, !.senses = 1]
                             /\ b0 = [a EXCEPT !.dor = {"RESET", "DMA"}, !.senses = 0]
  OBVIOUS
<1>14. /\ Run(n, flpydsk_check_int, a3, b3) /\ Run(n, flpydsk_check_int, b3, b2)
       /\ Run(n, flpydsk_check_int, b2, b1) /\ Run(n, flpydsk_check_int, b1, b0)
  <2>1. 4 - 1 = 3 /\ 3 - 1 = 2 /\ 2 - 1 = 1 /\ 1 - 1 = 0 /\ 4 \in 1 .. 4 /\ 3 \in 1 .. 4
        /\ 2 \in 1 .. 4 /\ 1 \in 1 .. 4
    OBVIOUS
  <2>2. Run(n, flpydsk_check_int, a3, b3)
    BY <1>11, <1>12, <1>13, <2>1
  <2>3. Run(n, flpydsk_check_int, b3, b2)
    BY <1>12, <1>13, <2>1
  <2>4. Run(n, flpydsk_check_int, b2, b1)
    BY <1>12, <1>13, <2>1
  <2>5. Run(n, flpydsk_check_int, b1, b0)
    BY <1>12, <1>13, <2>1
  <2>6. QED
    BY <2>2, <2>3, <2>4, <2>5
<1>15. b0 \in Label /\ Idle(b0) /\ b0.senses = 0 /\ b0.know = "nothing"
  BY <1>1, <1>2, <1>13 DEF Label, Idle
<1>16. PICK c0 : c0 = [b0 EXCEPT !.ccr = 0]
  OBVIOUS
<1>17. c0 \in Label /\ Idle(c0) /\ c0.senses = 0 /\ c0.know = "nothing"
  BY <1>2, <1>15, <1>16 DEF Label, Idle
<1>18. Run(n, flpydsk_write_ccr(0), b0, c0)
  BY <1>2, <1>15, <1>16, WriteRun
<1>19. Run(n, flpydsk_drive_data(3, 16, 240, TRUE), c0, c0)
  BY <1>2, <1>17, DriveDataRun, ZenonT(60)
<1>20. PICK d0 : d0 = [c0 EXCEPT !.dor = Lines]
  OBVIOUS
<1>21. d0 \in Label /\ Idle(d0) /\ d0.senses = 0 /\ d0.know = "nothing" /\ d0.dor = Lines
  BY <1>1, <1>17, <1>20 DEF Label, Idle
<1>22. Run(n, flpydsk_control_motor(TRUE), c0, d0)
  <2>1. "RESET" \in Lines
    BY DEF Lines
  <2>2. Run(n, flpydsk_write_dor(Lines), c0, d0)
    BY <1>1, <1>17, <1>20, <2>1, WriteRun
  <2>3. QED
    BY <1>1, <2>2 DEF flpydsk_control_motor
<1>23. [d0 EXCEPT !.dor = {"RESET"}] = z
  BY <1>13, <1>16, <1>20 DEF Label
<1>24. Run(n, flpydsk_calibrate(0), d0, z) /\ z \in Label
  BY <1>2, <1>21, <1>23, CalibrateRun
<1> DEFINE s1 == flpydsk_disable_controller \o flpydsk_enable_controller \o flpydsk_wait_irq
           s2 == s1 \o flpydsk_check_int \o flpydsk_check_int \o flpydsk_check_int \o flpydsk_check_int
           s3 == s2 \o flpydsk_write_ccr(0) \o flpydsk_drive_data(3, 16, 240, TRUE)
<1>25. Run(n, s1, a, a3)
  <2>1. Run(n, flpydsk_disable_controller \o flpydsk_enable_controller, a, a2)
    BY <1>5, <1>8, RunConcat
  <2>2. QED
    BY <1>10, <2>1, RunConcat
<1>26. Run(n, s2, a, b0)
  <2> HIDE DEF s1
  <2>1. Run(n, s1 \o flpydsk_check_int, a, b3)
    BY <1>14, <1>25, RunConcat
  <2>2. Run(n, s1 \o flpydsk_check_int \o flpydsk_check_int, a, b2)
    BY <1>14, <2>1, RunConcat
  <2>3. Run(n, s1 \o flpydsk_check_int \o flpydsk_check_int \o flpydsk_check_int, a, b1)
    BY <1>14, <2>2, RunConcat
  <2>4. QED
    BY <1>14, <2>3, RunConcat
<1>27. Run(n, s3, a, c0)
  <2> HIDE DEF s2
  <2>1. Run(n, s2 \o flpydsk_write_ccr(0), a, c0)
    BY <1>18, <1>26, RunConcat
  <2>2. QED
    BY <1>19, <2>1, RunConcat
<1>28. Run(n, s3 \o flpydsk_control_motor(TRUE) \o flpydsk_calibrate(0), a, z)
  <2> HIDE DEF s3
  <2>1. Run(n, s3 \o flpydsk_control_motor(TRUE), a, d0)
    BY <1>22, <1>27, RunConcat
  <2>2. QED
    BY <1>24, <2>1, RunConcat
<1>29. QED
  BY <1>24, <1>28 DEF flpydsk_reset

\* After the READ nothing is counted on any more.
LEMMA AfterRun ==
  ASSUME NEW n, NEW s \in Seq(Access),
         \A i \in 1 .. Len(s) : s[i][1] \in {"read", "dor"} \/ s[i] = <<"send", CHECK_INT>>
  PROVE  Run(n, s, After, After)
<1>1. After \in Label /\ After.ctl = "after"
  <2>1. {} \in SUBSET Lines /\ 0 \in Byte /\ 0 \in Nat /\ 0 \in 0 .. 4 /\ 0 \in 0 .. 2
    BY DEF Byte
  <2>2. QED
    BY <2>1, EmptyType DEF After, Label
<1>2. Len(s) \in Nat
  OBVIOUS
<1>3. PICK L : L = [i \in 1 .. Len(s) + 1 |-> After]
  OBVIOUS
<1>4. ASSUME NEW i \in 1 .. Len(s)
      PROVE  May(n, L[i], s[i]) /\ L[i + 1] = Then(L[i], s[i])
  <2>1. L[i] = After /\ L[i + 1] = After
    BY <1>2, <1>3
  <2>2. May(n, After, s[i])
    BY <1>1 DEF May
  <2>3. Then(After, s[i]) = After
    BY <1>1 DEF Then
  <2>4. QED
    BY <2>1, <2>2, <2>3
<1>5. L \in [1 .. Len(s) + 1 -> Label] /\ L[1] = After /\ L[Len(s) + 1] = After
  BY <1>1, <1>2, <1>3
<1>6. QED
  BY <1>4, <1>5 DEF Run

\* The disk has 2880 sectors.
Sector(n) == n \in Nat /\ n < 2880

\* The bytes of the READ of flpydsk_read_sector_imp.
ReadBytes(p) ==
  <<READ_SECT + 224, p.head * 4, p.track, p.head, p.sector, 2, Eot(p.sector), 27, 255>>

\* The READ names the sector asked for, in bytes.
LEMMA ReadNames ==
  ASSUME NEW n, Sector(n), NEW p, p = flpydsk_lba_to_chs(n), NEW b, b = ReadBytes(p)
  PROVE  /\ p.track \in Byte /\ p.head \in 0 .. 1 /\ p.sector \in 1 .. 18
         /\ b \in Seq(Byte) /\ b # << >> /\ Code(b[1]) = READ_SECT /\ Whole(b)
         /\ b[3] = p.track /\ Names(n, b)
<1>1. n \in Nat /\ n < 2880 /\ p \in Places(Nat) /\ Linear(p) = n
  BY ChsInverse DEF Sector
<1>2. p.head \in 0 .. 1 /\ p.track \in Nat /\ p.sector \in 1 .. 18
  BY <1>1 DEF Places, FLPY_SECTORS_PER_TRACK
<1>3. (p.track * 2 + p.head) * 18 + (p.sector - 1) = n
  BY <1>1 DEF Linear, FLPY_SECTORS_PER_TRACK
<1>4. PICK t \in Nat, h \in 0 .. 1, c \in 1 .. 18 : t = p.track /\ h = p.head /\ c = p.sector
  BY <1>2
<1>4a. PICK o : o = Eot(c)
  OBVIOUS
<1>5. (t * 2 + h) * 18 + (c - 1) = n /\ t <= 79
  <2>1. (t * 2 + h) * 18 + (c - 1) = n
    BY <1>3, <1>4
  <2>2. (t * 2 + h) * 18 + (c - 1) < 2880
    BY <1>1, <2>1
  <2>3. 36 * t <= (t * 2 + h) * 18 + (c - 1)
    <3>1. CASE h = 0
      BY <3>1
    <3>2. CASE h = 1
      BY <3>2
    <3>3. QED
      BY <3>1, <3>2
  <2>4. QED
    BY <2>1, <2>2, <2>3
<1>6. o \in c .. 18
  BY <1>4a, EotOnTrack DEF FLPY_SECTORS_PER_TRACK
<1>7. b = <<230, h * 4, t, h, c, 2, o, 27, 255>>
  BY <1>4, <1>4a DEF READ_SECT, ReadBytes
<1>8. t \in Byte /\ h \in Byte /\ h * 4 \in Byte /\ c \in Byte /\ o \in Byte
      /\ 230 \in Byte /\ 2 \in Byte /\ 27 \in Byte /\ 255 \in Byte
  BY <1>5, <1>6 DEF Byte
<1>9. b \in Seq(Byte) /\ Len(b) = 9 /\ b # << >>
  BY <1>7, <1>8
<1>10. b[1] = 230 /\ b[2] = h * 4 /\ b[3] = t /\ b[4] = h /\ b[5] = c /\ b[7] = o
  BY <1>7
<1>11. Code(b[1]) = READ_SECT /\ Whole(b)
  BY <1>9, <1>10 DEF Code, READ_SECT, Whole, Bytes, CALIBRATE, SEEK, SPECIFY
<1>12. Names(n, b)
  BY <1>1, <1>5, <1>6, <1>10 DEF Names, FLPY_SECTORS_PER_TRACK
<1>13. QED
  BY <1>2, <1>4, <1>8, <1>9, <1>10, <1>11, <1>12

\* With the head at the track, a sector is read and the motor switched off.
LEMMA ReadRun ==
  ASSUME NEW n, Sector(n), NEW p, p = flpydsk_lba_to_chs(n), NEW a \in Label, Idle(a),
         a.know = "there", a.aim = p.track, a.dor = Lines, a.ccr = 0
  PROVE  Run(n, flpydsk_read_sector_imp(p.head, p.track, p.sector), a, After)
<1>1. PICK b : b = ReadBytes(p)
  OBVIOUS
<1>2. /\ b \in Seq(Byte) /\ b # << >> /\ Code(b[1]) = READ_SECT /\ Whole(b)
      /\ b[3] = p.track /\ Names(n, b)
  BY <1>1, ReadNames
<1>5. PICK a2 : a2 = [a EXCEPT !.dma = "read"]
  OBVIOUS
<1>6. /\ a2 \in Label /\ Idle(a2) /\ a2.know = "there" /\ a2.aim = p.track /\ a2.dor = Lines
      /\ a2.ccr = 0 /\ a2.dma = "read"
  BY <1>5 DEF Label, Idle
<1>7. Run(n, flpydsk_dma_read, a, a2)
  BY <1>5, DmaRun DEF flpydsk_dma_read
<1>8. PICK a3 : a3 = [a2 EXCEPT !.ctl = "reading", !.bytes = b]
  OBVIOUS
<1>9. a3 \in Label /\ a3.ctl = "reading"
  BY <1>2, <1>6, <1>8 DEF Label
<1>10. Begun(a2, b) = a3
  BY <1>2, <1>8 DEF Begun, SPECIFY, CHECK_INT, CALIBRATE, SEEK, READ_SECT
<1>11. MayBegin(n, a2, b)
  BY <1>2, <1>6 DEF MayBegin
<1>12. Run(n, Send(b), a2, a3)
  BY <1>2, <1>6, <1>9, <1>10, <1>11, SendRun
<1>13. After \in Label
  <2>1. {} \in SUBSET Lines /\ 0 \in Byte /\ 0 \in Nat /\ 0 \in 0 .. 4 /\ 0 \in 0 .. 2
    BY DEF Byte
  <2>2. QED
    BY <2>1, EmptyType DEF After, Label
<1>14. Run(n, flpydsk_wait_irq, a3, After)
  <2>1. PICK x : x = <<"wait">>
    OBVIOUS
  <2>2. x \in Access /\ x[1] = "wait"
    BY <2>1 DEF Access
  <2>3. May(n, a3, x) /\ Then(a3, x) = After
    BY <1>9, <2>2 DEF May, Then
  <2>4. QED
    BY <1>9, <1>13, <2>1, <2>2, <2>3, RunOne DEF flpydsk_wait_irq
<1>15. PICK r : r = [i \in 1 .. 7 |-> <<"read", "status">>]
  OBVIOUS
<1>16. Run(n, r, After, After)
  <2>1. <<"read", "status">> \in Access /\ <<"read", "status">>[1] = "read"
    BY DEF Access
  <2>2. r \in Seq(Access) /\ Len(r) = 7
    BY <1>15, <2>1
  <2>3. \A i \in 1 .. Len(r) : r[i][1] = "read"
    BY <1>15, <2>2
  <2>4. QED
    BY <2>2, <2>3, AfterRun
<1>17. Run(n, flpydsk_check_int, After, After)
  <2>1. ASSUME NEW x \in Access, x[1] = "read" \/ x = <<"send", CHECK_INT>>
        PROVE  Run(n, <<x>>, After, After)
    <3>1. <<x>> \in Seq(Access) /\ \A i \in 1 .. Len(<<x>>) : <<x>>[i] = x
      OBVIOUS
    <3>2. QED
      BY <2>1, <3>1, AfterRun
  <2>2. /\ <<"send", CHECK_INT>> \in Access
        /\ <<"read", "st0">> \in Access /\ <<"read", "st0">>[1] = "read"
        /\ <<"read", "cyl">> \in Access /\ <<"read", "cyl">>[1] = "read"
    BY DEF Access, CHECK_INT, Byte
  <2>3. Send(<<CHECK_INT>>) = << <<"send", CHECK_INT>> >>
    BY DEF Send
  <2>4. /\ Run(n, Send(<<CHECK_INT>>), After, After)
        /\ Run(n, Read("st0"), After, After) /\ Run(n, Read("cyl"), After, After)
    BY <2>1, <2>2, <2>3 DEF Read
  <2>5. Run(n, Send(<<CHECK_INT>>) \o Read("st0"), After, After)
    BY <2>4, RunConcat
  <2>6. Run(n, Send(<<CHECK_INT>>) \o Read("st0") \o Read("cyl"), After, After)
    BY <2>4, <2>5, RunConcat
  <2>7. QED
    BY <2>6 DEF flpydsk_check_int
<1>18. Run(n, flpydsk_dma_read \o Send(b), a, a3)
  BY <1>7, <1>12, RunConcat
<1>19. Run(n, flpydsk_dma_read \o Send(b) \o flpydsk_wait_irq, a, After)
  BY <1>14, <1>18, RunConcat
<1>20. Run(n, flpydsk_dma_read \o Send(b) \o flpydsk_wait_irq \o r, a, After)
  BY <1>16, <1>19, RunConcat
<1>21. Run(n, flpydsk_dma_read \o Send(b) \o flpydsk_wait_irq \o r \o flpydsk_check_int, a, After)
  BY <1>17, <1>20, RunConcat
<1>22. QED
  BY <1>1, <1>15, <1>21 DEF flpydsk_read_sector_imp, ReadBytes

\* What is the case when init_fat12 is called.
Start == [ctl |-> "taking", bytes |-> << >>, senses |-> 0, out |-> 0, dor |-> {"RESET", "DMA"},
          dma |-> "off", ccr |-> 2, know |-> "nothing", aim |-> 0, miss |-> 0]

\* From there init_fat12 leads to its end.
LEMMA InitRun ==
  ASSUME NEW n, Sector(n)
  PROVE  Start \in Label /\ Run(n, init_fat12(n), Start, After)
<1>1. /\ {"RESET", "DMA"} \in SUBSET Lines /\ {"RESET"} \in SUBSET Lines /\ "RESET" \in Lines
      /\ {"MOTOR", "RESET", "DMA"} = Lines /\ Lines \in SUBSET Lines
      /\ 0 \in Byte /\ 0 \in Nat /\ 0 \in 0 .. 4 /\ 0 \in 0 .. 2 /\ 13 \in Nat /\ 1 \in Nat /\ 15 \in Nat
  BY DEF Lines, Byte
<1>2. Start \in Label /\ Idle(Start) /\ Start.know = "nothing" /\ Start.senses = 0 /\ Start.miss = 0
  BY <1>1, EmptyType DEF Start, Label, Idle
<1>3. PICK a1 : a1 = [Start EXCEPT !.dma = "other"]
  OBVIOUS
<1>4. a1 \in Label /\ Idle(a1) /\ a1.know = "nothing" /\ a1.senses = 0 /\ a1.miss = 0
  BY <1>2, <1>3 DEF Label, Idle
<1>5. Run(n, flpydsk_initialize_dma, Start, a1)
  BY <1>2, <1>3, DmaRun DEF flpydsk_initialize_dma
<1>6. PICK a2 : a2 = [a1 EXCEPT !.senses = 0, !.ccr = 0, !.dor = {"RESET"}]
  OBVIOUS
<1>7. Run(n, flpydsk_reset, a1, a2) /\ a2 \in Label
  BY <1>4, <1>6, ResetRun
<1>8. Idle(a2) /\ a2.know = "nothing" /\ a2.senses = 0 /\ a2.miss = 0 /\ a2.ccr = 0
  BY <1>4, <1>6 DEF Label, Idle
<1>9. Run(n, flpydsk_drive_data(13, 1, 15, TRUE), a2, a2)
  BY <1>1, <1>7, <1>8, DriveDataRun
<1>10. PICK a3 : a3 = [a2 EXCEPT !.dor = Lines]
  OBVIOUS
<1>11. /\ a3 \in Label /\ Idle(a3) /\ a3.know = "nothing" /\ a3.senses = 0 /\ a3.miss = 0 /\ a3.ccr = 0
       /\ a3.dor = Lines
  BY <1>1, <1>7, <1>8, <1>10 DEF Label, Idle
<1>12. Run(n, flpydsk_control_motor(TRUE), a2, a3)
  <2>1. Run(n, flpydsk_write_dor(Lines), a2, a3)
    BY <1>1, <1>7, <1>8, <1>10, WriteRun
  <2>2. QED
    BY <1>1, <2>1 DEF flpydsk_control_motor
<1>13. PICK p : p = flpydsk_lba_to_chs(n)
  OBVIOUS
<1>14. p.track \in Byte /\ p.head \in 0 .. 1
  BY <1>13, ReadNames
<1>15. PICK a4 : a4 = [a3 EXCEPT !.know = "there", !.aim = p.track, !.miss = 0]
  OBVIOUS
<1>16. Run(n, flpydsk_seek(p.track, p.head, 0), a3, a4) /\ a4 \in Label
  <2>1. 0 < Tries
    BY FloppyAssumption
  <2>2. QED
    BY <1>1, <1>11, <1>14, <1>15, <2>1, SeekRun
<1>17. Idle(a4) /\ a4.know = "there" /\ a4.aim = p.track /\ a4.dor = Lines /\ a4.ccr = 0
  BY <1>1, <1>11, <1>14, <1>15 DEF Label, Idle
<1>18. Run(n, flpydsk_read_sector_imp(p.head, p.track, p.sector), a4, After)
  BY <1>13, <1>16, <1>17, ReadRun
<1>19. Run(n, flpydsk_control_motor(FALSE), After, After)
  <2>1. PICK x : x = <<"dor", {"RESET"}>>
    OBVIOUS
  <2>2. x \in Access /\ x[1] = "dor"
    BY <1>1, <2>1 DEF Access
  <2>3. <<x>> \in Seq(Access) /\ Len(<<x>>) = 1 /\ <<x>>[1] = x
    BY <2>2
  <2>4. \A i \in 1 .. 1 : i = 1
    OBVIOUS
  <2>5. Run(n, <<x>>, After, After)
    BY <2>2, <2>3, <2>4, AfterRun
  <2>6. QED
    BY <2>1, <2>5 DEF flpydsk_control_motor, flpydsk_write_dor
<1>20. Run(n, flpydsk_read_sector(n), a2, After)
  <2>1. Run(n, flpydsk_control_motor(TRUE) \o flpydsk_seek(p.track, p.head, 0), a2, a4)
    BY <1>12, <1>16, RunConcat
  <2>2. Run(n, flpydsk_control_motor(TRUE) \o flpydsk_seek(p.track, p.head, 0)
                 \o flpydsk_read_sector_imp(p.head, p.track, p.sector), a2, After)
    BY <1>18, <2>1, RunConcat
  <2>3. Run(n, flpydsk_control_motor(TRUE) \o flpydsk_seek(p.track, p.head, 0)
                 \o flpydsk_read_sector_imp(p.head, p.track, p.sector)
                 \o flpydsk_control_motor(FALSE), a2, After)
    BY <1>19, <2>2, RunConcat
  <2>4. QED
    BY <1>13, <2>3 DEF flpydsk_read_sector
<1>21. Run(n, flpydsk_initialize_dma \o flpydsk_reset, Start, a2)
  BY <1>5, <1>7, RunConcat
<1>22. Run(n, flpydsk_initialize_dma \o flpydsk_reset \o flpydsk_drive_data(13, 1, 15, TRUE), Start, a2)
  BY <1>9, <1>21, RunConcat
<1>23. Run(n, flpydsk_initialize_dma \o flpydsk_reset \o flpydsk_drive_data(13, 1, 15, TRUE)
                \o flpydsk_read_sector(n), Start, After)
  BY <1>20, <1>22, RunConcat
<1>24. QED
  BY <1>2, <1>23 DEF init_fat12

-----------------------------------------------------------------------------
(* Every step keeps the two in step.                                       *)

\* What a byte does to a controller that takes it.
LEMMA TakeFields ==
  ASSUME FdcInv, NEW x \in Byte, Take(x), fdc.phase = "command", NEW b, b = Append(fdc.bytes, x)
  PROVE  /\ fdc'.pcn = fdc.pcn /\ b \in Seq(Byte) /\ b # << >>
         /\ ~Whole(b) => /\ fdc'.phase = "command" /\ fdc'.bytes = b
                         /\ fdc'.out = fdc.out /\ fdc'.senses = fdc.senses
         /\ Whole(b) /\ Code(b[1]) = SPECIFY =>
              /\ fdc'.phase = "command" /\ fdc'.bytes = << >>
              /\ fdc'.out = fdc.out /\ fdc'.senses = fdc.senses
         /\ Whole(b) /\ Code(b[1]) = CHECK_INT => fdc'.phase = "result"
         /\ Whole(b) /\ Code(b[1]) = CHECK_INT /\ fdc.senses # << >> =>
              fdc'.out = <<32, Head(fdc.senses)>> /\ fdc'.senses = Tail(fdc.senses)
         /\ Whole(b) /\ Code(b[1]) \in {CALIBRATE, SEEK, READ_SECT} =>
              /\ fdc'.phase = "execute" /\ fdc'.bytes = b
              /\ fdc'.out = fdc.out /\ fdc'.senses = fdc.senses
         /\ atread' = IF Whole(b) /\ Code(b[1]) = READ_SECT
                        THEN {[bytes |-> b, dor |-> dor, ccr |-> ccr, dma |-> dma, pcn |-> fdc.pcn]}
                        ELSE atread
<1>1. fdc \in Fdc /\ fdc.bytes \in Seq(Byte) /\ fdc.senses \in Seq(Cyls)
  BY FdcFields DEF FdcInv
<1>2. b \in Seq(Byte) /\ b # << >>
  BY <1>1
<1>3. PICK g : g = [fdc EXCEPT !.bytes = Append(@, x), !.rqm = FALSE]
  OBVIOUS
<1>4. g = [fdc EXCEPT !.bytes = b, !.rqm = FALSE]
  BY <1>1, <1>3 DEF Fdc
<1>5. /\ g \in Fdc /\ g.bytes = b /\ g.phase = "command" /\ g.pcn = fdc.pcn
      /\ g.senses = fdc.senses /\ g.out = fdc.out
  BY <1>1, <1>2, <1>4 DEF Fdc
<1>6. fdc' = IF Whole(b) THEN Begin(g) ELSE g
  BY <1>3, <1>5 DEF Take, Whole
<1>7. atread' = IF Whole(b) /\ Code(b[1]) = READ_SECT
                  THEN {[bytes |-> b, dor |-> dor, ccr |-> ccr, dma |-> dma, pcn |-> fdc.pcn]}
                  ELSE atread
  BY <1>3, <1>5 DEF Take, Whole
<1>8. CASE ~Whole(b)
  BY <1>2, <1>5, <1>6, <1>7, <1>8
<1>9. CASE Whole(b) /\ Code(b[1]) = SPECIFY
  <2>1. fdc' = [g EXCEPT !.bytes = << >>, !.rqm = FALSE, !.nd = (b[3] % 2 = 1)]
    <3>1. fdc' = Begin(g) /\ Code(g.bytes[1]) = SPECIFY
      BY <1>5, <1>6, <1>9
    <3>2. Begin(g) = [g EXCEPT !.bytes = << >>, !.rqm = FALSE, !.nd = (g.bytes[3] % 2 = 1)]
      BY <3>1 DEF Begin, CALIBRATE, SEEK, READ_SECT, SPECIFY, CHECK_INT
    <3>3. QED
      BY <1>5, <3>1, <3>2
  <2>2. /\ fdc'.phase = "command" /\ fdc'.bytes = << >> /\ fdc'.pcn = g.pcn
        /\ fdc'.out = g.out /\ fdc'.senses = g.senses
    BY <1>5, <2>1 DEF Fdc
  <2>3. QED
    BY <1>2, <1>5, <1>7, <1>9, <2>2 DEF CALIBRATE, SEEK, READ_SECT, SPECIFY, CHECK_INT
<1>10. CASE Whole(b) /\ Code(b[1]) = CHECK_INT /\ fdc.senses # << >>
  <2>1. PICK o, t : o = <<32, Head(g.senses)>> /\ t = Tail(g.senses)
    OBVIOUS
  <2>2. fdc' = [[g EXCEPT !.phase = "result", !.rqm = FALSE, !.out = o] EXCEPT !.senses = t]
    BY <1>5, <1>6, <1>10, <2>1 DEF Begin, CALIBRATE, SEEK, READ_SECT, SPECIFY, CHECK_INT
  <2>3. fdc'.phase = "result" /\ fdc'.pcn = g.pcn /\ fdc'.out = o /\ fdc'.senses = t
    BY <1>5, <2>2 DEF Fdc
  <2>4. QED
    BY <1>2, <1>5, <1>7, <1>10, <2>1, <2>3 DEF CALIBRATE, SEEK, READ_SECT, SPECIFY, CHECK_INT
<1>11. CASE Whole(b) /\ Code(b[1]) \in {CALIBRATE, SEEK, READ_SECT}
  <2>1. fdc' = [g EXCEPT !.phase = "execute", !.rqm = FALSE]
    BY <1>5, <1>6, <1>11 DEF Begin, CALIBRATE, SEEK, READ_SECT, SPECIFY, CHECK_INT
  <2>2. /\ fdc'.phase = "execute" /\ fdc'.bytes = b /\ fdc'.pcn = g.pcn
        /\ fdc'.out = g.out /\ fdc'.senses = g.senses
    BY <1>5, <2>1 DEF Fdc
  <2>3. QED
    BY <1>2, <1>5, <1>7, <1>11, <2>2 DEF CALIBRATE, SEEK, READ_SECT, SPECIFY, CHECK_INT
<1>12. CASE /\ Whole(b) /\ Code(b[1]) \notin {SPECIFY, CALIBRATE, SEEK, READ_SECT}
            /\ ~(Code(b[1]) = CHECK_INT /\ fdc.senses # << >>)
  <2>1. PICK o : o = <<128>>
    OBVIOUS
  <2>2. fdc' = [g EXCEPT !.phase = "result", !.rqm = FALSE, !.out = o]
    BY <1>5, <1>6, <1>12, <2>1 DEF Begin
  <2>3. fdc'.phase = "result" /\ fdc'.pcn = g.pcn
    BY <1>5, <2>2 DEF Fdc
  <2>4. QED
    BY <1>2, <1>5, <1>7, <1>12, <2>3
<1>13. QED
  BY <1>8, <1>9, <1>10, <1>11, <1>12

\* The fields of a label.
LEMMA LabelFields ==
  ASSUME NEW a \in Label
  PROVE  /\ a.ctl \in {"taking", "answering", "reset", "working", "reading", "after"}
         /\ a.bytes \in Seq(Byte) /\ a.senses \in 0 .. 4 /\ a.out \in 0 .. 2
         /\ a.know \in {"nothing", "aimed", "told", "there"} /\ a.aim \in Byte /\ a.miss \in Nat
BY DEF Label

\* A byte is sent.
LEMMA SendSync ==
  ASSUME TypeInv, NEW a \in Label, Matches(a), NEW x \in Access, x = Head(todo),
         May(lba, a, x), flpydsk_send_command, NEW z, z = Then(a, x)
  PROVE  Matches(z)' /\ (ReadPrepared => ReadPrepared')
<1>1. /\ x[1] = "send" /\ x[2] \in Byte /\ Take(x[2]) /\ FdcInv
      /\ UNCHANGED <<cyl, _FloppyDiskIRQ, installed, dma, dor, ccr, irq, lba, dropped, missed>>
  BY AccessArgs DEF flpydsk_send_command, Now, Arg, TypeInv
<1>2. fdc.senses \in Seq(Cyls) /\ fdc.bytes \in Seq(Byte)
  BY <1>1, FdcFields DEF FdcInv
<1>3. PICK b : b = Append(fdc.bytes, x[2])
  OBVIOUS
<1>4. CASE a.ctl = "after"
  <2>1. Past /\ x[2] = CHECK_INT /\ z = After
    BY <1>1, <1>4 DEF May, Then, Matches, Idle
  <2>2. z.ctl = "after"
    BY <2>1 DEF After
  <2>3. CASE fdc.phase # "command"
    <3>1. UNCHANGED <<fdc, atread>>
      BY <1>1, <2>3 DEF Take
    <3>2. Past' /\ (ReadPrepared => ReadPrepared')
      BY <1>1, <2>1, <3>1 DEF Past, ReadPrepared
    <3>3. QED
      BY <2>2, <3>2 DEF Matches
  <2>4. CASE fdc.phase = "command"
    <3>0. fdc.bytes = << >>
      BY <2>1, <2>4 DEF Past
    <3>1. Len(b) = 1 /\ b[1] = CHECK_INT
      BY <1>1, <1>2, <1>3, <2>1, <3>0
    <3>2. Whole(b) /\ Code(b[1]) = CHECK_INT /\ CHECK_INT # READ_SECT
      BY <3>1 DEF CHECK_INT, Code, Whole, Bytes, CALIBRATE, SEEK, SPECIFY, READ_SECT
    <3>3. fdc'.phase = "result" /\ atread' = atread
      BY <1>1, <1>3, <2>4, <3>2, TakeFields
    <3>4. Past' /\ (ReadPrepared => ReadPrepared')
      BY <1>1, <2>1, <3>3 DEF Past, ReadPrepared
    <3>5. QED
      BY <2>2, <3>4 DEF Matches
  <2>5. QED
    BY <2>3, <2>4
<1>5. CASE a.ctl = "taking"
  <2>1. Taking(a) /\ Registers(a)
    BY <1>5 DEF Matches
  <2>2. /\ fdc.phase = "command" /\ fdc.bytes = a.bytes /\ fdc.out = << >> /\ Quiet
        /\ Senses(a) /\ Place(a) /\ a.out = 0
    BY <2>1 DEF Taking
  <2>3. /\ Code(b[1]) \in {SPECIFY, CALIBRATE, CHECK_INT, SEEK, READ_SECT}
        /\ Whole(b) => MayBegin(lba, a, b)
    BY <1>1, <1>3, <1>5, <2>2 DEF May
  <2>4. z = IF Whole(b) THEN Begun(a, b) ELSE [a EXCEPT !.bytes = b]
    BY <1>1, <1>3, <1>5, <2>2 DEF Then
  <2>5. Quiet'
    BY <1>1, <2>2 DEF Quiet
  <2>6. CASE ~Whole(b)
    <3>1. /\ fdc'.phase = "command" /\ fdc'.bytes = b /\ fdc'.out = fdc.out
          /\ fdc'.senses = fdc.senses /\ fdc'.pcn = fdc.pcn /\ atread' = atread
      BY <1>1, <1>3, <2>2, <2>6, TakeFields
    <3>2. z = [a EXCEPT !.bytes = b]
      BY <2>4, <2>6
    <3>3. /\ z.ctl = "taking" /\ z.bytes = b /\ z.out = 0 /\ z.senses = a.senses /\ z.dor = a.dor
          /\ z.dma = a.dma /\ z.ccr = a.ccr /\ z.know = a.know /\ z.aim = a.aim /\ z.miss = a.miss
      BY <1>5, <2>2, <3>2 DEF Label
    <3>4. Senses(z)' /\ Place(z)'
      BY <1>1, <2>2, <3>1, <3>3 DEF Senses, Place
    <3>5. Taking(z)' /\ Registers(z)'
      BY <1>1, <2>1, <2>2, <2>5, <3>1, <3>3, <3>4 DEF Taking, Registers
    <3>6. Matches(z)'
      BY <3>3, <3>5 DEF Matches
    <3>7. QED
      BY <1>1, <3>1, <3>6 DEF ReadPrepared
  <2>7. CASE Whole(b) /\ Code(b[1]) = SPECIFY
    <3>1. /\ fdc'.phase = "command" /\ fdc'.bytes = << >> /\ fdc'.out = fdc.out
          /\ fdc'.senses = fdc.senses /\ fdc'.pcn = fdc.pcn /\ atread' = atread
      <4>1. Code(b[1]) # READ_SECT
        BY <2>7 DEF SPECIFY, READ_SECT
      <4>2. QED
        BY <1>1, <1>3, <2>2, <2>7, <4>1, TakeFields
    <3>2. z = [a EXCEPT !.bytes = << >>]
      BY <2>4, <2>7 DEF Begun, SPECIFY, CHECK_INT, CALIBRATE, SEEK
    <3>3. /\ z.ctl = "taking" /\ z.bytes = << >> /\ z.out = 0 /\ z.senses = a.senses /\ z.dor = a.dor
          /\ z.dma = a.dma /\ z.ccr = a.ccr /\ z.know = a.know /\ z.aim = a.aim /\ z.miss = a.miss
      BY <1>5, <2>2, <3>2 DEF Label
    <3>4. Senses(z)' /\ Place(z)'
      BY <1>1, <2>2, <3>1, <3>3 DEF Senses, Place
    <3>5. Taking(z)' /\ Registers(z)'
      BY <1>1, <2>1, <2>2, <2>5, <3>1, <3>3, <3>4 DEF Taking, Registers
    <3>6. Matches(z)'
      BY <3>3, <3>5 DEF Matches
    <3>7. QED
      BY <1>1, <3>1, <3>6 DEF ReadPrepared
  <2>8. CASE Whole(b) /\ Code(b[1]) = CHECK_INT
    <3>1. a.senses > 0 /\ Len(fdc.senses) = a.senses
      BY <2>2, <2>3, <2>8 DEF MayBegin, Senses, SPECIFY, CHECK_INT, CALIBRATE, SEEK, READ_SECT
    <3>2. fdc.senses # << >>
      <4>1. Len(<< >>) = 0
        OBVIOUS
      <4>2. QED
        BY <3>1, <4>1
    <3>3. PICK c, t : c = Head(fdc.senses) /\ t = Tail(fdc.senses)
      OBVIOUS
    <3>4. /\ Len(t) = a.senses - 1 /\ c = fdc.senses[1] /\ 1 \in 1 .. Len(fdc.senses)
          /\ \A i \in 1 .. Len(t) : t[i] = fdc.senses[i + 1] /\ i + 1 \in 1 .. Len(fdc.senses)
      BY <1>2, <3>1, <3>2, <3>3
    <3>5. /\ fdc'.phase = "result" /\ fdc'.out = <<32, c>> /\ fdc'.senses = t
          /\ fdc'.pcn = fdc.pcn /\ atread' = atread
      BY <1>1, <1>3, <2>2, <2>8, <3>2, <3>3, TakeFields DEF CHECK_INT, READ_SECT
    <3>6. z = [a EXCEPT !.ctl = "answering", !.bytes = << >>, !.senses = @ - 1, !.out = 2]
      BY <2>4, <2>8 DEF Begun, SPECIFY, CHECK_INT, CALIBRATE, SEEK
    <3>7. /\ z.ctl = "answering" /\ z.bytes = << >> /\ z.out = 2 /\ z.senses = a.senses - 1 /\ z.dor = a.dor
          /\ z.dma = a.dma /\ z.ccr = a.ccr /\ z.know = a.know /\ z.aim = a.aim /\ z.miss = a.miss
      BY <3>6 DEF Label
    <3>8. a.know \in {"aimed", "told"} => c = fdc.pcn /\ \A i \in 1 .. Len(t) : t[i] = fdc.pcn
      BY <2>2, <3>4 DEF Senses
    <3>9. Senses(z)'
      BY <3>4, <3>5, <3>7, <3>8 DEF Senses
    <3>10. Place(z)'
      BY <1>1, <2>2, <3>5, <3>7 DEF Place
    <3>11. Len(fdc'.out) = 2 /\ fdc'.out[2] = c /\ 2 > 0
      BY <3>5
    <3>12. Answering(z)'
      BY <2>5, <3>5, <3>7, <3>8, <3>9, <3>10, <3>11 DEF Answering
    <3>13. Registers(z)'
      BY <1>1, <2>1, <3>7 DEF Registers
    <3>14. Matches(z)'
      BY <3>7, <3>12, <3>13 DEF Matches
    <3>15. QED
      BY <1>1, <3>5, <3>14 DEF ReadPrepared
  <2>9. CASE Whole(b) /\ Code(b[1]) \in {CALIBRATE, SEEK}
    <3>1. a.senses = 0 /\ "DMA" \in a.dor /\ a.know = "nothing"
      BY <2>3, <2>9 DEF MayBegin, SPECIFY, CHECK_INT, CALIBRATE, SEEK, READ_SECT
    <3>2. /\ fdc'.phase = "execute" /\ fdc'.bytes = b /\ fdc'.out = fdc.out
          /\ fdc'.senses = fdc.senses /\ fdc'.pcn = fdc.pcn /\ atread' = atread /\ b # << >>
      <4>1. Code(b[1]) # READ_SECT /\ Code(b[1]) \in {CALIBRATE, SEEK, READ_SECT}
        BY <2>9 DEF SEEK, CALIBRATE, READ_SECT
      <4>2. QED
        BY <1>1, <1>3, <2>2, <2>9, <4>1, TakeFields
    <3>3. z = IF Code(b[1]) = CALIBRATE
                THEN [a EXCEPT !.ctl = "working", !.bytes = b, !.senses = 1]
                ELSE [a EXCEPT !.ctl = "working", !.bytes = b, !.senses = 1, !.know = "aimed", !.aim = b[3]]
      BY <2>4, <2>9 DEF Begun, SPECIFY, CHECK_INT, CALIBRATE, SEEK
    <3>4. /\ z.ctl = "working" /\ z.bytes = b /\ z.out = 0 /\ z.senses = 1 /\ z.dor = a.dor
          /\ z.dma = a.dma /\ z.ccr = a.ccr /\ z.miss = a.miss
          /\ Code(b[1]) = CALIBRATE => z.know = "nothing"
          /\ Code(b[1]) # CALIBRATE => z.know = "aimed" /\ z.aim = b[3]
      BY <2>2, <3>1, <3>3 DEF Label
    <3>5. fdc.senses = << >>
      BY <1>2, <2>2, <3>1 DEF Senses
    <3>6. missed = a.miss
      BY <2>2, <3>1 DEF Place
    <3>7. Ordered(z)
      BY <2>9, <3>2, <3>4 DEF Ordered
    <3>8. Interrupts'
      BY <1>1, <2>1, <3>1 DEF Interrupts, Registers
    <3>9. Working(z)'
      BY <1>1, <2>2, <2>5, <3>2, <3>4, <3>5, <3>6, <3>7, <3>8 DEF Working, Ordered
    <3>10. Registers(z)'
      BY <1>1, <2>1, <3>4 DEF Registers
    <3>11. Matches(z)'
      BY <3>4, <3>9, <3>10 DEF Matches
    <3>12. QED
      BY <1>1, <3>2, <3>11 DEF ReadPrepared
  <2>10. CASE Whole(b) /\ Code(b[1]) = READ_SECT
    <3>1. /\ a.dor = Lines /\ a.dma = "read" /\ a.ccr = 0
          /\ a.know = "there" /\ a.aim = b[3] /\ Names(lba, b)
      BY <2>3, <2>10 DEF MayBegin, SPECIFY, CHECK_INT, CALIBRATE, SEEK, READ_SECT
    <3>2. /\ fdc'.phase = "execute" /\ fdc'.bytes = b /\ b # << >>
          /\ atread' = {[bytes |-> b, dor |-> dor, ccr |-> ccr, dma |-> dma, pcn |-> fdc.pcn]}
      BY <1>1, <1>3, <2>2, <2>10, TakeFields
    <3>3. z = [a EXCEPT !.ctl = "reading", !.bytes = b]
      BY <2>4, <2>10 DEF Begun, SPECIFY, CHECK_INT, CALIBRATE, SEEK, READ_SECT
    <3>4. z.ctl = "reading" /\ z.dor = a.dor /\ z.dma = a.dma /\ z.ccr = a.ccr
      BY <3>3 DEF Label
    <3>5. Interrupts'
      BY <1>1, <2>1, <3>1 DEF Interrupts, Registers, Lines
    <3>6. Reading'
      BY <2>5, <2>10, <3>2, <3>5 DEF Reading
    <3>7. Registers(z)'
      BY <1>1, <2>1, <3>4 DEF Registers
    <3>8. Matches(z)'
      BY <3>4, <3>6, <3>7 DEF Matches
    <3>9. fdc.pcn = b[3]
      BY <2>2, <3>1 DEF Place
    <3>10. ReadPrepared'
      <4>1. ASSUME NEW r \in atread'
            PROVE  /\ r.dor = {"MOTOR", "RESET", "DMA"} /\ r.dma = "read" /\ r.ccr = 0
                   /\ r.pcn = r.bytes[3] /\ r.bytes = b
        BY <2>1, <3>1, <3>2, <3>9, <4>1 DEF Registers, Lines
      <4>2. QED
        BY <1>1, <3>1, <4>1 DEF ReadPrepared, Names
    <3>11. QED
      BY <3>8, <3>10
  <2>11. QED
    BY <2>3, <2>6, <2>7, <2>8, <2>9, <2>10
<1>6. QED
  BY <1>1, <1>4, <1>5 DEF May

\* What a byte read does to a controller that hands it out.
LEMMA GiveFields ==
  ASSUME FdcInv, NEW x, Give(x), fdc.phase = "result"
  PROVE  /\ x = fdc.out[1] /\ fdc'.senses = fdc.senses /\ fdc'.pcn = fdc.pcn
         /\ Len(fdc.out) = 1 => fdc'.phase = "command" /\ fdc'.bytes = << >> /\ fdc'.out = << >>
         /\ Len(fdc.out) # 1 => fdc'.phase = "result" /\ fdc'.out = Tail(fdc.out)
<1>1. fdc \in Fdc /\ fdc.out \in Seq(Byte) /\ fdc.out # << >>
  BY FdcFields DEF FdcInv
<1>2. /\ x = Head(fdc.out)
      /\ fdc' = IF Len(fdc.out) = 1
                  THEN [fdc EXCEPT !.phase = "command", !.bytes = << >>, !.out = << >>, !.rqm = FALSE]
                  ELSE [fdc EXCEPT !.out = Tail(@), !.rqm = FALSE]
  BY DEF Give
<1>3. x = fdc.out[1]
  BY <1>1, <1>2
<1>4. CASE Len(fdc.out) = 1
  BY <1>1, <1>2, <1>3, <1>4 DEF Fdc
<1>5. CASE Len(fdc.out) # 1
  <2>1. PICK t : t = Tail(fdc.out)
    OBVIOUS
  <2>2. fdc' = [fdc EXCEPT !.out = t, !.rqm = FALSE]
    BY <1>1, <1>2, <1>5, <2>1 DEF Fdc
  <2>3. fdc'.phase = "result" /\ fdc'.out = t /\ fdc'.senses = fdc.senses /\ fdc'.pcn = fdc.pcn
    BY <1>1, <2>2 DEF Fdc
  <2>4. QED
    BY <1>3, <1>5, <2>1, <2>3
<1>6. QED
  BY <1>4, <1>5

\* A byte is read.
LEMMA ReadSync ==
  ASSUME TypeInv, NEW a \in Label, Matches(a), NEW x \in Access, x = Head(todo),
         May(lba, a, x), flpydsk_read_data, NEW z, z = Then(a, x)
  PROVE  Matches(z)' /\ (ReadPrepared => ReadPrepared')
<1>1. /\ x[1] = "read" /\ FdcInv
      /\ UNCHANGED <<_FloppyDiskIRQ, installed, dma, dor, ccr, irq, lba, dropped, missed, atread>>
  BY DEF flpydsk_read_data, Now, TypeInv
<1>2. PICK byte : Give(byte) /\ cyl' = IF x[2] = "cyl" THEN byte ELSE cyl
  BY DEF flpydsk_read_data, Arg
<1>3. ReadPrepared => ReadPrepared'
  BY <1>1 DEF ReadPrepared
<1>4. CASE a.ctl = "after"
  <2>1. Past /\ z = After
    BY <1>4 DEF Then, Matches
  <2>2. z.ctl = "after"
    BY <2>1 DEF After
  <2>3. fdc'.phase = "command" => fdc'.bytes = << >>
    <3>1. CASE fdc.phase = "result"
      BY <1>1, <1>2, <3>1, GiveFields
    <3>2. CASE fdc.phase # "result"
      BY <1>2, <2>1, <3>2 DEF Give, Past
    <3>3. QED
      BY <3>1, <3>2
  <2>4. Past'
    BY <1>1, <2>1, <2>3 DEF Past
  <2>5. QED
    BY <1>3, <2>2, <2>4 DEF Matches
<1>5. CASE a.ctl = "answering"
  <2>1. Answering(a) /\ Registers(a)
    BY <1>5 DEF Matches
  <2>2. /\ Quiet /\ fdc.phase = "result" /\ Len(fdc.out) = a.out /\ a.out > 0
        /\ a.know \in {"aimed", "told"} => fdc.out[a.out] = fdc.pcn
        /\ a.bytes = << >> /\ Senses(a) /\ Place(a)
    BY <2>1 DEF Answering
  <2>3. a.out \in 1 .. 2 /\ fdc.out \in Seq(Byte) /\ x[2] = IF a.out = 2 THEN "st0" ELSE "cyl"
    <3>1. fdc.out \in Seq(Byte)
      BY <1>1, FdcFields DEF FdcInv
    <3>2. a.out \in 1 .. 2
      BY <2>2, LabelFields
    <3>3. QED
      BY <1>1, <1>5, <3>1, <3>2 DEF May
  <2>4. /\ byte = fdc.out[1] /\ fdc'.senses = fdc.senses /\ fdc'.pcn = fdc.pcn
        /\ Len(fdc.out) = 1 => fdc'.phase = "command" /\ fdc'.bytes = << >> /\ fdc'.out = << >>
        /\ Len(fdc.out) # 1 => fdc'.phase = "result" /\ fdc'.out = Tail(fdc.out)
    BY <1>1, <1>2, <2>2, GiveFields
  <2>5. Quiet'
    BY <1>1, <2>2 DEF Quiet
  <2>6. CASE a.out = 2
    <3>1. z = [a EXCEPT !.out = 1] /\ cyl' = cyl
      BY <1>1, <1>2, <1>5, <2>3, <2>6 DEF Then
    <3>2. /\ z.ctl = "answering" /\ z.bytes = a.bytes /\ z.out = 1 /\ z.senses = a.senses /\ z.dor = a.dor
          /\ z.dma = a.dma /\ z.ccr = a.ccr /\ z.know = a.know /\ z.aim = a.aim /\ z.miss = a.miss
      BY <1>5, <3>1 DEF Label
    <3>3. PICK t : t = Tail(fdc.out)
      OBVIOUS
    <3>4. fdc'.phase = "result" /\ fdc'.out = t /\ Len(t) = 1 /\ t[1] = fdc.out[2]
      BY <2>2, <2>3, <2>4, <2>6, <3>3
    <3>5. Senses(z)' /\ Place(z)'
      BY <1>1, <2>2, <2>4, <3>1, <3>2 DEF Senses, Place
    <3>6. Answering(z)'
      BY <2>2, <2>4, <2>5, <2>6, <3>2, <3>4, <3>5 DEF Answering
    <3>7. Registers(z)'
      BY <1>1, <2>1, <3>2 DEF Registers
    <3>8. QED
      BY <1>3, <3>2, <3>6, <3>7 DEF Matches
  <2>7. CASE a.out = 1
    <3>1. /\ z = [a EXCEPT !.ctl = "taking", !.out = 0, !.know = IF @ = "aimed" THEN "told" ELSE @]
          /\ cyl' = byte
      BY <1>1, <1>2, <1>5, <2>3, <2>7 DEF Then
    <3>2. /\ z.ctl = "taking" /\ z.bytes = a.bytes /\ z.out = 0 /\ z.senses = a.senses /\ z.dor = a.dor
          /\ z.dma = a.dma /\ z.ccr = a.ccr /\ z.aim = a.aim /\ z.miss = a.miss
          /\ z.know = IF a.know = "aimed" THEN "told" ELSE a.know
      BY <3>1 DEF Label
    <3>3. fdc'.phase = "command" /\ fdc'.out = << >> /\ fdc'.bytes = << >>
      BY <2>2, <2>4, <2>7
    <3>4. z.know = "told" => cyl' = fdc'.pcn
      BY <2>2, <2>4, <2>7, <3>1, <3>2
    <3>5. Senses(z)'
      BY <2>2, <2>4, <3>2 DEF Senses
    <3>6. Place(z)'
      BY <1>1, <2>2, <2>4, <3>2, <3>4 DEF Place
    <3>7. Taking(z)' /\ Registers(z)'
      BY <1>1, <2>1, <2>2, <2>5, <3>2, <3>3, <3>5, <3>6 DEF Taking, Registers
    <3>8. QED
      BY <1>3, <3>2, <3>7 DEF Matches
  <2>8. QED
    BY <2>3, <2>6, <2>7
<1>6. QED
  BY <1>1, <1>4, <1>5 DEF May

\* The driver sees the interrupt.
LEMMA WaitSync ==
  ASSUME TypeInv, NEW a \in Label, Matches(a), NEW x \in Access, x = Head(todo),
         May(lba, a, x), Wait, NEW z, z = Then(a, x)
  PROVE  Matches(z)' /\ (ReadPrepared => ReadPrepared')
<1>1. /\ x[1] = "wait" /\ _FloppyDiskIRQ # 0 /\ _FloppyDiskIRQ' = 0
      /\ UNCHANGED <<polls, cyl, installed, dma, dor, ccr, fdcvars, lba, dropped>>
  BY DEF Wait, Now
<1>2. UNCHANGED <<fdc, irq, missed, atread>>
  BY <1>1 DEF fdcvars
<1>3. ReadPrepared => ReadPrepared'
  BY <1>1, <1>2 DEF ReadPrepared
<1>4. ~Quiet
  BY <1>1 DEF Quiet
<1>5. CASE a.ctl = "reading"
  <2>1. Reading /\ z = After
    BY <1>5 DEF Matches, Then
  <2>2. z.ctl = "after"
    BY <2>1 DEF After
  <2>3. Past'
    BY <1>2, <1>4, <2>1 DEF Reading, Past
  <2>4. QED
    BY <1>3, <2>2, <2>3 DEF Matches
<1>6. CASE a.ctl = "working"
  <2>1. Working(a) /\ Registers(a)
    BY <1>6 DEF Matches
  <2>2. /\ fdc.phase = "command" /\ fdc.bytes = << >> /\ fdc.out = << >> /\ a.out = 0
        /\ Senses(a) /\ Place(a) /\ (irq => _FloppyDiskIRQ = 0)
    BY <1>4, <2>1 DEF Working
  <2>3. z = [a EXCEPT !.ctl = "taking", !.bytes = << >>]
    BY <1>1, <1>6 DEF Then
  <2>4. /\ z.ctl = "taking" /\ z.bytes = << >> /\ z.out = 0 /\ z.senses = a.senses /\ z.dor = a.dor
        /\ z.dma = a.dma /\ z.ccr = a.ccr /\ z.know = a.know /\ z.aim = a.aim /\ z.miss = a.miss
    BY <2>2, <2>3 DEF Label
  <2>5. Quiet'
    BY <1>1, <1>2, <2>2 DEF Quiet
  <2>6. Senses(z)' /\ Place(z)'
    BY <1>1, <1>2, <2>2, <2>4 DEF Senses, Place
  <2>7. Taking(z)' /\ Registers(z)'
    BY <1>1, <1>2, <2>1, <2>2, <2>4, <2>5, <2>6 DEF Taking, Registers
  <2>8. QED
    BY <1>3, <2>4, <2>7 DEF Matches
<1>7. CASE a.ctl = "after"
  BY <1>1, <1>7 DEF May, Idle
<1>8. QED
  BY <1>1, <1>5, <1>6, <1>7 DEF May

\* What a write of the DOR does to the controller.
LEMMA DorFields ==
  ASSUME FdcInv, NEW bits,
         fdc' = IF "RESET" \notin bits
                  THEN [FdcInit(fdc.pcn, fdc.nd) EXCEPT !.phase = "reset", !.rqm = FALSE]
                  ELSE IF fdc.phase = "reset" THEN [fdc EXCEPT !.phase = "execute"] ELSE fdc
  PROVE  /\ "RESET" \notin bits => /\ fdc'.phase = "reset" /\ fdc'.bytes = << >>
                                  /\ fdc'.out = << >> /\ fdc'.senses = << >>
         /\ "RESET" \in bits /\ fdc.phase = "reset" =>
              /\ fdc'.phase = "execute" /\ fdc'.bytes = fdc.bytes
              /\ fdc'.out = fdc.out /\ fdc'.senses = fdc.senses
         /\ "RESET" \in bits /\ fdc.phase # "reset" => fdc' = fdc
BY DEF FdcInv, FdcInit, Fdc

\* The DOR is written: the motor, a reset or its end.
LEMMA DorSync ==
  ASSUME TypeInv, NEW a \in Label, Matches(a), NEW x \in Access, x = Head(todo),
         May(lba, a, x), WriteDor, NEW z, z = Then(a, x)
  PROVE  Matches(z)' /\ (ReadPrepared => ReadPrepared')
<1>1. /\ x[1] = "dor" /\ dor' = x[2] /\ FdcInv
      /\ UNCHANGED <<polls, cyl, _FloppyDiskIRQ, installed, dma, ccr, irq, lba, dropped, missed, atread>>
  BY DEF WriteDor, Now, Arg, TypeInv
<1>2. fdc' = IF "RESET" \notin x[2]
               THEN [FdcInit(fdc.pcn, fdc.nd) EXCEPT !.phase = "reset", !.rqm = FALSE]
               ELSE IF fdc.phase = "reset" THEN [fdc EXCEPT !.phase = "execute"] ELSE fdc
  BY DEF WriteDor, Arg
<1>3. /\ "RESET" \notin x[2] => /\ fdc'.phase = "reset" /\ fdc'.bytes = << >>
                                /\ fdc'.out = << >> /\ fdc'.senses = << >>
      /\ "RESET" \in x[2] /\ fdc.phase = "reset" =>
           /\ fdc'.phase = "execute" /\ fdc'.bytes = fdc.bytes
           /\ fdc'.out = fdc.out /\ fdc'.senses = fdc.senses
      /\ "RESET" \in x[2] /\ fdc.phase # "reset" => fdc' = fdc
  BY <1>1, <1>2, DorFields
<1>4. ReadPrepared => ReadPrepared'
  BY <1>1 DEF ReadPrepared
<1>5. CASE a.ctl = "after"
  <2>1. Past /\ z = After
    BY <1>5 DEF Then, Matches
  <2>2. z.ctl = "after"
    BY <2>1 DEF After
  <2>3. Past'
    BY <1>1, <1>3, <2>1 DEF Past
  <2>4. QED
    BY <1>4, <2>2, <2>3 DEF Matches
<1>6. CASE a.ctl = "reset"
  <2>1. InReset(a) /\ Registers(a)
    BY <1>6 DEF Matches
  <2>2. "RESET" \in x[2] /\ "DMA" \in x[2]
    BY <1>1, <1>6 DEF May, Idle
  <2>3. z = [a EXCEPT !.ctl = "working", !.dor = x[2], !.senses = 4]
    BY <1>1, <1>6, <2>2 DEF Then
  <2>4. /\ z.ctl = "working" /\ z.bytes = a.bytes /\ z.out = a.out /\ z.senses = 4 /\ z.dor = x[2]
        /\ z.dma = a.dma /\ z.ccr = a.ccr /\ z.know = a.know /\ z.miss = a.miss
    BY <2>3 DEF Label
  <2>5. /\ Quiet /\ fdc.phase = "reset" /\ fdc.bytes = << >> /\ fdc.out = << >> /\ fdc.senses = << >>
        /\ a.bytes = << >> /\ a.know = "nothing" /\ a.out = 0 /\ missed = a.miss
    BY <2>1 DEF InReset
  <2>6. Quiet' /\ Interrupts'
    BY <1>1, <2>2, <2>5 DEF Quiet, Interrupts
  <2>7. Ordered(z)
    BY <2>4, <2>5 DEF Ordered
  <2>8. Working(z)'
    BY <1>1, <1>3, <2>2, <2>4, <2>5, <2>6, <2>7 DEF Working, Ordered
  <2>9. Registers(z)'
    BY <1>1, <2>1, <2>4 DEF Registers
  <2>10. QED
    BY <1>4, <2>4, <2>8, <2>9 DEF Matches
<1>7. CASE Idle(a)
  <2>1. a.ctl = "taking" /\ a.bytes = << >> /\ a.out = 0
    BY <1>7 DEF Idle
  <2>2. Taking(a) /\ Registers(a)
    BY <2>1 DEF Matches
  <2>3. /\ Quiet /\ fdc.phase = "command" /\ fdc.bytes = << >> /\ fdc.out = << >>
        /\ Senses(a) /\ Place(a)
    BY <2>1, <2>2 DEF Taking
  <2>4. Quiet'
    BY <1>1, <2>3 DEF Quiet
  <2>5. CASE "RESET" \in x[2]
    <3>1. z = [a EXCEPT !.dor = x[2]]
      BY <1>1, <2>1, <2>5 DEF Then
    <3>2. /\ z.ctl = "taking" /\ z.bytes = << >> /\ z.out = 0 /\ z.senses = a.senses /\ z.dor = x[2]
          /\ z.dma = a.dma /\ z.ccr = a.ccr /\ z.know = a.know /\ z.aim = a.aim /\ z.miss = a.miss
      BY <2>1, <3>1 DEF Label
    <3>3. fdc' = fdc
      BY <1>3, <2>3, <2>5
    <3>4. Senses(z)' /\ Place(z)'
      BY <1>1, <2>3, <3>2, <3>3 DEF Senses, Place
    <3>5. Taking(z)' /\ Registers(z)'
      BY <1>1, <2>2, <2>3, <2>4, <3>2, <3>3, <3>4 DEF Taking, Registers
    <3>6. QED
      BY <1>4, <3>2, <3>5 DEF Matches
  <2>6. CASE "RESET" \notin x[2]
    <3>1. z = [a EXCEPT !.ctl = "reset", !.dor = x[2], !.senses = 0]
      BY <1>1, <2>1, <2>6 DEF Then
    <3>2. /\ z.ctl = "reset" /\ z.bytes = << >> /\ z.out = 0 /\ z.dor = x[2]
          /\ z.dma = a.dma /\ z.ccr = a.ccr /\ z.know = a.know /\ z.miss = a.miss
      BY <2>1, <3>1 DEF Label
    <3>3. a.know = "nothing" /\ missed = a.miss
      BY <1>1, <2>1, <2>3, <2>6 DEF May, Place
    <3>4. InReset(z)' /\ Registers(z)'
      BY <1>1, <1>3, <2>2, <2>4, <2>6, <3>2, <3>3 DEF InReset, Registers
    <3>5. QED
      BY <1>4, <3>2, <3>4 DEF Matches
  <2>7. QED
    BY <2>5, <2>6
<1>8. QED
  BY <1>1, <1>5, <1>6, <1>7 DEF May

\* The data rate or the DMA channel is set.
LEMMA OtherSync ==
  ASSUME TypeInv, NEW a \in Label, Matches(a), NEW x \in Access, x = Head(todo),
         May(lba, a, x), WriteOther, NEW z, z = Then(a, x)
  PROVE  Matches(z)' /\ (ReadPrepared => ReadPrepared')
<1>1. /\ x[1] \in {"ccr", "dma"} /\ UNCHANGED <<polls, cyl, _FloppyDiskIRQ, installed, dor, lba, dropped>>
      /\ ccr' = (IF x[1] = "ccr" THEN x[2] ELSE ccr) /\ dma' = (IF x[1] = "dma" THEN x[2] ELSE dma)
      /\ UNCHANGED <<fdc, irq, missed, atread>>
  BY DEF WriteOther, Now, Arg, fdcvars
<1>2. ReadPrepared => ReadPrepared'
  BY <1>1 DEF ReadPrepared
<1>3. a.ctl = "taking" /\ a.bytes = << >> /\ a.out = 0
  BY <1>1 DEF May, Idle
<1>4. Taking(a) /\ Registers(a)
  BY <1>3 DEF Matches
<1>5. z = IF x[1] = "ccr" THEN [a EXCEPT !.ccr = x[2]] ELSE [a EXCEPT !.dma = x[2]]
  BY <1>1, <1>3 DEF Then
<1>6. /\ z.ctl = "taking" /\ z.bytes = a.bytes /\ z.out = a.out /\ z.senses = a.senses /\ z.dor = a.dor
      /\ z.know = a.know /\ z.aim = a.aim /\ z.miss = a.miss
      /\ z.ccr = (IF x[1] = "ccr" THEN x[2] ELSE a.ccr) /\ z.dma = (IF x[1] = "dma" THEN x[2] ELSE a.dma)
  BY <1>1, <1>3, <1>5 DEF Label
<1>7. Senses(z)' /\ Place(z)' /\ Quiet'
  BY <1>1, <1>4, <1>6 DEF Senses, Place, Taking, Quiet
<1>8. Taking(z)' /\ Registers(z)'
  BY <1>1, <1>4, <1>6, <1>7 DEF Taking, Registers
<1>9. QED
  BY <1>2, <1>6, <1>8 DEF Matches

\* A label holds on as long as what it speaks of stays.
LEMMA MatchesKept ==
  ASSUME NEW a \in Label, Matches(a),
         UNCHANGED <<cyl, _FloppyDiskIRQ, installed, dma, dor, ccr, irq, missed, atread>>,
         fdc'.phase = fdc.phase, fdc'.bytes = fdc.bytes, fdc'.out = fdc.out,
         fdc'.senses = fdc.senses, fdc'.pcn = fdc.pcn
  PROVE  Matches(a)'
<1>1. Quiet' = Quiet /\ Interrupts' = Interrupts /\ (Senses(a) => Senses(a)') /\ (Place(a) => Place(a)')
  BY DEF Quiet, Interrupts, Senses, Place
<1>2. CASE a.ctl = "taking"
  BY <1>1, <1>2 DEF Matches, Taking, Registers
<1>3. CASE a.ctl = "answering"
  BY <1>1, <1>3 DEF Matches, Answering, Registers
<1>4. CASE a.ctl = "reset"
  BY <1>1, <1>4 DEF Matches, InReset, Registers
<1>5. CASE a.ctl = "working"
  BY <1>1, <1>5 DEF Matches, Working, Registers, Ordered
<1>6. CASE a.ctl = "reading"
  BY <1>1, <1>6 DEF Matches, Reading, Registers
<1>7. CASE a.ctl = "after"
  BY <1>1, <1>7 DEF Matches, Past
<1>8. QED
  BY <1>2, <1>3, <1>4, <1>5, <1>6, <1>7, LabelFields

\* The driver tests what it has read.
LEMMA TestSync ==
  ASSUME TypeInv, NEW a \in Label, Matches(a), Run(lba, todo, a, After), Test
  PROVE  (\E b \in Label : Matches(b)' /\ Goes(b)') /\ (ReadPrepared => ReadPrepared')
<1>1. PICK x, s : x = Head(todo) /\ s = Tail(todo)
  OBVIOUS
<1>2. /\ UNCHANGED <<polls, cyl, _FloppyDiskIRQ, installed, dma, dor, ccr, lba, dropped>>
      /\ UNCHANGED <<fdc, irq, missed, atread>> /\ x[1] \in {"calibrated?", "sought?"}
      /\ x \in Access /\ s \in Seq(Access) /\ todo # << >> /\ Now = x[1] /\ Arg = x[2]
  <2>1. Now \in {"calibrated?", "sought?"}
    BY DEF Test
  <2>2. QED
    BY <1>1, <2>1, Access1 DEF Test, fdcvars, Arg
<1>3. ReadPrepared => ReadPrepared'
  BY <1>2 DEF ReadPrepared
<1>4. PICK z : z = Then(a, x)
  OBVIOUS
<1>5. May(lba, a, x) /\ z \in Label /\ Run(lba, s, z, After)
  BY <1>1, <1>2, <1>4, RunFirst
<1>6. a.ctl = "taking" /\ Idle(a) /\ a.senses = 0 /\ a.dor = Lines
  BY <1>2, <1>5 DEF May, Idle
<1>7. CASE x[1] = "calibrated?"
  <2>1. a.know = "nothing" /\ x[2] \in Nat
    BY <1>2, <1>5, <1>7, AccessArgs DEF May, Idle
  <2>2. z = [a EXCEPT !.dor = {"RESET"}]
    BY <1>4, <1>6, <1>7 DEF Then
  <2>3. PICK i \in Nat : i = x[2]
    BY <2>1
  <2>4. PICK u : u = Calibrated(i)
    OBVIOUS
  <2>5. Run(lba, u, a, z)
    <3>1. i + 1 \in Nat
      OBVIOUS
    <3>2. QED
      BY <1>6, <2>1, <2>2, <2>4, <3>1, CalibrateRun DEF Calibrated
  <2>6. u # PANIC
    BY <2>5, NoPanic DEF Run
  <2>7. todo' = u \o s
    BY <1>1, <1>2, <1>7, <2>3, <2>4, <2>6 DEF Test, PANIC
  <2>8. Run(lba, u \o s, a, After)
    BY <1>5, <2>5, RunConcat
  <2>9. Goes(a)'
    BY <1>2, <2>7, <2>8 DEF Goes
  <2>10. Matches(a)'
    BY <1>2, MatchesKept
  <2>11. QED
    BY <1>3, <2>9, <2>10
<1>8. CASE x[1] = "sought?"
  <2>1. /\ a.know = "told" /\ a.aim = x[2] /\ a.miss = x[4] /\ x[4] < Tries
        /\ x[2] \in Byte /\ x[3] \in 0 .. 1 /\ x[4] \in Nat
    BY <1>2, <1>5, <1>8, AccessArgs DEF May, Idle
  <2>2. z = [a EXCEPT !.know = "there", !.miss = 0]
    BY <1>4, <1>6, <1>8 DEF Then
  <2>3. PICK t \in Byte, h \in 0 .. 1, i \in Nat : t = x[2] /\ h = x[3] /\ i = x[4]
    BY <2>1
  <2>4. PICK u : u = Sought(t, h, i)
    OBVIOUS
  <2>5. todo' = IF u = PANIC THEN u ELSE u \o s
    BY <1>1, <1>2, <1>8, <2>3, <2>4 DEF Test, PANIC
  <2>6. Taking(a) /\ Registers(a)
    BY <1>6 DEF Matches
  <2>7. /\ Quiet /\ fdc.phase = "command" /\ fdc.bytes = a.bytes /\ fdc.out = << >> /\ a.out = 0
        /\ Senses(a) /\ Place(a)
    BY <2>6 DEF Taking
  <2>8. Quiet'
    BY <1>2, <2>7 DEF Quiet
  <2>9. cyl = fdc.pcn /\ missed = a.miss + (IF fdc.pcn = t THEN 0 ELSE 1) /\ a.aim = t /\ a.miss = i
    BY <2>1, <2>3, <2>7 DEF Place
  <2>10. CASE cyl = t
    <3>1. todo' = s
      <4>1. u = << >> /\ << >> # PANIC
        BY <2>4, <2>10 DEF Sought, PANIC
      <4>2. << >> \o s = s
        BY <1>2
      <4>3. QED
        BY <2>5, <4>1, <4>2
    <3>2. Goes(z)'
      BY <1>2, <1>5, <3>1 DEF Goes
    <3>3. /\ z.ctl = "taking" /\ z.bytes = a.bytes /\ z.out = 0 /\ z.senses = a.senses /\ z.dor = a.dor
          /\ z.dma = a.dma /\ z.ccr = a.ccr /\ z.know = "there" /\ z.aim = a.aim
      BY <1>6, <2>2, <2>7 DEF Label
    <3>4. Senses(z)' /\ Place(z)'
      BY <1>2, <2>7, <2>9, <2>10, <3>3 DEF Senses, Place
    <3>5. Taking(z)' /\ Registers(z)'
      BY <1>2, <2>6, <2>7, <2>8, <3>3, <3>4 DEF Taking, Registers
    <3>6. Matches(z)'
      BY <3>3, <3>5 DEF Matches
    <3>7. QED
      BY <1>3, <1>5, <3>2, <3>6
  <2>11. CASE cyl # t
    <3>1. PICK k \in Nat : k = i + 1
      OBVIOUS
    <3>2. PICK b : b = [a EXCEPT !.know = "nothing", !.miss = k]
      OBVIOUS
    <3>3. /\ b \in Label /\ b.ctl = "taking" /\ b.bytes = a.bytes /\ b.out = 0 /\ b.senses = a.senses
          /\ b.dor = a.dor /\ b.dma = a.dma /\ b.ccr = a.ccr /\ b.know = "nothing" /\ b.miss = k
      BY <1>6, <2>7, <3>2 DEF Label
    <3>4. missed = k
      BY <2>9, <2>11, <3>1
    <3>5. Senses(b)' /\ Place(b)'
      BY <1>2, <2>7, <3>3, <3>4 DEF Senses, Place
    <3>6. Taking(b)' /\ Registers(b)'
      BY <1>2, <2>6, <2>7, <2>8, <3>3, <3>5 DEF Taking, Registers
    <3>7. Matches(b)'
      BY <3>3, <3>6 DEF Matches
    <3>8. Idle(b)
      BY <1>6, <3>3 DEF Idle
    <3>9. u = flpydsk_seek(t, h, k)
      BY <2>4, <2>11, <3>1 DEF Sought
    <3>10. CASE k < Tries
      <4>1. z = [b EXCEPT !.know = "there", !.aim = t, !.miss = 0]
        BY <2>2, <2>9, <3>2 DEF Label
      <4>2. Run(lba, u, b, z)
        BY <1>6, <3>3, <3>8, <3>9, <3>10, <4>1, SeekRun
      <4>3. u # PANIC
        BY <4>2, NoPanic DEF Run
      <4>4. Run(lba, u \o s, b, After)
        BY <1>5, <4>2, RunConcat
      <4>5. Goes(b)'
        BY <1>2, <2>5, <4>3, <4>4 DEF Goes
      <4>6. QED
        BY <1>3, <3>3, <3>7, <4>5
    <3>11. CASE ~(k < Tries)
      <4>1. u = PANIC
        BY <3>9, <3>11 DEF flpydsk_seek, PANIC
      <4>2. k = Tries
        BY <2>1, <2>3, <3>1, <3>11, FloppyAssumption DEF FloppyAssumption
      <4>3. Goes(b)'
        BY <2>5, <3>3, <3>8, <4>1, <4>2 DEF Goes
      <4>4. QED
        BY <1>3, <3>3, <3>7, <4>3
    <3>12. QED
      BY <3>10, <3>11
  <2>12. QED
    BY <2>10, <2>11
<1>9. QED
  BY <1>2, <1>7, <1>8

\* What the end of its work does to the controller.
LEMMA FinishFields ==
  ASSUME FdcInv, Finish
  PROVE  /\ fdc.phase = "execute" /\ irq' = (irq \/ Interrupts)
         /\ UNCHANGED <<todo, polls, cyl, _FloppyDiskIRQ, installed, dma, dor, ccr, lba, dropped, atread>>
         /\ \/ /\ fdc.bytes = << >> /\ missed' = missed
               /\ fdc'.phase = "command" /\ fdc'.bytes = << >> /\ fdc'.out = fdc.out
               /\ fdc'.senses = <<0, 0, 0, 0>> /\ fdc'.pcn = fdc.pcn
            \/ \E c \in Cyls :
               /\ fdc.bytes # << >> /\ Code(fdc.bytes[1]) \in {CALIBRATE, SEEK}
               /\ fdc'.phase = "command" /\ fdc'.bytes = << >> /\ fdc'.out = fdc.out
               /\ fdc'.senses = Append(fdc.senses, c) /\ fdc'.pcn = c
               /\ missed' = IF Code(fdc.bytes[1]) = SEEK /\ c # fdc.bytes[3] THEN missed + 1 ELSE missed
            \/ /\ fdc.bytes # << >> /\ Code(fdc.bytes[1]) = READ_SECT
               /\ fdc'.phase \in {"data", "result"}
<1>1. fdc \in Fdc /\ fdc.senses \in Seq(Cyls) /\ fdc.nd \in BOOLEAN
  BY FdcFields DEF FdcInv
<1>2. /\ fdc.phase = "execute" /\ irq' = (irq \/ Interrupts)
      /\ UNCHANGED <<todo, polls, cyl, _FloppyDiskIRQ, installed, dma, dor, ccr, lba, dropped, atread>>
  BY DEF Finish, driver
<1>3. CASE /\ fdc.bytes = << >> /\ missed' = missed
           /\ fdc' = [fdc EXCEPT !.phase = "command", !.rqm = TRUE, !.senses = <<0, 0, 0, 0>>]
  <2>1. PICK t : t = <<0, 0, 0, 0>>
    OBVIOUS
  <2>2. fdc' = [fdc EXCEPT !.phase = "command", !.rqm = TRUE, !.senses = t]
    BY <1>3, <2>1
  <2>3. /\ fdc'.phase = "command" /\ fdc'.bytes = fdc.bytes /\ fdc'.out = fdc.out
        /\ fdc'.senses = t /\ fdc'.pcn = fdc.pcn
    BY <1>1, <2>2 DEF Fdc
  <2>4. QED
    BY <1>2, <1>3, <2>1, <2>3
<1>4. ASSUME NEW c \in Cyls, fdc.bytes # << >>, Code(fdc.bytes[1]) \in {CALIBRATE, SEEK},
             fdc' = [fdc EXCEPT !.phase = "command", !.rqm = TRUE, !.bytes = << >>,
                                !.senses = Append(@, c), !.pcn = c],
             missed' = IF Code(fdc.bytes[1]) = SEEK /\ c # fdc.bytes[3] THEN missed + 1 ELSE missed
      PROVE  /\ fdc'.phase = "command" /\ fdc'.bytes = << >> /\ fdc'.out = fdc.out
             /\ fdc'.senses = Append(fdc.senses, c) /\ fdc'.pcn = c
  <2>1. PICK t : t = Append(fdc.senses, c)
    OBVIOUS
  <2>2. fdc' = [fdc EXCEPT !.phase = "command", !.rqm = TRUE, !.bytes = << >>, !.senses = t, !.pcn = c]
    BY <1>1, <1>4, <2>1 DEF Fdc
  <2>3. /\ fdc'.phase = "command" /\ fdc'.bytes = << >> /\ fdc'.out = fdc.out
        /\ fdc'.senses = t /\ fdc'.pcn = c
    BY <1>1, <2>2 DEF Fdc
  <2>4. QED
    BY <2>1, <2>3
<1>5. CASE /\ fdc.bytes # << >> /\ Code(fdc.bytes[1]) = READ_SECT
           /\ fdc' = [fdc EXCEPT !.phase = IF fdc.nd THEN "data" ELSE "result", !.rqm = fdc.nd,
                                 !.out = <<0, 0, 0, 0, 0, 0, 2>>]
  <2>1. PICK p, o : p = (IF fdc.nd THEN "data" ELSE "result") /\ o = <<0, 0, 0, 0, 0, 0, 2>>
    OBVIOUS
  <2>2. fdc' = [fdc EXCEPT !.phase = p, !.rqm = fdc.nd, !.out = o]
    BY <1>5, <2>1
  <2>3. fdc'.phase = p
    BY <1>1, <2>2 DEF Fdc
  <2>4. QED
    BY <1>2, <1>5, <2>1, <2>3
<1>6. QED
  BY <1>2, <1>3, <1>4, <1>5 DEF Finish

\* What the controller and the handler do, the label has foreseen.
LEMMA ControllerSync ==
  ASSUME TypeInv, NEW a \in Label, Matches(a), Controller \/ Handler
  PROVE  Matches(a)' /\ (ReadPrepared => ReadPrepared')
<1>0. FdcInv /\ fdc \in Fdc /\ irq \in BOOLEAN /\ installed \in BOOLEAN
  BY DEF TypeInv, FdcInv
<1>1. ReadPrepared => ReadPrepared'
  BY DEF Controller, Ready, Finish, Overrun, Handler, ReadPrepared
<1>2. CASE Ready
  <2>1. UNCHANGED <<cyl, _FloppyDiskIRQ, installed, dma, dor, ccr, irq, missed, atread>>
    BY <1>2 DEF Ready, driver
  <2>2. /\ fdc'.phase = fdc.phase /\ fdc'.bytes = fdc.bytes /\ fdc'.out = fdc.out
        /\ fdc'.senses = fdc.senses /\ fdc'.pcn = fdc.pcn
    BY <1>0, <1>2 DEF Ready, Fdc
  <2>3. QED
    BY <1>1, <2>1, <2>2, MatchesKept
<1>3. CASE Finish
  <2>1. /\ fdc.phase = "execute" /\ irq' = (irq \/ Interrupts)
        /\ UNCHANGED <<todo, polls, cyl, _FloppyDiskIRQ, installed, dma, dor, ccr, lba, dropped, atread>>
    BY <1>0, <1>3, FinishFields
  <2>2. a.ctl \in {"working", "reading", "after"}
    BY <2>1, LabelFields DEF Matches, Taking, Answering, InReset
  <2>3. Registers(a) => Registers(a)'
    BY <2>1 DEF Registers
  <2>4. CASE a.ctl = "working"
    <3>1. /\ Interrupts /\ fdc.out = << >> /\ a.out = 0 /\ Ordered(a) /\ Quiet
          /\ fdc.bytes = a.bytes /\ fdc.senses = << >> /\ missed = a.miss
      BY <2>1, <2>4 DEF Matches, Working
    <3>2. irq' /\ Interrupts' /\ _FloppyDiskIRQ' = 0
      BY <2>1, <3>1 DEF Interrupts, Quiet
    <3>3. Registers(a)'
      BY <2>3, <2>4 DEF Matches
    <3>4. a.miss \in Nat /\ a.know \in {"nothing", "aimed", "told", "there"}
      BY LabelFields
    <3>5. CASE fdc.bytes = << >>
      <4>1. /\ missed' = missed /\ fdc'.phase = "command" /\ fdc'.bytes = << >> /\ fdc'.out = fdc.out
            /\ fdc'.senses = <<0, 0, 0, 0>>
        BY <1>0, <1>3, <3>5, FinishFields
      <4>2. a.senses = 4 /\ a.know = "nothing"
        BY <3>1, <3>5 DEF Ordered
      <4>3. Senses(a)' /\ Place(a)'
        BY <3>1, <4>1, <4>2 DEF Senses, Place
      <4>4. Working(a)'
        BY <3>1, <3>2, <4>1, <4>3 DEF Working, Ordered
      <4>5. QED
        BY <1>1, <2>4, <3>3, <4>4 DEF Matches
    <3>6. CASE fdc.bytes # << >>
      <4>1. Code(fdc.bytes[1]) \in {CALIBRATE, SEEK} /\ Code(fdc.bytes[1]) # READ_SECT
        BY <3>1, <3>6 DEF Ordered, CALIBRATE, SEEK, READ_SECT
      <4>2. PICK c \in Cyls :
              /\ fdc'.phase = "command" /\ fdc'.bytes = << >> /\ fdc'.out = fdc.out
              /\ fdc'.senses = Append(fdc.senses, c) /\ fdc'.pcn = c
              /\ missed' = IF Code(fdc.bytes[1]) = SEEK /\ c # fdc.bytes[3] THEN missed + 1 ELSE missed
        BY <1>0, <1>3, <3>6, <4>1, FinishFields
      <4>3. PICK t : t = Append(fdc.senses, c)
        OBVIOUS
      <4>4. fdc'.senses = t /\ Len(t) = 1 /\ t[1] = c
        BY <3>1, <4>2, <4>3
      <4>5. \A j \in 1 .. Len(fdc'.senses) : fdc'.senses[j] = fdc'.pcn
        BY <4>2, <4>4
      <4>6. a.senses = 1
        BY <3>1, <3>6 DEF Ordered
      <4>7. Senses(a)'
        BY <4>4, <4>5, <4>6 DEF Senses
      <4>8. Place(a)'
        <5>1. CASE Code(fdc.bytes[1]) = CALIBRATE
          <6>1. a.know = "nothing" /\ missed' = missed
            BY <3>1, <3>6, <4>2, <5>1 DEF Ordered, CALIBRATE, SEEK
          <6>2. QED
            BY <3>1, <6>1 DEF Place
        <5>2. CASE Code(fdc.bytes[1]) = SEEK
          <6>1. a.know = "aimed" /\ a.aim = fdc.bytes[3]
            BY <3>1, <3>6, <5>2 DEF Ordered, CALIBRATE, SEEK
          <6>2. missed' = a.miss + (IF fdc'.pcn = a.aim THEN 0 ELSE 1)
            BY <3>1, <3>4, <4>2, <5>2, <6>1
          <6>3. QED
            BY <6>1, <6>2 DEF Place
        <5>3. QED
          BY <4>1, <5>1, <5>2
      <4>9. Working(a)'
        BY <3>1, <3>2, <4>2, <4>7, <4>8 DEF Working, Ordered
      <4>10. QED
        BY <1>1, <2>4, <3>3, <4>9 DEF Matches
    <3>7. QED
      BY <3>5, <3>6
  <2>5. CASE a.ctl = "reading"
    <3>1. /\ Interrupts /\ atread # {} /\ Quiet
          /\ fdc.bytes # << >> /\ Code(fdc.bytes[1]) = READ_SECT
      BY <2>1, <2>5 DEF Matches, Reading
    <3>2. fdc'.phase \in {"data", "result"}
      <4>1. Code(fdc.bytes[1]) \notin {CALIBRATE, SEEK}
        BY <3>1 DEF CALIBRATE, SEEK, READ_SECT
      <4>2. QED
        BY <1>0, <1>3, <3>1, <4>1, FinishFields
    <3>3. Reading'
      BY <2>1, <3>1, <3>2 DEF Reading, Interrupts
    <3>4. QED
      BY <1>1, <2>3, <2>5, <3>3 DEF Matches
  <2>6. CASE a.ctl = "after"
    <3>1. atread # {}
      BY <2>6 DEF Matches, Past
    <3>2. fdc'.phase = "command" => fdc'.bytes = << >>
      BY <1>0, <1>3, FinishFields
    <3>3. Past'
      BY <2>1, <3>1, <3>2 DEF Past
    <3>4. QED
      BY <1>1, <2>6, <3>3 DEF Matches
  <2>7. QED
    BY <2>2, <2>4, <2>5, <2>6
<1>4. CASE Overrun
  <2>1. /\ fdc.phase = "data" /\ irq' = (irq \/ Interrupts) /\ fdc'.phase = "result"
        /\ UNCHANGED <<_FloppyDiskIRQ, installed, dma, dor, ccr, atread>>
    BY <1>0, <1>4 DEF Overrun, Fdc
  <2>2. a.ctl \in {"reading", "after"}
    BY <2>1, LabelFields DEF Matches, Taking, Answering, InReset, Working
  <2>3. CASE a.ctl = "reading"
    <3>1. Interrupts /\ atread # {} /\ Registers(a)
      BY <2>3 DEF Matches, Reading
    <3>2. Reading' /\ Registers(a)'
      BY <2>1, <3>1 DEF Reading, Interrupts, Registers
    <3>3. QED
      BY <1>1, <2>3, <3>2 DEF Matches
  <2>4. CASE a.ctl = "after"
    <3>1. Past'
      BY <2>1, <2>4 DEF Matches, Past
    <3>2. QED
      BY <1>1, <2>4, <3>1 DEF Matches
  <2>5. QED
    BY <2>2, <2>3, <2>4
<1>5. CASE Handler
  <2>1. /\ irq /\ irq' = FALSE /\ _FloppyDiskIRQ' = (IF installed THEN 1 ELSE _FloppyDiskIRQ)
        /\ UNCHANGED <<cyl, installed, dma, dor, ccr, fdc, missed, atread>>
    BY <1>5 DEF Handler, driver
  <2>2. ~Quiet
    BY <2>1 DEF Quiet
  <2>3. a.ctl \in {"working", "reading", "after"}
    BY <2>2, LabelFields DEF Matches, Taking, Answering, InReset
  <2>4. Registers(a) => Registers(a)'
    BY <2>1 DEF Registers
  <2>5. Interrupts' = Interrupts /\ (Senses(a) => Senses(a)') /\ (Place(a) => Place(a)')
    BY <2>1 DEF Interrupts, Senses, Place
  <2>6. CASE a.ctl = "working"
    <3>1. Working(a)'
      BY <2>1, <2>2, <2>5, <2>6 DEF Matches, Working, Ordered
    <3>2. QED
      BY <1>1, <2>4, <2>6, <3>1 DEF Matches
  <2>7. CASE a.ctl = "reading"
    <3>1. Reading'
      BY <2>1, <2>2, <2>5, <2>7 DEF Matches, Reading
    <3>2. QED
      BY <1>1, <2>4, <2>7, <3>1 DEF Matches
  <2>8. CASE a.ctl = "after"
    <3>1. Past'
      BY <2>1, <2>8 DEF Matches, Past
    <3>2. QED
      BY <1>1, <2>8, <3>1 DEF Matches
  <2>9. QED
    BY <2>3, <2>6, <2>7, <2>8
<1>6. QED
  BY <1>2, <1>3, <1>4, <1>5 DEF Controller

\* It holds when init_fat12 is called,
LEMMA InitInv == Init => IInv
<1>1. SUFFICES ASSUME Init PROVE IInv
  OBVIOUS
<1>2. FloppyAssumption
  BY FloppyAssumption
<1>3. /\ lba \in Lbas /\ todo = init_fat12(lba) /\ polls = 0 /\ cyl \in Junk /\ _FloppyDiskIRQ = 0
      /\ installed \in BOOLEAN /\ dma = "off" /\ dor = {"RESET", "DMA"} /\ ccr = 2 /\ irq = FALSE
      /\ dropped = FALSE /\ missed = 0 /\ atread = {}
  BY <1>1 DEF Init
<1>4. PICK c \in Cyls, b \in BOOLEAN : fdc = FdcInit(c, b)
  BY <1>1 DEF Init
<1>5. /\ fdc \in Fdc /\ fdc.phase = "command" /\ fdc.bytes = << >> /\ fdc.out = << >>
      /\ fdc.senses = << >>
  BY <1>4, EmptyType DEF FdcInit, Fdc
<1>6. Sector(lba)
  BY <1>2, <1>3 DEF FloppyAssumption, Sector
<1>7. Start \in Label /\ Run(lba, todo, Start, After)
  BY <1>3, <1>6, InitRun
<1>8. TypeInv
  <2>1. todo \in Seq(Access)
    BY <1>7 DEF Run
  <2>2. polls \in 0 .. Polls - 1 /\ cyl \in Byte /\ missed \in Nat
    BY <1>2, <1>3 DEF FloppyAssumption
  <2>3. FdcInv
    <3>1. Len(<< >>) = 0 /\ 0 <= 9 /\ 0 <= 7
      OBVIOUS
    <3>2. QED
      BY <1>5, <3>1 DEF FdcInv
  <2>4. dor \in SUBSET Lines
    BY <1>3 DEF Lines
  <2>5. QED
    BY <1>3, <2>1, <2>2, <2>3, <2>4 DEF TypeInv
<1>9. Matches(Start)
  <2>1. /\ Start.ctl = "taking" /\ Start.bytes = << >> /\ Start.senses = 0 /\ Start.out = 0
        /\ Start.dor = {"RESET", "DMA"} /\ Start.dma = "off" /\ Start.ccr = 2
        /\ Start.know = "nothing" /\ Start.miss = 0
    BY DEF Start
  <2>2. Senses(Start) /\ Place(Start) /\ Quiet
    BY <1>3, <1>5, <2>1 DEF Senses, Place, Quiet
  <2>3. Taking(Start) /\ Registers(Start)
    BY <1>3, <1>5, <2>1, <2>2 DEF Taking, Registers
  <2>4. QED
    BY <2>1, <2>3 DEF Matches
<1>10. Sync
  BY <1>7, <1>9 DEF Sync, Goes
<1>11. ReadPrepared
  BY <1>3 DEF ReadPrepared
<1>12. QED
  BY <1>8, <1>10, <1>11 DEF IInv

\* and every step keeps it.
LEMMA NextInv == IInv /\ [Next]_vars => IInv'
<1>1. SUFFICES ASSUME IInv, [Next]_vars PROVE Sync' /\ ReadPrepared'
  <2>1. ASSUME IInv, [Next]_vars PROVE TypeInv'
    BY <2>1, NextType DEF IInv
  <2>2. QED
    BY <2>1 DEF IInv
<1>2. TypeInv /\ Sync /\ ReadPrepared /\ dropped \in BOOLEAN
  BY <1>1 DEF IInv, TypeInv
<1>3. CASE dropped'
  BY <1>3 DEF Sync, ReadPrepared
<1>4. CASE ~dropped'
  <2>1. ~dropped
    BY <1>1, <1>2, <1>4 DEF Next, Driver, Controller, Handler, Ready, Finish, Overrun,
       flpydsk_read_status, flpydsk_send_command, flpydsk_read_data, Wait, WriteDor, WriteOther, Test, vars
  <2>2. PICK a \in Label : Matches(a) /\ Goes(a)
    BY <1>2, <2>1 DEF Sync
  <2>3. CASE Controller \/ Handler
    <3>1. Matches(a)' /\ ReadPrepared'
      BY <1>2, <2>2, <2>3, ControllerSync
    <3>2. todo' = todo /\ lba' = lba
      BY <2>3 DEF Controller, Ready, Finish, Overrun, Handler, driver
    <3>3. Goes(a)'
      BY <2>2, <3>2 DEF Goes
    <3>4. QED
      BY <3>1, <3>3 DEF Sync
  <2>4. CASE flpydsk_read_status \/ UNCHANGED vars
    <3>1. /\ UNCHANGED <<todo, cyl, _FloppyDiskIRQ, installed, dma, dor, ccr, irq, missed, atread>>
          /\ UNCHANGED <<fdc, lba, dropped>>
      BY <1>4, <2>4 DEF flpydsk_read_status, fdcvars, vars, driver
    <3>2. Matches(a)'
      BY <2>2, <3>1, MatchesKept
    <3>3. Goes(a)'
      BY <2>2, <3>1 DEF Goes
    <3>4. ReadPrepared'
      BY <1>2, <3>1 DEF ReadPrepared
    <3>5. QED
      BY <3>2, <3>3, <3>4 DEF Sync
  <2>5. CASE flpydsk_send_command \/ flpydsk_read_data \/ Wait \/ WriteDor \/ WriteOther
    <3>1. PICK x, s : x = Head(todo) /\ s = Tail(todo)
      OBVIOUS
    <3>2. /\ x \in Access /\ todo # << >> /\ todo # PANIC /\ todo' = s /\ lba' = lba
      <4>1. Now \in {"send", "read", "wait", "dor", "ccr", "dma", "calibrated?", "sought?"}
        BY <2>5 DEF flpydsk_send_command, flpydsk_read_data, Wait, WriteDor, WriteOther
      <4>2. todo' = Tail(todo) /\ lba' = lba
        BY <2>5 DEF flpydsk_send_command, flpydsk_read_data, Wait, WriteDor, WriteOther
      <4>3. QED
        BY <1>2, <3>1, <4>1, <4>2, Access1
    <3>3. Run(lba, todo, a, After)
      BY <2>2, <3>2 DEF Goes
    <3>4. PICK z : z = Then(a, x)
      OBVIOUS
    <3>5. May(lba, a, x) /\ z \in Label /\ Run(lba, s, z, After)
      BY <3>1, <3>2, <3>3, <3>4, RunFirst
    <3>6. Matches(z)' /\ ReadPrepared'
      BY <1>2, <2>2, <2>5, <3>1, <3>2, <3>4, <3>5, SendSync, ReadSync, WaitSync, DorSync, OtherSync
    <3>7. Goes(z)'
      BY <3>2, <3>5 DEF Goes
    <3>8. QED
      BY <3>5, <3>6, <3>7 DEF Sync
  <2>6. CASE Test
    <3>1. todo # PANIC
      <4>1. Now \in {"send", "read", "wait", "dor", "ccr", "dma", "calibrated?", "sought?"}
        BY <2>6 DEF Test
      <4>2. QED
        BY <1>2, <4>1, Access1
    <3>2. Run(lba, todo, a, After)
      BY <2>2, <3>1 DEF Goes
    <3>3. (\E b \in Label : Matches(b)' /\ Goes(b)') /\ ReadPrepared'
      BY <1>2, <2>2, <2>6, <3>2, TestSync
    <3>4. QED
      BY <3>3 DEF Sync
  <2>7. QED
    BY <1>1, <2>3, <2>4, <2>5, <2>6 DEF Next, Driver
<1>5. QED
  BY <1>3, <1>4

\* The accesses of the driver and the state of the controller fit together
\* in every reachable state.
THEOREM Invariance == Spec => []IInv
<1>1. Init => IInv
  BY InitInv
<1>2. IInv /\ [Next]_vars => IInv'
  BY NextInv
<1>3. QED
  BY <1>1, <1>2, PTL DEF Spec

-----------------------------------------------------------------------------
(* What follows.                                                           *)

\* Every byte sent fits the data register, every command and answer its
\* bound, and a panic is the last thing on its list (TypeOK).
THEOREM Typed == Spec => []TypeOK
<1>1. IInv => TypeOK
  <2>1. SUFFICES ASSUME TypeInv PROVE TypeOK
    BY DEF IInv
  <2>2. FdcInv
    BY <2>1 DEF TypeInv
  <2>3. /\ fdc.phase \in {"reset", "command", "execute", "data", "result"} /\ fdc.rqm \in BOOLEAN
        /\ fdc.senses \in Seq(Cyls) /\ fdc.pcn \in Cyls /\ fdc.nd \in BOOLEAN
        /\ Len(fdc.bytes) <= 9 /\ Len(fdc.out) <= 7
    BY <2>2, FdcFields DEF FdcInv
  <2>4. \A i \in 1 .. Len(fdc.senses) : fdc.senses[i] \in Cyls
    BY <2>3
  <2>5. ASSUME NEW i \in 1 .. Len(todo)
        PROVE  /\ todo[i][1] \in {"send", "read", "wait", "dor", "ccr", "dma", "calibrated?", "sought?", "panic"}
               /\ todo[i][1] = "send" => todo[i][2] \in Byte
               /\ todo[i][1] = "panic" => i = Len(todo)
    <3>1. CASE todo = PANIC
      <4>1. Len(todo) = 1 /\ i = 1 /\ todo[1] = <<"panic">>
        BY <2>5, <3>1 DEF PANIC
      <4>2. QED
        BY <4>1
    <3>2. CASE todo \in Seq(Access)
      <4>1. PICK x : x = todo[i]
        OBVIOUS
      <4>2. x \in Access
        BY <2>5, <3>2, <4>1
      <4>3. x[1] \in {"send", "read", "wait", "dor", "ccr", "dma", "calibrated?", "sought?"}
        BY <4>2 DEF Access
      <4>4. QED
        BY <4>1, <4>2, <4>3, AccessArgs
    <3>3. QED
      BY <2>1, <3>1, <3>2 DEF TypeInv
  <2>6. {installed, irq, dropped, fdc.rqm, fdc.nd} \subseteq BOOLEAN
    BY <2>1, <2>3 DEF TypeInv
  <2>7. QED
    BY <2>1, <2>3, <2>4, <2>5, <2>6 DEF TypeOK, TypeInv, Lines
<1>2. QED
  BY <1>1, Invariance, PTL

\* What the label of a state says of the next access.
LEMMA NextAccess ==
  ASSUME IInv, ~dropped
  PROVE  \E a \in Label :
           /\ Matches(a)
           /\ \/ todo = << >> /\ Now = "done" /\ a.ctl = "after"
              \/ /\ todo # << >> /\ Head(todo) \in Access /\ Now = Head(todo)[1] /\ Now # "panic"
                 /\ May(lba, a, Head(todo))
              \/ Now = "panic" /\ Idle(a) /\ a.know = "nothing" /\ a.miss = Tries
<1>1. PICK a \in Label : Matches(a) /\ Goes(a)
  BY DEF IInv, Sync
<1>2. CASE todo = PANIC /\ Idle(a) /\ a.know = "nothing" /\ a.miss = Tries
  <2>1. Now = "panic"
    BY <1>2 DEF Now, PANIC
  <2>2. QED
    BY <1>1, <1>2, <2>1
<1>3. CASE Run(lba, todo, a, After) /\ todo = << >>
  <2>1. a = After /\ Now = "done"
    <3>1. Len(todo) = 0 /\ 0 + 1 = 1
      BY <1>3
    <3>2. QED
      BY <1>3, <3>1 DEF Run, Now
  <2>2. a.ctl = "after"
    BY <2>1 DEF After
  <2>3. QED
    BY <1>1, <1>3, <2>1, <2>2
<1>4. CASE Run(lba, todo, a, After) /\ todo # << >>
  <2>1. May(lba, a, Head(todo))
    BY <1>4, RunFirst
  <2>2. PICK x : x = Head(todo)
    OBVIOUS
  <2>3. x \in Access
    BY <1>4, <2>2 DEF Run
  <2>4. x[1] # "panic"
    BY <2>3 DEF Access
  <2>5. Now = x[1]
    BY <1>4, <2>2 DEF Now
  <2>6. QED
    BY <1>1, <1>4, <2>1, <2>2, <2>3, <2>4, <2>5
<1>5. QED
  BY <1>1, <1>2, <1>3, <1>4 DEF Goes

\* Up to the READ, a byte is sent to a controller that takes one, and read
\* from one that has one; a command begins with a command byte, and nothing
\* else is accessed in the middle of one (InStep): the hazard of a driver
\* whose tests of the status register do not look at the direction bit.
THEOREM StepByStep == Spec => []InStep
<1>1. IInv => InStep
  <2>1. SUFFICES ASSUME IInv, ~dropped, atread = {}
                 PROVE  /\ Now = "send" =>
                             /\ fdc.phase = "command"
                             /\ fdc.bytes = << >> =>
                                  Code(Arg) \in {SPECIFY, CALIBRATE, CHECK_INT, SEEK, READ_SECT}
                        /\ Now = "read" => fdc.phase = "result"
                        /\ Now \notin {"send", "read", "wait"} => fdc.bytes = << >> /\ fdc.out = << >>
    BY DEF InStep
  <2>2. PICK a \in Label :
           /\ Matches(a)
           /\ \/ todo = << >> /\ Now = "done" /\ a.ctl = "after"
              \/ /\ todo # << >> /\ Head(todo) \in Access /\ Now = Head(todo)[1] /\ Now # "panic"
                 /\ May(lba, a, Head(todo))
              \/ Now = "panic" /\ Idle(a) /\ a.know = "nothing" /\ a.miss = Tries
    BY <2>1, NextAccess
  <2>3. a.ctl \notin {"reading", "after"}
    BY <2>1, <2>2 DEF Matches, Reading, Past
  <2>4. ASSUME Idle(a) PROVE fdc.bytes = << >> /\ fdc.out = << >>
    BY <2>2, <2>4 DEF Idle, Matches, Taking
  <2>5. CASE Now = "panic"
    BY <2>2, <2>4, <2>5
  <2>6. CASE Now # "panic"
    <3>1. PICK x : x = Head(todo)
      OBVIOUS
    <3>2. x \in Access /\ Now = x[1] /\ Arg = x[2] /\ May(lba, a, x)
      BY <2>2, <2>3, <2>6, <3>1 DEF Arg
    <3>3. CASE Now = "send"
      <4>1. a.ctl = "taking" /\ Code(Append(a.bytes, x[2])[1]) \in {SPECIFY, CALIBRATE, CHECK_INT, SEEK, READ_SECT}
        BY <2>3, <3>2, <3>3 DEF May
      <4>2. fdc.phase = "command" /\ fdc.bytes = a.bytes
        BY <2>2, <4>1 DEF Matches, Taking
      <4>3. fdc.bytes = << >> => Append(a.bytes, x[2])[1] = x[2]
        BY <4>2
      <4>4. QED
        BY <3>2, <3>3, <4>1, <4>2, <4>3
    <3>4. CASE Now = "read"
      <4>1. a.ctl = "answering"
        BY <2>3, <3>2, <3>4 DEF May
      <4>2. QED
        BY <2>2, <3>4, <4>1 DEF Matches, Answering
    <3>5. CASE Now \notin {"send", "read", "wait"}
      <4>1. Idle(a) \/ a.ctl = "reset"
        BY <2>3, <3>2, <3>5 DEF May
      <4>2. a.ctl = "reset" => fdc.bytes = << >> /\ fdc.out = << >>
        BY <2>2 DEF Matches, InReset
      <4>3. QED
        BY <2>4, <3>5, <4>1, <4>2
    <3>6. CASE Now = "wait"
      BY <3>6
    <3>7. QED
      BY <3>3, <3>4, <3>5, <3>6
  <2>7. QED
    BY <2>5, <2>6
<1>2. QED
  BY <1>1, Invariance, PTL

\* With a handler of interrupt 6, flpydsk_wait_irq never waits for an
\* interrupt that will not come, and never takes one of an earlier command
\* for its own (WaitsAnswered).
THEOREM Answered == Spec => []WaitsAnswered
<1>1. IInv => WaitsAnswered
  <2>1. SUFFICES ASSUME IInv, Now = "wait", ~dropped, installed
                 PROVE  IF fdc.phase = "execute" THEN Interrupts /\ ~irq /\ _FloppyDiskIRQ = 0
                                                 ELSE irq \/ _FloppyDiskIRQ = 1
    BY DEF WaitsAnswered
  <2>2. PICK a \in Label : Matches(a) /\ May(lba, a, Head(todo)) /\ Head(todo)[1] = "wait"
                           /\ Head(todo) \in Access
    BY <2>1, NextAccess
  <2>3. a.ctl \in {"working", "reading"}
    <3>1. PICK x : x = Head(todo)
      OBVIOUS
    <3>2. x # <<"send", CHECK_INT>>
      <4>1. <<"send", CHECK_INT>>[1] = "send"
        OBVIOUS
      <4>2. QED
        BY <2>2, <3>1, <4>1
    <3>3. QED
      BY <2>2, <3>1, <3>2 DEF May
  <2>4. CASE a.ctl = "working"
    BY <2>1, <2>2, <2>4 DEF Matches, Working, Quiet
  <2>5. CASE a.ctl = "reading"
    BY <2>1, <2>2, <2>5 DEF Matches, Reading, Quiet
  <2>6. QED
    BY <2>3, <2>4, <2>5
<1>2. QED
  BY <1>1, Invariance, PTL

\* The READ of flpydsk_read_sector_imp begins with motor, DMA channel, data
\* rate and head as it needs them, and names the sector that was asked for
\* (ReadPrepared).
THEOREM Prepared == Spec => []ReadPrepared
<1>1. IInv => ReadPrepared
  BY DEF IInv
<1>2. QED
  BY <1>1, Invariance, PTL

\* flpydsk_read_sector panics only when every attempt of flpydsk_seek came
\* to rest at another cylinder (PanicJustified).
THEOREM Justified == Spec => []PanicJustified
<1>1. IInv => PanicJustified
  <2>1. SUFFICES ASSUME IInv, Now = "panic", ~dropped PROVE missed = Tries
    BY DEF PanicJustified
  <2>2. PICK a \in Label : Matches(a) /\ Idle(a) /\ a.know = "nothing" /\ a.miss = Tries
    BY <2>1, NextAccess
  <2>3. QED
    BY <2>2 DEF Idle, Matches, Taking, Place
<1>2. QED
  BY <1>1, Invariance, PTL

=============================================================================
