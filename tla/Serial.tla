------------------------------- MODULE Serial -------------------------------
(***************************************************************************)
(* The serial console and the panic path                                   *)
(* (kernel/spectre-kernel/src/arch/serial.rs, src/lib.rs:107-116).         *)
(*                                                                         *)
(* A 16550 has two meanings for its first two registers, by the DLAB bit   *)
(* of the line control register, and a loopback mode by the modem control  *)
(* register; init switches both back and forth.  The chip may be absent,   *)
(* and its transmitter may stop taking bytes at any time and for good.     *)
(***************************************************************************)
EXTENDS Integers, Sequences, SequencesExt

CONSTANTS
    ClockHz,      \* UART_CLOCK_HZ
    Bauds,        \* the rates tried
    SpinLimit,    \* SPIN_LIMIT
    Texts,        \* what the kernel prints: sequences of bytes
    PanicText     \* what a panic prints

SerialAssumption ==
    /\ ClockHz \in Nat \ {0} /\ Bauds \subseteq Nat /\ SpinLimit \in Nat

VARIABLES
    present,           \* somebody answers at the port
    dlab, loop,        \* bits of the line and modem control registers
    low, high,         \* the divisor latch
    received,          \* the receive buffer
    ready,             \* THR_EMPTY
    line,              \* what was transmitted
    baud,              \* the rate asked for
    program, at,       \* the writes of init, and how far it is
    text, spins,       \* the bytes still to print, and the wait for this one
    phase,             \* what the processor is at
    keys               \* vault keys are in memory

chip == <<present, dlab, loop, low, high, received, line>>
vars == <<chip, ready, baud, program, at, text, spins, phase, keys>>

-----------------------------------------------------------------------------
(* The rate *)

NoDivisor == 0

Divisor(b) == (ClockHz + b \div 2) \div b

\* Deviation of the rate that divisor d gives from b, in thousandths.
ErrorPermille(b, d) ==
    LET actual == ClockHz \div d
    IN  ((IF actual > b THEN actual - b ELSE b - actual) * 1000) \div b

\* divisor_for: refused outside the clock, above 16 bits, or off by over 3 %.
DivisorFor(b) ==
    IF \/ b = 0 \/ b > ClockHz
       \/ Divisor(b) > 65535
       \/ ErrorPermille(b, Divisor(b)) > 30
    THEN NoDivisor
    ELSE Divisor(b)

-----------------------------------------------------------------------------
(* The chip *)

DLAB == 128
Loopback == 30
Probe == 174      \* 0xAE

\* A write as the chip takes it.
WriteReg(reg, v) ==
    /\ dlab' = IF reg = "lcr" THEN v = DLAB ELSE dlab
    /\ loop' = IF reg = "mcr" THEN v = Loopback ELSE loop
    /\ low' = IF reg = "data" /\ dlab THEN v ELSE low
    /\ high' = IF reg = "ier" /\ dlab THEN v ELSE high
    /\ received' = IF reg = "data" /\ ~dlab /\ loop THEN v ELSE received
    /\ line' = IF reg = "data" /\ ~dlab /\ ~loop THEN Append(line, v) ELSE line
    /\ UNCHANGED present

\* Mutation of InitProgram: the line is configured before the divisor is written.
InitProgram_LineFirst(d) ==
    << <<"ier", 0>>, <<"lcr", DLAB>>, <<"lcr", 3>>, <<"data", d % 256>>, <<"ier", d \div 256>>,
       <<"fcr", 199>>, <<"mcr", Loopback>>, <<"data", Probe>> >>

\* init up to the self test.
InitProgram(d) ==
    << <<"ier", 0>>,
       <<"lcr", DLAB>>, <<"data", d % 256>>, <<"ier", d \div 256>>, <<"lcr", 3>>,
       <<"fcr", 199>>,
       <<"mcr", Loopback>>, <<"data", Probe>> >>

\* What a read of the data register gives: nobody there reads as all ones.
ReadData == IF present THEN received ELSE 255

Init ==
    /\ present \in BOOLEAN /\ ready = TRUE
    /\ dlab \in BOOLEAN /\ loop = FALSE /\ low = 1 /\ high = 0 /\ received = 0
    /\ line = <<>> /\ baud \in Bauds
    /\ program = <<>> /\ at = 0 /\ text = <<>> /\ spins = 0
    /\ phase = "off" /\ keys = TRUE

\* The transmitter keeps up, or not.
Stall == /\ ready' = ~ready
         /\ UNCHANGED <<chip, baud, program, at, text, spins, phase, keys>>

-----------------------------------------------------------------------------
(* init *)

Begin == /\ phase = "off"
         /\ phase' = IF DivisorFor(baud) = NoDivisor THEN "unsupported" ELSE "init"
         /\ program' = InitProgram(DivisorFor(baud)) /\ at' = 1
         /\ UNCHANGED <<chip, ready, baud, text, spins, keys>>

InitWrites == /\ phase = "init" /\ at <= Len(program)
              /\ WriteReg(program[at][1], program[at][2])
              /\ at' = at + 1
              /\ UNCHANGED <<ready, baud, program, text, spins, phase, keys>>

\* self_test: on failure the chip stays in loopback; else DTR, RTS and OUT2.
SelfTest == /\ phase = "init" /\ at = Len(program) + 1
            /\ IF ReadData = Probe
               THEN WriteReg("mcr", 11) /\ phase' = "up"
               ELSE UNCHANGED chip /\ phase' = "absent"
            /\ UNCHANGED <<ready, baud, program, at, text, spins, keys>>

-----------------------------------------------------------------------------
(* Printing *)

\* write_str_bytes: a carriage return before each line feed.
LF == 10
CR == 13
Bytes(s) == FlattenSeq([i \in DOMAIN s |-> IF s[i] = LF THEN <<CR, LF>> ELSE <<s[i]>>])

StartPrinting == /\ phase = "up" /\ line = <<>>
                 /\ \E s \in Texts : text' = Bytes(s)
                 /\ phase' = "printing" /\ spins' = 0
                 /\ UNCHANGED <<chip, ready, baud, program, at, keys>>

\* A panic anywhere: emergency_serial prints without a lock.
Panic == /\ phase \in {"init", "up", "printing", "absent", "unsupported"}
         /\ text' = Bytes(PanicText) /\ spins' = 0
         /\ phase' = "panic"
         /\ UNCHANGED <<chip, ready, baud, program, at, keys>>

Printing == phase \in {"printing", "panic"} /\ text # <<>>

WriteByte == /\ Printing /\ ready
             /\ WriteReg("data", Head(text))
             /\ text' = Tail(text) /\ spins' = 0
             /\ UNCHANGED <<ready, baud, program, at, phase, keys>>

\* Mutation of Spin: the wait has no limit.
Spin_Forever == Printing /\ ~ready /\ UNCHANGED vars

\* Past the limit the byte is dropped rather than the kernel hung.
Spin == /\ Printing /\ ~ready
        /\ IF spins < SpinLimit
           THEN spins' = spins + 1 /\ UNCHANGED text
           ELSE spins' = 0 /\ text' = Tail(text)
        /\ UNCHANGED <<chip, ready, baud, program, at, phase, keys>>

Printed == /\ phase = "printing" /\ text = <<>>
           /\ phase' = "up"
           /\ UNCHANGED <<chip, ready, baud, program, at, text, spins, keys>>

\* The panic handler: after the message, vault::scrub_all_keys, then halt.
Scrub == /\ phase = "panic" /\ text = <<>>
         /\ keys' = FALSE /\ phase' = "halted"
         /\ UNCHANGED <<chip, ready, baud, program, at, text, spins>>

Processor == Begin \/ InitWrites \/ SelfTest \/ StartPrinting \/ WriteByte \/ Spin \/ Printed \/ Scrub

Next == Processor \/ Stall \/ Panic

Spec == Init /\ [][Next]_vars

\* The processor runs; the transmitter owes nothing.
FairSpec == Spec /\ WF_vars(Processor)

-----------------------------------------------------------------------------
(* Properties *)

\* Once init reports success the line runs at the rate that was asked for, within
\* what a receiver tolerates, bytes go out on it, and neither the divisor nor
\* the probe of the self test was sent as data (serial.rs:87-89, 169-198).
InitLeavesLineClean ==
    phase \in {"up", "printing"} =>
        /\ ~dlab /\ ~loop
        /\ ErrorPermille(baud, 256 * high + low) <= 30
        /\ \A i \in DOMAIN line : \E s \in Texts : line[i] \in ToSet(Bytes(s))

\* A panic scrubs the keys, whatever the console does: the message is lost byte
\* by byte before the processor waits for ever (lib.rs:107-116, serial.rs:229).
PanicScrubs == phase = "panic" ~> ~keys

\* The console puts on the line what it is given and never holds a panic up.
ConsoleHolds == []InitLeavesLineClean /\ PanicScrubs
=============================================================================
