------------------------------- MODULE MCKeys -------------------------------
(***************************************************************************)
(* Where keys are unlocked, used, deferred and wiped, each part for TLC:   *)
(* the boot, an arena of the vault, the Game Mode sessions that defer its  *)
(* sweeps, and the panic that scrubs it.  A behaviour is one of `unit`;    *)
(* the others keep their initial states.                                   *)
(***************************************************************************)
EXTENDS Vault, Boot, GameMode, TLC

CONSTANTS p1, p2, p3, s1, s2, m1, w, g1, g2

VARIABLES
    unit,
    present, dlab, loop, low, high, received, ready, line, baud, program, at,
    text, spins, phase, inMemory

vaultVars == <<current, previous, epoch, stale, cipher, failed, deferred,
               sweeping, late>>
serialVars == <<present, dlab, loop, low, high, received, ready, line, baud, program,
                at, text, spins, phase, inMemory>>
allVars == <<unit, vaultVars, sessionVars, loaderVars, serialVars>>

-----------------------------------------------------------------------------
(* Instances *)

\* One compositor, the watchdog, two games, cores in SMT pairs.  Three quarters of
\* eight cores are whole pairs; of ten they are not.
Pairs == [c \in 0 .. Total - 1 |-> IF c % 2 = 0 THEN c + 1 ELSE c - 1]

\* Two slots, two images.  8 GiB of 8 Gb DDR4 dies, x8 on 64 bits; 16 GiB of 16 Gb
\* DDR5 dies, one rank of two channels; an LPDDR5 module, a kind the loader does not
\* know.
Dimm(kind, density, width, bits, ranks, channels) ==
    [kind |-> kind, density |-> density, width |-> width, bus |-> bits,
     ranks |-> ranks, channels |-> channels]
SomeDimms == {Dimm("ddr4", 5, 1, 3, 1, 1), Dimm("ddr5", 4, 1, 2, 1, 2),
              Dimm("lpddr5", 4, 1, 2, 1, 2)}
NoDimm == [kind |-> "none"]
TwoImages == <<"kernel", "driver">>

\* Rates that divide the clock well, badly and not at all; a message of a letter
\* and a line feed, and a panic of one byte.
S == INSTANCE Serial WITH
        ClockHz <- 115200, Bauds <- {0, 1, 110, 9600, 76800, 110000, 115200, 115201},
        SpinLimit <- 2, Texts <- {<<79, 10>>}, PanicText <- <<33>>, keys <- inMemory

ASSUME BootInstance == BootAssumption
ASSUME SerialInstance == S!SerialAssumption

-----------------------------------------------------------------------------
(* One initial state for a part that does not move *)

BootRests == /\ fitted = [s \in 1 .. 2 |-> NoDimm] /\ carved = 1024
             /\ bus = FALSE /\ esp = [p \in {"kernel", "driver"} |-> "signed"]
             /\ genuine = TRUE /\ tpm = "works"
SerialRests == present = TRUE /\ dlab = FALSE /\ baud = 9600

MCInit ==
    /\ unit \in {"vault", "sessions", "boot", "console"}
    /\ IF unit = "boot" THEN TRUE ELSE BootRests
    /\ IF unit = "console" THEN TRUE ELSE SerialRests
    /\ Init /\ SessionInit /\ LoaderInit /\ S!Init

OnlyVault == unit = "vault" /\ UNCHANGED <<unit, sessionVars, loaderVars, serialVars>>
OnlyGame == unit = "sessions" /\ UNCHANGED <<unit, vaultVars, loaderVars, serialVars>>
OnlyBoot == unit = "boot" /\ UNCHANGED <<unit, vaultVars, sessionVars, serialVars>>
OnlyConsole == unit = "console" /\ UNCHANGED <<unit, vaultVars, sessionVars, loaderVars>>

MCNext == \/ OnlyVault /\ Next
          \/ OnlyGame /\ SessionNext
          \/ OnlyBoot /\ LoaderNext
          \/ OnlyConsole /\ S!Next

\* The fairness that the parts state.
MCSpec ==
    /\ MCInit /\ [][MCNext]_allVars
    /\ \A s \in Sweepers : WF_allVars(OnlyVault /\ Sweep(s))
    /\ WF_allVars(OnlyGame /\ Tick)
    /\ WF_allVars(OnlyGame /\ (EnterStore(m1) \/ ClearStore(m1)))
    /\ WF_allVars(OnlyBoot /\ Loader)
    /\ WF_allVars(OnlyConsole /\ S!Processor)

-----------------------------------------------------------------------------
(* Properties *)

\* Every boot ends in the kernel or in a halt, and no honest machine in a halt
\* for the memory it hides.
BootsAreSound == (unit = "boot" => BootEnds) /\ [](LoaderTypeOK /\ HonestMapAccepted)

\* The console runs at the rate asked for with nothing but its texts on the line,
\* and a panic scrubs the keys whatever the console does.
ConsoleHolds == S!ConsoleHolds
=============================================================================
