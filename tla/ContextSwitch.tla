--------------------------- MODULE ContextSwitch ---------------------------
(***************************************************************************)
(* Threads of one processor and the switch between them                    *)
(* (kernel/spectre-kernel/src/arch/context.rs, context.S).                 *)
(*                                                                         *)
(* A stack is the sequence of the quadwords pushed on it, from stack_top   *)
(* down; stack_top is a multiple of 16, so RSP is one exactly when an even *)
(* number of quadwords is on the stack.  A thread runs, calls functions,   *)
(* keeps values in the callee-saved registers and calls the switch.        *)
(***************************************************************************)
EXTENDS Integers, Sequences, SequencesExt

CONSTANTS
    Contexts, First,  \* of the threads; First is the one that runs when it begins
    Space,            \* the CR3 of each thread
    Values,           \* what a thread keeps in its registers
    MaxDepth          \* bound: frames a thread pushes

ASSUME ContextSwitchAssumption ==
    /\ First \in Contexts /\ MaxDepth \in Nat /\ Space \in [Contexts -> {Space[t] : t \in Contexts}]

VARIABLES
    stack, cr3Of,     \* memory, and Context.cr3; Context.rsp is the stack's length
    rsp,              \* the stack the processor uses
    regs, cr3,        \* its callee-saved registers and its CR3
    at, to,           \* where it is, and the thread it switches to
    interrupts,       \* IF
    began,            \* history: threads that have run
    kept              \* history: registers and stack of each thread at its call

switchVars == <<stack, cr3Of, rsp, regs, cr3, at, to, interrupts, began, kept>>

\* rbp, rbx, r12, r13, r14, r15, in the order of the pushes.
Registers == 1 .. 6
R12 == 3
R13 == 4

Entry(t) == <<"entry of", t>>
Arg(t) == <<"argument of", t>>
Trampoline == <<"trampoline", "">>
CallSite == <<"after the call", "">>
Quadword(v) == <<"value", v>>
ZeroWord == Quadword("0")

\* Context::bootstrap: terminator, trampoline, and the six registers.
BootstrapFrame(t) ==
    <<ZeroWord, Trampoline, ZeroWord, ZeroWord, Entry(t), Arg(t), ZeroWord, ZeroWord>>

SwitchInit ==
    /\ stack = [t \in Contexts |-> IF t = First THEN <<ZeroWord>> ELSE BootstrapFrame(t)]
    /\ cr3Of = Space /\ cr3 = Space[First]
    /\ rsp = First /\ regs = [r \in Registers |-> ZeroWord]
    /\ at = "body" /\ to = First /\ interrupts = TRUE
    /\ began = {First} /\ kept = [t \in Contexts |-> <<>>]

\* The thread uses a register ...
Work(v) ==
    /\ at = "body"
    /\ regs' = [r \in Registers |-> Quadword(v)]
    /\ UNCHANGED <<stack, cr3Of, rsp, cr3, at, to, interrupts, began, kept>>

\* ... or calls a function.
Call == /\ at = "body" /\ Len(stack[rsp]) < MaxDepth
        /\ stack' = [stack EXCEPT ![rsp] = Append(@, Quadword("frame"))]
        /\ UNCHANGED <<cr3Of, rsp, regs, cr3, at, to, interrupts, began, kept>>

\* The scheduler calls the switch, with interrupts off: the return address and
\* the six registers go onto the stack of the thread, and RSP is parked.
SwitchSaves(t) ==
    /\ at = "body" /\ t # rsp
    /\ kept' = [kept EXCEPT ![rsp] = <<regs, stack[rsp]>>]
    /\ stack' = [stack EXCEPT ![rsp] = @ \o <<CallSite>> \o regs]
    /\ to' = t /\ at' = "saved" /\ interrupts' = FALSE
    /\ UNCHANGED <<cr3Of, rsp, regs, cr3, began>>

\* Mutation of SwitchSpace: CR3 is left alone when the stacks are equally deep.
SwitchSpace_Skips ==
    /\ at = "saved" /\ at' = "space"
    /\ cr3' = IF Len(stack[to]) = Len(stack[rsp]) THEN cr3 ELSE cr3Of[to]
    /\ UNCHANGED <<stack, cr3Of, rsp, regs, to, interrupts, began, kept>>

\* CR3 is written only when it differs.
SwitchSpace ==
    /\ at = "saved" /\ at' = "space"
    /\ cr3' = IF cr3Of[to] # cr3 THEN cr3Of[to] ELSE cr3
    /\ UNCHANGED <<stack, cr3Of, rsp, regs, to, interrupts, began, kept>>

\* The same, the other way round, from the stack of the incoming thread; ret
\* goes where that stack says.
SwitchRestores ==
    LET s == stack[to]
        n == Len(s)
    IN  /\ at = "space"
        /\ rsp' = to
        /\ regs' = SubSeq(s, n - 5, n)
        /\ stack' = [stack EXCEPT ![to] = SubSeq(s, 1, n - 7)]
        /\ IF s[n - 6] = Trampoline
           THEN at' = "trampoline" /\ UNCHANGED interrupts
           ELSE at' = "body" /\ interrupts' = TRUE
        /\ UNCHANGED <<cr3Of, cr3, to, began, kept>>

\* The trampoline turns interrupts on and calls R12 with R13 as its argument.
TrampolineCalls ==
    /\ at = "trampoline"
    /\ interrupts' = TRUE
    /\ stack' = [stack EXCEPT ![rsp] = Append(@, regs[R12])]
    /\ kept' = [kept EXCEPT ![rsp] = <<regs[R12], regs[R13]>>]
    /\ began' = began \cup {rsp} /\ at' = "body"
    /\ UNCHANGED <<cr3Of, rsp, regs, cr3, to>>

SwitchNext ==
        \/ \E v \in Values : Work(v)
        \/ Call
        \/ \E t \in Contexts : SwitchSaves(t)
        \/ SwitchSpace \/ SwitchRestores \/ TrampolineCalls

SwitchSpec == SwitchInit /\ [][SwitchNext]_switchVars

-----------------------------------------------------------------------------
(* Properties *)

\* A thread comes back from the switch with the registers and the stack it went
\* in with, in its own address space, and a new one begins at its entry point
\* with its argument (context.rs:7-14, context.S:41-43).
ResumesWhereItLeft ==
    [][ /\ at = "space" /\ at' = "body" =>
            /\ <<regs', stack'[rsp']>> = kept[rsp'] /\ cr3' = Space[rsp'] /\ interrupts'
        /\ at = "trampoline" /\ at' = "body" =>
            kept'[rsp] = <<Entry(rsp), Arg(rsp)>> /\ cr3 = Space[rsp] ]_at

\* "SysV requires RSP = 16 (mod 16) at the call instruction" (context.rs:38):
\* when the trampoline calls the entry point.
EntryStackAligned == at = "trampoline" => Len(stack[rsp]) % 2 = 0
=============================================================================
