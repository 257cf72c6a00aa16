----------------------------- MODULE CpuTables -----------------------------
(***************************************************************************)
(* The descriptor tables (kernel/spectre-kernel/src/arch/gdt.rs, idt.rs)   *)
(* and what the processor does with them: events delivered through gates,  *)
(* on the current stack or one of the TSS, and SYSRET.  The code that      *)
(* fills the tables in is not in the tree, so they are filled in any order *)
(* and events may arrive at any moment.                                    *)
(*                                                                         *)
(* A descriptor is a record of its bits.  Addresses are numbers below      *)
(* Word^4, which a gate keeps in fields of one, one and two words.         *)
(***************************************************************************)
EXTENDS Integers, Sequences, FiniteSets

CONSTANTS
    Vectors,     \* the vectors that occur, #DF and #GP among them
    HandlerOf,   \* the address of the handler of each
    Word,        \* 2^16
    Stacks       \* tops of the stacks the TSS may get

ASSUME CpuTablesAssumption ==
    /\ Vectors \subseteq 0 .. 255 /\ {8, 13} \subseteq Vectors /\ Word \in Nat \ {0, 1}
    /\ HandlerOf \in [Vectors -> 0 .. Word * Word * Word * Word - 1]
    /\ 0 \notin Stacks

VARIABLES
    gdt, layout,   \* GdtBuilder.entries up to len; GdtLayout, or NoLayout
    ist,           \* Tss.interrupt_stack_table
    gates,         \* Idt.gates
    checked,       \* missing_exception_vectors was asked, and none was missing
    event          \* the event delivered last, and what came of it

tableVars == <<gdt, layout, ist, gates, checked, event>>

Breakpoint == 3
DoubleFault == 8
GeneralProtection == 13
FirstDevice == 32

IsAbort(v) == v \in {8, 18}

NoEvent == [vector |-> -1, source |-> "none", stack |-> "good", outcome |-> "none", ran |-> 0]

-----------------------------------------------------------------------------
(* GDT *)

Segment(dpl, executable) == [kind |-> IF executable THEN "code" ELSE "data",
                             dpl |-> dpl, long |-> executable]
TssLow == [kind |-> "tss", dpl |-> 0, long |-> FALSE]
TssHigh == [kind |-> "tss high", dpl |-> 0, long |-> FALSE]
Null == [kind |-> "null", dpl |-> 0, long |-> FALSE]

GdtCapacity == 8
Selector(index, rpl) == 8 * index + rpl
Offset(selector) == selector - (selector % 8)
Descriptor(selector) == gdt[Offset(selector) \div 8 + 1]

\* The pushes of build, behind the null descriptor.
GdtEntries ==
    <<Null, Segment(0, TRUE), Segment(0, FALSE), Segment(3, FALSE), Segment(3, TRUE),
      TssLow, TssHigh>>

\* SYSRET counts from the kernel data segment, the last pushed when it is set.
SysretBase == 3 * 8 - 8

NoLayout == [kernelCode |-> 0, kernelData |-> 0, userData |-> 0, userCode |-> 0,
             tss |-> 0, sysretBase |-> 0]

\* validate: user data, then user code.
Validate(l) == /\ Offset(l.userData) = l.sysretBase + 8
               /\ Offset(l.userCode) = l.sysretBase + 16

BuildGdt ==
    LET l == [kernelCode |-> Selector(1, 0), kernelData |-> Selector(2, 0),
              userData |-> Selector(3, 3), userCode |-> Selector(4, 3),
              tss |-> Selector(5, 0), sysretBase |-> SysretBase]
    IN  /\ layout = NoLayout
        /\ Len(GdtEntries) <= GdtCapacity /\ Validate(l)
        /\ gdt' = GdtEntries /\ layout' = l
        /\ UNCHANGED <<ist, gates, checked, event>>

-----------------------------------------------------------------------------
(* TSS and IDT *)

\* set_ist: indices 1 to 7; anything else is refused.
SetIst(i, top) ==
    /\ i \in 1 .. 7
    /\ ist' = [ist EXCEPT ![i] = top]
    /\ UNCHANGED <<gdt, layout, gates, checked, event>>

Missing == [present |-> FALSE, low |-> 0, mid |-> 0, high |-> 0, dpl |-> 0,
            ist |-> 0, kind |-> "Interrupt"]

\* Mutation of Gate: the middle field takes the low word again.
Gate_MidIsLow(a, kind, dpl, i) ==
    [present |-> TRUE, low |-> a % Word, mid |-> a % Word,
     high |-> a \div (Word * Word), dpl |-> dpl, ist |-> i, kind |-> kind]

\* GateDescriptor::new splits the address over three fields ...
Gate(a, kind, dpl, i) ==
    [present |-> TRUE, low |-> a % Word, mid |-> (a \div Word) % Word,
     high |-> a \div (Word * Word), dpl |-> dpl, ist |-> i, kind |-> kind]

\* ... and handler_address, like the processor, puts it together again.
HandlerAddress(g) == g.low + Word * g.mid + Word * Word * g.high

Install(v, g) == /\ gates' = [gates EXCEPT ![v] = g]
                 /\ UNCHANGED <<gdt, layout, ist, checked, event>>

SetHandler(v, i) == Install(v, Gate(HandlerOf[v], "Interrupt", 0, i))

\* Only #BP may be given to user space.
SetUserInvokable(v) == v = Breakpoint /\ Install(v, Gate(HandlerOf[v], "Trap", 3, 0))

SetDeviceHandler(v) == v >= FirstDevice /\ SetHandler(v, 0)

Reserved == {9, 15} \cup 22 .. 27 \cup 29 .. 31

\* Mutation of MissingExceptionVectors: the aborts are not asked for.
MissingExceptionVectors_NoAborts ==
    {v \in Vectors : v < 32 /\ v \notin Reserved /\ ~IsAbort(v) /\ ~gates[v].present}

MissingExceptionVectors ==
    {v \in Vectors : v < 32 /\ v \notin Reserved /\ ~gates[v].present}

Check == /\ MissingExceptionVectors = {}
         /\ checked' = TRUE
         /\ UNCHANGED <<gdt, layout, ist, gates, event>>

-----------------------------------------------------------------------------
(* Delivery *)

\* A gate can be entered: it is there, the caller may use it, and there is a
\* stack to push the frame on.
StackFor(g, stack) == IF g.ist = 0 THEN stack = "good" ELSE ist[g.ist] # 0
Enters(v, source, stack) ==
    /\ gates[v].present
    /\ source = "user" => gates[v].dpl = 3
    /\ StackFor(gates[v], stack)

\* A failed delivery raises #GP, or #PF if it was the stack; a second failure
\* is a double fault, and a third resets the machine.
Second(v, source, stack) ==
    IF gates[v].present /\ ~StackFor(gates[v], stack) THEN DoubleFault
    ELSE GeneralProtection

Deliver(v, source, stack) ==
    LET second == Second(v, source, stack)
        ran == IF Enters(v, source, stack) THEN v
               ELSE IF Enters(second, "cpu", stack) THEN second
               ELSE IF Enters(DoubleFault, "cpu", stack) THEN DoubleFault
               ELSE -1
    IN  /\ event' = [vector |-> v, source |-> source, stack |-> stack,
                     outcome |-> IF ran = -1 THEN "triple fault" ELSE "handled",
                     ran |-> IF ran = -1 THEN 0 ELSE HandlerAddress(gates[ran])]
        /\ UNCHANGED <<gdt, layout, ist, gates, checked>>

TablesInit ==
    /\ gdt = <<Null>> /\ layout = NoLayout /\ ist = [i \in 1 .. 7 |-> 0]
    /\ gates = [v \in Vectors |-> Missing] /\ checked = FALSE /\ event = NoEvent

TablesNext ==
    \/ BuildGdt \/ Check
    \/ \E i \in 1 .. 1, top \in Stacks : SetIst(i, top)
    \/ \E v \in Vectors : \/ \E i \in {0, 1} : SetHandler(v, i)
                          \/ SetUserInvokable(v) \/ SetDeviceHandler(v)
    \/ \E v \in Vectors, source \in {"user", "cpu"}, stack \in {"good", "overflowed"} :
           Deliver(v, source, stack)

TablesSpec == TablesInit /\ [][TablesNext]_tableVars

-----------------------------------------------------------------------------
(* Properties *)

\* SYSRET, which computes its selectors, loads a ring 3 data and a ring 3 long
\* mode code segment, and the two halves of the TSS are neighbours.
SysretLoadsUserSegments ==
    layout # NoLayout =>
        /\ Descriptor(layout.sysretBase + 8) = Segment(3, FALSE)
        /\ Descriptor(layout.sysretBase + 16) = Segment(3, TRUE)
        /\ Descriptor(layout.kernelCode) = Segment(0, TRUE)
        /\ Descriptor(layout.tss) = TssLow /\ Descriptor(layout.tss + 8) = TssHigh

DoubleFaultHasStack ==
    gates[DoubleFault].present => StackFor(gates[DoubleFault], "overflowed")

\* Once no exception vector is missing and #DF's gate has a stack of its own, no event
\* resets the machine, not even on an overflowed stack (idt.rs:280-282,
\* gdt.rs:33-43).
NoTripleFault ==
    [][ checked /\ DoubleFaultHasStack => event'.outcome = "handled" ]_event

\* User code reaches the breakpoint handler and no other: int N on any other
\* vector runs the handler of a fault the processor raised for it
\* (idt.rs:243-245), and every handler runs at the address it was installed at.
UserReachesOnlyBreakpoint ==
    event.outcome = "handled" =>
        LET faults == {HandlerOf[GeneralProtection], HandlerOf[DoubleFault]}
        IN  \/ event.ran \in faults
            \/ /\ event.ran = HandlerOf[event.vector]
               /\ event.source = "user" => event.vector = Breakpoint

\* User code enters the kernel by the breakpoint gate alone and leaves it into
\* its own segments.
PrivilegesHold == UserReachesOnlyBreakpoint /\ SysretLoadsUserSegments
=============================================================================
