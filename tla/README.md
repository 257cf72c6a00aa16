# A TLA+ model of WhisezOS

WhisezOS is a capability-based microkernel (`kernel/spectre-kernel`), a UEFI loader (`boot/spectre-boot`), a file
system layout (`fs/spectrefs`) and a few user-space programs, in Rust. Little of it runs outside host unit tests,
which drive one function at a time from one thread. What the tests hardly reach is what this project is about:
processors that interleave inside `ipc.rs` and `sched.rs`, a game that dies while Game Mode is being entered, chains of
insertions and revocations, key rotations that overtake the sweep, power that fails in the middle of a commit or of a
boot, windows whose animations interrupt each other, files that change under the guard that reads them.

Paths below are relative to `src/`; `ipc.rs`, `cap.rs`, `sched.rs`, `gamemode.rs` and `vault.rs` are in
`kernel/spectre-kernel/src/`.

- [1. The system](#1-the-system)
- [2. What is modelled](#2-what-is-modelled)
- [3. Module by module](#3-module-by-module)
- [4. Proofs](#4-proofs)
- [5. Divergences between code and text](#5-divergences-between-code-and-text)
- [6. Limits](#6-limits)
- [7. Plan](#7-plan)

To repeat a run: `tlc -config MCKeys.cfg MCKeys`. To repeat the proofs: `tlapm KeysProofs.tla`. `PROJECT.json` maps
every definition to the lines it stands for.

## 1. The system

### Components, their state and operations

| Component | State | Operations | What makes it correct |
|---|---|---|---|
| Endpoints (`ipc.rs`) | `EndpointState`, `send_queue`, `traffic`; per thread a buffer, a hand-off partner, a reply | `call`, `receive`, `reply` | a call is executed by one server and answered once; the message received is the one sent; no lost wake-up; deadlines hold |
| Ports (`ipc.rs`) | a ring, `head`, `tail`, `dropped` | `post`, `try_recv`, `take_drop_count` | nothing overwritten, skipped or lost without being counted; a post never blocks |
| Capabilities (`cap.rs`) | tokens; an open-addressed table per process | `mint`, `derive`, `insert`, `lookup`, `revoke_object` | rights never grow; what is held is found; a revocation takes only its object away |
| Real-time admission (`sched.rs`) | `RT_UTILISATION_PPM` | `admit_realtime`, `release_realtime` | the total is what was granted and at most the ceiling; no refusal that the total did not justify |
| Run queues (`sched.rs`) | real-time, interactive and background queues, a class affinity | `enqueue`, `pick`, `pick_next`, hand-off and wake-up | a thread runs once at a time, is not lost, deadlines first; an isolated core runs its owner only |
| Game Mode (`gamemode.rs`) | `ACTIVE`, `ISOLATED_MASK`, `OWNER_PID`; flags in `vault` and `sched` | `enter`, `leave`, `watchdog_tick`, `isolated_owner` | entirely on or entirely off; core 0 stays; the cores come back when the game dies |
| Vault (`vault.rs`) | per arena two keys, an epoch, a count of stale pages; `SWEEPS_DEFERRED` | `seal_page`, `open_page`, `rotate`, `sweep_step`, `transfer_pages`, fault verdicts | a page opens under the key that sealed it or not at all; the count is right; a deferral holds and ends |
| Frame allocator (`arch/frame.rs`) | a bitmap, a hint, counters | `add_region`, `reserve_region`, `alloc`, `alloc_contiguous`, `free` | a frame has one owner; counters are exact; reserved frames stay reserved |
| Page tables (`arch/paging.rs`, `arch/addr.rs`) | tables in frames | `map_page`, `unmap_page`, `translate` | `translate` returns what was mapped; a failed mapping leaves the others alone |
| Context switch (`arch/context.rs`, `context.S`) | a stack per thread, saved registers, CR3 | `bootstrap`, the switch, the trampoline | a thread comes back as it left, in its own address space; the ABI's alignment |
| Descriptor tables (`arch/gdt.rs`, `idt.rs`) | the GDT and its layout, the IST, the gates | `GdtBuilder`, `set_ist`, `set_handler` and its kin, `missing_exception_vectors` | no event resets a machine whose tables passed the check; user code enters by `#BP` only |
| Serial console and panic path (`arch/serial.rs`, `lib.rs`) | the chip's registers, the text being printed | `init`, printing, the panic handler | the line runs at its rate; a panic scrubs the keys whatever the console does |
| SpectreFS (`layout.rs`) | four uberblock slots, block trees, snapshots | `next_slot`, `select_newest_valid`, `locate_block`, `prune_plan` | the acknowledged version survives a power failure whole, older ones to fall back to; pruning keeps the newest of its classes |
| Prism (`wm.rs`, `anim.rs`, `main.rs`) | per window a life-cycle state and a transition; a quality tier; the recent render times | `request`, `tick`, `reap`; `record`; the frame loop | a window is in the state it animates and is released after it closed; one hitch costs one tier; the estimate follows a regression |
| Start menu (`startmenu.rs`) | a selected category, an orientation | `step`, `select`, `tick` | geometry of a dodecahedron |
| SpectreShield (`heuristic.rs`) | score, history, credited combinations | `observe`, `decay`, `verdict` | a combination counts once; scores fall over time |
| WinBridge (`pe.rs`) | the headers read so far | `parse` | no page mapped twice, nothing outside the file or the image, whatever the sums come to |
| Loader (`boot/spectre-boot`) | TPM registers, sealed keys, the volume key | audit memory, verify and measure images, unlock, hand off | nothing is unlocked before all is verified; keys are wiped before anything is drawn; a boot ends |
| Boot screens (`demo.rs`, `glitch.rs`) | view, selection, cursor, what is painted | the preview's loop | the screen shows the state the loop is in |
| Whisez Guard (`whisez-guard/src/main.rs`) | a baseline file | create, verify, monitor, scan | what is reported is true, and all of it is reported, though files change meanwhile |
| `xtask`, `verify` | none | build; host stand-ins | not part of the running system |

### How they interact

- `call` and `receive` donate pages through `vault::transfer_pages`, deliver capabilities to another process's
  `CapSet`, and switch threads through `sched::{switch_to_donating, wake_donating, block, block_until}`.
- `gamemode::enter` and `leave` store the deferral flag of `vault` and the affinity of `sched`; `sched::pick_next`
  asks `gamemode::isolated_owner`; the idle loop runs `vault::sweep_step`; the tick runs `watchdog_tick`.
- Shared state without a lock: the ring of a port, `RT_UTILISATION_PPM`, the three atomics of Game Mode and the flags
  it sets, and the wait between dropping an endpoint's locks and blocking.
- The loader's audit and attestation decide whether `unlock_root_volume` runs; a panic in the kernel ends in
  `vault::scrub_all_keys`; the compositor's frame loop drains input, ticks windows, renders and records the cost.
- `thread`, `percpu`, `net`, `gpu`, `compact` and `notify` are called and exist nowhere in the tree. What a module
  assumes of them is what their callers assume, and marked external in `PROJECT.json`.

### What is hard

`PROJECT.json` lists the hazards line by line. They are of seven sorts: two locks taken one after the other (endpoint);
loads and stores with nothing around them (port, Game Mode, admission, `pick_next`); a thread that blocks after it has let
go of what protected it (endpoint, with timers on top); indices, counts and shares at their limits (port, vault,
admission, core masks, indirection, header fields); sequences of legal calls (capability sets, rotations, allocation
and mapping, windows, scores); power, a TPM, an SMBus or a transmitter that stops half-way (SpectreFS, loader,
console); and files that change between two looks at them (guard).

## 2. What is modelled

| Module | Models | Extended or instantiated by |
|---|---|---|
| `Rendezvous` | what an endpoint promises | `Endpoint` |
| `Endpoint` | `Endpoint::{call, receive, reply}` with the scheduler's entry points | `MCEndpoint`, `EndpointProofs` |
| `NotificationChannel` | what a port promises | `Port` |
| `Port` | `Port::{post, try_recv, take_drop_count}` | `MCKernel`, `KernelObjectProofs` |
| `CapSet` | `Capability` and `CapSet` | `MCKernel`, `KernelObjectProofs` |
| `AdmissionControl` | what real-time admission promises | `RtAdmission` |
| `RtAdmission` | `admit_realtime`, `release_realtime` | `MCKernel`, `KernelObjectProofs` |
| `Dispatch` | the run queues and `pick_next`, with `isolated_owner`, donation and slices | `MCMachine`, `ProcessorProofs` |
| `ContextSwitch` | `Context::bootstrap`, the switch, the trampoline | `MCMachine`, `ProcessorProofs` |
| `CpuTables` | GDT, IST, gates, and the delivery of events through them | `MCMachine`, `ProcessorProofs` |
| `GameMode` | `enter`, `leave`, `watchdog_tick`, core allocation | `MCKeys`, `KeysProofs` |
| `Vault` | one arena: pages, keys, rotation, sweep, deferral | `MCKeys`, `KeysProofs` |
| `Boot` | the loader: audit, attestation, unlock, halts | `MCKeys`, `KeysProofs` |
| `Serial` | the console's `init`, printing, panic | `MCKeys` |
| `FrameAllocator` | regions, reservation, `alloc`, `alloc_contiguous`, `free` | `PageTables` |
| `AddressSpace` | what page tables promise | `PageTables` |
| `PageTables` | `map_page`, `unmap_page`, `translate`, with tables from the `FrameAllocator` | `MCKernel`, `MemoryProofs` |
| `Volume` | what a SpectreFS volume promises | `SpectreFS` |
| `SpectreFS` | commit, snapshots, pruning, power loss, mount | `MCMachine`, `SpectreFSProofs` |
| `FileTree` | `locate_block` under a growing file | `MCMachine`, `SpectreFSProofs` |
| `Compositor` | windows, the frame loop, the frame budget | `MCUserland`, `UserlandProofs` |
| `RenderEstimator` | the percentile of render times | `MCUserland`, `UserlandProofs` |
| `Heuristic` | `observe` with decay, discounts and combinations | `MCUserland`, `UserlandProofs` |
| `Guard` | baseline, verify, monitor, scan | `MCUserland`, `UserlandProofs` |
| `PeImage` | the validation in `parse` | `MCUserland`, `UserlandProofs` |
| `DesktopPreview` | the desktop loop of `demo.rs` | `MCUserland`, `UserlandProofs` |
| `Induction` | least numbers, induction and recursive functions over numbers, division, sums over finite sets | the proof modules |

A definition named `X_...` directly before `X`, commented "Mutation of X", is a bug one could make in `X`. It is used
by no specification: it records that the property it is paired with in `PROJECT.json` notices the bug.

`MCKernel`, `MCKeys`, `MCMachine` and `MCUserland` hold several parts that share no state. A behaviour of theirs is
one of a single part, chosen at the start by the variable `unit`; the others keep one initial state, and each part has the
fairness that its module states. `GameMode` and `Vault` are two parts and not a composition: what connects them is the one
flag `SWEEPS_DEFERRED`, which either may set at any time in the `Vault` module. `Dispatch` has the session of Game Mode
reduced to the stores its reader sees. `PageTables` composes with `FrameAllocator`.

Passing runs:

| Run | Instance | Distinct states | Question |
|---|---|---|---|
| `endpoint` | 2 callers, one of them with deadlines, 2 servers, queue of 2, 2 calls each, grant, foreign and oversized messages, fair | 546 221 | with a caller that gives up and receivers that race, is each call of the patient one served once, is a direct hand-off intact and answered, does a sleeper's deadline end its call, is the rendezvous implemented? |
| `kernel` | capabilities: 2 processes, 2 objects, 2 entries, 3 handles; port: 3 slots, indices modulo 6, 8 posts; admission: 3 threads, 5 requests; memory: 8 frames, 5 of them usable, 16 pages in 4 levels of tables, another user of frames | 186 241 | no amplification and exact tables; does the ring keep its promise across a wrap; is admission atomic; has every frame one use, do searches find what is free, does mapping never replace? |
| `keys` | vault: 3 pages, 2 sweepers, 2 rotations; Game Mode: 1 compositor, 2 games, 8 cores; boot: 2 slots, 2 images, 1 power failure; console: 8 rates | 157 150 | are keys where they should be and nowhere else, and do boots, sweeps, recoveries and panics end? |
| `machine` | dispatch: 2 processors, 4 threads, hand-offs to one of them; switch: 3 threads in 2 address spaces; tables: 5 vectors; disk: 4 slots, 3 blocks, 5 transactions, a class of one snapshot; a file over 5 levels of fan-out 2 | 782 511 | are turns and isolation kept, does a thread resume where it left, does no event reset the machine, does a mount find a whole volume, does a file read back? |
| `userland` | 2 windows, 3 requests, 1 hitch; 64 samples; 5 observations; 2 files, 3 changes; 2 sections of 4-bit fields; 1 pointer | 914 009 | do windows settle, do quality and estimates react as said, does the score count once and enough, are reports true, are images sound, is the screen current? |

Runs whose expected outcome is a counterexample (section 5): `endpoint_stale`, `capset_survive`, `rt_overflow`, `core_fraction`,
`dispatch_refused`, `context_aligned`, `uberblock_torn`. Each takes an instance above and differs from it in what the flaw needs: a request
too large for the arithmetic, ten cores for eight, a drive that tears records.

## 3. Module by module

### Endpoint

*State.* `state`, `sendQueue` and `traffic` are the fields of `Endpoint`. `pc`, `runnable`, `target`, `partner`,
`sender`, `buf` and `replied` are the threads': the place in `ipc.rs`, whether the scheduler may run the thread, the
local variables `receiver` and `sender`, and the external services `handoff_partner`, the message buffer and
`reply_status`. A message is the number of the call that staged it and the kind of pages it donates.

*Steps.* A step is what a thread does between two points where another processor can interfere. `call` decides with
the state lock held (the queue lock is taken inside), so its decision is one step: `CallFast`, `CallQueued`,
`CallOverflow`. `receive` takes the locks in turn: `ReceivePop` or `ReceiveEmpty`, then `AnnounceReceiver`. Blocking
happens after the locks are gone: `BlockReceiver`, `BlockSender`, `Switch`. A caller with a deadline arms its timer (`ArmTimeout`) and blocks
(`BlockSender`) in two steps, as `block_until` does; the timer fires any time after the first (`Expire`) and wakes a thread that may not be
blocked yet, which then sleeps all the same. A woken caller leaves with its reply (`CollectReply`) or, if its timer has fired, without (`TimedOut`),
and nothing takes it out of the queue. A commit moves the donated pages or fails (`CommitQueued`, `CommitRefused`,
`CommitHandoff`). Servers reply once to whom they received.

*Safety.* All of it is about the `Patient` callers, those that pass no deadline, beside callers that time out while they are queued, held by a
server or being answered, call again, and stand in the queue twice. `SenderStillCalling` says that such a sender in a server's hands
is still inside the call that was received, `HandoffIntact`
that a receiver wakes up with the right partner and a fresh message. `QueuedOnce`, `OneServerPerCaller` and `AnnouncedIsFree` are
what they rest on: one place and one server for each caller, and a fast path that finds a receiver without a partner.
`ImplementsRendezvous` is a refinement: a patient caller is matched with one server, answered by it, and returns `Ok` only after that. Of a
caller that uses deadlines none of this holds: it may be received after it left, by two servers, and its next call may be answered with
the reply to the last (section 5).

*Liveness.* `HandoffAnswered`: once the receiver sleeps, a direct hand-off of pages that can move ends with an answer; it too is about
patient callers, because one that gave up earlier and is still held by a server can be answered in the wrong call.
`SleeperGivesUp`: a caller that is asleep when its timer fires leaves, also when its answer came before it slept and its wake-up was lost. It says nothing
of a timer that fires before the caller sleeps, which loses the deadline. Fairness is weak, per thread: the scheduler runs every
runnable thread, timers fire, and a server loops over `receive` and `reply`; nobody has to make a call. `HandoffAnswered` is not
stated of a receiver that has announced itself and is not yet asleep: the caller may switch to it first, and then it
goes to sleep with nobody to wake it.

*Bounds.* Two servers are needed for one to overwrite the other's announcement, two callers for one to be
queued while another is handed over and for a patient one beside one that gives up, two calls for a late reply to meet the next call.

### Port

Every access to `head`, `tail`, `dropped` and a slot is a step; `Width` stands for 2^32 and is a multiple of `Slots` as in
the code. `Distance` is `wrapping_sub`. `DeliversOrCounts` joins the count of what was posted, received, queued and dropped
(`NothingLostSilently`) with `EventuallyReceived` (the poster finishes a post it began, and the receiver polls);
`ImplementsChannel` is the refinement to a bounded queue that turns a notification down only when it is full (`dropping`), counts it once
(`lost`), and tells the receiver of the whole count once (`told`, the sum of what `take_drop_count` returned). Eight posts wrap
an index modulo 6 at every fill of the ring. A port's `waiter` is stored by no code, so the wake-up in `post` never happens and is
left out. With two posters the port loses notifications (section 5), so the run has one, and the theorems assume one.
The drop count is not cut to 32 bits.

### CapSet

A token is its handle with the object, the rights and the token it descends from. `Probe` is the sequence of positions
`insert` and `lookup` look at; `Insert` refuses a full table, otherwise takes the first empty entry or stops at
the same handle, as the code does; `RevokeObject` empties entries wherever they are. `NoAmplification` is over chains of
derivations and deliveries between processes; `LenIsExact` is what keeps `insert` from looping for ever; `HeldIsFound`
says that a process from which nothing is ever revoked finds everything it has, once. Two entries and
three handles, two of which start at the same entry, give collisions, wrapping probes and full tables.

### RtAdmission

One step per atomic access. A spurious failure of `compare_exchange_weak` is a step that changes nothing but the local
`current`. Widths are parameters: `Requested` saturates at the 64-bit maximum and is then cut to 32 bits, `Release`
wraps. `Share` is the parts per million that a budget and a period stand for, with nothing cut. `ImplementsAdmissionControl` is about
shares: the loop is atomic and the total is what the threads hold; a refusal is
decided when the total was last read, a grant when it is replaced. It holds where `Requested` is the `Share` (`RequestsFit`), which the code
does not see to; the requests of `kernel` satisfy it, and include one for more than a processor and one without a period. `rt_overflow`
adds one whose share does not fit the total's width, and the sum of the shares exceeds the ceiling (`SharesUnderCeiling`).

### Dispatch

*State.* The queues are sequences in the order of the code; `pc`, `running` and `owner` are where each processor stands in
`pick_next` and the local it has read; `active`, `mask` and `ownerPid` are the atomics of Game Mode, and `session` the stores its
`enter` or `leave` has still to make. `lost`, `steady` and `spent` are histories: the threads a pick took and nobody runs,
whether the session has held since this pick found no real-time thread, and the time used since the last pick. `astray` has the
threads that run by a hand-off which met a thread that was not blocked.

*Steps.* `pick_next` holds no lock over its whole run: the real-time queue, `LoadActive`, `LoadMask`, `LoadOwner`, then one of
`PickIsolated`, `PickInteractive` and `PickBackground`. A thread runs (`Consume`), blocks, or hands its processor to another
with what is left of its slice (`SwitchToDonating`, past every queue). As in the code nothing asks whether the target is blocked: a
receiver announces itself before it is (ipc.rs:191-192), and a caller on another processor may hand over in between. The code that stores a background thread's lag is not in
the tree and follows `eevdf_update_lag`.

*Properties.* `TurnsAreKept`: no queue holds a thread twice, nobody in a queue is overtaken by a thread that came later with the same or a
later deadline, and of the threads that are not astray, one that runs is in one place, and a chain of donations keeps a processor
no longer than the slice it began with. A thread that is astray does run twice or waits in a queue while it runs (section 5). `IsolatedCoreRefuses`: a pick
during which the session holds gives an isolated core to the game only, though the three atomics are read one by one. Nothing is
said of a pick during which a session begins or ends, because `isolated_owner` may then answer either way. `RefusedStaysQueued` is
what the comment promises and the run `dispatch_refused` refutes.

*Bounds.* One processor is isolatable and one is not; each class has a thread, the interactive class one of the game and one that is
not; two deadlines give equals and an order; a slice of one unit is spent or not. Hand-offs go to one thread (`Called`),
which is blocked, queued, running or lost when they do. `MaxDebt` keeps the lag finite.

### ContextSwitch

A stack is the sequence of the quadwords pushed on it, so that alignment is the parity of its length. `SwitchSaves`, `SwitchSpace` and
`SwitchRestores` are the three parts of `context.S`: pushes on the old stack, CR3 if it changes, pops from the new one.
`ResumesWhereItLeft` compares the registers, the stack and CR3 of a thread that comes back with those it went in with, and a new
thread with what `bootstrap` was given. `EntryStackAligned` is refuted by `context_aligned`. Three threads, two of one address
space, are needed for CR3 to be kept, changed and changed back.

### CpuTables

`BuildGdt`, `SetIst` and the installers of gates fill the tables in any order, because the code that does is not in the tree, and events
arrive at any moment from user code or the processor, on a good stack or an overflowed one. `Deliver` is the processor's rule: the
gate, the privilege, the stack; then #GP, then #DF, then a reset. `NoTripleFault` is stated for tables that
`missing_exception_vectors` has passed and that gave #DF a stack of its own: the audit asks for gates and not for stacks.
`PrivilegesHold` has user code enter by the breakpoint gate only, handlers run at the address they were installed at, and
SYSRET load user segments. Words of one bit make every field of an address count.

### GameMode

`enter`, `leave` and the watchdog decide (`EnterGranted`, `LeaveGranted`, `WatchdogJudges`) and then work through the list of
their stores (`EnterStores`, `ClearStores`), one a step, in the order of the code. Refused calls change nothing and are left
out. `AllocatePhysicalCores` is the loop over cores from the top, with siblings. A game may die at any time. A recovery
may overlap an entry: the game died and the watchdog has cleared `ACTIVE`, then the compositor, seeing it clear,
enters again while the watchdog is still clearing; or the game dies while `enter` is still storing. `crossed` remembers that
this happened; of `SessionSound`, `AnnouncedIsDescribed` and `AllOrNothing` are stated of behaviours where it did not (section 5
says what happens where it did), `IsolationBounded` of all of them: core 0 and its sibling stay, physical cores are given whole, and no more
than `MaxCores`. It needs a topology in which pairs and fraction go together (`PairsFit`), which the eight cores of `keys`, the example of
gamemode.rs:52-56, have; on ten cores in pairs `core_fraction` refutes the fraction (`FractionHolds`). `CoresComeBack` assumes that the
tick handler runs and that a manager finishes a call it began.

One compositor thread holds the capability by default (gamemode.rs:4-6). With two managers two sessions can both pass
the check of `ACTIVE`, and no property above would hold.

### Vault

A key is the number of its derivation, a sealed page the epoch its owner remembers with the key that made it. `open_page`
tries the key of that epoch (`KeyFor`), and succeeds if it is the right one. `Rotate` drops the older key whether or not pages
need it, with any number of resident pages, as the caller passes it. `sweep_step` reads the deferral flag before the lock:
`SweepAllowed` and `SweepStep` are two steps. It subtracts from the count and re-encrypts nothing, in the code and here.
`OpensDuringRotation`: a page opens under the current key, and under the previous one while the rotation that replaced it is under
way (`stale > 0`); no page is tried under a key but its own. Nothing is said of the previous key after the sweep, which still
opens pages, nor of pages two rotations old, which do not open any more: in both the code departs from its comments (section 5).
`FailsOnlyWhenScrubbed`, which is proved, says that no others fail. `SweepsStopOrFinish` joins
`DeferralHolds`, which bounds what is swept after a deferral by one chunk per processor, with `SweepCompletes`, which needs an
idle loop that keeps running, and no new rotation or deferral. Two rotations are what it takes to lose a key, two sweepers one more than
it takes to subtract from a stale count.

### Boot

*Steps.* `ProbeSlot` for each SPD address, `AuditMemory`, `LoadSignedManifest`, then `ReadAndVerify` and `Measure` for each image,
`UnlockRootVolume`, `BootKernel`; on a failed image `WipeSealedKeys`, then the screen and the halt. Any SMBus read may time
out, the TPM may begin to refuse at any time, and power may be cut between any two steps (`Restart` clears what is volatile).
A digest identifies its contents. Memory is in MiB.

*Properties.* `KeysGuarded`: the volume key is in memory only in a boot that saw every listed image pass under a genuine manifest; the
tamper screen appears after the sealed keys are gone, unless the TPM failed; the PCRs are the boot that was made.
`BootsAreSound`: a machine whose firmware keeps no more than the tolerance is not taken for one that hides memory, whichever reads
time out, and every boot comes to the kernel or a halt.

*Bounds.* Two slots and three kinds of module (one the loader does not know) give totals on either side of the map; two images give
a failure after one that passed; one power failure may hit every step, and the second would find the same persistent state.

### Serial

The chip has DLAB and loopback as the code switches them, may be absent, and its transmitter may stall for ever. `InitProgram` is the
list of register writes of `init`; `Divisor` and `ErrorPermille` are the integer arithmetic. A panic may come at any point,
also inside `init`, and prints without a lock. `ConsoleHolds`: after a successful `init` the line runs within 3 % of the rate asked
for and carries nothing but text, and a panic ends with the keys scrubbed. The rates are those that divide the clock exactly,
badly, not at all, and the boundaries of zero and of the clock.

### Memory

`FrameAllocator` has the bitmap as the set `taken`, `used` and `hint`; `withheld`, `reserved` and `runs` record what the boot code
and the holders did. Every method takes `&mut self` and is one step. `NextFree` is the frame that the two passes of `alloc` come
to, `Candidate` the place where the loop of `alloc_contiguous` ends, with its jump past a used frame as in the code. The boot
code is not in the tree; it is taken to add regions first and to reserve all it reserves before anybody allocates.

`PageTables` extends it. `map_page` walks one level a step (`MapDescend`, `MapGrow`, `MapRefused`, `MapSet`), because the frame of a
missing table comes from an allocator that others use between two levels, and may be refused there. `LeafPlace` is the walk that
`translate` and `unmap_page` share, as a recursive function over tables and levels; `Span`, the number of pages an entry covers,
is one over levels. Entries keep the flags that `validate` and `intermediate` look at.

`FramesAccounted` relates the bitmap, the count, the regions, the holders and the tables; `TablesLinked` says that no table is
leaked or shared; `ReservedWithheld` is about bytes, not frames, so that the rounding counts; `SearchesComplete` compares the two
searches with what is free. `ImplementsAddressSpace` says that an address space changes only by whole mappings, where nothing was
mapped. The instance has usable regions that overlap and end inside pages, a reserved region across a page boundary in both, words
of two bits, and five usable frames for up to five tables and a holder, so that mappings run out of frames at every level. In
this instance no free frame ever lies before the hint's word, so that the second pass of `alloc` finds nothing: the hint rotates
in name only.

### SpectreFS and FileTree

*State.* `slot` and `block` are the platter, `cached` the drive's cache, `cur` the mounted uberblock and `next` the one under way. A
tree is its root block, a block is the transaction that wrote it.

*Steps.* `BeginWrite`, `BeginSnapshot` and `BeginPrune` prepare the next uberblock; `Flush`, `Publish` and `Acknowledge` follow the
protocol of layout.rs:24-31, because the writer is not in the tree. A power loss keeps any part of the cache and tears the
uberblock after any of its fields (`Torn`); `Mount` is `select_newest_valid` over what is left.

*Properties.* `MountReadsBack`: whatever the instant, the uberblock a mount would choose has a tree and snapshots that read back what
was written for them. `FallbacksRemain`: three slots hold the last three versions in a row. `PruneKeepsNewest` is about
`prune_plan` when its list is full; a snapshot is dated by its transaction, so that no two of a class are equally old. `ImplementsVolume`: a mount
finds the acknowledged version or the one under way, never a mixture.

*The hash and the drive.* `Blake3` is a parameter, and every run gives it `StandIn`, the hash of layout.rs:382-386, which is zero for anything.
So `machine` has a drive that writes a record whole or not at all (`Tears = FALSE`), the "atomic" update that layout.rs:26-27 makes the
condition, and that does what it says it has flushed (`FlushLies = FALSE`). `uberblock_torn` has a drive that tears records, as
layout.rs:44-47 and 136-137 expect, and mounts a torn one. With `FlushLies = TRUE` TLC finds `MountReadsBack` violated after one
commit and a power loss; `select_newest_valid` does not look at `object_root`, although its comment says so (section 5).

`FileReadsBack` grows a file through all five levels of `locate_block`.

*Bounds.* Five transactions reuse a slot of four; three blocks are reused once a pruned snapshot lets go of one; a limit of one
snapshot and a list of one make the plan overflow. A fan-out of two crosses every boundary of `locate_block` after 42 blocks.

### Compositor and RenderEstimator

A frame is the input, drained one request at a time; the tick of every window; then a skip, or the reap and the render, which
records its cost. Durations and curves are left out: any animation may be over at the next tick. `WindowsSettle`: however requests
interrupt animations, a window is in the state it animates or has no animation, and a window that closes is released. A request may ask for
any state that `request` accepts, `Gone` too: such a window is gone without an animation, and on a desktop where nothing moves no frame
is drawn that would reap it (section 5). `discarded` has those windows, and the property lets them, and no others, wait. This
needs the loop to turn (weak fairness of a frame) and an animation to run its time: a window that is animated at infinitely
many frames completes (strong fairness, because input may start other animations first). `OneHitchOneTier`: one long frame
stays in the average for many frames and costs one tier. Two windows let one keep the desktop awake or not; three requests interrupt
an animation twice; `RecoveryFrames` is 20 instead of 120, the cooldown is that of the code.

`RegressionSeen`: slow frames in a row are in the estimate as soon as they outnumber the five percent it leaves out and a
recomputation is due, wherever in the ring they begin, and one slow frame never is. The ring has 64 slots instead of 256; the
recomputation every 16 frames is the code's.

### Heuristic

`Observe` is the whole of `observe`: the decay, the clearing of credits when it reaches zero, the weight less the role's discount, the
history, the combinations and both saturating sums. `HalfMinute` is 30 s in units of the clock, by which the windows and the half-life divide: one in the
instance, 30 000 in the code. `BonusesAreRight`: the score
never exceeds what was observed since it was zero and one bonus for each combination credited; and the ransomware shape puts a
process to the user for every role that is not spared the writes. Repertoires of one combination each, with pauses of none, 90 s and a
half-life, make it complete before and after decay; five observations complete the longer one and repeat one behaviour, and the largest
score is 150, so that one can saturate.

### Guard

A baseline, a verification and a scan walk the paths in order; the look at a file's metadata and the reading of its contents are separate steps, and
other programs change, remove and restore files between them; so are the verification's `exists` and its `metadata`. Reading one file is one step: its digest is that of the
contents at one moment. A scan reads as much as the metadata said, and no more than `MAX_SCAN_BYTES`: contents are where in them their
indicators end (`Ends`), and those within the limit count. The monitor is a verification after a verification. `ReportsHold`: a file called unchanged had the
baseline's digest at some moment of the verification, a reported one was touched since the baseline was begun, every file is in one
of the two; and a scan reports every file that was suspicious all the while within the shortest length it had meanwhile, because of a file that
grows only so much is read (section 5). The model is stated of commands that end without
an I/O error; one that meets an error ends the command (`Fails`), the monitor too (section 5). Two files and three changes let
one change between each pair of steps and change back.

### PeImage

`ParseHeaders`, one `ReadSection` per section, `CheckNoOverlap`. Fields are words of `Width` bits and sums are made in a wider
one, as in the code; the run uses four bits, alignments that are and are not powers of two, and offsets at both ends of the
range, so that a sum in the field's own width would wrap. `PagesMappedOnce`: an accepted image whose section alignment is a multiple of the
hardware's page (`PageSize`, two in the run) maps no page twice, and every accepted image copies only bytes of
the file to bytes of the image, and has its write-and-execute sections on record.

### DesktopPreview

One turn of the loop: at most one key, every pointer, the click, the paint. The video memory is the view last painted whole and the
cursors painted since. `ScreenIsCurrent`: between two turns it shows the view the loop is in with one cursor where it is, whichever of
keys, pointers and buttons came together. A small screen has the geometry of the code, with the cards and the button within a few
movements.

## 4. Proofs

TLC checks the instances above; `tlapm` proves the following for every value of the constants, from nothing but the
named assumptions on the constants and the hypotheses stated.

| Theorem | Says | By |
|---|---|---|
| `EndpointTypeOK`, `EndpointOneServerPerCaller`, `EndpointSenderStillCalling`, `EndpointHandoffIntact` | the safety properties of patient callers beside any that use deadlines, for any number of callers and servers and any queue | `EndpointInv` |
| `EndpointImplementsRendezvous` | the initial states and every step of the endpoint map to the rendezvous of its patient callers | `EndpointInv` |
| `CapSetTypeOK`, `CapSetLenIsExact`, `CapSetNoAmplification`, `CapSetHeldIsFound` | for any tables, objects and rights | conjuncts that are inductive |
| `PortNothingLost`, `PortImplementsChannel` | the initial states and every step of a port with one poster map to a bounded queue, for any size of the ring that divides the range of its indices | `PortInv` |
| `RtTotalIsSum`, `RtImplementsAdmission` | the total is the sum of what was added; and if `RequestsFit`, the initial states and every step of the admissions map to atomic admission of shares, for any finite set of threads and any ceiling | `RtInv` |
| `VaultTypeOK`, `VaultOpensDuringRotation`, `VaultFailsOnlyWhenScrubbed` | for any number of pages, sweepers and rotations | `KeysInv` |
| `BootKeysGuarded` | for any images, modules and number of power failures | `BootInv` |
| `SessionKeepsCoreZero` | for any topology, games and managers: core 0 stays, and at most one core more than the fraction is isolated | `MasksInv` |
| `SessionIsolationBounded` | for any topology with `PairsFit`, games and managers | `MasksInv` |
| `SessionIsSound` | for any topology with `PairsFit` and games, one manager | `MasksInv`, `SessionInv` |
| `MemoryTypeOK`, `MemoryFramesAccounted`, `MemoryReservedWithheld` | for any memory, regions, page size, levels and requests | `MemoryInv`, `ReservedInv` |
| `MemorySearchesComplete` | for any bitmap, hint, length and alignment | the recursion of each search |
| `MemoryTablesFormATree`, `MemoryTablesLinked` | for any fan-out, four or five levels, any requests | `TreeInv` |
| `MemoryImplementsAddressSpace` | the initial states and every step of the page tables map to the address space | `MemoryInv`, `TreeInv` |
| `DispatchIsolatedCoreRefuses`, `DispatchTurnsAreKept` | for any processors, threads, queues, deadlines, sessions and targets of hand-offs | `SteadyInv`, `TurnInv` |
| `SwitchResumesWhereItLeft` | for any threads and address spaces | `SwitchInv` |
| `CpuTablesPrivilegesHold`, `CpuTablesNoTripleFault` | for any vectors, handlers, stacks and order of installation | `TablesInv` |
| `SpectreFSMountReadsBack`, `SpectreFSFallbacksRemain`, `SpectreFSTornWriteDetected`, `SpectreFSImplementsVolume` | for any slots, blocks, snapshots, limits and transactions, and a `Reliable` drive | `VolumeInv` |
| `SpectreFSPruneKeepsNewest` | for any classes, limits and capacity of the plan, and a `Reliable` drive | `VolumeInv`, `PruneInv` |
| `FileTreeReadsBack` | for any fan-out and any number of direct pointers | `FileInv` |
| `GuardReportsHold` | for any paths, contents and changes | `GuardInv` |
| `PePagesMappedOnce` | for any width, page size, header and number of sections | `PeInv` |
| `PreviewScreenIsCurrent` | for any screen, cards and pointers | `PreviewInv` |
| `EstimatorRegressionSeen` | for any window of samples and period of recomputation | `EstimatorInv` |
| `CompositorOneHitchOneTier` | for any costs and cooldown, if the cooldown covers the settling time | `BudgetInv` |
| `CompositorAnimatesItsState` | for any windows and requests | `WindowInv` |
| `ScoreBonusesAreRight` | for any clock, repertoires, pauses, size of the history and largest score of at least 110 | `ProfileInv` |

*Endpoint.* None of the properties is inductive. `HeldInv` needs to know that a sender in a server's hands is not in the
queue any more and, if it was handed over, that it was handed to this server; `QueueInv` that nobody in the queue has
an answer; `WakeInv` that a caller without a timer is woken by an answer only, which is why all this is said of `Patient` callers; `StagedInv` that the message of a hand-off in progress is fresh and its receiver still free;
`WokenInv` that a woken receiver and its caller agree. `EndpointInv` is their conjunction with `AnnouncedIsFree`. The
proof has a lemma for each action and each conjunct the action can disturb. Callers with deadlines take part in every step and are said
little of: that a queue and a server's hands hold callers, and that a receiver on the fast path has no other partner. The refinement uses the
invariant twice: `Match` needs a caller nobody serves, `Answer` that the caller served is waiting.

*CapSet.* `LenIsExact` goes through the cardinalities of the entries added and emptied; `NoAmplification` through the root
of each token: `derive` gives the child the root of its parent. An insertion fills an empty entry. A probe that found its handle
passed only occupied entries, so it finds it still, and the new handle goes where its own probe first met an empty one; a second
copy would need a handle that is in the table and not found. `HeldIsFound` is inductive with the types; a revocation only touches
processes it says nothing of.

*Port.* `PortInv` says that what the poster loaded is still the head (`PostInv`: it alone moves it), that the ring is never overfull and holds notifications
from tail to head (`RingInv`), and that posts add up (`CountInv`). That the indices wrap is arithmetic: `DistanceMoves` says that their distance counts
across the end, `EntryOfHead` and `EntryAfter` that the entry of an index depends on the distance from the tail only, which needs the size of the ring to divide
the range of the indices, and `EntriesDiffer` that a write meets no entry that is in use. A step of the abstract queue is then the load of tail that
decides a drop, the store of head, the store of tail and the reading of the count; every other step is a stutter.

*Admission.* `RtInv` says that the total is the sum of the shares of those who hold one. An exchange that succeeds adds the share to the very total
it was weighed against (`FitsUnderCeiling`: below the ceiling nothing saturates, which needs the ceiling to be below the largest 32-bit number), and
`fetch_sub` does not wrap because the share is part of the sum. A load or a failed exchange decides a refusal: if the share does not fit the total just
read, it does not fit the sum granted at that moment, and that is `Refuse`; otherwise the step is a stutter. `RtInv` speaks of the numbers the code
adds and needs no hypothesis; that these are the shares is `RequestsFit`.

*Vault.* `KeysInv` says that the two live keys are those of the current epoch and of the one before, and that a page's epoch
names its key: a page is tried under its own key or under none. That a page which failed to open stays lost follows because epochs only grow.

*Boot.* `Progress` says which images have passed at each place, `Measured` which are in the PCRs, `Wiped` that the seal is gone from
`WipeSealedKeys` on. `Measured` is stated for any place in the manifest and used at two: before and after the image at hand.
Because `Restart` clears all that is volatile, the invariant holds across any number of power failures.

*Game Mode.* What a manager is about to store is as bounded as what is stored (`MasksInv`); the bounds on a granted mask are
inductions over the cores the allocation loop passes: one for any topology (`Bounded`), one where `PairsFit` (`Tight`): there the loop takes whole pairs,
never sees that of core 0, and stops at an even number. `SessionInv` describes a session by what is left of a list of stores:
`Entered` gives the state when an entry has made its stores before the i-th, `Past` that an actor which cleans up has made the
k-th, and what it has passed is off even if another cleans up beside it. An entry that no recovery crosses meets no cleaner, which
is where `crossed` comes in. The hypothesis `Managers = {m}` says that calls are made by one thread, as when one thread of
the compositor holds the capability (gamemode.rs:4-6); the watchdog and the deaths of games interleave with it freely. With two managers
the property fails (section 3).

*Memory: frames.* A walk stays inside the tables because tables have levels: `Levelled` says that there is an assignment in which the root has
the highest, an entry that is no leaf leads one level down, and the walk stands at its table's level. With it the account of frames
is inductive: a step moves a free frame to a holder or a table, or a holder's frames back, and the cardinalities follow. For reserved
regions `OutsideCovers` shows that outward rounding covers every byte, for any page size.

*Memory: searches.* `Candidate` is a recursive function, the loop's next position from its present one, and `SearchRecursion` gives its
equation. An induction from the end of the region down shows that the search stops at the first position where a run fits: the jump past
a used frame passes over no run, because each run that begins before that frame contains it.

*Memory: the tree.* `Levelled` is too weak for the rest: it lets two entries lead to one table. `Tree(lev, pre)` gives each table a level and
a prefix, the part of an address that is common to the pages below it. The root has the empty prefix (`RootOnTop`); an entry that is no leaf
leads to a table one level down whose prefix is longer by that entry's index (`LinksDescend`); each other table is led to (`Parents`); level and prefix
identify a table (`Distinct`); every leaf was asked for at its place (`LeavesAsked`); and a walk stands on its page's path (`WalkFits`). `MapGrow` is the
step that matters: the new table gets the prefix of its entry, and nobody has that prefix yet, because a table that did would have
a parent with the prefix of the one that grows, which by `Distinct` is this one, in the entry that is empty. That prefixes add up to addresses is arithmetic of
division (`SpanUnfolds`, `DivDiv`, `PlaceValue`). `TablesLinked` follows by the bijection between the entries that lead on and the tables other than the root.

*Memory: the address space.* `HitIsFound` and `FoundIsHit` say that `translate` of a page finds a leaf if and only if one lies on the page's path, and
by `Distinct` and the levels there is one at most. So setting a leaf changes what `translate` says of the pages that share the entry's prefix, all of which
were unmapped, as the walk that got there passed no leaf: that is `Map`. Clearing it is `Unmap`; a new table, empty as it is, and everything
the allocator does are stutters.

*Dispatch.* `IsolatedCoreRefuses` is about one step, the pick; `SteadyInv` is about the way to it: as long as the session has held since
the pick began, each of the three loads finds what leads to the next, and a pick behind the third has the game as its owner.
A step of another processor or of the session can only end `steady`. `TurnsAreKept` rests on three invariants: queues are sorted by deadline and
hold a thread once and in its class (`QueuesInv`); who runs is in no queue and on one processor (`RunningInv`); what a processor spent and what
its thread has left make at most a slice (`SliceInv`). The last two are about threads that are not astray; a hand-off to a blocked thread by one of them keeps its
target among them. Insertion behind equal deadlines and removal from the middle keep the order of
the others: the overtaking clause compares positions before and after.

*Context switch.* `SwitchInv` says which threads are parked: a parked thread's stack ends in the block that `SwitchRestores` pops and is otherwise
what it went in with, and between save and restore nobody runs. `ResumesWhereItLeft` is then the fact that pops return what was pushed.

*Descriptor tables.* A present gate carries its vector's handler in three fields, whose words add up to the address (`WordsOf`), and only #BP's has a
privilege of three (`GatesInv`); gates are never removed, so what the audit saw stays (`CheckedInv`); the GDT is the one that was built
(`LayoutInv`). The three levels of `Deliver` then end at #DF at the latest.

*SpectreFS.* `VolumeInv` has what is on the platter and where the writer stands. `Ring`: a valid slot holds a version whose number has the slot's residue, and
a checksum without its version, which is what a torn write leaves, is of a version already overtaken. `Rotation`: one slot fewer than there
are hold versions in a row up to the one acknowledged. `Intact`: what a valid slot points to reads back. `DifferentHomes` is why the
slot that is overwritten belongs to none of these; `TornIsInvalid` that a torn uberblock is the old one, the new one or invalid; `CacheLands`
that what the drive's cache may or may not write is a block no version points to. The hypothesis is `Reliable`: the drive has done what it
acknowledged (`~FlushLies`), and either it writes an uberblock whole or not at all, or `NoCollisions`: different versions
have different digests, and none the value of a blank slot. The first alternative says nothing of the hash and covers the stand-in in the tree; the second is
what the code will have once the hash is one. `SpectreFSTornWriteDetected` is the step of the refinement seen from the disk: power lost in the middle of a
record leaves the old version the newest, or the new one.

*Guard.* `Untouched` says that what was read of a path nobody touched is what the path still has, through the baseline, the metadata and
the contents; `Written` how long the baseline is; `Verified` that each path before the current one is in exactly one of the lists;
`Scanned` that the suspicious ones were found; `Measured`, that the length which limits the reading is one the file has had. That the lists make up all paths needs that paths do not repeat.

*PeImage.* `PageBounds` places the pages of a section between its first and its last by division, with pages of the alignment; where that is a multiple of the hardware's page, so are their boundaries, and `SharedPageOverlaps` shows that two
sections with a page in common overlap once they are aligned, which `CheckNoOverlap` refuses. That powers of two are positive
integers is stated in `PeAssumption`, because the prover knows no powers; TLC evaluates it.

*Preview.* `PreviewInv` says at each step of a turn which cursors are painted and whether what was painted last is what the state says, unless a repaint is due.

*Estimator.* `Behind(idx, n)` are the n places of the ring before the next one, across its end. The last `streak` of them are slow, so that as many
samples are slow as frames were; and if the streak was longer than what the percentile leaves out (`LeftOut`) at the last recomputation,
the cached value is slow.

*Pruning.* The plan is closed downward: with a snapshot it has every older one of its class, because fewer are pushed before that one
and more newer ones stay (`PlanIsDownward`). So what stays of a class is newer than what goes, and behind the newest that goes are as many as the limit,
none of which goes (`PlanKeeps`). The theorem is about what was told from one acknowledgement or mount to the next, across power failures: `PruneInv` says that
what is under way and what a mount would find keep the newest of what was told last. Beginnings establish it; every other step only moves versions,
which is what the refinement of `Volume` shows, step by step, and `MovesKeep` uses.

*Files.* A path names one block: reading its indices back as digits, one level after the other, gives the block's number (`Origin`,
`PathIsOwn`), so that two blocks never share a place. The digits are quotients and remainders of one number by powers of the fan-out;
that dividing twice is dividing by the product (`DivDiv`) makes them meet.

*Frame budget.* After a hitch the average is at most what `Settling` says for the frames since then, and the cooldown counts those frames: by its end
the average is back under the threshold, and no second tier is shed. That the cooldown is long enough for that is a relation between four
constants, the hypothesis `HitchSettles`; TLC evaluates it for those of the run, which has the cooldown and the average of the code.

*Behaviour score.* That a bonus counts once is `BonusOnce`, inductive with sums over disjoint sets (`SumOfUnion`): what fires was not credited before. That the
ransomware shape suffices needs to know what is left of weights that have decayed since, one step at a time, each rounded. `StillWeighs` bounds the score from
below by the weights of a write and of a destroyed snapshot of the last 90 s, each less a twentieth for every 30 s. One decay of many
takes no more than that linear share (`AfterDecay`: what it takes is a twentieth of a score that may be above these weights, but then what is left is above them,
too), and rounding is in favour of the score. Of 47, seventeen twentieths are 39.95, so that an integer score is 40, and the bonus of 70 makes 110.

*Windows.* `WindowInv` adds to `AnimatesItsState` that only animated windows have an animation that is over. A window whose closing ends is drawn in that frame,
which is why only those asked to be gone are ever seen gone.

*Induction.* The library's induction theorems take a predicate, which the provers cannot instantiate. `Induction` has set forms of what is
needed: a nonempty set of naturals has a least element, a set with zero and successors has all naturals, a function defined by recursion
downwards or upwards over an interval exists and satisfies its equation. Each is proved from the library's well-founded induction. The community modules'
sum over a set is a recursive function that removes a chosen element at each step: that it exists follows by induction on cardinality (`SumExists`), and that
any element may be taken out first (`SumWithout`) by another, and that it splits over disjoint sets (`SumOfUnion`) by a third. What the proofs need of division, `SpectreFSProofs` and `MemoryProofs` share.

Only model-checked:

- Liveness under fairness, which is out of the prover's reach: `HandoffAnswered`, `SleeperGivesUp`, `SweepsStopOrFinish`, `CoresComeBack`,
  `BootsAreSound`, `ConsoleHolds`, the second half of `WindowsSettle`, and that of `DeliversOrCounts`, an accepted notification being received
  in the end.

## 5. Divergences between code and text

Shown by a run (`findings` in `PROJECT.json` quotes the text):

- `endpoint_stale`: the slow path of `call` never stages its message; the receiver commits what the caller staged last.
- `capset_survive`: revoking one object breaks the probe of a token of another.
- `rt_overflow`: the share that `admit_realtime` books is cut to 32 bits (sched.rs:182), so that a request for more than a whole
  processor is granted as next to nothing, and the shares granted exceed the 0.7 of sched.rs:13-14.
- `core_fraction`: of ten cores in pairs Game Mode isolates eight, more than the three quarters of gamemode.rs:52-56.
- `dispatch_refused`: an isolated core takes a thread off the queue, finds that it must not run it, and drops it.
- `context_aligned`: the trampoline calls a new thread's entry point with a stack 8 below a multiple of 16.
- `uberblock_torn`: the hash of layout.rs:382-386 is a stand-in that gives 32 zero bytes for anything, so that a torn uberblock is
  mounted, with a tree or snapshots of another version.

Met while modelling, without a run of their own. Kernel:

- A caller that queues itself between `receive`'s look at the queue (ipc.rs:189) and its announcement (ipc.rs:191) wakes
  nobody, and the receiver parks beside it; ipc.rs:154 has the caller wait "until a receiver shows up".
- A receiver announces itself (ipc.rs:191) before it is blocked (ipc.rs:192), and a caller between queueing itself (ipc.rs:158) and blocking
  (ipc.rs:163-166) may be received and answered. Neither `switch_to_donating` nor `wake_donating` (sched.rs:330-342) asks whether its target
  is blocked: a thread can so be run by two processors, and a wake-up that comes before the target blocks is lost.
- A timer that fires between `arm_timeout` and `mark_blocked` (sched.rs:389-390) wakes a thread that is not blocked; the thread then sleeps past
  its deadline.
- A sender that timed out stays in `send_queue` (ipc.rs:164), and may be received and answered after it left; the answer may be to
  its next call. TLC finds `HandoffAnswered` violated for callers that use deadlines. The fast path looks at no deadline at all (ipc.rs:143).
- A full ring drops the new notification (ipc.rs:271-274); ipc.rs:19-21 says the oldest, because the newest is the most valuable.
- An inline payload above `INLINE_MAX` is refused only without pages (ipc.rs:132-137); with pages, or in a reply, the copy into
  the buffer (ipc.rs:328) panics.
- On four cores Game Mode may isolate core 1, the sibling of core 0 that gamemode.rs:114 leaves free.
- The watchdog notices a game that died, not one that "hangs" (gamemode.rs:178).
- `isolated_owner` (gamemode.rs:202-212) may combine the mask of one session with the owner of none.
- The previous key is not "scrubbed once the sweep completes" (vault.rs:96-97) but at the next rotation: it opens pages outside
  a rotation, when "only the current one" is valid (vault.rs:218-219).
- A page that stays sealed through two rotations is lost, which vault.rs:225-226 calls "a bug in the sweep accounting": the sweep only
  counts, and re-encrypts nothing.
- A granted share of pages is checked against a rotation in flight, and mapped after the lock is gone (vault.rs:328-331).
- A table that `map_page` creates for a kernel mapping lacks `USER` (arch/paging.rs:396), and is not widened when a user page is mapped
  below it, although intermediate entries "carry the union of what any leaf beneath them might need" (paging.rs:146-147).
- `AlreadyMapped` is documented as "Target virtual address already has a mapping" (paging.rs:69-70), but a large page is refused with
  it wherever an empty table is left: `unmap_page` frees no table.
- `Fragmented.largest_run` (arch/frame.rs:44-47) is the longest run seen before a used frame by one search, not the largest there is.
- `add_region` makes frames available again that `reserve_region` marked as "permanently reserved" (frame.rs:130).
- A post interrupted by a post that loaded the same head (ipc.rs:261) overwrites its slot (ipc.rs:268) and nothing counts the
  loss; ipc.rs:232 has a nonzero drop count mean missed events.
- A recovery that overlaps `enter` runs before `defer_sweeps(true)` (gamemode.rs:135) and leaves the sweeps suspended when no game
  runs. `SessionSound` says nothing of such behaviours.

Loader, file system and programs:

- `select_newest_valid` is to verify "the reachability of `object_root`", so that a volume mounts on drives that lie about flush
  (layout.rs:147-152, and 29-31); the code (layout.rs:153-161) looks at magic, version and checksum only. On such a drive it chooses the newest
  uberblock although its tree never reached the platter, with any hash.
- `NoModulesDetected` means that "No SPD EEPROM answered" (spd.rs:82), but a module of an unknown kind or density, or one whose reads
  time out half-way, answered and is not in the list either.
- The ranks of a DDR5 module are not read, and its capacity is that of one rank (spd.rs); DDR4's density codes 8 and 9 are
  taken for 16 and 32 Gb, which JEDEC assigns to 6 and 7 (8 and 9 are 12 and 24 Gb).
- The images that are verified are not handed to `boot_kernel` (spectre-boot/src/main.rs:72-91), which gets the memory and the key.
- A window that `request` makes `Gone` (wm.rs:123) has no animation, so that its `tick` asks for no frame (wm.rs:190-192), and on an idle
  desktop it is not reaped "on the next frame" (wm.rs:25-26) but when something else is drawn, perhaps never.
- Alignments below the hardware's page are accepted (pe.rs:232-237), so that two sections with different protections may share such a page, which
  pe.rs:323-326 says is rejected: `check_no_overlap` aligns to what the header says.
- A scan reads no more of a file than its length was at the earlier look (whisez-guard/src/main.rs:410-413), so that a file that grows in between is
  inspected in part, and what the rest has is not reported.
- Reduced motion, which "must be honoured unconditionally" (userland/prism/src/main.rs:49-51), is a quality tier that
  120 cheap frames raise again (userland/prism/src/anim.rs:328-332).
- The ransomware combination is to be decisive on its own after discounts (heuristic.rs:132-136); a `Compiler` or an `EncryptionTool`
  that shows it at the end of its window comes to 109 of 110.
- Decay halves whole periods and then takes a linear share of the rest (heuristic.rs:310-313), rounded down, so that a small score
  observed often does not decay at all; and "once per window" (heuristic.rs:112) is once until the score is zero.
- `ACTIVE_ALERTS` (heuristic.rs:425) is read and never counted up.
- The monitor of the guard, which "Ctrl+C stops" (whisez-guard/src/main.rs:57), also stops at the first file that vanishes between two
  looks at it.

## 6. Limits

- Memory is sequentially consistent: acquire and release pairs are taken to order what they are there to order.
- Message bytes, labels, masks as words, floating-point ratios, curves, pixels and device profiles are abstracted as each module's
  header says. Capabilities are checked where a refusal has an effect (`CallRefused`).
- Servers are well behaved: they reply once, to the sender they hold. Nothing in the kernel enforces it.
- A sweep, a hand-off partner, a delivery of capabilities, a live process, the writer of SpectreFS, the SMBus and the TPM are what
  their callers take them for; those definitions are marked external.
- Each part is checked alone where `unit` separates it. Nothing that two of those parts share is lost by it except the flag of
  `Vault` and the atomics of Game Mode, which their readers' modules let change at any time.
- `prune_plan` gathers the snapshots of a class in a vector of 128 (`layout.rs:366`), and collecting more than it holds panics;
  the model's `PrunePlan` has no such limit, so what it says holds while no class has more.
- Nothing is said of a drive that lies about flush: `MountReadsBack` is false of it, and no change of the model but the check of
  layout.rs:147-152 would make it true. A hash that tells uberblocks apart is what the other half of `Reliable` stands for.
- The status light of the desktop preview (demo.rs:379-388), which is painted into the same video memory every so many turns, is left out of
  `DesktopPreview`.

Not modelled: the start menu (floating-point geometry and one index), drawing and the boot animation (pixels), the command lines and
output formats, `xtask` and `verify` (compilation and host stand-ins), and the services the kernel calls that are declared nowhere
in the tree. Partly modelled: `Vault` without `transfer_pages`' mappings and the fault verdict, which act on process and page tables that
are not in the tree; `Serial` without decimal formatting and the read side no code calls; `PeImage` without import parsing and mapping,
which other code would do; `Guard` without the queries to the host's shell.

## 7. Plan

What is left, in order:

1. What an endpoint promises to callers that use a deadline, beyond `SleeperGivesUp`: as the code stands, at most that the queue and the
   servers hold callers. It becomes worth stating once a sender that gives up leaves the queue.
2. `GameMode` and `Dispatch` in one instance, with two games after each other, so that `isolated_owner` reads the mask of one session
   and the owner of the next.
3. `transfer_pages` once the process table it maps into is in the tree.
