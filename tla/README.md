# TLA+ models of yakvm

yakvm is a small virtual machine monitor for AMD-V: a Linux kernel module
(`driver/`) that creates virtual machines and virtual cpus and switches a
processor into a guest, and a user space emulator (`tool/`) that loads a guest
image, runs it and emulates two byte-wide devices. This directory holds TLA+
models of it, the TLC runs that check them on small instances and the TLAPS
proofs that hold for every instance.

## Inventory

| part | code | state | operations |
| --- | --- | --- | --- |
| module load and unload | `driver/main.c` | `yakvm_status`, `/dev/yakvm`, `EFER.SVME` of every processor | `yakvm_init`, `yakvm_exit`, `YAKVM_CREATE_VM` |
| vm | `driver/vm.c` | `struct vm`: `refcount`, `lock`, `vcpu`, `vmm`; its file | create, `YAKVM_CREATE_VCPU`, `YAKVM_MMAP_PAGE`, mmap and page fault, release |
| vcpu | `driver/cpu.c` | `struct vcpu`: six allocations, `vm`, `lock`, guest and host context, state page; the ASID counter; its file | create, `YAKVM_RUN`, `YAKVM_GET_REGS`, `YAKVM_SET_REGS`, mmap of the state page, release |
| world switch | `driver/cpu.c`, `driver/vcpu_run.S` | registers, GIF and `MSR_VM_HSAVE_PA` of the processor | `yakvm_vcpu_run`, `_yakvm_vcpu_run` |
| nested page tables | `driver/memory.c`, `include/memory.h` | four levels of tables per vm | `yakvm_create_vmm`, `yakvm_vmm_npt_create`, `yakvm_destroy_vmm` |
| emulator | `tool/emulator.c`, `tool/cpu.c`, `tool/memory.c` | descriptors, mapping of guest memory, `cpu.mode` | set-up, run loop, exit handling, tear-down |
| devices | `tool/devices.c` | `PIO_HAWK`, `MMIO_HAWK` | get and set |
| guest | `tool/guest.c` | its registers and memory | port and mmio accesses, `hlt` |
| command line, test, build | `tool/arguments.c`, `test.py`, `Makefile` | | |

How the parts interact:

* A process opens `/dev/yakvm`, creates a vm through it and a vcpu through the
  vm; every object is the `private_data` of a file, and the kernel calls
  `->release` when nothing refers to that file. The vcpu points back to its vm
  and holds a reference to it; the vm points to its one vcpu and frees it.
* `YAKVM_MMAP_PAGE` and the fault handler of a mapping of the vm's file both
  walk the nested page table and allocate what is missing. The processor walks
  the same table on behalf of the guest.
* `YAKVM_RUN` enters the guest and, after `#VMEXIT`, copies the exit to the
  state page, which the emulator has mapped.

What is hard here. Nothing limits how many threads use a descriptor, and a
descriptor is usable by other threads before the ioctl that made it returns;
`vm->lock` protects one field, `vcpu->lock` the vcpu's registers, and nothing
the page table. Every creation has several steps that can fail. The world
switch depends on state of the processor, not of the thread, so it depends on
where the scheduler and interrupts can get in. The hazards are listed with
their lines in `PROJECT.json`.

What makes each part correct:

* lifetime: nothing is used after it is freed, nothing is leaked, the counts are
  exact, a vm has one usable vcpu and keeps it, guests have different ASIDs,
  handlers return and abandoned vms go away;
* page tables: the tables stay a forest of pages in use even under racing
  walks, page references balance, guests are isolated, different frames are
  different pages, the mmio frame traps, user space sees what the guest has;
* world switch: host state comes back to its thread, a vcpu's hsave page is used
  by one processor, registers are never torn, the state page is current, an
  ioctl returns;
* load and unload: no vcpu runs before SVM is enabled, translations of an old
  guest are not met by a new one;
* emulator with guest: an instruction of the guest takes effect once, however
  many exits it needs; the guest program reaches `hlt`; whatever fails, nothing
  stays open, the exit status says so and the vm goes away.

## Modules

| module | models | checked by |
| --- | --- | --- |
| `VmContract` | what the driver promises to the holders of its files | |
| `VmLifetime` | creation, publication, references, unwinding and release of vms and vcpus; the ASID counter | `MCVmLifetime` |
| `VmLifetimeProofs` | proofs of the safety properties of `VmLifetime` | tlapm |
| `VmContractProofs` | proof that `VmLifetime` implements `VmContract` | tlapm |
| `GuestMemory` | what the page tables promise: a memory per vm | |
| `NestedPaging` | the nested page tables, `YAKVM_MMAP_PAGE`, the fault handler | `MCNestedPaging` |
| `NestedPagingProofs` | proofs of what holds under unlocked walks | tlapm |
| `SequentialPagingProofs` | proofs of what holds with one thread per vm, and that `NestedPaging` then implements `GuestMemory` | tlapm |
| `VcpuRun` | the ioctls of a vcpu and the world switch | `MCVcpuRun` |
| `VcpuRunProofs` | proofs of the safety properties of `VcpuRun` | tlapm |
| `Vmcb` | the control block: intercepts and exit codes | `MCEmulator` |
| `Driver` | loading and unloading of the module, ASIDs and TLBs, over `VmContract` and `GuestMemory` | `MCDriver` |
| `DriverProofs` | proofs of the safety properties of `Driver` | tlapm |
| `GuestMachine` | what a guest believes to run on | |
| `Guest` | guest programs and their images | `MCEmulator` |
| `Emulator` | the emulator with its guest, over `VmContract` and `Vmcb` | `MCEmulator` |
| `EmulatorProofs` | proofs of the safety properties of `Emulator`, and that it implements `GuestMachine` | tlapm |

How they build on each other: `VmContract`, `GuestMemory` and `GuestMachine` are
abstract specifications. `VmLifetime` implements the first, `NestedPaging` the
second and `Emulator` the third (properties `ImplementsContract`,
`ImplementsMemory`, `ImplementsMachine`, each an `INSTANCE` with a refinement
mapping). In turn `Driver` conjoins its steps with those of `VmContract` and
`GuestMemory`, and `Emulator` with those of `VmContract`, instead of repeating
how the driver does it.

Definitions carry the names of the functions they model, and `PROJECT.json`
maps each to its lines. A definition whose comment begins with "Mutant" is a
wrong version of the definition after it; replacing the one by the other makes
TLC report a violation of the property `PROJECT.json` pairs it with.

### VmLifetime

State: which vm structs are allocated (`vmLive`), `refcount`, `vcpu` and `lock`
of each; which of the six allocations of each vcpu are in place (`parts`),
`vmOf` for `vcpu->vm` and `asidOf`; the file of each object, as whether it
exists, whether a descriptor and whether a mapping refers to it; and for each
thread its place in a handler and the handler's locals. Vms and vcpus are
addresses, and are reused once freed, so a stale pointer would meet a new
object.

`yakvm_create_vm()` touches nothing shared before its descriptor is installed
and is two steps. `YAKVM_CREATE_VCPU` is one step for each of: an allocation
(that may fail, with the unwinding of the labels), `yakvm_vcpu_init_vmcb()`, the
lock, the test of `vm->vcpu`, the store, `yakvm_get_vm()`, `anon_inode_getfd()`,
and each part of the error path. `->release` is enabled once the file has
neither descriptor, mapping nor running handler; the kernel guarantees that
much, and nothing more is assumed of it. A failed `assert()` is `panic()`
(`include/yakvm.h`): afterwards nothing moves.

### NestedPaging

State: reference count, level and entries of every page; `ncr3` of each vm; the
page that each frame's user mapping shows; for each thread the locals of
`yakvm_vmm_npt_create()`. The walk takes no lock. A turn of its loop that finds
the entry is one step; one that does not is two, the load and, after the
allocation, the store, which does not look at the entry again. The three
callers, `yakvm_create_vmm()` for the mmio frame, `YAKVM_MMAP_PAGE` and the
fault handler, do what they do with the page the walk ends at.

The processor's own walk is the operator `Translate`. `stranded` is a history
variable: the pages that the error path of `yakvm_create_vmm()` leaves behind
because it frees the PML4 table only. Contents of guest pages are left out.
`pgoff` is where the user mapping of a vm's file starts, by `mmap()` at an offset
or after `munmap()` of its head; the fault handler does not look at it.

The memory of `GuestMemory` is `Translate`, for the vms whose creation has
returned. With two threads on one vm `NestedPaging` does not implement it: the
store that overwrites an entry changes the page behind a frame (`npt_lost_page`).

### VcpuRun

State: what a vcpu keeps (`gctx`, the vmcb's save area and exit, `hctx`, the
host vmcb, the hsave page, the state page, the lock), and what a processor has
(registers, `MSR_VM_HSAVE_PA`, GIF, the guest it runs, the thread it runs). The
registers are three groups, after who switches them: those `vcpu_run.S` moves,
one by one, since it does not save all of the host's; those vmrun and
`#VMEXIT` exchange; those vmsave and vmload move. Host values are named after
their thread. Each statement of `yakvm_vcpu_run()` is a step, and between any
two steps `sched` may take the processor away or move the thread, unless
preemption is off or GIF is clear. `cs` is kept apart, because
`struct registers` has 16 bits for it.

### Driver

State: where `yakvm_init()` or `yakvm_exit()` is, `yakvm_status`, whether
`/dev/yakvm` exists; which processors are online, which have `EFER.SVME` and which
have yet to be interrupted by `on_each_cpu()`; the processes that have the device
open; the vms, vcpus and files of `VmContract` and the memory of `GuestMemory`;
the ASID counter, the ASID of each vcpu, and what every processor has cached for
every ASID and frame. A vm belongs to a process of the same name, because what
matters here is who can still call into the module. Open files do not keep the
module, since the `file_operations` have no owner: `stale` are the processes whose
files were open when the module was freed, and whatever such a process calls, then
or after the next `insmod`, ends the kernel (`call_unloaded`, `crashed`), as do a
failed assertion and an SVM instruction without `EFER.SVME`. Every
`YAKVM_CREATE_VCPU` that gets as far as `yakvm_vcpu_init_vmcb()` takes an ASID,
whether it succeeds or is refused or fails later (`create_vcpu_fails`).
`orderly` is a history variable that no action looks at: nobody has opened the
device while `yakvm_init()` was still at work, and no processor has come online
between its `on_each_cpu()` and the end of `rmmod`.
`MaxLoads` bounds how often the module is loaded.

A run of the guest either hits the TLB or fills it from the page table; nothing
ever removes an entry, as the driver never sets `tlb_ctl`. That the page table is
the one of `GuestMemory` means one thread at a time: the race of `npt_lost_page`
could also leave an overwritten entry in a TLB.

### Vmcb, Guest, GuestMachine, Emulator

`Emulator` is one process: `pc` is the place in `main()`, the functions it calls
being inlined; `fds` and `maps` are what it has open, `ret` and `mode` its
locals, `regs` the `struct registers` of a handler between `YAKVM_GET_REGS` and
`YAKVM_SET_REGS`. Each system call is a step that may fail (`MayFail`), every
jump of the error paths is there, and so is the kernel's part: `->release` when a
file has neither descriptor nor mapping left, and the end of the process, which
closes everything, by `return`, by a failed assertion, or because it is killed
at any point. `faults` is a history variable.

Guests are sequences of instructions with their lengths; `Image` places them by
offset, `entry` is `tool/guest.c`. The address constants are those of the
Makefile. `ConstantsAssumption` says what every image has in common: code lies in
one segment of 64K, a loop goes back within it, `mov` fills 16 bits, and the two
accesses to the mmio device are the three-byte ones of `guest.h`, which is the
length the handler adds to `rip`. `mapped` are the guest's pages in the nested page table: those the
image was read to, those `YAKVM_MMAP_PAGE` added, and those the emulator itself
touches to log an opcode. With TF set and `#DB` intercepted a run is one
instruction, or the part of it that a missing page or an intercept allows; which
exits there are follows from the vmcb that `yakvm_vcpu_init_vmcb()` filled in
(module `Vmcb`), where an intercept is a bit of a word and an exit code a number.
`EXITINFO1` is an encoded integer that the `svm_ioio_` functions take apart.
Two instructions stand for what the emulator does not expect: `vmrun`, which is
intercepted and whose exit the handler refuses, and a triple fault, which the
driver does not intercept: it shuts the processor down (`shutdown`), and the host
with it.
`rax` has 16 bits, so that there is something above `al`; devices have 8.

When memory runs out in `YAKVM_CREATE_VCPU` the driver returns a piece of a
pointer, and `create_vcpu` has what libc and the emulator
make of it. An image that reaches beyond the mapping makes `read()` stop short or
write to whatever is mapped behind it (`overrun`, after which nothing is said).
The memory error of a page fault shows as a short `read()`.

`GuestMachine` is a processor without exits and the two devices of
`tool/devices.c`; `test.py` steps the same machine, with a constant for what the
first device answers to `guest.c`. Its registers are
those of the vcpu, or those a handler is about to set: the step that changes a
device is then also the step that moves the guest on.

## Runs

Passing runs:

| run | instance | states | shows |
| --- | --- | --- | --- |
| `lifetime_safety` | 2 vms, 2 vcpus, 2 threads, 5 ASIDs | 442,940 | `NoUseAfterFree`, `RefcountExact`, `NoLeak`, `OneVcpuPerVm`, `AsidUnique`, `VcpuForGood`, `ImplementsContract` |
| `lifetime_liveness` | 1 vm, 2 vcpus, 2 threads, 4 ASIDs | 42,407 | `HandlersReturn`, `AbandonedVmDestroyed` |
| `npt_sequential` | 1 vm, 1 thread on it, 11 pages, frames 0, 1, 2, 10 | 69,000 | `NoPageLeak`, `FramesDistinct`, `MmioTraps`, `UserSeesGuest`, `GuestMemoryStable` |
| `npt_race` | 1 vm, 2 threads on it, 9 pages, frames 1, 2, 2 offsets | 972,000 | `EntriesWellFormed`, `OneParent`, `WalkersSafe`, `PageRefsExact` |
| `npt_isolation` | 2 vms over 11 pages | 192,000 | `GuestsIsolated`, `ImplementsMemory` |
| `run_switch` | 2 vcpus, 2 threads, 2 processors | 1,850,000 | `HostIntact`, `HsaveExclusive`, `RegsNotTorn`, `StateFresh` |
| `run_liveness` | 1 vcpu, 2 threads, 1 processor | 13,700 | `IoctlReturns` |
| `driver_load` | 2 vms, 2 processors (one comes online at any time), 2 loads, 4 ASIDs, files left open over `rmmod` | 3,374,000 | `SvmeBeforeSvm`, `TlbCoherentWithinLoad` |
| `emulator` | `guest.c`, 2,393 guests of up to 3 instructions, images of 0 bytes and at both bounds of the size; anything may fail | 287,000 | `ImplementsMachine`, `SupportedGuestsRun`, `NothingLeftOpen`, `ExitStatus`, `GuestHalts`, `VmDestroyed` |

Why the bounds are enough. Two threads are the smallest number at which the
locks and the races matter: two creations on one vm, a creation against two
closes, two walks to one missing entry, a run against a read of the registers.
Two vcpu addresses let one be freed and reused while another exists. The
ASIDs run out inside the runs, so the panic is reached. Page tables have two
entries per table instead of 512: four levels then map 16 frames, frames 0 and
1 share every table, 0 and 2 part at the second level, 10 parts from them at the
top, and a PML4 table with two full paths fits in 11 pages. The allocator
returns the first free page, which reuses a freed page as early as possible, and
fails at will (`MayFail`) or when no page is free. Register values are two.
In `Driver`, two vms suffice for a stale translation (the old owner of an ASID and
the new one), two processors for one that lacks `EFER.SVME`, two loads for a
restart of the counter. In `Emulator`, three instructions let a
device be written, the register overwritten and either device read back, with an
instruction that needs two pages before or between; the emulator keeps nothing else from one
instruction to the next but the devices and the pages, so a longer program meets
no new case. The guests that do something unsupported end in a failed assertion,
and two kinds take the host down (an access next to the device in `panic()`, a
triple fault by a shutdown): `Supported` says which, and `SupportedGuestsRun` that
there are no others. `VmDestroyed` makes an exception for those two and for an
image that was read over the emulator. None of the guests in the run loops for
ever; neither liveness property is claimed for one that does.

Runs that end in a violation. Each states what a comment or an assertion of the
repository says, and `findings` in `PROJECT.json` quotes it:

* `npt_lost_page`: two threads that touch a missing frame both allocate a page,
  and user space may keep the one the guest does not have (the overwritten
  page is leaked, too, which is why `NoPageLeak` belongs to the sequential run);
* `npt_mmio_assert`: a request for the mmio frame meets the entry whose present
  bit was cleared on purpose and fails the assertion of the walk;
* `driver_reload`: the ASID counter starts again with the module while the TLBs
  keep what they have. `TlbCoherentOverReload` asks for it only where every file
  was closed before `rmmod` and the device was opened after `insmod` had returned.

Other limits of the code that the models reproduce. They have no run of their own
and no property would catch them: the passing properties are stated so that they
say where the promise ends, and the notes of the hazards in `PROJECT.json` repeat
it.

* ASIDs are never given back, so the assertion at `driver/cpu.c:399` fails after
  enough creations, refused ones included: `panicked` in `VmLifetime`, reached in
  `lifetime_safety`, and `crashed = "assert"` in `Driver`;
* a failed `yakvm_create_vcpu()` makes the ioctl return `PTR_ERR(vm)`, the low
  half of a valid pointer, instead of an error (`driver/vm.c:56`): `result` in
  `VmLifetime`, and in `Emulator` what its caller makes of it (`create_again`);
* the base of `cs` after reset does not fit the 16 bits of `struct registers`
  (`driver/cpu.c:142`): `CsBases` in `run_liveness`;
* the fault handler counts from the start of the mapping, so one that does not
  start at page 0 of the vm shows other frames (`driver/vm.c:150`): `Offsets` is
  `{0}` where `UserSeesGuest` is checked, and `{0, 1}` in `npt_race`;
* `/dev/yakvm` is there before `EFER.SVME` is set (`driver/main.c:135`), and a
  processor that comes online later never gets it: `run_without_svme` is reached
  in `driver_load` in both ways, and `SvmeBeforeSvm`, which makes an exception for
  them (`orderly`), says that there is no third;
* open files do not keep the module (`driver/main.c:73`): `call_unloaded`, reached
  in `driver_load`, also after the module is back; nothing prevents it, so there
  is no property about it;
* the error path of `yakvm_create_vmm()` loses the tables below the PML4 table
  (`driver/memory.c:121`): `stranded`, which `NoPageLeak` exempts;
* `table_index()` drops the bits above 48: `FramesDistinct` is about the frames
  below;
* a run keeps its processor until the guest exits (`driver/cpu.c:99`): that it does
  is part of the fairness of `run_liveness`;
* an 8-bit read from a device replaces all of `rax` (`tool/cpu.c:112`,
  `tool/cpu.c:150`): `GuestMachine` promises `al` only;
* an image larger than what is left behind `YAKVM_ENTRY` passes the check of its
  size (`tool/memory.c:32`): `overrun`, or a failed assertion; `Supported` excludes
  such an image.

Deadlock is not checked for `Driver` and `Emulator`, where the system may come to
rest: a module that is not loaded again, a process that has ended.

Fairness. In `VmLifetime` a thread inside a handler is scheduled (`WF` of its
steps, the wait for `vm->lock` included), and the kernel calls `->release` of a
file nobody uses (`WF`). Nothing makes user space close or call. Weak fairness
is enough for the lock: a thread that takes it has used up an ASID, so others
get ahead of a waiting thread only finitely often before the host panics.
In `VcpuRun` a thread that again and again can run
gets a processor and takes its step (`SF`): the lock and the processor are taken
by others in between, and a mutex of the kernel hands over in order. That a
guest exits at all is part of this fairness: `yakvm_vcpu_init_vmcb()` sets
`rflags.TF` and intercepts `#DB`, so a guest stops after an instruction.
In `Emulator` the process gets to run (`WF` of `main`; its only waits are ioctls
on a vcpu nobody else has) and the kernel calls `->release` (`WF`). `kill` is not
fair. `Driver` has safety properties only.

## Proofs

The proofs are in modules of their own, named after the module they are about.
Each defines an inductive invariant `IInv`, shows that `Init` implies it and that
every action preserves it (one lemma per action, or per group of actions with
the same argument, with a step per conjunct that is at stake), and derives each
theorem from `Invariance` and the parts of `IInv` it needs. None of the proved
invariants is inductive by itself. TLC has checked each `IInv`
as an invariant of the corresponding run's instance before it was proved. What is
assumed of the constants are the `ASSUME`s of the modules, which TLC evaluates in
every run.

| module | theorems |
| --- | --- |
| `VmLifetimeProofs` | `TypeCorrectness`, `NoUseAfterFreeTheorem`, `RefcountTheorem`, `NoLeakTheorem`, `OneVcpuPerVmTheorem`, `AsidUniqueTheorem`, `VcpuForGoodTheorem` |
| `VmContractProofs` | `ContractTheorem` |
| `NestedPagingProofs` | `TypeCorrectness`, `EntriesTheorem`, `OneParentTheorem`, `WalkersTheorem`, `PageRefsTheorem`, `IsolationTheorem`, `FramesTheorem`, `MmioTheorem` |
| `SequentialPagingProofs` | `SequentialInvariance`, `NoPageLeakTheorem`, `StableTheorem`, `UserTheorem`, `MemoryTheorem` |
| `VcpuRunProofs` | `TypeCorrectness`, `HostIntactTheorem`, `HsaveExclusiveTheorem`, `RegsNotTornTheorem`, `StateFreshTheorem` |
| `DriverProofs` | `TypeCorrectness`, `SvmeBeforeSvmTheorem`, `TlbTheorem` |
| `EmulatorProofs` | `TypeCorrectness`, `NothingLeftOpenTheorem`, `ExitStatusTheorem`, `SupportedGuestsTheorem`, `MachineTheorem` |

### VmLifetimeProofs

For any sets of vms and threads, any finite set of vcpus and any number of ASIDs
above one. `TypeCorrectness` includes that no reference count goes below zero.
The invariant adds what the proofs turn on:

* `VmFilesOK`: a descriptor, a mapping or a running handler keeps the vm's file
  open and an open file keeps the vm; a vm without descriptor is private to one
  thread. It is what makes the reference that `create_vcpu_put` drops never the
  last one: the ioctl still runs on the vm's file.
* `CreatingOK`: for each step of `YAKVM_CREATE_VCPU`, what has been allocated,
  set and published, and that no two threads create the same vcpu.
* `VcpuOK`, `CpuFilesOK`: a published vcpu is whole and points back to its vm; a
  vcpu with an open file is published and no longer under creation, so the last
  `yakvm_put_vm()` frees it when nobody uses it.
* `LockOK`: a thread between the test and the store of `vm->vcpu` holds
  `vm->lock`, so the test is still true at the store.
* `RefOK`: the count is the number of holders and is not zero. A step that adds
  or removes a holder changes the cardinality of `Holders(v)` by one
  (`HoldersCount`); a step that does neither is covered by `RefFrame`.
* `AsidOK`: the counter is ahead of every ASID in use.
* `OwnedOK`: an allocation belongs to a creating thread or to a vm.

### VmContractProofs

`ContractTheorem` is `Spec => ImplementsContract`, from the invariant above. The
three variables of the contract are functions of the detailed state: the vms that
are no longer private to their creator, the vms whose file is open, and the state
of the file of each vm's vcpu. `FileStates` shows that the last is a matter of
`vm->vcpu` alone, since no other vcpu of the vm can have an open file. Then four
kinds of steps are steps of the contract (`vm_getfd`, `create_vcpu_getfd` and the
two releases, where the last `yakvm_put_vm()` decides whether the vm goes), and
all others leave the three variables as they are: a vcpu that is published and
withdrawn again before it has a file never shows.

### NestedPagingProofs

For any number of vms, threads, pages and frames, tables of any size, and every
allocator that returns free pages; nothing serialises the walks. `SpanAssumption`
says that a level maps `Fanout` times what the one below maps, as the shifts of
`table_index()` do. Vms and frames need not be finite in number: that a page has
finitely many mappings is an invariant.

* `EntriesWellFormed`, `OneParent`, `WalkersSafe` together with `FreePagesClean`
  and `PresentLeadsOn` are the heart: an entry that is overwritten by a racing
  store leaves a whole subtree behind, in use and well formed, and the thread that
  stands in it goes on safely; a freshly allocated page has no entries and no
  parent.
* `GuestsIsolated` needs `WalkersIsolated`: such a thread, although it may not be
  in the tree of its own vm any more, is not in that of another, so what it stores
  stays out of the other's tree. Storing a page in a table of one tree adds that
  page to it and may remove a subtree; the lemmas about `TreeIn` say so for any
  entries.
* `RootsOK` and `CallsOK` say that whoever is inside has a vm that will not be
  destroyed, and that the one who creates a vm is alone with it.
* `PageRefsExact` needs `MappingsFinite`, so that a fault adds one to the
  cardinality and an unmapping takes one away.
* `FramesTheorem` follows from `OneParent` and from arithmetic: two frames with the
  same index at each of the four levels are equal.
* `MmioTheorem` has an invariant of its own, `MmioInv`: in a vm that exists the
  way to the mmio entry is complete and its last entry is not present; nobody is
  about to overwrite an entry on this way, because nobody can have found one
  missing after the creation; and the creating walk is on it.

### SequentialPagingProofs

What fails when two threads walk the table of one vm (`npt_lost_page`) is proved
for one thread per vm, again for any number of vms, pages and frames, tables of
any size and every allocator, failing ones included. The hypotheses are part of
the theorems:

* `SoleThreads`, in all of them: no vm has two threads. The repository's emulator
  is such a user of the driver; different vms still run side by side.
* `Offsets = {0}`, in `UserTheorem`: mappings of the vm's file start at its first
  page. The fault handler is wrong for others.
* `FramesInReach`, in `MemoryTheorem`: the frames that are asked for are as many
  as four levels can tell apart; `table_index()` drops the bits above.

`npt_sequential` and `npt_isolation` are instances that satisfy them.

`SeqInv` is inductive relative to `IInv` above. `WalkReached` ties a thread to the
processor's own walk, whose tables `Reach` names level by level: the thread stands
where the processor would be, the entry it has found missing is missing until its
store, and the page it ends with is behind its frame. `NoMemoryYet` says that while
a vm is created its PTs hold nothing but the entry of the mmio frame, made last.
`NoPageLeak` is then inductive: a store goes into the tree of the vm and replaces
nothing, so the tree grows by the new page and loses none (`StoreFacts`), and the
only steps that take a tree apart free all of it or record the rest in `stranded`
(`SeqFreed`).

`StepKinds` sorts the steps: a store of an entry, the end of a creation and the
end of a vm are the only ones that change what a processor finds in a vm that
exists. The other theorems go through these three. `StoreMemory` follows the
processor down both versions of the tables and shows that a store changes nothing
but frames without a page, which get the new one. That is `StableTheorem`;
`UserTheorem` follows, because what a fault maps is behind its frame and stays
there; and for `MemoryTheorem` the frame is only one by `FramesTheorem`, not that
of the device by `MmioTheorem`, and the page is nobody else's because it was free.
The end of a creation is `Create` of `GuestMemory` by `NoMemoryYet`: all PTs are
without a present entry, so the new vm has no memory.

### VcpuRunProofs

For any number of vcpus, threads and processors and any register values.

* `SchedOK`: a thread runs on one processor at most; preemption is off exactly in
  the steps of the world switch, so it keeps its processor there; GIF and guest
  mode of a processor follow from the step its thread is at.
* `LockOK`: past `mutex_lock_killable()` the lock is held, so what is said of the
  vcpu of one thread is not disturbed by another (`Mine`).
* `HostOK`: where the state of the host is at each step: on the processor, in the
  hsave page the msr points to, in `hctx` or in the host's vmcb.
* `GuestOK`, `RegsOK`, `StateOK`: what the processor, `gctx`, the vmcb, the copy of
  an ioctl and the state page have of the guest at each step.

### DriverProofs

For any number of processes, processors, frames, pages, ASIDs and loads.
`FilesOK` ties files to loads: without the device, the files that are open are of
an earlier load (`stale`), and a call on one never gets as far as an SVM
instruction. `OrderlyOK` adds that as long as `orderly` holds this is so until
`on_each_cpu()` is over, and that from then on every processor that is online has
`EFER.SVME`, because the answers are waited for (`todo`). `AsidOK` says that
within the first load the counter is ahead of every ASID with a translation, so
that a new vcpu meets an empty TLB; `FirstLoadOK` gives its start. `TlbCoherent`
is claimed for one load only, as `driver_reload` shows.

### EmulatorProofs

For every set of images that satisfies `ConstantsAssumption`, of any length.

* `OpenOK`, `StatusOK`: for each descriptor and mapping, where `main()` does not
  have it; what `ret` and `mode` are at each step.
* `VmcbOK`: the vcpu runs with the control block `yakvm_vcpu_init_vmcb()` makes.
  `InitialVmcbFacts` works out which bits that sets: an intercept once set stays
  set (`SetIntercept`).
* `RegsOK`, `ExitOK`: registers are pending between a handler and
  `YAKVM_SET_REGS` only; how the exit being handled came about, so that the
  handler decodes what the processor encoded (`IoFacts`, `HandleFacts`).
* `GuestOK`: a supported guest stays within its instructions.

For `MachineTheorem` the registers of `GuestMachine` are `Al` and `Rip`. An
instruction takes effect at one step, `exit_db` or its handler; every other step
leaves `Al`, `Rip` and the devices alone. Memory that nobody has written is never
executed, since it would access the page of the device, which `TypeOK` keeps out
of the nested page table (`ExecutesFacts`). The proof showed that `Supported` has
to demand that a loop goes back to the start of an instruction.

### Only model-checked

* The liveness properties `HandlersReturn`, `AbandonedVmDestroyed`, `IoctlReturns`,
  `GuestHalts` and `VmDestroyed`: fairness is outside the prover's reach.

Every other property of a passing run is stated by a theorem. The three runs that
end in a violation are counterexamples, and stay with TLC.

## Not modelled

* Wording of log messages, `tool/arguments.c`, `test.py`, the build.
* Segment attributes, limits and descriptor tables of the initial vmcb: constants
  that nothing modelled here depends on.
* The layout of `struct vmcb` and `struct context` (`include/cpu.h`): checked by
  the compiler's `static_assert`.
* The kernel around the driver (files, scheduler, page fault path, allocator) is
  modelled from how the driver uses it.
* What the kernel makes of the negative errno that the fault handler returns as a
  `vm_fault_t`.
* A second thread in the emulator: the repository's has one. Threads that share
  a vcpu are in `VcpuRun`.
* `yakvm_exit()` leaves `EFER.SVME` and `MSR_VM_HSAVE_PA` set; nothing in the
  repository says otherwise or depends on it.

## Plan

What could follow, in this order:

1. The same theorems for more threads once `yakvm_vmm_npt_create()` takes a lock:
   `SoleThreads` is used at one place, to conclude that no other thread is in the
   vm at a store (`SeqAlloc`), which a lock would give as well.
2. `NoPageLeak` without `stranded` once the error path of `yakvm_create_vmm()`
   frees what is below the PML4 table.
