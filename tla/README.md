# A verification project for kpp

kpp is a header-only C++ library for Linux kernel modules, with two example
drivers and a sysfs example. This directory holds TLA+ modules that model its
parts, the TLC configurations that check them on small instances, and proofs
that TLAPS checks for every value of the constants.

- `PROJECT.json` maps every definition to the lines of source it models and lists
  the runs, mutants, findings, hazards and theorems.
- `X.tla` models a component; `MCX.tla` puts components
  together for a run; `XProofs.tla` holds theorems; `X*.cfg` are the runs.

## 1. Inventory

The library owns kernel resources through C++ objects. Almost every part is one of
four shapes: an **owning handle** (constructor acquires, destructor releases, moves
transfer), a **registration** (the kernel may call back from the constructor to the
destructor, on any CPU), a **container**, and a **wrapper** that forwards to one
kernel function. What is hard is hardly ever one call: it is a sequence of moves and
destructors, a callback between two steps of a constructor, a step of several that
fails, or a module that is unloaded.

| Component | State it keeps | Operations | Meets | What makes it correct |
|---|---|---|---|---|
| `SharedPtr` | pointer, control block with an atomic counter | construct, copy, move, assign, destroy | other threads with shares of the block | no use after free, one reclaimer, exact count, no leak |
| `UniquePtr`, `make_unique` | one pointer | construct, move, release, destroy | every other part | one owner, freed only by it |
| `Expected` | a value or an error and a flag | construct, move, assign, destroy | callers | the flag names the live member; what it owns has one owner |
| `Mutex`, `ScopedLock` | a lock | lock, unlock | echo driver | unlocked on every path |
| echo driver handlers | buffer, length, mutex | open, release, read, write | VFS, user memory that faults | reads are slices of one message, copies in bounds |
| echo driver module | four global UniquePtrs, region, class, cdev, node | init, exit | module loader, programs that open the node | what the kernel reaches is allocated |
| `CharDevice`, `DeviceClass`, `Device` | the registration and a flag | constructor, `add`, move, destructor | echo driver, scopes that are left early | registered exactly while the object lives |
| `FileOperations` | table of callbacks | constructor, trampolines | VFS | a call reaches the member function |
| `IoctlHandler` | none between calls | `handle` | user memory that changes | one handler, a true result |
| `NetfilterHook`, firewall driver | hook fields, registration | init, exit, callback | packets on every CPU | complete when called, right verdict, gone after exit |
| `SKB` | one reference on a packet; its buffer | construct, move, destroy; push, pull, trim, reserve | netfilter, netlink | the packet lives as long as it is held; its bytes are what was put there |
| `NetlinkSocket` | a socket or null | construct, unicast, broadcast, destroy | `SKB`, receivers | a packet has one owner |
| `KernelSocket` | a socket or null | connect ... shutdown, accept, send, receive | peers, other threads | one owner; waits end |
| `NetDevice`, `XDPAttachment` | a device reference; a program | find, attach, move, destroy | unregistration of devices | references balanced |
| `KObject`, status example | kobject, kset, object | init, exit, show | sysfs readers | show never sees freed memory |
| `Notifier` | block on a chain | constructor, trampoline, destructor | events on every CPU | calls see a built object |
| `Timer` | timer, expiry | setup, schedule, cancel, destroy | softirq, rearming callback | nothing after cancel or destroy, never early |
| `WorkQueue` | a heap block per functor | `schedule_work`, callback | workers | one owner per block, runs once |
| `List` | ring of pointers | add, add_tail, del, iterate | `HashMap` | the ring stays intact |
| `HashMap` | buckets of nodes | insert, find, destroy | `List`, `UniquePtr` | finds the first inserted |
| `BPFProgram`, `DstEntry`, `KSet` | one reference | construct, move, destroy | XDP, routing, sysfs | references balanced |
| `debugfs::Dentry` | a directory entry | create, move, destroy | other `Dentry`s below it | every entry has one owner; only an ancestor removes it first |
| `Semaphore` | a count and its waiters | down, three ways to give up, up | other threads, signals, timeouts | no unit and no wakeup is lost |
| `Completion` | a count | wait, complete, complete_all | workers, the end of its scope | every wait ends; not used after its scope |
| `SpinLock` | a lock | lock, unlock | other CPUs, interrupts | no lost update; whoever waits gets in |
| `PerCPU` | one element per CPU | get, put, get_for_cpu | the scheduler | no lost update; sums are bounded |
| `Kref`, `Atomic` | a counter | get, put; inc, dec, add, sub | other shares of the object | the count is the number of shares |
| `Page::MappedPtr` | a mapped address | map, unmap | few places to map to | the address stays; every map returns |
| `Attribute`, `AttributeGroup` | two member functions | trampolines | sysfs readers and writers, del, put | a call sees its owner; removal ends |
| `StringParam`, `StringView` | a pointer and a length | set, get | module loader, sysfs | the string outlives its use |
| `Error`, `Log`, `Freestanding`, `Poll`, `Inode`, `File`, test helpers | none | forwarded | callers | - |

`PROJECT.json` lists the hazards line by line. The kinds that matter here:
interleavings (SharedPtr's counter, the timer's callback, hooks, attributes and notifiers
called during construction and removal, workers that run first, preemption inside of a
per-CPU update), partial failure (init functions, scopes left early, user copies,
allocations that are not checked), long legal sequences (moves and self-moves of every
handle, a list that changes under its iterator), stale pointers (a string in a freed
buffer, a parent directory that went first, a list that frees what it steps from),
resource limits (page mappings, packet buffers) and liveness (locks, waits, destructors
that wait).

## 2. Plan

Order, most important behaviour first; everything up to 15 is done.

1. `SharedPtr` with `SharedOwnership` as its abstraction, and proofs.
2. `UniquePtr`, and proofs.
3. `EchoDriver` with `EchoBuffer` as its abstraction; `EchoModule`, `FileOperations`.
4. `Firewall`, `StatusModule`.
5. `Timer`, `WorkQueue`, `Notifier`.
6. `IoctlHandler`, `Expected`, and proofs of `Expected`.
7. `List` with `NodeSequence` as its abstraction, `HashMap` over its sequences.
8. `XDPAttachment` (with `NetDevice`).
9. `KernelSocket`, `NetlinkSocket` (with `SKB`).
10. The remaining owners: `RefHandles` (`BPFProgram`, `DstEntry`, `KSet`), `DebugFS` (a
    tree), `DeviceScope` (the device classes in a scope), `SharedChain` (a `SharedPtr`
    inside of the object that it owns).
11. The locks and counters: `Semaphore`, `Completion`, `SpinLock`, `PerCPU`, `Counters`.
12. The buffers: `PageMap`, `SkbBuffer`.
13. `Attribute`, with the reference count of `KObject`.
14. `ModuleParam`.
15. Proofs of the safety properties of the runs, one module for each run: `EchoDriver` with
    its refinement, `MCOwners`, `MCCallbacks`, `MCAsync`, `MCLibrary`.
16. Proofs about what recursion computes: the ring of `List` and its refinement of
    `NodeSequence`, and the bounds of the sum in `PerCPU`.

With these every invariant, every action property and the safety part of every refinement
that a run checks is a theorem; what is left is liveness, which stays with TLC.

## 3. Modelling decisions

**Grain.** A member function that other threads can observe is as many steps as it
has accesses they can see (the counter, the object and the heap in `SharedPtr`; each
byte of a copy in `EchoDriver`; each registration in the init functions). An object
that belongs to one thread changes in one step per member function.

**Storage and life time.** An owning handle lives in a slot. `NoObject` means that no
object lives there, `nullptr` that the object is empty. Constructors need a slot without
an object, everything else one with; slots are reused. So every legal sequence of calls
of a C++ program is a behaviour, and a move may come from any live object, itself too.

**Race-free callers.** C++ objects are not shared without synchronisation: a handle is
written only while nobody else uses it. This is the only restriction on callers, and is
written in the guards (`Unused` and `Readable` in `SharedPtr`, `InUse` in
`KernelSocket`, `borrows` in `XDPAttachment`). A module whose class asks more of its
callers says so in its header (`PerCPU`: no interrupt handler uses it; `SpinLock`: no
thread takes it on a CPU whose handler does, so that the deadlock of a handler that
interrupts the holder on its own CPU is excluded, not shown absent; `WorkQueue`: the functor
is an rvalue). Arguments that no line of the code checks are not restricted: the owner of
an `IoctlHandler` may answer with the handler's own errors, `reserve` may leave the
buffer, a `Notifier` may be given a null unregister function, a `HashMap` no bucket. What
then goes wrong is in the model, and the properties name it as their exception.

**The kernel** is external. Its functions are modelled from what the library uses them
for: they may fail whenever they can fail, they may call back as soon as they are given
a callback, and they do what the call is made for. Each module's header says what it
assumes.

**What the text of the program means.** The repository does not compile as it stands.
Where a call cannot resolve as written the model takes the function it evidently names:
`kmalloc` and `kfree` are the kernel's; `make_unique` passes its extra arguments to the
constructor; `copy_to_user(to, from, n)` copies `n` bytes with the result of the
two-argument form; the dispatcher of `IoctlDSL` passes on the `file` it was given;
`make_unique<List[]>` allocates an array of constructed lists; the range-for in
`HashMap::find` visits the nodes of the bucket; the members of `Semaphore` and
`Completion` (`down(&sem_)`, `complete(&completion_)`), whose unqualified calls find the
members themselves, call the kernel functions of the same name; `page_from_virt` is the
page that is mapped at an address; `alloc_percpu` allocates one element for each CPU;
`container_of(kobj, Owner, kobj.native_handle())` is the owner of the kobject.
Destructors of static objects are not run when a kernel module is unloaded. `from_timer`
finds the function object only in a class derived from `Timer`, so that is what `Timer`
models; the argument of `setup` is ignored, as in the code. `EchoDriver` models the
handlers as the VFS would call them if the table were filled, which `FileOperations`
shows it is not.

**Faulty variants.** Next to a definition there may be a variant of it with a suffix or
a prefix that names the fault (`NoAtomicInc`, `MoveAssignLeaks`, `waitResets`).
No specification uses it. It is what a plausible slip in that code would be, and TLC
finds the property it is listed with in `PROJECT.json` violated when it takes the place
of the definition: it shows that the property depends on the code.

## 4. Modules, runs and what they show

| Module | Models | State and actions |
|---|---|---|
| `SharedPtr`, `SharedOwnership` | `memory/SharedPtr.hpp`; abstractly, a block with a set of holders | `cb_` of each handle, `shared_count` and `mem` of each block, the `call` each thread is in; one action per member function, cut at the accesses to the counter |
| `UniquePtr` | `memory/UniquePtr.hpp` | `ptr_`, `allocated`, and the pointers that `release` gave away |
| `KernelSocket`, `NetlinkSocket`, `XDPAttachment` | `net/KernelSocket.hpp`; `net/NetlinkSocket.hpp` with `net/SKB.hpp`; `net/XDP.hpp` with `net/NetDevice.hpp` | the handles, the kernel object behind each, its references; waits of threads; unregistration of devices |
| `Expected`, `IoctlHandler` | `util/Expected.hpp`, `vfs/IoctlDSL.hpp` | the live members of each union; the steps of `handle` against user memory |
| `EchoDriver`, `EchoBuffer` | `driver/driver.cpp`, `read` and `write`; abstractly, atomic requests on a buffer | `buffer_`, `buffer_len_`, `mutex_`, file positions and the call of each thread, byte by byte |
| `EchoModule`, `FileOperations` | init and exit of `driver.cpp` with `vfs/CharDevice.hpp` and its neighbours; `vfs/FileOperations.hpp` | globals, heap and registrations per load, open files; the callback table |
| `Firewall`, `StatusModule`, `Notifier` | `driver/firewall_driver.cpp` with `net/NetfilterHook.hpp`; the sysfs example with `core/KObject.hpp`; `core/Notifier.hpp` | the object, its registration, and the calls in progress on each CPU |
| `WorkQueue`, `Timer` | `async/WorkQueue.hpp`, `async/Timer.hpp` | callers, queue and workers; owner, softirq and clock |
| `RefHandles` | `bpf/BPFProgram.hpp`, `net/DstEntry.hpp`, `core/Kset.hpp`, which are the same code but for the function that gives back | the pointer of each handle, the references of each object; one action per member function and class |
| `DebugFS` | `debug/DebugFS.hpp` | `dentry_` of each handle, the tree; removal takes the subtree |
| `DeviceScope` | `vfs/DeviceClass.hpp`, `vfs/CharDevice.hpp`, `vfs/Device.hpp` | the objects of a scope in their order, what the kernel has registered; constructors, moves, leaving, destructors |
| `SharedChain` | `memory/SharedPtr.hpp` with nodes that hold a `SharedPtr` | two pointers, `next` and the count of each node, the release and the assignment under way |
| `Semaphore`, `Completion`, `SpinLock` | `sync/Semaphore.hpp`, `sync/Completion.hpp`, `sync/SpinLock.hpp` with `sync/ScopedLock.hpp` | the count and its queue; the count, the lock inside and the owner's scope; the queue at the lock, threads and interrupt handlers |
| `PerCPU`, `Counters` | `util/PerCPU.hpp`; `util/Kref.hpp` and `sync/Atomic.hpp` | elements, the threads between `get` and `put`, the scheduler, a reader; a counter and the shares it counts |
| `PageMap`, `SkbBuffer` | `vfs/Page.hpp`; the data operations of `net/SKB.hpp` | the places, what is mapped there, who waits; the bytes and the two ends of the payload |
| `Attribute` | `sysfs/Attribute.hpp` with `core/KObject.hpp` | the owner's life, its references, the programs inside of a trampoline |
| `ModuleParam` | `core/ModuleParam.hpp` with `core/StringView.hpp` | the view, and the buffers that are allocated |
| `HashMap`, `List`, `NodeSequence` | `util/HashMap.hpp`, `util/List.hpp`; abstractly, a sequence of nodes | buckets of nodes; pointers and an iteration |

A component that other modules have no state in common with can be checked in one run
with others: the `MC` module has the variables of all of them, `part` says which one a
behaviour is about, and the others do not move. The state space is the sum of the parts,
not their product. An `MC` module repeats the names of the properties of the parts it
instantiates, together with their type invariants. The theorems about these parts are
therefore theorems about `MCSpec`, and each first shows that a step of `MCNext` is a step of
the part or leaves its variables alone.

Runs expected to pass:

| Run (cfg) | Module | Instance | Checks |
|---|---|---|---|
| `SharedPtr` | `SharedPtr` | 2 threads, 4 handles, 2 blocks | `IInv`, the inductive invariant of the proofs; `NoUseAfterFree`, `CountIsOwners`; `EventuallyFreed`; refinement of `SharedOwnership` |
| `Owners` | `MCOwners` | `UniquePtr`: 4 handles, 3 blocks | `OneOwner`, `FreedOnlyByItsOwner` |
| | | `KernelSocket`: 2 threads, 3 handles, 2 sockets | `HandlesBalanced` (one owner), `ShutdownWakes` |
| | | `NetlinkSocket`: 2 SKBs, 3 packets | `HandlesBalanced` (a packet not sent has one owner) |
| | | `RefHandles`: 3 handles, 2 objects | `HandlesBalanced` (references balanced, ksets with one owner) |
| | | `XDPAttachment`: 2 + 3 handles, 2 devices | `DeviceRefsBalanced` |
| | | `DebugFS`: 3 handles, 3 entries | `TreeOwned`, `OnlyParentsDangle` |
| | | `DeviceScope`: 2 classes, a cdev, a device | `ScopeUnwinds` (what is unregistered, and the two ways to crash) |
| | | `SharedChain`: 3 nodes | `ChainInv` (counts are owners; which step along a list is safe) |
| `EchoDriver` | `EchoDriver` | 2 threads, one file, buffer of 3, requests of 0 and 3 bytes | `BufferInv` (bounds, and in sync when unlocked), `EveryCallReturns`; refinement of `EchoBuffer` |
| `Callbacks` | `MCCallbacks` | `Firewall`: 3 CPUs, 3 kinds of packet | `FirewallInv` |
| | | `EchoModule`: 3 loads, 2 files for each | `ModuleInv` (registrations, reachable memory, pins) |
| | | `StatusModule`: 3 readers, 3 loads | `StatusInv`, `TeardownEnds` |
| | | `Attribute`: 2 programs, 3 references | `CallSeesObject`, `TeardownEnds` |
| | | `Notifier`: 4 CPUs | `CallSeesObject`, `TeardownEnds` |
| `Async` | `MCAsync` | `WorkQueue`: 2 callers, 2 workers, 3 functors, 2 blocks | `OwnersInv`, `RunsOnce`, `AsyncEnds` |
| | | `Timer`: jiffies modulo 16 from every start | `NothingAfterDelete`, `NeverEarly`, `AsyncEnds` |
| `Library` | `MCLibrary` | `Expected`: 4 objects, 2 resources | `LifetimesInv`, `GivenBackByOwner` |
| | | `IoctlHandler`: 5 commands, one number twice, an owner that answers with -ENOTTY and -EFAULT, too | `ResultIsTrue`, `WritesOnlyResults` |
| | | `HashMap`: 3 keys, up to 2 buckets, 3 nodes | `MapInv`, `PointersStayValid` |
| | | `List`: 4 nodes | `VisitsEachOnce` (with the ring); refinement of `NodeSequence` |
| | | `Semaphore`: 3 threads, 2 units; `Completion`: 2 waiters, 3 workers | `NoLostWakeup`, `WaitsEnd` |
| | | `SpinLock`: 3 CPUs, a handler on one | `CountsExact`, `WaitsEnd` |
| | | `PerCPU`: 3 threads, 2 CPUs; `Counters`: 3 shares | `CountsExact`, `SumIsBetween` |
| | | `PageMap`: 2 threads, 3 pages, 3 places | `BuffersIntact`, `WaitsEnd` |
| | | `SkbBuffer`: 4 bytes, and reserve up to 2 behind them | `BuffersIntact` |

Runs that show the code contradicting what its documentation says (each is a finding in
`PROJECT.json`, with the line):

| Run | Property | What happens |
|---|---|---|
| `UniquePtrDeleter` | `DestroyedWhenFreed` | the deleter frees without the destructor |
| `EchoModuleExit` | `ExitUnregisters` | exit drops the objects: class, cdev and node stay |
| `FileOperations` | `CallsReachMembers` | virtual calls in the base constructor fill no slot |
| `FirewallSkb` | `PacketAliveAfterHook` | the trampoline consumes a borrowed packet |
| `FirewallExit` | `HookGoneAfterExit` | exit drops the `Firewall`: its hook stays, and runs freed code |
| `ModuleParam` | `ParamIsReadable` | the parameter is a view of the buffer of the write that set it |

The models follow the code in these points too, which no run states as a property: a failed
init of the echo driver undoes nothing; the firewall logs "Netfilter hook registered." when
that failed; exit of the status example never drops the last reference of its kobject; the
nodes of a `HashMap` outlive it; `KernelSocket::accept` passes a null socket to the kernel;
`unicast` and `broadcast` give away a packet that the `SKB` consumes again, and pass a null
one on to the kernel, which reads it; a `Timer` that was never set up is destroyed through
an uninitialised `timer_list`; `~Device` reads through the error pointer of a
`device_create` that failed, and through a class that is an error pointer because a failed
`DeviceClass` was assigned to its own after it was constructed (`ScopeUnwinds` says that it
crashes in no other case); a `Device` whose `DeviceClass` was moved away leaves its node
behind; `head = head->next` reads a freed node exactly when nobody else owned it
(`ChainInv`); the device number can be opened as soon as `add` has returned, and when
`device_create` fails afterwards the module is freed while the file is open and the cdev
stays (`ModuleInv` says that no other open file outlives its module); a `Notifier` without
an unregister function leaves its block on the chain (`CallSeesObject`); `reserve` moves a
packet out of its buffer, where `push` then writes (`BuffersIntact`); a `HashMap` without
buckets divides by zero.

**Bounds.** Two blocks and four handles let a block gain a second and a third owner while
the other is freed and reused; two threads race on one counter, and the proofs cover any
number. A buffer of three bytes has messages that are empty and full, requests larger than
what fits, and offsets in front of, inside and behind the message. Three loads show what a
second load meets after a failed and after a finished one. A clock modulo 16 wraps within a
run from every start, with delays up to half its range, the largest the kernel's comparison
supports. One block fewer than functors makes allocations fail and blocks be reused. Three
entries form a tree of three levels and one with siblings. Three threads on two units make
waiters queue behind each other. Three threads on two CPUs preempt each other and migrate.
Two threads with up to two mappings each need three places: with two, each could hold one
and wait for ever, which is why `PageMap` assumes `Cardinality(Slots) >
Cardinality(Threads) * (Depth - 1)`. Four bytes have room for headers and payload of up to two bytes, and run
out; `Beyond`, two bytes more, lets reserve leave the buffer with a packet inside, across or
behind its end. Loads, open files, lateness of the softirq, packets, jobs, references,
updates of an element and nested mappings are bounded by `MaxLoads`, `MaxOpens`, `MaxLate`,
`Packets`, `Jobs`, `MaxRefs`, `MaxUpdates` and `Depth`; the data under the `SpinLock` counts
modulo `Modulus`; everything else is bounded by the sets of slots.

**Deadlock** is checked except where the system may really stop: an oops, a panic, the
bound on loads, functors or nodes that is used up.

**Fairness.** Weak fairness on a step means that a thread inside the kernel is
scheduled again: it is assumed of steps inside a call, of workers, callbacks and
softirqs that were entered, never of a caller's decision to call. Two parts assume more
of their users, because nobody's wait can end otherwise: who holds a semaphore gives it
back (`up`), and workers that were given a `Completion` finish. Signals, timeouts, the
peer of a socket and room for a `send` are never assumed. Strong fairness is assumed of
- taking the echo driver's lock, because a Linux mutex hands the lock to a waiter that
  has waited too long;
- the return of `del_timer_sync`, which polls, and finds a callback that rearms itself
  not running between two ticks;
- the steps of a thread under a `SpinLock`, which interrupts delay again and again: it
  runs between two of them;
- `kmap` and the end of a mapping's scope: a thread in `kmap` is woken for every place
  that becomes free and is not passed over for ever.

## 5. Proofs

| Module | Theorem | States |
|---|---|---|
| `SharedPtrProofs` | `Invariance` | `Safety => []IInv` |
| | `TypeCorrect`, `CountCorrect`, `NeverLeaks`, `ReclaimedOnce`, `AlwaysAlive` | the safety invariants, from `IInv` |
| | `Refinement` | `Safety => Ownership!Safety`: `SharedPtr` implements `SharedOwnership` |
| `UniquePtrProofs` | `UniqueOwnership` | `Spec => [](TypeOK /\ OneOwner)` |
| | `FreedByOwner` | `Spec => FreedOnlyByItsOwner` |
| `EchoDriverProofs` | `BufferSafe` | `Spec => []BufferInv` |
| | `RefinesEchoBuffer` | `Spec => Echo!Init /\ [][Echo!Next]_(Echo!vars)`: the handlers implement the atomic buffer |
| `LibraryProofs` | `LifetimesInvHolds`, `GivenBackByOwnerHolds` | `Expected`: types, `MembersMatchFlag`, `ResourceHasOneOwner`; who gives back |
| | `NoLostWakeupHolds` | `Semaphore` and `Completion` |
| | `CountsExactHolds` | `PerCPU`, `SpinLock` and `Counters` |
| | `SumIsBetweenHolds` | `PerCPU`, the reader's sum |
| | `BuffersIntactHolds` | `PageMap` and `SkbBuffer` |
| | `ResultIsTrueHolds`, `WritesOnlyResultsHolds` | `IoctlHandler` |
| `ContainerProofs` | `MapInvHolds`, `PointersStayValidHolds` | `HashMap` |
| | `VisitsEachOnceHolds` | `List`: the ring, and an iteration while nodes come and go |
| | `ImplementsSequenceHolds` | `List` implements `NodeSequence` |
| `AsyncProofs` | `OwnersInvHolds`, `RunsAtMostOnceHolds` | `WorkQueue`; the second is the safety half of `RunsOnce` |
| | `NothingAfterDeleteHolds`, `NeverEarlyHolds` | `Timer` |
| `CallbacksProofs` | `FirewallInvHolds`, `ModuleInvHolds`, `StatusInvHolds` | `Firewall`, `EchoModule`, `StatusModule` |
| | `CallSeesObjectHolds` | `Attribute` and `Notifier` |
| `OwnersProofs` | `HandlesBalancedHolds` | `KernelSocket`, `NetlinkSocket`, `RefHandles` |
| | `DeviceRefsBalancedHolds` | `XDPAttachment` |
| | `TreeOwnedHolds`, `OnlyParentsDangleHolds` | `DebugFS` |
| | `ScopeUnwindsHolds` | `DeviceScope` |
| | `ChainInvHolds` | `SharedChain` |

`XHolds` is `MCSpec => []X`, or `MCSpec => X` when `X` is an action property or a
specification, with the property `X` that the run of that `MC` module checks.

They hold for any sets of threads, handles, blocks, resources, CPUs, nodes and so on, any
buffer and table sizes and any bounds. The assumptions are the `ConstantsAssumption`s of the
modules, which the runs evaluate too: null values are different from each other and from
real objects, as are the poison of a deleted node and the head of its list; sets whose
members are counted are finite; `Timer` has an even `Modulus` and delays below half of it
(what the kernel's comparison of jiffies supports) and a softirq that is late by less than
that.

*SharedPtr.* `CountIsOwners` is not inductive: in the middle of a copy a handle points to
a block that does not count it yet, in the middle of a release one that does not count
it any more. `Counted` says which handles the counter includes, `Owners(b)` is the set
of them, and `IInv` adds what holds inside a call: a handle written by one call is used
by no other (`ExclusiveInv`), a copy that is not yet counted points to the block of a
source that is (`CallInv`), only live blocks have owners (`OwnersInv`), and the thread
that saw the counter reach zero has a block without owners (`ReclaimInv`). The proof
has one lemma for each action. The step that decrements removes one element of
`Owners(b)`, so that the counter is 1 exactly if the set becomes empty; that is where the
cardinality lemmas are used. The refinement maps the abstract holders of a block to
`Owners(b)`: an increment is an abstract sharing, the decrement to zero an abstract
abandonment, and the steps that only change a call stutter.

*UniquePtr and Expected.* Ownership is inductive once stated as "exactly one owner
while allocated"; moves permute owners, and the check against self-move is what the
step of move assignment needs.

*EchoDriver.* `InSync` speaks of moments when the lock is free; between them the invariant
needs to know which thread holds the lock at which step (`LockHeld`) and what its copy has
done so far: a read has copied a prefix of its slice, a write has stored a prefix of its
message and nothing behind it (`ReadOK`, `WriteOK`). Only the holder changes the buffer, so
what is said of another thread's call survives. A read takes effect in `EchoBuffer` when its
copy ends or faults, a write when it stores the terminator or faults; all other steps
stutter.

*Semaphore, Completion, counters.* A unit of the semaphore is in `count` or with one thread,
and the wait list holds the waiting threads without repetition, so that `up` hands its unit
to one of them (`SemInv`; a waiter that gives up is taken out of the middle, which is what
the lemmas on `RemoveAt` are for). That nobody uses a `Completion` after its scope follows
from a sum: units done and workers still to call make up the waits that the owner has left,
and a worker inside of `complete` stands for one of the units. An update under `SpinLock`
is not lost because only the head of the queue is past the lock, in `PerCPU` because a
thread between `get` and `put` runs on the CPU of its element.

*PageMap, SkbBuffer.* `AddressStaysMapped` is not inductive: a place is given up when its
count of mappings falls to zero, and `PageInv` says that the count is the number of the
`MappedPtr`s with that address, over all threads and scopes. Of a packet `SkbInv` says that
the buffer holds the history of the packet between its two ends as long as `beyond` is false;
each operation then is a lemma about what a buffer holds (`HoldsPush`, `HoldsPut`,
`HoldsPart`, `HoldsReserve`).

*IoctlHandler, HashMap.* Until a command was handled, none before it in the pack has the
number; this gives "the first" and "at most once" (`IoInv`). Nothing is assumed of the
owner's answers, so the theorem tells "no command" from "the owner said so" by the call.
What `find` returns is the node at the least position with its key; that a least position
exists comes from the well-foundedness of `<`, and an insertion at the end of a bucket
leaves all of them alone.

*List.* `Items`, the sequence that the pointers stand for, is defined by recursion along
`next`, and nothing can be said of it step by step while the pointers change. The invariant
(`ListIInv`) instead says that there is a sequence `q` of distinct nodes whose ring the
pointers are (`Ring`): `next` leads from each position to the following one, `prev` back,
with the head at both ends, and every other node is poisoned. Given this, `Items = q`
(`RingItems`): the positions of `q` satisfy the recursion, so that the function it defines
exists, and at the least position where that function differed from `q` it would have to
differ one position before. `__list_add` between positions `c` and `c + 1` makes the ring of
`q` with one node more there (`InsertRing`), `list_del` that of `q` without a position
(`RemoveRing`); with `c = 0` and `c = Len(q)` these are `add` and `add_tail` of
`NodeSequence`. For a loop, `Iterates` says of each node that has stayed since its beginning
that it was visited once if it is not behind the Iterator in `q`, and not yet if it is, which
insertions and removals anywhere else keep; once the body has deleted the Iterator's own
node there is nothing to keep.

*The sum of a PerCPU.* The bounds are folds over the set of CPUs. `SizeOf(f, D)` is the
number of pairs of a CPU of `D` and one of the updates that `f` counts there; a set has such
a number without any recursion, it grows with `f` by inclusion, and one more CPU `c` adds
`f[c]` pairs. `TotalIs` shows, in the way of `RingItems` but with a wrong set of least
cardinality, that the fold is `SizeOf(f, Cpus)`. The invariant `SumInv` is that a sum under
way lies between `SizeOf` of the counts at its start and now, of the CPUs already read.

*WorkQueue, Timer.* `OneOwner` counts owners over three kinds of them; the invariant names
them instead: what each owns is allocated, no two own the same, every allocated block is
owned (`WorkInv`). A functor that has run lies in a block whose worker is about to free
it, which is why no second worker can run it. For `Timer`, jiffies and `expires` differ by
`age - delay` up to one wraparound while the timer is queued (`ClockInv`): from this the
kernel's comparison is right exactly when the delay is over.

*Callbacks.* The invariants say what each step of an init or exit function leaves behind:
the hook's fields and port before it is registered (`FirewallIInv`), the objects and
registrations of this load, and that a file without a module belongs to a load that failed
with its cdev added (`ModuleIInv`), for `StatusModule` the whole state but the
readers. Calls are in progress only while the object is registered or its removal waits for
them.

*Owners.* A count of owners becomes inductive as three statements: no two handles hold one
object, what is held exists, what exists is held. `NetlinkSocket` also needs that only what
was sent is queued. In `XDPAttachment` a constructor between attaching and `dev_get` has no
reference of its own: it borrows that of the `NetDevice` it was given, which cannot end
before (`BorrowsInv`); and programs and attachments are one to one on a device that nobody
forced (`InStep`). In `DebugFS` an entry of the tree always has its parent there, since a
removal takes everything below; `Below(e, x)` says that `x` is in every set with `e` that is
closed under parents, so that no induction on the depth of the tree is needed. The nodes of
`DeviceScope` go before their class because the `Device` stands behind the `DeviceClass` in
the scope (`ScopeIInv`). In `SharedChain`, `AssignInv` follows the node that
`head = head->next` read through the release of any number of nodes: if `head` was its only
owner it is gone and stays gone, if not the release ends at once.

Only model-checked:
- every liveness property (`EventuallyFreed`, `EveryCallReturns`, `ShutdownWakes`,
  `TeardownEnds`, `AsyncEnds`, `WaitsEnd`, the half of `RunsOnce` that says that a functor
  runs at all) and the fairness part of the refinements: they need fairness and `ENABLED`,
  which this prover does not treat;
- the violations, which are counterexamples and need no proof.

## 6. Not modelled

`Error`, `Log`, `Freestanding`, `Poll`, `VFSObjects` and the umbrella header change no
state. The test helpers have no tests to run. `Atomic::set` stores into its own parameter
(`atomic_set(&value, value)`), which is no `atomic_t`: it does not compile, and there is
no behaviour to model. The width of reference counts is left out: a count never exceeds
the number of shares, handles or threads, which memory bounds far below 2^31. Of two parts
one case is left out: a functor that `schedule_work` is given as an lvalue, where `F` is a
reference type and the block refers to the caller's object; and the members of a class
derived from `Timer`, which end before `~Timer` waits for the callback. `PageMap` and
`SpinLock` assume away a deadlock each (section 3 and the bounds above).
