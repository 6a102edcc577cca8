# A verification project for zpr-utils

TLA+ models of the crates in this repository, TLC runs that check them on small
instances, and TLAPS proofs of what matters most for every instance.
`PROJECT.json` lists components, runs, mutants, hazards and theorems, and maps
each definition to the source lines it models.

## 1. The system

| Component | State | Operations | Used by |
|---|---|---|---|
| `Cslab` (cslab) | table of entries (item, or relative link of the free list), bitmap of presence flags, `first_free`, `frontier` (largest index used + 1), `in_use`, `allocated` | `insert`, `vacant_entry`, `mark_removed`, `finalize_remove`, `remove`, readers' `get`/`iter`, drop of the storage | `RcuCslab` |
| `Iter`, `ExclIter` (cslab) | `head`, `tail`, count | `next`, `next_back`, `count`, `size_hint` | readers, `CslabStorage::drop`, `RcuIterMut` |
| `RcuCslab` (cslab) | the `Cslab` in a mutex; the current generation; per generation the removals pending and an `Arc` to its successor; read handles, proxies | `insert`, `vacant_key`, `vacant_entry`, `mark_removed`, `schedule_finalization`, `remove`, `clear`, `reader`, `iter_mut`, `RcuEntry::remove`, the destructor of a generation | `RcuBox<RcuCslabReader>` |
| `RcuBox` (rcu) | one value, replaced as a whole; five interchangeable implementations (rwlock, mutex+Arc, crossbeam-epoch, aarc, arc-swap) | `get`, `inspect`, `write`, `update`, `get_guarded`, `find_guarded` | applications |
| cbpf-rs | a validated program; registers, scratch memory, pc | `validate`, `validate_with_flags`, `filter` | applications |
| zpr-ext sockets | control buffer, descriptors to send or received (`CowFd`: borrowed or owned); tokio's readiness of the stream | `send/recv_vectored_with_ancillary`, sync and async; `add_fds`, `clear`, `into_messages`; `CowFd::try_clone`, `try_into_owned` | applications |
| zpr-ext conversions, zpr-utils | none | header layouts, checksum, address conversions, RSA padding | applications |

How they interact.  Readers and the writer of a `Cslab` share the bitmap, the
table and the frontier with no lock; the only promise is that `finalize_remove`
is called when no reader can still see the index.  `RcuCslab` turns this promise
into a mechanism: every read handle owns an `Arc` of a *generation*, removals
are recorded in the current generation, and when the last owner of a generation
goes away, in whatever thread that is, its destructor takes the mutex,
finalizes the recorded removals, releases the mutex, drops the items, and lets
go of the successor.  A generation is also owned by its predecessor, so
generations end in the order of their creation.  A read handle is meant to live
in an `RcuBox`: readers take a guard of the box, look a key up and keep guard and
key together (`get_guarded`), so the drop of an old handle by the box, in a
writer's or a reader's thread, is what ends a generation.  The asynchronous
socket calls share one readiness word per stream with tokio's driver, in which
each clears what it was told would block.

What is hard here: lock-free reads that race with the writer's stores; a
destructor that runs in any thread at any time and changes the free list;
proxies (`RcuEntry`) that outlive the iterator they came from and remove into a
generation which already has a successor; a lock released between two halves of
one operation; relative links with an implicit default; a word-wise scan of
bits that change; unchecked indexing that rests on a validator; readiness that
comes once per edge; descriptors that are bare numbers and must have one owner.  The `hazards`
of `PROJECT.json` list these at their lines.

## 2. Modules

| Module | Models | Correspondence |
|---|---|---|
| `Cslab` | storage, free list, writer | one variable per field; `insert`, `insert_full`, `mark_removed`, `finalize_remove`, `drop_storage`. A free entry holds the relative link (`LinkTo`, `NextFree`) and not the index; the bitmap is a set of indexes. `dropped` counts destructor calls. |
| `GracePeriod` | *abstract*: what `finalize_remove` asks for | slots are free, present or marked; `blocks[r]` are the removals reader `r` has not seen; `Recycle` waits for them. |
| `RcuCslab` | the slab, generations, read handles, proxies, vacant entries | extends `Cslab`. One action per call; a call that holds the mutex over several steps, or releases it between two (`mark_removed` then `push_pending`; `gen_lock` ... `gen_end`), is several actions. `Held(g)` lists the owners of an `Arc`; `Settle` starts the destructor of each generation that has just lost its last one; `inline` is the destructor that runs inside a call which has the slab borrowed: the writer's own, or the `remove()` of a proxy, which consumes the proxy and keeps the borrow until it returns. A proxy that merely goes out of scope needs no borrow. `unseen[h]` are the flags a handle may load stale. |
| `CslabIter` | `Iter`, `ExclIter` | one step per turn of the loop, that is per atomic load; a word is a set of bits; flags that changed since the thread synchronized are loaded either way. |
| `CslabMem` | the memory orderings | stores have times and orderings, a reader loads any store not older than what it knows; extends `GracePeriod`, whose actions are conjuncts of its own. |
| `Cbpf` | validator and interpreter of cbpf-rs | `check` is one turn of the loop in `do_validate`; the other actions are the arms of `filter_slice`. Codes are the real 16-bit codes, taken apart as `bpf_code` does. |
| `RcuBox` | *abstract*: what every implementation of `RcuBox` promises | the boxed value, the values not destroyed yet, the references to them, and what the boxed one was derived from (`basis`), by which a lost update shows. |
| `RcuLock` | `RcuBox` over `RwLock`, over `Mutex<Arc>`, and over `ArcSwap` with a mutex | `impl` says which. `write` and `update` are `lock`, `load`, `derive` or `bail`, `replace`, `unlock`, `drop_old`; the three differ in who locks, in whether a guard is a read lock or a count, in when `update` reads, and in whether the old value is dropped inside the lock. |
| `RcuEpoch` | `RcuBox` over crossbeam-epoch | pin and load, swap and deferral are separate steps; `exchange` and `retry` are the turns of `fetch_update`; the collector is external. |
| `GuardedSlab` | `get_guarded`, `find_guarded`, `RcuCslabEntryGuard` | extends `RcuBox`, whose objects are the handles, and instantiates `GracePeriod`, whose readers are the same handles; each action joins one of either. |
| `Ancillary` | `SocketAncillary`, its control buffer, `CowFd`, the synchronous calls | `open` is the process's table, `fds` and `control` the two fields of the `SocketAncillary` on each side, `held` and `mine` what the client owns. `Adopt` is the part of `recv` after the system call, which runs whatever that call returned. |
| `UnixStream` | the asynchronous calls | extends `Ancillary`. Two tasks; `begin`, `awaited`, then the system call under `try_io`; a future may be dropped where it awaits. `ready` is tokio's readiness, `event` an edge the driver has not seen; peer, poll and driver are external. |
| `RcuCslabProofs`, `CslabIterProofs`, `CslabMemProofs`, `RcuLockProofs`, `RcuEpochProofs`, `GuardedSlabProofs`, `CbpfProofs`, `UnixStreamProofs` | proofs | extend the module they are about; `RcuCslabProofs` also has those of `Cslab`. |
| `MC*` | instances for TLC | symmetry sets and constant values only. |

Four implementations of `RcuBox` are proved to implement the one abstract
specification; the references counted there are the guards and those of the
closures of `update()`.  A destroyed object's name may be used again, so that an
exchange that met a new object at an old address would show.

`GuardedSlab` uses the two abstract specifications in place of what implements
them, which is what they are for: `RcuLock` and `RcuEpoch` implement `RcuBox`,
`RcuCslab` implements `GracePeriod`, and an entry guard needs no more than the
two promise.

The three views of the slab are tied together: `RcuCslab` implements
`GracePeriod` (proved), `CslabMem` assumes only `GracePeriod`, and its property
`StaleFlagsBounded` is what justifies `unseen` in `RcuCslab`: the flags a reader
may load as set are those of present items and of removals made since it
synchronized.  `CslabIter` takes from `CslabMem` that every flag the thread has
synchronized with lies below the frontier it loads (`FrontierCoversGot`).

## 3. Runs

Passing runs:

| Run | Bounds | Shows |
|---|---|---|
| `rcu_cslab` | 2 slots, 3 items, 2 handles, 3 generations | `FreelistExact`: the links form one list through exactly the empty slots; `CountersExact`; `FlagsSound`: a set flag has an item behind it, below the frontier; `RefsValid` (a reference lives as long as its handle), `CreationOrder`, `GenerationBlind`, `RemovalsTracked`, `NoStragglers`, `NothingLeaked`, `IterExact`, `ProxiesPresent`, `EntryReserved`, `DropExact`, and the refinement `ImplementsGracePeriod`. |
| `rcu_live` | 1 slot, 2 items, 1 handle, 3 generations | `GenerationsEnd`: a generation nobody holds is finalized; `StorageFreed`: once everything is dropped the storage goes. |
| `iter` | 5 slots in 2-bit words | `LoadsInBounds`, `NothingMissed`, `EachOnce`, and `CallsReturn`, for every bitmap, every frontier and every change of flags; `ExclCount`: what an `ExclIter` answers for `size_hint()` and `count()` is the number of items it has yielded plus those to come, so it is exact before the first `next()` and too large by the items yielded after it. |
| `mem` | 2 slots in one word, 2 readers, 14 stores | `NoRacyRead`, `FrontierCoversGot`, `StaleFlagsBounded` under release/acquire. |
| `cbpf` | every code from 0 to 0x1ff as the first of two instructions; programs of up to 3 of 14 instructions, and ones at the length limit; 4-bit words, packets of 0 to 5 bytes | `CodesAgree`: the validator accepts a code exactly when the interpreter has an arm for it; `OperandsInBounds`, `FetchInBounds`, `ForwardOnly`, `Terminates`. |
| `rcu_lock` | 2 readers, 2 writers, 4 objects | `LockImplements` (refinement of `RcuBox`), `OldValueGoes`: an old value goes away once nobody refers to it; `CountsExact`. |
| `rcu_epoch` | the same | `EpochImplements`; `OldHandedOver`: an old value is with the writer that took it out or with the collector, once. |
| `guarded` | 2 slots, 4 handles, 2 users | `EntryValid`: what an entry guard dereferences unchecked is still there; `RemovedRecycled`: once a removal is published, readers that come and go for ever do not keep it from being finalized, if the box destroys old handles by itself (not claimed for crossbeam, the default feature). |
| `uds` | 2 descriptors besides one of the rest of the process, buffers with room for 2, 2 messages in, 1 out | `OwnersExact`: every open descriptor has one owner and every owner an open descriptor, through sends, receives, failures, cancellation and the conversions of `CowFd`; `RecvReturns`: a receive with data to read comes back. |

Violation runs, each a disagreement between the code and what the repository
says of it (`findings`):

| Run | Shows |
|---|---|
| `vacant_key_stale` | 2 slots, 2 handles, 2 generations. A read handle of the old generation keeps a removal pending; after `RcuCslab::vacant_key()` its thread drops it, and the destructor there changes the index of the next insertion. (`VacantRcuEntry` is safe: `EntryReserved`.) |
| `uds_send` | `recv` calls `try_io` with `Interest::WRITABLE`: when it would block it clears the writability of the socket, and a concurrent `send` waits for ever although the socket is writable. (With `READABLE` the property holds.) |
| `uds_reuse` | `recv` adopts descriptors from the control buffer before it looks at the result: after a receive that installed a descriptor, a second one with the same `SocketAncillary` whose `recvmsg()` fails adopts the descriptor again and closes it with the `CowFd` of the first. (A send leaves a header in its buffer in the same way.) |

Why the bounds are enough.  Two slots give a free list that is
empty, is one slot or has its two slots in either order, with a relative link that
is zero, positive or negative.  Two handles and three
generations give an old and a new reader, a generation in the middle whose
destructor has to wait, and a removal pending in each; a third handle only
repeats the role of one of them.
Five slots in words of two bits have a first, a middle and a partial last word.
Two writers are what a lost update or a lost race
needs, and two readers let one hold an old value while the other holds the new
one; the fourth object keeps a name free while two old values are still held.
Two slots in a word is what the hazard of a neighbouring flag needs.
Four handles in `guarded` are one in the box, one on its way into it, and one old
handle for each user.  Two descriptors and room for two let a count that is one
too large or too small meet a neighbour; two messages let one arrive while the
receive of the other is between its steps.  Words of
four bits and bytes of one keep the wrap-around of `u32` within reach.  Every
safety property of a passing run is also proved for all values of the constants
(section 4), so the bounds matter only to the liveness properties.

Fairness.  `RcuFairSpec` assumes that a thread inside a destructor, inside
`remove()`, or returning from `insert()` goes on: the code never waits there for
anything but the mutex.  Nothing obliges a client to drop a handle, a proxy or a
`VacantRcuEntry`; and `std`'s mutex is not fair, so `GenerationsEnd` is
conditional on the writer eventually leaving its vacant entries.  `IterSpec`
and `CbpfSpec` assume that the loop of a call in progress runs.  `LockSpec`
assumes that a call that has its lock goes on and that readers complete,
as the comment on `write()` does; waiting writers get no fairness.  `RcuEpoch` has
none: nothing in this crate makes crossbeam's collector run.  `GuardedSpec` takes
from the parts what they are checked for: that the box lets go of what nobody
refers to (`OldValueGoes`) and that a generation nobody holds is finalized
(`GenerationsEnd`); a user of a guard lets it go, and the writer may stop at any
time.  The first of the two is checked of the lock-based boxes only, so
`RemovedRecycled` says nothing of the crossbeam feature.  `StreamSpec` assumes that the runtime runs a task that is ready and polls
its driver while tasks run, as a runtime of several threads does; of the peer it
assumes nothing, so `RecvReturns` and `SendReturns` have as a premise that the
socket stays writable, and `SendReturns` that events on the socket cease.  The
premise of `RecvReturns` is one the code makes necessary: a receive that waits for
data tries under the interest in writing, so it also waits for room to write.

Deadlock is checked except in `cbpf`: a finished filter does nothing more.

Observations made while modelling, which no run states:

* `RcuCslab::insert` into a full slab (`cslab/src/lib.rs:1651`) destroys the rejected
  item while the temporary guard still holds the mutex, against the rule "drop items
  outside the mutex to prevent deadlocks" at 1391.
* Dropping a `Cslab` with a removal that was never finalized leaks the item; the
  comment at `lib.rs:705` announces a double free.
* `ExclIter::size_hint` (`lib.rs:485`) answers the number of items at the start
  however many have been yielded, although `ExclIter` is an `ExactSizeIterator` (500);
  and so do `count()` and `len()`. `ExclCount` says by how much they are off.
  `RcuIterMut`, which counts down, is exact (`IterExact`).
* At the end of a stream `recvmsg()` returns 0 and `recv` answers with whatever errno
  an earlier call left (`unix.rs:165`); if that is EAGAIN the asynchronous `recv`
  goes round for ever.
* The asynchronous `recv` never clears the readable bit, so once it has been set a
  `recv` with nothing to read spins until data comes (`tokio.rs:109`).
* A message without descriptors leaves those of the message before in the
  `SocketAncillary` (`unix.rs:154`), where they look as if they had come with it.
* `add_fds()` does not check the room in the buffer (`unix.rs:34`).
* The crossbeam `RcuBox` leaks the value of an exchange that failed and the last value.
* `update()` of the crossbeam `RcuBox` defers the destruction of what `fetch_update()`
  returns in `Ok` (`rcu.rs:253-265`). The model takes this to be the pointer that was
  replaced, which is what crossbeam documents and the code relies on. The library's
  source is not part of this repository; its `compare_exchange` is documented to
  return the pointer *written*, so the version in use (`Cargo.lock`: 0.9.20) deserves a
  look. If `fetch_update()` returned that one, the new value would be destroyed while
  it is in the box and the old one leaked: with the mutant `exchange_Written`
  both `OldHandedOver` and `EpochImplements` fail.

## 4. Proofs

Every safety invariant and every refinement that a passing run checks is a
theorem, for every value of the constants.  Each proof has the same shape: an
inductive invariant that implies the property, one lemma per action or per
conjunct that the actions disturb, and a last step that combines them.  The
invariants that are stronger than what the runs check were checked with TLC on
the constants of the runs before they were proved.

**The slab** (`RcuCslabProofs`, first part; every capacity, every set of items).
`CslabInv` is `CslabTypeOK /\ FreelistExact /\ CountersExact /\ FlagsSound`; it is
inductive as it stands because `FreelistExact` is stated with a witness, a rank
that counts the slots behind each slot in the list, and not with reachability.
`DropInv` adds that an item is in at most one slot.  Theorems: `CslabCorrect`,
`DropCorrect`.

**The generations** (`RcuCslabProofs`; every capacity, number of handles and bound
on generations).  The inductive invariant `RcuInv` has, besides the types, the
slab's own invariant and `RemovalsTracked`:

* `GenInv`: who holds a generation finds it live; live generations form a chain
  in which each keeps the next alive; generations are born in order.  From the
  chain follows `CreationOrder`: the last owner of a generation can only go
  away after its predecessor is gone.
* `ReaderInv`: a removal a handle has not seen is pending (or being entered) in
  a generation at least as new as the handle's (`UnseenWait`); proxies that can
  still remove belong to the newest generation or its predecessor, with no
  handle in between (`ProxiesNew`); the storage outlives all of them.
* `WriterInv`: the iterator's count, the proxies and the reserved slot.

The argument for `ReferencesStayValid`: a slot is recycled by the destructor of
the generation its removal is pending in.  By `UnseenWait` a handle that has not
seen the removal belongs to that generation or an older one; by `CreationOrder`
all of those are gone, and a handle keeps its own alive.  The same argument
gives `GracePeriodKept`, the refinement.  `RcuTypes`, `FreelistKept`,
`CountersKept`, `FlagsKept`, `GenerationsEndInOrder`, `GenerationsBlind`,
`RemovalsRecordedOnce`, `IterCounts`, `ProxiesSound` and `EntriesReserved` are
read off the invariant.

That nothing is forgotten needs a second invariant over the first, `LastInv`: a
destructor past its loop has no removal left and one that has ended no item
(`EndedEmpty`), the chain links generations that have not ended to their
successors (`LinksOnward`), a live generation has an owner (`LiveHeld`), and an
item a destructor took out is in no slot and in no other limbo (`LimboOwned`).
`AllFinalized` and `DestructorsExact` follow.  `NoneStraggles` looks at the oldest
generation that has not ended: its predecessor is gone, so what keeps it is a
handle, a proxy, a call or its own destructor.

**Iterators** (`CslabIterProofs`; every capacity, word size, frontier and change of
flags).  `IterInv`: `head <= tail`, and `<` inside a call; what was yielded lies
behind the ends and was flagged; with exclusive access nothing changes and the
count is the number of items; and `NothingMissed`.  The heart are `ForwardTurn` and
`BackwardTurn`: the shift by `head % BITS`, then the distance to the first bit (or
to the end of the word), pass over no flag the thread has synchronized with.
Theorems: `IterTypes`, `LoadsStayInside`, `ScanMissesNothing`, `YieldsEachOnce`,
`CountIsTotal`: the last one by `bitmap` being, with exclusive access, the disjoint
union of what was yielded and what lies between `head` and `tail`.

**Memory orderings** (`CslabMemProofs`; every number of slots, readers and stores).
`MemInv` relates histories: the newest store of a word has the flags of the items
present and is newer than their entries (`NewestFlags`); a store that sets a flag
releases, and a frontier above it is older (`FlagStores`); what a reader may
load as set is this tenant's flag (`LoadsCurrent`); what it has got it has
synchronized with (`GotKnown`).  A step that adds a store only takes stores away
from what readers may load (`LoadableShrinks`, `LoadableAppend`).  Theorems: `NoRacyReads`,
`FrontierCovers`, `StaleBounded`.

**The boxes** (`RcuLockProofs`, `RcuEpochProofs`; any number of values, readers and
writers).  With a lock: `LockInv` has the counts themselves (`CountsExact`), which
steps of a writer have the mutex and an old pointer, that what a closure reads or
has derived from is still in the box (`WriterSteps`), and that a guard of the
`RwLock` keeps writers out (`ReadLocked`).  A count that reaches zero has no owner
left (`DeadUnowned`), so `release` and `drop_old` destroy what nobody refers to:
`CountsKept`, `LockIsBox`.  With epochs: `EpochInv` says that whoever refers to a
value is pinned and that a deferred value waits for exactly those threads
(`RefsWaited`), so the address an exchange compares with cannot have been used
again: `OldValuesHandedOver`, `EpochIsBox`.

**Entry guards** (`GuardedSlabProofs`; any number of slots, handles and users).
`GuardedInv`: the handle of a guard is not destroyed (from `RcuBox`), and the slot of
an entry is present, or marked and blocked by that very handle (from
`GracePeriod`): `EntriesStayValid`.

**Filter programs** (`CbpfProofs`; every program, packet and word size).  `CbpfInv`
says that the instructions the validator has passed are fine, and that while the
filter runs all are, the last is a return, and the pc is inside the program.
`FetchesInside`, `ProgramsSafe` and `CodesMatch` follow; `JumpsForward` is the
action property.

**Descriptors** (`UnixStreamProofs`; any number of descriptors, any room in the
buffer, any queues).  `StreamInv`: the descriptors of the client, of its `CowFd`s and
of both `SocketAncillary`s are apart and together all that is open (`OwnersApart`),
what is borrowed the client owns (`BorrowsLive`), and while a receive runs its
buffer has no header (`NoHeader`).  `ListingExact` shows that the words `num_fds()`
finds are exactly the descriptors that were installed: ranked by how many are
smaller, they are numbered without a gap.  Theorem: `DescriptorsOwned`, under the
hypothesis `Reuse = FALSE`; the run `uds_reuse` shows that it is needed.

Assumptions, all evaluated by TLC on every run: the capacity and the word size
are positive (`CapacityAssumption`, `IterAssumption`, `MemAssumption`), bounds are
natural numbers (`MaxGenAssumption`, `AncillaryAssumption`, `StreamAssumption`),
the marks for "none" are no values (`GuardedAssumption`, `EpochAssumption`,
`LockAssumption`), threads read or write and, where counts are compared, are
finitely many (`LockAssumption`), and the bit operations of a word give a word
(`CbpfAssumption`).

Induction.  The provers cannot instantiate the induction rules of the library.
Where a number is argued about by induction the proofs use `LeastNumber`: a
nonempty set of naturals has a least member, so there is no least counterexample.

Only model-checked: liveness, which is outside the prover: `GenerationsEnd`,
`StorageFreed`, `CallsReturn`, `Terminates`, `OldValueGoes`, `RemovedRecycled`,
`RecvReturns`; and the three runs that show a violation.

## 5. Not modelled

* `RcuCslab::remove` and `clear` are sequences of modelled actions, and so are
  `get_mut` and the like, which are lookups; they have no action of their own.
* Poisoning of the mutex by a panic, allocation failure, the depth of the stack
  when a long chain of generations unwinds.
* The bound on generations stops the model and not the code; nothing in the code
  counts them.
* Of `RcuBox`: the aarc implementation (the control of arc-swap over a library that
  reclaims in its own way), the drop of the box (no guard or writer is left then, so
  nothing interleaves with it), poisoning, and `RcuOptionGuard`, a check and an
  unchecked unwrap under one guard.  `RcuEpoch` takes `fetch_update()` by its
  documentation (see the observations), is sequentially consistent, which is
  the assumption that the comment in its `write()` spells out, and forgets the value
  of an exchange that failed, which the code leaks.  A thread that writes while it
  holds a guard of the `RwLock` is not modelled: readers and writers are different.
* Of the socket extensions: `UdpSocketExt` (one system call per method), errors of
  `readable()` and `writable()` when the runtime shuts down, and tokio's budget per
  task.  A buffer that is not zeroed at first, or too small for what is added, is a
  precondition (`AncInit`, `add_fds`).
* `net_defs` (layouts of headers, a checksum, address conversions) and the small
  conversions of zpr-ext: pure functions on bytes, with no sequence of steps and
  nothing for a model to abstract.  `rsa_sign` is a thin layer over a cryptographic
  library.
* `BpfProgram::new_unvalidated` (unsafe; its contract is the invariant proved
  here) and the conversion from libpcap.

## 6. Plan

1. (done) `Cslab`, `GracePeriod`, `RcuCslab`, `CslabIter`, `CslabMem`, `Cbpf`, and
   the proofs of the safety of the slabs and the filter; `RcuBox` and four
   implementations of it.
2. (done) `GuardedSlab`, the box of `RcuCslabReader`s; `Ancillary` and `UnixStream`.
3. (done) The safety invariants and the refinements of every component, proved.
4. Proofs that remain worth while: the safety half of liveness as action properties
   with a measure (each turn of a scan leaves less between `head` and `tail`; each
   step of a destructor leaves less pending), and the refinement of `GracePeriod` by
   `CslabMem`, which now holds by the shape of its actions.
