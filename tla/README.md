# LVTK in TLA+

LVTK is a header-only C++ toolkit for LV2: audio plugins and their UIs are
written with the classes `Plugin` and `UI`, to which mixins add LV2 extensions;
hosts use `Symbols`, `FeatureList` and `OptionArray` to offer features. This
directory holds TLA+ models of the library's own logic, the TLC runs that check
them and the proofs that TLAPS checks. Paths below are relative to the
repository.

How to run, from this directory:

    tlc -workers 2 -config MCSymbols.cfg MCSymbols     # one run
    tlapm SymbolsProofs.tla                            # one module of proofs

`PROJECT.json` lists the runs, the mutants that show that each property can
fail, the lines every definition stands for, the hazards and the theorems.

## 1. The system: components, state, operations

All the code is in `include/lvtk`. Only two things in it are made for several
threads: `SpinLock`, and the worker extension, whose callbacks the host calls
from two threads. The rest is sequential code whose difficulty is in *long
sequences of legal calls*: raw pointers that are copied into other objects,
class-wide statics written by constructors, sizes and offsets in C structures.

| Component | State it keeps | Operations | What makes it correct | Status |
|---|---|---|---|---|
| `Symbols` (`symbols.hpp`) | two hash tables, two referral pointers | constructors, `map`, `unmap`, `clear`, `refer_to`, destructor | ids of `map()` are unique, stable, invertible; referrals never dangle or circle | modelled, proved |
| `SpinLock` (`spin_lock.hpp/.ipp`) | one atomic int | `lock`, `try_lock`, `unlock`, `locked` | exclusion; a free lock is granted; `try_lock` never waits | modelled, safety proved |
| `WeakRef`, `WeakStatus` (`weak_ref.hpp`) | shared status cells | make, copy, move, empty, `lock`; object construction, destruction | `lock()` yields the object while it lives, never afterwards | modelled, proved |
| `Plugin`, `Descriptor` (`plugin.hpp`) | descriptors; per class: required features, extension data; the instances | registration, `instantiate`, `cleanup`, `extension_data`, forwarding callbacks | instances have what they require; overrides win | modelled, proved |
| `Worker` (`ext/worker.hpp`) | the schedule of each instance | `schedule_work`, `work`, `respond`, `work_response`, `end_run` | work stays with its instance; statuses are true; accepted work is done | modelled, safety proved |
| `Sequence` (`ext/atom.hpp`) | a buffer of events | `reset`, `append`, `insert`, iteration | the bytes are whole events, in order | modelled, proved |
| `Forge`, `ScopedFrame`, `Object` (`ext/atom.hpp`) | buffer, stack of frames, C++ scopes | containers, marks, values, strings, raw bodies; iteration | sizes are exact whatever is refused; what is written is read back | modelled, proved |
| `FeatureList` (`lvtk.hpp`) | a vector and a cached array of pointers | construction, `add`, what `std::vector` adds (removal, `reserve`, `swap`), assignment, `null_terminated` | the array ends in time and is that of this list, where the check suffices | modelled, proved |
| `OptionArray` (`options.hpp`), `BufferDetails` (`ext/bufsize.hpp`) | malloc'ed options, ownership flag, count | `add`, reference, destructor, iteration; `apply_options` | terminated while current; all readers see the same options | modelled, proved |
| `UI`, `UIDescriptor`, `Controller`, `PortSubscribe` (`ui.hpp`, `ext/port_subscribe.hpp`) | descriptors, required features, instances, controllers | registration, `extension_data`, `instantiate`, `cleanup`, `port_event`, `write`, `subscribe` | the host holds the right UI or none; a UI shows the plugin's values | modelled, proved |
| mixins `URID`, `Log`, `Options`, `BufSize`, `ResizePort`, `InstanceAccess`, `DataAccess`, `Parent`, `PortMap`, `Touch`, `Resize` (`ext/*.hpp`) | pointers found in the features | one scan in the constructor, calls through the pointer, extension data | the scan finds its features in any order; what is required can be used | modelled, proved |
| `State` (`ext/state.hpp`) | a wrapper for each call | `_save`, `_restore`, store, retrieve | values and statuses stay with their call | modelled, proved |
| `Idle`, `Show` | none | forwarding callbacks, extension data | as `Plugin` | partly (their extension data) |
| `DynManifest` | the author's object | four C functions | – | not modelled |
| `Vector`, `Atom` accessors | none | accessors, iteration | agree with LV2 | not modelled |
| `String`, `Context`, `Optional`, memory helpers; C header, docs, examples, build | – | – | – | not modelled: wrappers of the standard library, text |

How they interact. The host calls `lv2_descriptor()` and the C functions in an
`LV2_Descriptor`; `Plugin` turns them into methods and builds a `FeatureList`
of the host's features, from which each mixin's constructor takes its pointers
(`PluginMixins` composes the two).
Instances call back through those pointers (`schedule_work`, URID `map`,
`subscribe`), so host and plugin share what they point to. `Worker` extends
`Plugin` in the model as the mixin does in the code. `Symbols` sits on the
host's side of URID `map`; `OptionArray` on the host's side of what
`BufferDetails::apply_options` reads on the plugin's.

What is hard, at its line, is the list `hazards` of `PROJECT.json`. In short:
copied raw pointers that outlive a change of their source (`symbols.hpp:128`,
`lvtk.hpp:196`, `options.hpp:89`, `ui.hpp:237`), ids and sizes computed from
counts (`symbols.hpp:56`, `ext/atom.hpp:396`, `:408`, `options.hpp:89`), lists
that belong to a class and not to its instances or descriptors
(`plugin.hpp:71`), writes that fail in the middle (`ext/atom.hpp:56`,
`ui.hpp:247`), two threads (`spin_lock.hpp:37`, `ext/worker.hpp:150`,
`ext/state.hpp:128`), the order in which a host lists its features
(`ext/bufsize.hpp:83`, `ext/log.hpp:89`), shared cells and reused addresses (`weak_ref.hpp:61`).

## 2. The modules

Abstract specifications say what a component promises in a few lines; the
detailed ones are checked, and some proved, to refine them.

| Module | Stands for | Refines |
|---|---|---|
| `Symbols` | `symbols.hpp` | `UridRegistry` (tables of bindings) |
| `SpinLock` | `spin_lock.hpp`, `spin_lock.ipp` | `Mutex` (exclusion, refusal, granting) |
| `WeakRef` | `weak_ref.hpp` | `WeakPointers` (weak references without cells) |
| `Plugin` | `plugin.hpp` | – |
| `FeatureScan` | the constructors, calls and extension data of the mixins, as operators on feature lists | – |
| `PluginMixins` (EXTENDS `Plugin`) | `Plugin` whose instances have the mixins of `FeatureScan` | – |
| `State` | `ext/state.hpp`, and a host that saves and restores | – |
| `Worker` (EXTENDS `Plugin`) | `ext/worker.hpp`, callbacks of `plugin.hpp`, a host with two threads | `WorkChannels`; and `Plugin` |
| `AtomSequence` | `Sequence` of `ext/atom.hpp` | `EventList` (a list of timed events) |
| `AtomForge` | `Forge`, `ScopedFrame`, `Object` of `ext/atom.hpp` | – |
| `FeatureList` | `FeatureList` of `lvtk.hpp` | – |
| `OptionArray` | `options.hpp`, `ext/bufsize.hpp` | `OptionList` (lists of options, shown until they change) |
| `UI` | `ui.hpp`, `ext/port_subscribe.hpp` | – |
| `MC*` | constants for TLC | |
| `*Proofs` | theorems | |

Definitions keep the names of the source (`refer_to`, `null_terminated`,
`required`, `extension_data`). Operators whose comment starts with *Mutant* are
not part of a model: each is a plausible bug, and putting it in the place of
the definition that follows violates a property.

**Symbols.** `scope` is the stack of live objects: C++ scopes destroy objects
in the reverse order of their construction, and `refer_to` is given an object
constructed before. The class enforces neither, but every program of the
repository keeps both, and without them a referral dangles at once.
`refer_to (Symbols&)` copies the *pointer the other object publishes*, which is
its own table or whatever it refers to at that moment; so chains of referrals
depend on history, and `map()` and `unmap()` are modelled hop by hop (`Call`,
`Forward`, then `MapNew`, `MapKnown` or `Unmap`). `refer_to (m, um)`
(`ReferToRaw`) takes a map and an unmap of any two objects or null; objects
also stand for the maps of an external host. A preloaded table may hold any
ids (`Preloads`). Calls are made on one thread. Two history variables say what
the properties have to tell apart: `loaded`, the keys a table took over, and
`mixed`, the objects whose two pointers a caller took from two objects, or that
copied such a pair. A preloaded key is `Lost` when another one has its id, or
when its id lies beyond the number of preloaded keys and `map()` has counted up
to it.

**SpinLock.** One action per access to the atomic int: the first try, the
`Spins` tries of the loop, the poll before the yield, and `try_lock`. Threads
lock, try and unlock in any order, and never unlock what they do not hold (the
class says that `unlock()` "does not check lock status").

**WeakRef.** Cells stand for the `Status` objects behind `std::shared_ptr`; one
is free when nothing shares it. Addresses are reused: `Construct(o)` may follow
`Destroy(o)` while references to the former object exist.

**Plugin.** `required` and `extensions` are function-local statics of the class
template, hence one per class however many `Descriptor`s name it. The instance
is constructed first and the features are looked for afterwards, which is one
atomic step for the host (`Instantiate` or `Refuse`).

**FeatureScan and PluginMixins.** A feature list is a sequence of a URI and a
data pointer each, and each constructor is a fold over it that says what one
turn of its loop does: the first feature with the URI, or both of two, or, in
`Log`, every one. `InstantiateMixed` is `Instantiate` of `Plugin` with the constructors
`E<S> (args.features)...` on some order of the features the host passes
(`Listings`). What a call of the host returns is represented by the data
pointer it was made with, so that *the call reaches the host* is a value. Hosts
list a URI once, and with data where a constructor dereferences it
(`Dereferenced`: `urid:map` in `Log`, `ui:portSubscribe`). UI mixins are built
the same way by `UI`.

**State.** A call of an instance lives from `_save` or `_restore` to its return,
with one step for every key the author's code stores or retrieves; calls of
different instances, and `run()` of one that is being saved, happen in between,
as the threading classes of LV2 allow. The host keeps or refuses each key.
`during` is a history variable: the values the instance had since its save
began, which is all a snapshot of a running instance can promise.

**Worker.** The host is external and follows the rules of LV2: `run()` only
between `activate()` and `deactivate()`, one audio thread, one worker thread
for each slot, `cleanup()` when no call is in progress. Responses are delivered
after `run()`, and then `end_run()` is called. `told` is what an
instance can count itself: requests for which `schedule_work()` returned success
and for which `work()` was not called yet. `work()` and its `respond` calls
interleave with everything the audio thread does. `work()` does not come back
at once: `Work` and `WorkDone` are two steps with any number of `Respond` steps
between them.

**AtomSequence.** The buffer in words of 8 bytes, since events start at
multiples of 8; sizes and positions stay in bytes. `insert()` moves words as
the code's `memmove` does and counts what the code counts. `Contents` reads the
buffer as the iterator does.

**AtomForge.** The buffer again in words. A scope is opened by the constructor
of `ScopedFrame` and closed by its destructor; between them the author's code
writes marks (keys, times) and values in turn, as LV2 demands, and ignores what
the write functions return, as the header of a `ScopedFrame` does. The
`lv2_atom_forge_*` functions are external: they append, add to the sizes of all
frames on the stack, and do nothing when the words do not fit. A header written with
`write_atom` and a body with `write_raw` are refused each for itself (`WriteRaw`).

**FeatureList.** Storage as `std::vector` handles it, with addresses that are
reused after a list has moved out of them or has been destroyed. The class
derives publicly from `std::vector` and has the compiler's assignment, so lists
also lose elements (`RemoveFeatures`), are moved (`Relocate`), assigned and
swapped; assignment copies the cache, which then points to the elements of the
other list, and `swap()` does not touch it. The history variable `since` says
what became of the storage since the cache was made: `kept`, `outgrown` by a
list that has only grown, or anything `other`.

**OptionArray.** `realloc` leaves the array where it was or moves it; what it
adds is not zeroed. Nothing keeps an owner from adding or going while it is
referenced: the references are then outdated (the history variable `shows`, the
owner a reference shows, becomes `Null`), their address may be freed or belong
to another array, and what is read from freed storage is anything. They can
still be referenced, read and destroyed.

**UI.** Two steps for `instantiate()`: `Construct`, after which the
constructor of the author's UI may write and subscribe, and `Accept` or
`Refuse`. Registration maps the extension data of the mixins in order; unlike a
plugin's, the class itself has no turn. The host has a view for each UI and sends changes of the ports a view
is subscribed to, as one event for each changed port with its current value.

## 3. The runs

All runs are exhaustive: TLC finds no state left on the queue.

| Run | Instance | Question | Properties |
|---|---|---|---|
| `symbols` | 3 objects, 2 keys, empty or with 3 preloads | are ids unique, stable and invertible through any referrals? does every call return? | `TypeOK` `TablesInverse` `NoDanglingReferral` `MapThenUnmap` `ImplementsRegistry` `CallsReturn` |
| `symbols_preloaded` | the same, preloaded with `ka -> 2` | does what `map()` returned unmap to the key? **violated** | `MappedUnmaps` |
| `core` | 3 threads, 20 spins; 2 addresses, 3 references, 6 cells | exclusion, the promises of `Mutex` with its fairness; does `lock()` of a reference ever yield a dead or another object? | `TypeOK` `MutualExclusion` `WeakTypeOK` `LockIsLive` `ImplementsMutex` `TryLockReturns` `ImplementsWeakPointers` |
| `plugin` | 2 classes with 5 and 4 mixins, 6 features in any order, 2 registrations, 2 handles; 2 lists of up to 2 features, 3 blocks | requirements, overriding of extension data, what the mixins of an instance hold; where is the array of `null_terminated()` that of the list, and does it always end? | `MixedTypeOK` `RequirementsMet` `ExtensionsOverride` `HoldsItsFeatures` `RequiredAnswers` `ListTypeOK` `CurrentUnlessDisturbed` `ArrayEndsInTime` |
| `plugin_own_requirements` | the same | is an instance refused only for what its own descriptor requires? **violated** | `RefusedForOwnFeatures` |
| `feature_list_documented` | 2 lists of up to 2 features, 3 blocks | is every array current that the documentation calls valid? **violated** | `ArrayIsCurrent` |
| `worker` | 2 instances and slots, queues of 2 | is work done, for the right instance, and are instances told the truth? | `TypeOK` `WorkStaysHome` `ImplementsWorkChannels` |
| `atoms` | events of 2 times and 2 sizes, 88 bytes; 14 words, 3 scopes, values of 1 and 2 words | are the bytes the events, in order, if an event that is inserted before another is as wide? are forged sizes exact and is everything read back? | `TypeOK` `EventsWhole` `ForgeTypeOK` `SizesExact` `ReadBack` `ImplementsEventList` |
| `atom_sequence_mixed` | the same events, without that condition | the same: **violated** | `EventsWhole` |
| `option_array` | 3 arrays of up to 2 options, 3 buffers | terminated, no leak, the same options for all readers, beside outdated references? | `TypeOK` `Terminated` `DetailsAgree` `ImplementsOptionList` |
| `ui` | 2 views, 2 handles, 2 ports, 2 values, 1 class of 3 mixins registered up to twice | the right UI in the host, the right values in the UI? | `TypeOK` `HostHoldsItsUI` `ShowsPluginValues` |
| `state` | 2 instances, 2 snapshots, 2 keys, 2 values | do values and statuses stay with their call when calls overlap? | `TypeOK` `SnapshotIsOwn` `StatusTruthful` |

Three runs hold two components each: `SpinLock` and `WeakRef` (`MCCore`),
`AtomSequence` and `AtomForge` (`MCAtoms`), `PluginMixins` and `FeatureList`
(`MCPlugin`). The two share no variable and no call, hence every property of one
is indifferent to the steps of the other, and each is explored while the other
is in its initial state. The next-state relation of the run is the two one
after the other, and the fairness is that of the one component that has any.

Why the bounds are enough. *Symbols*: a stale copy of a pointer needs three
objects (one that is re-pointed, one it pointed to, one with the copy), and so
does a pair of pointers of two objects; two keys are needed for two to share an
id; the preloads are one that `map()` could have made, one with a gap and one
with a repetition. The names of the objects are interchangeable, and the
constraint `InOrder` takes them in the order of their construction. *SpinLock*: three threads have two that
wait while one holds; `Spins` is that of the source. *WeakRef*: two objects can
be at the same address one after the other while the other lives; a cell for
each holder and one to spare. *Plugin*: two registrations of one class or of
two, with different requirements; hosts list at most one feature, or two or
three of those that some mixin needs together (`MCGiven`): other features are
skipped one by one by every loop, so that more of them add nothing but length.
*State*: a save of one instance overlaps a save or a restore of the other, and
each can be refused at its first or second key. *Worker*: two instances suffice to confuse
them, and queues of two can be empty, partly filled and full.
*AtomSequence*: 88 bytes hold the sequence's header and three narrow events, or
two of any kind: one to insert before, one to be moved, one to come after, at
equal and different times.
*AtomForge*: 14 words hold three nested containers with a property each, or
refuse any one of the writes. *FeatureList*: two lists to assign and swap, a block for each and one to
move to, so that an address is left, taken by the other list and taken again;
two features so that a list can shrink and not be empty.
*OptionArray*: one array to own, one to reference, and one that refers through
the reference or takes the storage that was freed. *UI*: a second view at the handle that a refused or deleted UI had;
a second registration that adds to the requirements while a UI lives; a mixin
that overrides part of what another one maps.
`MaxDescriptors`, `QueueSize`, `Capacity`, `MaxScopes`, `MaxSize`, `MaxOptions`
and `Len(scope)` (the number of names in `Syms`) are all the bounds there are; each is a guard.

Symmetry is used only in runs without liveness: for arrays and buffers
(`option_array`), which are only compared and which `OptionList` treats all
alike, and, where invariants only are checked, for handles and blocks
(`plugin`), for views, handles and values (`ui`) and for all constants
(`state`).

`CHECK_DEADLOCK` is left on everywhere: no model can stop.

## 4. Fairness

- `Symbols`: `WF` of the steps of a call in progress: a function that has been
  called runs on. Nothing is assumed of clients. `CallsReturn` then says that no
  referral leads in a circle.
- `SpinLock`: `WF` of each thread's own steps inside `lock()` and `try_lock()`:
  the scheduler runs every thread. Nothing is assumed of a thread that holds the
  lock, it may keep it. No strong fairness: the lock does not promise that a
  *particular* thread ever gets it, and `Mutex` does not either.
- `Worker`: `WF` of `Work(s)` and `WorkDone(s)`: the worker thread takes
  requests, and an author's `work()` returns. Nothing is assumed of the audio
  thread, which may run, respond or stop.
- All others are safety only: nothing in those components has to happen.

## 5. What is proved

TLAPS proves the following for every value of the constants that satisfies the
named assumptions of the modules. Each module of proofs first proves an
inductive invariant and takes its theorems from it.

| Theorem | Statement | Argument |
|---|---|---|
| `SymbolsProofs!TypeCorrect` | `Spec => []TypeOK` | by itself inductive |
| `TablesStayInverse` | `Spec => []TablesInverse`, for any preloads | inductive with `TypeOK`; with `n` keys in the table, adding `(k, n + 1)` leaves `loaded` keys their ids and the others `n0 + 1 .. n + 1`, where `n0` keys were preloaded: the new id can only be that of a preloaded key, which is `Lost` from then on (`ExtendInverse`) |
| `ReferralsSound` | `Spec => []NoDanglingReferral` | with `ScopeDistinct`: a name occurs once in `scope`, so that *older* is transitive; the pointer that is copied leads to an older object than the one it is copied from |
| `CallsTravelToOlder` | `Spec => CallsGoToOlder` | a call is inside a live object, and the references of that lead to older ones: the hops of a call are a descent in the order of construction |
| `MappedIdsUnmap` | `Spec => []MapThenUnmap` | with `Paired`: both pointers of an object that is not `mixed` lead to one object; and `CallOnTheWay`: where a call is, `unmap()` would end as from where it entered, since a referral leads to an older object and there are fewer of those than hops (`RootOfReferral`) |
| `SymbolsImplementRegistry`, `IdsAreStable` | refinement of `UridRegistry`; `IdsKeepMeaning` | step by step, from the above and from: a dead object has empty tables, a call is inside a live one |
| `SharingProofs!TypeCorrect`, `Exclusion`, `LockedTruthful` | `TypeOK` and the two invariants | together inductive: the flag is 1 exactly when some thread is critical, and at most one is |
| `SpinLockImplementsMutex` | the safety part of `Mutex` | a won exchange is `Grant`, a lost `try_lock` is `Refuse`, spins and yields are stutters |
| `SharingProofs!WeakTypeCorrect`, `LocksAreLive`, `StatusesAreFaithful`, `WeakRefImplementsWeakPointers` | | with `PtrOwned`: a cell that points to an address is the cell of the object that lives there; so clearing one cell clears all references to the object and no others |
| `PluginProofs!PluginTypeCorrect`, `InstancesHaveTheirFeatures` | | with `RequiredIsDeclared`: the list of a class is the union of what its descriptors declared; it only grows, so what was checked for an instance includes what its own descriptor required |
| `ClassesOverrideMixins` | `Spec => []ExtensionsOverride` | the fold of `initialize_extensions()` gives each URI to its last writer, whatever the table held (`LastWriterMaps`); so a second registration changes nothing |
| `WorkNeverStrays`, `WorkerTypeCorrect` | `WorkStaysHome` and `TypeOK` of `WorkerSpec` | with `HostInv`: slots, schedules and handles are paired one to one, and queues of a slot without instance are empty; and `CountsInv`: what an instance was told agrees with what is queued |
| `WorkerImplementsPlugin` | `WorkerSpec => Plugin's Spec` | every step of the host with two threads is one of `Plugin` or leaves its variables |
| `WorkerImplementsChannels` | the safety part of `WorkChannels` | a request, an answer or a delivery changes the queues of one slot, hence what one instance is owed (`OneSlotChanges`) |
| `MixedTypeCorrect`, `MixinsHoldTheirs`, `RequiredFeaturesAnswer` | `MixedTypeOK`, `HoldsItsFeatures` and `RequiredAnswers` of `MixedSpec` | with `MixedInv`: the mixins of an instance were constructed on *some* listing of its features; each scan, over any part of a listing, has found what that part gives for its URIs (`PartStep`), whatever the order |
| `OptionArrayProofs!TypeCorrect`, `ReadersStop` | `TypeOK`, `Terminated` | with `BufferOK`: what is allocated is options up to a zeroed one; `OneOwner`: exactly one array owns it; and `ArrayOK`: an owner counts all of its options, a reference that is current those up to an end in its owner's storage. Of outdated references nothing is needed but their type |
| `DetailsAreShown` | `Spec => []DetailsAgree` | the iteration and `apply_options()` stop at the same option, and a fold that overwrites keeps the last value |
| `OptionArrayImplementsList` | refinement of `OptionList` | step by step; `add()` and the destructor change what is shown by the references of that owner, which the list withdraws, and by no other array that is current, because each storage has one owner |
| `UIProofs!TypeCorrect`, `HostHasItsUIs`, `UIsShowPluginValues` | the three invariants | with `ViewOK` (the host's side: the handle a view has or waits for is that of a live UI with its controller) and `InstanceOK` (the library's: a live UI is the one its view has or waits for, and knows no subscription that the host does not know); `ClassOK`: the class requires what each of its descriptors does |
| `AtomProofs!TypeCorrect`, `EventsStayWhole` | `TypeOK` and `EventsWhole` of `SpecAsWide` | with `Laid`: there are a list of events and the first word of each, so that the words up to the end are these events one behind the other; and `CellsFit`, which keeps even a walk over stale bytes in bounds |
| `SequenceImplementsEventList` | refinement of `EventList`, under `SpecAsWide` | the walk over the sizes in the headers reads the list of the layout (`LaidIsRead`); `append()` and `insert()` make the layout of the longer list (`AppendLays`, `InsertLays`) |
| `InsertsKeepOrder` | `SpecAsWide => InsertKeepsOrder` | the least position whose event is later (`PlaceOrder`) splits a sorted list in the events that are not later and those that are |
| `AtomProofs!ForgeTypeCorrect`, `SizesStayExact` | `ForgeTypeOK` and `SizesExact` of `ForgeSpec` | with `SizesInv`: frames are headers of containers in the order of their scopes, whatever was refused; every block of words that fits is counted by all of them at once |
| `ContainersStayNested` | `ForgeSpec => []ContainersNest` | inductive with `SizesInv`: a step adds at most one container, open and at the end of the buffer, changes the sizes of open ones only, and the frame that is popped is behind all others on the stack (`NestStep`) |
| `ForgedIsReadBack` | `ForgeSpec => []ReadBack` | with `ForgeInv`, which says more as long as nothing was refused. `Nested`: a container inside another is the value of a mark of it. `Chained`: the marks of every container are a chain from its header to its end, each as far from the next as the size between says; only the innermost open one may end with a mark that waits for its value. An iteration of a chain meets all of it (`IterationMeets`) |
| `StateProofs!TypeCorrect`, `SnapshotsAreOwn`, `StatusesAreTruthful` | | with `CallsApart`: a snapshot that is being written is in no other call, and `CallsProgress`: what a call in progress has stored or retrieved so far; a snapshot before its save is empty, so a key that was refused stays absent |
| `FeatureListProofs!TypeCorrect`, `UndisturbedIsCurrent`, `ArraysEndInTime` | `ListTypeOK`, `CurrentUnlessDisturbed`, `ArrayEndsInTime` of `ListSpec` | with `CacheFits`: while the storage was kept, the cache is its first elements; when a list has outgrown it, the list is longer than the cache, so that the length check of `lvtk.hpp:196` makes a new one; and `OneEnd`: a cache has one `nullptr`, at its end, whatever it was copied from |

The assumptions. The named `ASSUME`s say that null pointers are not objects,
that bounds are natural numbers, that a preloaded table is a finite function
from keys to numbers, whichever (`PreloadsAssumption`), that a sequence's buffer is a multiple of 8 bytes and a forged value at least one word,
and that lists are finite: `PluginAssumption` and `UIAssumption` that a
class has a sequence of mixins; `MixinsAssumption` that a host passes finitely
many features, with data where a constructor dereferences it. TLC evaluates all
of them in the runs.

Loops over lists. What a fold or a recursive function computes is proved by
taking the least position at which it would differ from what is claimed
(`LeastNumber`, from the well-foundedness of `<` on the naturals): at that
position and the one before it the definition says the opposite. So the
theorems about `initialize_extensions()`, the scans of the mixins,
`apply_options()`, the iterations of options, of events and of forged containers
and chains of referrals hold of lists and chains of any length.

Eight theorems are about properties that no run checks on its own. Five
(`IdsAreStable`, `LockedTruthful`, `StatusesAreFaithful`, `PluginTypeCorrect`,
`WorkerImplementsPlugin`): the refinements the runs check, and `MixedTypeOK`,
fail whenever they would. `CallsTravelToOlder` is the safety part of
`CallsReturn`, `InsertsKeepOrder` says of sorted sequences what the refinement of
`EventList` comes to, and `ContainersStayNested` says how containers lie in the
buffer when writes were refused, where `ReadBack` says nothing; TLC found no
violation of `InsertKeepsOrder` and `ContainersNest` on the instances of
`atoms`. `SpinLockImplementsMutex` and
`WorkerImplementsChannels` are the safety parts of `ImplementsMutex` and
`ImplementsWorkChannels`. `EventsStayWhole`, `InsertsKeepOrder` and
`SequenceImplementsEventList` say nothing of `Spec`, which the run
`atom_sequence_mixed` refutes.

Only model-checked: liveness
(`CallsReturn`, `TryLockReturns`, the fairness of `Mutex` and `WorkChannels`) is
out of the prover's reach and stays with TLC. `ForgeInv` and its parts were
checked by TLC on the instance of `atoms` before they were proved.

## 6. Disagreements between the code and what is said of it

Shown by a run:

- `ext/atom.hpp:408`: `Sequence::insert` moves the events behind the new one by
  the padded size of the event it *found*, not of the one it inserts. In the
  run `atom_sequence_mixed` a wide event is inserted before a narrow one: its
  last word is written over the time of the event that was moved, and the
  iteration ends up inside that event. A narrow event before a wide one leaves a
  gap with a stale word. With equal widths all is well (`atoms`); the
  repository's test inserts events of one size only.
- `lvtk.hpp:196`: `null_terminated()` keeps its array when the length fits. In
  the run `feature_list_documented` the storage of a list with one feature is
  moved by `reserve()` or `shrink_to_fit()`, and the array that is returned next
  points to what was freed, against `:190-193`. `pop_back()` and `push_back()`,
  `swap()` and assignment do the same. `CurrentUnlessDisturbed` says when the
  check suffices.
- `plugin.hpp:71`: a descriptor's required features are required of all
  descriptors of its class, while `:65-67` and `:75` speak of each one
  (`plugin_own_requirements`: a descriptor without required features is
  refused).
- `symbols.hpp:56`: a new id is `1 + _mapped.size()`; with a preloaded table
  that is not numbered `1 .. n` it may be in use, and the preloaded symbol no
  longer unmaps, although `:65-68` promises the previously mapped symbol
  (`symbols_preloaded`). `TablesInverse`, `MapThenUnmap` and the registry say
  what remains true of such tables.

Seen in the code while modelling, without a run:

- `symbols.hpp:75` returns `""` for an unknown id, `:68` says 0.
- `ext/atom.hpp:182`: `begin()` of an object without properties is not `end()`.
- `ext/atom.hpp:655`, `:631`: `operator!=` of a vector's iterators is false for
  all iterators of one vector, and `size()` counts the vector's own header.
- `ext/log.hpp:89`: the counter that is to end the scan is reset in each turn,
  so the loop always goes on to the end of the list.
- `lvtk.hpp:186`: `contains()` asks for the data, and is false for a feature that
  is listed without, as features without data are; `:185` says "true if the uri
  is found". Nothing in the library calls it.
- `weak_ref.hpp:27`: assigning to an object that can be weakly referenced drops
  its status without clearing it; references made before then `lock()` it after
  it is gone, against `:112`. The class in the header's example (`:86-102`) does
  not delete its copy operations; the model's objects are not copied.
- `options.hpp:69`: `OptionArray` owns memory and has the compiler's copy
  constructor; a copy frees it twice. The model's arrays are not copied.
- `options.hpp:89`: `add()` and the destructor leave references to their array
  dangling. Nothing says how long a reference is good, so that no property is
  violated; the model lets it happen and the properties speak of current arrays.

## 7. Plan, and what is not modelled

Done: the modules of section 2 and the proofs of section 5. Every
invariant of the passing runs is a theorem, and so is the safety part of every
refinement. Liveness stays with TLC. Not stated so far: what the iterators
read of a buffer in which writes were refused, beyond where its containers end
and how they are nested.

Not modelled:

- `DynManifest` (`dynmanifest.hpp`, `detail/dynmanifest.h`): its four functions
  forward to an object of the author; between two calls the library keeps
  nothing, and the rest is a write of a string to a `FILE`.
- `Atom`, `Vector` and the accessors of `Object`: pure reads of LV2 structures.
- `idle()`, `show()`, `hide()`, `size_requested()`, `get()` and `set()` of
  options, `connect_port()`: forwarded to the author's methods, no state.
- A copy of an `OptionArray` and of an object that can be weakly referenced
  (section 6).
- `String`, `Context`, `Optional` and the memory helpers: wrappers of the
  standard library. The C header, the documentation, the examples (drawing
  code) and the build files.
