# A verification of python-libdogecoin

These modules model python-libdogecoin, the cffi bindings of the libdogecoin C
library, and check and prove what makes them correct. The models are written in
TLA+, the `.cfg` files instantiate them for TLC, and the `*Proofs` modules hold
theorems that TLAPS has checked for all values of the constants.

The C library itself is outside the repository (headers and static archives
only). What it does is modelled as far as the Python code depends on it, and is
marked external in `PROJECT.json`.

## The system

| component | state | operations | hard parts |
|---|---|---|---|
| Handle lifetime, `_handle.py` | `_cptr`, `_freed`, weakref's registry of finalizers, the C object | creation, `_ptr`, `free`/`__exit__`, collection, exit hook | threads switch between the test of `_freed` and the C call, and C runs without the GIL; interrupts, also in a finalizer and in the exit hook; use after the hook |
| HD nodes, `_hdnode.py` | the C structs, the frames that build them | `new`, `from_seed`, `deserialize`, `copy`, `derive_*`, `fill_public_key`, readers | a derivation copies and then mutates; a failure has to free what it made; cffi may refuse an argument after that |
| Generated wrappers, `_libdogecoin_cffi.c` | in each call: the C arguments, the list of their copies; in the process: the GIL, the heap, errno | count and convert the arguments, release the GIL, call, take the GIL, convert the result, free the copies | every call is a window for other threads; early returns; values that look like errors |
| Flat `w_*` calls on transactions, `__init__.py` | in C, for the whole process: table of working transactions, static result buffer, secp256k1 context | `w_start_transaction` ... `w_sign_transaction_w_privkey_ex` | calls without the GIL race on one table; a result is read from a shared buffer after the call |
| Stateless `w_*` calls, `__init__.py` | none | addresses, mnemonics, QR codes, messages | none; their results are cryptography |
| Fetching, `fetch.py` | `lib/`, `include/`, work directories, the command line | probe, download, verify, replace; download, build, copy | kills and write errors between two writes, reuse of what an earlier run left, a download or a checksum text that is not the release's |
| Surface, `gen_cdef.py`, `_build.py`, `available()` | `_cdef.h`, `_surface.json`, the extension in `build/`, the wheel, the imported module | generate, compile, package, import | two files that must agree, with each other and with what was fetched; an extension that is not linked again |
| Wheel builds and CI, `bin/*`, `Dockerfile`, workflow | wheels | drivers of pip, docker and auditwheel | none of their own |
| Legacy Cython wrapper, `legacy/` | | not built any more | |

The parts meet in four places. HDNode subclasses `_Handle` and reaches C only
through `self._ptr`. Handles and the flat calls go through the same generated
wrappers, which release the GIL. `fetch.py` leaves the header and the archive
that a build reads. A build leaves the manifest that `available()` reads.

What makes each part correct:

* a handle: its C object is freed once; nothing loses it but an interrupt in one of
  two windows, or the end of the exit hook; a use after release is refused; a
  forgotten handle is freed;
* a node: a derivation never changes the node it starts from; a node that is
  returned is complete; a failure leaves nothing that nobody will free;
* a wrapper: C runs once, on exactly the values passed, or the call is refused and
  C does not run; copies are the call's own; C never holds the GIL;
* a transaction call: it returns its own text;
* a fetch: *ready* means installed and verified; a failure before the first write
  changes nothing;
* a wheel: it binds what its header calls for, says so, and can be imported.

`PROJECT.json` lists the hazards of the code at their lines, with the properties
that cover each of them or the reason why none does.

## Modules

| module | models | extends |
|---|---|---|
| `Lifetime` | the abstract life of C objects: created once, used while live, released once while unused | |
| `Handle` | `_handle.py`, CPython's finalizers, references, interrupts and exit | |
| `HandleProofs` | proofs about `Handle` | `Handle` |
| `HDNode` | the methods of `_hdnode.py`, as programs over handle operations | `Handle` |
| `HDNodeProofs` | the methods implement the handle operations; what they do with nodes | `HDNode`, `HandleProofs` |
| `ForeignCall` | the abstract call of a C function: refused, or run once on the values meant, then answered | |
| `Wrappers`, `WrappersProofs` | `_libdogecoin_cffi.c`, which implements `ForeignCall` | |
| `Transactions` | the abstract calls on working transactions: each takes effect in one instant, and returns the text of that instant | |
| `TxCalls`, `TxCallsProofs` | the flat calls on the shared C state, which implement `Transactions` | |
| `Fetch`, `FetchProofs` | `fetch.py` | |
| `Surface`, `SurfaceProofs` | `gen_cdef.py`, `_build.py`, the import | |
| `Pipeline`, `PipelineProofs` | `fetch.py` and builds in one tree: the steps of `Fetch` beside those of an instance of `Surface`, whose `FetchRelease` they implement | `Fetch`; `FetchProofs`, an instance of `SurfaceProofs` |
| `MC*` | instances for TLC | the above |

Definitions named in comments as mutants are variants of a definition with a
plausible bug. Nothing in the specifications uses them; replacing the definition
by its mutant makes TLC report the property they are listed with.

### Handle and Lifetime

`obj[h]` is the C object (`none`, `live`, `freeing` while `free_fn` runs,
`freed`), `py[h]` the Python object, `cptr[h]` and `freed[h]` its slots,
`registry` and `shutdown` those of `weakref.finalize`, and `refs[h]` the threads
that hold a reference. A step of a thread is a stretch of bytecode in which
CPython does not switch threads:

| code | actions |
|---|---|
| constructor in C, `_Handle.__init__` (`_handle.py:46-55`) | `Alloc`, `Wrap` |
| `_ptr` (57-63) and the C call | `Invoke`, `CheckFreed`, `ReadPtr`, `EnterC`, `LeaveC`; `LeaveCWithNew` for a copy |
| another argument of the call is refused by cffi | `RefuseArgument` |
| `free`, `__exit__` (69-86) | `InvokeFree`, `FreeCheck`, `FreeMark`, `FreeFinalize`, `FreeCalls`, `FreeReturn`, `FreeClear` |
| the free function in C | `CFreeEnd`, whoever called the finalizer |
| references | `Share`, `Drop` |
| deallocation, the weakref callback | `Collect`, `CollectPops`, `CollectCalls`, `CollectInterrupted` |
| KeyboardInterrupt in the main thread | `Interrupt`, between any two steps outside C |
| exit of the interpreter | `BeginExit`, `ExitFinalize`, `ExitCalls`, `ExitReturn`, `ExitLoopEnds`, `ExitShutdown` |
| KeyboardInterrupt in the exit hook | `ExitInterrupted`, `ShutdownInterrupted` |

`weakref.finalize` is Python code, so its call is two steps: it pops the registry, and
then enters `free_fn`, unless the shutdown flag is set. Whoever calls it (`free()`, the
weakref callback, the exit hook), other threads may run between the two, and so may an
interrupt: then the object is live, nothing is registered any more, and nobody will free
it. `lost` has such objects, those whose wrapping was interrupted, and those that the
shutdown flag kept from being freed. The exit hook catches exceptions but no
`KeyboardInterrupt`, which ends it with the registry as it is (`phase` is then `cut`) and
the shutdown flag set. After `shutdown` a finalizer frees nothing, so a handle made later
is never freed. An interrupt in a weakref callback is printed and dropped: before the pop
it leaves the object to the exit hook.

The code promises that "any use after release" raises. What is true depends on who can
reach the handle, and the constant `Holders` says which threads can, for each handle by
itself. `Joined` are the threads that do nothing beside or after the exit hook (no
daemon threads; Main, unless the program goes on after the hook). `QuietHandles` are
those that only joined threads can reach, `OwnHandles` those that one joined thread has
to itself. A property is stated for all handles, for the quiet ones, or for the own
ones, and each theorem holds of its handles in any program: what other threads do with
other handles, before, during or after the exit, does not matter.

### HDNode

`op`, `self` and `child` are the method a thread runs, its receiver and the node
it has built; `node[h]` is the struct, abstracted to its depth and to whether its
fields are complete. A method is a sequence of handle operations: `Construct` or
`Call`, `WrapNode`, `CallOnChild`, `Pass`/`Refuse` for `_ptr`, `CopyReturns`,
`FillSucceeds` or `FillFails`, `FreeChild` and `Unwind` for the error path. `Refuse`
also has the arguments that cffi refuses after the node was made (`derive_private(2**32)`,
a seed that is no bytes): the method ends without `child.free()`, and the unwinding of the
frame drops the node. A copy that runs while another thread writes the source may be
torn.

### Wrappers and ForeignCall

The 18 wrappers are given by the types they convert (`add_output` ...
`verifyPrivPubKeypair`), and the actions are the steps that all of them are made
of. `_cffi_types` and `_cffi_globals` are the two tables of the file, read as cffi
reads them; the assumption that they agree with the wrappers is evaluated by TLC.

| code (lines of `add_output` where all are alike) | actions |
|---|---|
| the call, `PyArg_UnpackTuple` (651) | `Call`, `CountArguments`, `RefuseCount` |
| `_cffi_to_c_int` (654) | `ConvertInt`; `YieldInInt`, `ResumeInt` when an `__int__` lets other threads run |
| a `char *` argument (658-665, 501-522) | `PassPointer`, `CopyToStack`, `CopyToHeap`, `RefusePointer`, `RefuseCopy`, `NoMemory` |
| release of the GIL, the call (676-678) | `BeginAllowThreads`, `RunC` |
| errno, the GIL, the result (679-683) | `SaveErrno`, `EndAllowThreads`, `ConvertResult` |
| the list of copies (684, 524-532), return | `FreeOne`, `Return` |

`pc[t]` is the place of a thread, `gil` the holder of the GIL among threads in a
wrapper (a thread outside them runs Python and gives the GIL up now and then, so it
is not counted as a holder), `x[t]` the C arguments, `copies[t]` the list
`large_args_free`, `heap` and `mem` the blocks and what is in them. An argument is
its type with its value or length. `left` and `seen` are history: the errno C left
and the values C ran on. A list passed as a `char *` is a value here, and calls that
an `__int__` makes of its own are left out.

`ForeignCall` knows nothing of the GIL, copies or errno. A request has a meaning under
the type that `lib` declares, or none. `Ask`, then `Refuse` (only if it has no meaning,
or needs more memory than there is), or `Run` on exactly that meaning and `Answer`.
The `w_*` functions encode their texts to bytes first (`_b`), so they never make
copies; calls through `lib` may.

### TxCalls

`table[i]` counts the changes of a working transaction; the text of a call is the
index and the count, so two texts differ when they should. A call enters C
(`Enter`), C changes the table and produces a text in one step, and the wrapper
copies it afterwards: from the static buffer (`StaticBegins`, `StaticEnds`,
`CopyStatic`) or from its own (`OwnFills`, `CopyOwn`). `Torn` is a buffer that C
is writing. `due[t]` remembers which text C computed for the call. Signing needs
the context, and an `_ex` signing call may leave it stopped, as
`tests/transaction_ex_test.py:84-86` reports. Any call may fail (`Fails`), also on an index
in use: the text may not fit into the buffer of an `_ex` call.

The wrappers release the GIL, and nothing in the repository locks the table. Two threads
that are in C with calls on it, of which one changes it, race (`Rivals`), and a call that
has met another (`raced` has its thread until it leaves C) may do anything to the table
and produce any text. A program needs a lock of its own around these calls.

`SignRaw` is `w_sign_raw_transaction` and its `_ex`: a text of the caller is signed in a
buffer of the call, and the table is not read. With libdogecoin v0.1.5-pre the call without
`_ex` aborts the process (`tests/transaction_ex_test.py:120-121`); in the model this is a
behaviour that ends there, which no safety property minds.

`Transactions` has no buffers, no GIL and no context: a thread does `Ask`, then the
call takes effect with a text (`Answer`, then `Return`) or without one (`Act`), or it
fails and nothing has changed (`Fail`; a transaction can always be cleared).
`CallsAreAtomic` says that each step of `TxCalls` taken while no calls race is one of
`Transactions`: whatever the threads do between the effect of a call in C and its return,
the program cannot tell. A program that lets no calls race thus implements `Transactions`
(`LockedCallsAreSerial`). This is so while one thread at most makes calls on the static
buffer (`OneLegacy`). `ResultIsOwn` needs no such condition: it is about each call
that does not share the static buffer with another thread's (`SharesStatic`), also when
calls race; what it says is that nobody but C touches a text between C and the caller.

Assumed of the library, for calls that do not race: `start` returns an unused index, and a
call that fails changes nothing.

### Fetch

One run of `fetch.py` at a time, in one directory, any number of runs. `pc` is the
step, `run` the command line, `installed[f]` what `lib/` and `include/` hold: tag, host,
and whether the bytes are those published. `os.replace` is atomic; `shutil.copy2`
truncates first, so `CopyOpens` leaves a torn file and `CopyCloses` completes it.

What may go wrong: every GET may fail (`HttpError`), and what it brings may be altered,
the checksum text like the archive, since no signature of it is checked (`FetchSums`); a
download may be no archive (`UnpackFails`); every subprocess may fail, after it has
written some objects (`BuildFails`); `os.replace`, `copy2` and `os.remove` may raise an
OSError (`ReplaceFails`, `CopyFails`, `CleanupFails`), which ends the run as `oserror`;
and `Kill` may follow any step. All other ends are `failed`.

`tree[t]` is the set of objects in `libdogecoin-{t}/`, each with the host it was made for
and whether it is whole and of published sources. `make` may take those that are there or
compile again, which depends on file times, so `Make` allows any mixture, and a library
linked from objects of two hosts is of neither (`Linked`). A make that fails or is killed
may leave an object cut off (`Broken`). configure gets `--host` only if the first part of
the triplet is not the machine's: `Target` is the host that it builds for then.

When a run ends its variables are reset, but for the histories that the properties
compare with such an end: `before` (the files when it started) after a failure, `found`
(the objects when it started) and `listed` (the digest that came) after *ready*.

### Surface

A file is the set of function names in it; `header` and `archive` are releases.
`StartBuild` decides between regenerating the cdef and the one there is
(`intree` says whether `codegen/` is there); `WriteCdef` and `WriteManifest` are two
writes (each of them one step: a `write_text` is not cut in half), and `KillBuild` may
come between them. `ReadCdef` hands the cdef to cffi, which rejects it if the prototype of
a bound function is one of `Unparsed` (`ReadCdefFails`), as with `sha256_raw` of 0.1.4.

`ext` is the extension that is in `build/`: the functions, header and archive it was made
of, and whether its link was finished. `current` says that it is newer than the C code
there. cffi writes the C code only if it is other code than before, and setuptools
compares the extension with that file only (`UpToDate`), so a build may take an old
extension or what a killed link has left (`Reuse`; outcome `reused`). Otherwise `Compile`
makes one, and must fail without the types and globals of the preamble; names that the
header or the archive lack may fail the compiler, the linker, or only the import
(`Import`). `Forget`: the wheel and the program that has imported it are followed until
the next build starts.

`FetchRelease` replaces the archive and then the header, or only the archive when it is
killed; either of them may be `Damaged`: cut off, altered, or for another host. A
damaged header may make the generator, cffi or the compiler fail, or may compile, since it
has no guard around it, and then the wheel binds what is left of it.

Header parsing is abstracted: `Declares` is the set of functions that
`extract_prototypes` finds, `Matched` those that match a pattern of the gate.

### Pipeline

`Surface` takes a fetch to be one step, and `Fetch` knows nothing of builds. `Pipeline`
has both in one tree: a step is one of `fetch.py` (`FetchStep`) or one of a build or an
import (`BuildStep`, the actions of `Surface`, which read the files of `Fetch` through
`Seen` as their header and archive). A file is seen as its tag's only if it has the
published bytes and, the library, if it is for the host of the builds (`Whole`);
otherwise as damaged, and `damage[f]` is what is there. The two programs take turns;
either may fail or be killed, and the other then finds what is left.

`FetchesForBuilds` says that this tree behaves as `Surface` says, so a build finds what
`Surface` was checked with; that the library is installed before the headers, on both
paths, is what this rests on. `ReadyBuilds` says what a user relies on from one end to
the other (`Reliable`: *ready*, after a run that can be relied on, for the host of the
builds and a supported tag): a build does not fail; it links the wheel of the requested
tag, from the header and the archive of that tag, which can be imported; or it takes from
`build/` an extension with the same functions, with the right manifest. That such an
extension has the code of the tag is refuted (`LinksFetched`). A fetch and a build at the
same time are not modelled.

## Runs

| run | instance | shows |
|---|---|---|
| `handle_shared` | 2 threads, 2 shared handles, quiet, fair | `ExitFreesAll`, `QuietReleaseIsCaught`, `ForgottenIsFreed` |
| `handle_exit` | main and a daemon, 3 handles, of which the daemon can reach one | `TypeOK`, `FreedOnce`, `FinalizerOwns` of all of them; of the others `NoUseAfterFree` and `Promise`: they implement `Lifetime` |
| `handle_late_use` | 1 thread, 1 handle, late program code | violates `CheckCatchesRelease` |
| `hdnode` | 2 threads, 2 shared nodes | `HDTypeOK`, `PublishedIsComplete`, `NothingStranded`, `PublishedNeverChanges`, `FailureFreesFirst`; `ImplementsHandle`: methods are handle programs |
| `wrappers` | 2 threads; one makes every call, right, odd and miscounted, the other two calls, one of which needs a copy | `WTypeOK`, `CopiesArePrivate`, `ErrnoSurvives`, `OnlyRefusedCallsLeak`, `NobodyWaitsForC`; `ImplementsForeignCall`: the wrappers implement `ForeignCall` |
| `tx_calls` | 2 threads, 2 transactions, 1 change each, calls race | `TxTypeOK`, `ResultIsOwn`; `CallsAreAtomic`: as long as no calls race they implement `Transactions` |
| `fetch` | 3 tags, 3 hosts, of which two have the machine's CPU; one tag is also built, for two hosts | `FetchTypeOK`, `ReadyIsInstalled`, `ReadyIsVerified`, `ErrKeepsInstall` |
| `fetch_two_hosts` | one tag built for two hosts | violates `ReadyIsTrue` |
| `surface` | 3 releases, one of which cffi rejects, and what may be left of them, tree with and without `codegen/` | `SurfaceTypeOK`, `AvailableIsBound`, `TracksHeader`, `BuildsAndLoads` |
| `pipeline` | a tag with an archive, one built from source; fetches and builds, with and without `codegen/` | `ReadyBuilds`; `FetchesForBuilds`: what happens in the tree is what `Surface` has |
| `surface_first_release` | a release without HD nodes | violates `NoManualEdits` |
| `surface_stale_link` | two releases with the same functions | violates `LinksFetched` |

Why the bounds are enough. Two threads show every race of two operations, and no
operation of the code waits for two others. Two handles give a copy its source and its
result and let the exit hook work on one while another is used; in `handle_exit` two are
Main's own, so that it has one beside the one it works on, and the third is the daemon's
too. Handles are never reused, so two bound a run to two creations. Two transactions are
one to work on and one to confuse it with; `MaxRev` = 1 has a text before and one after
a change. In `wrappers` the integers are scaled down (an `int` to -5..4, a `uint8_t` to
0..2, 640 bytes of stack to 2), with values at, inside and beyond each edge; two blocks
are too few for the three copies that the two threads may want, so that memory runs out;
two values of errno are one that is saved and one that is lost. Every wrapper is called
at least once, and the odd arguments meet those with a `char *` and a `uint8_t` last.
Three tags are one of each kind (SHA256SUMS.asc, checksums.txt, no binaries); three hosts
are the machine's, one that configure does not tell from it, and one that it does. Of the
releases of `surface` one comes before and one after, and one has a function that cffi
rejects; the functions are one of each kind that the generator tells apart. In `pipeline`
there is one tag for each path of `fetch.py`, one host, one header, and one way a file may
be damaged, early enough that no build gets past it; `surface` has a late one, of which
builds make wheels. That a library for another host is damaged in `Pipeline` is therefore
in the theorems only.

Deadlock is not checked in the runs of handles and nodes, where the program may
stop when its handles are used up or when it has exited. It is checked in the
others, where another run, build or call can always begin.

Fairness is assumed in two runs. In `handle_shared` (`FairSpec`): the operating system
runs each thread that is in an operation, a C call returns, CPython deallocates what
nothing refers to, and the exit hook runs to its end. Nothing forces a thread to
start an operation, to drop a reference, or the program to exit.
`ForgottenIsFreed` speaks of the time before the exit. In `wrappers` (`WFairSpec`):
each thread in a wrapper goes on again and again as long as it can do so infinitely
often. Strong fairness is what CPython's GIL gives: a thread that waits makes the
holder drop it and gets it in the end. Neither a call nor the return of C is fair, so
`NobodyWaitsForC` also speaks of C functions that never return.

That *ready* is true of every run is refuted (`ReadyIsTrue`, `fetch_two_hosts`).
`ReadyIsInstalled` says of which runs it is true (`Dependable`): those that take an archive
which has every file of the tag, as releases should; and those that build from source, if
configure builds for the host asked for and the work directory had no object of another
host when they started. `ReadyIsVerified` says when the installed bytes are the published
ones (`Checked`): if the checksum text that came did not list the digest of altered bytes
(the file is not signed, or its signature is not looked at); or if `--sha256` is that of
the tarball, and the work directory had no object of unchecked sources and none cut off.
Other runs, of which all this is not so, may come in between; `fetch` has them.

`ErrKeepsInstall` is about the outcome `failed`. A run that an OSError ends while it writes
to `lib/` and `include/` does change them; that later runs and builds are not deceived by
what it leaves is part of `ReadyIsInstalled` and `FetchesForBuilds`.

## Findings

* `handle_late_use`: the exit hook frees every registered handle but sets no
  `_freed`. Code that runs later, such as an `atexit` callback registered before
  the first handle, passes the test in `_ptr` with the pointer of a freed object.
* `fetch_two_hosts`: a source build that fails or stops in `make`, or after it, leaves
  its objects in a directory named after the tag alone. The next build of the tag, for
  another host, may install them and say ready.
* `surface_first_release`: the preamble with the HD nodes is in every cdef, so a
  release without them cannot be built, although `gen_cdef.py:6` names v0.1.0 and
  the import is guarded for such builds.
* `surface_stale_link`: the archive is no dependency of the extension. After a fetch of
  another release with the same functions, a build in the same tree packages the
  extension that is linked with the old archive, although `_build.py:4-6` says that it
  links the fetched one. (`bin/build` removes `build/` when it ends; a `pip wheel .` or
  `setup.py` of one's own does not.)

More facts come out of the models without a run of their own. If a handle is shared, one
thread can free it between another's test and the end of its C call: `NoUseAfterFree` is
about `OwnHandles` (leave out the second conjunct of that definition to see it). If two
threads use `w_get_raw_transaction` or `w_finalize_transaction`, one may get the other's
text or half of it: `ResultIsOwn` leaves these calls out (`SharesStatic`), and
`CallsAreAtomic` needs `OneLegacy` (put both threads into `Legacy` to see it). For a host
with the machine's CPU a source build makes a library for the machine and says ready
(leave `Target` out of `Dependable` to see it). The committed `_cdef.h` and
`_surface.json` are also not of one generation: the cdef has the `_ex` calls and functions
that no header declares. A build without `codegen/` uses that pair; `MCSurface` has it.

Of the wrappers: a call that is refused after it has copied a long list never frees the
copy (`OnlyRefusedCallsLeak` says that there is no other leak); only calls that go past
the `w_*` functions can meet it. The committed wrapper of `verifyP2pkhAddress` has a
`uint8_t` length where the header declares `size_t`, so with it an address of 256 bytes
raises `OverflowError`; a build writes a new wrapper. Of fetches: the probe looks for the
checksum file of a release, not for the archive of the host, so a release without this
archive ends in an HTTP error (`FetchArchive`, `HttpError`), while `README.md:487`
promises the source build. A header cut off by a kill may compile, and the wheel then
lacks functions without an error; the next complete fetch repairs the header. Of
interrupts: one that comes between the registry pop and `free_fn`, or before
`_Handle.__init__` is done, loses a C object for good, and one in the exit hook leaves all
that are still registered.

## Proofs

All theorems hold for any threads, handles, transactions, tags, hosts, releases and
functions that satisfy the named assumptions of the modules.

* `HandleProofs`. `FreedOnce` is not inductive: that a finalizer runs once follows
  from where the object, its Python handle and its registry entry are at each step, and
  from who has popped it and not yet entered `free_fn`. `IInv` says it: `OwnInv` counts a
  free exactly when the object is past `live`, and ties the registry to live objects of
  living or dying handles; `OpInv` says what a thread inside an operation holds (its
  handle, a reference to it; a fresh object that nothing owns in `wrap`); `HandInv` that a
  fresh or popped object is in one hand only; `KeptInv` that every live object is
  registered, in a hand, or lost;
  `ExitInv` keeps the exit hook with Main. From `IInv`: `TypeCorrect`,
  `NeverFreedTwice`, `BackstopNeverLost`. `QuietInv` adds, of quiet handles, that all work
  on them is done before the exit hook and that a hook that ends empties their registry:
  `ExitLeavesNothing`, `ReleaseIsCaught`. `HeldInv` adds, of own handles, that one is not
  freed while its holder is between the test and the end of the call:
  `OwnHandlesAreSafe`, and with two lemmas on the refinement mapping,
  `OwnHandlesKeepPromise` (the initial state maps to one of `Lifetime`, each step to a
  step or a stutter). None of them has a hypothesis on the program.
* `HDNodeProofs`. Every step of a method is one handle step or none, so each
  behaviour of the methods is a behaviour of the handles (`NodesImplementHandles`),
  and the theorems about handles hold of nodes (`NodesFreedOnce`,
  `OwnNodesAreSafe`). `ChildInv` is what this needs: a method that frees or
  drops its node has one. `FrameInv` adds that the node a method builds is in that
  frame only, and its receiver was returned before (`NoNodeIsStranded`,
  `PublishedIsFixed`); `NodeInv` follows the struct through a method
  (`NodeTypeCorrect`, `PublishedAreComplete`); `WholeInv`, for programs that keep each
  node in one thread, that no two threads are in C with one node, so no copy is torn;
  `BuiltInv`, for joined threads, that the node a method builds keeps its finalizer
  until the method frees it (`FailuresFreeFirst`).
* `WrappersProofs`. `WInv` holds for each call: `Frame`, what it has at its place;
  `Arguments`, that each argument converted so far is the value passed or a copy of it
  on its own list; `Ran`, that C saw what the request means; `Errno`; and `OwnInv`, that
  the lists are disjoint and their blocks allocated. It gives `TypeCorrect`,
  `CopiesStayPrivate` and `ErrnoIsKept`, and step by step `LeaksAreRefusals`.
  `CallsAreExact` maps each step to one of `ForeignCall` or to a stutter.
* `FetchProofs`. `FailedRunsChangeNothing`, from `Intact`: up to the first write the
  files are those the run found. `FetchTypeCorrect`. `ReadyRunsInstall` and
  `ReadyRunsVerify`, from `ReadyInv`: `Passed`, what the checks behind a run have
  established; `WorksOn`, that the work directory has what the run found there and what it
  built, so that the library is linked from that (`LinkedIsOurs`); `FreshSoFar`, that each
  file this run has replaced is the tag's, for the host and checked, if the run is
  `Dependable`. Like the properties they have no other condition: what a run for one tag
  does is proved beside any runs for the same or other tags.
* `PipelineProofs`. `FetchesAreReleases`, from `LibFirst`: once a run has replaced a
  header, the archive is that run's. It assumes that archives and builds have the
  library (`ArchivesHaveLib`, `BuildsMakeLib`). `ReadyIsBuildable` puts the system
  together: the common tree runs `Fetch` (`TreeRunsFetch`) and behaves as `Surface`, so
  what is proved of each holds in it, and from `ReadyIsInstalled`, `ReadyIsVerified`,
  `BuildsAndLoads` and `LastWheel` the wheel after *ready* follows. Its hypotheses are on
  the releases: archives have the library, and every tag has the two files (`HaveBoth`);
  `MCPipeline` has TLC confirm them for its instance.
* `TxCallsProofs`. `OwnResults`, from `PendingInv`: a text that waits to be copied is
  the text that is due; of the static buffer this is said where one thread at most uses
  it. `CallsTakeEffectOnce`: each step is one of `Transactions` or a stutter
  (`StepIsSerial`; the effect of a call is its step in C, `ComputesAnswers`), if the call
  has met no other. It assumes `OneLegacy`, since the calls of two threads on the static
  buffer are not atomic. `LockedCallsAreSerial` concludes that a program that lets no calls
  race implements `Transactions`. `TxTypeCorrect` and `OwnResults` need no condition.
* `SurfaceProofs`. After a kill the cdef and the manifest may be of different
  releases. `StepInv` says that a tree with the generator and a header reads them
  only after both were written for the header, and that a tree without it never
  writes them; `WheelInv` carries this to wheels and processes:
  `AvailableCanBeCalled`, `SurfaceTracksHeader`. `WholeReleasesLoad`, from `FailureInv`,
  has no hypothesis: it is about each release that is `Supported` (it has the preamble's
  functions, its archive what is bound, and cffi parses that), whatever the others are.
  `LastWheelIsFresh`: the wheel of a build that ends binds what the header calls for, with
  that header's manifest, and is made of the files that are there unless it was `reused`.

Only model-checked: `ForgottenIsFreed` and `NobodyWaitsForC`, since liveness under
fairness is out of the prover's reach. In `hdnode` the nodes are shared, so that
`PublishedIsComplete` is checked there in its weaker form and proved in both.

## Not modelled

* The stateless `w_*` calls: one C call each, with nothing kept between calls. What
  could be wrong is their cryptography or a buffer's size, and both are the library's;
  three of them copy a string that the library has allocated and never free it (a
  listed hazard). Their C wrappers are among those of `Wrappers`, as far as the
  committed file has them.
* In the generated file: the preamble of macros for other interpreters and compilers,
  `_cffi_d_*` (the same call without conversions, taken by pointer), the module's
  initialisation. The functions that the file reaches through `_cffi_exports` are
  modelled by what the wrappers rely on and marked external.
* How prototypes are parsed and lowered to cffi types, and whether libunistring is
  linked: text processing with no state.
* The build scripts, the Dockerfile and the workflow: drivers of external tools.
  One consequence is a listed hazard: `bin/init:103-108` packs the Windows wheel from
  a list of files that lacks `_handle.py` and `_hdnode.py`.
* `legacy/`, which nothing builds.
* Timeouts of `requests`: there are none, so a server that never answers stops a run
  for ever. No liveness of `fetch.py` is claimed.

## Plan

Done: the lifetime of handles and the methods over it, the generated wrappers, the
shared state of the transaction calls and what a program may rely on of them,
fetching, the surface, and fetching as builds see it; each with its theorems.

What is left, in this order:

1. The readers of `HDNode` that go through `_ptr` more than once (`__repr__`, the
   struct fields) as operations of their own.
2. The gate of the workflow: nothing is uploaded unless every wheel was built.
3. The list of files of the Windows wheel, and what the guarded import makes of it.
