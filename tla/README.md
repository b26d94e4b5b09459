# go-zkvm in TLA+

go-zkvm runs Go programs as guests of the risc0 zkVM.  A guest reads a private
witness, commits a public journal and halts; the host executes it, proves it
and verifies receipts.  This directory holds TLA+ models of the parts of
go-zkvm whose correctness is hard to see from a test, the TLC configurations
that check them on small instances, and TLAPS proofs for every instance.

## The system

| Part | Source | State | Operations |
|---|---|---|---|
| Guest runtime | `zkvm/zkvm.go`, `zkvm/verify.go` | none of its own | `Read`, `Commit`, `CommitValue`, `Verify`, `Halt`, debug output |
| Journal hasher and tagged digests | `zkvm/sha256_proper.go` | `properHasher` (state, `bufferData`, `bufferLen`, `totalLen`), `properHasherInitialized`, `assumptionsDigestWords`, `shaBlockAligned` | init, update, finalize, one-shot hash, tagged structs, assumptions list |
| Host client | `host/types.go` | the client's library path | `New`, `Close`, `ComputeImageID`, `Execute`, `Prove`, `Verify`, `*File` helpers |
| Library loader and FFI | `host/ffi_cgo.go` | `loadMu`, `loadedPath`, `go_zkvm_handle`, six function pointers | `loadFFILibrary`, C shims, `callJSON`, `copyAndFree`, `decodeFFIError` |
| FFI exports | `host-ffi/src/lib.rs` | none (it allocates response buffers) | five exported operations, `invoke`, `go_zkvm_free_buffer` |
| Host operations | `host-core/src/lib.rs` | none | image ID, execute, prove, verify over risc0 |
| Example guests | `examples/*` | locals | `simple`, `multiply`, `policy_check` |
| Standalone host | `go-guest-host/src/main.rs` | locals | witness codecs, BIP-86 path check, run, print |
| R0BF tools | `convert_to_r0bf.go`, `extract_r0bf.go` | a file | pack, unpack |

How they interact:

- A guest calls `zkvm`; `Commit` writes the journal descriptor *and* feeds the
  running hash, `Verify` makes a system call *and* prepends to the running
  assumptions list, `Halt` hands the digest of both to `sys_halt`.  The host
  later recomputes the digests from the journal and the receipts it was given;
  any difference shows only as an opaque proving failure.
- `host.New` loads one Rust shared library per process into C globals.  The
  operations marshal a request to JSON, call through a function pointer, copy
  the response and give the buffer back to the library's allocator.
- Inside the library each export parses, runs a `host-core` operation behind
  `catch_unwind`, and answers with a status and a JSON body.

What is hard:

- **Guest**: a stream cut at arbitrary places and alignments into a
  block-oriented hash with a reused buffer; lazy initialization reached from
  three entry points in any order; padding boundaries; 32-bit lengths.
  Correct means: the output binds the SHA-256 of exactly the journal and the
  list of exactly the assertions.  The guest is one thread (TinyGo,
  `-scheduler=none` in the Makefile): nothing interleaves, and nothing
  restarts.
- **Loader**: goroutines race through `New`; a load fails half way; a retry
  starts from what the failed one left; the C shims read the pointers with no
  lock; the file behind a path changes.  Correct means: one library, one path,
  the right ABI, and pointers that stand still once a client exists.
- **Calls**: who owns a response buffer on every error path; a panic behind
  the boundary; which error code surfaces.  Correct means: every buffer is
  freed once, and the caller sees what the library decided.
- **Host operations**: the order of the checks; a verified receipt means what
  it says.
- **Composition of receipts**: the guest folds digests as it goes, the host
  computes them from what it holds, in another language.  Correct means: both
  arrive at the same words, and those words name one image, one journal, one
  list of assertions and one exit code.
- **Examples and the standalone host**: overflow of 64-bit sums and products,
  streams whose fields only their order tells apart, a path whose hardened
  components are numbers with one bit added.  Correct means: what a guest
  proves is true of exact integers, and what the host prints is what its
  options asked for.
- **R0BF tools**: offsets read from the file itself; one path as input and
  output; a write that stops half way.  Correct means: extraction inverts
  packing, and no ELF is overwritten for nothing.

## The modules

| Module | Models | Kind |
|---|---|---|
| `Words` | a 32-bit word as bytes | pure operators |
| `Sha256` | padding and trailer of `sha256_proper.go`, beside FIPS 180-4 | pure operators |
| `TaggedStructs` | tagged structs, the tagged list and the claim of `verify.go`, beside what the host computes | pure operators |
| `GuestInterface` | what a guest may ask and the shape of what it halts with | shared constants |
| `GuestOutput` | the promise: a journal, a list of claims, one output | abstract specification |
| `GuestRuntime` | `Commit`, `CommitValue`, `Verify`, `Halt` over the running hash | detailed specification |
| `Composition` | `GuestRuntime` with the digests that `Verify` and `Halt` compute | composed specification |
| `LibraryInterface` | the exported symbols and the builds of the library | shared constants |
| `LibraryBinding` | the promise: bound once, to one path and one ABI-checked library | abstract specification |
| `FFILoader` | `New`, `loadFFILibrary`, `go_zkvm_host_load`, the calls | detailed specification |
| `HostCore` | the four operations of `host-core` and the exports around them, over an external risc0 | pure operators |
| `HostOracle` | the promise: one answer per request, its own | abstract specification |
| `HostCall` | `callJSON`, `invoke`, `copyAndFree`, `decodeFFIError` by several goroutines | detailed specification |
| `ExampleGuests` | `simple`, `multiply`, `policy_check` over streams of words | guests' steps |
| `StandaloneHost` | the choice of a witness, its encoders, a run of a guest, the decoding | composed with `ExampleGuests` |
| `R0BF` | packer and extractor over the files of a directory | detailed specification |
| `MCGuestRuntime` (an instance of `Composition`), `MCFFILoader`, `MCHostCall`, `MCStandaloneHost`, `MCR0BF` | instances for TLC | model checking |
| `Induction` | induction over the naturals, stated of a set | proofs |
| `Sha256_proof`, `GuestRuntime_proof`, `Composition_proof`, `FFILoader_proof`, `HostCall_proof`, `StandaloneHost_proof`, `R0BF_proof` | theorems | proofs |

### Sha256 and GuestRuntime

The compression function is a system call.  It is modelled as a free
constructor: a hash state is the value it started from and the bytes it has
absorbed.  Two states are equal exactly when SHA-256 would have been run on
the same padded bytes from the same start value, so a lost, repeated or stale
byte, a wrong trailer or a missing initialization cannot cancel out.  A tagged
struct is a record of its fields and the tagged list the sequence of its
cells, which is what collision resistance of the hash gives the verifier.

`Radix` is the number of values of a byte and `BlockWords` the words of a
block: 256 and 16 in the code.  TLC's integers are 32 bits wide, so it takes a
smaller byte (16 values) and a block of 4 words.  The proofs cover all of
them, the deployed pair included.

`GuestRuntime` has one variable per global (`fd3` and `registered` are what
the host has received) and three for the call of `UpdateProperHasher` in
progress.  A commit is a step that writes and initializes (`WriteJournal`) and
then the loops of the hasher, one action each: `TopUp` or `SkipTopUp`, any
number of `ProcessBlock`, `BlocksDone`, `BufferTail`.  `addr` is the slice's
address modulo the word size, arbitrary at each commit: an unaligned block
goes through `bufferData`, as in the code.  `processBlock` copies the block to
`shaBlockAligned` first; that copy is complete and private to the call, and is
left out.  `Verify` and `Halt` are one action each: one thread runs them and
nobody can look in between.  `Message` is a constant because the code never
branches on a byte.

The hasher's entry points are exported; they are modelled as `Commit`,
`Verify` and `Halt` use them.  `Read`, `Write` and their variants forward one
system call and touch no state of the package; `ReadValue` is modelled with
the example guests.

### TaggedStructs and Composition

`TaggedStructs` takes the digests apart again: a digest is `DigestWords` words
(8 in the code, 2 in the run), and a word is either its value or its place in
a SHA-256 of something.  What is hashed is bytes (a hash state of `Sha256`), a
tag, or the words and the 16-bit count of a tagged struct, so an argument at
the wrong place, a missing tag or a field left out gives another digest.  As
with the compression function this is collision resistance, and one step more:
the input of a tagged struct, or a tag, is told apart from a journal that
happens to spell its bytes.  `RunClaim` and `ListDigest` are the host's side:
what risc0 computes for a run and for a list of assumptions, external, read
off the comments of `verify.go` and `sha256_proper.go`.

`Composition` has the variables of `GuestRuntime` and `assumptionsDigestWords`,
`asserted` (the claim digests given to `sys_verify_integrity`) and
`outputDigest` (the words given to `sys_halt`).  Each of its steps is a step
of `GuestRuntime` with the digests that the same code computes, the lazy
`InitProperHasher` included.  A claim's journal is hashed in one go
(`shaBuffer`), the run's own in pieces.

### FFILoader

One action per step of the load, down to the single `dlsym`, so that a call,
another `New` or a change of a file can fall between any two of them.
`handle` and the entries of `ptr` say which build of the library they point
into; `Null` is the C NULL.  `openedFrom` is a history variable: the path of
the one `dlopen` that succeeded.  A build is given by the symbols it exports
(`Exports`) and the number its `go_zkvm_abi_version` returns (`Abi`); the file
at a path may be replaced or removed at any moment (`Replace`), while what was
opened stays mapped.  `DlerrorSticky` is the one difference between C
libraries that the code depends on: whether an error of `dlsym` survives a
later success until `dlerror` is called.

`New` collects `Options` and resolves the path: an option, else the
environment variable (blank counts as unset), else the place of the library
beside the sources (`DefaultPath`, `NoPath` if the build does not know it).
`WithLibraryPath("")` and knowing no path are refused before the mutex is
taken (`NewRefuses`): the empty path is the mark of a process that has loaded
nothing.  `LibraryPaths` is what `loadFFILibrary` can be asked for.  The
`*File` helpers are `New`, one call and `Close`.

A client is local to a goroutine in the model.  The code's methods never look
at their receiver, so a client shared by goroutines behaves as one client
each.  `Call` covers the C shim up to its return, `Free` is `copyAndFree`; a
shim whose pointer is NULL returns -1 with no buffer and changes nothing.

### HostCore and HostCall

`HostCore` gives, for each request, the set of replies the library may make.
`compute_image_id_hex`, `execute`, `prove` and `verify` make the checks of the
functions of the same name in their order; `invoke` adds the status.  The
library keeps no state, so these are operators.  risc0 is external.  A guest
is named by its image ID and `Runs` says what it does with an input: the
journal, the exit code, and the claims it asserts with `zkvm.Verify`.  The
executor follows `Runs`; a prover may moreover fail, panic, or return a
receipt whose seal does not verify (`FaultKinds`).  `sound` in a receipt says
that its seal verifies: a receipt that does not come from a prover is not
sound (`CallerAssumption`), and a prover's receipt is sound only if everything
the run asserted was resolved with sound receipts, since the prover does not
verify an assumption when it is added.  These are assumptions about risc0, not
results.

`HostCall` is one call in its steps, per goroutine:

| Action | Code |
|---|---|
| `Refuse`, `Call` | the client's method up to the FFI call; `Prove` refuses a receipt kind |
| `Unlinked` | a C shim whose pointer is NULL: -1, no buffer |
| `Invoke` | the library's reply: `unmarshal`, `invoke`, a boxed body at a free address |
| `Copy`, `CopyPanics` | `C.GoBytes` with `C.int(n)` |
| `FreeBuffer` | `go_zkvm_free_buffer`, or nothing if its pointer is NULL |
| `Decode` | the rest of `callJSON`, with `decodeFFIError` |

`heap` is the library's: a freed address may be handed out again at once.
`copied` keeps the body and the number of bytes that were copied, so a cut
response is one whose length is not `JsonLen` of its body; a cut JSON object
never parses.  `IntMod` is the number of values of a C int.  `receipts` is
what the application holds and may pass on; `made` (the claims provers made
sound receipts of) and `vouched` (what `Prove` returned after its
self-verification) are history variables.  Between `Call` and `Invoke` the
library may take for ever.

Left out because this Go client can never send it: JSON or base64 that does
not decode, another ABI number, NULL out-pointers, a receipt kind the library
refuses after Go accepted it.  Left out because no property tells it apart:
message texts, exit code and sizes reported beside the journal, the prover's
name, the kind of a receipt.  The dev mode of risc0, whose fake receipts
verify, is not modelled.

### ExampleGuests and StandaloneHost

`R` is the number of values of a uint32; a uint64 has `U64 = R * R`, and sums
and products wrap there.  A stream is a sequence of words; a read past its end
gives zeros and is not noticed, as `ReadValue` ignores how much it got.
`sum`, `zero` and `operands` are history variables: the exact sum, and what
was read.  A guest at a path need not be the one its name promises: `program`
is chosen independently of the substrings `bip32` and `policy`, and `Other` is
any guest (`OtherJournals`), the BIP-32 one, which is not in the repository,
included.

`StandaloneHost` is one command: `ParseArgs` (a number that does not parse is
fatal there), `Run` or `CannotLoad` (`load_*_witness`, `parse_bip32_path`,
`validate_bip86_path`), the guest's steps, `Report` or `CannotReport`
(`host_execute`, `host_prove` and the decoding of the mode).  A seed is whole
words.  `ClientRuns` is an application of the Go package, which sends words of
its own: it gives the guests inputs that no encoder would produce.

### R0BF

A step is one access to a file, and every path may be an input, an output, or
both.  `TornWrite` and `TornSave` leave a part of the bytes, `Killed` may come
between any two steps.  `packed` (what a container was made of, and whether it
was written to its end) and `given` (what the command found when it started)
are history variables.  `Headers` are the headers other tools write; the
packer's own has one entry.  The extractor's slices may reach past the length
of what was read, into the zeros of the array behind it, but never past its
end: `CanExtract` works out when it panics.  User and kernel are bytes, and
offsets are exact: a Go int is 64 bits.

## What the runs check

Every run ends within a few minutes.

| Run | Properties | Instance and why it is enough |
|---|---|---|
| `guest_runs` | `TypeOK`, `StreamInv`, `IInv`, `AssumptionsMirror`, `JournalDigestIsSha256`, `AssumptionsMatch`, `ReceiptSaysWhatRan`, `ImplementsGuestOutput`, `UpdateReturns` | 35 bytes, blocks of 16: two blocks and a tail, cut in every way, each piece at every alignment, up to two assertions of two claims anywhere; one claim is of a run this guest may itself make |
| `loader_runs` | `IInv`, `ClientAbi`, `PathsAgree`, `BuffersGoHome`, `PointersStable`, `ImplementsLibraryBinding`, `NewReturns` | two goroutines (one loading, the other waiting or calling), two paths, one change of a file, every outcome of `New`'s path resolution, and every kind of build: complete, other ABI, and missing the first, a middle or the last symbol |
| `call_receipts` | `VerifyMeans`, `ProvedVerifies` | two guests, two inputs each: halts with 0, halts with 1, asserts the other guest, traps; a forged receipt and garbage at hand; an unsound prover |
| `call_runs` | `BuffersOwned`, `BuffersReturned`, `ImplementsHostOracle`, `CallReturns` | two goroutines over two addresses that are reused at once, garbage and forged receipts, caught panics |
| `call_edges` | `TypeOK`, `IInv`, `OwnDecision` | caught panics, an unsound prover, a NULL pointer, a response `GoBytes` panics on and one it truncates |
| `r0bf` | `IInv`, `RoundTrip`, `PackedFaithfully`, `OnlyElfsOverwrite` | three commands over four files: pack, pack or extract over the result, extract; an ELF, a file that is none, a container of another tool, and every choice of paths |
| `standalone` | `GuestInv`, `PolicyExact`, `ProductExact`, `PolicyRunExact`, `PathAsWritten` | 4 guests by command lines and inputs at the edges: sums of `U64 - 1`, `U64`, more than `2 * U64`; 0, 1, 16 and 17 items; components at both ends of both ranges; streams that are too short |

Bounds: `MaxAssumptions` caps the receipts passed to one run, `MaxVerifies`
the assertions of a guest, `MaxReplacements` the changes of files,
`MessageLen` the bytes, `MaxCommands` and `Cuts` the commands of `r0bf` and
where its writes break off (inside the magic, the header, the user ELF and the
kernel), `Addresses` the heap: a library call waits for a free address.  In the `call_*` runs a C int has 8 values and a
response 1 to 9 bytes: fitting (below 4), negative as an int (4 to 7), or cut
(8 and more), which are the three cases of the deployed 2^32.  In `call_edges`
goroutines and addresses are symmetric; its properties are invariants.
In `standalone` a uint32 has 200 values, enough for 86' and for 391, the
product the demo expects.  In `r0bf` a byte read as part of a length has 4
values, which makes a 4-byte length wrap at 256.  `r0bf` and `standalone` stop
by design, when the commands are used up or the command has ended, and
`call_edges` may stop because buffers that are never freed fill the bounded
heap; no other run may deadlock.

Five runs are expected to find a violation, each a disagreement between the
code and what the repository says of it:

- `loader_missing_symbol`: where `dlerror` reports only the last call, a
  missing symbol followed by one that resolves makes the NULL check return
  NULL: even the first `New` succeeds.  When the missing symbol is the last
  one, `free_buffer`, the first `New` fails but the second succeeds over the
  handle it left, and every response then leaks.
- `loader_wrong_path`: a load that fails after `dlopen` leaves the handle set,
  and the next `New` takes the handle for success: for another path, it gives
  a client of that path that calls the first library.
- `call_leak`: a response of 2 GiB or more has a negative `C.int` length;
  `GoBytes` panics and the buffer is never freed.
- `call_image_mismatch`: a receipt of another image is `verify_failed`;
  nothing produces the documented `image_id_mismatch`.
- `call_failed_guest`: a guest that halts with 1 yields no receipt under the
  default self-verification: the prover made one and `prove` drops it.

After a library of another ABI was opened, every later `New` fails, also for
the path of a good one (`ClientAbi` is what makes this safe, if not useful).
`Unlinked` and `Decoded` show two more things that a reader of
`docs/host-api.md` would not expect: a call through a NULL pointer fails with
no error body (lines 512-513), and a response of 4 GiB or more is a plain
error, not a `*HostError` (lines 411-412).

Met while modelling, and not runs of their own:

- The bit count of the padding is cut to 32 bits (`bitsTrailer`), where the
  comment of `computePaddedLength` (`zkvm/sha256_proper.go:231`) promises 64:
  from 512 MiB on a journal gets another digest than its SHA-256.  The proofs
  carry the proviso.
- A path with both `bip32` and `policy_check` in it gets the witness of one
  and the decoder of the other; `PolicyRunExact` excludes it.
- `docs/tutorial.md:1428` gives `extract_r0bf` three arguments; it takes one.
- `docs/tutorial.md:466` speaks of a 28-byte public summary; the guest commits
  40 bytes, and the host asks for 40.
- The request literals of `go-guest-host` lack the field `assumptions`, so it
  does not compile against `host-core` as it stands.  It is modelled as if it
  passed none.
- A container whose packing was cut short inside the kernel extracts with
  success to a shorter kernel: the format does not record its length.
  `RoundTrip` says so (`Prefixes`).

## Fairness

`GuestRuntime` is weakly fair in the steps of `UpdateProperHasher`: a call in
a single thread runs on.  Whether the guest calls again is up to the guest.
`ComposedSpec` has the same fairness.
`FFILoader` is weakly fair in each goroutine's steps inside `New`, none of
which blocks, and strongly fair in `Lock`: `sync.Mutex` hands itself to a
waiter that was passed over (its starvation mode).  Nothing is assumed of the
calls through the pointers, which may last for ever, nor of files.
`HostCall` is weakly fair in each goroutine's steps after the library has
replied, which wait for nothing; nothing is assumed of the library call
itself, so `CallReturns` starts at the reply.
`StandaloneHost` and `R0BF` state no fairness: a guest may run for ever, a
tool may be killed.

## What is proved

The theorems hold for every value of the constants that satisfies the named
assumptions (`WordsAssumption`, `Sha256Assumption`, `GuestAssumption`,
`DigestAssumption`, `CompositionAssumption`; `LibraryAssumption`,
`LoaderAssumption`; `CoreAssumption`, `CallerAssumption`, `CallAssumption`;
`WordAssumption`, `OtherAssumption`, `CommandAssumption`; `R0BFAssumption`; and
the ones that keep `Nothing` and `None` apart).

**Padding** (`Sha256_proof`).  `PaddedLength`: the length is a multiple of the
block, leaves room for the marker and the count, and is the least such.
`PadBufIsFips`: below 2^32 bits, whatever whole blocks came before, the buffer
`FinalizeProperHasher` builds is the remaining bytes followed by the standard
padding of the whole message.  `OneShot`: so `shaBuffer` is SHA-256.  The
argument is arithmetic on `alignUp` for the three block sizes, and the fact
that a big-endian store and a little-endian load cancel the byte order of the
machine (`StoreOfLoad`).

**Journal** (`GuestRuntime_proof`).  The properties are not inductive by
themselves.  `StreamInv` (the journal is compressed bytes, then buffered
bytes, then bytes in hand) survives `BufferTail` only because the buffer is
empty then and the tail shorter than a block (`BlockInv`), and survives the
lazy initialization only because an untouched hasher holds nothing
(`Untouched`).  `IInv` is the conjunction, proved action by action
(`Invariance`); `TypeCorrect`, `JournalStream` and `AssumptionsHeld` follow.
`OutputBindsJournal` adds that a journal never outgrows the message, applies
`PadBufIsFips` at `Halt`, and concludes that the digest is the standard's
provided the message is below 2^32 bits, where the 32-bit count ends.
`Refinement` maps every step to `GuestOutput`.

**Receipts** (`Composition_proof`).  `TaggedStructBinds`: equal tagged structs
have the same tag, the same digests in the same places and the same data; its
lemmas cut `Flat` back into digests by the arithmetic of a quotient and a
remainder.  `ReceiptsSayWhatRan` follows from it at both ends: the claim a run
makes and the claim an assertion names are equal just if image, exit code,
journal and (empty) assumptions are.  The invariant behind it says that the
running digest is the zero digest exactly while nothing was asserted, which
needs that no tagged struct is the zero digest, and that `outputDigest` is of
the journal that was halted with.  Its proviso `BelowLimit` is the 2^32 bits
of the padding, for this journal and for those of the claims.
`ComposedIsGuest`: the composition takes only steps of `GuestRuntime`, so every
safety theorem above holds of it.

`AssumptionsAgree` joins two recursions over one list: `Verify` puts a cell in
front of the running digest, one call at a time, and the host folds the whole
list from its other end.  `ListIsChain` writes the host's fold as a chain of
digests, one per assertion, and `ListDigestGrows` says that one more assertion
is one more cell.  The lazy initialization is the hazard: had it zeroed the
digest once something was asserted, the equality would be lost
(`AssertedInv`).  `AssumptionsBind` goes back: two chains that end alike agree
link by link, and neither can end before the other, since no cell is the zero
digest; a list that lost, repeated or reordered an assertion has another
digest.  `OutputIsTheRun` and `OutputBindsTheRun` put this together with
the journal: what `sys_halt` is handed is a function of the journal on the
descriptor and of the claims given to `sys_verify_integrity`, and two runs
with the same words had the same of both.  The first three need no more than
`MessageBelowLimit`, the journal's part of `BelowLimit`, if anything.

**Loader** (`FFILoader_proof`).  A load is never of the empty path, since
`New` refuses it (`UnloadedInv`).  `IInv` says who is inside the mutex
(`MutexInv`), that whoever is past the path check found nothing published
(`UnloadedInv`), and that the resolved prefix of the pointer table is exactly
what the one opened library exports (`PointersInv`); with it, publication
implies a checked library (`PublishedInv`).  From it: `AllPathsAgree`,
`AllBuffersGoHome`, `NoForeignAbi`, `PointersStay` (the unlocked reads are
safe), and `Refinement` to `LibraryBinding`.

**Calls** (`HostCall_proof`).  `OwnDecision` needs that a reply on its way is
of the request of the caller whose buffer holds it (`RepliesMatch`), which
needs that no other call frees or is given that address (`BuffersOwned`).
`Soundness` needs in addition that every sound receipt anywhere, at hand, on
the heap or in a copy, was made by a prover (`ReceiptsAccounted`), that
requests name only receipts at hand (`RequestsAtHand`), and that behind each
claim made there is a run whose assertions were made too (`MadeByRuns`).
`RoundTrip` uses that what was vouched for verifies (`VouchedVerify`).  These
are the conjuncts of `IInv`, proved action by action (`Invariance`) for any
response lengths and any pointers missing.  `NoLeak` and `Refinement` need two
more assumptions, `AllLinked` and `ResponsesFit`; `call_leak` shows that the
second is needed for `NoLeak`, and `call_edges` checks the rest without them.

**Guests** (`StandaloneHost_proof`).  `PolicyIsExact` and `ProductIsExact`
hold for every word size, witness and input.  While `policy_check` adds,
nothing was lost (`AddsExactly`): an item is at most `U64 - 1`, so a sum that
wrapped is smaller than it was before.  The product's division detects every
overflow because a wrapped product differs from the exact one by a multiple of
`U64`, which no quotient by a factor can undo.

**The standalone host** (`StandaloneHost_proof`).  `HostInv` says what the host
is doing: the numbers of a parsed command parsed, a guest runs on the witness
of the command, and what was printed is what the journal of a halted guest
decodes to.  `PathIsAsWritten` follows from it by arithmetic on where each
field of the witness starts, for a seed and a path of any length: a hardened
component that parsed is below `R`, so `Child` wraps none.
`PolicyRunsAreExact` needs to know what the guest reads, item by item.
`PurchaseInv` says it of whatever list of items, discount and limit the
input encodes: before item `i + 1` the guest is at word `2 * i + 2`, its sum is
that of the first `i` items, and none was zero.  It is inductive only with
`GuestInv` (the sum did not wrap) and from a start at the first word.
`DecideReads` and `SummaryRead` are the two ends: what the guest commits is the
ten words that the host decodes back into the six fields.  The theorem assumes
`ItemsFit`, a command line of fewer than 2^32 items: the host sends
`items.len() as u32`, and 2^32 items and one would be read as one.

Both parts need induction over data: a fold over the assertions, a sum over
the items.  The library's induction takes a predicate as a parameter, which
the provers cannot instantiate.  `SetInduction` (`Induction`) is stated of a set
of naturals instead, and proved from the library's well-foundedness of `<`;
each use of it names the set of the lengths that a fact holds for.

**R0BF** (`R0BF_proof`).  `HoldsPacked` (a file packed from two ELFs is a
prefix of their container) and `ConvertInv` (what is written is the container
up to this step) go together: opening the output loses nothing because both
ELFs were read before.  `ExtractInv` adds that what was taken out of a prefix
that can be extracted is the whole user ELF and a prefix of the kernel.  These
give `ExtractsWhatWasPacked` and `Faithful`; `OverwritesForElfs` follows from
`ConvertInv`.  Headers and ELFs are of any length; the user ELF's must fit the
32 bits it is written in.

Every invariant and every refinement of the runs is a theorem.  Only
model-checked: the liveness properties (`UpdateReturns`, `NewReturns`,
`CallReturns`), as liveness under fairness is out of the prover's reach, and
the violations.

## Not modelled

- The no-cgo stub: every operation returns one constant error.
- Build files and scripts, logging, printing, and the syntax of arguments.
- In the standalone host, a guest file that cannot be read or has no image ID.
- risc0 itself, external, its dev mode included; the BIP-32 guest, which is
  not in the repository.

## Plan

1. The loader composed with the calls: what the promises of a call keep when
   `Linked` is what a failed or racing load left behind.  `HostCall` takes any
   set of linked pointers and `FFILoader` says which can be missing; the
   composition would say it of one run of the program.
2. A theorem of that composition: a client that exists has every pointer but
   perhaps the missing symbols', so `NoLeak` needs `AllLinked` only where
   `loader_missing_symbol` says.

Runs stay one per question.
