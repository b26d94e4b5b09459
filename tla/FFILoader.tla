----------------------------- MODULE FFILoader ------------------------------
(***************************************************************************)
(* host/ffi_cgo.go: how goroutines load the Rust shared library and call   *)
(* through the function pointers it leaves in C globals.                   *)
(*                                                                         *)
(* New takes loadMu for the whole of loadFFILibrary; the operations and    *)
(* copyAndFree read the pointers with no lock at all.  Each step of the    *)
(* load is an action, down to the single dlsym, so every call may fall     *)
(* between any two of them.  The file behind a path may appear, vanish or  *)
(* be rebuilt while the process runs.                                      *)
(***************************************************************************)
EXTENDS LibraryInterface

CONSTANTS
    NoFile,           \* nothing to open at a path
    MaxReplacements,  \* bound on the changes of files
    DefaultPath,      \* the library beside the sources, NoPath if unknown
    DlerrorSticky     \* does dlerror keep an error over later successes?
                      \* (musl: yes; glibc and macOS: no)

ASSUME LoaderAssumption ==
    /\ NoFile \notin Builds
    /\ MaxReplacements \in Nat
    /\ DefaultPath \in Paths \cup {NoPath}
    /\ DlerrorSticky \in BOOLEAN

VARIABLES
    \* Outside the process.
    disk,         \* the file at each path
    replacements, \* how often a file changed
    \* Globals of the process.
    loadMu,       \* the goroutine holding the mutex, or Null
    loadedPath,
    handle,       \* go_zkvm_handle: the library it opened, or Null
    openedFrom,   \* the path handle was opened from
    ptr,          \* the six function pointers: the library they point into
    \* Locals of each goroutine.
    pc,
    path,         \* the argument of loadFFILibrary
    next,         \* the next symbol to look up, by position
    dlerr,        \* is there an error for dlerror to return?
    ok,           \* did loadFFILibrary return nil?
    client,       \* the path of the client it holds, or NoPath
    buffer        \* the library that allocated its out buffer, or Null

diskVars   == << disk, replacements >>
globalVars == << loadedPath, handle, openedFrom, ptr >>
loadVars   == << path, next, dlerr, ok >>
useVars    == << client, buffer >>
vars == << diskVars, loadMu, globalVars, pc, loadVars, useVars >>

Init ==
    /\ disk \in [Paths -> Builds \cup {NoFile}]
    /\ replacements = 0
    /\ loadMu = Null
    /\ loadedPath = NoPath
    /\ handle = Null /\ openedFrom = NoPath
    /\ ptr = [s \in Symbol |-> Null]
    /\ pc = [c \in Callers |-> "idle"]
    /\ path = [c \in Callers |-> NoPath]
    /\ next = [c \in Callers |-> 1]
    /\ dlerr = [c \in Callers |-> FALSE]
    /\ ok = [c \in Callers |-> FALSE]
    /\ client = [c \in Callers |-> NoPath]
    /\ buffer = [c \in Callers |-> Null]

Goto(c, label) == pc' = [pc EXCEPT ![c] = label]

\* loadFFILibrary returns: its result, and the deferred unlock next.
Return(c, success) ==
    /\ Goto(c, "unlock")
    /\ ok' = [ok EXCEPT ![c] = success]

-----------------------------------------------------------------------------
(* New.                                                                    *)

\* The environment's path unless it is unset or blank, else the default.
resolvedLibraryPath(env) == IF env # NoPath THEN env ELSE DefaultPath

\* New's options: none, or WithLibraryPath, which overrides even with "".
Options == {<< >>} \cup { << p >> : p \in Paths \cup {NoPath} }

\* What cfg.libraryPath may be once the options were applied.  The
\* environment may change between two calls of New.
LibraryPaths ==
    { IF option = << >> THEN resolvedLibraryPath(env) ELSE option[1] :
      option \in Options, env \in Paths \cup {NoPath} }

\* (mutant: the empty path is not refused)
New_EmptyToo(c) ==
    /\ pc[c] = "idle" /\ client[c] = NoPath
    /\ \E p \in LibraryPaths : path' = [path EXCEPT ![c] = p]
    /\ Goto(c, "lock")
    /\ UNCHANGED << diskVars, loadMu, globalVars, next, dlerr, ok, useVars >>

New(c) ==
    /\ pc[c] = "idle" /\ client[c] = NoPath
    /\ \E p \in LibraryPaths \ {NoPath} : path' = [path EXCEPT ![c] = p]
    /\ Goto(c, "lock")
    /\ UNCHANGED << diskVars, loadMu, globalVars, next, dlerr, ok, useVars >>

\* "library path must not be empty": the empty path stands for a process
\* that has loaded nothing.
NewRefuses(c) ==
    /\ pc[c] = "idle" /\ client[c] = NoPath
    /\ NoPath \in LibraryPaths
    /\ UNCHANGED vars

\* (mutant: the mutex does not exclude)
Lock_NoWait(c) ==
    /\ pc[c] = "lock"
    /\ loadMu' = c
    /\ Goto(c, "check")
    /\ UNCHANGED << diskVars, globalVars, loadVars, useVars >>

Lock(c) ==
    /\ pc[c] = "lock" /\ loadMu = Null
    /\ loadMu' = c
    /\ Goto(c, "check")
    /\ UNCHANGED << diskVars, globalVars, loadVars, useVars >>

\* (mutant: any path will do once one is loaded)
CheckPath_AnyPath(c) ==
    /\ pc[c] = "check"
    /\ \/ /\ loadedPath = NoPath
          /\ Goto(c, "load")
          /\ UNCHANGED ok
       \/ /\ loadedPath # NoPath
          /\ Return(c, TRUE)
    /\ UNCHANGED << diskVars, loadMu, globalVars, path, next, dlerr,
                    useVars >>

CheckPath(c) ==
    /\ pc[c] = "check"
    /\ \/ /\ loadedPath = NoPath
          /\ Goto(c, "load")
          /\ UNCHANGED ok
       \/ /\ loadedPath # NoPath
          /\ Return(c, loadedPath = path[c])
    /\ UNCHANGED << diskVars, loadMu, globalVars, path, next, dlerr,
                    useVars >>

\* go_zkvm_host_load, down to the dlopen: a handle left by an earlier call,
\* whatever became of that call, counts as success.
AlreadyOpen(c) ==
    /\ pc[c] = "load" /\ handle # Null
    /\ Goto(c, "version")
    /\ UNCHANGED << diskVars, loadMu, globalVars, loadVars, useVars >>

\* (mutant: waits for the file, holding the mutex)
CannotOpen_Waits(c) ==
    /\ pc[c] = "load" /\ handle = Null
    /\ disk[path[c]] = NoFile
    /\ UNCHANGED vars

CannotOpen(c) ==
    /\ pc[c] = "load" /\ handle = Null
    /\ disk[path[c]] = NoFile
    /\ Return(c, FALSE)
    /\ UNCHANGED << diskVars, loadMu, globalVars, path, next, dlerr,
                    useVars >>

Open(c) ==
    /\ pc[c] = "load" /\ handle = Null
    /\ disk[path[c]] # NoFile
    /\ handle' = disk[path[c]]
    /\ openedFrom' = path[c]
    /\ next' = [next EXCEPT ![c] = 1]
    /\ dlerr' = [dlerr EXCEPT ![c] = FALSE]
    /\ Goto(c, "resolve")
    /\ UNCHANGED << diskVars, loadMu, loadedPath, ptr, path, ok, useVars >>

\* One dlsym.
Resolve(c) ==
    LET found == symbols[next[c]] \in Exports[handle]
    IN  /\ pc[c] = "resolve" /\ next[c] <= Len(symbols)
        /\ ptr' = [ptr EXCEPT ![symbols[next[c]]] =
                       IF found THEN handle ELSE Null]
        /\ dlerr' = [dlerr EXCEPT ![c] =
                         ~found \/ (DlerrorSticky /\ dlerr[c])]
        /\ next' = [next EXCEPT ![c] = @ + 1]
        /\ UNCHANGED << diskVars, loadMu, loadedPath, handle, openedFrom,
                        pc, path, ok, useVars >>

\* The NULL check: what it returns is dlerror(), itself NULL if a later
\* dlsym succeeded and cleared the error.
Resolved(c) ==
    /\ pc[c] = "resolve" /\ next[c] > Len(symbols)
    /\ \/ /\ \E s \in Symbol : ptr[s] = Null
          /\ dlerr[c]
          /\ Return(c, FALSE)
       \/ /\ (\A s \in Symbol : ptr[s] # Null) \/ ~dlerr[c]
          /\ Goto(c, "version")
          /\ UNCHANGED ok
    /\ UNCHANGED << diskVars, loadMu, globalVars, path, next, dlerr,
                    useVars >>

\* go_zkvm_host_loaded_abi_version: 0 when the symbol is missing.
loadedAbiVersion ==
    IF ptr["abi_version"] = Null THEN 0 ELSE Abi[ptr["abi_version"]]

\* (mutant: publishes what it loaded before it looks at the version)
CheckVersion_TooLate(c) ==
    /\ pc[c] = "version"
    /\ Return(c, loadedAbiVersion = abiVersion)
    /\ loadedPath' = path[c]
    /\ UNCHANGED << diskVars, loadMu, handle, openedFrom, ptr, path, next,
                    dlerr, useVars >>

CheckVersion(c) ==
    /\ pc[c] = "version"
    /\ Return(c, loadedAbiVersion = abiVersion)
    /\ loadedPath' = IF loadedAbiVersion = abiVersion
                     THEN path[c] ELSE loadedPath
    /\ UNCHANGED << diskVars, loadMu, handle, openedFrom, ptr, path, next,
                    dlerr, useVars >>

\* The deferred Unlock, and New's return.
Unlock(c) ==
    /\ pc[c] = "unlock"
    /\ loadMu' = Null
    /\ client' = [client EXCEPT ![c] = IF ok[c] THEN path[c] ELSE NoPath]
    /\ Goto(c, "idle")
    /\ UNCHANGED << diskVars, globalVars, loadVars, buffer >>

Load(c) ==
    \/ CheckPath(c) \/ AlreadyOpen(c) \/ CannotOpen(c) \/ Open(c)
    \/ Resolve(c) \/ Resolved(c) \/ CheckVersion(c) \/ Unlock(c)

-----------------------------------------------------------------------------
(* A client, and the files.                                                *)

\* (mutant: the client that closes unloads the library)
Close_Unloads(c) ==
    /\ pc[c] = "idle" /\ client[c] # NoPath
    /\ client' = [client EXCEPT ![c] = NoPath]
    /\ handle' = Null /\ openedFrom' = NoPath /\ loadedPath' = NoPath
    /\ ptr' = [s \in Symbol |-> Null]
    /\ UNCHANGED << diskVars, loadMu, pc, loadVars, buffer >>

\* Close tears nothing down.
Close(c) ==
    /\ pc[c] = "idle" /\ client[c] # NoPath
    /\ client' = [client EXCEPT ![c] = NoPath]
    /\ UNCHANGED << diskVars, loadMu, globalVars, pc, loadVars, buffer >>

\* go_zkvm_host_call_*: a NULL pointer is status -1 and no buffer.
Call(c) ==
    /\ pc[c] = "idle" /\ client[c] # NoPath
    /\ \E op \in Operation :
        /\ ptr[op] # Null
        /\ buffer' = [buffer EXCEPT ![c] = ptr[op]]
    /\ Goto(c, "free")
    /\ UNCHANGED << diskVars, loadMu, globalVars, loadVars, client >>

\* copyAndFree, when the call is over; with no free_buffer it just forgets.
Free(c) ==
    /\ pc[c] = "free"
    /\ buffer' = [buffer EXCEPT ![c] = Null]
    /\ Goto(c, "idle")
    /\ UNCHANGED << diskVars, loadMu, globalVars, loadVars, client >>

\* Somebody builds, rebuilds or removes a library.
Replace(p) ==
    /\ replacements < MaxReplacements
    /\ replacements' = replacements + 1
    /\ \E file \in (Builds \cup {NoFile}) \ {disk[p]} :
        disk' = [disk EXCEPT ![p] = file]
    /\ UNCHANGED << loadMu, globalVars, pc, loadVars, useVars >>

Next ==
    \/ \E c \in Callers : \/ New(c) \/ NewRefuses(c) \/ Lock(c) \/ Load(c)
                          \/ Close(c) \/ Call(c) \/ Free(c)
    \/ \E p \in Paths : Replace(p)

\* A goroutine inside New keeps running; sync.Mutex hands itself to a waiter
\* that was passed over (its starvation mode), so Lock is strongly fair.
Spec ==
    /\ Init /\ [][Next]_vars
    /\ \A c \in Callers : SF_vars(Lock(c)) /\ WF_vars(Load(c))

-----------------------------------------------------------------------------
(* Properties.                                                             *)

Label == {"idle", "lock", "check", "load", "resolve", "version", "unlock",
          "free"}

Critical == {"check", "load", "resolve", "version", "unlock"}

TypeOK ==
    /\ disk \in [Paths -> Builds \cup {NoFile}]
    /\ replacements \in 0..MaxReplacements
    /\ loadMu \in Callers \cup {Null}
    /\ loadedPath \in Paths \cup {NoPath}
    /\ handle \in Builds \cup {Null}
    /\ openedFrom \in Paths \cup {NoPath}
    /\ ptr \in [Symbol -> Builds \cup {Null}]
    /\ pc \in [Callers -> Label]
    /\ path \in [Callers -> Paths \cup {NoPath}]
    /\ next \in [Callers -> 1..(Len(symbols) + 1)]
    /\ dlerr \in [Callers -> BOOLEAN]
    /\ ok \in [Callers -> BOOLEAN]
    /\ client \in [Callers -> Paths \cup {NoPath}]
    /\ buffer \in [Callers -> Builds \cup {Null}]

\* A goroutine is inside loadFFILibrary exactly when it holds loadMu.
MutexInv == \A c \in Callers : pc[c] \in Critical <=> loadMu = c

\* A goroutine that is past the path check found nothing published, and
\* nothing is published while it is there.
UnloadedInv ==
    \A c \in Callers :
        /\ pc[c] \in {"load", "resolve", "version"} => loadedPath = NoPath
        /\ pc[c] \in {"lock"} \cup Critical => path[c] \in Paths

\* The pointers are those of the one library opened: before their dlsym they
\* are NULL, and after it they are what that library exports.
PointersInv ==
    /\ handle = Null => \A s \in Symbol : ptr[s] = Null
    /\ \A c \in Callers : pc[c] = "resolve" =>
        /\ handle # Null
        /\ \A i \in 1..Len(symbols) : ptr[symbols[i]] =
               IF i < next[c] /\ symbols[i] \in Exports[handle]
               THEN handle ELSE Null
    /\ handle # Null /\ (\A c \in Callers : pc[c] # "resolve") =>
        \A s \in Symbol : ptr[s] = IF s \in Exports[handle]
                                   THEN handle ELSE Null
    /\ \A c \in Callers : pc[c] = "version" => handle # Null

\* What is published was checked: the library is there and speaks the ABI.
PublishedInv ==
    loadedPath # NoPath =>
        handle # Null /\ "abi_version" \in Exports[handle]
            /\ Abi[handle] = abiVersion

\* Every client, and every New about to return one, is of the path published
\* first, however the goroutines raced and whatever paths they asked for.
PathsAgree ==
    \A c \in Callers :
        /\ client[c] # NoPath => client[c] = loadedPath
        /\ pc[c] = "unlock" /\ ok[c] =>
               path[c] = loadedPath /\ loadedPath # NoPath

\* A goroutine in a call has a client, and its buffer is of the library that
\* answers every call: copyAndFree hands it back to the allocator it is from,
\* or, when free_buffer is NULL, to nobody.
BuffersGoHome ==
    \A c \in Callers :
        IF pc[c] = "free"
        THEN /\ client[c] # NoPath
             /\ buffer[c] = handle /\ buffer[c] # Null
             /\ ptr["free_buffer"] \in {Null, buffer[c]}
        ELSE buffer[c] = Null

\* Between calls a goroutine has no client while it is inside New.
ClientsIdle ==
    \A c \in Callers : client[c] # NoPath => pc[c] \in {"idle", "free"}

\* The inductive invariant behind the properties of this module.
IInv == TypeOK /\ MutexInv /\ UnloadedInv /\ PointersInv /\ PublishedInv
            /\ PathsAgree /\ BuffersGoHome /\ ClientsIdle

\* A client can only be had from a library that answered abiVersion, even on
\* a retry over a handle that an earlier New opened and gave up.
ClientAbi ==
    (\E c \in Callers : client[c] # NoPath) =>
        handle # Null /\ Abi[handle] = abiVersion

\* The calls read the pointers with no lock: once anybody holds a client, no
\* pointer is ever written again, and the path is never published twice.
PointersStable ==
    [][(\E c \in Callers : client[c] # NoPath) \/ loadedPath # NoPath
           => UNCHANGED << ptr, handle, loadedPath >>]_vars

\* The loader implements the promise.
Promise == INSTANCE LibraryBinding
    WITH boundPath  <- loadedPath,
         boundBuild <- IF loadedPath = NoPath THEN Null ELSE handle

ImplementsLibraryBinding == Promise!BindingSpec

\* Every New returns, with a client or an error: no path through
\* loadFFILibrary keeps the mutex, and no waiter is passed over for ever.
NewReturns == \A c \in Callers : pc[c] = "lock" ~> pc[c] = "idle"

\* The comment of loadFFILibrary: it "resolves all exported function
\* pointers"; a client can call every operation and free what it gets.
ClientsComplete ==
    (\E c \in Callers : client[c] # NoPath) => \A s \in Symbol : ptr[s] # Null

\* docs/host-api.md: New loads the library of its path, and a call with a
\* different path is an error.
ClientsGetTheirPath ==
    \A c \in Callers : client[c] # NoPath => client[c] = openedFrom

=============================================================================
