-------------------------- MODULE FFILoader_proof ---------------------------
(***************************************************************************)
(* Proofs about FFILoader, for any number of goroutines, paths and builds, *)
(* whatever symbols the builds export and whatever dlerror does.           *)
(***************************************************************************)
EXTENDS FFILoader, TLAPS

\* The table of the dlsym calls names each symbol once.
LEMMA SymbolTable ==
  /\ Len(symbols) = 6
  /\ \A i \in 1..6 : symbols[i] \in Symbol
  /\ \A s \in Symbol : \E i \in 1..6 : symbols[i] = s
  /\ \A i, j \in 1..6 : symbols[i] = symbols[j] => i = j
  BY DEF symbols, Symbol, Operation

\* Nothing is loaded at the start.
LEMMA InitInv == Init => IInv
  <1> SUFFICES ASSUME Init PROVE IInv
    OBVIOUS
  <1>1. TypeOK
    BY LibraryAssumption, LoaderAssumption, SymbolTable DEF Init, TypeOK, Label
  <1>2. MutexInv /\ UnloadedInv /\ PublishedInv /\ PathsAgree
        /\ BuffersGoHome /\ ClientsIdle
    BY LibraryAssumption, LoaderAssumption
    DEF Init, MutexInv, UnloadedInv, PublishedInv, PathsAgree,
        BuffersGoHome, ClientsIdle, Critical
  <1>3. PointersInv
    BY DEF Init, PointersInv
  <1>4. QED
    BY <1>1, <1>2, <1>3 DEF IInv

\* At most one goroutine is inside loadFFILibrary.
LEMMA Alone ==
  ASSUME MutexInv, NEW c \in Callers, NEW d \in Callers,
         pc[c] \in Critical, pc[d] \in Critical
  PROVE  c = d
  BY DEF MutexInv

\* What New loads from: a path, once the empty one is refused.
LEMMA PathsConfigured == LibraryPaths \ {NoPath} \subseteq Paths
  <1>1. \A env \in Paths \cup {NoPath} :
            resolvedLibraryPath(env) \in Paths \cup {NoPath}
    BY LoaderAssumption DEF resolvedLibraryPath
  <1>2. \A option \in Options :
            option = << >> \/ option[1] \in Paths \cup {NoPath}
    BY DEF Options
  <1>3. QED
    BY <1>1, <1>2 DEF LibraryPaths

\* A new call of New only waits.
LEMMA NewInv ==
  ASSUME IInv, NEW c \in Callers, New(c)
  PROVE  IInv'
  <1>0. PICK p \in Paths : path' = [path EXCEPT ![c] = p]
    BY PathsConfigured DEF New
  <1>a. /\ pc[c] = "idle" /\ client[c] = NoPath /\ Goto(c, "lock")
        /\ UNCHANGED << diskVars, loadMu, globalVars, next, dlerr, ok,
                        useVars >>
    BY DEF New
  <1> USE <1>0, <1>a DEF IInv, Goto, diskVars, globalVars, useVars
  <1>1. TypeOK'
    BY DEF Label, TypeOK
  <1>2. MutexInv'
    BY DEF TypeOK, Critical, MutexInv
  <1>3. UnloadedInv'
    BY DEF TypeOK, Critical, UnloadedInv
  <1>4. PointersInv'
    BY DEF TypeOK, PointersInv
  <1>5. PublishedInv'
    BY DEF PublishedInv
  <1>6. PathsAgree'
    BY DEF TypeOK, PathsAgree
  <1>7. BuffersGoHome'
    BY DEF TypeOK, BuffersGoHome
  <1>8. ClientsIdle'
    BY DEF TypeOK, ClientsIdle
  <1>9. QED
    BY <1>1, <1>2, <1>3, <1>4, <1>5, <1>6, <1>7, <1>8

\* Taking the mutex admits one goroutine.
LEMMA LockInv ==
  ASSUME IInv, NEW c \in Callers, Lock(c)
  PROVE  IInv'
  <1> USE DEF IInv, Lock, Goto, diskVars, globalVars, loadVars, useVars
  <1>1. TypeOK'
    BY DEF Label, TypeOK
  <1>2. MutexInv'
    BY LibraryAssumption, LoaderAssumption DEF TypeOK, Critical, MutexInv
  <1>3. UnloadedInv'
    BY DEF TypeOK, Critical, UnloadedInv
  <1>4. PointersInv'
    BY DEF TypeOK, PointersInv
  <1>5. PublishedInv'
    BY DEF PublishedInv
  <1>6. PathsAgree'
    BY DEF TypeOK, PathsAgree
  <1>7. BuffersGoHome'
    BY DEF TypeOK, BuffersGoHome
  <1>8. ClientsIdle'
    BY DEF TypeOK, ClientsIdle
  <1>9. QED
    BY <1>1, <1>2, <1>3, <1>4, <1>5, <1>6, <1>7, <1>8

\* The path check either settles the call or finds nothing published.
LEMMA CheckPathInv ==
  ASSUME IInv, NEW c \in Callers, CheckPath(c)
  PROVE  IInv'
  <1> USE DEF IInv, CheckPath, Return, Goto, diskVars, globalVars, useVars
  <1>1. TypeOK'
    BY DEF Label, TypeOK
  <1>2. MutexInv'
    BY DEF TypeOK, Critical, MutexInv
  <1>3. UnloadedInv'
    BY DEF TypeOK, Critical, UnloadedInv
  <1>4. PointersInv'
    BY DEF TypeOK, PointersInv
  <1>5. PublishedInv'
    BY DEF PublishedInv
  <1>6. PathsAgree'
    BY DEF TypeOK, PathsAgree
  <1>7. BuffersGoHome'
    BY DEF TypeOK, BuffersGoHome
  <1>8. ClientsIdle'
    BY DEF TypeOK, ClientsIdle
  <1>9. QED
    BY <1>1, <1>2, <1>3, <1>4, <1>5, <1>6, <1>7, <1>8

\* A handle left behind has its pointers resolved already.
LEMMA AlreadyOpenInv ==
  ASSUME IInv, NEW c \in Callers, AlreadyOpen(c)
  PROVE  IInv'
  <1> USE DEF IInv, AlreadyOpen, Goto, diskVars, globalVars, loadVars, useVars
  <1>1. TypeOK'
    BY DEF Label, TypeOK
  <1>2. MutexInv'
    BY DEF TypeOK, Critical, MutexInv
  <1>3. UnloadedInv'
    BY DEF TypeOK, Critical, UnloadedInv
  <1>4. PointersInv'
    BY DEF TypeOK, PointersInv
  <1>5. PublishedInv'
    BY DEF PublishedInv
  <1>6. PathsAgree'
    BY DEF TypeOK, PathsAgree
  <1>7. BuffersGoHome'
    BY DEF TypeOK, BuffersGoHome
  <1>8. ClientsIdle'
    BY DEF TypeOK, ClientsIdle
  <1>9. QED
    BY <1>1, <1>2, <1>3, <1>4, <1>5, <1>6, <1>7, <1>8

\* A failed dlopen leaves no handle.
LEMMA CannotOpenInv ==
  ASSUME IInv, NEW c \in Callers, CannotOpen(c)
  PROVE  IInv'
  <1> USE DEF IInv, CannotOpen, Return, Goto, diskVars, globalVars, useVars
  <1>1. TypeOK'
    BY DEF Label, TypeOK
  <1>2. MutexInv'
    BY DEF TypeOK, Critical, MutexInv
  <1>3. UnloadedInv'
    BY DEF TypeOK, Critical, UnloadedInv
  <1>4. PointersInv'
    BY DEF TypeOK, PointersInv
  <1>5. PublishedInv'
    BY DEF PublishedInv
  <1>6. PathsAgree'
    BY DEF TypeOK, PathsAgree
  <1>7. BuffersGoHome'
    BY DEF TypeOK, BuffersGoHome
  <1>8. ClientsIdle'
    BY DEF TypeOK, ClientsIdle
  <1>9. QED
    BY <1>1, <1>2, <1>3, <1>4, <1>5, <1>6, <1>7, <1>8

\* A dlopen starts from NULL pointers.
LEMMA OpenInv ==
  ASSUME IInv, NEW c \in Callers, Open(c)
  PROVE  IInv'
  <1> USE DEF IInv, Open, Goto, diskVars, useVars
  <1>1. TypeOK'
    <2>1. path[c] \in Paths
      BY DEF UnloadedInv, Critical
    <2>2. disk[path[c]] \in Builds
      BY <2>1 DEF TypeOK
    <2>3. QED
      BY <2>1, <2>2, SymbolTable DEF TypeOK, Label
  <1>2. MutexInv'
    BY DEF TypeOK, Critical, MutexInv
  <1>3. UnloadedInv'
    BY DEF TypeOK, Critical, UnloadedInv
  <1>4. PointersInv'
    <2>1. \A d \in Callers : pc'[d] = "resolve" => d = c
      BY Alone DEF TypeOK, Critical
    <2>2. handle' # Null
      BY LibraryAssumption, LoaderAssumption DEF TypeOK, UnloadedInv, Critical
    <2>3. next'[c] = 1 /\ pc'[c] = "resolve"
      BY DEF TypeOK
    <2>4. \A s \in Symbol : ptr'[s] = Null
      BY DEF PointersInv
    <2>5. \A i \in 1..6 : ptr'[symbols[i]] = Null /\ ~(i < 1)
      BY <2>4, SymbolTable
    <2>6. QED
      BY <2>1, <2>2, <2>3, <2>5, SymbolTable DEF PointersInv
  <1>5. PublishedInv'
    BY DEF PublishedInv
  <1>6. PathsAgree'
    BY DEF TypeOK, PathsAgree
  <1>7. BuffersGoHome'
    BY DEF TypeOK, BuffersGoHome
  <1>8. ClientsIdle'
    BY DEF TypeOK, ClientsIdle
  <1>9. QED
    BY <1>1, <1>2, <1>3, <1>4, <1>5, <1>6, <1>7, <1>8

\* A dlsym extends the resolved part of the table by its symbol.
LEMMA ResolveInv ==
  ASSUME IInv, NEW c \in Callers, Resolve(c)
  PROVE  IInv'
  <1> USE DEF IInv, Resolve, diskVars, useVars
  <1>1. TypeOK'
    <2>1. handle \in Builds
      BY DEF TypeOK, PointersInv
    <2>2. next'[c] \in 1..(Len(symbols) + 1)
      BY SymbolTable DEF TypeOK
    <2>3. ptr' \in [Symbol -> Builds \cup {Null}]
      BY <2>1 DEF TypeOK
    <2>4. QED
      BY <2>2, <2>3 DEF TypeOK, Label
  <1>2. MutexInv'
    BY DEF TypeOK, Critical, MutexInv
  <1>3. UnloadedInv'
    BY DEF TypeOK, Critical, UnloadedInv
  <1>4. PointersInv'
    <2> DEFINE k == next[c]
    <2>1. \A d \in Callers : pc[d] = "resolve" => d = c
      BY Alone DEF TypeOK, Critical
    <2>2. k \in 1..6 /\ next'[c] = k + 1
      BY SymbolTable DEF TypeOK
    <2>3. handle # Null
          /\ \A i \in 1..6 : ptr[symbols[i]] =
                 IF i < k /\ symbols[i] \in Exports[handle]
                 THEN handle ELSE Null
      BY SymbolTable DEF PointersInv
    <2>4. \A i \in 1..6 : ptr'[symbols[i]] =
             IF i = k
             THEN IF symbols[k] \in Exports[handle] THEN handle ELSE Null
             ELSE ptr[symbols[i]]
      BY <2>2, SymbolTable DEF TypeOK
    <2>5. \A i \in 1..6 : i < k + 1 <=> i < k \/ i = k
      BY <2>2
    <2>6. \A i \in 1..6 : ptr'[symbols[i]] =
             IF i < next'[c] /\ symbols[i] \in Exports[handle]
             THEN handle ELSE Null
      BY <2>2, <2>3, <2>4, <2>5
    <2>7. QED
      BY <2>1, <2>3, <2>6, SymbolTable DEF PointersInv
  <1>5. PublishedInv'
    BY DEF PublishedInv
  <1>6. PathsAgree'
    BY DEF TypeOK, PathsAgree
  <1>7. BuffersGoHome'
    BY DEF TypeOK, BuffersGoHome
  <1>8. ClientsIdle'
    BY DEF TypeOK, ClientsIdle
  <1>9. QED
    BY <1>1, <1>2, <1>3, <1>4, <1>5, <1>6, <1>7, <1>8

\* After the last dlsym every pointer is what the library exports.
LEMMA ResolvedInv ==
  ASSUME IInv, NEW c \in Callers, Resolved(c)
  PROVE  IInv'
  <1> USE DEF IInv, Resolved, Return, Goto, diskVars, globalVars, useVars
  <1>1. TypeOK'
    BY DEF Label, TypeOK
  <1>2. MutexInv'
    BY DEF TypeOK, Critical, MutexInv
  <1>3. UnloadedInv'
    BY DEF TypeOK, Critical, UnloadedInv
  <1>4. PointersInv'
    <2>1. \A d \in Callers : pc[d] = "resolve" => d = c
      BY Alone DEF TypeOK, Critical
    <2>2. \A d \in Callers : pc'[d] # "resolve"
      BY <2>1 DEF TypeOK
    <2>3. \A i \in 1..6 : i < next[c]
      BY SymbolTable DEF TypeOK
    <2>4. handle # Null
          /\ \A i \in 1..6 : ptr[symbols[i]] =
                 IF symbols[i] \in Exports[handle] THEN handle ELSE Null
      BY <2>3, SymbolTable DEF PointersInv
    <2>5. \A s \in Symbol : ptr[s] =
             IF s \in Exports[handle] THEN handle ELSE Null
      BY <2>4, SymbolTable
    <2>6. QED
      BY <2>2, <2>4, <2>5 DEF PointersInv, TypeOK
  <1>5. PublishedInv'
    BY DEF PublishedInv
  <1>6. PathsAgree'
    BY DEF TypeOK, PathsAgree
  <1>7. BuffersGoHome'
    BY DEF TypeOK, BuffersGoHome
  <1>8. ClientsIdle'
    BY DEF TypeOK, ClientsIdle
  <1>9. QED
    BY <1>1, <1>2, <1>3, <1>4, <1>5, <1>6, <1>7, <1>8

\* Only a checked library is published.
LEMMA CheckVersionInv ==
  ASSUME IInv, NEW c \in Callers, CheckVersion(c)
  PROVE  IInv'
  <1> USE DEF IInv, CheckVersion, Return, Goto, diskVars, useVars
  <1>1. TypeOK'
    BY DEF Label, TypeOK
  <1>2. MutexInv'
    BY DEF TypeOK, Critical, MutexInv
  <1>3. UnloadedInv'
    BY Alone DEF TypeOK, Critical, UnloadedInv
  <1>4. PointersInv'
    BY DEF TypeOK, PointersInv
  <1>5. PublishedInv'
    <2>1. \A d \in Callers : pc[d] # "resolve"
      BY Alone DEF TypeOK, Critical
    <2>2. handle # Null
          /\ ptr["abi_version"] = IF "abi_version" \in Exports[handle]
                                   THEN handle ELSE Null
      BY <2>1 DEF PointersInv, Symbol
    <2>3. loadedPath = NoPath
      BY DEF UnloadedInv
    <2>4. QED
      BY <2>2, <2>3 DEF PublishedInv, loadedAbiVersion, abiVersion
  <1>6. PathsAgree'
    <2>1. \A d \in Callers : pc[d] = "unlock" => FALSE
      BY Alone DEF TypeOK, Critical
    <2>2. path[c] \in Paths /\ loadedPath = NoPath
      BY DEF UnloadedInv, Critical
    <2>3. QED
      BY <2>1, <2>2, LibraryAssumption, LoaderAssumption DEF TypeOK, PathsAgree
  <1>7. BuffersGoHome'
    BY DEF TypeOK, BuffersGoHome
  <1>8. ClientsIdle'
    BY DEF TypeOK, ClientsIdle
  <1>9. QED
    BY <1>1, <1>2, <1>3, <1>4, <1>5, <1>6, <1>7, <1>8

\* A goroutine leaves with the mutex free, and a client of the path.
LEMMA UnlockInv ==
  ASSUME IInv, NEW c \in Callers, Unlock(c)
  PROVE  IInv'
  <1> USE DEF IInv, Unlock, Goto, diskVars, globalVars, loadVars
  <1>1. TypeOK'
    BY DEF Label, TypeOK
  <1>2. MutexInv'
    BY LibraryAssumption, LoaderAssumption DEF TypeOK, Critical, MutexInv
  <1>3. UnloadedInv'
    BY DEF TypeOK, Critical, UnloadedInv
  <1>4. PointersInv'
    BY DEF TypeOK, PointersInv
  <1>5. PublishedInv'
    BY DEF PublishedInv
  <1>6. PathsAgree'
    BY DEF TypeOK, PathsAgree
  <1>7. BuffersGoHome'
    BY DEF TypeOK, BuffersGoHome
  <1>8. ClientsIdle'
    BY DEF TypeOK, ClientsIdle
  <1>9. QED
    BY <1>1, <1>2, <1>3, <1>4, <1>5, <1>6, <1>7, <1>8

\* Closing gives up a client.
LEMMA CloseInv ==
  ASSUME IInv, NEW c \in Callers, Close(c)
  PROVE  IInv'
  <1> USE DEF IInv, Close, diskVars, globalVars, loadVars
  <1>1. TypeOK'
    BY DEF Label, TypeOK
  <1>2. MutexInv'
    BY DEF TypeOK, Critical, MutexInv
  <1>3. UnloadedInv'
    BY DEF TypeOK, Critical, UnloadedInv
  <1>4. PointersInv'
    BY DEF TypeOK, PointersInv
  <1>5. PublishedInv'
    BY DEF PublishedInv
  <1>6. PathsAgree'
    BY DEF TypeOK, PathsAgree
  <1>7. BuffersGoHome'
    BY DEF TypeOK, BuffersGoHome
  <1>8. ClientsIdle'
    BY DEF TypeOK, ClientsIdle
  <1>9. QED
    BY <1>1, <1>2, <1>3, <1>4, <1>5, <1>6, <1>7, <1>8

\* A call is answered by the library opened.
LEMMA CallInv ==
  ASSUME IInv, NEW c \in Callers, Call(c)
  PROVE  IInv'
  <1> USE DEF IInv, Call, Goto, diskVars, globalVars, loadVars
  <1>1. TypeOK'
    BY DEF TypeOK, Label, Symbol
  <1>2. MutexInv'
    BY DEF TypeOK, Critical, MutexInv
  <1>3. UnloadedInv'
    BY DEF TypeOK, Critical, UnloadedInv
  <1>4. PointersInv'
    BY DEF TypeOK, PointersInv
  <1>5. PublishedInv'
    BY DEF PublishedInv
  <1>6. PathsAgree'
    BY DEF TypeOK, PathsAgree
  <1>7. BuffersGoHome'
    <2>1. loadedPath # NoPath /\ handle # Null
      BY DEF PathsAgree, PublishedInv
    <2>2. \A d \in Callers : pc[d] # "resolve"
      BY <2>1 DEF UnloadedInv
    <2>3. \A s \in Symbol : ptr[s] \in {Null, handle}
      BY <2>1, <2>2 DEF PointersInv
    <2>4. PICK op \in Operation :
            ptr[op] # Null /\ buffer' = [buffer EXCEPT ![c] = ptr[op]]
      OBVIOUS
    <2>5. op \in Symbol /\ "free_buffer" \in Symbol
      BY DEF Symbol
    <2>6. buffer'[c] = handle
      BY <2>3, <2>4, <2>5 DEF TypeOK
    <2>7. QED
      BY <2>1, <2>3, <2>4, <2>5, <2>6 DEF TypeOK, BuffersGoHome
  <1>8. ClientsIdle'
    BY DEF TypeOK, ClientsIdle
  <1>9. QED
    BY <1>1, <1>2, <1>3, <1>4, <1>5, <1>6, <1>7, <1>8

\* The buffer goes back.
LEMMA FreeInv ==
  ASSUME IInv, NEW c \in Callers, Free(c)
  PROVE  IInv'
  <1> USE DEF IInv, Free, Goto, diskVars, globalVars, loadVars
  <1>1. TypeOK'
    BY DEF Label, TypeOK
  <1>2. MutexInv'
    BY DEF TypeOK, Critical, MutexInv
  <1>3. UnloadedInv'
    BY DEF TypeOK, Critical, UnloadedInv
  <1>4. PointersInv'
    BY DEF TypeOK, PointersInv
  <1>5. PublishedInv'
    BY DEF PublishedInv
  <1>6. PathsAgree'
    BY DEF TypeOK, PathsAgree
  <1>7. BuffersGoHome'
    BY DEF TypeOK, BuffersGoHome
  <1>8. ClientsIdle'
    BY DEF TypeOK, ClientsIdle
  <1>9. QED
    BY <1>1, <1>2, <1>3, <1>4, <1>5, <1>6, <1>7, <1>8

\* Whatever happens to the files, what was opened stays open.
LEMMA ReplaceInv ==
  ASSUME IInv, NEW p \in Paths, Replace(p)
  PROVE  IInv'
  <1> USE DEF IInv, Replace, globalVars, loadVars, useVars
  <1>1. TypeOK'
    <2>1. replacements' \in 0..MaxReplacements
      BY LibraryAssumption, LoaderAssumption DEF TypeOK
    <2>2. disk' \in [Paths -> Builds \cup {NoFile}]
      BY DEF TypeOK
    <2>3. QED
      BY <2>1, <2>2 DEF TypeOK
  <1>2. MutexInv' /\ UnloadedInv' /\ PublishedInv'
    BY DEF MutexInv, UnloadedInv, PublishedInv
  <1>3. PointersInv'
    BY DEF PointersInv
  <1>4. PathsAgree' /\ BuffersGoHome' /\ ClientsIdle'
    BY DEF PathsAgree, BuffersGoHome, ClientsIdle
  <1>5. QED
    BY <1>1, <1>2, <1>3, <1>4

\* No step, of any goroutine between any two steps of another, breaks it.
LEMMA NextInv == IInv /\ [Next]_vars => IInv'
  <1> SUFFICES ASSUME IInv, [Next]_vars PROVE IInv'
    OBVIOUS
  <1>1. ASSUME NEW c \in Callers,
               New(c) \/ Lock(c) \/ Load(c) \/ Close(c) \/ Call(c) \/ Free(c)
        PROVE  IInv'
    BY <1>1, NewInv, LockInv, CheckPathInv, AlreadyOpenInv, CannotOpenInv,
       OpenInv, ResolveInv, ResolvedInv, CheckVersionInv, UnlockInv,
       CloseInv, CallInv, FreeInv DEF Load
  <1>2. ASSUME NEW p \in Paths, Replace(p)
        PROVE  IInv'
    BY <1>2, ReplaceInv
  <1>3. CASE UNCHANGED vars \/ \E c \in Callers : NewRefuses(c)
    BY <1>3 DEF NewRefuses, IInv, vars, diskVars, globalVars, loadVars, useVars, TypeOK,
                MutexInv, UnloadedInv, PointersInv, PublishedInv, PathsAgree,
                BuffersGoHome, ClientsIdle
  <1>4. QED
    BY <1>1, <1>2, <1>3 DEF Next

\* The inductive invariant holds in every reachable state.
THEOREM Invariance == Spec => []IInv
  <1>1. QED
    BY InitInv, NextInv, PTL DEF Spec

\* Any number of goroutines may race through New for any paths: the clients
\* they get are all of one path.
THEOREM AllPathsAgree == Spec => []PathsAgree
  <1>1. IInv => PathsAgree
    BY DEF IInv
  <1>2. QED
    BY <1>1, Invariance, PTL

\* A response is always of the library the process opened, and is freed by it
\* or by nobody.
THEOREM AllBuffersGoHome == Spec => []BuffersGoHome
  <1>1. IInv => BuffersGoHome
    BY DEF IInv
  <1>2. QED
    BY <1>1, Invariance, PTL

\* No client speaks to a library of another ABI.
THEOREM NoForeignAbi == Spec => []ClientAbi
  <1>1. IInv => ClientAbi
    BY DEF IInv, PathsAgree, PublishedInv, ClientAbi
  <1>2. QED
    BY <1>1, Invariance, PTL

-----------------------------------------------------------------------------
(* What no step does, and the promise.                                     *)

\* Once the path is published nobody is between the path check and the
\* return, so the C globals are left alone.
LEMMA GlobalsSettled ==
  ASSUME IInv, [Next]_vars, loadedPath # NoPath
  PROVE  UNCHANGED << ptr, handle, loadedPath >>
  <1>1. \A c \in Callers : pc[c] \notin {"load", "resolve", "version"}
    BY DEF IInv, UnloadedInv
  <1>2. ASSUME NEW c \in Callers,
               New(c) \/ Lock(c) \/ Load(c) \/ Close(c) \/ Call(c) \/ Free(c)
        PROVE  UNCHANGED globalVars
    BY <1>1, <1>2 DEF New, Lock, Load, CheckPath, AlreadyOpen, CannotOpen,
                      Open, Resolve, Resolved, CheckVersion, Unlock, Close,
                      Call, Free, globalVars
  <1>3. ASSUME NEW p \in Paths, Replace(p)
        PROVE  UNCHANGED globalVars
    BY <1>3 DEF Replace
  <1>4. ASSUME UNCHANGED vars \/ \E c \in Callers : NewRefuses(c)
        PROVE  UNCHANGED globalVars
    BY <1>4 DEF NewRefuses, vars, globalVars
  <1>5. UNCHANGED globalVars
    <2>1. CASE \E c \in Callers : \/ New(c) \/ Lock(c) \/ Load(c)
                                   \/ Close(c) \/ Call(c) \/ Free(c)
      BY <1>2, <2>1
    <2>2. CASE \E p \in Paths : Replace(p)
      BY <1>3, <2>2
    <2>3. CASE UNCHANGED vars \/ \E c \in Callers : NewRefuses(c)
      BY <1>4, <2>3
    <2>4. QED
      BY <2>1, <2>2, <2>3, Zenon DEF Next
  <1>6. QED
    BY <1>5 DEF globalVars

\* The unlocked reads of the function pointers are safe: while anybody holds
\* a client, and for ever after the first, nobody writes them.
THEOREM PointersStay == Spec => PointersStable
  <1>1. IInv /\ [Next]_vars =>
          [(\E c \in Callers : client[c] # NoPath) \/ loadedPath # NoPath
              => UNCHANGED << ptr, handle, loadedPath >>]_vars
    <2> SUFFICES ASSUME IInv, [Next]_vars,
                        (\E c \in Callers : client[c] # NoPath)
                            \/ loadedPath # NoPath
                 PROVE  UNCHANGED << ptr, handle, loadedPath >>
      OBVIOUS
    <2>1. loadedPath # NoPath
      BY DEF IInv, PathsAgree
    <2>2. QED
      BY <2>1, GlobalsSettled
  <1>2. QED
    BY <1>1, Invariance, PTL DEF Spec, PointersStable

\* A step that touches none of path, library, clients and buffers is no step
\* of the promise.
LEMMA HiddenStep ==
  ASSUME UNCHANGED << loadedPath, client, buffer >>,
         loadedPath # NoPath => UNCHANGED handle
  PROVE  UNCHANGED Promise!bindingVars
  BY DEF Promise!bindingVars

\* Every step of the loader is a step of the promise, or hides from it.
LEMMA StepRefines ==
  ASSUME IInv, [Next]_vars
  PROVE  [Promise!BindingNext]_(Promise!bindingVars)
  <1>1. TypeOK /\ PathsAgree /\ BuffersGoHome /\ PublishedInv /\ UnloadedInv
        /\ ClientsIdle /\ PointersInv /\ MutexInv
    BY DEF IInv
  <1>2. loadedPath # NoPath => UNCHANGED << ptr, handle, loadedPath >>
    BY GlobalsSettled
  <1>3. ASSUME NEW c \in Callers, CheckVersion(c)
        PROVE  [Promise!BindingNext]_(Promise!bindingVars)
    <2>1. loadedPath = NoPath /\ path[c] \in Paths
      BY <1>1, <1>3 DEF UnloadedInv, CheckVersion, Critical
    <2>2. UNCHANGED << handle, client, buffer >>
      BY <1>3 DEF CheckVersion, useVars
    <2>3. CASE loadedPath' = NoPath
      BY <2>1, <2>2, <2>3, HiddenStep
    <2>4. CASE loadedPath' # NoPath
      <3>1. PublishedInv' /\ TypeOK'
        BY <1>3, CheckVersionInv DEF IInv
      <3>2. handle' \in Builds /\ Abi[handle'] = abiVersion
        BY <2>4, <3>1 DEF PublishedInv, TypeOK
      <3>3. loadedPath' \in Paths
        BY <2>4, <3>1 DEF TypeOK
      <3>4. Promise!Bind
        BY <2>1, <2>2, <2>4, <3>2, <3>3
        DEF Promise!Bind, Promise!abiVersion, abiVersion
      <3>5. QED
        BY <3>4 DEF Promise!BindingNext
    <2>5. QED
      BY <2>3, <2>4
  <1>4. ASSUME NEW c \in Callers, Unlock(c)
        PROVE  [Promise!BindingNext]_(Promise!bindingVars)
    <2>1. UNCHANGED << loadedPath, handle, buffer >> /\ client[c] = NoPath
          /\ client' = [client EXCEPT ![c] = IF ok[c] THEN path[c] ELSE NoPath]
      BY <1>1, <1>4 DEF Unlock, globalVars, ClientsIdle
    <2>2. CASE ~ok[c]
      <3>1. client' = client
        BY <1>1, <2>1, <2>2 DEF TypeOK
      <3>2. QED
        BY <2>1, <3>1, HiddenStep
    <2>3. CASE ok[c]
      <3>1. path[c] = loadedPath /\ loadedPath # NoPath
        BY <1>1, <1>4, <2>3 DEF PathsAgree, Unlock
      <3>2. Promise!Attach(c)
        BY <2>1, <2>3, <3>1 DEF Promise!Attach
      <3>3. QED
        BY <3>2 DEF Promise!BindingNext
    <2>4. QED
      BY <2>2, <2>3
  <1>5. ASSUME NEW c \in Callers, Close(c)
        PROVE  [Promise!BindingNext]_(Promise!bindingVars)
    <2>1. Promise!Detach(c)
      BY <1>5 DEF Close, globalVars, Promise!Detach
    <2>2. QED
      BY <2>1 DEF Promise!BindingNext
  <1>6. ASSUME NEW c \in Callers, Call(c)
        PROVE  [Promise!BindingNext]_(Promise!bindingVars)
    <2>1. BuffersGoHome'
      BY <1>6, CallInv DEF IInv
    <2>2. pc'[c] = "free" /\ UNCHANGED << loadedPath, handle, client >>
          /\ pc[c] = "idle" /\ client[c] # NoPath
      BY <1>1, <1>6 DEF Call, Goto, globalVars, TypeOK
    <2>3. buffer'[c] = handle /\ buffer[c] = Null /\ loadedPath # NoPath
      BY <1>1, <2>1, <2>2 DEF BuffersGoHome, PathsAgree
    <2>4. buffer' = [buffer EXCEPT ![c] = handle]
      BY <1>1, <1>6, <2>3 DEF Call, TypeOK
    <2>5. Promise!Answer(c)
      BY <2>2, <2>3, <2>4 DEF Promise!Answer
    <2>6. QED
      BY <2>5 DEF Promise!BindingNext
  <1>7. ASSUME NEW c \in Callers, Free(c)
        PROVE  [Promise!BindingNext]_(Promise!bindingVars)
    <2>1. Promise!Release(c)
      BY <1>1, <1>7 DEF Free, globalVars, BuffersGoHome, Promise!Release
    <2>2. QED
      BY <2>1 DEF Promise!BindingNext
  <1>8. ASSUME NEW c \in Callers,
               \/ New(c) \/ Lock(c) \/ CheckPath(c) \/ AlreadyOpen(c)
               \/ CannotOpen(c) \/ Open(c) \/ Resolve(c) \/ Resolved(c)
        PROVE  [Promise!BindingNext]_(Promise!bindingVars)
    <2>1. UNCHANGED << loadedPath, client, buffer >>
      BY <1>8 DEF New, Lock, CheckPath, AlreadyOpen, CannotOpen, Open,
                  Resolve, Resolved, globalVars, useVars
    <2>2. QED
      BY <1>2, <2>1, HiddenStep
  <1>9. ASSUME NEW p \in Paths, Replace(p)
        PROVE  [Promise!BindingNext]_(Promise!bindingVars)
    <2>1. UNCHANGED << loadedPath, client, buffer >>
      BY <1>9 DEF Replace, globalVars, useVars
    <2>2. QED
      BY <1>2, <2>1, HiddenStep
  <1>10. CASE UNCHANGED vars \/ \E c \in Callers : NewRefuses(c)
    <2>1. UNCHANGED << loadedPath, client, buffer >>
      BY <1>10 DEF NewRefuses, vars, globalVars, useVars
    <2>2. QED
      BY <1>2, <2>1, HiddenStep
  <1>11. QED
    BY <1>3, <1>4, <1>5, <1>6, <1>7, <1>8, <1>9, <1>10 DEF Next, Load

\* The loader implements LibraryBinding: one path, one ABI-checked library,
\* bound at most once, answering every call of every client.
THEOREM Refinement == Spec => ImplementsLibraryBinding
  <1>1. Init => Promise!BindingInit
    BY DEF Init, Promise!BindingInit
  <1>2. IInv /\ [Next]_vars
          => [Promise!BindingNext]_(Promise!bindingVars)
    BY StepRefines
  <1>3. QED
    BY <1>1, <1>2, Invariance, PTL
    DEF Spec, ImplementsLibraryBinding, Promise!BindingSpec

=============================================================================
