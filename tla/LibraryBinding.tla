--------------------------- MODULE LibraryBinding ---------------------------
(***************************************************************************)
(* What package host promises about its shared library, with no mutex, no  *)
(* dlopen and no function pointers: a process is bound to one library at   *)
(* most once and for good, the library speaks the package's ABI, every     *)
(* client carries the path it is bound to, and every call of every client  *)
(* is answered by that one library.                                        *)
(***************************************************************************)
EXTENDS LibraryInterface

VARIABLES
    boundPath,  \* NoPath until the process is bound
    boundBuild, \* Null until the process is bound
    client,     \* the path of the client a goroutine holds, or NoPath
    buffer      \* the library whose response a goroutine holds, or Null

bindingVars == << boundPath, boundBuild, client, buffer >>

BindingInit ==
    /\ boundPath = NoPath /\ boundBuild = Null
    /\ client = [c \in Callers |-> NoPath]
    /\ buffer = [c \in Callers |-> Null]

Bind ==
    /\ boundPath = NoPath
    /\ boundPath' \in Paths
    /\ boundBuild' \in { b \in Builds : Abi[b] = abiVersion }
    /\ UNCHANGED << client, buffer >>

Attach(c) ==
    /\ boundPath # NoPath /\ client[c] = NoPath
    /\ client' = [client EXCEPT ![c] = boundPath]
    /\ UNCHANGED << boundPath, boundBuild, buffer >>

Detach(c) ==
    /\ client[c] # NoPath
    /\ client' = [client EXCEPT ![c] = NoPath]
    /\ UNCHANGED << boundPath, boundBuild, buffer >>

Answer(c) ==
    /\ client[c] # NoPath /\ buffer[c] = Null
    /\ buffer' = [buffer EXCEPT ![c] = boundBuild]
    /\ UNCHANGED << boundPath, boundBuild, client >>

Release(c) ==
    /\ buffer[c] # Null
    /\ buffer' = [buffer EXCEPT ![c] = Null]
    /\ UNCHANGED << boundPath, boundBuild, client >>

BindingNext ==
    \/ Bind
    \/ \E c \in Callers : Attach(c) \/ Detach(c) \/ Answer(c) \/ Release(c)

BindingSpec == BindingInit /\ [][BindingNext]_bindingVars

=============================================================================
