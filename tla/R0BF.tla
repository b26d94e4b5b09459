-------------------------------- MODULE R0BF --------------------------------
(***************************************************************************)
(* convert_to_r0bf.go packs a user ELF and a kernel ELF into one file,     *)
(* extract_r0bf.go takes such a file apart.                                *)
(*                                                                         *)
(* The tools are run one after the other over the files of a directory,    *)
(* and any path may be an input, an output or both.  A step is one access  *)
(* to a file; a tool may be killed between two of them, and a write may    *)
(* stop after any byte.  A file is its bytes; a Go int is 64 bits and      *)
(* holds every offset.                                                     *)
(***************************************************************************)
EXTENDS Words

CONSTANTS
    Paths,
    UserOut,       \* "extracted_user.elf"
    KernelOut,     \* "extracted_kernel.elf"
    None,          \* no file, or a file that is no container
    Headers,       \* the header contents that other tools write
    InitialDisk,   \* the file at each path
    InitialPacked, \* for containers of other tools: what they hold
    Cuts,          \* after how many bytes a write may stop short
    MaxCommands    \* bound on the commands run

\* What a container was made of; whole once it was written to its end.
Contents == [user : Seq(Nat), kernel : Seq(Nat), whole : BOOLEAN]

elfMagic == << 127, 69, 76, 70 >>

r0bfMagic == << 82, 48, 66, 70 >>

\* One key and value: the ABI version "1.0.0".
abiHeader ==
    PutLE(1) \o PutLE(8) \o << 0, 0, 5, 49, 46, 48, 46, 48 >>

\* What is before the user ELF, its length last.
Preamble(header, user) ==
    r0bfMagic \o PutLE(1) \o PutLE(Len(header)) \o header \o PutLE(Len(user))

Container(header, user, kernel) == Preamble(header, user) \o user \o kernel

ASSUME R0BFAssumption ==
    /\ UserOut \in Paths /\ KernelOut \in Paths /\ UserOut # KernelOut
    /\ None \notin Seq(Nat) /\ None \notin Contents
    /\ \A h \in Headers : h \in Seq(Nat) /\ Len(h) < WordMod
    /\ InitialDisk \in [Paths -> Seq(Nat) \cup {None}]
    /\ InitialPacked \in [Paths -> Contents \cup {None}]
    /\ \A p \in Paths : InitialPacked[p] # None =>
           \E h \in Headers :
               InitialDisk[p] = Container(h, InitialPacked[p].user,
                                          InitialPacked[p].kernel)
    /\ Cuts \subseteq Nat
    /\ MaxCommands \in Nat

VARIABLES
    disk,
    commands, \* how many were run
    tool,    \* the command run last: "none", "convert", "extract"
    step,    \* its next access to a file, or "exited"
    ok,      \* did it exit with 0?
    args,    \* the paths on its command line
    user, kernel, \* userElf(Data) and kernelElf(Data)
    \* History.
    packed,  \* what each container was made of
    given    \* the contents the command had to deal with when it started

locals == << args, user, kernel >>
vars == << disk, commands, tool, step, ok, locals, packed, given >>

Init ==
    /\ disk = InitialDisk
    /\ commands = 0
    /\ tool = "none" /\ step = "exited" /\ ok = FALSE
    /\ args = << >> /\ user = << >> /\ kernel = << >>
    /\ packed = InitialPacked
    /\ given = None

Prefixes(bytes) == { SubSeq(bytes, 1, n) : n \in 0..Len(bytes) }

\* What a write of bytes that stops short leaves.
Torn(bytes) == { SubSeq(bytes, 1, n) : n \in Cuts \cap (0..Len(bytes)) }

Start(command, label) ==
    /\ step = "exited"
    /\ commands < MaxCommands
    /\ commands' = commands + 1
    /\ tool' = command /\ step' = label /\ ok' = FALSE

Exit(success) == step' = "exited" /\ ok' = success

\* os.Exit(1), a panic, or a signal.
Fail == /\ Exit(FALSE)
        /\ UNCHANGED << disk, commands, tool, locals, packed, given >>

\* Anything may kill the tool between two of its steps.
Killed == step # "exited" /\ Fail

-----------------------------------------------------------------------------
(* convert_to_r0bf <user.elf> <kernel.elf> <output.bin>                    *)

IsElf(file) ==
    file # None /\ Len(file) >= 4 /\ SubSeq(file, 1, 4) = elfMagic

\* What a path holds, if anything.
Elf(path) == IF disk[path] = None THEN << >> ELSE disk[path]

StartConvert ==
    /\ Start("convert", "read user")
    /\ \E u, k, output \in Paths :
        /\ args' = << u, k, output >>
        /\ given' = [user |-> Elf(u), kernel |-> Elf(k), whole |-> TRUE]
    /\ UNCHANGED << disk, user, kernel, packed >>

\* (mutant: the output is made before the kernel is read)
ReadUser_Creates ==
    /\ step = "read user"
    /\ IsElf(disk[args[1]])
    /\ user' = disk[args[1]]
    /\ disk' = [disk EXCEPT ![args[3]] = << >>]
    /\ packed' = [packed EXCEPT ![args[3]] = None]
    /\ step' = "read kernel"
    /\ UNCHANGED << commands, tool, ok, args, kernel, given >>

ReadUser ==
    /\ step = "read user"
    /\ IsElf(disk[args[1]])
    /\ user' = disk[args[1]]
    /\ step' = "read kernel"
    /\ UNCHANGED << disk, commands, tool, ok, args, kernel, packed,
                    given >>

ReadKernel ==
    /\ step = "read kernel"
    /\ IsElf(disk[args[2]])
    /\ kernel' = disk[args[2]]
    /\ step' = "create"
    /\ UNCHANGED << disk, commands, tool, ok, args, user, packed,
                    given >>

NotAnElf ==
    /\ \/ step = "read user" /\ ~IsElf(disk[args[1]])
       \/ step = "read kernel" /\ ~IsElf(disk[args[2]])
    /\ Fail

\* os.Create truncates what was there.  (mutant: opened to append)
Create_Appends ==
    /\ step = "create"
    /\ disk' = [disk EXCEPT ![args[3]] = Elf(args[3])]
    /\ packed' = [packed EXCEPT ![args[3]] =
                      [user |-> user, kernel |-> kernel, whole |-> FALSE]]
    /\ step' = "write header"
    /\ UNCHANGED << commands, tool, ok, locals, given >>

Create ==
    /\ step = "create"
    /\ disk' = [disk EXCEPT ![args[3]] = << >>]
    /\ packed' = [packed EXCEPT ![args[3]] =
                      [user |-> user, kernel |-> kernel, whole |-> FALSE]]
    /\ step' = "write header"
    /\ UNCHANGED << commands, tool, ok, locals, given >>

WriteHeader ==
    /\ step = "write header"
    /\ disk' = [disk EXCEPT ![args[3]] = @ \o Preamble(abiHeader, user)]
    /\ step' = "write user"
    /\ UNCHANGED << commands, tool, ok, locals, packed, given >>

WriteUser ==
    /\ step = "write user"
    /\ disk' = [disk EXCEPT ![args[3]] = @ \o user]
    /\ step' = "write kernel"
    /\ UNCHANGED << commands, tool, ok, locals, packed, given >>

WriteKernel ==
    /\ step = "write kernel"
    /\ disk' = [disk EXCEPT ![args[3]] = @ \o kernel]
    /\ packed' = [packed EXCEPT ![args[3]].whole = TRUE]
    /\ Exit(TRUE)
    /\ UNCHANGED << commands, tool, locals, given >>

\* A write that fails, or a signal during it, leaves a part of its bytes.
TornWrite ==
    LET bytes == CASE step = "write header" -> Preamble(abiHeader, user)
                   [] step = "write user"   -> user
                   [] OTHER                 -> kernel
    IN  /\ step \in {"write header", "write user", "write kernel"}
        /\ \E part \in Torn(bytes) :
               disk' = [disk EXCEPT ![args[3]] = @ \o part]
        /\ Exit(FALSE)
        /\ UNCHANGED << commands, tool, locals, packed, given >>

-----------------------------------------------------------------------------
(* extract_r0bf <input.bin>                                                *)

\* The array behind os.ReadFile's slice goes on with zeros, and a slice
\* expression may reach into them.
Backing(data, i) == IF i <= Len(data) THEN data[i] ELSE 0

Uint32(data, offset) ==
    GetLE([i \in 1..WORD_SIZE |-> Backing(data, offset + i)])

\* Where the user ELF starts, from headerLen.
UserStart(data) == 12 + Uint32(data, 8) + WORD_SIZE

\* Where it ends, from userLen.
UserEnd(data) ==
    UserStart(data) + Uint32(data, UserStart(data) - WORD_SIZE)

\* (mutant: what is there will do)
CanExtract_Lenient(data) ==
    data # None /\ [i \in 1..4 |-> Backing(data, i)] = r0bfMagic

\* Not an R0BF file: exit 1.  data[offset:] panics past the length; a slice
\* before it that panics, past the capacity, ends further still.
CanExtract(data) ==
    /\ data # None
    /\ [i \in 1..4 |-> Backing(data, i)] = r0bfMagic
    /\ UserEnd(data) <= Len(data)

UserElf(data) ==
    [i \in 1..(UserEnd(data) - UserStart(data)) |->
        Backing(data, UserStart(data) + i)]

\* The rest.  (mutant: from the last byte of the user ELF)
KernelElf_Early(data) == SubSeq(data, UserEnd(data), Len(data))

KernelElf(data) == SubSeq(data, UserEnd(data) + 1, Len(data))

StartExtract ==
    /\ Start("extract", "read container")
    /\ \E input \in Paths :
        /\ args' = << input >>
        /\ given' = packed[input]
    /\ UNCHANGED << disk, user, kernel, packed >>

ReadContainer ==
    LET data == disk[args[1]]
    IN  /\ step = "read container"
        /\ CanExtract(data)
        /\ user' = UserElf(data)
        /\ kernel' = KernelElf(data)
        /\ step' = "save user"
        /\ UNCHANGED << disk, commands, tool, ok, args, packed, given >>

NotAContainer ==
    /\ step = "read container"
    /\ ~CanExtract(disk[args[1]])
    /\ Fail

\* os.WriteFile truncates the file and writes all of it.
SaveUser ==
    /\ step = "save user"
    /\ disk' = [disk EXCEPT ![UserOut] = user]
    /\ packed' = [packed EXCEPT ![UserOut] = None]
    /\ step' = "save kernel"
    /\ UNCHANGED << commands, tool, ok, locals, given >>

SaveKernel ==
    /\ step = "save kernel"
    /\ disk' = [disk EXCEPT ![KernelOut] = kernel]
    /\ packed' = [packed EXCEPT ![KernelOut] = None]
    /\ Exit(TRUE)
    /\ UNCHANGED << commands, tool, locals, given >>

\* Or it fails half way.
TornSave ==
    LET path  == IF step = "save user" THEN UserOut ELSE KernelOut
        bytes == IF step = "save user" THEN user ELSE kernel
    IN  /\ step \in {"save user", "save kernel"}
        /\ \E part \in Torn(bytes) :
               disk' = [disk EXCEPT ![path] = part]
        /\ packed' = [packed EXCEPT ![path] = None]
        /\ Exit(FALSE)
        /\ UNCHANGED << commands, tool, locals, given >>

Next ==
    \/ StartConvert \/ ReadUser \/ ReadKernel \/ NotAnElf \/ Create
    \/ WriteHeader \/ WriteUser \/ WriteKernel \/ TornWrite
    \/ StartExtract \/ ReadContainer \/ NotAContainer
    \/ SaveUser \/ SaveKernel \/ TornSave
    \/ Killed

Spec == Init /\ [][Next]_vars

-----------------------------------------------------------------------------
(* Properties.                                                             *)

Step == {"read user", "read kernel", "create", "write header", "write user",
         "write kernel", "read container", "save user", "save kernel",
         "exited"}

Reading == {"read user", "read kernel"}

Writing == {"write header", "write user", "write kernel"}

Converting == Reading \cup {"create"} \cup Writing

Saving == {"save user", "save kernel"}

TypeOK ==
    /\ disk \in [Paths -> Seq(Nat) \cup {None}]
    /\ commands \in Nat
    /\ tool \in {"none", "convert", "extract"}
    /\ step \in Step
    /\ ok \in BOOLEAN
    /\ args \in Seq(Paths)
    /\ user \in Seq(Nat) /\ kernel \in Seq(Nat)
    /\ packed \in [Paths -> Contents \cup {None}]
    /\ given \in Contents \cup {None}
    /\ step \in Converting => tool = "convert" /\ Len(args) = 3
    /\ step \in Saving \cup {"read container"} =>
           tool = "extract" /\ Len(args) = 1
    /\ ok => step = "exited"
    /\ tool = "convert" => Len(args) = 3 /\ given # None

\* A file packed from two ELFs is a prefix of their container, and all of it
\* once it was written to its end.
HoldsPacked(path) ==
    packed[path] # None =>
        \E h \in Headers \cup {abiHeader} :
            LET whole == Container(h, packed[path].user, packed[path].kernel)
            IN  /\ disk[path] \in Prefixes(whole)
                /\ packed[path].whole => disk[path] = whole

\* A container that is not written to its end.
Begun(contents) ==
    [user |-> contents.user, kernel |-> contents.kernel, whole |-> FALSE]

\* What the packer read is what it was given, whichever of its paths are the
\* same file, and what it has written is the container up to this step.
ConvertInv ==
    /\ step \in Converting => given.whole
    /\ step = "read user" => given.user = Elf(args[1])
    /\ step \in Reading => given.kernel = Elf(args[2])
    /\ step \in Converting \ {"read user"} =>
           user = given.user /\ IsElf(user)
    /\ step \in Converting \ Reading => kernel = given.kernel /\ IsElf(kernel)
    /\ step \in Writing =>
           /\ packed[args[3]] = Begun(given)
           /\ disk[args[3]] =
                  CASE step = "write header" -> << >>
                    [] step = "write user"   -> Preamble(abiHeader, user)
                    [] OTHER -> Preamble(abiHeader, user) \o user

\* What the extractor took out of a container is what was packed.
Taken ==
    given # None /\ Len(given.user) < WordMod =>
        /\ user = given.user
        /\ kernel \in Prefixes(given.kernel)
        /\ given.whole => kernel = given.kernel

ExtractInv ==
    /\ step = "read container" => given = packed[args[1]]
    /\ step \in Saving \/ (tool = "extract" /\ ok) => Taken
    /\ step = "save kernel" \/ (tool = "extract" /\ ok) =>
           disk[UserOut] = user
    /\ tool = "extract" /\ ok => disk[KernelOut] = kernel

\* A packer that exits with 0 leaves the container of the two ELFs it was
\* given, whatever its output path held, and even if it is an input.
PackedFaithfully ==
    tool = "convert" /\ ok =>
        disk[args[3]] = Container(abiHeader, given.user, given.kernel)

\* The inductive invariant behind the properties of this module.
IInv == TypeOK /\ (\A p \in Paths : HoldsPacked(p)) /\ ConvertInv
            /\ ExtractInv /\ PackedFaithfully

\* The extractor is the inverse of the packer: if it exits with 0, the two
\* extracted files are what was packed, by whichever tool and with whichever
\* header.  A torn container either fails to extract or loses only an end of
\* the kernel, whose length the format does not record.
RoundTrip ==
    ( /\ tool = "extract" /\ ok
      /\ given # None
      /\ Len(given.user) < WordMod ) \* its length is written as a uint32
    => /\ disk[UserOut] = given.user
       /\ disk[KernelOut] \in Prefixes(given.kernel)
       /\ given.whole => disk[KernelOut] = given.kernel

\* The packer overwrites nothing until it holds two ELF files.
OnlyElfsOverwrite ==
    [][tool = "convert" /\ disk' # disk =>
           IsElf(given.user) /\ IsElf(given.kernel)]_vars

=============================================================================
