---------------------------- MODULE GuestRuntime ----------------------------
(***************************************************************************)
(* Package zkvm as a guest runs it: Commit, CommitValue, Verify and Halt,  *)
(* over the running journal hasher of sha256_proper.go.                    *)
(*                                                                         *)
(* The guest is one thread (TinyGo, -scheduler=none).  A commit is several *)
(* steps: it writes the bytes to the journal descriptor, then hashes them  *)
(* through the three loops of UpdateProperHasher, and pc says which one is *)
(* next.  The hasher's globals keep what they had: bufferData is one       *)
(* array, never cleared, also used as scratch for an unaligned block.      *)
(***************************************************************************)
EXTENDS GuestInterface

VARIABLES
    \* Seen by the host.
    fd3,         \* bytes written to FD_JOURNAL
    registered,  \* claims passed to sys_verify_integrity, oldest first
    halts,       \* the call of sys_halt, once made
    \* properHasher and the other globals.
    initialized, \* properHasherInitialized
    state,
    bufferData,
    bufferLen,
    totalLen,
    assumptions, \* assumptionsDigestWords, as its list of cons cells
    \* The UpdateProperHasher call in progress.
    pc,          \* "guest", "topup", "blocks", "tail", "halted"
    data,        \* the slice still to hash
    addr         \* the address of data[0], modulo WORD_SIZE

hostVars   == << fd3, registered, halts >>
hasherVars == << initialized, state, bufferData, bufferLen, totalLen,
                 assumptions >>
callVars   == << pc, data, addr >>
vars       == << hostVars, hasherVars, callVars >>

\* Package variables start as zeros: no SHA-256 start value yet.
Init ==
    /\ fd3 = << >> /\ registered = << >> /\ halts = << >>
    /\ initialized = FALSE
    /\ state = zeroState
    /\ bufferData = Zeros(SHA256_BLOCK_SIZE)
    /\ bufferLen = 0
    /\ totalLen = 0
    /\ assumptions = << >>
    /\ pc = "guest" /\ data = << >> /\ addr = 0

\* What each global holds after the "if !properHasherInitialized" that
\* opens Update, Finalize and Verify: InitProperHasher's value, or its own.
\* (_Always is a mutant: it forgets the guard.)
InitProperHasher_Always(value, current) == value

InitProperHasher(value, current) == IF initialized THEN current ELSE value

\* copy(bufferData[at:], bytes)  (mutant: always from the start)
CopyInto_AtStart(at, bytes) ==
    [i \in 1..SHA256_BLOCK_SIZE |->
        IF i <= Len(bytes) THEN bytes[i] ELSE bufferData[i]]

CopyInto(at, bytes) ==
    [i \in 1..SHA256_BLOCK_SIZE |->
        IF i \in (at + 1)..(at + Len(bytes))
        THEN bytes[i - at] ELSE bufferData[i]]

Buffered == SubSeq(bufferData, 1, bufferLen)

-----------------------------------------------------------------------------
(* Commit and CommitValue.                                                 *)

\* The sys_write, then the head of UpdateProperHasher: the lazy
\* initialization and the running length.
WriteJournal(n) ==
    /\ pc = "guest"
    /\ CanCommit(fd3, n)
    /\ fd3' = fd3 \o NextBytes(fd3, n)
    /\ initialized' = TRUE
    /\ state' = InitProperHasher(sha256InitStateBE, state)
    /\ bufferLen' = InitProperHasher(0, bufferLen)
    /\ totalLen' = InitProperHasher(0, totalLen) + n
    /\ assumptions' = InitProperHasher(<< >>, assumptions)
    /\ data' = NextBytes(fd3, n)
    /\ addr' \in 0..(WORD_SIZE - 1)
    /\ pc' = "topup"
    /\ UNCHANGED << registered, halts, bufferData >>

\* Commit returns early on an empty slice.
Commit == \E n \in CommitLens : n > 0 /\ WriteJournal(n)

\* CommitValue does not: a zero-size T still starts the hasher.
CommitValue == \E n \in CommitLens : WriteJournal(n)

-----------------------------------------------------------------------------
(* UpdateProperHasher.                                                     *)

\* 1) Nothing buffered.
SkipTopUp ==
    /\ pc = "topup" /\ bufferLen = 0
    /\ pc' = "blocks"
    /\ UNCHANGED << hostVars, hasherVars, data, addr >>

IsFull(len) == len = SHA256_BLOCK_SIZE

\* The buffer's length once it was topped up.  (mutant: not reset)
AfterTopUp_NoReset(len) == len

AfterTopUp(len) == IF IsFull(len) THEN 0 ELSE len

\* 1) Top up the buffer; a full block is compressed and leaves it empty.
TopUp ==
    LET room == SHA256_BLOCK_SIZE - bufferLen
        need == IF room > Len(data) THEN Len(data) ELSE room
        full == IsFull(bufferLen + need)
        topped == CopyInto(bufferLen, SubSeq(data, 1, need))
    IN  /\ pc = "topup" /\ bufferLen > 0
        /\ bufferData' = topped
        /\ bufferLen' = AfterTopUp(bufferLen + need)
        /\ state' = IF full THEN Compress(state, topped) ELSE state
        /\ data' = SubSeq(data, need + 1, Len(data))
        /\ addr' = (addr + need) % WORD_SIZE
        /\ pc' = "blocks"
        /\ UNCHANGED << hostVars, initialized, totalLen, assumptions >>

\* (mutant of 2: data does not advance)
ProcessBlock_NoAdvance ==
    /\ pc = "blocks" /\ Len(data) >= SHA256_BLOCK_SIZE
    /\ UNCHANGED vars

\* 2) One full block straight from data, through bufferData if unaligned.
ProcessBlock ==
    LET block == SubSeq(data, 1, SHA256_BLOCK_SIZE)
    IN  /\ pc = "blocks" /\ Len(data) >= SHA256_BLOCK_SIZE
        /\ bufferData' = IF addr # 0 THEN CopyInto(0, block) ELSE bufferData
        /\ state' = Compress(state, IF addr # 0 THEN bufferData' ELSE block)
        /\ data' = SubSeq(data, SHA256_BLOCK_SIZE + 1, Len(data))
        /\ UNCHANGED << hostVars, initialized, bufferLen, totalLen,
                        assumptions, pc, addr >>

\* (mutant: one block at most)
BlocksDone_Once ==
    /\ pc = "blocks"
    /\ pc' = "tail"
    /\ UNCHANGED << hostVars, hasherVars, data, addr >>

BlocksDone ==
    /\ pc = "blocks" /\ Len(data) < SHA256_BLOCK_SIZE
    /\ pc' = "tail"
    /\ UNCHANGED << hostVars, hasherVars, data, addr >>

\* 3) Buffer the tail, if any, and return to the guest.
BufferTail ==
    /\ pc = "tail"
    /\ bufferData' = CopyInto(0, data)
    /\ bufferLen' = IF Len(data) > 0 THEN Len(data) ELSE bufferLen
    /\ data' = << >> /\ addr' = 0 /\ pc' = "guest"
    /\ UNCHANGED << hostVars, initialized, state, totalLen, assumptions >>

Update == SkipTopUp \/ TopUp \/ ProcessBlock \/ BlocksDone \/ BufferTail

-----------------------------------------------------------------------------
(* Verify and Halt.                                                        *)

\* (mutant: leaves the lazy initialization to the first commit)
Verify_NoInit ==
    /\ pc = "guest"
    /\ Len(registered) < MaxVerifies
    /\ \E claim \in Claims :
        /\ registered' = Append(registered, claim)
        /\ assumptions' = << claim >> \o assumptions
    /\ UNCHANGED << fd3, halts, initialized, state, bufferData, bufferLen,
                    totalLen, callVars >>

\* The syscall registers the claim; taggedListCons puts it at the head.
Verify ==
    /\ pc = "guest"
    /\ Len(registered) < MaxVerifies
    /\ initialized' = TRUE
    /\ state' = InitProperHasher(sha256InitStateBE, state)
    /\ bufferLen' = InitProperHasher(0, bufferLen)
    /\ totalLen' = InitProperHasher(0, totalLen)
    /\ \E claim \in Claims :
        /\ registered' = Append(registered, claim)
        /\ assumptions' =
               << claim >> \o InitProperHasher(<< >>, assumptions)
    /\ UNCHANGED << fd3, halts, bufferData, callVars >>

\* FinalizeProperHasher on a copy of the state, then sys_halt.
Halt ==
    LET finalState == InitProperHasher(sha256InitStateBE, state)
        remaining == SubSeq(bufferData, 1, InitProperHasher(0, bufferLen))
        padded == padBuf(remaining, InitProperHasher(0, totalLen))
    IN  /\ pc = "guest"
        /\ initialized' = TRUE
        /\ state' = finalState
        /\ bufferLen' = InitProperHasher(0, bufferLen)
        /\ totalLen' = InitProperHasher(0, totalLen)
        /\ assumptions' = InitProperHasher(<< >>, assumptions)
        /\ \E exitCode \in ExitCodes :
            halts' = << Output(exitCode, Compress(finalState, padded),
                               assumptions') >>
        /\ pc' = "halted"
        /\ UNCHANGED << fd3, registered, bufferData, data, addr >>

\* sys_halt does not return.
Halted == pc = "halted" /\ UNCHANGED vars

Next == Commit \/ CommitValue \/ Update \/ Verify \/ Halt \/ Halted

\* The calls of the runtime run to their end; nobody makes the guest call.
Spec == Init /\ [][Next]_vars /\ WF_vars(Update)

-----------------------------------------------------------------------------
(* Properties.                                                             *)

TypeOK ==
    /\ fd3 \in Seq(Byte)
    /\ registered \in Seq(Claims)
    /\ halts \in Seq([exit : ExitCodes, journal : HashState,
                      assumptions : Seq(Claims)])
    /\ initialized \in BOOLEAN
    /\ state \in HashState
    /\ bufferData \in [1..SHA256_BLOCK_SIZE -> Byte]
    /\ bufferLen \in 0..(SHA256_BLOCK_SIZE - 1)
    /\ totalLen \in Nat
    /\ assumptions \in Seq(Claims)
    /\ pc \in {"guest", "topup", "blocks", "tail", "halted"}
    /\ data \in Seq(Byte)
    /\ addr \in 0..(WORD_SIZE - 1)

\* Whatever was committed, in whatever pieces and at whatever alignment, is
\* at every step of UpdateProperHasher split in order, with nothing lost,
\* repeated or stale, into the bytes compressed, the bytes buffered and the
\* bytes still in hand; the running length is that of the journal.
StreamInv ==
    /\ fd3 = state.data \o Buffered \o data
    /\ totalLen = Len(fd3)

\* The step discipline of UpdateProperHasher that makes the split legal:
\* only whole blocks are compressed, started from the SHA-256 value; a tail
\* is buffered only over an empty buffer, and always fits it.
BlockInv ==
    /\ Len(state.data) % SHA256_BLOCK_SIZE = 0
    /\ initialized => state.iv = "sha256InitStateBE"
    /\ pc \in {"blocks", "tail"} /\ data # << >> => bufferLen = 0
    /\ pc = "tail" => Len(data) < SHA256_BLOCK_SIZE
    /\ pc \in {"guest", "halted"} => data = << >>

\* Until some call initializes it, the hasher holds nothing that the
\* initialization could lose.
Untouched ==
    ~initialized =>
        /\ state = zeroState /\ bufferLen = 0 /\ totalLen = 0
        /\ assumptions = << >> /\ registered = << >> /\ fd3 = << >>
        /\ pc = "guest"

\* sys_halt is the last thing a guest does.
HaltInv == halts # << >> <=> pc = "halted"

\* The lazy initialization, reached from Commit, Verify or Halt in any order,
\* wipes no claim: the tagged list is at all times every claim the host was
\* told of, newest at the head.
AssumptionsMirror == assumptions = Reverse(registered)

\* The inductive invariant behind the properties of this module.
IInv == TypeOK /\ BlockInv /\ Untouched /\ HaltInv /\ StreamInv
            /\ AssumptionsMirror

\* What Halt binds into the receipt is the SHA-256, as the standard defines
\* it, of exactly the bytes on the journal descriptor.
JournalDigestIsSha256 ==
    \A i \in DOMAIN halts : halts[i].journal = FipsSha256(fd3)

\* The running hash implements the one-shot promise: every step is a step of
\* GuestOutput or changes nothing the host sees.
Promise == INSTANCE GuestOutput
               WITH journal <- fd3, verified <- registered, output <- halts

ImplementsGuestOutput == Promise!AbstractSpec

\* A commit comes back to the guest: the block loop of UpdateProperHasher
\* ends whatever the length and the alignment of its slice.
UpdateReturns == pc \in {"topup", "blocks", "tail"} ~> pc = "guest"

=============================================================================
