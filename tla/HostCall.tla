------------------------------ MODULE HostCall ------------------------------
(***************************************************************************)
(* host/ffi_cgo.go and host-ffi/src/lib.rs: a call of Execute, Prove,      *)
(* Verify or ComputeImageID, from the Go request to the Go result.         *)
(*                                                                         *)
(* callJSON marshals the request, calls the library, copies the response   *)
(* out of the library's heap, frees it, and decodes the copy.  Goroutines  *)
(* do this at the same time over one heap, whose allocator hands out again *)
(* what was freed.  Requests are borrowed for the length of one call and   *)
(* live in Go memory, so they are not on the heap.                         *)
(***************************************************************************)
EXTENDS HostCore, Integers

CONSTANTS
    Addresses,  \* of the library's heap
    Free,       \* no allocation at an address
    Linked,     \* the function pointers that are not NULL
    JsonLen,    \* the length of a response
    IntMod      \* the number of values of a C int

Operation == {"compute_image_id", "execute", "prove", "verify"}

ASSUME CallAssumption ==
    /\ Nothing \notin Addresses
    /\ Free \notin Body /\ Nothing \notin Body
    /\ Linked \subseteq Operation \cup {"free_buffer"}
    /\ JsonLen \in [Body -> Nat \ {0}]
    /\ IntMod \in Nat \ {0} /\ (IntMod % 2) = 0

Copied == [body : Body, len : Int]

ASSUME CopiedAssumption == Nothing \notin Copied

VARIABLES
    heap,      \* the response at each address, or Free
    pc,
    req,       \* the request of the last call
    status,    \* what the library returned
    ptr,       \* outPtr: an address, or Nothing for NULL
    copied,    \* respBytes, or Nothing for an empty slice
    result,    \* of the last call, or Nothing
    receipts,  \* the receipts the application holds
    \* History.
    made,      \* the claims of the sound receipts provers made
    vouched    \* the receipts that Prove returned after self-verification

callVars == << req, status, ptr, copied, result >>
vars == << heap, pc, callVars, receipts, made, vouched >>

Init ==
    /\ heap = [a \in Addresses |-> Free]
    /\ pc = [c \in Callers |-> "idle"]
    /\ req = [c \in Callers |-> Nothing]
    /\ status = [c \in Callers |-> 0]
    /\ ptr = [c \in Callers |-> Nothing]
    /\ copied = [c \in Callers |-> Nothing]
    /\ result = [c \in Callers |-> Nothing]
    /\ receipts = Foreign
    /\ made = {} /\ vouched = {}

Goto(c, label) == pc' = [pc EXCEPT ![c] = label]

\* The call ends with res, and its locals with it.
Return(c, res) ==
    /\ result' = [result EXCEPT ![c] = res]
    /\ status' = [status EXCEPT ![c] = 0]
    /\ ptr' = [ptr EXCEPT ![c] = Nothing]
    /\ copied' = [copied EXCEPT ![c] = Nothing]
    /\ Goto(c, "idle")

-----------------------------------------------------------------------------
(* The JSON request.  A nil journal travels as a flag and an empty string. *)

\* Mutant: an empty journal is taken for none.
marshal_NonEmpty(r) ==
    IF r.op # "verify" THEN r
    ELSE [op |-> "verify", receipt |-> r.receipt, image_id |-> r.image_id,
          expected_journal_present |->
              r.expected_journal \notin {Nothing, EmptyJournal},
          expected_journal_base64 |->
              IF r.expected_journal # Nothing
              THEN r.expected_journal ELSE EmptyJournal]

marshal(r) ==
    IF r.op # "verify" THEN r
    ELSE [op |-> "verify", receipt |-> r.receipt, image_id |-> r.image_id,
          expected_journal_present |-> r.expected_journal # Nothing,
          expected_journal_base64 |->
              IF r.expected_journal # Nothing
              THEN r.expected_journal ELSE EmptyJournal]

unmarshal(json) ==
    IF json.op # "verify" THEN json
    ELSE [op |-> "verify", receipt |-> json.receipt,
          image_id |-> json.image_id,
          expected_journal |->
              IF json.expected_journal_present
              THEN json.expected_journal_base64 ELSE Nothing]

(* C.int(n): the low bits, as a signed number. *)
CInt(n) ==
    LET low == n % IntMod
    IN IF low < IntMod \div 2 THEN low ELSE low - IntMod

\* What json.Unmarshal sees: a whole response, or one cut short.
Whole(copy) == copy # Nothing /\ copy.len = JsonLen[copy.body]

\* decodeFFIError.
decodeFFIError(copy) ==
    IF Whole(copy) THEN HostError(copy.body.code)
    ELSE HostError("internal_error")

\* Mutant: only status 1 is an error, a caught panic is not.
Decoded_OnlyOne(st, copy) ==
    IF st = 1 THEN decodeFFIError(copy)
    ELSE IF Whole(copy) THEN GoValue(copy.body.value)
    ELSE GoError

\* The end of callJSON.
Decoded(st, copy) ==
    IF st # 0 THEN decodeFFIError(copy)
    ELSE IF Whole(copy) THEN GoValue(copy.body.value)
    ELSE GoError

-----------------------------------------------------------------------------
(* One call, in its steps. *)

\* The method is called; a receipt kind Prove cannot ask for ends it here.
Refuse(c) ==
    /\ pc[c] = "idle"
    /\ \E r \in RequestsOver(receipts) :
        /\ ~ Sendable(r)
        /\ req' = [req EXCEPT ![c] = r]
    /\ Return(c, GoError)
    /\ UNCHANGED << heap, receipts, made, vouched >>

Call(c) ==
    /\ pc[c] = "idle"
    /\ \E r \in RequestsOver(receipts) :
        /\ Sendable(r)
        /\ req' = [req EXCEPT ![c] = r]
    /\ result' = [result EXCEPT ![c] = Nothing]
    /\ Goto(c, "invoke")
    /\ UNCHANGED << heap, status, ptr, copied, receipts, made, vouched >>

\* The C shim finds a NULL pointer: -1, and the out-parameters untouched.
Unlinked(c) ==
    /\ pc[c] = "invoke"
    /\ req[c].op \notin Linked
    /\ status' = [status EXCEPT ![c] = -1]
    /\ Goto(c, "decode")
    /\ UNCHANGED << heap, req, ptr, copied, result, receipts, made, vouched >>

\* The library replies: a boxed body, its pointer in outPtr.
Invoke(c) ==
    /\ pc[c] = "invoke"
    /\ req[c].op \in Linked
    /\ \E reply \in invoke(unmarshal(marshal(req[c]))), a \in Addresses :
        /\ heap[a] = Free
        /\ heap' = [heap EXCEPT ![a] = reply.body]
        /\ ptr' = [ptr EXCEPT ![c] = a]
        /\ status' = [status EXCEPT ![c] = reply.status]
        /\ made' = made \cup
               { ClaimOf(r) : r \in { s \in ReceiptsIn(GoValue(reply.body.value)) :
                                      s.sound /\ s.exit = "Halted(0)" } }
    /\ Goto(c, "copy")
    /\ UNCHANGED << req, copied, result, receipts, vouched >>

\* Mutant: the buffer is given back as soon as it is copied, and again later.
Copy_Frees(c) ==
    /\ pc[c] = "copy"
    /\ CInt(JsonLen[heap[ptr[c]]]) >= 0
    /\ copied' = [copied EXCEPT ![c] =
           [body |-> heap[ptr[c]], len |-> CInt(JsonLen[heap[ptr[c]]])]]
    /\ heap' = [heap EXCEPT ![ptr[c]] = Free]
    /\ Goto(c, "free")
    /\ UNCHANGED << req, status, ptr, result, receipts, made, vouched >>

\* C.GoBytes.
Copy(c) ==
    /\ pc[c] = "copy"
    /\ CInt(JsonLen[heap[ptr[c]]]) >= 0
    /\ copied' = [copied EXCEPT ![c] =
           [body |-> heap[ptr[c]], len |-> CInt(JsonLen[heap[ptr[c]]])]]
    /\ Goto(c, "free")
    /\ UNCHANGED << heap, req, status, ptr, result, receipts, made, vouched >>

\* C.GoBytes panics on a negative length, before the buffer is freed.
CopyPanics(c) ==
    /\ pc[c] = "copy"
    /\ CInt(JsonLen[heap[ptr[c]]]) < 0
    /\ Return(c, GoPanic)
    /\ UNCHANGED << heap, req, receipts, made, vouched >>

\* Mutants: an error body is not freed; the pointer is held after the free;
\* one lock is held during library calls and frees.
FreeBuffer_OnSuccess(c) ==
    /\ pc[c] = "free"
    /\ heap' = IF "free_buffer" \in Linked /\ status[c] = 0
               THEN [heap EXCEPT ![ptr[c]] = Free] ELSE heap
    /\ ptr' = [ptr EXCEPT ![c] = Nothing]
    /\ Goto(c, "decode")
    /\ UNCHANGED << req, status, copied, result, receipts, made, vouched >>

FreeBuffer_Held(c) ==
    /\ pc[c] = "free"
    /\ heap' = IF "free_buffer" \in Linked
               THEN [heap EXCEPT ![ptr[c]] = Free] ELSE heap
    /\ Goto(c, "decode")
    /\ UNCHANGED << req, status, ptr, copied, result, receipts, made, vouched >>

FreeBuffer_Locked(c) ==
    /\ pc[c] = "free"
    /\ \A d \in Callers : pc[d] # "invoke"
    /\ heap' = IF "free_buffer" \in Linked
               THEN [heap EXCEPT ![ptr[c]] = Free] ELSE heap
    /\ ptr' = [ptr EXCEPT ![c] = Nothing]
    /\ Goto(c, "decode")
    /\ UNCHANGED << req, status, copied, result, receipts, made, vouched >>

\* go_zkvm_free_buffer, unless its pointer is NULL.
FreeBuffer(c) ==
    /\ pc[c] = "free"
    /\ heap' = IF "free_buffer" \in Linked
               THEN [heap EXCEPT ![ptr[c]] = Free] ELSE heap
    /\ ptr' = [ptr EXCEPT ![c] = Nothing]
    /\ Goto(c, "decode")
    /\ UNCHANGED << req, status, copied, result, receipts, made, vouched >>

Decode(c) ==
    /\ pc[c] = "decode"
    /\ LET res == Decoded(status[c], copied[c]) IN
        /\ Return(c, res)
        /\ receipts' = receipts \cup ReceiptsIn(res)
        /\ vouched' = vouched \cup
               (IF req[c].op = "prove" /\ req[c].verify_receipt
                THEN ReceiptsIn(res) ELSE {})
    /\ UNCHANGED << heap, req, made >>

Step(c) == Unlinked(c) \/ Invoke(c) \/ Copy(c) \/ CopyPanics(c)
           \/ FreeBuffer(c) \/ Decode(c)

Next == \E c \in Callers : Refuse(c) \/ Call(c) \/ Step(c)

\* The Go side of a call runs on; how long the library takes is its own.
Fairness ==
    \A c \in Callers :
        WF_vars(Copy(c) \/ CopyPanics(c) \/ FreeBuffer(c) \/ Decode(c))

Spec == Init /\ [][Next]_vars /\ Fairness

-----------------------------------------------------------------------------
(* Properties. *)

Label == {"idle", "invoke", "copy", "free", "decode"}

\* Every variable has its type.
TypeOK ==
    /\ heap \in [Addresses -> Body \cup {Free}]
    /\ pc \in [Callers -> Label]
    /\ req \in [Callers -> Request \cup {Nothing}]
    /\ status \in [Callers -> {-1, 0, 1, 2}]
    /\ ptr \in [Callers -> Addresses \cup {Nothing}]
    /\ copied \in [Callers -> Copied \cup {Nothing}]
    /\ result \in [Callers -> Result \cup {Nothing}]
    /\ receipts \subseteq Bytes /\ vouched \subseteq Receipt
    /\ made \subseteq Claim

\* Between the reply and the free, a caller holds a buffer that is live and
\* that no other call holds: nobody frees it twice, frees another's, or
\* copies what the allocator gave to someone else (copyAndFree).
BuffersOwned ==
    /\ \A c \in Callers :
        /\ (pc[c] \in {"copy", "free"}) <=> (ptr[c] # Nothing)
        /\ ptr[c] # Nothing => heap[ptr[c]] # Free
    /\ \A c, d \in Callers :
        ptr[c] # Nothing /\ ptr[c] = ptr[d] => c = d

\* No response is left behind in the library's heap: what is allocated is in
\* the hands of a call that will free it (docs/host-api.md, Memory and
\* Ownership).
BuffersReturned ==
    \A a \in Addresses : heap[a] # Free => \E c \in Callers : ptr[c] = a

\* What a call hands to its caller is what the library decided of this
\* caller's request: a value whole, an error by its code.  A lost, cut or
\* missing response never turns into a value or into another error.
Decides(q, res) ==
    /\ res.kind = "value" =>
        \E reply \in invoke(q) :
            reply.status = 0 /\ res.value = reply.body.value
    /\ res.kind = "host_error" /\ res.code # "internal_error" =>
        \E reply \in invoke(q) :
            reply.status = 1 /\ res.code = reply.body.code

OwnDecision ==
    \A c \in Callers : result[c] # Nothing => Decides(req[c], result[c])

\* A receipt that Verify accepts stands for a run: a sound proof was made of
\* that image and the journal that Verify returns, a run of the image to
\* Halted(0) committed that journal, and every claim the run asserted was
\* proved as well.  No receipt from elsewhere, passed to Verify or as an
\* assumption, changes that.  The journal is the one the caller expected, an
\* empty one included.
VerifyMeans ==
    \A c \in Callers :
        /\ result[c] # Nothing /\ req[c].op = "verify"
        /\ result[c].kind = "value"
        =>
        LET image   == req[c].image_id
            journal == result[c].value.journal
        IN /\ [image |-> image, journal |-> journal] \in made
           /\ \E s \in Stdins :
                /\ Runs[image][s].exit = "Halted(0)"
                /\ Runs[image][s].journal = journal
                /\ Runs[image][s].asserts \subseteq made
           /\ req[c].expected_journal \in {Nothing, journal}

\* What Prove returned after its self-verification, Verify never rejects
\* when it is given the image ID and the journal that Prove returned, or no
\* journal (the worked example of docs/host-api.md).
ProvedVerifies ==
    \A c \in Callers :
        /\ result[c] # Nothing /\ req[c].op = "verify"
        /\ req[c].receipt \in vouched
        /\ req[c].image_id = req[c].receipt.image
        /\ req[c].expected_journal \in {Nothing, req[c].receipt.journal}
        =>
        result[c].kind # "host_error" \/ result[c].code = "internal_error"

-----------------------------------------------------------------------------
(* What makes these inductive. *)

\* Behind every claim proved there is a run that made it, and every claim
\* that run asserted with zkvm.Verify was proved too.
MadeByRuns ==
    \A m \in made : \E s \in Stdins :
        /\ Runs[m.image][s].exit = "Halted(0)"
        /\ Runs[m.image][s].journal = m.journal
        /\ Runs[m.image][s].asserts \subseteq made

\* A receipt that Verify would accept comes from a prover.
Accounted(r) ==
    r # Garbage /\ r.sound /\ r.exit = "Halted(0)" => ClaimOf(r) \in made

\* A body: the receipt in it, if any, is accounted for.
BodyAccounted(b) == \A r \in ReceiptsIn(GoValue(b.value)) : Accounted(r)

\* A reply that is on its way belongs to the request of its caller.
ReplyMatches(c) ==
    /\ pc[c] # "idle" \/ result[c] # Nothing => req[c] \in Request
    /\ pc[c] # "idle" => Sendable(req[c]) /\ result[c] = Nothing
    /\ pc[c] \in {"idle", "invoke", "copy"} => copied[c] = Nothing
    /\ pc[c] \in {"copy", "free"} =>
        [status |-> status[c], body |-> heap[ptr[c]]] \in invoke(req[c])
    /\ pc[c] = "free" =>
        copied[c] = [body |-> heap[ptr[c]],
                     len  |-> CInt(JsonLen[heap[ptr[c]]])]
    /\ pc[c] = "decode" =>
        \/ status[c] = -1 /\ copied[c] = Nothing /\ req[c].op \notin Linked
        \/ /\ copied[c] # Nothing
           /\ [status |-> status[c], body |-> copied[c].body]
                  \in invoke(req[c])
           /\ copied[c].len = CInt(JsonLen[copied[c].body])

RepliesMatch == \A c \in Callers : ReplyMatches(c)

\* The receipts at hand and on their way are accounted for.
ReceiptsAccounted ==
    /\ \A r \in receipts : Accounted(r)
    /\ \A a \in Addresses : heap[a] # Free => BodyAccounted(heap[a])
    /\ \A c \in Callers : copied[c] # Nothing => BodyAccounted(copied[c].body)

\* Requests are made of receipts at hand.
RequestsAtHand ==
    \A c \in Callers : req[c] # Nothing =>
        /\ req[c].op = "verify" => req[c].receipt \in receipts
        /\ req[c].op \in {"execute", "prove"} =>
               req[c].assumptions \subseteq receipts

\* A self-verified receipt verifies.
VouchedVerify == \A r \in vouched : ReceiptVerifies(r, r.image)

IInv ==
    /\ TypeOK /\ BuffersOwned /\ RepliesMatch /\ OwnDecision
    /\ ReceiptsAccounted /\ RequestsAtHand /\ VouchedVerify /\ MadeByRuns

-----------------------------------------------------------------------------
(* Liveness and refinement. *)

\* A call whose library call has returned returns (callJSON).
CallReturns == \A c \in Callers : (pc[c] = "copy") ~> (pc[c] = "idle")

\* What the promises below need: no NULL pointer, no response of 2 GiB.
AllLinked == Linked = Operation \cup {"free_buffer"}
ResponsesFit == \A b \in Body : JsonLen[b] < IntMod \div 2

\* The calls implement HostOracle: one answer per request, its own.
Oracle == INSTANCE HostOracle WITH
    asked <- req, answer <- result,
    waiting <- { c \in Callers : pc[c] # "idle" }

ImplementsHostOracle == Oracle!OracleSpec

-----------------------------------------------------------------------------
(* What the repository says, and the code does not do. *)

\* "image_id_mismatch: The receipt's image ID does not match the expected
\* value." (docs/host-api.md:432)
ImageMismatchReported ==
    \A c \in Callers :
        /\ result[c] # Nothing /\ req[c].op = "verify"
        /\ req[c].receipt # Garbage /\ req[c].image_id \in Images
        /\ req[c].receipt.sound /\ req[c].receipt.image # req[c].image_id
        => result[c].code = "image_id_mismatch"

\* "The prover still produces a receipt, but it records the failure."
\* (docs/tutorial.md:528-529)
FailuresHaveReceipts ==
    \A c \in Callers :
        /\ result[c] # Nothing /\ req[c].op = "prove" /\ Sendable(req[c])
        /\ req[c].guest \in Images /\ EnvBuilds(req[c])
        /\ Runs[req[c].guest][req[c].stdin].exit = "Halted(1)"
        => result[c].kind = "value"

=============================================================================
