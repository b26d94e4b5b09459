------------------------------ MODULE HostCore ------------------------------
(***************************************************************************)
(* The four operations of host-core/src/lib.rs and the exports of          *)
(* host-ffi/src/lib.rs around them: for each request, the set of replies   *)
(* the library may give.  risc0 is external: the executor is a function of *)
(* the guest and its input, and the prover may also fail, panic, or return *)
(* a receipt that does not verify (FaultKinds).                            *)
(*                                                                         *)
(* A guest binary is named by its image ID, which is its hash.  Sizes,     *)
(* seal lengths, prover names and the wording of messages are left out.    *)
(***************************************************************************)
EXTENDS Naturals, FiniteSets

CONSTANTS
    Images,      \* the image IDs of the binaries risc0 can load
    BadBinary,   \* a binary it cannot load
    BadHex,      \* a string that is no image ID
    Stdins,
    Journals,
    EmptyJournal,
    Runs,        \* what a guest does with an input
    Garbage,     \* bytes that are no receipt
    Nothing,     \* nil, None, or a field that is not set
    FaultKinds   \* what risc0 may do wrong

\* The guest asserts claims with zkvm.Verify; a fault is a trap of the zkVM.
Claim == [image : Images, journal : Journals]
Exit  == {"Halted(0)", "Halted(1)"}
Run   == [journal : Journals, exit : Exit \cup {"fault"}, asserts : SUBSET Claim]

ASSUME CoreAssumption ==
    /\ BadBinary \notin Images /\ BadHex \notin Images
    /\ Nothing \notin Images \cup Journals
    /\ EmptyJournal \in Journals
    /\ Runs \in [Images -> [Stdins -> Run]]
    /\ FaultKinds \subseteq {"error", "panic", "unsound"}

\* A decoded receipt; sound: its seal verifies and it binds this claim.
Receipt == [image : Images, journal : Journals, exit : Exit, sound : BOOLEAN]

ASSUME ReceiptAssumption == Garbage \notin Receipt /\ Nothing \notin Receipt

Bytes == Receipt \cup {Garbage}

ClaimOf(r) == [image |-> r.image, journal |-> r.journal]

-----------------------------------------------------------------------------
(* Requests, as Go callers make them. *)

Binary  == Images \cup {BadBinary}
Kinds   == {"composite", "succinct", "groth16"}

ComputeRequest == [op : {"compute_image_id"}, guest : Binary]
ExecuteRequest == [op : {"execute"}, guest : Binary, stdin : Stdins,
                   assumptions : SUBSET Bytes]
ProveRequest   == [op : {"prove"}, guest : Binary, stdin : Stdins,
                   assumptions : SUBSET Bytes,
                   verify_receipt : BOOLEAN, receipt_kind : Kinds]
VerifyRequest  == [op : {"verify"}, receipt : Bytes,
                   image_id : Images \cup {BadHex},
                   expected_journal : Journals \cup {Nothing}]

Request == ComputeRequest \cup ExecuteRequest \cup ProveRequest
           \cup VerifyRequest

(* Replies. *)

Code  == {"invalid_request", "invalid_guest_binary", "invalid_receipt",
          "execute_failed", "prove_failed", "verify_failed",
          "journal_mismatch", "internal_error"}
Value == [image : Images \cup {Nothing}, journal : Journals \cup {Nothing},
          receipt : Receipt \cup {Nothing}]

OkBody    == [code : {"ok"}, value : Value]
ErrorBody == [code : Code, value : {Nothing}]
Body      == OkBody \cup ErrorBody

Ok(image, journal, receipt) ==
    [code  |-> "ok",
     value |-> [image |-> image, journal |-> journal, receipt |-> receipt]]
Err(code) == [code |-> code, value |-> Nothing]

-----------------------------------------------------------------------------
(* risc0. *)

\* The claims an assertion of the guest may be resolved with.
Supported(assumptions) ==
    { ClaimOf(r) : r \in { a \in assumptions : a.exit = "Halted(0)" } }

\* Does the guest run to a halt?  An assertion without an assumption is a
\* fault.
ExecutorRuns(req) ==
    LET run == Runs[req.guest][req.stdin] IN
    /\ run.exit # "fault"
    /\ run.asserts \subseteq Supported(req.assumptions)

\* The receipts a prover may return: sound only if what the guest asserted
\* is.
ProverReceipts(req) ==
    LET run   == Runs[req.guest][req.stdin]
        sound == { a \in req.assumptions : a.sound }
    IN { [image |-> req.guest, journal |-> run.journal, exit |-> run.exit,
          sound |-> s] :
         s \in (IF "unsound" \in FaultKinds THEN {FALSE} ELSE {})
               \cup {run.asserts \subseteq Supported(sound)} }

\* Receipt::verify accepts a sound receipt of a guest that halted with 0.
ReceiptVerifies(r, image_id) ==
    r.sound /\ r.exit = "Halted(0)" /\ r.image = image_id

-----------------------------------------------------------------------------
(* host-core: each operation makes its checks in this order. *)

compute_image_id_hex(req) ==
    IF req.guest \notin Images THEN {Err("invalid_guest_binary")}
    ELSE {Ok(req.guest, Nothing, Nothing)}

\* build_env_with_assumptions decodes every assumption.
EnvBuilds(req) == Garbage \notin req.assumptions

execute(req) ==
    IF req.guest \notin Images THEN {Err("invalid_guest_binary")}
    ELSE IF ~ EnvBuilds(req) THEN {Err("invalid_request")}
    ELSE IF ~ ExecutorRuns(req) THEN {Err("execute_failed")}
    ELSE {Ok(req.guest, Runs[req.guest][req.stdin].journal, Nothing)}

\* Mutant: the self-verification is left out.
Proved_Unverified(req, r) == Ok(req.guest, r.journal, r)

\* What prove makes of the prover's receipt.
Proved(req, r) ==
    IF req.verify_receipt /\ ~ ReceiptVerifies(r, req.guest)
    THEN Err("verify_failed")
    ELSE Ok(req.guest, r.journal, r)

prove(req) ==
    IF req.guest \notin Images THEN {Err("invalid_guest_binary")}
    ELSE IF ~ EnvBuilds(req) THEN {Err("invalid_request")}
    ELSE IF ~ ExecutorRuns(req) THEN {Err("prove_failed")}
    ELSE { Proved(req, r) : r \in ProverReceipts(req) }
         \cup (IF "error" \in FaultKinds THEN {Err("prove_failed")} ELSE {})

verify(req) ==
    IF req.image_id = BadHex THEN {Err("invalid_request")}
    ELSE IF req.receipt = Garbage THEN {Err("invalid_receipt")}
    ELSE IF ~ ReceiptVerifies(req.receipt, req.image_id)
    THEN {Err("verify_failed")}
    ELSE IF req.expected_journal # Nothing
            /\ req.expected_journal # req.receipt.journal
    THEN {Err("journal_mismatch")}
    ELSE {Ok(Nothing, req.receipt.journal, Nothing)}

-----------------------------------------------------------------------------
(* host-ffi: the status beside the body. *)

Handler(req) ==
    CASE req.op = "compute_image_id" -> compute_image_id_hex(req)
      [] req.op = "execute" -> execute(req)
      [] req.op = "prove"   -> prove(req)
      [] OTHER -> verify(req)

\* invoke: 0 for a response, 1 for an error, 2 for a panic caught.
invoke(req) ==
    { [status |-> IF b.code = "ok" THEN 0 ELSE 1, body |-> b] :
      b \in Handler(req) }
    \cup (IF "panic" \in FaultKinds
          THEN {[status |-> 2, body |-> Err("internal_error")]} ELSE {})

-----------------------------------------------------------------------------
(* What a Go caller is left with: a result, a *HostError, another error, or *)
(* a panic.                                                                 *)

CONSTANTS
    Callers,        \* goroutines
    Foreign,        \* what the application holds at the start
    MaxAssumptions  \* bound on the receipts passed to one run

ASSUME CallerAssumption ==
    /\ Nothing \notin Callers
    /\ MaxAssumptions \in Nat
    /\ Foreign \subseteq { b \in Bytes : b # Garbage => ~ b.sound }

Result == [kind : {"value"}, code : {"ok"}, value : Value]
          \cup [kind : {"host_error"}, code : Code, value : {Nothing}]
          \cup [kind : {"error", "panic"}, code : {"ok"}, value : {Nothing}]

GoValue(value) == [kind |-> "value", code |-> "ok", value |-> value]
HostError(code) == [kind |-> "host_error", code |-> code, value |-> Nothing]
GoError == [kind |-> "error", code |-> "ok", value |-> Nothing]
GoPanic == [kind |-> "panic", code |-> "ok", value |-> Nothing]

ASSUME NothingAssumption ==
    Nothing \notin Value /\ Nothing \notin Request /\ Nothing \notin Result

\* Requests from what is at hand: binaries, and receipts received so far.
Assumable(receipts) ==
    { s \in SUBSET receipts : Cardinality(s) <= MaxAssumptions }

RequestsOver(receipts) ==
    ComputeRequest
    \cup [op : {"execute"}, guest : Binary, stdin : Stdins,
          assumptions : Assumable(receipts)]
    \cup [op : {"prove"}, guest : Binary, stdin : Stdins,
          assumptions : Assumable(receipts),
          verify_receipt : BOOLEAN, receipt_kind : Kinds]
    \cup [op : {"verify"}, receipt : receipts,
          image_id : Images \cup {BadHex},
          expected_journal : Journals \cup {Nothing}]

\* isValidProveReceiptKind, the only check on the Go side.
Sendable(req) ==
    req.op = "prove" => req.receipt_kind \in {"composite", "succinct"}

\* What a caller keeps of a result.
ReceiptsIn(result) ==
    IF result.kind = "value" /\ result.value # Nothing
       /\ result.value.receipt # Nothing
    THEN {result.value.receipt} ELSE {}

=============================================================================
