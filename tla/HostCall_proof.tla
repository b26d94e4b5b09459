--------------------------- MODULE HostCall_proof ---------------------------
(***************************************************************************)
(* Proofs about HostCall, for any number of goroutines, guests, receipts   *)
(* and addresses, any lengths of responses and any faults of risc0.        *)
(***************************************************************************)
EXTENDS HostCall, TLAPS

(* What the library replies: lemmas about the operators of HostCore. *)

\* A request crosses the boundary unchanged, a nil journal included.
LEMMA MarshalRoundTrip ==
  ASSUME NEW r \in Request
  PROVE  unmarshal(marshal(r)) = r
  <1>1. CASE r.op # "verify"
    BY <1>1 DEF marshal, unmarshal
  <1>2. CASE r.op = "verify"
    <2>1. r \in VerifyRequest
      BY <1>2 DEF Request, ComputeRequest, ExecuteRequest, ProveRequest
    <2> QED
      BY <1>2, <2>1 DEF VerifyRequest, marshal, unmarshal
  <1> QED
    BY <1>1, <1>2

\* Each request is of the operation it names.
LEMMA RequestKind ==
  ASSUME NEW q \in Request
  PROVE  /\ q.op \in Operation
         /\ q.op = "compute_image_id" => q \in ComputeRequest
         /\ q.op = "execute" => q \in ExecuteRequest
         /\ q.op = "prove"   => q \in ProveRequest
         /\ q.op = "verify"  => q \in VerifyRequest
  BY DEF Request, ComputeRequest, ExecuteRequest, ProveRequest,
         VerifyRequest, Operation

\* The handlers answer with bodies; only prove sends a receipt.
LEMMA ComputeBodies ==
  ASSUME NEW q \in ComputeRequest, NEW b \in compute_image_id_hex(q)
  PROVE  b \in Body /\ ReceiptsIn(GoValue(b.value)) = {}
  BY CoreAssumption
  DEF ComputeRequest, Binary, compute_image_id_hex, Err, Ok, Body, OkBody,
      ErrorBody, Code, Value, ReceiptsIn, GoValue

LEMMA RunTyped ==
  ASSUME NEW g \in Images, NEW s \in Stdins
  PROVE  /\ Runs[g][s] \in Run
         /\ Runs[g][s].journal \in Journals
         /\ Runs[g][s].exit # "fault" => Runs[g][s].exit \in Exit
         /\ Runs[g][s].asserts \subseteq Claim
  <1>1. Runs[g][s] \in Run
    BY CoreAssumption
  <1> QED
    BY <1>1 DEF Run, Exit

LEMMA ExecuteBodies ==
  ASSUME NEW q \in ExecuteRequest, NEW b \in execute(q)
  PROVE  b \in Body /\ ReceiptsIn(GoValue(b.value)) = {}
  <1>1. q.guest \in Images => Runs[q.guest][q.stdin].journal \in Journals
    BY RunTyped DEF ExecuteRequest
  <1> QED
    BY <1>1, CoreAssumption
    DEF execute, Err, Ok, Body, OkBody, ErrorBody, Code, Value,
        ReceiptsIn, GoValue

\* What a prover returns is a receipt of the run it was asked for; a sound
\* one rests on sound assumptions.
LEMMA ProverReceiptsTyped ==
  ASSUME NEW q \in ProveRequest, q.guest \in Images, ExecutorRuns(q),
         NEW r \in ProverReceipts(q)
  PROVE  /\ r \in Receipt
         /\ r.image = q.guest
         /\ r.journal = Runs[q.guest][q.stdin].journal
         /\ r.exit = Runs[q.guest][q.stdin].exit
         /\ r.sound => Runs[q.guest][q.stdin].asserts
                         \subseteq Supported({ a \in q.assumptions : a.sound })
  <1>1. q.stdin \in Stdins
    BY DEF ProveRequest
  <1>2. /\ Runs[q.guest][q.stdin].journal \in Journals
        /\ Runs[q.guest][q.stdin].exit \in Exit
    BY <1>1, RunTyped DEF ExecutorRuns
  <1>3. PICK snd \in BOOLEAN :
          /\ r = [image   |-> q.guest,
                  journal |-> Runs[q.guest][q.stdin].journal,
                  exit    |-> Runs[q.guest][q.stdin].exit, sound |-> snd]
          /\ snd => Runs[q.guest][q.stdin].asserts
                      \subseteq Supported({ a \in q.assumptions : a.sound })
    BY Zenon DEF ProverReceipts
  <1> QED
    BY <1>2, <1>3 DEF Receipt

\* Prove answers with an error, or with a receipt its prover made, which
\* verifies if that was asked for.
LEMMA ProveBodies ==
  ASSUME NEW q \in ProveRequest, NEW b \in prove(q)
  PROVE  /\ b \in Body
         /\ \A r \in ReceiptsIn(GoValue(b.value)) :
              /\ q.guest \in Images /\ EnvBuilds(q) /\ ExecutorRuns(q)
              /\ r \in ProverReceipts(q)
              /\ q.verify_receipt => ReceiptVerifies(r, q.guest)
  <1>1. CASE b = Err("invalid_guest_binary") \/ b = Err("invalid_request")
             \/ b = Err("prove_failed") \/ b = Err("verify_failed")
    BY <1>1, CoreAssumption
    DEF Err, Body, ErrorBody, Code, ReceiptsIn, GoValue
  <1>2. ASSUME q.guest \in Images, EnvBuilds(q), ExecutorRuns(q),
               NEW r \in ProverReceipts(q),
               q.verify_receipt => ReceiptVerifies(r, q.guest),
               b = Ok(q.guest, r.journal, r)
        PROVE  /\ b \in Body
               /\ ReceiptsIn(GoValue(b.value)) = {r}
    <2>1. r \in Receipt /\ r.journal \in Journals
      BY <1>2, ProverReceiptsTyped DEF Receipt
    <2>2. b \in OkBody /\ b.value \in Value /\ b.value.receipt = r
      BY <1>2, <2>1 DEF Ok, OkBody, Value
    <2>3. b \in Body /\ b.value # Nothing
      BY <2>2, NothingAssumption DEF Body
    <2> QED
      BY <2>1, <2>2, <2>3, ReceiptAssumption DEF ReceiptsIn, GoValue
  <1>3. \/ b = Err("invalid_guest_binary") \/ b = Err("invalid_request")
        \/ b = Err("prove_failed") \/ b = Err("verify_failed")
        \/ /\ q.guest \in Images /\ EnvBuilds(q) /\ ExecutorRuns(q)
           /\ \E r \in ProverReceipts(q) :
                /\ q.verify_receipt => ReceiptVerifies(r, q.guest)
                /\ b = Ok(q.guest, r.journal, r)
    BY DEF prove, Proved
  <1> QED
    BY <1>1, <1>2, <1>3

\* Verify succeeds on a receipt that verifies and whose journal is not an
\* unexpected one, and only then.
LEMMA VerifyBodies ==
  ASSUME NEW q \in VerifyRequest, NEW b \in verify(q)
  PROVE  /\ b \in Body
         /\ ReceiptsIn(GoValue(b.value)) = {}
         /\ b.code = "ok" =>
              /\ q.receipt \in Receipt
              /\ ReceiptVerifies(q.receipt, q.image_id)
              /\ b.value.journal = q.receipt.journal
              /\ q.expected_journal \in {Nothing, q.receipt.journal}
         /\ b.code # "ok" =>
              \/ q.image_id \notin Images \/ q.receipt \notin Receipt
              \/ ~ ReceiptVerifies(q.receipt, q.image_id)
              \/ q.expected_journal \notin {Nothing, q.receipt.journal}
  <1>1. q.receipt \in Receipt => q.receipt.journal \in Journals
    BY DEF Receipt
  <1>2. q.receipt \in Receipt <=> q.receipt # Garbage
    BY ReceiptAssumption DEF VerifyRequest, Bytes
  <1>3. q.image_id = BadHex <=> q.image_id \notin Images
    BY CoreAssumption DEF VerifyRequest
  <1>4. \/ /\ q.image_id \notin Images /\ b = Err("invalid_request")
        \/ /\ q.receipt \notin Receipt /\ b = Err("invalid_receipt")
        \/ /\ ~ ReceiptVerifies(q.receipt, q.image_id)
           /\ b = Err("verify_failed")
        \/ /\ q.expected_journal \notin {Nothing, q.receipt.journal}
           /\ b = Err("journal_mismatch")
        \/ /\ q.receipt \in Receipt /\ ReceiptVerifies(q.receipt, q.image_id)
           /\ q.expected_journal \in {Nothing, q.receipt.journal}
           /\ b = Ok(Nothing, q.receipt.journal, Nothing)
    BY <1>2, <1>3 DEF verify
  <1> QED
    BY <1>1, <1>4, CoreAssumption
    DEF Err, Ok, Body, OkBody, ErrorBody, Code, Value, ReceiptsIn, GoValue

\* Status 0 goes with a value, 1 with an error, 2 with internal_error.
LEMMA Replies ==
  ASSUME NEW q \in Request, NEW reply \in invoke(q)
  PROVE  /\ reply = [status |-> reply.status, body |-> reply.body]
         /\ reply.status \in {0, 1, 2} /\ reply.body \in Body
         /\ reply.status = 0 <=> reply.body.code = "ok"
         /\ reply.status = 2 => reply.body = Err("internal_error")
         /\ reply.status # 2 => reply.body \in Handler(q)
         /\ reply.status # 0 => ReceiptsIn(GoValue(reply.body.value)) = {}
  <1>1. \A b \in Handler(q) : b \in Body
    BY RequestKind, ComputeBodies, ExecuteBodies, ProveBodies, VerifyBodies
    DEF Handler, Operation
  <1>2. \A b \in Body : b.code # "ok" => b.value = Nothing
    BY DEF Body, OkBody, ErrorBody
  <1>3. /\ Err("internal_error") \in Body
        /\ Err("internal_error").code # "ok"
    BY DEF Err, Body, ErrorBody, Code
  <1>4. \/ \E b \in Handler(q) :
             reply = [status |-> IF b.code = "ok" THEN 0 ELSE 1, body |-> b]
        \/ reply = [status |-> 2, body |-> Err("internal_error")]
    BY DEF invoke
  <1>5. \A b \in Body : b.value = Nothing => ReceiptsIn(GoValue(b.value)) = {}
    BY DEF ReceiptsIn, GoValue
  <1> QED
    BY <1>1, <1>2, <1>3, <1>4, <1>5

\* Only a reply to Prove has a receipt.
LEMMA OnlyProveSends ==
  ASSUME NEW q \in Request, NEW reply \in invoke(q),
         NEW r \in ReceiptsIn(GoValue(reply.body.value))
  PROVE  /\ q \in ProveRequest /\ r \in Receipt
         /\ q.guest \in Images /\ EnvBuilds(q) /\ ExecutorRuns(q)
         /\ r \in ProverReceipts(q)
         /\ q.verify_receipt => ReceiptVerifies(r, q.guest)
  <1>1. reply.body \in Handler(q)
    BY Replies
  <1>2. q.op = "prove"
    BY <1>1, RequestKind, ComputeBodies, ExecuteBodies, VerifyBodies
    DEF Handler, Operation
  <1>3. q \in ProveRequest /\ reply.body \in prove(q)
    BY <1>1, <1>2, RequestKind DEF Handler
  <1> QED
    BY <1>3, ProveBodies, ProverReceiptsTyped

-----------------------------------------------------------------------------
(* Decoding, and the requests of the application. *)

LEMMA CIntTyped ==
  ASSUME NEW n \in Nat
  PROVE  CInt(n) \in Int
  BY CallAssumption DEF CInt

\* Decoding a copy of a reply gives its value, its error, or an error that
\* is neither.
LEMMA DecodedReply ==
  ASSUME NEW q \in Request, NEW st, NEW copy \in Copied,
         [status |-> st, body |-> copy.body] \in invoke(q)
  PROVE  /\ Decoded(st, copy) \in Result
         /\ Decides(q, Decoded(st, copy))
         /\ ReceiptsIn(Decoded(st, copy))
              \subseteq ReceiptsIn(GoValue(copy.body.value))
  <1> DEFINE reply == [status |-> st, body |-> copy.body]
  <1>1. /\ st \in {0, 1, 2} /\ copy.body \in Body
        /\ st = 0 <=> copy.body.code = "ok"
        /\ st = 2 => copy.body = Err("internal_error")
    <2>1. reply \in invoke(q)
      OBVIOUS
    <2>2. reply.status = st /\ reply.body = copy.body
      OBVIOUS
    <2> HIDE DEF reply
    <2> QED
      BY <2>1, <2>2, Replies
  <1>2. /\ copy.body.code = "ok" => copy.body.value \in Value
        /\ copy.body.code # "ok" =>
             copy.body.code \in Code /\ copy.body.value = Nothing
    BY <1>1 DEF Body, OkBody, ErrorBody, Code
  <1>3. CASE Decoded(st, copy) = GoError
    BY <1>3 DEF GoError, Result, Decides, ReceiptsIn
  <1>4. CASE Decoded(st, copy) = HostError("internal_error")
    BY <1>4 DEF HostError, Result, Code, Decides, ReceiptsIn
  <1>5. CASE st = 0 /\ Decoded(st, copy) = GoValue(copy.body.value)
    <2>1. Decoded(st, copy) \in Result
      BY <1>1, <1>2, <1>5 DEF GoValue, Result
    <2>2. Decides(q, Decoded(st, copy))
      <3>1. reply \in invoke(q) /\ reply.status = 0
            /\ reply.body.value = copy.body.value
        BY <1>5
      <3> HIDE DEF reply
      <3> QED
        BY <3>1, <1>5 DEF GoValue, Decides
    <2> QED
      BY <2>1, <2>2, <1>5
  <1>6. CASE st = 1 /\ Decoded(st, copy) = HostError(copy.body.code)
    <2>1. Decoded(st, copy) \in Result
      BY <1>1, <1>2, <1>6 DEF HostError, Result
    <2>2. Decides(q, Decoded(st, copy))
      <3>1. reply \in invoke(q) /\ reply.status = 1
            /\ reply.body.code = copy.body.code
        BY <1>6
      <3> HIDE DEF reply
      <3> QED
        BY <3>1, <1>6 DEF HostError, Decides
    <2>3. ReceiptsIn(Decoded(st, copy)) = {}
      BY <1>6 DEF HostError, ReceiptsIn
    <2> QED
      BY <2>1, <2>2, <2>3
  <1>7. st = 2 => copy.body.code = "internal_error"
    BY <1>1 DEF Err
  <1> QED
    BY <1>1, <1>3, <1>4, <1>5, <1>6, <1>7 DEF Decoded, decodeFFIError

\* With no response the result is an internal error.
LEMMA DecodedNothing ==
  ASSUME NEW q
  PROVE  /\ Decoded(-1, Nothing) = HostError("internal_error")
         /\ Decoded(-1, Nothing) \in Result
         /\ Decides(q, Decoded(-1, Nothing))
         /\ ReceiptsIn(Decoded(-1, Nothing)) = {}
  BY DEF Decoded, decodeFFIError, Whole, HostError, Result, Code, Decides,
         ReceiptsIn

\* The application asks with what it holds.
LEMMA RequestsOverTyped ==
  ASSUME NEW held \in SUBSET Bytes, NEW r \in RequestsOver(held)
  PROVE  /\ r \in Request
         /\ r.op = "verify" => r.receipt \in held
         /\ r.op \in {"execute", "prove"} => r.assumptions \subseteq held
  <1>1. CASE r \in ComputeRequest
    BY <1>1 DEF Request, ComputeRequest
  <1>2. ASSUME NEW set \in Assumable(held)
        PROVE  set \in SUBSET Bytes /\ set \subseteq held
    BY DEF Assumable
  <1>3. CASE r \in [op : {"execute"}, guest : Binary, stdin : Stdins,
                    assumptions : Assumable(held)]
    BY <1>2, <1>3 DEF Request, ExecuteRequest
  <1>4. CASE r \in [op : {"prove"}, guest : Binary, stdin : Stdins,
                    assumptions : Assumable(held),
                    verify_receipt : BOOLEAN, receipt_kind : Kinds]
    BY <1>2, <1>4 DEF Request, ProveRequest
  <1>5. CASE r \in [op : {"verify"}, receipt : held,
                    image_id : Images \cup {BadHex},
                    expected_journal : Journals \cup {Nothing}]
    BY <1>5 DEF Request, VerifyRequest
  <1> QED
    BY <1>1, <1>3, <1>4, <1>5 DEF RequestsOver

-----------------------------------------------------------------------------
(* Every step keeps the invariant. *)

\* Nothing is under way at the start, and no sound receipt is at hand.
LEMMA InitInv == Init => IInv
  <1> SUFFICES ASSUME Init PROVE IInv
    OBVIOUS
  <1>1. TypeOK
    BY CallerAssumption, NothingAssumption
    DEF Init, TypeOK, Label
  <1>2. BuffersOwned /\ RepliesMatch /\ OwnDecision
    BY DEF Init, BuffersOwned, RepliesMatch, ReplyMatches, OwnDecision
  <1>3. ReceiptsAccounted
    BY CallerAssumption DEF Init, ReceiptsAccounted, Accounted
  <1>4. RequestsAtHand /\ VouchedVerify /\ MadeByRuns
    BY DEF Init, RequestsAtHand, VouchedVerify, MadeByRuns
  <1> QED
    BY <1>1, <1>2, <1>3, <1>4 DEF IInv

\* A request refused in Go leaves the library alone.
LEMMA RefuseInv ==
  ASSUME IInv, NEW c \in Callers, Refuse(c)
  PROVE  IInv'
  <1> USE DEF IInv, Goto, Return
  <1>b. PICK r \in RequestsOver(receipts) :
          ~ Sendable(r) /\ req' = [req EXCEPT ![c] = r]
    BY DEF Refuse
  <1>c. /\ r \in Request
        /\ r.op = "verify" => r.receipt \in receipts
        /\ r.op \in {"execute", "prove"} => r.assumptions \subseteq receipts
    BY RequestsOverTyped DEF TypeOK
  <1>d. GoError \in Result /\ \A q : Decides(q, GoError)
    BY DEF GoError, Result, Decides
  <1>1. TypeOK'
    BY <1>b, <1>c, <1>d, NothingAssumption DEF Refuse, TypeOK, Label
  <1>2. BuffersOwned'
    BY <1>b, <1>c, <1>d, NothingAssumption DEF Refuse, TypeOK, BuffersOwned, Label
  <1>3. RepliesMatch'
    <2>1. ASSUME NEW d \in Callers, d # c PROVE ReplyMatches(d)'
      BY <2>1 DEF Refuse, TypeOK, RepliesMatch, ReplyMatches
    <2>2. ReplyMatches(c)'
      BY <1>b, <1>c, <1>d, NothingAssumption DEF Refuse, TypeOK, RepliesMatch, ReplyMatches
    <2> QED
      BY <2>1, <2>2 DEF RepliesMatch
  <1>4. OwnDecision'
    BY <1>b, <1>c, <1>d, NothingAssumption DEF Refuse, TypeOK, OwnDecision
  <1>5. ReceiptsAccounted'
    BY <1>b, <1>c, <1>d, NothingAssumption DEF Refuse, TypeOK, ReceiptsAccounted, BodyAccounted, Accounted
  <1>6. RequestsAtHand'
    BY <1>b, <1>c, <1>d, NothingAssumption DEF Refuse, TypeOK, RequestsAtHand
  <1>7. VouchedVerify'
    BY <1>b, <1>c, <1>d, NothingAssumption DEF Refuse, TypeOK, VouchedVerify
  <1>8. MadeByRuns'
    BY <1>b, <1>c, <1>d, NothingAssumption DEF Refuse, MadeByRuns
  <1> QED
    BY <1>1, <1>2, <1>3, <1>4, <1>5, <1>6, <1>7, <1>8

\* A call starts with no response.
LEMMA CallInv ==
  ASSUME IInv, NEW c \in Callers, Call(c)
  PROVE  IInv'
  <1> USE DEF IInv, Goto, Return
  <1>b. PICK r \in RequestsOver(receipts) :
          Sendable(r) /\ req' = [req EXCEPT ![c] = r]
    BY DEF Call
  <1>c. /\ r \in Request
        /\ r.op = "verify" => r.receipt \in receipts
        /\ r.op \in {"execute", "prove"} => r.assumptions \subseteq receipts
    BY RequestsOverTyped DEF TypeOK
  <1>1. TypeOK'
    BY <1>b, <1>c DEF Call, TypeOK, Label
  <1>2. BuffersOwned'
    BY <1>b, <1>c DEF Call, TypeOK, BuffersOwned, Label
  <1>3. RepliesMatch'
    <2>1. ASSUME NEW d \in Callers, d # c PROVE ReplyMatches(d)'
      BY <2>1 DEF Call, TypeOK, RepliesMatch, ReplyMatches
    <2>2. ReplyMatches(c)'
      BY <1>b, <1>c DEF Call, TypeOK, RepliesMatch, ReplyMatches
    <2> QED
      BY <2>1, <2>2 DEF RepliesMatch
  <1>4. OwnDecision'
    BY <1>b, <1>c DEF Call, TypeOK, OwnDecision
  <1>5. ReceiptsAccounted'
    BY <1>b, <1>c DEF Call, TypeOK, ReceiptsAccounted, BodyAccounted, Accounted
  <1>6. RequestsAtHand'
    BY <1>b, <1>c DEF Call, TypeOK, RequestsAtHand
  <1>7. VouchedVerify'
    BY <1>b, <1>c DEF Call, TypeOK, VouchedVerify
  <1>8. MadeByRuns'
    BY <1>b, <1>c DEF Call, MadeByRuns
  <1> QED
    BY <1>1, <1>2, <1>3, <1>4, <1>5, <1>6, <1>7, <1>8

\* A call through a NULL pointer has no response.
LEMMA UnlinkedInv ==
  ASSUME IInv, NEW c \in Callers, Unlinked(c)
  PROVE  IInv'
  <1> USE DEF IInv, Goto, Return
  <1>1. TypeOK'
    BY DEF Unlinked, TypeOK, Label
  <1>2. BuffersOwned'
    BY DEF Unlinked, TypeOK, BuffersOwned, Label
  <1>3. RepliesMatch'
    <2>1. ASSUME NEW d \in Callers, d # c PROVE ReplyMatches(d)'
      BY <2>1 DEF Unlinked, TypeOK, RepliesMatch, ReplyMatches
    <2>2. ReplyMatches(c)'
      BY DEF Unlinked, TypeOK, RepliesMatch, ReplyMatches
    <2> QED
      BY <2>1, <2>2 DEF RepliesMatch
  <1>4. OwnDecision'
    BY DEF Unlinked, TypeOK, OwnDecision
  <1>5. ReceiptsAccounted'
    BY DEF Unlinked, TypeOK, ReceiptsAccounted, BodyAccounted, Accounted
  <1>6. RequestsAtHand'
    BY DEF Unlinked, TypeOK, RequestsAtHand
  <1>7. VouchedVerify'
    BY DEF Unlinked, TypeOK, VouchedVerify
  <1>8. MadeByRuns'
    BY DEF Unlinked, MadeByRuns
  <1> QED
    BY <1>1, <1>2, <1>3, <1>4, <1>5, <1>6, <1>7, <1>8

\* The library replies to the request it was sent, in fresh memory.
LEMMA InvokeInv ==
  ASSUME IInv, NEW c \in Callers, Invoke(c)
  PROVE  IInv'
  <1> USE DEF IInv, Goto, Return
  <1>b. req[c] \in Request /\ pc[c] = "invoke"
    BY DEF Invoke, RepliesMatch, ReplyMatches
  <1>c. PICK reply \in invoke(req[c]), x \in Addresses :
          /\ heap[x] = Free
          /\ heap' = [heap EXCEPT ![x] = reply.body]
          /\ ptr' = [ptr EXCEPT ![c] = x]
          /\ status' = [status EXCEPT ![c] = reply.status]
          /\ made' = made \cup
               { ClaimOf(r) : r \in { s \in ReceiptsIn(GoValue(reply.body.value)) :
                                      s.sound /\ s.exit = "Halted(0)" } }
    BY <1>b, MarshalRoundTrip DEF Invoke
  <1>d. /\ reply = [status |-> reply.status, body |-> reply.body]
        /\ reply.status \in {0, 1, 2} /\ reply.body \in Body
    BY <1>b, Replies
  <1>e. reply.body # Free /\ reply.body # Nothing /\ x # Nothing
    BY <1>d, CallAssumption
  <1>f. \A r \in ReceiptsIn(GoValue(reply.body.value)) : r \in Receipt
    BY <1>b, OnlyProveSends
  <1>a. ASSUME NEW d \in Callers, d # c, pc[d] \in {"copy", "free"}
        PROVE  heap'[ptr[d]] = heap[ptr[d]]
    BY <1>a, <1>c DEF BuffersOwned, TypeOK
  <1>1. TypeOK'
    <2>1. \A r \in Receipt : ClaimOf(r) \in Claim
      BY DEF Receipt, ClaimOf, Claim
    <2>2. made' \subseteq Claim
      BY <1>c, <1>f, <2>1 DEF TypeOK
    <2> QED
      BY <1>b, <1>c, <1>d, <2>2 DEF Invoke, TypeOK, Label
  <1>2. BuffersOwned'
    BY <1>b, <1>c, <1>d, <1>e DEF Invoke, TypeOK, BuffersOwned, Label
  <1>3. RepliesMatch'
    <2>1. ASSUME NEW d \in Callers, d # c PROVE ReplyMatches(d)'
      BY <1>a, <2>1 DEF Invoke, TypeOK, RepliesMatch, ReplyMatches
    <2>2. ReplyMatches(c)'
      BY <1>b, <1>c, <1>d, <1>e DEF Invoke, TypeOK, RepliesMatch, ReplyMatches
    <2> QED
      BY <2>1, <2>2 DEF RepliesMatch
  <1>4. OwnDecision'
    BY <1>b, <1>c, <1>d, <1>e DEF Invoke, TypeOK, OwnDecision
  <1>5. ReceiptsAccounted'
    BY <1>b, <1>c, <1>d, <1>e DEF Invoke, TypeOK, ReceiptsAccounted, BodyAccounted, Accounted
  <1>6. RequestsAtHand'
    BY <1>b, <1>c, <1>d, <1>e DEF Invoke, TypeOK, RequestsAtHand
  <1>7. VouchedVerify'
    BY <1>b, <1>c, <1>d, <1>e DEF Invoke, TypeOK, VouchedVerify
  <1>8. MadeByRuns'
    <2>1. made \subseteq made'
      BY <1>c
    <2>2. ASSUME NEW m \in made
          PROVE  \E s \in Stdins :
                   /\ Runs[m.image][s].exit = "Halted(0)"
                   /\ Runs[m.image][s].journal = m.journal
                   /\ Runs[m.image][s].asserts \subseteq made'
      BY <2>1, <2>2 DEF MadeByRuns
    <2>3. ASSUME NEW r \in ReceiptsIn(GoValue(reply.body.value)),
                 r.sound, r.exit = "Halted(0)"
          PROVE  \E s \in Stdins :
                   /\ Runs[ClaimOf(r).image][s].exit = "Halted(0)"
                   /\ Runs[ClaimOf(r).image][s].journal = ClaimOf(r).journal
                   /\ Runs[ClaimOf(r).image][s].asserts \subseteq made'
      <3> DEFINE q == req[c]
                 run == Runs[q.guest][q.stdin]
      <3>1. /\ q \in ProveRequest /\ q.guest \in Images /\ EnvBuilds(q)
            /\ ExecutorRuns(q) /\ r \in ProverReceipts(q)
        BY <1>b, OnlyProveSends
      <3>2. /\ r.image = q.guest /\ run.exit = "Halted(0)"
            /\ run.journal = r.journal
            /\ run.asserts \subseteq Supported({ a \in q.assumptions : a.sound })
        BY <2>3, <3>1, ProverReceiptsTyped
      <3>3. q.assumptions \subseteq receipts /\ Garbage \notin q.assumptions
        BY <1>b, <3>1, NothingAssumption
        DEF RequestsAtHand, ProveRequest, EnvBuilds
      <3>4. Supported({ a \in q.assumptions : a.sound }) \subseteq made
        BY <3>3 DEF Supported, ReceiptsAccounted, Accounted
      <3>5. q.stdin \in Stdins
        BY <3>1 DEF ProveRequest
      <3>6. ClaimOf(r).image = q.guest /\ ClaimOf(r).journal = r.journal
        BY <3>2 DEF ClaimOf
      <3> QED
        BY <2>1, <3>2, <3>4, <3>5, <3>6
    <2>4. \A m \in made' : m \in made \/
            \E r \in ReceiptsIn(GoValue(reply.body.value)) :
               r.sound /\ r.exit = "Halted(0)" /\ m = ClaimOf(r)
      BY <1>c
    <2> QED
      BY <2>2, <2>3, <2>4 DEF MadeByRuns
  <1> QED
    BY <1>1, <1>2, <1>3, <1>4, <1>5, <1>6, <1>7, <1>8

\* The copy is of the reply to this call.
LEMMA CopyInv ==
  ASSUME IInv, NEW c \in Callers, Copy(c)
  PROVE  IInv'
  <1> USE DEF IInv, Goto, Return
  <1>b. /\ req[c] \in Request /\ heap[ptr[c]] \in Body
        /\ ptr[c] \in Addresses /\ heap[ptr[c]] # Free
        /\ [status |-> status[c], body |-> heap[ptr[c]]] \in invoke(req[c])
    BY CallAssumption DEF Copy, TypeOK, BuffersOwned, RepliesMatch, ReplyMatches
  <1>c. CInt(JsonLen[heap[ptr[c]]]) \in Int
    BY <1>b, CIntTyped, CallAssumption
  <1>d. [body |-> heap[ptr[c]], len |-> CInt(JsonLen[heap[ptr[c]]])] \in Copied
    BY <1>b, <1>c DEF Copied
  <1>1. TypeOK'
    BY <1>b, <1>d, CopiedAssumption DEF Copy, TypeOK, Label
  <1>2. BuffersOwned'
    BY <1>b, <1>d, CopiedAssumption DEF Copy, TypeOK, BuffersOwned, Label
  <1>3. RepliesMatch'
    <2>1. ASSUME NEW d \in Callers, d # c PROVE ReplyMatches(d)'
      BY <2>1 DEF Copy, TypeOK, RepliesMatch, ReplyMatches
    <2>2. ReplyMatches(c)'
      BY <1>b, <1>d, CopiedAssumption DEF Copy, TypeOK, RepliesMatch, ReplyMatches
    <2> QED
      BY <2>1, <2>2 DEF RepliesMatch
  <1>4. OwnDecision'
    BY <1>b, <1>d, CopiedAssumption DEF Copy, TypeOK, OwnDecision
  <1>5. ReceiptsAccounted'
    BY <1>b, <1>d, CopiedAssumption DEF Copy, TypeOK, ReceiptsAccounted, BodyAccounted, Accounted
  <1>6. RequestsAtHand'
    BY <1>b, <1>d, CopiedAssumption DEF Copy, TypeOK, RequestsAtHand
  <1>7. VouchedVerify'
    BY <1>b, <1>d, CopiedAssumption DEF Copy, TypeOK, VouchedVerify
  <1>8. MadeByRuns'
    BY <1>b, <1>d, CopiedAssumption DEF Copy, MadeByRuns
  <1> QED
    BY <1>1, <1>2, <1>3, <1>4, <1>5, <1>6, <1>7, <1>8

\* A panic loses the response and its buffer, and nothing else.
LEMMA CopyPanicsInv ==
  ASSUME IInv, NEW c \in Callers, CopyPanics(c)
  PROVE  IInv'
  <1> USE DEF IInv, Goto, Return
  <1>b. GoPanic \in Result /\ \A q : Decides(q, GoPanic)
    BY DEF GoPanic, Result, Decides
  <1>1. TypeOK'
    BY <1>b, NothingAssumption DEF CopyPanics, TypeOK, Label
  <1>2. BuffersOwned'
    BY <1>b, NothingAssumption DEF CopyPanics, TypeOK, BuffersOwned, Label
  <1>3. RepliesMatch'
    <2>1. ASSUME NEW d \in Callers, d # c PROVE ReplyMatches(d)'
      BY <2>1 DEF CopyPanics, TypeOK, RepliesMatch, ReplyMatches
    <2>2. ReplyMatches(c)'
      BY <1>b, NothingAssumption DEF CopyPanics, TypeOK, RepliesMatch, ReplyMatches
    <2> QED
      BY <2>1, <2>2 DEF RepliesMatch
  <1>4. OwnDecision'
    BY <1>b, NothingAssumption DEF CopyPanics, TypeOK, OwnDecision
  <1>5. ReceiptsAccounted'
    BY <1>b, NothingAssumption DEF CopyPanics, TypeOK, ReceiptsAccounted, BodyAccounted, Accounted
  <1>6. RequestsAtHand'
    BY <1>b, NothingAssumption DEF CopyPanics, TypeOK, RequestsAtHand
  <1>7. VouchedVerify'
    BY <1>b, NothingAssumption DEF CopyPanics, TypeOK, VouchedVerify
  <1>8. MadeByRuns'
    BY <1>b, NothingAssumption DEF CopyPanics, MadeByRuns
  <1> QED
    BY <1>1, <1>2, <1>3, <1>4, <1>5, <1>6, <1>7, <1>8

\* Freeing a buffer takes it from no one else.
LEMMA FreeBufferInv ==
  ASSUME IInv, NEW c \in Callers, FreeBuffer(c)
  PROVE  IInv'
  <1> USE DEF IInv, Goto, Return
  <1>a. ASSUME NEW d \in Callers, d # c, pc[d] \in {"copy", "free"}
        PROVE  heap'[ptr[d]] = heap[ptr[d]] /\ ptr[d] # ptr[c]
    BY <1>a DEF FreeBuffer, BuffersOwned, TypeOK
  <1>b. copied[c] = [body |-> heap[ptr[c]],
                   len  |-> CInt(JsonLen[heap[ptr[c]]])]
        /\ copied[c] # Nothing
        /\ [status |-> status[c], body |-> heap[ptr[c]]] \in invoke(req[c])
    <2>1. copied[c] = [body |-> heap[ptr[c]],
                       len  |-> CInt(JsonLen[heap[ptr[c]]])]
      BY DEF FreeBuffer, RepliesMatch, ReplyMatches
    <2>2. heap[ptr[c]] \in Body
      BY DEF FreeBuffer, TypeOK, BuffersOwned
    <2>3. CInt(JsonLen[heap[ptr[c]]]) \in Int
      BY <2>2, CIntTyped, CallAssumption
    <2>4. copied[c] \in Copied
      BY <2>1, <2>2, <2>3 DEF Copied
    <2> QED
      BY <2>1, <2>4, CopiedAssumption DEF FreeBuffer, RepliesMatch, ReplyMatches
  <1>1. TypeOK'
    BY <1>a, <1>b DEF FreeBuffer, TypeOK, Label
  <1>2. BuffersOwned'
    BY <1>a, <1>b DEF FreeBuffer, TypeOK, BuffersOwned, Label
  <1>3. RepliesMatch'
    <2>1. ASSUME NEW d \in Callers, d # c PROVE ReplyMatches(d)'
      BY <1>a, <2>1 DEF FreeBuffer, TypeOK, RepliesMatch, ReplyMatches
    <2>2. ReplyMatches(c)'
      BY <1>a, <1>b DEF FreeBuffer, TypeOK, RepliesMatch, ReplyMatches
    <2> QED
      BY <2>1, <2>2 DEF RepliesMatch
  <1>4. OwnDecision'
    BY <1>a, <1>b DEF FreeBuffer, TypeOK, OwnDecision
  <1>5. ReceiptsAccounted'
    BY <1>a, <1>b DEF FreeBuffer, TypeOK, ReceiptsAccounted, BodyAccounted, Accounted
  <1>6. RequestsAtHand'
    BY <1>a, <1>b DEF FreeBuffer, TypeOK, RequestsAtHand
  <1>7. VouchedVerify'
    BY <1>a, <1>b DEF FreeBuffer, TypeOK, VouchedVerify
  <1>8. MadeByRuns'
    BY <1>a, <1>b DEF FreeBuffer, MadeByRuns
  <1> QED
    BY <1>1, <1>2, <1>3, <1>4, <1>5, <1>6, <1>7, <1>8

\* The result is what the copy says.
LEMMA DecodeInv ==
  ASSUME IInv, NEW c \in Callers, Decode(c)
  PROVE  IInv'
  <1> USE DEF IInv, Goto, Return
  <1> DEFINE res == Decoded(status[c], copied[c])
  <1>b. req[c] \in Request /\ pc[c] = "decode"
    BY DEF Decode, RepliesMatch, ReplyMatches
  <1>c. /\ res \in Result /\ Decides(req[c], res)
        /\ ReceiptsIn(res) # {} => copied[c] # Nothing
        /\ copied[c] # Nothing =>
             /\ [status |-> status[c], body |-> copied[c].body] \in invoke(req[c])
             /\ ReceiptsIn(res) \subseteq ReceiptsIn(GoValue(copied[c].body.value))
    BY <1>b, DecodedReply, DecodedNothing
    DEF TypeOK, RepliesMatch, ReplyMatches
  <1>d. /\ result' = [result EXCEPT ![c] = res]
        /\ receipts' = receipts \cup ReceiptsIn(res)
        /\ vouched' = vouched \cup
             (IF req[c].op = "prove" /\ req[c].verify_receipt
              THEN ReceiptsIn(res) ELSE {})
        /\ res # Nothing
    BY <1>c, NothingAssumption DEF Decode
  <1>e. \A r \in ReceiptsIn(res) :
          /\ r \in Receipt
          /\ req[c].verify_receipt => ReceiptVerifies(r, r.image)
    BY <1>b, <1>c, OnlyProveSends, ProverReceiptsTyped
  <1> HIDE DEF res
  <1>1. TypeOK'
    <2>1. receipts' \subseteq Bytes /\ vouched' \subseteq Receipt
      BY <1>d, <1>e DEF TypeOK, Bytes
    <2> QED
      BY <1>c, <1>d, <2>1 DEF Decode, TypeOK, Label
  <1>2. BuffersOwned'
    BY <1>b, <1>c, <1>d DEF Decode, TypeOK, BuffersOwned, Label
  <1>3. RepliesMatch'
    <2>1. ASSUME NEW d \in Callers, d # c PROVE ReplyMatches(d)'
      BY <2>1 DEF Decode, TypeOK, RepliesMatch, ReplyMatches
    <2>2. ReplyMatches(c)'
      BY <1>b, <1>c, <1>d DEF Decode, TypeOK, RepliesMatch, ReplyMatches
    <2> QED
      BY <2>1, <2>2 DEF RepliesMatch
  <1>4. OwnDecision'
    BY <1>b, <1>c, <1>d DEF Decode, TypeOK, OwnDecision
  <1>5. ReceiptsAccounted'
    BY <1>b, <1>c, <1>d DEF Decode, TypeOK, ReceiptsAccounted, BodyAccounted, Accounted
  <1>6. RequestsAtHand'
    BY <1>b, <1>c, <1>d DEF Decode, TypeOK, RequestsAtHand
  <1>7. VouchedVerify'
    BY <1>b, <1>c, <1>d, <1>e DEF Decode, TypeOK, VouchedVerify
  <1>8. MadeByRuns'
    BY <1>b, <1>c, <1>d DEF Decode, MadeByRuns
  <1> QED
    BY <1>1, <1>2, <1>3, <1>4, <1>5, <1>6, <1>7, <1>8

-----------------------------------------------------------------------------
(* The theorems. *)

\* Every step of every caller keeps the invariant.
LEMMA NextInv == IInv /\ [Next]_vars => IInv'
  <1> SUFFICES ASSUME IInv, [Next]_vars PROVE IInv'
    OBVIOUS
  <1>1. CASE UNCHANGED vars
    BY <1>1 DEF vars, callVars, IInv, TypeOK, BuffersOwned, RepliesMatch,
                ReplyMatches, OwnDecision, ReceiptsAccounted, Accounted,
                BodyAccounted, RequestsAtHand, VouchedVerify, MadeByRuns
  <1>2. ASSUME NEW c \in Callers, Refuse(c) \/ Call(c) \/ Step(c) PROVE IInv'
    BY <1>2, RefuseInv, CallInv, UnlinkedInv, InvokeInv, CopyInv,
       CopyPanicsInv, FreeBufferInv, DecodeInv DEF Step
  <1> QED
    BY <1>1, <1>2 DEF Next

\* The inductive invariant holds for any callers, guests, receipts, lengths
\* of responses and faults of risc0.
THEOREM Invariance == Spec => []IInv
  BY InitInv, NextInv, PTL DEF Spec

\* Every variable keeps its type, whatever the library replies and however
\* the calls interleave.
THEOREM TypeCorrect == Spec => []TypeOK
  <1>1. IInv => TypeOK
    BY DEF IInv
  <1> QED
    BY <1>1, Invariance, PTL

\* Every buffer between reply and free belongs to one call, and is live.
THEOREM Ownership == Spec => []BuffersOwned
  <1>1. IInv => BuffersOwned
    BY DEF IInv
  <1> QED
    BY <1>1, Invariance, PTL

\* A caller gets what the library decided of its own request, also when
\* responses are too long for a C int or functions are missing.
THEOREM OwnResults == Spec => []OwnDecision
  <1>1. IInv => OwnDecision
    BY DEF IInv
  <1> QED
    BY <1>1, Invariance, PTL

\* A caller of Verify that got a value sent a receipt that verifies.
LEMMA VerifyValue ==
  ASSUME IInv, NEW c \in Callers, result[c] # Nothing,
         req[c].op = "verify", result[c].kind = "value"
  PROVE  /\ req[c].receipt \in Receipt /\ req[c].receipt \in receipts
         /\ ReceiptVerifies(req[c].receipt, req[c].image_id)
         /\ result[c].value.journal = req[c].receipt.journal
         /\ req[c].expected_journal \in {Nothing, req[c].receipt.journal}
  <1>1. req[c] \in Request
    BY DEF IInv, RepliesMatch, ReplyMatches
  <1>2. PICK reply \in invoke(req[c]) :
          reply.status = 0 /\ result[c].value = reply.body.value
    BY DEF IInv, OwnDecision, Decides
  <1>3. /\ req[c] \in VerifyRequest
        /\ reply.body \in Handler(req[c]) /\ reply.body.code = "ok"
    BY <1>1, <1>2, Replies, RequestKind
  <1>4. reply.body \in verify(req[c])
    BY <1>3 DEF Handler
  <1>5. req[c].receipt \in receipts
    BY <1>1, NothingAssumption DEF IInv, RequestsAtHand
  <1> QED
    BY <1>2, <1>3, <1>4, <1>5, VerifyBodies

\* A receipt that Verify accepts was made by a sound proof, of a run of that image
\* with that journal, and the journal is the expected one.
THEOREM Soundness == Spec => []VerifyMeans
  <1>1. IInv => VerifyMeans
    <2> SUFFICES ASSUME IInv, NEW c \in Callers, result[c] # Nothing,
                        req[c].op = "verify", result[c].kind = "value"
                 PROVE  LET image   == req[c].image_id
                            journal == result[c].value.journal
                        IN /\ [image |-> image, journal |-> journal] \in made
                           /\ \E s \in Stdins :
                                /\ Runs[image][s].exit = "Halted(0)"
                                /\ Runs[image][s].journal = journal
                                /\ Runs[image][s].asserts \subseteq made
                           /\ req[c].expected_journal \in {Nothing, journal}
      BY DEF VerifyMeans
    <2> DEFINE claim == [image   |-> req[c].image_id,
                         journal |-> result[c].value.journal]
    <2>1. ClaimOf(req[c].receipt) \in made
      BY VerifyValue, ReceiptAssumption
      DEF IInv, ReceiptsAccounted, Accounted, ReceiptVerifies
    <2>2. ClaimOf(req[c].receipt) = claim
      BY VerifyValue DEF ClaimOf, ReceiptVerifies
    <2>3. claim \in made /\ claim.image = req[c].image_id
          /\ claim.journal = result[c].value.journal
      BY <2>1, <2>2
    <2> HIDE DEF claim
    <2>4. \E s \in Stdins :
            /\ Runs[claim.image][s].exit = "Halted(0)"
            /\ Runs[claim.image][s].journal = claim.journal
            /\ Runs[claim.image][s].asserts \subseteq made
      BY <2>3 DEF IInv, MadeByRuns
    <2>5. req[c].expected_journal \in {Nothing, result[c].value.journal}
      BY VerifyValue
    <2> QED
      BY <2>3, <2>4, <2>5 DEF claim
  <1> QED
    BY <1>1, Invariance, PTL

\* Verify never rejects what Prove returned after its self-verification.
THEOREM RoundTrip == Spec => []ProvedVerifies
  <1>1. IInv => ProvedVerifies
    <2> SUFFICES ASSUME IInv, NEW c \in Callers, result[c] # Nothing,
                        req[c].op = "verify", req[c].receipt \in vouched,
                        req[c].image_id = req[c].receipt.image,
                        req[c].expected_journal
                          \in {Nothing, req[c].receipt.journal},
                        result[c].kind = "host_error",
                        result[c].code # "internal_error"
                 PROVE  FALSE
      BY DEF ProvedVerifies
    <2>1. req[c] \in Request
      BY DEF IInv, RepliesMatch, ReplyMatches
    <2>2. PICK reply \in invoke(req[c]) :
            reply.status = 1 /\ result[c].code = reply.body.code
      BY DEF IInv, OwnDecision, Decides
    <2>3. /\ req[c] \in VerifyRequest
          /\ reply.body \in Handler(req[c]) /\ reply.body.code # "ok"
      BY <2>1, <2>2, Replies, RequestKind
    <2>4. reply.body \in verify(req[c])
      BY <2>3 DEF Handler
    <2>5. req[c].receipt \in Receipt /\ req[c].image_id \in Images
      BY DEF IInv, TypeOK, Receipt
    <2>6. ReceiptVerifies(req[c].receipt, req[c].image_id)
      BY DEF IInv, VouchedVerify
    <2> QED
      BY <2>3, <2>4, <2>5, <2>6, VerifyBodies
  <1> QED
    BY <1>1, Invariance, PTL

-----------------------------------------------------------------------------
(* With every function linked and responses that fit a C int. *)

\* C.int keeps such a length.
LEMMA CIntKeeps ==
  ASSUME ResponsesFit, NEW b \in Body
  PROVE  CInt(JsonLen[b]) = JsonLen[b] /\ JsonLen[b] \in Nat \ {0}
  <1> DEFINE n == JsonLen[b]
  <1>1. n \in Nat \ {0} /\ n < IntMod \div 2
    BY CallAssumption DEF ResponsesFit
  <1>2. IntMod \in Nat \ {0} /\ IntMod \div 2 <= IntMod
    BY CallAssumption
  <1> HIDE DEF n
  <1>3. (n % IntMod) = n
    BY <1>1, <1>2
  <1>4. CInt(n) = n
    BY <1>1, <1>3 DEF CInt
  <1> QED
    BY <1>1, <1>4 DEF n

\* Then nothing is left behind in the heap.
LEMMA ReturnedStep ==
  ASSUME AllLinked, ResponsesFit, IInv, BuffersReturned, [Next]_vars
  PROVE  BuffersReturned'
  <1>1. CASE UNCHANGED vars
    BY <1>1 DEF vars, callVars, BuffersReturned
  <1>2. ASSUME NEW c \in Callers, Refuse(c) \/ Decode(c) PROVE BuffersReturned'
    <2>1. ptr[c] = Nothing
      BY <1>2 DEF IInv, BuffersOwned, Refuse, Decode
    <2>2. heap' = heap /\ ptr' = [ptr EXCEPT ![c] = Nothing]
      BY <1>2 DEF Refuse, Decode, Return
    <2> QED
      BY <2>1, <2>2 DEF IInv, TypeOK, BuffersReturned
  <1>3. ASSUME NEW c \in Callers, Call(c) \/ Unlinked(c) \/ Copy(c)
        PROVE  BuffersReturned'
    BY <1>3 DEF Call, Unlinked, Copy, BuffersReturned
  <1>4. ASSUME NEW c \in Callers, Invoke(c) PROVE BuffersReturned'
    <2>1. ptr[c] = Nothing
      BY <1>4 DEF IInv, BuffersOwned, Invoke
    <2>2. PICK x \in Addresses, reply \in invoke(unmarshal(marshal(req[c]))) :
            /\ heap' = [heap EXCEPT ![x] = reply.body]
            /\ ptr' = [ptr EXCEPT ![c] = x]
      BY <1>4 DEF Invoke
    <2>3. ASSUME NEW a \in Addresses, heap'[a] # Free
          PROVE  \E d \in Callers : ptr'[d] = a
      <3>1. CASE a = x
        BY <2>2, <3>1 DEF IInv, TypeOK
      <3>2. CASE a # x
        <4>1. heap[a] # Free
          BY <2>2, <2>3, <3>2 DEF IInv, TypeOK
        <4>2. PICK d \in Callers : ptr[d] = a
          BY <4>1 DEF BuffersReturned
        <4>3. d # c
          BY <2>1, <4>2, CallAssumption
        <4> QED
          BY <2>2, <4>2, <4>3 DEF IInv, TypeOK
      <3> QED
        BY <3>1, <3>2
    <2> QED
      BY <2>3 DEF BuffersReturned
  <1>5. ASSUME NEW c \in Callers, CopyPanics(c) PROVE BuffersReturned'
    <2>1. heap[ptr[c]] \in Body
      BY <1>5 DEF CopyPanics, IInv, TypeOK, BuffersOwned
    <2>2. CInt(JsonLen[heap[ptr[c]]]) >= 0
      BY <2>1, CIntKeeps
    <2> QED
      BY <1>5, <2>1, <2>2, CIntTyped, CallAssumption DEF CopyPanics
  <1>6. ASSUME NEW c \in Callers, FreeBuffer(c) PROVE BuffersReturned'
    <2>1. heap' = [heap EXCEPT ![ptr[c]] = Free]
          /\ ptr' = [ptr EXCEPT ![c] = Nothing]
      BY <1>6 DEF FreeBuffer, AllLinked
    <2>2. ASSUME NEW a \in Addresses, heap'[a] # Free
          PROVE  \E d \in Callers : ptr'[d] = a
      <3>1. a # ptr[c] /\ heap[a] # Free
        BY <2>1, <2>2 DEF IInv, TypeOK
      <3>2. PICK d \in Callers : ptr[d] = a
        BY <3>1 DEF BuffersReturned
      <3> QED
        BY <2>1, <3>1, <3>2 DEF IInv, TypeOK
    <2> QED
      BY <2>2 DEF BuffersReturned
  <1> QED
    BY <1>1, <1>2, <1>3, <1>4, <1>5, <1>6 DEF Next, Step

\* With every function linked and no response of 2 GiB or more, the library
\* gets every buffer back.
THEOREM NoLeak ==
  ASSUME AllLinked, ResponsesFit
  PROVE  Spec => []BuffersReturned
  <1>1. Init => BuffersReturned
    BY DEF Init, BuffersReturned
  <1>2. IInv /\ BuffersReturned /\ [Next]_vars => BuffersReturned'
    BY ReturnedStep
  <1> QED
    BY <1>1, <1>2, Invariance, PTL DEF Spec

-----------------------------------------------------------------------------
(* The refinement. *)

\* The promise and the code mean the same by the operators of HostCore.
LEMMA SameCore ==
  /\ \A q : Oracle!invoke(q) = invoke(q)
  /\ \A q : Oracle!Sendable(q) = Sendable(q)
  /\ \A res : Oracle!ReceiptsIn(res) = ReceiptsIn(res)
  /\ \A held : Oracle!RequestsOver(held) = RequestsOver(held)
  /\ Oracle!GoError = GoError
  /\ \A v : Oracle!GoValue(v) = GoValue(v)
  /\ \A code : Oracle!HostError(code) = HostError(code)
  <1>1. \A q : Oracle!invoke(q) = invoke(q)
    BY Zenon
    DEF Oracle!invoke, invoke, Oracle!Handler, Handler,
        Oracle!compute_image_id_hex, compute_image_id_hex, Oracle!execute,
        execute, Oracle!prove, prove, Oracle!verify, verify, Oracle!Proved,
        Proved, Oracle!ProverReceipts, ProverReceipts,
        Oracle!ReceiptVerifies, ReceiptVerifies, Oracle!ExecutorRuns,
        ExecutorRuns, Oracle!EnvBuilds, EnvBuilds, Oracle!Supported,
        Supported, Oracle!ClaimOf, ClaimOf, Oracle!Ok, Ok, Oracle!Err, Err
  <1>2. \A q : Oracle!Sendable(q) = Sendable(q)
    BY Zenon DEF Oracle!Sendable, Sendable
  <1>3. \A res : Oracle!ReceiptsIn(res) = ReceiptsIn(res)
    BY Zenon DEF Oracle!ReceiptsIn, ReceiptsIn
  <1>4. ASSUME NEW held
        PROVE  Oracle!RequestsOver(held) = RequestsOver(held)
    <2>1. /\ Oracle!Binary = Binary /\ Oracle!Kinds = Kinds
          /\ Oracle!Assumable(held) = Assumable(held)
      <3>1. Oracle!Binary = Binary /\ Oracle!Kinds = Kinds
        BY Zenon DEF Oracle!Binary, Binary, Oracle!Kinds, Kinds
      <3>2. Oracle!Assumable(held) = Assumable(held)
        BY Zenon DEF Oracle!Assumable, Assumable,
                     Oracle!Cardinality, Cardinality
      <3> QED
        BY <3>1, <3>2
    <2>2. Oracle!ComputeRequest = ComputeRequest
      BY <2>1 DEF Oracle!ComputeRequest, ComputeRequest
    <2> QED
      BY <2>1, <2>2 DEF Oracle!RequestsOver, RequestsOver
  <1>5. /\ Oracle!GoError = GoError
        /\ \A v : Oracle!GoValue(v) = GoValue(v)
        /\ \A code : Oracle!HostError(code) = HostError(code)
    BY Zenon DEF Oracle!GoError, GoError, Oracle!GoValue, GoValue,
                 Oracle!HostError, HostError
  <1> QED
    BY <1>1, <1>2, <1>3, <1>4, <1>5

\* A response that fits is decoded into the library's decision.
LEMMA DecodedDecision ==
  ASSUME ResponsesFit, NEW q \in Request, NEW st, NEW copy,
         copy # Nothing, copy.body \in Body,
         [status |-> st, body |-> copy.body] \in invoke(q),
         copy.len = CInt(JsonLen[copy.body])
  PROVE  Decoded(st, copy) = Oracle!Decision(copy.body)
  <1>1. Whole(copy)
    BY CIntKeeps DEF Whole
  <1>2. st = 0 <=> copy.body.code = "ok"
    <2> DEFINE reply == [status |-> st, body |-> copy.body]
    <2>1. reply \in invoke(q) /\ reply.status = st /\ reply.body = copy.body
      OBVIOUS
    <2> HIDE DEF reply
    <2> QED
      BY <2>1, Replies
  <1> QED
    BY <1>1, <1>2, SameCore DEF Decoded, decodeFFIError, Oracle!Decision

\* Every step of a call is a step of the promise, or hides from it.
LEMMA StepRefines ==
  ASSUME AllLinked, ResponsesFit, IInv, [Next]_vars
  PROVE  [Oracle!OracleNext]_(Oracle!oracleVars)
  <1> DEFINE waiting == { c \in Callers : pc[c] # "idle" }
  <1>1. ASSUME UNCHANGED << req, result, receipts >>, waiting' = waiting
        PROVE  [Oracle!OracleNext]_(Oracle!oracleVars)
    BY <1>1 DEF Oracle!oracleVars
  <1>2. CASE UNCHANGED vars
    BY <1>1, <1>2 DEF vars, callVars
  <1>3. ASSUME NEW c \in Callers, Refuse(c)
        PROVE  [Oracle!OracleNext]_(Oracle!oracleVars)
    <2>1. waiting' = waiting /\ c \notin waiting
      BY <1>3 DEF Refuse, Return, Goto, IInv, TypeOK
    <2>2. PICK r \in RequestsOver(receipts) :
            ~ Sendable(r) /\ req' = [req EXCEPT ![c] = r]
      BY <1>3 DEF Refuse
    <2>3. result' = [result EXCEPT ![c] = GoError] /\ receipts' = receipts
      BY <1>3 DEF Refuse, Return
    <2>4. Oracle!Refuse(c)
      BY <2>1, <2>2, <2>3, SameCore DEF Oracle!Refuse
    <2> QED
      BY <2>4 DEF Oracle!OracleNext
  <1>4. ASSUME NEW c \in Callers, Call(c)
        PROVE  [Oracle!OracleNext]_(Oracle!oracleVars)
    <2>1. waiting' = waiting \cup {c} /\ c \notin waiting
      BY <1>4 DEF Call, Goto, IInv, TypeOK
    <2>2. PICK r \in RequestsOver(receipts) :
            Sendable(r) /\ req' = [req EXCEPT ![c] = r]
      BY <1>4 DEF Call
    <2>3. result' = [result EXCEPT ![c] = Nothing] /\ receipts' = receipts
      BY <1>4 DEF Call
    <2>4. Oracle!Ask(c)
      BY <2>1, <2>2, <2>3, SameCore DEF Oracle!Ask
    <2> QED
      BY <2>4 DEF Oracle!OracleNext
  <1>5. ASSUME NEW c \in Callers, Unlinked(c)
        PROVE  [Oracle!OracleNext]_(Oracle!oracleVars)
    <2>1. req[c] \in Request
      BY <1>5 DEF Unlinked, IInv, RepliesMatch, ReplyMatches
    <2> QED
      BY <1>5, <2>1, RequestKind DEF Unlinked, AllLinked
  <1>6. ASSUME NEW c \in Callers, Invoke(c) \/ Copy(c) \/ FreeBuffer(c)
        PROVE  [Oracle!OracleNext]_(Oracle!oracleVars)
    <2>1. UNCHANGED << req, result, receipts >>
      BY <1>6 DEF Invoke, Copy, FreeBuffer
    <2>2. waiting' = waiting
      BY <1>6 DEF Invoke, Copy, FreeBuffer, Goto, IInv, TypeOK
    <2> QED
      BY <1>1, <2>1, <2>2
  <1>7. ASSUME NEW c \in Callers, CopyPanics(c)
        PROVE  [Oracle!OracleNext]_(Oracle!oracleVars)
    <2>1. heap[ptr[c]] \in Body
      BY <1>7 DEF CopyPanics, IInv, TypeOK, BuffersOwned
    <2>2. CInt(JsonLen[heap[ptr[c]]]) >= 0
      BY <2>1, CIntKeeps
    <2> QED
      BY <1>7, <2>1, <2>2, CIntTyped, CallAssumption DEF CopyPanics
  <1>8. ASSUME NEW c \in Callers, Decode(c)
        PROVE  [Oracle!OracleNext]_(Oracle!oracleVars)
    <2>1. waiting' = waiting \ {c} /\ c \in waiting
      BY <1>8 DEF Decode, Return, Goto, IInv, TypeOK
    <2>2. /\ req[c] \in Request /\ copied[c] # Nothing
          /\ [status |-> status[c], body |-> copied[c].body] \in invoke(req[c])
          /\ copied[c].len = CInt(JsonLen[copied[c].body])
      <3>1. req[c] \in Request
        BY <1>8 DEF Decode, IInv, RepliesMatch, ReplyMatches
      <3>2. req[c].op \in Linked
        BY <3>1, RequestKind DEF AllLinked
      <3> QED
        BY <1>8, <3>1, <3>2 DEF Decode, IInv, RepliesMatch, ReplyMatches
    <2>3. copied[c].body \in Body
      BY <2>2 DEF IInv, TypeOK, Copied
    <2>4. Decoded(status[c], copied[c]) = Oracle!Decision(copied[c].body)
      BY <2>2, <2>3, DecodedDecision
    <2>5. /\ result' = [result EXCEPT ![c] = Oracle!Decision(copied[c].body)]
          /\ receipts' = receipts
               \cup ReceiptsIn(Oracle!Decision(copied[c].body))
          /\ req' = req
      BY <1>8, <2>4 DEF Decode, Return
    <2>6. PICK reply \in invoke(req[c]) : reply.body = copied[c].body
      BY <2>2
    <2>7. Oracle!Answer(c)
      BY <2>1, <2>5, <2>6, SameCore DEF Oracle!Answer
    <2> QED
      BY <2>7 DEF Oracle!OracleNext
  <1> QED
    BY <1>2, <1>3, <1>4, <1>5, <1>6, <1>7, <1>8 DEF Next, Step

\* The calls implement HostOracle: each is answered once, by what the library
\* decides of its own request.
THEOREM Refinement ==
  ASSUME AllLinked, ResponsesFit
  PROVE  Spec => ImplementsHostOracle
  <1>1. Init => Oracle!OracleInit
    BY DEF Init, Oracle!OracleInit
  <1>2. IInv /\ [Next]_vars => [Oracle!OracleNext]_(Oracle!oracleVars)
    BY StepRefines
  <1> QED
    BY <1>1, <1>2, Invariance, PTL
    DEF Spec, ImplementsHostOracle, Oracle!OracleSpec

=============================================================================
