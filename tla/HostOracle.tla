----------------------------- MODULE HostOracle -----------------------------
(***************************************************************************)
(* What package host promises of its operations, with no JSON, no buffers  *)
(* and no C: a call is answered, once, with what the library decides of    *)
(* this caller's own request.                                              *)
(***************************************************************************)
EXTENDS HostCore

VARIABLES
    asked,    \* the last request of each caller, or Nothing
    waiting,  \* the callers whose call has not returned
    answer,   \* the result of the last call
    receipts  \* the receipts the application holds

oracleVars == << asked, waiting, answer, receipts >>

OracleInit ==
    /\ asked = [c \in Callers |-> Nothing]
    /\ waiting = {}
    /\ answer = [c \in Callers |-> Nothing]
    /\ receipts = Foreign

Ask(c) ==
    /\ c \notin waiting
    /\ \E req \in RequestsOver(receipts) :
        /\ Sendable(req)
        /\ asked' = [asked EXCEPT ![c] = req]
    /\ waiting' = waiting \cup {c}
    /\ answer' = [answer EXCEPT ![c] = Nothing]
    /\ UNCHANGED receipts

Refuse(c) ==
    /\ c \notin waiting
    /\ \E req \in RequestsOver(receipts) :
        /\ ~ Sendable(req)
        /\ asked' = [asked EXCEPT ![c] = req]
    /\ answer' = [answer EXCEPT ![c] = GoError]
    /\ UNCHANGED << waiting, receipts >>

\* A body is a value or an error; nothing else tells which.
Decision(body) ==
    IF body.code = "ok" THEN GoValue(body.value) ELSE HostError(body.code)

Answer(c) ==
    /\ c \in waiting
    /\ \E reply \in invoke(asked[c]) :
        /\ answer' = [answer EXCEPT ![c] = Decision(reply.body)]
        /\ receipts' = receipts \cup ReceiptsIn(Decision(reply.body))
    /\ waiting' = waiting \ {c}
    /\ UNCHANGED asked

OracleNext == \E c \in Callers : Ask(c) \/ Refuse(c) \/ Answer(c)

OracleSpec == OracleInit /\ [][OracleNext]_oracleVars

=============================================================================
