--------------------------------- MODULE Billing ---------------------------------
(***************************************************************************)
(* An invoice and its payments, as the handlers of Invoice and Payment     *)
(* change them.                                                            *)
(*                                                                         *)
(* A handler reads and checks outside any transaction, and writes later by *)
(* id.  The three handlers that create a payment do so in a transaction    *)
(* that holds the advisory lock of nextReference, which therefore also     *)
(* serialises "insert, sum up, mark the invoice".  Nothing else takes that *)
(* lock.  Statements see what is committed (READ COMMITTED).               *)
(***************************************************************************)
EXTENDS Integers, FiniteSets, FiniteSetsExt

CONSTANTS
    Requests,    \* concurrent handler invocations
    Payments,    \* room for payment rows
    Amounts,     \* amounts a payment or an invoice may have
    Mixes,       \* sets of handlers, one of which is in use in a behaviour
    MaxRef,      \* bound: references handed out
    NoRequest, NoPayment, NoRow

ASSUME BillingAssumption ==
    /\ IsFiniteSet(Payments)
    /\ Amounts \subseteq Nat \ {0}
    /\ MaxRef \in Nat
    /\ NoRequest \notin Requests
    /\ NoPayment \notin Payments

VARIABLES
    invoice,     \* its status and total
    payment,     \* [Payments -> PaymentRow \cup {NoRow}]: committed rows
    lock,        \* who holds the advisory lock reference:payment
    call,        \* [Requests -> Call]: what each invocation has read so far
    issued,      \* history: the highest reference ever handed out
    ops          \* never changes: the handlers in use

vars == <<invoice, payment, lock, call, issued, ops>>

InvoiceStatus == {"DRAFT", "SENT", "PAID", "OVERDUE", "CANCELLED"}

PaymentStatus == {"PENDING", "PENDING_APPROVAL", "PAID", "FAILED", "REFUNDED", "CANCELLED"}

PaymentRow == [ref : 1 .. MaxRef, status : PaymentStatus, amount : Amounts, linked : BOOLEAN]

ASSUME NoRowAssumption == NoRow \notin PaymentRow

Creations == {"createPayment", "recordPayment", "newProof"}

\* A handler that reads, checks, and writes what follows from its reading.
TwoStep == Creations \cup {"resubmitProof", "approve", "reject", "sendInvoice"}

Idle == [op |-> "none", at |-> "idle", target |-> NoPayment, amount |-> 0,
         status |-> "NONE", total |-> 0, ref |-> 0, covered |-> FALSE]

Init ==
    /\ invoice = [status |-> "NONE", total |-> 0]
    /\ payment = [p \in Payments |-> NoRow]
    /\ lock = NoRequest
    /\ call = [r \in Requests |-> Idle]
    /\ issued = 0
    /\ ops \in Mixes

--------------------------------------------------------------------------------
InvoiceExists == invoice.status \in InvoiceStatus

Rows == {p \in Payments : payment[p] # NoRow}

Refs == {payment[p].ref : p \in Rows}

\* _sum of the PAID payments of the invoice.
PaidSum ==
    LET paid == {p \in Rows : payment[p].linked /\ payment[p].status = "PAID"}
    IN MapThenSumSet(LAMBDA p : payment[p].amount, paid)

SetPayment(p, s) == payment' = [payment EXCEPT ![p].status = s]

SetInvoice(s) == invoice' = [invoice EXCEPT !.status = s]

\* The handler returns or throws; a transaction releases its lock with it.
Finish(r) ==
    /\ call' = [call EXCEPT ![r] = Idle]
    /\ lock' = IF lock = r THEN NoRequest ELSE lock

--------------------------------------------------------------------------------
(* Reading: the checks in front of every write *)

\* createPayment looks only for a cancelled invoice; recordPayment,
\* submitPaymentProof and sendInvoice also refuse a paid one.
Refuses(op) ==
    IF op = "createPayment" THEN {"CANCELLED"}
    ELSE IF op \in {"approve", "reject"} THEN {}
    ELSE {"PAID", "CANCELLED"}

\* The payment row a handler is about, if it is about one.
Targets(op) ==
    LET linked == {p \in Rows : payment[p].linked}
    IN IF op = "resubmitProof" THEN linked
       ELSE IF op \in {"approve", "reject"}
            THEN {p \in linked : payment[p].status = "PENDING_APPROVAL"}
            ELSE {NoPayment}

\* The amount of a proof is the invoice's total; of the others, what is sent.
AmountsFor(op) ==
    IF op \in {"createPayment", "recordPayment"} THEN Amounts
    ELSE IF op = "newProof" THEN {invoice.total} ELSE {0}

Read(r) ==
    /\ call[r] = Idle
    /\ InvoiceExists
    /\ \E op \in ops \cap TwoStep :
        /\ invoice.status \notin Refuses(op)
        /\ \E p \in Targets(op), a \in AmountsFor(op) :
            call' = [call EXCEPT ![r] =
                [Idle EXCEPT !.op = op, !.at = "read", !.target = p, !.amount = a,
                             !.status = invoice.status, !.total = invoice.total]]
    /\ UNCHANGED <<invoice, payment, lock, issued, ops>>

--------------------------------------------------------------------------------
(* The transactions that create a payment *)

MayLock(r) == lock = NoRequest

\* nextReference, then the insert, which also locks the invoice row against
\* deletion (foreign key).
Insert(r) ==
    LET ref == Max(Refs \cup {0}) + 1 IN
    /\ call[r].at = "read" /\ call[r].op \in Creations
    /\ MayLock(r)
    /\ ref <= MaxRef
    /\ IF InvoiceExists
       THEN /\ lock' = r
            /\ call' = [call EXCEPT ![r].at = IF call[r].op = "newProof" THEN "summed" ELSE "inserted",
                                    ![r].ref = ref]
            /\ issued' = Max({issued, ref})
       ELSE Finish(r) /\ UNCHANGED issued
    /\ UNCHANGED <<invoice, payment, ops>>

\* Mutation of Covers: only the new payment is compared with the total.
CoversAlone(c) == c.amount >= c.total

\* Mutation of Covers: the sum is taken before the payment is inserted.
CoversBefore(c) ==
    IF c.op = "recordPayment" THEN PaidSum >= c.total
    ELSE invoice.status # "PAID" /\ PaidSum >= invoice.total

\* recordPayment compares with the total it read before the transaction.
Covers(c) ==
    IF c.op = "recordPayment" THEN PaidSum + c.amount >= c.total
    ELSE invoice.status # "PAID" /\ PaidSum + c.amount >= invoice.total

Sum(r) ==
    /\ call[r].at = "inserted"
    /\ call' = [call EXCEPT ![r].at = "summed", ![r].covered = Covers(call[r])]
    /\ UNCHANGED <<invoice, payment, lock, issued, ops>>

\* The invoice's row is written, and the transaction commits.  A duplicate
\* reference is refused by the unique index.
Commit(r) ==
    LET c == call[r] IN
    /\ c.at = "summed"
    /\ IF c.ref \in Refs
       THEN UNCHANGED <<invoice, payment>>
       ELSE /\ \E p \in Payments \ Rows :
                payment' = [payment EXCEPT ![p] =
                    [ref |-> c.ref, amount |-> c.amount, linked |-> TRUE,
                     status |-> IF c.op = "newProof" THEN "PENDING_APPROVAL" ELSE "PAID"]]
            /\ \/ c.covered /\ SetInvoice("PAID")
               \/ ~c.covered /\ c.op = "recordPayment" /\ SetInvoice("SENT")
               \/ ~c.covered /\ c.op # "recordPayment" /\ UNCHANGED invoice
    /\ Finish(r)
    /\ UNCHANGED <<issued, ops>>

--------------------------------------------------------------------------------
(* The other writes after a read *)

\* A new proof of a payment that is there already, whatever its status.
ResubmitProof(r) ==
    /\ call[r].op = "resubmitProof"
    /\ IF call[r].target \in Rows
       THEN SetPayment(call[r].target, "PENDING_APPROVAL")
       ELSE UNCHANGED payment
    /\ Finish(r)
    /\ UNCHANGED <<invoice, issued, ops>>

\* Both rows are updated by id, or neither if one of them is gone.
Approve(r) ==
    /\ call[r].op = "approve"
    /\ IF InvoiceExists /\ call[r].target \in Rows
       THEN SetPayment(call[r].target, "PAID") /\ SetInvoice("PAID")
       ELSE UNCHANGED <<payment, invoice>>
    /\ Finish(r)
    /\ UNCHANGED <<issued, ops>>

Reject(r) ==
    /\ call[r].op = "reject"
    /\ IF call[r].target \in Rows
       THEN SetPayment(call[r].target, "FAILED")
       ELSE UNCHANGED payment
    /\ Finish(r)
    /\ UNCHANGED <<invoice, issued, ops>>

\* The status written is the one that was read, except that a draft is sent.
Send(r) ==
    /\ call[r].op = "sendInvoice"
    /\ IF InvoiceExists
       THEN SetInvoice(IF call[r].status = "DRAFT" THEN "SENT" ELSE call[r].status)
       ELSE UNCHANGED invoice
    /\ Finish(r)
    /\ UNCHANGED <<payment, issued, ops>>

--------------------------------------------------------------------------------
(* Handlers that write at once: what they checked, the write checks again *)

CreateInvoice ==
    /\ invoice.status = "NONE"
    /\ \E a \in Amounts : invoice' = [status |-> "DRAFT", total |-> a]
    /\ UNCHANGED <<payment, lock, call, issued, ops>>

\* PATCH of the invoice: its total and its status, unchecked.
UpdateInvoice ==
    /\ "updateInvoice" \in ops
    /\ InvoiceExists
    /\ \E s \in InvoiceStatus, a \in Amounts : invoice' = [status |-> s, total |-> a]
    /\ UNCHANGED <<payment, lock, call, issued, ops>>

UpdateInvoiceStatus ==
    /\ "updateInvoiceStatus" \in ops
    /\ InvoiceExists
    /\ \E s \in InvoiceStatus : SetInvoice(s)
    /\ UNCHANGED <<payment, lock, call, issued, ops>>

\* The payments stay, no longer linked.
DeleteInvoice ==
    /\ "deleteInvoice" \in ops
    /\ InvoiceExists
    /\ \A r \in Requests : call[r].at \notin {"inserted", "summed"}
    /\ invoice' = [invoice EXCEPT !.status = "DELETED"]
    /\ payment' = [p \in Payments |->
                     IF p \in Rows THEN [payment[p] EXCEPT !.linked = FALSE] ELSE NoRow]
    /\ UNCHANGED <<lock, call, issued, ops>>

UpdatePayment ==
    /\ "updatePayment" \in ops
    /\ \E p \in Rows, s \in PaymentStatus, a \in Amounts :
        payment' = [payment EXCEPT ![p].status = s, ![p].amount = a]
    /\ UNCHANGED <<invoice, lock, call, issued, ops>>

DeletePayment ==
    /\ "deletePayment" \in ops
    /\ \E p \in Rows : payment' = [payment EXCEPT ![p] = NoRow]
    /\ UNCHANGED <<invoice, lock, call, issued, ops>>

\* The daily job selects due invoices, then updates those still SENT.
MarkOverdue ==
    /\ invoice.status = "SENT"
    /\ SetInvoice("OVERDUE")
    /\ UNCHANGED <<payment, lock, call, issued, ops>>

--------------------------------------------------------------------------------
Handle(r) ==
    \/ Read(r) \/ Insert(r) \/ Sum(r) \/ Commit(r)
    \/ ResubmitProof(r) \/ Approve(r) \/ Reject(r) \/ Send(r)

Next ==
    \/ \E r \in Requests : Handle(r)
    \/ CreateInvoice \/ UpdateInvoice \/ UpdateInvoiceStatus \/ DeleteInvoice
    \/ UpdatePayment \/ DeletePayment \/ MarkOverdue

Spec == Init /\ [][Next]_vars

--------------------------------------------------------------------------------
(* Properties *)

\* Every variable has its type, and the lock is held by the transactions.
TypeOK ==
    /\ invoice \in [status : InvoiceStatus \cup {"NONE", "DELETED"}, total : Amounts \cup {0}]
    /\ payment \in [Payments -> PaymentRow \cup {NoRow}]
    /\ lock \in Requests \cup {NoRequest}
    /\ issued \in 0 .. MaxRef
    /\ ops \in Mixes
    /\ \A r \in Requests :
        /\ call[r].op \in TwoStep \cup {"none"}
        /\ call[r].at \in {"idle", "read", "inserted", "summed"}
        /\ call[r].at \in {"inserted", "summed"} <=> lock = r

\* The reference a transaction has computed is still free when it commits: the
\* unique index never turns a payment away, whatever the office does meanwhile.
ReferenceStaysFree ==
    \A r \in Requests : call[r].at \in {"inserted", "summed"} => call[r].ref \notin Refs

\* As long as payments only come in (createPayment, recordPayment, proofs not yet
\* decided), the invoice is PAID exactly when the PAID payments cover it: two
\* part payments that arrive at once do not both miss the other.
PaidExactlyWhenCovered ==
    ops \subseteq Creations /\ InvoiceExists => (invoice.status = "PAID" <=> PaidSum >= invoice.total)

\* ... and no late part payment takes PAID back.
PaidIsNeverUndone ==
    [][ops \subseteq Creations /\ invoice.status = "PAID" => invoice'.status = "PAID"]_vars

--------------------------------------------------------------------------------
(* Claims the code does not keep: see the README. *)

\* sendInvoice moves an invoice to SENT if it is still a draft, and leaves every
\* other status alone.
SendMovesOnlyDrafts ==
    [][\A r \in Requests : Send(r) => invoice.status \in {"DRAFT", invoice'.status}]_vars

\* Recording a payment marks the invoice PAID only if it is fully covered.
MarkedPaidOnlyWhenCovered ==
    [][\A r \in Requests :
        Commit(r) /\ invoice.status # "PAID" /\ invoice'.status = "PAID"
            => PaidSum' >= invoice'.total]_vars

\* No payment is recorded on a cancelled invoice.
CancelledTakesNoPayment ==
    [][\A r \in Requests : Commit(r) /\ call[r].op # "newProof" => invoice.status # "CANCELLED"]_vars

\* A proof that was approved or rejected is not decided again.
DecidedOnce ==
    [][\A r \in Requests : (Approve(r) \/ Reject(r)) /\ call[r].target \in Rows
            => payment[call[r].target].status = "PENDING_APPROVAL"]_vars

================================================================================
