-------------------------------- MODULE MCSales --------------------------------
(***************************************************************************)
(* From the enquiry to the payment on a small instance: a behaviour is     *)
(* about enquiries, leads and clients (Intake), about the offers, with no  *)
(* invoice yet (ClientOffers), about an invoice and its payments (Billing),*)
(* or about the figures of it all (Figures).  No two of them meet in a     *)
(* behaviour, so they share the model values of the symmetry sets.         *)
(***************************************************************************)
EXTENDS ClientOffers, Billing, Intake, Figures, TLC

ByClients == {"update", "publish", "answer", "convertToBooking", "convertToQuote", "convertToJob"}

\* The office leaves decisions to the client, or sets statuses and deletes as well.
Offers == {{}, ByClients, ByClients \cup {"updateStatus", "delete"}}

\* Payments come in and nobody corrects records; payments are recorded while the
\* office corrects and deletes records; proofs are decided; the invoice is sent and
\* edited.
Invoices == {
    {},
    Creations,
    {"createPayment", "updatePayment", "deletePayment", "deleteInvoice"},
    {"newProof", "resubmitProof", "approve", "reject"},
    {"newProof", "sendInvoice", "updateInvoice", "updateInvoiceStatus"}}

\* Visitors and the office enter people at once, some connections are lost, and the
\* office edits, deletes and converts them; estimate requests are repeated while
\* the office reviews them.
Enquiries == {
    {},
    {"contact", "create", "abort"},
    {"contact", "edit", "delete"},
    {"create", "edit", "stage", "convert"},
    {"contact", "stage", "convert", "inbox", "client"},
    {"submit", "review", "form", "inbox", "abort"}}

Symmetry == Permutations(Clients) \cup Permutations(Requests) \cup Permutations(Payments)

Part == {mix \in {<<"offers", offerOps>>, <<"invoice", ops>>, <<"intake", intake>>} : mix[2] # {}}

SalesInit ==
    /\ OffersInit /\ Init /\ InitIntake
    /\ \/ Cardinality(Part) = 1 /\ InitFigures({"none"})
       \/ Part = {} /\ InitFigures(Abouts)

SalesNext ==
    \/ offerOps # {} /\ OffersNext /\ UNCHANGED <<vars, intakeVars, figureVars>>
    \/ ops # {} /\ Next /\ UNCHANGED <<offerVars, intakeVars, figureVars>>
    \/ intake # {} /\ IntakeNext /\ UNCHANGED <<offerVars, vars, figureVars>>
    \/ view.about \in Abouts /\ FiguresNext /\ UNCHANGED <<offerVars, vars, intakeVars>>

SalesSpec == SalesInit /\ [][SalesNext]_<<offerVars, vars, intakeVars, figureVars>>
================================================================================
