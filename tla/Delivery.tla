------------------------------- MODULE Delivery -------------------------------
(***************************************************************************)
(* What leaves the system: the preview page, the PDF and the e-mail of an  *)
(* invoice.  The handlers read the invoice, the Delivery reads it again    *)
(* and then the settings, renders with typst and mails, while other        *)
(* requests delete the invoice or save the settings.  Each read of an      *)
(* invoice is two queries, for the row and for its lines.                  *)
(*                                                                         *)
(* The hours of entries and the rates may have any number of digits: they  *)
(* are counted in parts of a hundredth of an hour and of a penny.  A line  *)
(* stores hundredths of hours, its rate, and an amount in pence, which the *)
(* database computes from what the entries say.  The typst template        *)
(* computes the amounts again, from whole minutes and a rate in pence.  An *)
(* address is the sequence of its non-empty lines; a field that is not     *)
(* filled in is Blank.                                                     *)
(***************************************************************************)
EXTENDS Integers, Sequences, FiniteSets, SequencesExt

CONSTANTS
  Requests,      \* requests to show, download or send an invoice
  Ids,           \* ids of invoices: 1 .. n
  Parties,       \* what the settings may say: business address and customer
  Fine,          \* parts of a hundredth of an hour, and of a penny
  LineLists,     \* the lines an invoice may have: what was worked, at what price
  Blank,         \* an empty field of the settings
  MaxDelivered   \* bound: documents delivered

Kinds == {"preview", "pdf", "send"}

ASSUME LinesAssumption ==
  /\ Fine \in Nat \ {0}
  /\ \A ls \in LineLists : ls # <<>> /\ ls \in Seq([worked : Nat \ {0}, price : Nat \ {0}])

VARIABLES
  invoices,   \* the rows of invoices that were ever issued, in the order of ids
  settings,   \* the settings table
  smtp,       \* SMTP_HOST and SMTP_FROM are set
  req,        \* what each request does
  delivered   \* pages, PDFs and e-mails that left the system

vars == <<invoices, settings, smtp, req, delivered>>

-----------------------------------------------------------------------------
\* ROUND(x, 2), math.Round, %.2f and calc.round(x, digits: 2) of n / d, in whole
\* units.  In floating point a tie may go down as well.
Rounded(n, d) == (2 * n + d) \div (2 * d)

\* queryInvoiceLinesTx: the hours and the amount that a line stores, each rounded
\* from the sums over its entries.
Hours(line)  == Rounded(line.worked, Fine)
Amount(line) == Rounded(line.worked * line.price, 100 * Fine * Fine)

SumOf(seq) == FoldSeq(LAMBDA x, y : x + y, 0, seq)
Total(ls)  == SumOf([i \in DOMAIN ls |-> Amount(ls[i])])

\* Mutant: the minutes of a line are cut off.
DurMinCut(line) == (Hours(line) * 60) \div 100

\* BuildPDFData: the minutes of a line; FormatInvoiceTyp: its rate, with two
\* digits; invoice-maker.typ: its total.  A line of no minutes costs its price,
\* which FormatInvoiceTyp never writes: 0.
DurMin(line)    == Rounded(Hours(line) * 60, 100)
PDFRate(line)   == Rounded(line.price, Fine)
LineTotal(line) == Rounded(DurMin(line) * PDFRate(line), 60)
PDFTotal(ls)    == SumOf([i \in DOMAIN ls |-> LineTotal(ls[i])])

\* ParseAddress: the last of three lines or more is the postal code, the one
\* before it the city.
ParseAddress(parts) ==
  LET n == Len(parts)
  IN  [street |-> IF n = 0 THEN <<>> ELSE IF n < 3 THEN <<parts[1]>> ELSE SubSeq(parts, 1, n - 2),
       city   |-> IF n < 2 THEN Blank ELSE IF n = 2 THEN parts[2] ELSE parts[n - 1],
       postal |-> IF n < 3 THEN Blank ELSE parts[n]]

FirstFilled(values) ==
  LET filled == SelectSeq(values, LAMBDA v : v \notin {Blank, <<>>})
  IN  IF filled = <<>> THEN Blank ELSE filled[1]

\* BuildPDFData: who the PDF is addressed to.  Fields of the settings go before
\* those of the customer's address, and those before the business's own.
Recipient(business, customer) ==
  LET theirs == ParseAddress(customer.address)
      ours   == ParseAddress(business)
  IN  [name   |-> customer.name,
       street |-> FirstFilled(<<theirs.street, ours.street>>),
       city   |-> FirstFilled(<<customer.city, theirs.city, ours.city>>),
       postal |-> FirstFilled(<<customer.postal, theirs.postal, ours.postal>>)]

-----------------------------------------------------------------------------
Idle == [at |-> "idle"]
Goto(r, x) == req' = [req EXCEPT ![r] = x]

\* GetInvoice finds a row; its lines are there, or the DELETE was cascaded to
\* them.
Found(id)   == id \in DOMAIN invoices /\ invoices[id].row
LinesOf(id) == IF invoices[id].children THEN invoices[id].lines ELSE <<>>

Init ==
  /\ invoices = <<>>
  /\ settings \in Parties
  /\ smtp \in BOOLEAN
  /\ req = [r \in Requests |-> Idle]
  /\ delivered = {}

\* GenerateInvoice: the invoice stores the settings of the moment.
Issue(ls) ==
  /\ Len(invoices) + 1 \in Ids
  /\ invoices' = Append(invoices, [lines |-> ls, total |-> Total(ls), party |-> settings,
                                   row |-> TRUE, children |-> TRUE])
  /\ UNCHANGED <<settings, smtp, req, delivered>>

\* DeleteInvoice.  The lines go with the invoice if the connection enforces
\* foreign keys.
Delete(id, cascade) ==
  /\ Found(id)
  /\ invoices' = [invoices EXCEPT ![id].row = FALSE, ![id].children = ~ cascade]
  /\ UNCHANGED <<settings, smtp, req, delivered>>

SaveSettings ==
  /\ settings' \in Parties \ {settings}
  /\ UNCHANGED <<invoices, smtp, req, delivered>>

-----------------------------------------------------------------------------
\* A request arrives: the handler reads the row of the invoice.  Without one the
\* answer is 404, and nothing changes.
Arrive(r, kind, id) ==
  /\ req[r] = Idle
  /\ Found(id)
  /\ Goto(r, [at |-> "lines", kind |-> kind, id |-> id, again |-> FALSE])
  /\ UNCHANGED <<invoices, settings, smtp, delivered>>

Document(kind, id, to, recipient, lines, total) ==
  [kind |-> kind, id |-> id, to |-> to, recipient |-> recipient, lines |-> lines, total |-> total]

Deliver(doc) ==
  /\ doc \in delivered \/ Cardinality(delivered) < MaxDelivered
  /\ delivered' = delivered \cup {doc}

\* The lines of the row.  The preview shows them, with the total and the customer
\* of the row; of the other reads the first is dropped, and the second goes on
\* to the settings.
ReadLines(r) ==
  LET q == req[r]
      i == invoices[q.id]
  IN  /\ q.at = "lines"
      /\ \/ /\ q.kind = "preview"
            /\ Deliver(Document("preview", q.id, Blank, Recipient(i.party.business, i.party.customer),
                                LinesOf(q.id), i.total))
            /\ Goto(r, Idle)
         \/ /\ q.kind # "preview" /\ ~ q.again
            /\ Goto(r, [q EXCEPT !.at = "row"])
            /\ UNCHANGED delivered
         \/ /\ q.again
            /\ Goto(r, [at |-> "settings", kind |-> q.kind, id |-> q.id, lines |-> LinesOf(q.id)])
            /\ UNCHANGED delivered
      /\ UNCHANGED <<invoices, settings, smtp>>

\* RenderPDF, Send: GetInvoice again.
ReadAgain(r) ==
  /\ req[r].at = "row"
  /\ Found(req[r].id)
  /\ Goto(r, [req[r] EXCEPT !.at = "lines", !.again = TRUE])
  /\ UNCHANGED <<invoices, settings, smtp, delivered>>

\* RenderPDF, Send: LoadSettings.  An e-mail needs a recipient and a server.
LoadSettings(r) ==
  LET q == req[r]
      party == [business |-> invoices[q.id].party.business, customer |-> settings.customer]
  IN  /\ q.at = "settings"
      /\ q.kind = "send" => settings.customer.email # Blank /\ smtp
      /\ Goto(r, [at |-> "rendering", kind |-> q.kind, id |-> q.id, lines |-> q.lines, party |-> party])
      /\ UNCHANGED <<invoices, settings, smtp, delivered>>

\* The PDF of a request that has its invoice and its settings.
PDF(q) == Document(q.kind, q.id, Blank, Recipient(q.party.business, q.party.customer), q.lines, PDFTotal(q.lines))

\* Mutant: the template sums no rows to 0.
RenderEmpty(r) ==
  LET q == req[r]
  IN  /\ q.at = "rendering"
      /\ IF q.kind = "pdf" THEN Deliver(PDF(q)) /\ Goto(r, Idle)
         ELSE Goto(r, [q EXCEPT !.at = "mailing"]) /\ UNCHANGED delivered
      /\ UNCHANGED <<invoices, settings, smtp>>

\* typst compiles.  The sum of no rows is an error there: an invoice without
\* lines has no PDF.  The download ends here.
Render(r) ==
  LET q == req[r]
  IN  /\ q.at = "rendering"
      /\ q.lines # <<>>
      /\ IF q.kind = "pdf" THEN Deliver(PDF(q)) /\ Goto(r, Idle)
         ELSE Goto(r, [q EXCEPT !.at = "mailing"]) /\ UNCHANGED delivered
      /\ UNCHANGED <<invoices, settings, smtp>>

\* Mutant: the recipient is read from the settings again.
MailCurrent(r) ==
  LET q == req[r]
  IN  /\ q.at = "mailing"
      /\ Deliver([PDF(q) EXCEPT !.to = settings.customer.email])
      /\ Goto(r, Idle)
      /\ UNCHANGED <<invoices, settings, smtp>>

\* The mail server takes the message.  Whether its answer comes back decides only
\* what the page says: "Invoice sent to ..." or "Send failed".
Mail(r) ==
  LET q == req[r]
  IN  /\ q.at = "mailing"
      /\ Deliver([PDF(q) EXCEPT !.to = q.party.customer.email])
      /\ Goto(r, Idle)
      /\ UNCHANGED <<invoices, settings, smtp>>

\* A query, the rendering or the mail server fails, the invoice is gone, the
\* settings have no recipient, the page of the answer is closed, or the process
\* dies: the request ends without a document.
Ends(r) ==
  /\ req[r] # Idle
  /\ Goto(r, Idle)
  /\ UNCHANGED <<invoices, settings, smtp, delivered>>

Next ==
  \/ \E ls \in LineLists : Issue(ls)
  \/ \E id \in Ids, cascade \in BOOLEAN : Delete(id, cascade)
  \/ SaveSettings
  \/ \E r \in Requests :
       \/ \E kind \in Kinds, id \in Ids : Arrive(r, kind, id)
       \/ ReadLines(r) \/ ReadAgain(r) \/ LoadSettings(r) \/ Render(r)
       \/ Mail(r) \/ Ends(r)

Spec == Init /\ [][Next]_vars

-----------------------------------------------------------------------------
PDFs == {d \in delivered : d.kind # "preview"}

\* A PDF that reaches a customer has all the lines of its invoice, although the
\* invoice may be deleted between the query for the row and that for the lines.
DeliveredWhole == \A d \in PDFs : d.lines = invoices[d.id].lines

\* A PDF and its e-mail are for one customer: the address printed and the address
\* written to are those of one state of the settings, saved meanwhile or not.
OneCustomer ==
  \A d \in delivered : d.kind = "send" =>
    \E p \in Parties :
      /\ p.customer.email = d.to
      /\ d.recipient = Recipient(invoices[d.id].party.business, p.customer)

\* What a line may lose or gain by being computed twice: a penny for the two
\* amounts, 48 seconds' rate for the hours, which are rounded to hundredths and
\* then to minutes, and half a penny an hour for a rate that is not in pence.
Slack(line) ==
  600 * Fine + 8 * line.price + (IF line.price % Fine = 0 THEN 0 ELSE 5 * Fine * DurMin(line))

\* Hours in steps of three minutes at a rate in pence, and an amount that is not
\* half a penny, which floating point may round to either side.
Even(line) ==
  /\ line.worked % (5 * Fine) = 0
  /\ line.price % Fine = 0
  /\ (line.worked * line.price) % (100 * Fine * Fine) # 50 * Fine * Fine

\* What the customer reads differs from what the invoice stores by no more than
\* the roundings on both ways, however precise hours and rates are; lines in even
\* steps come out to the penny.
TotalWithinRounding ==
  \A d \in PDFs :
    LET slack == SumOf([i \in DOMAIN d.lines |-> Slack(d.lines[i])])
        diff  == 600 * Fine * (d.total - invoices[d.id].total)
    IN  /\ diff <= slack /\ -slack <= diff
        /\ (\A i \in DOMAIN d.lines : Even(d.lines[i])) => diff = 0

\* "The invoice record stores a snapshot of the current settings": what is
\* delivered of an invoice names the customer it was issued to, as its page does.
CustomerOfTheInvoice ==
  \A d \in delivered :
    d.recipient = Recipient(invoices[d.id].party.business, invoices[d.id].party.customer)

=============================================================================
