---------------------------- MODULE DeliveryProofs ----------------------------
(***************************************************************************)
(* What leaves the system is whole and for one customer, for any number of *)
(* requests, invoices and settings; and what the template makes of a line  *)
(* of any hours and rate.                                                  *)
(***************************************************************************)
EXTENDS Delivery, Sums

\* What a request has in its hands when it renders or mails: the lines of its
\* invoice or none, the business of the invoice, and one state of the settings.
HasLines(q) == q.lines = <<>> \/ q.lines = invoices[q.id].lines

HasCustomer(q) ==
  /\ q.party.business = invoices[q.id].party.business
  /\ \E p \in Parties : q.party.customer = p.customer

Carries(r) ==
  LET q == req[r]
  IN  /\ q.at # "idle" => q.id \in DOMAIN invoices
      /\ q.at \in {"settings", "rendering", "mailing"} => HasLines(q)
      /\ q.at \in {"rendering", "mailing"} => HasCustomer(q)
      /\ q.at = "mailing" => q.lines # <<>> /\ q.kind = "send"
      /\ q.at = "lines" => q.kind \in Kinds /\ (q.again => q.kind # "preview")
      /\ q.at \in {"row", "settings", "rendering"} => q.kind \in {"pdf", "send"}

Invoice == [lines : LineLists, total : {Total(ls) : ls \in LineLists}, party : Parties,
            row : BOOLEAN, children : BOOLEAN]

\* Invoices are appended, and only their presence changes.
Records ==
  /\ settings \in Parties
  /\ invoices \in Seq(Invoice)
  /\ \A d \in delivered : d.id \in DOMAIN invoices
  /\ DOMAIN req = Requests

IInv ==
  /\ Records
  /\ \A r \in Requests : Carries(r)
  /\ DeliveredWhole
  /\ OneCustomer

LEMMA InitIInv == Init => IInv
<1> SUFFICES ASSUME Init PROVE IInv
  OBVIOUS
<1>1. Records
  BY DEF Init, Records
<1>2. ASSUME NEW r \in Requests PROVE Carries(r)
  BY DEF Init, Carries, Idle
<1>3. DeliveredWhole /\ OneCustomer
  BY DEF Init, DeliveredWhole, OneCustomer, PDFs
<1> QED
  BY <1>1, <1>2, <1>3 DEF IInv

\* The lines and the party of an invoice never change.
Same(id) ==
  /\ id \in DOMAIN invoices'
  /\ invoices'[id].lines = invoices[id].lines
  /\ invoices'[id].party = invoices[id].party

\* Nobody has delivered, and what the requests carry is as good as before.
LEMMA OthersKeep ==
  ASSUME IInv, Records', UNCHANGED <<req, delivered>>,
         \A id \in DOMAIN invoices : Same(id)
  PROVE  IInv'
<1>1. ASSUME NEW r \in Requests PROVE Carries(r)'
  <2>1. Carries(r)
    BY DEF IInv
  <2>2. req[r].at # "idle" => Same(req[r].id)
    BY <2>1 DEF Carries
  <2> QED
    BY <2>1, <2>2 DEF Carries, HasLines, HasCustomer, Same
<1>2. \A d \in delivered : Same(d.id)
  BY DEF IInv, Records
<1>3. DeliveredWhole'
  BY <1>2 DEF IInv, DeliveredWhole, PDFs, Same
<1>4. OneCustomer'
  BY <1>2 DEF IInv, OneCustomer, Same
<1> QED
  BY <1>1, <1>3, <1>4 DEF IInv

\* A request goes on, and delivers nothing or a document as it should be.
Good(d) ==
  /\ d.id \in DOMAIN invoices
  /\ d.kind # "preview" => d.lines = invoices[d.id].lines
  /\ d.kind = "send" =>
       \E p \in Parties :
         /\ p.customer.email = d.to
         /\ d.recipient = Recipient(invoices[d.id].party.business, p.customer)

LEMMA RequestKeeps ==
  ASSUME IInv, UNCHANGED <<invoices, settings>>, NEW r \in Requests,
         NEW x, req' = [req EXCEPT ![r] = x], Carries(r)',
         delivered' = delivered \/ \E d : Good(d) /\ delivered' = delivered \cup {d}
  PROVE  IInv'
<1>1. ASSUME NEW p \in Requests PROVE Carries(p)'
  <2>1. p # r => req'[p] = req[p]
    BY DEF IInv, Records
  <2>2. Carries(p)
    BY DEF IInv
  <2> QED
    BY <2>1, <2>2 DEF Carries, HasLines, HasCustomer
<1>2. \A d \in delivered' : d \in delivered \/ Good(d)
  OBVIOUS
<1>3. DeliveredWhole'
  BY <1>2 DEF IInv, DeliveredWhole, PDFs, Good
<1>4. OneCustomer'
  BY <1>2 DEF IInv, OneCustomer, Good
<1>5. Records'
  BY <1>2 DEF IInv, Records, Good
<1> QED
  BY <1>1, <1>3, <1>4, <1>5 DEF IInv

LEMMA DocumentFields ==
  ASSUME NEW kind, NEW id, NEW to, NEW recipient, NEW lines, NEW total
  PROVE  LET d == Document(kind, id, to, recipient, lines, total)
         IN  d.kind = kind /\ d.id = id /\ d.to = to /\ d.recipient = recipient /\ d.lines = lines
BY DEF Document

LEMMA NextIInv == IInv /\ [Next]_vars => IInv'
<1> SUFFICES ASSUME IInv, [Next]_vars PROVE IInv'
  OBVIOUS
<1>a. /\ invoices \in Seq(Invoice) /\ settings \in Parties /\ DOMAIN req = Requests
      /\ \A r \in Requests : Carries(r)
  BY DEF IInv, Records
<1>1. ASSUME NEW ls \in LineLists, Issue(ls) PROVE IInv'
  <2> DEFINE new == [lines |-> ls, total |-> Total(ls), party |-> settings, row |-> TRUE, children |-> TRUE]
  <2>1. new \in Invoice
    BY <1>a DEF Invoice
  <2>2. invoices' = Append(invoices, new) /\ UNCHANGED <<settings, req, delivered>>
    BY <1>1 DEF Issue
  <2> HIDE DEF new
  <2>3. invoices' \in Seq(Invoice) /\ \A id \in DOMAIN invoices : id \in DOMAIN invoices' /\ invoices'[id] = invoices[id]
    BY <1>a, <2>1, <2>2
  <2>4. Records'
    BY <2>2, <2>3 DEF IInv, Records
  <2> QED
    BY <2>2, <2>3, <2>4, OthersKeep DEF Same
<1>2. ASSUME NEW id \in Ids, NEW cascade \in BOOLEAN, Delete(id, cascade) PROVE IInv'
  <2>1. /\ id \in DOMAIN invoices /\ UNCHANGED <<settings, req, delivered>>
        /\ invoices' = [invoices EXCEPT ![id] = [invoices[id] EXCEPT !.row = FALSE, !.children = ~ cascade]]
    BY <1>2 DEF Delete, Found
  <2>2. invoices[id] \in Invoice
    BY <1>a, <2>1
  <2>3. [invoices[id] EXCEPT !.row = FALSE, !.children = ~ cascade] \in Invoice
    BY <2>2 DEF Invoice
  <2>4. invoices' \in Seq(Invoice) /\ DOMAIN invoices' = DOMAIN invoices
    BY <1>a, <2>1, <2>3
  <2>5. \A n \in DOMAIN invoices : Same(n)
    BY <2>1, <2>2, <2>4 DEF Same, Invoice
  <2>6. Records'
    BY <2>1, <2>4 DEF IInv, Records
  <2> QED
    BY <2>1, <2>5, <2>6, OthersKeep
<1>3. CASE SaveSettings \/ UNCHANGED vars
  <2>1. UNCHANGED <<invoices, req, delivered>> /\ settings' \in Parties
    BY <1>3, <1>a DEF SaveSettings, vars
  <2> QED
    BY <2>1, OthersKeep DEF IInv, Records, Same
<1>4. ASSUME NEW r \in Requests, NEW kind \in Kinds, NEW id \in Ids, Arrive(r, kind, id) PROVE IInv'
  <2> DEFINE x == [at |-> "lines", kind |-> kind, id |-> id, again |-> FALSE]
  <2>1. /\ req' = [req EXCEPT ![r] = x] /\ id \in DOMAIN invoices
        /\ UNCHANGED <<invoices, settings, delivered>>
    BY <1>4 DEF Arrive, Goto, Found
  <2>2. Carries(r)'
    BY <1>a, <2>1 DEF Carries
  <2> QED
    BY <2>1, <2>2, RequestKeeps
<1>5. ASSUME NEW r \in Requests, ReadLines(r) PROVE IInv'
  <2> DEFINE q == req[r]
             i == invoices[q.id]
  <2>1. /\ q.at = "lines" /\ q.id \in DOMAIN invoices /\ q.kind \in Kinds /\ (q.again => q.kind # "preview")
        /\ UNCHANGED <<invoices, settings>>
    BY <1>5, <1>a DEF ReadLines, Carries
  <2>2. CASE q.kind = "preview"
    <3> DEFINE d == Document("preview", q.id, Blank, Recipient(i.party.business, i.party.customer),
                             LinesOf(q.id), i.total)
    <3>1. Deliver(d) /\ req' = [req EXCEPT ![r] = Idle]
      BY <1>5, <2>1, <2>2 DEF ReadLines, Goto
    <3>a. d.kind = "preview" /\ d.id = q.id
      BY DEF Document
    <3>3. Carries(r)'
      BY <1>a, <3>1 DEF Carries, Idle
    <3> HIDE DEF d
    <3>2. Good(d)
      BY <2>1, <3>a DEF Good
    <3> QED
      BY <2>1, <3>1, <3>2, <3>3, RequestKeeps DEF Deliver
  <2>3. CASE q.kind # "preview" /\ ~ q.again
    <3>1. req' = [req EXCEPT ![r] = [q EXCEPT !.at = "row"]] /\ UNCHANGED delivered
      BY <1>5, <2>3 DEF ReadLines, Goto
    <3>2. Carries(r)'
      BY <1>a, <2>1, <2>3, <3>1 DEF Carries, Kinds
    <3> QED
      BY <2>1, <3>1, <3>2, RequestKeeps
  <2>4. CASE q.again
    <3> DEFINE x == [at |-> "settings", kind |-> q.kind, id |-> q.id, lines |-> LinesOf(q.id)]
    <3>1. req' = [req EXCEPT ![r] = x] /\ UNCHANGED delivered
      BY <1>5, <2>1, <2>4 DEF ReadLines, Goto
    <3>2. Carries(r)'
      BY <1>a, <2>1, <2>4, <3>1 DEF Carries, Kinds, HasLines, LinesOf
    <3> QED
      BY <2>1, <3>1, <3>2, RequestKeeps
  <2> QED
    BY <1>5, <2>2, <2>3, <2>4 DEF ReadLines
<1>6. ASSUME NEW r \in Requests, ReadAgain(r) PROVE IInv'
  <2> DEFINE x == [req[r] EXCEPT !.at = "lines", !.again = TRUE]
  <2>1. req' = [req EXCEPT ![r] = x] /\ req[r].at = "row" /\ UNCHANGED <<invoices, settings, delivered>>
    BY <1>6 DEF ReadAgain, Goto
  <2>2. x.at = "lines" /\ x.kind = req[r].kind /\ x.id = req[r].id
    OBVIOUS
  <2> HIDE DEF x
  <2>3. Carries(r)'
    BY <1>a, <2>1, <2>2 DEF Carries, Kinds
  <2> QED
    BY <2>1, <2>3, RequestKeeps
<1>7. ASSUME NEW r \in Requests, LoadSettings(r) PROVE IInv'
  <2> DEFINE q == req[r]
             party == [business |-> invoices[q.id].party.business, customer |-> settings.customer]
             x == [at |-> "rendering", kind |-> q.kind, id |-> q.id, lines |-> q.lines, party |-> party]
  <2>1. req' = [req EXCEPT ![r] = x] /\ q.at = "settings" /\ UNCHANGED <<invoices, settings, delivered>>
    BY <1>7 DEF LoadSettings, Goto
  <2>2. Carries(r)'
    BY <1>a, <2>1 DEF Carries, HasLines, HasCustomer
  <2> QED
    BY <2>1, <2>2, RequestKeeps
<1>8. ASSUME NEW r \in Requests, Render(r) PROVE IInv'
  <2> DEFINE q == req[r]
  <2>1. /\ q.at = "rendering" /\ q.id \in DOMAIN invoices /\ HasLines(q) /\ HasCustomer(q)
        /\ q.kind \in {"pdf", "send"} /\ q.lines # <<>> /\ UNCHANGED <<invoices, settings>>
    BY <1>8, <1>a DEF Render, Carries
  <2>2. CASE q.kind = "pdf"
    <3>1. Deliver(PDF(q)) /\ req' = [req EXCEPT ![r] = Idle]
      BY <1>8, <2>2 DEF Render, Goto
    <3>2. Good(PDF(q))
      BY <2>1, <2>2, DocumentFields DEF Good, PDF, HasLines
    <3>3. Carries(r)'
      BY <1>a, <3>1 DEF Carries, Idle
    <3> QED
      BY <2>1, <3>1, <3>2, <3>3, RequestKeeps DEF Deliver
  <2>3. CASE q.kind # "pdf"
    <3> DEFINE x == [q EXCEPT !.at = "mailing"]
    <3>1. req' = [req EXCEPT ![r] = x] /\ UNCHANGED delivered
      BY <1>8, <2>3 DEF Render, Goto
    <3>2. x.at = "mailing" /\ x.kind = q.kind /\ x.id = q.id /\ x.lines = q.lines /\ x.party = q.party
      OBVIOUS
    <3> HIDE DEF x
    <3>3. Carries(r)'
      BY <1>a, <2>1, <2>3, <3>1, <3>2 DEF Carries, HasLines, HasCustomer
    <3> QED
      BY <2>1, <3>1, <3>3, RequestKeeps
  <2> QED
    BY <2>2, <2>3
<1>9. ASSUME NEW r \in Requests, Mail(r) PROVE IInv'
  <2> DEFINE q == req[r]
             d == [PDF(q) EXCEPT !.to = q.party.customer.email]
  <2>1. /\ q.at = "mailing" /\ q.id \in DOMAIN invoices /\ HasLines(q) /\ HasCustomer(q)
        /\ q.lines # <<>> /\ q.kind = "send" /\ UNCHANGED <<invoices, settings>>
    BY <1>9, <1>a DEF Mail, Carries
  <2>2. Deliver(d) /\ req' = [req EXCEPT ![r] = Idle]
    BY <1>9 DEF Mail, Goto
  <2>3. /\ d.kind = q.kind /\ d.id = q.id /\ d.lines = q.lines /\ d.to = q.party.customer.email
        /\ d.recipient = Recipient(q.party.business, q.party.customer)
    BY DEF PDF, Document
  <2> HIDE DEF d
  <2>4. Good(d)
    BY <2>1, <2>3 DEF Good, HasLines, HasCustomer
  <2>5. Carries(r)'
    BY <1>a, <2>2 DEF Carries, Idle
  <2> QED
    BY <2>1, <2>2, <2>4, <2>5, RequestKeeps DEF Deliver
<1>10. ASSUME NEW r \in Requests, Ends(r) PROVE IInv'
  <2>1. req' = [req EXCEPT ![r] = Idle] /\ UNCHANGED <<invoices, settings, delivered>>
    BY <1>10 DEF Ends, Goto
  <2>2. Carries(r)'
    BY <1>a, <2>1 DEF Carries, Idle
  <2> QED
    BY <2>1, <2>2, RequestKeeps
<1> QED
  BY <1>1, <1>2, <1>3, <1>4, <1>5, <1>6, <1>7, <1>8, <1>9, <1>10 DEF Next

\* No PDF, downloaded or mailed, lacks a line of its invoice, although row and
\* lines are read by two queries and the invoice may be deleted at any moment.
THEOREM DeliversWhole == Spec => []DeliveredWhole
<1>1. IInv => DeliveredWhole
  BY DEF IInv
<1> QED
  BY <1>1, InitIInv, NextIInv, PTL DEF Spec

\* An e-mail goes to the customer its PDF is addressed to, however often the
\* settings are saved while it is made.
THEOREM DeliversToOne == Spec => []OneCustomer
<1>1. IInv => OneCustomer
  BY DEF IInv
<1> QED
  BY <1>1, InitIInv, NextIInv, PTL DEF Spec

-----------------------------------------------------------------------------
\* Division with a remainder, and rounding by it.
LEMMA DivBounds ==
  ASSUME NEW n \in Int, NEW d \in Nat \ {0}
  PROVE  n \div d \in Int /\ d * (n \div d) <= n /\ n < d * (n \div d) + d
OBVIOUS

LEMMA RoundedBounds ==
  ASSUME NEW n \in Nat, NEW d \in Nat \ {0}
  PROVE  /\ Rounded(n, d) \in Nat
         /\ (2 * d) * Rounded(n, d) <= 2 * n + d
         /\ 2 * n + d < (2 * d) * Rounded(n, d) + 2 * d
<1> DEFINE m == 2 * n + d
           e == 2 * d
           q == m \div e
<1>1. m \in Nat /\ e \in Nat \ {0}
  OBVIOUS
<1>2. q = Rounded(n, d)
  BY DEF Rounded
<1> HIDE DEF m, e
<1>3. q \in Int /\ e * q <= m /\ m < e * q + e
  BY <1>1, DivBounds
<1> HIDE DEF q
<1>4. q >= 0
  <2> SUFFICES ASSUME q <= -1 PROVE FALSE
    BY <1>3
  <2>1. e * q <= e * (-1)
    BY <1>1, <1>3
  <2> QED
    BY <1>1, <1>3, <2>1
<1> QED
  BY <1>2, <1>3, <1>4 DEF m, e

\* Multiplication by a positive number keeps the order, and its division does.
LEMMA TimesMonotone ==
  ASSUME NEW a \in Int, NEW b \in Int, NEW c \in Nat, a <= b
  PROVE  a * c <= b * c
OBVIOUS

LEMMA Cancel ==
  ASSUME NEW a \in Int, NEW b \in Int, NEW c \in Nat \ {0}, a * c <= b * c
  PROVE  a <= b
<1> SUFFICES ASSUME b + 1 <= a PROVE FALSE
  OBVIOUS
<1>1. (b + 1) * c <= a * c
  BY TimesMonotone
<1>2. (b + 1) * c = b * c + c
  OBVIOUS
<1> QED
  BY <1>1, <1>2

\* The quotient is the only one within its bounds.
LEMMA OneQuotient ==
  ASSUME NEW m \in Int, NEW e \in Nat \ {0}, NEW q \in Int, NEW r \in Int,
         e * q <= m, m < e * q + e, e * r <= m, m < e * r + e
  PROVE  q = r
<1>1. ASSUME NEW a \in Int, NEW b \in Int, e * a <= m, m < e * b + e PROVE a <= b
  <2> SUFFICES ASSUME b + 1 <= a PROVE FALSE
    BY <1>1
  <2>1. (b + 1) * e <= a * e
    BY TimesMonotone
  <2>2. (b + 1) * e = e * b + e /\ a * e = e * a
    OBVIOUS
  <2> QED
    BY <1>1, <2>1, <2>2
<1> QED
  BY <1>1

\* A common factor does not matter.
LEMMA RoundedScale ==
  ASSUME NEW n \in Nat, NEW d \in Nat \ {0}, NEW c \in Nat \ {0}
  PROVE  Rounded(c * n, c * d) = Rounded(n, d)
<1> DEFINE q == Rounded(n, d)
           r == Rounded(c * n, c * d)
<1>1. q \in Nat /\ (2 * d) * q <= 2 * n + d /\ 2 * n + d + 1 <= (2 * d) * q + 2 * d
  BY RoundedBounds
<1>2. c * n \in Nat /\ c * d \in Nat \ {0}
  OBVIOUS
<1>3. r \in Nat /\ (2 * (c * d)) * r <= 2 * (c * n) + c * d
      /\ 2 * (c * n) + c * d < (2 * (c * d)) * r + 2 * (c * d)
  BY <1>2, RoundedBounds
<1> HIDE DEF q, r
<1>4. ((2 * d) * q) * c <= (2 * n + d) * c /\ (2 * n + d + 1) * c <= ((2 * d) * q + 2 * d) * c
  BY <1>1, TimesMonotone
<1>5. /\ ((2 * d) * q) * c = (2 * (c * d)) * q
      /\ (2 * n + d) * c = 2 * (c * n) + c * d
      /\ (2 * n + d + 1) * c = 2 * (c * n) + c * d + c
      /\ ((2 * d) * q + 2 * d) * c = (2 * (c * d)) * q + 2 * (c * d)
  BY <1>1
<1> DEFINE e == 2 * (c * d)
           m == 2 * (c * n) + c * d
<1>6. e \in Nat \ {0} /\ m \in Int
  BY <1>2
<1>7. /\ e * q <= m /\ m < e * q + e
      /\ e * r <= m /\ m < e * r + e
  <2> DEFINE x == (2 * (c * d)) * q
             y == c * n
             z == c * d
  <2>1. x \in Int /\ y \in Int /\ z \in Int
    BY <1>1, <1>2
  <2>2. x <= 2 * y + z /\ 2 * y + z + c <= x + 2 * z
    BY <1>4, <1>5
  <2>3. x <= 2 * y + z /\ 2 * y + z < x + 2 * z
    <3> HIDE DEF x, y, z
    <3> QED BY <2>1, <2>2
  <2> QED
    BY <1>3, <2>3
<1> HIDE DEF e, m
<1>8. q = r
  BY <1>1, <1>3, <1>6, <1>7, OneQuotient
<1> QED
  BY <1>8 DEF q, r

LEMMA RoundedWhole ==
  ASSUME NEW n \in Nat, NEW d \in Nat \ {0}
  PROVE  Rounded(d * n, d) = n
<1>1. Rounded(d * n, d * 1) = Rounded(n, 1)
  BY RoundedScale
<1>2. Rounded(n, 1) = n
  BY DEF Rounded
<1> QED
  BY <1>1, <1>2

\* Two numbers that are at most e apart.
Near(a, b, e) == a \in Int /\ b \in Int /\ e \in Int /\ a - b <= e /\ b - a <= e

LEMMA NearTrans ==
  ASSUME NEW a, NEW b, NEW c, NEW e, NEW f, Near(a, b, e), Near(b, c, f)
  PROVE  Near(a, c, e + f)
BY DEF Near

LEMMA NearSymmetric ==
  ASSUME NEW a, NEW b, NEW e, Near(a, b, e)
  PROVE  Near(b, a, e)
BY DEF Near

LEMMA NearTimes ==
  ASSUME NEW a, NEW b, NEW e, Near(a, b, e), NEW c \in Nat
  PROVE  Near(a * c, b * c, e * c)
<1>1. a \in Int /\ b \in Int /\ e \in Int /\ a - b <= e /\ b - a <= e
  BY DEF Near
<1>2. (a - b) * c <= e * c /\ (b - a) * c <= e * c
  BY <1>1, TimesMonotone
<1>3. (a - b) * c = a * c - b * c /\ (b - a) * c = b * c - a * c
  BY <1>1
<1>4. a * c \in Int /\ b * c \in Int /\ e * c \in Int
  BY <1>1
<1> QED
  BY <1>2, <1>3, <1>4 DEF Near

LEMMA NearCancel ==
  ASSUME NEW a \in Int, NEW b \in Int, NEW e \in Int, NEW c \in Nat \ {0},
         Near(a * c, b * c, e * c)
  PROVE  Near(a, b, e)
<1>1. (a - b) * c <= e * c /\ (b - a) * c <= e * c
  <2>1. (a - b) * c = a * c - b * c /\ (b - a) * c = b * c - a * c
    OBVIOUS
  <2> QED
    BY <2>1 DEF Near
<1> QED
  BY <1>1, Cancel DEF Near

LEMMA NearRounded ==
  ASSUME NEW n \in Nat, NEW d \in Nat \ {0}
  PROVE  Rounded(n, d) \in Nat /\ Near((2 * d) * Rounded(n, d), 2 * n, d)
<1>1. /\ Rounded(n, d) \in Nat /\ (2 * d) * Rounded(n, d) <= 2 * n + d
      /\ 2 * n + d < (2 * d) * Rounded(n, d) + 2 * d
  BY RoundedBounds
<1>2. (2 * d) * Rounded(n, d) \in Int
  BY <1>1
<1> QED
  BY <1>1, <1>2 DEF Near

-----------------------------------------------------------------------------
LEMMA LineTypes ==
  ASSUME NEW line, line.worked \in Nat, line.price \in Nat
  PROVE  /\ Hours(line) \in Nat /\ DurMin(line) \in Nat /\ PDFRate(line) \in Nat
         /\ LineTotal(line) \in Nat /\ Amount(line) \in Nat /\ Slack(line) \in Int
         /\ Near((2 * Fine) * Hours(line), 2 * line.worked, Fine)
         /\ Near(200 * DurMin(line), 120 * Hours(line), 100)
         /\ Near((2 * Fine) * PDFRate(line), 2 * line.price, Fine)
         /\ Near(120 * LineTotal(line), 2 * (DurMin(line) * PDFRate(line)), 60)
         /\ Near((200 * (Fine * Fine)) * Amount(line), 2 * (line.worked * line.price), 100 * (Fine * Fine))
<1> DEFINE F == Fine
           M == DurMin(line)
<1>1. F \in Nat \ {0}
  BY LinesAssumption
<1>2. Hours(line) \in Nat /\ Near((2 * F) * Hours(line), 2 * line.worked, F)
  BY <1>1, NearRounded DEF Hours
<1>3. M \in Nat /\ Near(200 * M, 120 * Hours(line), 100)
  <2> DEFINE n == Hours(line) * 60
  <2>1. n \in Nat /\ 2 * n = 120 * Hours(line) /\ M = Rounded(n, 100)
    BY <1>2 DEF DurMin
  <2> HIDE DEF n, M
  <2>2. Rounded(n, 100) \in Nat /\ Near((2 * 100) * Rounded(n, 100), 2 * n, 100)
    BY <2>1, NearRounded
  <2> QED
    BY <2>1, <2>2
<1>4. PDFRate(line) \in Nat /\ Near((2 * F) * PDFRate(line), 2 * line.price, F)
  BY <1>1, NearRounded DEF PDFRate
<1>5. LineTotal(line) \in Nat /\ Near(120 * LineTotal(line), 2 * (M * PDFRate(line)), 60)
  <2> DEFINE n == M * PDFRate(line)
  <2>1. n \in Nat /\ LineTotal(line) = Rounded(n, 60)
    BY <1>3, <1>4 DEF LineTotal
  <2> HIDE DEF n
  <2>2. Rounded(n, 60) \in Nat /\ Near((2 * 60) * Rounded(n, 60), 2 * n, 60)
    BY <2>1, NearRounded
  <2> QED
    BY <2>1, <2>2 DEF n
<1>6. Amount(line) \in Nat
      /\ Near((200 * (F * F)) * Amount(line), 2 * (line.worked * line.price), 100 * (F * F))
  <2> DEFINE n == line.worked * line.price
             d == 100 * F * F
  <2>0. n \in Nat /\ d \in Nat \ {0}
    BY <1>1
  <2>1. d = 100 * (F * F) /\ 2 * d = 200 * (F * F)
    BY <1>1
  <2>2. Amount(line) = Rounded(n, d)
    BY DEF Amount
  <2> HIDE DEF n, d
  <2>3. Rounded(n, d) \in Nat /\ Near((2 * d) * Rounded(n, d), 2 * n, d)
    BY <2>0, NearRounded
  <2> QED
    BY <2>1, <2>2, <2>3 DEF n
<1>7. Slack(line) \in Int
  <2>1. 5 * F * M \in Int
    BY <1>1, <1>3
  <2> QED
    BY <1>1, <2>1 DEF Slack
<1> QED
  BY <1>2, <1>3, <1>4, <1>5, <1>6, <1>7

\* The template computes a line anew from whole minutes and a rate in pence.
\* Whatever was worked at whatever price, what it gets is within Slack of the
\* stored amount, and equal to it for lines in even steps.
THEOREM LineWithinRounding ==
  ASSUME NEW line, line.worked \in Nat, line.price \in Nat
  PROVE  /\ Near((600 * Fine) * LineTotal(line), (600 * Fine) * Amount(line), Slack(line))
         /\ Even(line) => LineTotal(line) = Amount(line)
<1> DEFINE F == Fine
           w == line.worked
           p == line.price
           h == Hours(line)
           M == DurMin(line)
           P == PDFRate(line)
           L == LineTotal(line)
           A == Amount(line)
           s == IF p % F = 0 THEN 0 ELSE 5 * F * M
<1>0. F \in Nat \ {0} /\ w \in Nat /\ p \in Nat
  BY LinesAssumption
<1>1. /\ h \in Nat /\ M \in Nat /\ P \in Nat /\ L \in Nat /\ A \in Nat
      /\ Near((2 * F) * h, 2 * w, F) /\ Near(200 * M, 120 * h, 100)
      /\ Near((2 * F) * P, 2 * p, F) /\ Near(120 * L, 2 * (M * P), 60)
      /\ Near((200 * (F * F)) * A, 2 * (w * p), 100 * (F * F))
  BY LineTypes
<1>2. p % F = 0 => p = F * P
  <2> SUFFICES ASSUME p % F = 0 PROVE p = F * P
    OBVIOUS
  <2>1. p \div F \in Nat /\ p = F * (p \div F)
    BY <1>0
  <2>2. Rounded(F * (p \div F), F) = p \div F
    BY <1>0, <2>1, RoundedWhole
  <2> QED
    BY <2>1, <2>2 DEF PDFRate
<1>3. Slack(line) = 600 * F + 8 * p + s
  BY DEF Slack
<1>4. Even(line) => L = A
  <2> SUFFICES ASSUME Even(line) PROVE L = A
    OBVIOUS
  <2> DEFINE k == w \div (5 * F)
  <2>1. k \in Nat /\ w = F * (5 * k)
    <3> DEFINE f == 5 * F
    <3>1. f \in Nat \ {0} /\ w % f = 0
      BY <1>0 DEF Even
    <3> HIDE DEF f
    <3>2. w \div f \in Nat /\ w = f * (w \div f)
      BY <1>0, <3>1
    <3>3. k = w \div f
      BY DEF f
    <3> HIDE DEF k
    <3>4. f * k = F * (5 * k)
      BY <1>0, <3>2, <3>3 DEF f
    <3> QED
      BY <3>2, <3>3, <3>4
  <2> HIDE DEF k
  <2>2. h = 5 * k
    <3>1. 5 * k \in Nat
      BY <2>1
    <3> QED
      BY <1>0, <2>1, <3>1, RoundedWhole DEF Hours
  <2>3. M = 3 * k
    <3>1. Near(200 * M, 600 * k, 100)
      BY <1>1, <2>1, <2>2
    <3>2. M \in Int /\ k \in Int /\ 200 * M - 600 * k <= 100 /\ 600 * k - 200 * M <= 100
      BY <1>1, <2>1, <3>1 DEF Near
    <3> HIDE DEF M
    <3> QED
      BY <3>2
  <2>4. p = F * P
    BY <1>2 DEF Even
  <2>5. k * P \in Nat /\ M * P = 3 * (k * P) /\ w * p = (F * F) * (5 * (k * P))
    BY <1>0, <1>1, <2>1, <2>3, <2>4
  <2>6. L = Rounded(k * P, 20)
    <3>1. Rounded(3 * (k * P), 3 * 20) = Rounded(k * P, 20)
      BY <2>5, RoundedScale
    <3> QED
      BY <2>5, <3>1 DEF LineTotal
  <2>7. A = Rounded(k * P, 20)
    <3>1. Rounded(5 * (k * P), 5 * 20) = Rounded(k * P, 20)
      BY <2>5, RoundedScale
    <3>2. 5 * (k * P) \in Nat /\ F * F \in Nat \ {0} /\ 100 * F * F = (F * F) * 100
      BY <1>0, <2>5
    <3>3. Rounded((F * F) * (5 * (k * P)), (F * F) * 100) = Rounded(5 * (k * P), 100)
      BY <3>2, RoundedScale
    <3> QED
      BY <2>5, <3>1, <3>2, <3>3 DEF Amount
  <2> QED
    BY <2>6, <2>7
<1> HIDE DEF F, w, p, h, M, P, L, A
<1> DEFINE FM == F * M
           Mp == M * p
           MP == M * P
           wp == w * p
           FF == F * F
\* The minutes against the hours worked.
<1>5. Near(10 * FM, 6 * w, 8 * F)
  <2>1. Near((200 * M) * F, (120 * h) * F, 100 * F)
    BY <1>0, <1>1, NearTimes
  <2>2. (200 * M) * F = 200 * FM /\ (120 * h) * F = 60 * ((2 * F) * h) /\ FM \in Int /\ (2 * F) * h \in Int
    BY <1>0, <1>1
  <2> HIDE DEF FM
  <2> QED
    BY <1>0, <1>1, <2>1, <2>2 DEF Near
<1>6. Near(F * (10 * Mp), 6 * wp, F * (8 * p))
  <2>1. Near((10 * FM) * p, (6 * w) * p, (8 * F) * p)
    BY <1>0, <1>5, NearTimes
  <2>2. (10 * FM) * p = F * (10 * Mp) /\ (6 * w) * p = 6 * wp /\ (8 * F) * p = F * (8 * p)
    BY <1>0, <1>1
  <2> QED
    BY <2>1, <2>2
\* The rate of the PDF against the price.
<1>7. s \in Int /\ Near(10 * (F * MP), 10 * Mp, s)
  <2>1. CASE p % F = 0
    <3>1. F * MP = Mp /\ Mp \in Int
      BY <1>0, <1>1, <1>2, <2>1
    <3> HIDE DEF MP, Mp
    <3> QED
      BY <2>1, <3>1 DEF Near
  <2>2. CASE p % F # 0
    <3>1. Near(((2 * F) * P) * M, (2 * p) * M, F * M)
      BY <1>1, NearTimes
    <3>2. /\ ((2 * F) * P) * M = 2 * (F * MP) /\ (2 * p) * M = 2 * Mp /\ s = 5 * (F * M)
          /\ F * MP \in Int /\ Mp \in Int /\ F * M \in Int
      BY <1>0, <1>1, <2>2
    <3> HIDE DEF MP, Mp, s
    <3> QED
      BY <3>1, <3>2 DEF Near
  <2> QED
    BY <2>1, <2>2
<1>8. Near((600 * F) * L, 10 * Mp, 300 * F + s)
  <2>1. Near((120 * L) * F, (2 * (M * P)) * F, 60 * F)
    BY <1>0, <1>1, NearTimes
  <2>2. /\ 5 * ((120 * L) * F) = (600 * F) * L /\ 5 * ((2 * (M * P)) * F) = 10 * (F * MP)
        /\ (120 * L) * F \in Int /\ (2 * (M * P)) * F \in Int
    BY <1>0, <1>1
  <2>3. Near((600 * F) * L, 10 * (F * MP), 300 * F)
    <3> DEFINE a == (120 * L) * F
               b == (2 * (M * P)) * F
    <3>1. Near(a, b, 60 * F) /\ a \in Int /\ b \in Int
      BY <2>1, <2>2
    <3> HIDE DEF a, b
    <3>2. Near(5 * a, 5 * b, 300 * F)
      BY <1>0, <3>1 DEF Near
    <3> QED
      BY <2>2, <3>2 DEF a, b
  <2> HIDE DEF s, MP, Mp
  <2> QED
    BY <1>7, <2>3, NearTrans
<1>9. Near(F * ((600 * F) * L), F * ((600 * F) * A), F * (600 * F + 8 * p + s))
  <2>1. Near(((600 * F) * L) * F, (10 * Mp) * F, (300 * F + s) * F)
    BY <1>0, <1>8, NearTimes
  <2>2. /\ ((600 * F) * L) * F = F * ((600 * F) * L) /\ (10 * Mp) * F = F * (10 * Mp)
        /\ (300 * F + s) * F = 300 * FF + F * s
    <3> HIDE DEF s
    <3> QED BY <1>0, <1>1, <1>7
  <2>3. Near(6 * wp, F * ((600 * F) * A), 300 * FF)
    <3>1. 3 * ((200 * FF) * A) = F * ((600 * F) * A) /\ (200 * FF) * A \in Int /\ wp \in Int /\ FF \in Int
      BY <1>0, <1>1
    <3> DEFINE a == (200 * FF) * A
    <3>2. Near(a, 2 * wp, 100 * FF)
      BY <1>1
    <3> HIDE DEF a, FF, wp
    <3>3. Near(6 * wp, 3 * a, 300 * FF)
      BY <3>1, <3>2 DEF Near, a
    <3> QED
      BY <3>1, <3>3 DEF a
  <2> DEFINE u == F * ((600 * F) * L)
             v == F * ((600 * F) * A)
             x == F * (10 * Mp)
             Fs == F * s
             Fp == F * (8 * p)
  <2>4. Near(u, x, 300 * FF + Fs) /\ Near(x, 6 * wp, Fp) /\ Near(6 * wp, v, 300 * FF)
    <3> HIDE DEF s, Mp, wp, FF
    <3> QED BY <1>6, <2>1, <2>2, <2>3
  <2>5. F * (600 * F + 8 * p + s) = 300 * FF + Fs + Fp + 300 * FF
    <3> HIDE DEF s
    <3> QED BY <1>0, <1>7
  <2> HIDE DEF u, v, x, Fs, Fp, wp, FF
  <2>6. Near(u, 6 * wp, 300 * FF + Fs + Fp)
    BY <2>4, NearTrans
  <2>7. Near(u, v, 300 * FF + Fs + Fp + 300 * FF)
    BY <2>4, <2>6, NearTrans
  <2> QED
    BY <2>5, <2>7 DEF u, v
<1>10. Near((600 * F) * L, (600 * F) * A, 600 * F + 8 * p + s)
  <2> DEFINE a == (600 * F) * L
             b == (600 * F) * A
             e == 600 * F + 8 * p + s
  <2>1. a \in Int /\ b \in Int /\ e \in Int
    <3> HIDE DEF s
    <3> QED BY <1>0, <1>1, <1>7
  <2>2. Near(F * a, F * b, F * e)
    <3> HIDE DEF s
    <3> QED BY <1>9
  <2> HIDE DEF a, b, e
  <2>3. F * a = a * F /\ F * b = b * F /\ F * e = e * F
    BY <1>0, <2>1
  <2>4. Near(a, b, e)
    BY <1>0, <2>1, <2>2, <2>3, NearCancel
  <2> QED
    BY <2>4 DEF a, b, e
<1> HIDE DEF s
<1> QED
  BY <1>3, <1>4, <1>10 DEF F, L, A

-----------------------------------------------------------------------------
(***************************************************************************)
(* The amounts.  An invoice keeps the total of its lines, a document the   *)
(* total that the template computes from the lines it shows.               *)
(***************************************************************************)
Totals ==
  /\ \A id \in DOMAIN invoices : invoices[id].total = Total(invoices[id].lines)
  /\ \A d \in PDFs : d.total = PDFTotal(d.lines)

\* A delivery that keeps Totals.
LEMMA TotalsDelivered ==
  ASSUME Totals, UNCHANGED invoices, NEW doc,
         doc.kind # "preview" => doc.total = PDFTotal(doc.lines),
         delivered' = delivered \/ delivered' = delivered \cup {doc}
  PROVE  Totals'
BY DEF Totals, PDFs

LEMMA NextTotals == IInv /\ Totals /\ [Next]_vars => Totals'
<1> SUFFICES ASSUME IInv, Totals, [Next]_vars PROVE Totals'
  OBVIOUS
<1>1. ASSUME NEW ls \in LineLists, Issue(ls) PROVE Totals'
  <2> DEFINE new == [lines |-> ls, total |-> Total(ls), party |-> settings,
                     row |-> TRUE, children |-> TRUE]
  <2>1. invoices' = Append(invoices, new) /\ new.total = Total(new.lines) /\ UNCHANGED delivered
    BY <1>1 DEF Issue
  <2> HIDE DEF new
  <2>2. ASSUME NEW id \in DOMAIN invoices' PROVE invoices'[id].total = Total(invoices'[id].lines)
    <3>1. \/ id \in DOMAIN invoices /\ invoices'[id] = invoices[id]
          \/ invoices'[id] = new
      BY <2>1, <2>2 DEF IInv, Records
    <3> QED
      BY <2>1, <3>1 DEF Totals
  <2> QED
    BY <2>1, <2>2 DEF Totals, PDFs
<1>2. ASSUME NEW id \in Ids, NEW cascade \in BOOLEAN, Delete(id, cascade) PROVE Totals'
  <2>1. /\ DOMAIN invoices' = DOMAIN invoices
        /\ \A i \in DOMAIN invoices : invoices'[i].total = invoices[i].total
                                      /\ invoices'[i].lines = invoices[i].lines
    BY <1>2 DEF Delete, IInv, Records, Invoice
  <2> QED
    BY <1>2, <2>1 DEF Delete, Totals, PDFs
<1>3. ASSUME NEW r \in Requests, ReadLines(r) PROVE Totals'
  <2>1. PICK doc : doc.kind = "preview" /\ (delivered' = delivered \/ delivered' = delivered \cup {doc})
    BY <1>3 DEF ReadLines, Deliver, Document
  <2> QED
    BY <1>3, <2>1, TotalsDelivered DEF ReadLines
<1>4. ASSUME NEW r \in Requests, Render(r) PROVE Totals'
  <2>1. PDF(req[r]).total = PDFTotal(PDF(req[r]).lines)
    BY DEF PDF, Document
  <2>2. delivered' = delivered \/ delivered' = delivered \cup {PDF(req[r])}
    BY <1>4 DEF Render, Deliver
  <2> QED
    BY <1>4, <2>1, <2>2, TotalsDelivered DEF Render
<1>5. ASSUME NEW r \in Requests, Mail(r) PROVE Totals'
  <2> DEFINE doc == [PDF(req[r]) EXCEPT !.to = req[r].party.customer.email]
  <2>1. doc.total = PDFTotal(doc.lines)
    BY DEF PDF, Document
  <2>2. delivered' = delivered \cup {doc}
    BY <1>5 DEF Mail, Deliver
  <2> HIDE DEF doc
  <2> QED
    BY <1>5, <2>1, <2>2, TotalsDelivered DEF Mail
<1>6. ASSUME UNCHANGED <<invoices, delivered>> PROVE Totals'
  BY <1>6 DEF Totals, PDFs
<1> QED
  BY <1>1, <1>2, <1>3, <1>4, <1>5, <1>6
  DEF Next, SaveSettings, Arrive, ReadAgain, LoadSettings, Ends, vars

\* FoldSeq adds up a sequence.
LEMMA SumOfIsSum ==
  ASSUME NEW s
  PROVE  SumOf(s) = Sum(s, DOMAIN s)
<1> DEFINE Fold(g) ==
      g = [d \in SUBSET DOMAIN s |->
             IF d = {} THEN 0
             ELSE s[CHOOSE x \in d : TRUE] + g[d \ {CHOOSE x \in d : TRUE}]]
<1>1. SumOf(s) = (CHOOSE g : Fold(g))[DOMAIN s]
  BY DEF SumOf, FoldSeq, FoldFunction, FoldFunctionOnSet, MapThenFoldSet
<1>2. \A g : Fold(g) <=> Adds(g, s, DOMAIN s)
  BY DEF Adds, Some
<1> HIDE DEF Fold
<1>3. (CHOOSE g : Fold(g)) = (CHOOSE g : Adds(g, s, DOMAIN s))
  BY <1>2, Zenon
<1> QED
  BY <1>1, <1>3 DEF Sum

\* The total of the PDF and that of the invoice, for the lines of any invoice.
LEMMA TotalsWithin ==
  ASSUME NEW ls \in LineLists
  PROVE  LET slack == SumOf([i \in DOMAIN ls |-> Slack(ls[i])])
             diff  == 600 * Fine * (PDFTotal(ls) - Total(ls))
         IN  /\ diff <= slack /\ -slack <= diff
             /\ (\A i \in DOMAIN ls : Even(ls[i])) => diff = 0
<1> DEFINE D     == DOMAIN ls
           u     == 600 * Fine
           pdf   == [i \in D |-> LineTotal(ls[i])]
           bill  == [i \in D |-> Amount(ls[i])]
           pdfU  == [i \in D |-> u * pdf[i]]
           billU == [i \in D |-> u * bill[i]]
           slack == [i \in D |-> Slack(ls[i])]
<1>0. u \in Int
  BY LinesAssumption
<1>1. IsFiniteSet(D) /\ \A i \in D : ls[i].worked \in Nat /\ ls[i].price \in Nat
  <2> DEFINE Line == [worked : Nat \ {0}, price : Nat \ {0}]
  <2>1. ls \in Seq(Line)
    BY LinesAssumption
  <2> HIDE DEF Line
  <2>2. D = 1 .. Len(ls) /\ Len(ls) \in Nat
    BY <2>1
  <2>3. IsFiniteSet(D)
    BY <2>2, FS_Interval
  <2>4. \A i \in D : ls[i] \in Line
    BY <2>1, <2>2
  <2> QED
    BY <2>3, <2>4 DEF Line
<1>2. ASSUME NEW i \in D
      PROVE  /\ pdf[i] \in Int /\ bill[i] \in Int /\ slack[i] \in Int
             /\ u * pdf[i] \in Int /\ u * bill[i] \in Int
             /\ u * pdf[i] - u * bill[i] <= slack[i]
             /\ u * bill[i] - u * pdf[i] <= slack[i]
             /\ Even(ls[i]) => pdf[i] = bill[i]
  <2>1. ls[i].worked \in Nat /\ ls[i].price \in Nat
    BY <1>1
  <2>2. LineTotal(ls[i]) \in Int /\ Amount(ls[i]) \in Int /\ Slack(ls[i]) \in Int
    BY <2>1, LineTypes
  <2>3. /\ Near(u * LineTotal(ls[i]), u * Amount(ls[i]), Slack(ls[i]))
        /\ Even(ls[i]) => LineTotal(ls[i]) = Amount(ls[i])
    BY <2>1, LineWithinRounding
  <2> QED
    BY <2>2, <2>3 DEF Near
<1>3. PDFTotal(ls) = Sum(pdf, D) /\ Total(ls) = Sum(bill, D)
      /\ SumOf([i \in D |-> Slack(ls[i])]) = Sum(slack, D)
  BY SumOfIsSum DEF PDFTotal, Total
<1>a. \A i \in D : pdfU[i] = u * pdf[i] /\ billU[i] = u * bill[i]
  OBVIOUS
<1> HIDE DEF D, pdf, bill, slack, u
<1>4. Sum(pdf, D) \in Int /\ Sum(bill, D) \in Int /\ Sum(slack, D) \in Int
  BY <1>1, <1>2, SumType
<1>5. Sum(pdfU, D) = u * Sum(pdf, D) /\ Sum(billU, D) = u * Sum(bill, D)
  BY <1>0, <1>1, <1>2, SumTimes
<1> HIDE DEF pdfU, billU
<1>6. /\ Sum(pdfU, D) - Sum(billU, D) <= Sum(slack, D)
      /\ Sum(billU, D) - Sum(pdfU, D) <= Sum(slack, D)
  <2>1. \A i \in D : /\ pdfU[i] \in Int /\ billU[i] \in Int /\ slack[i] \in Int
                     /\ pdfU[i] - billU[i] <= slack[i] /\ billU[i] - pdfU[i] <= slack[i]
    BY <1>2, <1>a
  <2> QED
    BY <1>1, <2>1, SumWithin
<1>7. (\A i \in D : Even(ls[i])) => Sum(pdf, D) = Sum(bill, D)
  BY <1>1, <1>2, SumSame
<1>8. u * (PDFTotal(ls) - Total(ls)) = Sum(pdfU, D) - Sum(billU, D)
  BY <1>0, <1>3, <1>4, <1>5
<1>9. (\A i \in D : Even(ls[i])) => u * (PDFTotal(ls) - Total(ls)) = 0
  BY <1>0, <1>3, <1>4, <1>7
<1>10. Sum(pdfU, D) \in Int /\ Sum(billU, D) \in Int
  BY <1>0, <1>4, <1>5
<1>11. /\ u * (PDFTotal(ls) - Total(ls)) <= Sum(slack, D)
       /\ -Sum(slack, D) <= u * (PDFTotal(ls) - Total(ls))
  BY <1>4, <1>6, <1>8, <1>10
<1> QED
  BY <1>3, <1>9, <1>11 DEF D, u

\* The total a customer reads in the PDF is that of the invoice up to the roundings
\* of hours, minutes, rate and amounts, for any lines, whatever digits their hours
\* and rates have; and exactly that when all lines come in even steps.
THEOREM TotalsHold == Spec => []TotalWithinRounding
<1>1. Init => Totals
  BY DEF Init, Totals, PDFs
<1>2. IInv /\ Totals => TotalWithinRounding
  <2> SUFFICES ASSUME IInv, Totals, NEW d \in PDFs
               PROVE  LET slack == SumOf([i \in DOMAIN d.lines |-> Slack(d.lines[i])])
                          diff  == 600 * Fine * (d.total - invoices[d.id].total)
                      IN  /\ diff <= slack /\ -slack <= diff
                          /\ (\A i \in DOMAIN d.lines : Even(d.lines[i])) => diff = 0
    BY DEF TotalWithinRounding
  <2>1. d.id \in DOMAIN invoices /\ d.lines = invoices[d.id].lines
    BY DEF IInv, Records, DeliveredWhole, PDFs
  <2>2. d.lines \in LineLists
    <3>1. invoices[d.id] \in Invoice
      BY <2>1 DEF IInv, Records
    <3> QED
      BY <2>1, <3>1 DEF Invoice
  <2>3. d.total = PDFTotal(d.lines) /\ invoices[d.id].total = Total(d.lines)
    BY <2>1 DEF Totals
  <2> QED
    BY <2>2, <2>3, TotalsWithin
<1> QED
  BY <1>1, <1>2, InitIInv, NextIInv, NextTotals, PTL DEF Spec

=============================================================================
