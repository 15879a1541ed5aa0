----------------------------- MODULE InvoiceBook -----------------------------
(***************************************************************************)
(* What GenerateInvoice promises, with no transaction, lock or concurrent  *)
(* request in sight: an invoice appears in one step, and what it bills is  *)
(* what the entries and rates of that very moment say.  Nothing changes it *)
(* afterwards until it is withdrawn whole.                                 *)
(***************************************************************************)
EXTENDS Naturals

CONSTANTS
  Months, Scopes, NumberInputs, Settings,
  Unrated(_, _, _, _),        \* entries in scope without a rate
  InvoiceLines(_, _, _, _),   \* what entries and rates bill for a month and scope
  InvoiceTotal(_),
  Allocatable(_, _, _, _)     \* the number an invoice gets, given the used ones

VARIABLES entries, rates, nextInvoice, book

vars == <<entries, rates, nextInvoice, book>>

Used == {inv.number : inv \in book}

Init ==
  /\ entries = {}
  /\ rates = {}
  /\ nextInvoice = 1
  /\ book = {}

\* The ledger is edited: the book does not follow.
Edit == UNCHANGED <<nextInvoice, book>>

Issue(month, scope, wanted, snapshot) ==
  LET billed == InvoiceLines(entries, rates, month, scope)
  IN  /\ Unrated(entries, rates, month, scope) = {}
      /\ billed # {}
      /\ \E number \in Allocatable(month, scope, wanted, Used) :
           book' = book \cup
             {[id |-> nextInvoice, number |-> number, month |-> month, scope |-> scope,
               total |-> InvoiceTotal(billed), settings |-> snapshot, lines |-> billed]}
      /\ nextInvoice' = nextInvoice + 1
      /\ UNCHANGED <<entries, rates>>

Withdraw(inv) ==
  /\ book' = book \ {inv}
  /\ UNCHANGED <<entries, rates, nextInvoice>>

Next ==
  \/ Edit
  \/ \E month \in Months, scope \in Scopes, wanted \in NumberInputs, snapshot \in Settings :
       Issue(month, scope, wanted, snapshot)
  \/ \E inv \in book : Withdraw(inv)

Spec == Init /\ [][Next]_vars

=============================================================================
