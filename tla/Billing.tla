------------------------------- MODULE Billing -------------------------------
(***************************************************************************)
(* The arithmetic of billing: which rate covers which entry, when two      *)
(* rates overlap, what an invoice and the dashboard make of a set of       *)
(* entries and rates.  These are the SQL queries of internal/db/rates.go   *)
(* and internal/db/invoices.go as operators on sets of rows.               *)
(*                                                                         *)
(* A date is a positive number, in the order of the ISO strings the code   *)
(* compares; the empty end_date is NoEnd.  Hours are counted in units of   *)
(* 1/(100*Cent) hour and rates in whole pounds, so that a product is in    *)
(* units of 1/(100*Cent) pound and ROUND(x, 2) is Round2(x), in pence.     *)
(***************************************************************************)
EXTENDS Integers, FiniteSets, FiniteSetsExt

CONSTANTS
  Dates,      \* the dates a form can carry
  Months,     \* their months
  MonthOf,    \* strftime('%Y-%m', date)
  Cats,       \* category names
  All,        \* the literal 'All' of the invoice form
  Cent,       \* units in a hundredth
  Slug,       \* invoiceSlug of a category, "ALL" for All
  Blank,      \* an invoice number field left empty
  MaxSuffix   \* 9999 in nextInvoiceNumber

ASSUME DatesAssumption  == Dates \subseteq Nat \ {0}
ASSUME MonthAssumption  == MonthOf \in [Dates -> Months]
ASSUME CentAssumption   == Cent \in Nat \ {0}

NoEnd == 0

Scopes  == Cats \cup {All}
Slugs   == {Slug[s] : s \in Scopes}
Numbers == [month : Months, slug : Slugs, suffix : 1 .. MaxSuffix]

ASSUME SlugAssumption   == DOMAIN Slug = Scopes
ASSUME NumberAssumption == Blank \notin Numbers /\ MaxSuffix \in Nat

-----------------------------------------------------------------------------
\* r.start_date <= date AND (r.end_date = '' OR date <= r.end_date)
Covers(r, date) ==
  /\ r.start <= date
  /\ \/ r.end = NoEnd
     \/ date <= r.end

\* The JOIN condition between an entry and a rate.
Prices(r, e) == r.cat = e.cat /\ Covers(r, e.date)

\* Mutant: ranges that only touch are let through.
OverlapsInside(new, old) ==
  /\ old.cat = new.cat
  /\ \/ old.end = NoEnd
     \/ old.end > new.start
  /\ \/ new.end = NoEnd
     \/ old.start < new.end

\* The WHERE clause of checkRateOverlap for a new range against a stored one.
Overlaps(new, old) ==
  /\ old.cat = new.cat
  /\ \/ old.end = NoEnd
     \/ old.end >= new.start
  /\ \/ new.end = NoEnd
     \/ old.start <= new.end

\* createRate and updateRate refuse a range that ends before it starts.
ValidRange(r) == r.end = NoEnd \/ r.start <= r.end

\* ROUND(x, 2) of a positive amount: to the nearest, halves up.
Round2(x) == (2 * x + Cent) \div (2 * Cent)

-----------------------------------------------------------------------------
InScope(E, month, scope) ==
  {e \in E : MonthOf[e.date] = month /\ scope \in {All, e.cat}}

Unrated(E, R, month, scope) ==
  {e \in InScope(E, month, scope) : \A r \in R : ~ Prices(r, e)}

\* entries JOIN rates: an entry appears once for every rate that prices it.
Priced(E, R, month, scope) ==
  {er \in InScope(E, month, scope) \X R : Prices(er[2], er[1])}

Hours(pairs)  == MapThenSumSet(LAMBDA er : er[1].hours, pairs)
Amount(pairs) == MapThenSumSet(LAMBDA er : er[1].hours * er[2].rate, pairs)

\* GROUP BY category, rate.
InvoiceLines(E, R, month, scope) ==
  LET pairs == Priced(E, R, month, scope)
      LineOf(c, v) ==
        LET group == {er \in pairs : er[1].cat = c /\ er[2].rate = v}
        IN  [cat    |-> c,
             rate   |-> v,
             hours  |-> Round2(Hours(group)),
             amount |-> Round2(Amount(group)),
             dates  |-> {er[1].date : er \in group}]
  IN {LineOf(er[1].cat, er[2].rate) : er \in pairs}

InvoiceTotal(lines) == MapThenSumSet(LAMBDA l : l.amount, lines)

\* Mutant: the dashboard joins rates on the category alone.
MonthSummaryAnyRate(E, R, month) ==
  LET pairs == {er \in InScope(E, month, All) \X R : er[1].cat = er[2].cat}
      RowOf(c) ==
        LET group == {er \in pairs : er[1].cat = c}
        IN  [cat |-> c, hours |-> Round2(Hours(group)), amount |-> Round2(Amount(group))]
  IN {RowOf(er[1].cat) : er \in pairs}

\* FilteredSummary of one month: GROUP BY category only.
MonthSummary(E, R, month) ==
  LET pairs == Priced(E, R, month, All)
      RowOf(c) ==
        LET group == {er \in pairs : er[1].cat = c}
        IN  [cat |-> c, hours |-> Round2(Hours(group)), amount |-> Round2(Amount(group))]
  IN {RowOf(er[1].cat) : er \in pairs}

-----------------------------------------------------------------------------
\* The number given in the form unless it is taken; else the first free one of
\* INV-month-slug, INV-month-slug-2, ... up to MaxSuffix.  Empty if there is none.
Allocatable(month, scope, wanted, used) ==
  LET auto(k) == [month |-> month, slug |-> Slug[scope], suffix |-> k]
      free    == {k \in 1 .. MaxSuffix : auto(k) \notin used}
  IN  IF wanted = Blank
      THEN {auto(k) : k \in {i \in free : \A j \in free : i <= j}}
      ELSE {wanted} \ used

=============================================================================
