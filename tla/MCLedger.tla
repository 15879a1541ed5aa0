------------------------------ MODULE MCLedger -------------------------------
(***************************************************************************)
(* Instances of Ledger for TLC: two dates of one month and two adjoining   *)
(* or overlapping rate ranges.                                             *)
(***************************************************************************)
EXTENDS Ledger, TLC

CONSTANTS dev, ops, jan, feb, p1, p2, s1, s2

-----------------------------------------------------------------------------
\* Concurrent requests on one category: an entry on the second date, a range
\* that leaves it unrated and an open one that prices it.
MCDates   == 1 .. 2
MCMonthOf == [d \in MCDates |-> jan]
MCSlug    == [s \in {dev, All} |-> s]
MCEntries == {[cat |-> dev, date |-> 2, hours |-> 2]}
MCRates   == {[cat |-> dev, start |-> 1, end |-> 1, rate |-> 2],
              [cat |-> dev, start |-> 1, end |-> NoEnd, rate |-> 1]}
MCNumbers == {Blank, [month |-> jan, slug |-> dev, suffix |-> 2]}

RequestSymmetry == Permutations(Requests)

-----------------------------------------------------------------------------
\* One request at a time on two categories whose names make the same slug, two
\* months, ranges that touch, nest and stay open, and hours that do not round.
SerialDates   == 1 .. 3
SerialMonthOf == [d \in SerialDates |-> IF d < 3 THEN jan ELSE feb]
SerialSlug    == [s \in {dev, ops, All} |-> IF s = All THEN All ELSE dev]
SerialEntries == {[cat |-> dev, date |-> 1, hours |-> 1], [cat |-> dev, date |-> 2, hours |-> 3],
                  [cat |-> ops, date |-> 2, hours |-> 3], [cat |-> dev, date |-> 3, hours |-> 1]}
SerialRates   == {[cat |-> dev, start |-> 1, end |-> 1, rate |-> 3],
                  [cat |-> dev, start |-> 1, end |-> 2, rate |-> 1],
                  [cat |-> dev, start |-> 2, end |-> 2, rate |-> 1],
                  [cat |-> dev, start |-> 2, end |-> NoEnd, rate |-> 1],
                  [cat |-> ops, start |-> 1, end |-> NoEnd, rate |-> 1]}
SerialNumbers == {Blank}
=============================================================================
