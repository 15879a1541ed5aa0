----------------------------- MODULE MCOcrAgent ------------------------------
(***************************************************************************)
(* An instance of OcrAgent for TLC: two jobs at one service, one of two    *)
(* images and one of one.                                                  *)
(* The readings have an entry for every rule of validate_page, at its      *)
(* limits; a page has none, one or two of them.                            *)
(***************************************************************************)
EXTENDS OcrAgent

CONSTANTS j1, j2

-----------------------------------------------------------------------------
MCImages == [j \in Jobs |-> IF j = j1 THEN 2 ELSE 1]

MCTexts    == {"", "?", "Dev", "dev", "dev ", "Devices"}
MCFold     == [t \in MCTexts |-> IF t = "Dev" THEN "dev" ELSE t]
MCCasefold == MCFold
MCTrim     == [t \in MCTexts |-> IF t = "dev " THEN "dev" ELSE t]
MCSimilar  ==
  [t \in MCTexts |-> IF t \in {"Dev", "dev"} THEN {"Dev", "dev", "Devices"} ELSE {t}]

MCHints ==
  {[categories |-> {"Dev", "Devices"},
    rates |-> {[category |-> "Dev", from |-> 2, to |-> 3], [category |-> "Devices", from |-> 4, to |-> 9]}],
   [categories |-> {"Dev"}, rates |-> {}]}

Day(d)   == [service |-> d, program |-> d]
Hours(n) == [service |-> n, program |-> n]

Good     == [raw |-> "Dev", category |-> "Dev", day |-> Day(3), hours |-> Hours(1),
             confidence |-> 50, legible |-> TRUE, marked |-> FALSE, said |-> {}]
Late     == [Good EXCEPT !.day = Day(4)]
NoDate   == [Good EXCEPT !.raw = "dev ", !.category = "", !.day = Day(0)]
NoHours  == [Good EXCEPT !.category = "Devices", !.day = Day(5), !.hours = Hours(0),
                          !.confidence = 49, !.legible = FALSE, !.raw = "dev", !.marked = TRUE,
                          !.said = {"model"}]
\* The service accepts "2026-5-3", "1_0" and "dev"; the program none of them.
Loose    == [Good EXCEPT !.category = "dev", !.day.program = 0, !.hours.program = 0]

MCReadings == {<<>>, <<Good>>, <<NoDate, Loose>>, <<Late, NoHours>>}
=============================================================================
