------------------------------- MODULE UserMove -------------------------------
(***************************************************************************)
(* cmd/migrate-to-user: a command line tool copies the legacy database     *)
(* into the database of a user, which it opens and migrates like the       *)
(* server, while the server may have it open, too.                         *)
(*                                                                         *)
(* Each of the four copies is a transaction.  The duplicate check of the   *)
(* invoices reads by another connection, but between the first INSERT and  *)
(* the commit nobody else writes, and the UNIQUE constraint decides about  *)
(* what was written before: a copy is one step.  A row that cannot be read *)
(* or inserted is logged and left out; a read that breaks off ends a copy  *)
(* as if it were complete, because no loop looks at rows.Err().            *)
(***************************************************************************)
EXTENDS Migrations

CONSTANTS
  Server, Tool,   \* the two processes
  LegacyEntries, LegacyRates, LegacyInvoices,  \* rows of the legacy database
  OwnNumbers,     \* numbers the user's own invoices may get
  SettingKeys,    \* rows of the settings
  MaxCopies       \* bound: how often a run may find rows to copy

Numbers == LegacyInvoices \cup OwnNumbers

ASSUME MoveAssumption == {Server, Tool} \subseteq Openers["user"] /\ Server # Tool /\ MaxCopies \in Nat

VARIABLES
  entries,    \* copies of each legacy entry in the user's database
  own,        \* entries of the user's own: 0 or 1
  rates,      \* copies of each legacy rate
  invoices,   \* invoice rows by number: who issued it, whose lines it has, and
              \* whose snapshot (customer, UTR, payment due, service dates)
  settings,   \* whose value each setting has
  move,       \* where the tool is: idle, asking, at one of its four copies, done
  confirmed,  \* the operator has answered "y" in some run
  runs        \* copies of the entries so far

tables   == <<entries, own, rates, invoices, settings>>
moveVars == <<entries, own, rates, invoices, settings, move, confirmed, runs>>
vars     == <<database, schema, recorded, drafts, proc, faults,
              entries, own, rates, invoices, settings, move, confirmed, runs>>

-----------------------------------------------------------------------------
\* Rows a table may have, and the rows of a map from numbers to invoices.
NoInvoice == [from |-> "nobody", lines |-> {}, snapshot |-> "nobody"]
Missing(n) == invoices[n] = NoInvoice
OwnInvoice == [from |-> "user", lines |-> {"user"}, snapshot |-> "user"]

\* A copied row has the columns of 001 only; those of later files get their
\* defaults.
Copied(lines) == [from |-> "legacy", lines |-> lines, snapshot |-> "nobody"]

EntryCount == IF own = 1 \/ \E e \in LegacyEntries : entries[e] > 0 THEN 1 ELSE 0

Init ==
  /\ MigrationInit
  /\ entries = [e \in LegacyEntries |-> 0]
  /\ own = 0
  /\ rates = [r \in LegacyRates |-> 0]
  /\ invoices = [n \in Numbers |-> NoInvoice]
  /\ settings = [k \in SettingKeys |-> "defaults"]
  /\ move = "idle"
  /\ confirmed = FALSE
  /\ runs = 0

\* The rows of a table that a copy inserts: all, unless one fails, which is
\* logged, or the read breaks off, which is not.
Inserted(rows, S) == IF S = rows THEN UNCHANGED faults ELSE Fault

-----------------------------------------------------------------------------
\* A migration step of a process; the tool that ends, ends its copying, too.
MigrationStep(p) ==
  /\ \/ Work(p) \/ CheckFails(p) \/ Breaks(p)
     \/ \E d \in Drafts : p = Server /\ StoreDraft(p, d)
     \/ (p # Tool \/ move \in {"idle", "done"}) /\ Close(p)
  /\ move' = IF p = Tool /\ proc'[p] = Closed THEN "idle" ELSE move
  /\ UNCHANGED <<entries, own, rates, invoices, settings, confirmed, runs>>

\* Mutant: the rates are counted in place of the entries.
CountRates ==
  /\ At(Tool, "open") /\ move = "idle"
  /\ runs < MaxCopies
  /\ move' = IF \E r \in LegacyRates : rates[r] > 0 THEN "asking" ELSE "entries"
  /\ UNCHANGED <<migrationVars, tables, confirmed, runs>>

\* The tool has opened the store and looks whether it has entries.
CountEntries ==
  /\ At(Tool, "open") /\ move = "idle"
  /\ runs < MaxCopies
  /\ move' = IF EntryCount > 0 THEN "asking" ELSE "entries"
  /\ UNCHANGED <<migrationVars, tables, confirmed, runs>>

\* "Continue? (y/N)".
Answer(yes) ==
  /\ move = "asking"
  /\ confirmed' = (confirmed \/ yes)
  /\ move' = IF yes THEN "entries" ELSE "done"
  /\ UNCHANGED <<migrationVars, tables, runs>>

\* migrateEntries.
CopyEntries ==
  /\ move = "entries"
  /\ \E S \in SUBSET LegacyEntries :
       /\ Inserted(LegacyEntries, S)
       /\ entries' = [e \in LegacyEntries |-> entries[e] + (IF e \in S THEN 1 ELSE 0)]
  /\ move' = "rates"
  /\ runs' = runs + 1
  /\ UNCHANGED <<database, schema, recorded, drafts, proc, own, rates, invoices, settings, confirmed>>

\* migrateRates: no overlap is looked for.
CopyRates ==
  /\ move = "rates"
  /\ \E S \in SUBSET LegacyRates :
       /\ Inserted(LegacyRates, S)
       /\ rates' = [r \in LegacyRates |-> rates[r] + (IF r \in S THEN 1 ELSE 0)]
  /\ move' = "invoices"
  /\ UNCHANGED <<database, schema, recorded, drafts, proc, entries, own, invoices, settings, confirmed, runs>>

\* Mutant: a number that is there already is reported, and its lines are copied.
CopyInvoicesAndLines ==
  /\ move = "invoices"
  /\ \E S \in SUBSET LegacyInvoices :
       /\ Inserted(LegacyInvoices, S)
       /\ invoices' = [n \in Numbers |->
            IF n \notin S THEN invoices[n]
            ELSE IF Missing(n) THEN Copied({"legacy"})
            ELSE [invoices[n] EXCEPT !.lines = @ \cup {"legacy"}]]
  /\ move' = "settings"
  /\ UNCHANGED <<database, schema, recorded, drafts, proc, entries, own, rates, settings, confirmed, runs>>

\* migrateInvoices.  A number that is there already is skipped with its lines.
\* Lines are looked up by the number, not by the legacy id.  They may be lost
\* without their invoice: a query or scan of them that fails is passed over in
\* silence, an INSERT is logged.
CopyInvoices ==
  /\ move = "invoices"
  /\ \E S \in SUBSET LegacyInvoices, bare \in SUBSET LegacyInvoices :
       /\ bare \subseteq S
       /\ Inserted(LegacyInvoices, S \ bare)
       /\ invoices' = [n \in Numbers |->
            IF n \in S /\ Missing(n) THEN Copied(IF n \in bare THEN {} ELSE {"legacy"})
            ELSE invoices[n]]
  /\ move' = "settings"
  /\ UNCHANGED <<database, schema, recorded, drafts, proc, entries, own, rates, settings, confirmed, runs>>

\* migrateSettings: INSERT OR REPLACE, over what the user has saved.
CopySettings ==
  /\ move = "settings"
  /\ \E S \in SUBSET SettingKeys :
       /\ Inserted(SettingKeys, S)
       /\ settings' = [k \in SettingKeys |-> IF k \in S THEN "legacy" ELSE settings[k]]
  /\ move' = "done"
  /\ UNCHANGED <<database, schema, recorded, drafts, proc, entries, own, rates, invoices, confirmed, runs>>

\* A copy cannot begin, or its commit fails: nothing of it is there, the error is
\* logged, and the next copy begins.
CopyFails ==
  LET next == [entries |-> "rates", rates |-> "invoices", invoices |-> "settings", settings |-> "done"]
  IN  /\ move \in DOMAIN next
      /\ Fault
      /\ move' = next[move]
      /\ runs' = IF move = "entries" THEN runs + 1 ELSE runs
      /\ UNCHANGED <<database, schema, recorded, drafts, proc, tables, confirmed>>

-----------------------------------------------------------------------------
\* The user works in the server meanwhile.
UserActs ==
  /\ At(Server, "open") /\ database = "user"
  /\ \/ \* an entry of the user's own, or its deletion
        /\ own' = 1 - own
        /\ UNCHANGED <<entries, rates, invoices, settings>>
     \/ \E e \in LegacyEntries :
        /\ entries[e] > 0
        /\ entries' = [entries EXCEPT ![e] = @ - 1]
        /\ UNCHANGED <<own, rates, invoices, settings>>
     \/ \E n \in OwnNumbers :
        /\ Missing(n)
        /\ invoices' = [invoices EXCEPT ![n] = OwnInvoice]
        /\ UNCHANGED <<entries, own, rates, settings>>
     \/ /\ settings' = [k \in SettingKeys |-> "user"]
        /\ UNCHANGED <<entries, own, rates, invoices>>
  /\ UNCHANGED <<migrationVars, move, confirmed, runs>>

ToolStep == CountEntries \/ CopyEntries \/ CopyRates \/ CopyInvoices \/ CopySettings
            \/ \E yes \in BOOLEAN : Answer(yes)

Next ==
  \/ \E p \in Procs : MigrationStep(p)
  \/ ToolStep \/ CopyFails
  \/ UserActs

Spec == Init /\ [][Next]_vars

\* A failed migration is tried again, and each statement of a migration ends, if
\* only by the busy timeout.
FairSpec == Spec /\ \A p \in Procs : WF_vars(Work(p) /\ MigrationStep(p))

-----------------------------------------------------------------------------
\* No migration loses a draft or why it needs review, also when a process that
\* looked long ago runs a file late, or a file runs again after a crash.
DraftsKept ==
  [][\A d \in Drafts : drafts[d] = "reason" => drafts'[d] = "reason"]_vars

\* A database whose migration was begun is open in the end: neither a crash
\* between a file and its record nor another process at the same file keeps it
\* from being migrated.
OpensInTheEnd == \A p \in Procs : At(p, "checking") ~> At(p, "open")

\* A legacy invoice whose number the user has given away meanwhile does not leave
\* its lines on the user's invoice.
LinesBelong == \A n \in Numbers : invoices[n].lines \subseteq {invoices[n].from}

\* Entries are never copied twice behind the operator's back, whatever failed in
\* an earlier run or was deleted since.
DoubledOnlyConfirmed == ~ confirmed => \A e \in LegacyEntries : entries[e] <= 1

=============================================================================
