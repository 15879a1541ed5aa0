------------------------------- MODULE Ledger --------------------------------
(***************************************************************************)
(* One user's ledger: entries, rates, settings and invoices in a SQLite    *)
(* file, and the HTTP requests that read and change it concurrently.       *)
(*                                                                         *)
(* A request is a process that runs one handler.  A handler is one action  *)
(* per database statement or transaction step, because net/http runs every *)
(* request in its own goroutine and only SQLite orders their statements.   *)
(* SQLite in WAL mode is modelled by what the code relies on:              *)
(*   - a transaction opened with Begin() is deferred: its first SELECT     *)
(*     fixes the snapshot it reads, its first INSERT asks for the write    *)
(*     lock, which is refused (SQLITE_BUSY) when another transaction holds *)
(*     it or when a commit has made the snapshot old;                      *)
(*   - a single statement is a transaction of its own.                     *)
(***************************************************************************)
EXTENDS Billing

CONSTANTS
  Requests,        \* request slots: how many handlers may run at once
  EntryInputs,     \* validated entry forms
  RateInputs,      \* validated rate forms
  NumberInputs,    \* what the invoice number field may hold
  Settings,        \* whole contents of the settings table
  Nobody,          \* no holder of the write lock
  MaxEntries, MaxRates, MaxInvoices   \* bounds on the AUTOINCREMENT ids

EntryForm == [cat : Cats, date : Dates, hours : Nat \ {0}]
RateForm  == [cat : Cats, start : Dates, end : Dates \cup {NoEnd}, rate : Nat \ {0}]

ASSUME InputAssumption ==
  /\ EntryInputs \subseteq EntryForm
  /\ RateInputs \subseteq {r \in RateForm : ValidRange(r)}
  /\ NumberInputs \subseteq Numbers \cup {Blank}
ASSUME NobodyAssumption == Nobody \notin Requests

VARIABLES
  entries,      \* table entries
  rates,        \* table rates
  settings,     \* table settings
  invoices,     \* table invoices
  lines,        \* table invoice_lines
  nextId,       \* next AUTOINCREMENT id of entries, rates and invoices
  req,          \* what each request is doing
  missed,       \* kinds of commits that overtook a request's snapshot
  writer,       \* the transaction that holds the write lock
  pooled        \* a second connection of the pool has been opened

vars == <<entries, rates, settings, invoices, lines, nextId, req, missed, writer, pooled>>
tables == <<entries, rates, settings, invoices, lines, nextId>>

-----------------------------------------------------------------------------
Idle == [op |-> "idle", res |-> "done"]
Busy == [op |-> "idle", res |-> "busy"]

Kinds == {"entry", "rate", "settings", "invoice"}

EntryRow(id, in) == [id |-> id, cat |-> in.cat, date |-> in.date, hours |-> in.hours]
RateRow(id, in)  == [id |-> id, cat |-> in.cat, start |-> in.start, end |-> in.end, rate |-> in.rate]

Running(p)    == req[p].op # "idle"
Doing(op)     == {p \in Requests : req[p].op = op}
UsedNumbers   == {inv.number : inv \in invoices}
LinesOf(id)   == {l.line : l \in {k \in lines : k.invoice = id}}

\* ListCategories, which entryCategoryExists searches.
Categories == {e.cat : e \in entries} \cup {r.cat : r \in rates}

\* Mutant: the INSERT stores the form's id instead of a fresh one.
SavedAsGiven(table, row, fresh) ==
  IF row.id = 0 THEN table \cup {row}
                ELSE {IF old.id = row.id THEN row ELSE old : old \in table}

\* INSERT when the row carries no id yet, UPDATE ... WHERE id = ? otherwise.
Saved(table, row, fresh) ==
  IF row.id = 0 THEN table \cup {[row EXCEPT !.id = fresh]}
                ELSE {IF old.id = row.id THEN row ELSE old : old \in table}

-----------------------------------------------------------------------------
Init ==
  /\ entries = {}
  /\ rates = {}
  /\ settings \in Settings
  /\ invoices = {}
  /\ lines = {}
  /\ nextId = [entry |-> 1, rate |-> 1, invoice |-> 1]
  /\ req = [p \in Requests |-> Idle]
  /\ missed = [p \in Requests |-> {}]
  /\ writer = Nobody
  /\ pooled = FALSE

\* A statement of p needs a connection; database/sql opens another one when
\* those of the pool are in use.  Only the first ever ran Open's PRAGMAs.
Connect(p) ==
  pooled' = (pooled \/ \E q \in Requests \ {p} : Running(q))

Respond(p, answer) == req' = [req EXCEPT ![p] = answer]

\* Mutant: the SELECTs run on the store, not on the transaction, and fix no
\* snapshot that could grow old.
OvertakeNobody(p, kind) == UNCHANGED missed

\* A commit of request p makes the snapshot of every other reader old.  (An
\* UPDATE that finds its row gone counts as a commit too; SQLite would let the
\* reader go on, as it does here when the UPDATE comes before the read.)
Overtake(p, kind) ==
  missed' = [q \in Requests |-> IF q # p /\ req[q].op = "read"
                                THEN missed[q] \cup {kind}
                                ELSE missed[q]]

-----------------------------------------------------------------------------
\* createEntry (id 0) and updateEntry: entryCategoryExists, a query of its own ...
CheckEntry(p, id, in) ==
  /\ ~ Running(p)
  /\ id = 0 => nextId.entry + Cardinality(Doing("entry")) <= MaxEntries
  /\ IF in.cat \in Categories
     THEN Respond(p, [op |-> "entry", row |-> EntryRow(id, in)])
     ELSE Respond(p, Idle)
  /\ Connect(p)
  /\ UNCHANGED <<tables, missed, writer>>

\* ... then CreateEntry or UpdateEntry.
WriteEntry(p) ==
  /\ req[p].op = "entry"
  /\ writer = Nobody
  /\ entries' = Saved(entries, req[p].row, nextId.entry)
  /\ nextId' = [nextId EXCEPT !.entry = IF req[p].row.id = 0 THEN @ + 1 ELSE @]
  /\ Overtake(p, "entry")
  /\ Respond(p, Idle)
  /\ Connect(p)
  /\ UNCHANGED <<rates, settings, invoices, lines, writer>>

DeleteEntry(p, id) ==
  /\ ~ Running(p)
  /\ writer = Nobody
  /\ \E e \in entries : e.id = id
  /\ entries' = {e \in entries : e.id # id}
  /\ Overtake(p, "entry")
  /\ Respond(p, Idle)
  /\ Connect(p)
  /\ UNCHANGED <<rates, settings, invoices, lines, nextId, writer>>

\* Mutant: only new rates are checked.
CheckNewRate(p, id, in) ==
  /\ ~ Running(p)
  /\ id = 0 => nextId.rate + Cardinality(Doing("rate")) <= MaxRates
  /\ IF id = 0 /\ \E old \in rates : Overlaps(in, old)
     THEN Respond(p, Idle)
     ELSE Respond(p, [op |-> "rate", row |-> RateRow(id, in)])
  /\ Connect(p)
  /\ UNCHANGED <<tables, missed, writer>>

\* CreateRate (id 0) and UpdateRate: checkRateOverlap, a query of its own ...
CheckRate(p, id, in) ==
  /\ ~ Running(p)
  /\ id = 0 => nextId.rate + Cardinality(Doing("rate")) <= MaxRates
  /\ IF \E old \in rates : old.id # id /\ Overlaps(in, old)
     THEN Respond(p, Idle)
     ELSE Respond(p, [op |-> "rate", row |-> RateRow(id, in)])
  /\ Connect(p)
  /\ UNCHANGED <<tables, missed, writer>>

\* ... then the INSERT or UPDATE.
WriteRate(p) ==
  /\ req[p].op = "rate"
  /\ writer = Nobody
  /\ rates' = Saved(rates, req[p].row, nextId.rate)
  /\ nextId' = [nextId EXCEPT !.rate = IF req[p].row.id = 0 THEN @ + 1 ELSE @]
  /\ Overtake(p, "rate")
  /\ Respond(p, Idle)
  /\ Connect(p)
  /\ UNCHANGED <<entries, settings, invoices, lines, writer>>

DeleteRate(p, id) ==
  /\ ~ Running(p)
  /\ writer = Nobody
  /\ \E r \in rates : r.id = id
  /\ rates' = {r \in rates : r.id # id}
  /\ Overtake(p, "rate")
  /\ Respond(p, Idle)
  /\ Connect(p)
  /\ UNCHANGED <<entries, settings, invoices, lines, nextId, writer>>

SaveSettings(p, new) ==
  /\ ~ Running(p)
  /\ writer = Nobody
  /\ settings' = new
  /\ Overtake(p, "settings")
  /\ Respond(p, Idle)
  /\ Connect(p)
  /\ UNCHANGED <<entries, rates, invoices, lines, nextId, writer>>

-----------------------------------------------------------------------------
\* generateInvoice loads the settings before the transaction starts.
LoadSettings(p, month, scope, number) ==
  /\ ~ Running(p)
  /\ nextId.invoice + Cardinality({q \in Requests : req[q].op \in {"loaded", "read", "writing"}})
       <= MaxInvoices
  /\ Respond(p, [op |-> "loaded", month |-> month, scope |-> scope, wanted |-> number, settings |-> settings])
  /\ Connect(p)
  /\ UNCHANGED <<tables, missed, writer>>

\* GenerateInvoice up to its first INSERT.  All SELECTs see one snapshot: no
\* unrated entry, at least one line, a number to use.
ReadInvoice(p) ==
  LET r     == req[p]
      found == InvoiceLines(entries, rates, r.month, r.scope)
  IN  /\ r.op = "loaded"
      /\ Unrated(entries, rates, r.month, r.scope) = {}
      /\ found # {}
      /\ \E number \in Allocatable(r.month, r.scope, r.wanted, UsedNumbers) :
           Respond(p, [op |-> "read", month |-> r.month, scope |-> r.scope, wanted |-> r.wanted,
                       settings |-> r.settings, lines |-> found, number |-> number])
      /\ Connect(p)
      /\ UNCHANGED <<tables, missed, writer>>

\* ... or the transaction is rolled back with an error message.
RejectInvoice(p) ==
  LET r == req[p]
  IN  /\ r.op = "loaded"
      /\ \/ Unrated(entries, rates, r.month, r.scope) # {}
         \/ InvoiceLines(entries, rates, r.month, r.scope) = {}
         \/ Allocatable(r.month, r.scope, r.wanted, UsedNumbers) = {}
      /\ Respond(p, Idle)
      /\ Connect(p)
      /\ UNCHANGED <<tables, missed, writer>>

\* Mutant: the lock is granted whatever was committed since the reads.
InsertStale(p) ==
  /\ req[p].op = "read"
  /\ writer = Nobody
  /\ writer' = p
  /\ req' = [req EXCEPT ![p].op = "writing"]
  /\ UNCHANGED <<tables, missed, pooled>>

\* The first INSERT takes the write lock: only for a snapshot that is still the
\* last commit.  The UNIQUE constraint cannot fire then.
InsertInvoice(p) ==
  /\ req[p].op = "read"
  /\ writer = Nobody
  /\ missed[p] = {}
  /\ writer' = p
  /\ req' = [req EXCEPT ![p].op = "writing"]
  /\ UNCHANGED <<tables, missed, pooled>>

\* Mutant: a transaction with an old snapshot waits instead of failing.
RefusedByLock(p) ==
  /\ req[p].op = "read"
  /\ writer # Nobody
  /\ missed' = [missed EXCEPT ![p] = {}]
  /\ Respond(p, Busy)
  /\ UNCHANGED <<tables, writer, pooled>>

\* SQLITE_BUSY: the deferred rollback runs and the user reads an error.
InsertRefused(p) ==
  /\ req[p].op = "read"
  /\ \/ writer # Nobody
     \/ missed[p] # {}
  /\ missed' = [missed EXCEPT ![p] = {}]
  /\ Respond(p, Busy)
  /\ UNCHANGED <<tables, writer, pooled>>

\* The lines are inserted and the transaction commits.
CommitInvoice(p) ==
  LET r  == req[p]
      id == nextId.invoice
  IN  /\ r.op = "writing"
      /\ writer' = Nobody
      /\ invoices' = invoices \cup
           {[id |-> id, number |-> r.number, month |-> r.month, scope |-> r.scope,
             total |-> InvoiceTotal(r.lines), settings |-> r.settings]}
      /\ lines' = lines \cup {[invoice |-> id, line |-> l] : l \in r.lines}
      /\ nextId' = [nextId EXCEPT !.invoice = @ + 1]
      /\ Overtake(p, "invoice")
      /\ Respond(p, Idle)
      /\ UNCHANGED <<entries, rates, settings, pooled>>

\* DELETE FROM invoices; the lines go by ON DELETE CASCADE, which SQLite obeys
\* only on a connection that ran PRAGMA foreign_keys = ON.
DeleteInvoice(p, id) ==
  /\ ~ Running(p)
  /\ writer = Nobody
  /\ \E inv \in invoices : inv.id = id
  /\ invoices' = {inv \in invoices : inv.id # id}
  /\ Connect(p)
  /\ \/ lines' = {l \in lines : l.invoice # id}
     \/ pooled' /\ lines' = lines
  /\ Overtake(p, "invoice")
  /\ Respond(p, Idle)
  /\ UNCHANGED <<entries, rates, settings, nextId, writer>>

-----------------------------------------------------------------------------
\* A single statement that finds the database locked (at once on a connection
\* without busy_timeout, after 5 s on the first one) fails its request.
WriteRefused(p) ==
  /\ req[p].op \in {"idle", "entry", "rate"}
  /\ writer # Nobody
  /\ Respond(p, Busy)
  /\ Connect(p)
  /\ UNCHANGED <<tables, missed, writer>>

\* The process dies and starts again: SQLite rolls the open transactions back.
Restart ==
  /\ req' = [p \in Requests |-> Idle]
  /\ missed' = [p \in Requests |-> {}]
  /\ writer' = Nobody
  /\ pooled' = FALSE
  /\ UNCHANGED tables

EntryRequest(p) ==
  \/ \E id \in 0 .. MaxEntries, in \in EntryInputs : CheckEntry(p, id, in)
  \/ WriteEntry(p)
  \/ \E id \in 1 .. MaxEntries : DeleteEntry(p, id)

RateRequest(p) ==
  \/ \E id \in 0 .. MaxRates, in \in RateInputs : CheckRate(p, id, in)
  \/ WriteRate(p)
  \/ \E id \in 1 .. MaxRates : DeleteRate(p, id)

InvoiceRequest(p) ==
  \/ \E month \in Months, scope \in Scopes, number \in NumberInputs :
       LoadSettings(p, month, scope, number)
  \/ ReadInvoice(p)
  \/ RejectInvoice(p)
  \/ InsertInvoice(p)
  \/ InsertRefused(p)
  \/ CommitInvoice(p)
  \/ \E id \in 1 .. MaxInvoices : DeleteInvoice(p, id)

Next ==
  \/ \E p \in Requests :
       \/ EntryRequest(p)
       \/ RateRequest(p)
       \/ \E new \in Settings : SaveSettings(p, new)
       \/ InvoiceRequest(p)
       \/ WriteRefused(p)
  \/ Restart

Spec == Init /\ [][Next]_vars

\* A handler that has started runs to its end: the Go scheduler runs every
\* goroutine and SQLite answers every statement, if only with SQLITE_BUSY.
\* Nobody has to send a request.
Continue(p) ==
  /\ Running(p)
  /\ \/ WriteEntry(p) \/ WriteRate(p) \/ WriteRefused(p)
     \/ ReadInvoice(p) \/ RejectInvoice(p)
     \/ InsertInvoice(p) \/ InsertRefused(p) \/ CommitInvoice(p)

FairSpec == Spec /\ \A p \in Requests : WF_vars(Continue(p))

-----------------------------------------------------------------------------
EntryRows == [id : Nat, cat : Cats, date : Dates, hours : Nat \ {0}]
RateRows  == [id : Nat, cat : Cats, start : Dates, end : Dates \cup {NoEnd}, rate : Nat \ {0}]

\* A request whose transaction is open holds what its SELECTs returned.
InTransaction(r) ==
  /\ r.op \in {"read", "writing"}
  /\ r = [op |-> r.op, month |-> r.month, scope |-> r.scope, wanted |-> r.wanted,
          settings |-> r.settings, lines |-> r.lines, number |-> r.number]
  /\ r.month \in Months
  /\ r.scope \in Scopes
  /\ r.wanted \in NumberInputs
  /\ r.settings \in Settings
  /\ r.number \in Numbers

RequestState(r) ==
  \/ r \in {Idle, Busy}
  \/ r \in [op : {"entry"}, row : EntryRows]
  \/ r \in [op : {"rate"}, row : RateRows]
  \/ r \in [op : {"loaded"}, month : Months, scope : Scopes, wanted : NumberInputs,
            settings : Settings]
  \/ InTransaction(r)

\* Types.  Every stored row has an id the counter has already passed.
TypeOK ==
  /\ nextId \in [entry : Nat \ {0}, rate : Nat \ {0}, invoice : Nat \ {0}]
  /\ entries \subseteq EntryRows
  /\ \A e \in entries : e.id \in 1 .. nextId.entry - 1
  /\ rates \subseteq RateRows
  /\ \A r \in rates : r.id \in 1 .. nextId.rate - 1
  /\ settings \in Settings
  /\ \A inv \in invoices : /\ inv.id \in 1 .. nextId.invoice - 1
                           /\ inv.number \in Numbers
                           /\ inv.month \in Months
                           /\ inv.scope \in Scopes
                           /\ inv.settings \in Settings
  /\ \A l \in lines : l.invoice \in 1 .. nextId.invoice - 1
  /\ DOMAIN req = Requests
  /\ \A p \in Requests : RequestState(req[p])
  /\ missed \in [Requests -> SUBSET Kinds]
  /\ writer \in Requests \cup {Nobody}
  /\ pooled \in BOOLEAN

\* The write lock is held by the one transaction that has inserted, and no
\* commit of another request falls between its INSERT and its COMMIT.
OneWriter ==
  \A p \in Requests : /\ req[p].op = "writing" <=> writer = p
                      /\ req[p].op = "writing" => missed[p] = {}

\* The reads of GenerateInvoice (no unrated entry, the lines, the number) are
\* spread over several queries, with edits of the ledger in between; as long as
\* the transaction can still commit, they are what the tables say now.
SnapshotCurrent ==
  \A p \in Requests :
    LET r == req[p]
    IN  r.op \in {"read", "writing"} /\ missed[p] = {}
          => /\ Unrated(entries, rates, r.month, r.scope) = {}
             /\ r.lines = InvoiceLines(entries, rates, r.month, r.scope)
             /\ r.lines # {}
             /\ r.number \in Allocatable(r.month, r.scope, r.wanted, UsedNumbers)

\* No two invoices share a number, nor an id, however many requests generate
\* and delete invoices at once.
UniqueNumbers ==
  \A i, j \in invoices : i.number = j.number \/ i.id = j.id => i = j

BookState ==
  {[id |-> inv.id, number |-> inv.number, month |-> inv.month, scope |-> inv.scope,
    total |-> inv.total, settings |-> inv.settings, lines |-> LinesOf(inv.id)] : inv \in invoices}

Book == INSTANCE InvoiceBook WITH nextInvoice <- nextId.invoice, book <- BookState

\* Every invoice is issued as if GenerateInvoice ran alone at its commit, and
\* stays as issued: the ledger implements InvoiceBook.
ImplementsBook == Book!Spec

\* No date is priced by two rates of one category: what checkRateOverlap is for.
NoOverlappingRates ==
  \A r, s \in rates : r # s /\ r.cat = s.cat
    => ~ \E d \in Dates : Covers(r, d) /\ Covers(s, d)

\* An invoice that may be generated bills every hour in its scope once: its
\* lines add up to the hours of the entries, give or take half a hundredth a line.
BilledOnce ==
  \A month \in Months, scope \in Scopes :
    LET billed == InvoiceLines(entries, rates, month, scope)
        worked == MapThenSumSet(LAMBDA e : e.hours, InScope(entries, month, scope))
        gap    == Cent * MapThenSumSet(LAMBDA l : l.hours, billed) - worked
    IN  Unrated(entries, rates, month, scope) = {}
          => 2 * gap \in - Cent * Cardinality(billed) .. Cent * Cardinality(billed)

\* The dashboard, which rounds per category, and an invoice for All, which
\* rounds per category and rate, differ by less than a penny a row.
DashboardAgrees ==
  \A month \in Months :
    LET shown  == MonthSummary(entries, rates, month)
        billed == InvoiceLines(entries, rates, month, All)
        rows   == Cardinality(shown) + Cardinality(billed)
        gap    == MapThenSumSet(LAMBDA s : s.amount, shown) - InvoiceTotal(billed)
    IN  2 * gap \in - rows .. rows

\* No handler hangs: every request is answered, although transactions wait for
\* a lock and snapshots grow old.
EveryRequestAnswered ==
  \A p \in Requests : Running(p) ~> ~ Running(p)

=============================================================================
