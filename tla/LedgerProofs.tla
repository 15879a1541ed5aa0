---------------------------- MODULE LedgerProofs -----------------------------
(***************************************************************************)
(* Proofs about Ledger, for any number of requests and any set of forms.   *)
(***************************************************************************)
EXTENDS Ledger, Sums

-----------------------------------------------------------------------------
\* A number that may be allocated is well formed and not in use.
LEMMA AllocatableIsFree ==
  ASSUME NEW month \in Months, NEW scope \in Scopes,
         NEW wanted \in NumberInputs, NEW used,
         NEW number \in Allocatable(month, scope, wanted, used)
  PROVE  number \in Numbers /\ number \notin used
<1>1. CASE wanted = Blank
  <2> DEFINE auto(k) == [month |-> month, slug |-> Slug[scope], suffix |-> k]
  <2>1. PICK k \in 1 .. MaxSuffix : auto(k) \notin used /\ number = auto(k)
    BY <1>1 DEF Allocatable
  <2>2. Slug[scope] \in Slugs
    BY DEF Slugs
  <2> QED
    BY <2>1, <2>2 DEF Numbers
<1>2. CASE wanted # Blank
  BY <1>2, InputAssumption DEF Allocatable
<1> QED
  BY <1>1, <1>2

\* Rows of a table after Saved are the old ones, the updated one, or the new one.
LEMMA SavedRows ==
  ASSUME NEW T, NEW row, NEW fresh, NEW x \in Saved(T, row, fresh)
  PROVE  \/ x \in T
         \/ row.id = 0 /\ x = [row EXCEPT !.id = fresh]
         \/ row.id # 0 /\ x = row /\ \E old \in T : old.id = row.id
BY DEF Saved

LEMMA InitType == Init => TypeOK
<1> SUFFICES ASSUME Init PROVE TypeOK
  OBVIOUS
<1>1. nextId \in [entry : Nat \ {0}, rate : Nat \ {0}, invoice : Nat \ {0}]
  BY DEF Init
<1>2. DOMAIN req = Requests /\ \A p \in Requests : RequestState(req[p])
  BY DEF Init, RequestState
<1>3. missed \in [Requests -> SUBSET Kinds]
  BY DEF Init
<1> QED
  BY <1>1, <1>2, <1>3 DEF Init, TypeOK

\* Answering a request, or moving it to another well-formed state, keeps req typed.
LEMMA RespondType ==
  ASSUME DOMAIN req = Requests, \A p \in Requests : RequestState(req[p]),
         NEW p \in Requests, NEW answer, RequestState(answer), Respond(p, answer)
  PROVE  DOMAIN req' = Requests /\ \A q \in Requests : RequestState(req'[q])
BY DEF Respond

LEMMA OvertakeType ==
  ASSUME missed \in [Requests -> SUBSET Kinds], NEW p \in Requests,
         NEW kind \in Kinds, Overtake(p, kind)
  PROVE  missed' \in [Requests -> SUBSET Kinds]
BY DEF Overtake

LEMMA IdleState == RequestState(Idle) /\ RequestState(Busy)
BY DEF RequestState

LEMMA EntryRequestType ==
  ASSUME TypeOK, NEW p \in Requests, EntryRequest(p)
  PROVE  TypeOK'
<1> USE IdleState DEF TypeOK
<1>1. ASSUME NEW id \in 0 .. MaxEntries, NEW in \in EntryInputs, CheckEntry(p, id, in)
      PROVE  TypeOK'
  <2>1. EntryRow(id, in) \in EntryRows
    BY InputAssumption DEF EntryRow, EntryRows, EntryForm
  <2>2. RequestState([op |-> "entry", row |-> EntryRow(id, in)])
    BY <2>1 DEF RequestState
  <2>3. DOMAIN req' = Requests /\ \A q \in Requests : RequestState(req'[q])
    BY <1>1, <2>2, RespondType DEF CheckEntry
  <2> QED
    BY <1>1, <2>3 DEF CheckEntry, Connect, tables
<1>2. ASSUME WriteEntry(p) PROVE TypeOK'
  <2>1. req[p].row \in EntryRows
    BY <1>2 DEF WriteEntry, RequestState, Idle, Busy, InTransaction
  <2>2. DOMAIN req' = Requests /\ \A q \in Requests : RequestState(req'[q])
    BY <1>2, RespondType DEF WriteEntry
  <2>3. missed' \in [Requests -> SUBSET Kinds]
    BY <1>2, OvertakeType DEF WriteEntry, Kinds
  <2>4. nextId' \in [entry : Nat \ {0}, rate : Nat \ {0}, invoice : Nat \ {0}]
        /\ nextId.entry <= nextId'.entry /\ nextId'.invoice = nextId.invoice
        /\ nextId'.rate = nextId.rate
        /\ (req[p].row.id = 0 => nextId'.entry = nextId.entry + 1)
    BY <1>2 DEF WriteEntry
  <2>5. ASSUME NEW x \in entries' PROVE x \in EntryRows /\ x.id \in 1 .. nextId'.entry - 1
    <3>1. \/ x \in entries
          \/ req[p].row.id = 0 /\ x = [req[p].row EXCEPT !.id = nextId.entry]
          \/ req[p].row.id # 0 /\ x = req[p].row /\ \E old \in entries : old.id = req[p].row.id
      BY <1>2, <2>5, SavedRows DEF WriteEntry
    <3> QED
      BY <3>1, <2>1, <2>4 DEF EntryRows
  <2> QED
    BY <1>2, <2>2, <2>3, <2>4, <2>5 DEF WriteEntry, Connect
<1>3. ASSUME NEW id \in 1 .. MaxEntries, DeleteEntry(p, id) PROVE TypeOK'
  <2>2. DOMAIN req' = Requests /\ \A q \in Requests : RequestState(req'[q])
    BY <1>3, RespondType DEF DeleteEntry
  <2>3. missed' \in [Requests -> SUBSET Kinds]
    BY <1>3, OvertakeType DEF DeleteEntry, Kinds
  <2> QED
    BY <1>3, <2>2, <2>3 DEF DeleteEntry, Connect
<1> QED
  BY <1>1, <1>2, <1>3 DEF EntryRequest

LEMMA RateRequestType ==
  ASSUME TypeOK, NEW p \in Requests, RateRequest(p)
  PROVE  TypeOK'
<1> USE IdleState DEF TypeOK
<1>1. ASSUME NEW id \in 0 .. MaxRates, NEW in \in RateInputs, CheckRate(p, id, in)
      PROVE  TypeOK'
  <2>1. RateRow(id, in) \in RateRows
    BY InputAssumption DEF RateRow, RateRows, RateForm
  <2>2. RequestState([op |-> "rate", row |-> RateRow(id, in)])
    BY <2>1 DEF RequestState
  <2>3. DOMAIN req' = Requests /\ \A q \in Requests : RequestState(req'[q])
    BY <1>1, <2>2, RespondType DEF CheckRate
  <2> QED
    BY <1>1, <2>3 DEF CheckRate, Connect, tables
<1>2. ASSUME WriteRate(p) PROVE TypeOK'
  <2>1. req[p].row \in RateRows
    BY <1>2 DEF WriteRate, RequestState, Idle, Busy, InTransaction
  <2>2. DOMAIN req' = Requests /\ \A q \in Requests : RequestState(req'[q])
    BY <1>2, RespondType DEF WriteRate
  <2>3. missed' \in [Requests -> SUBSET Kinds]
    BY <1>2, OvertakeType DEF WriteRate, Kinds
  <2>4. nextId' \in [entry : Nat \ {0}, rate : Nat \ {0}, invoice : Nat \ {0}]
        /\ nextId.rate <= nextId'.rate /\ nextId'.invoice = nextId.invoice
        /\ nextId'.entry = nextId.entry
        /\ (req[p].row.id = 0 => nextId'.rate = nextId.rate + 1)
    BY <1>2 DEF WriteRate
  <2>5. ASSUME NEW x \in rates' PROVE x \in RateRows /\ x.id \in 1 .. nextId'.rate - 1
    <3>1. \/ x \in rates
          \/ req[p].row.id = 0 /\ x = [req[p].row EXCEPT !.id = nextId.rate]
          \/ req[p].row.id # 0 /\ x = req[p].row /\ \E old \in rates : old.id = req[p].row.id
      BY <1>2, <2>5, SavedRows DEF WriteRate
    <3> QED
      BY <3>1, <2>1, <2>4 DEF RateRows
  <2> QED
    BY <1>2, <2>2, <2>3, <2>4, <2>5 DEF WriteRate, Connect
<1>3. ASSUME NEW id \in 1 .. MaxRates, DeleteRate(p, id) PROVE TypeOK'
  <2>2. DOMAIN req' = Requests /\ \A q \in Requests : RequestState(req'[q])
    BY <1>3, RespondType DEF DeleteRate
  <2>3. missed' \in [Requests -> SUBSET Kinds]
    BY <1>3, OvertakeType DEF DeleteRate, Kinds
  <2> QED
    BY <1>3, <2>2, <2>3 DEF DeleteRate, Connect
<1> QED
  BY <1>1, <1>2, <1>3 DEF RateRequest

\* What a request in the middle of GenerateInvoice carries.
LEMMA LoadedFields ==
  ASSUME NEW r, RequestState(r), r.op = "loaded"
  PROVE  /\ r.month \in Months
         /\ r.scope \in Scopes
         /\ r.wanted \in NumberInputs
         /\ r.settings \in Settings
BY DEF RequestState, InTransaction, Idle, Busy

LEMMA TransactionFields ==
  ASSUME NEW r, RequestState(r), r.op \in {"read", "writing"}
  PROVE  InTransaction(r)
BY DEF RequestState, InTransaction, Idle, Busy

LEMMA InvoiceRequestType ==
  ASSUME TypeOK, NEW p \in Requests, InvoiceRequest(p)
  PROVE  TypeOK'
<1> USE IdleState DEF TypeOK
<1>1. ASSUME NEW month \in Months, NEW scope \in Scopes, NEW number \in NumberInputs,
             LoadSettings(p, month, scope, number)
      PROVE  TypeOK'
  <2>1. RequestState([op |-> "loaded", month |-> month, scope |-> scope, wanted |-> number,
                      settings |-> settings])
    BY DEF RequestState
  <2>2. DOMAIN req' = Requests /\ \A q \in Requests : RequestState(req'[q])
    BY <1>1, <2>1, RespondType DEF LoadSettings
  <2> QED
    BY <1>1, <2>2 DEF LoadSettings, Connect, tables
<1>2. ASSUME ReadInvoice(p) PROVE TypeOK'
  <2> DEFINE r     == req[p]
             found == InvoiceLines(entries, rates, r.month, r.scope)
  <2>1. PICK number \in Allocatable(r.month, r.scope, r.wanted, UsedNumbers) :
          Respond(p, [op |-> "read", month |-> r.month, scope |-> r.scope, wanted |-> r.wanted,
                      settings |-> r.settings, lines |-> found, number |-> number])
    BY <1>2 DEF ReadInvoice
  <2>2. /\ r.month \in Months /\ r.scope \in Scopes
        /\ r.wanted \in NumberInputs /\ r.settings \in Settings
    BY <1>2, LoadedFields DEF ReadInvoice
  <2>3. number \in Numbers
    BY <2>1, <2>2, AllocatableIsFree
  <2> HIDE DEF found
  <2>4. RequestState([op |-> "read", month |-> r.month, scope |-> r.scope, wanted |-> r.wanted,
                      settings |-> r.settings, lines |-> found, number |-> number])
    BY <2>2, <2>3 DEF RequestState, InTransaction
  <2>5. DOMAIN req' = Requests /\ \A q \in Requests : RequestState(req'[q])
    BY <2>1, <2>4, RespondType
  <2> QED
    BY <1>2, <2>5 DEF ReadInvoice, Connect, tables
<1>3. ASSUME RejectInvoice(p) PROVE TypeOK'
  <2>1. DOMAIN req' = Requests /\ \A q \in Requests : RequestState(req'[q])
    BY <1>3, RespondType DEF RejectInvoice
  <2> QED
    BY <1>3, <2>1 DEF RejectInvoice, Connect, tables
<1>4. ASSUME InsertInvoice(p) PROVE TypeOK'
  <2>1. InTransaction(req[p])
    BY <1>4, TransactionFields DEF InsertInvoice
  <2>2. InTransaction(req'[p]) /\ DOMAIN req' = Requests
        /\ \A q \in Requests \ {p} : req'[q] = req[q]
    BY <1>4, <2>1 DEF InsertInvoice, InTransaction
  <2> QED
    BY <1>4, <2>2 DEF InsertInvoice, tables, RequestState
<1>5. ASSUME InsertRefused(p) PROVE TypeOK'
  <2>1. DOMAIN req' = Requests /\ \A q \in Requests : RequestState(req'[q])
    BY <1>5, RespondType DEF InsertRefused
  <2> QED
    BY <1>5, <2>1 DEF InsertRefused, tables
<1>6. ASSUME CommitInvoice(p) PROVE TypeOK'
  <2>1. InTransaction(req[p])
    BY <1>6, TransactionFields DEF CommitInvoice
  <2>2. DOMAIN req' = Requests /\ \A q \in Requests : RequestState(req'[q])
    BY <1>6, RespondType DEF CommitInvoice
  <2>3. missed' \in [Requests -> SUBSET Kinds]
    BY <1>6, OvertakeType DEF CommitInvoice, Kinds
  <2>4. nextId' \in [entry : Nat \ {0}, rate : Nat \ {0}, invoice : Nat \ {0}]
        /\ nextId'.invoice = nextId.invoice + 1 /\ nextId'.rate = nextId.rate
        /\ nextId'.entry = nextId.entry
    BY <1>6 DEF CommitInvoice
  <2>5. ASSUME NEW inv \in invoices'
        PROVE  /\ inv.id \in 1 .. nextId'.invoice - 1 /\ inv.number \in Numbers
               /\ inv.month \in Months /\ inv.scope \in Scopes /\ inv.settings \in Settings
    BY <1>6, <2>1, <2>4 DEF CommitInvoice, InTransaction
  <2>6. ASSUME NEW l \in lines' PROVE l.invoice \in 1 .. nextId'.invoice - 1
    BY <1>6, <2>4 DEF CommitInvoice
  <2> QED
    BY <1>6, <2>2, <2>3, <2>4, <2>5, <2>6 DEF CommitInvoice
<1>7. ASSUME NEW id \in 1 .. MaxInvoices, DeleteInvoice(p, id) PROVE TypeOK'
  <2>1. DOMAIN req' = Requests /\ \A q \in Requests : RequestState(req'[q])
    BY <1>7, RespondType DEF DeleteInvoice
  <2>2. missed' \in [Requests -> SUBSET Kinds]
    BY <1>7, OvertakeType DEF DeleteInvoice, Kinds
  <2>3. lines' \subseteq lines /\ invoices' \subseteq invoices
    BY <1>7 DEF DeleteInvoice
  <2> QED
    BY <1>7, <2>1, <2>2, <2>3 DEF DeleteInvoice, Connect
<1> QED
  BY <1>1, <1>2, <1>3, <1>4, <1>5, <1>6, <1>7 DEF InvoiceRequest

LEMMA NextType == TypeOK /\ [Next]_vars => TypeOK'
<1> SUFFICES ASSUME TypeOK, [Next]_vars PROVE TypeOK'
  OBVIOUS
<1>1. ASSUME NEW p \in Requests, NEW new \in Settings, SaveSettings(p, new) PROVE TypeOK'
  <2>1. DOMAIN req' = Requests /\ \A q \in Requests : RequestState(req'[q])
    BY <1>1, RespondType, IdleState DEF SaveSettings, TypeOK
  <2>2. missed' \in [Requests -> SUBSET Kinds]
    BY <1>1, OvertakeType DEF SaveSettings, Kinds, TypeOK
  <2> QED
    BY <1>1, <2>1, <2>2 DEF SaveSettings, Connect, TypeOK
<1>2. ASSUME NEW p \in Requests, WriteRefused(p) PROVE TypeOK'
  <2>1. DOMAIN req' = Requests /\ \A q \in Requests : RequestState(req'[q])
    BY <1>2, RespondType, IdleState DEF WriteRefused, TypeOK
  <2> QED
    BY <1>2, <2>1 DEF WriteRefused, Connect, TypeOK, tables
<1>3. ASSUME Restart PROVE TypeOK'
  <2>1. DOMAIN req' = Requests /\ \A q \in Requests : RequestState(req'[q])
    BY <1>3, IdleState DEF Restart
  <2> QED
    BY <1>3, <2>1 DEF Restart, TypeOK, tables
<1>4. ASSUME UNCHANGED vars PROVE TypeOK'
  BY <1>4 DEF vars, TypeOK
<1> QED
  BY <1>1, <1>2, <1>3, <1>4, EntryRequestType, RateRequestType, InvoiceRequestType DEF Next

\* Every reachable state is well typed: rows carry ids the counters have passed,
\* open transactions carry a number of the right form.
THEOREM TypeCorrect == Spec => []TypeOK
BY InitType, NextType, PTL DEF Spec

-----------------------------------------------------------------------------
(***************************************************************************)
(* The inductive invariant.  A commit makes the snapshot of every open     *)
(* reader old, so that SnapshotCurrent claims nothing about it any more;   *)
(* a step that commits nothing leaves the tables, and with them what the   *)
(* snapshots say, alone.                                                   *)
(***************************************************************************)
IInv == TypeOK /\ OneWriter /\ SnapshotCurrent /\ UniqueNumbers

LEMMA InitIInv == Init => IInv
<1> SUFFICES ASSUME Init PROVE OneWriter /\ SnapshotCurrent /\ UniqueNumbers
  BY InitType DEF IInv
<1>1. \A p \in Requests : req[p] = Idle /\ writer # p
  BY NobodyAssumption DEF Init
<1> QED
  BY <1>1 DEF Init, Idle, OneWriter, SnapshotCurrent, UniqueNumbers

\* A request commits a change: no other transaction can be writing, and those
\* that are reading are overtaken.
LEMMA CommitStep ==
  ASSUME TypeOK, OneWriter, NEW p \in Requests, NEW kind, writer \in {Nobody, p},
         Overtake(p, kind), Respond(p, Idle), writer' = Nobody
  PROVE  OneWriter' /\ SnapshotCurrent'
<1>1. req'[p].op = "idle"
  BY DEF Respond, TypeOK, Idle
<1>2. ASSUME NEW q \in Requests, q # p
      PROVE  /\ req'[q] = req[q]
             /\ req[q].op # "writing"
             /\ req[q].op = "read" => missed'[q] # {}
  BY <1>2, NobodyAssumption DEF Respond, TypeOK, OneWriter, Overtake
<1>3. OneWriter'
  BY <1>1, <1>2, NobodyAssumption DEF OneWriter
<1>4. \A q \in Requests : req'[q].op \in {"read", "writing"} => missed'[q] # {}
  BY <1>1, <1>2
<1> QED
  BY <1>3, <1>4 DEF SnapshotCurrent

\* A request that is not writing answers without having changed a table.
LEMMA QuietStep ==
  ASSUME TypeOK, OneWriter, SnapshotCurrent, NEW p \in Requests, NEW answer,
         req[p].op # "writing", answer.op \notin {"read", "writing"},
         Respond(p, answer), UNCHANGED <<tables, missed, writer>>
  PROVE  OneWriter' /\ SnapshotCurrent'
<1>1. req'[p] = answer /\ \A q \in Requests \ {p} : req'[q] = req[q]
  BY DEF Respond, TypeOK
<1>2. OneWriter'
  BY <1>1 DEF OneWriter
<1>3. UsedNumbers' = UsedNumbers
  BY DEF UsedNumbers, tables
<1>4. SnapshotCurrent'
  BY <1>1, <1>3 DEF SnapshotCurrent, tables
<1> QED
  BY <1>2, <1>4

\* Requests that touch no invoice leave the invoices' numbers alone.
LEMMA EntryRequestInv ==
  ASSUME IInv, NEW p \in Requests, EntryRequest(p)
  PROVE  OneWriter' /\ SnapshotCurrent' /\ UNCHANGED <<invoices, lines, nextId.invoice>>
<1> USE DEF IInv
<1>1. ASSUME NEW id, NEW in, CheckEntry(p, id, in)
      PROVE  OneWriter' /\ SnapshotCurrent' /\ UNCHANGED <<invoices, lines, nextId.invoice>>
  <2>1. PICK answer : Respond(p, answer) /\ answer.op \notin {"read", "writing"}
    BY <1>1 DEF CheckEntry, Idle
  <2> QED
    BY <1>1, <2>1, QuietStep DEF CheckEntry, Running, tables
<1>2. CASE WriteEntry(p)
  BY <1>2, CommitStep DEF WriteEntry, TypeOK
<1>3. ASSUME NEW id, DeleteEntry(p, id)
      PROVE  OneWriter' /\ SnapshotCurrent' /\ UNCHANGED <<invoices, lines, nextId.invoice>>
  BY <1>3, CommitStep DEF DeleteEntry
<1> QED
  BY <1>1, <1>2, <1>3 DEF EntryRequest

LEMMA RateRequestInv ==
  ASSUME IInv, NEW p \in Requests, RateRequest(p)
  PROVE  OneWriter' /\ SnapshotCurrent' /\ UNCHANGED <<invoices, lines, nextId.invoice>>
<1> USE DEF IInv
<1>1. ASSUME NEW id, NEW in, CheckRate(p, id, in)
      PROVE  OneWriter' /\ SnapshotCurrent' /\ UNCHANGED <<invoices, lines, nextId.invoice>>
  <2>1. PICK answer : Respond(p, answer) /\ answer.op \notin {"read", "writing"}
    BY <1>1 DEF CheckRate, Idle
  <2> QED
    BY <1>1, <2>1, QuietStep DEF CheckRate, Running, tables
<1>2. CASE WriteRate(p)
  BY <1>2, CommitStep DEF WriteRate, TypeOK
<1>3. ASSUME NEW id, DeleteRate(p, id)
      PROVE  OneWriter' /\ SnapshotCurrent' /\ UNCHANGED <<invoices, lines, nextId.invoice>>
  BY <1>3, CommitStep DEF DeleteRate
<1> QED
  BY <1>1, <1>2, <1>3 DEF RateRequest

\* What an invoice transaction read is current when it has just read it.
LEMMA ReadInvoiceInv ==
  ASSUME IInv, NEW p \in Requests, ReadInvoice(p)
  PROVE  OneWriter' /\ SnapshotCurrent'
<1> DEFINE r     == req[p]
           found == InvoiceLines(entries, rates, r.month, r.scope)
           answer(number) ==
             [op |-> "read", month |-> r.month, scope |-> r.scope, wanted |-> r.wanted,
              settings |-> r.settings, lines |-> found, number |-> number]
<1>1. PICK number \in Allocatable(r.month, r.scope, r.wanted, UsedNumbers) :
        Respond(p, answer(number))
  BY DEF ReadInvoice
<1>2. /\ Unrated(entries, rates, r.month, r.scope) = {}
      /\ found # {}
      /\ r.op = "loaded"
      /\ UNCHANGED <<tables, missed, writer>>
  BY DEF ReadInvoice
<1>3. req'[p] = answer(number) /\ \A q \in Requests \ {p} : req'[q] = req[q]
  BY <1>1 DEF Respond, IInv, TypeOK
<1>4. OneWriter'
  BY <1>2, <1>3 DEF IInv, OneWriter
<1>5. UsedNumbers' = UsedNumbers
  BY <1>2 DEF UsedNumbers, tables
<1> HIDE DEF found
<1>6. /\ req'[p].op = "read" /\ req'[p].month = r.month /\ req'[p].scope = r.scope
      /\ req'[p].wanted = r.wanted /\ req'[p].lines = found /\ req'[p].number = number
  BY <1>3
<1>7. SnapshotCurrent'
  BY <1>1, <1>2, <1>3, <1>5, <1>6 DEF IInv, SnapshotCurrent, tables, found
<1> QED
  BY <1>4, <1>7

LEMMA InvoiceRequestInv ==
  ASSUME IInv, NEW p \in Requests, InvoiceRequest(p)
  PROVE  OneWriter' /\ SnapshotCurrent'
<1> USE DEF IInv
<1>1. ASSUME NEW month, NEW scope, NEW number, LoadSettings(p, month, scope, number)
      PROVE  OneWriter' /\ SnapshotCurrent'
  BY <1>1, QuietStep DEF LoadSettings, Running
<1>2. CASE ReadInvoice(p)
  BY <1>2, ReadInvoiceInv
<1>3. CASE RejectInvoice(p)
  BY <1>3, QuietStep DEF RejectInvoice, Idle
<1>4. CASE InsertInvoice(p)
  <2>1. InTransaction(req[p])
    BY <1>4, TransactionFields DEF InsertInvoice, TypeOK
  <2>2. req'[p] = [req[p] EXCEPT !.op = "writing"] /\ \A q \in Requests \ {p} : req'[q] = req[q]
    BY <1>4 DEF InsertInvoice, TypeOK
  <2>3. /\ req'[p].op = "writing" /\ req'[p].month = req[p].month
        /\ req'[p].scope = req[p].scope /\ req'[p].wanted = req[p].wanted
        /\ req'[p].lines = req[p].lines /\ req'[p].number = req[p].number
    BY <2>1, <2>2 DEF InTransaction
  <2>4. OneWriter'
    BY <1>4, <2>2, <2>3, NobodyAssumption DEF InsertInvoice, OneWriter
  <2>5. UsedNumbers' = UsedNumbers
    BY <1>4 DEF InsertInvoice, UsedNumbers, tables
  <2>6. SnapshotCurrent'
    BY <1>4, <2>2, <2>3, <2>5 DEF InsertInvoice, SnapshotCurrent, tables
  <2> QED
    BY <2>4, <2>6
<1>5. CASE InsertRefused(p)
  <2>1. req'[p] = Busy /\ \A q \in Requests \ {p} : req'[q] = req[q]
    BY <1>5 DEF InsertRefused, Respond, TypeOK
  <2>2. /\ \A q \in Requests \ {p} : missed'[q] = missed[q]
        /\ UNCHANGED <<tables, writer>>
    BY <1>5 DEF InsertRefused, TypeOK
  <2>3. OneWriter'
    BY <1>5, <2>1, <2>2 DEF InsertRefused, OneWriter, Busy
  <2>4. UsedNumbers' = UsedNumbers
    BY <2>2 DEF UsedNumbers, tables
  <2>5. SnapshotCurrent'
    BY <2>1, <2>2, <2>4 DEF SnapshotCurrent, tables, Busy
  <2> QED
    BY <2>3, <2>5
<1>6. CASE CommitInvoice(p)
  BY <1>6, CommitStep DEF CommitInvoice, OneWriter
<1>7. ASSUME NEW id, DeleteInvoice(p, id)
      PROVE  OneWriter' /\ SnapshotCurrent'
  BY <1>7, CommitStep DEF DeleteInvoice
<1> QED
  BY <1>1, <1>2, <1>3, <1>4, <1>5, <1>6, <1>7 DEF InvoiceRequest

\* The book is edited by an invoice's commit and by its deletion only.
LEMMA CommitInvoiceFacts ==
  ASSUME IInv, NEW p \in Requests, CommitInvoice(p)
  PROVE  LET r == req[p] IN
         /\ InTransaction(r)
         /\ Unrated(entries, rates, r.month, r.scope) = {}
         /\ r.lines = InvoiceLines(entries, rates, r.month, r.scope)
         /\ r.lines # {}
         /\ r.number \in Allocatable(r.month, r.scope, r.wanted, UsedNumbers)
         /\ r.number \notin UsedNumbers
<1> DEFINE r == req[p]
<1>1. InTransaction(r)
  BY TransactionFields DEF CommitInvoice, IInv, TypeOK
<1>2. r.op = "writing" /\ missed[p] = {}
  BY DEF CommitInvoice, IInv, OneWriter
<1>3. /\ Unrated(entries, rates, r.month, r.scope) = {}
      /\ r.lines = InvoiceLines(entries, rates, r.month, r.scope)
      /\ r.lines # {}
      /\ r.number \in Allocatable(r.month, r.scope, r.wanted, UsedNumbers)
  BY <1>2 DEF IInv, SnapshotCurrent
<1>4. r.number \notin UsedNumbers
  BY <1>1, <1>3, AllocatableIsFree DEF InTransaction
<1> QED
  BY <1>1, <1>3, <1>4

LEMMA CommitInvoiceUnique ==
  ASSUME IInv, NEW p \in Requests, CommitInvoice(p)
  PROVE  UniqueNumbers'
<1>1. req[p].number \notin UsedNumbers
  BY CommitInvoiceFacts
<1>2. \A inv \in invoices : inv.id # nextId.invoice /\ inv.number # req[p].number
  BY <1>1 DEF IInv, TypeOK, UsedNumbers
<1> QED
  BY <1>2 DEF CommitInvoice, IInv, UniqueNumbers

LEMMA NextIInv == IInv /\ [Next]_vars => IInv'
<1> SUFFICES ASSUME IInv, [Next]_vars PROVE OneWriter' /\ SnapshotCurrent' /\ UniqueNumbers'
  BY NextType DEF IInv
<1>1. ASSUME UNCHANGED invoices PROVE UniqueNumbers'
  BY <1>1 DEF IInv, UniqueNumbers
<1>2. CASE \E p \in Requests : EntryRequest(p) \/ RateRequest(p)
  BY <1>1, <1>2, EntryRequestInv, RateRequestInv
<1>3. ASSUME NEW p \in Requests, NEW new, SaveSettings(p, new)
      PROVE  OneWriter' /\ SnapshotCurrent' /\ UniqueNumbers'
  BY <1>1, <1>3, CommitStep DEF SaveSettings, IInv
<1>4. ASSUME NEW p \in Requests, InvoiceRequest(p)
      PROVE  OneWriter' /\ SnapshotCurrent' /\ UniqueNumbers'
  <2>1. CASE CommitInvoice(p)
    BY <1>4, <2>1, InvoiceRequestInv, CommitInvoiceUnique
  <2>2. CASE ~ CommitInvoice(p)
    <3>1. invoices' \subseteq invoices
      BY <1>4, <2>2 DEF InvoiceRequest, LoadSettings, ReadInvoice, RejectInvoice, InsertInvoice,
            InsertRefused, DeleteInvoice, tables
    <3> QED
      BY <1>4, <3>1, InvoiceRequestInv DEF IInv, UniqueNumbers
  <2> QED
    BY <2>1, <2>2
<1>5. ASSUME NEW p \in Requests, WriteRefused(p)
      PROVE  OneWriter' /\ SnapshotCurrent' /\ UniqueNumbers'
  BY <1>1, <1>5, QuietStep DEF WriteRefused, IInv, tables, Busy
<1>6. ASSUME Restart PROVE OneWriter' /\ SnapshotCurrent' /\ UniqueNumbers'
  BY <1>1, <1>6, NobodyAssumption DEF Restart, IInv, OneWriter, SnapshotCurrent, tables, Idle
<1>7. ASSUME UNCHANGED vars PROVE OneWriter' /\ SnapshotCurrent' /\ UniqueNumbers'
  BY <1>1, <1>7 DEF vars, IInv, OneWriter, SnapshotCurrent, UsedNumbers
<1> QED
  BY <1>2, <1>3, <1>4, <1>5, <1>6, <1>7 DEF Next

\* At most one transaction writes, and nothing commits between its first INSERT
\* and its COMMIT.
THEOREM OneWriterHolds == Spec => []OneWriter
BY InitIInv, NextIInv, PTL DEF Spec, IInv

\* What GenerateInvoice read before its first INSERT is what the tables say as
\* long as it can still commit.
THEOREM SnapshotHolds == Spec => []SnapshotCurrent
BY InitIInv, NextIInv, PTL DEF Spec, IInv

\* Invoice numbers and ids are unique, for any number of concurrent requests.
THEOREM NumbersUnique == Spec => []UniqueNumbers
BY InitIInv, NextIInv, PTL DEF Spec, IInv

-----------------------------------------------------------------------------
(***************************************************************************)
(* The ledger implements InvoiceBook: a commit is Issue, a deletion is     *)
(* Withdraw, everything else leaves the book as it is.                     *)
(***************************************************************************)
LEMMA BookUnchanged ==
  ASSUME UNCHANGED <<invoices, lines, nextId.invoice>>
  PROVE  [Book!Next]_(Book!vars)
<1>1. BookState' = BookState
  BY DEF BookState, LinesOf
<1> QED
  BY <1>1 DEF Book!Next, Book!Edit

LEMMA CommitIsIssue ==
  ASSUME IInv, NEW p \in Requests, CommitInvoice(p)
  PROVE  Book!Next
<1> DEFINE r   == req[p]
           id  == nextId.invoice
           new == [id |-> id, number |-> r.number, month |-> r.month, scope |-> r.scope,
                   total |-> InvoiceTotal(r.lines), settings |-> r.settings]
           Entry(inv, ls) ==
             [id |-> inv.id, number |-> inv.number, month |-> inv.month, scope |-> inv.scope,
              total |-> inv.total, settings |-> inv.settings, lines |-> ls]
<1>1. /\ invoices' = invoices \cup {new}
      /\ lines' = lines \cup {[invoice |-> id, line |-> l] : l \in r.lines}
      /\ nextId'.invoice = id + 1
      /\ UNCHANGED <<entries, rates>>
  BY DEF CommitInvoice, IInv, TypeOK
<1>2. ASSUME NEW inv \in invoices PROVE LinesOf(inv.id)' = LinesOf(inv.id)
  <2>1. inv.id # id
    BY DEF IInv, TypeOK
  <2>2. inv.id' = inv.id
    OBVIOUS
  <2> QED
    BY <1>1, <2>1 DEF LinesOf
<1>3. {l.line : l \in {k \in lines' : k.invoice = id}} = r.lines
  <2> DEFINE Row(l) == [invoice |-> id, line |-> l]
  <2>1. lines' = lines \cup {Row(l) : l \in r.lines} /\ \A k \in lines : k.invoice # id
    BY <1>1 DEF IInv, TypeOK
  <2>2. \A l : Row(l).line = l /\ Row(l).invoice = id
    OBVIOUS
  <2> HIDE DEF Row, r, id
  <2>3. ASSUME NEW x \in r.lines PROVE \E k \in lines' : k.invoice = id /\ x = k.line
    BY <2>1, <2>2
  <2>4. ASSUME NEW k \in lines', k.invoice = id PROVE k.line \in r.lines
    BY <2>1, <2>2, <2>4
  <2> QED
    BY <2>3, <2>4
<1>4. BookState' = BookState \cup {Entry(new, r.lines)}
  <2> DEFINE Was(inv) == {l.line : l \in {k \in lines : k.invoice = inv.id}}
             Is(inv)  == {l.line : l \in {k \in lines' : k.invoice = inv.id}}
  <2>1. BookState' = {Entry(inv, Is(inv)) : inv \in invoices'}
    BY DEF BookState, LinesOf
  <2>2. BookState = {Entry(inv, Was(inv)) : inv \in invoices}
    BY DEF BookState, LinesOf
  <2>3. \A inv \in invoices : Is(inv) = Was(inv)
    BY <1>2 DEF LinesOf
  <2>4. Is(new) = r.lines
    BY <1>3
  <2> HIDE DEF Entry, Was, Is, new, r, id
  <2> QED
    BY <1>1, <2>1, <2>2, <2>3, <2>4
<1>5. Book!Used = UsedNumbers
  <2> DEFINE Record(inv) == Entry(inv, LinesOf(inv.id))
  <2>1. Book!Used = {b.number : b \in {Record(inv) : inv \in invoices}}
    BY DEF Book!Used, BookState
  <2>2. \A inv : Record(inv).number = inv.number
    OBVIOUS
  <2> HIDE DEF Record
  <2> QED
    BY <2>1, <2>2 DEF UsedNumbers
<1>6. Book!Issue(r.month, r.scope, r.wanted, r.settings)
  BY <1>1, <1>4, <1>5, CommitInvoiceFacts DEF Book!Issue
<1>7. /\ r.month \in Months /\ r.scope \in Scopes
      /\ r.wanted \in NumberInputs /\ r.settings \in Settings
  BY CommitInvoiceFacts DEF InTransaction
<1> QED
  BY <1>6, <1>7 DEF Book!Next

LEMMA DeleteIsWithdraw ==
  ASSUME IInv, NEW p \in Requests, NEW id, DeleteInvoice(p, id)
  PROVE  Book!Next
<1> DEFINE Entry(inv) ==
             [id |-> inv.id, number |-> inv.number, month |-> inv.month, scope |-> inv.scope,
              total |-> inv.total, settings |-> inv.settings, lines |-> LinesOf(inv.id)]
<1>1. PICK gone \in invoices : gone.id = id
  BY DEF DeleteInvoice
<1>2. /\ invoices' = {inv \in invoices : inv.id # id}
      /\ \A l \in lines : l.invoice # id => l \in lines'
      /\ lines' \subseteq lines
      /\ UNCHANGED <<entries, rates, nextId>>
  BY DEF DeleteInvoice
<1>3. ASSUME NEW inv \in invoices' PROVE LinesOf(inv.id)' = LinesOf(inv.id)
  BY <1>2 DEF LinesOf
<1>4. BookState = {Entry(inv) : inv \in invoices}
  BY DEF BookState
<1>5. BookState' = {Entry(inv) : inv \in invoices'}
  BY <1>3 DEF BookState, LinesOf
<1>6. \A inv \in invoices : Entry(inv).id = inv.id
  OBVIOUS
<1> HIDE DEF Entry
<1>7. BookState' = BookState \ {Entry(gone)}
  <2>1. ASSUME NEW inv \in invoices, inv.id = id PROVE inv = gone
    BY <1>1, <2>1 DEF IInv, UniqueNumbers
  <2> QED
    BY <1>1, <1>2, <1>4, <1>5, <1>6, <2>1
<1>8. Book!Withdraw(Entry(gone))
  BY <1>2, <1>7 DEF Book!Withdraw
<1> QED
  BY <1>1, <1>4, <1>8 DEF Book!Next

LEMMA NextImplementsBook == IInv /\ [Next]_vars => [Book!Next]_(Book!vars)
<1> SUFFICES ASSUME IInv, [Next]_vars PROVE [Book!Next]_(Book!vars)
  OBVIOUS
<1>1. CASE \E p \in Requests : EntryRequest(p) \/ RateRequest(p)
  BY <1>1, EntryRequestInv, RateRequestInv, BookUnchanged
<1>2. CASE \E p \in Requests, new \in Settings : SaveSettings(p, new)
  BY <1>2, BookUnchanged DEF SaveSettings
<1>3. ASSUME NEW p \in Requests, InvoiceRequest(p) PROVE [Book!Next]_(Book!vars)
  <2>1. CASE CommitInvoice(p)
    BY <2>1, CommitIsIssue
  <2>2. CASE \E id \in 1 .. MaxInvoices : DeleteInvoice(p, id)
    BY <2>2, DeleteIsWithdraw
  <2>3. CASE UNCHANGED <<invoices, lines, nextId>>
    BY <2>3, BookUnchanged
  <2> QED
    BY <1>3, <2>1, <2>2, <2>3 DEF InvoiceRequest, LoadSettings, ReadInvoice, RejectInvoice,
         InsertInvoice, InsertRefused, tables
<1>4. CASE Restart \/ (\E p \in Requests : WriteRefused(p)) \/ UNCHANGED vars
  BY <1>4, BookUnchanged DEF Restart, WriteRefused, tables, vars
<1> QED
  BY <1>1, <1>2, <1>3, <1>4 DEF Next

\* Under any interleaving of requests and restarts, invoices are issued as if
\* GenerateInvoice were one atomic step on the current entries and rates, and
\* an issued invoice keeps its lines and total until it is deleted.
THEOREM LedgerImplementsBook == Spec => ImplementsBook
<1>1. Init => Book!Init
  BY DEF Init, Book!Init, BookState
<1> QED
  BY <1>1, InitIInv, NextIInv, NextImplementsBook, PTL DEF Spec, ImplementsBook, Book!Spec

-----------------------------------------------------------------------------
(***************************************************************************)
(* What checkRateOverlap achieves when requests do not interleave.  The    *)
(* range it approved stays approved until the INSERT, since nobody else    *)
(* writes, and a date covered by two ranges makes them overlap.            *)
(***************************************************************************)
Approved(row) == \A old \in rates : old.id # row.id => ~ Overlaps(row, old)

RateInv ==
  /\ NoOverlappingRates
  /\ \A r, s \in rates : r.id = s.id => r = s
  /\ \A p \in Requests : req[p].op = "rate" => Approved(req[p].row)

LEMMA SharedDateOverlaps ==
  ASSUME NEW r \in RateRows, NEW s \in RateRows, NEW d \in Dates,
         r.cat = s.cat, Covers(r, d), Covers(s, d)
  PROVE  Overlaps(r, s)
<1>1. \A x \in Dates : x \in Int
  BY DatesAssumption
<1>2. /\ r.start \in Dates /\ r.end \in Dates \cup {0}
      /\ s.start \in Dates /\ s.end \in Dates \cup {0}
  BY DEF RateRows, NoEnd
<1>3. /\ r.start \in Int /\ r.end \in Int /\ s.start \in Int /\ s.end \in Int /\ d \in Int
  BY <1>1, <1>2
<1> QED
  BY <1>3 DEF Covers, Overlaps, NoEnd

LEMMA ApprovedRateFits ==
  ASSUME TypeOK, RateInv, NEW p \in Requests, WriteRate(p)
  PROVE  NoOverlappingRates' /\ \A r, s \in rates' : r.id = s.id => r = s
<1> DEFINE row == req[p].row
           new == IF row.id = 0 THEN [row EXCEPT !.id = nextId.rate] ELSE row
<1>1. row \in RateRows /\ Approved(row)
  BY DEF WriteRate, TypeOK, RequestState, Idle, Busy, InTransaction, RateInv
<1>2. new \in RateRows /\ new.cat = row.cat /\ new.start = row.start /\ new.end = row.end
  BY <1>1 DEF RateRows, TypeOK
<1>3. new.id = IF row.id = 0 THEN nextId.rate ELSE row.id
  BY <1>1 DEF RateRows
<1> HIDE DEF new
<1>4. ASSUME NEW x \in rates', x # new
      PROVE  x \in rates /\ x.id # new.id /\ ~ Overlaps(new, x)
  <2>1. x \in rates /\ x.id # new.id
    BY <1>3, <1>4 DEF new, WriteRate, Saved, TypeOK
  <2>2. x.id # row.id
    BY <1>3, <2>1 DEF TypeOK
  <2> QED
    BY <1>1, <1>2, <2>1, <2>2 DEF Approved, Overlaps
<1>5. NoOverlappingRates'
  <2> SUFFICES ASSUME NEW r \in rates', NEW s \in rates', r # s, r.cat = s.cat,
                      NEW d \in Dates, Covers(r, d), Covers(s, d)
               PROVE  FALSE
    BY DEF NoOverlappingRates
  <2>1. CASE r = new
    BY <1>2, <1>4, <2>1, SharedDateOverlaps DEF TypeOK
  <2>2. CASE s = new
    BY <1>2, <1>4, <2>2, SharedDateOverlaps DEF TypeOK
  <2>3. CASE r # new /\ s # new
    BY <1>4, <2>3 DEF RateInv, NoOverlappingRates
  <2> QED
    BY <2>1, <2>2, <2>3
<1> QED
  BY <1>4, <1>5 DEF RateInv

LEMMA NextRateInv ==
  ASSUME NEW only, Requests = {only}, TypeOK, RateInv, [Next]_vars
  PROVE  RateInv'
<1>1. ASSUME NEW p \in Requests, WriteRate(p) PROVE RateInv'
  <2>1. req'[p].op = "idle" /\ p = only
    BY <1>1 DEF WriteRate, Respond, TypeOK, Idle
  <2> QED
    BY <1>1, <2>1, ApprovedRateFits DEF RateInv
<1>2. ASSUME NEW p \in Requests, NEW id \in 0 .. MaxRates, NEW in \in RateInputs, CheckRate(p, id, in)
      PROVE  RateInv'
  <2>1. UNCHANGED rates /\ p = only
    BY <1>2 DEF CheckRate, tables
  <2>2. CASE \E old \in rates : old.id # id /\ Overlaps(in, old)
    <3>1. req'[p].op = "idle"
      BY <1>2, <2>2 DEF CheckRate, Respond, TypeOK, Idle
    <3> QED
      BY <2>1, <3>1 DEF RateInv, NoOverlappingRates
  <2>3. CASE ~ \E old \in rates : old.id # id /\ Overlaps(in, old)
    <3>1. req'[p].row = RateRow(id, in)
      BY <1>2, <2>3 DEF CheckRate, Respond, TypeOK
    <3>2. Approved(RateRow(id, in))'
      BY <2>1, <2>3 DEF Approved, RateRow, Overlaps
    <3> QED
      BY <2>1, <3>1, <3>2 DEF RateInv, NoOverlappingRates, Approved
  <2> QED
    BY <2>2, <2>3
<1>3. ASSUME rates' \subseteq rates, \A p \in Requests : req'[p].op # "rate"
      PROVE  RateInv'
  BY <1>3 DEF RateInv, NoOverlappingRates
<1>4. ASSUME NEW p \in Requests, NEW id \in 1 .. MaxRates, DeleteRate(p, id) PROVE RateInv'
  <2>1. rates' \subseteq rates /\ req'[p].op = "idle"
    BY <1>4 DEF DeleteRate, Respond, TypeOK, Idle
  <2> QED
    BY <1>3, <2>1
<1>5. ASSUME NEW p \in Requests, EntryRequest(p) PROVE RateInv'
  <2>1. rates' = rates
    BY <1>5 DEF EntryRequest, CheckEntry, WriteEntry, DeleteEntry, tables
  <2>2. req'[p].op \in {"idle", "entry"}
    BY <1>5 DEF EntryRequest, CheckEntry, WriteEntry, DeleteEntry, Respond, TypeOK, Idle
  <2> QED
    BY <1>3, <2>1, <2>2
<1>6. ASSUME NEW p \in Requests, InvoiceRequest(p) PROVE RateInv'
  <2>1. rates' = rates
    BY <1>6 DEF InvoiceRequest, LoadSettings, ReadInvoice, RejectInvoice, InsertInvoice,
          InsertRefused, CommitInvoice, DeleteInvoice, tables
  <2>2. ASSUME NEW answer, answer.op # "rate", Respond(p, answer) PROVE req'[p].op # "rate"
    BY <2>2 DEF Respond, TypeOK
  <2>3. CASE InsertInvoice(p)
    <3>1. InTransaction(req[p])
      BY <2>3, TransactionFields DEF InsertInvoice, TypeOK
    <3> QED
      BY <1>3, <2>1, <2>3, <3>1 DEF InsertInvoice, TypeOK, InTransaction
  <2>4. CASE ReadInvoice(p)
    <3>1. req'[p].op # "rate"
      BY <2>4 DEF ReadInvoice, Respond, TypeOK
    <3> QED
      BY <1>3, <2>1, <3>1
  <2>5. CASE ~ InsertInvoice(p) /\ ~ ReadInvoice(p)
    <3>1. req'[p].op # "rate"
      BY <1>6, <2>2, <2>5 DEF InvoiceRequest, LoadSettings, RejectInvoice,
            InsertRefused, CommitInvoice, DeleteInvoice, Idle, Busy
    <3> QED
      BY <1>3, <2>1, <3>1
  <2> QED
    BY <2>3, <2>4, <2>5
<1>7. ASSUME NEW p \in Requests, (\E new \in Settings : SaveSettings(p, new)) \/ WriteRefused(p)
      PROVE  RateInv'
  <2>1. rates' = rates /\ req'[p].op = "idle"
    BY <1>7 DEF SaveSettings, WriteRefused, Respond, TypeOK, Idle, Busy, tables
  <2> QED
    BY <1>3, <2>1
<1>8. CASE Restart
  BY <1>3, <1>8 DEF Restart, tables, Idle
<1>9. CASE UNCHANGED vars
  BY <1>9 DEF vars, RateInv, NoOverlappingRates, Approved
<1> QED
  BY <1>1, <1>2, <1>4, <1>5, <1>6, <1>7, <1>8, <1>9 DEF Next, RateRequest

\* One request at a time, no date ever has two rates: checkRateOverlap fails to
\* keep ranges apart only through the gap between its SELECT and the INSERT.
THEOREM SerialRatesDisjoint ==
  ASSUME NEW only, Requests = {only}
  PROVE  Spec => []NoOverlappingRates
<1>1. Init => RateInv
  BY DEF Init, RateInv, NoOverlappingRates, Idle
<1>2. TypeOK /\ RateInv /\ [Next]_vars => RateInv'
  BY NextRateInv
<1>3. RateInv => NoOverlappingRates
  BY DEF RateInv
<1> QED
  BY <1>1, <1>2, <1>3, TypeCorrect, PTL DEF Spec

-----------------------------------------------------------------------------
(***************************************************************************)
(* The sums of the bill.  A sum of the queries is Sum over the joined rows *)
(* and GROUP BY splits it; every group is rounded once.                    *)
(***************************************************************************)
LEMMA DivBounds ==
  ASSUME NEW n \in Int, NEW d \in Nat \ {0}
  PROVE  n \div d \in Int /\ d * (n \div d) <= n /\ n < d * (n \div d) + d
OBVIOUS

LEMMA Round2Within ==
  ASSUME NEW x \in Int
  PROVE  /\ Round2(x) \in Int
         /\ 2 * x - 2 * Cent * Round2(x) <= Cent
         /\ 2 * Cent * Round2(x) - 2 * x <= Cent
<1> DEFINE d == 2 * Cent
           n == 2 * x + Cent
           q == n \div d
<1>1. d \in Nat \ {0} /\ n \in Int
  BY CentAssumption
<1> HIDE DEF d, n
<1>2. q \in Int /\ d * q <= n /\ n < d * q + d
  BY <1>1, DivBounds
<1>3. q = Round2(x)
  BY DEF q, d, n, Round2
<1> HIDE DEF q
<1> QED
  BY <1>2, <1>3, CentAssumption DEF n, d

LEMMA CancelCent ==
  ASSUME NEW a \in Int, NEW b \in Int, Cent * a <= Cent * b
  PROVE  a <= b
<1> SUFFICES ASSUME a >= b + 1 PROVE FALSE
  OBVIOUS
<1>1. Cent * a >= Cent * (b + 1)
  BY CentAssumption
<1>2. Cent * (b + 1) = Cent * b + Cent
  BY CentAssumption
<1> QED
  BY <1>1, <1>2, CentAssumption

\* A rounded sum of n groups against the exact sum.
HalfUnits(rounded, exact, n) ==
  /\ rounded \in Int /\ exact \in Int
  /\ 2 * Cent * rounded - 2 * exact <= Cent * n
  /\ 2 * exact - 2 * Cent * rounded <= Cent * n

\* P is grouped by a key in K, and shown is the rounded sum of each group.
RoundedGroups(P, f, K, key, group, shown) ==
  /\ Grouped(P, K, f, key, group)
  /\ \A k \in K : shown[k] = Round2(Sum(f, group[k]))

\* Rounding every group of a GROUP BY moves the sum by no more than half a unit
\* a group.
LEMMA GroupsRounded ==
  ASSUME NEW P, NEW f, NEW K, NEW key, NEW group, NEW shown,
         RoundedGroups(P, f, K, key, group, shown)
  PROVE  HalfUnits(Sum(shown, K), Sum(f, P), Cardinality(K))
<1> USE DEF RoundedGroups, Grouped
<1> DEFINE part  == [k \in K |-> Sum(f, group[k])]
           exact == [k \in K |-> 2 * part[k]]
           rounded == [k \in K |-> (2 * Cent) * shown[k]]
           slack == [k \in K |-> Cent]
<1>1. ASSUME NEW k \in K PROVE part[k] \in Int /\ shown[k] = Round2(part[k])
  <2>1. group[k] \subseteq P /\ IsFiniteSet(group[k])
    BY FS_Subset
  <2>2. Sum(f, group[k]) \in Int
    BY <2>1, SumType
  <2> QED
    BY <2>2
<1>2. Sum(f, P) = Sum(part, K)
  <2>1. \A k \in K : part[k] = Sum(f, group[k])
    OBVIOUS
  <2>2. Grouped(P, K, f, key, group)
    OBVIOUS
  <2> HIDE DEF part
  <2> QED
    BY <2>1, <2>2, SumGrouped
<1> HIDE DEF part
<1>3. \A k \in K : /\ shown[k] \in Int
                   /\ 2 * part[k] - 2 * Cent * shown[k] <= Cent
                   /\ 2 * Cent * shown[k] - 2 * part[k] <= Cent
  BY <1>1, Round2Within
<1>4. Sum(shown, K) \in Int /\ Sum(part, K) \in Int
  BY <1>1, <1>3, SumType
<1>5. Sum(exact, K) = 2 * Sum(part, K)
  BY <1>1, SumTimes
<1>6. Sum(rounded, K) = (2 * Cent) * Sum(shown, K)
  <2>1. 2 * Cent \in Int
    BY CentAssumption
  <2>2. \A k \in K : shown[k] \in Int /\ rounded[k] = (2 * Cent) * shown[k]
    BY <1>3
  <2> HIDE DEF rounded
  <2> QED
    BY <2>1, <2>2, SumTimes
<1>7. Sum(slack, K) = Cent * Cardinality(K)
  BY CentAssumption, SumConstant
<1>8. \A k \in K : /\ exact[k] \in Int /\ rounded[k] \in Int /\ slack[k] \in Int
                   /\ exact[k] - rounded[k] <= slack[k] /\ rounded[k] - exact[k] <= slack[k]
  BY <1>1, <1>3, CentAssumption
<1> HIDE DEF exact, rounded, slack
<1>9. /\ Sum(exact, K) - Sum(rounded, K) <= Sum(slack, K)
      /\ Sum(rounded, K) - Sum(exact, K) <= Sum(slack, K)
  BY <1>8, SumWithin
<1>10. (2 * Cent) * Sum(shown, K) = 2 * Cent * Sum(shown, K)
  OBVIOUS
<1> QED
  BY <1>2, <1>4, <1>5, <1>6, <1>7, <1>9, <1>10 DEF HalfUnits

-----------------------------------------------------------------------------
\* The sums of the specification, as sums of functions.
LEMMA HoursIsSum ==
  ASSUME NEW P, NEW f, \A er \in P : f[er] = er[1].hours
  PROVE  Hours(P) = Sum(f, P)
<1> DEFINE Fold(g) ==
      g = [s \in SUBSET P |->
             IF s = {} THEN 0
             ELSE (CHOOSE x \in s : TRUE)[1].hours + g[s \ {CHOOSE x \in s : TRUE}]]
<1>1. Hours(P) = (CHOOSE g : Fold(g))[P]
  BY DEF Hours, MapThenSumSet, MapThenFoldSet
<1>2. \A s \in SUBSET P : s # {} => f[Some(s)] = Some(s)[1].hours
  BY SomeMember
<1>3. ASSUME NEW g PROVE Fold(g) <=> Adds(g, f, P)
  BY <1>2 DEF Adds, Some
<1> HIDE DEF Fold
<1>4. (CHOOSE g : Fold(g)) = (CHOOSE g : Adds(g, f, P))
  BY <1>3, Zenon
<1> QED
  BY <1>1, <1>4 DEF Sum

LEMMA AmountIsSum ==
  ASSUME NEW P, NEW f, \A er \in P : f[er] = er[1].hours * er[2].rate
  PROVE  Amount(P) = Sum(f, P)
<1> DEFINE Fold(g) ==
      g = [s \in SUBSET P |->
             IF s = {} THEN 0
             ELSE ((CHOOSE x \in s : TRUE)[1].hours * (CHOOSE x \in s : TRUE)[2].rate)
                    + g[s \ {CHOOSE x \in s : TRUE}]]
<1>1. Amount(P) = (CHOOSE g : Fold(g))[P]
  BY DEF Amount, MapThenSumSet, MapThenFoldSet
<1>2. \A s \in SUBSET P : s # {} => f[Some(s)] = Some(s)[1].hours * Some(s)[2].rate
  BY SomeMember
<1>3. ASSUME NEW g PROVE Fold(g) <=> Adds(g, f, P)
  BY <1>2 DEF Adds, Some
<1> HIDE DEF Fold
<1>4. (CHOOSE g : Fold(g)) = (CHOOSE g : Adds(g, f, P))
  BY <1>3, Zenon
<1> QED
  BY <1>1, <1>4 DEF Sum

LEMMA TotalIsSum ==
  ASSUME NEW L, NEW f, \A l \in L : f[l] = l.amount
  PROVE  InvoiceTotal(L) = Sum(f, L)
<1> DEFINE Fold(g) ==
      g = [s \in SUBSET L |->
             IF s = {} THEN 0
             ELSE (CHOOSE x \in s : TRUE).amount + g[s \ {CHOOSE x \in s : TRUE}]]
<1>1. InvoiceTotal(L) = (CHOOSE g : Fold(g))[L]
  BY DEF InvoiceTotal, MapThenSumSet, MapThenFoldSet
<1>2. \A s \in SUBSET L : s # {} => f[Some(s)] = Some(s).amount
  BY SomeMember
<1>3. ASSUME NEW g PROVE Fold(g) <=> Adds(g, f, L)
  BY <1>2 DEF Adds, Some
<1> HIDE DEF Fold
<1>4. (CHOOSE g : Fold(g)) = (CHOOSE g : Adds(g, f, L))
  BY <1>3, Zenon
<1> QED
  BY <1>1, <1>4 DEF Sum

\* The sum of the hours of rows or lines.
LEMMA HoursOfIsSum ==
  ASSUME NEW L, NEW f, \A l \in L : f[l] = l.hours
  PROVE  MapThenSumSet(LAMBDA l : l.hours, L) = Sum(f, L)
<1> DEFINE Fold(g) ==
      g = [s \in SUBSET L |->
             IF s = {} THEN 0
             ELSE (CHOOSE x \in s : TRUE).hours + g[s \ {CHOOSE x \in s : TRUE}]]
<1>1. MapThenSumSet(LAMBDA l : l.hours, L) = (CHOOSE g : Fold(g))[L]
  BY DEF MapThenSumSet, MapThenFoldSet
<1>2. \A s \in SUBSET L : s # {} => f[Some(s)] = Some(s).hours
  BY SomeMember
<1>3. ASSUME NEW g PROVE Fold(g) <=> Adds(g, f, L)
  BY <1>2 DEF Adds, Some
<1> HIDE DEF Fold
<1>4. (CHOOSE g : Fold(g)) = (CHOOSE g : Adds(g, f, L))
  BY <1>3, Zenon
<1> QED
  BY <1>1, <1>4 DEF Sum

-----------------------------------------------------------------------------
\* The tables are finite.
Finite == IsFiniteSet(entries) /\ IsFiniteSet(rates)

LEMMA SavedFinite ==
  ASSUME NEW T, IsFiniteSet(T), NEW row, NEW fresh
  PROVE  IsFiniteSet(Saved(T, row, fresh))
<1>1. Saved(T, row, fresh) \subseteq T \cup {row} \/ Saved(T, row, fresh) = T \cup {[row EXCEPT !.id = fresh]}
  BY DEF Saved
<1>2. IsFiniteSet(T \cup {row}) /\ IsFiniteSet(T \cup {[row EXCEPT !.id = fresh]})
  BY FS_AddElement
<1> QED
  BY <1>1, <1>2, FS_Subset

LEMMA NextFinite == Finite /\ [Next]_vars => Finite'
<1> SUFFICES ASSUME Finite, [Next]_vars PROVE Finite'
  OBVIOUS
<1>1. entries' \subseteq entries \/ \E row, fresh : entries' = Saved(entries, row, fresh)
  BY DEF Next, EntryRequest, RateRequest, InvoiceRequest, CheckEntry, WriteEntry, DeleteEntry,
     CheckRate, WriteRate, DeleteRate, SaveSettings, LoadSettings, ReadInvoice, RejectInvoice,
     InsertInvoice, InsertRefused, CommitInvoice, DeleteInvoice, WriteRefused, Restart, tables, vars
<1>2. rates' \subseteq rates \/ \E row, fresh : rates' = Saved(rates, row, fresh)
  BY DEF Next, EntryRequest, RateRequest, InvoiceRequest, CheckEntry, WriteEntry, DeleteEntry,
     CheckRate, WriteRate, DeleteRate, SaveSettings, LoadSettings, ReadInvoice, RejectInvoice,
     InsertInvoice, InsertRefused, CommitInvoice, DeleteInvoice, WriteRefused, Restart, tables, vars
<1>3. IsFiniteSet(entries')
  BY <1>1, SavedFinite, FS_Subset DEF Finite
<1>4. IsFiniteSet(rates')
  BY <1>2, SavedFinite, FS_Subset DEF Finite
<1> QED
  BY <1>3, <1>4 DEF Finite

LEMMA PairsFinite ==
  ASSUME Finite, NEW month, NEW scope
  PROVE  /\ IsFiniteSet(Priced(entries, rates, month, scope))
         /\ IsFiniteSet(InScope(entries, month, scope))
<1>1. InScope(entries, month, scope) \subseteq entries
  BY DEF InScope
<1>2. IsFiniteSet(InScope(entries, month, scope))
  BY <1>1, FS_Subset DEF Finite
<1>3. IsFiniteSet(InScope(entries, month, scope) \X rates)
  BY <1>2, FS_Product DEF Finite
<1>4. Priced(entries, rates, month, scope) \subseteq InScope(entries, month, scope) \X rates
  BY DEF Priced
<1> QED
  BY <1>2, <1>3, <1>4, FS_Subset

-----------------------------------------------------------------------------
\* The definitions inside InvoiceLines and MonthSummary.
LineGroup(P, c, v) == {er \in P : er[1].cat = c /\ er[2].rate = v}
LineOf(P, c, v) ==
  [cat    |-> c,
   rate   |-> v,
   hours  |-> Round2(Hours(LineGroup(P, c, v))),
   amount |-> Round2(Amount(LineGroup(P, c, v))),
   dates  |-> {er[1].date : er \in LineGroup(P, c, v)}]

RowGroup(P, c) == {er \in P : er[1].cat = c}
RowOf(P, c) == [cat |-> c, hours |-> Round2(Hours(RowGroup(P, c))), amount |-> Round2(Amount(RowGroup(P, c)))]

LEMMA LinesByGroup ==
  ASSUME NEW E, NEW R, NEW month, NEW scope
  PROVE  LET P == Priced(E, R, month, scope)
         IN  InvoiceLines(E, R, month, scope) = {LineOf(P, er[1].cat, er[2].rate) : er \in P}
BY DEF InvoiceLines, LineOf, LineGroup

LEMMA RowsByGroup ==
  ASSUME NEW E, NEW R, NEW month
  PROVE  LET P == Priced(E, R, month, All)
         IN  MonthSummary(E, R, month) = {RowOf(P, er[1].cat) : er \in P}
BY DEF MonthSummary, RowOf, RowGroup

\* What the hours and the amounts of the lines add up to: those of the joined
\* rows, give or take half a unit a line.
LEMMA LinesAddUp ==
  ASSUME NEW P, IsFiniteSet(P),
         \A er \in P : er[1].hours \in Int /\ er[2].rate \in Int,
         NEW L, L = {LineOf(P, er[1].cat, er[2].rate) : er \in P},
         NEW hours, hours = [er \in P |-> er[1].hours],
         NEW amount, amount = [er \in P |-> er[1].hours * er[2].rate]
  PROVE  LET H == MapThenSumSet(LAMBDA l : l.hours, L)
             A == InvoiceTotal(L)
             n == Cardinality(L)
         IN  /\ n \in Nat
             /\ HalfUnits(H, Sum(hours, P), n)
             /\ HalfUnits(A, Sum(amount, P), n)
<1> DEFINE key   == [er \in P |-> LineOf(P, er[1].cat, er[2].rate)]
           group == [l \in L |-> LineGroup(P, l.cat, l.rate)]
           lineHours  == [l \in L |-> l.hours]
           lineAmount == [l \in L |-> l.amount]
<1>1. L = {key[er] : er \in P}
  OBVIOUS
<1>2. IsFiniteSet(L) /\ Cardinality(L) \in Nat
  <2>1. (\A er \in P : key[er] \in L) /\ (\A l \in L : \E er \in P : l = key[er])
    OBVIOUS
  <2> HIDE DEF key
  <2> QED
    BY <2>1, ImageFinite
<1>3. \A c, v : LineOf(P, c, v).cat = c /\ LineOf(P, c, v).rate = v
  BY DEF LineOf
<1>4. ASSUME NEW l \in L
      PROVE  /\ group[l] \subseteq P /\ (\A er \in P : er \in group[l] <=> key[er] = l)
             /\ l = LineOf(P, l.cat, l.rate)
  <2>1. l = LineOf(P, l.cat, l.rate)
    BY <1>3
  <2>2. \A er \in P : er[1].cat = l.cat /\ er[2].rate = l.rate => key[er] = l
    BY <2>1
  <2>3. \A er \in P : key[er] = l => er[1].cat = l.cat /\ er[2].rate = l.rate
    BY <1>3
  <2> HIDE DEF key
  <2> QED
    BY <2>1, <2>2, <2>3 DEF LineGroup
<1>5. ASSUME NEW l \in L
      PROVE  /\ lineHours[l] = Round2(Sum(hours, group[l]))
             /\ lineAmount[l] = Round2(Sum(amount, group[l]))
  <2>1. group[l] = LineGroup(P, l.cat, l.rate) /\ group[l] \subseteq P
    BY DEF LineGroup
  <2>2. Hours(group[l]) = Sum(hours, group[l]) /\ Amount(group[l]) = Sum(amount, group[l])
    <3> HIDE DEF group
    <3> QED
      BY <2>1, HoursIsSum, AmountIsSum
  <2>3. l.hours = Round2(Hours(LineGroup(P, l.cat, l.rate)))
        /\ l.amount = Round2(Amount(LineGroup(P, l.cat, l.rate)))
    BY <1>4 DEF LineOf
  <2> HIDE DEF group
  <2> QED
    BY <2>1, <2>2, <2>3
<1>6. /\ MapThenSumSet(LAMBDA l : l.hours, L) = Sum(lineHours, L)
      /\ InvoiceTotal(L) = Sum(lineAmount, L)
  BY HoursOfIsSum, TotalIsSum
<1>7. \A er \in P : key[er] \in L /\ hours[er] \in Int /\ amount[er] \in Int
  OBVIOUS
<1> HIDE DEF key, group, lineHours, lineAmount
<1>8. RoundedGroups(P, hours, L, key, group, lineHours)
  <2>1. \A l \in L : group[l] \subseteq P
    BY <1>4
  <2>2. \A l \in L : \A er \in P : er \in group[l] <=> key[er] = l
    BY <1>4
  <2>3. \A l \in L : lineHours[l] = Round2(Sum(hours, group[l]))
    BY <1>5
  <2>4. (\A er \in P : hours[er] \in Int) /\ (\A er \in P : key[er] \in L)
    BY <1>7
  <2> QED
    BY <1>2, <2>1, <2>2, <2>3, <2>4 DEF RoundedGroups, Grouped
<1>9. RoundedGroups(P, amount, L, key, group, lineAmount)
  <2>1. \A l \in L : group[l] \subseteq P
    BY <1>4
  <2>2. \A l \in L : \A er \in P : er \in group[l] <=> key[er] = l
    BY <1>4
  <2>3. \A l \in L : lineAmount[l] = Round2(Sum(amount, group[l]))
    BY <1>5
  <2>4. (\A er \in P : amount[er] \in Int) /\ (\A er \in P : key[er] \in L)
    BY <1>7
  <2> QED
    BY <1>2, <2>1, <2>2, <2>3, <2>4 DEF RoundedGroups, Grouped
<1> QED
  BY <1>2, <1>6, <1>8, <1>9, GroupsRounded

\* The rows of the dashboard, likewise.
LEMMA RowsAddUp ==
  ASSUME NEW P, IsFiniteSet(P),
         \A er \in P : er[1].hours \in Int /\ er[2].rate \in Int,
         NEW L, L = {RowOf(P, er[1].cat) : er \in P},
         NEW amount, amount = [er \in P |-> er[1].hours * er[2].rate]
  PROVE  LET A == MapThenSumSet(LAMBDA s : s.amount, L)
             n == Cardinality(L)
         IN  n \in Nat /\ HalfUnits(A, Sum(amount, P), n)
<1> DEFINE key   == [er \in P |-> RowOf(P, er[1].cat)]
           group == [l \in L |-> RowGroup(P, l.cat)]
           rowAmount == [l \in L |-> l.amount]
<1>1. L = {key[er] : er \in P}
  OBVIOUS
<1>2. IsFiniteSet(L) /\ Cardinality(L) \in Nat
  <2>1. (\A er \in P : key[er] \in L) /\ (\A l \in L : \E er \in P : l = key[er])
    OBVIOUS
  <2> HIDE DEF key
  <2> QED
    BY <2>1, ImageFinite
<1>3. \A c : RowOf(P, c).cat = c
  BY DEF RowOf
<1>4. ASSUME NEW l \in L
      PROVE  /\ group[l] \subseteq P /\ (\A er \in P : er \in group[l] <=> key[er] = l)
             /\ l = RowOf(P, l.cat)
  <2>1. l = RowOf(P, l.cat)
    BY <1>3
  <2>2. \A er \in P : er[1].cat = l.cat => key[er] = l
    BY <2>1
  <2>3. \A er \in P : key[er] = l => er[1].cat = l.cat
    BY <1>3
  <2> HIDE DEF key
  <2> QED
    BY <2>1, <2>2, <2>3 DEF RowGroup
<1>5. ASSUME NEW l \in L PROVE rowAmount[l] = Round2(Sum(amount, group[l]))
  <2>1. group[l] = RowGroup(P, l.cat) /\ group[l] \subseteq P
    BY DEF RowGroup
  <2>2. Amount(group[l]) = Sum(amount, group[l])
    <3> HIDE DEF group
    <3> QED
      BY <2>1, AmountIsSum
  <2>3. l.amount = Round2(Amount(RowGroup(P, l.cat)))
    BY <1>4 DEF RowOf
  <2> HIDE DEF group
  <2> QED
    BY <2>1, <2>2, <2>3
<1>6. MapThenSumSet(LAMBDA s : s.amount, L) = Sum(rowAmount, L)
  <2>1. InvoiceTotal(L) = Sum(rowAmount, L)
    BY TotalIsSum
  <2> QED
    BY <2>1 DEF InvoiceTotal
<1>7. \A er \in P : key[er] \in L /\ amount[er] \in Int
  OBVIOUS
<1> HIDE DEF key, group, rowAmount
<1>8. RoundedGroups(P, amount, L, key, group, rowAmount)
  <2>1. \A l \in L : group[l] \subseteq P
    BY <1>4
  <2>2. \A l \in L : \A er \in P : er \in group[l] <=> key[er] = l
    BY <1>4
  <2>3. \A l \in L : rowAmount[l] = Round2(Sum(amount, group[l]))
    BY <1>5
  <2>4. (\A er \in P : amount[er] \in Int) /\ (\A er \in P : key[er] \in L)
    BY <1>7
  <2> QED
    BY <1>2, <2>1, <2>2, <2>3, <2>4 DEF RoundedGroups, Grouped
<1> QED
  BY <1>2, <1>6, <1>8, GroupsRounded

LEMMA PricedRows ==
  ASSUME TypeOK, NEW month, NEW scope, NEW er \in Priced(entries, rates, month, scope)
  PROVE  /\ er[1] \in InScope(entries, month, scope) /\ er[2] \in rates /\ er = <<er[1], er[2]>>
         /\ er[1].hours \in Nat /\ er[2].rate \in Nat /\ Prices(er[2], er[1])
<1>1. er[1] \in InScope(entries, month, scope) /\ er[2] \in rates /\ er = <<er[1], er[2]>>
      /\ Prices(er[2], er[1])
  BY DEF Priced
<1>2. er[1] \in EntryRows /\ er[2] \in RateRows
  BY <1>1 DEF InScope, TypeOK
<1> QED
  BY <1>1, <1>2 DEF EntryRows, RateRows

\* The dashboard and an invoice for All agree to within a penny a row, for any
\* tables that any number of requests can produce.
THEOREM DashboardHolds == Spec => []DashboardAgrees
<1>1. Init => Finite
  BY FS_EmptySet DEF Init, Finite
<1>2. TypeOK /\ Finite => DashboardAgrees
  <2> SUFFICES ASSUME TypeOK, Finite, NEW month \in Months
               PROVE  LET shown  == MonthSummary(entries, rates, month)
                          billed == InvoiceLines(entries, rates, month, All)
                          rows   == Cardinality(shown) + Cardinality(billed)
                          gap    == MapThenSumSet(LAMBDA s : s.amount, shown) - InvoiceTotal(billed)
                      IN  2 * gap \in - rows .. rows
    BY DEF DashboardAgrees
  <2> DEFINE shown  == MonthSummary(entries, rates, month)
             billed == InvoiceLines(entries, rates, month, All)
             P == Priced(entries, rates, month, All)
             hours  == [er \in P |-> er[1].hours]
             amount == [er \in P |-> er[1].hours * er[2].rate]
             S == MapThenSumSet(LAMBDA s : s.amount, shown)
             B == InvoiceTotal(billed)
             X == Sum(amount, P)
             m == Cardinality(shown)
             n == Cardinality(billed)
  <2>1. IsFiniteSet(P) /\ \A er \in P : er[1].hours \in Int /\ er[2].rate \in Int
    BY PairsFinite, PricedRows
  <2>2. n \in Nat /\ HalfUnits(B, X, n)
    BY <2>1, LinesByGroup, LinesAddUp
  <2>3. m \in Nat /\ HalfUnits(S, X, m)
    BY <2>1, RowsByGroup, RowsAddUp
  <2> HIDE DEF S, B, X, m, n
  <2> USE DEF HalfUnits
  <2>4. /\ Cent * (2 * (S - B)) = 2 * Cent * S - 2 * Cent * B
        /\ Cent * (2 * (B - S)) = 2 * Cent * B - 2 * Cent * S
        /\ Cent * (m + n) = Cent * m + Cent * n
    BY <2>2, <2>3, CentAssumption
  <2>5. Cent * (2 * (S - B)) <= Cent * (m + n) /\ Cent * (2 * (B - S)) <= Cent * (m + n)
    BY <2>2, <2>3, <2>4, CentAssumption
  <2>6. 2 * (S - B) <= m + n /\ 2 * (B - S) <= m + n
    BY <2>2, <2>3, <2>5, CancelCent
  <2>7. 2 * (S - B) \in - (m + n) .. m + n
    BY <2>2, <2>3, <2>6
  <2> QED
    BY <2>7 DEF S, B, m, n
<1> QED
  BY <1>1, <1>2, NextFinite, TypeCorrect, PTL DEF Spec

\* When every entry has a rate and no two rates share a date, the join returns
\* every entry once: the hours of the joined rows are the hours worked.
LEMMA JoinedOnce ==
  ASSUME TypeOK, Finite, NoOverlappingRates, NEW month, NEW scope,
         Unrated(entries, rates, month, scope) = {},
         NEW P, P = Priced(entries, rates, month, scope),
         NEW hours, hours = [er \in P |-> er[1].hours]
  PROVE  Sum(hours, P) = MapThenSumSet(LAMBDA e : e.hours, InScope(entries, month, scope))
<1> DEFINE E == InScope(entries, month, scope)
           key == [er \in P |-> er[1]]
           group == [e \in E |-> {er \in P : er[1] = e}]
           part == [e \in E |-> e.hours]
<1>1. IsFiniteSet(P) /\ IsFiniteSet(E)
  BY PairsFinite
<1>2. \A er \in P : /\ er[1] \in E /\ er[2] \in rates /\ er = <<er[1], er[2]>>
                    /\ er[1].hours \in Int /\ Prices(er[2], er[1])
  BY PricedRows
<1>3. ASSUME NEW e \in E
      PROVE  \E r \in rates : group[e] = {<<e, r>>}
  <2>1. e \in EntryRows /\ e \in entries
    BY DEF InScope, TypeOK
  <2>2. PICK r \in rates : Prices(r, e)
    BY DEF Unrated
  <2>3. <<e, r>> \in P
    BY <2>2 DEF Priced
  <2>4. ASSUME NEW er \in P, er[1] = e PROVE er[2] = r
    <3>1. Prices(er[2], e) /\ er[2] \in rates
      BY <1>2, <2>4
    <3>2. e.date \in Dates
      BY <2>1 DEF EntryRows
    <3> QED
      BY <2>2, <3>1, <3>2 DEF Prices, NoOverlappingRates
  <2>5. group[e] = {<<e, r>>}
    <3>1. \A er \in group[e] : er = <<e, r>>
      BY <1>2, <2>4
    <3>2. <<e, r>> \in group[e]
      BY <2>3
    <3> QED
      BY <3>1, <3>2
  <2> QED
    BY <2>5
<1>4. ASSUME NEW e \in E PROVE part[e] = Sum(hours, group[e])
  <2>1. PICK r \in rates : group[e] = {<<e, r>>}
    BY <1>3
  <2>2. <<e, r>> \in P
    BY <2>1
  <2>3. hours[<<e, r>>] = e.hours /\ hours[<<e, r>>] \in Int
    BY <1>2, <2>2
  <2>4. Sum(hours, {<<e, r>>}) = hours[<<e, r>>]
    BY <2>3, SumOne
  <2> HIDE DEF group
  <2> QED
    BY <2>1, <2>3, <2>4
<1>5. \A e \in E : group[e] = {er \in P : key[er] = e}
  OBVIOUS
<1>6. \A er \in P : hours[er] \in Int /\ key[er] \in E
  BY <1>2
<1>7. MapThenSumSet(LAMBDA e : e.hours, E) = Sum(part, E)
  BY HoursOfIsSum
<1> HIDE DEF E, key, group, part
<1>8. Sum(hours, P) = Sum(part, E)
  <2>1. \A e \in E : part[e] = Sum(hours, group[e])
    BY <1>4
  <2>2. Grouped(P, E, hours, key, group)
    BY <1>1, <1>5, <1>6 DEF Grouped
  <2> QED
    BY <2>1, <2>2, SumGrouped
<1> QED
  BY <1>7, <1>8 DEF E

LEMMA DisjointBilledOnce == TypeOK /\ Finite /\ NoOverlappingRates => BilledOnce
<1> SUFFICES ASSUME TypeOK, Finite, NoOverlappingRates,
                    NEW month \in Months, NEW scope \in Scopes,
                    Unrated(entries, rates, month, scope) = {}
             PROVE  LET billed == InvoiceLines(entries, rates, month, scope)
                        worked == MapThenSumSet(LAMBDA e : e.hours, InScope(entries, month, scope))
                        gap    == Cent * MapThenSumSet(LAMBDA l : l.hours, billed) - worked
                    IN  2 * gap \in - Cent * Cardinality(billed) .. Cent * Cardinality(billed)
  BY DEF BilledOnce
<1> DEFINE billed == InvoiceLines(entries, rates, month, scope)
           worked == MapThenSumSet(LAMBDA e : e.hours, InScope(entries, month, scope))
           P == Priced(entries, rates, month, scope)
           hours  == [er \in P |-> er[1].hours]
           amount == [er \in P |-> er[1].hours * er[2].rate]
           H == MapThenSumSet(LAMBDA l : l.hours, billed)
           X == Sum(hours, P)
           n == Cardinality(billed)
           cn == Cent * n
           ch == Cent * H
<1>1. IsFiniteSet(P) /\ \A er \in P : er[1].hours \in Int /\ er[2].rate \in Int
  BY PairsFinite, PricedRows
<1>2. n \in Nat /\ HalfUnits(H, X, n)
  BY <1>1, LinesByGroup, LinesAddUp
<1>3. X = worked
  BY JoinedOnce
<1> HIDE DEF H, X, n, worked
<1>4. 2 * Cent * H = 2 * ch /\ - Cent * n = - cn
  BY <1>2, CentAssumption DEF HalfUnits
<1>5. cn \in Int /\ ch \in Int
  BY <1>2, CentAssumption DEF HalfUnits
<1>6. 2 * ch - 2 * X <= cn /\ 2 * X - 2 * ch <= cn
  BY <1>2, <1>4 DEF HalfUnits
<1>7. X \in Int
  BY <1>2 DEF HalfUnits
<1> HIDE DEF cn, ch
<1>8. 2 * (ch - X) \in - cn .. cn
  BY <1>5, <1>6, <1>7
<1>9. 2 * (Cent * H - worked) \in - Cent * n .. Cent * n
  BY <1>3, <1>4, <1>8 DEF cn, ch
<1> QED
  BY <1>9 DEF H, worked, n

\* With one request at a time, an invoice that may be generated bills every hour
\* once.  (With two, two overlapping rates may be saved at once and bill it twice.)
THEOREM SerialBilledOnce ==
  ASSUME NEW only, Requests = {only}
  PROVE  Spec => []BilledOnce
<1>1. Init => Finite
  BY FS_EmptySet DEF Init, Finite
<1>2. Spec => []NoOverlappingRates
  BY SerialRatesDisjoint
<1> QED
  BY <1>1, <1>2, DisjointBilledOnce, NextFinite, TypeCorrect, PTL DEF Spec

=============================================================================
