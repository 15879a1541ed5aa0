---------------------------- MODULE UserMoveProofs ----------------------------
(***************************************************************************)
(* For any list of migration files and any number of processes: what is    *)
(* recorded is applied, an open database is migrated, and the copy mixes   *)
(* up no invoices and doubles no entries behind the operator's back.       *)
(***************************************************************************)
EXTENDS UserMove, TLAPS

\* The files behind a process are in the schema, or it skipped them.
Behindhand(p) == {k \in All : k < proc[p].k} \subseteq schema \cup proc[p].skipped

ProcState(x) ==
  \/ x = Closed
  \/ x \in [at : {"checking", "running", "recording"}, k : All, skipped : SUBSET All]
  \/ x \in [at : {"open"}, k : {Len(Files[database]) + 1}, skipped : SUBSET All]

\* What a process has done.  Only one at the auth database skips files.
ProcOK(p) ==
  proc[p] # Closed =>
    /\ ProcState(proc[p])
    /\ Behindhand(p)
    /\ At(p, "recording") => proc[p].k \in schema
    /\ database = "user" => proc[p].skipped = {}

IInv ==
  /\ database \in DOMAIN Files
  /\ DOMAIN proc = Procs
  /\ recorded \subseteq schema
  /\ schema \subseteq All
  /\ \A p \in Procs : ProcOK(p)

LEMMA FileIds == database \in DOMAIN Files => All = 1 .. Len(Files[database]) /\ Len(Files[database]) \in Nat
BY FilesAssumption DEF All

LEMMA ClosedIsClosed == \A x \in {"checking", "running", "recording", "open"} : \A y : y.at = x => y # Closed
BY DEF Closed

\* The schema only grows, and one process does a step that leaves it in order.
LEMMA GotoKeeps ==
  ASSUME IInv, NEW p \in Procs, NEW x, Goto(p, x), UNCHANGED database,
         schema \subseteq schema', schema' \subseteq All, recorded' \subseteq schema',
         ProcOK(p)'
  PROVE  IInv'
<1>1. DOMAIN proc' = Procs /\ proc'[p] = x /\ \A q \in Procs : q # p => proc'[q] = proc[q]
  BY DEF Goto, IInv
<1>2. All' = All
  BY DEF All
<1>3. ASSUME NEW q \in Procs, q # p PROVE ProcOK(q)'
  <2>1. ProcOK(q) /\ proc'[q] = proc[q]
    BY <1>1, <1>3 DEF IInv
  <2>2. proc[q] # Closed => ProcState(proc[q])'
    BY <2>1, <1>2 DEF ProcOK, ProcState
  <2>3. proc[q] # Closed => Behindhand(q)'
    BY <2>1, <1>2 DEF ProcOK, Behindhand
  <2> QED
    BY <2>1, <2>2, <2>3 DEF ProcOK, At
<1> QED
  BY <1>1, <1>2, <1>3 DEF IInv

\* The loop goes on behind a file that is in the schema or skipped.
LEMMA BehindOK ==
  ASSUME IInv, NEW p \in Procs, proc[p].at \in {"checking", "running", "recording"},
         NEW more \in SUBSET All, proc[p].k \in schema \cup more,
         database = "user" => more = {},
         proc' = [proc EXCEPT ![p] = [Behind(p, proc[p].k) EXCEPT !.skipped = @ \cup more]],
         UNCHANGED <<database, schema>>
  PROVE  ProcOK(p)'
<1> DEFINE k == proc[p].k
           n == Len(Files[database])
<1>1. proc[p] # Closed /\ ProcOK(p)
  BY ClosedIsClosed DEF IInv
<1>2. /\ k \in 1 .. n /\ n \in Nat /\ All = 1 .. n /\ proc[p].skipped \subseteq All
      /\ All' = All /\ Len(Files[database])' = n
  BY <1>1, FileIds DEF IInv, ProcOK, ProcState, All
<1>3. proc'[p] = [at |-> IF k + 1 \in All THEN "checking" ELSE "open", k |-> k + 1,
                  skipped |-> proc[p].skipped \cup more]
  BY DEF IInv, Behind
<1>4. ProcState(proc[p])'
  <2>1. CASE k + 1 \in All
    BY <1>2, <1>3, <2>1 DEF ProcState
  <2>2. CASE k + 1 \notin All
    <3>1. k + 1 = n + 1
      BY <1>2, <2>2
    <3>2. proc'[p] = [at |-> "open", k |-> n + 1, skipped |-> proc[p].skipped \cup more]
      BY <1>3, <2>2, <3>1
    <3>3. proc[p].skipped \cup more \subseteq All
      BY <1>2
    <3> HIDE DEF n
    <3> QED
      BY <1>2, <3>2, <3>3 DEF ProcState, n
  <2> QED
    BY <2>1, <2>2
<1>5. Behindhand(p)'
  <2>1. {i \in All : i < k} \subseteq schema \cup proc[p].skipped
    BY <1>1 DEF ProcOK, Behindhand
  <2>2. \A i \in All : i < k + 1 => i < k \/ i = k
    BY <1>2
  <2> QED
    BY <1>2, <1>3, <2>1, <2>2 DEF Behindhand
<1>6. proc'[p].at # "recording"
  BY <1>3
<1> QED
  BY <1>1, <1>3, <1>4, <1>5, <1>6 DEF ProcOK, At

LEMMA OnwardsKeeps ==
  ASSUME IInv, NEW p \in Procs, proc[p].at \in {"checking", "running", "recording"},
         proc[p].k \in schema, Goto(p, Behind(p, proc[p].k)),
         UNCHANGED <<database, schema>>, recorded' \subseteq schema
  PROVE  IInv'
<1>1. Behind(p, proc[p].k) = [Behind(p, proc[p].k) EXCEPT !.skipped = @ \cup {}]
  BY DEF Behind
<1>2. proc' = [proc EXCEPT ![p] = [Behind(p, proc[p].k) EXCEPT !.skipped = @ \cup {}]]
  BY <1>1 DEF Goto
<1>3. {} \in SUBSET All /\ proc[p].k \in schema \cup {}
  OBVIOUS
<1>4. ProcOK(p)'
  BY <1>2, <1>3, BehindOK
<1> QED
  BY <1>4, GotoKeeps DEF IInv

LEMMA CloseKeeps ==
  ASSUME IInv, NEW p \in Procs, Goto(p, Closed), UNCHANGED <<database, schema, recorded>>
  PROVE  IInv'
<1>1. ProcOK(p)'
  BY DEF ProcOK, Goto, IInv
<1> QED
  BY <1>1, GotoKeeps DEF IInv

\* A process goes on with the file it is at.
LEMMA AtKeeps ==
  ASSUME IInv, NEW p \in Procs, proc[p].at \in {"checking", "running"},
         NEW x \in {"running", "recording"}, Goto(p, [proc[p] EXCEPT !.at = x]), UNCHANGED <<database, recorded>>,
         schema \subseteq schema', schema' \subseteq All,
         x = "recording" => proc[p].k \in schema'
  PROVE  IInv'
<1>1. proc[p] # Closed /\ ProcOK(p) /\ ProcState(proc[p])
  BY ClosedIsClosed DEF IInv, ProcOK
<1>2. proc[p].k \in All /\ proc[p].skipped \subseteq All
      /\ proc[p] \in [at : {"checking", "running", "recording"}, k : All, skipped : SUBSET All]
  BY <1>1 DEF ProcState, Closed
<1>3. proc'[p] \in [at : {"checking", "running", "recording"}, k : All, skipped : SUBSET All]
      /\ proc'[p].k = proc[p].k /\ proc'[p].skipped = proc[p].skipped /\ proc'[p].at = x
  BY <1>2 DEF Goto, IInv
<1>4. All' = All
  BY DEF All
<1>5. ProcState(proc[p])' /\ Behindhand(p)'
  BY <1>1, <1>3, <1>4 DEF ProcState, ProcOK, Behindhand
<1>6. ProcOK(p)'
  BY <1>1, <1>3, <1>5 DEF ProcOK, At
<1> QED
  BY <1>6, GotoKeeps DEF IInv

LEMMA MigrationKeeps ==
  ASSUME IInv, NEW p \in Procs, MigrationStep(p)
  PROVE  IInv'
<1>0. \A x : At(p, x) <=> proc[p].at = x
  BY DEF At
<1>1. CASE Start(p)
  <2> DEFINE x == [at |-> "checking", k |-> 1, skipped |-> {}]
  <2>1. 1 \in All /\ \A k \in All : ~ (k < 1)
    BY FileIds, FilesAssumption DEF IInv
  <2>2. Goto(p, x) /\ UNCHANGED <<database, schema, recorded>> /\ All' = All
    BY <1>1 DEF Start, All
  <2>3. proc'[p] = x
    BY <2>2 DEF Goto, IInv
  <2>4. ProcOK(p)'
    BY <2>1, <2>2, <2>3 DEF ProcOK, ProcState, Behindhand, At
  <2> QED
    <3> HIDE DEF x
    <3> QED BY <2>2, <2>4, GotoKeeps DEF IInv
<1>2. CASE Check(p)
  <2>1. CASE proc[p].k \in recorded
    BY <1>0, <1>2, <2>1, OnwardsKeeps DEF Check, IInv
  <2>2. CASE proc[p].k \notin recorded
    BY <1>0, <1>2, <2>2, AtKeeps DEF Check, IInv
  <2> QED
    BY <2>1, <2>2
<1>3. CASE CheckFails(p)
  <2>1. CASE database = "user"
    BY <1>0, <1>3, <2>1, AtKeeps DEF CheckFails, IInv
  <2>2. CASE database # "user"
    <3> DEFINE more == {proc[p].k} \ recorded
               x    == [Behind(p, proc[p].k) EXCEPT !.skipped = @ \cup more]
    <3>1. proc[p] # Closed /\ proc[p].at = "checking" /\ ProcState(proc[p])
      BY <1>0, <1>3, ClosedIsClosed DEF CheckFails, IInv, ProcOK
    <3>2. proc[p].k \in All
      BY <3>1 DEF ProcState, Closed
    <3>3. more \in SUBSET All /\ proc[p].k \in schema \cup more
      BY <3>2 DEF IInv
    <3>4. Goto(p, x) /\ UNCHANGED <<database, schema, recorded>>
      BY <1>3, <2>2 DEF CheckFails
    <3>5. proc' = [proc EXCEPT ![p] = [Behind(p, proc[p].k) EXCEPT !.skipped = @ \cup more]]
      BY <3>4 DEF Goto
    <3>6. ProcOK(p)'
      <4> HIDE DEF more
      <4> QED BY <2>2, <3>1, <3>3, <3>4, <3>5, BehindOK
    <3> QED
      <4> HIDE DEF x
      <4> QED BY <3>4, <3>6, GotoKeeps DEF IInv
  <2> QED
    BY <2>1, <2>2
<1>4. CASE Run(p)
  <2>1. proc[p].at = "running" /\ proc[p] # Closed
    BY <1>0, <1>4, ClosedIsClosed DEF Run
  <2>2. proc[p].k \in All
    BY <2>1 DEF IInv, ProcOK, ProcState, Closed
  <2>3. schema' = schema \cup {proc[p].k} /\ Goto(p, [proc[p] EXCEPT !.at = "recording"])
        /\ UNCHANGED <<database, recorded>>
    BY <1>4 DEF Run
  <2>4. schema \subseteq schema' /\ schema' \subseteq All /\ proc[p].k \in schema'
    BY <2>2, <2>3 DEF IInv
  <2> QED
    BY <2>1, <2>3, <2>4, AtKeeps
<1>5. CASE Record(p)
  <2>1. proc[p].at = "recording" /\ proc[p].k \in schema
    BY <1>0, <1>5, ClosedIsClosed DEF Record, IInv, ProcOK
  <2>2. CASE proc[p].k \in recorded
    <3>1. recorded' = recorded
      BY <1>5, <2>2 DEF Record
    <3> QED
      BY <1>5, <2>2, <3>1, CloseKeeps DEF Record
  <2>3. CASE proc[p].k \notin recorded
    BY <1>5, <2>1, <2>3, OnwardsKeeps DEF Record, IInv
  <2> QED
    BY <2>2, <2>3
<1>6. CASE RunRefused(p) \/ Breaks(p) \/ Close(p)
  BY <1>6, CloseKeeps DEF RunRefused, Breaks, Close
<1>7. CASE \E d \in Drafts : StoreDraft(p, d)
  BY <1>7 DEF StoreDraft, IInv, ProcOK, ProcState, Behindhand, All, At
<1> QED
  BY <1>1, <1>2, <1>3, <1>4, <1>5, <1>6, <1>7 DEF MigrationStep, Work

LEMMA InitIInv == Init => IInv
<1> SUFFICES ASSUME Init PROVE IInv
  OBVIOUS
<1>1. database \in DOMAIN Files /\ schema \subseteq All /\ recorded = {} /\ proc = [p \in Procs |-> Closed]
  BY DEF Init, MigrationInit
<1> QED
  BY <1>1 DEF IInv, ProcOK

LEMMA NextIInv == IInv /\ [Next]_vars => IInv'
<1> SUFFICES ASSUME IInv, [Next]_vars PROVE IInv'
  OBVIOUS
<1>1. CASE \E p \in Procs : MigrationStep(p)
  BY <1>1, MigrationKeeps
<1>2. CASE UNCHANGED <<database, schema, recorded, proc>>
  BY <1>2 DEF IInv, ProcOK, ProcState, Behindhand, All, At
<1>3. ToolStep \/ CopyFails \/ UserActs => UNCHANGED <<database, schema, recorded, proc>>
  BY DEF ToolStep, CountEntries, Answer, CopyEntries, CopyRates, CopyInvoices, CopySettings, CopyFails,
         UserActs, migrationVars
<1> QED
  BY <1>1, <1>2, <1>3 DEF Next, vars

\* A recorded file has had its effect, whoever crashed between a commit and its
\* record, and however many processes migrate.
THEOREM RecordedHolds == Spec => []RecordedIsApplied
<1>1. IInv => RecordedIsApplied
  BY DEF IInv, RecordedIsApplied
<1> QED
  BY <1>1, InitIInv, NextIInv, PTL DEF Spec

\* Who uses the database of a user finds every migration in it; only checks that
\* failed may leave a file out, and of the auth database alone.
THEOREM OpenHolds == Spec => []OpenIsMigrated
<1>1. IInv => OpenIsMigrated
  <2> SUFFICES ASSUME IInv, NEW p \in Procs, At(p, "open")
               PROVE  /\ All \ schema \subseteq proc[p].skipped
                      /\ database = "user" => proc[p].skipped = {}
    BY DEF OpenIsMigrated
  <2>1. proc[p].at = "open" /\ proc[p] # Closed
    BY ClosedIsClosed DEF At
  <2>2. ProcState(proc[p]) /\ Behindhand(p) /\ (database = "user" => proc[p].skipped = {})
    BY <2>1 DEF IInv, ProcOK
  <2>3. proc[p].k = Len(Files[database]) + 1
    BY <2>1, <2>2 DEF ProcState
  <2>4. \A k \in All : k < proc[p].k
    BY <2>3, FileIds DEF IInv
  <2> QED
    BY <2>2, <2>4 DEF Behindhand
<1> QED
  BY <1>1, InitIInv, NextIInv, PTL DEF Spec

-----------------------------------------------------------------------------
\* Reasons are stored by an open server only, which has found every migration, and
\* so the column for them; no rebuild runs in a table that has it.
Reasoned == (\E d \in Drafts : drafts[d] = "reason") => Widened

LEMMA StoreWidened ==
  ASSUME IInv, NEW p \in Procs, At(p, "open"), database = "user"
  PROVE  Widened
<1>1. All \subseteq schema
  <2>1. proc[p] # Closed /\ ProcOK(p) /\ proc[p].at = "open"
    BY ClosedIsClosed DEF At, IInv
  <2>2. proc[p].k = Len(Files[database]) + 1 /\ proc[p].skipped = {}
    BY <2>1 DEF ProcOK, ProcState, Closed
  <2>3. \A k \in All : k < proc[p].k
    BY <2>2, FileIds DEF IInv
  <2> QED
    BY <2>1, <2>2, <2>3 DEF ProcOK, Behindhand
<1> QED
  BY <1>1, FilesAssumption DEF Widened, All, File

LEMMA NextReasoned ==
  ASSUME IInv, Reasoned, [Next]_vars
  PROVE  /\ Reasoned'
         /\ \A d \in Drafts : drafts[d] = "reason" => drafts'[d] = "reason"
<1> DEFINE Goal == /\ Reasoned'
                   /\ \A d \in Drafts : drafts[d] = "reason" => drafts'[d] = "reason"
<1>0. ASSUME database' = database, schema \subseteq schema'
      PROVE  Widened => Widened'
  BY <1>0 DEF Widened, File
<1>1. ASSUME NEW p \in Procs, Run(p) PROVE Goal
  <2>1. /\ database' = database /\ schema \subseteq schema'
        /\ File(proc[p].k).kind = "rebuild" => ~ Widened
        /\ drafts' = [d \in Drafts |->
             IF File(proc[p].k).kind = "rebuild" /\ drafts[d] = "reason" THEN "plain" ELSE drafts[d]]
    BY <1>1 DEF Run, Runnable
  <2>2. \A d \in Drafts : drafts'[d] = drafts[d]
    BY <2>1 DEF Reasoned
  <2> QED
    BY <1>0, <2>1, <2>2 DEF Reasoned
<1>2. ASSUME NEW p \in Procs, NEW d \in Drafts, StoreDraft(p, d) PROVE Goal
  <2>1. Widened /\ Widened'
    BY <1>0, <1>2, StoreWidened DEF StoreDraft
  <2>2. \A e \in Drafts : drafts[e] = "reason" => drafts'[e] = "reason"
    BY <1>2 DEF StoreDraft
  <2> QED
    BY <2>1, <2>2 DEF Reasoned
<1>3. ASSUME UNCHANGED <<database, schema, drafts>> PROVE Goal
  BY <1>0, <1>3 DEF Reasoned
<1>4. ASSUME NEW p \in Procs, MigrationStep(p) PROVE Goal
  <2>1. Start(p) \/ Check(p) \/ RunRefused(p) \/ Record(p) \/ CheckFails(p) \/ Breaks(p) \/ Close(p)
          => UNCHANGED <<database, schema, drafts>>
    BY DEF Start, Check, RunRefused, Record, CheckFails, Breaks, Close
  <2> QED
    BY <1>1, <1>2, <1>3, <1>4, <2>1 DEF MigrationStep, Work
<1>5. ToolStep \/ CopyFails \/ UserActs \/ UNCHANGED vars => UNCHANGED <<database, schema, drafts>>
  BY DEF ToolStep, CountEntries, Answer, CopyEntries, CopyRates, CopyInvoices, CopySettings, CopyFails,
         UserActs, migrationVars, vars
<1> HIDE DEF Goal
<1>6. Goal
  BY <1>3, <1>4, <1>5 DEF Next
<1> QED
  BY <1>6 DEF Goal

\* A stored reason survives every migration, whichever of several processes runs a
\* file late or again.
THEOREM ReasonsKept == Spec => DraftsKept
<1>1. Init => Reasoned
  BY DEF Init, MigrationInit, Reasoned
<1>2. IInv /\ Reasoned /\ [Next]_vars => Reasoned'
  BY NextReasoned
<1>3. IInv /\ Reasoned /\ [Next]_vars
        => [\A d \in Drafts : drafts[d] = "reason" => drafts'[d] = "reason"]_vars
  BY NextReasoned
<1> QED
  BY <1>1, <1>2, <1>3, InitIInv, NextIInv, PTL DEF Spec, DraftsKept

-----------------------------------------------------------------------------
Lines == DOMAIN invoices = Numbers /\ LinesBelong

LEMMA NextLines == Lines /\ [Next]_vars => Lines'
<1> SUFFICES ASSUME Lines, [Next]_vars PROVE Lines'
  OBVIOUS
<1>1. CASE CopyInvoices
  <2>1. PICK S \in SUBSET LegacyInvoices, bare \in SUBSET LegacyInvoices :
          invoices' = [n \in Numbers |->
            IF n \in S /\ Missing(n) THEN Copied(IF n \in bare THEN {} ELSE {"legacy"})
            ELSE invoices[n]]
    BY <1>1 DEF CopyInvoices
  <2> QED
    BY <2>1 DEF Lines, LinesBelong, Copied
<1>2. CASE UserActs
  <2>1. \/ UNCHANGED invoices
        \/ \E n \in OwnNumbers : invoices' = [invoices EXCEPT ![n] = OwnInvoice]
    BY <1>2 DEF UserActs
  <2> QED
    BY <2>1 DEF Lines, LinesBelong, OwnInvoice
<1>3. CASE UNCHANGED invoices
  BY <1>3 DEF Lines, LinesBelong
<1>4. ASSUME NEW p \in Procs, MigrationStep(p) PROVE UNCHANGED invoices
  BY <1>4 DEF MigrationStep
<1>5. CountEntries \/ CopyEntries \/ CopyRates \/ CopySettings \/ CopyFails
        \/ (\E yes \in BOOLEAN : Answer(yes)) => UNCHANGED invoices
  BY DEF CountEntries, Answer, CopyEntries, CopyRates, CopySettings, CopyFails, tables
<1> QED
  BY <1>1, <1>2, <1>3, <1>4, <1>5 DEF Next, ToolStep, vars

\* No invoice has lines of another, whatever numbers the user gives away while
\* the tool copies.
THEOREM LinesBelongHolds == Spec => []LinesBelong
<1>1. Init => Lines
  BY DEF Init, Lines, LinesBelong, NoInvoice
<1>2. Lines => LinesBelong
  BY DEF Lines
<1> QED
  BY <1>1, <1>2, NextLines, PTL DEF Spec

-----------------------------------------------------------------------------
\* The tool copies unasked only when it has found no entry, and nobody but the
\* tool adds one of the legacy database.
Undoubled ==
  /\ entries \in [LegacyEntries -> Nat]
  /\ ~ confirmed => /\ \A e \in LegacyEntries : entries[e] <= 1
                    /\ move = "entries" => \A e \in LegacyEntries : entries[e] = 0

LEMMA NextUndoubled == Undoubled /\ [Next]_vars => Undoubled'
<1> SUFFICES ASSUME Undoubled, [Next]_vars PROVE Undoubled'
  OBVIOUS
<1>1. CASE \E p \in Procs : MigrationStep(p)
  <2>1. UNCHANGED <<entries, confirmed>> /\ (move' = "entries" => move = "entries")
    BY <1>1 DEF MigrationStep
  <2> QED
    BY <2>1 DEF Undoubled
<1>2. CASE CountEntries
  <2>1. UNCHANGED <<entries, confirmed>>
    BY <1>2 DEF CountEntries, tables
  <2>2. move' = "entries" => \A e \in LegacyEntries : entries[e] = 0
    <3>1. move' = IF EntryCount > 0 THEN "asking" ELSE "entries"
      BY <1>2 DEF CountEntries
    <3>2. EntryCount > 0 \/ ~ \E e \in LegacyEntries : entries[e] > 0
      BY DEF EntryCount
    <3> QED
      BY <3>1, <3>2 DEF Undoubled
  <2> QED
    BY <2>1, <2>2 DEF Undoubled
<1>3. CASE \E yes \in BOOLEAN : Answer(yes)
  <2>1. PICK yes \in BOOLEAN : /\ UNCHANGED entries
                              /\ confirmed' = (confirmed \/ yes)
                              /\ move' = IF yes THEN "entries" ELSE "done"
    BY <1>3 DEF Answer, tables
  <2>2. CASE yes
    <3>1. confirmed'
      BY <2>1, <2>2, Zenon
    <3> QED
      BY <2>1, <3>1 DEF Undoubled
  <2>3. CASE ~ yes
    <3>1. move' # "entries"
      BY <2>1, <2>3
    <3>2. ~ confirmed' => ~ confirmed
      BY <2>1, Zenon
    <3> QED
      BY <2>1, <3>1, <3>2 DEF Undoubled
  <2> QED
    BY <2>2, <2>3
<1>4. CASE CopyEntries
  <2>1. PICK S \in SUBSET LegacyEntries :
          /\ entries' = [e \in LegacyEntries |-> entries[e] + (IF e \in S THEN 1 ELSE 0)]
          /\ move = "entries" /\ move' = "rates" /\ confirmed' = confirmed
    BY <1>4 DEF CopyEntries
  <2>2. entries' \in [LegacyEntries -> Nat]
    BY <2>1 DEF Undoubled
  <2> QED
    BY <2>1, <2>2 DEF Undoubled
<1>5. CASE CopyRates \/ CopyInvoices \/ CopySettings \/ CopyFails
  <2>1. UNCHANGED <<entries, confirmed>>
    BY <1>5 DEF CopyRates, CopyInvoices, CopySettings, CopyFails, tables
  <2>2. CASE CopyRates \/ CopyInvoices \/ CopySettings
    <3>1. move' \in {"invoices", "settings", "done"}
      BY <2>2 DEF CopyRates, CopyInvoices, CopySettings
    <3> QED
      BY <2>1, <3>1 DEF Undoubled
  <2>3. CASE CopyFails
    <3> DEFINE next == [entries |-> "rates", rates |-> "invoices", invoices |-> "settings", settings |-> "done"]
    <3>1. move \in {"entries", "rates", "invoices", "settings"} /\ move' = next[move]
      <4>1. move \in DOMAIN next /\ move' = next[move]
        BY <2>3 DEF CopyFails
      <4>2. DOMAIN next = {"entries", "rates", "invoices", "settings"}
        OBVIOUS
      <4> HIDE DEF next
      <4> QED
        BY <4>1, <4>2
    <3>2. move' # "entries"
      BY <3>1
    <3> QED
      BY <2>1, <3>2 DEF Undoubled
  <2> QED
    BY <1>5, <2>2, <2>3
<1>6. CASE UserActs
  <2>1. move' = move /\ confirmed' = confirmed
    BY <1>6 DEF UserActs
  <2>2. \/ UNCHANGED entries
        \/ \E e \in LegacyEntries : entries[e] > 0 /\ entries' = [entries EXCEPT ![e] = @ - 1]
    BY <1>6 DEF UserActs
  <2> QED
    BY <2>1, <2>2 DEF Undoubled
<1>7. CASE UNCHANGED vars
  BY <1>7 DEF vars, Undoubled
<1> QED
  BY <1>1, <1>2, <1>3, <1>4, <1>5, <1>6, <1>7 DEF Next, ToolStep

\* No entry is copied twice unless the operator was asked and said yes.
THEOREM DoubledOnlyConfirmedHolds == Spec => []DoubledOnlyConfirmed
<1>1. Init => Undoubled
  BY DEF Init, Undoubled
<1>2. Undoubled => DoubledOnlyConfirmed
  BY DEF Undoubled, DoubledOnlyConfirmed
<1> QED
  BY <1>1, <1>2, NextUndoubled, PTL DEF Spec

=============================================================================
