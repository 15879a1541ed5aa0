------------------------------ MODULE Migrations ------------------------------
(***************************************************************************)
(* Store.Migrate and AuthDB.Migrate: processes that open one database and  *)
(* bring its schema up to date, file by file.  A file is run in a          *)
(* transaction and recorded in schema_migrations by a statement of its     *)
(* own, so that two processes, or a process and its successor after a      *)
(* crash, may run the same file.                                           *)
(*                                                                         *)
(* Of a file the model keeps what decides whether it can run again: which  *)
(* earlier files it needs, and whether it creates something only if it is  *)
(* missing, adds columns (a duplicate is skipped), or rebuilds the drafts  *)
(* table by copying all its columns.  The rows that could suffer from it   *)
(* are the drafts of OCR imports and their review reasons.                 *)
(***************************************************************************)
EXTENDS Integers, Sequences, FiniteSets

CONSTANTS
  Files,      \* per database: its migration files in order, [kind, needs, widens]
  Openers,    \* per database: the processes that open it
  Drafts,     \* ids of drafts
  MaxFaults   \* bound: crashes and failing statements

Procs == UNION {Openers[d] : d \in DOMAIN Openers}

ASSUME FilesAssumption ==
  /\ DOMAIN Files = {"user", "auth"} /\ DOMAIN Openers = DOMAIN Files
  /\ \A d \in DOMAIN Files :
       /\ Files[d] \in Seq([kind : {"create", "columns", "rebuild"}, needs : SUBSET Nat, widens : BOOLEAN])
       /\ Files[d] # <<>>
  /\ \A d \in DOMAIN Files : \A k \in DOMAIN Files[d] : Files[d][k].needs \subseteq 1 .. k - 1
  /\ \E k \in DOMAIN Files["user"] : Files["user"][k].widens
  /\ MaxFaults \in Nat

VARIABLES
  database,  \* which database the processes open
  schema,    \* the files whose effect is in the database
  recorded,  \* schema_migrations
  drafts,    \* the rows of ocr_draft_entries: none, with the columns of 002, or a reason, too
  proc,      \* what each process does
  faults     \* faults so far

migrationVars == <<database, schema, recorded, drafts, proc, faults>>

-----------------------------------------------------------------------------
Closed == [at |-> "closed"]
All    == DOMAIN Files[database]
File(k) == Files[database][k]

\* The drafts table has the column of the reasons.
Widened   == \E k \in schema : File(k).widens

\* What the statements of file k need in order to succeed: the tables it names,
\* and for INSERT ... SELECT * a table with the columns of the new one.
Runnable(k) ==
  /\ File(k).needs \subseteq schema
  /\ File(k).kind = "rebuild" => ~ Widened

At(p, x) == proc[p].at = x
Goto(p, x) == proc' = [proc EXCEPT ![p] = x]

\* The loop over the files goes on behind file k.
Behind(p, k) ==
  [at |-> IF k + 1 \in All THEN "checking" ELSE "open", k |-> k + 1, skipped |-> proc[p].skipped]

Fault == faults < MaxFaults /\ faults' = faults + 1

\* A database may come from before schema_migrations: its tables are there and
\* not recorded, and drafts may be in them.
MigrationInit ==
  /\ database \in DOMAIN Files
  /\ schema \in {1 .. n : n \in 0 .. 2} /\ schema \subseteq All
  /\ recorded = {}
  /\ drafts \in [Drafts -> {"none", "plain"}]
  /\ database = "auth" \/ schema = {} => \A d \in Drafts : drafts[d] = "none"
  /\ ~ Widened
  /\ proc = [p \in Procs |-> Closed]
  /\ faults = 0

-----------------------------------------------------------------------------
\* Open, and Migrate up to its loop.  A failed migration is tried again by the
\* next request of the user, the next start of the server or of the tool.
Start(p) ==
  /\ proc[p] = Closed
  /\ p \in Openers[database]
  /\ Goto(p, [at |-> "checking", k |-> 1, skipped |-> {}])
  /\ UNCHANGED <<database, schema, recorded, drafts, faults>>

\* isMigrationApplied.
Check(p) ==
  LET k == proc[p].k
  IN  /\ At(p, "checking")
      /\ Goto(p, IF k \in recorded THEN Behind(p, k) ELSE [proc[p] EXCEPT !.at = "running"])
      /\ UNCHANGED <<database, schema, recorded, drafts, faults>>

\* Mutant: a file whose check failed is skipped in the database of a user, too.
CheckFailsSkips(p) ==
  LET k == proc[p].k
  IN  /\ At(p, "checking")
      /\ Fault
      /\ Goto(p, [Behind(p, k) EXCEPT !.skipped = @ \cup ({k} \ recorded)])
      /\ UNCHANGED <<database, schema, recorded, drafts>>

\* The query fails.  Store takes the file for not applied and runs it; AuthDB
\* goes on with the next one.
CheckFails(p) ==
  LET k == proc[p].k
  IN  /\ At(p, "checking")
      /\ Fault
      /\ Goto(p, IF database = "user" THEN [proc[p] EXCEPT !.at = "running"]
                 ELSE [Behind(p, k) EXCEPT !.skipped = @ \cup ({k} \ recorded)])
      /\ UNCHANGED <<database, schema, recorded, drafts>>

\* Mutant: the columns to copy are named, so that a late rebuild succeeds.
RunNamedColumns(p) ==
  LET k == proc[p].k
  IN  /\ At(p, "running")
      /\ File(k).needs \subseteq schema
      /\ schema' = (schema \cup {k}) \ (IF File(k).kind = "rebuild" THEN {i \in All : File(i).widens} ELSE {})
      /\ drafts' = [d \in Drafts |->
           IF File(k).kind = "rebuild" /\ drafts[d] = "reason" THEN "plain" ELSE drafts[d]]
      /\ Goto(p, [proc[p] EXCEPT !.at = "recording"])
      /\ UNCHANGED <<database, recorded, faults>>

\* The transaction of a file commits.  Writers exclude each other from their
\* first statement on, so it is one step.  A rebuild keeps all rows, in a table
\* without the columns of later files: a reason would be gone.
Run(p) ==
  LET k == proc[p].k
  IN  /\ At(p, "running")
      /\ Runnable(k)
      /\ schema' = schema \cup {k}
      /\ drafts' = [d \in Drafts |->
           IF File(k).kind = "rebuild" /\ drafts[d] = "reason" THEN "plain" ELSE drafts[d]]
      /\ Goto(p, [proc[p] EXCEPT !.at = "recording"])
      /\ UNCHANGED <<database, recorded, faults>>

\* A statement of the file fails: the transaction is rolled back, Migrate returns
\* the error and the database is closed again.
RunRefused(p) ==
  /\ At(p, "running")
  /\ ~ Runnable(proc[p].k)
  /\ Goto(p, Closed)
  /\ UNCHANGED <<database, schema, recorded, drafts, faults>>

\* Mutant: the loop does not end at a file whose record is there already.
RecordOrStay(p) ==
  LET k == proc[p].k
  IN  /\ At(p, "recording")
      /\ recorded' = recorded \cup {k}
      /\ Goto(p, IF k \in recorded THEN proc[p] ELSE Behind(p, k))
      /\ UNCHANGED <<database, schema, drafts, faults>>

\* recordMigration.  The file name is a primary key: of two that ran the file the
\* second fails here, after its transaction.
Record(p) ==
  LET k == proc[p].k
  IN  /\ At(p, "recording")
      /\ recorded' = recorded \cup {k}
      /\ Goto(p, IF k \in recorded THEN Closed ELSE Behind(p, k))
      /\ UNCHANGED <<database, schema, drafts, faults>>

\* The process dies, or a statement of its transaction or the record fails.
Breaks(p) ==
  /\ proc[p] # Closed
  /\ Fault
  /\ Goto(p, Closed)
  /\ UNCHANGED <<database, schema, recorded, drafts>>

\* A store that is not used any more is closed; the server stops.
Close(p) ==
  /\ At(p, "open")
  /\ Goto(p, Closed)
  /\ UNCHANGED <<database, schema, recorded, drafts, faults>>

\* The open database of a user is used: an OCR job stores a draft and why it
\* needs review.
StoreDraft(p, d) ==
  /\ At(p, "open")
  /\ database = "user"
  /\ drafts[d] = "none"
  /\ drafts' = [drafts EXCEPT ![d] = "reason"]
  /\ UNCHANGED <<database, schema, recorded, proc, faults>>

Work(p) == Start(p) \/ Check(p) \/ Run(p) \/ RunRefused(p) \/ Record(p)

-----------------------------------------------------------------------------
\* A file that is recorded, and so never run again, has had its effect, whoever
\* crashed where.
RecordedIsApplied == recorded \subseteq schema

\* A process that uses the database of a user finds every migration in it.  In
\* the auth database only the files whose check failed may be missing.
OpenIsMigrated ==
  \A p \in Procs : At(p, "open") =>
    /\ All \ schema \subseteq proc[p].skipped
    /\ database = "user" => proc[p].skipped = {}

=============================================================================
