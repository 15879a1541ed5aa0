------------------------------ MODULE OcrImport ------------------------------
(***************************************************************************)
(* The paper-entry import of one user: uploads, the background job that    *)
(* extracts drafts, and the review that turns drafts into entries.         *)
(*                                                                         *)
(* A browser tab runs one handler at a time; jobs run beside them.  Each   *)
(* database statement is a step.  So is each transaction: its first write  *)
(* holds the lock to the end, and one that read an old snapshot is refused *)
(* (module Ledger).  A statement may run on a connection that enforces     *)
(* foreign keys or on one that does not.                                   *)
(*                                                                         *)
(* A draft's date, category, hours and notes are one value; Blank is any   *)
(* value the validators reject: a bad date, no category, no positive hours.*)
(***************************************************************************)
EXTENDS Integers, Sequences, FiniteSets

CONSTANTS
  Tabs,               \* browser tabs of the user
  Uploads,            \* sequences of uploaded images, by kind
  Values, Blank,      \* valid draft contents, and a rejected one
  Extractions,        \* sequences of drafts the OCR service finds on an image
  ServiceConfigured,  \* OCR_SERVICE_URL is set
  MaxSessions         \* bound on the sessions ever created

\* A "photo" is stored twice, as uploaded and preprocessed; a "plain" image
\* (HEIF, or one PreprocessImage cannot read) once; a "broken" one fails
\* ValidateImageFile.
ImageKinds == {"photo", "plain", "broken"}
Contents   == Values \cup {Blank}

ASSUME UploadsAssumption     == Uploads \subseteq Seq(ImageKinds) \ {<<>>}
ASSUME BlankAssumption       == Blank \notin Values
ASSUME ExtractionsAssumption == Extractions \subseteq Seq(Contents)
ASSUME FlagsAssumption       == ServiceConfigured \in BOOLEAN
ASSUME MaxSessionsAssumption == MaxSessions \in Nat

VARIABLES
  state,     \* ocr_import_sessions: the state of every session there is
  images,    \* ocr_session_images
  drafts,    \* ocr_draft_entries
  entries,   \* the entries made of drafts, the nth of each draft
  files,     \* the upload directory
  nextId,    \* AUTOINCREMENT of sessions and drafts
  job,       \* the background job of each session
  req,       \* the handler each tab waits for
  page,      \* the review form each tab shows
  faulty     \* in this run the process may die and statements may be refused

vars == <<state, images, drafts, entries, files, nextId, job, req, page, faulty>>

-----------------------------------------------------------------------------
Sessions == 1 .. MaxSessions
Idle     == [op |-> "idle"]
NoJob    == [at |-> "none"]
NoPage   == [session |-> 0, ids |-> {}]

File(s, k, form) == [session |-> s, image |-> k, form |-> form]

\* What saveAndPreprocess writes, and the path it returns for the image row.
Written(s, k, kind) ==
  {File(s, k, "original")} \cup IF kind = "photo" THEN {File(s, k, "processed")} ELSE {}
StoredPath(s, k, kind) ==
  File(s, k, IF kind = "photo" THEN "processed" ELSE "original")

Own(s)     == {d \in drafts : d.session = s}
Running(p) == req[p].op # "idle"

Respond(p) == req' = [req EXCEPT ![p] = Idle]

\* UPDATE ocr_import_sessions ... WHERE id = s: nothing when there is no row.
SetState(s, to) ==
  state' = [t \in DOMAIN state |-> IF t = s THEN to ELSE state[t]]

\* DELETE FROM ocr_import_sessions; drafts and images follow the row by ON DELETE
\* CASCADE, on a connection that enforces it.
DropSession(s) ==
  /\ state' = [t \in DOMAIN state \ {s} |-> state[t]]
  /\ \/ /\ s \in DOMAIN state
        /\ images' = {i \in images : i.session # s}
        /\ drafts' = drafts \ Own(s)
     \/ UNCHANGED <<images, drafts>>

Init ==
  /\ state = [s \in {} |-> "uploaded"]
  /\ images = {}
  /\ drafts = {}
  /\ entries = {}
  /\ files = {}
  /\ nextId = [session |-> 1, draft |-> 1]
  /\ job = [s \in Sessions |-> NoJob]
  /\ req = [p \in Tabs |-> Idle]
  /\ page = [p \in Tabs |-> NoPage]
  /\ faulty \in BOOLEAN

-----------------------------------------------------------------------------
\* StartSession: the session row first ...
StartUpload(p, kinds) ==
  LET s == nextId.session
  IN  /\ ~ Running(p)
      /\ s <= MaxSessions
      /\ state' = [t \in DOMAIN state \cup {s} |-> IF t = s THEN "uploaded" ELSE state[t]]
      /\ nextId' = [nextId EXCEPT !.session = @ + 1]
      /\ req' = [req EXCEPT ![p] = [op |-> "upload", session |-> s, left |-> kinds, saved |-> 0]]
      /\ page' = [page EXCEPT ![p] = NoPage]
      /\ UNCHANGED <<images, drafts, entries, files, job>>

\* ... then image by image, file and row (nobody else looks for the file).  The
\* row is refused when the session was deleted meanwhile.
SaveImage(p) ==
  LET s    == req[p].session
      k    == req[p].saved + 1
      kind == Head(req[p].left)
  IN  /\ req[p].op = "upload"
      /\ req[p].left # <<>>
      /\ kind # "broken"
      /\ files' = files \cup Written(s, k, kind)
      /\ \/ /\ images' = images \cup {[session |-> s, image |-> k, path |-> StoredPath(s, k, kind)]}
            /\ req' = [req EXCEPT ![p] = [op |-> "upload", session |-> s, left |-> Tail(req[p].left), saved |-> k]]
         \/ /\ s \notin DOMAIN state \/ faulty
            /\ req' = [req EXCEPT ![p] = [op |-> "cleanup", session |-> s, saved |-> k]]
            /\ UNCHANGED images
      /\ UNCHANGED <<state, drafts, entries, nextId, job, page>>

\* An image that fails validation is on disk already, and not yet in the list
\* of files the deferred cleanup removes.
RejectImage(p) ==
  LET s == req[p].session
      k == req[p].saved + 1
  IN  /\ req[p].op = "upload"
      /\ req[p].left # <<>>
      /\ Head(req[p].left) = "broken"
      /\ files' = files \cup {File(s, k, "original")}
      /\ req' = [req EXCEPT ![p] = [op |-> "cleanup", session |-> s, saved |-> k - 1]]
      /\ UNCHANGED <<state, images, drafts, entries, nextId, job, page>>

\* Mutant: the cleanup removes the files and leaves the session.
CleanupFilesOnly(p) ==
  LET s == req[p].session
  IN  /\ req[p].op = "cleanup"
      /\ files' = {f \in files : f.session = s => f.image > req[p].saved}
      /\ Respond(p)
      /\ UNCHANGED <<state, images, drafts, entries, nextId, job, page>>

\* The deferred cleanup of a failed upload ignores every error.
CleanupUpload(p) ==
  LET s == req[p].session
  IN  /\ req[p].op = "cleanup"
      /\ \/ DropSession(s)
         \/ faulty /\ UNCHANGED <<state, images, drafts>>
      /\ files' = {f \in files : f.session = s => f.image > req[p].saved}
      /\ Respond(p)
      /\ UNCHANGED <<entries, nextId, job, page>>

\* All images are saved; ocrStartSession starts a job if a service is configured.
FinishUpload(p) ==
  LET s == req[p].session
  IN  /\ req[p].op = "upload"
      /\ req[p].left = <<>>
      /\ SetState(s, "uploaded")
      /\ job' = IF ServiceConfigured THEN [job EXCEPT ![s] = [at |-> "queued"]] ELSE job
      /\ Respond(p)
      /\ UNCHANGED <<images, drafts, entries, files, nextId, page>>

-----------------------------------------------------------------------------
\* ProcessSession.
JobBegin(s) ==
  /\ job[s].at = "queued"
  /\ SetState(s, "processing")
  /\ job' = [job EXCEPT ![s] = [at |-> "reading"]]
  /\ UNCHANGED <<images, drafts, entries, files, nextId, req, page>>

JobRead(s) ==
  /\ job[s].at = "reading"
  /\ job' = [job EXCEPT ![s] =
       [at |-> "extracting", todo |-> {i \in images : i.session = s}, found |-> <<>>]]
  /\ UNCHANGED <<state, images, drafts, entries, files, nextId, req, page>>

\* One request to the OCR service per image, in the order of the rows.
JobExtract(s) ==
  /\ job[s].at = "extracting"
  /\ \E i \in job[s].todo, found \in Extractions :
       /\ \A j \in job[s].todo : i.image <= j.image
       /\ i.path \in files
       /\ job' = [job EXCEPT ![s] =
            [at |-> "extracting", todo |-> job[s].todo \ {i}, found |-> job[s].found \o found]]
  /\ UNCHANGED <<state, images, drafts, entries, files, nextId, req, page>>

\* Mutant: the job begins again when an image cannot be extracted.
JobRetries(s) ==
  /\ job[s].at = "extracting"
  /\ job[s].todo # {}
  /\ job' = [job EXCEPT ![s] = [at |-> "reading"]]
  /\ UNCHANGED <<state, images, drafts, entries, files, nextId, req, page>>

\* Mutant: an error of the service ends the job without a call of fail.
JobGivesUp(s) ==
  /\ job[s].at = "extracting"
  /\ job[s].todo # {}
  /\ job' = [job EXCEPT ![s] = NoJob]
  /\ UNCHANGED <<state, images, drafts, entries, files, nextId, req, page>>

\* The file is gone, the service answers with an error or not within 120 s.
JobExtractFails(s) ==
  /\ job[s].at = "extracting"
  /\ job[s].todo # {}
  /\ job' = [job EXCEPT ![s] = [at |-> "failing"]]
  /\ UNCHANGED <<state, images, drafts, entries, files, nextId, req, page>>

NewDrafts(s, found) ==
  {[id |-> nextId.draft + n - 1, session |-> s, value |-> found[n], confirmed |-> FALSE] :
     n \in 1 .. Len(found)}

\* Mutant: the ids of the drafts that were cleared are given out again.
JobSaveReusingIds(s) ==
  /\ job[s].at = "extracting"
  /\ job[s].todo = {}
  /\ drafts' = (drafts \ Own(s)) \cup NewDrafts(s, job[s].found)
  /\ job' = [job EXCEPT ![s] = [at |-> "finishing"]]
  /\ UNCHANGED <<state, images, entries, files, nextId, req, page>>

\* SaveDraftEntries replaces the drafts of the session, in a transaction.
JobSave(s) ==
  /\ job[s].at = "extracting"
  /\ job[s].todo = {}
  /\ \/ /\ drafts' = (drafts \ Own(s)) \cup NewDrafts(s, job[s].found)
        /\ nextId' = [nextId EXCEPT !.draft = @ + Len(job[s].found)]
        /\ job' = [job EXCEPT ![s] = [at |-> "finishing"]]
     \/ /\ s \notin DOMAIN state /\ job[s].found # <<>>
        /\ job' = [job EXCEPT ![s] = [at |-> "failing"]]
        /\ UNCHANGED <<drafts, nextId>>
  /\ UNCHANGED <<state, images, entries, files, req, page>>

JobFinish(s) ==
  /\ job[s].at = "finishing"
  /\ SetState(s, "review_ready")
  /\ job' = [job EXCEPT ![s] = NoJob]
  /\ UNCHANGED <<images, drafts, entries, files, nextId, req, page>>

\* fail, whose own error is ignored.
JobFail(s) ==
  /\ job[s].at = "failing"
  /\ SetState(s, "failed")
  /\ job' = [job EXCEPT ![s] = NoJob]
  /\ UNCHANGED <<images, drafts, entries, files, nextId, req, page>>

\* A statement of the job is refused: SQLITE_BUSY, or the store was closed.
JobRefused(s) ==
  /\ faulty
  /\ \/ /\ job[s].at \in {"queued", "finishing", "failing"}
        /\ job' = [job EXCEPT ![s] = NoJob]
     \/ /\ job[s].at = "reading" \/ (job[s].at = "extracting" /\ job[s].todo = {})
        /\ job' = [job EXCEPT ![s] = [at |-> "failing"]]
  /\ UNCHANGED <<state, images, drafts, entries, files, nextId, req, page>>

-----------------------------------------------------------------------------
\* The review page of a session offers a form with its unconfirmed drafts.
OpenReview(p, s) ==
  /\ ~ Running(p)
  /\ s \in DOMAIN state
  /\ state[s] \in {"review_ready", "confirmed_part"}
  /\ page' = [page EXCEPT ![p] = [session |-> s, ids |-> {d.id : d \in {o \in Own(s) : ~ o.confirmed}}]]
  /\ UNCHANGED <<state, images, drafts, entries, files, nextId, job, req>>

\* The form is sent with the checked drafts and their fields.
SubmitConfirm(p, form) ==
  /\ ~ Running(p)
  /\ page[p] # NoPage
  /\ req' = [req EXCEPT ![p] =
       [op |-> "edit", session |-> page[p].session, form |-> form, todo |-> DOMAIN form]]
  /\ page' = [page EXCEPT ![p] = NoPage]
  /\ UNCHANGED <<state, images, drafts, entries, files, nextId, job>>

\* ConfirmDrafts, for every checked draft in the order of a Go map: invalid
\* fields end the request, valid ones are stored in the draft ...
EditDraft(p) ==
  /\ req[p].op = "edit"
  /\ \E id \in req[p].todo :
       /\ req[p].form[id] # Blank
       /\ drafts' = {IF d.id = id THEN [d EXCEPT !.value = req[p].form[id]] ELSE d : d \in drafts}
       /\ req' = [req EXCEPT ![p] =
                    [op |-> "check", session |-> req[p].session, form |-> req[p].form,
                     todo |-> req[p].todo, id |-> id]]
  /\ UNCHANGED <<state, images, entries, files, nextId, job, page>>

RefuseForm(p) ==
  /\ req[p].op = "edit"
  /\ \E id \in req[p].todo : req[p].form[id] = Blank
  /\ Respond(p)
  /\ UNCHANGED <<state, images, drafts, entries, files, nextId, job, page>>

\* ... and the draft is read again and validated as stored.
CheckDraft(p) ==
  LET r == req[p]
  IN  /\ r.op = "check"
      /\ IF \E d \in drafts : d.id = r.id /\ d.session = r.session /\ d.value # Blank
         THEN req' = [req EXCEPT ![p] = [op |-> "edit", session |-> r.session, form |-> r.form,
                                         todo |-> r.todo \ {r.id}]]
         ELSE Respond(p)
      /\ UNCHANGED <<state, images, drafts, entries, files, nextId, job, page>>

\* The entries INSERTed by ConfirmDraftEntries: one for every chosen draft.
Imported(chosen) ==
  {[draft |-> d.id, value |-> d.value,
    nth |-> 1 + Cardinality({e \in entries : e.draft = d.id})] : d \in chosen}

\* Mutant: the drafts are not marked.
ConfirmUnmarked(p) ==
  LET r     == req[p]
      ready == {d \in drafts : d.id \in DOMAIN r.form /\ d.value # Blank}
  IN  /\ r.op = "edit"
      /\ r.todo = {}
      /\ \A id \in DOMAIN r.form : \E d \in Own(r.session) : d.id = id
      /\ entries' = entries \cup Imported(ready)
      /\ SetState(r.session, "confirmed_part")
      /\ Respond(p)
      /\ UNCHANGED <<images, drafts, files, nextId, job, page>>

\* Mutant: a draft that is gone is passed over, and the others are imported.
ConfirmThoseLeft(p) ==
  LET r     == req[p]
      ready == {d \in Own(r.session) : d.id \in DOMAIN r.form /\ d.value # Blank}
  IN  /\ r.op = "edit"
      /\ r.todo = {}
      /\ IF ready # {}
         THEN /\ entries' = entries \cup Imported(ready)
              /\ drafts' = (drafts \ ready) \cup {[d EXCEPT !.confirmed = TRUE] : d \in ready}
              /\ SetState(r.session, IF \A d \in drafts' : d.session = r.session => d.confirmed
                                     THEN "confirmed" ELSE "confirmed_part")
         ELSE UNCHANGED <<state, drafts, entries>>
      /\ Respond(p)
      /\ UNCHANGED <<images, files, nextId, job, page>>

\* ConfirmDraftEntries: one transaction, which does not ask whether a draft was
\* confirmed before.  A draft that is gone or of another session rolls it back.
ConfirmDraftEntries(p) ==
  LET r     == req[p]
      ready == {d \in drafts : d.id \in DOMAIN r.form /\ d.value # Blank}
  IN  /\ r.op = "edit"
      /\ r.todo = {}
      /\ IF \A id \in DOMAIN r.form : \E d \in Own(r.session) : d.id = id
         THEN /\ entries' = entries \cup Imported(ready)
              /\ drafts' = (drafts \ ready) \cup {[d EXCEPT !.confirmed = TRUE] : d \in ready}
              /\ SetState(r.session, IF \A d \in drafts' : d.session = r.session => d.confirmed
                                     THEN "confirmed" ELSE "confirmed_part")
         ELSE UNCHANGED <<state, drafts, entries>>
      /\ Respond(p)
      /\ UNCHANGED <<images, files, nextId, job, page>>

-----------------------------------------------------------------------------
\* DeleteDraft reads the draft and rejects one that is confirmed ...
CheckDelete(p, id) ==
  /\ ~ Running(p)
  /\ id \in page[p].ids
  /\ req' = IF \E d \in drafts : d.id = id /\ ~ d.confirmed
            THEN [req EXCEPT ![p] = [op |-> "delete", session |-> page[p].session, id |-> id]]
            ELSE req
  /\ UNCHANGED <<state, images, drafts, entries, files, nextId, job, page>>

\* Mutant: the state of the session is not counted anew.
DeleteKeepingState(p) ==
  /\ req[p].op = "delete"
  /\ drafts' = {d \in drafts : d.id = req[p].id => d.confirmed}
  /\ Respond(p)
  /\ page' = [page EXCEPT ![p] = [session |-> @.session, ids |-> @.ids \ {req[p].id}]]
  /\ UNCHANGED <<state, images, entries, files, nextId, job>>

\* ... and DeleteDraftEntry deletes it if it still is not confirmed, and counts
\* the drafts that are left, in one transaction.  Only then the row disappears
\* from the page.
DeleteDraftEntry(p) ==
  LET r    == req[p]
      gone == {d \in Own(r.session) : d.id = r.id /\ ~ d.confirmed}
      left == Own(r.session) \ gone
  IN  /\ r.op = "delete"
      /\ drafts' = drafts \ gone
      /\ IF gone = {}
         THEN UNCHANGED <<state, page>>
         ELSE /\ SetState(r.session,
                   IF left # {} /\ \A d \in left : d.confirmed THEN "confirmed"
                   ELSE IF \E d \in left : d.confirmed THEN "confirmed_part" ELSE "review_ready")
              /\ page' = [page EXCEPT ![p] = [session |-> @.session, ids |-> @.ids \ {r.id}]]
      /\ Respond(p)
      /\ UNCHANGED <<images, entries, files, nextId, job>>

\* DeleteSession removes the files its image rows name, if it can read them ...
RemoveImages(p, s) ==
  /\ ~ Running(p)
  /\ s \in DOMAIN state
  /\ \/ files' = files \ {i.path : i \in {row \in images : row.session = s}}
     \/ faulty /\ UNCHANGED files
  /\ req' = [req EXCEPT ![p] = [op |-> "remove", session |-> s]]
  /\ page' = [page EXCEPT ![p] = NoPage]
  /\ UNCHANGED <<state, images, drafts, entries, nextId, job>>

\* ... and then the row.
RemoveSession(p) ==
  /\ req[p].op = "remove"
  /\ DropSession(req[p].session)
  /\ Respond(p)
  /\ UNCHANGED <<entries, files, nextId, job, page>>

-----------------------------------------------------------------------------
\* A statement of a handler fails; the upload is cleaned up first.
RequestRefused(p) ==
  /\ faulty
  /\ \/ /\ req[p].op \in {"edit", "check", "delete", "remove"}
        /\ Respond(p)
     \/ /\ req[p].op = "upload" /\ req[p].left = <<>>
        /\ req' = [req EXCEPT ![p] =
                     [op |-> "cleanup", session |-> req[p].session, saved |-> req[p].saved]]
  /\ UNCHANGED <<state, images, drafts, entries, files, nextId, job, page>>

\* The process dies: handlers and jobs are gone, tabs keep what they show.
Crash ==
  /\ faulty
  /\ req' = [p \in Tabs |-> Idle]
  /\ job' = [s \in Sessions |-> NoJob]
  /\ UNCHANGED <<state, images, drafts, entries, files, nextId, page>>

\* What a handler does next, once it runs.
Continue(p) ==
  \/ SaveImage(p) \/ RejectImage(p) \/ CleanupUpload(p) \/ FinishUpload(p)
  \/ EditDraft(p) \/ RefuseForm(p) \/ CheckDraft(p) \/ ConfirmDraftEntries(p)
  \/ DeleteDraftEntry(p) \/ RemoveSession(p) \/ RequestRefused(p)

Forms(p) == UNION {[ids -> Contents] : ids \in (SUBSET page[p].ids) \ {{}}}

Send(p) ==
  \/ \E kinds \in Uploads : StartUpload(p, kinds)
  \/ \E s \in Sessions : OpenReview(p, s)
  \/ \E form \in Forms(p) : SubmitConfirm(p, form)
  \/ \E id \in page[p].ids : CheckDelete(p, id)
  \/ \E s \in Sessions : RemoveImages(p, s)

JobStep(s) ==
  \/ JobBegin(s) \/ JobRead(s) \/ JobExtract(s) \/ JobExtractFails(s)
  \/ JobSave(s) \/ JobFinish(s) \/ JobFail(s) \/ JobRefused(s)

Next ==
  /\ \/ \E p \in Tabs : Send(p) \/ Continue(p)
     \/ \E s \in Sessions : JobStep(s)
     \/ Crash
  /\ UNCHANGED faulty

Spec == Init /\ [][Next]_vars

\* Goroutines run on: handlers and jobs come to their end, since every call they
\* wait for (SQLite, the OCR service within 120 s) returns.
FairSpec ==
  /\ Spec
  /\ \A p \in Tabs : WF_vars(Continue(p) /\ UNCHANGED faulty)
  /\ \A s \in Sessions : WF_vars(JobStep(s) /\ UNCHANGED faulty)

-----------------------------------------------------------------------------
States == {"uploaded", "processing", "review_ready", "confirmed_part", "confirmed", "failed"}
Paths  == [session : Sessions, image : Nat, form : {"original", "processed"}]
Rows   == [session : Sessions, image : Nat, path : Paths]

JobState(j) ==
  \/ j \in [at : {"none", "queued", "reading", "finishing", "failing"}]
  \/ j \in [at : {"extracting"}, todo : SUBSET Rows, found : Seq(Contents)]

RequestState(r) ==
  \/ r = Idle
  \/ r \in [op : {"upload"}, session : Sessions, left : Seq(ImageKinds), saved : Nat]
  \/ r \in [op : {"cleanup"}, session : Sessions, saved : Nat]
  \/ /\ r.op = "edit"
     /\ r = [op |-> "edit", session |-> r.session, form |-> r.form, todo |-> r.todo]
     /\ r.session \in Sessions /\ r.form \in [DOMAIN r.form -> Contents]
     /\ r.todo \subseteq DOMAIN r.form
  \/ /\ r.op = "check"
     /\ r = [op |-> "check", session |-> r.session, form |-> r.form, todo |-> r.todo, id |-> r.id]
     /\ r.session \in Sessions /\ r.form \in [DOMAIN r.form -> Contents]
     /\ r.todo \subseteq DOMAIN r.form /\ r.id \in r.todo
  \/ r \in [op : {"delete"}, session : Sessions, id : Nat]
  \/ r \in [op : {"remove"}, session : Sessions]

\* Types.  Ids are below their counters, and an id names one draft.
TypeOK ==
  /\ nextId \in [session : Nat \ {0}, draft : Nat \ {0}]
  /\ DOMAIN state \subseteq Sessions \cap 1 .. nextId.session - 1
  /\ \A s \in DOMAIN state : state[s] \in States
  /\ images \subseteq Rows
  /\ files \subseteq Paths
  /\ \A d \in drafts : /\ d \in [id : Nat, session : Sessions, value : Contents, confirmed : BOOLEAN]
                       /\ d.id < nextId.draft
                       /\ \A o \in drafts : o.id = d.id => o = d
  /\ \A e \in entries : e \in [draft : Nat, value : Values, nth : Nat] /\ e.draft < nextId.draft
  /\ DOMAIN job = Sessions /\ \A s \in Sessions : JobState(job[s])
  /\ DOMAIN req = Tabs /\ \A p \in Tabs : RequestState(req[p])
  /\ page \in [Tabs -> [session : Nat, ids : SUBSET Nat]]

\* A draft is marked confirmed exactly when an entry was made of it, whatever
\* tabs, jobs and crashes come between: ConfirmDraftEntries is all or nothing.
ConfirmedHaveEntries ==
  \A d \in drafts : d.confirmed <=> \E e \in entries : e.draft = d.id

\* The state of a session, which decides what the review page offers, agrees
\* with its drafts, although three operations and a job write it.
StateMatchesDrafts ==
  \A s \in DOMAIN state :
    LET confirmed == {d \in Own(s) : d.confirmed}
    IN  CASE state[s] = "confirmed"      -> Own(s) # {} /\ confirmed = Own(s)
          [] state[s] = "confirmed_part" -> confirmed # {} /\ confirmed # Own(s)
          [] state[s] \in {"uploaded", "failed"} -> Own(s) = {}
          [] OTHER                       -> confirmed = {}

\* A draft that was confirmed stays, as the record of its entry, as long as its
\* session: neither a delete that checked it before nor a job removes it.
ConfirmedDraftsStay ==
  [][\A d \in drafts :
       d.confirmed /\ d.session \in DOMAIN state'
         => \E o \in drafts' : o.id = d.id /\ o.confirmed]_vars

ReviewStates == {"review_ready", "confirmed_part", "confirmed"}

ReviewStatus == [s \in DOMAIN state |-> IF state[s] \in ReviewStates THEN state[s] ELSE "waiting"]

\* The form a request is about to import.
FormOf(r) ==
  IF r.op \in {"edit", "check"} THEN [session |-> r.session, form |-> r.form]
  ELSE [session |-> 0, form |-> <<>>]

Review == INSTANCE DraftReview WITH next <- nextId.draft, review <- ReviewStatus,
                                    sent <- [p \in Tabs |-> FormOf(req[p])]

\* Statement by statement, with other tabs, the job and crashes in between, drafts
\* are reviewed as if each operation were one step: extraction never meets a review,
\* every draft of a form is imported or none, an edit writes what a form holds, and
\* no imported draft is discarded.
ImplementsReview == Review!Spec

\* Without faults, every image of a session that nobody is deleting can be opened.
ImagesOnDisk ==
  \A i \in images :
    /\ ~ faulty
    /\ i.session \in DOMAIN state
    /\ \A p \in Tabs : req[p].op \in {"remove", "cleanup"} => req[p].session # i.session
    => i.path \in files

\* A confirmed draft becomes one entry: "WHEN a user confirms 5 draft entries
\* ... THEN all 5 entries are created" (spec ocr-resilience).
OneEntryPerDraft ==
  \A e, f \in entries : e.draft = f.draft => e = f

\* A session whose import has no result yet, and one somebody works on.
Unsettled(s) == s \in DOMAIN state /\ state[s] \in {"uploaded", "processing"}
Served(s)    == job[s] # NoJob \/ \E p \in Tabs : req[p].op \in {"upload", "cleanup"} /\ req[p].session = s

\* Every import comes to a result (drafts to review, a failure, or its deletion) as
\* long as somebody works on it; and without faults somebody does.
SessionSettles ==
  \A s \in Sessions : Unsettled(s) ~> ~ Unsettled(s) \/ (faulty /\ ~ Served(s))

\* The one way to leave an import without a result is a fault that stops whoever
\* works on it: the crash of the process, a refused statement of the job, or a
\* failed upload that cannot be cleaned up.  Nothing takes the import up again.
AbandonedByFaultOnly ==
  [][\A s \in Sessions :
       (Unsettled(s) /\ ~ Served(s))'
         => \/ Unsettled(s) /\ ~ Served(s)
            \/ Crash \/ (faulty /\ JobRefused(s))
            \/ faulty /\ \E p \in Tabs : CleanupUpload(p) /\ req[p].session = s]_vars

=============================================================================
