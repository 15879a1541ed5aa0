---------------------------- MODULE OcrImportProofs ----------------------------
(***************************************************************************)
(* Any number of tabs, sessions, images and drafts, with refused           *)
(* statements and crashes at any place.  Types says what rows, jobs,       *)
(* handlers and pages look like; AllPassed what the loop of ConfirmDrafts  *)
(* has established; Apart that nobody reviews a session which an upload or *)
(* a job still writes; RInv what makes every step one of DraftReview;      *)
(* OnDisk where the files of the image rows are.                           *)
(***************************************************************************)
EXTENDS OcrImport, FiniteSetTheorems, TLAPS

-----------------------------------------------------------------------------
(* Types.  n is nextId: what tabs, jobs and rows refer to has been given     *)
(* out, so that nothing new can be mistaken for it.                          *)

Counter == [session : Nat \ {0}, draft : Nat \ {0}]

Grows(m, n) == m.session <= n.session /\ m.draft <= n.draft

ReqOK(r, n) ==
  /\ RequestState(r)
  /\ r # Idle => r.session \in Sessions /\ r.session < n.session
  /\ r.op \in {"edit", "check"} =>
       DOMAIN r.form # {} /\ \A id \in DOMAIN r.form : id \in Nat /\ id < n.draft

PageOK(x, n) ==
  \/ x = NoPage
  \/ /\ x \in [session : Sessions, ids : SUBSET Nat]
     /\ x.session < n.session
     /\ \A id \in x.ids : id < n.draft

JobOK(j, s, n) == JobState(j) /\ (j # NoJob => s < n.session)

StatesOK(f, n) ==
  /\ DOMAIN f \subseteq Sessions
  /\ \A s \in DOMAIN f : s < n.session /\ f[s] \in States

DraftOK(d, n) ==
  /\ d \in [id : Nat, session : Sessions, value : Contents, confirmed : BOOLEAN]
  /\ d.id < n.draft
  /\ d.session < n.session

EntryOK(e, n) == e \in [draft : Nat, value : Values, nth : Nat] /\ e.draft < n.draft

DraftsOK(ds, n) ==
  /\ IsFiniteSet(ds)
  /\ \A d \in ds : DraftOK(d, n)
  /\ \A d, o \in ds : d.id = o.id => d = o

EntriesOK(es, n) == IsFiniteSet(es) /\ \A e \in es : EntryOK(e, n)

TablesOK ==
  /\ nextId \in Counter
  /\ StatesOK(state, nextId)
  /\ images \subseteq Rows
  /\ files \subseteq Paths
  /\ DraftsOK(drafts, nextId)
  /\ EntriesOK(entries, nextId)

Types ==
  /\ TablesOK
  /\ DOMAIN job = Sessions /\ \A s \in Sessions : JobOK(job[s], s, nextId)
  /\ DOMAIN req = Tabs /\ req = [p \in Tabs |-> req[p]]
  /\ \A p \in Tabs : ReqOK(req[p], nextId)
  /\ DOMAIN page = Tabs /\ page = [p \in Tabs |-> page[p]]
  /\ \A p \in Tabs : PageOK(page[p], nextId)

LEMMA SessionIds == Sessions \subseteq Nat \ {0}
BY MaxSessionsAssumption DEF Sessions

LEMMA TypesAreTypeOK == Types => TypeOK
<1> SUFFICES ASSUME Types PROVE TypeOK
  OBVIOUS
<1>1. nextId \in [session : Nat \ {0}, draft : Nat \ {0}]
  BY DEF Types, TablesOK, Counter
<1>2. /\ DOMAIN state \subseteq Sessions \cap 1 .. nextId.session - 1
      /\ \A s \in DOMAIN state : state[s] \in States
  BY <1>1, SessionIds DEF Types, TablesOK, StatesOK
<1>3. images \subseteq Rows /\ files \subseteq Paths
  BY DEF Types, TablesOK
<1>4. \A d \in drafts : /\ d \in [id : Nat, session : Sessions, value : Contents, confirmed : BOOLEAN]
                        /\ d.id < nextId.draft
                        /\ \A o \in drafts : o.id = d.id => o = d
  BY DEF Types, TablesOK, DraftsOK, DraftOK
<1>5. \A e \in entries : e \in [draft : Nat, value : Values, nth : Nat] /\ e.draft < nextId.draft
  BY DEF Types, TablesOK, EntriesOK, EntryOK
<1>6. DOMAIN job = Sessions /\ \A s \in Sessions : JobState(job[s])
  BY DEF Types, JobOK
<1>7. DOMAIN req = Tabs /\ \A p \in Tabs : RequestState(req[p])
  BY DEF Types, ReqOK
<1>8. page \in [Tabs -> [session : Nat, ids : SUBSET Nat]]
  <2>1. \A p \in Tabs : page[p] \in [session : Nat, ids : SUBSET Nat]
    BY SessionIds DEF Types, PageOK, NoPage
  <2> QED
    BY <2>1 DEF Types
<1> QED
  BY <1>1, <1>2, <1>3, <1>4, <1>5, <1>6, <1>7, <1>8 DEF TypeOK

LEMMA InitTypes == Init => Types
<1> SUFFICES ASSUME Init PROVE Types
  OBVIOUS
<1>1. TablesOK
  BY FS_EmptySet DEF Init, TablesOK, Counter, StatesOK, DraftsOK, EntriesOK
<1>2. \A s \in Sessions : JobOK(job[s], s, nextId)
  BY DEF Init, JobOK, JobState, NoJob
<1>3. \A p \in Tabs : ReqOK(req[p], nextId)
  BY DEF Init, ReqOK, RequestState, Idle
<1>4. \A p \in Tabs : PageOK(page[p], nextId)
  BY DEF Init, PageOK
<1> QED
  BY <1>1, <1>2, <1>3, <1>4 DEF Init, Types

\* Counters only grow, and what was known stays known.
LEMMA GrowthKeeps ==
  ASSUME NEW m \in Counter, NEW n \in Counter, Grows(m, n)
  PROVE  /\ \A r : ReqOK(r, m) => ReqOK(r, n)
         /\ \A x : PageOK(x, m) => PageOK(x, n)
         /\ \A j : \A s \in Sessions : JobOK(j, s, m) => JobOK(j, s, n)
         /\ \A f : StatesOK(f, m) => StatesOK(f, n)
         /\ \A d : DraftOK(d, m) => DraftOK(d, n)
         /\ \A e : EntryOK(e, m) => EntryOK(e, n)
<1> DEFINE a == m.session  b == n.session  c == m.draft  d == n.draft
<1>1. /\ a \in Nat /\ b \in Nat /\ c \in Nat /\ d \in Nat /\ a <= b /\ c <= d
  BY DEF Counter, Grows
<1>2. /\ \A s \in Nat : s < a => s < b
      /\ \A i \in Nat : i < c => i < d
  <2> HIDE DEF a, b, c, d
  <2> QED BY <1>1
<1>3. \A s \in Sessions : s < m.session => s < n.session
  BY <1>2, SessionIds
<1>4. \A i \in Nat : i < m.draft => i < n.draft
  BY <1>2
<1> HIDE DEF a, b, c, d
<1>5. \A r : ReqOK(r, m) => ReqOK(r, n)
  BY <1>3, <1>4, Zenon DEF ReqOK
<1>6. \A x : PageOK(x, m) => PageOK(x, n)
  <2> SUFFICES ASSUME NEW x, PageOK(x, m), x # NoPage PROVE PageOK(x, n)
    BY DEF PageOK
  <2>1. x \in [session : Sessions, ids : SUBSET Nat] /\ x.session < m.session /\ \A id \in x.ids : id < m.draft
    BY DEF PageOK
  <2>2. x.session \in Sessions /\ x.ids \subseteq Nat
    BY <2>1
  <2> QED
    BY <1>3, <1>4, <2>1, <2>2, Zenon DEF PageOK
<1>7. \A j : \A s \in Sessions : JobOK(j, s, m) => JobOK(j, s, n)
  BY <1>3, Zenon DEF JobOK
<1>8. \A f : StatesOK(f, m) => StatesOK(f, n)
  BY <1>3, Zenon DEF StatesOK
<1>9. \A x : DraftOK(x, m) => DraftOK(x, n)
  <2> SUFFICES ASSUME NEW x, DraftOK(x, m) PROVE DraftOK(x, n)
    OBVIOUS
  <2>1. x.session \in Sessions /\ x.id \in Nat
    BY DEF DraftOK
  <2> QED
    BY <1>3, <1>4, <2>1, Zenon DEF DraftOK
<1>10. \A e : EntryOK(e, m) => EntryOK(e, n)
  <2> SUFFICES ASSUME NEW e, EntryOK(e, m) PROVE EntryOK(e, n)
    OBVIOUS
  <2>1. e.draft \in Nat
    BY DEF EntryOK
  <2> QED
    BY <1>4, <2>1, Zenon DEF EntryOK
<1> QED
  BY <1>5, <1>6, <1>7, <1>8, <1>9, <1>10

\* One tab moves on, or is left as it is.
TabMoves(p, r, x) == req' = [req EXCEPT ![p] = r] /\ page' = [page EXCEPT ![p] = x]

LEMMA TabKeeps ==
  ASSUME Types, NEW p \in Tabs, NEW r, NEW x, TabMoves(p, r, x),
         ReqOK(r, nextId'), PageOK(x, nextId'), Grows(nextId, nextId'), TablesOK',
         DOMAIN job' = Sessions, \A s \in Sessions : JobOK(job'[s], s, nextId')
  PROVE  Types'
<1>1. nextId \in Counter /\ nextId' \in Counter
  BY DEF Types, TablesOK
<1>2. /\ DOMAIN req' = Tabs /\ req' = [q \in Tabs |-> req'[q]]
      /\ \A q \in Tabs : ReqOK(req'[q], nextId')
  <2>1. \A q \in Tabs : req'[q] = IF q = p THEN r ELSE req[q]
    BY DEF TabMoves, Types
  <2>2. \A q \in Tabs : ReqOK(req[q], nextId')
    BY <1>1, GrowthKeeps DEF Types
  <2>3. req' = [q \in Tabs |-> req'[q]]
    BY <2>1 DEF TabMoves, Types
  <2> QED
    BY <2>1, <2>2, <2>3 DEF TabMoves, Types
<1>3. /\ DOMAIN page' = Tabs /\ page' = [q \in Tabs |-> page'[q]]
      /\ \A q \in Tabs : PageOK(page'[q], nextId')
  <2>1. DOMAIN page' = Tabs /\ \A q \in Tabs : page'[q] = IF q = p THEN x ELSE page[q]
    BY DEF TabMoves, Types
  <2>2. \A q \in Tabs : PageOK(page[q], nextId')
    BY <1>1, GrowthKeeps DEF Types
  <2>3. page' = [q \in Tabs |-> page'[q]]
    BY <2>1 DEF TabMoves
  <2> QED
    BY <2>1, <2>2, <2>3
<1> QED
  BY <1>2, <1>3 DEF Types

\* One job moves on.
LEMMA JobKeeps ==
  ASSUME Types, NEW s \in Sessions, NEW j, job' = [job EXCEPT ![s] = j],
         JobOK(j, s, nextId'), Grows(nextId, nextId'), TablesOK', UNCHANGED <<req, page>>
  PROVE  Types'
<1>1. nextId \in Counter /\ nextId' \in Counter
  BY DEF Types, TablesOK
<1>2. DOMAIN job' = Sessions /\ \A t \in Sessions : JobOK(job'[t], t, nextId')
  <2>1. \A t \in Sessions : job'[t] = IF t = s THEN j ELSE job[t]
    BY DEF Types
  <2>2. \A t \in Sessions : JobOK(job[t], t, nextId')
    BY <1>1, GrowthKeeps DEF Types
  <2> QED
    BY <2>1, <2>2 DEF Types
<1>3. /\ \A p \in Tabs : ReqOK(req[p], nextId')
      /\ \A p \in Tabs : PageOK(page[p], nextId')
  BY <1>1, GrowthKeeps DEF Types
<1> QED
  BY <1>2, <1>3 DEF Types

LEMMA TablesKeep ==
  ASSUME TablesOK, nextId' \in Counter, Grows(nextId, nextId'), StatesOK(state', nextId'),
         images' \subseteq Rows, files' \subseteq Paths, UNCHANGED <<drafts, entries>>
  PROVE  TablesOK'
<1>1. nextId \in Counter
  BY DEF TablesOK
<1>2. DraftsOK(drafts, nextId')
  BY <1>1, GrowthKeeps DEF TablesOK, DraftsOK
<1>3. EntriesOK(entries, nextId')
  BY <1>1, GrowthKeeps DEF TablesOK, EntriesOK
<1> QED
  BY <1>2, <1>3 DEF TablesOK

LEMMA NoGrowth == nextId \in Counter /\ nextId' = nextId => nextId' \in Counter /\ Grows(nextId, nextId')
BY DEF Counter, Grows

LEMMA SetStateKeeps ==
  ASSUME StatesOK(state, nextId), NEW s, NEW to \in States, SetState(s, to)
  PROVE  StatesOK(state', nextId)
BY DEF StatesOK, SetState

LEMMA StatesAre ==
  \A x \in {"uploaded", "processing", "review_ready", "confirmed_part", "confirmed", "failed"} : x \in States
BY DEF States

\* What a session owned may go with it.
LEMMA DropSessionKeeps ==
  ASSUME TablesOK, NEW s, DropSession(s), UNCHANGED <<nextId, entries>>, files' \subseteq files
  PROVE  TablesOK'
<1>1. StatesOK(state', nextId)
  BY DEF TablesOK, StatesOK, DropSession
<1>2. images' \subseteq images /\ drafts' \subseteq drafts
  BY DEF DropSession
<1>3. DraftsOK(drafts', nextId)
  BY <1>2, FS_Subset DEF TablesOK, DraftsOK
<1> QED
  BY <1>1, <1>2, <1>3 DEF TablesOK

LEMMA WrittenPaths ==
  ASSUME NEW s \in Sessions, NEW k \in Nat, NEW kind \in ImageKinds
  PROVE  /\ Written(s, k, kind) \subseteq Paths
         /\ [session |-> s, image |-> k, path |-> StoredPath(s, k, kind)] \in Rows
<1>1. \A form \in {"original", "processed"} : File(s, k, form) \in Paths
  BY DEF File, Paths
<1>2. StoredPath(s, k, kind) \in Paths
  BY <1>1 DEF StoredPath
<1> QED
  BY <1>1, <1>2 DEF Written, Rows

-----------------------------------------------------------------------------
(* Uploads.                                                                  *)

UploadReq(s, left, saved) == [op |-> "upload", session |-> s, left |-> left, saved |-> saved]
CleanupReq(s, saved) == [op |-> "cleanup", session |-> s, saved |-> saved]

LEMMA IdleReq == \A n : ReqOK(Idle, n)
BY DEF ReqOK, RequestState, Idle

LEMMA UploadReqs ==
  ASSUME NEW s \in Sessions, NEW left \in Seq(ImageKinds), NEW saved \in Nat, NEW n, s < n.session
  PROVE  ReqOK(UploadReq(s, left, saved), n) /\ ReqOK(CleanupReq(s, saved), n)
<1>1. RequestState(UploadReq(s, left, saved)) /\ RequestState(CleanupReq(s, saved))
  BY DEF RequestState, UploadReq, CleanupReq
<1> QED
  BY <1>1 DEF ReqOK, UploadReq, CleanupReq

\* What the request of a tab that uploads or cleans up looks like.
LEMMA UploadShape ==
  ASSUME Types, NEW p \in Tabs
  PROVE  /\ req[p].op = "upload" =>
              /\ req[p].session \in Sessions /\ req[p].session < nextId.session
              /\ req[p].left \in Seq(ImageKinds) /\ req[p].saved \in Nat
         /\ req[p].op = "cleanup" =>
              /\ req[p].session \in Sessions /\ req[p].session < nextId.session /\ req[p].saved \in Nat
<1>1. ReqOK(req[p], nextId)
  BY DEF Types
<1>2. ASSUME req[p].op = "upload"
      PROVE  req[p] \in [op : {"upload"}, session : Sessions, left : Seq(ImageKinds), saved : Nat]
  BY <1>1, <1>2 DEF ReqOK, RequestState, Idle
<1>3. ASSUME req[p].op = "cleanup"
      PROVE  req[p] \in [op : {"cleanup"}, session : Sessions, saved : Nat]
  BY <1>1, <1>3 DEF ReqOK, RequestState, Idle
<1>4. req[p].op \in {"upload", "cleanup"} => req[p] # Idle
  BY DEF Idle
<1> QED
  BY <1>1, <1>2, <1>3, <1>4 DEF ReqOK

LEMMA PageStays == ASSUME Types, NEW p \in Tabs
                   PROVE  PageOK(page[p], nextId) /\ PageOK(NoPage, nextId)
                          /\ (UNCHANGED page => page' = [page EXCEPT ![p] = page[p]])
<1>1. DOMAIN page = Tabs /\ page = [q \in Tabs |-> page[q]]
  BY DEF Types
<1>2. UNCHANGED page => page' = [page EXCEPT ![p] = page[p]]
  BY <1>1
<1> QED
  BY <1>2 DEF Types, PageOK

LEMMA JobsStay == ASSUME Types, UNCHANGED <<job, nextId>>
                  PROVE  DOMAIN job' = Sessions /\ \A s \in Sessions : JobOK(job'[s], s, nextId')
BY DEF Types

LEMMA UploadKeeps ==
  ASSUME Types, NEW p \in Tabs,
         \/ \E kinds \in Uploads : StartUpload(p, kinds)
         \/ SaveImage(p) \/ RejectImage(p) \/ CleanupUpload(p) \/ FinishUpload(p)
  PROVE  Types'
<1>1. ASSUME NEW kinds \in Uploads, StartUpload(p, kinds) PROVE Types'
  <2> DEFINE s == nextId.session
  <2>1. s \in Sessions /\ s \in Nat /\ kinds \in Seq(ImageKinds)
    BY <1>1, UploadsAssumption, MaxSessionsAssumption DEF StartUpload, Types, TablesOK, Counter, Sessions
  <2>2. nextId' = [session |-> s + 1, draft |-> nextId.draft] /\ nextId' \in Counter /\ Grows(nextId, nextId')
        /\ s < nextId'.session
    BY <1>1 DEF StartUpload, Types, TablesOK, Counter, Grows
  <2>3. StatesOK(state', nextId')
    <3>1. StatesOK(state, nextId')
      BY <2>2, GrowthKeeps DEF Types, TablesOK
    <3>2. state' = [t \in DOMAIN state \cup {s} |-> IF t = s THEN "uploaded" ELSE state[t]]
      BY <1>1 DEF StartUpload
    <3> HIDE DEF s
    <3> QED BY <2>1, <2>2, <3>1, <3>2 DEF StatesOK, States
  <2>4. TablesOK'
    BY <1>1, <2>2, <2>3, TablesKeep DEF StartUpload, Types, TablesOK
  <2>5. ReqOK(UploadReq(s, kinds, 0), nextId')
    <3> HIDE DEF s
    <3> QED BY <2>1, <2>2, UploadReqs
  <2>6. TabMoves(p, UploadReq(s, kinds, 0), NoPage)
    BY <1>1 DEF StartUpload, TabMoves, UploadReq
  <2>7. DOMAIN job' = Sessions /\ \A t \in Sessions : JobOK(job'[t], t, nextId')
    BY <1>1, <2>2, GrowthKeeps DEF StartUpload, Types, TablesOK
  <2> HIDE DEF s
  <2> QED
    BY <2>2, <2>4, <2>5, <2>6, <2>7, TabKeeps DEF PageOK
<1>2. ASSUME SaveImage(p) \/ RejectImage(p) PROVE Types'
  <2> DEFINE s == req[p].session
             k == req[p].saved + 1
             kind == Head(req[p].left)
  <2>1. /\ req[p].op = "upload" /\ req[p].left # <<>>
        /\ UNCHANGED <<state, drafts, entries, nextId, job, page>>
    BY <1>2 DEF SaveImage, RejectImage
  <2>2. /\ s \in Sessions /\ s < nextId.session
        /\ req[p].left \in Seq(ImageKinds) /\ req[p].saved \in Nat
    BY <2>1, UploadShape
  <2>3. k \in Nat /\ kind \in ImageKinds /\ Tail(req[p].left) \in Seq(ImageKinds)
    BY <2>1, <2>2
  <2>4. /\ files' \subseteq files \cup Written(s, k, kind)
        /\ images' \subseteq images \cup {[session |-> s, image |-> k, path |-> StoredPath(s, k, kind)]}
    BY <1>2 DEF SaveImage, RejectImage, Written
  <2>5. TablesOK'
    <3>1. images' \subseteq Rows /\ files' \subseteq Paths
      <4> HIDE DEF s, k, kind
      <4> QED BY <2>2, <2>3, <2>4, WrittenPaths DEF Types, TablesOK
    <3> QED
      BY <2>1, <3>1 DEF Types, TablesOK
  <2>6. \E r : req' = [req EXCEPT ![p] = r] /\ ReqOK(r, nextId)
    <3>1. /\ ReqOK(UploadReq(s, Tail(req[p].left), k), nextId)
          /\ ReqOK(CleanupReq(s, k), nextId)
          /\ ReqOK(CleanupReq(s, k - 1), nextId)
      <4>1. k - 1 \in Nat
        BY <2>2
      <4> HIDE DEF s, k
      <4> QED BY <2>2, <2>3, <4>1, UploadReqs
    <3>2. \/ req' = [req EXCEPT ![p] = UploadReq(s, Tail(req[p].left), k)]
          \/ req' = [req EXCEPT ![p] = CleanupReq(s, k)]
          \/ req' = [req EXCEPT ![p] = CleanupReq(s, k - 1)]
      BY <1>2 DEF SaveImage, RejectImage, UploadReq, CleanupReq
    <3> QED
      BY <3>1, <3>2
  <2>7. PICK r : req' = [req EXCEPT ![p] = r] /\ ReqOK(r, nextId)
    BY <2>6
  <2>8. TabMoves(p, r, page[p])
    BY <2>1, <2>7, PageStays DEF TabMoves
  <2> QED
    BY <2>1, <2>5, <2>7, <2>8, TabKeeps, PageStays, JobsStay, NoGrowth DEF Types, TablesOK
<1>3. ASSUME CleanupUpload(p) PROVE Types'
  <2>1. UNCHANGED <<entries, nextId, job, page>> /\ TabMoves(p, Idle, page[p])
    BY <1>3, PageStays DEF CleanupUpload, TabMoves, Respond
  <2>2. TablesOK'
    <3>1. files' \subseteq files
      BY <1>3 DEF CleanupUpload
    <3>2. CASE DropSession(req[p].session)
      BY <2>1, <3>1, <3>2, DropSessionKeeps DEF Types
    <3>3. CASE UNCHANGED <<state, images, drafts>>
      BY <2>1, <3>1, <3>3 DEF Types, TablesOK
    <3> QED
      BY <1>3, <3>2, <3>3 DEF CleanupUpload
  <2> QED
    BY <2>1, <2>2, TabKeeps, IdleReq, PageStays, JobsStay, NoGrowth DEF Types, TablesOK
<1>4. ASSUME FinishUpload(p) PROVE Types'
  <2> DEFINE s == req[p].session
  <2>1. UNCHANGED <<images, drafts, entries, files, nextId, page>> /\ TabMoves(p, Idle, page[p])
    BY <1>4, PageStays DEF FinishUpload, TabMoves, Respond
  <2>2. s \in Sessions /\ s < nextId.session
    BY <1>4, UploadShape DEF FinishUpload
  <2>3. TablesOK'
    BY <1>4, <2>1, SetStateKeeps, StatesAre DEF FinishUpload, Types, TablesOK
  <2>4. DOMAIN job' = Sessions /\ \A t \in Sessions : JobOK(job'[t], t, nextId')
    <3>1. JobOK([at |-> "queued"], s, nextId)
      BY <2>2 DEF JobOK, JobState
    <3> QED
      BY <1>4, <2>1, <2>2, <3>1 DEF FinishUpload, Types
  <2> QED
    BY <2>1, <2>3, <2>4, TabKeeps, IdleReq, PageStays, NoGrowth DEF Types, TablesOK
<1> QED
  BY <1>1, <1>2, <1>3, <1>4

-----------------------------------------------------------------------------
(* The job of a session.                                                     *)

LEMMA NewDraftsKeep ==
  ASSUME Types, NEW s \in Sessions, s < nextId.session, NEW found \in Seq(Contents),
         nextId' = [nextId EXCEPT !.draft = @ + Len(found)]
  PROVE  /\ nextId' \in Counter /\ Grows(nextId, nextId')
         /\ DraftsOK((drafts \ Own(s)) \cup NewDrafts(s, found), nextId')
         /\ \A d \in NewDrafts(s, found) : d.id >= nextId.draft /\ ~ d.confirmed /\ d.session = s
<1> DEFINE a == nextId.draft
           new == NewDrafts(s, found)
           draft(n) == [id |-> a + n - 1, session |-> s, value |-> found[n], confirmed |-> FALSE]
<1>1. a \in Nat \ {0} /\ Len(found) \in Nat /\ nextId.session \in Nat \ {0}
  BY DEF Types, TablesOK, Counter
<1>2. nextId' = [session |-> nextId.session, draft |-> a + Len(found)]
  BY DEF Types, TablesOK, Counter
<1>3. nextId' \in Counter /\ Grows(nextId, nextId')
  <2>1. a + Len(found) \in Nat \ {0} /\ a <= a + Len(found) /\ nextId.session <= nextId.session
    <3> HIDE DEF a
    <3> QED BY <1>1
  <2> QED BY <1>1, <1>2, <2>1 DEF Counter, Grows
<1>4. new = {draft(n) : n \in 1 .. Len(found)}
  BY DEF NewDrafts
<1>5. ASSUME NEW n \in 1 .. Len(found)
      PROVE  DraftOK(draft(n), nextId') /\ draft(n).id = a + n - 1 /\ draft(n).id >= a
  <2>1. a + n - 1 \in Nat /\ a + n - 1 < a + Len(found) /\ a + n - 1 >= a
    BY <1>1
  <2>2. found[n] \in Contents
    OBVIOUS
  <2> HIDE DEF a
  <2> QED BY <1>2, <2>1, <2>2 DEF DraftOK
<1>6. \A d \in new : DraftOK(d, nextId') /\ d.id >= a /\ ~ d.confirmed /\ d.session = s
  <2>1. \A n : ~ draft(n).confirmed /\ draft(n).session = s
    OBVIOUS
  <2> HIDE DEF draft, new
  <2> QED BY <1>4, <1>5, <2>1
<1>7. \A d, o \in new : d.id = o.id => d = o
  <2> SUFFICES ASSUME NEW n \in 1 .. Len(found), NEW m \in 1 .. Len(found), draft(n).id = draft(m).id
               PROVE  n = m
    BY <1>4
  <2>1. a + n - 1 = a + m - 1
    BY <1>5
  <2> HIDE DEF a, draft
  <2> QED BY <1>1, <2>1
<1>8. IsFiniteSet(new)
  <2> DEFINE last == Len(found)
             f == [n \in 1 .. last |-> draft(n)]
  <2>1. IsFiniteSet(1 .. last)
    <3>1. last \in Int /\ 1 \in Int
      BY <1>1
    <3> HIDE DEF last
    <3> QED BY <3>1, FS_Interval
  <2>2. new = {f[n] : n \in 1 .. last}
    <3> HIDE DEF draft, new
    <3> QED BY <1>4
  <2>3. f \in Surjection(1 .. last, new)
    <3>1. f \in [1 .. last -> new]
      <4> HIDE DEF draft, new
      <4> QED BY <1>4
    <3>2. \A d \in new : \E n \in 1 .. last : f[n] = d
      <4> HIDE DEF f, new
      <4> QED BY <2>2
    <3> HIDE DEF f, new, last
    <3> QED BY <3>1, <3>2 DEF Surjection
  <2> HIDE DEF f, new, last
  <2> QED BY <2>1, <2>3, FS_Surjection
<1>9. \A d \in drafts : DraftOK(d, nextId') /\ d.id < a
  BY <1>3, GrowthKeeps DEF Types, TablesOK, DraftsOK, DraftOK
<1>10. IsFiniteSet((drafts \ Own(s)) \cup new)
  <2> HIDE DEF new
  <2>1. IsFiniteSet(drafts \ Own(s))
    BY FS_Subset DEF Types, TablesOK, DraftsOK
  <2> QED BY <1>8, <2>1, FS_Union
<1>11. \A d \in drafts, o \in new : d.id # o.id
  <2> SUFFICES ASSUME NEW d \in drafts, NEW o \in new PROVE d.id # o.id
    OBVIOUS
  <2>1. d.id < a /\ o.id >= a /\ d.id \in Nat /\ o.id \in Nat /\ a \in Nat
    <3> HIDE DEF a, new
    <3> QED BY <1>1, <1>6, <1>9 DEF DraftOK
  <2> HIDE DEF a, new
  <2> QED BY <2>1
<1> QED
  <2>1. \A d, o \in drafts : d.id = o.id => d = o
    BY DEF Types, TablesOK, DraftsOK
  <2> HIDE DEF new, draft
  <2>2. \A d, o \in (drafts \ Own(s)) \cup new : d.id = o.id => d = o
    BY <1>7, <1>11, <2>1
  <2>3. DraftsOK((drafts \ Own(s)) \cup new, nextId')
    BY <1>6, <1>9, <1>10, <2>2 DEF DraftsOK
  <2>4. \A d \in new : d.id >= nextId.draft /\ ~ d.confirmed /\ d.session = s
    BY <1>6 DEF a
  <2> QED
    BY <1>3, <2>3, <2>4 DEF new

\* What a job looks like that reads images.
LEMMA JobShape ==
  ASSUME Types, NEW s \in Sessions
  PROVE  /\ job[s].at # "none" => s < nextId.session
         /\ job[s].at = "none" => job[s] = NoJob
         /\ job[s].at = "extracting" => job[s].found \in Seq(Contents) /\ job[s].todo \subseteq Rows
<1>1. JobOK(job[s], s, nextId)
  BY DEF Types
<1>2. ASSUME job[s].at = "extracting"
      PROVE  job[s] \in [at : {"extracting"}, todo : SUBSET Rows, found : Seq(Contents)]
  BY <1>1, <1>2 DEF JobOK, JobState
<1>3. job[s].at = "none" => job[s] = NoJob
  BY <1>1 DEF JobOK, JobState, NoJob
<1> QED
  BY <1>1, <1>2, <1>3 DEF JobOK, NoJob

LEMMA SimpleJobs ==
  ASSUME NEW s, NEW n, s < n.session
  PROVE  \A x \in {"none", "queued", "reading", "finishing", "failing"} : JobOK([at |-> x], s, n)
BY DEF JobOK, JobState

LEMMA JobTypesKeep ==
  ASSUME Types, NEW s \in Sessions, JobStep(s)
  PROVE  Types'
<1>1. UNCHANGED <<entries, files, images, req, page>>
  BY DEF JobStep, JobBegin, JobRead, JobExtract, JobExtractFails, JobSave, JobFinish, JobFail, JobRefused
<1>2. s < nextId.session /\ (job[s].at = "extracting" => job[s].found \in Seq(Contents) /\ job[s].todo \subseteq Rows)
  <2>1. job[s].at # "none"
    BY DEF JobStep, JobBegin, JobRead, JobExtract, JobExtractFails, JobSave, JobFinish, JobFail, JobRefused
  <2> QED
    BY <2>1, JobShape
<1>3. CASE JobSave(s) /\ drafts' = (drafts \ Own(s)) \cup NewDrafts(s, job[s].found)
           /\ nextId' = [nextId EXCEPT !.draft = @ + Len(job[s].found)]
           /\ job' = [job EXCEPT ![s] = [at |-> "finishing"]]
  <2> DEFINE found == job[s].found
  <2>1. found \in Seq(Contents)
    BY <1>2, <1>3 DEF JobSave
  <2>2. /\ nextId' \in Counter /\ Grows(nextId, nextId')
        /\ DraftsOK(drafts', nextId')
    BY <1>2, <1>3, <2>1, NewDraftsKeep
  <2>3. StatesOK(state', nextId') /\ EntriesOK(entries', nextId')
    BY <1>1, <1>3, <2>2, GrowthKeeps DEF JobSave, Types, TablesOK, EntriesOK
  <2>4. TablesOK'
    BY <1>1, <2>2, <2>3 DEF Types, TablesOK
  <2>5. JobOK([at |-> "finishing"], s, nextId')
    <3>1. s < nextId'.session
      BY <1>2, <2>2, SessionIds DEF Types, TablesOK, Grows, Counter
    <3> QED BY <3>1, SimpleJobs
  <2> QED
    BY <1>1, <1>3, <2>2, <2>4, <2>5, JobKeeps
<1>4. CASE UNCHANGED <<drafts, nextId>>
  <2>1. StatesOK(state', nextId)
    <3>1. state' = state \/ \E to \in States : SetState(s, to)
      BY StatesAre DEF JobStep, JobBegin, JobRead, JobExtract, JobExtractFails, JobSave, JobFinish, JobFail, JobRefused
    <3> QED
      BY <3>1, SetStateKeeps DEF Types, TablesOK
  <2>2. TablesOK'
    BY <1>1, <1>4, <2>1 DEF Types, TablesOK
  <2>3. \E j : job' = [job EXCEPT ![s] = j] /\ JobOK(j, s, nextId)
    <3>1. CASE JobRead(s)
      <4> DEFINE j == [at |-> "extracting", todo |-> {i \in images : i.session = s}, found |-> <<>>]
      <4>1. j \in [at : {"extracting"}, todo : SUBSET Rows, found : Seq(Contents)]
        BY DEF Types, TablesOK
      <4>2. JobOK(j, s, nextId)
        <5> HIDE DEF j
        <5> QED BY <1>2, <4>1 DEF JobOK, JobState
      <4> QED
        BY <3>1, <4>2 DEF JobRead
    <3>2. CASE JobExtract(s)
      <4>1. PICK i \in job[s].todo, more \in Extractions :
              job' = [job EXCEPT ![s] =
                [at |-> "extracting", todo |-> job[s].todo \ {i}, found |-> job[s].found \o more]]
        BY <3>2 DEF JobExtract
      <4> DEFINE j == [at |-> "extracting", todo |-> job[s].todo \ {i}, found |-> job[s].found \o more]
      <4>2. job[s].found \o more \in Seq(Contents) /\ job[s].todo \ {i} \subseteq Rows
        BY <1>2, <3>2, ExtractionsAssumption DEF JobExtract
      <4>3. j \in [at : {"extracting"}, todo : SUBSET Rows, found : Seq(Contents)]
        BY <4>2
      <4>4. JobOK(j, s, nextId)
        <5> HIDE DEF j
        <5> QED BY <1>2, <4>3 DEF JobOK, JobState
      <4> QED
        BY <4>1, <4>4
    <3>3. CASE ~ JobRead(s) /\ ~ JobExtract(s)
      <4>1. \E x \in {"none", "queued", "reading", "finishing", "failing"} : job' = [job EXCEPT ![s] = [at |-> x]]
        BY <3>3 DEF JobStep, JobBegin, JobExtractFails, JobSave, JobFinish, JobFail, JobRefused, NoJob
      <4> QED
        BY <1>2, <4>1, SimpleJobs
    <3> QED
      BY <3>1, <3>2, <3>3
  <2> QED
    BY <1>1, <1>4, <2>2, <2>3, JobKeeps, NoGrowth DEF Types, TablesOK
<1> QED
  BY <1>3, <1>4 DEF JobStep, JobBegin, JobRead, JobExtract, JobExtractFails, JobSave, JobFinish, JobFail, JobRefused

-----------------------------------------------------------------------------
(* Drafts change in four ways: some go, a job adds new ones, a value is       *)
(* edited, or some are confirmed.                                            *)

EditReq(s, form, todo) == [op |-> "edit", session |-> s, form |-> form, todo |-> todo]
CheckReq(s, form, todo, id) ==
  [op |-> "check", session |-> s, form |-> form, todo |-> todo, id |-> id]
DeleteReq(s, id) == [op |-> "delete", session |-> s, id |-> id]
RemoveReq(s) == [op |-> "remove", session |-> s]

FormOK(form, n) ==
  /\ form \in [DOMAIN form -> Contents]
  /\ DOMAIN form # {}
  /\ \A id \in DOMAIN form : id \in Nat /\ id < n.draft

LEMMA ReviewReqs ==
  ASSUME NEW s \in Sessions, NEW n, s < n.session
  PROVE  /\ \A form : \A todo \in SUBSET DOMAIN form :
              FormOK(form, n) =>
                /\ ReqOK(EditReq(s, form, todo), n)
                /\ \A id \in todo : ReqOK(CheckReq(s, form, todo, id), n)
         /\ \A id \in Nat : ReqOK(DeleteReq(s, id), n)
         /\ ReqOK(RemoveReq(s), n)
<1>1. ASSUME NEW form, NEW todo \in SUBSET DOMAIN form, FormOK(form, n)
      PROVE  ReqOK(EditReq(s, form, todo), n)
  <2>1. RequestState(EditReq(s, form, todo))
    BY <1>1 DEF RequestState, EditReq, FormOK
  <2> QED
    BY <1>1, <2>1 DEF ReqOK, EditReq, FormOK
<1>2. ASSUME NEW form, NEW todo \in SUBSET DOMAIN form, FormOK(form, n), NEW id \in todo
      PROVE  ReqOK(CheckReq(s, form, todo, id), n)
  <2>1. RequestState(CheckReq(s, form, todo, id))
    BY <1>2 DEF RequestState, CheckReq, FormOK
  <2> QED
    BY <1>2, <2>1 DEF ReqOK, CheckReq, FormOK
<1>3. \A id \in Nat : ReqOK(DeleteReq(s, id), n)
  BY DEF ReqOK, RequestState, DeleteReq
<1>4. ReqOK(RemoveReq(s), n)
  BY DEF ReqOK, RequestState, RemoveReq
<1> QED
  BY <1>1, <1>2, <1>3, <1>4

\* What the request of a tab that reviews or removes a session looks like.
LEMMA ReviewShape ==
  ASSUME Types, NEW p \in Tabs
  PROVE  /\ req[p].op \in {"edit", "check", "delete", "remove"} =>
              req[p].session \in Sessions /\ req[p].session < nextId.session
         /\ req[p].op \in {"edit", "check"} =>
              FormOK(req[p].form, nextId) /\ req[p].todo \subseteq DOMAIN req[p].form
         /\ req[p].op = "check" => req[p].id \in req[p].todo
<1>1. ReqOK(req[p], nextId)
  BY DEF Types
<1>2. req[p].op \in {"edit", "check", "delete", "remove"} => req[p] # Idle
  BY DEF Idle
<1>3. ASSUME req[p].op = "edit"
      PROVE  req[p].form \in [DOMAIN req[p].form -> Contents] /\ req[p].todo \subseteq DOMAIN req[p].form
  BY <1>1, <1>3 DEF ReqOK, RequestState, Idle
<1>4. ASSUME req[p].op = "check"
      PROVE  /\ req[p].form \in [DOMAIN req[p].form -> Contents] /\ req[p].todo \subseteq DOMAIN req[p].form
             /\ req[p].id \in req[p].todo
  BY <1>1, <1>4 DEF ReqOK, RequestState, Idle
<1> QED
  BY <1>1, <1>2, <1>3, <1>4 DEF ReqOK, FormOK

\* Changing drafts one by one keeps their types, ids and number.
LEMMA MapKeeps ==
  ASSUME NEW ds, NEW n, DraftsOK(ds, n), NEW f, f = [d \in ds |-> f[d]],
         \A d \in ds : f[d] \in [id : {d.id}, session : {d.session}, value : Contents, confirmed : BOOLEAN]
  PROVE  DraftsOK({f[d] : d \in ds}, n)
<1> DEFINE new == {f[d] : d \in ds}
<1>1. \A d \in ds : f[d].id = d.id /\ DraftOK(f[d], n)
  BY DEF DraftsOK, DraftOK
<1>2. \A o, m \in new : o.id = m.id => o = m
  BY <1>1 DEF DraftsOK
<1>3. IsFiniteSet(new)
  <2>1. f \in Surjection(ds, new)
    BY DEF Surjection
  <2> HIDE DEF new
  <2> QED BY <2>1, FS_Surjection DEF DraftsOK
<1> QED
  BY <1>1, <1>2, <1>3 DEF DraftsOK

Edited(id, v) == {IF d.id = id THEN [d EXCEPT !.value = v] ELSE d : d \in drafts}

LEMMA EditKeeps ==
  ASSUME Types, NEW id, NEW v \in Contents
  PROVE  DraftsOK(Edited(id, v), nextId)
<1> DEFINE f == [d \in drafts |-> IF d.id = id THEN [d EXCEPT !.value = v] ELSE d]
<1>1. Edited(id, v) = {f[d] : d \in drafts}
  BY DEF Edited
<1>2. \A d \in drafts : f[d] \in [id : {d.id}, session : {d.session}, value : Contents, confirmed : BOOLEAN]
  BY DEF Types, TablesOK, DraftsOK, DraftOK
<1>3. f = [d \in drafts |-> f[d]]
  OBVIOUS
<1> HIDE DEF f
<1> QED
  BY <1>1, <1>2, <1>3, MapKeeps DEF Types, TablesOK

Confirmed(ready) == (drafts \ ready) \cup {[d EXCEPT !.confirmed = TRUE] : d \in ready}

LEMMA ConfirmKeeps ==
  ASSUME Types, NEW ready \in SUBSET drafts, \A d \in ready : d.value # Blank
  PROVE  DraftsOK(Confirmed(ready), nextId) /\ EntriesOK(entries \cup Imported(ready), nextId)
<1>1. DraftsOK(Confirmed(ready), nextId)
  <2> DEFINE f == [d \in drafts |-> IF d \in ready THEN [d EXCEPT !.confirmed = TRUE] ELSE d]
  <2>1. Confirmed(ready) = {f[d] : d \in drafts}
    BY DEF Confirmed
  <2>2. \A d \in drafts : f[d] \in [id : {d.id}, session : {d.session}, value : Contents, confirmed : BOOLEAN]
    BY DEF Types, TablesOK, DraftsOK, DraftOK
  <2>3. f = [d \in drafts |-> f[d]]
    OBVIOUS
  <2> HIDE DEF f
  <2> QED
    BY <2>1, <2>2, <2>3, MapKeeps DEF Types, TablesOK
<1>2. \A d \in ready : 1 + Cardinality({e \in entries : e.draft = d.id}) \in Nat
  <2> SUFFICES ASSUME NEW d \in ready PROVE Cardinality({e \in entries : e.draft = d.id}) \in Nat
    OBVIOUS
  <2>1. IsFiniteSet({e \in entries : e.draft = d.id})
    BY FS_Subset DEF Types, TablesOK, EntriesOK
  <2> QED
    BY <2>1, FS_CardinalityType
<1>3. \A d \in ready : d.id \in Nat /\ d.id < nextId.draft /\ d.value \in Values
  BY DEF Types, TablesOK, DraftsOK, DraftOK, Contents
<1>4. \A e \in Imported(ready) : EntryOK(e, nextId)
  <2> DEFINE nth(d) == 1 + Cardinality({e \in entries : e.draft = d.id})
  <2> SUFFICES ASSUME NEW d \in ready PROVE EntryOK([draft |-> d.id, value |-> d.value, nth |-> nth(d)], nextId)
    BY DEF Imported
  <2>1. nth(d) \in Nat
    BY <1>2
  <2> HIDE DEF nth
  <2> QED
    BY <1>3, <2>1 DEF EntryOK
<1>5. IsFiniteSet(Imported(ready))
  <2> DEFINE f == [d \in ready |-> [draft |-> d.id, value |-> d.value,
                                    nth |-> 1 + Cardinality({e \in entries : e.draft = d.id})]]
  <2>1. f \in Surjection(ready, Imported(ready))
    BY DEF Surjection, Imported
  <2>2. IsFiniteSet(ready)
    BY FS_Subset DEF Types, TablesOK, DraftsOK
  <2> HIDE DEF f
  <2> QED BY <2>1, <2>2, FS_Surjection
<1>6. EntriesOK(entries \cup Imported(ready), nextId)
  <2>1. IsFiniteSet(entries \cup Imported(ready))
    BY <1>5, FS_Union DEF Types, TablesOK, EntriesOK
  <2> QED
    BY <1>4, <2>1 DEF Types, TablesOK, EntriesOK
<1> QED
  BY <1>1, <1>6

LEMMA ReviewKeeps ==
  ASSUME Types, NEW p \in Tabs,
         \/ \E s \in Sessions : OpenReview(p, s) \/ RemoveImages(p, s)
         \/ \E form \in Forms(p) : SubmitConfirm(p, form)
         \/ \E id \in page[p].ids : CheckDelete(p, id)
         \/ EditDraft(p) \/ RefuseForm(p) \/ CheckDraft(p) \/ ConfirmDraftEntries(p)
         \/ DeleteDraftEntry(p) \/ RemoveSession(p) \/ RequestRefused(p)
  PROVE  Types'
<1>1. UNCHANGED <<nextId, job>>
  BY DEF OpenReview, RemoveImages, SubmitConfirm, CheckDelete, EditDraft, RefuseForm, CheckDraft,
         ConfirmDraftEntries, DeleteDraftEntry, RemoveSession, RequestRefused
<1>2. /\ nextId' = nextId /\ Grows(nextId, nextId)
      /\ DOMAIN job' = Sessions /\ \A s \in Sessions : JobOK(job'[s], s, nextId')
      /\ PageOK(page[p], nextId) /\ PageOK(NoPage, nextId) /\ ReqOK(Idle, nextId) /\ ReqOK(req[p], nextId)
      /\ (UNCHANGED page => page' = [page EXCEPT ![p] = page[p]])
      /\ (UNCHANGED req => req' = [req EXCEPT ![p] = req[p]])
      /\ (Respond(p) => req' = [req EXCEPT ![p] = Idle])
      /\ TablesOK
  <2>1. UNCHANGED req => req' = [req EXCEPT ![p] = req[p]]
    BY DEF Types
  <2> QED
    BY <1>1, <2>1, IdleReq, PageStays, JobsStay, NoGrowth DEF Types, TablesOK, Respond
<1>3. /\ Respond(p) /\ UNCHANGED page => TabMoves(p, Idle, page[p])
      /\ UNCHANGED <<state, images, drafts, entries, files>> => TablesOK'
  BY <1>1, <1>2 DEF TabMoves, TablesOK
<1> DEFINE r == req[p]
           Goal == TablesOK' /\ \E x, y : TabMoves(p, x, y) /\ ReqOK(x, nextId) /\ PageOK(y, nextId)
<1>4. ASSUME NEW s \in Sessions, OpenReview(p, s) PROVE Goal
  <2> DEFINE y == [session |-> s, ids |-> {d.id : d \in {o \in Own(s) : ~ o.confirmed}}]
  <2>1. s < nextId.session
    BY <1>4 DEF OpenReview, Types, TablesOK, StatesOK
  <2>2. \A d \in drafts : d.id \in Nat /\ d.id < nextId.draft
    BY DEF Types, TablesOK, DraftsOK, DraftOK
  <2>3. PageOK(y, nextId)
    BY <2>1, <2>2 DEF PageOK, Own
  <2>4. TabMoves(p, r, y)
    BY <1>2, <1>4 DEF OpenReview, TabMoves
  <2> HIDE DEF y
  <2> QED
    BY <1>2, <1>3, <1>4, <2>3, <2>4 DEF OpenReview
<1>5. ASSUME NEW s \in Sessions, RemoveImages(p, s) PROVE Goal
  <2>1. s < nextId.session
    BY <1>5 DEF RemoveImages, Types, TablesOK, StatesOK
  <2>2. ReqOK(RemoveReq(s), nextId)
    BY <2>1, ReviewReqs
  <2>3. TabMoves(p, RemoveReq(s), NoPage)
    BY <1>5 DEF RemoveImages, TabMoves, RemoveReq
  <2>4. TablesOK'
    BY <1>2, <1>5 DEF RemoveImages, TablesOK
  <2> QED
    BY <1>2, <2>2, <2>3, <2>4
<1>6. ASSUME NEW form \in Forms(p), SubmitConfirm(p, form) PROVE Goal
  <2> DEFINE s == page[p].session
  <2>1. PICK ids \in (SUBSET page[p].ids) \ {{}} : form \in [ids -> Contents]
    BY DEF Forms
  <2>2. /\ s \in Sessions /\ s < nextId.session
        /\ \A id \in page[p].ids : id \in Nat /\ id < nextId.draft
    BY <1>2, <1>6 DEF SubmitConfirm, PageOK
  <2>3. FormOK(form, nextId)
    <3>1. DOMAIN form = ids
      BY <2>1
    <3>2. form \in [DOMAIN form -> Contents]
      BY <2>1, <3>1
    <3>3. DOMAIN form # {} /\ \A id \in DOMAIN form : id \in Nat /\ id < nextId.draft
      BY <2>2, <3>1
    <3> QED
      BY <3>2, <3>3 DEF FormOK
  <2>4. ReqOK(EditReq(s, form, DOMAIN form), nextId)
    <3> HIDE DEF s
    <3> QED BY <2>2, <2>3, ReviewReqs
  <2>5. TabMoves(p, EditReq(s, form, DOMAIN form), NoPage)
    BY <1>6 DEF SubmitConfirm, TabMoves, EditReq
  <2> HIDE DEF s
  <2> QED
    BY <1>2, <1>3, <1>6, <2>4, <2>5 DEF SubmitConfirm
<1>7. ASSUME NEW id \in page[p].ids, CheckDelete(p, id) PROVE Goal
  <2> DEFINE s == page[p].session
  <2>1. page[p] # NoPage
    BY DEF NoPage
  <2>2. s \in Sessions /\ s < nextId.session /\ id \in Nat
    BY <1>2, <2>1 DEF PageOK
  <2>3. ReqOK(DeleteReq(s, id), nextId)
    <3> HIDE DEF s
    <3> QED BY <2>2, ReviewReqs
  <2>4. TabMoves(p, DeleteReq(s, id), page[p]) \/ TabMoves(p, r, page[p])
    BY <1>2, <1>7 DEF CheckDelete, TabMoves, DeleteReq
  <2> HIDE DEF s
  <2> QED
    BY <1>2, <1>3, <1>7, <2>3, <2>4 DEF CheckDelete
<1>8. ASSUME EditDraft(p) PROVE Goal
  <2> DEFINE s == r.session
  <2>1. PICK id \in r.todo : /\ drafts' = Edited(id, r.form[id])
                             /\ req' = [req EXCEPT ![p] = CheckReq(s, r.form, r.todo, id)]
    BY <1>8 DEF EditDraft, Edited, CheckReq
  <2>2. r.op = "edit" /\ UNCHANGED <<state, images, entries, files, nextId, page>>
    BY <1>8 DEF EditDraft
  <2>3. /\ s \in Sessions /\ s < nextId.session
        /\ FormOK(r.form, nextId) /\ r.todo \subseteq DOMAIN r.form
    BY <2>2, ReviewShape
  <2>4. r.form[id] \in Contents
    BY <2>3 DEF FormOK
  <2>5. TablesOK'
    BY <1>2, <2>1, <2>2, <2>4, EditKeeps DEF TablesOK
  <2>6. ReqOK(CheckReq(s, r.form, r.todo, id), nextId)
    <3> HIDE DEF s, r
    <3> QED BY <2>3, ReviewReqs
  <2>7. TabMoves(p, CheckReq(s, r.form, r.todo, id), page[p])
    BY <1>2, <2>1, <2>2 DEF TabMoves
  <2> QED
    BY <1>2, <2>5, <2>6, <2>7
<1>9. ASSUME RefuseForm(p) PROVE Goal
  BY <1>2, <1>3, <1>9 DEF RefuseForm
<1>10. ASSUME CheckDraft(p) PROVE Goal
  <2> DEFINE s == r.session
  <2>1. r.op = "check" /\ UNCHANGED <<state, images, drafts, entries, files, nextId, page>>
    BY <1>10 DEF CheckDraft
  <2>2. /\ s \in Sessions /\ s < nextId.session
        /\ FormOK(r.form, nextId) /\ r.todo \subseteq DOMAIN r.form
    BY <2>1, ReviewShape
  <2>3. ReqOK(EditReq(s, r.form, r.todo \ {r.id}), nextId)
    <3> HIDE DEF s, r
    <3> QED BY <2>2, ReviewReqs
  <2>4. TabMoves(p, EditReq(s, r.form, r.todo \ {r.id}), page[p]) \/ TabMoves(p, Idle, page[p])
    BY <1>2, <1>3, <1>10, <2>1 DEF CheckDraft, TabMoves, EditReq
  <2> QED
    BY <1>2, <1>3, <2>1, <2>3, <2>4
<1>11. ASSUME ConfirmDraftEntries(p) PROVE Goal
  <2> DEFINE ready == {d \in drafts : d.id \in DOMAIN r.form /\ d.value # Blank}
  <2>1. Respond(p) /\ UNCHANGED <<images, files, nextId, page>>
    BY <1>11 DEF ConfirmDraftEntries
  <2>2. CASE UNCHANGED <<state, drafts, entries>>
    BY <1>2, <1>3, <2>1, <2>2
  <2>3. CASE /\ entries' = entries \cup Imported(ready) /\ drafts' = Confirmed(ready)
             /\ \E to \in States : SetState(r.session, to)
    <3>1. DraftsOK(drafts', nextId) /\ EntriesOK(entries', nextId)
      <4>1. ready \in SUBSET drafts /\ \A d \in ready : d.value # Blank
        OBVIOUS
      <4> HIDE DEF ready
      <4> QED BY <2>3, <4>1, ConfirmKeeps
    <3>2. StatesOK(state', nextId)
      BY <1>2, <2>3, SetStateKeeps DEF TablesOK
    <3>3. TablesOK'
      BY <1>2, <2>1, <3>1, <3>2 DEF TablesOK
    <3> QED
      BY <1>2, <1>3, <2>1, <3>3
  <2> QED
    BY <1>11, <2>2, <2>3, StatesAre DEF ConfirmDraftEntries, Confirmed
<1>12. ASSUME DeleteDraftEntry(p) PROVE Goal
  <2> DEFINE y == [session |-> page[p].session, ids |-> page[p].ids \ {r.id}]
  <2>1. Respond(p) /\ UNCHANGED <<images, entries, files, nextId>> /\ drafts' \subseteq drafts
    BY <1>12 DEF DeleteDraftEntry
  <2>2. state' = state \/ \E to \in States : SetState(r.session, to)
    BY <1>12, StatesAre DEF DeleteDraftEntry
  <2>3. page' = page \/ page' = [page EXCEPT ![p] = y]
    BY <1>12 DEF DeleteDraftEntry
  <2>4. StatesOK(state', nextId)
    BY <1>2, <2>2, SetStateKeeps DEF TablesOK
  <2>5. DraftsOK(drafts', nextId)
    BY <2>1, FS_Subset DEF Types, TablesOK, DraftsOK
  <2>6. TablesOK'
    BY <1>2, <2>1, <2>4, <2>5 DEF TablesOK
  <2>7. PageOK(y, nextId)
    <3>1. y = NoPage \/ page[p] # NoPage
      BY DEF NoPage
    <3> QED
      BY <1>2, <3>1 DEF PageOK
  <2> HIDE DEF y
  <2> QED
    BY <1>2, <1>3, <2>1, <2>3, <2>6, <2>7 DEF TabMoves
<1>13. ASSUME RemoveSession(p) PROVE Goal
  BY <1>2, <1>3, <1>13, DropSessionKeeps DEF RemoveSession
<1>14. ASSUME RequestRefused(p) PROVE Goal
  <2>1. UNCHANGED <<state, images, drafts, entries, files, page>>
    BY <1>14 DEF RequestRefused
  <2>2. CASE Respond(p)
    BY <1>2, <1>3, <2>1, <2>2
  <2>3. CASE r.op = "upload" /\ req' = [req EXCEPT ![p] = CleanupReq(r.session, r.saved)]
    <3>1. r.session \in Sessions /\ r.session < nextId.session /\ r.saved \in Nat
      BY <2>3, UploadShape
    <3>2. ReqOK(CleanupReq(r.session, r.saved), nextId)
      <4>1. <<>> \in Seq(ImageKinds)
        OBVIOUS
      <4> HIDE DEF r
      <4> QED BY <3>1, <4>1, UploadReqs
    <3> QED
      BY <1>2, <1>3, <2>1, <2>3, <3>2 DEF TabMoves
  <2> QED
    BY <1>14, <2>2, <2>3 DEF RequestRefused, CleanupReq
<1>15. Goal
  BY <1>4, <1>5, <1>6, <1>7, <1>8, <1>9, <1>10, <1>11, <1>12, <1>13, <1>14
<1> QED
  BY <1>2, <1>15, TabKeeps

LEMMA NextTypes == Types /\ [Next]_vars => Types'
<1> SUFFICES ASSUME Types, [Next]_vars PROVE Types'
  OBVIOUS
<1>1. ASSUME NEW p \in Tabs, Send(p) \/ Continue(p) PROVE Types'
  BY <1>1, UploadKeeps, ReviewKeeps DEF Send, Continue
<1>2. ASSUME NEW s \in Sessions, JobStep(s) PROVE Types'
  BY <1>2, JobTypesKeep
<1>3. ASSUME Crash PROVE Types'
  <2>1. \A s : JobOK(NoJob, s, nextId)
    BY DEF JobOK, JobState, NoJob
  <2> QED
    BY <1>3, <2>1, IdleReq DEF Crash, Types, TablesOK
<1>4. ASSUME UNCHANGED vars PROVE Types'
  BY <1>4 DEF vars, Types, TablesOK
<1> QED
  BY <1>1, <1>2, <1>3, <1>4 DEF Next

\* Ids stay below their counters, an id names one draft, and jobs, handlers and
\* pages refer to sessions and drafts that were once given out.
THEOREM TypeCorrect == Spec => []TypeOK
<1>1. Types /\ [Next]_vars => Types'
  BY NextTypes
<1>2. Spec => []Types
  BY <1>1, InitTypes, PTL DEF Spec
<1> QED
  BY <1>2, TypesAreTypeOK, PTL

-----------------------------------------------------------------------------
(* A draft is confirmed if and only if an entry was made of it.              *)

DraftsGo == drafts' \subseteq drafts /\ UNCHANGED entries
DraftsCome(s, found) ==
  /\ drafts' = (drafts \ Own(s)) \cup NewDrafts(s, found)
  /\ nextId' = [nextId EXCEPT !.draft = @ + Len(found)]
  /\ UNCHANGED entries
DraftEdited(id, v) == drafts' = Edited(id, v) /\ UNCHANGED entries
DraftsConfirmed(ready) ==
  drafts' = Confirmed(ready) /\ entries' = entries \cup Imported(ready)

LEMMA DraftSteps ==
  ASSUME Types, Next
  PROVE  \/ DraftsGo
         \/ \E s \in Sessions, found \in Seq(Contents) : s < nextId.session /\ DraftsCome(s, found)
         \/ \E id, v : v \in Values /\ DraftEdited(id, v)
         \/ \E ready \in SUBSET drafts : DraftsConfirmed(ready)
<1> DEFINE Goal == \/ DraftsGo
                   \/ \E s \in Sessions, found \in Seq(Contents) : s < nextId.session /\ DraftsCome(s, found)
                   \/ \E id, v : v \in Values /\ DraftEdited(id, v)
                   \/ \E ready \in SUBSET drafts : DraftsConfirmed(ready)
<1>1. ASSUME NEW p \in Tabs, Send(p) PROVE DraftsGo
  BY <1>1 DEF Send, StartUpload, OpenReview, SubmitConfirm, CheckDelete, RemoveImages, DraftsGo
<1>2. ASSUME NEW p \in Tabs, Continue(p), ~ EditDraft(p), ~ ConfirmDraftEntries(p) PROVE DraftsGo
  BY <1>2 DEF Continue, SaveImage, RejectImage, CleanupUpload, FinishUpload, RefuseForm, CheckDraft,
              DeleteDraftEntry, RemoveSession, RequestRefused, DropSession, DraftsGo
<1>3. ASSUME NEW p \in Tabs, EditDraft(p) PROVE \E id, v : v \in Values /\ DraftEdited(id, v)
  <2>1. PICK id \in req[p].todo : req[p].form[id] # Blank /\ drafts' = Edited(id, req[p].form[id])
    BY <1>3 DEF EditDraft, Edited
  <2>2. req[p].form[id] \in Contents
    <3>1. req[p].op = "edit"
      BY <1>3 DEF EditDraft
    <3> QED
      BY <3>1, ReviewShape DEF FormOK
  <2>3. req[p].form[id] \in Values /\ DraftEdited(id, req[p].form[id])
    BY <1>3, <2>1, <2>2 DEF EditDraft, DraftEdited, Contents
  <2> QED
    BY <2>3
<1>4. ASSUME NEW p \in Tabs, ConfirmDraftEntries(p)
      PROVE  DraftsGo \/ \E ready \in SUBSET drafts : DraftsConfirmed(ready)
  BY <1>4 DEF ConfirmDraftEntries, DraftsGo, DraftsConfirmed, Confirmed
<1>5. ASSUME NEW s \in Sessions, JobStep(s), ~ JobSave(s) PROVE DraftsGo
  BY <1>5 DEF JobStep, JobBegin, JobRead, JobExtract, JobExtractFails, JobFinish, JobFail, JobRefused, DraftsGo
<1>6. ASSUME NEW s \in Sessions, JobSave(s)
      PROVE  DraftsGo \/ \E found \in Seq(Contents) : s < nextId.session /\ DraftsCome(s, found)
  <2>1. s < nextId.session /\ job[s].found \in Seq(Contents)
    BY <1>6, JobShape DEF JobSave
  <2>2. DraftsGo \/ DraftsCome(s, job[s].found)
    BY <1>6 DEF JobSave, DraftsGo, DraftsCome
  <2> QED
    BY <2>1, <2>2
<1>7. ASSUME Crash PROVE DraftsGo
  BY <1>7 DEF Crash, DraftsGo
<1> HIDE DEF Goal
<1>8. Goal
  BY <1>1, <1>2, <1>3, <1>4, <1>5, <1>6, <1>7 DEF Next, Goal
<1> QED
  BY <1>8 DEF Goal

\* What becomes of a draft, except that it may go.
LEMMA DraftFate ==
  ASSUME Types, Next, NEW d \in drafts'
  PROVE  \/ d.id >= nextId.draft /\ ~ d.confirmed
         \/ \E o \in drafts : /\ o.id = d.id /\ o.session = d.session
                              /\ o.confirmed => d.confirmed
                              /\ o.value = d.value \/ d.value # Blank
<1> DEFINE Kept == \E o \in drafts : /\ o.id = d.id /\ o.session = d.session
                                     /\ o.confirmed => d.confirmed
                                     /\ o.value = d.value \/ d.value # Blank
<1>1. CASE d \in drafts
  <2>1. Kept
    BY <1>1
  <2> QED
    BY <2>1
<1>2. ASSUME NEW s \in Sessions, NEW found \in Seq(Contents), s < nextId.session, DraftsCome(s, found)
      PROVE  d \in drafts \/ (d.id >= nextId.draft /\ ~ d.confirmed)
  <2>1. nextId' = [nextId EXCEPT !.draft = @ + Len(found)] /\ d \in (drafts \ Own(s)) \cup NewDrafts(s, found)
    BY <1>2 DEF DraftsCome
  <2>2. \A o \in NewDrafts(s, found) : o.id >= nextId.draft /\ ~ o.confirmed
    BY <1>2, <2>1, NewDraftsKeep
  <2> QED
    BY <2>1, <2>2
<1>3. \A o \in drafts : o \in [id : Nat, session : Sessions, value : Contents, confirmed : BOOLEAN]
  BY DEF Types, TablesOK, DraftsOK, DraftOK
<1>4. ASSUME NEW id, NEW v \in Values, DraftEdited(id, v) PROVE Kept
  <2>1. PICK o \in drafts : d = IF o.id = id THEN [o EXCEPT !.value = v] ELSE o
    BY <1>4 DEF DraftEdited, Edited
  <2>2. v # Blank
    BY BlankAssumption
  <2> QED
    BY <1>3, <2>1, <2>2
<1>5. ASSUME NEW ready \in SUBSET drafts, DraftsConfirmed(ready) PROVE Kept
  <2>1. PICK o \in drafts : d = o \/ d = [o EXCEPT !.confirmed = TRUE]
    BY <1>5 DEF DraftsConfirmed, Confirmed
  <2> QED
    BY <1>3, <2>1
<1> HIDE DEF Kept
<1>6. Kept \/ (d.id >= nextId.draft /\ ~ d.confirmed)
  BY <1>1, <1>2, <1>4, <1>5, DraftSteps DEF DraftsGo, Kept
<1> QED
  BY <1>6 DEF Kept

LEMMA NextConfirmed == Types /\ ConfirmedHaveEntries /\ [Next]_vars => ConfirmedHaveEntries'
<1> SUFFICES ASSUME Types, ConfirmedHaveEntries, Next PROVE ConfirmedHaveEntries'
  BY DEF ConfirmedHaveEntries, vars
<1>1. \A d \in drafts : d \in [id : Nat, session : Sessions, value : Contents, confirmed : BOOLEAN]
                        /\ d.id < nextId.draft
  BY DEF Types, TablesOK, DraftsOK, DraftOK
<1>2. \A e \in entries : e.draft \in Nat /\ e.draft < nextId.draft
  BY DEF Types, TablesOK, EntriesOK, EntryOK
<1>3. \A d, o \in drafts : d.id = o.id => d = o
  BY DEF Types, TablesOK, DraftsOK
<1>4. CASE DraftsGo
  BY <1>4 DEF DraftsGo, ConfirmedHaveEntries
<1>5. ASSUME NEW s \in Sessions, NEW found \in Seq(Contents), s < nextId.session, DraftsCome(s, found)
      PROVE  ConfirmedHaveEntries'
  <2>1. nextId' = [nextId EXCEPT !.draft = @ + Len(found)]
        /\ drafts' = (drafts \ Own(s)) \cup NewDrafts(s, found)
    BY <1>5 DEF DraftsCome
  <2>2. \A o \in NewDrafts(s, found) : o.id >= nextId.draft /\ ~ o.confirmed /\ o.id \in Nat
    <3>1. DraftsOK((drafts \ Own(s)) \cup NewDrafts(s, found), nextId')
      BY <1>5, <2>1, NewDraftsKeep
    <3> QED
      BY <1>5, <2>1, <3>1, NewDraftsKeep DEF DraftsOK, DraftOK
  <2>3. nextId.draft \in Nat
    BY DEF Types, TablesOK, Counter
  <2>4. \A o \in NewDrafts(s, found) : ~ \E e \in entries : e.draft = o.id
    BY <1>2, <2>2, <2>3
  <2> QED
    BY <1>5, <2>1, <2>2, <2>4 DEF DraftsCome, ConfirmedHaveEntries
<1>6. ASSUME NEW id, NEW v \in Values, DraftEdited(id, v) PROVE ConfirmedHaveEntries'
  <2>1. \A d \in drafts' : \E o \in drafts : o.id = d.id /\ o.confirmed = d.confirmed
    BY <1>1, <1>6 DEF DraftEdited, Edited
  <2> QED
    BY <1>6, <2>1 DEF DraftEdited, ConfirmedHaveEntries
<1>7. ASSUME NEW ready \in SUBSET drafts, DraftsConfirmed(ready) PROVE ConfirmedHaveEntries'
  <2>1. \A d \in drafts : (\E e \in entries' : e.draft = d.id) <=> d.confirmed \/ d \in ready
    <3>1. \A x : (\E e \in Imported(ready) : e.draft = x) <=> \E d \in ready : d.id = x
      <4> DEFINE nth(d) == 1 + Cardinality({e \in entries : e.draft = d.id})
      <4>1. ASSUME NEW e \in Imported(ready) PROVE \E d \in ready : e.draft = d.id
        <5>1. PICK d \in ready : e = [draft |-> d.id, value |-> d.value, nth |-> nth(d)]
          BY DEF Imported
        <5> HIDE DEF nth
        <5> QED BY <5>1
      <4>2. ASSUME NEW d \in ready PROVE \E e \in Imported(ready) : e.draft = d.id
        <5>1. [draft |-> d.id, value |-> d.value, nth |-> nth(d)] \in Imported(ready)
          BY DEF Imported
        <5> HIDE DEF nth
        <5> QED BY <5>1
      <4> QED
        BY <4>1, <4>2
    <3> QED
      BY <1>3, <1>7, <3>1 DEF DraftsConfirmed, ConfirmedHaveEntries
  <2>2. \A d \in drafts' : \E o \in drafts : o.id = d.id /\ (d.confirmed <=> o.confirmed \/ o \in ready)
    BY <1>1, <1>7 DEF DraftsConfirmed, Confirmed
  <2> QED
    BY <2>1, <2>2 DEF ConfirmedHaveEntries
<1> QED
  BY <1>4, <1>5, <1>6, <1>7, DraftSteps

\* An entry was made of a draft if and only if the draft is marked, whatever
\* tabs, jobs, refused statements and crashes come between: ConfirmDraftEntries
\* is all or nothing.
THEOREM MarksAreTrue == Spec => []ConfirmedHaveEntries
<1>1. Init => ConfirmedHaveEntries
  BY DEF Init, ConfirmedHaveEntries
<1> QED
  BY <1>1, InitTypes, NextTypes, NextConfirmed, PTL DEF Spec

-----------------------------------------------------------------------------
(* What the loop of ConfirmDrafts let pass stays valid until the transaction. *)

Passed(r) == r.op \in {"edit", "check"} =>
               \A d \in drafts : d.id \in DOMAIN r.form \ r.todo => d.value # Blank

AllPassed == \A p \in Tabs : Passed(req[p])

LEMMA PassedStays ==
  ASSUME Types, Next, NEW p \in Tabs, Passed(req[p])
  PROVE  req[p].op \in {"edit", "check"} =>
           \A d \in drafts' : d.id \in DOMAIN req[p].form \ req[p].todo => d.value # Blank
<1> SUFFICES ASSUME req[p].op \in {"edit", "check"}, NEW d \in drafts', d.id \in DOMAIN req[p].form \ req[p].todo
             PROVE  d.value # Blank
  OBVIOUS
<1>1. d.id \in Nat /\ d.id < nextId.draft /\ nextId.draft \in Nat
  BY ReviewShape DEF FormOK, Types, TablesOK, Counter
<1>2. PICK o \in drafts : o.id = d.id /\ (o.value = d.value \/ d.value # Blank)
  BY <1>1, DraftFate
<1> QED
  BY <1>2 DEF Passed

\* A handler that checks or edits comes from one that did, or has all to do.
LEMMA PassedSteps ==
  ASSUME Types, AllPassed, Next, NEW p \in Tabs
  PROVE  LET r == req[p]  x == req'[p]
         IN  \/ x = r
             \/ x.op \notin {"edit", "check"}
             \/ x.todo = DOMAIN x.form
             \/ r.op \in {"edit", "check"} /\ x.form = r.form /\ x.todo = r.todo
             \/ /\ r.op = "check" /\ UNCHANGED drafts
                /\ x.form = r.form /\ x.todo = r.todo \ {r.id}
                /\ \A d \in drafts : d.id = r.id => d.value # Blank
<1> DEFINE r == req[p]
           x == req'[p]
           Goal == \/ x = r
                   \/ x.op \notin {"edit", "check"}
                   \/ x.todo = DOMAIN x.form
                   \/ r.op \in {"edit", "check"} /\ x.form = r.form /\ x.todo = r.todo
                   \/ /\ r.op = "check" /\ UNCHANGED drafts
                      /\ x.form = r.form /\ x.todo = r.todo \ {r.id}
                      /\ \A d \in drafts : d.id = r.id => d.value # Blank
<1>1. DOMAIN req = Tabs
  BY DEF Types
<1>2. ASSUME NEW q \in Tabs, Send(q), q = p PROVE Goal
  BY <1>1, <1>2 DEF Send, StartUpload, OpenReview, SubmitConfirm, CheckDelete, RemoveImages
<1>3. ASSUME EditDraft(p) PROVE Goal
  BY <1>1, <1>3 DEF EditDraft
<1>4. ASSUME CheckDraft(p) PROVE Goal
  <2>1. CASE Respond(p)
    BY <1>1, <2>1 DEF Respond, Idle
  <2>2. CASE /\ \E d \in drafts : d.id = r.id /\ d.session = r.session /\ d.value # Blank
             /\ req' = [req EXCEPT ![p] = [op |-> "edit", session |-> r.session, form |-> r.form,
                                           todo |-> r.todo \ {r.id}]]
    <3>1. \A d, o \in drafts : d.id = o.id => d = o
      BY DEF Types, TablesOK, DraftsOK
    <3> QED
      BY <1>1, <1>4, <2>2, <3>1 DEF CheckDraft
  <2> QED
    BY <1>4, <2>1, <2>2 DEF CheckDraft
<1>5. ASSUME Continue(p), ~ EditDraft(p), ~ CheckDraft(p) PROVE Goal
  BY <1>1, <1>5 DEF Continue, SaveImage, RejectImage, CleanupUpload, FinishUpload, RefuseForm,
                    ConfirmDraftEntries, DeleteDraftEntry, RemoveSession, RequestRefused, Respond, Idle
<1>6. ASSUME NEW q \in Tabs, Send(q) \/ Continue(q), q # p PROVE x = r
  BY <1>1, <1>6 DEF Send, StartUpload, OpenReview, SubmitConfirm, CheckDelete, RemoveImages, Continue,
                    SaveImage, RejectImage, CleanupUpload, FinishUpload, EditDraft, RefuseForm, CheckDraft,
                    ConfirmDraftEntries, DeleteDraftEntry, RemoveSession, RequestRefused, Respond
<1>7. ASSUME NEW s \in Sessions, JobStep(s) PROVE x = r
  BY <1>7 DEF JobStep, JobBegin, JobRead, JobExtract, JobExtractFails, JobSave, JobFinish, JobFail, JobRefused
<1>8. ASSUME Crash PROVE Goal
  BY <1>8 DEF Crash, Idle
<1> HIDE DEF Goal
<1>9. Goal
  <2>1. x = r => Goal
    BY DEF Goal
  <2> HIDE DEF x, r
  <2> QED BY <1>2, <1>3, <1>4, <1>5, <1>6, <1>7, <1>8, <2>1 DEF Next
<1> QED
  BY <1>9 DEF Goal

LEMMA NextPassed == Types /\ AllPassed /\ [Next]_vars => AllPassed'
<1> SUFFICES ASSUME Types, AllPassed, Next, NEW p \in Tabs PROVE Passed(req[p])'
  BY DEF AllPassed, Passed, vars
<1> DEFINE r == req[p]
           x == req'[p]
<1>1. r.op \in {"edit", "check"} =>
        \A d \in drafts' : d.id \in DOMAIN r.form \ r.todo => d.value # Blank
  BY PassedStays DEF AllPassed
<1>2. x.op \in {"edit", "check"} =>
        \A d \in drafts' : d.id \in DOMAIN x.form \ x.todo => d.value # Blank
  <2>1. \/ x = r
        \/ x.op \notin {"edit", "check"}
        \/ x.todo = DOMAIN x.form
        \/ r.op \in {"edit", "check"} /\ x.form = r.form /\ x.todo = r.todo
        \/ /\ r.op = "check" /\ UNCHANGED drafts
           /\ x.form = r.form /\ x.todo = r.todo \ {r.id}
           /\ \A d \in drafts : d.id = r.id => d.value # Blank
    BY PassedSteps
  <2> HIDE DEF x, r
  <2> QED
    BY <1>1, <2>1
<1> QED
  BY <1>2 DEF Passed

-----------------------------------------------------------------------------
(* What a step means for one session s: its state, whether it has confirmed   *)
(* drafts and others, and where its job is.                                  *)

SomeConf(s) == \E d \in drafts : d.session = s /\ d.confirmed
SomeOpen(s) == \E d \in drafts : d.session = s /\ ~ d.confirmed

Uploading(p, s) == req[p].op \in {"upload", "cleanup"} /\ req[p].session = s
Importing(s)    == job[s] # NoJob \/ \E p \in Tabs : Uploading(p, s)
Reviewing(p, s) ==
  \/ page[p].session = s
  \/ req[p].op \in {"edit", "check", "delete"} /\ req[p].session = s

Phase(s) == IF job[s].at \in {"none", "queued"} THEN "uploaded" ELSE "processing"

DraftsSame(s) == (SomeConf(s)' <=> SomeConf(s)) /\ (SomeOpen(s)' <=> SomeOpen(s))

Same(s) ==
  /\ s \in DOMAIN state /\ state'[s] = state[s]
  /\ DraftsSame(s)
  /\ \/ job'[s] = NoJob
     \/ job[s] # NoJob /\ Phase(s)' = Phase(s) /\ (job'[s].at = "finishing" <=> job[s].at = "finishing")

Begun(s) ==
  /\ s = nextId.session
  /\ state'[s] = "uploaded" /\ ~ SomeConf(s)' /\ ~ SomeOpen(s)' /\ job'[s] = NoJob

\* The import of s goes on, by its upload or by its job.
GoesOn(s) ==
  /\ s \in DOMAIN state
  /\ \/ /\ state'[s] = "uploaded" /\ DraftsSame(s)
        /\ \E p \in Tabs : Uploading(p, s) /\ ~ Uploading(p, s)' /\ job'[s] \in {job[s], [at |-> "queued"]}
     \/ state'[s] = "processing" /\ DraftsSame(s) /\ job[s].at = "queued" /\ job'[s].at = "reading"
     \/ state'[s] = "review_ready" /\ DraftsSame(s) /\ job[s].at = "finishing" /\ job'[s] = NoJob
     \/ state'[s] = "failed" /\ DraftsSame(s) /\ job[s].at = "failing" /\ job'[s] = NoJob
     \/ /\ state'[s] = state[s] /\ ~ SomeConf(s)'
        /\ job[s].at = "extracting" /\ job'[s].at = "finishing"

\* The states that agree with drafts whoever wrote them.
Counted(s) ==
  \/ state[s] = "confirmed" /\ SomeConf(s) /\ ~ SomeOpen(s)
  \/ state[s] = "confirmed_part" /\ SomeConf(s) /\ SomeOpen(s)
  \/ state[s] = "review_ready" /\ ~ SomeConf(s)

Reviewed(s) ==
  /\ s \in DOMAIN state
  /\ \E p \in Tabs : Reviewing(p, s)
  /\ Counted(s)'
  /\ job'[s] = job[s]

Fate(s) == Same(s) \/ Begun(s) \/ GoesOn(s) \/ Reviewed(s)

\* A step that leaves the session and its drafts alone.
LEMMA SameWhen ==
  ASSUME NEW s, s \in DOMAIN state', UNCHANGED job,
         s \in DOMAIN state /\ state'[s] = state[s],
         {d \in drafts' : d.session = s} = {d \in drafts : d.session = s}
  PROVE  Same(s)
<1>1. DraftsSame(s)
  BY DEF DraftsSame, SomeConf, SomeOpen
<1>2. Phase(s)' = Phase(s)
  BY DEF Phase
<1> QED
  BY <1>1, <1>2 DEF Same

LEMMA UploadFate ==
  ASSUME Types, NEW s \in Sessions, s \in DOMAIN state', NEW p \in Tabs,
         \/ \E kinds \in Uploads : StartUpload(p, kinds)
         \/ SaveImage(p) \/ RejectImage(p) \/ CleanupUpload(p) \/ FinishUpload(p)
  PROVE  Fate(s)
<1>1. ASSUME NEW kinds \in Uploads, StartUpload(p, kinds) PROVE Fate(s)
  <2>1. CASE s = nextId.session
    <3>1. state'[s] = "uploaded" /\ UNCHANGED <<drafts, job>>
      BY <1>1, <2>1 DEF StartUpload
    <3>2. ~ s < nextId.session
      BY <2>1 DEF Types, TablesOK, Counter
    <3>3. \A d \in drafts : d.session # s
      BY <3>2 DEF Types, TablesOK, DraftsOK, DraftOK
    <3>4. job[s] = NoJob
      BY <3>2 DEF Types, JobOK
    <3> QED
      BY <2>1, <3>1, <3>3, <3>4 DEF Fate, Begun, SomeConf, SomeOpen
  <2>2. CASE s # nextId.session
    <3>1. s \in DOMAIN state /\ state'[s] = state[s] /\ UNCHANGED <<drafts, job>>
      BY <1>1, <2>2 DEF StartUpload
    <3> QED
      BY <3>1, SameWhen DEF Fate
  <2> QED
    BY <2>1, <2>2
<1>2. ASSUME SaveImage(p) \/ RejectImage(p) PROVE Fate(s)
  BY <1>2, SameWhen DEF SaveImage, RejectImage, Fate
<1>3. ASSUME CleanupUpload(p) PROVE Fate(s)
  <2>1. s \in DOMAIN state /\ state'[s] = state[s] /\ UNCHANGED job
    BY <1>3 DEF CleanupUpload, DropSession
  <2>2. {d \in drafts' : d.session = s} = {d \in drafts : d.session = s}
    BY <1>3 DEF CleanupUpload, DropSession, Own
  <2> QED
    BY <2>1, <2>2, SameWhen DEF Fate
<1>4. ASSUME FinishUpload(p) PROVE Fate(s)
  <2>1. DOMAIN state' = DOMAIN state /\ UNCHANGED drafts
    BY <1>4 DEF FinishUpload, SetState
  <2>2. CASE s = req[p].session
    <3>1. state'[s] = "uploaded" /\ DraftsSame(s)
      BY <1>4, <2>1, <2>2 DEF FinishUpload, SetState, DraftsSame, SomeConf, SomeOpen
    <3>2. Uploading(p, s) /\ ~ Uploading(p, s)'
      BY <1>4, <2>2 DEF FinishUpload, Uploading, Respond, Types, Idle
    <3>3. job'[s] \in {job[s], [at |-> "queued"]}
      BY <1>4, <2>2 DEF FinishUpload, Types
    <3> QED
      BY <2>1, <3>1, <3>2, <3>3 DEF Fate, GoesOn
  <2>3. CASE s # req[p].session
    <3>1. state'[s] = state[s] /\ job'[s] = job[s] /\ DraftsSame(s)
      BY <1>4, <2>1, <2>3 DEF FinishUpload, SetState, Types, DraftsSame, SomeConf, SomeOpen
    <3> QED
      BY <2>1, <3>1 DEF Fate, Same, Phase
  <2> QED
    BY <2>2, <2>3
<1> QED
  BY <1>1, <1>2, <1>3, <1>4

LEMMA JobFate ==
  ASSUME Types, NEW s \in Sessions, s \in DOMAIN state', NEW t \in Sessions, JobStep(t)
  PROVE  Fate(s)
<1>1. s \in DOMAIN state
  BY DEF JobStep, JobBegin, JobRead, JobExtract, JobExtractFails, JobSave, JobFinish, JobFail, JobRefused, SetState
<1>2. CASE s # t
  <2>1. state'[s] = state[s] /\ job'[s] = job[s]
    BY <1>1, <1>2 DEF Types, JobStep, JobBegin, JobRead, JobExtract, JobExtractFails, JobSave, JobFinish, JobFail,
                      JobRefused, SetState
  <2>2. {d \in drafts' : d.session = s} = {d \in drafts : d.session = s}
    BY <1>2 DEF JobStep, JobBegin, JobRead, JobExtract, JobExtractFails, JobSave, JobFinish, JobFail,
                JobRefused, Own, NewDrafts
  <2>3. DraftsSame(s)
    BY <2>2 DEF DraftsSame, SomeConf, SomeOpen
  <2> QED
    BY <1>1, <2>1, <2>3 DEF Fate, Same, Phase
<1>3. CASE s = t
  <2>1. ASSUME UNCHANGED drafts PROVE DraftsSame(s)
    BY <2>1 DEF DraftsSame, SomeConf, SomeOpen
  <2>2. ASSUME JobBegin(s) \/ JobFinish(s) \/ JobFail(s) PROVE GoesOn(s)
    BY <1>1, <2>1, <2>2 DEF JobBegin, JobFinish, JobFail, SetState, Types, GoesOn
  <2>3. ASSUME JobRead(s) \/ JobExtract(s) \/ JobExtractFails(s) \/ JobRefused(s) PROVE Same(s)
    <3>1. UNCHANGED <<state, drafts>>
      BY <2>3 DEF JobRead, JobExtract, JobExtractFails, JobRefused
    <3>2. \/ job'[s] = NoJob
          \/ job[s].at \in {"reading", "extracting"} /\ job'[s].at \in {"reading", "extracting", "failing"}
      BY <2>3 DEF JobRead, JobExtract, JobExtractFails, JobRefused, Types
    <3> QED
      BY <1>1, <2>1, <3>1, <3>2 DEF Same, Phase, NoJob
  <2>4. ASSUME JobSave(s) PROVE GoesOn(s)
    <3>1. /\ UNCHANGED state /\ job[s].at = "extracting" /\ job'[s].at = "finishing"
          /\ drafts' = (drafts \ Own(s)) \cup NewDrafts(s, job[s].found)
      BY <1>1, <2>4 DEF JobSave, Types
    <3>2. \A d \in NewDrafts(s, job[s].found) : ~ d.confirmed
      BY DEF NewDrafts
    <3>3. ~ SomeConf(s)'
      BY <3>1, <3>2 DEF SomeConf, Own
    <3> QED
      BY <1>1, <3>1, <3>3 DEF GoesOn
  <2> QED
    BY <1>3, <2>2, <2>3, <2>4 DEF JobStep, Fate
<1> QED
  BY <1>2, <1>3

LEMMA ReviewFate ==
  ASSUME Types, AllPassed, NEW s \in Sessions, s \in DOMAIN state', NEW p \in Tabs,
         \/ \E t \in Sessions : OpenReview(p, t) \/ RemoveImages(p, t)
         \/ \E form \in Forms(p) : SubmitConfirm(p, form)
         \/ \E id \in page[p].ids : CheckDelete(p, id)
         \/ EditDraft(p) \/ RefuseForm(p) \/ CheckDraft(p) \/ ConfirmDraftEntries(p)
         \/ DeleteDraftEntry(p) \/ RemoveSession(p) \/ RequestRefused(p)
  PROVE  Fate(s)
<1> DEFINE r == req[p]
<1>1. \A d \in drafts : d \in [id : Nat, session : Sessions, value : Contents, confirmed : BOOLEAN]
  BY DEF Types, TablesOK, DraftsOK, DraftOK
<1>2. \A d, o \in drafts : d.id = o.id => d = o
  BY DEF Types, TablesOK, DraftsOK
<1>3. ASSUME \/ \E t \in Sessions : OpenReview(p, t) \/ RemoveImages(p, t)
             \/ \E form \in Forms(p) : SubmitConfirm(p, form)
             \/ \E id \in page[p].ids : CheckDelete(p, id)
             \/ RefuseForm(p) \/ CheckDraft(p) \/ RequestRefused(p)
      PROVE  Same(s)
  BY <1>3, SameWhen DEF OpenReview, RemoveImages, SubmitConfirm, CheckDelete, RefuseForm, CheckDraft, RequestRefused
<1>4. ASSUME EditDraft(p) PROVE Same(s)
  <2>1. PICK id \in r.todo : drafts' = Edited(id, r.form[id])
    BY <1>4 DEF EditDraft, Edited
  <2>2. UNCHANGED <<state, job>>
    BY <1>4 DEF EditDraft
  <2>3. /\ \A d \in drafts' : \E o \in drafts : o.session = d.session /\ o.confirmed = d.confirmed
        /\ \A o \in drafts : \E d \in drafts' : o.session = d.session /\ o.confirmed = d.confirmed
    <3> DEFINE v == r.form[id]
               f(d) == IF d.id = id THEN [d EXCEPT !.value = v] ELSE d
    <3>1. drafts' = {f(d) : d \in drafts}
      BY <2>1 DEF Edited
    <3>2. \A d \in drafts : f(d).session = d.session /\ f(d).confirmed = d.confirmed
      <4> HIDE DEF v
      <4> QED BY <1>1
    <3>3. \A d \in drafts : f(d) \in drafts'
      BY <3>1
    <3>4. \A d \in drafts' : \E o \in drafts : d = f(o)
      BY <3>1
    <3> HIDE DEF f
    <3> QED BY <3>2, <3>3, <3>4, Zenon
  <2>4. DraftsSame(s)
    BY <2>3 DEF DraftsSame, SomeConf, SomeOpen
  <2> QED
    BY <2>2, <2>4 DEF Same, Phase
<1>5. ASSUME ConfirmDraftEntries(p) PROVE Same(s) \/ Reviewed(s)
  <2> DEFINE ready == {d \in drafts : d.id \in DOMAIN r.form /\ d.value # Blank}
  <2>1. r.op = "edit" /\ r.todo = {} /\ UNCHANGED job
    BY <1>5 DEF ConfirmDraftEntries
  <2>2. CASE UNCHANGED <<state, drafts, entries>>
    BY <2>1, <2>2, SameWhen
  <2>3. CASE /\ \A id \in DOMAIN r.form : \E d \in Own(r.session) : d.id = id
             /\ drafts' = Confirmed(ready)
             /\ SetState(r.session, IF \A d \in drafts' : d.session = r.session => d.confirmed
                                    THEN "confirmed" ELSE "confirmed_part")
    <3>1. \A d \in ready : d.session = r.session
      BY <1>2, <2>3 DEF Own
    <3>2. s \in DOMAIN state
      BY <2>3 DEF SetState
    <3>3. CASE s # r.session
      <4>1. {d \in drafts' : d.session = s} = {d \in drafts : d.session = s}
        <5> HIDE DEF ready
        <5>1. \A d \in {[o EXCEPT !.confirmed = TRUE] : o \in ready} : d.session = r.session
          BY <1>1, <3>1 DEF ready
        <5> QED BY <2>3, <3>1, <3>3, <5>1 DEF Confirmed
      <4>2. state'[s] = state[s]
        BY <2>3, <3>2, <3>3 DEF SetState
      <4> QED
        BY <2>1, <3>2, <4>1, <4>2, SameWhen
    <3>4. CASE s = r.session
      <4>1. PICK d \in ready : TRUE
        <5>1. DOMAIN r.form # {}
          BY <2>1, ReviewShape DEF FormOK
        <5>2. PICK d \in drafts : d.id \in DOMAIN r.form
          BY <2>3, <5>1 DEF Own
        <5>3. d.value # Blank
          BY <2>1, <5>2 DEF AllPassed, Passed
        <5> QED
          BY <5>2, <5>3
      <4>2. SomeConf(s)'
        <5>1. [d EXCEPT !.confirmed = TRUE] \in drafts'
          BY <2>3, <4>1 DEF Confirmed
        <5>2. [d EXCEPT !.confirmed = TRUE].session = s /\ [d EXCEPT !.confirmed = TRUE].confirmed
          BY <1>1, <3>1, <3>4, <4>1
        <5> QED
          BY <5>1, <5>2 DEF SomeConf
      <4>3. state'[s] = IF SomeOpen(s)' THEN "confirmed_part" ELSE "confirmed"
        BY <2>3, <3>2, <3>4 DEF SetState, SomeOpen
      <4>4. Reviewing(p, s)
        BY <2>1, <3>4 DEF Reviewing
      <4> QED
        BY <2>1, <3>2, <4>2, <4>3, <4>4 DEF Reviewed, Counted
    <3> QED
      BY <3>3, <3>4
  <2> QED
    BY <1>5, <2>2, <2>3 DEF ConfirmDraftEntries, Confirmed
<1>6. ASSUME DeleteDraftEntry(p) PROVE Same(s) \/ Reviewed(s)
  <2> DEFINE gone == {d \in Own(r.session) : d.id = r.id /\ ~ d.confirmed}
             left == Own(r.session) \ gone
  <2>1. r.op = "delete" /\ UNCHANGED job /\ drafts' = drafts \ gone /\ s \in DOMAIN state
    BY <1>6 DEF DeleteDraftEntry, SetState
  <2>2. CASE s # r.session \/ gone = {}
    <3>1. {d \in drafts' : d.session = s} = {d \in drafts : d.session = s}
      BY <2>1, <2>2 DEF Own
    <3>2. state'[s] = state[s]
      BY <1>6, <2>1, <2>2 DEF DeleteDraftEntry, SetState
    <3> QED
      BY <2>1, <3>1, <3>2, SameWhen
  <2>3. CASE s = r.session /\ gone # {}
    <3>1. state'[s] = IF left # {} /\ \A d \in left : d.confirmed THEN "confirmed"
                      ELSE IF \E d \in left : d.confirmed THEN "confirmed_part" ELSE "review_ready"
      BY <1>6, <2>1, <2>3 DEF DeleteDraftEntry, SetState
    <3>2. left = {d \in drafts' : d.session = s}
      BY <2>1, <2>3 DEF Own
    <3>3. Counted(s)'
      <4> HIDE DEF left
      <4> QED BY <3>1, <3>2 DEF Counted, SomeConf, SomeOpen
    <3>4. Reviewing(p, s)
      BY <2>1, <2>3 DEF Reviewing
    <3> QED
      BY <2>1, <3>3, <3>4 DEF Reviewed
  <2> QED
    BY <2>2, <2>3
<1>7. ASSUME RemoveSession(p) PROVE Same(s)
  <2>1. s \in DOMAIN state /\ state'[s] = state[s] /\ UNCHANGED job
    BY <1>7 DEF RemoveSession, DropSession
  <2>2. {d \in drafts' : d.session = s} = {d \in drafts : d.session = s}
    BY <1>7 DEF RemoveSession, DropSession, Own
  <2> QED
    BY <2>1, <2>2, SameWhen
<1> QED
  BY <1>3, <1>4, <1>5, <1>6, <1>7 DEF Fate

LEMMA SessionFate ==
  ASSUME Types, AllPassed, Next, NEW s \in Sessions, s \in DOMAIN state'
  PROVE  Fate(s)
<1>1. ASSUME NEW p \in Tabs, Send(p) \/ Continue(p) PROVE Fate(s)
  BY <1>1, UploadFate, ReviewFate DEF Send, Continue
<1>2. ASSUME Crash PROVE Same(s)
  BY <1>2 DEF Crash, Same, DraftsSame, SomeConf, SomeOpen
<1> QED
  BY <1>1, <1>2, JobFate DEF Next, Fate

-----------------------------------------------------------------------------
(* While a session is imported, by one upload or by its job, nobody reviews   *)
(* it: this is what lets the job write over its drafts without a lock.       *)

Alone ==
  /\ \A p, q \in Tabs : \A s \in Sessions : Uploading(p, s) /\ Uploading(q, s) => p = q
  /\ \A p \in Tabs : \A s \in Sessions : Uploading(p, s) => job[s] = NoJob
  /\ \A p \in Tabs : \A s \in Sessions : Importing(s) => ~ Reviewing(p, s)

Unreviewed(s) ==
  Importing(s) => /\ state[s] = Phase(s)
                  /\ ~ SomeConf(s)
                  /\ job[s].at # "finishing" => ~ SomeOpen(s)

\* The state of a session agrees with its drafts.
Matches(s) ==
  /\ state[s] = "confirmed" => SomeConf(s) /\ ~ SomeOpen(s)
  /\ state[s] = "confirmed_part" => SomeConf(s) /\ SomeOpen(s)
  /\ state[s] \in {"uploaded", "failed"} => ~ SomeConf(s) /\ ~ SomeOpen(s)
  /\ state[s] \in {"processing", "review_ready"} => ~ SomeConf(s)

Apart == Alone /\ \A s \in DOMAIN state : Unreviewed(s) /\ Matches(s)

\* A step nobody begins an upload, a job or a review with.
Quiet ==
  /\ \A p \in Tabs : \A s \in Sessions : Uploading(p, s)' => Uploading(p, s)
  /\ \A p \in Tabs : \A s \in Sessions : Reviewing(p, s)' => Reviewing(p, s)
  /\ \A s \in Sessions : job'[s] # NoJob => job[s] # NoJob

LEMMA QuietKeeps == Alone /\ Quiet => Alone'
<1> SUFFICES ASSUME Alone, Quiet PROVE Alone'
  OBVIOUS
<1>1. \A s \in Sessions : Importing(s)' => Importing(s)
  BY DEF Quiet, Importing
<1>2. (\A p, q \in Tabs : \A s \in Sessions : Uploading(p, s) /\ Uploading(q, s) => p = q)'
  BY DEF Alone, Quiet
<1>3. (\A p \in Tabs : \A s \in Sessions : Uploading(p, s) => job[s] = NoJob)'
  BY DEF Alone, Quiet
<1>4. (\A p \in Tabs : \A s \in Sessions : Importing(s) => ~ Reviewing(p, s))'
  BY <1>1 DEF Alone, Quiet
<1> QED
  BY <1>2, <1>3, <1>4 DEF Alone

\* A tab that moves without beginning anything.
LEMMA TabQuiet ==
  ASSUME Types, NEW p \in Tabs, UNCHANGED job,
         \A q \in Tabs \ {p} : req'[q] = req[q] /\ page'[q] = page[q],
         \A s \in Sessions : Uploading(p, s)' => Uploading(p, s),
         \A s \in Sessions : Reviewing(p, s)' => Reviewing(p, s)
  PROVE  Quiet
BY DEF Quiet, Uploading, Reviewing

LEMMA ContinueQuiet ==
  ASSUME Types, NEW p \in Tabs, Continue(p), ~ FinishUpload(p)
  PROVE  Quiet
<1>1. UNCHANGED job
  BY DEF Continue, SaveImage, RejectImage, CleanupUpload, EditDraft, RefuseForm, CheckDraft,
         ConfirmDraftEntries, DeleteDraftEntry, RemoveSession, RequestRefused
<1>2. \A q \in Tabs \ {p} : req'[q] = req[q] /\ page'[q] = page[q]
  BY DEF Continue, SaveImage, RejectImage, CleanupUpload, EditDraft, RefuseForm, CheckDraft,
         ConfirmDraftEntries, DeleteDraftEntry, RemoveSession, RequestRefused, Respond, Types
<1>3. page'[p].session = page[p].session
  BY DEF Continue, SaveImage, RejectImage, CleanupUpload, EditDraft, RefuseForm, CheckDraft,
         ConfirmDraftEntries, DeleteDraftEntry, RemoveSession, RequestRefused, Types
<1>4. \/ req'[p].op = "idle"
      \/ /\ req[p].op \in {"upload", "cleanup"} /\ req'[p].op \in {"upload", "cleanup"}
         /\ req'[p].session = req[p].session
      \/ /\ req[p].op \in {"edit", "check"} /\ req'[p].op \in {"edit", "check"}
         /\ req'[p].session = req[p].session
  BY DEF Continue, SaveImage, RejectImage, CleanupUpload, EditDraft, RefuseForm, CheckDraft,
         ConfirmDraftEntries, DeleteDraftEntry, RemoveSession, RequestRefused, Respond, Types, Idle
<1> QED
  BY <1>1, <1>2, <1>3, <1>4, TabQuiet DEF Uploading, Reviewing

LEMMA SendQuiet ==
  ASSUME Types, NEW p \in Tabs,
         \/ \E form \in Forms(p) : SubmitConfirm(p, form)
         \/ \E id \in page[p].ids : CheckDelete(p, id)
         \/ \E s \in Sessions : RemoveImages(p, s)
  PROVE  Quiet
<1>1. UNCHANGED job /\ \A q \in Tabs \ {p} : req'[q] = req[q] /\ page'[q] = page[q]
  BY DEF SubmitConfirm, CheckDelete, RemoveImages, Types
<1>2. page'[p].session \in {0, page[p].session}
  BY DEF SubmitConfirm, CheckDelete, RemoveImages, Types, NoPage
<1>3. \/ req'[p] = req[p] \/ req'[p].op = "remove"
      \/ req'[p].op \in {"edit", "delete"} /\ req'[p].session = page[p].session
  BY DEF SubmitConfirm, CheckDelete, RemoveImages, Types
<1>4. 0 \notin Sessions
  BY SessionIds
<1> QED
  BY <1>1, <1>2, <1>3, <1>4, TabQuiet DEF Uploading, Reviewing

LEMMA JobQuiet ==
  ASSUME Types, NEW t \in Sessions, JobStep(t)
  PROVE  Quiet
<1>1. UNCHANGED <<req, page>>
  BY DEF JobStep, JobBegin, JobRead, JobExtract, JobExtractFails, JobSave, JobFinish, JobFail, JobRefused
<1>2. \A s \in Sessions : job'[s] # NoJob => job[s] # NoJob
  <2>1. job[t] # NoJob
    BY DEF JobStep, JobBegin, JobRead, JobExtract, JobExtractFails, JobSave, JobFinish, JobFail, JobRefused, NoJob
  <2>2. \A s \in Sessions \ {t} : job'[s] = job[s]
    BY DEF JobStep, JobBegin, JobRead, JobExtract, JobExtractFails, JobSave, JobFinish, JobFail, JobRefused, Types
  <2> QED
    BY <2>1, <2>2
<1> QED
  BY <1>1, <1>2 DEF Quiet, Uploading, Reviewing

LEMMA CrashQuiet == Types /\ Crash => Quiet
BY DEF Types, Crash, Quiet, Uploading, Reviewing, Idle

LEMMA StartAlone ==
  ASSUME Types, Alone, NEW p \in Tabs, NEW kinds \in Uploads, StartUpload(p, kinds)
  PROVE  Alone' /\ \A s \in Sessions : s < nextId.session => (Importing(s)' => Importing(s))
<1> DEFINE n == nextId.session
<1>1. /\ req'[p].op = "upload" /\ req'[p].session = n /\ page'[p] = NoPage
      /\ req[p].op = "idle" /\ UNCHANGED job
      /\ \A q \in Tabs \ {p} : req'[q] = req[q] /\ page'[q] = page[q]
  BY DEF StartUpload, Running, Types
<1>2. n \in Nat \ {0}
  BY DEF Types, TablesOK, Counter
<1>3. \A q \in Tabs : ~ Uploading(q, n) /\ ~ Reviewing(q, n)
  <2> SUFFICES ASSUME NEW q \in Tabs PROVE ~ Uploading(q, n) /\ ~ Reviewing(q, n)
    OBVIOUS
  <2>1. ReqOK(req[q], nextId) /\ PageOK(page[q], nextId)
    BY DEF Types
  <2>2. req[q].op # "idle" => req[q] # Idle
    BY DEF Idle
  <2>3. req[q].op # "idle" => req[q].session # n
    BY <1>2, <2>1, <2>2, SessionIds DEF ReqOK
  <2>4. page[q].session # n
    BY <1>2, <2>1, SessionIds DEF PageOK, NoPage
  <2> QED
    BY <2>3, <2>4 DEF Uploading, Reviewing
<1>4. n \in Sessions => job[n] = NoJob
  BY <1>2, SessionIds DEF Types, JobOK
<1>5. \A q \in Tabs : \A s \in Sessions : Uploading(q, s)' <=> Uploading(q, s) \/ (q = p /\ s = n)
  BY <1>1 DEF Uploading
<1>6. \A q \in Tabs : \A s \in Sessions : Reviewing(q, s)' => Reviewing(q, s)
  <2>1. 0 \notin Sessions
    BY SessionIds
  <2> QED
    BY <1>1, <2>1 DEF Reviewing, NoPage
<1>7. \A s \in Sessions : Importing(s)' <=> Importing(s) \/ s = n
  BY <1>1, <1>5 DEF Importing
<1> HIDE DEF n
<1>8. Alone'
  <2>1. (\A x, q \in Tabs : \A s \in Sessions : Uploading(x, s) /\ Uploading(q, s) => x = q)'
    BY <1>3, <1>5 DEF Alone
  <2>2. (\A q \in Tabs : \A s \in Sessions : Uploading(q, s) => job[s] = NoJob)'
    BY <1>1, <1>4, <1>5 DEF Alone
  <2>3. (\A q \in Tabs : \A s \in Sessions : Importing(s) => ~ Reviewing(q, s))'
    BY <1>3, <1>6, <1>7 DEF Alone
  <2> QED
    BY <2>1, <2>2, <2>3 DEF Alone
<1> QED
  BY <1>2, <1>7, <1>8, SessionIds DEF n

LEMMA FinishAlone ==
  ASSUME Types, Alone, NEW p \in Tabs, FinishUpload(p)
  PROVE  /\ Alone'
         /\ \A s \in Sessions : Importing(s)' => Importing(s)
         /\ \A q \in Tabs : \A s \in Sessions : Uploading(q, s)' => Uploading(q, s)
<1> DEFINE t == req[p].session
<1>1. /\ Uploading(p, t) /\ req'[p] = Idle /\ UNCHANGED page
      /\ \A q \in Tabs \ {p} : req'[q] = req[q]
      /\ \A s \in Sessions \ {t} : job'[s] = job[s]
  BY DEF FinishUpload, Respond, Types, Uploading
<1>2. \A q \in Tabs : \A s \in Sessions : Uploading(q, s)' => Uploading(q, s) /\ q # p
  BY <1>1 DEF Uploading, Idle
<1>3. \A q \in Tabs : \A s \in Sessions : Reviewing(q, s)' => Reviewing(q, s)
  BY <1>1 DEF Reviewing, Idle
<1> HIDE DEF t
<1>4. \A s \in Sessions : Importing(s)' => Importing(s)
  BY <1>1, <1>2 DEF Importing
<1>5. (\A x, q \in Tabs : \A s \in Sessions : Uploading(x, s) /\ Uploading(q, s) => x = q)'
  BY <1>2 DEF Alone
<1>6. (\A q \in Tabs : \A s \in Sessions : Uploading(q, s) => job[s] = NoJob)'
  BY <1>1, <1>2 DEF Alone
<1>7. (\A q \in Tabs : \A s \in Sessions : Importing(s) => ~ Reviewing(q, s))'
  BY <1>3, <1>4 DEF Alone
<1> QED
  BY <1>2, <1>4, <1>5, <1>6, <1>7 DEF Alone

\* The review page is only shown of a session whose import has come to its end.
LEMMA OpenAlone ==
  ASSUME Types, Apart, NEW p \in Tabs, NEW t \in Sessions, OpenReview(p, t)
  PROVE  /\ Alone'
         /\ \A s \in Sessions : Importing(s)' => Importing(s)
         /\ \A q \in Tabs : \A s \in Sessions : Uploading(q, s)' => Uploading(q, s)
<1>1. UNCHANGED <<req, job>>
  BY DEF OpenReview
<1>2. ~ Importing(t)
  BY DEF OpenReview, Apart, Unreviewed, Phase
<1>3. \A q \in Tabs : \A s \in Sessions \ {t} : Reviewing(q, s)' => Reviewing(q, s)
  BY DEF OpenReview, Reviewing, Types
<1>4. \A q \in Tabs : \A s \in Sessions : Uploading(q, s)' <=> Uploading(q, s)
  BY <1>1 DEF Uploading
<1>5. \A s \in Sessions : Importing(s)' <=> Importing(s)
  BY <1>1, <1>4 DEF Importing
<1>6. (\A x, q \in Tabs : \A s \in Sessions : Uploading(x, s) /\ Uploading(q, s) => x = q)'
  BY <1>4 DEF Apart, Alone
<1>7. (\A q \in Tabs : \A s \in Sessions : Uploading(q, s) => job[s] = NoJob)'
  BY <1>1, <1>4 DEF Apart, Alone
<1>8. (\A q \in Tabs : \A s \in Sessions : Importing(s) => ~ Reviewing(q, s))'
  BY <1>2, <1>3, <1>5 DEF Apart, Alone
<1> QED
  BY <1>4, <1>5, <1>6, <1>7, <1>8 DEF Alone

LEMMA NextAlone ==
  ASSUME Types, Apart, Next
  PROVE  /\ Alone'
         /\ \A s \in Sessions : s < nextId.session =>
              /\ Importing(s)' => Importing(s)
              /\ \A q \in Tabs : Uploading(q, s)' => Uploading(q, s)
<1> DEFINE Goal == /\ Alone'
                   /\ \A s \in Sessions : s < nextId.session =>
                        /\ Importing(s)' => Importing(s)
                        /\ \A q \in Tabs : Uploading(q, s)' => Uploading(q, s)
<1>1. ASSUME Quiet PROVE Goal
  BY <1>1, QuietKeeps DEF Apart, Quiet, Importing
<1>2. ASSUME NEW p \in Tabs, NEW kinds \in Uploads, StartUpload(p, kinds) PROVE Goal
  <2>1. Alone' /\ \A s \in Sessions : s < nextId.session => (Importing(s)' => Importing(s))
    BY <1>2, StartAlone DEF Apart
  <2>2. \A s \in Sessions : s < nextId.session =>
          \A q \in Tabs : Uploading(q, s)' => Uploading(q, s)
    <3>1. nextId.session \in Nat
      BY DEF Types, TablesOK, Counter
    <3>2. /\ req'[p].session = nextId.session
          /\ \A q \in Tabs \ {p} : req'[q] = req[q]
      BY <1>2 DEF StartUpload, Types
    <3> QED
      BY <3>1, <3>2, SessionIds DEF Uploading
  <2> QED
    BY <2>1, <2>2
<1>3. ASSUME NEW p \in Tabs, FinishUpload(p) PROVE Goal
  BY <1>3, FinishAlone DEF Apart
<1>4. ASSUME NEW p \in Tabs, NEW t \in Sessions, OpenReview(p, t) PROVE Goal
  BY <1>4, OpenAlone
<1>5. ASSUME NEW p \in Tabs, Send(p) \/ Continue(p) PROVE Goal
  <2>1. ASSUME Continue(p), ~ FinishUpload(p) PROVE Quiet
    BY <2>1, ContinueQuiet
  <2>2. ASSUME \/ \E form \in Forms(p) : SubmitConfirm(p, form)
               \/ \E id \in page[p].ids : CheckDelete(p, id)
               \/ \E s \in Sessions : RemoveImages(p, s)
        PROVE  Quiet
    BY <2>2, SendQuiet
  <2> HIDE DEF Goal
  <2> QED
    BY <1>1, <1>2, <1>3, <1>4, <1>5, <2>1, <2>2 DEF Send
<1> HIDE DEF Goal
<1>6. Goal
  BY <1>1, <1>5, JobQuiet, CrashQuiet DEF Next
<1> QED
  BY <1>6 DEF Goal

LEMMA NextApart == Types /\ AllPassed /\ Apart /\ [Next]_vars => Apart'
<1>1. ASSUME Types, AllPassed, Apart, Next PROVE Apart'
  <2> SUFFICES ASSUME NEW s \in DOMAIN state' PROVE Unreviewed(s)' /\ Matches(s)'
    BY <1>1, NextAlone DEF Apart
  <2>1. s \in Sessions
    BY <1>1, NextTypes DEF Types, TablesOK, StatesOK
  <2>2. Fate(s)
    BY <1>1, <2>1, SessionFate
  <2>3. ASSUME s \in DOMAIN state
        PROVE  /\ Unreviewed(s) /\ Matches(s)
               /\ Importing(s)' => Importing(s)
               /\ Importing(s)' /\ job'[s] = NoJob => job[s] = NoJob
               /\ \A p \in Tabs : Uploading(p, s) => job[s] = NoJob
               /\ Importing(s) => \A p \in Tabs : ~ Reviewing(p, s)
    <3>1. s < nextId.session
      BY <1>1, <2>3 DEF Types, TablesOK, StatesOK
    <3>2. Importing(s)' => Importing(s)
      BY <1>1, <2>1, <3>1, NextAlone
    <3>3. \A p \in Tabs : Uploading(p, s)' => Uploading(p, s)
      BY <1>1, <2>1, <3>1, NextAlone
    <3>4. \A p \in Tabs : Uploading(p, s) => job[s] = NoJob
      BY <1>1, <2>1 DEF Apart, Alone
    <3>5. Importing(s)' /\ job'[s] = NoJob => job[s] = NoJob
      BY <3>3, <3>4 DEF Importing
    <3> QED
      BY <1>1, <2>1, <2>3, <3>2, <3>4, <3>5 DEF Apart, Alone
  <2>4. CASE Same(s)
    <3>1. Matches(s)'
      BY <2>3, <2>4 DEF Same, DraftsSame, Matches
    <3>2. Unreviewed(s)'
      <4> SUFFICES ASSUME Importing(s)'
                   PROVE  state'[s] = Phase(s)' /\ ~ SomeConf(s)' /\ (job'[s].at # "finishing" => ~ SomeOpen(s)')
        BY DEF Unreviewed
      <4>1. state[s] = Phase(s) /\ ~ SomeConf(s) /\ (job[s].at # "finishing" => ~ SomeOpen(s))
        BY <2>3, <2>4 DEF Same, Unreviewed
      <4>2. Phase(s)' = Phase(s) /\ (job'[s].at = "finishing" <=> job[s].at = "finishing")
        BY <2>3, <2>4 DEF Same, Phase, NoJob
      <4> QED
        BY <2>4, <4>1, <4>2 DEF Same, DraftsSame
    <3> QED
      BY <3>1, <3>2
  <2>5. CASE Begun(s)
    BY <2>5 DEF Begun, Unreviewed, Matches, Phase, NoJob
  <2>6. CASE GoesOn(s)
    <3>1. s \in DOMAIN state
      BY <2>6 DEF GoesOn
    <3>2. CASE /\ state'[s] = "uploaded" /\ DraftsSame(s)
               /\ \E p \in Tabs : Uploading(p, s) /\ job'[s] \in {job[s], [at |-> "queued"]}
      <4>1. Importing(s) /\ job[s] = NoJob
        BY <2>3, <3>1, <3>2 DEF Importing
      <4>2. ~ SomeConf(s)' /\ ~ SomeOpen(s)'
        BY <2>3, <3>1, <3>2, <4>1 DEF Unreviewed, DraftsSame, NoJob
      <4>3. Phase(s)' = "uploaded"
        BY <3>2, <4>1 DEF Phase, NoJob
      <4> QED
        BY <3>2, <4>2, <4>3 DEF Unreviewed, Matches
    <3>3. CASE state'[s] = "processing" /\ DraftsSame(s) /\ job[s].at = "queued" /\ job'[s].at = "reading"
      BY <2>3, <3>1, <3>3 DEF Unreviewed, Matches, DraftsSame, Phase, Importing, NoJob
    <3>4. CASE \/ state'[s] = "review_ready" /\ DraftsSame(s) /\ job[s].at = "finishing" /\ job'[s] = NoJob
               \/ state'[s] = "failed" /\ DraftsSame(s) /\ job[s].at = "failing" /\ job'[s] = NoJob
      <4>1. Importing(s) /\ ~ Importing(s)'
        BY <2>3, <3>1, <3>4 DEF Importing, NoJob
      <4> QED
        BY <2>3, <3>1, <3>4, <4>1 DEF Unreviewed, Matches, DraftsSame
    <3>5. CASE /\ state'[s] = state[s] /\ ~ SomeConf(s)'
               /\ job[s].at = "extracting" /\ job'[s].at = "finishing"
      <4>1. state'[s] = "processing" /\ Phase(s)' = "processing"
        BY <2>3, <3>1, <3>5 DEF Unreviewed, Phase, Importing, NoJob
      <4> QED
        BY <3>5, <4>1 DEF Unreviewed, Matches
    <3> QED
      BY <2>6, <3>2, <3>3, <3>4, <3>5 DEF GoesOn
  <2>7. CASE Reviewed(s)
    <3>1. ~ Importing(s)'
      BY <2>3, <2>7 DEF Reviewed
    <3> QED
      BY <2>7, <3>1 DEF Reviewed, Unreviewed, Matches, Counted
  <2> QED
    BY <2>2, <2>4, <2>5, <2>6, <2>7 DEF Fate
<1>2. ASSUME Apart, UNCHANGED vars PROVE Apart'
  BY <1>2 DEF vars, Apart, Alone, Importing, Uploading, Reviewing, Unreviewed, Matches, Phase, SomeConf, SomeOpen
<1> QED
  BY <1>1, <1>2

LEMMA InitApart == Init => Apart
BY SessionIds DEF Init, Apart, Alone, Importing, Uploading, Reviewing, Idle, NoPage

LEMMA ApartAlways == Spec => [](Types /\ AllPassed /\ Apart)
<1>1. Init => AllPassed
  BY DEF Init, AllPassed, Passed, Idle
<1> QED
  BY <1>1, InitTypes, InitApart, NextTypes, NextPassed, NextApart, PTL DEF Spec

\* The state of a session, by which the review page is offered, agrees with its
\* drafts, although uploads, jobs, confirmations and deletions all write it.
THEOREM StatesAgree == Spec => []StateMatchesDrafts
<1>1. Types /\ Apart => StateMatchesDrafts
  <2> SUFFICES ASSUME Types, Apart, NEW s \in DOMAIN state
               PROVE  LET confirmed == {d \in Own(s) : d.confirmed}
                      IN  CASE state[s] = "confirmed"      -> Own(s) # {} /\ confirmed = Own(s)
                            [] state[s] = "confirmed_part" -> confirmed # {} /\ confirmed # Own(s)
                            [] state[s] \in {"uploaded", "failed"} -> Own(s) = {}
                            [] OTHER                       -> confirmed = {}
    BY DEF StateMatchesDrafts
  <2>1. /\ Matches(s)
        /\ state[s] \in {"uploaded", "processing", "review_ready", "confirmed_part", "confirmed", "failed"}
    BY DEF Apart, Types, TablesOK, StatesOK, States
  <2>2. /\ SomeConf(s) <=> {d \in Own(s) : d.confirmed} # {}
        /\ SomeOpen(s) <=> {d \in Own(s) : d.confirmed} # Own(s)
    BY DEF SomeConf, SomeOpen, Own
  <2> DEFINE own == Own(s)
             confirmed == {d \in Own(s) : d.confirmed}
  <2>3. confirmed \subseteq own
    OBVIOUS
  <2> HIDE DEF own, confirmed
  <2>4. CASE state[s] = "confirmed"
    BY <2>1, <2>2, <2>3, <2>4 DEF Matches, own, confirmed
  <2>5. CASE state[s] = "confirmed_part"
    BY <2>1, <2>2, <2>5 DEF Matches
  <2>6. CASE state[s] \in {"uploaded", "failed"}
    BY <2>1, <2>2, <2>6 DEF Matches
  <2>7. CASE state[s] \in {"processing", "review_ready"}
    BY <2>1, <2>2, <2>7 DEF Matches
  <2> QED
    BY <2>1, <2>4, <2>5, <2>6, <2>7
<1> QED
  BY <1>1, ApartAlways, PTL

\* A confirmed draft stays as long as its session, neither a deletion that
\* checked it before nor a job that clears the drafts of its session removes it.
THEOREM ConfirmedStay == Spec => ConfirmedDraftsStay
<1> DEFINE Step == \A d \in drafts :
                     d.confirmed /\ d.session \in DOMAIN state'
                       => \E o \in drafts' : o.id = d.id /\ o.confirmed
<1>1. ASSUME Types, Apart, Next PROVE Step
  <2> SUFFICES ASSUME NEW d \in drafts, d.confirmed, d.session \in DOMAIN state'
               PROVE  \E o \in drafts' : o.id = d.id /\ o.confirmed
    OBVIOUS
  <2>1. d \in [id : Nat, session : Sessions, value : Contents, confirmed : BOOLEAN]
    BY <1>1 DEF Types, TablesOK, DraftsOK, DraftOK
  <2>2. ASSUME NEW p \in Tabs, CleanupUpload(p) \/ RemoveSession(p) \/ DeleteDraftEntry(p) PROVE d \in drafts'
    BY <2>2 DEF CleanupUpload, RemoveSession, DropSession, DeleteDraftEntry, Own
  <2>3. ASSUME NEW p \in Tabs, EditDraft(p) PROVE \E o \in drafts' : o.id = d.id /\ o.confirmed
    <3>1. PICK id \in req[p].todo :
            drafts' = {IF o.id = id THEN [o EXCEPT !.value = req[p].form[id]] ELSE o : o \in drafts}
      BY <2>3 DEF EditDraft
    <3> DEFINE x == [d EXCEPT !.value = req[p].form[id]]
    <3>2. x.id = d.id /\ x.confirmed
      BY <2>1
    <3>3. x \in drafts' \/ d \in drafts'
      BY <3>1
    <3> HIDE DEF x
    <3> QED
      BY <3>2, <3>3
  <2>4. ASSUME NEW p \in Tabs, ConfirmDraftEntries(p) PROVE \E o \in drafts' : o.id = d.id /\ o.confirmed
    <3> DEFINE x == [d EXCEPT !.confirmed = TRUE]
    <3>1. x \in drafts' \/ d \in drafts'
      BY <2>4 DEF ConfirmDraftEntries
    <3>2. x.id = d.id /\ x.confirmed
      BY <2>1
    <3> HIDE DEF x
    <3> QED
      BY <3>1, <3>2
  <2>5. ASSUME NEW s \in Sessions, JobSave(s) PROVE d \in drafts'
    <3>1. UNCHANGED state /\ job[s].at = "extracting"
      BY <2>5 DEF JobSave
    <3>2. d.session # s
      BY <1>1, <3>1 DEF Apart, Unreviewed, Importing, NoJob, SomeConf
    <3> QED
      BY <2>5, <3>2 DEF JobSave, Own
  <2>6. ASSUME NEW p \in Tabs, Send(p) PROVE UNCHANGED drafts
    BY <2>6 DEF Send, StartUpload, OpenReview, SubmitConfirm, CheckDelete, RemoveImages
  <2>7. ASSUME NEW p \in Tabs, Continue(p)
        PROVE  \/ CleanupUpload(p) \/ RemoveSession(p) \/ DeleteDraftEntry(p) \/ EditDraft(p)
               \/ ConfirmDraftEntries(p) \/ UNCHANGED drafts
    BY <2>7 DEF Continue, SaveImage, RejectImage, FinishUpload, RefuseForm, CheckDraft, RequestRefused
  <2>8. ASSUME NEW s \in Sessions, JobStep(s) PROVE JobSave(s) \/ UNCHANGED drafts
    BY <2>8 DEF JobStep, JobBegin, JobRead, JobExtract, JobExtractFails, JobFinish, JobFail, JobRefused
  <2>9. ASSUME Crash PROVE UNCHANGED drafts
    BY <2>9 DEF Crash
  <2> QED
    BY <1>1, <2>2, <2>3, <2>4, <2>5, <2>6, <2>7, <2>8, <2>9 DEF Next
<1>2. Types /\ Apart /\ [Next]_vars => [Step]_vars
  BY <1>1
<1> QED
  BY <1>2, ApartAlways, PTL DEF Spec, ConfirmedDraftsStay

-----------------------------------------------------------------------------
(* The import implements DraftReview.  Vacant: whoever still extracts meets no *)
(* draft, not even of a session that is gone; Offered: only what has come out  *)
(* of its import is reviewed; Named: tabs name drafts of their own session.    *)

Vacant == \A s \in Sessions : Importing(s) /\ job[s].at # "finishing" => \A d \in drafts : d.session # s

Offered == \A p \in Tabs, s \in Sessions : Reviewing(p, s) /\ s \in DOMAIN state => state[s] \in ReviewStates

Shown(p) == \A d \in drafts : d.id \in page[p].ids => d.session = page[p].session
Sent(p)  == req[p].op \in {"edit", "check"} =>
              \A d \in drafts : d.id \in DOMAIN req[p].form => d.session = req[p].session
Named    == \A p \in Tabs : Shown(p) /\ Sent(p)

\* Drafts appear only where a job has just written them.
LEMMA DraftFrom ==
  ASSUME Types, Next, NEW d \in drafts'
  PROVE  \/ \E o \in drafts : o.session = d.session
         \/ job'[d.session].at = "finishing"
<1>1. ASSUME NEW s \in Sessions, JobSave(s) PROVE d \in drafts \/ job'[d.session].at = "finishing"
  BY <1>1 DEF JobSave, NewDrafts, Types
<1>2. CASE \A s \in Sessions : ~ JobSave(s)
  <2>1. nextId'.draft = nextId.draft
    <3>1. ASSUME NEW p \in Tabs, Send(p) \/ Continue(p) PROVE nextId'.draft = nextId.draft
      BY <3>1 DEF Send, StartUpload, OpenReview, SubmitConfirm, CheckDelete, RemoveImages, Continue,
                  SaveImage, RejectImage, CleanupUpload, FinishUpload, EditDraft, RefuseForm, CheckDraft,
                  ConfirmDraftEntries, DeleteDraftEntry, RemoveSession, RequestRefused, Types, TablesOK, Counter
    <3>2. ASSUME NEW s \in Sessions, JobStep(s) PROVE nextId'.draft = nextId.draft
      BY <1>2, <3>2 DEF JobStep, JobBegin, JobRead, JobExtract, JobExtractFails, JobFinish, JobFail, JobRefused
    <3> QED
      BY <3>1, <3>2 DEF Next, Crash
  <2>2. d.id \in Nat /\ d.id < nextId.draft /\ nextId.draft \in Nat
    BY <2>1, NextTypes DEF Types, TablesOK, DraftsOK, DraftOK, Counter
  <2> QED
    BY <2>2, DraftFate
<1> QED
  BY <1>1, <1>2

LEMMA FinishingJob ==
  ASSUME Types, Next, NEW s \in Sessions, job[s].at = "finishing"
  PROVE  \/ job'[s] = job[s] \/ job'[s] = NoJob
         \/ \E p \in Tabs : Uploading(p, s)
<1>1. ASSUME NEW p \in Tabs, Send(p) PROVE job'[s] = job[s]
  BY <1>1 DEF Send, StartUpload, OpenReview, SubmitConfirm, CheckDelete, RemoveImages
<1>2. ASSUME NEW p \in Tabs, Continue(p) PROVE job'[s] = job[s] \/ Uploading(p, s)
  BY <1>2 DEF Continue, SaveImage, RejectImage, CleanupUpload, FinishUpload, EditDraft, RefuseForm, CheckDraft,
              ConfirmDraftEntries, DeleteDraftEntry, RemoveSession, RequestRefused, Uploading, Types
<1>3. ASSUME NEW t \in Sessions, JobStep(t) PROVE job'[s] = job[s] \/ job'[s] = NoJob
  BY <1>3 DEF JobStep, JobBegin, JobRead, JobExtract, JobExtractFails, JobSave, JobFinish, JobFail, JobRefused, Types
<1>4. ASSUME Crash PROVE job'[s] = NoJob
  BY <1>4 DEF Crash
<1> QED
  BY <1>1, <1>2, <1>3, <1>4 DEF Next

LEMMA NextVacant ==
  ASSUME Types, AllPassed, Apart, Vacant, Next
  PROVE  Vacant'
<1> SUFFICES ASSUME NEW s \in Sessions, Importing(s)', job'[s].at # "finishing", NEW d \in drafts', d.session = s
             PROVE  FALSE
  BY DEF Vacant
<1>1. CASE s \in DOMAIN state'
  <2>1. ~ SomeConf(s)' /\ ~ SomeOpen(s)'
    BY <1>1, NextApart DEF Apart, Unreviewed
  <2> QED
    BY <2>1 DEF SomeConf, SomeOpen
<1>2. PICK o \in drafts : o.session = s
  BY DraftFrom
<1>3. s < nextId.session
  BY <1>2 DEF Types, TablesOK, DraftsOK, DraftOK
<1>4. Importing(s) /\ \A p \in Tabs : Uploading(p, s)' => Uploading(p, s)
  BY <1>3, NextAlone
<1>5. job[s].at = "finishing"
  BY <1>2, <1>4 DEF Vacant
<1>6. \A p \in Tabs : ~ Uploading(p, s)
  BY <1>5 DEF Apart, Alone, NoJob
<1>7. job'[s] = NoJob
  BY <1>5, <1>6, FinishingJob
<1> QED
  BY <1>4, <1>6, <1>7 DEF Importing

\* A tab begins to review a session only on its review page.
LEMMA ReviewFrom ==
  ASSUME Types, Next, NEW p \in Tabs, NEW s \in Sessions, Reviewing(p, s)'
  PROVE  Reviewing(p, s) \/ OpenReview(p, s)
<1>0. 0 \notin Sessions
  BY SessionIds
<1>1. ASSUME NEW q \in Tabs, NEW kinds \in Uploads, StartUpload(q, kinds) PROVE Reviewing(p, s)
  BY <1>0, <1>1 DEF StartUpload, Reviewing, NoPage, Types
<1>2. ASSUME NEW q \in Tabs, FinishUpload(q) PROVE Reviewing(p, s)
  BY <1>2 DEF FinishUpload, Respond, Reviewing, Idle, Types
<1>3. ASSUME NEW q \in Tabs, NEW t \in Sessions, OpenReview(q, t) PROVE Reviewing(p, s) \/ OpenReview(p, s)
  BY <1>3 DEF OpenReview, Reviewing, Types
<1>4. ASSUME Quiet PROVE Reviewing(p, s)
  BY <1>4 DEF Quiet
<1>5. ASSUME NEW q \in Tabs, Send(q) PROVE Reviewing(p, s) \/ OpenReview(p, s)
  <2>1. CASE \/ \E form \in Forms(q) : SubmitConfirm(q, form)
             \/ \E id \in page[q].ids : CheckDelete(q, id)
             \/ \E t \in Sessions : RemoveImages(q, t)
    BY <1>4, <2>1, SendQuiet
  <2> QED
    BY <1>1, <1>3, <1>5, <2>1 DEF Send
<1> QED
  BY <1>2, <1>4, <1>5, ContinueQuiet, JobQuiet, CrashQuiet DEF Next

\* A session is new only as long as its upload runs.
LEMMA SessionFrom ==
  ASSUME Types, Next, NEW s \in Sessions, s \in DOMAIN state', s \notin DOMAIN state
  PROVE  Importing(s)'
<1>1. ASSUME NEW p \in Tabs, NEW kinds \in Uploads, StartUpload(p, kinds) PROVE Importing(s)'
  <2>1. s = nextId.session /\ req'[p] = [op |-> "upload", session |-> s, left |-> kinds, saved |-> 0]
    BY <1>1 DEF StartUpload, Types
  <2> QED
    BY <2>1 DEF Importing, Uploading
<1>2. ASSUME NEW p \in Tabs, Send(p) PROVE \E kinds \in Uploads : StartUpload(p, kinds)
  BY <1>2 DEF Send, OpenReview, SubmitConfirm, CheckDelete, RemoveImages
<1>3. ASSUME NEW p \in Tabs, Continue(p) PROVE FALSE
  BY <1>3 DEF Continue, SaveImage, RejectImage, CleanupUpload, FinishUpload, EditDraft, RefuseForm, CheckDraft,
              ConfirmDraftEntries, DeleteDraftEntry, RemoveSession, RequestRefused, SetState, DropSession
<1>4. ASSUME NEW t \in Sessions, JobStep(t) PROVE FALSE
  BY <1>4 DEF JobStep, JobBegin, JobRead, JobExtract, JobExtractFails, JobSave, JobFinish, JobFail, JobRefused, SetState
<1> QED
  BY <1>1, <1>2, <1>3, <1>4 DEF Next, Crash

LEMMA NextOffered ==
  ASSUME Types, AllPassed, Apart, Offered, Next
  PROVE  Offered'
<1> SUFFICES ASSUME NEW p \in Tabs, NEW s \in Sessions, Reviewing(p, s)', s \in DOMAIN state'
             PROVE  state'[s] \in ReviewStates
  BY DEF Offered
<1>1. ~ Importing(s)'
  BY NextAlone DEF Alone
<1>2. s \in DOMAIN state
  BY <1>1, SessionFrom
<1>3. CASE OpenReview(p, s)
  BY <1>3 DEF OpenReview, ReviewStates
<1>4. CASE Reviewing(p, s)
  <2>1. state[s] \in ReviewStates /\ ~ Importing(s)
    BY <1>2, <1>4 DEF Offered, Apart, Alone
  <2>2. ~ Begun(s)
    BY <1>2 DEF Begun, Types, TablesOK, StatesOK, Counter
  <2>3. ~ GoesOn(s)
    BY <2>1 DEF GoesOn, Importing, NoJob
  <2>4. CASE Same(s)
    BY <2>1, <2>4 DEF Same
  <2>5. CASE Reviewed(s)
    BY <2>5 DEF Reviewed, Counted, ReviewStates
  <2> QED
    BY <2>2, <2>3, <2>4, <2>5, SessionFate DEF Fate
<1> QED
  BY <1>3, <1>4, ReviewFrom

\* A draft keeps its session, so what a tab named stays of the session it named.
LEMMA StaysOf ==
  ASSUME Types, Next, NEW ids, NEW s, \A id \in ids : id \in Nat /\ id < nextId.draft,
         \A d \in drafts : d.id \in ids => d.session = s
  PROVE  \A d \in drafts' : d.id \in ids => d.session = s
<1> SUFFICES ASSUME NEW d \in drafts', d.id \in ids PROVE d.session = s
  OBVIOUS
<1>1. nextId.draft \in Nat
  BY DEF Types, TablesOK, Counter
<1> QED
  BY <1>1, DraftFate

LEMMA PageFrom ==
  ASSUME Types, Next, NEW p \in Tabs
  PROVE  \/ page'[p] = NoPage
         \/ page'[p].session = page[p].session /\ page'[p].ids \subseteq page[p].ids
         \/ \E s \in Sessions : OpenReview(p, s)
<1> DEFINE Goal == \/ page'[p] = NoPage
                   \/ page'[p].session = page[p].session /\ page'[p].ids \subseteq page[p].ids
                   \/ \E s \in Sessions : OpenReview(p, s)
<1>1. ASSUME NEW q \in Tabs, Send(q) PROVE Goal
  BY <1>1 DEF Send, StartUpload, OpenReview, SubmitConfirm, CheckDelete, RemoveImages, Types
<1>2. ASSUME NEW q \in Tabs, DeleteDraftEntry(q) PROVE Goal
  BY <1>2 DEF DeleteDraftEntry, Types
<1>3. ASSUME NEW q \in Tabs, Continue(q), ~ DeleteDraftEntry(q) PROVE UNCHANGED page
  BY <1>3 DEF Continue, SaveImage, RejectImage, CleanupUpload, FinishUpload, EditDraft, RefuseForm, CheckDraft,
              ConfirmDraftEntries, RemoveSession, RequestRefused
<1>4. ASSUME NEW s \in Sessions, JobStep(s) PROVE UNCHANGED page
  BY <1>4 DEF JobStep, JobBegin, JobRead, JobExtract, JobExtractFails, JobSave, JobFinish, JobFail, JobRefused
<1>5. ASSUME UNCHANGED page PROVE Goal
  BY <1>5
<1> HIDE DEF Goal
<1>6. Goal
  BY <1>1, <1>2, <1>3, <1>4, <1>5 DEF Next, Crash
<1> QED
  BY <1>6 DEF Goal

LEMMA FormFrom ==
  ASSUME Types, Next, NEW p \in Tabs
  PROVE  LET r == req[p]  x == req'[p]
         IN  \/ x.op \notin {"edit", "check"}
             \/ r.op \in {"edit", "check"} /\ x.form = r.form /\ x.session = r.session
             \/ DOMAIN x.form \subseteq page[p].ids /\ x.session = page[p].session
<1> DEFINE r == req[p]
           x == req'[p]
           Goal == \/ x.op \notin {"edit", "check"}
                   \/ r.op \in {"edit", "check"} /\ x.form = r.form /\ x.session = r.session
                   \/ DOMAIN x.form \subseteq page[p].ids /\ x.session = page[p].session
<1>1. DOMAIN req = Tabs
  BY DEF Types
<1>2. ASSUME NEW form \in Forms(p), SubmitConfirm(p, form) PROVE Goal
  <2>1. DOMAIN form \subseteq page[p].ids
    BY DEF Forms
  <2>2. x.form = form /\ x.session = page[p].session
    BY <1>1, <1>2 DEF SubmitConfirm
  <2> QED
    BY <2>1, <2>2
<1>3. ASSUME Send(p), \A form \in Forms(p) : ~ SubmitConfirm(p, form) PROVE Goal
  BY <1>1, <1>3 DEF Send, StartUpload, OpenReview, CheckDelete, RemoveImages
<1>4. ASSUME Continue(p) PROVE Goal
  BY <1>1, <1>4 DEF Continue, SaveImage, RejectImage, CleanupUpload, FinishUpload, EditDraft, RefuseForm, CheckDraft,
                    ConfirmDraftEntries, DeleteDraftEntry, RemoveSession, RequestRefused, Respond, Idle
<1>5. ASSUME x = r PROVE Goal
  BY <1>5
<1>6. ASSUME NEW q \in Tabs, Send(q) \/ Continue(q), q # p PROVE x = r
  BY <1>1, <1>6 DEF Send, StartUpload, OpenReview, SubmitConfirm, CheckDelete, RemoveImages, Continue,
                    SaveImage, RejectImage, CleanupUpload, FinishUpload, EditDraft, RefuseForm, CheckDraft,
                    ConfirmDraftEntries, DeleteDraftEntry, RemoveSession, RequestRefused, Respond
<1>7. ASSUME NEW s \in Sessions, JobStep(s) PROVE x = r
  BY <1>7 DEF JobStep, JobBegin, JobRead, JobExtract, JobExtractFails, JobSave, JobFinish, JobFail, JobRefused
<1>8. ASSUME Crash PROVE Goal
  BY <1>8 DEF Crash, Idle
<1> HIDE DEF Goal
<1>9. Goal
  <2> HIDE DEF x, r
  <2> QED BY <1>2, <1>3, <1>4, <1>5, <1>6, <1>7, <1>8 DEF Next
<1> QED
  BY <1>9 DEF Goal

LEMMA NextNamed ==
  ASSUME Types, Named, Next
  PROVE  Named'
<1> SUFFICES ASSUME NEW p \in Tabs PROVE Shown(p)' /\ Sent(p)'
  BY DEF Named
<1>1. \A id \in page[p].ids : id \in Nat /\ id < nextId.draft
  BY DEF Types, PageOK, NoPage
<1>2. \A d \in drafts' : d.id \in page[p].ids => d.session = page[p].session
  BY <1>1, StaysOf DEF Named, Shown
<1>3. Shown(p)'
  <2>1. ASSUME NEW s \in Sessions, OpenReview(p, s) PROVE Shown(p)'
    <3>1. /\ page'[p] = [session |-> s, ids |-> {d.id : d \in {o \in Own(s) : ~ o.confirmed}}]
          /\ UNCHANGED drafts
      BY <2>1 DEF OpenReview, Types
    <3> QED
      BY <3>1 DEF Shown, Own, Types, TablesOK, DraftsOK
  <2> QED
    BY <1>2, <2>1, PageFrom DEF Shown, NoPage
<1>4. Sent(p)'
  <2>1. ASSUME req[p].op \in {"edit", "check"}
        PROVE  \A d \in drafts' : d.id \in DOMAIN req[p].form => d.session = req[p].session
    <3>1. \A id \in DOMAIN req[p].form : id \in Nat /\ id < nextId.draft
      BY <2>1, ReviewShape DEF FormOK
    <3> QED
      BY <2>1, <3>1, StaysOf DEF Named, Sent
  <2> QED
    BY <1>2, <2>1, FormFrom DEF Sent
<1> QED
  BY <1>3, <1>4

\* The entries of a draft are numbered, so an import always makes a new one.
Of(es, id) == {e \in es : e.draft = id}

Numbered == \A e \in entries : e.nth <= Cardinality(Of(entries, e.draft))

LEMMA OfFinite ==
  ASSUME Types, NEW id
  PROVE  IsFiniteSet(Of(entries, id)) /\ Cardinality(Of(entries, id)) \in Nat
<1>1. IsFiniteSet(Of(entries, id))
  BY FS_Subset DEF Types, TablesOK, EntriesOK, Of
<1> QED
  BY <1>1, FS_CardinalityType

LEMMA ImportedAreNew ==
  ASSUME Types, Numbered, NEW ready \in SUBSET drafts, entries' = entries \cup Imported(ready)
  PROVE  /\ entries \subseteq entries'
         /\ \A d \in ready : \E e \in entries' \ entries : /\ e.draft = d.id /\ e.value = d.value
                                                          /\ e.nth = 1 + Cardinality(Of(entries, d.id))
         /\ \A e \in entries' \ entries : \E d \in ready : e.draft = d.id
         /\ \A e, f \in entries' \ entries : e.draft = f.draft => e = f
<1> DEFINE nth(d) == 1 + Cardinality(Of(entries, d.id))
           entry(d) == [draft |-> d.id, value |-> d.value, nth |-> nth(d)]
<1>1. Imported(ready) = {entry(d) : d \in ready}
  BY DEF Imported, Of
<1>2. \A d \in ready : entry(d).draft = d.id /\ entry(d).value = d.value /\ entry(d).nth = nth(d)
  OBVIOUS
<1>3. ASSUME NEW d \in ready PROVE entry(d) \notin entries
  <2>1. nth(d) = 1 + Cardinality(Of(entries, d.id)) /\ Cardinality(Of(entries, d.id)) \in Nat
    BY OfFinite
  <2> HIDE DEF nth, entry
  <2>2. ASSUME entry(d) \in entries PROVE FALSE
    BY <1>2, <2>1, <2>2 DEF Numbered
  <2> QED
    BY <2>2
<1>4. \A d, o \in ready : d.id = o.id => d = o
  BY DEF Types, TablesOK, DraftsOK
<1> HIDE DEF entry
<1>5. \A e \in entries' \ entries : \E d \in ready : e = entry(d)
  BY <1>1
<1>6. \A d \in ready : entry(d) \in entries' \ entries
  BY <1>1, <1>3
<1>7. \A e, f \in entries' \ entries : e.draft = f.draft => e = f
  BY <1>2, <1>4, <1>5
<1> QED
  BY <1>2, <1>5, <1>6, <1>7

LEMMA NextNumbered ==
  ASSUME Types, Numbered, Next
  PROVE  Numbered'
<1>1. CASE UNCHANGED entries
  BY <1>1 DEF Numbered
<1>2. ASSUME NEW ready \in SUBSET drafts, DraftsConfirmed(ready) PROVE Numbered'
  <2> SUFFICES ASSUME NEW e \in entries' PROVE e.nth <= Cardinality(Of(entries', e.draft))
    BY DEF Numbered
  <2>1. entries' = entries \cup Imported(ready) /\ Types'
    BY <1>2, NextTypes DEF DraftsConfirmed
  <2> DEFINE before == Of(entries, e.draft)
             after == Of(entries', e.draft)
  <2>2. IsFiniteSet(before) /\ Cardinality(before) \in Nat
    BY OfFinite
  <2>3. CASE \E d \in ready : d.id = e.draft
    <3>1. PICK d \in ready : d.id = e.draft
      BY <2>3
    <3>2. PICK new \in entries' \ entries : new.draft = e.draft /\ new.nth = 1 + Cardinality(before)
      BY <2>1, <3>1, ImportedAreNew
    <3>3. after = before \cup {new} /\ new \notin before
      <4>1. \A f \in after : f \in before \/ f = new
        BY <2>1, <3>2, ImportedAreNew DEF Of
      <4>2. before \subseteq after /\ new \in after /\ new \notin before
        BY <2>1, <3>2 DEF Of
      <4> QED
        BY <4>1, <4>2
    <3> HIDE DEF before, after
    <3>4. Cardinality(after) = Cardinality(before) + 1
      BY <2>2, <3>3, FS_AddElement
    <3>5. e \in before \/ e = new
      BY <3>3 DEF Of, after
    <3>6. e \in before => e.nth <= Cardinality(before)
      BY DEF Numbered, before, Of
    <3>7. e.nth \in Nat
      BY <2>1 DEF Types, TablesOK, EntriesOK, EntryOK
    <3> QED
      BY <2>2, <3>2, <3>4, <3>5, <3>6, <3>7 DEF after
  <2>4. CASE \A d \in ready : d.id # e.draft
    <3>1. after = before /\ e \in entries
      BY <2>1, <2>4, ImportedAreNew DEF Of
    <3> QED
      BY <3>1 DEF Numbered
  <2> QED
    BY <2>3, <2>4
<1> QED
  BY <1>1, <1>2, DraftSteps DEF DraftsGo, DraftsCome, DraftEdited

RInv == Types /\ AllPassed /\ Apart /\ Vacant /\ Offered /\ Named /\ Numbered

LEMMA InitRInv == Init => RInv
<1> SUFFICES ASSUME Init PROVE RInv
  OBVIOUS
<1>1. AllPassed /\ Vacant /\ Numbered
  BY DEF Init, AllPassed, Passed, Vacant, Numbered, Idle
<1>2. Offered
  BY DEF Init, Offered
<1>3. Named
  BY DEF Init, Named, Shown, Sent, Idle
<1> QED
  BY <1>1, <1>2, <1>3, InitTypes, InitApart DEF RInv

LEMMA NextRInv == RInv /\ [Next]_vars => RInv'
<1>1. ASSUME RInv, Next PROVE RInv'
  BY <1>1, NextTypes, NextPassed, NextApart, NextVacant, NextOffered, NextNamed, NextNumbered DEF RInv
<1>2. ASSUME RInv, UNCHANGED vars PROVE RInv'
  <2>1. Types' /\ AllPassed' /\ Apart'
    BY <1>2, NextTypes, NextPassed, NextApart DEF RInv
  <2>2. Vacant' /\ Offered' /\ Named' /\ Numbered'
    BY <1>2 DEF RInv, vars, Vacant, Offered, Named, Shown, Sent, Importing, Uploading, Reviewing, Numbered
  <2> QED
    BY <2>1, <2>2 DEF RInv
<1> QED
  BY <1>1, <1>2

-----------------------------------------------------------------------------
(* The steps of DraftReview.                                                 *)

\* The forms the tabs have sent, by the definition of sent in Review.
SentForms == [q \in Tabs |-> FormOf(req[q])]

LEMMA FormMoves ==
  ASSUME Types, NEW p \in Tabs, NEW x, req' = [req EXCEPT ![p] = x]
  PROVE  SentForms' = [SentForms EXCEPT ![p] = FormOf(x)]
<1>1. DOMAIN req = Tabs
  BY DEF Types
<1>2. \A q \in Tabs : FormOf(req'[q]) = IF q = p THEN FormOf(x) ELSE FormOf(req[q])
  BY <1>1
<1>3. SentForms' = [q \in Tabs |-> FormOf(req'[q])]
  BY DEF SentForms, FormOf
<1> HIDE DEF FormOf
<1> QED
  BY <1>2, <1>3 DEF SentForms

\* A request that has no form before and after, or keeps its form.
LEMMA FormStays ==
  ASSUME Types, NEW p \in Tabs, NEW x, req' = [req EXCEPT ![p] = x], FormOf(x) = FormOf(req[p])
  PROVE  SentForms' = SentForms
<1> HIDE DEF FormOf
<1> QED
  BY FormMoves DEF SentForms

LEMMA SameForms == ASSUME UNCHANGED req PROVE SentForms' = SentForms
BY DEF SentForms, FormOf

LEMMA ReviewUnchanged ==
  ASSUME DOMAIN state' = DOMAIN state,
         \A s \in DOMAIN state : \/ state'[s] = state[s]
                                 \/ state'[s] \notin ReviewStates /\ state[s] \notin ReviewStates,
         UNCHANGED <<drafts, entries, nextId.draft>>, SentForms' = SentForms
  PROVE  UNCHANGED Review!vars
<1>1. ReviewStatus' = ReviewStatus
  BY DEF ReviewStatus
<1> QED
  BY <1>1 DEF Review!vars, SentForms

LEMMA NothingReviewed ==
  ASSUME UNCHANGED <<state, drafts, entries, nextId.draft>>, SentForms' = SentForms
  PROVE  UNCHANGED Review!vars
BY ReviewUnchanged

\* The form of one tab, or of all, is gone, and nothing else happened.
LEMMA FormsLost ==
  ASSUME UNCHANGED <<state, drafts, entries, nextId.draft>>, NEW tabs \in SUBSET Tabs,
         SentForms' = [q \in Tabs |-> IF q \in tabs THEN FormOf(Idle) ELSE SentForms[q]]
  PROVE  [Review!Next]_(Review!vars)
<1>1. ReviewStatus' = ReviewStatus
  BY DEF ReviewStatus
<1>2. FormOf(Idle) = Review!Nothing
  BY DEF FormOf, Idle, Review!Nothing
<1>3. Review!Lose(tabs)
  BY <1>1, <1>2 DEF Review!Lose, SentForms
<1> QED
  BY <1>3 DEF Review!Next

LEMMA FormLost ==
  ASSUME Types, NEW p \in Tabs, Respond(p), UNCHANGED <<state, drafts, entries, nextId.draft>>
  PROVE  [Review!Next]_(Review!vars)
<1>1. SentForms' = [SentForms EXCEPT ![p] = FormOf(Idle)]
  BY FormMoves DEF Respond
<1>2. SentForms' = [q \in Tabs |-> IF q \in {p} THEN FormOf(Idle) ELSE SentForms[q]]
  BY <1>1 DEF SentForms
<1> QED
  BY <1>2, FormsLost

\* A session whose import goes on is waiting.
LEMMA ImportWaits ==
  ASSUME RInv, NEW s \in DOMAIN state, Importing(s)
  PROVE  state[s] \notin ReviewStates /\ ~ SomeConf(s)
BY DEF RInv, Apart, Unreviewed, Phase, ReviewStates

LEMMA ImportWrites ==
  ASSUME RInv, NEW s \in Sessions, Importing(s), NEW to, to \notin ReviewStates, SetState(s, to),
         UNCHANGED <<drafts, entries, nextId>>, SentForms' = SentForms
  PROVE  UNCHANGED Review!vars
<1>1. DOMAIN state' = DOMAIN state
  BY DEF SetState
<1>2. ASSUME NEW t \in DOMAIN state
      PROVE  state'[t] = state[t] \/ (state'[t] \notin ReviewStates /\ state[t] \notin ReviewStates)
  BY <1>2, ImportWaits DEF SetState
<1> QED
  BY <1>1, <1>2, ReviewUnchanged

LEMMA RecountSteps ==
  ASSUME NEW s, NEW to \in ReviewStates, SetState(s, to),
         to = Review!Status({d \in drafts' : d.session = s})
  PROVE  Review!Recount(s)
<1>1. DOMAIN state' = DOMAIN state /\ DOMAIN ReviewStatus = DOMAIN state
  BY DEF SetState, ReviewStatus
<1>2. ReviewStatus' = [t \in DOMAIN state |-> IF state'[t] \in ReviewStates THEN state'[t] ELSE "waiting"]
  BY <1>1 DEF ReviewStatus
<1>3. ASSUME NEW t \in DOMAIN state
      PROVE  (IF state'[t] \in ReviewStates THEN state'[t] ELSE "waiting")
               = IF t = s THEN to ELSE ReviewStatus[t]
  BY DEF SetState, ReviewStatus
<1>4. [t \in DOMAIN state |-> IF state'[t] \in ReviewStates THEN state'[t] ELSE "waiting"]
        = [t \in DOMAIN state |-> IF t = s THEN to ELSE ReviewStatus[t]]
  BY <1>3
<1> QED
  BY <1>1, <1>2, <1>4 DEF Review!Recount

LEMMA StatusIs ==
  ASSUME NEW ds
  PROVE  /\ Review!Status(ds) \in ReviewStates
         /\ (\E d \in ds : d.confirmed)
              => Review!Status(ds) = IF \A d \in ds : d.confirmed THEN "confirmed" ELSE "confirmed_part"
         /\ (\A d \in ds : ~ d.confirmed) => Review!Status(ds) = "review_ready"
BY DEF Review!Status, ReviewStates

LEMMA OfferedReviewable ==
  ASSUME RInv, NEW p \in Tabs, NEW s \in Sessions, Reviewing(p, s)
  PROVE  Review!Reviewable(s)
BY DEF RInv, Offered, Review!Reviewable, ReviewStatus, ReviewStates

LEMMA DropIsClose ==
  ASSUME RInv, NEW s \in Sessions, DropSession(s), UNCHANGED <<entries, nextId>>, SentForms' = SentForms
  PROVE  [Review!Next]_(Review!vars)
<1>1. CASE s \in DOMAIN state
  <2>1. DOMAIN ReviewStatus = DOMAIN state /\ DOMAIN state' = DOMAIN state \ {s}
    BY DEF DropSession, ReviewStatus
  <2>2. ReviewStatus' = [t \in DOMAIN state \ {s} |-> ReviewStatus[t]]
    BY <2>1 DEF DropSession, ReviewStatus
  <2>3. drafts' \in {drafts, drafts \ Review!Of(s)}
    BY DEF DropSession, Own, Review!Of
  <2> QED
    BY <1>1, <2>1, <2>2, <2>3 DEF Review!Close, Review!Next, SentForms
<1>2. CASE s \notin DOMAIN state
  <2>1. DOMAIN state' = DOMAIN state /\ \A t \in DOMAIN state : state'[t] = state[t]
    BY <1>2 DEF DropSession
  <2>2. UNCHANGED drafts
    BY <1>2 DEF DropSession
  <2> QED
    BY <2>1, <2>2, ReviewUnchanged
<1> QED
  BY <1>1, <1>2

LEMMA StartIsOpen ==
  ASSUME RInv, NEW p \in Tabs, NEW kinds \in Uploads, StartUpload(p, kinds)
  PROVE  [Review!Next]_(Review!vars)
<1> DEFINE s == nextId.session
<1>1. s \in Sessions /\ ~ s < nextId.session
  BY DEF StartUpload, RInv, Types, TablesOK, Counter, Sessions
<1>2. s \notin DOMAIN state /\ \A d \in drafts : d.session # s
  BY <1>1 DEF RInv, Types, TablesOK, StatesOK, DraftsOK, DraftOK
<1>3. /\ state' = [t \in DOMAIN state \cup {s} |-> IF t = s THEN "uploaded" ELSE state[t]]
      /\ UNCHANGED <<drafts, entries>> /\ nextId'.draft = nextId.draft
  BY DEF StartUpload, RInv, Types, TablesOK, Counter
<1> HIDE DEF s
<1>4. DOMAIN ReviewStatus = DOMAIN state /\ DOMAIN state' = DOMAIN state \cup {s}
  BY <1>3 DEF ReviewStatus
<1>5. ReviewStatus' = [t \in DOMAIN state \cup {s} |-> IF t = s THEN "waiting" ELSE ReviewStatus[t]]
  BY <1>3, <1>4 DEF ReviewStatus, ReviewStates
<1>6. SentForms' = SentForms
  <2>1. req' = [req EXCEPT ![p] = [op |-> "upload", session |-> nextId.session, left |-> kinds, saved |-> 0]]
        /\ req[p].op = "idle"
    BY DEF StartUpload, Running
  <2> QED
    BY <2>1, FormStays DEF FormOf, RInv
<1>7. Review!Open(s)
  BY <1>2, <1>3, <1>4, <1>5, <1>6 DEF Review!Open, Review!Of, SentForms
<1> QED
  BY <1>1, <1>7 DEF Review!Next

LEMMA JobReviewSteps ==
  ASSUME RInv, NEW s \in Sessions, JobStep(s)
  PROVE  [Review!Next]_(Review!vars)
<1>0. SentForms' = SentForms
  BY SameForms DEF JobStep, JobBegin, JobRead, JobExtract, JobExtractFails, JobSave, JobFinish, JobFail,
                   JobRefused
<1>1. ASSUME JobRead(s) \/ JobExtract(s) \/ JobExtractFails(s) \/ JobRefused(s) PROVE UNCHANGED Review!vars
  BY <1>0, <1>1, NothingReviewed DEF JobRead, JobExtract, JobExtractFails, JobRefused
<1>2. ASSUME JobBegin(s) \/ JobFail(s) PROVE UNCHANGED Review!vars
  <2>1. Importing(s)
    BY <1>2 DEF JobBegin, JobFail, Importing, NoJob
  <2>2. "processing" \notin ReviewStates /\ "failed" \notin ReviewStates
    BY DEF ReviewStates
  <2> QED
    BY <1>0, <1>2, <2>1, <2>2, ImportWrites DEF JobBegin, JobFail
<1>3. ASSUME JobFinish(s) PROVE Review!Offer(s) \/ UNCHANGED Review!vars
  <2>1. Importing(s) /\ SetState(s, "review_ready") /\ UNCHANGED <<drafts, entries, nextId>>
    BY <1>3 DEF JobFinish, Importing, NoJob
  <2>2. CASE s \in DOMAIN state
    <3>1. ReviewStatus[s] = "waiting" /\ ~ SomeConf(s)
      BY <2>1, <2>2, ImportWaits DEF ReviewStatus
    <3>2. Review!Status({d \in drafts' : d.session = s}) = "review_ready"
      BY <2>1, <3>1, StatusIs DEF SomeConf
    <3>3. Review!Recount(s)
      BY <2>1, <3>2, RecountSteps DEF ReviewStates
    <3> QED
      BY <1>0, <2>1, <2>2, <3>1, <3>2, <3>3 DEF Review!Offer, ReviewStatus, SentForms
  <2>3. CASE s \notin DOMAIN state
    <3>1. DOMAIN state' = DOMAIN state /\ \A t \in DOMAIN state : state'[t] = state[t]
      BY <2>1, <2>3 DEF SetState
    <3> QED
      BY <1>0, <2>1, <3>1, ReviewUnchanged
  <2> QED
    BY <2>2, <2>3
<1>4. ASSUME JobSave(s) PROVE Review!Extract(s) \/ UNCHANGED Review!vars
  <2> DEFINE found == job[s].found
             new == NewDrafts(s, found)
  <2>1. found \in Seq(Contents) /\ Importing(s) /\ job[s].at # "finishing"
    BY <1>4, JobShape DEF JobSave, RInv, Importing, NoJob
  <2>2. \A d \in drafts : d.session # s
    BY <2>1 DEF RInv, Vacant
  <2>3. s \in DOMAIN ReviewStatus => ReviewStatus[s] = "waiting"
    BY <2>1, ImportWaits DEF ReviewStatus
  <2>4. CASE UNCHANGED <<drafts, nextId>>
    BY <1>0, <1>4, <2>4, NothingReviewed DEF JobSave
  <2>5. CASE /\ drafts' = (drafts \ Own(s)) \cup new
             /\ nextId' = [nextId EXCEPT !.draft = @ + Len(found)]
    <3>1. nextId.draft \in Nat \ {0} /\ Len(found) \in Nat /\ nextId'.draft = nextId.draft + Len(found)
      BY <2>1, <2>5 DEF RInv, Types, TablesOK, Counter
    <3>2. \A n \in 1 .. Len(found) : found[n] \in Contents
      BY <2>1
    <3>3. drafts' = drafts \cup new
      BY <2>2, <2>5 DEF Own
    <3> HIDE DEF found
    <3>4. \A d \in new : /\ d = [id |-> d.id, session |-> s, value |-> d.value, confirmed |-> FALSE]
                         /\ d.value \in Contents
                         /\ \E n \in 1 .. Len(found) : d.id = nextId.draft + n - 1 /\ d.value = found[n]
      BY <3>2 DEF NewDrafts
    <3>5. \A n \in 1 .. Len(found) :
            \E d \in new : d.id = nextId.draft + n - 1
      <4> SUFFICES ASSUME NEW n \in 1 .. Len(found) PROVE \E d \in new : d.id = nextId.draft + n - 1
        OBVIOUS
      <4> DEFINE x == [id |-> nextId.draft + n - 1, session |-> s, value |-> found[n], confirmed |-> FALSE]
      <4>1. x \in new /\ x.id = nextId.draft + n - 1
        BY DEF NewDrafts
      <4> QED
        BY <4>1
    <3> HIDE DEF new
    <3>6. drafts' \ drafts = new
      BY <2>2, <3>3, <3>4
    <3>7. {d.id : d \in new} = nextId.draft .. nextId'.draft - 1
      <4>1. ASSUME NEW d \in new PROVE d.id \in nextId.draft .. nextId'.draft - 1
        BY <3>1, <3>4
      <4>2. ASSUME NEW i \in nextId.draft .. nextId'.draft - 1 PROVE \E d \in new : d.id = i
        <5>1. i - nextId.draft + 1 \in 1 .. Len(found)
          BY <3>1
        <5>2. nextId.draft + (i - nextId.draft + 1) - 1 = i
          BY <3>1
        <5> QED
          BY <3>5, <5>1, <5>2
      <4> QED
        BY <4>1, <4>2
    <3>8. \A d, o \in new : d.id = o.id => d = o
      <4> SUFFICES ASSUME NEW d \in new, NEW o \in new, d.id = o.id PROVE d = o
        OBVIOUS
      <4>1. PICK n \in 1 .. Len(found) : d.id = nextId.draft + n - 1 /\ d.value = found[n]
        BY <3>4
      <4>2. PICK m \in 1 .. Len(found) : o.id = nextId.draft + m - 1 /\ o.value = found[m]
        BY <3>4
      <4>3. n = m
        <5>1. nextId.draft + n - 1 = nextId.draft + m - 1
          BY <4>1, <4>2
        <5> QED
          BY <3>1, <5>1
      <4> QED
        BY <3>4, <4>1, <4>2, <4>3
    <3>9. ReviewStatus' = ReviewStatus /\ UNCHANGED entries /\ SentForms' = SentForms
      BY <1>0, <1>4 DEF JobSave, ReviewStatus
    <3> QED
      BY <2>2, <2>3, <3>3, <3>4, <3>6, <3>7, <3>8, <3>9 DEF Review!Extract, Review!Of, Contents, SentForms
  <2> QED
    BY <1>4, <2>4, <2>5 DEF JobSave
<1> QED
  BY <1>1, <1>2, <1>3, <1>4 DEF JobStep, Review!Next

LEMMA EditIsEdit ==
  ASSUME RInv, NEW p \in Tabs, EditDraft(p)
  PROVE  [Review!Next]_(Review!vars)
<1> DEFINE r == req[p]
<1>1. PICK id \in r.todo : r.form[id] # Blank /\ drafts' = Edited(id, r.form[id])
  BY DEF EditDraft, Edited
<1>2. r.op = "edit" /\ UNCHANGED <<state, entries, nextId>>
  BY DEF EditDraft
<1>0. SentForms' = SentForms
  <2>1. PICK i \in r.todo :
          req' = [req EXCEPT ![p] = [op |-> "check", session |-> r.session, form |-> r.form,
                                     todo |-> r.todo, id |-> i]]
    BY DEF EditDraft
  <2> QED
    BY <1>2, <2>1, FormStays DEF FormOf, RInv
<1>3. r.session \in Sessions /\ id \in DOMAIN r.form /\ r.form[id] \in Values /\ Reviewing(p, r.session)
  BY <1>1, <1>2, ReviewShape DEF RInv, FormOK, Contents, Reviewing
<1>4. CASE \A d \in drafts : d.id # id
  <2>1. drafts' = drafts
    BY <1>1, <1>4 DEF Edited
  <2> QED
    BY <1>0, <1>2, <2>1, NothingReviewed
<1>5. ASSUME NEW d \in drafts, d.id = id PROVE Review!Edit(p, d)
  <2>1. \A o \in drafts : o.id = id <=> o = d
    BY <1>5 DEF RInv, Types, TablesOK, DraftsOK
  <2>2. d.session = r.session
    BY <1>2, <1>3, <1>5 DEF RInv, Named, Sent
  <2> DEFINE v == r.form[id]
             x == [d EXCEPT !.value = v]
  <2> HIDE DEF v
  <2>3. drafts' = (drafts \ {d}) \cup {x}
    BY <1>1, <2>1 DEF Edited, v
  <2>4. Review!Reviewable(d.session)
    BY <1>3, <2>2, OfferedReviewable
  <2>5. ReviewStatus' = ReviewStatus
    BY <1>2 DEF ReviewStatus
  <2>6. SentForms[p] = [session |-> r.session, form |-> r.form]
    BY <1>2 DEF SentForms, FormOf
  <2> QED
    BY <1>0, <1>2, <1>3, <1>5, <2>2, <2>3, <2>4, <2>5, <2>6 DEF Review!Edit, v, SentForms
<1> QED
  BY <1>4, <1>5 DEF Review!Next

\* The loop let every draft of the form pass: the transaction takes them all.
LEMMA ConfirmIsImport ==
  ASSUME RInv, NEW p \in Tabs, ConfirmDraftEntries(p)
  PROVE  [Review!Next]_(Review!vars)
<1> DEFINE r     == req[p]
           s     == r.session
           ready == {d \in drafts : d.id \in DOMAIN r.form /\ d.value # Blank}
<1>1. r.op = "edit" /\ r.todo = {} /\ UNCHANGED nextId
  BY DEF ConfirmDraftEntries
<1>2. s \in Sessions /\ DOMAIN r.form # {} /\ Reviewing(p, s)
  BY <1>1, ReviewShape DEF RInv, FormOK, Reviewing
<1>3. CASE ~ \A id \in DOMAIN r.form : \E d \in Own(s) : d.id = id
  BY <1>1, <1>3, FormLost DEF ConfirmDraftEntries, RInv
<1>4. CASE \A id \in DOMAIN r.form : \E d \in Own(s) : d.id = id
  <2>1. /\ entries' = entries \cup Imported(ready)
        /\ drafts' = Confirmed(ready)
        /\ SetState(s, IF \A d \in drafts' : d.session = s => d.confirmed THEN "confirmed" ELSE "confirmed_part")
    BY <1>4 DEF ConfirmDraftEntries, Confirmed
  <2>2. ready \subseteq Own(s) /\ ready # {} /\ \A d \in ready : d.value # Blank
    <3>1. \A d \in drafts : d.id \in DOMAIN r.form => d.session = s
      BY <1>1 DEF RInv, Named, Sent
    <3>2. \A d \in drafts : d.id \in DOMAIN r.form => d.value # Blank
      BY <1>1 DEF RInv, AllPassed, Passed
    <3>3. PICK id \in DOMAIN r.form : TRUE
      BY <1>2
    <3>4. PICK d \in Own(s) : d.id = id
      BY <1>4
    <3>5. d \in ready
      BY <3>2, <3>4 DEF Own
    <3>6. ready \subseteq Own(s)
      BY <3>1 DEF Own
    <3> QED
      BY <3>5, <3>6
  <2>7. \A d \in Own(s) : d.id \in DOMAIN r.form => d \in ready
    BY <1>1 DEF RInv, AllPassed, Passed, Own
  <2>8. \A d \in ready : d.id \in DOMAIN r.form
    OBVIOUS
  <2> HIDE DEF ready
  <2> DEFINE left == {d \in drafts' : d.session = s}
  <2>3. \E d \in left : d.confirmed
    <3>1. PICK d \in ready : d.session = s /\ d \in drafts
      BY <2>2 DEF Own
    <3> DEFINE x == [d EXCEPT !.confirmed = TRUE]
    <3>2. x.session = s /\ x.confirmed
      BY <3>1 DEF RInv, Types, TablesOK, DraftsOK, DraftOK
    <3>3. x \in drafts'
      BY <2>1 DEF Confirmed
    <3> HIDE DEF x
    <3> QED
      BY <3>2, <3>3
  <2>4. Review!Status(left) = IF \A d \in drafts' : d.session = s => d.confirmed
                              THEN "confirmed" ELSE "confirmed_part"
    <3>1. (\A d \in left : d.confirmed) <=> \A d \in drafts' : d.session = s => d.confirmed
      OBVIOUS
    <3> HIDE DEF left
    <3> QED
      BY <2>3, <3>1, StatusIs
  <2>5. Review!Recount(s)
    <3> DEFINE to == IF \A d \in drafts' : d.session = s => d.confirmed THEN "confirmed" ELSE "confirmed_part"
    <3>1. to \in ReviewStates
      BY DEF ReviewStates
    <3>2. SetState(s, to) /\ to = Review!Status({d \in drafts' : d.session = s})
      BY <2>1, <2>4
    <3> HIDE DEF to
    <3> QED
      BY <3>1, <3>2, RecountSteps
  <2>6. Review!Import(p)
    <3>1. Review!Reviewable(s)
      BY <1>2, OfferedReviewable
    <3>2. nextId'.draft = nextId.draft
      BY <1>1
    <3>3. drafts' = (drafts \ ready) \cup {[d EXCEPT !.confirmed = TRUE] : d \in ready}
      BY <2>1 DEF Confirmed
    <3>4. /\ entries \subseteq entries'
          /\ \A d \in ready : \E e \in entries' \ entries : e.draft = d.id /\ e.value = d.value
          /\ \A e \in entries' \ entries : \E d \in ready : e.draft = d.id
          /\ \A e, f \in entries' \ entries : e.draft = f.draft => e = f
      <4>1. Types /\ Numbered /\ ready \in SUBSET drafts
        BY <2>2 DEF RInv, Own
      <4> QED
        BY <2>1, <4>1, ImportedAreNew
    <3>5. SentForms[p] = [session |-> s, form |-> r.form]
      BY <1>1 DEF SentForms, FormOf
    <3>6. SentForms' = [SentForms EXCEPT ![p] = Review!Nothing]
      <4>1. SentForms' = [SentForms EXCEPT ![p] = FormOf(Idle)]
        BY FormMoves DEF ConfirmDraftEntries, Respond, RInv
      <4> QED
        BY <4>1 DEF FormOf, Idle, Review!Nothing
    <3>7. ready = {d \in Review!Of(s) : d.id \in DOMAIN r.form}
      BY <2>2, <2>7, <2>8 DEF Review!Of, Own
    <3>8. \A id \in DOMAIN r.form : \E d \in ready : d.id = id
      BY <1>4, <3>7 DEF Review!Of, Own
    <3> HIDE DEF s, r
    <3> QED
      BY <1>2, <2>2, <2>5, <3>1, <3>2, <3>3, <3>4, <3>5, <3>6, <3>7, <3>8 DEF Review!Import, SentForms
  <2> QED
    BY <2>6 DEF Review!Next
<1> QED
  BY <1>3, <1>4

LEMMA DeleteIsDiscard ==
  ASSUME RInv, NEW p \in Tabs, DeleteDraftEntry(p)
  PROVE  [Review!Next]_(Review!vars)
<1> DEFINE r    == req[p]
           s    == r.session
           gone == {d \in Own(s) : d.id = r.id /\ ~ d.confirmed}
           left == Own(s) \ gone
<1>1. r.op = "delete" /\ drafts' = drafts \ gone /\ UNCHANGED <<entries, nextId>>
  BY DEF DeleteDraftEntry
<1>2. s \in Sessions /\ Reviewing(p, s)
  BY <1>1, ReviewShape DEF RInv, Reviewing
<1>0. SentForms' = SentForms
  BY <1>1, FormStays DEF DeleteDraftEntry, Respond, FormOf, Idle, RInv
<1>3. CASE gone = {}
  BY <1>0, <1>1, <1>3, NothingReviewed DEF DeleteDraftEntry
<1>4. ASSUME NEW d \in gone PROVE Review!Discard(d) /\ d \in drafts
  <2>1. d \in drafts /\ d.session = s /\ ~ d.confirmed /\ d.id = r.id
    BY <1>4 DEF Own
  <2>2. gone = {d}
    BY <1>4, <2>1 DEF Own, RInv, Types, TablesOK, DraftsOK
  <2>3. SetState(s, IF left # {} /\ \A o \in left : o.confirmed THEN "confirmed"
                    ELSE IF \E o \in left : o.confirmed THEN "confirmed_part" ELSE "review_ready")
    BY <2>2 DEF DeleteDraftEntry
  <2>4. left = {o \in drafts' : o.session = s}
    BY <1>1 DEF Own
  <2> HIDE DEF gone, left
  <2>5. SetState(s, Review!Status(left))
    BY <2>3 DEF Review!Status
  <2>6. Review!Recount(s)
    <3> DEFINE to == Review!Status(left)
    <3>1. to \in ReviewStates
      BY StatusIs
    <3>2. SetState(s, to) /\ to = Review!Status({o \in drafts' : o.session = s})
      BY <2>4, <2>5
    <3> HIDE DEF to
    <3> QED
      BY <3>1, <3>2, RecountSteps
  <2>7. Review!Reviewable(d.session)
    BY <1>2, <2>1, OfferedReviewable
  <2> QED
    BY <1>0, <1>1, <2>1, <2>2, <2>6, <2>7 DEF Review!Discard, SentForms
<1> QED
  BY <1>3, <1>4 DEF Review!Next

\* A tab sends a form.
LEMMA SubmitIsSubmit ==
  ASSUME RInv, NEW p \in Tabs, NEW form, SubmitConfirm(p, form)
  PROVE  [Review!Next]_(Review!vars)
<1> DEFINE x == [op |-> "edit", session |-> page[p].session, form |-> form, todo |-> DOMAIN form]
<1>1. req[p].op = "idle" /\ req' = [req EXCEPT ![p] = x] /\ UNCHANGED <<state, drafts, entries, nextId>>
  BY DEF SubmitConfirm, Running
<1>2. SentForms' = [SentForms EXCEPT ![p] = FormOf(x)] /\ SentForms[p] = Review!Nothing
  BY <1>1, FormMoves DEF RInv, SentForms, FormOf, Review!Nothing
<1> HIDE DEF x
<1>3. SentForms' = [SentForms EXCEPT ![p] = SentForms'[p]]
  BY <1>2 DEF SentForms
<1>4. ReviewStatus' = ReviewStatus
  BY <1>1 DEF ReviewStatus
<1>5. Review!Submit(p)
  BY <1>1, <1>2, <1>3, <1>4 DEF Review!Submit, SentForms
<1> QED
  BY <1>5 DEF Review!Next

\* The steps of a handler that has no form, or keeps it, and writes nothing of it.
LEMMA PlainReviewSteps ==
  ASSUME RInv, NEW p \in Tabs,
         \/ \E s \in Sessions : OpenReview(p, s) \/ RemoveImages(p, s)
         \/ \E id \in page[p].ids : CheckDelete(p, id)
         \/ SaveImage(p) \/ RejectImage(p)
  PROVE  UNCHANGED Review!vars
<1>1. UNCHANGED <<state, drafts, entries, nextId>>
  BY DEF OpenReview, RemoveImages, CheckDelete, SaveImage, RejectImage
<1>2. CASE UNCHANGED req
  BY <1>1, <1>2, SameForms, NothingReviewed
<1>3. ASSUME NEW x, req' = [req EXCEPT ![p] = x], FormOf(x) = FormOf(req[p])
      PROVE  UNCHANGED Review!vars
  BY <1>1, <1>3, FormStays, NothingReviewed DEF RInv
<1>4. ASSUME NEW s \in Sessions, RemoveImages(p, s) PROVE UNCHANGED Review!vars
  <2>1. req' = [req EXCEPT ![p] = RemoveReq(s)] /\ req[p].op = "idle"
    BY <1>4 DEF RemoveImages, Running, RemoveReq
  <2> QED
    BY <1>3, <2>1 DEF FormOf, RemoveReq
<1>5. ASSUME NEW id \in page[p].ids, CheckDelete(p, id) PROVE UNCHANGED Review!vars
  <2>1. /\ req[p].op = "idle"
        /\ req' = req \/ req' = [req EXCEPT ![p] = DeleteReq(page[p].session, id)]
    BY <1>5 DEF CheckDelete, Running, DeleteReq
  <2> QED
    BY <1>2, <1>3, <2>1 DEF FormOf, DeleteReq
<1>6. ASSUME SaveImage(p) \/ RejectImage(p) PROVE UNCHANGED Review!vars
  <2>1. req[p].op = "upload"
    BY <1>6 DEF SaveImage, RejectImage
  <2>2. \E x : req' = [req EXCEPT ![p] = x] /\ x.op \in {"upload", "cleanup"}
    BY <1>6 DEF SaveImage, RejectImage
  <2> QED
    BY <1>3, <2>1, <2>2 DEF FormOf
<1> QED
  BY <1>2, <1>4, <1>5, <1>6 DEF OpenReview

\* The handler of a form refuses it, or goes on to its next draft.
LEMMA FormReviewSteps ==
  ASSUME RInv, NEW p \in Tabs, RefuseForm(p) \/ CheckDraft(p) \/ RequestRefused(p)
  PROVE  [Review!Next]_(Review!vars)
<1>1. UNCHANGED <<state, drafts, entries, nextId>>
  BY DEF RefuseForm, CheckDraft, RequestRefused
<1>2. CASE Respond(p)
  BY <1>1, <1>2, FormLost DEF RInv
<1>3. ASSUME CheckDraft(p), ~ Respond(p) PROVE UNCHANGED Review!vars
  <2>1. req[p].op = "check"
    BY <1>3 DEF CheckDraft
  <2>2. req' = [req EXCEPT ![p] = EditReq(req[p].session, req[p].form, req[p].todo \ {req[p].id})]
    BY <1>3 DEF CheckDraft, EditReq
  <2>3. SentForms' = SentForms
    BY <2>1, <2>2, FormStays DEF FormOf, EditReq, RInv
  <2> QED
    BY <1>1, <2>3, NothingReviewed
<1>4. ASSUME RequestRefused(p), ~ Respond(p) PROVE UNCHANGED Review!vars
  <2>1. req[p].op = "upload" /\ req' = [req EXCEPT ![p] = CleanupReq(req[p].session, req[p].saved)]
    BY <1>4 DEF RequestRefused, CleanupReq
  <2>2. SentForms' = SentForms
    BY <2>1, FormStays DEF FormOf, CleanupReq, RInv
  <2> QED
    BY <1>1, <2>2, NothingReviewed
<1> QED
  BY <1>2, <1>3, <1>4 DEF RefuseForm

LEMMA TabReviewSteps ==
  ASSUME RInv, NEW p \in Tabs, Send(p) \/ Continue(p)
  PROVE  [Review!Next]_(Review!vars)
<1>1. ASSUME req[p].op \notin {"edit", "check"}, Respond(p) PROVE SentForms' = SentForms
  BY <1>1, FormStays DEF Respond, FormOf, Idle, RInv
<1>2. ASSUME CleanupUpload(p) PROVE [Review!Next]_(Review!vars)
  <2>1. req[p].session \in Sessions /\ UNCHANGED <<entries, nextId>> /\ SentForms' = SentForms
    BY <1>1, <1>2, UploadShape DEF CleanupUpload, RInv
  <2>2. CASE DropSession(req[p].session)
    BY <2>1, <2>2, DropIsClose
  <2>3. CASE UNCHANGED <<state, images, drafts>>
    BY <2>1, <2>3, NothingReviewed
  <2> QED
    BY <1>2, <2>2, <2>3 DEF CleanupUpload
<1>3. ASSUME RemoveSession(p) PROVE [Review!Next]_(Review!vars)
  <2>1. /\ req[p].session \in Sessions /\ DropSession(req[p].session) /\ UNCHANGED <<entries, nextId>>
        /\ SentForms' = SentForms
    BY <1>1, <1>3, ReviewShape DEF RemoveSession, RInv
  <2> QED
    BY <2>1, DropIsClose
<1>4. ASSUME FinishUpload(p) PROVE UNCHANGED Review!vars
  <2>1. /\ req[p].session \in Sessions /\ SetState(req[p].session, "uploaded")
        /\ UNCHANGED <<drafts, entries, nextId>> /\ SentForms' = SentForms
    BY <1>1, <1>4, UploadShape DEF FinishUpload, RInv
  <2>2. Importing(req[p].session)
    BY <1>4 DEF FinishUpload, Importing, Uploading
  <2>3. "uploaded" \notin ReviewStates
    BY DEF ReviewStates
  <2> QED
    BY <2>1, <2>2, <2>3, ImportWrites
<1> QED
  BY <1>2, <1>3, <1>4, PlainReviewSteps, FormReviewSteps, SubmitIsSubmit, StartIsOpen, EditIsEdit,
     ConfirmIsImport, DeleteIsDiscard DEF Send, Continue

LEMMA NextImplementsReview == RInv /\ [Next]_vars => [Review!Next]_(Review!vars)
<1> SUFFICES ASSUME RInv, [Next]_vars PROVE [Review!Next]_(Review!vars)
  OBVIOUS
<1>1. ASSUME UNCHANGED vars PROVE UNCHANGED Review!vars
  BY <1>1, SameForms, NothingReviewed DEF vars
<1>2. ASSUME Crash PROVE [Review!Next]_(Review!vars)
  <2>1. UNCHANGED <<state, drafts, entries, nextId>> /\ req' = [p \in Tabs |-> Idle]
    BY <1>2 DEF Crash
  <2>2. SentForms' = [q \in Tabs |-> IF q \in Tabs THEN FormOf(Idle) ELSE SentForms[q]]
    BY <2>1 DEF SentForms, FormOf
  <2> QED
    BY <2>1, <2>2, FormsLost
<1> QED
  BY <1>1, <1>2, TabReviewSteps, JobReviewSteps DEF Next

\* However many tabs review, with jobs, refused statements and crashes between
\* any two statements, drafts are extracted before anybody reviews them, the drafts
\* of a form are imported all together or not at all, and a draft is discarded only
\* while it is not imported.
THEOREM ImportImplementsReview == Spec => ImplementsReview
<1>1. Init => Review!Init
  <2> SUFFICES ASSUME Init PROVE Review!Init
    OBVIOUS
  <2>1. [p \in Tabs |-> FormOf(req[p])] = [p \in Tabs |-> Review!Nothing]
    BY DEF Init, FormOf, Idle, Review!Nothing
  <2> QED
    BY <2>1 DEF Init, Review!Init, ReviewStatus
<1> QED
  BY <1>1, InitRInv, NextRInv, NextImplementsReview, PTL DEF Spec, ImplementsReview, Review!Spec

-----------------------------------------------------------------------------
(* The files of the image rows.                                              *)

\* A tab removes the files of s, or is about to remove its row.
Clears(p, s) == req[p].op \in {"remove", "cleanup"} /\ req[p].session = s

OnDisk ==
  \A i \in images :
    /\ i.session < nextId.session /\ i.path.session = i.session
    /\ ~ faulty /\ i.session \in DOMAIN state /\ (\A p \in Tabs : ~ Clears(p, i.session))
         => i.path \in files

\* Rows that stay lose their file only while somebody clears their session.
LEMMA FilesKeep ==
  ASSUME OnDisk, UNCHANGED <<faulty, nextId>>, images' \subseteq images,
         \A i \in images' :
           ~ faulty /\ i.session \in DOMAIN state' /\ (\A p \in Tabs : ~ Clears(p, i.session)')
             => /\ i.session \in DOMAIN state /\ (\A p \in Tabs : ~ Clears(p, i.session))
                /\ i.path \in files => i.path \in files'
  PROVE  OnDisk'
<1> SUFFICES ASSUME NEW i \in images'
             PROVE  /\ i.session < nextId.session /\ i.path.session = i.session
                    /\ (~ faulty /\ i.session \in DOMAIN state' /\ (\A p \in Tabs : ~ Clears(p, i.session)')
                          => i.path \in files')
  BY DEF OnDisk
<1>1. i \in images
  OBVIOUS
<1> QED
  BY <1>1, Zenon DEF OnDisk

LEMMA UploadOnDisk ==
  ASSUME Types, OnDisk, UNCHANGED faulty, NEW p \in Tabs,
         \/ \E kinds \in Uploads : StartUpload(p, kinds)
         \/ SaveImage(p) \/ RejectImage(p)
  PROVE  OnDisk'
<1>1. ASSUME NEW kinds \in Uploads, StartUpload(p, kinds) PROVE OnDisk'
  <2>1. /\ UNCHANGED <<images, files>> /\ DOMAIN state' = DOMAIN state \cup {nextId.session}
        /\ nextId' = [nextId EXCEPT !.session = @ + 1]
    BY <1>1 DEF StartUpload
  <2>2. \A q \in Tabs : \A s : Clears(q, s) => Clears(q, s)'
    BY <1>1 DEF StartUpload, Running, Clears, Types
  <2>3. nextId.session \in Nat /\ nextId'.session = nextId.session + 1
    BY <2>1 DEF Types, TablesOK, Counter
  <2>4. \A i \in images : i.session \in Nat
    BY SessionIds DEF Types, TablesOK, Rows
  <2> SUFFICES ASSUME NEW i \in images
               PROVE  /\ i.session < nextId'.session /\ i.path.session = i.session
                      /\ (~ faulty /\ i.session \in DOMAIN state' /\ (\A q \in Tabs : ~ Clears(q, i.session)')
                            => i.path \in files)
    BY <2>1 DEF OnDisk
  <2>5. i.session < nextId.session /\ i.path.session = i.session
    BY DEF OnDisk
  <2>6. i.session < nextId'.session /\ i.session # nextId.session
    BY <2>3, <2>4, <2>5
  <2> QED
    BY <2>1, <2>2, <2>5, <2>6 DEF OnDisk
<1>2. ASSUME SaveImage(p) \/ RejectImage(p) PROVE OnDisk'
  <2> DEFINE s == req[p].session
             k == req[p].saved + 1
             kind == Head(req[p].left)
             row == [session |-> s, image |-> k, path |-> StoredPath(s, k, kind)]
  <2>1. req[p].op = "upload" /\ UNCHANGED <<state, nextId>> /\ files \subseteq files'
    BY <1>2 DEF SaveImage, RejectImage
  <2>2. images' = images \/ (images' = images \cup {row} /\ Written(s, k, kind) \subseteq files')
    BY <1>2 DEF SaveImage, RejectImage
  <2>3. \A q \in Tabs : \A t : Clears(q, t) => Clears(q, t)'
    BY <1>2, <2>1 DEF SaveImage, RejectImage, Clears, Types
  <2>4. row.session = s /\ row.path.session = s /\ row.path \in Written(s, k, kind)
    BY DEF StoredPath, Written, File
  <2>5. s < nextId.session
    BY <2>1, UploadShape
  <2> HIDE DEF row, s, k, kind
  <2> SUFFICES ASSUME NEW i \in images'
               PROVE  /\ i.session < nextId.session /\ i.path.session = i.session
                      /\ (~ faulty /\ i.session \in DOMAIN state /\ (\A q \in Tabs : ~ Clears(q, i.session)')
                            => i.path \in files')
    BY <2>1 DEF OnDisk
  <2>6. CASE i \notin images
    <3>1. i = row /\ row.path \in files'
      BY <2>2, <2>4, <2>6
    <3> QED
      BY <2>4, <2>5, <3>1
  <2>7. CASE i \in images
    BY <2>1, <2>3, <2>7 DEF OnDisk
  <2> QED
    BY <2>6, <2>7
<1> QED
  BY <1>1, <1>2

LEMMA ClearOnDisk ==
  ASSUME Types, OnDisk, UNCHANGED faulty, NEW p \in Tabs,
         CleanupUpload(p) \/ RemoveSession(p) \/ \E s \in Sessions : RemoveImages(p, s)
  PROVE  OnDisk'
<1>1. ASSUME CleanupUpload(p) \/ RemoveSession(p) PROVE OnDisk'
  <2> DEFINE s == req[p].session
  <2>1. /\ UNCHANGED nextId /\ images' \subseteq images
        /\ \A q \in Tabs \ {p} : req'[q] = req[q]
        /\ \A f \in files : f.session # s => f \in files'
    BY <1>1 DEF CleanupUpload, RemoveSession, DropSession, Respond, Types
  <2>2. ~ faulty \/ RemoveSession(p) => DOMAIN state' = DOMAIN state \ {s}
    BY <1>1 DEF CleanupUpload, RemoveSession, DropSession
  <2>3. \A q \in Tabs : \A t : t # s /\ Clears(q, t) => Clears(q, t)'
    BY <2>1 DEF Clears
  <2> HIDE DEF s
  <2>4. ASSUME NEW i \in images', ~ faulty, i.session \in DOMAIN state', \A q \in Tabs : ~ Clears(q, i.session)'
        PROVE  /\ i.session \in DOMAIN state /\ (\A q \in Tabs : ~ Clears(q, i.session))
               /\ i.path \in files => i.path \in files'
    <3>1. i.session \in DOMAIN state /\ i.session # s /\ i.path.session = i.session
      BY <2>1, <2>2, <2>4 DEF OnDisk
    <3> QED
      BY <2>1, <2>3, <2>4, <3>1
  <2> QED
    BY <2>1, <2>4, FilesKeep
<1>2. ASSUME NEW s \in Sessions, RemoveImages(p, s) PROVE OnDisk'
  <2>1. /\ UNCHANGED <<images, nextId, state>>
        /\ Clears(p, s)' /\ req[p].op = "idle" /\ \A q \in Tabs \ {p} : req'[q] = req[q]
        /\ \A f \in files : f \notin {i.path : i \in {row \in images : row.session = s}} => f \in files'
    BY <1>2 DEF RemoveImages, Running, Clears, Types
  <2>2. \A q \in Tabs : \A t : Clears(q, t) => Clears(q, t)'
    BY <2>1 DEF Clears
  <2>3. ASSUME NEW i \in images, \A q \in Tabs : ~ Clears(q, i.session)'
        PROVE  /\ \A q \in Tabs : ~ Clears(q, i.session)
               /\ i.path \in files => i.path \in files'
    <3>1. i.session # s /\ i.path.session = i.session
      BY <2>1, <2>3 DEF OnDisk
    <3>2. \A row \in images : row.session = s => row.path # i.path
      BY <3>1 DEF OnDisk
    <3> QED
      BY <2>1, <2>2, <2>3, <3>2
  <2> QED
    BY <2>1, <2>3, FilesKeep
<1> QED
  BY <1>1, <1>2

LEMMA NextOnDisk == Types /\ OnDisk /\ [Next]_vars => OnDisk'
<1>1. ASSUME Types, OnDisk, Next PROVE OnDisk'
  <2>1. UNCHANGED faulty
    BY <1>1 DEF Next
  <2>2. ASSUME faulty, UNCHANGED <<images, nextId>> PROVE OnDisk'
    BY <1>1, <2>1, <2>2 DEF OnDisk
  <2>3. ASSUME UNCHANGED <<images, files>>, DOMAIN state' = DOMAIN state, nextId.session = nextId'.session,
               \A q \in Tabs : \A s : Clears(q, s) => Clears(q, s)'
        PROVE  OnDisk'
    BY <1>1, <2>1, <2>3 DEF OnDisk
  <2>4. ASSUME NEW p \in Tabs, Send(p) PROVE OnDisk'
    <3>1. ASSUME NEW s \in Sessions, OpenReview(p, s) PROVE OnDisk'
      BY <2>3, <3>1 DEF OpenReview, Clears
    <3>2. ASSUME NEW form \in Forms(p), SubmitConfirm(p, form) PROVE OnDisk'
      BY <1>1, <2>3, <3>2 DEF SubmitConfirm, Running, Clears, Types
    <3>3. ASSUME NEW id \in page[p].ids, CheckDelete(p, id) PROVE OnDisk'
      BY <1>1, <2>3, <3>3 DEF CheckDelete, Running, Clears, Types
    <3> QED
      BY <1>1, <2>1, <2>4, <3>1, <3>2, <3>3, UploadOnDisk, ClearOnDisk DEF Send
  <2>5. ASSUME NEW p \in Tabs, Continue(p) PROVE OnDisk'
    <3>1. ASSUME FinishUpload(p) \/ EditDraft(p) \/ RefuseForm(p) \/ CheckDraft(p) \/ ConfirmDraftEntries(p)
                 \/ DeleteDraftEntry(p)
          PROVE  OnDisk'
      <4>1. UNCHANGED <<images, files, nextId>> /\ DOMAIN state' = DOMAIN state
        BY <3>1 DEF FinishUpload, EditDraft, RefuseForm, CheckDraft, ConfirmDraftEntries, DeleteDraftEntry, SetState
      <4>2. req[p].op \in {"upload", "edit", "check", "delete"} /\ \A q \in Tabs \ {p} : req'[q] = req[q]
        BY <1>1, <3>1 DEF FinishUpload, EditDraft, RefuseForm, CheckDraft, ConfirmDraftEntries, DeleteDraftEntry,
                          Respond, Types
      <4>3. \A q \in Tabs : \A s : Clears(q, s) => Clears(q, s)'
        BY <4>2 DEF Clears
      <4> QED
        BY <2>3, <4>1, <4>3
    <3>2. ASSUME RequestRefused(p) PROVE OnDisk'
      BY <2>2, <3>2 DEF RequestRefused
    <3> QED
      BY <1>1, <2>1, <2>5, <3>1, <3>2, UploadOnDisk, ClearOnDisk DEF Continue
  <2>6. ASSUME NEW s \in Sessions, JobStep(s) PROVE OnDisk'
    <3>1. UNCHANGED <<images, files, req>> /\ DOMAIN state' = DOMAIN state
      BY <2>6 DEF JobStep, JobBegin, JobRead, JobExtract, JobExtractFails, JobSave, JobFinish, JobFail, JobRefused,
                  SetState
    <3>2. nextId'.session = nextId.session
      BY <1>1, <2>6 DEF JobStep, JobBegin, JobRead, JobExtract, JobExtractFails, JobSave, JobFinish, JobFail,
                        JobRefused, Types, TablesOK, Counter
    <3> QED
      BY <2>3, <3>1, <3>2 DEF Clears
  <2>7. ASSUME Crash PROVE OnDisk'
    BY <2>2, <2>7 DEF Crash
  <2> QED
    BY <1>1, <2>4, <2>5, <2>6, <2>7 DEF Next
<1>2. ASSUME OnDisk, UNCHANGED vars PROVE OnDisk'
  BY <1>2 DEF vars, OnDisk, Clears
<1> QED
  BY <1>1, <1>2

\* Without faults, every image of a session nobody is deleting can be opened: no
\* upload, cleanup or deletion removes a file of another session.
THEOREM ImagesStay == Spec => []ImagesOnDisk
<1>1. Init => OnDisk
  BY DEF Init, OnDisk
<1>2. Types /\ OnDisk => ImagesOnDisk
  BY DEF OnDisk, ImagesOnDisk, Clears
<1> QED
  BY <1>1, <1>2, InitTypes, NextTypes, NextOnDisk, PTL DEF Spec

-----------------------------------------------------------------------------
(* Imports without a result.                                                 *)

Abandoned(s) == Unsettled(s) /\ ~ Importing(s)

\* Whoever worked on s goes on, and s did not lose its result.
LEMMA StillServed ==
  ASSUME NEW s, UNCHANGED job, \A q \in Tabs : Uploading(q, s) => Uploading(q, s)',
         Unsettled(s)' => Unsettled(s)
  PROVE  Abandoned(s)' => Abandoned(s)
BY DEF Abandoned, Importing

LEMMA TabAbandons ==
  ASSUME Types, ServiceConfigured, NEW s \in Sessions, Abandoned(s)', NEW p \in Tabs, Send(p) \/ Continue(p)
  PROVE  Abandoned(s) \/ (faulty /\ CleanupUpload(p) /\ req[p].session = s)
<1>1. ASSUME NEW kinds \in Uploads, StartUpload(p, kinds) PROVE Abandoned(s)
  <2>1. /\ UNCHANGED job /\ req[p].op = "idle"
        /\ req'[p].op = "upload" /\ req'[p].session = nextId.session
        /\ \A q \in Tabs \ {p} : req'[q] = req[q]
        /\ \A t \in DOMAIN state' : t # nextId.session => t \in DOMAIN state /\ state'[t] = state[t]
    BY <1>1 DEF StartUpload, Running, Types
  <2>2. s # nextId.session
    BY <2>1 DEF Abandoned, Importing, Uploading
  <2>3. \A q \in Tabs : Uploading(q, s) => Uploading(q, s)'
    BY <2>1 DEF Uploading
  <2>4. Unsettled(s)' => Unsettled(s)
    BY <2>1, <2>2 DEF Unsettled
  <2> QED
    BY <2>1, <2>3, <2>4, StillServed
<1>2. ASSUME \/ \E t \in Sessions : OpenReview(p, t) \/ RemoveImages(p, t)
             \/ \E form \in Forms(p) : SubmitConfirm(p, form)
             \/ \E id \in page[p].ids : CheckDelete(p, id)
             \/ SaveImage(p) \/ RejectImage(p) \/ EditDraft(p) \/ RefuseForm(p) \/ CheckDraft(p)
             \/ ConfirmDraftEntries(p) \/ DeleteDraftEntry(p) \/ RemoveSession(p) \/ RequestRefused(p)
      PROVE  Abandoned(s)
  <2>1. UNCHANGED job /\ \A q \in Tabs \ {p} : req'[q] = req[q]
    BY <1>2 DEF OpenReview, RemoveImages, SubmitConfirm, CheckDelete, SaveImage, RejectImage, EditDraft, RefuseForm,
                CheckDraft, ConfirmDraftEntries, DeleteDraftEntry, RemoveSession, RequestRefused, Respond, Types
  <2>2. \/ req'[p] = req[p] \/ req[p].op \notin {"upload", "cleanup"}
        \/ req'[p].op \in {"upload", "cleanup"} /\ req'[p].session = req[p].session
    BY <1>2 DEF OpenReview, RemoveImages, SubmitConfirm, CheckDelete, SaveImage, RejectImage, EditDraft, RefuseForm,
                CheckDraft, ConfirmDraftEntries, DeleteDraftEntry, RemoveSession, RequestRefused, Respond, Running,
                Types
  <2>3. \A q \in Tabs : Uploading(q, s) => Uploading(q, s)'
    BY <2>1, <2>2 DEF Uploading
  <2>4. Unsettled(s)' => Unsettled(s)
    <3>1. CASE UNCHANGED state
      BY <3>1 DEF Unsettled
    <3>2. CASE \E t, to : to \in {"confirmed", "confirmed_part", "review_ready"} /\ SetState(t, to)
      BY <3>2 DEF Unsettled, SetState
    <3>3. CASE \E t : DropSession(t)
      BY <3>3 DEF Unsettled, DropSession
    <3> QED
      BY <1>2, <3>1, <3>2, <3>3 DEF OpenReview, RemoveImages, SubmitConfirm, CheckDelete, SaveImage, RejectImage,
           EditDraft, RefuseForm, CheckDraft, ConfirmDraftEntries, DeleteDraftEntry, RemoveSession, RequestRefused
  <2> QED
    BY <2>1, <2>3, <2>4, StillServed
<1>3. ASSUME FinishUpload(p) PROVE Abandoned(s)
  <2>1. /\ req[p].op = "upload" /\ SetState(req[p].session, "uploaded")
        /\ job' = [job EXCEPT ![req[p].session] = [at |-> "queued"]]
        /\ \A q \in Tabs \ {p} : req'[q] = req[q]
    BY <1>3 DEF FinishUpload, Respond, Types
  <2>2. s # req[p].session
    BY <2>1 DEF Abandoned, Importing, NoJob, Types
  <2>3. Unsettled(s) /\ job'[s] = job[s]
    BY <2>1, <2>2 DEF Abandoned, Unsettled, SetState, Types
  <2>4. \A q \in Tabs : Uploading(q, s) => Uploading(q, s)'
    BY <2>1, <2>2 DEF Uploading
  <2> QED
    BY <2>3, <2>4 DEF Abandoned, Importing
<1>4. ASSUME CleanupUpload(p) PROVE Abandoned(s) \/ (faulty /\ req[p].session = s)
  <2>1. UNCHANGED job /\ \A q \in Tabs \ {p} : req'[q] = req[q]
    BY <1>4 DEF CleanupUpload, Respond, Types
  <2>2. CASE s # req[p].session
    <3>1. \A q \in Tabs : Uploading(q, s) => Uploading(q, s)'
      BY <2>1, <2>2 DEF Uploading
    <3>2. Unsettled(s)' => Unsettled(s)
      BY <1>4 DEF CleanupUpload, DropSession, Unsettled
    <3> QED
      BY <2>1, <3>1, <3>2, StillServed
  <2>3. CASE s = req[p].session /\ DropSession(s)
    BY <2>3 DEF Abandoned, Unsettled, DropSession
  <2> QED
    BY <1>4, <2>2, <2>3 DEF CleanupUpload
<1> QED
  BY <1>1, <1>2, <1>3, <1>4 DEF Send, Continue

LEMMA JobAbandons ==
  ASSUME Types, NEW s \in Sessions, Abandoned(s)', NEW t \in Sessions, JobStep(t)
  PROVE  Abandoned(s) \/ (faulty /\ JobRefused(s))
<1>1. \A q \in Tabs : Uploading(q, s)' <=> Uploading(q, s)
  BY DEF JobStep, JobBegin, JobRead, JobExtract, JobExtractFails, JobSave, JobFinish, JobFail, JobRefused, Uploading
<1>2. CASE s # t
  <2>1. s \in DOMAIN state' => s \in DOMAIN state /\ state'[s] = state[s]
    BY <1>2 DEF JobStep, JobBegin, JobRead, JobExtract, JobExtractFails, JobSave, JobFinish, JobFail, JobRefused,
                SetState
  <2>2. job'[s] = job[s]
    BY <1>2 DEF JobStep, JobBegin, JobRead, JobExtract, JobExtractFails, JobSave, JobFinish, JobFail, JobRefused, Types
  <2> QED
    BY <1>1, <2>1, <2>2 DEF Abandoned, Importing, Unsettled
<1>3. CASE s = t
  <2>1. ASSUME JobFinish(s) \/ JobFail(s) PROVE ~ Unsettled(s)'
    BY <2>1 DEF JobFinish, JobFail, SetState, Unsettled
  <2>2. ASSUME JobBegin(s) \/ JobRead(s) \/ JobExtract(s) \/ JobExtractFails(s) \/ JobSave(s)
        PROVE  job'[s] # NoJob
    BY <2>2 DEF JobBegin, JobRead, JobExtract, JobExtractFails, JobSave, NoJob, Types
  <2> QED
    BY <1>3, <2>1, <2>2 DEF JobStep, JobRefused, Abandoned, Importing
<1> QED
  BY <1>2, <1>3

\* When a service is configured, only a fault that stops whoever works on an
\* import leaves it without a result: its upload is followed by a job, and every
\* way out of the job writes the state of the session.
THEOREM OnlyFaultsAbandon == ServiceConfigured => (Spec => AbandonedByFaultOnly)
<1> SUFFICES ASSUME ServiceConfigured PROVE Spec => AbandonedByFaultOnly
  OBVIOUS
<1> DEFINE Step == \A s \in Sessions :
                     (Unsettled(s) /\ ~ Served(s))'
                       => \/ Unsettled(s) /\ ~ Served(s)
                          \/ Crash \/ (faulty /\ JobRefused(s))
                          \/ faulty /\ \E p \in Tabs : CleanupUpload(p) /\ req[p].session = s
<1>1. \A s \in Sessions : /\ Abandoned(s) <=> Unsettled(s) /\ ~ Served(s)
                          /\ Abandoned(s)' <=> (Unsettled(s) /\ ~ Served(s))'
  BY DEF Abandoned, Served, Importing, Uploading
<1>2. ASSUME Types, Next, NEW s \in Sessions, Abandoned(s)'
      PROVE  \/ Abandoned(s)
             \/ Crash \/ (faulty /\ JobRefused(s))
             \/ faulty /\ \E p \in Tabs : CleanupUpload(p) /\ req[p].session = s
  BY <1>2, TabAbandons, JobAbandons DEF Next
<1>3. Types /\ [Next]_vars => [Step]_vars
  BY <1>1, <1>2
<1>4. Spec => []Types
  BY InitTypes, NextTypes, PTL DEF Spec
<1> QED
  BY <1>3, <1>4, PTL DEF Spec, AbandonedByFaultOnly

=============================================================================
