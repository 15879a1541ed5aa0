------------------------------ MODULE OcrAgent -------------------------------
(***************************************************************************)
(* The OCR service and the jobs that call it.  A job sends its images one  *)
(* by one, each in a request of its own, and gives a request up after      *)
(* 120 s.  The service is one thread behind a queue of connections: it     *)
(* reads a page with a language model, validates what it got, asks once    *)
(* more for the entries it flags, and answers; it does not notice that     *)
(* nobody waits for the answer any more.  The job merges the answers and   *)
(* makes drafts of them; what becomes of its session is in OcrImport.      *)
(*                                                                         *)
(* The fallback OCR_AGENT_ENABLED=false is not modelled.                   *)
(***************************************************************************)
EXTENDS Integers, Sequences, FiniteSets

CONSTANTS
  Jobs,               \* OCR jobs, of any session and user
  Images,             \* how many images each job has
  Texts,              \* what a category field may read
  Fold, Casefold,     \* a text as lower() and as casefold() make it
  Trim,               \* a text without the white space at its ends
  Similar,            \* the texts that contain a text or are contained in it
  Days, NoDay, Open,  \* dates; a text that is no date; a rate without an end
  Hints,              \* categories and rates a job may find in the database
  Readings,           \* sequences of entries the model may answer with
  MaxRounds,          \* MAX_ROUNDS of ocr_agent.py
  Backlog             \* connections the kernel keeps for the service

\* The date and the hours of an entry are texts, and the service and the program each
\* read them with a parser of their own.  The two accept different texts (NoDay and 0
\* stand for one that is refused) and read the same from a text that both accept.
DateTexts == {d \in [service : Days \cup {NoDay}, program : Days \cup {NoDay}] :
                NoDay \in {d.service, d.program} \/ d.service = d.program}
HourTexts == {h \in [service : Int, program : Int] :
                h.service > 0 /\ h.program > 0 => h.service = h.program}

\* said is the reason the model may give of its own.
Entries == [raw : Texts, category : Texts, day : DateTexts, hours : HourTexts,
            confidence : 0 .. 100, legible : BOOLEAN, marked : BOOLEAN,
            said : SUBSET {"model"}]

RateHints == [category : Texts, from : Days, to : Days \cup {Open}]

ASSUME LimitsAssumption   == /\ Images \in [Jobs -> Nat \ {0}]
                             /\ {MaxRounds, Backlog} \subseteq Nat \ {0}
ASSUME TextsAssumption    == /\ {"", "?"} \subseteq Texts
                             /\ {Fold, Casefold, Trim} \subseteq [Texts -> Texts]
                             /\ \A t \in Texts : Fold[t] = "" <=> t = ""
                             /\ \A t, u \in Texts :
                                  Fold[t] = Fold[u] => (Trim[t] = t <=> Trim[u] = u)
                             /\ Similar \in [Texts -> SUBSET Texts]
ASSUME DaysAssumption     == Days \subseteq Nat /\ {NoDay, Open} \cap Days = {}
ASSUME HintsAssumption    == \A h \in Hints : /\ h.categories \subseteq Texts \ {""}
                                              /\ \A c \in h.categories : Trim[c] = c
                                              /\ h.rates \subseteq RateHints
ASSUME ReadingsAssumption == Readings \subseteq Seq(Entries)

VARIABLES
  job,      \* what each job has got so far, and whether it waits
  queue,    \* connections the service has not accepted yet
  service   \* the request in the one thread of the service

vars == <<job, queue, service>>

-----------------------------------------------------------------------------
Idle == [at |-> "idle"]
Free == [at |-> "free"]

\* Mutant: a rate that has ended still covers a day.
RateStarted(r, day) == r.from <= day

\* _rate_covers_date.
RateCovers(r, day) == r.from <= day /\ (r.to = Open \/ day <= r.to)

\* The rules of validate_page, and when an entry fails one.
Rules == {"unknown_category", "invalid_date", "invalid_hours", "missing_rate",
          "low_confidence", "unreadable_field"}

Fails(rule, e, hints) ==
  \/ rule = "unknown_category" /\ \A c \in hints.categories : Fold[c] # Fold[e.category]
  \/ rule = "invalid_date"     /\ e.day.service = NoDay
  \/ rule = "invalid_hours"    /\ e.hours.service <= 0
  \/ /\ rule = "missing_rate"
     /\ hints.rates # {}
     /\ e.day.service # NoDay
     /\ \A r \in hints.rates :
          Casefold[r.category] = Casefold[e.category] => ~ RateCovers(r, e.day.service)
  \/ rule = "low_confidence"   /\ e.confidence < 50
  \/ rule = "unreadable_field" /\ (~ e.legible \/ e.raw = "?")

Reasons(e, hints) == {rule \in Rules : Fails(rule, e, hints)}

\* Its loop: the entries of a page with or without reasons, in their order.
Sorted(page, hints, flagged) ==
  LET loop[n \in 0 .. Len(page)] ==
        IF n = 0 THEN <<>>
        ELSE IF (Reasons(page[n], hints) # {}) = flagged
        THEN Append(loop[n - 1], page[n])
        ELSE loop[n - 1]
  IN  loop[Len(page)]

Valid(page, hints)   == Sorted(page, hints, FALSE)
Flagged(page, hints) == Sorted(page, hints, TRUE)

\* A row of an answer: an entry, whether to review it, and the reasons.
Row(e, marked, reasons, image) ==
  [raw |-> e.raw, category |-> e.category, day |-> e.day, hours |-> e.hours,
   marked |-> marked, reasons |-> reasons, image |-> image]

\* What run_extraction_loop keeps of a page: the valid entries, as the model marked
\* them, and then the flagged ones, whose reasons replace those of the model, with
\* one more if a second reading was of no use.
Kept(page, hints, more, image) ==
  LET good == Valid(page, hints)
      bad  == Flagged(page, hints)
  IN  [n \in DOMAIN good |-> Row(good[n], good[n].marked, good[n].said, image)]
        \o [n \in DOMAIN bad |-> Row(bad[n], TRUE, Reasons(bad[n], hints) \cup more, image)]

\* The row that stands for a page nobody could read.
Placeholder(image) ==
  [raw |-> "?", category |-> "", day |-> [service |-> NoDay, program |-> NoDay],
   hours |-> [service |-> 0, program |-> 0],
   marked |-> TRUE, reasons |-> {"parser_error"}, image |-> image]

Init ==
  /\ job = [j \in Jobs |-> Idle]
  /\ queue = <<>>
  /\ service = Free

-----------------------------------------------------------------------------
\* ProcessSession reads categories and rates once, before the first image.
StartJob(j, hints) ==
  /\ job[j] = Idle
  /\ job' = [job EXCEPT ![j] =
       [at |-> "calling", hints |-> hints, image |-> 1, rows |-> <<>>, read |-> <<>>]]
  /\ UNCHANGED <<queue, service>>

\* Client.Extract: one request with one image.
Call(j) ==
  /\ job[j].at = "calling"
  /\ Len(queue) < Backlog
  /\ queue' = Append(queue, [job |-> j, live |-> TRUE, hints |-> job[j].hints, image |-> job[j].image])
  /\ job' = [job EXCEPT ![j].at = "waiting"]
  /\ UNCHANGED service

\* Nobody waits any more for a request of job j.
HangUp(j) ==
  /\ queue' = [n \in DOMAIN queue |-> IF queue[n].job = j THEN [queue[n] EXCEPT !.live = FALSE]
                                      ELSE queue[n]]
  /\ service' = IF service # Free /\ service.request.job = j
                THEN [service EXCEPT !.request.live = FALSE] ELSE service

\* Mutant: a request that took too long is sent again while the first one runs on.
TimeOutResends(j) ==
  /\ job[j].at \in {"calling", "waiting"}
  /\ job' = [job EXCEPT ![j].at = "calling"]
  /\ UNCHANGED <<queue, service>>

\* http.Client.Timeout, while connecting or waiting: the job fails.
TimeOut(j) ==
  /\ job[j].at \in {"calling", "waiting"}
  /\ job' = [job EXCEPT ![j] = Idle]
  /\ HangUp(j)

-----------------------------------------------------------------------------
\* serve_forever takes the next connection, given up or not.
Accept ==
  /\ service = Free
  /\ queue # <<>>
  /\ service' = [at |-> "extract", request |-> Head(queue)]
  /\ queue' = Tail(queue)
  /\ UNCHANGED job

\* The loop goes on with a page, or has rows to answer with.  read remembers how
\* many entries the page had at first.
Check(page, attempt, read) ==
  service' = [at |-> "validate", request |-> service.request,
              page |-> page, attempt |-> attempt, read |-> read]
Stop(rows, read) ==
  service' = [at |-> "answer", request |-> service.request, rows |-> rows, read |-> read]

\* extract_page: the model reads the page, or the image, the call or the reply is
\* no good (OCRParseError).
ExtractPage ==
  /\ service.at = "extract"
  /\ \/ \E page \in Readings : Check(page, 1, Len(page))
     \/ Stop(<<Placeholder(service.request.image)>>, 1)
  /\ UNCHANGED <<job, queue>>

\* validate_page: the page is clean, the rounds are used up, or one more.
ValidatePage ==
  LET s == service
      h == s.request.hints
  IN  /\ s.at = "validate"
      /\ IF Flagged(s.page, h) = <<>> \/ s.attempt = MaxRounds
         THEN Stop(Kept(s.page, h, {}, s.request.image), s.read)
         ELSE service' = [service EXCEPT !.at = "correct"]
      /\ UNCHANGED <<job, queue>>

\* Mutant: the second reading is taken, however many entries it has.
CorrectAnyCount ==
  LET s == service
      h == s.request.hints
  IN  /\ s.at = "correct"
      /\ \/ \E page \in Readings : Check(Valid(s.page, h) \o page, s.attempt + 1, s.read)
         \/ Stop(Kept(s.page, h, {"parser_error"}, s.request.image), s.read)
      /\ UNCHANGED <<job, queue>>

\* Mutant: the second reading does not count as a round.
CorrectUncounted ==
  LET s == service
      h == s.request.hints
  IN  /\ s.at = "correct"
      /\ \/ \E page \in Readings :
              IF Len(page) = Len(Flagged(s.page, h))
              THEN Check(Valid(s.page, h) \o page, s.attempt, s.read)
              ELSE Stop(Kept(s.page, h, {"correction_mismatch"}, s.request.image), s.read)
         \/ Stop(Kept(s.page, h, {"parser_error"}, s.request.image), s.read)
      /\ UNCHANGED <<job, queue>>

\* correct_entries: the model reads the flagged entries again.  A reply with as
\* many entries replaces them; any other is dropped.
CorrectEntries ==
  LET s == service
      h == s.request.hints
  IN  /\ s.at = "correct"
      /\ \/ \E page \in Readings :
              IF Len(page) = Len(Flagged(s.page, h))
              THEN Check(Valid(s.page, h) \o page, s.attempt + 1, s.read)
              ELSE Stop(Kept(s.page, h, {"correction_mismatch"}, s.request.image), s.read)
         \/ Stop(Kept(s.page, h, {"parser_error"}, s.request.image), s.read)
      /\ UNCHANGED <<job, queue>>

\* do_POST catches everything else (a broken stream, no credentials, a truncated
\* upload) and answers 500, on which the job fails.
Breaks ==
  LET r == service.request
  IN  /\ service # Free
      /\ service' = Free
      /\ job' = IF r.live THEN [job EXCEPT ![r.job] = Idle] ELSE job
      /\ UNCHANGED queue

-----------------------------------------------------------------------------
\* NormalizeOCREntry, for a category the service left open: the known category of
\* that name or, if only one is similar, that one; else what was read, to review.
Normalized(raw, categories) ==
  LET text == Trim[raw]
      near == Similar[text] \cap categories
  IN  CASE text \in categories -> [category |-> text, marked |-> FALSE]
        [] text \notin categories \cup {""} /\ Cardinality(near) = 1
                               -> [category |-> CHOOSE c \in near : TRUE, marked |-> FALSE]
        [] OTHER               -> [category |-> text, marked |-> TRUE]

\* buildDraftEntries: the mark of a draft is the mark of its category, its date the
\* text as it came, its hours what ParseFloat reads, or 0 without a word.
Draft(row, categories) ==
  LET field == IF row.raw # "" /\ row.category = ""
               THEN Normalized(row.raw, categories)
               ELSE [category |-> row.category, marked |-> row.marked]
  IN  [category |-> Trim[field.category], day |-> row.day,
       hours |-> IF row.hours.program > 0 THEN row.hours.program ELSE 0,
       marked |-> field.marked, reasons |-> row.reasons, image |-> row.image]

\* 200, if somebody still waits: mergeOCRResponse, and after the last image
\* buildDraftEntries.
Answer ==
  LET r    == service.request
      j    == r.job
      got  == job[j]
      rows == got.rows \o service.rows
      more == r.image < Images[j]
  IN  /\ service.at = "answer"
      /\ service' = Free
      /\ job' = IF ~ r.live THEN job
                ELSE [job EXCEPT ![j] =
                  [at    |-> IF more THEN "calling" ELSE "done",
                   hints |-> got.hints,
                   image |-> got.image + 1,
                   rows  |-> IF more THEN rows
                             ELSE [n \in DOMAIN rows |-> Draft(rows[n], got.hints.categories)],
                   read  |-> Append(got.read, service.read)]]
      /\ UNCHANGED queue

\* The drafts are saved.
SaveDrafts(j) ==
  /\ job[j].at = "done"
  /\ job' = [job EXCEPT ![j] = Idle]
  /\ UNCHANGED <<queue, service>>

Serve == ExtractPage \/ ValidatePage \/ CorrectEntries \/ Breaks \/ Answer

JobStep(j) == Call(j) \/ TimeOut(j) \/ SaveDrafts(j)

Next ==
  \/ \E j \in Jobs : JobStep(j) \/ \E hints \in Hints : StartJob(j, hints)
  \/ Accept
  \/ Serve

Spec == Init /\ [][Next]_vars

\* A call of the model ends, by a reply or by a timeout of its client, and the
\* service goes on with what it does.
FairSpec == Spec /\ WF_vars(Serve)

-----------------------------------------------------------------------------
\* No line of a timesheet is lost or doubled on its way into the drafts: each image
\* gives as many as its first reading had, or one placeholder, and they are in the
\* order of the images, whatever second readings, errors and late answers came between.
NothingLost ==
  \A j \in Jobs :
    job[j] # Idle =>
      LET rows == job[j].rows
          read == job[j].read
      IN  /\ \A n \in DOMAIN rows : rows[n].image \in DOMAIN read
          /\ \A k \in DOMAIN read : Cardinality({n \in DOMAIN rows : rows[n].image = k}) = read[k]
          /\ \A n, m \in DOMAIN rows : n <= m => rows[n].image <= rows[m].image

\* No two categories differ only in their case.
Distinct(h) ==
  LET names == h.categories \cup {r.category : r \in h.rates}
  IN  \A c, d \in names : Casefold[c] = Casefold[d] => c = d

\* A draft the review page shows without a reason, with a known category and a date
\* the program can read, has a rate of just that category for that day, if any rates
\* are known: confirmed as it stands, it is billed.  The service looked for the rate
\* in its own reading of the date and up to case; the invoice joins on equal texts.
UnquestionedIsRated ==
  \A j \in Jobs :
    job[j].at = "done" =>
      \A n \in DOMAIN job[j].rows :
        LET d == job[j].rows[n]
            h == job[j].hints
        IN  d.reasons = {} /\ d.category \in h.categories /\ d.day.program # NoDay
              /\ h.rates # {} /\ Distinct(h)
            => \E r \in h.rates : /\ r.category = d.category
                                  /\ r.from <= d.day.program
                                  /\ r.to # Open => d.day.program <= r.to

\* A job that waits, waits for one request that is still on its way, and no answer
\* to a request that was given up can reach it.
OneRequestPerJob ==
  \A j \in Jobs :
    LET waiting == {n \in DOMAIN queue : queue[n].job = j /\ queue[n].live}
        served  == service # Free /\ service.request.job = j /\ service.request.live
    IN  IF job[j].at = "waiting" THEN Cardinality(waiting) + (IF served THEN 1 ELSE 0) = 1
        ELSE waiting = {} /\ ~ served

\* The service comes to the end of every request: the loop of corrections is
\* bounded, also for a model that never gets an entry right.
ServiceFrees == service # Free ~> service = Free

=============================================================================
