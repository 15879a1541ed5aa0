---------------------------- MODULE OcrAgentProofs ----------------------------
(***************************************************************************)
(* Requests that were given up run on in the OCR service and are answered  *)
(* late.  For any number of jobs, images and connections no such answer    *)
(* reaches a job, and a job that waits has one request to wait for.  What  *)
(* the answers carry adds up: no line of a page is lost or doubled, and a  *)
(* draft without a reason has a rate, whatever the model reads.            *)
(***************************************************************************)
EXTENDS OcrAgent, Sums

Request == [job : Jobs, live : BOOLEAN, hints : Hints, image : Nat]

JobShape(x) ==
  \/ x = Idle
  \/ /\ x = [at |-> x.at, hints |-> x.hints, image |-> x.image, rows |-> x.rows, read |-> x.read]
     /\ x.at \in {"calling", "waiting", "done"} /\ x.hints \in Hints /\ x.image \in Nat

ServiceShape(x) ==
  \/ x = Free
  \/ /\ x.request \in Request
     /\ \/ x = [at |-> "extract", request |-> x.request]
        \/ /\ x.at \in {"validate", "correct"}
           /\ x = [at |-> x.at, request |-> x.request, page |-> x.page, attempt |-> x.attempt, read |-> x.read]
        \/ x = [at |-> "answer", request |-> x.request, rows |-> x.rows, read |-> x.read]

Shapes ==
  /\ DOMAIN job = Jobs /\ \A j \in Jobs : JobShape(job[j])
  /\ queue \in Seq(Request)
  /\ ServiceShape(service)

\* The places of live requests of a job in the queue, and whether the service is
\* at one.
Queued(j) == {n \in DOMAIN queue : queue[n].job = j /\ queue[n].live}
Served(j) == service # Free /\ service.request.job = j /\ service.request.live

None(j)   == Queued(j) = {} /\ ~ Served(j)
Single(j) == \/ Queued(j) = {} /\ Served(j)
             \/ ~ Served(j) /\ \E n \in DOMAIN queue : Queued(j) = {n}

Waits(j) == IF job[j].at = "waiting" THEN Single(j) ELSE None(j)

IInv == Shapes /\ \A j \in Jobs : Waits(j)

LEMMA InitIInv == Init => IInv
<1> SUFFICES ASSUME Init PROVE IInv
  OBVIOUS
<1>1. Shapes
  BY DEF Init, Shapes, JobShape, ServiceShape
<1>2. ASSUME NEW j \in Jobs PROVE Waits(j)
  BY DEF Init, Waits, None, Queued, Served, Idle, Free
<1> QED
  BY <1>1, <1>2 DEF IInv

-----------------------------------------------------------------------------
\* The service has what it had of each job, and so has the queue.
LEMMA SameRequests ==
  ASSUME NEW j \in Jobs, Waits(j), queue' = queue, Served(j)' = Served(j),
         (job'[j].at = "waiting") = (job[j].at = "waiting")
  PROVE  Waits(j)'
BY DEF Waits, Single, None, Queued

\* A job starts or saves: it had no request and has none.
LEMMA QuietKeeps ==
  ASSUME IInv, NEW j \in Jobs, NEW x, JobShape(x), x.at # "waiting", job[j].at # "waiting",
         job' = [job EXCEPT ![j] = x], UNCHANGED <<queue, service>>
  PROVE  IInv'
<1>1. DOMAIN job' = Jobs /\ job'[j] = x /\ \A i \in Jobs : i # j => job'[i] = job[i]
  BY DEF IInv, Shapes
<1>2. Shapes'
  BY <1>1 DEF IInv, Shapes
<1>3. ASSUME NEW i \in Jobs PROVE Waits(i)'
  BY <1>1, SameRequests DEF IInv, Served
<1> QED
  BY <1>2, <1>3 DEF IInv

LEMMA CallKeeps ==
  ASSUME IInv, NEW j \in Jobs, Call(j)
  PROVE  IInv'
<1> DEFINE new == [job |-> j, live |-> TRUE, hints |-> job[j].hints, image |-> job[j].image]
<1>a. DOMAIN job = Jobs /\ queue \in Seq(Request) /\ JobShape(job[j]) /\ \A i \in Jobs : Waits(i)
  BY DEF IInv, Shapes
<1>1. new \in Request
  BY <1>a DEF Call, JobShape, Request, Idle
<1>2. queue' = Append(queue, new) /\ service' = service
  BY DEF Call
<1>3. /\ DOMAIN job' = Jobs /\ JobShape(job'[j]) /\ job'[j].at = "waiting"
      /\ \A i \in Jobs : i # j => job'[i] = job[i]
  BY <1>a DEF Call, JobShape, Idle
<1>4. new.job = j /\ new.live
  OBVIOUS
<1> HIDE DEF new
<1>5. /\ queue' \in Seq(Request) /\ DOMAIN queue' = 1 .. Len(queue) + 1 /\ DOMAIN queue = 1 .. Len(queue)
      /\ Len(queue) \in Nat /\ queue'[Len(queue) + 1] = new
      /\ \A n \in DOMAIN queue : queue'[n] = queue[n]
  BY <1>a, <1>1, <1>2
<1>6. Shapes'
  BY <1>2, <1>3, <1>5 DEF IInv, Shapes
<1>7. Waits(j)'
  <2>1. Queued(j) = {} /\ ~ Served(j)
    BY <1>a DEF Call, Waits, None
  <2>2. Queued(j)' = {Len(queue) + 1}
    BY <1>4, <1>5, <2>1 DEF Queued
  <2>3. Len(queue) + 1 \in DOMAIN queue'
    BY <1>5
  <2>4. ~ Served(j)'
    BY <1>2, <2>1 DEF Served
  <2> QED
    BY <1>3, <2>2, <2>3, <2>4 DEF Waits, Single
<1>8. ASSUME NEW i \in Jobs, i # j PROVE Waits(i)'
  <2>1. Queued(i)' = Queued(i)
    BY <1>4, <1>5, <1>8 DEF Queued
  <2>2. Served(i)' = Served(i) /\ job'[i] = job[i]
    BY <1>2, <1>3, <1>8 DEF Served
  <2>3. DOMAIN queue \subseteq DOMAIN queue'
    BY <1>5
  <2> QED
    BY <1>a, <2>1, <2>2, <2>3 DEF Waits, Single, None
<1> QED
  BY <1>6, <1>7, <1>8 DEF IInv

LEMMA TimeOutKeeps ==
  ASSUME IInv, NEW j \in Jobs, TimeOut(j)
  PROVE  IInv'
<1>a. DOMAIN job = Jobs /\ queue \in Seq(Request) /\ ServiceShape(service) /\ \A i \in Jobs : Waits(i)
  BY DEF IInv, Shapes
<1>1. /\ DOMAIN job' = Jobs /\ job'[j] = Idle
      /\ \A i \in Jobs : i # j => job'[i] = job[i]
  BY <1>a DEF TimeOut
<1>2. /\ DOMAIN queue' = DOMAIN queue
      /\ \A n \in DOMAIN queue :
           queue'[n] = IF queue[n].job = j THEN [queue[n] EXCEPT !.live = FALSE] ELSE queue[n]
  BY DEF TimeOut, HangUp
<1>3. ASSUME NEW n \in DOMAIN queue
      PROVE  /\ queue'[n] \in Request /\ queue'[n].job = queue[n].job
             /\ queue'[n].live <=> queue[n].live /\ queue[n].job # j
  <2>1. queue[n] \in Request
    BY <1>a
  <2> QED
    BY <1>2, <2>1 DEF Request
<1>4. queue' \in Seq(Request)
  <2>1. DOMAIN queue = 1 .. Len(queue) /\ Len(queue) \in Nat
    BY <1>a
  <2>2. queue' = [n \in 1 .. Len(queue) |-> queue'[n]]
    BY <2>1 DEF TimeOut, HangUp
  <2> QED
    BY <1>3, <2>1, <2>2
<1>5. /\ ServiceShape(service)' /\ (service' = Free <=> service = Free)
      /\ service # Free => /\ service'.request.job = service.request.job
                           /\ (service'.request.live <=> service.request.live /\ service.request.job # j)
  <2>1. CASE service # Free /\ service.request.job = j
    <3> DEFINE r == [service.request EXCEPT !.live = FALSE]
    <3>1. service' = [service EXCEPT !.request = r]
      BY <2>1 DEF TimeOut, HangUp
    <3>2. service.request \in Request
      BY <1>a, <2>1 DEF ServiceShape
    <3>3. r \in Request /\ r.job = j /\ ~ r.live
      BY <2>1, <3>2 DEF Request
    <3> HIDE DEF r
    <3>4. CASE service = [at |-> "extract", request |-> service.request]
      <4>1. service' = [at |-> "extract", request |-> r]
        BY <3>1, <3>4
      <4> QED
        BY <2>1, <3>3, <4>1 DEF ServiceShape, Free
    <3>5. CASE service.at \in {"validate", "correct"}
               /\ service = [at |-> service.at, request |-> service.request, page |-> service.page,
                             attempt |-> service.attempt, read |-> service.read]
      <4>1. service' = [at |-> service.at, request |-> r, page |-> service.page,
                        attempt |-> service.attempt, read |-> service.read]
        BY <3>1, <3>5
      <4> QED
        BY <2>1, <3>3, <3>5, <4>1 DEF ServiceShape, Free
    <3>6. CASE service = [at |-> "answer", request |-> service.request, rows |-> service.rows, read |-> service.read]
      <4>1. service' = [at |-> "answer", request |-> r, rows |-> service.rows, read |-> service.read]
        BY <3>1, <3>6
      <4> QED
        BY <2>1, <3>3, <4>1 DEF ServiceShape, Free
    <3> QED
      BY <1>a, <2>1, <3>4, <3>5, <3>6 DEF ServiceShape
  <2>2. CASE ~ (service # Free /\ service.request.job = j)
    <3>1. service' = service
      BY <2>2 DEF TimeOut, HangUp
    <3>2. service # Free => service.request.live \in BOOLEAN
      BY <1>a DEF ServiceShape, Request
    <3> QED
      BY <1>a, <2>2, <3>1, <3>2 DEF ServiceShape
  <2> QED
    BY <2>1, <2>2
<1>6. Shapes'
  <2>1. JobShape(Idle) /\ \A i \in Jobs : JobShape(job[i])
    BY DEF JobShape, IInv, Shapes
  <2>2. \A i \in Jobs : JobShape(job'[i])
    BY <1>1, <2>1
  <2> QED
    BY <1>1, <1>4, <1>5, <2>2 DEF Shapes
<1>7. Waits(j)'
  <2>1. Queued(j)' = {} /\ ~ Served(j)'
    BY <1>2, <1>3, <1>5 DEF Queued, Served
  <2> QED
    BY <1>1, <2>1 DEF Waits, None, Idle
<1>8. ASSUME NEW i \in Jobs, i # j PROVE Waits(i)'
  <2>1. Queued(i)' = Queued(i)
    BY <1>2, <1>3, <1>8 DEF Queued
  <2>2. Served(i)' = Served(i)
    BY <1>5, <1>8 DEF Served
  <2> QED
    BY <1>a, <1>1, <1>2, <1>8, <2>1, <2>2 DEF Waits, Single, None
<1> QED
  BY <1>6, <1>7, <1>8 DEF IInv

LEMMA AcceptKeeps ==
  ASSUME IInv, Accept
  PROVE  IInv'
<1>a. queue \in Seq(Request) /\ queue # <<>> /\ service = Free /\ \A i \in Jobs : Waits(i)
  BY DEF IInv, Shapes, Accept
<1>1. service' = [at |-> "extract", request |-> queue[1]] /\ queue' = Tail(queue) /\ job' = job
  BY DEF Accept
<1>2. /\ Len(queue) \in Nat \ {0} /\ DOMAIN queue = 1 .. Len(queue) /\ queue[1] \in Request
      /\ queue' \in Seq(Request) /\ DOMAIN queue' = 1 .. Len(queue) - 1
      /\ \A n \in DOMAIN queue' : queue'[n] = queue[n + 1]
  BY <1>a, <1>1
<1>3. service' # Free /\ service'.request = queue[1]
  BY <1>1 DEF Free
<1>4. Shapes'
  BY <1>1, <1>2 DEF IInv, Shapes, ServiceShape
<1>5. ASSUME NEW i \in Jobs PROVE Waits(i)'
  <2>1. ~ Served(i)
    BY <1>a DEF Served
  <2>2. Served(i)' <=> 1 \in Queued(i)
    BY <1>2, <1>3 DEF Served, Queued
  <2>3. \A n \in DOMAIN queue' : n \in Queued(i)' <=> n + 1 \in Queued(i)
    BY <1>2 DEF Queued
  <2>4. Queued(i)' \subseteq DOMAIN queue'
    BY DEF Queued
  <2>5. CASE job[i].at = "waiting"
    <3>1. PICK n \in DOMAIN queue : Queued(i) = {n}
      BY <1>a, <2>1, <2>5 DEF Waits, Single
    <3>2. CASE n = 1
      <4>1. Queued(i)' = {}
        BY <1>2, <2>3, <2>4, <3>1, <3>2
      <4> QED
        BY <1>1, <2>2, <2>5, <3>1, <3>2, <4>1 DEF Waits, Single
    <3>3. CASE n # 1
      <4>1. n - 1 \in DOMAIN queue'
        BY <1>2, <3>3
      <4>2. Queued(i)' = {n - 1}
        BY <1>2, <2>3, <2>4, <3>1, <4>1
      <4>3. ~ Served(i)'
        BY <2>2, <3>1, <3>3
      <4> QED
        BY <1>1, <2>5, <4>1, <4>2, <4>3 DEF Waits, Single
    <3> QED
      BY <3>2, <3>3
  <2>6. CASE job[i].at # "waiting"
    <3>1. Queued(i) = {}
      BY <1>a, <2>6 DEF Waits, None
    <3>2. Queued(i)' = {} /\ ~ Served(i)'
      BY <2>2, <2>3, <2>4, <3>1
    <3> QED
      BY <1>1, <2>6, <3>2 DEF Waits, None
  <2> QED
    BY <2>5, <2>6
<1> QED
  BY <1>4, <1>5 DEF IInv

\* The service goes on with the request it has.
LEMMA ServeOnKeeps ==
  ASSUME IInv, ServiceShape(service)', service # Free, service' # Free,
         service'.request = service.request, UNCHANGED <<job, queue>>
  PROVE  IInv'
<1>1. ASSUME NEW i \in Jobs PROVE Waits(i)'
  BY SameRequests DEF IInv, Served
<1> QED
  BY <1>1 DEF IInv, Shapes

\* The service is done with its request: if the job waits for it, the job moves.
LEMMA DoneKeeps ==
  ASSUME IInv, service # Free, service' = Free, queue' = queue, DOMAIN job' = Jobs,
         \A i \in Jobs : job'[i] = job[i] \/ (Served(i) /\ JobShape(job'[i]) /\ job'[i].at # "waiting"),
         \A i \in Jobs : Served(i) => job'[i].at # "waiting"
  PROVE  IInv'
<1>1. ASSUME NEW i \in Jobs PROVE Waits(i)'
  <2>1. Waits(i) /\ ~ Served(i)' /\ Queued(i)' = Queued(i)
    BY DEF IInv, Served, Queued
  <2>2. CASE Served(i)
    <3>1. Queued(i) = {}
      BY <2>1, <2>2 DEF Waits, Single, None
    <3> QED
      BY <2>1, <2>2, <3>1 DEF Waits, None
  <2>3. CASE ~ Served(i)
    BY <2>1, <2>3 DEF Waits, Single, None
  <2> QED
    BY <2>2, <2>3
<1>2. Shapes'
  BY DEF IInv, Shapes, ServiceShape
<1> QED
  BY <1>1, <1>2 DEF IInv

LEMMA BreaksKeeps ==
  ASSUME IInv, Breaks
  PROVE  IInv'
<1>1. service # Free /\ service' = Free /\ queue' = queue
  BY DEF Breaks
<1>2. DOMAIN job = Jobs /\ service.request \in Request
  BY <1>1 DEF IInv, Shapes, ServiceShape
<1>3. job' = IF service.request.live THEN [job EXCEPT ![service.request.job] = Idle] ELSE job
  BY DEF Breaks
<1>4. /\ DOMAIN job' = Jobs
      /\ \A i \in Jobs : (Served(i) /\ job'[i] = Idle) \/ (~ Served(i) /\ job'[i] = job[i])
  <2> DEFINE k == service.request.job
  <2>1. k \in Jobs
    BY <1>2 DEF Request
  <2>2. \A i \in Jobs : Served(i) <=> service.request.live /\ i = k
    BY <1>1 DEF Served
  <2> HIDE DEF k
  <2>3. job' = IF service.request.live THEN [job EXCEPT ![k] = Idle] ELSE job
    BY <1>3 DEF k
  <2>4. CASE service.request.live
    <3>1. job' = [job EXCEPT ![k] = Idle]
      BY <2>3, <2>4
    <3>2. DOMAIN job' = Jobs /\ job'[k] = Idle /\ \A i \in Jobs : i # k => job'[i] = job[i]
      BY <1>2, <2>1, <3>1
    <3>3. \A i \in Jobs : Served(i) <=> i = k
      BY <2>2, <2>4
    <3> QED
      BY <3>2, <3>3, Zenon
  <2>5. CASE ~ service.request.live
    <3>1. job' = job
      BY <2>3, <2>5
    <3> QED
      BY <1>2, <2>2, <2>5, <3>1
  <2> QED
    BY <2>4, <2>5
<1>5. JobShape(Idle) /\ Idle.at # "waiting"
  BY DEF JobShape, Idle
<1>6. \A i \in Jobs : job'[i] = job[i] \/ (Served(i) /\ JobShape(job'[i]) /\ job'[i].at # "waiting")
  BY <1>4, <1>5
<1>7. \A i \in Jobs : Served(i) => job'[i].at # "waiting"
  BY <1>4, <1>5
<1> QED
  BY <1>1, <1>4, <1>6, <1>7, DoneKeeps

LEMMA AnswerKeeps ==
  ASSUME IInv, Answer
  PROVE  IInv'
<1> DEFINE r == service.request
           j == r.job
           at == IF r.image < Images[j] THEN "calling" ELSE "done"
<1>1. service # Free /\ service' = Free /\ queue' = queue
  <2>1. service.at = "answer" /\ service' = Free /\ queue' = queue
    BY DEF Answer
  <2> QED
    BY <2>1 DEF Free
<1>2. DOMAIN job = Jobs /\ r \in Request /\ \A i \in Jobs : JobShape(job[i]) /\ Waits(i)
  BY <1>1 DEF IInv, Shapes, ServiceShape
<1>3. j \in Jobs
  BY <1>2 DEF Request
<1>4. CASE ~ r.live
  <2>1. job' = job
    BY <1>4 DEF Answer
  <2>2. \A i \in Jobs : ~ Served(i)
    BY <1>4 DEF Served
  <2> QED
    <3>1. DOMAIN job' = Jobs
      BY <1>2, <2>1
    <3>2. \A i \in Jobs : job'[i] = job[i] \/ (Served(i) /\ JobShape(job'[i]) /\ job'[i].at # "waiting")
      BY <2>1
    <3>3. \A i \in Jobs : Served(i) => job'[i].at # "waiting"
      BY <2>2
    <3> QED
      BY <1>1, <3>1, <3>2, <3>3, DoneKeeps
<1>5. CASE r.live
  <2>1. Served(j) /\ job[j].at = "waiting" /\ \A i \in Jobs : i # j => ~ Served(i)
    BY <1>1, <1>2, <1>3, <1>5 DEF Served, Waits, None
  <2>2. \E rows, read : job' = [job EXCEPT ![j] =
          [at |-> at, hints |-> job[j].hints, image |-> job[j].image + 1, rows |-> rows, read |-> read]]
    BY <1>5, Zenon DEF Answer
  <2>3. at \in {"calling", "done"}
    OBVIOUS
  <2>4. job[j].hints \in Hints /\ job[j].image + 1 \in Nat
    BY <1>2, <1>3, <2>1 DEF JobShape, Idle
  <2> HIDE DEF at, j
  <2>5. DOMAIN job' = Jobs /\ JobShape(job'[j]) /\ job'[j].at # "waiting"
        /\ \A i \in Jobs : i # j => job'[i] = job[i]
    <3>1. PICK rows, read : job' = [job EXCEPT ![j] =
            [at |-> at, hints |-> job[j].hints, image |-> job[j].image + 1, rows |-> rows, read |-> read]]
      BY <2>2
    <3>2. job'[j] = [at |-> at, hints |-> job[j].hints, image |-> job[j].image + 1, rows |-> rows, read |-> read]
      BY <1>2, <1>3, <3>1
    <3>3. JobShape(job'[j]) /\ job'[j].at # "waiting"
      BY <2>3, <2>4, <3>2 DEF JobShape
    <3> QED
      BY <1>2, <3>1, <3>3
  <2> QED
    <3>1. \A i \in Jobs : job'[i] = job[i] \/ (Served(i) /\ JobShape(job'[i]) /\ job'[i].at # "waiting")
      BY <2>1, <2>5
    <3>2. \A i \in Jobs : Served(i) => job'[i].at # "waiting"
      BY <2>1, <2>5
    <3> QED
      BY <1>1, <2>5, <3>1, <3>2, DoneKeeps
<1> QED
  BY <1>4, <1>5

LEMMA NextIInv == IInv /\ [Next]_vars => IInv'
<1> SUFFICES ASSUME IInv, [Next]_vars PROVE IInv'
  OBVIOUS
<1>a. DOMAIN job = Jobs /\ ServiceShape(service)
  BY DEF IInv, Shapes
<1>b. \A page, attempt, read : \A request \in Request :
        LET x == [at |-> "validate", request |-> request, page |-> page, attempt |-> attempt, read |-> read]
        IN  ServiceShape(x) /\ x # Free /\ x.request = request
  BY DEF ServiceShape, Free
<1>c. \A rows, read : \A request \in Request :
        LET x == [at |-> "answer", request |-> request, rows |-> rows, read |-> read]
        IN  ServiceShape(x) /\ x # Free /\ x.request = request
  BY DEF ServiceShape, Free
<1>1. ASSUME NEW j \in Jobs, NEW hints \in Hints, StartJob(j, hints) PROVE IInv'
  <2> DEFINE x == [at |-> "calling", hints |-> hints, image |-> 1, rows |-> <<>>, read |-> <<>>]
  <2>1. JobShape(x) /\ x.at # "waiting" /\ job[j].at # "waiting"
    BY <1>1 DEF StartJob, JobShape, Idle
  <2> QED
    BY <1>1, <2>1, QuietKeeps DEF StartJob
<1>2. ASSUME NEW j \in Jobs, SaveDrafts(j) PROVE IInv'
  <2>1. JobShape(Idle) /\ Idle.at # "waiting" /\ job[j].at # "waiting"
    BY <1>2 DEF SaveDrafts, JobShape, Idle
  <2> QED
    BY <1>2, <2>1, QuietKeeps DEF SaveDrafts
<1>3. ASSUME NEW j \in Jobs, Call(j) \/ TimeOut(j) PROVE IInv'
  BY <1>3, CallKeeps, TimeOutKeeps
<1>4. CASE ExtractPage
  <2>1. service # Free /\ service.request \in Request /\ UNCHANGED <<job, queue>>
    BY <1>4, <1>a DEF ExtractPage, ServiceShape, Free
  <2>2. \/ \E page, read : service' = [at |-> "validate", request |-> service.request,
                                       page |-> page, attempt |-> 1, read |-> read]
        \/ \E rows, read : service' = [at |-> "answer", request |-> service.request, rows |-> rows, read |-> read]
    BY <1>4 DEF ExtractPage, Check, Stop
  <2> QED
    BY <1>b, <1>c, <2>1, <2>2, ServeOnKeeps
<1>5. CASE ValidatePage
  <2>1. service # Free /\ service.request \in Request /\ UNCHANGED <<job, queue>>
    BY <1>5, <1>a DEF ValidatePage, ServiceShape, Free
  <2>2. \/ \E rows, read : service' = [at |-> "answer", request |-> service.request, rows |-> rows, read |-> read]
        \/ service' = [service EXCEPT !.at = "correct"]
    BY <1>5 DEF ValidatePage, Stop
  <2>3. CASE service' = [service EXCEPT !.at = "correct"]
    <3>1. service = [at |-> service.at, request |-> service.request, page |-> service.page,
                     attempt |-> service.attempt, read |-> service.read]
      BY <1>5, <1>a, <2>1 DEF ValidatePage, ServiceShape
    <3>2. service' = [at |-> "correct", request |-> service.request, page |-> service.page,
                      attempt |-> service.attempt, read |-> service.read]
      BY <2>3, <3>1
    <3>3. ServiceShape(service)' /\ service' # Free /\ service'.request = service.request
      BY <2>1, <3>2 DEF ServiceShape, Free
    <3> QED
      BY <2>1, <3>3, ServeOnKeeps
  <2> QED
    BY <1>c, <2>1, <2>2, <2>3, ServeOnKeeps
<1>6. CASE CorrectEntries
  <2>1. service # Free /\ service.request \in Request /\ UNCHANGED <<job, queue>>
    BY <1>6, <1>a DEF CorrectEntries, ServiceShape, Free
  <2>2. \/ \E page, attempt, read : service' = [at |-> "validate", request |-> service.request,
                                                page |-> page, attempt |-> attempt, read |-> read]
        \/ \E rows, read : service' = [at |-> "answer", request |-> service.request, rows |-> rows, read |-> read]
    BY <1>6 DEF CorrectEntries, Check, Stop
  <2> QED
    BY <1>b, <1>c, <2>1, <2>2, ServeOnKeeps
<1>7. CASE Accept \/ Breaks \/ Answer
  BY <1>7, AcceptKeeps, BreaksKeeps, AnswerKeeps
<1>8. CASE UNCHANGED vars
  <2>1. ASSUME NEW i \in Jobs PROVE Waits(i)'
    BY <1>8, SameRequests DEF vars, IInv, Served
  <2> QED
    BY <1>8, <2>1 DEF vars, IInv, Shapes
<1> QED
  BY <1>1, <1>2, <1>3, <1>4, <1>5, <1>6, <1>7, <1>8 DEF Next, JobStep, Serve

\* A job waits for exactly one request that is still on its way, and a job that
\* does not wait can be reached by no answer, for any number of jobs, however many
\* of their requests timed out and are still worked on.
THEOREM OneRequestHolds == Spec => []OneRequestPerJob
<1>1. IInv => OneRequestPerJob
  <2> SUFFICES ASSUME IInv, NEW j \in Jobs
               PROVE  IF job[j].at = "waiting" THEN Cardinality(Queued(j)) + (IF Served(j) THEN 1 ELSE 0) = 1
                      ELSE Queued(j) = {} /\ ~ Served(j)
    BY DEF OneRequestPerJob, Queued, Served
  <2>1. Waits(j)
    BY DEF IInv
  <2>2. \A n : Cardinality({n}) = 1
    BY FS_Singleton
  <2>3. Cardinality({}) = 0
    BY FS_EmptySet
  <2>4. CASE job[j].at = "waiting" /\ Served(j)
    BY <2>1, <2>3, <2>4 DEF Waits, Single
  <2>5. CASE job[j].at = "waiting" /\ ~ Served(j)
    <3>1. Cardinality(Queued(j)) = 1
      BY <2>1, <2>2, <2>5 DEF Waits, Single
    <3> QED
      BY <2>5, <3>1
  <2>6. CASE job[j].at # "waiting"
    BY <2>1, <2>6 DEF Waits, None
  <2> QED
    BY <2>4, <2>5, <2>6
<1> QED
  BY <1>1, InitIInv, NextIInv, PTL DEF Spec

-----------------------------------------------------------------------------
(***************************************************************************)
(* What becomes of the entries of a page, from the first reading to the    *)
(* drafts.                                                                 *)
(***************************************************************************)
Why == Rules \cup {"parser_error", "correction_mismatch", "model"}

RowType == [raw : Texts, category : Texts, day : DateTexts, hours : HourTexts,
            marked : BOOLEAN, reasons : SUBSET Why, image : Nat]

\* What validate_page knows of a row without a reason.
Passed(row, h) ==
  row.reasons = {} =>
    /\ \E c \in h.categories : Fold[c] = Fold[row.category]
    /\ row.day.service \in Days
    /\ h.rates = {} \/ \E r \in h.rates : /\ Casefold[r.category] = Casefold[row.category]
                                       /\ RateCovers(r, row.day.service)

\* One draft of UnquestionedIsRated.
Rated(d, h) ==
  d.reasons = {} /\ d.category \in h.categories /\ d.day.program # NoDay
    /\ h.rates # {} /\ Distinct(h)
  => \E r \in h.rates : /\ r.category = d.category
                        /\ r.from <= d.day.program
                        /\ r.to # Open => d.day.program <= r.to

\* NothingLost of one job.
Accounted(rows, read) ==
  /\ \A n \in DOMAIN rows : rows[n].image \in DOMAIN read
  /\ \A k \in DOMAIN read : Cardinality({n \in DOMAIN rows : rows[n].image = k}) = read[k]
  /\ \A n, m \in DOMAIN rows : n <= m => rows[n].image <= rows[m].image

\* A job has the rows of the images before its next one.
Collected(x) ==
  x # Idle =>
    /\ Accounted(x.rows, x.read)
    /\ \A n \in DOMAIN x.rows : IF x.at = "done" THEN Rated(x.rows[n], x.hints)
                               ELSE Passed(x.rows[n], x.hints)
    /\ x.read \in Seq(Nat) /\ Len(x.read) + 1 = x.image
    /\ x.at # "done" => x.rows \in Seq(RowType)

\* A request somebody waits for is about the image and the hints of its job.
Asked(r, jobs) ==
  r.live => /\ jobs[r.job].at = "waiting"
            /\ r.image = jobs[r.job].image /\ r.hints = jobs[r.job].hints

\* The service has as many rows to answer with as the page had entries at first.
Rows(rows, read, r) ==
  /\ rows \in Seq(RowType) /\ Len(rows) = read
  /\ \A n \in DOMAIN rows : rows[n].image = r.image /\ Passed(rows[n], r.hints)

Working(x, jobs) ==
  x # Free =>
    /\ Asked(x.request, jobs)
    /\ x.at \in {"validate", "correct"} => x.page \in Seq(Entries) /\ Len(x.page) = x.read
    /\ x.at = "answer" => Rows(x.rows, x.read, x.request)

Carried ==
  /\ \A j \in Jobs : Collected(job[j])
  /\ \A n \in DOMAIN queue : Asked(queue[n], job)
  /\ Working(service, job)

-----------------------------------------------------------------------------
\* The equation of the loop of validate_page.
Sorts(g, page, hints, flagged) ==
  g = [n \in 0 .. Len(page) |->
         IF n = 0 THEN <<>>
         ELSE IF (Reasons(page[n], hints) # {}) = flagged
         THEN Append(g[n - 1], page[n])
         ELSE g[n - 1]]

LEMMA SortsExists ==
  ASSUME NEW page \in Seq(Entries), NEW hints, NEW flagged
  PROVE  \E g : Sorts(g, page, hints, flagged)
<1> DEFINE N == Len(page)
           In(n) == (Reasons(page[n], hints) # {}) = flagged
           Upto(g, m) == g = [n \in 0 .. m |-> IF n = 0 THEN <<>>
                                               ELSE IF In(n) THEN Append(g[n - 1], page[n]) ELSE g[n - 1]]
           Q == {m \in 0 .. N : \E g : Upto(g, m)}
<1>1. N \in Nat
  OBVIOUS
<1> HIDE DEF N
<1>2. 0 \in Q
  <2>1. Upto([n \in 0 .. 0 |-> <<>>], 0)
    OBVIOUS
  <2> HIDE DEF Upto
  <2> QED
    BY <1>1, <2>1
<1>3. ASSUME NEW m \in 0 .. N - 1, m \in Q PROVE m + 1 \in Q
  <2>1. PICK g : Upto(g, m)
    BY <1>3
  <2> DEFINE last == IF In(m + 1) THEN Append(g[m], page[m + 1]) ELSE g[m]
             h == [n \in 0 .. m + 1 |-> IF n = m + 1 THEN last ELSE g[n]]
  <2>2. Upto(h, m + 1)
    <3>1. ASSUME NEW n \in 0 .. m + 1, n # 0
          PROVE  h[n] = IF In(n) THEN Append(h[n - 1], page[n]) ELSE h[n - 1]
      <4>1. n - 1 \in 0 .. m /\ h[n - 1] = g[n - 1]
        BY <1>1, <1>3, <3>1
      <4>2. CASE n = m + 1
        <5>1. n - 1 = m /\ h[n] = last
          BY <1>1, <1>3, <4>2
        <5> HIDE DEF In, h
        <5> QED
          BY <4>1, <4>2, <5>1
      <4>3. CASE n # m + 1
        <5>1. n \in 0 .. m /\ h[n] = g[n]
          BY <1>1, <1>3, <3>1, <4>3
        <5>2. g[n] = IF In(n) THEN Append(g[n - 1], page[n]) ELSE g[n - 1]
          <6> HIDE DEF In
          <6> QED
            BY <2>1, <3>1, <5>1
        <5> HIDE DEF In, h
        <5> QED
          BY <4>1, <5>1, <5>2
      <4> QED
        BY <4>2, <4>3
    <3>2. h[0] = <<>>
      <4>1. 0 \in 0 .. m + 1 /\ 0 # m + 1 /\ 0 \in 0 .. m
        BY <1>1
      <4>2. g[0] = <<>>
        BY <2>1, <4>1
      <4> QED
        BY <4>1, <4>2
    <3>3. h = [n \in 0 .. m + 1 |-> h[n]]
      OBVIOUS
    <3> HIDE DEF h, In
    <3> QED
      BY <3>1, <3>2, <3>3
  <2> HIDE DEF Upto
  <2> QED
    BY <1>1, <2>2
<1> HIDE DEF Q
<1>4. \A n \in 0 .. N : n \in Q
  BY <1>1, <1>2, <1>3, CountUp
<1>5. N \in Q
  BY <1>1, <1>4
<1>6. \E g : Upto(g, N)
  <2> HIDE DEF Upto
  <2> QED
    BY <1>5 DEF Q
<1> QED
  BY <1>6 DEF Sorts, N

LEMMA SortedLoop ==
  ASSUME NEW page \in Seq(Entries), NEW hints, NEW flagged
  PROVE  \E g : Sorts(g, page, hints, flagged) /\ Sorted(page, hints, flagged) = g[Len(page)]
<1>1. Sorted(page, hints, flagged) = (CHOOSE g : Sorts(g, page, hints, flagged))[Len(page)]
  BY Zenon DEF Sorted, Sorts
<1>2. Sorts(CHOOSE g : Sorts(g, page, hints, flagged), page, hints, flagged)
  BY SortsExists
<1> QED
  BY <1>1, <1>2

\* Every entry of a page comes out on one side.
LEMMA SortedPage ==
  ASSUME NEW page \in Seq(Entries), NEW hints
  PROVE  /\ Valid(page, hints) \in Seq(Entries) /\ Flagged(page, hints) \in Seq(Entries)
         /\ Len(Valid(page, hints)) + Len(Flagged(page, hints)) = Len(page)
         /\ \A n \in DOMAIN Valid(page, hints) : Reasons(Valid(page, hints)[n], hints) = {}
         /\ \A n \in DOMAIN Flagged(page, hints) : Reasons(Flagged(page, hints)[n], hints) # {}
<1> DEFINE N == Len(page)
<1>1. N \in Nat /\ \A n \in 1 .. N : page[n] \in Entries
  OBVIOUS
<1>2. PICK good : Sorts(good, page, hints, FALSE) /\ Valid(page, hints) = good[N]
  BY SortedLoop DEF Valid
<1>3. PICK bad : Sorts(bad, page, hints, TRUE) /\ Flagged(page, hints) = bad[N]
  BY SortedLoop DEF Flagged
<1> HIDE DEF N
<1> DEFINE Split(g, b, m) ==
             /\ g \in Seq(Entries) /\ b \in Seq(Entries) /\ Len(g) + Len(b) = m
             /\ \A n \in 1 .. Len(g) : Reasons(g[n], hints) = {}
             /\ \A n \in 1 .. Len(b) : Reasons(b[n], hints) # {}
           Q == {m \in 0 .. N : Split(good[m], bad[m], m)}
<1>4. good[0] = <<>> /\ bad[0] = <<>>
  BY <1>1, <1>2, <1>3 DEF Sorts, N
<1>5. ASSUME NEW m \in 1 .. N
      PROVE  \/ /\ Reasons(page[m], hints) = {}
                /\ good[m] = Append(good[m - 1], page[m]) /\ bad[m] = bad[m - 1]
             \/ /\ Reasons(page[m], hints) # {}
                /\ good[m] = good[m - 1] /\ bad[m] = Append(bad[m - 1], page[m])
  <2>1. m \in 0 .. Len(page) /\ m # 0
    BY <1>1 DEF N
  <2>2. good[m] = IF (Reasons(page[m], hints) # {}) = FALSE
                  THEN Append(good[m - 1], page[m]) ELSE good[m - 1]
    BY <1>2, <2>1 DEF Sorts
  <2>3. bad[m] = IF (Reasons(page[m], hints) # {}) = TRUE
                 THEN Append(bad[m - 1], page[m]) ELSE bad[m - 1]
    BY <1>3, <2>1 DEF Sorts
  <2> QED
    BY <2>2, <2>3
<1>6. 0 \in Q
  <2>1. Split(<<>>, <<>>, 0)
    OBVIOUS
  <2> HIDE DEF Split
  <2> QED
    BY <1>1, <1>4, <2>1
<1>7. ASSUME NEW m \in 0 .. N - 1, m \in Q PROVE m + 1 \in Q
  <2> DEFINE g == good[m]
             b == bad[m]
             e == page[m + 1]
             g1 == good[m + 1]
             b1 == bad[m + 1]
  <2>1. m \in Nat /\ m + 1 \in 1 .. N /\ e \in Entries /\ m + 1 - 1 = m
    BY <1>1
  <2>2. \/ Reasons(e, hints) = {} /\ g1 = Append(g, e) /\ b1 = b
        \/ Reasons(e, hints) # {} /\ g1 = g /\ b1 = Append(b, e)
    <3> DEFINE k == m + 1
    <3>1. k \in 1 .. N /\ k - 1 = m
      BY <2>1
    <3> HIDE DEF k
    <3>2. \/ Reasons(page[k], hints) = {} /\ good[k] = Append(good[m], page[k]) /\ bad[k] = bad[m]
          \/ Reasons(page[k], hints) # {} /\ good[k] = good[m] /\ bad[k] = Append(bad[m], page[k])
      BY <1>5, <3>1
    <3> QED
      BY <3>2 DEF k
  <2>a. Split(g, b, m)
    <3> HIDE DEF Split
    <3> QED
      BY <1>7
  <2> HIDE DEF g, b, e, g1, b1
  <2>3. Split(g1, b1, m + 1)
    <3>1. CASE Reasons(e, hints) = {} /\ g1 = Append(g, e) /\ b1 = b
      <4>1. /\ g1 \in Seq(Entries) /\ Len(g1) = Len(g) + 1 /\ Len(g) \in Nat /\ Len(b) \in Nat
            /\ \A n \in 1 .. Len(g) + 1 : g1[n] = IF n = Len(g) + 1 THEN e ELSE g[n]
        BY <2>1, <2>a, <3>1
      <4>2. ASSUME NEW n \in 1 .. Len(g1) PROVE Reasons(g1[n], hints) = {}
        <5>1. CASE n = Len(g) + 1
          BY <3>1, <4>1, <5>1
        <5>2. CASE n # Len(g) + 1
          <6>1. n \in 1 .. Len(g) /\ g1[n] = g[n]
            BY <4>1, <5>2
          <6> QED
            BY <2>a, <6>1
        <5> QED
          BY <5>1, <5>2
      <4>3. Len(g1) + Len(b1) = m + 1
        BY <2>1, <2>a, <3>1, <4>1
      <4> QED
        BY <2>a, <3>1, <4>1, <4>2, <4>3
    <3>2. CASE Reasons(e, hints) # {} /\ g1 = g /\ b1 = Append(b, e)
      <4>1. /\ b1 \in Seq(Entries) /\ Len(b1) = Len(b) + 1 /\ Len(b) \in Nat /\ Len(g) \in Nat
            /\ \A n \in 1 .. Len(b) + 1 : b1[n] = IF n = Len(b) + 1 THEN e ELSE b[n]
        BY <2>1, <2>a, <3>2
      <4>2. \A n \in 1 .. Len(b1) : Reasons(b1[n], hints) # {}
        BY <2>a, <3>2, <4>1
      <4>3. Len(g1) + Len(b1) = m + 1
        BY <2>1, <2>a, <3>2, <4>1
      <4> QED
        BY <2>a, <3>2, <4>1, <4>2, <4>3
    <3> QED
      BY <2>2, <3>1, <3>2
  <2> HIDE DEF Split
  <2> QED
    BY <2>1, <2>3 DEF g1, b1
<1> HIDE DEF Q
<1>8. N \in Q
  <2>1. \A n \in 0 .. N : n \in Q
    BY <1>1, <1>6, <1>7, CountUp
  <2> QED
    BY <1>1, <2>1
<1>9. Split(good[N], bad[N], N)
  <2> HIDE DEF Split
  <2> QED
    BY <1>8 DEF Q
<1>10. /\ DOMAIN good[N] = 1 .. Len(good[N]) /\ DOMAIN bad[N] = 1 .. Len(bad[N])
  BY <1>9
<1> QED
  BY <1>2, <1>3, <1>9, <1>10 DEF N

-----------------------------------------------------------------------------
\* An entry without a reason has passed.
LEMMA CleanEntry ==
  ASSUME NEW e \in Entries, NEW h \in Hints, Reasons(e, h) = {}
  PROVE  /\ \E c \in h.categories : Fold[c] = Fold[e.category]
         /\ e.day.service \in Days
         /\ h.rates = {} \/ \E r \in h.rates : /\ Casefold[r.category] = Casefold[e.category]
                                            /\ RateCovers(r, e.day.service)
<1>1. \A rule \in Rules : ~ Fails(rule, e, h)
  BY DEF Reasons
<1>2. /\ ~ Fails("unknown_category", e, h) /\ ~ Fails("invalid_date", e, h)
      /\ ~ Fails("missing_rate", e, h)
  BY <1>1 DEF Rules
<1>3. \E c \in h.categories : Fold[c] = Fold[e.category]
  BY <1>2 DEF Fails
<1>4. e.day.service \in Days /\ e.day.service # NoDay
  <2>1. e.day.service \in Days \cup {NoDay}
    BY DEF Entries, DateTexts
  <2> QED
    BY <1>2, <2>1 DEF Fails
<1>5. ASSUME h.rates # {}
      PROVE  \E r \in h.rates : /\ Casefold[r.category] = Casefold[e.category]
                                /\ RateCovers(r, e.day.service)
  BY <1>2, <1>4, <1>5 DEF Fails
<1> QED
  BY <1>3, <1>4, <1>5

LEMMA RowIsRow ==
  ASSUME NEW e \in Entries, NEW marked \in BOOLEAN, NEW reasons \in SUBSET Why, NEW image \in Nat
  PROVE  Row(e, marked, reasons, image) \in RowType
<1>1. e.raw \in Texts /\ e.category \in Texts /\ e.day \in DateTexts /\ e.hours \in HourTexts
  BY DEF Entries
<1>2. [raw |-> e.raw, category |-> e.category, day |-> e.day, hours |-> e.hours,
       marked |-> marked, reasons |-> reasons, image |-> image] \in RowType
  BY <1>1, Zenon DEF RowType
<1> QED
  BY <1>2 DEF Row

LEMMA KeptRows ==
  ASSUME NEW page \in Seq(Entries), NEW r \in Request, NEW more \in SUBSET Why
  PROVE  Rows(Kept(page, r.hints, more, r.image), Len(page), r)
<1> DEFINE h     == r.hints
           image == r.image
           good  == Valid(page, h)
           bad   == Flagged(page, h)
           first == [n \in DOMAIN good |-> Row(good[n], good[n].marked, good[n].said, image)]
           rest  == [n \in DOMAIN bad |-> Row(bad[n], TRUE, Reasons(bad[n], h) \cup more, image)]
<1>1. h \in Hints /\ image \in Nat
  BY DEF Request
<1>2. /\ good \in Seq(Entries) /\ bad \in Seq(Entries) /\ Len(good) + Len(bad) = Len(page)
      /\ \A n \in DOMAIN good : Reasons(good[n], h) = {}
      /\ \A n \in DOMAIN bad : Reasons(bad[n], h) # {}
  BY SortedPage
<1>3. Kept(page, h, more, image) = first \o rest
  BY DEF Kept
<1>4. \A e : Reasons(e, h) \in SUBSET Why
  BY DEF Reasons, Why
<1> HIDE DEF h, image, good, bad
<1>5. /\ DOMAIN good = 1 .. Len(good) /\ Len(good) \in Nat
      /\ DOMAIN bad = 1 .. Len(bad) /\ Len(bad) \in Nat
      /\ \A n \in DOMAIN good : good[n] \in Entries
      /\ \A n \in DOMAIN bad : bad[n] \in Entries
  BY <1>2
<1>6. ASSUME NEW n \in DOMAIN good
      PROVE  first[n] \in RowType /\ first[n].image = image /\ Passed(first[n], h)
  <2>1. first[n] = Row(good[n], good[n].marked, good[n].said, image) /\ good[n] \in Entries
    BY <1>5
  <2>2. first[n] \in RowType
    <3>1. good[n].marked \in BOOLEAN /\ good[n].said \in SUBSET Why
      BY <2>1 DEF Entries, Why
    <3> HIDE DEF first
    <3> QED
      BY <1>1, <2>1, <3>1, RowIsRow
  <2>3. Passed(first[n], h)
    <3>1. Reasons(good[n], h) = {}
      BY <1>2
    <3>2. /\ first[n].category = good[n].category /\ first[n].day = good[n].day
      BY <2>1 DEF Row
    <3> QED
      BY <1>1, <2>1, <3>1, <3>2, CleanEntry DEF Passed
  <2> QED
    BY <2>1, <2>2, <2>3 DEF Row
<1>7. ASSUME NEW n \in DOMAIN bad
      PROVE  rest[n] \in RowType /\ rest[n].image = image /\ Passed(rest[n], h)
  <2> DEFINE why == Reasons(bad[n], h) \cup more
  <2>1. rest[n] = Row(bad[n], TRUE, why, image) /\ bad[n] \in Entries
    BY <1>5
  <2>2. why \in SUBSET Why /\ why # {}
    BY <1>2, <1>4
  <2> HIDE DEF why, rest
  <2>3. rest[n] \in RowType
    BY <1>1, <2>1, <2>2, RowIsRow
  <2>4. rest[n].reasons # {} /\ rest[n].image = image
    BY <2>1, <2>2 DEF Row
  <2> QED
    BY <2>3, <2>4 DEF Passed
<1>8. /\ first \in Seq(RowType) /\ Len(first) = Len(good)
      /\ rest \in Seq(RowType) /\ Len(rest) = Len(bad)
  <2>1. /\ DOMAIN first = 1 .. Len(good) /\ \A n \in 1 .. Len(good) : first[n] \in RowType
        /\ DOMAIN rest = 1 .. Len(bad) /\ \A n \in 1 .. Len(bad) : rest[n] \in RowType
    BY <1>5, <1>6, <1>7
  <2>2. first = [n \in 1 .. Len(good) |-> first[n]] /\ rest = [n \in 1 .. Len(bad) |-> rest[n]]
    BY <2>1
  <2> HIDE DEF first, rest
  <2> QED
    BY <1>5, <2>1, <2>2
<1> HIDE DEF first, rest
<1> DEFINE all == first \o rest
<1>9. /\ all \in Seq(RowType) /\ Len(all) = Len(page)
      /\ \A n \in DOMAIN all : \/ n \in DOMAIN good /\ all[n] = first[n]
                               \/ n - Len(good) \in DOMAIN bad /\ all[n] = rest[n - Len(good)]
  BY <1>2, <1>5, <1>8
<1>10. \A n \in DOMAIN all : all[n].image = image /\ Passed(all[n], h)
  BY <1>6, <1>7, <1>9
<1> QED
  BY <1>3, <1>9, <1>10 DEF Rows, h, image, all

\* The placeholder is one row, to be reviewed.
LEMMA PlaceholderRow ==
  ASSUME NEW r \in Request
  PROVE  Rows(<<Placeholder(r.image)>>, 1, r)
<1> DEFINE row == Placeholder(r.image)
<1>1. row \in RowType /\ row.image = r.image /\ row.reasons # {}
  <2>1. r.image \in Nat
    BY DEF Request
  <2>2. "?" \in Texts /\ "" \in Texts
    BY TextsAssumption
  <2>3. {"parser_error"} \in SUBSET Why
    BY DEF Why
  <2>4. row = [raw |-> "?", category |-> "", day |-> [service |-> NoDay, program |-> NoDay],
               hours |-> [service |-> 0, program |-> 0], marked |-> TRUE, reasons |-> {"parser_error"}, image |-> r.image]
    BY DEF Placeholder
  <2> HIDE DEF row
  <2>5. row.image = r.image /\ row.reasons = {"parser_error"}
    BY <2>4
  <2>6. row \in RowType
    <3>1. [service |-> NoDay, program |-> NoDay] \in DateTexts
      BY DEF DateTexts
    <3>2. [service |-> 0, program |-> 0] \in HourTexts
      BY DEF HourTexts
    <3> QED
      BY <2>1, <2>2, <2>3, <2>4, <3>1, <3>2, Zenon DEF RowType
  <2> QED
    BY <2>5, <2>6
<1> HIDE DEF row
<1>2. <<row>> \in Seq(RowType) /\ Len(<<row>>) = 1 /\ DOMAIN <<row>> = {1} /\ <<row>>[1] = row
  BY <1>1
<1> QED
  BY <1>1, <1>2 DEF Rows, Passed, row

-----------------------------------------------------------------------------
\* A draft without a reason has a rate of its own category, when the service found
\* one for its row.
LEMMA DraftOfRow ==
  ASSUME NEW row \in RowType, NEW h \in Hints, Passed(row, h)
  PROVE  LET d == Draft(row, h.categories)
         IN  d.image = row.image /\ Rated(d, h)
<1> DEFINE d == Draft(row, h.categories)
<1>1. d.image = row.image /\ d.reasons = row.reasons /\ d.day = row.day
  BY DEF Draft
<1>2. ASSUME row.reasons = {} PROVE d.category = row.category
  <2>1. PICK c \in h.categories : Fold[c] = Fold[row.category]
    BY <1>2 DEF Passed
  <2>2. c \in Texts \ {""} /\ Trim[c] = c /\ row.category \in Texts
    BY HintsAssumption DEF RowType
  <2>3. row.category # "" /\ Trim[row.category] = row.category
    BY <2>1, <2>2, TextsAssumption
  <2> QED
    BY <2>3 DEF Draft
<1> HIDE DEF d
<1>3. Rated(d, h)
  <2> SUFFICES ASSUME d.reasons = {}, d.category \in h.categories, d.day.program # NoDay,
                      h.rates # {}, Distinct(h)
               PROVE  \E r \in h.rates : /\ r.category = d.category
                                         /\ r.from <= d.day.program
                                         /\ r.to # Open => d.day.program <= r.to
    BY DEF Rated
  <2>1. PICK r \in h.rates : /\ Casefold[r.category] = Casefold[row.category]
                             /\ RateCovers(r, row.day.service)
    BY <1>1 DEF Passed
  <2>2. r.category = d.category
    BY <1>1, <1>2, <2>1 DEF Distinct
  <2>3. row.day.service = d.day.program
    <3>1. row.day.service \in Days /\ NoDay \notin Days
      BY <1>1, DaysAssumption DEF Passed
    <3> QED
      BY <1>1, <3>1 DEF RowType, DateTexts
  <2> QED
    BY <2>1, <2>2, <2>3 DEF RateCovers
<1> QED
  BY <1>1, <1>3 DEF d

\* The places of two sequences that follow one another.
LEMMA Joined ==
  ASSUME NEW S, NEW a \in Seq(S), NEW b \in Seq(S)
  PROVE  /\ Len(a) \in Nat /\ Len(b) \in Nat /\ a \o b \in Seq(S)
         /\ DOMAIN (a \o b) = 1 .. Len(a) + Len(b)
         /\ \A n \in DOMAIN (a \o b) :
              \/ n \in DOMAIN a /\ (a \o b)[n] = a[n]
              \/ n - Len(a) \in DOMAIN b /\ (a \o b)[n] = b[n - Len(a)]
OBVIOUS

\* The rows of one more image follow those of the images before.
LEMMA OneMoreImage ==
  ASSUME NEW rows \in Seq(RowType), NEW read \in Seq(Nat), Accounted(rows, read),
         NEW more \in Seq(RowType), NEW image, image = Len(read) + 1,
         \A n \in DOMAIN more : more[n].image = image
  PROVE  Accounted(rows \o more, Append(read, Len(more)))
<1> DEFINE all == rows \o more
           new == Append(read, Len(more))
           N == Len(rows)
           M == Len(more)
           R == Len(read)
<1>1. N \in Nat /\ M \in Nat /\ R \in Nat /\ DOMAIN rows = 1 .. N /\ DOMAIN read = 1 .. R
      /\ DOMAIN more = 1 .. M
  OBVIOUS
<1>2. /\ DOMAIN all = 1 .. N + M
      /\ \A n \in 1 .. N : all[n] = rows[n]
      /\ \A n \in N + 1 .. N + M : n - N \in 1 .. M /\ all[n] = more[n - N]
  BY <1>1
<1>3. DOMAIN new = 1 .. R + 1 /\ new[R + 1] = M /\ \A k \in 1 .. R : new[k] = read[k]
  BY <1>1
<1> HIDE DEF all, new, N, M, R
<1>4. /\ \A n \in 1 .. N : all[n].image \in 1 .. R
      /\ \A n \in N + 1 .. N + M : all[n].image = R + 1
  BY <1>1, <1>2 DEF Accounted, R
<1>5. \A n \in DOMAIN all : all[n].image \in DOMAIN new
  BY <1>1, <1>2, <1>3, <1>4
<1>6. ASSUME NEW k \in DOMAIN new
      PROVE  Cardinality({n \in DOMAIN all : all[n].image = k}) = new[k]
  <2>1. CASE k = R + 1
    <3>1. {n \in DOMAIN all : all[n].image = k} = N + 1 .. N + M
      BY <1>1, <1>2, <1>4, <2>1
    <3>2. Cardinality(N + 1 .. N + M) = M
      BY <1>1, FS_Interval
    <3> QED
      BY <1>3, <2>1, <3>1, <3>2
  <2>2. CASE k # R + 1
    <3>1. k \in 1 .. R
      BY <1>1, <1>3, <2>2
    <3>2. {n \in DOMAIN all : all[n].image = k} = {n \in DOMAIN rows : rows[n].image = k}
      BY <1>1, <1>2, <1>4, <2>2
    <3> QED
      BY <1>1, <1>3, <3>1, <3>2 DEF Accounted
  <2> QED
    BY <2>1, <2>2
<1>7. ASSUME NEW n \in DOMAIN all, NEW m \in DOMAIN all, n <= m
      PROVE  all[n].image <= all[m].image
  <2>1. CASE m \in 1 .. N
    <3>1. n \in 1 .. N
      BY <1>1, <1>2, <1>7, <2>1
    <3> QED
      BY <1>1, <1>2, <1>7, <2>1, <3>1 DEF Accounted
  <2>2. CASE m \in N + 1 .. N + M
    BY <1>1, <1>2, <1>4, <2>2
  <2> QED
    BY <1>1, <1>2, <2>1, <2>2
<1> QED
  BY <1>5, <1>6, <1>7 DEF Accounted, all, new, M

-----------------------------------------------------------------------------
\* A request whose job has not moved.
LEMMA StillAsked ==
  ASSUME NEW r, NEW old, NEW new, Asked(r, old), r.live => new[r.job] = old[r.job]
  PROVE  Asked(r, new)
BY DEF Asked

LEMMA InitCarried == Init => Carried
<1> SUFFICES ASSUME Init PROVE Carried
  OBVIOUS
<1>1. \A j \in Jobs : job[j] = Idle
  BY DEF Init
<1>2. DOMAIN queue = {} /\ service = Free
  BY DEF Init
<1> QED
  BY <1>1, <1>2 DEF Carried, Collected, Working

\* A job nobody works for moves.
LEMMA QuietCarries ==
  ASSUME IInv, Carried, NEW j \in Jobs, NEW x, Collected(x), job[j].at # "waiting",
         job' = [job EXCEPT ![j] = x], UNCHANGED <<queue, service>>
  PROVE  Carried'
<1>1. None(j) /\ DOMAIN job = Jobs
  BY DEF IInv, Shapes, Waits
<1>2. job'[j] = x /\ \A i \in Jobs : i # j => job'[i] = job[i]
  BY <1>1
<1>3. \A i \in Jobs : Collected(job'[i])
  BY <1>2 DEF Carried
<1>4. ASSUME NEW n \in DOMAIN queue PROVE Asked(queue[n], job')
  <2>1. queue[n] \in Request /\ Asked(queue[n], job)
    BY DEF IInv, Shapes, Carried
  <2>2. queue[n].live => queue[n].job # j /\ queue[n].job \in Jobs
    BY <1>1, <2>1 DEF None, Queued, Request
  <2> QED
    BY <1>2, <2>1, <2>2, StillAsked
<1>5. Working(service', job')
  <2>1. CASE service # Free
    <3>1. service.request \in Request /\ Asked(service.request, job)
      BY <2>1 DEF IInv, Shapes, ServiceShape, Carried, Working
    <3>2. service.request.live => service.request.job # j /\ service.request.job \in Jobs
      BY <1>1, <2>1, <3>1 DEF None, Served, Request
    <3>3. Asked(service.request, job')
      BY <1>2, <3>1, <3>2, StillAsked
    <3> QED
      BY <3>3 DEF Carried, Working
  <2>2. CASE service = Free
    BY <2>2 DEF Working
  <2> QED
    BY <2>1, <2>2
<1> QED
  BY <1>3, <1>4, <1>5 DEF Carried

LEMMA CallCarries ==
  ASSUME IInv, Carried, NEW j \in Jobs, Call(j)
  PROVE  Carried'
<1> DEFINE new == [job |-> j, live |-> TRUE, hints |-> job[j].hints, image |-> job[j].image]
           x   == [job[j] EXCEPT !.at = "waiting"]
<1>1. /\ None(j) /\ DOMAIN job = Jobs /\ queue \in Seq(Request) /\ JobShape(job[j])
      /\ job[j].at = "calling" /\ Collected(job[j])
  BY DEF IInv, Shapes, Waits, Carried, Call
<1>2. queue' = Append(queue, new) /\ service' = service /\ job' = [job EXCEPT ![j] = x]
  BY DEF Call
<1>3. /\ x = [at |-> "waiting", hints |-> job[j].hints, image |-> job[j].image,
              rows |-> job[j].rows, read |-> job[j].read]
      /\ job[j].hints \in Hints /\ job[j].image \in Nat /\ job[j] # Idle
  BY <1>1 DEF JobShape, Idle
<1>4. /\ x.at = "waiting" /\ x.hints = job[j].hints /\ x.image = job[j].image
      /\ x.rows = job[j].rows /\ x.read = job[j].read /\ x # Idle
  BY <1>3 DEF Idle
<1>5. new \in Request /\ new.job = j /\ new.live /\ new.image = job[j].image /\ new.hints = job[j].hints
  BY <1>3 DEF Request
<1> HIDE DEF x, new
<1>6. job'[j] = x /\ \A i \in Jobs : i # j => job'[i] = job[i]
  BY <1>1, <1>2
<1>7. Collected(x)
  BY <1>1, <1>3, <1>4 DEF Collected
<1>8. \A i \in Jobs : Collected(job'[i])
  BY <1>6, <1>7 DEF Carried
<1>9. /\ DOMAIN queue' = 1 .. Len(queue) + 1 /\ DOMAIN queue = 1 .. Len(queue)
      /\ Len(queue) \in Nat /\ queue'[Len(queue) + 1] = new
      /\ \A n \in DOMAIN queue : queue'[n] = queue[n]
  BY <1>1, <1>2, <1>5
<1>10. ASSUME NEW n \in DOMAIN queue' PROVE Asked(queue'[n], job')
  <2>1. CASE n = Len(queue) + 1
    <3>1. Asked(new, job')
      BY <1>4, <1>5, <1>6 DEF Asked
    <3> QED
      BY <1>9, <2>1, <3>1 DEF Asked
  <2>2. CASE n \in DOMAIN queue
    <3>1. queue[n] \in Request /\ Asked(queue[n], job)
      BY <1>1, <2>2 DEF Carried
    <3>2. queue[n].live => queue[n].job # j /\ queue[n].job \in Jobs
      BY <1>1, <2>2, <3>1 DEF None, Queued, Request
    <3>3. Asked(queue[n], job')
      BY <1>6, <3>1, <3>2, StillAsked
    <3> QED
      BY <1>9, <2>2, <3>3 DEF Asked
  <2> QED
    BY <1>9, <2>1, <2>2
<1>11. Working(service', job')
  <2>1. CASE service # Free
    <3>1. service.request \in Request /\ Asked(service.request, job)
      BY <2>1 DEF IInv, Shapes, ServiceShape, Carried, Working
    <3>2. service.request.live => service.request.job # j /\ service.request.job \in Jobs
      BY <1>1, <2>1, <3>1 DEF None, Served, Request
    <3>3. Asked(service.request, job')
      BY <1>6, <3>1, <3>2, StillAsked
    <3> QED
      BY <1>2, <3>3 DEF Carried, Working, Asked
  <2>2. CASE service = Free
    BY <1>2, <2>2 DEF Working
  <2> QED
    BY <2>1, <2>2
<1> QED
  BY <1>8, <1>10, <1>11 DEF Carried

\* The service goes on with the request it has.
LEMMA ServeCarries ==
  ASSUME IInv, Carried, service # Free, service'.request = service.request,
         UNCHANGED <<job, queue>>,
         \/ /\ service'.at \in {"validate", "correct"}
            /\ service'.page \in Seq(Entries) /\ Len(service'.page) = service'.read
         \/ /\ service'.at = "answer"
            /\ Rows(service'.rows, service'.read, service.request)
  PROVE  Carried'
<1>1. Asked(service.request, job) /\ \A n \in DOMAIN queue : Asked(queue[n], job)
  BY DEF Carried, Working
<1>2. Asked(service.request, job') /\ Asked(service'.request, job') /\ \A n \in DOMAIN queue : Asked(queue[n], job')
  BY <1>1, StillAsked DEF Asked
<1>3. Working(service', job')
  BY <1>2 DEF Working
<1>4. \A j \in Jobs : Collected(job'[j])
  BY DEF Carried
<1> QED
  BY <1>2, <1>3, <1>4 DEF Carried

LEMMA AcceptCarries ==
  ASSUME IInv, Carried, Accept
  PROVE  Carried'
<1>1. queue \in Seq(Request) /\ queue # <<>> /\ job' = job
  BY DEF IInv, Shapes, Accept
<1>2. service' = [at |-> "extract", request |-> queue[1]] /\ queue' = Tail(queue)
  BY DEF Accept
<1>3. /\ 1 \in DOMAIN queue /\ DOMAIN queue' = 1 .. Len(queue) - 1 /\ DOMAIN queue = 1 .. Len(queue)
      /\ Len(queue) \in Nat
      /\ \A n \in DOMAIN queue' : n + 1 \in DOMAIN queue /\ queue'[n] = queue[n + 1]
  BY <1>1, <1>2
<1>4. \A n \in DOMAIN queue : Asked(queue[n], job')
  BY <1>1, StillAsked DEF Carried
<1>5. \A n \in DOMAIN queue' : Asked(queue'[n], job')
  BY <1>3, <1>4 DEF Asked
<1>6. Working(service', job')
  <2>1. service'.at = "extract" /\ service'.request = queue[1]
    BY <1>2
  <2>2. Asked(service'.request, job')
    BY <1>3, <1>4, <2>1 DEF Asked
  <2> QED
    BY <2>1, <2>2 DEF Working
<1> QED
  BY <1>1, <1>5, <1>6 DEF Carried

\* A job gives up: what it had is gone, and its requests are nobody's.
LEMMA TimeOutCarries ==
  ASSUME IInv, Carried, NEW j \in Jobs, TimeOut(j)
  PROVE  Carried'
<1>1. DOMAIN job = Jobs /\ queue \in Seq(Request) /\ ServiceShape(service)
  BY DEF IInv, Shapes
<1>2. job'[j] = Idle /\ \A i \in Jobs : i # j => job'[i] = job[i]
  BY <1>1 DEF TimeOut
<1>3. \A i \in Jobs : Collected(job'[i])
  BY <1>2 DEF Carried, Collected
<1>4. ASSUME NEW n \in DOMAIN queue' PROVE Asked(queue'[n], job')
  <2>1. /\ n \in DOMAIN queue
        /\ queue'[n] = IF queue[n].job = j THEN [queue[n] EXCEPT !.live = FALSE] ELSE queue[n]
    BY <1>4 DEF TimeOut, HangUp
  <2>2. queue[n] \in Request /\ Asked(queue[n], job)
    BY <1>1, <2>1 DEF Carried
  <2>3. CASE queue[n].job = j
    <3>1. ~ queue'[n].live
      BY <2>1, <2>2, <2>3 DEF Request
    <3> QED
      BY <3>1 DEF Asked
  <2>4. CASE queue[n].job # j
    <3>1. queue[n].job \in Jobs
      BY <2>2 DEF Request
    <3> QED
      BY <1>2, <2>1, <2>2, <2>4, <3>1, StillAsked
  <2> QED
    BY <2>3, <2>4
<1>5. Working(service', job')
  <2>1. CASE service = Free
    <3>1. service' = Free
      BY <2>1 DEF TimeOut, HangUp
    <3> QED
      BY <3>1 DEF Working
  <2>2. CASE service # Free /\ service.request.job # j
    <3>1. service' = service
      BY <2>2 DEF TimeOut, HangUp
    <3>2. service.request.job \in Jobs /\ Asked(service.request, job)
      BY <1>1, <2>2 DEF ServiceShape, Request, Carried, Working
    <3>3. Asked(service.request, job')
      BY <1>2, <2>2, <3>2, StillAsked
    <3> QED
      BY <3>1, <3>3 DEF Carried, Working
  <2>3. CASE service # Free /\ service.request.job = j
    <3> DEFINE r == [service.request EXCEPT !.live = FALSE]
    <3>1. service' = [service EXCEPT !.request = r]
      BY <2>3 DEF TimeOut, HangUp
    <3>2. service.request \in Request
      BY <1>1, <2>3 DEF ServiceShape
    <3>3. ~ r.live /\ r.image = service.request.image /\ r.hints = service.request.hints
      BY <3>2 DEF Request
    <3> HIDE DEF r
    <3>4. Asked(r, job')
      BY <3>3 DEF Asked
    <3>5. CASE service = [at |-> "extract", request |-> service.request]
      <4>1. service'.at = "extract" /\ service'.request = r
        BY <3>1, <3>5
      <4> QED
        BY <3>4, <4>1 DEF Working
    <3>6. CASE /\ service.at \in {"validate", "correct"}
               /\ service = [at |-> service.at, request |-> service.request, page |-> service.page,
                             attempt |-> service.attempt, read |-> service.read]
      <4>1. /\ service'.at = service.at /\ service'.request = r
            /\ service'.page = service.page /\ service'.read = service.read
        BY <3>1, <3>6
      <4>2. service.page \in Seq(Entries) /\ Len(service.page) = service.read
        BY <2>3, <3>6 DEF Carried, Working
      <4> QED
        BY <3>4, <3>6, <4>1, <4>2 DEF Working
    <3>7. CASE service = [at |-> "answer", request |-> service.request, rows |-> service.rows, read |-> service.read]
      <4>1. /\ service'.at = "answer" /\ service'.request = r
            /\ service'.rows = service.rows /\ service'.read = service.read
        BY <3>1, <3>7
      <4>2. service.at = "answer"
        BY <3>7
      <4>3. Rows(service.rows, service.read, service.request)
        BY <2>3, <4>2 DEF Carried, Working
      <4>4. Rows(service.rows, service.read, r)
        BY <3>3, <4>3 DEF Rows
      <4> QED
        BY <3>4, <4>1, <4>4 DEF Working
    <3> QED
      BY <1>1, <2>3, <3>5, <3>6, <3>7 DEF ServiceShape
  <2> QED
    BY <2>1, <2>2, <2>3
<1> QED
  BY <1>3, <1>4, <1>5 DEF Carried

\* The service is done with its request: the job that waited for it, if any, moves.
LEMMA DoneCarries ==
  ASSUME IInv, Carried, service # Free, service' = Free, queue' = queue, DOMAIN job' = Jobs,
         \A i \in Jobs : job'[i] = job[i] \/ (Served(i) /\ Collected(job'[i]))
  PROVE  Carried'
<1>1. \A i \in Jobs : Collected(job'[i])
  BY DEF Carried
<1>2. ASSUME NEW n \in DOMAIN queue PROVE Asked(queue[n], job')
  <2>1. queue[n] \in Request /\ Asked(queue[n], job)
    BY DEF IInv, Shapes, Carried
  <2>2. queue[n].live => queue[n].job \in Jobs /\ ~ Served(queue[n].job)
    <3> DEFINE i == queue[n].job
    <3>1. i \in Jobs
      BY <2>1 DEF Request
    <3>2. queue[n].live => Queued(i) # {}
      BY DEF Queued
    <3>3. Waits(i)
      BY <3>1 DEF IInv
    <3> HIDE DEF i
    <3>4. Served(i) => Queued(i) = {}
      BY <3>3 DEF Waits, Single, None
    <3> QED
      BY <3>1, <3>2, <3>4 DEF i
  <2>3. queue[n].live => job'[queue[n].job] = job[queue[n].job]
    BY <2>2
  <2> QED
    BY <2>1, <2>3, StillAsked
<1>3. Working(service', job')
  BY DEF Working
<1> QED
  BY <1>1, <1>2, <1>3 DEF Carried

LEMMA BreaksCarries ==
  ASSUME IInv, Carried, Breaks
  PROVE  Carried'
<1>1. service # Free /\ service' = Free /\ queue' = queue
  BY DEF Breaks
<1> DEFINE k == service.request.job
<1>2. DOMAIN job = Jobs /\ k \in Jobs
  BY <1>1 DEF IInv, Shapes, ServiceShape, Request
<1>3. job' = IF service.request.live THEN [job EXCEPT ![k] = Idle] ELSE job
  BY DEF Breaks
<1>4. Collected(Idle)
  BY DEF Collected
<1>5. service.request.live => Served(k)
  BY <1>1 DEF Served
<1> HIDE DEF k
<1>6. DOMAIN job' = Jobs /\ \A i \in Jobs : job'[i] = job[i] \/ (Served(i) /\ Collected(job'[i]))
  BY <1>2, <1>3, <1>4, <1>5
<1> QED
  BY <1>1, <1>6, DoneCarries

LEMMA AnswerCarries ==
  ASSUME IInv, Carried, Answer
  PROVE  Carried'
<1> DEFINE r    == service.request
           j    == r.job
           got  == job[j]
           rows == got.rows \o service.rows
           last == ~ (r.image < Images[j])
           x    == [at    |-> IF r.image < Images[j] THEN "calling" ELSE "done",
                    hints |-> got.hints,
                    image |-> got.image + 1,
                    rows  |-> IF r.image < Images[j] THEN rows
                              ELSE [n \in DOMAIN rows |-> Draft(rows[n], got.hints.categories)],
                    read  |-> Append(got.read, service.read)]
<1>1. service # Free /\ service.at = "answer" /\ service' = Free /\ queue' = queue
  <2>1. service.at = "answer" /\ service' = Free /\ queue' = queue
    BY DEF Answer
  <2> QED
    BY <2>1 DEF Free
<1>2. DOMAIN job = Jobs /\ r \in Request /\ j \in Jobs
  BY <1>1 DEF IInv, Shapes, ServiceShape, Request
<1>3. job' = IF ~ r.live THEN job ELSE [job EXCEPT ![j] = x]
  BY Zenon DEF Answer
<1>4. CASE ~ r.live
  <2>1. job' = job
    BY <1>3, <1>4
  <2> QED
    BY <1>1, <1>2, <2>1, DoneCarries
<1>5. CASE r.live
  <2>1. Rows(service.rows, service.read, r) /\ Asked(r, job)
    BY <1>1 DEF Carried, Working
  <2>2. got.at = "waiting" /\ r.image = got.image /\ r.hints = got.hints
    BY <1>5, <2>1 DEF Asked
  <2>3. got # Idle /\ Collected(got) /\ got.hints \in Hints
    <3>1. got # Idle
      BY <2>2 DEF Idle
    <3>2. JobShape(got) /\ Collected(got)
      BY <1>2 DEF IInv, Shapes, Carried
    <3> QED
      BY <3>1, <3>2 DEF JobShape
  <2>4. /\ Accounted(got.rows, got.read) /\ got.rows \in Seq(RowType) /\ got.read \in Seq(Nat)
        /\ Len(got.read) + 1 = got.image
        /\ \A n \in DOMAIN got.rows : Passed(got.rows[n], got.hints)
    BY <2>2, <2>3 DEF Collected
  <2>5. /\ service.rows \in Seq(RowType) /\ Len(service.rows) = service.read
        /\ \A n \in DOMAIN service.rows :
             service.rows[n].image = got.image /\ Passed(service.rows[n], got.hints)
    BY <2>1, <2>2 DEF Rows
  <2>6. Served(j)
    BY <1>1, <1>5 DEF Served
  <2> DEFINE drafts == [n \in DOMAIN rows |-> Draft(rows[n], got.hints.categories)]
             read   == Append(got.read, service.read)
  <2>7. /\ x # Idle /\ x.hints = got.hints /\ x.image = got.image + 1 /\ x.read = read
        /\ \/ x.at = "calling" /\ x.rows = rows
           \/ x.at = "done" /\ x.rows = drafts
    BY DEF Idle
  <2> HIDE DEF r, j, got, x
  <2>8. Accounted(rows, read)
    BY <2>4, <2>5, OneMoreImage
  <2>9. rows \in Seq(RowType) /\ \A n \in DOMAIN rows : Passed(rows[n], got.hints)
    <3>1. /\ Len(got.rows) \in Nat /\ Len(service.rows) \in Nat
          /\ rows \in Seq(RowType)
          /\ DOMAIN rows = 1 .. Len(got.rows) + Len(service.rows)
          /\ \A n \in DOMAIN rows :
               \/ n \in DOMAIN got.rows /\ rows[n] = got.rows[n]
               \/ n - Len(got.rows) \in DOMAIN service.rows
                  /\ rows[n] = service.rows[n - Len(got.rows)]
      <4> DEFINE a == got.rows
                 b == service.rows
      <4>1. a \in Seq(RowType) /\ b \in Seq(RowType)
        BY <2>4, <2>5
      <4> HIDE DEF a, b
      <4>2. /\ Len(a) \in Nat /\ Len(b) \in Nat /\ a \o b \in Seq(RowType)
            /\ DOMAIN (a \o b) = 1 .. Len(a) + Len(b)
            /\ \A n \in DOMAIN (a \o b) :
                 \/ n \in DOMAIN a /\ (a \o b)[n] = a[n]
                 \/ n - Len(a) \in DOMAIN b /\ (a \o b)[n] = b[n - Len(a)]
        BY <4>1, Joined
      <4> QED
        BY <4>2 DEF a, b
    <3> HIDE DEF rows
    <3> QED
      BY <2>4, <2>5, <3>1
  <2>10. read \in Seq(Nat) /\ Len(read) = Len(got.read) + 1 /\ Len(got.read) \in Nat
    BY <2>4, <2>5
  <2> HIDE DEF rows, read
  <2>11. /\ DOMAIN drafts = DOMAIN rows
         /\ \A n \in DOMAIN rows : drafts[n].image = rows[n].image /\ Rated(drafts[n], got.hints)
    <3>1. \A n \in DOMAIN rows : rows[n] \in RowType
      BY <2>9
    <3> QED
      BY <2>3, <2>9, <3>1, DraftOfRow
  <2> HIDE DEF drafts
  <2>12. Accounted(drafts, read)
    <3>1. \A k : {n \in DOMAIN drafts : drafts[n].image = k} = {n \in DOMAIN rows : rows[n].image = k}
      BY <2>11
    <3> QED
      BY <2>8, <2>11, <3>1 DEF Accounted
  <2>13. Collected(x)
    <3>1. x.read \in Seq(Nat) /\ Len(x.read) + 1 = x.image
      BY <2>4, <2>7, <2>10
    <3>2. CASE x.at = "calling" /\ x.rows = rows
      BY <2>7, <2>8, <2>9, <3>1, <3>2 DEF Collected
    <3>3. CASE x.at = "done" /\ x.rows = drafts
      BY <2>7, <2>11, <2>12, <3>1, <3>3 DEF Collected
    <3> QED
      BY <2>7, <3>2, <3>3
  <2>14. job' = [job EXCEPT ![j] = x]
    BY <1>3, <1>5
  <2>15. DOMAIN job' = Jobs /\ \A i \in Jobs : job'[i] = job[i] \/ (Served(i) /\ Collected(job'[i]))
    BY <1>2, <2>6, <2>13, <2>14
  <2> QED
    BY <1>1, <2>15, DoneCarries
<1> QED
  BY <1>4, <1>5

LEMMA NextCarried == IInv /\ Carried /\ [Next]_vars => Carried'
<1> SUFFICES ASSUME IInv, Carried, [Next]_vars PROVE Carried'
  OBVIOUS
<1>a. DOMAIN job = Jobs /\ ServiceShape(service)
  BY DEF IInv, Shapes
<1>1. ASSUME NEW j \in Jobs, NEW hints \in Hints, StartJob(j, hints) PROVE Carried'
  <2> DEFINE x == [at |-> "calling", hints |-> hints, image |-> 1, rows |-> <<>>, read |-> <<>>]
  <2>1. Accounted(<<>>, <<>>)
    BY DEF Accounted
  <2>2. Collected(x)
    <3>1. /\ x.rows = <<>> /\ x.read = <<>> /\ x.image = 1
          /\ <<>> \in Seq(Nat) /\ <<>> \in Seq(RowType) /\ Len(<<>>) = 0 /\ DOMAIN <<>> = {}
      OBVIOUS
    <3> HIDE DEF x
    <3> QED
      BY <2>1, <3>1 DEF Collected
  <2>3. job[j].at # "waiting"
    BY <1>1 DEF StartJob, Idle
  <2> QED
    BY <1>1, <2>2, <2>3, QuietCarries DEF StartJob
<1>2. ASSUME NEW j \in Jobs, SaveDrafts(j) PROVE Carried'
  <2>1. Collected(Idle) /\ job[j].at # "waiting"
    BY <1>2 DEF SaveDrafts, Collected
  <2> QED
    BY <1>2, <2>1, QuietCarries DEF SaveDrafts
<1>3. ASSUME NEW j \in Jobs, Call(j) \/ TimeOut(j) PROVE Carried'
  BY <1>3, CallCarries, TimeOutCarries
<1>b. ASSUME service.at \in {"extract", "validate", "correct"}
      PROVE  service # Free /\ service.request \in Request
  BY <1>a, <1>b DEF ServiceShape, Free
<1>4. CASE ExtractPage
  <2>1. service # Free /\ service.request \in Request /\ UNCHANGED <<job, queue>>
    BY <1>4, <1>b DEF ExtractPage
  <2>2. ASSUME NEW page \in Readings, Check(page, 1, Len(page)) PROVE Carried'
    <3>1. /\ service'.request = service.request /\ service'.at = "validate"
          /\ service'.page = page /\ service'.read = Len(page) /\ page \in Seq(Entries)
      BY <2>2, ReadingsAssumption DEF Check
    <3> QED
      BY <2>1, <3>1, ServeCarries
  <2>3. ASSUME Stop(<<Placeholder(service.request.image)>>, 1) PROVE Carried'
    <3>1. /\ service'.request = service.request /\ service'.at = "answer"
          /\ service'.rows = <<Placeholder(service.request.image)>> /\ service'.read = 1
      BY <2>3 DEF Stop
    <3> QED
      BY <2>1, <3>1, PlaceholderRow, ServeCarries
  <2> QED
    BY <1>4, <2>2, <2>3 DEF ExtractPage
<1> DEFINE page == service.page
           h    == service.request.hints
<1>c. ASSUME service.at \in {"validate", "correct"}
      PROVE  page \in Seq(Entries) /\ Len(page) = service.read
  BY <1>b, <1>c DEF Carried, Working
<1>d. ASSUME NEW more \in SUBSET Why, service.at \in {"validate", "correct"},
             Stop(Kept(page, h, more, service.request.image), service.read), UNCHANGED <<job, queue>>
      PROVE  Carried'
  <2>1. /\ service'.request = service.request /\ service'.at = "answer" /\ service'.read = service.read
        /\ service'.rows = Kept(page, h, more, service.request.image)
    BY <1>d DEF Stop
  <2>2. Rows(Kept(page, h, more, service.request.image), service.read, service.request)
    BY <1>b, <1>c, <1>d, KeptRows
  <2> QED
    BY <1>b, <1>d, <2>1, <2>2, ServeCarries
<1>5. CASE ValidatePage
  <2>1. service.at = "validate" /\ UNCHANGED <<job, queue>>
    BY <1>5 DEF ValidatePage
  <2>2. CASE Stop(Kept(page, h, {}, service.request.image), service.read)
    BY <1>d, <2>1, <2>2
  <2>3. CASE service' = [service EXCEPT !.at = "correct"]
    <3>1. service = [at |-> service.at, request |-> service.request, page |-> service.page,
                     attempt |-> service.attempt, read |-> service.read]
      BY <1>a, <1>b, <2>1 DEF ServiceShape
    <3>2. /\ service'.at = "correct" /\ service'.request = service.request
          /\ service'.page = page /\ service'.read = service.read
      BY <2>3, <3>1
    <3> QED
      BY <1>b, <1>c, <2>1, <3>2, ServeCarries
  <2> QED
    BY <1>5, <2>2, <2>3 DEF ValidatePage
<1>6. CASE CorrectEntries
  <2>1. service.at = "correct" /\ UNCHANGED <<job, queue>>
    BY <1>6 DEF CorrectEntries
  <2>2. ASSUME NEW again \in Readings, Len(again) = Len(Flagged(page, h)),
               Check(Valid(page, h) \o again, service.attempt + 1, service.read)
        PROVE  Carried'
    <3> DEFINE good == Valid(page, h)
               bad  == Flagged(page, h)
    <3>1. /\ service'.request = service.request /\ service'.at = "validate"
          /\ service'.page = good \o again /\ service'.read = service.read
      BY <2>2 DEF Check
    <3>2. good \in Seq(Entries) /\ bad \in Seq(Entries) /\ Len(good) + Len(bad) = service.read
      BY <1>c, <2>1, SortedPage
    <3>3. again \in Seq(Entries) /\ Len(again) = Len(bad)
      BY <2>2, ReadingsAssumption
    <3> HIDE DEF good, bad
    <3>4. good \o again \in Seq(Entries) /\ Len(good \o again) = service.read
      BY <3>2, <3>3
    <3> QED
      BY <1>b, <2>1, <3>1, <3>4, ServeCarries
  <2>3. {"correction_mismatch"} \in SUBSET Why /\ {"parser_error"} \in SUBSET Why
    BY DEF Why
  <2>4. \/ \E again \in Readings :
             \/ /\ Len(again) = Len(Flagged(page, h))
                /\ Check(Valid(page, h) \o again, service.attempt + 1, service.read)
             \/ Stop(Kept(page, h, {"correction_mismatch"}, service.request.image), service.read)
        \/ Stop(Kept(page, h, {"parser_error"}, service.request.image), service.read)
    BY <1>6 DEF CorrectEntries
  <2> QED
    BY <1>d, <2>1, <2>2, <2>3, <2>4
<1>7. CASE Accept \/ Breaks \/ Answer
  BY <1>7, AcceptCarries, BreaksCarries, AnswerCarries
<1>8. CASE UNCHANGED vars
  BY <1>8 DEF vars, Carried
<1> QED
  BY <1>1, <1>2, <1>3, <1>4, <1>5, <1>6, <1>7, <1>8 DEF Next, JobStep, Serve

LEMMA CarriedHolds == Spec => []Carried
BY InitIInv, NextIInv, InitCarried, NextCarried, PTL DEF Spec

\* Each image gives as many drafts as its first reading had entries, in the order
\* of the images, for any number of jobs, images, rounds and readings.
THEOREM NothingLostHolds == Spec => []NothingLost
<1>1. Carried => NothingLost
  BY DEF Carried, Collected, NothingLost, Accounted
<1> QED
  BY <1>1, CarriedHolds, PTL

\* A draft without a reason has a rate, whatever the model reads, whatever texts the
\* two parsers accept and whatever categories and rates there are.
THEOREM UnquestionedHolds == Spec => []UnquestionedIsRated
<1>1. IInv /\ Carried => UnquestionedIsRated
  <2> SUFFICES ASSUME IInv, Carried, NEW j \in Jobs, job[j].at = "done", NEW n \in DOMAIN job[j].rows
               PROVE  Rated(job[j].rows[n], job[j].hints)
    BY DEF UnquestionedIsRated, Rated
  <2>1. job[j] # Idle
    BY DEF Idle
  <2> QED
    BY <2>1 DEF Carried, Collected
<1> QED
  BY <1>1, CarriedHolds, InitIInv, NextIInv, PTL DEF Spec

=============================================================================
