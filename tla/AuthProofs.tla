------------------------------ MODULE AuthProofs ------------------------------
(***************************************************************************)
(* However many pages register and sign in at once, whatever statements    *)
(* fail and whenever the process dies: a name has one account, an answer   *)
(* is acted on once, nobody is signed in without a passkey, and no session *)
(* or handler names a user that does not exist.                            *)
(***************************************************************************)
EXTENDS Auth, FiniteSetTheorems, TLAPS

Accounts == [name : Names, passkey : BOOLEAN]

\* A row that has its passkey.
Complete(i, rows) == i \in DOMAIN rows /\ rows[i].passkey

\* What a handler relies on between two statements.  The one that is about to
\* create a user has seen that no row has the name in another case, which the
\* UNIQUE constraint would not notice.
SlotOK(x, rows) ==
  /\ x.at \in {"checking", "creating"} => x.name \in NewNames
  /\ x.at = "creating" =>
       \A i \in DOMAIN rows : Lower[rows[i].name] = x.name => rows[i].name = x.name
  /\ x.at = "saving" => x.user \in DOMAIN rows
  /\ x.at \in {"verifying", "signing"} => Complete(x.user, rows)

CeremonyOK(x, rows) ==
  \/ x \in [kind : {"reg"}, name : NewNames, age : Nat]
  \/ x \in [kind : {"login"}, user : DOMAIN rows, age : Nat] /\ Complete(x.user, rows)

Distinct(rows) ==
  \A i, j \in DOMAIN rows : Lower[rows[i].name] = Lower[rows[j].name] => i = j

IInv ==
  /\ DOMAIN slot = Slots
  /\ users \in Seq(Accounts)
  /\ Distinct(users)
  /\ \A t \in Slots : SlotOK(slot[t], users)
  /\ \A s \in DOMAIN pending : CeremonyOK(pending[s], users)
  /\ \A k \in DOMAIN sessions : Complete(sessions[k].user, users)

LEMMA InitIInv == Init => IInv
<1> SUFFICES ASSUME Init PROVE IInv
  OBVIOUS
<1>1. PICK old \in SUBSET OldNames :
        /\ users \in [1 .. Cardinality(old) -> [name : old, passkey : {TRUE}]]
        /\ \A i, j \in DOMAIN users : users[i].name = users[j].name => i = j
  BY DEF Init
<1>2. Cardinality(old) \in Nat
  BY FS_Subset, FS_CardinalityType, TokenAssumption
<1>3. users \in Seq(Accounts)
  <2>1. users \in [1 .. Cardinality(old) -> Accounts]
    BY <1>1 DEF Accounts, Names
  <2> QED
    BY <1>2, <2>1
<1>4. Distinct(users)
  BY <1>1, NamesAssumption DEF Distinct, Names
<1>5. \A t \in Slots : SlotOK(slot[t], users)
  BY DEF Init, Idle, SlotOK
<1> QED
  BY <1>3, <1>4, <1>5 DEF Init, IInv

\* Rows stay, keep their passkeys, and new ones have names in lower case.
Grown(rows, later) ==
  /\ DOMAIN rows \subseteq DOMAIN later
  /\ \A i \in DOMAIN rows : /\ later[i].name = rows[i].name
                            /\ rows[i].passkey => later[i].passkey
  /\ \A i \in DOMAIN later \ DOMAIN rows : later[i].name \in NewNames

LEMMA GrownKeeps ==
  ASSUME NEW rows, NEW later, Grown(rows, later)
  PROVE  /\ \A x : SlotOK(x, rows) => SlotOK(x, later)
         /\ \A x : CeremonyOK(x, rows) => CeremonyOK(x, later)
         /\ \A i : Complete(i, rows) => Complete(i, later)
<1>1. \A i : Complete(i, rows) => Complete(i, later)
  BY DEF Grown, Complete
<1>2. ASSUME NEW x, SlotOK(x, rows) PROVE SlotOK(x, later)
  <2>1. ASSUME x.at = "creating", NEW i \in DOMAIN later, Lower[later[i].name] = x.name
        PROVE  later[i].name = x.name
    BY <1>2, <2>1, NamesAssumption DEF Grown, SlotOK
  <2>2. x.at = "saving" => x.user \in DOMAIN later
    BY <1>2 DEF SlotOK, Grown
  <2> QED
    BY <1>1, <1>2, <2>1, <2>2 DEF SlotOK
<1>3. ASSUME NEW x, CeremonyOK(x, rows) PROVE CeremonyOK(x, later)
  BY <1>1, <1>3 DEF CeremonyOK, Grown
<1> QED
  BY <1>1, <1>2, <1>3

\* A step that makes no row and no ceremony: one slot moves on, or some fall idle.
LEMMA QuietKeeps ==
  ASSUME IInv, UNCHANGED users, DOMAIN slot' = Slots,
         \A t \in Slots : SlotOK(slot'[t], users),
         \A s \in DOMAIN pending' : CeremonyOK(pending'[s], users),
         \A k \in DOMAIN sessions' : Complete(sessions'[k].user, users)
  PROVE  IInv'
BY DEF IInv

LEMMA EnterKeeps ==
  ASSUME IInv, NEW t \in Slots, NEW x, Enter(t, x), SlotOK(x, users)
  PROVE  DOMAIN slot' = Slots /\ \A e \in Slots : SlotOK(slot'[e], users)
BY DEF IInv, Enter

LEMMA StartKeeps ==
  ASSUME IInv, NEW t \in Slots, NEW x, StartCeremony(t, x), CeremonyOK(x, users),
         UNCHANGED <<users, sessions>>
  PROVE  IInv'
<1> DEFINE s == CHOOSE y \in FreshSids : TRUE
           r == IF x.kind = "reg" THEN "register_finish" ELSE "login_finish"
<1>1. pending' = With(pending, s, x) /\ Enter(t, Prompt(s, r))
  BY DEF StartCeremony
<1>2. SlotOK(Prompt(s, r), users)
  BY DEF Prompt, SlotOK
<1>3. DOMAIN slot' = Slots /\ \A e \in Slots : SlotOK(slot'[e], users)
  <2> HIDE DEF s, r
  <2> QED BY <1>1, <1>2, EnterKeeps
<1>4. \A y \in DOMAIN pending' : CeremonyOK(pending'[y], users)
  <2> HIDE DEF s, r
  <2> QED BY <1>1 DEF With, IInv
<1> QED
  BY <1>3, <1>4, QuietKeeps DEF IInv

LEMMA BeginKeeps ==
  ASSUME IInv, NEW t \in Slots, Begin(t)
  PROVE  IInv'
<1>1. ASSUME NEW n \in Names, BeginRegistration(t, n) PROVE IInv'
  <2> DEFINE x == [kind |-> "reg", name |-> Lower[n], age |-> 0]
  <2>1. CeremonyOK(x, users)
    BY NamesAssumption DEF CeremonyOK
  <2>2. StartCeremony(t, x) /\ UNCHANGED <<users, sessions>>
    BY <1>1 DEF BeginRegistration
  <2> QED
    BY <2>1, <2>2, StartKeeps
<1>2. ASSUME NEW n \in Names, BeginLogin(t, n) PROVE IInv'
  <2>1. PICK i \in Candidates(n) : StartCeremony(t, [kind |-> "login", user |-> i, age |-> 0])
    BY <1>2 DEF BeginLogin
  <2>2. Complete(i, users)
    BY <2>1 DEF Candidates, Rows, Complete
  <2>3. CeremonyOK([kind |-> "login", user |-> i, age |-> 0], users)
    BY <2>2 DEF CeremonyOK, Complete
  <2> QED
    BY <1>2, <2>1, <2>3, StartKeeps DEF BeginLogin
<1>3. ASSUME NEW n, BeginFails(t, n) PROVE IInv'
  BY <1>3, QuietKeeps DEF BeginFails, authVars, IInv
<1> QED
  BY <1>1, <1>2, <1>3 DEF Begin

LEMMA FinishKeeps ==
  ASSUME IInv, NEW t \in Slots, Finish(t)
  PROVE  IInv'
<1>1. CASE Take(t)
  <2> DEFINE s == slot[t].sid
  <2>1. s \in DOMAIN pending /\ pending' = Without(pending, {s}) /\ Enter(t, Handler(t, s))
    BY <1>1 DEF Take
  <2>2. SlotOK(Handler(t, s), users)
    BY <2>1 DEF Handler, SlotOK, IInv, CeremonyOK
  <2>3. \A y \in DOMAIN pending' : CeremonyOK(pending'[y], users)
    BY <2>1 DEF Without, IInv
  <2> QED
    BY <1>1, <2>1, <2>2, <2>3, EnterKeeps, QuietKeeps DEF Take, IInv
<1>2. CASE TakeNothing(t) \/ FinishRefused(t)
  <2>1. SlotOK(Idle, users)
    BY DEF Idle, SlotOK
  <2> QED
    BY <1>2, <2>1, EnterKeeps, QuietKeeps DEF TakeNothing, FinishRefused, IInv
<1> QED
  BY <1>1, <1>2 DEF Finish

LEMMA CreateKeeps ==
  ASSUME IInv, NEW t \in Slots, CreateUser(t)
  PROVE  IInv'
<1> DEFINE name == slot[t].name
           row  == [name |-> name, passkey |-> FALSE]
           x    == [at |-> "saving", sid |-> slot[t].sid, route |-> slot[t].route,
                    user |-> Len(users) + 1]
<1>1. /\ name \in NewNames
      /\ \A i \in DOMAIN users : Lower[users[i].name] = name => users[i].name = name
      /\ \A i \in DOMAIN users : users[i].name # name
  BY DEF CreateUser, IInv, SlotOK, Rows
<1>2. users' = Append(users, row) /\ Enter(t, x) /\ UNCHANGED <<sessions, pending>>
  BY DEF CreateUser
<1>3. row \in Accounts /\ users \in Seq(Accounts)
  BY <1>1 DEF Accounts, Names, IInv
<1>4. /\ users' \in Seq(Accounts)
      /\ DOMAIN users' = DOMAIN users \cup {Len(users) + 1}
      /\ Len(users) + 1 \notin DOMAIN users
      /\ \A i \in DOMAIN users : users'[i] = users[i]
      /\ users'[Len(users) + 1] = row
  <2> HIDE DEF row
  <2> QED BY <1>2, <1>3
<1>5. Grown(users, users')
  BY <1>1, <1>4 DEF Grown
<1>6. Distinct(users')
  <2>1. \A i \in DOMAIN users : Lower[users[i].name] # Lower[name]
    BY <1>1, NamesAssumption
  <2>2. \A i, j \in DOMAIN users : Lower[users[i].name] = Lower[users[j].name] => i = j
    BY DEF IInv, Distinct
  <2> QED
    BY <1>4, <2>1, <2>2 DEF Distinct
<1>7. SlotOK(x, users')
  BY <1>4 DEF SlotOK
<1>8. DOMAIN slot' = Slots /\ \A e \in Slots : SlotOK(slot'[e], users')
  <2>1. DOMAIN slot' = Slots /\ slot'[t] = x /\ \A e \in Slots : e # t => slot'[e] = slot[e]
    BY <1>2 DEF Enter, IInv
  <2> HIDE DEF x
  <2> QED BY <1>5, <1>7, <2>1, GrownKeeps DEF IInv
<1> QED
  BY <1>2, <1>4, <1>5, <1>6, <1>8, GrownKeeps DEF IInv

LEMMA SaveKeeps ==
  ASSUME IInv, NEW t \in Slots, SaveCredential(t)
  PROVE  IInv'
<1> DEFINE n == slot[t].user
           x == Signing(t)
<1>1. n \in DOMAIN users /\ users \in Seq(Accounts)
  BY DEF SaveCredential, IInv, SlotOK
<1>2. /\ users' = [users EXCEPT ![n].passkey = TRUE]
      /\ Enter(t, x) /\ UNCHANGED <<sessions, pending>>
  BY DEF SaveCredential
<1>3. /\ users' \in Seq(Accounts)
      /\ DOMAIN users' = DOMAIN users
      /\ \A i \in DOMAIN users : /\ users'[i].name = users[i].name
                                 /\ users[i].passkey => users'[i].passkey
      /\ users'[n].passkey
  <2> HIDE DEF n
  <2>1. /\ users \in [1 .. Len(users) -> Accounts] /\ Len(users) \in Nat
        /\ DOMAIN users = 1 .. Len(users)
    BY <1>1
  <2>2. /\ DOMAIN users' = DOMAIN users /\ users' = [i \in DOMAIN users |-> users'[i]]
        /\ \A i \in DOMAIN users : i # n => users'[i] = users[i]
        /\ users'[n] = [users[n] EXCEPT !.passkey = TRUE]
    BY <1>1, <1>2
  <2>3. users[n] \in Accounts
    BY <1>1, <2>1
  <2>4. /\ users'[n] \in Accounts
        /\ users'[n].passkey
        /\ users'[n].name = users[n].name
    BY <2>2, <2>3 DEF Accounts
  <2>5. \A i \in 1 .. Len(users) : users'[i] \in Accounts
    BY <2>1, <2>2, <2>4
  <2>6. users' \in [1 .. Len(users) -> Accounts]
    BY <2>1, <2>2, <2>5
  <2>7. users' \in Seq(Accounts)
    BY <2>1, <2>6
  <2> QED BY <2>2, <2>4, <2>7
<1>4. Grown(users, users')
  BY <1>3 DEF Grown
<1>5. Distinct(users')
  BY <1>3 DEF IInv, Distinct
<1>6. x.at = "signing" /\ x.user = n
  BY DEF Signing
<1>7. DOMAIN slot' = Slots /\ \A e \in Slots : SlotOK(slot'[e], users')
  <2>1. DOMAIN slot' = Slots /\ slot'[t] = x /\ \A e \in Slots : e # t => slot'[e] = slot[e]
    BY <1>2 DEF Enter, IInv
  <2>2. SlotOK(x, users')
    <3> HIDE DEF x, n
    <3> QED BY <1>1, <1>3, <1>6 DEF SlotOK, Complete
  <2> HIDE DEF x
  <2> QED BY <1>4, <2>1, <2>2, GrownKeeps DEF IInv
<1> QED
  BY <1>2, <1>3, <1>4, <1>5, <1>7, GrownKeeps DEF IInv

LEMMA HandleKeeps ==
  ASSUME IInv, NEW t \in Slots, Handle(t)
  PROVE  IInv'
<1>1. CASE CheckAgain(t)
  <2> DEFINE x == [at |-> "creating", sid |-> slot[t].sid, route |-> slot[t].route, name |-> slot[t].name]
  <2>1. slot[t].name \in NewNames /\ ~ Taken(slot[t].name) /\ Enter(t, x)
    BY <1>1 DEF CheckAgain, IInv, SlotOK
  <2>2. \A i \in DOMAIN users : Lower[users[i].name] # slot[t].name
    BY <2>1, NamesAssumption DEF Taken
  <2>3. SlotOK(x, users)
    BY <2>1, <2>2 DEF SlotOK
  <2> QED
    BY <1>1, <2>1, <2>3, EnterKeeps, QuietKeeps DEF CheckAgain, IInv
<1>2. CASE CreateUser(t)
  BY <1>2, CreateKeeps
<1>3. CASE SaveCredential(t)
  BY <1>3, SaveKeeps
<1>4. CASE Verify(t)
  <2>1. Complete(slot[t].user, users) /\ Enter(t, Signing(t))
    BY <1>4 DEF Verify, IInv, SlotOK
  <2>2. SlotOK(Signing(t), users)
    BY <2>1 DEF SlotOK, Signing
  <2> QED
    BY <1>4, <2>1, <2>2, EnterKeeps, QuietKeeps DEF Verify, IInv
<1>5. CASE SignIn(t)
  <2> DEFINE k == CHOOSE y \in FreshTokens : TRUE
  <2>1. /\ Complete(slot[t].user, users)
        /\ sessions' = With(sessions, k, [user |-> slot[t].user, expired |-> FALSE])
        /\ Enter(t, Idle) /\ UNCHANGED <<users, pending>>
    BY <1>5 DEF SignIn, IInv, SlotOK
  <2>2. \A y \in DOMAIN sessions' : Complete(sessions'[y].user, users)
    <3> HIDE DEF k
    <3> QED BY <2>1 DEF With, IInv
  <2>3. SlotOK(Idle, users)
    BY DEF Idle, SlotOK
  <2> QED
    BY <2>1, <2>2, <2>3, EnterKeeps, QuietKeeps DEF IInv
<1>6. CASE Fails(t)
  <2>1. SlotOK(Idle, users)
    BY DEF Idle, SlotOK
  <2> QED
    BY <1>6, <2>1, EnterKeeps, QuietKeeps DEF Fails, IInv
<1> QED
  BY <1>1, <1>2, <1>3, <1>4, <1>5, <1>6 DEF Handle

LEMMA NextIInv == IInv /\ [Next]_vars => IInv'
<1> SUFFICES ASSUME IInv, [Next]_vars PROVE IInv'
  OBVIOUS
<1>0. SlotOK(Idle, users) /\ \A s, n : SlotOK(Prompt(s, n), users)
  BY DEF Idle, Prompt, SlotOK
<1>1. ASSUME NEW t \in Slots, Begin(t) PROVE IInv'
  BY <1>1, BeginKeeps
<1>2. ASSUME NEW t \in Slots, Abandon(t) PROVE IInv'
  BY <1>0, <1>2, EnterKeeps, QuietKeeps DEF Abandon, IInv
<1>3. ASSUME NEW t \in Slots, Finish(t) PROVE IInv'
  BY <1>3, FinishKeeps
<1>4. ASSUME NEW t \in Slots, Handle(t) PROVE IInv'
  BY <1>4, HandleKeeps
<1>5. ASSUME NEW t \in Slots, NEW e \in Slots, Redeliver(t, e) PROVE IInv'
  BY <1>0, <1>5, EnterKeeps, QuietKeeps DEF Redeliver, IInv
<1>6. ASSUME NEW c \in Clients, Logout(c) \/ Visit(c) PROVE IInv'
  BY <1>6, QuietKeeps DEF Logout, Visit, Without, IInv
<1>7. CASE Cleanup
  BY <1>7, QuietKeeps DEF Cleanup, Without, IInv
<1>8. CASE Sweep
  BY <1>8, QuietKeeps DEF Sweep, Without, IInv
<1>9. CASE Tick
  <2>1. DOMAIN slot' = Slots /\ UNCHANGED users
    BY <1>9 DEF Tick
  <2>2. ASSUME NEW t \in Slots PROVE SlotOK(slot'[t], users)
    <3>1. CASE slot[t].at = "prompting"
      BY <1>9, <3>1 DEF Tick, SlotOK
    <3>2. CASE slot[t].at # "prompting"
      BY <1>9, <3>2 DEF Tick, IInv
    <3> QED BY <3>1, <3>2
  <2>3. \A s \in DOMAIN pending' : CeremonyOK(pending'[s], users)
    <3>1. ASSUME NEW s \in DOMAIN pending PROVE CeremonyOK(pending'[s], users)
      <4>1. pending'[s] = [pending[s] EXCEPT !.age = IF @ > TTL THEN @ ELSE @ + 1]
        BY <1>9 DEF Tick
      <4>2. CeremonyOK(pending[s], users)
        BY DEF IInv
      <4> QED
        BY <4>1, <4>2 DEF CeremonyOK
    <3> QED
      BY <1>9, <3>1 DEF Tick
  <2>4. \A k \in DOMAIN sessions' : Complete(sessions'[k].user, users)
    BY <1>9 DEF Tick, IInv
  <2> QED
    BY <2>1, <2>2, <2>3, <2>4, QuietKeeps
<1>10. CASE Crash
  <2>1. DOMAIN slot' = Slots /\ \A t \in Slots : SlotOK(slot'[t], users)
    BY <1>0, <1>10 DEF Crash, IInv
  <2> QED
    BY <1>10, <2>1, QuietKeeps DEF Crash, Without, IInv
<1>11. CASE UNCHANGED vars
  BY <1>11, QuietKeeps DEF vars, IInv
<1> QED
  BY <1>1, <1>2, <1>3, <1>4, <1>5, <1>6, <1>7, <1>8, <1>9, <1>10, <1>11 DEF Next

\* No two rows of users have names that differ in case only, whatever two pages
\* that register a name at once do between their checks and the INSERT.
THEOREM OneAccountHolds == Spec => []OneAccountPerName
<1>1. IInv => OneAccountPerName
  BY DEF IInv, Distinct, OneAccountPerName
<1> QED
  BY <1>1, InitIInv, NextIInv, PTL DEF Spec

\* Every session belongs to a user whose passkey is stored.
THEOREM SessionsHavePasskeys == Spec => []SessionHasPasskey
<1>1. IInv => SessionHasPasskey
  BY DEF IInv, Complete, SessionHasPasskey
<1> QED
  BY <1>1, InitIInv, NextIInv, PTL DEF Spec

-----------------------------------------------------------------------------
Spent == DOMAIN slot = Slots /\ CeremonySpentOnce

\* A step after which nobody works who did not before on the same ceremony, and
\* which makes no ceremony pending.
LEMMA CalmKeeps ==
  ASSUME Spent, DOMAIN slot' = Slots, DOMAIN pending' \subseteq DOMAIN pending,
         \A t \in Slots : Working(t)' => Working(t) /\ slot'[t].sid = slot[t].sid
  PROVE  Spent'
BY DEF Spent, CeremonySpentOnce

LEMMA EnterCalm ==
  ASSUME Spent, NEW t \in Slots, NEW x, Enter(t, x),
         x.at \in {"idle", "prompting"} \/ (Working(t) /\ x.sid = slot[t].sid)
  PROVE  /\ DOMAIN slot' = Slots
         /\ \A e \in Slots : Working(e)' => Working(e) /\ slot'[e].sid = slot[e].sid
<1>1. DOMAIN slot' = Slots /\ slot'[t] = x /\ \A e \in Slots : e # t => slot'[e] = slot[e]
  BY DEF Enter, Spent
<1> QED
  BY <1>1 DEF Working

\* The new ceremony is one that no slot works on.
LEMMA StartSpent ==
  ASSUME Spent, NEW t \in Slots, NEW x, StartCeremony(t, x)
  PROVE  Spent'
<1> DEFINE s == CHOOSE y \in FreshSids : TRUE
           r == IF x.kind = "reg" THEN "register_finish" ELSE "login_finish"
<1>1. /\ s \in FreshSids /\ pending' = With(pending, s, x) /\ Enter(t, Prompt(s, r))
  BY DEF StartCeremony
<1>2. \A e \in Slots : Working(e) => slot[e].sid # s
  <2>1. \A e \in Slots : s \notin Sid(e)
    BY <1>1 DEF FreshSids
  <2>2. \A e \in Slots : Working(e) => slot[e] # Idle
    BY DEF Working, Idle
  <2> HIDE DEF s
  <2> QED BY <2>1, <2>2 DEF Sid
<1>3. /\ DOMAIN slot' = Slots
      /\ \A e \in Slots : Working(e)' => Working(e) /\ slot'[e].sid = slot[e].sid
  <2>1. Prompt(s, r).at = "prompting"
    BY DEF Prompt
  <2> HIDE DEF s, r
  <2> QED BY <1>1, <2>1, EnterCalm
<1>4. DOMAIN pending' = DOMAIN pending \cup {s}
  <2> HIDE DEF s
  <2> QED BY <1>1 DEF With
<1> QED
  <2> HIDE DEF s
  <2> QED BY <1>2, <1>3, <1>4 DEF Spent, CeremonySpentOnce

\* Whoever takes a ceremony is the only one who works on it: it was pending.
LEMMA TakeSpent ==
  ASSUME Spent, NEW t \in Slots, Take(t)
  PROVE  Spent'
<1> DEFINE s == slot[t].sid
<1>1. s \in DOMAIN pending /\ DOMAIN pending' = DOMAIN pending \ {s} /\ Enter(t, Handler(t, s))
  BY DEF Take, Without
<1>2. \A e \in Slots : Working(e) => slot[e].sid # s
  BY <1>1 DEF Spent, CeremonySpentOnce
<1>3. Handler(t, s).sid = s
  BY DEF Handler
<1>4. /\ DOMAIN slot' = Slots /\ slot'[t].sid = s
      /\ \A e \in Slots : e # t => slot'[e] = slot[e]
  <2> HIDE DEF s
  <2> QED BY <1>1, <1>3 DEF Enter, Spent
<1>5. \A e \in Slots : e # t => (Working(e)' <=> Working(e))
  BY <1>4 DEF Working
<1> QED
  <2> HIDE DEF s
  <2> QED BY <1>1, <1>2, <1>4, <1>5 DEF Spent, CeremonySpentOnce

LEMMA NextSpent == Spent /\ [Next]_vars => Spent'
<1> SUFFICES ASSUME Spent, [Next]_vars PROVE Spent'
  OBVIOUS
<1>0. Idle.at = "idle" /\ \A s, r : Prompt(s, r).at = "prompting"
  BY DEF Idle, Prompt
<1>1. ASSUME NEW t \in Slots, Begin(t) PROVE Spent'
  <2>1. CASE \E n \in Names : BeginRegistration(t, n) \/ BeginLogin(t, n)
    BY <2>1, StartSpent DEF BeginRegistration, BeginLogin
  <2>2. CASE \E n \in {"register_begin", "login_begin"} : BeginFails(t, n)
    BY <2>2, CalmKeeps DEF BeginFails, authVars, Working, Spent
  <2> QED
    BY <1>1, <2>1, <2>2 DEF Begin
<1>2. ASSUME NEW t \in Slots, Abandon(t) \/ TakeNothing(t) \/ FinishRefused(t) \/ Fails(t)
      PROVE  Spent'
  BY <1>0, <1>2, EnterCalm, CalmKeeps DEF Abandon, TakeNothing, FinishRefused, Fails
<1>3. ASSUME NEW t \in Slots, CheckAgain(t) \/ CreateUser(t) \/ SaveCredential(t) \/ Verify(t)
      PROVE  Spent'
  <2>1. Working(t) /\ \E x : x.sid = slot[t].sid /\ Enter(t, x)
    <3>1. CASE CheckAgain(t)
      BY <3>1 DEF CheckAgain, Working
    <3>2. CASE CreateUser(t)
      BY <3>2 DEF CreateUser, Working
    <3>3. CASE SaveCredential(t) \/ Verify(t)
      <4>1. Signing(t).sid = slot[t].sid
        BY DEF Signing
      <4> QED
        BY <3>3, <4>1 DEF SaveCredential, Verify, Working
    <3> QED
      BY <1>3, <3>1, <3>2, <3>3
  <2>2. UNCHANGED pending
    BY <1>3 DEF CheckAgain, CreateUser, SaveCredential, Verify
  <2> QED
    BY <2>1, <2>2, EnterCalm, CalmKeeps
<1>4. ASSUME NEW t \in Slots, SignIn(t) PROVE Spent'
  BY <1>0, <1>4, EnterCalm, CalmKeeps DEF SignIn
<1>5. ASSUME NEW t \in Slots, NEW e \in Slots, Redeliver(t, e) PROVE Spent'
  BY <1>0, <1>5, EnterCalm, CalmKeeps DEF Redeliver
<1>6. ASSUME NEW c \in Clients, Logout(c) \/ Visit(c) PROVE Spent'
  BY <1>6, CalmKeeps DEF Logout, Visit, Spent, Working
<1>7. CASE Cleanup \/ Sweep
  BY <1>7, CalmKeeps DEF Cleanup, Sweep, Without, Spent, Working
<1>8. CASE Tick
  <2>1. DOMAIN slot' = Slots /\ DOMAIN pending' = DOMAIN pending
    BY <1>8 DEF Tick
  <2>2. ASSUME NEW t \in Slots, Working(t)'
        PROVE  Working(t) /\ slot'[t].sid = slot[t].sid
    <3>1. CASE slot[t].at = "prompting"
      BY <1>8, <2>2, <3>1 DEF Tick, Working
    <3>2. CASE slot[t].at # "prompting"
      BY <1>8, <2>2, <3>2 DEF Tick, Working
    <3> QED
      BY <3>1, <3>2
  <2> QED
    BY <2>1, <2>2, CalmKeeps
<1>9. CASE Crash
  <2>1. DOMAIN slot' = Slots /\ DOMAIN pending' = {}
    BY <1>9 DEF Crash, Without
  <2>2. \A t \in Slots : ~ Working(t)'
    BY <1>0, <1>9 DEF Crash, Working
  <2> QED
    BY <2>1, <2>2, CalmKeeps
<1>10. CASE UNCHANGED vars
  BY <1>10 DEF vars, Spent, CeremonySpentOnce, Working
<1> QED
  BY <1>1, <1>2, <1>3, <1>4, <1>5, <1>6, <1>7, <1>8, <1>9, <1>10, TakeSpent
     DEF Next, Finish, Handle

\* No ceremony is acted on by two handlers, or acted on and still pending, however
\* often a finish request is delivered and whatever the sweeper deletes meanwhile.
THEOREM CeremonySpentOnceHolds == Spec => []CeremonySpentOnce
<1>1. Init => Spent
  BY DEF Init, Spent, CeremonySpentOnce, Working, Idle
<1>2. Spent => CeremonySpentOnce
  BY DEF Spent
<1> QED
  BY <1>1, <1>2, NextSpent, PTL DEF Spec

-----------------------------------------------------------------------------
\* The types, in parts: the buckets of the limiter, what the slots do, the
\* ceremonies, and the sessions with the cookies.
SlotTypes     == DOMAIN slot = Slots /\ \A t \in Slots : SlotState(slot[t])
CeremonyTypes == DOMAIN pending \subseteq Sids /\ \A s \in DOMAIN pending : Ceremony(pending[s])
SessionTypes  == /\ DOMAIN sessions \subseteq Tokens
                 /\ \A k \in DOMAIN sessions : sessions[k] \in [user : DOMAIN users, expired : BOOLEAN]
CookieTypes   == cookie \in [Clients -> Tokens \cup {NoToken}]
FaultTypes    == faults \in 0 .. MaxFaults

Types ==
  /\ users \in Seq(Accounts)
  /\ SlotTypes /\ CeremonyTypes /\ SessionTypes /\ CookieTypes /\ FaultTypes
  /\ BucketTypeOK

LEMMA QuotaPositive ==
  ASSUME NEW n \in Routes
  PROVE  Quota(n) \in Nat \ {0} /\ Policy[n].window \in Nat \ {0}
BY PolicyAssumption DEF Quota

Bucket(n) == [count : 0 .. Quota(n), left : 0 .. Policy[n].window]

LEMMA BucketsKept ==
  ASSUME BucketTypeOK,
         \/ \E n \in Routes, c \in Clients : Admit(n, c)
         \/ Elapse \/ Forget \/ UNCHANGED bucket
  PROVE  BucketTypeOK'
<1>a. DOMAIN bucket = Routes /\ \A n \in Routes : bucket[n] \in [Clients -> Bucket(n)]
  BY DEF BucketTypeOK, Bucket
<1>b. \A n \in Routes : NoBucket \in Bucket(n)
  BY QuotaPositive DEF NoBucket, Bucket
<1> SUFFICES DOMAIN bucket' = Routes /\ \A n \in Routes : bucket'[n] \in [Clients -> Bucket(n)]
  BY DEF BucketTypeOK, Bucket
<1>1. ASSUME NEW n \in Routes, NEW c \in Clients, Admit(n, c)
      PROVE  DOMAIN bucket' = Routes /\ \A m \in Routes : bucket'[m] \in [Clients -> Bucket(m)]
  <2> DEFINE old == bucket[n][c]
             new == IF old.left = 0 THEN [count |-> 1, left |-> Policy[n].window]
                    ELSE [count |-> old.count + 1, left |-> old.left]
  <2>1. old \in Bucket(n)
    BY <1>a
  <2>2. ~ (old.left > 0 /\ old.count >= Quota(n))
    BY <1>1 DEF Admit, Exhausted
  <2>3. new \in Bucket(n)
    <3>1. CASE old.left = 0
      BY <3>1, QuotaPositive DEF Bucket
    <3>2. CASE old.left # 0
      BY <2>1, <2>2, <3>2, QuotaPositive DEF Bucket
    <3> QED
      BY <3>1, <3>2
  <2>4. bucket' = [bucket EXCEPT ![n][c] = new]
    BY <1>1 DEF Admit
  <2> HIDE DEF new
  <2> QED
    BY <1>a, <2>3, <2>4
<1>2. CASE Elapse
  <2>1. ASSUME NEW n \in Routes, NEW c \in Clients
        PROVE  (IF bucket[n][c].left > 1 THEN [bucket[n][c] EXCEPT !.left = @ - 1] ELSE NoBucket) \in Bucket(n)
    <3>1. bucket[n][c] \in Bucket(n)
      BY <1>a
    <3> QED
      BY <1>b, <3>1, QuotaPositive DEF Bucket
  <2> QED
    BY <1>2, <2>1 DEF Elapse
<1>3. CASE Forget
  BY <1>3, <1>b DEF Forget
<1>4. CASE UNCHANGED bucket
  BY <1>4, <1>a
<1> QED
  BY <1>1, <1>2, <1>3, <1>4

LEMMA InitTypes == Init => Types
<1> SUFFICES ASSUME Init PROVE Types
  OBVIOUS
<1>1. users \in Seq(Accounts)
  BY InitIInv DEF IInv
<1>2. SlotTypes
  BY DEF Init, SlotTypes, SlotState
<1>3. CeremonyTypes /\ SessionTypes /\ CookieTypes /\ FaultTypes
  BY TokenAssumption DEF Init, CeremonyTypes, SessionTypes, CookieTypes, FaultTypes
<1>4. BucketTypeOK
  <2>1. \A n \in Routes : NoBucket \in Bucket(n)
    BY QuotaPositive DEF NoBucket, Bucket
  <2> QED
    BY <2>1 DEF Init, LimiterInit, BucketTypeOK, Bucket
<1> QED
  BY <1>1, <1>2, <1>3, <1>4 DEF Types

\* Slots that move on to a state of the right shape.
LEMMA EnterTypes ==
  ASSUME SlotTypes, users' = users, NEW t \in Slots, NEW x, Enter(t, x), SlotState(x)
  PROVE  SlotTypes'
<1>1. \A y : SlotState(y)' <=> SlotState(y)
  BY DEF SlotState
<1>2. DOMAIN slot' = Slots /\ \A e \in Slots : slot'[e] = IF e = t THEN x ELSE slot[e]
  BY DEF SlotTypes, Enter
<1> QED
  BY <1>1, <1>2 DEF SlotTypes

\* Rows that are added or changed keep their ids.
LEMMA GrownTypes ==
  ASSUME DOMAIN users \subseteq DOMAIN users'
  PROVE  /\ \A y : SlotState(y) => SlotState(y)'
         /\ \A y : Ceremony(y) => Ceremony(y)'
         /\ SessionTypes /\ sessions' = sessions => SessionTypes'
BY DEF SlotState, Ceremony, SessionTypes

LEMMA KeptTypes ==
  ASSUME users' = users
  PROVE  /\ CeremonyTypes /\ pending' = pending => CeremonyTypes'
         /\ SessionTypes /\ sessions' = sessions => SessionTypes'
         /\ SlotTypes /\ slot' = slot => SlotTypes'
         /\ CookieTypes /\ cookie' = cookie => CookieTypes'
         /\ FaultTypes /\ faults' = faults => FaultTypes'
BY DEF CeremonyTypes, Ceremony, SessionTypes, SlotTypes, SlotState, CookieTypes, FaultTypes

LEMMA IdleTypes == SlotState(Idle)
BY DEF SlotState

\* The ceremony, and after it the route, that a busy slot holds.
LEMMA BusySlot ==
  ASSUME SlotTypes, NEW t \in Slots, slot[t] # Idle
  PROVE  slot[t].sid \in Sids /\ slot[t].route \in Routes
BY DEF SlotTypes, SlotState

LEMMA StartTypes ==
  ASSUME Types, NEW t \in Slots, NEW x, StartCeremony(t, x), Ceremony(x), UNCHANGED users
  PROVE  SlotTypes' /\ CeremonyTypes'
<1> DEFINE s == CHOOSE y \in FreshSids : TRUE
           n == IF x.kind = "reg" THEN "register_finish" ELSE "login_finish"
<1>1. s \in Sids
  BY DEF StartCeremony, FreshSids
<1>2. pending' = With(pending, s, x) /\ Enter(t, Prompt(s, n))
  BY DEF StartCeremony
<1>3. n \in Routes
  BY RoutesAssumption
<1> HIDE DEF s, n
<1>4. SlotState(Prompt(s, n))
  BY <1>1, <1>3, TokenAssumption DEF SlotState, Prompt
<1>5. SlotTypes'
  BY <1>2, <1>4, EnterTypes DEF Types
<1>6. \A y : Ceremony(y)' <=> Ceremony(y)
  BY DEF Ceremony
<1>7. CeremonyTypes'
  BY <1>1, <1>2, <1>6 DEF CeremonyTypes, Types, With
<1> QED
  BY <1>5, <1>7

LEMMA BeginTypes ==
  ASSUME Types, NEW t \in Slots, Begin(t)
  PROVE  Types'
<1>a. \A n \in {"register_begin", "login_begin"} : n \in Routes
  BY RoutesAssumption
<1>b. Browser[t] \in Clients
  BY SlotsAssumption
<1>c. ASSUME NEW n \in {"register_begin", "login_begin"}, Admit(n, Browser[t]) PROVE BucketTypeOK'
  BY <1>a, <1>b, <1>c, BucketsKept DEF Types
<1>1. ASSUME NEW n \in Names, BeginRegistration(t, n) PROVE Types'
  <2> DEFINE x == [kind |-> "reg", name |-> Lower[n], age |-> 0]
  <2>1. Ceremony(x)
    BY NamesAssumption, TokenAssumption DEF Ceremony
  <2>2. StartCeremony(t, x) /\ UNCHANGED <<users, sessions, cookie, faults>> /\ Admit("register_begin", Browser[t])
    BY <1>1 DEF BeginRegistration
  <2> HIDE DEF x
  <2>3. SlotTypes' /\ CeremonyTypes'
    BY <2>1, <2>2, StartTypes
  <2>4. BucketTypeOK'
    BY <1>c, <2>2
  <2> QED
    BY <2>2, <2>3, <2>4, KeptTypes DEF Types
<1>2. ASSUME NEW n \in Names, BeginLogin(t, n) PROVE Types'
  <2>1. PICK i \in Candidates(n) : StartCeremony(t, [kind |-> "login", user |-> i, age |-> 0])
    BY <1>2 DEF BeginLogin
  <2>2. i \in DOMAIN users
    BY DEF Candidates, Rows
  <2> DEFINE x == [kind |-> "login", user |-> i, age |-> 0]
  <2>3. Ceremony(x)
    BY <2>2, TokenAssumption DEF Ceremony
  <2>4. UNCHANGED <<users, sessions, cookie, faults>> /\ Admit("login_begin", Browser[t])
    BY <1>2 DEF BeginLogin
  <2>5. StartCeremony(t, x)
    BY <2>1
  <2> HIDE DEF x
  <2>6. SlotTypes' /\ CeremonyTypes'
    BY <2>3, <2>4, <2>5, StartTypes
  <2>7. BucketTypeOK'
    BY <1>c, <2>4
  <2> QED
    BY <2>4, <2>6, <2>7, KeptTypes DEF Types
<1>3. ASSUME NEW n \in {"register_begin", "login_begin"}, BeginFails(t, n) PROVE Types'
  <2>1. BucketTypeOK'
    BY <1>3, <1>c DEF BeginFails
  <2> QED
    BY <1>3, <2>1, KeptTypes DEF BeginFails, authVars, Types
<1> QED
  BY <1>1, <1>2, <1>3 DEF Begin

\* A slot moves on and leaves the tables of ceremonies and sessions as they are,
\* but for what it takes out of them.
LEMMA MoveTypes ==
  ASSUME Types, NEW t \in Slots, NEW x, Enter(t, x), SlotState(x),
         NEW S, pending' \in {pending, Without(pending, S)},
         UNCHANGED <<users, sessions, cookie, faults>>, BucketTypeOK'
  PROVE  Types'
<1>1. SlotTypes'
  BY EnterTypes DEF Types
<1>2. CeremonyTypes'
  <2>1. CASE pending' = pending
    BY <2>1, KeptTypes DEF Types
  <2>2. CASE pending' = Without(pending, S)
    BY <2>2 DEF Without, Types, CeremonyTypes, Ceremony
  <2> QED
    BY <2>1, <2>2
<1> QED
  BY <1>1, <1>2, KeptTypes DEF Types

LEMMA FinishTypes ==
  ASSUME Types, NEW t \in Slots, Finish(t)
  PROVE  Types'
<1>1. slot[t].at = "prompting" /\ slot[t] # Idle
  BY DEF Finish, Take, TakeNothing, FinishRefused, Idle
<1>2. slot[t].sid \in Sids /\ slot[t].route \in Routes /\ Browser[t] \in Clients
  BY <1>1, BusySlot, SlotsAssumption DEF Types
<1>3. BucketTypeOK'
  BY <1>2, BucketsKept DEF Types, Finish, Take, TakeNothing, FinishRefused, Refuse
<1>4. CASE Take(t)
  <2>1. slot[t].sid \in DOMAIN pending
    BY <1>4 DEF Take
  <2>2. SlotState(Handler(t, slot[t].sid))
    <3>1. Ceremony(pending[slot[t].sid])
      BY <2>1 DEF Types, CeremonyTypes
    <3> QED
      BY <1>2, <3>1 DEF Ceremony, Handler, SlotState
  <2> QED
    BY <1>3, <1>4, <2>2, MoveTypes DEF Take
<1>5. CASE TakeNothing(t) \/ FinishRefused(t)
  BY <1>3, <1>5, IdleTypes, MoveTypes DEF TakeNothing, FinishRefused
<1> QED
  BY <1>4, <1>5 DEF Finish

LEMMA HandleTypes ==
  ASSUME Types, NEW t \in Slots, Handle(t)
  PROVE  Types'
<1>a. SlotTypes /\ SlotState(slot[t]) /\ slot[t] # Idle
  BY DEF Types, SlotTypes, Handle, CheckAgain, CreateUser, SaveCredential, Verify, SignIn, Fails, Working, Idle
<1>b. slot[t].sid \in Sids /\ slot[t].route \in Routes
  BY <1>a, BusySlot
<1>c. BucketTypeOK'
  BY BucketsKept DEF Types, Handle, CheckAgain, CreateUser, SaveCredential, Verify, SignIn, Fails
<1>d. /\ slot[t].at \in {"checking", "creating"} => slot[t].name \in NewNames
      /\ slot[t].at \in {"saving", "verifying", "signing"} => slot[t].user \in DOMAIN users
  BY <1>a DEF SlotState, Idle
<1>1. CASE CheckAgain(t)
  <2> DEFINE x == [at |-> "creating", sid |-> slot[t].sid, route |-> slot[t].route, name |-> slot[t].name]
  <2>1. SlotState(x)
    BY <1>1, <1>b, <1>d DEF SlotState, CheckAgain
  <2> QED
    BY <1>1, <1>c, <2>1, MoveTypes DEF CheckAgain
<1>2. CASE CreateUser(t)
  <2> DEFINE row == [name |-> slot[t].name, passkey |-> FALSE]
  <2>0. PICK x : x = [at |-> "saving", sid |-> slot[t].sid, route |-> slot[t].route, user |-> Len(users) + 1]
    OBVIOUS
  <2>1. row \in Accounts
    BY <1>2, <1>d DEF CreateUser, Accounts, Names
  <2>2. users' = Append(users, row) /\ Enter(t, x) /\ UNCHANGED <<sessions, pending, cookie, faults>>
    BY <1>2, <2>0 DEF CreateUser
  <2>3. users' \in Seq(Accounts) /\ DOMAIN users \subseteq DOMAIN users' /\ Len(users) + 1 \in DOMAIN users'
    <3>1. users \in Seq(Accounts)
      BY DEF Types
    <3> HIDE DEF row
    <3> QED
      BY <2>1, <2>2, <3>1
  <2>4. SlotState(x)'
    BY <1>b, <2>0, <2>3 DEF SlotState
  <2>5. DOMAIN slot' = Slots /\ \A e \in Slots : slot'[e] = IF e = t THEN x ELSE slot[e]
    BY <1>a, <2>2 DEF Enter, SlotTypes
  <2>6. SlotTypes'
    BY <1>a, <2>3, <2>4, <2>5, GrownTypes DEF SlotTypes
  <2>7. CeremonyTypes' /\ SessionTypes' /\ CookieTypes' /\ FaultTypes'
    BY <2>2, <2>3, GrownTypes DEF Types, CeremonyTypes, CookieTypes, FaultTypes
  <2> QED
    BY <1>c, <2>3, <2>6, <2>7 DEF Types
<1>3. CASE SaveCredential(t)
  <2> DEFINE u == slot[t].user
  <2>0. PICK x : x = Signing(t)
    OBVIOUS
  <2>1. users' = [users EXCEPT ![u].passkey = TRUE] /\ Enter(t, x)
        /\ UNCHANGED <<sessions, pending, cookie, faults>> /\ u \in DOMAIN users
    BY <1>3, <1>d, <2>0 DEF SaveCredential
  <2>2. users' \in Seq(Accounts) /\ DOMAIN users' = DOMAIN users
    <3>1. users \in Seq(Accounts) /\ users[u] \in Accounts
      BY <2>1 DEF Types
    <3>2. [users[u] EXCEPT !.passkey = TRUE] \in Accounts
      BY <3>1 DEF Accounts
    <3> HIDE DEF u
    <3> QED
      BY <2>1, <3>1, <3>2
  <2>3. SlotState(x)'
    BY <1>b, <2>0, <2>1, <2>2 DEF SlotState, Signing
  <2>4. DOMAIN slot' = Slots /\ \A e \in Slots : slot'[e] = IF e = t THEN x ELSE slot[e]
    BY <1>a, <2>1 DEF Enter, SlotTypes
  <2>5. SlotTypes'
    BY <1>a, <2>2, <2>3, <2>4, GrownTypes DEF SlotTypes
  <2>6. CeremonyTypes' /\ SessionTypes' /\ CookieTypes' /\ FaultTypes'
    BY <2>1, <2>2, GrownTypes DEF Types, CeremonyTypes, CookieTypes, FaultTypes
  <2> QED
    BY <1>c, <2>2, <2>5, <2>6 DEF Types
<1>4. CASE Verify(t)
  <2>1. SlotState(Signing(t))
    BY <1>4, <1>b, <1>d DEF SlotState, Verify, Signing
  <2> QED
    BY <1>4, <1>c, <2>1, MoveTypes DEF Verify
<1>5. CASE SignIn(t)
  <2> DEFINE k == CHOOSE x \in FreshTokens : TRUE
  <2>1. k \in Tokens
    BY <1>5 DEF SignIn, FreshTokens
  <2>2. /\ sessions' = With(sessions, k, [user |-> slot[t].user, expired |-> FALSE])
        /\ cookie' \in {cookie, [cookie EXCEPT ![Browser[t]] = k]}
        /\ Enter(t, Idle) /\ UNCHANGED <<users, pending, faults>>
    BY <1>5 DEF SignIn
  <2> HIDE DEF k
  <2>3. slot[t].user \in DOMAIN users
    BY <1>5, <1>d DEF SignIn
  <2>4. SessionTypes'
    BY <2>1, <2>2, <2>3 DEF With, SessionTypes, Types
  <2>5. CookieTypes'
    BY <2>1, <2>2, SlotsAssumption DEF CookieTypes, Types
  <2>6. SlotTypes'
    BY <1>a, <2>2, IdleTypes, EnterTypes
  <2> QED
    BY <1>c, <2>2, <2>4, <2>5, <2>6, KeptTypes DEF Types
<1>6. CASE Fails(t)
  BY <1>6, <1>c, IdleTypes, MoveTypes DEF Fails
<1> QED
  BY <1>1, <1>2, <1>3, <1>4, <1>5, <1>6 DEF Handle

\* Sessions end, and cookies are dropped.
LEMMA EndTypes ==
  ASSUME Types, NEW S, sessions' \in {sessions, Without(sessions, S)}, CookieTypes',
         UNCHANGED <<users, pending, slot, faults, bucket>>
  PROVE  Types'
<1>1. SessionTypes'
  <2>1. CASE sessions' = sessions
    BY <2>1, KeptTypes DEF Types
  <2>2. CASE sessions' = Without(sessions, S)
    BY <2>2 DEF Without, Types, SessionTypes
  <2> QED
    BY <2>1, <2>2
<1>2. BucketTypeOK'
  BY BucketsKept DEF Types
<1> QED
  BY <1>1, <1>2, KeptTypes DEF Types

LEMMA TickTypes ==
  ASSUME Types, Tick
  PROVE  Types'
<1>1. SlotTypes'
  <2>1. ASSUME NEW t \in Slots PROVE SlotState(slot'[t])
    <3>1. SlotState(slot[t])
      BY DEF Types, SlotTypes
    <3>2. CASE slot[t].at # "prompting"
      BY <3>1, <3>2 DEF Tick
    <3>3. CASE slot[t].at = "prompting"
      <4>1. slot[t].sid \in Sids /\ slot[t].route \in Routes /\ slot[t].age \in 0 .. PromptLimit
        BY <3>1, <3>3 DEF SlotState, Idle
      <4>2. slot[t].age < PromptLimit
        BY <3>3 DEF Tick
      <4>3. slot'[t] = [at |-> "prompting", sid |-> slot[t].sid, route |-> slot[t].route, age |-> slot[t].age + 1]
        BY <3>3 DEF Tick
      <4>4. slot[t].age + 1 \in 0 .. PromptLimit
        BY <4>1, <4>2, TokenAssumption
      <4> QED
        BY <4>1, <4>3, <4>4 DEF SlotState
    <3> QED
      BY <3>2, <3>3
  <2>2. users' = users /\ DOMAIN slot' = Slots
    BY DEF Tick
  <2> QED
    BY <2>1, <2>2 DEF SlotTypes, SlotState
<1>2. CeremonyTypes'
  <2>1. ASSUME NEW s \in DOMAIN pending
        PROVE  Ceremony([pending[s] EXCEPT !.age = IF @ > TTL THEN @ ELSE @ + 1])
    <3>1. Ceremony(pending[s])
      BY DEF Types, CeremonyTypes
    <3>2. \A a \in 0 .. TTL + 1 : (IF a > TTL THEN a ELSE a + 1) \in 0 .. TTL + 1
      BY TokenAssumption
    <3> QED
      BY <3>1, <3>2 DEF Ceremony
  <2>2. \A y : Ceremony(y)' <=> Ceremony(y)
    BY DEF Tick, Ceremony
  <2> QED
    BY <2>1, <2>2 DEF Tick, Types, CeremonyTypes
<1>3. SessionTypes'
  BY DEF Tick, Types, SessionTypes
<1>4. BucketTypeOK'
  BY BucketsKept DEF Types, Tick
<1> QED
  BY <1>1, <1>2, <1>3, <1>4 DEF Tick, Types, CookieTypes, FaultTypes

LEMMA NextTypes == Types /\ [Next]_vars => Types'
<1> SUFFICES ASSUME Types, [Next]_vars PROVE Types'
  OBVIOUS
<1>a. CookieTypes /\ FaultTypes /\ SlotTypes /\ MaxFaults \in Nat
  BY TokenAssumption DEF Types
<1>1. ASSUME NEW t \in Slots, Begin(t) \/ Finish(t) \/ Handle(t) PROVE Types'
  BY <1>1, BeginTypes, FinishTypes, HandleTypes
<1>2. ASSUME NEW t \in Slots, Abandon(t) PROVE Types'
  <2>1. BucketTypeOK'
    BY <1>2, BucketsKept DEF Abandon, Types
  <2> QED
    BY <1>2, <2>1, IdleTypes, MoveTypes DEF Abandon
<1>3. ASSUME NEW t \in Slots, NEW e \in Slots, Redeliver(t, e) PROVE Types'
  <2>1. slot[t].sid \in Sids /\ slot[t].route \in Routes
    BY <1>3, <1>a, BusySlot DEF Redeliver
  <2>2. SlotState(Prompt(slot[t].sid, slot[t].route))
    BY <2>1, TokenAssumption DEF SlotState, Prompt
  <2>3. SlotTypes'
    BY <1>3, <1>a, <2>2, EnterTypes DEF Redeliver
  <2>4. FaultTypes' /\ BucketTypeOK'
    BY <1>3, <1>a, BucketsKept DEF Redeliver, FaultTypes, Types
  <2> QED
    BY <1>3, <2>3, <2>4, KeptTypes DEF Redeliver, Types
<1>4. ASSUME NEW c \in Clients, Logout(c) \/ Visit(c) PROVE Types'
  <2>1. CookieTypes'
    BY <1>4, <1>a DEF Logout, Visit, CookieTypes
  <2> QED
    BY <1>4, <2>1, EndTypes DEF Logout, Visit
<1>5. CASE Cleanup
  <2>1. CookieTypes'
    BY <1>5, <1>a DEF Cleanup, CookieTypes
  <2> QED
    BY <1>5, <2>1, EndTypes DEF Cleanup
<1>6. CASE Sweep
  <2>1. CeremonyTypes'
    BY <1>6 DEF Sweep, Without, Types, CeremonyTypes, Ceremony
  <2>2. BucketTypeOK'
    BY <1>6, BucketsKept DEF Sweep, Types
  <2> QED
    BY <1>6, <2>1, <2>2, KeptTypes DEF Sweep, Types
<1>7. CASE Tick
  BY <1>7, TickTypes
<1>8. CASE Crash
  <2>1. CeremonyTypes'
    BY <1>8 DEF Crash, Without, CeremonyTypes, Types, Ceremony
  <2>2. SlotTypes'
    <3>1. \A t \in Slots : slot'[t] \in {Idle, slot[t]}
      BY <1>8 DEF Crash
    <3>2. \A t \in Slots : SlotState(slot'[t])
      BY <1>a, <3>1, IdleTypes DEF SlotTypes
    <3> QED
      BY <1>8, <3>2 DEF Crash, SlotTypes, SlotState
  <2>3. FaultTypes' /\ BucketTypeOK'
    BY <1>8, <1>a, BucketsKept DEF Crash, FaultTypes, Types
  <2> QED
    BY <1>8, <2>1, <2>2, <2>3, KeptTypes DEF Crash, Types
<1>9. CASE UNCHANGED vars
  <2>1. BucketTypeOK'
    BY <1>9, BucketsKept DEF vars, Types
  <2> QED
    BY <1>9, <2>1, KeptTypes DEF vars, Types
<1> QED
  BY <1>1, <1>2, <1>3, <1>4, <1>5, <1>6, <1>7, <1>8, <1>9 DEF Next

\* Sessions, ceremonies and handlers only name users that exist, and no client has
\* more requests counted in a window than its quota.
THEOREM TypeCorrect == Spec => []TypeOK
<1>1. Types => TypeOK
  BY DEF Types, TypeOK, SlotTypes, CeremonyTypes, SessionTypes, CookieTypes, FaultTypes, Accounts
<1> QED
  BY <1>1, InitTypes, NextTypes, PTL DEF Spec

-----------------------------------------------------------------------------
\* The rates of the two requests of a registration.  In what follows s is what
\* the slots do, b and f are a client's buckets for the requests that begin and
\* that finish a registration.
Opens  == "register_begin"
Closes == "register_finish"

\* The slots whose finish request is still to come, and those of them that were
\* begun at most a units of time ago.
Asking(s, c) ==
  {t \in Slots : Browser[t] = c /\ s[t].at = "prompting" /\ s[t].route = Closes}
Recent(s, c, a) == {t \in Asking(s, c) : s[t].age <= a}

\* The last k + 1 windows of beginning span this much, and those before the one
\* that runs admit this much.
Span(k)    == (k + 1) * Policy[Opens].window
Earlier(k) == k * Quota(Opens)

\* How long the window of b still lasts, one that would open now if none runs.
Rest(b) == IF b.left = 0 THEN Policy[Opens].window ELSE b.left

\* What is left of the window of beginning and of those before it is enough for n
\* requests that began at most a units of time ago.
Covers(b, n, a) == \A k \in Nat : a + Rest(b) <= Span(k) => n <= b.count + Earlier(k)

\* The first request of the window that f counts was begun within this time.
Reach(f) == Policy[Closes].window - f.left + PromptLimit

\* Requests that are still to finish, with those that did so in the window that
\* runs, were all let in by the windows of beginning.
PacedFor(s, b, f, c) ==
  /\ b.left = 0 => b.count = 0
  /\ IsFiniteSet(Asking(s, c))
  /\ \A a \in Nat : Covers(b, Cardinality(Recent(s, c, a)), a)
  /\ f.left > 0 => Covers(b, f.count + Cardinality(Asking(s, c)), Reach(f))

Paced ==
  faults = 0 => \A c \in Clients : PacedFor(slot, bucket[Opens][c], bucket[Closes][c], c)

\* Admit and Elapse, for one bucket.
Counted(n, b) ==
  IF b.left = 0 THEN [count |-> 1, left |-> Policy[n].window]
                ELSE [count |-> b.count + 1, left |-> b.left]
Aged(b) == IF b.left > 1 THEN [b EXCEPT !.left = @ - 1] ELSE NoBucket

LEMMA OpensCloses == Opens \in Routes /\ Closes \in Routes /\ Opens # Closes
BY RoutesAssumption DEF Opens, Closes

LEMMA Spans ==
  /\ Span(0) = Policy[Opens].window /\ Earlier(0) = 0
  /\ \A k \in Nat : Span(k) \in Nat /\ Earlier(k) \in Nat
  /\ \A k \in Nat : k > 0 => /\ Span(k) = Span(k - 1) + Policy[Opens].window
                            /\ Earlier(k) = Earlier(k - 1) + Quota(Opens)
<1> DEFINE W == Policy[Opens].window
           Q == Quota(Opens)
<1>1. W \in Nat /\ Q \in Nat
  BY OpensCloses, QuotaPositive
<1>2. Span(0) = W /\ Earlier(0) = 0
  <2> HIDE DEF W, Q
  <2>1. Span(0) = (0 + 1) * W /\ Earlier(0) = 0 * Q
    BY DEF Span, Earlier, W, Q
  <2> QED
    BY <1>1, <2>1
<1>3. ASSUME NEW k \in Nat PROVE Span(k) \in Nat /\ Earlier(k) \in Nat
  <2> HIDE DEF W, Q
  <2>1. Span(k) = (k + 1) * W /\ Earlier(k) = k * Q
    BY DEF Span, Earlier, W, Q
  <2> QED
    BY <1>1, <2>1
<1>4. ASSUME NEW k \in Nat, k > 0
      PROVE  Span(k) = Span(k - 1) + W /\ Earlier(k) = Earlier(k - 1) + Q
  <2> HIDE DEF W, Q
  <2>1. /\ Span(k) = (k + 1) * W /\ Earlier(k) = k * Q
        /\ Span(k - 1) = (k - 1 + 1) * W /\ Earlier(k - 1) = (k - 1) * Q
    BY DEF Span, Earlier, W, Q
  <2> QED
    BY <1>1, <1>4, <2>1
<1> QED
  BY <1>2, <1>3, <1>4

LEMMA CoversFewer ==
  ASSUME NEW b \in Bucket(Opens), NEW n \in Nat, NEW m \in Nat, m <= n, NEW a, Covers(b, n, a)
  PROVE  Covers(b, m, a)
BY Spans DEF Covers, Bucket

LEMMA CoversMore ==
  ASSUME NEW b \in Bucket(Opens), b.left = 0 => b.count = 0,
         NEW n \in Nat, NEW a \in Nat, Covers(b, n, a)
  PROVE  Covers(Counted(Opens, b), n + 1, a)
<1>1. /\ Rest(Counted(Opens, b)) = Rest(b)
      /\ Counted(Opens, b).count = b.count + 1
  BY OpensCloses, QuotaPositive DEF Rest, Counted, Bucket
<1>2. b.count \in Nat
  BY DEF Bucket
<1> QED
  BY <1>1, <1>2, Spans DEF Covers

LEMMA CoversNone ==
  ASSUME NEW b \in Bucket(Opens), NEW a
  PROVE  Covers(b, 0, a)
BY Spans DEF Covers, Bucket

\* A window that ends is one of those before.
LEMMA CoversLater ==
  ASSUME NEW b \in Bucket(Opens), b.left = 0 => b.count = 0,
         NEW n \in Nat, NEW a \in Nat, Covers(b, n, a)
  PROVE  Covers(Aged(b), n, a + 1)
<1>0. /\ Policy[Opens].window \in Nat \ {0} /\ Quota(Opens) \in Nat
      /\ b.left \in 0 .. Policy[Opens].window /\ b.count \in 0 .. Quota(Opens)
  BY OpensCloses, QuotaPositive DEF Bucket
<1> SUFFICES ASSUME NEW k \in Nat, a + 1 + Rest(Aged(b)) <= Span(k)
             PROVE  n <= Aged(b).count + Earlier(k)
  BY DEF Covers
<1>1. CASE b.left > 1
  <2>1. Rest(Aged(b)) = b.left - 1 /\ Aged(b).count = b.count
    BY <1>0, <1>1 DEF Rest, Aged, Bucket
  <2>2. a + Rest(b) <= Span(k)
    BY <1>0, <1>1, <2>1, Spans DEF Rest
  <2> QED
    BY <2>1, <2>2 DEF Covers
<1>2. CASE b.left <= 1
  <2>1. Rest(Aged(b)) = Policy[Opens].window /\ Aged(b).count = 0
    BY <1>0, <1>2 DEF Rest, Aged, NoBucket
  <2>2. k > 0
    BY <1>0, <2>1, Spans
  <2>3. CASE b.left = 0
    <3>1. a + Rest(b) <= Span(k)
      BY <1>0, <2>1, <2>3, Spans DEF Rest
    <3> QED
      BY <2>1, <2>3, <3>1 DEF Covers
  <2>4. CASE b.left = 1
    <3>1. a + Rest(b) <= Span(k - 1)
      BY <1>0, <2>1, <2>2, <2>4, Spans DEF Rest
    <3>2. n <= b.count + Earlier(k - 1)
      BY <2>2, <3>1 DEF Covers
    <3>3. Earlier(k) = Earlier(k - 1) + Quota(Opens) /\ Earlier(k - 1) \in Nat
      BY <2>2, Spans
    <3> QED
      BY <1>0, <2>1, <3>2, <3>3
  <2> QED
    BY <1>0, <1>2, <2>3, <2>4
<1> QED
  BY <1>0, <1>1, <1>2

\* Prompts end in time.
Timely(s) == \A t \in Slots : s[t].at = "prompting" => s[t].age \in 0 .. PromptLimit

LEMMA AskingRecent ==
  ASSUME NEW s, Timely(s), NEW c, NEW a \in Nat, PromptLimit <= a
  PROVE  Recent(s, c, a) = Asking(s, c)
BY TokenAssumption DEF Timely, Recent, Asking

LEMMA RecentCount ==
  ASSUME NEW s, NEW c, IsFiniteSet(Asking(s, c)), NEW a
  PROVE  /\ IsFiniteSet(Recent(s, c, a)) /\ Cardinality(Recent(s, c, a)) \in Nat
         /\ Cardinality(Asking(s, c)) \in Nat
BY FS_Subset, FS_CardinalityType DEF Recent

\* One slot more may be asking: at most one more of any age.
LEMMA OneMore ==
  ASSUME NEW S, IsFiniteSet(S), NEW t, NEW T, T \subseteq S \cup {t}
  PROVE  /\ IsFiniteSet(T) /\ Cardinality(T) \in Nat /\ Cardinality(S) \in Nat
         /\ Cardinality(T) <= Cardinality(S) + 1
<1>1. /\ IsFiniteSet(S \cup {t})
      /\ Cardinality(S \cup {t}) \in {Cardinality(S), Cardinality(S) + 1}
  BY FS_AddElement
<1>2. IsFiniteSet(T) /\ Cardinality(T) <= Cardinality(S \cup {t})
  BY <1>1, FS_Subset
<1> QED
  BY <1>1, <1>2, FS_CardinalityType

\* Slots stop asking.
LEMMA FewerAsk ==
  ASSUME NEW s, NEW z, NEW c, NEW b \in Bucket(Opens), NEW f \in Bucket(Closes),
         PacedFor(s, b, f, c),
         \A t \in Asking(z, c) : t \in Asking(s, c) /\ z[t] = s[t]
  PROVE  PacedFor(z, b, f, c)
<1>1. IsFiniteSet(Asking(s, c)) /\ Asking(z, c) \subseteq Asking(s, c)
  BY DEF PacedFor
<1>2. /\ IsFiniteSet(Asking(z, c))
      /\ Cardinality(Asking(z, c)) \in Nat /\ Cardinality(Asking(s, c)) \in Nat
      /\ Cardinality(Asking(z, c)) <= Cardinality(Asking(s, c))
  BY <1>1, FS_Subset, FS_CardinalityType
<1>3. ASSUME NEW a \in Nat PROVE Covers(b, Cardinality(Recent(z, c, a)), a)
  <2>1. Recent(z, c, a) \subseteq Recent(s, c, a)
    BY DEF Recent
  <2>2. /\ Cardinality(Recent(z, c, a)) \in Nat /\ Cardinality(Recent(s, c, a)) \in Nat
        /\ Cardinality(Recent(z, c, a)) <= Cardinality(Recent(s, c, a))
    BY <1>1, <2>1, RecentCount, FS_Subset, FS_CardinalityType
  <2> QED
    BY <2>2, CoversFewer DEF PacedFor
<1>4. f.left > 0 => Covers(b, f.count + Cardinality(Asking(z, c)), Reach(f))
  <2>1. f.count \in Nat
    BY DEF Bucket
  <2>2. ASSUME NEW n \in Nat, NEW m \in Nat, m <= n, Covers(b, f.count + n, Reach(f))
        PROVE  Covers(b, f.count + m, Reach(f))
    BY <2>1, <2>2, CoversFewer
  <2> QED
    BY <1>2, <2>2 DEF PacedFor
<1> QED
  BY <1>2, <1>3, <1>4 DEF PacedFor

\* A request to begin is counted, and slot t may be asking from now on.
LEMMA BeginPaced ==
  ASSUME NEW s, NEW z, NEW c, NEW b \in Bucket(Opens), NEW f \in Bucket(Closes),
         PacedFor(s, b, f, c), NEW t,
         \A e \in Asking(z, c) : e # t => e \in Asking(s, c) /\ z[e] = s[e]
  PROVE  PacedFor(z, Counted(Opens, b), f, c)
<1>0. b.left = 0 => b.count = 0
  BY DEF PacedFor
<1>1. IsFiniteSet(Asking(s, c)) /\ Asking(z, c) \subseteq Asking(s, c) \cup {t}
  BY DEF PacedFor
<1>2. /\ IsFiniteSet(Asking(z, c))
      /\ Cardinality(Asking(z, c)) \in Nat /\ Cardinality(Asking(s, c)) \in Nat
      /\ Cardinality(Asking(z, c)) <= Cardinality(Asking(s, c)) + 1
  BY <1>1, OneMore
<1>a. Counted(Opens, b).left # 0
  BY OpensCloses, QuotaPositive DEF Counted
<1>b. ASSUME NEW n \in Nat, NEW m \in Nat, m <= n + 1, NEW a \in Nat, Covers(b, n, a)
      PROVE  Covers(Counted(Opens, b), m, a)
  <2>1. Covers(Counted(Opens, b), n + 1, a)
    BY <1>0, <1>b, CoversMore
  <2>2. Counted(Opens, b).count \in Nat
    BY DEF Counted, Bucket
  <2> QED
    BY <1>b, <2>1, <2>2, Spans DEF Covers
<1>3. ASSUME NEW a \in Nat PROVE Covers(Counted(Opens, b), Cardinality(Recent(z, c, a)), a)
  <2>1. Recent(z, c, a) \subseteq Recent(s, c, a) \cup {t}
    BY DEF Recent
  <2>2. /\ Cardinality(Recent(z, c, a)) \in Nat /\ Cardinality(Recent(s, c, a)) \in Nat
        /\ Cardinality(Recent(z, c, a)) <= Cardinality(Recent(s, c, a)) + 1
    BY <1>1, <2>1, RecentCount, OneMore
  <2> QED
    BY <1>b, <2>2 DEF PacedFor
<1>4. f.left > 0 => Covers(Counted(Opens, b), f.count + Cardinality(Asking(z, c)), Reach(f))
  <2>1. f.count \in Nat /\ Reach(f) \in Nat
    BY OpensCloses, QuotaPositive, TokenAssumption DEF Bucket, Reach
  <2>2. ASSUME NEW n \in Nat, NEW m \in Nat, m <= n + 1, Covers(b, f.count + n, Reach(f))
        PROVE  Covers(Counted(Opens, b), f.count + m, Reach(f))
    BY <1>b, <2>1, <2>2
  <2> QED
    BY <1>2, <2>2 DEF PacedFor
<1> QED
  BY <1>2, <1>3, <1>4, <1>a DEF PacedFor

\* The finish request of slot t is counted instead of expected.
LEMMA FinishPaced ==
  ASSUME NEW s, NEW z, NEW c, NEW b \in Bucket(Opens), NEW f \in Bucket(Closes),
         PacedFor(s, b, f, c), Timely(s), NEW t \in Asking(s, c), t \notin Asking(z, c),
         \A e \in Asking(z, c) : e \in Asking(s, c) /\ z[e] = s[e]
  PROVE  PacedFor(z, b, Counted(Closes, f), c)
<1>1. PacedFor(z, b, f, c)
  BY FewerAsk
<1>2. IsFiniteSet(Asking(s, c)) /\ IsFiniteSet(Asking(z, c)) /\ Asking(z, c) \subseteq Asking(s, c) \ {t}
  BY <1>1 DEF PacedFor
<1>3. /\ Cardinality(Asking(z, c)) \in Nat /\ Cardinality(Asking(s, c)) \in Nat
      /\ Cardinality(Asking(z, c)) + 1 <= Cardinality(Asking(s, c))
  <2>1. /\ IsFiniteSet(Asking(s, c) \ {t})
        /\ Cardinality(Asking(s, c) \ {t}) = Cardinality(Asking(s, c)) - 1
    BY <1>2, FS_RemoveElement
  <2>2. Cardinality(Asking(z, c)) <= Cardinality(Asking(s, c) \ {t})
    BY <1>2, <2>1, FS_Subset
  <2> QED
    BY <1>2, <2>1, <2>2, FS_CardinalityType
<1>4. Covers(b, Counted(Closes, f).count + Cardinality(Asking(z, c)), Reach(Counted(Closes, f)))
  <2>0. ASSUME NEW n \in Nat, NEW m \in Nat, m + 1 <= n, NEW i \in Nat, NEW a, Covers(b, i + n, a)
        PROVE  Covers(b, i + 1 + m, a)
    BY <2>0, CoversFewer
  <2>1. CASE f.left = 0
    <3>1. Reach(Counted(Closes, f)) = PromptLimit /\ Counted(Closes, f).count = 1
      BY <2>1, OpensCloses, QuotaPositive, TokenAssumption DEF Reach, Counted
    <3>2. Covers(b, Cardinality(Asking(s, c)), PromptLimit)
      <4>1. Recent(s, c, PromptLimit) = Asking(s, c)
        BY TokenAssumption, AskingRecent
      <4> QED
        BY <4>1, TokenAssumption DEF PacedFor
    <3>3. Covers(b, 0 + 1 + Cardinality(Asking(z, c)), PromptLimit)
      BY <1>3, <2>0, <3>2, 0 + Cardinality(Asking(s, c)) = Cardinality(Asking(s, c))
    <3> QED
      BY <3>1, <3>3
  <2>2. CASE f.left # 0
    <3>1. f.left > 0 /\ f.count \in Nat
      BY <2>2 DEF Bucket
    <3>2. Reach(Counted(Closes, f)) = Reach(f) /\ Counted(Closes, f).count = f.count + 1
      BY <2>2 DEF Reach, Counted
    <3>3. Covers(b, f.count + Cardinality(Asking(s, c)), Reach(f))
      BY <3>1 DEF PacedFor
    <3> QED
      BY <1>3, <2>0, <3>1, <3>2, <3>3
  <2> QED
    BY <2>1, <2>2
<1> QED
  BY <1>1, <1>4 DEF PacedFor

\* Time passes: whoever is asking after it has been for one unit more.
LEMMA TickPaced ==
  ASSUME NEW s, NEW z, NEW c, NEW b \in Bucket(Opens), NEW f \in Bucket(Closes),
         PacedFor(s, b, f, c), Timely(s), 
         \A e \in Asking(z, c) : e \in Asking(s, c) /\ z[e].age = s[e].age + 1
  PROVE  PacedFor(z, Aged(b), Aged(f), c)
<1>0. b.left = 0 => b.count = 0
  BY DEF PacedFor
<1>1. /\ IsFiniteSet(Asking(s, c)) /\ Asking(z, c) \subseteq Asking(s, c)
      /\ \A e \in Asking(s, c) : s[e].age \in Nat
  BY TokenAssumption DEF PacedFor, Timely, Asking
<1>2. /\ IsFiniteSet(Asking(z, c))
      /\ Cardinality(Asking(z, c)) \in Nat /\ Cardinality(Asking(s, c)) \in Nat
      /\ Cardinality(Asking(z, c)) <= Cardinality(Asking(s, c))
  BY <1>1, FS_Subset, FS_CardinalityType
<1>a. Aged(b) \in Bucket(Opens) /\ (Aged(b).left = 0 => Aged(b).count = 0)
  BY OpensCloses, QuotaPositive DEF Aged, Bucket, NoBucket
<1>3. ASSUME NEW a \in Nat PROVE Covers(Aged(b), Cardinality(Recent(z, c, a)), a)
  <2>1. CASE a = 0
    <3>1. Recent(z, c, a) = {}
      BY <1>1, <2>1 DEF Recent
    <3> QED
      BY <1>a, <3>1, CoversNone, FS_EmptySet
  <2>2. CASE a # 0
    <3>1. a - 1 \in Nat
      BY <2>2
    <3>2. Recent(z, c, a) \subseteq Recent(s, c, a - 1)
      BY <1>1 DEF Recent
    <3>3. /\ Cardinality(Recent(z, c, a)) \in Nat /\ Cardinality(Recent(s, c, a - 1)) \in Nat
          /\ Cardinality(Recent(z, c, a)) <= Cardinality(Recent(s, c, a - 1))
      BY <1>1, <3>2, RecentCount, FS_Subset, FS_CardinalityType
    <3>4. Covers(b, Cardinality(Recent(z, c, a)), a - 1)
      BY <3>1, <3>3, CoversFewer DEF PacedFor
    <3>5. Covers(Aged(b), Cardinality(Recent(z, c, a)), a - 1 + 1)
      BY <1>0, <3>1, <3>3, <3>4, CoversLater
    <3>6. a - 1 + 1 = a
      OBVIOUS
    <3> QED
      BY <3>5, <3>6
  <2> QED
    BY <2>1, <2>2
<1>4. ASSUME Aged(f).left > 0
      PROVE  Covers(Aged(b), Aged(f).count + Cardinality(Asking(z, c)), Reach(Aged(f)))
  <2>1. /\ f.left > 0 /\ f.count \in Nat /\ Reach(f) \in Nat
        /\ Aged(f).count = f.count /\ Reach(Aged(f)) = Reach(f) + 1
    BY <1>4, OpensCloses, QuotaPositive, TokenAssumption DEF Aged, Bucket, NoBucket, Reach
  <2>2. Covers(b, f.count + Cardinality(Asking(s, c)), Reach(f))
    BY <2>1 DEF PacedFor
  <2>3. ASSUME NEW n \in Nat, NEW m \in Nat, m <= n, Covers(b, f.count + n, Reach(f))
        PROVE  Covers(b, f.count + m, Reach(f))
    BY <2>1, <2>3, CoversFewer
  <2>4. Covers(b, f.count + Cardinality(Asking(z, c)), Reach(f))
    BY <1>2, <2>2, <2>3
  <2>5. f.count + Cardinality(Asking(z, c)) \in Nat
    BY <1>2, <2>1
  <2> QED
    BY <1>0, <2>1, <2>4, <2>5, CoversLater
<1> QED
  BY <1>2, <1>3, <1>4, <1>a DEF PacedFor

\* What the types say of the buckets and the prompts.
LEMMA RateTypes ==
  ASSUME Types
  PROVE  /\ Timely(slot) /\ faults \in Nat
         /\ \A c \in Clients : /\ bucket[Opens][c] \in Bucket(Opens)
                               /\ bucket[Closes][c] \in Bucket(Closes)
<1>1. Timely(slot)
  BY DEF Types, SlotTypes, SlotState, Timely, Idle
<1>2. \A n \in Routes, c \in Clients : bucket[n][c] \in Bucket(n)
  BY DEF Types, BucketTypeOK, Bucket
<1> QED
  BY <1>1, <1>2, OpensCloses, TokenAssumption DEF Types, FaultTypes

LEMMA AdmitCounts ==
  ASSUME BucketTypeOK, NEW n \in Routes, NEW c \in Clients, Admit(n, c)
  PROVE  \A m \in Routes, d \in Clients :
           bucket'[m][d] = IF m = n /\ d = c THEN Counted(n, bucket[n][c]) ELSE bucket[m][d]
<1>1. bucket' = [bucket EXCEPT ![n][c] = Counted(n, bucket[n][c])]
  BY DEF Admit, Counted
<1>2. DOMAIN bucket = Routes /\ \A m \in Routes : DOMAIN bucket[m] = Clients
  BY DEF BucketTypeOK
<1> QED
  BY <1>1, <1>2

\* Nothing is counted, and nobody asks who did not before.
LEMMA QuietPaced ==
  ASSUME Types, Paced, faults' = faults, bucket' = bucket,
         \A t \in Slots : slot'[t] = slot[t] \/ slot'[t].at # "prompting"
                            \/ slot'[t].route # Closes
  PROVE  Paced'
<1> SUFFICES ASSUME faults = 0, NEW c \in Clients
             PROVE  PacedFor(slot', bucket[Opens][c], bucket[Closes][c], c)
  BY DEF Paced
<1>1. \A t \in Asking(slot', c) : t \in Asking(slot, c) /\ slot'[t] = slot[t]
  BY DEF Asking
<1> QED
  BY <1>1, FewerAsk, RateTypes DEF Paced

\* Slot t sends a request that the limiter lets in.
LEMMA AdmitPaced ==
  ASSUME Types, Paced, faults' = faults, NEW t \in Slots, NEW n \in Routes, Admit(n, Browser[t]),
         \A e \in Slots : e # t => slot'[e] = slot[e],
         t \in Asking(slot', Browser[t]) => n = Opens,
         n = Closes => t \in Asking(slot, Browser[t]) /\ t \notin Asking(slot', Browser[t])
  PROVE  Paced'
<1>1. /\ Browser[t] \in Clients
      /\ \A m \in Routes, d \in Clients :
           bucket'[m][d] = IF m = n /\ d = Browser[t] THEN Counted(n, bucket[n][d]) ELSE bucket[m][d]
  BY SlotsAssumption, AdmitCounts DEF Types
<1> SUFFICES ASSUME faults = 0, NEW c \in Clients
             PROVE  PacedFor(slot', bucket'[Opens][c], bucket'[Closes][c], c)
  BY DEF Paced
<1> DEFINE b == bucket[Opens][c]
           f == bucket[Closes][c]
<1>2. /\ PacedFor(slot, b, f, c) /\ Timely(slot)
      /\ b \in Bucket(Opens) /\ f \in Bucket(Closes)
  BY RateTypes DEF Paced
<1>3. \A e \in Asking(slot', c) : e # t => e \in Asking(slot, c) /\ slot'[e] = slot[e]
  BY DEF Asking
<1>4. t \in Asking(slot', c) \/ t \in Asking(slot, c) => c = Browser[t]
  BY DEF Asking
<1>5. CASE n = Opens /\ c = Browser[t]
  <2>1. bucket'[Opens][c] = Counted(Opens, b) /\ bucket'[Closes][c] = f
    BY <1>1, <1>5, OpensCloses
  <2> HIDE DEF b, f
  <2> QED
    BY <1>2, <1>3, <2>1, BeginPaced
<1>6. CASE n = Closes /\ c = Browser[t]
  <2>1. bucket'[Opens][c] = b /\ bucket'[Closes][c] = Counted(Closes, f)
    BY <1>1, <1>6, OpensCloses
  <2>2. t \in Asking(slot, c) /\ t \notin Asking(slot', c)
    BY <1>6
  <2>3. \A e \in Asking(slot', c) : e \in Asking(slot, c) /\ slot'[e] = slot[e]
    BY <1>3, <2>2
  <2> HIDE DEF b, f
  <2> QED
    BY <1>2, <2>1, <2>2, <2>3, FinishPaced
<1>7. CASE n \notin {Opens, Closes} \/ c # Browser[t]
  <2>1. bucket'[Opens][c] = b /\ bucket'[Closes][c] = f
    BY <1>1, <1>7, OpensCloses
  <2>2. \A e \in Asking(slot', c) : e \in Asking(slot, c) /\ slot'[e] = slot[e]
    BY <1>3, <1>4, <1>7
  <2> HIDE DEF b, f
  <2> QED
    BY <1>2, <2>1, <2>2, FewerAsk
<1> QED
  BY <1>5, <1>6, <1>7

LEMMA ElapsePaced ==
  ASSUME Types, Paced, Tick
  PROVE  Paced'
<1> SUFFICES ASSUME faults = 0, NEW c \in Clients
             PROVE  PacedFor(slot', bucket'[Opens][c], bucket'[Closes][c], c)
  BY DEF Tick, Paced
<1> DEFINE b == bucket[Opens][c]
           f == bucket[Closes][c]
<1>1. /\ PacedFor(slot, b, f, c) /\ Timely(slot)
      /\ b \in Bucket(Opens) /\ f \in Bucket(Closes)
  BY RateTypes DEF Paced
<1>2. bucket'[Opens][c] = Aged(b) /\ bucket'[Closes][c] = Aged(f)
  BY OpensCloses DEF Tick, Elapse, Aged
<1>3. ASSUME NEW e \in Asking(slot', c)
      PROVE  e \in Asking(slot, c) /\ slot'[e].age = slot[e].age + 1
  <2>1. e \in Slots /\ Browser[e] = c /\ slot'[e].at = "prompting" /\ slot'[e].route = Closes
    BY <1>3 DEF Asking
  <2>2. slot[e].at = "prompting"
    BY <2>1 DEF Tick
  <2>3. slot'[e] = [at |-> "prompting", sid |-> slot[e].sid, route |-> slot[e].route, age |-> slot[e].age + 1]
    BY <2>1, <2>2 DEF Tick
  <2> QED
    BY <2>1, <2>2, <2>3 DEF Asking
<1> HIDE DEF b, f
<1> QED
  BY <1>1, <1>2, <1>3, TickPaced

LEMMA BeginRates ==
  ASSUME Types, Paced, NEW t \in Slots, Begin(t)
  PROVE  Paced'
<1>a. Opens \in Routes /\ "login_begin" \in Routes
  BY RoutesAssumption DEF Opens
<1>b. /\ DOMAIN slot = Slots /\ slot[t] = Idle /\ \A c : t \notin Asking(slot, c)
      /\ Opens = "register_begin" /\ Closes = "register_finish"
  <2>1. DOMAIN slot = Slots /\ slot[t] = Idle
    BY DEF Types, SlotTypes, Begin, BeginRegistration, BeginLogin, BeginFails
  <2> QED
    BY <2>1 DEF Idle, Asking, Opens, Closes
<1>c. ASSUME NEW x, StartCeremony(t, x)
      PROVE  /\ \A e \in Slots : e # t => slot'[e] = slot[e]
             /\ x.kind # "reg" => t \notin Asking(slot', Browser[t])
  <2> DEFINE s == CHOOSE y \in FreshSids : TRUE
             n == IF x.kind = "reg" THEN "register_finish" ELSE "login_finish"
  <2>1. Enter(t, Prompt(s, n))
    BY <1>c DEF StartCeremony
  <2>2. Prompt(s, n).route = n
    BY DEF Prompt
  <2> HIDE DEF s
  <2> QED
    BY <1>b, <2>1, <2>2 DEF Enter, Asking
<1>1. ASSUME NEW n \in Names, BeginRegistration(t, n) PROVE Paced'
  <2>1. /\ Admit(Opens, Browser[t]) /\ faults' = faults
        /\ \A e \in Slots : e # t => slot'[e] = slot[e]
    BY <1>1, <1>b, <1>c DEF BeginRegistration
  <2> QED
    BY <1>a, <2>1, AdmitPaced, OpensCloses
<1>2. ASSUME NEW n \in Names, BeginLogin(t, n) PROVE Paced'
  <2>1. PICK i \in Candidates(n) : StartCeremony(t, [kind |-> "login", user |-> i, age |-> 0])
    BY <1>2 DEF BeginLogin
  <2>2. /\ t \notin Asking(slot', Browser[t])
        /\ \A e \in Slots : e # t => slot'[e] = slot[e]
    BY <1>c, <2>1
  <2>3. Admit("login_begin", Browser[t]) /\ faults' = faults /\ "login_begin" # Closes
    BY <1>2, <1>b DEF BeginLogin
  <2> QED
    BY <1>a, <2>2, <2>3, AdmitPaced
<1>3. ASSUME NEW n \in {Opens, "login_begin"}, BeginFails(t, n) PROVE Paced'
  <2>1. Admit(n, Browser[t]) /\ faults' = faults /\ slot' = slot /\ n # Closes
    BY <1>3, <1>b DEF BeginFails, authVars
  <2> QED
    BY <1>a, <1>b, <2>1, AdmitPaced
<1> QED
  BY <1>1, <1>2, <1>3, <1>b DEF Begin

LEMMA FinishRates ==
  ASSUME Types, Paced, NEW t \in Slots, Finish(t)
  PROVE  Paced'
<1>1. /\ DOMAIN slot = Slots /\ slot[t].at = "prompting" /\ slot[t] # Idle /\ faults' = faults
  BY DEF Types, SlotTypes, Finish, Take, TakeNothing, FinishRefused, Idle
<1>2. slot[t].route \in Routes
  BY <1>1, BusySlot DEF Types
<1>3. /\ slot'[t].at # "prompting"
      /\ \A e \in Slots : e # t => slot'[e] = slot[e]
  BY <1>1 DEF Finish, Take, TakeNothing, FinishRefused, Enter, Handler, Idle
<1>4. CASE Take(t) \/ TakeNothing(t)
  <2>1. Admit(slot[t].route, Browser[t])
    BY <1>4 DEF Take, TakeNothing
  <2>2. /\ slot[t].route = Closes => t \in Asking(slot, Browser[t])
        /\ t \notin Asking(slot', Browser[t])
    BY <1>1, <1>3 DEF Asking
  <2> QED
    BY <1>1, <1>2, <1>3, <2>1, <2>2, AdmitPaced
<1>5. CASE FinishRefused(t)
  BY <1>1, <1>3, <1>5, QuietPaced DEF FinishRefused, Refuse
<1> QED
  BY <1>4, <1>5 DEF Finish

LEMMA NextPaced == Types /\ Paced /\ [Next]_vars => Paced'
<1> SUFFICES ASSUME Types, Paced, [Next]_vars PROVE Paced'
  OBVIOUS
<1>0. DOMAIN slot = Slots /\ faults \in Nat
  BY RateTypes DEF Types, SlotTypes
<1>1. ASSUME NEW t \in Slots, Begin(t) \/ Finish(t) PROVE Paced'
  BY <1>1, BeginRates, FinishRates
<1>2. ASSUME NEW t \in Slots, Abandon(t) \/ Handle(t) PROVE Paced'
  <2>1. /\ faults' = faults /\ bucket' = bucket
        /\ \E x : Enter(t, x) /\ x.at # "prompting"
    <3>1. CASE Abandon(t) \/ Fails(t) \/ SignIn(t)
      BY <3>1 DEF Abandon, Fails, SignIn, Idle
    <3>2. CASE CheckAgain(t)
      BY <3>2 DEF CheckAgain
    <3>3. CASE CreateUser(t)
      BY <3>3 DEF CreateUser
    <3>4. CASE SaveCredential(t) \/ Verify(t)
      BY <3>4 DEF SaveCredential, Verify, Signing
    <3> QED
      BY <1>2, <3>1, <3>2, <3>3, <3>4 DEF Handle
  <2>2. \A e \in Slots : slot'[e] = slot[e] \/ slot'[e].at # "prompting"
    BY <1>0, <2>1 DEF Enter
  <2> QED
    BY <2>1, <2>2, QuietPaced
<1>3. ASSUME NEW t \in Slots, NEW e \in Slots, Redeliver(t, e) PROVE Paced'
  BY <1>0, <1>3 DEF Redeliver, Paced
<1>4. ASSUME NEW c \in Clients, Logout(c) \/ Visit(c) PROVE Paced'
  BY <1>4, QuietPaced DEF Logout, Visit
<1>5. CASE Cleanup \/ Sweep
  BY <1>5, QuietPaced DEF Cleanup, Sweep
<1>6. CASE Tick
  BY <1>6, ElapsePaced
<1>7. CASE Crash
  BY <1>0, <1>7 DEF Crash, Paced
<1>8. CASE UNCHANGED vars
  BY <1>8, QuietPaced DEF vars
<1> QED
  BY <1>1, <1>2, <1>3, <1>4, <1>5, <1>6, <1>7, <1>8 DEF Next

LEMMA InitPaced == Init => Paced
<1> SUFFICES ASSUME Init, NEW c \in Clients
             PROVE  PacedFor(slot, bucket[Opens][c], bucket[Closes][c], c)
  BY DEF Paced
<1>1. bucket[Opens][c] = NoBucket /\ bucket[Closes][c] = NoBucket
  BY OpensCloses DEF Init, LimiterInit
<1>2. NoBucket \in Bucket(Opens) /\ NoBucket.left = 0 /\ NoBucket.count = 0
  BY OpensCloses, QuotaPositive DEF NoBucket, Bucket
<1>3. Asking(slot, c) = {} /\ \A a : Recent(slot, c, a) = {}
  BY DEF Init, Asking, Recent, Idle
<1>4. IsFiniteSet(Asking(slot, c)) /\ \A a \in Nat : Cardinality(Recent(slot, c, a)) = 0
  BY <1>3, FS_EmptySet
<1> HIDE DEF NoBucket
<1> QED
  BY <1>1, <1>2, <1>4, CoversNone DEF PacedFor

\* Between the beginnings and the answer the client's windows cover the reach of
\* the window of finishing, and what they admit is within its quota.
LEMMA PacedAdmits ==
  ASSUME Types, Paced
  PROVE  AnswerAdmitted
<1> SUFFICES ASSUME faults = 0, NEW t \in Slots, slot[t].at = "prompting", slot[t].route = Closes,
                    Exhausted(Closes, Browser[t])
             PROVE  FALSE
  BY DEF AnswerAdmitted, Closes
<1> DEFINE c == Browser[t]
           b == bucket[Opens][c]
           f == bucket[Closes][c]
<1>1. c \in Clients /\ PacedFor(slot, b, f, c) /\ b \in Bucket(Opens) /\ f \in Bucket(Closes)
  BY SlotsAssumption, RateTypes DEF Paced
<1>2. t \in Asking(slot, c) /\ f.left > 0 /\ f.count >= Quota(Closes)
  BY DEF Asking, Exhausted
<1> HIDE DEF c, b, f
<1>3. Cardinality(Asking(slot, c)) \in Nat \ {0}
  BY <1>1, <1>2, FS_EmptySet, FS_CardinalityType DEF PacedFor
<1>4. PICK k \in 0 .. Quota(Closes) :
        /\ Policy[Closes].window + PromptLimit <= k * Policy[Opens].window + 1
        /\ (k + 1) * Quota(Opens) <= Quota(Closes)
  BY PoliciesAssumption DEF Opens, Closes
<1>5. k \in Nat
  OBVIOUS
<1>6. Span(k) = k * Policy[Opens].window + Policy[Opens].window
  <2> DEFINE W == Policy[Opens].window
  <2>1. W \in Nat
    BY OpensCloses, QuotaPositive
  <2>2. Span(k) = (k + 1) * W
    BY DEF Span
  <2> HIDE DEF W
  <2>3. Span(k) = k * W + W
    BY <1>5, <2>1, <2>2
  <2> QED
    BY <2>3 DEF W
<1>7. Earlier(k) + Quota(Opens) <= Quota(Closes)
  <2> DEFINE Q == Quota(Opens)
  <2>1. Q \in Nat
    BY OpensCloses, QuotaPositive
  <2>2. Earlier(k) = k * Q /\ (k + 1) * Q <= Quota(Closes)
    BY <1>4 DEF Earlier
  <2> HIDE DEF Q
  <2>3. Earlier(k) + Q <= Quota(Closes)
    BY <1>5, <2>1, <2>2
  <2> QED
    BY <2>3 DEF Q
<1>8. Reach(f) + Rest(b) <= Span(k)
  <2> DEFINE W == Policy[Opens].window
             V == Policy[Closes].window
             M == k * W
  <2>1. W \in Nat \ {0} /\ V \in Nat \ {0} /\ PromptLimit \in Nat
    BY OpensCloses, QuotaPositive, TokenAssumption
  <2>2. b.left \in 0 .. W /\ f.left \in 1 .. V
    BY <1>1, <1>2 DEF Bucket
  <2>3. Rest(b) = (IF b.left = 0 THEN W ELSE b.left) /\ Reach(f) = V - f.left + PromptLimit
    BY DEF Rest, Reach
  <2>4. V + PromptLimit <= M + 1 /\ Span(k) = M + W
    BY <1>4, <1>6
  <2>5. M \in Nat
    <3> HIDE DEF W
    <3> QED
      BY <1>5, <2>1
  <2> HIDE DEF W, V, M
  <2> QED
    BY <2>1, <2>2, <2>3, <2>4, <2>5
<1>9. f.count + Cardinality(Asking(slot, c)) <= b.count + Earlier(k)
  BY <1>1, <1>2, <1>5, <1>8 DEF PacedFor, Covers
<1>10. /\ b.count \in 0 .. Quota(Opens) /\ f.count \in Nat
       /\ Quota(Opens) \in Nat /\ Quota(Closes) \in Nat /\ Earlier(k) \in Nat
  BY <1>1, <1>5, OpensCloses, QuotaPositive, Spans DEF Bucket
<1> QED
  BY <1>2, <1>3, <1>7, <1>9, <1>10

\* Nobody who was let in to begin a registration is refused for his rate when he
\* finishes it, while each answer is delivered once and the process keeps its
\* buckets.  Three requests an hour to begin and ten to finish are in proportion:
\* an hour of answers reaches back to three windows of beginning at most.
THEOREM AnswerAdmittedHolds == Spec => []AnswerAdmitted
<1>1. Init => Types /\ Paced
  BY InitTypes, InitPaced
<1>2. Types /\ Paced /\ [Next]_vars => Types' /\ Paced'
  BY NextTypes, NextPaced
<1>3. Types /\ Paced => AnswerAdmitted
  BY PacedAdmits
<1> QED
  BY <1>1, <1>2, <1>3, PTL DEF Spec

=============================================================================
