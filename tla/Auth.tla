--------------------------------- MODULE Auth ---------------------------------
(***************************************************************************)
(* Registration, login and logout with passkeys: the browser pages of      *)
(* auth.js, the handlers behind the rate limiter, the ceremonies that      *)
(* WebAuthnManager keeps in memory, and the tables of the auth database.   *)
(*                                                                         *)
(* A slot is one run of beginRegister or beginLogin in a page, with the    *)
(* requests it sends: begin, the prompt, finish.  A finish request may be  *)
(* delivered twice.  Every statement on the auth database is a step of its *)
(* own and may fail; the process may die between any two.                  *)
(*                                                                         *)
(* The checks inside the WebAuthn library are a choice: the answer of a    *)
(* browser verifies or does not.  A page never answers a ceremony at the   *)
(* other route, so Kind, which the code stores and never reads, is not     *)
(* tested here either.                                                     *)
(***************************************************************************)
EXTENDS RateLimiter, FiniteSets, Sequences

CONSTANTS
  Slots,        \* runs of the page's script
  Browser,      \* the client each of them belongs to
  NewNames,     \* valid usernames: lower case
  OldNames,     \* names of which some users are left from before names were normalized
  Lower,        \* lower(name)
  Sids,         \* ids of ceremonies
  Tokens,       \* session tokens
  NoToken,
  TTL,          \* a ceremony older than this is swept
  PromptLimit,  \* the browser ends a prompt that lasts longer
  MaxFaults     \* bound: finish requests delivered twice, and crashes of the process

Names == NewNames \cup OldNames

ASSUME NamesAssumption ==
  /\ NewNames \cap OldNames = {}
  /\ Lower \in [Names -> NewNames]
  /\ \A n \in NewNames : Lower[n] = n
  /\ \A m, n \in OldNames : Lower[m] = Lower[n] => m = n
ASSUME SlotsAssumption  == Browser \in [Slots -> Clients]
ASSUME RoutesAssumption == Routes = {"register_begin", "register_finish", "login_begin", "login_finish"}
\* The windows of beginning that a window of finishing can still hear from, k + 1
\* of them, admit no more requests than it does.  In the code k is 2: windows of an
\* hour that admit 3 and 10, and prompts far shorter than an hour.
ASSUME PoliciesAssumption ==
  \E k \in 0 .. Quota("register_finish") :
    /\ Policy["register_finish"].window + PromptLimit <= k * Policy["register_begin"].window + 1
    /\ (k + 1) * Quota("register_begin") <= Quota("register_finish")
ASSUME TokenAssumption  == NoToken \notin Tokens /\ TTL \in Nat /\ PromptLimit \in Nat
                            /\ MaxFaults \in Nat /\ IsFiniteSet(OldNames)

VARIABLES
  users,     \* the rows of users in the order of their ids, with their passkeys
  sessions,  \* the rows of sessions, by token
  pending,   \* WebAuthnManager.sessions
  slot,      \* what each slot does
  cookie,    \* the session cookie of each browser
  faults     \* second deliveries and crashes so far

authVars == <<users, sessions, pending, slot, cookie, faults>>
vars     == <<users, sessions, pending, slot, cookie, faults, bucket>>

-----------------------------------------------------------------------------
Idle == [at |-> "idle"]

Sid(t)      == IF slot[t] = Idle THEN {} ELSE {slot[t].sid}
Enter(t, s) == slot' = [slot EXCEPT ![t] = s]
Without(f, S) == [x \in DOMAIN f \ S |-> f[x]]
With(f, x, v) == [y \in DOMAIN f \cup {x} |-> IF y = x THEN v ELSE f[y]]

\* GetUserByUsernameFold finds a row; GetUserByUsernameForAuth finds it exactly.
Taken(n) == \E i \in DOMAIN users : Lower[users[i].name] = Lower[n]
Rows(n)  == {i \in DOMAIN users : users[i].name = n}

\* genSessionID: an id nobody has.  CreateSession: a token nobody has.  Which of
\* them does not matter.
FreshSids   == Sids \ (DOMAIN pending \cup UNION {Sid(t) : t \in Slots})
FreshTokens == Tokens \ (DOMAIN sessions \cup {cookie[c] : c \in Clients})

\* A slot that has taken its ceremony and not yet answered.
Working(t) == slot[t].at \notin {"idle", "prompting"}

Init ==
  /\ \E old \in SUBSET OldNames :
       users \in {u \in [1 .. Cardinality(old) -> [name : old, passkey : {TRUE}]] :
                    \A i, j \in DOMAIN u : u[i].name = u[j].name => i = j}
  /\ sessions = [k \in {} |-> [user |-> 1, expired |-> FALSE]]
  /\ pending = [s \in {} |-> [kind |-> "reg", age |-> 0]]
  /\ slot = [t \in Slots |-> Idle]
  /\ cookie = [c \in Clients |-> NoToken]
  /\ faults = 0
  /\ LimiterInit

-----------------------------------------------------------------------------
Prompt(s, n) == [at |-> "prompting", sid |-> s, route |-> n, age |-> 0]

\* A begin request passes the limiter and its ceremony is stored.
StartCeremony(t, record) ==
  /\ FreshSids # {}
  /\ LET s == CHOOSE x \in FreshSids : TRUE
     IN  /\ pending' = With(pending, s, record)
         /\ Enter(t, Prompt(s, IF record.kind = "reg" THEN "register_finish" ELSE "login_finish"))

\* beginRegistration: the name is normalized and must not be taken.
BeginRegistration(t, typed) ==
  LET name == Lower[typed]
  IN  /\ slot[t] = Idle
      /\ Admit("register_begin", Browser[t])
      /\ ~ Taken(name)
      /\ StartCeremony(t, [kind |-> "reg", name |-> name, age |-> 0])
      /\ UNCHANGED <<users, sessions, cookie, faults>>

\* beginLogin: the first of the normalized and the typed name that belongs to a
\* user with a passkey; the library refuses one without.
Candidates(typed) ==
  LET usable(n) == {i \in Rows(n) : users[i].passkey}
  IN  IF usable(Lower[typed]) # {} THEN usable(Lower[typed]) ELSE usable(typed)

BeginLogin(t, typed) ==
  /\ slot[t] = Idle
  /\ Admit("login_begin", Browser[t])
  /\ \E i \in Candidates(typed) : StartCeremony(t, [kind |-> "login", user |-> i, age |-> 0])
  /\ UNCHANGED <<users, sessions, cookie, faults>>

\* The request is counted, and answered with an error: the name is taken or
\* unknown, the body is bad, the database fails.
BeginFails(t, n) ==
  /\ slot[t] = Idle
  /\ Admit(n, Browser[t])
  /\ UNCHANGED authVars

\* The user cancels the prompt, or the page is closed.
Abandon(t) ==
  /\ slot[t].at = "prompting"
  /\ Enter(t, Idle)
  /\ UNCHANGED <<users, sessions, pending, cookie, faults, bucket>>

-----------------------------------------------------------------------------
\* The next step of the handler that has taken ceremony s from slot t.
Handler(t, s) ==
  IF pending[s].kind = "reg"
  THEN [at |-> "checking", sid |-> s, route |-> slot[t].route, name |-> pending[s].name]
  ELSE [at |-> "verifying", sid |-> s, route |-> slot[t].route, user |-> pending[s].user]

\* Mutant: the ceremony stays where it is, to be deleted by the sweeper.
TakeAndKeep(t) ==
  LET s == slot[t].sid
  IN  /\ slot[t].at = "prompting"
      /\ Admit(slot[t].route, Browser[t])
      /\ s \in DOMAIN pending
      /\ Enter(t, Handler(t, s))
      /\ UNCHANGED <<users, sessions, pending, cookie, faults>>

\* finishRegistration, finishLogin: under m.mu the ceremony is looked up and
\* deleted, whatever its age.
Take(t) ==
  LET s == slot[t].sid
  IN  /\ slot[t].at = "prompting"
      /\ Admit(slot[t].route, Browser[t])
      /\ s \in DOMAIN pending
      /\ pending' = Without(pending, {s})
      /\ Enter(t, Handler(t, s))
      /\ UNCHANGED <<users, sessions, cookie, faults>>

\* "no registration session found", "no login session found".
TakeNothing(t) ==
  /\ slot[t].at = "prompting"
  /\ Admit(slot[t].route, Browser[t])
  /\ slot[t].sid \notin DOMAIN pending
  /\ Enter(t, Idle)
  /\ UNCHANGED <<users, sessions, pending, cookie, faults>>

\* 429: the page gives the ceremony up.
FinishRefused(t) ==
  /\ slot[t].at = "prompting"
  /\ Refuse(slot[t].route, Browser[t])
  /\ Enter(t, Idle)
  /\ UNCHANGED <<users, sessions, pending, cookie, faults>>

\* A finish request arrives a second time.
Redeliver(t, e) ==
  /\ slot[t] # Idle
  /\ slot[e] = Idle
  /\ Browser[t] = Browser[e]
  /\ faults < MaxFaults
  /\ faults' = faults + 1
  /\ Enter(e, Prompt(slot[t].sid, slot[t].route))
  /\ UNCHANGED <<users, sessions, pending, cookie, bucket>>

\* A statement or a check of the handler fails; it answers with an error.
Fails(t) ==
  /\ Working(t)
  /\ Enter(t, Idle)
  /\ UNCHANGED <<users, sessions, pending, cookie, faults, bucket>>

\* FinishRegistration: the name is looked up again, and the answer verifies.
CheckAgain(t) ==
  /\ slot[t].at = "checking"
  /\ ~ Taken(slot[t].name)
  /\ Enter(t, [at |-> "creating", sid |-> slot[t].sid, route |-> slot[t].route, name |-> slot[t].name])
  /\ UNCHANGED <<users, sessions, pending, cookie, faults, bucket>>

\* Mutant: users.username is not UNIQUE.
CreateUserTwice(t) ==
  /\ slot[t].at = "creating"
  /\ users' = Append(users, [name |-> slot[t].name, passkey |-> FALSE])
  /\ Enter(t, [at |-> "saving", sid |-> slot[t].sid, route |-> slot[t].route, user |-> Len(users) + 1])
  /\ UNCHANGED <<sessions, pending, cookie, faults, bucket>>

\* CreateUserWithWebAuthnID: the constraint is on the name as it is written.
CreateUser(t) ==
  /\ slot[t].at = "creating"
  /\ Rows(slot[t].name) = {}
  /\ users' = Append(users, [name |-> slot[t].name, passkey |-> FALSE])
  /\ Enter(t, [at |-> "saving", sid |-> slot[t].sid, route |-> slot[t].route, user |-> Len(users) + 1])
  /\ UNCHANGED <<sessions, pending, cookie, faults, bucket>>

\* The user is known and has proved a passkey: setAuthCookie comes next.
Signing(t) == [at |-> "signing", sid |-> slot[t].sid, route |-> slot[t].route, user |-> slot[t].user]

\* Mutant: a passkey that could not be stored does not end the registration.
SaveCredentialOrNot(t) ==
  /\ slot[t].at = "saving"
  /\ \E ok \in BOOLEAN : users' = [users EXCEPT ![slot[t].user].passkey = ok]
  /\ Enter(t, Signing(t))
  /\ UNCHANGED <<sessions, pending, cookie, faults, bucket>>

SaveCredential(t) ==
  /\ slot[t].at = "saving"
  /\ users' = [users EXCEPT ![slot[t].user].passkey = TRUE]
  /\ Enter(t, Signing(t))
  /\ UNCHANGED <<sessions, pending, cookie, faults, bucket>>

\* FinishLogin: the user is read and the answer verifies.
Verify(t) ==
  /\ slot[t].at = "verifying"
  /\ Enter(t, Signing(t))
  /\ UNCHANGED <<users, sessions, pending, cookie, faults, bucket>>

\* SessionCookie.Set.  A session the browser had is not ended.  The answer may
\* not reach the browser.
SignIn(t) ==
  /\ slot[t].at = "signing"
  /\ FreshTokens # {}
  /\ LET k == CHOOSE x \in FreshTokens : TRUE
     IN  /\ sessions' = With(sessions, k, [user |-> slot[t].user, expired |-> FALSE])
         /\ cookie' \in {cookie, [cookie EXCEPT ![Browser[t]] = k]}
  /\ Enter(t, Idle)
  /\ UNCHANGED <<users, pending, faults, bucket>>

-----------------------------------------------------------------------------
\* logout: Clear ignores that the row could not be deleted, and drops the cookie.
Logout(c) ==
  /\ cookie[c] # NoToken
  /\ sessions' \in {Without(sessions, {cookie[c]}), sessions}
  /\ cookie' = [cookie EXCEPT ![c] = NoToken]
  /\ UNCHANGED <<users, pending, slot, faults, bucket>>

\* authMiddleware, ValidateSessionToken: an expired session is deleted and the
\* visitor sent to the login page; the cookie has outlived its MaxAge.
Visit(c) ==
  /\ cookie[c] \in DOMAIN sessions => sessions[cookie[c]].expired
  /\ cookie[c] # NoToken
  /\ sessions' = Without(sessions, {cookie[c]})
  /\ cookie' = [cookie EXCEPT ![c] = NoToken]
  /\ UNCHANGED <<users, pending, slot, faults, bucket>>

\* CleanupExpiredSessions, hourly.
Cleanup ==
  LET out == {k \in DOMAIN sessions : sessions[k].expired}
  IN  /\ out # {}
      /\ sessions' = Without(sessions, out)
      /\ UNCHANGED <<users, pending, slot, cookie, faults, bucket>>

\* Mutant: the sweeper deletes the young ceremonies and keeps the old.
SweepYoung ==
  LET out == {s \in DOMAIN pending : pending[s].age < TTL}
  IN  /\ out # {}
      /\ pending' = Without(pending, out)
      /\ UNCHANGED <<users, sessions, slot, cookie, faults, bucket>>

\* cleanupLoop, every minute.
Sweep ==
  LET out == {s \in DOMAIN pending : pending[s].age > TTL}
  IN  /\ out # {}
      /\ pending' = Without(pending, out)
      /\ UNCHANGED <<users, sessions, slot, cookie, faults, bucket>>

\* Time passes: ceremonies and prompts age, windows close, some sessions reach
\* their end.
Tick ==
  /\ \A t \in Slots : slot[t].at = "prompting" => slot[t].age < PromptLimit
  /\ pending' = [s \in DOMAIN pending |-> [pending[s] EXCEPT !.age = IF @ > TTL THEN @ ELSE @ + 1]]
  /\ \E out \in SUBSET DOMAIN sessions :
       sessions' = [k \in DOMAIN sessions |->
                     [user |-> sessions[k].user, expired |-> sessions[k].expired \/ k \in out]]
  /\ slot' = [t \in Slots |->
       IF slot[t].at # "prompting" THEN slot[t]
       ELSE [at |-> "prompting", sid |-> slot[t].sid, route |-> slot[t].route, age |-> slot[t].age + 1]]
  /\ Elapse
  /\ UNCHANGED <<users, cookie, faults>>

\* The process dies and starts again: memory is empty, pages still prompt.
Crash ==
  /\ faults < MaxFaults
  /\ faults' = faults + 1
  /\ pending' = Without(pending, DOMAIN pending)
  /\ slot' = [t \in Slots |-> IF Working(t) THEN Idle ELSE slot[t]]
  /\ Forget
  /\ UNCHANGED <<users, sessions, cookie>>

Begin(t)  == \/ \E n \in Names : BeginRegistration(t, n) \/ BeginLogin(t, n)
             \/ BeginFails(t, "register_begin")
             \/ BeginFails(t, "login_begin")
Finish(t) == Take(t) \/ TakeNothing(t) \/ FinishRefused(t)
Handle(t) == CheckAgain(t) \/ CreateUser(t) \/ SaveCredential(t) \/ Verify(t) \/ SignIn(t) \/ Fails(t)

Next ==
  \/ \E t \in Slots : Begin(t) \/ Abandon(t) \/ Finish(t) \/ Handle(t)
  \/ \E t, e \in Slots : Redeliver(t, e)
  \/ \E c \in Clients : Logout(c) \/ Visit(c)
  \/ Cleanup \/ Sweep \/ Tick \/ Crash

Spec == Init /\ [][Next]_vars

\* The clock runs, the sweeper's ticker fires, and a page answers its prompt or
\* gives it up.  A handler may hang for ever: nothing here waits for one.
FairSpec ==
  /\ Spec
  /\ WF_vars(Tick) /\ WF_vars(Sweep)
  /\ \A t \in Slots : WF_vars(Abandon(t) \/ Finish(t))

-----------------------------------------------------------------------------
SlotState(x) ==
  \/ x = Idle
  \/ x \in [at : {"prompting"}, sid : Sids, route : Routes, age : 0 .. PromptLimit]
  \/ x \in [at : {"checking", "creating"}, sid : Sids, route : Routes, name : NewNames]
  \/ x \in [at : {"saving", "verifying", "signing"}, sid : Sids, route : Routes, user : DOMAIN users]

Ceremony(x) ==
  \/ x \in [kind : {"reg"}, name : NewNames, age : 0 .. TTL + 1]
  \/ x \in [kind : {"login"}, user : DOMAIN users, age : 0 .. TTL + 1]

\* Types.  Sessions and requests refer to rows that exist.
TypeOK ==
  /\ users \in Seq([name : Names, passkey : BOOLEAN])
  /\ DOMAIN sessions \subseteq Tokens
  /\ \A k \in DOMAIN sessions : sessions[k] \in [user : DOMAIN users, expired : BOOLEAN]
  /\ DOMAIN pending \subseteq Sids /\ \A s \in DOMAIN pending : Ceremony(pending[s])
  /\ DOMAIN slot = Slots /\ \A t \in Slots : SlotState(slot[t])
  /\ cookie \in [Clients -> Tokens \cup {NoToken}]
  /\ faults \in 0 .. MaxFaults
  /\ BucketTypeOK

\* Two pages that register a name at once, spelled in whatever case and next to
\* users from before names were normalized, never make two accounts of it.
OneAccountPerName ==
  \A i, j \in DOMAIN users : Lower[users[i].name] = Lower[users[j].name] => i = j

\* A ceremony is answered once: while one handler acts on it, it is no longer
\* pending, and no second delivery of the answer is being acted on.
CeremonySpentOnce ==
  \A t \in Slots :
    Working(t) => /\ slot[t].sid \notin DOMAIN pending
                  /\ \A e \in Slots : Working(e) /\ slot[e].sid = slot[t].sid => e = t

\* Whoever is signed in can sign in again: no session belongs to an account
\* whose passkey was never stored.
SessionHasPasskey ==
  \A k \in DOMAIN sessions : users[sessions[k].user].passkey

\* The policies fit together: while a client answers each ceremony once, and the
\* process does not forget its windows, no registration it was allowed to begin
\* is refused for its rate at the end.
AnswerAdmitted ==
  faults = 0 =>
    \A t \in Slots :
      slot[t].at = "prompting" /\ slot[t].route = "register_finish"
        => ~ Exhausted("register_finish", Browser[t])

\* No ceremony stays in memory: those nobody answers are swept.
CeremoniesLeave ==
  \A s \in Sids : s \in DOMAIN pending ~> s \notin DOMAIN pending

=============================================================================
