------------------------------ MODULE DraftReview ------------------------------
(***************************************************************************)
(* What the paper-entry import promises, with no job, file or crash in     *)
(* sight: drafts come once, before anybody reviews them.  From then on a   *)
(* tab sends a form with some of them, and the form is imported whole, in  *)
(* one operation, or it is lost and nothing is imported.  Drafts are       *)
(* edited and discarded one by one, and the status of the session is       *)
(* counted anew each time.  An imported draft goes only with its session,  *)
(* which takes its drafts along or leaves them to nobody.                  *)
(***************************************************************************)
EXTENDS Naturals

CONSTANTS
  Sessions, Tabs,
  Values, Blank    \* what a draft may be imported with, and what not

VARIABLES
  review,    \* the status of every session there is
  drafts, entries,
  next,      \* the id of the next draft
  sent       \* the form each tab has sent: a value for every draft it names

vars == <<review, drafts, entries, next, sent>>

Nothing == [session |-> 0, form |-> <<>>]

Of(s) == {d \in drafts : d.session = s}

\* Drafts can be reviewed once their extraction has come to its end.  The drafts
\* of a session that is gone can still be in a tab.
Reviewable(s) == s \in DOMAIN review => review[s] # "waiting"

Status(ds) ==
  IF ds # {} /\ \A d \in ds : d.confirmed THEN "confirmed"
  ELSE IF \E d \in ds : d.confirmed THEN "confirmed_part" ELSE "review_ready"

\* The status of s is counted from the drafts that are left.
Recount(s) ==
  LET left == {d \in drafts' : d.session = s}
  IN  review' = [t \in DOMAIN review |-> IF t = s THEN Status(left) ELSE review[t]]

Init ==
  /\ review = [s \in {} |-> "waiting"]
  /\ drafts = {}
  /\ entries = {}
  /\ next = 1
  /\ sent = [p \in Tabs |-> Nothing]

Open(s) ==
  /\ s \notin DOMAIN review
  /\ Of(s) = {}
  /\ review' = [t \in DOMAIN review \cup {s} |-> IF t = s THEN "waiting" ELSE review[t]]
  /\ UNCHANGED <<drafts, entries, next, sent>>

\* Drafts with new ids, the first of their session.
Extract(s) ==
  LET new == drafts' \ drafts
  IN  /\ s \in DOMAIN review => review[s] = "waiting"
      /\ Of(s) = {}
      /\ drafts \subseteq drafts'
      /\ \A d \in new :
           d = [id |-> d.id, session |-> s, value |-> d.value, confirmed |-> FALSE]
           /\ d.value \in Values \cup {Blank}
      /\ {d.id : d \in new} = next .. next' - 1
      /\ \A d, o \in new : d.id = o.id => d = o
      /\ UNCHANGED <<review, entries, sent>>

Offer(s) ==
  /\ s \in DOMAIN review
  /\ review[s] = "waiting"
  /\ Recount(s)
  /\ UNCHANGED <<drafts, entries, next, sent>>

\* A tab sends the drafts it checked, with their fields.
Submit(p) ==
  /\ sent[p] = Nothing
  /\ sent' = [sent EXCEPT ![p] = sent'[p]]
  /\ UNCHANGED <<review, drafts, entries, next>>

\* Forms are refused, or lost with the process, and nothing is imported.
Lose(tabs) ==
  /\ sent' = [p \in Tabs |-> IF p \in tabs THEN Nothing ELSE sent[p]]
  /\ UNCHANGED <<review, drafts, entries, next>>

\* A draft takes the value a form has for it.
Edit(p, d) ==
  LET f == sent[p].form
  IN  /\ d.session = sent[p].session /\ d.id \in DOMAIN f
      /\ Reviewable(d.session)
      /\ f[d.id] \in Values
      /\ drafts' = (drafts \ {d}) \cup {[d EXCEPT !.value = f[d.id]]}
      /\ UNCHANGED <<review, entries, next, sent>>

\* Every draft of a form, and nothing else, becomes one new entry.  A draft that was
\* imported before is imported again.
Import(p) ==
  LET s      == sent[p].session
      ids    == DOMAIN sent[p].form
      chosen == {d \in Of(s) : d.id \in ids}
      made   == entries' \ entries
  IN  /\ ids # {} /\ Reviewable(s)
      /\ \A id \in ids : \E d \in chosen : d.id = id
      /\ \A d \in chosen : d.value # Blank
      /\ entries \subseteq entries'
      /\ \A d \in chosen : \E e \in made : e.draft = d.id /\ e.value = d.value
      /\ \A e \in made : \E d \in chosen : e.draft = d.id
      /\ \A e, f \in made : e.draft = f.draft => e = f
      /\ drafts' = (drafts \ chosen) \cup {[d EXCEPT !.confirmed = TRUE] : d \in chosen}
      /\ Recount(s)
      /\ sent' = [sent EXCEPT ![p] = Nothing]
      /\ UNCHANGED next

Discard(d) ==
  /\ Reviewable(d.session)
  /\ ~ d.confirmed
  /\ drafts' = drafts \ {d}
  /\ Recount(d.session)
  /\ UNCHANGED <<entries, next, sent>>

Close(s) ==
  /\ s \in DOMAIN review
  /\ review' = [t \in DOMAIN review \ {s} |-> review[t]]
  /\ drafts' \in {drafts, drafts \ Of(s)}
  /\ UNCHANGED <<entries, next, sent>>

Next ==
  \/ \E s \in Sessions : Open(s) \/ Extract(s) \/ Offer(s) \/ Close(s)
  \/ \E p \in Tabs : Submit(p) \/ Import(p) \/ \E d \in drafts : Edit(p, d)
  \/ \E tabs \in SUBSET Tabs : Lose(tabs)
  \/ \E d \in drafts : Discard(d)

Spec == Init /\ [][Next]_vars

=============================================================================
