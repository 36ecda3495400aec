---------------------------- MODULE TriageBoard ----------------------------
(***************************************************************************)
(* What the triage store promises its analysts, whatever happens in it: a  *)
(* board of cards, one for every alert filed, that nothing changes but the *)
(* requests of analysts, each of them in one step and once.  Requests may  *)
(* be dropped.  Module TriageStore is shown to implement it.               *)
(***************************************************************************)
EXTENDS Naturals

CONSTANTS Uids, Requests, Asked, None

VARIABLES
  cards,      \* the alerts filed: uid -> [status, incident, notes]
  incidents,  \* how many incidents were opened
  asked,      \* request -> what an analyst waits for, or None
  opened      \* request -> the incident opened for it, or 0

vars == <<cards, incidents, asked, opened>>

Init ==
  /\ cards = [u \in {} |-> None]
  /\ incidents = 0
  /\ asked = [r \in Requests |-> None]
  /\ opened = [r \in Requests |-> 0]

\* Detection files an alert once; it is new.
File(u) ==
  /\ UNCHANGED <<incidents, asked, opened>>
  /\ u \notin DOMAIN cards
  /\ cards' = [v \in DOMAIN cards \union {u} |->
                 IF v = u THEN [status |-> "new", incident |-> None, notes |-> 0] ELSE cards[v]]

Ask(r, o) ==
  /\ asked[r] = None
  /\ asked' = [asked EXCEPT ![r] = o]
  /\ UNCHANGED <<cards, incidents, opened>>

\* The request is over.
Over(r) ==
  /\ asked[r] # None
  /\ asked' = [asked EXCEPT ![r] = None]
  /\ opened' = [opened EXCEPT ![r] = 0]

\* A query, or a request that fails or is lost.
Drop(r) == Over(r) /\ UNCHANGED <<cards, incidents>>

SetStatus(r) ==
  /\ Over(r)
  /\ asked[r].do = "status"
  /\ asked[r].uid \in DOMAIN cards
  /\ cards' = [cards EXCEPT ![asked[r].uid].status = asked[r].status]
  /\ UNCHANGED incidents

AddNote(r) ==
  /\ Over(r)
  /\ asked[r].do = "note"
  /\ asked[r].uid \in DOMAIN cards
  /\ cards' = [cards EXCEPT ![asked[r].uid].notes = @ + 1]
  /\ UNCHANGED incidents

\* An incident is opened, and in a later step its members join it all at once:
\* a request dropped between the two leaves an incident without members.
OpenIncident(r) ==
  /\ asked[r] # None
  /\ asked[r].do = "group"
  /\ opened[r] = 0
  /\ incidents' = incidents + 1
  /\ opened' = [opened EXCEPT ![r] = incidents']
  /\ UNCHANGED <<cards, asked>>

Assign(r) ==
  /\ Over(r)
  /\ asked[r].do = "group"
  /\ opened[r] \in 1..incidents
  /\ cards' = [u \in DOMAIN cards |->
                 IF u \in asked[r].uids THEN [cards[u] EXCEPT !.incident = opened[r]] ELSE cards[u]]
  /\ UNCHANGED incidents

Next ==
  \/ \E u \in Uids : File(u)
  \/ \E r \in Requests :
       \/ \E o \in Asked : Ask(r, o)
       \/ Drop(r) \/ SetStatus(r) \/ AddNote(r) \/ OpenIncident(r) \/ Assign(r)

Spec == Init /\ [][Next]_vars

=============================================================================
