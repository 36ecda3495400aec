----------------------------- MODULE Behavioral -----------------------------
(***************************************************************************)
(* The behavioral detector the program ships with, impossible travel       *)
(* (minisoc/detections/behavioral.py): a user who logs in successfully     *)
(* from two countries within the timespan.                                 *)
(***************************************************************************)
EXTENDS Enrichment

CONSTANTS
  TravelId,    \* "impossible-travel-001"
  TravelSpan   \* its timespan, in seconds

ASSUME TravelSpanAssumption == TravelSpan \in Nat

Country(event) == event.get["source.geo.country_iso_code"]
User(event) == event.get["user.name"]

\* Successful, dated logins of a named user from a resolved country.
IsLogin(event) ==
  /\ event.get["event.outcome"] = "success"
  /\ User(event) \notin Falsy
  /\ event.time # None
  /\ Country(event) \notin Falsy

Logins(events, user) == {e \in DOMAIN events : IsLogin(events[e]) /\ User(events[e]) = user}
Travellers(events) == {User(events[e]) : e \in {d \in DOMAIN events : IsLogin(events[d])}}

Crosses(prev, cur) ==
  /\ cur.time - prev.time <= TravelSpan
  /\ Country(prev) # Country(cur)

\* The first two consecutive logins of the user that cross.
Crossings(events, user) ==
  LET timed == InTimeOrder(events, Logins(events, user))
      at == {k \in 2..Len(timed) : Crosses(events[timed[k - 1]], events[timed[k]])}
  IN IF at = {} THEN {} ELSE {<<timed[Min(at) - 1], timed[Min(at)]>>}

TravelAlert(events, user, pair) ==
  [rule |-> TravelId, level |-> "critical", events |-> pair, group |-> user,
   time |-> events[pair[2]].time, clock |-> events[pair[2]].clock]

\* impossible_travel: one alert a user at most.
Travel(events) ==
  LET crossing == {u \in Travellers(events) : Crossings(events, u) # {}} IN
  SetToSeq({TravelAlert(events, u, CHOOSE pair \in Crossings(events, u) : TRUE) : u \in crossing})

\* The sort of a user's logins raises TypeError.
TravelRaises(events) == \E u \in Travellers(events) : MixedClocks(events, Logins(events, u))

=============================================================================
