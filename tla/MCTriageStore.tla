--------------------------- MODULE MCTriageStore ---------------------------
(* Two requests at a time on a store with two alerts, of which analysts ask *)
(* about the first, and group both.  Requests are interchangeable.          *)
EXTENDS TriageStore, TLC

CONSTANTS u1, u2, r1, r2

MCUids == {u1, u2}
MCRequests == {r1, r2}
MCAsked == {[do |-> "query"], [do |-> "status", uid |-> u1, status |-> "closed_true_positive"],
            [do |-> "note", uid |-> u1], [do |-> "group", uids |-> MCUids]}
MCClosing == {o \in MCAsked : o.do \in {"query", "status"}}
Symmetry == Permutations(MCRequests)
=============================================================================
