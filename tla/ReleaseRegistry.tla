--------------------------- MODULE ReleaseRegistry ---------------------------
(***************************************************************************)
(* What publishing promises the clients of one release: each of its source *)
(* archives (one per media type) is a register that can be written until   *)
(* the first publish of it is accepted, and never after.  A publish that   *)
(* is not accepted may leave its archive behind, but only where none has   *)
(* been accepted.                                                          *)
(***************************************************************************)
CONSTANTS
  Requests,  \* publish requests
  Nobody,    \* nothing is served
  Damaged,   \* what is served is no request's archive
  Sources    \* the source archives of a release

VARIABLES
  served,   \* served[f]: whose archive a download of f returns
  verdict   \* verdict[p]: what p has been told; an archive if it was accepted

vars == <<served, verdict>>

Accepted(f) == \E p \in Requests : verdict[p] = f

Init == /\ served = [f \in Sources |-> Nobody]
        /\ verdict = [p \in Requests |-> "pending"]

\* While a publish is under way, a file nobody was promised changes.
Change(f) ==
  /\ ~Accepted(f)
  /\ \E s \in Requests \cup {Nobody, Damaged} :
       served' = [served EXCEPT ![f] = s]
  /\ UNCHANGED verdict

\* p is told that f is its archive, and it is.
Accept(p, f) ==
  /\ verdict[p] = "pending"
  /\ ~Accepted(f)
  /\ served[f] = p
  /\ verdict' = [verdict EXCEPT ![p] = f]
  /\ UNCHANGED served

\* Requests are refused, or get no answer; a part being uploaded to the
\* store may have been applied in the same step.
Reject ==
  /\ \E P \in SUBSET {p \in Requests : verdict[p] = "pending"},
        why \in {"refused", "lost"} :
       verdict' = [p \in Requests |-> IF p \in P THEN why ELSE verdict[p]]
  /\ \/ UNCHANGED served
     \/ \E f \in Sources, s \in Requests \cup {Nobody, Damaged} :
          ~Accepted(f) /\ served' = [served EXCEPT ![f] = s]

Next == \/ \E f \in Sources : Change(f)
        \/ \E p \in Requests, f \in Sources : Accept(p, f)
        \/ Reject

Spec == Init /\ [][Next]_vars
=============================================================================
