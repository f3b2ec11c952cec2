----------------------------- MODULE SqlService -----------------------------
(***************************************************************************)
(* What run_sqlite_query promises its callers: a worker hands over one     *)
(* query at a time, the database executes it once, and the call returns    *)
(* what that execution yielded: its first row, or the end mark if there is *)
(* none.  The promise is for callers that take turns; once it is broken    *)
(* nothing is promised any more.                                           *)
(***************************************************************************)
EXTENDS Naturals

CONSTANTS Workers, MaxQueries

VARIABLES asked,    \* number of queries each worker has asked
          outcome,  \* outcome[w][n]: what executing query n of w yielded
          result,   \* result[w][n]: what the call for query n of w returned
          broken    \* "yes" once the callers have broken their part

svars == <<asked, outcome, result, broken>>

Queries == 1 .. MaxQueries

\* The values a caller tells apart by strcmp with END_STR.
Results == {"row", "END"}

Returned(w) == asked[w] = 0 \/ result[w][asked[w]] # "none"

SInit ==
  /\ asked = [w \in Workers |-> 0]
  /\ outcome = [w \in Workers |-> [n \in Queries |-> "none"]]
  /\ result = [w \in Workers |-> [n \in Queries |-> "none"]]
  /\ broken = "no"

\* Callers take turns.
Free == \A w \in Workers : Returned(w)

Ask(w) ==
  /\ Free /\ asked[w] < MaxQueries
  /\ asked' = [asked EXCEPT ![w] = @ + 1]
  /\ UNCHANGED <<outcome, result>>

Execute(w) ==
  /\ ~Returned(w) /\ outcome[w][asked[w]] = "none"
  /\ \E r \in Results : outcome' = [outcome EXCEPT ![w][asked[w]] = r]
  /\ UNCHANGED <<asked, result>>

Return(w) ==
  /\ ~Returned(w) /\ outcome[w][asked[w]] # "none"
  /\ result' = [result EXCEPT ![w][asked[w]] = outcome[w][asked[w]]]
  /\ UNCHANGED <<asked, outcome>>

Break == broken' = "yes"

SNext ==
  \/ broken = "no" /\ broken' = "no"
     /\ \E w \in Workers : Ask(w) \/ Execute(w) \/ Return(w)
  \/ Break

SSpec == SInit /\ [][SNext]_svars
=============================================================================
