----------------------------- MODULE WholeScan -----------------------------
(***************************************************************************)
(* What a scan of LSF promises the goroutine that asked for it: one query, *)
(* and one answer to it, which is an error or what that query matched.     *)
(* LSF's library knows one query at a time; scans whose queries are open   *)
(* together are promised less, but still no record twice and none from     *)
(* before they asked.                                                      *)
(*                                                                         *)
(* lsfSource.collect is shown to implement this specification.             *)
(***************************************************************************)
EXTENDS Naturals, Sequences

CONSTANTS
  Callers,    \* goroutines that may ask for a scan
  MaxJobs     \* how many records a query may match

VARIABLES
  phase,      \* each caller is "idle", "scanning" or "answered"
  query,      \* the query its scan has opened, 0 for none
  size,       \* how many records that one matches
  answer,     \* what it has been told
  queries,    \* queries opened; a query's number is its rank
  met         \* callers whose query was open together with another one

vars == <<phase, query, size, answer, queries, met>>

NoAnswer == [failed |-> FALSE, jobs |-> <<>>]
Failure  == [failed |-> TRUE, jobs |-> <<>>]

Init ==
  /\ phase = [c \in Callers |-> "idle"]
  /\ query = [c \in Callers |-> 0] /\ size = [c \in Callers |-> 0]
  /\ answer = [c \in Callers |-> NoAnswer]
  /\ queries = 0 /\ met = {}

Begin(c) ==
  /\ phase[c] = "idle"
  /\ phase' = [phase EXCEPT ![c] = "scanning"]
  /\ UNCHANGED <<query, size, answer, queries, met>>

\* Queries that are still open by then are in each other's way.
Query(c) ==
  /\ phase[c] = "scanning" /\ query[c] = 0
  /\ queries' = queries + 1
  /\ query' = [query EXCEPT ![c] = queries + 1]
  /\ \E n \in 0..MaxJobs : size' = [size EXCEPT ![c] = n]
  /\ \E others \in SUBSET {d \in Callers \ {c} : phase[d] = "scanning" /\ query[d] # 0} :
       met' = IF others = {} THEN met ELSE met \cup others \cup {c}
  /\ UNCHANGED <<phase, answer>>

\* A record comes before another one in the order in which LSF gives them.
Earlier(r, s) == r.scan < s.scan \/ (r.scan = s.scan /\ r.job < s.job)

\* The records of a query.
Matched(q, n) == [i \in 1..n |-> [scan |-> q, job |-> i]]

\* What a scan that has not failed may return.
Sound(c, list) ==
  /\ c \notin met => list = Matched(query[c], size[c])
  /\ Len(list) <= size[c]
  /\ \A i \in 1..Len(list) :
       /\ list[i].scan \in query[c]..queries
       /\ \A k \in 1..i - 1 : Earlier(list[k], list[i])

Answer(c) ==
  /\ phase[c] = "scanning"
  /\ phase' = [phase EXCEPT ![c] = "answered"]
  /\ answer' = [answer EXCEPT ![c] = answer'[c]]
  /\ \/ answer'[c] = Failure
     \/ query[c] # 0 /\ ~answer'[c].failed /\ Sound(c, answer'[c].jobs)
  /\ UNCHANGED <<query, size, queries, met>>

Leave(c) ==
  /\ phase[c] = "answered"
  /\ phase' = [phase EXCEPT ![c] = "idle"]
  /\ query' = [query EXCEPT ![c] = 0] /\ size' = [size EXCEPT ![c] = 0]
  /\ answer' = [answer EXCEPT ![c] = NoAnswer]
  /\ met' = met \ {c}
  /\ UNCHANGED queries

Next == \E c \in Callers : Begin(c) \/ Query(c) \/ Answer(c) \/ Leave(c)

Spec == Init /\ [][Next]_vars
=============================================================================
