----------------------------- MODULE MCRowFlush -----------------------------
(* Instances of RowFlush for TLC: one server and two servers.              *)
EXTENDS RowFlush, TLC

CONSTANTS e1, e2, t1, t2, t3

\* deleted_at comes first: the attributes of ParamsBase precede the model's.
MCColumns == 1 .. 3
MCDeletedAt == 1

\* One server: two threads use its object; the .cfg says which of them flush.
OneHome == [t \in {t1, t2} |-> e1]
OneWriters == [c \in MCColumns |-> {e1}]

\* Two servers: each has its own column, the first one deletes.
TwoHome == (t1 :> e1) @@ (t2 :> e2)
TwoWriters == <<{e1}, {e1}, {e2}>>
CrowdColumns == 1 .. 2
CrowdWriters == <<{e2}, {e1}>>
CrowdHome == (t1 :> e1) @@ (t2 :> e1) @@ (t3 :> e2)
\* t1 and t2 of CrowdHome are interchangeable.
CrowdSymmetry == Permutations({t1, t2})
=============================================================================
