------------------------------ MODULE JobTable ------------------------------
(***************************************************************************)
(* What the jobs table promises to its readers (activity page, status      *)
(* polling, dashboard), independently of the threads that write it: a job  *)
(* is created running, only while its list has no running job; it settles  *)
(* once, as completed or failed; only settled jobs are deleted.            *)
(***************************************************************************)
EXTENDS Naturals

CONSTANTS
    JobIds,     \* primary keys of the jobs table
    Lists,      \* the lists a job can import
    NoList      \* the list of an absent row

VARIABLES
    status,     \* [JobIds -> {"none", "running", "completed", "failed"}]
    of          \* [JobIds -> Lists \cup {NoList}]: the column list_id

vars == <<status, of>>

Running == {j \in JobIds : status[j] = "running"}
Settled == {j \in JobIds : status[j] \in {"completed", "failed"}}

Init ==
    /\ status = [j \in JobIds |-> "none"]
    /\ of = [j \in JobIds |-> NoList]

\* A list that has no running job gets one, under an unused key.
Create(j, l) ==
    /\ status[j] = "none"
    /\ \A i \in Running : of[i] # l
    /\ status' = [status EXCEPT ![j] = "running"]
    /\ of' = [of EXCEPT ![j] = l]

\* Some running jobs end, together (recovery) or alone.
Settle(S, s) ==
    /\ S # {}
    /\ status' = [j \in JobIds |-> IF j \in S THEN s ELSE status[j]]
    /\ UNCHANGED of

\* Some settled jobs are deleted.
Clear(S) ==
    /\ S # {}
    /\ status' = [j \in JobIds |-> IF j \in S THEN "none" ELSE status[j]]
    /\ of' = [j \in JobIds |-> IF j \in S THEN NoList ELSE of[j]]

Next ==
    \/ \E j \in JobIds, l \in Lists : Create(j, l)
    \/ \E S \in SUBSET Running, s \in {"completed", "failed"} : Settle(S, s)
    \/ \E S \in SUBSET Settled : Clear(S)

Spec == Init /\ [][Next]_vars

----------------------------------------------------------------------------
(* What is left of the promise when the database fails or processes boot   *)
(* beside each other: a row can get an outcome when it already has one.    *)

Present == {j \in JobIds : status[j] # "none"}

LooseNext ==
    \/ \E j \in JobIds, l \in Lists : Create(j, l)
    \/ \E S \in SUBSET Present, s \in {"completed", "failed"} : Settle(S, s)
    \/ \E S \in SUBSET Settled : Clear(S)

LooseSpec == Init /\ [][LooseNext]_vars

=============================================================================
