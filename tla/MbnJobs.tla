------------------------------ MODULE MbnJobs ------------------------------
(***************************************************************************)
(* What the MBN service promises about its operations (internal/mbn): each *)
(* request is carried out at most once, one at a time per modem, and a     *)
(* result that was reported never changes.  An operation whose last save   *)
(* failed has ended without a result, until the next start of the program  *)
(* records that it needs attention.                                        *)
(***************************************************************************)
EXTENDS Naturals, Sequences

VARIABLE jobs  \* accepted requests, in order: [key, state]; the key identifies a
               \* request across restarts

Results == {"succeeded", "failed", "cancelled", "needs_attention"}

Init == jobs = <<>>

\* A key that is known is never accepted again, whatever became of it.
Accept ==
    /\ Len(jobs') = Len(jobs) + 1
    /\ LET new == jobs'[Len(jobs')] IN
       /\ \A i \in DOMAIN jobs : jobs[i].key # new.key /\ jobs[i].state # "running"
       /\ new.state = "running"
       /\ jobs' = Append(jobs, new)

End(i, result) ==
    /\ jobs[i].state = "running"
    /\ jobs' = [jobs EXCEPT ![i].state = result]

Restarted ==
    jobs' = [i \in DOMAIN jobs |->
        IF jobs[i].state \in Results THEN jobs[i]
        ELSE [jobs[i] EXCEPT !.state = "needs_attention"]]

Next ==
    \/ Accept
    \/ \E i \in DOMAIN jobs, result \in Results \cup {"lost"} : End(i, result)
    \/ Restarted

Spec == Init /\ [][Next]_jobs
=============================================================================
