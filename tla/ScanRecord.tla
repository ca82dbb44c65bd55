------------------------------ MODULE ScanRecord ------------------------------
(* What the files of mcp/src/jobs.rs promise of the status of a job: a job that is     *)
(* recorded runs, and what runs ends in one of four ways and stays ended. Nothing is   *)
(* promised of a job once it is "unsure".                                             *)
CONSTANT Jobs
VARIABLE status

Ended == {"completed", "failed", "cancelled", "interrupted"}
Sure == {"none", "running"} \cup Ended

Init == status = [j \in Jobs |-> "none"]

Becomes(j, s) == status' = [status EXCEPT ![j] = s]
Record(j) == status[j] = "none" /\ Becomes(j, "running")
End(j) == status[j] = "running" /\ \E s \in Ended : Becomes(j, s)
Lose(j) == status[j] \in Sure /\ Becomes(j, "unsure")

\* The session that finds several jobs of a dead one interrupts them together.
Interrupt(lost) ==
  /\ lost # {} /\ \A j \in lost : status[j] = "running"
  /\ status' = [j \in Jobs |-> IF j \in lost THEN "interrupted" ELSE status[j]]

Next == \/ \E j \in Jobs : Record(j) \/ End(j) \/ Lose(j)
        \/ \E lost \in SUBSET Jobs : Interrupt(lost)

Spec == Init /\ [][Next]_status

===============================================================================
