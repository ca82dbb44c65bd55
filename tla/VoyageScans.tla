----------------------------- MODULE VoyageScans -----------------------------
(* The enumerations of the voyage daemon: prepare_enum and the streams of          *)
(* voyage/src/daemon.rs, the workers of voyage/src/scanner.rs, and the tables of    *)
(* voyage/src/libs/voyage_db.rs that hold their work.                               *)
(*                                                                                  *)
(* Requests for one domain and wordlist share a scan row and its entries. A         *)
(* statement is one step: the code opens no transaction. An entry is named by the   *)
(* request that inserted it and its word, as the database names it by an id: one    *)
(* that is deleted and inserted again is another entry. A batch of an INSERT is one *)
(* word.                                                                            *)
EXTENDS Naturals, FiniteSetsExt

CONSTANTS
  Requests,         \* requests for an enumeration, each sent once
  Words,            \* lines of the wordlist, by number
  Workers,          \* indices of the tasks a scan spawns, from 0
  MaxFaults,        \* how often a statement or a worker may fail
  MaxCrashes        \* how often the daemon may die

ASSUME ScansAssumption ==
  /\ Words \subseteq Nat
  /\ 0 \in Workers /\ Workers \subseteq Nat /\ \E i \in Workers : \A j \in Workers : j <= i
  /\ MaxFaults \in Nat /\ MaxCrashes \in Nat

Nothing == <<>>
Entries == Requests \X Words

VARIABLES
  scan,             \* the scan's row is there
  entry,            \* status of the entries; "recorded" is found or not_found
  adaptive, fresh,  \* what the request asks for
  at,               \* the statement of prepare_enum a request is about to execute, and on
  todo,             \* words it has still to insert entries for
  outcome,          \* how its scan ended
  worker,           \* the place of each of its workers
  holds,            \* the entry it claimed
  target,           \* target_conc: workers from this index on park
  drained,          \* a worker found nothing to do and nobody at work
  faults, crashes,
  lost              \* history: entries left claimed, or queued with nobody to look for them

asked == <<adaptive, fresh>>
pool == <<worker, holds, target, drained>>
vars == <<scan, entry, asked, at, todo, outcome, pool, faults, crashes, lost>>

Preparing == {"create", "clear", "passive", "insert", "status", "reset", "total"}
Places == {"new", "start", "running", "over", "dead"} \cup Preparing
WorkerPlaces == {"none", "idle", "asking", "probing", "exited"}

Of(s) == {e \in Entries : entry[e] = s}
Named(w) == {e \in Entries : e[2] = w /\ entry[e] # "absent"}

Init ==
  /\ scan = FALSE /\ entry = [e \in Entries |-> "absent"]
  /\ adaptive \in [Requests -> BOOLEAN] /\ fresh \in [Requests -> BOOLEAN]
  /\ at = [r \in Requests |-> "new"] /\ todo = [r \in Requests |-> Words]
  /\ outcome = [r \in Requests |-> "none"]
  /\ worker = [r \in Requests |-> [i \in Workers |-> "none"]]
  /\ holds = [r \in Requests |-> [i \in Workers |-> Nothing]]
  /\ target = [r \in Requests |-> IF adaptive[r] THEN 1 ELSE Max(Workers) + 1]
  /\ drained = [r \in Requests |-> FALSE]
  /\ faults = 0 /\ crashes = 0 /\ lost = {}

Go(r, place) == at' = [at EXCEPT ![r] = place]
Fault == faults < MaxFaults /\ faults' = faults + 1

-------------------------------------------------------------------------------
(* prepare_enum *)

Prepares(r) == UNCHANGED <<asked, outcome, pool, crashes>>
Found(r) == Go(r, IF fresh[r] THEN "clear" ELSE "passive")

\* get_or_create_scan looks for the row.
Find(r) ==
  /\ at[r] = "new"
  /\ IF scan THEN Found(r) ELSE Go(r, "create")
  /\ UNCHANGED <<scan, entry, todo, faults, lost>> /\ Prepares(r)

\* Its hash is unique: of two requests that found no row the second fails.
Create(r) ==
  /\ at[r] = "create"
  /\ scan' = TRUE
  /\ IF scan THEN Go(r, "over") /\ outcome' = [outcome EXCEPT ![r] = "error"]
             ELSE Found(r) /\ UNCHANGED outcome
  /\ UNCHANGED <<entry, asked, todo, pool, faults, crashes, lost>>

\* fresh_start_scan; the status it sets is read by nobody.
Clear(r) ==
  /\ at[r] = "clear"
  /\ entry' = [e \in Entries |-> "absent"]
  /\ lost' = {}
  /\ Go(r, "passive")
  /\ UNCHANGED <<scan, todo, faults>> /\ Prepares(r)

\* Adds entries for words that have none.
Insert(r, ws, s) ==
  entry' = [e \in Entries |-> IF e[1] = r /\ e[2] \in ws /\ Named(e[2]) = {} THEN s
                              ELSE entry[e]]

\* What the passive sources name is found; a failure to store it is passed over.
InsertPassive(r) ==
  /\ at[r] = "passive"
  /\ \E ws \in SUBSET Words : Insert(r, ws, "recorded")
  /\ Go(r, IF todo[r] = {} THEN "status" ELSE "insert")
  /\ UNCHANGED <<scan, todo, faults, lost>> /\ Prepares(r)

InsertActive(r) ==
  /\ at[r] = "insert"
  /\ LET w == Min(todo[r]) IN
       /\ Insert(r, {w}, "queued")
       /\ todo' = [todo EXCEPT ![r] = @ \ {w}]
       /\ Go(r, IF todo[r] = {w} THEN "status" ELSE "insert")
  /\ UNCHANGED <<scan, faults, lost>> /\ Prepares(r)

SetPopulated(r) ==
  /\ at[r] = "status" /\ Go(r, "reset")
  /\ UNCHANGED <<scan, entry, todo, faults, lost>> /\ Prepares(r)

\* reset_halted_entries: what was in hand when a daemon died, and what a worker of
\* another request has in hand.
Halted_Processing == {}
Halted_Tried == Of("scanning") \cup Of("recorded")
Halted == Of("scanning")
ResetHalted(r) ==
  /\ at[r] = "reset"
  /\ entry' = [e \in Entries |-> IF e \in Halted THEN "queued" ELSE entry[e]]
  /\ lost' = lost \ Halted
  /\ Go(r, "total")
  /\ UNCHANGED <<scan, todo, faults>> /\ Prepares(r)

CountTotal(r) ==
  /\ at[r] = "total" /\ Go(r, "start")
  /\ UNCHANGED <<scan, entry, todo, faults, lost>> /\ Prepares(r)

\* A statement fails; what was written stays.
PrepareFails(r) ==
  /\ at[r] \in Preparing \ {"passive"} /\ Fault
  /\ Go(r, "over") /\ outcome' = [outcome EXCEPT ![r] = "error"]
  /\ UNCHANGED <<scan, entry, asked, todo, pool, crashes, lost>>

\* The pool is spawned, of as many workers as were asked for, or of none. A worker that
\* cannot build its resolver or its client ends at once and tells nobody. A client that is
\* gone later does not stop the pool.
Start(r) ==
  /\ at[r] = "start" /\ Go(r, "running")
  /\ \E built \in SUBSET Workers :
       /\ worker' = [worker EXCEPT ![r] =
                       [i \in Workers |-> IF i \in built THEN "idle" ELSE "exited"]]
       /\ lost' = IF built = {} THEN lost \cup Of("queued") ELSE lost \ Of("queued")
  /\ UNCHANGED <<scan, entry, asked, todo, outcome, holds, target, drained, faults, crashes>>

\* The client is gone when the acknowledgement is written, or the passive results cannot
\* be read.
StartFails(r) ==
  /\ at[r] = "start"
  /\ Go(r, "over") /\ outcome' = [outcome EXCEPT ![r] = "error"]
  /\ UNCHANGED <<scan, entry, asked, todo, pool, faults, crashes, lost>>

-------------------------------------------------------------------------------
(* task_handle and adaptive_task_handle *)

Move(r, i, place) == worker' = [worker EXCEPT ![r][i] = place]
Working(r) == UNCHANGED <<scan, asked, at, todo, outcome, target, crashes>>
AtWork(r, i) == worker[r][i] = "idle" /\ i < target[r]

\* get_work_one: FOR UPDATE SKIP LOCKED gives an entry to one worker.
Claim(r, i) ==
  /\ AtWork(r, i)
  /\ \E e \in Of("queued") :
       /\ entry' = [entry EXCEPT ![e] = "scanning"]
       /\ holds' = [holds EXCEPT ![r][i] = e]
  /\ Move(r, i, "probing")
  /\ UNCHANGED <<drained, faults, lost>> /\ Working(r)

\* The claim is made, and its answer does not arrive: the worker tries again.
ClaimBreaksOff(r, i) ==
  /\ AtWork(r, i) /\ Fault
  /\ \E e \in Of("queued") :
       /\ entry' = [entry EXCEPT ![e] = "scanning"]
       /\ lost' = lost \cup {e}
  /\ UNCHANGED <<worker, holds, drained>> /\ Working(r)

FindNoWork(r, i) ==
  /\ AtWork(r, i) /\ Of("queued") = {}
  /\ Move(r, i, "asking")
  /\ UNCHANGED <<entry, holds, drained, faults, lost>> /\ Working(r)

\* is_scanning_active: while somebody is at work, there may be work again.
WaitForOthers(r, i) ==
  /\ worker[r][i] = "asking" /\ Of("scanning") # {}
  /\ Move(r, i, "idle")
  /\ UNCHANGED <<entry, holds, drained, faults, lost>> /\ Working(r)

\* Otherwise, or if that cannot be read, the worker ends, and an adaptive one tells those
\* that are parked.
End(r, i) ==
  /\ worker[r][i] = "asking"
  /\ IF Of("scanning") = {} THEN UNCHANGED faults ELSE Fault
  /\ Move(r, i, "exited")
  /\ drained' = [drained EXCEPT ![r] = adaptive[r]]
  /\ UNCHANGED <<entry, holds, lost>> /\ Working(r)

EndParked(r, i) ==
  /\ worker[r][i] = "idle" /\ i >= target[r] /\ drained[r]
  /\ Move(r, i, "exited")
  /\ UNCHANGED <<entry, holds, drained, faults, lost>> /\ Working(r)

Drops(r, i) == holds' = [holds EXCEPT ![r][i] = Nothing]
Write(e, s) == entry' = IF entry[e] = "absent" THEN entry ELSE [entry EXCEPT ![e] = s]

Record(r, i) ==
  /\ worker[r][i] = "probing"
  /\ Write(holds[r][i], "recorded")
  /\ Move(r, i, "idle") /\ Drops(r, i)
  /\ UNCHANGED <<drained, faults, lost>> /\ Working(r)

\* The outcome cannot be written, and the entry is queued again; the worker goes on, unless
\* it parks and ends there, another having found no work between its two looks.
Requeue_Ends(r, i) ==
  /\ worker[r][i] = "probing" /\ Fault
  /\ Write(holds[r][i], "queued")
  /\ Move(r, i, "exited") /\ Drops(r, i)
  /\ UNCHANGED <<drained, lost>> /\ Working(r)

Requeue(r, i) ==
  /\ worker[r][i] = "probing" /\ Fault
  /\ Write(holds[r][i], "queued")
  /\ lost' = IF adaptive[r] THEN lost \cup {holds[r][i]} ELSE lost
  /\ Move(r, i, "idle") /\ Drops(r, i)
  /\ UNCHANGED drained /\ Working(r)

\* Nor can that be written: the entry stays claimed.
RequeueFails(r, i) ==
  /\ worker[r][i] = "probing" /\ Fault
  /\ lost' = lost \cup {holds[r][i]}
  /\ Move(r, i, "idle") /\ Drops(r, i)
  /\ UNCHANGED <<entry, drained>> /\ Working(r)

\* A worker that looks for work once more before it can end: of an adaptive pool the
\* first, which never parks, and the others until one of them finds nothing to do.
Looks(r, i) ==
  /\ worker[r][i] \in {"idle", "probing"}
  /\ adaptive[r] /\ i # 0 => ~drained[r] /\ \A k \in Workers : worker[r][k] # "asking"

\* The task of a worker panics; run_headless_stream notes it, and its entry stays claimed.
\* What is queued has nobody in this scan any more if it was the last that looks.
Panic(r, i) ==
  /\ worker[r][i] = "probing" /\ Fault
  /\ lost' = lost \cup {holds[r][i]}
               \cup IF \E k \in Workers \ {i} : Looks(r, k) THEN {} ELSE Of("queued")
  /\ Move(r, i, "exited") /\ Drops(r, i)
  /\ UNCHANGED <<entry, drained>> /\ Working(r)

\* controller_tick keeps the target between one and the pool's size.
Tick(r) ==
  /\ at[r] = "running" /\ adaptive[r]
  /\ \E n \in 1 .. Max(Workers) + 1 : n # target[r] /\ target' = [target EXCEPT ![r] = n]
  /\ UNCHANGED <<scan, entry, asked, at, todo, outcome, worker, holds, drained, faults, crashes,
                 lost>>

Finish(r) ==
  /\ at[r] = "running" /\ \A i \in Workers : worker[r][i] = "exited"
  /\ Go(r, "over") /\ outcome' = [outcome EXCEPT ![r] = "done"]
  /\ UNCHANGED <<scan, entry, asked, todo, pool, faults, crashes, lost>>

-------------------------------------------------------------------------------

\* The daemon dies; what it had in hand stays claimed.
Crash ==
  /\ crashes < MaxCrashes /\ crashes' = crashes + 1
  /\ \E r \in Requests : at[r] \notin {"new", "over", "dead"}
  /\ at' = [r \in Requests |-> IF at[r] \in {"new", "over"} THEN at[r] ELSE "dead"]
  /\ worker' = [r \in Requests |-> [i \in Workers |-> "none"]]
  /\ holds' = [r \in Requests |-> [i \in Workers |-> Nothing]]
  /\ UNCHANGED <<scan, entry, asked, todo, outcome, target, drained, faults, lost>>

PrepareStep(r) ==
  \/ Create(r) \/ Clear(r) \/ InsertPassive(r) \/ InsertActive(r) \/ SetPopulated(r)
  \/ ResetHalted(r) \/ CountTotal(r) \/ PrepareFails(r) \/ Start(r) \/ StartFails(r)
WorkerStep(r, i) ==
  \/ Claim(r, i) \/ FindNoWork(r, i) \/ WaitForOthers(r, i) \/ End(r, i) \/ EndParked(r, i)
  \/ ClaimBreaksOff(r, i) \/ Record(r, i) \/ Requeue(r, i) \/ RequeueFails(r, i)
  \/ Panic(r, i)

Next ==
  \/ \E r \in Requests :
       \/ Find(r) \/ PrepareStep(r) \/ Tick(r) \/ Finish(r)
       \/ \E i \in Workers : WorkerStep(r, i)
  \/ Crash

Spec == Init /\ [][Next]_vars

\* Tasks that can go on do: the database answers, and probes end.
FairSpec ==
  /\ Spec
  /\ \A r \in Requests :
       /\ WF_vars(PrepareStep(r)) /\ WF_vars(Finish(r))
       /\ \A i \in Workers : WF_vars(WorkerStep(r, i))

-------------------------------------------------------------------------------

\* Every variable holds a value of its type, and a worker holds an entry exactly while
\* it works on it.
TypeOK ==
  /\ scan \in BOOLEAN
  /\ entry \in [Entries -> {"absent", "queued", "scanning", "recorded"}]
  /\ adaptive \in [Requests -> BOOLEAN] /\ fresh \in [Requests -> BOOLEAN]
  /\ at \in [Requests -> Places] /\ todo \in [Requests -> SUBSET Words]
  /\ outcome \in [Requests -> {"none", "done", "error"}]
  /\ worker \in [Requests -> [Workers -> WorkerPlaces]]
  /\ holds \in [Requests -> [Workers -> Entries \cup {Nothing}]]
  /\ \A r \in Requests, i \in Workers :
       holds[r][i] # Nothing <=> worker[r][i] = "probing"
  /\ target \in [Requests -> Nat] /\ drained \in [Requests -> BOOLEAN]
  /\ faults \in 0 .. MaxFaults /\ crashes \in 0 .. MaxCrashes
  /\ lost \subseteq Entries

\* When the scans of a row have all said that they are done, every name was tried: those
\* that a scan found claimed, or that another scan put back or claimed anew, too. What is
\* left is what the database would not let the workers record, and what a scan had queued
\* when none of its workers could be built or the last one panicked: that scan says "done"
\* like any other. The next scan that has a worker owes what is queued again.
DoneIsExhausted ==
  (\A r \in Requests : at[r] = "new" \/ outcome[r] = "done") =>
    Of("queued") \cup Of("scanning") \subseteq lost

\* A resume does not try again what was tried: an entry that has its result loses it only
\* to a fresh start, or to a second worker that had claimed it as well.
ResumeKeepsResults ==
  [][\A e \in Of("recorded") :
       entry'[e] = "queued" => \E r \in Requests, i \in Workers : holds[r][i] = e]_vars

\* An adaptive pool whose first worker ended without having looked for work: those that are
\* parked are told nothing, and the target rises only with what they would measure.
Unled(r) == adaptive[r] /\ worker[r][0] = "exited" /\ ~drained[r]

\* A scan that runs comes to its end, also one that resumes after a crash, unless an entry
\* stays claimed that nobody has in hand (its record failed twice, the answer to its claim
\* broke off, or its worker panicked), or its pool has lost the worker that leads it.
ScansEnd ==
  \A r \in Requests :
    at[r] = "running" ~> \/ at[r] \in {"over", "dead"} \/ Unled(r)
                         \/ \E e \in lost : entry[e] = "scanning"
===============================================================================
