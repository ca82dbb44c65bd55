----------------------------- MODULE AmbuloScans -----------------------------
(* The scans of the ambulo daemon: prepare_scan, the streams and the one-off       *)
(* scans of ambulo/src/daemon.rs, the workers of ambulo/src/scanner.rs, and the     *)
(* tables of ambulo/src/libs/ambulo_db.rs that hold their work.                     *)
(*                                                                                  *)
(* A statement is one step: the code opens no transaction. A stream has a scan row  *)
(* of its own; one-off scans with the same target and wordlist find each other's.   *)
(* A row is named by the request that created it, an entry by the request that      *)
(* inserted it and its word. A batch of an INSERT is one word, a scan has one URL.  *)
EXTENDS Naturals, FiniteSetsExt

CONSTANTS
  Requests,         \* requests for a scan, each sent once
  Kinds,            \* the kinds of scans the requests may ask for
  Words,            \* lines of the wordlist, by number
  Workers,          \* indices of the tasks a scan spawns, from 0
  MaxFaults,        \* how often the database may fail: a statement, or one and its remedy
  MaxCrashes,       \* how often the daemon may die
  MaxSweeps         \* how many rows may outlive the retention

\* How a scan is run: a stream, a stream with the adaptive rate, or one-off.
Stream == "stream"
Adaptive == "adaptive"
OneOff == "one-off"
Nobody == "nobody"

ASSUME ScansAssumption ==
  /\ Nobody \notin Requests
  /\ Kinds \subseteq {Stream, Adaptive, OneOff}
  /\ Words \subseteq Nat /\ Words # {}
  /\ 0 \in Workers /\ Workers \subseteq Nat /\ \E i \in Workers : \A j \in Workers : j <= i
  /\ MaxFaults \in Nat /\ MaxCrashes \in Nat /\ MaxSweeps \in Nat

Nothing == <<>>
Entries == Requests \X Words
By(e) == e[1]

VARIABLES
  \* The tables
  lister,           \* the request that inserted the wordlist's row, or nobody
  words,            \* words stored for it
  status,           \* of the scan row a request created
  entry,            \* status of the entries
  \* The requests
  kind,
  at,               \* the statement of prepare_scan a request is about to execute, and on
  row,              \* the scan row it works on
  have,             \* the words it fetched
  todo,             \* those it has still to insert entries for
  sees,             \* the status of its row, as it read it
  outcome,          \* how its scan ended
  closed,           \* the consumer of its stream is gone, and the daemon knows
  \* Its workers
  worker,           \* the place of each worker
  holds,            \* the entry it claimed
  target,           \* target_conc: workers from this index on park
  drained,          \* a worker found the queue empty
  \* The rest
  old,              \* rows that are older than the retention
  faults, crashes,
  lost              \* history: entries left claimed, or requeued by an adaptive worker

tables == <<lister, words, status, entry>>
prep == <<kind, row, have, todo, sees>>
pool == <<worker, holds, target, drained>>
rest == <<old, faults, crashes>>
vars == <<tables, prep, at, outcome, closed, pool, rest, lost>>

Preparing == {"list", "fill", "fetch", "find", "create", "fresh", "clear", "reread",
              "populate", "populated", "reset", "start"}
Places == {"new"} \cup Preparing \cup {"running", "entries", "rows", "over", "dead"}
WorkerPlaces == {"none", "idle", "cleared", "probing", "exited"}

Streamed(r) == kind[r] # OneOff
\* isolate: the operation's id is part of a stream's config hash.
SameHash_Shared(r, x) == TRUE
SameHash(r, x) == IF Streamed(r) THEN x = r ELSE ~Streamed(x)
Of(x) == {e \in Entries : row[By(e)] = x /\ entry[e] # "absent"}
Exists(x) == x # Nobody /\ status[x] # "absent"

Init ==
  /\ lister = Nobody /\ words = {}
  /\ status = [x \in Requests |-> "absent"] /\ entry = [e \in Entries |-> "absent"]
  /\ kind \in [Requests -> Kinds]
  /\ at = [r \in Requests |-> "new"] /\ row = [r \in Requests |-> Nobody]
  /\ have = [r \in Requests |-> {}] /\ todo = [r \in Requests |-> {}]
  /\ sees = [r \in Requests |-> "absent"]
  /\ outcome = [r \in Requests |-> "none"] /\ closed = [r \in Requests |-> FALSE]
  /\ worker = [r \in Requests |-> [i \in Workers |-> "none"]]
  /\ holds = [r \in Requests |-> [i \in Workers |-> Nothing]]
  /\ target = [r \in Requests |-> 1] /\ drained = [r \in Requests |-> FALSE]
  /\ old = {} /\ faults = 0 /\ crashes = 0 /\ lost = {}

Go(r, place) == at' = [at EXCEPT ![r] = place]
Fault == faults < MaxFaults /\ faults' = faults + 1
NoFault == UNCHANGED faults

-------------------------------------------------------------------------------
(* prepare_scan *)

Prepares(r) == UNCHANGED <<kind, outcome, closed, pool, rest, lost>>

\* A request arrives, and its wordlist is there or not.
FindList(r) ==
  /\ at[r] = "new"
  /\ Go(r, IF lister = Nobody THEN "list" ELSE "fetch")
  /\ UNCHANGED <<tables, row, have, todo, sees>> /\ Prepares(r)

\* create_wordlist inserts its row; the hash is unique, so of two the second fails.
CreateList(r) ==
  /\ at[r] = "list"
  /\ IF lister = Nobody
       THEN lister' = r /\ Go(r, "fill") /\ UNCHANGED outcome
       ELSE UNCHANGED lister /\ Go(r, "over") /\ outcome' = [outcome EXCEPT ![r] = "error"]
  /\ UNCHANGED <<words, status, entry, prep, closed, pool, rest, lost>>

\* create_words, a batch at a time.
FillList(r) ==
  /\ at[r] = "fill"
  /\ words' = words \cup {Min(Words \ words)}
  /\ Go(r, IF words' = Words THEN "fetch" ELSE "fill")
  /\ UNCHANGED <<lister, status, entry, row, have, todo, sees>> /\ Prepares(r)

FetchWords(r) ==
  /\ at[r] = "fetch"
  /\ have' = [have EXCEPT ![r] = words]
  /\ todo' = [todo EXCEPT ![r] = words]
  /\ Go(r, "find")
  /\ UNCHANGED <<tables, row, sees>> /\ Prepares(r)

\* find_scan: of several rows with the hash any may be the first.
FindScan(r) ==
  /\ at[r] = "find"
  /\ LET found == {x \in Requests : Exists(x) /\ SameHash(r, x)} IN
       IF found = {}
         THEN Go(r, "create") /\ UNCHANGED <<row, sees>>
         ELSE \E x \in found, fresh \in BOOLEAN :
                /\ row' = [row EXCEPT ![r] = x]
                /\ sees' = [sees EXCEPT ![r] = status[x]]
                /\ Go(r, IF fresh THEN "fresh"
                         ELSE IF status[x] = "created" THEN "populate" ELSE "reset")
  /\ UNCHANGED <<tables, have, todo>> /\ Prepares(r)

\* config_hash is not unique: two requests that found no row create two.
CreateScan(r) ==
  /\ at[r] = "create"
  /\ status' = [status EXCEPT ![r] = "created"]
  /\ row' = [row EXCEPT ![r] = r]
  /\ sees' = [sees EXCEPT ![r] = "created"]
  /\ Go(r, "populate")
  /\ UNCHANGED <<lister, words, entry, have, todo>> /\ Prepares(r)

\* fresh_start_scan: the status, the entries, and the row as it is then.
FreshStatus(r) ==
  /\ at[r] = "fresh"
  /\ status' = IF Exists(row[r]) THEN [status EXCEPT ![row[r]] = "created"] ELSE status
  /\ Go(r, "clear")
  /\ UNCHANGED <<lister, words, entry, row, have, todo, sees>> /\ Prepares(r)

DeleteEntries(x) ==
  entry' = [e \in Entries |-> IF row[By(e)] = x THEN "absent" ELSE entry[e]]

FreshClear(r) ==
  /\ at[r] = "clear"
  /\ DeleteEntries(row[r])
  /\ Go(r, "reread")
  /\ UNCHANGED <<lister, words, status, row, have, todo, sees>> /\ Prepares(r)

FreshRead(r) ==
  /\ at[r] = "reread" /\ Exists(row[r])
  /\ sees' = [sees EXCEPT ![r] = status[row[r]]]
  /\ Go(r, IF status[row[r]] = "created" THEN "populate" ELSE "reset")
  /\ UNCHANGED <<tables, row, have, todo>> /\ Prepares(r)

\* create_scan_entries, a batch at a time; the entries refer to the row.
Populate(r) ==
  /\ at[r] = "populate" /\ (todo[r] = {} \/ Exists(row[r]))
  /\ IF todo[r] = {}
       THEN Go(r, "populated") /\ UNCHANGED <<entry, todo>>
       ELSE LET w == Min(todo[r]) IN
              /\ entry' = [entry EXCEPT ![<<r, w>>] = "queued"]
              /\ todo' = [todo EXCEPT ![r] = @ \ {w}]
              /\ Go(r, IF todo[r] = {w} THEN "populated" ELSE "populate")
  /\ UNCHANGED <<lister, words, status, row, have, sees>> /\ Prepares(r)

SetPopulated(r) ==
  /\ at[r] = "populated"
  /\ status' = IF Exists(row[r]) THEN [status EXCEPT ![row[r]] = "populated"] ELSE status
  /\ Go(r, "reset")
  /\ UNCHANGED <<lister, words, entry, row, have, todo, sees>> /\ Prepares(r)

\* reset_halted_scan_entries, which looks for a status that nothing sets.
Halted_Claimed == "scanning"
Halted == "processing"
ResetHalted(r) ==
  /\ at[r] = "reset"
  /\ entry' = [e \in Entries |-> IF e \in Of(row[r]) /\ entry[e] = Halted
                                   THEN "queued" ELSE entry[e]]
  /\ Go(r, "start")
  /\ UNCHANGED <<lister, words, status, row, have, todo, sees>> /\ Prepares(r)

\* A statement of prepare_scan fails, because the row it refers to is gone or for reasons
\* of its own; what was written stays.
Refused(r) ==
  ~Exists(row[r]) /\ (at[r] = "reread" \/ (at[r] = "populate" /\ todo[r] # {}))
PrepareFails(r) ==
  /\ at[r] \in Preparing \ {"start"}
  /\ IF Refused(r) THEN NoFault ELSE Fault
  /\ Go(r, "over") /\ outcome' = [outcome EXCEPT ![r] = "error"]
  /\ UNCHANGED <<tables, prep, closed, pool, old, crashes, lost>>

\* The acknowledgement reaches the client, and the pool is spawned.
Start(r) ==
  /\ at[r] = "start"
  /\ Go(r, "running")
  /\ worker' = [worker EXCEPT ![r] = [i \in Workers |-> "idle"]]
  /\ target' = IF kind[r] = Adaptive THEN target ELSE [target EXCEPT ![r] = Max(Workers) + 1]
  /\ UNCHANGED <<tables, prep, outcome, closed, holds, drained, rest, lost>>

\* The client of a stream is gone when the acknowledgement is written.
NobodyToAck(r) ==
  /\ at[r] = "start" /\ Streamed(r)
  /\ Go(r, "over") /\ outcome' = [outcome EXCEPT ![r] = "error"]
  /\ UNCHANGED <<tables, prep, closed, pool, rest, lost>>

\* The prober cannot be built: the run fails, and what follows a run follows.
NoProber(r) ==
  /\ at[r] = "start" /\ Fault
  /\ Go(r, IF Streamed(r) THEN "entries" ELSE "over")
  /\ outcome' = [outcome EXCEPT ![r] = "error"]
  /\ UNCHANGED <<tables, prep, closed, pool, old, crashes, lost>>

-------------------------------------------------------------------------------
(* task_handle and adaptive_task_handle *)

Move(r, i, place) == worker' = [worker EXCEPT ![r][i] = place]
Working(r) == UNCHANGED <<lister, words, status, prep, at, outcome, closed, old, crashes>>

\* A worker above the target parks: it goes on when the target rises, and ends when the
\* queue was found empty or the consumer is gone.
EndParked(r, i) ==
  /\ worker[r][i] = "idle" /\ i >= target[r]
  /\ drained[r] \/ closed[r]
  /\ Move(r, i, "exited")
  /\ UNCHANGED <<entry, holds, target, drained, faults, lost>> /\ Working(r)

\* The look at the consumer before an entry is claimed.
LookAtConsumer(r, i) ==
  /\ worker[r][i] = "idle" /\ i < target[r]
  /\ Move(r, i, IF closed[r] THEN "exited" ELSE "cleared")
  /\ UNCHANGED <<entry, holds, target, drained, faults, lost>> /\ Working(r)

\* get_work_one: FOR UPDATE SKIP LOCKED gives an entry to one worker.
Claim(r, i) ==
  /\ worker[r][i] = "cleared"
  /\ \E e \in Of(row[r]) :
       /\ entry[e] = "queued"
       /\ entry' = [entry EXCEPT ![e] = "scanning"]
       /\ holds' = [holds EXCEPT ![r][i] = e]
  /\ Move(r, i, "probing")
  /\ UNCHANGED <<target, drained, faults, lost>> /\ Working(r)

\* The entry's URL or word cannot be read: the worker goes on, and the entry stays claimed.
ClaimFails(r, i) ==
  /\ worker[r][i] = "cleared" /\ Fault
  /\ \E e \in Of(row[r]) :
       /\ entry[e] = "queued"
       /\ entry' = [entry EXCEPT ![e] = "scanning"]
       /\ lost' = lost \cup {e}
  /\ Move(r, i, "idle")
  /\ UNCHANGED <<holds, target, drained>> /\ Working(r)

\* Nothing is queued: the worker ends, and an adaptive one tells those that are parked.
NoWork_TellsNobody(r, i) ==
  /\ worker[r][i] = "cleared"
  /\ \A e \in Of(row[r]) : entry[e] # "queued"
  /\ Move(r, i, "exited")
  /\ UNCHANGED <<entry, holds, target, drained, faults, lost>> /\ Working(r)

NoWork(r, i) ==
  /\ worker[r][i] = "cleared"
  /\ \A e \in Of(row[r]) : entry[e] # "queued"
  /\ Move(r, i, "exited")
  /\ drained' = [drained EXCEPT ![r] = kind[r] = Adaptive]
  /\ UNCHANGED <<entry, holds, target, faults, lost>> /\ Working(r)

Drops(r, i) == holds' = [holds EXCEPT ![r][i] = Nothing]

\* record_outcome.
Present(e) == entry[e] # "absent"
Record(r, i) ==
  /\ worker[r][i] = "probing"
  /\ LET e == holds[r][i] IN
       entry' = IF Present(e) THEN [entry EXCEPT ![e] = "recorded"] ELSE entry
  /\ Move(r, i, "idle") /\ Drops(r, i)
  /\ UNCHANGED <<target, drained, faults, lost>> /\ Working(r)

\* The outcome cannot be written, and the entry is queued again.
Requeue(r, i) ==
  /\ worker[r][i] = "probing" /\ Fault
  /\ LET e == holds[r][i] IN
       /\ entry' = IF Present(e) THEN [entry EXCEPT ![e] = "queued"] ELSE entry
       /\ lost' = IF kind[r] = Adaptive THEN lost \cup {e} ELSE lost
  /\ Move(r, i, "idle") /\ Drops(r, i)
  /\ UNCHANGED <<target, drained>> /\ Working(r)

\* Nor can that be written.
RequeueFails(r, i) ==
  /\ worker[r][i] = "probing" /\ Fault
  /\ lost' = lost \cup {holds[r][i]}
  /\ Move(r, i, "idle") /\ Drops(r, i)
  /\ UNCHANGED <<entry, target, drained>> /\ Working(r)

\* Between two attempts at an entry the worker sees that the consumer is gone.
GiveUp(r, i) ==
  /\ worker[r][i] = "probing" /\ closed[r]
  /\ lost' = lost \cup {holds[r][i]}
  /\ Move(r, i, "exited") /\ Drops(r, i)
  /\ UNCHANGED <<entry, target, drained, faults>> /\ Working(r)

\* controller_tick: the controller keeps the target between one and the pool's size.
Tick(r) ==
  /\ at[r] = "running" /\ kind[r] = Adaptive
  /\ \E n \in 1 .. Max(Workers) + 1 : n # target[r] /\ target' = [target EXCEPT ![r] = n]
  /\ UNCHANGED <<tables, prep, at, outcome, closed, worker, holds, drained, rest, lost>>

\* A line cannot be written to the client: the receiver of the events is dropped.
Disconnect(r) ==
  /\ at[r] = "running" /\ Streamed(r) /\ ~closed[r]
  /\ closed' = [closed EXCEPT ![r] = TRUE]
  /\ UNCHANGED <<tables, prep, at, outcome, pool, rest, lost>>

-------------------------------------------------------------------------------
(* The end of a scan *)

Drained(r) == \A i \in Workers : worker[r][i] = "exited"

\* get_scan_results, and the event that says "done".
Finish(r) ==
  /\ at[r] = "running" /\ Drained(r)
  /\ \/ NoFault /\ outcome' = [outcome EXCEPT ![r] = "done"]
     \/ Fault /\ outcome' = [outcome EXCEPT ![r] = "error"]
  /\ Go(r, IF Streamed(r) THEN "entries" ELSE "over")
  /\ UNCHANGED <<tables, prep, closed, pool, old, crashes, lost>>

\* delete_scan: the entries, then the row; it stops where a statement fails.
DeleteScanEntries(r) ==
  /\ at[r] = "entries"
  /\ DeleteEntries(row[r]) /\ Go(r, "rows")
  /\ UNCHANGED <<lister, words, status, prep, outcome, closed, pool, rest, lost>>

DeleteScanRow(r) ==
  /\ at[r] = "rows"
  /\ status' = [status EXCEPT ![row[r]] = "absent"] /\ Go(r, "over")
  /\ UNCHANGED <<lister, words, entry, prep, outcome, closed, pool, rest, lost>>

DeleteFails(r) ==
  /\ at[r] \in {"entries", "rows"} /\ Fault
  /\ Go(r, "over")
  /\ UNCHANGED <<tables, prep, outcome, closed, pool, old, crashes, lost>>

-------------------------------------------------------------------------------
(* The daemon *)

Held == {holds[r][i] : r \in Requests, i \in Workers} \ {Nothing}

\* The daemon dies; what it had in hand stays claimed.
Crash ==
  /\ crashes < MaxCrashes /\ crashes' = crashes + 1
  /\ \E r \in Requests : at[r] \notin {"new", "over", "dead"}
  /\ at' = [r \in Requests |-> IF at[r] \in {"new", "over"} THEN at[r] ELSE "dead"]
  /\ lost' = lost \cup Held
  /\ worker' = [r \in Requests |-> [i \in Workers |-> "none"]]
  /\ holds' = [r \in Requests |-> [i \in Workers |-> Nothing]]
  /\ UNCHANGED <<tables, prep, outcome, closed, target, drained, old, faults>>

\* The scan of a request ended so long ago that its row is past the retention.
Age(x) ==
  /\ Cardinality(old) < MaxSweeps /\ x \notin old
  /\ at[x] \in {"over", "dead"} /\ row[x] = x /\ Exists(x)
  /\ old' = old \cup {x}
  /\ UNCHANGED <<tables, prep, at, outcome, closed, pool, faults, crashes, lost>>

\* gc_old_scans, first the entries and then, unless new ones refer to it, the row.
SweepEntries(x) ==
  /\ x \in old /\ Of(x) # {}
  /\ DeleteEntries(x)
  /\ UNCHANGED <<lister, words, status, prep, at, outcome, closed, pool, rest, lost>>

SweepRow(x) ==
  /\ x \in old /\ Exists(x) /\ Of(x) = {}
  /\ status' = [status EXCEPT ![x] = "absent"]
  /\ UNCHANGED <<lister, words, entry, prep, at, outcome, closed, pool, rest, lost>>

-------------------------------------------------------------------------------

PrepareStep(r) ==
  \/ CreateList(r) \/ FillList(r) \/ FetchWords(r) \/ FindScan(r) \/ CreateScan(r)
  \/ FreshStatus(r) \/ FreshClear(r) \/ FreshRead(r)
  \/ Populate(r) \/ SetPopulated(r) \/ ResetHalted(r) \/ PrepareFails(r)
  \/ Start(r) \/ NobodyToAck(r) \/ NoProber(r)
WorkerStep(r, i) ==
  \/ EndParked(r, i) \/ LookAtConsumer(r, i)
  \/ Claim(r, i) \/ ClaimFails(r, i) \/ NoWork(r, i)
  \/ Record(r, i) \/ Requeue(r, i) \/ RequeueFails(r, i) \/ GiveUp(r, i)
EndStep(r) == Finish(r) \/ DeleteScanEntries(r) \/ DeleteScanRow(r) \/ DeleteFails(r)

Next ==
  \/ \E r \in Requests :
       \/ FindList(r) \/ PrepareStep(r) \/ EndStep(r)
       \/ \E i \in Workers : WorkerStep(r, i)
       \/ Tick(r) \/ Disconnect(r)
  \/ Crash
  \/ \E x \in Requests : Age(x) \/ SweepEntries(x) \/ SweepRow(x)

Spec == Init /\ [][Next]_vars

-------------------------------------------------------------------------------

\* Every variable holds a value of its type, and a worker holds an entry exactly while
\* it works on it.
TypeOK ==
  /\ lister \in Requests \cup {Nobody} /\ words \subseteq Words
  /\ status \in [Requests -> {"absent", "created", "populated"}]
  /\ entry \in [Entries -> {"absent", "queued", "scanning", "recorded"}]
  /\ kind \in [Requests -> Kinds]
  /\ at \in [Requests -> Places]
  /\ row \in [Requests -> Requests \cup {Nobody}]
  /\ have \in [Requests -> SUBSET Words] /\ todo \in [Requests -> SUBSET Words]
  /\ sees \in [Requests -> {"absent", "created", "populated"}]
  /\ outcome \in [Requests -> {"none", "done", "error"}]
  /\ closed \in [Requests -> BOOLEAN]
  /\ worker \in [Requests -> [Workers -> WorkerPlaces]]
  /\ holds \in [Requests -> [Workers -> Entries \cup {Nothing}]]
  /\ \A r \in Requests, i \in Workers :
       holds[r][i] # Nothing <=> worker[r][i] = "probing"
  /\ target \in [Requests -> Nat] /\ drained \in [Requests -> BOOLEAN]
  /\ old \subseteq Requests /\ faults \in 0 .. MaxFaults /\ crashes \in 0 .. MaxCrashes
  /\ lost \subseteq Entries

\* A claimed entry is probed by one worker at a time, whatever else runs on its row: a
\* resume, a fresh start, an entry queued again.
OneWorkerPerEntry ==
  \A r, s \in Requests, i, j \in Workers :
    holds[r][i] = holds[s][j] /\ holds[r][i] # Nothing => r = s /\ i = j

\* The "done" of a stream, and the end of its run, come when its work is exhausted: every
\* word it had fetched was tried and recorded, but for entries whose claim or record the
\* database failed.
StreamIsExhausted ==
  \A r \in Requests :
    Streamed(r) /\ outcome[r] = "done" /\ ~closed[r] /\ at[r] = "entries" =>
      \A w \in have[r] : entry[<<r, w>>] = "recorded" \/ <<r, w>> \in lost

\* A worker that is parked can go on or end: once the one that never parks has ended,
\* whatever the target is then and stays, those that are parked see it.
ParkedCanEnd ==
  \A r \in Requests :
    kind[r] = Adaptive /\ worker[r][0] = "exited" => drained[r] \/ closed[r]

===============================================================================
