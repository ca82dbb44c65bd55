-------------------------- MODULE VoyageScansProofs --------------------------
(* Proofs about VoyageScans for every number of requests, words and workers, and any *)
(* number of failing statements and crashes.                                        *)
EXTENDS VoyageScans, TLAPS

USE ScansAssumption

LEMMA Pool ==
  /\ 0 \in Workers /\ Max(Workers) \in Nat
  /\ \A i \in Workers : i \in Nat /\ i < Max(Workers) + 1
<1>1. 0 \in Workers /\ Workers \subseteq Nat BY DEF ScansAssumption
<1>2. PICK m \in Workers : m = Max(Workers) /\ \A i \in Workers : m >= i
  <2>1. \E m \in Workers : \A i \in Workers : m >= i BY DEF ScansAssumption
  <2>. QED BY <2>1 DEF Max
<1>3. m \in Nat /\ \A i \in Workers : i \in Nat /\ i < m + 1 BY ONLY <1>1, <1>2
<1>. QED BY <1>1, <1>2, <1>3

\* The types, with what they need: a worker exists while its scan runs, and every pool has
\* one worker that is not parked; only an adaptive one is told that it is drained.
RequestType ==
  /\ scan \in BOOLEAN
  /\ adaptive \in [Requests -> BOOLEAN] /\ fresh \in [Requests -> BOOLEAN]
  /\ at \in [Requests -> Places] /\ todo \in [Requests -> SUBSET Words]
  /\ outcome \in [Requests -> {"none", "done", "error"}]
  /\ faults \in 0 .. MaxFaults /\ crashes \in 0 .. MaxCrashes
EntryType ==
  /\ entry \in [Entries -> {"absent", "queued", "scanning", "recorded"}]
  /\ lost \subseteq Entries
WorkerType ==
  /\ worker \in [Requests -> [Workers -> WorkerPlaces]]
  /\ holds \in [Requests -> [Workers -> Entries \cup {Nothing}]]
  /\ \A r \in Requests, i \in Workers : holds[r][i] # Nothing <=> worker[r][i] = "probing"
PoolType ==
  /\ target \in [Requests -> Nat \ {0}] /\ drained \in [Requests -> BOOLEAN]
  /\ \A r \in Requests : drained[r] => adaptive[r] /\ at[r] \in {"running", "over", "dead"}
  /\ \A r \in Requests : adaptive[r] \/ target[r] = Max(Workers) + 1
  /\ \A r \in Requests : at[r] # "over" => outcome[r] = "none"
  /\ \A r \in Requests, i \in Workers :
       worker[r][i] \in {"idle", "asking", "probing"} => at[r] = "running"
TypeInv == RequestType /\ EntryType /\ WorkerType /\ PoolType

LEMMA Distinct == Nothing \notin Entries
BY DEF Nothing, Entries

LEMMA InitType == Init => TypeInv
<1> SUFFICES ASSUME Init PROVE TypeInv
  OBVIOUS
<1>1. RequestType
  <2>1. faults \in 0 .. MaxFaults /\ crashes \in 0 .. MaxCrashes BY DEF Init, ScansAssumption
  <2>2. at \in [Requests -> Places] BY DEF Init, Places
  <2>. QED BY <2>1, <2>2 DEF Init, RequestType
<1>2. EntryType BY DEF Init, EntryType
<1>3. WorkerType BY DEF Init, WorkerType, WorkerPlaces
<1>4. PoolType BY Pool DEF Init, PoolType
<1>. QED BY <1>1, <1>2, <1>3, <1>4 DEF TypeInv

LEMMA NextRequestType == TypeInv /\ Next => RequestType'
<1> SUFFICES ASSUME TypeInv, Next PROVE RequestType'
  OBVIOUS
<1> USE DEF asked, pool
<1>0. RequestType BY DEF TypeInv
<1>1. ASSUME NEW r \in Requests, Find(r) \/ PrepareStep(r) \/ Tick(r) \/ Finish(r)
      PROVE  RequestType'
  <2>1. faults' \in 0 .. MaxFaults /\ UNCHANGED crashes
    BY <1>0, <1>1
       DEF RequestType, Find, Found, PrepareStep, Create, Clear, InsertPassive, InsertActive,
           SetPopulated, ResetHalted, CountTotal, PrepareFails, Start, StartFails, Tick, Finish,
           Go, Prepares, Fault, ScansAssumption
  <2>2. scan' = scan \/ scan' = TRUE
    BY <1>1
       DEF Find, PrepareStep, Create, Clear, InsertPassive, InsertActive, SetPopulated,
           ResetHalted, CountTotal, PrepareFails, Start, StartFails, Tick, Finish
  <2>3. UNCHANGED asked
    BY <1>1
       DEF Find, PrepareStep, Create, Clear, InsertPassive, InsertActive, SetPopulated,
           ResetHalted, CountTotal, PrepareFails, Start, StartFails, Tick, Finish, Prepares
  <2>4. at' = at \/ \E p \in Places : at' = [at EXCEPT ![r] = p]
    BY <1>1
       DEF Places, Preparing, Find, Found, PrepareStep, Create, Clear, InsertPassive,
           InsertActive, SetPopulated, ResetHalted, CountTotal, PrepareFails, Start, StartFails,
           Tick, Finish, Go
  <2>5. todo' = todo \/ todo' = [todo EXCEPT ![r] = @ \ {Min(@)}]
    BY <1>1
       DEF Find, PrepareStep, Create, Clear, InsertPassive, InsertActive, SetPopulated,
           ResetHalted, CountTotal, PrepareFails, Start, StartFails, Tick, Finish, Prepares
  <2>6. outcome' = outcome \/ \E o \in {"done", "error"} : outcome' = [outcome EXCEPT ![r] = o]
    BY <1>1
       DEF Find, PrepareStep, Create, Clear, InsertPassive, InsertActive, SetPopulated,
           ResetHalted, CountTotal, PrepareFails, Start, StartFails, Tick, Finish, Prepares
  <2>7. at' \in [Requests -> Places] BY <1>0, <2>4 DEF RequestType
  <2>8. todo' \in [Requests -> SUBSET Words] BY <1>0, <2>5 DEF RequestType
  <2>9. outcome' \in [Requests -> {"none", "done", "error"}] BY <1>0, <2>6 DEF RequestType
  <2>. QED BY <1>0, <2>1, <2>2, <2>3, <2>7, <2>8, <2>9 DEF RequestType
<1>2. ASSUME NEW r \in Requests, NEW i \in Workers, WorkerStep(r, i) PROVE RequestType'
  <2>1. UNCHANGED <<scan, asked, at, todo, outcome, crashes>>
    BY <1>2 DEF WorkerStep, Claim, FindNoWork, WaitForOthers, End, EndParked, Record, Requeue,
                RequeueFails, ClaimBreaksOff, Panic, Working
  <2>2. faults' \in 0 .. MaxFaults
    BY <1>0, <1>2
       DEF RequestType, WorkerStep, Claim, FindNoWork, WaitForOthers, End, EndParked, Record,
           Requeue, RequeueFails, ClaimBreaksOff, Panic, Fault, ScansAssumption
  <2>. QED BY <1>0, <2>1, <2>2 DEF RequestType
<1>3. ASSUME Crash PROVE RequestType'
  <2>1. UNCHANGED <<scan, asked, todo, outcome, faults>> /\ crashes' \in 0 .. MaxCrashes
    BY <1>0, <1>3 DEF RequestType, Crash, ScansAssumption
  <2>2. at' \in [Requests -> Places] BY <1>0, <1>3 DEF RequestType, Places, Crash
  <2>. QED BY <1>0, <2>1, <2>2 DEF RequestType
<1>. QED BY <1>1, <1>2, <1>3 DEF Next

LEMMA NextEntryType == TypeInv /\ Next => EntryType'
<1> SUFFICES ASSUME TypeInv, Next PROVE EntryType'
  OBVIOUS
<1> USE DEF asked, pool
<1>0. EntryType /\ WorkerType BY DEF TypeInv
<1>1. ASSUME NEW r \in Requests, Find(r) \/ PrepareStep(r) \/ Tick(r) \/ Finish(r)
      PROVE  EntryType'
  <2>1. CASE Start(r)
    <3>1. UNCHANGED entry /\ lost' \subseteq lost \cup Of("queued") BY <2>1 DEF Start
    <3>. QED BY <1>0, <3>1 DEF EntryType, Of
  <2>2. CASE ~Start(r)
    BY <1>0, <1>1, <2>2
       DEF EntryType, Find, PrepareStep, Create, Clear, InsertPassive, InsertActive, SetPopulated,
           ResetHalted, CountTotal, PrepareFails, StartFails, Tick, Finish, Insert
  <2>. QED BY <2>1, <2>2
<1>2. ASSUME NEW r \in Requests, NEW i \in Workers, WorkerStep(r, i) PROVE EntryType'
  <2>1. worker[r][i] = "probing" => holds[r][i] \in Entries BY <1>0 DEF WorkerType
  <2>. QED BY <1>0, <1>2, <2>1
           DEF EntryType, WorkerStep, Claim, FindNoWork, WaitForOthers, End, EndParked, Record,
               Requeue, RequeueFails, ClaimBreaksOff, Panic, Write, Of
<1>3. ASSUME Crash PROVE EntryType' BY <1>0, <1>3 DEF EntryType, Crash
<1>. QED BY <1>1, <1>2, <1>3 DEF Next

LEMMA NextWorkerType == TypeInv /\ Next => WorkerType'
<1> SUFFICES ASSUME TypeInv, Next PROVE WorkerType'
  OBVIOUS
<1> USE DEF asked, pool
<1>0. WorkerType /\ PoolType BY DEF TypeInv
<1>1. ASSUME NEW r \in Requests, Find(r) \/ PrepareStep(r) \/ Tick(r) \/ Finish(r)
      PROVE  WorkerType'
  <2>1. CASE Start(r)
    <3>1. at[r] # "running" /\ UNCHANGED holds
          /\ \E built \in SUBSET Workers :
               worker' = [worker EXCEPT ![r] =
                           [i \in Workers |-> IF i \in built THEN "idle" ELSE "exited"]]
      BY <2>1 DEF Start
    <3>2. \A i \in Workers : holds[r][i] = Nothing BY <1>0, <3>1 DEF WorkerType, PoolType
    <3>. QED BY <1>0, <3>1, <3>2 DEF WorkerType, WorkerPlaces
  <2>2. CASE ~Start(r)
    <3>1. UNCHANGED <<worker, holds>>
      BY <1>1, <2>2
         DEF Find, PrepareStep, Create, Clear, InsertPassive, InsertActive, SetPopulated,
             ResetHalted, CountTotal, PrepareFails, StartFails, Tick, Finish, Prepares
    <3>. QED BY <1>0, <3>1 DEF WorkerType
  <2>. QED BY <2>1, <2>2
<1>2. ASSUME NEW r \in Requests, NEW i \in Workers, WorkerStep(r, i) PROVE WorkerType'
  <2>1. PICK p \in WorkerPlaces, h \in Entries \cup {Nothing} :
          /\ worker' = [worker EXCEPT ![r][i] = p] /\ holds' = [holds EXCEPT ![r][i] = h]
          /\ h # Nothing <=> p = "probing"
    <3>1. CASE Claim(r, i)
      BY <3>1, Distinct DEF Claim, Move, Of, WorkerPlaces
    <3>2. CASE Record(r, i) \/ Requeue(r, i) \/ RequeueFails(r, i) \/ Panic(r, i)
      BY <3>2 DEF Record, Requeue, RequeueFails, Panic, Move, Drops, WorkerPlaces
    <3>3. CASE FindNoWork(r, i) \/ WaitForOthers(r, i) \/ End(r, i) \/ EndParked(r, i)
      <4>1. worker[r][i] \in {"idle", "asking"} /\ UNCHANGED holds
            /\ \E p \in WorkerPlaces \ {"probing"} : worker' = [worker EXCEPT ![r][i] = p]
        BY <3>3 DEF FindNoWork, WaitForOthers, End, EndParked, AtWork, Move, WorkerPlaces
      <4>2. holds[r][i] = Nothing /\ holds' = [holds EXCEPT ![r][i] = Nothing]
        BY <1>0, <4>1 DEF WorkerType
      <4>. QED BY <4>1, <4>2
    <3>4. CASE ClaimBreaksOff(r, i)
      <4>1. worker[r][i] = "idle" /\ UNCHANGED <<worker, holds>>
        BY <3>4 DEF ClaimBreaksOff, AtWork
      <4>2. worker' = [worker EXCEPT ![r][i] = "idle"] BY <1>0, <4>1 DEF WorkerType
      <4>3. holds[r][i] = Nothing /\ holds' = [holds EXCEPT ![r][i] = Nothing]
        BY <1>0, <4>1 DEF WorkerType
      <4>. QED BY <4>2, <4>3 DEF WorkerPlaces
    <3>. QED BY <1>2, <3>1, <3>2, <3>3, <3>4 DEF WorkerStep
  <2>2. /\ worker' \in [Requests -> [Workers -> WorkerPlaces]]
        /\ holds' \in [Requests -> [Workers -> Entries \cup {Nothing}]]
    BY <1>0, <2>1 DEF WorkerType
  <2>3. ASSUME NEW q \in Requests, NEW k \in Workers
        PROVE  holds'[q][k] # Nothing <=> worker'[q][k] = "probing"
    <3>1. CASE q = r /\ k = i
      <4>1. holds'[q][k] = h /\ worker'[q][k] = p BY <1>0, <2>1, <3>1 DEF WorkerType
      <4>. QED BY <2>1, <4>1
    <3>2. CASE ~(q = r /\ k = i)
      <4>1. holds'[q][k] = holds[q][k] /\ worker'[q][k] = worker[q][k]
        BY <1>0, <2>1, <3>2 DEF WorkerType
      <4>. QED BY <1>0, <4>1 DEF WorkerType
    <3>. QED BY <3>1, <3>2
  <2>. QED BY <2>2, <2>3 DEF WorkerType
<1>3. ASSUME Crash PROVE WorkerType' BY <1>0, <1>3 DEF WorkerType, WorkerPlaces, Crash
<1>. QED BY <1>1, <1>2, <1>3 DEF Next

LEMMA NextPoolType == TypeInv /\ Next => PoolType'
<1> SUFFICES ASSUME TypeInv, Next PROVE PoolType'
  OBVIOUS
<1> USE DEF asked, pool
<1>0. RequestType /\ WorkerType /\ PoolType BY DEF TypeInv
<1>1. ASSUME NEW r \in Requests, Find(r) \/ PrepareStep(r) \/ Finish(r) PROVE PoolType'
  <2>1. UNCHANGED <<target, drained, adaptive>>
    BY <1>1 DEF Find, PrepareStep, Create, Clear, InsertPassive, InsertActive, SetPopulated,
                ResetHalted, CountTotal, PrepareFails, Start, StartFails, Finish, Prepares
  <2>2. \E p \in Places : /\ at' = [at EXCEPT ![r] = p] /\ at[r] \notin {"over", "dead"}
                          /\ p = "over" \/ (p \notin {"dead", "new"} /\ UNCHANGED outcome)
    BY <1>1 DEF Places, Preparing, Find, Found, PrepareStep, Create, Clear, InsertPassive,
                InsertActive, SetPopulated, ResetHalted, CountTotal, PrepareFails, Start,
                StartFails, Finish, Prepares, Go
  <2>3. \A q \in Requests : drained'[q] => adaptive'[q] /\ at'[q] \in {"running", "over", "dead"}
    <3>1. at'[r] = "over" \/ at[r] \notin {"running", "over", "dead"}
      BY <1>0, <1>1
         DEF RequestType, Preparing, Find, Found, PrepareStep, Create, Clear, InsertPassive,
             InsertActive, SetPopulated, ResetHalted, CountTotal, PrepareFails, Start,
             StartFails, Finish, Prepares, Go
    <3>. QED BY <1>0, <2>1, <2>2, <3>1 DEF PoolType, RequestType
  <2>4. \A q \in Requests : q # r => outcome'[q] = outcome[q]
    BY <1>0, <1>1
       DEF RequestType, Find, PrepareStep, Create, Clear, InsertPassive, InsertActive,
           SetPopulated, ResetHalted, CountTotal, PrepareFails, Start, StartFails, Finish, Prepares
  <2>5. \A q \in Requests : at'[q] # "over" => outcome'[q] = "none"
    BY <1>0, <2>2, <2>4 DEF PoolType, RequestType
  <2>6. \A q \in Requests, i \in Workers :
          worker'[q][i] \in {"idle", "asking", "probing"} => at'[q] = "running"
    <3>1. CASE Start(r)
      <4>1. /\ at' = [at EXCEPT ![r] = "running"]
            /\ \E built \in SUBSET Workers :
                 worker' = [worker EXCEPT ![r] =
                             [i \in Workers |-> IF i \in built THEN "idle" ELSE "exited"]]
        BY <3>1 DEF Start, Go
      <4>. QED BY <1>0, <4>1 DEF PoolType, RequestType, WorkerType
    <3>2. CASE Finish(r)
      <4>1. UNCHANGED worker /\ (\A i \in Workers : worker[r][i] = "exited")
            /\ \A q \in Requests : q # r => at'[q] = at[q]
        BY <1>0, <3>2 DEF Finish, Go, RequestType
      <4>. QED BY <1>0, <4>1 DEF PoolType
    <3>3. CASE ~Start(r) /\ ~Finish(r)
      <4>1. UNCHANGED worker /\ at[r] # "running" /\ \A q \in Requests : q # r => at'[q] = at[q]
        BY <1>0, <1>1, <3>3
           DEF RequestType, Preparing, Find, Found, PrepareStep, Create, Clear, InsertPassive,
               InsertActive, SetPopulated, ResetHalted, CountTotal, PrepareFails, StartFails,
               Prepares, Go
      <4>. QED BY <1>0, <4>1 DEF PoolType
    <3>. QED BY <3>1, <3>2, <3>3
  <2>. QED BY <1>0, <2>1, <2>5, <2>6, <2>3 DEF PoolType
<1>2. ASSUME NEW r \in Requests, Tick(r) PROVE PoolType'
  <2>1. PICK n \in 1 .. Max(Workers) + 1 : target' = [target EXCEPT ![r] = n]
    BY <1>2 DEF Tick
  <2>2. n \in Nat \ {0} BY <2>1, Pool
  <2>3. adaptive[r] /\ UNCHANGED <<at, adaptive, outcome, worker, drained>> BY <1>2 DEF Tick
  <2>. QED BY <1>0, <2>1, <2>2, <2>3 DEF PoolType
<1>3. ASSUME NEW r \in Requests, NEW i \in Workers, WorkerStep(r, i) PROVE PoolType'
  <2>1. UNCHANGED <<at, adaptive, outcome, target>>
    BY <1>3 DEF WorkerStep, Claim, FindNoWork, WaitForOthers, End, EndParked, Record, Requeue,
                RequeueFails, ClaimBreaksOff, Panic, Working
  <2>2. drained' = drained \/ drained' = [drained EXCEPT ![r] = adaptive[r]]
    BY <1>3 DEF WorkerStep, Claim, FindNoWork, WaitForOthers, End, EndParked, Record, Requeue,
                RequeueFails, ClaimBreaksOff, Panic
  <2>3. worker[r][i] \in {"idle", "asking", "probing"}
    BY <1>3 DEF WorkerStep, Claim, FindNoWork, WaitForOthers, End, EndParked, Record, Requeue,
                RequeueFails, ClaimBreaksOff, Panic, AtWork
  <2>4. /\ drained' \in [Requests -> BOOLEAN]
        /\ \A q \in Requests : drained'[q] => adaptive[q] /\ at[q] \in {"running", "over", "dead"}
    <3>1. CASE drained' = drained BY <1>0, <3>1 DEF PoolType
    <3>2. CASE drained' = [drained EXCEPT ![r] = adaptive[r]]
      BY <1>0, <2>3, <3>2 DEF PoolType, RequestType
    <3>. QED BY <2>2, <3>1, <3>2
  <2>5. \A q \in Requests, k \in Workers : worker'[q][k] = worker[q][k] \/ q = r
    BY <1>0, <1>3 DEF WorkerType, WorkerStep, Claim, FindNoWork, WaitForOthers, End, EndParked,
                      Record, Requeue, RequeueFails, ClaimBreaksOff, Panic, Move
  <2>. QED BY <1>0, <2>1, <2>4, <2>3, <2>5 DEF PoolType
<1>4. ASSUME Crash PROVE PoolType'
  <2>1. /\ UNCHANGED <<adaptive, outcome, target, drained>>
        /\ \A r \in Requests : at'[r] = "over" => at[r] = "over"
        /\ \A r \in Requests : at'[r] = at[r] \/ at'[r] = "dead"
        /\ \A r \in Requests, i \in Workers : worker'[r][i] = "none"
    BY <1>4 DEF Crash
  <2>2. \A r \in Requests : at'[r] # "over" => at[r] # "over" BY <1>4 DEF Crash
  <2>. QED BY <1>0, <2>1, <2>2 DEF PoolType
<1>. QED BY <1>1, <1>2, <1>3, <1>4 DEF Next

LEMMA NextType == TypeInv /\ [Next]_vars => TypeInv'
<1> SUFFICES ASSUME TypeInv, [Next]_vars PROVE TypeInv'
  OBVIOUS
<1>1. CASE Next
  BY <1>1, NextRequestType, NextEntryType, NextWorkerType, NextPoolType DEF TypeInv
<1>2. CASE UNCHANGED vars
  BY <1>2 DEF vars, asked, pool, TypeInv, RequestType, EntryType, WorkerType, PoolType
<1>. QED BY <1>1, <1>2

\* Every variable holds a value of its type, and a worker holds an entry exactly while
\* it works on it.
THEOREM TypeCorrect == Spec => []TypeOK
<1>1. TypeInv => TypeOK
  BY DEF TypeInv, RequestType, EntryType, WorkerType, PoolType, TypeOK
<1>. QED BY InitType, NextType, <1>1, PTL DEF Spec

-----------------------------------------------------------------------------
(* A resume keeps the results *)

\* A resume does not try again what was tried: an entry that has its result loses it only
\* to a fresh start, or to a second worker that had claimed it as well.
THEOREM ResultsAreKept == Spec => ResumeKeepsResults
<1>1. ASSUME TypeInv, [Next]_vars, NEW e \in Of("recorded"), entry'[e] = "queued"
      PROVE  \E r \in Requests, i \in Workers : holds[r][i] = e
  <2>0. EntryType /\ WorkerType /\ e \in Entries /\ entry[e] = "recorded"
    BY <1>1 DEF TypeInv, Of
  <2>1. CASE UNCHANGED vars BY <1>1, <2>0, <2>1 DEF vars
  <2>2. ASSUME NEW r \in Requests, Find(r) \/ PrepareStep(r) \/ Tick(r) \/ Finish(r)
        PROVE  FALSE
    <3>1. CASE InsertPassive(r) \/ InsertActive(r)
      <4>1. PICK ws, s : Insert(r, ws, s) BY <3>1 DEF InsertPassive, InsertActive
      <4>2. e \in Named(e[2]) BY <2>0 DEF Named
      <4>3. entry'[e] = entry[e] BY <2>0, <4>1, <4>2 DEF Insert
      <4>. QED BY <1>1, <2>0, <4>3
    <3>2. CASE ~InsertPassive(r) /\ ~InsertActive(r)
      BY <1>1, <2>0, <2>2, <3>2
         DEF EntryType, Find, PrepareStep, Create, Clear, SetPopulated, ResetHalted, CountTotal,
             PrepareFails, Start, StartFails, Tick, Finish, Halted, Of
    <3>. QED BY <3>1, <3>2
  <2>3. ASSUME NEW r \in Requests, NEW i \in Workers, WorkerStep(r, i)
        PROVE  holds[r][i] = e
    BY <1>1, <2>0, <2>3
       DEF EntryType, WorkerStep, Claim, FindNoWork, WaitForOthers, End, EndParked, Record,
           Requeue, RequeueFails, ClaimBreaksOff, Panic, Write, Of
  <2>4. ASSUME Crash PROVE FALSE BY <1>1, <2>0, <2>4 DEF Crash
  <2>. QED BY <1>1, <2>1, <2>2, <2>3, <2>4 DEF Next
<1>2. TypeInv /\ [Next]_vars =>
        [\A e \in Of("recorded") :
           entry'[e] = "queued" => \E r \in Requests, i \in Workers : holds[r][i] = e]_vars
  BY <1>1
<1>. QED BY InitType, NextType, <1>2, PTL DEF Spec, ResumeKeepsResults

-----------------------------------------------------------------------------
(* Scans that are done leave nothing: whoever is responsible for an entry *)

\* A request that has still to take back what is claimed, or will never say it is done.
Unready(r) ==
  \/ at[r] \in {"create", "clear", "passive", "insert", "status", "reset", "dead"}
  \/ outcome[r] = "error"
\* A request that has still to look for what is queued.
Open(r) == Unready(r) \/ at[r] \in {"total", "start"}
QueuedIsSeen ==
  Of("queued") \subseteq lost
    \/ \E r \in Requests : Open(r) \/ \E i \in Workers : Looks(r, i)
ClaimedIsHeld ==
  \/ \E r \in Requests : Unready(r)
  \/ \A e \in Of("scanning") \ lost : \E r \in Requests, i \in Workers : holds[r][i] = e
Inv == TypeInv /\ QueuedIsSeen /\ ClaimedIsHeld

LEMMA InvDone == Inv => DoneIsExhausted
<1> SUFFICES ASSUME Inv, \A r \in Requests : at[r] = "new" \/ outcome[r] = "done"
             PROVE  Of("queued") \cup Of("scanning") \subseteq lost
  BY DEF DoneIsExhausted
<1>0. PoolType /\ WorkerType /\ RequestType BY DEF Inv, TypeInv
<1>1. \A r \in Requests : at[r] \in {"new", "over"} /\ outcome[r] # "error"
  BY <1>0 DEF PoolType, RequestType
<1>2. \A r \in Requests : ~Open(r) BY <1>1 DEF Open, Unready
<1>3. \A r \in Requests, i \in Workers : worker[r][i] \notin {"idle", "probing"}
  BY <1>0, <1>1 DEF PoolType
<1>4. \A r \in Requests, i \in Workers : holds[r][i] = Nothing
  BY <1>0, <1>3 DEF WorkerType
<1>5. Of("queued") \subseteq lost BY <1>2, <1>3 DEF Inv, QueuedIsSeen, Looks
<1>6. Of("scanning") \subseteq lost
  BY <1>2, <1>4, Distinct DEF Inv, ClaimedIsHeld, Open, Of
<1>. QED BY <1>5, <1>6

LEMMA InitInv == Init => Inv
<1> SUFFICES ASSUME Init PROVE QueuedIsSeen /\ ClaimedIsHeld
  BY InitType DEF Inv
<1>1. Of("queued") = {} /\ Of("scanning") = {} BY DEF Init, Of
<1>. QED BY <1>1 DEF QueuedIsSeen, ClaimedIsHeld

\* Steps of a request other than its workers'.
LEMMA RequestInv ==
  ASSUME Inv, NEW r \in Requests, Find(r) \/ PrepareStep(r) \/ Tick(r) \/ Finish(r)
  PROVE  QueuedIsSeen' /\ ClaimedIsHeld'
<1> USE DEF asked, pool
<1>0. RequestType /\ EntryType /\ WorkerType /\ PoolType BY DEF Inv, TypeInv
<1>1. UNCHANGED adaptive
  BY DEF Find, PrepareStep, Create, Clear, InsertPassive, InsertActive, SetPopulated,
         ResetHalted, CountTotal, PrepareFails, Start, StartFails, Tick, Finish, Prepares
<1>2. \A q \in Requests : q # r => at'[q] = at[q] /\ outcome'[q] = outcome[q]
  BY <1>0 DEF RequestType, Find, Found, PrepareStep, Create, Clear, InsertPassive, InsertActive,
              SetPopulated, ResetHalted, CountTotal, PrepareFails, Start, StartFails, Tick,
              Finish, Prepares, Go
<1>3. \A q \in Requests : q # r => (Unready(q)' <=> Unready(q)) /\ (Open(q)' <=> Open(q))
  BY <1>2 DEF Open, Unready
<1>4. CASE Find(r) \/ Create(r) \/ Clear(r) \/ InsertPassive(r) \/ InsertActive(r)
           \/ SetPopulated(r) \/ PrepareFails(r) \/ StartFails(r)
  <2>1. Unready(r)'
    BY <1>0, <1>4
       DEF RequestType, Find, Found, Create, Clear, InsertPassive, InsertActive, SetPopulated,
           PrepareFails, StartFails, Go, Unready
  <2>. QED BY <2>1 DEF QueuedIsSeen, ClaimedIsHeld, Open
<1>5. CASE ResetHalted(r)
  <2>1. Open(r)' BY <1>0, <1>5 DEF RequestType, ResetHalted, Go, Open
  <2>2. Of("scanning")' = {} BY <1>0, <1>5 DEF EntryType, ResetHalted, Halted, Of
  <2>. QED BY <2>1, <2>2 DEF QueuedIsSeen, ClaimedIsHeld
<1>6. CASE CountTotal(r)
  <2>1. Open(r)' /\ (Unready(r) => Unready(r)') /\ UNCHANGED <<entry, lost, holds>>
    BY <1>0, <1>6 DEF RequestType, CountTotal, Go, Open, Unready, Prepares
  <2>2. QueuedIsSeen' BY <2>1 DEF QueuedIsSeen
  <2>3. ClaimedIsHeld' BY <1>3, <2>1 DEF Inv, ClaimedIsHeld, Of
  <2>. QED BY <2>2, <2>3
<1>7. CASE Start(r)
  <2>1. PICK built \in SUBSET Workers :
          /\ worker' = [worker EXCEPT ![r] =
                         [i \in Workers |-> IF i \in built THEN "idle" ELSE "exited"]]
          /\ lost' = IF built = {} THEN lost \cup Of("queued") ELSE lost \ Of("queued")
    BY <1>7 DEF Start
  <2>2. /\ UNCHANGED <<entry, holds, outcome, drained>>
        /\ at[r] = "start" /\ at'[r] = "running" /\ ~drained[r]
    BY <1>0, <1>7 DEF RequestType, PoolType, Start, Go
  <2>3. QueuedIsSeen'
    <3>1. CASE built = {} BY <2>1, <2>2, <3>1 DEF QueuedIsSeen, Of
    <3>2. ASSUME NEW i \in built PROVE Looks(r, i)'
      <4>1. worker'[r][i] = "idle" /\ \A k \in Workers : worker'[r][k] # "asking"
        BY <1>0, <2>1 DEF WorkerType
      <4>. QED BY <2>2, <4>1 DEF Looks
    <3>. QED BY <3>1, <3>2 DEF QueuedIsSeen
  <2>4. Of("scanning") \ lost' = Of("scanning") \ lost BY <2>1 DEF Of
  <2>5. ClaimedIsHeld' BY <1>3, <2>2, <2>4 DEF Inv, ClaimedIsHeld, Unready, Of
  <2>. QED BY <2>3, <2>5
<1>8. CASE Tick(r) \/ Finish(r)
  <2>1. UNCHANGED <<entry, lost, holds, worker, drained>> /\ (Open(r) => Open(r)')
        /\ (Unready(r) => Unready(r)')
    BY <1>0, <1>8 DEF RequestType, PoolType, Tick, Finish, Go, Open, Unready
  <2>2. QueuedIsSeen' BY <1>1, <1>3, <2>1 DEF Inv, QueuedIsSeen, Looks, Of
  <2>3. ClaimedIsHeld' BY <1>3, <2>1 DEF Inv, ClaimedIsHeld, Of
  <2>. QED BY <2>2, <2>3
<1>. QED BY <1>4, <1>5, <1>6, <1>7, <1>8 DEF PrepareStep

LEMMA WorkerInv ==
  ASSUME Inv, NEW r \in Requests, NEW i \in Workers, WorkerStep(r, i)
  PROVE  QueuedIsSeen' /\ ClaimedIsHeld'
<1> USE DEF asked, pool
<1>0. RequestType /\ EntryType /\ WorkerType /\ PoolType BY DEF Inv, TypeInv
<1>1. UNCHANGED <<at, outcome, adaptive, target>>
  BY DEF WorkerStep, Claim, FindNoWork, WaitForOthers, End, EndParked, Record, Requeue,
         RequeueFails, ClaimBreaksOff, Panic, Working
<1>2. \A q \in Requests : (Unready(q)' <=> Unready(q)) /\ (Open(q)' <=> Open(q))
  BY <1>1 DEF Open, Unready
<1>3. \A q \in Requests, k \in Workers :
        ~(q = r /\ k = i) => worker'[q][k] = worker[q][k] /\ holds'[q][k] = holds[q][k]
  BY <1>0 DEF WorkerType, WorkerStep, Claim, FindNoWork, WaitForOthers, End, EndParked, Record,
              Requeue, RequeueFails, ClaimBreaksOff, Panic, Move, Drops
\* Of the others, nobody stops looking.
<1>4. \A q \in Requests, k \in Workers :
        ~(q = r /\ k = i) /\ ~FindNoWork(r, i) /\ Looks(q, k) => Looks(q, k)'
  <2> SUFFICES ASSUME NEW q \in Requests, NEW k \in Workers, ~(q = r /\ k = i),
                      ~FindNoWork(r, i), Looks(q, k)
               PROVE  Looks(q, k)'
    OBVIOUS
  <2>1. worker'[q][k] = worker[q][k] BY <1>3
  <2>2. worker'[r][i] # "asking"
    BY <1>0 DEF WorkerType, WorkerStep, Claim, WaitForOthers, End, EndParked, Record, Requeue,
                RequeueFails, ClaimBreaksOff, Panic, Move, AtWork
  <2>3. \A j \in Workers : worker[q][j] # "asking" => worker'[q][j] # "asking"
    BY <1>3, <2>2
  <2>4. CASE End(r, i)
    <3>1. worker[r][i] = "asking" /\ (q # r => drained'[q] = drained[q])
      BY <1>0, <2>4 DEF End, PoolType
    <3>. QED BY <1>1, <2>1, <2>3, <3>1 DEF Looks
  <2>5. CASE ~End(r, i)
    <3>1. UNCHANGED drained
      BY <2>5 DEF WorkerStep, Claim, FindNoWork, WaitForOthers, EndParked, Record, Requeue,
                  RequeueFails, ClaimBreaksOff, Panic
    <3>. QED BY <1>1, <2>1, <2>3, <3>1 DEF Looks
  <2>. QED BY <2>4, <2>5
<1>5. CASE FindNoWork(r, i)
  <2>1. UNCHANGED <<entry, lost, holds>> /\ Of("queued") = {} BY <1>5 DEF FindNoWork
  <2>2. QueuedIsSeen' BY <2>1 DEF QueuedIsSeen, Of
  <2>3. ClaimedIsHeld' BY <1>2, <2>1 DEF Inv, ClaimedIsHeld, Of
  <2>. QED BY <2>2, <2>3
<1>6. CASE WaitForOthers(r, i) \/ End(r, i) \/ EndParked(r, i)
  <2>1. UNCHANGED <<entry, lost, holds>> BY <1>6 DEF WaitForOthers, End, EndParked
  <2>2. ~Looks(r, i)
    <3>1. CASE EndParked(r, i)
      <4>1. adaptive[r] /\ drained[r] /\ i >= target[r] /\ target[r] \in Nat \ {0}
        BY <1>0, <3>1 DEF EndParked, PoolType
      <4>2. i # 0 BY <4>1
      <4>. QED BY <4>1, <4>2 DEF Looks
    <3>2. CASE ~EndParked(r, i) BY <1>6, <3>2 DEF WaitForOthers, End, Looks
    <3>. QED BY <3>1, <3>2
  <2>3. ~FindNoWork(r, i)
    <3>1. target[r] \in Nat /\ i \in Nat BY <1>0, Pool DEF PoolType
    <3>. QED BY <1>6, <3>1 DEF WaitForOthers, End, EndParked, FindNoWork, AtWork
  <2>4. QueuedIsSeen' BY <1>2, <1>4, <2>1, <2>2, <2>3 DEF Inv, QueuedIsSeen, Of
  <2>5. ClaimedIsHeld' BY <1>2, <2>1 DEF Inv, ClaimedIsHeld, Of
  <2>. QED BY <2>4, <2>5
<1>7. CASE Claim(r, i)
  <2>1. PICK e \in Of("queued") :
          entry' = [entry EXCEPT ![e] = "scanning"] /\ holds' = [holds EXCEPT ![r][i] = e]
    BY <1>7 DEF Claim
  <2>2. UNCHANGED lost /\ worker[r][i] = "idle" /\ worker'[r][i] = "probing"
    BY <1>0, <1>7 DEF Claim, AtWork, Move, WorkerType
  <2>3. Looks(r, i) => Looks(r, i)'
    <3>1. UNCHANGED drained BY <1>7 DEF Claim
    <3>2. \A k \in Workers : worker[r][k] # "asking" => worker'[r][k] # "asking"
      BY <1>3, <2>2
    <3>. QED BY <1>1, <2>2, <3>1, <3>2 DEF Looks
  <2>4. Of("queued")' \subseteq Of("queued") /\ Of("scanning")' \subseteq Of("scanning") \cup {e}
    BY <1>0, <2>1 DEF EntryType, Of
  <2>5. ~FindNoWork(r, i) BY <2>1 DEF FindNoWork
  <2>6. QueuedIsSeen' BY <1>2, <1>4, <2>2, <2>3, <2>4, <2>5 DEF Inv, QueuedIsSeen
  <2>7. holds'[r][i] = e /\ holds[r][i] = Nothing BY <1>0, <2>1, <2>2 DEF WorkerType
  <2>8. \A x \in Of("scanning")' \ lost' :
          (\E q \in Requests, k \in Workers : holds[q][k] = x)
            => \E q \in Requests, k \in Workers : holds'[q][k] = x
    <3>. TAKE x \in Of("scanning")' \ lost'
    <3>1. x # Nothing BY Distinct DEF Of
    <3>. HAVE \E q \in Requests, k \in Workers : holds[q][k] = x
    <3>2. PICK q \in Requests, k \in Workers : holds[q][k] = x
      OBVIOUS
    <3>3. ~(q = r /\ k = i) BY <2>7, <3>1, <3>2
    <3>4. holds'[q][k] = x BY <1>3, <3>2, <3>3
    <3>. QED BY <3>4
  <2>9. ClaimedIsHeld' BY <1>2, <2>2, <2>4, <2>7, <2>8 DEF Inv, ClaimedIsHeld
  <2>. QED BY <2>6, <2>9
<1>8. CASE Record(r, i) \/ Requeue(r, i) \/ RequeueFails(r, i)
  <2> DEFINE e == holds[r][i]
  <2>1. /\ e \in Entries /\ worker[r][i] = "probing"
        /\ worker'[r][i] = "idle" /\ holds'[r][i] = Nothing
    BY <1>0, <1>8 DEF Record, Requeue, RequeueFails, WorkerType, Move, Drops
  <2>2. Looks(r, i) => Looks(r, i)'
    <3>1. UNCHANGED drained BY <1>8 DEF Record, Requeue, RequeueFails
    <3>2. \A k \in Workers : worker[r][k] # "asking" => worker'[r][k] # "asking"
      BY <1>3, <2>1
    <3>. QED BY <1>1, <2>1, <3>1, <3>2 DEF Looks
  <2>3. ~FindNoWork(r, i) BY <2>1 DEF FindNoWork, AtWork
  <2>4. /\ \A x \in Entries \ {e} : entry'[x] = entry[x]
        /\ entry'[e] # "scanning" \/ e \in lost'
        /\ entry'[e] = "queued" => e \in lost' \/ entry[e] = "queued" \/ ~adaptive[r]
        /\ lost \subseteq lost'
    <3>1. CASE Record(r, i) BY <1>0, <2>1, <3>1 DEF Record, Write, EntryType
    <3>2. CASE Requeue(r, i) BY <1>0, <2>1, <3>2 DEF Requeue, Write, EntryType
    <3>3. CASE RequeueFails(r, i) BY <1>0, <2>1, <3>3 DEF RequeueFails
    <3>. QED BY <1>8, <3>1, <3>2, <3>3
  <2>5. Of("queued")' \subseteq lost' \/ ~(Of("queued") \subseteq lost) \/ Looks(r, i)
    BY <2>1, <2>4 DEF Of, Looks
  <2>6. QueuedIsSeen' BY <1>2, <1>4, <2>2, <2>5, <2>3 DEF Inv, QueuedIsSeen
  <2>7. ASSUME NEW x \in Of("scanning")' \ lost',
               \A q \in Requests : ~Unready(q)
        PROVE  \E q \in Requests, k \in Workers : holds'[q][k] = x
    <3>1. x # e /\ x \in Of("scanning") \ lost BY <2>4, <2>7 DEF Of
    <3>2. PICK q \in Requests, k \in Workers : holds[q][k] = x
      BY <2>7, <3>1 DEF Inv, ClaimedIsHeld
    <3>. QED BY <1>3, <3>1, <3>2
  <2>8. ClaimedIsHeld' BY <1>2, <2>7 DEF ClaimedIsHeld
  <2>. QED BY <2>6, <2>8
<1>9. CASE ClaimBreaksOff(r, i) \/ Panic(r, i)
  <2>1. /\ lost \subseteq lost' /\ Of("queued")' \subseteq Of("queued")
        /\ Of("scanning")' \ lost' \subseteq Of("scanning") \ lost
    <3>1. CASE ClaimBreaksOff(r, i)
      <4>1. PICK e \in Of("queued") :
              entry' = [entry EXCEPT ![e] = "scanning"] /\ lost' = lost \cup {e}
        BY <3>1 DEF ClaimBreaksOff
      <4>. QED BY <1>0, <4>1 DEF EntryType, Of
    <3>2. CASE Panic(r, i) BY <3>2 DEF Panic, Of
    <3>. QED BY <1>9, <3>1, <3>2
  <2>2. QueuedIsSeen'
    <3>1. ~FindNoWork(r, i)
      <4>1. CASE ClaimBreaksOff(r, i) BY <4>1 DEF ClaimBreaksOff, FindNoWork
      <4>2. CASE Panic(r, i) BY <4>2 DEF Panic, FindNoWork, AtWork
      <4>. QED BY <1>9, <4>1, <4>2
    <3>2. CASE ClaimBreaksOff(r, i)
      <4>1. UNCHANGED <<worker, drained>> BY <3>2 DEF ClaimBreaksOff
      <4>2. Looks(r, i) => Looks(r, i)' BY <1>1, <4>1 DEF Looks
      <4>. QED BY <1>2, <1>4, <2>1, <3>1, <4>2 DEF Inv, QueuedIsSeen
    <3>3. CASE Panic(r, i)
      <4>1. CASE \E k \in Workers \ {i} : Looks(r, k)
        BY <1>4, <3>1, <4>1 DEF QueuedIsSeen
      <4>2. CASE ~\E k \in Workers \ {i} : Looks(r, k)
        <5>1. Of("queued") \subseteq lost' BY <3>3, <4>2 DEF Panic
        <5>. QED BY <2>1, <5>1 DEF QueuedIsSeen
      <4>. QED BY <4>1, <4>2
    <3>. QED BY <1>9, <3>2, <3>3
  <2>3. ASSUME NEW x \in Of("scanning")' \ lost', \A q \in Requests : ~Unready(q)
        PROVE  \E q \in Requests, k \in Workers : holds'[q][k] = x
    <3>1. x \in Of("scanning") \ lost BY <2>1
    <3>2. PICK q \in Requests, k \in Workers : holds[q][k] = x
      BY <2>3, <3>1 DEF Inv, ClaimedIsHeld
    <3>3. holds'[r][i] = holds[r][i] \/ holds[r][i] \in lost'
      BY <1>9 DEF ClaimBreaksOff, Panic
    <3>4. holds'[q][k] = x
      <4>1. CASE q = r /\ k = i BY <3>2, <3>3, <4>1
      <4>2. CASE ~(q = r /\ k = i) BY <1>3, <3>2, <4>2
      <4>. QED BY <4>1, <4>2
    <3>. QED BY <3>4
  <2>4. ClaimedIsHeld' BY <1>2, <2>3 DEF ClaimedIsHeld
  <2>. QED BY <2>2, <2>4
<1>. QED BY <1>5, <1>6, <1>7, <1>8, <1>9 DEF WorkerStep

LEMMA NextInv == Inv /\ [Next]_vars => Inv'
<1> SUFFICES ASSUME Inv, [Next]_vars PROVE QueuedIsSeen' /\ ClaimedIsHeld'
  BY NextType DEF Inv
<1>1. CASE Crash
  <2>1. PICK r \in Requests : at[r] \notin {"new", "over", "dead"} BY <1>1 DEF Crash
  <2>2. Unready(r)' BY <1>1, <2>1 DEF Crash, Unready
  <2>. QED BY <2>2 DEF QueuedIsSeen, ClaimedIsHeld, Open
<1>2. CASE UNCHANGED vars
  BY <1>2 DEF vars, asked, pool, Inv, QueuedIsSeen, ClaimedIsHeld, Of, Open, Unready, Looks
<1>. QED BY <1>1, <1>2, RequestInv, WorkerInv DEF Next

\* When the scans of a row have all said that they are done, every name was tried: those
\* that a scan found claimed, or that another scan put back or claimed anew, too. Left are
\* only those whose record failed, and those a scan had queued that had lost all its workers
\* or could build none, until another one begins that can.
THEOREM Exhausted == Spec => []DoneIsExhausted
<1>. QED BY InitInv, NextInv, InvDone, PTL DEF Spec
=============================================================================
