--------------------------- MODULE AmbuloScansProofs ---------------------------
(* Proofs about AmbuloScans for every set of requests, wordlist and pool, and for any *)
(* number of failures of the database and deaths of the daemon.                      *)
EXTENDS AmbuloScans, WellFoundedInduction, TLAPS

USE ScansAssumption

-----------------------------------------------------------------------------
(* Words, entries and indices of workers *)

LEMMA SmallestWord == ASSUME NEW S \in SUBSET Words, S # {} PROVE Min(S) \in S
<1>1. PICK n \in S : \A m \in S : n <= m
  <2>1. IsWellFoundedOn(OpToRel(<, Nat), Nat) BY NatLessThanWellFounded
  <2>2. PICK n \in S : \A m \in S : <<m, n>> \notin OpToRel(<, Nat) BY <2>1, WFMin
  <2>3. \A m \in S : <<m, n>> \in Nat \X Nat BY <2>2
  <2>4. \A m \in S : ~(m < n) BY <2>2, <2>3 DEF OpToRel
  <2>. QED BY <2>4
<1>. QED BY <1>1 DEF Min

LEMMA LargestIndex ==
  Max(Workers) + 1 \in Nat /\ \A i \in Workers : i \in Nat /\ i < Max(Workers) + 1
<1>1. PICK n \in Workers : \A j \in Workers : n >= j
  <2>1. PICK n \in Workers : \A j \in Workers : j <= n OBVIOUS
  <2>. QED BY <2>1
<1>2. Max(Workers) \in Workers /\ \A i \in Workers : Max(Workers) >= i BY <1>1 DEF Max
<1> DEFINE m == Max(Workers)
<1>3. m \in Nat /\ \A i \in Workers : i \in Nat /\ i <= m BY <1>2
<1>. HIDE DEF m
<1>4. m + 1 \in Nat /\ \A i \in Workers : i \in Nat /\ i < m + 1 BY <1>3
<1>. QED BY <1>4 DEF m

LEMMA EntryTypes ==
  /\ \A e \in Entries : By(e) \in Requests /\ e[2] \in Words /\ e = <<By(e), e[2]>>
  /\ \A r \in Requests, w \in Words : <<r, w>> \in Entries /\ By(<<r, w>>) = r /\ <<r, w>>[2] = w
  /\ Nothing \notin Entries
BY DEF Entries, By, Nothing

LEMMA KindTypes == Kinds \subseteq {"stream", "adaptive", "one-off"}
BY DEF Stream, Adaptive, OneOff

-----------------------------------------------------------------------------
(* Types *)

\* The request that inserted the wordlist's row is the one that fills it.
TablesType ==
  /\ lister \in Requests \cup {Nobody} /\ words \subseteq Words
  /\ lister = Nobody => words = {}
  /\ status \in [Requests -> {"absent", "created", "populated"}]
  /\ entry \in [Entries -> {"absent", "queued", "scanning", "recorded"}]
PrepType ==
  /\ kind \in [Requests -> Kinds]
  /\ at \in [Requests -> Places]
  /\ row \in [Requests -> Requests \cup {Nobody}]
  /\ have \in [Requests -> SUBSET Words] /\ todo \in [Requests -> SUBSET Words]
  /\ sees \in [Requests -> {"absent", "created", "populated"}]
  /\ outcome \in [Requests -> {"none", "done", "error"}]
  /\ closed \in [Requests -> BOOLEAN]
Filling == \A r \in Requests : at[r] = "fill" => lister = r /\ words # Words
\* A worker has nothing in hand but while its scan runs.
Quiet ==
  \A r \in Requests, i \in Workers :
    /\ at[r] \in {"new"} \cup Preparing => worker[r][i] = "none"
    /\ at[r] # "running" => worker[r][i] \in {"none", "exited"}
PoolType ==
  /\ worker \in [Requests -> [Workers -> WorkerPlaces]]
  /\ holds \in [Requests -> [Workers -> Entries \cup {Nothing}]]
  /\ \A r \in Requests, i \in Workers :
       holds[r][i] # Nothing <=> worker[r][i] = "probing"
  /\ target \in [Requests -> Nat] /\ drained \in [Requests -> BOOLEAN]
RestType ==
  /\ old \subseteq Requests /\ faults \in 0 .. MaxFaults /\ crashes \in 0 .. MaxCrashes
  /\ lost \subseteq Entries
TypeInv == TablesType /\ PrepType /\ Filling /\ PoolType /\ Quiet /\ RestType

LEMMA TypeInvTypes == TypeInv => TypeOK
BY DEF TypeInv, TablesType, PrepType, PoolType, RestType, TypeOK

LEMMA PlaceTypes ==
  Places = {"new", "list", "fill", "fetch", "find", "create", "fresh", "clear", "reread",
            "populate", "populated", "reset", "start", "running", "entries", "rows", "over", "dead"}
BY DEF Places, Preparing

LEMMA InitType == Init => TypeInv
<1> SUFFICES ASSUME Init PROVE TypeInv
  OBVIOUS
<1>1. TablesType BY DEF Init, TablesType
<1>2. PrepType BY PlaceTypes DEF Init, PrepType
<1>3. Filling BY DEF Init, Filling
<1>4. PoolType BY DEF Init, PoolType, WorkerPlaces
<1>5. RestType BY DEF Init, RestType
<1>6. Quiet BY DEF Init, Quiet
<1>. QED BY <1>1, <1>2, <1>3, <1>4, <1>5, <1>6 DEF TypeInv

\* A scan that runs no pool, and does not go to where one runs, stays quiet.
LEMMA QuietStays ==
  ASSUME NEW r \in Requests, TypeInv, UNCHANGED worker, NEW place, at' = [at EXCEPT ![r] = place],
         at[r] \in {"new"} \cup Preparing
  PROVE  Quiet'
<1>1. Quiet /\ at \in [Requests -> Places] BY DEF TypeInv, PrepType
<1>2. \A i \in Workers : worker[r][i] = "none" BY <1>1 DEF Quiet
<1>3. \A q \in Requests : q # r => at'[q] = at[q] BY <1>1
<1> SUFFICES ASSUME NEW q \in Requests, NEW i \in Workers
             PROVE  /\ at'[q] \in {"new"} \cup Preparing => worker[q][i] = "none"
                    /\ at'[q] # "running" => worker[q][i] \in {"none", "exited"}
  BY DEF Quiet
<1>4. CASE q = r BY <1>2, <1>4
<1>5. CASE q # r BY <1>1, <1>3, <1>5 DEF Quiet
<1>. QED BY <1>4, <1>5

LEMMA PrepareType ==
  ASSUME NEW r \in Requests, TypeInv, FindList(r) \/ PrepareStep(r) PROVE TypeInv'
<1> USE PlaceTypes DEF TypeInv, tables, prep, pool, rest, Go, Prepares, Fault, NoFault
<1>0. Quiet'
  <2>1. CASE ~Start(r)
    <3>1. UNCHANGED worker /\ \E place : at' = [at EXCEPT ![r] = place]
      BY <2>1 DEF PrepareStep, FindList, CreateList, FillList, FetchWords, FindScan, CreateScan,
                  FreshStatus, FreshClear, FreshRead, Populate, SetPopulated, ResetHalted,
                  PrepareFails, NobodyToAck, NoProber
    <3>2. at[r] \in {"new"} \cup Preparing
      BY DEF PrepareStep, FindList, CreateList, FillList, FetchWords, FindScan, CreateScan,
             FreshStatus, FreshClear, FreshRead, Populate, SetPopulated, ResetHalted,
             PrepareFails, Start, NobodyToAck, NoProber, Preparing
    <3>. HIDE DEF TypeInv
    <3>. QED BY <3>1, <3>2, QuietStays
  <2>2. CASE Start(r)
    <3>1. /\ at' = [at EXCEPT ![r] = "running"]
          /\ \A q \in Requests : q # r => worker'[q] = worker[q] /\ at'[q] = at[q]
          /\ at'[r] = "running"
      BY <2>2 DEF Start, PrepType, PoolType
    <3>2. "running" \notin {"new"} \cup Preparing BY DEF Preparing
    <3>3. \A i \in Workers, q \in Requests :
            /\ at'[q] \in {"new"} \cup Preparing => worker'[q][i] = "none"
            /\ at'[q] # "running" => worker'[q][i] \in {"none", "exited"}
      <4>1. ASSUME NEW q \in Requests, NEW i \in Workers, q # r
            PROVE  /\ at'[q] \in {"new"} \cup Preparing => worker'[q][i] = "none"
                   /\ at'[q] # "running" => worker'[q][i] \in {"none", "exited"}
        BY <3>1, <4>1 DEF Quiet
      <4>. QED BY <3>1, <3>2, <4>1
    <3>. QED BY <3>3 DEF Quiet
  <2>. QED BY <2>1, <2>2
<1>1. CASE FindList(r)
  <2>1. TablesType' /\ PoolType' /\ RestType' BY <1>1 DEF FindList, TablesType, PoolType, RestType
  <2>2. PrepType' BY <1>1 DEF FindList, PrepType
  <2>3. Filling' BY <1>1 DEF FindList, Filling, PrepType
  <2>. QED BY <1>0, <2>1, <2>2, <2>3
<1>2. CASE CreateList(r)
  <2>1. PoolType' /\ RestType' BY <1>2 DEF CreateList, PoolType, RestType
  <2>2. TablesType' BY <1>2 DEF CreateList, TablesType
  <2>3. PrepType' BY <1>2 DEF CreateList, PrepType
  <2>4. Filling'
    <3>1. CASE lister = Nobody
      <4>1. \A q \in Requests : at[q] # "fill" BY <3>1 DEF Filling
      <4>2. words' = {} /\ lister' = r /\ at' = [at EXCEPT ![r] = "fill"]
        BY <1>2, <3>1 DEF CreateList, TablesType
      <4>. QED BY <4>1, <4>2 DEF Filling, PrepType
    <3>2. CASE lister # Nobody BY <1>2, <3>2 DEF CreateList, Filling, PrepType
    <3>. QED BY <3>1, <3>2
  <2>. QED BY <1>0, <2>1, <2>2, <2>3, <2>4
<1>3. CASE FillList(r)
  <2>0. Words \ words # {} /\ lister = r BY <1>3 DEF FillList, Filling, TablesType
  <2>1. Min(Words \ words) \in Words BY <2>0, SmallestWord
  <2>2. PoolType' /\ RestType' BY <1>3 DEF FillList, PoolType, RestType
  <2>3. TablesType' BY <1>3, <2>0, <2>1 DEF FillList, TablesType
  <2>4. PrepType' BY <1>3 DEF FillList, PrepType
  <2>5. Filling' BY <1>3, <2>0 DEF FillList, Filling, PrepType
  <2>. QED BY <1>0, <2>2, <2>3, <2>4, <2>5
<1>4. CASE FetchWords(r)
  <2>1. TablesType' /\ PoolType' /\ RestType' BY <1>4 DEF FetchWords, TablesType, PoolType, RestType
  <2>2. PrepType' BY <1>4 DEF FetchWords, PrepType, TablesType
  <2>3. Filling' BY <1>4 DEF FetchWords, Filling, PrepType
  <2>. QED BY <1>0, <2>1, <2>2, <2>3
<1>5. CASE FindScan(r)
  <2>1. TablesType' /\ PoolType' /\ RestType' BY <1>5 DEF FindScan, TablesType, PoolType, RestType
  <2>2. PrepType'
    <3>1. CASE Go(r, "create") /\ UNCHANGED <<row, sees>> BY <1>5, <3>1 DEF FindScan, PrepType
    <3>2. ASSUME NEW x \in Requests, row' = [row EXCEPT ![r] = x],
                 sees' = [sees EXCEPT ![r] = status[x]],
                 NEW place \in {"fresh", "populate", "reset"}, at' = [at EXCEPT ![r] = place]
          PROVE  PrepType'
      BY <1>5, <3>2 DEF FindScan, PrepType, TablesType
    <3>. QED BY <1>5, <3>1, <3>2 DEF FindScan
  <2>3. Filling'
    <3>1. UNCHANGED <<lister, words>> /\ \A q \in Requests : at'[q] = "fill" => at[q] = "fill"
      BY <1>5 DEF FindScan, PrepType
    <3>. QED BY <3>1 DEF Filling
  <2>. QED BY <1>0, <2>1, <2>2, <2>3
<1>6. CASE CreateScan(r)
  <2>1. PoolType' /\ RestType' BY <1>6 DEF CreateScan, PoolType, RestType
  <2>2. TablesType' BY <1>6 DEF CreateScan, TablesType
  <2>3. PrepType' /\ Filling' BY <1>6 DEF CreateScan, PrepType, Filling
  <2>. QED BY <1>0, <2>1, <2>2, <2>3
<1>7. CASE FreshStatus(r)
  <2>1. PoolType' /\ RestType' BY <1>7 DEF FreshStatus, PoolType, RestType
  <2>2. TablesType' BY <1>7 DEF FreshStatus, TablesType
  <2>3. PrepType' /\ Filling' BY <1>7 DEF FreshStatus, PrepType, Filling
  <2>. QED BY <1>0, <2>1, <2>2, <2>3
<1>8. CASE FreshClear(r)
  <2>1. PoolType' /\ RestType' BY <1>8 DEF FreshClear, PoolType, RestType
  <2>2. TablesType' BY <1>8 DEF FreshClear, DeleteEntries, TablesType
  <2>3. PrepType' /\ Filling' BY <1>8 DEF FreshClear, PrepType, Filling
  <2>. QED BY <1>0, <2>1, <2>2, <2>3
<1>9. CASE FreshRead(r)
  <2>1. TablesType' /\ PoolType' /\ RestType' BY <1>9 DEF FreshRead, TablesType, PoolType, RestType
  <2>2. row[r] \in Requests BY <1>9 DEF FreshRead, Exists, PrepType
  <2>3. PrepType' BY <1>9, <2>2 DEF FreshRead, PrepType, TablesType
  <2>4. Filling' BY <1>9 DEF FreshRead, Filling, PrepType
  <2>. QED BY <1>0, <2>1, <2>3, <2>4
<1>10. CASE Populate(r)
  <2>1. PoolType' /\ RestType' BY <1>10 DEF Populate, PoolType, RestType
  <2>2. TablesType' BY <1>10 DEF Populate, TablesType
  <2>3. PrepType'
    <3>1. \A w : [todo EXCEPT ![r] = @ \ {w}] \in [Requests -> SUBSET Words] BY DEF PrepType
    <3>. QED BY <1>10, <3>1 DEF Populate, PrepType
  <2>4. Filling' BY <1>10 DEF Populate, Filling, PrepType
  <2>. QED BY <1>0, <2>1, <2>2, <2>3, <2>4
<1>11. CASE SetPopulated(r)
  <2>1. PoolType' /\ RestType' BY <1>11 DEF SetPopulated, PoolType, RestType
  <2>2. TablesType' BY <1>11 DEF SetPopulated, TablesType
  <2>3. PrepType' /\ Filling' BY <1>11 DEF SetPopulated, PrepType, Filling
  <2>. QED BY <1>0, <2>1, <2>2, <2>3
<1>12. CASE ResetHalted(r)
  <2>1. PoolType' /\ RestType' BY <1>12 DEF ResetHalted, PoolType, RestType
  <2>2. TablesType' BY <1>12 DEF ResetHalted, TablesType
  <2>3. PrepType' /\ Filling' BY <1>12 DEF ResetHalted, PrepType, Filling
  <2>. QED BY <1>0, <2>1, <2>2, <2>3
<1>13. CASE PrepareFails(r)
  <2>1. TablesType' /\ PoolType' BY <1>13 DEF PrepareFails, TablesType, PoolType
  <2>2. RestType' BY <1>13 DEF PrepareFails, RestType
  <2>3. PrepType' /\ Filling' BY <1>13 DEF PrepareFails, PrepType, Filling
  <2>. QED BY <1>0, <2>1, <2>2, <2>3
<1>14. CASE Start(r)
  <2>1. TablesType' /\ RestType' BY <1>14 DEF Start, TablesType, RestType
  <2>2. PrepType' /\ Filling' BY <1>14 DEF Start, PrepType, Filling
  <2>3. \A i \in Workers : holds[r][i] = Nothing
    BY <1>14 DEF Start, PoolType, Quiet
  <2>4. /\ worker' = [worker EXCEPT ![r] = [i \in Workers |-> "idle"]]
        /\ target' = target \/ target' = [target EXCEPT ![r] = Max(Workers) + 1]
        /\ UNCHANGED <<holds, drained>>
    BY <1>14 DEF Start
  <2>5. Max(Workers) + 1 \in Nat BY LargestIndex
  <2>6. target' \in [Requests -> Nat] BY <2>4, <2>5 DEF PoolType
  <2>7. worker' \in [Requests -> [Workers -> WorkerPlaces]]
    BY <2>4 DEF PoolType, WorkerPlaces
  <2>8. ASSUME NEW q \in Requests, NEW i \in Workers
        PROVE  holds'[q][i] # Nothing <=> worker'[q][i] = "probing"
    BY <2>3, <2>4 DEF PoolType
  <2>9. PoolType' BY <2>4, <2>6, <2>7, <2>8 DEF PoolType
  <2>. QED BY <1>0, <2>1, <2>2, <2>9
<1>15. CASE NobodyToAck(r)
  <2>1. TablesType' /\ PoolType' /\ RestType' BY <1>15 DEF NobodyToAck, TablesType, PoolType, RestType
  <2>2. PrepType' /\ Filling' BY <1>15 DEF NobodyToAck, PrepType, Filling
  <2>. QED BY <1>0, <2>1, <2>2
<1>16. CASE NoProber(r)
  <2>1. TablesType' /\ PoolType' BY <1>16 DEF NoProber, TablesType, PoolType
  <2>2. RestType' BY <1>16 DEF NoProber, RestType
  <2>3. PrepType' /\ Filling' BY <1>16 DEF NoProber, PrepType, Filling
  <2>. QED BY <1>0, <2>1, <2>2, <2>3
<1>. HIDE DEF TypeInv, tables, prep, pool, rest, Go, Prepares, Fault, NoFault
<1>. QED BY <1>1, <1>2, <1>3, <1>4, <1>5, <1>6, <1>7, <1>8, <1>9, <1>10, <1>11, <1>12, <1>13,
            <1>14, <1>15, <1>16 DEF PrepareStep

LEMMA WorkerType ==
  ASSUME NEW r \in Requests, NEW i \in Workers, TypeInv, WorkerStep(r, i) PROVE TypeInv'
<1> USE DEF TypeInv, Working, Move, Drops, Fault
<1> DEFINE place == worker'[r][i]
<1>1. /\ UNCHANGED <<lister, words, status, prep, at, outcome, closed, old, crashes, target>>
      /\ at[r] = "running"
  <2>1. worker[r][i] \notin {"none", "exited"}
    BY DEF WorkerStep, EndParked, LookAtConsumer, Claim, ClaimFails, NoWork, Record, Requeue,
           RequeueFails, GiveUp
  <2>2. at[r] = "running" BY <2>1 DEF Quiet
  <2>. QED BY <2>2 DEF WorkerStep, EndParked, LookAtConsumer, Claim, ClaimFails, NoWork, Record,
                       Requeue, RequeueFails, GiveUp
<1>2. /\ \E p \in WorkerPlaces : worker' = [worker EXCEPT ![r][i] = p]
      /\ worker[r][i] = "probing" => holds[r][i] \in Entries
  <2>1. worker[r][i] = "probing" => holds[r][i] \in Entries BY DEF PoolType
  <2>2. CASE LookAtConsumer(r, i)
    <3>1. (IF closed[r] THEN "exited" ELSE "cleared") \in WorkerPlaces BY DEF WorkerPlaces
    <3>. QED BY <2>1, <2>2, <3>1 DEF LookAtConsumer
  <2>3. CASE ~LookAtConsumer(r, i)
    <3>1. \E p \in {"exited", "probing", "idle"} : worker' = [worker EXCEPT ![r][i] = p]
      BY <2>3 DEF WorkerStep, EndParked, Claim, ClaimFails, NoWork, Record, Requeue, RequeueFails,
                  GiveUp
    <3>. QED BY <2>1, <3>1 DEF WorkerPlaces
  <2>. QED BY <2>2, <2>3
<1>3. PrepType' /\ Filling' BY <1>1 DEF PrepType, Filling, prep
<1>4. Quiet'
  <2>1. "running" \notin {"new"} \cup Preparing BY DEF Preparing
  <2>2. ASSUME NEW q \in Requests, NEW j \in Workers
        PROVE  /\ at'[q] \in {"new"} \cup Preparing => worker'[q][j] = "none"
               /\ at'[q] # "running" => worker'[q][j] \in {"none", "exited"}
    <3>1. CASE q = r BY <1>1, <2>1, <3>1
    <3>2. CASE q # r BY <1>1, <1>2, <3>2 DEF Quiet, PoolType
    <3>. QED BY <3>1, <3>2
  <2>. QED BY <2>2 DEF Quiet
<1>5. TablesType'
  <2>1. entry' \in [Entries -> {"absent", "queued", "scanning", "recorded"}]
    BY <1>2 DEF WorkerStep, EndParked, LookAtConsumer, Claim, ClaimFails, NoWork, Record, Requeue,
           RequeueFails, GiveUp, TablesType, Of
  <2>. QED BY <1>1, <2>1 DEF TablesType
<1>6. RestType'
  <2>1. faults' = faults \/ (faults < MaxFaults /\ faults' = faults + 1)
    BY DEF WorkerStep, EndParked, LookAtConsumer, Claim, ClaimFails, NoWork, Record, Requeue,
           RequeueFails, GiveUp
  <2>2. lost' \subseteq Entries
    BY <1>2 DEF WorkerStep, EndParked, LookAtConsumer, Claim, ClaimFails, NoWork, Record, Requeue,
           RequeueFails, GiveUp, RestType, Of
  <2>. QED BY <1>1, <2>1, <2>2 DEF RestType
<1>7. PoolType'
  <2>1. worker' \in [Requests -> [Workers -> WorkerPlaces]] BY <1>2 DEF PoolType
  <2>2. drained' \in [Requests -> BOOLEAN]
    BY DEF WorkerStep, EndParked, LookAtConsumer, Claim, ClaimFails, NoWork, Record, Requeue,
           RequeueFails, GiveUp, PoolType
  <2>3. \/ /\ \E p \in WorkerPlaces \ {"probing"} : worker' = [worker EXCEPT ![r][i] = p]
           /\ holds' = [holds EXCEPT ![r][i] = Nothing]
        \/ /\ \E p \in WorkerPlaces \ {"probing"} : worker' = [worker EXCEPT ![r][i] = p]
           /\ holds[r][i] = Nothing /\ holds' = holds
        \/ /\ worker' = [worker EXCEPT ![r][i] = "probing"]
           /\ \E e \in Entries : holds' = [holds EXCEPT ![r][i] = e]
    BY DEF WorkerStep, EndParked, LookAtConsumer, Claim, ClaimFails, NoWork, Record, Requeue,
           RequeueFails, GiveUp, PoolType, WorkerPlaces, Of
  <2>4. holds' \in [Requests -> [Workers -> Entries \cup {Nothing}]]
    BY <2>3 DEF PoolType
  <2>5. ASSUME NEW q \in Requests, NEW j \in Workers
        PROVE  holds'[q][j] # Nothing <=> worker'[q][j] = "probing"
    <3>1. CASE q = r /\ j = i BY <2>3, <3>1, EntryTypes DEF PoolType
    <3>2. CASE ~(q = r /\ j = i)
      <4>1. worker'[q][j] = worker[q][j] /\ holds'[q][j] = holds[q][j]
        BY <2>3, <3>2 DEF PoolType
      <4>. QED BY <4>1 DEF PoolType
    <3>. QED BY <3>1, <3>2
  <2>. QED BY <1>1, <2>1, <2>2, <2>4, <2>5 DEF PoolType
<1>. QED BY <1>3, <1>4, <1>5, <1>6, <1>7

LEMMA EndType ==
  ASSUME NEW r \in Requests, TypeInv, EndStep(r) \/ Tick(r) \/ Disconnect(r) PROVE TypeInv'
<1> USE PlaceTypes DEF TypeInv, tables, prep, pool, rest, Go, Fault, NoFault
<1>1. /\ PrepType' /\ Filling'
  BY DEF EndStep, Finish, DeleteScanEntries, DeleteScanRow, DeleteFails, Tick, Disconnect,
         PrepType, Filling
<1>2. TablesType'
  BY DEF EndStep, Finish, DeleteScanEntries, DeleteScanRow, DeleteFails, Tick, Disconnect,
         TablesType, DeleteEntries
<1>3. RestType'
  BY DEF EndStep, Finish, DeleteScanEntries, DeleteScanRow, DeleteFails, Tick, Disconnect, RestType
<1>4. PoolType'
  <2>1. UNCHANGED <<worker, holds, drained>>
    BY DEF EndStep, Finish, DeleteScanEntries, DeleteScanRow, DeleteFails, Tick, Disconnect
  <2>2. target' \in [Requests -> Nat]
    <3>1. CASE Tick(r)
      <4>1. PICK n \in 1 .. Max(Workers) + 1 : target' = [target EXCEPT ![r] = n]
        BY <3>1 DEF Tick
      <4>2. n \in Nat BY <4>1, LargestIndex
      <4>. QED BY <4>1, <4>2 DEF PoolType
    <3>2. CASE ~Tick(r)
      BY <3>2 DEF EndStep, Finish, DeleteScanEntries, DeleteScanRow, DeleteFails, Disconnect, PoolType
    <3>. QED BY <3>1, <3>2
  <2>. QED BY <2>1, <2>2 DEF PoolType
<1>5. Quiet'
  <2>1. UNCHANGED worker
    BY DEF EndStep, Finish, DeleteScanEntries, DeleteScanRow, DeleteFails, Tick, Disconnect
  <2>2. \/ UNCHANGED at
        \/ /\ \A i \in Workers : worker[r][i] \in {"none", "exited"}
           /\ at[r] \notin {"new"} \cup Preparing
           /\ \E place \in {"entries", "rows", "over"} : at' = [at EXCEPT ![r] = place]
    BY DEF EndStep, Finish, DeleteScanEntries, DeleteScanRow, DeleteFails, Tick, Disconnect,
           Drained, Quiet, Preparing
  <2>3. CASE UNCHANGED at BY <2>1, <2>3 DEF Quiet
  <2>4. ASSUME \A i \in Workers : worker[r][i] \in {"none", "exited"},
               NEW place \in {"entries", "rows", "over"}, at' = [at EXCEPT ![r] = place]
        PROVE  Quiet'
    BY <2>1, <2>4 DEF Quiet, Preparing, PrepType
  <2>. QED BY <2>2, <2>3, <2>4
<1>. QED BY <1>1, <1>2, <1>3, <1>4, <1>5

LEMMA CrashType == ASSUME TypeInv, Crash PROVE TypeInv'
<1> USE PlaceTypes DEF TypeInv, tables, prep, pool, rest, Crash
<1>1. TablesType' BY DEF TablesType
<1>2. PrepType' BY DEF PrepType
<1>3. Filling' BY DEF Filling, PrepType
<1>4. PoolType' BY DEF PoolType, WorkerPlaces
<1>5. Quiet' BY DEF Quiet
<1>6. RestType' BY DEF RestType, Held, PoolType
<1>. QED BY <1>1, <1>2, <1>3, <1>4, <1>5, <1>6

LEMMA SweepType ==
  ASSUME NEW x \in Requests, TypeInv, Age(x) \/ SweepEntries(x) \/ SweepRow(x) PROVE TypeInv'
<1> USE DEF TypeInv, tables, prep, pool, rest
<1>1. TablesType' BY DEF Age, SweepEntries, SweepRow, DeleteEntries, TablesType
<1>2. PrepType' /\ Filling' BY DEF Age, SweepEntries, SweepRow, PrepType, Filling
<1>3. PoolType' /\ Quiet' BY DEF Age, SweepEntries, SweepRow, PoolType, Quiet
<1>4. RestType' BY DEF Age, SweepEntries, SweepRow, RestType
<1>. QED BY <1>1, <1>2, <1>3, <1>4

LEMMA NextType == TypeInv /\ [Next]_vars => TypeInv'
<1> SUFFICES ASSUME TypeInv, [Next]_vars PROVE TypeInv'
  OBVIOUS
<1>1. CASE UNCHANGED vars
  BY <1>1 DEF vars, tables, prep, pool, rest, TypeInv, TablesType, PrepType, Filling, PoolType,
              Quiet, RestType
<1>2. CASE Next BY <1>2, PrepareType, WorkerType, EndType, CrashType, SweepType DEF Next
<1>. QED BY <1>1, <1>2

\* Every variable keeps a value of its type, and a worker holds an entry exactly while it
\* works on it, through every failure of the database and every death of the daemon.
THEOREM TypeCorrect == Spec => []TypeOK
<1>. QED BY InitType, NextType, TypeInvTypes, PTL DEF Spec

-----------------------------------------------------------------------------
(* One worker per entry. An entry is inserted once, by the request it belongs to; from   *)
(* then on a worker that has it in hand keeps it "scanning", unless its row is deleted.   *)

Inserted(e) == at[By(e)] \notin {"new", "list", "fill", "fetch"} /\ e[2] \notin todo[By(e)]
HeldIsClaimed ==
  \A r \in Requests, i \in Workers :
    holds[r][i] # Nothing =>
      Inserted(holds[r][i]) /\ entry[holds[r][i]] \in {"scanning", "absent"}
StoredIsInserted == \A e \in Entries : entry[e] # "absent" => Inserted(e)
ClaimInv == StoredIsInserted /\ HeldIsClaimed /\ OneWorkerPerEntry

LEMMA HeldTypes ==
  ASSUME holds' \in [Requests -> [Workers -> Entries \cup {Nothing}]],
         \A r \in Requests, i \in Workers, e \in Entries :
           holds'[r][i] = e => Inserted(e)' /\ entry'[e] \in {"scanning", "absent"}
  PROVE  HeldIsClaimed'
<1>1. ASSUME NEW r \in Requests, NEW i \in Workers, (holds[r][i] # Nothing)'
      PROVE  (Inserted(holds[r][i]) /\ entry[holds[r][i]] \in {"scanning", "absent"})'
  <2>1. holds'[r][i] \in Entries BY <1>1
  <2>. QED BY <2>1 DEF Inserted
<1>. QED BY <1>1 DEF HeldIsClaimed

\* A step that claims nothing: no entry in hand changes, but that it may be deleted.
LEMMA ClaimStays ==
  ASSUME TypeInv, TypeInv', ClaimInv,
         \A e \in Entries : Inserted(e) => Inserted(e)',
         \A r \in Requests, i \in Workers : holds'[r][i] \in {holds[r][i], Nothing},
         \A e \in Entries :
           \/ entry'[e] \in {entry[e], "absent"}
           \/ Inserted(e)' /\ \A r \in Requests, i \in Workers : holds'[r][i] # e
  PROVE  ClaimInv'
<1>0. holds' \in [Requests -> [Workers -> Entries \cup {Nothing}]] BY DEF TypeInv, PoolType
<1>1. StoredIsInserted' BY DEF ClaimInv, StoredIsInserted
<1>2. HeldIsClaimed'
  <2> SUFFICES ASSUME NEW r \in Requests, NEW i \in Workers, NEW e \in Entries, holds'[r][i] = e
               PROVE  Inserted(e)' /\ entry'[e] \in {"scanning", "absent"}
    BY <1>0, HeldTypes
  <2>1. holds[r][i] = e /\ e # Nothing BY EntryTypes
  <2>2. Inserted(e) /\ entry[e] \in {"scanning", "absent"} BY <2>1 DEF ClaimInv, HeldIsClaimed
  <2>. QED BY <2>1, <2>2
<1>3. OneWorkerPerEntry'
  <2>1. ASSUME NEW r \in Requests, NEW s \in Requests, NEW i \in Workers, NEW j \in Workers,
               holds'[r][i] = holds'[s][j], holds'[r][i] # Nothing
        PROVE  r = s /\ i = j
    <3>1. holds'[r][i] = holds[r][i] /\ holds'[s][j] = holds[s][j] BY <2>1
    <3>2. holds[r][i] = holds[s][j] /\ holds[r][i] # Nothing BY ONLY <2>1, <3>1
    <3>3. OneWorkerPerEntry BY DEF ClaimInv
    <3>. QED BY ONLY <3>2, <3>3 DEF OneWorkerPerEntry
  <2>2. OneWorkerPerEntry' <=>
          \A r, s \in Requests, i, j \in Workers :
            holds'[r][i] = holds'[s][j] /\ holds'[r][i] # Nothing => r = s /\ i = j
    BY ONLY DEF OneWorkerPerEntry
  <2>. QED BY ONLY <2>1, <2>2
<1>. QED BY <1>1, <1>2, <1>3 DEF ClaimInv

\* What a step of prepare_scan inserts was never inserted before.
LEMMA PrepareClaim ==
  ASSUME NEW r \in Requests, TypeInv, TypeInv', ClaimInv, FindList(r) \/ PrepareStep(r)
  PROVE  ClaimInv'
<1> USE DEF tables, prep, pool, rest, Go, Prepares
<1>0. at \in [Requests -> Places] /\ todo \in [Requests -> SUBSET Words] BY DEF TypeInv, PrepType
<1>1. \A q \in Requests, i \in Workers : holds'[q][i] \in {holds[q][i], Nothing}
  BY DEF PrepareStep, FindList, CreateList, FillList, FetchWords, FindScan, CreateScan,
         FreshStatus, FreshClear, FreshRead, Populate, SetPopulated, ResetHalted,
         PrepareFails, Start, NobodyToAck, NoProber
<1>2. ASSUME NEW e \in Entries, Inserted(e) PROVE Inserted(e)'
  <2>1. By(e) \in Requests BY EntryTypes
  <2>2. CASE By(e) # r
    <3>1. at'[By(e)] = at[By(e)] /\ todo'[By(e)] = todo[By(e)]
      BY <1>0, <2>1, <2>2
      DEF PrepareStep, FindList, CreateList, FillList, FetchWords, FindScan, CreateScan,
          FreshStatus, FreshClear, FreshRead, Populate, SetPopulated, ResetHalted,
          PrepareFails, Start, NobodyToAck, NoProber
    <3>. QED BY <1>2, <3>1 DEF Inserted
  <2>3. CASE By(e) = r
    <3>1. at[r] \notin {"new", "list", "fill", "fetch"} /\ e[2] \notin todo[r]
      BY <1>2, <2>3 DEF Inserted
    <3>2. at'[r] \notin {"new", "list", "fill", "fetch"}
      BY <1>0, <3>1
      DEF PrepareStep, FindList, CreateList, FillList, FetchWords, FindScan, CreateScan,
          FreshStatus, FreshClear, FreshRead, Populate, SetPopulated, ResetHalted,
          PrepareFails, Start, NobodyToAck, NoProber
    <3>3. todo'[r] \subseteq todo[r]
      BY <1>0, <3>1
      DEF PrepareStep, FindList, CreateList, FillList, FetchWords, FindScan, CreateScan,
          FreshStatus, FreshClear, FreshRead, Populate, SetPopulated, ResetHalted,
          PrepareFails, Start, NobodyToAck, NoProber
    <3>. QED BY <2>3, <3>1, <3>2, <3>3 DEF Inserted
  <2>. QED BY <2>2, <2>3
<1>3. ASSUME NEW e \in Entries
      PROVE  \/ entry'[e] \in {entry[e], "absent"}
             \/ Inserted(e)' /\ \A q \in Requests, i \in Workers : holds'[q][i] # e
  <2>0. entry \in [Entries -> {"absent", "queued", "scanning", "recorded"}]
    BY DEF TypeInv, TablesType
  <2>1. CASE ~Populate(r)
    BY <2>0, <2>1
    DEF PrepareStep, FindList, CreateList, FillList, FetchWords, FindScan, CreateScan,
        FreshStatus, FreshClear, FreshRead, SetPopulated, ResetHalted, Halted, DeleteEntries,
        PrepareFails, Start, NobodyToAck, NoProber
  <2>2. CASE Populate(r) /\ todo[r] = {} BY <2>0, <2>2 DEF Populate
  <2>3. CASE Populate(r) /\ todo[r] # {}
    <3> DEFINE w == Min(todo[r])
    <3>1. w \in todo[r] /\ w \in Words BY <1>0, <2>3, SmallestWord
    <3>2. /\ entry' = [entry EXCEPT ![<<r, w>>] = "queued"]
          /\ todo' = [todo EXCEPT ![r] = @ \ {w}]
          /\ at[r] = "populate" /\ at'[r] \in {"populate", "populated"}
          /\ UNCHANGED holds
      BY <1>0, <2>3 DEF Populate
    <3>. HIDE DEF w
    <3>3. CASE e # <<r, w>> BY <2>0, <3>2, <3>3
    <3>4. CASE e = <<r, w>>
      <4>1. By(e) = r /\ e[2] = w BY <3>1, <3>4, EntryTypes
      <4>2. ~Inserted(e) BY <3>1, <4>1 DEF Inserted
      <4>3. \A q \in Requests, i \in Workers : holds[q][i] # e
        BY <4>2, EntryTypes DEF ClaimInv, HeldIsClaimed
      <4>4. Inserted(e)' BY <1>0, <3>1, <3>2, <4>1 DEF Inserted
      <4>. QED BY <3>2, <4>3, <4>4
    <3>. QED BY <3>3, <3>4
  <2>. QED BY <2>1, <2>2, <2>3
<1>. HIDE DEF tables, prep, pool, rest, Go, Prepares
<1>. QED BY <1>1, <1>2, <1>3, ClaimStays

\* A worker takes only what is queued, and no entry in hand is.
LEMMA WorkerClaim ==
  ASSUME NEW r \in Requests, NEW i \in Workers, TypeInv, TypeInv', ClaimInv, WorkerStep(r, i)
  PROVE  ClaimInv'
<1> USE DEF Working, Move, Drops
<1>0. /\ entry \in [Entries -> {"absent", "queued", "scanning", "recorded"}]
      /\ holds \in [Requests -> [Workers -> Entries \cup {Nothing}]]
      /\ worker[r][i] = "probing" => holds[r][i] \in Entries
  BY DEF TypeInv, TablesType, PoolType
<1>1. UNCHANGED <<at, todo>>
  BY DEF WorkerStep, EndParked, LookAtConsumer, Claim, ClaimFails, NoWork, Record, Requeue,
         RequeueFails, GiveUp, prep
<1>2. \A e \in Entries : Inserted(e) <=> Inserted(e)' BY <1>1 DEF Inserted
<1>3. CASE Claim(r, i)
  <2>1. PICK e \in Of(row[r]) :
          /\ entry[e] = "queued" /\ entry' = [entry EXCEPT ![e] = "scanning"]
          /\ holds' = [holds EXCEPT ![r][i] = e]
    BY <1>3 DEF Claim
  <2>2. e \in Entries /\ e # Nothing BY <2>1, EntryTypes DEF Of
  <2>3. \A q \in Requests, j \in Workers : holds[q][j] # e
    BY <2>1, <2>2 DEF ClaimInv, HeldIsClaimed
  <2>4. /\ holds'[r][i] = e
        /\ \A q \in Requests, j \in Workers : ~(q = r /\ j = i) => holds'[q][j] = holds[q][j]
    BY <1>0, <2>1
  <2>5. Inserted(e) BY <2>1, <2>2 DEF ClaimInv, StoredIsInserted
  <2>6. StoredIsInserted' BY <1>0, <1>2, <2>1, <2>5 DEF ClaimInv, StoredIsInserted
  <2>7. OneWorkerPerEntry' BY <2>3, <2>4 DEF ClaimInv, OneWorkerPerEntry
  <2>8. HeldIsClaimed'
    <3>0. holds' \in [Requests -> [Workers -> Entries \cup {Nothing}]] BY DEF TypeInv, PoolType
    <3> SUFFICES ASSUME NEW q \in Requests, NEW j \in Workers, NEW f \in Entries, holds'[q][j] = f
                 PROVE  Inserted(f)' /\ entry'[f] \in {"scanning", "absent"}
      BY <3>0, HeldTypes
    <3>1. CASE q = r /\ j = i
      <4>1. f = e BY <2>4, <3>1
      <4>2. Inserted(e)' BY <1>2, <2>2, <2>5
      <4>3. entry'[e] = "scanning" BY <1>0, <2>1, <2>2
      <4>. QED BY <4>1, <4>2, <4>3
    <3>2. CASE ~(q = r /\ j = i)
      <4>1. holds[q][j] = f /\ f # Nothing BY <2>4, <3>2, EntryTypes
      <4>2. f # e BY <2>3, <4>1
      <4>3. Inserted(f) /\ entry[f] \in {"scanning", "absent"}
        BY <4>1 DEF ClaimInv, HeldIsClaimed
      <4>4. entry'[f] = entry[f] BY <1>0, <2>1, <4>2
      <4>5. Inserted(f)' BY <1>2, <4>3
      <4>. QED BY <4>3, <4>4, <4>5
    <3>. QED BY <3>1, <3>2
  <2>. QED BY <2>6, <2>7, <2>8 DEF ClaimInv
<1>4. CASE ~Claim(r, i)
  <2>1. \A q \in Requests, j \in Workers : holds'[q][j] \in {holds[q][j], Nothing}
    <3>1. holds' = holds \/ holds' = [holds EXCEPT ![r][i] = Nothing]
      BY <1>4 DEF WorkerStep, EndParked, LookAtConsumer, ClaimFails, NoWork, Record, Requeue,
                  RequeueFails, GiveUp
    <3>. QED BY <1>0, <3>1
  <2>2. ASSUME NEW e \in Entries
        PROVE  \/ entry'[e] \in {entry[e], "absent"}
               \/ Inserted(e)' /\ \A q \in Requests, j \in Workers : holds'[q][j] # e
    <3>1. CASE ClaimFails(r, i)
      <4>1. PICK f \in Of(row[r]) :
              entry[f] = "queued" /\ entry' = [entry EXCEPT ![f] = "scanning"]
        BY <3>1 DEF ClaimFails
      <4>2. UNCHANGED holds BY <3>1 DEF ClaimFails
      <4>3. CASE e # f BY <1>0, <4>1, <4>3
      <4>4. CASE e = f
        <5>1. \A q \in Requests, j \in Workers : holds[q][j] # e
          BY <4>1, <4>4, EntryTypes DEF ClaimInv, HeldIsClaimed
        <5>2. Inserted(e) BY <4>1, <4>4 DEF ClaimInv, StoredIsInserted
        <5>. QED BY <1>2, <4>2, <5>1, <5>2
      <4>. QED BY <4>3, <4>4
    <3>2. CASE Record(r, i) \/ Requeue(r, i)
      <4> DEFINE f == holds[r][i]
      <4>1. f \in Entries /\ holds' = [holds EXCEPT ![r][i] = Nothing]
        BY <1>0, <3>2 DEF Record, Requeue
      <4>2. entry' = entry \/ \E s \in {"recorded", "queued"} : entry' = [entry EXCEPT ![f] = s]
        BY <3>2 DEF Record, Requeue
      <4>3. CASE e # f BY <1>0, <4>1, <4>2, <4>3
      <4>4. CASE e = f
        <5>1. Inserted(e) BY <4>1, <4>4, EntryTypes DEF ClaimInv, HeldIsClaimed
        <5>2. holds'[r][i] = Nothing /\ e # Nothing BY <1>0, <4>1, EntryTypes
        <5>3. \A q \in Requests, j \in Workers :
                ~(q = r /\ j = i) => holds'[q][j] = holds[q][j] /\ holds[q][j] # e
          BY <1>0, <4>1, <4>4, <5>2 DEF ClaimInv, OneWorkerPerEntry
        <5>. QED BY <1>2, <5>1, <5>2, <5>3
      <4>. QED BY <4>3, <4>4
    <3>3. CASE ~(ClaimFails(r, i) \/ Record(r, i) \/ Requeue(r, i))
      BY <1>4, <3>3 DEF WorkerStep, EndParked, LookAtConsumer, NoWork, RequeueFails, GiveUp
    <3>. QED BY <3>1, <3>2, <3>3
  <2>. QED BY <1>2, <2>1, <2>2, ClaimStays
<1>. QED BY <1>3, <1>4

\* The end of a scan, the retention and a crash insert nothing and hand nothing out.
LEMMA OtherClaim ==
  ASSUME TypeInv, TypeInv', ClaimInv,
         \/ \E r \in Requests : EndStep(r) \/ Tick(r) \/ Disconnect(r)
         \/ Crash
         \/ \E x \in Requests : Age(x) \/ SweepEntries(x) \/ SweepRow(x)
         \/ UNCHANGED vars
  PROVE  ClaimInv'
<1> USE DEF vars, tables, prep, pool, rest, Go
<1>0. /\ at \in [Requests -> Places]
      /\ entry \in [Entries -> {"absent", "queued", "scanning", "recorded"}]
  BY DEF TypeInv, PrepType, TablesType
<1>1. ASSUME NEW e \in Entries, Inserted(e) PROVE Inserted(e)'
  <2>1. By(e) \in Requests BY EntryTypes
  <2>2. UNCHANGED todo
    BY DEF EndStep, Finish, DeleteScanEntries, DeleteScanRow, DeleteFails, Tick, Disconnect, Crash,
           Age, SweepEntries, SweepRow
  <2>3. at'[By(e)] \in {at[By(e)], "entries", "rows", "over", "dead"}
    BY <1>0, <2>1
    DEF EndStep, Finish, DeleteScanEntries, DeleteScanRow, DeleteFails, Tick, Disconnect, Crash,
        Age, SweepEntries, SweepRow
  <2>. QED BY <1>1, <2>2, <2>3 DEF Inserted
<1>2. \A q \in Requests, i \in Workers : holds'[q][i] \in {holds[q][i], Nothing}
  BY DEF EndStep, Finish, DeleteScanEntries, DeleteScanRow, DeleteFails, Tick, Disconnect, Crash,
         Age, SweepEntries, SweepRow
<1>3. \A e \in Entries : entry'[e] \in {entry[e], "absent"}
  BY <1>0
  DEF EndStep, Finish, DeleteScanEntries, DeleteScanRow, DeleteFails, Tick, Disconnect, Crash,
      Age, SweepEntries, SweepRow, DeleteEntries
<1>. HIDE DEF vars, tables, prep, pool, rest, Go
<1>. QED BY <1>1, <1>2, <1>3, ClaimStays

LEMMA InitClaim == Init => ClaimInv
BY DEF Init, ClaimInv, StoredIsInserted, HeldIsClaimed, OneWorkerPerEntry

LEMMA NextClaim == TypeInv /\ TypeInv' /\ ClaimInv /\ [Next]_vars => ClaimInv'
BY PrepareClaim, WorkerClaim, OtherClaim DEF Next

\* A claimed entry is probed by one worker at a time, whatever else runs on its row.
THEOREM OneAtATime == Spec => []OneWorkerPerEntry
<1>1. ClaimInv => OneWorkerPerEntry BY DEF ClaimInv
<1>. QED BY InitType, NextType, InitClaim, NextClaim, <1>1, PTL DEF Spec

-----------------------------------------------------------------------------
(* A stream is exhausted. Its row and entries are its own: nobody else finds the row,     *)
(* deletes or claims its entries, and the retention leaves them alone until it is over.    *)

Early == {"new", "list", "fill", "fetch", "find", "create"}
Ended == {"over", "dead"}
RowsFound ==
  \A q \in Requests :
    /\ row[q] # Nobody => row[q] = q \/ (~Streamed(q) /\ ~Streamed(row[q]))
    /\ at[q] \in Early => status[q] = "absent"
    /\ at[q] \notin Early \cup Ended => row[q] # Nobody
    /\ Streamed(q) /\ at[q] \notin Early \cup Ended => row[q] = q
    /\ Streamed(q) => at[q] \notin {"fresh", "clear", "reread"}
OldIsEnded == \A x \in old : at[x] \in Ended
HeldByItsStream ==
  \A q \in Requests, i \in Workers, e \in Entries :
    holds[q][i] = e /\ Streamed(By(e)) => By(e) = q
RowInv == RowsFound /\ OldIsEnded /\ HeldByItsStream

Tried(r, w) == entry[<<r, w>>] = "recorded" \/ <<r, w>> \in lost
InHand(r, w) == entry[<<r, w>>] = "scanning" /\ \E i \in Workers : holds[r][i] = <<r, w>>
Accounted(r) ==
  \A w \in have[r] : Tried(r, w) \/ entry[<<r, w>>] = "queued" \/ InHand(r, w)
NothingQueued(r) == \A w \in have[r] : entry[<<r, w>>] = "queued" => <<r, w>> \in lost

\* What a stream has done of its wordlist at each of its places.
BeforeRun(r) ==
  /\ at[r] \in {"find", "create"} => have[r] \subseteq todo[r]
  /\ at[r] \in {"populate", "populated", "reset", "start"} =>
       \A w \in have[r] : w \in todo[r] \/ entry[<<r, w>>] = "queued"
  /\ at[r] \in {"populated", "reset", "start"} => todo[r] = {}
  /\ at[r] \in {"new"} \cup Preparing => ~drained[r]
InRun(r) ==
  at[r] = "running" =>
    /\ Accounted(r)
    /\ drained[r] \/ (Drained(r) /\ ~closed[r]) => NothingQueued(r)
    /\ kind[r] # Adaptive => \A i \in Workers : i < target[r]
AfterRun(r) ==
  at[r] = "entries" /\ outcome[r] = "done" /\ ~closed[r] => \A w \in have[r] : Tried(r, w)
StreamOf(r) ==
  /\ drained[r] => kind[r] = Adaptive
  /\ Streamed(r) => BeforeRun(r) /\ InRun(r) /\ AfterRun(r)
StreamInv == \A r \in Requests : StreamOf(r)

LEMMA PlacesApart ==
  /\ Places = Early \cup {"fresh", "clear", "reread", "populate", "populated", "reset", "start",
                          "running", "entries", "rows"} \cup Ended
  /\ Early \cap Ended = {}
BY DEF Places, Preparing, Early, Ended

LEMMA PrepareRows ==
  ASSUME NEW r \in Requests, TypeInv, RowInv, FindList(r) \/ PrepareStep(r) PROVE RowInv'
<1> USE DEF Go, Prepares
<1>0. /\ at \in [Requests -> Places] /\ row \in [Requests -> Requests \cup {Nobody}]
      /\ status \in [Requests -> {"absent", "created", "populated"}]
      /\ old \subseteq Requests
      /\ RowsFound /\ OldIsEnded /\ HeldByItsStream
  BY DEF TypeInv, PrepType, TablesType, RestType, RowInv
<1>1. UNCHANGED <<kind, old, holds>>
  BY DEF PrepareStep, FindList, CreateList, FillList, FetchWords, FindScan, CreateScan,
         FreshStatus, FreshClear, FreshRead, Populate, SetPopulated, ResetHalted,
         PrepareFails, Start, NobodyToAck, NoProber, prep, rest, pool
<1>2. HeldByItsStream' BY <1>0, <1>1 DEF HeldByItsStream, Streamed
<1>3. OldIsEnded'
  <2>1. at[r] \notin Ended
    BY DEF PrepareStep, FindList, CreateList, FillList, FetchWords, FindScan, CreateScan,
           FreshStatus, FreshClear, FreshRead, Populate, SetPopulated, ResetHalted,
           PrepareFails, Start, NobodyToAck, NoProber, Ended, Preparing
  <2>2. \A q \in Requests : q # r => at'[q] = at[q]
    BY <1>0
    DEF PrepareStep, FindList, CreateList, FillList, FetchWords, FindScan, CreateScan,
        FreshStatus, FreshClear, FreshRead, Populate, SetPopulated, ResetHalted,
        PrepareFails, Start, NobodyToAck, NoProber
  <2>3. \A x \in old : x # r BY <1>0, <2>1 DEF OldIsEnded
  <2>. QED BY <1>0, <1>1, <2>2, <2>3 DEF OldIsEnded
<1>4. ASSUME NEW q \in Requests, q # r
      PROVE  /\ row'[q] = row[q] /\ at'[q] = at[q]
             /\ status[q] = "absent" => status'[q] = "absent"
  BY <1>0, <1>4
  DEF PrepareStep, FindList, CreateList, FillList, FetchWords, FindScan, CreateScan,
      FreshStatus, FreshClear, FreshRead, Populate, SetPopulated, ResetHalted,
      PrepareFails, Start, NobodyToAck, NoProber, tables, prep, Exists
<1>5. /\ row'[r] # Nobody => row'[r] = r \/ (~Streamed(r) /\ ~Streamed(row'[r]))
      /\ at'[r] \in Early => status'[r] = "absent"
      /\ at'[r] \notin Early \cup Ended => row'[r] # Nobody
      /\ Streamed(r) /\ at'[r] \notin Early \cup Ended => row'[r] = r
      /\ Streamed(r) => at'[r] \notin {"fresh", "clear", "reread"}
  <2>0. /\ row[r] # Nobody => row[r] = r \/ (~Streamed(r) /\ ~Streamed(row[r]))
        /\ at[r] \in Early => status[r] = "absent"
        /\ at[r] \notin Early \cup Ended => row[r] # Nobody
        /\ Streamed(r) /\ at[r] \notin Early \cup Ended => row[r] = r
        /\ Streamed(r) => at[r] \notin {"fresh", "clear", "reread"}
    BY <1>0 DEF RowsFound
  <2>1. CASE FindScan(r)
    <3> DEFINE found == {x \in Requests : Exists(x) /\ SameHash(r, x)}
    <3>1. UNCHANGED status /\ at[r] = "find" BY <2>1 DEF FindScan, tables
    <3>2. ~Exists(r) BY <2>0, <3>1 DEF Exists, Early
    <3>3. CASE Go(r, "create") /\ UNCHANGED row BY <1>0, <2>0, <3>1, <3>3 DEF Early, Ended
    <3>4. CASE \E x \in found : /\ row' = [row EXCEPT ![r] = x]
                                 /\ \E place \in {"fresh", "populate", "reset"} : Go(r, place)
      <4>1. PICK x \in found : row' = [row EXCEPT ![r] = x] BY <3>4
      <4>2. row'[r] = x /\ x # r /\ x # Nobody BY <1>0, <3>2, <4>1
      <4>3. ~Streamed(r) /\ ~Streamed(x) BY <4>1, <4>2 DEF SameHash
      <4>4. at'[r] \in {"fresh", "populate", "reset"} BY <1>0, <3>4
      <4>. QED BY <4>2, <4>3, <4>4 DEF Early, Ended
    <3>. QED BY <2>1, <3>3, <3>4 DEF FindScan
  <2>2. CASE CreateScan(r)
    <3>1. row'[r] = r /\ at'[r] = "populate" /\ r # Nobody BY <1>0, <2>2 DEF CreateScan
    <3>. QED BY <3>1 DEF Early, Ended
  <2>3. CASE ~FindScan(r) /\ ~CreateScan(r)
    <3>1. UNCHANGED row
      BY <2>3
      DEF PrepareStep, FindList, CreateList, FillList, FetchWords, FreshStatus, FreshClear,
          FreshRead, Populate, SetPopulated, ResetHalted, PrepareFails, Start, NobodyToAck,
          NoProber, prep
    <3>2. \/ at[r] \in Early /\ at'[r] \in Early /\ status' = status
          \/ at[r] \notin Early \cup Ended /\ at'[r] \notin Early \cup {"fresh"}
             /\ (at[r] \notin {"fresh", "clear", "reread"} => at'[r] \notin {"fresh", "clear", "reread"})
          \/ at'[r] \in Ended
      BY <1>0, <2>3
      DEF PrepareStep, FindList, CreateList, FillList, FetchWords, FreshStatus, FreshClear,
          FreshRead, Populate, SetPopulated, ResetHalted, PrepareFails, Start, NobodyToAck,
          NoProber, tables, Early, Ended
    <3>3. {"fresh", "clear", "reread"} \cap (Early \cup Ended) = {} BY DEF Early, Ended
    <3>4. row'[r] = row[r] /\ Early \cap Ended = {} BY <3>1, PlacesApart
    <3>5. CASE at[r] \in Early /\ at'[r] \in Early /\ status' = status
      BY <2>0, <3>3, <3>4, <3>5
    <3>6. CASE at[r] \notin Early \cup Ended /\ at'[r] \notin Early \cup {"fresh"}
               /\ (at[r] \notin {"fresh", "clear", "reread"} =>
                    at'[r] \notin {"fresh", "clear", "reread"})
      BY <2>0, <3>4, <3>6
    <3>7. CASE at'[r] \in Ended
      <4>1. at'[r] \notin Early /\ at'[r] \notin {"fresh", "clear", "reread"}
        BY <3>3, <3>4, <3>7
      <4>. QED BY <2>0, <3>4, <3>7, <4>1
    <3>. QED BY <3>2, <3>5, <3>6, <3>7
  <2>. QED BY <2>1, <2>2, <2>3
<1>6. RowsFound'
  <2>1. \A q : Streamed(q)' <=> Streamed(q) BY <1>1 DEF Streamed
  <2>2. ASSUME NEW q \in Requests
        PROVE  /\ row'[q] # Nobody => row'[q] = q \/ (~Streamed(q) /\ ~Streamed(row'[q]))
               /\ at'[q] \in Early => status'[q] = "absent"
               /\ at'[q] \notin Early \cup Ended => row'[q] # Nobody
               /\ Streamed(q) /\ at'[q] \notin Early \cup Ended => row'[q] = q
               /\ Streamed(q) => at'[q] \notin {"fresh", "clear", "reread"}
    <3>1. CASE q = r BY <1>5, <3>1
    <3>2. CASE q # r BY <1>0, <1>4, <3>2 DEF RowsFound
    <3>. QED BY <3>1, <3>2
  <2>. QED BY <1>1, <2>2 DEF RowsFound, Streamed
<1>. QED BY <1>2, <1>3, <1>6 DEF RowInv

LEMMA WorkerRows ==
  ASSUME NEW r \in Requests, NEW i \in Workers, TypeInv, RowInv, WorkerStep(r, i) PROVE RowInv'
<1>0. /\ at \in [Requests -> Places] /\ row \in [Requests -> Requests \cup {Nobody}]
      /\ holds \in [Requests -> [Workers -> Entries \cup {Nothing}]]
      /\ RowsFound /\ OldIsEnded /\ HeldByItsStream /\ Quiet
  BY DEF TypeInv, PrepType, TablesType, PoolType, RowInv
<1>1. UNCHANGED <<kind, old, row, at, status>>
  BY DEF WorkerStep, EndParked, LookAtConsumer, Claim, ClaimFails, NoWork, Record, Requeue,
         RequeueFails, GiveUp, Working, prep
<1>2. RowsFound' /\ OldIsEnded' BY <1>0, <1>1 DEF RowsFound, OldIsEnded, Streamed
<1>3. HeldByItsStream'
  <2>1. CASE Claim(r, i)
    <3>1. PICK e \in Of(row[r]) : holds' = [holds EXCEPT ![r][i] = e] BY <2>1 DEF Claim
    <3>2. e \in Entries /\ By(e) \in Requests /\ row[By(e)] = row[r] BY <3>1, EntryTypes DEF Of
    <3>3. at[r] = "running" BY <1>0, <2>1 DEF Quiet, Claim
    <3>4. row[r] # Nobody BY <1>0, <3>3 DEF RowsFound, Early, Ended
    <3>5. Streamed(By(e)) => By(e) = r
      <4> SUFFICES ASSUME Streamed(By(e)) PROVE By(e) = r
        OBVIOUS
      <4>1. row[By(e)] = By(e) BY <1>0, <3>2, <3>4 DEF RowsFound
      <4>2. row[r] = By(e) BY <3>2, <4>1
      <4>. QED BY <1>0, <3>4, <4>2 DEF RowsFound
    <3>6. ASSUME NEW q \in Requests, NEW j \in Workers, NEW f \in Entries,
                 holds'[q][j] = f, Streamed(By(f))
          PROVE  By(f) = q
      <4>1. CASE q = r /\ j = i BY <1>0, <3>1, <3>5, <3>6, <4>1
      <4>2. CASE ~(q = r /\ j = i)
        <5>1. holds[q][j] = f BY <1>0, <3>1, <3>6, <4>2
        <5>. QED BY <1>0, <3>6, <5>1 DEF HeldByItsStream
      <4>. QED BY <4>1, <4>2
    <3>. QED BY <1>1, <3>6 DEF HeldByItsStream, Streamed
  <2>2. CASE ~Claim(r, i)
    <3>1. holds' = holds \/ holds' = [holds EXCEPT ![r][i] = Nothing]
      BY <2>2 DEF WorkerStep, EndParked, LookAtConsumer, ClaimFails, NoWork, Record, Requeue,
                  RequeueFails, GiveUp, Drops
    <3>2. \A q \in Requests, j \in Workers, f \in Entries : holds'[q][j] = f => holds[q][j] = f
      BY <1>0, <3>1, EntryTypes
    <3>. QED BY <1>0, <1>1, <3>2 DEF HeldByItsStream, Streamed
  <2>. QED BY <2>1, <2>2
<1>. QED BY <1>2, <1>3 DEF RowInv

LEMMA OtherRows ==
  ASSUME TypeInv, RowInv,
         \/ \E r \in Requests : EndStep(r) \/ Tick(r) \/ Disconnect(r)
         \/ Crash
         \/ \E x \in Requests : Age(x) \/ SweepEntries(x) \/ SweepRow(x)
         \/ UNCHANGED vars
  PROVE  RowInv'
<1> USE DEF Go
<1>0. /\ at \in [Requests -> Places] /\ row \in [Requests -> Requests \cup {Nobody}]
      /\ status \in [Requests -> {"absent", "created", "populated"}] /\ old \subseteq Requests
      /\ RowsFound /\ OldIsEnded /\ HeldByItsStream
  BY DEF TypeInv, PrepType, TablesType, RestType, RowInv
<1>1. UNCHANGED <<kind, row>>
  BY DEF EndStep, Finish, DeleteScanEntries, DeleteScanRow, DeleteFails, Tick, Disconnect, Crash,
         Age, SweepEntries, SweepRow, vars, prep
<1>2. \A q \in Requests : status'[q] \in {status[q], "absent"}
  BY <1>0 DEF EndStep, Finish, DeleteScanEntries, DeleteScanRow, DeleteFails, Tick, Disconnect,
              Crash, Age, SweepEntries, SweepRow, vars, tables
<1>3. \A q \in Requests :
        \/ at'[q] = at[q]
        \/ at[q] \notin Early \cup Ended /\ at'[q] \in {"entries", "rows", "over"}
        \/ at'[q] = "dead"
  BY <1>0 DEF EndStep, Finish, DeleteScanEntries, DeleteScanRow, DeleteFails, Tick, Disconnect,
              Crash, Age, SweepEntries, SweepRow, vars, Early, Ended
<1>4. RowsFound' BY <1>0, <1>1, <1>2, <1>3 DEF RowsFound, Streamed, Early, Ended
<1>5. OldIsEnded'
  <2>1. \A x \in old' : x \in old \/ at'[x] \in Ended
    BY DEF EndStep, Finish, DeleteScanEntries, DeleteScanRow, DeleteFails, Tick, Disconnect,
           Crash, Age, SweepEntries, SweepRow, vars, rest, Ended
  <2>. QED BY <1>0, <1>3, <2>1 DEF OldIsEnded, Ended
<1>6. HeldByItsStream'
  <2>1. \A q \in Requests, i \in Workers : holds'[q][i] \in {holds[q][i], Nothing}
    BY DEF EndStep, Finish, DeleteScanEntries, DeleteScanRow, DeleteFails, Tick, Disconnect, Crash,
           Age, SweepEntries, SweepRow, vars, pool
  <2>2. \A q \in Requests, i \in Workers, e \in Entries : holds'[q][i] = e => holds[q][i] = e
    BY <2>1, EntryTypes
  <2>. QED BY <1>0, <1>1, <2>2 DEF HeldByItsStream, Streamed
<1>. QED BY <1>4, <1>5, <1>6 DEF RowInv

LEMMA NextRows == TypeInv /\ RowInv /\ [Next]_vars => RowInv'
BY PrepareRows, WorkerRows, OtherRows DEF Next

Live == {"populate", "populated", "reset", "start", "running", "entries"}

LEMMA StreamFrame ==
  ASSUME NEW r \in Requests, StreamOf(r), have[r] \subseteq Words, lost \subseteq lost',
         kind'[r] = kind[r], at'[r] = at[r], have'[r] = have[r], todo'[r] = todo[r],
         outcome'[r] = outcome[r], closed'[r] = closed[r], worker'[r] = worker[r],
         holds'[r] = holds[r], target'[r] = target[r], drained'[r] = drained[r],
         \A w \in Words : Streamed(r) /\ at[r] \in Live => entry'[<<r, w>>] = entry[<<r, w>>]
  PROVE  StreamOf(r)'
<1>1. Streamed(r)' <=> Streamed(r) BY DEF Streamed
<1>2. drained'[r] => kind'[r] = Adaptive BY DEF StreamOf
<1>3. ASSUME Streamed(r) PROVE BeforeRun(r)' /\ InRun(r)' /\ AfterRun(r)'
  <2>0. BeforeRun(r) /\ InRun(r) /\ AfterRun(r) BY <1>3 DEF StreamOf
  <2>1. ASSUME at[r] \in Live, NEW w \in have[r]
        PROVE  /\ entry'[<<r, w>>] = entry[<<r, w>>]
               /\ Tried(r, w) => Tried(r, w)'
               /\ InHand(r, w) => InHand(r, w)'
    <3>1. entry'[<<r, w>>] = entry[<<r, w>>] BY <1>3, <2>1
    <3>. QED BY <3>1 DEF Tried, InHand
  <2>2. BeforeRun(r)' BY <2>0, <2>1 DEF BeforeRun, Live, Preparing
  <2>3. AfterRun(r)' BY <2>0, <2>1 DEF AfterRun, Live
  <2>4. InRun(r)'
    <3> SUFFICES ASSUME at[r] = "running"
                 PROVE  /\ Accounted(r)'
                        /\ drained[r] \/ (Drained(r) /\ ~closed[r]) => NothingQueued(r)'
                        /\ kind[r] # Adaptive => \A i \in Workers : i < target[r]
      BY DEF InRun, Drained
    <3>1. Accounted(r)' BY <2>0, <2>1 DEF InRun, Accounted, Live
    <3>2. NothingQueued(r) => NothingQueued(r)' BY <2>1 DEF NothingQueued, Live
    <3>. QED BY <2>0, <3>1, <3>2 DEF InRun
  <2>. QED BY <2>2, <2>3, <2>4
<1>. QED BY <1>1, <1>2, <1>3 DEF StreamOf

LEMMA StreamEnds ==
  ASSUME NEW r \in Requests, StreamOf(r), kind'[r] = kind[r], drained'[r] = drained[r],
         at'[r] \in Ended \cup {"rows"}
  PROVE  StreamOf(r)'
BY DEF StreamOf, BeforeRun, InRun, AfterRun, Ended, Preparing, Streamed

LEMMA RowIsApart ==
  ASSUME NEW q \in Requests, NEW r \in Requests, q # r, RowsFound, Streamed(r), at[r] \in Live
  PROVE  row[r] = r /\ row[q] # r
<1>1. row[r] = r BY DEF RowsFound, Live, Early, Ended
<1>2. row[q] # r BY DEF RowsFound
<1>. QED BY <1>1, <1>2

\* What another request does leaves a stream alone.
LEMMA OthersStream ==
  ASSUME NEW q \in Requests, NEW r \in Requests, q # r, TypeInv, RowInv, StreamOf(r),
         \/ FindList(q) \/ PrepareStep(q) \/ EndStep(q) \/ Tick(q) \/ Disconnect(q)
         \/ \E i \in Workers : WorkerStep(q, i)
  PROVE  StreamOf(r)'
<1> USE DEF tables, prep, pool, rest, Go, Prepares, Working, Move, Drops
<1>0. /\ entry \in [Entries -> {"absent", "queued", "scanning", "recorded"}]
      /\ at \in [Requests -> Places] /\ have \in [Requests -> SUBSET Words]
      /\ todo \in [Requests -> SUBSET Words] /\ outcome \in [Requests -> {"none", "done", "error"}]
      /\ closed \in [Requests -> BOOLEAN] /\ worker \in [Requests -> [Workers -> WorkerPlaces]]
      /\ holds \in [Requests -> [Workers -> Entries \cup {Nothing}]]
      /\ target \in [Requests -> Nat] /\ drained \in [Requests -> BOOLEAN]
      /\ \A p \in Requests, i \in Workers : worker[p][i] = "probing" => holds[p][i] \in Entries
  BY DEF TypeInv, TablesType, PrepType, PoolType
<1>1. UNCHANGED kind /\ lost \subseteq lost'
  BY DEF PrepareStep, FindList, CreateList, FillList, FetchWords, FindScan, CreateScan,
         FreshStatus, FreshClear, FreshRead, Populate, SetPopulated, ResetHalted,
         PrepareFails, Start, NobodyToAck, NoProber, EndStep, Finish, DeleteScanEntries,
         DeleteScanRow, DeleteFails, Tick, Disconnect, WorkerStep, EndParked, LookAtConsumer, Claim,
         ClaimFails, NoWork, Record, Requeue, RequeueFails, GiveUp
<1>2. at'[r] = at[r] /\ have'[r] = have[r] /\ todo'[r] = todo[r]
  BY <1>0
  DEF PrepareStep, FindList, CreateList, FillList, FetchWords, FindScan, CreateScan,
      FreshStatus, FreshClear, FreshRead, Populate, SetPopulated, ResetHalted,
      PrepareFails, Start, NobodyToAck, NoProber, EndStep, Finish, DeleteScanEntries,
      DeleteScanRow, DeleteFails, Tick, Disconnect, WorkerStep, EndParked, LookAtConsumer, Claim,
      ClaimFails, NoWork, Record, Requeue, RequeueFails, GiveUp
<1>3. outcome'[r] = outcome[r] /\ closed'[r] = closed[r]
  BY <1>0
  DEF PrepareStep, FindList, CreateList, FillList, FetchWords, FindScan, CreateScan,
      FreshStatus, FreshClear, FreshRead, Populate, SetPopulated, ResetHalted,
      PrepareFails, Start, NobodyToAck, NoProber, EndStep, Finish, DeleteScanEntries,
      DeleteScanRow, DeleteFails, Tick, Disconnect, WorkerStep, EndParked, LookAtConsumer, Claim,
      ClaimFails, NoWork, Record, Requeue, RequeueFails, GiveUp
<1>4. /\ worker'[r] = worker[r] /\ holds'[r] = holds[r]
      /\ target'[r] = target[r] /\ drained'[r] = drained[r]
  BY <1>0
  DEF PrepareStep, FindList, CreateList, FillList, FetchWords, FindScan, CreateScan,
      FreshStatus, FreshClear, FreshRead, Populate, SetPopulated, ResetHalted,
      PrepareFails, Start, NobodyToAck, NoProber, EndStep, Finish, DeleteScanEntries,
      DeleteScanRow, DeleteFails, Tick, Disconnect, WorkerStep, EndParked, LookAtConsumer, Claim,
      ClaimFails, NoWork, Record, Requeue, RequeueFails, GiveUp
<1>5. ASSUME NEW w \in Words, Streamed(r), at[r] \in Live PROVE entry'[<<r, w>>] = entry[<<r, w>>]
  <2> DEFINE e == <<r, w>>
  <2>0. row[r] = r /\ row[q] # r /\ HeldByItsStream
    <3>1. RowsFound /\ HeldByItsStream BY DEF RowInv
    <3>. QED BY <1>5, <3>1, RowIsApart
  <2>1. e \in Entries /\ By(e) = r BY EntryTypes
  <2>. HIDE DEF e
  <2>2. CASE FreshClear(q) \/ DeleteScanEntries(q)
    <3>1. DeleteEntries(row[q]) BY <2>2 DEF FreshClear, DeleteScanEntries
    <3>. QED BY <2>0, <2>1, <3>1 DEF DeleteEntries, e
  <2>3. CASE Populate(q)
    <3>1. entry' = entry \/ \E v : entry' = [entry EXCEPT ![<<q, v>>] = "queued"]
      BY <2>3 DEF Populate
    <3>2. \A v : e # <<q, v>> BY DEF e
    <3>. QED BY <1>0, <2>1, <3>1, <3>2 DEF e
  <2>4. CASE ResetHalted(q)
    <3>1. entry[e] # Halted BY <1>0, <2>1 DEF Halted
    <3>. QED BY <2>1, <2>4, <3>1 DEF ResetHalted, e
  <2>5. CASE \E i \in Workers : Claim(q, i) \/ ClaimFails(q, i)
    <3>1. PICK f \in Of(row[q]) : entry' = [entry EXCEPT ![f] = "scanning"]
      BY <2>5 DEF Claim, ClaimFails
    <3>2. f # e BY <2>0, <2>1, <3>1 DEF Of
    <3>. QED BY <1>0, <2>1, <3>1, <3>2 DEF e
  <2>6. CASE \E i \in Workers : Record(q, i) \/ Requeue(q, i)
    <3>1. PICK i \in Workers : Record(q, i) \/ Requeue(q, i) BY <2>6
    <3>2. holds[q][i] # e
      <4>1. By(e) # q /\ Streamed(By(e)) BY <1>5, <2>1
      <4>. QED BY <2>0, <2>1, <4>1 DEF HeldByItsStream
    <3>3. entry' = entry \/ \E v : entry' = [entry EXCEPT ![holds[q][i]] = v]
      BY <3>1 DEF Record, Requeue
    <3>. QED BY <1>0, <2>1, <3>2, <3>3 DEF e
  <2>7. CASE UNCHANGED entry BY <2>7
  <2>8. FindList(q) \/ PrepareStep(q) \/ EndStep(q) \/ Tick(q) \/ Disconnect(q) =>
          FreshClear(q) \/ DeleteScanEntries(q) \/ Populate(q) \/ ResetHalted(q) \/ UNCHANGED entry
    BY DEF PrepareStep, FindList, CreateList, FillList, FetchWords, FindScan, CreateScan,
           FreshStatus, FreshRead, SetPopulated, PrepareFails, Start, NobodyToAck, NoProber,
           EndStep, Finish, DeleteScanRow, DeleteFails, Tick, Disconnect
  <2>9. ASSUME NEW i \in Workers, WorkerStep(q, i)
        PROVE  Claim(q, i) \/ ClaimFails(q, i) \/ Record(q, i) \/ Requeue(q, i) \/ UNCHANGED entry
    BY <2>9 DEF WorkerStep, EndParked, LookAtConsumer, NoWork, RequeueFails, GiveUp
  <2>. HIDE DEF tables, prep, pool, rest, Go, Prepares, Working, Move, Drops
  <2>. QED BY <2>2, <2>3, <2>4, <2>5, <2>6, <2>7, <2>8, <2>9
<1>. HIDE DEF tables, prep, pool, rest, Go, Prepares, Working, Move, Drops
<1>. QED BY <1>0, <1>1, <1>2, <1>3, <1>4, <1>5, StreamFrame

LEMMA DaemonStream ==
  ASSUME NEW r \in Requests, TypeInv, RowInv, StreamOf(r),
         \/ Crash
         \/ \E x \in Requests : Age(x) \/ SweepEntries(x) \/ SweepRow(x)
         \/ UNCHANGED vars
  PROVE  StreamOf(r)'
<1> USE DEF vars, tables, prep, pool, rest
<1>0. have[r] \subseteq Words BY DEF TypeInv, PrepType
<1>1. CASE Crash
  <2>1. UNCHANGED <<kind, drained>> BY <1>1 DEF Crash
  <2>2. CASE at[r] \in {"new", "over"}
    <3>1. at'[r] = at[r] BY <1>1, <2>2 DEF Crash
    <3>. QED BY <2>1, <2>2, <3>1
         DEF StreamOf, BeforeRun, InRun, AfterRun, Preparing, Streamed
  <2>3. CASE at[r] \notin {"new", "over"}
    <3>1. at'[r] = "dead" BY <1>1, <2>3 DEF Crash
    <3>. QED BY <2>1, <3>1, StreamEnds DEF Ended
  <2>. QED BY <2>2, <2>3
<1>2. CASE ~Crash
  <2>1. UNCHANGED <<kind, at, have, todo, outcome, closed, worker, holds, target, drained, lost>>
    BY <1>2 DEF Age, SweepEntries, SweepRow
  <2>2. ASSUME NEW w \in Words, Streamed(r), at[r] \in Live PROVE entry'[<<r, w>>] = entry[<<r, w>>]
    <3>1. row[r] = r /\ r \notin old
      BY <2>2 DEF RowInv, RowsFound, OldIsEnded, Live, Early, Ended
    <3>2. CASE \E x \in Requests : SweepEntries(x)
      <4>1. PICK x \in old : DeleteEntries(x) BY <3>2 DEF SweepEntries
      <4>. QED BY <3>1, <4>1, EntryTypes DEF DeleteEntries
    <3>3. CASE ~\E x \in Requests : SweepEntries(x) BY <1>2, <3>3 DEF Age, SweepRow
    <3>. QED BY <3>2, <3>3
  <2>. HIDE DEF vars, tables, prep, pool, rest
  <2>. QED BY <1>0, <2>1, <2>2, StreamFrame
<1>. QED BY <1>1, <1>2

\* A stream inserts an entry for every word before its pool starts.
LEMMA PrepareStream ==
  ASSUME NEW r \in Requests, TypeInv, RowInv, StreamOf(r), FindList(r) \/ PrepareStep(r)
  PROVE  StreamOf(r)'
<1> USE DEF tables, prep, pool, rest, Go, Prepares
<1>0. /\ entry \in [Entries -> {"absent", "queued", "scanning", "recorded"}]
      /\ at \in [Requests -> Places] /\ have \in [Requests -> SUBSET Words]
      /\ todo \in [Requests -> SUBSET Words] /\ outcome \in [Requests -> {"none", "done", "error"}]
      /\ worker \in [Requests -> [Workers -> WorkerPlaces]]
      /\ target \in [Requests -> Nat] /\ RowsFound
  BY DEF TypeInv, TablesType, PrepType, PoolType, RowInv
<1>1. UNCHANGED <<kind, drained, closed>>
  BY DEF PrepareStep, FindList, CreateList, FillList, FetchWords, FindScan, CreateScan,
         FreshStatus, FreshClear, FreshRead, Populate, SetPopulated, ResetHalted,
         PrepareFails, Start, NobodyToAck, NoProber
<1>2. at[r] \in {"new"} \cup Preparing
  BY DEF PrepareStep, FindList, CreateList, FillList, FetchWords, FindScan, CreateScan,
         FreshStatus, FreshClear, FreshRead, Populate, SetPopulated, ResetHalted,
         PrepareFails, Start, NobodyToAck, NoProber, Preparing
<1>3. CASE ~Streamed(r) BY <1>1, <1>3 DEF StreamOf, Streamed
<1>4. CASE Streamed(r)
  <2>0. BeforeRun(r) /\ ~drained[r] BY <1>2, <1>4 DEF StreamOf, BeforeRun
  <2>1. SUFFICES BeforeRun(r)' /\ InRun(r)' /\ AfterRun(r)'
    BY <1>1, <2>0 DEF StreamOf
  <2>2. at[r] \notin {"fresh", "clear", "reread"} BY <1>0, <1>4 DEF RowsFound
  <2>3. CASE FindList(r) \/ CreateList(r) \/ FillList(r)
    <3>1. at'[r] \in {"list", "fill", "fetch", "over"}
      BY <1>0, <2>3 DEF FindList, CreateList, FillList
    <3>. QED BY <1>1, <2>0, <3>1 DEF BeforeRun, InRun, AfterRun
  <2>4. CASE FetchWords(r)
    <3>1. at'[r] = "find" /\ have'[r] = words /\ todo'[r] = words BY <1>0, <2>4 DEF FetchWords
    <3>. QED BY <1>1, <2>0, <3>1 DEF BeforeRun, InRun, AfterRun
  <2>5. CASE FindScan(r)
    <3>1. at[r] = "find" BY <2>5 DEF FindScan
    <3>2. ~Exists(r) BY <1>0, <3>1 DEF RowsFound, Exists, Early
    <3>3. {x \in Requests : Exists(x) /\ SameHash(r, x)} = {} BY <1>4, <3>2 DEF SameHash
    <3>4. at'[r] = "create" /\ UNCHANGED <<have, todo>> BY <1>0, <2>5, <3>3 DEF FindScan
    <3>. QED BY <1>1, <2>0, <3>1, <3>4 DEF BeforeRun, InRun, AfterRun
  <2>6. CASE CreateScan(r)
    <3>1. at[r] = "create" /\ at'[r] = "populate" /\ UNCHANGED <<have, todo>>
      BY <1>0, <2>6 DEF CreateScan
    <3>. QED BY <1>1, <2>0, <3>1 DEF BeforeRun, InRun, AfterRun
  <2>7. CASE Populate(r)
    <3>1. at[r] = "populate" /\ UNCHANGED have /\ at'[r] \in {"populate", "populated"}
      BY <1>0, <2>7 DEF Populate
    <3>2. CASE todo[r] = {}
      <4>1. UNCHANGED <<entry, todo>> BY <2>7, <3>2 DEF Populate
      <4>. QED BY <1>1, <2>0, <3>1, <3>2, <4>1 DEF BeforeRun, InRun, AfterRun
    <3>3. CASE todo[r] # {}
      <4> DEFINE v == Min(todo[r])
      <4>1. v \in todo[r] /\ v \in Words BY <1>0, <3>3, SmallestWord
      <4>2. /\ entry' = [entry EXCEPT ![<<r, v>>] = "queued"]
            /\ todo' = [todo EXCEPT ![r] = @ \ {v}]
            /\ at' = [at EXCEPT ![r] = IF todo[r] = {v} THEN "populated" ELSE "populate"]
        BY <2>7, <3>3 DEF Populate
      <4>. HIDE DEF v
      <4>3. todo'[r] = todo[r] \ {v} /\ (at'[r] = "populated" => todo'[r] = {})
        BY <1>0, <4>2
      <4>4. ASSUME NEW w \in have[r] PROVE w \in todo'[r] \/ entry'[<<r, w>>] = "queued"
        <5>1. w \in Words /\ <<r, w>> \in Entries BY <1>0, EntryTypes
        <5>2. w \in todo[r] \/ entry[<<r, w>>] = "queued" BY <2>0, <3>1 DEF BeforeRun
        <5>3. CASE w = v BY <1>0, <4>2, <5>1, <5>3
        <5>4. CASE w # v BY <1>0, <4>2, <4>3, <5>1, <5>2, <5>4
        <5>. QED BY <5>3, <5>4
      <4>. QED BY <1>1, <2>0, <3>1, <4>3, <4>4 DEF BeforeRun, InRun, AfterRun
    <3>. QED BY <3>2, <3>3
  <2>8. CASE SetPopulated(r)
    <3>1. at[r] = "populated" /\ at'[r] = "reset" /\ UNCHANGED <<entry, have, todo>>
      BY <1>0, <2>8 DEF SetPopulated
    <3>. QED BY <1>1, <2>0, <3>1 DEF BeforeRun, InRun, AfterRun
  <2>9. CASE ResetHalted(r)
    <3>1. at[r] = "reset" /\ at'[r] = "start" /\ UNCHANGED <<have, todo>>
      BY <1>0, <2>9 DEF ResetHalted
    <3>2. \A e \in Entries : entry'[e] = entry[e] BY <1>0, <2>9 DEF ResetHalted, Halted
    <3>3. \A w \in have[r] : entry'[<<r, w>>] = entry[<<r, w>>] BY <1>0, <3>2, EntryTypes
    <3>. QED BY <1>1, <2>0, <3>1, <3>3 DEF BeforeRun, InRun, AfterRun
  <2>10. CASE PrepareFails(r) \/ NobodyToAck(r)
    <3>1. at'[r] = "over" BY <1>0, <2>10 DEF PrepareFails, NobodyToAck
    <3>. QED BY <1>1, <3>1 DEF BeforeRun, InRun, AfterRun, Preparing
  <2>11. CASE NoProber(r)
    <3>1. at'[r] = "entries" /\ outcome'[r] = "error" BY <1>0, <1>4, <2>11 DEF NoProber
    <3>. QED BY <1>1, <3>1 DEF BeforeRun, InRun, AfterRun, Preparing
  <2>12. CASE Start(r)
    <3>1. at[r] = "start" /\ at'[r] = "running" /\ UNCHANGED <<entry, have, lost>>
      BY <1>0, <2>12 DEF Start
    <3>2. \A w \in have[r] : entry[<<r, w>>] = "queued" BY <2>0, <3>1 DEF BeforeRun
    <3>3. worker'[r][0] = "idle" BY <1>0, <2>12 DEF Start
    <3>4. ~Drained(r)' BY <3>3 DEF Drained
    <3>5. kind[r] # Adaptive => \A i \in Workers : i < target'[r]
      <4>1. kind[r] # Adaptive => target'[r] = Max(Workers) + 1 BY <1>0, <2>12 DEF Start
      <4>. QED BY <4>1, LargestIndex
    <3>6. Accounted(r)' BY <3>1, <3>2 DEF Accounted
    <3>. QED BY <1>1, <2>0, <3>1, <3>4, <3>5, <3>6 DEF BeforeRun, InRun, AfterRun, Preparing
  <2>13. ~(FreshStatus(r) \/ FreshClear(r) \/ FreshRead(r))
    BY <2>2 DEF FreshStatus, FreshClear, FreshRead
  <2>. HIDE DEF tables, prep, pool, rest, Go, Prepares
  <2>. QED BY <2>3, <2>4, <2>5, <2>6, <2>7, <2>8, <2>9, <2>10, <2>11, <2>12, <2>13 DEF PrepareStep
<1>. QED BY <1>3, <1>4

\* What its workers do to an entry is recorded, queued again or counted as lost; and the
\* last of them ends at an empty queue.
LEMMA WorkerStream ==
  ASSUME NEW r \in Requests, NEW i \in Workers, TypeInv, RowInv, ClaimInv, StreamOf(r),
         WorkerStep(r, i)
  PROVE  StreamOf(r)'
<1> USE DEF Working, Move, Drops
<1>0. /\ entry \in [Entries -> {"absent", "queued", "scanning", "recorded"}]
      /\ at \in [Requests -> Places] /\ have \in [Requests -> SUBSET Words]
      /\ worker \in [Requests -> [Workers -> WorkerPlaces]]
      /\ holds \in [Requests -> [Workers -> Entries \cup {Nothing}]]
      /\ drained \in [Requests -> BOOLEAN]
      /\ worker[r][i] = "probing" => holds[r][i] \in Entries
      /\ worker[r][i] # "probing" => holds[r][i] = Nothing
      /\ RowsFound /\ Quiet
  BY DEF TypeInv, TablesType, PrepType, PoolType, RowInv
<1>1. /\ UNCHANGED <<kind, at, have, todo, row, outcome, closed, target>>
      /\ worker[r][i] \notin {"none", "exited"} /\ lost \subseteq lost'
  BY DEF WorkerStep, EndParked, LookAtConsumer, Claim, ClaimFails, NoWork, Record, Requeue,
         RequeueFails, GiveUp, prep
<1>2. at[r] = "running" BY <1>0, <1>1 DEF Quiet
<1>3. drained'[r] => kind'[r] = Adaptive
  BY <1>0, <1>1 DEF StreamOf, WorkerStep, EndParked, LookAtConsumer, Claim, ClaimFails, NoWork, Record,
     Requeue, RequeueFails, GiveUp
<1>4. CASE ~Streamed(r) BY <1>1, <1>3, <1>4 DEF StreamOf, Streamed
<1>5. CASE Streamed(r)
  <2>0. InRun(r) /\ row[r] = r BY <1>0, <1>2, <1>5 DEF StreamOf, RowsFound, Early, Ended
  <2>1. BeforeRun(r)' /\ AfterRun(r)' BY <1>1, <1>2 DEF BeforeRun, AfterRun, Preparing
  <2>2. \A w \in have[r] : <<r, w>> \in Entries /\ <<r, w>> # Nothing BY <1>0, EntryTypes
  <2>3. Accounted(r) /\ (drained[r] => NothingQueued(r))
        /\ (kind[r] # Adaptive => \A j \in Workers : j < target[r])
    BY <1>2, <2>0 DEF InRun
  <2>4. \A j \in Workers : j # i => holds'[r][j] = holds[r][j]
    BY <1>0
    DEF WorkerStep, EndParked, LookAtConsumer, Claim, ClaimFails, NoWork, Record, Requeue,
        RequeueFails, GiveUp
  <2>5. ASSUME NEW w \in have[r]
        PROVE  /\ Tried(r, w)' \/ entry'[<<r, w>>] = "queued" \/ InHand(r, w)'
               /\ entry'[<<r, w>>] = "queued" =>
                    entry[<<r, w>>] = "queued" \/ <<r, w>> \in lost' \/ kind[r] # Adaptive
    <3> DEFINE e == <<r, w>>
    <3>1. e \in Entries /\ e # Nothing BY <2>2
    <3>2. Tried(r, w) \/ entry[e] = "queued" \/ InHand(r, w) BY <2>3 DEF Accounted
    <3>3. e \in lost => Tried(r, w)' BY <1>1 DEF Tried
    <3>4. CASE UNCHANGED <<entry, holds>>
      BY <1>1, <3>2, <3>4 DEF Tried, InHand
    <3>5. CASE Claim(r, i) \/ ClaimFails(r, i)
      <4>1. PICK f \in Of(row[r]) :
              /\ entry[f] = "queued" /\ entry' = [entry EXCEPT ![f] = "scanning"]
              /\ \/ holds' = [holds EXCEPT ![r][i] = f]
                 \/ f \in lost' /\ holds' = holds
        BY <3>5 DEF Claim, ClaimFails
      <4>2. f \in Entries BY <4>1 DEF Of
      <4>3. CASE f = e
        <5>1. entry'[e] = "scanning" BY <1>0, <4>1, <4>2, <4>3
        <5>2. e \in lost' \/ holds'[r][i] = e BY <1>0, <4>1, <4>3
        <5>. QED BY <5>1, <5>2 DEF Tried, InHand
      <4>4. CASE f # e
        <5>1. entry'[e] = entry[e] BY <1>0, <3>1, <4>1, <4>4
        <5>2. holds[r][i] # e
          <6>1. worker[r][i] = "cleared" BY <3>5 DEF Claim, ClaimFails
          <6>. QED BY <1>0, <3>1, <6>1
        <5>3. InHand(r, w) => InHand(r, w)'
          BY <2>4, <5>1, <5>2 DEF InHand
        <5>. QED BY <3>2, <3>3, <5>1, <5>3 DEF Tried
      <4>. QED BY <4>3, <4>4
    <3>6. CASE Record(r, i) \/ Requeue(r, i) \/ RequeueFails(r, i) \/ GiveUp(r, i)
      <4> DEFINE f == holds[r][i]
      <4>1. f \in Entries BY <1>0, <3>6 DEF Record, Requeue, RequeueFails, GiveUp
      <4>2. CASE f = e
        <5>1. Tried(r, w) \/ entry[e] = "scanning"
          BY <3>1, <3>2, <4>2 DEF ClaimInv, HeldIsClaimed, InHand
        <5>2. CASE RequeueFails(r, i) \/ GiveUp(r, i)
          <6>1. e \in lost' /\ UNCHANGED entry BY <4>2, <5>2 DEF RequeueFails, GiveUp
          <6>. QED BY <6>1 DEF Tried
        <5>3. CASE Record(r, i)
          <6>1. entry' = IF Present(e) THEN [entry EXCEPT ![e] = "recorded"] ELSE entry
            BY <4>2, <5>3 DEF Record
          <6>2. entry'[e] = "recorded" \/ (entry'[e] = entry[e] /\ entry[e] = "absent")
            BY <1>0, <3>1, <6>1 DEF Present
          <6>. QED BY <3>3, <5>1, <6>2 DEF Tried
        <5>4. CASE Requeue(r, i)
          <6>1. /\ entry' = IF Present(e) THEN [entry EXCEPT ![e] = "queued"] ELSE entry
                /\ kind[r] = Adaptive => e \in lost'
            BY <4>2, <5>4 DEF Requeue
          <6>2. entry'[e] = "queued" \/ (entry'[e] = entry[e] /\ entry[e] = "absent")
            BY <1>0, <3>1, <6>1 DEF Present
          <6>. QED BY <3>3, <5>1, <6>1, <6>2 DEF Tried
        <5>. QED BY <3>6, <5>2, <5>3, <5>4
      <4>3. CASE f # e
        <5>1. entry' = entry \/ \E s : entry' = [entry EXCEPT ![f] = s]
          BY <3>6 DEF Record, Requeue, RequeueFails, GiveUp
        <5>2. entry'[e] = entry[e] BY <1>0, <3>1, <4>1, <4>3, <5>1
        <5>3. InHand(r, w) => InHand(r, w)' BY <2>4, <4>3, <5>2 DEF InHand
        <5>. QED BY <3>2, <3>3, <5>2, <5>3 DEF Tried
      <4>. QED BY <4>2, <4>3
    <3>7. CASE EndParked(r, i) \/ LookAtConsumer(r, i) \/ NoWork(r, i)
      BY <3>4, <3>7 DEF EndParked, LookAtConsumer, NoWork
    <3>. QED BY <3>5, <3>6, <3>7 DEF WorkerStep
  <2>6. Accounted(r)' BY <1>1, <2>5 DEF Accounted
  <2>7. drained'[r] => drained[r] \/ NoWork(r, i)
    BY <1>0 DEF WorkerStep, EndParked, LookAtConsumer, Claim, ClaimFails, NoWork, Record, Requeue,
        RequeueFails, GiveUp
  <2>8. drained[r] => NothingQueued(r)'
    <3>1. drained[r] => kind[r] = Adaptive BY DEF StreamOf
    <3>. QED BY <1>1, <2>3, <2>5, <3>1 DEF NothingQueued
  <2>9. NoWork(r, i) => NothingQueued(r)'
    <3> SUFFICES ASSUME NoWork(r, i), NEW w \in have[r] PROVE entry[<<r, w>>] # "queued"
      BY <1>1 DEF NothingQueued, NoWork
    <3>1. \A e \in Of(r) : entry[e] # "queued" BY <2>0 DEF NoWork
    <3>. QED BY <2>0, <2>2, <3>1 DEF Of, By
  <2>10. Drained(r)' /\ ~closed[r] => NothingQueued(r)'
    <3> SUFFICES ASSUME Drained(r)', ~closed[r] PROVE drained[r] \/ NoWork(r, i)
      BY <2>8, <2>9
    <3>1. worker'[r][i] = "exited" BY DEF Drained
    <3>2. EndParked(r, i) \/ NoWork(r, i)
      BY <1>0, <3>1
      DEF WorkerStep, LookAtConsumer, Claim, ClaimFails, Record, Requeue, RequeueFails, GiveUp
    <3>. QED BY <3>2 DEF EndParked
  <2>11. InRun(r)' BY <1>1, <2>3, <2>6, <2>7, <2>8, <2>9, <2>10 DEF InRun
  <2>. QED BY <1>3, <2>1, <2>11 DEF StreamOf
<1>. QED BY <1>4, <1>5

\* A stream says it is done when its pool has drained.
LEMMA EndStream ==
  ASSUME NEW r \in Requests, TypeInv, StreamOf(r), EndStep(r) \/ Tick(r) \/ Disconnect(r)
  PROVE  StreamOf(r)'
<1> USE DEF tables, prep, pool, rest, Go, Fault, NoFault
<1>0. /\ at \in [Requests -> Places] /\ closed \in [Requests -> BOOLEAN]
      /\ outcome \in [Requests -> {"none", "done", "error"}]
      /\ \A i \in Workers : holds[r][i] # Nothing <=> worker[r][i] = "probing"
  BY DEF TypeInv, PrepType, PoolType
<1>1. UNCHANGED <<kind, drained, have, worker, holds, lost>>
  BY DEF EndStep, Finish, DeleteScanEntries, DeleteScanRow, DeleteFails, Tick, Disconnect
<1>2. CASE DeleteScanEntries(r) \/ DeleteScanRow(r) \/ DeleteFails(r)
  <2>1. at'[r] \in Ended \cup {"rows"}
    BY <1>0, <1>2 DEF DeleteScanEntries, DeleteScanRow, DeleteFails, Ended
  <2>. QED BY <1>1, <2>1, StreamEnds
<1>3. CASE Tick(r)
  <2>1. /\ at[r] = "running" /\ kind[r] = Adaptive /\ UNCHANGED <<at, entry, closed>>
    BY <1>3 DEF Tick
  <2>. QED BY <1>1, <2>1 DEF StreamOf, BeforeRun, InRun, AfterRun, Accounted, NothingQueued, Drained,
           Tried, InHand, Streamed, Preparing
<1>4. CASE Disconnect(r)
  <2>1. at[r] = "running" /\ closed'[r] /\ UNCHANGED <<at, entry, target>>
    BY <1>0, <1>4 DEF Disconnect
  <2>. QED BY <1>1, <2>1 DEF StreamOf, BeforeRun, InRun, AfterRun, Accounted, NothingQueued, Drained,
           Tried, InHand, Streamed, Preparing
<1>5. CASE Finish(r)
  <2>1. /\ at[r] = "running" /\ Drained(r) /\ UNCHANGED <<entry, closed>>
        /\ at'[r] \in {"entries", "over"}
    BY <1>0, <1>5 DEF Finish
  <2>2. ASSUME Streamed(r), ~closed[r], NEW w \in have[r] PROVE Tried(r, w)
    <3>1. Accounted(r) /\ NothingQueued(r) BY <2>1, <2>2 DEF StreamOf, InRun
    <3>2. ~InHand(r, w)
      <4>1. \A i \in Workers : holds[r][i] = Nothing BY <1>0, <2>1 DEF Drained
      <4>2. <<r, w>> # Nothing BY DEF Nothing
      <4>. QED BY <4>1, <4>2 DEF InHand
    <3>. QED BY <3>1, <3>2 DEF Accounted, NothingQueued, Tried
  <2>3. Streamed(r) => AfterRun(r)' BY <1>1, <2>1, <2>2 DEF AfterRun, Tried
  <2>. QED BY <1>1, <2>1, <2>3 DEF StreamOf, BeforeRun, InRun, Streamed, Preparing
<1>. QED BY <1>2, <1>3, <1>4, <1>5 DEF EndStep

LEMMA NextStream ==
  TypeInv /\ RowInv /\ ClaimInv /\ StreamInv /\ [Next]_vars => StreamInv'
<1> SUFFICES ASSUME TypeInv, RowInv, ClaimInv, StreamInv, [Next]_vars, NEW r \in Requests
             PROVE  StreamOf(r)'
  BY DEF StreamInv
<1>1. StreamOf(r) BY DEF StreamInv
<1>2. CASE \E q \in Requests : \/ FindList(q) \/ PrepareStep(q) \/ EndStep(q)
                               \/ Tick(q) \/ Disconnect(q)
                               \/ \E i \in Workers : WorkerStep(q, i)
  BY <1>1, <1>2, OthersStream, PrepareStream, WorkerStream, EndStream
<1>3. CASE Crash \/ (\E x \in Requests : Age(x) \/ SweepEntries(x) \/ SweepRow(x)) \/ UNCHANGED vars
  BY <1>1, <1>3, DaemonStream
<1>. QED BY <1>2, <1>3 DEF Next

LEMMA InitStream == Init => RowInv /\ StreamInv
<1> SUFFICES ASSUME Init PROVE RowInv /\ StreamInv
  OBVIOUS
<1>1. RowInv BY EntryTypes DEF Init, RowInv, RowsFound, OldIsEnded, HeldByItsStream, Early, Ended
<1>2. StreamInv BY DEF Init, StreamInv, StreamOf, BeforeRun, InRun, AfterRun, Preparing
<1>. QED BY <1>1, <1>2

\* The "done" of a stream comes when every word it fetched was tried and recorded, but for
\* entries whose claim or record the database failed.
THEOREM Exhausted == Spec => []StreamIsExhausted
<1>1. StreamInv => StreamIsExhausted
  BY DEF StreamInv, StreamOf, AfterRun, StreamIsExhausted, Tried
<1>. QED BY InitType, NextType, InitClaim, NextClaim, InitStream, NextRows, NextStream, <1>1,
            PTL DEF Spec

-----------------------------------------------------------------------------
(* Parking *)

ParkInv ==
  \A r \in Requests, i \in Workers :
    kind[r] = Adaptive /\ worker[r][i] = "exited" => drained[r] \/ closed[r]

LEMMA NextPark == TypeInv /\ ParkInv /\ [Next]_vars => ParkInv'
<1> SUFFICES ASSUME TypeInv, ParkInv, [Next]_vars PROVE ParkInv'
  OBVIOUS
<1> USE DEF vars, tables, prep, pool, rest
<1>0. /\ worker \in [Requests -> [Workers -> WorkerPlaces]]
      /\ drained \in [Requests -> BOOLEAN] /\ closed \in [Requests -> BOOLEAN]
  BY DEF TypeInv, PrepType, PoolType
<1>2. CASE \E r \in Requests, i \in Workers : WorkerStep(r, i)
  <2>1. PICK r \in Requests, i \in Workers : WorkerStep(r, i) BY <1>2
  <2>2. /\ \A q \in Requests, j \in Workers :
              ~(q = r /\ j = i) => worker'[q][j] = worker[q][j]
        /\ UNCHANGED closed
        /\ \A q \in Requests : kind[q] = Adaptive /\ drained[q] => drained'[q]
    BY <1>0, <2>1
    DEF WorkerStep, EndParked, LookAtConsumer, Claim, ClaimFails, NoWork, Record, Requeue,
        RequeueFails, GiveUp, Move, Working
  <2>3. kind[r] = Adaptive /\ worker'[r][i] = "exited" => drained'[r] \/ closed[r]
    BY <1>0, <2>1
    DEF WorkerStep, EndParked, LookAtConsumer, Claim, ClaimFails, NoWork, Record, Requeue,
        RequeueFails, GiveUp, Move
  <2>4. UNCHANGED kind
    BY <2>1 DEF WorkerStep, EndParked, LookAtConsumer, Claim, ClaimFails, NoWork, Record, Requeue,
                RequeueFails, GiveUp, Working
  <2>. QED BY <2>2, <2>3, <2>4 DEF ParkInv
<1>3. CASE ~\E r \in Requests, i \in Workers : WorkerStep(r, i)
  <2> DEFINE Keeps ==
        /\ \A q \in Requests, j \in Workers : worker'[q][j] \in {worker[q][j], "idle", "none"}
        /\ UNCHANGED <<kind, drained>> /\ \A q \in Requests : closed[q] => closed'[q]
  <2>1. ASSUME NEW r \in Requests, FindList(r) \/ PrepareStep(r) PROVE Keeps
    BY <1>0, <2>1
    DEF FindList, PrepareStep, CreateList, FillList, FetchWords, FindScan, CreateScan,
        FreshStatus, FreshClear, FreshRead, Populate, SetPopulated, ResetHalted,
        PrepareFails, Start, NobodyToAck, NoProber, Prepares
  <2>2. ASSUME NEW r \in Requests, EndStep(r) \/ Tick(r) \/ Disconnect(r) PROVE Keeps
    BY <1>0, <2>2 DEF EndStep, Finish, DeleteScanEntries, DeleteScanRow, DeleteFails, Tick, Disconnect
  <2>3. ASSUME Crash PROVE Keeps BY <2>3 DEF Crash
  <2>4. ASSUME NEW x \in Requests, Age(x) \/ SweepEntries(x) \/ SweepRow(x) PROVE Keeps
    BY <2>4 DEF Age, SweepEntries, SweepRow
  <2>5. ASSUME UNCHANGED vars PROVE Keeps BY <2>5
  <2>6. Keeps => ParkInv' BY DEF ParkInv
  <2>. HIDE DEF Keeps, vars, tables, prep, pool, rest
  <2>. QED BY <1>3, <2>1, <2>2, <2>3, <2>4, <2>5, <2>6 DEF Next
<1>. QED BY <1>2, <1>3

\* A worker that is parked can go on or end, once the one that never parks has ended.
THEOREM NoneIsStranded == Spec => []ParkedCanEnd
<1>1. Init => ParkInv BY DEF Init, ParkInv
<1>2. ParkInv => ParkedCanEnd BY DEF ParkInv, ParkedCanEnd
<1>. QED BY InitType, NextType, NextPark, <1>1, <1>2, PTL DEF Spec
=============================================================================
