---------------------------- MODULE McpScansProofs ----------------------------
(* Proofs about McpScans for every number of calls, stops, findings and beats, and every *)
(* limit: what it keeps of its records, and that it implements ScanRecord.              *)
EXTENDS McpScans, FiniteSetTheorems, TLAPS

USE ScansAssumption

-----------------------------------------------------------------------------
(* Types, with what they need: the audit lines, the counts, and the places of the pump *)

SessionType ==
  /\ life \in {"serving", "stopping", "ending", "dead", "next"}
  /\ answer \in {"unasked", "elicited", "file", "declined"}
  /\ asking \in Jobs \cup {Nobody} /\ starting \in Jobs \cup {Nobody}
  /\ call \in [Jobs -> {"none", "confirm", "refused", "lock", "send", "ack", "recorded", "known",
                        "waiting", "over", "killed"}]
  /\ open \subseteq Jobs
  /\ \A j \in Jobs : asking = j => call[j] = "confirm"
LinesType == lines \in [Jobs -> 0..1]
RecordType ==
  /\ meta \in [Jobs -> Meta] /\ file \in [Jobs -> Meta] /\ copy \in [Jobs -> Meta]
  /\ stored \in [Jobs -> 0..MaxFindings]
JobType ==
  /\ seen \subseteq Jobs /\ known \subseteq Jobs
  /\ handle \in [Jobs -> {"none", "stored", "taken"}]
  /\ writer \subseteq Jobs /\ asked \subseteq Jobs
  /\ pump \in [Jobs -> {"none", "reading", "counting", "writing", "ending", "leaving", "gone"}]
  /\ beats \in [Jobs -> 0..MaxBeats]
  /\ engine \in [Jobs -> {"none", "works", "told", "over"}]
  /\ line \in [Jobs -> {"none", "done", "stopped", "eof"}] /\ cancellable \subseteq Jobs
  /\ left \subseteq Jobs /\ missed \subseteq Jobs
StopType ==
  /\ stop \in [Stoppers -> {"none", "refused", "ask", "wait", "stopped", "take", "abort",
                            "end", "remove", "requested"}]
  /\ of \in [Stoppers -> Jobs \cup {Nobody}]
  /\ \A k \in Stoppers : stop[k] # "none" => of[k] \in Jobs

\* A call's line is written when it is over, by it or by the shutdown.
Audit ==
  \A j \in Jobs :
    /\ j \in open => lines[j] = 0 /\ call[j] \notin {"none", "over", "killed"}
    /\ call[j] = "none" => lines[j] = 0
    /\ call[j] \notin {"none", "killed"} /\ j \notin open => lines[j] = 1

\* The record in memory counts what is stored, but for the finding in hand.
Counts ==
  Serves => \A j \in Jobs : stored[j] = meta[j].count + (IF pump[j] = "counting" THEN 1 ELSE 0)

\* Before its pump is spawned a job has none, and no handle of one.
Unsent == {"none", "confirm", "refused", "lock", "send", "ack"}
Unspawned == Unsent \cup {"recorded", "known"}
Early ==
  /\ Serves => \A j \in Jobs :
       /\ call[j] \in Unspawned => pump[j] = "none" /\ handle[j] = "none" /\ stored[j] = 0
       /\ handle[j] # "none" => pump[j] # "none"
  /\ \A k \in Stoppers : stop[k] = "abort" => handle[of[k]] = "taken"

TypeInv ==
  SessionType /\ LinesType /\ RecordType /\ JobType /\ StopType /\ Audit /\ Counts /\ Early

LEMMA TypeInvTypes == TypeInv => TypeOK
BY DEF TypeInv, SessionType, LinesType, RecordType, JobType, StopType, TypeOK

LEMMA RecordTypes ==
  /\ None \in Meta /\ None.count = 0 /\ None.status = "none"
  /\ Begun \in Meta /\ Begun.count = 0 /\ Begun.status = Running
  /\ \A m \in Meta, s \in Ended :
       /\ Finish(m, s) \in Meta /\ Finish(m, s).count = m.count /\ Finish(m, s).status = s
       /\ Terminal(Finish(m, s))
BY DEF None, Begun, Meta, Finish, Running, Ended, Terminal

LEMMA Names ==
  /\ Server \in Stoppers /\ Nobody \notin Jobs /\ Server \notin Jobs
  /\ \A j \in Jobs : j \in Stoppers
  /\ \A k \in Stops : k \in Stoppers
  /\ Running \notin Ended /\ Running # "none" /\ "none" \notin Ended
  /\ Ended = {"completed", "failed", "cancelled", "interrupted"}
  /\ Cancelled \in Ended /\ Interrupted \in Ended /\ Failed \in Ended /\ Completed \in Ended
  /\ Cancelled # Interrupted /\ Cancelled # Failed /\ Cancelled # Completed
BY DEF Server, Stoppers, Nobody, Running, Ended, Cancelled, Interrupted, Failed, Completed

LEMMA InitType == Init => TypeInv
<1> SUFFICES ASSUME Init PROVE TypeInv
  OBVIOUS
<1>1. SessionType /\ LinesType BY DEF Init, SessionType, LinesType
<1>2. RecordType BY RecordTypes DEF Init, RecordType
<1>3. JobType BY DEF Init, JobType
<1>4. StopType BY DEF Init, StopType
<1>5. Audit /\ Counts /\ Early BY RecordTypes DEF Init, Audit, Counts, Early
<1>. QED BY <1>1, <1>2, <1>3, <1>4, <1>5 DEF TypeInv

LEMMA CallType ==
  ASSUME NEW j \in Jobs, TypeInv, Begin(j) \/ CallStep(j) \/ CancelBeforeSending(j) PROVE TypeInv'
<1> USE DEF session, calls, jobs, pumps, engines, stops, Serves
<1>0. SessionType /\ LinesType /\ RecordType /\ JobType /\ StopType /\ Audit /\ Counts /\ Early
  BY DEF TypeInv
<1>1. SessionType' BY <1>0 DEF SessionType, CallStep, Begin, Refuse, Ask, Answer,
                               CancelBeforeSending, CheckCaps, Send, NoAck, Record, Insert,
                               Spawn, Waited, ReturnCancelled, Return, Call
<1>2. LinesType' BY <1>0 DEF LinesType, Audit, CallStep, Begin, Refuse, Ask, Answer,
                             CancelBeforeSending, CheckCaps, Send, NoAck, Record, Insert, Spawn,
                             Waited, ReturnCancelled, Return, Call
<1>3. RecordType' BY <1>0, RecordTypes DEF RecordType, CallStep, Begin, Refuse, Ask, Answer,
                                           CancelBeforeSending, CheckCaps, Send, NoAck, Record,
                                           Insert, Spawn, Waited, ReturnCancelled, Return, Call
<1>4. JobType' BY <1>0 DEF JobType, CallStep, Begin, Refuse, Ask, Answer, CancelBeforeSending,
                           CheckCaps, Send, NoAck, Record, Insert, Spawn, Waited,
                           ReturnCancelled, Return, Call
<1>5. StopType' BY <1>0 DEF StopType, CallStep, Begin, Refuse, Ask, Answer, CancelBeforeSending,
                            CheckCaps, Send, NoAck, Record, Insert, Spawn, Waited,
                            ReturnCancelled, Return, Call
<1>6. Audit'
  <2>1. ASSUME NEW i \in Jobs, i # j
        PROVE  call'[i] = call[i] /\ lines'[i] = lines[i] /\ (i \in open' <=> i \in open)
    BY <1>0, <2>1 DEF SessionType, LinesType, CallStep, Begin, Refuse, Ask, Answer,
                      CancelBeforeSending, CheckCaps, Send, NoAck, Record, Insert, Spawn,
                      Waited, ReturnCancelled, Return, Call
  <2>2. /\ j \in open' => lines'[j] = 0 /\ call'[j] \notin {"none", "over", "killed"}
        /\ call'[j] = "none" => lines'[j] = 0
        /\ call'[j] \notin {"none", "killed"} /\ j \notin open' => lines'[j] = 1
    <3>0. /\ j \in open => lines[j] = 0 /\ call[j] \notin {"none", "over", "killed"}
          /\ call[j] = "none" => lines[j] = 0
          /\ call[j] \notin {"none", "killed"} /\ j \notin open => lines[j] = 1
      BY <1>0 DEF Audit
    <3>1. CASE Begin(j)
      <4>1. /\ call[j] = "none" /\ call'[j] \in {"confirm", "refused"}
            /\ j \in open' /\ UNCHANGED lines
        BY <1>0, <3>1 DEF Begin, Call, SessionType
      <4>. QED BY <3>0, <4>1
    <3>2. CASE Return(j) /\ call[j] \notin {"none", "over", "killed"}
      <4>1. call'[j] = "over" /\ j \notin open' BY <1>0, <3>2 DEF Return, Call, SessionType
      <4>2. lines'[j] = IF j \in open THEN lines[j] + 1 ELSE lines[j]
        BY <1>0, <3>2 DEF Return, LinesType
      <4>. QED BY <3>0, <3>2, <4>1, <4>2
    <3>3. CASE /\ call[j] \notin {"none", "over", "killed"} /\ UNCHANGED <<open, lines>>
               /\ call'[j] \notin {"none", "over", "killed"}
      BY <3>0, <3>3
    <3>4. Begin(j) \/ (Return(j) /\ call[j] \notin {"none", "over", "killed"})
          \/ /\ call[j] \notin {"none", "over", "killed"} /\ UNCHANGED <<open, lines>>
             /\ call'[j] \notin {"none", "over", "killed"}
      <4>1. CASE Answer(j) \/ Ask(j)
        BY <1>0, <4>1 DEF SessionType, Ask, Answer, Call
      <4>2. CASE ~(Answer(j) \/ Ask(j))
        BY <1>0, <4>2 DEF SessionType, CallStep, Begin, Refuse, CancelBeforeSending, CheckCaps,
                          Send, NoAck, Record, Insert, Spawn, Waited, ReturnCancelled, Call
      <4>. QED BY <4>1, <4>2
    <3>. QED BY <3>1, <3>2, <3>3, <3>4
  <2>. QED BY <1>0, <2>1, <2>2 DEF Audit
<1>7. Counts'
  <2>1. UNCHANGED stored /\ (Serves' <=> Serves) BY
      DEF CallStep, Begin, Refuse, Ask, Answer, CancelBeforeSending, CheckCaps, Send, NoAck,
          Record, Insert, Spawn, Waited, ReturnCancelled, Return, Call
  <2>2. ASSUME NEW i \in Jobs, i # j
        PROVE  meta'[i] = meta[i] /\ pump'[i] = pump[i]
    BY <1>0, <2>2 DEF RecordType, JobType, CallStep, Begin, Refuse, Ask, Answer,
                      CancelBeforeSending, CheckCaps, Send, NoAck, Record, Insert, Spawn,
                      Waited, ReturnCancelled, Return, Call
  <2>3. Serves => stored[j] = meta'[j].count + (IF pump'[j] = "counting" THEN 1 ELSE 0)
    <3>1. CASE Record(j)
      <4>1. meta'[j] = Begun /\ UNCHANGED pump BY <1>0, <3>1 DEF Record, RecordType
      <4>2. Serves => stored[j] = 0 /\ pump[j] = "none"
        BY <1>0, <3>1 DEF Record, Early, Unspawned, Unsent
      <4>. QED BY <4>1, <4>2, RecordTypes
    <3>2. CASE Spawn(j)
      <4>1. pump'[j] = "reading" /\ UNCHANGED meta BY <1>0, <3>2 DEF Spawn, JobType
      <4>2. Serves => pump[j] = "none"
        BY <1>0, <3>2 DEF Spawn, Early, Unspawned, Unsent
      <4>. QED BY <1>0, <4>1, <4>2 DEF Counts
    <3>3. CASE ~Record(j) /\ ~Spawn(j)
      <4>1. UNCHANGED <<meta, pump>> BY <3>3
          DEF CallStep, Begin, Refuse, Ask, Answer, CancelBeforeSending, CheckCaps, Send, NoAck,
              Record, Insert, Spawn, Waited, ReturnCancelled, Return, Call
      <4>. QED BY <1>0, <4>1 DEF Counts
    <3>. QED BY <3>1, <3>2, <3>3
  <2>. HIDE DEF Serves
  <2>. QED BY <1>0, <2>1, <2>2, <2>3 DEF Counts
<1>8. Early'
  <2>1. UNCHANGED <<stored, stop, of>> /\ (Serves' <=> Serves) BY
      DEF CallStep, Begin, Refuse, Ask, Answer, CancelBeforeSending, CheckCaps, Send, NoAck,
          Record, Insert, Spawn, Waited, ReturnCancelled, Return, Call
  <2>2. ASSUME NEW i \in Jobs, i # j
        PROVE  call'[i] = call[i] /\ pump'[i] = pump[i] /\ handle'[i] = handle[i]
    BY <1>0, <2>2 DEF SessionType, JobType, CallStep, Begin, Refuse, Ask, Answer,
                      CancelBeforeSending, CheckCaps, Send, NoAck, Record, Insert, Spawn,
                      Waited, ReturnCancelled, Return, Call
  <2>3. Serves => /\ call'[j] \in Unspawned => pump'[j] = "none" /\ handle'[j] = "none" /\ stored[j] = 0
                  /\ handle'[j] # "none" => pump'[j] # "none"
    <3>1. CASE Spawn(j)
      <4>1. call'[j] = "waiting" /\ pump'[j] = "reading"
        BY <1>0, <3>1 DEF Spawn, Call, SessionType, JobType
      <4>. QED BY <4>1 DEF Unspawned, Unsent
    <3>2. CASE ~Spawn(j)
      <4>1. UNCHANGED <<pump, handle>> BY <3>2
          DEF CallStep, Begin, Refuse, Ask, Answer, CancelBeforeSending, CheckCaps, Send, NoAck,
              Record, Insert, Spawn, Waited, ReturnCancelled, Return, Call
      <4>2. call'[j] \in Unspawned => call[j] \in Unspawned
        BY <1>0, <3>2 DEF SessionType, Unspawned, Unsent, CallStep, Begin, Refuse, Ask, Answer,
                          CancelBeforeSending, CheckCaps, Send, NoAck, Record, Insert, Spawn,
                          Waited, ReturnCancelled, Return, Call
      <4>. QED BY <1>0, <4>1, <4>2 DEF Early
    <3>. QED BY <3>1, <3>2
  <2>4. handle[j] = "taken" => handle'[j] = "taken"
    BY <1>0 DEF SessionType, JobType, Early, Unspawned, Unsent, CallStep, Begin, Refuse, Ask,
                Answer, CancelBeforeSending, CheckCaps, Send, NoAck, Record, Insert, Spawn,
                Waited, ReturnCancelled, Return, Call
  <2>5. ASSUME NEW k \in Stoppers, stop[k] = "abort" PROVE handle'[of[k]] = "taken"
    <3>1. of[k] \in Jobs /\ handle[of[k]] = "taken" BY <1>0, <2>5 DEF StopType, Early
    <3>. QED BY <2>2, <2>4, <3>1
  <2>. HIDE DEF Serves
  <2>. QED BY <1>0, <2>1, <2>2, <2>3, <2>5 DEF Early
<1>. QED BY <1>1, <1>2, <1>3, <1>4, <1>5, <1>6, <1>7, <1>8 DEF TypeInv

\* A step that touches neither the calls nor what they need of the jobs.
LEMMA AuditStays ==
  ASSUME Audit, UNCHANGED <<call, open, lines>> PROVE Audit'
BY DEF Audit

LEMMA PumpType ==
  ASSUME NEW j \in Jobs, TypeInv, PumpStep(j) PROVE TypeInv'
<1> USE DEF session, calls, jobs, pumps, engines, stops, Serves
<1>0. SessionType /\ LinesType /\ RecordType /\ JobType /\ StopType /\ Audit /\ Counts /\ Early
  BY DEF TypeInv
<1>1. SessionType' /\ LinesType' /\ StopType' /\ Audit'
  <2>1. UNCHANGED <<session, calls, stops>> BY
      DEF PumpStep, Beat, Store, Count, Write, End, TimeLimit, Save, Leave, Pump, Pumps, Tell
  <2>. QED BY <1>0, <2>1, AuditStays DEF SessionType, LinesType, StopType
<1>2. JobType' BY <1>0 DEF JobType, PumpStep, Beat, Store, Count, Write, End, TimeLimit, Save,
                           Leave, Pump, Pumps, Tell
<1>3. Serves' /\ Serves BY DEF PumpStep, Beat, Store, Count, Write, End, TimeLimit, Save, Leave,
                               Pump, Pumps, Tell
<1>4. ASSUME NEW i \in Jobs, i # j
      PROVE  pump'[i] = pump[i] /\ stored'[i] = stored[i] /\ meta'[i] = meta[i]
  BY <1>0, <1>4 DEF RecordType, JobType, PumpStep, Beat, Store, Count, Write, End, TimeLimit,
                    Save, Leave, Pump, Pumps, Tell
<1>5. (End(j) => Outcome(j) \in Ended) /\ Failed \in Ended
  BY <1>0, Names DEF JobType, Outcome, End
<1>6. /\ meta[j] \in Meta /\ stored[j] \in 0..MaxFindings /\ pump[j] \notin {"none", "gone"}
      /\ stored[j] = meta[j].count + (IF pump[j] = "counting" THEN 1 ELSE 0)
      /\ meta[j].count \in 0..MaxFindings
  BY <1>0, <1>3 DEF RecordType, JobType, Counts, PumpStep, Beat, Store, Count, Write, End,
                    TimeLimit, Save, Leave, Pump, Pumps, Tell, Meta
<1>7. /\ pump'[j] # "none" /\ stored'[j] \in 0..MaxFindings /\ meta'[j] \in Meta
      /\ stored'[j] = meta'[j].count + (IF pump'[j] = "counting" THEN 1 ELSE 0)
  <2>1. CASE Count(j)
    <3>1. /\ meta'[j] = [meta[j] EXCEPT !.count = @ + 1] /\ UNCHANGED stored
          /\ pump[j] = "counting" /\ pump'[j] = "writing"
      BY <1>0, <2>1 DEF Count, Pump, RecordType, JobType
    <3>2. meta'[j].count = meta[j].count + 1 /\ meta'[j].status = meta[j].status
      BY <1>6, <3>1 DEF Meta
    <3>3. meta'[j].count \in 0..MaxFindings BY <1>6, <3>1, <3>2
    <3>4. meta'[j] \in Meta BY <1>6, <3>1, <3>3 DEF Meta
    <3>. QED BY <1>6, <3>1, <3>2, <3>4
  <2>2. CASE Store(j)
    <3>1. /\ stored'[j] = stored[j] + 1 /\ stored[j] < MaxFindings /\ UNCHANGED meta
          /\ pump[j] = "reading" /\ pump'[j] = "counting"
      BY <1>0, <2>2 DEF Store, Pump, RecordType, JobType
    <3>. QED BY <1>6, <3>1
  <2>3. CASE End(j) \/ TimeLimit(j)
    <3>1. /\ meta'[j] = Finish(meta[j], Outcome(j)) \/ meta'[j] = Finish(meta[j], Failed)
          /\ pump[j] = "reading" /\ pump'[j] = "ending" /\ UNCHANGED stored
      BY <1>0, <2>3 DEF End, TimeLimit, Pump, RecordType, JobType
    <3>2. meta'[j] \in Meta /\ meta'[j].count = meta[j].count
      <4>1. CASE End(j) BY <1>5, <1>6, <4>1, RecordTypes, <1>0 DEF End, RecordType
      <4>2. CASE TimeLimit(j) BY <1>5, <1>6, <4>2, RecordTypes, <1>0 DEF TimeLimit, RecordType
      <4>. QED BY <2>3, <4>1, <4>2
    <3>. QED BY <1>6, <3>1, <3>2
  <2>4. CASE Beat(j) \/ Write(j) \/ Save(j) \/ Leave(j)
    <3>1. /\ UNCHANGED <<meta, stored>> /\ pump[j] # "counting"
          /\ pump'[j] \in {"writing", "reading", "leaving", "gone"}
      BY <1>0, <2>4 DEF Beat, Write, Save, Leave, Pump, JobType
    <3>. QED BY <1>6, <3>1
  <2>. QED BY <2>1, <2>2, <2>3, <2>4 DEF PumpStep
<1>8. RecordType'
  <2>1. meta' \in [Jobs -> Meta] /\ stored' \in [Jobs -> 0..MaxFindings]
    <3>1. \E m \in Meta : meta' = [meta EXCEPT ![j] = m]
      <4>1. meta' = [meta EXCEPT ![j] = meta'[j]]
        BY <1>0 DEF RecordType, PumpStep, Beat, Store, Count, Write, End, TimeLimit, Save,
                    Leave, Pump, Pumps, Tell
      <4>. QED BY <1>7, <4>1
    <3>2. stored' = [stored EXCEPT ![j] = stored'[j]] BY <1>0
        DEF RecordType, PumpStep, Beat, Store, Count, Write, End, TimeLimit, Save, Leave, Pump,
            Pumps, Tell
    <3>. QED BY <1>0, <1>7, <3>1, <3>2 DEF RecordType
  <2>2. file' \in [Jobs -> Meta] BY <1>0
      DEF RecordType, PumpStep, Beat, Store, Count, Write, End, TimeLimit, Save, Leave, Pump,
          Pumps, Tell
  <2>3. copy' \in [Jobs -> Meta] BY <1>0, <2>1, RecordTypes
      DEF RecordType, PumpStep, Beat, Store, Count, Write, End, TimeLimit, Save, Leave, Pump,
          Pumps, Tell
  <2>. QED BY <2>1, <2>2, <2>3 DEF RecordType
<1>9. Counts' BY <1>0, <1>3, <1>4, <1>7 DEF Counts
<1>10. Early'
  <2>1. UNCHANGED <<call, handle, stop, of>> BY
      DEF PumpStep, Beat, Store, Count, Write, End, TimeLimit, Save, Leave, Pump, Pumps, Tell
  <2>2. call[j] \notin Unspawned BY <1>0, <1>3, <1>6 DEF Early
  <2>. QED BY <1>0, <1>3, <1>4, <1>7, <2>1, <2>2 DEF Early
<1>. QED BY <1>0, <1>1, <1>2, <1>8, <1>9, <1>10 DEF TypeInv

LEMMA EngineType ==
  ASSUME NEW j \in Jobs, TypeInv, EngineStep(j) PROVE TypeInv'
<1> USE DEF session, calls, jobs, pumps, engines, stops, Serves
<1>0. SessionType /\ LinesType /\ RecordType /\ JobType /\ StopType /\ Audit /\ Counts /\ Early
  BY DEF TypeInv
<1>1. UNCHANGED <<session, calls, jobs, pumps, stops, left, missed, cancellable>>
  BY DEF EngineStep, EngineDone, EngineStops, EngineDies, Engine, AtWork
<1>2. SessionType' /\ LinesType' /\ StopType' /\ RecordType' /\ Counts' /\ Early' /\ Audit'
  BY <1>0, <1>1, AuditStays DEF SessionType, LinesType, StopType, RecordType, Counts, Early
<1>3. JobType' BY <1>0, <1>1 DEF JobType, EngineStep, EngineDone, EngineStops, EngineDies,
                                 Engine, AtWork
<1>. QED BY <1>2, <1>3 DEF TypeInv

\* What stops a scan: a stop that is at a job, or one that goes to a job.
StopsJob(k) ==
  \/ StopStep(k)
  \/ \E j \in Jobs : LookUp(k, j) \/ (k = Server /\ EndNext(j)) \/ (k = j /\ CancelCall(j))
  \/ k = Server /\ DropWriter

LEMMA StopStepType ==
  ASSUME NEW k \in Stoppers, TypeInv, StopsJob(k) PROVE TypeInv'
<1> USE DEF session, calls, jobs, pumps, engines, stops
<1> DEFINE j == of[k]
<1>0. SessionType /\ LinesType /\ RecordType /\ JobType /\ StopType /\ Audit /\ Counts /\ Early
  BY DEF TypeInv
<1>1. SessionType' /\ LinesType' /\ Audit' /\ UNCHANGED <<life, call, stored, copy>> /\ Serves
  <2>1. UNCHANGED <<session, calls, stored, copy, beats>> /\ Serves
    BY DEF Serves, StopsJob, StopStep, LookUp, CancelCall, AskEngine, SeeItEnd, WaitedEnough,
           TakePump, AbortPump, EndIt, Forget, Step, Stopping, Tell, Misses, EndNext, DropWriter
  <2>. QED BY <1>0, <2>1, AuditStays DEF SessionType, LinesType
<1>2. Serves' BY <1>1 DEF Serves
<1>3. CASE StopStep(k)
  <2>0. j \in Jobs BY <1>0, <1>3 DEF StopType, StopStep, LookUp, CancelCall, AskEngine,
                                     SeeItEnd, WaitedEnough, TakePump, AbortPump, EndIt, Forget,
                                     Step, Stopping, Tell, Misses
  <2>1. StopType' BY <1>0, <2>0, <1>3 DEF StopType, StopStep, LookUp, CancelCall, AskEngine,
                                          SeeItEnd, WaitedEnough, TakePump, AbortPump, EndIt,
                                          Forget, Step, Stopping, Tell, Misses
  <2>2. JobType' BY <1>0, <2>0, <1>3 DEF JobType, StopStep, LookUp, CancelCall, AskEngine,
                                         SeeItEnd, WaitedEnough, TakePump, AbortPump, EndIt,
                                         Forget, Step, Stopping, Tell, Misses
  <2>3. RecordType' /\ (\A i \in Jobs : meta'[i].count = meta[i].count)
    <3>1. CASE EndIt(k)
      <4>1. PICK s \in Ended :
              /\ meta' = IF Terminal(meta[j]) THEN meta ELSE [meta EXCEPT ![j] = Finish(@, s)]
              /\ file' = [file EXCEPT ![j] = meta'[j]]
        BY <3>1, Names DEF EndIt
      <4>2. Finish(meta[j], s) \in Meta /\ Finish(meta[j], s).count = meta[j].count
        BY <1>0, <2>0, RecordTypes DEF RecordType
      <4>3. meta' \in [Jobs -> Meta] /\ \A i \in Jobs : meta'[i].count = meta[i].count
        BY <1>0, <2>0, <4>1, <4>2 DEF RecordType
      <4>. QED BY <1>0, <1>1, <2>0, <4>1, <4>3 DEF RecordType
    <3>2. CASE ~EndIt(k)
      <4>1. UNCHANGED <<meta, file>> BY <1>3, <3>2
          DEF StopStep, LookUp, CancelCall, AskEngine, SeeItEnd, WaitedEnough, TakePump,
              AbortPump, EndIt, Forget, Step, Stopping, Tell, Misses
      <4>. QED BY <1>0, <1>1, <4>1 DEF RecordType
    <3>. QED BY <3>1, <3>2
  <2>4. \/ UNCHANGED pump
        \/ /\ pump' = [pump EXCEPT ![j] = "gone"] /\ handle[j] = "taken"
           /\ pump[j] \in {"none", "reading", "gone"} /\ UNCHANGED handle
    BY <1>0, <1>3 DEF Early, AtAwait, StopStep, LookUp, CancelCall, AskEngine, SeeItEnd,
                      WaitedEnough, TakePump, AbortPump, EndIt, Forget, Step, Stopping, Tell,
                      Misses
  <2>5. \A i \in Jobs : (pump'[i] = "counting") <=> (pump[i] = "counting")
    BY <1>0, <2>4 DEF JobType
  <2>6. Counts' BY <1>0, <1>1, <1>2, <2>3, <2>5 DEF Counts
  <2>7. \/ UNCHANGED handle
        \/ handle[j] = "stored" /\ handle' = [handle EXCEPT ![j] = "taken"] /\ UNCHANGED pump
    BY <1>3 DEF StopStep, LookUp, CancelCall, AskEngine, SeeItEnd, WaitedEnough, TakePump,
                AbortPump, EndIt, Forget, Step, Stopping, Tell, Misses
  <2>8. Early'
    <3>1. ASSUME NEW i \in Jobs
          PROVE  /\ call[i] \in Unspawned => pump'[i] = "none" /\ handle'[i] = "none" /\ stored[i] = 0
                 /\ handle'[i] # "none" => pump'[i] # "none"
                 /\ handle[i] = "taken" => handle'[i] = "taken"
      <4>1. /\ call[i] \in Unspawned => pump[i] = "none" /\ handle[i] = "none" /\ stored[i] = 0
            /\ handle[i] # "none" => pump[i] # "none"
        BY <1>0, <1>1 DEF Early
      <4>2. CASE i # j
        <5>1. pump'[i] = pump[i] /\ handle'[i] = handle[i] BY <1>0, <2>4, <2>7, <4>2 DEF JobType
        <5>. QED BY <4>1, <5>1
      <4>3. CASE i = j BY <1>0, <2>4, <2>7, <4>1, <4>3 DEF JobType
      <4>. QED BY <4>2, <4>3
    <3>2. ASSUME NEW p \in Stoppers, stop'[p] = "abort" PROVE (handle[of[p]] = "taken")'
      <4>1. UNCHANGED of BY <1>3 DEF StopStep, LookUp, CancelCall, AskEngine, SeeItEnd,
                                     WaitedEnough, TakePump, AbortPump, EndIt, Forget, Step,
                                     Stopping, Tell, Misses
      <4>2. CASE stop[p] = "abort"
        <5>1. of[p] \in Jobs /\ handle[of[p]] = "taken" BY <1>0, <4>2 DEF Early, StopType
        <5>. QED BY <3>1, <4>1, <5>1
      <4>3. CASE stop[p] # "abort"
        <5>1. p = k /\ handle' = [handle EXCEPT ![j] = "taken"]
          BY <1>0, <1>3, <3>2, <4>3 DEF StopType, StopStep, LookUp, CancelCall, AskEngine,
                                        SeeItEnd, WaitedEnough, TakePump, AbortPump, EndIt,
                                        Forget, Step, Stopping, Tell, Misses
        <5>. QED BY <1>0, <2>0, <4>1, <5>1 DEF JobType
      <4>. QED BY <4>2, <4>3
    <3>. QED BY <1>1, <1>2, <3>1, <3>2 DEF Early
  <2>. QED BY <1>1, <2>1, <2>2, <2>3, <2>6, <2>8 DEF TypeInv
<1>4. CASE ~StopStep(k)
  <2>1. UNCHANGED <<meta, file, pump, handle>>
    BY <1>4 DEF StopsJob, LookUp, EndNext, CancelCall, DropWriter, Stopping
  <2>2. RecordType' /\ Counts' BY <1>0, <1>1, <1>2, <2>1 DEF RecordType, Counts
  <2>3. JobType' /\ StopType'
    BY <1>0, <1>4, Names DEF JobType, StopType, StopsJob, LookUp, EndNext, CancelCall, DropWriter,
                             Step, Stopping
  <2>4. \A p \in Stoppers : stop'[p] = "abort" => stop[p] = "abort" /\ of'[p] = of[p]
    BY <1>0, <1>4 DEF StopType, StopsJob, LookUp, EndNext, CancelCall, DropWriter, Step, Stopping
  <2>5. Early'
    <3>1. \A p \in Stoppers : stop'[p] = "abort" => (handle[of[p]] = "taken")'
      BY <1>0, <2>1, <2>4 DEF Early
    <3>. QED BY <1>0, <1>1, <1>2, <2>1, <3>1 DEF Early
  <2>. QED BY <1>1, <2>2, <2>3, <2>5 DEF TypeInv
<1>. QED BY <1>3, <1>4

LEMMA LifeType ==
  ASSUME TypeInv, Shutdown \/ Collect \/ Dies \/ Recover PROVE TypeInv'
<1> USE DEF session, calls, jobs, pumps, engines, stops
<1>0. SessionType /\ LinesType /\ RecordType /\ JobType /\ StopType /\ Audit /\ Counts /\ Early
  BY DEF TypeInv
<1>1. CASE Shutdown
  <2>1. SessionType' /\ LinesType' /\ Audit'
    BY <1>0, <1>1 DEF Shutdown, SessionType, LinesType, Audit
  <2>2. JobType' /\ StopType' /\ RecordType' BY <1>0, <1>1
      DEF Shutdown, JobType, StopType, RecordType
  <2>3. Counts' /\ Early' BY <1>0, <1>1 DEF Shutdown, Counts, Early, Serves
  <2>. QED BY <2>1, <2>2, <2>3 DEF TypeInv
<1>2. CASE Collect
  <2>1. SessionType' /\ LinesType' /\ Audit'
    BY <1>0, <1>2, AuditStays DEF Collect, SessionType, LinesType
  <2>2. JobType' /\ StopType' /\ RecordType' BY <1>0, <1>2
      DEF Collect, JobType, StopType, RecordType
  <2>3. Counts' /\ Early' BY <1>0, <1>2 DEF Collect, Counts, Early, Serves
  <2>. QED BY <2>1, <2>2, <2>3 DEF TypeInv
<1>3. CASE Dies
  <2>1. SessionType' /\ LinesType' /\ Audit'
    BY <1>0, <1>3, Names DEF Dies, SessionType, LinesType, Audit
  <2>2. JobType' /\ StopType' /\ RecordType'
    BY <1>0, <1>3, RecordTypes DEF Dies, JobType, StopType, RecordType
  <2>3. Counts' /\ Early' BY <1>3 DEF Dies, Counts, Early, Serves
  <2>. QED BY <2>1, <2>2, <2>3 DEF TypeInv
<1>4. CASE Recover
  <2>1. SessionType' /\ LinesType' /\ Audit'
    BY <1>0, <1>4, AuditStays DEF Recover, SessionType, LinesType
  <2>2. JobType' /\ StopType' BY <1>0, <1>4 DEF Recover, JobType, StopType
  <2>3. RecordType' BY <1>0, <1>4, RecordTypes, Names DEF Recover, RecordType
  <2>4. Counts' /\ Early' BY <1>0, <1>4 DEF Recover, Counts, Early, Serves
  <2>. QED BY <2>1, <2>2, <2>3, <2>4 DEF TypeInv
<1>. QED BY <1>1, <1>2, <1>3, <1>4

\* The steps of Next, by what takes them.
LEMMA Steps ==
  Next => \/ \E j \in Jobs : Begin(j) \/ CallStep(j) \/ CancelBeforeSending(j)
          \/ \E j \in Jobs : PumpStep(j)
          \/ \E j \in Jobs : EngineStep(j)
          \/ \E k \in Stoppers : StopsJob(k)
          \/ Shutdown \/ Collect \/ (Serves /\ Dies) \/ Recover
BY Names DEF Next, StopsJob, ShutdownStep, Stopped, Crash, Serves

LEMMA NextType == TypeInv /\ [Next]_vars => TypeInv'
<1> SUFFICES ASSUME TypeInv, [Next]_vars PROVE TypeInv'
  OBVIOUS
<1>1. CASE Next BY <1>1, Steps, CallType, PumpType, EngineType, StopStepType, LifeType
<1>2. CASE UNCHANGED vars
  BY <1>2 DEF vars, session, calls, jobs, pumps, engines, stops, TypeInv, SessionType, LinesType,
              RecordType, JobType, StopType, Audit, Counts, Early, Serves
<1>. QED BY <1>1, <1>2

\* Every variable keeps a value of its type: among others, a call has at most one line.
THEOREM TypeCorrect == Spec => []TypeOK
<1>. QED BY InitType, NextType, TypeInvTypes, PTL DEF Spec

\* A call that returned has its line, and no call has two: not even one that the shutdown
\* wrote the line of while it was returning.
THEOREM OneLineEach == Spec => []AuditedOnce
<1>1. TypeInv => AuditedOnce
  BY DEF TypeInv, LinesType, Audit, AuditedOnce
<1>. QED BY InitType, NextType, <1>1, PTL DEF Spec

-----------------------------------------------------------------------------
(* The story of a job, while nobody ended it without having its pump *)

AtLine == {"none", "reading", "counting", "writing"}
CallOf(j) ==
  /\ call[j] \in Unsent => file[j].status = "none"
  /\ call[j] \in {"recorded", "known"} => file[j].status = Running
StoryOf(j) ==
  /\ pump[j] = "none" => meta[j].status = file[j].status /\ meta[j].status \in {"none", Running}
  /\ pump[j] \in {"reading", "counting", "writing"} =>
       meta[j].status = Running /\ file[j].status = Running
  /\ pump[j] = "writing" => copy[j].status = Running
  /\ pump[j] = "ending" => Terminal(meta[j]) /\ file[j].status = Running
  /\ pump[j] = "leaving" => Terminal(meta[j]) /\ file[j] = meta[j]
  /\ pump[j] = "gone" => meta[j].status = file[j].status /\ meta[j].status # "none"
  /\ Terminal(file[j]) => file[j] = meta[j]
  /\ j \in seen => Terminal(file[j])
CancelOf(j) ==
  /\ meta[j].status = Cancelled => j \in asked
  /\ pump[j] \in AtLine /\ (engine[j] = "told" \/ line[j] = "stopped") => j \in asked
KeptOf(j) ==
  /\ file[j].status = Cancelled => j \in asked
  /\ Terminal(file[j]) /\ life # "next" => file[j].count = stored[j]
JobOf(j) ==
  j \notin missed => KeptOf(j) /\ (Serves => CallOf(j) /\ StoryOf(j) /\ CancelOf(j))
JobInv == \A j \in Jobs : JobOf(j)
StopAt(k) ==
  /\ stop[k] = "end" => of[k] \in missed \/ pump[of[k]] = "gone"
  /\ stop[k] \notin {"none", "refused", "ask"} /\ k # Server => of[k] \in asked
  /\ stop[k] \in {"stopped", "remove", "requested"} /\ of[k] \notin missed => Terminal(file[of[k]])
StopInv == \A k \in Stoppers : StopAt(k)

LEMMA JobFrame ==
  ASSUME NEW j \in Jobs, JobOf(j), Serves' => Serves, life = "next" => life' = "next",
         call'[j] = call[j], meta'[j] = meta[j], file'[j] = file[j], stored'[j] = stored[j],
         pump'[j] = pump[j], copy'[j] = copy[j], engine'[j] = engine[j], line'[j] = line[j],
         missed \subseteq missed', asked \subseteq asked', j \in seen' => j \in seen
  PROVE  JobOf(j)'
<1> SUFFICES ASSUME j \notin missed' PROVE (KeptOf(j) /\ (Serves => CallOf(j) /\ StoryOf(j) /\ CancelOf(j)))'
  BY DEF JobOf
<1>1. KeptOf(j) /\ (Serves => CallOf(j) /\ StoryOf(j) /\ CancelOf(j)) BY DEF JobOf
<1>2. KeptOf(j)' BY <1>1 DEF KeptOf
<1>3. Serves' => CallOf(j)' BY <1>1 DEF CallOf
<1>4. Serves' => StoryOf(j)' BY <1>1 DEF StoryOf
<1>5. Serves' => CancelOf(j)' BY <1>1 DEF CancelOf
<1>. QED BY <1>2, <1>3, <1>4, <1>5

LEMMA CallJob ==
  ASSUME NEW j \in Jobs, TypeInv, JobInv, Begin(j) \/ CallStep(j) \/ CancelBeforeSending(j)
  PROVE  JobInv'
<1> USE DEF session, calls, jobs, pumps, engines, stops
<1>0. SessionType /\ RecordType /\ JobType /\ Early BY DEF TypeInv
<1>1. Serves /\ Serves' /\ UNCHANGED <<life, stored, copy, line, missed, asked, seen>>
  BY DEF Serves, CallStep, Begin, Refuse, Ask, Answer, CancelBeforeSending, CheckCaps, Send,
         NoAck, Record, Insert, Spawn, Waited, ReturnCancelled, Return, Call
<1>2. ASSUME NEW i \in Jobs, i # j PROVE JobOf(i)'
  <2>1. /\ call'[i] = call[i] /\ meta'[i] = meta[i] /\ file'[i] = file[i] /\ pump'[i] = pump[i]
        /\ engine'[i] = engine[i]
    BY <1>0, <1>2 DEF SessionType, RecordType, JobType, CallStep, Begin, Refuse, Ask, Answer,
                      CancelBeforeSending, CheckCaps, Send, NoAck, Record, Insert, Spawn,
                      Waited, ReturnCancelled, Return, Call
  <2>. HIDE DEF session, calls, jobs, pumps, engines, stops
  <2>. QED BY <1>1, <2>1, JobFrame DEF JobInv
<1>3. JobOf(j)'
  <2> SUFFICES ASSUME j \notin missed PROVE KeptOf(j)' /\ CallOf(j)' /\ StoryOf(j)' /\ CancelOf(j)'
    BY <1>1 DEF JobOf
  <2>0. KeptOf(j) /\ CallOf(j) /\ StoryOf(j) /\ CancelOf(j) BY <1>1 DEF JobInv, JobOf
  <2>1. CASE Record(j)
    <3>1. /\ meta'[j] = Begun /\ file'[j] = Begun /\ UNCHANGED <<pump, engine>>
          /\ call[j] = "ack" /\ call'[j] = "recorded"
      BY <1>0, <2>1 DEF Record, Call, SessionType, RecordType
    <3>2. pump[j] = "none" /\ file[j].status = "none"
      BY <1>0, <1>1, <2>0, <3>1 DEF Early, Unspawned, Unsent, CallOf
    <3>3. j \notin seen BY <2>0, <3>2, Names DEF StoryOf, Terminal
    <3>4. ~Terminal(Begun) /\ Begun.status = Running /\ Begun.status # Cancelled
      BY RecordTypes, Names DEF Terminal
    <3>5. KeptOf(j)' BY <3>1, <3>4 DEF KeptOf
    <3>6. CallOf(j)' BY <3>1, <3>4 DEF CallOf, Unsent
    <3>7. StoryOf(j)' BY <1>1, <3>1, <3>2, <3>3, <3>4 DEF StoryOf
    <3>8. CancelOf(j)' BY <1>1, <2>0, <3>1, <3>4 DEF CancelOf
    <3>. QED BY <3>5, <3>6, <3>7, <3>8
  <2>2. CASE Spawn(j)
    <3>1. /\ UNCHANGED <<meta, file, engine>> /\ call[j] = "known" /\ call'[j] = "waiting"
          /\ pump'[j] = "reading"
      BY <1>0, <2>2 DEF Spawn, Call, SessionType, JobType
    <3>2. pump[j] = "none" /\ file[j].status = Running
      BY <1>0, <1>1, <2>0, <3>1 DEF Early, Unspawned, Unsent, CallOf
    <3>3. KeptOf(j)' BY <1>1, <2>0, <3>1 DEF KeptOf
    <3>4. CallOf(j)' BY <3>1 DEF CallOf, Unsent
    <3>5. StoryOf(j)' BY <1>1, <2>0, <3>1, <3>2 DEF StoryOf
    <3>6. CancelOf(j)' BY <1>1, <2>0, <3>1, <3>2 DEF CancelOf, AtLine
    <3>. QED BY <3>3, <3>4, <3>5, <3>6
  <2>3. CASE ~Record(j) /\ ~Spawn(j)
    <3>1. UNCHANGED <<meta, file, pump>> BY <2>3
        DEF CallStep, Begin, Refuse, Ask, Answer, CancelBeforeSending, CheckCaps, Send, NoAck,
            Record, Insert, Spawn, Waited, ReturnCancelled, Return, Call
    <3>2. engine'[j] \in {engine[j], "works"}
      BY <1>0, <2>3 DEF JobType, CallStep, Begin, Refuse, Ask, Answer, CancelBeforeSending,
                        CheckCaps, Send, NoAck, Record, Insert, Spawn, Waited, ReturnCancelled,
                        Return, Call
    <3>3. /\ call'[j] \in Unsent => call[j] \in Unsent
          /\ call'[j] \in {"recorded", "known"} => call[j] \in {"recorded", "known"}
      BY <1>0, <2>3 DEF SessionType, Unsent, CallStep, Begin, Refuse, Ask, Answer,
                        CancelBeforeSending, CheckCaps, Send, NoAck, Record, Insert, Spawn,
                        Waited, ReturnCancelled, Return, Call
    <3>4. KeptOf(j)' BY <1>1, <2>0, <3>1 DEF KeptOf
    <3>5. CallOf(j)' BY <2>0, <3>1, <3>3 DEF CallOf
    <3>6. StoryOf(j)' BY <1>1, <2>0, <3>1 DEF StoryOf
    <3>7. CancelOf(j)' BY <1>1, <2>0, <3>1, <3>2 DEF CancelOf
    <3>. QED BY <3>4, <3>5, <3>6, <3>7
  <2>. QED BY <2>1, <2>2, <2>3
<1>. QED BY <1>2, <1>3 DEF JobInv

LEMMA PumpJob ==
  ASSUME NEW j \in Jobs, TypeInv, JobInv, PumpStep(j) PROVE JobInv'
<1> USE DEF session, calls, jobs, pumps, engines, stops
<1>0. SessionType /\ RecordType /\ JobType /\ Counts /\ Early BY DEF TypeInv
<1>1. Serves /\ Serves' /\ UNCHANGED <<life, call, missed, asked, line>>
  BY DEF Serves, PumpStep, Beat, Store, Count, Write, End, TimeLimit, Save, Leave, Pump, Pumps,
         Tell
<1>2. ASSUME NEW i \in Jobs, i # j PROVE JobOf(i)'
  <2>1. /\ meta'[i] = meta[i] /\ file'[i] = file[i] /\ pump'[i] = pump[i] /\ stored'[i] = stored[i]
        /\ copy'[i] = copy[i] /\ engine'[i] = engine[i] /\ (i \in seen' => i \in seen)
    BY <1>0, <1>2 DEF RecordType, JobType, PumpStep, Beat, Store, Count, Write, End, TimeLimit,
                      Save, Leave, Pump, Pumps, Tell
  <2>. HIDE DEF session, calls, jobs, pumps, engines, stops
  <2>. QED BY <1>1, <2>1, JobFrame DEF JobInv
<1>3. JobOf(j)'
  <2> SUFFICES ASSUME j \notin missed PROVE KeptOf(j)' /\ CallOf(j)' /\ StoryOf(j)' /\ CancelOf(j)'
    BY <1>1 DEF JobOf
  <2>0. KeptOf(j) /\ CallOf(j) /\ StoryOf(j) /\ CancelOf(j) BY <1>1 DEF JobInv, JobOf
  <2>1. pump[j] \notin {"none", "gone"} BY
      DEF PumpStep, Beat, Store, Count, Write, End, TimeLimit, Save, Leave, Pump, Pumps, Tell
  <2>2. call[j] \notin Unspawned BY <1>0, <1>1, <2>1 DEF Early
  <2>3. CallOf(j)' BY <1>1, <2>2 DEF CallOf, Unspawned
  <2>4. /\ meta[j] \in Meta /\ file[j] \in Meta /\ Running \notin Ended /\ Failed \in Ended
        /\ stored[j] = meta[j].count + (IF pump[j] = "counting" THEN 1 ELSE 0)
        /\ ~Terminal([status |-> Running]) /\ Cancelled # Running /\ Cancelled # Failed
    BY <1>0, <1>1, Names DEF RecordType, Counts, Terminal
  <2>5. CASE Beat(j)
    <3>1. /\ UNCHANGED <<meta, file, stored, engine, seen>> /\ copy'[j] = meta[j]
          /\ pump[j] = "reading" /\ pump'[j] = "writing"
      BY <1>0, <2>5 DEF Beat, Pump, RecordType, JobType
    <3>2. KeptOf(j)' BY <1>1, <2>0, <3>1 DEF KeptOf
    <3>3. StoryOf(j)' BY <1>1, <2>0, <3>1 DEF StoryOf
    <3>4. CancelOf(j)' BY <1>1, <2>0, <3>1 DEF CancelOf, AtLine
    <3>. QED BY <2>3, <3>2, <3>3, <3>4
  <2>6. CASE Store(j)
    <3>1. /\ UNCHANGED <<meta, file, copy, engine, seen>>
          /\ pump[j] = "reading" /\ pump'[j] = "counting"
      BY <1>0, <2>6 DEF Store, Pump, RecordType, JobType
    <3>2. ~Terminal(file[j]) BY <2>0, <2>4, <3>1 DEF StoryOf, Terminal
    <3>3. KeptOf(j)' BY <1>1, <2>0, <3>1, <3>2 DEF KeptOf
    <3>4. StoryOf(j)' BY <1>1, <2>0, <3>1 DEF StoryOf
    <3>5. CancelOf(j)' BY <1>1, <2>0, <3>1 DEF CancelOf, AtLine
    <3>. QED BY <2>3, <3>3, <3>4, <3>5
  <2>7. CASE Count(j)
    <3>1. /\ meta'[j].status = meta[j].status /\ copy'[j] = meta'[j]
          /\ UNCHANGED <<file, stored, engine, seen>>
          /\ pump[j] = "counting" /\ pump'[j] = "writing"
      BY <1>0, <2>4, <2>7 DEF Count, Pump, RecordType, JobType, Meta
    <3>2. ~Terminal(file[j]) BY <2>0, <2>4, <3>1 DEF StoryOf, Terminal
    <3>3. KeptOf(j)' BY <1>1, <2>0, <3>1 DEF KeptOf
    <3>4. StoryOf(j)' BY <1>1, <2>0, <3>1, <3>2 DEF StoryOf
    <3>5. CancelOf(j)' BY <1>1, <2>0, <3>1 DEF CancelOf, AtLine
    <3>. QED BY <2>3, <3>3, <3>4, <3>5
  <2>8. CASE Write(j)
    <3>1. /\ UNCHANGED <<meta, stored, engine, seen>> /\ file'[j] \in {file[j], copy[j]}
          /\ pump[j] = "writing" /\ pump'[j] = "reading"
      BY <1>0, <2>8 DEF Write, Pump, RecordType, JobType
    <3>2. meta[j].status = Running /\ file[j].status = Running /\ copy[j].status = Running
      BY <2>0, <3>1 DEF StoryOf
    <3>3. file'[j].status = Running /\ ~Terminal(file[j]) /\ ~Terminal(file'[j])
      BY <2>4, <3>1, <3>2 DEF Terminal
    <3>4. j \notin seen BY <2>0, <3>3 DEF StoryOf
    <3>5. KeptOf(j)' BY <2>4, <3>3 DEF KeptOf
    <3>6. StoryOf(j)' BY <3>1, <3>2, <3>3, <3>4 DEF StoryOf
    <3>7. CancelOf(j)' BY <1>1, <2>0, <3>1 DEF CancelOf, AtLine
    <3>. QED BY <2>3, <3>5, <3>6, <3>7
  <2>9. CASE End(j) \/ TimeLimit(j)
    <3>1. /\ UNCHANGED <<file, stored, copy, seen>>
          /\ pump[j] = "reading" /\ pump'[j] = "ending"
      BY <1>0, <2>9 DEF End, TimeLimit, Pump, RecordType, JobType
    <3>2. PICK s \in Ended : meta'[j] = Finish(meta[j], s) /\ (s = Cancelled => j \in asked)
      <4>1. CASE End(j)
        <5>1. Outcome(j) \in Ended /\ (Outcome(j) = Cancelled => j \in asked \/ line[j] = "stopped")
          BY <1>0, <4>1, Names DEF End, JobType, Outcome
        <5>2. line[j] = "stopped" => j \in asked BY <2>0, <3>1 DEF CancelOf, AtLine
        <5>3. meta'[j] = Finish(meta[j], Outcome(j)) BY <1>0, <4>1 DEF End, RecordType
        <5>. QED BY <5>1, <5>2, <5>3
      <4>2. CASE TimeLimit(j)
        <5>1. meta'[j] = Finish(meta[j], Failed) BY <1>0, <4>2 DEF TimeLimit, RecordType
        <5>. QED BY <2>4, <5>1
      <4>. QED BY <2>9, <4>1, <4>2
    <3>3. Terminal(meta'[j]) /\ meta'[j].status = s BY <2>4, <3>2, RecordTypes
    <3>4. file[j].status = Running /\ ~Terminal(file[j]) BY <2>0, <2>4, <3>1 DEF StoryOf, Terminal
    <3>5. KeptOf(j)' BY <1>1, <2>0, <3>1 DEF KeptOf
    <3>6. StoryOf(j)' BY <2>0, <3>1, <3>3, <3>4 DEF StoryOf
    <3>7. CancelOf(j)' BY <1>1, <3>1, <3>2, <3>3 DEF CancelOf, AtLine
    <3>. QED BY <2>3, <3>5, <3>6, <3>7
  <2>10. CASE Save(j)
    <3>1. /\ UNCHANGED <<meta, stored, copy, engine, seen>> /\ file'[j] = meta[j]
          /\ pump[j] = "ending" /\ pump'[j] = "leaving"
      BY <1>0, <2>10 DEF Save, Pump, RecordType, JobType
    <3>2. Terminal(meta[j]) BY <2>0, <3>1 DEF StoryOf
    <3>3. meta[j].count = stored[j] BY <2>4, <3>1 DEF Meta
    <3>4. KeptOf(j)' BY <1>1, <2>0, <3>1, <3>3 DEF KeptOf, CancelOf
    <3>5. StoryOf(j)' BY <3>1, <3>2 DEF StoryOf
    <3>6. CancelOf(j)' BY <1>1, <2>0, <3>1 DEF CancelOf, AtLine
    <3>. QED BY <2>3, <3>4, <3>5, <3>6
  <2>11. CASE Leave(j)
    <3>1. /\ UNCHANGED <<meta, file, stored, copy, engine>>
          /\ pump[j] = "leaving" /\ pump'[j] = "gone"
      BY <1>0, <2>11 DEF Leave, Pump, RecordType, JobType
    <3>2. Terminal(meta[j]) /\ file[j] = meta[j] /\ meta[j].status # "none"
      BY <2>0, <3>1, Names DEF StoryOf, Terminal
    <3>3. KeptOf(j)' BY <1>1, <2>0, <3>1 DEF KeptOf
    <3>4. StoryOf(j)' BY <3>1, <3>2 DEF StoryOf
    <3>5. CancelOf(j)' BY <1>1, <2>0, <3>1 DEF CancelOf, AtLine
    <3>. QED BY <2>3, <3>3, <3>4, <3>5
  <2>. QED BY <2>5, <2>6, <2>7, <2>8, <2>9, <2>10, <2>11 DEF PumpStep
<1>. QED BY <1>2, <1>3 DEF JobInv

LEMMA EngineJob ==
  ASSUME NEW j \in Jobs, TypeInv, JobInv, EngineStep(j) PROVE JobInv'
<1> USE DEF session, calls, jobs, pumps, stops
<1>0. JobType BY DEF TypeInv
<1>1. UNCHANGED <<life, call, meta, file, stored, pump, copy, seen, asked, missed>>
  BY DEF EngineStep, EngineDone, EngineStops, EngineDies, Engine, AtWork
<1>2. Serves' <=> Serves BY <1>1 DEF Serves
<1>3. ASSUME NEW i \in Jobs, i # j PROVE JobOf(i)'
  <2>1. engine'[i] = engine[i] /\ line'[i] = line[i]
    BY <1>0, <1>3 DEF JobType, EngineStep, EngineDone, EngineStops, EngineDies, Engine, AtWork
  <2>. HIDE DEF session, calls, jobs, pumps, stops
  <2>. QED BY <1>1, <1>2, <2>1, JobFrame DEF JobInv
<1>4. JobOf(j)'
  <2>1. JobOf(j) BY DEF JobInv
  <2>2. engine'[j] = "over" /\ (line'[j] = "stopped" => engine[j] = "told")
    BY <1>0 DEF JobType, EngineStep, EngineDone, EngineStops, EngineDies, Engine, AtWork
  <2>3. CancelOf(j) => CancelOf(j)' BY <1>1, <2>2 DEF CancelOf
  <2>. QED BY <1>1, <1>2, <2>1, <2>3 DEF JobOf, KeptOf, CallOf, StoryOf
<1>. QED BY <1>3, <1>4 DEF JobInv

LEMMA StopJob ==
  ASSUME NEW k \in Stoppers, TypeInv, JobInv, StopInv, StopsJob(k) PROVE JobInv'
<1> USE DEF session, calls, jobs, pumps, engines, stops
<1> DEFINE j == of[k]
<1>0. RecordType /\ JobType /\ StopType /\ Counts /\ Early BY DEF TypeInv
<1>1. /\ UNCHANGED <<life, call, stored, copy, line, seen>> /\ Serves /\ Serves'
      /\ missed \subseteq missed' /\ asked \subseteq asked'
  BY DEF Serves, StopsJob, StopStep, LookUp, CancelCall, AskEngine, SeeItEnd, WaitedEnough,
         TakePump, AbortPump, EndIt, Forget, Step, Stopping, Tell, Misses, EndNext, DropWriter
<1>2. CASE ~StopStep(k)
  <2>1. UNCHANGED <<meta, file, pump, engine>>
    BY <1>2 DEF StopsJob, LookUp, EndNext, CancelCall, DropWriter, Stopping
  <2>. HIDE DEF session, calls, jobs, pumps, engines, stops
  <2>2. ASSUME NEW i \in Jobs PROVE JobOf(i)' BY <1>1, <2>1, JobFrame DEF JobInv
  <2>. QED BY <2>2 DEF JobInv
<1>3. CASE StopStep(k)
  <2>0. j \in Jobs BY <1>0, <1>3 DEF StopType, StopStep, LookUp, CancelCall, AskEngine,
                                     SeeItEnd, WaitedEnough, TakePump, AbortPump, EndIt, Forget,
                                     Step, Stopping, Tell, Misses
  <2>1. ASSUME NEW i \in Jobs, i # j PROVE JobOf(i)'
    <3>1. /\ meta'[i] = meta[i] /\ file'[i] = file[i] /\ pump'[i] = pump[i]
          /\ engine'[i] = engine[i]
      BY <1>0, <1>3, <2>0, <2>1 DEF RecordType, JobType, StopStep, LookUp, CancelCall,
                                    AskEngine, SeeItEnd, WaitedEnough, TakePump, AbortPump,
                                    EndIt, Forget, Step, Stopping, Tell, Misses
    <3>. HIDE DEF session, calls, jobs, pumps, engines, stops, j
    <3>. QED BY <1>1, <3>1, JobFrame DEF JobInv
  <2>2. ASSUME NEW i \in Jobs, i = j PROVE JobOf(i)'
    <3> SUFFICES ASSUME i \notin missed' PROVE KeptOf(i)' /\ CallOf(i)' /\ StoryOf(i)' /\ CancelOf(i)'
      BY <1>1 DEF JobOf
    <3>0. KeptOf(i) /\ CallOf(i) /\ StoryOf(i) /\ CancelOf(i) /\ i \notin missed
      BY <1>1 DEF JobInv, JobOf
    <3>1. CASE AskEngine(k)
      <4>1. UNCHANGED <<meta, file, pump>> /\ i \in asked'
        BY <2>2, <3>1 DEF AskEngine, Stopping
      <4>. QED BY <1>1, <3>0, <4>1 DEF KeptOf, CallOf, StoryOf, CancelOf
    <3>2. CASE SeeItEnd(k) \/ WaitedEnough(k) \/ TakePump(k) \/ Forget(k)
      <4>1. UNCHANGED <<meta, file, pump, engine>>
        BY <3>2 DEF SeeItEnd, WaitedEnough, TakePump, Forget, Stopping
      <4>. HIDE DEF session, calls, jobs, pumps, engines, stops, j
      <4>. QED BY <1>1, <3>0, <4>1, JobFrame DEF JobInv, JobOf
    <3>3. CASE AbortPump(k)
      <4>1. /\ UNCHANGED <<meta, file, engine>> /\ pump'[i] = "gone" /\ stop[k] = "abort"
            /\ pump[i] \in {"none", "reading", "gone"}
        BY <1>0, <2>2, <3>3 DEF AbortPump, AtAwait, JobType
      <4>2. pump[i] # "none" BY <1>0, <1>1, <2>2, <4>1 DEF Early
      <4>3. meta[i].status = file[i].status /\ meta[i].status # "none"
        BY <3>0, <4>1, <4>2, Names DEF StoryOf
      <4>4. StoryOf(i)' BY <1>1, <3>0, <4>1, <4>3 DEF StoryOf
      <4>5. CancelOf(i)' BY <1>1, <3>0, <4>1 DEF CancelOf, AtLine
      <4>. QED BY <1>1, <3>0, <4>1, <4>4, <4>5 DEF KeptOf, CallOf
    <3>4. CASE EndIt(k)
      <4>1. stop[k] = "end" /\ UNCHANGED <<pump, asked>> BY <3>4 DEF EndIt, Stopping
      <4>2. pump[i] = "gone" BY <2>2, <3>0, <4>1 DEF StopInv, StopAt
      <4>3. meta[i].status = file[i].status /\ meta[i].status # "none" /\ meta[i] \in Meta
        BY <1>0, <3>0, <4>2 DEF StoryOf, RecordType
      <4>4. /\ file'[i] = meta'[i] /\ Terminal(meta'[i]) /\ meta'[i].count = meta[i].count
            /\ meta'[i].status = Cancelled => i \in asked
        <5>1. file'[i] = meta'[i] BY <1>0, <2>2, <3>4 DEF EndIt, RecordType
        <5>2. CASE Terminal(meta[i])
          <6>1. meta'[i] = meta[i] BY <2>2, <3>4, <5>2 DEF EndIt
          <6>. QED BY <3>0, <5>1, <5>2, <6>1 DEF CancelOf
        <5>3. CASE ~Terminal(meta[i])
          <6> DEFINE s == IF k = Server THEN Interrupted ELSE Cancelled
          <6>1. meta'[i] = Finish(meta[i], s) BY <1>0, <2>2, <3>4, <5>3 DEF EndIt, RecordType
          <6>2. s \in Ended /\ (s = Cancelled => k # Server) BY Names
          <6>3. k # Server => i \in asked BY <2>2, <4>1 DEF StopInv, StopAt
          <6>4. /\ Terminal(meta'[i]) /\ meta'[i].count = meta[i].count /\ meta'[i].status = s
            BY <4>3, <6>1, <6>2, RecordTypes
          <6>. QED BY <5>1, <6>2, <6>3, <6>4
        <5>. QED BY <5>2, <5>3
      <4>5. stored[i] = meta[i].count BY <1>0, <1>1, <4>2, <4>3 DEF Counts, Meta
      <4>6. KeptOf(i)' BY <1>1, <4>1, <4>4, <4>5 DEF KeptOf
      <4>7. CallOf(i)'
        <5>1. call[i] \notin Unspawned BY <1>0, <1>1, <4>2 DEF Early
        <5>. QED BY <1>1, <5>1 DEF CallOf, Unspawned
      <4>8. StoryOf(i)' BY <4>1, <4>2, <4>4, Names DEF StoryOf, Terminal
      <4>9. CancelOf(i)' BY <4>1, <4>2, <4>4 DEF CancelOf, AtLine
      <4>. QED BY <4>6, <4>7, <4>8, <4>9
    <3>. QED BY <1>3, <3>1, <3>2, <3>3, <3>4 DEF StopStep
  <2>. QED BY <2>1, <2>2 DEF JobInv
<1>. QED BY <1>2, <1>3

LEMMA LifeJob ==
  ASSUME TypeInv, JobInv, Shutdown \/ Collect \/ (Serves /\ Dies) \/ Recover PROVE JobInv'
<1> USE DEF session, calls, jobs, pumps, engines, stops
<1>1. CASE Shutdown \/ Collect
  <2>1. /\ UNCHANGED <<call, meta, file, stored, pump, copy, engine, line, missed, asked, seen>>
        /\ Serves /\ Serves' /\ life # "next"
    BY <1>1 DEF Shutdown, Collect, Serves
  <2>. HIDE DEF session, calls, jobs, pumps, engines, stops
  <2>2. ASSUME NEW j \in Jobs PROVE JobOf(j)' BY <2>1, JobFrame DEF JobInv
  <2>. QED BY <2>2 DEF JobInv
<1>2. CASE Serves /\ Dies
  <2>1. UNCHANGED <<file, stored, missed, asked>> /\ ~Serves' /\ life # "next"
    BY <1>2 DEF Dies, Serves
  <2>. QED BY <2>1 DEF JobInv, JobOf, KeptOf
<1>3. CASE Recover
  <2>1. /\ UNCHANGED <<stored, missed, asked>> /\ ~Serves' /\ life' = "next"
        /\ \E stale \in SUBSET Jobs :
             file' = [j \in Jobs |-> IF j \in stale THEN Finish(file[j], Interrupted) ELSE file[j]]
    BY <1>3 DEF Recover, Serves, RunningFiles
  <2>2. ASSUME NEW j \in Jobs PROVE file'[j] = file[j] \/ file'[j].status = Interrupted
    <3>1. file[j] \in Meta BY DEF TypeInv, RecordType
    <3>. QED BY <2>1, <3>1, RecordTypes, Names
  <2>. QED BY <2>1, <2>2, Names DEF JobInv, JobOf, KeptOf
<1>. QED BY <1>1, <1>2, <1>3

-----------------------------------------------------------------------------
(* The refinement: what a step does to the status of the jobs whose story is told *)

bar == [j \in Jobs |-> IF j \in missed THEN "unsure" ELSE file[j].status]

BarBecomes(j, s) == bar' = [bar EXCEPT ![j] = s]
Moves(j) ==
  \/ call[j] = "ack" /\ bar[j] = "none" /\ BarBecomes(j, "running")
  \/ bar[j] = "running" /\ \E s \in Ended : BarBecomes(j, s)
  \/ bar[j] # "unsure" /\ BarBecomes(j, "unsure")
Interrupts(lost) ==
  /\ lost # {} /\ \A j \in lost : bar[j] = "running"
  /\ bar' = [j \in Jobs |-> IF j \in lost THEN "interrupted" ELSE bar[j]]
BarStep == bar' = bar \/ (\E j \in Jobs : Moves(j)) \/ (\E lost \in SUBSET Jobs : Interrupts(lost))

LEMMA BarType ==
  ASSUME RecordType
  PROVE  bar \in [Jobs -> {"none", "running", "unsure"} \cup Ended]
BY Names DEF RecordType, bar, Meta, Running, Ended

LEMMA BarFrame == ASSUME UNCHANGED <<file, missed>> PROVE bar' = bar
BY DEF bar

\* Only the file of one job changes, and nobody misses anything.
LEMMA BarOne ==
  ASSUME NEW j \in Jobs, RecordType, UNCHANGED missed, NEW m \in Meta,
         file' = [file EXCEPT ![j] = m]
  PROVE  /\ j \in missed => bar' = bar
         /\ j \notin missed => bar' = [bar EXCEPT ![j] = m.status] /\ bar[j] = file[j].status
         /\ j \notin missed /\ m.status = file[j].status => bar' = bar
<1>1. ASSUME NEW i \in Jobs PROVE file'[i] = IF i = j THEN m ELSE file[i]
  BY DEF RecordType
<1>2. j \in missed => bar' = bar BY <1>1 DEF bar
<1>3. j \notin missed => bar' = [bar EXCEPT ![j] = m.status] /\ bar[j] = file[j].status
  <2> SUFFICES ASSUME j \notin missed
               PROVE  bar' = [bar EXCEPT ![j] = m.status] /\ bar[j] = file[j].status
    OBVIOUS
  <2>1. \A i \in Jobs : bar'[i] = IF i = j THEN m.status ELSE bar[i] BY <1>1 DEF bar
  <2>2. bar \in [Jobs -> {bar[i] : i \in Jobs}] /\ bar' = [i \in Jobs |-> bar'[i]] BY DEF bar
  <2>3. bar' = [bar EXCEPT ![j] = m.status] BY <2>1, <2>2
  <2>. QED BY <2>3 DEF bar
<1>4. j \notin missed /\ m.status = file[j].status => bar' = bar BY <1>1 DEF bar
<1>. QED BY <1>2, <1>3, <1>4

LEMMA CallBar ==
  ASSUME NEW j \in Jobs, TypeInv, JobInv, Begin(j) \/ CallStep(j) \/ CancelBeforeSending(j)
  PROVE  BarStep
<1> USE DEF session, calls, jobs, pumps, engines, stops
<1>1. CASE Record(j)
  <2>1. /\ file' = [file EXCEPT ![j] = Begun] /\ UNCHANGED missed /\ call[j] = "ack" /\ Serves
    BY <1>1 DEF Record
  <2>2. j \notin missed => file[j].status = "none" BY <2>1 DEF JobInv, JobOf, CallOf, Unsent
  <2>3. Begun \in Meta /\ Begun.status = "running" BY RecordTypes DEF Running
  <2>4. RecordType BY DEF TypeInv
  <2>5. bar' = bar \/ (bar[j] = "none" /\ BarBecomes(j, "running"))
    BY <2>1, <2>2, <2>3, <2>4, BarOne DEF BarBecomes
  <2>. QED BY <2>1, <2>5 DEF BarStep, Moves
<1>2. CASE ~Record(j)
  <2>1. UNCHANGED <<file, missed>> BY <1>2
      DEF CallStep, Begin, Refuse, Ask, Answer, CancelBeforeSending, CheckCaps, Send, NoAck,
          Record, Insert, Spawn, Waited, ReturnCancelled, Return, Call
  <2>. QED BY <2>1, BarFrame DEF BarStep
<1>. QED BY <1>1, <1>2

LEMMA PumpBar ==
  ASSUME NEW j \in Jobs, TypeInv, JobInv, PumpStep(j) PROVE BarStep
<1> USE DEF session, calls, jobs, pumps, engines, stops
<1>0. RecordType BY DEF TypeInv
<1>1. CASE Write(j)
  <2>1. pump[j] = "writing" /\ Serves /\ UNCHANGED missed BY <1>1 DEF Write, Pumps
  <2>2. j \notin missed => copy[j].status = Running /\ file[j].status = Running
    BY <2>1 DEF JobInv, JobOf, StoryOf
  <2>3. CASE UNCHANGED file BY <2>1, <2>3, BarFrame DEF BarStep
  <2>4. CASE file' = [file EXCEPT ![j] = copy[j]]
    <3>1. copy[j] \in Meta BY <1>0 DEF RecordType
    <3>2. bar' = bar BY <1>0, <2>1, <2>2, <2>4, <3>1, BarOne
    <3>. QED BY <3>2 DEF BarStep
  <2>. QED BY <1>1, <2>3, <2>4 DEF Write
<1>2. CASE Save(j)
  <2>1. pump[j] = "ending" /\ Serves /\ UNCHANGED missed /\ file' = [file EXCEPT ![j] = meta[j]]
    BY <1>2 DEF Save, Pumps
  <2>2. j \notin missed => meta[j].status \in Ended /\ file[j].status = Running
    BY <2>1 DEF JobInv, JobOf, StoryOf, Terminal
  <2>3. meta[j] \in Meta BY <1>0 DEF RecordType
  <2>4. /\ j \in missed => bar' = bar
        /\ j \notin missed => bar' = [bar EXCEPT ![j] = meta[j].status] /\ bar[j] = file[j].status
    BY <1>0, <2>1, <2>3, BarOne
  <2>5. CASE j \in missed BY <2>4, <2>5 DEF BarStep
  <2>6. CASE j \notin missed
    <3>1. Moves(j) BY <2>2, <2>4, <2>6 DEF Moves, BarBecomes, Running
    <3>. QED BY <3>1 DEF BarStep
  <2>. QED BY <2>5, <2>6
<1>3. CASE ~Write(j) /\ ~Save(j)
  <2>1. UNCHANGED <<file, missed>> BY <1>3
      DEF PumpStep, Beat, Store, Count, Write, End, TimeLimit, Save, Leave, Pump, Pumps, Tell
  <2>. QED BY <2>1, BarFrame DEF BarStep
<1>. QED BY <1>1, <1>2, <1>3

LEMMA StopBar ==
  ASSUME NEW k \in Stoppers, TypeInv, JobInv, StopInv, StopsJob(k) PROVE BarStep
<1> USE DEF session, calls, jobs, pumps, engines, stops
<1> DEFINE j == of[k]
<1>0. RecordType /\ StopType BY DEF TypeInv
<1>1. CASE TakePump(k)
  <2>1. /\ UNCHANGED file /\ j \in Jobs
        /\ missed' = missed \/ missed' = missed \cup {j}
    BY <1>0, <1>1 DEF TakePump, Misses, StopType
  <2>2. CASE missed' = missed BY <2>1, <2>2, BarFrame DEF BarStep
  <2>3. CASE missed' = missed \cup {j} /\ j \in Jobs /\ j \notin missed
    <3>1. bar' = [bar EXCEPT ![j] = "unsure"]
      <4>1. \A i \in Jobs : bar'[i] = IF i = j THEN "unsure" ELSE bar[i]
        BY <2>1, <2>3 DEF bar
      <4>2. bar \in [Jobs -> {bar[i] : i \in Jobs}] /\ bar' = [i \in Jobs |-> bar'[i]] BY DEF bar
      <4>. QED BY <4>1, <4>2
    <3>2. bar[j] # "unsure" BY <1>0, <2>3, Names DEF bar, RecordType, Meta, Running
    <3>. QED BY <2>3, <3>1, <3>2 DEF BarStep, Moves, BarBecomes
  <2>. QED BY <2>1, <2>2, <2>3
<1>2. CASE EndIt(k)
  <2>1. /\ stop[k] = "end" /\ UNCHANGED missed /\ Serves /\ j \in Jobs
        /\ file' = [file EXCEPT ![j] = meta'[j]]
    BY <1>0, <1>2 DEF EndIt, StopType
  <2>2. PICK s \in Ended : meta' = IF Terminal(meta[j]) THEN meta ELSE [meta EXCEPT ![j] = Finish(@, s)]
    BY <1>2, Names DEF EndIt
  <2>3. meta[j] \in Meta BY <1>0, <2>1 DEF RecordType
  <2>4. /\ meta'[j] \in Meta /\ Terminal(meta'[j])
        /\ Terminal(meta[j]) => meta'[j] = meta[j]
    <3>1. CASE Terminal(meta[j]) BY <2>2, <2>3, <3>1
    <3>2. CASE ~Terminal(meta[j])
      <4>1. meta'[j] = Finish(meta[j], s) BY <1>0, <2>1, <2>2, <3>2 DEF RecordType
      <4>. QED BY <2>3, <3>2, <4>1, RecordTypes
    <3>. QED BY <3>1, <3>2
  <2>5. j \notin missed => /\ meta[j].status = file[j].status /\ meta[j].status # "none"
    BY <2>1 DEF StopInv, StopAt, JobInv, JobOf, StoryOf
  <2>6. /\ j \in missed => bar' = bar
        /\ j \notin missed => bar' = [bar EXCEPT ![j] = meta'[j].status] /\ bar[j] = file[j].status
        /\ j \notin missed /\ meta'[j].status = file[j].status => bar' = bar
    BY <1>0, <2>1, <2>4, BarOne
  <2>7. CASE j \in missed \/ Terminal(meta[j]) BY <2>4, <2>5, <2>6, <2>7 DEF BarStep
  <2>8. CASE j \notin missed /\ ~Terminal(meta[j])
    <3>1. file[j].status = "running" BY <2>3, <2>5, <2>8 DEF Meta, Terminal, Running
    <3>2. Moves(j) BY <2>4, <2>6, <2>8, <3>1 DEF Moves, BarBecomes, Terminal
    <3>. QED BY <2>1, <3>2 DEF BarStep
  <2>. QED BY <2>7, <2>8
<1>3. CASE ~TakePump(k) /\ ~EndIt(k)
  <2>1. UNCHANGED <<file, missed>>
    BY <1>3 DEF StopsJob, StopStep, LookUp, CancelCall, AskEngine, SeeItEnd, WaitedEnough,
                TakePump, AbortPump, EndIt, Forget, Step, Stopping, Tell, Misses, EndNext,
                DropWriter
  <2>. QED BY <2>1, BarFrame DEF BarStep
<1>. QED BY <1>1, <1>2, <1>3

LEMMA LifeBar == ASSUME TypeInv, Shutdown \/ Collect \/ Dies \/ Recover PROVE BarStep
<1> USE DEF session, calls, jobs, pumps, engines, stops
<1>1. CASE Shutdown \/ Collect \/ Dies
  <2>1. UNCHANGED <<file, missed>> BY <1>1 DEF Shutdown, Collect, Dies
  <2>. QED BY <2>1, BarFrame DEF BarStep
<1>2. CASE Recover
  <2>1. PICK stale \in SUBSET RunningFiles :
          file' = [j \in Jobs |-> IF j \in stale THEN Finish(file[j], Interrupted) ELSE file[j]]
    BY <1>2 DEF Recover
  <2>2. UNCHANGED missed BY <1>2 DEF Recover
  <2>3. \A j \in stale : j \in Jobs /\ file[j].status = "running" /\ file'[j].status = "interrupted"
    <3>1. \A j \in Jobs : file[j] \in Meta BY DEF TypeInv, RecordType
    <3>. QED BY <2>1, <3>1, RecordTypes, Names DEF RunningFiles, Running, Interrupted
  <2> DEFINE lost == stale \ missed
  <2>4. bar' = [j \in Jobs |-> IF j \in lost THEN "interrupted" ELSE bar[j]]
    BY <2>1, <2>2, <2>3 DEF bar
  <2>5. \A j \in lost : bar[j] = "running" BY <2>3 DEF bar
  <2>6. CASE lost = {}
    <3>1. bar' = bar BY <2>4, <2>6 DEF bar
    <3>. QED BY <3>1 DEF BarStep
  <2>7. CASE lost # {}
    <3>1. lost \in SUBSET Jobs /\ Interrupts(lost) BY <2>3, <2>4, <2>5, <2>7 DEF Interrupts
    <3>. QED BY <3>1 DEF BarStep
  <2>. QED BY <2>6, <2>7
<1>. QED BY <1>1, <1>2

LEMMA NextBar == ASSUME TypeInv, JobInv, StopInv, Next PROVE BarStep
<1>1. ASSUME NEW j \in Jobs, EngineStep(j) PROVE BarStep
  <2>1. UNCHANGED <<file, missed>> BY <1>1
      DEF EngineStep, EngineDone, EngineStops, EngineDies, Engine, AtWork, jobs
  <2>. QED BY <2>1, BarFrame DEF BarStep
<1>. QED BY <1>1, Steps, CallBar, PumpBar, StopBar, LifeBar

\* What has ended stays ended, and only a call that records it makes a job run.
LEMMA BarGrows ==
  ASSUME RecordType, RecordType', missed \subseteq missed', BarStep, NEW j \in Jobs, j \notin missed'
  PROVE  /\ Terminal(file[j]) => Terminal(file'[j])
         /\ file'[j].status = Running => file[j].status = Running \/ call[j] = "ack"
<1>1. bar[j] = file[j].status /\ bar'[j] = file'[j].status /\ bar' # [bar EXCEPT ![j] = "unsure"]
  <2>1. bar[j] = file[j].status /\ bar'[j] = file'[j].status BY DEF bar
  <2>2. file'[j].status # "unsure" BY Names DEF RecordType, Meta, Running
  <2>. QED BY <2>1, <2>2, BarType
<1>2. bar \in [Jobs -> {"none", "running", "unsure"} \cup Ended] BY BarType
<1>3. bar'[j] = bar[j] \/ (bar[j] = "none" /\ bar'[j] = "running" /\ call[j] = "ack")
      \/ (bar[j] = "running" /\ bar'[j] \in Ended)
  <2>1. CASE bar' = bar BY <2>1
  <2>2. CASE \E i \in Jobs : Moves(i)
    <3>1. PICK i \in Jobs : Moves(i) BY <2>2
    <3>2. CASE i # j BY <1>2, <3>1, <3>2 DEF Moves, BarBecomes
    <3>3. CASE i = j BY <1>1, <1>2, <3>1, <3>3 DEF Moves, BarBecomes
    <3>. QED BY <3>2, <3>3
  <2>3. CASE \E lost \in SUBSET Jobs : Interrupts(lost)
    BY <2>3, Names DEF Interrupts
  <2>. QED BY <2>1, <2>2, <2>3 DEF BarStep
<1>4. Running = "running" /\ "running" \notin Ended /\ "none" \notin Ended BY Names DEF Running
<1>. QED BY <1>1, <1>3, <1>4 DEF Terminal

-----------------------------------------------------------------------------
(* What stops a job *)

Later ==
  /\ missed \subseteq missed' /\ asked \subseteq asked'
  /\ \A j \in Jobs : pump[j] = "gone" => pump'[j] = "gone"
StopFacts ==
  /\ Later
  /\ \A j \in Jobs \ missed' : Terminal(file[j]) => Terminal(file'[j])

LEMMA StopFrame ==
  ASSUME StopType, StopFacts, NEW k \in Stoppers, StopAt(k), stop'[k] = stop[k], of'[k] = of[k]
  PROVE  StopAt(k)'
BY DEF StopType, StopFacts, Later, StopAt

LEMMA Grows ==
  ASSUME TypeInv, TypeInv', JobInv, StopInv, Next PROVE StopFacts
<1> USE DEF session, calls, jobs, pumps, engines, stops
<1>0. RecordType /\ RecordType' /\ JobType /\ StopType /\ Early BY DEF TypeInv
<1>1. Later
  <2>1. ASSUME NEW j \in Jobs, Begin(j) \/ CallStep(j) \/ CancelBeforeSending(j) PROVE Later
    BY <1>0, <2>1 DEF Later, JobType, Early, Unspawned, Unsent, CallStep, Begin, Refuse, Ask,
                      Answer, CancelBeforeSending, CheckCaps, Send, NoAck, Record, Insert,
                      Spawn, Waited, ReturnCancelled, Return, Call, Serves
  <2>2. ASSUME NEW j \in Jobs, PumpStep(j) PROVE Later
    BY <1>0, <2>2 DEF Later, JobType, PumpStep, Beat, Store, Count, Write, End, TimeLimit, Save,
                      Leave, Pump, Pumps, Tell
  <2>3. ASSUME NEW j \in Jobs, EngineStep(j) PROVE Later
    BY <2>3 DEF Later, EngineStep, EngineDone, EngineStops, EngineDies, Engine, AtWork
  <2>4. ASSUME NEW k \in Stoppers, StopsJob(k) PROVE Later
    BY <1>0, <2>4 DEF Later, JobType, StopsJob, StopStep, LookUp, CancelCall, AskEngine,
                      SeeItEnd, WaitedEnough, TakePump, AbortPump, EndIt, Forget, Step,
                      Stopping, Tell, Misses, EndNext, DropWriter
  <2>5. ASSUME Shutdown \/ Collect \/ Dies \/ Recover PROVE Later
    BY <2>5 DEF Later, Shutdown, Collect, Dies, Recover
  <2>. QED BY <2>1, <2>2, <2>3, <2>4, <2>5, Steps
<1>2. BarStep BY NextBar
<1>. QED BY <1>0, <1>1, <1>2, BarGrows DEF StopFacts, Later

\* Steps that are no stop's.
LEMMA StopStays ==
  ASSUME StopType, StopInv, StopFacts, UNCHANGED stops PROVE StopInv'
BY StopFrame DEF StopInv, stops

LEMMA StopStepStop ==
  ASSUME TypeInv, TypeInv', JobInv, JobInv', StopInv, StopFacts, NEW k \in Stoppers, StopsJob(k)
  PROVE  StopInv'
<1> USE DEF session, calls, jobs, pumps, engines, stops
<1>0. RecordType /\ JobType /\ StopType /\ StopType' /\ Early BY DEF TypeInv
<1>1. ASSUME NEW p \in Stoppers, p # k PROVE StopAt(p)'
  <2>1. stop'[p] = stop[p] /\ of'[p] = of[p]
    BY <1>0, <1>1 DEF StopType, StopsJob, StopStep, LookUp, CancelCall, AskEngine, SeeItEnd,
                      WaitedEnough, TakePump, AbortPump, EndIt, Forget, Step, Stopping, Tell,
                      Misses, EndNext, DropWriter
  <2>. HIDE DEF session, calls, jobs, pumps, engines, stops
  <2>. QED BY <1>0, <2>1, StopFrame DEF StopInv
<1>2. StopAt(k)'
  <2>0. StopAt(k) /\ Serves /\ Serves'
    BY DEF StopInv, Serves, StopsJob, StopStep, LookUp, CancelCall, AskEngine, SeeItEnd,
           WaitedEnough, TakePump, AbortPump, EndIt, Forget, Step, Stopping, Tell, Misses,
           EndNext, DropWriter
  <2>1. CASE ~StopStep(k)
    <3>1. stop'[k] \in {"none", "refused", "ask"} \/ (stop'[k] = "take" /\ k = Server)
      BY <1>0, <2>1, Names DEF StopType, StopsJob, LookUp, EndNext, CancelCall, DropWriter, Step
    <3>. QED BY <3>1 DEF StopAt
  <2>2. CASE StopStep(k)
    <3> DEFINE j == of[k]
    <3>0. j \in Jobs /\ UNCHANGED of BY <1>0, <2>2
        DEF StopType, StopStep, LookUp, CancelCall, AskEngine, SeeItEnd, WaitedEnough, TakePump,
            AbortPump, EndIt, Forget, Step, Stopping, Tell, Misses
    <3>1. CASE AskEngine(k) \/ WaitedEnough(k)
      <4>1. stop'[k] \in {"wait", "take"} /\ (stop[k] = "ask" => j \in asked')
        BY <1>0, <3>0, <3>1 DEF AskEngine, WaitedEnough, Step, StopType
      <4>2. stop[k] \in {"ask", "wait"} BY <3>1 DEF AskEngine, WaitedEnough
      <4>. QED BY <2>0, <3>0, <4>1, <4>2 DEF StopAt, StopFacts, Later
    <3>2. CASE SeeItEnd(k)
      <4>1. stop[k] = "wait" /\ stop'[k] = "stopped" /\ j \in seen /\ UNCHANGED <<file, missed>>
        BY <1>0, <3>2 DEF SeeItEnd, Step, StopType, Stopping
      <4>2. j \notin missed => Terminal(file[j])
        BY <2>0, <3>0, <4>1 DEF JobInv, JobOf, StoryOf
      <4>. QED BY <2>0, <3>0, <4>1, <4>2 DEF StopAt, StopFacts, Later, Terminal
    <3>3. CASE TakePump(k)
      <4>1. stop[k] = "take" /\ stop'[k] \in {"abort", "end"} /\ UNCHANGED pump
        BY <1>0, <3>3 DEF TakePump, Step, StopType, Stopping
      <4>2. stop'[k] = "end" => j \in missed' \/ pump[j] = "gone"
        BY <1>0, <3>3 DEF TakePump, Step, StopType, Misses
      <4>. QED BY <2>0, <3>0, <4>1, <4>2 DEF StopAt, StopFacts, Later
    <3>4. CASE AbortPump(k)
      <4>1. stop[k] = "abort" /\ stop'[k] = "end" /\ pump'[j] = "gone"
        BY <1>0, <3>0, <3>4 DEF AbortPump, Step, StopType, JobType
      <4>. QED BY <2>0, <3>0, <4>1 DEF StopAt, StopFacts, Later
    <3>5. CASE EndIt(k)
      <4>1. stop[k] = "end" /\ stop'[k] = "remove" /\ UNCHANGED <<pump, missed>>
        BY <1>0, <3>5 DEF EndIt, Step, StopType, Stopping
      <4>2. j \notin missed => Terminal(meta'[j]) /\ file'[j] = meta'[j]
        <5>1. file'[j] = meta'[j] BY <1>0, <3>0, <3>5 DEF EndIt, RecordType
        <5>2. meta[j] \in Meta /\ Cancelled \in Ended /\ Interrupted \in Ended
          BY <1>0, <3>0, Names DEF RecordType
        <5>3. ~Terminal(meta[j]) => \E s \in Ended : meta'[j] = Finish(meta[j], s)
          BY <1>0, <3>0, <3>5, <5>2 DEF EndIt, RecordType
        <5>4. Terminal(meta[j]) => meta' = meta BY <3>5 DEF EndIt
        <5>. QED BY <5>1, <5>2, <5>3, <5>4, RecordTypes
      <4>. QED BY <2>0, <3>0, <4>1, <4>2 DEF StopAt, StopFacts, Later
    <3>6. CASE Forget(k)
      <4>1. stop[k] = "remove" /\ stop'[k] = "requested"
        BY <1>0, <3>6 DEF Forget, Step, StopType
      <4>. QED BY <2>0, <3>0, <4>1 DEF StopAt, StopFacts, Later
    <3>. QED BY <2>2, <3>1, <3>2, <3>3, <3>4, <3>5, <3>6 DEF StopStep
  <2>. QED BY <2>1, <2>2
<1>. QED BY <1>1, <1>2 DEF StopInv

Story == TypeInv /\ JobInv /\ StopInv

LEMMA InitStory == Init => Story
<1> SUFFICES ASSUME Init PROVE JobInv /\ StopInv
  BY InitType DEF Story
<1>1. JobInv
  BY RecordTypes, Names DEF Init, JobInv, JobOf, KeptOf, CallOf, StoryOf, CancelOf, Terminal,
                            AtLine, Unsent
<1>2. StopInv BY DEF Init, StopInv, StopAt
<1>. QED BY <1>1, <1>2

LEMMA NextStory == Story /\ [Next]_vars => Story'
<1> SUFFICES ASSUME Story, [Next]_vars PROVE Story'
  OBVIOUS
<1>0. TypeInv /\ JobInv /\ StopInv /\ StopType /\ TypeInv' BY NextType DEF Story, TypeInv
<1>1. CASE Next
  <2>1. StopFacts BY <1>0, <1>1, Grows
  <2>2. CASE \E j \in Jobs : Begin(j) \/ CallStep(j) \/ CancelBeforeSending(j)
    <3>1. UNCHANGED stops BY <2>2 DEF CallStep, Begin, Refuse, Ask, Answer, CancelBeforeSending,
                                      CheckCaps, Send, NoAck, Record, Insert, Spawn, Waited,
                                      ReturnCancelled, Return, Call, calls
    <3>. QED BY <1>0, <2>1, <2>2, <3>1, CallJob, StopStays DEF Story
  <2>3. CASE \E j \in Jobs : PumpStep(j)
    <3>1. UNCHANGED stops BY <2>3 DEF PumpStep, Beat, Store, Count, Write, End, TimeLimit, Save,
                                      Leave, Pump, Pumps, Tell
    <3>. QED BY <1>0, <2>1, <2>3, <3>1, PumpJob, StopStays DEF Story
  <2>4. CASE \E j \in Jobs : EngineStep(j)
    <3>1. UNCHANGED stops BY <2>4 DEF EngineStep, EngineDone, EngineStops, EngineDies, Engine,
                                      AtWork
    <3>. QED BY <1>0, <2>1, <2>4, <3>1, EngineJob, StopStays DEF Story
  <2>5. CASE \E k \in Stoppers : StopsJob(k)
    BY <1>0, <2>1, <2>5, StopJob, StopStepStop DEF Story
  <2>6. CASE Shutdown \/ Collect \/ Recover
    <3>1. UNCHANGED stops BY <2>6 DEF Shutdown, Collect, Recover
    <3>. QED BY <1>0, <2>1, <2>6, <3>1, LifeJob, StopStays DEF Story
  <2>7. CASE Serves /\ Dies
    <3>1. \A k \in Stoppers : stop'[k] = "none" BY <2>7 DEF Dies
    <3>2. StopInv' BY <3>1 DEF StopInv, StopAt
    <3>. QED BY <1>0, <2>7, <3>2, LifeJob DEF Story
  <2>. QED BY <1>1, <2>2, <2>3, <2>4, <2>5, <2>6, <2>7, Steps
<1>2. CASE UNCHANGED vars
  <2>. USE DEF vars, session, calls, jobs, pumps, engines, stops
  <2>1. JobInv' BY <1>0, <1>2 DEF JobInv, JobOf, KeptOf, CallOf, StoryOf, CancelOf, Serves
  <2>2. StopInv' BY <1>0, <1>2 DEF StopInv, StopAt
  <2>. QED BY <1>0, <2>1, <2>2 DEF Story
<1>. QED BY <1>1, <1>2

\* A scan is recorded as cancelled only if a client asked for that: never because the
\* server went away.
THEOREM OnlyAskedIsCancelled == Spec => []CancelledWasAsked
<1>1. Story => CancelledWasAsked BY DEF Story, JobInv, JobOf, KeptOf, CancelledWasAsked
<1>. QED BY InitStory, NextStory, <1>1, PTL DEF Spec

\* The file of a job that the session ended counts every finding stored for it.
THEOREM EndingsCount == Spec => []EndingCountsAll
<1>1. Story => EndingCountsAll BY DEF Story, JobInv, JobOf, KeptOf, EndingCountsAll
<1>. QED BY InitStory, NextStory, <1>1, PTL DEF Spec

\* Once cancel_scan has answered, the file says that the job ended.
THEOREM CancelsAreFinal == Spec => []CancelIsFinal
<1>1. Story => CancelIsFinal BY Names DEF Story, StopInv, StopAt, CancelIsFinal
<1>. QED BY InitStory, NextStory, <1>1, PTL DEF Spec

\* The file of a job tells one story: it runs, and then it ends, once and for good, whoever
\* ends it and whatever the pump was about to write.
THEOREM Refinement == Spec => ImplementsRecord
<1>1. Init => R!Init BY RecordTypes DEF Init, R!Init
<1>2. ASSUME Story, [Next]_vars
      PROVE  [R!Next]_([j \in Jobs |-> IF j \in missed THEN "unsure" ELSE file[j].status])
  <2>0. bar \in [Jobs -> {"none", "running", "unsure"} \cup Ended] /\ Ended = R!Ended
    BY <1>2, BarType, Names DEF Story, TypeInv, R!Ended
  <2>1. CASE UNCHANGED vars BY <2>1, BarFrame DEF vars, jobs, bar
  <2>2. CASE Next
    <3>1. BarStep BY <1>2, <2>2, NextBar DEF Story
    <3>2. CASE bar' = bar BY <3>2 DEF bar
    <3>3. ASSUME NEW j \in Jobs, Moves(j) PROVE R!Record(j) \/ R!End(j) \/ R!Lose(j)
      BY <2>0, <3>3 DEF Moves, BarBecomes, bar, R!Record, R!End, R!Lose, R!Becomes, R!Sure
    <3>4. ASSUME NEW lost \in SUBSET Jobs, Interrupts(lost) PROVE R!Interrupt(lost)
      <4>1. \A j \in lost : bar[j] = (IF j \in missed THEN "unsure" ELSE file[j].status)
        BY DEF bar
      <4>. QED BY <3>4, <4>1 DEF Interrupts, bar, R!Interrupt
    <3>. QED BY <3>1, <3>2, <3>3, <3>4 DEF BarStep, R!Next
  <2>. QED BY <1>2, <2>1, <2>2
<1>. QED BY InitStory, NextStory, <1>1, <1>2, PTL DEF Spec, ImplementsRecord, R!Spec

-----------------------------------------------------------------------------
(* The limit of scans: scan_start is held from the look at the files to the record *)

Starts == {j \in Jobs : call[j] \in {"send", "ack"}}
Counted == {j \in Jobs \ missed : file[j].status = Running} \cup (Starts \ missed)
Keeps == Starts' \subseteq Starts /\ (starting' = starting \/ starting \notin Starts')
Few(S) == Cardinality(S) <= MaxScans
LockInv == Starts \subseteq {starting} /\ Few(Counted)

LEMMA Subsets ==
  ASSUME NEW S \in SUBSET Jobs, NEW T \in SUBSET S, Few(S) PROVE Few(T)
<1>1. IsFiniteSet(S) /\ IsFiniteSet(T) BY FS_Subset DEF ScansAssumption
<1>2. Cardinality(T) <= Cardinality(S) BY <1>1, FS_Subset
<1>3. Cardinality(S) \in Nat /\ Cardinality(T) \in Nat BY <1>1, FS_CardinalityType
<1>. QED BY <1>2, <1>3 DEF Few, ScansAssumption

\* Except by the look at the caps, nothing is counted that was not counted before.
LEMMA CountedShrinks ==
  ASSUME RecordType, RecordType', BarStep, missed \subseteq missed', Starts' \subseteq Starts
  PROVE  Counted' \subseteq Counted
<1> SUFFICES ASSUME NEW j \in Jobs, j \notin missed', file'[j].status = Running \/ j \in Starts'
             PROVE  j \in Counted
  BY DEF Counted, Starts
<1>1. file'[j].status = Running => file[j].status = Running \/ j \in Starts
  BY BarGrows DEF Starts
<1>. QED BY <1>1 DEF Counted

LEMMA NextLock == Story /\ Story' /\ LockInv /\ [Next]_vars => LockInv'
<1> SUFFICES ASSUME Story, Story', LockInv, [Next]_vars PROVE LockInv'
  OBVIOUS
<1> USE DEF session, calls, jobs, pumps, engines, stops
<1>0. SessionType /\ RecordType /\ RecordType' BY DEF Story, TypeInv
<1>1. CASE Next
  <2>1. BarStep /\ missed \subseteq missed' /\ Counted \in SUBSET Jobs
    <3>1. StopFacts BY <1>1, Grows DEF Story
    <3>. QED BY <1>1, <3>1, NextBar DEF Story, StopFacts, Later, Counted, Starts
  <2>2. ASSUME NEW j \in Jobs, CheckCaps(j), WithinCaps PROVE LockInv'
    <3>1. /\ starting = Nobody /\ starting' = j /\ UNCHANGED <<file, missed>>
          /\ \A i \in Jobs : i # j => call'[i] = call[i]
      BY <1>0, <2>2 DEF CheckCaps, Call, SessionType
    <3>2. Starts = {} BY <3>1, Names DEF LockInv, Starts
    <3>3. Starts' \subseteq {j} BY <3>1, <3>2 DEF Starts
    <3>4. Counted' \subseteq RunningFiles \cup {j} BY <3>1, <3>3 DEF Counted, RunningFiles
    <3>5. IsFiniteSet(RunningFiles) /\ Cardinality(RunningFiles) < MaxScans
      BY <2>2, FS_Subset DEF WithinCaps, RunningFiles, ScansAssumption
    <3>6. /\ IsFiniteSet(RunningFiles \cup {j})
          /\ \/ Cardinality(RunningFiles \cup {j}) = Cardinality(RunningFiles)
             \/ Cardinality(RunningFiles \cup {j}) = Cardinality(RunningFiles) + 1
      BY <3>5, FS_AddElement
    <3>7. Cardinality(RunningFiles) \in Nat BY <3>5, FS_CardinalityType
    <3>8. Few(RunningFiles \cup {j}) BY <3>5, <3>6, <3>7 DEF Few, ScansAssumption
    <3>9. RunningFiles \cup {j} \in SUBSET Jobs /\ Counted' \in SUBSET (RunningFiles \cup {j})
      BY <3>4 DEF RunningFiles
    <3>10. Few(Counted') BY <3>8, <3>9, Subsets
    <3>. QED BY <3>1, <3>3, <3>10 DEF LockInv, Few
  <2>3. CASE ~(\E j \in Jobs : CheckCaps(j) /\ WithinCaps)
    <3>1. Starts' \subseteq Starts /\ (starting' = starting \/ starting \notin Starts')
      <4>1. ASSUME NEW j \in Jobs, Begin(j) \/ CallStep(j) \/ CancelBeforeSending(j)
            PROVE  Keeps
        <5>1. \A i \in Jobs : i # j => call'[i] = call[i]
          BY <1>0, <4>1 DEF SessionType, CallStep, Begin, Refuse, Ask, Answer,
                            CancelBeforeSending, CheckCaps, Send, NoAck, Record, Insert, Spawn,
                            Waited, ReturnCancelled, Return, Call
        <5>2. j \in Starts' => j \in Starts
          BY <1>0, <2>3, <4>1 DEF SessionType, Starts, CallStep, Begin, Refuse, Ask, Answer,
                                  CancelBeforeSending, CheckCaps, Send, NoAck, Record, Insert,
                                  Spawn, Waited, ReturnCancelled, Return, Call
        <5>3. starting' = starting \/ (starting' = Nobody /\ starting = j /\ call'[j] \notin {"send", "ack"})
          BY <1>0, <2>3, <4>1 DEF SessionType, CallStep, Begin, Refuse, Ask, Answer,
                                  CancelBeforeSending, CheckCaps, Send, NoAck, Record, Insert,
                                  Spawn, Waited, ReturnCancelled, Return, Call
        <5>. QED BY <5>1, <5>2, <5>3 DEF Starts, Keeps
      <4>2. ASSUME UNCHANGED <<call, starting>> PROVE Keeps
        BY <4>2 DEF Starts, Keeps
      <4>3. ASSUME NEW j \in Jobs, PumpStep(j) PROVE Keeps
        BY <4>2, <4>3 DEF PumpStep, Beat, Store, Count, Write, End, TimeLimit, Save, Leave,
                          Pump, Pumps, Tell
      <4>4. ASSUME NEW j \in Jobs, EngineStep(j) PROVE Keeps
        BY <4>2, <4>4 DEF EngineStep, EngineDone, EngineStops, EngineDies, Engine, AtWork
      <4>5. ASSUME NEW k \in Stoppers, StopsJob(k) PROVE Keeps
        BY <4>2, <4>5 DEF StopsJob, StopStep, LookUp, CancelCall, AskEngine, SeeItEnd,
                          WaitedEnough, TakePump, AbortPump, EndIt, Forget, Step, Stopping,
                          Tell, Misses, EndNext, DropWriter
      <4>6. ASSUME Shutdown \/ Collect \/ Recover PROVE Keeps
        BY <4>2, <4>6 DEF Shutdown, Collect, Recover
      <4>7. ASSUME Dies PROVE Keeps
        BY <4>7 DEF Dies, Starts, Keeps
      <4>. QED BY <1>1, <4>1, <4>3, <4>4, <4>5, <4>6, <4>7, Steps DEF Keeps
    <3>2. Starts' \subseteq {starting'} BY <3>1 DEF LockInv
    <3>3. Counted' \in SUBSET Counted BY <1>0, <2>1, <3>1, CountedShrinks
    <3>4. Few(Counted') BY <2>1, <3>3, Subsets DEF LockInv
    <3>. QED BY <3>2, <3>4 DEF LockInv, Few
  <2>. QED BY <2>2, <2>3
<1>2. CASE UNCHANGED vars
  BY <1>2 DEF vars, LockInv, Few, Counted, Starts
<1>. QED BY <1>1, <1>2

\* Scans recorded as running, and scans being started, are no more than the scope allows.
THEOREM LimitOfScans == Spec => []NeverTooMany
<1>1. Init => LockInv
  <2> SUFFICES ASSUME Init PROVE LockInv
    OBVIOUS
  <2>1. Starts = {} /\ Counted = {} BY RecordTypes, Names DEF Init, Starts, Counted
  <2>. QED BY <2>1, FS_EmptySet DEF LockInv, Few, ScansAssumption
<1>2. LockInv => NeverTooMany
  <2>1. Counted = {j \in Jobs \ missed : file[j].status = Running \/ call[j] \in {"send", "ack"}}
    BY DEF Counted, Starts
  <2>. QED BY <2>1 DEF LockInv, Few, NeverTooMany
<1>. QED BY InitStory, NextStory, NextLock, <1>1, <1>2, PTL DEF Spec
=============================================================================
