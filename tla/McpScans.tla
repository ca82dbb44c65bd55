------------------------------- MODULE McpScans -------------------------------
(* The scans of an MCP session: start_scan and pump of mcp/src/tools/inject.rs,      *)
(* cancel_job and shutdown of mcp/src/core.rs, cancel_scan of mcp/src/tools/scans.rs, *)
(* the job files of mcp/src/jobs.rs, the question about the scope of                  *)
(* mcp/src/confirm.rs, and run_op of plessor/src/daemon.rs at the other end.          *)
(*                                                                                   *)
(* Tasks run on several threads: what a task does between two awaits is one step only *)
(* where nothing else it shares can be seen in between. A job is named by the call    *)
(* that starts it. A session that ends is followed by another on the same directory.  *)
EXTENDS Naturals, FiniteSets

CONSTANTS
  Jobs,             \* calls that start a scan, each made once
  Stops,            \* cancel_scan calls, each made once for a job or not at all
  MaxScans,         \* max_concurrent_scans of the scope file
  MaxStarts,        \* max_scan_starts_per_hour
  MaxFindings,      \* findings a scan has
  MaxBeats          \* how often the pump writes the job while it runs

Nobody == "nobody"
Server == "server"

ASSUME ScansAssumption ==
  /\ IsFiniteSet(Jobs) /\ {Nobody, Server} \cap (Jobs \cup Stops) = {}
  /\ MaxScans \in Nat /\ MaxStarts \in Nat /\ MaxFindings \in Nat /\ MaxBeats \in Nat

Running == "running"
Completed == "completed"
Failed == "failed"
Cancelled == "cancelled"
Interrupted == "interrupted"
Ended == {Completed, Failed, Cancelled, Interrupted}

\* A job's record, in memory and in its file: its status and its number of findings.
None == [status |-> "none", count |-> 0]
Begun == [status |-> Running, count |-> 0]
Terminal(m) == m.status \in Ended
Finish(m, s) == [m EXCEPT !.status = s]

VARIABLES
  \* The session
  life,             \* "serving", shutdown's "stopping" and "ending", "dead", and "next", its successor
  answer,           \* to the question whether the scope may be tested
  asking,           \* the call that holds the question's lock
  starting,         \* the call that holds scan_start
  \* Calls that start a scan
  call,
  open,             \* calls without their audit line
  lines,            \* how many audit lines a call has
  \* Jobs
  meta, file,       \* the record in memory, and on disk
  stored,           \* findings on disk
  seen,             \* the snapshot says that the job ended
  known,            \* the job is in the map of running ones
  handle,           \* of its pump: not stored yet, stored or taken
  writer,           \* the job holds the half of the connection that it can cancel on
  asked,            \* cancel_requested
  pump, copy,       \* the place of the pump, and what it is about to write
  beats,
  \* The engine
  engine, line,     \* what the operation does, and the line that ends it, on its way
  cancellable,      \* it says that it can be stopped
  \* What stops a scan: cancel_scan, a call of start_scan that is cancelled, and shutdown
  stop, of,         \* its place, and its job
  left,             \* jobs that shutdown has still to end
  missed            \* history: jobs that somebody ended while their pump went on

session == <<life, answer, asking, starting>>
calls == <<call, open, lines>>
jobs == <<meta, file, stored, seen, known, handle, writer, asked>>
pumps == <<pump, copy, beats>>
engines == <<engine, line, cancellable>>
stops == <<stop, of>>
vars == <<session, calls, jobs, pumps, engines, stops, left, missed>>

\* What stops a job: a call of cancel_scan, the call that started it, or shutdown.
Stoppers == Stops \cup Jobs \cup {Server}
Serves == life \notin {"dead", "next"}

Init ==
  /\ life = "serving" /\ answer \in {"unasked", "file"} /\ asking = Nobody /\ starting = Nobody
  /\ call = [j \in Jobs |-> "none"] /\ open = {} /\ lines = [j \in Jobs |-> 0]
  /\ meta = [j \in Jobs |-> None] /\ file = [j \in Jobs |-> None]
  /\ stored = [j \in Jobs |-> 0] /\ seen = {} /\ known = {}
  /\ handle = [j \in Jobs |-> "none"] /\ writer = {} /\ asked = {}
  /\ pump = [j \in Jobs |-> "none"] /\ copy = [j \in Jobs |-> None]
  /\ beats = [j \in Jobs |-> 0]
  /\ engine = [j \in Jobs |-> "none"] /\ line = [j \in Jobs |-> "none"]
  /\ cancellable \in SUBSET Jobs
  /\ stop = [k \in Stoppers |-> "none"] /\ of = [k \in Stoppers |-> Nobody]
  /\ left = {} /\ missed = {}

-------------------------------------------------------------------------------
(* start_scan *)

Call(j, place) == call' = [call EXCEPT ![j] = place]

Return_WritesAlways(j) ==
  /\ Call(j, "over")
  /\ open' = open \ {j}
  /\ lines' = [lines EXCEPT ![j] = @ + 1]

\* The call is over; it or the shutdown writes its line.
Return(j) ==
  /\ Call(j, "over")
  /\ open' = open \ {j}
  /\ lines' = [lines EXCEPT ![j] = IF j \in open THEN @ + 1 ELSE @]

RunningFiles == {j \in Jobs : file[j].status = Running}
Recorded == {j \in Jobs : file[j] # None}
WithinCaps == Cardinality(RunningFiles) < MaxScans /\ Cardinality(Recorded) < MaxStarts

\* A call arrives; the caps are looked at before anybody is asked.
Begin(j) ==
  /\ life = "serving" /\ call[j] = "none"
  /\ Call(j, IF WithinCaps THEN "confirm" ELSE "refused")
  /\ open' = open \cup {j}
  /\ UNCHANGED <<lines, session, jobs, pumps, engines, stops, left, missed>>

Refuse(j) ==
  /\ Serves /\ call[j] = "refused"
  /\ Return(j)
  /\ UNCHANGED <<session, jobs, pumps, engines, stops, left, missed>>

\* Confirmations::scope: calls wait for the lock, so a person sees one question. The
\* answer is "file" from the start when the client cannot show one.
Ask(j) ==
  /\ Serves /\ call[j] = "confirm" /\ asking = Nobody
  /\ CASE answer \in {"elicited", "file"} -> Call(j, "lock") /\ UNCHANGED asking
       [] answer = "declined" -> Call(j, "refused") /\ UNCHANGED asking
       [] OTHER -> asking' = j /\ UNCHANGED call
  /\ UNCHANGED <<life, answer, starting, open, lines, jobs, pumps, engines, stops, left, missed>>

\* A question that is dismissed, or whose call is cancelled, is asked again.
Answer(j) ==
  /\ Serves /\ asking = j /\ asking' = Nobody
  /\ \/ answer' = "elicited" /\ Call(j, "lock")
     \/ answer' \in {"declined", "unasked"} /\ Call(j, "refused")
  /\ UNCHANGED <<life, starting, open, lines, jobs, pumps, engines, stops, left, missed>>

CancelBeforeSending(j) ==
  /\ Serves /\ call[j] = "confirm" /\ asking # j
  /\ Call(j, "refused")
  /\ UNCHANGED <<session, open, lines, jobs, pumps, engines, stops, left, missed>>

CheckCaps_ReleasesTheLock(j) ==
  /\ Serves /\ call[j] = "lock" /\ starting = Nobody
  /\ Call(j, IF WithinCaps THEN "send" ELSE "refused")
  /\ UNCHANGED <<session, open, lines, jobs, pumps, engines, stops, left, missed>>

\* scan_start is held from the final look at the caps until the job is recorded.
CheckCaps(j) ==
  /\ Serves /\ call[j] = "lock" /\ starting = Nobody
  /\ IF WithinCaps THEN starting' = j /\ Call(j, "send")
                   ELSE UNCHANGED starting /\ Call(j, "refused")
  /\ UNCHANGED <<life, answer, asking, open, lines, jobs, pumps, engines, stops, left, missed>>

Send(j) ==
  /\ Serves /\ call[j] = "send"
  /\ engine' = [engine EXCEPT ![j] = "works"] /\ Call(j, "ack")
  /\ UNCHANGED <<session, open, lines, jobs, pumps, line, cancellable, stops, left, missed>>

\* No acknowledgement in time, or an error in its place: the connection is dropped.
NoAck(j) ==
  /\ Serves /\ call[j] = "ack"
  /\ starting' = IF starting = j THEN Nobody ELSE starting
  /\ Call(j, "refused")
  /\ UNCHANGED <<life, answer, asking, open, lines, jobs, pumps, engines, stops, left, missed>>

Record(j) ==
  /\ Serves /\ call[j] = "ack"
  /\ meta' = [meta EXCEPT ![j] = Begun] /\ file' = [file EXCEPT ![j] = Begun]
  /\ starting' = IF starting = j THEN Nobody ELSE starting
  /\ writer' = writer \cup {j}
  /\ Call(j, "recorded")
  /\ UNCHANGED <<life, answer, asking, open, lines, stored, seen, known, handle, asked, pumps,
                 engines, stops, left, missed>>

\* The job is in the map before its pump's handle is in the job.
Insert(j) ==
  /\ Serves /\ call[j] = "recorded"
  /\ known' = known \cup {j} /\ Call(j, "known")
  /\ UNCHANGED <<session, open, lines, meta, file, stored, seen, handle, writer, asked, pumps,
                 engines, stops, left, missed>>

Spawn(j) ==
  /\ Serves /\ call[j] = "known"
  /\ pump' = [pump EXCEPT ![j] = "reading"]
  /\ handle' = [handle EXCEPT ![j] = "stored"]
  /\ Call(j, "waiting")
  /\ UNCHANGED <<session, open, lines, meta, file, stored, seen, known, writer, asked, copy,
                 beats, engines, stops, left, missed>>

\* The scan ended, its pump is gone, or the call has waited as long as it was told to.
Waited(j) ==
  /\ Serves /\ call[j] = "waiting" /\ stop[j] = "none"
  /\ Return(j)
  /\ UNCHANGED <<session, jobs, pumps, engines, stops, left, missed>>

-------------------------------------------------------------------------------
(* pump *)

Pump(j, place) == pump' = [pump EXCEPT ![j] = place]
Pumps == UNCHANGED <<session, calls, handle, asked, stops, left, missed>>

\* Progress or a heartbeat: the record is copied, and then written.
Beat(j) ==
  /\ Serves /\ pump[j] = "reading" /\ beats[j] < MaxBeats
  /\ beats' = [beats EXCEPT ![j] = @ + 1]
  /\ copy' = [copy EXCEPT ![j] = meta[j]] /\ Pump(j, "writing")
  /\ UNCHANGED <<meta, file, stored, seen, known, writer, engines>> /\ Pumps

\* A finding is stored before it is counted.
Store(j) ==
  /\ Serves /\ pump[j] = "reading" /\ engine[j] \in {"works", "told"}
  /\ stored[j] < MaxFindings
  /\ stored' = [stored EXCEPT ![j] = @ + 1] /\ Pump(j, "counting")
  /\ UNCHANGED <<meta, file, seen, known, writer, copy, beats, engines>> /\ Pumps

Count(j) ==
  /\ Serves /\ pump[j] = "counting"
  /\ meta' = [meta EXCEPT ![j].count = @ + 1]
  /\ copy' = [copy EXCEPT ![j] = meta'[j]] /\ Pump(j, "writing")
  /\ UNCHANGED <<file, stored, seen, known, writer, beats, engines>> /\ Pumps

\* Not more often than once a second.
Write(j) ==
  /\ Serves /\ pump[j] = "writing"
  /\ file' \in {file, [file EXCEPT ![j] = copy[j]]}
  /\ copy' = [copy EXCEPT ![j] = None] /\ Pump(j, "reading")
  /\ UNCHANGED <<meta, stored, seen, known, writer, beats, engines>> /\ Pumps

\* The line that ends the operation, or the end of the connection.
Outcome(j) ==
  CASE line[j] = "done" -> Completed
    [] line[j] = "stopped" -> Cancelled
    [] line[j] = "eof" -> IF j \in asked THEN Cancelled ELSE Failed

End(j) ==
  /\ Serves /\ pump[j] = "reading" /\ line[j] # "none"
  /\ meta' = [meta EXCEPT ![j] = Finish(@, Outcome(j))]
  /\ Pump(j, "ending")
  /\ UNCHANGED <<file, stored, seen, known, writer, copy, beats, engines>> /\ Pumps

Tell(j) == engine' = [engine EXCEPT ![j] = IF @ = "works" THEN "told" ELSE @]

TimeLimit_WaitsForTheEngine(j) ==
  /\ Serves /\ pump[j] = "reading" /\ engine[j] = "works" /\ j \in writer
  /\ Tell(j)
  /\ UNCHANGED <<meta, file, stored, seen, known, writer, pump, copy, beats, line, cancellable>>
  /\ Pumps

\* SCAN_TIME_LIMIT: the engine is told to stop, and not waited for.
TimeLimit(j) ==
  /\ Serves /\ pump[j] = "reading"
  /\ IF j \in writer THEN Tell(j) ELSE UNCHANGED engine
  /\ meta' = [meta EXCEPT ![j] = Finish(@, Failed)]
  /\ Pump(j, "ending")
  /\ UNCHANGED <<file, stored, seen, known, writer, copy, beats, line, cancellable>> /\ Pumps

\* What follows the loop: the file, the map, the snapshot, and the connection.
Save(j) ==
  /\ Serves /\ pump[j] = "ending"
  /\ file' = [file EXCEPT ![j] = meta[j]] /\ Pump(j, "leaving")
  /\ UNCHANGED <<meta, stored, seen, known, writer, copy, beats, engines>> /\ Pumps

Leave(j) ==
  /\ Serves /\ pump[j] = "leaving"
  /\ known' = known \ {j} /\ seen' = seen \cup {j} /\ writer' = writer \ {j}
  /\ Pump(j, "gone")
  /\ UNCHANGED <<meta, file, stored, copy, beats, engines>> /\ Pumps

-------------------------------------------------------------------------------
(* run_op of the engine, as long as somebody reads its answers *)

Engine == UNCHANGED <<session, calls, jobs, pumps, cancellable, stops, left, missed>>
AtWork(j) == engine[j] \in {"works", "told"} /\ pump[j] \notin {"none", "gone"}

EngineDone(j) ==
  /\ AtWork(j) /\ line' = [line EXCEPT ![j] = "done"]
  /\ engine' = [engine EXCEPT ![j] = "over"] /\ Engine

EngineStops(j) ==
  /\ AtWork(j) /\ engine[j] = "told" /\ j \in cancellable
  /\ line' = [line EXCEPT ![j] = "stopped"]
  /\ engine' = [engine EXCEPT ![j] = "over"] /\ Engine

EngineDies(j) ==
  /\ AtWork(j) /\ line' = [line EXCEPT ![j] = "eof"]
  /\ engine' = [engine EXCEPT ![j] = "over"] /\ Engine

-------------------------------------------------------------------------------
(* cancel_scan and cancel_job *)

Step(k, place) == stop' = [stop EXCEPT ![k] = place]
Stopping == UNCHANGED <<session, pumps, line, cancellable, left>>

\* cancel_scan looks the job up, among the running ones and then on disk, where one that
\* runs is refused.
LookUp(k, j) ==
  /\ life = "serving" /\ k \in Stops /\ stop[k] = "none" /\ file[j] # None
  /\ of' = [of EXCEPT ![k] = j]
  /\ Step(k, IF j \in known THEN "ask" ELSE "refused")
  /\ UNCHANGED <<calls, jobs, engine, missed>> /\ Stopping

\* The client cancels a call that waits for its scan.
CancelCall(j) ==
  /\ Serves /\ call[j] = "waiting" /\ stop[j] = "none"
  /\ of' = [of EXCEPT ![j] = j] /\ Step(j, "ask")
  /\ UNCHANGED <<calls, jobs, engine, missed>> /\ Stopping

AskEngine(k) ==
  /\ Serves /\ stop[k] = "ask"
  /\ LET j == of[k] IN
       /\ asked' = asked \cup {j}
       /\ IF j \in writer
            THEN Tell(j) /\ Step(k, IF j \in cancellable THEN "wait" ELSE "take")
            ELSE UNCHANGED engine /\ Step(k, "take")
  /\ UNCHANGED <<calls, meta, file, stored, seen, known, handle, writer, of, missed>>
  /\ Stopping

\* The job ended while the engine was given three seconds: "stopped".
SeeItEnd(k) ==
  /\ Serves /\ stop[k] = "wait" /\ of[k] \in seen
  /\ Step(k, "stopped")
  /\ UNCHANGED <<calls, jobs, engine, of, missed>> /\ Stopping

WaitedEnough(k) ==
  /\ Serves /\ stop[k] = "wait"
  /\ Step(k, "take")
  /\ UNCHANGED <<calls, jobs, engine, of, missed>> /\ Stopping

\* A pump can be aborted where it awaits, and has ended when abort is awaited.
AtAwait(j) == pump[j] \in {"none", "reading", "gone"}
Misses(j) == missed' = IF handle[j] # "stored" /\ pump[j] # "gone" THEN missed \cup {j} ELSE missed

TakePump_Leaves(k) ==
  /\ Serves /\ stop[k] = "take"
  /\ Step(k, "end")
  /\ writer' = IF k = Server THEN writer ELSE writer \ {of[k]}
  /\ UNCHANGED <<calls, meta, file, stored, seen, known, handle, asked, engine, of, missed>>
  /\ Stopping

\* cancel_job closes the connection first, shutdown does so last.
TakePump(k) ==
  /\ Serves /\ stop[k] = "take"
  /\ LET j == of[k] IN
       /\ Misses(j)
       /\ writer' = IF k = Server THEN writer ELSE writer \ {j}
       /\ IF handle[j] = "stored"
            THEN handle' = [handle EXCEPT ![j] = "taken"] /\ Step(k, "abort")
            ELSE UNCHANGED handle /\ Step(k, "end")
  /\ UNCHANGED <<calls, meta, file, stored, seen, known, asked, engine, of>>
  /\ Stopping

AbortPump_AnyTime(k) ==
  /\ Serves /\ stop[k] = "abort"
  /\ pump' = [pump EXCEPT ![of[k]] = "gone"]
  /\ Step(k, "end")
  /\ UNCHANGED <<session, calls, jobs, copy, beats, engines, of, left, missed>>

AbortPump(k) ==
  /\ Serves /\ stop[k] = "abort" /\ AtAwait(of[k])
  /\ pump' = [pump EXCEPT ![of[k]] = "gone"]
  /\ Step(k, "end")
  /\ UNCHANGED <<session, calls, jobs, copy, beats, engines, of, left, missed>>

EndIt_Overwrites(k) ==
  /\ Serves /\ stop[k] = "end"
  /\ LET j == of[k] IN
       /\ IF k = Server /\ j \in writer THEN Tell(j) ELSE UNCHANGED engine
       /\ meta' = [meta EXCEPT ![j] = Finish(@, IF k = Server THEN Interrupted ELSE Cancelled)]
       /\ file' = [file EXCEPT ![j] = meta'[j]]
  /\ Step(k, "remove")
  /\ UNCHANGED <<calls, stored, seen, known, handle, writer, asked, of, missed>>
  /\ Stopping

\* shutdown tells the engine here, when the pump cannot read the answer any more.
EndIt(k) ==
  /\ Serves /\ stop[k] = "end"
  /\ LET j == of[k] IN
       /\ IF k = Server /\ j \in writer THEN Tell(j) ELSE UNCHANGED engine
       /\ meta' = IF Terminal(meta[j]) THEN meta
                  ELSE [meta EXCEPT ![j] = Finish(@, IF k = Server THEN Interrupted ELSE Cancelled)]
       /\ file' = [file EXCEPT ![j] = meta'[j]]
  /\ Step(k, "remove")
  /\ UNCHANGED <<calls, stored, seen, known, handle, writer, asked, of, missed>>
  /\ Stopping

Forget(k) ==
  /\ Serves /\ k # Server /\ stop[k] = "remove"
  /\ known' = known \ {of[k]} /\ Step(k, "requested")
  /\ UNCHANGED <<calls, meta, file, stored, seen, handle, writer, asked, engine, of, missed>>
  /\ Stopping

\* A cancelled call returns when its scan was stopped.
ReturnCancelled(j) ==
  /\ Serves /\ call[j] = "waiting" /\ stop[j] \in {"stopped", "requested"}
  /\ Return(j)
  /\ UNCHANGED <<session, jobs, pumps, engines, stops, left, missed>>

-------------------------------------------------------------------------------
(* shutdown, the end of the process, and the session after it *)

Shutdown ==
  /\ life = "serving" /\ life' = "stopping"
  /\ lines' = [j \in Jobs |-> IF j \in open THEN lines[j] + 1 ELSE lines[j]]
  /\ open' = {}
  /\ UNCHANGED <<answer, asking, starting, call, jobs, pumps, engines, stops, left, missed>>

Collect ==
  /\ life = "stopping" /\ life' = "ending" /\ left' = known
  /\ UNCHANGED <<answer, asking, starting, calls, jobs, pumps, engines, stops, missed>>

EndNext_TellsFirst(j) ==
  /\ life = "ending" /\ stop[Server] = "none" /\ j \in left
  /\ of' = [of EXCEPT ![Server] = j] /\ Step(Server, "take")
  /\ IF j \in writer THEN Tell(j) ELSE UNCHANGED engine
  /\ UNCHANGED <<calls, jobs, missed>> /\ Stopping

\* One job after the other.
EndNext(j) ==
  /\ life = "ending" /\ stop[Server] = "none" /\ j \in left
  /\ of' = [of EXCEPT ![Server] = j] /\ Step(Server, "take")
  /\ UNCHANGED <<calls, jobs, engine, missed>> /\ Stopping

DropWriter ==
  /\ Serves /\ stop[Server] = "remove"
  /\ writer' = writer \ {of[Server]} /\ left' = left \ {of[Server]}
  /\ Step(Server, "none")
  /\ UNCHANGED <<session, calls, meta, file, stored, seen, known, handle, asked, pumps, engines,
                 of, missed>>

\* The process is gone. What the engines do from here on nobody reads.
Dies ==
  /\ life' = "dead" /\ answer' = "unasked" /\ asking' = Nobody /\ starting' = Nobody
  /\ call' = [j \in Jobs |-> "killed"] /\ open' = {}
  /\ meta' = [j \in Jobs |-> None] /\ copy' = meta' /\ beats' = [j \in Jobs |-> 0]
  /\ seen' = {} /\ known' = {} /\ writer' = {} /\ handle' = [j \in Jobs |-> "none"]
  /\ pump' = [j \in Jobs |-> "gone"]
  /\ engine' = [j \in Jobs |-> "over"] /\ line' = [j \in Jobs |-> "none"]
  /\ stop' = [k \in Stoppers |-> "none"] /\ of' = [k \in Stoppers |-> Nobody]
  /\ left' = {}
  /\ UNCHANGED <<lines, file, stored, asked, cancellable, missed>>

Stopped == life = "ending" /\ left = {} /\ Dies
Crash == Serves /\ Dies

\* recover, on the jobs whose heartbeat is old enough.
Recover ==
  /\ life = "dead" /\ life' = "next"
  /\ \E stale \in SUBSET RunningFiles :
       file' = [j \in Jobs |-> IF j \in stale THEN Finish(file[j], Interrupted) ELSE file[j]]
  /\ UNCHANGED <<answer, asking, starting, calls, meta, stored, seen, known, handle, writer,
                 asked, pumps, engines, stops, left, missed>>

-------------------------------------------------------------------------------
CallStep(j) == \/ Refuse(j) \/ Ask(j) \/ Answer(j) \/ CheckCaps(j) \/ Send(j) \/ NoAck(j)
            \/ Record(j) \/ Insert(j) \/ Spawn(j) \/ Waited(j) \/ ReturnCancelled(j)
PumpStep(j) == \/ Beat(j) \/ Store(j) \/ Count(j) \/ Write(j) \/ End(j) \/ TimeLimit(j)
               \/ Save(j) \/ Leave(j)
EngineStep(j) == EngineDone(j) \/ EngineStops(j) \/ EngineDies(j)
StopStep(k) == \/ AskEngine(k) \/ SeeItEnd(k) \/ WaitedEnough(k)
               \/ TakePump(k) \/ AbortPump(k) \/ EndIt(k) \/ Forget(k)
ShutdownStep == Collect \/ (\E j \in Jobs : EndNext(j)) \/ DropWriter \/ Stopped

Next ==
  \/ \E j \in Jobs : Begin(j) \/ CancelBeforeSending(j) \/ CancelCall(j)
  \/ \E j \in Jobs : CallStep(j) \/ PumpStep(j) \/ EngineStep(j)
  \/ \E k \in Stoppers : StopStep(k) \/ (\E j \in Jobs : LookUp(k, j))
  \/ Shutdown \/ ShutdownStep \/ Crash \/ Recover

Spec == Init /\ [][Next]_vars

\* Tasks run; a question is answered or times out, an engine acknowledges or is given up,
\* and the clock reaches the limit of a scan.
FairSpec ==
  /\ Spec
  /\ \A j \in Jobs : WF_vars(CallStep(j)) /\ WF_vars(PumpStep(j)) /\ WF_vars(TimeLimit(j))
  /\ \A k \in Stoppers : WF_vars(StopStep(k))
  /\ WF_vars(ShutdownStep)

-------------------------------------------------------------------------------
Meta == [status : {"none", Running} \cup Ended, count : 0..MaxFindings]

\* Every variable has its type: among others, a call has at most one line, and the job that
\* a stop is at is one that was recorded.
TypeOK ==
  /\ life \in {"serving", "stopping", "ending", "dead", "next"}
  /\ answer \in {"unasked", "elicited", "file", "declined"}
  /\ asking \in Jobs \cup {Nobody} /\ starting \in Jobs \cup {Nobody}
  /\ call \in [Jobs -> {"none", "confirm", "refused", "lock", "send", "ack", "recorded", "known",
                        "waiting", "over", "killed"}]
  /\ open \subseteq Jobs /\ lines \in [Jobs -> 0..1]
  /\ meta \in [Jobs -> Meta] /\ file \in [Jobs -> Meta]
  /\ stored \in [Jobs -> 0..MaxFindings]
  /\ seen \subseteq Jobs /\ known \subseteq Jobs
  /\ handle \in [Jobs -> {"none", "stored", "taken"}]
  /\ writer \subseteq Jobs /\ asked \subseteq Jobs
  /\ pump \in [Jobs -> {"none", "reading", "counting", "writing", "ending", "leaving", "gone"}]
  /\ copy \in [Jobs -> Meta] /\ beats \in [Jobs -> 0..MaxBeats]
  /\ engine \in [Jobs -> {"none", "works", "told", "over"}]
  /\ line \in [Jobs -> {"none", "done", "stopped", "eof"}] /\ cancellable \subseteq Jobs
  /\ stop \in [Stoppers -> {"none", "refused", "ask", "wait", "stopped", "take", "abort",
                            "end", "remove", "requested"}]
  /\ of \in [Stoppers -> Jobs \cup {Nobody}]
  /\ left \subseteq Jobs /\ missed \subseteq Jobs

\* The file of a job tells one story: it runs, and then it ends, once and for good, whoever
\* ends it and whatever the pump was about to write (jobs.rs, write_meta of five callers).
\* A job that somebody ended without having its pump is left out.
R == INSTANCE ScanRecord
       WITH status <- [j \in Jobs |-> IF j \in missed THEN "unsure" ELSE file[j].status]
ImplementsRecord == R!Spec

\* A scan is recorded as cancelled only if a client asked for that: never because the
\* server went away (the comment in shutdown).
CancelledWasAsked ==
  \A j \in Jobs \ missed : file[j].status = Cancelled => j \in asked

\* Once cancel_scan has answered, the file says that the job ended.
CancelIsFinal ==
  \A k \in Stops : (stop[k] \in {"stopped", "requested"} /\ of[k] \notin missed)
                     => Terminal(file[of[k]])

\* Scans recorded as running, and scans being started, are no more than the scope allows.
NeverTooMany ==
  Cardinality({j \in Jobs \ missed : file[j].status = Running \/ call[j] \in {"send", "ack"}})
    <= MaxScans

\* A call that returned has its line, and no call has two: not even one that the shutdown
\* wrote the line of while it was returning.
AuditedOnce ==
  \A j \in Jobs : lines[j] <= 1 /\ (call[j] = "over" => lines[j] = 1)

\* The file of a job that the session ended counts every finding stored for it.
EndingCountsAll ==
  \A j \in Jobs \ missed :
    (Terminal(file[j]) /\ life # "next") => file[j].count = stored[j]

\* A recorded scan ends, whatever the engine does, unless the server goes away first.
RecordedEnds ==
  \A j \in Jobs : (file[j].status = Running) ~> (Terminal(file[j]) \/ life # "serving")

===============================================================================
