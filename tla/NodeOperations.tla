----------------------------- MODULE NodeOperations -----------------------------
(* How a node executes the operations it is dispatched: run_operation, the pull  *)
(* consumer of its work queue and the command handlers of core/src/lib.rs, with  *)
(* the terminal messages of core/src/ops.                                        *)
(*                                                                               *)
(* The operations belong to one workflow. Each delivery of a message spawns a    *)
(* task of its own, a copy; what a copy does between two awaits is one step, and *)
(* so is each look at a set behind a mutex. Which settings an operation goes out *)
(* on is the subject of NodeEgress: here Decide takes any outcome, and a copy    *)
(* that sends directly can be stopped at any time. The platform, its work queue  *)
(* and the other nodes are external.                                             *)
EXTENDS Naturals, FiniteSets, Sequences, SequencesExt

CONSTANTS
  Ops,              \* operations of the workflow
  Gated,            \* those of a type that takes a permit of the workflow
  Claimed,          \* those several nodes were dispatched, of which one may run them
  Attentive,        \* those whose handler looks at the halt between two answers
  Unknown,          \* those of a type the node has no handler for
  Msgs,             \* slots for dispatched messages; an acked one is used again
  Copies,           \* tasks that run_operation was spawned in
  Tasks,            \* permits of the workflow
  MaxAckPending,    \* delivered messages the queue lets go unacked
  OutboxSize,       \* what the client buffers of what the node publishes
  MaxHalts, MaxCrashes,             \* bounds of the model
  MaxLosses         \* and of what the network loses: publishes, and answers cut short

NoOp == "no operation"
NoMsg == "no message"

ASSUME OperationsAssumption ==
  /\ Gated \subseteq Ops /\ Claimed \subseteq Ops /\ Attentive \subseteq Ops
  /\ Unknown \subseteq Ops /\ NoOp \notin Ops /\ NoMsg \notin Msgs
  /\ IsFiniteSet(Copies)
  /\ Tasks \in Nat \ {0} /\ MaxAckPending \in Nat \ {0} /\ OutboxSize \in Nat \ {0}
  /\ MaxHalts \in Nat /\ MaxCrashes \in Nat /\ MaxLosses \in Nat

VARIABLES
  \* The platform: whether it halted the workflow and how often, what it was told of
  \* an operation, and who has claimed it
  halted, halts, heard, owner,
  \* The platform's delivery mode: whether operations come as commands instead of over
  \* the work queue; the operation and state of each message
  pushed, subject, state,
  \* Commands on their way to the node, and what the node has published, in order
  orders, outbox,
  \* In the node's memory: CANCELLED_WORKFLOWS, DONE_OPS and the workflow's semaphore
  cancelled, done, permits, waiters,
  \* Each copy: where it is, the message it was delivered, and where it sends from
  pc, job, route,
  \* History: messages dropped because the workflow was cancelled, how often it had been
  \* halted when they were sent, copies that waited for a permit when it was cancelled
  dropped, era, caught,
  crashes, losses

platform == <<halted, halts, heard, owner>>
queue == <<pushed, subject, state>>
network == <<orders, outbox>>
semaphore == <<permits, waiters>>
memory == <<cancelled, done>>
copies == <<pc, job, route>>
history == <<dropped, era, caught>>
bounds == <<crashes, losses>>
vars == <<platform, queue, network, memory, semaphore, copies, history, bounds>>

Op(c) == subject[job[c]]

\* Where a copy is: before it has decided to work, at work, about to tell the platform
\* why it does not work, and done but for its ack.
Before == {"start", "queued", "woken", "unhalted", "claiming", "deciding"}
Working == {"opening", "running", "closing", "finishing", "failing"}
Answering == {"refusing", "unclaimed", "reacking", "stopped"}
Places == {"idle", "acking"} \cup Before \cup Working \cup Answering
HoldsPermit == (Places \ {"idle", "start", "queued", "acking"})

\* What the platform is told: operation_completed, the same with an error, or completed
\* with code 1 on the result subject.
Reports == {"completed", "error", "failed"}
ReportAt(place) ==
  CASE place \in {"finishing", "reacking"} -> "completed"
    [] place = "failing" -> "failed"
    [] OTHER -> "error"
Report(o, what) == [kind |-> "report", op |-> o, what |-> what]
AckOf(m) == [kind |-> "ack", msg |-> m]
Command(what) == [kind |-> what]
Delivery(m) == [kind |-> "operation", msg |-> m]

Init ==
  /\ halted = FALSE /\ halts = 0
  /\ heard = [o \in Ops |-> {}] /\ owner = [o \in Ops |-> "nobody"]
  /\ pushed \in BOOLEAN
  /\ subject = [m \in Msgs |-> NoOp] /\ state = [m \in Msgs |-> "free"]
  /\ orders = <<>> /\ outbox = <<>>
  /\ cancelled = FALSE /\ done = {}
  /\ permits = Tasks /\ waiters = <<>>
  /\ pc = [c \in Copies |-> "idle"] /\ job = [c \in Copies |-> NoMsg]
  /\ route = [c \in Copies |-> "none"]
  /\ dropped = {} /\ caught = {}
  /\ era = [m \in Msgs |-> 0]
  /\ crashes = 0 /\ losses = 0

-------------------------------------------------------------------------------
(* The platform, its queue and the connection *)

\* No copy, ack or command refers to the slot.
Unreferenced(m) ==
  /\ \A c \in Copies : job[c] # m
  /\ ~Contains(outbox, AckOf(m)) /\ ~Contains(orders, Delivery(m))

\* An operation the platform has not heard of is dispatched: at first, after a resume,
\* when the node asks for what is pending, or because its report was lost.
Dispatch(m, o) ==
  /\ ~halted /\ heard[o] = {}
  /\ state[m] \in {"free", "acked"} /\ Unreferenced(m)
  /\ subject' = [subject EXCEPT ![m] = o]
  /\ IF pushed
       THEN /\ orders' = Append(orders, Delivery(m))
            /\ state' = [state EXCEPT ![m] = "pushed"]
       ELSE /\ state' = [state EXCEPT ![m] = "ready"]
            /\ UNCHANGED orders
  /\ dropped' = dropped \ {m}
  /\ era' = [era EXCEPT ![m] = halts]
  /\ UNCHANGED <<platform, pushed, outbox, memory, semaphore, copies, caught,
                 bounds>>

Halt ==
  /\ ~halted /\ halts < MaxHalts
  /\ halted' = TRUE /\ halts' = halts + 1
  /\ orders' = Append(orders, Command("cancel_workflow"))
  /\ UNCHANGED <<heard, owner, queue, outbox, memory, semaphore, copies, history, bounds>>

Resume ==
  /\ halted
  /\ halted' = FALSE
  /\ orders' = Append(orders, Command("resume_workflow"))
  /\ UNCHANGED <<halts, heard, owner, queue, outbox, memory, semaphore, copies, history,
                 bounds>>

OtherClaims(o) ==
  /\ o \in Claimed /\ owner[o] = "nobody"
  /\ owner' = [owner EXCEPT ![o] = "other"]
  /\ UNCHANGED <<halted, halts, heard, queue, network, memory, semaphore, copies, history,
                 bounds>>

\* The message was not acked within ack_wait, or the node that had it is gone.
AckWait(m) ==
  /\ state[m] = "out"
  /\ state' = [state EXCEPT ![m] = "ready"]
  /\ UNCHANGED <<platform, pushed, subject, network, memory, semaphore, copies, history,
                 bounds>>

\* What the node published reaches the server, in order.
Flush ==
  /\ outbox # <<>>
  /\ outbox' = Tail(outbox)
  /\ LET sent == Head(outbox) IN
       IF sent.kind = "ack"
         THEN /\ state' = [state EXCEPT ![sent.msg] = "acked"]
              /\ UNCHANGED heard
         ELSE /\ heard' = [heard EXCEPT ![sent.op] = @ \cup {sent.what}]
              /\ UNCHANGED state
  /\ UNCHANGED <<halted, halts, owner, pushed, subject, orders, memory, semaphore, copies,
                 history, bounds>>

\* The connection breaks with something written to it that the server has not read.
LoseSent ==
  /\ outbox # <<>> /\ losses < MaxLosses
  /\ outbox' = Tail(outbox)
  /\ losses' = losses + 1
  /\ UNCHANGED <<platform, queue, orders, memory, semaphore, copies, history, crashes>>

-------------------------------------------------------------------------------
(* The node's loops *)

Spawn(c, m) ==
  /\ pc[c] = "idle"
  /\ pc' = [pc EXCEPT ![c] = "start"]
  /\ job' = [job EXCEPT ![c] = m]
  /\ UNCHANGED route

\* Mutant: a message is acked when it arrives.
Deliver_AcksAtOnce(c, m) ==
  /\ state[m] = "ready"
  /\ Cardinality({n \in Msgs : state[n] = "out"}) < MaxAckPending
  /\ state' = [state EXCEPT ![m] = "acked"]
  /\ Spawn(c, m)
  /\ UNCHANGED <<platform, pushed, subject, network, memory, semaphore, history, bounds>>

\* The pull consumer; the queue holds back what exceeds max_ack_pending.
Deliver(c, m) ==
  /\ state[m] = "ready"
  /\ Cardinality({n \in Msgs : state[n] = "out"}) < MaxAckPending
  /\ state' = [state EXCEPT ![m] = "out"]
  /\ Spawn(c, m)
  /\ UNCHANGED <<platform, pushed, subject, network, memory, semaphore, history, bounds>>

TakeOrder(kind) ==
  /\ orders # <<>> /\ Head(orders).kind = kind
  /\ orders' = Tail(orders)

CancelWorkflow ==
  /\ TakeOrder("cancel_workflow")
  /\ cancelled' = TRUE
  /\ caught' = {c \in Copies : pc[c] = "queued"}
  /\ UNCHANGED <<platform, queue, outbox, done, semaphore, copies, dropped, era,
                 bounds>>

\* Mutant: a resume leaves the workflow in CANCELLED_WORKFLOWS.
ResumeWorkflow_Forgets ==
  /\ TakeOrder("resume_workflow")
  /\ caught' = {}
  /\ UNCHANGED <<platform, queue, outbox, memory, semaphore, copies, dropped, era,
                 bounds>>

ResumeWorkflow ==
  /\ TakeOrder("resume_workflow")
  /\ cancelled' = FALSE
  /\ caught' = {}
  /\ UNCHANGED <<platform, queue, outbox, done, semaphore, copies, dropped, era,
                 bounds>>

\* The operation arm of the command handler.
PushedOperation(c) ==
  /\ TakeOrder("operation")
  /\ Spawn(c, Head(orders).msg)
  /\ UNCHANGED <<platform, queue, outbox, memory, semaphore, history, bounds>>

-------------------------------------------------------------------------------
(* run_operation *)

Goes(c, place) == pc' = [pc EXCEPT ![c] = place]

\* The copy returns: its permit is given back, and its message acked next.
Return(c) ==
  /\ Goes(c, "acking")
  /\ route' = [route EXCEPT ![c] = "none"]
  /\ permits' = IF Op(c) \in Gated THEN permits + 1 ELSE permits
  /\ UNCHANGED <<job, waiters>>

Start(c) ==
  /\ pc[c] = "start"
  /\ IF Op(c) \in Gated
       THEN waiters' = Append(waiters, c) /\ Goes(c, "queued")
       ELSE Goes(c, "woken") /\ UNCHANGED waiters
  /\ UNCHANGED <<platform, queue, network, memory, permits, job, route, history, bounds>>

\* The semaphore is fair: the copy that waits longest is woken.
Acquire(c) ==
  /\ pc[c] = "queued" /\ waiters # <<>> /\ c = Head(waiters) /\ permits > 0
  /\ permits' = permits - 1 /\ waiters' = Tail(waiters)
  /\ Goes(c, "woken")
  /\ UNCHANGED <<platform, queue, network, memory, job, route, history, bounds>>

\* Mutant: a copy that waited for a permit goes on without looking at the halt.
CheckHalt_BeforeTheWait(c) ==
  /\ pc[c] = "woken"
  /\ IF cancelled /\ Op(c) \notin Gated
       THEN Return(c) /\ dropped' = dropped \cup {job[c]}
       ELSE Goes(c, "unhalted") /\ UNCHANGED <<job, route, semaphore, dropped>>
  /\ UNCHANGED <<platform, queue, network, memory, era, caught, bounds>>

CheckHalt(c) ==
  /\ pc[c] = "woken"
  /\ IF cancelled
       THEN Return(c) /\ dropped' = dropped \cup {job[c]}
       ELSE Goes(c, "unhalted") /\ UNCHANGED <<job, route, semaphore, dropped>>
  /\ UNCHANGED <<platform, queue, network, memory, era, caught, bounds>>

\* Mutant: an operation that is done is dropped without a word.
CheckDone_Silently(c) ==
  /\ pc[c] = "unhalted"
  /\ IF Op(c) \in done
       THEN Return(c)
       ELSE /\ Goes(c, IF Op(c) \in Claimed THEN "claiming" ELSE "deciding")
            /\ UNCHANGED <<semaphore, job, route>>
  /\ UNCHANGED <<platform, queue, network, memory, history, bounds>>

CheckDone(c) ==
  /\ pc[c] = "unhalted"
  /\ Goes(c, IF Op(c) \in done THEN "reacking"
             ELSE IF Op(c) \in Claimed THEN "claiming" ELSE "deciding")
  /\ UNCHANGED <<platform, queue, network, memory, semaphore, job, route, history, bounds>>

\* claim-operation: the first node to ask has it, and has it when it asks again. The
\* answer may be lost.
ClaimWon(c) ==
  /\ pc[c] = "claiming" /\ owner[Op(c)] # "other"
  /\ owner' = [owner EXCEPT ![Op(c)] = "node"]
  /\ Goes(c, "deciding") \/ Goes(c, "unclaimed")
  /\ UNCHANGED <<halted, halts, heard, queue, network, memory, semaphore, job, route,
                 history, bounds>>

ClaimLost(c) ==
  /\ pc[c] = "claiming" /\ owner[Op(c)] = "other"
  /\ Return(c)
  /\ UNCHANGED <<platform, queue, network, memory, history, bounds>>

\* The connection breaks in the body of the answer, which then reads as a claim another has.
ClaimCutShort(c) ==
  /\ pc[c] = "claiming" /\ owner[Op(c)] # "other" /\ losses < MaxLosses
  /\ owner' = [owner EXCEPT ![Op(c)] = "node"]
  /\ losses' = losses + 1
  /\ Return(c)
  /\ UNCHANGED <<halted, halts, heard, queue, network, memory, history, crashes>>

\* Mutant: a claim that could not be asked for counts as won.
ClaimFails_CountsAsWon(c) ==
  /\ pc[c] = "claiming"
  /\ Goes(c, "deciding")
  /\ UNCHANGED <<platform, queue, network, memory, semaphore, job, route, history, bounds>>

\* The claim could not be asked for: nobody may run the operation, and the platform is told.
ClaimFails(c) ==
  /\ pc[c] = "claiming"
  /\ Goes(c, "unclaimed")
  /\ UNCHANGED <<platform, queue, network, memory, semaphore, job, route, history, bounds>>

\* for_op: the operation goes out directly, through the proxy, or not at all.
Decide(c) ==
  /\ pc[c] = "deciding"
  /\ \/ Goes(c, "refusing") /\ UNCHANGED route
     \/ /\ Goes(c, "opening")
        /\ \E r \in {"direct", "proxied"} : route' = [route EXCEPT ![c] = r]
  /\ UNCHANGED <<platform, queue, network, memory, semaphore, job, history, bounds>>

-------------------------------------------------------------------------------
(* The handler of the operation's type, and how it ends *)

\* open_engine: connected, unreachable, or an engine that cannot send through a proxy.
Open(c) ==
  /\ pc[c] = "opening" /\ Op(c) \notin Unknown
  /\ \/ Goes(c, "running")
     \/ Goes(c, "failing")
     \/ route[c] = "proxied" /\ Goes(c, "refusing")
  /\ UNCHANGED <<platform, queue, network, memory, semaphore, job, route, history, bounds>>

\* A type without a handler: nothing is run and nobody is told.
UnknownType(c) ==
  /\ pc[c] = "opening" /\ Op(c) \in Unknown
  /\ Return(c)
  /\ UNCHANGED <<platform, queue, network, memory, history, bounds>>

\* A handler that looks at the halt sees it when the engine's next line arrives.
SeeHalt(c) ==
  /\ pc[c] = "running" /\ cancelled /\ Op(c) \in Attentive
  /\ Return(c)
  /\ dropped' = dropped \cup {job[c]}
  /\ UNCHANGED <<platform, queue, network, memory, era, caught, bounds>>

\* The engine says that it is done, reports an error, closes the connection, or does not
\* answer a probe in time: the handler's loop ends all the same.
EngineEnds(c) ==
  /\ pc[c] = "running"
  /\ Goes(c, "closing")
  /\ UNCHANGED <<platform, queue, network, memory, semaphore, job, route, history, bounds>>

MarkDone(c) ==
  /\ pc[c] = "closing"
  /\ Goes(c, "finishing")
  /\ done' = done \cup {Op(c)}
  /\ UNCHANGED <<platform, queue, network, cancelled, semaphore, job, route, history, bounds>>

\* Mutant: a failed claim is not reported.
Answer_NotOfAClaim(c) ==
  /\ pc[c] \in {"finishing", "failing"} \cup Answering
  /\ Len(outbox) < OutboxSize
  /\ outbox' = IF pc[c] = "unclaimed" THEN outbox
               ELSE Append(outbox, Report(Op(c), ReportAt(pc[c])))
  /\ Return(c)
  /\ UNCHANGED <<platform, queue, orders, memory, history, bounds>>

\* The terminal message, the last thing the handler or run_operation does; publishing
\* waits while the client's buffer is full.
Answer(c) ==
  /\ pc[c] \in {"finishing", "failing"} \cup Answering
  /\ Len(outbox) < OutboxSize
  /\ outbox' = Append(outbox, Report(Op(c), ReportAt(pc[c])))
  /\ Return(c)
  /\ UNCHANGED <<platform, queue, orders, memory, history, bounds>>

\* Mutant: the permit is given back where the handler is dropped, and again on return.
Stop_Releases(c) ==
  /\ pc[c] \in Working /\ route[c] = "direct"
  /\ Goes(c, "stopped")
  /\ permits' = IF Op(c) \in Gated THEN permits + 1 ELSE permits
  /\ UNCHANGED <<platform, queue, network, memory, waiters, job, route, history, bounds>>

\* while_direct: the node was switched to a proxy; the handler is dropped at its await.
Stop(c) ==
  /\ pc[c] \in Working /\ route[c] = "direct"
  /\ Goes(c, "stopped")
  /\ UNCHANGED <<platform, queue, network, memory, semaphore, job, route, history, bounds>>

\* A message of the queue is acked; one that came as a command is not.
Ack(c) ==
  /\ pc[c] = "acking"
  /\ IF pushed
       THEN /\ state' = [state EXCEPT ![job[c]] = "free"]
            /\ UNCHANGED outbox
       ELSE /\ Len(outbox) < OutboxSize
            /\ outbox' = Append(outbox, AckOf(job[c]))
            /\ UNCHANGED state
  /\ Goes(c, "idle") /\ job' = [job EXCEPT ![c] = NoMsg]
  /\ UNCHANGED <<platform, pushed, subject, orders, memory, semaphore, route, history,
                 bounds>>

\* The node's process dies and is started again by the supervisor: its memory is gone, and
\* so is what it had not sent and what was on its way to its subscription.
Crash ==
  /\ crashes < MaxCrashes
  /\ crashes' = crashes + 1
  /\ orders' = <<>> /\ outbox' = <<>>
  /\ cancelled' = FALSE /\ done' = {}
  /\ permits' = Tasks /\ waiters' = <<>>
  /\ pc' = [c \in Copies |-> "idle"] /\ job' = [c \in Copies |-> NoMsg]
  /\ route' = [c \in Copies |-> "none"]
  /\ state' = [m \in Msgs |-> IF state[m] = "pushed" THEN "free" ELSE state[m]]
  /\ caught' = {}
  /\ UNCHANGED <<platform, pushed, subject, dropped, era, losses>>

-------------------------------------------------------------------------------

CopyStep(c) ==
  \/ Start(c) \/ Acquire(c) \/ CheckHalt(c) \/ CheckDone(c)
  \/ ClaimWon(c) \/ ClaimLost(c) \/ ClaimCutShort(c) \/ ClaimFails(c) \/ Decide(c)
  \/ Open(c) \/ UnknownType(c) \/ SeeHalt(c) \/ EngineEnds(c)
  \/ MarkDone(c) \/ Answer(c) \/ Ack(c)

Taken == CancelWorkflow \/ ResumeWorkflow \/ \E c \in Copies : PushedOperation(c)

Next ==
  \/ \E m \in Msgs, o \in Ops : Dispatch(m, o)
  \/ Halt \/ Resume \/ (\E o \in Ops : OtherClaims(o))
  \/ (\E m \in Msgs : AckWait(m)) \/ Flush \/ LoseSent \/ Crash
  \/ (\E c \in Copies, m \in Msgs : Deliver(c, m)) \/ Taken
  \/ \E c \in Copies : CopyStep(c) \/ Stop(c)

Spec == Init /\ [][Next]_vars

\* The node's tasks run on: its engines come to an end, its requests are answered or fail,
\* and its connection comes back. The queue redelivers what is not acked. A platform that
\* has not heard of an operation and has nothing under way for it dispatches it again.
UnderWay(o) == \E m \in Msgs : subject[m] = o /\ state[m] \in {"ready", "out", "pushed"}
Redispatch(o) == ~UnderWay(o) /\ \E m \in Msgs : Dispatch(m, o)

Fairness ==
  /\ \A c \in Copies : WF_vars(CopyStep(c))
  /\ \A m \in Msgs : WF_vars(AckWait(m)) /\ SF_vars(\E c \in Copies : Deliver(c, m))
  /\ SF_vars(Taken) /\ WF_vars(Flush)
  /\ \A o \in Ops : SF_vars(Redispatch(o))

FairSpec == Spec /\ Fairness

-------------------------------------------------------------------------------

Orders == [kind : {"cancel_workflow", "resume_workflow"}] \cup [kind : {"operation"}, msg : Msgs]
Published == [kind : {"report"}, op : Ops, what : Reports] \cup [kind : {"ack"}, msg : Msgs]

PlatformType ==
  /\ halted \in BOOLEAN /\ halts \in Nat
  /\ heard \in [Ops -> SUBSET Reports] /\ owner \in [Ops -> {"nobody", "node", "other"}]
QueueType ==
  /\ pushed \in BOOLEAN /\ subject \in [Msgs -> Ops \cup {NoOp}]
  /\ state \in [Msgs -> {"free", "pushed", "ready", "out", "acked"}]
  /\ \A m \in Msgs : state[m] # "free" => subject[m] \in Ops
NetworkType == orders \in Seq(Orders) /\ outbox \in Seq(Published)
MemoryType == cancelled \in BOOLEAN /\ done \subseteq Ops
SemaphoreType == permits \in Nat /\ waiters \in Seq(Copies)
CopyType ==
  /\ pc \in [Copies -> Places] /\ job \in [Copies -> Msgs \cup {NoMsg}]
  /\ \A c \in Copies : pc[c] = "idle" <=> job[c] = NoMsg
  /\ route \in [Copies -> {"none", "direct", "proxied"}]
HistoryType ==
  /\ dropped \subseteq Msgs /\ caught \subseteq Copies /\ era \in [Msgs -> Nat]
  /\ crashes \in Nat /\ losses \in Nat

\* Every variable holds a value of its type, and an idle copy has no message.
TypeOK ==
  /\ PlatformType /\ QueueType /\ NetworkType /\ MemoryType /\ SemaphoreType
  /\ CopyType /\ HistoryType

-------------------------------------------------------------------------------
(* Safety *)

\* An operation whose message the queue has let go is not simply gone: the platform was
\* told how it ended, another node has it, or the node dropped it because the workflow
\* was halted. A crash at any point loses nothing (run_operation's returns, the order of
\* the terminal message and the ack), as long as the connection loses nothing either.
AckedIsAccountedFor ==
  losses = 0 => \A m \in Msgs :
    state[m] = "acked" /\ subject[m] \notin Unknown =>
      heard[subject[m]] # {} \/ owner[subject[m]] = "other" \/ m \in dropped

\* An operation that several nodes were dispatched is worked on only by one that knows
\* that it has claimed it, whatever is redelivered and whichever requests fail.
OnlyTheOwnerWorks ==
  \A c \in Copies : pc[c] \in Working /\ Op(c) \in Claimed => owner[Op(c)] = "node"

\* What waited for a permit when the workflow was halted does not start to work until it
\* is resumed ("so semaphore-queued probes don't fire after a halt").
HaltedStaysQueued ==
  \A c \in caught : pc[c] \notin Working \cup {"unhalted", "claiming", "deciding"}

\* Redelivered or not, no more copies than the operator chose work at a time.
Throttled ==
  Cardinality({c \in Copies : pc[c] \in Working /\ Op(c) \in Gated}) <= Tasks

\* An operation dispatched since the platform last resumed the workflow is not dropped as
\* halted: it "is still free to re-run on resume" (DONE_OPS).
FreeToRunOnResume == \A m \in dropped : halted \/ era[m] < halts

\* That is so where commands and operations share a channel, which keeps their order.
PushedIsFreeToRun == pushed => FreeToRunOnResume

\* The platform hears of every operation it dispatched, in spite of crashes, redeliveries
\* and a lost report, which a second dispatch makes good for (op_is_done is re-acked).
EveryOpIsHeardOf ==
  \A o \in Ops \ Unknown : UnderWay(o) ~> heard[o] # {} \/ owner[o] = "other"

===============================================================================
