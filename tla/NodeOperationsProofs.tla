------------------------ MODULE NodeOperationsProofs ------------------------
(* Proofs about NodeOperations for every set of operations, messages and       *)
(* copies, every number of permits and every bound.                            *)
EXTENDS NodeOperations, FiniteSetTheorems, SequenceTheorems, TLAPS

USE OperationsAssumption

-----------------------------------------------------------------------------
(* Sequences *)

\* What is left of a sequence without its head was in it.
LEMMA TailElements ==
  ASSUME NEW S, NEW s \in Seq(S), s # <<>>
  PROVE  /\ Head(s) \in S /\ Tail(s) \in Seq(S)
         /\ 1 \in DOMAIN s /\ Head(s) = s[1]
         /\ \A i \in DOMAIN Tail(s) : i + 1 \in DOMAIN s /\ Tail(s)[i] = s[i + 1]
<1>1. Head(s) \in S /\ Tail(s) \in Seq(S) /\ Len(Tail(s)) = Len(s) - 1
  BY HeadTailProperties
<1>2. DOMAIN Tail(s) = 1 .. Len(s) - 1 /\ DOMAIN s = 1 .. Len(s) /\ Len(s) \in Nat
  BY <1>1, LenProperties
<1>3. \A i \in 1 .. Len(Tail(s)) : Tail(s)[i] = s[i + 1]
  BY HeadTailProperties
<1>4. Len(s) # 0 BY EmptySeq
<1>. QED BY <1>1, <1>2, <1>3, <1>4

\* An element of a longer sequence is the one appended or was in it.
LEMMA AppendElements ==
  ASSUME NEW S, NEW s \in Seq(S), NEW x \in S
  PROVE  /\ Append(s, x) \in Seq(S)
         /\ \A i \in DOMAIN Append(s, x) :
              Append(s, x)[i] = x \/ (i \in DOMAIN s /\ Append(s, x)[i] = s[i])
<1>1. /\ Append(s, x) \in Seq(S) /\ Len(Append(s, x)) = Len(s) + 1
      /\ \A i \in 1 .. Len(s) : Append(s, x)[i] = s[i]
      /\ Append(s, x)[Len(s) + 1] = x
  BY AppendProperties
<1>2. DOMAIN Append(s, x) = 1 .. Len(s) + 1 /\ DOMAIN s = 1 .. Len(s) /\ Len(s) \in Nat
  BY <1>1, LenProperties
<1>. QED BY <1>1, <1>2

LEMMA DomainElement == ASSUME NEW S, NEW s \in Seq(S), NEW i \in DOMAIN s PROVE s[i] \in S
BY ElementOfSeq, LenProperties

-----------------------------------------------------------------------------
(* Types *)

\* What a copy works on and what is on its way to it was dispatched: the slot of its
\* message names an operation.
JobsAreDispatched == \A c \in Copies : pc[c] # "idle" => Op(c) \in Ops
CommandsAreDispatched ==
  \A i \in DOMAIN orders : orders[i].kind = "operation" => subject[orders[i].msg] \in Ops

AcksAreDispatched ==
  \A i \in DOMAIN outbox : outbox[i].kind = "ack" => subject[outbox[i].msg] \in Ops

TypeInv == TypeOK /\ JobsAreDispatched /\ CommandsAreDispatched /\ AcksAreDispatched

LEMMA OrderTypes ==
  /\ Command("cancel_workflow") \in Orders /\ Command("resume_workflow") \in Orders
  /\ \A m \in Msgs : Delivery(m) \in Orders
BY DEF Orders, Command, Delivery

LEMMA PublishedTypes ==
  /\ \A o \in Ops, what \in Reports : Report(o, what) \in Published
  /\ \A m \in Msgs : AckOf(m) \in Published
BY DEF Published, Report, AckOf

\* What a step leaves alone keeps its type.
LEMMA Frames ==
  /\ PlatformType /\ UNCHANGED platform => PlatformType'
  /\ QueueType /\ UNCHANGED queue => QueueType'
  /\ NetworkType /\ UNCHANGED network => NetworkType'
  /\ MemoryType /\ UNCHANGED memory => MemoryType'
  /\ SemaphoreType /\ UNCHANGED semaphore => SemaphoreType'
  /\ CopyType /\ UNCHANGED copies => CopyType'
  /\ HistoryType /\ UNCHANGED <<history, bounds>> => HistoryType'
<1>1. PlatformType /\ UNCHANGED platform => PlatformType' BY DEF PlatformType, platform
<1>2. QueueType /\ UNCHANGED queue => QueueType' BY DEF QueueType, queue
<1>3. NetworkType /\ UNCHANGED network => NetworkType' BY DEF NetworkType, network
<1>4. MemoryType /\ UNCHANGED memory => MemoryType' BY DEF MemoryType, memory
<1>5. SemaphoreType /\ UNCHANGED semaphore => SemaphoreType'
  BY DEF SemaphoreType, semaphore
<1>6. CopyType /\ UNCHANGED copies => CopyType' BY DEF CopyType, copies
<1>7. HistoryType /\ UNCHANGED <<history, bounds>> => HistoryType'
  BY DEF HistoryType, history, bounds
<1>. QED BY <1>1, <1>2, <1>3, <1>4, <1>5, <1>6, <1>7

LEMMA DispatchedFrames ==
  /\ JobsAreDispatched /\ UNCHANGED <<subject, copies>> => JobsAreDispatched'
  /\ CommandsAreDispatched /\ UNCHANGED <<subject, orders>> => CommandsAreDispatched'
  /\ AcksAreDispatched /\ UNCHANGED <<subject, outbox>> => AcksAreDispatched'
BY DEF JobsAreDispatched, CommandsAreDispatched, AcksAreDispatched, Op, copies

LEMMA InitType == Init => TypeInv
<1> SUFFICES ASSUME Init PROVE TypeInv
  OBVIOUS
<1>1. NetworkType /\ SemaphoreType BY DEF Init, NetworkType, SemaphoreType
<1>2. PlatformType /\ QueueType /\ MemoryType /\ HistoryType
  BY DEF Init, PlatformType, QueueType, MemoryType, HistoryType
<1>3. CopyType BY DEF Init, CopyType, Places
<1>4. JobsAreDispatched /\ CommandsAreDispatched /\ AcksAreDispatched
  BY DEF Init, JobsAreDispatched, CommandsAreDispatched, AcksAreDispatched
<1>. QED BY <1>1, <1>2, <1>3, <1>4 DEF TypeInv, TypeOK

\* One more command on its way.
LEMMA SentCommand ==
  ASSUME TypeInv, NEW x \in Orders, orders' = Append(orders, x), UNCHANGED outbox,
         x.kind = "operation" => subject'[x.msg] \in Ops,
         \A m \in Msgs : subject[m] \in Ops => subject'[m] \in Ops
  PROVE  NetworkType' /\ CommandsAreDispatched'
<1>1. orders \in Seq(Orders) BY DEF TypeInv, TypeOK, NetworkType
<1>2. /\ orders' \in Seq(Orders)
      /\ \A i \in DOMAIN orders' : orders'[i] = x \/ (i \in DOMAIN orders /\ orders'[i] = orders[i])
  BY <1>1, AppendElements
<1>3. ASSUME NEW i \in DOMAIN orders', orders'[i].kind = "operation"
      PROVE  subject'[orders'[i].msg] \in Ops
  <2>1. CASE orders'[i] = x BY <1>3, <2>1
  <2>2. CASE i \in DOMAIN orders /\ orders'[i] = orders[i]
    <3>1. orders[i] \in Orders BY <1>1, <2>2, DomainElement
    <3>2. orders[i].msg \in Msgs BY <1>3, <2>2, <3>1 DEF Orders
    <3>3. subject[orders[i].msg] \in Ops BY <1>3, <2>2 DEF TypeInv, CommandsAreDispatched
    <3>. QED BY <2>2, <3>2, <3>3
  <2>. QED BY <1>2, <2>1, <2>2
<1>4. NetworkType' BY <1>2 DEF TypeInv, TypeOK, NetworkType
<1>. QED BY <1>3, <1>4 DEF CommandsAreDispatched

LEMMA DispatchType == ASSUME NEW m \in Msgs, NEW o \in Ops, TypeInv, Dispatch(m, o) PROVE TypeInv'
<1>. USE DEF TypeInv, TypeOK
<1>1. QueueType' BY DEF Dispatch, QueueType
<1>2. HistoryType'
  BY DEF Dispatch, HistoryType, PlatformType, bounds
<1>3. subject'[m] = o /\ \A n \in Msgs : subject'[n] = subject[n] \/ subject'[n] = o
  BY DEF Dispatch, QueueType
<1>4. PlatformType' /\ MemoryType' /\ SemaphoreType' /\ CopyType'
  BY Frames DEF Dispatch
<1>5. NetworkType' /\ CommandsAreDispatched'
  <2>1. CASE pushed
    <3>1. Delivery(m).kind = "operation" => subject'[Delivery(m).msg] \in Ops
      BY <1>3 DEF Delivery
    <3>2. orders' = Append(orders, Delivery(m)) /\ UNCHANGED outbox BY <2>1 DEF Dispatch
    <3>. QED BY <1>3, <3>1, <3>2, SentCommand, OrderTypes
  <2>2. CASE ~pushed
    <3>1. UNCHANGED <<orders, outbox>> BY <2>2 DEF Dispatch
    <3>2. NetworkType' BY <3>1, Frames DEF network
    <3>3. ASSUME NEW i \in DOMAIN orders, orders[i].kind = "operation"
          PROVE  subject'[orders[i].msg] \in Ops
      <4>1. orders[i].msg \in Msgs BY <3>3, DomainElement DEF NetworkType, Orders
      <4>. QED BY <1>3, <3>3, <4>1 DEF CommandsAreDispatched
    <3>. QED BY <3>1, <3>2, <3>3 DEF CommandsAreDispatched
  <2>. QED BY <2>1, <2>2
<1>6. JobsAreDispatched'
  <2>1. ASSUME NEW c \in Copies, pc'[c] # "idle" PROVE Op(c)' \in Ops
    <3>1. pc[c] # "idle" /\ job[c] \in Msgs /\ job'[c] = job[c]
      BY <2>1 DEF Dispatch, CopyType, copies
    <3>. QED BY <1>3, <3>1 DEF JobsAreDispatched, Op
  <2>. QED BY <2>1 DEF JobsAreDispatched
<1>7. AcksAreDispatched'
  <2>1. UNCHANGED outbox BY DEF Dispatch
  <2>2. ASSUME NEW i \in DOMAIN outbox, outbox[i].kind = "ack"
        PROVE  subject'[outbox[i].msg] \in Ops
    <3>1. outbox[i].msg \in Msgs BY <2>2, DomainElement DEF NetworkType, Published
    <3>. QED BY <1>3, <2>2, <3>1 DEF AcksAreDispatched
  <2>. QED BY <2>1, <2>2 DEF AcksAreDispatched
<1>. QED BY <1>1, <1>2, <1>4, <1>5, <1>6, <1>7

\* The other steps of the platform, its queue and the connection.
LEMMA WorldType ==
  ASSUME TypeInv,
         \/ Halt \/ Resume \/ (\E o \in Ops : OtherClaims(o))
         \/ (\E m \in Msgs : AckWait(m)) \/ Flush \/ LoseSent \/ Crash
  PROVE  TypeInv'
<1>. USE DEF TypeInv, TypeOK
<1>1. ASSUME Halt \/ Resume PROVE TypeInv'
  <2>1. UNCHANGED <<queue, outbox, memory, semaphore, copies, history, bounds>>
    BY <1>1 DEF Halt, Resume
  <2>0. PlatformType'
    <3>1. halted' \in BOOLEAN BY <1>1 DEF Halt, Resume
    <3>0. halts' \in Nat
      <4>1. halts' = halts + 1 \/ halts' = halts BY <1>1 DEF Halt, Resume
      <4>. QED BY <4>1 DEF PlatformType
    <3>2. UNCHANGED <<heard, owner>> BY <1>1 DEF Halt, Resume
    <3>. QED BY <3>0, <3>1, <3>2 DEF PlatformType
  <2>2. \E x \in Orders : x.kind # "operation" /\ orders' = Append(orders, x)
    BY <1>1, OrderTypes DEF Halt, Resume, Command
  <2>3. UNCHANGED <<subject, copies>> BY <2>1 DEF queue
  <2>4. NetworkType' /\ CommandsAreDispatched' BY <2>1, <2>2, <2>3, SentCommand
  <2>5. JobsAreDispatched' /\ AcksAreDispatched' BY <2>1, <2>3, DispatchedFrames
  <2>. QED BY <2>0, <2>1, <2>4, <2>5, Frames
<1>2. ASSUME NEW o \in Ops, OtherClaims(o) PROVE TypeInv'
  <2>1. PlatformType' BY <1>2 DEF OtherClaims, PlatformType
  <2>2. UNCHANGED <<queue, network, memory, semaphore, copies, history, bounds>>
    BY <1>2 DEF OtherClaims
  <2>3. UNCHANGED <<subject, orders, outbox, copies>> BY <2>2 DEF queue, network
  <2>. QED BY <2>1, <2>2, <2>3, Frames, DispatchedFrames
<1>3. ASSUME NEW m \in Msgs, AckWait(m) PROVE TypeInv'
  <2>1. QueueType' BY <1>3 DEF AckWait, QueueType
  <2>2. UNCHANGED <<platform, network, memory, semaphore, copies, history, bounds>>
    BY <1>3 DEF AckWait
  <2>3. UNCHANGED <<subject, orders, outbox, copies>> BY <1>3, <2>2 DEF network, AckWait
  <2>. QED BY <2>1, <2>2, <2>3, Frames, DispatchedFrames
<1>4. ASSUME Flush PROVE TypeInv'
  <2>1. outbox \in Seq(Published) /\ outbox # <<>> BY <1>4 DEF Flush, NetworkType
  <2>2. /\ Head(outbox) \in Published /\ Tail(outbox) \in Seq(Published)
        /\ 1 \in DOMAIN outbox /\ Head(outbox) = outbox[1]
    BY <2>1, TailElements
  <2>3. NetworkType' BY <1>4, <2>2 DEF Flush, NetworkType
  <2>4. UNCHANGED <<subject, orders, memory, semaphore, copies, history, bounds>> BY <1>4 DEF Flush
  <2>5. PlatformType' /\ QueueType'
    <3>1. CASE Head(outbox).kind = "ack"
      <4>1. state' = [state EXCEPT ![Head(outbox).msg] = "acked"]
            /\ UNCHANGED <<halted, halts, heard, owner, pushed, subject>>
        BY <1>4, <3>1 DEF Flush
      <4>2. PlatformType' BY <4>1 DEF PlatformType
      <4>3. Head(outbox).msg \in Msgs BY <2>2, <3>1 DEF Published
      <4>4. subject[Head(outbox).msg] \in Ops BY <2>2, <3>1 DEF AcksAreDispatched
      <4>5. state' \in [Msgs -> {"free", "pushed", "ready", "out", "acked"}]
        BY <4>1, <4>3 DEF QueueType
      <4>6. ASSUME NEW m \in Msgs, state'[m] # "free" PROVE subject'[m] \in Ops
        BY <4>1, <4>3, <4>4, <4>6 DEF QueueType
      <4>7. QueueType' BY <4>1, <4>5, <4>6 DEF QueueType
      <4>. QED BY <4>2, <4>7
    <3>2. CASE Head(outbox).kind # "ack"
      <4>1. Head(outbox).op \in Ops /\ Head(outbox).what \in Reports
        BY <2>2, <3>2 DEF Published
      <4>2. heard' = [heard EXCEPT ![Head(outbox).op] = @ \cup {Head(outbox).what}]
            /\ UNCHANGED <<halted, halts, owner, pushed, subject, state>>
        BY <1>4, <3>2 DEF Flush
      <4>. QED BY <4>1, <4>2 DEF PlatformType, QueueType
    <3>. QED BY <3>1, <3>2
  <2>6. AcksAreDispatched'
    <3>1. outbox' = Tail(outbox) BY <1>4 DEF Flush
    <3>. QED BY <2>1, <2>4, <3>1, TailElements DEF AcksAreDispatched
  <2>. QED BY <2>3, <2>4, <2>5, <2>6, Frames, DispatchedFrames
<1>5. ASSUME LoseSent PROVE TypeInv'
  <2>1. outbox' \in Seq(Published) BY <1>5, HeadTailProperties DEF LoseSent, NetworkType
  <2>2. NetworkType' /\ HistoryType'
    BY <1>5, <2>1 DEF LoseSent, NetworkType, HistoryType, history
  <2>3. UNCHANGED <<platform, queue, memory, semaphore, copies>> BY <1>5 DEF LoseSent
  <2>4. UNCHANGED <<subject, orders>> BY <1>5 DEF LoseSent, queue
  <2>5. AcksAreDispatched'
    <3>1. outbox \in Seq(Published) /\ outbox # <<>> /\ outbox' = Tail(outbox)
      BY <1>5 DEF LoseSent, NetworkType
    <3>. QED BY <2>4, <3>1, TailElements DEF AcksAreDispatched
  <2>. QED BY <2>2, <2>3, <2>4, <2>5, Frames, DispatchedFrames
<1>6. ASSUME Crash PROVE TypeInv'
  <2>1. UNCHANGED <<platform, pushed, subject, dropped, era, losses>> BY <1>6 DEF Crash
  <2>2. QueueType' BY <1>6, <2>1 DEF Crash, QueueType
  <2>3. NetworkType' /\ SemaphoreType' /\ CommandsAreDispatched' /\ AcksAreDispatched'
    BY <1>6 DEF Crash, NetworkType, SemaphoreType, CommandsAreDispatched, AcksAreDispatched
  <2>4. MemoryType' /\ HistoryType'
    <3>1. MemoryType' BY <1>6 DEF Crash, MemoryType
    <3>2. caught' = {} /\ crashes' = crashes + 1 BY <1>6 DEF Crash
    <3>. QED BY <2>1, <3>1, <3>2 DEF HistoryType
  <2>5. CopyType' /\ JobsAreDispatched' BY <1>6 DEF Crash, CopyType, JobsAreDispatched, Places
  <2>. QED BY <2>1, <2>2, <2>3, <2>4, <2>5, Frames
<1>. QED BY <1>1, <1>2, <1>3, <1>4, <1>5, <1>6

\* A copy moves on with its message.
LEMMA Moves ==
  ASSUME TypeInv, NEW c \in Copies, NEW place \in Places \ {"idle"}, pc[c] # "idle",
         Goes(c, place), UNCHANGED <<job, queue, orders>>,
         route' \in [Copies -> {"none", "direct", "proxied"}]
  PROVE  CopyType' /\ JobsAreDispatched' /\ CommandsAreDispatched' /\ QueueType'
<1>. USE DEF TypeInv, TypeOK
<1>1. pc' = [pc EXCEPT ![c] = place] BY DEF Goes
<1>2. CopyType'
  <2>1. pc' \in [Copies -> Places] BY <1>1 DEF CopyType
  <2>2. \A d \in Copies : pc'[d] = "idle" <=> job'[d] = NoMsg BY <1>1 DEF CopyType
  <2>. QED BY <2>1, <2>2 DEF CopyType
<1>3. UNCHANGED subject BY DEF queue
<1>4. JobsAreDispatched' BY <1>1, <1>3 DEF JobsAreDispatched, Op, CopyType
<1>. QED BY <1>2, <1>3, <1>4, Frames, DispatchedFrames

\* A copy returns.
LEMMA Returns ==
  ASSUME TypeInv, NEW c \in Copies, pc[c] # "idle", Return(c), UNCHANGED <<queue, orders>>
  PROVE  /\ CopyType' /\ JobsAreDispatched' /\ CommandsAreDispatched' /\ QueueType'
         /\ SemaphoreType'
<1>. USE DEF TypeInv, TypeOK
<1>1. route' \in [Copies -> {"none", "direct", "proxied"}] BY DEF Return, CopyType
<1>2. SemaphoreType'
  <2>1. permits' = permits + 1 \/ permits' = permits BY DEF Return
  <2>. QED BY <2>1 DEF Return, SemaphoreType
<1>3. "acking" \in Places \ {"idle"} BY DEF Places
<1>4. Goes(c, "acking") /\ UNCHANGED job BY DEF Return
<1>. QED BY <1>1, <1>2, <1>3, <1>4, Moves

\* A task is spawned for a dispatched message.
LEMMA SpawnType ==
  ASSUME TypeInv, NEW c \in Copies, NEW m \in Msgs, Spawn(c, m), subject[m] \in Ops,
         UNCHANGED subject
  PROVE  CopyType' /\ JobsAreDispatched'
<1>. USE DEF TypeInv, TypeOK
<1>1. /\ pc' = [pc EXCEPT ![c] = "start"] /\ job' = [job EXCEPT ![c] = m] /\ route' = route
  BY DEF Spawn
<1>2. CopyType'
  <2>1. pc' \in [Copies -> Places] /\ job' \in [Copies -> Msgs \cup {NoMsg}]
    BY <1>1 DEF CopyType, Places, Before
  <2>2. \A d \in Copies : pc'[d] = "idle" <=> job'[d] = NoMsg BY <1>1 DEF CopyType
  <2>. QED BY <1>1, <2>1, <2>2 DEF CopyType
<1>3. JobsAreDispatched' BY <1>1 DEF JobsAreDispatched, Op, CopyType
<1>. QED BY <1>2, <1>3

\* The node's loops: messages, commands.
LEMMA LoopType ==
  ASSUME TypeInv, (\E c \in Copies, m \in Msgs : Deliver(c, m)) \/ Taken
  PROVE  TypeInv'
<1>. USE DEF TypeInv, TypeOK
<1>1. ASSUME NEW c \in Copies, NEW m \in Msgs, Deliver(c, m) PROVE TypeInv'
  <2>1. subject[m] \in Ops BY <1>1 DEF Deliver, QueueType
  <2>2. UNCHANGED <<platform, pushed, subject, network, memory, semaphore, history, bounds>>
    BY <1>1 DEF Deliver
  <2>3. CopyType' /\ JobsAreDispatched' BY <1>1, <2>1, <2>2, SpawnType DEF Deliver
  <2>4. QueueType' BY <1>1, <2>1, <2>2 DEF Deliver, QueueType
  <2>5. UNCHANGED <<orders, outbox>> BY <2>2 DEF network
  <2>. QED BY <2>2, <2>3, <2>4, <2>5, Frames, DispatchedFrames
<1>2. ASSUME NEW kind, TakeOrder(kind), UNCHANGED <<subject, outbox>>
      PROVE  /\ NetworkType' /\ CommandsAreDispatched' /\ AcksAreDispatched'
             /\ Head(orders) \in Orders /\ Head(orders).kind = kind
             /\ kind = "operation" => subject[Head(orders).msg] \in Ops
  <2>1. orders \in Seq(Orders) /\ orders # <<>> /\ orders' = Tail(orders) /\ Head(orders).kind = kind
    BY <1>2 DEF TakeOrder, NetworkType
  <2>2. /\ Head(orders) \in Orders /\ Tail(orders) \in Seq(Orders)
        /\ 1 \in DOMAIN orders /\ Head(orders) = orders[1]
        /\ \A i \in DOMAIN Tail(orders) : i + 1 \in DOMAIN orders /\ Tail(orders)[i] = orders[i + 1]
    BY <2>1, TailElements
  <2>3. NetworkType' BY <1>2, <2>1, <2>2 DEF NetworkType
  <2>4. CommandsAreDispatched' BY <1>2, <2>1, <2>2 DEF CommandsAreDispatched
  <2>5. kind = "operation" => subject[Head(orders).msg] \in Ops
    BY <2>1, <2>2 DEF CommandsAreDispatched
  <2>. QED BY <1>2, <2>1, <2>2, <2>3, <2>4, <2>5, DispatchedFrames
<1>3. ASSUME CancelWorkflow \/ ResumeWorkflow PROVE TypeInv'
  <2>1. UNCHANGED <<platform, queue, outbox, done, semaphore, copies, dropped, era, bounds>>
    BY <1>3 DEF CancelWorkflow, ResumeWorkflow
  <2>2. TakeOrder("cancel_workflow") \/ TakeOrder("resume_workflow")
    BY <1>3 DEF CancelWorkflow, ResumeWorkflow
  <2>6. cancelled' \in BOOLEAN BY <1>3 DEF CancelWorkflow, ResumeWorkflow
  <2>7. caught' \subseteq Copies BY <1>3 DEF CancelWorkflow, ResumeWorkflow
  <2>3. UNCHANGED <<subject, outbox, copies>> BY <2>1 DEF queue
  <2>4. MemoryType' BY <2>1, <2>6 DEF MemoryType
  <2>8. HistoryType' BY <2>1, <2>7 DEF HistoryType, bounds
  <2>5. NetworkType' /\ CommandsAreDispatched' /\ AcksAreDispatched' BY <1>2, <2>2, <2>3
  <2>. QED BY <2>1, <2>3, <2>4, <2>5, <2>8, Frames, DispatchedFrames
<1>4. ASSUME NEW c \in Copies, PushedOperation(c) PROVE TypeInv'
  <2>1. UNCHANGED <<platform, queue, outbox, memory, semaphore, history, bounds>>
    BY <1>4 DEF PushedOperation
  <2>2. UNCHANGED <<subject, outbox>> BY <2>1 DEF queue
  <2>3. TakeOrder("operation") /\ Spawn(c, Head(orders).msg) BY <1>4 DEF PushedOperation
  <2>4. /\ NetworkType' /\ CommandsAreDispatched' /\ AcksAreDispatched'
        /\ Head(orders) \in Orders /\ Head(orders).kind = "operation"
        /\ subject[Head(orders).msg] \in Ops
    BY <1>2, <2>2, <2>3
  <2>5. Head(orders).msg \in Msgs BY <2>4 DEF Orders
  <2>6. CopyType' /\ JobsAreDispatched' BY <2>2, <2>3, <2>4, <2>5, SpawnType
  <2>. QED BY <2>1, <2>4, <2>6, Frames
<1>. QED BY <1>1, <1>3, <1>4 DEF Taken

\* One more publish in the buffer.
LEMMA PublishType ==
  ASSUME TypeInv, NEW x \in Published, outbox' = Append(outbox, x), UNCHANGED <<subject, orders>>,
         x.kind = "ack" => subject[x.msg] \in Ops
  PROVE  NetworkType' /\ AcksAreDispatched' /\ CommandsAreDispatched'
<1>1. outbox \in Seq(Published) BY DEF TypeInv, TypeOK, NetworkType
<1>2. /\ outbox' \in Seq(Published)
      /\ \A i \in DOMAIN outbox' : outbox'[i] = x \/ (i \in DOMAIN outbox /\ outbox'[i] = outbox[i])
  BY <1>1, AppendElements
<1>3. NetworkType' BY <1>2 DEF TypeInv, TypeOK, NetworkType
<1>4. AcksAreDispatched' BY <1>2 DEF TypeInv, AcksAreDispatched
<1>. QED BY <1>3, <1>4, DispatchedFrames DEF TypeInv

\* A step of run_operation that only moves the copy on.
Onwards(c) ==
  /\ \E place \in Places \ {"idle"} : Goes(c, place)
  /\ pc[c] # "idle"
  /\ route' \in [Copies -> {"none", "direct", "proxied"}]
  /\ UNCHANGED <<queue, network, job, bounds>>

LEMMA OnwardsType ==
  ASSUME TypeInv, NEW c \in Copies, Onwards(c)
  PROVE  /\ CopyType' /\ JobsAreDispatched' /\ CommandsAreDispatched' /\ QueueType'
         /\ NetworkType' /\ AcksAreDispatched'
<1>1. UNCHANGED <<queue, orders, outbox, subject, job>> BY DEF Onwards, queue, network
<1>2. PICK place \in Places \ {"idle"} : Goes(c, place) BY DEF Onwards
<1>3. CopyType' /\ JobsAreDispatched' /\ CommandsAreDispatched' /\ QueueType'
  BY <1>1, <1>2, Moves DEF Onwards
<1>. QED BY <1>1, <1>3, Frames, DispatchedFrames DEF Onwards, TypeInv, TypeOK

LEMMA PermitStepType ==
  ASSUME TypeInv, NEW c \in Copies, Start(c) \/ Acquire(c) PROVE TypeInv'
<1>. USE DEF TypeInv, TypeOK
<1>1. UNCHANGED <<platform, queue, network, memory, job, route, history, bounds>>
  BY DEF Start, Acquire
<1>2. Onwards(c)
  <2>1. \E place \in Places \ {"idle"} : Goes(c, place)
    BY DEF Start, Acquire, Places, Before
  <2>2. pc[c] # "idle" BY DEF Start, Acquire
  <2>. QED BY <1>1, <2>1, <2>2 DEF Onwards, CopyType
<1>3. SemaphoreType'
  <2>1. waiters \in Seq(Copies) /\ permits \in Nat BY DEF SemaphoreType
  <2>2. CASE Start(c)
    <3>1. permits' = permits BY <2>2 DEF Start
    <3>2. waiters' = Append(waiters, c) \/ waiters' = waiters BY <2>2 DEF Start
    <3>3. waiters' \in Seq(Copies) BY <2>1, <3>2, AppendProperties
    <3>. QED BY <2>1, <3>1, <3>3 DEF SemaphoreType
  <2>3. CASE Acquire(c)
    <3>1. /\ permits > 0 /\ permits' = permits - 1
          /\ waiters # <<>> /\ waiters' = Tail(waiters)
      BY <2>3 DEF Acquire
    <3>2. waiters' \in Seq(Copies) BY <2>1, <3>1, HeadTailProperties
    <3>. QED BY <2>1, <3>1, <3>2 DEF SemaphoreType
  <2>. QED BY <2>2, <2>3
<1>. QED BY <1>1, <1>2, <1>3, OnwardsType, Frames

LEMMA QuietStepType ==
  ASSUME TypeInv, NEW c \in Copies,
         \/ CheckDone(c) \/ Decide(c) \/ Open(c) \/ EngineEnds(c) \/ ClaimFails(c) \/ Stop(c)
  PROVE  TypeInv' /\ Onwards(c)
<1>. USE DEF TypeInv, TypeOK
<1>1. UNCHANGED <<platform, queue, network, memory, semaphore, job, history, bounds>>
  BY DEF CheckDone, Decide, Open, EngineEnds, ClaimFails, Stop
<1>2. pc[c] # "idle"
  BY DEF CheckDone, Decide, Open, EngineEnds, ClaimFails, Stop, Working
<1>3. \E place \in Places \ {"idle"} : Goes(c, place)
  BY DEF CheckDone, Decide, Open, EngineEnds, ClaimFails, Stop, Places, Before, Working, Answering
<1>4. route' \in [Copies -> {"none", "direct", "proxied"}]
  <2>1. route' = route \/ \E r \in {"direct", "proxied"} : route' = [route EXCEPT ![c] = r]
    BY DEF CheckDone, Decide, Open, EngineEnds, ClaimFails, Stop
  <2>. QED BY <2>1 DEF CopyType
<1>5. Onwards(c) BY <1>1, <1>2, <1>3, <1>4 DEF Onwards
<1>. QED BY <1>1, <1>5, OnwardsType, Frames

LEMMA MarkDoneType == ASSUME TypeInv, NEW c \in Copies, MarkDone(c) PROVE TypeInv' /\ Onwards(c)
<1>. USE DEF TypeInv, TypeOK
<1>1. UNCHANGED <<platform, queue, network, cancelled, semaphore, job, route, history, bounds>>
  BY DEF MarkDone
<1>2. Onwards(c)
  <2>1. pc[c] # "idle" /\ Goes(c, "finishing") BY DEF MarkDone
  <2>2. "finishing" \in Places \ {"idle"} BY DEF Places, Working
  <2>3. route' \in [Copies -> {"none", "direct", "proxied"}] BY <1>1 DEF CopyType
  <2>. QED BY <1>1, <2>1, <2>2, <2>3 DEF Onwards
<1>3. MemoryType'
  <2>1. Op(c) \in Ops BY DEF MarkDone, JobsAreDispatched
  <2>. QED BY <1>1, <2>1 DEF MarkDone, MemoryType
<1>. QED BY <1>1, <1>2, <1>3, OnwardsType, Frames

LEMMA ClaimType ==
  ASSUME TypeInv, NEW c \in Copies, ClaimWon(c) \/ ClaimCutShort(c)
  PROVE  TypeInv'
<1>. USE DEF TypeInv, TypeOK
<1>1. /\ UNCHANGED <<halted, halts, heard, queue, network, memory, history, crashes>>
      /\ owner' = [owner EXCEPT ![Op(c)] = "node"] /\ pc[c] = "claiming"
  <2>1. pc[c] = "claiming" /\ owner' = [owner EXCEPT ![Op(c)] = "node"]
    BY DEF ClaimWon, ClaimCutShort
  <2>2. UNCHANGED <<halted, halts, heard, queue, network, memory, history, crashes>>
    BY DEF ClaimWon, ClaimCutShort, bounds
  <2>. QED BY <2>1, <2>2
<1>2. Op(c) \in Ops BY <1>1 DEF JobsAreDispatched
<1>3. PlatformType' BY <1>1, <1>2 DEF PlatformType
<1>4. UNCHANGED <<subject, orders, outbox>> BY <1>1 DEF queue, network
<1>5. CASE ClaimWon(c)
  <2>1. UNCHANGED <<semaphore, job, route, bounds>> BY <1>5 DEF ClaimWon, bounds
  <2>2. \E place \in Places \ {"idle"} : Goes(c, place)
    BY <1>5 DEF ClaimWon, Places, Before, Answering
  <2>3. Onwards(c) BY <1>1, <2>1, <2>2 DEF Onwards, CopyType
  <2>. QED BY <1>1, <1>3, <2>1, <2>3, OnwardsType, Frames DEF bounds
<1>6. CASE ClaimCutShort(c)
  <2>1. Return(c) /\ losses' = losses + 1 BY <1>6 DEF ClaimCutShort
  <2>2. HistoryType' BY <1>1, <2>1 DEF HistoryType, history
  <2>3. pc[c] # "idle" BY <1>1
  <2>4. CopyType' /\ JobsAreDispatched' /\ SemaphoreType' BY <1>1, <1>4, <2>1, <2>3, Returns
  <2>. QED BY <1>1, <1>3, <1>4, <2>2, <2>4, Frames, DispatchedFrames
<1>. QED BY <1>5, <1>6

\* The ways out of run_operation without a word, and with one.
LEMMA ReturnType ==
  ASSUME TypeInv, NEW c \in Copies,
         \/ CheckHalt(c) \/ SeeHalt(c) \/ ClaimLost(c) \/ UnknownType(c) \/ Answer(c)
  PROVE  TypeInv'
<1>. USE DEF TypeInv, TypeOK
<1>1. /\ UNCHANGED <<platform, queue, orders, memory, era, caught, bounds>> /\ pc[c] # "idle"
      /\ dropped' = dropped \/ dropped' = dropped \cup {job[c]}
  BY DEF CheckHalt, SeeHalt, ClaimLost, UnknownType, Answer, network, history, Answering
<1>2. UNCHANGED <<subject, orders>> BY <1>1 DEF queue
<1>3. job[c] \in Msgs BY <1>1 DEF CopyType
<1>4. HistoryType' BY <1>1, <1>3 DEF HistoryType, bounds
<1>5. CopyType' /\ JobsAreDispatched' /\ SemaphoreType'
  <2>1. CASE Return(c) BY <1>1, <1>2, <2>1, Returns
  <2>2. CASE ~Return(c)
    <3>1. Goes(c, "unhalted") /\ UNCHANGED <<job, route, semaphore>>
      BY <2>2 DEF CheckHalt, SeeHalt, ClaimLost, UnknownType, Answer
    <3>2. "unhalted" \in Places \ {"idle"} BY DEF Places, Before
    <3>3. route' \in [Copies -> {"none", "direct", "proxied"}] BY <3>1 DEF CopyType
    <3>. QED BY <1>1, <1>2, <3>1, <3>2, <3>3, Moves, Frames
  <2>. QED BY <2>1, <2>2
<1>6. NetworkType' /\ AcksAreDispatched' /\ CommandsAreDispatched'
  <2>1. CASE UNCHANGED outbox BY <1>2, <2>1, Frames, DispatchedFrames DEF network
  <2>2. CASE outbox' = Append(outbox, Report(Op(c), ReportAt(pc[c])))
    <3>1. Op(c) \in Ops BY <1>1 DEF JobsAreDispatched
    <3>2. ReportAt(pc[c]) \in Reports BY DEF ReportAt, Reports
    <3>3. Report(Op(c), ReportAt(pc[c])) \in Published BY <3>1, <3>2, PublishedTypes
    <3>4. Report(Op(c), ReportAt(pc[c])).kind # "ack" BY DEF Report
    <3>. QED BY <1>2, <2>2, <3>3, <3>4, PublishType
  <2>3. UNCHANGED outbox \/ outbox' = Append(outbox, Report(Op(c), ReportAt(pc[c])))
    BY DEF CheckHalt, SeeHalt, ClaimLost, UnknownType, Answer, network
  <2>. QED BY <2>1, <2>2, <2>3
<1>. QED BY <1>1, <1>4, <1>5, <1>6, Frames

LEMMA AckType == ASSUME TypeInv, NEW c \in Copies, Ack(c) PROVE TypeInv'
<1>. USE DEF TypeInv, TypeOK
<1>1. /\ UNCHANGED <<platform, pushed, subject, orders, memory, semaphore, route, history, bounds>>
      /\ pc[c] = "acking" /\ pc' = [pc EXCEPT ![c] = "idle"] /\ job' = [job EXCEPT ![c] = NoMsg]
  BY DEF Ack, Goes
<1>2. job[c] \in Msgs /\ Op(c) \in Ops BY <1>1 DEF CopyType, JobsAreDispatched
<1>3. CopyType'
  <2>1. pc' \in [Copies -> Places] /\ job' \in [Copies -> Msgs \cup {NoMsg}]
    BY <1>1 DEF CopyType, Places
  <2>2. \A d \in Copies : pc'[d] = "idle" <=> job'[d] = NoMsg BY <1>1 DEF CopyType
  <2>. QED BY <1>1, <2>1, <2>2 DEF CopyType
<1>4. JobsAreDispatched' BY <1>1 DEF JobsAreDispatched, Op, CopyType
<1>5. QueueType'
  <2>1. state' = state \/ state' = [state EXCEPT ![job[c]] = "free"] BY DEF Ack
  <2>2. state' \in [Msgs -> {"free", "pushed", "ready", "out", "acked"}]
    BY <2>1 DEF QueueType
  <2>3. \A m \in Msgs : state'[m] # "free" => subject'[m] \in Ops
    BY <1>1, <2>1 DEF QueueType
  <2>. QED BY <1>1, <2>2, <2>3 DEF QueueType
<1>6. NetworkType' /\ AcksAreDispatched' /\ CommandsAreDispatched'
  <2>1. CASE UNCHANGED outbox BY <1>1, <2>1, Frames, DispatchedFrames DEF network
  <2>2. CASE outbox' = Append(outbox, AckOf(job[c]))
    <3>1. AckOf(job[c]) \in Published BY <1>2, PublishedTypes
    <3>2. AckOf(job[c]).msg = job[c] BY DEF AckOf
    <3>3. subject[job[c]] \in Ops BY <1>2 DEF Op
    <3>. QED BY <1>1, <2>2, <3>1, <3>2, <3>3, PublishType
  <2>3. UNCHANGED outbox \/ outbox' = Append(outbox, AckOf(job[c])) BY DEF Ack
  <2>. QED BY <2>1, <2>2, <2>3
<1>. QED BY <1>1, <1>3, <1>4, <1>5, <1>6, Frames

LEMMA NextType == TypeInv /\ [Next]_vars => TypeInv'
<1> SUFFICES ASSUME TypeInv, [Next]_vars PROVE TypeInv'
  OBVIOUS
<1>1. CASE UNCHANGED vars
  <2>1. UNCHANGED <<platform, queue, network, memory, semaphore, copies, history, bounds>>
    BY <1>1 DEF vars
  <2>2. UNCHANGED <<subject, orders, outbox>> BY <2>1 DEF queue, network
  <2>. QED BY <2>1, <2>2, Frames, DispatchedFrames DEF TypeInv, TypeOK
<1>2. ASSUME NEW c \in Copies, CopyStep(c) \/ Stop(c) PROVE TypeInv'
  BY <1>2, PermitStepType, QuietStepType, MarkDoneType, ClaimType, ReturnType, AckType
     DEF CopyStep
<1>. QED BY <1>1, <1>2, DispatchType, WorldType, LoopType DEF Next

\* Every variable holds a value of its type (run_operation and the loops of run_daemon).
THEOREM TypeCorrect == Spec => []TypeOK
<1>1. Spec => []TypeInv BY InitType, NextType, PTL DEF Spec
<1>2. TypeInv => TypeOK BY DEF TypeInv
<1>. QED BY <1>1, <1>2, PTL

-----------------------------------------------------------------------------
(* Whom a step moves *)

\* A step of the platform, its queue or the connection moves no copy, and leaves every
\* copy at its operation: a slot that a copy refers to is not dispatched again.
LEMMA WorldMovesNone ==
  ASSUME TypeInv,
         \/ (\E m \in Msgs, o \in Ops : Dispatch(m, o)) \/ Halt \/ Resume
         \/ (\E o \in Ops : OtherClaims(o)) \/ (\E m \in Msgs : AckWait(m)) \/ Flush \/ LoseSent
  PROVE  /\ UNCHANGED <<copies, semaphore, cancelled, caught>>
         /\ \A c \in Copies : pc[c] # "idle" => Op(c)' = Op(c)
         /\ \A o \in Ops : owner[o] = "node" => owner'[o] = "node"
<1>1. UNCHANGED <<copies, semaphore, cancelled, caught>>
  BY DEF Dispatch, Halt, Resume, OtherClaims, AckWait, Flush, LoseSent, memory, history
<1>2. \A o \in Ops : owner[o] = "node" => owner'[o] = "node"
  <2>1. owner' = owner \/ \E o \in Ops : owner[o] = "nobody" /\ owner' = [owner EXCEPT ![o] = "other"]
    BY DEF Dispatch, Halt, Resume, OtherClaims, AckWait, Flush, LoseSent, platform
  <2>. QED BY <2>1 DEF TypeInv, TypeOK, PlatformType
<1>3. ASSUME NEW c \in Copies, pc[c] # "idle" PROVE Op(c)' = Op(c)
  <2>1. job'[c] = job[c] BY <1>1 DEF copies
  <2>2. CASE UNCHANGED subject BY <2>1, <2>2 DEF Op
  <2>3. ASSUME NEW m \in Msgs, NEW o \in Ops, Dispatch(m, o) PROVE Op(c)' = Op(c)
    <3>1. job[c] # m BY <2>3 DEF Dispatch, Unreferenced
    <3>2. subject' = [subject EXCEPT ![m] = o] /\ job[c] \in Msgs
      BY <1>3, <2>3 DEF Dispatch, TypeInv, TypeOK, CopyType
    <3>. QED BY <2>1, <3>1, <3>2 DEF Op, TypeInv, TypeOK, QueueType
  <2>4. UNCHANGED subject \/ \E m \in Msgs, o \in Ops : Dispatch(m, o)
    BY DEF Halt, Resume, OtherClaims, AckWait, Flush, LoseSent, queue
  <2>. QED BY <2>2, <2>3, <2>4
<1>. QED BY <1>1, <1>2, <1>3

\* A copy that one is not, and what it works on, stays where it is.
LEMMA OthersStay ==
  ASSUME TypeInv, NEW c \in Copies,
         CopyStep(c) \/ Stop(c) \/ (\E m \in Msgs : Deliver(c, m)) \/ PushedOperation(c)
  PROVE  /\ \E place : Goes(c, place)
         /\ \A d \in Copies \ {c} : pc'[d] = pc[d] /\ Op(d)' = Op(d)
         /\ pc[c] \notin {"idle", "acking"} => Op(c)' = Op(c)
         /\ UNCHANGED <<cancelled, caught>>
<1>1. \E place : Goes(c, place)
  <2>1. ASSUME CopyStep(c) \/ Stop(c) PROVE \E place : Goes(c, place)
    BY <2>1 DEF CopyStep, Start, Acquire, CheckHalt, CheckDone, ClaimWon, ClaimLost,
                ClaimCutShort, ClaimFails, Decide, Open, UnknownType, SeeHalt, EngineEnds,
                MarkDone, Answer, Ack, Stop, Return
  <2>2. ASSUME NEW m, Spawn(c, m) PROVE \E place : Goes(c, place) BY <2>2 DEF Spawn, Goes
  <2>. QED BY <2>1, <2>2 DEF Deliver, PushedOperation
<1>2. UNCHANGED subject
  BY DEF CopyStep, Start, Acquire, CheckHalt, CheckDone, ClaimWon, ClaimLost, ClaimCutShort,
         ClaimFails, Decide, Open, UnknownType, SeeHalt, EngineEnds, MarkDone, Answer, Ack,
         Stop, Deliver, PushedOperation, queue
<1>3. UNCHANGED <<cancelled, caught>>
  BY DEF CopyStep, Start, Acquire, CheckHalt, CheckDone, ClaimWon, ClaimLost, ClaimCutShort,
         ClaimFails, Decide, Open, UnknownType, SeeHalt, EngineEnds, MarkDone, Answer, Ack,
         Stop, Deliver, PushedOperation, memory, history
<1>4. /\ \A d \in Copies \ {c} : job'[d] = job[d]
      /\ pc[c] \notin {"idle", "acking"} => job'[c] = job[c]
  <2>1. job \in [Copies -> Msgs \cup {NoMsg}] BY DEF TypeInv, TypeOK, CopyType
  <2>2. CASE UNCHANGED job BY <2>2
  <2>3. CASE Ack(c) BY <2>1, <2>3 DEF Ack
  <2>4. ASSUME NEW m, Spawn(c, m)
        PROVE  pc[c] = "idle" /\ \A d \in Copies \ {c} : job'[d] = job[d]
    BY <2>1, <2>4 DEF Spawn
  <2>5. UNCHANGED job \/ Ack(c) \/ \E m : Spawn(c, m)
    BY DEF CopyStep, Start, Acquire, CheckHalt, CheckDone, ClaimWon, ClaimLost, ClaimCutShort,
           ClaimFails, Decide, Open, UnknownType, SeeHalt, EngineEnds, MarkDone, Answer,
           Stop, Return, Deliver, PushedOperation
  <2>. QED BY <2>2, <2>3, <2>4, <2>5
<1>5. \A d \in Copies \ {c} : pc'[d] = pc[d] BY <1>1 DEF Goes, TypeInv, TypeOK, CopyType
<1>. QED BY <1>1, <1>2, <1>3, <1>4, <1>5 DEF Op

\* Every other step is of the commands that halt and resume, or the end of the process.
LEMMA Steps ==
  ASSUME TypeInv, [Next]_vars
  PROVE  \/ UNCHANGED vars
         \/ (\E m \in Msgs, o \in Ops : Dispatch(m, o)) \/ Halt \/ Resume
         \/ (\E o \in Ops : OtherClaims(o)) \/ (\E m \in Msgs : AckWait(m)) \/ Flush \/ LoseSent
         \/ Crash \/ CancelWorkflow \/ ResumeWorkflow
         \/ \E c \in Copies : CopyStep(c) \/ Stop(c) \/ (\E m \in Msgs : Deliver(c, m)) \/ PushedOperation(c)
BY DEF Next, Taken

-----------------------------------------------------------------------------
(* What waited for a permit when the workflow was halted *)

\* A copy that the halt found waiting has not got past the look at the halt, which is
\* still in force.
HaltInv ==
  /\ caught # {} => cancelled
  /\ \A c \in caught : pc[c] \in {"idle", "start", "queued", "woken", "acking"}

LEMMA HaltNext == ASSUME TypeInv, HaltInv, [Next]_vars PROVE HaltInv'
<1>. USE DEF HaltInv
<1>1. caught \subseteq Copies BY DEF TypeInv, TypeOK, HistoryType
<1>2. CASE UNCHANGED vars BY <1>2 DEF vars, memory, copies, history
<1>3. CASE \/ (\E m \in Msgs, o \in Ops : Dispatch(m, o)) \/ Halt \/ Resume
           \/ (\E o \in Ops : OtherClaims(o)) \/ (\E m \in Msgs : AckWait(m)) \/ Flush \/ LoseSent
  BY <1>3, WorldMovesNone DEF copies
<1>4. CASE Crash \/ ResumeWorkflow BY <1>4 DEF Crash, ResumeWorkflow
<1>5. CASE CancelWorkflow BY <1>5 DEF CancelWorkflow, copies
<1>6. ASSUME NEW c \in Copies,
             CopyStep(c) \/ Stop(c) \/ (\E m \in Msgs : Deliver(c, m)) \/ PushedOperation(c)
      PROVE  HaltInv'
  <2>1. UNCHANGED <<cancelled, caught>> BY <1>6, OthersStay
  <2>2. ASSUME NEW d \in caught PROVE pc'[d] \in {"idle", "start", "queued", "woken", "acking"}
    <3>1. CASE d # c BY <1>1, <1>6, <3>1, OthersStay
    <3>2. CASE d = c
      <4>1. /\ pc[c] \in {"idle", "start", "queued", "woken", "acking"} /\ cancelled
            /\ pc \in [Copies -> Places]
        BY <3>2 DEF TypeInv, TypeOK, CopyType
      <4>2. \/ Start(c) \/ Acquire(c) \/ CheckHalt(c) \/ Ack(c)
            \/ (\E m \in Msgs : Deliver(c, m)) \/ PushedOperation(c)
        BY <1>6, <4>1 DEF CopyStep, CheckDone, ClaimWon, ClaimLost, ClaimCutShort, ClaimFails,
                          Decide, Open, UnknownType, SeeHalt, EngineEnds, MarkDone, Answer,
                          Stop, Working, Answering
      <4>3. \E place \in {"idle", "start", "queued", "woken", "acking"} : Goes(c, place)
        BY <4>1, <4>2 DEF Start, Acquire, CheckHalt, Ack, Return, Deliver, PushedOperation,
                          Spawn, Goes
      <4>. QED BY <3>2, <4>1, <4>3 DEF Goes
    <3>. QED BY <3>1, <3>2
  <2>. QED BY <2>1, <2>2
<1>. QED BY <1>2, <1>3, <1>4, <1>5, <1>6, Steps

\* What waited for a permit when the workflow was halted does not start to work until it
\* is resumed, whatever is redelivered (the look at the halt after the wait, lib.rs).
THEOREM QueuedStaysHalted == Spec => []HaltedStaysQueued
<1>1. Init => HaltInv BY DEF Init, HaltInv
<1>2. Spec => [](TypeInv /\ HaltInv)
  BY <1>1, InitType, NextType, HaltNext, PTL DEF Spec
<1>3. HaltInv => HaltedStaysQueued BY DEF HaltInv, HaltedStaysQueued, Working
<1>. QED BY <1>2, <1>3, PTL

-----------------------------------------------------------------------------
(* Claims *)

\* A copy past the claim of an operation knows that its node has it, and no other node
\* can claim it any more.
OwnerInv ==
  \A c \in Copies :
    pc[c] \in Working \cup {"deciding"} /\ Op(c) \in Claimed => owner[Op(c)] = "node"

LEMMA OwnerNext == ASSUME TypeInv, OwnerInv, [Next]_vars PROVE OwnerInv'
<1>1. pc \in [Copies -> Places] /\ owner \in [Ops -> {"nobody", "node", "other"}]
  BY DEF TypeInv, TypeOK, CopyType, PlatformType
<1>2. CASE UNCHANGED vars BY <1>2 DEF vars, platform, queue, copies, OwnerInv, Op
<1>3. CASE \/ (\E m \in Msgs, o \in Ops : Dispatch(m, o)) \/ Halt \/ Resume
           \/ (\E o \in Ops : OtherClaims(o)) \/ (\E m \in Msgs : AckWait(m)) \/ Flush \/ LoseSent
  <2>1. UNCHANGED pc BY <1>3, WorldMovesNone DEF copies
  <2>2. ASSUME NEW c \in Copies, pc[c] \in Working \cup {"deciding"}, Op(c)' \in Claimed
        PROVE  owner'[Op(c)'] = "node"
    <3>1. pc[c] # "idle" BY <2>2 DEF Working
    <3>2. Op(c)' = Op(c) /\ Op(c) \in Ops
      BY <1>3, <3>1, WorldMovesNone DEF TypeInv, JobsAreDispatched
    <3>. QED BY <1>3, <2>2, <3>2, WorldMovesNone DEF OwnerInv
  <2>. QED BY <2>1, <2>2 DEF OwnerInv
<1>4. CASE Crash BY <1>4 DEF Crash, OwnerInv, Working
<1>5. CASE CancelWorkflow \/ ResumeWorkflow
  <2>1. UNCHANGED <<owner, subject, pc, job>>
    BY <1>5 DEF CancelWorkflow, ResumeWorkflow, platform, queue, copies
  <2>. QED BY <2>1 DEF OwnerInv, Op
<1>6. ASSUME NEW c \in Copies,
             CopyStep(c) \/ Stop(c) \/ (\E m \in Msgs : Deliver(c, m)) \/ PushedOperation(c)
      PROVE  OwnerInv'
  <2>1. ClaimWon(c) \/ ClaimCutShort(c) \/ UNCHANGED owner
    BY <1>6 DEF CopyStep, Start, Acquire, CheckHalt, CheckDone, ClaimLost, ClaimFails, Decide,
                Open, UnknownType, SeeHalt, EngineEnds, MarkDone, Answer, Ack, Stop,
                Deliver, PushedOperation, platform
  <2>2. /\ \A o \in Ops : owner[o] = "node" => owner'[o] = "node"
        /\ ClaimWon(c) => Op(c) \in Ops /\ owner'[Op(c)] = "node"
    <3>1. ASSUME ClaimWon(c) \/ ClaimCutShort(c)
          PROVE  Op(c) \in Ops /\ owner' = [owner EXCEPT ![Op(c)] = "node"]
      <4>1. pc[c] = "claiming" BY <3>1 DEF ClaimWon, ClaimCutShort
      <4>. QED BY <3>1, <4>1 DEF ClaimWon, ClaimCutShort, TypeInv, JobsAreDispatched
    <3>. QED BY <1>1, <2>1, <3>1
  <2>3. ASSUME NEW d \in Copies, pc'[d] \in Working \cup {"deciding"}, Op(d)' \in Claimed
        PROVE  owner'[Op(d)'] = "node"
    <3>1. CASE d # c
      <4>1. pc'[d] = pc[d] /\ Op(d)' = Op(d) BY <1>6, <3>1, OthersStay
      <4>. QED BY <2>2, <2>3, <4>1 DEF OwnerInv
    <3>2. CASE d = c
      <4>1. PICK place : Goes(c, place) BY <1>6, OthersStay
      <4>2. pc'[c] = place BY <1>1, <4>1 DEF Goes
      <4>3. \/ CheckDone(c) \/ ClaimWon(c) \/ ClaimFails(c) \/ Decide(c) \/ Open(c)
            \/ EngineEnds(c) \/ MarkDone(c) \/ Stop(c)
        <5>1. pc'[c] \notin {"idle", "start", "queued", "woken", "unhalted", "acking"}
          BY <2>3, <3>2 DEF Working
        <5>2. ASSUME Start(c) \/ Acquire(c) \/ Ack(c) \/ CheckHalt(c) PROVE FALSE
          BY <1>1, <5>1, <5>2 DEF Start, Acquire, Ack, CheckHalt, Return, Goes
        <5>3. ~Return(c) BY <1>1, <5>1 DEF Return, Goes
        <5>4. ~\E m : Spawn(c, m) BY <1>1, <5>1 DEF Spawn
        <5>. QED BY <1>6, <5>2, <5>3, <5>4
                 DEF CopyStep, ClaimLost, ClaimCutShort, UnknownType, SeeHalt, Answer, Deliver,
                     PushedOperation
      <4>4. pc[c] \notin {"idle", "acking"} /\ Op(c)' = Op(c)
        <5>1. pc[c] \notin {"idle", "acking"}
          BY <4>3 DEF CheckDone, ClaimWon, ClaimFails, Decide, Open, EngineEnds, MarkDone,
                      Stop, Working
        <5>. QED BY <1>6, <5>1, OthersStay
      <4>5. CASE ClaimWon(c) BY <2>2, <3>2, <4>4, <4>5
      <4>6. CASE pc[c] \in Working \cup {"deciding"}
        BY <2>2, <2>3, <3>2, <4>4, <4>6 DEF OwnerInv
      <4>7. CASE CheckDone(c) \/ ClaimFails(c)
        BY <1>1, <2>3, <3>2, <4>4, <4>7 DEF CheckDone, ClaimFails, Goes, Working
      <4>8. Decide(c) \/ Open(c) \/ EngineEnds(c) \/ MarkDone(c) \/ Stop(c)
              => pc[c] \in Working \cup {"deciding"}
        BY DEF Decide, Open, EngineEnds, MarkDone, Stop, Working
      <4>. QED BY <4>3, <4>5, <4>6, <4>7, <4>8
    <3>. QED BY <3>1, <3>2
  <2>. QED BY <2>3 DEF OwnerInv
<1>. QED BY <1>2, <1>3, <1>4, <1>5, <1>6, Steps

\* An operation that several nodes were dispatched is worked on only by a node that knows
\* that it has claimed it (claim_operation and the arms of its outcome, lib.rs).
THEOREM OwnerWorks == Spec => []OnlyTheOwnerWorks
<1>1. Init => OwnerInv BY DEF Init, OwnerInv, Working
<1>2. Spec => [](TypeInv /\ OwnerInv)
  BY <1>1, InitType, NextType, OwnerNext, PTL DEF Spec
<1>3. OwnerInv => OnlyTheOwnerWorks BY DEF OwnerInv, OnlyTheOwnerWorks
<1>. QED BY <1>2, <1>3, PTL

-----------------------------------------------------------------------------
(* Permits *)

\* The permits that are free and the copies that hold one make up the semaphore; what
\* waits for a permit is of a type that takes one.
Holding == {c \in Copies : pc[c] \in HoldsPermit /\ Op(c) \in Gated}
PermitInv ==
  /\ permits + Cardinality(Holding) = Tasks
  /\ \A c \in Copies : pc[c] = "queued" => Op(c) \in Gated

LEMMA HoldingFinite == IsFiniteSet(Holding) /\ Cardinality(Holding) \in Nat
<1>1. Holding \subseteq Copies BY DEF Holding
<1>. QED BY <1>1, FS_Subset, FS_CardinalityType

\* A step that takes no permit and gives none back.
LEMMA SameHolders ==
  ASSUME PermitInv, UNCHANGED permits, Holding' = Holding,
         \A c \in Copies : pc'[c] = "queued" => Op(c)' \in Gated
  PROVE  PermitInv'
BY DEF PermitInv

\* A step of one copy decides only about that copy.
LEMMA OnlyOneDecides ==
  ASSUME NEW c \in Copies, \A d \in Copies \ {c} : pc'[d] = pc[d] /\ Op(d)' = Op(d)
  PROVE  /\ c \in Holding' /\ c \in Holding => Holding' = Holding
         /\ c \notin Holding' /\ c \notin Holding => Holding' = Holding
         /\ c \in Holding' /\ c \notin Holding => Holding' = Holding \cup {c}
         /\ c \notin Holding' /\ c \in Holding => Holding' = Holding \ {c}
BY DEF Holding

LEMMA PermitReturn ==
  ASSUME TypeInv, PermitInv, NEW c \in Copies, pc[c] \in HoldsPermit, Return(c), UNCHANGED subject,
         \A d \in Copies \ {c} : pc'[d] = pc[d] /\ Op(d)' = Op(d)
  PROVE  PermitInv'
<1>1. pc'[c] = "acking" BY DEF Return, Goes, TypeInv, TypeOK, CopyType
<1>2. c \notin Holding' BY <1>1 DEF Holding, HoldsPermit
<1>3. \A d \in Copies : pc'[d] = "queued" => Op(d)' \in Gated BY <1>1 DEF PermitInv
<1>4. CASE Op(c) \in Gated
  <2>1. c \in Holding BY <1>4 DEF Holding
  <2>2. Holding' = Holding \ {c} BY <1>2, <2>1, OnlyOneDecides
  <2>3. Cardinality(Holding') = Cardinality(Holding) - 1
    BY <2>1, <2>2, HoldingFinite, FS_RemoveElement
  <2>4. permits' = permits + 1 BY <1>4 DEF Return
  <2>. QED BY <1>3, <2>3, <2>4, HoldingFinite DEF PermitInv, TypeInv, TypeOK, SemaphoreType
<1>5. CASE Op(c) \notin Gated
  <2>1. c \notin Holding BY <1>5 DEF Holding
  <2>2. Holding' = Holding BY <1>2, <2>1, OnlyOneDecides
  <2>3. permits' = permits BY <1>5 DEF Return
  <2>. QED BY <1>3, <2>2, <2>3, SameHolders
<1>. QED BY <1>4, <1>5

LEMMA PermitNext == ASSUME TypeInv, PermitInv, [Next]_vars PROVE PermitInv'
<1>1. pc \in [Copies -> Places] /\ permits \in Nat
  BY DEF TypeInv, TypeOK, CopyType, SemaphoreType
<1>2. CASE UNCHANGED vars BY <1>2 DEF vars, queue, semaphore, copies, PermitInv, Holding, Op
<1>3. CASE \/ (\E m \in Msgs, o \in Ops : Dispatch(m, o)) \/ Halt \/ Resume
           \/ (\E o \in Ops : OtherClaims(o)) \/ (\E m \in Msgs : AckWait(m)) \/ Flush \/ LoseSent
  <2>1. UNCHANGED <<pc, permits>> BY <1>3, WorldMovesNone DEF copies, semaphore
  <2>2. \A c \in Copies : pc[c] # "idle" => Op(c)' = Op(c) BY <1>3, WorldMovesNone
  <2>3. Holding' = Holding BY <2>1, <2>2 DEF Holding, HoldsPermit
  <2>. QED BY <2>1, <2>2, <2>3 DEF PermitInv
<1>4. CASE Crash
  <2>1. permits' = Tasks /\ \A c \in Copies : pc'[c] = "idle" BY <1>4 DEF Crash
  <2>2. Holding' = {} BY <2>1 DEF Holding, HoldsPermit
  <2>. QED BY <2>1, <2>2, FS_EmptySet DEF PermitInv
<1>5. CASE CancelWorkflow \/ ResumeWorkflow
  <2>1. UNCHANGED <<permits, subject, pc, job>>
    BY <1>5 DEF CancelWorkflow, ResumeWorkflow, queue, copies, semaphore
  <2>. QED BY <2>1 DEF PermitInv, Holding, Op
<1>6. ASSUME NEW c \in Copies,
             CopyStep(c) \/ Stop(c) \/ (\E m \in Msgs : Deliver(c, m)) \/ PushedOperation(c)
      PROVE  PermitInv'
  <2>1. PICK place : Goes(c, place) BY <1>6, OthersStay
  <2>2. pc'[c] = place BY <1>1, <2>1 DEF Goes
  <2>3. \A d \in Copies \ {c} : pc'[d] = pc[d] /\ Op(d)' = Op(d) BY <1>6, OthersStay
  <2>4. pc[c] \notin {"idle", "acking"} => Op(c)' = Op(c) BY <1>6, OthersStay
  <2>5. CASE Return(c)
    <3>1. pc[c] \in HoldsPermit /\ UNCHANGED subject
      <4>1. \/ CheckHalt(c) \/ ClaimLost(c) \/ ClaimCutShort(c) \/ UnknownType(c) \/ SeeHalt(c)
            \/ Answer(c)
        <5>1. pc'[c] = "acking" BY <1>1, <2>5 DEF Return, Goes
        <5>. QED BY <1>1, <1>6, <5>1
                 DEF CopyStep, Start, Acquire, CheckDone, ClaimWon, ClaimFails, Decide, Open,
                     EngineEnds, MarkDone, Ack, Stop, Deliver, PushedOperation, Spawn, Goes
      <4>. QED BY <1>1, <4>1 DEF CheckHalt, ClaimLost, ClaimCutShort, UnknownType, SeeHalt, Answer,
                          HoldsPermit, Places, Before, Working, Answering, queue
    <3>. QED BY <2>3, <2>5, <3>1, PermitReturn
  <2>6. CASE Start(c)
    <3>1. /\ pc[c] = "start" /\ permits' = permits
          /\ pc'[c] = IF Op(c) \in Gated THEN "queued" ELSE "woken"
      BY <1>1, <2>6 DEF Start, Goes
    <3>2. c \notin Holding' /\ c \notin Holding BY <2>4, <3>1 DEF Holding, HoldsPermit
    <3>. QED BY <2>3, <2>4, <3>1, <3>2, OnlyOneDecides, SameHolders DEF PermitInv
  <2>7. CASE Acquire(c)
    <3>1. /\ pc[c] = "queued" /\ permits' = permits - 1 /\ pc'[c] = "woken"
      BY <1>1, <2>7 DEF Acquire, Goes
    <3>2. Op(c) \in Gated /\ Op(c)' = Op(c) BY <2>4, <3>1 DEF PermitInv
    <3>3. c \in Holding' /\ c \notin Holding
      BY <3>1, <3>2 DEF Holding, HoldsPermit, Places, Before
    <3>4. Cardinality(Holding') = Cardinality(Holding) + 1
      BY <2>3, <3>3, OnlyOneDecides, HoldingFinite, FS_AddElement
    <3>. QED BY <1>1, <2>3, <3>1, <3>4, HoldingFinite DEF PermitInv
  <2>8. CASE ~Return(c) /\ ~Start(c) /\ ~Acquire(c) /\ pc[c] \in HoldsPermit
    <3>1. permits' = permits /\ pc'[c] \in HoldsPermit
      <4>1. \/ CheckHalt(c) \/ CheckDone(c) \/ ClaimWon(c) \/ ClaimFails(c) \/ Decide(c) \/ Open(c)
            \/ EngineEnds(c) \/ MarkDone(c) \/ Stop(c)
        BY <1>6, <2>8 DEF CopyStep, ClaimLost, ClaimCutShort, UnknownType, SeeHalt, Answer, Ack,
                          Deliver, PushedOperation, Spawn, HoldsPermit
      <4>2. permits' = permits
        BY <2>8, <4>1 DEF CheckHalt, CheckDone, ClaimWon, ClaimFails, Decide, Open, EngineEnds,
                          MarkDone, Stop, semaphore
      <4>3. \E p \in HoldsPermit : Goes(c, p)
        BY <2>8, <4>1 DEF CheckHalt, CheckDone, ClaimWon, ClaimFails, Decide, Open, EngineEnds,
                          MarkDone, Stop, HoldsPermit, Places, Before, Working, Answering
      <4>. QED BY <1>1, <4>2, <4>3 DEF Goes
    <3>2. Op(c)' = Op(c) BY <2>4, <2>8 DEF HoldsPermit
    <3>3. Holding' = Holding BY <2>3, <2>8, <3>1, <3>2 DEF Holding
    <3>. QED BY <2>3, <3>1, <3>3, SameHolders DEF PermitInv, HoldsPermit
  <2>9. CASE ~Return(c) /\ ~Start(c) /\ ~Acquire(c) /\ pc[c] \notin HoldsPermit
    <3>1. Ack(c) \/ (\E m \in Msgs : Deliver(c, m)) \/ PushedOperation(c)
      BY <1>1, <1>6, <2>9
         DEF CopyStep, CheckHalt, CheckDone, ClaimWon, ClaimLost, ClaimCutShort, ClaimFails,
             Decide, Open, UnknownType, SeeHalt, EngineEnds, MarkDone, Answer, Stop,
             HoldsPermit, Places, Before, Working, Answering
    <3>2. permits' = permits /\ pc'[c] \in {"idle", "start"}
      BY <1>1, <3>1 DEF Ack, Deliver, PushedOperation, Spawn, Goes, semaphore
    <3>3. Holding' = Holding BY <2>3, <2>9, <3>2 DEF Holding, HoldsPermit
    <3>. QED BY <2>3, <3>2, <3>3, SameHolders DEF PermitInv
  <2>. QED BY <2>5, <2>6, <2>7, <2>8, <2>9
<1>. QED BY <1>2, <1>3, <1>4, <1>5, <1>6, Steps

\* Redelivered or not, no more copies than the operator chose work at a time: every way out
\* of run_operation gives its permit back once.
THEOREM NoMoreThanTasks == Spec => []Throttled
<1>1. Init => PermitInv
  <2>1. ASSUME Init PROVE Holding = {} BY <2>1 DEF Init, Holding, HoldsPermit
  <2>. SUFFICES ASSUME Init PROVE PermitInv
    OBVIOUS
  <2>2. Cardinality(Holding) = 0 BY <2>1, FS_EmptySet
  <2>3. permits = Tasks /\ Tasks \in Nat BY DEF Init
  <2>4. \A c \in Copies : pc[c] # "queued" BY DEF Init
  <2>5. permits + Cardinality(Holding) = Tasks BY <2>2, <2>3
  <2>. QED BY <2>4, <2>5 DEF PermitInv
<1>2. Spec => [](TypeInv /\ PermitInv)
  BY <1>1, InitType, NextType, PermitNext, PTL DEF Spec
<1>3. TypeInv /\ PermitInv => Throttled
  <2>. SUFFICES ASSUME TypeInv, PermitInv PROVE Throttled
    OBVIOUS
  <2>. DEFINE W == {c \in Copies : pc[c] \in Working /\ Op(c) \in Gated}
  <2>1. W \subseteq Holding BY DEF Holding, HoldsPermit, Places, Working
  <2>2. Cardinality(W) <= Cardinality(Holding) /\ Cardinality(W) \in Nat
    BY <2>1, HoldingFinite, FS_Subset, FS_CardinalityType
  <2>3. Cardinality(Holding) <= Tasks
    BY HoldingFinite DEF PermitInv, TypeInv, TypeOK, SemaphoreType
  <2>. QED BY <2>2, <2>3, HoldingFinite DEF Throttled
<1>. QED BY <1>2, <1>3, PTL
-----------------------------------------------------------------------------
(* What the queue let go is accounted for *)

\* Messages of whose operation no report is missing, or which were dropped because the
\* workflow was halted.
Accounted ==
  {m \in Msgs : \/ subject[m] \in Unknown \/ heard[subject[m]] # {}
                \/ owner[subject[m]] = "other" \/ m \in dropped}

\* Operations of which the client's buffer has a report ahead of its place k.
ReportedAhead(k) ==
  {o \in Ops : \E i \in DOMAIN outbox : i < k /\ outbox[i].kind = "report" /\ outbox[i].op = o}

\* As long as the connection loses nothing: a copy that is over has its message accounted
\* for, or the report of its operation is in the client's buffer; that report is ahead of
\* the ack, which is what makes the message's fate at the server inductive.
AckedInv == \A m \in Msgs : state[m] = "acked" => m \in Accounted
AckingInv ==
  \A c \in Copies :
    pc[c] = "acking" => job[c] \in Accounted \/ Op(c) \in ReportedAhead(Len(outbox) + 1)
AcksInv ==
  \A i \in DOMAIN outbox :
    outbox[i].kind = "ack"
      => outbox[i].msg \in Accounted \/ subject[outbox[i].msg] \in ReportedAhead(i)
AccountInv == losses = 0 => AckedInv /\ AckingInv /\ AcksInv

\* What is accounted for stays so: nothing is forgotten of an operation, and only a new
\* dispatch takes a message out of those that were dropped.
LEMMA AccountKept ==
  ASSUME TypeInv, [Next]_vars, NEW m \in Msgs, \A o \in Ops : ~Dispatch(m, o)
  PROVE  /\ subject'[m] = subject[m]
         /\ subject[m] \in Ops /\ m \in Accounted => m \in Accounted'
<1>1. heard \in [Ops -> SUBSET Reports] /\ owner \in [Ops -> {"nobody", "node", "other"}]
  BY DEF TypeInv, TypeOK, PlatformType
<1>2. subject'[m] = subject[m] /\ (m \in dropped => m \in dropped')
  <2>1. ASSUME NEW n \in Msgs, NEW o \in Ops, Dispatch(n, o)
        PROVE  subject'[m] = subject[m] /\ (m \in dropped => m \in dropped')
    <3>1. n # m BY <2>1
    <3>. QED BY <2>1, <3>1 DEF Dispatch, TypeInv, TypeOK, QueueType
  <2>2. CASE UNCHANGED vars BY <2>2 DEF vars, queue, history
  <2>3. CASE \/ Halt \/ Resume \/ (\E o \in Ops : OtherClaims(o)) \/ (\E n \in Msgs : AckWait(n))
             \/ Flush \/ LoseSent \/ Crash \/ CancelWorkflow \/ ResumeWorkflow
    BY <2>3 DEF Halt, Resume, OtherClaims, AckWait, Flush, LoseSent, Crash, CancelWorkflow,
                ResumeWorkflow, queue, history
  <2>4. ASSUME NEW c \in Copies,
               CopyStep(c) \/ Stop(c) \/ (\E n \in Msgs : Deliver(c, n)) \/ PushedOperation(c)
        PROVE  subject' = subject /\ (m \in dropped => m \in dropped')
    BY <2>4 DEF CopyStep, Start, Acquire, CheckHalt, CheckDone, ClaimWon, ClaimLost, ClaimCutShort,
           ClaimFails, Decide, Open, UnknownType, SeeHalt, EngineEnds, MarkDone, Answer, Ack,
           Stop, Deliver, PushedOperation, queue, history
  <2>. QED BY <2>1, <2>2, <2>3, <2>4, Steps
<1>3. \A o \in Ops : heard[o] # {} => heard'[o] # {}
  <2>1. CASE Flush
    <3>1. heard' = heard \/ \E o, what : heard' = [heard EXCEPT ![o] = @ \cup {what}]
      BY <2>1 DEF Flush
    <3>. QED BY <1>1, <3>1
  <2>2. CASE ~Flush
    <3>1. heard' = heard
      BY <2>2, Steps DEF Dispatch, Halt, Resume, OtherClaims, AckWait, LoseSent, Crash,
             CancelWorkflow, ResumeWorkflow, CopyStep, Start, Acquire, CheckHalt, CheckDone,
             ClaimWon, ClaimLost, ClaimCutShort, ClaimFails, Decide, Open, UnknownType, SeeHalt,
             EngineEnds, MarkDone, Answer, Ack, Stop, Deliver, PushedOperation, platform, vars
    <3>. QED BY <3>1
  <2>. QED BY <2>1, <2>2
<1>4. \A o \in Ops : owner[o] = "other" => owner'[o] = "other"
  <2>1. CASE \E c \in Copies : ClaimWon(c) \/ ClaimCutShort(c)
    <3>1. \E c \in Copies : owner[Op(c)] # "other" /\ owner' = [owner EXCEPT ![Op(c)] = "node"]
      BY <2>1 DEF ClaimWon, ClaimCutShort
    <3>. QED BY <1>1, <3>1
  <2>2. CASE \E o \in Ops : OtherClaims(o) BY <1>1, <2>2 DEF OtherClaims
  <2>3. CASE ~(\E o \in Ops : OtherClaims(o)) /\ ~\E c \in Copies : ClaimWon(c) \/ ClaimCutShort(c)
    <3>1. owner' = owner
      BY <2>3, Steps DEF Dispatch, Halt, Resume, AckWait, Flush, LoseSent, Crash,
             CancelWorkflow, ResumeWorkflow, CopyStep, Start, Acquire, CheckHalt, CheckDone,
             ClaimLost, ClaimFails, Decide, Open, UnknownType, SeeHalt,
             EngineEnds, MarkDone, Answer, Ack, Stop, Deliver, PushedOperation, platform, vars
    <3>. QED BY <3>1
  <2>. QED BY <2>1, <2>2, <2>3
<1>. QED BY <1>2, <1>3, <1>4 DEF Accounted

\* A step after which the buffer begins as it did, which lets go of no message, and which
\* dispatches at most slots that nothing refers to. What is new, a copy that is over or an
\* ack, has its message accounted for or is behind the report.
LEMMA AccountStep ==
  ASSUME TypeInv, AccountInv, losses' = losses,
         outbox' \in Seq(Published), NEW D \in SUBSET Msgs,
         \A i \in DOMAIN outbox : i \in DOMAIN outbox' /\ outbox'[i] = outbox[i],
         \A m \in Msgs \ D : /\ subject'[m] = subject[m]
                             /\ subject[m] \in Ops /\ m \in Accounted => m \in Accounted',
         \A m \in D : Unreferenced(m) /\ state'[m] # "acked",
         \A m \in Msgs : state'[m] = "acked" => state[m] = "acked",
         \A c \in Copies : pc'[c] = "acking" =>
            /\ job'[c] = job[c]
            /\ pc[c] = "acking" \/ job[c] \in Accounted' \/ Op(c)' \in ReportedAhead(Len(outbox) + 1)',
         \A i \in DOMAIN outbox' : outbox'[i].kind = "ack" =>
            \/ i \in DOMAIN outbox
            \/ outbox'[i].msg \in Accounted' \/ subject'[outbox'[i].msg] \in ReportedAhead(i)'
  PROVE  AccountInv'
<1>. SUFFICES ASSUME losses = 0 PROVE AckedInv' /\ AckingInv' /\ AcksInv'
  BY DEF AccountInv
<1>1. AckedInv /\ AckingInv /\ AcksInv BY DEF AccountInv
<1>2. /\ Len(outbox) \in Nat /\ Len(outbox') \in Nat /\ Len(outbox) <= Len(outbox')
      /\ DOMAIN outbox = 1 .. Len(outbox) /\ DOMAIN outbox' = 1 .. Len(outbox')
  BY LenProperties DEF TypeInv, TypeOK, NetworkType
<1>3. \A k \in Nat : \A o \in ReportedAhead(k) : o \in ReportedAhead(k)'
  BY DEF ReportedAhead
<1>4. \A o \in ReportedAhead(Len(outbox) + 1) : o \in ReportedAhead(Len(outbox) + 1)'
  BY <1>2 DEF ReportedAhead
<1>5. AckedInv'
  <2>1. \A m \in Msgs : state[m] = "acked" => subject[m] \in Ops
    BY DEF TypeInv, TypeOK, QueueType
  <2>. QED BY <1>1, <2>1 DEF AckedInv
<1>6. AckingInv'
  <2>1. ASSUME NEW c \in Copies, pc'[c] = "acking"
        PROVE  job'[c] \in Accounted' \/ Op(c)' \in ReportedAhead(Len(outbox) + 1)'
    <3>1. CASE pc[c] = "acking"
      <4>1. job[c] \in Msgs /\ subject[job[c]] \in Ops
        BY <3>1 DEF TypeInv, TypeOK, CopyType, JobsAreDispatched, Op
      <4>2. job[c] \notin D BY DEF Unreferenced
      <4>3. Op(c)' = Op(c) BY <2>1, <4>1, <4>2 DEF Op
      <4>. QED BY <1>1, <1>4, <2>1, <3>1, <4>1, <4>2, <4>3 DEF AckingInv
    <3>. QED BY <2>1, <3>1
  <2>. QED BY <2>1 DEF AckingInv
<1>7. AcksInv'
  <2>1. ASSUME NEW i \in DOMAIN outbox, outbox[i].kind = "ack"
        PROVE  outbox[i].msg \in Accounted' \/ subject'[outbox[i].msg] \in ReportedAhead(i)'
    <3>1. outbox[i].msg \in Msgs /\ subject[outbox[i].msg] \in Ops /\ outbox[i] = AckOf(outbox[i].msg)
      BY <2>1, DomainElement DEF TypeInv, TypeOK, NetworkType, Published, AcksAreDispatched, AckOf
    <3>2. Contains(outbox, AckOf(outbox[i].msg)) BY <3>1 DEF Contains
    <3>3. outbox[i].msg \notin D BY <3>2 DEF Unreferenced
    <3>4. subject'[outbox[i].msg] = subject[outbox[i].msg] BY <3>1, <3>3
    <3>. QED BY <1>1, <1>2, <1>3, <2>1, <3>1, <3>3, <3>4 DEF AcksInv
  <2>. QED BY <2>1 DEF AcksInv
<1>. QED BY <1>5, <1>6, <1>7

\* What the steps do to what the account is about.
LEMMA AccountFrames ==
  ASSUME TypeInv, [Next]_vars, ~Flush, ~Crash, ~LoseSent, ~\E c \in Copies : ClaimCutShort(c)
  PROVE  /\ losses' = losses
         /\ outbox' = outbox \/ \E c \in Copies : Answer(c) \/ Ack(c)
         /\ \A m \in Msgs : state'[m] = "acked" => state[m] = "acked"
<1>1. losses' = losses
  BY Steps DEF Dispatch, Halt, Resume, OtherClaims, AckWait, CancelWorkflow, ResumeWorkflow,
               CopyStep, Start, Acquire, CheckHalt, CheckDone, ClaimWon, ClaimLost, ClaimFails,
               Decide, Open, UnknownType, SeeHalt, EngineEnds, MarkDone, Answer, Ack, Stop,
               Deliver, PushedOperation, bounds, vars
<1>2. outbox' = outbox \/ \E c \in Copies : Answer(c) \/ Ack(c)
  BY Steps DEF Dispatch, Halt, Resume, OtherClaims, AckWait, CancelWorkflow, ResumeWorkflow,
               CopyStep, Start, Acquire, CheckHalt, CheckDone, ClaimWon, ClaimLost, ClaimFails,
               Decide, Open, UnknownType, SeeHalt, EngineEnds, MarkDone, Stop,
               Deliver, PushedOperation, network, vars
<1>3. \A m \in Msgs : state'[m] = "acked" => state[m] = "acked"
  <2>1. state' = state \/ \E m \in Msgs, s \in {"free", "pushed", "ready", "out"} : state' = [state EXCEPT ![m] = s]
    <3>1. CASE \E c \in Copies : Ack(c)
      <4>1. PICK c \in Copies : Ack(c) BY <3>1
      <4>2. job[c] \in Msgs BY <4>1 DEF Ack, TypeInv, TypeOK, CopyType
      <4>. QED BY <4>1, <4>2 DEF Ack
    <3>2. CASE ~\E c \in Copies : Ack(c)
      BY <3>2, Steps DEF Dispatch, Halt, Resume, OtherClaims, AckWait, CancelWorkflow,
               ResumeWorkflow, CopyStep, Start, Acquire, CheckHalt, CheckDone, ClaimWon,
               ClaimLost, ClaimFails, Decide, Open, UnknownType, SeeHalt, EngineEnds, MarkDone,
               Answer, Stop, Deliver, PushedOperation, queue, vars
    <3>. QED BY <3>1, <3>2
  <2>. QED BY <2>1 DEF TypeInv, TypeOK, QueueType
<1>. QED BY <1>1, <1>2, <1>3

\* A copy that a step makes be over dropped its message as halted, lost the claim, had no
\* handler for it, or has just published its report.
LEMMA OverAccounted ==
  ASSUME TypeInv, [Next]_vars, ~Crash, ~\E c \in Copies : ClaimCutShort(c),
         NEW c \in Copies, pc'[c] = "acking", pc[c] # "acking"
  PROVE  /\ job'[c] = job[c] /\ subject'[job[c]] = subject[job[c]] /\ job[c] \in Msgs
         /\ job[c] \in Accounted' \/ Answer(c)
<1>1. pc \in [Copies -> Places] BY DEF TypeInv, TypeOK, CopyType
<1>2. \E d \in Copies :
         CopyStep(d) \/ Stop(d) \/ (\E m \in Msgs : Deliver(d, m)) \/ PushedOperation(d)
  <2>1. ~UNCHANGED pc BY <1>1
  <2>. QED BY <2>1, Steps, WorldMovesNone DEF vars, copies, CancelWorkflow, ResumeWorkflow
<1>3. CopyStep(c) \/ Stop(c) \/ (\E m \in Msgs : Deliver(c, m)) \/ PushedOperation(c)
  BY <1>2, OthersStay
<1>4. CheckHalt(c) \/ ClaimLost(c) \/ UnknownType(c) \/ SeeHalt(c) \/ Answer(c)
  <2>1. \A place : Goes(c, place) => place = "acking" BY <1>1 DEF Goes
  <2>. QED BY <1>3, <2>1 DEF CopyStep, Start, Acquire, CheckDone, ClaimWon, ClaimFails, Decide,
                Open, EngineEnds, MarkDone, Ack, Stop, Deliver, PushedOperation, Spawn, Goes
<1>5. job' = job /\ subject' = subject /\ pc[c] # "idle" /\ owner' = owner
  BY <1>4 DEF CheckHalt, ClaimLost, UnknownType, SeeHalt, Answer, Return, queue, Answering, platform
<1>6. job[c] \in Msgs BY <1>5 DEF TypeInv, TypeOK, CopyType
<1>7. CASE CheckHalt(c) \/ SeeHalt(c)
  <2>1. \A place : Goes(c, place) => place = "acking" BY <1>1 DEF Goes
  <2>2. job[c] \in dropped' BY <1>7, <2>1 DEF CheckHalt, SeeHalt
  <2>. QED BY <1>5, <1>6, <2>2 DEF Accounted
<1>8. CASE ClaimLost(c)
  <2>1. owner'[subject'[job[c]]] = "other" BY <1>5, <1>8 DEF ClaimLost, Op
  <2>. QED BY <1>5, <1>6, <2>1 DEF Accounted
<1>9. CASE UnknownType(c)
  <2>1. subject'[job[c]] \in Unknown BY <1>5, <1>9 DEF UnknownType, Op
  <2>. QED BY <1>5, <1>6, <2>1 DEF Accounted
<1>. QED BY <1>4, <1>5, <1>6, <1>7, <1>8, <1>9

\* What is published goes to the end of the buffer.
LEMMA PublishedLast ==
  ASSUME TypeInv, NEW x, outbox' = Append(outbox, x)
  PROVE  /\ Len(outbox) \in Nat /\ Len(outbox') = Len(outbox) + 1
         /\ DOMAIN outbox = 1 .. Len(outbox) /\ DOMAIN outbox' = 1 .. Len(outbox) + 1
         /\ \A i \in DOMAIN outbox : outbox'[i] = outbox[i]
         /\ outbox'[Len(outbox) + 1] = x
BY DEF TypeInv, TypeOK, NetworkType

\* Steps of which none loses, sends or crashes.
LEMMA AccountQuiet ==
  ASSUME TypeInv, AccountInv, [Next]_vars,
         ~Flush, ~Crash, ~LoseSent, ~\E c \in Copies : ClaimCutShort(c)
  PROVE  AccountInv'
<1>. DEFINE D == {m \in Msgs : \E o \in Ops : Dispatch(m, o)}
<1>1. /\ losses' = losses
      /\ outbox' = outbox \/ \E c \in Copies : Answer(c) \/ Ack(c)
      /\ \A m \in Msgs : state'[m] = "acked" => state[m] = "acked"
  BY AccountFrames
<1>2. outbox \in Seq(Published) /\ outbox' \in Seq(Published)
  BY NextType DEF TypeInv, TypeOK, NetworkType
<1>3. \A i \in DOMAIN outbox : i \in DOMAIN outbox' /\ outbox'[i] = outbox[i]
  <2>1. outbox' = outbox \/ \E x : outbox' = Append(outbox, x) BY <1>1 DEF Answer, Ack
  <2>2. ASSUME NEW x, outbox' = Append(outbox, x)
        PROVE  \A i \in DOMAIN outbox : i \in DOMAIN outbox' /\ outbox'[i] = outbox[i]
    BY <2>2, PublishedLast
  <2>. QED BY <2>1, <2>2
<1>4. \A m \in Msgs \ D : /\ subject'[m] = subject[m]
                          /\ subject[m] \in Ops /\ m \in Accounted => m \in Accounted'
  BY AccountKept
<1>5. \A m \in D : Unreferenced(m) /\ state'[m] # "acked"
  <2>1. ASSUME NEW m \in Msgs, NEW o \in Ops, Dispatch(m, o)
        PROVE  Unreferenced(m) /\ state'[m] # "acked"
    BY <2>1 DEF Dispatch, TypeInv, TypeOK, QueueType
  <2>. QED BY <2>1
<1>6. ASSUME NEW c \in Copies, Answer(c)
      PROVE  Op(c) \in ReportedAhead(Len(outbox) + 1)'
  <2>1. outbox' = Append(outbox, Report(Op(c), ReportAt(pc[c]))) BY <1>6 DEF Answer
  <2>2. Op(c) \in Ops
    <3>1. pc[c] # "idle" BY <1>6 DEF Answer, Answering
    <3>. QED BY <3>1 DEF TypeInv, JobsAreDispatched
  <2>3. /\ Len(outbox) + 1 \in DOMAIN outbox' /\ Len(outbox) + 1 < Len(outbox') + 1
        /\ outbox'[Len(outbox) + 1] = Report(Op(c), ReportAt(pc[c]))
    BY <2>1, PublishedLast
  <2>4. \E i \in DOMAIN outbox' : /\ i < Len(outbox') + 1 /\ outbox'[i].kind = "report"
                                  /\ outbox'[i].op = Op(c)
    BY <2>3 DEF Report
  <2>. QED BY <2>2, <2>4 DEF ReportedAhead
<1>7. ASSUME NEW c \in Copies, pc'[c] = "acking"
      PROVE  /\ job'[c] = job[c]
             /\ pc[c] = "acking" \/ job[c] \in Accounted' \/ Op(c)' \in ReportedAhead(Len(outbox) + 1)'
  <2>1. CASE pc[c] # "acking"
    <3>1. job'[c] = job[c] /\ Op(c)' = Op(c) /\ (job[c] \in Accounted' \/ Answer(c))
      BY <1>7, <2>1, OverAccounted DEF Op
    <3>. QED BY <1>6, <3>1
  <2>2. CASE pc[c] = "acking"
    <3>1. CASE \E d \in Copies :
                 CopyStep(d) \/ Stop(d) \/ (\E m \in Msgs : Deliver(d, m)) \/ PushedOperation(d)
      <4>1. PICK d \in Copies :
                 CopyStep(d) \/ Stop(d) \/ (\E m \in Msgs : Deliver(d, m)) \/ PushedOperation(d)
        BY <3>1
      <4>2. UNCHANGED job \/ Ack(d) \/ \E m : Spawn(d, m)
        BY <4>1 DEF CopyStep, Start, Acquire, CheckHalt, CheckDone, ClaimWon, ClaimLost,
                    ClaimCutShort, ClaimFails, Decide, Open, UnknownType, SeeHalt, EngineEnds,
                    MarkDone, Answer, Stop, Return, Deliver, PushedOperation
      <4>3. ASSUME Ack(d) PROVE job'[c] = job[c]
        <5>1. pc'[d] = "idle" BY <4>3 DEF Ack, Goes, TypeInv, TypeOK, CopyType
        <5>2. d # c BY <1>7, <5>1
        <5>. QED BY <4>3, <5>2 DEF Ack, TypeInv, TypeOK, CopyType
      <4>4. ASSUME NEW m, Spawn(d, m) PROVE job'[c] = job[c]
        <5>1. d # c BY <2>2, <4>4 DEF Spawn
        <5>. QED BY <4>4, <5>1 DEF Spawn, TypeInv, TypeOK, CopyType
      <4>. QED BY <2>2, <4>2, <4>3, <4>4
    <3>2. CASE ~\E d \in Copies :
                 CopyStep(d) \/ Stop(d) \/ (\E m \in Msgs : Deliver(d, m)) \/ PushedOperation(d)
      <4>1. UNCHANGED job
        BY <3>2, Steps, WorldMovesNone DEF vars, copies, CancelWorkflow, ResumeWorkflow
      <4>. QED BY <2>2, <4>1
    <3>. QED BY <3>1, <3>2
  <2>. QED BY <2>1, <2>2
<1>8. CASE losses = 0
  <2>1. ASSUME NEW i \in DOMAIN outbox', outbox'[i].kind = "ack", i \notin DOMAIN outbox
        PROVE  outbox'[i].msg \in Accounted' \/ subject'[outbox'[i].msg] \in ReportedAhead(i)'
    <3>1. PICK c \in Copies : Answer(c) \/ Ack(c) BY <1>1, <2>1
    <3>2. PICK x : outbox' = Append(outbox, x) BY <2>1, <3>1 DEF Answer, Ack
    <3>3. i = Len(outbox) + 1 /\ outbox'[i] = x BY <2>1, <3>2, PublishedLast
    <3>4. ~Answer(c)
      <4>1. ASSUME Answer(c) PROVE FALSE
        <5>1. outbox' = Append(outbox, Report(Op(c), ReportAt(pc[c]))) BY <4>1 DEF Answer
        <5>2. outbox'[i] = Report(Op(c), ReportAt(pc[c])) BY <3>3, <5>1, PublishedLast
        <5>. QED BY <2>1, <5>2 DEF Report
      <4>. QED BY <4>1
    <3>5. /\ Ack(c) /\ pc[c] = "acking" /\ outbox' = Append(outbox, AckOf(job[c]))
          /\ subject' = subject
      <4>1. Ack(c) BY <3>1, <3>4
      <4>2. outbox' # outbox BY <2>1
      <4>. QED BY <4>1, <4>2 DEF Ack
    <3>6. outbox'[i].msg = job[c]
      <4>1. outbox'[i] = AckOf(job[c]) BY <3>3, <3>5, PublishedLast
      <4>. QED BY <4>1 DEF AckOf
    <3>7. job[c] \in Msgs /\ Op(c) \in Ops
      BY <3>5 DEF TypeInv, TypeOK, CopyType, JobsAreDispatched
    <3>8. CASE job[c] \in Accounted
      <4>1. job[c] \notin D BY <3>5 DEF Unreferenced, Dispatch
      <4>. QED BY <1>4, <3>6, <3>7, <3>8, <4>1 DEF Op
    <3>9. CASE Op(c) \in ReportedAhead(Len(outbox) + 1)
      <4>1. Op(c) \in ReportedAhead(i)' BY <1>3, <3>3, <3>9 DEF ReportedAhead
      <4>. QED BY <3>5, <3>6, <4>1 DEF Op
    <3>. QED BY <1>8, <3>5, <3>8, <3>9 DEF AccountInv, AckingInv
  <2>2. D \in SUBSET Msgs OBVIOUS
  <2>3. \A c \in Copies : pc'[c] = "acking" =>
          /\ job'[c] = job[c]
          /\ pc[c] = "acking" \/ job[c] \in Accounted' \/ Op(c)' \in ReportedAhead(Len(outbox) + 1)'
    BY <1>7
  <2>4. \A i \in DOMAIN outbox' : outbox'[i].kind = "ack" =>
          \/ i \in DOMAIN outbox
          \/ outbox'[i].msg \in Accounted' \/ subject'[outbox'[i].msg] \in ReportedAhead(i)'
    BY <2>1
  <2>5. /\ losses' = losses /\ outbox' \in Seq(Published)
        /\ \A m \in Msgs : state'[m] = "acked" => state[m] = "acked"
    BY <1>1, <1>2
  <2>. HIDE DEF D
  <2>. QED BY <1>3, <1>4, <1>5, <2>2, <2>3, <2>4, <2>5, AccountStep
<1>9. CASE losses # 0
  <2>1. losses' # 0 BY <1>1, <1>9
  <2>. QED BY <2>1 DEF AccountInv
<1>. QED BY <1>8, <1>9

\* The server gets what was sent first: a report is heard, and an ack is behind the report
\* of its operation.
LEMMA AccountFlush == ASSUME TypeInv, AccountInv, Flush PROVE AccountInv'
<1>1. /\ outbox # <<>> /\ outbox' = Tail(outbox)
      /\ UNCHANGED <<halted, halts, owner, pushed, subject, orders, memory, semaphore, copies,
                     history, bounds>>
  BY DEF Flush
<1>2. UNCHANGED <<pc, job, subject, losses>> BY <1>1 DEF copies, bounds
<1>. SUFFICES ASSUME losses = 0 PROVE AckedInv' /\ AckingInv' /\ AcksInv'
  BY <1>2 DEF AccountInv
<1>3. AckedInv /\ AckingInv /\ AcksInv BY DEF AccountInv
<1>4. /\ outbox \in Seq(Published) /\ heard \in [Ops -> SUBSET Reports]
      /\ 1 \in DOMAIN outbox /\ Head(outbox) = outbox[1] /\ Head(outbox) \in Published
      /\ \A i \in DOMAIN outbox' : i + 1 \in DOMAIN outbox /\ outbox'[i] = outbox[i + 1]
  BY <1>1, TailElements DEF TypeInv, TypeOK, NetworkType, PlatformType
<1>5. /\ Len(outbox) \in Nat /\ Len(outbox') \in Nat /\ Len(outbox') = Len(outbox) - 1
      /\ DOMAIN outbox = 1 .. Len(outbox) /\ DOMAIN outbox' = 1 .. Len(outbox')
  BY <1>1, <1>4, HeadTailProperties, LenProperties
<1>6. \A m \in Msgs : subject[m] \in Ops /\ m \in Accounted => m \in Accounted'
  <2>1. \A o \in Ops : heard[o] # {} => heard'[o] # {}
    <3>1. heard' = heard \/ \E o, what : heard' = [heard EXCEPT ![o] = @ \cup {what}] BY DEF Flush
    <3>. QED BY <1>4, <3>1
  <2>2. UNCHANGED <<subject, owner, dropped>> BY <1>1 DEF history
  <2>. QED BY <2>1, <2>2 DEF Accounted
\* An operation reported ahead of a place is reported ahead of the next lower one, or heard of.
<1>7. ASSUME NEW k \in Nat, NEW m \in Msgs, subject[m] \in ReportedAhead(k + 1)
      PROVE  m \in Accounted' \/ subject[m] \in ReportedAhead(k)'
  <2>1. subject[m] \in Ops BY <1>7 DEF ReportedAhead
  <2>2. PICK i \in DOMAIN outbox :
          i < k + 1 /\ outbox[i].kind = "report" /\ outbox[i].op = subject[m]
    BY <1>7 DEF ReportedAhead
  <2>3. CASE i = 1
    <3>1. /\ Head(outbox).kind = "report" /\ Head(outbox).op = subject[m]
          /\ heard' = [heard EXCEPT ![subject[m]] = @ \cup {Head(outbox).what}]
      BY <1>4, <2>2, <2>3 DEF Flush
    <3>2. heard'[subject[m]] # {} BY <1>4, <2>1, <3>1
    <3>. QED BY <1>2, <3>2 DEF Accounted
  <2>4. CASE i # 1
    <3>1. i - 1 \in DOMAIN outbox' /\ i - 1 < k BY <1>5, <2>2, <2>4
    <3>2. outbox'[i - 1] = outbox[i] BY <1>4, <1>5, <3>1
    <3>. QED BY <2>1, <2>2, <3>1, <3>2 DEF ReportedAhead
  <2>. QED BY <2>3, <2>4
<1>8. AckedInv'
  <2>1. ASSUME NEW m \in Msgs, state'[m] = "acked" PROVE m \in Accounted'
    <3>1. CASE state[m] = "acked"
      <4>1. subject[m] \in Ops BY <3>1 DEF TypeInv, TypeOK, QueueType
      <4>. QED BY <1>3, <1>6, <3>1, <4>1 DEF AckedInv
    <3>2. CASE state[m] # "acked"
      <4>1. state' = [state EXCEPT ![Head(outbox).msg] = "acked"] /\ Head(outbox).kind = "ack"
        BY <2>1, <3>2 DEF Flush
      <4>2. m = Head(outbox).msg BY <2>1, <3>2, <4>1 DEF TypeInv, TypeOK, QueueType
      <4>3. outbox[1].kind = "ack" /\ m = outbox[1].msg BY <1>4, <4>1, <4>2
      <4>4. subject[m] \in Ops BY <1>4, <4>3 DEF TypeInv, AcksAreDispatched
      <4>5. subject[m] \notin ReportedAhead(1) BY <1>5 DEF ReportedAhead
      <4>. QED BY <1>3, <1>4, <1>6, <4>3, <4>4, <4>5 DEF AcksInv
    <3>. QED BY <3>1, <3>2
  <2>. QED BY <2>1 DEF AckedInv
<1>9. AckingInv'
  <2>1. ASSUME NEW c \in Copies, pc'[c] = "acking"
        PROVE  job[c] \in Accounted' \/ Op(c) \in ReportedAhead(Len(outbox) + 1)'
    <3>1. pc[c] = "acking" BY <1>2, <2>1
    <3>2. job[c] \in Msgs /\ subject[job[c]] \in Ops
      BY <3>1 DEF TypeInv, TypeOK, CopyType, JobsAreDispatched, Op
    <3>3. job[c] \in Accounted \/ subject[job[c]] \in ReportedAhead(Len(outbox) + 1)
      BY <1>3, <3>1 DEF AckingInv, Op
    <3>4. ASSUME subject[job[c]] \in ReportedAhead(Len(outbox) + 1)
          PROVE  job[c] \in Accounted' \/ subject[job[c]] \in ReportedAhead(Len(outbox) + 1)'
      <4>1. Len(outbox') + 1 \in Nat /\ (Len(outbox') + 1) + 1 = Len(outbox) + 1 BY <1>5
      <4>. QED BY <1>7, <3>2, <3>4, <4>1
    <3>. QED BY <1>6, <3>2, <3>3, <3>4 DEF Op
  <2>2. \A c \in Copies : Op(c)' = Op(c) /\ job'[c] = job[c] BY <1>2 DEF Op
  <2>. QED BY <2>1, <2>2 DEF AckingInv
<1>10. AcksInv'
  <2>1. ASSUME NEW i \in DOMAIN outbox', outbox'[i].kind = "ack"
        PROVE  outbox'[i].msg \in Accounted' \/ subject[outbox'[i].msg] \in ReportedAhead(i)'
    <3>1. i + 1 \in DOMAIN outbox /\ outbox'[i] = outbox[i + 1] /\ i \in Nat BY <1>4, <1>5
    <3>2. outbox[i + 1].msg \in Msgs /\ subject[outbox[i + 1].msg] \in Ops
      BY <1>4, <2>1, <3>1, DomainElement DEF TypeInv, Published, AcksAreDispatched
    <3>3. outbox[i + 1].msg \in Accounted \/ subject[outbox[i + 1].msg] \in ReportedAhead(i + 1)
      BY <1>3, <2>1, <3>1 DEF AcksInv
    <3>. QED BY <1>6, <1>7, <3>1, <3>2, <3>3
  <2>. QED BY <1>2, <2>1 DEF AcksInv
<1>. QED BY <1>8, <1>9, <1>10

\* The end of the process: no copy and nothing to send is left, and what the queue holds
\* stays where it was.
LEMMA AccountCrash == ASSUME TypeInv, AccountInv, Crash PROVE AccountInv'
<1>1. /\ outbox' = <<>> /\ pc' = [c \in Copies |-> "idle"]
      /\ state' = [m \in Msgs |-> IF state[m] = "pushed" THEN "free" ELSE state[m]]
      /\ UNCHANGED <<heard, owner, subject, dropped, losses>>
  BY DEF Crash, platform
<1>2. losses = 0 => AckedInv'
  <2>1. \A m \in Msgs : state'[m] = "acked" => state[m] = "acked" BY <1>1
  <2>2. \A m \in Msgs : m \in Accounted => m \in Accounted' BY <1>1 DEF Accounted
  <2>. QED BY <2>1, <2>2 DEF AccountInv, AckedInv
<1>3. AckingInv' BY <1>1 DEF AckingInv
<1>4. AcksInv' BY <1>1 DEF AcksInv
<1>. QED BY <1>1, <1>2, <1>3, <1>4 DEF AccountInv

LEMMA AccountNext == ASSUME TypeInv, AccountInv, [Next]_vars PROVE AccountInv'
<1>1. ASSUME LoseSent \/ \E c \in Copies : ClaimCutShort(c) PROVE AccountInv'
  <2>1. losses' = losses + 1 BY <1>1 DEF LoseSent, ClaimCutShort
  <2>2. losses' # 0 BY <2>1 DEF TypeInv, TypeOK, HistoryType
  <2>. QED BY <2>2 DEF AccountInv
<1>. QED BY <1>1, AccountFlush, AccountCrash, AccountQuiet

\* An operation whose message the queue let go is not gone without a trace, wherever the
\* process dies: the report is sent ahead of the ack (run_operation and its returns, lib.rs).
THEOREM NothingIsLost == Spec => []AckedIsAccountedFor
<1>1. Init => AccountInv BY DEF Init, AccountInv, AckedInv, AckingInv, AcksInv
<1>2. Spec => [](TypeInv /\ AccountInv)
  BY <1>1, InitType, NextType, AccountNext, PTL DEF Spec
<1>3. AccountInv => AckedIsAccountedFor
  BY DEF AccountInv, AckedInv, Accounted, AckedIsAccountedFor
<1>. QED BY <1>2, <1>3, PTL

-----------------------------------------------------------------------------
(* What a halt may drop where the commands and the operations share a channel *)

\* Of the present run of the workflow: dispatched since the platform last halted it.
Current(m) == era[m] = halts
Control(order) == order.kind # "operation"

EraBound == \A m \in Msgs : era[m] <= halts /\ (halted => era[m] < halts)

\* What a running workflow's node has been or will be told to cancel, it will be told to
\* resume after that.
ResumeFollows ==
  ~halted => /\ cancelled => \E i \in DOMAIN orders : orders[i].kind = "resume_workflow"
             /\ \A i \in DOMAIN orders : orders[i].kind = "cancel_workflow" =>
                  \E j \in DOMAIN orders : j > i /\ orders[j].kind = "resume_workflow"

\* Where operations come as commands: what is current was sent after every command that
\* halts or resumes, so it arrives, and runs, when none of them is left and none is in force.
PushedInv ==
  /\ \A m \in Msgs : state[m] \notin {"ready", "out"}
  /\ \A m \in dropped : era[m] < halts
  /\ \A c \in Copies : pc[c] # "idle" /\ Current(job[c]) =>
       ~cancelled /\ \A i \in DOMAIN orders : ~Control(orders[i])
  /\ \A i \in DOMAIN orders : ~Control(orders[i]) /\ Current(orders[i].msg) =>
       \A j \in DOMAIN orders : j > i => ~Control(orders[j])
EraInv == EraBound /\ ResumeFollows /\ (pushed => PushedInv)

\* A step that sends and takes no command, and drops nothing current.
LEMMA EraStep ==
  ASSUME TypeInv, EraInv, UNCHANGED <<halted, halts, pushed, orders, cancelled, era>>,
         pushed => /\ \A m \in Msgs : state'[m] \in {"ready", "out"} => state[m] \in {"ready", "out"}
                   /\ \A m \in dropped' : m \in dropped \/ era[m] < halts
                   /\ \A c \in Copies : pc'[c] # "idle" => pc[c] # "idle" /\ job'[c] = job[c]
  PROVE  EraInv'
<1>1. EraBound' BY DEF EraInv, EraBound
<1>2. ResumeFollows' BY DEF EraInv, ResumeFollows
<1>3. ASSUME pushed PROVE PushedInv'
  <2>1. PushedInv BY <1>3 DEF EraInv
  <2>2. \A c \in Copies : pc'[c] # "idle" /\ era[job'[c]] = halts =>
          ~cancelled /\ \A i \in DOMAIN orders : ~Control(orders[i])
    BY <1>3, <2>1 DEF PushedInv, Current
  <2>. QED BY <1>3, <2>1, <2>2 DEF PushedInv, Current, Control
<1>. QED BY <1>1, <1>2, <1>3 DEF EraInv

\* The orders after one is sent, and after the first is taken.
LEMMA OrderSent ==
  ASSUME TypeInv, NEW x, orders' = Append(orders, x)
  PROVE  /\ Len(orders) \in Nat /\ DOMAIN orders = 1 .. Len(orders)
         /\ DOMAIN orders' = 1 .. Len(orders) + 1
         /\ \A i \in DOMAIN orders : orders'[i] = orders[i]
         /\ orders'[Len(orders) + 1] = x
BY DEF TypeInv, TypeOK, NetworkType

LEMMA OrderTaken ==
  ASSUME TypeInv, NEW kind, TakeOrder(kind)
  PROVE  /\ 1 \in DOMAIN orders /\ orders[1] = Head(orders) /\ orders[1].kind = kind
         /\ \A i \in DOMAIN orders' : i + 1 \in DOMAIN orders /\ orders'[i] = orders[i + 1]
         /\ \A i \in DOMAIN orders : i > 1 => i - 1 \in DOMAIN orders' /\ orders'[i - 1] = orders[i]
         /\ DOMAIN orders \subseteq Nat \ {0} /\ DOMAIN orders' \subseteq Nat \ {0}
<1>1. orders # <<>> /\ orders' = Tail(orders) /\ Head(orders).kind = kind BY DEF TakeOrder
<1>2. /\ 1 \in DOMAIN orders /\ Head(orders) = orders[1]
      /\ \A i \in DOMAIN orders' : i + 1 \in DOMAIN orders /\ orders'[i] = orders[i + 1]
  BY <1>1, TailElements DEF TypeInv, TypeOK, NetworkType
<1>3. /\ Len(orders) \in Nat /\ Len(orders') \in Nat /\ Len(orders') = Len(orders) - 1
      /\ DOMAIN orders = 1 .. Len(orders) /\ DOMAIN orders' = 1 .. Len(orders')
  BY <1>1, HeadTailProperties, LenProperties DEF TypeInv, TypeOK, NetworkType
<1>. QED BY <1>1, <1>2, <1>3

LEMMA EraDispatch ==
  ASSUME TypeInv, EraInv, NEW m \in Msgs, NEW o \in Ops, Dispatch(m, o) PROVE EraInv'
<1>1. /\ ~halted /\ Unreferenced(m) /\ era' = [era EXCEPT ![m] = halts]
      /\ dropped' = dropped \ {m}
      /\ UNCHANGED <<halted, halts, pushed, cancelled, pc, job>>
  BY DEF Dispatch, platform, memory, copies
<1>2. /\ era \in [Msgs -> Nat] /\ halts \in Nat
      /\ state \in [Msgs -> {"free", "pushed", "ready", "out", "acked"}]
      /\ job \in [Copies -> Msgs \cup {NoMsg}] /\ dropped \subseteq Msgs
  BY DEF TypeInv, TypeOK, PlatformType, QueueType, HistoryType, CopyType
<1>3. EraBound' BY <1>1, <1>2 DEF EraInv, EraBound
<1>4. /\ \A n \in Msgs \ {m} : era'[n] = era[n]
      /\ \A c \in Copies : pc[c] # "idle" => job[c] \in Msgs \ {m}
  BY <1>1, <1>2 DEF Unreferenced, TypeInv, TypeOK, CopyType
<1>5. CASE pushed
  <2>1. orders' = Append(orders, Delivery(m)) /\ state' = [state EXCEPT ![m] = "pushed"]
    BY <1>5 DEF Dispatch
  <2>2. /\ Len(orders) \in Nat /\ DOMAIN orders = 1 .. Len(orders)
        /\ DOMAIN orders' = 1 .. Len(orders) + 1
        /\ \A i \in DOMAIN orders : orders'[i] = orders[i]
        /\ orders'[Len(orders) + 1] = Delivery(m)
    BY <2>1, OrderSent
  <2>3. ~Control(Delivery(m)) BY DEF Control, Delivery
  <2>4. ResumeFollows'
    <3>1. orders'[Len(orders) + 1].kind # "cancel_workflow" BY <2>2 DEF Delivery
    <3>2. \A i \in DOMAIN orders' : i \in DOMAIN orders \/ i = Len(orders) + 1 BY <2>2
    <3>3. \A i \in DOMAIN orders : i \in DOMAIN orders' BY <2>2
    <3>. QED BY <1>1, <2>2, <3>1, <3>2, <3>3 DEF EraInv, ResumeFollows
  <2>5. PushedInv BY <1>5 DEF EraInv
  <2>6. \A n \in Msgs : state'[n] \notin {"ready", "out"} BY <1>2, <2>1, <2>5 DEF PushedInv
  <2>7. \A n \in dropped' : era'[n] < halts' BY <1>1, <1>2, <1>4, <2>5 DEF PushedInv
  <2>8. \A c \in Copies : pc'[c] # "idle" /\ era'[job'[c]] = halts' =>
          ~cancelled' /\ \A i \in DOMAIN orders' : ~Control(orders'[i])
    BY <1>1, <1>4, <2>2, <2>3, <2>5 DEF PushedInv, Current
  <2>9. ASSUME NEW i \in DOMAIN orders', ~Control(orders'[i]), era'[orders'[i].msg] = halts',
               NEW j \in DOMAIN orders', j > i
        PROVE  ~Control(orders'[j])
    <3>1. i \in DOMAIN orders /\ orders'[i] = orders[i] BY <2>2, <2>9
    <3>2. CASE j = Len(orders) + 1 BY <2>2, <2>3, <3>2
    <3>3. CASE j \in DOMAIN orders
      <4>1. orders[i].kind = "operation" /\ orders[i] \in Orders
        BY <2>9, <3>1, DomainElement DEF Control, TypeInv, TypeOK, NetworkType
      <4>2. orders[i].msg \in Msgs /\ orders[i] = Delivery(orders[i].msg)
        BY <4>1 DEF Orders, Delivery
      <4>3. orders[i].msg # m BY <1>1, <3>1, <4>2 DEF Unreferenced, Contains
      <4>4. Current(orders[i].msg) BY <1>1, <1>4, <2>9, <3>1, <4>2, <4>3 DEF Current
      <4>. QED BY <2>2, <2>5, <2>9, <3>1, <3>3, <4>4 DEF PushedInv
    <3>. QED BY <2>2, <3>2, <3>3
  <2>10. PushedInv' BY <2>6, <2>7, <2>8, <2>9 DEF PushedInv, Current, Control
  <2>. QED BY <1>3, <2>4, <2>10 DEF EraInv
<1>6. CASE ~pushed
  <2>1. orders' = orders BY <1>6 DEF Dispatch
  <2>2. ResumeFollows' BY <1>1, <2>1 DEF EraInv, ResumeFollows
  <2>. QED BY <1>1, <1>3, <1>6, <2>2 DEF EraInv
<1>. QED BY <1>5, <1>6

\* The platform halts the workflow, and nothing dispatched so far is current any more; or
\* resumes it, when nothing is.
LEMMA EraHalt ==
  ASSUME TypeInv, EraInv, Halt \/ Resume PROVE EraInv'
<1>1. /\ UNCHANGED <<pushed, state, cancelled, pc, job, dropped, era>>
      /\ halts \in Nat /\ halts' \in Nat /\ era \in [Msgs -> Nat]
  BY DEF Halt, Resume, queue, memory, copies, history, TypeInv, TypeOK, PlatformType, HistoryType
<1>2. \A m \in Msgs : era[m] < halts'
  <2>1. EraBound BY DEF EraInv
  <2>2. CASE Halt
    <3>1. halts' = halts + 1 BY <2>2 DEF Halt
    <3>. QED BY <1>1, <2>1, <3>1 DEF EraBound
  <2>3. CASE Resume
    <3>1. halted /\ halts' = halts BY <2>3 DEF Resume
    <3>. QED BY <2>1, <3>1 DEF EraBound
  <2>. QED BY <2>2, <2>3
<1>3. EraBound'
  <2>1. \A m \in Msgs : era'[m] <= halts' /\ era'[m] < halts' BY <1>1, <1>2
  <2>. QED BY <2>1 DEF EraBound
<1>4. ResumeFollows'
  <2>1. CASE Halt BY <2>1 DEF Halt, ResumeFollows
  <2>2. CASE Resume
    <3>1. orders' = Append(orders, Command("resume_workflow")) BY <2>2 DEF Resume
    <3>2. /\ Len(orders) \in Nat /\ DOMAIN orders' = 1 .. Len(orders) + 1
          /\ orders'[Len(orders) + 1].kind = "resume_workflow"
      BY <3>1, OrderSent DEF Command
    <3>3. \A i \in DOMAIN orders' : orders'[i].kind = "cancel_workflow" => Len(orders) + 1 > i
      BY <3>2
    <3>4. Len(orders) + 1 \in DOMAIN orders' BY <3>2
    <3>. QED BY <3>2, <3>3, <3>4 DEF ResumeFollows
  <2>. QED BY <2>1, <2>2
<1>5. ASSUME pushed PROVE PushedInv'
  <2>1. PushedInv /\ dropped \subseteq Msgs BY <1>5 DEF EraInv, TypeInv, TypeOK, HistoryType
  <2>2. \A c \in Copies : pc[c] # "idle" => job[c] \in Msgs
    BY DEF TypeInv, TypeOK, CopyType
  <2>3. \A m \in Msgs : ~(era'[m] = halts')  BY <1>1, <1>2
  <2>4. \A i \in DOMAIN orders' : ~Control(orders'[i]) => orders'[i].msg \in Msgs
    <3>1. orders' \in Seq(Orders) BY NextType DEF Next, TypeInv, TypeOK, NetworkType
    <3>. QED BY <3>1, DomainElement DEF Control, Orders
  <2>. QED BY <1>1, <1>2, <2>1, <2>2, <2>3, <2>4 DEF PushedInv, Current
<1>. QED BY <1>1, <1>3, <1>4, <1>5 DEF EraInv

\* The node takes a command.
LEMMA EraOrder ==
  ASSUME TypeInv, EraInv,
         CancelWorkflow \/ ResumeWorkflow \/ \E c \in Copies : PushedOperation(c)
  PROVE  EraInv'
<1>1. UNCHANGED <<halted, halts, pushed, state, dropped, era>>
  BY DEF CancelWorkflow, ResumeWorkflow, PushedOperation, platform, queue, history
<1>2. PICK kind \in {"cancel_workflow", "resume_workflow", "operation"} :
         /\ TakeOrder(kind)
         /\ cancelled' = IF kind = "cancel_workflow" THEN TRUE
                         ELSE IF kind = "resume_workflow" THEN FALSE ELSE cancelled
         /\ kind # "operation" => UNCHANGED <<pc, job>>
         /\ kind = "operation" => \E c \in Copies : Spawn(c, Head(orders).msg)
  BY DEF CancelWorkflow, ResumeWorkflow, PushedOperation, memory, copies
<1>3. /\ 1 \in DOMAIN orders /\ orders[1] = Head(orders) /\ orders[1].kind = kind
      /\ \A i \in DOMAIN orders' : i + 1 \in DOMAIN orders /\ orders'[i] = orders[i + 1]
      /\ \A i \in DOMAIN orders : i > 1 => i - 1 \in DOMAIN orders' /\ orders'[i - 1] = orders[i]
      /\ DOMAIN orders \subseteq Nat \ {0} /\ DOMAIN orders' \subseteq Nat \ {0}
  BY <1>2, OrderTaken
<1>4. EraBound' BY <1>1 DEF EraInv, EraBound
<1>5. ResumeFollows'
  <2>. SUFFICES ASSUME ~halted PROVE
          /\ cancelled' => \E i \in DOMAIN orders' : orders'[i].kind = "resume_workflow"
          /\ \A i \in DOMAIN orders' : orders'[i].kind = "cancel_workflow" =>
               \E j \in DOMAIN orders' : j > i /\ orders'[j].kind = "resume_workflow"
    BY <1>1 DEF ResumeFollows
  <2>1. ResumeFollows BY DEF EraInv
  <2>2. ASSUME cancelled' PROVE \E i \in DOMAIN orders' : orders'[i].kind = "resume_workflow"
    <3>1. PICK i \in DOMAIN orders : i > 1 /\ orders[i].kind = "resume_workflow"
      <4>1. CASE kind = "cancel_workflow" BY <1>3, <2>1, <4>1 DEF ResumeFollows
      <4>2. CASE kind = "operation"
        <5>1. PICK i \in DOMAIN orders : orders[i].kind = "resume_workflow"
          BY <1>2, <2>1, <2>2, <4>2 DEF ResumeFollows
        <5>2. i > 1 BY <1>3, <4>2, <5>1
        <5>. QED BY <5>1, <5>2
      <4>. QED BY <1>2, <2>2, <4>1, <4>2
    <3>. QED BY <1>3, <3>1
  <2>3. ASSUME NEW i \in DOMAIN orders', orders'[i].kind = "cancel_workflow"
        PROVE  \E j \in DOMAIN orders' : j > i /\ orders'[j].kind = "resume_workflow"
    <3>1. i + 1 \in DOMAIN orders /\ orders[i + 1].kind = "cancel_workflow" /\ i \in Nat
      BY <1>3, <2>3
    <3>2. PICK j \in DOMAIN orders : j > i + 1 /\ orders[j].kind = "resume_workflow"
      BY <2>1, <3>1 DEF ResumeFollows
    <3>3. j - 1 > i /\ j > 1 BY <1>3, <3>1, <3>2
    <3>. QED BY <1>3, <3>2, <3>3
  <2>. QED BY <2>2, <2>3
<1>6. ASSUME pushed PROVE PushedInv'
  <2>1. PushedInv BY <1>6 DEF EraInv
  <2>2. ASSUME NEW i \in DOMAIN orders', ~Control(orders'[i]), era[orders'[i].msg] = halts,
               NEW j \in DOMAIN orders', j > i
        PROVE  ~Control(orders'[j])
    <3>1. /\ i + 1 \in DOMAIN orders /\ j + 1 \in DOMAIN orders /\ j + 1 > i + 1
          /\ orders'[i] = orders[i + 1] /\ orders'[j] = orders[j + 1]
      BY <1>3, <2>2
    <3>. QED BY <2>1, <2>2, <3>1 DEF PushedInv, Current
  <2>3. ASSUME NEW c \in Copies, pc'[c] # "idle", era[job'[c]] = halts
        PROVE  ~cancelled' /\ \A i \in DOMAIN orders' : ~Control(orders'[i])
    <3>1. CASE pc[c] # "idle" /\ job'[c] = job[c]
      <4>1. ~cancelled /\ \A i \in DOMAIN orders : ~Control(orders[i])
        BY <2>1, <2>3, <3>1 DEF PushedInv, Current
      <4>2. kind = "operation" BY <1>3, <4>1 DEF Control
      <4>. QED BY <1>2, <1>3, <4>1, <4>2
    <3>2. CASE ~(pc[c] # "idle" /\ job'[c] = job[c])
      <4>1. kind = "operation" BY <1>2, <2>3, <3>2
      <4>2. PICK d \in Copies : Spawn(d, Head(orders).msg) BY <1>2, <4>1
      <4>3. d = c BY <2>3, <3>2, <4>2 DEF Spawn, TypeInv, TypeOK, CopyType
      <4>4. job'[c] = orders[1].msg
        BY <1>3, <4>2, <4>3 DEF Spawn, TypeInv, TypeOK, CopyType
      <4>5. ~Control(orders[1]) /\ Current(orders[1].msg)
        BY <1>3, <2>3, <4>1, <4>4 DEF Control, Current
      <4>6. \A j \in DOMAIN orders : j = 1 \/ j > 1 BY <1>3
      <4>7. \A j \in DOMAIN orders : ~Control(orders[j])
        BY <1>3, <2>1, <4>5, <4>6 DEF PushedInv
      <4>8. ~halted
        <5>1. orders[1] \in Orders BY <1>3, DomainElement DEF TypeInv, TypeOK, NetworkType
        <5>2. orders[1].msg \in Msgs BY <1>3, <4>1, <5>1 DEF Orders
        <5>. QED BY <4>5, <5>2 DEF EraInv, EraBound, Current, TypeInv, TypeOK, HistoryType, PlatformType
      <4>9. ~cancelled BY <4>7, <4>8 DEF EraInv, ResumeFollows, Control
      <4>. QED BY <1>2, <1>3, <4>1, <4>7, <4>9
    <3>. QED BY <3>1, <3>2
  <2>. QED BY <1>1, <2>1, <2>2, <2>3 DEF PushedInv, Current
<1>. QED BY <1>1, <1>4, <1>5, <1>6 DEF EraInv

\* The process ends, and with it every copy and every command on its way.
LEMMA EraCrash == ASSUME TypeInv, EraInv, Crash PROVE EraInv'
<1>1. /\ UNCHANGED <<halted, halts, pushed, dropped, era>> /\ orders' = <<>>
      /\ cancelled' = FALSE /\ pc' = [c \in Copies |-> "idle"]
      /\ state' = [m \in Msgs |-> IF state[m] = "pushed" THEN "free" ELSE state[m]]
  BY DEF Crash, platform
<1>2. EraBound' BY <1>1 DEF EraInv, EraBound
<1>3. ResumeFollows' BY <1>1 DEF ResumeFollows
<1>4. pushed => PushedInv' BY <1>1 DEF EraInv, PushedInv
<1>. QED BY <1>1, <1>2, <1>3, <1>4 DEF EraInv

LEMMA EraNext == ASSUME TypeInv, EraInv, [Next]_vars PROVE EraInv'
<1>1. CASE UNCHANGED vars
  <2>1. UNCHANGED <<halted, halts, pushed, orders, cancelled, era, state, dropped, pc, job>>
    BY <1>1 DEF vars, platform, queue, network, memory, copies, history
  <2>. QED BY <2>1, EraStep
<1>2. CASE (\E o \in Ops : OtherClaims(o)) \/ (\E m \in Msgs : AckWait(m)) \/ Flush \/ LoseSent
  <2>1. UNCHANGED <<halted, halts, pushed, orders, cancelled, era, dropped, pc, job>>
    BY <1>2 DEF OtherClaims, AckWait, Flush, LoseSent, platform, queue, network, memory, copies,
                history
  <2>2. ASSUME pushed
        PROVE  \A m \in Msgs : state'[m] \in {"ready", "out"} => state[m] \in {"ready", "out"}
    <3>1. state \in [Msgs -> {"free", "pushed", "ready", "out", "acked"}]
      BY DEF TypeInv, TypeOK, QueueType
    <3>2. state' = state \/ (\E m : state' = [state EXCEPT ![m] = "acked"])
            \/ \E m \in Msgs : AckWait(m)
      BY <1>2 DEF OtherClaims, Flush, LoseSent, queue
    <3>3. ~\E m \in Msgs : AckWait(m) BY <2>2 DEF AckWait, EraInv, PushedInv
    <3>. QED BY <3>1, <3>2, <3>3
  <2>. QED BY <2>1, <2>2, EraStep
<1>3. ASSUME NEW c \in Copies, CopyStep(c) \/ Stop(c) \/ \E m \in Msgs : Deliver(c, m)
      PROVE  EraInv'
  <2>1. UNCHANGED <<halted, halts, pushed, orders, cancelled, era>>
    BY <1>3 DEF CopyStep, Start, Acquire, CheckHalt, CheckDone, ClaimWon, ClaimLost,
           ClaimCutShort, ClaimFails, Decide, Open, UnknownType, SeeHalt, EngineEnds, MarkDone,
           Answer, Ack, Stop, Deliver, platform, queue, network, memory, history
  <2>2. ASSUME pushed PROVE CopyStep(c) \/ Stop(c)
    BY <1>3, <2>2 DEF Deliver, EraInv, PushedInv
  <2>3. ASSUME pushed
        PROVE  \A m \in Msgs : state'[m] \in {"ready", "out"} => state[m] \in {"ready", "out"}
    <3>1. state \in [Msgs -> {"free", "pushed", "ready", "out", "acked"}]
      BY DEF TypeInv, TypeOK, QueueType
    <3>2. state' = state \/ (\E m : state' = [state EXCEPT ![m] = "free"])
      BY <2>2, <2>3 DEF CopyStep, Start, Acquire, CheckHalt, CheckDone, ClaimWon, ClaimLost,
           ClaimCutShort, ClaimFails, Decide, Open, UnknownType, SeeHalt, EngineEnds, MarkDone,
           Answer, Ack, Stop, queue
    <3>. QED BY <3>1, <3>2
  <2>4. ASSUME pushed PROVE \A m \in dropped' : m \in dropped \/ era[m] < halts
    <3>1. CASE CheckHalt(c) \/ SeeHalt(c)
      <4>1. dropped' = dropped \/ (cancelled /\ pc[c] # "idle" /\ dropped' = dropped \cup {job[c]})
        BY <3>1 DEF CheckHalt, SeeHalt
      <4>2. ASSUME cancelled, pc[c] # "idle" PROVE era[job[c]] < halts
        <5>1. job[c] \in Msgs BY <4>2 DEF TypeInv, TypeOK, CopyType
        <5>2. era[job[c]] # halts BY <2>4, <4>2 DEF EraInv, PushedInv, Current
        <5>3. era[job[c]] \in Nat /\ halts \in Nat
          BY <5>1 DEF TypeInv, TypeOK, HistoryType, PlatformType
        <5>. QED BY <5>1, <5>2, <5>3 DEF EraInv, EraBound
      <4>. QED BY <4>1, <4>2
    <3>2. CASE ~(CheckHalt(c) \/ SeeHalt(c))
      <4>1. UNCHANGED dropped
        BY <1>3, <3>2 DEF CopyStep, Start, Acquire, CheckDone, ClaimWon, ClaimLost,
           ClaimCutShort, ClaimFails, Decide, Open, UnknownType, EngineEnds, MarkDone,
           Answer, Ack, Stop, Deliver, history
      <4>. QED BY <4>1
    <3>. QED BY <3>1, <3>2
  <2>5. ASSUME pushed, NEW d \in Copies, pc'[d] # "idle" PROVE pc[d] # "idle" /\ job'[d] = job[d]
    <3>1. job \in [Copies -> Msgs \cup {NoMsg}] /\ pc \in [Copies -> Places]
      BY DEF TypeInv, TypeOK, CopyType
    <3>2. pc[c] # "idle"
      BY <2>2, <2>5 DEF CopyStep, Start, Acquire, CheckHalt, CheckDone, ClaimWon, ClaimLost,
           ClaimCutShort, ClaimFails, Decide, Open, UnknownType, SeeHalt, EngineEnds, MarkDone,
           Answer, Ack, Stop, Working, Answering
    <3>3. pc[d] # "idle" BY <1>3, <2>5, <3>2, OthersStay
    <3>4. CASE Ack(c)
      <4>1. d # c BY <2>5, <3>1, <3>4 DEF Ack, Goes
      <4>. QED BY <3>1, <3>3, <3>4, <4>1 DEF Ack
    <3>5. CASE ~Ack(c)
      <4>1. job' = job
        BY <2>2, <2>5, <3>5 DEF CopyStep, Start, Acquire, CheckHalt, CheckDone, ClaimWon,
           ClaimLost, ClaimCutShort, ClaimFails, Decide, Open, UnknownType, SeeHalt, EngineEnds,
           MarkDone, Answer, Stop, Return
      <4>. QED BY <3>3, <4>1
    <3>. QED BY <3>4, <3>5
  <2>. QED BY <2>1, <2>3, <2>4, <2>5, EraStep
<1>. QED BY <1>1, <1>2, <1>3, EraDispatch, EraHalt, EraOrder, EraCrash, Steps

\* Where commands and operations share a channel, the node drops nothing as halted that was
\* dispatched since the platform last resumed the workflow: it can be dispatched again, and
\* runs then (the arms of cancel_workflow and resume_workflow, and DONE_OPS, lib.rs).
THEOREM PushedRunsOnResume == Spec => []PushedIsFreeToRun
<1>1. Init => EraInv
  <2>. SUFFICES ASSUME Init PROVE EraInv OBVIOUS
  <2>1. EraBound BY DEF Init, EraBound
  <2>2. ResumeFollows BY DEF Init, ResumeFollows
  <2>3. PushedInv BY DEF Init, PushedInv
  <2>. QED BY <2>1, <2>2, <2>3 DEF EraInv
<1>2. Spec => [](TypeInv /\ EraInv)
  BY <1>1, InitType, NextType, EraNext, PTL DEF Spec
<1>3. EraInv => PushedIsFreeToRun
  BY DEF EraInv, PushedInv, PushedIsFreeToRun, FreeToRunOnResume
<1>. QED BY <1>2, <1>3, PTL

=============================================================================
