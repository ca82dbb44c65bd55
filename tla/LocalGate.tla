------------------------------ MODULE LocalGate ------------------------------
(* The interception gate of a local workbench: capture/src/gate.rs. A flow of    *)
(* the capturing proxy (capture/src/flow.rs) awaits the gate's decision on its   *)
(* request; threads of the host resolve requests, switch the gate on and off     *)
(* and shut it down; and tasks of the host wait for a request to arrive.         *)
(*                                                                               *)
(* A section under the mutex is one step, and so is each send on a oneshot       *)
(* channel, which happens after the mutex is released. A request stands for its  *)
(* hold: the ids of the gate are unique. An edited request counts as forwarded.  *)
EXTENDS Naturals, Sequences, SequencesExt

CONSTANTS
  Requests,         \* requests the proxy carries, each decided once
  Operators,        \* threads of the host that act on the gate
  Watchers,         \* tasks of the host that await arrival()
  Timeout,          \* whether the gate was built with a deadline
  OnTimeout         \* what it does with a request then

Forward == "forward"
Drop == "drop"

ASSUME GateAssumption ==
  Timeout \in BOOLEAN /\ OnTimeout \in {Forward, Drop}

VARIABLES
  \* State, under the mutex: the queue, oldest first, and the two switches
  waiting, closed, enabled,
  flow,             \* where the decide call of a request is
  answer,           \* what was sent on its channel, and on whose behalf
  verdict,          \* what decide returned, and on whose behalf
  call,             \* where an operator's call is: idle, about to drain, sending
  batch,            \* the channels the call took out of the queue, still to be sent on
  order,            \* what it sends on them
  watch,            \* where a watcher is
  off               \* history: requests being decided while the gate was off, or being switched off

queue == <<waiting, closed, enabled>>
calls == <<call, batch, order>>
flows == <<flow, answer, verdict>>
vars == <<queue, flows, calls, watch, off>>

Decision(what, by) == [what |-> what, by |-> by]
Nothing == Decision("nothing", "nobody")
\* On whose behalf: the operator's click, the switch, the shutdown, the deadline.
Reasons == {"operator", "switch", "shutdown", "deadline"}
Decisions == [what : {Forward, Drop}, by : Reasons]

FlowPlaces == {"new", "parked", "held", "elapsed", "done", "gone"}
InDecide == {"parked", "held", "elapsed"}

Init ==
  /\ waiting = <<>> /\ closed = FALSE /\ enabled = TRUE
  /\ flow = [r \in Requests |-> "new"]
  /\ answer = [r \in Requests |-> Nothing] /\ verdict = [r \in Requests |-> Nothing]
  /\ call = [o \in Operators |-> "idle"] /\ batch = [o \in Operators |-> <<>>]
  /\ order = [o \in Operators |-> Nothing]
  /\ watch = [w \in Watchers |-> "idle"]
  /\ off = {}

-------------------------------------------------------------------------------
(* decide *)

\* set_enabled has set the switch to off and is about to drain the queue. Another thread
\* can set it to on again meanwhile, and what arrives then is in the queue it drains.
SwitchingOff == \E o \in Operators : call[o] = "draining" /\ order[o].by = "switch"

Decided(r, d) ==
  /\ flow' = [flow EXCEPT ![r] = "done"]
  /\ verdict' = [verdict EXCEPT ![r] = d]

\* Dropped by a gate that is closed, forwarded by one that is off, parked otherwise.
Arrive(r) ==
  /\ flow[r] = "new"
  /\ IF closed \/ ~enabled
       THEN /\ Decided(r, IF closed THEN Decision(Drop, "shutdown")
                                    ELSE Decision(Forward, "switch"))
            /\ UNCHANGED waiting
       ELSE /\ waiting' = Append(waiting, r)
            /\ flow' = [flow EXCEPT ![r] = "parked"]
            /\ UNCHANGED verdict
  /\ off' = IF enabled /\ ~SwitchingOff THEN off ELSE off \cup {r}
  /\ UNCHANGED <<closed, enabled, answer, calls, watch>>

\* notify_waiters: it wakes the watchers that are registered and stores nothing.
Notify(r) ==
  /\ flow[r] = "parked"
  /\ flow' = [flow EXCEPT ![r] = "held"]
  /\ watch' = [w \in Watchers |-> IF watch[w] = "registered" THEN "idle" ELSE watch[w]]
  /\ UNCHANGED <<queue, answer, verdict, calls, off>>

Receive(r) ==
  /\ flow[r] = "held" /\ answer[r] # Nothing
  /\ Decided(r, answer[r])
  /\ UNCHANGED <<queue, answer, calls, watch, off>>

\* tokio's timeout looks at the channel first, finds nothing, and then at the deadline.
Elapse(r) ==
  /\ Timeout
  /\ flow[r] = "held" /\ answer[r] = Nothing
  /\ flow' = [flow EXCEPT ![r] = "elapsed"]
  /\ UNCHANGED <<queue, answer, verdict, calls, watch, off>>

\* forget, and the action the host chose, whatever was sent meanwhile.
Forget(r) ==
  /\ flow[r] = "elapsed"
  /\ IF Contains(waiting, r)
       THEN \E i \in DOMAIN waiting : waiting[i] = r /\ waiting' = RemoveAt(waiting, i)
       ELSE UNCHANGED waiting
  /\ Decided(r, Decision(OnTimeout, "deadline"))
  /\ UNCHANGED <<closed, enabled, answer, calls, watch, off>>

\* The client hangs up: the server drops the future that awaits the decision.
HangUp(r) ==
  /\ flow[r] = "held"
  /\ flow' = [flow EXCEPT ![r] = "gone"]
  /\ UNCHANGED <<queue, answer, verdict, calls, watch, off>>

-------------------------------------------------------------------------------
(* What the host calls *)

Calls(o, place, taken, d) ==
  /\ call' = [call EXCEPT ![o] = place]
  /\ batch' = [batch EXCEPT ![o] = taken]
  /\ order' = [order EXCEPT ![o] = d]

\* Mutant: resolving a request takes the oldest one out of the queue.
Resolve_TakesOldest(o, i, what) ==
  /\ call[o] = "idle" /\ i \in DOMAIN waiting
  /\ waiting' = Tail(waiting)
  /\ Calls(o, "sending", <<waiting[i]>>, Decision(what, "operator"))
  /\ UNCHANGED <<closed, enabled, flows, watch, off>>

\* resolve, when the id is that of the i-th request in the queue; when it is not in the
\* queue, resolve returns false.
Resolve(o, i, what) ==
  /\ call[o] = "idle" /\ i \in DOMAIN waiting
  /\ waiting' = RemoveAt(waiting, i)
  /\ Calls(o, "sending", <<waiting[i]>>, Decision(what, "operator"))
  /\ UNCHANGED <<closed, enabled, flows, watch, off>>

\* resolve_all called for a button.
ResolveAll(o, what) ==
  /\ call[o] = "idle"
  /\ Calls(o, "draining", <<>>, Decision(what, "operator"))
  /\ UNCHANGED <<queue, flows, watch, off>>

\* shutdown, before it calls resolve_all.
Close(o) ==
  /\ call[o] = "idle"
  /\ closed' = TRUE
  /\ Calls(o, "draining", <<>>, Decision(Drop, "shutdown"))
  /\ UNCHANGED <<waiting, enabled, flows, watch, off>>

\* Mutant: switching off releases what waits whichever way the switch goes.
SetEnabled_Releases(o, on) ==
  /\ call[o] = "idle"
  /\ enabled' = on
  /\ off' = IF on THEN off ELSE off \cup {r \in Requests : flow[r] \in InDecide}
  /\ Calls(o, "draining", <<>>, Decision(Forward, "switch"))
  /\ UNCHANGED <<waiting, closed, flows, watch>>

\* set_enabled, before it calls resolve_all; a switch that is set already is left alone.
SetEnabled(o, on) ==
  /\ call[o] = "idle" /\ enabled # on
  /\ enabled' = on
  /\ IF on
       THEN UNCHANGED <<calls, off>>
       ELSE /\ off' = off \cup {r \in Requests : flow[r] \in InDecide}
            /\ Calls(o, "draining", <<>>, Decision(Forward, "switch"))
  /\ UNCHANGED <<waiting, closed, flows, watch>>

\* resolve_all under the mutex.
Drain(o) ==
  /\ call[o] = "draining"
  /\ waiting' = <<>>
  /\ Calls(o, IF waiting = <<>> THEN "idle" ELSE "sending", waiting,
           IF waiting = <<>> THEN Nothing ELSE order[o])
  /\ UNCHANGED <<closed, enabled, flows, watch, off>>

\* Mutant: the loop ends at the first request whose flow has gone.
Send_StopsAtTheGone(o) ==
  /\ call[o] = "sending"
  /\ LET r == Head(batch[o])
         rest == IF flow[r] = "gone" THEN <<>> ELSE Tail(batch[o]) IN
       /\ answer' = IF flow[r] \in InDecide THEN [answer EXCEPT ![r] = order[o]] ELSE answer
       /\ Calls(o, IF rest = <<>> THEN "idle" ELSE "sending", rest,
                IF rest = <<>> THEN Nothing ELSE order[o])
  /\ UNCHANGED <<queue, flow, verdict, watch, off>>

\* tx.send on the next channel; it fails when the flow dropped its end.
Send(o) ==
  /\ call[o] = "sending"
  /\ LET r == Head(batch[o])
         rest == Tail(batch[o]) IN
       /\ answer' = IF flow[r] \in InDecide THEN [answer EXCEPT ![r] = order[o]] ELSE answer
       /\ Calls(o, IF rest = <<>> THEN "idle" ELSE "sending", rest,
                IF rest = <<>> THEN Nothing ELSE order[o])
  /\ UNCHANGED <<queue, flow, verdict, watch, off>>

-------------------------------------------------------------------------------
(* arrival *)

\* pending_count: something waits, and arrival returns, or nothing does.
Check(w) ==
  /\ watch[w] = "idle" /\ waiting = <<>>
  /\ watch' = [watch EXCEPT ![w] = "checked"]
  /\ UNCHANGED <<queue, flows, calls, off>>

\* notified(): from here on notify_waiters reaches the watcher.
Register(w) ==
  /\ watch[w] = "checked"
  /\ watch' = [watch EXCEPT ![w] = "registered"]
  /\ UNCHANGED <<queue, flows, calls, off>>

-------------------------------------------------------------------------------

FlowStep(r) == Notify(r) \/ Receive(r) \/ Elapse(r) \/ Forget(r)
CallStep(o) == Drain(o) \/ Send(o)

Next ==
  \/ \E r \in Requests : Arrive(r) \/ FlowStep(r) \/ HangUp(r)
  \/ \E o \in Operators :
       \/ \E i \in DOMAIN waiting, what \in {Forward, Drop} : Resolve(o, i, what)
       \/ \E what \in {Forward, Drop} : ResolveAll(o, what)
       \/ Close(o) \/ \E on \in BOOLEAN : SetEnabled(o, on)
       \/ CallStep(o)
  \/ \E w \in Watchers : Check(w) \/ Register(w)

Spec == Init /\ [][Next]_vars

\* Threads that are in a call run on, and so do flows that were woken. Nobody has to
\* call anything, and no deadline has to be near.
FairSpec ==
  /\ Spec
  /\ \A r \in Requests : WF_vars(Notify(r) \/ Receive(r) \/ Forget(r))
  /\ \A o \in Operators : WF_vars(CallStep(o))

-------------------------------------------------------------------------------

\* Every variable holds a value of its type; a decide call that is over has returned a
\* decision, and no other has; a call that sends has something to send.
TypeOK ==
  /\ waiting \in Seq(Requests) /\ closed \in BOOLEAN /\ enabled \in BOOLEAN
  /\ flow \in [Requests -> FlowPlaces]
  /\ answer \in [Requests -> Decisions \cup {Nothing}]
  /\ verdict \in [Requests -> Decisions \cup {Nothing}]
  /\ \A r \in Requests : flow[r] = "done" <=> verdict[r] # Nothing
  /\ call \in [Operators -> {"idle", "draining", "sending"}]
  /\ batch \in [Operators -> Seq(Requests)]
  /\ \A o \in Operators : call[o] = "sending" <=> batch[o] # <<>>
  /\ order \in [Operators -> Decisions \cup {Nothing}]
  /\ \A o \in Operators : call[o] # "idle" => order[o] \in Decisions
  /\ watch \in [Watchers -> {"idle", "checked", "registered"}]
  /\ off \subseteq Requests

Queued(r) == Contains(waiting, r)
Taken(r) == \E o \in Operators : Contains(batch[o], r)

\* "With it on, nothing reaches the target that the operator has not seen": a request is
\* forwarded because the operator said so, at a deadline the host asked for, or because
\* the gate was off, or a thread was still switching it off, while it was being decided.
\* Being switched on while requests wait releases none of them.
NothingUnseenWhileOn ==
  \A r \in Requests : verdict[r].what = Forward => verdict[r].by # "switch" \/ r \in off

\* A gate that is shut down or off holds nothing once the call that made it so is over:
\* a request cannot slip in between the switch and the draining of the queue.
GateNotHoldingIsEmpty ==
  (closed \/ ~enabled) /\ (\A o \in Operators : call[o] # "draining") => waiting = <<>>

\* A held request that was not answered can be: it is in the queue, or a call that took it
\* out is about to answer it, never both and never twice.
EveryHoldHasOneSender ==
  \A r \in Requests :
    /\ flow[r] \in {"parked", "held"} /\ answer[r] = Nothing => Queued(r) \/ Taken(r)
    /\ Queued(r) => ~Taken(r) /\ answer[r] = Nothing

\* Nothing that was decided is still shown as waiting, whichever way it was decided: by
\* an operator, by a drain or by its deadline.
DecidedLeavesTheQueue == \A r \in Requests : flow[r] = "done" => ~Queued(r)

\* Shutting the gate down ends every hold, also those behind a flow that has gone.
ShutdownEndsEveryHold == \A r \in Requests : closed /\ flow[r] = "held" ~> flow[r] # "held"
===============================================================================
