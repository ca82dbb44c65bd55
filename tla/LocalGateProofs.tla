--------------------------- MODULE LocalGateProofs ---------------------------
(* Proofs about LocalGate for every set of requests, operators and watchers,   *)
(* with and without a deadline.                                                *)
EXTENDS LocalGate, SequenceTheorems, TLAPS

USE GateAssumption

-----------------------------------------------------------------------------
(* The queue *)

LEMMA DomainOfSeq == ASSUME NEW S, NEW s \in Seq(S) PROVE DOMAIN s = 1 .. Len(s) /\ Len(s) \in Nat
BY LenProperties

\* Taking the i-th element out of a sequence leaves the others, in their order.
LEMMA RemoveAtProperties ==
  ASSUME NEW S, NEW s \in Seq(S), NEW i \in 1 .. Len(s)
  PROVE  /\ RemoveAt(s, i) \in Seq(S) /\ Len(RemoveAt(s, i)) = Len(s) - 1
         /\ \A j \in 1 .. Len(s) - 1 : RemoveAt(s, i)[j] = IF j < i THEN s[j] ELSE s[j + 1]
<1>. Len(s) \in Nat BY LenProperties
<1>. DEFINE left == SubSeq(s, 1, i - 1)
            right == SubSeq(s, i + 1, Len(s))
<1>1. /\ left \in Seq(S) /\ Len(left) = i - 1 /\ \A j \in 1 .. i - 1 : left[j] = s[j]
  BY SubSeqProperties
<1>2. /\ right \in Seq(S) /\ Len(right) = Len(s) - i
      /\ \A j \in 1 .. Len(s) - i : right[j] = s[i + j]
  <2>1. /\ right \in Seq(S) /\ Len(right) = IF i + 1 <= Len(s) THEN Len(s) - (i + 1) + 1 ELSE 0
        /\ \A j \in 1 .. Len(s) - (i + 1) + 1 : right[j] = s[(i + 1) + j - 1]
    BY SubSeqProperties
  <2>. HIDE DEF right
  <2>2. Len(s) - (i + 1) + 1 = Len(s) - i OBVIOUS
  <2>3. ASSUME NEW j \in 1 .. Len(s) - i PROVE right[j] = s[i + j]
    <3>1. (i + 1) + j - 1 = i + j OBVIOUS
    <3>2. j \in 1 .. Len(s) - (i + 1) + 1 BY <2>2
    <3>3. right[j] = s[(i + 1) + j - 1] BY <2>1, <3>2
    <3>. QED BY <3>1, <3>3
  <2>4. Len(right) = Len(s) - i BY <2>1
  <2>. QED BY <2>1, <2>3, <2>4
<1>. HIDE DEF left, right
<1>3. /\ left \o right \in Seq(S) /\ Len(left \o right) = Len(s) - 1
      /\ \A j \in 1 .. Len(s) - 1 :
           (left \o right)[j] = IF j <= i - 1 THEN left[j] ELSE right[j - (i - 1)]
  <2>1. Len(left) + Len(right) = Len(s) - 1 BY <1>1, <1>2
  <2>2. /\ left \o right \in Seq(S) /\ Len(left \o right) = Len(left) + Len(right)
        /\ \A j \in 1 .. Len(left) + Len(right) :
             (left \o right)[j] = IF j <= Len(left) THEN left[j] ELSE right[j - Len(left)]
    BY <1>1, <1>2, ConcatProperties
  <2>3. Len(left) = i - 1 BY <1>1
  <2>. QED BY <2>1, <2>2, <2>3
<1>4. ASSUME NEW j \in 1 .. Len(s) - 1
      PROVE  (left \o right)[j] = IF j < i THEN s[j] ELSE s[j + 1]
  <2>1. CASE j < i BY <1>1, <1>3, <2>1
  <2>2. CASE ~(j < i)
    <3>1. (left \o right)[j] = right[j - (i - 1)] BY <1>3, <2>2
    <3>2. j - (i - 1) \in 1 .. Len(s) - i /\ i + (j - (i - 1)) = j + 1 BY <2>2
    <3>3. right[j - (i - 1)] = s[i + (j - (i - 1))] BY <1>2, <3>2
    <3>. QED BY <2>2, <3>1, <3>2, <3>3
  <2>. QED BY <2>1, <2>2
<1>5. RemoveAt(s, i) = left \o right BY DEF RemoveAt, left, right
<1>. QED BY <1>3, <1>4, <1>5

\* In a queue without repetitions, what was taken out is out and the rest is still in.
LEMMA RemoveAtContains ==
  ASSUME NEW S, NEW s \in Seq(S), NEW i \in 1 .. Len(s), IsInjective(s)
  PROVE  /\ IsInjective(RemoveAt(s, i))
         /\ \A r : Contains(RemoveAt(s, i), r) <=> Contains(s, r) /\ r # s[i]
<1>. DEFINE t == RemoveAt(s, i)
<1>. Len(s) \in Nat /\ DOMAIN s = 1 .. Len(s) BY LenProperties
<1>1. /\ t \in Seq(S) /\ Len(t) = Len(s) - 1
      /\ \A j \in 1 .. Len(s) - 1 : t[j] = IF j < i THEN s[j] ELSE s[j + 1]
  BY RemoveAtProperties
<1>2. DOMAIN t = 1 .. Len(s) - 1 BY <1>1, LenProperties
<1>. HIDE DEF t
<1>3. \A a, b \in 1 .. Len(s) : s[a] = s[b] => a = b BY DEF IsInjective
<1>4. IsInjective(t)
  <2> SUFFICES ASSUME NEW a \in 1 .. Len(s) - 1, NEW b \in 1 .. Len(s) - 1, t[a] = t[b]
               PROVE  a = b
    BY <1>2 DEF IsInjective
  <2>. DEFINE p(j) == IF j < i THEN j ELSE j + 1
  <2>1. p(a) \in 1 .. Len(s) /\ p(b) \in 1 .. Len(s) OBVIOUS
  <2>2. t[a] = s[p(a)] /\ t[b] = s[p(b)] BY <1>1
  <2>3. p(a) = p(b) BY <1>3, <2>1, <2>2
  <2>. QED BY <2>3
<1>5. ASSUME NEW r, Contains(t, r) PROVE Contains(s, r) /\ r # s[i]
  <2>1. PICK j \in 1 .. Len(s) - 1 : t[j] = r BY <1>1, <1>5 DEF Contains
  <2>2. PICK k \in 1 .. Len(s) : k # i /\ s[k] = r BY <1>1, <2>1
  <2>. QED BY <1>3, <2>2 DEF Contains
<1>6. ASSUME NEW r, Contains(s, r), r # s[i] PROVE Contains(t, r)
  <2>1. PICK k \in 1 .. Len(s) : s[k] = r BY <1>6 DEF Contains
  <2>2. k # i BY <1>6, <2>1
  <2>3. PICK j \in 1 .. Len(s) - 1 : t[j] = r
    <3>1. CASE k < i BY <1>1, <2>1, <3>1
    <3>2. CASE k > i
      <4>1. k - 1 \in 1 .. Len(s) - 1 /\ ~(k - 1 < i) /\ (k - 1) + 1 = k BY <3>2
      <4>2. t[k - 1] = s[(k - 1) + 1] BY <1>1, <4>1
      <4>. QED BY <2>1, <4>1, <4>2
    <3>. QED BY <2>2, <3>1, <3>2
  <2>. QED BY <1>1, <2>3 DEF Contains
<1>7. \A r : Contains(t, r) <=> Contains(s, r) /\ r # s[i] BY <1>5, <1>6
<1>. QED BY <1>4, <1>7 DEF t

LEMMA AppendContains ==
  ASSUME NEW S, NEW s \in Seq(S), NEW e \in S
  PROVE  /\ \A r : Contains(Append(s, e), r) <=> Contains(s, r) \/ r = e
         /\ IsInjective(s) /\ ~Contains(s, e) => IsInjective(Append(s, e))
<1>. Len(s) \in Nat /\ DOMAIN s = 1 .. Len(s) BY LenProperties
<1>. DEFINE t == Append(s, e)
<1>1. /\ t \in Seq(S) /\ Len(t) = Len(s) + 1
      /\ \A j \in 1 .. Len(s) : t[j] = s[j]
      /\ t[Len(s) + 1] = e
  BY AppendProperties
<1>2. DOMAIN t = 1 .. Len(s) + 1 BY <1>1, LenProperties
<1>. HIDE DEF t
<1>3. \A r : Contains(t, r) <=> Contains(s, r) \/ r = e BY <1>1 DEF Contains
<1>4. IsInjective(s) /\ ~Contains(s, e) => IsInjective(t)
  BY <1>1, <1>2 DEF Contains, IsInjective
<1>. QED BY <1>3, <1>4 DEF t

LEMMA TailContains ==
  ASSUME NEW S, NEW s \in Seq(S), s # <<>>, IsInjective(s)
  PROVE  /\ Head(s) \in S /\ Tail(s) \in Seq(S) /\ IsInjective(Tail(s)) /\ Contains(s, Head(s))
         /\ \A r : Contains(Tail(s), r) <=> Contains(s, r) /\ r # Head(s)
<1>. Len(s) \in Nat /\ DOMAIN s = 1 .. Len(s) BY LenProperties
<1>. DEFINE t == Tail(s)
<1>1. /\ Head(s) \in S /\ t \in Seq(S) /\ Len(s) > 0 /\ Len(t) = Len(s) - 1
      /\ \A j \in 1 .. Len(s) - 1 : t[j] = s[j + 1]
      /\ Head(s) = s[1]
  BY HeadTailProperties, EmptySeq
<1>2. DOMAIN t = 1 .. Len(s) - 1 BY <1>1, LenProperties
<1>. HIDE DEF t
<1>3. \A a, b \in 1 .. Len(s) : s[a] = s[b] => a = b BY DEF IsInjective
<1>4. IsInjective(t)
  <2> SUFFICES ASSUME NEW a \in 1 .. Len(s) - 1, NEW b \in 1 .. Len(s) - 1, t[a] = t[b]
               PROVE  a = b
    BY <1>2 DEF IsInjective
  <2>1. a + 1 \in 1 .. Len(s) /\ b + 1 \in 1 .. Len(s) /\ s[a + 1] = s[b + 1] BY <1>1
  <2>2. a + 1 = b + 1 BY <1>3, <2>1
  <2>. QED BY <2>2
<1>5. ASSUME NEW r, Contains(t, r) PROVE Contains(s, r) /\ r # Head(s)
  <2>1. PICK j \in 1 .. Len(s) - 1 : t[j] = r BY <1>1, <1>5 DEF Contains
  <2>2. j + 1 \in 1 .. Len(s) /\ j + 1 # 1 /\ s[j + 1] = r BY <1>1, <2>1
  <2>. QED BY <1>1, <1>3, <2>2 DEF Contains
<1>6. ASSUME NEW r, Contains(s, r), r # Head(s) PROVE Contains(t, r)
  <2>1. PICK k \in 1 .. Len(s) : s[k] = r BY <1>6 DEF Contains
  <2>2. k - 1 \in 1 .. Len(s) - 1 /\ (k - 1) + 1 = k BY <1>1, <1>6, <2>1
  <2>3. t[k - 1] = r BY <1>1, <2>1, <2>2
  <2>. QED BY <1>1, <2>2, <2>3 DEF Contains
<1>7. Contains(s, Head(s)) BY <1>1 DEF Contains
<1>8. \A r : Contains(t, r) <=> Contains(s, r) /\ r # Head(s) BY <1>5, <1>6
<1>. QED BY <1>1, <1>4, <1>7, <1>8 DEF t

-----------------------------------------------------------------------------
(* Types *)

LEMMA DecisionTypes ==
  /\ \A what \in {Forward, Drop}, by \in Reasons : Decision(what, by) \in Decisions
  /\ Nothing \notin Decisions
BY DEF Decision, Decisions, Nothing, Reasons, Forward, Drop

LEMMA InitType == Init => TypeOK
<1> SUFFICES ASSUME Init PROVE TypeOK
  OBVIOUS
<1>1. waiting \in Seq(Requests) BY DEF Init
<1>2. \A o \in Operators : batch[o] = <<>> /\ call[o] = "idle" BY DEF Init
<1>3. batch \in [Operators -> Seq(Requests)] BY DEF Init
<1>. QED BY <1>1, <1>2, <1>3 DEF Init, TypeOK, FlowPlaces

LEMMA FlowType ==
  ASSUME NEW r \in Requests, TypeOK, Arrive(r) \/ FlowStep(r) \/ HangUp(r) PROVE TypeOK'
<1> USE DecisionTypes DEF TypeOK, queue, calls, flows, FlowPlaces, Decided
<1>. waiting \in Seq(Requests) OBVIOUS
<1>0. ASSUME NEW i \in DOMAIN waiting PROVE RemoveAt(waiting, i) \in Seq(Requests)
  BY <1>0, DomainOfSeq, RemoveAtProperties
<1>1. CASE Arrive(r)
  <2>. "switch" \in Reasons /\ "shutdown" \in Reasons BY DEF Reasons
  <2>0. off' \subseteq Requests BY <1>1 DEF Arrive
  <2>1. CASE closed \/ ~enabled
    <3>1. PICK d \in Decisions : Decided(r, d)
      <4>1. Decided(r, IF closed THEN Decision(Drop, "shutdown") ELSE Decision(Forward, "switch"))
        BY <1>1, <2>1 DEF Arrive
      <4>2. (IF closed THEN Decision(Drop, "shutdown") ELSE Decision(Forward, "switch")) \in Decisions
        OBVIOUS
      <4>. HIDE DEF Decided
      <4>. QED BY <4>1, <4>2
    <3>2. UNCHANGED <<waiting, closed, enabled, answer, call, batch, order, watch>>
      BY <1>1, <2>1 DEF Arrive
    <3>. QED BY <2>0, <3>1, <3>2
  <2>2. CASE ~(closed \/ ~enabled)
    <3>1. waiting' \in Seq(Requests)
      <4>1. waiting' = Append(waiting, r) BY <1>1, <2>2 DEF Arrive
      <4>. HIDE DEF TypeOK
      <4>. QED BY <4>1, AppendProperties
    <3>2. /\ flow' = [flow EXCEPT ![r] = "parked"] /\ flow[r] = "new"
          /\ UNCHANGED <<verdict, closed, enabled, answer, call, batch, order, watch>>
      BY <1>1, <2>2 DEF Arrive
    <3>. QED BY <2>0, <3>1, <3>2
  <2>. QED BY <2>1, <2>2
<1>2. CASE Notify(r) BY <1>2 DEF Notify
<1>3. CASE Receive(r) BY <1>3 DEF Receive
<1>4. CASE Elapse(r)
  <2>. flow' = [flow EXCEPT ![r] = "elapsed"] /\ flow[r] = "held" BY <1>4 DEF Elapse
  <2>. QED BY <1>4 DEF Elapse
<1>5. CASE Forget(r)
  <2>1. waiting' \in Seq(Requests) BY <1>0, <1>5 DEF Forget
  <2>2. Decision(OnTimeout, "deadline") \in Decisions BY DEF Reasons
  <2>. QED BY <1>5, <2>1, <2>2 DEF Forget
<1>6. CASE HangUp(r) BY <1>6 DEF HangUp
<1>. QED BY <1>1, <1>2, <1>3, <1>4, <1>5, <1>6 DEF FlowStep

\* The part of the type invariant that is about calls, after a call moved.
LEMMA CallsType ==
  ASSUME NEW o \in Operators, NEW place, NEW taken \in Seq(Requests), NEW d, TypeOK,
         Calls(o, place, taken, d), place \in {"idle", "draining", "sending"},
         d \in Decisions \/ (d = Nothing /\ place = "idle"),
         place = "sending" <=> taken # <<>>,
         waiting' \in Seq(Requests), closed' \in BOOLEAN, enabled' \in BOOLEAN,
         answer' \in [Requests -> Decisions \cup {Nothing}],
         UNCHANGED <<flow, verdict, watch>>, off' \subseteq Requests
  PROVE  TypeOK'
<1>1. /\ call' \in [Operators -> {"idle", "draining", "sending"}]
      /\ batch' \in [Operators -> Seq(Requests)]
      /\ order' \in [Operators -> Decisions \cup {Nothing}]
  BY DEF TypeOK, Calls
<1>2. \A p \in Operators : call'[p] = "sending" <=> batch'[p] # <<>>
  BY DEF TypeOK, Calls
<1>3. \A p \in Operators : call'[p] # "idle" => order'[p] \in Decisions
  BY DEF TypeOK, Calls
<1>. QED BY <1>1, <1>2, <1>3 DEF TypeOK

OperatorStep(o) ==
  \/ \E i \in DOMAIN waiting, what \in {Forward, Drop} : Resolve(o, i, what)
  \/ \E what \in {Forward, Drop} : ResolveAll(o, what)
  \/ Close(o) \/ \E on \in BOOLEAN : SetEnabled(o, on)
  \/ CallStep(o)

LEMMA OperatorType == ASSUME NEW o \in Operators, TypeOK, OperatorStep(o) PROVE TypeOK'
<1> USE DEF queue, calls, flows
<1>. /\ <<>> \in Seq(Requests) /\ waiting \in Seq(Requests) /\ closed \in BOOLEAN
     /\ enabled \in BOOLEAN /\ off \subseteq Requests
     /\ answer \in [Requests -> Decisions \cup {Nothing}]
     /\ batch[o] \in Seq(Requests)
     /\ call[o] # "idle" => order[o] \in Decisions
  BY DEF TypeOK
<1>. /\ \A what \in {Forward, Drop} : Decision(what, "operator") \in Decisions
     /\ Decision(Drop, "shutdown") \in Decisions /\ Decision(Forward, "switch") \in Decisions
  BY DecisionTypes DEF Reasons
<1>1. ASSUME NEW i \in DOMAIN waiting, NEW what \in {Forward, Drop}, Resolve(o, i, what)
      PROVE  TypeOK'
  <2>1. i \in 1 .. Len(waiting) BY <1>1, DomainOfSeq
  <2>2. RemoveAt(waiting, i) \in Seq(Requests) BY <2>1, RemoveAtProperties
  <2>3. waiting[i] \in Requests BY <2>1, ElementOfSeq
  <2>4. <<waiting[i]>> \in Seq(Requests) /\ <<waiting[i]>> # <<>> BY <2>3
  <2>. DEFINE taken == <<waiting[i]>>
  <2>5. Calls(o, "sending", taken, Decision(what, "operator")) BY <1>1 DEF Resolve
  <2>6. waiting' \in Seq(Requests) BY <1>1, <2>2 DEF Resolve
  <2>7. UNCHANGED <<closed, enabled, flow, answer, verdict, watch, off>> BY <1>1 DEF Resolve
  <2>. HIDE DEF taken
  <2>8. taken \in Seq(Requests) /\ taken # <<>> BY <2>4 DEF taken
  <2>. QED BY <2>5, <2>6, <2>7, <2>8, CallsType
<1>2. ASSUME NEW what \in {Forward, Drop}, ResolveAll(o, what) PROVE TypeOK'
  <2>1. /\ Calls(o, "draining", <<>>, Decision(what, "operator"))
        /\ UNCHANGED <<waiting, closed, enabled, flow, answer, verdict, watch, off>>
    BY <1>2 DEF ResolveAll
  <2>. QED BY <2>1, CallsType
<1>3. CASE Close(o)
  <2>1. /\ Calls(o, "draining", <<>>, Decision(Drop, "shutdown"))
        /\ UNCHANGED <<waiting, enabled, flow, answer, verdict, watch, off>> /\ closed' = TRUE
    BY <1>3 DEF Close
  <2>. QED BY <2>1, CallsType
<1>4. ASSUME NEW on \in BOOLEAN, SetEnabled(o, on) PROVE TypeOK'
  <2>1. CASE on BY <1>4, <2>1 DEF SetEnabled, TypeOK
  <2>2. CASE ~on
    <3>1. /\ Calls(o, "draining", <<>>, Decision(Forward, "switch"))
          /\ enabled' \in BOOLEAN /\ off' \subseteq Requests
          /\ UNCHANGED <<waiting, closed, flow, answer, verdict, watch>>
      BY <1>4, <2>2 DEF SetEnabled
    <3>. QED BY <3>1, CallsType
  <2>. QED BY <2>1, <2>2
<1>5. CASE Drain(o)
  <2>1. CASE waiting = <<>>
    <3>1. Calls(o, "idle", <<>>, Nothing) BY <1>5, <2>1 DEF Drain
    <3>. QED BY <1>5, <3>1, CallsType DEF Drain
  <2>2. CASE waiting # <<>>
    <3>1. Calls(o, "sending", waiting, order[o]) BY <1>5, <2>2 DEF Drain
    <3>. QED BY <1>5, <2>2, <3>1, CallsType DEF Drain
  <2>. QED BY <2>1, <2>2
<1>6. CASE Send(o)
  <2>. DEFINE h == Head(batch[o])
  <2>. DEFINE rest == Tail(batch[o])
  <2>1. batch[o] # <<>> /\ order[o] \in Decisions BY <1>6 DEF Send, TypeOK
  <2>2. h \in Requests /\ rest \in Seq(Requests) BY <2>1, HeadTailProperties
  <2>3. answer' \in [Requests -> Decisions \cup {Nothing}] BY <1>6, <2>1, <2>2 DEF Send
  <2>4. UNCHANGED <<waiting, closed, enabled, flow, verdict, watch, off>> BY <1>6 DEF Send
  <2>5. Calls(o, IF rest = <<>> THEN "idle" ELSE "sending", rest,
              IF rest = <<>> THEN Nothing ELSE order[o])
    BY <1>6 DEF Send
  <2>. HIDE DEF h, rest
  <2>6. CASE rest = <<>>
    <3>1. Calls(o, "idle", <<>>, Nothing) BY <2>5, <2>6
    <3>. QED BY <2>3, <2>4, <3>1, CallsType
  <2>7. CASE rest # <<>>
    <3>1. Calls(o, "sending", rest, order[o]) BY <2>5, <2>7
    <3>. QED BY <2>1, <2>2, <2>3, <2>4, <2>7, <3>1, CallsType
  <2>. QED BY <2>6, <2>7
<1>. QED BY <1>1, <1>2, <1>3, <1>4, <1>5, <1>6 DEF OperatorStep, CallStep

LEMMA NextType == TypeOK /\ [Next]_vars => TypeOK'
<1> SUFFICES ASSUME TypeOK, [Next]_vars PROVE TypeOK'
  OBVIOUS
<1>1. ASSUME NEW r \in Requests, Arrive(r) \/ FlowStep(r) \/ HangUp(r) PROVE TypeOK'
  BY <1>1, FlowType
<1>2. ASSUME NEW o \in Operators, OperatorStep(o) PROVE TypeOK' BY <1>2, OperatorType
<1>3. ASSUME NEW w \in Watchers, Check(w) \/ Register(w) PROVE TypeOK'
  BY <1>3 DEF Check, Register, TypeOK, queue, flows, calls
<1>4. CASE UNCHANGED vars BY <1>4 DEF vars, TypeOK, queue, flows, calls
<1>. QED BY <1>1, <1>2, <1>3, <1>4 DEF Next, OperatorStep

\* Every variable holds a value of its type in every reachable state.
THEOREM TypeCorrect == Spec => []TypeOK
<1>. QED BY InitType, NextType, PTL DEF Spec

-----------------------------------------------------------------------------
(* The switches *)

LEMMA NextEmpty == TypeOK /\ GateNotHoldingIsEmpty /\ [Next]_vars => GateNotHoldingIsEmpty'
<1> SUFFICES ASSUME TypeOK, GateNotHoldingIsEmpty, [Next]_vars PROVE GateNotHoldingIsEmpty'
  OBVIOUS
<1> USE DEF GateNotHoldingIsEmpty, queue, flows, calls, Calls
<1>. call \in [Operators -> {"idle", "draining", "sending"}] BY DEF TypeOK
<1>1. ASSUME NEW r \in Requests, Arrive(r) PROVE GateNotHoldingIsEmpty'
  BY <1>1 DEF Arrive
<1>2. ASSUME NEW r \in Requests, Notify(r) \/ Receive(r) \/ Elapse(r) \/ HangUp(r)
      PROVE  GateNotHoldingIsEmpty'
  BY <1>2 DEF Notify, Receive, Elapse, HangUp
<1>3. ASSUME NEW r \in Requests, Forget(r) PROVE GateNotHoldingIsEmpty'
  <2>1. waiting = <<>> => waiting' = <<>>
    <3>. waiting = <<>> => DOMAIN waiting = {} OBVIOUS
    <3>. QED BY <1>3 DEF Forget
  <2>. QED BY <1>3, <2>1 DEF Forget
<1>4. ASSUME NEW o \in Operators, NEW i \in DOMAIN waiting, NEW what \in {Forward, Drop},
             Resolve(o, i, what)
      PROVE  GateNotHoldingIsEmpty'
  <2>1. waiting # <<>> BY <1>4
  <2>2. \A p \in Operators : call[p] = "draining" => call'[p] = "draining"
    BY <1>4 DEF Resolve
  <2>. QED BY <1>4, <2>1, <2>2 DEF Resolve
<1>5. ASSUME NEW o \in Operators, call'[o] = "draining" PROVE GateNotHoldingIsEmpty'
  BY <1>5
<1>6. ASSUME NEW o \in Operators,
             Close(o) \/ \E what \in {Forward, Drop} : ResolveAll(o, what)
      PROVE  GateNotHoldingIsEmpty'
  <2>1. call'[o] = "draining" BY <1>6 DEF Close, ResolveAll
  <2>. QED BY <1>5, <2>1
<1>7. ASSUME NEW o \in Operators, NEW on \in BOOLEAN, SetEnabled(o, on)
      PROVE  GateNotHoldingIsEmpty'
  <2>1. CASE on BY <1>7, <2>1 DEF SetEnabled
  <2>2. CASE ~on
    <3>1. call'[o] = "draining" BY <1>7, <2>2 DEF SetEnabled
    <3>. QED BY <1>5, <3>1
  <2>. QED BY <2>1, <2>2
<1>8. ASSUME NEW o \in Operators, Drain(o) PROVE GateNotHoldingIsEmpty'
  BY <1>8 DEF Drain
<1>9. ASSUME NEW o \in Operators, Send(o) PROVE GateNotHoldingIsEmpty'
  <2>1. \A p \in Operators : call[p] = "draining" => call'[p] = "draining"
    BY <1>9 DEF Send
  <2>. QED BY <1>9, <2>1 DEF Send
<1>10. ASSUME NEW w \in Watchers, Check(w) \/ Register(w) PROVE GateNotHoldingIsEmpty'
  BY <1>10 DEF Check, Register
<1>11. CASE UNCHANGED vars BY <1>11 DEF vars
<1>. QED BY <1>1, <1>2, <1>3, <1>4, <1>6, <1>7, <1>8, <1>9, <1>10, <1>11
     DEF Next, FlowStep, CallStep

\* A gate that is shut down or off holds nothing once the calls that made it so have
\* drained the queue, however many threads switch it and whatever arrives meanwhile.
THEOREM NothingSlipsIn == Spec => []GateNotHoldingIsEmpty
<1>1. Init => GateNotHoldingIsEmpty BY DEF Init, GateNotHoldingIsEmpty
<1>. QED BY <1>1, TypeCorrect, NextEmpty, PTL DEF Spec

-----------------------------------------------------------------------------
(* Every hold has one sender *)

\* The channels: each unanswered hold's sender is in the queue or in the hands of one
\* call, once. Without the uniqueness no single step keeps EveryHoldHasOneSender: taking
\* one of two copies out of the queue would leave a row that is already being answered.
Unique ==
  /\ IsInjective(waiting) /\ \A o \in Operators : IsInjective(batch[o])
  /\ \A o, p \in Operators : \A r \in Requests :
       Contains(batch[o], r) /\ Contains(batch[p], r) => o = p
Unanswered ==
  \A r \in Requests : Queued(r) \/ Taken(r) => answer[r] = Nothing /\ flow[r] # "new"
NewIsUnanswered == \A r \in Requests : flow[r] = "new" => answer[r] = Nothing
SenderInv ==
  /\ TypeOK /\ Unique /\ Unanswered /\ NewIsUnanswered
  /\ EveryHoldHasOneSender /\ DecidedLeavesTheQueue

\* A step that moves no sender and answers no request keeps the invariant when it lets
\* nobody go but by an answer.
LEMMA SendersStay ==
  ASSUME SenderInv, TypeOK', UNCHANGED <<waiting, batch, answer>>,
         \A r \in Requests :
           /\ flow'[r] = "new" => flow[r] = "new"
           /\ flow'[r] \in {"parked", "held"} => flow[r] \in {"parked", "held"}
           /\ flow'[r] = "done" => flow[r] = "done" \/ ~Queued(r)
  PROVE  SenderInv'
<1>. \A r : (Queued(r)' <=> Queued(r)) /\ (Taken(r)' <=> Taken(r)) BY DEF Queued, Taken
<1>. QED BY DEF SenderInv, Unique, Unanswered, NewIsUnanswered, EveryHoldHasOneSender,
            DecidedLeavesTheQueue

LEMMA FlowSenders ==
  ASSUME NEW r \in Requests, SenderInv, TypeOK', Arrive(r) \/ FlowStep(r) \/ HangUp(r)
  PROVE  SenderInv'
<1> USE DEF queue, calls, flows, Decided
<1>. /\ waiting \in Seq(Requests) /\ flow \in [Requests -> FlowPlaces]
     /\ IsInjective(waiting)
  BY DEF SenderInv, TypeOK, Unique
<1>1. CASE Arrive(r) /\ (closed \/ ~enabled)
  <2>1. ~Queued(r) /\ ~Taken(r) BY <1>1 DEF Arrive, SenderInv, Unanswered
  <2>2. flow' = [flow EXCEPT ![r] = "done"] /\ UNCHANGED <<waiting, batch, answer>>
    BY <1>1 DEF Arrive
  <2>. QED BY <2>1, <2>2, SendersStay
<1>2. CASE Arrive(r) /\ ~(closed \/ ~enabled)
  <2>1. ~Queued(r) /\ ~Taken(r) /\ flow[r] = "new"
    BY <1>2 DEF Arrive, SenderInv, Unanswered
  <2>2. /\ waiting' = Append(waiting, r) /\ flow' = [flow EXCEPT ![r] = "parked"]
        /\ UNCHANGED <<batch, answer>>
    BY <1>2 DEF Arrive
  <2>3. \A q : (Queued(q)' <=> Queued(q) \/ q = r) /\ (Taken(q)' <=> Taken(q))
    BY <2>2, AppendContains DEF Queued, Taken
  <2>4. answer[r] = Nothing BY <2>1 DEF SenderInv, NewIsUnanswered
  <2>5. Unique' BY <2>1, <2>2, AppendContains DEF SenderInv, Unique, Queued
  <2>6. Unanswered' /\ NewIsUnanswered'
    BY <2>2, <2>3, <2>4 DEF SenderInv, Unanswered, NewIsUnanswered
  <2>7. EveryHoldHasOneSender' /\ DecidedLeavesTheQueue'
    BY <2>1, <2>2, <2>3, <2>4 DEF SenderInv, EveryHoldHasOneSender, DecidedLeavesTheQueue
  <2>. QED BY <2>5, <2>6, <2>7 DEF SenderInv
<1>3. CASE Notify(r) BY <1>3, SendersStay DEF Notify
<1>4. CASE Receive(r)
  <2>1. ~Queued(r) BY <1>4 DEF Receive, SenderInv, Unanswered
  <2>2. flow' = [flow EXCEPT ![r] = "done"] /\ UNCHANGED <<waiting, batch, answer>>
    BY <1>4 DEF Receive
  <2>3. flow[r] = "held" BY <1>4 DEF Receive
  <2>. QED BY <2>1, <2>2, <2>3, SendersStay
<1>5. CASE Elapse(r) BY <1>5, SendersStay DEF Elapse
<1>6. CASE Forget(r) /\ ~Queued(r)
  <2>1. flow' = [flow EXCEPT ![r] = "done"] /\ UNCHANGED <<waiting, batch, answer>>
    BY <1>6 DEF Forget, Queued
  <2>2. flow[r] = "elapsed" BY <1>6 DEF Forget
  <2>. QED BY <1>6, <2>1, <2>2, SendersStay
<1>7. CASE Forget(r) /\ Queued(r)
  <2>1. PICK i \in 1 .. Len(waiting) : waiting[i] = r /\ waiting' = RemoveAt(waiting, i)
    BY <1>7, DomainOfSeq DEF Forget, Queued
  <2>2. /\ flow' = [flow EXCEPT ![r] = "done"] /\ flow[r] = "elapsed"
        /\ UNCHANGED <<batch, answer>>
    BY <1>7 DEF Forget
  <2>3. \A q : (Queued(q)' <=> Queued(q) /\ q # r) /\ (Taken(q)' <=> Taken(q))
    BY <2>1, <2>2, RemoveAtContains DEF Queued, Taken
  <2>4. Unique' BY <2>1, <2>2, RemoveAtContains DEF SenderInv, Unique
  <2>5. Unanswered' /\ NewIsUnanswered'
    BY <2>2, <2>3 DEF SenderInv, Unanswered, NewIsUnanswered
  <2>6. EveryHoldHasOneSender' /\ DecidedLeavesTheQueue'
    BY <2>2, <2>3 DEF SenderInv, EveryHoldHasOneSender, DecidedLeavesTheQueue
  <2>. QED BY <2>4, <2>5, <2>6 DEF SenderInv
<1>8. CASE HangUp(r) BY <1>8, SendersStay DEF HangUp
<1>. QED BY <1>1, <1>2, <1>3, <1>4, <1>5, <1>6, <1>7, <1>8 DEF FlowStep

\* A call moves senders from the queue to its own hands: what leaves the one enters the
\* other, and no other call has it.
LEMMA SendersMove ==
  ASSUME NEW o \in Operators, NEW taken \in Seq(Requests), SenderInv, TypeOK',
         waiting' \in Seq(Requests), IsInjective(waiting'), IsInjective(taken),
         batch[o] = <<>>, batch' = [batch EXCEPT ![o] = taken], UNCHANGED <<flow, answer>>,
         \A r \in Requests : Contains(waiting', r) <=> Queued(r) /\ ~Contains(taken, r),
         \A r \in Requests : Contains(taken, r) => Queued(r)
  PROVE  SenderInv'
<1>. batch \in [Operators -> Seq(Requests)] BY DEF SenderInv, TypeOK
<1>1. \A r : ~Contains(batch[o], r) BY DEF Contains
<1>2. \A r \in Requests :
        /\ Queued(r)' <=> Queued(r) /\ ~Contains(taken, r)
        /\ Taken(r)' <=> Taken(r) \/ Contains(taken, r)
  <2>1. \A r \in Requests : Queued(r)' <=> Queued(r) /\ ~Contains(taken, r) BY DEF Queued
  <2>2. ASSUME NEW r \in Requests PROVE Taken(r)' <=> Taken(r) \/ Contains(taken, r)
    BY <1>1 DEF Taken
  <2>. QED BY <2>1, <2>2
<1>3. Unique'
  <2>1. \A p \in Operators : IsInjective(batch'[p]) BY DEF SenderInv, Unique
  <2>2. ASSUME NEW p \in Operators, NEW q \in Operators, NEW r \in Requests,
               Contains(batch'[p], r), Contains(batch'[q], r)
        PROVE  p = q
    <3>1. CASE p = o /\ q # o
      <4>1. Queued(r) /\ Taken(r) BY <2>2, <3>1 DEF Taken
      <4>. QED BY <4>1 DEF SenderInv, EveryHoldHasOneSender
    <3>2. CASE p # o /\ q = o
      <4>1. Queued(r) /\ Taken(r) BY <2>2, <3>2 DEF Taken
      <4>. QED BY <4>1 DEF SenderInv, EveryHoldHasOneSender
    <3>3. CASE p # o /\ q # o BY <2>2, <3>3 DEF SenderInv, Unique
    <3>. QED BY <3>1, <3>2, <3>3
  <2>. QED BY <2>1, <2>2 DEF Unique
<1>4. Unanswered' /\ NewIsUnanswered'
  BY <1>2 DEF SenderInv, Unanswered, NewIsUnanswered
<1>5. EveryHoldHasOneSender' /\ DecidedLeavesTheQueue'
  BY <1>2 DEF SenderInv, EveryHoldHasOneSender, DecidedLeavesTheQueue
<1>. QED BY <1>3, <1>4, <1>5 DEF SenderInv

LEMMA OperatorSenders ==
  ASSUME NEW o \in Operators, SenderInv, TypeOK', OperatorStep(o) PROVE SenderInv'
<1> USE DEF queue, calls, flows, Calls
<1>. /\ waiting \in Seq(Requests) /\ batch \in [Operators -> Seq(Requests)]
     /\ IsInjective(waiting) /\ waiting' \in Seq(Requests)
     /\ batch[o] \in Seq(Requests) /\ IsInjective(batch[o])
     /\ call[o] # "sending" => batch[o] = <<>>
  BY DEF SenderInv, TypeOK, Unique
<1>0. ASSUME UNCHANGED <<waiting, flow, answer>>, batch' = [batch EXCEPT ![o] = <<>>],
             batch[o] = <<>>
      PROVE  SenderInv'
  <2>1. batch' = batch BY <1>0
  <2>. QED BY <1>0, <2>1, SendersStay
<1>1. ASSUME NEW i \in DOMAIN waiting, NEW what \in {Forward, Drop}, Resolve(o, i, what)
      PROVE  SenderInv'
  <2>1. i \in 1 .. Len(waiting) /\ waiting[i] \in Requests BY DomainOfSeq, ElementOfSeq
  <2>. DEFINE taken == <<waiting[i]>>
  <2>2. taken \in Seq(Requests) /\ IsInjective(taken) BY <2>1 DEF IsInjective
  <2>3. \A r : Contains(taken, r) <=> r = waiting[i] BY DEF Contains
  <2>4. batch' = [batch EXCEPT ![o] = taken] /\ batch[o] = <<>> /\ UNCHANGED <<flow, answer>>
    BY <1>1 DEF Resolve
  <2>5. waiting' = RemoveAt(waiting, i) BY <1>1 DEF Resolve
  <2>6. /\ IsInjective(waiting')
        /\ \A r : Contains(waiting', r) <=> Contains(waiting, r) /\ r # waiting[i]
    BY <2>1, <2>5, RemoveAtContains
  <2>7. Contains(waiting, waiting[i]) BY <2>1 DEF Contains
  <2>. HIDE DEF taken
  <2>8. \A r \in Requests : Contains(waiting', r) <=> Queued(r) /\ ~Contains(taken, r)
    BY <2>3, <2>6 DEF Queued
  <2>9. \A r \in Requests : Contains(taken, r) => Queued(r) BY <2>3, <2>7 DEF Queued
  <2>. QED BY <2>2, <2>4, <2>6, <2>8, <2>9, SendersMove
<1>2. ASSUME NEW what \in {Forward, Drop}, ResolveAll(o, what) PROVE SenderInv'
  BY <1>0, <1>2 DEF ResolveAll
<1>3. CASE Close(o) BY <1>0, <1>3 DEF Close
<1>4. ASSUME NEW on \in BOOLEAN, SetEnabled(o, on) PROVE SenderInv'
  <2>1. CASE on
    <3>1. UNCHANGED <<waiting, flow, answer, batch>> BY <1>4, <2>1 DEF SetEnabled
    <3>. QED BY <3>1, SendersStay
  <2>2. CASE ~on BY <1>0, <1>4, <2>2 DEF SetEnabled
  <2>. QED BY <2>1, <2>2
<1>5. CASE Drain(o)
  <2>1. batch' = [batch EXCEPT ![o] = waiting] /\ batch[o] = <<>> /\ UNCHANGED <<flow, answer>>
    BY <1>5 DEF Drain
  <2>2. waiting' = <<>> BY <1>5 DEF Drain
  <2>3. IsInjective(waiting') /\ \A r : ~Contains(waiting', r)
    BY <2>2 DEF IsInjective, Contains
  <2>4. \A r \in Requests : Contains(waiting', r) <=> Queued(r) /\ ~Contains(waiting, r)
    BY <2>3 DEF Queued
  <2>5. \A r \in Requests : Contains(waiting, r) => Queued(r) BY DEF Queued
  <2>. QED BY <2>1, <2>3, <2>4, <2>5, SendersMove
<1>6. CASE Send(o)
  <2>. DEFINE h == Head(batch[o])
  <2>. DEFINE rest == Tail(batch[o])
  <2>0. batch[o] # <<>> BY <1>6 DEF Send, SenderInv, TypeOK
  <2>1. /\ h \in Requests /\ rest \in Seq(Requests) /\ IsInjective(rest)
        /\ Contains(batch[o], h)
        /\ \A r : Contains(rest, r) <=> Contains(batch[o], r) /\ r # h
    BY <2>0, TailContains
  <2>2. /\ batch' = [batch EXCEPT ![o] = rest] /\ UNCHANGED <<waiting, flow>>
        /\ answer' = IF flow[h] \in InDecide THEN [answer EXCEPT ![h] = order[o]] ELSE answer
    BY <1>6 DEF Send
  <2>3. order[o] # Nothing
    BY <1>6, DecisionTypes DEF Send, SenderInv, TypeOK
  <2>. HIDE DEF h, rest
  <2>4. \A r \in Requests :
          (Queued(r)' <=> Queued(r)) /\ (Taken(r)' <=> Taken(r) /\ r # h)
    <3>1. \A r \in Requests : Queued(r)' <=> Queued(r) BY <2>2 DEF Queued
    <3>2. ASSUME NEW r \in Requests, Taken(r)' PROVE Taken(r) /\ r # h
      <4>1. PICK p \in Operators : Contains(batch'[p], r) BY <3>2 DEF Taken
      <4>2. CASE p = o BY <2>1, <2>2, <4>1, <4>2 DEF Taken
      <4>3. CASE p # o
        <5>1. Contains(batch[p], r) BY <2>2, <4>1, <4>3
        <5>2. r # h BY <2>1, <4>3, <5>1 DEF SenderInv, Unique
        <5>. QED BY <5>1, <5>2 DEF Taken
      <4>. QED BY <4>2, <4>3
    <3>3. ASSUME NEW r \in Requests, Taken(r), r # h PROVE Taken(r)'
      <4>1. PICK p \in Operators : Contains(batch[p], r) BY <3>3 DEF Taken
      <4>2. Contains(batch'[p], r) BY <2>1, <2>2, <3>3, <4>1
      <4>. QED BY <4>2 DEF Taken
    <3>. QED BY <3>1, <3>2, <3>3
  <2>5. Taken(h) BY <2>1 DEF Taken
  <2>6. ~Queued(h) /\ answer[h] = Nothing /\ flow[h] # "new"
    BY <2>1, <2>5 DEF SenderInv, Unanswered, EveryHoldHasOneSender
  <2>7. Unique'
    <3>1. \A p \in Operators : IsInjective(batch'[p]) BY <2>1, <2>2 DEF SenderInv, Unique
    <3>2. \A p \in Operators, r \in Requests : Contains(batch'[p], r) => Contains(batch[p], r)
      BY <2>1, <2>2
    <3>. QED BY <2>2, <3>1, <3>2 DEF SenderInv, Unique
  <2>8. answer \in [Requests -> Decisions \cup {Nothing}] /\ \A r \in Requests : r # h => answer'[r] = answer[r]
    BY <2>2 DEF SenderInv, TypeOK
  <2>9. flow[h] \in {"parked", "held"} => answer'[h] # Nothing
    BY <2>1, <2>2, <2>3, <2>8 DEF InDecide
  <2>10. Unanswered' /\ NewIsUnanswered'
    BY <2>2, <2>4, <2>6, <2>8 DEF SenderInv, Unanswered, NewIsUnanswered
  <2>11. EveryHoldHasOneSender' /\ DecidedLeavesTheQueue'
    BY <2>2, <2>4, <2>6, <2>8, <2>9 DEF SenderInv, EveryHoldHasOneSender, DecidedLeavesTheQueue
  <2>. QED BY <2>7, <2>10, <2>11 DEF SenderInv
<1>. QED BY <1>1, <1>2, <1>3, <1>4, <1>5, <1>6 DEF OperatorStep, CallStep

LEMMA NextSenders == SenderInv /\ [Next]_vars => SenderInv'
<1> SUFFICES ASSUME SenderInv, [Next]_vars PROVE SenderInv'
  OBVIOUS
<1>. TypeOK' BY NextType DEF SenderInv
<1>1. ASSUME NEW r \in Requests, Arrive(r) \/ FlowStep(r) \/ HangUp(r) PROVE SenderInv'
  BY <1>1, FlowSenders
<1>2. ASSUME NEW o \in Operators, OperatorStep(o) PROVE SenderInv' BY <1>2, OperatorSenders
<1>3. ASSUME UNCHANGED <<waiting, flow, answer, batch>> PROVE SenderInv'
  BY <1>3, SendersStay
<1>4. ASSUME NEW w \in Watchers, Check(w) \/ Register(w) PROVE SenderInv'
  BY <1>3, <1>4 DEF Check, Register, queue, flows, calls
<1>5. CASE UNCHANGED vars BY <1>3, <1>5 DEF vars, queue, flows, calls
<1>. QED BY <1>1, <1>2, <1>4, <1>5 DEF Next, OperatorStep

LEMMA InitSenders == Init => SenderInv
<1> SUFFICES ASSUME Init PROVE SenderInv
  OBVIOUS
<1>1. /\ waiting = <<>> /\ \A o \in Operators : batch[o] = <<>>
      /\ \A r \in Requests : flow[r] = "new" /\ answer[r] = Nothing
  BY DEF Init
<1>2. \A r : ~Contains(<<>>, r) BY DEF Contains
<1>3. IsInjective(<<>>) BY DEF IsInjective
<1>4. \A r \in Requests : ~Queued(r) /\ ~Taken(r) BY <1>1, <1>2 DEF Queued, Taken
<1>5. Unique BY <1>1, <1>2, <1>3 DEF Unique
<1>. QED BY <1>1, <1>4, <1>5, InitType
     DEF SenderInv, Unanswered, NewIsUnanswered, EveryHoldHasOneSender, DecidedLeavesTheQueue

LEMMA SendersCorrect == Spec => []SenderInv
<1>. QED BY InitSenders, NextSenders, PTL DEF Spec

\* A held request that was not answered is in the queue or in the hands of exactly one
\* call that is about to answer it, whatever is resolved, drained or expired meanwhile.
THEOREM HoldsCanEnd == Spec => []EveryHoldHasOneSender
<1>1. SenderInv => EveryHoldHasOneSender BY DEF SenderInv
<1>. QED BY <1>1, SendersCorrect, PTL

\* What was decided is not shown as waiting any more.
THEOREM DecidedIsGone == Spec => []DecidedLeavesTheQueue
<1>1. SenderInv => DecidedLeavesTheQueue BY DEF SenderInv
<1>. QED BY <1>1, SendersCorrect, PTL
-----------------------------------------------------------------------------
(* Nothing unseen is forwarded while the gate is on *)

\* A forwarding on behalf of the switch, from the call that drains the queue to the
\* channel: at each station it can reach no flow but one that was being decided while the
\* gate was off or being switched off. A flow that has gone receives nothing.
Excused(r) == flow[r] = "gone" \/ r \in off
DrainsTheExcused ==
  \A o \in Operators : call[o] = "draining" /\ order[o].by = "switch" =>
    \A r \in Requests : Queued(r) => Excused(r)
SendsToTheExcused ==
  \A o \in Operators : order[o].by = "switch" =>
    \A r \in Requests : Contains(batch[o], r) => Excused(r)
AnsweredAreExcused == \A r \in Requests : answer[r].by = "switch" => Excused(r)
SwitchInv ==
  /\ SenderInv /\ DrainsTheExcused /\ SendsToTheExcused /\ AnsweredAreExcused
  /\ NothingUnseenWhileOn

\* A request in the queue is being decided, or its flow has gone.
LEMMA QueuedFlows ==
  ASSUME SenderInv, NEW r \in Requests, Queued(r) PROVE flow[r] \in InDecide \/ flow[r] = "gone"
BY DEF SenderInv, TypeOK, Unanswered, DecidedLeavesTheQueue, FlowPlaces, InDecide

LEMMA NothingIsNotTheSwitch == Nothing.by # "switch" /\ Nothing.what # Forward
BY DEF Nothing, Decision, Forward

LEMMA FlowSwitch ==
  ASSUME NEW r \in Requests, SwitchInv, SenderInv', Arrive(r) \/ FlowStep(r) \/ HangUp(r)
  PROVE  SwitchInv'
<1> USE NothingIsNotTheSwitch DEF queue, calls, flows, Decided
<1>. /\ waiting \in Seq(Requests) /\ flow \in [Requests -> FlowPlaces]
     /\ verdict \in [Requests -> Decisions \cup {Nothing}]
     /\ IsInjective(waiting)
  BY DEF SwitchInv, SenderInv, TypeOK, Unique
\* No flow step touches an answer or a call, gone flows stay gone and nobody leaves off.
<1>1. UNCHANGED <<answer, call, batch, order>> /\ off \subseteq off'
  BY DEF FlowStep, Arrive, Notify, Receive, Elapse, Forget, HangUp
<1>2. \A q \in Requests : Excused(q) => Excused(q)'
  <2>1. \A q \in Requests : flow[q] = "gone" => flow'[q] = "gone"
    BY DEF FlowStep, Arrive, Notify, Receive, Elapse, Forget, HangUp
  <2>. QED BY <1>1, <2>1 DEF Excused
<1>3. SendsToTheExcused' /\ AnsweredAreExcused'
  BY <1>1, <1>2 DEF SwitchInv, SendsToTheExcused, AnsweredAreExcused
<1>4. ASSUME \A q \in Requests : Queued(q)' => Queued(q) PROVE DrainsTheExcused'
  BY <1>1, <1>2, <1>4 DEF SwitchInv, DrainsTheExcused
<1>5. ASSUME UNCHANGED verdict PROVE NothingUnseenWhileOn'
  BY <1>1, <1>5 DEF SwitchInv, NothingUnseenWhileOn
<1>6. ASSUME NEW d, verdict' = [verdict EXCEPT ![r] = d],
             d.what = Forward => d.by # "switch" \/ r \in off'
      PROVE  NothingUnseenWhileOn'
  BY <1>1, <1>6 DEF SwitchInv, NothingUnseenWhileOn
<1>7. CASE Arrive(r) /\ (closed \/ ~enabled)
  <2>1. DrainsTheExcused' BY <1>4, <1>7 DEF Arrive, Queued
  <2>2. CASE closed
    <3>1. verdict' = [verdict EXCEPT ![r] = Decision(Drop, "shutdown")]
      BY <1>7, <2>2 DEF Arrive
    <3>2. Decision(Drop, "shutdown").by # "switch" BY DEF Decision
    <3>. QED BY <1>3, <1>6, <2>1, <3>1, <3>2 DEF SwitchInv
  <2>3. CASE ~closed
    <3>1. verdict' = [verdict EXCEPT ![r] = Decision(Forward, "switch")] /\ r \in off'
      BY <1>7, <2>3 DEF Arrive
    <3>. QED BY <1>3, <1>6, <2>1, <3>1 DEF SwitchInv
  <2>. QED BY <2>2, <2>3
<1>8. CASE Arrive(r) /\ ~(closed \/ ~enabled)
  <2>1. waiting' = Append(waiting, r) /\ UNCHANGED verdict BY <1>8 DEF Arrive
  <2>2. \A q \in Requests : Queued(q)' <=> Queued(q) \/ q = r
    BY <2>1, AppendContains DEF Queued
  <2>3. SwitchingOff => r \in off' BY <1>8 DEF Arrive
  <2>4. DrainsTheExcused'
    <3> SUFFICES ASSUME NEW o \in Operators, call[o] = "draining", order[o].by = "switch",
                        NEW q \in Requests, Queued(q)'
                 PROVE  Excused(q)'
      BY <1>1 DEF DrainsTheExcused
    <3>1. CASE q = r BY <2>3, <3>1 DEF SwitchingOff, Excused
    <3>2. CASE q # r BY <1>2, <2>2, <3>2 DEF SwitchInv, DrainsTheExcused
    <3>. QED BY <3>1, <3>2
  <2>. QED BY <1>3, <1>5, <2>1, <2>4 DEF SwitchInv
<1>9. CASE Notify(r)
  <2>1. UNCHANGED <<waiting, verdict>> BY <1>9 DEF Notify
  <2>. QED BY <1>3, <1>4, <1>5, <2>1 DEF SwitchInv, Queued
<1>10. CASE Receive(r)
  <2>1. /\ flow[r] = "held" /\ UNCHANGED <<waiting, off>>
        /\ verdict' = [verdict EXCEPT ![r] = answer[r]]
    BY <1>10 DEF Receive
  <2>2. answer[r].by # "switch" \/ r \in off'
    BY <2>1 DEF SwitchInv, AnsweredAreExcused, Excused
  <2>. QED BY <1>3, <1>4, <1>6, <2>1, <2>2 DEF SwitchInv, Queued
<1>11. CASE Elapse(r)
  <2>1. UNCHANGED <<waiting, verdict>> BY <1>11 DEF Elapse
  <2>. QED BY <1>3, <1>4, <1>5, <2>1 DEF SwitchInv, Queued
<1>12. CASE Forget(r)
  <2>1. verdict' = [verdict EXCEPT ![r] = Decision(OnTimeout, "deadline")]
    BY <1>12 DEF Forget
  <2>2. Decision(OnTimeout, "deadline").by # "switch" BY DEF Decision
  <2>3. \A q \in Requests : Queued(q)' => Queued(q)
    <3>1. CASE Queued(r)
      <4>1. PICK i \in 1 .. Len(waiting) : waiting' = RemoveAt(waiting, i)
        BY <1>12, <3>1, DomainOfSeq DEF Forget, Queued
      <4>. QED BY <4>1, RemoveAtContains DEF Queued
    <3>2. CASE ~Queued(r) BY <1>12, <3>2 DEF Forget, Queued
    <3>. QED BY <3>1, <3>2
  <2>. QED BY <1>3, <1>4, <1>6, <2>1, <2>2, <2>3 DEF SwitchInv
<1>13. CASE HangUp(r)
  <2>1. UNCHANGED <<waiting, verdict>> BY <1>13 DEF HangUp
  <2>. QED BY <1>3, <1>4, <1>5, <2>1 DEF SwitchInv, Queued
<1>. QED BY <1>7, <1>8, <1>9, <1>10, <1>11, <1>12, <1>13 DEF FlowStep

\* A call that takes nothing from the queue but what it may answer keeps the invariant.
LEMMA CallsSwitch ==
  ASSUME NEW o \in Operators, NEW place, NEW taken \in Seq(Requests), NEW d, SwitchInv,
         SenderInv', Calls(o, place, taken, d), UNCHANGED <<flow, answer, verdict>>,
         off \subseteq off',
         \A r \in Requests : Queued(r)' => Queued(r),
         place = "draining" /\ d.by = "switch" =>
           \A r \in Requests : Queued(r) => Excused(r)',
         d.by = "switch" => \A r \in Requests : Contains(taken, r) => Excused(r)'
  PROVE  SwitchInv'
<1>. /\ call \in [Operators -> {"idle", "draining", "sending"}]
     /\ batch \in [Operators -> Seq(Requests)]
     /\ order \in [Operators -> Decisions \cup {Nothing}]
  BY DEF SwitchInv, SenderInv, TypeOK
<1>1. /\ call' = [call EXCEPT ![o] = place] /\ batch' = [batch EXCEPT ![o] = taken]
      /\ order' = [order EXCEPT ![o] = d]
  BY DEF Calls
<1>2. \A q \in Requests : Excused(q) => Excused(q)' BY DEF Excused
<1>3. DrainsTheExcused'
  <2> SUFFICES ASSUME NEW p \in Operators, call'[p] = "draining", order'[p].by = "switch",
                      NEW r \in Requests, Queued(r)'
               PROVE  Excused(r)'
    BY DEF DrainsTheExcused
  <2>1. CASE p = o BY <1>1, <2>1
  <2>2. CASE p # o BY <1>1, <1>2, <2>2 DEF SwitchInv, DrainsTheExcused
  <2>. QED BY <2>1, <2>2
<1>4. SendsToTheExcused'
  <2> SUFFICES ASSUME NEW p \in Operators, order'[p].by = "switch",
                      NEW r \in Requests, Contains(batch'[p], r)
               PROVE  Excused(r)'
    BY DEF SendsToTheExcused
  <2>1. CASE p = o BY <1>1, <2>1
  <2>2. CASE p # o BY <1>1, <1>2, <2>2 DEF SwitchInv, SendsToTheExcused
  <2>. QED BY <2>1, <2>2
<1>5. AnsweredAreExcused' BY <1>2 DEF SwitchInv, AnsweredAreExcused
<1>6. NothingUnseenWhileOn' BY DEF SwitchInv, NothingUnseenWhileOn
<1>. QED BY <1>3, <1>4, <1>5, <1>6 DEF SwitchInv

LEMMA OperatorSwitch ==
  ASSUME NEW o \in Operators, SwitchInv, SenderInv', OperatorStep(o) PROVE SwitchInv'
<1> USE NothingIsNotTheSwitch DEF queue, calls, flows
<1>. /\ waiting \in Seq(Requests) /\ IsInjective(waiting) /\ <<>> \in Seq(Requests)
     /\ batch[o] \in Seq(Requests) /\ IsInjective(batch[o])
     /\ \A r : ~Contains(<<>>, r)
  BY DEF SwitchInv, SenderInv, TypeOK, Unique, Contains
<1>0. \A what : Decision(what, "operator").by # "switch" /\ Decision(what, "shutdown").by # "switch"
  BY DEF Decision
<1>1. ASSUME NEW i \in DOMAIN waiting, NEW what \in {Forward, Drop}, Resolve(o, i, what)
      PROVE  SwitchInv'
  <2>1. i \in 1 .. Len(waiting) /\ waiting[i] \in Requests BY DomainOfSeq, ElementOfSeq
  <2>. DEFINE taken == <<waiting[i]>>
  <2>2. taken \in Seq(Requests) BY <2>1
  <2>3. /\ Calls(o, "sending", taken, Decision(what, "operator"))
        /\ waiting' = RemoveAt(waiting, i) /\ UNCHANGED <<flow, answer, verdict, off>>
    BY <1>1 DEF Resolve
  <2>4. \A r \in Requests : Queued(r)' => Queued(r)
    BY <2>1, <2>3, RemoveAtContains DEF Queued
  <2>. HIDE DEF taken
  <2>. QED BY <1>0, <2>2, <2>3, <2>4, CallsSwitch
<1>2. ASSUME NEW what \in {Forward, Drop}, ResolveAll(o, what) PROVE SwitchInv'
  <2>1. /\ Calls(o, "draining", <<>>, Decision(what, "operator"))
        /\ UNCHANGED <<waiting, flow, answer, verdict, off>>
    BY <1>2 DEF ResolveAll
  <2>2. \A r \in Requests : Queued(r)' => Queued(r) BY <2>1 DEF Queued
  <2>. QED BY <1>0, <2>1, <2>2, CallsSwitch
<1>3. CASE Close(o)
  <2>1. /\ Calls(o, "draining", <<>>, Decision(Drop, "shutdown"))
        /\ UNCHANGED <<waiting, flow, answer, verdict, off>>
    BY <1>3 DEF Close
  <2>2. \A r \in Requests : Queued(r)' => Queued(r) BY <2>1 DEF Queued
  <2>. QED BY <1>0, <2>1, <2>2, CallsSwitch
<1>4. ASSUME NEW on \in BOOLEAN, SetEnabled(o, on) PROVE SwitchInv'
  <2>1. CASE on
    <3>1. UNCHANGED <<waiting, flow, answer, verdict, call, batch, order, off>>
      BY <1>4, <2>1 DEF SetEnabled
    <3>. QED BY <3>1 DEF SwitchInv, DrainsTheExcused, SendsToTheExcused, AnsweredAreExcused,
                         NothingUnseenWhileOn, Excused, Queued
  <2>2. CASE ~on
    <3>1. /\ Calls(o, "draining", <<>>, Decision(Forward, "switch"))
          /\ UNCHANGED <<waiting, flow, answer, verdict>>
          /\ off' = off \cup {r \in Requests : flow[r] \in InDecide}
      BY <1>4, <2>2 DEF SetEnabled
    <3>2. \A r \in Requests : Queued(r) => Excused(r)'
      BY <3>1, QueuedFlows DEF SwitchInv, Excused
    <3>3. \A r \in Requests : Queued(r)' => Queued(r) BY <3>1 DEF Queued
    <3>. QED BY <3>1, <3>2, <3>3, CallsSwitch
  <2>. QED BY <2>1, <2>2
<1>5. CASE Drain(o)
  <2>1. /\ call[o] = "draining" /\ waiting' = <<>> /\ UNCHANGED <<flow, answer, verdict, off>>
        /\ Calls(o, IF waiting = <<>> THEN "idle" ELSE "sending", waiting,
                 IF waiting = <<>> THEN Nothing ELSE order[o])
    BY <1>5 DEF Drain
  <2>2. \A r \in Requests : Queued(r)' => Queued(r) BY <2>1 DEF Queued
  <2>3. CASE waiting = <<>>
    <3>1. Calls(o, "idle", waiting, Nothing) BY <2>1, <2>3
    <3>. QED BY <2>1, <2>2, <3>1, CallsSwitch
  <2>4. CASE waiting # <<>>
    <3>1. Calls(o, "sending", waiting, order[o]) BY <2>1, <2>4
    <3>2. order[o].by = "switch" => \A r \in Requests : Contains(waiting, r) => Excused(r)'
      BY <2>1 DEF SwitchInv, DrainsTheExcused, Queued, Excused
    <3>. QED BY <2>1, <2>2, <3>1, <3>2, CallsSwitch
  <2>. QED BY <2>3, <2>4
<1>6. CASE Send(o)
  <2>. DEFINE h == Head(batch[o])
  <2>. DEFINE rest == Tail(batch[o])
  <2>0. batch[o] # <<>> BY <1>6 DEF Send, SwitchInv, SenderInv, TypeOK
  <2>1. /\ h \in Requests /\ rest \in Seq(Requests) /\ Contains(batch[o], h)
        /\ \A r : Contains(rest, r) <=> Contains(batch[o], r) /\ r # h
    BY <2>0, TailContains
  <2>2. /\ UNCHANGED <<waiting, flow, verdict, off>>
        /\ answer' = IF flow[h] \in InDecide THEN [answer EXCEPT ![h] = order[o]] ELSE answer
        /\ Calls(o, IF rest = <<>> THEN "idle" ELSE "sending", rest,
                 IF rest = <<>> THEN Nothing ELSE order[o])
    BY <1>6 DEF Send
  <2>. HIDE DEF h, rest
  <2>. DEFINE e == IF rest = <<>> THEN Nothing ELSE order[o]
              place == IF rest = <<>> THEN "idle" ELSE "sending"
  <2>3. /\ e.by = "switch" => order[o].by = "switch" /\ place # "draining" BY NothingIsNotTheSwitch
  <2>4. /\ call' = [call EXCEPT ![o] = place] /\ batch' = [batch EXCEPT ![o] = rest]
        /\ order' = [order EXCEPT ![o] = e]
    BY <2>2 DEF Calls
  <2>5. place # "draining" OBVIOUS
  <2>. HIDE DEF e, place
  <2>6. \A r \in Requests : (Excused(r)' <=> Excused(r)) /\ (Queued(r)' <=> Queued(r))
    BY <2>2 DEF Excused, Queued
  <2>7. /\ call \in [Operators -> {"idle", "draining", "sending"}]
        /\ batch \in [Operators -> Seq(Requests)]
        /\ order \in [Operators -> Decisions \cup {Nothing}]
        /\ answer \in [Requests -> Decisions \cup {Nothing}]
    BY DEF SwitchInv, SenderInv, TypeOK
  <2>8. DrainsTheExcused'
    <3> SUFFICES ASSUME NEW p \in Operators, call'[p] = "draining", order'[p].by = "switch",
                        NEW r \in Requests, Queued(r)'
                 PROVE  Excused(r)'
      BY DEF DrainsTheExcused
    <3>1. p # o BY <2>4, <2>5, <2>7
    <3>. QED BY <2>4, <2>6, <2>7, <3>1 DEF SwitchInv, DrainsTheExcused
  <2>9. SendsToTheExcused'
    <3> SUFFICES ASSUME NEW p \in Operators, order'[p].by = "switch",
                        NEW r \in Requests, Contains(batch'[p], r)
                 PROVE  Excused(r)'
      BY DEF SendsToTheExcused
    <3>1. order[p].by = "switch" /\ Contains(batch[p], r) BY <2>1, <2>3, <2>4, <2>7
    <3>. QED BY <2>6, <3>1 DEF SwitchInv, SendsToTheExcused
  <2>10. AnsweredAreExcused'
    <3> SUFFICES ASSUME NEW r \in Requests, answer'[r].by = "switch" PROVE Excused(r)'
      BY DEF AnsweredAreExcused
    <3>1. CASE r = h /\ flow[h] \in InDecide
      <4>1. order[o].by = "switch" BY <2>2, <2>7, <3>1
      <4>. QED BY <2>1, <2>6, <3>1, <4>1 DEF SwitchInv, SendsToTheExcused
    <3>2. CASE ~(r = h /\ flow[h] \in InDecide)
      <4>1. answer'[r] = answer[r] BY <2>2, <2>7, <3>2
      <4>. QED BY <2>6, <4>1 DEF SwitchInv, AnsweredAreExcused
    <3>. QED BY <3>1, <3>2
  <2>11. NothingUnseenWhileOn' BY <2>2 DEF SwitchInv, NothingUnseenWhileOn
  <2>. QED BY <2>8, <2>9, <2>10, <2>11 DEF SwitchInv
<1>. QED BY <1>1, <1>2, <1>3, <1>4, <1>5, <1>6 DEF OperatorStep, CallStep

LEMMA NextSwitch == SwitchInv /\ [Next]_vars => SwitchInv'
<1> SUFFICES ASSUME SwitchInv, [Next]_vars PROVE SwitchInv'
  OBVIOUS
<1>. SenderInv' BY NextSenders DEF SwitchInv
<1>1. ASSUME NEW r \in Requests, Arrive(r) \/ FlowStep(r) \/ HangUp(r) PROVE SwitchInv'
  BY <1>1, FlowSwitch
<1>2. ASSUME NEW o \in Operators, OperatorStep(o) PROVE SwitchInv' BY <1>2, OperatorSwitch
<1>3. ASSUME UNCHANGED <<waiting, flow, answer, verdict, call, batch, order, off>>
      PROVE  SwitchInv'
  BY <1>3 DEF SwitchInv, DrainsTheExcused, SendsToTheExcused, AnsweredAreExcused,
              NothingUnseenWhileOn, Excused, Queued
<1>4. ASSUME NEW w \in Watchers, Check(w) \/ Register(w) PROVE SwitchInv'
  BY <1>3, <1>4 DEF Check, Register, queue, flows, calls
<1>5. CASE UNCHANGED vars BY <1>3, <1>5 DEF vars, queue, flows, calls
<1>. QED BY <1>1, <1>2, <1>4, <1>5 DEF Next, OperatorStep

LEMMA InitSwitch == Init => SwitchInv
<1> SUFFICES ASSUME Init PROVE SwitchInv
  OBVIOUS
<1>1. /\ \A o \in Operators : order[o] = Nothing
      /\ \A r \in Requests : answer[r] = Nothing /\ verdict[r] = Nothing
  BY DEF Init
<1>. QED BY <1>1, InitSenders, NothingIsNotTheSwitch
     DEF SwitchInv, DrainsTheExcused, SendsToTheExcused, AnsweredAreExcused, NothingUnseenWhileOn

\* However many threads switch the gate off and on while requests arrive, are resolved,
\* expire and hang up: the switch forwards a request only if the gate was off, or was
\* being switched off, while that request was being decided.
THEOREM NothingUnseen == Spec => []NothingUnseenWhileOn
<1>1. SwitchInv => NothingUnseenWhileOn BY DEF SwitchInv
<1>. QED BY <1>1, InitSwitch, NextSwitch, PTL DEF Spec
=============================================================================
