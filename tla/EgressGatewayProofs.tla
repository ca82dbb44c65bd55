------------------------ MODULE EgressGatewayProofs ------------------------
(* Proofs about EgressGateway for every set of leases, connections and           *)
(* destinations, every cap and every bound.                                      *)
EXTENDS EgressGateway, FiniteSetTheorems, TLAPS

USE GatewayAssumption

-----------------------------------------------------------------------------
(* What a step of serve changes *)

\* A connection that is past its authentication has a lease, past its request a
\* destination, and a target while it dials.
Assigned ==
  \A c \in Conns :
    /\ pc[c] \in Open \ {"greeting"} => who[c] \in Leases
    /\ pc[c] \in Open \ {"greeting", "request"} => dest[c] \in Dests
    /\ pc[c] \in {"dialing", "asking"} => target[c] \in Dests

\* The addresses that a lease with block_internal may reach.
Public == Addresses \ Internal

\* With block_internal what was asked for, is dialled, and may be dialled next is public.
\* Before its authentication a connection has asked for nothing.
PublicOnly ==
  \A c \in Conns :
    /\ pc[c] \in {"waiting", "greeting"} => asked[c] = {}
    /\ who[c] \in BlockInternal =>
         /\ asked[c] \subseteq Public
         /\ pc[c] \in {"dialing", "asking"} => target[c] \in Public /\ left[c] \subseteq Public

ServeInv == TypeOK /\ Assigned /\ PublicOnly

\* A connection goes on within its slot, gives it back, takes one, or is turned away.
SlotStep(c) ==
  \/ /\ pc[c] \in Open \ {"open"} /\ (\E place \in Open \ {"greeting"} : Goes(c, place))
     /\ UNCHANGED permits
  \/ pc[c] \in Open /\ Close(c)
  \/ pc[c] = "waiting" /\ permits # 0 /\ Goes(c, "greeting") /\ permits' = permits - 1
  \/ pc[c] = "waiting" /\ Goes(c, "closed") /\ UNCHANGED permits

\* Where a connection dials next, if this step says so: only public addresses under
\* block_internal.
Routes(c) ==
  \E a \in Dests, rest \in SUBSET Addresses :
    /\ target' = [target EXCEPT ![c] = a] /\ left' = [left EXCEPT ![c] = rest]
    /\ who[c] \in BlockInternal => a \in Public /\ rest \subseteq Public

\* What is counted, if this step counts: a connection that was not, as done or open.
Counts(c) ==
  \E o \in Outcomes :
    /\ Record(c, dest'[c], o) /\ UNCHANGED who /\ dest'[c] \in Dests
    /\ pc[c] \in Open \ {"greeting", "open"} /\ pc'[c] \in {"open", "closed"}

\* One connection's step, told by what it may change.
Step(c) ==
  /\ UNCHANGED <<life, summary>> /\ SlotStep(c)
  /\ \/ who' = who /\ ~(pc[c] = "greeting" /\ pc'[c] \in Open)
     \/ /\ pc[c] = "greeting" /\ pc'[c] = "request"
        /\ \E l \in Leases : who' = [who EXCEPT ![c] = l]
  /\ \/ dest' = dest /\ ~(pc[c] = "request" /\ pc'[c] \in Open)
     \/ pc[c] = "request" /\ \E d \in Dests : dest' = [dest EXCEPT ![c] = d]
  /\ \/ /\ UNCHANGED <<target, left>>
        /\ pc'[c] = "dialing" => pc[c] = "dialing"
        /\ pc'[c] = "asking" => pc[c] = "dialing"
     \/ Routes(c) /\ pc[c] \in {"request", "resolving", "asking"} /\ pc'[c] = "dialing"
  /\ \/ asked' = asked
     \/ pc[c] = "dialing" /\ asked' = [asked EXCEPT ![c] = @ \cup {target[c]}]
  /\ UNCHANGED <<log, counted>> \/ Counts(c)

\* A connection that ends with a verdict on its destination.
LEMMA FailStep ==
  ASSUME ServeInv, NEW c \in Conns, NEW o \in {"refused", "failed"}, Fail(c, dest'[c], o),
         pc[c] \in Open \ {"greeting", "open"}, UNCHANGED <<life, summary, who, asked>>,
         \/ dest' = dest /\ pc[c] # "request"
         \/ pc[c] = "request" /\ \E d \in Dests : dest' = [dest EXCEPT ![c] = d]
  PROVE  Step(c)
<1>. USE DEF ServeInv, TypeOK
<1>1. pc' = [pc EXCEPT ![c] = "closed"] /\ permits' = permits + 1 /\ UNCHANGED <<target, left>>
      /\ Record(c, dest'[c], o)
  BY DEF Fail, Close, Goes
<1>2. pc'[c] = "closed" BY <1>1
<1>3. SlotStep(c) BY <1>1 DEF SlotStep, Close, Goes
<1>4. dest'[c] \in Dests
  <2>1. CASE dest' = dest /\ pc[c] # "request" BY <2>1 DEF Assigned, Open
  <2>2. CASE \E d \in Dests : dest' = [dest EXCEPT ![c] = d] BY <2>2
  <2>. QED BY <2>1, <2>2
<1>5. Counts(c) BY <1>1, <1>2, <1>4 DEF Counts, Outcomes
<1>. QED BY <1>1, <1>2, <1>3, <1>5 DEF Step, Open

\* Vetting leads to a dial of a public address, with public ones left, or to the end.
LEMMA VetSteps ==
  ASSUME TypeOK, NEW c \in Conns, NEW d \in Dests, NEW found \in SUBSET Addresses, Vet(c, d, found)
  PROVE  \/ /\ Goes(c, "dialing") /\ UNCHANGED <<permits, log, counted>>
            /\ \E a \in Public, rest \in SUBSET Public :
                 target' = [target EXCEPT ![c] = a] /\ left' = [left EXCEPT ![c] = rest]
         \/ \E o \in {"refused", "failed"} : Fail(c, d, o)
<1>1. Vetted(found, who[c]) \subseteq Public BY DEF Vetted, Public
<1>2. Preferred(Vetted(found, who[c])) \subseteq Vetted(found, who[c]) BY DEF Preferred
<1>. QED BY <1>1, <1>2 DEF Vet

\* Vetting, from a place where serve does it.
LEMMA VetStep ==
  ASSUME ServeInv, NEW c \in Conns, NEW found \in SUBSET Addresses, Vet(c, dest'[c], found),
         pc[c] \in {"request", "resolving"}, UNCHANGED <<life, summary, who, asked>>,
         dest'[c] \in Dests,
         \/ dest' = dest /\ pc[c] = "resolving"
         \/ pc[c] = "request" /\ \E d \in Dests : dest' = [dest EXCEPT ![c] = d]
  PROVE  Step(c)
<1>. USE DEF ServeInv, TypeOK
<1>1. CASE \E o \in {"refused", "failed"} : Fail(c, dest'[c], o) BY <1>1, FailStep DEF Open
<1>2. CASE /\ Goes(c, "dialing") /\ UNCHANGED <<permits, log, counted>>
           /\ \E a \in Public, rest \in SUBSET Public :
                target' = [target EXCEPT ![c] = a] /\ left' = [left EXCEPT ![c] = rest]
  <2>1. pc'[c] = "dialing" BY <1>2 DEF Goes
  <2>2. Routes(c) BY <1>2 DEF Routes, Public, Dests
  <2>3. SlotStep(c) BY <1>2 DEF SlotStep, Open
  <2>. QED BY <1>2, <2>1, <2>2, <2>3 DEF Step
<1>. QED BY <1>1, <1>2, VetSteps

LEMMA ServeStep == ASSUME ServeInv, NEW c \in Conns, Serve(c) PROVE Step(c)
<1>. USE DEF ServeInv, TypeOK
<1>1. CASE Accept(c) BY <1>1 DEF Accept, Step, SlotStep, Goes, counts, history, Open
<1>2. CASE \E l \in Leases : Authenticate(c, l)
  BY <1>2 DEF Authenticate, Step, SlotStep, Goes, Close, counts, history, Open
<1>3. CASE GivesUp(c) BY <1>3 DEF GivesUp, Step, SlotStep, Goes, Close, counts, history, Open
<1>4. CASE \E d \in Dests : Request(c, d)
  <2>1. PICK d \in Dests : Request(c, d) BY <1>4
  <2>2. /\ pc[c] = "request" /\ dest' = [dest EXCEPT ![c] = d] /\ dest'[c] = d
        /\ UNCHANGED <<life, summary, who, asked>>
    BY <2>1 DEF Request
  <2>3. CASE Close(c) /\ UNCHANGED <<target, left, log, counted>>
    BY <2>2, <2>3 DEF Step, SlotStep, Goes, Close, Open
  <2>4. CASE /\ who[c] \notin BlockInternal /\ Goes(c, "dialing")
             /\ target' = [target EXCEPT ![c] = d] /\ UNCHANGED <<permits, left, log, counted>>
    <3>1. left' = [left EXCEPT ![c] = left[c]] /\ left[c] \in SUBSET Addresses BY <2>4
    <3>2. Routes(c) BY <2>4, <3>1 DEF Routes
    <3>. QED BY <2>2, <2>4, <3>2 DEF Step, SlotStep, Goes, Open
  <2>5. CASE d \in Addresses /\ Vet(c, d, {d})
    <3>1. {d} \in SUBSET Addresses /\ dest'[c] \in Dests BY <2>2, <2>5
    <3>. QED BY <2>2, <2>5, <3>1, VetStep
  <2>6. CASE Goes(c, "resolving") /\ UNCHANGED <<permits, target, left, log, counted>>
    BY <2>2, <2>6 DEF Step, SlotStep, Goes, Open
  <2>. QED BY <2>1, <2>3, <2>4, <2>5, <2>6 DEF Request
<1>5. CASE Resolve(c)
  <2>1. /\ pc[c] = "resolving" /\ UNCHANGED <<life, who, dest, summary, asked>>
        /\ dest[c] \in Dests
    BY <1>5 DEF Resolve, Assigned, Open
  <2>2. CASE \E found \in SUBSET Addresses : Vet(c, dest[c], found) BY <2>1, <2>2, VetStep
  <2>3. CASE Fail(c, dest[c], "failed") BY <2>1, <2>3, FailStep DEF Open
  <2>. QED BY <1>5, <2>2, <2>3 DEF Resolve
<1>6. CASE Ask(c) BY <1>6 DEF Ask, Step, SlotStep, Goes, Close, counts, Open
<1>7. CASE UpstreamFails(c) BY <1>7, FailStep DEF UpstreamFails, Open
<1>8. CASE AddressFails(c)
  <2>1. pc[c] = "asking" /\ UNCHANGED <<life, who, dest, summary, asked>>
    BY <1>8 DEF AddressFails
  <2>2. CASE Fail(c, dest[c], "failed") BY <2>1, <2>2, FailStep DEF Open
  <2>3. CASE /\ \E a \in Preferred(left[c]) : /\ target' = [target EXCEPT ![c] = a]
                                              /\ left' = [left EXCEPT ![c] = @ \ {a}]
             /\ Goes(c, "dialing") /\ UNCHANGED <<permits, log, counted>>
    <3>1. PICK a \in Preferred(left[c]) : /\ target' = [target EXCEPT ![c] = a]
                                          /\ left' = [left EXCEPT ![c] = left[c] \ {a}]
      BY <2>3
    <3>2. a \in left[c] /\ left[c] \subseteq Addresses BY DEF Preferred
    <3>3. who[c] \in BlockInternal => left[c] \subseteq Public BY <2>1 DEF PublicOnly
    <3>4. Routes(c)
      <4>1. a \in Dests /\ left[c] \ {a} \in SUBSET Addresses BY <3>2 DEF Dests
      <4>. QED BY <3>1, <3>2, <3>3, <4>1 DEF Routes
    <3>5. pc'[c] = "dialing" /\ SlotStep(c) BY <2>1, <2>3 DEF SlotStep, Goes, Open
    <3>. QED BY <2>1, <2>3, <3>4, <3>5 DEF Step
  <2>. QED BY <1>8, <2>2, <2>3 DEF AddressFails
<1>9. CASE Opens(c)
  <2>1. /\ pc[c] = "asking" /\ Goes(c, "open") /\ Record(c, dest[c], "ok")
        /\ UNCHANGED <<life, permits, who, dest, target, left, summary, asked>>
    BY <1>9 DEF Opens
  <2>2. Counts(c) BY <2>1 DEF Counts, Goes, Open, Outcomes, Assigned
  <2>. QED BY <2>1, <2>2 DEF Step, SlotStep, Goes, Open
<1>10. CASE Ends(c) BY <1>10 DEF Ends, Step, SlotStep, Goes, Close, counts, history, Open
<1>11. CASE Cut(c) BY <1>11 DEF Cut, Step, SlotStep, Goes, Close, counts, history, Open
<1>. QED
  BY <1>1, <1>2, <1>3, <1>4, <1>5, <1>6, <1>7, <1>8, <1>9, <1>10, <1>11 DEF Serve

-----------------------------------------------------------------------------
(* Types, and what may be asked for *)

LEMMA HalfTheRest == ASSUME NEW n \in Nat, NEW m \in Nat, n > m PROVE (n - m) \div 2 \in Nat
<1>1. n - m \in Nat OBVIOUS
<1>. QED BY <1>1

LEMMA CapType == Cap \in Nat
<1>1. /\ OpenFiles \in Nat /\ ReservedFds \in Nat
      /\ MinConnections \in Nat /\ MaxConnections \in Nat
  BY GatewayAssumption
<1>2. OpenFiles > ReservedFds => (OpenFiles - ReservedFds) \div 2 \in Nat BY <1>1, HalfTheRest
<1>. QED BY <1>1, <1>2 DEF Cap, ConnectionCap

LEMMA InitServe == Init => ServeInv
<1>. SUFFICES ASSUME Init PROVE ServeInv OBVIOUS
<1>. USE DEF Init
<1>1. Cap \in Nat BY CapType
<1>2. NothingYet \in LogType BY DEF NothingYet, LogType, Outcomes
<1>. QED BY <1>1, <1>2 DEF ServeInv, TypeOK, Assigned, PublicOnly, Places, Open, Outcomes

\* A log is one after another connection.
LEMMA LoggedType ==
  ASSUME NEW was \in LogType, NEW d \in Dests, NEW o \in Outcomes
  PROVE  Logged(was, d, o) \in LogType
<1>1. [was.hosts EXCEPT ![d][o] = @ + 1] \in [Dests -> [Outcomes -> Nat]]
  BY DEF LogType
<1>. QED BY <1>1 DEF Logged, LogType

LEMMA RecordType ==
  ASSUME ServeInv, NEW c \in Conns, Step(c), Counts(c)
  PROVE  /\ who[c] \in Leases /\ dest'[c] \in Dests
         /\ log' \in [Leases -> LogType] /\ counted' \in [Conns -> Outcomes \cup {"not yet"}]
<1>. USE DEF ServeInv, TypeOK
<1>1. PICK o \in Outcomes : Record(c, dest'[c], o) BY DEF Counts
<1>2. who[c] \in Leases BY DEF Counts, Assigned
<1>3. dest'[c] \in Dests BY DEF Counts
<1>4. Logged(log[who[c]], dest'[c], o) \in LogType BY <1>2, <1>3, LoggedType
<1>. QED BY <1>1, <1>2, <1>3, <1>4 DEF Record

\* Where the slot of a connection says it is.
LEMMA SlotPlaces ==
  ASSUME TypeOK, NEW c \in Conns, SlotStep(c)
  PROVE  /\ pc' \in [Conns -> Places] /\ permits' \in Nat
         /\ \A d \in Conns \ {c} : pc'[d] = pc[d]
         /\ pc[c] \in Open \cup {"waiting"} /\ pc'[c] # "waiting"
         /\ pc'[c] \in Open => IF pc'[c] = "greeting" THEN pc[c] = "waiting" ELSE pc[c] \in Open
<1>. USE DEF TypeOK
<1>1. pc \in [Conns -> Places] /\ permits \in Nat OBVIOUS
<1>2. ASSUME NEW place \in Places, Goes(c, place)
      PROVE  /\ pc' \in [Conns -> Places] /\ pc'[c] = place
             /\ \A d \in Conns \ {c} : pc'[d] = pc[d]
  BY <1>1, <1>2 DEF Goes
<1>3. Open \subseteq Places /\ "closed" \in Places /\ "greeting" \in Open /\ "waiting" \notin Open
      /\ "closed" \notin Open
  BY DEF Open, Places
<1>4. CASE /\ pc[c] \in Open \ {"open"} /\ (\E place \in Open \ {"greeting"} : Goes(c, place))
           /\ UNCHANGED permits
  <2>1. PICK place \in Open \ {"greeting"} : Goes(c, place) BY <1>4
  <2>2. permits' \in Nat BY ONLY <1>1, <1>4
  <2>3. /\ pc' \in [Conns -> Places] /\ pc'[c] = place
        /\ \A d \in Conns \ {c} : pc'[d] = pc[d]
    BY <1>2, <1>3, <2>1
  <2>. QED BY <1>3, <1>4, <2>1, <2>2, <2>3
<1>5. CASE pc[c] \in Open /\ Close(c)
  <2>1. permits' = permits + 1 /\ Goes(c, "closed") BY <1>5 DEF Close
  <2>2. permits' \in Nat BY ONLY <1>1, <2>1
  <2>. QED BY <1>2, <1>3, <1>5, <2>1, <2>2
<1>6. CASE pc[c] = "waiting" /\ permits # 0 /\ Goes(c, "greeting") /\ permits' = permits - 1
  <2>1. permits' \in Nat BY ONLY <1>1, <1>6
  <2>. QED BY <1>2, <1>3, <1>6, <2>1
<1>7. CASE pc[c] = "waiting" /\ Goes(c, "closed") /\ UNCHANGED permits
  BY <1>1, <1>2, <1>3, <1>7
<1>. QED BY <1>4, <1>5, <1>6, <1>7 DEF SlotStep

\* The variables of the other connections stay.
LEMMA StepTypes ==
  ASSUME ServeInv, NEW c \in Conns, Step(c)
  PROVE  /\ TypeOK'
         /\ \A d \in Conns \ {c} :
              /\ pc'[d] = pc[d] /\ who'[d] = who[d] /\ dest'[d] = dest[d]
              /\ target'[d] = target[d] /\ left'[d] = left[d] /\ asked'[d] = asked[d]
              /\ counted'[d] = counted[d]
<1>. USE DEF ServeInv, TypeOK
<1>1. SlotStep(c) BY DEF Step
<1>2. /\ pc' \in [Conns -> Places] /\ permits' \in Nat
      /\ \A d \in Conns \ {c} : pc'[d] = pc[d]
  BY <1>1, SlotPlaces
<1>3. /\ who' \in [Conns -> Leases \cup {NoLease}]
      /\ \A d \in Conns \ {c} : who'[d] = who[d]
  BY DEF Step
<1>4. /\ dest' \in [Conns -> Dests \cup {NoTarget}]
      /\ \A d \in Conns \ {c} : dest'[d] = dest[d]
  <2>1. dest \in [Conns -> Dests \cup {NoTarget}] OBVIOUS
  <2>2. CASE dest' = dest BY <2>1, <2>2
  <2>3. CASE \E d \in Dests : dest' = [dest EXCEPT ![c] = d]
    <3>1. PICK d \in Dests : dest' = [dest EXCEPT ![c] = d] BY <2>3
    <3>. QED BY ONLY <2>1, <3>1
  <2>. QED BY <2>2, <2>3 DEF Step
<1>5. /\ target' \in [Conns -> Dests \cup {NoTarget}] /\ left' \in [Conns -> SUBSET Addresses]
      /\ \A d \in Conns \ {c} : target'[d] = target[d] /\ left'[d] = left[d]
  <2>1. CASE UNCHANGED <<target, left>> BY <2>1
  <2>2. CASE Routes(c)
    <3>1. PICK a \in Dests, rest \in SUBSET Addresses :
            target' = [target EXCEPT ![c] = a] /\ left' = [left EXCEPT ![c] = rest]
      BY <2>2 DEF Routes
    <3>. QED BY <3>1
  <2>. QED BY <2>1, <2>2 DEF Step
<1>6. /\ asked' \in [Conns -> SUBSET Dests]
      /\ \A d \in Conns \ {c} : asked'[d] = asked[d]
  <2>1. CASE asked' = asked BY <2>1
  <2>2. CASE pc[c] = "dialing" /\ asked' = [asked EXCEPT ![c] = @ \cup {target[c]}]
    <3>1. target[c] \in Dests BY <2>2 DEF Assigned
    <3>2. asked[c] \cup {target[c]} \in SUBSET Dests BY <3>1
    <3>. QED BY <2>2, <3>2
  <2>. QED BY <2>1, <2>2 DEF Step
<1>7. log' \in [Leases -> LogType] /\ counted' \in [Conns -> Outcomes \cup {"not yet"}]
      /\ \A d \in Conns \ {c} : counted'[d] = counted[d]
  <2>1. CASE UNCHANGED <<log, counted>> BY <2>1
  <2>2. CASE Counts(c)
    <3>1. \E o \in Outcomes : counted' = [counted EXCEPT ![c] = o] BY <2>2 DEF Counts, Record
    <3>. QED BY <2>2, <3>1, RecordType
  <2>. QED BY <2>1, <2>2 DEF Step
<1>8. life' = life /\ summary' = summary BY DEF Step
<1>. QED BY <1>2, <1>3, <1>4, <1>5, <1>6, <1>7, <1>8

LEMMA StepServe == ASSUME ServeInv, NEW c \in Conns, Step(c) PROVE ServeInv'
<1>. USE DEF ServeInv
<1>1. SlotStep(c) BY DEF Step
<1>2. /\ pc[c] \in Open \cup {"waiting"} /\ pc'[c] # "waiting"
      /\ pc'[c] \in Open => IF pc'[c] = "greeting" THEN pc[c] = "waiting" ELSE pc[c] \in Open
  BY <1>1, SlotPlaces
<1>3. pc'[c] \in Open \ {"greeting"} => who'[c] \in Leases
  <2>1. CASE who' = who /\ ~(pc[c] = "greeting" /\ pc'[c] \in Open) BY <1>2, <2>1 DEF Assigned
  <2>2. CASE \E l \in Leases : who' = [who EXCEPT ![c] = l] BY <2>2 DEF TypeOK
  <2>. QED BY <2>1, <2>2 DEF Step
<1>4. pc'[c] \in Open \ {"greeting", "request"} => dest'[c] \in Dests
  <2>1. CASE dest' = dest /\ ~(pc[c] = "request" /\ pc'[c] \in Open)
    <3>. SUFFICES ASSUME pc'[c] \in Open \ {"greeting", "request"} PROVE dest[c] \in Dests BY <2>1
    <3>1. pc[c] \in Open /\ pc[c] # "request" BY <1>2, <2>1
    <3>2. pc[c] # "greeting" BY DEF Step
    <3>. QED BY <3>1, <3>2 DEF Assigned
  <2>2. CASE \E d \in Dests : dest' = [dest EXCEPT ![c] = d] BY <2>2 DEF TypeOK
  <2>. QED BY <2>1, <2>2 DEF Step
<1>5. pc'[c] \in {"dialing", "asking"} =>
        /\ target'[c] \in Dests
        /\ who'[c] \in BlockInternal => target'[c] \in Public /\ left'[c] \subseteq Public
  <2>. SUFFICES ASSUME pc'[c] \in {"dialing", "asking"}
                PROVE  /\ target'[c] \in Dests
                       /\ who'[c] \in BlockInternal =>
                            target'[c] \in Public /\ left'[c] \subseteq Public
    OBVIOUS
  <2>1. who' = who BY DEF Step
  <2>2. CASE /\ UNCHANGED <<target, left>>
             /\ pc'[c] = "dialing" => pc[c] = "dialing"
             /\ pc'[c] = "asking" => pc[c] = "dialing"
    BY <2>1, <2>2 DEF Assigned, PublicOnly
  <2>3. CASE Routes(c)
    <3>1. PICK a \in Dests, rest \in SUBSET Addresses :
            /\ target' = [target EXCEPT ![c] = a] /\ left' = [left EXCEPT ![c] = rest]
            /\ who[c] \in BlockInternal => a \in Public /\ rest \subseteq Public
      BY <2>3 DEF Routes
    <3>2. target'[c] = a /\ left'[c] = rest BY <3>1 DEF TypeOK
    <3>. QED BY <2>1, <3>1, <3>2
  <2>. QED BY <2>2, <2>3 DEF Step
<1>6. /\ pc'[c] \in {"waiting", "greeting"} => asked'[c] = {}
      /\ who'[c] \in BlockInternal => asked'[c] \subseteq Public
  <2>1. CASE asked' = asked
    <3>1. pc'[c] \in {"waiting", "greeting"} => pc[c] = "waiting" BY <1>2 DEF Open
    <3>2. CASE who' = who BY <2>1, <3>1, <3>2 DEF PublicOnly
    <3>3. CASE pc[c] = "greeting" BY <2>1, <3>3 DEF PublicOnly
    <3>. QED BY <3>2, <3>3 DEF Step
  <2>2. CASE pc[c] = "dialing" /\ asked' = [asked EXCEPT ![c] = @ \cup {target[c]}]
    <3>1. asked'[c] = asked[c] \cup {target[c]} BY <2>2 DEF TypeOK
    <3>2. who' = who BY <2>2 DEF Step
    <3>3. pc'[c] \notin {"waiting", "greeting"} BY <1>2, <2>2 DEF Open
    <3>. QED BY <2>2, <3>1, <3>2, <3>3 DEF PublicOnly
  <2>. QED BY <2>1, <2>2 DEF Step
<1>7. TypeOK' BY StepTypes
<1>8. Assigned' BY <1>3, <1>4, <1>5, StepTypes DEF Assigned
<1>9. PublicOnly' BY <1>5, <1>6, StepTypes DEF PublicOnly
<1>. QED BY <1>7, <1>8, <1>9

\* What is done to a lease touches no connection.
LEMMA LeaseSteps ==
  ASSUME ServeInv, NEW l \in Leases, Lease(l) \/ TakeSummary(l) \/ Remove(l) \/ End(l)
  PROVE  /\ UNCHANGED <<permits, pc, who, dest, target, left, log, asked, counted>>
         /\ ServeInv'
<1>. USE DEF ServeInv
<1>1. UNCHANGED <<permits, pc, who, dest, target, left, log, asked, counted>>
  BY DEF Lease, TakeSummary, Remove, End, conns, counts, history
<1>2. life' \in [Leases -> {"new", "held", "removed", "ended"}]
  BY DEF Lease, TakeSummary, Remove, End, TypeOK
<1>3. summary' \in [Leases -> SUBSET LogType]
  <2>1. CASE summary' = summary BY <2>1 DEF TypeOK
  <2>2. CASE summary' = [summary EXCEPT ![l] = {log[l]}]
    <3>1. log \in [Leases -> LogType] /\ summary \in [Leases -> SUBSET LogType] BY DEF TypeOK
    <3>2. {log[l]} \in SUBSET LogType BY <3>1
    <3>. QED BY <2>2, <3>1, <3>2
  <2>. QED BY <2>1, <2>2 DEF Lease, TakeSummary, Remove, End, counts
<1>4. TypeOK' BY <1>1, <1>2, <1>3 DEF TypeOK
<1>5. Assigned' /\ PublicOnly' BY <1>1 DEF Assigned, PublicOnly
<1>. QED BY <1>1, <1>4, <1>5

LEMMA NextServe == ServeInv /\ [Next]_vars => ServeInv'
<1>. SUFFICES ASSUME ServeInv, [Next]_vars PROVE ServeInv' OBVIOUS
<1>1. CASE UNCHANGED vars
  BY <1>1 DEF vars, conns, counts, history, ServeInv, TypeOK, Assigned, PublicOnly
<1>2. CASE \E l \in Leases : Lease(l) \/ TakeSummary(l) \/ Remove(l) \/ End(l)
  BY <1>2, LeaseSteps
<1>3. CASE \E c \in Conns : Serve(c) BY <1>3, ServeStep, StepServe
<1>. QED BY <1>1, <1>2, <1>3 DEF Next

LEMMA ServeAlways == Spec => []ServeInv
BY InitServe, NextServe, PTL DEF Spec

\* Every variable of the gateway holds a value of its type, and no counter of free slots
\* falls below zero, for any number of connections and any limit on descriptors.
THEOREM TypeCorrect == Spec => []TypeOK
<1>1. ServeInv => TypeOK BY DEF ServeInv
<1>. QED BY ServeAlways, <1>1, PTL

\* Only public addresses are asked of the upstream of a lease with block_internal (route,
\* vetted, and the loop over the addresses in serve), whatever names resolve to.
THEOREM InternalIsOutOfReach == Spec => []OnlyVettedGoesOn
<1>1. ServeInv => OnlyVettedGoesOn BY DEF ServeInv, PublicOnly, OnlyVettedGoesOn, Public
<1>. QED BY ServeAlways, <1>1, PTL

-----------------------------------------------------------------------------
(* Slots *)

Held == {c \in Conns : pc[c] \in Open}

LEMMA HeldFinite == IsFiniteSet(Held) /\ Cardinality(Held) \in Nat
<1>1. Held \subseteq Conns BY DEF Held
<1>. QED BY <1>1, FS_Subset, FS_CardinalityType

LEMMA SlotsKept ==
  ASSUME ServeInv, SlotsAddUp, NEW c \in Conns, Step(c)
  PROVE  SlotsAddUp'
<1>1. permits + Cardinality(Held) = Cap BY DEF SlotsAddUp, Held
<1>2. SlotStep(c) BY DEF Step
<1>3. permits \in Nat /\ pc \in [Conns -> Places] BY DEF ServeInv, TypeOK
<1>4. "closed" \notin Open /\ "greeting" \in Open /\ "waiting" \notin Open BY DEF Open
<1>5. \A d \in Conns \ {c} : pc'[d] = pc[d] BY <1>2, SlotPlaces DEF ServeInv
<1>6. permits' + Cardinality(Held)' = Cap
  <2>1. CASE pc[c] \in Open /\ pc'[c] \in Open /\ UNCHANGED permits
    <3>1. Held' = Held BY <1>5, <2>1 DEF Held
    <3>. QED BY <1>1, <2>1, <3>1
  <2>2. CASE pc[c] \in Open /\ Close(c)
    <3>1. pc'[c] = "closed" /\ permits' = permits + 1 BY <1>3, <2>2 DEF Close, Goes
    <3>2. Held' = Held \ {c} /\ c \in Held BY <1>4, <1>5, <2>2, <3>1 DEF Held
    <3>3. Cardinality(Held)' = Cardinality(Held) - 1
      BY <3>2, HeldFinite, FS_RemoveElement
    <3>. QED BY ONLY <1>1, <1>3, <3>1, <3>3, HeldFinite
  <2>3. CASE pc[c] = "waiting" /\ permits # 0 /\ Goes(c, "greeting") /\ permits' = permits - 1
    <3>1. pc'[c] = "greeting" BY <1>3, <2>3 DEF Goes
    <3>2. Held' = Held \cup {c} /\ c \notin Held BY <1>4, <1>5, <2>3, <3>1 DEF Held
    <3>3. Cardinality(Held)' = Cardinality(Held) + 1
      BY <3>2, HeldFinite, FS_AddElement
    <3>. QED BY ONLY <1>1, <1>3, <2>3, <3>3, HeldFinite
  <2>4. CASE pc[c] = "waiting" /\ Goes(c, "closed") /\ UNCHANGED permits
    <3>1. pc'[c] = "closed" BY <1>3, <2>4 DEF Goes
    <3>2. Held' = Held BY <1>4, <1>5, <2>4, <3>1 DEF Held
    <3>. QED BY <1>1, <2>4, <3>2
  <2>. QED BY <1>2, <1>3, <2>1, <2>2, <2>3, <2>4 DEF SlotStep, Goes
<1>. QED BY <1>6 DEF SlotsAddUp, Held

\* Whichever way connections end, what they held comes back: free slots and connections
\* that are held always make up the cap, for any cap and any number of connections.
THEOREM SlotsComeBack == Spec => []SlotsAddUp
<1>1. Init => SlotsAddUp
  <2>. SUFFICES ASSUME Init PROVE SlotsAddUp OBVIOUS
  <2>1. Held = {} BY DEF Init, Held, Open
  <2>2. Cardinality(Held) = 0 BY <2>1, FS_EmptySet
  <2>3. permits = Cap BY DEF Init
  <2>4. permits + Cardinality(Held) = Cap BY ONLY <2>2, <2>3, CapType
  <2>. QED BY <2>4 DEF SlotsAddUp, Held
<1>2. ServeInv /\ SlotsAddUp /\ [Next]_vars => SlotsAddUp'
  <2>. SUFFICES ASSUME ServeInv, SlotsAddUp, [Next]_vars PROVE SlotsAddUp' OBVIOUS
  <2>1. CASE UNCHANGED vars BY <2>1 DEF vars, conns, SlotsAddUp
  <2>2. CASE \E l \in Leases : Lease(l) \/ TakeSummary(l) \/ Remove(l) \/ End(l)
    BY <2>2, LeaseSteps DEF SlotsAddUp
  <2>3. CASE \E c \in Conns : Serve(c) BY <2>3, ServeStep, SlotsKept
  <2>. QED BY <2>1, <2>2, <2>3 DEF Next
<1>. QED BY ServeAlways, <1>1, <1>2, PTL DEF Spec

-----------------------------------------------------------------------------
(* Counts *)

\* The connections of a lease that were counted, with one outcome, and to one destination.
Done(l) == {c \in Conns : who[c] = l /\ counted[c] # "not yet"}
With(l, o) == {c \in Conns : who[c] = l /\ counted[c] = o}
To(l, o, d) == {c \in Conns : who[c] = l /\ counted[c] = o /\ dest[c] = d}

\* The log of a lease says how many there are of each.
LogIsRight(l) ==
  /\ log[l].connections = Cardinality(Done(l))
  /\ log[l].refused = Cardinality(With(l, "refused"))
  /\ log[l].failed = Cardinality(With(l, "failed"))
  /\ \A d \in log[l].listed, o \in Outcomes : log[l].hosts[d][o] = Cardinality(To(l, o, d))

\* A destination that is not listed though there is room had no connection.
RoomIsForNew(l) ==
  \A d \in Dests \ log[l].listed, o \in Outcomes :
    /\ log[l].hosts[d][o] = 0
    /\ Cardinality(log[l].listed) < MaxHosts => To(l, o, d) = {}

CountInv ==
  /\ \A c \in Conns : pc[c] \notin {"open", "closed"} => counted[c] = "not yet"
  /\ \A l \in Leases : LogIsRight(l) /\ RoomIsForNew(l)

LEMMA CountFinite ==
  ASSUME NEW l, NEW o, NEW d
  PROVE  /\ IsFiniteSet(Done(l)) /\ Cardinality(Done(l)) \in Nat
         /\ IsFiniteSet(With(l, o)) /\ Cardinality(With(l, o)) \in Nat
         /\ IsFiniteSet(To(l, o, d)) /\ Cardinality(To(l, o, d)) \in Nat
<1>1. Done(l) \subseteq Conns /\ With(l, o) \subseteq Conns /\ To(l, o, d) \subseteq Conns
  BY DEF Done, With, To
<1>. QED BY <1>1, FS_Subset, FS_CardinalityType

\* A step that counts nothing changes only what was not counted.
LEMMA CountsKept ==
  ASSUME ServeInv, CountInv, NEW c \in Conns, Step(c), UNCHANGED <<log, counted>>
  PROVE  CountInv'
<1>1. \A d \in Conns \ {c} : pc'[d] = pc[d] /\ who'[d] = who[d] /\ dest'[d] = dest[d]
  BY StepTypes
<1>2. pc'[c] \notin {"open", "closed"} => pc[c] \notin {"open", "closed"}
  <2>1. SlotStep(c) /\ TypeOK BY DEF Step, ServeInv
  <2>2. pc[c] = "open" => pc'[c] = "closed" BY <2>1 DEF SlotStep, Close, Goes, TypeOK, Open
  <2>3. pc[c] # "closed" BY <2>1, SlotPlaces DEF Open
  <2>. QED BY <2>2, <2>3
<1>3. (who'[c] = who[c] /\ dest'[c] = dest[c]) \/ counted[c] = "not yet"
  <2>1. who' = who \/ pc[c] = "greeting" BY DEF Step
  <2>2. dest' = dest \/ pc[c] = "request" BY DEF Step
  <2>. QED BY <2>1, <2>2 DEF CountInv
<1>4. \A l \in Leases : Done(l)' = Done(l) BY <1>1, <1>3 DEF Done
<1>5. \A l \in Leases, o \in Outcomes :
        With(l, o)' = With(l, o) /\ \A d : To(l, o, d)' = To(l, o, d)
  <2>1. "not yet" \notin Outcomes BY DEF Outcomes
  <2>. QED BY <1>1, <1>3, <2>1 DEF With, To
<1>6. ASSUME NEW l \in Leases PROVE LogIsRight(l)' /\ RoomIsForNew(l)'
  <2>1. log' = log OBVIOUS
  <2>2. LogIsRight(l) /\ RoomIsForNew(l) BY DEF CountInv
  <2>3. /\ Cardinality(Done(l))' = Cardinality(Done(l))
        /\ \A o \in Outcomes : Cardinality(With(l, o))' = Cardinality(With(l, o))
        /\ \A o \in Outcomes, d \in log[l].listed :
             Cardinality(To(l, o, d))' = Cardinality(To(l, o, d))
    BY <1>4, <1>5
  <2>4. LogIsRight(l)' BY <2>1, <2>2, <2>3 DEF LogIsRight, Outcomes
  <2>5. RoomIsForNew(l)' BY <1>5, <2>1, <2>2 DEF RoomIsForNew
  <2>. QED BY <2>4, <2>5
<1>7. \A d \in Conns : pc'[d] \notin {"open", "closed"} => counted'[d] = "not yet"
  BY <1>1, <1>2 DEF CountInv
<1>. QED BY <1>6, <1>7 DEF CountInv

\* One that counts adds the connection to the sets its outcome and destination name.
LEMMA CountedSets ==
  ASSUME ServeInv, CountInv, NEW c \in Conns, Step(c), NEW o \in Outcomes,
         Record(c, dest'[c], o), UNCHANGED who, pc[c] \in Open \ {"greeting", "open"}
  PROVE  /\ \A l \in Leases \ {who[c]} :
              /\ Done(l)' = Done(l)
              /\ \A p \in Outcomes : With(l, p)' = With(l, p)
              /\ \A p \in Outcomes, d \in Dests : To(l, p, d)' = To(l, p, d)
         /\ Done(who[c])' = Done(who[c]) \cup {c} /\ c \notin Done(who[c])
         /\ \A p \in Outcomes :
              With(who[c], p)' = IF p = o THEN With(who[c], p) \cup {c} ELSE With(who[c], p)
         /\ \A p \in Outcomes, d \in Dests :
              To(who[c], p, d)' =
                IF p = o /\ d = dest'[c] THEN To(who[c], p, d) \cup {c} ELSE To(who[c], p, d)
         /\ \A p \in Outcomes, d \in Dests : c \notin With(who[c], p) /\ c \notin To(who[c], p, d)
<1>1. \A d \in Conns \ {c} : dest'[d] = dest[d] /\ counted'[d] = counted[d] BY StepTypes
<1>2. counted[c] = "not yet" BY DEF CountInv, Open
<1>3. counted'[c] = o BY DEF Record, ServeInv, TypeOK
<1>4. "not yet" \notin Outcomes BY DEF Outcomes
<1>5. \A l : Done(l)' = {d \in Conns : who[d] = l /\ counted'[d] # "not yet"} BY DEF Done
<1>6. \A l, p : With(l, p)' = {d \in Conns : who[d] = l /\ counted'[d] = p} BY DEF With
<1>7. \A l, p, t : To(l, p, t)' = {d \in Conns : who[d] = l /\ counted'[d] = p /\ dest'[d] = t}
  BY DEF To
<1>8. /\ \A l \in Leases \ {who[c]} : Done(l)' = Done(l)
      /\ Done(who[c])' = Done(who[c]) \cup {c} /\ c \notin Done(who[c])
  BY <1>1, <1>2, <1>3, <1>4, <1>5 DEF Done
<1>9. /\ \A l \in Leases \ {who[c]}, p \in Outcomes : With(l, p)' = With(l, p)
      /\ \A p \in Outcomes :
           /\ With(who[c], p)' = IF p = o THEN With(who[c], p) \cup {c} ELSE With(who[c], p)
           /\ c \notin With(who[c], p)
  BY <1>1, <1>2, <1>3, <1>4, <1>6 DEF With
<1>10. /\ \A l \in Leases \ {who[c]}, p \in Outcomes, d \in Dests : To(l, p, d)' = To(l, p, d)
       /\ \A p \in Outcomes, d \in Dests :
            /\ To(who[c], p, d)' =
                 IF p = o /\ d = dest'[c] THEN To(who[c], p, d) \cup {c} ELSE To(who[c], p, d)
            /\ c \notin To(who[c], p, d)
  BY <1>1, <1>2, <1>3, <1>4, <1>7 DEF To
<1>. QED BY <1>8, <1>9, <1>10

\* The list of a log has the destination or room for it.
Fits(was, d) == d \in was.listed \/ Cardinality(was.listed) < MaxHosts

\* What a log is after one more connection, field by field.
OneMore(was, d, o, now) ==
  /\ now.connections = was.connections + 1
  /\ now.refused = IF o = "refused" THEN was.refused + 1 ELSE was.refused
  /\ now.failed = IF o = "failed" THEN was.failed + 1 ELSE was.failed
  /\ now.listed = IF Fits(was, d) THEN was.listed \cup {d} ELSE was.listed
  /\ \A e \in Dests, p \in Outcomes :
       now.hosts[e][p] = IF Fits(was, d) /\ e = d /\ p = o THEN was.hosts[e][p] + 1
                         ELSE was.hosts[e][p]

LEMMA LoggedFields ==
  ASSUME NEW was \in LogType, NEW d \in Dests, NEW o \in Outcomes
  PROVE  OneMore(was, d, o, Logged(was, d, o))
<1>. DEFINE now == Logged(was, d, o)
<1>1. /\ was.refused \in Nat /\ was.failed \in Nat
      /\ was.hosts \in [Dests -> [Outcomes -> Nat]]
  BY DEF LogType
<1>2. /\ now.connections = was.connections + 1
      /\ now.refused = was.refused + (IF o = "refused" THEN 1 ELSE 0)
      /\ now.failed = was.failed + (IF o = "failed" THEN 1 ELSE 0)
      /\ now.listed = IF Fits(was, d) THEN was.listed \cup {d} ELSE was.listed
      /\ now.hosts = IF Fits(was, d) THEN [was.hosts EXCEPT ![d][o] = @ + 1] ELSE was.hosts
  BY DEF Logged, Fits
<1>3. now.refused = IF o = "refused" THEN was.refused + 1 ELSE was.refused BY ONLY <1>1, <1>2
<1>4. now.failed = IF o = "failed" THEN was.failed + 1 ELSE was.failed BY ONLY <1>1, <1>2
<1>5. \A e \in Dests, p \in Outcomes :
        now.hosts[e][p] = IF Fits(was, d) /\ e = d /\ p = o THEN was.hosts[e][p] + 1
                          ELSE was.hosts[e][p]
  BY <1>1, <1>2
<1>. QED BY <1>2, <1>3, <1>4, <1>5 DEF OneMore

\* The log of the lease whose connection is counted.
LEMMA CountedLog ==
  ASSUME ServeInv, CountInv, NEW c \in Conns, Step(c), NEW o \in Outcomes, NEW l \in Leases,
         Record(c, dest'[c], o), UNCHANGED who, pc[c] \in Open \ {"greeting", "open"},
         l = who[c], NEW d \in Dests, d = dest'[c], NEW was, was = log[l]
  PROVE  LogIsRight(l)' /\ RoomIsForNew(l)'
<1>1. was \in LogType /\ log'[l] = Logged(was, d, o) BY DEF Record, ServeInv, TypeOK
<1>2. OneMore(was, d, o, log'[l]) BY <1>1, LoggedFields
<1>3. LogIsRight(l) /\ RoomIsForNew(l) BY DEF CountInv
<1>4. /\ Done(l)' = Done(l) \cup {c} /\ c \notin Done(l)
      /\ \A p \in Outcomes : With(l, p)' = IF p = o THEN With(l, p) \cup {c} ELSE With(l, p)
      /\ \A p \in Outcomes, e \in Dests :
           To(l, p, e)' = IF p = o /\ e = d THEN To(l, p, e) \cup {c} ELSE To(l, p, e)
      /\ \A p \in Outcomes, e \in Dests : c \notin With(l, p) /\ c \notin To(l, p, e)
  <2>1. /\ Done(who[c])' = Done(who[c]) \cup {c} /\ c \notin Done(who[c])
        /\ \A p \in Outcomes :
             With(who[c], p)' = IF p = o THEN With(who[c], p) \cup {c} ELSE With(who[c], p)
        /\ \A p \in Outcomes, e \in Dests :
             To(who[c], p, e)' =
               IF p = o /\ e = d THEN To(who[c], p, e) \cup {c} ELSE To(who[c], p, e)
        /\ \A p \in Outcomes, e \in Dests : c \notin With(who[c], p) /\ c \notin To(who[c], p, e)
    BY CountedSets
  <2>2. /\ Done(l)' = Done(who[c])'
        /\ \A p, e : With(l, p)' = With(who[c], p)' /\ To(l, p, e)' = To(who[c], p, e)'
    BY DEF Done, With, To
  <2>. QED BY <2>1, <2>2
<1>5. Cardinality(Done(l))' = Cardinality(Done(l)) + 1 BY <1>4, CountFinite, FS_AddElement
<1>6. ASSUME NEW p \in Outcomes
      PROVE  Cardinality(With(l, p))' = IF p = o THEN Cardinality(With(l, p)) + 1
                                        ELSE Cardinality(With(l, p))
  <2>1. CASE p = o
    <3>1. With(l, p)' = With(l, p) \cup {c} /\ c \notin With(l, p) BY <1>1, <1>4, <2>1
    <3>. QED BY <2>1, <3>1, CountFinite, FS_AddElement
  <2>. QED BY <1>4, <2>1
<1>7. ASSUME NEW p \in Outcomes, NEW e \in Dests
      PROVE  Cardinality(To(l, p, e))' = IF p = o /\ e = d THEN Cardinality(To(l, p, e)) + 1
                                         ELSE Cardinality(To(l, p, e))
  <2>1. CASE p = o /\ e = d
    <3>1. To(l, p, e)' = To(l, p, e) \cup {c} /\ c \notin To(l, p, e) BY <1>4, <2>1
    <3>2. Cardinality(To(l, p, e) \cup {c}) = Cardinality(To(l, p, e)) + 1
      BY <3>1, CountFinite, FS_AddElement
    <3>3. Cardinality(To(l, p, e))' = Cardinality(To(l, p, e)) + 1 BY ONLY <3>1, <3>2
    <3>. QED BY ONLY <2>1, <3>3
  <2>2. CASE ~(p = o /\ e = d)
    <3>1. To(l, p, e)' = To(l, p, e) BY <1>4, <2>2
    <3>2. Cardinality(To(l, p, e))' = Cardinality(To(l, p, e)) BY ONLY <3>1
    <3>. QED BY ONLY <2>2, <3>2
  <2>. QED BY <2>1, <2>2
<1>8. Fits(was, d) => \A p \in Outcomes : was.hosts[d][p] = Cardinality(To(l, p, d))
  <2>1. CASE d \in was.listed BY <1>3, <2>1 DEF LogIsRight
  <2>2. CASE d \notin was.listed /\ Cardinality(was.listed) < MaxHosts
    <3>1. \A p \in Outcomes : was.hosts[d][p] = 0 /\ To(l, p, d) = {}
      BY <1>3, <2>2 DEF RoomIsForNew
    <3>. QED BY <3>1, FS_EmptySet
  <2>. QED BY <2>1, <2>2 DEF Fits
<1>9. was.listed \subseteq Dests BY <1>1 DEF LogType
<1>10. ASSUME NEW e \in log'[l].listed, NEW p \in Outcomes
       PROVE  log'[l].hosts[e][p] = Cardinality(To(l, p, e))'
  <2>1. e \in Dests BY <1>2, <1>9 DEF OneMore
  <2>2. CASE Fits(was, d) /\ e = d
    <3>1. was.hosts[e][p] = Cardinality(To(l, p, e)) BY <1>8, <2>2
    <3>2. log'[l].hosts[e][p] = IF p = o THEN was.hosts[e][p] + 1 ELSE was.hosts[e][p]
      BY <1>2, <2>1, <2>2 DEF OneMore
    <3>3. Cardinality(To(l, p, e))' = IF p = o THEN Cardinality(To(l, p, e)) + 1
                                      ELSE Cardinality(To(l, p, e))
      BY <1>7, <2>1, <2>2
    <3>. QED BY ONLY <3>1, <3>2, <3>3
  <2>3. CASE e \in was.listed /\ e # d
    <3>1. was.hosts[e][p] = Cardinality(To(l, p, e)) BY <1>3, <2>3 DEF LogIsRight
    <3>2. log'[l].hosts[e][p] = was.hosts[e][p] BY <1>2, <2>1, <2>3 DEF OneMore
    <3>3. Cardinality(To(l, p, e))' = Cardinality(To(l, p, e)) BY <1>7, <2>1, <2>3
    <3>. QED BY ONLY <3>1, <3>2, <3>3
  <2>. QED BY <1>2, <2>2, <2>3 DEF OneMore, Fits
<1>11. LogIsRight(l)'
  <2>1. "refused" \in Outcomes /\ "failed" \in Outcomes BY DEF Outcomes
  <2>. QED BY <1>2, <1>3, <1>5, <1>6, <1>10, <2>1 DEF LogIsRight, OneMore
<1>12. RoomIsForNew(l)'
  <2>. SUFFICES ASSUME NEW e \in Dests \ log'[l].listed, NEW p \in Outcomes
                PROVE  /\ log'[l].hosts[e][p] = 0
                       /\ Cardinality(log'[l].listed) < MaxHosts => To(l, p, e)' = {}
    BY DEF RoomIsForNew
  <2>1. e \notin was.listed /\ was.hosts[e][p] = 0 BY <1>2, <1>3 DEF RoomIsForNew, OneMore
  <2>2. IsFiniteSet(was.listed) BY <1>9, FS_Subset
  <2>3. CASE Fits(was, d)
    <3>1. e # d BY <1>2, <2>3 DEF OneMore
    <3>2. Cardinality(log'[l].listed) < MaxHosts => Cardinality(was.listed) < MaxHosts
      <4>1. Cardinality(was.listed) \in Nat BY <2>2, FS_CardinalityType
      <4>2. Cardinality(was.listed \cup {d}) = IF d \in was.listed THEN Cardinality(was.listed)
                                               ELSE Cardinality(was.listed) + 1
        BY <2>2, FS_AddElement
      <4>3. log'[l].listed = was.listed \cup {d} BY <1>2, <2>3 DEF OneMore
      <4>. QED BY <4>1, <4>2, <4>3
    <3>3. log'[l].hosts[e][p] = was.hosts[e][p] BY <1>2, <3>1 DEF OneMore
    <3>4. Cardinality(was.listed) < MaxHosts => To(l, p, e) = {}
      BY <1>3, <2>1 DEF RoomIsForNew
    <3>5. To(l, p, e)' = To(l, p, e) BY <1>4, <3>1
    <3>. QED BY ONLY <2>1, <3>2, <3>3, <3>4, <3>5
  <2>4. CASE ~Fits(was, d)
    <3>1. log'[l].listed = was.listed /\ ~(Cardinality(was.listed) < MaxHosts)
      BY <1>2, <2>4 DEF Fits, OneMore
    <3>. QED BY <1>2, <2>1, <2>4, <3>1 DEF OneMore
  <2>. QED BY <2>3, <2>4
<1>. QED BY <1>11, <1>12

LEMMA Counted == ASSUME ServeInv, CountInv, NEW c \in Conns, Step(c), Counts(c) PROVE CountInv'
<1>1. PICK o \in Outcomes :
        /\ Record(c, dest'[c], o) /\ UNCHANGED who /\ dest'[c] \in Dests
        /\ pc[c] \in Open \ {"greeting", "open"} /\ pc'[c] \in {"open", "closed"}
  BY DEF Counts
<1>2. who[c] \in Leases BY <1>1 DEF ServeInv, Assigned
<1>3. \A d \in Conns \ {c} : pc'[d] = pc[d] /\ counted'[d] = counted[d] BY StepTypes
<1>4. \A d \in Conns : pc'[d] \notin {"open", "closed"} => counted'[d] = "not yet"
  BY <1>1, <1>3 DEF CountInv
<1>5. ASSUME NEW l \in Leases, l # who[c] PROVE LogIsRight(l)' /\ RoomIsForNew(l)'
  <2>1. log'[l] = log[l] BY <1>1, <1>5 DEF Record, ServeInv, TypeOK
  <2>2. LogIsRight(l) /\ RoomIsForNew(l) BY DEF CountInv
  <2>3. /\ Done(l)' = Done(l)
        /\ \A p \in Outcomes : With(l, p)' = With(l, p)
        /\ \A p \in Outcomes, d \in Dests : To(l, p, d)' = To(l, p, d)
    BY <1>1, <1>5, CountedSets
  <2>4. log[l].listed \subseteq Dests BY DEF ServeInv, TypeOK, LogType
  <2>5. /\ Cardinality(Done(l))' = Cardinality(Done(l))
        /\ \A p \in Outcomes : Cardinality(With(l, p))' = Cardinality(With(l, p))
        /\ \A p \in Outcomes, d \in log[l].listed :
             Cardinality(To(l, p, d))' = Cardinality(To(l, p, d))
    BY <2>3, <2>4
  <2>6. LogIsRight(l)' BY <2>1, <2>2, <2>5 DEF LogIsRight, Outcomes
  <2>7. RoomIsForNew(l)' BY <2>1, <2>2, <2>3 DEF RoomIsForNew
  <2>. QED BY <2>6, <2>7
<1>6. \A l \in Leases : l = who[c] => LogIsRight(l)' /\ RoomIsForNew(l)' BY <1>1, CountedLog
<1>. QED BY <1>4, <1>5, <1>6 DEF CountInv

\* "Everything a lease's connections did is counted": the log of a lease has each of its
\* connections that came to a verdict once, under its destination as long as the list has
\* room, for any number of connections, addresses and any length of the list.
THEOREM CountedOnce == Spec => []EachCountsOnce
<1>1. Init => CountInv
  <2>. SUFFICES ASSUME Init PROVE CountInv OBVIOUS
  <2>1. \A l \in Leases : Done(l) = {} BY DEF Init, Done
  <2>2. \A l \in Leases, o \in Outcomes :
          With(l, o) = {} /\ \A d \in Dests : To(l, o, d) = {}
    BY DEF Init, With, To, Outcomes
  <2>3. ASSUME NEW l \in Leases PROVE LogIsRight(l)
    <3>1. /\ log[l].connections = 0 /\ log[l].refused = 0 /\ log[l].failed = 0
          /\ log[l].listed = {}
      BY DEF Init, NothingYet
    <3>2. Done(l) = {} /\ With(l, "refused") = {} /\ With(l, "failed") = {}
      BY <2>1, <2>2 DEF Outcomes
    <3>. QED BY <3>1, <3>2, FS_EmptySet DEF LogIsRight
  <2>4. \A l \in Leases : RoomIsForNew(l) BY <2>2 DEF Init, RoomIsForNew, NothingYet
  <2>. QED BY <2>3, <2>4 DEF Init, CountInv
<1>2. ServeInv /\ CountInv /\ [Next]_vars => CountInv'
  <2>. SUFFICES ASSUME ServeInv, CountInv, [Next]_vars PROVE CountInv' OBVIOUS
  <2>1. ASSUME UNCHANGED <<pc, who, dest, log, counted>> PROVE CountInv'
    <3>1. /\ \A l : Done(l)' = Done(l)
          /\ \A l, o : With(l, o)' = With(l, o)
          /\ \A l, o, d : To(l, o, d)' = To(l, o, d)
      BY <2>1 DEF Done, With, To
    <3>2. ASSUME NEW l \in Leases PROVE LogIsRight(l)' /\ RoomIsForNew(l)'
      <4>1. LogIsRight(l) /\ RoomIsForNew(l) BY DEF CountInv
      <4>. QED BY <2>1, <3>1, <4>1 DEF LogIsRight, RoomIsForNew
    <3>. QED BY <2>1, <3>2 DEF CountInv
  <2>2. CASE UNCHANGED vars BY <2>1, <2>2 DEF vars, conns, counts, history
  <2>3. CASE \E l \in Leases : Lease(l) \/ TakeSummary(l) \/ Remove(l) \/ End(l)
    BY <2>1, <2>3, LeaseSteps
  <2>4. CASE \E c \in Conns : Serve(c)
    <3>1. PICK c \in Conns : Step(c) BY <2>4, ServeStep
    <3>. QED BY <3>1, CountsKept, Counted DEF Step
  <2>. QED BY <2>2, <2>3, <2>4 DEF Next
<1>3. CountInv => EachCountsOnce
  <2>. SUFFICES ASSUME CountInv PROVE EachCountsOnce OBVIOUS
  <2>1. \A l : /\ {c \in Of(l) : counted[c] # "not yet"} = Done(l)
               /\ \A o : {c \in Of(l) : counted[c] = o} = With(l, o)
               /\ \A o, d : {c \in Of(l) : counted[c] = o /\ dest[c] = d} = To(l, o, d)
    BY DEF Of, Done, With, To
  <2>2. ASSUME NEW l \in Leases
        PROVE  /\ log[l].connections = Cardinality({c \in Of(l) : counted[c] # "not yet"})
               /\ log[l].refused = Cardinality({c \in Of(l) : counted[c] = "refused"})
               /\ log[l].failed = Cardinality({c \in Of(l) : counted[c] = "failed"})
               /\ \A d \in log[l].listed, o \in Outcomes :
                    log[l].hosts[d][o] = Cardinality({c \in Of(l) : counted[c] = o /\ dest[c] = d})
    <3>1. LogIsRight(l) BY DEF CountInv
    <3>. QED BY <2>1, <3>1 DEF LogIsRight
  <2>. QED BY <2>2 DEF EachCountsOnce
<1>. QED BY ServeAlways, <1>1, <1>2, <1>3, PTL DEF Spec
=============================================================================
