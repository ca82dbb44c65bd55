------------------------------ MODULE EgressGateway ------------------------------
(* The SOCKS gateway of a proxied node, core/src/egress/gateway.rs: leases, the   *)
(* connections that engines make through them, the cap on connections and what    *)
(* is counted for an operation's summary.                                         *)
(*                                                                                *)
(* Each accepted connection is a task, and each await of serve divides it into    *)
(* steps. Engines, the resolver and the upstream proxy are external: they may     *)
(* present any lease they were ever given, ask for any destination, and answer    *)
(* anything or nothing. Of the addresses of a name only the kind matters; within  *)
(* a kind the resolver's order is any order. Bytes are left out.                  *)
EXTENDS Naturals, FiniteSets

CONSTANTS
  Leases,             \* leases the node takes out, one for an operation or a Bench send
  BlockInternal,      \* those that may reach public addresses only
  Socks4,             \* those whose upstream is a SOCKS4 proxy
  Operations,         \* those of operations, whose summary is published
  Conns,              \* connections that engines make
  Names, Addresses, Internal, V6,       \* destinations
  OpenFiles,          \* how many descriptors the process may open; a limit that the
                      \* system does not tell counts as a large one
  ReservedFds, MinConnections, MaxConnections,    \* RESERVED_FDS and the range of the cap
  MaxAddresses,       \* MAX_ADDRESSES of a name that are tried
  MaxHosts            \* MAX_HOSTS listed one by one

NoLease == "no lease"
NoTarget == "no target"
Dests == Names \cup Addresses

ASSUME GatewayAssumption ==
  /\ BlockInternal \subseteq Leases /\ Socks4 \subseteq Leases /\ Operations \subseteq Leases
  /\ NoLease \notin Leases /\ NoTarget \notin Dests
  /\ Internal \subseteq Addresses /\ V6 \subseteq Addresses /\ Names \cap Addresses = {}
  /\ IsFiniteSet(Conns) /\ IsFiniteSet(Dests)
  /\ OpenFiles \in Nat /\ ReservedFds \in Nat
  /\ MinConnections \in Nat /\ MaxConnections \in Nat /\ MinConnections <= MaxConnections
  /\ MaxAddresses \in Nat \ {0} /\ MaxHosts \in Nat

VARIABLES
  \* Each lease: "new", "held" (in the table), "removed" from it, "ended" (its channel says so)
  life,
  \* Free slots of the connections the gateway holds
  permits,
  \* Each connection: where serve is, its lease, the destination it asked for, the target
  \* being dialled, and the further ones
  pc, who, dest, target, left,
  \* What each lease's connections did, and the summary that was published of it
  log, summary,
  \* History: the targets the upstream was asked for, and what a connection was counted as
  asked, counted

conns == <<pc, who, dest, target, left>>
counts == <<log, summary>>
history == <<asked, counted>>
vars == <<life, permits, conns, counts, history>>

\* A cap under which two descriptors for each connection fit beside the reserved ones.
ConnectionCap(files) ==
  LET fit == IF files > ReservedFds THEN (files - ReservedFds) \div 2 ELSE 0
  IN IF fit < MinConnections THEN MinConnections
     ELSE IF fit > MaxConnections THEN MaxConnections ELSE fit
Cap == ConnectionCap(OpenFiles)

Outcomes == {"ok", "refused", "failed"}
Open == {"greeting", "request", "resolving", "dialing", "asking", "open"}
Places == {"waiting", "closed"} \cup Open
Of(l) == {c \in Conns : who[c] = l}

NothingYet ==
  [connections |-> 0, refused |-> 0, failed |-> 0, unlisted |-> 0, listed |-> {},
   hosts |-> [d \in Dests |-> [o \in Outcomes |-> 0]]]

Init ==
  /\ life = [l \in Leases |-> "new"] /\ permits = Cap
  /\ pc = [c \in Conns |-> "waiting"] /\ who = [c \in Conns |-> NoLease]
  /\ dest = [c \in Conns |-> NoTarget] /\ target = [c \in Conns |-> NoTarget]
  /\ left = [c \in Conns |-> {}]
  /\ log = [l \in Leases |-> NothingYet] /\ summary = [l \in Leases |-> {}]
  /\ asked = [c \in Conns |-> {}] /\ counted = [c \in Conns |-> "not yet"]

-------------------------------------------------------------------------------
(* Leases *)

Lease(l) ==
  /\ life[l] = "new"
  /\ life' = [life EXCEPT ![l] = "held"]
  /\ UNCHANGED <<permits, conns, counts, history>>

\* The first time it is asked for, which is before the operation lets go of its lease.
TakeSummary(l) ==
  /\ life[l] = "held" /\ l \in Operations /\ summary[l] = {}
  /\ summary' = [summary EXCEPT ![l] = {log[l]}]
  /\ UNCHANGED <<life, permits, conns, log, history>>

\* Drop: out of the table, then the channel, in two steps.
Remove(l) ==
  /\ life[l] = "held" /\ (l \in Operations => summary[l] # {})
  /\ life' = [life EXCEPT ![l] = "removed"]
  /\ UNCHANGED <<permits, conns, counts, history>>

\* Mutant: the lease is only taken out of the table.
End_OnlyInTheTable(l) ==
  /\ life[l] = "removed"
  /\ UNCHANGED vars

End(l) ==
  /\ life[l] = "removed"
  /\ life' = [life EXCEPT ![l] = "ended"]
  /\ UNCHANGED <<permits, conns, counts, history>>

-------------------------------------------------------------------------------
(* serve *)

Goes(c, place) == pc' = [pc EXCEPT ![c] = place]

\* serve returns, and its slot is free.
Close(c) == Goes(c, "closed") /\ permits' = permits + 1

\* The gateway's log of a lease after one more connection to a destination.
Logged(was, d, outcome) ==
  LET fits == d \in was.listed \/ Cardinality(was.listed) < MaxHosts IN
  [connections |-> was.connections + 1,
   refused |-> was.refused + (IF outcome = "refused" THEN 1 ELSE 0),
   failed |-> was.failed + (IF outcome = "failed" THEN 1 ELSE 0),
   unlisted |-> was.unlisted + (IF fits THEN 0 ELSE 1),
   listed |-> IF fits THEN was.listed \cup {d} ELSE was.listed,
   hosts |-> IF fits THEN [was.hosts EXCEPT ![d][outcome] = @ + 1] ELSE was.hosts]

Record(c, d, outcome) ==
  /\ log' = [log EXCEPT ![who[c]] = Logged(@, d, outcome)]
  /\ counted' = [counted EXCEPT ![c] = outcome]

Fail(c, d, outcome) ==
  /\ Close(c) /\ Record(c, d, outcome)
  /\ UNCHANGED <<target, left>>

\* Mutant: a connection takes its slot only once it has authenticated.
Accept_Unslotted(c) ==
  /\ pc[c] = "waiting" /\ permits > 0
  /\ Goes(c, "greeting")
  /\ UNCHANGED <<life, permits, who, dest, target, left, counts, history>>

\* A connection over the cap is closed with nothing read from it.
Accept(c) ==
  /\ pc[c] = "waiting"
  /\ IF permits = 0 THEN Goes(c, "closed") /\ UNCHANGED permits
     ELSE Goes(c, "greeting") /\ permits' = permits - 1
  /\ UNCHANGED <<life, who, dest, target, left, counts, history>>

\* The credentials of a lease, with its secret: found under the table's lock, or refused.
Authenticate(c, l) ==
  /\ pc[c] = "greeting" /\ life[l] # "new"
  /\ IF life[l] = "held"
       THEN /\ Goes(c, "request") /\ who' = [who EXCEPT ![c] = l]
            /\ UNCHANGED permits
       ELSE Close(c) /\ UNCHANGED who
  /\ UNCHANGED <<life, dest, target, left, counts, history>>

\* Not SOCKS5, a wrong secret, no CONNECT, gone, or not done within the deadline.
GivesUp(c) ==
  /\ pc[c] \in {"greeting", "request"}
  /\ Close(c)
  /\ UNCHANGED <<life, who, dest, target, left, counts, history>>

\* Mutant: a name that has a public address may go on as any of its addresses.
Vetted_AnyPublic(found, l) ==
  LET may == IF found \subseteq Internal THEN {} ELSE found IN
  IF l \in Socks4 THEN may \ V6 ELSE may

\* The addresses a lease with block_internal may go on to.
Vetted(found, l) == (found \ Internal) \ (IF l \in Socks4 THEN V6 ELSE {})

\* IPv4 first.
Preferred(S) == IF S \subseteq V6 THEN S ELSE S \ V6

\* The addresses were vetted: one is dialled, none is public, or the proxy carries none.
Vet(c, d, found) ==
  LET l == who[c] IN
  \/ \E a \in Preferred(Vetted(found, l)) :
       /\ Goes(c, "dialing")
       /\ target' = [target EXCEPT ![c] = a]
       /\ left' = [left EXCEPT ![c] = Vetted(found, l) \ {a}]
       /\ UNCHANGED <<permits, log, counted>>
  \/ found \subseteq Internal /\ Fail(c, d, "refused")
  \/ ~(found \subseteq Internal) /\ Vetted(found, l) = {} /\ Fail(c, d, "failed")

\* The engine asks for a destination; serve looks whether the lease has ended, and goes
\* on to route in the same step.
Request(c, d) ==
  /\ pc[c] = "request"
  /\ dest' = [dest EXCEPT ![c] = d]
  /\ \/ /\ life[who[c]] = "ended"
        /\ Close(c)
        /\ UNCHANGED <<target, left, log, counted>>
     \/ /\ life[who[c]] # "ended" /\ who[c] \notin BlockInternal
        /\ Goes(c, "dialing") /\ target' = [target EXCEPT ![c] = d]
        /\ UNCHANGED <<permits, left, log, counted>>
     \/ /\ life[who[c]] # "ended" /\ who[c] \in BlockInternal /\ d \in Addresses
        /\ Vet(c, d, {d})
     \/ /\ life[who[c]] # "ended" /\ who[c] \in BlockInternal /\ d \in Names
        /\ Goes(c, "resolving")
        /\ UNCHANGED <<permits, target, left, log, counted>>
  /\ UNCHANGED <<life, who, summary, asked>>

\* The resolver answers, with no address or some, or not in time.
Resolve(c) ==
  /\ pc[c] = "resolving"
  /\ \/ \E found \in SUBSET Addresses : Vet(c, dest[c], found)
     \/ Fail(c, dest[c], "failed")
  /\ UNCHANGED <<life, who, dest, summary, asked>>

\* The connection to the upstream stands, and it is asked for the target. If the lease
\* has ended, that is the last poll of the dial.
Ask(c) ==
  /\ pc[c] = "dialing"
  /\ asked' = [asked EXCEPT ![c] = @ \cup {target[c]}]
  /\ IF life[who[c]] = "ended" THEN Close(c) ELSE Goes(c, "asking") /\ UNCHANGED permits
  /\ UNCHANGED <<life, who, dest, target, left, counts, counted>>

\* The upstream fails the connection as a whole: unreachable, refusing the credentials,
\* or not answering in time.
UpstreamFails(c) ==
  /\ pc[c] \in {"dialing", "asking"}
  /\ Fail(c, dest[c], "failed")
  /\ UNCHANGED <<life, who, dest, summary, asked>>

\* Mutant: every address that fails is counted.
AddressFails_EachCounts(c) ==
  /\ pc[c] = "asking"
  /\ Record(c, dest[c], "failed")
  /\ IF left[c] # {} /\ Cardinality(asked[c]) < MaxAddresses
       THEN \E a \in Preferred(left[c]) :
              /\ Goes(c, "dialing") /\ UNCHANGED permits
              /\ target' = [target EXCEPT ![c] = a]
              /\ left' = [left EXCEPT ![c] = @ \ {a}]
       ELSE Close(c) /\ UNCHANGED <<target, left>>
  /\ UNCHANGED <<life, who, dest, summary, asked>>

\* The upstream fails this one address: the next is dialled, if there is one.
AddressFails(c) ==
  /\ pc[c] = "asking"
  /\ IF left[c] # {} /\ Cardinality(asked[c]) < MaxAddresses
       THEN /\ \E a \in Preferred(left[c]) :
                 /\ target' = [target EXCEPT ![c] = a]
                 /\ left' = [left EXCEPT ![c] = @ \ {a}]
            /\ Goes(c, "dialing")
            /\ UNCHANGED <<permits, log, counted>>
       ELSE Fail(c, dest[c], "failed")
  /\ UNCHANGED <<life, who, dest, summary, asked>>

\* The tunnel is open, and counted whatever the engine does next.
Opens(c) ==
  /\ pc[c] = "asking"
  /\ Goes(c, "open") /\ Record(c, dest[c], "ok")
  /\ UNCHANGED <<life, permits, who, dest, target, left, summary, asked>>

\* The engine or the destination is done, the answer could not be sent, or nothing passed
\* for too long.
Ends(c) ==
  /\ pc[c] = "open"
  /\ Close(c)
  /\ UNCHANGED <<life, who, dest, target, left, counts, history>>

\* until_ended: the lease has ended under the connection.
Cut(c) ==
  /\ pc[c] \in {"dialing", "asking", "open"} /\ life[who[c]] = "ended"
  /\ Close(c)
  /\ UNCHANGED <<life, who, dest, target, left, counts, history>>

-------------------------------------------------------------------------------

Serve(c) ==
  \/ Accept(c) \/ (\E l \in Leases : Authenticate(c, l)) \/ GivesUp(c)
  \/ (\E d \in Dests : Request(c, d)) \/ Resolve(c) \/ Ask(c) \/ UpstreamFails(c)
  \/ AddressFails(c) \/ Opens(c) \/ Ends(c) \/ Cut(c)

Next ==
  \/ \E l \in Leases : Lease(l) \/ TakeSummary(l) \/ Remove(l) \/ End(l)
  \/ \E c \in Conns : Serve(c)

Spec == Init /\ [][Next]_vars

\* Deadlines come: of the SOCKS exchange, the resolver, the dial. A drop that was begun
\* is finished, and a task that is woken by the end of its lease runs. That a tunnel
\* which is in use ends of itself is not assumed.
Fairness ==
  /\ \A l \in Leases : WF_vars(End(l))
  /\ \A c \in Conns :
       /\ WF_vars(GivesUp(c)) /\ WF_vars(Resolve(c)) /\ WF_vars(UpstreamFails(c))
       /\ WF_vars(Cut(c))

FairSpec == Spec /\ Fairness

-------------------------------------------------------------------------------

LogType ==
  [connections : Nat, refused : Nat, failed : Nat, unlisted : Nat, listed : SUBSET Dests,
   hosts : [Dests -> [Outcomes -> Nat]]]

\* Every variable holds a value of its type.
TypeOK ==
  /\ life \in [Leases -> {"new", "held", "removed", "ended"}] /\ permits \in Nat
  /\ pc \in [Conns -> Places] /\ who \in [Conns -> Leases \cup {NoLease}]
  /\ dest \in [Conns -> Dests \cup {NoTarget}] /\ target \in [Conns -> Dests \cup {NoTarget}]
  /\ left \in [Conns -> SUBSET Addresses]
  /\ log \in [Leases -> LogType] /\ summary \in [Leases -> SUBSET LogType]
  /\ asked \in [Conns -> SUBSET Dests] /\ counted \in [Conns -> Outcomes \cup {"not yet"}]

\* The slots that are free and the connections that are held, authenticated or not, make
\* up the cap, whichever way a connection ends (serve's _permit).
SlotsAddUp == permits + Cardinality({c \in Conns : pc[c] \in Open}) = Cap

\* With block_internal the upstream is never asked for a name or an internal address,
\* whatever the name resolved to and however many of its addresses failed.
OnlyVettedGoesOn ==
  \A c \in Conns : who[c] \in BlockInternal => asked[c] \subseteq Addresses \ Internal

\* "The summary counts every connection once, by destination": the totals are those of the
\* connections of the lease, and a listed destination has all of its own.
EachCountsOnce ==
  \A l \in Leases :
    /\ log[l].connections = Cardinality({c \in Of(l) : counted[c] # "not yet"})
    /\ log[l].refused = Cardinality({c \in Of(l) : counted[c] = "refused"})
    /\ log[l].failed = Cardinality({c \in Of(l) : counted[c] = "failed"})
    /\ \A d \in log[l].listed, o \in Outcomes :
         log[l].hosts[d][o] = Cardinality({c \in Of(l) : counted[c] = o /\ dest[c] = d})

\* "Dropping it ends the permission: ... open ones are closed", however far they had got
\* when it was dropped.
EndedIsCut ==
  \A c \in Conns, l \in Leases :
    (who[c] = l /\ life[l] \in {"removed", "ended"}) ~> pc[c] = "closed"

===============================================================================
