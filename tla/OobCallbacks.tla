----------------------------- MODULE OobCallbacks -----------------------------
(* Out-of-band confirmation: the store of the callback server (oast/src/store.rs) and *)
(* the scan that uses it (plessor/src/oast.rs, and the pass of plessor/src/inject.rs), *)
(* with the target that calls back in between.                                        *)
(*                                                                                   *)
(* A section under one of the store's two mutexes is one step. A callback is known by *)
(* the payload whose marker its host name ends in. The ids and secrets that a scan    *)
(* draws are its own: correlation <<s, n>> is that of scan s's n-th registration.     *)
EXTENDS Naturals, Sequences, FiniteSets

CONSTANTS
  Scans, Payloads,
  Attempts,         \* how often a scan tries to register
  Polls,            \* how often it polls
  Cap,              \* cap_per_corr
  MaxRegs,          \* MAX_REGISTRATIONS
  MaxCalls,         \* callbacks of the target, all in all
  MaxRestarts       \* of the server

ASSUME OobAssumption ==
  /\ Attempts \in Nat \ {0} /\ Polls \in Nat \ {0} /\ Cap \in Nat \ {0}
  /\ MaxRegs \in Nat /\ MaxCalls \in Nat /\ MaxRestarts \in Nat

Corrs == Scans \X (1..Attempts)
Nobody == <<>>

VARIABLES
  \* The server: registrations, those whose time is over, and what is kept for an id
  regs, lapsed, kept,
  \* Its calls between two critical sections
  sealing,          \* captures that have read the key: the id and the payload
  expired,          \* what the collector has taken out of the registrations
  draining,         \* polls whose secret was right
  leaving,          \* deregistrations: "checked", and then "removed"
  \* A scan
  place, tries, corr,
  parked,           \* payloads it has sent, and parked for the end
  polls, hosts,     \* how often it has polled, and the payloads of the last answer
  found,
  \* Bounds and history
  calls, restarts,
  called,           \* payloads of a scan that the target called back for
  stored,           \* those whose callback the store took in
  lost,             \* and those the store gave up or an unread answer took
  overtaken         \* ids that ended while a capture had their key

store == <<regs, lapsed, kept>>
handlers == <<sealing, expired, draining, leaving>>
scan == <<place, tries, corr, parked, polls, hosts, found>>
history == <<calls, restarts, called, stored, lost, overtaken>>
vars == <<store, handlers, scan, history>>

Items(seq) == {seq[i] : i \in 1..Len(seq)}
Sealed(c) == {p \in Payloads : <<c, p>> \in sealing}

Init ==
  /\ regs = {} /\ lapsed = {} /\ kept = [c \in Corrs |-> <<>>]
  /\ sealing = {} /\ expired = {} /\ draining = {} /\ leaving = [c \in Corrs |-> "no"]
  /\ place = [s \in Scans |-> "register"] /\ tries = [s \in Scans |-> 0]
  /\ corr = [s \in Scans |-> Nobody] /\ parked = [s \in Scans |-> {}]
  /\ polls = [s \in Scans |-> 0] /\ hosts = [s \in Scans |-> {}]
  /\ found = [s \in Scans |-> {}]
  /\ calls = 0 /\ restarts = 0
  /\ called = [s \in Scans |-> {}] /\ stored = [s \in Scans |-> {}]
  /\ lost = [s \in Scans |-> {}] /\ overtaken = {}

Goes(s, p) == place' = [place EXCEPT ![s] = p]

\* What is kept for the ids is removed, unread.
LoseKept(ids) ==
  lost' = [s \in Scans |->
             lost[s] \cup UNION {Items(kept[c]) : c \in {d \in ids : d[1] = s}}]

\* Ids leave the registrations. A capture that has read their key goes on.
Unregister(ids) ==
  /\ regs' = regs \ ids /\ lapsed' = lapsed \ ids
  /\ overtaken' = overtaken \cup {c \in ids : Sealed(c) # {}}

-------------------------------------------------------------------------------
(* The scan registers *)

\* The server has the request; its answer may not get through.
Register(s, heard) ==
  /\ place[s] = "register"
  /\ LET c == <<s, tries[s] + 1>>
         ok == c \in regs \/ Cardinality(regs) < MaxRegs IN
       /\ regs' = IF ok THEN regs \cup {c} ELSE regs
       /\ tries' = [tries EXCEPT ![s] = @ + 1]
       /\ IF ok /\ heard
            THEN corr' = [corr EXCEPT ![s] = c] /\ Goes(s, "pass")
            ELSE UNCHANGED corr /\ (IF c[2] < Attempts THEN UNCHANGED place ELSE Goes(s, "pass"))
  /\ UNCHANGED <<lapsed, kept, handlers, parked, polls, hosts, found, history>>

\* The request does not reach the server.
RegisterLost(s) ==
  /\ place[s] = "register"
  /\ tries' = [tries EXCEPT ![s] = @ + 1]
  /\ IF tries[s] + 1 < Attempts THEN UNCHANGED place ELSE Goes(s, "pass")
  /\ UNCHANGED <<store, handlers, corr, parked, polls, hosts, found, history>>

-------------------------------------------------------------------------------
(* Payloads, and the target that calls back *)

Park(s, p) ==
  /\ place[s] = "pass" /\ corr[s] # Nobody /\ p \notin parked[s]
  /\ parked' = [parked EXCEPT ![s] = @ \cup {p}]
  /\ UNCHANGED <<store, handlers, place, tries, corr, polls, hosts, found, history>>

\* Mutant: the registration is not looked at.
CallBack_Unchecked(s, p) ==
  /\ p \in parked[s] /\ calls < MaxCalls /\ <<corr[s], p>> \notin sealing
  /\ calls' = calls + 1 /\ called' = [called EXCEPT ![s] = @ \cup {p}]
  /\ sealing' = sealing \cup {<<corr[s], p>>}
  /\ UNCHANGED <<store, expired, draining, leaving, scan, restarts, stored, lost, overtaken>>

\* capture: dropped unless the id is registered, and its time not over.
CallBack(s, p) ==
  /\ p \in parked[s] /\ calls < MaxCalls /\ <<corr[s], p>> \notin sealing
  /\ calls' = calls + 1 /\ called' = [called EXCEPT ![s] = @ \cup {p}]
  /\ sealing' = IF corr[s] \in regs \ lapsed THEN sealing \cup {<<corr[s], p>>} ELSE sealing
  /\ UNCHANGED <<store, expired, draining, leaving, scan, restarts, stored, lost, overtaken>>

\* Mutant: a callback replaces those before it.
Keep_Replaces(c, p) ==
  /\ <<c, p>> \in sealing /\ sealing' = sealing \ {<<c, p>>}
  /\ kept' = [kept EXCEPT ![c] = <<p>>]
  /\ stored' = [stored EXCEPT ![c[1]] = @ \cup {p}]
  /\ UNCHANGED <<regs, lapsed, expired, draining, leaving, scan, calls, restarts, called, lost,
                 overtaken>>

\* The end of capture. At the cap the oldest goes.
Keep(c, p) ==
  /\ <<c, p>> \in sealing /\ sealing' = sealing \ {<<c, p>>}
  /\ LET all == Append(kept[c], p)
         full == Len(all) > Cap IN
       /\ kept' = [kept EXCEPT ![c] = IF full THEN Tail(all) ELSE all]
       /\ lost' = IF full THEN [lost EXCEPT ![c[1]] = @ \cup {Head(all)}] ELSE lost
  /\ stored' = [stored EXCEPT ![c[1]] = @ \cup {p}]
  /\ UNCHANGED <<regs, lapsed, expired, draining, leaving, scan, calls, restarts, called,
                 overtaken>>

-------------------------------------------------------------------------------
(* The end of the pass *)

EndPass(s) ==
  /\ place[s] = "pass"
  /\ Goes(s, IF corr[s] = Nobody THEN "done" ELSE IF parked[s] = {} THEN "leave" ELSE "poll")
  /\ UNCHANGED <<store, handlers, tries, corr, parked, polls, hosts, found, history>>

\* An answer: the first that has anything in it ends the polling, like the last.
Answered(s, items, last) ==
  /\ hosts' = [hosts EXCEPT ![s] = items]
  /\ Goes(s, IF items # {} \/ last THEN "match" ELSE "poll")

\* poll's check of the secret; an id it does not know has an empty answer.
Poll(s) ==
  /\ place[s] = "poll"
  /\ polls' = [polls EXCEPT ![s] = @ + 1]
  /\ IF corr[s] \in regs
       THEN draining' = draining \cup {corr[s]} /\ Goes(s, "wait") /\ UNCHANGED hosts
       ELSE UNCHANGED draining /\ Answered(s, {}, polls[s] + 1 = Polls)
  /\ UNCHANGED <<store, sealing, expired, leaving, tries, corr, parked, found, history>>

\* The request does not reach the server.
PollLost(s) ==
  /\ place[s] = "poll"
  /\ polls' = [polls EXCEPT ![s] = @ + 1] /\ Answered(s, {}, polls[s] + 1 = Polls)
  /\ UNCHANGED <<store, handlers, tries, corr, parked, found, history>>

\* poll's end: what was kept is gone, whether or not anybody reads the answer.
Drain(c) ==
  /\ c \in draining /\ draining' = draining \ {c}
  /\ kept' = [kept EXCEPT ![c] = <<>>]
  /\ \/ /\ place[c[1]] = "wait" /\ Answered(c[1], Items(kept[c]), polls[c[1]] = Polls)
        /\ UNCHANGED <<lost, polls>>
     \/ LoseKept({c}) /\ UNCHANGED <<place, hosts, polls>>
  /\ UNCHANGED <<regs, lapsed, sealing, expired, leaving, tries, corr, parked, found, calls,
                 restarts, called, stored, overtaken>>

\* No answer in time.
GiveUp(s) ==
  /\ place[s] = "wait" /\ Answered(s, {}, polls[s] = Polls)
  /\ UNCHANGED <<store, handlers, tries, corr, parked, polls, found, history>>

Match(s) ==
  /\ place[s] = "match" /\ Goes(s, "leave")
  /\ found' = [found EXCEPT ![s] = parked[s] \cap hosts[s]]
  /\ UNCHANGED <<store, handlers, tries, corr, parked, polls, hosts, history>>

\* The request to deregister may be lost. The scan does not look at the answer.
Leave(s) ==
  /\ place[s] = "leave" /\ Goes(s, "done")
  /\ leaving' \in {leaving,
       IF corr[s] \in regs THEN [leaving EXCEPT ![corr[s]] = "checked"] ELSE leaving}
  /\ UNCHANGED <<store, sealing, expired, draining, tries, corr, parked, polls, hosts, found,
                 history>>

Deregister(c) ==
  /\ leaving[c] = "checked" /\ leaving' = [leaving EXCEPT ![c] = "removed"]
  /\ Unregister({c})
  /\ UNCHANGED <<kept, sealing, expired, draining, scan, calls, restarts, called, stored, lost>>

Discard(c) ==
  /\ leaving[c] = "removed" /\ leaving' = [leaving EXCEPT ![c] = "no"]
  /\ LoseKept({c}) /\ kept' = [kept EXCEPT ![c] = <<>>]
  /\ UNCHANGED <<regs, lapsed, sealing, expired, draining, scan, calls, restarts, called, stored,
                 overtaken>>

-------------------------------------------------------------------------------
(* Time, the collector, and a server that starts again *)

Lapse(c) ==
  /\ c \in regs \ lapsed /\ lapsed' = lapsed \cup {c}
  /\ UNCHANGED <<regs, kept, handlers, scan, history>>

\* Mutant: the collector takes what is kept only.
Collect_KeepsRegistrations ==
  /\ expired = {} /\ lapsed # {} /\ expired' = lapsed
  /\ UNCHANGED <<store, sealing, draining, leaving, scan, history>>

Collect ==
  /\ expired = {} /\ lapsed # {} /\ expired' = lapsed
  /\ Unregister(lapsed)
  /\ UNCHANGED <<kept, sealing, draining, leaving, scan, calls, restarts, called, stored, lost>>

Sweep ==
  /\ expired # {} /\ expired' = {}
  /\ LoseKept(expired)
  /\ kept' = [c \in Corrs |-> IF c \in expired THEN <<>> ELSE kept[c]]
  /\ UNCHANGED <<regs, lapsed, sealing, draining, leaving, scan, calls, restarts, called, stored,
                 overtaken>>

\* The store is in memory only.
Restart ==
  /\ restarts < MaxRestarts /\ restarts' = restarts + 1
  /\ regs' = {} /\ lapsed' = {} /\ kept' = [c \in Corrs |-> <<>>]
  /\ sealing' = {} /\ expired' = {} /\ draining' = {} /\ leaving' = [c \in Corrs |-> "no"]
  /\ LoseKept(Corrs)
  /\ UNCHANGED <<scan, calls, called, stored, overtaken>>

-------------------------------------------------------------------------------
ScanStep(s) ==
  \/ (\E heard \in BOOLEAN : Register(s, heard)) \/ RegisterLost(s) \/ EndPass(s)
  \/ Poll(s) \/ PollLost(s) \/ GiveUp(s) \/ Match(s) \/ Leave(s)
ServerStep(c) ==
  Drain(c) \/ Deregister(c) \/ Discard(c) \/ \E p \in Payloads : Keep(c, p)
Collector == Collect \/ Sweep

Next ==
  \/ \E s \in Scans : ScanStep(s) \/ \E p \in Payloads : Park(s, p) \/ CallBack(s, p)
  \/ \E c \in Corrs : ServerStep(c) \/ Lapse(c)
  \/ Collector \/ Restart

Spec == Init /\ [][Next]_vars

\* A scan goes on, its requests have deadlines, the server's calls run to their end, time
\* passes, and the collector's timer ticks.
FairSpec ==
  /\ Spec
  /\ \A s \in Scans : WF_vars(ScanStep(s))
  /\ \A c \in Corrs : WF_vars(ServerStep(c)) /\ WF_vars(Lapse(c))
  /\ WF_vars(Collector)

-------------------------------------------------------------------------------
\* Every variable has its type: among others, no more ids are registered, and no more is
\* kept for one of them, than the server allows.
TypeOK ==
  /\ regs \subseteq Corrs /\ lapsed \subseteq regs /\ Cardinality(regs) <= MaxRegs
  /\ kept \in [Corrs -> Seq(Payloads)] /\ \A c \in Corrs : Len(kept[c]) <= Cap
  /\ sealing \subseteq Corrs \X Payloads /\ expired \subseteq Corrs /\ draining \subseteq Corrs
  /\ leaving \in [Corrs -> {"no", "checked", "removed"}]
  /\ place \in [Scans -> {"register", "pass", "poll", "wait", "match", "leave", "done"}]
  /\ tries \in [Scans -> 0..Attempts] /\ corr \in [Scans -> Corrs \cup {Nobody}]
  /\ polls \in [Scans -> 0..Polls]
  /\ parked \in [Scans -> SUBSET Payloads] /\ hosts \in [Scans -> SUBSET Payloads]
  /\ found \in [Scans -> SUBSET Payloads] /\ called \in [Scans -> SUBSET Payloads]
  /\ stored \in [Scans -> SUBSET Payloads] /\ lost \in [Scans -> SUBSET Payloads]
  /\ calls \in 0..MaxCalls /\ restarts \in 0..MaxRestarts /\ overtaken \subseteq Corrs

\* A callback is proof: what a scan reports was called back for with its own marker, and
\* not with that of another scan (poll_hosts).
FoundCalledBack == \A s \in Scans : found[s] \subseteq called[s]

\* A callback that the store took in is kept, or was read, or somebody gave it up: the
\* store at its cap, a poll whose answer nobody read, the end of the id or of the server.
\* Captures, polls and the collector never lose one between them.
EveryCallbackIsAccountedFor ==
  \A s \in Scans :
    stored[s] \subseteq
      hosts[s] \cup lost[s] \cup UNION {Items(kept[c]) : c \in {d \in Corrs : d[1] = s}}

\* Callbacks for an id that is not registered are dropped, so nothing is kept for one: but
\* for an id that is being taken out, and one that ended while a capture had its key.
UnregisteredIsDropped ==
  \A c \in Corrs :
    kept[c] # <<>> => c \in regs \cup expired \cup overtaken \/ leaving[c] = "removed"

\* Every registration comes to its end, whether or not its scan gives it back.
RegistrationsEnd == \A c \in Corrs : c \in regs ~> c \notin regs

===============================================================================
