------------------------------ MODULE NodeEgress ------------------------------
(* Where a node's traffic leaves from: core/src/egress/state.rs (EgressState)   *)
(* and the three places of core/src/lib.rs that use it: run_operation, the      *)
(* select loop of run_daemon and while_direct.                                  *)
(*                                                                              *)
(* The platform keeps numbered egress settings for the node. It announces each  *)
(* change on plain NATS, where an announcement sent while the connection is     *)
(* down is lost, and hands the settings over HTTP when asked. The node holds a  *)
(* copy (current), what it knows of being behind (stale), and decides for every *)
(* operation, Bench send and .cfx job whether it goes out directly, through a   *)
(* proxy, or not at all.                                                        *)
(*                                                                              *)
(* Tasks run on a multi-threaded runtime: each read or write of a field of      *)
(* EgressState that its own lock protects is a step, and steps of different     *)
(* tasks interleave.                                                            *)
EXTENDS Naturals, Sequences

CONSTANTS
  Ops,              \* operations the node is handed, each run once
  CfxJobs,          \* .cfx jobs the node is sent, each run once
  Proxies,          \* the platform's ids of proxies
  MaxRev,           \* bound: the last revision the platform reaches
  SettingAt,        \* the setting the platform keeps at each revision
  MaxDrops,         \* bound: how often the NATS connection drops
  MaxReauths,       \* bound: how many six-day credential refreshes happen
  UnnamedChanges,   \* whether a change may be announced without its revision
  BenchSends        \* whether the operator sends from the Bench

Main == "main"      \* the select loop of run_daemon
Poll == "poll"      \* the keep_current task
Direct == "direct"
Unusable == "unusable"
NoProxy == "no proxy"
NoOne == "no one"

Settings == {Direct, Unusable} \cup Proxies
Revs == 0 .. MaxRev

ASSUME BoundsAssumption ==
  /\ MaxRev \in Nat /\ MaxDrops \in Nat /\ MaxReauths \in Nat
  /\ {UnnamedChanges, BenchSends} \subseteq BOOLEAN
ASSUME SettingsAssumption ==
  /\ {Direct, Unusable, NoProxy} \cap Proxies = {}
  /\ SettingAt \in [Revs -> Settings]
  /\ SettingAt[0] = Direct   \* a node the platform keeps no settings for is direct
ASSUME TasksAssumption ==
  /\ Ops \cap CfxJobs = {}
  /\ {Main, Poll, NoOne} \cap (Ops \cup CfxJobs) = {}

Tasks == Ops \cup CfxJobs \cup {Main, Poll}

VARIABLES
  \* the platform
  served,           \* it is new enough to keep egress settings
  rev,              \* the revision of the settings it keeps for this node
  inbox,            \* announcements delivered and not yet taken by the select loop
  \* the NATS connection: up, lost and not yet noticed, or down
  link, drops,
  \* EgressState
  current, stale, lastFailure, refreshing, platformHasSettings,
  \* the tasks
  handling,         \* the branch of the select loop that is running
  pc,               \* where each task is
  want,             \* what the operation or Bench send was dispatched expecting
  seen,             \* the settings a task read and goes on with
  got,              \* the answer a task's request was given
  reauths,
  \* history, read by no task
  floor,            \* told, when the task began to ask which settings to run on
  told,             \* the highest revision an announcement the node took named
  doubted           \* whether the node was ever unsure or refreshed its credentials

platform == <<served, rev, inbox>>
nats == <<link, drops>>
egress == <<current, stale, lastFailure, platformHasSettings>>
locals == <<want, seen, got, floor>>
history == <<told, doubted>>
vars == <<platform, nats, egress, refreshing, handling, pc, locals, reauths, history>>

-------------------------------------------------------------------------------
(* Values *)

NodeSettings == [rev : Revs, setting : Settings]
At(r) == [rev |-> r, setting |-> SettingAt[r]]
NodeDirect == [rev |-> 0, setting |-> Direct]

\* Why the node knows it may be behind: the enum Stale, and None.
Current == [kind |-> "none", rev |-> 0]
Rev(r) == [kind |-> "rev", rev |-> r]
Unsure == [kind |-> "unsure", rev |-> 0]
Staleness == {Current, Unsure} \cup {Rev(r) : r \in Revs}

\* What the node makes of an HTTP answer.
Answers == [kind : {"settings", "null", "unreadable", "failed"}, rev : Revs]
Answer(kind, r) == [kind |-> kind, rev |-> r]
NoAnswer == Answer("failed", 0)

\* Expect: the proxy and revision an operation was dispatched for. An older
\* dispatch path gives none.
Expectations == [given : BOOLEAN, rev : Revs, proxy : Proxies \cup {NoProxy}]
NoExpect == [given |-> FALSE, rev |-> 0, proxy |-> NoProxy]
Expect(r) == [given |-> TRUE, rev |-> r,
              proxy |-> IF SettingAt[r] \in Proxies THEN SettingAt[r] ELSE NoProxy]

Announcements == [rev : Revs, named : BOOLEAN]

Larger(a, b) == IF a >= b THEN a ELSE b

\* mark_stale: being unsure absorbs everything, and of two revisions the larger stays.
Marked(old, s) ==
  IF Unsure \in {old, s} THEN Unsure
  ELSE IF old = Current THEN s
  ELSE Rev(Larger(old.rev, s.rev))

\* The closure "behind" of fresh: the caller expects more, or the node knows it is behind.
Behind(w, cur, s) ==
  \/ w.given /\ w.rev > cur.rev
  \/ s = Unsure
  \/ s.kind = "rev" /\ s.rev > cur.rev

\* Mutant: any fetch settles everything.
StillStale_Never(s, r) == Current

\* What is left of stale once settings of revision r were fetched.
StillStale(s, r) == IF s.kind = "rev" /\ s.rev > r THEN s ELSE Current

\* Mutant: a direct node runs what was dispatched for a proxy.
Decision_DirectIsFine(w, cur) ==
  IF \/ cur.setting = Unusable
     \/ cur.setting # Direct /\ w.proxy # NoProxy /\ cur.setting # w.proxy
  THEN "refused"
  ELSE IF cur.setting = Direct THEN "direct" ELSE "proxied"

\* decide: where a task with expectation w goes under the settings it ended up with.
Decision(w, cur) ==
  IF \/ cur.setting = Unusable
     \/ w.proxy # NoProxy /\ cur.setting # w.proxy
  THEN "refused"
  ELSE IF cur.setting = Direct THEN "direct" ELSE "proxied"

\* Tasks that run EgressState::fresh: an operation, and the select loop in a Bench send.
Fresh(t) == t \in Ops \/ (t = Main /\ handling = "repeater")

Going(t, where) == pc' = [pc EXCEPT ![t] = where]

\* A task that is over, or that took the answer to its request in, drops what it read.
ForgetAnswer(t) == got' = [got EXCEPT ![t] = NoAnswer]
Forget(t) ==
  /\ want' = [want EXCEPT ![t] = NoExpect]
  /\ seen' = [seen EXCEPT ![t] = NodeDirect]
  /\ floor' = [floor EXCEPT ![t] = 0]

-------------------------------------------------------------------------------
(* Init: the node has authorized itself, so it holds what the platform answered *)

Init ==
  /\ served \in BOOLEAN /\ rev = 0 /\ inbox = <<>>
  /\ link = "up" /\ drops = 0
  /\ \E readable \in BOOLEAN :
       /\ served \/ readable
       /\ current = [rev |-> 0, setting |-> IF readable THEN Direct ELSE Unusable]
       /\ stale = IF readable THEN Current ELSE Unsure
       /\ doubted = ~readable
  /\ platformHasSettings = served
  /\ lastFailure = FALSE /\ refreshing = NoOne
  /\ handling = "nothing" /\ pc = [t \in Tasks |-> "idle"]
  /\ want = [t \in Tasks |-> NoExpect]
  /\ seen = [t \in Tasks |-> NodeDirect]
  /\ got = [t \in Tasks |-> NoAnswer]
  /\ reauths = 0
  /\ told = 0 /\ floor = [t \in Tasks |-> 0]

-------------------------------------------------------------------------------
(* The platform and the connection to it *)

\* A controller older than proxies is upgraded while the node runs.
Upgrade ==
  /\ ~served /\ served' = TRUE
  /\ UNCHANGED <<rev, inbox, nats, egress, refreshing, handling, pc, locals, reauths, history>>

\* The operator changes the node's egress; the announcement arrives only if the
\* connection is up.
Change ==
  /\ served /\ rev < MaxRev
  /\ rev' = rev + 1
  /\ \E named \in (IF UnnamedChanges THEN BOOLEAN ELSE {TRUE}) :
       inbox' = IF link = "up" THEN Append(inbox, [rev |-> rev + 1, named |-> named]) ELSE inbox
  /\ UNCHANGED <<served, nats, egress, refreshing, handling, pc, locals, reauths, history>>

Drop ==
  /\ link = "up" /\ drops < MaxDrops
  /\ link' = "lost" /\ drops' = drops + 1
  /\ UNCHANGED <<platform, egress, refreshing, handling, pc, locals, reauths, history>>

\* The client notices, and its event callback calls connection_lost.
ConnectionLost ==
  /\ link = "lost" /\ link' = "down"
  /\ IF platformHasSettings
       THEN stale' = Marked(stale, Unsure) /\ doubted' = TRUE
       ELSE UNCHANGED <<stale, doubted>>
  /\ UNCHANGED <<platform, drops, current, lastFailure, platformHasSettings, refreshing,
                 handling, pc, locals, reauths, told>>

Reconnect ==
  /\ link = "down" /\ link' = "up"
  /\ UNCHANGED <<platform, drops, egress, refreshing, handling, pc, locals, reauths, history>>

-------------------------------------------------------------------------------
(* fetch_and_apply, under the lock "refreshing" *)

\* Mutant: the lock does not exclude.
Lock_Shared(t) ==
  /\ pc[t] = "lock"
  /\ refreshing' = t
  /\ Going(t, IF Fresh(t) THEN "read locked" ELSE "ask")
  /\ UNCHANGED <<platform, nats, egress, handling, locals, reauths, history>>

Lock(t) ==
  /\ pc[t] = "lock" /\ refreshing = NoOne
  /\ refreshing' = t
  /\ Going(t, IF Fresh(t) THEN "read locked" ELSE "ask")
  /\ UNCHANGED <<platform, nats, egress, handling, locals, reauths, history>>

\* post_settings: the platform reads its settings now; the node has the answer later.
Ask(t, answer) ==
  /\ pc[t] = "ask"
  /\ got' = [got EXCEPT ![t] = answer]
  /\ Going(t, "answered")
  /\ UNCHANGED <<platform, nats, egress, refreshing, handling, want, seen, floor, reauths,
                 history>>

AskAnswered(t) == served /\ Ask(t, Answer("settings", rev))
AskFails(t) == Ask(t, NoAnswer)

\* The Ok arm up to "set": what the node knows of being behind is settled first.
Settle(t) ==
  /\ pc[t] = "answered" /\ got[t].kind = "settings"
  /\ platformHasSettings' = TRUE
  /\ lastFailure' = FALSE
  /\ stale' = StillStale(stale, got[t].rev)
  /\ Going(t, "set")
  /\ UNCHANGED <<platform, nats, current, refreshing, handling, locals, reauths, history>>

\* The Err arm. An operation refused for it keeps the revision it expected in mind.
FetchFailed(t) ==
  /\ pc[t] = "answered" /\ got[t].kind = "failed"
  /\ lastFailure' = TRUE
  /\ refreshing' = NoOne
  /\ stale' = IF Fresh(t) /\ want[t].given THEN Marked(stale, Rev(want[t].rev)) ELSE stale
  /\ Going(t, IF t \in Ops THEN "refused" ELSE "idle")
  /\ handling' = IF t = Main THEN "nothing" ELSE handling
  /\ Forget(t) /\ ForgetAnswer(t)
  /\ UNCHANGED <<platform, nats, current, platformHasSettings, reauths, history>>

\* set; keep_current and the egress_changed handler end here, and fresh reads again.
Set(t) ==
  /\ pc[t] = "set"
  /\ current' = At(got[t].rev)
  /\ IF Fresh(t)
       THEN /\ Going(t, "read fetched")
            /\ UNCHANGED <<refreshing, handling>>
       ELSE /\ Going(t, "idle")
            /\ refreshing' = NoOne
            /\ handling' = IF t = Main THEN "nothing" ELSE handling
  /\ ForgetAnswer(t)
  /\ UNCHANGED <<platform, nats, stale, lastFailure, platformHasSettings, want, seen, floor, reauths,
                 history>>

-------------------------------------------------------------------------------
(* fresh and decide: current is read, then stale, three times at most *)

Read(t) ==
  /\ pc[t] \in {"read", "read locked", "read fetched"}
  /\ seen' = [seen EXCEPT ![t] = current]
  /\ Going(t, CASE pc[t] = "read" -> "check"
                [] pc[t] = "read locked" -> "check locked"
                [] pc[t] = "read fetched" -> "check fetched")
  /\ UNCHANGED <<platform, nats, egress, refreshing, handling, want, got, floor, reauths, history>>

\* Not behind: the task goes where decide says, and gives the lock back if it has it.
GoOut(t) ==
  /\ pc[t] \in {"check", "check locked", "check fetched"}
  /\ ~Behind(want[t], seen[t], stale)
  /\ Decision(want[t], seen[t]) # "refused"
  /\ Going(t, Decision(want[t], seen[t]))
  /\ refreshing' = IF refreshing = t THEN NoOne ELSE refreshing
  /\ UNCHANGED <<platform, nats, egress, handling, locals, reauths, history>>

\* The ways out of fresh and decide that refuse: an operation is over, and the select
\* loop has answered the Bench send.
Refuse(t) ==
  /\ Going(t, IF t = Main THEN "idle" ELSE "refused")
  /\ handling' = IF t = Main THEN "nothing" ELSE handling
  /\ refreshing' = IF refreshing = t THEN NoOne ELSE refreshing
  /\ Forget(t)
  /\ UNCHANGED <<platform, nats, current, platformHasSettings, got, reauths, history>>

DecideRefuses(t) ==
  /\ pc[t] \in {"check", "check locked", "check fetched"}
  /\ ~Behind(want[t], seen[t], stale)
  /\ Decision(want[t], seen[t]) = "refused"
  /\ Refuse(t)
  /\ UNCHANGED <<stale, lastFailure>>

BehindSoLock(t) ==
  /\ pc[t] = "check" /\ Behind(want[t], seen[t], stale)
  /\ Going(t, "lock")
  /\ UNCHANGED <<platform, nats, egress, refreshing, handling, locals, reauths, history>>

\* Mutant: asks again however recent the last failure.
BehindSoAsk_AtOnce(t) ==
  /\ pc[t] = "check locked" /\ Behind(want[t], seen[t], stale)
  /\ Going(t, "ask")
  /\ UNCHANGED <<platform, nats, egress, refreshing, handling, locals, reauths, history>>

BehindSoAsk(t) ==
  /\ pc[t] = "check locked" /\ Behind(want[t], seen[t], stale)
  /\ ~lastFailure
  /\ Going(t, "ask")
  /\ UNCHANGED <<platform, nats, egress, refreshing, handling, locals, reauths, history>>

\* A fetch failed less than RETRY_AFTER ago: refused as that one was.
BehindSoRefuse(t) ==
  /\ pc[t] = "check locked" /\ Behind(want[t], seen[t], stale)
  /\ lastFailure
  /\ stale' = IF want[t].given THEN Marked(stale, Rev(want[t].rev)) ELSE stale
  /\ Refuse(t)
  /\ UNCHANGED lastFailure

\* The answer is older than what the node was told meanwhile: refused, and the next
\* ones wait as after a failed fetch.
StillBehind(t) ==
  /\ pc[t] = "check fetched" /\ Behind(want[t], seen[t], stale)
  /\ lastFailure' = TRUE
  /\ Refuse(t)
  /\ UNCHANGED stale

\* RETRY_AFTER has passed since the last failure.
RetryWindowEnds ==
  /\ lastFailure /\ lastFailure' = FALSE
  /\ UNCHANGED <<platform, nats, current, stale, platformHasSettings, refreshing, handling, pc,
                 locals, reauths, history>>

-------------------------------------------------------------------------------
(* Operations: run_operation up to the end of while_direct *)

\* What an operation or a Bench send may carry: nothing, or what was true of the
\* platform when it was dispatched.
Dispatched == {NoExpect} \cup (IF served THEN {Expect(r) : r \in 0 .. rev} ELSE {})

\* An operation reaches for_op.
StartOp(o) ==
  /\ pc[o] = "idle"
  /\ \E w \in Dispatched : want' = [want EXCEPT ![o] = w]
  /\ floor' = [floor EXCEPT ![o] = told]
  /\ Going(o, "read")
  /\ UNCHANGED <<platform, nats, egress, refreshing, handling, seen, got, reauths, history>>

Finish(t) ==
  /\ t \in Ops \cup CfxJobs /\ pc[t] \in {"direct", "proxied"}
  /\ Going(t, "done") /\ Forget(t)
  /\ UNCHANGED <<platform, nats, egress, refreshing, handling, got, reauths, history>>

\* Mutant: only a usable proxy stops direct work.
StopDirect_UsableOnly(t) ==
  /\ t \in Ops \cup CfxJobs /\ pc[t] = "direct"
  /\ current.setting \in Proxies
  /\ Going(t, "stopped") /\ Forget(t)
  /\ UNCHANGED <<platform, nats, egress, refreshing, handling, got, reauths, history>>

\* while_direct: until_not_direct resolves first.
StopDirect(t) ==
  /\ t \in Ops \cup CfxJobs /\ pc[t] = "direct"
  /\ current.setting # Direct
  /\ Going(t, "stopped") /\ Forget(t)
  /\ UNCHANGED <<platform, nats, egress, refreshing, handling, got, reauths, history>>

-------------------------------------------------------------------------------
(* The select loop of run_daemon: one branch at a time, each awaited *)

Free == pc[Main] = "idle" /\ handling = "nothing"

\* egress_changed: announce. A named revision the node already has changes nothing;
\* either way the settings are then fetched.
Announce ==
  /\ Free /\ inbox # <<>>
  /\ handling' = "egress_changed"
  /\ platformHasSettings' = TRUE
  /\ IF Head(inbox).named /\ Head(inbox).rev <= current.rev
       THEN /\ Going(Main, "lock")
            /\ inbox' = Tail(inbox)
            /\ told' = Larger(told, Head(inbox).rev)
       ELSE /\ Going(Main, "mark")
            /\ UNCHANGED <<inbox, told>>
  /\ UNCHANGED <<served, rev, nats, current, stale, lastFailure, refreshing, locals, reauths,
                 doubted>>

MarkAnnounced ==
  /\ pc[Main] = "mark" /\ inbox # <<>>   \* the message being handled is its head
  /\ stale' = Marked(stale, IF Head(inbox).named THEN Rev(Head(inbox).rev) ELSE Unsure)
  /\ told' = IF Head(inbox).named THEN Larger(told, Head(inbox).rev) ELSE told
  /\ doubted' = (doubted \/ ~Head(inbox).named)
  /\ inbox' = Tail(inbox)
  /\ Going(Main, "lock")
  /\ UNCHANGED <<served, rev, nats, current, lastFailure, platformHasSettings, refreshing,
                 handling, locals, reauths>>

\* repeater: the send is decided as an operation is, and nothing watches it.
StartBench ==
  /\ Free /\ BenchSends
  /\ handling' = "repeater"
  /\ \E w \in Dispatched : want' = [want EXCEPT ![Main] = w]
  /\ floor' = [floor EXCEPT ![Main] = told]
  /\ Going(Main, "read")
  /\ UNCHANGED <<platform, nats, egress, refreshing, seen, got, reauths, history>>

BenchSent ==
  /\ pc[Main] \in {"direct", "proxied"}
  /\ Going(Main, "idle") /\ handling' = "nothing" /\ Forget(Main)
  /\ UNCHANGED <<platform, nats, egress, refreshing, got, reauths, history>>

\* execute: sends_through_proxy reads current and, when that says direct, stale.
Execute(c) ==
  /\ Free /\ pc[c] = "idle"
  /\ IF current.setting = Direct
       THEN /\ Going(c, "check execute") /\ handling' = "execute"
            /\ seen' = [seen EXCEPT ![c] = current]
            /\ floor' = [floor EXCEPT ![c] = told]
       ELSE /\ Going(c, "refused")
            /\ UNCHANGED <<handling, seen, floor>>
  /\ UNCHANGED <<platform, nats, egress, refreshing, want, got, reauths, history>>

\* Mutant: direct settings are enough, stale or not.
ExecuteChecked_StaleIsFine(c) ==
  /\ pc[c] = "check execute"
  /\ Going(c, "direct")
  /\ handling' = "nothing"
  /\ UNCHANGED <<platform, nats, egress, refreshing, locals, reauths, history>>

ExecuteChecked(c) ==
  /\ pc[c] = "check execute"
  /\ IF stale = Current
       THEN Going(c, "direct") /\ UNCHANGED <<want, seen, floor>>
       ELSE Going(c, "refused") /\ Forget(c)
  /\ handling' = "nothing"
  /\ UNCHANGED <<platform, nats, egress, refreshing, got, reauths, history>>

\* The six-day tick: refresh_node_state, which ends in apply_authorize. It takes no
\* lock. A refresh that fails changes nothing here.
Reauthorize ==
  /\ Free /\ reauths < MaxReauths
  /\ reauths' = reauths + 1 /\ doubted' = TRUE
  /\ handling' = "refresh_node_state"
  /\ \E answer \in IF served THEN {Answer("settings", rev), Answer("unreadable", 0)}
                             ELSE {Answer("null", 0)} :
       got' = [got EXCEPT ![Main] = answer]
  /\ Going(Main, "authorized")
  /\ UNCHANGED <<platform, nats, egress, refreshing, want, seen, floor, told>>

ApplyAuthorize ==
  /\ pc[Main] = "authorized"
  /\ platformHasSettings' = (platformHasSettings \/ got[Main].kind # "null")
  /\ current' = CASE got[Main].kind = "settings" -> At(got[Main].rev)
                  [] got[Main].kind = "null" -> NodeDirect
                  [] OTHER -> [current EXCEPT !.setting = Unusable]
  /\ Going(Main, "authorize applied")
  /\ UNCHANGED <<platform, nats, stale, lastFailure, refreshing, handling, locals, reauths, history>>

\* The second half of apply_authorize.
AuthorizeSettles ==
  /\ pc[Main] = "authorize applied"
  /\ stale' = IF got[Main].kind = "unreadable" THEN Marked(stale, Unsure) ELSE Current
  /\ Going(Main, "idle") /\ handling' = "nothing" /\ ForgetAnswer(Main)
  /\ UNCHANGED <<platform, nats, current, lastFailure, platformHasSettings, refreshing, want, seen,
                 floor, reauths, history>>

-------------------------------------------------------------------------------
(* keep_current: its timer or a reconnect wakes it, whatever the node has; it goes  *)
(* back to sleep while the platform never showed that it keeps settings             *)

\* Mutant: the settings are fetched again only when they are known to be stale.
Wake_OnlyIfStale ==
  /\ pc[Poll] = "idle"
  /\ Going(Poll, IF platformHasSettings /\ stale # Current THEN "lock" ELSE "idle")
  /\ UNCHANGED <<platform, nats, egress, refreshing, handling, locals, reauths, history>>

Wake ==
  /\ pc[Poll] = "idle"
  /\ Going(Poll, IF platformHasSettings THEN "lock" ELSE "idle")
  /\ UNCHANGED <<platform, nats, egress, refreshing, handling, locals, reauths, history>>

-------------------------------------------------------------------------------

World == Upgrade \/ Change \/ Drop \/ ConnectionLost \/ Reconnect

Fetching(t) ==
  Lock(t) \/ AskAnswered(t) \/ AskFails(t) \/ Settle(t) \/ FetchFailed(t) \/ Set(t)

Deciding(t) ==
  \/ Read(t) \/ GoOut(t) \/ DecideRefuses(t)
  \/ BehindSoLock(t) \/ BehindSoAsk(t) \/ BehindSoRefuse(t) \/ StillBehind(t)

Running(t) == Finish(t) \/ StopDirect(t)

Looping ==
  \/ Announce \/ MarkAnnounced \/ StartBench \/ BenchSent
  \/ \E c \in CfxJobs : Execute(c) \/ ExecuteChecked(c)
  \/ Reauthorize \/ ApplyAuthorize \/ AuthorizeSettles

Next ==
  \/ World \/ RetryWindowEnds \/ Wake \/ Looping
  \/ \E o \in Ops : StartOp(o)
  \/ \E t \in Tasks : Fetching(t) \/ Deciding(t) \/ Running(t)

Spec == Init /\ [][Next]_vars

\* What a task does next when nothing but the runtime holds it up.
GoesOn(t) ==
  \/ AskAnswered(t) \/ AskFails(t) \/ Settle(t) \/ FetchFailed(t) \/ Set(t)
  \/ Deciding(t) \/ StopDirect(t)
  \/ t = Main /\ (MarkAnnounced \/ BenchSent \/ ApplyAuthorize \/ AuthorizeSettles)

\* The runtime runs every task that can go on, and the keep_current timer fires; the
\* lock is a fair one, so a task that waits for it gets it; the client reconnects; a
\* platform that keep_current asks for ever answers it for ever. Nothing is assumed of
\* announcements: no property rests on one being delivered or taken.
Fairness ==
  /\ WF_vars(ConnectionLost \/ Reconnect)
  /\ WF_vars(Wake) /\ SF_vars(AskAnswered(Poll))
  /\ \A t \in Ops \cup {Poll} : SF_vars(Lock(t))
  /\ \A t \in Tasks : WF_vars(GoesOn(t))

FairSpec == Spec /\ Fairness

-------------------------------------------------------------------------------
(* Types *)

FetchPlaces == {"ask", "answered", "set"}
LockedPlaces == FetchPlaces \cup {"read locked", "check locked", "read fetched", "check fetched"}
FreshPlaces == {"read", "check", "read locked", "check locked", "read fetched", "check fetched"}
EndPlaces == {"direct", "proxied", "refused", "stopped", "done"}
MainPlaces == {"mark", "authorized", "authorize applied"}
Places == {"idle", "lock", "check execute"} \cup LockedPlaces \cup FreshPlaces \cup EndPlaces
            \cup MainPlaces
Handlings == {"nothing", "egress_changed", "repeater", "execute", "refresh_node_state"}

\* Every variable holds a value of its type: of what a fetch, an operation's expectation
\* and mark_stale leave behind, nothing is out of the range of revisions the platform has.
TypeOK ==
  /\ served \in BOOLEAN /\ rev \in Revs /\ inbox \in Seq(Announcements)
  /\ link \in {"up", "lost", "down"} /\ drops \in Nat
  /\ current \in NodeSettings /\ stale \in Staleness
  /\ lastFailure \in BOOLEAN /\ platformHasSettings \in BOOLEAN
  /\ refreshing \in Tasks \cup {NoOne}
  /\ handling \in Handlings /\ pc \in [Tasks -> Places]
  /\ want \in [Tasks -> Expectations] /\ seen \in [Tasks -> NodeSettings]
  /\ got \in [Tasks -> Answers] /\ reauths \in Nat
  /\ told \in Revs /\ floor \in [Tasks -> Revs] /\ doubted \in BOOLEAN

-------------------------------------------------------------------------------
(* Safety *)

Sending == {"direct", "proxied"}
Installing(r) == \E t \in Tasks : pc[t] = "set" /\ got[t].rev >= r
Kept(r) ==
  \/ current.rev >= r
  \/ stale = Unsure
  \/ stale.kind = "rev" /\ stale.rev >= r
  \/ Installing(r)

\* A node that was only ever told of revisions by number never forgets one: until it
\* holds settings that new it knows that it is behind, or it is just installing them
\* (announce, mark_stale and the stale half of fetch_and_apply).
KnowsItIsBehind == ~doubted => Kept(told)

\* On such a node an operation, .cfx job or Bench send that goes out under settings
\* older than it had been told of does so only while those are being replaced: fresh
\* and sends_through_proxy read current and stale one after the other.
OldOnlyWhileReplaced ==
  ~doubted => \A t \in Tasks :
    pc[t] \in Sending /\ seen[t].rev < floor[t]
      => current.rev >= floor[t] \/ Installing(floor[t])

\* What goes out does so as it was dispatched to: through the proxy it named, under
\* settings at least as new as it was sent with, and never on settings the node
\* cannot use (fresh and decide together).
ExpectationHonoured ==
  \A t \in Tasks : pc[t] \in Sending =>
    /\ want[t].given => seen[t].rev >= want[t].rev
    /\ want[t].proxy # NoProxy => pc[t] = "proxied" /\ seen[t].setting = want[t].proxy
    /\ pc[t] = "direct" <=> seen[t].setting = Direct
    /\ seen[t].setting # Unusable

\* Between taking the lock and giving it back a task is alone in the fetch, whichever
\* way it leaves (refresh, and every return of fresh).
OneFetchAtATime == \A t \in Tasks : pc[t] \in LockedPlaces <=> refreshing = t

\* Operations that queue behind a platform that does not answer do not ask it one
\* after the other: one that asks knows of no failure in the last RETRY_AFTER.
OpsDoNotHammer == \A o \in Ops : pc[o] = "ask" => ~lastFailure

\* Fetched settings replace older ones, never newer: the lock spans the request, its
\* answer and the installation (refresh, fresh). Only apply_authorize works outside it.
InstallsInOrder == [][reauths' = 0 => current'.rev >= current.rev]_vars

-------------------------------------------------------------------------------
(* Liveness, under FairSpec *)

\* Whatever was lost, the node ends up with the platform's settings and knows it:
\* keep_current makes up for lost announcements, failed fetches and doubts.
CatchesUp == <>[](platformHasSettings => current = At(rev) /\ stale = Current)

\* Once the platform has set the node to something other than direct for good, work
\* that was sending from the node's own address stops, even when the announcement
\* was lost (keep_current, then until_not_direct in while_direct).
NoDirectWorkOutlivesASwitch ==
  \A t \in Ops \cup CfxJobs :
    (rev = MaxRev /\ SettingAt[MaxRev] # Direct /\ platformHasSettings) ~> pc[t] # "direct"

===============================================================================
