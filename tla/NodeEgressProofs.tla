-------------------------- MODULE NodeEgressProofs --------------------------
(* Proofs about NodeEgress for every set of operations and jobs, every history *)
(* of settings and every bound.                                                *)
EXTENDS NodeEgress, SequenceTheorems, TLAPS

USE BoundsAssumption, SettingsAssumption, TasksAssumption

-----------------------------------------------------------------------------
(* What the operators the steps are built from return *)

LEMMA MarkedType == ASSUME NEW s \in Staleness, NEW m \in Staleness
                    PROVE  Marked(s, m) \in Staleness
BY DEF Marked, Staleness, Larger, Current, Unsure, Rev, Revs

LEMMA StillStaleType == ASSUME NEW s \in Staleness, NEW r \in Revs
                        PROVE  StillStale(s, r) \in Staleness
BY DEF StillStale, Staleness, Current

LEMMA AtType == ASSUME NEW r \in Revs PROVE At(r) \in NodeSettings
BY DEF At, NodeSettings, Revs

LEMMA ConstantTypes ==
  /\ NoExpect \in Expectations /\ NoAnswer \in Answers /\ NodeDirect \in NodeSettings
  /\ Current \in Staleness /\ Unsure \in Staleness
  /\ \A r \in Revs : Rev(r) \in Staleness /\ Expect(r) \in Expectations
  /\ 0 \in Revs
<1>1. 0 \in Revs BY DEF Revs
<1>2. NoExpect \in Expectations BY <1>1 DEF NoExpect, Expectations
<1>3. NoAnswer \in Answers BY <1>1 DEF NoAnswer, Answers, Answer
<1>4. NodeDirect \in NodeSettings BY <1>1 DEF NodeDirect, NodeSettings, Settings
<1>5. Current \in Staleness /\ Unsure \in Staleness BY DEF Staleness
<1>6. ASSUME NEW r \in Revs PROVE Rev(r) \in Staleness /\ Expect(r) \in Expectations
  <2>1. Rev(r) \in Staleness BY DEF Staleness
  <2>2. Expect(r) \in Expectations BY DEF Expect, Expectations
  <2>. QED BY <2>1, <2>2
<1>. QED BY <1>1, <1>2, <1>3, <1>4, <1>5, <1>6

-----------------------------------------------------------------------------
(* Types *)

LEMMA InitType == Init => TypeOK
<1> SUFFICES ASSUME Init PROVE TypeOK
  OBVIOUS
<1>1. inbox \in Seq(Announcements) BY DEF Init
<1>2. current \in NodeSettings
  <2>1. PICK readable \in BOOLEAN :
          current = [rev |-> 0, setting |-> IF readable THEN Direct ELSE Unusable]
    BY DEF Init
  <2>2. (IF readable THEN Direct ELSE Unusable) \in Settings BY DEF Settings
  <2>. QED BY <2>1, <2>2, ConstantTypes DEF NodeSettings
<1>3. stale \in Staleness /\ doubted \in BOOLEAN BY ConstantTypes DEF Init
<1>4. /\ pc \in [Tasks -> Places] /\ want \in [Tasks -> Expectations]
      /\ seen \in [Tasks -> NodeSettings] /\ got \in [Tasks -> Answers]
      /\ floor \in [Tasks -> Revs]
  BY ConstantTypes DEF Init, Places
<1>5. /\ served \in BOOLEAN /\ rev \in Revs /\ link \in {"up", "lost", "down"} /\ drops \in Nat
      /\ lastFailure \in BOOLEAN /\ platformHasSettings \in BOOLEAN
      /\ refreshing \in Tasks \cup {NoOne} /\ handling \in Handlings
      /\ reauths \in Nat /\ told \in Revs
  BY ConstantTypes DEF Init, Handlings
<1>. QED BY <1>1, <1>2, <1>3, <1>4, <1>5 DEF TypeOK

LEMMA WorldType == TypeOK /\ World => TypeOK'
<1> SUFFICES ASSUME TypeOK, World PROVE TypeOK'
  OBVIOUS
<1> USE DEF TypeOK, nats, platform, egress, locals, history
<1>1. CASE Upgrade BY <1>1 DEF Upgrade
<1>2. CASE Change
  <2>1. rev' \in Revs BY <1>2 DEF Change, Revs
  <2>2. inbox' \in Seq(Announcements)
    <3>1. PICK named \in BOOLEAN :
            inbox' = IF link = "up" THEN Append(inbox, [rev |-> rev + 1, named |-> named])
                                    ELSE inbox
      BY <1>2 DEF Change
    <3>2. [rev |-> rev + 1, named |-> named] \in Announcements
      BY <1>2, <2>1 DEF Change, Announcements
    <3>. QED BY <3>1, <3>2
  <2>. QED BY <1>2, <2>1, <2>2 DEF Change
<1>3. CASE Drop BY <1>3 DEF Drop
<1>4. CASE ConnectionLost BY <1>4, MarkedType, ConstantTypes DEF ConnectionLost
<1>5. CASE Reconnect BY <1>5 DEF Reconnect
<1>. QED BY <1>1, <1>2, <1>3, <1>4, <1>5 DEF World

LEMMA FetchingType == ASSUME NEW t \in Tasks, TypeOK, Fetching(t) PROVE TypeOK'
<1> USE DEF TypeOK, nats, platform, egress, locals, history, Going
<1>1. CASE Lock(t) BY <1>1 DEF Lock, Places, LockedPlaces, FetchPlaces, FreshPlaces
<1>2. ASSUME NEW a \in Answers, Ask(t, a) PROVE TypeOK'
  BY <1>2 DEF Ask, Places, LockedPlaces, FetchPlaces
<1>3. CASE AskAnswered(t)
  <2>. Answer("settings", rev) \in Answers BY DEF Answer, Answers
  <2>. QED BY <1>2, <1>3 DEF AskAnswered
<1>4. CASE AskFails(t) BY <1>2, <1>4, ConstantTypes DEF AskFails
<1>5. CASE Settle(t)
  <2>. got[t].rev \in Revs BY DEF Answers
  <2>. QED BY <1>5, StillStaleType DEF Settle, Places, LockedPlaces, FetchPlaces
<1>6. CASE FetchFailed(t)
  <2>. want[t].rev \in Revs BY DEF Expectations
  <2>1. stale' \in Staleness BY <1>6, MarkedType, ConstantTypes DEF FetchFailed
  <2>. QED BY <1>6, <2>1, ConstantTypes
         DEF FetchFailed, Forget, ForgetAnswer, Places, EndPlaces, Handlings
<1>7. CASE Set(t)
  <2>1. current' \in NodeSettings BY <1>7, AtType DEF Set, Answers
  <2>. QED BY <1>7, <2>1, ConstantTypes
         DEF Set, ForgetAnswer, Places, LockedPlaces, Handlings
<1>. QED BY <1>1, <1>3, <1>4, <1>5, <1>6, <1>7 DEF Fetching

LEMMA DecidingType == ASSUME NEW t \in Tasks, TypeOK, Deciding(t) PROVE TypeOK'
<1> USE DEF TypeOK, nats, platform, egress, locals, history, Going
<1>1. CASE Read(t) BY <1>1 DEF Read, Places, LockedPlaces, FreshPlaces
<1>2. CASE GoOut(t) BY <1>2 DEF GoOut, Decision, Places, EndPlaces
<1>3. ASSUME Refuse(t), stale' \in Staleness, lastFailure' \in BOOLEAN PROVE TypeOK'
  BY <1>3, ConstantTypes DEF Refuse, Forget, Places, EndPlaces, Handlings
<1>4. CASE DecideRefuses(t) BY <1>3, <1>4 DEF DecideRefuses
<1>5. CASE BehindSoLock(t) BY <1>5 DEF BehindSoLock, Places
<1>6. CASE BehindSoAsk(t) BY <1>6 DEF BehindSoAsk, Places, LockedPlaces, FetchPlaces
<1>7. CASE BehindSoRefuse(t)
  <2>. want[t].rev \in Revs BY DEF Expectations
  <2>1. stale' \in Staleness BY <1>7, MarkedType, ConstantTypes DEF BehindSoRefuse
  <2>. QED BY <1>3, <1>7, <2>1 DEF BehindSoRefuse
<1>8. CASE StillBehind(t) BY <1>3, <1>8 DEF StillBehind
<1>. QED BY <1>1, <1>2, <1>4, <1>5, <1>6, <1>7, <1>8 DEF Deciding

LEMMA RunningType == ASSUME NEW t \in Tasks, TypeOK, Running(t) PROVE TypeOK'
<1> USE ConstantTypes
    DEF TypeOK, nats, platform, egress, locals, history, Going, Forget, Places, EndPlaces
<1>1. CASE Finish(t) BY <1>1 DEF Finish
<1>2. CASE StopDirect(t) BY <1>2 DEF StopDirect
<1>. QED BY <1>1, <1>2 DEF Running

LEMMA DispatchedType == ASSUME TypeOK PROVE Dispatched \subseteq Expectations
<1>1. 0 .. rev \subseteq Revs BY DEF TypeOK, Revs
<1>. QED BY <1>1, ConstantTypes DEF Dispatched

LEMMA StartOpType == ASSUME NEW o \in Ops, TypeOK, StartOp(o) PROVE TypeOK'
<1>1. PICK w \in Expectations : want' = [want EXCEPT ![o] = w]
  BY DispatchedType DEF StartOp
<1>. QED BY <1>1 DEF StartOp, TypeOK, nats, platform, egress, history, Going, Places, FreshPlaces, Tasks

LEMMA ReauthorizeType == ASSUME TypeOK, Reauthorize PROVE TypeOK'
<1>1. \A k \in {"settings", "unreadable", "null"} : \A r \in Revs : Answer(k, r) \in Answers
  BY DEF Answer, Answers
<1>2. rev \in Revs /\ 0 \in Revs BY ConstantTypes DEF TypeOK
<1>3. PICK a \in Answers : got' = [got EXCEPT ![Main] = a]
  BY <1>1, <1>2 DEF Reauthorize
<1>4. got' \in [Tasks -> Answers] BY <1>3 DEF TypeOK
<1>5. reauths' \in Nat
  <2>1. reauths \in Nat BY DEF TypeOK
  <2>2. reauths' = reauths + 1 BY DEF Reauthorize
  <2>. QED BY <2>1, <2>2
<1>6. pc' \in [Tasks -> Places]
  BY DEF TypeOK, Reauthorize, Going, Places, MainPlaces
<1>7. handling' \in Handlings /\ doubted' \in BOOLEAN BY DEF Reauthorize, Handlings
<1>8. UNCHANGED <<served, rev, inbox, link, drops, current, stale, lastFailure, platformHasSettings,
                  refreshing, want, seen, floor, told>>
  BY DEF Reauthorize, platform, nats, egress
<1>. QED BY <1>4, <1>5, <1>6, <1>7, <1>8 DEF TypeOK

LEMMA LoopingType == TypeOK /\ Looping => TypeOK'
<1> SUFFICES ASSUME TypeOK, Looping PROVE TypeOK'
  OBVIOUS
<1> USE DEF TypeOK, nats, platform, egress, locals, history, Going, Places, MainPlaces, Handlings, Free
<1>. Main \in Tasks BY DEF Tasks
<1>1. ASSUME inbox # <<>>
      PROVE  /\ Head(inbox) \in Announcements /\ Head(inbox).rev \in Revs
             /\ Head(inbox).named \in BOOLEAN /\ Tail(inbox) \in Seq(Announcements)
  <2>1. Head(inbox) \in Announcements /\ Tail(inbox) \in Seq(Announcements)
    BY <1>1, HeadTailProperties
  <2>. QED BY <2>1 DEF Announcements
<1>2. CASE Announce BY <1>1, <1>2 DEF Announce, Larger
<1>3. CASE MarkAnnounced
  <2>1. inbox # <<>> BY <1>3 DEF MarkAnnounced
  <2>2. stale' \in Staleness
    BY <1>1, <1>3, <2>1, MarkedType, ConstantTypes DEF MarkAnnounced
  <2>3. told' \in Revs BY <1>1, <1>3, <2>1 DEF MarkAnnounced, Larger
  <2>. QED BY <1>1, <1>3, <2>1, <2>2, <2>3 DEF MarkAnnounced
<1>4. CASE StartBench
  <2>1. PICK w \in Expectations : want' = [want EXCEPT ![Main] = w]
    BY <1>4, DispatchedType DEF StartBench
  <2>. QED BY <1>4, <2>1 DEF StartBench, FreshPlaces
<1>5. CASE BenchSent BY <1>5, ConstantTypes DEF BenchSent, Forget
<1>6. ASSUME NEW c \in CfxJobs, Execute(c) \/ ExecuteChecked(c) PROVE TypeOK'
  <2>. c \in Tasks BY DEF Tasks
  <2>1. CASE Execute(c) BY <2>1 DEF Execute, EndPlaces
  <2>2. CASE ExecuteChecked(c) BY <2>2, ConstantTypes DEF ExecuteChecked, Forget, EndPlaces
  <2>. QED BY <1>6, <2>1, <2>2
<1>7. CASE Reauthorize BY <1>7, ReauthorizeType
<1>8. CASE ApplyAuthorize
  <2>. got[Main].rev \in Revs BY DEF Answers
  <2>1. current' \in NodeSettings
    BY <1>8, AtType, ConstantTypes DEF ApplyAuthorize, NodeSettings, Settings
  <2>. QED BY <1>8, <2>1 DEF ApplyAuthorize
<1>9. CASE AuthorizeSettles
  BY <1>9, MarkedType, ConstantTypes DEF AuthorizeSettles, ForgetAnswer
<1>. QED BY <1>2, <1>3, <1>4, <1>5, <1>6, <1>7, <1>8, <1>9 DEF Looping

LEMMA NextType == TypeOK /\ [Next]_vars => TypeOK'
<1> SUFFICES ASSUME TypeOK, [Next]_vars PROVE TypeOK'
  OBVIOUS
<1>1. CASE World BY <1>1, WorldType
<1>2. CASE RetryWindowEnds
  BY <1>2 DEF RetryWindowEnds, TypeOK, nats, platform, locals, history
<1>3. CASE Wake
  BY <1>3 DEF Wake, TypeOK, nats, platform, egress, locals, history, Going, Places, Tasks
<1>4. CASE Looping BY <1>4, LoopingType
<1>5. ASSUME NEW o \in Ops, StartOp(o) PROVE TypeOK' BY <1>5, StartOpType
<1>6. ASSUME NEW t \in Tasks, Fetching(t) \/ Deciding(t) \/ Running(t) PROVE TypeOK'
  BY <1>6, FetchingType, DecidingType, RunningType
<1>7. CASE UNCHANGED vars
  BY <1>7 DEF vars, TypeOK, nats, platform, egress, locals, history
<1>. QED BY <1>1, <1>2, <1>3, <1>4, <1>5, <1>6, <1>7 DEF Next

\* Every variable holds a value of its type in every reachable state.
THEOREM TypeCorrect == Spec => []TypeOK
<1>. QED BY InitType, NextType, PTL DEF Spec

-----------------------------------------------------------------------------
(* The lock *)

\* A step that leaves the lock alone and moves one task between places outside it.
LEMMA OutsideTheLock ==
  ASSUME NEW t \in Tasks, NEW where, TypeOK, OneFetchAtATime,
         pc[t] \notin LockedPlaces, where \notin LockedPlaces,
         pc' = [pc EXCEPT ![t] = where], refreshing' = refreshing
  PROVE  OneFetchAtATime'
BY DEF TypeOK, OneFetchAtATime

\* A step inside the lock by the task that has it.
LEMMA InsideTheLock ==
  ASSUME NEW t \in Tasks, NEW where, TypeOK, OneFetchAtATime,
         pc[t] \in LockedPlaces, where \in LockedPlaces,
         pc' = [pc EXCEPT ![t] = where], refreshing' = refreshing
  PROVE  OneFetchAtATime'
BY DEF TypeOK, OneFetchAtATime

\* The task that has the lock gives it back.
LEMMA GivesTheLockBack ==
  ASSUME NEW t \in Tasks, NEW where, TypeOK, OneFetchAtATime,
         pc[t] \in LockedPlaces, where \notin LockedPlaces,
         pc' = [pc EXCEPT ![t] = where], refreshing' = NoOne
  PROVE  OneFetchAtATime'
<1>. NoOne \notin Tasks BY DEF Tasks, NoOne, Main, Poll
<1>. QED BY DEF TypeOK, OneFetchAtATime

LEMMA FetchingLock == ASSUME NEW t \in Tasks, TypeOK, OneFetchAtATime, Fetching(t)
                      PROVE  OneFetchAtATime'
<1> USE DEF Going, LockedPlaces, FetchPlaces
<1>1. CASE Lock(t)
  <2>. NoOne \notin Tasks BY DEF Tasks, NoOne, Main, Poll
  <2>. QED BY <1>1 DEF Lock, TypeOK, OneFetchAtATime
<1>2. ASSUME NEW a, Ask(t, a) PROVE OneFetchAtATime'
  BY <1>2, InsideTheLock DEF Ask
<1>3. CASE AskAnswered(t) BY <1>2, <1>3 DEF AskAnswered
<1>4. CASE AskFails(t) BY <1>2, <1>4 DEF AskFails
<1>5. CASE Settle(t) BY <1>5, InsideTheLock DEF Settle
<1>6. CASE FetchFailed(t) BY <1>6, GivesTheLockBack DEF FetchFailed
<1>7. CASE Set(t)
  <2>1. CASE Fresh(t) BY <1>7, <2>1, InsideTheLock DEF Set
  <2>2. CASE ~Fresh(t) BY <1>7, <2>2, GivesTheLockBack DEF Set
  <2>. QED BY <2>1, <2>2
<1>. QED BY <1>1, <1>3, <1>4, <1>5, <1>6, <1>7 DEF Fetching

LEMMA DecidingLock == ASSUME NEW t \in Tasks, TypeOK, OneFetchAtATime, Deciding(t)
                      PROVE  OneFetchAtATime'
<1> USE DEF Going, LockedPlaces, FetchPlaces
<1>1. ASSUME NEW where \in {"idle", "refused", "direct", "proxied"},
             pc[t] \in {"check", "check locked", "check fetched"},
             pc' = [pc EXCEPT ![t] = where],
             refreshing' = IF refreshing = t THEN NoOne ELSE refreshing
      PROVE  OneFetchAtATime'
  <2>1. CASE pc[t] = "check"
    <3>. refreshing # t BY <2>1 DEF OneFetchAtATime
    <3>. QED BY <1>1, <2>1, OutsideTheLock
  <2>2. CASE pc[t] # "check"
    <3>. refreshing = t BY <1>1, <2>2 DEF OneFetchAtATime
    <3>. QED BY <1>1, <2>2, GivesTheLockBack
  <2>. QED BY <2>1, <2>2
<1>2. CASE Read(t)
  <2>1. CASE pc[t] = "read" BY <1>2, <2>1, OutsideTheLock DEF Read
  <2>2. CASE pc[t] = "read locked" BY <1>2, <2>2, InsideTheLock DEF Read
  <2>3. CASE pc[t] = "read fetched" BY <1>2, <2>3, InsideTheLock DEF Read
  <2>. QED BY <1>2, <2>1, <2>2, <2>3 DEF Read
<1>3. CASE GoOut(t) BY <1>1, <1>3 DEF GoOut, Decision
<1>4. CASE DecideRefuses(t) BY <1>1, <1>4 DEF DecideRefuses, Refuse
<1>5. CASE BehindSoLock(t) BY <1>5, OutsideTheLock DEF BehindSoLock
<1>6. CASE BehindSoAsk(t) BY <1>6, InsideTheLock DEF BehindSoAsk
<1>7. CASE BehindSoRefuse(t) BY <1>1, <1>7 DEF BehindSoRefuse, Refuse
<1>8. CASE StillBehind(t) BY <1>1, <1>8 DEF StillBehind, Refuse
<1>. QED BY <1>2, <1>3, <1>4, <1>5, <1>6, <1>7, <1>8 DEF Deciding

LEMMA LoopingLock == ASSUME TypeOK, OneFetchAtATime, Looping PROVE OneFetchAtATime'
<1> USE OutsideTheLock DEF Going, LockedPlaces, FetchPlaces, Free
<1>. Main \in Tasks BY DEF Tasks
<1>1. CASE Announce BY <1>1 DEF Announce
<1>2. CASE MarkAnnounced BY <1>2 DEF MarkAnnounced
<1>3. CASE StartBench BY <1>3 DEF StartBench
<1>4. CASE BenchSent BY <1>4 DEF BenchSent
<1>5. ASSUME NEW c \in CfxJobs, Execute(c) \/ ExecuteChecked(c) PROVE OneFetchAtATime'
  <2>. c \in Tasks BY DEF Tasks
  <2>1. CASE Execute(c) BY <2>1 DEF Execute
  <2>2. CASE ExecuteChecked(c) BY <2>2 DEF ExecuteChecked
  <2>. QED BY <1>5, <2>1, <2>2
<1>6. CASE Reauthorize BY <1>6 DEF Reauthorize
<1>7. CASE ApplyAuthorize BY <1>7 DEF ApplyAuthorize
<1>8. CASE AuthorizeSettles BY <1>8 DEF AuthorizeSettles
<1>. QED BY <1>1, <1>2, <1>3, <1>4, <1>5, <1>6, <1>7, <1>8 DEF Looping

LEMMA NextLock == TypeOK /\ OneFetchAtATime /\ [Next]_vars => OneFetchAtATime'
<1> SUFFICES ASSUME TypeOK, OneFetchAtATime, [Next]_vars PROVE OneFetchAtATime'
  OBVIOUS
<1>1. CASE World
  BY <1>1 DEF World, Upgrade, Change, Drop, ConnectionLost, Reconnect, OneFetchAtATime
<1>2. CASE RetryWindowEnds BY <1>2 DEF RetryWindowEnds, OneFetchAtATime
<1>3. CASE Wake
  BY <1>3, OutsideTheLock DEF Wake, Going, LockedPlaces, FetchPlaces, Tasks
<1>4. CASE Looping BY <1>4, LoopingLock
<1>5. ASSUME NEW o \in Ops, StartOp(o) PROVE OneFetchAtATime'
  BY <1>5, OutsideTheLock DEF StartOp, Going, LockedPlaces, FetchPlaces, Tasks
<1>6. ASSUME NEW t \in Tasks, Fetching(t) \/ Deciding(t) \/ Running(t) PROVE OneFetchAtATime'
  <2>1. CASE Running(t)
    BY <2>1, OutsideTheLock DEF Running, Finish, StopDirect, Going, LockedPlaces, FetchPlaces
  <2>. QED BY <1>6, <2>1, FetchingLock, DecidingLock
<1>7. CASE UNCHANGED vars BY <1>7 DEF vars, OneFetchAtATime
<1>. QED BY <1>1, <1>2, <1>3, <1>4, <1>5, <1>6, <1>7 DEF Next

LEMMA InitLock == Init => OneFetchAtATime
<1>. NoOne \notin Tasks BY DEF Tasks, NoOne, Main, Poll
<1>. QED BY DEF Init, OneFetchAtATime, LockedPlaces, FetchPlaces

\* Fetches exclude each other: a task is between asking and installing exactly while it
\* has the lock.
THEOREM FetchesExclude == Spec => []OneFetchAtATime
<1>. QED BY InitLock, TypeCorrect, NextLock, PTL DEF Spec

-----------------------------------------------------------------------------
(* Fetched settings are installed in order, until credentials are refreshed *)

\* Nothing newer than the platform's settings is held or on its way, and what is on its
\* way to be installed is no older than what is held: the lock is what makes the second
\* half inductive, since nobody else installs while an answer is on its way.
AnswersAreNewer ==
  reauths = 0 =>
    /\ current.rev <= rev
    /\ \A t \in Tasks :
         \/ pc[t] = "set"
         \/ pc[t] = "answered" /\ got[t].kind = "settings"
         => current.rev <= got[t].rev /\ got[t].rev <= rev
OnlyReauthorizing ==
  /\ reauths # 0 => doubted
  /\ pc[Main] \in {"authorized", "authorize applied"} => reauths # 0
OrderInv == TypeOK /\ OneFetchAtATime /\ AnswersAreNewer /\ OnlyReauthorizing

\* A task moves to a place where it has no answer in hand.
Harmless(t, where) ==
  /\ pc' = [pc EXCEPT ![t] = where]
  /\ where \notin {"answered", "set", "authorized", "authorize applied"}
  /\ \A u \in Tasks : u # t => got'[u] = got[u]
  /\ current' = current /\ rev' = rev /\ reauths' = reauths /\ (doubted => doubted')

LEMMA HarmlessOrder ==
  ASSUME NEW t \in Tasks, NEW where, OrderInv, Harmless(t, where)
  PROVE  AnswersAreNewer' /\ OnlyReauthorizing'
<1>1. AnswersAreNewer'
  BY DEF OrderInv, TypeOK, Harmless, AnswersAreNewer
<1>2. OnlyReauthorizing'
  BY DEF OrderInv, TypeOK, Harmless, OnlyReauthorizing, Tasks
<1>. QED BY <1>1, <1>2

LEMMA FetchingOrder ==
  ASSUME NEW t \in Tasks, OrderInv, Fetching(t) PROVE AnswersAreNewer' /\ OnlyReauthorizing'
<1> USE DEF Going, egress, platform, locals, history
<1>. /\ rev \in Nat /\ current.rev \in Nat /\ got[t].rev \in Nat
     /\ pc \in [Tasks -> Places] /\ got \in [Tasks -> Answers] /\ Main \in Tasks
  BY DEF OrderInv, TypeOK, Revs, NodeSettings, Answers, Tasks
<1>1. CASE Lock(t) BY <1>1, HarmlessOrder DEF Lock, Harmless
<1>2. ASSUME NEW a \in Answers, Ask(t, a), a.kind = "settings" => a.rev = rev
      PROVE  AnswersAreNewer' /\ OnlyReauthorizing'
  <2>1. /\ pc' = [pc EXCEPT ![t] = "answered"] /\ got' = [got EXCEPT ![t] = a]
        /\ UNCHANGED <<current, rev, reauths, doubted>>
    BY <1>2 DEF Ask
  <2>2. AnswersAreNewer' BY <1>2, <2>1 DEF OrderInv, AnswersAreNewer
  <2>3. OnlyReauthorizing' BY <2>1 DEF OrderInv, OnlyReauthorizing
  <2>. QED BY <2>2, <2>3
<1>3. CASE AskAnswered(t)
  <2>. Answer("settings", rev) \in Answers BY DEF Answer, Answers, OrderInv, TypeOK
  <2>. QED BY <1>2, <1>3 DEF AskAnswered, Answer
<1>4. CASE AskFails(t)
  <2>. NoAnswer.kind # "settings" BY DEF NoAnswer, Answer
  <2>. QED BY <1>2, <1>4, ConstantTypes DEF AskFails
<1>5. CASE Settle(t) BY <1>5 DEF Settle, OrderInv, AnswersAreNewer, OnlyReauthorizing
<1>6. CASE FetchFailed(t) BY <1>6, HarmlessOrder DEF FetchFailed, Harmless, ForgetAnswer
<1>7. CASE Set(t)
  <2>1. current'.rev = got[t].rev BY <1>7 DEF Set, At
  <2>2. \A u \in Tasks : u # t => pc[u] \notin {"answered", "set"}
    BY <1>7 DEF Set, OrderInv, OneFetchAtATime, LockedPlaces, FetchPlaces
  <2>3. AnswersAreNewer'
    BY <1>7, <2>1, <2>2 DEF Set, OrderInv, AnswersAreNewer, ForgetAnswer
  <2>4. OnlyReauthorizing' BY <1>7 DEF Set, OrderInv, OnlyReauthorizing
  <2>. QED BY <2>3, <2>4
<1>. QED BY <1>1, <1>3, <1>4, <1>5, <1>6, <1>7 DEF Fetching

LEMMA TaskOrder ==
  ASSUME NEW t \in Tasks, OrderInv, Deciding(t) \/ Running(t) \/ (t \in Ops /\ StartOp(t))
  PROVE  AnswersAreNewer' /\ OnlyReauthorizing'
<1> USE HarmlessOrder DEF Harmless, Going, egress, platform, locals, history
<1>1. CASE Read(t) BY <1>1 DEF Read
<1>2. CASE GoOut(t) BY <1>2 DEF GoOut, Decision
<1>3. ASSUME Refuse(t) PROVE AnswersAreNewer' /\ OnlyReauthorizing'
  <2>. DEFINE where == IF t = Main THEN "idle" ELSE "refused"
  <2>1. Harmless(t, where) BY <1>3 DEF Refuse
  <2>. HIDE DEF where
  <2>. QED BY <2>1, HarmlessOrder
<1>4. CASE DecideRefuses(t) BY <1>3, <1>4 DEF DecideRefuses
<1>5. CASE BehindSoLock(t) BY <1>5 DEF BehindSoLock
<1>6. CASE BehindSoAsk(t) BY <1>6 DEF BehindSoAsk
<1>7. CASE BehindSoRefuse(t) BY <1>3, <1>7 DEF BehindSoRefuse
<1>8. CASE StillBehind(t) BY <1>3, <1>8 DEF StillBehind
<1>9. CASE Finish(t) BY <1>9 DEF Finish
<1>10. CASE StopDirect(t) BY <1>10 DEF StopDirect
<1>11. CASE t \in Ops /\ StartOp(t) BY <1>11 DEF StartOp
<1>. QED BY <1>1, <1>2, <1>4, <1>5, <1>6, <1>7, <1>8, <1>9, <1>10, <1>11 DEF Deciding, Running

LEMMA ReauthorizeCounts == ASSUME TypeOK, Reauthorize PROVE reauths' # 0
<1>1. reauths \in Nat BY DEF TypeOK
<1>2. reauths' = reauths + 1 BY DEF Reauthorize
<1>. QED BY <1>1, <1>2

LEMMA LoopingOrder ==
  ASSUME OrderInv, Looping PROVE AnswersAreNewer' /\ OnlyReauthorizing'
<1> USE HarmlessOrder DEF Harmless, Going, egress, platform, locals, history
<1>. Main \in Tasks BY DEF Tasks
<1>1. CASE Announce BY <1>1 DEF Announce
<1>2. CASE MarkAnnounced BY <1>2 DEF MarkAnnounced
<1>3. CASE StartBench BY <1>3 DEF StartBench
<1>4. CASE BenchSent BY <1>4 DEF BenchSent
<1>5. ASSUME NEW c \in CfxJobs, Execute(c) \/ ExecuteChecked(c)
      PROVE  AnswersAreNewer' /\ OnlyReauthorizing'
  <2>. c \in Tasks BY DEF Tasks
  <2>1. CASE Execute(c) BY <2>1 DEF Execute
  <2>2. CASE ExecuteChecked(c) BY <2>2 DEF ExecuteChecked
  <2>. QED BY <1>5, <2>1, <2>2
<1>6. CASE Reauthorize
  <2>1. doubted' BY <1>6 DEF Reauthorize
  <2>2. reauths' # 0 BY <1>6, ReauthorizeCounts DEF OrderInv
  <2>. QED BY <2>1, <2>2 DEF AnswersAreNewer, OnlyReauthorizing
<1>7. CASE ApplyAuthorize \/ AuthorizeSettles
  <2>. reauths # 0 /\ reauths' = reauths /\ doubted /\ doubted'
    BY <1>7 DEF ApplyAuthorize, AuthorizeSettles, OrderInv, OnlyReauthorizing
  <2>. QED BY DEF AnswersAreNewer, OnlyReauthorizing
<1>. QED BY <1>1, <1>2, <1>3, <1>4, <1>5, <1>6, <1>7 DEF Looping

LEMMA NextOrder == OrderInv /\ [Next]_vars => OrderInv'
<1> SUFFICES ASSUME OrderInv, [Next]_vars PROVE OrderInv'
  OBVIOUS
<1>. TypeOK' /\ OneFetchAtATime' BY NextType, NextLock DEF OrderInv
<1> SUFFICES AnswersAreNewer' /\ OnlyReauthorizing'
  BY DEF OrderInv
<1> USE DEF egress, platform, locals, history
<1>1. CASE World
  <2>. rev \in Nat /\ current.rev \in Nat /\ \A t \in Tasks : got[t].rev \in Nat
    BY DEF OrderInv, TypeOK, Revs, NodeSettings, Answers
  <2>1. /\ rev <= rev' /\ rev' \in Nat /\ (doubted => doubted')
        /\ UNCHANGED <<current, got, pc, reauths>>
    <3>1. CASE Change BY <1>1, <3>1 DEF Change, OrderInv, TypeOK, Revs
    <3>2. CASE Upgrade \/ Drop \/ ConnectionLost \/ Reconnect
      BY <1>1, <3>2 DEF Upgrade, Drop, ConnectionLost, Reconnect
    <3>. QED BY <1>1, <3>1, <3>2 DEF World
  <2>2. AnswersAreNewer' BY <2>1 DEF OrderInv, AnswersAreNewer
  <2>3. OnlyReauthorizing' BY <2>1 DEF OrderInv, OnlyReauthorizing
  <2>. QED BY <2>2, <2>3
<1>2. CASE RetryWindowEnds
  BY <1>2 DEF RetryWindowEnds, OrderInv, AnswersAreNewer, OnlyReauthorizing
<1>3. CASE Wake BY <1>3, HarmlessOrder DEF Wake, Harmless, Going, Tasks
<1>4. CASE Looping BY <1>4, LoopingOrder
<1>5. ASSUME NEW o \in Ops, StartOp(o) PROVE AnswersAreNewer' /\ OnlyReauthorizing'
  BY <1>5, TaskOrder DEF Tasks
<1>6. ASSUME NEW t \in Tasks, Fetching(t) \/ Deciding(t) \/ Running(t)
      PROVE  AnswersAreNewer' /\ OnlyReauthorizing'
  BY <1>6, FetchingOrder, TaskOrder
<1>7. CASE UNCHANGED vars
  BY <1>7 DEF vars, OrderInv, AnswersAreNewer, OnlyReauthorizing
<1>. QED BY <1>1, <1>2, <1>3, <1>4, <1>5, <1>6, <1>7 DEF Next

LEMMA InitOrder == Init => OrderInv
<1> SUFFICES ASSUME Init PROVE OrderInv
  OBVIOUS
<1>1. OneFetchAtATime BY InitLock
<1>2. current.rev = 0 /\ rev = 0 /\ reauths = 0 BY DEF Init
<1>3. \A t \in Tasks : pc[t] = "idle" BY DEF Init
<1>4. AnswersAreNewer BY <1>2, <1>3 DEF AnswersAreNewer
<1>5. OnlyReauthorizing BY <1>2, <1>3 DEF OnlyReauthorizing, Tasks
<1>. QED BY InitType, <1>1, <1>4, <1>5 DEF OrderInv

\* One step never replaces the settings held by older ones.
LEMMA StepInOrder == OrderInv /\ [Next]_vars /\ reauths' = 0 => current'.rev >= current.rev
<1> SUFFICES ASSUME OrderInv, [Next]_vars, reauths' = 0 PROVE current'.rev >= current.rev
  OBVIOUS
<1> USE DEF egress, platform, locals, history
<1>. current.rev \in Nat BY DEF OrderInv, TypeOK, NodeSettings, Revs
<1>1. CASE current' = current BY <1>1
<1>2. ASSUME NEW t \in Tasks, Set(t) PROVE current'.rev >= current.rev
  <2>1. current'.rev = got[t].rev /\ reauths = 0 BY <1>2 DEF Set, At
  <2>2. current.rev <= got[t].rev BY <1>2, <2>1 DEF Set, OrderInv, AnswersAreNewer
  <2>3. got[t].rev \in Nat BY DEF OrderInv, TypeOK, Answers, Revs
  <2>. QED BY <2>1, <2>2, <2>3
<1>3. ~ApplyAuthorize
  BY DEF ApplyAuthorize, OrderInv, OnlyReauthorizing
<1>4. CASE World BY <1>1, <1>4 DEF World, Upgrade, Change, Drop, ConnectionLost, Reconnect
<1>5. CASE RetryWindowEnds \/ Wake BY <1>1, <1>5 DEF RetryWindowEnds, Wake
<1>6. CASE Looping
  BY <1>1, <1>3, <1>6 DEF Looping, Announce, MarkAnnounced, StartBench, BenchSent, Execute,
                          ExecuteChecked, Reauthorize, AuthorizeSettles
<1>7. ASSUME NEW o \in Ops, StartOp(o) PROVE current'.rev >= current.rev
  BY <1>1, <1>7 DEF StartOp
<1>8. ASSUME NEW t \in Tasks, Fetching(t) PROVE current'.rev >= current.rev
  <2>1. CASE Set(t) BY <1>2, <2>1
  <2>2. CASE ~Set(t)
    BY <1>1, <1>8, <2>2 DEF Fetching, Lock, AskAnswered, AskFails, Ask, Settle, FetchFailed
  <2>. QED BY <2>1, <2>2
<1>9. ASSUME NEW t \in Tasks, Deciding(t) \/ Running(t) PROVE current'.rev >= current.rev
  BY <1>1, <1>9 DEF Deciding, Running, Read, GoOut, DecideRefuses, Refuse, BehindSoLock, BehindSoAsk,
                    BehindSoRefuse, StillBehind, Finish, StopDirect
<1>10. CASE UNCHANGED vars BY <1>1, <1>10 DEF vars
<1>. QED BY <1>4, <1>5, <1>6, <1>7, <1>8, <1>9, <1>10 DEF Next

\* Until credentials are refreshed the node never goes back to older settings, however
\* many tasks fetch and however long an answer takes.
THEOREM InstalledInOrder == Spec => InstallsInOrder
<1>1. OrderInv /\ [Next]_vars => [reauths' = 0 => current'.rev >= current.rev]_vars
  BY StepInOrder
<1>. QED BY <1>1, InitOrder, NextOrder, PTL DEF Spec, InstallsInOrder

-----------------------------------------------------------------------------
(* A node told of a revision by number never forgets it *)

\* What a task that read settings before it was told of newer ones can still rely on.
HeldOrComing(r) == current.rev >= r \/ Installing(r)

FloorsAreTold == \A t \in Tasks : floor[t] <= told
NeverUnsure == ~doubted => stale # Unsure
MemoryInv == FloorsAreTold /\ NeverUnsure /\ KnowsItIsBehind /\ OldOnlyWhileReplaced

LEMMA MarkedGrows ==
  ASSUME NEW s \in Staleness, s # Unsure, NEW w \in Revs, NEW r \in Revs
  PROVE  /\ Marked(s, Rev(w)) # Unsure
         /\ s.kind = "rev" /\ s.rev >= r => Marked(s, Rev(w)).kind = "rev" /\ Marked(s, Rev(w)).rev >= r
BY DEF Marked, Staleness, Larger, Current, Unsure, Rev, Revs

\* A step that installs nothing, settles nothing and sends nothing off.
Quiet ==
  /\ current' = current /\ told' = told /\ (doubted => doubted')
  /\ doubted' \/ stale' = stale \/ (\E w \in Revs : stale' = Marked(stale, Rev(w)))
  /\ \A u \in Tasks : pc[u] = "set" => pc'[u] = "set" /\ got'[u] = got[u]
  /\ \A u \in Tasks : pc'[u] \in Sending =>
        pc[u] \in Sending /\ seen'[u] = seen[u] /\ floor'[u] = floor[u]
  /\ \A u \in Tasks : floor'[u] \in {floor[u], 0, told}

LEMMA QuietMemory == ASSUME TypeOK, MemoryInv, Quiet PROVE MemoryInv'
<1>1. told \in Nat /\ current.rev \in Nat /\ \A u \in Tasks : floor[u] \in Nat
  BY DEF TypeOK, Revs, NodeSettings
<1>2. FloorsAreTold' BY <1>1 DEF FloorsAreTold, MemoryInv, Quiet
<1>3. ASSUME NEW r, HeldOrComing(r)
      PROVE  current'.rev >= r \/ \E u \in Tasks : pc'[u] = "set" /\ got'[u].rev >= r
  BY <1>3 DEF HeldOrComing, Installing, Quiet
<1>4. ASSUME ~doubted' PROVE NeverUnsure' /\ KnowsItIsBehind' /\ OldOnlyWhileReplaced'
  <2>1. ~doubted /\ stale # Unsure /\ stale \in Staleness /\ told \in Revs /\ told' = told
    BY <1>4 DEF Quiet, MemoryInv, NeverUnsure, TypeOK
  <2>2. stale' # Unsure BY <1>4, <2>1, MarkedGrows DEF Quiet
  <2>3. Kept(told) BY <2>1 DEF MemoryInv, KnowsItIsBehind
  <2>4. stale.kind = "rev" /\ stale.rev >= told => stale'.kind = "rev" /\ stale'.rev >= told
    BY <1>4, <2>1, MarkedGrows DEF Quiet
  <2>5. ASSUME HeldOrComing(told) PROVE KnowsItIsBehind'
    <3>1. current'.rev >= told \/ \E u \in Tasks : pc'[u] = "set" /\ got'[u].rev >= told
      BY <1>3, <2>5
    <3>. QED BY <2>1, <3>1 DEF KnowsItIsBehind, Kept, Installing
  <2>6. ASSUME ~HeldOrComing(told) PROVE KnowsItIsBehind'
    <3>1. stale'.kind = "rev" /\ stale'.rev >= told
      BY <2>1, <2>3, <2>4, <2>6 DEF Kept, HeldOrComing
    <3>. QED BY <2>1, <3>1 DEF KnowsItIsBehind, Kept
  <2>7. KnowsItIsBehind' BY <2>5, <2>6
  <2>8. ASSUME NEW u \in Tasks, pc'[u] \in Sending, seen'[u].rev < floor'[u]
        PROVE  \/ current'.rev >= floor'[u]
               \/ \E v \in Tasks : pc'[v] = "set" /\ got'[v].rev >= floor'[u]
    <3>1. pc[u] \in Sending /\ seen[u].rev < floor[u] /\ floor'[u] = floor[u]
      BY <2>8 DEF Quiet
    <3>2. HeldOrComing(floor[u])
      BY <2>1, <3>1 DEF MemoryInv, OldOnlyWhileReplaced, HeldOrComing
    <3>. QED BY <1>3, <3>1, <3>2
  <2>9. OldOnlyWhileReplaced' BY <2>8 DEF OldOnlyWhileReplaced, Installing
  <2>. QED BY <2>2, <2>7, <2>9 DEF NeverUnsure
<1>5. ASSUME doubted' PROVE NeverUnsure' /\ KnowsItIsBehind' /\ OldOnlyWhileReplaced'
  BY <1>5 DEF NeverUnsure, KnowsItIsBehind, OldOnlyWhileReplaced
<1>. QED BY <1>2, <1>4, <1>5 DEF MemoryInv

\* The step that clears what the node knew keeps the answer it will install.
LEMMA SettleMemory == ASSUME NEW t \in Tasks, TypeOK, MemoryInv, Settle(t) PROVE MemoryInv'
<1>. /\ told \in Nat /\ got[t].rev \in Nat /\ stale \in Staleness
     /\ pc \in [Tasks -> Places] /\ \A u \in Tasks : floor[u] \in Nat
  BY DEF TypeOK, Revs, Answers
<1>1. /\ pc' = [pc EXCEPT ![t] = "set"] /\ stale' = StillStale(stale, got[t].rev)
      /\ UNCHANGED <<current, got, seen, floor, told, doubted>>
  BY DEF Settle, Going, locals, history
<1>2. ASSUME NEW r, Installing(r)
      PROVE  \E u \in Tasks : pc'[u] = "set" /\ got'[u].rev >= r
  BY <1>1, <1>2 DEF Installing
<1>3. FloorsAreTold' BY <1>1 DEF MemoryInv, FloorsAreTold
<1>4. NeverUnsure'
  BY <1>1 DEF MemoryInv, NeverUnsure, StillStale, Current, Unsure
<1>5. ASSUME ~doubted PROVE Kept(told)'
  <2>1. CASE current.rev >= told BY <1>1, <2>1 DEF Kept
  <2>2. CASE Installing(told) BY <1>1, <1>2, <2>2 DEF Kept, Installing
  <2>3. CASE stale.kind = "rev" /\ stale.rev >= told /\ stale.rev > got[t].rev
    BY <1>1, <2>3 DEF Kept, StillStale
  <2>4. CASE stale.kind = "rev" /\ stale.rev >= told /\ ~(stale.rev > got[t].rev)
    <3>1. stale.rev \in Nat BY <2>4 DEF Staleness, Current, Unsure, Rev, Revs
    <3>2. got'[t].rev >= told /\ pc'[t] = "set" BY <1>1, <2>4, <3>1
    <3>. QED BY <1>1, <3>2 DEF Kept, Installing
  <2>. QED BY <1>5, <2>1, <2>2, <2>3, <2>4 DEF MemoryInv, NeverUnsure, KnowsItIsBehind, Kept
<1>6. KnowsItIsBehind' BY <1>1, <1>5 DEF KnowsItIsBehind
<1>7. ASSUME ~doubted', NEW u \in Tasks, pc'[u] \in Sending, seen'[u].rev < floor'[u]
      PROVE  \/ current'.rev >= floor'[u]
             \/ \E v \in Tasks : pc'[v] = "set" /\ got'[v].rev >= floor'[u]
  <2>1. pc[u] \in Sending /\ seen[u].rev < floor[u] BY <1>1, <1>7 DEF Sending
  <2>2. HeldOrComing(floor[u])
    BY <1>1, <1>7, <2>1 DEF MemoryInv, OldOnlyWhileReplaced, HeldOrComing
  <2>. QED BY <1>1, <1>2, <2>2 DEF HeldOrComing
<1>8. OldOnlyWhileReplaced' BY <1>7 DEF OldOnlyWhileReplaced, Installing
<1>. QED BY <1>3, <1>4, <1>6, <1>8 DEF MemoryInv

\* Installing an answer only ever takes the node forward, so what was held stays held.
LEMMA SetMemory ==
  ASSUME NEW t \in Tasks, OrderInv, MemoryInv, [Next]_vars, Set(t) PROVE MemoryInv'
<1>. /\ told \in Nat /\ \A u \in Tasks : floor[u] \in Nat /\ got[u].rev \in Nat
     /\ current.rev \in Nat /\ pc \in [Tasks -> Places]
  BY DEF OrderInv, TypeOK, Revs, Answers, NodeSettings
<1>1. /\ pc' = [pc EXCEPT ![t] = IF Fresh(t) THEN "read fetched" ELSE "idle"]
      /\ UNCHANGED <<stale, seen, floor, told, doubted, reauths>>
      /\ current'.rev = got[t].rev
  BY DEF Set, Going, history, At
<1>2. pc[t] = "set" /\ \A u \in Tasks : u # t => pc[u] # "set"
  <2>1. pc[t] = "set" BY DEF Set
  <2>2. "set" \in LockedPlaces BY DEF LockedPlaces, FetchPlaces
  <2>3. OneFetchAtATime BY DEF OrderInv
  <2>4. \A u \in Tasks : pc[u] = "set" => refreshing = u BY <2>2, <2>3 DEF OneFetchAtATime
  <2>. QED BY <2>1, <2>4
<1>3. ASSUME ~doubted, NEW r \in Nat, HeldOrComing(r) PROVE current'.rev >= r
  <2>1. reauths' = 0 BY <1>1, <1>3 DEF OrderInv, OnlyReauthorizing
  <2>2. current'.rev >= current.rev BY <2>1, StepInOrder
  <2>. current'.rev \in Nat BY <1>1
  <2>3. CASE current.rev >= r BY <2>2, <2>3
  <2>4. CASE Installing(r) BY <1>1, <1>2, <2>4 DEF Installing
  <2>. QED BY <1>3, <2>3, <2>4 DEF HeldOrComing
<1>4. FloorsAreTold' /\ NeverUnsure' BY <1>1 DEF MemoryInv, FloorsAreTold, NeverUnsure
<1>5. KnowsItIsBehind'
  <2>1. ASSUME ~doubted, ~HeldOrComing(told) PROVE stale.kind = "rev" /\ stale.rev >= told
    BY <2>1 DEF MemoryInv, KnowsItIsBehind, NeverUnsure, Kept, HeldOrComing
  <2>. QED BY <1>1, <1>3, <2>1 DEF KnowsItIsBehind, Kept
<1>6. ASSUME ~doubted', NEW u \in Tasks, pc'[u] \in Sending, seen'[u].rev < floor'[u]
      PROVE  current'.rev >= floor'[u]
  <2>1. pc[u] \in Sending /\ seen[u].rev < floor[u] BY <1>1, <1>6 DEF Sending
  <2>2. HeldOrComing(floor[u])
    BY <1>1, <1>6, <2>1 DEF MemoryInv, OldOnlyWhileReplaced, HeldOrComing
  <2>. QED BY <1>1, <1>3, <1>6, <2>2
<1>7. OldOnlyWhileReplaced' BY <1>6 DEF OldOnlyWhileReplaced
<1>. QED BY <1>4, <1>5, <1>7 DEF MemoryInv

\* A task goes out only when stale does not say that it read old settings.
LEMMA SendsOff ==
  ASSUME NEW t \in Tasks, NEW where, TypeOK, MemoryInv, where # "set", pc[t] # "set",
         pc' = [pc EXCEPT ![t] = where],
         UNCHANGED <<current, stale, got, seen, floor, told, doubted>>,
         ~(stale.kind = "rev" /\ stale.rev > seen[t].rev)
  PROVE  MemoryInv'
<1>. /\ told \in Nat /\ \A u \in Tasks : floor[u] \in Nat /\ seen[u].rev \in Nat
     /\ current.rev \in Nat /\ stale \in Staleness /\ pc \in [Tasks -> Places]
  BY DEF TypeOK, Revs, NodeSettings
<1>1. ASSUME NEW r PROVE Installing(r)' <=> Installing(r)
  BY DEF Installing
<1>2. FloorsAreTold' /\ NeverUnsure' BY DEF MemoryInv, FloorsAreTold, NeverUnsure
<1>3. Installing(told)' <=> Installing(told) BY DEF Installing
<1>4. KnowsItIsBehind' BY <1>3 DEF MemoryInv, KnowsItIsBehind, Kept
<1>5. ASSUME ~doubted, seen[t].rev < floor[t] PROVE HeldOrComing(floor[t])
  <2>1. Kept(told) /\ stale # Unsure /\ floor[t] <= told
    BY <1>5 DEF MemoryInv, KnowsItIsBehind, NeverUnsure, FloorsAreTold
  <2>2. HeldOrComing(told)
    <3>1. stale.kind = "rev" => stale.rev \in Nat
      BY DEF Staleness, Current, Unsure, Rev, Revs
    <3>. QED BY <1>5, <2>1, <3>1 DEF Kept, HeldOrComing
  <2>3. CASE current.rev >= told BY <2>1, <2>3 DEF HeldOrComing
  <2>4. CASE Installing(told)
    <3>1. \A u \in Tasks : got[u].rev \in Nat BY DEF TypeOK, Answers, Revs
    <3>. QED BY <2>1, <2>4, <3>1 DEF Installing, HeldOrComing
  <2>. QED BY <2>2, <2>3, <2>4 DEF HeldOrComing
<1>6. ASSUME ~doubted', NEW u \in Tasks, pc'[u] \in Sending, seen'[u].rev < floor'[u]
      PROVE  HeldOrComing(floor[u])
  <2>1. CASE u = t BY <1>5, <1>6, <2>1
  <2>2. CASE u # t
    BY <1>6, <2>2 DEF MemoryInv, OldOnlyWhileReplaced, HeldOrComing
  <2>. QED BY <2>1, <2>2
<1>7. ASSUME ~doubted', NEW u \in Tasks, pc'[u] \in Sending, seen'[u].rev < floor'[u]
      PROVE  \/ current'.rev >= floor'[u]
             \/ \E v \in Tasks : pc'[v] = "set" /\ got'[v].rev >= floor'[u]
  BY <1>1, <1>6, <1>7 DEF HeldOrComing, Installing
<1>8. OldOnlyWhileReplaced' BY <1>7 DEF OldOnlyWhileReplaced, Installing
<1>. QED BY <1>2, <1>4, <1>8 DEF MemoryInv

\* A task moves to a place from which it neither installs nor sends, and forgets or
\* renews what it was told when it began.
LEMMA Moves ==
  ASSUME NEW t \in Tasks, NEW where, TypeOK, pc' = [pc EXCEPT ![t] = where],
         pc[t] # "set", where \notin Sending, UNCHANGED <<current, told>>, doubted => doubted',
         doubted' \/ stale' = stale \/ (\E w \in Revs : stale' = Marked(stale, Rev(w))),
         \A u \in Tasks : u # t => got'[u] = got[u] /\ seen'[u] = seen[u] /\ floor'[u] = floor[u],
         floor'[t] \in {floor[t], 0, told}
  PROVE  Quiet
<1>. pc \in [Tasks -> Places] BY DEF TypeOK
<1>1. \A u \in Tasks : pc[u] = "set" => pc'[u] = "set" /\ got'[u] = got[u] OBVIOUS
<1>2. \A u \in Tasks : pc'[u] \in Sending =>
        pc[u] \in Sending /\ seen'[u] = seen[u] /\ floor'[u] = floor[u]
  OBVIOUS
<1>3. \A u \in Tasks : floor'[u] \in {floor[u], 0, told} OBVIOUS
<1>. QED BY <1>1, <1>2, <1>3 DEF Quiet

LEMMA FetchingMemory ==
  ASSUME NEW t \in Tasks, OrderInv, MemoryInv, [Next]_vars, Fetching(t) PROVE MemoryInv'
<1> USE DEF Going, Sending, egress, platform, locals, history
<1>. TypeOK /\ \A u \in Tasks : want[u].rev \in Revs
     /\ floor \in [Tasks -> Revs] /\ got \in [Tasks -> Answers]
  BY DEF OrderInv, TypeOK, Expectations
<1>1. CASE Lock(t)
  <2>. DEFINE where == IF Fresh(t) THEN "read locked" ELSE "ask"
  <2>1. /\ pc' = [pc EXCEPT ![t] = where] /\ where \notin Sending /\ pc[t] # "set"
        /\ UNCHANGED <<current, told, doubted, stale, got, seen, floor>>
    BY <1>1 DEF Lock
  <2>. HIDE DEF where
  <2>2. Quiet BY <2>1, Moves
  <2>. QED BY <2>2, QuietMemory
<1>2. ASSUME NEW a, Ask(t, a) PROVE MemoryInv'
  <2>1. Quiet BY <1>2, Moves DEF Ask
  <2>. QED BY <2>1, QuietMemory
<1>3. CASE AskAnswered(t) BY <1>2, <1>3 DEF AskAnswered
<1>4. CASE AskFails(t) BY <1>2, <1>4 DEF AskFails
<1>5. CASE Settle(t) BY <1>5, SettleMemory
<1>6. CASE FetchFailed(t)
  <2>. DEFINE where == IF t \in Ops THEN "refused" ELSE "idle"
  <2>1. pc' = [pc EXCEPT ![t] = where] /\ where \notin Sending /\ pc[t] # "set"
    BY <1>6 DEF FetchFailed
  <2>2. UNCHANGED <<current, told, doubted>> BY <1>6 DEF FetchFailed
  <2>3. stale' = stale \/ \E w \in Revs : stale' = Marked(stale, Rev(w))
    BY <1>6 DEF FetchFailed
  <2>4. \A u \in Tasks : u # t => got'[u] = got[u] /\ seen'[u] = seen[u] /\ floor'[u] = floor[u]
    BY <1>6 DEF FetchFailed, Forget, ForgetAnswer, TypeOK
  <2>5. floor'[t] = 0 BY <1>6 DEF FetchFailed, Forget
  <2>. HIDE DEF where
  <2>6. Quiet BY <2>1, <2>2, <2>3, <2>4, <2>5, Moves
  <2>. QED BY <2>6, QuietMemory
<1>7. CASE Set(t) BY <1>7, SetMemory
<1>. QED BY <1>1, <1>3, <1>4, <1>5, <1>6, <1>7 DEF Fetching

LEMMA TaskMemory ==
  ASSUME NEW t \in Tasks, TypeOK, MemoryInv,
         Deciding(t) \/ Running(t) \/ (t \in Ops /\ StartOp(t))
  PROVE  MemoryInv'
<1> USE DEF Going, Sending, egress, platform, locals, history
<1>. /\ \A u \in Tasks : want[u].rev \in Revs
     /\ floor \in [Tasks -> Revs] /\ seen \in [Tasks -> NodeSettings]
  BY DEF TypeOK, Expectations
<1>1. CASE Read(t)
  <2>1. Quiet BY <1>1, Moves DEF Read
  <2>. QED BY <2>1, QuietMemory
<1>2. CASE GoOut(t)
  <2>1. ~(stale.kind = "rev" /\ stale.rev > seen[t].rev) BY <1>2 DEF GoOut, Behind
  <2>. DEFINE where == Decision(want[t], seen[t])
  <2>2. where \in Sending BY <1>2 DEF GoOut, Decision
  <2>3. /\ pc' = [pc EXCEPT ![t] = where] /\ pc[t] # "set"
        /\ UNCHANGED <<current, stale, got, seen, floor, told, doubted>>
    BY <1>2 DEF GoOut
  <2>. HIDE DEF where
  <2>. QED BY <2>1, <2>2, <2>3, SendsOff
<1>3. ASSUME Refuse(t), pc[t] # "set",
             stale' = stale \/ \E w \in Revs : stale' = Marked(stale, Rev(w))
      PROVE  MemoryInv'
  <2>. DEFINE where == IF t = Main THEN "idle" ELSE "refused"
  <2>1. pc' = [pc EXCEPT ![t] = where] /\ where \notin Sending BY <1>3 DEF Refuse
  <2>2. UNCHANGED <<current, told, doubted, got>> BY <1>3 DEF Refuse
  <2>3. \A u \in Tasks : u # t => seen'[u] = seen[u] /\ floor'[u] = floor[u]
    BY <1>3 DEF Refuse, Forget
  <2>4. floor'[t] = 0 BY <1>3 DEF Refuse, Forget
  <2>. HIDE DEF where
  <2>5. Quiet BY <1>3, <2>1, <2>2, <2>3, <2>4, Moves
  <2>. QED BY <2>5, QuietMemory
<1>4. CASE DecideRefuses(t) BY <1>3, <1>4 DEF DecideRefuses
<1>5. ASSUME BehindSoLock(t) \/ BehindSoAsk(t) PROVE MemoryInv'
  <2>1. PICK where \in {"lock", "ask"} : pc' = [pc EXCEPT ![t] = where]
    BY <1>5 DEF BehindSoLock, BehindSoAsk
  <2>2. pc[t] # "set" /\ UNCHANGED <<current, told, doubted, stale, got, seen, floor>>
    BY <1>5 DEF BehindSoLock, BehindSoAsk
  <2>3. Quiet BY <2>1, <2>2, Moves
  <2>. QED BY <2>3, QuietMemory
<1>6. CASE BehindSoRefuse(t) BY <1>3, <1>6 DEF BehindSoRefuse
<1>7. CASE StillBehind(t) BY <1>3, <1>7 DEF StillBehind
<1>8. ASSUME NEW where \in {"done", "stopped"}, Going(t, where), Forget(t), pc[t] # "set",
             UNCHANGED <<current, told, doubted, stale, got>>
      PROVE  MemoryInv'
  <2>1. pc' = [pc EXCEPT ![t] = where] /\ where \notin Sending BY <1>8
  <2>2. \A u \in Tasks : u # t => seen'[u] = seen[u] /\ floor'[u] = floor[u]
    BY <1>8 DEF Forget
  <2>3. floor'[t] = 0 BY <1>8 DEF Forget
  <2>4. Quiet BY <1>8, <2>1, <2>2, <2>3, Moves
  <2>. QED BY <2>4, QuietMemory
<1>9. CASE t \in Ops /\ StartOp(t)
  <2>1. pc' = [pc EXCEPT ![t] = "read"] /\ pc[t] # "set"
        /\ UNCHANGED <<current, told, doubted, stale, got, seen>>
    BY <1>9 DEF StartOp
  <2>2. floor' = [floor EXCEPT ![t] = told] BY <1>9 DEF StartOp
  <2>3. Quiet BY <2>1, <2>2, Moves
  <2>. QED BY <2>3, QuietMemory
<1>10. CASE Finish(t) BY <1>8, <1>10 DEF Finish
<1>11. CASE StopDirect(t) BY <1>8, <1>11 DEF StopDirect
<1>. QED BY <1>1, <1>2, <1>4, <1>5, <1>6, <1>7, <1>9, <1>10, <1>11 DEF Deciding, Running

LEMMA LargerBounds == ASSUME NEW a \in Nat, NEW b \in Nat
                      PROVE  Larger(a, b) \in {a, b} /\ Larger(a, b) >= a /\ Larger(a, b) >= b
BY DEF Larger

\* An announcement is taken: what it names is held, or marked in the same step.
LEMMA ToldMemory ==
  ASSUME NEW r \in Revs, TypeOK, MemoryInv,
         told' = Larger(told, r), UNCHANGED <<current, got, seen, floor, doubted>>,
         NEW where, where \notin Sending \cup {"set"}, pc[Main] # "set",
         pc' = [pc EXCEPT ![Main] = where],
         \/ stale' = stale /\ r <= current.rev
         \/ stale' = Marked(stale, Rev(r))
  PROVE  MemoryInv'
<1>. /\ told \in Nat /\ r \in Nat /\ current.rev \in Nat /\ stale \in Staleness
     /\ pc \in [Tasks -> Places] /\ \A u \in Tasks : floor[u] \in Nat
  BY DEF TypeOK, Revs, NodeSettings
<1>1. told' \in {told, r} /\ told' >= told /\ told' >= r BY LargerBounds
<1>2. ASSUME NEW x PROVE Installing(x)' <=> Installing(x) BY DEF Installing
<1>3. FloorsAreTold' BY <1>1 DEF MemoryInv, FloorsAreTold
<1>4. ASSUME ~doubted PROVE stale # Unsure /\ stale' # Unsure
  BY <1>4, MarkedGrows DEF MemoryInv, NeverUnsure
<1>5. ASSUME ~doubted
      PROVE  \/ current.rev >= told'
             \/ (Installing(told) /\ told' = told)
             \/ stale'.kind = "rev" /\ stale'.rev >= told'
  <2>1. Kept(told) BY <1>5 DEF MemoryInv, KnowsItIsBehind
  <2>2. CASE told' = r
    <3>1. stale' = Marked(stale, Rev(r)) => stale'.kind = "rev" /\ stale'.rev >= r
      BY <1>4, <1>5 DEF Marked, Larger, Rev, Current, Unsure, Staleness, Revs
    <3>. QED BY <2>2, <3>1
  <2>3. CASE told' = told
    <3>. told \in Revs BY DEF TypeOK
    <3>1. stale.kind = "rev" /\ stale.rev >= told => stale'.kind = "rev" /\ stale'.rev >= told
      BY <1>4, <1>5, MarkedGrows
    <3>. QED BY <1>4, <1>5, <2>1, <2>3, <3>1 DEF Kept
  <2>. QED BY <1>1, <2>2, <2>3
<1>6. Installing(told)' <=> \E u \in Tasks : pc'[u] = "set" /\ got'[u].rev >= told'
  BY DEF Installing
<1>7. KnowsItIsBehind'
  <2>1. Installing(told) /\ told' = told => Installing(told)' BY <1>2, <1>6 DEF Installing
  <2>. QED BY <1>5, <2>1 DEF KnowsItIsBehind, Kept
<1>8. ASSUME ~doubted', NEW u \in Tasks, pc'[u] \in Sending, seen'[u].rev < floor'[u]
      PROVE  HeldOrComing(floor[u])
  BY <1>8 DEF MemoryInv, OldOnlyWhileReplaced, HeldOrComing
<1>9. ASSUME ~doubted', NEW u \in Tasks, pc'[u] \in Sending, seen'[u].rev < floor'[u]
      PROVE  \/ current'.rev >= floor'[u]
             \/ \E v \in Tasks : pc'[v] = "set" /\ got'[v].rev >= floor'[u]
  BY <1>2, <1>8, <1>9 DEF HeldOrComing, Installing
<1>10. OldOnlyWhileReplaced' BY <1>9 DEF OldOnlyWhileReplaced, Installing
<1>. QED BY <1>3, <1>4, <1>7, <1>10 DEF MemoryInv, NeverUnsure

LEMMA DoubtedMemory == ASSUME FloorsAreTold', doubted' PROVE MemoryInv'
BY DEF MemoryInv, NeverUnsure, KnowsItIsBehind, OldOnlyWhileReplaced

LEMMA LoopingMemory == ASSUME OrderInv, MemoryInv, Looping PROVE MemoryInv'
<1> USE DEF Going, Sending, Free, egress, platform, locals, history
<1>. Main \in Tasks BY DEF Tasks
<1>. /\ TypeOK /\ floor \in [Tasks -> Revs] /\ seen \in [Tasks -> NodeSettings]
     /\ told \in Revs
  BY DEF OrderInv, TypeOK
<1>0. ASSUME inbox # <<>>
      PROVE  Head(inbox).rev \in Revs
  <2>1. inbox \in Seq(Announcements) BY DEF TypeOK
  <2>2. Head(inbox) \in Announcements BY <1>0, <2>1, HeadTailProperties
  <2>. QED BY <2>2 DEF Announcements
<1>1. CASE Announce
  <2>1. CASE Head(inbox).named /\ Head(inbox).rev <= current.rev
    <3>1. /\ pc' = [pc EXCEPT ![Main] = "lock"] /\ pc[Main] # "set"
          /\ UNCHANGED <<current, stale, got, seen, floor, doubted>>
          /\ told' = Larger(told, Head(inbox).rev)
      BY <1>1, <2>1 DEF Announce
    <3>2. Head(inbox).rev \in Revs BY <1>0, <1>1 DEF Announce
    <3>. QED BY <2>1, <3>1, <3>2, ToldMemory
  <2>2. CASE ~(Head(inbox).named /\ Head(inbox).rev <= current.rev)
    <3>1. /\ pc' = [pc EXCEPT ![Main] = "mark"] /\ pc[Main] # "set"
          /\ current' = current /\ stale' = stale /\ told' = told /\ doubted' = doubted
          /\ UNCHANGED <<got, seen, floor>>
      BY <1>1, <2>2 DEF Announce
    <3>2. /\ \A u \in Tasks : u # Main => got'[u] = got[u] /\ seen'[u] = seen[u] /\ floor'[u] = floor[u]
          /\ floor'[Main] = floor[Main] /\ "mark" \notin Sending
      BY <3>1
    <3>3. Quiet BY <3>1, <3>2, Moves
    <3>. QED BY <3>3, QuietMemory
  <2>. QED BY <2>1, <2>2
<1>2. CASE MarkAnnounced
  <2>1. /\ pc' = [pc EXCEPT ![Main] = "lock"] /\ pc[Main] # "set"
        /\ UNCHANGED <<current, got, seen, floor>>
    BY <1>2 DEF MarkAnnounced
  <2>2. CASE Head(inbox).named
    <3>1. /\ stale' = Marked(stale, Rev(Head(inbox).rev))
          /\ told' = Larger(told, Head(inbox).rev)
      BY <1>2, <2>2 DEF MarkAnnounced
    <3>2. doubted' = doubted BY <1>2, <2>2 DEF MarkAnnounced, TypeOK
    <3>3. Head(inbox).rev \in Revs BY <1>0, <1>2 DEF MarkAnnounced
    <3>. QED BY <2>1, <3>1, <3>2, <3>3, ToldMemory
  <2>3. CASE ~Head(inbox).named
    <3>1. doubted' BY <1>2, <2>3 DEF MarkAnnounced
    <3>2. told' = told BY <1>2, <2>3 DEF MarkAnnounced
    <3>3. FloorsAreTold' BY <2>1, <3>2 DEF MemoryInv, FloorsAreTold
    <3>. QED BY <3>1, <3>3, DoubtedMemory
  <2>. QED BY <2>2, <2>3
<1>3. CASE StartBench
  <2>1. /\ pc' = [pc EXCEPT ![Main] = "read"] /\ pc[Main] # "set"
        /\ UNCHANGED <<current, told, doubted, stale, got, seen>>
        /\ floor' = [floor EXCEPT ![Main] = told]
    BY <1>3 DEF StartBench
  <2>2. Quiet BY <2>1, Moves
  <2>. QED BY <2>2, QuietMemory
<1>4. CASE BenchSent
  <2>1. /\ pc' = [pc EXCEPT ![Main] = "idle"] /\ pc[Main] # "set"
        /\ UNCHANGED <<current, told, doubted, stale, got>> /\ Forget(Main)
    BY <1>4 DEF BenchSent
  <2>2. Quiet BY <2>1, Moves DEF Forget
  <2>. QED BY <2>2, QuietMemory
<1>5. ASSUME NEW c \in CfxJobs, Execute(c) PROVE MemoryInv'
  <2>. c \in Tasks BY DEF Tasks
  <2>1. PICK where \in {"check execute", "refused"} : pc' = [pc EXCEPT ![c] = where]
    BY <1>5 DEF Execute
  <2>2. pc[c] # "set" /\ UNCHANGED <<current, told, doubted, stale, got>> BY <1>5 DEF Execute
  <2>3. /\ \A u \in Tasks : u # c => seen'[u] = seen[u] /\ floor'[u] = floor[u]
        /\ floor'[c] \in {floor[c], told}
    <3>1. CASE current.setting = Direct
      <4>. seen' = [seen EXCEPT ![c] = current] /\ floor' = [floor EXCEPT ![c] = told]
        BY <1>5, <3>1 DEF Execute
      <4>. QED OBVIOUS
    <3>2. CASE current.setting # Direct
      <4>. seen' = seen /\ floor' = floor BY <1>5, <3>2 DEF Execute
      <4>. QED OBVIOUS
    <3>. QED BY <3>1, <3>2
  <2>4. Quiet BY <2>1, <2>2, <2>3, Moves
  <2>. QED BY <2>4, QuietMemory
<1>6. ASSUME NEW c \in CfxJobs, ExecuteChecked(c) PROVE MemoryInv'
  <2>. c \in Tasks BY DEF Tasks
  <2>1. pc[c] # "set" /\ UNCHANGED <<current, told, doubted, stale, got>>
    BY <1>6 DEF ExecuteChecked
  <2>2. CASE stale = Current
    <3>1. ~(stale.kind = "rev" /\ stale.rev > seen[c].rev) BY <2>2 DEF Current
    <3>2. pc' = [pc EXCEPT ![c] = "direct"] /\ UNCHANGED <<seen, floor>>
      BY <1>6, <2>2 DEF ExecuteChecked
    <3>. QED BY <2>1, <3>1, <3>2, SendsOff
  <2>3. CASE stale # Current
    <3>1. /\ pc' = [pc EXCEPT ![c] = "refused"]
          /\ seen' = [seen EXCEPT ![c] = NodeDirect] /\ floor' = [floor EXCEPT ![c] = 0]
      BY <1>6, <2>3 DEF ExecuteChecked, Forget
    <3>2. Quiet BY <2>1, <3>1, Moves
    <3>. QED BY <3>2, QuietMemory
  <2>. QED BY <2>2, <2>3
<1>7. CASE Reauthorize
  <2>1. doubted' /\ UNCHANGED <<floor, told>> BY <1>7 DEF Reauthorize
  <2>2. FloorsAreTold' BY <2>1 DEF MemoryInv, FloorsAreTold
  <2>. QED BY <2>1, <2>2, DoubtedMemory
<1>8. CASE ApplyAuthorize \/ AuthorizeSettles
  <2>1. doubted BY <1>8 DEF ApplyAuthorize, AuthorizeSettles, OrderInv, OnlyReauthorizing
  <2>2. doubted' = doubted /\ UNCHANGED <<floor, told>>
    BY <1>8 DEF ApplyAuthorize, AuthorizeSettles
  <2>3. FloorsAreTold' BY <2>2 DEF MemoryInv, FloorsAreTold
  <2>. QED BY <2>1, <2>2, <2>3, DoubtedMemory
<1>. QED BY <1>1, <1>2, <1>3, <1>4, <1>5, <1>6, <1>7, <1>8 DEF Looping

LEMMA NextMemory == OrderInv /\ MemoryInv /\ [Next]_vars => MemoryInv'
<1> SUFFICES ASSUME OrderInv, MemoryInv, [Next]_vars PROVE MemoryInv'
  OBVIOUS
<1>. TypeOK BY DEF OrderInv
<1> USE DEF egress, platform, locals, history
\* Nothing but what the node knows of being behind changes, and that to the worse.
<1>1. ASSUME UNCHANGED <<pc, got, seen, floor, current, told>>, doubted => doubted',
             doubted' \/ stale' = stale
      PROVE  MemoryInv'
  <2>1. Quiet BY <1>1 DEF Quiet
  <2>. QED BY <2>1, QuietMemory
<1>2. CASE World
  <2>1. CASE ConnectionLost BY <1>1, <2>1 DEF ConnectionLost
  <2>2. CASE Upgrade \/ Change \/ Drop \/ Reconnect
    BY <1>1, <2>2 DEF Upgrade, Change, Drop, Reconnect
  <2>. QED BY <1>2, <2>1, <2>2 DEF World
<1>3. CASE RetryWindowEnds BY <1>1, <1>3 DEF RetryWindowEnds
<1>4. CASE Wake
  <2>. DEFINE where == IF platformHasSettings THEN "lock" ELSE "idle"
  <2>1. /\ pc' = [pc EXCEPT ![Poll] = where] /\ where \notin Sending /\ pc[Poll] # "set"
        /\ UNCHANGED <<current, told, doubted, stale, got, seen, floor>>
    BY <1>4 DEF Wake, Going, Sending
  <2>2. Poll \in Tasks BY DEF Tasks
  <2>. HIDE DEF where
  <2>3. Quiet BY <2>1, <2>2, Moves
  <2>. QED BY <2>3, QuietMemory
<1>5. CASE Looping BY <1>5, LoopingMemory
<1>6. ASSUME NEW o \in Ops, StartOp(o) PROVE MemoryInv' BY <1>6, TaskMemory DEF Tasks
<1>7. ASSUME NEW t \in Tasks, Fetching(t) \/ Deciding(t) \/ Running(t) PROVE MemoryInv'
  BY <1>7, FetchingMemory, TaskMemory
<1>8. CASE UNCHANGED vars BY <1>1, <1>8 DEF vars
<1>. QED BY <1>2, <1>3, <1>4, <1>5, <1>6, <1>7, <1>8 DEF Next

LEMMA InitMemory == Init => MemoryInv
<1> SUFFICES ASSUME Init PROVE MemoryInv
  OBVIOUS
<1>1. /\ told = 0 /\ current.rev = 0 /\ \A t \in Tasks : floor[t] = 0 /\ pc[t] = "idle"
  BY DEF Init
<1>2. ~doubted => stale = Current BY DEF Init
<1>3. Current # Unsure BY DEF Current, Unsure
<1>. QED BY <1>1, <1>2, <1>3
     DEF MemoryInv, FloorsAreTold, NeverUnsure, KnowsItIsBehind, Kept, OldOnlyWhileReplaced, Sending

LEMMA MemoryCorrect == Spec => []MemoryInv
<1>. QED BY InitOrder, NextOrder, InitMemory, NextMemory, PTL DEF Spec

\* A node told of revisions by number only knows that it is behind until it holds, or is
\* just installing, settings as new as the newest it was told of.
THEOREM NeverForgets == Spec => []KnowsItIsBehind
<1>1. MemoryInv => KnowsItIsBehind BY DEF MemoryInv
<1>. QED BY <1>1, MemoryCorrect, PTL

\* On such a node whatever leaves under settings older than the node had been told of
\* when it began does so only while newer ones are being installed or after they were.
THEOREM OldOnlyInTheWindow == Spec => []OldOnlyWhileReplaced
<1>1. MemoryInv => OldOnlyWhileReplaced BY DEF MemoryInv
<1>. QED BY <1>1, MemoryCorrect, PTL
-----------------------------------------------------------------------------
(* What goes out does so as it was dispatched to *)

\* A .cfx job expects nothing, and the settings it read when it was taken were direct:
\* without this the step that sends it off, which does not read them again, would not
\* keep the promise.
JobsExpectNothing ==
  \A c \in CfxJobs :
    want[c] = NoExpect /\ (pc[c] = "check execute" => seen[c].setting = Direct)
ExpectInv == ExpectationHonoured /\ JobsExpectNothing

\* The promise that is made of one task.
Honours(t) ==
  /\ want[t].given => seen[t].rev >= want[t].rev
  /\ want[t].proxy # NoProxy => pc[t] = "proxied" /\ seen[t].setting = want[t].proxy
  /\ pc[t] = "direct" <=> seen[t].setting = Direct
  /\ seen[t].setting # Unusable

LEMMA HonoursEach == ExpectationHonoured <=> \A t \in Tasks : pc[t] \in Sending => Honours(t)
BY DEF ExpectationHonoured, Honours

\* A step that sends nothing off: what goes out keeps what it expected and what it read.
SendsNoneOff ==
  /\ \A u \in Tasks : pc'[u] \in Sending =>
        pc'[u] = pc[u] /\ want'[u] = want[u] /\ seen'[u] = seen[u]
  /\ \A c \in CfxJobs :
        /\ want'[c] \in {want[c], NoExpect}
        /\ pc'[c] = "check execute" => pc[c] = "check execute" /\ seen'[c] = seen[c]

LEMMA NoneOffExpects == ASSUME ExpectInv, SendsNoneOff PROVE ExpectInv'
<1>1. ASSUME NEW u \in Tasks, pc'[u] \in Sending PROVE Honours(u)'
  <2>1. pc'[u] = pc[u] /\ want'[u] = want[u] /\ seen'[u] = seen[u] BY <1>1 DEF SendsNoneOff
  <2>2. Honours(u) BY <1>1, <2>1, HonoursEach DEF ExpectInv
  <2>. QED BY <2>1, <2>2 DEF Honours
<1>2. ExpectationHonoured' BY <1>1 DEF ExpectationHonoured, Honours
<1>3. JobsExpectNothing' BY DEF ExpectInv, JobsExpectNothing, SendsNoneOff
<1>. QED BY <1>2, <1>3 DEF ExpectInv

\* One task moves to a place it does not send from.
LEMMA MovesExpect ==
  ASSUME TypeOK, ExpectInv, NEW t \in Tasks, NEW where,
         where \notin Sending \cup {"check execute"}, pc' = [pc EXCEPT ![t] = where],
         \A u \in Tasks : u # t => want'[u] = want[u] /\ seen'[u] = seen[u],
         t \in CfxJobs => want'[t] \in {want[t], NoExpect}
  PROVE  ExpectInv'
<1>1. \A c \in CfxJobs : c \in Tasks BY DEF Tasks
<1>2. SendsNoneOff BY <1>1 DEF TypeOK, SendsNoneOff
<1>. QED BY <1>2, NoneOffExpects

\* One task moves to a place it sends from, and the promise is true of it.
LEMMA SendsExpect ==
  ASSUME TypeOK, ExpectInv, NEW t \in Tasks, NEW where \in Sending,
         pc' = [pc EXCEPT ![t] = where], UNCHANGED <<want, seen>>, Honours(t)'
  PROVE  ExpectInv'
<1>1. ASSUME NEW u \in Tasks, pc'[u] \in Sending PROVE Honours(u)'
  <2>1. CASE u = t BY <2>1
  <2>2. CASE u # t
    <3>1. pc'[u] = pc[u] BY <2>2 DEF TypeOK
    <3>2. Honours(u) BY <1>1, <3>1, HonoursEach DEF ExpectInv
    <3>. QED BY <3>1, <3>2 DEF Honours
  <2>. QED BY <2>1, <2>2
<1>2. ExpectationHonoured' BY <1>1 DEF ExpectationHonoured, Honours
<1>3. JobsExpectNothing' BY DEF TypeOK, ExpectInv, JobsExpectNothing, Sending, Tasks
<1>. QED BY <1>2, <1>3 DEF ExpectInv

\* What fresh and decide let go is what the promise is about.
LEMMA GoOutHonours == ASSUME NEW t \in Tasks, TypeOK, GoOut(t) PROVE Honours(t)'
<1>1. /\ want[t] \in Expectations /\ seen[t] \in NodeSettings /\ pc \in [Tasks -> Places]
  BY DEF TypeOK
<1>2. want[t].rev \in Nat /\ seen[t].rev \in Nat /\ want[t].proxy \in Proxies \cup {NoProxy}
  BY <1>1 DEF Expectations, NodeSettings, Revs
<1>3. pc'[t] = Decision(want[t], seen[t]) /\ want'[t] = want[t] /\ seen'[t] = seen[t]
  BY <1>1 DEF GoOut, Going, locals
<1>4. want[t].given => seen[t].rev >= want[t].rev
  <2>1. ~(want[t].given /\ want[t].rev > seen[t].rev) BY DEF GoOut, Behind
  <2>. QED BY <1>2, <2>1
<1>5. /\ seen[t].setting # Unusable
      /\ want[t].proxy # NoProxy => seen[t].setting = want[t].proxy
      /\ pc'[t] = IF seen[t].setting = Direct THEN "direct" ELSE "proxied"
  BY <1>3 DEF GoOut, Decision
<1>6. want[t].proxy # NoProxy => want[t].proxy # Direct BY <1>2
<1>. QED BY <1>3, <1>4, <1>5, <1>6 DEF Honours

LEMMA FetchingExpect == ASSUME NEW t \in Tasks, TypeOK, ExpectInv, Fetching(t) PROVE ExpectInv'
<1> USE DEF Going, Sending, locals
<1>1. CASE Lock(t)
  <2>. DEFINE where == IF Fresh(t) THEN "read locked" ELSE "ask"
  <2>1. pc' = [pc EXCEPT ![t] = where] /\ UNCHANGED <<want, seen>> BY <1>1 DEF Lock
  <2>2. where \notin Sending \cup {"check execute"} OBVIOUS
  <2>. HIDE DEF where
  <2>. QED BY <2>1, <2>2, MovesExpect
<1>2. ASSUME NEW a, Ask(t, a) PROVE ExpectInv' BY <1>2, MovesExpect DEF Ask
<1>3. CASE AskAnswered(t) BY <1>2, <1>3 DEF AskAnswered
<1>4. CASE AskFails(t) BY <1>2, <1>4 DEF AskFails
<1>5. CASE Settle(t) BY <1>5, MovesExpect DEF Settle
<1>6. CASE FetchFailed(t)
  <2>. DEFINE where == IF t \in Ops THEN "refused" ELSE "idle"
  <2>1. pc' = [pc EXCEPT ![t] = where] BY <1>6 DEF FetchFailed
  <2>2. where \notin Sending \cup {"check execute"} OBVIOUS
  <2>3. /\ \A u \in Tasks : u # t => want'[u] = want[u] /\ seen'[u] = seen[u]
        /\ want'[t] = NoExpect
    BY <1>6 DEF FetchFailed, Forget, TypeOK
  <2>. HIDE DEF where
  <2>. QED BY <2>1, <2>2, <2>3, MovesExpect
<1>7. CASE Set(t)
  <2>1. PICK where \in {"read fetched", "idle"} : pc' = [pc EXCEPT ![t] = where]
    BY <1>7 DEF Set
  <2>2. UNCHANGED <<want, seen>> BY <1>7 DEF Set
  <2>. QED BY <2>1, <2>2, MovesExpect
<1>. QED BY <1>1, <1>3, <1>4, <1>5, <1>6, <1>7 DEF Fetching

LEMMA TaskExpect ==
  ASSUME NEW t \in Tasks, TypeOK, ExpectInv,
         Deciding(t) \/ Running(t) \/ (t \in Ops /\ StartOp(t))
  PROVE  ExpectInv'
<1> USE DEF Going, Sending, locals
<1>1. CASE Read(t)
  <2>1. PICK where \in {"check", "check locked", "check fetched"} : pc' = [pc EXCEPT ![t] = where]
    BY <1>1 DEF Read
  <2>2. want' = want /\ seen' = [seen EXCEPT ![t] = current] BY <1>1 DEF Read
  <2>3. \A u \in Tasks : u # t => seen'[u] = seen[u] BY <2>2 DEF TypeOK
  <2>. QED BY <2>1, <2>2, <2>3, MovesExpect
<1>2. CASE GoOut(t)
  <2>. DEFINE where == Decision(want[t], seen[t])
  <2>1. where \in Sending BY <1>2 DEF GoOut, Decision
  <2>2. pc' = [pc EXCEPT ![t] = where] /\ UNCHANGED <<want, seen>> BY <1>2 DEF GoOut
  <2>3. Honours(t)' BY <1>2, GoOutHonours
  <2>. HIDE DEF where
  <2>. QED BY <2>1, <2>2, <2>3, SendsExpect
<1>3. ASSUME Refuse(t) PROVE ExpectInv'
  <2>. DEFINE where == IF t = Main THEN "idle" ELSE "refused"
  <2>1. pc' = [pc EXCEPT ![t] = where] BY <1>3 DEF Refuse
  <2>2. where \notin Sending \cup {"check execute"} OBVIOUS
  <2>3. /\ \A u \in Tasks : u # t => want'[u] = want[u] /\ seen'[u] = seen[u]
        /\ want'[t] = NoExpect
    BY <1>3 DEF Refuse, Forget, TypeOK
  <2>. HIDE DEF where
  <2>. QED BY <2>1, <2>2, <2>3, MovesExpect
<1>4. CASE DecideRefuses(t) \/ BehindSoRefuse(t) \/ StillBehind(t)
  BY <1>3, <1>4 DEF DecideRefuses, BehindSoRefuse, StillBehind
<1>5. CASE BehindSoLock(t) BY <1>5, MovesExpect DEF BehindSoLock
<1>6. CASE BehindSoAsk(t) BY <1>6, MovesExpect DEF BehindSoAsk
<1>7. ASSUME NEW where \in {"done", "stopped"}, Going(t, where), Forget(t) PROVE ExpectInv'
  <2>1. /\ \A u \in Tasks : u # t => want'[u] = want[u] /\ seen'[u] = seen[u]
        /\ want'[t] = NoExpect
    BY <1>7 DEF Forget, TypeOK
  <2>. QED BY <1>7, <2>1, MovesExpect
<1>8. CASE Finish(t) BY <1>7, <1>8 DEF Finish
<1>9. CASE StopDirect(t) BY <1>7, <1>9 DEF StopDirect
<1>10. CASE t \in Ops /\ StartOp(t)
  <2>1. t \notin CfxJobs BY <1>10
  <2>2. pc' = [pc EXCEPT ![t] = "read"] /\ seen' = seen
        /\ \A u \in Tasks : u # t => want'[u] = want[u]
    BY <1>10 DEF StartOp
  <2>. QED BY <2>1, <2>2, MovesExpect
<1>. QED BY <1>1, <1>2, <1>4, <1>5, <1>6, <1>8, <1>9, <1>10 DEF Deciding, Running

LEMMA LoopingExpect == ASSUME TypeOK, ExpectInv, Looping PROVE ExpectInv'
<1> USE DEF Going, Sending, locals
<1>. Main \in Tasks /\ Main \notin CfxJobs BY DEF Tasks
<1>1. CASE Announce
  <2>1. PICK where \in {"lock", "mark"} : pc' = [pc EXCEPT ![Main] = where] BY <1>1 DEF Announce
  <2>. QED BY <1>1, <2>1, MovesExpect DEF Announce
<1>2. CASE MarkAnnounced BY <1>2, MovesExpect DEF MarkAnnounced
<1>3. CASE StartBench
  <2>1. pc' = [pc EXCEPT ![Main] = "read"] /\ seen' = seen
        /\ \A u \in Tasks : u # Main => want'[u] = want[u]
    BY <1>3 DEF StartBench
  <2>. QED BY <2>1, MovesExpect
<1>4. CASE BenchSent
  <2>1. pc' = [pc EXCEPT ![Main] = "idle"] /\ Forget(Main) BY <1>4 DEF BenchSent
  <2>2. \A u \in Tasks : u # Main => want'[u] = want[u] /\ seen'[u] = seen[u]
    BY <2>1 DEF Forget, TypeOK
  <2>. QED BY <2>1, <2>2, MovesExpect
<1>5. ASSUME NEW c \in CfxJobs, Execute(c) PROVE ExpectInv'
  <2>. c \in Tasks BY DEF Tasks
  <2>1. CASE current.setting = Direct
    <3>1. /\ pc' = [pc EXCEPT ![c] = "check execute"] /\ want' = want
          /\ seen' = [seen EXCEPT ![c] = current]
      BY <1>5, <2>1 DEF Execute
    <3>2. pc'[c] = "check execute" /\ seen'[c].setting = Direct BY <2>1, <3>1 DEF TypeOK
    <3>3. \A u \in Tasks : u # c => pc'[u] = pc[u] /\ seen'[u] = seen[u] BY <3>1 DEF TypeOK
    <3>4. ASSUME NEW u \in Tasks, pc'[u] \in Sending PROVE Honours(u)'
      <4>1. u # c BY <3>2, <3>4
      <4>2. pc'[u] = pc[u] /\ seen'[u] = seen[u] /\ want'[u] = want[u] BY <3>1, <3>3, <4>1
      <4>3. Honours(u) BY <3>4, <4>2, HonoursEach DEF ExpectInv
      <4>. QED BY <4>2, <4>3 DEF Honours
    <3>5. ExpectationHonoured' BY <3>4 DEF ExpectationHonoured, Honours
    <3>6. JobsExpectNothing'
      BY <3>1, <3>2, <3>3 DEF ExpectInv, JobsExpectNothing, Tasks
    <3>. QED BY <3>5, <3>6 DEF ExpectInv
  <2>2. CASE current.setting # Direct BY <1>5, <2>2, MovesExpect DEF Execute
  <2>. QED BY <2>1, <2>2
<1>6. ASSUME NEW c \in CfxJobs, ExecuteChecked(c) PROVE ExpectInv'
  <2>. c \in Tasks BY DEF Tasks
  <2>1. CASE stale = Current
    <3>1. pc' = [pc EXCEPT ![c] = "direct"] /\ UNCHANGED <<want, seen>>
      BY <1>6, <2>1 DEF ExecuteChecked
    <3>2. want[c] = NoExpect /\ seen[c].setting = Direct
      BY <1>6 DEF ExecuteChecked, ExpectInv, JobsExpectNothing
    <3>3. pc'[c] = "direct" BY <3>1 DEF TypeOK
    <3>4. Honours(c)' BY <3>1, <3>2, <3>3 DEF Honours, NoExpect, Direct, Unusable
    <3>. QED BY <3>1, <3>4, SendsExpect
  <2>2. CASE stale # Current
    <3>1. pc' = [pc EXCEPT ![c] = "refused"] /\ Forget(c) BY <1>6, <2>2 DEF ExecuteChecked
    <3>2. /\ \A u \in Tasks : u # c => want'[u] = want[u] /\ seen'[u] = seen[u]
          /\ want'[c] = NoExpect
      BY <3>1 DEF Forget, TypeOK
    <3>. QED BY <3>1, <3>2, MovesExpect
  <2>. QED BY <2>1, <2>2
<1>7. CASE Reauthorize BY <1>7, MovesExpect DEF Reauthorize
<1>8. CASE ApplyAuthorize BY <1>8, MovesExpect DEF ApplyAuthorize
<1>9. CASE AuthorizeSettles BY <1>9, MovesExpect DEF AuthorizeSettles
<1>. QED BY <1>1, <1>2, <1>3, <1>4, <1>5, <1>6, <1>7, <1>8, <1>9 DEF Looping

LEMMA NextExpect == TypeOK /\ ExpectInv /\ [Next]_vars => ExpectInv'
<1> SUFFICES ASSUME TypeOK, ExpectInv, [Next]_vars PROVE ExpectInv'
  OBVIOUS
<1>1. ASSUME UNCHANGED <<pc, want, seen>> PROVE ExpectInv'
  BY <1>1, NoneOffExpects DEF SendsNoneOff
<1>2. CASE World
  BY <1>1, <1>2 DEF World, Upgrade, Change, Drop, ConnectionLost, Reconnect, locals
<1>3. CASE RetryWindowEnds BY <1>1, <1>3 DEF RetryWindowEnds, locals
<1>4. CASE Wake
  <2>. DEFINE where == IF platformHasSettings THEN "lock" ELSE "idle"
  <2>1. pc' = [pc EXCEPT ![Poll] = where] /\ UNCHANGED <<want, seen>>
    BY <1>4 DEF Wake, Going, locals
  <2>2. where \notin Sending \cup {"check execute"} /\ Poll \in Tasks BY DEF Sending, Tasks
  <2>. HIDE DEF where
  <2>. QED BY <2>1, <2>2, MovesExpect
<1>5. CASE Looping BY <1>5, LoopingExpect
<1>6. ASSUME NEW o \in Ops, StartOp(o) PROVE ExpectInv' BY <1>6, TaskExpect DEF Tasks
<1>7. ASSUME NEW t \in Tasks, Fetching(t) \/ Deciding(t) \/ Running(t) PROVE ExpectInv'
  BY <1>7, FetchingExpect, TaskExpect
<1>8. CASE UNCHANGED vars BY <1>1, <1>8 DEF vars, locals
<1>. QED BY <1>2, <1>3, <1>4, <1>5, <1>6, <1>7, <1>8 DEF Next

\* Whatever leaves the node does so as it was dispatched to: through the proxy it named,
\* under settings at least as new as it was sent with, and directly only on settings that
\* say so (fresh and decide together, sends_through_proxy for a .cfx job).
THEOREM LeavesAsDispatched == Spec => []ExpectationHonoured
<1>1. Init => ExpectInv
  <2>1. ASSUME Init PROVE \A t \in Tasks : pc[t] = "idle" /\ want[t] = NoExpect
    BY <2>1 DEF Init
  <2>. QED BY <2>1 DEF ExpectInv, ExpectationHonoured, JobsExpectNothing, Sending, Tasks
<1>2. Spec => []ExpectInv BY <1>1, TypeCorrect, NextExpect, PTL DEF Spec
<1>3. ExpectInv => ExpectationHonoured BY DEF ExpectInv
<1>. QED BY <1>2, <1>3, PTL

-----------------------------------------------------------------------------
(* Operations do not ask one after the other *)

\* A step that notes no failure and sends no operation to ask.
LEMMA AsksNoMore ==
  ASSUME OpsDoNotHammer, lastFailure' => lastFailure,
         \A o \in Ops : pc'[o] = "ask" => pc[o] = "ask"
  PROVE  OpsDoNotHammer'
BY DEF OpsDoNotHammer

\* A failure is noted by the task that has the lock, so nobody else is asking.
LEMMA NotedFailure ==
  ASSUME NEW t \in Tasks, NEW where, TypeOK, OneFetchAtATime,
         pc[t] \in LockedPlaces, where # "ask", pc' = [pc EXCEPT ![t] = where]
  PROVE  OpsDoNotHammer'
<1>1. ASSUME NEW o \in Ops PROVE pc'[o] # "ask"
  <2>1. o \in Tasks BY DEF Tasks
  <2>2. CASE o = t BY <2>1, <2>2 DEF TypeOK
  <2>3. CASE o # t
    <3>1. refreshing = t BY DEF OneFetchAtATime
    <3>2. pc[o] \notin LockedPlaces BY <2>1, <2>3, <3>1 DEF OneFetchAtATime
    <3>. QED BY <2>1, <2>3, <3>2 DEF TypeOK, LockedPlaces, FetchPlaces
  <2>. QED BY <2>2, <2>3
<1>. QED BY <1>1 DEF OpsDoNotHammer

LEMMA FetchingHammer ==
  ASSUME NEW t \in Tasks, TypeOK, OneFetchAtATime, OpsDoNotHammer, Fetching(t)
  PROVE  OpsDoNotHammer'
<1>. USE DEF Going, egress
<1>. \A o \in Ops : o \in Tasks BY DEF Tasks
<1>1. CASE Lock(t)
  <2>1. lastFailure' = lastFailure BY <1>1 DEF Lock
  <2>2. ASSUME NEW o \in Ops, pc'[o] = "ask" PROVE pc[o] = "ask"
    <3>1. CASE o = t BY <1>1, <2>2, <3>1 DEF Lock, Fresh, TypeOK
    <3>2. CASE o # t BY <1>1, <2>2, <3>2 DEF Lock, TypeOK
    <3>. QED BY <3>1, <3>2
  <2>. QED BY <2>1, <2>2, AsksNoMore
<1>2. ASSUME NEW a, Ask(t, a) PROVE OpsDoNotHammer' BY <1>2, AsksNoMore DEF Ask, TypeOK
<1>3. CASE AskAnswered(t) BY <1>2, <1>3 DEF AskAnswered
<1>4. CASE AskFails(t) BY <1>2, <1>4 DEF AskFails
<1>5. CASE Settle(t) BY <1>5, AsksNoMore DEF Settle, TypeOK
<1>6. CASE FetchFailed(t)
  <2>. DEFINE where == IF t \in Ops THEN "refused" ELSE "idle"
  <2>1. pc' = [pc EXCEPT ![t] = where] /\ where # "ask" /\ pc[t] \in LockedPlaces
    BY <1>6 DEF FetchFailed, LockedPlaces, FetchPlaces
  <2>. HIDE DEF where
  <2>. QED BY <2>1, NotedFailure
<1>7. CASE Set(t)
  <2>1. lastFailure' = lastFailure BY <1>7 DEF Set
  <2>2. PICK where \in {"read fetched", "idle"} : pc' = [pc EXCEPT ![t] = where] BY <1>7 DEF Set
  <2>. QED BY <2>1, <2>2, AsksNoMore DEF TypeOK
<1>. QED BY <1>1, <1>3, <1>4, <1>5, <1>6, <1>7 DEF Fetching

LEMMA TaskHammer ==
  ASSUME NEW t \in Tasks, TypeOK, OneFetchAtATime, OpsDoNotHammer,
         Deciding(t) \/ Running(t) \/ (t \in Ops /\ StartOp(t))
  PROVE  OpsDoNotHammer'
<1>. USE DEF Going, egress
<1>. \A o \in Ops : o \in Tasks BY DEF Tasks
<1>1. ASSUME NEW where, where # "ask", pc' = [pc EXCEPT ![t] = where], lastFailure' = lastFailure
      PROVE  OpsDoNotHammer'
  BY <1>1, AsksNoMore DEF TypeOK
<1>2. CASE Read(t)
  <2>1. PICK where \in {"check", "check locked", "check fetched"} : pc' = [pc EXCEPT ![t] = where]
    BY <1>2 DEF Read
  <2>. QED BY <1>1, <1>2, <2>1 DEF Read
<1>3. CASE GoOut(t)
  <2>1. PICK where \in {"direct", "proxied"} : pc' = [pc EXCEPT ![t] = where]
    BY <1>3 DEF GoOut, Decision
  <2>. QED BY <1>1, <1>3, <2>1 DEF GoOut
<1>4. ASSUME Refuse(t) PROVE \E where \in {"idle", "refused"} : pc' = [pc EXCEPT ![t] = where]
  BY <1>4 DEF Refuse
<1>5. CASE DecideRefuses(t) \/ BehindSoRefuse(t)
  <2>1. PICK where \in {"idle", "refused"} : pc' = [pc EXCEPT ![t] = where]
    BY <1>4, <1>5 DEF DecideRefuses, BehindSoRefuse
  <2>2. lastFailure' = lastFailure BY <1>5 DEF DecideRefuses, BehindSoRefuse
  <2>. QED BY <1>1, <2>1, <2>2
<1>6. CASE BehindSoLock(t) BY <1>1, <1>6 DEF BehindSoLock
<1>7. CASE BehindSoAsk(t) BY <1>7 DEF BehindSoAsk, OpsDoNotHammer, TypeOK
<1>8. CASE StillBehind(t)
  <2>1. PICK where \in {"idle", "refused"} : pc' = [pc EXCEPT ![t] = where]
    BY <1>4, <1>8 DEF StillBehind
  <2>2. pc[t] \in LockedPlaces BY <1>8 DEF StillBehind, LockedPlaces
  <2>. QED BY <2>1, <2>2, NotedFailure
<1>9. CASE Finish(t) BY <1>1, <1>9 DEF Finish
<1>10. CASE StopDirect(t) BY <1>1, <1>10 DEF StopDirect
<1>11. CASE t \in Ops /\ StartOp(t) BY <1>1, <1>11 DEF StartOp
<1>. QED BY <1>2, <1>3, <1>5, <1>6, <1>7, <1>8, <1>9, <1>10, <1>11 DEF Deciding, Running

LEMMA NextHammer == TypeOK /\ OneFetchAtATime /\ OpsDoNotHammer /\ [Next]_vars => OpsDoNotHammer'
<1> SUFFICES ASSUME TypeOK, OneFetchAtATime, OpsDoNotHammer, [Next]_vars PROVE OpsDoNotHammer'
  OBVIOUS
<1>. USE DEF egress
<1>. \A o \in Ops : o \in Tasks BY DEF Tasks
<1>1. ASSUME UNCHANGED pc, lastFailure' => lastFailure PROVE OpsDoNotHammer'
  BY <1>1, AsksNoMore
<1>2. ASSUME NEW t \in Tasks, NEW where, where # "ask", pc' = [pc EXCEPT ![t] = where],
             lastFailure' = lastFailure
      PROVE  OpsDoNotHammer'
  BY <1>2, AsksNoMore DEF TypeOK
<1>3. CASE World
  BY <1>1, <1>3 DEF World, Upgrade, Change, Drop, ConnectionLost, Reconnect
<1>4. CASE RetryWindowEnds BY <1>1, <1>4 DEF RetryWindowEnds
<1>5. CASE Wake BY <1>2, <1>5 DEF Wake, Going, Tasks
<1>6. CASE Looping
  <2>1. lastFailure' = lastFailure
    BY <1>6 DEF Looping, Announce, MarkAnnounced, StartBench, BenchSent, Execute, ExecuteChecked,
                Reauthorize, ApplyAuthorize, AuthorizeSettles
  <2>2. ASSUME NEW c \in CfxJobs, Execute(c) \/ ExecuteChecked(c)
        PROVE  \E where \in {"check execute", "refused", "direct"} : pc' = [pc EXCEPT ![c] = where]
    BY <2>2 DEF Execute, ExecuteChecked, Going
  <2>3. CASE \E c \in CfxJobs : Execute(c) \/ ExecuteChecked(c)
    BY <1>2, <2>1, <2>2, <2>3 DEF Tasks
  <2>4. CASE ~\E c \in CfxJobs : Execute(c) \/ ExecuteChecked(c)
    <3>1. \E where \in {"lock", "mark", "read", "idle", "authorized", "authorize applied"} :
            pc' = [pc EXCEPT ![Main] = where]
      BY <1>6, <2>4 DEF Looping, Announce, MarkAnnounced, StartBench, BenchSent, Reauthorize,
                        ApplyAuthorize, AuthorizeSettles, Going
    <3>. QED BY <1>2, <2>1, <3>1 DEF Tasks
  <2>. QED BY <2>3, <2>4
<1>7. ASSUME NEW o \in Ops, StartOp(o) PROVE OpsDoNotHammer' BY <1>7, TaskHammer
<1>8. ASSUME NEW t \in Tasks, Fetching(t) \/ Deciding(t) \/ Running(t) PROVE OpsDoNotHammer'
  BY <1>8, FetchingHammer, TaskHammer
<1>9. CASE UNCHANGED vars BY <1>1, <1>9 DEF vars
<1>. QED BY <1>3, <1>4, <1>5, <1>6, <1>7, <1>8, <1>9 DEF Next

\* Operations that queue behind a platform that does not answer do not ask it one after
\* the other: the failure is noted before the lock is given back (refresh, fresh).
THEOREM FailuresHoldBack == Spec => []OpsDoNotHammer
<1>1. Init => OpsDoNotHammer BY DEF Init, OpsDoNotHammer, Tasks
<1>. QED BY <1>1, TypeCorrect, FetchesExclude, NextHammer, PTL DEF Spec
=============================================================================
