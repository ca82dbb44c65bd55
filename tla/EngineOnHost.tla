---------------------------- MODULE EngineOnHost ----------------------------
(* What install.rs and migrate.rs of core/src/toolchain promise of an engine, to        *)
(* somebody who sees neither its names nor the files that a command leaves half way: it  *)
(* is there in one version or not at all; it is replaced only by a release that is not   *)
(* older; nothing is replaced or removed under the process that runs it; and what is     *)
(* started is what is there. An earlier version may stay beside the installed one.       *)
EXTENDS Naturals

VARIABLES
  release,              \* the newest version that was released
  installed, spare,     \* the version that is installed and the one beside it, or None
  runs, spareRuns       \* the version that a process of each runs, or None

None == 0
processes == <<runs, spareRuns>>
vars == <<release, installed, spare, processes>>

Init ==
  /\ release = 1 /\ installed \in {None, 1} /\ spare \in {None, installed}
  /\ runs \in {None, installed} /\ spareRuns \in {None, spare}

Publish == release' = release + 1 /\ UNCHANGED <<installed, spare, processes>>

\* Another version takes the place of the installed one.
Replace(version) ==
  /\ runs = None /\ version \in installed .. release
  /\ installed' = version /\ UNCHANGED <<release, spare, processes>>

\* Another version is installed beside the one there is, which may run on.
PlaceBeside(version) ==
  /\ spare = None /\ version \in installed .. release
  /\ installed' = version /\ spare' = installed
  /\ runs' = None /\ spareRuns' = runs /\ UNCHANGED release

Tidy == spareRuns = None /\ spare' = None /\ UNCHANGED <<release, installed, processes>>

\* The installed version goes first, and then what was beside it.
Remove ==
  /\ runs = None /\ spareRuns = None
  /\ installed' = spare /\ spare' = None /\ UNCHANGED <<release, processes>>

\* Processes come and go, and run what is there.
Turn ==
  /\ runs' \in {None, installed} /\ spareRuns' \in {None, spare}
  /\ UNCHANGED <<release, installed, spare>>

Next ==
  \/ Publish \/ Tidy \/ Remove \/ Turn
  \/ \E version \in 1 .. release : Replace(version) \/ PlaceBeside(version)

Spec == Init /\ [][Next]_vars

===============================================================================
