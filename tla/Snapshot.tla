------------------------------- MODULE Snapshot --------------------------------
(***************************************************************************)
(* Snapshots of the program's memory (src/snapshot.cc), in the three       *)
(* builds of src/config.h: by page protection (1), by page protection with *)
(* a short cut for the latest snapshot (2, the default), by fork (0).      *)
(*                                                                         *)
(* With page protection a snapshot makes every page read-only; the first   *)
(* write to a page faults and the handler copies the page to the backing   *)
(* store.  With fork a snapshot is a process that sleeps while its child   *)
(* goes on; to roll back the child says whom to wake and exits.            *)
(*                                                                         *)
(* Pages outside the snapshotted regions, or in shared memory, hold the    *)
(* checker's own data.  Which pages belong to the program is found out at  *)
(* the start, from the list of mappings (src/snapshot-interface.cc).  A    *)
(* page has one cell, a region one page.                                   *)
(***************************************************************************)
EXTENDS Integers, SequencesExt

CONSTANTS Page,             \* the pages
          Shared,           \* those that belong to the checker
          Content,          \* what a page can hold
          MaxBackingPages,  \* the size of the backing store
          MaxSnapShots,     \* the number of snapshots
          MaxRegions,       \* the number of regions
          Heap,             \* the pages of the program's heaps
          Maps,             \* the lines of /proc/self/maps, the writable flag and the name
          Binary,           \* the name of the program
          NoName            \* that of a mapping of no file

ASSUME SnapshotAssumption ==
  /\ Shared \subseteq Page
  /\ MaxBackingPages \in Nat
  /\ MaxSnapShots \in Nat
  /\ MaxRegions \in Nat
  /\ Heap \subseteq Page \ Shared
  /\ Len(Maps) \in Nat \ {0} /\ DOMAIN Maps = 1 .. Len(Maps)
  /\ Maps[1].name # NoName

\* How the kernel and the linker lay out a process: the program's data is in mappings of its file
\* and its zeroed data in mappings of no file behind one; the checker's are mappings of a library.
Follows(i, name) ==
  \E j \in 1 .. i : Maps[j].name = name /\ \A k \in j + 1 .. i : Maps[k].name = NoName

Segments == {Maps[i].page : i \in {j \in DOMAIN Maps : Maps[j].w /\ Follows(j, Binary)}}

ASSUME LayoutAssumption ==
  /\ Binary # NoName
  /\ Segments \subseteq Page \ Shared
  /\ Page \ Shared \subseteq Heap \cup Segments
  /\ IsFiniteSet(Page)

VARIABLES build,      \* USE_MPROTECT_SNAPSHOT
          memory,     \* the memory the running process sees
          writable,   \* the pages a write does not fault on
          backing,    \* the backing store and where its pages came from
          snapShots,  \* per snapshot, the length of the backing store then
          processes,  \* the sleeping processes, the first first
          currID,     \* currSnapShotID, in shared memory
          rollbackID, \* mIDToRollback, in shared memory; -1 when nobody asks
          regions,    \* the pages in regionsToSnapShot
          state       \* "off", "starting", "running", "waking" between two processes,
                      \* "ended"

mprotVars == <<regions, writable, backing, snapShots>>
forkVars  == <<processes, currID, rollbackID>>
vars      == <<build, memory, mprotVars, forkVars, state>>

Snapshotted == Page \ Shared
Backed      == [page : Snapshotted, content : Content]
Sleeping    == [id : Nat, memory : [Snapshotted -> Content]]

TypeOK ==
  /\ build \in 0 .. 2
  /\ memory \in [Page -> Content]
  /\ regions \subseteq Snapshotted /\ Cardinality(regions) <= MaxRegions
  /\ Shared \subseteq writable /\ writable \subseteq Page
  /\ backing \in Seq(Backed) /\ Len(backing) <= MaxBackingPages
  /\ snapShots \in Seq(0 .. Len(backing)) /\ Len(snapShots) <= MaxSnapShots
  /\ processes \in Seq(Sleeping)
  /\ currID \in Nat
  /\ rollbackID \in Int
  /\ state \in {"off", "starting", "running", "waking", "ended"}

Init ==
  /\ build \in 0 .. 2
  /\ memory \in [Page -> Content]
  /\ regions = {}
  /\ writable = Page
  /\ backing = <<>>
  /\ snapShots = <<>>
  /\ processes = <<>>
  /\ currID = 0
  /\ rollbackID = -1
  /\ state = "off"

\* exit from any process: those above it in the chain see that nobody asked.
Exit == state' = "ended" /\ UNCHANGED <<build, memory, mprotVars, forkVars>>

-------------------------------------------------------------------------------
(***************************************************************************)
(* The start.  main sets the system up, and the entry point it is given    *)
(* adds the program's globals before it takes the first snapshot.          *)
(***************************************************************************)
\* Both the table of regions and the heaps exist only with page protection.
snapshot_add_memory_regions(new, next) ==
  IF build # 0 /\ Cardinality(regions \cup new) > MaxRegions
  THEN Exit
  ELSE /\ regions' = IF build = 0 THEN regions ELSE regions \cup new
       /\ state' = next
       /\ UNCHANGED <<build, memory, writable, backing, snapShots, forkVars>>

mprot_snapshot_init ==
  /\ build # 0
  /\ state = "off"
  /\ snapshot_add_memory_regions(Heap, "starting")

fork_snapshot_init ==
  /\ build = 0
  /\ state = "off"
  /\ currID' = 0
  /\ rollbackID' = -1
  /\ state' = "starting"
  /\ UNCHANGED <<build, memory, mprotVars, processes>>

\* The buffer is not cleared and sscanf reads on past the end of a line without
\* a name, into the name the buffer still holds: so the program's zeroed data,
\* a mapping of no file, is found.
LineName(i) ==
  Maps[Max({j \in 1 .. i : Maps[j].name # NoName})].name

SnapshotGlobalSegments ==
  /\ state = "starting"
  /\ snapshot_add_memory_regions(
       {Maps[i].page : i \in {j \in DOMAIN Maps : Maps[j].w /\ LineName(j) = Binary}},
       "running")

Start == mprot_snapshot_init \/ fork_snapshot_init \/ SnapshotGlobalSegments

-------------------------------------------------------------------------------
(***************************************************************************)
(* Page protection.                                                        *)
(***************************************************************************)
\* The fault handler: the old content is saved before the write goes through.
mprot_handle_pf(p) ==
  /\ backing' = Append(backing, [page |-> p, content |-> memory[p]])
  /\ writable' = writable \cup {p}

WritePage(p, c) ==
  /\ memory' = [memory EXCEPT ![p] = c]
  /\ IF p \in writable
     THEN UNCHANGED <<backing, writable>>
     ELSE mprot_handle_pf(p)
  /\ UNCHANGED <<build, regions, snapShots, forkVars, state>>

Write(p, c) ==
  IF p \notin writable /\ Len(backing) = MaxBackingPages
  THEN Exit
  ELSE WritePage(p, c)

mprot_take_snapshot ==
  IF Len(snapShots) = MaxSnapShots
  THEN Exit
  ELSE /\ writable' = Page \ regions
       /\ snapShots' = Append(snapShots, Len(backing))
       /\ UNCHANGED <<build, memory, regions, backing, forkVars, state>>

\* The saved copies of a page made since snapshot s; the earliest is its content then.
Copies(s, p) == {i \in snapShots[s] + 1 .. Len(backing) : backing[i].page = p}

Earliest(I) == CHOOSE i \in I : \A j \in I : i <= j

AtSnapshot(s, p) ==
  IF Copies(s, p) = {} THEN memory[p] ELSE backing[Earliest(Copies(s, p))].content

\* What the loop over the backing store puts back: duplicateMap lets the first copy of a
\* page win.
Restored(s) == [p \in Page |-> IF p \in Shared THEN memory[p] ELSE AtSnapshot(s, p)]

\* The loop of the short cut has no duplicateMap, so the last copy of a page wins.
RestoredLatest(s) ==
  [p \in Page |-> IF Copies(s, p) = {} THEN memory[p] ELSE backing[Max(Copies(s, p))].content]

\* Fault: the short cut protects the pages again though it keeps their copies.
roll_back_latest_protects(s) ==
  /\ build = 2
  /\ s = Len(snapShots)
  /\ memory' = RestoredLatest(s)
  /\ writable' = Page \ regions
  /\ UNCHANGED <<build, regions, backing, snapShots, forkVars, state>>

\* The short cut of build 2: the pages stay writable and their copies stay.
roll_back_latest(s) ==
  /\ build = 2
  /\ s = Len(snapShots)
  /\ memory' = RestoredLatest(s)
  /\ UNCHANGED <<build, mprotVars, forkVars, state>>

\* Fault: the pages are left writable though their copies are dropped.
roll_back_unprotected(s) ==
  /\ ~(build = 2 /\ s = Len(snapShots))
  /\ memory' = Restored(s)
  /\ backing' = SubSeq(backing, 1, snapShots[s])
  /\ snapShots' = SubSeq(snapShots, 1, s)
  /\ writable' = Page
  /\ UNCHANGED <<build, regions, forkVars, state>>

\* Otherwise the copies are dropped and the snapshot is taken again.
roll_back_earlier(s) ==
  /\ ~(build = 2 /\ s = Len(snapShots))
  /\ memory' = Restored(s)
  /\ backing' = SubSeq(backing, 1, snapShots[s])
  /\ snapShots' = SubSeq(snapShots, 1, s)
  /\ writable' = Page \ regions
  /\ UNCHANGED <<build, regions, forkVars, state>>

MprotectStep ==
  /\ build # 0
  /\ state = "running"
  /\ \/ \E p \in Page, c \in Content : Write(p, c)
     \/ mprot_take_snapshot
     \/ \E s \in DOMAIN snapShots : roll_back_latest(s) \/ roll_back_earlier(s)

-------------------------------------------------------------------------------
(***************************************************************************)
(* Fork.  The process that takes a snapshot reads its identifier from      *)
(* shared memory, forks and sleeps in waitpid; the child is the program.   *)
(***************************************************************************)
WriteForked(p, c) ==
  /\ memory' = [memory EXCEPT ![p] = c]
  /\ UNCHANGED <<build, mprotVars, forkVars, state>>

\* Fault: the identifier in shared memory is not counted up.
fork_take_snapshot_same ==
  /\ Len(processes) < MaxSnapShots
  /\ processes' = Append(processes, [id |-> currID, memory |-> [p \in Snapshotted |-> memory[p]]])
  /\ UNCHANGED <<build, memory, mprotVars, currID, rollbackID, state>>

fork_take_snapshot ==
  /\ Len(processes) < MaxSnapShots     \* bounds the model; the code has no limit
  /\ processes' = Append(processes, [id |-> currID, memory |-> [p \in Snapshotted |-> memory[p]]])
  /\ currID' = currID + 1
  /\ UNCHANGED <<build, memory, mprotVars, rollbackID, state>>

fork_roll_back(id) ==
  /\ rollbackID' = id
  /\ state' = "waking"
  /\ UNCHANGED <<build, memory, mprotVars, processes, currID>>

\* waitpid returns: a process that was not asked for exits too.
ParentExits ==
  /\ Last(processes).id # rollbackID
  /\ processes' = Front(processes)
  /\ UNCHANGED <<build, memory, mprotVars, currID, rollbackID, state>>

\* The one that was asked for forks again; its child returns from fork_roll_back.
ParentForks ==
  /\ Last(processes).id = rollbackID
  /\ memory' = [p \in Page |-> IF p \in Shared THEN memory[p] ELSE Last(processes).memory[p]]
  /\ currID' = Last(processes).id + 1
  /\ rollbackID' = -1
  /\ state' = "running"
  /\ UNCHANGED <<build, mprotVars, processes>>

ForkStep ==
  /\ build = 0
  /\ state = "running"
  /\ \/ \E p \in Page, c \in Content : WriteForked(p, c)
     \/ fork_take_snapshot
     \/ \E i \in DOMAIN processes : fork_roll_back(processes[i].id)

WaitStep ==
  /\ build = 0
  /\ state = "waking"
  /\ ParentExits \/ ParentForks

ProgramExits == state = "running" /\ Exit

Next == Start \/ MprotectStep \/ ForkStep \/ WaitStep \/ ProgramExits

Spec == Init /\ [][Next]_vars
-------------------------------------------------------------------------------
(***************************************************************************)
(* Since a snapshot a page is copied at most once, so the backing store    *)
(* holds no more than the program's pages for each snapshot, however often *)
(* the short cut rolls back without emptying it (src/snapshot.cc:242).     *)
(***************************************************************************)
NextFirst(s) == IF s = Len(snapShots) THEN Len(backing) ELSE snapShots[s + 1]

CopiedOnce ==
  \A s \in DOMAIN snapShots : \A i, j \in snapShots[s] + 1 .. NextFirst(s) :
    backing[i].page = backing[j].page => i = j

(***************************************************************************)
(* Exactly one process takes over: the chain of parents does not exit past *)
(* the one that is asked for, and no two snapshots share an identifier.    *)
(***************************************************************************)
OneTakesOver ==
  state = "waking" =>
    \E i \in DOMAIN processes : \A j \in DOMAIN processes : processes[j].id = rollbackID <=> j = i

\* The memory the snapshots stand for; while processes wake, the one that will go on.
Woken == CHOOSE i \in DOMAIN processes : processes[i].id = rollbackID

SavedByFork ==
  [i \in 1 .. (IF state = "waking" THEN Woken ELSE Len(processes)) |-> processes[i].memory]

SavedByCopies ==
  [s \in DOMAIN snapShots |-> [p \in Snapshotted |-> AtSnapshot(s, p)]]

Abstract == INSTANCE SavedMemory WITH
  memory <- IF state = "waking"
            THEN [p \in Page |-> IF p \in Shared THEN memory[p] ELSE processes[Woken].memory[p]]
            ELSE memory,
  saved  <- IF build = 0 THEN SavedByFork ELSE SavedByCopies,
  ended  <- state = "ended"

(***************************************************************************)
(* In every build a rollback brings back the program's memory of the       *)
(* snapshot, whatever was written and rolled back in between, and leaves   *)
(* the checker's memory alone.                                             *)
(***************************************************************************)
ImplementsSavedMemory == Abstract!Spec
================================================================================
