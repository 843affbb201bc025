----------------------------- MODULE SnapshotProofs ----------------------------
(***************************************************************************)
(* Snapshots for any number of pages, snapshots and backing pages and in   *)
(* all three builds: a page is copied once, one process takes over, and a  *)
(* rollback brings back the program's memory and no other.                 *)
(***************************************************************************)
EXTENDS Snapshot, Lemmas, FiniteSetTheorems

(***************************************************************************)
(* The inductive invariant.  With page protection, a page of the program   *)
(* is writable exactly if it has been copied since the latest snapshot:    *)
(* this is what the fault handler and the rollback, each in its own way,   *)
(* have to keep up for each other.                                         *)
(***************************************************************************)
CopiesMatchProtection ==
  IF snapShots = <<>>
  THEN writable = Page /\ backing = <<>>
  ELSE \A p \in Snapshotted : p \in writable <=> Copies(Len(snapShots), p) # {}

\* The snapshots are in the order of their copies.
SnapshotsInOrder ==
  \A s, r \in DOMAIN snapShots : s <= r => snapShots[s] <= snapShots[r]

\* What is set up by when: no region is missing when the program runs.
RegionsComplete ==
  /\ state = "off" => regions = {}
  /\ state = "starting" /\ build # 0 => regions = Heap
  /\ state = "running" /\ build # 0 => regions = Snapshotted
  /\ state \in {"off", "starting"} => snapShots = <<>> /\ processes = <<>>

\* A process in the chain of parents is known by its place.
ProcessesNumbered ==
  /\ \A i \in DOMAIN processes : processes[i].id = i - 1
  /\ state # "waking" => currID = Len(processes)
  /\ state = "waking" => build = 0 /\ rollbackID \in 0 .. Len(processes) - 1

\* A build uses only its own way.
OneWay ==
  /\ build = 0 => backing = <<>> /\ snapShots = <<>>
  /\ build # 0 => processes = <<>>

IInv ==
  /\ TypeOK
  /\ CopiesMatchProtection
  /\ SnapshotsInOrder
  /\ CopiedOnce
  /\ RegionsComplete
  /\ ProcessesNumbered
  /\ OneWay

--------------------------------------------------------------------------------
\* The loops over the backing store meet the earliest copy of a page first.
LEMMA EarliestCopy ==
  ASSUME NEW I \in SUBSET Nat, I # {}
  PROVE  Earliest(I) \in I /\ \A j \in I : Earliest(I) <= j
<1>1. \E i \in I : \A j \in I : i <= j
  BY LeastNatural
<1> QED
  BY <1>1 DEF Earliest

LEMMA EarliestIs ==
  ASSUME NEW I \in SUBSET Nat, NEW i \in I, \A j \in I : i <= j
  PROVE  Earliest(I) = i
<1>1. Earliest(I) \in Nat /\ i \in Nat /\ Earliest(I) <= i /\ i <= Earliest(I)
  BY EarliestCopy
<1> QED
  BY <1>1

\* A sequence that is extended or cut, element by element.
LEMMA AppendIs ==
  ASSUME NEW S, NEW t \in Seq(S), NEW e
  PROVE  Append(t, e) = [i \in 1 .. Len(t) + 1 |-> IF i = Len(t) + 1 THEN e ELSE t[i]]
<1>1. t \in Seq(S \cup {e}) /\ e \in S \cup {e} /\ Len(t) \in Nat
  BY SeqMonotonic
<1>2. /\ Append(t, e) \in Seq(S \cup {e})
      /\ Len(Append(t, e)) = Len(t) + 1
      /\ \A i \in 1 .. Len(t) : Append(t, e)[i] = t[i]
      /\ Append(t, e)[Len(t) + 1] = e
  BY <1>1
<1>3. Append(t, e) = [i \in 1 .. Len(t) + 1 |-> Append(t, e)[i]]
  <2>1. Append(t, e) \in [1 .. Len(t) + 1 -> S \cup {e}]
    BY <1>2, LenProperties
  <2> QED BY <2>1, Zenon
<1> QED
  BY <1>1, <1>2, <1>3

LEMMA SubSeqIs ==
  ASSUME NEW S, NEW t \in Seq(S), NEW n \in 0 .. Len(t)
  PROVE  SubSeq(t, 1, n) = [i \in 1 .. n |-> t[i]]
<1>1. /\ SubSeq(t, 1, n) \in Seq(S)
      /\ Len(SubSeq(t, 1, n)) = n
      /\ \A i \in 1 .. n : SubSeq(t, 1, n)[i] = t[i]
  BY Len(t) \in Nat
<1>2. SubSeq(t, 1, n) = [i \in 1 .. n |-> SubSeq(t, 1, n)[i]]
  <2>1. SubSeq(t, 1, n) \in [1 .. n -> S]
    BY <1>1, LenProperties
  <2> QED BY <2>1, Zenon
<1> QED
  BY <1>1, <1>2

\* The name the parser of the mappings has in its buffer is that of the file a mapping belongs to or
\* follows.
LEMMA LineNameFollows ==
  ASSUME NEW i \in DOMAIN Maps
  PROVE  LineName(i) = Binary <=> Follows(i, Binary)
<1> DEFINE J == {j \in 1 .. i : Maps[j].name # NoName}
<1>1. i \in Nat /\ 1 \in J
  BY SnapshotAssumption
<1>2. Max(J) \in J /\ \A j \in J : Max(J) >= j
  <2>1. J \in SUBSET (0 .. i)
    OBVIOUS
  <2>2. \E x \in J : \A y \in J : x >= y
    <3> HIDE DEF J
    <3> QED BY <1>1, <2>1, GreatestNatural
  <2> QED BY <2>2 DEF Max
<1>3. LineName(i) = Maps[Max(J)].name
  BY DEF LineName
<1>4. \A k \in Max(J) + 1 .. i : Maps[k].name = NoName
  BY <1>1, <1>2
<1>5. ASSUME NEW j \in 1 .. i, Maps[j].name = Binary, \A k \in j + 1 .. i : Maps[k].name = NoName
      PROVE  Max(J) = j
  BY <1>1, <1>2, <1>5, LayoutAssumption
<1> QED
  BY <1>2, <1>3, <1>4, <1>5 DEF Follows

LEMMA SegmentsFound ==
  {Maps[i].page : i \in {j \in DOMAIN Maps : Maps[j].w /\ LineName(j) = Binary}} = Segments
BY LineNameFollows DEF Segments

--------------------------------------------------------------------------------
\* The start.
LEMMA InitIInv == Init => IInv
<1> SUFFICES ASSUME Init PROVE IInv
  OBVIOUS
<1>1. Cardinality({}) = 0
  BY FS_EmptySet
<1>2. TypeOK
  BY <1>1, SnapshotAssumption DEF Init, TypeOK, Snapshotted
<1> QED
  BY <1>2 DEF Init, IInv, CopiesMatchProtection, SnapshotsInOrder, CopiedOnce, RegionsComplete,
     ProcessesNumbered, OneWay

\* Whatever ends the process leaves the rest as it is.
LEMMA ExitIInv ==
  ASSUME IInv, state # "waking", Exit
  PROVE  IInv'
<1> USE DEF Exit, mprotVars, forkVars
<1>1. TypeOK'
  BY DEF IInv, TypeOK
<1>2. CopiesMatchProtection' /\ SnapshotsInOrder' /\ CopiedOnce'
  BY DEF IInv, CopiesMatchProtection, SnapshotsInOrder, CopiedOnce, Copies, NextFirst
<1>3. RegionsComplete' /\ ProcessesNumbered' /\ OneWay'
  BY DEF IInv, RegionsComplete, ProcessesNumbered, OneWay
<1> QED
  BY <1>1, <1>2, <1>3 DEF IInv

\* Adding regions, of which there are no more than the table holds.
LEMMA RegionsIInv ==
  ASSUME IInv, NEW new \in SUBSET Snapshotted, NEW next \in {"starting", "running"},
         state \in {"off", "starting"}, snapshot_add_memory_regions(new, next),
         build # 0 => regions \cup new = IF next = "starting" THEN Heap ELSE Snapshotted
  PROVE  IInv'
<1>1. CASE Exit
  BY <1>1, ExitIInv
<1>2. CASE ~Exit
  <2>1. /\ regions' = IF build = 0 THEN regions ELSE regions \cup new
        /\ state' = next
        /\ UNCHANGED <<build, memory, writable, backing, snapShots, forkVars>>
        /\ build # 0 => ~(Cardinality(regions \cup new) > MaxRegions)
    BY <1>2 DEF snapshot_add_memory_regions
  <2>2. IsFiniteSet(regions \cup new)
    <3>1. regions \cup new \subseteq Page
      BY DEF IInv, TypeOK, Snapshotted
    <3> QED BY <3>1, FS_Subset, LayoutAssumption
  <2>3. build # 0 => Cardinality(regions \cup new) <= MaxRegions
    <3>1. Cardinality(regions \cup new) \in Nat
      BY <2>2, FS_CardinalityType
    <3> QED BY <2>1, <3>1, SnapshotAssumption
  <2>4. TypeOK'
    BY <2>1, <2>3 DEF IInv, TypeOK, forkVars
  <2>5. CopiesMatchProtection' /\ SnapshotsInOrder' /\ CopiedOnce'
    BY <2>1 DEF IInv, CopiesMatchProtection, SnapshotsInOrder, CopiedOnce, Copies, NextFirst
  <2>6. RegionsComplete' /\ ProcessesNumbered' /\ OneWay'
    BY <2>1 DEF IInv, RegionsComplete, ProcessesNumbered, OneWay, forkVars
  <2> QED
    BY <2>4, <2>5, <2>6 DEF IInv
<1> QED
  BY <1>1, <1>2

\* Setting the system up, and adding the program's globals.
LEMMA StartIInv ==
  ASSUME IInv, Start
  PROVE  IInv'
<1>1. CASE mprot_snapshot_init
  <2>1. Heap \in SUBSET Snapshotted
    BY SnapshotAssumption DEF Snapshotted
  <2>2. regions \cup Heap = Heap
    BY <1>1 DEF IInv, RegionsComplete, mprot_snapshot_init
  <2> QED
    BY <1>1, <2>1, <2>2, RegionsIInv DEF mprot_snapshot_init
<1>2. CASE fork_snapshot_init
  <2> USE <1>2 DEF fork_snapshot_init, mprotVars
  <2>1. processes = <<>> /\ snapShots = <<>>
    BY DEF IInv, RegionsComplete
  <2>2. TypeOK'
    BY DEF IInv, TypeOK
  <2>3. CopiesMatchProtection' /\ SnapshotsInOrder' /\ CopiedOnce'
    BY DEF IInv, CopiesMatchProtection, SnapshotsInOrder, CopiedOnce, Copies, NextFirst
  <2>4. RegionsComplete' /\ ProcessesNumbered' /\ OneWay'
    BY <2>1 DEF IInv, RegionsComplete, ProcessesNumbered, OneWay
  <2> QED
    BY <2>2, <2>3, <2>4 DEF IInv
<1>3. CASE SnapshotGlobalSegments
  <2>1. Segments \in SUBSET Snapshotted
    BY LayoutAssumption DEF Snapshotted
  <2>2. build # 0 => regions \cup Segments = Snapshotted
    BY <1>3, <2>1, LayoutAssumption, SnapshotAssumption
       DEF IInv, RegionsComplete, Snapshotted, SnapshotGlobalSegments
  <2>3. snapshot_add_memory_regions(Segments, "running") /\ state = "starting"
    BY <1>3, SegmentsFound DEF SnapshotGlobalSegments
  <2> QED
    BY <2>1, <2>2, <2>3, RegionsIInv
<1> QED
  BY <1>1, <1>2, <1>3 DEF Start

--------------------------------------------------------------------------------
(***************************************************************************)
(* Page protection.                                                        *)
(***************************************************************************)
\* What was saved for a later snapshot was saved for an earlier one too.
LEMMA CopiesShrink ==
  ASSUME TypeOK, SnapshotsInOrder, NEW s \in DOMAIN snapShots, NEW p
  PROVE  /\ Copies(s, p) \in SUBSET Nat
         /\ Copies(s, p) \subseteq 1 .. Len(backing)
         /\ Len(snapShots) \in DOMAIN snapShots
         /\ snapShots[s] \in 0 .. Len(backing)
         /\ \A r \in DOMAIN snapShots : s <= r => Copies(r, p) \subseteq Copies(s, p)
<1>1. /\ Len(backing) \in Nat /\ Len(snapShots) \in Nat
      /\ DOMAIN snapShots = 1 .. Len(snapShots)
      /\ \A r \in DOMAIN snapShots : snapShots[r] \in 0 .. Len(backing)
  BY DEF TypeOK
<1>2. \A r \in DOMAIN snapShots : s <= r => snapShots[s] <= snapShots[r]
  BY DEF SnapshotsInOrder
<1> QED
  BY <1>1, <1>2 DEF Copies

\* A write keeps the invariant: the fault handler copies a page when it makes it writable.
LEMMA WriteIInv ==
  ASSUME IInv, state = "running", build # 0, NEW p \in Page, NEW c \in Content, Write(p, c)
  PROVE  IInv'
<1>1. CASE Exit
  BY <1>1, ExitIInv
<1>2. CASE ~Exit
  <2>0. WritePage(p, c) /\ (p \in writable \/ Len(backing) # MaxBackingPages)
    BY <1>2 DEF Write
  <2>1. /\ memory' = [memory EXCEPT ![p] = c]
        /\ UNCHANGED <<build, regions, snapShots, forkVars, state>>
    BY <2>0 DEF WritePage
  <2>2. CASE p \in writable
    <3>1. UNCHANGED <<backing, writable>>
      BY <2>0, <2>2 DEF WritePage
    <3>2. TypeOK'
      BY <2>1, <3>1 DEF IInv, TypeOK, forkVars
    <3>3. CopiesMatchProtection' /\ SnapshotsInOrder' /\ CopiedOnce'
      BY <2>1, <3>1 DEF IInv, CopiesMatchProtection, SnapshotsInOrder, CopiedOnce, Copies, NextFirst
    <3>4. RegionsComplete' /\ ProcessesNumbered' /\ OneWay'
      BY <2>1, <3>1 DEF IInv, RegionsComplete, ProcessesNumbered, OneWay, forkVars
    <3> QED
      BY <3>2, <3>3, <3>4 DEF IInv
  <2>3. CASE p \notin writable
    <3> DEFINE copy == [page |-> p, content |-> memory[p]]
               n == Len(backing)
               S == Len(snapShots)
    <3>1. backing' = Append(backing, copy) /\ writable' = writable \cup {p}
      BY <2>0, <2>3 DEF WritePage, mprot_handle_pf
    <3>2. p \in Snapshotted /\ copy \in Backed
      BY <2>3 DEF IInv, TypeOK, Snapshotted, Backed
    <3>3. /\ backing \in Seq(Backed) /\ n \in Nat /\ n + 1 <= MaxBackingPages
          /\ backing' \in Seq(Backed) /\ Len(backing') = n + 1
          /\ \A i \in 1 .. n : backing'[i] = backing[i]
          /\ backing'[n + 1] = copy
      BY <2>0, <2>3, <3>1, <3>2, SnapshotAssumption DEF IInv, TypeOK
    <3>4. snapShots # <<>> /\ S \in Nat \ {0} /\ DOMAIN snapShots = 1 .. S /\ Copies(S, p) = {}
          /\ \A s \in 1 .. S : snapShots[s] \in 0 .. n
      BY <2>3, <3>2 DEF IInv, TypeOK, CopiesMatchProtection
    <3>5. TypeOK'
      <4>1. snapShots' \in Seq(0 .. Len(backing'))
        <5>1. snapShots \in Seq(0 .. n) /\ 0 .. n \subseteq 0 .. n + 1
          BY <3>3 DEF IInv, TypeOK
        <5> QED BY <2>1, <3>3, <5>1, SeqMonotonic
      <4>2. Len(backing') <= MaxBackingPages /\ Len(snapShots') <= MaxSnapShots
        BY <2>1, <3>3 DEF IInv, TypeOK
      <4> QED
        BY <2>1, <3>1, <3>3, <4>1, <4>2 DEF IInv, TypeOK, forkVars
    <3>7. CopiesMatchProtection'
      <4>1. ASSUME NEW q \in Snapshotted
            PROVE  q \in writable' <=> Copies(Len(snapShots), q)' # {}
        <5>1. q \in writable <=> Copies(S, q) # {}
          BY <3>4 DEF IInv, CopiesMatchProtection
        <5>2. Copies(S, q)' = Copies(S, q) \cup IF q = p THEN {n + 1} ELSE {}
          BY <2>1, <3>3, <3>4 DEF Copies
        <5> QED
          BY <3>1, <5>1, <5>2
      <4> QED
        BY <2>1, <3>4, <4>1 DEF CopiesMatchProtection, Snapshotted
    <3>8. SnapshotsInOrder'
      BY <2>1 DEF IInv, SnapshotsInOrder
    <3>9. CopiedOnce'
      <4> SUFFICES ASSUME NEW s \in 1 .. S,
                          NEW i \in (snapShots[s] + 1 .. NextFirst(s))', NEW j \in (snapShots[s] + 1 .. NextFirst(s))',
                          backing'[i].page = backing'[j].page
                   PROVE  i = j
        BY <2>1, <3>4 DEF CopiedOnce
      <4>1. CASE s # S
        <5>1. NextFirst(s)' = NextFirst(s) /\ NextFirst(s) \in 0 .. n
          <6>1. s + 1 \in 1 .. S /\ S' = S
            <7>1. S \in Nat
              BY <3>4
            <7>2. s + 1 \in 1 .. S
              BY <4>1, <7>1
            <7>3. S' = S
              BY <2>1
            <7> QED BY <7>2, <7>3
          <6> QED
            BY <2>1, <3>4, <4>1, <6>1 DEF NextFirst
        <5>2. i \in 1 .. n /\ j \in 1 .. n /\ i \in snapShots[s] + 1 .. NextFirst(s)
              /\ j \in snapShots[s] + 1 .. NextFirst(s)
          BY <2>1, <3>3, <3>4, <5>1
        <5> QED
          BY <3>3, <3>4, <5>2 DEF IInv, CopiedOnce
      <4>2. CASE s = S
        <5>1. NextFirst(s)' = n + 1 /\ NextFirst(s) = n
          BY <2>1, <3>3, <4>2 DEF NextFirst
        <5>2. \A k \in snapShots[s] + 1 .. n : backing[k].page # p
          BY <3>3, <3>4, <4>2 DEF Copies
        <5>3. CASE i = n + 1 \/ j = n + 1
          BY <2>1, <3>3, <3>4, <5>1, <5>2, <5>3
        <5>4. CASE i # n + 1 /\ j # n + 1
          <6>1. i \in 1 .. n /\ j \in 1 .. n /\ i \in snapShots[s] + 1 .. n
                /\ j \in snapShots[s] + 1 .. n
            BY <2>1, <3>3, <3>4, <5>1, <5>4
          <6> QED
            BY <3>3, <3>4, <5>1, <6>1 DEF IInv, CopiedOnce
        <5> QED BY <5>3, <5>4
      <4> QED BY <4>1, <4>2
    <3>10. RegionsComplete' /\ ProcessesNumbered' /\ OneWay'
      BY <2>1 DEF IInv, RegionsComplete, ProcessesNumbered, OneWay, forkVars
    <3> QED
      BY <3>5, <3>7, <3>8, <3>9, <3>10 DEF IInv
  <2> QED BY <2>2, <2>3
<1> QED
  BY <1>1, <1>2

\* Taking a snapshot protects every page, and nothing has been copied since.
LEMMA TakeIInv ==
  ASSUME IInv, state = "running", build # 0, mprot_take_snapshot
  PROVE  IInv'
<1>1. CASE Exit
  BY <1>1, ExitIInv
<1>2. CASE ~Exit
  <2> DEFINE n == Len(backing)
             S == Len(snapShots)
  <2>1. /\ S # MaxSnapShots
        /\ writable' = Page \ regions
        /\ snapShots' = Append(snapShots, n)
        /\ UNCHANGED <<build, memory, regions, backing, forkVars, state>>
    BY <1>2 DEF mprot_take_snapshot
  <2>2. /\ n \in Nat /\ S \in Nat /\ DOMAIN snapShots = 1 .. S
        /\ \A s \in 1 .. S : snapShots[s] \in 0 .. n
        /\ snapShots \in Seq(0 .. n)
        /\ S <= MaxSnapShots
    BY DEF IInv, TypeOK
  <2>3. /\ snapShots' \in Seq(0 .. n) /\ Len(snapShots') = S + 1
        /\ DOMAIN snapShots' = 1 .. S + 1
        /\ \A s \in 1 .. S : snapShots'[s] = snapShots[s]
        /\ snapShots'[S + 1] = n
        /\ snapShots' # <<>>
    BY <2>1, <2>2
  <2>4. regions = Snapshotted
    BY DEF IInv, RegionsComplete
  <2>5. TypeOK'
    <3>1. S + 1 <= MaxSnapShots
      <4>1. S \in Nat /\ MaxSnapShots \in Nat /\ S # MaxSnapShots /\ S <= MaxSnapShots
        BY <2>1, <2>2, SnapshotAssumption
      <4> HIDE DEF S
      <4> QED BY <4>1
    <3>2. Shared \subseteq writable' /\ writable' \subseteq Page
      BY <2>1, <2>4, SnapshotAssumption DEF Snapshotted
    <3> QED
      BY <2>1, <2>3, <3>1, <3>2 DEF IInv, TypeOK, forkVars
  <2>6. CopiesMatchProtection'
    <3>1. Len(snapShots') = S + 1 /\ Len(backing') = n
      BY <2>1, <2>3
    <3>2. ASSUME NEW p \in Snapshotted
          PROVE  p \notin writable' /\ Copies(Len(snapShots), p)' = {}
      <4>1. Copies(Len(snapShots), p)' = {i \in n + 1 .. n : backing'[i].page = p}
        BY <2>3, <3>1 DEF Copies
      <4> QED BY <2>1, <2>2, <2>4, <4>1
    <3> QED
      BY <2>3, <3>2 DEF CopiesMatchProtection, Snapshotted
  <2>7. SnapshotsInOrder'
    BY <2>2, <2>3 DEF IInv, SnapshotsInOrder
  <2>8. CopiedOnce'
    <3> SUFFICES ASSUME NEW s \in 1 .. S + 1,
                        NEW i \in (snapShots[s] + 1 .. NextFirst(s))', NEW j \in (snapShots[s] + 1 .. NextFirst(s))',
                        backing'[i].page = backing'[j].page
                 PROVE  i = j
      BY <2>3 DEF CopiedOnce
    <3>0. Len(snapShots') = S + 1 /\ Len(backing') = n
      BY <2>1, <2>3
    <3>1. CASE s = S + 1
      <4>1. NextFirst(s)' = n /\ snapShots'[s] = n
        BY <2>3, <3>0, <3>1 DEF NextFirst
      <4> QED BY <2>2, <4>1
    <3>2. CASE s # S + 1
      <4>1. s \in 1 .. S /\ snapShots'[s] = snapShots[s]
        BY <2>2, <2>3, <3>2
      <4>2. NextFirst(s)' = NextFirst(s)
        <5>1. NextFirst(s)' = snapShots'[s + 1]
          BY <3>0, <3>2, <4>1 DEF NextFirst
        <5>2. CASE s = S
          BY <2>3, <5>1, <5>2 DEF NextFirst
        <5>3. CASE s # S
          <6>1. s + 1 \in 1 .. S
            <7>1. S \in Nat /\ s \in 1 .. S /\ s # S
              BY <2>2, <4>1, <5>3
            <7> QED BY <7>1
          <6> QED
            BY <2>3, <5>1, <5>3, <6>1 DEF NextFirst
        <5> QED BY <5>2, <5>3
      <4> QED
        BY <2>1, <2>2, <4>1, <4>2 DEF IInv, CopiedOnce
    <3> QED BY <3>1, <3>2
  <2>9. RegionsComplete' /\ ProcessesNumbered' /\ OneWay'
    BY <2>1 DEF IInv, RegionsComplete, ProcessesNumbered, OneWay, forkVars
  <2> QED
    BY <2>5, <2>6, <2>7, <2>8, <2>9 DEF IInv
<1> QED
  BY <1>1, <1>2

\* What a rollback puts back is typed.
LEMMA RestoredType ==
  ASSUME IInv, NEW s \in DOMAIN snapShots
  PROVE  Restored(s) \in [Page -> Content]
<1>1. ASSUME NEW p \in Page PROVE AtSnapshot(s, p) \in Content
  <2>1. CASE Copies(s, p) = {}
    BY <2>1 DEF IInv, TypeOK, AtSnapshot
  <2>2. CASE Copies(s, p) # {}
    <3>1. Earliest(Copies(s, p)) \in 1 .. Len(backing)
      BY <2>2, CopiesShrink, EarliestCopy DEF IInv
    <3>2. backing[Earliest(Copies(s, p))] \in Backed
      <4>1. backing \in Seq(Backed)
        BY DEF IInv, TypeOK
      <4> QED BY <3>1, <4>1
    <3>3. backing[Earliest(Copies(s, p))].content \in Content
      BY <3>2 DEF Backed
    <3> QED BY <2>2, <3>3 DEF AtSnapshot
  <2> QED BY <2>1, <2>2
<1>2. \A p \in Page : memory[p] \in Content
  BY DEF IInv, TypeOK
<1> QED
  BY <1>1, <1>2 DEF Restored

\* A page has one copy since the latest snapshot, so there the last copy is the first.
LEMMA ShortCutRestores ==
  ASSUME IInv, NEW s \in DOMAIN snapShots, s = Len(snapShots)
  PROVE  RestoredLatest(s) = Restored(s)
<1> SUFFICES ASSUME NEW p \in Page PROVE RestoredLatest(s)[p] = Restored(s)[p]
  BY DEF RestoredLatest, Restored
<1> DEFINE C == Copies(s, p)
<1>1. C \in SUBSET Nat /\ C \subseteq 1 .. Len(backing)
  BY CopiesShrink DEF IInv
<1>2. ASSUME p \in Shared PROVE C = {}
  <2>1. ASSUME NEW i \in C PROVE FALSE
    <3>1. backing[i] \in Backed /\ backing[i].page = p
      BY <1>1 DEF IInv, TypeOK, Copies
    <3> QED BY <1>2, <3>1 DEF Backed, Snapshotted
  <2> QED BY <2>1
<1>3. CASE C = {}
  BY <1>3 DEF RestoredLatest, Restored, AtSnapshot
<1>4. CASE C # {}
  <2>1. Earliest(C) \in C
    BY <1>1, <1>4, EarliestCopy
  <2>2. \A i, j \in C : i = j
    BY DEF IInv, CopiedOnce, NextFirst, Copies
  <2>3. Max(C) = Earliest(C)
    BY <1>1, <2>1, <2>2 DEF Max
  <2> QED
    BY <1>2, <1>4, <2>3 DEF RestoredLatest, Restored, AtSnapshot
<1> QED
  BY <1>3, <1>4

\* The short cut changes neither copies nor protection, so they still match.
LEMMA RollBackLatestIInv ==
  ASSUME IInv, NEW s \in DOMAIN snapShots, roll_back_latest(s)
  PROVE  IInv'
<1> USE DEF roll_back_latest, mprotVars, forkVars
<1>1. TypeOK'
  BY RestoredType, ShortCutRestores DEF IInv, TypeOK
<1>2. CopiesMatchProtection' /\ SnapshotsInOrder' /\ CopiedOnce'
  BY DEF IInv, CopiesMatchProtection, SnapshotsInOrder, CopiedOnce, Copies, NextFirst
<1>3. RegionsComplete' /\ ProcessesNumbered' /\ OneWay'
  BY DEF IInv, RegionsComplete, ProcessesNumbered, OneWay
<1> QED
  BY <1>1, <1>2, <1>3 DEF IInv

\* What is left of the backing store and of the snapshots after a rollback.
LEMMA RollBackCuts ==
  ASSUME IInv, NEW s \in DOMAIN snapShots, roll_back_earlier(s)
  PROVE  /\ snapShots[s] \in 0 .. Len(backing)
         /\ backing' \in Seq(Backed) /\ Len(backing') = snapShots[s]
         /\ \A i \in 1 .. snapShots[s] : backing'[i] = backing[i]
         /\ Len(snapShots') = s /\ DOMAIN snapShots' = 1 .. s
         /\ snapShots' \in Seq(0 .. snapShots[s])
         /\ \A r \in 1 .. s :
              r \in DOMAIN snapShots /\ snapShots'[r] = snapShots[r] /\ snapShots[r] \in 0 .. snapShots[s]
<1>1. /\ Len(backing) \in Nat /\ Len(snapShots) \in Nat /\ DOMAIN snapShots = 1 .. Len(snapShots)
      /\ s \in 1 .. Len(snapShots) /\ snapShots[s] \in 0 .. Len(backing)
      /\ backing \in Seq(Backed) /\ snapShots \in Seq(0 .. Len(backing))
  BY DEF IInv, TypeOK
<1>2. backing' = SubSeq(backing, 1, snapShots[s]) /\ snapShots' = SubSeq(snapShots, 1, s)
  BY DEF roll_back_earlier
<1>3. \A i \in 1 .. snapShots[s] : backing[i] \in Backed
  BY <1>1
<1>4. \A r \in 1 .. s : snapShots[r] \in 0 .. snapShots[s] /\ r \in DOMAIN snapShots
  <2> TAKE r \in 1 .. s
  <2>1. r \in DOMAIN snapShots /\ snapShots[r] <= snapShots[s]
    BY <1>1 DEF IInv, SnapshotsInOrder
  <2> QED BY <1>1, <2>1
<1>5. /\ backing' \in Seq(Backed) /\ Len(backing') = snapShots[s]
      /\ \A i \in 1 .. snapShots[s] : backing'[i] = backing[i]
  BY <1>1, <1>2, <1>3, SubSeqProperties
<1>6. /\ Len(snapShots') = s /\ snapShots' \in Seq(0 .. snapShots[s])
      /\ \A r \in 1 .. s : snapShots'[r] = snapShots[r]
  <2>1. SubSeq(snapShots, 1, s) = [r \in 1 .. s |-> snapShots[r]] /\ s \in Nat
    BY <1>1, SubSeqIs
  <2>2. snapShots' \in [1 .. s -> 0 .. snapShots[s]]
    BY <1>2, <1>4, <2>1
  <2>3. snapShots' \in Seq(0 .. snapShots[s])
    BY <2>1, <2>2, SeqDef
  <2> QED BY <1>2, <2>1, <2>2, <2>3, LenProperties
<1> QED
  BY <1>1, <1>4, <1>5, <1>6

\* Another rollback drops the copies since the snapshot and protects the pages again.
LEMMA RollBackEarlierIInv ==
  ASSUME IInv, state = "running", build # 0, NEW s \in DOMAIN snapShots, roll_back_earlier(s)
  PROVE  IInv'
<1>1. s \in Nat \ {0} /\ Len(snapShots) \in Nat /\ s <= Len(snapShots) /\ snapShots[s] \in Nat
  BY RollBackCuts DEF IInv, TypeOK
<1>2. UNCHANGED <<build, regions, forkVars, state>> /\ memory' = Restored(s)
      /\ writable' = Page \ regions /\ regions = Snapshotted
  BY DEF IInv, RegionsComplete, roll_back_earlier
<1>3. TypeOK'
  <2>1. Shared \subseteq writable' /\ writable' \subseteq Page
    BY <1>2, SnapshotAssumption DEF Snapshotted
  <2>2. Len(backing') <= MaxBackingPages /\ Len(snapShots') <= MaxSnapShots
    BY <1>1, RollBackCuts, SnapshotAssumption DEF IInv, TypeOK
  <2>3. backing' \in Seq(Backed) /\ snapShots' \in Seq(0 .. Len(backing'))
    BY RollBackCuts
  <2> QED
    BY <1>2, <2>1, <2>2, <2>3, RestoredType DEF IInv, TypeOK, forkVars
<1>4. CopiesMatchProtection'
  <2>1. ASSUME NEW p \in Snapshotted PROVE p \notin writable' /\ Copies(s, p)' = {}
    BY <1>1, <1>2, RollBackCuts DEF Copies
  <2>2. snapShots' # <<>> /\ Len(snapShots') = s
    BY <1>1, RollBackCuts
  <2> QED
    BY <2>1, <2>2 DEF CopiesMatchProtection, Snapshotted
<1>5. SnapshotsInOrder'
  BY RollBackCuts DEF IInv, SnapshotsInOrder
<1>6. CopiedOnce'
  <2> SUFFICES ASSUME NEW r \in 1 .. s,
                      NEW i \in (snapShots[r] + 1 .. NextFirst(r))', NEW j \in (snapShots[r] + 1 .. NextFirst(r))',
                      backing'[i].page = backing'[j].page
               PROVE  i = j
    BY RollBackCuts DEF CopiedOnce
  <2>1. CASE r = s
    BY <1>1, <2>1, RollBackCuts DEF NextFirst
  <2>2. CASE r # s
    <3>1. r + 1 \in 1 .. s /\ r # Len(snapShots)
      BY <1>1, <2>2
    <3>2. NextFirst(r)' = snapShots[r + 1] /\ NextFirst(r) = snapShots[r + 1]
      BY <2>2, <3>1, RollBackCuts DEF NextFirst
    <3>3. snapShots[r + 1] \in 0 .. snapShots[s] /\ snapShots[r] \in Nat /\ r \in DOMAIN snapShots
          /\ snapShots'[r] = snapShots[r]
      BY <1>1, <3>1, RollBackCuts
    <3>4. i \in 1 .. snapShots[s] /\ j \in 1 .. snapShots[s]
          /\ i \in snapShots[r] + 1 .. NextFirst(r) /\ j \in snapShots[r] + 1 .. NextFirst(r)
      BY <1>1, <3>2, <3>3
    <3>5. backing[i].page = backing[j].page
      BY <3>4, RollBackCuts
    <3> QED
      BY <3>3, <3>4, <3>5 DEF IInv, CopiedOnce
  <2> QED BY <2>1, <2>2
<1>7. RegionsComplete' /\ ProcessesNumbered' /\ OneWay'
  BY <1>2 DEF IInv, RegionsComplete, ProcessesNumbered, OneWay, forkVars
<1> QED
  BY <1>3, <1>4, <1>5, <1>6, <1>7 DEF IInv

--------------------------------------------------------------------------------
(***************************************************************************)
(* Fork.                                                                   *)
(***************************************************************************)
\* A write of the only process that runs.
LEMMA WriteForkedIInv ==
  ASSUME IInv, NEW p \in Page, NEW c \in Content, WriteForked(p, c)
  PROVE  IInv'
<1> USE DEF WriteForked, mprotVars, forkVars
<1>1. TypeOK'
  BY DEF IInv, TypeOK
<1>2. CopiesMatchProtection' /\ SnapshotsInOrder' /\ CopiedOnce'
  BY DEF IInv, CopiesMatchProtection, SnapshotsInOrder, CopiedOnce, Copies, NextFirst
<1>3. RegionsComplete' /\ ProcessesNumbered' /\ OneWay'
  BY DEF IInv, RegionsComplete, ProcessesNumbered, OneWay
<1> QED
  BY <1>1, <1>2, <1>3 DEF IInv

\* The page protection's state is none of fork's business.
LEMMA ForkKeepsCopies ==
  ASSUME IInv, UNCHANGED <<build, mprotVars>>
  PROVE  CopiesMatchProtection' /\ SnapshotsInOrder' /\ CopiedOnce'
BY DEF IInv, CopiesMatchProtection, SnapshotsInOrder, CopiedOnce, Copies, NextFirst, mprotVars

\* The process that sleeps has the next number.
LEMMA ForkTakeIInv ==
  ASSUME IInv, state = "running", build = 0, fork_take_snapshot
  PROVE  IInv'
<1> DEFINE record == [id |-> currID, memory |-> [p \in Snapshotted |-> memory[p]]]
           P == Len(processes)
<1>1. /\ processes' = Append(processes, record)
      /\ currID' = currID + 1
      /\ UNCHANGED <<build, memory, mprotVars, rollbackID, state>>
  BY DEF fork_take_snapshot
<1>2. record \in Sleeping
  BY DEF IInv, TypeOK, Snapshotted, Sleeping
<1>3. processes \in Seq(Sleeping) /\ P \in Nat /\ DOMAIN processes = 1 .. P
  BY DEF IInv, TypeOK
<1>8. currID = P /\ \A i \in 1 .. P : processes[i].id = i - 1
  BY <1>3 DEF IInv, ProcessesNumbered
<1>4. /\ processes' \in Seq(Sleeping) /\ Len(processes') = P + 1 /\ DOMAIN processes' = 1 .. P + 1
      /\ \A i \in 1 .. P : processes'[i] = processes[i]
      /\ processes'[P + 1] = record
  <2> HIDE DEF record
  <2> QED BY <1>1, <1>2, <1>3
<1>5. TypeOK'
  BY <1>1, <1>3, <1>4 DEF IInv, TypeOK, mprotVars
<1>6. RegionsComplete' /\ OneWay'
  BY <1>1 DEF IInv, RegionsComplete, OneWay, mprotVars
<1>7. ProcessesNumbered'
  <2>1. ASSUME NEW i \in 1 .. P + 1 PROVE processes'[i].id = i - 1
    <3>1. CASE i = P + 1
      <4>1. processes'[i].id = currID
        BY <1>4, <3>1
      <4> QED BY <1>3, <1>8, <3>1, <4>1
    <3>2. CASE i # P + 1
      <4>1. i \in 1 .. P
        BY <1>3, <3>2
      <4> QED BY <1>4, <1>8, <4>1
    <3> QED BY <3>1, <3>2
  <2>2. currID' = P + 1 /\ state' # "waking"
    BY <1>1, <1>8
  <2> QED
    BY <1>4, <2>1, <2>2 DEF ProcessesNumbered
<1> QED
  BY <1>1, <1>5, <1>6, <1>7, ForkKeepsCopies DEF IInv

\* Only a snapshot that was taken is asked for.
LEMMA ForkRollBackIInv ==
  ASSUME IInv, state = "running", build = 0, NEW i \in DOMAIN processes,
         fork_roll_back(processes[i].id)
  PROVE  IInv'
<1>1. /\ rollbackID' = processes[i].id
      /\ state' = "waking"
      /\ UNCHANGED <<build, memory, mprotVars, processes, currID>>
  BY DEF fork_roll_back
<1>2. i \in 1 .. Len(processes) /\ Len(processes) \in Nat /\ processes[i].id = i - 1
  BY DEF IInv, TypeOK, ProcessesNumbered
<1>3. TypeOK'
  BY <1>1, <1>2 DEF IInv, TypeOK, mprotVars
<1>4. RegionsComplete' /\ OneWay'
  BY <1>1 DEF IInv, RegionsComplete, OneWay, mprotVars
<1>5. ProcessesNumbered'
  BY <1>1, <1>2 DEF IInv, ProcessesNumbered
<1> QED
  BY <1>1, <1>3, <1>4, <1>5, ForkKeepsCopies DEF IInv

\* The last process of the chain, while they wake.
LEMMA LastSleeping ==
  ASSUME IInv, state = "waking"
  PROVE  /\ Len(processes) \in Nat \ {0} /\ Len(processes) \in DOMAIN processes
         /\ DOMAIN processes = 1 .. Len(processes)
         /\ Last(processes) = processes[Len(processes)]
         /\ Last(processes).id = Len(processes) - 1
         /\ Last(processes).memory \in [Snapshotted -> Content]
<1>1. Len(processes) \in Nat \ {0} /\ DOMAIN processes = 1 .. Len(processes)
  BY DEF IInv, TypeOK, ProcessesNumbered
<1>2. processes[Len(processes)] \in Sleeping
  BY <1>1 DEF IInv, TypeOK
<1>3. processes[Len(processes)].memory \in [Snapshotted -> Content]
  BY <1>2 DEF Sleeping
<1> QED
  BY <1>1, <1>3 DEF IInv, ProcessesNumbered, Last

\* A process that was not asked for is not the one below the asked one.
LEMMA ParentExitsIInv ==
  ASSUME IInv, state = "waking", ParentExits
  PROVE  IInv'
<1> DEFINE P == Len(processes)
<1>1. /\ P - 1 # rollbackID
      /\ processes' = Front(processes)
      /\ UNCHANGED <<build, memory, mprotVars, currID, rollbackID, state>>
  BY LastSleeping DEF ParentExits
<1>2. P \in Nat \ {0} /\ processes \in Seq(Sleeping) /\ DOMAIN processes = 1 .. P
  BY LastSleeping DEF IInv, TypeOK
<1>7. rollbackID \in 0 .. P - 1 /\ build = 0 /\ \A i \in 1 .. P : processes[i].id = i - 1
  BY <1>2 DEF IInv, ProcessesNumbered
<1>3. /\ processes' \in Seq(Sleeping) /\ Len(processes') = P - 1 /\ DOMAIN processes' = 1 .. P - 1
      /\ \A i \in 1 .. P - 1 : processes'[i] = processes[i]
  <2>1. processes' = SubSeq(processes, 1, P - 1)
    BY <1>1 DEF Front
  <2> QED BY <1>2, <2>1
<1>4. TypeOK'
  BY <1>1, <1>3 DEF IInv, TypeOK, mprotVars
<1>5. RegionsComplete' /\ OneWay'
  BY <1>1, <1>7 DEF IInv, RegionsComplete, OneWay, mprotVars
<1>6. ProcessesNumbered'
  <2>1. ASSUME NEW i \in 1 .. P - 1 PROVE processes'[i].id = i - 1
    <3>1. i \in 1 .. P
      BY <1>2
    <3> QED BY <1>3, <1>7, <3>1
  <2>2. rollbackID \in 0 .. (P - 1) - 1
    <3>1. P - 1 # rollbackID
      BY <1>1
    <3>2. P \in Nat /\ rollbackID \in Int /\ rollbackID \in 0 .. P - 1
      BY <1>2, <1>7
    <3> QED BY <3>1, <3>2
  <2> QED
    BY <1>1, <1>3, <1>7, <2>1, <2>2 DEF ProcessesNumbered
<1> QED
  BY <1>1, <1>4, <1>5, <1>6, ForkKeepsCopies DEF IInv

\* The one that was asked for takes the identifiers up where it left them.
LEMMA ParentForksIInv ==
  ASSUME IInv, state = "waking", ParentForks
  PROVE  IInv'
<1>1. /\ memory' = [p \in Page |-> IF p \in Shared THEN memory[p] ELSE Last(processes).memory[p]]
      /\ currID' = Last(processes).id + 1
      /\ rollbackID' = -1
      /\ state' = "running"
      /\ UNCHANGED <<build, mprotVars, processes>>
  BY DEF ParentForks
<1>2. memory' \in [Page -> Content]
  BY <1>1, LastSleeping DEF IInv, TypeOK, Snapshotted
<1>3. currID' = Len(processes) /\ currID' \in Nat /\ build = 0
  BY <1>1, LastSleeping DEF IInv, ProcessesNumbered
<1>4. TypeOK'
  BY <1>1, <1>2, <1>3 DEF IInv, TypeOK, mprotVars
<1>5. RegionsComplete' /\ OneWay'
  BY <1>1, <1>3 DEF IInv, RegionsComplete, OneWay, mprotVars
<1>6. ProcessesNumbered'
  BY <1>1, <1>3 DEF IInv, ProcessesNumbered
<1> QED
  BY <1>1, <1>4, <1>5, <1>6, ForkKeepsCopies DEF IInv

--------------------------------------------------------------------------------
\* The actions of a step.
LEMMA StepActions ==
  ASSUME Next
  PROVE  \/ Start
         \/ build # 0 /\ state = "running" /\ \E p \in Page, c \in Content : Write(p, c)
         \/ build # 0 /\ state = "running" /\ mprot_take_snapshot
         \/ build # 0 /\ state = "running" /\ \E s \in DOMAIN snapShots : roll_back_latest(s)
         \/ build # 0 /\ state = "running" /\ \E s \in DOMAIN snapShots : roll_back_earlier(s)
         \/ build = 0 /\ state = "running" /\ \E p \in Page, c \in Content : WriteForked(p, c)
         \/ build = 0 /\ state = "running" /\ fork_take_snapshot
         \/ build = 0 /\ state = "running" /\ \E i \in DOMAIN processes : fork_roll_back(processes[i].id)
         \/ build = 0 /\ state = "waking" /\ ParentExits
         \/ build = 0 /\ state = "waking" /\ ParentForks
         \/ state = "running" /\ Exit
BY DEF Next, MprotectStep, ForkStep, WaitStep, ProgramExits

LEMMA StepIInv == IInv /\ [Next]_vars => IInv'
<1> SUFFICES ASSUME IInv, [Next]_vars PROVE IInv'
  OBVIOUS
<1>1. CASE UNCHANGED vars
  <2> USE <1>1 DEF vars, mprotVars, forkVars
  <2>1. TypeOK'
    BY DEF IInv, TypeOK
  <2>2. RegionsComplete' /\ ProcessesNumbered' /\ OneWay'
    BY DEF IInv, RegionsComplete, ProcessesNumbered, OneWay
  <2> QED BY <2>1, <2>2, ForkKeepsCopies DEF IInv
<1>2. CASE Next
  BY <1>2, StepActions, StartIInv, WriteIInv, TakeIInv, RollBackLatestIInv, RollBackEarlierIInv,
     WriteForkedIInv, ForkTakeIInv, ForkRollBackIInv, ParentExitsIInv, ParentForksIInv, ExitIInv
<1> QED
  BY <1>1, <1>2

LEMMA Invariance == Spec => []IInv
<1> QED BY InitIInv, StepIInv, PTL DEF Spec

\* Snapshots and processes stay what they are declared to be, for every number of them.
THEOREM SnapshotTypeCorrect == Spec => []TypeOK
<1>1. IInv => TypeOK
  BY DEF IInv
<1> QED BY <1>1, Invariance, PTL

\* Since a snapshot a page goes to the backing store at most once, in every build with page
\* protection: the short cut of build 2 too keeps the store from filling up.
THEOREM CopiedOnceHolds == Spec => []CopiedOnce
<1>1. IInv => CopiedOnce
  BY DEF IInv
<1> QED BY <1>1, Invariance, PTL

\* The process a rollback asks for is in the chain, and it alone has the number.
LEMMA TheWoken ==
  ASSUME IInv, state = "waking"
  PROVE  /\ Woken = rollbackID + 1
         /\ Woken \in DOMAIN processes
         /\ \A j \in DOMAIN processes : processes[j].id = rollbackID <=> j = Woken
<1>1. rollbackID \in 0 .. Len(processes) - 1 /\ DOMAIN processes = 1 .. Len(processes)
      /\ Len(processes) \in Nat /\ \A i \in 1 .. Len(processes) : processes[i].id = i - 1
  BY LastSleeping DEF IInv, ProcessesNumbered
<1>2. rollbackID + 1 \in DOMAIN processes
      /\ \A j \in DOMAIN processes : processes[j].id = rollbackID <=> j = rollbackID + 1
  BY <1>1
<1>3. Woken = rollbackID + 1
  BY <1>2 DEF Woken
<1> QED
  BY <1>2, <1>3

\* However many processes sleep, one and only one of them answers a rollback.
THEOREM OneTakesOverHolds == Spec => []OneTakesOver
<1>1. IInv => OneTakesOver
  BY TheWoken DEF OneTakesOver
<1> QED BY <1>1, Invariance, PTL

--------------------------------------------------------------------------------
(***************************************************************************)
(* The refinement.  saved is what the copies, or the processes, stand for. *)
(***************************************************************************)
AbstractMemory ==
  IF state = "waking"
  THEN [p \in Page |-> IF p \in Shared THEN memory[p] ELSE processes[Woken].memory[p]]
  ELSE memory

AbstractSaved == IF build = 0 THEN SavedByFork ELSE SavedByCopies

\* The abstract actions, of the values the mapping gives.
LEMMA AbstractWrite ==
  ASSUME state # "ended", NEW p \in Page, NEW c \in Content,
         AbstractMemory' = [AbstractMemory EXCEPT ![p] = c], AbstractSaved' = AbstractSaved,
         state' # "ended"
  PROVE  [Abstract!Next]_(Abstract!vars)
<1>1. Abstract!Write(p, c)
  BY DEF Abstract!Write, AbstractMemory, AbstractSaved
<1> QED
  BY <1>1 DEF Abstract!Next

LEMMA AbstractTake ==
  ASSUME state # "ended", state' # "ended", AbstractMemory' = AbstractMemory,
         AbstractSaved' = Append(AbstractSaved, [p \in Snapshotted |-> AbstractMemory[p]])
  PROVE  [Abstract!Next]_(Abstract!vars)
<1>1. Abstract!Take
  BY DEF Abstract!Take, Abstract!Program, Abstract!Snapshotted, Snapshotted, AbstractMemory, AbstractSaved
<1> QED
  BY <1>1 DEF Abstract!Next

LEMMA AbstractRollBack ==
  ASSUME state # "ended", state' # "ended", NEW i \in DOMAIN AbstractSaved,
         AbstractMemory' = [p \in Page |-> IF p \in Shared THEN AbstractMemory[p] ELSE AbstractSaved[i][p]],
         AbstractSaved' = SubSeq(AbstractSaved, 1, i)
  PROVE  [Abstract!Next]_(Abstract!vars)
<1>1. Abstract!RollBack(i)
  BY DEF Abstract!RollBack, AbstractMemory, AbstractSaved
<1> QED
  BY <1>1 DEF Abstract!Next, AbstractSaved

LEMMA AbstractStutters ==
  ASSUME AbstractMemory' = AbstractMemory, AbstractSaved' = AbstractSaved,
         state' = "ended" <=> state = "ended"
  PROVE  [Abstract!Next]_(Abstract!vars)
BY DEF Abstract!vars, AbstractMemory, AbstractSaved

LEMMA AbstractExit ==
  ASSUME state # "ended", state # "waking", Exit
  PROVE  [Abstract!Next]_(Abstract!vars)
<1>1. state' = "ended" /\ UNCHANGED <<build, memory, mprotVars, forkVars>>
  BY DEF Exit
<1>2. AbstractMemory' = AbstractMemory
  BY <1>1 DEF AbstractMemory
<1>3. AbstractSaved' = AbstractSaved
  BY <1>1 DEF AbstractSaved, SavedByFork, SavedByCopies, AtSnapshot, Copies, mprotVars, forkVars
<1>4. Abstract!Exit
  BY <1>1, <1>2, <1>3 DEF Abstract!Exit, AbstractMemory, AbstractSaved
<1> QED
  BY <1>4 DEF Abstract!Next

--------------------------------------------------------------------------------
\* The start leaves memory and snapshots alone.
LEMMA StartImplements ==
  ASSUME IInv, Start
  PROVE  [Abstract!Next]_(Abstract!vars)
<1>1. CASE Exit
  BY <1>1, AbstractExit DEF Start, mprot_snapshot_init, fork_snapshot_init, SnapshotGlobalSegments
<1>2. CASE ~Exit
  <2>1. UNCHANGED <<build, memory, backing, snapShots, processes>>
        /\ state \in {"off", "starting"} /\ state' \in {"starting", "running"}
    BY <1>2 DEF Start, mprot_snapshot_init, fork_snapshot_init, SnapshotGlobalSegments,
       snapshot_add_memory_regions, mprotVars, forkVars
  <2>2. AbstractMemory' = AbstractMemory
    BY <2>1 DEF AbstractMemory
  <2>3. AbstractSaved' = AbstractSaved
    BY <2>1 DEF AbstractSaved, SavedByFork, SavedByCopies, AtSnapshot, Copies
  <2> QED
    BY <2>1, <2>2, <2>3, AbstractStutters
<1> QED
  BY <1>1, <1>2

\* The saved memories, when the pages are protected.
LEMMA SavedTyped ==
  ASSUME IInv, build # 0
  PROVE  /\ AbstractSaved = SavedByCopies
         /\ Len(snapShots) \in Nat /\ DOMAIN snapShots = 1 .. Len(snapShots)
         /\ SavedByCopies \in Seq([Snapshotted -> Content])
         /\ Len(SavedByCopies) = Len(snapShots)
         /\ \A s \in DOMAIN snapShots :
              SavedByCopies[s] = [p \in Snapshotted |-> AtSnapshot(s, p)]
<1>1. Len(snapShots) \in Nat /\ DOMAIN snapShots = 1 .. Len(snapShots)
  BY DEF IInv, TypeOK
<1>2. ASSUME NEW s \in DOMAIN snapShots
      PROVE  [p \in Snapshotted |-> AtSnapshot(s, p)] \in [Snapshotted -> Content]
  <2>1. ASSUME NEW p \in Snapshotted PROVE AtSnapshot(s, p) \in Content
    <3>1. p \in Page /\ p \notin Shared
      BY DEF Snapshotted
    <3>2. Restored(s)[p] \in Content
      BY <3>1, RestoredType
    <3> QED BY <3>1, <3>2 DEF Restored
  <2> QED BY <2>1
<1> QED
  BY <1>1, <1>2 DEF AbstractSaved, SavedByCopies

\* A write does not change what a snapshot stands for: a page that is writable has its copy, and one
\* that is not gets it.
LEMMA WriteKeepsSaved ==
  ASSUME IInv, state = "running", build # 0, NEW p \in Page, NEW c \in Content, WritePage(p, c),
         NEW s \in DOMAIN snapShots, NEW q \in Snapshotted
  PROVE  AtSnapshot(s, q)' = AtSnapshot(s, q)
<1> DEFINE n == Len(backing)
           C == Copies(s, q)
<1>1. memory' = [memory EXCEPT ![p] = c] /\ snapShots' = snapShots
  BY DEF WritePage
<1>2. memory \in [Page -> Content] /\ q \in Page /\ backing \in Seq(Backed) /\ n \in Nat
  BY DEF IInv, TypeOK, Snapshotted
<1>3. C \in SUBSET Nat /\ C \subseteq 1 .. n /\ Copies(Len(snapShots), q) \subseteq C
      /\ snapShots[s] \in 0 .. n
  <2>1. s <= Len(snapShots)
    BY DEF IInv, TypeOK
  <2> QED BY <2>1, CopiesShrink DEF IInv
<1>4. CASE p \in writable
  <2>1. UNCHANGED <<backing, writable>>
    BY <1>4 DEF WritePage
  <2>2. C' = C
    BY <1>1, <2>1 DEF Copies
  <2>3. CASE C = {}
    <3>1. snapShots # <<>>
      BY DEF IInv, TypeOK
    <3>2. q # p
      BY <1>3, <1>4, <2>3, <3>1 DEF IInv, CopiesMatchProtection
    <3>3. memory'[q] = memory[q]
      BY <1>1, <1>2, <3>2
    <3> QED BY <2>2, <2>3, <3>3 DEF AtSnapshot
  <2>4. CASE C # {}
    BY <2>1, <2>2, <2>4 DEF AtSnapshot
  <2> QED BY <2>3, <2>4
<1>5. CASE p \notin writable
  <2> DEFINE copy == [page |-> p, content |-> memory[p]]
  <2>1. backing' = Append(backing, copy)
    BY <1>5 DEF WritePage, mprot_handle_pf
  <2>2. Len(backing') = n + 1 /\ backing'[n + 1] = copy /\ \A i \in 1 .. n : backing'[i] = backing[i]
    <3> HIDE DEF copy
    <3> QED BY <1>2, <2>1
  <2>3. C' = IF q = p THEN C \cup {n + 1} ELSE C
    BY <1>1, <1>2, <1>3, <2>2 DEF Copies
  <2>4. CASE C = {} /\ q # p
    BY <1>1, <1>2, <2>3, <2>4 DEF AtSnapshot
  <2>5. CASE C = {} /\ q = p
    <3>1. C' = {n + 1} /\ C' # {}
      BY <2>3, <2>5
    <3>2. Earliest(C') = n + 1
      BY <1>2, <3>1, EarliestIs
    <3>3. AtSnapshot(s, q)' = backing'[Earliest(C')].content
      BY <3>1 DEF AtSnapshot, Earliest
    <3> QED BY <2>2, <2>5, <3>2, <3>3 DEF AtSnapshot
  <2>6. CASE C # {}
    <3>1. Earliest(C) \in C /\ \A j \in C : Earliest(C) <= j
      BY <1>3, <2>6, EarliestCopy
    <3>2. Earliest(C) \in 1 .. n /\ Earliest(C) \in C' /\ C' \subseteq Nat
          /\ \A j \in C' : Earliest(C) <= j
      BY <1>2, <1>3, <2>3, <3>1
    <3>3. Earliest(C') = Earliest(C) /\ C' # {}
      BY <3>2, EarliestIs
    <3>4. AtSnapshot(s, q)' = backing'[Earliest(C')].content
      BY <3>3 DEF AtSnapshot, Earliest
    <3> QED BY <2>2, <2>6, <3>2, <3>3, <3>4 DEF AtSnapshot
  <2> QED BY <2>4, <2>5, <2>6
<1> QED
  BY <1>4, <1>5

LEMMA WriteImplements ==
  ASSUME IInv, state = "running", build # 0, NEW p \in Page, NEW c \in Content, Write(p, c)
  PROVE  [Abstract!Next]_(Abstract!vars)
<1>1. CASE Exit
  BY <1>1, AbstractExit
<1>2. CASE WritePage(p, c)
  <2>1. memory' = [memory EXCEPT ![p] = c] /\ UNCHANGED <<build, snapShots, state>>
    BY <1>2 DEF WritePage
  <2>2. SavedByCopies' = SavedByCopies
    <3>1. \A s \in DOMAIN snapShots : \A q \in Snapshotted : AtSnapshot(s, q)' = AtSnapshot(s, q)
      BY <1>2, WriteKeepsSaved
    <3> QED BY <2>1, <3>1 DEF SavedByCopies, Snapshotted
  <2>3. AbstractSaved' = AbstractSaved /\ AbstractMemory' = [AbstractMemory EXCEPT ![p] = c]
    BY <2>1, <2>2 DEF AbstractSaved, AbstractMemory
  <2> QED
    BY <2>1, <2>3, AbstractWrite
<1> QED
  BY <1>1, <1>2 DEF Write

\* Nothing has been written since a snapshot that is taken.
LEMMA TakeImplements ==
  ASSUME IInv, state = "running", build # 0, mprot_take_snapshot
  PROVE  [Abstract!Next]_(Abstract!vars)
<1>1. CASE Exit
  BY <1>1, AbstractExit
<1>2. CASE ~Exit
  <2> DEFINE n == Len(backing)
             S == Len(snapShots)
             now == [p \in Snapshotted |-> memory[p]]
  <2>1. /\ snapShots' = Append(snapShots, n)
        /\ UNCHANGED <<build, memory, backing, state>>
    BY <1>2 DEF mprot_take_snapshot
  <2>2. /\ n \in Nat /\ S \in Nat /\ DOMAIN snapShots = 1 .. S
        /\ DOMAIN snapShots' = 1 .. S + 1
        /\ \A s \in 1 .. S : snapShots'[s] = snapShots[s]
        /\ snapShots'[S + 1] = n
    BY <2>1 DEF IInv, TypeOK
  <2>3. ASSUME NEW s \in 1 .. S, NEW q \in Snapshotted PROVE AtSnapshot(s, q)' = AtSnapshot(s, q)
    BY <2>1, <2>2 DEF AtSnapshot, Copies
  <2>4. ASSUME NEW s \in 1 .. S + 1, s = S + 1, NEW q \in Snapshotted
        PROVE  AtSnapshot(s, q)' = memory[q]
    <3>1. Copies(s, q)' = {i \in n + 1 .. n : backing[i].page = q}
      BY <2>1, <2>2, <2>4 DEF Copies
    <3>2. Copies(s, q)' = {}
      BY <2>2, <3>1
    <3> QED BY <2>1, <3>2 DEF AtSnapshot
  <2>5. SavedByCopies' = Append(SavedByCopies, now)
    <3>1. SavedByCopies' = [s \in 1 .. S + 1 |-> [p \in Snapshotted |-> AtSnapshot(s, p)']]
      BY <2>2 DEF SavedByCopies, Snapshotted
    <3>2. \A s \in 1 .. S : SavedByCopies'[s] = SavedByCopies[s]
      BY <2>2, <2>3, <3>1 DEF SavedByCopies
    <3>3. SavedByCopies'[S + 1] = now
      <4>1. ASSUME NEW s \in 1 .. S + 1, s = S + 1
            PROVE  SavedByCopies'[s] = [p \in Snapshotted |-> AtSnapshot(s, p)']
        BY <3>1
      <4>2. ASSUME NEW s \in 1 .. S + 1, s = S + 1
            PROVE  [p \in Snapshotted |-> AtSnapshot(s, p)'] = now
        BY <2>4, <4>2
      <4>3. S + 1 \in 1 .. S + 1
        BY <2>2
      <4> QED BY <4>1, <4>2, <4>3
    <3>4. DOMAIN SavedByCopies' = 1 .. S + 1 /\ SavedByCopies' = [s \in 1 .. S + 1 |-> SavedByCopies'[s]]
      BY <3>1
    <3>5. SavedByCopies \in Seq([Snapshotted -> Content]) /\ Len(SavedByCopies) = S
      BY SavedTyped
    <3> HIDE DEF now
    <3>6. Append(SavedByCopies, now) = [s \in 1 .. S + 1 |-> IF s = S + 1 THEN now ELSE SavedByCopies[s]]
      BY <2>2, <3>5, AppendIs
    <3> QED BY <2>2, <3>2, <3>3, <3>4, <3>6
  <2>6. AbstractMemory' = AbstractMemory /\ AbstractSaved' = Append(AbstractSaved, now) /\ AbstractMemory = memory
    BY <2>1, <2>5 DEF AbstractMemory, AbstractSaved
  <2> QED
    BY <2>1, <2>6, AbstractTake
<1> QED
  BY <1>1, <1>2

\* The short cut keeps the copies: a page not copied since an earlier snapshot has not changed since
\* the latest.
LEMMA RollBackLatestImplements ==
  ASSUME IInv, state = "running", build # 0, NEW s \in DOMAIN snapShots, roll_back_latest(s)
  PROVE  [Abstract!Next]_(Abstract!vars)
<1>1. /\ s = Len(snapShots) /\ memory' = Restored(s)
      /\ UNCHANGED <<build, backing, snapShots, state>>
  BY ShortCutRestores DEF roll_back_latest, mprotVars
<1>2. ASSUME NEW r \in DOMAIN snapShots, NEW q \in Snapshotted
      PROVE  AtSnapshot(r, q)' = AtSnapshot(r, q)
  <2>1. Copies(r, q)' = Copies(r, q)
    BY <1>1 DEF Copies
  <2>2. CASE Copies(r, q) # {}
    BY <1>1, <2>1, <2>2 DEF AtSnapshot
  <2>3. CASE Copies(r, q) = {}
    <3>1. r <= s
      BY <1>1 DEF IInv, TypeOK
    <3>2. Copies(s, q) = {}
      BY <2>3, <3>1, CopiesShrink DEF IInv
    <3>3. memory'[q] = memory[q]
      BY <1>1, <3>2 DEF Restored, AtSnapshot, Snapshotted
    <3> QED BY <2>1, <2>3, <3>3 DEF AtSnapshot
  <2> QED BY <2>2, <2>3
<1>3. SavedByCopies' = SavedByCopies
  BY <1>1, <1>2 DEF SavedByCopies, Snapshotted
<1>4. SubSeq(SavedByCopies, 1, s) = SavedByCopies
  BY <1>1, SavedTyped
<1>5. AbstractSaved = SavedByCopies /\ AbstractSaved' = SavedByCopies' /\ AbstractMemory = memory
      /\ AbstractMemory' = memory' /\ s \in DOMAIN AbstractSaved
  BY <1>1, SavedTyped DEF AbstractSaved, AbstractMemory
<1>6. memory' = [p \in Page |-> IF p \in Shared THEN memory[p] ELSE SavedByCopies[s][p]]
  BY <1>1 DEF Restored, SavedByCopies, Snapshotted
<1> QED
  BY <1>1, <1>3, <1>4, <1>5, <1>6, AbstractRollBack

\* Otherwise the copies made since are dropped: a page has no other copy exactly if the rollback has
\* brought its content back.
LEMMA RollBackEarlierImplements ==
  ASSUME IInv, state = "running", build # 0, NEW s \in DOMAIN snapShots, roll_back_earlier(s)
  PROVE  [Abstract!Next]_(Abstract!vars)
<1> DEFINE k == snapShots[s]
<1>1. memory' = Restored(s) /\ UNCHANGED <<build, state>>
  BY DEF roll_back_earlier
<1>2. ASSUME NEW r \in 1 .. s, NEW q \in Snapshotted
      PROVE  AtSnapshot(r, q)' = AtSnapshot(r, q)
  <2> DEFINE C == Copies(r, q)
  <2>1. r \in DOMAIN snapShots /\ snapShots'[r] = snapShots[r] /\ snapShots[r] \in 0 .. k /\ k \in Nat
        /\ k <= Len(backing) /\ Len(backing) \in Nat /\ Len(backing') = k
        /\ \A i \in 1 .. k : backing'[i] = backing[i]
    BY RollBackCuts DEF IInv, TypeOK
  <2>2. C \in SUBSET Nat /\ Copies(s, q) \subseteq C
    <3>1. r <= s
      BY RollBackCuts DEF IInv, TypeOK
    <3> QED BY <2>1, <3>1, CopiesShrink DEF IInv
  <2>3. C' = {i \in C : i <= k}
    <3>1. C' = {i \in snapShots[r] + 1 .. k : backing'[i].page = q}
      BY <2>1 DEF Copies
    <3>2. C = {i \in snapShots[r] + 1 .. Len(backing) : backing[i].page = q}
      BY DEF Copies
    <3> QED BY <2>1, <3>1, <3>2
  <2>4. Copies(s, q) = {i \in C : i > k}
    BY <2>1 DEF Copies
  <2>5. CASE C' # {}
    <3>1. Earliest(C) \in C /\ \A j \in C : Earliest(C) <= j
      BY <2>2, <2>3, <2>5, EarliestCopy
    <3>2. Earliest(C) \in C'
      BY <2>1, <2>2, <2>3, <2>5, <3>1
    <3>3. Earliest(C') = Earliest(C)
      BY <2>2, <2>3, <3>1, <3>2, EarliestIs
    <3>4. AtSnapshot(r, q)' = backing'[Earliest(C')].content
      BY <2>5 DEF AtSnapshot, Earliest
    <3>5. Earliest(C) \in 1 .. k
      BY <2>1, <2>2, <2>3, <3>2 DEF Copies
    <3> QED BY <2>1, <3>1, <3>3, <3>4, <3>5 DEF AtSnapshot
  <2>6. CASE C' = {}
    <3>1. C = Copies(s, q)
      BY <2>1, <2>2, <2>3, <2>4, <2>6
    <3>2. AtSnapshot(r, q) = AtSnapshot(s, q)
      BY <3>1 DEF AtSnapshot
    <3>3. memory'[q] = AtSnapshot(s, q)
      BY <1>1 DEF Restored, Snapshotted
    <3> QED BY <2>6, <3>2, <3>3 DEF AtSnapshot
  <2> QED BY <2>5, <2>6
<1>3. s \in 0 .. Len(SavedByCopies) /\ s \in DOMAIN SavedByCopies
      /\ SavedByCopies \in Seq([Snapshotted -> Content])
  BY SavedTyped
<1>4. SavedByCopies' = SubSeq(SavedByCopies, 1, s)
  <2>1. SavedByCopies' = [r \in 1 .. s |-> [p \in Snapshotted |-> AtSnapshot(r, p)']]
    BY RollBackCuts DEF SavedByCopies, Snapshotted
  <2>2. SubSeq(SavedByCopies, 1, s) = [r \in 1 .. s |-> SavedByCopies[r]]
    BY <1>3, SubSeqIs
  <2>3. ASSUME NEW r \in 1 .. s
        PROVE  SavedByCopies[r] = [p \in Snapshotted |-> AtSnapshot(r, p)']
    BY <1>2, RollBackCuts DEF SavedByCopies
  <2> QED BY <2>1, <2>2, <2>3
<1>5. AbstractSaved = SavedByCopies /\ AbstractSaved' = SavedByCopies' /\ AbstractMemory = memory
      /\ AbstractMemory' = memory'
  BY <1>1, SavedTyped DEF AbstractSaved, AbstractMemory
<1>6. memory' = [p \in Page |-> IF p \in Shared THEN memory[p] ELSE SavedByCopies[s][p]]
  BY <1>1 DEF Restored, SavedByCopies, Snapshotted
<1> QED
  BY <1>1, <1>3, <1>4, <1>5, <1>6, AbstractRollBack

--------------------------------------------------------------------------------
\* The saved memories, when processes keep them.
LEMMA SleepingSaved ==
  ASSUME IInv, build = 0
  PROVE  /\ AbstractSaved = SavedByFork
         /\ processes \in Seq(Sleeping)
         /\ Len(processes) \in Nat /\ DOMAIN processes = 1 .. Len(processes)
         /\ \A i \in DOMAIN processes :
              processes[i].id = i - 1 /\ processes[i].memory \in [Snapshotted -> Content]
         /\ SavedByFork \in Seq([Snapshotted -> Content])
         /\ state # "waking" => /\ SavedByFork = [i \in 1 .. Len(processes) |-> processes[i].memory]
                                /\ Len(SavedByFork) = Len(processes)
<1>1. processes \in Seq(Sleeping) /\ Len(processes) \in Nat /\ DOMAIN processes = 1 .. Len(processes)
  BY DEF IInv, TypeOK
<1>2. \A i \in DOMAIN processes :
        processes[i].id = i - 1 /\ processes[i].memory \in [Snapshotted -> Content]
  <2>1. \A i \in DOMAIN processes : processes[i] \in Sleeping
    BY <1>1
  <2>2. \A i \in DOMAIN processes : processes[i].memory \in [Snapshotted -> Content]
    BY <2>1 DEF Sleeping
  <2> QED BY <2>2 DEF IInv, ProcessesNumbered
<1>3. state = "waking" => Woken \in 1 .. Len(processes)
  BY <1>1, TheWoken
<1>4. SavedByFork \in Seq([Snapshotted -> Content])
  <2> DEFINE n == IF state = "waking" THEN Woken ELSE Len(processes)
  <2>1. n \in Nat /\ \A i \in 1 .. n : processes[i].memory \in [Snapshotted -> Content]
    BY <1>1, <1>2, <1>3
  <2>2. SavedByFork = [i \in 1 .. n |-> processes[i].memory]
    BY DEF SavedByFork
  <2> HIDE DEF n
  <2>3. SavedByFork \in [1 .. n -> [Snapshotted -> Content]]
    BY <2>1, <2>2
  <2> QED BY <2>1, <2>3, SeqDef
<1>5. state # "waking" => /\ SavedByFork = [i \in 1 .. Len(processes) |-> processes[i].memory]
                          /\ Len(SavedByFork) = Len(processes)
  BY <1>1 DEF SavedByFork
<1> QED
  BY <1>1, <1>2, <1>4, <1>5 DEF AbstractSaved

LEMMA WriteForkedImplements ==
  ASSUME IInv, state = "running", build = 0, NEW p \in Page, NEW c \in Content, WriteForked(p, c)
  PROVE  [Abstract!Next]_(Abstract!vars)
<1>1. memory' = [memory EXCEPT ![p] = c] /\ UNCHANGED <<build, processes, state>>
  BY DEF WriteForked, forkVars
<1>2. AbstractMemory' = [AbstractMemory EXCEPT ![p] = c] /\ AbstractSaved' = AbstractSaved
  BY <1>1 DEF AbstractMemory, AbstractSaved, SavedByFork
<1> QED
  BY <1>1, <1>2, AbstractWrite

\* The process that sleeps has the memory it had when it forked.
LEMMA ForkTakeImplements ==
  ASSUME IInv, state = "running", build = 0, fork_take_snapshot
  PROVE  [Abstract!Next]_(Abstract!vars)
<1> DEFINE now == [p \in Snapshotted |-> memory[p]]
           record == [id |-> currID, memory |-> now]
           P == Len(processes)
<1>1. processes' = Append(processes, record) /\ UNCHANGED <<build, memory, state>>
  BY DEF fork_take_snapshot
<1>2. /\ Len(processes') = P + 1 /\ processes'[P + 1] = record /\ P \in Nat
      /\ \A i \in 1 .. P : processes'[i] = processes[i]
  <2> HIDE DEF record
  <2> QED BY <1>1, SleepingSaved
<1>3. SavedByFork' = Append(SavedByFork, now)
  <2>1. SavedByFork' = [i \in 1 .. P + 1 |-> processes'[i].memory]
    BY <1>1, <1>2 DEF SavedByFork
  <2>2. Len(SavedByFork) = P /\ SavedByFork = [i \in 1 .. P |-> processes[i].memory]
    BY SleepingSaved
  <2>3. Append(SavedByFork, now) = [i \in 1 .. P + 1 |-> IF i = P + 1 THEN now ELSE SavedByFork[i]]
    <3> HIDE DEF now
    <3> QED BY <2>2, SleepingSaved, AppendIs
  <2>4. ASSUME NEW i \in 1 .. P + 1
        PROVE  processes'[i].memory = IF i = P + 1 THEN now ELSE SavedByFork[i]
    <3>1. CASE i = P + 1
      <4>1. record.memory = now
        OBVIOUS
      <4> HIDE DEF record, now
      <4> QED BY <1>2, <3>1, <4>1
    <3>2. CASE i # P + 1
      <4>1. i \in 1 .. P
        BY <1>2, <3>2
      <4> HIDE DEF record, now
      <4> QED BY <1>2, <2>2, <3>2, <4>1
    <3> QED BY <3>1, <3>2
  <2> HIDE DEF now
  <2> QED BY <2>1, <2>3, <2>4
<1>4. AbstractMemory = memory /\ AbstractMemory' = memory /\ AbstractSaved = SavedByFork
      /\ AbstractSaved' = SavedByFork'
  BY <1>1 DEF AbstractMemory, AbstractSaved
<1> QED
  BY <1>1, <1>3, <1>4, AbstractTake

\* From the request on, the process that is asked for is the program.
LEMMA ForkRollBackImplements ==
  ASSUME IInv, state = "running", build = 0, NEW i \in DOMAIN processes,
         fork_roll_back(processes[i].id)
  PROVE  [Abstract!Next]_(Abstract!vars)
<1>1. rollbackID' = processes[i].id /\ state' = "waking" /\ UNCHANGED <<build, memory, processes>>
  BY DEF fork_roll_back
<1>2. \A j \in DOMAIN processes : processes[j].id = processes[i].id <=> j = i
  BY SleepingSaved
<1>3. Woken' = i
  BY <1>1, <1>2 DEF Woken
<1>4. SavedByFork' = [j \in 1 .. i |-> processes[j].memory]
  BY <1>1, <1>3 DEF SavedByFork
<1>5. SavedByFork = [j \in 1 .. Len(processes) |-> processes[j].memory]
      /\ i \in DOMAIN SavedByFork /\ i \in 0 .. Len(SavedByFork)
      /\ SavedByFork \in Seq([Snapshotted -> Content])
  BY SleepingSaved
<1>6. SavedByFork' = SubSeq(SavedByFork, 1, i)
  <2>1. SubSeq(SavedByFork, 1, i) = [j \in 1 .. i |-> SavedByFork[j]]
    BY <1>5, SubSeqIs
  <2>2. \A j \in 1 .. i : SavedByFork[j] = processes[j].memory
    BY <1>5, SleepingSaved
  <2> QED BY <1>4, <2>1, <2>2
<1>7. AbstractMemory' = [p \in Page |-> IF p \in Shared THEN memory[p] ELSE processes[i].memory[p]]
  BY <1>1, <1>3 DEF AbstractMemory
<1>8. AbstractMemory = memory /\ AbstractSaved = SavedByFork /\ AbstractSaved' = SavedByFork'
      /\ SavedByFork[i] = processes[i].memory
  BY <1>1, <1>5, SleepingSaved DEF AbstractMemory, AbstractSaved
<1> QED
  BY <1>1, <1>5, <1>6, <1>7, <1>8, AbstractRollBack

\* The parents that exit were not asked for: the one that was is still there.
LEMMA ParentExitsImplements ==
  ASSUME IInv, state = "waking", build = 0, ParentExits
  PROVE  [Abstract!Next]_(Abstract!vars)
<1> DEFINE P == Len(processes)
<1>1. /\ P - 1 # rollbackID
      /\ processes' = Front(processes)
      /\ UNCHANGED <<build, memory, rollbackID, state>>
  BY LastSleeping DEF ParentExits
<1>2. P \in Nat \ {0} /\ processes \in Seq(Sleeping) /\ DOMAIN processes = 1 .. P
      /\ Woken \in 1 .. P /\ Woken = rollbackID + 1
  BY LastSleeping, TheWoken DEF IInv, TypeOK
<1>3. Len(processes') = P - 1 /\ DOMAIN processes' = 1 .. P - 1
      /\ \A j \in 1 .. P - 1 : processes'[j] = processes[j]
  BY <1>1, <1>2 DEF Front
<1>4. Woken # P
  <2>1. rollbackID \in Int
    BY DEF IInv, TypeOK
  <2>2. P \in Nat /\ P - 1 # rollbackID /\ Woken = rollbackID + 1
    BY <1>1, <1>2
  <2> QED BY <2>1, <2>2
<1>5. Woken \in 1 .. P - 1
  BY <1>2, <1>4
<1>6. Woken' = Woken
  <2>1. \A j \in 1 .. P - 1 : processes'[j].id = rollbackID <=> j = Woken
    BY <1>2, <1>3, TheWoken
  <2>2. Woken' = CHOOSE j \in DOMAIN processes' : processes'[j].id = rollbackID
    BY <1>1 DEF Woken
  <2> QED BY <1>3, <1>5, <2>1, <2>2
<1>7. AbstractMemory' = AbstractMemory
  BY <1>1, <1>3, <1>5, <1>6 DEF AbstractMemory
<1>8. AbstractSaved' = AbstractSaved
  <2>1. \A j \in 1 .. Woken : processes'[j] = processes[j]
    BY <1>2, <1>3, <1>5
  <2> QED BY <1>1, <1>6, <2>1 DEF AbstractSaved, SavedByFork
<1> QED
  BY <1>1, <1>7, <1>8, AbstractStutters

\* The one that forks again gives its child the memory it woke up with.
LEMMA ParentForksImplements ==
  ASSUME IInv, state = "waking", build = 0, ParentForks
  PROVE  [Abstract!Next]_(Abstract!vars)
<1>1. /\ memory' = [p \in Page |-> IF p \in Shared THEN memory[p] ELSE Last(processes).memory[p]]
      /\ state' = "running"
      /\ UNCHANGED <<build, processes>>
      /\ Last(processes).id = rollbackID
  BY DEF ParentForks
<1>2. Woken = Len(processes) /\ Last(processes) = processes[Woken]
  BY <1>1, LastSleeping, TheWoken
<1>3. AbstractMemory' = AbstractMemory
  BY <1>1, <1>2 DEF AbstractMemory
<1>4. AbstractSaved' = AbstractSaved
  BY <1>1, <1>2 DEF AbstractSaved, SavedByFork
<1> QED
  BY <1>1, <1>3, <1>4, AbstractStutters

--------------------------------------------------------------------------------
LEMMA InitImplements == Init => Abstract!Init
<1> SUFFICES ASSUME Init PROVE Abstract!Init
  OBVIOUS
<1>1. AbstractMemory = memory
  BY DEF Init, AbstractMemory
<1>2. AbstractSaved = <<>>
  <2>1. SavedByFork = <<>> /\ SavedByCopies = <<>>
    BY DEF Init, SavedByFork, SavedByCopies
  <2> QED BY <2>1 DEF AbstractSaved
<1> QED
  BY <1>1, <1>2 DEF Init, Abstract!Init, AbstractMemory, AbstractSaved

LEMMA StepImplements == IInv /\ [Next]_vars => [Abstract!Next]_(Abstract!vars)
<1> SUFFICES ASSUME IInv, [Next]_vars PROVE [Abstract!Next]_(Abstract!vars)
  OBVIOUS
<1>1. CASE UNCHANGED vars
  <2>1. AbstractMemory' = AbstractMemory /\ AbstractSaved' = AbstractSaved /\ state' = state
    BY <1>1 DEF vars, mprotVars, forkVars, AbstractMemory, AbstractSaved, SavedByFork, SavedByCopies,
       Woken, AtSnapshot, Copies
  <2> QED BY <2>1, AbstractStutters
<1>2. CASE Next
  BY <1>2, StepActions, StartImplements, WriteImplements, TakeImplements, RollBackLatestImplements,
     RollBackEarlierImplements, WriteForkedImplements, ForkTakeImplements, ForkRollBackImplements,
     ParentExitsImplements, ParentForksImplements, AbstractExit
<1> QED
  BY <1>1, <1>2

\* In all three builds, whatever the sizes, snapshots keep what they are for: a rollback puts the
\* program's memory back to that of the snapshot and touches no other.
THEOREM SnapshotsAreSavedMemory == Spec => ImplementsSavedMemory
<1> QED BY InitImplements, StepImplements, Invariance, PTL DEF Spec, ImplementsSavedMemory, Abstract!Spec
================================================================================
