------------------------------- MODULE UserHeap --------------------------------
(***************************************************************************)
(* The heap of the checked program: malloc, calloc and free of             *)
(* src/mymemory.cc on top of MCExecution::alloc (src/mcexecution.cc).      *)
(* Addresses are part of the encoding, so an allocation has to be at the   *)
(* same address in every execution: it has a record, found by its          *)
(* execution point, that keeps the address.  Records and the end of the    *)
(* heap live in the checker's memory and survive a rollback.  Nothing is   *)
(* given back.                                                             *)
(*                                                                         *)
(* Before the heap exists, the dynamic linker is served from an array of   *)
(* bytes.  What the checker allocates for itself comes from the C library  *)
(* and is left out.                                                        *)
(***************************************************************************)
EXTENDS Integers

CONSTANTS Alloc,           \* the allocations of the program, named by their points
          Size,            \* the sizes in bytes it may ask for
          HeapSize,        \* the bytes of the heap
          BOOTSTRAPBYTES,  \* the bytes for the linker
          None             \* no record yet

VARIABLES started,  \* user_snapshot_space is set
          offset,   \* the bytes of the array in use
          early,    \* the blocks of it: first byte and size
          record,   \* the record of an allocation: address and size
          top,      \* allocation_ptr
          live,     \* the bytes the program may use in this execution
          running   \* the process has not ended

bootVars == <<started, offset, early>>
heapVars == <<record, top, live>>
vars == <<bootVars, heapVars, running>>

\* Sizes are rounded up to words of eight bytes.
Words(n) == 8 * ((n + 7) \div 8)

Init ==
  /\ started = FALSE /\ offset = 0 /\ early = {}
  /\ record = [r \in Alloc |-> None]
  /\ top = 0
  /\ live = [r \in Alloc |-> {}]
  /\ running = TRUE

Ends == running' = FALSE /\ UNCHANGED <<bootVars, heapVars>>

\* "OUT OF BOOTSTRAP MEMORY" ends the process.
HandleEarlyAllocationRequest(n) ==
  IF Words(n) > BOOTSTRAPBYTES - offset
  THEN Ends
  ELSE /\ early' = early \cup {<<offset, Words(n)>>}
       /\ offset' = offset + Words(n)
       /\ UNCHANGED <<started, heapVars, running>>

mprot_snapshot_init == ~started /\ started' = TRUE /\ UNCHANGED <<offset, early, heapVars, running>>

Bytes(ptr, n) == ptr .. ptr + n - 1

\* The assertion that the heap has not run out.
real_user_malloc(n) == top + Words(n) <= HeapSize /\ top' = top + Words(n)

\* A record is made: room for twice the size is noted, the size is reserved.
allocNew(r, n) ==
  /\ record[r] = None
  /\ real_user_malloc(n)
  /\ record' = [record EXCEPT ![r] = [ptr |-> top, size |-> Words(2 * n)]]
  /\ live' = [live EXCEPT ![r] = Bytes(top, n)]
  /\ UNCHANGED <<bootVars, running>>

\* The address of the record, or "Allocation size changed too much".
allocAgain(r, n) ==
  /\ record[r] # None
  /\ IF n > record[r].size
     THEN Ends
     ELSE live' = [live EXCEPT ![r] = Bytes(record[r].ptr, n)] /\ UNCHANGED <<bootVars, record, top, running>>

\* An execution passes an execution point once.
alloc(r, n) == live[r] = {} /\ (allocNew(r, n) \/ allocAgain(r, n))

\* malloc, calloc and the operators new.
malloc(r, n) == IF started THEN alloc(r, n) ELSE HandleEarlyAllocationRequest(n)

\* Blocks of the array are not freed (DontFree).  For others the program's free, and delete,
\* ask mspace_free to give them back to the heap, which is no mspace: it aborts.
free ==
  \/ early # {} /\ UNCHANGED vars
  \/ (\E r \in Alloc : live[r] # {}) /\ Ends

\* The execution is over and the program's memory is rolled back.
NextExecution ==
  /\ started
  /\ live' = [r \in Alloc |-> {}]
  /\ UNCHANGED <<bootVars, record, top, running>>

Next ==
  /\ running
  /\ (\E r \in Alloc, n \in Size : malloc(r, n)) \/ mprot_snapshot_init \/ free \/ NextExecution

Spec == Init /\ [][Next]_vars
-------------------------------------------------------------------------------
(***************************************************************************)
(* No two allocations of one execution share a byte.  The record promises  *)
(* twice the size of the first execution (src/mcexecution.cc:866) and      *)
(* only what exceeds that is refused ("Allocation size changed too much"), *)
(* but only the size of the first execution is reserved.                   *)
(***************************************************************************)
AllocationsDisjoint ==
  \A r, s \in Alloc : r # s => live[r] \cap live[s] = {}
================================================================================
