-------------------------------- MODULE Heap --------------------------------
(***************************************************************************)
(* Heap.c: malloc, realloc and free of Paho's C code, which record every   *)
(* block in a tree ordered by address.  An operation runs under heap_mutex *)
(* and is one step.  Sizes and the eyecatchers at both ends of a block are *)
(* left out.                                                               *)
(***************************************************************************)
EXTENDS Tree

CONSTANT MaxAddress     \* blocks start at 1 .. MaxAddress

ASSUME MaxAddressAssumption == MaxAddress \in Nat \ {0}

VARIABLES
    heap,               \* the tree of records
    blocks,             \* the blocks the C library has given out (external)
    heap_mutex          \* "free", or "kept" by a call that has returned

heapVars == <<heap, blocks, heap_mutex>>

Addresses == 1 .. MaxAddress

HeapInit ==
    /\ heap = Empty
    /\ blocks = {}
    /\ heap_mutex = "free"

mymalloc(p) ==
    /\ heap_mutex = "free"
    /\ p \notin blocks
    /\ heap' = TreeAdd(heap, p)
    /\ blocks' = blocks \cup {p}
    /\ UNCHANGED heap_mutex

\* There is no memory: mymalloc returns without unlocking the mutex.
MallocFails ==
    /\ heap_mutex = "free"
    /\ heap_mutex' = "kept"
    /\ UNCHANGED <<heap, blocks>>

\* Internal_heap_unlink finds the record, removes it, and the block is freed;
\* a pointer without a record is logged and left alone.
myfree(p) ==
    /\ heap_mutex = "free"
    /\ IF TreeFind(heap, p) = NoNode
       THEN UNCHANGED <<heap, blocks>>
       ELSE heap' = TreeRemove(heap, TreeFind(heap, p)) /\ blocks' = blocks \ {p}
    /\ UNCHANGED heap_mutex

\* The block stays, without its record.
Heap_unlink(p) ==
    /\ heap_mutex = "free"
    /\ TreeFind(heap, p) # NoNode
    /\ heap' = TreeRemove(heap, TreeFind(heap, p))
    /\ UNCHANGED <<blocks, heap_mutex>>

\* The record is removed, and added again for the place the block has then.
myrealloc(p, q) ==
    /\ heap_mutex = "free"
    /\ TreeFind(heap, p) # NoNode
    /\ q \notin blocks \ {p}
    /\ heap' = TreeAdd(TreeRemove(heap, TreeFind(heap, p)), q)
    /\ blocks' = (blocks \ {p}) \cup {q}
    /\ UNCHANGED heap_mutex

\* There is no memory: the record is gone, and the mutex is kept.
ReallocFails(p) ==
    /\ heap_mutex = "free"
    /\ TreeFind(heap, p) # NoNode
    /\ heap' = TreeRemove(heap, TreeFind(heap, p))
    /\ heap_mutex' = "kept"
    /\ UNCHANGED blocks

HeapNext ==
    \/ \E p \in Addresses : mymalloc(p) \/ myfree(p) \/ Heap_unlink(p) \/ ReallocFails(p)
    \/ \E p, q \in Addresses : myrealloc(p, q)
    \/ MallocFails

HeapSpec == HeapInit /\ [][HeapNext]_heapVars

-----------------------------------------------------------------------------

RECURSIVE Walk(_, _)
Walk(t, curnode) ==
    IF curnode = NoNode THEN <<>> ELSE <<curnode>> \o Walk(t, TreeNextElement(t, curnode))

\* However blocks come and go, the records form a red-black tree with its
\* parent pointers right: every record is found, HeapScan meets each once and in
\* the order of the addresses, and all of them are of blocks that exist.
RecordsSound ==
    /\ Sound(heap)
    /\ \A p \in Addresses : (TreeFind(heap, p) = p) <=> p \in Contents(heap)
    /\ LET scan == Walk(heap, TreeNextElement(heap, NoNode))
       IN  /\ {scan[i] : i \in DOMAIN scan} = Contents(heap)
           /\ \A i \in 1 .. Len(scan) - 1 : scan[i] < scan[i + 1]
    /\ Contents(heap) \subseteq blocks
=============================================================================
