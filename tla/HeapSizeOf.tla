------------------------------ MODULE HeapSizeOf ------------------------------
(***************************************************************************)
(* heap_size_of and the SizeOf impls (src/components/util/memory.rs): the *)
(* measurement of a DList<T>, walked iteratively through DList2, whose     *)
(* elements are the value shapes the impls cover: String, Option, Box,     *)
(* Arc and Vec, empty ones included.                                       *)
(*                                                                         *)
(* A value is a record whose field k names its impl. A heap block is an    *)
(* address <<node index, tag>>, so every block has one owner; EMPTY is the *)
(* address ::std::rt::heap::EMPTY that zero-sized allocations share, and   *)
(* is no block of the allocator.                                           *)
(***************************************************************************)
EXTENDS Naturals, Sequences, SequencesExt, FiniteSets, Functions

CONSTANTS
    EMPTY,       \* ::std::rt::heap::EMPTY
    BlockSize,   \* tag -> je_malloc_usable_size of blocks with that tag
    Kinds,       \* the element shapes a list may hold
    MaxLen       \* bound on the list's length

Addr(i, tag) == <<i, tag>>
Usable(a) == BlockSize[a[2]]

\* The element of node i, of shape `kind`.
Str(i) == [k |-> "String", ptr |-> Addr(i, "str")]
Value(i, kind) ==
    CASE kind = "String"      -> Str(i)
      [] kind = "EmptyString" -> [k |-> "String", ptr |-> EMPTY]
      [] kind = "None"        -> [k |-> "None"]
      [] kind = "SomeBox"     -> [k |-> "Some", inner |->
                                    [k |-> "Box", ptr |-> Addr(i, "box"), inner |-> Str(i)]]
      [] kind = "Arc"         -> [k |-> "Arc", inner |-> Str(i)]
      [] kind = "EmptyVec"    -> [k |-> "Vec", ptr |-> EMPTY, elems |-> <<>>]
      [] kind = "Vec"         -> [k |-> "Vec", ptr |-> Addr(i, "buf"),
                                  elems |-> << Str(i), [k |-> "String", ptr |-> EMPTY] >>]

\* A DList2: node i owns its Box<Node<T>> block and its value; node i's
\* `next` is node i + 1, the last one's is None.
Node(i, kind) == [ptr |-> Addr(i, "node"), value |-> Value(i, kind)]
Lists == { [i \in DOMAIN ks |-> Node(i, ks[i])] : ks \in BoundedSeq(Kinds, MaxLen) }

\* A measurement: the bytes, and the pointers passed to je_malloc_usable_size.
Zero == [bytes |-> 0, asked |-> {}]
Plus(a, b) == [bytes |-> a.bytes + b.bytes, asked |-> a.asked \cup b.asked]

\* Mutant: the EMPTY test dropped; the allocator is asked about EMPTY too.
HeapSizeOf_NoEmptyCheck(ptr) ==
    [bytes |-> IF ptr = EMPTY THEN 0 ELSE Usable(ptr), asked |-> {ptr}]

\* heap_size_of: 0 for EMPTY, else je_malloc_usable_size(ptr).
HeapSizeOf(ptr) ==
    IF ptr = EMPTY THEN Zero ELSE [bytes |-> Usable(ptr), asked |-> {ptr}]

\* size_of_excluding_self of Box, String, Option, Arc and Vec.
RECURSIVE SizeOf(_)
SizeOf(v) ==
    CASE v.k = "Box"    -> Plus(HeapSizeOf(v.ptr), SizeOf(v.inner))
      [] v.k = "String" -> HeapSizeOf(v.ptr)
      [] v.k = "None"   -> Zero
      [] v.k = "Some"   -> SizeOf(v.inner)
      [] v.k = "Arc"    -> SizeOf(v.inner)
      [] v.k = "Vec"    -> FoldLeft(LAMBDA n, e : Plus(n, SizeOf(e)),
                                    HeapSizeOf(v.ptr), v.elems)

\* Mutant: the Node impl called directly, without the Option<Box<_>> impls
\* around it, so the node's own block is not measured.
LinkSize_NodeOnly(node) == SizeOf(node.value)

\* (*curr).size_of_excluding_self() for curr: &Link<T>, Some(box node):
\* Option's impl, then Box's (the node's block), then Node's, which
\* measures the value but not `next`.
LinkSize(node) == Plus(HeapSizeOf(node.ptr), SizeOf(node.value))

VARIABLES
    list,    \* the DList2 measured
    curr,    \* the Link curr points at: node index, Len(list) + 1 for None
    size,    \* the running total
    asked,   \* pointers passed to je_malloc_usable_size so far
    done     \* the function returned `size`

vars == <<list, curr, size, asked, done>>

Init ==
    /\ list \in Lists
    /\ curr = 1
    /\ size = 0
    /\ asked = {}
    /\ done = FALSE

\* One iteration of `while curr.is_some()`.
Iterate ==
    /\ ~done /\ curr <= Len(list)
    /\ LET m == LinkSize(list[curr]) IN
          /\ size' = size + m.bytes
          /\ asked' = asked \cup m.asked
    /\ curr' = curr + 1
    /\ UNCHANGED <<list, done>>

\* curr is None: return size.
Return ==
    /\ ~done /\ curr > Len(list)
    /\ done' = TRUE
    /\ UNCHANGED <<list, curr, size, asked>>

Next == Iterate \/ Return \/ (done /\ UNCHANGED vars)

Spec == Init /\ [][Next]_vars

-----------------------------------------------------------------------------
(* Reference (spec 4.2): the heap blocks reachable from a value through   *)
(* the pointers it owns, Arc's own block excluded, EMPTY being no block.  *)

RECURSIVE Blocks(_)
Blocks(v) ==
    LET own == IF "ptr" \in DOMAIN v /\ v.ptr # EMPTY THEN {v.ptr} ELSE {}
        sub == IF "inner" \in DOMAIN v THEN Blocks(v.inner)
               ELSE IF "elems" \in DOMAIN v
                    THEN UNION {Blocks(v.elems[j]) : j \in DOMAIN v.elems}
                    ELSE {}
    IN own \cup sub

ListBlocks == UNION {{list[i].ptr} \cup Blocks(list[i].value) : i \in DOMAIN list}

(* The iterative walk of DList2::size_of_excluding_self returns the       *)
(* usable size of every block the list owns, each counted once: each      *)
(* node's Box block and all its element's blocks (spec 4.2, 8).           *)
MeasuresReachableBlocks ==
    done => size = SumFunctionOnSet([b \in ListBlocks |-> Usable(b)], ListBlocks)

(* The allocator is asked only about its own blocks: never about the      *)
(* EMPTY sentinel of an empty String or Vec (heap_size_of, spec 4.1).     *)
OnlyBlocksQueried ==
    asked \subseteq ListBlocks

=============================================================================
