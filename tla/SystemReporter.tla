---------------------------- MODULE SystemReporter ----------------------------
(***************************************************************************)
(* SystemMemoryReporter::collect_reports (src/components/util/memory.rs)  *)
(* run step by step on the profiler thread, while the application's other *)
(* threads keep allocating: the statm queries, the smaps segments, the     *)
(* mallinfo sum and the three jemalloc statistics, each read after its own *)
(* "epoch" write, then the one send of the whole list.                    *)
(*                                                                         *)
(* An Option<u64> is a value or None. The widths of c_int and u64 are the  *)
(* constants CIntBits and U64Bits: TLC's integers are 32-bit, so the model *)
(* runs them scaled down; the wrap and the sign extension are the same.    *)
(***************************************************************************)
EXTENDS Integers, Sequences, TLC

CONSTANTS
    None,          \* Option::None
    StatmFiles,    \* /proc/self/statm as read_to_string sees it: Unreadable,
                   \* or its words, each a page count or Junk
    Unreadable,    \* read_to_string returned Err
    Junk,          \* a word that does not parse as u64
    PageSize,      \* ::std::env::page_size()
    SegLists,      \* results get_resident_segments can return
    MallinfoVals,  \* values of the c_int fields hblkhd and uordblks
    StatVals,      \* values of jemalloc's byte counters
    EpochCanFail,  \* whether je_mallctl("epoch") can return non-zero
    ReadCanFail,   \* whether the statistic's je_mallctl can return non-zero
    CIntBits, U64Bits,
    MaxAllocs      \* bound on the allocating threads' steps

ASSUME /\ MallinfoVals \subseteq 0..(2^(CIntBits - 1) - 1)
       /\ EpochCanFail \in BOOLEAN /\ ReadCanFail \in BOOLEAN

\* The names the jemalloc statistics are reported under.
JeName == ("allocated" :> "jemalloc-heap-allocated") @@ ("active" :> "jemalloc-heap-active")
          @@ ("mapped" :> "jemalloc-heap-mapped")

\* The allocator keeps allocated <= active <= mapped at every instant.
Stats == {st \in [allocated : StatVals, active : StatVals, mapped : StatVals] :
             st.allocated <= st.active /\ st.active <= st.mapped}

\* The steps of collect_reports, in code order.
Steps == <<"vsize", "resident", "segments", "sysheap",
           "allocated", "active", "mapped", "send">>

VARIABLES
    pc,        \* index into Steps; Len(Steps) + 1 once it returned true
    sub,       \* inside get_jemalloc_stat: "epoch" or "read"
    reports,   \* the Vec<MemoryReport> being built
    sent,      \* what reports_chan received, or None
    live,      \* jemalloc's current statistics
    cached,    \* jemalloc's statistics as of its last epoch
    asked,     \* ghost: the live statistic when its epoch was requested
    heap,      \* ghost: hblkhd + uordblks, the system heap mallinfo saw
    allocs,    \* steps the allocating threads took
    panicked   \* the profiler thread panicked inside collect_reports

vars == <<pc, sub, reports, sent, live, cached, asked, heap, allocs, panicked>>

\* c_int + c_int wraps to a signed CIntBits value; `as u64` sign-extends.
WrapCInt(x) ==
    LET w == x % 2^CIntBits IN IF w >= 2^(CIntBits - 1) THEN w - 2^CIntBits ELSE w
AsU64(x) == x % 2^U64Bits

\* The `report` closure: push a report only for Some(size).
Report(name, size) ==
    reports' = IF size = None THEN reports
               ELSE Append(reports, [name |-> name, size |-> size])

Init ==
    /\ pc = 1
    /\ sub = "epoch"
    /\ reports = <<>>
    /\ sent = None
    /\ live \in Stats
    /\ cached \in Stats
    /\ asked = [s \in {"allocated", "active", "mapped"} |-> None]
    /\ heap = None
    /\ allocs = 0
    /\ panicked = FALSE

Running == pc <= Len(Steps) /\ ~panicked
Step == Steps[pc]

\* get_proc_self_statm_field(field): None if the file cannot be read, if
\* it has no word `field` (nth counts from 0), or if that word does not
\* parse; else the page count times the page size.
StatmField(contents, field) ==
    IF contents = Unreadable \/ field >= Len(contents) THEN None
    ELSE IF contents[field + 1] = Junk THEN None
    ELSE contents[field + 1] * PageSize

\* get_vsize and get_resident read fields 0 and 1.
StatmIndex == [vsize |-> 0, resident |-> 1]

\* report("vsize", get_vsize()); report("resident", get_resident()):
\* each query opens and reads the file anew.
StatmQuery ==
    /\ Running /\ Step \in {"vsize", "resident"}
    /\ \E contents \in StatmFiles : Report(Step, StatmField(contents, StatmIndex[Step]))
    /\ pc' = pc + 1
    /\ UNCHANGED <<sub, sent, live, cached, asked, heap, allocs, panicked>>

\* One report per entry of get_resident_segments(), always Some.
Segments ==
    /\ Running /\ Step = "segments"
    /\ \E segs \in SegLists :
          reports' = reports \o [i \in DOMAIN segs |-> [name |-> segs[i][1], size |-> segs[i][2]]]
    /\ pc' = pc + 1
    /\ UNCHANGED <<sub, sent, live, cached, asked, heap, allocs, panicked>>

\* get_system_heap_allocated: Some((info.hblkhd + info.uordblks) as u64).
\* The c_int addition wraps in a build without overflow checks and panics
\* in a build with them.
SysHeap ==
    /\ Running /\ Step = "sysheap"
    /\ \E hblkhd, uordblks \in MallinfoVals :
          LET sum == hblkhd + uordblks IN
          /\ heap' = sum
          /\ \/ /\ Report("system-heap-allocated", AsU64(WrapCInt(sum)))
                /\ pc' = pc + 1 /\ UNCHANGED panicked
             \/ /\ sum # WrapCInt(sum)
                /\ panicked' = TRUE
                /\ UNCHANGED <<pc, reports>>
    /\ UNCHANGED <<sub, sent, live, cached, asked, allocs>>

\* Mutant: a failed epoch write does not return None; the read goes on.
EpochWrite_IgnoreRv ==
    /\ Running /\ Step \in {"allocated", "active", "mapped"} /\ sub = "epoch"
    /\ asked' = [asked EXCEPT ![Step] = live[Step]]
    /\ \/ cached' = live
       \/ EpochCanFail /\ UNCHANGED cached
    /\ sub' = "read"
    /\ UNCHANGED <<pc, reports, sent, live, heap, allocs, panicked>>

\* get_jemalloc_stat, first call: je_mallctl("epoch") refreshes the cached
\* statistics; a non-zero rv returns None, so nothing is reported.
EpochWrite ==
    /\ Running /\ Step \in {"allocated", "active", "mapped"} /\ sub = "epoch"
    /\ asked' = [asked EXCEPT ![Step] = live[Step]]
    /\ \/ /\ cached' = live
          /\ sub' = "read"
          /\ UNCHANGED pc
       \/ /\ EpochCanFail
          /\ pc' = pc + 1
          /\ UNCHANGED <<cached, sub>>
    /\ UNCHANGED <<reports, sent, live, heap, allocs, panicked>>

\* Second call: read the statistic from the cache; rv != 0 returns None.
StatRead ==
    /\ Running /\ Step \in {"allocated", "active", "mapped"} /\ sub = "read"
    /\ \/ Report(JeName[Step], cached[Step])
       \/ ReadCanFail /\ UNCHANGED reports
    /\ sub' = "epoch"
    /\ pc' = pc + 1
    /\ UNCHANGED <<sent, live, cached, asked, heap, allocs, panicked>>

\* reports_chan.send(reports); true.
Send ==
    /\ Running /\ Step = "send"
    /\ sent' = reports
    /\ pc' = pc + 1
    /\ UNCHANGED <<sub, reports, live, cached, asked, heap, allocs, panicked>>

\* Another thread allocates or frees: jemalloc's live counters move, the
\* cache does not.
Allocate ==
    /\ allocs < MaxAllocs
    /\ \E st \in Stats \ {live} : live' = st
    /\ allocs' = allocs + 1
    /\ UNCHANGED <<pc, sub, reports, sent, cached, asked, heap, panicked>>

Terminated == ~Running /\ allocs = MaxAllocs

Next ==
    \/ StatmQuery \/ Segments \/ SysHeap \/ EpochWrite \/ StatRead \/ Send
    \/ Allocate
    \/ (Terminated /\ UNCHANGED vars)

Spec == Init /\ [][Next]_vars

-----------------------------------------------------------------------------
(* Properties.                                                             *)

IsJe(r) == \E s \in DOMAIN JeName : r.name = JeName[s]
StatOf(r) == CHOOSE s \in DOMAIN JeName : r.name = JeName[s]

(* Every jemalloc statistic reported is the allocator's value at the      *)
(* moment its own epoch was requested, however the other threads         *)
(* allocated meanwhile: a failed epoch never lets a stale cached value    *)
(* through (get_jemalloc_stat's `if rv != 0 { return None; }`, spec 8).   *)
StatNeverStale ==
    \A i \in DOMAIN reports :
        IsJe(reports[i]) => reports[i].size = asked[StatOf(reports[i])]

(* "system-heap-allocated" is the number of bytes mallinfo says the       *)
(* application holds, hblkhd + uordblks (get_system_heap_allocated).      *)
SystemHeapExact ==
    \A i \in DOMAIN reports :
        reports[i].name = "system-heap-allocated" => reports[i].size = heap

=============================================================================
