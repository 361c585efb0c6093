---------------------------- MODULE SmapsParser ----------------------------
(***************************************************************************)
(* get_resident_segments (src/components/util/memory.rs, Linux): the scan  *)
(* of /proc/self/smaps line by line with the LookingFor state machine, the *)
(* aggregation into seg_map, the "resident-according-to-smaps" total and   *)
(* the stable sort by size, descending.                                    *)
(*                                                                         *)
(* The file is generated from a list of mappings, each written the way the *)
(* kernel writes it: a header line, a "Size:" line, an "Rss:" line. A      *)
(* header is either matched by seg_re or unreadable: lines() yields Err    *)
(* for it (a pathname that is not UTF-8). A segment name, the string       *)
(* "- " ++ path-or-anonymous ++ " (" ++ perms ++ ")", is the pair of its   *)
(* two variable parts; "- other" and the total are one-element tuples, so  *)
(* no segment name equals them, as in the code (segment names end in ")"). *)
(*                                                                         *)
(* File::open may fail. BufferedReader then wraps the Err, whose read     *)
(* returns the same error every time without consuming anything, and      *)
(* lines() yields Err for ever: the file is one Err line read again and    *)
(* again.                                                                  *)
(***************************************************************************)
EXTENDS Naturals, FiniteSets, Sequences, SequencesExt, Functions

CONSTANTS
    Paths,          \* pathnames as seg_re's second capture gives them
    AnonPaths,      \* the empty pathname and "[stack:nnn]" markers
    Perms,          \* permission strings, seg_re's first capture
    RssKB,          \* values of the "Rss: N kB" lines
    Readable,       \* whether a header line can be unreadable ({TRUE} or BOOLEAN)
    Openable,       \* results File::open can have ({TRUE} or BOOLEAN)
    MaxSegs         \* bound on the number of mappings in the file

ASSUME /\ AnonPaths \subseteq Paths
       /\ RssKB \subseteq Nat
       /\ Readable \subseteq BOOLEAN /\ TRUE \in Readable
       /\ Openable \subseteq BOOLEAN
       /\ MaxSegs \in Nat

\* rss < 512 * 1024 goes to "- other".
SmallSegment == 512 * 1024
OtherName == <<"other">>
TotalName == <<"resident-according-to-smaps">>

\* Only a pathname can fail to decode; anonymous headers always read.
Mapping == {m \in [path : Paths, perms : Perms, kb : RssKB, readable : Readable] :
               ~m.readable => m.path \notin AnonPaths}

\* The lines the kernel writes for one mapping.
MappingLines(m) ==
    << IF m.readable THEN [kind |-> "seg", path |-> m.path, perms |-> m.perms]
                     ELSE [kind |-> "err"],
       [kind |-> "other"],
       [kind |-> "rss", kb |-> m.kb] >>

VARIABLES
    input,        \* the mappings the file describes
    opened,       \* File::open(&path) returned Ok
    lines,        \* the file's lines
    pos,          \* the next line to read
    lookingFor,   \* LookingFor: "Segment" or "Rss"
    currSegName,  \* curr_seg_name
    segMap,       \* seg_map: segment name -> summed resident bytes
    segs,         \* the returned Vec<(String, u64)>, once the scan is over
    done

vars == <<input, opened, lines, pos, lookingFor, currSegName, segMap, segs, done>>

NoSegName == <<>>

\* The name built from seg_re's captures.
SegName(path, perms) ==
    << IF path \in AnonPaths THEN "anonymous" ELSE path, perms >>

\* Insert x into a sequence sorted by size, descending, after every entry
\* of the same size: the step of a stable sort.
RECURSIVE InsertBySizeDesc(_, _)
InsertBySizeDesc(x, s) ==
    IF s = <<>> THEN <<x>>
    ELSE IF Head(s)[2] >= x[2] THEN <<Head(s)>> \o InsertBySizeDesc(x, Tail(s))
    ELSE <<x>> \o s

\* segs.sort_by(|&(_, rss1), &(_, rss2)| rss2.cmp(&rss1)): a stable sort.
SortBySizeDesc(s) ==
    FoldLeft(LAMBDA acc, x : InsertBySizeDesc(x, acc), <<>>, s)

Init ==
    /\ input \in BoundedSeq(Mapping, MaxSegs)
    /\ opened \in Openable
    /\ lines = IF opened THEN FlattenSeq([i \in DOMAIN input |-> MappingLines(input[i])])
               ELSE << [kind |-> "err"] >>
    /\ pos = 1
    /\ lookingFor = "Segment"
    /\ currSegName = NoSegName
    /\ segMap = <<>>
    /\ segs = <<>>
    /\ done = FALSE

Line == lines[pos]
Reading == ~done /\ pos <= Len(lines)

\* A line that lines() returns as Err: continue. An undecodable line has
\* been consumed; the error of a failed open has not.
ErrLine ==
    /\ Reading /\ Line.kind = "err"
    /\ pos' = IF opened THEN pos + 1 ELSE pos
    /\ UNCHANGED <<input, opened, lines, lookingFor, currSegName, segMap, segs, done>>

\* Looking for a segment: seg_re matches, build curr_seg_name.
SegmentLine ==
    /\ Reading /\ lookingFor = "Segment" /\ Line.kind = "seg"
    /\ currSegName' = SegName(Line.path, Line.perms)
    /\ lookingFor' = "Rss"
    /\ pos' = pos + 1
    /\ UNCHANGED <<input, opened, lines, segMap, segs, done>>

\* The regex of the current state does not match: continue.
SkipLine ==
    /\ Reading
    /\ \/ lookingFor = "Segment" /\ Line.kind \in {"other", "rss"}
       \/ lookingFor = "Rss" /\ Line.kind \in {"other", "seg"}
    /\ pos' = pos + 1
    /\ UNCHANGED <<input, opened, lines, lookingFor, currSegName, segMap, segs, done>>

\* Mutant: Entry::Occupied overwritten instead of added to.
RssLine_Overwrite ==
    /\ Reading /\ lookingFor = "Rss" /\ Line.kind = "rss"
    /\ LET rss == Line.kb * 1024
           key == IF rss < SmallSegment THEN OtherName ELSE currSegName
       IN segMap' = IF rss = 0 THEN segMap
                    ELSE IF key \in DOMAIN segMap
                         THEN [segMap EXCEPT ![key] = rss]
                         ELSE (key :> rss) @@ segMap
    /\ lookingFor' = "Segment"
    /\ pos' = pos + 1
    /\ UNCHANGED <<input, opened, lines, currSegName, segs, done>>

\* Mutant: the rss > 0 test dropped.
RssLine_NoZeroTest ==
    /\ Reading /\ lookingFor = "Rss" /\ Line.kind = "rss"
    /\ LET rss == Line.kb * 1024
           key == IF rss < SmallSegment THEN OtherName ELSE currSegName
       IN segMap' = IF key \in DOMAIN segMap
                    THEN [segMap EXCEPT ![key] = @ + rss]
                    ELSE (key :> rss) @@ segMap
    /\ lookingFor' = "Segment"
    /\ pos' = pos + 1
    /\ UNCHANGED <<input, opened, lines, currSegName, segs, done>>

\* Looking for Rss: rss_re matches. A non-zero size is added to its
\* segment's entry, or to "- other" below SmallSegment; either way the
\* scan goes back to looking for a segment.
RssLine ==
    /\ Reading /\ lookingFor = "Rss" /\ Line.kind = "rss"
    /\ LET rss == Line.kb * 1024
           key == IF rss < SmallSegment THEN OtherName ELSE currSegName
       IN segMap' = IF rss = 0 THEN segMap
                    ELSE IF key \in DOMAIN segMap
                         THEN [segMap EXCEPT ![key] = @ + rss]
                         ELSE (key :> rss) @@ segMap
    /\ lookingFor' = "Segment"
    /\ pos' = pos + 1
    /\ UNCHANGED <<input, opened, lines, currSegName, segs, done>>

\* seg_map.into_iter() in the HashMap's order, the total pushed last,
\* then the sort.
Finish ==
    /\ ~done /\ pos > Len(lines)
    /\ \E order \in SetToSeqs(DOMAIN segMap) :
          segs' = SortBySizeDesc(
                    [i \in DOMAIN order |-> <<order[i], segMap[order[i]]>>]
                    \o << <<TotalName, SumFunction(segMap)>> >>)
    /\ done' = TRUE
    /\ UNCHANGED <<input, opened, lines, pos, lookingFor, currSegName, segMap>>

Next ==
    \/ ErrLine \/ SegmentLine \/ SkipLine \/ RssLine \/ Finish
    \/ (done /\ UNCHANGED vars)

Spec == Init /\ [][Next]_vars

-----------------------------------------------------------------------------
(* Properties.                                                             *)

TypeOK ==
    /\ pos \in 1..(Len(lines) + 1)
    /\ lookingFor \in {"Segment", "Rss"}
    /\ \A k \in DOMAIN segMap : segMap[k] \in Nat \ {0}
    /\ done \in BOOLEAN

\* Reference: the resident bytes of the mappings whose header was read,
\* grouped by the name they are reported under.
ReportKey(m) ==
    IF m.kb * 1024 < SmallSegment THEN OtherName ELSE SegName(m.path, m.perms)
Counted == {i \in DOMAIN input : input[i].readable /\ input[i].kb > 0}
RefKeys == {ReportKey(input[i]) : i \in Counted}
RefBytes(k) ==
    SumFunctionOnSet([i \in Counted |-> input[i].kb * 1024],
                     {i \in Counted : ReportKey(input[i]) = k})

(* The scan reports, for every name, the sum of the resident sizes of    *)
(* the segments reported under it, each name once, segments below 512   *)
(* KiB under "- other", plus the total of them all, and the list is      *)
(* sorted by size, descending (get_resident_segments, spec 4.3 steps 1-6).*)
ParsesToReference ==
    done =>
        /\ {segs[i] : i \in {j \in DOMAIN segs : segs[j][1] # TotalName}}
             = {<<k, RefBytes(k)>> : k \in RefKeys}
        /\ Len(segs) = Cardinality(RefKeys) + 1
        /\ \E i \in DOMAIN segs :
              segs[i] = <<TotalName, SumFunctionOnSet([j \in Counted |-> input[j].kb * 1024], Counted)>>
        /\ \A i \in 1..(Len(segs) - 1) : segs[i][2] >= segs[i + 1][2]

\* The scan runs on the profiler thread with nothing to wait for.
FairSpec == Spec /\ WF_vars(Next)

(* get_resident_segments returns, whatever /proc/self/smaps holds: spec   *)
(* 4.3 says an I/O failure opening the source yields an empty list, and  *)
(* the `Err(_) => continue` of the line loop must not spin on it.        *)
ScanReturns == <>done

=============================================================================
