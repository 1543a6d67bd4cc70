----------------------------- MODULE SlicedScan -----------------------------
(***************************************************************************)
(* Analysis of one file in byte ranges: split_chunks, _process_range and   *)
(* scan_file (detection/turbo.py), _analyze_slice and                      *)
(* parallel_analyze_file (application/parallel_scan.py).  A line is        *)
(* [size, seen, detects, as]: its bytes in the file; the bytes it has once *)
(* decoded and encoded again (a CRLF becomes one byte, a byte that is not  *)
(* UTF-8 becomes three); what detect_format makes of it, "none" for an     *)
(* empty line, which is skipped; and the level and template of the entry   *)
(* that parse_line makes of it in each format, or "none".  Each slice is   *)
(* analysed for itself: turbo reads it in the format of its first line,    *)
(* and what a parallel slice flags is up to the lines that happen to be in *)
(* it, so that it is a choice here.                                        *)
(***************************************************************************)
EXTENDS Naturals, Sequences, FiniteSets, FiniteSetsExt, Functions

CONSTANTS Key,      \* level and template of an entry
          Format,   \* formats of lines
          Files,    \* files that may be scanned: sequences of lines
          Slices    \* how many slices may be asked for

VARIABLES
    file, n, way,   \* the input: lines, slices asked for, turbo or parallel
    given,          \* parallel: the format sniffed or asked for; "none" for turbo
    chunks,         \* byte ranges <<start, end>> of the slices
    next,           \* the next slice to be merged
    counts,         \* merged: key -> entries
    flagged,        \* merged families: key -> flagged entries
    judged,         \* history: the lines that some slice has flagged
    faults,         \* faulted_slices
    pc              \* split, pool, serial or done

vars == <<file, n, way, given, chunks, next, counts, flagged, judged, faults, pc>>

Sum(f, S) == FoldFunctionOnSet(LAMBDA a, b : a + b, 0, f, S)

Offset(f, i) == Sum([j \in DOMAIN f |-> f[j].size], 1 .. i - 1)
Size(f) == Offset(f, Len(f) + 1)

\* Where the file stands after seek(b) and readline().
NextStart(f, b) == Min({Offset(f, i) : i \in 1 .. Len(f) + 1} \cap (b + 1 .. Size(f)))

\* split_chunks: byte ranges whose bounds are starts of lines.
SplitChunks(f, k) ==
    LET step   == Size(f) \div k
        Bounds == {0, Size(f)} \cup {NextStart(f, i * step) : i \in 1 .. k - 1}
    IN  IF k <= 1 \/ Size(f) = 0 THEN {<<0, Size(f)>>}
        ELSE {r \in Bounds \X Bounds :
                 r[1] < r[2] /\ \A c \in Bounds : c <= r[1] \/ c >= r[2]}

\* Mutant of Reads: the line at the start is taken for the rest of one that the
\* slice before has read.
ReadsSkipping(f, r) ==
    LET first   == CHOOSE i \in 1 .. Len(f) : Offset(f, i) = r[1]
        pos(i)  == r[1] + Sum([j \in DOMAIN f |-> f[j].seen], first .. i)
    IN  IF f = <<>> THEN {}
        ELSE {i \in first .. Len(f) : /\ i > first \/ r[1] = 0
                                      /\ \A j \in first .. i - 1 : pos(j) < r[2]}
\* The lines a worker reads of its range: until the bytes it has counted reach
\* the end of the range, which is tested after each line.
Reads(f, r) ==
    LET first   == CHOOSE i \in 1 .. Len(f) : Offset(f, i) = r[1]
        pos(i)  == r[1] + Sum([j \in DOMAIN f |-> f[j].seen], first .. i)
    IN  IF f = <<>> THEN {}
        ELSE {i \in first .. Len(f) : \A j \in first .. i - 1 : pos(j) < r[2]}

\* The format in which a set of lines is read.
Used(f, S) ==
    LET told == {i \in S : f[i].detects # "none"}
    IN  IF way = "parallel" THEN given
        ELSE IF told = {} THEN "none" ELSE f[Min(told)].detects

\* The lines of a set that are an entry with a key in a format, and their number.
Entries(f, S, fmt, k) == {i \in S : f[i].detects # "none" /\ f[i].as[fmt] = k}
Tally(f, S, fmt) == [k \in Key |-> Cardinality(Entries(f, S, fmt, k))]

Plus(a, b) == [k \in Key |-> a[k] + b[k]]
None == [k \in Key |-> 0]
InOrder(R) == [i \in 1 .. Cardinality(R) |->
                  CHOOSE r \in R : Cardinality({s \in R : s[1] < r[1]}) = i - 1]

Init ==
    /\ file \in Files /\ n \in Slices /\ way \in {"turbo", "parallel"}
    /\ given \in IF way = "parallel" THEN Format ELSE {"none"}
    /\ chunks = <<>> /\ next = 1 /\ counts = None /\ flagged = None /\ judged = {}
    /\ faults = 0 /\ pc = "split"

Split ==
    /\ pc = "split"
    /\ chunks' = InOrder(SplitChunks(file, n))
    /\ pc' = IF way = "turbo" /\ Len(chunks') = 1 THEN "serial" ELSE "pool"
    /\ UNCHANGED <<file, n, way, given, next, counts, flagged, judged, faults>>

\* The next slice, in the order of the file as imap and run_pool return them,
\* is merged; families add up by level and template.  Turbo scores the merged
\* counts, its slices flag nothing.
Merge ==
    /\ next <= Len(chunks)
    /\ LET S   == Reads(file, chunks[next])
           fmt == Used(file, S)
       IN  /\ counts' = Plus(counts, Tally(file, S, fmt))
           /\ \E J \in SUBSET UNION {Entries(file, S, fmt, k) : k \in Key} :
                 /\ way = "turbo" => J = {}
                 /\ flagged' = Plus(flagged, Tally(file, J, fmt))
                 /\ judged' = judged \cup J
    /\ next' = next + 1
    /\ UNCHANGED <<file, n, way, given, chunks, faults, pc>>

MergeSlice == pc \in {"pool", "serial"} /\ Merge

\* Parallel: a TaskError takes the place of the slice's result.
SliceFaults ==
    /\ pc = "pool" /\ way = "parallel" /\ next <= Len(chunks)
    /\ faults' = faults + 1 /\ next' = next + 1
    /\ UNCHANGED <<file, n, way, given, chunks, counts, flagged, judged, pc>>

\* Mutant of StartOver: the serial scan adds to what the pool has merged.
StartOverAdding == next' = 1 /\ UNCHANGED counts
\* merged = {}
StartOver == next' = 1 /\ counts' = None

\* Turbo: the pool or a worker fails, with some of the slices merged already.
PoolFails ==
    /\ pc = "pool" /\ way = "turbo" /\ next <= Len(chunks)
    /\ StartOver /\ pc' = "serial"
    /\ UNCHANGED <<file, n, way, given, chunks, flagged, judged, faults>>

Finish ==
    /\ pc \in {"pool", "serial"} /\ next > Len(chunks)
    /\ pc' = "done"
    /\ UNCHANGED <<file, n, way, given, chunks, next, counts, flagged, judged, faults>>

Next == Split \/ MergeSlice \/ SliceFaults \/ PoolFails \/ Finish

Spec == Init /\ [][Next]_vars
----------------------------------------------------------------------------
\* Every line ends in one byte "\n" and is valid UTF-8.
Plain(f) == \A i \in DOMAIN f : f[i].seen = f[i].size

TypeOK ==
    /\ given \in Format \cup {"none"} /\ judged \subseteq DOMAIN file
    /\ next \in 1 .. Len(chunks) + 1 /\ faults <= Len(chunks)
    /\ pc \in {"split", "pool", "serial", "done"}
    /\ \A k \in Key : flagged[k] <= counts[k]

\* Wherever the file is cut and however often the pool fails, each line is counted
\* once, as what it is in the format of its slice: if the slices with lines agree
\* on a format, the counts are those of the uncut file.  Of verdicts the code
\* promises no such thing ("per-slice approximate").
CutIndependent ==
    pc = "done" /\ Plain(file) /\ faults = 0 =>
       \A fmt \in Format :
          (\A j \in DOMAIN chunks : Used(file, Reads(file, chunks[j])) \in {fmt, "none"})
             => counts = Tally(file, DOMAIN file, fmt)

\* A scan that lost slices understates, and never overstates, the file: of no key
\* are there more entries than lines that can be read as one.  And although each
\* slice judges alone, a line that some slice flagged counts once in its family.
FaultsOnlyLose ==
    pc = "done" /\ Plain(file) =>
       \A k \in Key :
          /\ counts[k] <= Cardinality(
                UNION {Entries(file, DOMAIN file, fmt, k) :
                          fmt \in IF way = "parallel" THEN {given} ELSE Format})
          /\ flagged[k] = Tally(file, judged, given)[k]
============================================================================
