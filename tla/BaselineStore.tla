--------------------------- MODULE BaselineStore ---------------------------
(***************************************************************************)
(* The learned baseline of one source (application/baseline_store.py) as   *)
(* the analyses that share it use it: each loads the document, detects,    *)
(* folds its normal lines in and saves it through the one temporary name,  *)
(* path + ".tmp".  Names and files are kept apart, since a rename moves a  *)
(* name while others still write to the file under it.  Nothing is locked, *)
(* and a process may die between any two steps.                            *)
(***************************************************************************)
EXTENDS Naturals, Sequences, FiniteSets, FiniteSetsExt, Functions

CONSTANTS
    Process,      \* processes that analyse the source (CLI runs, the daemon)
    Template,     \* level|template keys of the lines
    Batches,      \* what a run may read: sequences of [key, flagged]
    MaxTemplates, \* _MAX_TEMPLATES
    MaxSaves      \* bound: files ever created under the temporary name

VARIABLES
    path,   \* file the published name stands for; 0: no such name
    tmp,    \* file the temporary name stands for; 0: no such name
    files,  \* files[i]: what file i holds: a document, or Torn
    pc,     \* idle, detect, dump or replace
    base,   \* what the process loaded: a document, or Cold
    doc,    \* the document it is saving
    fd,     \* the file it has opened
    lone,   \* history: since its load, no other process was in a run
    met     \* history: two processes have been in a run at once

vars == <<path, tmp, files, pc, base, doc, fd, lone, met>>

\* No baseline.  A file that holds no document reads as this one.
Cold == [templates |-> [k \in {} |-> 0], total |-> 0, learned_runs |-> 0]
Torn == Cold
Published == IF path = 0 THEN Cold ELSE files[path]
Total(t) == FoldFunction(LAMBDA a, b : a + b, 0, t)
Others(p) == {q \in Process \ {p} : pc[q] # "idle"}

\* Mutant of Kept: anomalies are learned too.
KeptAll(batch, k) == Cardinality({i \in DOMAIN batch : batch[i].key = k})
\* How many lines of template k a run learns: the unflagged ones.
Kept(batch, k) ==
    Cardinality({i \in DOMAIN batch : batch[i].key = k /\ ~batch[i].flagged})

\* The most frequent templates; which of equal ones survive is left open.
Cuts(t) ==
    IF Cardinality(DOMAIN t) <= MaxTemplates THEN {t}
    ELSE {Restrict(t, K) :
             K \in {S \in kSubset(MaxTemplates, DOMAIN t) :
                       \A k \in S, l \in DOMAIN t \ S : t[k] >= t[l]}}

Count(t, k) == IF k \in DOMAIN t THEN t[k] ELSE 0

\* Mutant of Updates: the run starts from nothing.
UpdatesCold(b, batch) ==
    LET known == {k \in Template : Kept(batch, k) > 0}
    IN  {[templates |-> t, total |-> Total(t), learned_runs |-> 1] :
            t \in Cuts([k \in known |-> Kept(batch, k)])}
\* update_baseline without decay, which no caller asks for.
Updates(b, batch) ==
    LET known == DOMAIN b.templates \cup {k \in Template : Kept(batch, k) > 0}
        sum   == [k \in known |-> Count(b.templates, k) + Kept(batch, k)]
    IN  {[templates |-> t, total |-> b.total + Total(sum) - Total(b.templates),
          learned_runs |-> b.learned_runs + 1] : t \in Cuts(sum)}

Init ==
    /\ path = 0 /\ tmp = 0 /\ files = <<>>
    /\ pc = [p \in Process |-> "idle"]
    /\ base = [p \in Process |-> Cold] /\ doc = [p \in Process |-> Cold]
    /\ fd = [p \in Process |-> 0]
    /\ lone = [p \in Process |-> TRUE] /\ met = FALSE

\* load_baseline: a missing or unreadable file reads as no baseline.
Load(p) ==
    /\ pc[p] = "idle"
    /\ base' = [base EXCEPT ![p] = Published]
    /\ pc' = [pc EXCEPT ![p] = "detect"]
    /\ lone' = [q \in Process |-> IF q = p THEN Others(p) = {}
                                  ELSE pc[q] = "idle" /\ lone[q]]
    /\ met' = (met \/ Others(p) # {})
    /\ UNCHANGED <<path, tmp, files, doc, fd>>

\* Mutant of OpenTmp: the published file is opened in its place.
OpenInPlace(p) ==
    /\ pc[p] = "detect" /\ Len(files) < MaxSaves
    /\ \E batch \in Batches : \E d \in Updates(base[p], batch) :
          doc' = [doc EXCEPT ![p] = d]
    /\ files' = IF path = 0 THEN Append(files, Torn)
                ELSE [files EXCEPT ![path] = Torn]
    /\ path' = IF path = 0 THEN Len(files') ELSE path
    /\ tmp' = path'
    /\ fd' = [fd EXCEPT ![p] = path']
    /\ pc' = [pc EXCEPT ![p] = "dump"]
    /\ UNCHANGED <<base, lone, met>>
\* Detection ends, the baseline is updated in memory, and save_baseline opens
\* the temporary name: a file it finds there is truncated, whoever writes to it.
OpenTmp(p) ==
    /\ pc[p] = "detect" /\ Len(files) < MaxSaves
    /\ \E batch \in Batches : \E d \in Updates(base[p], batch) :
          doc' = [doc EXCEPT ![p] = d]
    /\ files' = IF tmp = 0 THEN Append(files, Torn)
                ELSE [files EXCEPT ![tmp] = Torn]
    /\ tmp' = IF tmp = 0 THEN Len(files') ELSE tmp
    /\ fd' = [fd EXCEPT ![p] = tmp']
    /\ pc' = [pc EXCEPT ![p] = "dump"]
    /\ UNCHANGED <<path, base, lone, met>>

\* json.dump and close: over another writer's bytes, or mixed with them, the
\* file need not hold a document afterwards.
Dump(p) ==
    /\ pc[p] = "dump"
    /\ LET shared == files[fd[p]] # Torn
                     \/ \E q \in Others(p) : pc[q] = "dump" /\ fd[q] = fd[p]
       IN  \E c \in {doc[p]} \cup (IF shared THEN {Torn} ELSE {}) :
              files' = [files EXCEPT ![fd[p]] = c]
    /\ pc' = [pc EXCEPT ![p] = "replace"]
    /\ UNCHANGED <<path, tmp, base, doc, fd, lone, met>>

\* The run is over, and what it held with it.
Leave(p) ==
    /\ pc' = [pc EXCEPT ![p] = "idle"]
    /\ base' = [base EXCEPT ![p] = Cold] /\ doc' = [doc EXCEPT ![p] = Cold]
    /\ fd' = [fd EXCEPT ![p] = 0]

\* os.replace: it publishes whatever file has the temporary name now; when
\* another process has renamed it away, the OSError is reported and swallowed.
Replace(p) ==
    /\ pc[p] = "replace"
    /\ IF tmp = 0 THEN UNCHANGED <<path, tmp>> ELSE path' = tmp /\ tmp' = 0
    /\ Leave(p)
    /\ UNCHANGED <<files, lone, met>>

\* The process dies, or its analysis ends with an exception, before it saved.
Die(p) ==
    /\ pc[p] # "idle"
    /\ Leave(p)
    /\ UNCHANGED <<path, tmp, files, lone, met>>

Next == \E p \in Process :
            Load(p) \/ OpenTmp(p) \/ Dump(p) \/ Replace(p) \/ Die(p)

Spec == Init /\ [][Next]_vars
----------------------------------------------------------------------------
Documents == {files[i] : i \in DOMAIN files} \ {Torn}

TypeOK ==
    /\ path \in 0 .. Len(files) /\ tmp \in 0 .. Len(files)
    /\ \A p \in Process : pc[p] \in {"idle", "detect", "dump", "replace"}
                          /\ fd[p] \in 0 .. Len(files)
    /\ \A d \in Documents : DOMAIN d.templates \subseteq Template

\* A crash at any point of a save costs at most that run: unless two runs have
\* overlapped, a published name leads to a readable document.
CrashLeavesReadable == path # 0 /\ ~met => Published # Torn

\* "never learn from an anomaly": a template that is flagged wherever it occurs
\* enters no document, the total counts every learned line, and the cut to
\* _MAX_TEMPLATES loses templates but not the total.
LearnsNormalOnly ==
    \A d \in Documents :
        /\ \A k \in DOMAIN d.templates :
              \E b \in Batches : \E i \in DOMAIN b : b[i].key = k /\ ~b[i].flagged
        /\ Cardinality(DOMAIN d.templates) <= MaxTemplates
        /\ d.total >= Total(d.templates)

\* "the next run is smarter": a run that no other overlapped adds itself to
\* everything the runs before it had published.
LoneRunAddsItself ==
    [][\A p \in Process : pc[p] = "replace" /\ pc'[p] = "idle" /\ path' # path /\ lone[p]
         => /\ Published'.learned_runs = Published.learned_runs + 1
            /\ Published'.total >= Published.total]_vars
============================================================================
