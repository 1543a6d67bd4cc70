---------------------------- MODULE StreamParser ----------------------------
(***************************************************************************)
(* StreamParser and sniff_format (detection/parser.py): one unfinished     *)
(* entry with its continuation lines, and a format that sticks until a     *)
(* line of another one comes.  The regular expressions are facts about a   *)
(* line: whether it is blank, whether it looks like a continuation, which  *)
(* formats it passes for while they are sticky, which one detect_format    *)
(* tells, and by which ones parse_line gets more of it than its text.      *)
(***************************************************************************)
EXTENDS Naturals, Sequences, FiniteSets, FiniteSetsExt, SequencesExt

CONSTANTS
    Line,             \* lines: [blank, continues, fits, detected, parses]
    Format,           \* the formats but for the catch-all "PLAINTEXT"
    MaxContinuation,  \* _MAX_CONTINUATION
    MaxLines          \* bound: lines fed

VARIABLES
    forced_fmt, sticky, first_format,  \* formats, or "none"
    pending,                           \* <<>> or <<entry>>: [lines, fmt]
    pending_continuations, stats,
    fed, out                           \* history: lines not blank, entries

vars == <<forced_fmt, sticky, first_format, pending, pending_continuations, stats, fed, out>>

Init ==
    /\ forced_fmt \in Format \cup {"none"} /\ sticky = forced_fmt
    /\ first_format = "none" /\ pending = <<>> /\ pending_continuations = 0
    /\ stats = [lines |-> 0, blank |-> 0, continuations |-> 0, fallback |-> 0,
                format_switches |-> 0]
    /\ fed = <<>> /\ out = <<>>

\* _format_for, which forgets nothing: a line that is plain text is taken for one
\* of the sticky format.
FormatFor(line) ==
    IF forced_fmt # "none" THEN forced_fmt
    ELSE IF sticky \in line.fits \/ (line.detected = "PLAINTEXT" /\ sticky # "none") THEN sticky
    ELSE line.detected

\* Mutant of Sticks: the first format that was found stays.
SticksFirst(fmt) == IF sticky = "none" /\ fmt # "PLAINTEXT" THEN fmt ELSE sticky
Sticks(fmt) == IF fmt = "PLAINTEXT" THEN sticky ELSE fmt

Blank(line) ==
    /\ line.blank
    /\ stats' = [stats EXCEPT !.lines = @ + 1, !.blank = @ + 1]
    /\ UNCHANGED <<forced_fmt, sticky, first_format, pending, pending_continuations, fed, out>>

\* Mutant of Continues: lines are glued to an entry that was flushed.
ContinuesAlways(line) == line.continues /\ pending_continuations < MaxContinuation
Continues(line) ==
    pending # <<>> /\ pending_continuations < MaxContinuation /\ line.continues

Continue(line) ==
    /\ ~line.blank /\ Continues(line)
    /\ pending' = [i \in DOMAIN pending |->
                      [pending[i] EXCEPT !.lines = Append(@, line)]]
    /\ pending_continuations' = pending_continuations + 1
    /\ stats' = [stats EXCEPT !.lines = @ + 1, !.continuations = @ + 1]
    /\ fed' = Append(fed, line)
    /\ UNCHANGED <<forced_fmt, sticky, first_format, out>>

Begin(line) ==
    LET fmt == FormatFor(line)
    IN  /\ ~line.blank /\ ~Continues(line)
        /\ sticky' = Sticks(fmt)
        /\ first_format' = IF first_format = "none" THEN fmt ELSE first_format
        /\ pending' = <<[lines |-> <<line>>, fmt |-> fmt]>>
        /\ pending_continuations' = 0
        /\ stats' = [stats EXCEPT
              !.lines = @ + 1,
              !.fallback = IF fmt \in line.parses THEN @ ELSE @ + 1,
              !.format_switches = IF sticky # "none" /\ sticky' # sticky THEN @ + 1 ELSE @]
        /\ fed' = Append(fed, line)
        /\ out' = out \o pending
        /\ UNCHANGED forced_fmt

Feed ==
    /\ stats.lines < MaxLines
    /\ \E line \in Line : Blank(line) \/ Continue(line) \/ Begin(line)

\* Its caller may go on feeding afterwards: the live detector does.
Flush ==
    /\ pending # <<>>
    /\ out' = out \o pending /\ pending' = <<>>
    /\ UNCHANGED <<forced_fmt, sticky, first_format, pending_continuations, stats, fed>>

Next == Feed \/ Flush

Spec == Init /\ [][Next]_vars

\* sniff_format over lines that are not blank: the most frequent format, the
\* first of equals; but plain text gives way to a format with 40 % of the lines.
Hits(lines, f) == Cardinality({i \in DOMAIN lines : lines[i].detected = f})
FirstOf(lines, f) == Min({i \in DOMAIN lines : lines[i].detected = f})
Ranked(lines, F) ==
    CHOOSE f \in F : \A g \in F \ {f} :
        \/ Hits(lines, f) > Hits(lines, g)
        \/ Hits(lines, f) = Hits(lines, g) /\ FirstOf(lines, f) < FirstOf(lines, g)
SniffFormat(lines) ==
    LET Seen   == {lines[i].detected : i \in DOMAIN lines}
        Strong == {f \in Seen \ {"PLAINTEXT"} : 5 * Hits(lines, f) >= 2 * Len(lines)}
    IN  IF Seen = {} THEN "PLAINTEXT"
        ELSE IF Ranked(lines, Seen) = "PLAINTEXT" /\ Strong # {} THEN Ranked(lines, Strong)
        ELSE Ranked(lines, Seen)
----------------------------------------------------------------------------
Entries == out \o pending
Heads == [i \in DOMAIN Entries |-> Head(Entries[i].lines)]

TypeOK ==
    /\ forced_fmt \in Format \cup {"none"} /\ sticky \in Format \cup {"none"}
    /\ first_format \in Format \cup {"none", "PLAINTEXT"} /\ Len(pending) <= 1
    /\ pending_continuations \in 0 .. MaxContinuation
    /\ \A i \in DOMAIN Entries : Len(Entries[i].lines) <= MaxContinuation + 1

\* Entries are the stream: every line that is not blank is in one of them, in
\* order, and stats add up to what was fed.
LinesKept ==
    /\ FlattenSeq([i \in DOMAIN Entries |-> Entries[i].lines]) = fed
    /\ stats.lines = stats.blank + stats.continuations + Len(Entries)
    /\ stats.fallback = Cardinality({i \in DOMAIN Entries :
                                        Entries[i].fmt \notin Heads[i].parses})

\* An entry is read in the format it was forced to, or in one that its first line
\* passes for; only plain text is read in a format that is not its own.
\* format_switches counts the neighbours read in different formats.
FormatsFit ==
    /\ \A i \in DOMAIN Entries :
          \/ Entries[i].fmt = forced_fmt
          \/ forced_fmt = "none" /\ Entries[i].fmt \in Heads[i].fits \cup {Heads[i].detected}
          \/ forced_fmt = "none" /\ Heads[i].detected = "PLAINTEXT"
    /\ stats.format_switches =
          Cardinality({i \in 2 .. Len(Entries) :
             /\ Entries[i].fmt # Entries[i - 1].fmt
             /\ Entries[i - 1].fmt # "PLAINTEXT"})

\* What sniff_format tells of a file is what most of its lines are; plain text
\* needs more than half of them.
SniffMajority ==
    LET f == SniffFormat(fed)
    IN  fed # <<>> =>
          /\ \A g \in Format : 2 * Hits(fed, g) > Len(fed) => f = g
          /\ f = "PLAINTEXT" => \A g \in Format : 2 * Hits(fed, g) < Len(fed)
=============================================================================
