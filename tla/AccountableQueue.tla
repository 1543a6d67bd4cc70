-------------------------- MODULE AccountableQueue ---------------------------
(***************************************************************************)
(* What the ingest queue promises (application/pipeline.py): it keeps the  *)
(* order of arrival, gives every line a fate exactly once - held, handed   *)
(* over or shed - and sheds no protected line.                             *)
(***************************************************************************)
EXTENDS Sequences, SequencesExt

CONSTANTS Items,         \* the lines that may ever be offered
          IsProtected(_) \* whether a line must never be shed

VARIABLES held,       \* the lines waiting, in order
          delivered,  \* the lines handed over, in order
          shed        \* the lines dropped

vars == <<held, delivered, shed>>

Init == held = <<>> /\ delivered = <<>> /\ shed = {}

Fresh(x) == x \in Items \ (ToSet(held) \cup ToSet(delivered) \cup shed)

Accept(x) == /\ Fresh(x)
             /\ held' = Append(held, x)
             /\ UNCHANGED <<delivered, shed>>

Refuse(x) == /\ Fresh(x)
             /\ ~IsProtected(x)
             /\ shed' = shed \cup {x}
             /\ UNCHANGED <<held, delivered>>

\* A newcomer takes the place of a held line.
Displace(k, x) == /\ Fresh(x)
                  /\ ~IsProtected(held[k])
                  /\ held' = Append(RemoveAt(held, k), x)
                  /\ shed' = shed \cup {held[k]}
                  /\ UNCHANGED delivered

Deliver == /\ held # <<>>
           /\ delivered' = Append(delivered, Head(held))
           /\ held' = Tail(held)
           /\ UNCHANGED shed

Next == \/ \E x \in Items : Accept(x) \/ Refuse(x)
        \/ \E x \in Items, k \in DOMAIN held : Displace(k, x)
        \/ Deliver

Spec == Init /\ [][Next]_vars
==============================================================================
