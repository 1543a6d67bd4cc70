------------------------- MODULE SheddingQueueProofs -------------------------
(***************************************************************************)
(* Proofs about the ingest queue, for any number of ingest and detection   *)
(* threads, any size, policy and sample rate, and any mix of timeouts.     *)
(*                                                                         *)
(* The invariant has two halves.  Lines says where each line is: the lines *)
(* of one producer grow along delivered, then q, then the put it sleeps    *)
(* in, so that none is in two places.  Waits says that the lists of        *)
(* waiters and the threads' states agree, and counts the threads that have *)
(* been released and not yet had their turn.                               *)
(***************************************************************************)
EXTENDS SheddingQueue, CountingLemmas

\* The lines that have left their put.
Seen == ToSet(q) \cup ToSet(delivered) \cup shed

\* x is the newest line of p.
Latest(p, x) ==
    x \in Items /\ x.from = p /\ \A y \in Seen : y.from = p => y.id < x.id

\* The lines of one producer lie in order, those delivered before those held.
Ordered(d, w) ==
    /\ \A i, j \in DOMAIN d : i < j /\ d[i].from = d[j].from => d[i].id < d[j].id
    /\ \A i, j \in DOMAIN w : i < j /\ w[i].from = w[j].from => w[i].id < w[j].id
    /\ \A i \in DOMAIN d, j \in DOMAIN w :
          d[i].from = w[j].from => d[i].id < w[j].id

Pending == \A p \in Producers : st[p] # "idle" =>
              Latest(p, item[p]) /\ item[p].id <= offered

Lines ==
    /\ \A y \in Seen : y \in Items /\ y.id <= offered
    /\ Pending
    /\ Ordered(delivered, q)
    /\ ToSet(q) \cap shed = {}
    /\ IsFiniteSet(shed) /\ drops = Cardinality(shed)
    /\ OverflowOnlyForProtected

States == {"idle", "waiting", "notified", "expired"}

\* Who is on a list sleeps, or its time is up; who sleeps is on the list.
Listed(w, T, s) ==
    /\ \A t \in T : t \in ToSet(w) => s[t] \in {"waiting", "expired"}
    /\ \A t \in T : s[t] = "waiting" => t \in ToSet(w)

\* The producers that are on their way to a free slot.  One whose time is up
\* counts once it has been taken off the list: it used up a notification.
Going == {p \in Producers : \/ st[p] = "notified"
                            \/ st[p] = "expired" /\ p \notin ToSet(notFull)}

\* While a producer sleeps, every free slot has one on its way to it.
SlotsCovered ==
    (\E p \in Producers : st[p] = "waiting") =>
        MaxSize <= Len(q) + Cardinality(Going)

Waits ==
    /\ Listed(notFull, Producers, st) /\ Listed(notEmpty, Consumers, st)
    /\ closed => \A t \in Threads : st[t] # "waiting"
    /\ patient => \A c \in Consumers : ~timed[c] /\ st[c] # "expired"
    /\ NoLostWakeup /\ SlotsCovered

QueueInv == TypeOK /\ Lines /\ Waits

-----------------------------------------------------------------------------
(* Condition variables.                                                    *)

LEMMA RestIs ==
    ASSUME NEW T, NEW w \in Seq(T), IsInjective(w)
    PROVE  /\ Rest(w) \in Seq(T) /\ IsInjective(Rest(w))
           /\ w = <<>> => ToSet(w) = {} /\ Rest(w) = w
           /\ w # <<>> => /\ Head(w) \in T /\ Head(w) \in ToSet(w)
                          /\ ToSet(Rest(w)) = ToSet(w) \ {Head(w)}
<1>1. CASE w = <<>> BY <1>1 DEF Rest, ToSet, IsInjective
<1>2. CASE w # <<>>
  <2> DEFINE r == Tail(w)
             k == 1
  <2>1. /\ r \in Seq(T) /\ Len(r) = Len(w) - 1
        /\ Head(w) = w[1] /\ 1 \in DOMAIN w /\ Head(w) \in T
        /\ \A j \in 1 .. Len(r) : r[j] = w[j + 1]
    BY <1>2, PlacesTail
  <2>2. Rest(w) = r BY <1>2 DEF Rest
  <2>3. /\ r \in Seq(T) /\ Len(r) = Len(w) - 1 /\ k \in DOMAIN w
        /\ \A j \in 1 .. Len(r) : r[j] = IF j < k THEN w[j] ELSE w[j + 1]
    BY <2>1
  <2> HIDE DEF r, k
  <2>4. IsInjective(r) /\ ToSet(r) = ToSet(w) \ {w[k]}
    BY <2>3, InjectiveRemove
  <2>5. Head(w) \in ToSet(w) BY <2>1 DEF ToSet
  <2> QED BY <1>2, <2>1, <2>2, <2>4, <2>5 DEF k
<1> QED BY <1>1, <1>2

\* What a notification does to the states.
LEMMA WokenIs ==
    ASSUME NEW T \in SUBSET Threads, NEW w \in Seq(T), IsInjective(w),
           NEW s \in [Threads -> States]
    PROVE  /\ Woken(w, s) \in [Threads -> States]
           /\ w = <<>> => Woken(w, s) = s
           /\ w # <<>> =>
                 /\ Head(w) \in T
                 /\ \A t \in Threads : t # Head(w) => Woken(w, s)[t] = s[t]
                 /\ Woken(w, s)[Head(w)] = IF s[Head(w)] = "waiting"
                                           THEN "notified" ELSE s[Head(w)]
<1>1. CASE w = <<>> BY <1>1 DEF Woken
<1>2. CASE w # <<>>
  <2>1. Head(w) \in T /\ Head(w) \in Threads BY <1>2, RestIs
  <2> QED BY <1>2, <2>1 DEF Woken, States
<1> QED BY <1>1, <1>2

\* The list and the states still agree.
LEMMA WokenListed ==
    ASSUME NEW T \in SUBSET Threads, NEW w \in Seq(T), IsInjective(w),
           NEW s \in [Threads -> States], Listed(w, T, s)
    PROVE  Listed(Rest(w), T, Woken(w, s))
<1>1. CASE w = <<>>
  <2>1. Rest(w) = w /\ Woken(w, s) = s BY <1>1 DEF Rest, Woken
  <2> QED BY <2>1
<1>2. CASE w # <<>>
  <2> DEFINE h == Head(w)
             u == Woken(w, s)
  <2>1. h \in T /\ h \in ToSet(w) /\ ToSet(Rest(w)) = ToSet(w) \ {h}
    BY <1>2, RestIs
  <2>2. /\ \A t \in Threads : t # h => u[t] = s[t]
        /\ u[h] = IF s[h] = "waiting" THEN "notified" ELSE s[h]
    BY <1>2, WokenIs
  <2> HIDE DEF h, u
  <2>3. Listed(Rest(w), T, u) BY <2>1, <2>2 DEF Listed
  <2> QED BY <2>3 DEF u
<1> QED BY <1>1, <1>2

\* A thread that begins to wait is put on the list.
LEMMA WaitListed ==
    ASSUME NEW T, NEW w \in Seq(T), IsInjective(w), NEW r \in Seq(T),
           NEW p, p \notin ToSet(w),
           Len(r) = Len(w) + 1, r[Len(w) + 1] = p,
           \A i \in 1 .. Len(w) : r[i] = w[i]
    PROVE  IsInjective(r) /\ ToSet(r) = ToSet(w) \cup {p}
<1>1. IsInjective(r) BY InjectiveAppend
<1>2. ToSet(r) = ToSet(w) \cup {p} BY ToSetAppend
<1> QED BY <1>1, <1>2

\* A thread that leaves is taken off the list.
LEMMA LeaveListed ==
    ASSUME NEW T, NEW w \in Seq(T), IsInjective(w), NEW p
    PROVE  /\ RemoveFirst(w, p) \in Seq(T) /\ IsInjective(RemoveFirst(w, p))
           /\ ToSet(RemoveFirst(w, p)) = ToSet(w) \ {p}
<1>1. CASE \E k \in DOMAIN w : w[k] = p /\ RemoveFirst(w, p) = RemoveAt(w, k)
  <2>1. PICK k \in DOMAIN w : w[k] = p /\ RemoveFirst(w, p) = RemoveAt(w, k)
    BY <1>1
  <2> DEFINE r == RemoveAt(w, k)
  <2>2. /\ r \in Seq(T) /\ Len(r) = Len(w) - 1
        /\ \A j \in 1 .. Len(r) : r[j] = IF j < k THEN w[j] ELSE w[j + 1]
    BY RemoveAtIs
  <2>3. RemoveFirst(w, p) = r BY <2>1
  <2> HIDE DEF r
  <2>4. IsInjective(r) /\ ToSet(r) = ToSet(w) \ {w[k]} BY <2>2, InjectiveRemove
  <2> QED BY <2>1, <2>2, <2>3, <2>4
<1>2. CASE (\A k \in DOMAIN w : w[k] # p) /\ RemoveFirst(w, p) = w
  BY <1>2 DEF ToSet
<1> QED BY <1>1, <1>2, RemoveFirstIs

-----------------------------------------------------------------------------
(* What becomes of the order when a line comes, is evicted, or is taken.   *)

LEMMA OrderedAppend ==
    ASSUME NEW d \in Seq(Items), NEW w \in Seq(Items), Ordered(d, w),
           NEW r \in Seq(Items), Len(r) = Len(w) + 1,
           \A i \in 1 .. Len(w) : r[i] = w[i],
           \A y \in ToSet(d) \cup ToSet(w) :
              y.from = r[Len(w) + 1].from => y.id < r[Len(w) + 1].id
    PROVE  Ordered(d, r)
<1> DEFINE n == Len(w) + 1
<1>1. /\ Len(w) \in Nat /\ DOMAIN w = 1 .. Len(w) /\ DOMAIN r = 1 .. n
      /\ DOMAIN d = 1 .. Len(d) /\ Len(d) \in Nat
  OBVIOUS
<1>2. /\ DOMAIN r = DOMAIN w \cup {n} /\ \A i \in DOMAIN w : r[i] = w[i] /\ i < n
      /\ n \in Nat
  BY <1>1
<1>3. /\ \A i \in DOMAIN d : d[i].from = r[n].from => d[i].id < r[n].id
      /\ \A i \in DOMAIN w : w[i].from = r[n].from => w[i].id < r[n].id
  BY DEF ToSet
<1>4. \A i \in DOMAIN r : ~(n < i) /\ i \in Nat BY <1>1
<1> HIDE DEF n
<1> QED BY <1>2, <1>3, <1>4 DEF Ordered

LEMMA OrderedRemove ==
    ASSUME NEW d \in Seq(Items), NEW w \in Seq(Items), Ordered(d, w),
           NEW r \in Seq(Items), NEW k \in DOMAIN w, Len(r) = Len(w) - 1,
           \A j \in 1 .. Len(r) : r[j] = IF j < k THEN w[j] ELSE w[j + 1]
    PROVE  Ordered(d, r)
<1> DEFINE up == [j \in DOMAIN r |-> IF j < k THEN j ELSE j + 1]
<1>1. /\ Len(w) \in Nat /\ Len(r) \in Nat
      /\ DOMAIN w = 1 .. Len(w) /\ DOMAIN r = 1 .. Len(r)
      /\ k \in 1 .. Len(w) /\ k \in Nat
  OBVIOUS
<1>2. ASSUME NEW j \in DOMAIN r
      PROVE  up[j] \in DOMAIN w /\ r[j] = w[up[j]]
  <2>1. j \in 1 .. Len(r) /\ j \in Nat BY <1>1
  <2>2. CASE j < k BY <1>1, <2>1, <2>2
  <2>3. CASE ~(j < k) BY <1>1, <2>1, <2>3
  <2> QED BY <2>2, <2>3
<1>3. ASSUME NEW i \in DOMAIN r, NEW j \in DOMAIN r, i < j PROVE up[i] < up[j]
  <2>1. i \in Nat /\ j \in Nat BY <1>1
  <2> QED BY <1>1, <1>3, <2>1
<1> HIDE DEF up
<1>4. ASSUME NEW i \in DOMAIN r, NEW j \in DOMAIN r, i < j, r[i].from = r[j].from
      PROVE  r[i].id < r[j].id
  <2>1. up[i] \in DOMAIN w /\ up[j] \in DOMAIN w /\ up[i] < up[j]
    BY <1>2, <1>3, <1>4
  <2>2. r[i] = w[up[i]] /\ r[j] = w[up[j]] BY <1>2
  <2> QED BY <1>4, <2>1, <2>2 DEF Ordered
<1>5. ASSUME NEW i \in DOMAIN d, NEW j \in DOMAIN r, d[i].from = r[j].from
      PROVE  d[i].id < r[j].id
  <2>1. up[j] \in DOMAIN w /\ r[j] = w[up[j]] BY <1>2
  <2> QED BY <1>5, <2>1 DEF Ordered
<1> QED BY <1>4, <1>5 DEF Ordered

LEMMA OrderedDeliver ==
    ASSUME NEW d \in Seq(Items), NEW w \in Seq(Items), Ordered(d, w), w # <<>>,
           NEW e \in Seq(Items), Len(e) = Len(d) + 1, e[Len(d) + 1] = w[1],
           \A i \in 1 .. Len(d) : e[i] = d[i],
           NEW r \in Seq(Items), Len(r) = Len(w) - 1,
           \A j \in 1 .. Len(r) : r[j] = w[j + 1]
    PROVE  Ordered(e, r)
<1> DEFINE n == Len(d) + 1
<1>1. /\ Len(d) \in Nat /\ DOMAIN d = 1 .. Len(d) /\ DOMAIN e = 1 .. n
      /\ Len(w) \in Nat /\ DOMAIN w = 1 .. Len(w)
      /\ Len(r) \in Nat /\ DOMAIN r = 1 .. Len(r)
  OBVIOUS
<1>2. 1 \in DOMAIN w BY <1>1, EmptySeq
<1>3. /\ DOMAIN e = DOMAIN d \cup {n} /\ \A i \in DOMAIN d : e[i] = d[i]
      /\ e[n] = w[1] /\ \A i \in DOMAIN e : ~(n < i)
  BY <1>1
<1>4. \A j \in DOMAIN r : r[j] = w[j + 1] /\ j + 1 \in DOMAIN w /\ 1 < j + 1
  BY <1>1
<1>5. \A i, j \in DOMAIN r : i < j => i + 1 < j + 1 BY <1>1
<1> HIDE DEF n
<1>6. ASSUME NEW i \in DOMAIN e, NEW j \in DOMAIN e, i < j, e[i].from = e[j].from
      PROVE  e[i].id < e[j].id
  <2>1. i \in DOMAIN d BY <1>3, <1>6
  <2>2. CASE j \in DOMAIN d BY <1>3, <1>6, <2>1, <2>2 DEF Ordered
  <2>3. CASE j = n BY <1>2, <1>3, <1>6, <2>1, <2>3 DEF Ordered
  <2> QED BY <1>3, <2>2, <2>3
<1>7. ASSUME NEW i \in DOMAIN r, NEW j \in DOMAIN r, i < j, r[i].from = r[j].from
      PROVE  r[i].id < r[j].id
  BY <1>4, <1>5, <1>7 DEF Ordered
<1>8. ASSUME NEW i \in DOMAIN e, NEW j \in DOMAIN r, e[i].from = r[j].from
      PROVE  e[i].id < r[j].id
  BY <1>2, <1>3, <1>4, <1>8 DEF Ordered
<1> QED BY <1>6, <1>7, <1>8 DEF Ordered

\* No line is held twice.
LEMMA HeldOnce ==
    ASSUME NEW d, NEW w \in Seq(Items), Ordered(d, w)
    PROVE  IsInjective(w)
<1> SUFFICES ASSUME NEW i \in DOMAIN w, NEW j \in DOMAIN w, w[i] = w[j], i < j
             PROVE  FALSE
  <2>1. \A i \in DOMAIN w : i \in Nat OBVIOUS
  <2>2. ASSUME NEW i \in DOMAIN w, NEW j \in DOMAIN w, w[i] = w[j], i # j
        PROVE  FALSE
    <3>1. i < j \/ j < i BY <2>1, <2>2
    <3> QED BY <2>2, <3>1
  <2> QED BY <2>2 DEF IsInjective
<1>1. w[i].id < w[j].id BY DEF Ordered
<1>2. w[i] \in Items BY ElementOfSeq
<1> QED BY <1>1, <1>2 DEF Items

-----------------------------------------------------------------------------
(* What a put does to the lines when it ends with line x of p, and what a  *)
(* get does.                                                               *)

Ordinary == {x \in Items : ~IsProtected(x)}

\* The producers that are inside a put afterwards were so before.
OthersWait(p) == \A r \in Producers :
    st'[r] # "idle" => r # p /\ st[r] # "idle" /\ item'[r] = item[r]

Ends(p, x) ==
    /\ Latest(p, x)
    /\ offered' \in Nat /\ offered <= offered' /\ x.id <= offered'
    /\ OthersWait(p)
    /\ UNCHANGED <<delivered, closed>>

\* r is w with one more value, x, at its end; or without its k-th value.
Longer(w, x, r) ==
    Len(r) = Len(w) + 1 /\ r[Len(w) + 1] = x /\ \A i \in 1 .. Len(w) : r[i] = w[i]
Shorter(w, k, r) ==
    /\ Len(r) = Len(w) - 1
    /\ \A j \in 1 .. Len(r) : r[j] = IF j < k THEN w[j] ELSE w[j + 1]

LEMMA LongerIs ==
    ASSUME NEW w \in Seq(Items), NEW r \in Seq(Items), NEW x, Longer(w, x, r)
    PROVE  /\ ToSet(r) = ToSet(w) \cup {x}
           /\ Cardinality(Places(r, Ordinary)) =
                 Cardinality(Places(w, Ordinary)) + Unit(x \in Ordinary)
<1>1. /\ Len(r) = Len(w) + 1 /\ r[Len(w) + 1] = x
      /\ \A i \in 1 .. Len(w) : r[i] = w[i]
  BY DEF Longer
<1>2. ToSet(r) = ToSet(w) \cup {x} BY <1>1, ToSetAppend
<1>3. Cardinality(Places(r, Ordinary)) =
         Cardinality(Places(w, Ordinary)) + Unit(r[Len(r)] \in Ordinary)
  BY <1>1, PlacesAppend
<1> QED BY <1>1, <1>2, <1>3

LEMMA ShorterIs ==
    ASSUME NEW w \in Seq(Items), IsInjective(w), NEW k \in DOMAIN w,
           NEW r \in Seq(Items), Shorter(w, k, r)
    PROVE  /\ ToSet(r) = ToSet(w) \ {w[k]}
           /\ Cardinality(Places(r, Ordinary)) =
                 Cardinality(Places(w, Ordinary)) - Unit(w[k] \in Ordinary)
<1>1. /\ Len(r) = Len(w) - 1
      /\ \A j \in 1 .. Len(r) : r[j] = IF j < k THEN w[j] ELSE w[j + 1]
  BY DEF Shorter
<1>2. ToSet(r) = ToSet(w) \ {w[k]} BY <1>1, InjectiveRemove
<1>3. Cardinality(Places(r, Ordinary)) =
         Cardinality(Places(w, Ordinary)) - Unit(w[k] \in Ordinary)
  BY <1>1, PlacesRemove
<1> QED BY <1>2, <1>3

LEMMA HeldItems ==
    ASSUME TypeOK
    PROVE  /\ q \in Seq(Items) /\ delivered \in Seq(Items)
           /\ Len(q) \in Nat /\ DOMAIN q = 1 .. Len(q)
           /\ ToSet(q) \subseteq Items
           /\ \A i \in DOMAIN q : q[i] \in Items /\ q[i] \in ToSet(q)
           /\ \A y \in Items : y.id \in Nat /\ y.from \in Producers
           /\ offered \in Nat
<1>1. q \in Seq(Items) /\ delivered \in Seq(Items) BY DEF TypeOK
<1>2. \A i \in DOMAIN q : q[i] \in Items BY <1>1, ElementOfSeq
<1>3. Len(q) \in Nat /\ DOMAIN q = 1 .. Len(q) BY <1>1
<1>4. offered \in Nat BY QueueAssumption DEF TypeOK
<1> QED BY <1>1, <1>2, <1>3, <1>4 DEF ToSet, Items

LEMMA LatestFresh ==
    ASSUME NEW p, NEW x, Latest(p, x)
    PROVE  x \notin Seen
BY DEF Latest, Items

\* The other puts' lines stay the newest of their producers.
LEMMA PendingKept ==
    ASSUME TypeOK, Lines, NEW p \in Producers, NEW x, Ends(p, x),
           Seen' \subseteq Seen \cup {x}
    PROVE  Pending' /\ \A y \in Seen' : y \in Items /\ y.id <= offered'
<1>1. /\ x \in Items /\ x.from = p /\ x.id <= offered'
      /\ offered' \in Nat /\ offered <= offered' /\ offered \in Nat
  BY HeldItems DEF Ends, Latest
<1>2. ASSUME NEW r \in Producers, st'[r] # "idle"
      PROVE  Latest(r, item[r])' /\ item'[r].id <= offered'
  <2>1. r # p /\ st[r] # "idle" /\ item'[r] = item[r]
    BY <1>2 DEF Ends, OthersWait
  <2>2. Latest(r, item[r]) /\ item[r].id <= offered
    BY <2>1 DEF Lines, Pending
  <2>3. item'[r] \in Items /\ item'[r].from = r /\ item'[r].id \in Nat
    BY <2>1, <2>2, HeldItems DEF Latest
  <2>4. \A y \in Seen' : y.from = r => y.id < item'[r].id
    BY <1>1, <2>1, <2>2 DEF Latest
  <2> QED BY <1>1, <2>1, <2>2, <2>3, <2>4 DEF Latest
<1>3. ASSUME NEW y \in Seen' PROVE y \in Items /\ y.id <= offered'
  <2>1. CASE y = x BY <1>1, <2>1
  <2>2. CASE y \in Seen
    <3>1. y \in Items /\ y.id <= offered BY <2>2 DEF Lines
    <3> QED BY <1>1, <3>1, HeldItems
  <2> QED BY <1>3, <2>1, <2>2
<1> QED BY <1>2, <1>3 DEF Pending

\* The lines of the queue that may be shed.
LEMMA OrdinaryPlaces ==
    ASSUME NEW w \in Seq(Items)
    PROVE  {k \in DOMAIN w : ~IsProtected(w[k])} = Places(w, Ordinary)
<1>1. \A k \in DOMAIN w : w[k] \in Items BY ElementOfSeq
<1> QED BY <1>1 DEF Places, Ordinary

LEMMA AcceptLines ==
    ASSUME TypeOK, Lines, NEW p \in Producers, NEW x, Ends(p, x), TypeOK',
           Longer(q, x, q'), shed' = shed, drops' = drops,
           Room \/ IsProtected(x) \/ closed
    PROVE  Lines'
<1>1. q \in Seq(Items) /\ q' \in Seq(Items) /\ delivered \in Seq(Items)
      /\ delivered' = delivered /\ closed' = closed /\ x \in Items
  BY DEF TypeOK, Ends, Latest
<1>2. /\ ToSet(q') = ToSet(q) \cup {x}
      /\ Cardinality(Places(q', Ordinary)) =
            Cardinality(Places(q, Ordinary)) + Unit(x \in Ordinary)
  BY <1>1, LongerIs
<1>3. Seen' = Seen \cup {x} BY <1>1, <1>2 DEF Seen
<1>4. Pending' /\ \A y \in Seen' : y \in Items /\ y.id <= offered'
  BY <1>3, PendingKept
<1>5. Ordered(delivered', q')
  <2>1. \A y \in ToSet(delivered) \cup ToSet(q) : y.from = x.from => y.id < x.id
    BY DEF Ends, Latest, Seen
  <2>2. Ordered(delivered, q) BY DEF Lines
  <2> QED BY <1>1, <2>1, <2>2, OrderedAppend DEF Longer
<1>6. ToSet(q') \cap shed' = {}
  <2>1. x \notin shed BY LatestFresh DEF Ends, Seen
  <2> QED BY <1>2, <2>1 DEF Lines
<1>7. OverflowOnlyForProtected'
  <2> SUFFICES ASSUME ~closed
               PROVE  Cardinality(Places(q', Ordinary)) <= MaxSize
    BY <1>1, OrdinaryPlaces DEF OverflowOnlyForProtected
  <2>1. /\ Cardinality(Places(q, Ordinary)) \in Nat
        /\ Cardinality(Places(q, Ordinary)) <= Len(q) /\ Len(q) \in Nat
    BY <1>1, PlacesFinite
  <2>2. Cardinality(Places(q, Ordinary)) <= MaxSize
    BY <1>1, OrdinaryPlaces DEF Lines, OverflowOnlyForProtected
  <2>3. CASE Room
    <3>1. Unit(x \in Ordinary) <= 1 /\ Unit(x \in Ordinary) \in Nat BY DEF Unit
    <3> QED BY <1>2, <2>1, <2>3, <3>1, QueueAssumption DEF Room
  <2>4. CASE IsProtected(x)
    <3>1. Unit(x \in Ordinary) = 0 BY <2>4 DEF Ordinary, Unit
    <3> QED BY <1>2, <2>1, <2>2, <3>1
  <2> QED BY <2>3, <2>4
<1>8. IsFiniteSet(shed') /\ drops' = Cardinality(shed') BY DEF Lines
<1> QED BY <1>4, <1>5, <1>6, <1>7, <1>8 DEF Lines

LEMMA RefuseLines ==
    ASSUME TypeOK, Lines, NEW p \in Producers, NEW x, Ends(p, x),
           q' = q, shed' = shed \cup {x}, drops' = drops + 1
    PROVE  Lines'
<1>1. delivered' = delivered /\ closed' = closed BY DEF Ends
<1>2. Seen' = Seen \cup {x} BY <1>1 DEF Seen
<1>3. Pending' /\ \A y \in Seen' : y \in Items /\ y.id <= offered'
  BY <1>2, PendingKept
<1>4. x \notin Seen BY LatestFresh DEF Ends
<1>5. ToSet(q') \cap shed' = {} BY <1>4 DEF Lines, Seen
<1>6. IsFiniteSet(shed') /\ drops' = Cardinality(shed')
  <2>1. x \notin shed /\ IsFiniteSet(shed) /\ drops = Cardinality(shed)
    BY <1>4 DEF Lines, Seen
  <2> QED BY <2>1, FS_AddElement
<1>7. OverflowOnlyForProtected' BY <1>1 DEF Lines, OverflowOnlyForProtected
<1>8. Ordered(delivered', q') BY <1>1 DEF Lines
<1> QED BY <1>3, <1>5, <1>6, <1>7, <1>8 DEF Lines

LEMMA DisplaceLines ==
    ASSUME TypeOK, Lines, NEW p \in Producers, NEW x, Ends(p, x), TypeOK',
           NEW k \in DOMAIN q, ~IsProtected(q[k]),
           NEW b \in Seq(Items), Shorter(q, k, b), Longer(b, x, q'),
           shed' = shed \cup {q[k]}, drops' = drops + 1
    PROVE  Lines'
<1>1. q \in Seq(Items) /\ q' \in Seq(Items) /\ delivered \in Seq(Items)
      /\ delivered' = delivered /\ closed' = closed /\ x \in Items
  BY DEF TypeOK, Ends, Latest
<1>2. Ordered(delivered, q) /\ IsInjective(q) BY <1>1, HeldOnce DEF Lines
<1>3. /\ ToSet(b) = ToSet(q) \ {q[k]}
      /\ Cardinality(Places(b, Ordinary)) =
            Cardinality(Places(q, Ordinary)) - Unit(q[k] \in Ordinary)
  BY <1>1, <1>2, ShorterIs
<1>4. /\ ToSet(q') = ToSet(b) \cup {x}
      /\ Cardinality(Places(q', Ordinary)) =
            Cardinality(Places(b, Ordinary)) + Unit(x \in Ordinary)
  BY <1>1, LongerIs
<1>5. q[k] \in ToSet(q) /\ q[k] \in Items BY HeldItems
<1>6. Seen' = Seen \cup {x} BY <1>1, <1>3, <1>4, <1>5 DEF Seen
<1>7. Pending' /\ \A y \in Seen' : y \in Items /\ y.id <= offered'
  BY <1>6, PendingKept
<1>8. Ordered(delivered', q')
  <2>1. Ordered(delivered, b) BY <1>1, <1>2, OrderedRemove DEF Shorter
  <2>2. \A y \in ToSet(delivered) \cup ToSet(b) : y.from = x.from => y.id < x.id
    BY <1>3 DEF Ends, Latest, Seen
  <2> QED BY <1>1, <2>1, <2>2, OrderedAppend DEF Longer
<1>9. x \notin Seen BY LatestFresh DEF Ends
<1>10. ToSet(q') \cap shed' = {} BY <1>3, <1>4, <1>5, <1>9 DEF Lines, Seen
<1>11. IsFiniteSet(shed') /\ drops' = Cardinality(shed')
  <2>1. q[k] \notin shed /\ IsFiniteSet(shed) /\ drops = Cardinality(shed)
    BY <1>5 DEF Lines
  <2> QED BY <2>1, FS_AddElement
<1>12. OverflowOnlyForProtected'
  <2> SUFFICES ASSUME ~closed
               PROVE  Cardinality(Places(q', Ordinary)) <= MaxSize
    BY <1>1, OrdinaryPlaces DEF OverflowOnlyForProtected
  <2>1. Unit(q[k] \in Ordinary) = 1 BY <1>5 DEF Unit, Ordinary
  <2>2. Unit(x \in Ordinary) <= 1 /\ Unit(x \in Ordinary) \in Nat BY DEF Unit
  <2>3. Cardinality(Places(q, Ordinary)) \in Nat BY <1>1, PlacesFinite
  <2>4. Cardinality(Places(q, Ordinary)) <= MaxSize
    BY <1>1, OrdinaryPlaces DEF Lines, OverflowOnlyForProtected
  <2> QED BY <1>3, <1>4, <2>1, <2>2, <2>3, <2>4, QueueAssumption
<1> QED BY <1>7, <1>8, <1>10, <1>11, <1>12 DEF Lines

\* A line that is taken leaves the queue for its consumer.
LEMMA DeliverLines ==
    ASSUME TypeOK, Lines, TypeOK', q # <<>>,
           Shorter(q, 1, q'), Longer(delivered, q[1], delivered'),
           shed' = shed, drops' = drops, closed' = closed, offered' = offered,
           \A r \in Producers : st'[r] # "idle" => st[r] # "idle", item' = item
    PROVE  Lines'
<1> DEFINE k == 1
           h == q[k]
<1>1. q \in Seq(Items) /\ q' \in Seq(Items)
      /\ delivered \in Seq(Items) /\ delivered' \in Seq(Items)
  BY DEF TypeOK
<1>2. k \in DOMAIN q /\ h \in Items /\ h \in ToSet(q)
  <2>1. 1 \in DOMAIN q BY <1>1, EmptySeq
  <2> QED BY <2>1, HeldItems
<1>3. Shorter(q, k, q') /\ Longer(delivered, h, delivered') OBVIOUS
<1>4. h = q[k] /\ h = q[1] OBVIOUS
<1> HIDE DEF k, h
<1>5. Ordered(delivered, q) /\ IsInjective(q) BY <1>1, HeldOnce DEF Lines
<1>6. ToSet(delivered') = ToSet(delivered) \cup {h} BY <1>1, <1>3, LongerIs
<1>7. /\ ToSet(q') = ToSet(q) \ {h}
      /\ Cardinality(Places(q', Ordinary)) =
            Cardinality(Places(q, Ordinary)) - Unit(h \in Ordinary)
  BY <1>1, <1>2, <1>3, <1>4, <1>5, ShorterIs
<1>8. Seen' = Seen BY <1>2, <1>6, <1>7 DEF Seen
<1>9. Pending' /\ \A y \in Seen' : y \in Items /\ y.id <= offered'
  BY <1>8 DEF Lines, Pending, Latest
<1>10. Ordered(delivered', q')
  <2>1. /\ Len(delivered') = Len(delivered) + 1
        /\ delivered'[Len(delivered) + 1] = q[1]
        /\ \A i \in 1 .. Len(delivered) : delivered'[i] = delivered[i]
    BY DEF Longer
  <2>2. /\ Len(q') = Len(q) - 1 /\ Len(q') \in Nat
        /\ \A j \in 1 .. Len(q') : q'[j] = q[j + 1]
    BY <1>1 DEF Shorter
  <2> QED BY <1>1, <1>5, <2>1, <2>2, OrderedDeliver
<1>11. ToSet(q') \cap shed' = {} BY <1>7 DEF Lines
<1>12. OverflowOnlyForProtected'
  <2> SUFFICES ASSUME ~closed
               PROVE  Cardinality(Places(q', Ordinary)) <= MaxSize
    BY <1>1, OrdinaryPlaces DEF OverflowOnlyForProtected
  <2>1. Unit(h \in Ordinary) \in Nat BY DEF Unit
  <2>2. Cardinality(Places(q, Ordinary)) \in Nat BY <1>1, PlacesFinite
  <2>3. Cardinality(Places(q, Ordinary)) <= MaxSize
    BY <1>1, OrdinaryPlaces DEF Lines, OverflowOnlyForProtected
  <2> QED BY <1>7, <2>1, <2>2, <2>3, QueueAssumption
<1>13. IsFiniteSet(shed') /\ drops' = Cardinality(shed') BY DEF Lines
<1> QED BY <1>9, <1>10, <1>11, <1>12, <1>13 DEF Lines

\* Nothing moves; somebody may begin to wait or stop waiting.
LEMMA LinesKept ==
    ASSUME Lines, UNCHANGED <<q, delivered, shed, drops>>, closed' = closed \/ closed',
           offered \in Nat, offered' \in Nat, offered <= offered', TypeOK, Pending'
    PROVE  Lines'
<1>1. Seen' = Seen BY DEF Seen
<1>2. \A y \in Seen' : y \in Items /\ y.id <= offered'
  <2>1. \A y \in Seen : y \in Items /\ y.id <= offered BY DEF Lines
  <2> QED BY <1>1, <2>1, HeldItems
<1>3. OverflowOnlyForProtected' BY DEF Lines, OverflowOnlyForProtected
<1> QED BY <1>2, <1>3 DEF Lines

-----------------------------------------------------------------------------
(* The end of a put.                                                       *)

\* x of p is admitted, is refused, or takes the place of the line at k.
Accepted(p, x) ==
    /\ Room \/ IsProtected(x) \/ closed
    /\ Admit(p, x, q) /\ UNCHANGED <<drops, shed>>
Refused(p, x) == ~Room /\ ~IsProtected(x) /\ Refuse(p, x)
Displaced(p, x, k) ==
    /\ ~Room
    /\ k \in DOMAIN q /\ ~IsProtected(q[k])
    /\ shed' = shed \cup {q[k]} /\ drops' = drops + 1
    /\ Admit(p, x, RemoveAt(q, k))
Ended(p, x) ==
    Accepted(p, x) \/ Refused(p, x) \/ \E k \in DOMAIN q : Displaced(p, x, k)

LEMMA EvictEnds ==
    ASSUME TypeOK, NEW p, NEW x, ~Room, ~IsProtected(x), EvictFor(p, x)
    PROVE  Ended(p, x)
<1>1. CASE Sheddable = {} BY <1>1 DEF EvictFor, Ended, Refused
<1>2. CASE Sheddable # {}
  <2> DEFINE S == Sheddable
             k == Oldest(S)
  <2>1. S \in SUBSET Nat /\ S # {}
    <3>1. DOMAIN q \subseteq Nat BY HeldItems
    <3> QED BY <1>2, <3>1 DEF Sheddable
  <2>2. shed' = shed \cup {q[k]} /\ drops' = drops + 1 /\ Admit(p, x, RemoveAt(q, k))
    BY <1>2 DEF EvictFor
  <2>3. k \in S
    <3> HIDE DEF S
    <3> QED BY <2>1, LeastElement DEF Oldest
  <2> HIDE DEF k
  <2>4. k \in DOMAIN q /\ ~IsProtected(q[k]) BY <2>3 DEF Sheddable
  <2> QED BY <2>2, <2>4 DEF Ended, Displaced
<1> QED BY <1>1, <1>2

LEMMA OverflowEnds ==
    ASSUME TypeOK, NEW p, NEW x, ~Room, Overflow(p, x)
    PROVE  Ended(p, x)
<1>1. CASE IsProtected(x)
  BY <1>1 DEF Overflow, Ended, Accepted
<1>2. CASE ~IsProtected(x)
  <2>1. Refuse(p, x) \/ EvictFor(p, x) BY <1>2 DEF Overflow
  <2>2. CASE Refuse(p, x) BY <1>2, <2>2 DEF Ended, Refused
  <2>3. CASE EvictFor(p, x) BY <1>2, <2>3, EvictEnds
  <2> QED BY <2>1, <2>2, <2>3
<1> QED BY <1>1, <1>2

LEMMA SettleEnds ==
    ASSUME NEW p, NEW x, Settle(p, x)
    PROVE  Ended(p, x)
BY DEF Settle, Ended, Accepted, Refused

\* What an admission does to the queue.
LEMMA AdmitIs ==
    ASSUME NEW w \in Seq(Items), NEW p, NEW x \in Items, Admit(p, x, w)
    PROVE  q' \in Seq(Items) /\ Longer(w, x, q')
<1>1. q' = Append(w, x) BY DEF Admit
<1> QED BY <1>1 DEF Longer

LEMMA ShortenedIs ==
    ASSUME NEW w \in Seq(Items), NEW k \in DOMAIN w
    PROVE  RemoveAt(w, k) \in Seq(Items) /\ Shorter(w, k, RemoveAt(w, k))
BY RemoveAtIs DEF Shorter

\* The lines after the end of a put.
LEMMA EndedItems ==
    ASSUME TypeOK, NEW p \in Producers, NEW x \in Items, Ended(p, x)
    PROVE  q' \in Seq(Items) /\ drops' \in Nat /\ shed' \subseteq Items
<1>1. q \in Seq(Items) /\ drops \in Nat /\ shed \subseteq Items BY DEF TypeOK
<1>2. CASE Accepted(p, x)
  <2>1. Admit(p, x, q) /\ drops' = drops /\ shed' = shed BY <1>2 DEF Accepted
  <2> QED BY <1>1, <2>1, AdmitIs
<1>3. CASE Refused(p, x) BY <1>1, <1>3 DEF Refused, Refuse
<1>4. ASSUME NEW k \in DOMAIN q, Displaced(p, x, k)
      PROVE  q' \in Seq(Items) /\ drops' \in Nat /\ shed' \subseteq Items
  <2>1. /\ Admit(p, x, RemoveAt(q, k)) /\ drops' = drops + 1
        /\ shed' = shed \cup {q[k]}
    BY <1>4 DEF Displaced
  <2>2. RemoveAt(q, k) \in Seq(Items) BY <1>1, ShortenedIs
  <2>3. q[k] \in Items BY HeldItems
  <2>4. q' \in Seq(Items) BY <2>1, <2>2, AdmitIs
  <2> QED BY <1>1, <2>1, <2>3, <2>4
<1> QED BY <1>2, <1>3, <1>4 DEF Ended

LEMMA EndedLines ==
    ASSUME TypeOK, Lines, NEW p \in Producers, NEW x, Ends(p, x), TypeOK',
           Ended(p, x)
    PROVE  Lines'
<1>1. q \in Seq(Items) /\ x \in Items BY DEF TypeOK, Ends, Latest
<1>2. CASE Accepted(p, x)
  <2>1. Admit(p, x, q) /\ shed' = shed /\ drops' = drops BY <1>2 DEF Accepted
  <2>2. Longer(q, x, q') BY <1>1, <2>1, AdmitIs
  <2>3. Room \/ IsProtected(x) \/ closed BY <1>2 DEF Accepted
  <2> QED BY <2>1, <2>2, <2>3, AcceptLines
<1>3. CASE Refused(p, x) BY <1>3, RefuseLines DEF Refused, Refuse
<1>4. ASSUME NEW k \in DOMAIN q, Displaced(p, x, k) PROVE Lines'
  <2> DEFINE b == RemoveAt(q, k)
  <2>1. /\ Admit(p, x, b) /\ drops' = drops + 1
        /\ shed' = shed \cup {q[k]} /\ ~IsProtected(q[k])
    BY <1>4 DEF Displaced
  <2>2. b \in Seq(Items) /\ Shorter(q, k, b) BY <1>1, ShortenedIs
  <2> HIDE DEF b
  <2>3. Longer(b, x, q') BY <1>1, <2>1, <2>2, AdmitIs
  <2> QED BY <2>1, <2>2, <2>3, DisplaceLines
<1> QED BY <1>2, <1>3, <1>4 DEF Ended

\* The threads after the end of a put: p is out, the other producers are where
\* they were, and the first consumer on the list may have been told.
LEMMA EndedThreads ==
    ASSUME TypeOK, Listed(notEmpty, Consumers, st),
           NEW p \in Producers, NEW x, Ended(p, x)
    PROVE  /\ st' \in [Threads -> States]
           /\ notEmpty' \in Seq(Consumers) /\ IsInjective(notEmpty')
           /\ Listed(notEmpty', Consumers, st')
           /\ st'[p] = "idle"
           /\ \A r \in Producers : r # p => st'[r] = st[r]
           /\ \A c \in Consumers :
                 st'[c] = st[c] \/ (st[c] = "waiting" /\ st'[c] = "notified")
<1> DEFINE s == [st EXCEPT ![p] = "idle"]
<1>1. /\ p \in Threads /\ p \notin Consumers
      /\ Consumers \in SUBSET Threads /\ Producers \subseteq Threads
      /\ \A r \in Producers : r \notin Consumers
  BY QueueAssumption DEF Threads
<1>2. /\ st \in [Threads -> States]
      /\ notEmpty \in Seq(Consumers) /\ IsInjective(notEmpty)
  BY DEF TypeOK, States
<1>3. /\ s \in [Threads -> States] /\ s[p] = "idle"
      /\ \A t \in Threads : t # p => s[t] = st[t]
  BY <1>1, <1>2 DEF States
<1>4. \/ \E w : Admit(p, x, w)
      \/ Refuse(p, x)
  BY DEF Ended, Accepted, Refused, Displaced
<1>5. \/ st' = Woken(notEmpty, s) /\ notEmpty' = Rest(notEmpty)
      \/ st' = s /\ notEmpty' = notEmpty
  BY <1>4 DEF Admit, NotifyNotEmpty, Refuse
<1> HIDE DEF s
<1>6. Listed(notEmpty, Consumers, s) BY <1>1, <1>3 DEF Listed
<1>7. CASE st' = s /\ notEmpty' = notEmpty BY <1>1, <1>2, <1>3, <1>6, <1>7
<1>8. CASE st' = Woken(notEmpty, s) /\ notEmpty' = Rest(notEmpty)
  <2>1. Rest(notEmpty) \in Seq(Consumers) /\ IsInjective(Rest(notEmpty))
    BY <1>2, RestIs
  <2>2. Listed(Rest(notEmpty), Consumers, Woken(notEmpty, s))
    BY <1>1, <1>2, <1>3, <1>6, WokenListed
  <2>3. /\ Woken(notEmpty, s) \in [Threads -> States]
        /\ notEmpty = <<>> => Woken(notEmpty, s) = s
        /\ notEmpty # <<>> =>
              /\ Head(notEmpty) \in Consumers
              /\ \A t \in Threads :
                    t # Head(notEmpty) => Woken(notEmpty, s)[t] = s[t]
              /\ Woken(notEmpty, s)[Head(notEmpty)] =
                    IF s[Head(notEmpty)] = "waiting" THEN "notified"
                    ELSE s[Head(notEmpty)]
    BY <1>1, <1>2, <1>3, WokenIs
  <2>4. CASE notEmpty = <<>> BY <1>1, <1>3, <1>8, <2>1, <2>2, <2>3, <2>4
  <2>5. CASE notEmpty # <<>>
    <3> DEFINE h == Head(notEmpty)
               u == Woken(notEmpty, s)
    <3>1. /\ h \in Consumers /\ \A t \in Threads : t # h => u[t] = s[t]
          /\ u[h] = IF s[h] = "waiting" THEN "notified" ELSE s[h]
          /\ u \in [Threads -> States] /\ st' = u
      BY <1>8, <2>3, <2>5
    <3> HIDE DEF h, u
    <3>2. u[p] = "idle" /\ \A r \in Producers : r # p => u[r] = st[r]
      BY <1>1, <1>3, <3>1
    <3>3. ASSUME NEW c \in Consumers
          PROVE  u[c] = st[c] \/ (st[c] = "waiting" /\ u[c] = "notified")
      <4>1. c \in Threads /\ c # p /\ s[c] = st[c] BY <1>1, <1>3
      <4> QED BY <3>1, <4>1
    <3> QED BY <1>8, <2>1, <2>2, <3>1, <3>2, <3>3
  <2> QED BY <2>4, <2>5
<1> QED BY <1>5, <1>7, <1>8

-----------------------------------------------------------------------------
(* Counting the threads that are on their way.                             *)

Notified == {c \in Consumers : st[c] = "notified"}

LEMMA OnTheirWay ==
    /\ IsFiniteSet(Notified) /\ Cardinality(Notified) \in Nat
    /\ IsFiniteSet(Going) /\ Cardinality(Going) \in Nat
<1>1. Notified \in SUBSET Consumers /\ Going \in SUBSET Producers
  BY DEF Notified, Going
<1>2. IsFiniteSet(Notified) /\ IsFiniteSet(Going)
  BY <1>1, QueueAssumption, FS_Subset
<1> QED BY <1>2, FS_CardinalityType

LEMMA OnTheirWayNext ==
    /\ IsFiniteSet(Notified') /\ Cardinality(Notified') \in Nat
    /\ IsFiniteSet(Going') /\ Cardinality(Going') \in Nat
<1>1. Notified' \in SUBSET Consumers /\ Going' \in SUBSET Producers
  BY DEF Notified, Going
<1>2. IsFiniteSet(Notified') /\ IsFiniteSet(Going')
  BY <1>1, QueueAssumption, FS_Subset
<1> QED BY <1>2, FS_CardinalityType

\* A set that gained a member, and one that may have lost one.
LEMMA OneMore ==
    ASSUME NEW A, NEW B, IsFiniteSet(A), IsFiniteSet(B), NEW h, h \notin A,
           A \cup {h} \subseteq B
    PROVE  Cardinality(A) + 1 <= Cardinality(B)
<1>1. IsFiniteSet(A \cup {h}) /\ Cardinality(A \cup {h}) = Cardinality(A) + 1
  BY FS_AddElement
<1>2. A \cup {h} \in SUBSET B OBVIOUS
<1>3. Cardinality(A \cup {h}) <= Cardinality(B) BY <1>2, FS_Subset
<1> QED BY <1>1, <1>3

LEMMA OneLess ==
    ASSUME NEW A, NEW B, IsFiniteSet(A), IsFiniteSet(B), NEW p, A \ {p} \subseteq B
    PROVE  Cardinality(A) <= Cardinality(B) + 1
<1>1. /\ IsFiniteSet(A \ {p})
      /\ Cardinality(A \ {p}) = IF p \in A THEN Cardinality(A) - 1 ELSE Cardinality(A)
  BY FS_RemoveElement
<1>2. A \ {p} \in SUBSET B OBVIOUS
<1>3. Cardinality(A \ {p}) <= Cardinality(B) BY <1>2, FS_Subset
<1>4. Cardinality(A) \in Nat /\ Cardinality(B) \in Nat BY FS_CardinalityType
<1> QED BY <1>1, <1>3, <1>4

LEMMA MoreOnTheirWay ==
    ASSUME NEW A, NEW B, IsFiniteSet(B), A \subseteq B
    PROVE  Cardinality(A) <= Cardinality(B)
<1>1. A \in SUBSET B OBVIOUS
<1> QED BY <1>1, FS_Subset

-----------------------------------------------------------------------------
(* Nobody sleeps in vain after a put has ended.                            *)

LEMMA EndedLength ==
    ASSUME TypeOK, NEW p \in Producers, NEW x \in Items, Ended(p, x)
    PROVE  /\ Len(q') \in Nat /\ Len(q) \in Nat
           /\ \/ Len(q') = Len(q) + 1 /\ (\E w : Admit(p, x, w))
              \/ Len(q') = Len(q) /\ MaxSize <= Len(q)
<1>1. q \in Seq(Items) /\ q' \in Seq(Items) BY EndedItems DEF TypeOK
<1>2. Len(q') \in Nat /\ Len(q) \in Nat BY <1>1
<1>3. ~Room => MaxSize <= Len(q) BY <1>2, QueueAssumption DEF Room
<1>4. CASE Accepted(p, x)
  <2>1. Admit(p, x, q) BY <1>4 DEF Accepted
  <2>2. Longer(q, x, q') BY <1>1, <2>1, AdmitIs
  <2> QED BY <1>2, <2>1, <2>2 DEF Longer
<1>5. CASE Refused(p, x) BY <1>2, <1>3, <1>5 DEF Refused, Refuse
<1>6. ASSUME NEW k \in DOMAIN q, Displaced(p, x, k)
      PROVE  Len(q') = Len(q) /\ MaxSize <= Len(q)
  <2> DEFINE b == RemoveAt(q, k)
  <2>1. Admit(p, x, b) /\ ~Room BY <1>6 DEF Displaced
  <2>2. b \in Seq(Items) /\ Shorter(q, k, b) BY <1>1, ShortenedIs
  <2> HIDE DEF b
  <2>3. Longer(b, x, q') BY <2>1, <2>2, AdmitIs
  <2> QED BY <1>2, <1>3, <2>1, <2>2, <2>3 DEF Longer, Shorter
<1> QED BY <1>2, <1>4, <1>5, <1>6 DEF Ended

LEMMA EndedWakes ==
    ASSUME TypeOK, Waits, NEW p \in Producers, NEW x \in Items, Ended(p, x),
           patient' = patient
    PROVE  NoLostWakeup'
<1> SUFFICES ASSUME patient, NEW c \in Consumers, st'[c] = "waiting"
             PROVE  Len(q') <= Cardinality(Notified')
  BY DEF NoLostWakeup, Notified
<1>1. Listed(notEmpty, Consumers, st) /\ NoLostWakeup
      /\ \A d \in Consumers : st[d] # "expired"
  BY DEF Waits
<1>2. /\ st'[c] = st[c] \/ (st[c] = "waiting" /\ st'[c] = "notified")
      /\ \A d \in Consumers :
            st'[d] = st[d] \/ (st[d] = "waiting" /\ st'[d] = "notified")
  BY <1>1, EndedThreads
<1>3. st[c] = "waiting" BY <1>2
<1>4. Len(q) <= Cardinality(Notified) BY <1>1, <1>3 DEF NoLostWakeup, Notified
<1>5. Notified \subseteq Notified' BY <1>2 DEF Notified
<1>6. /\ Len(q') \in Nat /\ Len(q) \in Nat
      /\ \/ Len(q') = Len(q) + 1 /\ (\E w : Admit(p, x, w))
         \/ Len(q') = Len(q) /\ MaxSize <= Len(q)
  BY EndedLength
<1>7. CASE Len(q') = Len(q)
  <2>1. Cardinality(Notified) <= Cardinality(Notified')
    BY <1>5, OnTheirWayNext, MoreOnTheirWay
  <2> QED BY <1>4, <1>6, <1>7, <2>1, OnTheirWay, OnTheirWayNext
<1>8. CASE Len(q') = Len(q) + 1 /\ \E w : Admit(p, x, w)
  <2> DEFINE s == [st EXCEPT ![p] = "idle"]
             h == Head(notEmpty)
  <2>1. /\ st \in [Threads -> States] /\ p \in Threads /\ p \notin Consumers
        /\ notEmpty \in Seq(Consumers) /\ IsInjective(notEmpty)
        /\ Consumers \in SUBSET Threads
    BY QueueAssumption DEF TypeOK, States, Threads
  <2>2. c \in ToSet(notEmpty) BY <1>1, <1>3 DEF Listed
  <2>3. notEmpty # <<>> BY <2>1, <2>2, RestIs
  <2>4. h \in Consumers /\ h \in ToSet(notEmpty) BY <2>1, <2>3, RestIs
  <2>5. st[h] = "waiting" BY <1>1, <2>4 DEF Listed
  <2>6. s \in [Threads -> States] /\ s[h] = "waiting"
    BY <2>1, <2>4, <2>5 DEF States
  <2>7. st' = Woken(notEmpty, s) BY <1>8 DEF Admit, NotifyNotEmpty
  <2> HIDE DEF s
  <2>8. Woken(notEmpty, s)[Head(notEmpty)] =
           IF s[Head(notEmpty)] = "waiting" THEN "notified" ELSE s[Head(notEmpty)]
    BY <2>1, <2>3, <2>6, WokenIs
  <2>9. st'[h] = "notified" BY <2>6, <2>7, <2>8
  <2> HIDE DEF h
  <2>10. h \notin Notified /\ Notified \cup {h} \subseteq Notified'
    BY <1>5, <2>4, <2>5, <2>9 DEF Notified
  <2>11. Cardinality(Notified) + 1 <= Cardinality(Notified')
    BY <2>10, OnTheirWay, OnTheirWayNext, OneMore
  <2> QED BY <1>4, <1>6, <1>8, <2>11, OnTheirWay, OnTheirWayNext
<1> QED BY <1>6, <1>7, <1>8

LEMMA EndedSlots ==
    ASSUME TypeOK, Waits, NEW p \in Producers, NEW x \in Items, Ended(p, x),
           ToSet(notFull') \subseteq ToSet(notFull)
    PROVE  SlotsCovered'
<1> SUFFICES ASSUME NEW r \in Producers, st'[r] = "waiting"
             PROVE  MaxSize <= Len(q') + Cardinality(Going')
  BY DEF SlotsCovered
<1>1. Listed(notEmpty, Consumers, st) /\ SlotsCovered BY DEF Waits
<1>2. st'[p] = "idle" /\ \A t \in Producers : t # p => st'[t] = st[t]
  BY <1>1, EndedThreads
<1>3. r # p /\ st[r] = "waiting" BY <1>2
<1>4. MaxSize <= Len(q) + Cardinality(Going) BY <1>1, <1>3 DEF SlotsCovered
<1>5. Going \ {p} \subseteq Going' BY <1>2 DEF Going
<1>6. /\ Len(q') \in Nat /\ Len(q) \in Nat
      /\ Len(q') = Len(q) + 1 \/ (Len(q') = Len(q) /\ MaxSize <= Len(q))
  BY EndedLength
<1>7. Cardinality(Going) <= Cardinality(Going') + 1
  BY <1>5, OnTheirWay, OnTheirWayNext, OneLess
<1> QED BY <1>4, <1>6, <1>7, OnTheirWay, OnTheirWayNext, QueueAssumption

-----------------------------------------------------------------------------
(* What each step does to the invariant.                                   *)

\* A put ends: what else it does is the same for its first and its last part.
LEMMA PutEnded ==
    ASSUME QueueInv, NEW p \in Producers, NEW x, Latest(p, x), Ended(p, x),
           offered' \in 0..MaxItems, offered <= offered', x.id <= offered',
           sample' \in 0..(SampleRate - 1),
           notFull' \in Seq(Producers), IsInjective(notFull'),
           ToSet(notFull') = ToSet(notFull) \ {p},
           timed' \in [Threads -> BOOLEAN], \A c \in Consumers : timed'[c] = timed[c],
           item' \in [Producers -> Items \cup {NoItem}],
           \A r \in Producers : r # p => item'[r] = item[r],
           UNCHANGED <<config, closed, delivered>>
    PROVE  QueueInv'
<1>1. TypeOK /\ Lines /\ Waits BY DEF QueueInv
<1>2. x \in Items BY DEF Latest
<1>3. /\ Listed(notFull, Producers, st) /\ Listed(notEmpty, Consumers, st)
      /\ closed => \A t \in Threads : st[t] # "waiting"
      /\ patient => \A c \in Consumers : ~timed[c] /\ st[c] # "expired"
  BY <1>1 DEF Waits
<1>4. /\ st' \in [Threads -> States]
      /\ notEmpty' \in Seq(Consumers) /\ IsInjective(notEmpty')
      /\ Listed(notEmpty', Consumers, st')
      /\ st'[p] = "idle"
      /\ \A r \in Producers : r # p => st'[r] = st[r]
      /\ \A c \in Consumers :
            st'[c] = st[c] \/ (st[c] = "waiting" /\ st'[c] = "notified")
  BY <1>1, <1>3, EndedThreads
<1>5. UNCHANGED <<policy, patient, closed, delivered>> BY DEF config
<1>6. TypeOK'
  <2>1. q' \in Seq(Items) /\ drops' \in Nat /\ shed' \subseteq Items
    BY <1>1, <1>2, EndedItems
  <2> QED BY <1>1, <1>4, <1>5, <2>1 DEF TypeOK, States
<1>7. Lines'
  <2>1. OthersWait(p) BY <1>4 DEF OthersWait
  <2>2. offered' \in Nat OBVIOUS
  <2>3. Ends(p, x) BY <1>5, <2>1, <2>2 DEF Ends
  <2> QED BY <1>1, <1>6, <2>3, EndedLines
<1>8. Waits'
  <2>1. Listed(notFull', Producers, st') BY <1>3, <1>4 DEF Listed
  <2>2. closed' => \A t \in Threads : st'[t] # "waiting"
    BY <1>3, <1>4, <1>5 DEF Threads
  <2>3. patient' => \A c \in Consumers : ~timed'[c] /\ st'[c] # "expired"
    BY <1>3, <1>4, <1>5
  <2>4. NoLostWakeup' BY <1>1, <1>2, <1>5, EndedWakes
  <2>5. SlotsCovered' BY <1>1, <1>2, EndedSlots
  <2> QED BY <1>4, <2>1, <2>2, <2>3, <2>4, <2>5 DEF Waits
<1> QED BY <1>6, <1>7, <1>8 DEF QueueInv

\* A put begins to wait, or waits again.
LEMMA PutWaits ==
    ASSUME QueueInv, NEW p \in Producers, NEW x, Latest(p, x), NEW b \in BOOLEAN,
           WaitNotFull(p, x, b), ~Room, ~closed, st[p] \in {"idle", "notified"},
           offered' \in 0..MaxItems, offered <= offered', x.id <= offered',
           UNCHANGED <<config, closed, sample, delivered>>
    PROVE  QueueInv'
<1>1. TypeOK /\ Lines /\ Waits BY DEF QueueInv
<1>2. /\ p \in Threads /\ p \notin Consumers /\ Consumers \subseteq Threads
      /\ x \in Items
  BY QueueAssumption DEF Threads, Latest
<1>3. /\ st \in [Threads -> States] /\ timed \in [Threads -> BOOLEAN]
      /\ item \in [Producers -> Items \cup {NoItem}]
      /\ notFull \in Seq(Producers) /\ IsInjective(notFull)
  BY <1>1 DEF TypeOK, States
<1>4. /\ st' \in [Threads -> States] /\ st'[p] = "waiting"
      /\ \A t \in Threads : t # p => st'[t] = st[t]
  BY <1>2, <1>3 DEF WaitNotFull, States
<1>5. timed' \in [Threads -> BOOLEAN] /\ \A c \in Consumers : timed'[c] = timed[c]
  BY <1>2, <1>3 DEF WaitNotFull
<1>6. /\ item' \in [Producers -> Items \cup {NoItem}] /\ item'[p] = x
      /\ \A r \in Producers : r # p => item'[r] = item[r]
  BY <1>2, <1>3 DEF WaitNotFull
<1>7. UNCHANGED <<q, notEmpty, drops, shed, policy, patient, closed, sample, delivered>>
  BY DEF WaitNotFull, config
<1>8. /\ Listed(notFull, Producers, st) /\ Listed(notEmpty, Consumers, st)
      /\ patient => \A c \in Consumers : ~timed[c] /\ st[c] # "expired"
      /\ NoLostWakeup
  BY <1>1 DEF Waits
<1>9. p \notin ToSet(notFull) BY <1>8 DEF Listed
<1>10. /\ notFull' \in Seq(Producers) /\ IsInjective(notFull')
       /\ ToSet(notFull') = ToSet(notFull) \cup {p}
  <2> DEFINE r == notFull'
  <2>1. notFull' = Append(notFull, p) BY DEF WaitNotFull
  <2>2. r \in Seq(Producers) /\ Len(r) = Len(notFull) + 1
        /\ r[Len(notFull) + 1] = p /\ \A i \in 1 .. Len(notFull) : r[i] = notFull[i]
    BY <1>3, <2>1
  <2> HIDE DEF r
  <2>3. IsInjective(r) /\ ToSet(r) = ToSet(notFull) \cup {p}
    BY <1>3, <1>9, <2>2, WaitListed
  <2> QED BY <2>2, <2>3 DEF r
<1>11. TypeOK' BY <1>1, <1>4, <1>5, <1>6, <1>7, <1>10 DEF TypeOK, States
<1>12. Lines'
  <2>1. Seen' = Seen BY <1>7 DEF Seen
  <2>2. offered \in Nat /\ offered' \in Nat BY <1>1, HeldItems
  <2>3. ASSUME NEW r \in Producers, st'[r] # "idle"
        PROVE  Latest(r, item[r])' /\ item'[r].id <= offered'
    <3>1. CASE r = p BY <1>6, <2>1, <3>1 DEF Latest
    <3>2. CASE r # p
      <4>1. st[r] # "idle" /\ item'[r] = item[r]
        BY <1>4, <1>6, <2>3, <3>2 DEF Threads
      <4>2. Latest(r, item[r]) /\ item[r].id <= offered
        BY <1>1, <4>1 DEF Lines, Pending
      <4>3. item[r].id \in Nat BY <1>1, <4>2, HeldItems DEF Latest
      <4> QED BY <2>1, <2>2, <4>1, <4>2, <4>3 DEF Latest
    <3> QED BY <3>1, <3>2
  <2>4. Pending' BY <2>3 DEF Pending
  <2> QED BY <1>1, <1>7, <2>2, <2>4, LinesKept
<1>13. Waits'
  <2>1. Listed(notFull', Producers, st')
    BY <1>2, <1>4, <1>8, <1>10 DEF Listed, Threads
  <2>2. \A c \in Consumers : st'[c] = st[c] BY <1>2, <1>4
  <2>3. Listed(notEmpty', Consumers, st') BY <1>7, <1>8, <2>2 DEF Listed
  <2>4. Notified' = Notified BY <2>2 DEF Notified
  <2>5. NoLostWakeup' BY <1>7, <1>8, <2>2, <2>4 DEF NoLostWakeup, Notified
  <2>6. SlotsCovered'
    <3>1. Len(q) \in Nat /\ MaxSize <= Len(q)
      BY <1>1, HeldItems, QueueAssumption DEF Room
    <3> QED BY <1>7, <3>1, OnTheirWayNext, QueueAssumption DEF SlotsCovered
  <2>7. patient' => \A c \in Consumers : ~timed'[c] /\ st'[c] # "expired"
    BY <1>5, <1>7, <1>8, <2>2
  <2> QED BY <1>7, <2>1, <2>3, <2>5, <2>6, <2>7 DEF Waits
<1> QED BY <1>11, <1>12, <1>13 DEF QueueInv

\* The line of a new put is the newest of its producer.
LEMMA NewIsLatest ==
    ASSUME QueueInv, NEW p \in Producers, NEW prot \in BOOLEAN, NEW b \in BOOLEAN,
           Put(p, prot, b)
    PROVE  Latest(p, [id |-> offered + 1, prot |-> prot, from |-> p])
<1> DEFINE x == [id |-> offered + 1, prot |-> prot, from |-> p]
<1>1. TypeOK /\ Lines BY DEF QueueInv
<1>2. offered < MaxItems /\ offered \in Nat BY <1>1, HeldItems DEF Put
<1>3. x \in Items /\ x.from = p /\ x.id = offered + 1
  BY <1>2, QueueAssumption DEF Items
<1>4. \A y \in Seen : y \in Items /\ y.id <= offered BY <1>1 DEF Lines
<1>5. \A y \in Seen : y.id < x.id BY <1>1, <1>2, <1>3, <1>4, HeldItems
<1> HIDE DEF x
<1>6. Latest(p, x) BY <1>3, <1>5 DEF Latest
<1> QED BY <1>6 DEF x

\* A new put ends or waits.
LEMMA PutEndsOrWaits ==
    ASSUME TypeOK, NEW p \in Producers, NEW prot \in BOOLEAN, NEW b \in BOOLEAN,
           Put(p, prot, b)
    PROVE  LET x == [id |-> offered + 1, prot |-> prot, from |-> p]
           IN  \/ /\ Ended(p, x)
                  /\ sample' \in 0..(SampleRate - 1)
                  /\ UNCHANGED <<timed, item, notFull>>
               \/ WaitNotFull(p, x, b) /\ ~Room /\ ~closed /\ UNCHANGED sample
<1> DEFINE x == [id |-> offered + 1, prot |-> prot, from |-> p]
<1>1. sample \in 0..(SampleRate - 1)
      /\ (sample + 1) % SampleRate \in 0..(SampleRate - 1)
  BY QueueAssumption DEF TypeOK
<1>2. CASE Room /\ Admit(p, x, q) /\ UNCHANGED <<sample, drops, shed, timed, item, notFull>>
  BY <1>1, <1>2 DEF Ended, Accepted
<1>3. CASE ~Room /\ Overflow(p, x) /\ UNCHANGED <<timed, item, notFull>>
  <2>1. Ended(p, x) BY <1>3, OverflowEnds
  <2>2. sample' = sample \/ sample' = (sample + 1) % SampleRate
    BY <1>3 DEF Overflow
  <2> QED BY <1>1, <1>3, <2>1, <2>2
<1>4. CASE ~Room /\ Settle(p, x) /\ UNCHANGED <<sample, timed, item, notFull>>
  BY <1>1, <1>4, SettleEnds
<1>5. CASE ~Room /\ ~closed /\ WaitNotFull(p, x, b) /\ UNCHANGED sample
  BY <1>5
<1> QED BY <1>2, <1>3, <1>4, <1>5 DEF Put

LEMMA PutStep ==
    ASSUME QueueInv, NEW p \in Producers, NEW prot \in BOOLEAN, NEW b \in BOOLEAN,
           Put(p, prot, b)
    PROVE  QueueInv'
<1> DEFINE x == [id |-> offered + 1, prot |-> prot, from |-> p]
<1>1. TypeOK /\ Waits BY DEF QueueInv
<1>2. /\ st[p] = "idle" /\ offered < MaxItems /\ offered' = offered + 1
      /\ UNCHANGED <<config, closed, delivered>>
  BY DEF Put
<1>3. /\ offered \in Nat /\ offered' \in 0..MaxItems /\ offered <= offered'
      /\ x.id <= offered'
  BY <1>1, <1>2, HeldItems, QueueAssumption
<1>4. Latest(p, x) BY NewIsLatest
<1>5. \/ /\ Ended(p, x)
         /\ sample' \in 0..(SampleRate - 1)
         /\ UNCHANGED <<timed, item, notFull>>
      \/ WaitNotFull(p, x, b) /\ ~Room /\ ~closed /\ UNCHANGED sample
  BY <1>1, PutEndsOrWaits
<1> HIDE DEF x
<1>6. CASE /\ Ended(p, x)
           /\ sample' \in 0..(SampleRate - 1)
           /\ UNCHANGED <<timed, item, notFull>>
  <2>1. /\ notFull \in Seq(Producers) /\ IsInjective(notFull)
        /\ timed \in [Threads -> BOOLEAN]
        /\ item \in [Producers -> Items \cup {NoItem}]
    BY <1>1 DEF TypeOK
  <2>2. ToSet(notFull) = ToSet(notFull) \ {p}
    BY <1>1, <1>2 DEF Waits, Listed
  <2> QED BY <1>2, <1>3, <1>4, <1>6, <2>1, <2>2, PutEnded
<1>7. CASE WaitNotFull(p, x, b) /\ ~Room /\ ~closed /\ UNCHANGED sample
  BY <1>2, <1>3, <1>4, <1>7, PutWaits
<1> QED BY <1>5, <1>6, <1>7

LEMMA PutResumesStep ==
    ASSUME QueueInv, NEW p \in Producers, PutResumes(p)
    PROVE  QueueInv'
<1> DEFINE x == item[p]
<1>1. TypeOK /\ Lines /\ Waits BY DEF QueueInv
<1>2. /\ st[p] \in {"notified", "expired"}
      /\ UNCHANGED <<config, closed, sample, offered, delivered>>
  BY DEF PutResumes
<1>3. Latest(p, x) /\ x.id <= offered BY <1>1, <1>2 DEF Lines, Pending
<1>4. /\ offered' \in 0..MaxItems /\ offered <= offered' /\ x.id <= offered'
      /\ sample' \in 0..(SampleRate - 1)
  BY <1>1, <1>2, <1>3, HeldItems DEF TypeOK
<1>5. CASE WaitsAgain(p) /\ WaitNotFull(p, x, FALSE)
  <2>1. ~Room /\ ~closed /\ st[p] \in {"idle", "notified"} BY <1>5 DEF WaitsAgain
  <2> HIDE DEF x
  <2> QED BY <1>2, <1>3, <1>4, <1>5, <2>1, PutWaits
<1>6. CASE /\ Settle(p, x)
           /\ notFull' = RemoveFirst(notFull, p)
           /\ item' = [item EXCEPT ![p] = NoItem]
           /\ timed' = [timed EXCEPT ![p] = FALSE]
  <2>1. Ended(p, x) BY <1>6, SettleEnds
  <2>2. /\ notFull \in Seq(Producers) /\ IsInjective(notFull)
        /\ timed \in [Threads -> BOOLEAN]
        /\ item \in [Producers -> Items \cup {NoItem}]
        /\ \A c \in Consumers : c # p
    BY <1>1, QueueAssumption DEF TypeOK
  <2>3. /\ notFull' \in Seq(Producers) /\ IsInjective(notFull')
        /\ ToSet(notFull') = ToSet(notFull) \ {p}
    BY <1>6, <2>2, LeaveListed
  <2>4. /\ timed' \in [Threads -> BOOLEAN]
        /\ \A c \in Consumers : timed'[c] = timed[c]
    BY <1>6, <2>2 DEF Threads
  <2>5. /\ item' \in [Producers -> Items \cup {NoItem}]
        /\ \A r \in Producers : r # p => item'[r] = item[r]
    BY <1>6, <2>2
  <2> HIDE DEF x
  <2> QED BY <1>2, <1>3, <1>4, <2>1, <2>3, <2>4, <2>5, PutEnded
<1> QED BY <1>5, <1>6 DEF PutResumes

\* A get takes a line: c is out, and the first producer on the list may have
\* been told.
LEMMA TakeStep ==
    ASSUME QueueInv, NEW c \in Consumers, q # <<>>, Take(c),
           st[c] \in {"idle", "notified"},
           timed' \in [Threads -> BOOLEAN],
           \A t \in Consumers : timed'[t] = timed[t] \/ ~timed'[t],
           UNCHANGED <<notEmpty, config, closed, sample, drops, item, offered, shed>>
    PROVE  QueueInv'
<1> DEFINE s == [st EXCEPT ![c] = "idle"]
<1>1. TypeOK /\ Lines /\ Waits BY DEF QueueInv
<1>2. /\ c \in Threads /\ c \notin Producers
      /\ Producers \in SUBSET Threads /\ Consumers \in SUBSET Threads
      /\ \A d \in Consumers : d \notin Producers
  BY QueueAssumption DEF Threads
<1>3. /\ st \in [Threads -> States]
      /\ notFull \in Seq(Producers) /\ IsInjective(notFull)
      /\ q \in Seq(Items) /\ delivered \in Seq(Items)
  BY <1>1 DEF TypeOK, States
<1>4. /\ s \in [Threads -> States] /\ s[c] = "idle"
      /\ \A t \in Threads : t # c => s[t] = st[t]
  BY <1>2, <1>3 DEF States
<1>5. /\ st' = Woken(notFull, s) /\ notFull' = Rest(notFull)
      /\ q' = Tail(q) /\ delivered' = Append(delivered, Head(q))
      /\ UNCHANGED <<policy, patient, notEmpty, closed, sample, drops, item, offered, shed>>
  BY DEF Take, NotifyNotFull, config
<1> HIDE DEF s
<1>6. /\ Listed(notFull, Producers, st) /\ Listed(notEmpty, Consumers, st)
      /\ closed => \A t \in Threads : st[t] # "waiting"
      /\ patient => \A d \in Consumers : ~timed[d] /\ st[d] # "expired"
      /\ NoLostWakeup /\ SlotsCovered
  BY <1>1 DEF Waits
<1>7. Listed(notFull, Producers, s) BY <1>2, <1>4, <1>6 DEF Listed
<1>8. /\ notFull' \in Seq(Producers) /\ IsInjective(notFull')
      /\ Listed(notFull', Producers, st') /\ st' \in [Threads -> States]
  BY <1>2, <1>3, <1>4, <1>5, <1>7, RestIs, WokenIs, WokenListed
<1>9. /\ \A d \in Consumers : st'[d] = s[d]
      /\ \A r \in Producers :
            st'[r] = st[r] \/ (st[r] = "waiting" /\ st'[r] = "notified")
  <2>1. CASE notFull = <<>>
    <3>1. st' = s BY <1>5, <2>1 DEF Woken
    <3> QED BY <1>2, <1>4, <3>1
  <2>2. CASE notFull # <<>>
    <3> DEFINE h == Head(notFull)
    <3>1. /\ h \in Producers /\ \A t \in Threads : t # h => st'[t] = s[t]
          /\ st'[h] = IF s[h] = "waiting" THEN "notified" ELSE s[h]
      BY <1>2, <1>3, <1>4, <1>5, <2>2, WokenIs
    <3> HIDE DEF h
    <3> QED BY <1>2, <1>4, <3>1
  <2> QED BY <2>1, <2>2
<1>10. /\ q' \in Seq(Items) /\ delivered' \in Seq(Items)
       /\ Len(q') = Len(q) - 1 /\ Len(q) \in Nat /\ Len(q') \in Nat
       /\ Shorter(q, 1, q') /\ Longer(delivered, q[1], delivered')
  <2>1. /\ q' \in Seq(Items) /\ Len(q') = Len(q) - 1
        /\ Head(q) = q[1] /\ 1 \in DOMAIN q /\ Head(q) \in Items
        /\ \A j \in 1 .. Len(q') : q'[j] = q[j + 1]
    BY <1>3, <1>5, PlacesTail
  <2>2. delivered' \in Seq(Items) /\ Longer(delivered, q[1], delivered')
    BY <1>3, <1>5, <2>1 DEF Longer
  <2>3. Shorter(q, 1, q')
    <3>1. ASSUME NEW j \in 1 .. Len(q')
          PROVE  q'[j] = IF j < 1 THEN q[j] ELSE q[j + 1]
      BY <2>1
    <3> QED BY <2>1, <3>1 DEF Shorter
  <2> QED BY <1>3, <2>1, <2>2, <2>3
<1>11. TypeOK' BY <1>1, <1>5, <1>8, <1>10 DEF TypeOK, States
<1>12. Lines'
  <2>1. \A r \in Producers : st'[r] # "idle" => st[r] # "idle" BY <1>9
  <2> QED BY <1>1, <1>5, <1>10, <1>11, <2>1, DeliverLines
<1>13. Listed(notEmpty', Consumers, st')
  <2>1. c \notin ToSet(notEmpty) BY <1>6 DEF Listed
  <2> QED BY <1>2, <1>4, <1>5, <1>6, <1>9, <2>1 DEF Listed
<1>14. NoLostWakeup'
  <2> SUFFICES ASSUME patient, NEW d \in Consumers, st'[d] = "waiting"
               PROVE  Len(q') <= Cardinality(Notified')
    BY <1>5 DEF NoLostWakeup, Notified
  <2>1. st[d] = "waiting" BY <1>2, <1>4, <1>9
  <2>2. Len(q) <= Cardinality(Notified) BY <1>6, <2>1 DEF NoLostWakeup, Notified
  <2>3. Notified \ {c} \subseteq Notified' BY <1>2, <1>4, <1>9 DEF Notified
  <2>4. Cardinality(Notified) <= Cardinality(Notified') + 1
    BY <2>3, OnTheirWay, OnTheirWayNext, OneLess
  <2> QED BY <1>10, <2>2, <2>4, OnTheirWay, OnTheirWayNext
<1>15. SlotsCovered'
  <2> SUFFICES ASSUME NEW r \in Producers, st'[r] = "waiting"
               PROVE  MaxSize <= Len(q') + Cardinality(Going')
    BY DEF SlotsCovered
  <2> DEFINE h == Head(notFull)
  <2>1. st[r] = "waiting" BY <1>9
  <2>2. r \in ToSet(notFull) BY <1>6, <2>1 DEF Listed
  <2>3. notFull # <<>> BY <1>3, <2>2, RestIs
  <2>4. /\ h \in Producers /\ h \in ToSet(notFull)
        /\ ToSet(notFull') = ToSet(notFull) \ {h}
    BY <1>3, <1>5, <2>3, RestIs
  <2>5. st'[h] = IF s[h] = "waiting" THEN "notified" ELSE s[h]
    BY <1>2, <1>3, <1>4, <1>5, <2>3, WokenIs
  <2> HIDE DEF h
  <2>6. st[h] \in {"waiting", "expired"} /\ s[h] = st[h]
    BY <1>2, <1>4, <1>6, <2>4 DEF Listed
  <2>7. h \notin Going BY <2>4, <2>6 DEF Going
  <2>8. h \in Going' BY <2>4, <2>5, <2>6 DEF Going
  <2>9. Going \subseteq Going' BY <1>9, <2>4 DEF Going
  <2>10. Cardinality(Going) + 1 <= Cardinality(Going')
    BY <2>7, <2>8, <2>9, OnTheirWay, OnTheirWayNext, OneMore
  <2>11. MaxSize <= Len(q) + Cardinality(Going) BY <1>6, <2>1 DEF SlotsCovered
  <2> QED BY <1>10, <2>10, <2>11, OnTheirWay, OnTheirWayNext, QueueAssumption
<1>16. closed' => \A t \in Threads : st'[t] # "waiting"
  BY <1>2, <1>4, <1>5, <1>6, <1>9 DEF Threads
<1>17. patient' => \A d \in Consumers : ~timed'[d] /\ st'[d] # "expired"
  BY <1>2, <1>4, <1>5, <1>6, <1>9
<1>18. Waits' BY <1>8, <1>13, <1>14, <1>15, <1>16, <1>17 DEF Waits
<1> QED BY <1>11, <1>12, <1>18 DEF QueueInv

\* Only threads and lists of waiters move.
LEMMA LinesAside ==
    ASSUME TypeOK, Lines, UNCHANGED <<q, delivered, shed, drops, item, offered>>,
           closed' = closed \/ closed',
           \A r \in Producers : st'[r] # "idle" => st[r] # "idle"
    PROVE  Lines'
<1>1. Seen' = Seen BY DEF Seen
<1>2. Pending' BY <1>1 DEF Lines, Pending, Latest
<1> QED BY <1>2, HeldItems, LinesKept

\* A get begins to wait, or waits again.
LEMMA GetWaits ==
    ASSUME QueueInv, NEW c \in Consumers, NEW b \in BOOLEAN, WaitNotEmpty(c, b),
           q = <<>>, ~closed, st[c] \in {"idle", "notified"}, patient => ~b,
           UNCHANGED <<config, closed, sample, drops, item, offered, shed>>
    PROVE  QueueInv'
<1>1. TypeOK /\ Lines /\ Waits BY DEF QueueInv
<1>2. /\ c \in Threads /\ c \notin Producers /\ Producers \subseteq Threads
      /\ Consumers \subseteq Threads
  BY QueueAssumption DEF Threads
<1>3. /\ st \in [Threads -> States] /\ timed \in [Threads -> BOOLEAN]
      /\ notEmpty \in Seq(Consumers) /\ IsInjective(notEmpty)
  BY <1>1 DEF TypeOK, States
<1>4. /\ st' \in [Threads -> States] /\ st'[c] = "waiting"
      /\ \A t \in Threads : t # c => st'[t] = st[t]
  BY <1>2, <1>3 DEF WaitNotEmpty, States
<1>5. /\ timed' \in [Threads -> BOOLEAN] /\ timed'[c] = b
      /\ \A t \in Threads : t # c => timed'[t] = timed[t]
  BY <1>2, <1>3 DEF WaitNotEmpty
<1>6. UNCHANGED <<q, notFull, delivered, policy, patient, closed, sample, drops, item,
                  offered, shed>>
  BY DEF WaitNotEmpty, config
<1>7. /\ Listed(notFull, Producers, st) /\ Listed(notEmpty, Consumers, st)
      /\ patient => \A d \in Consumers : ~timed[d] /\ st[d] # "expired"
      /\ SlotsCovered
  BY <1>1 DEF Waits
<1>8. c \notin ToSet(notEmpty) BY <1>7 DEF Listed
<1>9. /\ notEmpty' \in Seq(Consumers) /\ IsInjective(notEmpty')
      /\ ToSet(notEmpty') = ToSet(notEmpty) \cup {c}
  <2> DEFINE r == notEmpty'
  <2>1. notEmpty' = Append(notEmpty, c) BY DEF WaitNotEmpty
  <2>2. r \in Seq(Consumers) /\ Len(r) = Len(notEmpty) + 1
        /\ r[Len(notEmpty) + 1] = c
        /\ \A i \in 1 .. Len(notEmpty) : r[i] = notEmpty[i]
    BY <1>3, <2>1
  <2> HIDE DEF r
  <2>3. IsInjective(r) /\ ToSet(r) = ToSet(notEmpty) \cup {c}
    BY <1>3, <1>8, <2>2, WaitListed
  <2> QED BY <2>2, <2>3 DEF r
<1>10. \A r \in Producers : st'[r] = st[r] BY <1>2, <1>4
<1>11. TypeOK' BY <1>1, <1>4, <1>5, <1>6, <1>9 DEF TypeOK, States
<1>12. Lines' BY <1>1, <1>6, <1>10, LinesAside
<1>13. Waits'
  <2>1. Listed(notEmpty', Consumers, st') BY <1>2, <1>4, <1>7, <1>9 DEF Listed
  <2>2. Listed(notFull', Producers, st') BY <1>6, <1>7, <1>10 DEF Listed
  <2>3. NoLostWakeup'
    <3>1. Len(q') = 0 BY <1>6
    <3> QED BY <3>1, OnTheirWayNext DEF NoLostWakeup, Notified
  <2>4. Going' = Going BY <1>6, <1>10 DEF Going
  <2>5. SlotsCovered' BY <1>6, <1>7, <1>10, <2>4 DEF SlotsCovered
  <2>6. patient' => \A d \in Consumers : ~timed'[d] /\ st'[d] # "expired"
    BY <1>2, <1>4, <1>5, <1>6, <1>7
  <2> QED BY <1>6, <2>1, <2>2, <2>3, <2>5, <2>6 DEF Waits
<1> QED BY <1>11, <1>12, <1>13 DEF QueueInv

\* A consumer that does not wait leaves without a line.
LEMMA GetLeaves ==
    ASSUME QueueInv, NEW c \in Consumers, st' = [st EXCEPT ![c] = "idle"],
           timed' = [timed EXCEPT ![c] = FALSE], st[c] # "waiting",
           notEmpty' \in Seq(Consumers), IsInjective(notEmpty'),
           ToSet(notEmpty') = ToSet(notEmpty) \ {c},
           q = <<>> \/ st[c] = "expired",
           UNCHANGED <<config, q, closed, sample, drops, notFull, item, offered, histVars>>
    PROVE  QueueInv'
<1>1. TypeOK /\ Lines /\ Waits BY DEF QueueInv
<1>2. /\ c \in Threads /\ c \notin Producers /\ Producers \subseteq Threads
      /\ Consumers \subseteq Threads
  BY QueueAssumption DEF Threads
<1>3. st \in [Threads -> States] /\ timed \in [Threads -> BOOLEAN]
  BY <1>1 DEF TypeOK, States
<1>4. /\ st' \in [Threads -> States] /\ st'[c] = "idle"
      /\ \A t \in Threads : t # c => st'[t] = st[t]
  BY <1>2, <1>3 DEF States
<1>5. /\ timed' \in [Threads -> BOOLEAN]
      /\ \A t \in Threads : timed'[t] = timed[t] \/ ~timed'[t]
  BY <1>2, <1>3
<1>6. UNCHANGED <<q, notFull, delivered, policy, patient, closed, sample, drops, item,
                  offered, shed>>
  BY DEF config, histVars
<1>7. /\ Listed(notFull, Producers, st) /\ Listed(notEmpty, Consumers, st)
      /\ patient => \A d \in Consumers : ~timed[d] /\ st[d] # "expired"
      /\ closed => \A t \in Threads : st[t] # "waiting"
      /\ SlotsCovered
  BY <1>1 DEF Waits
<1>8. \A r \in Producers : st'[r] = st[r] BY <1>2, <1>4
<1>9. TypeOK' BY <1>1, <1>4, <1>5, <1>6 DEF TypeOK, States
<1>10. Lines' BY <1>1, <1>6, <1>8, LinesAside
<1>11. Waits'
  <2>1. Listed(notEmpty', Consumers, st') BY <1>2, <1>4, <1>7 DEF Listed
  <2>2. Listed(notFull', Producers, st') BY <1>6, <1>7, <1>8 DEF Listed
  <2>3. NoLostWakeup'
    <3>1. CASE q = <<>>
      <4>1. Len(q') = 0 BY <1>6, <3>1
      <4> QED BY <4>1, OnTheirWayNext DEF NoLostWakeup, Notified
    <3>2. CASE st[c] = "expired"
      <4>1. ~patient' BY <1>6, <1>7, <3>2
      <4> QED BY <4>1 DEF NoLostWakeup
    <3> QED BY <3>1, <3>2
  <2>4. Going' = Going BY <1>6, <1>8 DEF Going
  <2>5. SlotsCovered' BY <1>6, <1>7, <1>8, <2>4 DEF SlotsCovered
  <2>6. patient' => \A d \in Consumers : ~timed'[d] /\ st'[d] # "expired"
    BY <1>2, <1>4, <1>5, <1>6, <1>7
  <2>7. closed' => \A t \in Threads : st'[t] # "waiting" BY <1>4, <1>6, <1>7
  <2> QED BY <2>1, <2>2, <2>3, <2>5, <2>6, <2>7 DEF Waits
<1> QED BY <1>9, <1>10, <1>11 DEF QueueInv

LEMMA GetStep ==
    ASSUME QueueInv, NEW c \in Consumers, NEW b \in GetTimeouts, Get(c, b)
    PROVE  QueueInv'
<1>1. /\ st[c] = "idle" /\ timed \in [Threads -> BOOLEAN]
      /\ UNCHANGED <<config, closed, sample, drops, item, offered, shed>>
      /\ \/ q # <<>> /\ Take(c) /\ UNCHANGED <<notEmpty, timed>>
         \/ q = <<>> /\ ~closed /\ WaitNotEmpty(c, b)
  BY DEF Get, QueueInv, TypeOK
<1>2. b \in BOOLEAN /\ (patient => ~b) BY DEF GetTimeouts
<1> QED BY <1>1, <1>2, TakeStep, GetWaits

LEMMA GetResumesStep ==
    ASSUME QueueInv, NEW c \in Consumers, GetResumes(c)
    PROVE  QueueInv'
<1>1. /\ st[c] = "notified"
      /\ timed \in [Threads -> BOOLEAN] /\ c \in Threads
      /\ UNCHANGED <<config, closed, sample, drops, item, offered, shed>>
      /\ \/ /\ q # <<>> /\ Take(c)
            /\ timed' = [timed EXCEPT ![c] = FALSE] /\ UNCHANGED notEmpty
         \/ q = <<>> /\ ~closed /\ WaitNotEmpty(c, timed[c])
         \/ /\ q = <<>> /\ st' = [st EXCEPT ![c] = "idle"]
            /\ timed' = [timed EXCEPT ![c] = FALSE]
            /\ UNCHANGED <<q, notFull, notEmpty, delivered>>
  BY DEF GetResumes, QueueInv, TypeOK, Threads
<1>2. timed[c] \in BOOLEAN /\ (patient => ~timed[c]) BY <1>1 DEF QueueInv, Waits
<1>3. CASE /\ q # <<>> /\ Take(c)
           /\ timed' = [timed EXCEPT ![c] = FALSE] /\ UNCHANGED notEmpty
  <2>1. /\ timed' \in [Threads -> BOOLEAN]
        /\ \A t \in Consumers : timed'[t] = timed[t] \/ ~timed'[t]
    BY <1>1, <1>3 DEF Threads
  <2> QED BY <1>1, <1>3, <2>1, TakeStep
<1>4. CASE q = <<>> /\ ~closed /\ WaitNotEmpty(c, timed[c])
  BY <1>1, <1>2, <1>4, GetWaits
<1>5. CASE /\ q = <<>> /\ st' = [st EXCEPT ![c] = "idle"]
           /\ timed' = [timed EXCEPT ![c] = FALSE]
           /\ UNCHANGED <<q, notFull, notEmpty, delivered>>
  <2>1. /\ notEmpty \in Seq(Consumers) /\ IsInjective(notEmpty)
        /\ c \notin ToSet(notEmpty)
    BY <1>1 DEF QueueInv, TypeOK, Waits, Listed
  <2> QED BY <1>1, <1>5, <2>1, GetLeaves DEF histVars
<1> QED BY <1>1, <1>3, <1>4, <1>5

LEMMA GetGivesUpStep ==
    ASSUME QueueInv, NEW c \in Consumers, GetGivesUp(c)
    PROVE  QueueInv'
<1>1. notEmpty \in Seq(Consumers) /\ IsInjective(notEmpty)
  BY DEF QueueInv, TypeOK
<1>2. /\ RemoveFirst(notEmpty, c) \in Seq(Consumers)
      /\ IsInjective(RemoveFirst(notEmpty, c))
      /\ ToSet(RemoveFirst(notEmpty, c)) = ToSet(notEmpty) \ {c}
  BY <1>1, LeaveListed
<1> QED BY <1>2, GetLeaves DEF GetGivesUp

LEMMA ExpireStep ==
    ASSUME QueueInv, NEW t \in Threads, Expire(t)
    PROVE  QueueInv'
<1>1. TypeOK /\ Lines /\ Waits BY DEF QueueInv
<1>2. /\ st[t] = "waiting" /\ timed[t]
      /\ UNCHANGED <<policy, patient, q, closed, sample, drops, notFull, notEmpty,
                     timed, item, offered, delivered, shed>>
  BY DEF Expire, config, histVars
<1>3. /\ st' \in [Threads -> States] /\ st'[t] = "expired"
      /\ \A u \in Threads : u # t => st'[u] = st[u]
  BY <1>1 DEF Expire, TypeOK, States
<1>4. Producers \subseteq Threads /\ Consumers \subseteq Threads BY DEF Threads
<1>5. /\ Listed(notFull, Producers, st) /\ Listed(notEmpty, Consumers, st)
      /\ patient => \A d \in Consumers : ~timed[d] /\ st[d] # "expired"
      /\ closed => \A u \in Threads : st[u] # "waiting"
      /\ NoLostWakeup /\ SlotsCovered
  BY <1>1 DEF Waits
<1>6. TypeOK' BY <1>1, <1>2, <1>3 DEF TypeOK, States
<1>7. Lines'
  <2>1. \A r \in Producers : st'[r] # "idle" => st[r] # "idle"
    BY <1>2, <1>3, <1>4
  <2> QED BY <1>1, <1>2, <2>1, LinesAside
<1>8. Waits'
  <2>1. \A u \in Threads : st'[u] = "waiting" => st[u] = "waiting" BY <1>3
  <2>2. Listed(notFull', Producers, st') /\ Listed(notEmpty', Consumers, st')
    BY <1>2, <1>3, <1>4, <1>5 DEF Listed
  <2>3. Notified' = Notified BY <1>2, <1>3, <1>4 DEF Notified
  <2>4. NoLostWakeup'
    BY <1>2, <1>4, <1>5, <2>1, <2>3 DEF NoLostWakeup, Notified
  <2>5. Going' = Going
    <3>1. t \in Producers => t \in ToSet(notFull) BY <1>2, <1>5 DEF Listed
    <3> QED BY <1>2, <1>3, <1>4, <3>1 DEF Going
  <2>6. SlotsCovered' BY <1>2, <1>4, <1>5, <2>1, <2>5 DEF SlotsCovered
  <2>7. patient' => \A d \in Consumers : ~timed'[d] /\ st'[d] # "expired"
    BY <1>2, <1>3, <1>4, <1>5
  <2>8. closed' => \A u \in Threads : st'[u] # "waiting" BY <1>2, <1>5, <2>1
  <2> QED BY <2>2, <2>4, <2>6, <2>7, <2>8 DEF Waits
<1> QED BY <1>6, <1>7, <1>8 DEF QueueInv

LEMMA NobodyListed ==
    ASSUME NEW S, NEW r, r = <<>>
    PROVE  r \in Seq(S) /\ IsInjective(r) /\ ToSet(r) = {}
BY DEF IsInjective, ToSet

LEMMA CloseStep ==
    ASSUME QueueInv, Close
    PROVE  QueueInv'
<1>1. TypeOK /\ Lines /\ Waits BY DEF QueueInv
<1>2. /\ closed' = TRUE
      /\ UNCHANGED <<policy, patient, q, sample, drops, timed, item, offered,
                     delivered, shed>>
  BY DEF Close, config, histVars
<1>3. /\ st' \in [Threads -> States]
      /\ \A t \in Threads :
            st'[t] = IF st[t] = "waiting" THEN "notified" ELSE st[t]
  BY <1>1 DEF Close, TypeOK, States
<1>4. /\ notFull' \in Seq(Producers) /\ IsInjective(notFull') /\ ToSet(notFull') = {}
      /\ notEmpty' \in Seq(Consumers) /\ IsInjective(notEmpty')
      /\ ToSet(notEmpty') = {}
  BY NobodyListed DEF Close
<1>5. Producers \subseteq Threads /\ Consumers \subseteq Threads BY DEF Threads
<1>6. TypeOK' BY <1>1, <1>2, <1>3, <1>4 DEF TypeOK, States
<1>7. \A t \in Threads : st'[t] # "waiting" BY <1>3
<1>8. Lines'
  <2>1. \A r \in Producers : st'[r] # "idle" => st[r] # "idle" BY <1>3, <1>5
  <2> QED BY <1>1, <1>2, <2>1, LinesAside
<1>9. Waits'
  <2>1. Listed(notFull', Producers, st') /\ Listed(notEmpty', Consumers, st')
    BY <1>4, <1>5, <1>7 DEF Listed
  <2>2. NoLostWakeup' /\ SlotsCovered' BY <1>5, <1>7 DEF NoLostWakeup, SlotsCovered
  <2>3. patient' => \A d \in Consumers : ~timed'[d] /\ st'[d] # "expired"
    BY <1>1, <1>2, <1>3, <1>5 DEF Waits
  <2> QED BY <1>7, <2>1, <2>2, <2>3 DEF Waits
<1> QED BY <1>6, <1>8, <1>9 DEF QueueInv

LEMMA InitInv == Init => QueueInv
<1> SUFFICES ASSUME Init PROVE QueueInv
  OBVIOUS
<1>1. /\ ToSet(q) = {} /\ q \in Seq(Items) /\ q = <<>>
      /\ ToSet(delivered) = {} /\ delivered \in Seq(Items) /\ delivered = <<>>
      /\ notFull \in Seq(Producers) /\ IsInjective(notFull) /\ ToSet(notFull) = {}
      /\ notEmpty \in Seq(Consumers) /\ IsInjective(notEmpty) /\ ToSet(notEmpty) = {}
  BY NobodyListed DEF Init
<1>2. /\ \A t \in Threads : st[t] = "idle" /\ timed[t] = FALSE
      /\ Producers \subseteq Threads /\ Consumers \subseteq Threads
  BY DEF Init, Threads
<1>3. TypeOK
  <2>1. 0 \in 0..(SampleRate - 1) /\ 0 \in 0..MaxItems BY QueueAssumption
  <2> QED BY <1>1, <2>1 DEF Init, TypeOK
<1>4. Lines
  <2>1. DOMAIN q = {} /\ DOMAIN delivered = {} BY <1>1
  <2>2. Ordered(delivered, q) BY <2>1 DEF Ordered
  <2>3. Cardinality({k \in DOMAIN q : ~IsProtected(q[k])}) = 0
        /\ IsFiniteSet({}) /\ Cardinality({}) = 0
    BY <2>1, FS_EmptySet
  <2>4. OverflowOnlyForProtected
    BY <2>3, QueueAssumption DEF OverflowOnlyForProtected
  <2>5. shed = {} /\ drops = 0 BY DEF Init
  <2>6. Seen = {} BY <1>1, <2>5 DEF Seen
  <2>7. Pending BY <1>2 DEF Pending
  <2> QED BY <1>1, <2>2, <2>3, <2>4, <2>5, <2>6, <2>7 DEF Lines
<1>5. Waits
  <2>1. ~closed BY DEF Init
  <2> QED BY <1>1, <1>2, <2>1 DEF Waits, Listed, NoLostWakeup, SlotsCovered
<1> QED BY <1>3, <1>4, <1>5 DEF QueueInv

LEMMA StutterInv == QueueInv /\ UNCHANGED vars => QueueInv'
<1> SUFFICES ASSUME QueueInv, UNCHANGED vars PROVE QueueInv'
  OBVIOUS
<1>1. TypeOK /\ Lines /\ Waits BY DEF QueueInv
<1>2. UNCHANGED <<policy, patient, q, closed, sample, drops, notFull, notEmpty, st,
                  timed, item, offered, delivered, shed>>
  BY DEF vars, config, callVars, histVars
<1>3. TypeOK' BY <1>1, <1>2 DEF TypeOK
<1>4. Lines' BY <1>1, <1>2, LinesAside
<1>5. Waits'
  <2>1. Going' = Going BY <1>2 DEF Going
  <2>2. NoLostWakeup' /\ SlotsCovered'
    BY <1>1, <1>2, <2>1 DEF Waits, NoLostWakeup, SlotsCovered
  <2> QED BY <1>1, <1>2, <2>2 DEF Waits
<1> QED BY <1>3, <1>4, <1>5 DEF QueueInv

LEMMA StepInv == QueueInv /\ [Next]_vars => QueueInv'
<1> SUFFICES ASSUME QueueInv, [Next]_vars PROVE QueueInv'
  OBVIOUS
<1>1. ASSUME NEW p \in Producers, NEW prot \in BOOLEAN, NEW b \in BOOLEAN,
             Put(p, prot, b)
      PROVE  QueueInv'
  BY <1>1, PutStep
<1>2. ASSUME NEW c \in Consumers, NEW b \in GetTimeouts, Get(c, b)
      PROVE  QueueInv'
  BY <1>2, GetStep
<1>3. ASSUME NEW t \in Threads, Resumes(t) PROVE QueueInv'
  <2>1. CASE t \in Producers BY <1>3, <2>1, PutResumesStep DEF Resumes
  <2>2. CASE t \notin Producers
    <3>1. t \in Consumers /\ (GetResumes(t) \/ GetGivesUp(t))
      BY <1>3, <2>2 DEF Resumes, Threads
    <3> QED BY <3>1, GetResumesStep, GetGivesUpStep
  <2> QED BY <2>1, <2>2
<1>4. ASSUME NEW t \in Threads, Expire(t) PROVE QueueInv' BY <1>4, ExpireStep
<1>5. CASE Close BY <1>5, CloseStep
<1>6. CASE UNCHANGED vars BY <1>6, StutterInv
<1> QED BY <1>1, <1>2, <1>3, <1>4, <1>5, <1>6 DEF Next

-----------------------------------------------------------------------------
(* The theorems.                                                           *)

\* The inductive invariant of the queue.
THEOREM QueueInvariant == Spec => []QueueInv
BY InitInv, StepInv, PTL DEF Spec

\* The queue's state has its type: no thread is ever on a list twice.
THEOREM QueueTypeCorrect == Spec => []TypeOK
<1>1. QueueInv => TypeOK BY DEF QueueInv
<1> QED BY <1>1, QueueInvariant, PTL

\* drops.dropped is exactly the number of lines lost, only protected lines go
\* past the bound, and each producer's lines are handed over in its order.
THEOREM QueueAccounts == Spec => []LinesAccounted
<1>1. QueueInv => LinesAccounted
  BY DEF QueueInv, Lines, Ordered, LinesAccounted, DropsAccounted, PerProducerFifo
<1> QED BY <1>1, QueueInvariant, PTL

\* While a patient consumer sleeps every line has a consumer on its way, and
\* while a producer sleeps every free slot has a producer on its way.
THEOREM QueueWakesSleepers == Spec => []NobodySleepsInVain
<1>1. QueueInv => NobodySleepsInVain
  <2> SUFFICES ASSUME QueueInv PROVE NobodySleepsInVain
    OBVIOUS
  <2> DEFINE G == {p \in Producers : st[p] \in {"notified", "expired"}}
  <2>1. NoLostWakeup /\ SlotsCovered /\ Len(q) \in Nat
    BY HeldItems DEF QueueInv, Waits
  <2>2. G \in SUBSET Producers /\ Going \subseteq G BY DEF Going
  <2> HIDE DEF G
  <2>3. IsFiniteSet(G) BY <2>2, QueueAssumption, FS_Subset
  <2>4. Cardinality(Going) <= Cardinality(G) BY <2>2, <2>3, MoreOnTheirWay
  <2>5. Cardinality(G) \in Nat BY <2>3, FS_CardinalityType
  <2>6. (\E p \in Producers : st[p] = "waiting") => MaxSize <= Len(q) + Cardinality(G)
    BY <2>1, <2>4, <2>5, OnTheirWay, QueueAssumption DEF SlotsCovered
  <2> QED BY <2>1, <2>6 DEF NobodySleepsInVain, NoStuckProducer, G
<1> QED BY <1>1, QueueInvariant, PTL

-----------------------------------------------------------------------------
(* The queue keeps its promise.                                            *)

\* The end of a put is an acceptance, a refusal or a displacement.
LEMMA EndedAccounted ==
    ASSUME QueueInv, NEW p \in Producers, NEW x, Latest(p, x), Ended(p, x),
           delivered' = delivered
    PROVE  Account!Next
<1>1. Account!Fresh(x)
  BY LatestFresh DEF Account!Fresh, Account!ToSet, ToSet, Latest, Seen
<1>2. x \in Items BY DEF Latest
<1>3. CASE Accepted(p, x)
  <2>1. Account!Accept(x)
    BY <1>1, <1>3 DEF Account!Accept, Accepted, Admit
  <2> QED BY <1>2, <2>1 DEF Account!Next
<1>4. CASE Refused(p, x)
  <2>1. Account!Refuse(x)
    BY <1>1, <1>4 DEF Account!Refuse, Refused, Refuse
  <2> QED BY <1>2, <2>1 DEF Account!Next
<1>5. ASSUME NEW k \in DOMAIN q, Displaced(p, x, k)
      PROVE  Account!Next
  <2>1. Account!Displace(k, x)
    BY <1>1, <1>5 DEF Account!Displace, Account!RemoveAt, RemoveAt, Displaced, Admit
  <2> QED BY <1>2, <2>1 DEF Account!Next
<1> QED BY <1>3, <1>4, <1>5 DEF Ended

LEMMA AccountStep == QueueInv /\ [Next]_vars => [Account!Next]_(Account!vars)
<1> SUFFICES ASSUME QueueInv, [Next]_vars
             PROVE  Account!Next \/ UNCHANGED <<q, delivered, shed>>
  BY DEF Account!vars
<1>1. ASSUME NEW p \in Producers, NEW prot \in BOOLEAN, NEW b \in BOOLEAN,
             Put(p, prot, b)
      PROVE  Account!Next \/ UNCHANGED <<q, delivered, shed>>
  <2> DEFINE x == [id |-> offered + 1, prot |-> prot, from |-> p]
  <2>1. delivered' = delivered BY <1>1 DEF Put
  <2>2. Latest(p, x) /\ TypeOK BY <1>1, NewIsLatest DEF QueueInv
  <2>3. Ended(p, x) \/ WaitNotFull(p, x, b) BY <1>1, <2>2, PutEndsOrWaits
  <2> HIDE DEF x
  <2>4. CASE Ended(p, x) BY <2>1, <2>2, <2>4, EndedAccounted
  <2>5. CASE WaitNotFull(p, x, b) BY <2>1, <2>5 DEF WaitNotFull
  <2> QED BY <2>3, <2>4, <2>5
<1>2. ASSUME NEW p \in Producers, PutResumes(p)
      PROVE  Account!Next \/ UNCHANGED <<q, delivered, shed>>
  <2> DEFINE x == item[p]
  <2>1. delivered' = delivered /\ st[p] # "idle" BY <1>2 DEF PutResumes
  <2>2. Latest(p, x) BY <2>1 DEF QueueInv, Lines, Pending
  <2>3. Ended(p, x) \/ WaitNotFull(p, x, FALSE)
    BY <1>2, SettleEnds DEF PutResumes
  <2> HIDE DEF x
  <2>4. CASE Ended(p, x) BY <2>1, <2>2, <2>4, EndedAccounted
  <2>5. CASE WaitNotFull(p, x, FALSE) BY <2>1, <2>5 DEF WaitNotFull
  <2> QED BY <2>3, <2>4, <2>5
<1>3. ASSUME NEW c \in Consumers, q # <<>>, Take(c), shed' = shed
      PROVE  Account!Next
  BY <1>3 DEF Take, Account!Next, Account!Deliver
<1>4. ASSUME NEW c \in Consumers, NEW b \in GetTimeouts, Get(c, b)
      PROVE  Account!Next \/ UNCHANGED <<q, delivered, shed>>
  BY <1>3, <1>4 DEF Get, WaitNotEmpty
<1>5. ASSUME NEW c \in Consumers, GetResumes(c)
      PROVE  Account!Next \/ UNCHANGED <<q, delivered, shed>>
  BY <1>3, <1>5 DEF GetResumes, WaitNotEmpty
<1>6. ASSUME NEW c \in Consumers, GetGivesUp(c)
      PROVE  UNCHANGED <<q, delivered, shed>>
  BY <1>6 DEF GetGivesUp, histVars
<1>7. ASSUME NEW t \in Threads, Resumes(t)
      PROVE  Account!Next \/ UNCHANGED <<q, delivered, shed>>
  <2>1. CASE t \in Producers BY <1>2, <1>7, <2>1 DEF Resumes
  <2>2. CASE t \notin Producers
    <3>1. t \in Consumers /\ (GetResumes(t) \/ GetGivesUp(t))
      BY <1>7, <2>2 DEF Resumes, Threads
    <3> QED BY <1>5, <1>6, <3>1
  <2> QED BY <2>1, <2>2
<1>8. ASSUME NEW t \in Threads, Expire(t) PROVE UNCHANGED <<q, delivered, shed>>
  BY <1>8 DEF Expire, histVars
<1>9. CASE Close BY <1>9 DEF Close, histVars
<1>10. CASE UNCHANGED vars BY <1>10 DEF vars, histVars
<1> QED BY <1>1, <1>4, <1>7, <1>8, <1>9, <1>10 DEF Next

\* The queue implements AccountableQueue: each line offered meets one fate, in
\* order of arrival, and no line of level ERROR or worse is ever shed.
THEOREM QueueKeepsAccount == Spec => KeepsAccount
<1>1. Init => Account!Init BY DEF Init, Account!Init
<1> QED BY <1>1, AccountStep, QueueInvariant, PTL DEF Spec, KeepsAccount, Account!Spec
==============================================================================
