----------------------------- MODULE DaemonProofs ------------------------------
(***************************************************************************)
(* Proofs about the warm daemon, for any number of CLI invocations and of  *)
(* daemon processes, any backlog and any way the system may start.         *)
(*                                                                         *)
(* The invariant follows connections.  A process has at most one open      *)
(* connection, and only while it waits for the reply; a client has at most *)
(* one connection with its command, ever, which may outlive its patience.  *)
(* A connection is on its way while it is in some daemon's backlog or      *)
(* being handled.                                                          *)
(***************************************************************************)
EXTENDS Daemon, SequenceTheorems, TLAPS

\* Who waits for a reply is in one of these phases.
Asking == {"pinged", "stopping", "confirming", "polled", "forwarded", "checking"}

\* The client has not forwarded its command yet, nor given up forwarding it.
Before == ClientPhases \ {"forwarded", "local", "done"}

\* The connections with c's command, and the open connections of p.
RunOf(c) == {x \in Conns : x.from = c /\ x.op = "run"}
OpenOf(p) == {x \in Conns : x.from = p /\ x.open}

\* A connection of S waits in the backlog w, or is with daemon d; it is nowhere;
\* there is at most one.
In(w, S) == \E k \in DOMAIN w : w[k] \in S
Once(w, S) == \A k, l \in DOMAIN w : w[k] \in S /\ w[l] \in S => k = l
Holds(d, S) == In(inbox[d], S) \/ serving[d] \in S
Nowhere(S) == \A d \in Daemons : ~Holds(d, S)
Sole(S) ==
    /\ \A d \in Daemons :
          Once(inbox[d], S) /\ ~(In(inbox[d], S) /\ serving[d] \in S)
    /\ \A d, e \in Daemons : Holds(d, S) /\ Holds(e, S) => d = e

Busy == {"busy", "running"}

Typed ==
    /\ TypeOK
    /\ \A c \in Clients : pc[c] \in ClientPhases
    /\ \A d \in Daemons : pc[d] \in DaemonPhases
    /\ \A d \in Daemons : IF pc[d] \in Busy THEN serving[d] \in Conns
                          ELSE serving[d] = NoConn
    /\ \A d \in Daemons : pc[d] = "running" => serving[d].op = "run"

\* An open connection is the one its process waits on, and while a client
\* forwards its command it is the one with the command.
Asked(p) ==
    /\ req[p] = "waiting" => pc[p] \in Asking
    /\ req[p] # "waiting" => Nowhere(OpenOf(p))
    /\ Sole(OpenOf(p))
    /\ pc[p] = "forwarded" => Nowhere(OpenOf(p) \ RunOf(p))
Requests == \A p \in Procs : Asked(p)

\* c's command is on its way to a daemon that has not started it.
Unstarted(c) == \E d \in Daemons :
    In(inbox[d], RunOf(c)) \/ (pc[d] = "busy" /\ serving[d] \in RunOf(c))

\* Daemon d executes c's command.
Executes(d, c) == pc[d] = "running" /\ serving[d] \in RunOf(c)

Command(c) ==
    /\ Sole(RunOf(c))
    /\ pc[c] \in Before => runs[c] = 0 /\ Nowhere(RunOf(c))
    /\ pc[c] # "done" => runs[c] <= 1 /\ outcome[c] = "none"
    /\ Unstarted(c) => runs[c] = 0 \/ (runs[c] = 1 /\ pc[c] = "done")
    /\ \A d \in Daemons : pc[c] = "forwarded" /\ Executes(d, c) => runs[c] = 1
    /\ pc[c] = "forwarded" /\ req[c] = "ok" => runs[c] = 1 /\ Nowhere(RunOf(c))
    /\ outcome[c] = "served" => runs[c] = 1 /\ Nowhere(RunOf(c))
    /\ pc[c] = "done" => runs[c] \in 1..2

DaemonInv == Typed /\ AnnouncedAfterBind /\ Requests /\ \A c \in Clients : Command(c)

-----------------------------------------------------------------------------
(* Processes and connections.                                              *)

LEMMA ProcsAre ==
    /\ Clients \subseteq Procs /\ Daemons \subseteq Procs
    /\ \A c \in Clients : c \notin Daemons
    /\ \A d \in Daemons : d \notin Clients /\ d # 0
BY DaemonAssumption DEF Procs, Daemons

LEMMA NoConnIsNone ==
    ASSUME NEW x \in Conns
    PROVE  NoConn \notin Conns /\ x.op \in Ops /\ x.op # "none" /\ x.from \in Procs
           /\ x.open \in BOOLEAN
BY DEF NoConn, Conns, Ops

LEMMA GotoIs ==
    ASSUME NEW P, pc \in [Procs -> P], NEW p \in Procs, NEW phase, Goto(p, phase)
    PROVE  /\ pc'[p] = phase
           /\ \A r \in Procs : r # p => pc'[r] = pc[r]
           /\ phase \in P => pc' \in [Procs -> P]
BY DEF Goto

-----------------------------------------------------------------------------
(* What becomes of the connections of a set.                               *)

\* A backlog with one more connection.
LEMMA InAppend ==
    ASSUME NEW T, NEW w \in Seq(T), NEW r \in Seq(T), NEW S, NEW x,
           Len(r) = Len(w) + 1, r[Len(w) + 1] = x,
           \A i \in 1 .. Len(w) : r[i] = w[i]
    PROVE  /\ In(r, S) <=> (In(w, S) \/ x \in S)
           /\ Once(w, S) /\ ~(In(w, S) /\ x \in S) => Once(r, S)
<1> DEFINE n == Len(w) + 1
<1>1. /\ DOMAIN w = 1 .. Len(w) /\ DOMAIN r = 1 .. n /\ r[n] = x
      /\ Len(w) \in Nat
  OBVIOUS
<1>2. DOMAIN r = DOMAIN w \cup {n} /\ n \notin DOMAIN w BY <1>1
<1>3. \A i \in DOMAIN w : r[i] = w[i] BY <1>1
<1> HIDE DEF n
<1>4. In(r, S) <=> (In(w, S) \/ x \in S) BY <1>1, <1>2, <1>3 DEF In
<1>5. Once(w, S) /\ ~(In(w, S) /\ x \in S) => Once(r, S)
  BY <1>1, <1>2, <1>3 DEF In, Once
<1> QED BY <1>4, <1>5

\* A backlog whose first connection is taken.
LEMMA InTail ==
    ASSUME NEW T, NEW w \in Seq(T), w # <<>>, NEW S
    PROVE  /\ Head(w) \in T /\ Tail(w) \in Seq(T)
           /\ Len(Tail(w)) <= Len(w)
           /\ Head(w) \in S => In(w, S)
           /\ In(Tail(w), S) => In(w, S)
           /\ Once(w, S) => Once(Tail(w), S)
           /\ Once(w, S) /\ Head(w) \in S => ~In(Tail(w), S)
<1> DEFINE r == Tail(w)
<1>1. /\ r \in Seq(T) /\ Len(r) = Len(w) - 1
      /\ Head(w) = w[1] /\ Len(w) \in Nat /\ Len(w) >= 1
      /\ \A j \in 1 .. Len(r) : r[j] = w[j + 1]
  BY HeadTailProperties, EmptySeq
<1>2. DOMAIN w = 1 .. Len(w) /\ DOMAIN r = 1 .. Len(r) /\ Len(r) \in Nat
  BY <1>1
<1> HIDE DEF r
<1>3. /\ 1 \in DOMAIN w
      /\ \A j \in DOMAIN r : j + 1 \in DOMAIN w /\ r[j] = w[j + 1] /\ j + 1 # 1
      /\ \A i, j \in DOMAIN r : i + 1 = j + 1 => i = j
  BY <1>1, <1>2
<1>4. Head(w) \in T /\ Len(r) <= Len(w) BY <1>1, <1>2, <1>3
<1>5. Head(w) \in S => In(w, S) BY <1>1, <1>3 DEF In
<1>6. In(r, S) => In(w, S) BY <1>3 DEF In
<1>7. Once(w, S) => Once(r, S)
  <2> SUFFICES ASSUME Once(w, S), NEW i \in DOMAIN r, NEW j \in DOMAIN r,
                      r[i] \in S, r[j] \in S
               PROVE  i = j
    BY DEF Once
  <2>1. i + 1 = j + 1 BY <1>3 DEF Once
  <2> QED BY <1>3, <2>1
<1>8. Once(w, S) /\ Head(w) \in S => ~In(r, S) BY <1>1, <1>3 DEF In, Once
<1> QED BY <1>1, <1>4, <1>5, <1>6, <1>7, <1>8 DEF r

LEMMA InEmpty ==
    ASSUME NEW S
    PROVE  ~In(<<>>, S) /\ Once(<<>>, S)
BY DEF In, Once

\* Connections only go.
LEMMA Fewer ==
    ASSUME NEW S, Sole(S), NoConn \notin S,
           \A d \in Daemons : inbox'[d] = inbox[d] \/ inbox'[d] = <<>>,
           \A d \in Daemons : serving'[d] = serving[d] \/ serving'[d] = NoConn
    PROVE  Sole(S)' /\ \A d \in Daemons : Holds(d, S)' => Holds(d, S)
<1>1. ASSUME NEW d \in Daemons
      PROVE  /\ Once(inbox'[d], S) /\ (In(inbox'[d], S) => In(inbox[d], S))
             /\ serving'[d] \in S => serving[d] \in S
  BY InEmpty DEF Sole
<1>2. \A d \in Daemons : Holds(d, S)' => Holds(d, S) BY <1>1 DEF Holds
<1> QED BY <1>1, <1>2 DEF Sole

LEMMA FewerNowhere ==
    ASSUME NEW S, Nowhere(S), NoConn \notin S,
           \A d \in Daemons : inbox'[d] = inbox[d] \/ inbox'[d] = <<>>,
           \A d \in Daemons : serving'[d] = serving[d] \/ serving'[d] = NoConn
    PROVE  Nowhere(S)'
<1>1. ASSUME NEW d \in Daemons
      PROVE  /\ In(inbox'[d], S) => In(inbox[d], S)
             /\ serving'[d] \in S => serving[d] \in S
  BY InEmpty
<1> QED BY <1>1 DEF Nowhere, Holds

\* A connection comes.
LEMMA Arrives ==
    ASSUME inbox \in [Daemons -> Seq(Conns)], NEW e \in Daemons, NEW x \in Conns,
           inbox' = [inbox EXCEPT ![e] = Append(@, x)], serving' = serving, NEW S
    PROVE  /\ x \notin S => \A d \in Daemons : In(inbox'[d], S) <=> In(inbox[d], S)
           /\ x \notin S /\ Sole(S) => Sole(S)'
           /\ x \in S /\ Nowhere(S) => Sole(S)'
<1> DEFINE w == inbox[e]
           r == inbox'[e]
<1>1. w \in Seq(Conns) /\ r = Append(w, x) /\ e \in Daemons OBVIOUS
<1>2. \A d \in Daemons : d # e => inbox'[d] = inbox[d] OBVIOUS
<1> HIDE DEF w, r
<1>3. /\ r \in Seq(Conns) /\ Len(r) = Len(w) + 1 /\ r[Len(w) + 1] = x
      /\ \A i \in 1 .. Len(w) : r[i] = w[i]
  BY <1>1
<1>4. /\ In(r, S) <=> (In(w, S) \/ x \in S)
      /\ Once(w, S) /\ ~(In(w, S) /\ x \in S) => Once(r, S)
  BY <1>1, <1>3, InAppend
<1>5. ASSUME x \notin S
      PROVE  \A d \in Daemons : In(inbox'[d], S) <=> In(inbox[d], S)
  BY <1>2, <1>4, <1>5 DEF w, r
<1>6. ASSUME x \notin S, Sole(S) PROVE Sole(S)'
  <2>1. \A d \in Daemons : Once(inbox'[d], S)
    BY <1>2, <1>4, <1>6 DEF Sole, w, r
  <2>2. \A d \in Daemons : Holds(d, S)' <=> Holds(d, S)
    BY <1>5, <1>6 DEF Holds
  <2> QED BY <1>5, <1>6, <2>1, <2>2 DEF Sole
<1>7. ASSUME x \in S, Nowhere(S) PROVE Sole(S)'
  <2>1. \A d \in Daemons : ~In(inbox[d], S) /\ serving'[d] \notin S
    BY <1>7 DEF Nowhere, Holds
  <2>2. \A d \in Daemons : d # e => ~In(inbox'[d], S) BY <1>2, <2>1
  <2>3. \A d \in Daemons : Once(inbox'[d], S)
    <3>1. Once(r, S) BY <1>4, <2>1 DEF Once, In, w
    <3> QED BY <2>2, <3>1 DEF Once, In, r
  <2> QED BY <2>1, <2>2, <2>3 DEF Sole, Holds
<1> QED BY <1>5, <1>6, <1>7

\* A connection is accepted.
LEMMA Accepted ==
    ASSUME inbox \in [Daemons -> Seq(Conns)], serving \in [Daemons -> Conns \cup {NoConn}],
           NEW e \in Daemons, inbox[e] # <<>>, serving[e] = NoConn,
           serving' = [serving EXCEPT ![e] = Head(inbox[e])],
           inbox' = [inbox EXCEPT ![e] = Tail(@)], NEW S, NoConn \notin S
    PROVE  /\ \A d \in Daemons : In(inbox'[d], S) => In(inbox[d], S)
           /\ serving'[e] \in S => In(inbox[e], S)
           /\ \A d \in Daemons : d # e => serving'[d] = serving[d]
           /\ \A d \in Daemons : Holds(d, S)' => Holds(d, S)
           /\ Sole(S) => Sole(S)'
<1> DEFINE w == inbox[e]
           r == inbox'[e]
<1>1. w \in Seq(Conns) /\ r = Tail(w) /\ w # <<>> /\ serving'[e] = Head(w)
  OBVIOUS
<1>2. \A d \in Daemons : d # e => inbox'[d] = inbox[d] /\ serving'[d] = serving[d]
  OBVIOUS
<1> HIDE DEF w, r
<1>3. /\ Head(w) \in S => In(w, S)
      /\ In(r, S) => In(w, S)
      /\ Once(w, S) => Once(r, S)
      /\ Once(w, S) /\ Head(w) \in S => ~In(r, S)
  BY <1>1, InTail
<1>4. \A d \in Daemons : In(inbox'[d], S) => In(inbox[d], S)
  BY <1>2, <1>3 DEF w, r
<1>5. serving'[e] \in S => In(inbox[e], S) BY <1>1, <1>3 DEF w
<1>6. \A d \in Daemons : Holds(d, S)' => Holds(d, S)
  BY <1>2, <1>4, <1>5 DEF Holds
<1>7. ASSUME Sole(S) PROVE Sole(S)'
  <2>1. ASSUME NEW d \in Daemons
        PROVE  Once(inbox'[d], S) /\ ~(In(inbox'[d], S) /\ serving'[d] \in S)
    <3>1. CASE d = e BY <1>1, <1>3, <1>7, <3>1 DEF Sole, w, r
    <3>2. CASE d # e BY <1>2, <1>7, <3>2 DEF Sole
    <3> QED BY <3>1, <3>2
  <2> QED BY <1>6, <1>7, <2>1 DEF Sole
<1> QED BY <1>2, <1>4, <1>5, <1>6, <1>7

\* p closes its end of each of its connections.
LEMMA HungUp ==
    ASSUME NEW p \in Procs, NEW x \in Conns \cup {NoConn}
    PROVE  /\ Hangup(p, x) \in Conns <=> x \in Conns
           /\ x = NoConn => Hangup(p, x) = NoConn
           /\ \A c : Hangup(p, x) \in RunOf(c) <=> x \in RunOf(c)
           /\ \A r : Hangup(p, x) \in OpenOf(r) => x \in OpenOf(r)
           /\ Hangup(p, x) \notin OpenOf(p)
           /\ Hangup(p, x).op = x.op
<1>1. CASE x = NoConn
  BY <1>1, NoConnIsNone DEF Hangup, NoConn, RunOf, OpenOf
<1>2. CASE x \in Conns /\ x.from # p
  BY <1>2, NoConnIsNone DEF Hangup, OpenOf
<1>3. CASE x \in Conns /\ x.from = p
  <2> DEFINE y == [x EXCEPT !.open = FALSE]
  <2>1. Hangup(p, x) = y BY <1>3, NoConnIsNone DEF Hangup
  <2>2. y \in Conns /\ y.from = p /\ y.op = x.op /\ y.open = FALSE
    BY <1>3 DEF Conns
  <2> HIDE DEF y
  <2> QED BY <1>3, <2>1, <2>2, NoConnIsNone DEF RunOf, OpenOf
<1> QED BY <1>1, <1>2, <1>3

LEMMA GaveUp ==
    ASSUME inbox \in [Daemons -> Seq(Conns)], serving \in [Daemons -> Conns \cup {NoConn}],
           NEW p \in Procs, GiveUp(p), NEW S,
           \A x \in Conns \cup {NoConn} : Hangup(p, x) \in S => x \in S
    PROVE  /\ \A d \in Daemons : In(inbox'[d], S) => In(inbox[d], S)
           /\ \A d \in Daemons : serving'[d] \in S => serving[d] \in S
           /\ \A d \in Daemons : Holds(d, S)' => Holds(d, S)
           /\ Sole(S) => Sole(S)'
<1>1. ASSUME NEW d \in Daemons
      PROVE  /\ DOMAIN inbox'[d] = DOMAIN inbox[d]
             /\ \A k \in DOMAIN inbox[d] : inbox'[d][k] \in S => inbox[d][k] \in S
             /\ serving'[d] \in S => serving[d] \in S
  <2>1. \A k \in DOMAIN inbox[d] : inbox[d][k] \in Conns BY ElementOfSeq
  <2> QED BY <2>1 DEF GiveUp
<1>2. ASSUME NEW d \in Daemons
      PROVE  /\ In(inbox'[d], S) => In(inbox[d], S)
             /\ Once(inbox[d], S) => Once(inbox'[d], S)
  BY <1>1 DEF In, Once
<1>3. \A d \in Daemons : Holds(d, S)' => Holds(d, S) BY <1>1, <1>2 DEF Holds
<1>4. Sole(S) => Sole(S)' BY <1>1, <1>2, <1>3 DEF Sole
<1> QED BY <1>1, <1>2, <1>3, <1>4

LEMMA GaveUpAll ==
    ASSUME inbox \in [Daemons -> Seq(Conns)], serving \in [Daemons -> Conns \cup {NoConn}],
           NEW p \in Procs, GiveUp(p)
    PROVE  Nowhere(OpenOf(p))'
<1>1. ASSUME NEW d \in Daemons, NEW k \in DOMAIN inbox'[d]
      PROVE  inbox'[d][k] \notin OpenOf(p)
  <2>1. k \in DOMAIN inbox[d] /\ inbox'[d][k] = Hangup(p, inbox[d][k])
    BY <1>1 DEF GiveUp
  <2>2. inbox[d][k] \in Conns BY <2>1, ElementOfSeq
  <2> QED BY <2>1, <2>2, HungUp
<1>2. ASSUME NEW d \in Daemons PROVE serving'[d] \notin OpenOf(p)
  <2>1. serving'[d] = Hangup(p, serving[d]) /\ serving[d] \in Conns \cup {NoConn}
    BY DEF GiveUp
  <2> QED BY <2>1, HungUp
<1> QED BY <1>1, <1>2 DEF Nowhere, Holds, In

-----------------------------------------------------------------------------
(* The kinds of steps there are, as far as the connections go.             *)

\* A process goes on without one: a client that has not forwarded its command,
\* or gives up on it, or a daemon between two connections.
Legal(p, a, b) ==
    \/ p \in Clients /\ a \in Before /\ b \in Before \cup {"local"}
    \/ p \in Clients /\ a = "forwarded" /\ b = "local"
    \/ p \in Daemons /\ a \in DaemonPhases \ Busy /\ b \in DaemonPhases \ Busy

Strolls ==
    /\ UNCHANGED <<inbox, serving, runs, outcome>>
    /\ pc' \in [Procs -> ClientPhases \cup DaemonPhases]
    /\ req' \in [Procs -> {"none", "waiting", "ok", "bad"}]
    /\ \A p \in Procs :
          \/ pc'[p] = pc[p] /\ req'[p] = req[p]
          \/ /\ req[p] # "waiting" /\ req'[p] \in {req[p], "none"}
             /\ Legal(p, pc[p], pc'[p])

Asks(p, op, phase) ==
    /\ Request(p, op) /\ Goto(p, phase) /\ UNCHANGED <<serving, runs, outcome>>
    /\ pc[p] \notin Asking /\ phase \in Asking /\ op \in Ops
    /\ \/ p \in Clients /\ pc[p] \in Before /\ op = "run" /\ phase = "forwarded"
       \/ p \in Clients /\ pc[p] \in Before /\ op # "run" /\ phase \in Before
       \/ p \in Daemons /\ pc[p] = "born" /\ op # "run" /\ phase = "checking"

Replies(d, verdict, next) ==
    /\ pc[d] \in Busy /\ Reply(d, verdict, next)
    /\ verdict \in {"ok", "bad"} /\ next \in {"accept", "closing"}
    /\ verdict = "ok" => (serving[d].op = "run" <=> pc[d] = "running")
    /\ UNCHANGED <<runs, outcome>>

Kinds ==
    \/ Strolls
    \/ \E p \in Procs, op, phase \in Asking \cup Ops : Asks(p, op, phase)
    \/ \E c \in Clients : Served(c) \/ RunLocally(c)
    \/ \E d \in Daemons : Accept(d) \/ StartRun(d) \/ CloseSocket(d)
    \/ \E d \in Daemons, verdict, next \in {"ok", "bad", "accept", "closing"} :
          Replies(d, verdict, next)
    \/ \E p \in Procs : GiveUp(p)

\* A step of one process.
LEMMA OneStrolls ==
    ASSUME Typed, NEW p \in Procs, NEW phase \in ClientPhases \cup DaemonPhases,
           Goto(p, phase), req[p] # "waiting",
           req' = req \/ req' = [req EXCEPT ![p] = "none"], Legal(p, pc[p], phase),
           UNCHANGED <<inbox, serving, runs, outcome>>
    PROVE  Strolls
<1>1. /\ pc \in [Procs -> ClientPhases \cup DaemonPhases]
      /\ req \in [Procs -> {"none", "waiting", "ok", "bad"}]
  BY DEF Typed, TypeOK
<1>2. /\ pc'[p] = phase
      /\ \A r \in Procs : r # p => pc'[r] = pc[r]
      /\ pc' \in [Procs -> ClientPhases \cup DaemonPhases]
  BY <1>1, GotoIs
<1>3. /\ req' \in [Procs -> {"none", "waiting", "ok", "bad"}]
      /\ req'[p] \in {req[p], "none"}
      /\ \A r \in Procs : r # p => req'[r] = req[r]
  BY <1>1
<1> QED BY <1>2, <1>3 DEF Strolls

LEMMA ClientStrolls ==
    ASSUME Typed, Requests, NEW c \in Clients,
           \/ FoundRunning(c) \/ FoundNone(c) \/ StopAnswered(c) \/ ConfirmAgain(c)
           \/ ConfirmEnds(c) \/ Clean(c) \/ PollAgain(c) \/ PollEnds(c) \/ NotServed(c)
    PROVE  Strolls
<1>1. c \in Procs BY ProcsAre
<1>2. UNCHANGED <<inbox, serving, runs, outcome>>
  BY DEF FoundRunning, FoundNone, StopAnswered, ConfirmAgain, ConfirmEnds, Clean,
         PollAgain, PollEnds, NotServed, hist
<1>3. req' = req \/ req' = [req EXCEPT ![c] = "none"]
  BY DEF FoundRunning, FoundNone, StopAnswered, ConfirmAgain, ConfirmEnds, Clean,
         PollAgain, PollEnds, NotServed, Hears
<1>4. req[c] # "waiting"
  <2>1. CASE Clean(c) BY <1>1, <2>1 DEF Clean, Requests, Asked, Asking
  <2>2. CASE ~Clean(c)
    BY <2>2 DEF FoundRunning, FoundNone, StopAnswered, ConfirmAgain, ConfirmEnds,
                PollAgain, PollEnds, NotServed, Hears, Answered
  <2> QED BY <2>1, <2>2
<1>5. PICK phase \in ClientPhases : Goto(c, phase) /\ Legal(c, pc[c], phase)
  BY DEF FoundRunning, FoundNone, StopAnswered, ConfirmAgain, ConfirmEnds, Clean,
         PollAgain, PollEnds, NotServed, Legal, Before, ClientPhases
<1> QED BY <1>1, <1>2, <1>3, <1>4, <1>5, OneStrolls

LEMMA DaemonStrolls ==
    ASSUME Typed, Requests, NEW d \in Daemons,
           \/ ServeYields(d) \/ ServeGoesOn(d) \/ Unlink(d) \/ Bind(d)
           \/ Publish(d) \/ Warm(d) \/ StopAccepting(d) \/ Cleanup(d)
    PROVE  Strolls
<1>1. d \in Procs BY ProcsAre
<1>2. UNCHANGED <<inbox, serving, runs, outcome>>
  BY DEF ServeYields, ServeGoesOn, Unlink, Bind, Publish, Warm, StopAccepting, Cleanup, hist
<1>3. req' = req \/ req' = [req EXCEPT ![d] = "none"]
  BY DEF ServeYields, ServeGoesOn, Unlink, Bind, Publish, Warm, StopAccepting, Cleanup, Hears
<1>4. req[d] # "waiting"
  <2>1. CASE ServeYields(d) \/ ServeGoesOn(d)
    BY <2>1 DEF ServeYields, ServeGoesOn, Hears
  <2>2. CASE pc[d] \notin Asking BY <1>1, <2>2 DEF Requests, Asked
  <2> QED
    BY <2>1, <2>2 DEF Unlink, Bind, Publish, Warm, StopAccepting, Cleanup, Asking
<1>5. PICK phase \in DaemonPhases : Goto(d, phase) /\ Legal(d, pc[d], phase)
  BY DEF ServeYields, ServeGoesOn, Unlink, Bind, Publish, Warm, StopAccepting, Cleanup,
         Legal, DaemonPhases, Busy
<1> QED BY <1>1, <1>2, <1>3, <1>4, <1>5, OneStrolls

\* A daemon is born, or the file is only found to be old, or nothing happens.
LEMMA SpawnStrolls ==
    ASSUME Typed, Requests, NEW c \in Clients, Spawn(c)
    PROVE  Strolls
<1>1. /\ pc \in [Procs -> ClientPhases \cup DaemonPhases] /\ c \in Procs
      /\ req \in [Procs -> {"none", "waiting", "ok", "bad"}]
      /\ pc[c] = "spawn" /\ req[c] # "waiting"
  BY ProcsAre DEF Typed, TypeOK, Spawn, Requests, Asked, Asking
<1>2. UNCHANGED <<req, inbox, serving, runs, outcome>> BY DEF Spawn, hist
<1>3. Legal(c, pc[c], "poll") BY <1>1 DEF Legal, Before, ClientPhases
<1>4. CASE Goto(c, "poll")
  BY <1>1, <1>2, <1>3, <1>4, OneStrolls DEF ClientPhases
<1>5. ASSUME NEW d \in Unborn, pc' = [pc EXCEPT ![c] = "poll", ![d] = "born"]
      PROVE  Strolls
  <2>1. d \in Daemons /\ d \in Procs /\ d # c /\ pc[d] = "unborn"
    BY ProcsAre DEF Unborn
  <2>2. req[d] # "waiting" BY <2>1 DEF Requests, Asked, Asking
  <2>3. Legal(d, pc[d], "born") BY <2>1 DEF Legal, DaemonPhases, Busy
  <2>4. /\ pc' \in [Procs -> ClientPhases \cup DaemonPhases]
        /\ pc'[c] = "poll" /\ pc'[d] = "born"
        /\ \A p \in Procs : p # c /\ p # d => pc'[p] = pc[p]
    BY <1>1, <1>5, <2>1 DEF ClientPhases, DaemonPhases
  <2> QED BY <1>1, <1>2, <1>3, <2>2, <2>3, <2>4 DEF Strolls
<1> QED BY <1>4, <1>5 DEF Spawn

LEMMA ClientAsks ==
    ASSUME Typed, NEW c \in Clients
    PROVE  /\ CheckRunning(c) => Asks(c, "ping", "pinged")
           /\ Confirm(c) => Asks(c, "ping", "confirming")
           /\ Poll(c) => Asks(c, "ping", "polled")
           /\ Forward(c) => Asks(c, "run", "forwarded")
BY DEF CheckRunning, Confirm, Poll, Forward, Asks, hist, Asking, Before, ClientPhases, Ops

LEMMA DecideKind ==
    ASSUME Typed, Requests, NEW c \in Clients, Decide(c)
    PROVE  Strolls \/ Asks(c, "shutdown", "stopping")
<1>1. pc[c] = "decide" /\ UNCHANGED <<serving, runs, outcome>> BY DEF Decide, hist
<1>2. CASE Request(c, "shutdown") /\ Goto(c, "stopping")
  BY <1>1, <1>2 DEF Asks, Asking, Before, ClientPhases, Ops
<1>3. CASE /\ Goto(c, IF state # 0 THEN "clean" ELSE "spawn")
           /\ UNCHANGED <<req, inbox>>
  <2> DEFINE phase == IF state # 0 THEN "clean" ELSE "spawn"
  <2>1. phase \in ClientPhases /\ Legal(c, pc[c], phase)
    BY <1>1 DEF Legal, Before, ClientPhases
  <2>2. Goto(c, phase) BY <1>3
  <2>3. req[c] # "waiting" /\ c \in Procs BY <1>1, ProcsAre DEF Requests, Asked, Asking
  <2> HIDE DEF phase
  <2> QED BY <1>1, <1>3, <2>1, <2>2, <2>3, OneStrolls
<1> QED BY <1>2, <1>3 DEF Decide

LEMMA DaemonReplies ==
    ASSUME Typed, NEW d \in Daemons,
           ReplyUnauthorized(d) \/ ReplyPing(d) \/ ReplyShutdown(d) \/ FinishRun(d)
    PROVE  \E verdict, next \in {"ok", "bad", "accept", "closing"} :
              Replies(d, verdict, next)
<1>1. CASE ReplyUnauthorized(d)
  <2>1. Replies(d, "bad", "accept")
    BY <1>1 DEF ReplyUnauthorized, Replies, hist, Busy
  <2> QED BY <2>1
<1>2. CASE ReplyPing(d)
  <2>1. \E v \in {"ok", "bad"} : Replies(d, v, "accept")
    BY <1>2 DEF ReplyPing, Replies, hist, Busy
  <2> QED BY <2>1
<1>3. CASE ReplyShutdown(d)
  <2>1. Replies(d, "ok", "closing") BY <1>3 DEF ReplyShutdown, Replies, hist, Busy
  <2> QED BY <2>1
<1>4. CASE FinishRun(d)
  <2>1. serving[d].op = "run" BY <1>4 DEF FinishRun, Typed
  <2>2. Replies(d, "ok", "accept") BY <1>4, <2>1 DEF FinishRun, Replies, hist, Busy
  <2> QED BY <2>2
<1> QED BY <1>1, <1>2, <1>3, <1>4

LEMMA StepKinds ==
    ASSUME Typed, Requests, [Next]_vars
    PROVE  Kinds
<1>1. ASSUME NEW c \in Clients, ClientStep(c) \/ LoopEnds(c) PROVE Kinds
  <2>1. CASE \/ FoundRunning(c) \/ FoundNone(c) \/ StopAnswered(c) \/ ConfirmAgain(c)
             \/ ConfirmEnds(c) \/ Clean(c) \/ PollAgain(c) \/ PollEnds(c) \/ NotServed(c)
    BY <2>1, ClientStrolls DEF Kinds
  <2>2. CASE CheckRunning(c) \/ Confirm(c) \/ Poll(c) \/ Forward(c)
    BY <2>2, ClientAsks, ProcsAre DEF Kinds, Asking, Ops
  <2>3. CASE Decide(c) BY <2>3, DecideKind, ProcsAre DEF Kinds, Asking, Ops
  <2>4. CASE Spawn(c) BY <2>4, SpawnStrolls DEF Kinds
  <2>5. CASE Served(c) \/ RunLocally(c) BY <2>5 DEF Kinds
  <2> QED BY <1>1, <2>1, <2>2, <2>3, <2>4, <2>5 DEF ClientStep, LoopEnds
<1>2. ASSUME NEW d \in Daemons, DaemonStep(d) PROVE Kinds
  <2>1. CASE \/ ServeYields(d) \/ ServeGoesOn(d) \/ Unlink(d) \/ Bind(d)
             \/ Publish(d) \/ Warm(d) \/ StopAccepting(d) \/ Cleanup(d)
    BY <2>1, DaemonStrolls DEF Kinds
  <2>2. CASE ServeChecks(d)
    <3>1. Asks(d, "ping", "checking")
      BY <2>2 DEF ServeChecks, Asks, hist, Asking, Ops
    <3> QED BY <3>1, ProcsAre DEF Kinds, Asking, Ops
  <2>3. CASE Accept(d) \/ StartRun(d) \/ CloseSocket(d) BY <2>3 DEF Kinds
  <2>4. CASE ReplyUnauthorized(d) \/ ReplyPing(d) \/ ReplyShutdown(d) \/ FinishRun(d)
    BY <2>4, DaemonReplies DEF Kinds
  <2> QED BY <1>2, <2>1, <2>2, <2>3, <2>4 DEF DaemonStep
<1>3. CASE CooldownExpires \/ UNCHANGED vars
  <2>1. UNCHANGED <<pc, req, inbox, serving, runs, outcome>>
    BY <1>3 DEF CooldownExpires, vars, hist
  <2>2. Strolls BY <2>1 DEF Strolls, Typed, TypeOK
  <2> QED BY <2>2 DEF Kinds
<1> QED BY <1>1, <1>2, <1>3 DEF Next, Kinds

-----------------------------------------------------------------------------
(* Types.                                                                  *)

\* Typed without the files and what the daemons were born as.
Core ==
    /\ pc \in [Procs -> ClientPhases \cup DaemonPhases]
    /\ req \in [Procs -> {"none", "waiting", "ok", "bad"}]
    /\ inbox \in [Daemons -> Seq(Conns)]
    /\ \A d \in Daemons : Len(inbox[d]) <= Backlog
    /\ serving \in [Daemons -> Conns \cup {NoConn}]
    /\ runs \in [Clients -> Nat]
    /\ outcome \in [Clients -> {"none", "served", "local"}]
    /\ \A c \in Clients : pc[c] \in ClientPhases
    /\ \A d \in Daemons : pc[d] \in DaemonPhases
    /\ \A d \in Daemons : IF pc[d] \in Busy THEN serving[d] \in Conns
                          ELSE serving[d] = NoConn
    /\ \A d \in Daemons : pc[d] = "running" => serving[d].op = "run"

LEMMA TypedCore == Typed => Core
BY DEF Typed, TypeOK, Core

LEMMA StrollsCore ==
    ASSUME Core, Strolls
    PROVE  Core'
<1>1. /\ pc' \in [Procs -> ClientPhases \cup DaemonPhases]
      /\ req' \in [Procs -> {"none", "waiting", "ok", "bad"}]
      /\ UNCHANGED <<inbox, serving, runs, outcome>>
  BY DEF Strolls
<1>2. ASSUME NEW c \in Clients PROVE pc'[c] \in ClientPhases
  <2>1. pc'[c] = pc[c] \/ Legal(c, pc[c], pc'[c]) BY ProcsAre DEF Strolls
  <2> QED BY <2>1, ProcsAre DEF Core, Legal, Before, ClientPhases
<1>3. ASSUME NEW d \in Daemons
      PROVE  /\ pc'[d] \in DaemonPhases
             /\ pc'[d] \in Busy <=> pc[d] \in Busy
             /\ pc'[d] = "running" => pc[d] = "running"
  <2>1. pc'[d] = pc[d] \/ Legal(d, pc[d], pc'[d]) BY ProcsAre DEF Strolls
  <2> QED BY <2>1, ProcsAre DEF Core, Legal, Busy
<1> QED BY <1>1, <1>2, <1>3 DEF Core

\* What a request does.
LEMMA RequestIs ==
    ASSUME Core, sock \in Daemons \cup {0}, state \in Daemons \cup {0},
           NEW p \in Procs, NEW op \in Ops, Request(p, op)
    PROVE  /\ req' \in [Procs -> {"none", "waiting", "ok", "bad"}]
           /\ \A r \in Procs : r # p => req'[r] = req[r]
           /\ \/ req'[p] = "bad" /\ inbox' = inbox
              \/ /\ req'[p] = "waiting"
                 /\ \E e \in Daemons, x \in Conns :
                       /\ x.from = p /\ x.op = op /\ x.open
                       /\ Len(inbox[e]) < Backlog
                       /\ inbox' = [inbox EXCEPT ![e] = Append(@, x)]
<1>1. req \in [Procs -> {"none", "waiting", "ok", "bad"}] BY DEF Core
<1>2. CASE ~Reachable BY <1>1, <1>2 DEF Request
<1>3. CASE Reachable
  <2> DEFINE x == [from |-> p, op |-> op, token |-> state, open |-> TRUE]
  <2>1. sock \in Daemons /\ state \in Daemons /\ Len(inbox[sock]) < Backlog
    BY <1>3 DEF Reachable
  <2>2. x \in Conns /\ x.from = p /\ x.op = op /\ x.open BY <2>1 DEF Conns
  <2>3. inbox' = [inbox EXCEPT ![sock] = Append(@, x)]
        /\ req' = [req EXCEPT ![p] = "waiting"]
    BY <1>3 DEF Request
  <2> HIDE DEF x
  <2> QED BY <1>1, <2>1, <2>2, <2>3
<1> QED BY <1>2, <1>3

LEMMA ArrivesCore ==
    ASSUME Core, NEW e \in Daemons, NEW x \in Conns, Len(inbox[e]) < Backlog,
           inbox' = [inbox EXCEPT ![e] = Append(@, x)]
    PROVE  /\ inbox' \in [Daemons -> Seq(Conns)]
           /\ \A d \in Daemons : Len(inbox'[d]) <= Backlog
<1>1. inbox \in [Daemons -> Seq(Conns)] BY DEF Core
<1>2. /\ Append(inbox[e], x) \in Seq(Conns)
      /\ Len(Append(inbox[e], x)) = Len(inbox[e]) + 1 /\ Len(inbox[e]) \in Nat
  BY <1>1
<1> QED BY <1>1, <1>2, DaemonAssumption DEF Core

LEMMA AsksCore ==
    ASSUME Typed, NEW p \in Procs, NEW op, NEW phase, Asks(p, op, phase)
    PROVE  Core'
<1>1. Core /\ sock \in Daemons \cup {0} /\ state \in Daemons \cup {0}
  BY TypedCore DEF Typed, TypeOK
<1>2. /\ req' \in [Procs -> {"none", "waiting", "ok", "bad"}]
      /\ inbox' \in [Daemons -> Seq(Conns)]
      /\ \A d \in Daemons : Len(inbox'[d]) <= Backlog
  <2>1. Request(p, op) /\ op \in Ops BY DEF Asks
  <2>2. /\ req' \in [Procs -> {"none", "waiting", "ok", "bad"}]
        /\ \/ inbox' = inbox
           \/ \E e \in Daemons, x \in Conns :
                /\ Len(inbox[e]) < Backlog
                /\ inbox' = [inbox EXCEPT ![e] = Append(@, x)]
    BY <1>1, <2>1, RequestIs
  <2>3. CASE inbox' = inbox BY <1>1, <2>2, <2>3 DEF Core
  <2>4. ASSUME NEW e \in Daemons, NEW x \in Conns, Len(inbox[e]) < Backlog,
               inbox' = [inbox EXCEPT ![e] = Append(@, x)]
        PROVE  /\ inbox' \in [Daemons -> Seq(Conns)]
               /\ \A d \in Daemons : Len(inbox'[d]) <= Backlog
    BY <1>1, <2>4, ArrivesCore
  <2> QED BY <2>2, <2>3, <2>4
<1>3. /\ pc \in [Procs -> ClientPhases \cup DaemonPhases]
      /\ phase \in ClientPhases \cup DaemonPhases
  BY <1>1 DEF Core, Asks, Before, ClientPhases, DaemonPhases
<1>4. /\ pc' \in [Procs -> ClientPhases \cup DaemonPhases]
      /\ pc'[p] = phase /\ \A r \in Procs : r # p => pc'[r] = pc[r]
  BY <1>3, GotoIs DEF Asks
<1>5. UNCHANGED <<serving, runs, outcome>> BY DEF Asks
<1>6. CASE p \in Clients
  <2>1. phase \in ClientPhases BY <1>6, ProcsAre DEF Asks, Before, ClientPhases
  <2> QED BY <1>1, <1>2, <1>4, <1>5, <1>6, <2>1, ProcsAre DEF Core
<1>7. CASE p \in Daemons
  <2>1. pc[p] = "born" /\ phase = "checking" BY <1>7, ProcsAre DEF Asks
  <2> QED BY <1>1, <1>2, <1>4, <1>5, <1>7, <2>1, ProcsAre DEF Core, Busy, DaemonPhases
<1> QED BY <1>6, <1>7 DEF Procs

LEMMA EndsCore ==
    ASSUME Core, NEW c \in Clients, Served(c) \/ RunLocally(c)
    PROVE  Core'
<1>1. c \in Procs /\ pc \in [Procs -> ClientPhases \cup DaemonPhases]
  BY ProcsAre DEF Core
<1>2. Goto(c, "done") /\ UNCHANGED <<inbox, serving>> BY DEF Served, RunLocally
<1>3. /\ pc' \in [Procs -> ClientPhases \cup DaemonPhases]
      /\ pc'[c] = "done" /\ \A r \in Procs : r # c => pc'[r] = pc[r]
  BY <1>1, <1>2, GotoIs DEF ClientPhases
<1>4. /\ req' \in [Procs -> {"none", "waiting", "ok", "bad"}]
      /\ runs' \in [Clients -> Nat]
      /\ outcome' \in [Clients -> {"none", "served", "local"}]
  <2>1. /\ req \in [Procs -> {"none", "waiting", "ok", "bad"}]
        /\ runs \in [Clients -> Nat]
        /\ outcome \in [Clients -> {"none", "served", "local"}]
    BY DEF Core
  <2>2. CASE Served(c) BY <2>1, <2>2 DEF Served, Hears
  <2>3. CASE RunLocally(c)
    <3>1. runs' = [runs EXCEPT ![c] = runs[c] + 1] /\ runs[c] \in Nat /\ req' = req
      BY <2>1, <2>3 DEF RunLocally
    <3>2. runs' \in [Clients -> Nat] BY <2>1, <3>1
    <3> QED BY <2>1, <2>3, <3>1, <3>2 DEF RunLocally
  <2> QED BY <2>2, <2>3
<1> QED BY <1>2, <1>3, <1>4, ProcsAre DEF Core, ClientPhases

LEMMA AcceptCore ==
    ASSUME Core, NEW d \in Daemons, Accept(d)
    PROVE  Core'
<1>1. d \in Procs /\ pc \in [Procs -> ClientPhases \cup DaemonPhases]
      /\ inbox \in [Daemons -> Seq(Conns)] /\ inbox[d] # <<>>
      /\ serving \in [Daemons -> Conns \cup {NoConn}]
  BY ProcsAre DEF Core, Accept
<1>2. /\ pc' \in [Procs -> ClientPhases \cup DaemonPhases]
      /\ pc'[d] = "busy" /\ \A r \in Procs : r # d => pc'[r] = pc[r]
  BY <1>1, GotoIs DEF Accept, DaemonPhases
<1>3. /\ Head(inbox[d]) \in Conns /\ Tail(inbox[d]) \in Seq(Conns)
      /\ Len(Tail(inbox[d])) <= Len(inbox[d])
  BY <1>1, InTail
<1>4. /\ inbox' \in [Daemons -> Seq(Conns)]
      /\ serving' \in [Daemons -> Conns \cup {NoConn}] /\ serving'[d] \in Conns
      /\ \A e \in Daemons : e # d => serving'[e] = serving[e]
  BY <1>1, <1>3 DEF Accept
<1>5. \A e \in Daemons : Len(inbox'[e]) <= Backlog
  <2>1. /\ inbox'[d] = Tail(inbox[d])
        /\ \A e \in Daemons : e # d => inbox'[e] = inbox[e]
    BY <1>1 DEF Accept
  <2>2. Len(inbox[d]) <= Backlog BY DEF Core
  <2>3. /\ Len(Tail(inbox[d])) \in Nat /\ Len(inbox[d]) \in Nat /\ Backlog \in Nat
    BY <1>1, <1>3, DaemonAssumption
  <2>4. Len(Tail(inbox[d])) <= Backlog BY <1>3, <2>2, <2>3
  <2> QED BY <2>1, <2>4 DEF Core
<1>6. UNCHANGED <<req, runs, outcome>> BY DEF Accept, hist
<1> QED BY <1>2, <1>4, <1>5, <1>6, ProcsAre DEF Core, Busy, DaemonPhases

LEMMA ReplyCore ==
    ASSUME Core, NEW d \in Daemons, NEW verdict, NEW next, Replies(d, verdict, next)
    PROVE  Core'
<1>1. /\ d \in Procs /\ pc \in [Procs -> ClientPhases \cup DaemonPhases]
      /\ req \in [Procs -> {"none", "waiting", "ok", "bad"}]
      /\ inbox \in [Daemons -> Seq(Conns)]
      /\ serving \in [Daemons -> Conns \cup {NoConn}]
      /\ \A e \in Daemons : Len(inbox[e]) <= Backlog
  BY ProcsAre DEF Core
<1>2. verdict \in {"ok", "bad"} /\ next \in DaemonPhases \ Busy /\ "gone" \in DaemonPhases \ Busy
  BY DEF Replies, DaemonPhases, Busy
<1>3. serving' = [serving EXCEPT ![d] = NoConn] BY DEF Replies, Reply
<1>4. /\ serving' \in [Daemons -> Conns \cup {NoConn}] /\ serving'[d] = NoConn
      /\ \A e \in Daemons : e # d => serving'[e] = serving[e]
  BY <1>1, <1>3
<1>5. UNCHANGED <<runs, outcome>> BY DEF Replies
<1>6. PICK phase \in {next, "gone"} : Goto(d, phase) BY DEF Replies, Reply
<1>7. /\ pc' \in [Procs -> ClientPhases \cup DaemonPhases]
      /\ pc'[d] = phase /\ \A r \in Procs : r # d => pc'[r] = pc[r]
  BY <1>1, <1>2, <1>6, GotoIs
<1>8. req' \in [Procs -> {"none", "waiting", "ok", "bad"}]
  BY <1>1, <1>2 DEF Replies, Reply, Drop
<1>9. /\ inbox' \in [Daemons -> Seq(Conns)]
      /\ \A e \in Daemons : Len(inbox'[e]) <= Backlog
  <2>1. <<>> \in Seq(Conns) /\ Len(<<>>) <= Backlog BY DaemonAssumption
  <2>2. inbox' = inbox \/ inbox' = [inbox EXCEPT ![d] = <<>>]
    BY DEF Replies, Reply, Drop
  <2> QED BY <1>1, <2>1, <2>2
<1> QED BY <1>2, <1>4, <1>5, <1>7, <1>8, <1>9, ProcsAre DEF Core, Busy

LEMMA StartRunCore ==
    ASSUME Core, NEW d \in Daemons, StartRun(d)
    PROVE  Core'
<1>1. d \in Procs /\ pc \in [Procs -> ClientPhases \cup DaemonPhases]
      /\ runs \in [Clients -> Nat]
  BY ProcsAre DEF Core
<1>2. /\ pc' \in [Procs -> ClientPhases \cup DaemonPhases]
      /\ pc'[d] = "running" /\ \A r \in Procs : r # d => pc'[r] = pc[r]
  BY <1>1, GotoIs DEF StartRun, DaemonPhases
<1>3. /\ pc[d] = "busy" /\ serving[d].op = "run"
      /\ UNCHANGED <<req, inbox, serving, outcome>>
  BY DEF StartRun
<1>4. runs' \in [Clients -> Nat]
  <2> DEFINE c == serving[d].from
  <2>1. runs' = [runs EXCEPT ![c] = @ + 1] BY DEF StartRun
  <2> HIDE DEF c
  <2>2. CASE c \in Clients
    <3>1. runs[c] + 1 \in Nat BY <1>1, <2>2
    <3> QED BY <1>1, <2>1, <3>1
  <2>3. CASE c \notin Clients BY <1>1, <2>1, <2>3
  <2> QED BY <2>2, <2>3
<1> QED BY <1>2, <1>3, <1>4, ProcsAre DEF Core, Busy, DaemonPhases

LEMMA CloseSocketCore ==
    ASSUME Core, NEW d \in Daemons, CloseSocket(d)
    PROVE  Core'
<1>1. /\ d \in Procs /\ pc \in [Procs -> ClientPhases \cup DaemonPhases]
      /\ req \in [Procs -> {"none", "waiting", "ok", "bad"}]
      /\ inbox \in [Daemons -> Seq(Conns)]
      /\ \A e \in Daemons : Len(inbox[e]) <= Backlog
  BY ProcsAre DEF Core
<1>2. /\ pc' \in [Procs -> ClientPhases \cup DaemonPhases]
      /\ pc'[d] = "cleanup" /\ \A r \in Procs : r # d => pc'[r] = pc[r]
  BY <1>1, GotoIs DEF CloseSocket, DaemonPhases
<1>3. pc[d] = "closing" /\ UNCHANGED <<serving, runs, outcome>>
  BY DEF CloseSocket, hist
<1>4. req' \in [Procs -> {"none", "waiting", "ok", "bad"}]
  BY <1>1 DEF CloseSocket, Drop
<1>5. /\ inbox' \in [Daemons -> Seq(Conns)]
      /\ \A e \in Daemons : Len(inbox'[e]) <= Backlog
  <2>1. <<>> \in Seq(Conns) /\ Len(<<>>) <= Backlog BY DaemonAssumption
  <2>2. inbox' = [inbox EXCEPT ![d] = <<>>] BY DEF CloseSocket, Drop
  <2> QED BY <1>1, <2>1, <2>2
<1> QED BY <1>2, <1>3, <1>4, <1>5, ProcsAre DEF Core, Busy, DaemonPhases

LEMMA GiveUpCore ==
    ASSUME Core, NEW p \in Procs, GiveUp(p)
    PROVE  Core'
<1>1. /\ req \in [Procs -> {"none", "waiting", "ok", "bad"}]
      /\ inbox \in [Daemons -> Seq(Conns)]
      /\ serving \in [Daemons -> Conns \cup {NoConn}]
      /\ \A e \in Daemons : Len(inbox[e]) <= Backlog
  BY DEF Core
<1>2. UNCHANGED <<pc, runs, outcome>> BY DEF GiveUp, hist
<1>3. req' \in [Procs -> {"none", "waiting", "ok", "bad"}] BY <1>1 DEF GiveUp
<1>4. ASSUME NEW d \in Daemons
      PROVE  /\ serving'[d] \in Conns \cup {NoConn}
             /\ serving'[d] \in Conns <=> serving[d] \in Conns
             /\ serving[d] = NoConn => serving'[d] = NoConn
             /\ serving'[d].op = serving[d].op
  <2>1. serving'[d] = Hangup(p, serving[d]) /\ serving[d] \in Conns \cup {NoConn}
    BY <1>1 DEF GiveUp
  <2> QED BY <2>1, HungUp
<1>5. ASSUME NEW d \in Daemons
      PROVE  inbox'[d] \in Seq(Conns) /\ Len(inbox'[d]) = Len(inbox[d])
  <2> DEFINE w == inbox[d]
             r == [k \in DOMAIN w |-> Hangup(p, w[k])]
  <2>1. inbox'[d] = r BY DEF GiveUp
  <2>2. w \in Seq(Conns) /\ Len(w) \in Nat /\ DOMAIN w = 1 .. Len(w) BY <1>1
  <2>3. \A k \in DOMAIN w : Hangup(p, w[k]) \in Conns
    BY <2>2, ElementOfSeq, HungUp
  <2>4. r \in Seq(Conns) /\ Len(r) = Len(w) BY <2>2, <2>3
  <2> QED BY <2>1, <2>4
<1>6. /\ inbox' \in [Daemons -> Seq(Conns)]
      /\ serving' \in [Daemons -> Conns \cup {NoConn}]
  BY <1>4, <1>5 DEF GiveUp
<1> QED BY <1>1, <1>2, <1>3, <1>4, <1>5, <1>6 DEF Core

LEMMA KindsCore ==
    ASSUME Typed, Kinds
    PROVE  Core'
BY TypedCore, StrollsCore, AsksCore, EndsCore, AcceptCore, ReplyCore, StartRunCore,
   CloseSocketCore, GiveUpCore DEF Kinds

LEMMA FilesTyped ==
    ASSUME Typed, [Next]_vars
    PROVE  /\ state' \in Daemons \cup {0} /\ sock' \in Daemons \cup {0}
           /\ cooldown' \in BOOLEAN
           /\ old' \subseteq Daemons /\ service' \subseteq Daemons
<1>1. /\ state \in Daemons \cup {0} /\ sock \in Daemons \cup {0}
      /\ cooldown \in BOOLEAN /\ old \subseteq Daemons /\ service \subseteq Daemons
  BY DEF Typed, TypeOK
<1>2. ASSUME NEW c \in Clients, ClientStep(c) \/ LoopEnds(c)
      PROVE  /\ state' \in {state, 0} /\ sock' \in {sock, 0}
             /\ cooldown' \in {cooldown, TRUE, FALSE} /\ UNCHANGED <<old, service>>
  BY <1>2 DEF ClientStep, LoopEnds, CheckRunning, FoundRunning, FoundNone, Decide,
     StopAnswered, Confirm, ConfirmAgain, ConfirmEnds, Clean, RemoveState, Spawn, Poll,
     PollAgain, PollEnds, Forward, Served, NotServed, RunLocally, files, births
<1>3. ASSUME NEW d \in Daemons, DaemonStep(d)
      PROVE  /\ state' \in {state, 0, d} /\ sock' \in {sock, 0, d}
             /\ UNCHANGED <<cooldown, old, service>>
  BY <1>3 DEF DaemonStep, ServeChecks, ServeYields, ServeGoesOn, Unlink, RemoveState,
     Bind, Publish, Warm, Accept, StopAccepting, ReplyUnauthorized, ReplyPing,
     ReplyShutdown, StartRun, FinishRun, CloseSocket, Cleanup, files, births
<1>4. ASSUME NEW p \in Procs, GiveUp(p)
      PROVE  UNCHANGED <<state, sock, cooldown, old, service>>
  BY <1>4 DEF GiveUp, files, births
<1>5. CASE CooldownExpires BY <1>1, <1>5 DEF CooldownExpires, births
<1>6. CASE UNCHANGED vars BY <1>1, <1>6 DEF vars
<1> QED BY <1>1, <1>2, <1>3, <1>4, <1>5, <1>6 DEF Next

LEMMA TypedStep ==
    ASSUME Typed, Requests, [Next]_vars
    PROVE  Typed'
BY FilesTyped, StepKinds, KindsCore DEF Typed, TypeOK, Core

-----------------------------------------------------------------------------
(* The state file.                                                         *)

Early == {"unborn", "born", "checking", "unlink", "bind", "publish"}

\* A daemon that has published itself does not go back.
LEMMA NeverEarlyAgain ==
    ASSUME Typed, [Next]_vars, NEW e \in Daemons, pc[e] \notin Early
    PROVE  pc'[e] \notin Early
<1>1. pc \in [Procs -> ClientPhases \cup DaemonPhases] /\ e \in Procs
  BY ProcsAre DEF Typed, TypeOK
<1>2. ASSUME NEW c \in Clients, ClientStep(c) \/ LoopEnds(c)
      PROVE  pc'[e] = pc[e]
  <2>1. c # e /\ c \in Procs BY ProcsAre
  <2>2. CASE \E phase : Goto(c, phase) BY <1>1, <2>1, <2>2 DEF Goto
  <2>3. CASE Spawn(c)
    <3>1. \A d \in Unborn : d # e BY DEF Unborn, Early
    <3> QED BY <1>1, <2>1, <2>3, <3>1 DEF Spawn, Goto
  <2>4. CASE ~Spawn(c)
    <3>1. \E phase : Goto(c, phase)
      BY <1>2, <2>4 DEF ClientStep, LoopEnds, CheckRunning, FoundRunning, FoundNone,
         Decide, StopAnswered, Confirm, ConfirmAgain, ConfirmEnds, Clean, Poll,
         PollAgain, PollEnds, Forward, Served, NotServed, RunLocally
    <3> QED BY <2>2, <3>1
  <2> QED BY <2>3, <2>4
<1>3. ASSUME NEW d \in Daemons, DaemonStep(d)
      PROVE  pc'[e] \notin Early
  <2>1. PICK phase : Goto(d, phase) /\ (pc[d] \notin Early => phase \notin Early)
    BY <1>3 DEF DaemonStep, ServeChecks, ServeYields, ServeGoesOn, Unlink,
       Bind, Publish, Warm, Accept, StopAccepting, ReplyUnauthorized, ReplyPing,
       ReplyShutdown, StartRun, FinishRun, CloseSocket, Cleanup, Reply, Early
  <2> QED BY <1>1, <2>1 DEF Goto
<1>4. CASE \/ \E p \in Procs : GiveUp(p)
           \/ CooldownExpires \/ UNCHANGED vars
  BY <1>4 DEF GiveUp, CooldownExpires, vars
<1> QED BY <1>2, <1>3, <1>4 DEF Next

LEMMA AnnouncedStep ==
    ASSUME Typed, AnnouncedAfterBind, [Next]_vars
    PROVE  AnnouncedAfterBind'
<1>1. state \in Daemons \cup {0} /\ state' \in Daemons \cup {0}
  BY FilesTyped DEF Typed, TypeOK
<1>2. CASE state' \in {state, 0}
  BY <1>1, <1>2, NeverEarlyAgain DEF AnnouncedAfterBind, Early
<1>3. CASE \E d \in Daemons : Publish(d)
  <2>1. PICK d \in Daemons : Publish(d) BY <1>3
  <2>2. pc'[d] = "warm"
    BY <2>1, ProcsAre DEF Publish, Goto, Typed, TypeOK
  <2> QED BY <2>1, <2>2 DEF Publish, AnnouncedAfterBind
<1>4. \/ state' \in {state, 0}
      \/ \E d \in Daemons : Publish(d)
  <2>1. ASSUME NEW c \in Clients, ClientStep(c) \/ LoopEnds(c)
        PROVE  state' \in {state, 0}
    BY <2>1 DEF ClientStep, LoopEnds, CheckRunning, FoundRunning, FoundNone, Decide,
       StopAnswered, Confirm, ConfirmAgain, ConfirmEnds, Clean, RemoveState, Spawn, Poll,
       PollAgain, PollEnds, Forward, Served, NotServed, RunLocally, files
  <2>2. ASSUME NEW d \in Daemons, DaemonStep(d)
        PROVE  state' \in {state, 0} \/ Publish(d)
    BY <2>2 DEF DaemonStep, ServeChecks, ServeYields, ServeGoesOn, Unlink, RemoveState,
       Bind, Warm, Accept, StopAccepting, ReplyUnauthorized, ReplyPing,
       ReplyShutdown, StartRun, FinishRun, CloseSocket, Cleanup, files
  <2>3. CASE \/ \E p \in Procs : GiveUp(p)
             \/ CooldownExpires \/ UNCHANGED vars
    BY <2>3 DEF GiveUp, CooldownExpires, vars, files
  <2> QED BY <2>1, <2>2, <2>3 DEF Next
<1> QED BY <1>2, <1>3, <1>4

-----------------------------------------------------------------------------
(* Requests.                                                               *)

LEMMA NotAmong ==
    ASSUME NEW p
    PROVE  NoConn \notin OpenOf(p) /\ NoConn \notin RunOf(p)
           /\ NoConn \notin OpenOf(p) \ RunOf(p)
BY NoConnIsNone DEF OpenOf, RunOf

LEMMA SameConns ==
    ASSUME NEW S, UNCHANGED <<inbox, serving>>
    PROVE  /\ Sole(S)' <=> Sole(S)
           /\ Nowhere(S)' <=> Nowhere(S)
           /\ \A d \in Daemons : Holds(d, S)' <=> Holds(d, S)
BY DEF Sole, Nowhere, Holds

\* Nothing becomes of the connections of p, or some go; p does not begin to wait.
LEMMA AskedKept ==
    ASSUME NEW p \in Procs, Asked(p), req'[p] = req[p], pc'[p] = pc[p],
           Sole(OpenOf(p))', \A d \in Daemons : Holds(d, OpenOf(p))' => Holds(d, OpenOf(p)),
           Nowhere(OpenOf(p) \ RunOf(p)) => Nowhere(OpenOf(p) \ RunOf(p))'
    PROVE  Asked(p)'
BY DEF Asked, Nowhere

LEMMA AskedOver ==
    ASSUME NEW p \in Procs, Nowhere(OpenOf(p)), req'[p] # "waiting",
           pc'[p] # "forwarded" \/ (pc[p] = "forwarded" /\ Asked(p)),
           Sole(OpenOf(p))', \A d \in Daemons : Holds(d, OpenOf(p))' => Holds(d, OpenOf(p)),
           Nowhere(OpenOf(p) \ RunOf(p)) => Nowhere(OpenOf(p) \ RunOf(p))'
    PROVE  Asked(p)'
BY DEF Asked, Nowhere

LEMMA StrollsAsked ==
    ASSUME Typed, Requests, Strolls
    PROVE  Requests'
<1> SUFFICES ASSUME NEW p \in Procs PROVE Asked(p)'
  BY DEF Requests
<1>1. Asked(p) /\ UNCHANGED <<inbox, serving>> BY DEF Requests, Strolls
<1>2. /\ Sole(OpenOf(p))'
      /\ \A d \in Daemons : Holds(d, OpenOf(p))' => Holds(d, OpenOf(p))
      /\ Nowhere(OpenOf(p) \ RunOf(p)) => Nowhere(OpenOf(p) \ RunOf(p))'
  BY <1>1, SameConns DEF Asked
<1>3. CASE pc'[p] = pc[p] /\ req'[p] = req[p] BY <1>1, <1>2, <1>3, AskedKept
<1>4. CASE /\ req[p] # "waiting" /\ req'[p] \in {req[p], "none"}
           /\ Legal(p, pc[p], pc'[p])
  <2>1. Nowhere(OpenOf(p)) /\ req'[p] # "waiting" BY <1>1, <1>4 DEF Asked
  <2>2. pc'[p] # "forwarded" BY <1>4 DEF Legal, Before, DaemonPhases
  <2> QED BY <1>2, <2>1, <2>2, AskedOver
<1> QED BY <1>3, <1>4 DEF Strolls

LEMMA AsksAsked ==
    ASSUME Typed, Requests, NEW p \in Procs, NEW op, NEW phase, Asks(p, op, phase)
    PROVE  Requests'
<1>1. /\ Core /\ sock \in Daemons \cup {0} /\ state \in Daemons \cup {0}
      /\ pc \in [Procs -> ClientPhases \cup DaemonPhases]
      /\ inbox \in [Daemons -> Seq(Conns)]
  BY TypedCore DEF Typed, TypeOK
<1>2. /\ Request(p, op) /\ op \in Ops /\ serving' = serving
      /\ pc[p] \notin Asking /\ phase \in Asking /\ (phase = "forwarded" => op = "run")
  BY DEF Asks, Before
<1>3. pc'[p] = phase /\ \A r \in Procs : r # p => pc'[r] = pc[r]
  BY <1>1, GotoIs DEF Asks
<1>4. \A r \in Procs : Asked(r) BY DEF Requests
<1>5. Nowhere(OpenOf(p)) BY <1>2, <1>4 DEF Asked
<1>6. /\ \A r \in Procs : r # p => req'[r] = req[r]
      /\ \/ req'[p] = "bad" /\ inbox' = inbox
         \/ /\ req'[p] = "waiting"
            /\ \E e \in Daemons, x \in Conns :
                  /\ x.from = p /\ x.op = op /\ x.open
                  /\ inbox' = [inbox EXCEPT ![e] = Append(@, x)]
  BY <1>1, <1>2, RequestIs
<1>7. CASE req'[p] = "bad" /\ inbox' = inbox
  <2> SUFFICES ASSUME NEW r \in Procs PROVE Asked(r)'
    BY DEF Requests
  <2>1. /\ Sole(OpenOf(r))'
        /\ \A d \in Daemons : Holds(d, OpenOf(r))' => Holds(d, OpenOf(r))
        /\ Nowhere(OpenOf(r) \ RunOf(r)) => Nowhere(OpenOf(r) \ RunOf(r))'
    BY <1>2, <1>4, <1>7, SameConns DEF Asked
  <2>2. CASE r # p BY <1>3, <1>4, <1>6, <2>1, <2>2, AskedKept
  <2>3. CASE r = p
    <3>1. Nowhere(OpenOf(p) \ RunOf(p)) BY <1>5 DEF Nowhere, Holds, In
    <3>2. Nowhere(OpenOf(p) \ RunOf(p))' BY <2>1, <2>3, <3>1
    <3>3. Nowhere(OpenOf(p))' BY <1>5, <2>1, <2>3 DEF Nowhere
    <3> QED BY <1>7, <2>1, <2>3, <3>2, <3>3 DEF Asked
  <2> QED BY <2>2, <2>3
<1>8. ASSUME NEW e \in Daemons, NEW x \in Conns, req'[p] = "waiting",
             x.from = p, x.op = op, x.open, inbox' = [inbox EXCEPT ![e] = Append(@, x)]
      PROVE  Requests'
  <2> SUFFICES ASSUME NEW r \in Procs PROVE Asked(r)'
    BY DEF Requests
  <2>1. CASE r # p
    <3> DEFINE S == OpenOf(r)
               T == OpenOf(r) \ RunOf(r)
    <3>1. x \notin S /\ x \notin T BY <1>8, <2>1 DEF OpenOf
    <3> HIDE DEF S, T
    <3>2. /\ \A d \in Daemons : In(inbox'[d], S) <=> In(inbox[d], S)
          /\ \A d \in Daemons : In(inbox'[d], T) <=> In(inbox[d], T)
          /\ Sole(S) => Sole(S)'
      BY <1>1, <1>2, <1>8, <3>1, Arrives
    <3>3. Sole(S)' BY <1>4, <3>2 DEF Asked, S
    <3>4. \A d \in Daemons : Holds(d, S)' => Holds(d, S) BY <1>2, <3>2 DEF Holds
    <3>5. Nowhere(T) => Nowhere(T)' BY <1>2, <3>2 DEF Nowhere, Holds
    <3> QED BY <1>3, <1>4, <1>6, <2>1, <3>3, <3>4, <3>5, AskedKept DEF S, T
  <2>2. CASE r = p
    <3> DEFINE S == OpenOf(p)
               T == OpenOf(p) \ RunOf(p)
    <3>1. x \in S /\ (phase = "forwarded" => x \notin T)
      BY <1>2, <1>8 DEF OpenOf, RunOf
    <3>2. Nowhere(S) /\ Nowhere(T) BY <1>5 DEF Nowhere, Holds, In
    <3> HIDE DEF S, T
    <3>3. Sole(S)' BY <1>1, <1>2, <1>8, <3>1, <3>2, Arrives
    <3>4. ASSUME phase = "forwarded" PROVE Nowhere(T)'
      <4>1. \A d \in Daemons : In(inbox'[d], T) <=> In(inbox[d], T)
        BY <1>1, <1>2, <1>8, <3>1, <3>4, Arrives
      <4> QED BY <1>2, <3>2, <4>1 DEF Nowhere, Holds
    <3> QED BY <1>2, <1>3, <1>8, <2>2, <3>3, <3>4 DEF Asked, S, T
  <2> QED BY <2>1, <2>2
<1> QED BY <1>6, <1>7, <1>8

LEMMA EndsAsked ==
    ASSUME Typed, Requests, NEW c \in Clients, Served(c) \/ RunLocally(c)
    PROVE  Requests'
<1> SUFFICES ASSUME NEW p \in Procs PROVE Asked(p)'
  BY DEF Requests
<1>1. /\ pc \in [Procs -> ClientPhases \cup DaemonPhases]
      /\ req \in [Procs -> {"none", "waiting", "ok", "bad"}] /\ c \in Procs
  BY ProcsAre DEF Typed, TypeOK
<1>2. Asked(p) /\ Asked(c) /\ UNCHANGED <<inbox, serving>>
  BY <1>1 DEF Requests, Served, RunLocally
<1>3. /\ Sole(OpenOf(p))'
      /\ \A d \in Daemons : Holds(d, OpenOf(p))' => Holds(d, OpenOf(p))
      /\ Nowhere(OpenOf(p) \ RunOf(p)) => Nowhere(OpenOf(p) \ RunOf(p))'
  BY <1>2, SameConns DEF Asked
<1>4. pc'[c] = "done" /\ \A r \in Procs : r # c => pc'[r] = pc[r]
  BY <1>1, GotoIs DEF Served, RunLocally
<1>5. /\ req[c] # "waiting" /\ req'[c] # "waiting"
      /\ \A r \in Procs : r # c => req'[r] = req[r]
  BY <1>1, <1>2 DEF Served, RunLocally, Hears, Asked, Asking
<1>6. CASE p # c BY <1>2, <1>3, <1>4, <1>5, <1>6, AskedKept
<1>7. CASE p = c
  <2>1. Nowhere(OpenOf(p)) BY <1>2, <1>5, <1>7 DEF Asked
  <2> QED BY <1>3, <1>4, <1>5, <1>7, <2>1, AskedOver
<1> QED BY <1>6, <1>7

\* A daemon turns to something else while no connection comes.
LEMMA DaemonAsked ==
    ASSUME Typed, NEW d \in Daemons, NEW p \in Procs, Asked(p), req'[p] = req[p],
           pc[d] \notin Asking, pc'[d] # "forwarded",
           \A r \in Procs : r # d => pc'[r] = pc[r],
           Sole(OpenOf(p))', \A e \in Daemons : Holds(e, OpenOf(p))' => Holds(e, OpenOf(p)),
           Nowhere(OpenOf(p) \ RunOf(p)) => Nowhere(OpenOf(p) \ RunOf(p))'
    PROVE  Asked(p)'
<1>1. CASE p # d BY <1>1, AskedKept
<1>2. CASE p = d
  <2>1. Nowhere(OpenOf(p)) /\ req'[p] # "waiting" BY <1>2 DEF Asked
  <2> QED BY <1>2, <2>1, AskedOver
<1> QED BY <1>1, <1>2

LEMMA AcceptAsked ==
    ASSUME Typed, Requests, NEW d \in Daemons, Accept(d)
    PROVE  Requests'
<1> SUFFICES ASSUME NEW p \in Procs PROVE Asked(p)'
  BY DEF Requests
<1>1. /\ pc \in [Procs -> ClientPhases \cup DaemonPhases] /\ d \in Procs
      /\ inbox \in [Daemons -> Seq(Conns)] /\ Asked(p)
      /\ serving \in [Daemons -> Conns \cup {NoConn}]
      /\ pc[d] = "accept" /\ inbox[d] # <<>> /\ req' = req
  BY ProcsAre DEF Typed, TypeOK, Requests, Accept
<1>2. /\ serving[d] = NoConn /\ serving' = [serving EXCEPT ![d] = Head(inbox[d])]
      /\ inbox' = [inbox EXCEPT ![d] = Tail(@)]
  BY <1>1 DEF Accept, Typed, Busy
<1>3. pc'[d] = "busy" /\ \A r \in Procs : r # d => pc'[r] = pc[r]
  BY <1>1, GotoIs DEF Accept
<1> DEFINE S == OpenOf(p)
           T == OpenOf(p) \ RunOf(p)
<1>4. NoConn \notin S /\ NoConn \notin T /\ Sole(S) BY <1>1, NotAmong DEF Asked
<1> HIDE DEF S, T
<1>5. /\ \A e \in Daemons : Holds(e, S)' => Holds(e, S)
      /\ \A e \in Daemons : Holds(e, T)' => Holds(e, T)
      /\ Sole(S)'
  BY <1>1, <1>2, <1>4, Accepted
<1>6. Nowhere(T) => Nowhere(T)' BY <1>5 DEF Nowhere
<1>7. pc[d] \notin Asking /\ pc'[d] # "forwarded" BY <1>1, <1>3 DEF Asking
<1> QED BY <1>1, <1>3, <1>5, <1>6, <1>7, DaemonAsked DEF S, T

LEMMA StartRunAsked ==
    ASSUME Typed, Requests, NEW d \in Daemons, StartRun(d)
    PROVE  Requests'
<1> SUFFICES ASSUME NEW p \in Procs PROVE Asked(p)'
  BY DEF Requests
<1>1. /\ pc \in [Procs -> ClientPhases \cup DaemonPhases] /\ d \in Procs
      /\ Asked(p) /\ pc[d] \notin Asking /\ UNCHANGED <<inbox, serving, req>>
  BY ProcsAre DEF Typed, TypeOK, Requests, StartRun, Asking
<1>2. /\ Sole(OpenOf(p))'
      /\ \A e \in Daemons : Holds(e, OpenOf(p))' => Holds(e, OpenOf(p))
      /\ Nowhere(OpenOf(p) \ RunOf(p)) => Nowhere(OpenOf(p) \ RunOf(p))'
  BY <1>1, SameConns DEF Asked
<1>3. pc'[d] = "running" /\ \A r \in Procs : r # d => pc'[r] = pc[r]
  BY <1>1, GotoIs DEF StartRun
<1> QED BY <1>1, <1>2, <1>3, DaemonAsked

LEMMA GiveUpAsked ==
    ASSUME Typed, Requests, NEW p \in Procs, GiveUp(p)
    PROVE  Requests'
<1> SUFFICES ASSUME NEW r \in Procs PROVE Asked(r)'
  BY DEF Requests
<1>1. /\ inbox \in [Daemons -> Seq(Conns)] /\ Asked(r) /\ pc' = pc
      /\ serving \in [Daemons -> Conns \cup {NoConn}]
      /\ req \in [Procs -> {"none", "waiting", "ok", "bad"}]
      /\ req' = [req EXCEPT ![p] = "bad"]
  BY DEF Typed, TypeOK, Requests, GiveUp
<1> DEFINE S == OpenOf(r)
           T == OpenOf(r) \ RunOf(r)
<1>2. \A x \in Conns \cup {NoConn} :
         /\ Hangup(p, x) \in S => x \in S
         /\ Hangup(p, x) \in T => x \in T
  BY HungUp
<1>3. Sole(S) BY <1>1 DEF Asked
<1> HIDE DEF S, T
<1>4. /\ \A d \in Daemons : Holds(d, S)' => Holds(d, S)
      /\ \A d \in Daemons : Holds(d, T)' => Holds(d, T)
      /\ Sole(S)'
  BY <1>1, <1>2, <1>3, GaveUp
<1>5. Nowhere(T) => Nowhere(T)' BY <1>4 DEF Nowhere
<1>6. CASE r # p BY <1>1, <1>4, <1>5, <1>6, AskedKept DEF S, T
<1>7. CASE r = p
  <2>1. Nowhere(OpenOf(p))' BY <1>1, GaveUpAll
  <2>2. req'[p] = "bad" BY <1>1
  <2> QED BY <1>1, <1>4, <1>5, <1>7, <2>1, <2>2 DEF Asked, S, T
<1> QED BY <1>6, <1>7

\* A daemon lets go of everybody who is connected to its socket.
LEMMA DropAsked ==
    ASSUME Typed, Requests, NEW d \in Daemons, Drop(d),
           pc[d] \notin Asking, pc'[d] # "forwarded",
           \A r \in Procs : r # d => pc'[r] = pc[r],
           \A e \in Daemons : serving'[e] = serving[e] \/ serving'[e] = NoConn
    PROVE  Requests'
<1> SUFFICES ASSUME NEW p \in Procs PROVE Asked(p)'
  BY DEF Requests
<1>1. /\ inbox \in [Daemons -> Seq(Conns)] /\ Asked(p) /\ d \in Procs
      /\ req' = [r \in Procs |-> IF r \in CutOff(d) THEN "bad" ELSE req[r]]
      /\ inbox' = [inbox EXCEPT ![d] = <<>>]
  BY ProcsAre DEF Typed, TypeOK, Requests, Drop
<1>2. /\ \A e \in Daemons : inbox'[e] = inbox[e] \/ inbox'[e] = <<>>
      /\ inbox'[d] = <<>>
  BY <1>1
<1> DEFINE S == OpenOf(p)
           T == OpenOf(p) \ RunOf(p)
<1>3. NoConn \notin S /\ NoConn \notin T /\ Sole(S) BY <1>1, NotAmong DEF Asked
<1>4. ASSUME p \in CutOff(d) PROVE In(inbox[d], S)
  <2>1. PICK k \in DOMAIN inbox[d] : inbox[d][k].open /\ inbox[d][k].from = p
    BY <1>4 DEF CutOff, Pending
  <2>2. inbox[d][k] \in Conns BY <1>1, ElementOfSeq
  <2> QED BY <2>1, <2>2 DEF In, OpenOf
<1> HIDE DEF S, T
<1>5. Sole(S)' /\ \A e \in Daemons : Holds(e, S)' => Holds(e, S)
  BY <1>2, <1>3, Fewer
<1>6. Nowhere(T) => Nowhere(T)' BY <1>2, <1>3, FewerNowhere
<1>7. CASE p \notin CutOff(d)
  <2>1. req'[p] = req[p] BY <1>1, <1>7
  <2> QED BY <1>1, <1>5, <1>6, <2>1, DaemonAsked DEF S, T
<1>8. CASE p \in CutOff(d)
  <2>1. req'[p] = "bad" BY <1>1, <1>8
  <2>2. Nowhere(S)'
    <3>1. In(inbox[d], S) /\ serving[d] \notin S BY <1>3, <1>4, <1>8 DEF Sole
    <3>2. \A e \in Daemons : e # d => ~Holds(e, S)
      BY <1>3, <3>1 DEF Sole, Holds
    <3>3. ~In(inbox'[d], S) /\ serving'[d] \notin S
      BY <1>2, <1>3, <3>1, InEmpty
    <3>4. ~Holds(d, S)' BY <3>3 DEF Holds
    <3> QED BY <1>5, <3>2, <3>4 DEF Nowhere
  <2>3. pc'[p] = "forwarded" => pc[p] = "forwarded" OBVIOUS
  <2> QED BY <1>1, <1>5, <1>6, <2>1, <2>2, <2>3 DEF Asked, S, T
<1> QED BY <1>7, <1>8

LEMMA CloseSocketAsked ==
    ASSUME Typed, Requests, NEW d \in Daemons, CloseSocket(d)
    PROVE  Requests'
<1>1. /\ pc \in [Procs -> ClientPhases \cup DaemonPhases] /\ d \in Procs
      /\ pc[d] = "closing" /\ Drop(d) /\ serving' = serving
  BY ProcsAre DEF Typed, TypeOK, CloseSocket
<1>2. pc'[d] = "cleanup" /\ \A r \in Procs : r # d => pc'[r] = pc[r]
  BY <1>1, GotoIs DEF CloseSocket
<1> QED BY <1>1, <1>2, DropAsked DEF Asking

\* What a reply does.
LEMMA ReplyIs ==
    ASSUME Typed, NEW d \in Daemons, NEW verdict, NEW next, Replies(d, verdict, next)
    PROVE  /\ d \in Procs /\ pc[d] \in Busy /\ serving[d] \in Conns
           /\ \A r \in Procs : r # d => pc'[r] = pc[r]
           /\ pc'[d] \in {"accept", "closing", "gone"}
           /\ serving'[d] = NoConn
           /\ \A e \in Daemons : e # d => serving'[e] = serving[e]
           /\ \/ serving[d].open /\ inbox' = inbox
                 /\ req' = [req EXCEPT ![serving[d].from] = verdict]
              \/ ~serving[d].open /\ Drop(d)
           /\ \A e \in Daemons : inbox'[e] = inbox[e] \/ inbox'[e] = <<>>
           /\ UNCHANGED <<runs, outcome>>
<1>1. /\ pc \in [Procs -> ClientPhases \cup DaemonPhases] /\ d \in Procs
      /\ serving \in [Daemons -> Conns \cup {NoConn}]
      /\ inbox \in [Daemons -> Seq(Conns)]
      /\ pc[d] \in Busy
  BY ProcsAre DEF Typed, TypeOK, Replies
<1>2. serving[d] \in Conns BY <1>1 DEF Typed
<1>3. PICK phase \in {"accept", "closing", "gone"} : Goto(d, phase)
  BY DEF Replies, Reply
<1>4. pc'[d] = phase /\ \A r \in Procs : r # d => pc'[r] = pc[r]
  BY <1>1, <1>3, GotoIs
<1>5. serving' = [serving EXCEPT ![d] = NoConn] BY DEF Replies, Reply
<1>6. \/ serving[d].open /\ inbox' = inbox
         /\ req' = [req EXCEPT ![serving[d].from] = verdict]
      \/ ~serving[d].open /\ Drop(d)
  BY DEF Replies, Reply
<1>7. \A e \in Daemons : inbox'[e] = inbox[e] \/ inbox'[e] = <<>>
  BY <1>1, <1>6 DEF Drop
<1>8. UNCHANGED <<runs, outcome>> BY DEF Replies
<1> QED BY <1>1, <1>2, <1>4, <1>5, <1>6, <1>7, <1>8

LEMMA ReplyAsked ==
    ASSUME Typed, Requests, NEW d \in Daemons, NEW verdict, NEW next,
           Replies(d, verdict, next)
    PROVE  Requests'
<1>1. /\ d \in Procs /\ pc[d] \in Busy /\ serving[d] \in Conns
      /\ \A r \in Procs : r # d => pc'[r] = pc[r]
      /\ pc'[d] \in {"accept", "closing", "gone"}
      /\ serving'[d] = NoConn
      /\ \A e \in Daemons : e # d => serving'[e] = serving[e]
      /\ \A e \in Daemons : inbox'[e] = inbox[e] \/ inbox'[e] = <<>>
  BY ReplyIs
<1>2. pc[d] \notin Asking /\ pc'[d] # "forwarded" BY <1>1 DEF Asking, Busy
<1>3. \A e \in Daemons : serving'[e] = serving[e] \/ serving'[e] = NoConn
  BY <1>1
<1>4. CASE ~serving[d].open
  <2>1. Drop(d) BY <1>4, ReplyIs
  <2> QED BY <1>1, <1>2, <1>3, <2>1, DropAsked
<1>5. CASE serving[d].open
  <2> SUFFICES ASSUME NEW p \in Procs PROVE Asked(p)'
    BY DEF Requests
  <2>1. req' = [req EXCEPT ![serving[d].from] = verdict] /\ Asked(p)
    BY <1>5, ReplyIs DEF Requests
  <2> DEFINE S == OpenOf(p)
             T == OpenOf(p) \ RunOf(p)
  <2>2. NoConn \notin S /\ NoConn \notin T /\ Sole(S) BY <2>1, NotAmong DEF Asked
  <2>3. p = serving[d].from => serving[d] \in S BY <1>1, <1>5 DEF OpenOf
  <2> HIDE DEF S, T
  <2>4. Sole(S)' /\ \A e \in Daemons : Holds(e, S)' => Holds(e, S)
    BY <1>1, <1>3, <2>2, Fewer
  <2>5. Nowhere(T) => Nowhere(T)' BY <1>1, <1>3, <2>2, FewerNowhere
  <2>6. CASE p # serving[d].from
    <3>1. req'[p] = req[p] BY <2>1, <2>6
    <3> QED BY <1>1, <1>2, <2>1, <2>4, <2>5, <3>1, DaemonAsked DEF S, T
  <2>7. CASE p = serving[d].from
    <3>1. req'[p] # "waiting"
      BY <2>1, <2>7 DEF Replies, Typed, TypeOK
    <3>2. Nowhere(S)'
      <4>1. serving[d] \in S /\ ~In(inbox[d], S) BY <2>2, <2>3, <2>7 DEF Sole
      <4>2. \A e \in Daemons : e # d => ~Holds(e, S) BY <2>2, <4>1 DEF Sole, Holds
      <4>3. inbox'[d] = inbox[d] BY <1>5, ReplyIs
      <4>4. ~Holds(d, S)' BY <1>1, <2>2, <4>1, <4>3 DEF Holds
      <4> QED BY <2>4, <4>2, <4>4 DEF Nowhere
    <3>3. pc'[p] = "forwarded" => pc[p] = "forwarded" BY <1>1, <1>2
    <3> QED BY <2>1, <2>4, <2>5, <3>1, <3>2, <3>3 DEF Asked, S, T
  <2> QED BY <2>6, <2>7
<1> QED BY <1>4, <1>5

LEMMA RequestsStep ==
    ASSUME Typed, Requests, [Next]_vars
    PROVE  Requests'
BY StepKinds, StrollsAsked, AsksAsked, EndsAsked, AcceptAsked, StartRunAsked,
   CloseSocketAsked, ReplyAsked, GiveUpAsked DEF Kinds

-----------------------------------------------------------------------------
(* Commands.                                                               *)

\* c's command is where it was, or gone; c goes on without it, if at all.
LEMMA CommandKept ==
    ASSUME NEW c \in Clients, Command(c), runs'[c] = runs[c], outcome'[c] = outcome[c],
           Sole(RunOf(c))', \A d \in Daemons : Holds(d, RunOf(c))' => Holds(d, RunOf(c)),
           pc'[c] \in Before => pc[c] \in Before,
           pc'[c] = "forwarded" => pc[c] = "forwarded",
           pc'[c] = "done" <=> pc[c] = "done",
           Unstarted(c)' => Unstarted(c),
           \A d \in Daemons : Executes(d, c)' => Executes(d, c),
           pc'[c] = "forwarded" /\ req'[c] = "ok"
               => req[c] = "ok" \/ (runs[c] = 1 /\ Nowhere(RunOf(c))')
    PROVE  Command(c)'
<1>1. Nowhere(RunOf(c)) => Nowhere(RunOf(c))' BY DEF Nowhere
<1> QED BY <1>1 DEF Command

LEMMA StrollsCommand ==
    ASSUME Typed, Strolls, NEW c \in Clients, Command(c)
    PROVE  Command(c)'
<1>1. UNCHANGED <<inbox, serving, runs, outcome>> /\ c \in Procs
  BY ProcsAre DEF Strolls
<1>2. /\ Sole(RunOf(c))'
      /\ \A d \in Daemons : Holds(d, RunOf(c))' => Holds(d, RunOf(c))
  BY <1>1, SameConns DEF Command
<1>3. /\ pc'[c] \in Before => pc[c] \in Before
      /\ pc'[c] = "forwarded" => pc[c] = "forwarded"
      /\ pc'[c] = "done" <=> pc[c] = "done"
      /\ req'[c] = "ok" => req[c] = "ok"
  BY <1>1, ProcsAre DEF Strolls, Legal, Before, ClientPhases
<1>4. \A d \in Daemons : /\ pc'[d] = "busy" => pc[d] = "busy"
                         /\ pc'[d] = "running" => pc[d] = "running"
  BY ProcsAre DEF Strolls, Legal, Busy
<1>5. Unstarted(c)' => Unstarted(c) BY <1>1, <1>4 DEF Unstarted
<1>6. \A d \in Daemons : Executes(d, c)' => Executes(d, c)
  BY <1>1, <1>4 DEF Executes
<1> QED BY <1>1, <1>2, <1>3, <1>5, <1>6, CommandKept

LEMMA AsksCommand ==
    ASSUME Typed, NEW p \in Procs, NEW op, NEW phase, Asks(p, op, phase),
           NEW c \in Clients, Command(c)
    PROVE  Command(c)'
<1>1. /\ Core /\ sock \in Daemons \cup {0} /\ state \in Daemons \cup {0}
      /\ pc \in [Procs -> ClientPhases \cup DaemonPhases]
      /\ inbox \in [Daemons -> Seq(Conns)] /\ c \in Procs
  BY TypedCore, ProcsAre DEF Typed, TypeOK
<1>2. Request(p, op) /\ op \in Ops /\ UNCHANGED <<serving, runs, outcome>>
  BY DEF Asks
<1>3. pc'[p] = phase /\ \A r \in Procs : r # p => pc'[r] = pc[r]
  BY <1>1, GotoIs DEF Asks
<1>4. /\ \A r \in Procs : r # p => req'[r] = req[r]
      /\ \/ req'[p] = "bad" /\ inbox' = inbox
         \/ /\ req'[p] = "waiting"
            /\ \E e \in Daemons, x \in Conns :
                  /\ x.from = p /\ x.op = op
                  /\ inbox' = [inbox EXCEPT ![e] = Append(@, x)]
  BY <1>1, <1>2, RequestIs
<1> DEFINE S == RunOf(c)
<1>5. \A d \in Daemons : /\ pc'[d] = "busy" => pc[d] = "busy"
                         /\ pc'[d] = "running" => pc[d] = "running"
  BY <1>3, ProcsAre DEF Asks
<1>6. Sole(S) BY DEF Command
<1>7. CASE p = c /\ op = "run"
  <2>1. pc[c] \in Before /\ phase = "forwarded" BY <1>7, ProcsAre DEF Asks
  <2>2. runs[c] = 0 /\ Nowhere(S) /\ outcome[c] = "none"
    BY <2>1 DEF Command, Before
  <2>3. \A d \in Daemons : serving'[d] \notin S
    BY <1>2, <2>2 DEF Nowhere, Holds
  <2>4. Sole(S)'
    <3>1. CASE inbox' = inbox BY <1>2, <1>6, <3>1, SameConns
    <3>2. ASSUME NEW e \in Daemons, NEW x \in Conns, x.from = p, x.op = op,
                 inbox' = [inbox EXCEPT ![e] = Append(@, x)]
          PROVE  Sole(S)'
      <4>1. x \in S BY <1>7, <3>2 DEF RunOf
      <4> HIDE DEF S
      <4> QED BY <1>1, <1>2, <2>2, <3>2, <4>1, Arrives
    <3> QED BY <1>4, <3>1, <3>2
  <2>5. req'[c] # "ok" /\ pc'[c] = "forwarded" BY <1>3, <1>4, <1>7, <2>1
  <2> QED BY <1>2, <2>2, <2>3, <2>4, <2>5 DEF Command, Executes, Before
<1>8. CASE ~(p = c /\ op = "run")
  <2>1. \A d \in Daemons : In(inbox'[d], S) <=> In(inbox[d], S)
    <3>1. CASE inbox' = inbox BY <3>1
    <3>2. ASSUME NEW e \in Daemons, NEW x \in Conns, x.from = p, x.op = op,
                 inbox' = [inbox EXCEPT ![e] = Append(@, x)]
          PROVE  \A d \in Daemons : In(inbox'[d], S) <=> In(inbox[d], S)
      <4>1. x \notin S BY <1>8, <3>2 DEF RunOf
      <4> HIDE DEF S
      <4> QED BY <1>1, <1>2, <3>2, <4>1, Arrives
    <3> QED BY <1>4, <3>1, <3>2
  <2>2. Sole(S)'
    <3>1. CASE inbox' = inbox BY <1>2, <1>6, <3>1, SameConns
    <3>2. ASSUME NEW e \in Daemons, NEW x \in Conns, x.from = p, x.op = op,
                 inbox' = [inbox EXCEPT ![e] = Append(@, x)]
          PROVE  Sole(S)'
      <4>1. x \notin S BY <1>8, <3>2 DEF RunOf
      <4> HIDE DEF S
      <4> QED BY <1>1, <1>2, <1>6, <3>2, <4>1, Arrives
    <3> QED BY <1>4, <3>1, <3>2
  <2>3. \A d \in Daemons : Holds(d, S)' => Holds(d, S)
    BY <1>2, <2>1 DEF Holds
  <2>4. Unstarted(c)' => Unstarted(c) BY <1>2, <1>5, <2>1 DEF Unstarted
  <2>5. \A d \in Daemons : Executes(d, c)' => Executes(d, c)
    BY <1>2, <1>5 DEF Executes
  <2>6. /\ pc'[c] \in Before => pc[c] \in Before
        /\ pc'[c] = "forwarded" => pc[c] = "forwarded"
        /\ pc'[c] = "done" <=> pc[c] = "done"
        /\ req'[c] = "ok" => req[c] = "ok"
    <3>1. CASE p = c
      <4>1. pc[c] \in Before /\ phase \in Before
        BY <1>8, <3>1, ProcsAre DEF Asks
      <4> QED BY <1>3, <1>4, <3>1, <4>1 DEF Before
    <3>2. CASE p # c BY <1>1, <1>3, <1>4, <3>2
    <3> QED BY <3>1, <3>2
  <2> QED BY <1>2, <2>2, <2>3, <2>4, <2>5, <2>6, CommandKept
<1> QED BY <1>7, <1>8

LEMMA EndsCommand ==
    ASSUME Typed, NEW b \in Clients, Served(b) \/ RunLocally(b),
           NEW c \in Clients, Command(c)
    PROVE  Command(c)'
<1>1. /\ pc \in [Procs -> ClientPhases \cup DaemonPhases] /\ b \in Procs /\ c \in Procs
      /\ req \in [Procs -> {"none", "waiting", "ok", "bad"}]
      /\ runs \in [Clients -> Nat]
      /\ outcome \in [Clients -> {"none", "served", "local"}]
      /\ UNCHANGED <<inbox, serving>>
  BY ProcsAre DEF Typed, TypeOK, Served, RunLocally
<1>2. pc'[b] = "done" /\ \A r \in Procs : r # b => pc'[r] = pc[r]
  BY <1>1, GotoIs DEF Served, RunLocally
<1>3. \A d \in Daemons : pc'[d] = pc[d] BY <1>2, ProcsAre
<1>4. /\ Sole(RunOf(c))'
      /\ \A d \in Daemons : Holds(d, RunOf(c))' => Holds(d, RunOf(c))
      /\ Nowhere(RunOf(c))' <=> Nowhere(RunOf(c))
  BY <1>1, SameConns DEF Command
<1>5. /\ Unstarted(c)' => Unstarted(c)
      /\ \A d \in Daemons : Executes(d, c)' => Executes(d, c)
  BY <1>1, <1>3 DEF Unstarted, Executes
<1>6. CASE c # b
  <2>1. pc'[c] = pc[c] BY <1>1, <1>2, <1>6
  <2>2. req'[c] = req[c] /\ runs'[c] = runs[c] /\ outcome'[c] = outcome[c]
    BY <1>1, <1>6 DEF Served, RunLocally, Hears
  <2> QED BY <1>4, <1>5, <2>1, <2>2, CommandKept
<1>7. CASE c = b /\ Served(c)
  <2>1. runs[c] = 1 /\ Nowhere(RunOf(c)) BY <1>7 DEF Served, Hears, Command
  <2>2. runs'[c] = 1 /\ outcome'[c] = "served" /\ pc'[c] = "done"
    BY <1>1, <1>2, <1>7, <2>1 DEF Served
  <2> QED BY <1>4, <2>1, <2>2 DEF Command, Before
<1>8. CASE c = b /\ RunLocally(c)
  <2>1. /\ pc[c] = "local" /\ runs[c] \in Nat /\ runs[c] <= 1
        /\ Unstarted(c) => runs[c] = 0
    BY <1>1, <1>8 DEF RunLocally, Command
  <2>2. runs'[c] = runs[c] + 1 /\ outcome'[c] = "local" /\ pc'[c] = "done"
    BY <1>1, <1>2, <1>8 DEF RunLocally
  <2>3. runs'[c] \in 1..2 /\ (Unstarted(c)' => runs'[c] = 1)
    BY <1>5, <2>1, <2>2
  <2> QED BY <1>4, <2>2, <2>3 DEF Command, Before
<1> QED BY <1>6, <1>7, <1>8

LEMMA AcceptCommand ==
    ASSUME Typed, NEW d \in Daemons, Accept(d), NEW c \in Clients, Command(c)
    PROVE  Command(c)'
<1>1. /\ pc \in [Procs -> ClientPhases \cup DaemonPhases] /\ d \in Procs
      /\ inbox \in [Daemons -> Seq(Conns)]
      /\ serving \in [Daemons -> Conns \cup {NoConn}]
      /\ pc[d] = "accept" /\ inbox[d] # <<>> /\ UNCHANGED <<req, runs, outcome>>
  BY ProcsAre DEF Typed, TypeOK, Accept, hist
<1>2. /\ serving[d] = NoConn /\ serving' = [serving EXCEPT ![d] = Head(inbox[d])]
      /\ inbox' = [inbox EXCEPT ![d] = Tail(@)]
  BY <1>1 DEF Accept, Typed, Busy
<1>3. pc'[d] = "busy" /\ \A r \in Procs : r # d => pc'[r] = pc[r]
  BY <1>1, GotoIs DEF Accept
<1> DEFINE S == RunOf(c)
<1>4. NoConn \notin S /\ Sole(S) BY NotAmong DEF Command
<1> HIDE DEF S
<1>5. /\ \A e \in Daemons : In(inbox'[e], S) => In(inbox[e], S)
      /\ serving'[d] \in S => In(inbox[d], S)
      /\ \A e \in Daemons : e # d => serving'[e] = serving[e]
      /\ \A e \in Daemons : Holds(e, S)' => Holds(e, S)
      /\ Sole(S)'
  BY <1>1, <1>2, <1>4, Accepted
<1>6. Unstarted(c)' => Unstarted(c)
  BY <1>3, <1>5, ProcsAre DEF Unstarted, S
<1>7. \A e \in Daemons : Executes(e, c)' => Executes(e, c)
  BY <1>3, <1>5, ProcsAre DEF Executes
<1>8. pc'[c] = pc[c] BY <1>3, ProcsAre
<1> QED BY <1>1, <1>5, <1>6, <1>7, <1>8, CommandKept DEF S

LEMMA StartRunCommand ==
    ASSUME Typed, NEW d \in Daemons, StartRun(d), NEW c \in Clients, Command(c)
    PROVE  Command(c)'
<1>1. /\ pc \in [Procs -> ClientPhases \cup DaemonPhases] /\ d \in Procs
      /\ runs \in [Clients -> Nat] /\ c \in Procs
      /\ pc[d] = "busy" /\ serving[d] \in Conns /\ serving[d].op = "run"
      /\ UNCHANGED <<req, inbox, serving, outcome>>
  BY ProcsAre DEF Typed, TypeOK, StartRun, Busy
<1>2. pc'[d] = "running" /\ \A r \in Procs : r # d => pc'[r] = pc[r]
  BY <1>1, GotoIs DEF StartRun
<1> DEFINE S == RunOf(c)
<1>3. /\ Sole(S) /\ Sole(S)'
      /\ \A e \in Daemons : Holds(e, S)' => Holds(e, S)
      /\ Nowhere(S)' <=> Nowhere(S)
  BY <1>1, SameConns DEF Command
<1>4. pc'[c] = pc[c] BY <1>1, <1>2, ProcsAre
<1>5. Unstarted(c)' => Unstarted(c)
  BY <1>1, <1>2, ProcsAre DEF Unstarted
<1>6. CASE serving[d].from # c
  <2>1. runs'[c] = runs[c] BY <1>1, <1>6 DEF StartRun
  <2>2. \A e \in Daemons : Executes(e, c)' => Executes(e, c)
    BY <1>1, <1>2, <1>6, ProcsAre DEF Executes, RunOf
  <2> QED BY <1>1, <1>3, <1>4, <1>5, <2>1, <2>2, CommandKept
<1>7. CASE serving[d].from = c
  <2>1. serving[d] \in S /\ Unstarted(c) /\ ~Nowhere(S)
    BY <1>1, <1>7 DEF RunOf, Unstarted, Nowhere, Holds
  <2>2. /\ runs[c] = 0 \/ (runs[c] = 1 /\ pc[c] = "done")
        /\ pc[c] = "done" => runs[c] = 1
        /\ pc[c] # "done" => runs[c] = 0 /\ outcome[c] = "none"
        /\ pc[c] \notin Before /\ outcome[c] # "served"
        /\ ~(pc[c] = "forwarded" /\ req[c] = "ok")
    BY <2>1 DEF Command
  <2>3. runs'[c] = runs[c] + 1 BY <1>1, <1>7 DEF StartRun
  <2>4. ~Unstarted(c)'
    <3>1. ~In(inbox[d], S) /\ \A e \in Daemons : e # d => ~Holds(e, S)
      BY <1>3, <2>1 DEF Sole, Holds
    <3> QED BY <1>1, <1>2, <3>1 DEF Unstarted, Holds
  <2>5. /\ pc[c] # "done" => runs'[c] = 1
        /\ pc[c] = "done" => runs'[c] = 2
    BY <2>2, <2>3
  <2> QED BY <1>1, <1>3, <1>4, <2>2, <2>4, <2>5 DEF Command
<1> QED BY <1>6, <1>7

\* A daemon lets go of connections.
LEMMA FewerCommand ==
    ASSUME Typed, NEW d \in Daemons, NEW c \in Clients, Command(c),
           pc'[d] \notin Busy, \A r \in Procs : r # d => pc'[r] = pc[r],
           \A e \in Daemons : inbox'[e] = inbox[e] \/ inbox'[e] = <<>>,
           \A e \in Daemons : serving'[e] = serving[e] \/ serving'[e] = NoConn,
           UNCHANGED <<runs, outcome>>,
           pc[c] = "forwarded" /\ req'[c] = "ok"
               => req[c] = "ok" \/ (runs[c] = 1 /\ Nowhere(RunOf(c))')
    PROVE  Command(c)'
<1> DEFINE S == RunOf(c)
<1>1. NoConn \notin S /\ Sole(S) BY NotAmong DEF Command
<1> HIDE DEF S
<1>2. Sole(S)' /\ \A e \in Daemons : Holds(e, S)' => Holds(e, S)
  BY <1>1, Fewer
<1>3. \A e \in Daemons : /\ In(inbox'[e], S) => In(inbox[e], S)
                         /\ serving'[e] \in S => serving[e] \in S
  BY <1>1, InEmpty
<1>4. Unstarted(c)' => Unstarted(c)
  BY <1>3, ProcsAre DEF Unstarted, S, Busy
<1>5. \A e \in Daemons : Executes(e, c)' => Executes(e, c)
  BY <1>3, ProcsAre DEF Executes, S, Busy
<1>6. pc'[c] = pc[c] BY ProcsAre
<1> QED BY <1>2, <1>4, <1>5, <1>6, CommandKept DEF S

LEMMA CloseSocketCommand ==
    ASSUME Typed, NEW d \in Daemons, CloseSocket(d), NEW c \in Clients, Command(c)
    PROVE  Command(c)'
<1>1. /\ pc \in [Procs -> ClientPhases \cup DaemonPhases] /\ d \in Procs
      /\ inbox \in [Daemons -> Seq(Conns)] /\ c \in Procs
      /\ Drop(d) /\ UNCHANGED <<serving, runs, outcome>>
  BY ProcsAre DEF Typed, TypeOK, CloseSocket, hist
<1>2. pc'[d] = "cleanup" /\ \A r \in Procs : r # d => pc'[r] = pc[r]
  BY <1>1, GotoIs DEF CloseSocket
<1>3. /\ \A e \in Daemons : inbox'[e] = inbox[e] \/ inbox'[e] = <<>>
      /\ req'[c] \in {"bad", req[c]}
  BY <1>1 DEF Drop
<1> QED BY <1>1, <1>2, <1>3, FewerCommand DEF Busy

LEMMA ReplyCommand ==
    ASSUME Typed, Requests, NEW d \in Daemons, NEW verdict, NEW next,
           Replies(d, verdict, next), NEW c \in Clients, Command(c)
    PROVE  Command(c)'
<1>1. /\ d \in Procs /\ pc[d] \in Busy /\ serving[d] \in Conns
      /\ \A r \in Procs : r # d => pc'[r] = pc[r]
      /\ pc'[d] \notin Busy
      /\ serving'[d] = NoConn
      /\ \A e \in Daemons : e # d => serving'[e] = serving[e]
      /\ \/ serving[d].open /\ inbox' = inbox
            /\ req' = [req EXCEPT ![serving[d].from] = verdict]
         \/ ~serving[d].open /\ Drop(d)
      /\ \A e \in Daemons : inbox'[e] = inbox[e] \/ inbox'[e] = <<>>
      /\ UNCHANGED <<runs, outcome>>
  BY ReplyIs DEF Busy
<1>2. \A e \in Daemons : serving'[e] = serving[e] \/ serving'[e] = NoConn
  BY <1>1
<1>3. /\ req \in [Procs -> {"none", "waiting", "ok", "bad"}] /\ c \in Procs
      /\ Asked(c)
  BY ProcsAre DEF Typed, TypeOK, Requests
<1>4. ASSUME pc[c] = "forwarded", req'[c] = "ok", req[c] # "ok"
      PROVE  runs[c] = 1 /\ Nowhere(RunOf(c))'
  <2>1. /\ serving[d].open /\ serving[d].from = c /\ verdict = "ok"
        /\ inbox' = inbox
    BY <1>1, <1>3, <1>4 DEF Drop
  <2>2. serving[d] \in RunOf(c)
    <3>1. serving[d] \notin OpenOf(c) \ RunOf(c)
      BY <1>3, <1>4 DEF Asked, Nowhere, Holds
    <3> QED BY <1>1, <2>1, <3>1 DEF OpenOf
  <2>3. Executes(d, c) BY <2>1, <2>2 DEF Replies, Executes, RunOf
  <2>4. runs[c] = 1 BY <1>4, <2>3 DEF Command
  <2>5. Nowhere(RunOf(c))'
    <3>1. Sole(RunOf(c)) BY DEF Command
    <3>2. ~In(inbox[d], RunOf(c)) /\ \A e \in Daemons : e # d => ~Holds(e, RunOf(c))
      BY <2>2, <3>1 DEF Sole, Holds
    <3>3. serving'[d] \notin RunOf(c) BY <1>1, NotAmong
    <3> QED BY <1>1, <2>1, <3>2, <3>3 DEF Nowhere, Holds
  <2> QED BY <2>4, <2>5
<1> QED BY <1>1, <1>2, <1>4, FewerCommand

LEMMA GiveUpCommand ==
    ASSUME Typed, NEW p \in Procs, GiveUp(p), NEW c \in Clients, Command(c)
    PROVE  Command(c)'
<1>1. /\ inbox \in [Daemons -> Seq(Conns)] /\ c \in Procs
      /\ serving \in [Daemons -> Conns \cup {NoConn}]
      /\ req \in [Procs -> {"none", "waiting", "ok", "bad"}]
      /\ req' = [req EXCEPT ![p] = "bad"] /\ UNCHANGED <<pc, runs, outcome>>
  BY ProcsAre DEF Typed, TypeOK, GiveUp, hist
<1> DEFINE S == RunOf(c)
<1>2. \A x \in Conns \cup {NoConn} : Hangup(p, x) \in S => x \in S
  BY HungUp
<1>3. Sole(S) BY DEF Command
<1> HIDE DEF S
<1>4. /\ \A d \in Daemons : In(inbox'[d], S) => In(inbox[d], S)
      /\ \A d \in Daemons : serving'[d] \in S => serving[d] \in S
      /\ \A d \in Daemons : Holds(d, S)' => Holds(d, S)
      /\ Sole(S)'
  BY <1>1, <1>2, <1>3, GaveUp
<1>5. Unstarted(c)' => Unstarted(c) BY <1>1, <1>4 DEF Unstarted, S
<1>6. \A d \in Daemons : Executes(d, c)' => Executes(d, c)
  BY <1>1, <1>4 DEF Executes, S
<1>7. req'[c] = "ok" => req[c] = "ok" BY <1>1
<1> QED BY <1>1, <1>4, <1>5, <1>6, <1>7, CommandKept DEF S

LEMMA CommandStep ==
    ASSUME Typed, Requests, [Next]_vars, NEW c \in Clients, Command(c)
    PROVE  Command(c)'
BY StepKinds, StrollsCommand, AsksCommand, EndsCommand, AcceptCommand, StartRunCommand,
   CloseSocketCommand, ReplyCommand, GiveUpCommand DEF Kinds

-----------------------------------------------------------------------------
(* The theorems.                                                           *)

LEMMA InitInv ==
    ASSUME Init
    PROVE  DaemonInv
<1>1. PICK boot \in Boots : InitDaemon(boot) BY DEF Init
<1>2. /\ cooldown = FALSE
      /\ req = [p \in Procs |-> "none"]
      /\ inbox = [d \in Daemons |-> <<>>]
      /\ serving = [d \in Daemons |-> NoConn]
      /\ runs = [c \in Clients |-> 0]
      /\ outcome = [c \in Clients |-> "none"]
  BY DEF Init
<1>3. 1 \in Daemons BY DaemonAssumption DEF Daemons
<1>4. /\ pc \in [Procs -> ClientPhases \cup DaemonPhases]
      /\ \A c \in Clients : pc[c] = "start"
      /\ \A d \in Daemons : pc[d] \in {"unborn", "accept", "born"}
      /\ state \in {0, 1} /\ sock = state
      /\ state = 1 => pc[1] = "accept"
      /\ old \subseteq {1} /\ service \subseteq {1}
  BY <1>1, <1>3, ProcsAre DEF InitDaemon, ClientPhases, DaemonPhases
<1>5. Typed
  <2>1. \A d \in Daemons : inbox[d] \in Seq(Conns) /\ Len(inbox[d]) <= Backlog
    BY <1>2, DaemonAssumption
  <2>2. /\ inbox \in [Daemons -> Seq(Conns)]
        /\ serving \in [Daemons -> Conns \cup {NoConn}]
    BY <1>2, <2>1
  <2>3. TypeOK BY <1>2, <1>3, <1>4, <2>1, <2>2 DEF TypeOK
  <2> QED BY <1>2, <1>4, <2>3 DEF Typed, ClientPhases, DaemonPhases, Busy
<1>6. AnnouncedAfterBind BY <1>3, <1>4 DEF AnnouncedAfterBind
<1>7. ASSUME NEW S, NoConn \notin S PROVE Sole(S) /\ Nowhere(S)
  <2>1. \A d \in Daemons : Once(inbox[d], S) /\ ~Holds(d, S)
    BY <1>2, <1>7, InEmpty DEF Holds
  <2> QED BY <2>1 DEF Sole, Nowhere, Holds
<1>8. Requests
  <2>1. \A p \in Procs : /\ Sole(OpenOf(p)) /\ Nowhere(OpenOf(p))
                         /\ Nowhere(OpenOf(p) \ RunOf(p))
    BY <1>7, NotAmong
  <2> QED BY <1>2, <2>1 DEF Requests, Asked
<1>9. ASSUME NEW c \in Clients PROVE Command(c)
  <2>1. Sole(RunOf(c)) /\ Nowhere(RunOf(c)) BY <1>7, NotAmong
  <2> QED BY <1>2, <1>4, <2>1 DEF Command
<1> QED BY <1>5, <1>6, <1>8, <1>9 DEF DaemonInv

LEMMA StepInv ==
    ASSUME DaemonInv, [Next]_vars
    PROVE  DaemonInv'
BY TypedStep, AnnouncedStep, RequestsStep, CommandStep DEF DaemonInv

\* Connections, requests and commands fit together in every state, whatever the
\* processes do to each other's files and however long a caller waits.
THEOREM DaemonInvariant == Spec => []DaemonInv
BY InitInv, StepInv, PTL DEF Spec

\* The variables keep their types; no backlog grows beyond listen(Backlog).
THEOREM DaemonTypeCorrect == Spec => []TypeOK
<1>1. DaemonInv => TypeOK BY DEF DaemonInv, Typed
<1> QED BY <1>1, DaemonInvariant, PTL

\* A command the client took for served was executed exactly once, a client that
\* is done has had its command executed, and none is executed a third time: the
\* daemon's execution the client gave up on, and its own.
THEOREM EveryCommandAccounted == Spec => []CommandsAccounted
<1>1. ASSUME DaemonInv PROVE CommandsAccounted
  <2> SUFFICES ASSUME NEW c \in Clients
               PROVE  /\ outcome[c] = "served" => runs[c] = 1
                      /\ pc[c] = "done" => runs[c] >= 1
                      /\ runs[c] <= 2
    BY DEF CommandsAccounted
  <2>1. Command(c) /\ runs[c] \in Nat BY <1>1 DEF DaemonInv, Typed, TypeOK
  <2>2. CASE pc[c] = "done"
    <3>1. runs[c] \in 1..2 BY <2>1, <2>2 DEF Command
    <3> QED BY <2>1, <3>1 DEF Command
  <2>3. CASE pc[c] # "done"
    <3>1. runs[c] <= 1 BY <2>1, <2>3 DEF Command
    <3> QED BY <2>1, <2>3, <3>1 DEF Command
  <2> QED BY <2>2, <2>3
<1> QED BY <1>1, DaemonInvariant, PTL

\* The state file never names a daemon whose socket is not bound yet.
THEOREM AnnouncedOnlyAfterBind == Spec => []AnnouncedAfterBind
<1>1. DaemonInv => AnnouncedAfterBind BY DEF DaemonInv
<1> QED BY <1>1, DaemonInvariant, PTL
==============================================================================
