------------------------------- MODULE Daemon --------------------------------
(***************************************************************************)
(* The warm daemon: application/daemon.py (client side and shared files),  *)
(* interface/daemon_server.py (the server) and main() in interface/cli.py. *)
(*                                                                         *)
(* CLI invocations and daemon processes share a runtime directory with a   *)
(* state file, a Unix socket path and a cooldown file, none of them        *)
(* locked.  Every file operation, request and reply is a step of its own.  *)
(* _request reads the state file and connects in one step; a connect goes  *)
(* to whoever bound the path, which need not be whom the state file names. *)
(***************************************************************************)
EXTENDS Naturals, Sequences, FiniteSets

CONSTANTS Clients,      \* CLI invocations that forward their command
          MaxDaemons,   \* bound: daemon processes that can be started at all
          Backlog,      \* listen(16)
          Boots         \* how the system may start: see Init

ASSUME DaemonAssumption ==
    /\ MaxDaemons \in Nat \ {0}
    /\ Backlog \in Nat \ {0}
    /\ Boots \subseteq {"empty", "old", "service"}
    /\ Clients \cap (1..MaxDaemons) = {}

Daemons == 1..MaxDaemons
Procs == Clients \cup Daemons

VARIABLES
    state,     \* daemon.json: the daemon it describes, 0 if there is none
    sock,      \* daemon.sock: the daemon that bound it, 0 if there is none
    cooldown,  \* daemon.nodaemon exists and is fresh
    pc,        \* how far each process has come
    old,       \* which daemons are of an older version than the clients
    service,   \* which daemons run with --idle-timeout 0
    req,       \* the request of each process: none, waiting, ok or bad
    inbox,     \* the connections each daemon has not accepted yet
    serving,   \* the connection each daemon is handling
    runs,      \* history: how often each client's command was executed
    outcome    \* history: what the client reported

vars == <<state, sock, cooldown, pc, old, service, req, inbox, serving, runs, outcome>>

Ops == {"ping", "shutdown", "run"}
Conns == [from : Procs, op : Ops, token : Daemons, open : BOOLEAN]
NoConn == [op |-> "none"]

ClientPhases == {"start", "pinged", "decide", "stopping", "confirm", "confirming", "clean",
                 "spawn", "poll", "polled", "forward", "forwarded", "local", "done"}
DaemonPhases == {"unborn", "born", "checking", "unlink", "bind", "publish", "warm",
                 "accept", "busy", "running", "closing", "cleanup", "gone"}

TypeOK ==
    /\ state \in Daemons \cup {0}
    /\ sock \in Daemons \cup {0}
    /\ cooldown \in BOOLEAN
    /\ pc \in [Procs -> ClientPhases \cup DaemonPhases]
    /\ old \subseteq Daemons
    /\ service \subseteq Daemons
    /\ req \in [Procs -> {"none", "waiting", "ok", "bad"}]
    /\ inbox \in [Daemons -> Seq(Conns)]
    /\ \A d \in Daemons : Len(inbox[d]) <= Backlog
    /\ serving \in [Daemons -> Conns \cup {NoConn}]
    /\ runs \in [Clients -> Nat]
    /\ outcome \in [Clients -> {"none", "served", "local"}]

\* Nothing runs; or a daemon of an older version is up; or the systemd unit has
\* just started a daemon.
InitDaemon(boot) ==
    /\ state = IF boot = "old" THEN 1 ELSE 0
    /\ sock = state
    /\ pc = [p \in Procs |-> IF p \in Clients THEN "start"
                             ELSE IF p = 1 /\ boot = "old" THEN "accept"
                             ELSE IF p = 1 /\ boot = "service" THEN "born"
                             ELSE "unborn"]
    /\ old = IF boot = "old" THEN {1} ELSE {}
    /\ service = IF boot = "service" THEN {1} ELSE {}

Init ==
    /\ \E boot \in Boots : InitDaemon(boot)
    /\ cooldown = FALSE
    /\ req = [p \in Procs |-> "none"]
    /\ inbox = [d \in Daemons |-> <<>>]
    /\ serving = [d \in Daemons |-> NoConn]
    /\ runs = [c \in Clients |-> 0]
    /\ outcome = [c \in Clients |-> "none"]

files == <<state, sock, cooldown>>
births == <<old, service>>
hist == <<runs, outcome>>

Goto(p, phase) == pc' = [pc EXCEPT ![p] = phase]

(***************************************************************************)
(* Requests.                                                               *)
(***************************************************************************)
Alive(d) == pc[d] \notin {"unborn", "gone"}
Listening(d) == pc[d] \in {"publish", "warm", "accept", "busy", "running", "closing"}

\* _request up to the reply: read the state file, probe the pid, connect to the
\* socket path, send.  Every failure is the same None to the caller.
\* Mutant: the backlog has no limit.
ReachableAlways == /\ state # 0 /\ Alive(state)
                   /\ sock # 0 /\ Listening(sock)
Reachable == /\ state # 0 /\ Alive(state)
             /\ sock # 0 /\ Listening(sock)
             /\ Len(inbox[sock]) < Backlog

Request(p, op) ==
    IF Reachable
    THEN /\ inbox' = [inbox EXCEPT ![sock] =
                        Append(@, [from |-> p, op |-> op, token |-> state, open |-> TRUE])]
         /\ req' = [req EXCEPT ![p] = "waiting"]
    ELSE /\ req' = [req EXCEPT ![p] = "bad"]
         /\ UNCHANGED inbox

Hangup(p, conn) == IF conn.op # "none" /\ conn.from = p THEN [conn EXCEPT !.open = FALSE]
                   ELSE conn

\* The caller's timeout passes and it closes its end.  (Ctrl-C while a command
\* is forwarded has the same effect.)
GiveUp(p) ==
    /\ req[p] = "waiting"
    /\ req' = [req EXCEPT ![p] = "bad"]
    /\ inbox' = [d \in Daemons |-> [k \in DOMAIN inbox[d] |-> Hangup(p, inbox[d][k])]]
    /\ serving' = [d \in Daemons |-> Hangup(p, serving[d])]
    /\ UNCHANGED <<files, pc, births, hist>>

Answered(p) == req[p] \in {"ok", "bad"}
Hears(p, verdict) == req[p] = verdict /\ req' = [req EXCEPT ![p] = "none"]

(***************************************************************************)
(* A client: main, run_via_daemon and ensure_running.                      *)
(***************************************************************************)

\* ensure_running: is_running()
CheckRunning(c) ==
    /\ pc[c] = "start"
    /\ Request(c, "ping")
    /\ Goto(c, "pinged")
    /\ UNCHANGED <<files, births, serving, hist>>

FoundRunning(c) ==
    /\ pc[c] \in {"pinged", "polled"}
    /\ Hears(c, "ok")
    /\ cooldown' = FALSE
    /\ Goto(c, "forward")
    /\ UNCHANGED <<state, sock, births, inbox, serving, hist>>

FoundNone(c) ==
    /\ pc[c] = "pinged"
    /\ Hears(c, "bad")
    /\ Goto(c, IF cooldown THEN "local" ELSE "decide")
    /\ UNCHANGED <<files, births, inbox, serving, hist>>

\* The stale state file: a daemon of another version is told to stop first.
Decide(c) ==
    /\ pc[c] = "decide"
    /\ IF state # 0 /\ state \in old
       THEN Request(c, "shutdown") /\ Goto(c, "stopping")
       ELSE Goto(c, IF state # 0 THEN "clean" ELSE "spawn") /\ UNCHANGED <<req, inbox>>
    /\ UNCHANGED <<files, births, serving, hist>>

\* stop(): a daemon that does not agree is left alone; one that agrees is pinged
\* until nobody of this version answers, 20 times at most.
\* Mutant: a refusal is not taken for an answer.
StopInsists(c) ==
    /\ pc[c] = "stopping"
    /\ Hears(c, "ok")
    /\ Goto(c, "confirm")
    /\ UNCHANGED <<files, births, inbox, serving, hist>>
StopAnswered(c) ==
    /\ pc[c] = "stopping" /\ Answered(c)
    /\ req' = [req EXCEPT ![c] = "none"]
    /\ Goto(c, IF req[c] = "ok" THEN "confirm" ELSE "clean")
    /\ UNCHANGED <<files, births, inbox, serving, hist>>

Confirm(c) ==
    /\ pc[c] = "confirm"
    /\ Request(c, "ping")
    /\ Goto(c, "confirming")
    /\ UNCHANGED <<files, births, serving, hist>>

ConfirmAgain(c) ==
    /\ pc[c] = "confirming"
    /\ Hears(c, "ok")
    /\ Goto(c, "confirm")
    /\ UNCHANGED <<files, births, inbox, serving, hist>>

ConfirmEnds(c) ==
    /\ pc[c] = "confirming" /\ Answered(c)
    /\ req' = [req EXCEPT ![c] = "none"]
    /\ Goto(c, "clean")
    /\ UNCHANGED <<files, births, inbox, serving, hist>>

RemoveState == state' = 0 /\ sock' = 0

\* _remove_state(), whoever the files belong to by now.
Clean(c) ==
    /\ pc[c] = "clean"
    /\ RemoveState
    /\ Goto(c, "spawn")
    /\ UNCHANGED <<cooldown, births, req, inbox, serving, hist>>

Unborn == {d \in Daemons : pc[d] = "unborn"}

\* _spawn_detached; a failing Popen goes unnoticed.
Spawn(c) ==
    /\ pc[c] = "spawn"
    /\ \/ Goto(c, "poll")
       \/ \E d \in Unborn : /\ \A x \in Unborn : d <= x
                            /\ pc' = [pc EXCEPT ![c] = "poll", ![d] = "born"]
    /\ UNCHANGED <<files, births, req, inbox, serving, hist>>

\* One turn of the polling loop.
Poll(c) ==
    /\ pc[c] = "poll"
    /\ Request(c, "ping")
    /\ Goto(c, "polled")
    /\ UNCHANGED <<files, births, serving, hist>>

PollAgain(c) ==
    /\ pc[c] = "polled"
    /\ Hears(c, "bad")
    /\ Goto(c, "poll")
    /\ UNCHANGED <<files, births, inbox, serving, hist>>

\* The deadline passed (or Ctrl-C): remember it and run in-process.
PollEnds(c) ==
    /\ pc[c] = "polled"
    /\ Hears(c, "bad")
    /\ cooldown' = TRUE
    /\ Goto(c, "local")
    /\ UNCHANGED <<state, sock, births, inbox, serving, hist>>

Forward(c) ==
    /\ pc[c] = "forward"
    /\ Request(c, "run")
    /\ Goto(c, "forwarded")
    /\ UNCHANGED <<files, births, serving, hist>>

Served(c) ==
    /\ pc[c] = "forwarded"
    /\ Hears(c, "ok")
    /\ outcome' = [outcome EXCEPT ![c] = "served"]
    /\ Goto(c, "done")
    /\ UNCHANGED <<files, births, inbox, serving, runs>>

\* Mutant: the request is tried again.
NotServedRetries(c) ==
    /\ pc[c] = "forwarded"
    /\ Hears(c, "bad")
    /\ Goto(c, "start")
    /\ UNCHANGED <<files, births, inbox, serving, hist>>
NotServed(c) ==
    /\ pc[c] = "forwarded"
    /\ Hears(c, "bad")
    /\ Goto(c, "local")
    /\ UNCHANGED <<files, births, inbox, serving, hist>>

\* main: fall through to running the command in this process.
RunLocally(c) ==
    /\ pc[c] = "local"
    /\ runs' = [runs EXCEPT ![c] = @ + 1]
    /\ outcome' = [outcome EXCEPT ![c] = "local"]
    /\ Goto(c, "done")
    /\ UNCHANGED <<files, births, req, inbox, serving>>

\* The cooldown file is older than _COOLDOWN_SECS.
CooldownExpires ==
    /\ cooldown
    /\ cooldown' = FALSE
    /\ UNCHANGED <<state, sock, pc, births, req, inbox, serving, hist>>

(***************************************************************************)
(* A daemon: serve.                                                        *)
(***************************************************************************)
ServeChecks(d) ==
    /\ pc[d] = "born"
    /\ Request(d, "ping")
    /\ Goto(d, "checking")
    /\ UNCHANGED <<files, births, serving, hist>>

\* A healthy daemon owns the socket: return without touching anything.
ServeYields(d) ==
    /\ pc[d] = "checking"
    /\ Hears(d, "ok")
    /\ Goto(d, "gone")
    /\ UNCHANGED <<files, births, inbox, serving, hist>>

ServeGoesOn(d) ==
    /\ pc[d] = "checking"
    /\ Hears(d, "bad")
    /\ Goto(d, "unlink")
    /\ UNCHANGED <<files, births, inbox, serving, hist>>

\* _remove_state() and the remove at the head of _bind_listener.
\* Mutant: the state is written before the socket is bound.
UnlinkAnnounces(d) ==
    /\ pc[d] = "unlink"
    /\ state' = d /\ sock' = 0
    /\ Goto(d, "bind")
    /\ UNCHANGED <<cooldown, births, req, inbox, serving, hist>>
Unlink(d) ==
    /\ pc[d] = "unlink"
    /\ RemoveState
    /\ Goto(d, "bind")
    /\ UNCHANGED <<cooldown, births, req, inbox, serving, hist>>

\* bind and listen; the path may have been taken since, and then bind raises.
Bind(d) ==
    /\ pc[d] = "bind"
    /\ IF sock = 0 THEN sock' = d /\ Goto(d, "publish")
       ELSE Goto(d, "gone") /\ UNCHANGED sock
    /\ UNCHANGED <<state, cooldown, births, req, inbox, serving, hist>>

\* _write_state
Publish(d) ==
    /\ pc[d] = "publish"
    /\ state' = d
    /\ Goto(d, "warm")
    /\ UNCHANGED <<sock, cooldown, births, req, inbox, serving, hist>>

\* _warmup: a whole analysis, while connections queue up.
Warm(d) ==
    /\ pc[d] = "warm"
    /\ Goto(d, "accept")
    /\ UNCHANGED <<files, births, req, inbox, serving, hist>>

Accept(d) ==
    /\ pc[d] = "accept" /\ inbox[d] # <<>>
    /\ serving' = [serving EXCEPT ![d] = Head(inbox[d])]
    /\ inbox' = [inbox EXCEPT ![d] = Tail(@)]
    /\ Goto(d, "busy")
    /\ UNCHANGED <<files, births, req, hist>>

\* accept() times out; with an idle timeout of 0 the socket is non-blocking, and
\* accept() raises BlockingIOError, an OSError, as soon as nobody is connecting.
\* Mutant: the socket has no timeout.
NeverTimesOut(d) == FALSE
TimesOut(d) == d \notin service /\ inbox[d] = <<>>
WouldBlock(d) == d \in service /\ inbox[d] = <<>>

StopAccepting(d) ==
    /\ pc[d] = "accept"
    /\ TimesOut(d) \/ WouldBlock(d)
    /\ Goto(d, "closing")
    /\ UNCHANGED <<files, births, req, inbox, serving, hist>>

Authorized(d) == serving[d].token = d

\* Who is cut off when the process or its listening socket goes away.
Pending(d) == {k \in DOMAIN inbox[d] : inbox[d][k].open}
CutOff(d) == {inbox[d][k].from : k \in Pending(d)}
Drop(d) == /\ req' = [p \in Procs |-> IF p \in CutOff(d) THEN "bad" ELSE req[p]]
           /\ inbox' = [inbox EXCEPT ![d] = <<>>]

\* The reply is sent, and the connection closed.  If the peer hung up, the write
\* raises SIGPIPE, whose default action main() restored: the process is killed
\* and cleans nothing up.
Reply(d, verdict, next) ==
    IF serving[d].open
    THEN /\ req' = [req EXCEPT ![serving[d].from] = verdict]
         /\ serving' = [serving EXCEPT ![d] = NoConn]
         /\ Goto(d, next)
         /\ UNCHANGED inbox
    ELSE /\ Goto(d, "gone")
         /\ serving' = [serving EXCEPT ![d] = NoConn]
         /\ Drop(d)

ReplyUnauthorized(d) ==
    /\ pc[d] = "busy" /\ ~Authorized(d)
    /\ Reply(d, "bad", "accept")
    /\ UNCHANGED <<files, births, hist>>

\* is_running compares the version in the answer with its own.
ReplyPing(d) ==
    /\ pc[d] = "busy" /\ Authorized(d) /\ serving[d].op = "ping"
    /\ Reply(d, IF d \in old THEN "bad" ELSE "ok", "accept")
    /\ UNCHANGED <<files, births, hist>>

ReplyShutdown(d) ==
    /\ pc[d] = "busy" /\ Authorized(d) /\ serving[d].op = "shutdown"
    /\ Reply(d, "ok", "closing")
    /\ UNCHANGED <<files, births, hist>>

\* _handle_run: the command is executed here ...
StartRun(d) ==
    /\ pc[d] = "busy" /\ Authorized(d) /\ serving[d].op = "run"
    /\ runs' = [runs EXCEPT ![serving[d].from] = @ + 1]
    /\ Goto(d, "running")
    /\ UNCHANGED <<files, births, req, inbox, serving, outcome>>

\* ... and its output sent back.
FinishRun(d) ==
    /\ pc[d] = "running"
    /\ Reply(d, "ok", "accept")
    /\ UNCHANGED <<files, births, hist>>

\* The finally block: sock.close(), then _remove_state() on whoever's files.
CloseSocket(d) ==
    /\ pc[d] = "closing"
    /\ Drop(d)
    /\ Goto(d, "cleanup")
    /\ UNCHANGED <<files, births, serving, hist>>

Cleanup(d) ==
    /\ pc[d] = "cleanup"
    /\ RemoveState
    /\ Goto(d, "gone")
    /\ UNCHANGED <<cooldown, births, req, inbox, serving, hist>>

ClientStep(c) ==
    \/ CheckRunning(c) \/ FoundRunning(c) \/ FoundNone(c) \/ Decide(c)
    \/ StopAnswered(c) \/ Confirm(c) \/ ConfirmAgain(c) \/ Clean(c)
    \/ Spawn(c) \/ Poll(c) \/ PollAgain(c)
    \/ Forward(c) \/ Served(c) \/ NotServed(c) \/ RunLocally(c)

\* A loop that pings runs out of turns.
LoopEnds(c) == ConfirmEnds(c) \/ PollEnds(c)

DaemonStep(d) ==
    \/ ServeChecks(d) \/ ServeYields(d) \/ ServeGoesOn(d) \/ Unlink(d) \/ Bind(d)
    \/ Publish(d) \/ Warm(d) \/ Accept(d) \/ StopAccepting(d)
    \/ ReplyUnauthorized(d) \/ ReplyPing(d) \/ ReplyShutdown(d)
    \/ StartRun(d) \/ FinishRun(d) \/ CloseSocket(d) \/ Cleanup(d)

Next ==
    \/ \E c \in Clients : ClientStep(c) \/ LoopEnds(c)
    \/ \E d \in Daemons : DaemonStep(d)
    \/ \E p \in Procs : GiveUp(p)
    \/ CooldownExpires

Spec == Init /\ [][Next]_vars

\* Processes run, requests time out, and the loops that ping end however often
\* the ping is repeated.
FairSpec ==
    /\ Spec
    /\ \A c \in Clients : WF_vars(ClientStep(c)) /\ SF_vars(LoopEnds(c))
    /\ \A d \in Daemons : WF_vars(DaemonStep(d))
    /\ \A p \in Procs : WF_vars(GiveUp(p))

(***************************************************************************)
(* Properties.                                                             *)
(***************************************************************************)

\* A served command was executed exactly once; a command is executed before its
\* client is done, and never more than twice (once by a daemon, once locally).
CommandsAccounted ==
    \A c \in Clients :
      /\ outcome[c] = "served" => runs[c] = 1
      /\ pc[c] = "done" => runs[c] >= 1
      /\ runs[c] <= 2

\* A client never reads a state file before the daemon it describes listens:
\* the socket is bound before it is announced.
AnnouncedAfterBind ==
    state # 0 => pc[state] \notin {"unborn", "born", "checking", "unlink", "bind", "publish"}

\* Every command is executed in the end and its client done, and every daemon that
\* was started goes away, also one whose files were taken from it, whatever the
\* others do: from some time on only the files are left.
AllComeToAnEnd ==
    <>[](/\ \A c \in Clients : pc[c] = "done"
         /\ \A d \in Daemons : pc[d] \in {"unborn", "gone"})

\* interface/cli.py says of main: "if the daemon is down, unreachable, or errors,
\* we fall straight through to running in-process, so behaviour never regresses".
NeverExecutedTwice == \A c \in Clients : runs[c] <= 1

\* interface/daemon_server.py: "a bad run must not kill the daemon".
RunNeverKillsDaemon ==
    [][\A d \in Daemons : pc[d] = "running" => pc'[d] \in {"running", "accept"}]_vars
==============================================================================
