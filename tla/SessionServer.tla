---------------------------- MODULE SessionServer ----------------------------
(***************************************************************************)
(* The session server isss (source/app/ivory/isss/server.cpp): one thread  *)
(* around ::poll that multiplexes client sockets and the pipes of worker   *)
(* processes running the interpreter iss.                                  *)
(*                                                                         *)
(* The server visits the ready descriptors of a ::poll from the highest    *)
(* index of _pollFDs down.  Its control state is pc:                       *)
(*   "poll"   blocked in ::poll                                            *)
(*   "scan"   in the loop over the descriptors, next index below i         *)
(*   "input"  in the loop over a client's pending input (client cur)       *)
(*   "write"  about to forward that input to the worker                    *)
(*   "reap"   in the waitpid loop;  "timer"  in the inactivity loop        *)
(* Peers and worker processes run between any two steps of the server.     *)
(*                                                                         *)
(* Data.  A line of input is its command and, for SESSION, the id.  The    *)
(* text of a SEND is one line "TEXT".  Pipes and socket buffers count      *)
(* lines.  A client's pendingOutput is whether any output is pending.      *)
(***************************************************************************)
EXTENDS PollTable, Sequences, FiniteSets

CONSTANTS
    Pid,            \* process ids; their number is the process limit
    SessionId,      \* the ids genSessionId may draw
    Lines,          \* the lines peers may send
    MaxCommandLen,  \* MAX_COMMAND_LEN, in lines
    PipeCap,        \* capacity of a pipe, in lines
    Happens,        \* what the surroundings may do, a subset of Happening
    MaxConns,       \* bound: connections made
    MaxLines,       \* bound: lines sent by all peers
    NULL            \* an empty place in the client or worker table

VARIABLES
    clients,   \* _clients
    workers,   \* _workers
    poll,      \* _pollFDs and _nPollFDs
    pc, i,     \* where the server thread is
    base,      \* the base descriptors with revents, by index
    cur,       \* the client whose input is being processed, or 0
    closing,   \* closeClient of that handler
    open,      \* the descriptors the server process has open
    dirs,      \* session directories that exist, by the id in their name
    procs,     \* worker processes and the contents of their pipes
    sigchld,   \* a SIGCHLD is pending on the signalfd
    sock,      \* the peer's side of each client's socket
    backlog, conns, sent,  \* connections waiting and made, lines sent
    reply      \* the messages the last step handed to clients

serverVars == <<clients, workers, poll, pc, i, base, cur, closing, open, dirs>>
peers == <<sock, backlog, conns, sent>>
envVars == <<procs, sigchld, peers>>
vars == <<serverVars, envVars, reply>>

ClientSlot == 1 .. MaxClients
WorkerSlot == 1 .. MaxWorkers

NoPid == -1     \* what fork returns when it fails, and a new Worker's _pid

Happening == {"close", "reset", "stall", "crash", "elapse", "dir", "pipe"}

Command == {"START", "SESSION", "END", "SEND", "RECEIVE", "RECEIVE:", "STATUS",
            "TEXT", "STUCK"}

Line == [cmd : Command, id : SessionId \cup {0}]

Message == {"STARTED", "SENT", "READY", "RECEIVED", "ENDED", "TIMEOUT",
            "FAILED", "UNKNOWN"}

Client == [fd : FD, ackSent : BOOLEAN, recvEnable : BOOLEAN,
           worker : WorkerSlot \cup {0},            \* 0 is the NULL pointer
           pendingInput : Seq(Line), pendingOutput : BOOLEAN]

Worker == [sessionId : SessionId \cup {0}, dir : SessionId, pid : Pid \cup {NoPid},
           in : FD, out : FD, err : FD,
           rcvdCmd : BOOLEAN, idle : BOOLEAN, timeout : BOOLEAN]

Proc == [st : {"none", "running", "zombie"},
         in : 0 .. PipeCap, out : 0 .. PipeCap, err : 0 .. PipeCap,
         ready : BOOLEAN,        \* the prompt is out and no input was read since
         term : BOOLEAN,         \* SIGTERM was sent
         inh : SUBSET Pid]       \* whose stdin write ends it inherited

Sock == [in : Seq(Line), eof : BOOLEAN, reset : BOOLEAN, full : BOOLEAN]

ASSUME ServerAssumption ==
    /\ Pid \subseteq Nat
    /\ SessionId \subseteq Nat \ {0}
    /\ Lines \subseteq Line
    /\ {MaxCommandLen, PipeCap} \subseteq Nat \ {0}
    /\ {MaxConns, MaxLines} \subseteq Nat
    /\ Happens \subseteq Happening

ASSUME NullAssumption == NULL \notin Client \cup Worker

NoProc == [st |-> "none", in |-> 0, out |-> 0, err |-> 0, ready |-> FALSE,
           term |-> FALSE, inh |-> {}]

NoSock == [in |-> <<>>, eof |-> FALSE, reset |-> FALSE, full |-> FALSE]

NewClient(fd) == [fd |-> fd, ackSent |-> FALSE, recvEnable |-> TRUE, worker |-> 0,
                  pendingInput |-> <<>>, pendingOutput |-> FALSE]

Init ==
    /\ clients = [c \in ClientSlot |-> NULL]
    /\ workers = [w \in WorkerSlot |-> NULL]
    /\ poll = EmptyTable
    /\ pc = "poll" /\ i = 0 /\ base = {} /\ cur = 0 /\ closing = FALSE
    /\ open = {} /\ dirs = {}
    /\ procs = [p \in Pid |-> NoProc]
    /\ sigchld = FALSE
    /\ sock = [c \in ClientSlot |-> NoSock]
    /\ backlog = 0 /\ conns = 0 /\ sent = 0
    /\ reply = {}

-----------------------------------------------------------------------------
(* Look-ups and table operations.                                          *)

LiveClients == {c \in ClientSlot : clients[c] # NULL}
LiveWorkers == {w \in WorkerSlot : workers[w] # NULL}

\* The first of a set of places, as every table search of the server finds it.
First(S) == {x \in S : \A y \in S : x <= y}

\* The n-th lowest (from 0) descriptor not in use: what the kernel hands out.
NextFD(n) == {f \in FD \ open : Cardinality({g \in FD \ open : g < f}) = n}

Attached(w) == {c \in LiveClients : clients[c].worker = w}

\* findClient(worker): the client that is given a worker's output.
Receiver(w) == First({c \in Attached(w) : clients[c].recvEnable})

WorkerFDs(w) == {workers[w].in, workers[w].out, workers[w].err}

\* Mutant: the search passes over ended sessions.
ActiveByPID(p) == First({w \in LiveWorkers : workers[w].pid = p /\ workers[w].sessionId # 0})

WorkersByPID(p) == First({w \in LiveWorkers : workers[w].pid = p})

SessionWorker(s) == First({w \in LiveWorkers : workers[w].sessionId = s})

\* Mutant: the search of genSessionId starts at the second place.
UsedIdsAfterFirst == {workers[w].sessionId : w \in LiveWorkers \ {1}}

UsedIds == {workers[w].sessionId : w \in LiveWorkers}

Running(p) == p \in Pid /\ procs[p].st = "running"

\* Client::send leaves output pending when the socket is full or broken.
Unsent(c) == sock[c].full \/ sock[c].reset

\* send to the clients of S, updateClientWritePoll after it.
SentTo(S) == [c \in ClientSlot |->
    IF c \in S THEN [clients[c] EXCEPT !.pendingOutput = Unsent(c)] ELSE clients[c]]

\* Mutants: POLLOUT is never cleared; POLLOUT is never set.
NeverDisarmed(t, S, P) == SetWritePoll(t, {clients[c].fd : c \in P}, {clients[c].fd : c \in P})
NeverArmed(t, S, P) == SetWritePoll(t, {clients[c].fd : c \in S}, {})

\* The poll table after updateClientWritePoll for the clients of S, whose
\* output is pending exactly for those of P.
WritePoll(t, S, P) ==
    SetWritePoll(t, {clients[c].fd : c \in S}, {clients[c].fd : c \in P})

StillUnsent(S) == {c \in S : Unsent(c)}

\* Mutant: only the client findClient(worker) finds is detached.
DetachReceiver(cs, w) == [c \in ClientSlot |->
    IF c \in Receiver(w) THEN [cs[c] EXCEPT !.worker = 0] ELSE cs[c]]

\* Mutant: nobody is detached from a worker that goes.
DetachNone(cs, w) == cs

\* The clients after freeWorker(w), from a client table cs.
DetachAll(cs, w) == [c \in ClientSlot |->
    IF cs[c] # NULL /\ cs[c].worker = w THEN [cs[c] EXCEPT !.worker = 0] ELSE cs[c]]

\* The poll table without the pipes of w.
UnsetPipes(t, w) == UnsetPollFD(UnsetPollFD(t, workers[w].out), workers[w].err)

\* endSession's kill: pid -1 addresses every process the server may signal.
Kill(p) == [q \in Pid |->
    IF (q = p \/ p = NoPid) /\ procs[q].st = "running"
      THEN [procs[q] EXCEPT !.term = TRUE] ELSE procs[q]]

Msg(S, m) == {[to |-> c, msg |-> m] : c \in S}

-----------------------------------------------------------------------------
(* The scan.                                                               *)

Revents(k) == IF k \in PollIndex THEN poll.e[k].rev
              ELSE IF k \in base THEN {"IN"} ELSE {}

\* The loop has come to index k: the highest below i with revents.
At(k) == /\ pc = "scan" /\ k < i
         /\ Revents(k) # {}
         /\ \A j \in (k + 1) .. (i - 1) : Revents(j) = {}

\* What ::poll reports for a place in use.  A pipe is readable when it holds
\* data and at end of file, which it reaches when its process is gone.
SocketEvents(c, armed) ==
    (IF sock[c].in # <<>> \/ sock[c].eof THEN {"IN"} ELSE {})
    \cup (IF sock[c].reset THEN {"HUP"} ELSE {})
    \cup (IF armed /\ ~sock[c].full THEN {"OUT"} ELSE {})

PipeReadable(w, fd) ==
    LET p == workers[w].pid IN
    \/ ~Running(p)
    \/ fd = workers[w].out /\ procs[p].out > 0
    \/ fd = workers[w].err /\ procs[p].err > 0

ReportedEvents(k) ==
    UNION ({SocketEvents(c, poll.e[k].out) : c \in {d \in LiveClients : clients[d].fd = poll.e[k].fd}}
      \cup {{"IN"} : w \in {v \in LiveWorkers : /\ poll.e[k].fd \in {workers[v].out, workers[v].err}
                                                /\ PipeReadable(v, poll.e[k].fd)}})

\* Timer expirations that find no inactive worker change nothing: left out.
Inactive == {w \in LiveWorkers : workers[w].idle /\ workers[w].sessionId # 0}

BaseReady == {k \in 0 .. 2 : \/ k = 0 /\ backlog > 0
                             \/ k = 1 /\ sigchld
                             \/ k = 2 /\ Inactive # {}}

\* ::poll(_pollFDs, _nPollFDs, -1) returns.
Poll ==
    LET rev == [k \in Used(poll) |-> ReportedEvents(k)] IN
    /\ pc = "poll"
    /\ BaseReady # {} \/ \E k \in Used(poll) : rev[k] # {}
    /\ poll' = SetRevents(poll, rev)
    /\ base' = BaseReady
    /\ i' = poll.n
    /\ pc' = "scan"
    /\ reply' = {} /\ UNCHANGED <<clients, workers, cur, closing, open, dirs, envVars>>

\* The loop ends.  The revents are dead until the next ::poll writes them.
ScanDone ==
    /\ pc = "scan"
    /\ \A k \in 0 .. (i - 1) : Revents(k) = {}
    /\ pc' = "poll" /\ i' = 0 /\ base' = {}
    /\ poll' = SetRevents(poll, [k \in Used(poll) |-> {}])
    /\ reply' = {} /\ UNCHANGED <<clients, workers, cur, closing, open, dirs, envVars>>

\* Index 0: accept one connection and give it a place in the client table.
Accept ==
    /\ At(0) /\ i' = 0 /\ backlog > 0 /\ backlog' = backlog - 1
    /\ \E f \in NextFD(0), c \in First(ClientSlot \ LiveClients) :
         /\ clients' = [clients EXCEPT ![c] = NewClient(f)]
         /\ poll' = AddPollFD(poll, f)
         /\ open' = open \cup {f}
    /\ reply' = {} /\ UNCHANGED <<workers, pc, base, cur, closing, dirs, procs, sigchld, sock, conns, sent>>

\* The client table is full: the error is logged and the connection stays
\* open, unpolled and without a Client.
AcceptNoClient ==
    /\ At(0) /\ i' = 0 /\ backlog > 0 /\ backlog' = backlog - 1
    /\ LiveClients = ClientSlot
    /\ \E f \in NextFD(0) : open' = open \cup {f}
    /\ reply' = {} /\ UNCHANGED <<clients, workers, poll, pc, base, cur, closing, dirs, procs, sigchld, sock, conns, sent>>

\* accept fails, no descriptor left: poll() returns and main calls it again.
AcceptError ==
    /\ At(0) /\ i' = 0
    /\ open = FD
    /\ reply' = {} /\ UNCHANGED <<clients, workers, poll, pc, base, cur, closing, open, dirs, envVars>>

\* Index 1: the pending SIGCHLD is consumed, then waitpid is called in a loop.
Signal ==
    /\ At(1) /\ i' = 1
    /\ sigchld' = FALSE
    /\ pc' = "reap" /\ reply' = {} /\ UNCHANGED <<clients, workers, poll, base, cur, closing, open, dirs, procs, peers>>

Reaped(p) == [q \in Pid |-> IF q = p THEN NoProc
                                     ELSE [procs[q] EXCEPT !.inh = @ \ {p}]]

Zombies == {p \in Pid : procs[p].st = "zombie"}

\* Unset the pipes of w, closePipes and freeWorker(w), which also removes its
\* session directory; cs and t are the client and poll tables so far.
FreeWorker(w, cs, t) ==
    /\ poll' = UnsetPipes(t, w)
    /\ open' = open \ WorkerFDs(w)
    /\ clients' = DetachAll(cs, w)
    /\ workers' = [workers EXCEPT ![w] = NULL]
    /\ dirs' = dirs \ {workers[w].dir}

\* The process of a session that was ended or timed out: every attached client
\* is told (onSessionEnd).
ReapEnded(p) ==
    /\ pc = "reap" /\ p \in Zombies
    /\ \E w \in WorkersByPID(p) :
         LET S == Attached(w) IN
         /\ workers[w].sessionId = 0
         /\ reply' = Msg(S, IF workers[w].timeout THEN "TIMEOUT" ELSE "ENDED")
         /\ FreeWorker(w, SentTo(S), WritePoll(poll, S, StillUnsent(S)))
    /\ procs' = Reaped(p)
    /\ UNCHANGED <<pc, i, base, cur, closing, sigchld, peers>>

\* The process exited by itself: only the receiving client is told.
ReapFailed(p) ==
    /\ pc = "reap" /\ p \in Zombies
    /\ \E w \in WorkersByPID(p) :
         LET S == Receiver(w) IN
         /\ workers[w].sessionId # 0
         /\ reply' = Msg(S, "FAILED")
         /\ FreeWorker(w, SentTo(S), WritePoll(poll, S, StillUnsent(S)))
    /\ procs' = Reaped(p)
    /\ UNCHANGED <<pc, i, base, cur, closing, sigchld, peers>>

\* A process whose Worker is gone: logged only.
ReapUnknown(p) ==
    /\ pc = "reap" /\ p \in Zombies /\ WorkersByPID(p) = {}
    /\ procs' = Reaped(p)
    /\ reply' = {} /\ UNCHANGED <<serverVars, sigchld, peers>>

\* Mutant: waitpid is called at most once for a signal.
ReapOnce ==
    /\ pc = "reap"
    /\ pc' = "scan" /\ reply' = {} /\ UNCHANGED <<clients, workers, poll, i, base, cur, closing, open, dirs, envVars>>

ReapDone ==
    /\ pc = "reap" /\ Zombies = {}
    /\ pc' = "scan" /\ reply' = {} /\ UNCHANGED <<clients, workers, poll, i, base, cur, closing, open, dirs, envVars>>

\* Index 2: every worker that checkInactivity finds is timed out.
Timer ==
    /\ At(2) /\ i' = 2
    /\ pc' = "timer" /\ reply' = {} /\ UNCHANGED <<clients, workers, poll, base, cur, closing, open, dirs, envVars>>

EndedWorker(w, timedOut) ==
    [workers EXCEPT ![w].sessionId = 0, ![w].timeout = @ \/ timedOut]

TimeoutWorker ==
    /\ pc = "timer"
    /\ \E w \in First(Inactive) :
         /\ workers' = EndedWorker(w, TRUE)
         /\ procs' = Kill(workers[w].pid)
    /\ reply' = {} /\ UNCHANGED <<clients, poll, pc, i, base, cur, closing, open, dirs, sigchld, peers>>

TimerDone ==
    /\ pc = "timer" /\ Inactive = {}
    /\ pc' = "scan" /\ reply' = {} /\ UNCHANGED <<clients, workers, poll, i, base, cur, closing, open, dirs, envVars>>

-----------------------------------------------------------------------------
(* A client socket.                                                        *)

\* The client whose socket is at index k (findClient(fd)).
ClientAt(k) == First({c \in LiveClients : k \in PollIndex /\ clients[c].fd = poll.e[k].fd})

\* Mutants: unsetPollFD is left out; the pipes of the client's worker are closed
\* as well.
CloseStillPolled(c) ==
    /\ clients' = [clients EXCEPT ![c] = NULL]
    /\ open' = open \ {clients[c].fd}
    /\ sock' = [sock EXCEPT ![c] = NoSock]
    /\ UNCHANGED poll
CloseWithPipes(c) ==
    /\ clients' = [clients EXCEPT ![c] = NULL]
    /\ poll' = UnsetPollFD(poll, clients[c].fd)
    /\ open' = open \ ({clients[c].fd} \cup UNION {WorkerFDs(w) : w \in {clients[c].worker} \ {0}})
    /\ sock' = [sock EXCEPT ![c] = NoSock]

\* close(fd), freeClient and unsetPollFD(fd).
CloseClient(c) ==
    /\ clients' = [clients EXCEPT ![c] = NULL]
    /\ poll' = UnsetPollFD(poll, clients[c].fd)
    /\ open' = open \ {clients[c].fd}
    /\ sock' = [sock EXCEPT ![c] = NoSock]

\* POLLERR, POLLHUP or POLLNVAL; or POLLOUT and the pending output cannot be sent.
ClientHangup(k) ==
    /\ At(k) /\ i' = k
    /\ \E c \in ClientAt(k) :
         /\ \/ "HUP" \in Revents(k)
            \/ "OUT" \in Revents(k) /\ clients[c].pendingOutput /\ sock[c].reset
         /\ CloseClient(c)
    /\ reply' = {} /\ UNCHANGED <<workers, pc, base, cur, closing, dirs, procs, sigchld, backlog, conns, sent>>

\* POLLOUT flushes the pending output; POLLIN then receives all there is and
\* starts the loop over the input.  End of file or an error closes the client,
\* but only after the input received before it has been processed.
ClientReady(k) ==
    /\ At(k) /\ i' = k
    /\ "HUP" \notin Revents(k)
    /\ \E c \in ClientAt(k) :
         LET out == "OUT" \in Revents(k)
             in  == "IN" \in Revents(k)
             pending == clients[c].pendingOutput /\ (out => Unsent(c))
         IN
         /\ ~(out /\ clients[c].pendingOutput /\ sock[c].reset)
         /\ clients' = [clients EXCEPT
                          ![c].pendingOutput = pending,
                          ![c].pendingInput = IF in THEN @ \o sock[c].in ELSE @]
         /\ poll' = IF out THEN WritePoll(poll, {c}, IF pending THEN {c} ELSE {}) ELSE poll
         /\ sock' = IF in THEN [sock EXCEPT ![c].in = <<>>] ELSE sock
         /\ cur' = IF in THEN c ELSE 0
         /\ closing' = (in /\ (sock[c].eof \/ sock[c].reset))
         /\ pc' = IF in THEN "input" ELSE "scan"
    /\ reply' = {} /\ UNCHANGED <<workers, base, open, dirs, procs, sigchld, backlog, conns, sent>>

-----------------------------------------------------------------------------
(* The loop over the pending input of client cur.                          *)

Input == clients[cur].pendingInput
CurWorker == clients[cur].worker          \* also the handler's local worker

\* Input is taken line by line until the worker is in the mode in which it is
\* forwarded as it comes.  The mode (rcvdCmd) belongs to the worker.
LineMode == CurWorker # 0 => ~workers[CurWorker].rcvdCmd

\* A SESSION line with an unknown id stays in the buffer with its newline
\* overwritten ("STUCK"): the line it starts ends with the next one.
HasLine == Input # <<>> /\ (Input[1].cmd = "STUCK" => Len(Input) > 1)

Rest == SubSeq(Input, IF Input[1].cmd = "STUCK" THEN 3 ELSE 2, Len(Input))

\* memchr(buffer, ':') looks through the whole buffer.
HasColon == \E k \in DOMAIN Input : Input[k].cmd \in {"SESSION", "SEND", "RECEIVE:", "STUCK"}

InLoop == pc = "input" /\ Input # <<>>

\* A line to interpret, while the client has no worker or has one.
Unattached(cmds) ==
    InLoop /\ CurWorker = 0 /\ Len(Input) <= MaxCommandLen /\ HasLine /\ Input[1].cmd \in cmds

InSession(cmds) ==
    InLoop /\ CurWorker # 0 /\ LineMode /\ Len(Input) <= MaxCommandLen /\ HasLine /\ Input[1].cmd \in cmds

\* The loop is left; the client is closed if the handler decided so.
LeaveLoop(close) ==
    /\ IF close THEN CloseClient(cur) ELSE UNCHANGED <<clients, poll, open, sock>>
    /\ pc' = "scan" /\ cur' = 0 /\ closing' = FALSE

InputDone ==
    /\ pc = "input"
    /\ \/ Input = <<>>
       \/ LineMode /\ Len(Input) <= MaxCommandLen /\ ~HasLine
    /\ LeaveLoop(closing)
    /\ reply' = {} /\ UNCHANGED <<workers, i, base, dirs, procs, sigchld, backlog, conns, sent>>

CommandTooLong ==
    /\ InLoop /\ LineMode /\ Len(Input) > MaxCommandLen
    /\ LeaveLoop(TRUE)
    /\ reply' = {} /\ UNCHANGED <<workers, i, base, dirs, procs, sigchld, backlog, conns, sent>>

\* Neither branch knows the line: the connection is closed without an answer.
InvalidCommand ==
    /\ \/ Unattached(Command \ {"START", "SESSION", "STUCK"})
       \/ InSession({"START", "SESSION", "STUCK", "TEXT"})
       \/ InSession({"RECEIVE"}) /\ ~HasColon
    /\ LeaveLoop(TRUE)
    /\ reply' = {} /\ UNCHANGED <<workers, i, base, dirs, procs, sigchld, backlog, conns, sent>>

NewWorker(s, p, fin, fout, ferr) ==
    [sessionId |-> s, dir |-> s, pid |-> p, in |-> fin, out |-> fout, err |-> ferr,
     rcvdCmd |-> TRUE, idle |-> FALSE, timeout |-> FALSE]

FreePids == {p \in Pid : procs[p].st = "none"}

\* The child inherits the stdin write end of every worker: it closes only its
\* own pipes and the polled descriptors.
ForkedProc == [NoProc EXCEPT !.st = "running",
                             !.inh = {workers[w].pid : w \in LiveWorkers} \ {NoPid}]

\* START SESSION.  A directory of the session's name is taken for a stale one
\* and replaced.  The result of fork is not examined: without a free process the
\* worker is set up all the same, with pid -1.
StartSession ==
    /\ Unattached({"START"})
    /\ \E s \in SessionId \ UsedIds, w \in First(WorkerSlot \ LiveWorkers),
          p \in IF FreePids = {} THEN {NoPid} ELSE First(FreePids),
          fin \in NextFD(1), fout \in NextFD(2), ferr \in NextFD(4) :
         /\ NextFD(5) # {}
         /\ workers' = [workers EXCEPT ![w] = NewWorker(s, p, fin, fout, ferr)]
         /\ procs' = [q \in Pid |-> IF q = p THEN ForkedProc ELSE procs[q]]
         /\ dirs' = dirs \cup {s}
         /\ open' = open \cup {fin, fout, ferr}
         /\ clients' = [clients EXCEPT ![cur].worker = w,
                                       ![cur].pendingInput = Rest,
                                       ![cur].pendingOutput = Unsent(cur)]
         /\ poll' = WritePoll(AddPollFD(AddPollFD(poll, fout), ferr), {cur}, StillUnsent({cur}))
    /\ reply' = Msg({cur}, "STARTED")
    /\ pc' = "write"
    /\ UNCHANGED <<i, base, cur, closing, sigchld, peers>>

\* No free worker, or its directory cannot be made (a directory of the same
\* name may be gone by then).
StartNoWorker ==
    /\ Unattached({"START"})
    /\ \/ LiveWorkers = WorkerSlot /\ UNCHANGED dirs
       \/ /\ LiveWorkers # WorkerSlot /\ "dir" \in Happens
          /\ \E s \in SessionId \ UsedIds : dirs' \in {dirs, dirs \ {s}}
    /\ LeaveLoop(TRUE)
    /\ reply' = {} /\ UNCHANGED <<workers, i, base, procs, sigchld, backlog, conns, sent>>

\* createPipes fails at the first, second or third pipe; the pipes already made
\* stay open, the worker and its directory are removed again.
StartNoPipes ==
    /\ Unattached({"START"}) /\ LiveWorkers # WorkerSlot
    /\ "pipe" \in Happens \/ NextFD(5) = {}
    /\ \E s \in SessionId \ UsedIds : dirs' = dirs \ {s}
    /\ \E n \in {0, 2, 4} :
         LET leaked == UNION {NextFD(j) : j \in 0 .. (n - 1)} IN
         /\ NextFD(n - 1) # {} \/ n = 0
         /\ NextFD(5) = {} => NextFD(n + 1) = {}
         /\ clients' = [clients EXCEPT ![cur] = NULL]
         /\ poll' = UnsetPollFD(poll, clients[cur].fd)
         /\ open' = (open \cup leaked) \ {clients[cur].fd}
         /\ sock' = [sock EXCEPT ![cur] = NoSock]
    /\ pc' = "scan" /\ cur' = 0 /\ closing' = FALSE /\ reply' = {} /\ UNCHANGED <<workers, i, base, procs, sigchld, backlog, conns, sent>>

\* SESSION: attach to the worker that has the id.  Id 0, which atol also makes
\* of anything that is no number, is that of every ended session.
Attach ==
    /\ Unattached({"SESSION", "STUCK"})
    /\ \E w \in SessionWorker(Input[1].id) :
         /\ clients' = [clients EXCEPT ![cur].worker = w, ![cur].pendingInput = Rest]
         /\ workers' = [workers EXCEPT ![w].rcvdCmd = FALSE]
    /\ reply' = {} /\ UNCHANGED <<poll, pc, i, base, cur, closing, open, dirs, envVars>>

\* The loop is left with the line still in the buffer, less its newline.
AttachUnknown ==
    /\ Unattached({"SESSION", "STUCK"})
    /\ SessionWorker(Input[1].id) = {}
    /\ IF closing THEN CloseClient(cur)
       ELSE /\ clients' = [clients EXCEPT ![cur].pendingInput =
                             <<[cmd |-> "STUCK", id |-> Input[1].id]>> \o Rest]
            /\ UNCHANGED <<poll, open, sock>>
    /\ pc' = "scan" /\ cur' = 0 /\ closing' = FALSE
    /\ reply' = Msg({cur}, "UNKNOWN")
    /\ UNCHANGED <<workers, i, base, dirs, procs, sigchld, backlog, conns, sent>>

\* END: SIGTERM to the worker, which is reaped later.
End ==
    /\ InSession({"END"})
    /\ workers' = EndedWorker(CurWorker, FALSE)
    /\ procs' = Kill(workers[CurWorker].pid)
    /\ clients' = [clients EXCEPT ![cur].pendingInput = Rest]
    /\ reply' = {} /\ UNCHANGED <<poll, pc, i, base, cur, closing, open, dirs, sigchld, peers>>

\* SEND: what follows the colon, and all later input, goes to the worker.
Send ==
    /\ InSession({"SEND"})
    /\ workers' = [workers EXCEPT ![CurWorker].rcvdCmd = TRUE]
    /\ clients' = [clients EXCEPT ![cur].ackSent = TRUE,
                                  ![cur].pendingInput = <<[cmd |-> "TEXT", id |-> 0]>> \o Rest]
    /\ pc' = "write" /\ reply' = {} /\ UNCHANGED <<poll, i, base, cur, closing, open, dirs, envVars>>

\* RECEIVE with a colon, its own or one further on in the buffer.
Receive ==
    /\ InSession({"RECEIVE", "RECEIVE:"}) /\ HasColon
    /\ clients' = [clients EXCEPT ![cur].recvEnable = FALSE, ![cur].pendingInput = Rest]
    /\ reply' = {} /\ UNCHANGED <<workers, poll, pc, i, base, cur, closing, open, dirs, envVars>>

Status ==
    /\ InSession({"STATUS"})
    /\ clients' = [clients EXCEPT ![cur].pendingInput = Rest,
                                  ![cur].pendingOutput = Unsent(cur)]
    /\ poll' = WritePoll(poll, {cur}, StillUnsent({cur}))
    /\ reply' = Msg({cur}, "READY")
    /\ UNCHANGED <<workers, pc, i, base, cur, closing, open, dirs, envVars>>

\* write() to the worker's stdin.  It fails when the pipe is full (EAGAIN) and
\* when nobody reads it (EPIPE); the loop goes round all the same.  Once a
\* client has used SEND, its input running out is acknowledged with SENT.
WriteInput ==
    /\ pc = "write" \/ (InLoop /\ ~LineMode)
    /\ LET p    == workers[CurWorker].pid
           room == IF Running(p) THEN PipeCap - procs[p].in ELSE 0
           n    == IF Len(Input) <= room THEN Len(Input) ELSE room
           ack  == clients[cur].ackSent /\ n = Len(Input)
       IN
       /\ procs' = IF Running(p) THEN [procs EXCEPT ![p].in = @ + n] ELSE procs
       /\ clients' = [clients EXCEPT
                        ![cur].pendingInput = SubSeq(@, n + 1, Len(@)),
                        ![cur].pendingOutput = IF ack THEN Unsent(cur) ELSE @]
       /\ poll' = IF ack THEN WritePoll(poll, {cur}, StillUnsent({cur})) ELSE poll
       /\ reply' = IF ack THEN Msg({cur}, "SENT") ELSE {}
    /\ pc' = "input"
    /\ UNCHANGED <<workers, i, base, cur, closing, open, dirs, sigchld, peers>>

-----------------------------------------------------------------------------
(* A worker's stdout or stderr pipe.                                       *)

WorkerAt(k) ==
    {w \in LiveWorkers : k \in PollIndex /\ poll.e[k].fd \in {workers[w].out, workers[w].err}}

\* Nobody receives: the worker is discarded.  Its process is not signalled.
PipeNoClient(k) ==
    /\ At(k) /\ i' = k
    /\ \E w \in First(WorkerAt(k)) :
         /\ Receiver(w) = {}
         /\ FreeWorker(w, clients, poll)
    /\ reply' = {} /\ UNCHANGED <<pc, base, cur, closing, envVars>>

\* Everything in the pipe is read for the receiving client: stdout as RECEIVED,
\* a prompt on stderr, which carries nothing else, as READY.  At end of file both
\* pipes are unset.  The client's output is flushed last.
PipeRead(k) ==
    /\ At(k) /\ i' = k
    /\ \E w \in First(WorkerAt(k)) : \E c \in Receiver(w) :
         LET p     == workers[w].pid
             isOut == poll.e[k].fd = workers[w].out
             data  == p \in Pid /\ (IF isOut THEN procs[p].out ELSE procs[p].err) > 0
             on    == (data \/ clients[c].pendingOutput) /\ Unsent(c)
         IN
         /\ workers' = [workers EXCEPT ![w].idle = FALSE]
         /\ procs' = [q \in Pid |-> IF q # p THEN procs[q]
                                    ELSE IF isOut THEN [procs[q] EXCEPT !.out = 0]
                                                  ELSE [procs[q] EXCEPT !.err = 0]]
         /\ \E t \in {IF Running(p) THEN poll ELSE UnsetPipes(poll, w)} :
              poll' = WritePoll(t, {c}, IF on THEN {c} ELSE {})
         /\ clients' = [clients EXCEPT ![c].pendingOutput = on]
         /\ reply' = IF data THEN Msg({c}, IF isOut THEN "RECEIVED" ELSE "READY") ELSE {}
    /\ UNCHANGED <<pc, base, cur, closing, open, dirs, sigchld, peers>>

-----------------------------------------------------------------------------
(* The peers, the worker processes and the clock.                          *)

Connect ==
    /\ conns < MaxConns
    /\ conns' = conns + 1 /\ backlog' = backlog + 1
    /\ reply' = {} /\ UNCHANGED <<serverVars, procs, sigchld, sock, sent>>

PeerSend(c, l) ==
    /\ c \in LiveClients /\ ~sock[c].eof /\ ~sock[c].reset
    /\ sent < MaxLines
    /\ sent' = sent + 1
    /\ sock' = [sock EXCEPT ![c].in = Append(@, l)]
    /\ reply' = {} /\ UNCHANGED <<serverVars, procs, sigchld, backlog, conns>>

\* The peer closes its end (FIN), the connection is reset (RST), or the peer
\* stops or resumes reading what the server sends.
PeerClose(c) ==
    /\ "close" \in Happens
    /\ c \in LiveClients /\ ~sock[c].eof /\ ~sock[c].reset
    /\ sock' = [sock EXCEPT ![c].eof = TRUE]
    /\ reply' = {} /\ UNCHANGED <<serverVars, procs, sigchld, backlog, conns, sent>>

PeerReset(c) ==
    /\ "reset" \in Happens
    /\ c \in LiveClients /\ ~sock[c].reset
    /\ sock' = [sock EXCEPT ![c].in = <<>>, ![c].reset = TRUE]
    /\ reply' = {} /\ UNCHANGED <<serverVars, procs, sigchld, backlog, conns, sent>>

PeerStall(c) ==
    /\ "stall" \in Happens
    /\ c \in LiveClients /\ ~sock[c].reset
    /\ sock' = [sock EXCEPT ![c].full = ~@]
    /\ reply' = {} /\ UNCHANGED <<serverVars, procs, sigchld, backlog, conns, sent>>

\* iss prints its prompt on stderr before it reads, whether or not there is
\* something to read; nothing else writes there.  A full stderr blocks it.
ProcPrompt(p) ==
    /\ Running(p) /\ ~procs[p].ready /\ procs[p].err < PipeCap
    /\ procs' = [procs EXCEPT ![p].ready = TRUE, ![p].err = @ + 1]
    /\ reply' = {} /\ UNCHANGED <<serverVars, sigchld, peers>>

\* iss reads the lines there are, evaluates them as one command and prints the
\* result, if any, on stdout; it blocks while stdout is full.
ProcEval(p, taken, printed) ==
    /\ Running(p) /\ procs[p].ready
    /\ taken <= procs[p].in /\ procs[p].out + printed <= PipeCap
    /\ procs' = [procs EXCEPT ![p].in = @ - taken, ![p].out = @ + printed, ![p].ready = FALSE]
    /\ reply' = {} /\ UNCHANGED <<serverVars, sigchld, peers>>

\* The stdin of p has a writer: the server, or a process that inherited it.
StdinOpen(p) == \/ \E w \in LiveWorkers : workers[w].pid = p
                \/ \E q \in Pid : procs[q].st = "running" /\ p \in procs[q].inh

MustExit(p) == Running(p) /\ (procs[p].term \/ (procs[p].in = 0 /\ ~StdinOpen(p)))

ProcExit(p) ==
    /\ MustExit(p) \/ (Running(p) /\ "crash" \in Happens)
    /\ procs' = [procs EXCEPT ![p].st = "zombie", ![p].in = 0,
                               ![p].ready = FALSE, ![p].inh = {}]
    /\ sigchld' = TRUE
    /\ reply' = {} /\ UNCHANGED <<serverVars, peers>>

\* workerTimeout seconds have passed since the worker's last output.
Elapse(w) ==
    /\ "elapse" \in Happens
    /\ w \in LiveWorkers /\ ~workers[w].idle /\ workers[w].sessionId # 0
    /\ workers' = [workers EXCEPT ![w].idle = TRUE]
    /\ reply' = {} /\ UNCHANGED <<clients, poll, pc, i, base, cur, closing, open, dirs, envVars>>

-----------------------------------------------------------------------------
Scan ==
    \/ Poll \/ ScanDone
    \/ Accept \/ AcceptNoClient \/ AcceptError
    \/ Signal \/ Timer
    \/ \E k \in PollIndex :
         \/ ClientHangup(k) \/ ClientReady(k)
         \/ PipeNoClient(k) \/ PipeRead(k)

Reap == ReapDone \/ \E p \in Pid : ReapEnded(p) \/ ReapFailed(p) \/ ReapUnknown(p)

Expire == TimeoutWorker \/ TimerDone

Interpret ==
    \/ InputDone \/ CommandTooLong \/ InvalidCommand
    \/ StartSession \/ StartNoWorker \/ StartNoPipes
    \/ Attach \/ AttachUnknown
    \/ End \/ Send \/ Receive \/ Status
    \/ WriteInput

Server == Scan \/ Reap \/ Expire \/ Interpret

Environment ==
    \/ Connect
    \/ \E c \in ClientSlot : \/ \E l \in Lines : PeerSend(c, l)
                             \/ PeerClose(c) \/ PeerReset(c) \/ PeerStall(c)
    \/ \E p \in Pid : \/ ProcPrompt(p) \/ ProcExit(p)
                      \/ \E taken \in 1 .. PipeCap, printed \in 0 .. 1 :
                            ProcEval(p, taken, printed)
    \/ \E w \in WorkerSlot : Elapse(w)

Next == Server \/ Environment

\* The server thread runs whenever it can.  Processes get on with their input,
\* unless what they print finds stdout full, and exit when terminated or out of
\* input.  Nothing is assumed of the peers, of crashes or of the clock.
Fairness ==
    /\ WF_vars(Server)
    /\ \A p \in Pid : /\ WF_vars(ProcPrompt(p))
                      /\ WF_vars(\E taken \in 1 .. PipeCap : ProcEval(p, taken, 1))
                      /\ WF_vars(MustExit(p) /\ ProcExit(p))

Spec == Init /\ [][Next]_vars

FairSpec == Spec /\ Fairness

-----------------------------------------------------------------------------
(* What the server must keep true.                                         *)

TypeOK ==
    /\ clients \in [ClientSlot -> Client \cup {NULL}]
    /\ workers \in [WorkerSlot -> Worker \cup {NULL}]
    /\ poll \in [n : NBase .. Capacity, e : [PollIndex -> Entry]]
    /\ pc \in {"poll", "scan", "input", "write", "reap", "timer"}
    /\ i \in 0 .. Capacity
    /\ base \subseteq 0 .. 2
    /\ cur \in ClientSlot \cup {0}
    /\ closing \in BOOLEAN
    /\ open \subseteq FD
    /\ dirs \subseteq SessionId
    /\ procs \in [Pid -> Proc]
    /\ sigchld \in BOOLEAN
    /\ sock \in [ClientSlot -> Sock]
    /\ backlog \in Nat /\ conns \in 0 .. MaxConns /\ sent \in 0 .. MaxLines
    /\ reply \subseteq [to : ClientSlot, msg : Message]

ClientFDs == {clients[c].fd : c \in LiveClients}

PipeFDs == UNION {{workers[w].out, workers[w].err} : w \in LiveWorkers}

\* Every polled descriptor is polled once, is open and is the socket of a
\* client in the table or a pipe of a worker in the table, so that the handler
\* never ends in "Unknown file descriptor"; every client is polled.
PollTableSound ==
    /\ \A j, k \in Used(poll) : poll.e[j].fd = poll.e[k].fd => j = k
    /\ Polled(poll) \subseteq open \cap (ClientFDs \cup PipeFDs)
    /\ ClientFDs \subseteq Polled(poll)

\* No descriptor has two owners: closing one object's descriptors never closes
\* another's, whatever numbers the kernel reuses.
FDsOwnedOnce ==
    /\ \A c, d \in LiveClients : clients[c].fd = clients[d].fd => c = d
    /\ \A v, w \in LiveWorkers : v # w => WorkerFDs(v) \cap WorkerFDs(w) = {}
    /\ \A c \in LiveClients, w \in LiveWorkers : clients[c].fd \notin WorkerFDs(w)
    /\ \A w \in LiveWorkers : LET r == workers[w] IN
         r.in # r.out /\ r.in # r.err /\ r.out # r.err

\* POLLOUT is asked for exactly the clients with pending output: without it the
\* output would stay, with it for nothing the server would spin.
WritePollArmed ==
    Armed(poll) = {clients[c].fd : c \in {d \in LiveClients : clients[d].pendingOutput}}

\* A client's worker pointer is NULL or a worker in the table, and the client
\* whose input is being processed is in the table.
NoDanglingPointer ==
    /\ \A c \in LiveClients : clients[c].worker \in LiveWorkers \cup {0}
    /\ pc \in {"input", "write"} => cur \in LiveClients
    /\ pc = "write" => clients[cur].worker # 0

\* A worker's pid is that of its own, not yet reaped process: END and the
\* timeout never signal a process that got the number later.
PidOwned ==
    /\ \A w \in LiveWorkers : workers[w].pid # NoPid => procs[workers[w].pid].st # "none"
    /\ \A v, w \in LiveWorkers : workers[v].pid = workers[w].pid /\ workers[v].pid # NoPid => v = w

\* The ids of sessions that have not ended differ.
SessionIdsDiffer ==
    \A v, w \in LiveWorkers :
        workers[v].sessionId = workers[w].sessionId /\ workers[v].sessionId # 0 => v = w

\* Both pipes of a worker are polled while its process runs.
RunningWorkerPolled ==
    \A w \in LiveWorkers :
        Running(workers[w].pid) => {workers[w].out, workers[w].err} \subseteq Polled(poll)

-----------------------------------------------------------------------------
(* The server implements Sessions.                                         *)

SessionState == [w \in WorkerSlot |->
    IF workers[w] = NULL THEN "free"
    ELSE IF workers[w].sessionId = 0 THEN "ended" ELSE "active"]

SessionIds == [w \in WorkerSlot |-> IF workers[w] = NULL THEN 0 ELSE workers[w].sessionId]

AttachedTo == [c \in ClientSlot |-> IF clients[c] = NULL THEN 0 ELSE clients[c].worker]

Abstract == INSTANCE Sessions WITH
    Slot <- WorkerSlot, Connection <- ClientSlot, Id <- SessionId, None <- 0,
    state <- SessionState, id <- SessionIds, attached <- AttachedTo

\* Every step of the server is a step of the session table, or none.
RefinesSessions == Abstract!Spec

-----------------------------------------------------------------------------
(* What must happen.                                                       *)

AtPoll == pc = "poll"

\* A session that was ended or timed out is eventually reaped and its place
\* freed, if the server keeps coming back to ::poll and there was a process to
\* reap: a worker whose fork failed keeps its place for ever.
EndedReaped ==
    []<>AtPoll => \A w \in WorkerSlot :
        (w \in LiveWorkers /\ workers[w].sessionId = 0 /\ workers[w].pid # NoPid)
          ~> (w \notin LiveWorkers \/ workers[w].sessionId # 0)

\* Pending output of a client whose peer reads is eventually sent, if the
\* server keeps coming back to ::poll: no wake-up is lost.
OutputDrains ==
    []<>AtPoll => \A c \in ClientSlot :
        <>[](~sock[c].full) =>
           ((c \in LiveClients /\ clients[c].pendingOutput)
              ~> (c \notin LiveClients \/ ~clients[c].pendingOutput))

-----------------------------------------------------------------------------
(* What the documentation says and the code does not do.                   *)

\* PROTOCOL.md: "Sessions are persistent across TCP connections until
\* explicitly ended or timed out."  A worker whose process runs and whose
\* session was not ended stays in the table.
SessionsPersist ==
    [][\A w \in LiveWorkers :
         (Running(workers[w].pid) /\ workers[w].sessionId # 0) => workers'[w] # NULL]_vars

\* PROTOCOL.md: "When all pending input for that send operation has been
\* forwarded to the interpreter process, the server responds: SENT".  A SEND
\* that was accepted is answered, unless the client goes away.
SendAnswered ==
    \A c \in ClientSlot :
        (pc = "write" /\ cur = c /\ clients[c].ackSent)
          ~> (c \notin LiveClients \/ [to |-> c, msg |-> "SENT"] \in reply)
=============================================================================
