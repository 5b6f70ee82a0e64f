------------------------ MODULE SessionServerProofs --------------------------
(***************************************************************************)
(* The invariants of SessionServer hold for every size of the tables, every *)
(* set of descriptors, processes, session ids and taken, and whatever the  *)
(* surroundings do; and the server implements Sessions.                    *)
(***************************************************************************)
EXTENDS SessionServer, SequenceTheorems, FiniteSetTheorems, WellFoundedInduction, TLAPS

(***************************************************************************)
(* The types of the server's state, apart from the poll table, and that no *)
(* pointer dangles.                                                        *)
(***************************************************************************)
ClientTable == [ClientSlot -> Client \cup {NULL}]
WorkerTable == [WorkerSlot -> Worker \cup {NULL}]

\* TypeOK without the poll table and the index of the scan.
CoreType ==
    /\ clients \in ClientTable
    /\ workers \in WorkerTable
    /\ pc \in {"poll", "scan", "input", "write", "reap", "timer"}
    /\ base \subseteq 0 .. 2
    /\ cur \in ClientSlot \cup {0}
    /\ closing \in BOOLEAN
    /\ open \subseteq FD
    /\ dirs \subseteq SessionId
    /\ procs \in [Pid -> Proc]
    /\ sigchld \in BOOLEAN
    /\ sock \in [ClientSlot -> Sock]
    /\ backlog \in Nat /\ conns \in 0 .. MaxConns /\ sent \in 0 .. MaxLines
    /\ reply \subseteq [to : ClientSlot, msg : Message]

Pointers == \A c \in LiveClients : clients[c].worker \in LiveWorkers \cup {0}

Core == CoreType /\ NoDanglingPointer

-----------------------------------------------------------------------------
(* Facts about the helpers.                                                *)

LEMMA Nulls == NULL \notin Client /\ NULL \notin Worker
  BY NullAssumption

LEMMA Zeros == 0 \notin ClientSlot /\ 0 \notin WorkerSlot
  BY SizeAssumption DEF ClientSlot, WorkerSlot

LEMMA FirstIn == ASSUME NEW S, NEW x \in First(S) PROVE x \in S
  BY DEF First

LEMMA Live ==
    ASSUME CoreType
    PROVE  /\ \A c \in LiveClients : c \in ClientSlot /\ clients[c] \in Client
           /\ \A w \in LiveWorkers : w \in WorkerSlot /\ workers[w] \in Worker
  BY DEF CoreType, ClientTable, WorkerTable, LiveClients, LiveWorkers

LEMMA MsgTyped == ASSUME NEW S \in SUBSET ClientSlot, NEW m \in Message
                  PROVE  Msg(S, m) \subseteq [to : ClientSlot, msg : Message]
  BY DEF Msg

LEMMA Suffix == ASSUME NEW s \in Seq(Line), NEW k \in Nat \ {0}
                PROVE  SubSeq(s, k, Len(s)) \in Seq(Line)
  OBVIOUS

\* The loop over the input of a client in the table.
LEMMA CurLive ==
    ASSUME Core, pc \in {"input", "write"}
    PROVE  /\ cur \in LiveClients /\ cur \in ClientSlot /\ clients[cur] \in Client
           /\ Input \in Seq(Line) /\ Rest \in Seq(Line)
           /\ CurWorker \in LiveWorkers \cup {0}
  <1>1. cur \in LiveClients
    BY DEF Core, NoDanglingPointer
  <1>2. cur \in ClientSlot /\ clients[cur] \in Client
    BY <1>1, Live DEF Core
  <1>3. Input \in Seq(Line)
    BY <1>2 DEF Input, Client
  <1>4. Rest \in Seq(Line)
    BY <1>3, Suffix DEF Rest
  <1>5. CurWorker \in LiveWorkers \cup {0}
    BY <1>1 DEF CurWorker, Core, NoDanglingPointer
  <1> QED BY <1>1, <1>2, <1>3, <1>4, <1>5

LEMMA KillTyped ==
    ASSUME procs \in [Pid -> Proc], NEW p PROVE Kill(p) \in [Pid -> Proc]
  <1>1. \A r \in Proc : [r EXCEPT !.term = TRUE] \in Proc
    BY DEF Proc
  <1>2. \A q \in Pid : procs[q] \in Proc /\ [procs[q] EXCEPT !.term = TRUE] \in Proc
    BY <1>1, Zenon
  <1> QED BY <1>2, Zenon DEF Kill

LEMMA NoProcTyped == NoProc \in Proc
  BY ServerAssumption DEF NoProc, Proc

LEMMA ReapedTyped ==
    ASSUME procs \in [Pid -> Proc], NEW p PROVE Reaped(p) \in [Pid -> Proc]
  <1>1. \A r \in Proc : [r EXCEPT !.inh = r.inh \ {p}] \in Proc
    BY DEF Proc
  <1>2. \A q \in Pid : [procs[q] EXCEPT !.inh = procs[q].inh \ {p}] \in Proc
    BY <1>1, Zenon
  <1> QED BY <1>2, NoProcTyped, Zenon DEF Reaped

\* Handing out messages.
LEMMA SentToTyped ==
    ASSUME CoreType, NEW S \in SUBSET LiveClients
    PROVE  /\ SentTo(S) \in ClientTable
           /\ \A c \in ClientSlot :
                /\ SentTo(S)[c] = NULL <=> clients[c] = NULL
                /\ clients[c] # NULL => /\ SentTo(S)[c].fd = clients[c].fd
                                        /\ SentTo(S)[c].worker = clients[c].worker
                                        /\ SentTo(S)[c].pendingOutput =
                                             IF c \in S THEN Unsent(c) ELSE clients[c].pendingOutput
  <1> SUFFICES ASSUME NEW c \in ClientSlot
               PROVE  /\ SentTo(S)[c] \in Client \cup {NULL}
                      /\ SentTo(S)[c] = NULL <=> clients[c] = NULL
                      /\ clients[c] # NULL => /\ SentTo(S)[c].fd = clients[c].fd
                                              /\ SentTo(S)[c].worker = clients[c].worker
                                              /\ SentTo(S)[c].pendingOutput =
                                                   IF c \in S THEN Unsent(c) ELSE clients[c].pendingOutput
    BY DEF SentTo, ClientTable
  <1>1. Unsent(c) \in BOOLEAN
    BY DEF CoreType, Sock, Unsent
  <1>2. CASE c \in S
    <2>1. SentTo(S)[c] = [clients[c] EXCEPT !.pendingOutput = Unsent(c)]
      BY <1>2 DEF SentTo
    <2>2. clients[c] \in Client /\ clients[c] # NULL
      BY <1>2, Live, Nulls
    <2> QED BY <1>1, <1>2, <2>1, <2>2, Nulls DEF Client
  <1>3. CASE c \notin S
    <2>1. SentTo(S)[c] = clients[c]
      BY <1>3 DEF SentTo
    <2> QED BY <1>3, <2>1 DEF CoreType, ClientTable
  <1> QED BY <1>2, <1>3

-----------------------------------------------------------------------------
(* Closing a client and freeing a worker.                                  *)

LEMMA CloseCore ==
    ASSUME Core, NEW c \in LiveClients, UNCHANGED workers,
           clients' = [clients EXCEPT ![c] = NULL], sock' = [sock EXCEPT ![c] = NoSock]
    PROVE  clients' \in ClientTable /\ sock' \in [ClientSlot -> Sock] /\ Pointers'
  <1>1. NoSock \in Sock
    BY DEF NoSock, Sock
  <1>2. clients' \in ClientTable /\ sock' \in [ClientSlot -> Sock]
    BY <1>1 DEF Core, CoreType, ClientTable
  <1>3. LiveWorkers' = LiveWorkers
    BY DEF LiveWorkers
  <1>4. ASSUME NEW d \in LiveClients' PROVE d \in LiveClients /\ clients'[d] = clients[d]
    BY DEF LiveClients, Core, CoreType, ClientTable
  <1>5. Pointers'
    BY <1>3, <1>4 DEF Pointers, Core, NoDanglingPointer
  <1> QED BY <1>2, <1>5

\* From a client table that differs from the real one in pending output only.
LEMMA FreeCore ==
    ASSUME Core, NEW w \in LiveWorkers, NEW cs \in ClientTable, NEW t,
           \A c \in ClientSlot : /\ cs[c] = NULL <=> clients[c] = NULL
                                 /\ clients[c] # NULL => /\ cs[c].worker = clients[c].worker
                                                         /\ cs[c].fd = clients[c].fd,
           FreeWorker(w, cs, t)
    PROVE  /\ clients' \in ClientTable /\ workers' \in WorkerTable
           /\ open' \subseteq FD /\ dirs' \subseteq SessionId
           /\ Pointers'
           /\ LiveWorkers' = LiveWorkers \ {w}
           /\ \A c \in ClientSlot :
                /\ clients'[c] = NULL <=> clients[c] = NULL
                /\ clients[c] # NULL =>
                     /\ clients'[c].worker = IF clients[c].worker = w THEN 0 ELSE clients[c].worker
                     /\ clients'[c].fd = clients[c].fd
                     /\ clients'[c].pendingOutput = cs[c].pendingOutput
  <1>1. workers' = [workers EXCEPT ![w] = NULL] /\ clients' = DetachAll(cs, w)
    BY DEF FreeWorker
  <1>2. workers' \in WorkerTable
    BY <1>1 DEF Core, CoreType, WorkerTable
  <1>3. LiveWorkers' = LiveWorkers \ {w}
    BY <1>1 DEF Core, CoreType, WorkerTable, LiveWorkers
  <1>4. ASSUME NEW c \in ClientSlot
        PROVE  /\ clients'[c] \in Client \cup {NULL}
               /\ clients'[c] = NULL <=> clients[c] = NULL
               /\ clients[c] # NULL =>
                     /\ clients'[c].worker = IF clients[c].worker = w THEN 0 ELSE clients[c].worker
                     /\ clients'[c].fd = clients[c].fd
                     /\ clients'[c].pendingOutput = cs[c].pendingOutput
    <2>1. cs[c] \in Client \cup {NULL}
      BY DEF ClientTable
    <2>2. CASE cs[c] # NULL /\ cs[c].worker = w
      <3>1. clients'[c] = [cs[c] EXCEPT !.worker = 0]
        BY <1>1, <2>2 DEF DetachAll
      <3> QED BY <2>1, <2>2, <3>1, Nulls DEF Client
    <2>3. CASE ~(cs[c] # NULL /\ cs[c].worker = w)
      <3>1. clients'[c] = cs[c]
        BY <1>1, <2>3 DEF DetachAll
      <3> QED BY <2>1, <2>3, <3>1
    <2> QED BY <2>2, <2>3
  <1>5. clients' \in ClientTable
    BY <1>1, <1>4 DEF DetachAll, ClientTable
  <1>6. LiveClients' = LiveClients
    BY <1>4 DEF LiveClients
  <1>7. Pointers'
    BY <1>3, <1>4, <1>6 DEF Pointers, Core, NoDanglingPointer, LiveClients
  <1>8. open' \subseteq FD /\ dirs' \subseteq SessionId
    BY DEF FreeWorker, Core, CoreType
  <1> QED BY <1>2, <1>3, <1>4, <1>5, <1>7, <1>8
-----------------------------------------------------------------------------
(* The steps of the scan, of the waitpid loop and of the timer.            *)

\* Steps that leave both tables alone and do not enter the input loop.
LEMMA CoreQuiet ==
    ASSUME Core, UNCHANGED <<clients, workers>>,
           CoreType', pc' \in {"input", "write"} => pc' = pc /\ cur' = cur
    PROVE  Core'
  BY DEF Core, NoDanglingPointer, LiveClients, LiveWorkers

\* Steps outside the input loop.
LEMMA CoreScan ==
    ASSUME CoreType', Pointers', pc' \notin {"input", "write"}
    PROVE  Core'
  BY DEF Core, NoDanglingPointer, Pointers

LEMMA CoreScanSteps ==
    ASSUME Core, Poll \/ ScanDone \/ AcceptNoClient \/ AcceptError \/ Signal \/ Timer
                 \/ ReapDone \/ TimerDone
    PROVE  Core'
  <1> USE DEF CoreType, envVars, peers
  <1>1. BaseReady \subseteq 0 .. 2
    BY DEF BaseReady
  <1>2. CASE Poll \/ ScanDone
    BY <1>1, <1>2, CoreQuiet DEF Poll, ScanDone, Core
  <1>3. CASE AcceptNoClient
    BY <1>3, CoreQuiet DEF AcceptNoClient, NextFD, At, Core
  <1>4. CASE AcceptError \/ Signal \/ Timer
    BY <1>4, CoreQuiet DEF AcceptError, Signal, Timer, At, Core
  <1>5. CASE ReapDone \/ TimerDone
    BY <1>5, CoreQuiet DEF ReapDone, TimerDone, Core
  <1> QED BY <1>2, <1>3, <1>4, <1>5

LEMMA CoreAccept ==
    ASSUME Core, Accept PROVE Core'
  <1>1. PICK f \in NextFD(0), c \in First(ClientSlot \ LiveClients) :
             clients' = [clients EXCEPT ![c] = NewClient(f)] /\ open' = open \cup {f}
    BY DEF Accept
  <1>2. f \in FD /\ c \in ClientSlot
    BY FirstIn DEF NextFD
  <1>3. NewClient(f) \in Client /\ NewClient(f).worker = 0
    BY <1>2 DEF NewClient, Client
  <1>4. clients' \in ClientTable /\ open' \subseteq FD
    BY <1>1, <1>2, <1>3 DEF Core, CoreType, ClientTable
  <1>5. LiveWorkers' = LiveWorkers
    BY DEF Accept, LiveWorkers
  <1>6. Pointers'
    BY <1>1, <1>2, <1>3, <1>5 DEF Core, CoreType, ClientTable, NoDanglingPointer, Pointers, LiveClients
  <1>7. CoreType'
    BY <1>4 DEF Accept, Core, CoreType
  <1>8. pc' = "scan"
    BY DEF Accept, At
  <1> QED BY <1>6, <1>7, <1>8, CoreScan

LEMMA CoreReap ==
    ASSUME Core, NEW p \in Pid, ReapEnded(p) \/ ReapFailed(p) \/ ReapUnknown(p)
    PROVE  Core'
  <1>1. procs' = Reaped(p) /\ procs' \in [Pid -> Proc] /\ pc' = "reap"
    BY ReapedTyped DEF ReapEnded, ReapFailed, ReapUnknown, serverVars, Core, CoreType
  <1>2. CASE ReapEnded(p) \/ ReapFailed(p)
    <2>1. PICK w \in LiveWorkers, S \in SUBSET LiveClients, m \in Message :
             /\ FreeWorker(w, SentTo(S), WritePoll(poll, S, StillUnsent(S)))
             /\ reply' = Msg(S, m)
      <3>1. CASE ReapEnded(p)
        BY <3>1, FirstIn DEF ReapEnded, WorkersByPID, Attached, Message
      <3>2. CASE ReapFailed(p)
        BY <3>2, FirstIn DEF ReapFailed, WorkersByPID, Receiver, Attached, Message
      <3> QED BY <1>2, <3>1, <3>2
    <2>2. /\ clients' \in ClientTable /\ workers' \in WorkerTable
          /\ open' \subseteq FD /\ dirs' \subseteq SessionId /\ Pointers'
      BY <2>1, FreeCore, SentToTyped DEF Core
    <2>3. reply' \subseteq [to : ClientSlot, msg : Message]
      BY <2>1, MsgTyped DEF LiveClients
    <2>4. CoreType'
      BY <1>1, <1>2, <2>2, <2>3 DEF ReapEnded, ReapFailed, peers, Core, CoreType
    <2> QED BY <1>1, <2>2, <2>4, CoreScan
  <1>3. CASE ReapUnknown(p)
    BY <1>1, <1>3, CoreQuiet DEF ReapUnknown, serverVars, peers, Core, CoreType
  <1> QED BY <1>2, <1>3

\* A worker's session ends, its session id and timeout change.
LEMMA EndedTyped ==
    ASSUME Core, NEW w \in LiveWorkers, NEW b \in BOOLEAN
    PROVE  /\ EndedWorker(w, b) \in WorkerTable
           /\ \A v \in WorkerSlot :
                /\ EndedWorker(w, b)[v] = NULL <=> workers[v] = NULL
                /\ workers[v] # NULL =>
                     /\ EndedWorker(w, b)[v].sessionId = IF v = w THEN 0 ELSE workers[v].sessionId
                     /\ EndedWorker(w, b)[v].pid = workers[v].pid
                     /\ EndedWorker(w, b)[v].in = workers[v].in
                     /\ EndedWorker(w, b)[v].out = workers[v].out
                     /\ EndedWorker(w, b)[v].err = workers[v].err
  <1>1. workers[w] \in Worker /\ w \in WorkerSlot
    BY Live DEF Core
  <1>2. workers \in WorkerTable
    BY DEF Core, CoreType
  <1> QED BY <1>1, <1>2, Nulls DEF EndedWorker, WorkerTable, Worker

LEMMA CoreTimeout ==
    ASSUME Core, TimeoutWorker PROVE Core'
  <1>1. PICK w \in LiveWorkers : workers' = EndedWorker(w, TRUE) /\ procs' = Kill(workers[w].pid)
    BY FirstIn DEF TimeoutWorker, Inactive
  <1>2. workers' \in WorkerTable /\ LiveWorkers' = LiveWorkers
    BY <1>1, EndedTyped DEF LiveWorkers
  <1>3. procs' \in [Pid -> Proc]
    BY <1>1, KillTyped DEF Core, CoreType
  <1>4. CoreType' /\ pc' = "timer"
    BY <1>2, <1>3 DEF TimeoutWorker, peers, Core, CoreType
  <1>5. LiveClients' = LiveClients /\ clients' = clients
    BY DEF TimeoutWorker, LiveClients
  <1>6. Pointers'
    BY <1>2, <1>5 DEF Pointers, Core, NoDanglingPointer
  <1> QED BY <1>4, <1>6, CoreScan
-----------------------------------------------------------------------------
(* A client's socket, and the pipes.                                       *)

LEMMA UnsentTyped == ASSUME Core, NEW c \in ClientSlot PROVE Unsent(c) \in BOOLEAN
  BY DEF Core, CoreType, Sock, Unsent

\* The pending input and output of a client change.
LEMMA ClientUpdate ==
    ASSUME CoreType, NEW c \in LiveClients, NEW q \in Seq(Line), NEW b \in BOOLEAN,
           clients' = [clients EXCEPT ![c].pendingOutput = b, ![c].pendingInput = q]
    PROVE  /\ clients' \in ClientTable /\ LiveClients' = LiveClients
           /\ \A d \in LiveClients :
                /\ clients'[d].worker = clients[d].worker
                /\ clients'[d].fd = clients[d].fd
                /\ clients'[d].pendingOutput = IF d = c THEN b ELSE clients[d].pendingOutput
  <1>1. clients \in ClientTable
    BY DEF CoreType
  <1> QED BY <1>1, Nulls DEF ClientTable, Client, LiveClients

LEMMA CoreHangup ==
    ASSUME Core, NEW k \in PollIndex, ClientHangup(k) PROVE Core'
  <1>1. PICK c \in LiveClients : CloseClient(c)
    BY FirstIn DEF ClientHangup, ClientAt
  <1>2. clients' \in ClientTable /\ sock' \in [ClientSlot -> Sock] /\ Pointers' /\ open' \subseteq FD
    BY <1>1, CloseCore DEF CloseClient, ClientHangup, Core, CoreType
  <1>3. CoreType' /\ pc' = "scan"
    BY <1>2 DEF ClientHangup, At, Core, CoreType
  <1> QED BY <1>2, <1>3, CoreScan

LEMMA CoreReady ==
    ASSUME Core, NEW k \in PollIndex, ClientReady(k) PROVE Core'
  <1> DEFINE in == "IN" \in Revents(k)
  <1>1. PICK c \in LiveClients, b \in BOOLEAN :
          /\ clients' = [clients EXCEPT
                          ![c].pendingOutput = b,
                          ![c].pendingInput = IF in THEN @ \o sock[c].in ELSE @]
          /\ sock' = IF in THEN [sock EXCEPT ![c].in = <<>>] ELSE sock
          /\ cur' = IF in THEN c ELSE 0
          /\ closing' = (in /\ (sock[c].eof \/ sock[c].reset))
          /\ pc' = IF in THEN "input" ELSE "scan"
    <2>1. PICK c \in ClientAt(k) :
          /\ clients' = [clients EXCEPT
                          ![c].pendingOutput = clients[c].pendingOutput
                                                 /\ ("OUT" \in Revents(k) => Unsent(c)),
                          ![c].pendingInput = IF in THEN @ \o sock[c].in ELSE @]
          /\ sock' = IF in THEN [sock EXCEPT ![c].in = <<>>] ELSE sock
          /\ cur' = IF in THEN c ELSE 0
          /\ closing' = (in /\ (sock[c].eof \/ sock[c].reset))
          /\ pc' = IF in THEN "input" ELSE "scan"
      BY DEF ClientReady
    <2>2. c \in LiveClients
      BY FirstIn DEF ClientAt
    <2>3. (clients[c].pendingOutput /\ ("OUT" \in Revents(k) => Unsent(c))) \in BOOLEAN
      OBVIOUS
    <2> QED BY <2>1, <2>2, <2>3, Zenon
  <1> HIDE DEF in
  <1>2. c \in ClientSlot /\ clients[c] \in Client /\ sock[c] \in Sock
    BY Live DEF Core, CoreType
  <1> DEFINE q == IF in THEN clients[c].pendingInput \o sock[c].in ELSE clients[c].pendingInput
  <1>3. q \in Seq(Line)
    <2>1. clients[c].pendingInput \in Seq(Line) /\ sock[c].in \in Seq(Line)
      BY <1>2 DEF Client, Sock
    <2>2. clients[c].pendingInput \o sock[c].in \in Seq(Line)
      BY <2>1
    <2> QED BY <2>1, <2>2
  <1>4. clients' = [clients EXCEPT ![c].pendingOutput = b, ![c].pendingInput = q]
    BY <1>1, <1>2 DEF Core, CoreType, ClientTable, Client
  <1> HIDE DEF q
  <1>6. /\ clients' \in ClientTable /\ LiveClients' = LiveClients
        /\ \A d \in LiveClients : clients'[d].worker = clients[d].worker
    <2>1. b \in BOOLEAN
      BY <1>1
    <2> QED BY <1>2, <1>3, <1>4, <2>1, ClientUpdate DEF Core
  <1>7. sock' \in [ClientSlot -> Sock]
    <2>1. <<>> \in Seq(Line)
      OBVIOUS
    <2>2. sock \in [ClientSlot -> Sock]
      BY DEF Core, CoreType
    <2> QED BY <1>1, <1>2, <2>1, <2>2 DEF Sock
  <1>8. closing' \in BOOLEAN
    BY <1>1
  <1>9. CoreType'
    BY <1>1, <1>2, <1>6, <1>7, <1>8 DEF ClientReady, Core, CoreType
  <1>10. LiveWorkers' = LiveWorkers
    BY DEF ClientReady, LiveWorkers
  <1>11. NoDanglingPointer'
    BY <1>1, <1>6, <1>10 DEF Core, NoDanglingPointer
  <1> QED BY <1>9, <1>11 DEF Core

LEMMA CorePipe ==
    ASSUME Core, NEW k \in PollIndex, PipeNoClient(k) \/ PipeRead(k) PROVE Core'
  <1>1. CASE PipeNoClient(k)
    <2>1. PICK w \in LiveWorkers : FreeWorker(w, clients, poll)
      BY <1>1, FirstIn DEF PipeNoClient, WorkerAt
    <2>2. clients \in ClientTable
      BY DEF Core, CoreType
    <2>3. /\ clients' \in ClientTable /\ workers' \in WorkerTable
          /\ open' \subseteq FD /\ dirs' \subseteq SessionId /\ Pointers'
      BY <2>1, <2>2, FreeCore
    <2>4. CoreType' /\ pc' = "scan"
      BY <1>1, <2>3 DEF PipeNoClient, At, envVars, peers, Core, CoreType
    <2> QED BY <2>3, <2>4, CoreScan
  <1>2. CASE PipeRead(k)
    <2>1. PICK w \in LiveWorkers, c \in LiveClients, b \in BOOLEAN, m \in Message :
            /\ workers' = [workers EXCEPT ![w].idle = FALSE]
            /\ clients' = [clients EXCEPT ![c].pendingOutput = b]
            /\ reply' \in {Msg({c}, m), {}}
            /\ procs' = [q \in Pid |-> IF q # workers[w].pid THEN procs[q]
                                    ELSE IF poll.e[k].fd = workers[w].out
                                         THEN [procs[q] EXCEPT !.out = 0]
                                         ELSE [procs[q] EXCEPT !.err = 0]]
      <3>1. PICK w \in First(WorkerAt(k)) : \E c \in Receiver(w) :
             LET p     == workers[w].pid
                 isOut == poll.e[k].fd = workers[w].out
                 data  == p \in Pid /\ (IF isOut THEN procs[p].out ELSE procs[p].err) > 0
                 on    == (data \/ clients[c].pendingOutput) /\ Unsent(c)
             IN
             /\ workers' = [workers EXCEPT ![w].idle = FALSE]
             /\ procs' = [q \in Pid |-> IF q # p THEN procs[q]
                                        ELSE IF isOut THEN [procs[q] EXCEPT !.out = 0]
                                                      ELSE [procs[q] EXCEPT !.err = 0]]
             /\ clients' = [clients EXCEPT ![c].pendingOutput = on]
             /\ reply' = IF data THEN Msg({c}, IF isOut THEN "RECEIVED" ELSE "READY") ELSE {}
        BY <1>2 DEF PipeRead
      <3>0. PICK c \in Receiver(w) :
             LET p     == workers[w].pid
                 isOut == poll.e[k].fd = workers[w].out
                 data  == p \in Pid /\ (IF isOut THEN procs[p].out ELSE procs[p].err) > 0
                 on    == (data \/ clients[c].pendingOutput) /\ Unsent(c)
             IN
             /\ workers' = [workers EXCEPT ![w].idle = FALSE]
             /\ procs' = [q \in Pid |-> IF q # p THEN procs[q]
                                        ELSE IF isOut THEN [procs[q] EXCEPT !.out = 0]
                                                      ELSE [procs[q] EXCEPT !.err = 0]]
             /\ clients' = [clients EXCEPT ![c].pendingOutput = on]
             /\ reply' = IF data THEN Msg({c}, IF isOut THEN "RECEIVED" ELSE "READY") ELSE {}
        BY <3>1
      <3>2. w \in LiveWorkers /\ c \in LiveClients
        BY FirstIn DEF WorkerAt, Receiver, Attached
      <3> DEFINE isOut == poll.e[k].fd = workers[w].out
                 data == workers[w].pid \in Pid /\ (IF isOut THEN procs[workers[w].pid].out
                                                            ELSE procs[workers[w].pid].err) > 0
                 on == (data \/ clients[c].pendingOutput) /\ Unsent(c)
                 m == IF isOut THEN "RECEIVED" ELSE "READY"
      <3>3. on \in BOOLEAN /\ m \in Message
        BY DEF Message
      <3>4. /\ workers' = [workers EXCEPT ![w].idle = FALSE]
            /\ clients' = [clients EXCEPT ![c].pendingOutput = on]
            /\ reply' \in {Msg({c}, m), {}}
            /\ procs' = [q \in Pid |-> IF q # workers[w].pid THEN procs[q]
                                    ELSE IF isOut THEN [procs[q] EXCEPT !.out = 0]
                                                  ELSE [procs[q] EXCEPT !.err = 0]]
        BY <3>0, Zenon
      <3> HIDE DEF on, m
      <3> QED BY <3>2, <3>3, <3>4, Zenon
    <2>2. workers' \in WorkerTable /\ LiveWorkers' = LiveWorkers
      <3>1. w \in WorkerSlot /\ workers[w] \in Worker
        BY Live DEF Core
      <3>2. workers \in WorkerTable /\ workers' = [workers EXCEPT ![w].idle = FALSE]
        BY <2>1 DEF Core, CoreType
      <3> QED BY <3>1, <3>2, Nulls DEF WorkerTable, Worker, LiveWorkers
    <2>3. c \in ClientSlot /\ clients[c] \in Client
      BY Live DEF Core
    <2>4. /\ clients' \in ClientTable /\ LiveClients' = LiveClients
          /\ \A d \in LiveClients : clients'[d].worker = clients[d].worker
      <3>1. clients \in ClientTable /\ clients' = [clients EXCEPT ![c].pendingOutput = b]
        BY <2>1 DEF Core, CoreType
      <3> QED BY <2>3, <3>1, Nulls DEF ClientTable, Client, LiveClients
    <2>7. Pointers'
      BY <2>2, <2>4 DEF Pointers, Core, NoDanglingPointer
    <2>8. procs' \in [Pid -> Proc]
      <3>1. \A r1 \in Proc : [r1 EXCEPT !.out = 0] \in Proc /\ [r1 EXCEPT !.err = 0] \in Proc
        BY ServerAssumption DEF Proc
      <3>2. \A q \in Pid : procs[q] \in Proc
        BY DEF Core, CoreType
      <3>3. \A q \in Pid : [procs[q] EXCEPT !.out = 0] \in Proc /\ [procs[q] EXCEPT !.err = 0] \in Proc
        BY <3>1, <3>2, Zenon
      <3> QED BY <2>1, <3>2, <3>3, Zenon
    <2>9. reply' \subseteq [to : ClientSlot, msg : Message]
      BY <2>1, <2>3, MsgTyped
    <2>10. CoreType' /\ pc' = "scan"
      BY <1>2, <2>2, <2>4, <2>8, <2>9 DEF PipeRead, At, peers, Core, CoreType
    <2> QED BY <2>7, <2>10, CoreScan
  <1> QED BY <1>1, <1>2
-----------------------------------------------------------------------------
(* The loop over the input.                                                *)

\* The loop is left: the client is closed or keeps what it has.
LEMMA CoreLeave ==
    ASSUME Core, pc = "input", UNCHANGED <<workers, i, base, procs, sigchld, backlog, conns, sent>>,
           \/ UNCHANGED <<clients, sock>>
           \/ /\ clients' = [clients EXCEPT ![cur] = NULL]
              /\ sock' = [sock EXCEPT ![cur] = NoSock],
           open' \subseteq FD, dirs' \subseteq SessionId,
           pc' = "scan", cur' = 0, closing' = FALSE,
           reply' \subseteq [to : ClientSlot, msg : Message]
    PROVE  Core'
  <1>1. cur \in LiveClients
    BY CurLive
  <1>2. clients' \in ClientTable /\ sock' \in [ClientSlot -> Sock] /\ Pointers'
    <2>1. CASE UNCHANGED <<clients, sock>>
      BY <2>1 DEF Core, CoreType, NoDanglingPointer, Pointers, LiveClients, LiveWorkers
    <2>2. CASE /\ clients' = [clients EXCEPT ![cur] = NULL]
               /\ sock' = [sock EXCEPT ![cur] = NoSock]
      BY <1>1, <2>2, CloseCore
    <2> QED BY <2>1, <2>2
  <1>3. CoreType'
    BY <1>2 DEF Core, CoreType
  <1> QED BY <1>2, <1>3, CoreScan

\* The loop goes on: what is typed, and the pointers of the changed tables.
LEMMA CoreLoop ==
    ASSUME CoreType', Pointers', cur \in LiveClients', UNCHANGED cur,
           pc' = "write" => clients'[cur].worker # 0
    PROVE  Core'
  BY DEF Core, NoDanglingPointer, Pointers

LEMMA CoreLeaveSteps ==
    ASSUME Core, InputDone \/ CommandTooLong \/ InvalidCommand \/ StartNoWorker \/ StartNoPipes
    PROVE  Core'
  <1>1. open \subseteq FD /\ dirs \subseteq SessionId /\ {} \subseteq [to : ClientSlot, msg : Message]
    BY DEF Core, CoreType
  <1>2. ASSUME NEW b, LeaveLoop(b) PROVE open' \subseteq FD
    BY <1>1, <1>2 DEF LeaveLoop, CloseClient
  <1>3. CASE InputDone
    BY <1>1, <1>2, <1>3, CoreLeave DEF InputDone, LeaveLoop, CloseClient
  <1>4. CASE CommandTooLong
    BY <1>1, <1>2, <1>4, CoreLeave DEF CommandTooLong, InLoop, LeaveLoop, CloseClient
  <1>5. CASE InvalidCommand
    <2>1. pc = "input"
      BY <1>5 DEF InvalidCommand, Unattached, InSession, InLoop
    <2> QED BY <2>1, <1>1, <1>2, <1>5, CoreLeave DEF InvalidCommand, LeaveLoop, CloseClient
  <1>6. CASE StartNoWorker
    <2>1. pc = "input"
      BY <1>6 DEF StartNoWorker, Unattached, InLoop
    <2>2. dirs' \subseteq SessionId
      BY <1>1, <1>6 DEF StartNoWorker
    <2> QED BY <2>1, <2>2, <1>1, <1>2, <1>6, CoreLeave DEF StartNoWorker, LeaveLoop, CloseClient
  <1>7. CASE StartNoPipes
    <2>1. pc = "input"
      BY <1>7 DEF StartNoPipes, Unattached, InLoop
    <2>2. dirs' \subseteq SessionId
      BY <1>1, <1>7 DEF StartNoPipes
    <2>3. PICK n \in {0, 2, 4} :
             /\ clients' = [clients EXCEPT ![cur] = NULL]
             /\ open' = (open \cup UNION {NextFD(j) : j \in 0 .. (n - 1)}) \ {clients[cur].fd}
             /\ sock' = [sock EXCEPT ![cur] = NoSock]
      BY <1>7 DEF StartNoPipes
    <2>4. \A j : NextFD(j) \subseteq FD
      BY DEF NextFD
    <2>5. open' \subseteq FD
      BY <2>3, <2>4, <1>1
    <2> QED BY <2>1, <2>2, <2>3, <2>5, <1>1, <1>7, CoreLeave DEF StartNoPipes
  <1> QED BY <1>3, <1>4, <1>5, <1>6, <1>7

\* The worker and what is pending of the client being served change.
LEMMA CurUpdate ==
    ASSUME Core, pc \in {"input", "write"}, NEW v \in WorkerSlot \cup {0},
           NEW q \in Seq(Line), NEW b \in BOOLEAN,
           clients' = [clients EXCEPT ![cur].worker = v, ![cur].pendingInput = q,
                                      ![cur].pendingOutput = b]
    PROVE  /\ clients' \in ClientTable /\ LiveClients' = LiveClients
           /\ \A d \in LiveClients :
                /\ clients'[d].worker = IF d = cur THEN v ELSE clients[d].worker
                /\ clients'[d].fd = clients[d].fd
                /\ clients'[d].pendingOutput = IF d = cur THEN b ELSE clients[d].pendingOutput
  <1>1. clients \in ClientTable /\ cur \in LiveClients
    BY CurLive DEF Core, CoreType
  <1>2. cur \in ClientSlot /\ clients[cur] \in Client
    BY CurLive
  <1> DEFINE r == [clients[cur] EXCEPT !.worker = v, !.pendingInput = q, !.pendingOutput = b]
  <1>3. r \in Client /\ r.worker = v /\ r.fd = clients[cur].fd /\ r.pendingOutput = b
    BY <1>2 DEF Client
  <1>4. clients' = [clients EXCEPT ![cur] = r]
    BY <1>1, <1>2 DEF ClientTable
  <1> HIDE DEF r
  <1>5. \A d \in ClientSlot : clients'[d] = IF d = cur THEN r ELSE clients[d]
    BY <1>1, <1>2, <1>4 DEF ClientTable
  <1>6. clients' \in ClientTable
    BY <1>1, <1>2, <1>3, <1>4 DEF ClientTable
  <1>7. LiveClients' = LiveClients
    BY <1>1, <1>3, <1>5, Nulls DEF LiveClients
  <1>8. ASSUME NEW d \in LiveClients
        PROVE  /\ clients'[d].worker = IF d = cur THEN v ELSE clients[d].worker
               /\ clients'[d].fd = clients[d].fd
               /\ clients'[d].pendingOutput = IF d = cur THEN b ELSE clients[d].pendingOutput
    <2>1. d \in ClientSlot
      BY DEF LiveClients
    <2>2. CASE d = cur
      <3>1. clients'[d] = r
        BY <1>5, <2>1, <2>2
      <3> QED BY <1>3, <2>2, <3>1
    <2>3. CASE d # cur
      <3>1. clients'[d] = clients[d]
        BY <1>5, <2>1, <2>3
      <3> QED BY <2>3, <3>1
    <2> QED BY <2>2, <2>3
  <1> QED BY <1>6, <1>7, <1>8

\* StartSession for the choices it makes: id, place, process, descriptors.
StartEffect(s, w, p, fin, fout, ferr) ==
    /\ NextFD(5) # {}
    /\ workers' = [workers EXCEPT ![w] = NewWorker(s, p, fin, fout, ferr)]
    /\ procs' = [q \in Pid |-> IF q = p THEN ForkedProc ELSE procs[q]]
    /\ dirs' = dirs \cup {s}
    /\ open' = open \cup {fin, fout, ferr}
    /\ clients' = [clients EXCEPT ![cur].worker = w,
                                  ![cur].pendingInput = Rest,
                                  ![cur].pendingOutput = Unsent(cur)]
    /\ poll' = WritePoll(AddPollFD(AddPollFD(poll, fout), ferr), {cur}, StillUnsent({cur}))

LEMMA StartPick ==
    ASSUME StartSession
    PROVE  \E s \in SessionId \ UsedIds, w \in WorkerSlot \ LiveWorkers, p \in Pid \cup {NoPid},
              fin \in NextFD(1), fout \in NextFD(2), ferr \in NextFD(4) :
             (p # NoPid => p \in FreePids) /\ StartEffect(s, w, p, fin, fout, ferr)
  <1>1. \A S : First(S) \subseteq S
    BY DEF First
  <1>2. First(WorkerSlot \ LiveWorkers) \subseteq WorkerSlot \ LiveWorkers
    BY <1>1
  <1>3. \A p \in IF FreePids = {} THEN {NoPid} ELSE First(FreePids) :
           p \in Pid \cup {NoPid} /\ (p # NoPid => p \in FreePids)
    BY <1>1 DEF FreePids
  <1>4. PICK s \in SessionId \ UsedIds, w \in First(WorkerSlot \ LiveWorkers),
             p \in IF FreePids = {} THEN {NoPid} ELSE First(FreePids),
             fin \in NextFD(1), fout \in NextFD(2), ferr \in NextFD(4) :
             StartEffect(s, w, p, fin, fout, ferr)
    BY Zenon DEF StartSession, StartEffect
  <1>5. w \in WorkerSlot \ LiveWorkers /\ p \in Pid \cup {NoPid} /\ (p # NoPid => p \in FreePids)
    BY <1>2, <1>3
  <1> QED BY <1>4, <1>5, Zenon

LEMMA CoreStart ==
    ASSUME Core, StartSession PROVE Core'
  <1>1. PICK s \in SessionId \ UsedIds, w \in WorkerSlot \ LiveWorkers, p \in Pid \cup {NoPid},
              fin \in NextFD(1), fout \in NextFD(2), ferr \in NextFD(4) :
             StartEffect(s, w, p, fin, fout, ferr)
    BY StartPick, Zenon
  <1>0. /\ workers' = [workers EXCEPT ![w] = NewWorker(s, p, fin, fout, ferr)]
        /\ procs' = [q \in Pid |-> IF q = p THEN ForkedProc ELSE procs[q]]
        /\ dirs' = dirs \cup {s}
        /\ open' = open \cup {fin, fout, ferr}
        /\ clients' = [clients EXCEPT ![cur].worker = w,
                                      ![cur].pendingInput = Rest,
                                      ![cur].pendingOutput = Unsent(cur)]
    BY <1>1, Zenon DEF StartEffect
  <1>2. pc = "input" /\ pc' = "write"
    BY DEF StartSession, Unattached, InLoop
  <1>3. fin \in FD /\ fout \in FD /\ ferr \in FD
    BY DEF NextFD
  <1>4. NewWorker(s, p, fin, fout, ferr) \in Worker
    BY <1>3 DEF NewWorker, Worker
  <1>5. workers' \in WorkerTable /\ LiveWorkers' = LiveWorkers \cup {w}
    BY <1>0, <1>4, Nulls DEF Core, CoreType, WorkerTable, LiveWorkers
  <1>6. cur \in LiveClients /\ Unsent(cur) \in BOOLEAN /\ Rest \in Seq(Line)
    BY <1>2, CurLive, UnsentTyped
  <1>7. /\ clients' \in ClientTable /\ LiveClients' = LiveClients
        /\ \A d \in LiveClients : clients'[d].worker = IF d = cur THEN w ELSE clients[d].worker
    BY <1>0, <1>2, <1>6, CurUpdate
  <1>8. ForkedProc \in Proc
    <2>1. {workers[v].pid : v \in LiveWorkers} \subseteq Pid \cup {NoPid}
      BY Live DEF Core, Worker
    <2>2. \A r \in Proc, S \in SUBSET Pid : [r EXCEPT !.st = "running", !.inh = S] \in Proc
      BY DEF Proc
    <2>3. {workers[v].pid : v \in LiveWorkers} \ {NoPid} \in SUBSET Pid
      BY <2>1
    <2> QED BY <2>2, <2>3, NoProcTyped, Zenon DEF ForkedProc
  <1>9. procs' \in [Pid -> Proc]
    BY <1>0, <1>8 DEF Core, CoreType
  <1>10. reply' \subseteq [to : ClientSlot, msg : Message]
    BY <1>6, MsgTyped DEF StartSession, Message, LiveClients
  <1>11. CoreType'
    BY <1>0, <1>2, <1>3, <1>5, <1>7, <1>9, <1>10 DEF StartSession, peers, Core, CoreType
  <1>12. Pointers'
    BY <1>5, <1>7 DEF Pointers, Core, NoDanglingPointer
  <1>13. clients'[cur].worker # 0 /\ UNCHANGED cur
    BY <1>6, <1>7, Zeros DEF StartSession
  <1> QED BY <1>6, <1>7, <1>11, <1>12, <1>13, CoreLoop
\* A worker attaches or is switched to take all input.
LEMMA ModeUpdate ==
    ASSUME CoreType, NEW w \in LiveWorkers, NEW b \in BOOLEAN,
           workers' = [workers EXCEPT ![w].rcvdCmd = b]
    PROVE  /\ workers' \in WorkerTable /\ LiveWorkers' = LiveWorkers
           /\ \A v \in LiveWorkers : /\ workers'[v].sessionId = workers[v].sessionId
                                     /\ workers'[v].pid = workers[v].pid
                                     /\ workers'[v].in = workers[v].in
                                     /\ workers'[v].out = workers[v].out
                                     /\ workers'[v].err = workers[v].err
  <1>1. workers \in WorkerTable
    BY DEF CoreType
  <1> QED BY <1>1, Nulls DEF WorkerTable, Worker, LiveWorkers

\* What each step leaves in the record of the client being served.
LEMMA CurEffect ==
    ASSUME Core, Attach \/ End \/ Send \/ Receive \/ Status
    PROVE  /\ pc = "input" /\ cur \in LiveClients /\ UNCHANGED cur
           /\ clients' \in ClientTable /\ LiveClients' = LiveClients
           /\ \A d \in LiveClients :
                /\ clients'[d].fd = clients[d].fd
                /\ d # cur \/ ~Attach => clients'[d].worker = clients[d].worker
                /\ d # cur \/ ~Status => clients'[d].pendingOutput = clients[d].pendingOutput
           /\ Status => clients'[cur].pendingOutput = Unsent(cur)
  <1>1. pc = "input"
    BY DEF Attach, End, Send, Receive, Status, Unattached, InSession, InLoop
  <1>2. cur \in LiveClients /\ cur \in ClientSlot /\ Rest \in Seq(Line) /\ Unsent(cur) \in BOOLEAN
    BY <1>1, CurLive, UnsentTyped
  <1>3. clients \in ClientTable
    BY DEF Core, CoreType
  <1>4. CASE Attach
    <2>1. PICK w \in LiveWorkers :
             clients' = [clients EXCEPT ![cur].worker = w, ![cur].pendingInput = Rest]
      BY <1>4, FirstIn DEF Attach, SessionWorker
    <2>2. w \in WorkerSlot
      BY DEF LiveWorkers
    <2>3. ~Status /\ UNCHANGED cur
      BY <1>4 DEF Attach, Status, Unattached, InSession
    <2> QED BY <1>1, <1>2, <1>3, <1>4, <2>1, <2>2, <2>3, Nulls DEF ClientTable, Client, LiveClients
  <1>5. CASE End
    <2>1. ~Status /\ ~Attach /\ UNCHANGED cur /\ clients' = [clients EXCEPT ![cur].pendingInput = Rest]
      BY <1>5 DEF End, Attach, Status, Unattached, InSession
    <2> QED BY <1>1, <1>2, <1>3, <2>1, Nulls DEF ClientTable, Client, LiveClients
  <1>6. CASE Send
    <2>1. /\ ~Status /\ ~Attach /\ UNCHANGED cur
          /\ clients' = [clients EXCEPT ![cur].ackSent = TRUE,
                  ![cur].pendingInput = <<[cmd |-> "TEXT", id |-> 0]>> \o Rest]
      BY <1>6 DEF Send, Attach, Status, Unattached, InSession
    <2>2. <<[cmd |-> "TEXT", id |-> 0]>> \o Rest \in Seq(Line)
      BY <1>2 DEF Line, Command
    <2> QED BY <1>1, <1>2, <1>3, <2>1, <2>2, Nulls DEF ClientTable, Client, LiveClients
  <1>7. CASE Receive
    <2>1. /\ ~Status /\ ~Attach /\ UNCHANGED cur
          /\ clients' = [clients EXCEPT ![cur].recvEnable = FALSE, ![cur].pendingInput = Rest]
      BY <1>7 DEF Receive, Attach, Status, Unattached, InSession
    <2> QED BY <1>1, <1>2, <1>3, <2>1, Nulls DEF ClientTable, Client, LiveClients
  <1>8. CASE Status
    <2>1. /\ ~Attach /\ UNCHANGED cur
          /\ clients' = [clients EXCEPT ![cur].pendingInput = Rest, ![cur].pendingOutput = Unsent(cur)]
      BY <1>8 DEF Attach, Status, Unattached, InSession
    <2> QED BY <1>1, <1>2, <1>3, <1>8, <2>1, Nulls DEF ClientTable, Client, LiveClients
  <1> QED BY <1>4, <1>5, <1>6, <1>7, <1>8

LEMMA CoreSession ==
    ASSUME Core, Attach \/ End \/ Send \/ Receive \/ Status
    PROVE  Core'
  <1>1. /\ pc = "input" /\ cur \in LiveClients /\ UNCHANGED cur
        /\ clients' \in ClientTable /\ LiveClients' = LiveClients
        /\ \A d \in LiveClients : d # cur \/ ~Attach => clients'[d].worker = clients[d].worker
    BY CurEffect
  <1>2. clients[cur].worker \in LiveWorkers \cup {0} /\ cur \in ClientSlot
    BY <1>1, CurLive DEF CurWorker
  <1>3. CASE Attach
    <2>1. PICK w \in LiveWorkers :
             /\ clients' = [clients EXCEPT ![cur].worker = w, ![cur].pendingInput = Rest]
             /\ workers' = [workers EXCEPT ![w].rcvdCmd = FALSE]
      BY <1>3, FirstIn DEF Attach, SessionWorker
    <2>2. workers' \in WorkerTable /\ LiveWorkers' = LiveWorkers
      BY <2>1, ModeUpdate DEF Core
    <2>3. clients'[cur].worker = w
      BY <1>1, <1>2, <2>1, CurLive DEF Core, CoreType, ClientTable, Client
    <2>4. Pointers'
      BY <1>1, <2>2, <2>3 DEF Pointers, Core, NoDanglingPointer
    <2>5. CoreType' /\ pc' = "input"
      BY <1>1, <1>3, <2>2 DEF Attach, envVars, peers, Core, CoreType
    <2> QED BY <1>1, <2>4, <2>5, CoreLoop
  <1>4. CASE End
    <2>1. CurWorker \in LiveWorkers
      BY <1>1, <1>2, <1>4 DEF End, InSession, CurWorker
    <2>2. workers' \in WorkerTable /\ LiveWorkers' = LiveWorkers
      BY <1>4, <2>1, EndedTyped DEF End, LiveWorkers
    <2>3. procs' \in [Pid -> Proc]
      BY <1>4, KillTyped DEF End, Core, CoreType
    <2>4. CoreType' /\ pc' = "input" /\ ~Attach
      BY <1>1, <1>4, <2>2, <2>3 DEF End, Attach, Unattached, InSession, peers, Core, CoreType
    <2>5. Pointers'
      BY <1>1, <2>2, <2>4 DEF Pointers, Core, NoDanglingPointer
    <2> QED BY <1>1, <2>4, <2>5, CoreLoop
  <1>5. CASE Send
    <2>1. CurWorker \in LiveWorkers /\ CurWorker # 0 /\ ~Attach
      BY <1>1, <1>2, <1>5 DEF Send, Attach, Unattached, InSession, CurWorker
    <2>2. workers' \in WorkerTable /\ LiveWorkers' = LiveWorkers
      BY <1>5, <2>1, ModeUpdate DEF Send, Core
    <2>3. CoreType'
      BY <1>1, <1>5, <2>2 DEF Send, envVars, peers, Core, CoreType
    <2>4. Pointers' /\ clients'[cur].worker # 0
      BY <1>1, <2>1, <2>2 DEF Pointers, CurWorker, Core, NoDanglingPointer
    <2> QED BY <1>1, <2>3, <2>4, CoreLoop
  <1>6. CASE Receive
    <2>1. CoreType' /\ pc' = "input" /\ ~Attach /\ LiveWorkers' = LiveWorkers
      BY <1>1, <1>6 DEF Receive, Attach, Unattached, InSession, envVars, peers, Core, CoreType, LiveWorkers
    <2>2. Pointers'
      BY <1>1, <2>1 DEF Pointers, Core, NoDanglingPointer
    <2> QED BY <1>1, <2>1, <2>2, CoreLoop
  <1>7. CASE Status
    <2>1. reply' \subseteq [to : ClientSlot, msg : Message]
      BY <1>2, <1>7, MsgTyped DEF Status, Message
    <2>2. CoreType' /\ pc' = "input" /\ ~Attach /\ LiveWorkers' = LiveWorkers
      BY <1>1, <1>7, <2>1 DEF Status, Attach, Unattached, InSession, envVars, peers, Core, CoreType, LiveWorkers
    <2>3. Pointers'
      BY <1>1, <2>2 DEF Pointers, Core, NoDanglingPointer
    <2> QED BY <1>1, <2>2, <2>3, CoreLoop
  <1> QED BY <1>3, <1>4, <1>5, <1>6, <1>7

LEMMA CoreUnknown ==
    ASSUME Core, AttachUnknown PROVE Core'
  <1>1. pc = "input" /\ pc' = "scan"
    BY DEF AttachUnknown, Unattached, InLoop
  <1>2. cur \in LiveClients /\ cur \in ClientSlot /\ Input \in Seq(Line) /\ Rest \in Seq(Line)
    BY <1>1, CurLive
  <1>3. reply' \subseteq [to : ClientSlot, msg : Message]
    BY <1>2, MsgTyped DEF AttachUnknown, Message
  <1>4. CASE closing
    <2>1. CloseClient(cur) /\ open' \subseteq FD
      BY <1>4 DEF AttachUnknown, CloseClient, Core, CoreType
    <2> QED BY <1>1, <1>3, <2>1, CoreLeave DEF AttachUnknown, CloseClient, Core, CoreType
  <1>5. CASE ~closing
    <2>1. /\ clients' = [clients EXCEPT ![cur].pendingInput =
                           <<[cmd |-> "STUCK", id |-> Input[1].id]>> \o Rest]
          /\ UNCHANGED <<workers, open, sock>>
      BY <1>5 DEF AttachUnknown
    <2>2. Input # <<>>
      BY DEF AttachUnknown, Unattached, InLoop
    <2>3. Input[1] \in Line
      BY <1>2, <2>2
    <2>4. <<[cmd |-> "STUCK", id |-> Input[1].id]>> \o Rest \in Seq(Line)
      BY <1>2, <2>3 DEF Line, Command
    <2>5. clients' \in ClientTable /\ LiveClients' = LiveClients
          /\ \A d \in LiveClients : clients'[d].worker = clients[d].worker
      BY <1>2, <2>1, <2>4, Nulls DEF Core, CoreType, ClientTable, Client, LiveClients
    <2>6. Pointers'
      BY <2>1, <2>5 DEF Pointers, Core, NoDanglingPointer, LiveWorkers
    <2>7. CoreType'
      BY <1>3, <2>1, <2>5 DEF AttachUnknown, Core, CoreType
    <2> QED BY <1>1, <2>6, <2>7, CoreScan
  <1> QED BY <1>4, <1>5
\* WriteInput: what is forwarded fits the pipe; the output may become pending.
LEMMA WriteEffect ==
    ASSUME Core, WriteInput
    PROVE  /\ pc \in {"input", "write"} /\ pc' = "input" /\ cur \in LiveClients
           /\ clients' \in ClientTable /\ LiveClients' = LiveClients
           /\ procs' \in [Pid -> Proc]
           /\ \A q \in Pid : procs'[q].st = procs[q].st
           /\ \A d \in LiveClients : /\ clients'[d].fd = clients[d].fd
                                     /\ clients'[d].worker = clients[d].worker
           /\ \E ack \in BOOLEAN :
                /\ \A d \in LiveClients :
                     clients'[d].pendingOutput =
                        IF d = cur /\ ack THEN Unsent(d) ELSE clients[d].pendingOutput
                /\ poll' = IF ack THEN WritePoll(poll, {cur}, StillUnsent({cur})) ELSE poll
                /\ reply' = IF ack THEN Msg({cur}, "SENT") ELSE {}
  <1> DEFINE p    == workers[CurWorker].pid
             room == IF Running(p) THEN PipeCap - procs[p].in ELSE 0
             n    == IF Len(Input) <= room THEN Len(Input) ELSE room
             ack  == clients[cur].ackSent /\ n = Len(Input)
  <1>1. pc \in {"input", "write"} /\ pc' = "input"
    BY DEF WriteInput, InLoop
  <1>2. /\ cur \in LiveClients /\ cur \in ClientSlot /\ clients[cur] \in Client
        /\ Input \in Seq(Line) /\ Unsent(cur) \in BOOLEAN
    BY <1>1, CurLive, UnsentTyped
  <1>3. /\ procs' = IF Running(p) THEN [procs EXCEPT ![p].in = @ + n] ELSE procs
        /\ clients' = [clients EXCEPT
                        ![cur].pendingInput = SubSeq(@, n + 1, Len(@)),
                        ![cur].pendingOutput = IF ack THEN Unsent(cur) ELSE @]
        /\ poll' = IF ack THEN WritePoll(poll, {cur}, StillUnsent({cur})) ELSE poll
        /\ reply' = IF ack THEN Msg({cur}, "SENT") ELSE {}
    BY Zenon DEF WriteInput
  <1>4. Running(p) => p \in Pid /\ procs[p] \in Proc /\ procs[p].in \in 0 .. PipeCap
    BY DEF Running, Core, CoreType, Proc
  <1>5. room \in Nat /\ (Running(p) => procs[p].in + room <= PipeCap)
    BY <1>4, ServerAssumption
  <1>6. n \in Nat /\ n <= room
    <2>1. Len(Input) \in Nat
      BY <1>2
    <2> HIDE DEF room
    <2> QED BY <1>5, <2>1
  <1> HIDE DEF p, room, n, ack
  <1>7. procs' \in [Pid -> Proc] /\ \A q \in Pid : procs'[q].st = procs[q].st
    <2>1. CASE Running(p)
      <3>1. procs[p].in + n \in 0 .. PipeCap
        BY <1>4, <1>5, <1>6, <2>1, ServerAssumption
      <3>2. procs \in [Pid -> Proc] /\ procs' = [procs EXCEPT ![p].in = procs[p].in + n]
        BY <1>3, <2>1 DEF Core, CoreType
      <3> QED BY <1>4, <2>1, <3>1, <3>2 DEF Proc
    <2>2. CASE ~Running(p)
      BY <1>3, <2>2 DEF Core, CoreType
    <2> QED BY <2>1, <2>2
  <1>8. SubSeq(Input, n + 1, Len(Input)) \in Seq(Line)
    BY <1>2, <1>6, Suffix
  <1> DEFINE b == IF ack THEN Unsent(cur) ELSE clients[cur].pendingOutput
             q == SubSeq(Input, n + 1, Len(Input))
  <1>9. b \in BOOLEAN /\ q \in Seq(Line)
    BY <1>2, <1>8 DEF Client
  <1>10. clients' = [clients EXCEPT ![cur].pendingOutput = b, ![cur].pendingInput = q]
    BY <1>2, <1>3 DEF Core, CoreType, ClientTable, Client, Input
  <1>11. b = IF ack THEN Unsent(cur) ELSE clients[cur].pendingOutput
    OBVIOUS
  <1> HIDE DEF b, q
  <1>12. /\ clients' \in ClientTable /\ LiveClients' = LiveClients
         /\ \A d \in LiveClients :
                /\ clients'[d].worker = clients[d].worker
                /\ clients'[d].fd = clients[d].fd
                /\ clients'[d].pendingOutput = IF d = cur THEN b ELSE clients[d].pendingOutput
    BY <1>2, <1>9, <1>10, ClientUpdate DEF Core
  <1>13. \A d \in LiveClients :
            clients'[d].pendingOutput =
                        IF d = cur /\ ack THEN Unsent(d) ELSE clients[d].pendingOutput
    BY <1>11, <1>12, Zenon
  <1>14. ack \in BOOLEAN
    BY DEF ack
  <1> QED BY <1>1, <1>2, <1>3, <1>7, <1>12, <1>13, <1>14, Zenon

LEMMA CoreWrite ==
    ASSUME Core, WriteInput PROVE Core'
  <1>1. PICK ack \in BOOLEAN : reply' = IF ack THEN Msg({cur}, "SENT") ELSE {}
    BY WriteEffect
  <1>2. /\ pc' = "input" /\ cur \in LiveClients
        /\ clients' \in ClientTable /\ LiveClients' = LiveClients
        /\ procs' \in [Pid -> Proc]
        /\ \A d \in LiveClients : clients'[d].worker = clients[d].worker
    BY WriteEffect
  <1>3. reply' \subseteq [to : ClientSlot, msg : Message]
    BY <1>1, <1>2, MsgTyped DEF Message, LiveClients
  <1>4. CoreType' /\ UNCHANGED cur /\ LiveWorkers' = LiveWorkers
    BY <1>2, <1>3 DEF WriteInput, peers, Core, CoreType, LiveWorkers
  <1>5. Pointers'
    BY <1>2, <1>4 DEF Pointers, Core, NoDanglingPointer
  <1> QED BY <1>2, <1>4, <1>5, CoreLoop

-----------------------------------------------------------------------------
(* The surroundings.                                                       *)

LEMMA CorePeers ==
    ASSUME Core, \/ Connect
                 \/ \E c \in ClientSlot : \/ \E l \in Lines : PeerSend(c, l)
                                         \/ PeerClose(c) \/ PeerReset(c) \/ PeerStall(c)
    PROVE  Core'
  <1>1. {} \subseteq [to : ClientSlot, msg : Message]
    OBVIOUS
  <1>2. UNCHANGED <<clients, workers, pc, cur>>
    BY DEF Connect, PeerSend, PeerClose, PeerReset, PeerStall, serverVars
  <1>3. CASE Connect
    <2>1. backlog' \in Nat /\ conns' \in 0 .. MaxConns
      BY <1>3, ServerAssumption DEF Connect, Core, CoreType
    <2>2. CoreType'
      BY <1>1, <1>3, <2>1 DEF Connect, serverVars, Core, CoreType
    <2> QED BY <1>2, <2>2, CoreQuiet
  <1>4. ASSUME NEW c \in ClientSlot, NEW l \in Lines, PeerSend(c, l) PROVE Core'
    <2>1. sent' \in 0 .. MaxLines
      BY <1>4, ServerAssumption DEF PeerSend, Core, CoreType
    <2>2. sock[c] \in Sock /\ l \in Line
      BY <1>4, ServerAssumption DEF Core, CoreType
    <2>3. Append(sock[c].in, l) \in Seq(Line)
      BY <2>2 DEF Sock
    <2>4. sock' = [sock EXCEPT ![c].in = Append(sock[c].in, l)] /\ sock \in [ClientSlot -> Sock]
      BY <1>4 DEF PeerSend, Core, CoreType
    <2>5. sock' \in [ClientSlot -> Sock]
      BY <2>2, <2>3, <2>4 DEF Sock
    <2>6. CoreType'
      BY <1>1, <1>4, <2>1, <2>5 DEF PeerSend, serverVars, Core, CoreType
    <2> QED BY <1>2, <2>6, CoreQuiet
  <1>5. ASSUME NEW c \in ClientSlot, PeerClose(c) \/ PeerReset(c) \/ PeerStall(c) PROVE Core'
    <2>1. <<>> \in Seq(Line)
      OBVIOUS
    <2>2. sock \in [ClientSlot -> Sock]
      BY DEF Core, CoreType
    <2>3. CASE PeerClose(c)
      <3>1. sock' = [sock EXCEPT ![c].eof = TRUE]
        BY <2>3 DEF PeerClose
      <3>2. sock' \in [ClientSlot -> Sock]
        BY <2>2, <3>1 DEF Sock
      <3>3. CoreType'
        BY <1>1, <2>3, <3>2 DEF PeerClose, serverVars, Core, CoreType
      <3> QED BY <1>2, <3>3, CoreQuiet
    <2>4. CASE PeerReset(c)
      <3>1. sock' = [sock EXCEPT ![c].in = <<>>, ![c].reset = TRUE]
        BY <2>4 DEF PeerReset
      <3>2. sock' \in [ClientSlot -> Sock]
        BY <2>1, <2>2, <3>1 DEF Sock
      <3>3. CoreType'
        BY <1>1, <2>4, <3>2 DEF PeerReset, serverVars, Core, CoreType
      <3> QED BY <1>2, <3>3, CoreQuiet
    <2>5. CASE PeerStall(c)
      <3>1. sock' = [sock EXCEPT ![c].full = ~sock[c].full]
        BY <2>5 DEF PeerStall
      <3>2. sock' \in [ClientSlot -> Sock]
        BY <2>2, <3>1 DEF Sock
      <3>3. CoreType'
        BY <1>1, <2>5, <3>2 DEF PeerStall, serverVars, Core, CoreType
      <3> QED BY <1>2, <3>3, CoreQuiet
    <2> QED BY <1>5, <2>3, <2>4, <2>5
  <1> QED BY <1>3, <1>4, <1>5

LEMMA EvalQuiet ==
    ASSUME NEW p, NEW taken, NEW printed, ProcEval(p, taken, printed) PROVE UNCHANGED serverVars
  BY DEF ProcEval

LEMMA CoreEval ==
    ASSUME Core, NEW p \in Pid, NEW taken \in 1 .. PipeCap, NEW printed \in 0 .. 1,
           ProcEval(p, taken, printed)
    PROVE  Core'
  <1>1. {} \subseteq [to : ClientSlot, msg : Message] /\ procs \in [Pid -> Proc]
    BY DEF Core, CoreType
  <1>2. UNCHANGED <<clients, workers, pc, cur>>
    BY DEF ProcEval, serverVars
  <1>3. PipeCap \in Nat /\ procs[p] \in Proc
    BY <1>1, ServerAssumption
  <1>4. procs[p].in - taken \in 0 .. PipeCap /\ procs[p].out + printed \in 0 .. PipeCap
    BY <1>3 DEF ProcEval, Proc
  <1>5. procs' = [procs EXCEPT ![p].in = procs[p].in - taken, ![p].out = procs[p].out + printed, ![p].ready = FALSE]
    BY <1>1, <1>3 DEF ProcEval, Proc
  <1>6. procs' \in [Pid -> Proc]
    <2> DEFINE a == procs[p].in - taken
               b == procs[p].out + printed
               r == [procs[p] EXCEPT !.in = a, !.out = b, !.ready = FALSE]
    <2>1. procs' = [procs EXCEPT ![p] = r]
      BY <1>1, <1>5
    <2> HIDE DEF a, b
    <2>2. r \in Proc
      BY <1>3, <1>4 DEF Proc, a, b
    <2> HIDE DEF r
    <2> QED BY <1>1, <2>1, <2>2
  <1>7. CoreType'
    BY <1>1, <1>6 DEF ProcEval, serverVars, peers, Core, CoreType
  <1> QED BY <1>2, <1>7, CoreQuiet

LEMMA CoreProcs ==
    ASSUME Core, NEW p \in Pid,
           ProcPrompt(p) \/ ProcExit(p) \/ \E taken \in 1 .. PipeCap, printed \in 0 .. 1 : ProcEval(p, taken, printed)
    PROVE  Core'
  <1>1. {} \subseteq [to : ClientSlot, msg : Message] /\ procs \in [Pid -> Proc]
    BY DEF Core, CoreType
  <1>2. ProcPrompt(p) \/ ProcExit(p) => UNCHANGED <<clients, workers, pc, cur>>
    BY DEF ProcPrompt, ProcExit, serverVars
  <1>3. PipeCap \in Nat /\ procs[p] \in Proc
    BY <1>1, ServerAssumption
  <1>4. CASE ProcPrompt(p)
    <2>1. procs[p].err + 1 \in 0 .. PipeCap
      BY <1>3, <1>4 DEF ProcPrompt, Proc
    <2>2. procs' = [procs EXCEPT ![p].ready = TRUE, ![p].err = procs[p].err + 1]
      BY <1>1, <1>3, <1>4 DEF ProcPrompt, Proc
    <2>3. procs' \in [Pid -> Proc]
      BY <1>1, <2>1, <2>2 DEF Proc
    <2>4. CoreType'
      BY <1>1, <1>4, <2>3 DEF ProcPrompt, serverVars, peers, Core, CoreType
    <2> QED BY <1>2, <1>4, <2>4, CoreQuiet
  <1>5. CASE ProcExit(p)
    <2>1. procs' = [procs EXCEPT ![p].st = "zombie", ![p].in = 0, ![p].ready = FALSE, ![p].inh = {}]
      BY <1>5 DEF ProcExit
    <2>2. procs' \in [Pid -> Proc]
      <3> DEFINE r == [procs[p] EXCEPT !.st = "zombie", !.in = 0, !.ready = FALSE, !.inh = {}]
      <3>1. 0 \in 0 .. PipeCap
        BY <1>3
      <3>2. r \in Proc
        BY <1>3, <3>1 DEF Proc
      <3>3. procs' = [procs EXCEPT ![p] = r]
        BY <1>1, <2>1
      <3> HIDE DEF r
      <3> QED BY <1>1, <3>2, <3>3
    <2>3. CoreType'
      BY <1>1, <1>5, <2>2 DEF ProcExit, serverVars, peers, Core, CoreType
    <2> QED BY <1>2, <1>5, <2>3, CoreQuiet
  <1>6. CASE \E taken \in 1 .. PipeCap, printed \in 0 .. 1 : ProcEval(p, taken, printed)
    BY <1>6, CoreEval
  <1> QED BY <1>4, <1>5, <1>6

LEMMA CoreElapse ==
    ASSUME Core, NEW w \in WorkerSlot, Elapse(w) PROVE Core'
  <1>1. workers' \in WorkerTable /\ LiveWorkers' = LiveWorkers
    <2>1. workers \in WorkerTable /\ workers' = [workers EXCEPT ![w].idle = TRUE] /\ w \in LiveWorkers
      BY DEF Elapse, Core, CoreType
    <2>2. workers[w] \in Worker
      BY <2>1, Live DEF Core
    <2> QED BY <2>1, <2>2, Nulls DEF WorkerTable, Worker, LiveWorkers
  <1>2. CoreType'
    BY <1>1 DEF Elapse, envVars, peers, Core, CoreType
  <1>3. LiveClients' = LiveClients
    BY DEF Elapse, LiveClients
  <1>4. NoDanglingPointer'
    BY <1>1, <1>3 DEF Elapse, Core, NoDanglingPointer
  <1> QED BY <1>2, <1>4 DEF Core

-----------------------------------------------------------------------------
LEMMA CoreInit == Init => Core
  <1> SUFFICES ASSUME Init PROVE Core
    OBVIOUS
  <1> USE DEF Init
  <1>1. NoSock \in Sock
    BY DEF NoSock, Sock
  <1>2. sock \in [ClientSlot -> Sock] /\ procs \in [Pid -> Proc]
    BY <1>1, NoProcTyped
  <1>3. clients \in ClientTable /\ workers \in WorkerTable
    BY DEF ClientTable, WorkerTable
  <1>4. backlog \in Nat /\ conns \in 0 .. MaxConns /\ sent \in 0 .. MaxLines
    BY ServerAssumption
  <1>5. CoreType
    BY <1>2, <1>3, <1>4 DEF CoreType
  <1>6. NoDanglingPointer
    BY DEF NoDanglingPointer, LiveClients
  <1> QED BY <1>5, <1>6 DEF Core

LEMMA CoreNext == ASSUME Core, [Next]_vars PROVE Core'
  <1>1. CASE Next
    <2>1. CASE Scan
      BY <2>1, CoreScanSteps, CoreAccept, CoreHangup, CoreReady, CorePipe DEF Scan
    <2>2. CASE Reap
      BY <2>2, CoreScanSteps, CoreReap DEF Reap
    <2>3. CASE Expire
      BY <2>3, CoreScanSteps, CoreTimeout DEF Expire
    <2>4. CASE Interpret
      BY <2>4, CoreLeaveSteps, CoreStart, CoreSession, CoreUnknown, CoreWrite DEF Interpret
    <2>5. CASE Environment
      BY <2>5, CorePeers, CoreProcs, CoreElapse DEF Environment
    <2> QED BY <1>1, <2>1, <2>2, <2>3, <2>4, <2>5 DEF Next, Server
  <1>2. CASE UNCHANGED vars
    BY <1>2 DEF vars, serverVars, envVars, peers, Core, CoreType, NoDanglingPointer,
                LiveClients, LiveWorkers
  <1> QED BY <1>1, <1>2

\* The state is always of its types, and no worker pointer dangles.
THEOREM CoreInvariant == Spec => []Core
  <1>1. Core /\ [Next]_vars => Core'
    BY CoreNext
  <1> QED BY CoreInit, <1>1, PTL DEF Spec

\* A client's worker pointer is NULL or leads to a worker in the table, and
\* the input that is processed is that of a client in the table, whatever
\* freeWorker and closeClient did in between.
THEOREM NoPointerDangles == Spec => []NoDanglingPointer
  <1>1. Core => NoDanglingPointer
    BY DEF Core
  <1> QED BY CoreInvariant, <1>1, PTL

-----------------------------------------------------------------------------
(* What the operations on the poll table do to the set of polled            *)
(* descriptors and to those polled for output: the facts used instead of   *)
(* the array.                                                              *)

Table == [n : NBase .. Capacity, e : [PollIndex -> Entry]]

\* No descriptor is in two places.
Distinct(t) == \A j, k \in Used(t) : t.e[j].fd = t.e[k].fd => j = k

LEMMA CapacityNat == Capacity \in Nat /\ NBase \in Nat /\ NBase < Capacity
  BY SizeAssumption DEF Capacity, NBase

\* The search for a polled descriptor finds its one place, for any other none.
LEMMA PlaceOf ==
    ASSUME NEW t \in Table, Distinct(t), NEW fd
    PROVE  /\ fd \notin Polled(t) => Place(t, fd) = {}
           /\ \A k \in Used(t) : t.e[k].fd = fd => Place(t, fd) = {k}
           /\ \A k \in Place(t, fd) : k \in Used(t) /\ t.e[k].fd = fd
  <1>1. fd \notin Polled(t) => Place(t, fd) = {}
    BY DEF Place, Polled
  <1>2. \A k \in Place(t, fd) : k \in Used(t) /\ t.e[k].fd = fd
    BY DEF Place
  <1>3. ASSUME NEW k \in Used(t), t.e[k].fd = fd
        PROVE  Place(t, fd) = {k}
    <2>1. \A j \in Used(t) : t.e[j].fd = fd => j = k
      BY <1>3 DEF Distinct
    <2>2. k \in Int /\ \A j \in Used(t) : j \in Int
      BY CapacityNat DEF Used, PollIndex
    <2>3. k \in Place(t, fd)
      BY <1>3, <2>1, <2>2 DEF Place
    <2> QED BY <1>2, <2>1, <2>3
  <1> QED BY <1>1, <1>2, <1>3

\* Adding a descriptor that is not polled, while there is room.
LEMMA AddPollFDLemma ==
    ASSUME NEW t \in Table, Distinct(t), NEW fd \in FD, fd \notin Polled(t),
           t.n < Capacity
    PROVE  /\ AddPollFD(t, fd) \in Table
           /\ AddPollFD(t, fd).n = t.n + 1
           /\ Distinct(AddPollFD(t, fd))
           /\ Polled(AddPollFD(t, fd)) = Polled(t) \cup {fd}
           /\ Armed(AddPollFD(t, fd)) = Armed(t)
  <1> DEFINE u == AddPollFD(t, fd)
  <1>1. t.n \in PollIndex /\ t.n \in Int
    BY CapacityNat DEF Table, PollIndex
  <1>2. /\ u.n = t.n + 1
        /\ u.e = [t.e EXCEPT ![t.n] = [t.e[t.n] EXCEPT !.fd = fd, !.out = FALSE]]
    BY DEF AddPollFD
  <1>3. t.e \in [PollIndex -> Entry]
    BY DEF Table
  <1>4. u.e[t.n] \in Entry /\ u.e[t.n].fd = fd /\ u.e[t.n].out = FALSE
    <2>1. PICK r : r = t.e[t.n] /\ r \in Entry
      BY <1>1, <1>3
    <2>2. u.e[t.n] = [r EXCEPT !.fd = fd, !.out = FALSE]
      BY <1>1, <1>2, <1>3, <2>1
    <2>3. /\ [r EXCEPT !.fd = fd, !.out = FALSE] \in Entry
          /\ [r EXCEPT !.fd = fd, !.out = FALSE].fd = fd
          /\ [r EXCEPT !.fd = fd, !.out = FALSE].out = FALSE
      BY <2>1 DEF Entry
    <2> QED BY <2>2, <2>3
  <1>5. \A k \in PollIndex : k # t.n => u.e[k] = t.e[k]
    BY <1>2, <1>3
  <1>6. u.e \in [PollIndex -> Entry]
    BY <1>1, <1>2, <1>3, <1>4
  <1>7. u \in Table
    <2>1. u.n \in NBase .. Capacity
      BY <1>1, <1>2, CapacityNat DEF Table
    <2>2. u = [n |-> u.n, e |-> u.e]
      BY DEF AddPollFD
    <2> QED BY <2>1, <2>2, <1>6 DEF Table
  <1>8. Used(u) = Used(t) \cup {t.n}
    BY <1>1, <1>2, CapacityNat DEF Used, PollIndex
  <1>9. t.n \notin Used(t) /\ Used(t) \subseteq PollIndex
    BY <1>1 DEF Used
  <1>10. \A k \in Used(t) : u.e[k] = t.e[k]
    BY <1>5, <1>9
  <1>11. Distinct(u)
    BY <1>4, <1>8, <1>10 DEF Distinct, Polled
  <1>12. Polled(u) = Polled(t) \cup {fd}
    BY <1>4, <1>8, <1>10 DEF Polled
  <1>13. Armed(u) = Armed(t)
    BY <1>4, <1>8, <1>10 DEF Armed
  <1> QED BY <1>2, <1>7, <1>11, <1>12, <1>13

\* Removing a descriptor, polled or not.
LEMMA UnsetPollFDLemma ==
    ASSUME NEW t \in Table, Distinct(t), NEW fd
    PROVE  /\ UnsetPollFD(t, fd) \in Table
           /\ Distinct(UnsetPollFD(t, fd))
           /\ Polled(UnsetPollFD(t, fd)) = Polled(t) \ {fd}
           /\ Armed(UnsetPollFD(t, fd)) = Armed(t) \ {fd}
  <1> DEFINE u == UnsetPollFD(t, fd)
  <1>1. CASE fd \notin Polled(t)
    <2>1. u = t
      BY <1>1, PlaceOf DEF UnsetPollFD
    <2>2. fd \notin Armed(t)
      BY <1>1 DEF Armed, Polled
    <2> QED BY <1>1, <2>1, <2>2
  <1>2. CASE fd \in Polled(t)
    <2>1. PICK h \in Used(t) : t.e[h].fd = fd
      BY <1>2 DEF Polled
    <2>2. Place(t, fd) = {h}
      BY <2>1, PlaceOf
    <2>3. (CHOOSE j \in Place(t, fd) : TRUE) = h
      BY <2>2
    <2> DEFINE l == t.n - 1
    <2>4. /\ u.n = l
          /\ u.e = [t.e EXCEPT ![h] = t.e[l], ![l] = NoEntry]
          /\ u = [n |-> u.n, e |-> u.e]
      BY <2>2, <2>3 DEF UnsetPollFD
    <2>5. /\ h \in PollIndex /\ h < t.n /\ t.n \in NBase .. Capacity
          /\ t.e \in [PollIndex -> Entry]
      BY DEF Used, Table
    <2>6. l \in PollIndex /\ h \in Int /\ l \in Int /\ h <= l /\ l \in NBase .. Capacity
      BY <2>5, CapacityNat DEF PollIndex
    <2>7. NoEntry \in Entry
      BY DEF NoEntry, Entry, NoFD
    <2>8. u.e \in [PollIndex -> Entry]
      BY <2>4, <2>5, <2>6, <2>7
    <2>9. u \in Table
      BY <2>4, <2>6, <2>8 DEF Table
    <2>10. Used(u) = Used(t) \ {l} /\ l \in Used(t)
      BY <2>4, <2>5, <2>6, CapacityNat DEF Used, PollIndex
    <2>11. \A k \in Used(u) : u.e[k] = IF k = h THEN t.e[l] ELSE t.e[k]
      BY <2>4, <2>5, <2>6, <2>10 DEF Used
    <2>12. Distinct(u)
      BY <2>10, <2>11, <2>1 DEF Distinct
    <2>13. \A k \in Used(t) : t.e[k].fd = fd => k = h
      BY <2>1 DEF Distinct
    <2>14. Polled(u) = Polled(t) \ {fd}
      <3>1. ASSUME NEW x \in Polled(u) PROVE x \in Polled(t) \ {fd}
        BY <2>10, <2>11, <2>13, <2>1 DEF Polled
      <3>2. ASSUME NEW x \in Polled(t) \ {fd} PROVE x \in Polled(u)
        <4>1. PICK k \in Used(t) : t.e[k].fd = x
          BY DEF Polled
        <4>2. k # h
          BY <4>1, <2>1
        <4>3. CASE k = l
          <5>1. h \in Used(u) /\ u.e[h].fd = x
            BY <4>1, <4>2, <4>3, <2>1, <2>10, <2>11
          <5> QED BY <5>1 DEF Polled
        <4>4. CASE k # l
          <5>1. k \in Used(u) /\ u.e[k].fd = x
            BY <4>1, <4>2, <4>4, <2>10, <2>11
          <5> QED BY <5>1 DEF Polled
        <4> QED BY <4>3, <4>4
      <3> QED BY <3>1, <3>2
    <2>15. Armed(u) = Armed(t) \ {fd}
      <3>1. ASSUME NEW x \in Armed(u) PROVE x \in Armed(t) \ {fd}
        <4>1. PICK k \in Used(u) : u.e[k].out /\ u.e[k].fd = x
          BY DEF Armed
        <4>2. CASE k = h
          BY <4>1, <4>2, <2>10, <2>11, <2>13, <2>1 DEF Armed
        <4>3. CASE k # h
          BY <4>1, <4>3, <2>10, <2>11, <2>13 DEF Armed
        <4> QED BY <4>2, <4>3
      <3>2. ASSUME NEW x \in Armed(t) \ {fd} PROVE x \in Armed(u)
        <4>1. PICK k \in Used(t) : t.e[k].out /\ t.e[k].fd = x
          BY DEF Armed
        <4>2. k # h
          BY <4>1, <2>1
        <4>3. CASE k = l
          <5>1. h \in Used(u) /\ u.e[h].fd = x /\ u.e[h].out
            BY <4>1, <4>2, <4>3, <2>1, <2>10, <2>11
          <5> QED BY <5>1 DEF Armed
        <4>4. CASE k # l
          <5>1. k \in Used(u) /\ u.e[k].fd = x /\ u.e[k].out
            BY <4>1, <4>2, <4>4, <2>10, <2>11
          <5> QED BY <5>1 DEF Armed
        <4> QED BY <4>3, <4>4
      <3> QED BY <3>1, <3>2
    <2> QED BY <2>9, <2>12, <2>14, <2>15
  <1> QED BY <1>1, <1>2

\* Changing which of the descriptors of S are polled for output.
LEMMA SetWritePollLemma ==
    ASSUME NEW t \in Table, Distinct(t), NEW S, NEW on
    PROVE  /\ SetWritePoll(t, S, on) \in Table
           /\ SetWritePoll(t, S, on).n = t.n
           /\ Distinct(SetWritePoll(t, S, on))
           /\ Polled(SetWritePoll(t, S, on)) = Polled(t)
           /\ Armed(SetWritePoll(t, S, on)) = (Armed(t) \ S) \cup (Polled(t) \cap S \cap on)
  <1> DEFINE u == SetWritePoll(t, S, on)
             hit(k) == \E fd \in S : k \in Place(t, fd)
  <1>1. /\ u.n = t.n
        /\ u.e = [k \in PollIndex |->
                    IF hit(k) THEN [t.e[k] EXCEPT !.out = (t.e[k].fd \in on)] ELSE t.e[k]]
        /\ u = [n |-> u.n, e |-> u.e]
    BY DEF SetWritePoll
  <1>2. t.n \in NBase .. Capacity /\ t.e \in [PollIndex -> Entry]
    BY DEF Table
  <1>3. \A r \in Entry, b \in BOOLEAN :
            /\ [r EXCEPT !.out = b] \in Entry
            /\ [r EXCEPT !.out = b].fd = r.fd
            /\ [r EXCEPT !.out = b].out = b
    BY DEF Entry
  <1>4. \A k \in PollIndex : /\ u.e[k] \in Entry
                             /\ u.e[k].fd = t.e[k].fd
                             /\ hit(k) => u.e[k].out = (t.e[k].fd \in on)
                             /\ ~hit(k) => u.e[k] = t.e[k]
    <2> SUFFICES ASSUME NEW k \in PollIndex
                 PROVE  /\ u.e[k] \in Entry
                        /\ u.e[k].fd = t.e[k].fd
                        /\ hit(k) => u.e[k].out = (t.e[k].fd \in on)
                        /\ ~hit(k) => u.e[k] = t.e[k]
      OBVIOUS
    <2>1. t.e[k] \in Entry /\ (t.e[k].fd \in on) \in BOOLEAN
      BY <1>2
    <2>2. u.e[k] = IF hit(k) THEN [t.e[k] EXCEPT !.out = (t.e[k].fd \in on)] ELSE t.e[k]
      BY <1>1
    <2>3. CASE hit(k)
      <3> HIDE DEF hit
      <3>1. u.e[k] = [t.e[k] EXCEPT !.out = (t.e[k].fd \in on)]
        BY <2>2, <2>3
      <3>2. PICK r \in Entry : r = t.e[k]
        BY <2>1
      <3>3. PICK b \in BOOLEAN : b = (t.e[k].fd \in on)
        BY <2>1
      <3>4. u.e[k] = [r EXCEPT !.out = b]
        BY <3>1, <3>2, <3>3, Zenon
      <3>5. [r EXCEPT !.out = b] \in Entry /\ [r EXCEPT !.out = b].fd = r.fd /\ [r EXCEPT !.out = b].out = b
        BY <1>3, Zenon
      <3> QED BY <2>3, <3>2, <3>3, <3>4, <3>5, Zenon
    <2>4. CASE ~hit(k)
      <3> HIDE DEF hit
      <3> QED BY <2>1, <2>2, <2>4
    <2> QED BY <2>3, <2>4
  <1>5. u \in Table
    <2>1. u.e \in [PollIndex -> Entry]
      BY <1>1, <1>4
    <2> QED BY <1>1, <1>2, <2>1 DEF Table
  <1>6. Used(u) = Used(t) /\ Used(t) \subseteq PollIndex
    BY <1>1 DEF Used
  <1>7. \A k \in Used(t) : hit(k) <=> t.e[k].fd \in S
    BY PlaceOf
  <1>8. \A k \in Used(t) : /\ u.e[k].fd = t.e[k].fd
                           /\ t.e[k].fd \in S => u.e[k].out = (t.e[k].fd \in on)
                           /\ t.e[k].fd \notin S => u.e[k] = t.e[k]
    <2> HIDE DEF hit
    <2> QED BY <1>4, <1>6, <1>7
  <1>9. Distinct(u) /\ Polled(u) = Polled(t)
    BY <1>6, <1>8 DEF Distinct, Polled
  <1>10. ASSUME NEW x \in Armed(u)
         PROVE  x \in (Armed(t) \ S) \cup (Polled(t) \cap S \cap on)
    <2>1. PICK k \in Used(t) : u.e[k].out /\ u.e[k].fd = x
      BY <1>6 DEF Armed
    <2>2. t.e[k].fd = x /\ x \in Polled(t)
      BY <2>1, <1>8 DEF Polled
    <2>3. CASE x \in S
      BY <2>1, <2>2, <2>3, <1>8
    <2>4. CASE x \notin S
      <3>1. t.e[k].out
        BY <2>1, <2>2, <2>4, <1>8
      <3> QED BY <2>2, <2>4, <3>1 DEF Armed
    <2> QED BY <2>3, <2>4
  <1>11. ASSUME NEW x \in (Armed(t) \ S) \cup (Polled(t) \cap S \cap on)
         PROVE  x \in Armed(u)
    <2>1. CASE x \in S
      <3>1. PICK k \in Used(t) : t.e[k].fd = x
        BY <1>11, <2>1 DEF Polled
      <3>2. x \in on
        BY <1>11, <2>1
      <3>3. u.e[k].fd = x /\ u.e[k].out
        BY <2>1, <3>1, <3>2, <1>8
      <3> QED BY <3>3, <1>6 DEF Armed
    <2>2. CASE x \notin S
      <3>1. PICK k \in Used(t) : t.e[k].out /\ t.e[k].fd = x
        BY <1>11, <2>2 DEF Armed
      <3>2. u.e[k].fd = x /\ u.e[k].out
        BY <2>2, <3>1, <1>8
      <3> QED BY <3>2, <1>6 DEF Armed
    <2> QED BY <2>1, <2>2
  <1> QED BY <1>1, <1>5, <1>9, <1>10, <1>11

\* ::poll changes neither what is polled nor what for.
LEMMA SetReventsLemma ==
    ASSUME NEW t \in Table, Distinct(t),
           NEW rev \in [Used(t) -> SUBSET Event]
    PROVE  /\ SetRevents(t, rev) \in Table
           /\ SetRevents(t, rev).n = t.n
           /\ Distinct(SetRevents(t, rev))
           /\ Polled(SetRevents(t, rev)) = Polled(t)
           /\ Armed(SetRevents(t, rev)) = Armed(t)
  <1> DEFINE u == SetRevents(t, rev)
             r(k) == IF k < t.n THEN rev[k] ELSE {}
  <1>1. /\ u.n = t.n
        /\ u.e = [k \in PollIndex |-> [t.e[k] EXCEPT !.rev = r(k)]]
        /\ u = [n |-> u.n, e |-> u.e]
    BY DEF SetRevents
  <1>2. t.n \in NBase .. Capacity /\ t.e \in [PollIndex -> Entry]
    BY DEF Table
  <1>3. \A x \in Entry, s \in SUBSET Event :
            /\ [x EXCEPT !.rev = s] \in Entry
            /\ [x EXCEPT !.rev = s].fd = x.fd
            /\ [x EXCEPT !.rev = s].out = x.out
    BY DEF Entry
  <1>4. \A k \in PollIndex : r(k) \in SUBSET Event
    BY DEF Used
  <1> HIDE DEF r
  <1>5. \A k \in PollIndex : /\ u.e[k] \in Entry
                             /\ u.e[k].fd = t.e[k].fd
                             /\ u.e[k].out = t.e[k].out
    <2> SUFFICES ASSUME NEW k \in PollIndex
                 PROVE  /\ u.e[k] \in Entry
                        /\ u.e[k].fd = t.e[k].fd
                        /\ u.e[k].out = t.e[k].out
      OBVIOUS
    <2>1. PICK x \in Entry : x = t.e[k]
      BY <1>2
    <2>2. PICK s \in SUBSET Event : s = r(k)
      BY <1>4
    <2>3. u.e[k] = [t.e[k] EXCEPT !.rev = r(k)]
      BY <1>1, Zenon
    <2>4. u.e[k] = [x EXCEPT !.rev = s]
      BY <2>1, <2>2, <2>3, Zenon
    <2>5. [x EXCEPT !.rev = s] \in Entry /\ [x EXCEPT !.rev = s].fd = x.fd /\ [x EXCEPT !.rev = s].out = x.out
      BY <1>3, Zenon
    <2> QED BY <2>1, <2>4, <2>5, Zenon
  <1>6. u \in Table
    <2>1. u.e \in [PollIndex -> Entry]
      BY <1>1, <1>5
    <2> QED BY <1>1, <1>2, <2>1 DEF Table
  <1>7. Used(u) = Used(t) /\ Used(t) \subseteq PollIndex
    BY <1>1 DEF Used
  <1>8. Distinct(u) /\ Polled(u) = Polled(t) /\ Armed(u) = Armed(t)
    BY <1>5, <1>7 DEF Distinct, Polled, Armed
  <1> QED BY <1>1, <1>6, <1>8

\* Owners are numbered: a client by its place, the two pipes of worker w by
\* the (2w-1)-th and (2w)-th number after the clients.
Owners == 1 .. (MaxClients + 2 * MaxWorkers)

\* If every polled descriptor has an owner of its own, the table has room for
\* as many more as there are owners without one: X is a set of such owners.
LEMMA RoomLemma ==
    ASSUME NEW t \in Table, Distinct(t),
           NEW own \in [Polled(t) -> Owners],
           \A a, b \in Polled(t) : own[a] = own[b] => a = b,
           NEW x \in Owners, NEW y \in Owners,
           \A a \in Polled(t) : own[a] # x /\ own[a] # y
    PROVE  /\ t.n < Capacity
           /\ x # y => t.n + 1 < Capacity
  <1> DEFINE U == NBase .. (t.n - 1)
             f == [k \in U |-> own[t.e[k].fd]]
             N == MaxClients + 2 * MaxWorkers
  <1>1. t.n \in Int /\ NBase <= t.n /\ t.n <= Capacity /\ NBase = 3
    BY CapacityNat DEF Table, NBase
  <1>2. Used(t) = U
    BY <1>1, CapacityNat DEF Used, PollIndex
  <1>3. \A k \in U : t.e[k].fd \in Polled(t)
    BY <1>2 DEF Polled
  <1>4. \A j, k \in U : f[j] = f[k] => j = k
    BY <1>2, <1>3 DEF Distinct
  <1>5. IsFiniteSet(U) /\ Cardinality(U) = t.n - 3
    <2>1. PICK a \in Int : a = NBase
      BY <1>1
    <2>2. PICK b \in Int : b = t.n - 1
      BY <1>1
    <2>3. IsFiniteSet(a .. b) /\ Cardinality(a .. b) = IF a > b THEN 0 ELSE b - a + 1
      BY FS_Interval
    <2>4. U = a .. b
      BY <2>1, <2>2
    <2>5. (IF a > b THEN 0 ELSE b - a + 1) = t.n - 3
      BY <1>1, <2>1, <2>2
    <2> QED BY <2>3, <2>4, <2>5, Zenon
  <1>6. N \in Nat /\ Capacity = 3 + N /\ Owners = 1 .. N /\ 1 <= N
    BY SizeAssumption DEF Capacity, NBase, Owners
  <1>7. IsFiniteSet(Owners) /\ Cardinality(Owners) = N
    <2> HIDE DEF N
    <2> QED BY <1>6, FS_Interval
  <1>8. IsFiniteSet(Owners \ {x}) /\ Cardinality(Owners \ {x}) = N - 1
    BY <1>7, FS_RemoveElement
  <1>9. Cardinality(U) <= N - 1
    <2>1. f \in [U -> Owners \ {x}]
      BY <1>3
    <2>2. f \in Injection(U, Owners \ {x})
      BY <2>1, <1>4 DEF Injection, IsInjective
    <2> HIDE DEF U, f, N
    <2>3. Cardinality(U) <= Cardinality(Owners \ {x})
      BY <2>2, <1>8, FS_Injection
    <2> QED BY <2>3, <1>8
  <1>10. ASSUME x # y PROVE Cardinality(U) <= N - 2
    <2> DEFINE T == (Owners \ {x}) \ {y}
    <2>0. y \in Owners \ {x}
      BY <1>10
    <2>1. IsFiniteSet(T) /\ Cardinality(T) = (N - 1) - 1
      BY <2>0, <1>8, FS_RemoveElement
    <2>2. f \in [U -> T]
      BY <1>3
    <2>3. f \in Injection(U, T)
      BY <2>2, <1>4 DEF Injection, IsInjective
    <2> HIDE DEF U, f, N, T
    <2>4. Cardinality(U) <= Cardinality(T)
      BY <2>3, <2>1, FS_Injection
    <2> QED BY <2>4, <2>1, <1>6
  <1> HIDE DEF U, N
  <1> QED BY <1>1, <1>5, <1>6, <1>9, <1>10

-----------------------------------------------------------------------------
(* The descriptors of the clients and workers.                             *)

\* The descriptors of the objects in the tables are open.
OwnedOpen ==
    /\ \A c \in LiveClients : clients[c].fd \in open
    /\ \A w \in LiveWorkers : WorkerFDs(w) \subseteq open

\* What has to do with descriptors.
FDInv == poll \in Table /\ OwnedOpen /\ FDsOwnedOnce /\ PollTableSound /\ WritePollArmed

\* A step keeps the clients and their sockets; the workers and their pipes.
KeepClients == \A c \in ClientSlot :
    /\ clients'[c] = NULL <=> clients[c] = NULL
    /\ clients[c] # NULL => clients'[c].fd = clients[c].fd

KeepWorkers == \A w \in WorkerSlot :
    /\ workers'[w] = NULL <=> workers[w] = NULL
    /\ workers[w] # NULL => /\ workers'[w].in = workers[w].in
                            /\ workers'[w].out = workers[w].out
                            /\ workers'[w].err = workers[w].err

KeepPending == \A c \in LiveClients : clients'[c].pendingOutput = clients[c].pendingOutput

LEMMA SoundDistinct == PollTableSound => Distinct(poll)
  BY DEF PollTableSound, Distinct

-----------------------------------------------------------------------------
(* The descriptor invariants, by the kind of change a step makes.          *)

\* A step that keeps both tables may arm and disarm clients and open more.
LEMMA FDKeep ==
    ASSUME FDInv, KeepClients, KeepWorkers,
           poll' \in Table, Distinct(poll'), Polled(poll') \subseteq Polled(poll),
           ClientFDs \subseteq Polled(poll'), open \subseteq open', WritePollArmed'
    PROVE  FDInv'
  <1>1. LiveClients' = LiveClients /\ LiveWorkers' = LiveWorkers
    BY DEF KeepClients, KeepWorkers, LiveClients, LiveWorkers
  <1>2. \A c \in LiveClients : clients'[c].fd = clients[c].fd
    BY DEF KeepClients, LiveClients
  <1>3. \A w \in LiveWorkers : /\ workers'[w].in = workers[w].in
                               /\ workers'[w].out = workers[w].out
                               /\ workers'[w].err = workers[w].err
    BY DEF KeepWorkers, LiveWorkers
  <1>4. ClientFDs' = ClientFDs
    BY <1>1, <1>2 DEF ClientFDs
  <1>5. PipeFDs' = PipeFDs
    BY <1>1, <1>3 DEF PipeFDs
  <1>6. \A w \in LiveWorkers : WorkerFDs(w)' = WorkerFDs(w)
    BY <1>3 DEF WorkerFDs
  <1>7. OwnedOpen'
    BY <1>1, <1>2, <1>6 DEF FDInv, OwnedOpen
  <1>8. FDsOwnedOnce'
    BY <1>1, <1>2, <1>3, <1>6 DEF FDInv, FDsOwnedOnce
  <1>9. PollTableSound'
    BY <1>4, <1>5 DEF FDInv, PollTableSound, Distinct
  <1> QED BY <1>7, <1>8, <1>9 DEF FDInv

\* If moreover no client's output becomes or ceases to be pending.
LEMMA ArmedKeep ==
    ASSUME WritePollArmed, KeepClients, KeepPending, Armed(poll') = Armed(poll)
    PROVE  WritePollArmed'
  <1>1. LiveClients' = LiveClients
    BY DEF KeepClients, LiveClients
  <1>2. \A c \in LiveClients : /\ clients'[c].fd = clients[c].fd
                               /\ clients'[c].pendingOutput = clients[c].pendingOutput
    BY DEF KeepClients, LiveClients, KeepPending
  <1> QED BY <1>1, <1>2 DEF WritePollArmed

LEMMA FDSame ==
    ASSUME FDInv, KeepClients, KeepWorkers, KeepPending, poll' = poll, open \subseteq open'
    PROVE  FDInv'
  <1>1. Armed(poll') = Armed(poll) /\ Polled(poll') = Polled(poll)
    OBVIOUS
  <1>2. WritePollArmed'
    BY <1>1, ArmedKeep DEF FDInv
  <1>3. poll' \in Table /\ Distinct(poll') /\ ClientFDs \subseteq Polled(poll')
    BY SoundDistinct DEF FDInv, PollTableSound
  <1> QED BY <1>1, <1>2, <1>3, FDKeep

\* The client table and the poll table after output was handed to, or flushed
\* for, the clients of S, of which those of P still have output pending.
LEMMA FDSend ==
    ASSUME FDInv, KeepClients, KeepWorkers, open' = open,
           NEW S \in SUBSET LiveClients, NEW P \in SUBSET S,
           \A c \in LiveClients : clients'[c].pendingOutput =
                IF c \in S THEN c \in P ELSE clients[c].pendingOutput,
           NEW t, t \in Table, Distinct(t), Polled(t) \subseteq Polled(poll),
           ClientFDs \subseteq Polled(t), Armed(t) = Armed(poll),
           poll' = WritePoll(t, S, P)
    PROVE  FDInv' /\ Polled(poll') = Polled(t)
  <1> DEFINE SF == {clients[c].fd : c \in S}
             PF == {clients[c].fd : c \in P}
  <1>1. /\ poll' \in Table /\ Distinct(poll') /\ Polled(poll') = Polled(t)
        /\ Armed(poll') = (Armed(poll) \ SF) \cup (Polled(t) \cap SF \cap PF)
    BY SetWritePollLemma DEF WritePoll
  <1>2. \A c, d \in LiveClients : clients[c].fd = clients[d].fd => c = d
    BY DEF FDInv, FDsOwnedOnce
  <1>3. \A c \in LiveClients : clients[c].fd \in Polled(t)
    BY DEF ClientFDs
  <1>4. \A c \in LiveClients : /\ clients[c].fd \in SF <=> c \in S
                               /\ clients[c].fd \in PF <=> c \in P
    BY <1>2
  <1>5. Armed(poll) = {clients[c].fd : c \in {d \in LiveClients : clients[d].pendingOutput}}
    BY DEF FDInv, WritePollArmed
  <1>6. LiveClients' = LiveClients
    BY DEF KeepClients, LiveClients
  <1>7. \A c \in LiveClients : clients'[c].fd = clients[c].fd
    BY DEF KeepClients, LiveClients
  <1> HIDE DEF SF, PF
  <1>8. ASSUME NEW x \in Armed(poll')
        PROVE  \E c \in LiveClients : clients'[c].pendingOutput /\ clients'[c].fd = x
    <2>1. CASE x \in Armed(poll) \ SF
      <3>1. PICK c \in LiveClients : clients[c].pendingOutput /\ clients[c].fd = x
        BY <1>5, <2>1
      <3>2. c \notin S
        BY <1>4, <2>1, <3>1
      <3> QED BY <1>7, <3>1, <3>2
    <2>2. CASE x \in SF \cap PF
      <3>1. PICK c \in P : clients[c].fd = x
        BY <2>2 DEF PF
      <3> QED BY <1>7, <3>1
    <2> QED BY <1>1, <1>8, <2>1, <2>2
  <1>9. ASSUME NEW c \in LiveClients, clients'[c].pendingOutput
        PROVE  clients'[c].fd \in Armed(poll')
    <2>1. CASE c \in S
      <3>1. c \in P
        BY <1>9, <2>1
      <3>2. clients[c].fd \in Polled(t) \cap SF \cap PF
        BY <1>3, <1>4, <2>1, <3>1
      <3> QED BY <1>1, <1>7, <3>2
    <2>2. CASE c \notin S
      <3>1. clients[c].pendingOutput
        BY <1>9, <2>2
      <3>2. clients[c].fd \in Armed(poll) \ SF
        BY <1>4, <1>5, <2>2, <3>1
      <3> QED BY <1>1, <1>7, <3>2
    <2> QED BY <2>1, <2>2
  <1>10. WritePollArmed'
    BY <1>6, <1>8, <1>9 DEF WritePollArmed
  <1> QED BY <1>1, <1>10, FDKeep
-----------------------------------------------------------------------------
(* How a step changes the workers.                                         *)

\* A search finds something whenever there is something to find.
LEMMA FirstExists ==
    ASSUME NEW S, S \subseteq Nat, S # {} PROVE First(S) # {}
  <1>1. PICK x \in S : \A y \in S : ~(<<y, x>> \in OpToRel(<, Nat))
    BY NatLessThanWellFounded, WFMin
  <1>2. \A y \in S : ~(y < x)
    BY <1>1 DEF OpToRel
  <1>3. x \in First(S)
    BY <1>2 DEF First
  <1> QED BY <1>3

LEMMA NoneByPID ==
    ASSUME NEW p, WorkersByPID(p) = {}
    PROVE  \A w \in LiveWorkers : workers[w].pid # p
  <1> DEFINE S == {w \in LiveWorkers : workers[w].pid = p}
  <1>1. S \subseteq Nat /\ First(S) = {}
    BY SizeAssumption DEF WorkersByPID, LiveWorkers, WorkerSlot
  <1> QED BY <1>1, FirstExists

\* The workers stay; sessions may end.
SameWorkers ==
    /\ LiveWorkers' = LiveWorkers
    /\ \A v \in LiveWorkers : /\ workers'[v].pid = workers[v].pid
                              /\ workers'[v].in = workers[v].in
                              /\ workers'[v].out = workers[v].out
                              /\ workers'[v].err = workers[v].err
                              /\ workers'[v].sessionId \in {workers[v].sessionId, 0}

\* One worker is gone.
GoneWorker(w) ==
    /\ LiveWorkers' = LiveWorkers \ {w}
    /\ \A v \in LiveWorkers' : workers'[v] = workers[v]

\* No process comes to life or is reaped.
SameProcs == \A q \in Pid : /\ procs'[q].st = "none" <=> procs[q].st = "none"
                            /\ procs'[q].st = "running" => procs[q].st = "running"

LEMMA SameUnchanged == UNCHANGED workers => SameWorkers
  BY DEF SameWorkers, LiveWorkers

LEMMA FreeGone ==
    ASSUME Core, NEW w \in LiveWorkers, NEW cs, NEW t, FreeWorker(w, cs, t)
    PROVE  GoneWorker(w)
  BY DEF FreeWorker, GoneWorker, LiveWorkers, Core, CoreType, WorkerTable

LEMMA KillSame ==
    ASSUME Core, NEW p, procs' = Kill(p) PROVE SameProcs
  <1>1. procs \in [Pid -> Proc]
    BY DEF Core, CoreType
  <1> QED BY <1>1 DEF Kill, SameProcs, Proc

LEMMA ModeSame ==
    ASSUME Core, NEW w \in LiveWorkers, NEW b \in BOOLEAN,
           workers' = [workers EXCEPT ![w].rcvdCmd = b]
    PROVE  SameWorkers
  BY ModeUpdate DEF Core, SameWorkers

LEMMA EndedSame ==
    ASSUME Core, NEW w \in LiveWorkers, NEW b \in BOOLEAN, workers' = EndedWorker(w, b)
    PROVE  SameWorkers
  BY EndedTyped DEF SameWorkers, LiveWorkers

\* Which processes a reaping step affects.
LEMMA ReapedProcs ==
    ASSUME Core, NEW p \in Pid, procs' = Reaped(p)
    PROVE  \A q \in Pid : q # p => procs'[q].st = procs[q].st
  <1>1. procs \in [Pid -> Proc]
    BY DEF Core, CoreType
  <1> QED BY <1>1 DEF Reaped, Proc

LEMMA QuietSame ==
    ASSUME \/ Poll \/ ScanDone \/ Accept \/ AcceptNoClient \/ AcceptError \/ Signal \/ Timer
           \/ ReapDone \/ TimerDone \/ Receive \/ Status \/ AttachUnknown
           \/ InputDone \/ CommandTooLong \/ InvalidCommand \/ StartNoWorker \/ StartNoPipes
    PROVE  SameWorkers /\ SameProcs
  <1> USE DEF SameProcs, serverVars, envVars, peers
  <1>1. CASE Poll \/ ScanDone \/ Accept \/ AcceptNoClient \/ AcceptError \/ Signal \/ Timer
             \/ ReapDone \/ TimerDone
    BY <1>1, SameUnchanged DEF Poll, ScanDone, Accept, AcceptNoClient, AcceptError, Signal, Timer,
             ReapDone, TimerDone
  <1>2. CASE Receive \/ Status \/ AttachUnknown \/ InputDone \/ CommandTooLong
    BY <1>2, SameUnchanged DEF Receive, Status, AttachUnknown, InputDone, CommandTooLong
  <1>3. CASE InvalidCommand \/ StartNoWorker \/ StartNoPipes
    BY <1>3, SameUnchanged DEF InvalidCommand, StartNoWorker, StartNoPipes
  <1> QED BY <1>1, <1>2, <1>3

LEMMA SocketSame ==
    ASSUME NEW k \in PollIndex, ClientHangup(k) \/ ClientReady(k)
    PROVE  SameWorkers /\ SameProcs
  BY SameUnchanged DEF ClientHangup, ClientReady, SameProcs

LEMMA PeersSame ==
    ASSUME \/ Connect
           \/ \E c \in ClientSlot : \/ \E l \in Lines : PeerSend(c, l)
                                   \/ PeerClose(c) \/ PeerReset(c) \/ PeerStall(c)
    PROVE  SameWorkers /\ SameProcs
  <1>1. UNCHANGED <<workers, procs>>
    BY DEF Connect, PeerSend, PeerClose, PeerReset, PeerStall, serverVars
  <1> QED BY <1>1, SameUnchanged DEF SameProcs

LEMMA EvalSame ==
    ASSUME Core, NEW p \in Pid, NEW taken \in 1 .. PipeCap, NEW printed \in 0 .. 1,
           ProcEval(p, taken, printed)
    PROVE  SameWorkers /\ SameProcs
  <1>1. procs \in [Pid -> Proc]
    BY DEF Core, CoreType
  <1> QED BY <1>1, SameUnchanged DEF ProcEval, serverVars, SameProcs, Proc

LEMMA ProcsSame ==
    ASSUME Core, NEW p \in Pid,
           ProcPrompt(p) \/ ProcExit(p) \/ \E taken \in 1 .. PipeCap, printed \in 0 .. 1 : ProcEval(p, taken, printed)
    PROVE  SameWorkers /\ SameProcs
  <1>1. procs \in [Pid -> Proc]
    BY DEF Core, CoreType
  <1>2. CASE ProcPrompt(p)
    BY <1>1, <1>2, SameUnchanged DEF ProcPrompt, serverVars, SameProcs, Proc
  <1>3. CASE ProcExit(p)
    <2>1. procs[p].st = "running"
      BY <1>3 DEF ProcExit, MustExit, Running
    <2>2. procs'[p].st = "zombie" /\ \A q \in Pid \ {p} : procs'[q] = procs[q]
      BY <1>1, <1>3 DEF ProcExit, Proc
    <2>3. SameProcs
      BY <2>1, <2>2 DEF SameProcs
    <2> QED BY <1>3, <2>3, SameUnchanged DEF ProcExit, serverVars
  <1>4. CASE \E taken \in 1 .. PipeCap, printed \in 0 .. 1 : ProcEval(p, taken, printed)
    BY <1>4, EvalSame
  <1> QED BY <1>2, <1>3, <1>4

LEMMA PipeSteps ==
    ASSUME Core, NEW k \in PollIndex, PipeNoClient(k) \/ PipeRead(k)
    PROVE  SameProcs /\ (SameWorkers \/ \E w \in LiveWorkers : GoneWorker(w))
  <1>1. CASE PipeNoClient(k)
    <2>1. PICK w \in LiveWorkers : FreeWorker(w, clients, poll)
      BY <1>1, FirstIn DEF PipeNoClient, WorkerAt
    <2>2. GoneWorker(w)
      BY <2>1, FreeGone
    <2> QED BY <1>1, <2>2 DEF PipeNoClient, envVars, SameProcs
  <1>2. CASE PipeRead(k)
    <2>1. PICK w \in First(WorkerAt(k)) :
            /\ workers' = [workers EXCEPT ![w].idle = FALSE]
            /\ procs' = [q \in Pid |-> IF q # workers[w].pid THEN procs[q]
                                    ELSE IF poll.e[k].fd = workers[w].out
                                         THEN [procs[q] EXCEPT !.out = 0]
                                         ELSE [procs[q] EXCEPT !.err = 0]]
      BY <1>2 DEF PipeRead
    <2>2. w \in LiveWorkers
      BY FirstIn DEF WorkerAt
    <2>3. procs \in [Pid -> Proc] /\ workers \in WorkerTable
      BY DEF Core, CoreType
    <2>4. \A q \in Pid : procs'[q].st = procs[q].st
      BY <2>1, <2>3 DEF Proc
    <2>5. SameWorkers
      BY <2>1, <2>2, <2>3, Nulls DEF SameWorkers, LiveWorkers, WorkerTable, Worker
    <2> QED BY <2>4, <2>5 DEF SameProcs
  <1> QED BY <1>1, <1>2

\* Every step keeps the workers, removes one, or is StartSession; a process is
\* reaped together with its worker, or has none.
LEMMA WorkerSteps ==
    ASSUME Core, [Next]_vars
    PROVE  \/ SameProcs /\ (SameWorkers \/ \E w \in LiveWorkers : GoneWorker(w))
           \/ \E p \in Pid :
                /\ procs' = Reaped(p)
                /\ \/ \E w \in LiveWorkers : workers[w].pid = p /\ GoneWorker(w)
                   \/ SameWorkers /\ \A w \in LiveWorkers : workers[w].pid # p
           \/ StartSession
  <1>1. CASE Scan
    BY <1>1, QuietSame, SocketSame, PipeSteps DEF Scan
  <1>2. CASE Reap
    <2>1. CASE ReapDone
      BY <2>1, QuietSame
    <2>2. ASSUME NEW p \in Pid, ReapEnded(p) \/ ReapFailed(p) \/ ReapUnknown(p)
          PROVE  /\ procs' = Reaped(p)
                 /\ \/ \E w \in LiveWorkers : workers[w].pid = p /\ GoneWorker(w)
                    \/ SameWorkers /\ \A w \in LiveWorkers : workers[w].pid # p
      <3>1. CASE ReapEnded(p)
        <4>1. PICK w \in WorkersByPID(p) : \E cs, t : FreeWorker(w, cs, t)
          BY <3>1 DEF ReapEnded
        <4>2. w \in LiveWorkers /\ workers[w].pid = p
          BY FirstIn DEF WorkersByPID
        <4> QED BY <3>1, <4>1, <4>2, FreeGone DEF ReapEnded
      <3>2. CASE ReapFailed(p)
        <4>1. PICK w \in WorkersByPID(p) : \E cs, t : FreeWorker(w, cs, t)
          BY <3>2 DEF ReapFailed
        <4>2. w \in LiveWorkers /\ workers[w].pid = p
          BY FirstIn DEF WorkersByPID
        <4> QED BY <3>2, <4>1, <4>2, FreeGone DEF ReapFailed
      <3>3. CASE ReapUnknown(p)
        BY <3>3, NoneByPID, SameUnchanged DEF ReapUnknown, serverVars
      <3> QED BY <2>2, <3>1, <3>2, <3>3
    <2> QED BY <1>2, <2>1, <2>2 DEF Reap
  <1>3. CASE Expire
    <2>1. CASE TimerDone
      BY <2>1, QuietSame
    <2>2. CASE TimeoutWorker
      <3>1. PICK w \in LiveWorkers : workers' = EndedWorker(w, TRUE) /\ procs' = Kill(workers[w].pid)
        BY <2>2, FirstIn DEF TimeoutWorker, Inactive
      <3> QED BY <3>1, EndedSame, KillSame
    <2> QED BY <1>3, <2>1, <2>2 DEF Expire
  <1>4. CASE Interpret
    <2>1. CASE Attach
      <3>1. PICK w \in LiveWorkers : workers' = [workers EXCEPT ![w].rcvdCmd = FALSE]
        BY <2>1, FirstIn DEF Attach, SessionWorker
      <3> QED BY <2>1, <3>1, ModeSame DEF Attach, envVars, SameProcs
    <2>2. ASSUME End \/ Send PROVE CurWorker \in LiveWorkers
      <3>1. pc = "input" /\ CurWorker # 0
        BY <2>2 DEF End, Send, InSession, InLoop
      <3> QED BY <3>1, CurLive
    <2>3. CASE End
      BY <2>2, <2>3, EndedSame, KillSame DEF End
    <2>4. CASE Send
      BY <2>2, <2>4, ModeSame DEF Send, envVars, SameProcs
    <2>5. CASE WriteInput
      BY <2>5, WriteEffect, SameUnchanged DEF WriteInput, SameProcs
    <2> QED BY <1>4, <2>1, <2>3, <2>4, <2>5, QuietSame DEF Interpret
  <1>5. CASE Environment
    <2>1. ASSUME NEW w \in WorkerSlot, Elapse(w) PROVE SameWorkers /\ SameProcs
      <3>1. workers \in WorkerTable /\ workers' = [workers EXCEPT ![w].idle = TRUE] /\ w \in LiveWorkers
        BY <2>1 DEF Elapse, Core, CoreType
      <3>2. SameWorkers
        BY <3>1, Nulls DEF SameWorkers, LiveWorkers, WorkerTable, Worker
      <3> QED BY <2>1, <3>2 DEF Elapse, envVars, SameProcs
    <2> QED BY <1>5, <2>1, PeersSame, ProcsSame DEF Environment
  <1>6. CASE UNCHANGED vars
    BY <1>6, SameUnchanged DEF vars, serverVars, envVars, SameProcs
  <1> QED BY <1>1, <1>2, <1>3, <1>4, <1>5, <1>6 DEF Next, Server
-----------------------------------------------------------------------------
(* Session ids and process ids.                                            *)

LEMMA PidTyped ==
    ASSUME Core, NEW w \in LiveWorkers, workers[w].pid # NoPid
    PROVE  workers[w].pid \in Pid
  BY Live DEF Core, Worker

LEMMA NoPidNotPid == NoPid \notin Pid
  BY ServerAssumption DEF NoPid

\* StartSession as the proofs use it: worker w was added to the table, with an id
\* and a process nobody has, and its output pipes to the poll table.
Started(w, fin, fout, ferr) ==
    /\ LiveWorkers' = LiveWorkers \cup {w}
    /\ \A v \in LiveWorkers : workers'[v] = workers[v]
    /\ workers'[w].in = fin /\ workers'[w].out = fout /\ workers'[w].err = ferr
    /\ workers'[w].sessionId \in SessionId \ UsedIds
    /\ workers'[w].pid \in FreePids \cup {NoPid}
    /\ \A q \in Pid : q # workers'[w].pid => procs'[q] = procs[q]
    /\ workers'[w].pid # NoPid => procs'[workers'[w].pid].st = "running"
    /\ open' = open \cup {fin, fout, ferr}
    /\ poll' = WritePoll(AddPollFD(AddPollFD(poll, fout), ferr), {cur}, StillUnsent({cur}))

\* Every START that succeeds is such a step.
LEMMA StartWorkers ==
    ASSUME Core, StartSession
    PROVE  \E w \in WorkerSlot \ LiveWorkers, fin \in NextFD(1), fout \in NextFD(2), ferr \in NextFD(4) :
             Started(w, fin, fout, ferr)
  <1>1. PICK s \in SessionId \ UsedIds, w \in WorkerSlot \ LiveWorkers, p \in Pid \cup {NoPid},
              fin \in NextFD(1), fout \in NextFD(2), ferr \in NextFD(4) :
             (p # NoPid => p \in FreePids) /\ StartEffect(s, w, p, fin, fout, ferr)
    BY StartPick, Zenon
  <1>2. /\ workers' = [workers EXCEPT ![w] = NewWorker(s, p, fin, fout, ferr)]
        /\ procs' = [q \in Pid |-> IF q = p THEN ForkedProc ELSE procs[q]]
        /\ open' = open \cup {fin, fout, ferr}
        /\ poll' = WritePoll(AddPollFD(AddPollFD(poll, fout), ferr), {cur}, StillUnsent({cur}))
    BY <1>1, Zenon DEF StartEffect
  <1>3. fin \in FD /\ fout \in FD /\ ferr \in FD
    BY DEF NextFD
  <1>4. NewWorker(s, p, fin, fout, ferr) \in Worker
    BY <1>3 DEF NewWorker, Worker
  <1>5. workers \in WorkerTable
    BY DEF Core, CoreType
  <1>6. /\ LiveWorkers' = LiveWorkers \cup {w}
        /\ \A v \in LiveWorkers : workers'[v] = workers[v]
        /\ workers'[w] = NewWorker(s, p, fin, fout, ferr)
    BY <1>2, <1>4, <1>5, Nulls DEF WorkerTable, LiveWorkers
  <1>7. /\ workers'[w].in = fin /\ workers'[w].out = fout /\ workers'[w].err = ferr
        /\ workers'[w].sessionId = s /\ workers'[w].pid = p
    BY <1>6 DEF NewWorker
  <1>8. ForkedProc.st = "running"
    BY DEF ForkedProc, NoProc
  <1>9. p # NoPid => procs'[p].st = "running"
    BY <1>2, <1>8
  <1>10. p \in FreePids \cup {NoPid}
    BY <1>1
  <1>11. \A q \in Pid : q # p => procs'[q] = procs[q]
    BY <1>2
  <1>12. Started(w, fin, fout, ferr)
    BY <1>2, <1>6, <1>7, <1>9, <1>10, <1>11, Zenon DEF Started
  <1> QED BY <1>1, <1>12, Zenon

LEMMA IdsNext ==
    ASSUME Core, SessionIdsDiffer, PidOwned, [Next]_vars
    PROVE  SessionIdsDiffer' /\ PidOwned'
  <1> DEFINE Reaping(p) ==
                /\ procs' = Reaped(p)
                /\ \/ \E w \in LiveWorkers : workers[w].pid = p /\ GoneWorker(w)
                   \/ SameWorkers /\ \A w \in LiveWorkers : workers[w].pid # p
  <1>1. \A w \in LiveWorkers : workers[w].pid # NoPid => workers[w].pid \in Pid
    BY PidTyped
  <1>2. CASE SameProcs /\ SameWorkers
    <2>1. SessionIdsDiffer'
      BY <1>2 DEF SameWorkers, SessionIdsDiffer
    <2>2. PidOwned'
      BY <1>1, <1>2 DEF SameWorkers, SameProcs, PidOwned
    <2> QED BY <2>1, <2>2
  <1>3. ASSUME SameProcs, NEW w \in LiveWorkers, GoneWorker(w)
        PROVE  SessionIdsDiffer' /\ PidOwned'
    <2>1. \A v \in LiveWorkers' : v \in LiveWorkers /\ workers'[v] = workers[v]
      BY <1>3 DEF GoneWorker
    <2>2. SessionIdsDiffer'
      BY <2>1 DEF SessionIdsDiffer
    <2>3. PidOwned'
      BY <1>1, <1>3, <2>1 DEF SameProcs, PidOwned
    <2> QED BY <2>2, <2>3
  <1>4. ASSUME NEW p \in Pid, Reaping(p)
        PROVE  SessionIdsDiffer' /\ PidOwned'
    <2>1. \A q \in Pid : q # p => procs'[q].st = procs[q].st
      BY <1>4, ReapedProcs
    <2>2. CASE SameWorkers /\ \A w \in LiveWorkers : workers[w].pid # p
      <3>1. SessionIdsDiffer'
        BY <2>2 DEF SameWorkers, SessionIdsDiffer
      <3>2. PidOwned'
        BY <1>1, <2>1, <2>2 DEF SameWorkers, PidOwned
      <3> QED BY <3>1, <3>2
    <2>3. ASSUME NEW w \in LiveWorkers, workers[w].pid = p, GoneWorker(w)
          PROVE  SessionIdsDiffer' /\ PidOwned'
      <3>1. \A v \in LiveWorkers' : v \in LiveWorkers \ {w} /\ workers'[v] = workers[v]
        BY <2>3 DEF GoneWorker
      <3>2. p # NoPid
        BY NoPidNotPid
      <3>3. \A v \in LiveWorkers' : workers[v].pid # p
        BY <2>3, <3>1, <3>2 DEF PidOwned
      <3>4. SessionIdsDiffer'
        BY <3>1 DEF SessionIdsDiffer
      <3>5. PidOwned'
        BY <1>1, <2>1, <3>1, <3>3 DEF PidOwned
      <3> QED BY <3>4, <3>5
    <2> QED BY <1>4, <2>2, <2>3
  <1>5. CASE StartSession
    <2>0. PICK w \in WorkerSlot \ LiveWorkers, fin \in NextFD(1), fout \in NextFD(2), ferr \in NextFD(4) :
             Started(w, fin, fout, ferr)
      BY <1>5, StartWorkers, Zenon
    <2>1. /\ LiveWorkers' = LiveWorkers \cup {w}
          /\ \A v \in LiveWorkers : workers'[v] = workers[v]
          /\ workers'[w].sessionId \in SessionId \ UsedIds
          /\ workers'[w].pid \in FreePids \cup {NoPid}
          /\ \A q \in Pid : q # workers'[w].pid => procs'[q] = procs[q]
          /\ workers'[w].pid # NoPid => procs'[workers'[w].pid].st = "running"
      BY <2>0, Zenon DEF Started
    <2>2. \A v \in LiveWorkers : workers[v].sessionId # workers'[w].sessionId
      BY <2>1 DEF UsedIds
    <2>3. SessionIdsDiffer'
      BY <2>1, <2>2 DEF SessionIdsDiffer
    <2>4. \A v \in LiveWorkers : workers[v].pid # NoPid => workers[v].pid # workers'[w].pid
      BY <2>1 DEF FreePids, PidOwned
    <2>5. PidOwned'
      BY <1>1, <2>1, <2>4 DEF PidOwned
    <2> QED BY <2>3, <2>5
  <1>6. \/ SameProcs /\ (SameWorkers \/ \E w \in LiveWorkers : GoneWorker(w))
        \/ \E p \in Pid : Reaping(p)
        \/ StartSession
    BY WorkerSteps
  <1> HIDE DEF Reaping
  <1> QED BY <1>2, <1>3, <1>4, <1>5, <1>6

LEMMA IdsInit == Init => SessionIdsDiffer /\ PidOwned
  BY DEF Init, SessionIdsDiffer, PidOwned, LiveWorkers

\* No two sessions that have not ended have the same id, and a worker's pid
\* is that of a process not yet reaped and of no other worker: what END and
\* the timeout signal is the process of that session.
THEOREM SessionsKnown == Spec => [](SessionIdsDiffer /\ PidOwned)
  <1>1. Core /\ Core' /\ SessionIdsDiffer /\ PidOwned /\ [Next]_vars => SessionIdsDiffer' /\ PidOwned'
    BY IdsNext
  <1> QED BY IdsInit, <1>1, CoreInvariant, PTL DEF Spec
-----------------------------------------------------------------------------
(* The descriptor invariants: objects that come and go.                    *)

\* A client is closed; descriptors may leak.
LEMMA FDClose ==
    ASSUME Core, FDInv, NEW c \in LiveClients, UNCHANGED workers,
           clients' = [clients EXCEPT ![c] = NULL],
           poll' = UnsetPollFD(poll, clients[c].fd),
           open \ {clients[c].fd} \subseteq open'
    PROVE  FDInv' /\ Polled(poll') = Polled(poll) \ {clients[c].fd}
  <1> DEFINE fd == clients[c].fd
  <1>1. /\ poll' \in Table /\ Distinct(poll')
        /\ Polled(poll') = Polled(poll) \ {fd} /\ Armed(poll') = Armed(poll) \ {fd}
    BY UnsetPollFDLemma, SoundDistinct DEF FDInv
  <1>2. LiveClients' = LiveClients \ {c} /\ \A d \in LiveClients' : clients'[d] = clients[d]
    BY DEF Core, CoreType, ClientTable, LiveClients
  <1>3. LiveWorkers' = LiveWorkers /\ PipeFDs' = PipeFDs /\ \A w : WorkerFDs(w)' = WorkerFDs(w)
    BY DEF LiveWorkers, PipeFDs, WorkerFDs
  <1>4. \A d \in LiveClients : clients[d].fd = fd => d = c
    BY DEF FDInv, FDsOwnedOnce
  <1>5. \A w \in LiveWorkers : fd \notin WorkerFDs(w)
    BY DEF FDInv, FDsOwnedOnce
  <1>6. ClientFDs' = ClientFDs \ {fd}
    BY <1>2, <1>4 DEF ClientFDs
  <1> HIDE DEF fd
  <1>7. OwnedOpen'
    <2>1. \A d \in LiveClients' : clients'[d].fd \in open'
      BY <1>2, <1>4 DEF FDInv, OwnedOpen, fd
    <2>2. \A w \in LiveWorkers : WorkerFDs(w) \subseteq open'
      BY <1>5 DEF FDInv, OwnedOpen, fd
    <2> QED BY <1>3, <2>1, <2>2 DEF OwnedOpen
  <1>8. FDsOwnedOnce'
    BY <1>2, <1>3 DEF FDInv, FDsOwnedOnce
  <1>9. PollTableSound'
    <2>1. Polled(poll') \subseteq open' \cap (ClientFDs' \cup PipeFDs')
      BY <1>1, <1>3, <1>6 DEF FDInv, PollTableSound, fd
    <2>2. ClientFDs' \subseteq Polled(poll')
      BY <1>1, <1>6 DEF FDInv, PollTableSound
    <2> QED BY <1>1, <2>1, <2>2 DEF PollTableSound, Distinct
  <1>10. WritePollArmed'
    <2>1. Armed(poll) = {clients[d].fd : d \in {e \in LiveClients : clients[e].pendingOutput}}
      BY DEF FDInv, WritePollArmed
    <2>2. ASSUME NEW x \in Armed(poll')
          PROVE  \E d \in LiveClients' : clients'[d].pendingOutput /\ clients'[d].fd = x
      <3>1. PICK d \in LiveClients : clients[d].pendingOutput /\ clients[d].fd = x
        BY <1>1, <2>1
      <3>2. d # c
        BY <1>1, <3>1 DEF fd
      <3> QED BY <1>2, <3>1, <3>2
    <2>3. ASSUME NEW d \in LiveClients', clients'[d].pendingOutput
          PROVE  clients'[d].fd \in Armed(poll')
      <3>1. d \in LiveClients /\ d # c /\ clients'[d] = clients[d]
        BY <1>2
      <3>2. clients[d].fd \in Armed(poll) /\ clients[d].fd # fd
        BY <1>4, <2>1, <2>3, <3>1
      <3> QED BY <1>1, <3>1, <3>2
    <2> QED BY <2>2, <2>3 DEF WritePollArmed
  <1> QED BY <1>1, <1>7, <1>8, <1>9, <1>10 DEF FDInv, fd

\* The pipes of a worker are no longer polled.
LEMMA UnsetPipesLemma ==
    ASSUME FDInv, NEW w \in LiveWorkers, NEW t \in Table, Distinct(t)
    PROVE  /\ UnsetPipes(t, w) \in Table /\ Distinct(UnsetPipes(t, w))
           /\ Polled(UnsetPipes(t, w)) = Polled(t) \ {workers[w].out, workers[w].err}
           /\ Armed(UnsetPipes(t, w)) = Armed(t) \ {workers[w].out, workers[w].err}
  <1> DEFINE u == UnsetPollFD(t, workers[w].out)
  <1>1. /\ u \in Table /\ Distinct(u)
        /\ Polled(u) = Polled(t) \ {workers[w].out} /\ Armed(u) = Armed(t) \ {workers[w].out}
    BY UnsetPollFDLemma
  <1> HIDE DEF u
  <1>2. /\ UnsetPollFD(u, workers[w].err) \in Table /\ Distinct(UnsetPollFD(u, workers[w].err))
        /\ Polled(UnsetPollFD(u, workers[w].err)) = Polled(u) \ {workers[w].err}
        /\ Armed(UnsetPollFD(u, workers[w].err)) = Armed(u) \ {workers[w].err}
    BY <1>1, UnsetPollFDLemma
  <1>3. UnsetPipes(t, w) = UnsetPollFD(u, workers[w].err)
    BY DEF UnsetPipes, u
  <1> QED BY <1>1, <1>2, <1>3

\* The pipes of a worker are not those of another, nor a client's socket.
LEMMA PipesApart ==
    ASSUME FDInv, NEW w \in LiveWorkers
    PROVE  /\ \A v \in LiveWorkers : v # w => WorkerFDs(v) \cap WorkerFDs(w) = {}
           /\ \A c \in LiveClients : clients[c].fd \notin WorkerFDs(w)
           /\ \A fd \in Armed(poll) : fd \notin WorkerFDs(w)
           /\ ClientFDs \cap WorkerFDs(w) = {}
  BY DEF FDInv, FDsOwnedOnce, WritePollArmed, ClientFDs

\* cs is the client table after the clients of S were told something, of which
\* those of P have output pending.
Told(cs, S, P) == \A c \in ClientSlot :
    /\ cs[c] = NULL <=> clients[c] = NULL
    /\ clients[c] # NULL =>
         /\ cs[c].worker = clients[c].worker
         /\ cs[c].fd = clients[c].fd
         /\ cs[c].pendingOutput = IF c \in S THEN c \in P ELSE clients[c].pendingOutput

\* A worker is freed after that.
LEMMA FDFree ==
    ASSUME Core, FDInv, NEW w \in LiveWorkers, NEW S \in SUBSET LiveClients,
           NEW P \in SUBSET S,
           NEW cs \in ClientTable,
           Told(cs, S, P), FreeWorker(w, cs, WritePoll(poll, S, P))
    PROVE  FDInv' /\ Polled(poll') = Polled(poll) \ {workers[w].out, workers[w].err}
  <1> \A c \in ClientSlot :
         /\ cs[c] = NULL <=> clients[c] = NULL
         /\ clients[c] # NULL =>
              /\ cs[c].worker = clients[c].worker
              /\ cs[c].fd = clients[c].fd
              /\ cs[c].pendingOutput = IF c \in S THEN c \in P ELSE clients[c].pendingOutput
    BY DEF Told
  <1> DEFINE t == WritePoll(poll, S, P)
             SF == {clients[c].fd : c \in S}
             PF == {clients[c].fd : c \in P}
             gone == {workers[w].out, workers[w].err}
  <1>0. poll \in Table /\ Distinct(poll)
    BY SoundDistinct DEF FDInv
  <1>1. /\ t \in Table /\ Distinct(t) /\ Polled(t) = Polled(poll)
        /\ Armed(t) = (Armed(poll) \ SF) \cup (Polled(poll) \cap SF \cap PF)
    BY <1>0, SetWritePollLemma DEF WritePoll
  <1>2. poll' = UnsetPipes(t, w) /\ open' = open \ WorkerFDs(w)
    BY DEF FreeWorker
  <1> HIDE DEF t
  <1>3. /\ poll' \in Table /\ Distinct(poll')
        /\ Polled(poll') = Polled(poll) \ gone /\ Armed(poll') = Armed(t) \ gone
    BY <1>1, <1>2, UnsetPipesLemma
  <1>4. /\ LiveWorkers' = LiveWorkers \ {w}
        /\ \A c \in ClientSlot :
                /\ clients'[c] = NULL <=> clients[c] = NULL
                /\ clients[c] # NULL =>
                     /\ clients'[c].fd = clients[c].fd
                     /\ clients'[c].pendingOutput = cs[c].pendingOutput
    BY FreeCore
  <1>5. LiveClients' = LiveClients
    BY <1>4 DEF LiveClients
  <1>6. \A c \in LiveClients :
            /\ clients'[c].fd = clients[c].fd
            /\ clients'[c].pendingOutput = IF c \in S THEN c \in P ELSE clients[c].pendingOutput
    BY <1>4 DEF LiveClients
  <1>7. GoneWorker(w)
    BY FreeGone
  <1>8. \A v \in LiveWorkers' : v \in LiveWorkers /\ v # w /\ workers'[v] = workers[v]
                                /\ WorkerFDs(v)' = WorkerFDs(v)
    BY <1>7 DEF GoneWorker, WorkerFDs
  <1>9. /\ \A v \in LiveWorkers : v # w => WorkerFDs(v) \cap WorkerFDs(w) = {}
        /\ \A c \in LiveClients : clients[c].fd \notin WorkerFDs(w)
        /\ ClientFDs \cap WorkerFDs(w) = {}
    BY PipesApart
  <1>10. gone \subseteq WorkerFDs(w)
    BY DEF WorkerFDs
  <1>11. ClientFDs' = ClientFDs
    BY <1>5, <1>6 DEF ClientFDs
  <1>12. OwnedOpen'
    BY <1>2, <1>5, <1>6, <1>8, <1>9 DEF FDInv, OwnedOpen
  <1>13. FDsOwnedOnce'
    <2>1. \A c, d \in LiveClients' : clients'[c].fd = clients'[d].fd => c = d
      BY <1>5, <1>6 DEF FDInv, FDsOwnedOnce
    <2>2. \A u, v \in LiveWorkers' : u # v => WorkerFDs(u)' \cap WorkerFDs(v)' = {}
      BY <1>8 DEF FDInv, FDsOwnedOnce
    <2>3. \A c \in LiveClients', v \in LiveWorkers' : clients'[c].fd \notin WorkerFDs(v)'
      BY <1>5, <1>6, <1>8 DEF FDInv, FDsOwnedOnce
    <2>4. \A v \in LiveWorkers' : LET r == workers'[v] IN r.in # r.out /\ r.in # r.err /\ r.out # r.err
      BY <1>8 DEF FDInv, FDsOwnedOnce
    <2> QED BY <2>1, <2>2, <2>3, <2>4 DEF FDsOwnedOnce
  <1>14. PollTableSound'
    <2>1. ASSUME NEW fd \in Polled(poll') PROVE fd \in open' \cap (ClientFDs' \cup PipeFDs')
      <3>1. fd \in Polled(poll) /\ fd \notin gone
        BY <1>3
      <3>2. fd \in open /\ fd \in ClientFDs \cup PipeFDs
        BY <3>1 DEF FDInv, PollTableSound
      <3>3. CASE fd \in ClientFDs
        BY <1>2, <1>9, <1>11, <3>2, <3>3
      <3>4. CASE fd \in PipeFDs
        <4>1. PICK v \in LiveWorkers : fd \in {workers[v].out, workers[v].err}
          BY <3>4 DEF PipeFDs
        <4>2. v # w
          BY <3>1, <4>1
        <4>3. v \in LiveWorkers' /\ fd \in {workers'[v].out, workers'[v].err}
          BY <1>4, <1>8, <4>1, <4>2
        <4>4. fd \notin WorkerFDs(w)
          BY <1>9, <4>1, <4>2 DEF WorkerFDs
        <4>5. fd \in PipeFDs'
          BY <4>3 DEF PipeFDs
        <4> QED BY <1>2, <3>2, <4>4, <4>5
      <3> QED BY <3>2, <3>3, <3>4
    <2>2. ClientFDs' \subseteq Polled(poll')
      BY <1>3, <1>9, <1>10, <1>11 DEF FDInv, PollTableSound
    <2> QED BY <1>3, <2>1, <2>2 DEF PollTableSound, Distinct
  <1>15. WritePollArmed'
    <2>1. \A c \in LiveClients : /\ clients[c].fd \in SF <=> c \in S
                                 /\ clients[c].fd \in PF <=> c \in P
      BY DEF FDInv, FDsOwnedOnce
    <2>2. \A c \in LiveClients : clients[c].fd \in Polled(poll) /\ clients[c].fd \notin gone
      BY <1>9, <1>10 DEF FDInv, PollTableSound, ClientFDs
    <2>3. Armed(poll) = {clients[c].fd : c \in {d \in LiveClients : clients[d].pendingOutput}}
      BY DEF FDInv, WritePollArmed
    <2>4. \A c \in P : c \in S /\ c \in LiveClients
      OBVIOUS
    <2> HIDE DEF gone
    <2>5. ASSUME NEW x \in Armed(poll')
          PROVE  \E c \in LiveClients : clients'[c].pendingOutput /\ clients'[c].fd = x
      <3>1. CASE x \in Armed(poll) \ SF
        <4>1. PICK c \in LiveClients : clients[c].pendingOutput /\ clients[c].fd = x
          BY <2>3, <3>1
        <4>2. c \notin S
          BY <2>1, <3>1, <4>1
        <4> QED BY <1>6, <4>1, <4>2
      <3>2. CASE x \in SF \cap PF
        <4>1. PICK c \in P : clients[c].fd = x
          BY <3>2
        <4> QED BY <1>6, <2>4, <4>1
      <3> QED BY <1>1, <1>3, <2>5, <3>1, <3>2
    <2>6. ASSUME NEW c \in LiveClients, clients'[c].pendingOutput
          PROVE  clients'[c].fd \in Armed(poll')
      <3>1. CASE c \in S
        <4>1. c \in P
          BY <1>6, <2>6, <3>1
        <4>2. clients[c].fd \in Polled(poll) \cap SF \cap PF
          BY <2>1, <2>2, <3>1, <4>1
        <4> QED BY <1>1, <1>3, <1>6, <2>2, <4>2
      <3>2. CASE c \notin S
        <4>1. clients[c].pendingOutput
          BY <1>6, <2>6, <3>2
        <4>2. clients[c].fd \in Armed(poll) \ SF
          BY <2>1, <2>3, <3>2, <4>1
        <4> QED BY <1>1, <1>3, <1>6, <2>2, <4>2
      <3> QED BY <3>1, <3>2
    <2> QED BY <1>5, <2>5, <2>6 DEF WritePollArmed
  <1> QED BY <1>3, <1>12, <1>13, <1>14, <1>15 DEF FDInv
-----------------------------------------------------------------------------
(* Room in the poll table.                                                 *)

\* The owner of a polled descriptor, as a number.
OwnerOf(fd) ==
    IF \E c \in LiveClients : clients[c].fd = fd
    THEN CHOOSE c \in LiveClients : clients[c].fd = fd
    ELSE IF \E w \in LiveWorkers : workers[w].out = fd
    THEN MaxClients + 2 * (CHOOSE w \in LiveWorkers : workers[w].out = fd) - 1
    ELSE MaxClients + 2 * (CHOOSE w \in LiveWorkers : workers[w].err = fd)

LEMMA OwnerCases ==
    ASSUME FDInv, NEW fd \in Polled(poll)
    PROVE  \/ \E c \in LiveClients : clients[c].fd = fd /\ OwnerOf(fd) = c
           \/ \E w \in LiveWorkers : workers[w].out = fd /\ OwnerOf(fd) = MaxClients + 2 * w - 1
           \/ \E w \in LiveWorkers : workers[w].err = fd /\ OwnerOf(fd) = MaxClients + 2 * w
  <1>1. fd \in ClientFDs \cup PipeFDs
    BY DEF FDInv, PollTableSound
  <1>2. CASE \E c \in LiveClients : clients[c].fd = fd
    BY <1>2 DEF OwnerOf
  <1>3. CASE /\ ~\E c \in LiveClients : clients[c].fd = fd
             /\ \E w \in LiveWorkers : workers[w].out = fd
    <2>1. PICK w \in LiveWorkers : w = CHOOSE v \in LiveWorkers : workers[v].out = fd
      BY <1>3
    <2>2. workers[w].out = fd
      BY <1>3, <2>1
    <2> QED BY <1>3, <2>1, <2>2 DEF OwnerOf
  <1>4. CASE /\ ~\E c \in LiveClients : clients[c].fd = fd
             /\ ~\E w \in LiveWorkers : workers[w].out = fd
    <2>0. \E w \in LiveWorkers : workers[w].err = fd
      BY <1>1, <1>4 DEF ClientFDs, PipeFDs
    <2>1. PICK w \in LiveWorkers : w = CHOOSE v \in LiveWorkers : workers[v].err = fd
      BY <2>0
    <2>2. workers[w].err = fd
      BY <2>0, <2>1
    <2> QED BY <1>4, <2>1, <2>2 DEF OwnerOf
  <1> QED BY <1>2, <1>3, <1>4

\* While a client's place is free one more descriptor fits; while a worker's
\* place is free two do.
LEMMA RoomFor ==
    ASSUME FDInv
    PROVE  /\ LiveClients # ClientSlot => poll.n < Capacity
           /\ LiveWorkers # WorkerSlot => poll.n + 1 < Capacity
  <1> DEFINE own == [fd \in Polled(poll) |-> OwnerOf(fd)]
  <1>1. poll \in Table /\ Distinct(poll)
    BY SoundDistinct DEF FDInv
  <1>2. /\ \A c \in LiveClients : c \in Nat /\ 1 <= c /\ c <= MaxClients
        /\ \A w \in LiveWorkers : w \in Nat /\ 1 <= w /\ w <= MaxWorkers
        /\ MaxClients \in Nat /\ MaxWorkers \in Nat
    BY SizeAssumption DEF LiveClients, LiveWorkers, ClientSlot, WorkerSlot
  <1>3. \A fd \in Polled(poll) :
           \/ \E c \in LiveClients : clients[c].fd = fd /\ own[fd] = c
           \/ \E w \in LiveWorkers : workers[w].out = fd /\ own[fd] = MaxClients + 2 * w - 1
           \/ \E w \in LiveWorkers : workers[w].err = fd /\ own[fd] = MaxClients + 2 * w
    BY OwnerCases
  <1>4. own = [fd \in Polled(poll) |-> own[fd]]
    OBVIOUS
  <1> HIDE DEF own
  <1>5. own \in [Polled(poll) -> Owners]
    <2>1. ASSUME NEW fd \in Polled(poll) PROVE own[fd] \in Owners
      BY <1>2, <1>3 DEF Owners
    <2> QED BY <1>4, <2>1
  <1>6. ASSUME NEW a \in Polled(poll), NEW b \in Polled(poll), own[a] = own[b] PROVE a = b
    <2>0. MaxClients \in Nat
      BY <1>2
    <2>1. ASSUME NEW c \in LiveClients, clients[c].fd = a, own[a] = c
          PROVE  a = b
      <3>0. c \in Nat /\ c <= MaxClients
        BY <1>2
      <3>1. ASSUME NEW d \in LiveClients, clients[d].fd = b, own[b] = d
            PROVE  a = b
        <4>1. d \in Nat /\ d <= MaxClients
          BY <1>2
        <4>2. c = d
          BY <1>6, <2>1, <3>1
        <4>3. c = d
          BY <2>0, <3>0, <4>1, <4>2
        <4> QED BY <2>1, <3>1, <4>3
      <3>2. ASSUME NEW v \in LiveWorkers, workers[v].out = b, own[b] = MaxClients + 2 * v - 1
            PROVE  FALSE
        <4>1. v \in Nat /\ 1 <= v
          BY <1>2
        <4>2. c = MaxClients + 2 * v - 1
          BY <1>6, <2>1, <3>2
        <4> QED BY <2>0, <3>0, <4>1, <4>2
      <3>3. ASSUME NEW v \in LiveWorkers, workers[v].err = b, own[b] = MaxClients + 2 * v
            PROVE  FALSE
        <4>1. v \in Nat /\ 1 <= v
          BY <1>2
        <4>2. c = MaxClients + 2 * v
          BY <1>6, <2>1, <3>3
        <4> QED BY <2>0, <3>0, <4>1, <4>2
      <3> QED BY <1>3, <3>1, <3>2, <3>3
    <2>2. ASSUME NEW w \in LiveWorkers, workers[w].out = a, own[a] = MaxClients + 2 * w - 1
          PROVE  a = b
      <3>0. w \in Nat /\ 1 <= w
        BY <1>2
      <3>1. ASSUME NEW d \in LiveClients, clients[d].fd = b, own[b] = d
            PROVE  FALSE
        <4>1. d \in Nat /\ d <= MaxClients
          BY <1>2
        <4>2. MaxClients + 2 * w - 1 = d
          BY <1>6, <2>2, <3>1
        <4> QED BY <2>0, <3>0, <4>1, <4>2
      <3>2. ASSUME NEW v \in LiveWorkers, workers[v].out = b, own[b] = MaxClients + 2 * v - 1
            PROVE  a = b
        <4>1. v \in Nat /\ 1 <= v
          BY <1>2
        <4>2. MaxClients + 2 * w - 1 = MaxClients + 2 * v - 1
          BY <1>6, <2>2, <3>2
        <4>3. w = v
          BY <2>0, <3>0, <4>1, <4>2
        <4> QED BY <2>2, <3>2, <4>3
      <3>3. ASSUME NEW v \in LiveWorkers, workers[v].err = b, own[b] = MaxClients + 2 * v
            PROVE  FALSE
        <4>1. v \in Nat /\ 1 <= v
          BY <1>2
        <4>2. MaxClients + 2 * w - 1 = MaxClients + 2 * v
          BY <1>6, <2>2, <3>3
        <4> QED BY <2>0, <3>0, <4>1, <4>2
      <3> QED BY <1>3, <3>1, <3>2, <3>3
    <2>3. ASSUME NEW w \in LiveWorkers, workers[w].err = a, own[a] = MaxClients + 2 * w
          PROVE  a = b
      <3>0. w \in Nat /\ 1 <= w
        BY <1>2
      <3>1. ASSUME NEW d \in LiveClients, clients[d].fd = b, own[b] = d
            PROVE  FALSE
        <4>1. d \in Nat /\ d <= MaxClients
          BY <1>2
        <4>2. MaxClients + 2 * w = d
          BY <1>6, <2>3, <3>1
        <4> QED BY <2>0, <3>0, <4>1, <4>2
      <3>2. ASSUME NEW v \in LiveWorkers, workers[v].out = b, own[b] = MaxClients + 2 * v - 1
            PROVE  FALSE
        <4>1. v \in Nat /\ 1 <= v
          BY <1>2
        <4>2. MaxClients + 2 * w = MaxClients + 2 * v - 1
          BY <1>6, <2>3, <3>2
        <4> QED BY <2>0, <3>0, <4>1, <4>2
      <3>3. ASSUME NEW v \in LiveWorkers, workers[v].err = b, own[b] = MaxClients + 2 * v
            PROVE  a = b
        <4>1. v \in Nat /\ 1 <= v
          BY <1>2
        <4>2. MaxClients + 2 * w = MaxClients + 2 * v
          BY <1>6, <2>3, <3>3
        <4>3. w = v
          BY <2>0, <3>0, <4>1, <4>2
        <4> QED BY <2>3, <3>3, <4>3
      <3> QED BY <1>3, <3>1, <3>2, <3>3
    <2> QED BY <1>3, <2>1, <2>2, <2>3
  <1>7. ASSUME LiveClients # ClientSlot PROVE poll.n < Capacity
    <2>1. PICK x \in ClientSlot : x \notin LiveClients
      BY <1>7 DEF LiveClients
    <2>2. x \in Nat /\ 1 <= x /\ x <= MaxClients
      BY <1>2, <2>1 DEF ClientSlot
    <2>3. x \in Owners
      BY <1>2, <2>2 DEF Owners
    <2>4. \A a \in Polled(poll) : own[a] # x
      BY <1>2, <1>3, <2>1, <2>2
    <2> QED BY <1>1, <1>5, <1>6, <2>3, <2>4, RoomLemma
  <1>8. ASSUME LiveWorkers # WorkerSlot PROVE poll.n + 1 < Capacity
    <2>1. PICK w \in WorkerSlot : w \notin LiveWorkers
      BY <1>8 DEF LiveWorkers
    <2>2. w \in Nat /\ 1 <= w /\ w <= MaxWorkers
      BY <1>2, <2>1 DEF WorkerSlot
    <2> DEFINE x == MaxClients + 2 * w - 1
               y == MaxClients + 2 * w
    <2>3. x \in Owners /\ y \in Owners /\ x # y
      BY <1>2, <2>2 DEF Owners
    <2>4. \A a \in Polled(poll) : own[a] # x /\ own[a] # y
      BY <1>2, <1>3, <2>1, <2>2
    <2> HIDE DEF x, y
    <2> QED BY <1>1, <1>5, <1>6, <2>3, <2>4, RoomLemma
  <1> QED BY <1>7, <1>8

LEMMA FDAccept ==
    ASSUME Core, FDInv, Accept
    PROVE  FDInv' /\ Polled(poll) \subseteq Polled(poll')
  <1>1. PICK f \in NextFD(0), c \in First(ClientSlot \ LiveClients) :
             /\ clients' = [clients EXCEPT ![c] = NewClient(f)]
             /\ poll' = AddPollFD(poll, f)
             /\ open' = open \cup {f}
    BY DEF Accept
  <1>2. f \in FD /\ f \notin open /\ c \in ClientSlot /\ c \notin LiveClients
    BY FirstIn DEF NextFD
  <1>3. poll \in Table /\ Distinct(poll) /\ poll.n < Capacity
    BY <1>2, RoomFor, SoundDistinct DEF FDInv
  <1>4. f \notin Polled(poll)
    BY <1>2 DEF FDInv, PollTableSound
  <1>5. /\ poll' \in Table /\ Distinct(poll')
        /\ Polled(poll') = Polled(poll) \cup {f} /\ Armed(poll') = Armed(poll)
    BY <1>1, <1>2, <1>3, <1>4, AddPollFDLemma
  <1>6. NewClient(f) \in Client /\ NewClient(f).fd = f /\ NewClient(f).pendingOutput = FALSE
    BY <1>2 DEF NewClient, Client
  <1>7. /\ LiveClients' = LiveClients \cup {c} /\ clients'[c] = NewClient(f)
        /\ \A d \in LiveClients : clients'[d] = clients[d]
    BY <1>1, <1>2, <1>6, Nulls DEF Core, CoreType, ClientTable, LiveClients
  <1>8. LiveWorkers' = LiveWorkers /\ PipeFDs' = PipeFDs /\ \A w : WorkerFDs(w)' = WorkerFDs(w)
    BY DEF Accept, LiveWorkers, PipeFDs, WorkerFDs
  <1>9. workers' = workers
    BY DEF Accept
  <1>10. ClientFDs' = ClientFDs \cup {f}
    BY <1>6, <1>7 DEF ClientFDs
  <1>11. OwnedOpen'
    BY <1>1, <1>6, <1>7, <1>8 DEF FDInv, OwnedOpen
  <1>12. FDsOwnedOnce'
    <2>1. \A d \in LiveClients : clients[d].fd # f
      BY <1>2 DEF FDInv, OwnedOpen
    <2>2. \A w \in LiveWorkers : f \notin WorkerFDs(w)
      BY <1>2 DEF FDInv, OwnedOpen
    <2> QED BY <1>6, <1>7, <1>8, <1>9, <2>1, <2>2 DEF FDInv, FDsOwnedOnce
  <1>13. PollTableSound'
    <2>1. Polled(poll') \subseteq open' \cap (ClientFDs' \cup PipeFDs') /\ ClientFDs' \subseteq Polled(poll')
      BY <1>1, <1>5, <1>8, <1>10 DEF FDInv, PollTableSound
    <2> QED BY <1>5, <2>1 DEF PollTableSound, Distinct
  <1>14. WritePollArmed'
    <2>1. {d \in LiveClients' : clients'[d].pendingOutput} = {d \in LiveClients : clients[d].pendingOutput}
      BY <1>2, <1>6, <1>7
    <2> QED BY <1>5, <1>7, <2>1 DEF FDInv, WritePollArmed
  <1> QED BY <1>5, <1>11, <1>12, <1>13, <1>14 DEF FDInv

LEMMA FDStart ==
    ASSUME Core, FDInv, StartSession
    PROVE  /\ FDInv'
           /\ \A v \in LiveWorkers' : v \notin LiveWorkers => {workers'[v].out, workers'[v].err} \subseteq Polled(poll')
           /\ Polled(poll) \subseteq Polled(poll')
  <1>0. PICK w \in WorkerSlot \ LiveWorkers, fin \in NextFD(1), fout \in NextFD(2), ferr \in NextFD(4) :
             Started(w, fin, fout, ferr)
    BY StartWorkers, Zenon
  <1>1. /\ LiveWorkers' = LiveWorkers \cup {w}
        /\ \A v \in LiveWorkers : workers'[v] = workers[v]
        /\ workers'[w].in = fin /\ workers'[w].out = fout /\ workers'[w].err = ferr
        /\ open' = open \cup {fin, fout, ferr}
        /\ poll' = WritePoll(AddPollFD(AddPollFD(poll, fout), ferr), {cur}, StillUnsent({cur}))
    BY <1>0, Zenon DEF Started
  <1>2. {fin, fout, ferr} \subseteq FD \ open /\ fin # fout /\ fin # ferr /\ fout # ferr
    BY DEF NextFD
  <1>3. pc = "input"
    BY DEF StartSession, Unattached, InLoop
  <1>4. cur \in LiveClients /\ cur \in ClientSlot /\ Rest \in Seq(Line) /\ Unsent(cur) \in BOOLEAN
    BY <1>3, CurLive, UnsentTyped
  <1>5. PICK slot \in WorkerSlot : clients' = [clients EXCEPT ![cur].worker = slot, ![cur].pendingInput = Rest,
                                      ![cur].pendingOutput = Unsent(cur)]
    BY StartPick, Zenon DEF StartEffect
  <1>6. /\ LiveClients' = LiveClients
        /\ \A d \in LiveClients :
                /\ clients'[d].fd = clients[d].fd
                /\ clients'[d].pendingOutput = IF d = cur THEN Unsent(cur) ELSE clients[d].pendingOutput
    BY <1>3, <1>4, <1>5, CurUpdate
  <1>7. poll \in Table /\ Distinct(poll) /\ poll.n < Capacity /\ poll.n + 1 < Capacity /\ poll.n \in Int
    <2>1. poll \in Table /\ Distinct(poll) /\ poll.n + 1 < Capacity
      BY <1>1, RoomFor, SoundDistinct DEF FDInv, LiveWorkers
    <2> QED BY <2>1, CapacityNat DEF Table
  <1>8. Polled(poll) \subseteq open
    BY DEF FDInv, PollTableSound
  <1> DEFINE t == AddPollFD(poll, fout)
             u == AddPollFD(t, ferr)
             fd == clients[cur].fd
             F == {clients[c].fd : c \in {cur}}
             P == {clients[c].fd : c \in StillUnsent({cur})}
  <1>9. /\ t \in Table /\ t.n = poll.n + 1 /\ Distinct(t)
        /\ Polled(t) = Polled(poll) \cup {fout} /\ Armed(t) = Armed(poll)
    BY <1>2, <1>7, <1>8, AddPollFDLemma
  <1> HIDE DEF t
  <1>10. ferr \in FD /\ ferr \notin Polled(t) /\ t.n < Capacity
    BY <1>2, <1>7, <1>8, <1>9
  <1>11. /\ u \in Table /\ Distinct(u)
         /\ Polled(u) = Polled(poll) \cup {fout, ferr} /\ Armed(u) = Armed(poll)
    BY <1>9, <1>10, AddPollFDLemma
  <1>12. poll' = SetWritePoll(u, F, P)
    BY <1>1 DEF WritePoll, t, u, F, P
  <1> HIDE DEF u, F, P
  <1>13. /\ poll' \in Table /\ Distinct(poll') /\ Polled(poll') = Polled(poll) \cup {fout, ferr}
         /\ Armed(poll') = (Armed(poll) \ F) \cup ((Polled(poll) \cup {fout, ferr}) \cap F \cap P)
    <2>1. /\ SetWritePoll(u, F, P) \in Table /\ Distinct(SetWritePoll(u, F, P))
          /\ Polled(SetWritePoll(u, F, P)) = Polled(u)
          /\ Armed(SetWritePoll(u, F, P)) = (Armed(u) \ F) \cup (Polled(u) \cap F \cap P)
      BY <1>11, SetWritePollLemma
    <2> QED BY <1>11, <1>12, <2>1
  <1>14. F = {fd} /\ P = IF Unsent(cur) THEN {fd} ELSE {}
    BY DEF StillUnsent, F, P
  <1>15. fd \in Polled(poll) /\ \A d \in LiveClients : clients[d].fd = fd => d = cur
    BY <1>4 DEF FDInv, PollTableSound, ClientFDs, FDsOwnedOnce
  <1>16. WritePollArmed'
    <2>1. Armed(poll) = {clients[d].fd : d \in {e \in LiveClients : clients[e].pendingOutput}}
      BY DEF FDInv, WritePollArmed
    <2> HIDE DEF fd
    <2>2. ASSUME NEW x \in Armed(poll')
          PROVE  \E d \in LiveClients : clients'[d].pendingOutput /\ clients'[d].fd = x
      <3>1. CASE x \in Armed(poll) \ F
        <4>1. PICK d \in LiveClients : clients[d].pendingOutput /\ clients[d].fd = x
          BY <2>1, <3>1
        <4>2. d # cur
          BY <1>14, <3>1, <4>1 DEF fd
        <4> QED BY <1>6, <4>1, <4>2
      <3>2. CASE x \in F \cap P
        <4>1. Unsent(cur) /\ x = clients[cur].fd
          BY <1>14, <3>2 DEF fd
        <4> QED BY <1>4, <1>6, <4>1
      <3> QED BY <1>13, <2>2, <3>1, <3>2
    <2>3. ASSUME NEW d \in LiveClients, clients'[d].pendingOutput
          PROVE  clients'[d].fd \in Armed(poll')
      <3>1. CASE d = cur
        <4>1. Unsent(cur) /\ clients'[d].fd = fd
          BY <1>4, <1>6, <2>3, <3>1 DEF fd
        <4> QED BY <1>13, <1>14, <1>15, <4>1
      <3>2. CASE d # cur
        <4>1. clients[d].pendingOutput /\ clients'[d].fd = clients[d].fd /\ clients[d].fd # fd
          BY <1>6, <1>15, <2>3, <3>2
        <4> QED BY <1>13, <1>14, <2>1, <4>1
      <3> QED BY <3>1, <3>2
    <2> QED BY <1>6, <2>2, <2>3 DEF WritePollArmed
  <1>17. /\ \A v \in LiveWorkers : WorkerFDs(v)' = WorkerFDs(v)
         /\ WorkerFDs(w)' = {fin, fout, ferr}
    BY <1>1 DEF WorkerFDs
  <1>18. OwnedOpen'
    BY <1>1, <1>6, <1>17 DEF FDInv, OwnedOpen
  <1>19. FDsOwnedOnce'
    <2>1. \A c, d \in LiveClients' : clients'[c].fd = clients'[d].fd => c = d
      BY <1>6 DEF FDInv, FDsOwnedOnce
    <2>2. \A v \in LiveWorkers : WorkerFDs(v) \cap {fin, fout, ferr} = {}
      BY <1>2 DEF FDInv, OwnedOpen
    <2>3. \A x, v \in LiveWorkers' : x # v => WorkerFDs(x)' \cap WorkerFDs(v)' = {}
      BY <1>1, <1>17, <2>2 DEF FDInv, FDsOwnedOnce
    <2>4. \A c \in LiveClients : clients[c].fd \notin {fin, fout, ferr}
      BY <1>2 DEF FDInv, OwnedOpen
    <2>5. \A c \in LiveClients', v \in LiveWorkers' : clients'[c].fd \notin WorkerFDs(v)'
      BY <1>1, <1>6, <1>17, <2>4 DEF FDInv, FDsOwnedOnce
    <2>6. \A v \in LiveWorkers' : LET r == workers'[v] IN r.in # r.out /\ r.in # r.err /\ r.out # r.err
      BY <1>1, <1>2 DEF FDInv, FDsOwnedOnce
    <2> QED BY <2>1, <2>3, <2>5, <2>6 DEF FDsOwnedOnce
  <1>20. PipeFDs' = PipeFDs \cup {fout, ferr} /\ ClientFDs' = ClientFDs
    BY <1>1, <1>6 DEF PipeFDs, ClientFDs
  <1>21. PollTableSound'
    <2>1. Polled(poll') \subseteq open' \cap (ClientFDs' \cup PipeFDs') /\ ClientFDs' \subseteq Polled(poll')
      BY <1>1, <1>13, <1>20 DEF FDInv, PollTableSound
    <2> QED BY <1>13, <2>1 DEF PollTableSound, Distinct
  <1>22. FDInv'
    BY <1>13, <1>16, <1>18, <1>19, <1>21 DEF FDInv
  <1> QED BY <1>1, <1>13, <1>22

-----------------------------------------------------------------------------
(* The server implements Sessions: every step of the thread, of a peer, of *)
(* a process or of the clock is one step of the session table, or none.    *)

\* What a step may leave as it is: the sessions; who is attached to which.
KeepSessions == \A w \in WorkerSlot :
    /\ workers'[w] = NULL <=> workers[w] = NULL
    /\ workers[w] # NULL => workers'[w].sessionId = workers[w].sessionId

KeepAttached == \A c \in ClientSlot :
    /\ clients'[c] = NULL <=> clients[c] = NULL
    /\ clients[c] # NULL => clients'[c].worker = clients[c].worker

AbstractStep == [Abstract!Next]_(Abstract!vars)

LEMMA SameSessions ==
    ASSUME KeepSessions PROVE SessionState' = SessionState /\ SessionIds' = SessionIds
  BY DEF KeepSessions, SessionState, SessionIds

LEMMA SameAttached ==
    ASSUME KeepAttached PROVE AttachedTo' = AttachedTo
  BY DEF KeepAttached, AttachedTo

-----------------------------------------------------------------------------
(* The kinds of change, as steps of the session table.                     *)

LEMMA StutterStep ==
    ASSUME KeepSessions, KeepAttached PROVE AbstractStep
  BY SameSessions, SameAttached DEF AbstractStep, Abstract!vars

LEMMA LeaveStep ==
    ASSUME Core, KeepSessions, NEW c \in ClientSlot, clients' = [clients EXCEPT ![c] = NULL]
    PROVE  AbstractStep
  <1>1. \A d \in ClientSlot : clients'[d] = IF d = c THEN NULL ELSE clients[d]
    BY DEF Core, CoreType, ClientTable
  <1>2. AttachedTo' = [AttachedTo EXCEPT ![c] = 0]
    <2>1. \A d \in ClientSlot : AttachedTo'[d] = IF d = c THEN 0 ELSE AttachedTo[d]
      BY <1>1 DEF AttachedTo
    <2> QED BY <2>1 DEF AttachedTo
  <1>3. Abstract!Leave(c)
    BY <1>2, SameSessions DEF Abstract!Leave
  <1> QED BY <1>3 DEF AbstractStep, Abstract!Next

LEMMA FinishStep ==
    ASSUME Core, KeepAttached, NEW w \in LiveWorkers, NEW b \in BOOLEAN,
           workers' = EndedWorker(w, b)
    PROVE  AbstractStep
  <1>1. w \in WorkerSlot /\ workers[w] # NULL
    BY DEF LiveWorkers
  <1>2. \A v \in WorkerSlot :
          /\ workers'[v] = NULL <=> workers[v] = NULL
          /\ workers[v] # NULL =>
               workers'[v].sessionId = IF v = w THEN 0 ELSE workers[v].sessionId
    BY EndedTyped
  <1>3. SessionState' = [SessionState EXCEPT ![w] = "ended"]
    BY <1>1, <1>2 DEF SessionState
  <1>4. SessionIds' = [SessionIds EXCEPT ![w] = 0]
    BY <1>1, <1>2 DEF SessionIds
  <1>5. SessionState[w] # "free"
    BY <1>1 DEF SessionState
  <1>6. Abstract!Finish(w)
    BY <1>3, <1>4, <1>5, SameAttached DEF Abstract!Finish
  <1> QED BY <1>1, <1>6 DEF AbstractStep, Abstract!Next

\* freeWorker: everybody attached is detached.
LEMMA RemoveStep ==
    ASSUME Core, NEW w \in LiveWorkers, NEW cs \in ClientTable, NEW t,
           \A c \in ClientSlot : /\ cs[c] = NULL <=> clients[c] = NULL
                                 /\ clients[c] # NULL => /\ cs[c].worker = clients[c].worker
                                                         /\ cs[c].fd = clients[c].fd,
           FreeWorker(w, cs, t)
    PROVE  AbstractStep
  <1>1. w \in WorkerSlot /\ workers[w] # NULL /\ w # 0
    BY Zeros DEF LiveWorkers
  <1>2. \A v \in WorkerSlot : workers'[v] = IF v = w THEN NULL ELSE workers[v]
    BY DEF FreeWorker, Core, CoreType, WorkerTable
  <1>3. \A c \in ClientSlot :
          /\ clients'[c] = NULL <=> clients[c] = NULL
          /\ clients[c] # NULL =>
               clients'[c].worker = IF clients[c].worker = w THEN 0 ELSE clients[c].worker
    BY FreeCore
  <1>4. SessionState' = [SessionState EXCEPT ![w] = "free"]
    BY <1>1, <1>2 DEF SessionState
  <1>5. SessionIds' = [SessionIds EXCEPT ![w] = 0]
    BY <1>1, <1>2 DEF SessionIds
  <1>6. AttachedTo' = [c \in ClientSlot |-> IF AttachedTo[c] = w THEN 0 ELSE AttachedTo[c]]
    BY <1>1, <1>3 DEF AttachedTo
  <1>7. SessionState[w] # "free"
    BY <1>1 DEF SessionState
  <1>8. Abstract!Remove(w)
    BY <1>4, <1>5, <1>6, <1>7 DEF Abstract!Remove
  <1> QED BY <1>1, <1>8 DEF AbstractStep, Abstract!Next

\* The client being served gets a worker; nobody else's changes.
Joined(w) ==
    /\ LiveClients' = LiveClients
    /\ clients[cur].worker = 0
    /\ \A d \in LiveClients : clients'[d].worker = IF d = cur THEN w ELSE clients[d].worker

LEMMA JoinedAttached ==
    ASSUME cur \in LiveClients, NEW w, Joined(w)
    PROVE  AttachedTo[cur] = 0 /\ AttachedTo' = [AttachedTo EXCEPT ![cur] = w]
  BY DEF Joined, AttachedTo, LiveClients

LEMMA JoinStep ==
    ASSUME KeepSessions, cur \in LiveClients, NEW w \in LiveWorkers, Joined(w)
    PROVE  AbstractStep
  <1>1. SessionState[w] # "free" /\ w \in WorkerSlot /\ cur \in ClientSlot
    BY DEF SessionState, LiveWorkers, LiveClients
  <1>2. Abstract!Join(cur, w)
    BY <1>1, SameSessions, JoinedAttached DEF Abstract!Join
  <1> QED BY <1>1, <1>2 DEF AbstractStep, Abstract!Next

LEMMA StartStep ==
    ASSUME Core, cur \in LiveClients, NEW w \in WorkerSlot \ LiveWorkers,
           NEW s \in SessionId \ UsedIds, Joined(w),
           NEW r \in Worker, r.sessionId = s, workers' = [workers EXCEPT ![w] = r]
    PROVE  AbstractStep
  <1>1. s # 0
    BY ServerAssumption
  <1>2. workers[w] = NULL /\ cur \in ClientSlot
    BY DEF LiveWorkers, LiveClients
  <1>3. \A v \in WorkerSlot : workers'[v] = IF v = w THEN r ELSE workers[v]
    BY DEF Core, CoreType, WorkerTable
  <1>4. SessionState[w] = "free"
    BY <1>2 DEF SessionState
  <1>5. SessionState' = [SessionState EXCEPT ![w] = "active"]
    BY <1>1, <1>3, Nulls DEF SessionState
  <1>6. SessionIds' = [SessionIds EXCEPT ![w] = s]
    <2>1. \A v \in WorkerSlot : SessionIds'[v] = IF v = w THEN s ELSE SessionIds[v]
      BY <1>3, Nulls DEF SessionIds
    <2> QED BY <2>1 DEF SessionIds
  <1>7. \A q \in WorkerSlot : SessionIds[q] # s
    BY <1>1 DEF SessionIds, UsedIds, LiveWorkers
  <1>8. Abstract!Start(cur, w, s)
    BY <1>4, <1>5, <1>6, <1>7, JoinedAttached DEF Abstract!Start
  <1> QED BY <1>2, <1>8 DEF AbstractStep, Abstract!Next

-----------------------------------------------------------------------------
(* The steps of the scan, of the waitpid loop and of the timer.            *)

LEMMA QuietStep == ASSUME UNCHANGED <<clients, workers>> PROVE AbstractStep
  BY StutterStep DEF KeepSessions, KeepAttached

LEMMA AcceptStep == ASSUME Core, Accept PROVE AbstractStep
  <1>1. PICK f \in FD, c \in ClientSlot \ LiveClients : clients' = [clients EXCEPT ![c] = NewClient(f)]
    BY FirstIn DEF Accept, NextFD
  <1>2. NewClient(f) \in Client /\ NewClient(f).worker = 0
    BY <1>1 DEF NewClient, Client
  <1>3. \A d \in ClientSlot : clients'[d] = IF d = c THEN NewClient(f) ELSE clients[d]
    BY <1>1 DEF Core, CoreType, ClientTable
  <1>4. AttachedTo' = AttachedTo
    BY <1>1, <1>2, <1>3, Nulls DEF AttachedTo, LiveClients
  <1>5. KeepSessions
    BY DEF Accept, KeepSessions
  <1> QED BY <1>4, <1>5, SameSessions DEF AbstractStep, Abstract!vars

LEMMA ReapStep ==
    ASSUME Core, NEW p \in Pid, ReapEnded(p) \/ ReapFailed(p) PROVE AbstractStep
  <1>1. PICK w \in LiveWorkers, S \in SUBSET LiveClients :
           FreeWorker(w, SentTo(S), WritePoll(poll, S, StillUnsent(S)))
    <2>1. CASE ReapEnded(p)
      BY <2>1, FirstIn DEF ReapEnded, WorkersByPID, Attached
    <2>2. CASE ReapFailed(p)
      BY <2>2, FirstIn DEF ReapFailed, WorkersByPID, Receiver, Attached
    <2> QED BY <2>1, <2>2
  <1> QED BY <1>1, SentToTyped, RemoveStep DEF Core

LEMMA TimeoutStep == ASSUME Core, TimeoutWorker PROVE AbstractStep
  <1>1. PICK w \in LiveWorkers : workers' = EndedWorker(w, TRUE)
    BY FirstIn DEF TimeoutWorker, Inactive
  <1>2. KeepAttached
    BY DEF TimeoutWorker, KeepAttached
  <1> QED BY <1>1, <1>2, FinishStep

LEMMA HangupStep == ASSUME Core, NEW k \in PollIndex, ClientHangup(k) PROVE AbstractStep
  <1>1. PICK c \in ClientSlot : clients' = [clients EXCEPT ![c] = NULL]
    BY FirstIn DEF ClientHangup, ClientAt, CloseClient, LiveClients
  <1>2. KeepSessions
    BY DEF ClientHangup, KeepSessions
  <1> QED BY <1>1, <1>2, LeaveStep

\* The records of clients change, but not who is attached to which worker.
LEMMA RecordStep ==
    ASSUME Core, NEW c \in LiveClients, NEW r, r # NULL, r.worker = clients[c].worker,
           clients' = [clients EXCEPT ![c] = r], KeepSessions
    PROVE  AbstractStep
  <1>1. \A d \in ClientSlot : clients'[d] = IF d = c THEN r ELSE clients[d]
    BY DEF Core, CoreType, ClientTable
  <1>2. KeepAttached
    BY <1>1 DEF KeepAttached, LiveClients
  <1> QED BY <1>2, StutterStep

\* What is received or flushed leaves the client's pointer as it is.
LEMMA ReadyStep == ASSUME Core, NEW k \in PollIndex, ClientReady(k) PROVE AbstractStep
  <1> DEFINE in == "IN" \in Revents(k)
             pending(c) == clients[c].pendingOutput /\ ("OUT" \in Revents(k) => Unsent(c))
  <1>1. PICK c \in LiveClients :
          /\ clients' = [clients EXCEPT
                          ![c].pendingOutput = pending(c),
                          ![c].pendingInput = IF in THEN @ \o sock[c].in ELSE @]
          /\ cur' = IF in THEN c ELSE 0
          /\ pc' = IF in THEN "input" ELSE "scan"
    <2>1. PICK c \in ClientAt(k) :
          /\ clients' = [clients EXCEPT
                          ![c].pendingOutput = pending(c),
                          ![c].pendingInput = IF in THEN @ \o sock[c].in ELSE @]
          /\ cur' = IF in THEN c ELSE 0
          /\ pc' = IF in THEN "input" ELSE "scan"
      BY DEF ClientReady
    <2>2. c \in LiveClients
      BY FirstIn DEF ClientAt
    <2> QED BY <2>1, <2>2
  <1>2. c \in ClientSlot /\ clients[c] \in Client /\ clients \in ClientTable /\ pending(c) \in BOOLEAN
    BY Live DEF Core, CoreType
  <1> DEFINE q == IF in THEN clients[c].pendingInput \o sock[c].in ELSE clients[c].pendingInput
             r == [clients[c] EXCEPT !.pendingOutput = pending(c), !.pendingInput = q]
  <1>3. clients' = [clients EXCEPT ![c] = r]
    BY <1>1, <1>2 DEF ClientTable, Client
  <1>4. r.worker = clients[c].worker
    BY <1>2 DEF Client
  <1>5. r # NULL
    <2>1. CASE in
      <3>1. c \in LiveClients'
        BY <1>1, <2>1, CoreReady DEF Core, NoDanglingPointer
      <3> QED BY <1>2, <1>3, <3>1 DEF LiveClients, ClientTable
    <2>2. CASE ~in
      BY <1>2, <2>2, Nulls DEF Client
    <2> QED BY <2>1, <2>2
  <1>6. KeepSessions
    BY DEF ClientReady, KeepSessions
  <1> HIDE DEF r
  <1> QED BY <1>2, <1>3, <1>4, <1>5, <1>6, RecordStep

LEMMA PipeStep ==
    ASSUME Core, NEW k \in PollIndex, PipeNoClient(k) \/ PipeRead(k) PROVE AbstractStep
  <1>1. CASE PipeNoClient(k)
    <2>1. PICK w \in LiveWorkers : FreeWorker(w, clients, poll)
      BY <1>1, FirstIn DEF PipeNoClient, WorkerAt
    <2>2. clients \in ClientTable
      BY DEF Core, CoreType
    <2> QED BY <2>1, <2>2, RemoveStep
  <1>2. CASE PipeRead(k)
    <2>1. PICK w \in LiveWorkers, c \in LiveClients, on \in BOOLEAN :
            /\ workers' = [workers EXCEPT ![w].idle = FALSE]
            /\ clients' = [clients EXCEPT ![c].pendingOutput = on]
      <3> DEFINE Data(w, isOut) == workers[w].pid \in Pid /\ (IF isOut THEN procs[workers[w].pid].out
                                                               ELSE procs[workers[w].pid].err) > 0
                 On(w, c) == (Data(w, poll.e[k].fd = workers[w].out)
                                 \/ clients[c].pendingOutput) /\ Unsent(c)
      <3>0. PICK w \in First(WorkerAt(k)) : \E c \in Receiver(w) :
              /\ workers' = [workers EXCEPT ![w].idle = FALSE]
              /\ clients' = [clients EXCEPT ![c].pendingOutput = On(w, c)]
        BY <1>2 DEF PipeRead
      <3>1. PICK c \in Receiver(w) :
              /\ workers' = [workers EXCEPT ![w].idle = FALSE]
              /\ clients' = [clients EXCEPT ![c].pendingOutput = On(w, c)]
        BY <3>0
      <3>2. w \in LiveWorkers /\ c \in LiveClients
        BY FirstIn DEF WorkerAt, Receiver, Attached
      <3>3. On(w, c) \in BOOLEAN
        OBVIOUS
      <3> HIDE DEF On
      <3> QED BY <3>1, <3>2, <3>3, Zenon
    <2>2. clients[c] \in Client /\ workers[w] \in Worker /\ clients \in ClientTable /\ workers \in WorkerTable
      BY Live DEF Core, CoreType
    <2> DEFINE r == [clients[c] EXCEPT !.pendingOutput = on]
    <2>3. r \in Client /\ r.worker = clients[c].worker /\ clients' = [clients EXCEPT ![c] = r]
      BY <2>1, <2>2 DEF Client, ClientTable
    <2>4. KeepSessions
      BY <2>1, <2>2, Nulls DEF KeepSessions, WorkerTable, Worker
    <2> HIDE DEF r
    <2> QED BY <2>3, <2>4, Nulls, RecordStep
  <1> QED BY <1>1, <1>2

-----------------------------------------------------------------------------
(* The steps of the loop over the input, and the surroundings.             *)

LEMMA LeaveSteps ==
    ASSUME Core, InputDone \/ CommandTooLong \/ InvalidCommand \/ StartNoWorker \/ StartNoPipes
    PROVE  AbstractStep
  <1>1. KeepSessions
    BY DEF InputDone, CommandTooLong, InvalidCommand, StartNoWorker, StartNoPipes, KeepSessions
  <1>2. cur \in ClientSlot
    <2>1. pc = "input"
      BY DEF InputDone, CommandTooLong, InvalidCommand, StartNoWorker, StartNoPipes,
             Unattached, InSession, InLoop
    <2> QED BY <2>1, CurLive
  <1>3. UNCHANGED clients \/ clients' = [clients EXCEPT ![cur] = NULL]
    <2>1. ASSUME NEW b, LeaveLoop(b)
          PROVE  UNCHANGED clients \/ clients' = [clients EXCEPT ![cur] = NULL]
      BY <2>1 DEF LeaveLoop, CloseClient
    <2> QED BY <2>1 DEF InputDone, CommandTooLong, InvalidCommand, StartNoWorker, StartNoPipes
  <1>4. CASE UNCHANGED clients
    BY <1>1, <1>4, StutterStep DEF KeepAttached
  <1>5. CASE clients' = [clients EXCEPT ![cur] = NULL]
    BY <1>1, <1>2, <1>5, LeaveStep
  <1> QED BY <1>3, <1>4, <1>5

LEMMA UnknownStep == ASSUME Core, AttachUnknown PROVE AbstractStep
  <1>1. pc = "input"
    BY DEF AttachUnknown, Unattached, InLoop
  <1>2. /\ cur \in LiveClients /\ cur \in ClientSlot /\ clients[cur] \in Client
        /\ Input \in Seq(Line) /\ Rest \in Seq(Line)
    BY <1>1, CurLive
  <1>3. KeepSessions
    BY DEF AttachUnknown, KeepSessions
  <1>4. CASE closing
    BY <1>2, <1>3, <1>4, LeaveStep DEF AttachUnknown, CloseClient
  <1>5. CASE ~closing
    <2> DEFINE q == <<[cmd |-> "STUCK", id |-> Input[1].id]>> \o Rest
               r == [clients[cur] EXCEPT !.pendingInput = q]
    <2>1. clients' = [clients EXCEPT ![cur] = r]
      BY <1>2, <1>5 DEF AttachUnknown, Core, CoreType, ClientTable, Client
    <2>2. q \in Seq(Line)
      <3>1. Input # <<>>
        BY DEF AttachUnknown, Unattached, InLoop
      <3>2. Input[1] \in Line
        BY <1>2, <3>1
      <3> QED BY <1>2, <3>2 DEF Line, Command
    <2> HIDE DEF q
    <2>3. r \in Client /\ r.worker = clients[cur].worker
      BY <1>2, <2>2 DEF Client
    <2> HIDE DEF r
    <2> QED BY <1>2, <1>3, <2>1, <2>3, Nulls, RecordStep
  <1> QED BY <1>4, <1>5

\* The session's commands, of which only END and SESSION change what a session
\* is or who is attached to it.
LEMMA SessionStep ==
    ASSUME Core, Attach \/ End \/ Send \/ Receive \/ Status PROVE AbstractStep
  <1>1. /\ pc = "input" /\ cur \in LiveClients /\ LiveClients' = LiveClients
        /\ \A d \in LiveClients : d # cur \/ ~Attach => clients'[d].worker = clients[d].worker
    BY CurEffect
  <1>2. /\ CurWorker \in LiveWorkers \cup {0} /\ cur \in ClientSlot /\ clients[cur] \in Client
        /\ clients \in ClientTable /\ workers \in WorkerTable
    BY <1>1, CurLive DEF Core, CoreType
  <1>3. ~Attach => KeepAttached
    BY <1>1 DEF KeepAttached, LiveClients
  <1>4. ASSUME NEW w \in LiveWorkers, NEW b \in BOOLEAN, workers' = [workers EXCEPT ![w].rcvdCmd = b]
        PROVE  KeepSessions
    BY <1>4, ModeUpdate DEF Core, KeepSessions, LiveWorkers
  <1>5. CASE Attach
    <2>1. PICK w \in LiveWorkers :
             /\ clients' = [clients EXCEPT ![cur].worker = w, ![cur].pendingInput = Rest]
             /\ workers' = [workers EXCEPT ![w].rcvdCmd = FALSE]
      BY <1>5, FirstIn DEF Attach, SessionWorker
    <2>2. clients'[cur].worker = w
      BY <1>2, <2>1 DEF ClientTable, Client
    <2>3. clients[cur].worker = 0
      BY <1>5 DEF Attach, Unattached, CurWorker
    <2>4. Joined(w)
      BY <1>1, <2>2, <2>3 DEF Joined
    <2> QED BY <1>1, <1>4, <2>1, <2>4, JoinStep
  <1>6. CASE End
    <2>1. CurWorker \in LiveWorkers /\ ~Attach
      BY <1>2, <1>6 DEF End, Attach, InSession, Unattached
    <2> QED BY <1>3, <1>6, <2>1, FinishStep DEF End
  <1>7. CASE Send
    <2>1. CurWorker \in LiveWorkers /\ ~Attach
      BY <1>2, <1>7 DEF Send, Attach, InSession, Unattached
    <2> QED BY <1>3, <1>4, <1>7, <2>1, StutterStep DEF Send
  <1>8. CASE Receive \/ Status
    <2>1. ~Attach /\ KeepSessions
      BY <1>8 DEF Receive, Status, Attach, InSession, Unattached, KeepSessions
    <2> QED BY <1>3, <2>1, StutterStep
  <1> QED BY <1>5, <1>6, <1>7, <1>8

LEMMA StartedStep == ASSUME Core, StartSession PROVE AbstractStep
  <1>1. PICK s \in SessionId \ UsedIds, w \in WorkerSlot \ LiveWorkers, p \in Pid \cup {NoPid},
              fin \in NextFD(1), fout \in NextFD(2), ferr \in NextFD(4) :
             StartEffect(s, w, p, fin, fout, ferr)
    BY StartPick, Zenon
  <1>2. /\ workers' = [workers EXCEPT ![w] = NewWorker(s, p, fin, fout, ferr)]
        /\ clients' = [clients EXCEPT ![cur].worker = w,
                                      ![cur].pendingInput = Rest,
                                      ![cur].pendingOutput = Unsent(cur)]
    BY <1>1, Zenon DEF StartEffect
  <1>3. pc = "input" /\ CurWorker = 0
    BY DEF StartSession, Unattached, InLoop
  <1>4. cur \in LiveClients /\ cur \in ClientSlot /\ Unsent(cur) \in BOOLEAN /\ Rest \in Seq(Line)
    BY <1>3, CurLive, UnsentTyped
  <1>5. /\ LiveClients' = LiveClients
        /\ \A d \in LiveClients : clients'[d].worker = IF d = cur THEN w ELSE clients[d].worker
    BY <1>2, <1>3, <1>4, CurUpdate
  <1>6. Joined(w)
    BY <1>3, <1>5 DEF Joined, CurWorker
  <1>7. fin \in FD /\ fout \in FD /\ ferr \in FD
    BY DEF NextFD
  <1>8. NewWorker(s, p, fin, fout, ferr) \in Worker /\ NewWorker(s, p, fin, fout, ferr).sessionId = s
    BY <1>7 DEF NewWorker, Worker
  <1> QED BY <1>2, <1>4, <1>6, <1>8, StartStep

LEMMA WriteStep == ASSUME Core, WriteInput PROVE AbstractStep
  <1>1. LiveClients' = LiveClients /\ \A d \in LiveClients : clients'[d].worker = clients[d].worker
    BY WriteEffect
  <1>2. KeepAttached /\ KeepSessions
    BY <1>1 DEF KeepAttached, KeepSessions, LiveClients, WriteInput
  <1> QED BY <1>2, StutterStep

LEMMA ElapseStep == ASSUME Core, NEW w \in WorkerSlot, Elapse(w) PROVE AbstractStep
  <1>1. workers \in WorkerTable /\ workers' = [workers EXCEPT ![w].idle = TRUE] /\ w \in LiveWorkers
    BY DEF Elapse, Core, CoreType
  <1>2. KeepSessions
    BY <1>1, Nulls DEF KeepSessions, WorkerTable, Worker, LiveWorkers
  <1> QED BY <1>2, StutterStep DEF Elapse, KeepAttached

-----------------------------------------------------------------------------
LEMMA RefineInit == Init => Abstract!Init
  BY DEF Init, Abstract!Init, SessionState, SessionIds, AttachedTo

LEMMA RefineNext == ASSUME Core, [Next]_vars PROVE AbstractStep
  <1>1. CASE Scan
    <2>1. CASE Poll \/ ScanDone \/ AcceptNoClient \/ AcceptError \/ Signal \/ Timer
      BY <2>1, QuietStep DEF Poll, ScanDone, AcceptNoClient, AcceptError, Signal, Timer
    <2> QED BY <1>1, <2>1, AcceptStep, HangupStep, ReadyStep, PipeStep DEF Scan
  <1>2. CASE Reap
    <2>1. ASSUME NEW p \in Pid, ReapDone \/ ReapUnknown(p) PROVE AbstractStep
      BY <2>1, QuietStep DEF ReapDone, ReapUnknown, serverVars
    <2>2. CASE ReapDone
      BY <2>2, QuietStep DEF ReapDone
    <2> QED BY <1>2, <2>1, <2>2, ReapStep DEF Reap
  <1>3. CASE Expire
    BY <1>3, TimeoutStep, QuietStep DEF Expire, TimerDone
  <1>4. CASE Interpret
    BY <1>4, LeaveSteps, StartedStep, SessionStep, UnknownStep, WriteStep DEF Interpret
  <1>5. CASE Environment
    <2>1. ASSUME UNCHANGED serverVars PROVE AbstractStep
      BY <2>1, QuietStep DEF serverVars
    <2>2. CASE Connect \/ \E c \in ClientSlot : \/ \E l \in Lines : PeerSend(c, l)
                                              \/ PeerClose(c) \/ PeerReset(c) \/ PeerStall(c)
      BY <2>1, <2>2 DEF Connect, PeerSend, PeerClose, PeerReset, PeerStall
    <2>3. CASE \E p \in Pid : \/ ProcPrompt(p) \/ ProcExit(p)
                              \/ \E taken \in 1 .. PipeCap, printed \in 0 .. 1 : ProcEval(p, taken, printed)
      BY <2>1, <2>3, EvalQuiet DEF ProcPrompt, ProcExit
    <2> QED BY <1>5, <2>2, <2>3, ElapseStep DEF Environment
  <1>6. CASE UNCHANGED vars
    BY <1>6, QuietStep DEF vars, serverVars
  <1> QED BY <1>1, <1>2, <1>3, <1>4, <1>5, <1>6 DEF Next, Server

\* The server keeps what Sessions promises: START takes a free place and an id
\* no other session has, SESSION joins a session that is there, END, the
\* timeout and a dead worker's reaping are the only ways a session ends or
\* goes, and freeWorker leaves nobody attached.
THEOREM ServerRefines == Spec => RefinesSessions
  <1>1. Core /\ [Next]_vars => [Abstract!Next]_(Abstract!vars)
    BY RefineNext DEF AbstractStep
  <1> QED BY RefineInit, CoreInvariant, <1>1, PTL DEF Spec, RefinesSessions, Abstract!Spec

-----------------------------------------------------------------------------
(* Every step of the server keeps the descriptor invariants above, and     *)
(* polls the pipes of every running worker.                                *)

PipesPolled(w) == {workers[w].out, workers[w].err} \subseteq Polled(poll)

\* A worker's pipes are polled after the step, unless they were not before or
\* its process was not running.
PipesKept == \A v \in LiveWorkers' :
    \/ PipesPolled(v)'
    \/ /\ v \in LiveWorkers /\ workers'[v].pid = workers[v].pid
       /\ ~PipesPolled(v) \/ ~Running(workers[v].pid)

LEMMA PipesSame ==
    ASSUME SameWorkers, Polled(poll) \subseteq Polled(poll') PROVE PipesKept
  BY DEF SameWorkers, PipesKept, PipesPolled

LEMMA SameKeep == ASSUME SameWorkers PROVE KeepWorkers
  BY DEF SameWorkers, KeepWorkers, LiveWorkers

LEMMA ClientsKeep ==
    ASSUME LiveClients' = LiveClients, \A c \in LiveClients : clients'[c].fd = clients[c].fd
    PROVE  KeepClients
  BY DEF KeepClients, LiveClients

-----------------------------------------------------------------------------
(* The kinds of steps.                                                     *)

\* Nothing that has to do with descriptors changes; one may leak.
LEMMA StepSame ==
    ASSUME FDInv, SameWorkers, KeepClients, KeepPending, poll' = poll, open \subseteq open'
    PROVE  FDInv' /\ PipesKept
  <1>1. Polled(poll') = Polled(poll)
    OBVIOUS
  <1> QED BY <1>1, FDSame, PipesSame, SameKeep

\* The clients of S are handed output, or it is flushed.
LEMMA StepSend ==
    ASSUME FDInv, SameWorkers, KeepClients, open' = open,
           NEW S \in SUBSET LiveClients, NEW P \in SUBSET S,
           \A c \in LiveClients : clients'[c].pendingOutput =
                IF c \in S THEN c \in P ELSE clients[c].pendingOutput,
           poll' = WritePoll(poll, S, P)
    PROVE  FDInv' /\ PipesKept
  <1>1. poll \in Table /\ Distinct(poll) /\ ClientFDs \subseteq Polled(poll)
    BY SoundDistinct DEF FDInv, PollTableSound
  <1>2. KeepWorkers
    BY SameKeep
  <1>3. FDInv' /\ Polled(poll') = Polled(poll)
    BY <1>1, <1>2, FDSend
  <1> QED BY <1>3, PipesSame

\* A client is closed.
LEMMA StepClose ==
    ASSUME Core, FDInv, NEW c \in LiveClients, UNCHANGED workers,
           clients' = [clients EXCEPT ![c] = NULL],
           poll' = UnsetPollFD(poll, clients[c].fd),
           open \ {clients[c].fd} \subseteq open'
    PROVE  FDInv' /\ PipesKept
  <1>1. FDInv' /\ Polled(poll') = Polled(poll) \ {clients[c].fd}
    BY FDClose
  <1>2. \A w \in LiveWorkers : clients[c].fd \notin WorkerFDs(w)
    BY PipesApart
  <1>3. LiveWorkers' = LiveWorkers /\ \A w \in LiveWorkers : workers'[w] = workers[w]
    BY DEF LiveWorkers
  <1>4. PipesKept
    BY <1>1, <1>2, <1>3 DEF PipesKept, PipesPolled, WorkerFDs
  <1> QED BY <1>1, <1>4

\* A worker is freed.
LEMMA StepFree ==
    ASSUME Core, FDInv, NEW w \in LiveWorkers, GoneWorker(w), FDInv',
           Polled(poll') = Polled(poll) \ {workers[w].out, workers[w].err}
    PROVE  FDInv' /\ PipesKept
  <1>1. \A v \in LiveWorkers : v # w => WorkerFDs(v) \cap WorkerFDs(w) = {}
    BY PipesApart
  <1>2. PipesKept
    BY <1>1 DEF GoneWorker, PipesKept, PipesPolled, WorkerFDs
  <1> QED BY <1>2

\* It is freed and nobody is told.
LEMMA FDFreeQuiet ==
    ASSUME Core, FDInv, NEW w \in LiveWorkers, FreeWorker(w, clients, poll)
    PROVE  FDInv' /\ Polled(poll') = Polled(poll) \ {workers[w].out, workers[w].err}
  <1>1. Told(clients, {}, {})
    BY DEF Told
  <1>2. poll = WritePoll(poll, {}, {})
    <2>1. poll \in Table
      BY DEF FDInv
    <2> QED BY <2>1 DEF WritePoll, SetWritePoll, Table
  <1>3. clients \in ClientTable
    BY DEF Core, CoreType
  <1>4. FreeWorker(w, clients, WritePoll(poll, {}, {}))
    BY <1>2 DEF FreeWorker
  <1> QED BY <1>1, <1>3, <1>4, FDFree

\* The output of one client is handed out or flushed: it is pending if on.
LEMMA StepSendOne ==
    ASSUME Core, FDInv, SameWorkers, KeepClients, open' = open,
           NEW c \in LiveClients, NEW on \in BOOLEAN,
           \A d \in LiveClients : clients'[d].pendingOutput =
                IF d = c THEN on ELSE clients[d].pendingOutput,
           poll' = WritePoll(poll, {c}, IF on THEN {c} ELSE {})
    PROVE  FDInv' /\ PipesKept
  <1> DEFINE S == {c}
             P == IF on THEN {c} ELSE {}
  <1>1. S \in SUBSET LiveClients /\ P \in SUBSET S
    OBVIOUS
  <1>2. \A d \in LiveClients : d \in S <=> d = c
    OBVIOUS
  <1>3. \A d \in LiveClients : d = c => (d \in P <=> on)
    OBVIOUS
  <1>4. \A d \in LiveClients : clients'[d].pendingOutput =
                IF d \in S THEN d \in P ELSE clients[d].pendingOutput
    BY <1>2, <1>3
  <1>5. poll' = WritePoll(poll, S, P)
    OBVIOUS
  <1> HIDE DEF S, P
  <1> QED BY <1>1, <1>4, <1>5, StepSend

LEMMA StillOne == ASSUME NEW c PROVE StillUnsent({c}) = IF Unsent(c) THEN {c} ELSE {}
  BY DEF StillUnsent

-----------------------------------------------------------------------------
(* The scan.                                                               *)

LEMMA EventsTyped == ASSUME NEW k PROVE ReportedEvents(k) \subseteq Event
  BY DEF ReportedEvents, SocketEvents, Event

LEMMA FDRevents ==
    ASSUME FDInv, Poll \/ ScanDone PROVE FDInv' /\ PipesKept
  <1>1. \E rev \in [Used(poll) -> SUBSET Event] : poll' = SetRevents(poll, rev)
    <2>1. CASE Poll
      <3>1. [k \in Used(poll) |-> ReportedEvents(k)] \in [Used(poll) -> SUBSET Event]
        BY EventsTyped
      <3> QED BY <2>1, <3>1, Zenon DEF Poll
    <2>2. CASE ScanDone
      <3>1. [k \in Used(poll) |-> {}] \in [Used(poll) -> SUBSET Event]
        OBVIOUS
      <3> QED BY <2>2, <3>1, Zenon DEF ScanDone
    <2> QED BY <2>1, <2>2
  <1>2. UNCHANGED <<clients, workers, open>>
    BY DEF Poll, ScanDone
  <1>3. poll \in Table /\ Distinct(poll) /\ ClientFDs \subseteq Polled(poll)
    BY SoundDistinct DEF FDInv, PollTableSound
  <1>4. /\ poll' \in Table /\ Distinct(poll')
        /\ Polled(poll') = Polled(poll) /\ Armed(poll') = Armed(poll)
    BY <1>1, <1>3, SetReventsLemma
  <1>5. KeepClients /\ KeepWorkers /\ KeepPending /\ SameWorkers
    BY <1>2, SameUnchanged DEF KeepClients, KeepWorkers, KeepPending
  <1>6. WritePollArmed'
    BY <1>4, <1>5, ArmedKeep DEF FDInv
  <1>7. FDInv'
    BY <1>2, <1>3, <1>4, <1>5, <1>6, FDKeep
  <1> QED BY <1>4, <1>5, <1>7, PipesSame

LEMMA FDQuiet ==
    ASSUME FDInv, \/ AcceptNoClient \/ AcceptError \/ Signal \/ Timer \/ ReapDone \/ TimerDone
    PROVE  FDInv' /\ PipesKept
  <1>1. UNCHANGED <<clients, workers, poll>> /\ open \subseteq open'
    BY DEF AcceptNoClient, AcceptError, Signal, Timer, ReapDone, TimerDone
  <1>2. KeepClients /\ KeepPending /\ SameWorkers
    BY <1>1, SameUnchanged DEF KeepClients, KeepPending
  <1> QED BY <1>1, <1>2, StepSame

LEMMA FDAccepted ==
    ASSUME Core, FDInv, Accept PROVE FDInv' /\ PipesKept
  <1>1. FDInv' /\ Polled(poll) \subseteq Polled(poll')
    BY FDAccept
  <1>2. SameWorkers
    BY SameUnchanged DEF Accept
  <1> QED BY <1>1, <1>2, PipesSame

-----------------------------------------------------------------------------
(* waitpid and the timer.                                                  *)

LEMMA FDReap ==
    ASSUME Core, FDInv, NEW p \in Pid, ReapEnded(p) \/ ReapFailed(p) \/ ReapUnknown(p)
    PROVE  FDInv' /\ PipesKept
  <1>1. CASE ReapEnded(p) \/ ReapFailed(p)
    <2>1. PICK w \in LiveWorkers, S \in SUBSET LiveClients :
             FreeWorker(w, SentTo(S), WritePoll(poll, S, StillUnsent(S)))
      <3>1. CASE ReapEnded(p)
        BY <3>1, FirstIn DEF ReapEnded, WorkersByPID, Attached
      <3>2. CASE ReapFailed(p)
        BY <3>2, FirstIn DEF ReapFailed, WorkersByPID, Receiver, Attached
      <3> QED BY <1>1, <3>1, <3>2
    <2>2. StillUnsent(S) \in SUBSET S
      BY DEF StillUnsent
    <2>3. /\ SentTo(S) \in ClientTable
          /\ \A c \in ClientSlot :
               /\ SentTo(S)[c] = NULL <=> clients[c] = NULL
               /\ clients[c] # NULL => /\ SentTo(S)[c].worker = clients[c].worker
                                       /\ SentTo(S)[c].fd = clients[c].fd
                                       /\ SentTo(S)[c].pendingOutput =
                                             IF c \in S THEN Unsent(c) ELSE clients[c].pendingOutput
      BY SentToTyped DEF Core
    <2>4. \A c \in S : (c \in StillUnsent(S)) = Unsent(c)
      <3> TAKE c \in S
      <3> DEFINE x == c \in StillUnsent(S)
                 y == Unsent(c)
      <3>1. x \in BOOLEAN /\ y \in BOOLEAN /\ (x <=> y)
        BY UnsentTyped DEF LiveClients, StillUnsent
      <3> HIDE DEF x, y
      <3>2. x = y
        BY <3>1
      <3> QED BY <3>2 DEF x, y
    <2>5. \A c \in ClientSlot :
               /\ SentTo(S)[c] = NULL <=> clients[c] = NULL
               /\ clients[c] # NULL =>
                     /\ SentTo(S)[c].worker = clients[c].worker
                     /\ SentTo(S)[c].fd = clients[c].fd
                     /\ SentTo(S)[c].pendingOutput =
                          IF c \in S THEN c \in StillUnsent(S) ELSE clients[c].pendingOutput
      BY <2>3, <2>4
    <2>7. FDInv' /\ Polled(poll') = Polled(poll) \ {workers[w].out, workers[w].err}
      <3>1. Told(SentTo(S), S, StillUnsent(S))
        BY <2>5 DEF Told
      <3> QED BY <2>1, <2>2, <2>3, <3>1, FDFree
    <2>8. GoneWorker(w)
      BY <2>1, FreeGone
    <2> QED BY <2>7, <2>8, StepFree
  <1>2. CASE ReapUnknown(p)
    BY <1>2, StepSame, SameUnchanged DEF ReapUnknown, serverVars, KeepClients, KeepPending
  <1> QED BY <1>1, <1>2

LEMMA FDTimeout ==
    ASSUME Core, FDInv, TimeoutWorker PROVE FDInv' /\ PipesKept
  <1>1. PICK w \in LiveWorkers : workers' = EndedWorker(w, TRUE)
    BY FirstIn DEF TimeoutWorker, Inactive
  <1>2. SameWorkers
    BY <1>1, EndedSame
  <1>3. KeepClients /\ KeepPending
    BY DEF TimeoutWorker, KeepClients, KeepPending
  <1> QED BY <1>2, <1>3, StepSame DEF TimeoutWorker

-----------------------------------------------------------------------------
(* A client socket.                                                        *)

LEMMA FDHangup ==
    ASSUME Core, FDInv, NEW k \in PollIndex, ClientHangup(k) PROVE FDInv' /\ PipesKept
  <1>1. PICK c \in LiveClients : CloseClient(c)
    BY FirstIn DEF ClientHangup, ClientAt
  <1>2. UNCHANGED workers
    BY DEF ClientHangup
  <1> QED BY <1>1, <1>2, StepClose DEF CloseClient

LEMMA FDReady ==
    ASSUME Core, FDInv, NEW k \in PollIndex, ClientReady(k) PROVE FDInv' /\ PipesKept
  <1> DEFINE in == "IN" \in Revents(k)
             out == "OUT" \in Revents(k)
             pending(c) == clients[c].pendingOutput /\ (out => Unsent(c))
  <1>1. PICK c \in LiveClients :
          /\ clients' = [clients EXCEPT
                          ![c].pendingOutput = pending(c),
                          ![c].pendingInput = IF in THEN @ \o sock[c].in ELSE @]
          /\ poll' = IF out THEN WritePoll(poll, {c}, IF pending(c) THEN {c} ELSE {}) ELSE poll
    <2>1. PICK c \in ClientAt(k) :
          /\ clients' = [clients EXCEPT
                          ![c].pendingOutput = pending(c),
                          ![c].pendingInput = IF in THEN @ \o sock[c].in ELSE @]
          /\ poll' = IF out THEN WritePoll(poll, {c}, IF pending(c) THEN {c} ELSE {}) ELSE poll
      BY DEF ClientReady
    <2>2. c \in LiveClients
      BY FirstIn DEF ClientAt
    <2> QED BY <2>1, <2>2
  <1>2. UNCHANGED <<workers, open>>
    BY DEF ClientReady
  <1>3. c \in ClientSlot /\ clients[c] \in Client /\ sock[c] \in Sock /\ Unsent(c) \in BOOLEAN
    BY Live, UnsentTyped DEF Core, CoreType
  <1> DEFINE q == IF in THEN clients[c].pendingInput \o sock[c].in ELSE clients[c].pendingInput
             b == pending(c)
  <1>4. q \in Seq(Line)
    <2>1. clients[c].pendingInput \in Seq(Line) /\ sock[c].in \in Seq(Line)
      BY <1>3 DEF Client, Sock
    <2>2. clients[c].pendingInput \o sock[c].in \in Seq(Line)
      BY <2>1
    <2> QED BY <2>1, <2>2
  <1>5. clients' = [clients EXCEPT ![c].pendingOutput = b, ![c].pendingInput = q]
    BY <1>1, <1>3 DEF Core, CoreType, ClientTable, Client
  <1>6. b \in BOOLEAN /\ (~out => b = clients[c].pendingOutput)
    BY <1>3 DEF Client
  <1>7. poll' = IF out THEN WritePoll(poll, {c}, IF b THEN {c} ELSE {}) ELSE poll
    BY <1>1
  <1> HIDE DEF q, b
  <1>8. /\ LiveClients' = LiveClients
        /\ \A d \in LiveClients :
             /\ clients'[d].fd = clients[d].fd
             /\ clients'[d].pendingOutput = IF d = c THEN b ELSE clients[d].pendingOutput
    BY <1>3, <1>4, <1>5, <1>6, ClientUpdate DEF Core
  <1>9. KeepClients /\ SameWorkers
    BY <1>2, <1>8, ClientsKeep, SameUnchanged
  <1>10. CASE out
    BY <1>2, <1>6, <1>7, <1>8, <1>9, <1>10, StepSendOne
  <1>11. CASE ~out
    <2>1. KeepPending
      BY <1>6, <1>8, <1>11 DEF KeepPending
    <2> QED BY <1>2, <1>7, <1>9, <1>11, <2>1, StepSame
  <1> QED BY <1>10, <1>11

-----------------------------------------------------------------------------
(* A worker's pipe.                                                        *)

LEMMA FDPipeNoClient ==
    ASSUME Core, FDInv, NEW k \in PollIndex, PipeNoClient(k) PROVE FDInv' /\ PipesKept
  <1>1. PICK w \in LiveWorkers : FreeWorker(w, clients, poll)
    BY FirstIn DEF PipeNoClient, WorkerAt
  <1>2. GoneWorker(w)
    BY <1>1, FreeGone
  <1>3. FDInv' /\ Polled(poll') = Polled(poll) \ {workers[w].out, workers[w].err}
    BY <1>1, FDFreeQuiet
  <1> QED BY <1>2, <1>3, StepFree

LEMMA FDPipeRead ==
    ASSUME Core, FDInv, NEW k \in PollIndex, PipeRead(k) PROVE FDInv' /\ PipesKept
  <1>1. PICK w \in LiveWorkers, c \in LiveClients, on \in BOOLEAN :
            /\ workers' = [workers EXCEPT ![w].idle = FALSE]
            /\ clients' = [clients EXCEPT ![c].pendingOutput = on]
            /\ \E t \in {IF Running(workers[w].pid) THEN poll ELSE UnsetPipes(poll, w)} :
                 poll' = WritePoll(t, {c}, IF on THEN {c} ELSE {})
    <2> DEFINE Data(w, isOut) == workers[w].pid \in Pid /\ (IF isOut THEN procs[workers[w].pid].out
                                                             ELSE procs[workers[w].pid].err) > 0
               On(w, c) == (Data(w, poll.e[k].fd = workers[w].out)
                               \/ clients[c].pendingOutput) /\ Unsent(c)
    <2>1. PICK w \in First(WorkerAt(k)) : \E c \in Receiver(w) :
            /\ workers' = [workers EXCEPT ![w].idle = FALSE]
            /\ clients' = [clients EXCEPT ![c].pendingOutput = On(w, c)]
            /\ \E t \in {IF Running(workers[w].pid) THEN poll ELSE UnsetPipes(poll, w)} :
                 poll' = WritePoll(t, {c}, IF On(w, c) THEN {c} ELSE {})
      BY DEF PipeRead
    <2>2. PICK c \in Receiver(w) :
            /\ workers' = [workers EXCEPT ![w].idle = FALSE]
            /\ clients' = [clients EXCEPT ![c].pendingOutput = On(w, c)]
            /\ \E t \in {IF Running(workers[w].pid) THEN poll ELSE UnsetPipes(poll, w)} :
                 poll' = WritePoll(t, {c}, IF On(w, c) THEN {c} ELSE {})
      BY <2>1
    <2>3. w \in LiveWorkers /\ c \in LiveClients
      BY FirstIn DEF WorkerAt, Receiver, Attached
    <2>4. On(w, c) \in BOOLEAN
      OBVIOUS
    <2> HIDE DEF On
    <2> QED BY <2>2, <2>3, <2>4, Zenon
  <1>2. c \in ClientSlot /\ clients[c] \in Client /\ clients \in ClientTable /\ workers \in WorkerTable
    BY Live DEF Core, CoreType
  <1>3. /\ LiveClients' = LiveClients
        /\ \A d \in LiveClients :
             /\ clients'[d].fd = clients[d].fd
             /\ clients'[d].pendingOutput = IF d = c THEN on ELSE clients[d].pendingOutput
    BY <1>1, <1>2, Nulls DEF ClientTable, Client, LiveClients
  <1>4. SameWorkers
    BY <1>1, <1>2, Nulls DEF SameWorkers, LiveWorkers, WorkerTable, Worker
  <1>5. KeepClients /\ open' = open
    BY <1>3, ClientsKeep DEF PipeRead
  <1>6. CASE Running(workers[w].pid)
    <2>1. poll' = WritePoll(poll, {c}, IF on THEN {c} ELSE {})
      BY <1>1, <1>6
    <2> QED BY <1>3, <1>4, <1>5, <2>1, StepSendOne
  <1>7. CASE ~Running(workers[w].pid)
    <2> DEFINE t == UnsetPipes(poll, w)
               S == {c}
               P == IF on THEN {c} ELSE {}
    <2>1. poll' = WritePoll(t, S, P)
      BY <1>1, <1>7
    <2>2. poll \in Table /\ Distinct(poll) /\ ClientFDs \subseteq Polled(poll)
      BY SoundDistinct DEF FDInv, PollTableSound
    <2>3. /\ t \in Table /\ Distinct(t)
          /\ Polled(t) = Polled(poll) \ {workers[w].out, workers[w].err}
          /\ Armed(t) = Armed(poll) \ {workers[w].out, workers[w].err}
      BY <2>2, UnsetPipesLemma
    <2>4. Armed(t) = Armed(poll) /\ ClientFDs \subseteq Polled(t)
      BY <2>2, <2>3, PipesApart DEF WorkerFDs
    <2>5. S \in SUBSET LiveClients /\ P \in SUBSET S
      OBVIOUS
    <2>6. \A d \in LiveClients : clients'[d].pendingOutput =
                IF d \in S THEN d \in P ELSE clients[d].pendingOutput
      BY <1>3
    <2> HIDE DEF t, S, P
    <2>7. KeepWorkers
      BY <1>4, SameKeep
    <2>8. FDInv' /\ Polled(poll') = Polled(t)
      BY <1>5, <2>1, <2>3, <2>4, <2>5, <2>6, <2>7, FDSend
    <2>9. \A v \in LiveWorkers : v # w => WorkerFDs(v) \cap WorkerFDs(w) = {}
      BY PipesApart
    <2>10. PipesKept
      <3>1. ASSUME NEW v \in LiveWorkers, v # w, PipesPolled(v) PROVE PipesPolled(v)'
        <4>1. {workers[v].out, workers[v].err} \subseteq Polled(poll) \ WorkerFDs(w)
          BY <2>9, <3>1 DEF PipesPolled, WorkerFDs
        <4>2. workers'[v].out = workers[v].out /\ workers'[v].err = workers[v].err
          BY <1>4 DEF SameWorkers
        <4>3. Polled(poll') = Polled(poll) \ {workers[w].out, workers[w].err}
          BY <2>3, <2>8
        <4> QED BY <4>1, <4>2, <4>3 DEF PipesPolled, WorkerFDs
      <3> QED BY <1>4, <1>7, <3>1 DEF SameWorkers, PipesKept
    <2> QED BY <2>8, <2>10
  <1> QED BY <1>6, <1>7

-----------------------------------------------------------------------------
(* The loop over the input.                                                *)

LEMMA FDLeave ==
    ASSUME Core, FDInv, pc = "input", UNCHANGED workers, LeaveLoop(TRUE) \/ LeaveLoop(FALSE)
    PROVE  FDInv' /\ PipesKept
  <1>1. CASE LeaveLoop(TRUE)
    <2>1. cur \in LiveClients
      BY CurLive
    <2> QED BY <1>1, <2>1, StepClose DEF LeaveLoop, CloseClient
  <1>2. CASE LeaveLoop(FALSE)
    <2>1. UNCHANGED <<clients, poll, open>>
      BY <1>2 DEF LeaveLoop
    <2>2. KeepClients /\ KeepPending /\ SameWorkers
      BY <2>1, SameUnchanged DEF KeepClients, KeepPending
    <2> QED BY <2>1, <2>2, StepSame
  <1> QED BY <1>1, <1>2

LEMMA FDLeaveSteps ==
    ASSUME Core, FDInv, InputDone \/ CommandTooLong \/ InvalidCommand \/ StartNoWorker \/ StartNoPipes
    PROVE  FDInv' /\ PipesKept
  <1>1. pc = "input" /\ UNCHANGED workers
    BY DEF InputDone, CommandTooLong, InvalidCommand, StartNoWorker, StartNoPipes, Unattached,
           InSession, InLoop
  <1>2. CASE InputDone
    <2>1. closing \in BOOLEAN
      BY DEF Core, CoreType
    <2> QED BY <1>1, <1>2, <2>1, FDLeave DEF InputDone
  <1>3. CASE CommandTooLong \/ InvalidCommand \/ StartNoWorker
    BY <1>1, <1>3, FDLeave DEF CommandTooLong, InvalidCommand, StartNoWorker
  <1>4. CASE StartNoPipes
    <2>1. /\ clients' = [clients EXCEPT ![cur] = NULL]
          /\ poll' = UnsetPollFD(poll, clients[cur].fd)
          /\ open \ {clients[cur].fd} \subseteq open'
      BY <1>4 DEF StartNoPipes
    <2>2. cur \in LiveClients
      BY <1>1, CurLive
    <2> QED BY <1>1, <2>1, <2>2, StepClose
  <1> QED BY <1>2, <1>3, <1>4

LEMMA FDStarted ==
    ASSUME Core, FDInv, StartSession PROVE FDInv' /\ PipesKept
  <1>1. /\ FDInv'
        /\ \A v \in LiveWorkers' : v \notin LiveWorkers =>
              {workers'[v].out, workers'[v].err} \subseteq Polled(poll')
        /\ Polled(poll) \subseteq Polled(poll')
    BY FDStart
  <1>2. \A v \in LiveWorkers : workers'[v] = workers[v]
    BY StartWorkers DEF Started
  <1>3. PipesKept
    BY <1>1, <1>2 DEF PipesKept, PipesPolled
  <1> QED BY <1>1, <1>3

LEMMA FDSession ==
    ASSUME Core, FDInv, Attach \/ End \/ Send \/ Receive \/ Status
    PROVE  FDInv' /\ PipesKept
  <1>1. /\ pc = "input" /\ cur \in LiveClients /\ LiveClients' = LiveClients
        /\ \A d \in LiveClients :
             /\ clients'[d].fd = clients[d].fd
             /\ d # cur \/ ~Status => clients'[d].pendingOutput = clients[d].pendingOutput
        /\ Status => clients'[cur].pendingOutput = Unsent(cur)
    BY CurEffect
  <1>2. open' = open
    BY DEF Attach, End, Send, Receive, Status
  <1>3. KeepClients
    BY <1>1, ClientsKeep
  <1>4. SameWorkers
    <2>1. CASE Attach
      <3>1. PICK w \in LiveWorkers : workers' = [workers EXCEPT ![w].rcvdCmd = FALSE]
        BY <2>1, FirstIn DEF Attach, SessionWorker
      <3> QED BY <3>1, ModeSame
    <2>2. CASE End \/ Send
      <3>1. CurWorker \in LiveWorkers
        <4>1. CurWorker # 0
          BY <2>2 DEF End, Send, InSession
        <4> QED BY <1>1, <4>1, CurLive
      <3> QED BY <2>2, <3>1, EndedSame, ModeSame DEF End, Send
    <2>3. CASE Receive \/ Status
      BY <2>3, QuietSame
    <2> QED BY <2>1, <2>2, <2>3
  <1>5. CASE Status
    <2>1. poll' = WritePoll(poll, {cur}, IF Unsent(cur) THEN {cur} ELSE {})
      BY <1>5, StillOne DEF Status
    <2>2. Unsent(cur) \in BOOLEAN
      BY <1>1, UnsentTyped DEF LiveClients
    <2>3. \A d \in LiveClients : clients'[d].pendingOutput =
                IF d = cur THEN Unsent(cur) ELSE clients[d].pendingOutput
      BY <1>1, <1>5
    <2> QED BY <1>1, <1>2, <1>3, <1>4, <2>1, <2>2, <2>3, StepSendOne
  <1>6. CASE ~Status
    <2>1. poll' = poll
      BY <1>6 DEF Attach, End, Send, Receive
    <2>2. KeepPending
      BY <1>1, <1>6 DEF KeepPending
    <2> QED BY <1>2, <1>3, <1>4, <2>1, <2>2, StepSame
  <1> QED BY <1>5, <1>6

LEMMA FDUnknown ==
    ASSUME Core, FDInv, AttachUnknown PROVE FDInv' /\ PipesKept
  <1>1. pc = "input" /\ UNCHANGED workers
    BY DEF AttachUnknown, Unattached, InLoop
  <1>2. cur \in LiveClients /\ cur \in ClientSlot /\ clients \in ClientTable
    BY <1>1, CurLive DEF Core, CoreType
  <1>3. CASE closing
    BY <1>1, <1>2, <1>3, StepClose DEF AttachUnknown, CloseClient
  <1>4. CASE ~closing
    <2> DEFINE q == <<[cmd |-> "STUCK", id |-> Input[1].id]>> \o Rest
    <2>1. clients' = [clients EXCEPT ![cur].pendingInput = q] /\ UNCHANGED <<poll, open>>
      BY <1>4 DEF AttachUnknown
    <2>3. Input \in Seq(Line) /\ Rest \in Seq(Line) /\ Input # <<>>
      BY <1>1, CurLive DEF AttachUnknown, Unattached, InLoop
    <2>4. Input[1] \in Line
      BY <2>3
    <2>5. q \in Seq(Line)
      BY <2>3, <2>4 DEF Line, Command
    <2> HIDE DEF q
    <2>2. KeepClients /\ KeepPending
      BY <1>2, <2>1, <2>5, Nulls DEF KeepClients, KeepPending, LiveClients, ClientTable, Client
    <2> QED BY <1>1, <2>1, <2>2, SameUnchanged, StepSame
  <1> QED BY <1>3, <1>4

LEMMA FDWrite ==
    ASSUME Core, FDInv, WriteInput PROVE FDInv' /\ PipesKept
  <1>1. PICK ack \in BOOLEAN :
          /\ \A d \in LiveClients :
               clients'[d].pendingOutput =
                  IF d = cur /\ ack THEN Unsent(d) ELSE clients[d].pendingOutput
          /\ poll' = IF ack THEN WritePoll(poll, {cur}, StillUnsent({cur})) ELSE poll
    BY WriteEffect, Zenon
  <1>2. /\ cur \in LiveClients /\ LiveClients' = LiveClients
        /\ \A d \in LiveClients : clients'[d].fd = clients[d].fd
    BY WriteEffect
  <1>3. UNCHANGED <<workers, open>>
    BY DEF WriteInput
  <1>4. KeepClients /\ SameWorkers
    BY <1>2, <1>3, ClientsKeep, SameUnchanged
  <1>5. CASE ack
    <2>1. poll' = WritePoll(poll, {cur}, IF Unsent(cur) THEN {cur} ELSE {})
      BY <1>1, <1>5, StillOne
    <2>2. Unsent(cur) \in BOOLEAN
      BY <1>2, UnsentTyped DEF LiveClients
    <2>3. \A d \in LiveClients : clients'[d].pendingOutput =
                IF d = cur THEN Unsent(cur) ELSE clients[d].pendingOutput
      BY <1>1, <1>5
    <2> QED BY <1>2, <1>3, <1>4, <2>1, <2>2, <2>3, StepSendOne
  <1>6. CASE ~ack
    <2>1. poll' = poll /\ KeepPending
      BY <1>1, <1>6 DEF KeepPending
    <2> QED BY <1>3, <1>4, <2>1, StepSame
  <1> QED BY <1>5, <1>6

-----------------------------------------------------------------------------
(* The surroundings, and all steps.                                        *)

LEMMA FDEnvironment ==
    ASSUME Core, FDInv, Environment PROVE FDInv' /\ PipesKept
  <1>1. UNCHANGED <<clients, poll, open>>
    BY EvalQuiet DEF Environment, Connect, PeerSend, PeerClose, PeerReset, PeerStall, ProcPrompt,
                     ProcExit, Elapse, serverVars
  <1>2. SameWorkers
    <2>1. ASSUME NEW w \in WorkerSlot, Elapse(w) PROVE SameWorkers
      <3>1. workers \in WorkerTable /\ workers' = [workers EXCEPT ![w].idle = TRUE] /\ w \in LiveWorkers
        BY <2>1 DEF Elapse, Core, CoreType
      <3> QED BY <3>1, Nulls DEF SameWorkers, LiveWorkers, WorkerTable, Worker
    <2> QED BY <2>1, PeersSame, ProcsSame DEF Environment
  <1>3. KeepClients /\ KeepPending
    BY <1>1 DEF KeepClients, KeepPending
  <1> QED BY <1>1, <1>2, <1>3, StepSame

LEMMA FDNext ==
    ASSUME Core, FDInv, [Next]_vars PROVE FDInv' /\ PipesKept
  <1>1. CASE Scan
    BY <1>1, FDRevents, FDQuiet, FDAccepted, FDHangup, FDReady, FDPipeNoClient, FDPipeRead DEF Scan
  <1>2. CASE Reap
    BY <1>2, FDQuiet, FDReap DEF Reap
  <1>3. CASE Expire
    BY <1>3, FDQuiet, FDTimeout DEF Expire
  <1>4. CASE Interpret
    BY <1>4, FDLeaveSteps, FDStarted, FDSession, FDUnknown, FDWrite DEF Interpret
  <1>5. CASE Environment
    BY <1>5, FDEnvironment
  <1>6. CASE UNCHANGED vars
    <2>1. UNCHANGED <<clients, workers, poll, open>>
      BY <1>6 DEF vars, serverVars
    <2>2. KeepClients /\ KeepPending /\ SameWorkers
      BY <2>1, SameUnchanged DEF KeepClients, KeepPending
    <2> QED BY <2>1, <2>2, StepSame
  <1> QED BY <1>1, <1>2, <1>3, <1>4, <1>5, <1>6 DEF Next, Server

LEMMA FDInit == Init => FDInv
  <1> SUFFICES ASSUME Init PROVE FDInv
    OBVIOUS
  <1>1. LiveClients = {} /\ LiveWorkers = {}
    BY DEF Init, LiveClients, LiveWorkers
  <1>2. EmptyTable \in Table /\ Used(EmptyTable) = {}
    BY CapacityNat DEF EmptyTable, Table, Used, NoEntry, Entry, PollIndex
  <1>3. Polled(poll) = {} /\ Armed(poll) = {}
    BY <1>2 DEF Init, Polled, Armed
  <1>4. OwnedOpen /\ FDsOwnedOnce
    BY <1>1 DEF OwnedOpen, FDsOwnedOnce
  <1>5. PollTableSound
    BY <1>1, <1>2, <1>3 DEF PollTableSound, ClientFDs, Init
  <1>6. WritePollArmed
    BY <1>1, <1>3 DEF WritePollArmed
  <1> QED BY <1>2, <1>4, <1>5, <1>6 DEF FDInv, Init

\* What the handlers rely on: a polled descriptor is polled once and belongs to
\* one client or worker in the tables, whatever numbers the kernel reuses, and
\* POLLOUT is asked for exactly the clients with pending output.
THEOREM DescriptorsOwned == Spec => [](PollTableSound /\ FDsOwnedOnce /\ WritePollArmed)
  <1>1. Core /\ FDInv /\ [Next]_vars => FDInv'
    BY FDNext
  <1>2. FDInv => PollTableSound /\ FDsOwnedOnce /\ WritePollArmed
    BY DEF FDInv
  <1> QED BY CoreInvariant, FDInit, <1>1, <1>2, PTL DEF Spec

-----------------------------------------------------------------------------
(* Running workers are polled.                                             *)

LEMMA PolledNext ==
    ASSUME Core, PidOwned, PipesKept, RunningWorkerPolled, [Next]_vars
    PROVE  RunningWorkerPolled'
  <1>1. SUFFICES ASSUME NEW v \in LiveWorkers', Running(workers[v].pid)',
                        v \in LiveWorkers, workers'[v].pid = workers[v].pid,
                        ~PipesPolled(v) \/ ~Running(workers[v].pid)
                 PROVE  FALSE
    BY DEF PipesKept, PipesPolled, RunningWorkerPolled
  <1> DEFINE p == workers[v].pid
  <1>2. ~Running(p)
    BY <1>1 DEF RunningWorkerPolled, PipesPolled
  <1>3. p \in Pid /\ procs'[p].st = "running"
    BY <1>1 DEF Running
  <1>4. procs[p].st \notin {"none", "running"}
    <2>1. p # NoPid
      BY <1>3, NoPidNotPid
    <2> QED BY <1>1, <1>2, <1>3, <2>1 DEF PidOwned, Running
  <1> HIDE DEF p
  <1>5. ~SameProcs
    BY <1>3, <1>4 DEF SameProcs
  <1>6. ASSUME NEW q \in Pid, procs' = Reaped(q) PROVE FALSE
    <2>1. CASE q = p
      BY <1>3, <1>6, <2>1 DEF Reaped, NoProc
    <2>2. CASE q # p
      <3>1. procs'[p].st = procs[p].st
        BY <1>3, <1>6, <2>2, ReapedProcs
      <3> QED BY <1>3, <1>4, <3>1
    <2> QED BY <2>1, <2>2
  <1>7. CASE StartSession
    <2>0. PICK w \in WorkerSlot \ LiveWorkers, fin \in NextFD(1), fout \in NextFD(2), ferr \in NextFD(4) :
             Started(w, fin, fout, ferr)
      BY <1>7, StartWorkers, Zenon
    <2>1. /\ workers'[w].pid \in FreePids \cup {NoPid}
          /\ \A q \in Pid : q # workers'[w].pid => procs'[q] = procs[q]
      BY <2>0, Zenon DEF Started
    <2>2. p # workers'[w].pid
      BY <1>3, <1>4, <2>1, NoPidNotPid DEF FreePids
    <2> QED BY <1>3, <1>4, <2>1, <2>2
  <1>8. \/ SameProcs \/ StartSession
        \/ \E q \in Pid : procs' = Reaped(q)
    BY WorkerSteps
  <1> QED BY <1>5, <1>6, <1>7, <1>8

\* A process that runs for a session can always be heard: neither end of file,
\* nor a place that is moved, nor a client that is closed ever unsets its pipes.
THEOREM RunningHeard == Spec => []RunningWorkerPolled
  <1>1. Init => RunningWorkerPolled
    BY DEF Init, RunningWorkerPolled, LiveWorkers
  <1>2. Core /\ FDInv /\ SessionIdsDiffer /\ PidOwned /\ RunningWorkerPolled /\ [Next]_vars
          => FDInv' /\ RunningWorkerPolled'
    BY FDNext, PolledNext
  <1> QED BY CoreInvariant, SessionsKnown, FDInit, <1>1, <1>2, PTL DEF Spec

-----------------------------------------------------------------------------
(* The types.                                                              *)

LEMMA IndexNext ==
    ASSUME FDInv, i \in 0 .. Capacity, [Next]_vars PROVE i' \in 0 .. Capacity
  <1>1. NBase = 3 /\ Capacity \in Nat /\ 3 < Capacity /\ PollIndex \subseteq 0 .. Capacity
    BY CapacityNat DEF NBase, PollIndex
  <1>2. poll.n \in 0 .. Capacity
    BY <1>1 DEF FDInv, Table
  <1>3. CASE Scan
    <2>1. ASSUME Poll \/ ScanDone \/ Accept \/ AcceptNoClient \/ AcceptError \/ Signal \/ Timer
          PROVE  i' \in {0, 1, 2, poll.n}
      BY <2>1 DEF Poll, ScanDone, Accept, AcceptNoClient, AcceptError, Signal, Timer
    <2>2. ASSUME NEW k \in PollIndex,
                 ClientHangup(k) \/ ClientReady(k) \/ PipeNoClient(k) \/ PipeRead(k)
          PROVE  i' \in PollIndex
      BY <2>2 DEF ClientHangup, ClientReady, PipeNoClient, PipeRead
    <2>3. i' \in {0, 1, 2, poll.n} \cup PollIndex
      BY <1>3, <2>1, <2>2 DEF Scan
    <2>4. {0, 1, 2} \subseteq 0 .. Capacity
      BY <1>1
    <2> QED BY <1>1, <1>2, <2>3, <2>4
  <1>4. ASSUME Reap \/ Expire \/ Environment \/ UNCHANGED vars PROVE i' = i
    BY <1>4, EvalQuiet DEF Reap, ReapDone, ReapEnded, ReapFailed, ReapUnknown, Expire,
          TimeoutWorker, TimerDone, Environment, Connect, PeerSend, PeerClose, PeerReset, PeerStall,
          ProcPrompt, ProcExit, Elapse, serverVars, vars
  <1>5. ASSUME Interpret PROVE i' = i
    <2>1. CASE InputDone \/ CommandTooLong \/ InvalidCommand \/ StartNoWorker \/ StartNoPipes
               \/ AttachUnknown
      BY <2>1 DEF InputDone, CommandTooLong, InvalidCommand, StartNoWorker, StartNoPipes, AttachUnknown
    <2>2. CASE StartSession \/ Attach \/ End \/ Send \/ Receive \/ Status \/ WriteInput
      BY <2>2 DEF StartSession, Attach, End, Send, Receive, Status, WriteInput
    <2> QED BY <1>5, <2>1, <2>2 DEF Interpret
  <1> QED BY <1>3, <1>4, <1>5 DEF Next, Server

\* Every variable keeps its type.  In particular the poll array never overflows,
\* although no line of the code compares _nPollFDs with its length.
THEOREM Types == Spec => []TypeOK
  <1>1. Init => i \in 0 .. Capacity
    BY CapacityNat DEF Init
  <1>2. FDInv /\ i \in 0 .. Capacity /\ [Next]_vars => (i \in 0 .. Capacity)'
    BY IndexNext
  <1>3. Core /\ FDInv /\ [Next]_vars => FDInv'
    BY FDNext
  <1>4. Core /\ FDInv /\ i \in 0 .. Capacity => TypeOK
    BY DEF Core, CoreType, FDInv, Table, ClientTable, WorkerTable, TypeOK
  <1> QED BY CoreInvariant, FDInit, <1>1, <1>2, <1>3, <1>4, PTL DEF Spec
==============================================================================
