------------------------------ MODULE PollTable ------------------------------
(***************************************************************************)
(* The pollfd array of the session server isss (SocketServer::_pollFDs and *)
(* _nPollFDs, source/app/ivory/isss/server.cpp) and the four operations    *)
(* the server performs on it.                                              *)
(*                                                                         *)
(* A table is a record: n is _nPollFDs and e the array.  The first NBase   *)
(* places (listening socket, signalfd, timerfd) are filled once by init    *)
(* and never move, so e describes the places from NBase on.  A place has   *)
(* the descriptor, whether POLLOUT is among its events (POLLIN always is)  *)
(* and the revents of the last ::poll.                                     *)
(***************************************************************************)
EXTENDS Integers

CONSTANTS
    MaxClients,  \* the maxClients option: size of the client table
    MaxWorkers,  \* the maxWorkers option: size of the worker table
    FD           \* the descriptors the process limit leaves the server

ASSUME SizeAssumption == /\ MaxClients \in Nat \ {0}
                         /\ MaxWorkers \in Nat \ {0}

ASSUME FDAssumption == FD \subseteq Nat

NBase == 3                                      \* N_BASE_FDS

NoFD == -1

\* The length the constructor gives the array.
Capacity == NBase + MaxClients + 2 * MaxWorkers

PollIndex == NBase .. (Capacity - 1)

Event == {"IN", "OUT", "HUP"}

Entry == [fd : FD \cup {NoFD}, out : BOOLEAN, rev : SUBSET Event]

\* What memset in the constructor and unsetPollFD leave in an unused place.
NoEntry == [fd |-> NoFD, out |-> FALSE, rev |-> {}]

EmptyTable == [n |-> NBase, e |-> [k \in PollIndex |-> NoEntry]]

\* The places in use.
Used(t) == {k \in PollIndex : k < t.n}

Polled(t) == {t.e[k].fd : k \in Used(t)}

\* The descriptors polled for POLLOUT too.
Armed(t) == {t.e[k].fd : k \in {j \in Used(t) : t.e[j].out}}

\* The place a linear search for fd stops at: a set of at most one index.
Place(t, fd) ==
    {k \in Used(t) : t.e[k].fd = fd /\ \A j \in Used(t) : j < k => t.e[j].fd # fd}

\* _pollFDs[_nPollFDs].fd = fd; events = POLLIN; _nPollFDs++.  The revents
\* of the place are the zero that memset or unsetPollFD left there.
AddPollFD(t, fd) ==
    [n |-> t.n + 1,
     e |-> [t.e EXCEPT ![t.n] = [@ EXCEPT !.fd = fd, !.out = FALSE]]]

\* Mutants: the place is cleared but _nPollFDs stays; the last place is dropped
\* and not copied.
ClearPollFD(t, fd) ==
    [t EXCEPT !.e = [k \in PollIndex |-> IF k \in Place(t, fd) THEN NoEntry ELSE t.e[k]]]
DropLastPollFD(t, fd) ==
    IF Place(t, fd) = {} THEN t
    ELSE [n |-> t.n - 1, e |-> [t.e EXCEPT ![t.n - 1] = NoEntry]]

\* unsetPollFD: the last place is copied over the freed one, revents included,
\* so an entry that was already visited may move below the loop's index.
UnsetPollFD(t, fd) ==
    IF Place(t, fd) = {} THEN t
    ELSE LET k == CHOOSE j \in Place(t, fd) : TRUE IN
         [n |-> t.n - 1,
          e |-> [t.e EXCEPT ![k] = t.e[t.n - 1], ![t.n - 1] = NoEntry]]

\* enableClientWritePoll for the descriptors of S that are in on,
\* disableClientWritePoll for the rest of S.
SetWritePoll(t, S, on) ==
    [n |-> t.n,
     e |-> [k \in PollIndex |->
              IF \E fd \in S : k \in Place(t, fd)
                THEN [t.e[k] EXCEPT !.out = (t.e[k].fd \in on)] ELSE t.e[k]]]

\* ::poll fills in the revents of every place in use.
SetRevents(t, rev) ==
    [n |-> t.n,
     e |-> [k \in PollIndex |->
              [t.e[k] EXCEPT !.rev = IF k < t.n THEN rev[k] ELSE {}]]]
==============================================================================
