------------------------------ MODULE Sessions -------------------------------
(***************************************************************************)
(* What the session server promises about sessions, without sockets, pipes *)
(* and processes: the sessions there are, and who is attached to which.    *)
(*                                                                         *)
(* A place of the session table is free, holds an active session with an   *)
(* id no other active session has, or one that was ended and is waiting to *)
(* be removed.  Removing a session detaches everybody.                     *)
(***************************************************************************)
CONSTANTS Slot,      \* of the session table
          Connection, \* of clients
          Id,         \* of sessions
          None        \* no session: not a Slot

VARIABLES state,      \* [Slot -> {"free", "active", "ended"}]
          id,         \* the id of each active session, None elsewhere
          attached    \* [Connection -> Slot \cup {None}]

vars == <<state, id, attached>>

Init == /\ state = [p \in Slot |-> "free"]
        /\ id = [p \in Slot |-> None]
        /\ attached = [c \in Connection |-> None]

\* A connection without a session starts one.
Start(c, p, s) ==
    /\ attached[c] = None /\ state[p] = "free"
    /\ s \in Id /\ \A q \in Slot : id[q] # s
    /\ state' = [state EXCEPT ![p] = "active"]
    /\ id' = [id EXCEPT ![p] = s]
    /\ attached' = [attached EXCEPT ![c] = p]

\* A connection without a session joins one.
Join(c, p) ==
    /\ attached[c] = None /\ state[p] # "free"
    /\ attached' = [attached EXCEPT ![c] = p]
    /\ UNCHANGED <<state, id>>

\* A connection goes away.
Leave(c) ==
    /\ attached' = [attached EXCEPT ![c] = None]
    /\ UNCHANGED <<state, id>>

\* END or the timeout.
Finish(p) ==
    /\ state[p] # "free"
    /\ state' = [state EXCEPT ![p] = "ended"]
    /\ id' = [id EXCEPT ![p] = None]
    /\ UNCHANGED attached

Remove(p) ==
    /\ state[p] # "free"
    /\ state' = [state EXCEPT ![p] = "free"]
    /\ id' = [id EXCEPT ![p] = None]
    /\ attached' = [c \in Connection |-> IF attached[c] = p THEN None ELSE attached[c]]

Next == \/ \E c \in Connection, p \in Slot : Join(c, p) \/ \E s \in Id : Start(c, p, s)
        \/ \E c \in Connection : Leave(c)
        \/ \E p \in Slot : Finish(p) \/ Remove(p)

Spec == Init /\ [][Next]_vars
==============================================================================
