--------------------------- MODULE MCSessionServer ---------------------------
(* Instances of SessionServer for TLC: the lines the peers of each may send. *)
EXTENDS SessionServer

Cmd(c) == [cmd |-> c, id |-> 0]
Session(s) == [cmd |-> "SESSION", id |-> s]

\* Everything, with an unknown id and the id of ended sessions.
AllLines == {Cmd(c) : c \in {"START", "END", "SEND", "RECEIVE", "RECEIVE:", "STATUS", "TEXT"}}
            \cup {Session(s) : s \in SessionId \cup {0}}

\* Starting, joining and ending sessions.
LifecycleLines == {Cmd("START"), Cmd("END")} \cup {Session(s) : s \in SessionId}

\* The same, and what a connection that has joined a session may ask for.
SessionLines == LifecycleLines \cup {Cmd(c) : c \in {"SEND", "RECEIVE:", "STATUS"}}

StartLines == {Cmd("START")}

SendLines == {Cmd("START"), Cmd("SEND")} \cup {Session(s) : s \in SessionId}
==============================================================================
