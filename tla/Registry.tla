------------------------------ MODULE Registry ------------------------------
(***************************************************************************)
(* What a name table or a type table promises to the code that holds its   *)
(* integers: in each environment a key has at most one integer and an      *)
(* integer one key; what is registered is never renumbered or forgotten    *)
(* while the program runs; and an environment read from an archive has     *)
(* exactly the bindings of the environment that was written.               *)
(***************************************************************************)
CONSTANTS Envs, Nothing

VARIABLES
    bind,     \* environment -> the set of its bindings <<key, integer>>
    saved     \* the bindings in the archive, or Nothing

OneToOne(S) == \A p, q \in S : p[1] = q[1] <=> p[2] = q[2]

Init == bind = [e \in Envs |-> {}] /\ saved = Nothing

Register(e) ==
    /\ bind' = [bind EXCEPT ![e] = bind'[e]]
    /\ bind[e] \subseteq bind'[e]
    /\ OneToOne(bind'[e])
    /\ UNCHANGED saved

Save(e) == saved' = bind[e] /\ UNCHANGED bind

Restore(e) ==
    /\ bind[e] = {}
    /\ bind' = [bind EXCEPT ![e] = saved]
    /\ UNCHANGED saved

Restart == bind' = [e \in Envs |-> {}] /\ UNCHANGED saved

Next == (\E e \in Envs : Register(e) \/ Save(e) \/ Restore(e)) \/ Restart

Spec == Init /\ [][Next]_<<bind, saved>>
=============================================================================
