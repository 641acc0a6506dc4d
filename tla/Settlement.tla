----------------------------- MODULE Settlement -----------------------------
(***************************************************************************)
(* What the native adapters promise about every piece of work they accept  *)
(* (a message of a FusedPipeline, a request of a client): it is admitted   *)
(* once, it stays pending until the component disposes of it, it is        *)
(* settled once, and a settled item never comes back.                      *)
(***************************************************************************)
CONSTANT Items

VARIABLE state

Unknown == "unknown"
Pending == "pending"
Settled == "settled"

Init == state = [i \in Items |-> Unknown]

Admit(i) ==
    /\ state[i] = Unknown
    /\ state' = [state EXCEPT ![i] = Pending]

Settle(i) ==
    /\ state[i] = Pending
    /\ state' = [state EXCEPT ![i] = Settled]

\* One operation may settle several items (a close cancels every pending one).
SettleAll(S) ==
    /\ S # {}
    /\ \A i \in S : state[i] = Pending
    /\ state' = [i \in Items |-> IF i \in S THEN Settled ELSE state[i]]

\* Refused at the door: admitted and settled in the same critical section.
Refuse(i) ==
    /\ state[i] = Unknown
    /\ state' = [state EXCEPT ![i] = Settled]

Next ==
    \/ \E i \in Items : Admit(i) \/ Settle(i) \/ Refuse(i)
    \/ \E S \in SUBSET Items : SettleAll(S)

Spec == Init /\ [][Next]_state
=============================================================================
