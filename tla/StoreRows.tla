------------------------------ MODULE StoreRows -----------------------------
(* The rows of a store: a function on the tables created, each a function on its
   keys.  A table exists from the first write to it, also when it is empty. *)
EXTENDS Integers

CONSTANTS Tables, Keys, Values, None

NoRows == [t \in {} |-> <<>>]

GetIn(state, t, k) ==
    IF t \in DOMAIN state /\ k \in DOMAIN state[t] THEN state[t][k] ELSE None

TableOf(state, t) == IF t \in DOMAIN state THEN state[t] ELSE [k \in {} |-> None]

WithTable(state, t, rows) ==
    [u \in DOMAIN state \cup {t} |-> IF u = t THEN rows ELSE state[u]]

PutIn(state, t, k, v) ==
    WithTable(state, t, [j \in DOMAIN TableOf(state, t) \cup {k} |->
                             IF j = k THEN v ELSE state[t][j]])

InsertIn(state, t, k, v) == IF GetIn(state, t, k) # None THEN state ELSE PutIn(state, t, k, v)

DeleteIn(state, t, k) ==
    IF GetIn(state, t, k) = None THEN state
    ELSE WithTable(state, t, [j \in DOMAIN state[t] \ {k} |-> state[t][j]])
=============================================================================
