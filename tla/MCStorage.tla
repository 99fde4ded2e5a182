------------------------------ MODULE MCStorage -----------------------------
(* Bounded instance of the models of storage access, for TLC: a behaviour is one
   of MemoryStore or MdbxStore, the two backends, one of Cursors, which moves
   over rows, or one of Scans, which reads ranges of them. *)
EXTENDS Storage, Scans

VARIABLE part

(* Keys that are prefixes and successors of each other, with record IDs of two
   bytes. *)
ScanKeys == {<<0, 1>>, <<0, 1, 1>>, <<1, 0>>, <<1, 1, 1>>}
ScanPrefixes == {<<>>, <<0>>, <<1>>, <<0, 1>>, <<1, 1>>, <<0, 1, 1>>, <<1, 1, 1>>}

NoCursor == origin = {} /\ C!Init
NoScan == rows = {} /\ query = [kind |-> "prefix", prefix |-> <<>>] /\ entries = <<>> /\ ScanInit

MCInit ==
    /\ Init /\ X!Init
    /\ \/ part \in {"memory", "mdbx"} /\ NoCursor /\ NoScan
       \/ part = "cursors" /\ C!Init /\ NoScan
       \/ part = "scans" /\ NoCursor /\ ScanInit

MCNext ==
    /\ UNCHANGED part
    /\ \/ part = "memory" /\ Next /\ UNCHANGED <<mdbxVars, cursorVars, scanVars>>
       \/ part = "mdbx" /\ X!Next /\ UNCHANGED <<vars, cursorVars, scanVars>>
       \/ part = "cursors" /\ C!Next /\ UNCHANGED <<vars, mdbxVars, scanVars>>
       \/ part = "scans" /\ ScanStep /\ UNCHANGED <<vars, mdbxVars, cursorVars>>

MCSpec == MCInit /\ [][MCNext]_<<part, vars, mdbxVars, cursorVars, scanVars>>
=============================================================================
