-------------------------------- MODULE MCApi -------------------------------
(* Bounded instance of the two models of crate api, for TLC: a behaviour is one
   of Genesis, which opens databases, or one of Errors, which answers calls. *)
EXTENDS Genesis, TLC

CONSTANTS g1, g2, g3, h1, h2

VARIABLES part, call, raised, error, answer

errorVars == <<call, raised, error, answer>>

E == INSTANCE Errors

MCHashOf == (g1 :> h1) @@ (g2 :> h2) @@ (g3 :> h1)

MCInit == part \in {"opening", "answering"} /\ Init /\ E!Init

Opening == part = "opening" /\ Next /\ UNCHANGED <<part, errorVars>>
Answering == part = "answering" /\ E!Next /\ UNCHANGED <<part, vars>>

(* Openers are scheduled as in FairSpec. *)
MCSpec ==
    /\ MCInit /\ [][Opening \/ Answering]_<<part, vars, errorVars>>
    /\ \A p \in Processes : WF_vars(Step(p))

(* The conversions of error.rs answer with what the error first raised means: a
   full store, a condition the client reacts to, or an internal fault. *)
MeaningsKept == E!MeaningsKept
=============================================================================
