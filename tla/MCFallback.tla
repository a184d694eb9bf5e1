----------------------------- MODULE MCFallback -----------------------------
(***************************************************************************)
(* Fallback for TLC: tracing Outer reaches Inner and Bad reaches nothing   *)
(* but cannot be traced.                                                   *)
(***************************************************************************)
EXTENDS Fallback

CONSTANTS Outer, Inner, Bad

MCType == {Outer, Inner, Bad}

MCReaches == [T \in MCType |-> IF T = Outer THEN {Inner} ELSE {}]

MCRank == [T \in MCType |-> IF T = Outer THEN 1 ELSE 0]
=============================================================================
