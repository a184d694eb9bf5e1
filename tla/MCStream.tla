------------------------------ MODULE MCStream ------------------------------
(***************************************************************************)
(* Stream for TLC, on the schema of Vec<u8>: column 1 holds the lengths,   *)
(* column 2 the elements.                                                  *)
(***************************************************************************)
EXTENDS Stream

MCCell == 0 .. 2

MCValue == { << >>, <<1>>, <<2, 1>> }

MCEnc == [v \in MCValue |-> << <<Len(v)>>, v >>]
=============================================================================
