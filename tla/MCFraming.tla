----------------------------- MODULE MCFraming -----------------------------
(***************************************************************************)
(* A small instance of Framing: the largest packet fills the buffer of the *)
(* server exactly, the client has a byte more.                             *)
(***************************************************************************)
EXTENDS Framing

MCBufLen == [r \in Readers |-> IF r = "client" THEN 4 ELSE 3]
=============================================================================
