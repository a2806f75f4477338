--------------------------- MODULE MCSessionLife ---------------------------
(***************************************************************************)
(* Small instances of SessionLife: the account "ann" connects twice, "bot" *)
(* is a stress test client.                                                *)
(***************************************************************************)
EXTENDS SessionLife

CONSTANTS c1, c2, c3, w1, w2

MCAccounts == [c \in Conns |-> IF c = c3 THEN "bot" ELSE "ann"]

\* One worker, an account that comes back, a bot, and a database that refuses.
MCOne == [workers |-> {w1}, conns |-> {c1, c2, c3}, dbFails |-> TRUE]
\* Two workers, an account and a bot.
MCTwo == [workers |-> {w1, w2}, conns |-> {c1, c3}, dbFails |-> FALSE]
MCOneOrTwo == {MCOne, MCTwo}
MCJustTwo == {MCTwo}
=============================================================================
