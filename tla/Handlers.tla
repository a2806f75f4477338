------------------------------ MODULE Handlers ------------------------------
(***************************************************************************)
(* The workers of the completion port (worker_thread), for the modules that *)
(* cut handlers where they touch shared state.  A worker runs one handler  *)
(* at a time.  todo[w] is what its handler has still to do: a sequence of  *)
(* operations <<name, arguments>>, each of which is one critical section,  *)
(* one access to shared data or one packet.                                *)
(***************************************************************************)
EXTENDS Integers, Sequences, FiniteSets, SequencesExt

CONSTANTS
    NONE,        \* no handler
    Pools,       \* the sets of workers the server may be started with
    MAX_OVERLAPS \* bound on the handlers taken up while another one runs

ASSUME HandlersAssumption ==
    /\ \A P \in Pools : IsFiniteSet(P)
    /\ MAX_OVERLAPS \in Nat

Workers == UNION Pools

VARIABLES
    pool,        \* workers the server was started with
    todo,        \* operations left to each worker
    job,         \* the handler each worker runs, <<kind, object>> or NONE
    overlaps     \* handlers taken up so far while another one ran

handlers == <<pool, todo, job, overlaps>>

Waiting ==
    /\ pool \in Pools
    /\ todo = [w \in Workers |-> <<>>]
    /\ job = [w \in Workers |-> NONE]
    /\ overlaps = 0

Quiet == \A w \in pool : job[w] = NONE

\* A worker that is waiting takes up a handler.
Take(w, kind, o, ops) ==
    /\ w \in pool /\ job[w] = NONE
    /\ overlaps' = IF Quiet THEN overlaps ELSE overlaps + 1
    /\ overlaps' <= MAX_OVERLAPS
    /\ job' = [job EXCEPT ![w] = IF ops = <<>> THEN NONE ELSE <<kind, o>>]
    /\ todo' = [todo EXCEPT ![w] = ops]
    /\ UNCHANGED pool

\* The operation w has to do next.
Op(w, name) == todo[w] # <<>> /\ Head(todo[w])[1] = name
Arg(w, i) == Head(todo[w])[i + 1]

\* w is done with it, and goes on with ops first.
Then(w, ops) ==
    LET rest == ops \o Tail(todo[w])
    IN /\ todo' = [todo EXCEPT ![w] = rest]
       /\ job' = IF rest = <<>> THEN [job EXCEPT ![w] = NONE] ELSE job
       /\ UNCHANGED <<pool, overlaps>>

\* The operations f(x) for the members of S, one after the other.
For(S, f(_)) == FlattenSeq([i \in 1 .. Cardinality(S) |-> f(SetToSeq(S)[i])])
=============================================================================
