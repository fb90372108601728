------------------------------ MODULE TaskQueue ------------------------------
(***************************************************************************)
(* What the asynchronous pool promises its callers: tasks run one at a     *)
(* time, in the order they were handed over, each at most once; stopping   *)
(* drops the tasks that have not been picked up and all later ones.        *)
(***************************************************************************)
EXTENDS Naturals, Sequences

CONSTANT Tasks

VARIABLES
    pending,    \* tasks that will run unless the pool is stopped
    executed,   \* tasks that have run, in their order
    open        \* the pool has not been stopped

vars == <<pending, executed, open>>

Init == pending = <<>> /\ executed = <<>> /\ open = TRUE

Enqueue(t) ==
    /\ pending' = IF open THEN Append(pending, t) ELSE pending
    /\ UNCHANGED <<executed, open>>

Execute ==
    /\ pending # <<>>
    /\ executed' = Append(executed, Head(pending))
    /\ pending' = Tail(pending)
    /\ UNCHANGED open

Stop ==
    /\ open /\ open' = FALSE
    /\ \E k \in 0 .. Len(pending) : pending' = SubSeq(pending, 1, k)
    /\ UNCHANGED executed

Next == Execute \/ Stop \/ \E t \in Tasks : Enqueue(t)

Spec == Init /\ [][Next]_vars
=============================================================================
