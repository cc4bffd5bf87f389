---------------------------- MODULE AtomicStore ----------------------------
(***************************************************************************)
(* What the metadata side of the database promises: transactions change    *)
(* the committed state, now and then it becomes durable as a whole, and    *)
(* what is found after a crash is the last state that did.                 *)
(***************************************************************************)
VARIABLES committed, durable, up

Init == committed = durable /\ up = TRUE

\* Update, kept in the cache: whatever the transaction makes of the state.
Commit == up /\ up' /\ UNCHANGED durable

\* The cache is flushed before a transaction is written through.
Flush == up /\ up' /\ durable' = committed /\ UNCHANGED committed

\* Update, written through: only on top of what is durable already.
CommitThrough == up /\ up' /\ durable = committed /\ durable' = committed'

\* The end of the process: a shutdown flushes, a crash does not.
Stop == up /\ ~ up' /\ durable' \in {durable, committed} /\ committed' = durable'

\* Starting up, or failing to, changes nothing.
Start == ~ up /\ UNCHANGED <<committed, durable>>

Next == Commit \/ Flush \/ CommitThrough \/ Stop \/ Start

Spec == Init /\ [][Next]_<<committed, durable, up>>
=============================================================================
