------------------------------- MODULE Outbox -------------------------------
(***************************************************************************)
(* What the mempool and the relayer together promise a client, without     *)
(* queue, batch or order: an accepted transaction is held until the Core   *)
(* has it.  Without failures it reaches the Core exactly once; every       *)
(* failure may repeat what is held once more, or lose part of it.          *)
(***************************************************************************)
EXTENDS Naturals

CONSTANT Ids            \* the transactions

VARIABLES
    held,               \* transactions the outbox answers for
    copies,             \* copies[t]: how often the Core took t
    faults              \* failures so far

outboxVars == <<held, copies, faults>>

Init ==
    /\ held = {}
    /\ copies = [t \in Ids |-> 0]
    /\ faults = 0

Accept(t) ==
    /\ t \notin held
    /\ copies[t] = 0
    /\ held' = held \cup {t}
    /\ UNCHANGED <<copies, faults>>

\* The Core takes some of what is held.
Take(S) ==
    /\ \A t \in S : copies[t] <= faults
    /\ copies' = [t \in Ids |-> IF t \in S THEN copies[t] + 1 ELSE copies[t]]
    /\ UNCHANGED <<held, faults>>

\* Only what the Core took is settled.
Settle(S) ==
    /\ \A t \in S : copies[t] > 0
    /\ held' = held \ S
    /\ UNCHANGED <<copies, faults>>

\* A failed post, or a crash that forgets everything.
Fault ==
    /\ faults' = faults + 1
    /\ held' \in {held, {}}
    /\ UNCHANGED copies

\* After a failure a transaction may find no room to be held on.
Spill(t) ==
    /\ faults > 0
    /\ held' = held \ {t}
    /\ UNCHANGED <<copies, faults>>

Next ==
    \/ \E t \in Ids : Accept(t) \/ Spill(t)
    \/ \E S \in SUBSET held : Take(S) \/ Settle(S)
    \/ Fault

Spec == Init /\ [][Next]_outboxVars
=============================================================================
