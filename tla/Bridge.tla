------------------------------- MODULE Bridge -------------------------------
(***************************************************************************)
(* HandleBridgeMint (pkg/rpc/bridge_handler.go): a request reports a       *)
(* transfer on an external chain, the handler looks for the mark of that   *)
(* transfer ("bridge_processed:" keys), has the Core release the coins     *)
(* from the vault, and writes the mark.                                    *)
(*                                                                         *)
(* Requests are goroutines; the look-up, the post and the mark are not     *)
(* under a lock.  The Core is external: it takes an order or refuses it,   *)
(* its answer may be lost, and an order that is under way when the process *)
(* dies may still arrive.  Requests that are refused before the look-up    *)
(* change nothing and are left out, and so are address and amount, which   *)
(* the handler hands to the Core as they came.                             *)
(***************************************************************************)
EXTENDS Naturals

CONSTANTS
    Transfers,  \* ExternalTX of the transfers that may be reported
    Calls,      \* the requests
    NoTransfer, \* a request that has not arrived yet
    MaxFaults   \* bound: crashes, lost answers and failed store calls

ASSUME BridgeAssumption == NoTransfer \notin Transfers /\ MaxFaults \in Nat

VARIABLES
    marked,     \* the transfers with a mark in the store
    pc, tx,     \* per request: its next step and what it reports
    released,   \* requests whose order the Core took
    told,       \* requests that were answered MINT_SUCCESS
    dead,       \* requests that a crash stopped
    faults,     \* history: faults so far
    faulty,     \* history: transfers that a fault has touched
    raced       \* history: transfers with two requests at work at once

vars == <<marked, pc, tx, released, told, dead, faults, faulty, raced>>

Init ==
    /\ marked = {}
    /\ pc = [c \in Calls |-> "idle"]
    /\ tx = [c \in Calls |-> NoTransfer]
    /\ released = {}
    /\ told = {}
    /\ dead = {}
    /\ faults = 0
    /\ faulty = {}
    /\ raced = {}

-----------------------------------------------------------------------------
Busy(c) == pc[c] \in {"post", "answer", "mark"}
Live(c) == Busy(c) /\ c \notin dead

Move(c, from, to) ==
    /\ pc[c] = from
    /\ c \notin dead
    /\ pc' = [pc EXCEPT ![c] = to]

\* A fault that touches the transfers in T.
Fault(T) ==
    /\ faults < MaxFaults
    /\ faults' = faults + 1
    /\ faulty' = faulty \cup T

NoFault == UNCHANGED <<faults, faulty>>

\* A request found no mark of t and goes on to the Core.
GoOn(c, t) ==
    /\ Move(c, "idle", "post")
    /\ tx' = [tx EXCEPT ![c] = t]
    /\ raced' = IF \E d \in Calls : Live(d) /\ tx[d] = t THEN raced \cup {t} ELSE raced
    /\ UNCHANGED <<marked, released, told, dead>>

\* Faulty variant: the mark is not looked at.
PassAlways(c, t) == GoOn(c, t) /\ NoFault

Pass(c, t) == t \notin marked /\ GoOn(c, t) /\ NoFault

\* A read that fails counts like a mark that is not there.
ReadFails(c, t) == GoOn(c, t) /\ Fault({t})

\* 409: the transfer has been dealt with.
Refuse(c, t) ==
    /\ t \in marked
    /\ Move(c, "idle", "done")
    /\ tx' = [tx EXCEPT ![c] = t]
    /\ NoFault
    /\ UNCHANGED <<marked, released, told, dead, raced>>

\* The Core takes the order, also that of a process that has died since.
CoreTakes(c) ==
    /\ pc[c] = "post"
    /\ pc' = [pc EXCEPT ![c] = "answer"]
    /\ released' = released \cup {c}
    /\ NoFault
    /\ UNCHANGED <<marked, tx, told, dead, raced>>

\* Faulty variant: a request that was refused starts over.
CoreRefusesRestarts(c) ==
    /\ Move(c, "post", "idle")
    /\ NoFault
    /\ UNCHANGED <<marked, tx, released, told, dead, raced>>

\* Faulty variant: the status of the answer is not looked at.
CoreRefusesUnseen(c) ==
    /\ Move(c, "post", "mark")
    /\ NoFault
    /\ UNCHANGED <<marked, tx, released, told, dead, raced>>

CoreRefuses(c) ==
    /\ Move(c, "post", "done")
    /\ NoFault
    /\ UNCHANGED <<marked, tx, released, told, dead, raced>>

AnswerArrives(c) ==
    /\ Move(c, "answer", "mark")
    /\ NoFault
    /\ UNCHANGED <<marked, tx, released, told, dead, raced>>

\* The handler cannot tell a lost answer from a refusal.
AnswerLost(c) ==
    /\ Move(c, "answer", "done")
    /\ Fault({tx[c]})
    /\ UNCHANGED <<marked, tx, released, told, dead, raced>>

\* Faulty variant: success without a mark.
MarkForgotten(c) ==
    /\ Move(c, "mark", "done")
    /\ told' = told \cup {c}
    /\ NoFault
    /\ UNCHANGED <<marked, tx, released, dead, raced>>

Mark(c) ==
    /\ Move(c, "mark", "done")
    /\ marked' = marked \cup {tx[c]}
    /\ told' = told \cup {c}
    /\ NoFault
    /\ UNCHANGED <<tx, released, dead, raced>>

\* The client is told of success also when the mark could not be written.
MarkFails(c) ==
    /\ Move(c, "mark", "done")
    /\ told' = told \cup {c}
    /\ Fault({tx[c]})
    /\ UNCHANGED <<marked, tx, released, dead, raced>>

Crash ==
    /\ dead' = dead \cup {c \in Calls : Live(c)}
    /\ Fault({tx[c] : c \in {d \in Calls : Live(d)}})
    /\ UNCHANGED <<marked, pc, tx, released, told, raced>>

Next ==
    \/ \E c \in Calls :
          \/ \E t \in Transfers : Pass(c, t) \/ ReadFails(c, t) \/ Refuse(c, t)
          \/ CoreTakes(c) \/ CoreRefuses(c) \/ AnswerArrives(c) \/ AnswerLost(c)
          \/ Mark(c) \/ MarkFails(c)
    \/ Crash

Spec == Init /\ [][Next]_vars

-----------------------------------------------------------------------------
(* Properties *)

\* A request has a transfer exactly when it has left the line, and every variable
\* keeps its shape.
TypeOK ==
    /\ marked \subseteq Transfers
    /\ pc \in [Calls -> {"idle", "post", "answer", "mark", "done"}]
    /\ tx \in [Calls -> Transfers \cup {NoTransfer}]
    /\ \A c \in Calls : tx[c] = NoTransfer <=> pc[c] = "idle"
    /\ released \subseteq Calls
    /\ told \subseteq Calls
    /\ dead \subseteq Calls
    /\ faults \in 0 .. MaxFaults
    /\ faulty \subseteq Transfers
    /\ raced \subseteq Transfers

\* However requests overlap and wherever one fails, a mark is only there when
\* the Core has released the coins: a report that was refused as a duplicate
\* is never one that nobody was paid for.
MarkedWasReleased ==
    \A t \in marked : \E c \in released : tx[c] = t

\* Coins are released once for a transfer unless two of its reports were at
\* work at once, or a fault kept the mark from being written or read.
ReleasedOnce ==
    \A c, d \in released :
        tx[c] = tx[d] /\ tx[c] \notin faulty \cup raced => c = d

\* After a request was told of success, no report of the same transfer passes
\* the look-up, unless a store call failed on the way or a crash touched it.
\* This holds for requests that overlapped as well.
SuccessIsFinal ==
    [][\A c \in Calls : pc[c] = "idle" /\ pc'[c] = "post" =>
          \A d \in told : tx[d] = tx'[c] => tx'[c] \in faulty']_vars

\* bridge_handler.go:73: the mark is written "agar transaksi ini tidak bisa
\* diulang" (so that this transaction cannot be repeated).
NeverRepeated == \A c, d \in released : tx[c] = tx[d] => c = d
=============================================================================
