---------------------------- MODULE NexusMempool ----------------------------
(***************************************************************************)
(* The L2 mempool (pkg/mempool/engine.go) and the identity registry it     *)
(* reads (the "id:" keys written by HandleCreateWallet).                   *)
(*                                                                         *)
(* A transaction is an id, which stands for everything but its recipient,  *)
(* and a recipient.  A recipient is a native address or a name: an alias   *)
(* ("@...") or the 0x form of an address.  The mempool's mutex makes each  *)
(* call one atomic step.                                                   *)
(***************************************************************************)
EXTENDS Naturals, Sequences

CONSTANTS
    TxIds,      \* the submissions clients may make
    Addrs,      \* native addresses of the wallets that may be created
    Aliases,    \* usernames that start with "@"
    MaxSize,    \* maxSize, 1000 in main.go
    NoValue     \* the answer of a lookup of a key the store does not hold

\* The 0x form of a native address.
Eth(a) == <<"0x", a>>

\* The recipients AddL2 looks up: those with the prefix "@" or "0x".
Names == Aliases \cup {Eth(a) : a \in Addrs}

Recipients == Addrs \cup Names

Tx == [id : TxIds, to : Recipients]

ASSUME MempoolAssumption ==
    /\ MaxSize \in Nat
    /\ Addrs \cap Names = {}
    /\ Aliases \cap {Eth(a) : a \in Addrs} = {}
    /\ NoValue \notin Recipients

VARIABLES
    queue,      \* the transactions waiting for the relayer
    identity    \* the "id:" keys of the store

mempoolVars == <<queue, identity>>

MempoolInit ==
    /\ queue = <<>>
    /\ identity = [r \in Recipients |-> NoValue]

-----------------------------------------------------------------------------
Full == Len(queue) >= MaxSize

\* Faulty variant: looks up every recipient, whatever its prefix.
ResolveAnything(to) == IF identity[to] # NoValue THEN identity[to] ELSE to

Resolve(to) ==
    IF to \in Names /\ identity[to] # NoValue THEN identity[to] ELSE to

Resolved(tx) == [tx EXCEPT !.to = Resolve(tx.to)]

\* Faulty variants: no limit; the newest transaction first.
AddL2Unbounded(tx) == queue' = Append(queue, Resolved(tx))
AddL2InFront(tx) ==
    \/ Full /\ UNCHANGED queue
    \/ ~Full /\ queue' = <<Resolved(tx)>> \o queue

\* AddL2 returns FALSE, and drops the call's argument, when the queue is full.
AddL2(tx) ==
    \/ Full /\ UNCHANGED queue
    \/ ~Full /\ queue' = Append(queue, Resolved(tx))

Flush == queue' = <<>>

\* HandleCreateWallet: a fresh wallet registers its 0x form, the reverse
\* mapping, and the alias when the request names one.  An alias in use is
\* silently taken over.
CreateWallet(a, names) ==
    /\ identity[a] = NoValue
    /\ identity' = [r \in Recipients |->
                      CASE r = a                    -> Eth(a)
                        [] r \in {Eth(a)} \cup names -> a
                        [] OTHER                    -> identity[r]]

=============================================================================
