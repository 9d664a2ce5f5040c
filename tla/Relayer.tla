------------------------------ MODULE Relayer ------------------------------
(***************************************************************************)
(* The mempool under load: HTTP handlers submit transactions while the     *)
(* relayer goroutine (pkg/mempool/relayer.go) flushes the queue, posts the *)
(* batch to the L1 Core and, when the post fails, puts the batch back one  *)
(* transaction at a time.  The process may crash: the queue and the batch  *)
(* live in memory only.                                                    *)
(*                                                                         *)
(* The Core is external.  It takes the first n transactions of a batch;    *)
(* it answers 200 only for a whole batch, and any answer may be lost.      *)
(***************************************************************************)
EXTENDS NexusMempool, FiniteSets

CONSTANT MaxFaults      \* bound: failed posts and crashes of one behaviour

ASSUME RelayerAssumption == MaxFaults \in Nat

VARIABLES
    relayer,    \* "sleep", "posting", "answering" or "requeue"
    batch,      \* txs: what Flush returned and is not yet dealt with
    took,       \* how many of the batch the Core took in the current post
    coreLog,    \* the transactions the Core took, in order
    accepted,   \* history: the transactions whose AddL2 returned TRUE
    faults      \* history: failed posts and crashes so far

relayerVars == <<relayer, batch, took>>
vars == <<queue, identity, relayer, batch, took, coreLog, accepted, faults>>

IdsIn(txs) == {txs[i].id : i \in DOMAIN txs}

\* The transactions this process still remembers.
Held == IdsIn(queue) \cup IdsIn(batch)

Init ==
    /\ MempoolInit
    /\ relayer = "sleep"
    /\ batch = <<>>
    /\ took = 0
    /\ coreLog = <<>>
    /\ accepted = <<>>
    /\ faults = 0

-----------------------------------------------------------------------------
(* Handlers *)

\* A handler (swap, liquidity, spend) hands a new transaction to AddL2.
Submit(tx) ==
    /\ tx.id \notin IdsIn(accepted)
    /\ AddL2(tx)
    /\ accepted' = IF Full THEN accepted ELSE Append(accepted, Resolved(tx))
    /\ UNCHANGED <<identity, relayerVars, coreLog, faults>>

Register(a, names) ==
    /\ CreateWallet(a, names)
    /\ UNCHANGED <<queue, relayerVars, coreLog, accepted, faults>>

-----------------------------------------------------------------------------
(* The relayer loop *)

\* An empty batch sends the loop back to sleep: nothing changes.
Idle ==
    /\ relayer = "sleep"
    /\ queue = <<>>
    /\ UNCHANGED vars

StartPost ==
    /\ relayer = "sleep"
    /\ queue # <<>>
    /\ Flush
    /\ batch' = queue
    /\ relayer' = "posting"
    /\ UNCHANGED <<identity, took, coreLog, accepted, faults>>

\* The Core stops short of the whole batch only if this post will fail.
CoreTakes(n) ==
    /\ relayer = "posting"
    /\ n < Len(batch) => faults < MaxFaults
    /\ coreLog' = coreLog \o SubSeq(batch, 1, n)
    /\ took' = n
    /\ relayer' = "answering"
    /\ UNCHANGED <<queue, identity, batch, accepted, faults>>

\* Faulty variant: the reply's status is not looked at.
ReplyOKIgnoresStatus ==
    /\ relayer = "answering"
    /\ batch' = <<>>
    /\ took' = 0
    /\ relayer' = "sleep"
    /\ UNCHANGED <<queue, identity, coreLog, accepted, faults>>
ReplyOK ==
    /\ relayer = "answering"
    /\ took = Len(batch)
    /\ batch' = <<>>
    /\ took' = 0
    /\ relayer' = "sleep"
    /\ UNCHANGED <<queue, identity, coreLog, accepted, faults>>

\* Faulty variant: the loop goes on without putting the batch back.
ReplyFailsForgets ==
    /\ relayer = "answering"
    /\ faults < MaxFaults
    /\ faults' = faults + 1
    /\ took' = 0
    /\ batch' = <<>>
    /\ relayer' = "sleep"
    /\ UNCHANGED <<queue, identity, coreLog, accepted>>

\* The post returned an error or a status other than 200.
ReplyFails ==
    /\ relayer = "answering"
    /\ faults < MaxFaults
    /\ faults' = faults + 1
    /\ took' = 0
    /\ relayer' = "requeue"
    /\ UNCHANGED <<queue, identity, batch, coreLog, accepted>>

\* One turn of the loop over txs; the result of AddL2 is ignored.
Requeue ==
    /\ relayer = "requeue"
    /\ batch # <<>>
    /\ AddL2(Head(batch))
    /\ batch' = Tail(batch)
    /\ UNCHANGED <<identity, relayer, took, coreLog, accepted, faults>>

\* Faulty variant: the goroutine returns after a failed post.
RequeueDoneStops ==
    /\ relayer = "requeue"
    /\ batch = <<>>
    /\ relayer' = "stopped"
    /\ UNCHANGED <<mempoolVars, batch, took, coreLog, accepted, faults>>

RequeueDone ==
    /\ relayer = "requeue"
    /\ batch = <<>>
    /\ relayer' = "sleep"
    /\ UNCHANGED <<mempoolVars, batch, took, coreLog, accepted, faults>>

-----------------------------------------------------------------------------
\* The process dies and is started again; the registry is on disk.
Crash ==
    /\ faults < MaxFaults
    /\ faults' = faults + 1
    /\ queue' = <<>>
    /\ batch' = <<>>
    /\ took' = 0
    /\ relayer' = "sleep"
    /\ UNCHANGED <<identity, coreLog, accepted>>

RelayerStep ==
    \/ Idle
    \/ StartPost
    \/ \E n \in 0 .. Len(batch) : CoreTakes(n)
    \/ ReplyOK
    \/ ReplyFails
    \/ Requeue
    \/ RequeueDone

Next ==
    \/ \E tx \in Tx : Submit(tx)
    \/ \E a \in Addrs, names \in {{}} \cup {{u} : u \in Aliases} :
          Register(a, names)
    \/ RelayerStep
    \/ Crash

Spec == Init /\ [][Next]_vars

\* The loop never stops, and every post is answered or broken at some time.
FairSpec == Spec /\ WF_vars(RelayerStep)

-----------------------------------------------------------------------------
(* Properties *)

\* The part of the batch that the Core has not taken in the current post.
Untaken == SubSeq(batch, took + 1, Len(batch))

CopiesAtCore(id) == Cardinality({i \in DOMAIN coreLog : coreLog[i].id = id})

\* What a client may rely on: see Outbox.
Promise == INSTANCE Outbox WITH
    Ids    <- TxIds,
    held   <- Held,
    copies <- [id \in TxIds |-> CopiesAtCore(id)]

\* The types, and the limit of the queue, which the requeue loop keeps as well.
TypeOK ==
    /\ queue \in Seq(Tx) /\ Len(queue) <= MaxSize
    /\ identity \in [Recipients -> Recipients \cup {NoValue}]
    /\ relayer \in {"sleep", "posting", "answering", "requeue"}
    /\ batch \in Seq(Tx)
    /\ took \in Nat
    /\ coreLog \in Seq(Tx)
    /\ accepted \in Seq(Tx)
    /\ faults \in 0 .. MaxFaults

\* As long as no post failed and no crash happened, the Core's log, the rest of
\* the batch and the queue are together exactly the accepted transactions in
\* the order of their AddL2 calls: nothing is lost, repeated or overtaken
\* while Flush, Submit and the Core's answers interleave.
FaultFreeFIFO == faults = 0 => coreLog \o Untaken \o queue = accepted

\* The recipient written by AddL2 when it accepted the transaction is the one
\* the Core sees, however often the transaction is queued again and looked up
\* again, unless the name was unknown when the transaction was accepted.
RecipientFixed ==
    \A i \in DOMAIN coreLog : \E j \in DOMAIN accepted :
        /\ coreLog[i].id = accepted[j].id
        /\ coreLog[i].to # accepted[j].to =>
              accepted[j].to \in Names /\ coreLog[i].to \in Addrs

\* A transaction is forgotten only after the Core took it, by a crash, or by a
\* requeue that finds the queue filled up again behind its back.
NoSilentLoss ==
    [][\A id \in Held \ Held' :
          \/ id \in IdsIn(coreLog)
          \/ relayer = "requeue" /\ Full
          \/ Crash]_vars

\* Every accepted transaction is dealt with: the retries do not go on for ever.
EventuallySettled == \A id \in TxIds : id \in Held ~> id \notin Held

\* The relayer keeps the outbox's promise; in particular n failures repeat no
\* transaction more than n times.
KeepsPromise == Promise!Spec

=============================================================================
