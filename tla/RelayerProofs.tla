--------------------------- MODULE RelayerProofs ---------------------------
(***************************************************************************)
(* Proofs about the mempool and the relayer, for every number of           *)
(* submissions, wallets and failures and every size of the queue.          *)
(***************************************************************************)
EXTENDS Relayer, SequenceTheorems, FiniteSetTheorems, TLAPS

USE MempoolAssumption, RelayerAssumption

\* A transaction stays a transaction when its recipient is looked up.
LEMMA ResolvedType ==
  ASSUME identity \in [Recipients -> Recipients \cup {NoValue}],
         NEW tx \in Tx
  PROVE  Resolved(tx) \in Tx /\ Resolved(tx).id = tx.id
  BY DEF Resolved, Resolve, Tx, Recipients

\* One call of AddL2 keeps the queue a queue of at most MaxSize transactions.
LEMMA AddL2Type ==
  ASSUME TypeOK, NEW tx \in Tx, AddL2(tx)
  PROVE  queue' \in Seq(Tx) /\ Len(queue') <= MaxSize
<1>1. Resolved(tx) \in Tx
  BY ResolvedType DEF TypeOK
<1>2. CASE Full /\ UNCHANGED queue
  BY <1>2 DEF TypeOK
<1>3. CASE ~Full /\ queue' = Append(queue, Resolved(tx))
  <2>1. Len(queue') = Len(queue) + 1 /\ queue' \in Seq(Tx)
    BY <1>1, <1>3, AppendProperties DEF TypeOK
  <2> QED BY <2>1, <1>3, LenProperties DEF Full, TypeOK
<1> QED BY <1>2, <1>3 DEF AddL2

LEMMA TypeInit == Init => TypeOK
  BY DEF Init, MempoolInit, TypeOK

\* Every step of a handler, of the relayer and of a crash keeps the types.
LEMMA TypeStep == TypeOK /\ [Next]_vars => TypeOK'
<1> SUFFICES ASSUME TypeOK, [Next]_vars PROVE TypeOK'
  OBVIOUS
<1>1. ASSUME NEW tx \in Tx, Submit(tx) PROVE TypeOK'
  <2>1. queue' \in Seq(Tx) /\ Len(queue') <= MaxSize
    BY <1>1, AddL2Type DEF Submit
  <2>2. accepted' \in Seq(Tx)
    BY <1>1, ResolvedType DEF Submit, TypeOK
  <2> QED BY <1>1, <2>1, <2>2 DEF Submit, TypeOK, relayerVars
<1>2. ASSUME NEW a \in Addrs, NEW names \in SUBSET Aliases, Register(a, names)
      PROVE  TypeOK'
  <2>1. identity' \in [Recipients -> Recipients \cup {NoValue}]
    BY <1>2 DEF Register, CreateWallet, TypeOK, Recipients, Names
  <2> QED BY <1>2, <2>1 DEF Register, TypeOK, relayerVars
<1>3. CASE Idle
  BY <1>3 DEF Idle, vars, TypeOK
<1>4. CASE StartPost
  BY <1>4, EmptySeq DEF StartPost, Flush, TypeOK
<1>5. ASSUME NEW n \in 0 .. Len(batch), CoreTakes(n) PROVE TypeOK'
  <2>1. SubSeq(batch, 1, n) \in Seq(Tx)
    BY SubSeqProperties DEF TypeOK
  <2>2. coreLog' \in Seq(Tx)
    BY <1>5, <2>1, ConcatProperties DEF CoreTakes, TypeOK
  <2> QED BY <1>5, <2>2 DEF CoreTakes, TypeOK
<1>6. CASE ReplyOK
  BY <1>6 DEF ReplyOK, TypeOK
<1>7. CASE ReplyFails
  BY <1>7 DEF ReplyFails, TypeOK
<1>8. CASE Requeue
  <2>1. Head(batch) \in Tx /\ Tail(batch) \in Seq(Tx)
    BY <1>8, HeadTailProperties DEF Requeue, TypeOK
  <2>2. queue' \in Seq(Tx) /\ Len(queue') <= MaxSize
    BY <1>8, <2>1, AddL2Type DEF Requeue
  <2> QED BY <1>8, <2>1, <2>2 DEF Requeue, TypeOK
<1>9. CASE RequeueDone
  BY <1>9 DEF RequeueDone, mempoolVars, TypeOK
<1>10. CASE Crash
  BY <1>10 DEF Crash, TypeOK
<1>11. CASE UNCHANGED vars
  BY <1>11 DEF vars, TypeOK
<1> QED
  BY <1>1, <1>2, <1>3, <1>4, <1>5, <1>6, <1>7, <1>8, <1>9, <1>10, <1>11
  DEF Next, RelayerStep

\* Type correctness: among others, the queue never exceeds maxSize, although
\* the relayer puts batches back while handlers go on submitting.
THEOREM TypeCorrect == Spec => []TypeOK
  BY TypeInit, TypeStep, PTL DEF Spec

-----------------------------------------------------------------------------
(***************************************************************************)
(* The order of the transactions.  FaultFreeFIFO is not inductive alone:   *)
(* it needs to know which part of the batch is untaken in each state of    *)
(* the loop, and that the requeue loop runs only after a failure.          *)
(***************************************************************************)
LoopInv ==
    /\ took <= Len(batch)
    /\ relayer # "answering" => took = 0
    /\ relayer = "sleep" => batch = <<>>
    /\ relayer = "requeue" => faults > 0

FIFOInv == TypeOK /\ LoopInv /\ FaultFreeFIFO

\* An untaken batch is the whole batch, a fully taken one is empty.
LEMMA UntakenEnds ==
  ASSUME batch \in Seq(Tx), took \in Nat
  PROVE  /\ Untaken \in Seq(Tx)
         /\ took = 0 => Untaken = batch
         /\ took = Len(batch) => Untaken = <<>>
<1>1. Len(batch) \in Nat /\ \A i \in 1 .. Len(batch) : batch[i] \in Tx
  BY LenProperties
<1>2. Untaken \in Seq(Tx)
  <2>1. \A i \in took + 1 .. Len(batch) : batch[i] \in Tx
    BY <1>1
  <2> QED BY <1>1, <2>1, SubSeqProperties DEF Untaken
<1>3. ASSUME took = 0 PROVE Untaken = batch
  BY <1>3, SubSeqFull DEF Untaken
<1>4. ASSUME took = Len(batch) PROVE Untaken = <<>>
  BY <1>1, <1>4, SubSeqEmpty DEF Untaken
<1> QED BY <1>2, <1>3, <1>4

\* What the Core takes of a batch and what it leaves make up the batch.
LEMMA TakenAndRest ==
  ASSUME NEW txs \in Seq(Tx), NEW log \in Seq(Tx), NEW n \in 0 .. Len(txs)
  PROVE  (log \o SubSeq(txs, 1, n)) \o SubSeq(txs, n + 1, Len(txs)) = log \o txs
<1>1. Len(txs) \in Nat /\ \A i \in 1 .. Len(txs) : txs[i] \in Tx
  BY LenProperties
<1>2. PICK now \in Seq(Tx) : now = SubSeq(txs, 1, n)
  <2>1. \A i \in 1 .. n : txs[i] \in Tx
    BY <1>1
  <2>2. SubSeq(txs, 1, n) \in Seq(Tx)
    BY <2>1, SubSeqProperties
  <2> QED BY <2>2, Zenon
<1>3. PICK rest \in Seq(Tx) : rest = SubSeq(txs, n + 1, Len(txs))
  <2>1. \A i \in n + 1 .. Len(txs) : txs[i] \in Tx
    BY <1>1
  <2>2. SubSeq(txs, n + 1, Len(txs)) \in Seq(Tx)
    BY <1>1, <2>1, SubSeqProperties
  <2> QED BY <2>2, Zenon
<1>4. now \o rest = txs
  <2>1. 1 \in 1 .. Len(txs) + 1 /\ n \in 1 - 1 .. Len(txs)
    BY <1>1
  <2>2. Len(txs) \in n .. Len(txs)
    BY <1>1
  <2>3. now \o rest = SubSeq(txs, 1, Len(txs))
    BY <1>2, <1>3, <2>1, <2>2, ConcatAdjacentSubSeq
  <2> QED BY <2>3, SubSeqFull
<1>5. (log \o now) \o rest = log \o (now \o rest)
  BY ConcatAssociative
<1> QED BY <1>2, <1>3, <1>4, <1>5

LEMMA FIFOInit == Init => FIFOInv
<1> SUFFICES ASSUME Init PROVE FIFOInv
  OBVIOUS
<1>1. TypeOK
  BY TypeInit
<1>2. Untaken = <<>> /\ coreLog = <<>> /\ queue = <<>> /\ accepted = <<>>
  BY <1>1, UntakenEnds, LenProperties DEF Init, MempoolInit, TypeOK
<1> QED BY <1>1, <1>2 DEF Init, FIFOInv, LoopInv, FaultFreeFIFO

LEMMA FIFOStep == FIFOInv /\ [Next]_vars => FIFOInv'
<1> SUFFICES ASSUME FIFOInv, [Next]_vars PROVE LoopInv' /\ FaultFreeFIFO'
  BY TypeStep DEF FIFOInv
<1> USE DEF FIFOInv, FaultFreeFIFO
<1>t. TypeOK' /\ faults \in Nat /\ Len(batch) \in Nat /\ Len(batch') \in Nat
  BY TypeStep, LenProperties DEF TypeOK
<1>1. ASSUME NEW tx \in Tx, Submit(tx) PROVE LoopInv' /\ FaultFreeFIFO'
  <2>1. UNCHANGED <<relayerVars, coreLog, faults>> /\ LoopInv'
    BY <1>1 DEF Submit, LoopInv, relayerVars
  <2>2. Untaken' = Untaken /\ Untaken \in Seq(Tx)
    BY <2>1, UntakenEnds DEF Untaken, relayerVars, TypeOK
  <2>3. CASE Full
    BY <1>1, <2>1, <2>2, <2>3 DEF Submit, AddL2
  <2>4. CASE ~Full
    <3> DEFINE r == Resolved(tx)
               before == coreLog \o Untaken
    <3>1. r \in Tx /\ before \in Seq(Tx) /\ before \o queue \in Seq(Tx)
      BY <2>2, ResolvedType, ConcatProperties DEF TypeOK
    <3>2. queue' = queue \o <<r>>
      BY <1>1, <2>4, <3>1, AppendIsConcat DEF Submit, AddL2, TypeOK
    <3>3. accepted' = accepted \o <<r>>
      BY <1>1, <2>4, <3>1, AppendIsConcat DEF Submit, TypeOK
    <3>4. before \o (queue \o <<r>>) = (before \o queue) \o <<r>>
      <4>1. <<r>> \in Seq(Tx)
        BY <3>1
      <4> QED BY <3>1, <4>1, ConcatAssociative DEF TypeOK
    <3> QED BY <2>1, <2>2, <3>2, <3>3, <3>4
  <2> QED BY <2>3, <2>4
<1>2. ASSUME NEW a \in Addrs, NEW names \in SUBSET Aliases, Register(a, names)
      PROVE  LoopInv' /\ FaultFreeFIFO'
  BY <1>2 DEF Register, relayerVars, LoopInv, Untaken
<1>3. CASE Idle
  BY <1>3 DEF Idle, vars, LoopInv, Untaken
<1>4. CASE StartPost
  <2>1. batch = <<>> /\ took = 0 /\ batch' = queue /\ took' = 0
    BY <1>4 DEF StartPost, LoopInv
  <2>2. Untaken = <<>> /\ Untaken' = queue
    BY <2>1, <1>t, UntakenEnds, SubSeqFull, LenProperties DEF TypeOK, Untaken
  <2>3. (coreLog \o <<>>) \o queue = (coreLog \o queue) \o <<>>
    BY ConcatEmptySeq, ConcatProperties DEF TypeOK
  <2>4. FaultFreeFIFO'
    BY <1>4, <2>2, <2>3 DEF StartPost, Flush
  <2> QED BY <1>4, <1>t, <2>1, <2>4 DEF StartPost, LoopInv
<1>5. ASSUME NEW n \in 0 .. Len(batch), CoreTakes(n)
      PROVE  LoopInv' /\ FaultFreeFIFO'
  <2>1. took = 0 /\ took' = n /\ batch' = batch
    BY <1>5 DEF CoreTakes, LoopInv
  <2>2. LoopInv'
    BY <1>5, <1>t, <2>1 DEF CoreTakes, LoopInv
  <2>3. Untaken = batch /\ Untaken' = SubSeq(batch, n + 1, Len(batch))
    BY <2>1, UntakenEnds DEF Untaken, TypeOK
  <2>4. coreLog' \o Untaken' = coreLog \o batch
    BY <1>5, <2>3, TakenAndRest DEF CoreTakes, TypeOK
  <2> QED BY <1>5, <2>2, <2>3, <2>4 DEF CoreTakes
<1>6. CASE ReplyOK
  <2>1. Untaken = <<>>
    BY <1>6, UntakenEnds DEF ReplyOK, TypeOK
  <2>2. Untaken' = <<>>
    BY <1>6, <1>t, SubSeqEmpty, LenProperties DEF ReplyOK, Untaken
  <2>3. LoopInv'
    BY <1>6, <1>t DEF ReplyOK, LoopInv
  <2> QED BY <1>6, <2>1, <2>2, <2>3 DEF ReplyOK
<1>7. CASE ReplyFails
  BY <1>7, <1>t DEF ReplyFails, LoopInv
<1>8. CASE Requeue
  <2>1. Len(Tail(batch)) \in Nat
    BY <1>8, HeadTailProperties DEF Requeue, TypeOK
  <2> QED BY <1>8, <1>t, <2>1 DEF Requeue, LoopInv
<1>9. CASE RequeueDone
  BY <1>9, <1>t DEF RequeueDone, mempoolVars, LoopInv
<1>10. CASE Crash
  BY <1>10, <1>t, LenProperties DEF Crash, LoopInv
<1>11. CASE UNCHANGED vars
  BY <1>11 DEF vars, LoopInv, Untaken
<1> QED
  BY <1>1, <1>2, <1>3, <1>4, <1>5, <1>6, <1>7, <1>8, <1>9, <1>10, <1>11
  DEF Next, RelayerStep

\* Without failures the relayer is a FIFO: the Core's log, the untaken part of
\* the batch and the queue are the accepted transactions in their order.
THEOREM FaultFreeOrder == Spec => []FaultFreeFIFO
<1>1. FIFOInv => FaultFreeFIFO
  BY DEF FIFOInv
<1> QED BY FIFOInit, FIFOStep, <1>1, PTL DEF Spec

-----------------------------------------------------------------------------
(* The transactions and the ids in the lists that a step changes *)

\* What holds of every transaction of two lists holds of both together, and
\* every transaction of a list has a place in the concatenation.
LEMMA ConcatRange ==
  ASSUME NEW s \in Seq(Tx), NEW t \in Seq(Tx)
  PROVE  /\ s \o t \in Seq(Tx)
         /\ \A i \in DOMAIN s : i \in DOMAIN (s \o t) /\ (s \o t)[i] = s[i]
         /\ \A i \in DOMAIN t : Len(s) + i \in DOMAIN (s \o t) /\ (s \o t)[Len(s) + i] = t[i]
         /\ \A i \in DOMAIN (s \o t) :
               \/ i \in DOMAIN s
               \/ i > Len(s) /\ i - Len(s) \in DOMAIN t /\ (s \o t)[i] = t[i - Len(s)]
         /\ IdsIn(s \o t) = IdsIn(s) \cup IdsIn(t)
<1>1. /\ s \o t \in Seq(Tx) /\ Len(s \o t) = Len(s) + Len(t)
      /\ \A i \in 1 .. Len(s) + Len(t) :
            (s \o t)[i] = IF i <= Len(s) THEN s[i] ELSE t[i - Len(s)]
  BY ConcatProperties
<1>2. /\ DOMAIN s = 1 .. Len(s) /\ Len(s) \in Nat
      /\ DOMAIN t = 1 .. Len(t) /\ Len(t) \in Nat
      /\ DOMAIN (s \o t) = 1 .. Len(s) + Len(t)
  BY <1>1, LenProperties
<1>3. \A i \in DOMAIN s : i \in DOMAIN (s \o t) /\ (s \o t)[i] = s[i]
  BY <1>1, <1>2
<1>4. \A i \in DOMAIN t : Len(s) + i \in DOMAIN (s \o t) /\ (s \o t)[Len(s) + i] = t[i]
  BY <1>1, <1>2
<1>5. \A i \in DOMAIN (s \o t) :
         \/ i \in DOMAIN s
         \/ i > Len(s) /\ i - Len(s) \in DOMAIN t /\ (s \o t)[i] = t[i - Len(s)]
  BY <1>1, <1>2
<1>6. IdsIn(s) \subseteq IdsIn(s \o t)
  BY <1>3 DEF IdsIn
<1>7. IdsIn(t) \subseteq IdsIn(s \o t)
  BY <1>4 DEF IdsIn
<1>8. IdsIn(s \o t) \subseteq IdsIn(s) \cup IdsIn(t)
  BY <1>3, <1>5 DEF IdsIn
<1> QED BY <1>1, <1>3, <1>4, <1>5, <1>6, <1>7, <1>8

\* The first n transactions of a list.
LEMMA PrefixRange ==
  ASSUME NEW s \in Seq(Tx), NEW n \in 0 .. Len(s)
  PROVE  /\ SubSeq(s, 1, n) \in Seq(Tx)
         /\ DOMAIN SubSeq(s, 1, n) = 1 .. n
         /\ \A i \in 1 .. n : i \in DOMAIN s /\ SubSeq(s, 1, n)[i] = s[i]
         /\ IdsIn(SubSeq(s, 1, n)) = {s[i].id : i \in 1 .. n}
<1>1. /\ Len(s) \in Nat /\ DOMAIN s = 1 .. Len(s) /\ n \in Int
      /\ \A i \in 1 .. n : s[i] \in Tx
  BY LenProperties
<1>2. /\ SubSeq(s, 1, n) \in Seq(Tx)
      /\ Len(SubSeq(s, 1, n)) = (IF 1 <= n THEN n - 1 + 1 ELSE 0)
      /\ \A i \in 1 .. n - 1 + 1 : SubSeq(s, 1, n)[i] = s[1 + i - 1]
  BY <1>1, SubSeqProperties
<1>3. /\ DOMAIN SubSeq(s, 1, n) = 1 .. n
      /\ \A i \in 1 .. n : i \in DOMAIN s /\ SubSeq(s, 1, n)[i] = s[i]
  BY <1>1, <1>2, LenProperties
<1>4. IdsIn(SubSeq(s, 1, n)) = {s[i].id : i \in 1 .. n}
  BY <1>3 DEF IdsIn
<1> QED BY <1>2, <1>3, <1>4

\* The first transaction of a list, and the others.
LEMMA HeadTailRange ==
  ASSUME NEW s \in Seq(Tx), s # <<>>
  PROVE  /\ Head(s) \in Tx /\ Tail(s) \in Seq(Tx) /\ 1 \in DOMAIN s /\ Head(s) = s[1]
         /\ \A i \in DOMAIN Tail(s) : i + 1 \in DOMAIN s /\ i \in Nat /\ Tail(s)[i] = s[i + 1]
         /\ IdsIn(s) = {Head(s).id} \cup IdsIn(Tail(s))
<1>1. /\ Head(s) \in Tx /\ Tail(s) \in Seq(Tx) /\ Len(Tail(s)) = Len(s) - 1
      /\ \A i \in 1 .. Len(Tail(s)) : Tail(s)[i] = s[i + 1]
  BY HeadTailProperties
<1>2. /\ Len(s) \in Nat /\ Len(s) > 0 /\ DOMAIN s = 1 .. Len(s)
      /\ DOMAIN Tail(s) = 1 .. Len(s) - 1
  BY <1>1, LenProperties
<1>3. Head(s) = s[1] /\ 1 \in DOMAIN s
  BY <1>2
<1>4. \A i \in DOMAIN Tail(s) : i + 1 \in DOMAIN s /\ i \in Nat /\ Tail(s)[i] = s[i + 1]
  BY <1>1, <1>2
<1>5. ASSUME NEW i \in DOMAIN s, i # 1
      PROVE  \E j \in DOMAIN Tail(s) : Tail(s)[j] = s[i]
  <2>1. i - 1 \in 1 .. Len(s) - 1 /\ (i - 1) + 1 = i
    BY <1>2, <1>5
  <2> QED BY <1>1, <1>2, <2>1
<1>6. IdsIn(s) = {Head(s).id} \cup IdsIn(Tail(s))
  BY <1>3, <1>4, <1>5 DEF IdsIn
<1> QED BY <1>1, <1>3, <1>4, <1>6

\* A call of AddL2 that finds room adds one transaction at the end.
LEMMA AddL2Range ==
  ASSUME TypeOK, NEW tx \in Tx, AddL2(tx)
  PROVE  /\ queue' \in Seq(Tx)
         /\ Full => queue' = queue
         /\ ~Full => /\ \A i \in DOMAIN queue : i \in DOMAIN queue' /\ queue'[i] = queue[i]
                     /\ \A i \in DOMAIN queue' :
                           i \in DOMAIN queue \/ (i = Len(queue) + 1 /\ queue'[i] = Resolved(tx))
                     /\ Len(queue) + 1 \in DOMAIN queue' /\ Len(queue) + 1 \notin DOMAIN queue
                     /\ IdsIn(queue') = IdsIn(queue) \cup {tx.id}
<1>1. Resolved(tx) \in Tx /\ Resolved(tx).id = tx.id /\ queue \in Seq(Tx)
  BY ResolvedType DEF TypeOK
<1>2. CASE Full
  BY <1>1, <1>2 DEF AddL2
<1>3. CASE ~Full
  <2>1. queue' = Append(queue, Resolved(tx))
    BY <1>3 DEF AddL2
  <2>2. /\ queue' \in Seq(Tx) /\ Len(queue') = Len(queue) + 1
        /\ \A i \in 1 .. Len(queue) : queue'[i] = queue[i]
        /\ queue'[Len(queue) + 1] = Resolved(tx)
    BY <1>1, <2>1, AppendProperties
  <2>3. /\ Len(queue) \in Nat /\ DOMAIN queue = 1 .. Len(queue)
        /\ DOMAIN queue' = 1 .. Len(queue) + 1
    BY <1>1, <2>2, LenProperties
  <2>4. \A i : i \in DOMAIN queue' <=> i \in DOMAIN queue \/ i = Len(queue) + 1
    BY <2>3
  <2>6. Len(queue) + 1 \notin DOMAIN queue
    BY <2>3
  <2>7. /\ \A i \in DOMAIN queue : queue'[i] = queue[i]
        /\ queue'[Len(queue) + 1] = Resolved(tx)
    BY <2>2, <2>3
  <2>5. IdsIn(queue') = IdsIn(queue) \cup {tx.id}
    BY <1>1, <2>4, <2>7 DEF IdsIn
  <2> QED BY <1>3, <2>2, <2>4, <2>5, <2>6, <2>7
<1> QED BY <1>2, <1>3

\* A concatenation holds only members of P if both of its parts do.
LEMMA ConcatWithin ==
  ASSUME NEW P, NEW s \in Seq(Tx), NEW t \in Seq(Tx),
         \A i \in DOMAIN s : s[i] \in P, \A i \in DOMAIN t : t[i] \in P
  PROVE  \A i \in DOMAIN (s \o t) : (s \o t)[i] \in P
  BY ConcatRange

-----------------------------------------------------------------------------
(***************************************************************************)
(* The recipient.  Every copy of a transaction that is anywhere in the     *)
(* process or at the Core comes from one accepted transaction, whose       *)
(* recipient it carries, unless that one was an unknown name.              *)
(***************************************************************************)
Comes(t, from) ==
    /\ t.id = from.id
    /\ t.to # from.to => from.to \in Names /\ t.to \in Addrs

Genuine == {t \in Tx : \E j \in DOMAIN accepted : Comes(t, accepted[j])}

OriginInv ==
    /\ TypeOK
    /\ \A r \in Names : identity[r] \in Addrs \cup {NoValue}
    /\ \A i \in DOMAIN queue : queue[i] \in Genuine
    /\ \A i \in DOMAIN batch : batch[i] \in Genuine
    /\ \A i \in DOMAIN coreLog : coreLog[i] \in Genuine

\* Looking a recipient up again keeps a transaction genuine.
LEMMA ResolvedGenuine ==
  ASSUME OriginInv, NEW t \in Genuine
  PROVE  Resolved(t) \in Genuine
<1>1. t \in Tx /\ \E j \in DOMAIN accepted : Comes(t, accepted[j])
  BY DEF Genuine
<1>2. Resolved(t) \in Tx /\ Resolved(t).id = t.id
  BY <1>1, ResolvedType DEF OriginInv, TypeOK
<1>3. Resolved(t).to = t.to \/ (t.to \in Names /\ Resolved(t).to \in Addrs)
  BY <1>1 DEF Resolved, Resolve, OriginInv, Tx
<1>4. PICK j \in DOMAIN accepted : Comes(t, accepted[j])
  BY <1>1
<1>5. Comes(Resolved(t), accepted[j])
  <2>1. CASE Resolved(t).to = t.to
    BY <1>2, <1>4, <2>1 DEF Comes
  <2>2. CASE t.to \in Names /\ Resolved(t).to \in Addrs
    BY <1>2, <1>4, <2>2, MempoolAssumption DEF Comes
  <2> QED BY <1>3, <2>1, <2>2
<1> QED BY <1>2, <1>5 DEF Genuine

LEMMA OriginInit == Init => OriginInv
<1> SUFFICES ASSUME Init PROVE OriginInv
  OBVIOUS
<1>1. TypeOK
  BY TypeInit
<1>2. DOMAIN <<>> = {}
  OBVIOUS
<1>3. \A r \in Names : identity[r] = NoValue
  BY DEF Init, MempoolInit, Recipients
<1> QED BY <1>1, <1>2, <1>3 DEF Init, MempoolInit, OriginInv

LEMMA OriginStep == OriginInv /\ [Next]_vars => OriginInv'
<1> SUFFICES ASSUME OriginInv, [Next]_vars PROVE OriginInv'
  OBVIOUS
<1>t. TypeOK /\ TypeOK'
  BY TypeStep DEF OriginInv
<1>e. DOMAIN <<>> = {}
  OBVIOUS
<1>g. accepted' = accepted => Genuine' = Genuine
  BY DEF Genuine
<1>1. ASSUME NEW tx \in Tx, Submit(tx) PROVE OriginInv'
  <2>1. CASE Full
    BY <1>1, <1>t, <1>g, <2>1 DEF Submit, AddL2, relayerVars, OriginInv
  <2>2. CASE ~Full
    <3>1. /\ accepted \in Seq(Tx) /\ accepted' = Append(accepted, Resolved(tx))
          /\ Resolved(tx) \in Tx
      BY <1>1, <1>t, <2>2, ResolvedType DEF Submit, TypeOK
    <3>2. /\ Len(accepted') = Len(accepted) + 1
          /\ \A i \in 1 .. Len(accepted) : accepted'[i] = accepted[i]
          /\ accepted'[Len(accepted) + 1] = Resolved(tx)
      BY <3>1, AppendProperties
    <3>3. /\ DOMAIN accepted = 1 .. Len(accepted) /\ Len(accepted) \in Nat
          /\ DOMAIN accepted' = 1 .. Len(accepted) + 1
      BY <1>t, <3>2, LenProperties DEF TypeOK
    <3>4. \A j \in DOMAIN accepted : j \in DOMAIN accepted' /\ accepted'[j] = accepted[j]
      BY <3>2, <3>3
    <3>5. Len(accepted) + 1 \in DOMAIN accepted'
      BY <3>3
    <3>6. Genuine \subseteq Genuine'
      BY <3>4 DEF Genuine
    <3>7. Resolved(tx) \in Genuine'
      BY <3>1, <3>2, <3>5 DEF Genuine, Comes
    <3>8. \A i \in DOMAIN queue' : queue'[i] \in Genuine'
      BY <1>1, <1>t, <2>2, <3>6, <3>7, AddL2Range DEF Submit, OriginInv
    <3> QED BY <1>1, <1>t, <3>6, <3>8 DEF Submit, relayerVars, OriginInv
  <2> QED BY <2>1, <2>2
<1>2. ASSUME NEW a \in Addrs, NEW names \in SUBSET Aliases, Register(a, names)
      PROVE  OriginInv'
  <2>1. \A r \in Names : r # a
    BY MempoolAssumption
  <2>2. \A r \in Names : identity'[r] \in {a, identity[r]}
    BY <1>2, <2>1 DEF Register, CreateWallet, Recipients
  <2>3. \A r \in Names : identity'[r] \in Addrs \cup {NoValue}
    BY <2>2 DEF OriginInv
  <2> QED BY <1>2, <1>t, <1>g, <2>3 DEF Register, relayerVars, OriginInv
<1>3. CASE Idle \/ UNCHANGED vars
  BY <1>3, <1>t, <1>g DEF Idle, vars, OriginInv
<1>4. CASE StartPost
  BY <1>4, <1>t, <1>g, <1>e DEF StartPost, Flush, OriginInv
<1>5. ASSUME NEW n \in 0 .. Len(batch), CoreTakes(n) PROVE OriginInv'
  <2>1. \A i \in DOMAIN SubSeq(batch, 1, n) : SubSeq(batch, 1, n)[i] \in Genuine
    BY <1>t, PrefixRange DEF TypeOK, OriginInv
  <2>2. SubSeq(batch, 1, n) \in Seq(Tx)
    BY <1>t, PrefixRange DEF TypeOK
  <2>3. \A i \in DOMAIN coreLog' : coreLog'[i] \in Genuine
    BY <1>5, <1>t, <2>1, <2>2, ConcatWithin DEF CoreTakes, TypeOK, OriginInv
  <2> QED BY <1>5, <1>t, <1>g, <2>3 DEF CoreTakes, OriginInv
<1>6. CASE ReplyOK
  BY <1>6, <1>t, <1>g, <1>e DEF ReplyOK, OriginInv
<1>7. CASE ReplyFails
  BY <1>7, <1>t, <1>g DEF ReplyFails, OriginInv
<1>8. CASE Requeue
  <2>1. /\ Head(batch) \in Tx /\ Head(batch) \in Genuine
        /\ \A i \in DOMAIN batch' : batch'[i] \in Genuine
    BY <1>8, <1>t, HeadTailRange DEF Requeue, TypeOK, OriginInv
  <2>2. Resolved(Head(batch)) \in Genuine
    BY <2>1, ResolvedGenuine
  <2>3. \A i \in DOMAIN queue' : queue'[i] \in Genuine
    BY <1>8, <1>t, <2>1, <2>2, AddL2Range DEF Requeue, OriginInv
  <2> QED BY <1>8, <1>t, <1>g, <2>1, <2>3 DEF Requeue, OriginInv
<1>9. CASE RequeueDone
  BY <1>9, <1>t, <1>g DEF RequeueDone, mempoolVars, OriginInv
<1>10. CASE Crash
  BY <1>10, <1>t, <1>g, <1>e DEF Crash, OriginInv
<1> QED
  BY <1>1, <1>2, <1>3, <1>4, <1>5, <1>6, <1>7, <1>8, <1>9, <1>10
  DEF Next, RelayerStep

\* However often a transaction is queued and looked up again, the Core sees the
\* recipient with which AddL2 accepted it, or the address of the unknown name
\* it was accepted with.
THEOREM RecipientKept == Spec => []RecipientFixed
<1>1. OriginInv => RecipientFixed
  BY DEF OriginInv, Genuine, Comes, RecipientFixed
<1> QED BY OriginInit, OriginStep, <1>1, PTL DEF Spec

-----------------------------------------------------------------------------
(***************************************************************************)
(* Copies and losses.  No id is in queue and batch twice, whatever is held *)
(* or taken was accepted, and a failure is what it takes for the Core to   *)
(* see something twice: an id that still waits was taken at most once per  *)
(* failure so far.                                                         *)
(***************************************************************************)
Distinct(txs) == \A i, j \in DOMAIN txs : txs[i].id = txs[j].id => i = j

Places(txs, id) == {i \in DOMAIN txs : txs[i].id = id}

PromiseInv ==
    /\ FIFOInv
    /\ Distinct(queue) /\ Distinct(batch)
    /\ IdsIn(queue) \cap IdsIn(batch) = {}
    /\ Held \cup IdsIn(coreLog) \subseteq IdsIn(accepted)
    /\ \A i \in 1 .. took : batch[i].id \in IdsIn(coreLog)
    /\ \A id \in TxIds : CopiesAtCore(id) <= faults + 1
    /\ \A id \in IdsIn(queue) : CopiesAtCore(id) <= faults
    /\ \A i \in DOMAIN batch : i > took => CopiesAtCore(batch[i].id) <= faults

\* A list of transactions has ids of TxIds, the empty list has none.
LEMMA IdsType ==
  /\ \A txs \in Seq(Tx) : IdsIn(txs) \subseteq TxIds
  /\ IdsIn(<<>>) = {} /\ Distinct(<<>>)
<1>1. ASSUME NEW txs \in Seq(Tx), NEW i \in DOMAIN txs PROVE txs[i].id \in TxIds
  <2>1. txs[i] \in Tx
    BY LenProperties
  <2> QED BY <2>1 DEF Tx
<1>2. DOMAIN <<>> = {}
  OBVIOUS
<1> QED BY <1>1, <1>2 DEF IdsIn, Distinct

\* Taking a list of distinct ids adds one copy of each of them.
LEMMA CopiesGrow ==
  ASSUME NEW log \in Seq(Tx), NEW new \in Seq(Tx), Distinct(new), NEW id
  PROVE  /\ Cardinality(Places(log, id)) \in Nat
         /\ Cardinality(Places(log, id)) = 0 <=> id \notin IdsIn(log)
         /\ Cardinality(Places(log \o new, id)) =
               IF id \in IdsIn(new) THEN Cardinality(Places(log, id)) + 1
                                    ELSE Cardinality(Places(log, id))
<1>1. DOMAIN log = 1 .. Len(log) /\ Len(log) \in Nat
  BY LenProperties
<1>2. IsFiniteSet(DOMAIN log)
  BY <1>1, FS_Interval
<1>3. Places(log, id) \in SUBSET DOMAIN log
  BY DEF Places
<1>4. IsFiniteSet(Places(log, id)) /\ Cardinality(Places(log, id)) \in Nat
  BY <1>2, <1>3, FS_Subset, FS_CardinalityType
<1>5. Cardinality(Places(log, id)) = 0 <=> Places(log, id) = {}
  BY <1>4, FS_EmptySet
<1>6. Places(log, id) = {} <=> id \notin IdsIn(log)
  BY DEF Places, IdsIn
<1>7. CASE id \notin IdsIn(new)
  <2>1. \A i \in DOMAIN new : new[i].id # id
    BY <1>7 DEF IdsIn
  <2>2. Places(log \o new, id) = Places(log, id)
    BY <2>1, ConcatRange DEF Places
  <2> QED BY <1>4, <1>5, <1>6, <1>7, <2>2
<1>8. CASE id \in IdsIn(new)
  <2>1. PICK k \in DOMAIN new : new[k].id = id
    BY <1>8 DEF IdsIn
  <2>2. DOMAIN new = 1 .. Len(new) /\ Len(new) \in Nat
    BY LenProperties
  <2>3. Len(log) + k \notin DOMAIN log
    BY <1>1, <2>2
  <2>4. \A i \in DOMAIN (log \o new) : i > Len(log) /\ i - Len(log) = k => i = Len(log) + k
    <3>1. DOMAIN (log \o new) = 1 .. Len(log \o new)
      BY ConcatRange, LenProperties
    <3> QED BY <1>1, <2>2, <3>1
  <2>5. \A i \in DOMAIN new : new[i].id = id <=> i = k
    BY <2>1 DEF Distinct
  <2>6. Places(log \o new, id) = Places(log, id) \cup {Len(log) + k}
    <3>1. Places(log \o new, id) \subseteq Places(log, id) \cup {Len(log) + k}
      BY <2>4, <2>5, ConcatRange DEF Places
    <3>2. Places(log, id) \cup {Len(log) + k} \subseteq Places(log \o new, id)
      BY <2>1, ConcatRange DEF Places
    <3> QED BY <3>1, <3>2
  <2>7. Len(log) + k \notin Places(log, id)
    BY <2>3 DEF Places
  <2>8. Cardinality(Places(log \o new, id)) = Cardinality(Places(log, id)) + 1
    BY <1>4, <2>6, <2>7, FS_AddElement
  <2> QED BY <1>4, <1>5, <1>6, <1>8, <2>8
<1> QED BY <1>7, <1>8

\* How many copies of an id the Core has.
LEMMA CopiesKnown ==
  ASSUME TypeOK, NEW id
  PROVE  CopiesAtCore(id) \in Nat /\ (CopiesAtCore(id) = 0 <=> id \notin IdsIn(coreLog))
<1>1. CopiesAtCore(id) = Cardinality(Places(coreLog, id))
  BY DEF CopiesAtCore, Places
<1>2. <<>> \in Seq(Tx) /\ coreLog \in Seq(Tx)
  BY DEF TypeOK
<1> QED BY <1>1, <1>2, IdsType, CopiesGrow

\* What one post adds to the copies at the Core.
LEMMA CopiesTaken ==
  ASSUME TypeOK, Distinct(batch), NEW n \in 0 .. Len(batch), CoreTakes(n), NEW id
  PROVE  CopiesAtCore(id)' = IF id \in IdsIn(SubSeq(batch, 1, n))
                             THEN CopiesAtCore(id) + 1 ELSE CopiesAtCore(id)
<1>1. batch \in Seq(Tx) /\ coreLog \in Seq(Tx)
  BY DEF TypeOK
<1>2. SubSeq(batch, 1, n) \in Seq(Tx)
  BY <1>1, PrefixRange
<1>3. Distinct(SubSeq(batch, 1, n))
  BY <1>1, PrefixRange DEF Distinct
<1>4. coreLog' = coreLog \o SubSeq(batch, 1, n)
  BY DEF CoreTakes
<1>5. /\ CopiesAtCore(id) = Cardinality(Places(coreLog, id))
      /\ CopiesAtCore(id)' = Cardinality(Places(coreLog', id))
  BY DEF CopiesAtCore, Places
<1> QED BY <1>1, <1>2, <1>3, <1>4, <1>5, CopiesGrow

\* Distinct ids stay distinct when a new one is queued and when one is removed.
LEMMA DistinctKept ==
  ASSUME TypeOK
  PROVE  /\ \A tx \in Tx : AddL2(tx) /\ Distinct(queue) /\ tx.id \notin IdsIn(queue)
                            => Distinct(queue')
         /\ batch # <<>> /\ Distinct(batch)
               => Distinct(Tail(batch)) /\ Head(batch).id \notin IdsIn(Tail(batch))
<1>1. ASSUME NEW tx \in Tx, AddL2(tx), Distinct(queue), tx.id \notin IdsIn(queue)
      PROVE  Distinct(queue')
  <2>1. CASE Full
    BY <1>1, <2>1, AddL2Range
  <2>2. CASE ~Full
    <3>1. Resolved(tx).id = tx.id
      BY ResolvedType DEF TypeOK
    <3>2. \A i \in DOMAIN queue : queue[i].id # tx.id
      BY <1>1 DEF IdsIn
    <3>3. /\ \A i \in DOMAIN queue : i \in DOMAIN queue' /\ queue'[i] = queue[i]
          /\ \A i \in DOMAIN queue' :
                i \in DOMAIN queue \/ (i = Len(queue) + 1 /\ queue'[i] = Resolved(tx))
      BY <1>1, <2>2, AddL2Range
    <3> QED BY <1>1, <3>1, <3>2, <3>3 DEF Distinct
  <2> QED BY <2>1, <2>2
<1>2. ASSUME batch # <<>>, Distinct(batch)
      PROVE  Distinct(Tail(batch)) /\ Head(batch).id \notin IdsIn(Tail(batch))
  <2>1. /\ 1 \in DOMAIN batch /\ Head(batch) = batch[1]
        /\ \A i \in DOMAIN Tail(batch) :
              i + 1 \in DOMAIN batch /\ i \in Nat /\ Tail(batch)[i] = batch[i + 1]
    BY <1>2, HeadTailRange DEF TypeOK
  <2>2. Distinct(Tail(batch))
    <3> SUFFICES ASSUME NEW i \in DOMAIN Tail(batch), NEW j \in DOMAIN Tail(batch),
                        Tail(batch)[i].id = Tail(batch)[j].id
                 PROVE  i = j
      BY DEF Distinct
    <3>1. i + 1 = j + 1
      BY <1>2, <2>1 DEF Distinct
    <3> QED BY <2>1, <3>1
  <2>3. ASSUME NEW i \in DOMAIN Tail(batch) PROVE Tail(batch)[i].id # Head(batch).id
    <3>1. i + 1 # 1 /\ i + 1 \in DOMAIN batch
      BY <2>1
    <3> QED BY <1>2, <2>1, <3>1 DEF Distinct
  <2> QED BY <2>2, <2>3 DEF IdsIn
<1> QED BY <1>1, <1>2

LEMMA PromiseInit == Init => PromiseInv
<1> SUFFICES ASSUME Init PROVE PromiseInv
  OBVIOUS
<1>1. TypeOK /\ FIFOInv
  BY FIFOInit DEF FIFOInv
<1>2. queue = <<>> /\ batch = <<>> /\ coreLog = <<>> /\ took = 0 /\ faults = 0
  BY DEF Init, MempoolInit
<1>3. \A id : CopiesAtCore(id) = 0
  BY <1>1, <1>2, CopiesKnown, IdsType
<1>4. DOMAIN batch = {} /\ 1 .. took = {}
  BY <1>2
<1> QED BY <1>1, <1>2, <1>3, <1>4, IdsType DEF PromiseInv, Held

LEMMA PromiseStep == PromiseInv /\ [Next]_vars => PromiseInv'
<1> SUFFICES ASSUME PromiseInv, [Next]_vars PROVE PromiseInv'
  OBVIOUS
<1> USE DEF PromiseInv, Held
<1>f. FIFOInv' /\ FIFOInv
  BY FIFOStep
<1>t. /\ TypeOK /\ TypeOK' /\ faults \in Nat /\ took \in Nat
      /\ queue \in Seq(Tx) /\ batch \in Seq(Tx) /\ coreLog \in Seq(Tx)
      /\ accepted \in Seq(Tx) /\ faults' \in Nat
  BY <1>f DEF FIFOInv, TypeOK
<1>c. coreLog' = coreLog => \A id : CopiesAtCore(id)' = CopiesAtCore(id)
  BY DEF CopiesAtCore
<1>n. \A id : CopiesAtCore(id) \in Nat /\ (CopiesAtCore(id) = 0 <=> id \notin IdsIn(coreLog))
  BY <1>t, CopiesKnown
<1>e. DOMAIN <<>> = {}
  OBVIOUS
<1>1. ASSUME NEW tx \in Tx, Submit(tx) PROVE PromiseInv'
  <2>1. CASE Full
    <3>1. UNCHANGED <<queue, batch, took, relayer, coreLog, accepted, faults>>
      BY <1>1, <2>1 DEF Submit, AddL2, relayerVars
    <3> QED BY <3>1, <1>f, <1>c
  <2>2. CASE ~Full
    <3>1. /\ UNCHANGED <<batch, took, coreLog, faults>> /\ AddL2(tx)
          /\ tx.id \notin IdsIn(accepted) /\ tx.id \in TxIds
          /\ accepted' = accepted \o <<Resolved(tx)>>
      BY <1>1, <1>t, <2>2, ResolvedType, AppendIsConcat DEF Submit, relayerVars, Tx, TypeOK
    <3>2. IdsIn(accepted') = IdsIn(accepted) \cup {tx.id}
      <4>1. <<Resolved(tx)>> \in Seq(Tx) /\ IdsIn(<<Resolved(tx)>>) = {tx.id}
        BY <1>t, ResolvedType DEF TypeOK, IdsIn
      <4>2. PICK one \in Seq(Tx) : one = <<Resolved(tx)>>
        BY <4>1
      <4>3. IdsIn(accepted \o one) = IdsIn(accepted) \cup IdsIn(one)
        BY <1>t, ConcatRange
      <4> QED BY <3>1, <4>1, <4>2, <4>3
    <3>3. IdsIn(queue') = IdsIn(queue) \cup {tx.id}
      BY <1>t, <2>2, <3>1, AddL2Range
    <3>4. Distinct(queue')
      BY <1>t, <3>1, DistinctKept
    <3>5. CopiesAtCore(tx.id) = 0
      BY <1>n, <3>1
    <3>6. \A id \in IdsIn(queue') : CopiesAtCore(id) <= faults
      BY <1>t, <3>3, <3>5
    <3>7. IdsIn(queue') \cap IdsIn(batch) = {}
      BY <3>1, <3>3
    <3>8. IdsIn(queue') \cup IdsIn(batch) \cup IdsIn(coreLog) \subseteq IdsIn(accepted')
      BY <3>2, <3>3
    <3>9. \A id : CopiesAtCore(id)' = CopiesAtCore(id)
      BY <1>c, <3>1
    <3>10. \A id \in IdsIn(queue') : CopiesAtCore(id)' <= faults'
      BY <3>1, <3>6, <3>9
    <3>11. \A id \in TxIds : CopiesAtCore(id)' <= faults' + 1
      BY <3>1, <3>9
    <3>12. \A i \in DOMAIN batch' : i > took' => CopiesAtCore(batch[i].id)' <= faults'
      BY <3>1, <3>9
    <3>13. \A i \in 1 .. took' : batch'[i].id \in IdsIn(coreLog')
      BY <3>1
    <3>14. Distinct(batch')
      BY <3>1
    <3>15. IdsIn(queue') \cap IdsIn(batch') = {} /\ Held' \cup IdsIn(coreLog') \subseteq IdsIn(accepted')
      BY <3>1, <3>7, <3>8
    <3> QED BY <1>f, <3>4, <3>10, <3>11, <3>12, <3>13, <3>14, <3>15
  <2> QED BY <2>1, <2>2
<1>2. ASSUME UNCHANGED <<queue, batch, took, coreLog, accepted, faults>>
      PROVE  PromiseInv'
  BY <1>2, <1>f, <1>c
<1>3. CASE StartPost
  <2>1. /\ batch = <<>> /\ took' = 0 /\ batch' = queue /\ queue' = <<>>
        /\ UNCHANGED <<coreLog, accepted, faults>>
    BY <1>3, <1>f DEF StartPost, Flush, FIFOInv, LoopInv
  <2>2. \A i \in DOMAIN queue : CopiesAtCore(queue[i].id) <= faults
    BY DEF IdsIn
  <2>3. 1 .. 0 = {}
    OBVIOUS
  <2> QED BY <1>f, <1>c, <2>1, <2>2, <2>3, IdsType
<1>4. ASSUME NEW n \in 0 .. Len(batch), CoreTakes(n) PROVE PromiseInv'
  <2>1. /\ took = 0 /\ took' = n /\ coreLog' = coreLog \o SubSeq(batch, 1, n)
        /\ UNCHANGED <<queue, batch, accepted, faults>>
    BY <1>4, <1>f DEF CoreTakes, FIFOInv, LoopInv
  <2>2. /\ SubSeq(batch, 1, n) \in Seq(Tx)
        /\ IdsIn(SubSeq(batch, 1, n)) = {batch[i].id : i \in 1 .. n}
        /\ 1 .. n \subseteq DOMAIN batch
    BY <1>t, PrefixRange
  <2>3. IdsIn(coreLog') = IdsIn(coreLog) \cup {batch[i].id : i \in 1 .. n}
    <3>1. PICK part \in Seq(Tx) : part = SubSeq(batch, 1, n)
      BY <2>2
    <3>2. IdsIn(coreLog \o part) = IdsIn(coreLog) \cup IdsIn(part)
      BY <1>t, ConcatRange
    <3> QED BY <2>1, <2>2, <3>1, <3>2
  <2>4. \A id : CopiesAtCore(id)' = IF id \in {batch[i].id : i \in 1 .. n}
                                    THEN CopiesAtCore(id) + 1 ELSE CopiesAtCore(id)
    BY <1>t, <1>4, <2>2, CopiesTaken
  <2>5. {batch[i].id : i \in 1 .. n} \subseteq IdsIn(batch)
    BY <2>2 DEF IdsIn
  <2>6. \A i \in DOMAIN batch : i > 0 /\ CopiesAtCore(batch[i].id) <= faults
    <3>1. \A i \in DOMAIN batch : i > 0
      BY <1>t, LenProperties
    <3> QED BY <2>1, <3>1
  <2>7. \A id \in TxIds : CopiesAtCore(id)' <= faults + 1
    <3> SUFFICES ASSUME NEW id \in TxIds PROVE CopiesAtCore(id)' <= faults + 1
      OBVIOUS
    <3>1. CASE id \in {batch[i].id : i \in 1 .. n}
      <4>1. PICK i \in 1 .. n : id = batch[i].id
        BY <3>1
      <4>2. CopiesAtCore(id) <= faults
        BY <2>2, <2>6, <4>1
      <4>3. CopiesAtCore(id)' = CopiesAtCore(id) + 1 /\ CopiesAtCore(id) \in Nat
        BY <1>n, <2>4, <3>1
      <4> QED BY <1>t, <4>2, <4>3
    <3>2. CASE id \notin {batch[i].id : i \in 1 .. n}
      BY <2>4, <3>2
    <3> QED BY <3>1, <3>2
  <2>8. \A id \in IdsIn(queue) : CopiesAtCore(id)' <= faults
    BY <2>4, <2>5
  <2>9. \A i \in DOMAIN batch : i > n => CopiesAtCore(batch[i].id)' <= faults
    <3> SUFFICES ASSUME NEW i \in DOMAIN batch, i > n
                 PROVE  CopiesAtCore(batch[i].id)' <= faults
      OBVIOUS
    <3>1. batch[i].id \notin {batch[j].id : j \in 1 .. n}
      <4> SUFFICES ASSUME NEW j \in 1 .. n, batch[i].id = batch[j].id PROVE FALSE
        OBVIOUS
      <4>1. i = j
        BY <2>2 DEF Distinct
      <4> QED BY <4>1
    <3> QED BY <2>1, <2>4, <2>6, <3>1
  <2>10. IdsIn(queue) \cup IdsIn(batch) \cup IdsIn(coreLog') \subseteq IdsIn(accepted)
    BY <2>3, <2>5
  <2>11. \A i \in 1 .. n : batch[i].id \in IdsIn(coreLog')
    BY <2>3
  <2> QED BY <1>f, <2>1, <2>7, <2>8, <2>9, <2>10, <2>11
<1>5. CASE ReplyOK \/ Crash
  <2>1. /\ batch' = <<>> /\ took' = 0 /\ queue' \in {queue, <<>>}
        /\ UNCHANGED <<coreLog, accepted>> /\ faults' \in {faults, faults + 1}
    BY <1>5 DEF ReplyOK, Crash
  <2>2. 1 .. 0 = {}
    OBVIOUS
  <2>3. \A id \in TxIds : CopiesAtCore(id)' <= faults' + 1
    BY <1>t, <1>c, <1>n, <2>1
  <2>4. \A id \in IdsIn(queue') : CopiesAtCore(id)' <= faults'
    BY <1>t, <1>c, <1>n, <2>1, IdsType
  <2>5. Distinct(queue') /\ IdsIn(queue') \subseteq IdsIn(queue)
    BY <2>1, IdsType
  <2>6. Distinct(batch') /\ IdsIn(batch') = {} /\ DOMAIN batch' = {} /\ 1 .. took' = {}
    BY <1>e, <2>1, <2>2, IdsType
  <2>7. IdsIn(coreLog') = IdsIn(coreLog) /\ IdsIn(accepted') = IdsIn(accepted)
    BY <2>1
  <2> QED BY <1>f, <2>3, <2>4, <2>5, <2>6, <2>7
<1>6. CASE ReplyFails
  <2>1. /\ took' = 0 /\ faults' = faults + 1
        /\ UNCHANGED <<queue, batch, coreLog, accepted>>
    BY <1>6 DEF ReplyFails
  <2>2. 1 .. 0 = {}
    OBVIOUS
  <2>3. \A id \in TxIds : CopiesAtCore(id)' <= faults' /\ CopiesAtCore(id)' <= faults' + 1
    BY <1>t, <1>c, <1>n, <2>1
  <2>4. IdsIn(queue) \subseteq TxIds /\ \A i \in DOMAIN batch : batch[i].id \in TxIds
    BY <1>t, IdsType DEF IdsIn
  <2> QED BY <1>f, <2>1, <2>2, <2>3, <2>4
<1>7. CASE Requeue
  <2>1. /\ batch # <<>> /\ AddL2(Head(batch)) /\ batch' = Tail(batch) /\ took = 0
        /\ UNCHANGED <<took, coreLog, accepted, faults>>
    BY <1>7, <1>f DEF Requeue, FIFOInv, LoopInv
  <2>2. /\ Head(batch) \in Tx /\ 1 \in DOMAIN batch /\ Head(batch) = batch[1]
        /\ \A i \in DOMAIN Tail(batch) :
              i + 1 \in DOMAIN batch /\ i \in Nat /\ Tail(batch)[i] = batch[i + 1]
        /\ IdsIn(batch) = {Head(batch).id} \cup IdsIn(Tail(batch))
    BY <1>t, <2>1, HeadTailRange
  <2>3. Distinct(batch') /\ Head(batch).id \notin IdsIn(batch')
    BY <1>t, <2>1, DistinctKept
  <2>4. Distinct(queue')
    <3>1. Head(batch).id \notin IdsIn(queue)
      BY <2>2
    <3> QED BY <1>t, <2>1, <2>2, <3>1, DistinctKept
  <2>5. IdsIn(queue') \subseteq IdsIn(queue) \cup {Head(batch).id}
    BY <1>t, <2>1, <2>2, AddL2Range
  <2>6. \A id \in IdsIn(queue') : CopiesAtCore(id) <= faults
    BY <2>1, <2>2, <2>5
  <2>7. \A i \in DOMAIN batch' : CopiesAtCore(batch'[i].id) <= faults
    <3> SUFFICES ASSUME NEW i \in DOMAIN Tail(batch)
                 PROVE  CopiesAtCore(Tail(batch)[i].id) <= faults
      BY <2>1
    <3>1. i + 1 \in DOMAIN batch /\ i + 1 > took /\ Tail(batch)[i] = batch[i + 1]
      BY <2>1, <2>2
    <3> QED BY <3>1
  <2>8. 1 .. took' = {}
    BY <2>1
  <2>9. /\ IdsIn(queue') \cap IdsIn(batch') = {}
        /\ IdsIn(queue') \cup IdsIn(batch') \subseteq IdsIn(queue) \cup IdsIn(batch)
    BY <2>1, <2>2, <2>3, <2>5
  <2> QED BY <1>f, <1>c, <2>1, <2>3, <2>4, <2>6, <2>7, <2>8, <2>9
<1> QED
  <2>1. ASSUME NEW a \in Addrs, NEW names \in SUBSET Aliases, Register(a, names)
        PROVE  UNCHANGED <<queue, batch, took, coreLog, accepted, faults>>
    BY <2>1 DEF Register, relayerVars
  <2>2. CASE Idle \/ RequeueDone \/ UNCHANGED vars
    BY <1>2, <2>2 DEF Idle, RequeueDone, vars, mempoolVars
  <2> QED BY <1>1, <1>2, <1>3, <1>4, <1>5, <1>6, <1>7, <2>1, <2>2 DEF Next, RelayerStep

\* What a step may make the process forget.
LEMMA LossStep ==
  ASSUME PromiseInv, [Next]_vars, NEW id \in Held \ Held'
  PROVE  \/ id \in IdsIn(coreLog)
         \/ relayer = "requeue" /\ Full
         \/ Crash
<1> USE DEF PromiseInv, Held
<1>t. TypeOK /\ FIFOInv /\ batch \in Seq(Tx) /\ queue \in Seq(Tx)
  BY DEF FIFOInv, TypeOK
<1>1. CASE \E tx \in Tx : Submit(tx)
  <2>1. PICK tx \in Tx : AddL2(tx) /\ batch' = batch
    BY <1>1 DEF Submit, relayerVars
  <2>2. IdsIn(queue) \subseteq IdsIn(queue') /\ IdsIn(batch') = IdsIn(batch)
    BY <1>t, <2>1, AddL2Range
  <2> QED BY <2>2
<1>2. CASE UNCHANGED <<queue, batch>>
  BY <1>2
<1>3. CASE StartPost
  <2>1. batch = <<>> /\ batch' = queue
    BY <1>3, <1>t DEF StartPost, FIFOInv, LoopInv
  <2> QED BY <2>1, IdsType
<1>4. CASE ReplyOK
  <2>1. took = Len(batch) /\ queue' = queue
    BY <1>4 DEF ReplyOK
  <2>2. DOMAIN batch = 1 .. took
    BY <1>t, <2>1, LenProperties
  <2>3. IdsIn(batch) \subseteq IdsIn(coreLog)
    BY <2>2 DEF IdsIn
  <2>4. id \in IdsIn(batch)
    BY <2>1
  <2> QED BY <2>3, <2>4
<1>5. CASE Requeue
  <2>1. /\ relayer = "requeue" /\ batch # <<>> /\ AddL2(Head(batch)) /\ batch' = Tail(batch)
    BY <1>5 DEF Requeue
  <2>2. Head(batch) \in Tx /\ IdsIn(batch) = {Head(batch).id} \cup IdsIn(Tail(batch))
    BY <1>t, <2>1, HeadTailRange
  <2>3. ~Full => IdsIn(queue') = IdsIn(queue) \cup {Head(batch).id}
    BY <1>t, <2>1, <2>2, AddL2Range
  <2> QED BY <2>1, <2>2, <2>3
<1>6. CASE Crash
  BY <1>6
<1> QED
  BY <1>1, <1>2, <1>3, <1>4, <1>5, <1>6
  DEF Next, RelayerStep, Register, Idle, CoreTakes, ReplyFails, RequeueDone, vars,
      relayerVars, mempoolVars

\* A transaction is forgotten only after the Core took it, by a crash, or by a
\* requeue that finds the queue full.
THEOREM LossHasCause == Spec => NoSilentLoss
<1>1. PromiseInv /\ [Next]_vars =>
        [\A id \in Held \ Held' :
            \/ id \in IdsIn(coreLog)
            \/ relayer = "requeue" /\ Full
            \/ Crash]_vars
  BY LossStep
<1> QED BY PromiseInit, PromiseStep, <1>1, PTL DEF Spec, NoSilentLoss

-----------------------------------------------------------------------------
(***************************************************************************)
(* Mempool and relayer implement the outbox, one action at a time: a       *)
(* submission that finds room accepts, the Core's taking takes, a reply    *)
(* settles, a failed post or a crash is a fault, a requeue spills when the *)
(* queue is full, and everything else is invisible to the client.          *)
(***************************************************************************)
LEMMA OutboxInit == Init => Promise!Init
<1> SUFFICES ASSUME Init PROVE Promise!Init
  OBVIOUS
<1>1. Held = {} /\ faults = 0
  BY IdsType DEF Init, MempoolInit, Held
<1>2. \A id : CopiesAtCore(id) = 0
  <2>1. TypeOK /\ coreLog = <<>>
    BY TypeInit DEF Init
  <2> QED BY <2>1, CopiesKnown, IdsType
<1> QED BY <1>1, <1>2 DEF Promise!Init

LEMMA OutboxStep == PromiseInv /\ [Next]_vars => [Promise!Next]_(Promise!outboxVars)
<1> SUFFICES ASSUME PromiseInv, [Next]_vars
             PROVE  Promise!Next \/ UNCHANGED Promise!outboxVars
  OBVIOUS
<1> DEFINE copies == [id \in TxIds |-> CopiesAtCore(id)]
<1>t. /\ TypeOK /\ FIFOInv /\ batch \in Seq(Tx) /\ queue \in Seq(Tx) /\ faults \in Nat
      /\ coreLog \in Seq(Tx)
  BY DEF PromiseInv, FIFOInv, TypeOK
<1>i. IdsIn(batch) \subseteq TxIds
  BY <1>t, IdsType
<1>n. \A id : CopiesAtCore(id) \in Nat /\ (CopiesAtCore(id) = 0 <=> id \notin IdsIn(coreLog))
  BY <1>t, CopiesKnown
<1>c. coreLog' = coreLog => copies' = copies
  BY DEF CopiesAtCore
<1>1. ASSUME NEW tx \in Tx, Submit(tx), ~Full PROVE Promise!Next
  <2>1. /\ tx.id \in TxIds /\ tx.id \notin Held /\ tx.id \notin IdsIn(coreLog)
        /\ AddL2(tx) /\ UNCHANGED <<batch, coreLog, faults>>
    BY <1>1 DEF Submit, Tx, PromiseInv, relayerVars
  <2>2. Held' = Held \cup {tx.id}
    BY <1>t, <1>1, <2>1, AddL2Range DEF Held
  <2>3. copies[tx.id] = 0
    BY <1>n, <2>1
  <2>4. Promise!Accept(tx.id)
    BY <1>c, <2>1, <2>2, <2>3 DEF Promise!Accept
  <2> QED BY <2>1, <2>4 DEF Promise!Next
<1>2. ASSUME NEW n \in 0 .. Len(batch), CoreTakes(n) PROVE Promise!Next
  <2> DEFINE S == IdsIn(SubSeq(batch, 1, n))
  <2>1. took = 0 /\ UNCHANGED <<queue, batch, faults>>
    BY <1>2, <1>t DEF CoreTakes, FIFOInv, LoopInv
  <2>2. S = {batch[i].id : i \in 1 .. n} /\ \A i \in 1 .. n : i \in DOMAIN batch
    BY <1>t, PrefixRange
  <2>3. S \subseteq IdsIn(batch)
    BY <2>2 DEF IdsIn
  <2>4. \A id \in S : CopiesAtCore(id) <= faults
    <3>1. \A i \in 1 .. n : CopiesAtCore(batch[i].id) <= faults
      BY <2>1, <2>2 DEF PromiseInv
    <3> QED BY <2>2, <3>1
  <2>5. \A id : CopiesAtCore(id)' = IF id \in S THEN CopiesAtCore(id) + 1 ELSE CopiesAtCore(id)
    BY <1>2, <1>t, CopiesTaken DEF PromiseInv
  <2>6. Held' = Held /\ S \in SUBSET Held
    BY <2>1, <2>3 DEF Held
  <2> HIDE DEF S
  <2>7. Promise!Take(S)
    BY <1>i, <2>1, <2>3, <2>4, <2>5, <2>6 DEF Promise!Take
  <2> QED BY <2>6, <2>7 DEF Promise!Next
<1>3. CASE ReplyOK
  <2>1. /\ took = Len(batch) /\ batch' = <<>>
        /\ UNCHANGED <<queue, coreLog, faults>>
    BY <1>3 DEF ReplyOK
  <2>2. DOMAIN batch = 1 .. took
    BY <1>t, <2>1, LenProperties
  <2>3. \A id \in IdsIn(batch) : id \in IdsIn(coreLog)
    BY <2>2 DEF IdsIn, PromiseInv
  <2>4. Held' = Held \ IdsIn(batch)
    BY <2>1, IdsType DEF Held, PromiseInv
  <2>5. \A id \in IdsIn(batch) : copies[id] > 0
    BY <1>i, <1>n, <2>3
  <2>6. Promise!Settle(IdsIn(batch))
    BY <1>c, <2>1, <2>4, <2>5 DEF Promise!Settle
  <2>7. IdsIn(batch) \in SUBSET Held
    BY DEF Held
  <2> QED BY <2>6, <2>7 DEF Promise!Next
<1>4. CASE ReplyFails \/ Crash
  <2>1. faults' = faults + 1 /\ UNCHANGED coreLog
    BY <1>4 DEF ReplyFails, Crash
  <2>2. Held' \in {Held, {}}
    BY <1>4, IdsType DEF ReplyFails, Crash, Held
  <2> QED BY <1>c, <2>1, <2>2 DEF Promise!Fault, Promise!Next
<1>5. CASE Requeue /\ Full
  <2>1. /\ batch # <<>> /\ AddL2(Head(batch)) /\ batch' = Tail(batch)
        /\ UNCHANGED <<coreLog, faults>> /\ faults > 0
    BY <1>5, <1>t DEF Requeue, FIFOInv, LoopInv
  <2>2. Head(batch) \in Tx /\ IdsIn(batch) = {Head(batch).id} \cup IdsIn(Tail(batch))
    BY <1>t, <2>1, HeadTailRange
  <2>3. queue' = queue
    BY <1>t, <1>5, <2>1, <2>2, AddL2Range
  <2>4. Head(batch).id \notin IdsIn(Tail(batch)) /\ Head(batch).id \notin IdsIn(queue)
    BY <1>t, <2>1, <2>2, DistinctKept DEF PromiseInv
  <2>5. Held' = Held \ {Head(batch).id} /\ Head(batch).id \in TxIds
    BY <1>i, <2>1, <2>2, <2>3, <2>4 DEF Held
  <2>6. Promise!Spill(Head(batch).id)
    BY <1>c, <2>1, <2>5 DEF Promise!Spill
  <2> QED BY <2>5, <2>6 DEF Promise!Next
<1>6. ASSUME Held' = Held, UNCHANGED <<coreLog, faults>>
      PROVE  UNCHANGED Promise!outboxVars
  BY <1>6, <1>c DEF Promise!outboxVars
<1>7. CASE StartPost
  <2>1. /\ batch = <<>> /\ batch' = queue /\ queue' = <<>> /\ UNCHANGED <<coreLog, faults>>
    BY <1>7, <1>t DEF StartPost, Flush, FIFOInv, LoopInv
  <2> QED BY <1>6, <2>1, IdsType DEF Held
<1>8. CASE Requeue /\ ~Full
  <2>1. /\ batch # <<>> /\ AddL2(Head(batch)) /\ batch' = Tail(batch)
        /\ UNCHANGED <<coreLog, faults>>
    BY <1>8 DEF Requeue
  <2>2. Head(batch) \in Tx /\ IdsIn(batch) = {Head(batch).id} \cup IdsIn(Tail(batch))
    BY <1>t, <2>1, HeadTailRange
  <2>3. IdsIn(queue') = IdsIn(queue) \cup {Head(batch).id}
    BY <1>t, <1>8, <2>1, <2>2, AddL2Range
  <2> QED BY <1>6, <2>1, <2>2, <2>3 DEF Held
<1>9. CASE UNCHANGED <<queue, batch, coreLog, faults>>
  BY <1>6, <1>9 DEF Held
<1> QED
  <2>1. ASSUME NEW tx \in Tx, Submit(tx), Full
        PROVE  UNCHANGED <<queue, batch, coreLog, faults>>
    BY <2>1 DEF Submit, AddL2, relayerVars
  <2>2. ASSUME NEW a \in Addrs, NEW names \in SUBSET Aliases, Register(a, names)
        PROVE  UNCHANGED <<queue, batch, coreLog, faults>>
    BY <2>2 DEF Register, relayerVars
  <2>3. CASE Idle \/ RequeueDone \/ UNCHANGED vars
    BY <1>9, <2>3 DEF Idle, RequeueDone, vars, mempoolVars
  <2> QED
    BY <1>1, <1>2, <1>3, <1>4, <1>5, <1>7, <1>8, <1>9, <2>1, <2>2, <2>3
    DEF Next, RelayerStep

\* Whatever the queue, the batches and the retries do inside, a client sees an
\* outbox: what it accepted is held until the Core has it, taken at most once
\* per failure and once more, and lost only after a failure.
THEOREM ImplementsOutbox == Spec => KeepsPromise
<1> QED
  BY PromiseInit, PromiseStep, OutboxInit, OutboxStep, PTL
  DEF Spec, KeepsPromise, Promise!Spec
=============================================================================
