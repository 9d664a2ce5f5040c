-------------------------- MODULE UtxoLedgerProofs --------------------------
(***************************************************************************)
(* Proofs about the UTXO handlers, for every set of requests, every        *)
(* overlap of them and every crash.                                        *)
(***************************************************************************)
EXTENDS UtxoLedger, UtxoRules, SequenceTheorems, FiniteSetTheorems, TLAPS

USE WordAssumption, LedgerAssumption

-----------------------------------------------------------------------------
\* What a request is and holds at every stage.
StageInv ==
    \A c \in Calls :
        /\ pc[c] \in {"mint", "change", "remove", "report"} => req[c] \in Payment
        /\ pc[c] \in {"take", "save", "getFrom", "putFrom", "getTo", "putTo"}
               => req[c] \in Move
        /\ pc[c] \in {"mint", "change", "remove", "take", "save"}
               => ToSet(todo[c]) \subseteq picked[c]
        /\ pc[c] \in {"change", "remove", "take", "save"} => todo[c] # <<>>
        /\ pc[c] = "mint" /\ todo[c] = <<>> => total[c] = 0
        /\ pc[c] \in {"take", "save"} => picked[c] = {Head(todo[c])}
        /\ pc[c] = "change" => total[c] > Need(req[c])

LedgerInv == TypeOK /\ IsFiniteSet(store) /\ StageInv

\* A sum of two words, cut to a word.
LEMMA NeedWord == ASSUME NEW r \in Payment PROVE Need(r) \in Words
  BY DEF Need, Payment, Words

LEMMA CutToWord == ASSUME NEW n \in Nat, n < Word PROVE n % Word = n
  OBVIOUS

LEMMA WorthEmpty == Worth({}) = 0
<1>1. Units(Amount, {}) = {}
  BY DEF Units
<1> QED BY <1>1, FS_EmptySet DEF Worth, Total

\* What a scan returns: some pieces of the address in some order, each once,
\* and their value in a word, which is enough.
LEMMA FoundPieces ==
  ASSUME TypeOK, IsFiniteSet(store), NEW a, NEW n, NEW k \in SpendUTXO(a, n)
  PROVE  /\ k.inputs \in Seq(Piece) /\ (k.inputs = <<>> => k.value = 0)
         /\ \A i, j \in DOMAIN k.inputs : k.inputs[i] = k.inputs[j] => i = j
         /\ ToSet(k.inputs) \subseteq Held(a) /\ IsFiniteSet(ToSet(k.inputs))
         /\ k.value \in Words /\ k.value = Value(ToSet(k.inputs)) /\ k.value >= n
<1>1. PICK S \in SUBSET Held(a) : Value(S) >= n /\ k.inputs \in SetToSeqs(S)
  BY DEF SpendUTXO
<1>2. IsFiniteSet(S) /\ S \subseteq Piece
  BY FS_Subset DEF Held, TypeOK
<1>3. Cardinality(S) \in Nat
  BY <1>2, FS_CardinalityType
<1> DEFINE D == 1 .. Cardinality(S)
<1>4. k.inputs \in [D -> S] /\ \A i, j \in D : i # j => k.inputs[i] # k.inputs[j]
  BY <1>1 DEF SetToSeqs
<1>5. k.inputs \in Seq(S) /\ Len(k.inputs) = Cardinality(S)
  BY <1>3, <1>4
<1>6. k.inputs \in Seq(Piece)
  BY <1>2, <1>3, <1>5
<1>7. ToSet(k.inputs) = S
  <2>1. IsFiniteSet(D) /\ Cardinality(D) = Cardinality(S)
    BY <1>3, FS_Interval
  <2>2. k.inputs \in Injection(D, S)
    BY <1>4 DEF Injection, IsInjective
  <2>3. k.inputs \in Surjection(D, S)
    BY <1>2, <2>1, <2>2, FS_Injection
  <2>4. DOMAIN k.inputs = D /\ \A p \in S : \E i \in D : k.inputs[i] = p
    BY <1>4, <2>3 DEF Surjection
  <2>5. \A i \in D : k.inputs[i] \in S
    BY <1>4
  <2> HIDE DEF D
  <2> QED BY <2>4, <2>5 DEF ToSet
<1>8. k.value \in Words /\ k.value = Value(ToSet(k.inputs))
  BY DEF SpendUTXO
<1>9. k.inputs = <<>> => k.value = 0
  <2>1. Worth({}) = 0 /\ ToSet(<<>>) = {}
    BY WorthEmpty DEF ToSet
  <2>2. 0 % Word = 0
    BY CutToWord
  <2> QED BY <1>8, <2>1, <2>2 DEF Value
<1> QED BY <1>1, <1>2, <1>4, <1>6, <1>7, <1>8, <1>9

\* The first element of a list of pieces, and what is left of it.
LEMMA HeadAndTail ==
  ASSUME NEW s \in Seq(Piece), s # <<>>
  PROVE  /\ Head(s) \in Piece /\ Head(s) \in ToSet(s)
         /\ Tail(s) \in Seq(Piece)
         /\ ToSet(Tail(s)) \subseteq ToSet(s)
         /\ Len(s) # 1 => Tail(s) # <<>>
<1>1. /\ Head(s) \in Piece /\ Tail(s) \in Seq(Piece) /\ Head(s) = s[1]
      /\ 1 \in DOMAIN s
      /\ Len(Tail(s)) = Len(s) - 1
      /\ \A j \in DOMAIN Tail(s) : j + 1 \in DOMAIN s /\ Tail(s)[j] = s[j + 1]
  BY HeadTailProperties, LenProperties
<1>2. Len(s) # 1 => Tail(s) # <<>>
  BY <1>1, LenProperties
<1>3. Head(s) \in ToSet(s)
  BY <1>1 DEF ToSet
<1>4. ToSet(Tail(s)) \subseteq ToSet(s)
  BY <1>1 DEF ToSet
<1> QED BY <1>1, <1>2, <1>3, <1>4

LEMMA LedgerInit == Init => LedgerInv
<1> SUFFICES ASSUME Init PROVE LedgerInv
  OBVIOUS
<1>1. /\ index \in [Addrs -> Lists] /\ copy \in [Calls -> Lists]
      /\ todo \in [Calls -> Seq(Piece)]
  BY EmptySeq DEF Init, Lists, EmptyList
<1>2. pc \in [Calls -> Stages] /\ total \in [Calls -> Words]
  BY DEF Init, Stages, Words
<1>3. req \in [Calls -> {NoReq} \cup Payment \cup Move] /\ picked \in [Calls -> SUBSET Piece]
  BY DEF Init
<1>4. TypeOK
  <2>1. store \subseteq Piece /\ dead \subseteq Calls /\ told \subseteq Calls
    BY DEF Init
  <2>2. crashes \in 0 .. MaxCrashes
    <3>1. MaxCrashes \in Nat /\ crashes = 0
      BY DEF Init
    <3> QED BY <3>1
  <2>4. raced \in BOOLEAN /\ wrapped \in BOOLEAN
    BY DEF Init
  <2>3. \A c \in Calls : req[c] = NoReq => pc[c] = "idle"
    BY DEF Init
  <2> QED BY <1>1, <1>2, <1>3, <2>1, <2>2, <2>3, <2>4 DEF TypeOK
<1>5. \A c \in Calls : pc[c] = "idle"
  BY DEF Init
<1>6. StageInv
  BY <1>5 DEF StageInv
<1> QED BY <1>4, <1>6 DEF LedgerInv, Init

\* Neither store call leaves the type of the store.
LEMMA StoreStep ==
  ASSUME LedgerInv, NEW p \in Piece
  PROVE  /\ SaveUTXO(p) => store' \subseteq Piece /\ IsFiniteSet(store')
         /\ RemoveUTXO(p) => store' \subseteq Piece /\ IsFiniteSet(store')
<1>1. SaveUTXO(p) => store' \subseteq store \cup {p}
  BY DEF SaveUTXO
<1>2. RemoveUTXO(p) => store' \subseteq store
  BY DEF RemoveUTXO
<1>3. IsFiniteSet(store \cup {p})
  BY FS_AddElement DEF LedgerInv
<1> QED BY <1>1, <1>2, <1>3, FS_Subset DEF LedgerInv, TypeOK

\* The scan of a request that finds its pieces.
LEMMA FindStep ==
  ASSUME LedgerInv, NEW c \in Calls, NEW r, NEW s, NEW v, NEW first,
         s \in Seq(Piece), v \in Words,
         \/ r \in Payment /\ first = "mint" /\ (s = <<>> => v = 0)
         \/ r \in Move /\ first = "take" /\ \E p \in Piece : s = <<p>>
         \/ r \in Move /\ first = "getFrom",
         Find(c, r, s, v, first), wrapped' \in BOOLEAN
  PROVE  LedgerInv'
<1>1. ToSet(s) \subseteq Piece
  BY ElementOfSeq, LenProperties DEF ToSet
<1>2. /\ pc' = [pc EXCEPT ![c] = first] /\ req' = [req EXCEPT ![c] = r]
      /\ picked' = [picked EXCEPT ![c] = ToSet(s)] /\ todo' = [todo EXCEPT ![c] = s]
      /\ total' = [total EXCEPT ![c] = v] /\ raced' \in BOOLEAN
      /\ UNCHANGED <<store, index, copy, dead, told, crashes>>
  BY DEF Find, LedgerInv, TypeOK
<1>3. TypeOK'
  <2>1. /\ pc' \in [Calls -> Stages] /\ picked' \in [Calls -> SUBSET Piece]
        /\ req' \in [Calls -> {NoReq} \cup Payment \cup Move]
        /\ todo' \in [Calls -> Seq(Piece)] /\ total' \in [Calls -> Words]
    BY <1>1, <1>2 DEF LedgerInv, TypeOK, Stages
  <2>2. \A d \in Calls : req'[d] = NoReq => pc'[d] = "idle"
    BY <1>2 DEF LedgerInv, TypeOK
  <2> QED BY <1>2, <2>1, <2>2 DEF LedgerInv, TypeOK
<1>4. first = "take" => ToSet(s) = {Head(s)} /\ s # <<>>
  BY DEF ToSet
<1>5. StageInv'
  BY <1>2, <1>4 DEF LedgerInv, TypeOK, StageInv
<1> QED BY <1>2, <1>3, <1>5 DEF LedgerInv

LEMMA LedgerStep == LedgerInv /\ [Next]_vars => LedgerInv'
<1> SUFFICES ASSUME LedgerInv, [Next]_vars PROVE LedgerInv'
  OBVIOUS
<1> USE DEF LedgerInv, callVars, causeVars
<1>1. ASSUME NEW c \in Calls, StartSpend(c) PROVE LedgerInv'
  <2>1. PICK r \in Payments : \E k \in SpendUTXO(r.from, Need(r)) :
            Find(c, r, k.inputs, k.value, "mint") /\ wrapped' \in BOOLEAN
    BY <1>1 DEF StartSpend, TypeOK
  <2>2. PICK k \in SpendUTXO(r.from, Need(r)) :
            Find(c, r, k.inputs, k.value, "mint") /\ wrapped' \in BOOLEAN
    BY <2>1
  <2>3. /\ k.inputs \in Seq(Piece) /\ (k.inputs = <<>> => k.value = 0) /\ k.value \in Words
        /\ r \in Payment
    BY FoundPieces
  <2> QED BY <2>2, <2>3, FindStep
<1>2. ASSUME NEW c \in Calls, MintTo(c) PROVE LedgerInv'
  <2>1. req[c] \in Payment /\ pc[c] = "mint"
    BY <1>2 DEF MintTo, StageInv
  <2>2. NewPiece(c, req[c].to, 0, req[c].amount) \in Piece
    BY <2>1 DEF NewPiece, Piece, Payment, TxIds
  <2>3. store' \subseteq Piece /\ IsFiniteSet(store')
    BY <1>2, <2>2, StoreStep DEF MintTo
  <2>4. TypeOK'
    BY <1>2, <2>3 DEF MintTo, TypeOK, Stages, Payment, RemoveStep
  <2>5. todo[c] = <<>> => ~(total[c] > Need(req[c]))
    BY <2>1, NeedWord DEF StageInv, TypeOK, Words
  <2>6. StageInv'
    BY <1>2, <2>1, <2>5 DEF MintTo, TypeOK, StageInv, Need, RemoveStep
  <2> QED BY <2>3, <2>4, <2>6
<1>3. ASSUME NEW c \in Calls, MintChange(c) PROVE LedgerInv'
  <2>1. req[c] \in Payment /\ pc[c] = "change" /\ total[c] > Need(req[c])
    BY <1>3 DEF MintChange, StageInv
  <2>2. Change(c) \in Words
    BY <2>1, NeedWord DEF Change, Words, TypeOK
  <2>3. NewPiece(c, req[c].from, 1, Change(c)) \in Piece
    BY <2>1, <2>2 DEF NewPiece, Piece, Payment, TxIds
  <2>4. store' \subseteq Piece /\ IsFiniteSet(store')
    BY <1>3, <2>3, StoreStep DEF MintChange
  <2>5. TypeOK'
    BY <1>3, <2>4 DEF MintChange, TypeOK, Stages, Payment
  <2>6. StageInv'
    BY <1>3, <2>1 DEF MintChange, TypeOK, StageInv
  <2> QED BY <2>4, <2>5, <2>6
<1>4. ASSUME NEW c \in Calls, RemoveInput(c) PROVE LedgerInv'
  <2>1. /\ todo[c] \in Seq(Piece) /\ todo[c] # <<>> /\ req[c] \in Payment
        /\ ToSet(todo[c]) \subseteq picked[c]
    BY <1>4 DEF RemoveInput, StageInv, TypeOK
  <2>2. /\ Head(todo[c]) \in Piece /\ Tail(todo[c]) \in Seq(Piece)
        /\ ToSet(Tail(todo[c])) \subseteq picked[c]
        /\ Len(todo[c]) # 1 => Tail(todo[c]) # <<>>
    BY <2>1, HeadAndTail
  <2>3. store' \subseteq Piece /\ IsFiniteSet(store')
    BY <1>4, <2>2, StoreStep DEF RemoveInput
  <2>4. TypeOK'
    BY <1>4, <2>1, <2>2, <2>3 DEF RemoveInput, TypeOK, Stages
  <2>5. StageInv'
    BY <1>4, <2>1, <2>2 DEF RemoveInput, TypeOK, StageInv
  <2> QED BY <2>3, <2>4, <2>5
<1>5. ASSUME NEW c \in Calls, Report(c) PROVE LedgerInv'
  <2>1. TypeOK'
    BY <1>5 DEF Report, TypeOK, Stages
  <2>2. StageInv'
    BY <1>5 DEF Report, TypeOK, StageInv
  <2> QED BY <1>5, <2>1, <2>2 DEF Report
<1>6. ASSUME NEW c \in Calls, StartTransfer(c) PROVE LedgerInv'
  <2>1. PICK r \in Moves : \/ \E p \in Held(r.from) : Find(c, r, <<p>>, p.amount, "take")
                           \/ Find(c, r, <<>>, 0, "getFrom")
    BY <1>6 DEF StartTransfer
  <2>2. r \in Move /\ wrapped' \in BOOLEAN
    BY <1>6 DEF StartTransfer, TypeOK
  <2>3. ASSUME NEW p \in Held(r.from), Find(c, r, <<p>>, p.amount, "take") PROVE LedgerInv'
    <3>1. p \in Piece /\ p.amount \in Words /\ <<p>> \in Seq(Piece)
      BY DEF Held, TypeOK, Piece
    <3> QED BY <2>2, <2>3, <3>1, FindStep
  <2>4. ASSUME Find(c, r, <<>>, 0, "getFrom") PROVE LedgerInv'
    <3>1. <<>> \in Seq(Piece) /\ 0 \in Words
      BY EmptySeq DEF Words
    <3> QED BY <2>2, <2>4, <3>1, FindStep
  <2> QED BY <2>1, <2>3, <2>4
<1>7. ASSUME NEW c \in Calls, Take(c) PROVE LedgerInv'
  <2>1. todo[c] \in Seq(Piece) /\ todo[c] # <<>>
    BY <1>7 DEF Take, StageInv, TypeOK
  <2>2. store' \subseteq Piece /\ IsFiniteSet(store')
    BY <1>7, <2>1, HeadAndTail, StoreStep DEF Take
  <2>3. TypeOK'
    BY <1>7, <2>2 DEF Take, TypeOK, Stages, StageInv, Move
  <2>4. StageInv'
    BY <1>7 DEF Take, TypeOK, StageInv
  <2> QED BY <2>2, <2>3, <2>4
<1>8. ASSUME NEW c \in Calls, Save(c) PROVE LedgerInv'
  <2>1. todo[c] \in Seq(Piece) /\ todo[c] # <<>> /\ req[c] \in Move
    BY <1>8 DEF Save, StageInv, TypeOK
  <2>2. Head(todo[c]) \in Piece
    BY <2>1, HeadAndTail
  <2>3. [Head(todo[c]) EXCEPT !.owner = req[c].to] \in Piece
    BY <2>1, <2>2 DEF Piece, Move
  <2>4. store' \subseteq Piece /\ IsFiniteSet(store')
    BY <1>8, <2>3, StoreStep DEF Save
  <2>5. TypeOK'
    BY <1>8, <2>1, <2>4, EmptySeq DEF Save, TypeOK, Stages
  <2>6. StageInv'
    BY <1>8, <2>1 DEF Save, TypeOK, StageInv
  <2> QED BY <2>4, <2>5, <2>6
<1>9. ASSUME NEW c \in Calls, NEW step \in {"getFrom", "getTo"}, NEW a \in Addrs,
             NEW next \in {"putFrom", "putTo"}, GetList(c, step, a, next)
      PROVE  LedgerInv'
  <2>1. TypeOK'
    BY <1>9 DEF GetList, TypeOK, Stages
  <2>2. StageInv'
    BY <1>9 DEF GetList, TypeOK, StageInv
  <2> QED BY <1>9, <2>1, <2>2 DEF GetList
<1>10. ASSUME NEW c \in Calls, NEW step \in {"putFrom", "putTo"}, NEW a \in Addrs,
              NEW list \in Lists, NEW next \in {"getTo", "done"},
              PutList(c, step, a, list, next)
       PROVE  LedgerInv'
  <2>1. TypeOK'
    BY <1>10 DEF PutList, TypeOK, Stages
  <2>2. StageInv'
    BY <1>10 DEF PutList, TypeOK, StageInv
  <2> QED BY <1>10, <2>1, <2>2 DEF PutList
<1>11. ASSUME NEW c \in Calls, UpdateUTXOIndex(c) PROVE LedgerInv'
  <2>1. req[c] \in Move
    BY <1>11 DEF UpdateUTXOIndex, GetList, PutList, StageInv
  <2>2. req[c].from \in Addrs /\ req[c].to \in Addrs /\ req[c].id \in Ids
    BY <2>1 DEF Move
  <2>3. /\ [copy[c] EXCEPT ![req[c].id] = 0] \in Lists
        /\ [copy[c] EXCEPT ![req[c].id] = @ + 1] \in Lists
    BY <2>2 DEF TypeOK, Lists
  <2> QED BY <1>9, <1>10, <1>11, <2>2, <2>3 DEF UpdateUTXOIndex
<1>12. CASE Crash
  <2>1. TypeOK'
    BY <1>12 DEF Crash, TypeOK
  <2>2. StageInv'
    BY <1>12 DEF Crash, StageInv
  <2> QED BY <1>12, <2>1, <2>2 DEF Crash
<1>13. CASE UNCHANGED vars
  BY <1>13 DEF vars, TypeOK, StageInv
<1> QED
  BY <1>1, <1>2, <1>3, <1>4, <1>5, <1>6, <1>7, <1>8, <1>11, <1>12, <1>13 DEF Next

\* Type correctness: every piece ever stored has a value that fits in a word.
THEOREM TypeCorrect == Spec => []TypeOK
  BY LedgerInit, LedgerStep, PTL DEF Spec, LedgerInv

-----------------------------------------------------------------------------
(***************************************************************************)
(* No coin vanishes without a trace.  NothingVanishes is preserved by every*)
(* step on its own, given what a request holds at every stage: a spend     *)
(* mints all its outputs before it removes an input, and what a transfer   *)
(* removes it carries until it is saved, for ever if a crash stops it.     *)
(***************************************************************************)
Carrying(x) == \E c \in Calls : CarriedBy(x, c)
Kept(x) == Stored(x) \/ Carrying(x) \/ SpentBy(x)

AllKept == \A x \in TxIds \X {0, 1} : Minted(x) => Kept(x)

\* A step of request c that changes no other request, does not take back a
\* payment, and accounts for what c carried and for what was stored.
LEMMA KeptStays ==
  ASSUME NEW c \in Calls, NEW x, Kept(x),
         \A d \in Calls \ {c} : /\ pc'[d] = pc[d] /\ req'[d] = req[d]
                                /\ picked'[d] = picked[d],
         Paid(c) => Paid(c)' /\ picked'[c] = picked[c],
         Transfer(c) /\ pc[c] = "save" /\ (\E p \in picked[c] : Coin(p) = x) => Kept(x)',
         Stored(x) => Kept(x)'
  PROVE  Kept(x)'
<1>1. CASE Stored(x)
  BY <1>1
<1>2. CASE Carrying(x)
  <2>1. PICK d \in Calls : Transfer(d) /\ pc[d] = "save" /\ \E p \in picked[d] : Coin(p) = x
    BY <1>2 DEF Carrying, CarriedBy, Between
  <2>2. CASE d = c
    BY <2>1, <2>2
  <2>3. CASE d # c
    BY <2>1, <2>3 DEF Kept, Carrying, CarriedBy, Between, Transfer, Coin
  <2> QED BY <2>2, <2>3
<1>3. CASE SpentBy(x)
  <2>1. PICK d \in Calls : Paid(d) /\ \E p \in picked[d] : Coin(p) = x
    BY <1>3 DEF SpentBy
  <2>2. Paid(d)' /\ picked'[d] = picked[d]
    BY <2>1 DEF Paid, Spend
  <2> QED BY <2>1, <2>2 DEF Kept, SpentBy, Coin
<1> QED BY <1>1, <1>2, <1>3 DEF Kept

\* A coin stays in the store unless the one removed was its last piece.
LEMMA StoredStays ==
  ASSUME NEW p, NEW x, Stored(x)
  PROVE  /\ SaveUTXO(p) => Stored(x)'
         /\ RemoveUTXO(p) => Stored(x)' \/ Coin(p) = x
<1>1. PICK q \in store : Coin(q) = x
  BY DEF Stored
<1>2. Key(q) = Key(p) => Coin(p) = x
  BY <1>1 DEF Key, Coin
<1> QED BY <1>1, <1>2 DEF SaveUTXO, RemoveUTXO, Stored, Coin

\* Only the steps that mint make a coin minted.
LEMMA MintedBefore ==
  ASSUME NEW c \in Calls, NEW x, Minted(x)',
         \A d \in Calls \ {c} : /\ pc'[d] = pc[d] /\ req'[d] = req[d]
                                /\ total'[d] = total[d],
         x = <<c, 0>> /\ Spend(c)' /\ pc'[c] \in {"change", "remove", "report", "done"}
             => Minted(x),
         x = <<c, 1>> /\ Paid(c)' /\ (total[c] > Need(req[c]))' => Minted(x)
  PROVE  Minted(x)
<1>1. CASE \E p \in Genesis : Coin(p) = x
  BY <1>1 DEF Minted
<1>2. ASSUME NEW d \in Calls,
             \/ x = <<d, 0>> /\ Spend(d)' /\ pc'[d] \in {"change", "remove", "report", "done"}
             \/ x = <<d, 1>> /\ Paid(d)' /\ (total[d] > Need(req[d]))'
      PROVE  Minted(x)
  <2>1. CASE d = c
    BY <1>2, <2>1
  <2>2. CASE d # c
    BY <1>2, <2>2 DEF Minted, Spend, Paid, Need
  <2> QED BY <2>1, <2>2
<1> QED BY <1>1, <1>2 DEF Minted, Coin

CoinInv == LedgerInv /\ AllKept

LEMMA CoinInit == Init => CoinInv
<1> SUFFICES ASSUME Init, NEW x, Minted(x) PROVE Kept(x)
  BY LedgerInit DEF CoinInv, AllKept
<1>1. \E p \in Genesis : Coin(p) = x
  BY DEF Init, Minted, Paid
<1> QED BY <1>1 DEF Init, Kept, Stored

\* The scan of a request that was idle mints nothing and gives up nothing.
LEMMA FindKeeps ==
  ASSUME LedgerInv, AllKept, NEW c \in Calls, NEW r, NEW s, NEW v,
         NEW first \in {"mint", "take", "getFrom"}, Find(c, r, s, v, first),
         NEW x \in TxIds \X {0, 1}, Minted(x)'
  PROVE  Kept(x)'
<1>1. /\ pc[c] = "idle" /\ pc'[c] = first /\ store' = store
      /\ \A d \in Calls \ {c} : /\ pc'[d] = pc[d] /\ req'[d] = req[d]
                                /\ picked'[d] = picked[d] /\ total'[d] = total[d]
  BY DEF Find, LedgerInv, TypeOK
<1>2. Minted(x)
  BY <1>1, MintedBefore DEF Paid
<1>3. Kept(x)
  BY <1>2 DEF AllKept
<1>4. Stored(x) => Kept(x)'
  BY <1>1 DEF Kept, Stored
<1>5. ~Paid(c)
  BY <1>1 DEF Paid
<1> QED BY <1>1, <1>3, <1>4, <1>5, KeptStays

LEMMA CoinStep == CoinInv /\ [Next]_vars => CoinInv'
<1> SUFFICES ASSUME LedgerInv, AllKept, [Next]_vars,
                    NEW x \in TxIds \X {0, 1}, Minted(x)'
             PROVE  Kept(x)'
  BY LedgerStep DEF CoinInv, AllKept
<1> USE DEF callVars, causeVars
<1>0. Minted(x) => Kept(x)
  BY DEF AllKept
<1>1. ASSUME NEW c \in Calls, StartSpend(c) PROVE Kept(x)'
  BY <1>1, FindKeeps DEF StartSpend
<1>2. ASSUME NEW c \in Calls, StartTransfer(c) PROVE Kept(x)'
  <2>1. PICK r \in Moves : \/ \E p \in Held(r.from) : Find(c, r, <<p>>, p.amount, "take")
                           \/ Find(c, r, <<>>, 0, "getFrom")
    BY <1>2 DEF StartTransfer
  <2> QED BY <2>1, FindKeeps
<1>3. ASSUME NEW c \in Calls, MintTo(c) PROVE Kept(x)'
  <2> DEFINE new == NewPiece(c, req[c].to, 0, req[c].amount)
  <2>1. /\ pc[c] = "mint" /\ pc'[c] \in {"change", "remove", "report"}
        /\ SaveUTXO(new) /\ UNCHANGED <<req, picked, total>>
        /\ \A d \in Calls \ {c} : pc'[d] = pc[d]
        /\ pc'[c] # "change" => ~(total[c] > Need(req[c]))
    BY <1>3 DEF MintTo, LedgerInv, TypeOK, RemoveStep
  <2>2. CASE x = <<c, 0>>
    <3>1. new \in store' /\ Coin(new) = x
      BY <2>1, <2>2 DEF SaveUTXO, NewPiece, Coin
    <3> QED BY <3>1 DEF Kept, Stored, Coin
  <2>3. CASE x # <<c, 0>>
    <3>1. ~(Paid(c)' /\ (total[c] > Need(req[c]))')
      BY <2>1 DEF Paid, Need
    <3>2. Minted(x)
      BY <2>1, <2>3, <3>1, MintedBefore
    <3>3. Stored(x) => Kept(x)'
      BY <2>1, StoredStays DEF Kept
    <3>4. ~Paid(c)
      BY <2>1 DEF Paid
    <3> QED BY <1>0, <2>1, <3>2, <3>3, <3>4, KeptStays
  <2> QED BY <2>2, <2>3
<1>4. ASSUME NEW c \in Calls, MintChange(c) PROVE Kept(x)'
  <2> DEFINE new == NewPiece(c, req[c].from, 1, Change(c))
  <2>1. /\ pc[c] = "change" /\ pc'[c] = "remove" /\ Spend(c)
        /\ SaveUTXO(new) /\ UNCHANGED <<req, picked, total>>
        /\ \A d \in Calls \ {c} : pc'[d] = pc[d]
    BY <1>4 DEF MintChange, LedgerInv, TypeOK, StageInv, Spend
  <2>2. CASE x = <<c, 1>>
    <3>1. new \in store' /\ Coin(new) = x
      BY <2>1, <2>2 DEF SaveUTXO, NewPiece, Coin
    <3> QED BY <3>1 DEF Kept, Stored, Coin
  <2>3. CASE x # <<c, 1>>
    <3>1. x = <<c, 0>> => Minted(x)
      BY <2>1 DEF Minted
    <3>2. Minted(x)
      BY <2>1, <2>3, <3>1, MintedBefore
    <3>3. Stored(x) => Kept(x)'
      BY <2>1, StoredStays DEF Kept
    <3>4. ~Paid(c)
      BY <2>1 DEF Paid
    <3> QED BY <1>0, <2>1, <3>2, <3>3, <3>4, KeptStays
  <2> QED BY <2>2, <2>3
<1>5. ASSUME NEW c \in Calls, RemoveInput(c) PROVE Kept(x)'
  <2> DEFINE gone == Head(todo[c])
  <2>1. /\ pc[c] = "remove" /\ pc'[c] \in {"report", "remove"} /\ Spend(c)
        /\ RemoveUTXO(gone) /\ UNCHANGED <<req, picked, total>>
        /\ \A d \in Calls \ {c} : pc'[d] = pc[d]
    BY <1>5 DEF RemoveInput, LedgerInv, TypeOK, StageInv, Spend
  <2>2. gone \in picked[c]
    BY <1>5, HeadAndTail DEF RemoveInput, LedgerInv, TypeOK, StageInv
  <2>3. Paid(c) /\ Paid(c)'
    BY <2>1 DEF Paid, Spend
  <2>4. Minted(x)
    <3>1. x = <<c, 0>> => Minted(x)
      BY <2>1 DEF Minted
    <3>2. x = <<c, 1>> /\ (total[c] > Need(req[c]))' => Minted(x)
      BY <2>1, <2>3 DEF Minted, Need
    <3> QED BY <2>1, <3>1, <3>2, MintedBefore
  <2>5. Stored(x) => Kept(x)'
    <3>1. Coin(gone) = x => SpentBy(x)'
      BY <2>1, <2>2, <2>3 DEF SpentBy, Coin
    <3> QED BY <2>1, <3>1, StoredStays DEF Kept
  <2>6. pc[c] # "save"
    BY <2>1
  <2> QED BY <1>0, <2>1, <2>3, <2>4, <2>5, <2>6, KeptStays
<1>6. ASSUME NEW c \in Calls, Report(c) PROVE Kept(x)'
  <2>1. /\ pc[c] = "report" /\ pc'[c] = "done" /\ Spend(c)
        /\ UNCHANGED <<store, req, picked, total>>
        /\ \A d \in Calls \ {c} : pc'[d] = pc[d]
    BY <1>6 DEF Report, LedgerInv, TypeOK, StageInv, Spend
  <2>2. Paid(c) /\ Paid(c)'
    BY <2>1 DEF Paid, Spend
  <2>3. Minted(x)
    <3>1. x = <<c, 0>> => Minted(x)
      BY <2>1 DEF Minted
    <3>2. x = <<c, 1>> /\ (total[c] > Need(req[c]))' => Minted(x)
      BY <2>1, <2>2 DEF Minted, Need
    <3> QED BY <2>1, <3>1, <3>2, MintedBefore
  <2>4. Stored(x) => Kept(x)'
    BY <2>1 DEF Kept, Stored
  <2>5. pc[c] # "save"
    BY <2>1
  <2> QED BY <1>0, <2>1, <2>2, <2>3, <2>4, <2>5, KeptStays
\* The steps of a transfer: it is no spend, so it mints nothing.
<1>7. ASSUME NEW c \in Calls, ~Spend(c), UNCHANGED <<req, picked, total>>,
             \A d \in Calls \ {c} : pc'[d] = pc[d],
             pc[c] = "save" /\ (\E p \in picked[c] : Coin(p) = x) => Kept(x)',
             Stored(x) => Kept(x)'
      PROVE  Kept(x)'
  <2>1. ~Paid(c) /\ ~Paid(c)' /\ ~Spend(c)'
    BY <1>7 DEF Paid, Spend
  <2>2. Minted(x)
    BY <1>7, <2>1, MintedBefore
  <2> QED BY <1>0, <1>7, <2>1, <2>2, KeptStays
<1>8. \A c \in Calls : pc[c] \in {"take", "save", "getFrom", "putFrom", "getTo", "putTo"}
                           => ~Spend(c) /\ Transfer(c)
  BY DEF LedgerInv, StageInv, Spend, Transfer, Payment, Move
<1>9. ASSUME NEW c \in Calls, Take(c) PROVE Kept(x)'
  <2> DEFINE gone == Head(todo[c])
  <2>1. /\ pc[c] = "take" /\ pc'[c] = "save" /\ RemoveUTXO(gone)
        /\ UNCHANGED <<req, picked, total>>
        /\ \A d \in Calls \ {c} : pc'[d] = pc[d]
    BY <1>9 DEF Take, LedgerInv, TypeOK
  <2>2. gone \in picked[c] /\ Transfer(c)' /\ ~Spend(c)
    BY <1>8, <2>1 DEF LedgerInv, StageInv, Transfer
  <2>3. Coin(gone) = x => Carrying(x)'
    BY <2>1, <2>2 DEF Carrying, CarriedBy, Between, Coin
  <2>4. Stored(x) => Kept(x)'
    BY <2>1, <2>3, StoredStays DEF Kept
  <2> QED BY <1>7, <2>1, <2>2, <2>4
<1>10. ASSUME NEW c \in Calls, Save(c) PROVE Kept(x)'
  <2> DEFINE new == [Head(todo[c]) EXCEPT !.owner = req[c].to]
  <2>1. /\ pc[c] = "save" /\ SaveUTXO(new) /\ UNCHANGED <<req, picked, total>>
        /\ \A d \in Calls \ {c} : pc'[d] = pc[d]
    BY <1>10 DEF Save, LedgerInv, TypeOK
  <2>2. picked[c] = {Head(todo[c])} /\ Head(todo[c]) \in Piece
    BY <2>1, HeadAndTail DEF LedgerInv, TypeOK, StageInv
  <2>3. new \in store' /\ Coin(new) = Coin(Head(todo[c]))
    BY <2>1, <2>2 DEF SaveUTXO, Coin, Piece
  <2>4. (\E p \in picked[c] : Coin(p) = x) => Kept(x)'
    BY <2>2, <2>3 DEF Kept, Stored, Coin
  <2>5. Stored(x) => Kept(x)'
    BY <2>1, StoredStays DEF Kept
  <2> QED BY <1>7, <1>8, <2>1, <2>4, <2>5
<1>11. ASSUME NEW c \in Calls, UpdateUTXOIndex(c) PROVE Kept(x)'
  <2>1. /\ pc[c] \in {"getFrom", "putFrom", "getTo", "putTo"}
        /\ UNCHANGED <<store, req, picked, total>>
        /\ \A d \in Calls \ {c} : pc'[d] = pc[d]
    BY <1>11 DEF UpdateUTXOIndex, GetList, PutList, LedgerInv, TypeOK
  <2>2. Stored(x) => Kept(x)'
    BY <2>1 DEF Kept, Stored
  <2> QED BY <1>7, <1>8, <2>1, <2>2
<1>12. CASE UNCHANGED <<store, pc, req, picked, total>>
  BY <1>0, <1>12 DEF Minted, Kept, Stored, Carrying, CarriedBy, Between, SpentBy, Paid, Spend, Transfer, Need, Coin
<1>13. CASE Crash
  BY <1>12, <1>13 DEF Crash
<1>14. CASE UNCHANGED vars
  BY <1>12, <1>14 DEF vars
<1> QED
  BY <1>1, <1>2, <1>3, <1>4, <1>5, <1>6, <1>9, <1>10, <1>11, <1>13, <1>14 DEF Next

\* Whatever requests overlap and wherever a crash cuts them off, a coin that
\* HandleAutoSpend or HandleTransferUTXO takes out of the store is paid for,
\* on its way to its new owner, or was carried by a transfer that a crash cut
\* off between RemoveUTXO and SaveUTXO.
THEOREM NoCoinVanishes == Spec => []NothingVanishes
<1>1. CoinInv => NothingVanishes
  <2>1. ASSUME TypeOK, NEW x PROVE Carrying(x) => Carried(x) \/ CutOff(x)
    BY <2>1 DEF Carrying, Carried, CutOff, TypeOK
  <2> QED BY <2>1 DEF CoinInv, LedgerInv, AllKept, Kept, NothingVanishes
<1> QED BY <1>1, CoinInit, CoinStep, PTL DEF Spec

-----------------------------------------------------------------------------
(***************************************************************************)
(* Sums.  A sum is the number of units its terms have, so that what is to  *)
(* be known of sums is known of the sizes of finite sets.                  *)
(***************************************************************************)
LEMMA UnitsFinite ==
  ASSUME NEW f, NEW S, IsFiniteSet(S)
  PROVE  IsFiniteSet(Units(f, S)) /\ Total(f, S) \in Nat
<1>1. IsFiniteSet(Words)
  BY FS_Interval DEF Words
<1>2. IsFiniteSet(S \X Words) /\ Units(f, S) \in SUBSET (S \X Words)
  BY <1>1, FS_Product DEF Units
<1> QED BY <1>2, FS_Subset, FS_CardinalityType DEF Total

\* The pairs that make up a sum.
LEMMA UnitsPairs ==
  ASSUME NEW f, NEW S
  PROVE  /\ \A x \in S, k \in Words : <<x, k>> \in Units(f, S) <=> k < f[x]
         /\ \A u \in Units(f, S) : u = <<u[1], u[2]>> /\ u[1] \in S /\ u[2] \in Words /\ u[2] < f[u[1]]
  BY DEF Units

LEMMA UnitsSame ==
  ASSUME NEW f, NEW g, NEW S, NEW T, \A x \in S \cap T : f[x] = g[x],
         \A x \in S \ T : f[x] = 0, \A x \in T \ S : g[x] = 0
  PROVE  Units(f, S) = Units(g, T) /\ Total(f, S) = Total(g, T)
<1>1. \A k \in Words : ~(k < 0)
  BY DEF Words
<1>2. Units(f, S) \subseteq Units(g, T)
  BY <1>1, UnitsPairs
<1>3. Units(g, T) \subseteq Units(f, S)
  BY <1>1, UnitsPairs
<1> QED BY <1>2, <1>3 DEF Total

LEMMA TotalUnion ==
  ASSUME NEW f, NEW S, NEW T, IsFiniteSet(S), IsFiniteSet(T), S \cap T = {}
  PROVE  Total(f, S \cup T) = Total(f, S) + Total(f, T)
<1>1. Units(f, S \cup T) = Units(f, S) \cup Units(f, T) /\ Units(f, S) \cap Units(f, T) = {}
  BY DEF Units
<1>2. /\ IsFiniteSet(Units(f, S)) /\ IsFiniteSet(Units(f, T))
      /\ Total(f, S) \in Nat /\ Total(f, T) \in Nat
  BY UnitsFinite
<1>3. Cardinality(Units(f, S) \cap Units(f, T)) = 0
  BY <1>1, FS_EmptySet
<1>4. Total(f, S \cup T)
        = Total(f, S) + Total(f, T) - Cardinality(Units(f, S) \cap Units(f, T))
  BY <1>1, <1>2, FS_Union DEF Total
<1> QED BY <1>2, <1>3, <1>4

LEMMA TotalOne ==
  ASSUME NEW f, NEW x, f[x] \in Words
  PROVE  Total(f, {x}) = f[x]
<1> DEFINE g == [k \in 1 .. f[x] |-> <<x, k - 1>>]
<1>1. \A k \in 1 .. f[x] : k - 1 \in Words /\ k - 1 < f[x]
  BY DEF Words
<1>2. g \in [1 .. f[x] -> Units(f, {x})]
  BY <1>1, UnitsPairs
<1>3. \A j, k \in 1 .. f[x] : g[j] = g[k] => j = k
  OBVIOUS
<1>4. \A u \in Units(f, {x}) : \E k \in 1 .. f[x] : g[k] = u
  <2> TAKE u \in Units(f, {x})
  <2>1. u = <<x, u[2]>> /\ u[2] \in Words /\ u[2] < f[x]
    BY UnitsPairs
  <2>2. PICK k \in 1 .. f[x] : u[2] = k - 1
    <3>1. u[2] \in Nat /\ f[x] \in Nat /\ u[2] + 1 \in 1 .. f[x] /\ u[2] = u[2] + 1 - 1
      BY <2>1 DEF Words
    <3> HIDE DEF g
    <3> QED BY <3>1
  <2>3. g[k] = <<x, k - 1>>
    OBVIOUS
  <2> HIDE DEF g
  <2> QED BY <2>1, <2>2, <2>3
<1> HIDE DEF g
<1>5. g \in Bijection(1 .. f[x], Units(f, {x}))
  BY <1>2, <1>3, <1>4 DEF Bijection, Injection, Surjection, IsInjective
<1>6. f[x] \in Nat
  BY DEF Words
<1> QED BY <1>5, <1>6, FS_CountingElements DEF ExistsBijection, Total

\* The image of a finite set has no more members than the set, and as many if
\* no two members have the same image.
LEMMA ImageSize ==
  ASSUME NEW S, IsFiniteSet(S), NEW T, NEW f \in [S -> T], \A t \in T : \E s \in S : f[s] = t
  PROVE  /\ IsFiniteSet(T) /\ Cardinality(T) <= Cardinality(S)
         /\ (\A r, s \in S : f[r] = f[s] => r = s) => Cardinality(T) = Cardinality(S)
<1>1. f \in Surjection(S, T)
  BY DEF Surjection
<1>2. (\A r, s \in S : f[r] = f[s] => r = s) => f \in Injection(S, T)
  BY DEF Injection, IsInjective
<1> QED BY <1>1, <1>2, FS_Surjection

\* The sum of two terms each is the sum of the first and the sum of the second.
LEMMA TotalPlus ==
  ASSUME NEW S, IsFiniteSet(S), NEW f, NEW g, NEW h,
         \A x \in S : f[x] \in Words /\ g[x] \in Words /\ h[x] = f[x] + g[x] /\ h[x] \in Words
  PROVE  Total(h, S) = Total(f, S) + Total(g, S)
<1> DEFINE V == {u \in S \X Words : f[u[1]] <= u[2] /\ u[2] < h[u[1]]}
           F == [u \in Units(g, S) |-> <<u[1], u[2] + f[u[1]]>>]
<1>1. \A x \in S : f[x] \in Nat /\ g[x] \in Nat /\ h[x] \in Nat
  BY DEF Words
<1>2. \A k \in Words : k \in Nat
  BY DEF Words
<1>3. Units(h, S) = Units(f, S) \cup V /\ Units(f, S) \cap V = {}
  <2>1. ASSUME NEW u \in S \X Words
        PROVE  /\ u[1] \in S /\ u[2] \in Nat /\ f[u[1]] \in Nat /\ h[u[1]] \in Nat
               /\ f[u[1]] <= h[u[1]]
    BY <1>1, <1>2
  <2>2. ASSUME NEW u \in S \X Words
        PROVE  /\ u[2] < h[u[1]] <=> u[2] < f[u[1]] \/ (f[u[1]] <= u[2] /\ u[2] < h[u[1]])
               /\ ~(u[2] < f[u[1]] /\ f[u[1]] <= u[2])
    BY <2>1
  <2> QED BY <2>2 DEF Units
<1>4. ASSUME NEW u \in Units(g, S)
      PROVE  F[u] = <<u[1], u[2] + f[u[1]]>> /\ F[u] \in V
  <2>1. u[1] \in S /\ u[2] \in Nat /\ u[2] < g[u[1]] /\ f[u[1]] \in Nat /\ h[u[1]] = f[u[1]] + g[u[1]]
    BY <1>1, <1>2, UnitsPairs
  <2>2. u[2] + f[u[1]] \in Nat /\ f[u[1]] <= u[2] + f[u[1]] /\ u[2] + f[u[1]] < h[u[1]]
    BY <1>1, <2>1
  <2>3. u[2] + f[u[1]] \in Words
    <3>1. h[u[1]] \in Words
      BY <2>1
    <3> QED BY <2>2, <3>1 DEF Words
  <2>4. F[u] = <<u[1], u[2] + f[u[1]]>>
    OBVIOUS
  <2> QED BY <2>1, <2>2, <2>3, <2>4
<1>5. ASSUME NEW v \in V PROVE \E u \in Units(g, S) : F[u] = v
  <2>1. /\ v = <<v[1], v[2]>> /\ v[1] \in S /\ v[2] \in Words /\ v[2] \in Nat
        /\ f[v[1]] \in Nat /\ g[v[1]] \in Nat /\ f[v[1]] <= v[2] /\ v[2] < f[v[1]] + g[v[1]]
    BY <1>1, <1>2
  <2> DEFINE k == v[2] - f[v[1]]
  <2>2. k \in Nat /\ k < g[v[1]] /\ k + f[v[1]] = v[2] /\ k <= v[2]
    BY <2>1
  <2>3. k \in Words
    BY <2>1, <2>2 DEF Words
  <2> HIDE DEF k
  <2>4. <<v[1], k>> \in Units(g, S)
    BY <2>1, <2>2, <2>3, UnitsPairs
  <2>5. F[<<v[1], k>>] = <<v[1], k + f[v[1]]>>
    BY <2>4
  <2> HIDE DEF F, V
  <2> QED BY <2>1, <2>2, <2>4, <2>5
<1>6. ASSUME NEW u \in Units(g, S), NEW v \in Units(g, S), F[u] = F[v] PROVE u = v
  <2>1. /\ u = <<u[1], u[2]>> /\ v = <<v[1], v[2]>> /\ u[1] \in S /\ f[u[1]] \in Nat
        /\ u[2] \in Nat /\ v[2] \in Nat
    BY <1>1, <1>2, UnitsPairs
  <2>2. u[1] = v[1] /\ u[2] + f[u[1]] = v[2] + f[v[1]]
    BY <1>4, <1>6
  <2>3. u[2] = v[2]
    BY <2>1, <2>2
  <2> QED BY <2>1, <2>2, <2>3
<1>7. F \in [Units(g, S) -> V]
  BY <1>4
<1>8. IsFiniteSet(Units(f, S)) /\ IsFiniteSet(Units(g, S)) /\ Total(f, S) \in Nat /\ Total(g, S) \in Nat
  BY UnitsFinite
<1> HIDE DEF F, V
<1>9. IsFiniteSet(V) /\ Cardinality(V) = Total(g, S)
  BY <1>5, <1>6, <1>7, <1>8, ImageSize DEF Total
<1>10. Cardinality(Units(f, S) \cap V) = 0
  BY <1>3, FS_EmptySet
<1>11. Total(h, S) = Total(f, S) + Cardinality(V) - Cardinality(Units(f, S) \cap V)
  BY <1>3, <1>8, <1>9, FS_Union DEF Total
<1> QED BY <1>8, <1>9, <1>10, <1>11

LEMMA AmountIs == \A p \in Piece : Amount[p] = p.amount /\ Amount[p] \in Words
  BY DEF Amount, Piece

\* Fewer terms are not more, and two sets of terms together not more than both.
LEMMA TotalAtMost ==
  ASSUME NEW f, NEW S, NEW T, NEW U, IsFiniteSet(S), IsFiniteSet(T), U \subseteq S \cup T
  PROVE  IsFiniteSet(U) /\ Total(f, U) <= Total(f, S) + Total(f, T)
<1>1. IsFiniteSet(S \cup T) /\ IsFiniteSet(U)
  BY FS_Union, FS_Subset
<1>2. /\ Units(f, U) \in SUBSET Units(f, S \cup T)
      /\ Units(f, S \cup T) = Units(f, S) \cup Units(f, T)
  BY DEF Units
<1>3. /\ IsFiniteSet(Units(f, S)) /\ IsFiniteSet(Units(f, T)) /\ IsFiniteSet(Units(f, S \cup T))
      /\ Total(f, S) \in Nat /\ Total(f, T) \in Nat /\ Total(f, U) \in Nat
      /\ Total(f, S \cup T) \in Nat
  BY <1>1, UnitsFinite
<1>4. Total(f, U) <= Total(f, S \cup T)
  BY <1>2, <1>3, FS_Subset DEF Total
<1>5. IsFiniteSet(Units(f, S) \cap Units(f, T))
  BY <1>3, FS_Subset
<1>6. Cardinality(Units(f, S) \cap Units(f, T)) \in Nat
  BY <1>5, FS_CardinalityType
<1>7. Total(f, S \cup T)
        = Total(f, S) + Total(f, T) - Cardinality(Units(f, S) \cap Units(f, T))
  BY <1>2, <1>3, FS_Union DEF Total
<1> QED BY <1>1, <1>3, <1>4, <1>6, <1>7

\* Terms that are renamed: those that get the same name count once.
LEMMA TotalImage ==
  ASSUME NEW S, IsFiniteSet(S), NEW T, NEW e \in [S -> T], \A t \in T : \E s \in S : e[s] = t,
         NEW f, NEW g, \A s \in S : g[e[s]] = f[s]
  PROVE  /\ IsFiniteSet(T) /\ Total(g, T) <= Total(f, S)
         /\ (\A r, s \in S : e[r] = e[s] => r = s) => Total(g, T) = Total(f, S)
<1> DEFINE F == [u \in Units(f, S) |-> <<e[u[1]], u[2]>>]
<1>1. IsFiniteSet(T) /\ IsFiniteSet(Units(f, S))
  BY ImageSize, UnitsFinite
<1>2. ASSUME NEW u \in Units(f, S) PROVE F[u] = <<e[u[1]], u[2]>> /\ F[u] \in Units(g, T)
  <2>1. u[1] \in S /\ u[2] \in Words /\ u[2] < f[u[1]]
    BY UnitsPairs
  <2>2. <<e[u[1]], u[2]>> \in Units(g, T)
    BY <2>1, UnitsPairs
  <2> QED BY <2>2
<1>3. ASSUME NEW v \in Units(g, T) PROVE \E u \in Units(f, S) : F[u] = v
  <2>1. v = <<v[1], v[2]>> /\ v[1] \in T /\ v[2] \in Words /\ v[2] < g[v[1]]
    BY UnitsPairs
  <2>2. PICK s \in S : e[s] = v[1]
    BY <2>1
  <2>3. <<s, v[2]>> \in Units(f, S)
    BY <2>1, <2>2, UnitsPairs
  <2>4. F[<<s, v[2]>>] = <<e[s], v[2]>>
    BY <2>3
  <2> HIDE DEF F
  <2> QED BY <2>1, <2>2, <2>3, <2>4
<1>4. ASSUME \A r, s \in S : e[r] = e[s] => r = s,
             NEW u \in Units(f, S), NEW v \in Units(f, S), F[u] = F[v]
      PROVE  u = v
  <2>1. u = <<u[1], u[2]>> /\ v = <<v[1], v[2]>> /\ u[1] \in S /\ v[1] \in S
    BY UnitsPairs
  <2>2. e[u[1]] = e[v[1]] /\ u[2] = v[2]
    BY <1>2, <1>4
  <2> QED BY <1>4, <2>1, <2>2
<1>5. F \in [Units(f, S) -> Units(g, T)]
  BY <1>2
<1> HIDE DEF F
<1> QED BY <1>1, <1>3, <1>4, <1>5, ImageSize DEF Total

\* What the members of P[c] sum to, for all c of S, is no less than the sum
\* over all of them.
LEMMA TotalCover ==
  ASSUME NEW S, IsFiniteSet(S), NEW f, NEW P, \A c \in S : IsFiniteSet(P[c]),
         NEW g, \A c \in S : g[c] \in Words /\ g[c] = Total(f, P[c]),
         NEW T, \A c \in S : P[c] \subseteq T, \A t \in T : \E c \in S : t \in P[c]
  PROVE  IsFiniteSet(T) /\ Total(f, T) <= Total(g, S)
<1> DEFINE b == [c \in S |-> CHOOSE m \in Bijection(1 .. g[c], Units(f, P[c])) : TRUE]
           F == [u \in Units(g, S) |-> b[u[1]][u[2] + 1]]
<1>1. ASSUME NEW c \in S PROVE b[c] \in Bijection(1 .. g[c], Units(f, P[c]))
  <2>1. g[c] \in Nat /\ IsFiniteSet(Units(f, P[c])) /\ Cardinality(Units(f, P[c])) = g[c]
    BY UnitsFinite DEF Total, Words
  <2>2. IsFiniteSet(1 .. g[c]) /\ Cardinality(1 .. g[c]) = g[c]
    BY <2>1, FS_Interval
  <2>3. ExistsBijection(1 .. g[c], Units(f, P[c]))
    BY <2>1, <2>2, FS_SameCardinalityBij
  <2> QED BY <2>3 DEF ExistsBijection
<1>2. IsFiniteSet(T)
  <2> DEFINE h == [c \in S |-> P[c]]
             Ps == {P[c] : c \in S}
  <2>1. h \in [S -> Ps] /\ \A t \in Ps : \E c \in S : h[c] = t
    OBVIOUS
  <2>2. IsFiniteSet(Ps)
    <3> HIDE DEF h, Ps
    <3> QED BY <2>1, ImageSize
  <2>3. \A t \in Ps : IsFiniteSet(t)
    OBVIOUS
  <2> HIDE DEF Ps
  <2>4. IsFiniteSet(UNION Ps)
    BY <2>2, <2>3, FS_UNION
  <2>5. T = UNION Ps
    BY DEF Ps
  <2> QED BY <2>4, <2>5
<1>3. ASSUME NEW u \in Units(g, S) PROVE F[u] = b[u[1]][u[2] + 1] /\ F[u] \in Units(f, T)
  <2>1. u[1] \in S /\ u[2] \in Words /\ u[2] < g[u[1]] /\ g[u[1]] \in Words
    BY UnitsPairs
  <2>2. u[2] + 1 \in 1 .. g[u[1]]
    BY <2>1 DEF Words
  <2>3. b[u[1]][u[2] + 1] \in Units(f, P[u[1]])
    <3> HIDE DEF b
    <3> QED BY <1>1, <2>1, <2>2 DEF Bijection, Injection
  <2>4. P[u[1]] \subseteq T
    BY <2>1
  <2>5. Units(f, P[u[1]]) \subseteq Units(f, T)
    BY <2>4 DEF Units
  <2>6. F[u] = b[u[1]][u[2] + 1]
    OBVIOUS
  <2> HIDE DEF F, b
  <2> QED BY <2>3, <2>5, <2>6
<1>4. ASSUME NEW v \in Units(f, T) PROVE \E u \in Units(g, S) : F[u] = v
  <2>1. v = <<v[1], v[2]>> /\ v[1] \in T /\ v[2] \in Words /\ v[2] < f[v[1]]
    BY UnitsPairs
  <2>2. PICK c \in S : v[1] \in P[c]
    BY <2>1
  <2>3. v \in Units(f, P[c])
    BY <2>1, <2>2, UnitsPairs
  <2>4. PICK k \in 1 .. g[c] : b[c][k] = v
    <3> HIDE DEF b
    <3> QED BY <1>1, <2>3 DEF Bijection, Surjection
  <2>5. k - 1 \in Words /\ k - 1 < g[c] /\ k - 1 + 1 = k
    BY DEF Words
  <2>6. <<c, k - 1>> \in Units(g, S)
    BY <2>5, UnitsPairs
  <2>7. F[<<c, k - 1>>] = b[c][k - 1 + 1]
    BY <2>6
  <2> HIDE DEF F, b
  <2> QED BY <2>4, <2>5, <2>6, <2>7
<1>5. F \in [Units(g, S) -> Units(f, T)]
  BY <1>3
<1>6. IsFiniteSet(Units(g, S))
  BY UnitsFinite
<1>7. Total(f, T) <= Total(g, S)
  <2> HIDE DEF F, b
  <2> QED BY <1>4, <1>5, <1>6, ImageSize DEF Total
<1> QED BY <1>2, <1>7

\* A sum of words is no sum of an empty set.
LEMMA WorthType ==
  ASSUME NEW S, IsFiniteSet(S)
  PROVE  Worth(S) \in Nat /\ (Worth(S) < Word => Value(S) = Worth(S))
<1>1. Worth(S) \in Nat
  BY UnitsFinite DEF Worth
<1> QED BY <1>1 DEF Value

-----------------------------------------------------------------------------
(***************************************************************************)
(* The owners' worth.  Every coin has one face value, whoever holds a piece*)
(* of it and however often: that of its Genesis piece, or what the spend   *)
(* that names it minted.  What NothingVanishes says of coins then bounds   *)
(* sums: the face values of all minted coins are at most those of the      *)
(* pieces in the store, carried, or given for what was minted; and what a  *)
(* spend was given is its amount, its fee and its change.                  *)
(***************************************************************************)
Busy == {c \in Calls : pc[c] # "idle"}

Face(x) ==
    LET c == x[1] IN
    IF c \in Calls THEN (IF x[2] = 0 THEN req[c].amount ELSE Change(c))
                   ELSE (CHOOSE p \in Genesis : Coin(p) = x).amount

Genuine(p) ==
    /\ p.amount = Face(Coin(p))
    /\ p.tx \in Calls => p.tx \in Busy

\* What is stored and what a request has found shows its face value, and a
\* request has found the total it reckons with, which pays for what it mints.
HoldInv ==
    /\ IsFiniteSet(Busy)
    /\ \A p \in store : Genuine(p)
    /\ \A c \in Busy :
          /\ IsFiniteSet(picked[c])
          /\ \A p \in picked[c] : Genuine(p)
          /\ ~wrapped => total[c] = Worth(picked[c])
          /\ Spend(c) /\ ~wrapped =>
                req[c].amount + req[c].fee < Word /\ total[c] >= req[c].amount + req[c].fee

LEMMA HoldInit == Init => HoldInv
<1> SUFFICES ASSUME Init PROVE HoldInv
  OBVIOUS
<1>1. Busy = {}
  BY DEF Init, Busy
<1>2. ASSUME NEW p \in Genesis PROVE Genuine(p)
  <2>1. p.tx \notin Calls /\ Coin(p)[1] = p.tx
    BY DEF Coin
  <2>2. \A q \in Genesis : Coin(q) = Coin(p) => q = p
    BY DEF Coin
  <2>3. (CHOOSE q \in Genesis : Coin(q) = Coin(p)) = p
    BY <2>2
  <2> QED BY <2>1, <2>3 DEF Genuine, Face
<1> QED BY <1>1, <1>2, FS_EmptySet DEF HoldInv, Init

\* A step of a request at work changes nothing but the store and its stage.
LEMMA HoldStays ==
  ASSUME HoldInv, UNCHANGED <<req, picked, total, wrapped>>, Busy' = Busy,
         \A p \in store' : p \in store \/ Genuine(p)
  PROVE  HoldInv'
<1>1. \A p : Genuine(p)' <=> Genuine(p)
  BY DEF Genuine, Face, Change, Need, Coin
<1>2. \A c \in Calls : Spend(c)' <=> Spend(c)
  BY DEF Spend
<1> QED BY <1>1, <1>2 DEF HoldInv, Worth, Busy

\* The scan of a request that finds its pieces.
LEMMA HoldFind ==
  ASSUME LedgerInv, HoldInv, NEW c \in Calls, NEW r, NEW s, NEW v,
         NEW first \in {"mint", "take", "getFrom"}, Find(c, r, s, v, first),
         ToSet(s) \subseteq store, wrapped => wrapped',
         ~wrapped' => v = Worth(ToSet(s)),
         r \in Payment /\ ~wrapped' => r.amount + r.fee < Word /\ v >= r.amount + r.fee
  PROVE  HoldInv'
<1>1. /\ pc[c] = "idle" /\ store' = store
      /\ pc' = [pc EXCEPT ![c] = first] /\ req' = [req EXCEPT ![c] = r]
      /\ picked' = [picked EXCEPT ![c] = ToSet(s)] /\ total' = [total EXCEPT ![c] = v]
  BY DEF Find
<1>2. /\ pc'[c] = first /\ req'[c] = r /\ picked'[c] = ToSet(s) /\ total'[c] = v
      /\ \A d \in Calls \ {c} : /\ pc'[d] = pc[d] /\ req'[d] = req[d]
                                /\ picked'[d] = picked[d] /\ total'[d] = total[d]
  BY <1>1 DEF LedgerInv, TypeOK
<1>3. Busy' = Busy \cup {c} /\ c \notin Busy
  BY <1>1, <1>2 DEF Busy
<1>4. IsFiniteSet(Busy') /\ IsFiniteSet(ToSet(s))
  BY <1>3, FS_AddElement, FS_Subset DEF HoldInv, LedgerInv
<1>5. ASSUME NEW p, Genuine(p) PROVE Genuine(p)'
  <2>1. Coin(p)[1] = p.tx /\ p.tx # c
    BY <1>3, <1>5 DEF Genuine, Coin
  <2>2. Face(Coin(p))' = Face(Coin(p))
    BY <1>2, <2>1 DEF Face, Change, Need, Coin
  <2> QED BY <1>3, <1>5, <2>2 DEF Genuine
<1>6. \A p \in store' : Genuine(p)'
  BY <1>1, <1>5 DEF HoldInv
<1>7. ASSUME NEW d \in Busy'
      PROVE  /\ IsFiniteSet(picked'[d])
             /\ \A p \in picked'[d] : Genuine(p)'
             /\ ~wrapped' => total'[d] = Worth(picked'[d])
             /\ Spend(d)' /\ ~wrapped' => /\ req'[d].amount + req'[d].fee < Word
                                          /\ total'[d] >= req'[d].amount + req'[d].fee
  <2>1. CASE d = c
    BY <1>1, <1>2, <1>4, <1>6, <2>1 DEF Spend
  <2>2. CASE d # c
    BY <1>2, <1>3, <1>5, <2>2 DEF HoldInv, Spend, Busy
  <2> QED BY <2>1, <2>2
<1> QED BY <1>4, <1>6, <1>7 DEF HoldInv, Worth

LEMMA HoldStep == LedgerInv /\ HoldInv /\ [Next]_vars => HoldInv'
<1> SUFFICES ASSUME LedgerInv, HoldInv, [Next]_vars PROVE HoldInv'
  OBVIOUS
<1> USE DEF callVars, causeVars
\* A step of a request that has started and does not end it without a trace.
<1>0. ASSUME NEW c \in Calls, pc[c] # "idle", NEW next, next # "idle",
             pc' = [pc EXCEPT ![c] = next], UNCHANGED <<req, picked, total, wrapped>>,
             \A p \in store' : p \in store \/ Genuine(p)
      PROVE  HoldInv'
  <2>1. Busy' = Busy
    BY <1>0 DEF Busy, LedgerInv, TypeOK
  <2> QED BY <1>0, <2>1, HoldStays
<1>1. ASSUME NEW c \in Calls, StartSpend(c) PROVE HoldInv'
  <2>1. PICK r \in Payments : \E k \in SpendUTXO(r.from, Need(r)) :
            /\ Find(c, r, k.inputs, k.value, "mint")
            /\ wrapped' = (wrapped \/ r.amount + r.fee >= Word \/ Worth(ToSet(k.inputs)) >= Word)
    BY <1>1 DEF StartSpend
  <2>2. PICK k \in SpendUTXO(r.from, Need(r)) :
            /\ Find(c, r, k.inputs, k.value, "mint")
            /\ wrapped' = (wrapped \/ r.amount + r.fee >= Word \/ Worth(ToSet(k.inputs)) >= Word)
    BY <2>1
  <2>3. /\ ToSet(k.inputs) \subseteq Held(r.from) /\ IsFiniteSet(ToSet(k.inputs))
        /\ k.value = Value(ToSet(k.inputs)) /\ k.value >= Need(r)
    BY FoundPieces DEF LedgerInv
  <2>4. r.amount \in Nat /\ r.fee \in Nat
    BY DEF Payment, Words
  <2>5. Worth(ToSet(k.inputs)) \in Nat
    BY <2>3, WorthType
  <2>6. ~wrapped' => /\ k.value = Worth(ToSet(k.inputs)) /\ r.amount + r.fee < Word
                     /\ k.value >= r.amount + r.fee
    <3> SUFFICES ASSUME ~wrapped'
                 PROVE  /\ k.value = Worth(ToSet(k.inputs)) /\ r.amount + r.fee < Word
                        /\ k.value >= r.amount + r.fee
      OBVIOUS
    <3>1. ~(r.amount + r.fee >= Word) /\ ~(Worth(ToSet(k.inputs)) >= Word)
      BY <2>2
    <3>2. r.amount + r.fee < Word /\ Worth(ToSet(k.inputs)) < Word
      BY <2>4, <2>5, <3>1
    <3>3. Value(ToSet(k.inputs)) = Worth(ToSet(k.inputs))
      BY <2>3, <3>2, WorthType
    <3>4. Need(r) = r.amount + r.fee
      BY <2>4, <3>2, CutToWord DEF Need
    <3> QED BY <2>3, <3>2, <3>3, <3>4
  <2>7. ToSet(k.inputs) \subseteq store /\ (wrapped => wrapped')
    BY <2>2, <2>3 DEF Held
  <2> QED BY <2>2, <2>6, <2>7, HoldFind
<1>2. ASSUME NEW c \in Calls, MintTo(c) PROVE HoldInv'
  <2> DEFINE new == NewPiece(c, req[c].to, 0, req[c].amount)
  <2>1. Genuine(new)
    BY <1>2 DEF MintTo, Genuine, Face, Coin, NewPiece, Busy
  <2>2. \A p \in store' : p \in store \/ p = new
    BY <1>2 DEF MintTo, SaveUTXO
  <2>3. \A p \in store' : p \in store \/ Genuine(p)
    BY <2>1, <2>2
  <2>4. PICK next : next # "idle" /\ pc' = [pc EXCEPT ![c] = next]
    BY <1>2 DEF MintTo, RemoveStep
  <2> QED BY <1>0, <1>2, <2>3, <2>4 DEF MintTo
<1>3. ASSUME NEW c \in Calls, MintChange(c) PROVE HoldInv'
  <2> DEFINE new == NewPiece(c, req[c].from, 1, Change(c))
  <2>1. Genuine(new)
    BY <1>3 DEF MintChange, Genuine, Face, Coin, NewPiece, Busy
  <2>2. \A p \in store' : p \in store \/ p = new
    BY <1>3 DEF MintChange, SaveUTXO
  <2>3. \A p \in store' : p \in store \/ Genuine(p)
    BY <2>1, <2>2
  <2> QED BY <1>0, <1>3, <2>3 DEF MintChange
<1>4. ASSUME NEW c \in Calls, RemoveInput(c) PROVE HoldInv'
  <2>1. store' \subseteq store
    BY <1>4 DEF RemoveInput, RemoveUTXO
  <2> QED BY <1>0, <1>4, <2>1 DEF RemoveInput
<1>5. ASSUME NEW c \in Calls, Report(c) PROVE HoldInv'
  BY <1>0, <1>5 DEF Report
<1>6. ASSUME NEW c \in Calls, StartTransfer(c) PROVE HoldInv'
  <2>1. PICK r \in Moves : \/ \E p \in Held(r.from) : Find(c, r, <<p>>, p.amount, "take")
                           \/ Find(c, r, <<>>, 0, "getFrom")
    BY <1>6 DEF StartTransfer
  <2>2. r \notin Payment /\ wrapped' = wrapped
    BY <1>6 DEF StartTransfer, Payment, Move
  <2>3. ASSUME NEW p \in Held(r.from), Find(c, r, <<p>>, p.amount, "take") PROVE HoldInv'
    <3>1. p \in store /\ p \in Piece
      BY DEF Held, LedgerInv, TypeOK
    <3>2. ToSet(<<p>>) = {p}
      BY DEF ToSet
    <3>3. Worth({p}) = p.amount
      BY <3>1, AmountIs, TotalOne DEF Worth
    <3> QED BY <2>2, <2>3, <3>1, <3>2, <3>3, HoldFind
  <2>4. ASSUME Find(c, r, <<>>, 0, "getFrom") PROVE HoldInv'
    <3>1. ToSet(<<>>) = {} /\ Worth({}) = 0
      BY WorthEmpty DEF ToSet
    <3> QED BY <2>2, <2>4, <3>1, HoldFind
  <2> QED BY <2>1, <2>3, <2>4
<1>7. ASSUME NEW c \in Calls, Take(c) PROVE HoldInv'
  <2>1. store' \subseteq store
    BY <1>7 DEF Take, RemoveUTXO
  <2> QED BY <1>0, <1>7, <2>1 DEF Take
<1>8. ASSUME NEW c \in Calls, Save(c) PROVE HoldInv'
  <2> DEFINE old == Head(todo[c])
             new == [old EXCEPT !.owner = req[c].to]
  <2>1. pc[c] = "save" /\ \A p \in store' : p \in store \/ p = new
    BY <1>8 DEF Save, SaveUTXO
  <2>2. old \in picked[c] /\ old \in Piece /\ c \in Busy
    BY <2>1 DEF LedgerInv, TypeOK, StageInv, Busy
  <2>3. Genuine(old)
    BY <2>2 DEF HoldInv
  <2>4. Coin(new) = Coin(old) /\ new.amount = old.amount /\ new.tx = old.tx
    BY <2>2 DEF Coin, Piece
  <2>5. Genuine(new)
    BY <2>3, <2>4 DEF Genuine
  <2>6. \A p \in store' : p \in store \/ Genuine(p)
    BY <2>1, <2>5
  <2> QED BY <1>0, <1>8, <2>6 DEF Save
<1>9. ASSUME NEW c \in Calls, UpdateUTXOIndex(c) PROVE HoldInv'
  <2>1. PICK next \in {"putFrom", "getTo", "putTo", "done"} :
            /\ pc[c] # "idle" /\ pc' = [pc EXCEPT ![c] = next]
            /\ UNCHANGED <<store, req, picked, total, wrapped>>
    BY <1>9 DEF UpdateUTXOIndex, GetList, PutList
  <2> QED BY <1>0, <2>1
<1>10. CASE Crash
  BY <1>10, HoldStays DEF Crash, Busy
<1>11. CASE UNCHANGED vars
  BY <1>11, HoldStays DEF vars, Busy
<1> QED
  BY <1>1, <1>2, <1>3, <1>4, <1>5, <1>6, <1>7, <1>8, <1>9, <1>10, <1>11 DEF Next

\* What a spend was given is what it pays, what it burns and what it gives back.
LEMMA SpendAddsUp ==
  ASSUME LedgerInv, HoldInv, ~wrapped, NEW c \in Busy, Spend(c)
  PROVE  /\ req[c].amount \in Words /\ req[c].fee \in Words /\ Change(c) \in Words
         /\ Need(req[c]) \in Words /\ total[c] \in Words
         /\ Need(req[c]) = req[c].amount + req[c].fee
         /\ total[c] = Need(req[c]) + Change(c)
<1>1. req[c] \in Payment /\ c \in Calls
  BY DEF Spend, Busy
<1>2. /\ req[c].amount \in Words /\ req[c].fee \in Words /\ total[c] \in Words
      /\ Need(req[c]) \in Words
  BY <1>1, NeedWord DEF Payment, LedgerInv, TypeOK
<1>3. /\ req[c].amount + req[c].fee < Word /\ total[c] >= req[c].amount + req[c].fee
      /\ req[c].amount + req[c].fee \in Nat
  BY <1>1, <1>2 DEF HoldInv, Words
<1>4. Need(req[c]) = req[c].amount + req[c].fee
  BY <1>3, CutToWord DEF Need
<1>5. Change(c) \in Words /\ total[c] = Need(req[c]) + Change(c)
  BY <1>2, <1>3, <1>4 DEF Change, Words
<1> QED BY <1>2, <1>4, <1>5

LEMMA OwnersKeep == CoinInv /\ HoldInv => NeverPoorer
<1> DEFINE spends   == {c \in Calls : Paid(c)}
           giving   == {c \in spends : total[c] > Need(req[c])}
           carrying == Between
           living   == Between \ dead
           cut      == Between \cap dead
           given    == UNION {picked[c] : c \in carrying \cup spends}
           fee      == [c \in spends |-> req[c].fee]
           amount   == [c \in spends |-> req[c].amount]
           need     == [c \in spends |-> Need(req[c])]
           change   == [c \in spends |-> Change(c)]
           coins    == TxIds \X {0, 1}
           face     == [x \in coins |-> Face(x)]
           first    == {Coin(p) : p \in Genesis}
           paid     == {<<c, 0>> : c \in spends}
           back     == {<<c, 1>> : c \in giving}
           kept     == {Coin(p) : p \in store}
           left     == {Coin(p) : p \in given}
<1> SUFFICES ASSUME LedgerInv, AllKept, HoldInv, ~wrapped
             PROVE  Worth(Genesis) <= Worth(store) + Total(total, living)
                                          + Total(fee, spends) + Total(total, cut)
  BY DEF NeverPoorer, CoinInv
<1>1. /\ IsFiniteSet(spends) /\ IsFiniteSet(giving) /\ IsFiniteSet(carrying)
      /\ spends \subseteq Busy /\ carrying \subseteq Busy
  <2>1. spends \subseteq Busy /\ giving \subseteq Busy /\ carrying \subseteq Busy
    BY DEF Paid, Busy, Between
  <2> QED BY <2>1, FS_Subset DEF HoldInv
<1>2. spends \cap carrying = {}
  BY DEF Paid, Between
<1>3. /\ IsFiniteSet(given) /\ Worth(given) <= Total(total, carrying \cup spends)
      /\ given \subseteq Piece /\ \A p \in given : Genuine(p)
  <2>1. ASSUME NEW c \in carrying \cup spends
        PROVE  /\ IsFiniteSet(picked[c]) /\ picked[c] \subseteq Piece /\ total[c] \in Words
               /\ total[c] = Worth(picked[c]) /\ \A p \in picked[c] : Genuine(p)
    BY <1>1 DEF HoldInv, LedgerInv, TypeOK, Between
  <2>2. IsFiniteSet(carrying \cup spends)
    BY <1>1, FS_Union
  <2>3. IsFiniteSet(given) /\ Total(Amount, given) <= Total(total, carrying \cup spends)
    <3> DEFINE S == carrying \cup spends
    <3>1. \A c \in S : IsFiniteSet(picked[c])
      BY <2>1
    <3>2. \A c \in S : total[c] \in Words /\ total[c] = Total(Amount, picked[c])
      BY <2>1 DEF Worth
    <3>3. /\ \A c \in S : picked[c] \subseteq given
          /\ \A p \in given : \E c \in S : p \in picked[c]
      OBVIOUS
    <3> HIDE DEF given, S
    <3>4. IsFiniteSet(given) /\ Total(Amount, given) <= Total(total, S)
      BY <2>2, <3>1, <3>2, <3>3, TotalCover DEF S
    <3> QED BY <3>4 DEF S
  <2> HIDE DEF spends, carrying
  <2> QED BY <2>1, <2>3 DEF Worth
<1>4. ASSUME NEW P, IsFiniteSet(P), P \subseteq Piece, \A p \in P : Genuine(p),
             NEW C, C = {Coin(p) : p \in P}
      PROVE  /\ IsFiniteSet(C) /\ Total(face, C) <= Worth(P)
             /\ (\A p, q \in P : Coin(p) = Coin(q) => p = q) => Total(face, C) = Worth(P)
  <2> DEFINE e == [p \in P |-> Coin(p)]
  <2>1. e \in [P -> C] /\ \A x \in C : \E p \in P : e[p] = x
    BY <1>4
  <2>2. \A p \in P : Coin(p) \in coins
    BY <1>4 DEF Coin, Piece
  <2>3. \A p \in P : face[e[p]] = Amount[p]
    BY <1>4, <2>2, AmountIs DEF Genuine
  <2>4. \A p \in P : e[p] = Coin(p)
    OBVIOUS
  <2> HIDE DEF e, face
  <2>5. /\ IsFiniteSet(C) /\ Total(face, C) <= Total(Amount, P)
        /\ (\A p, q \in P : e[p] = e[q] => p = q) => Total(face, C) = Total(Amount, P)
    <3>1. IsFiniteSet(P)
      BY <1>4
    <3> QED BY <2>1, <2>3, <3>1, TotalImage
  <2>6. (\A p, q \in P : Coin(p) = Coin(q) => p = q) => \A p, q \in P : e[p] = e[q] => p = q
    BY <2>4
  <2>7. Worth(P) = Total(Amount, P)
    BY DEF Worth
  <2> QED BY <2>5, <2>6, <2>7
<1>5. Total(face, first) = Worth(Genesis) /\ IsFiniteSet(first)
  <2>1. \A p, q \in Genesis : Coin(p) = Coin(q) => p = q
    BY DEF Coin
  <2>2. ASSUME NEW p \in Genesis PROVE Genuine(p)
    <3>1. p.tx \notin Calls /\ Coin(p)[1] = p.tx
      BY DEF Coin
    <3>2. (CHOOSE q \in Genesis : Coin(q) = Coin(p)) = p
      BY <2>1
    <3> QED BY <3>1, <3>2 DEF Genuine, Face
  <2> HIDE DEF face
  <2> QED BY <1>4, <2>1, <2>2
<1>6. Total(face, kept) <= Worth(store) /\ IsFiniteSet(kept)
  <2> HIDE DEF face
  <2> QED BY <1>4 DEF LedgerInv, TypeOK, HoldInv
<1>7. Total(face, left) <= Worth(given) /\ IsFiniteSet(left)
  <2> HIDE DEF face, given
  <2> QED BY <1>3, <1>4
<1>8. Total(face, paid) = Total(amount, spends) /\ IsFiniteSet(paid)
  <2> DEFINE e == [c \in spends |-> <<c, 0>>]
  <2>1. /\ e \in [spends -> paid] /\ \A x \in paid : \E c \in spends : e[c] = x
        /\ \A c, d \in spends : e[c] = e[d] => c = d
    OBVIOUS
  <2>2. \A c \in spends : face[e[c]] = amount[c]
    BY DEF Face, TxIds
  <2>3. IsFiniteSet(spends)
    BY <1>1
  <2> HIDE DEF e, face, amount, spends, paid
  <2> QED BY <2>1, <2>2, <2>3, TotalImage
<1>9. Total(face, back) = Total(change, giving) /\ IsFiniteSet(back)
  <2> DEFINE e == [c \in giving |-> <<c, 1>>]
  <2>1. /\ e \in [giving -> back] /\ \A x \in back : \E c \in giving : e[c] = x
        /\ \A c, d \in giving : e[c] = e[d] => c = d
    OBVIOUS
  <2>2. \A c \in giving : face[e[c]] = change[c]
    BY DEF Face, TxIds
  <2> HIDE DEF e, face, change, giving, back
  <2>3. IsFiniteSet(giving)
    BY <1>1
  <2> QED BY <2>1, <2>2, <2>3, TotalImage
<1>10. Total(change, giving) = Total(change, spends)
  <2>1. \A c \in spends : change[c] = Change(c)
    OBVIOUS
  <2>2. \A c \in spends \ giving : Change(c) = 0
    BY <1>1, SpendAddsUp DEF Words, Paid
  <2>3. giving \subseteq spends
    OBVIOUS
  <2> HIDE DEF change, giving, spends
  <2> QED BY <2>1, <2>2, <2>3, UnitsSame
<1>11. Total(total, spends) = Total(amount, spends) + Total(fee, spends) + Total(change, spends)
  <2>1. \A c \in spends :
           /\ amount[c] \in Words /\ fee[c] \in Words /\ need[c] \in Words
           /\ change[c] \in Words /\ total[c] \in Words
           /\ need[c] = amount[c] + fee[c] /\ total[c] = need[c] + change[c]
    BY <1>1, SpendAddsUp DEF Paid
  <2> HIDE DEF amount, fee, need, change, spends
  <2>2. Total(need, spends) = Total(amount, spends) + Total(fee, spends)
    BY <1>1, <2>1, TotalPlus
  <2>3. Total(total, spends) = Total(need, spends) + Total(change, spends)
    BY <1>1, <2>1, TotalPlus
  <2> QED BY <2>2, <2>3
<1>12. first \cup paid \cup back \subseteq kept \cup left
  <2>1. ASSUME NEW x \in first \cup paid \cup back PROVE x \in coins /\ Minted(x)
    <3>1. CASE x \in first
      BY <3>1 DEF Minted, Coin, Piece
    <3>2. CASE x \in paid
      BY <3>2 DEF Minted, Paid, TxIds
    <3>3. CASE x \in back
      BY <3>3 DEF Minted, TxIds
    <3> QED BY <2>1, <3>1, <3>2, <3>3
  <2>2. ASSUME NEW x, Kept(x) PROVE x \in kept \cup left
    BY <2>2 DEF Kept, Stored, Carrying, CarriedBy, Between, SpentBy
  <2> HIDE DEF first, paid, back, kept, left
  <2> QED BY <2>1, <2>2 DEF AllKept
<1>13. first \cap paid = {} /\ (first \cup paid) \cap back = {}
  BY DEF Coin
<1>14. /\ IsFiniteSet(first \cup paid)
       /\ Total(face, first \cup paid \cup back)
            = Total(face, first) + Total(face, paid) + Total(face, back)
  <2> HIDE DEF first, paid, back, face
  <2>1. IsFiniteSet(first \cup paid)
    BY <1>5, <1>8, FS_Union
  <2>2. Total(face, first \cup paid) = Total(face, first) + Total(face, paid)
    BY <1>5, <1>8, <1>13, TotalUnion
  <2>3. Total(face, first \cup paid \cup back) = Total(face, first \cup paid) + Total(face, back)
    BY <1>9, <1>13, <2>1, TotalUnion
  <2> QED BY <2>1, <2>2, <2>3
<1>15. Total(face, first \cup paid \cup back) <= Total(face, kept) + Total(face, left)
  <2> HIDE DEF first, paid, back, kept, left, face
  <2> QED BY <1>6, <1>7, <1>12, TotalAtMost
<1>16. Total(total, carrying \cup spends) = Total(total, carrying) + Total(total, spends)
  <2> HIDE DEF carrying, spends
  <2> QED BY <1>1, <1>2, TotalUnion
<1>17. /\ Worth(Genesis) \in Nat /\ Worth(store) \in Nat /\ Worth(given) \in Nat
       /\ Total(total, carrying) \in Nat /\ Total(total, spends) \in Nat
       /\ Total(total, living) \in Nat /\ Total(total, cut) \in Nat
       /\ Total(fee, spends) \in Nat /\ Total(amount, spends) \in Nat
       /\ Total(change, spends) \in Nat /\ Total(face, kept) \in Nat /\ Total(face, left) \in Nat
  <2>1. IsFiniteSet(living) /\ IsFiniteSet(cut)
    BY <1>1, FS_Subset
  <2> HIDE DEF carrying, living, cut, spends, fee, amount, change, face, kept, left, given
  <2> QED BY <1>1, <1>3, <1>6, <1>7, <2>1, UnitsFinite DEF Worth, LedgerInv
\* What a crash has cut off is told apart from what is still on its way.
<1>18. Total(total, carrying) = Total(total, living) + Total(total, cut)
  <2>1. IsFiniteSet(living) /\ IsFiniteSet(cut)
    BY <1>1, FS_Subset
  <2>2. living \cup cut = carrying /\ living \cap cut = {}
    OBVIOUS
  <2> HIDE DEF carrying, living, cut
  <2> QED BY <2>1, <2>2, TotalUnion
<1> HIDE DEF carrying, living, cut, spends, giving, fee, amount, change, face, kept, left, given, first, paid, back
<1> QED
  BY <1>3, <1>5, <1>6, <1>7, <1>8, <1>9, <1>10, <1>11, <1>14, <1>15, <1>16, <1>17, <1>18

\* Requests of HandleAutoSpend and HandleTransferUTXO that overlap or are cut
\* off cost the owners together no more than the fees and the pieces that a
\* crash caught between the two store calls of a transfer: what any other
\* request gives up has been minted for somebody, or is on its way.
THEOREM OwnersNeverPoorer == Spec => []NeverPoorer
<1> DEFINE Inv == CoinInv /\ HoldInv
<1>1. Init => Inv
  BY CoinInit, HoldInit
<1>2. Inv /\ [Next]_vars => Inv'
  BY CoinStep, HoldStep DEF CoinInv
<1>3. Inv => NeverPoorer
  BY OwnersKeep
<1> QED BY <1>1, <1>2, <1>3, PTL DEF Spec

-----------------------------------------------------------------------------
(***************************************************************************)
(* Calm times.  As long as no two requests have found the same piece, every*)
(* coin has one piece at most, in the store or carried by one transfer, and*)
(* what the requests have still to remove is theirs alone.  Then each step *)
(* of a request either is the moment of its payment or leaves every address*)
(* the same balance.                                                       *)
(***************************************************************************)
AtWork == {"mint", "change", "remove", "take", "save"}

Tidy ==
    /\ dead = {}
    /\ \A p, q \in store : Coin(p) = Coin(q) => p = q
    /\ \A p \in store : Minted(Coin(p))
    /\ \A c \in Calls :
          /\ pc[c] \notin AtWork => todo[c] = <<>>
          /\ \A i, j \in DOMAIN todo[c] : todo[c][i] = todo[c][j] => i = j
          /\ pc[c] # "save" => ToSet(todo[c]) \subseteq store
          /\ pc[c] = "save" => \A p \in ToSet(todo[c]) : Minted(Coin(p)) /\ ~Stored(Coin(p))
          /\ \A d \in Calls \ {c} :
                \A p \in ToSet(todo[c]), q \in ToSet(todo[d]) : Coin(p) # Coin(q)

\* The pieces of an address that no request is about to remove, and what the
\* requests have still to bring it.
Free(a)     == {p \in Held(a) : \A c \in Calls : p \notin ToSet(todo[c])}
Promises(a) == [c \in Calls |-> Promised(c, a)]

LEMMA EmptyToSet == ToSet(<<>>) = {}
  BY DEF ToSet

LEMMA TidyInit == Init => Tidy
<1> SUFFICES ASSUME Init PROVE Tidy
  OBVIOUS
<1>1. \A c \in Calls : todo[c] = <<>> /\ pc[c] = "idle"
  BY DEF Init
<1>2. \A p \in store : Minted(Coin(p))
  BY DEF Init, Minted
<1> QED BY <1>1, <1>2, EmptyToSet DEF Init, Tidy, Coin

\* What is minted stays minted.
LEMMA MintedStays ==
  ASSUME NEW c \in Calls, NEW x, Minted(x),
         \A d \in Calls \ {c} : /\ pc'[d] = pc[d] /\ req'[d] = req[d]
                                /\ total'[d] = total[d],
         Spend(c) /\ pc[c] \in {"change", "remove", "report", "done"}
             => /\ req'[c] = req[c] /\ total'[c] = total[c]
                /\ pc'[c] \in {"remove", "report", "done"}
  PROVE  Minted(x)'
<1>1. CASE \E p \in Genesis : Coin(p) = x
  BY <1>1 DEF Minted, Coin
<1>2. ASSUME NEW d \in Calls,
             \/ x = <<d, 0>> /\ Spend(d) /\ pc[d] \in {"change", "remove", "report", "done"}
             \/ x = <<d, 1>> /\ Paid(d) /\ total[d] > Need(req[d])
      PROVE  Minted(x)'
  BY <1>2 DEF Minted, Spend, Paid, Need
<1> QED BY <1>1, <1>2 DEF Minted

\* A piece of a coin that was not minted before joins the store, and no
\* request has it to do.
LEMMA FreshPiece ==
  ASSUME LedgerInv, Tidy, NEW new, ~Minted(Coin(new)), SaveUTXO(new)
  PROVE  /\ store' = store \cup {new} /\ new \notin store
         /\ \A p \in store : Coin(p) # Coin(new)
         /\ \A c \in Calls : \A p \in ToSet(todo[c]) : Coin(p) # Coin(new)
<1>1. \A p \in store : Coin(p) # Coin(new)
  BY DEF Tidy
<1>2. \A c \in Calls : \A p \in ToSet(todo[c]) : Coin(p) # Coin(new)
  BY <1>1 DEF Tidy
<1>3. \A p \in store : Key(p) # Key(new)
  BY <1>1 DEF Key, Coin
<1> QED BY <1>1, <1>2, <1>3 DEF SaveUTXO

\* Only the piece itself leaves the store.
LEMMA OnePieceGone ==
  ASSUME Tidy, NEW gone \in store, RemoveUTXO(gone)
  PROVE  store' = store \ {gone}
<1>1. \A p \in store : Key(p) = Key(gone) => p = gone
  BY DEF Tidy, Key, Coin
<1> QED BY <1>1 DEF RemoveUTXO

LEMMA WorthAdds ==
  ASSUME NEW P, IsFiniteSet(P), P \subseteq Piece, NEW p \in Piece, p \notin P
  PROVE  Worth(P \cup {p}) = Worth(P) + p.amount
<1>1. Total(Amount, P \cup {p}) = Total(Amount, P) + Total(Amount, {p})
  <2>1. IsFiniteSet({p}) /\ P \cap {p} = {}
    BY FS_Singleton
  <2> QED BY <2>1, TotalUnion
<1>2. Total(Amount, {p}) = p.amount
  BY AmountIs, TotalOne
<1> QED BY <1>1, <1>2 DEF Worth

LEMMA WorthParts ==
  ASSUME NEW P, IsFiniteSet(P), NEW Q, Q \subseteq P
  PROVE  Worth(P) = Worth(P \ Q) + Worth(Q)
<1>1. IsFiniteSet(P \ Q) /\ IsFiniteSet(Q)
  BY FS_Subset
<1>2. (P \ Q) \cup Q = P /\ (P \ Q) \cap Q = {}
  OBVIOUS
<1>3. Total(Amount, (P \ Q) \cup Q) = Total(Amount, P \ Q) + Total(Amount, Q)
  BY <1>1, <1>2, TotalUnion
<1> QED BY <1>2, <1>3 DEF Worth

\* Two sums over the requests that differ in one term.
LEMMA OneTermChanges ==
  ASSUME NEW S, IsFiniteSet(S), NEW c \in Calls, NEW f, NEW g,
         \A d \in Calls \ S : f[d] = 0 /\ g[d] = 0,
         \A d \in Calls \ {c} : f[d] = g[d], f[c] \in Words, g[c] \in Words
  PROVE  \E n \in Nat : Total(f, Calls) = n + f[c] /\ Total(g, Calls) = n + g[c]
<1> DEFINE R == (S \cap Calls) \ {c}
<1>1. IsFiniteSet(R) /\ IsFiniteSet({c}) /\ R \cap {c} = {}
  BY FS_Subset, FS_Singleton
<1>2. ASSUME NEW h, \A d \in Calls \ S : h[d] = 0, h[c] \in Words
      PROVE  Total(h, Calls) = Total(h, R) + h[c]
  <2>1. Total(h, R \cup {c}) = Total(h, R) + Total(h, {c})
    BY <1>1, TotalUnion
  <2>2. Total(h, Calls) = Total(h, R \cup {c})
    <3>1. /\ \A d \in Calls \cap (R \cup {c}) : h[d] = h[d]
          /\ \A d \in Calls \ (R \cup {c}) : h[d] = 0
          /\ \A d \in (R \cup {c}) \ Calls : h[d] = 0
      BY <1>2
    <3> QED BY <3>1, UnitsSame
  <2> QED BY <1>2, <2>1, <2>2, TotalOne
<1>3. Total(f, R) = Total(g, R)
  <2>1. \A d \in R \cap R : f[d] = g[d]
    OBVIOUS
  <2> QED BY <2>1, UnitsSame
<1>4. Total(f, R) \in Nat
  BY <1>1, UnitsFinite
<1> QED BY <1>2, <1>3, <1>4

\* What a request brings an address at every stage.
LEMMA PromisedIs ==
  ASSUME NEW c, NEW a
  PROVE  /\ pc[c] = "mint" =>
                Promised(c, a) = (IF req[c].to = a THEN req[c].amount ELSE 0)
                                     + (IF req[c].from = a THEN Change(c) ELSE 0)
         /\ pc[c] = "change" => Promised(c, a) = IF req[c].from = a THEN Change(c) ELSE 0
         /\ pc[c] \in {"take", "save"} => Promised(c, a) = IF req[c].to = a THEN total[c] ELSE 0
         /\ pc[c] \notin {"mint", "change", "take", "save"} => Promised(c, a) = 0
  BY DEF Promised

\* No promise is more than the request has found.
PromisesFit == \A c \in Calls, a \in Addrs : Promised(c, a) \in Words

LEMMA PromisedWords == LedgerInv /\ HoldInv /\ ~wrapped => PromisesFit
<1> SUFFICES ASSUME LedgerInv, HoldInv, ~wrapped, NEW c \in Calls, NEW a \in Addrs
             PROVE  Promised(c, a) \in Words
  BY DEF PromisesFit
<1>1. total[c] \in Words /\ 0 \in Words
  BY DEF LedgerInv, TypeOK, Words
<1>2. CASE pc[c] \in {"mint", "change"}
  <2>1. c \in Busy /\ Spend(c)
    BY <1>2 DEF LedgerInv, StageInv, Busy, Spend
  <2>2. /\ req[c].amount \in Words /\ Change(c) \in Words
        /\ req[c].amount + Change(c) \in Words
    BY <2>1, SpendAddsUp DEF Words
  <2> QED BY <1>1, <1>2, <2>2, PromisedIs DEF Words
<1>3. CASE pc[c] \notin {"mint", "change"}
  BY <1>1, <1>3, PromisedIs
<1> QED BY <1>2, <1>3

FreeFits ==
    \A a \in Addrs : Free(a) \subseteq Piece /\ IsFiniteSet(Free(a)) /\ Worth(Free(a)) \in Nat

LEMMA FreeFinite == LedgerInv => FreeFits
<1> SUFFICES ASSUME LedgerInv, NEW a \in Addrs
             PROVE  /\ Free(a) \subseteq Piece /\ IsFiniteSet(Free(a))
                    /\ Worth(Free(a)) \in Nat
  BY DEF FreeFits
<1>1. Free(a) \in SUBSET store
  BY DEF Free, Held
<1> QED BY <1>1, FS_Subset, WorthType DEF LedgerInv, TypeOK

\* The balance of an address around a step of one request.
LEMMA SettledStep ==
  ASSUME LedgerInv, HoldInv, ~wrapped, LedgerInv', HoldInv', ~wrapped',
         NEW c \in Calls, NEW a \in Addrs, Busy' \subseteq Busy \cup {c},
         \A d \in Calls \ {c} : /\ pc'[d] = pc[d] /\ req'[d] = req[d]
                                /\ total'[d] = total[d]
  PROVE  \E n \in Nat :
            /\ Settled(a) = Worth(Free(a)) + (n + Promised(c, a))
            /\ Settled(a)' = Worth(Free(a))' + (n + Promised(c, a)')
<1> DEFINE f == Promises(a)
           g == Promises(a)'
<1>1. f[c] = Promised(c, a) /\ g[c] = Promised(c, a)'
  BY DEF Promises
<1>2. Promised(c, a) \in Words /\ Promised(c, a)' \in Words
  <2>1. PromisesFit /\ PromisesFit'
    BY PromisedWords, PTL
  <2> QED BY <2>1 DEF PromisesFit
<1>3. \A d \in Calls \ {c} : f[d] = g[d]
  <2>1. \A d \in Calls \ {c} : Promised(d, a)' = Promised(d, a)
    BY DEF Promised, Change, Need
  <2> QED BY <2>1 DEF Promises
<1>4. \A d \in Calls \ (Busy \cup {c}) : f[d] = 0 /\ g[d] = 0
  <2>1. \A d \in Calls \ (Busy \cup {c}) : Promised(d, a) = 0
    BY PromisedIs DEF Busy
  <2>2. \A d \in Calls \ (Busy \cup {c}) : f[d] = 0
    BY <2>1 DEF Promises
  <2> QED BY <1>3, <2>2
<1>5. IsFiniteSet(Busy \cup {c})
  BY FS_AddElement DEF HoldInv
<1>6. Settled(a) = Worth(Free(a)) + Total(f, Calls)
  BY DEF Settled, Free, Promises
<1>7. Settled(a)' = Worth(Free(a))' + Total(g, Calls)
  BY DEF Settled, Free, Promises, Worth, Held
<1> HIDE DEF f, g
<1>8. \E n \in Nat : Total(f, Calls) = n + f[c] /\ Total(g, Calls) = n + g[c]
  BY <1>1, <1>2, <1>3, <1>4, <1>5, OneTermChanges
<1> QED BY <1>1, <1>6, <1>7, <1>8

\* A step after which the free pieces and the promises of its request are
\* worth the same, for every address.
LEMMA BalanceStays ==
  ASSUME LedgerInv, HoldInv, ~wrapped, LedgerInv', HoldInv', ~wrapped',
         NEW c \in Calls, Busy' \subseteq Busy \cup {c},
         \A d \in Calls \ {c} : /\ pc'[d] = pc[d] /\ req'[d] = req[d]
                                /\ total'[d] = total[d],
         \A a \in Addrs : Worth(Free(a))' + Promised(c, a)' = Worth(Free(a)) + Promised(c, a)
  PROVE  UNCHANGED LedgerBalance
<1>1. ASSUME NEW a \in Addrs PROVE Settled(a)' = Settled(a)
  <2>1. PICK n \in Nat : /\ Settled(a) = Worth(Free(a)) + (n + Promised(c, a))
                         /\ Settled(a)' = Worth(Free(a))' + (n + Promised(c, a)')
    BY SettledStep
  <2>2. /\ Worth(Free(a)) \in Nat /\ Worth(Free(a))' \in Nat
        /\ Promised(c, a) \in Nat /\ Promised(c, a)' \in Nat
    <3>1. PromisesFit /\ PromisesFit' /\ FreeFits /\ FreeFits'
      BY PromisedWords, FreeFinite, PTL
    <3>2. \A w \in Words : w \in Nat
      BY DEF Words
    <3>3. Worth(Free(a))' \in Nat
      BY <3>1 DEF FreeFits
    <3> QED BY <3>1, <3>2, <3>3 DEF PromisesFit, FreeFits
  <2>3. Worth(Free(a))' + Promised(c, a)' = Worth(Free(a)) + Promised(c, a)
    OBVIOUS
  <2> QED BY <2>1, <2>2, <2>3
<1> QED BY <1>1 DEF LedgerBalance

\* A piece that joins the store, and that no request has to do, is free.
LEMMA FreeJoins ==
  ASSUME LedgerInv, NEW new \in Piece, new \notin store, store' = store \cup {new},
         \A d \in Calls : new \notin ToSet(todo'[d]),
         \A p \in store : (\A d \in Calls : p \notin ToSet(todo'[d]))
                             <=> (\A d \in Calls : p \notin ToSet(todo[d])),
         NEW a \in Addrs
  PROVE  Worth(Free(a))' = Worth(Free(a)) + (IF new.owner = a THEN new.amount ELSE 0)
<1>1. Free(a)' = IF new.owner = a THEN Free(a) \cup {new} ELSE Free(a)
  BY DEF Free, Held
<1>2. new \notin Free(a) /\ Free(a) \subseteq Piece /\ IsFiniteSet(Free(a)) /\ Worth(Free(a)) \in Nat
  BY FreeFinite DEF FreeFits, Free, Held
<1>3. Worth(Free(a))' = Worth(Free(a)')
  BY DEF Worth
<1>4. CASE new.owner = a
  BY <1>1, <1>2, <1>3, <1>4, WorthAdds
<1>5. CASE new.owner # a
  BY <1>1, <1>2, <1>3, <1>5
<1> QED BY <1>4, <1>5

\* Both steps that mint.
LEMMA MintKeepsTidy ==
  ASSUME LedgerInv, Tidy, NEW c \in Calls, pc[c] \in {"mint", "change"},
         NEW new \in Piece, ~Minted(Coin(new)), Minted(Coin(new))', SaveUTXO(new),
         pc' \in [Calls -> Stages], \A d \in Calls \ {c} : pc'[d] = pc[d],
         \/ pc'[c] = "remove"
         \/ pc[c] = "mint" /\ (pc'[c] = "change" \/ (pc'[c] = "report" /\ todo[c] = <<>>)),
         UNCHANGED <<req, picked, todo, total, dead>>
  PROVE  /\ Tidy'
         /\ \A a \in Addrs : Worth(Free(a))' = Worth(Free(a))
                                                 + (IF new.owner = a THEN new.amount ELSE 0)
<1>1. /\ store' = store \cup {new} /\ new \notin store
      /\ \A p \in store : Coin(p) # Coin(new)
      /\ \A d \in Calls : \A p \in ToSet(todo[d]) : Coin(p) # Coin(new)
  BY FreshPiece
<1>2. \A x : Minted(x) => Minted(x)'
  BY MintedStays
<1>3. \A p, q \in store' : Coin(p) = Coin(q) => p = q
  BY <1>1 DEF Tidy
<1>4. \A p \in store' : Minted(Coin(p))'
  BY <1>1, <1>2 DEF Tidy
<1>5. \A x : Stored(x)' => Stored(x) \/ x = Coin(new)
  BY <1>1 DEF Stored, Coin
<1>6. ASSUME NEW d \in Calls
      PROVE  /\ pc'[d] \notin AtWork => todo[d] = <<>>
             /\ pc'[d] # "save" => ToSet(todo[d]) \subseteq store'
             /\ pc'[d] = "save" => \A p \in ToSet(todo[d]) : Minted(Coin(p))' /\ ~Stored(Coin(p))'
  <2>1. CASE d = c
    BY <1>1, <2>1 DEF Tidy, AtWork
  <2>2. CASE d # c
    <3>1. pc'[d] = pc[d]
      BY <2>2
    <3>2. \A p \in ToSet(todo[d]) : Stored(Coin(p))' => Stored(Coin(p))
      BY <1>1, <1>5
    <3> QED BY <1>1, <1>2, <3>1, <3>2 DEF Tidy
  <2> QED BY <2>1, <2>2
<1>7. Tidy'
  BY <1>3, <1>4, <1>6 DEF Tidy, Coin
<1>8. \A d \in Calls : new \notin ToSet(todo'[d])
  BY <1>1
<1>9. \A p \in store : (\A d \in Calls : p \notin ToSet(todo'[d]))
                          <=> (\A d \in Calls : p \notin ToSet(todo[d]))
  OBVIOUS
<1> QED BY <1>1, <1>7, <1>8, <1>9, FreeJoins

\* A spend takes an input that is still to be removed out of the store.
LEMMA RemoveKeepsTidy ==
  ASSUME LedgerInv, Tidy, NEW c \in Calls, RemoveInput(c)
  PROVE  Tidy' /\ \A a \in Addrs : Free(a)' = Free(a)
<1> DEFINE gone == Head(todo[c])
           rest == Tail(todo[c])
<1>1. /\ pc[c] = "remove" /\ RemoveUTXO(gone) /\ UNCHANGED <<req, picked, total, dead>>
      /\ todo'[c] = rest /\ \A d \in Calls \ {c} : todo'[d] = todo[d] /\ pc'[d] = pc[d]
      /\ pc'[c] = IF Len(todo[c]) = 1 THEN "report" ELSE "remove"
  BY DEF RemoveInput, LedgerInv, TypeOK
<1>2. todo[c] \in Seq(Piece) /\ todo[c] # <<>>
  BY <1>1 DEF LedgerInv, TypeOK, StageInv
<1>3. /\ gone = todo[c][1] /\ 1 \in DOMAIN todo[c] /\ rest \in Seq(Piece)
      /\ Len(rest) = Len(todo[c]) - 1 /\ Len(todo[c]) \in Nat
      /\ DOMAIN todo[c] = 1 .. Len(todo[c]) /\ DOMAIN rest = 1 .. Len(rest)
      /\ \A i \in DOMAIN rest : i + 1 \in DOMAIN todo[c] /\ rest[i] = todo[c][i + 1]
  BY <1>2, HeadTailProperties, LenProperties
<1>4. \A i, j \in DOMAIN todo[c] : todo[c][i] = todo[c][j] => i = j
  BY DEF Tidy
<1>5. ToSet(rest) = ToSet(todo[c]) \ {gone} /\ gone \in ToSet(todo[c])
  <2>1. gone \in ToSet(todo[c]) /\ ToSet(rest) \subseteq ToSet(todo[c])
    BY <1>3 DEF ToSet
  <2>2. gone \notin ToSet(rest)
    <3>1. ASSUME NEW i \in DOMAIN rest PROVE rest[i] # gone
      <4>1. i + 1 \in DOMAIN todo[c] /\ rest[i] = todo[c][i + 1] /\ i + 1 # 1
        BY <1>3
      <4> QED BY <1>3, <1>4, <4>1
    <3> QED BY <3>1 DEF ToSet
  <2>3. ASSUME NEW p \in ToSet(todo[c]), p # gone PROVE p \in ToSet(rest)
    <3>1. PICK i \in DOMAIN todo[c] : todo[c][i] = p
      BY <2>3 DEF ToSet
    <3>2. i - 1 \in DOMAIN rest /\ i - 1 + 1 = i
      BY <1>3, <2>3, <3>1
    <3> HIDE DEF rest
    <3> QED BY <1>3, <3>1, <3>2 DEF ToSet
  <2> QED BY <2>1, <2>2, <2>3
<1>6. \A i, j \in DOMAIN rest : rest[i] = rest[j] => i = j
  <2>1. ASSUME NEW i \in DOMAIN rest, NEW j \in DOMAIN rest, rest[i] = rest[j] PROVE i = j
    <3>1. i + 1 = j + 1
      BY <1>3, <1>4, <2>1
    <3> QED BY <1>3, <3>1
  <2> QED BY <2>1
<1>7. Len(todo[c]) = 1 => rest = <<>>
  BY <1>3, EmptySeq, LenProperties
<1>8. gone \in store /\ store' = store \ {gone}
  BY <1>1, <1>5, OnePieceGone DEF Tidy
<1>9. \A x : Minted(x) => Minted(x)'
  <2>1. \A d \in Calls \ {c} : pc'[d] = pc[d] /\ req'[d] = req[d] /\ total'[d] = total[d]
    BY <1>1
  <2>2. pc'[c] \in {"remove", "report", "done"} /\ req'[c] = req[c] /\ total'[c] = total[c]
    BY <1>1
  <2> QED BY <2>1, <2>2, MintedStays
<1> HIDE DEF rest, gone
<1>10. ASSUME NEW d \in Calls
       PROVE  /\ pc'[d] \notin AtWork => todo'[d] = <<>>
              /\ \A i, j \in DOMAIN todo'[d] : todo'[d][i] = todo'[d][j] => i = j
              /\ pc'[d] # "save" => ToSet(todo'[d]) \subseteq store'
              /\ pc'[d] = "save" => \A p \in ToSet(todo'[d]) : Minted(Coin(p))' /\ ~Stored(Coin(p))'
              /\ ToSet(todo'[d]) \subseteq ToSet(todo[d])
  <2>1. CASE d = c
    BY <1>1, <1>5, <1>6, <1>7, <1>8, <2>1 DEF Tidy, AtWork
  <2>2. CASE d # c
    <3>1. pc'[d] = pc[d] /\ todo'[d] = todo[d]
      BY <1>1, <2>2
    <3>2. gone \notin ToSet(todo[d])
      BY <1>5, <2>2 DEF Tidy
    <3>3. \A p : Stored(Coin(p))' => Stored(Coin(p))
      BY <1>8 DEF Stored, Coin
    <3> QED BY <1>8, <1>9, <3>1, <3>2, <3>3 DEF Tidy
  <2> QED BY <2>1, <2>2
<1>11. Tidy'
  <2>1. \A d \in Calls : \A e \in Calls \ {d} :
            \A p \in ToSet(todo'[d]), q \in ToSet(todo'[e]) : Coin(p) # Coin(q)
    BY <1>10 DEF Tidy
  <2> QED BY <1>1, <1>8, <1>9, <1>10, <2>1 DEF Tidy, Coin
<1>12. ASSUME NEW a \in Addrs PROVE Free(a)' = Free(a)
  <2>1. ASSUME NEW p \in store
        PROVE  (p # gone /\ \A d \in Calls : p \notin ToSet(todo'[d]))
                   <=> (\A d \in Calls : p \notin ToSet(todo[d]))
    BY <1>1, <1>5
  <2> QED BY <1>8, <2>1 DEF Free, Held
<1> QED BY <1>11, <1>12

\* A transfer takes its piece out of the store.
LEMMA TakeKeepsTidy ==
  ASSUME LedgerInv, Tidy, NEW c \in Calls, Take(c)
  PROVE  Tidy' /\ \A a \in Addrs : Free(a)' = Free(a)
<1> DEFINE gone == Head(todo[c])
<1>1. /\ pc[c] = "take" /\ pc'[c] = "save" /\ RemoveUTXO(gone)
      /\ UNCHANGED <<req, picked, todo, total, dead>>
      /\ \A d \in Calls \ {c} : pc'[d] = pc[d]
  BY DEF Take, LedgerInv, TypeOK
<1>2. todo[c] \in Seq(Piece) /\ todo[c] # <<>> /\ ToSet(todo[c]) = {gone}
  BY <1>1, HeadAndTail DEF LedgerInv, TypeOK, StageInv
<1>3. gone \in store /\ store' = store \ {gone}
  BY <1>1, <1>2, OnePieceGone DEF Tidy
<1>4. \A x : Minted(x) => Minted(x)'
  <2>1. ~(Spend(c) /\ pc[c] \in {"change", "remove", "report", "done"})
    BY <1>1
  <2> QED BY <1>1, <2>1, MintedStays
<1> HIDE DEF gone
<1>5. \A p : Stored(Coin(p))' => Stored(Coin(p)) /\ Coin(p) # Coin(gone)
  BY <1>3 DEF Stored, Coin, Tidy
<1>6. ASSUME NEW d \in Calls
      PROVE  /\ pc'[d] \notin AtWork => todo[d] = <<>>
             /\ pc'[d] # "save" => ToSet(todo[d]) \subseteq store'
             /\ pc'[d] = "save" => \A p \in ToSet(todo[d]) : Minted(Coin(p))' /\ ~Stored(Coin(p))'
  <2>1. CASE d = c
    BY <1>1, <1>2, <1>3, <1>4, <1>5, <2>1 DEF Tidy, AtWork
  <2>2. CASE d # c
    <3>1. pc'[d] = pc[d]
      BY <1>1, <2>2
    <3>2. gone \notin ToSet(todo[d])
      BY <1>2, <2>2 DEF Tidy
    <3> QED BY <1>3, <1>4, <1>5, <3>1, <3>2 DEF Tidy
  <2> QED BY <2>1, <2>2
<1>7. Tidy'
  BY <1>1, <1>3, <1>4, <1>6 DEF Tidy, Coin
<1>8. \A a \in Addrs : Free(a)' = Free(a)
  BY <1>1, <1>2, <1>3 DEF Free, Held
<1> QED BY <1>7, <1>8

\* A transfer brings its piece back under its new owner.
LEMMA SaveKeepsTidy ==
  ASSUME LedgerInv, Tidy, NEW c \in Calls, Save(c)
  PROVE  /\ Tidy' /\ Head(todo[c]) \in Piece /\ picked[c] = {Head(todo[c])}
         /\ \A a \in Addrs : Worth(Free(a))' = Worth(Free(a))
                                 + (IF req[c].to = a THEN Head(todo[c]).amount ELSE 0)
<1> DEFINE old == Head(todo[c])
           new == [old EXCEPT !.owner = req[c].to]
<1>1. /\ pc[c] = "save" /\ pc'[c] = "getFrom" /\ SaveUTXO(new)
      /\ UNCHANGED <<req, picked, total, dead>> /\ todo'[c] = <<>>
      /\ \A d \in Calls \ {c} : pc'[d] = pc[d] /\ todo'[d] = todo[d]
  BY DEF Save, LedgerInv, TypeOK
<1>2. /\ todo[c] \in Seq(Piece) /\ todo[c] # <<>> /\ ToSet(todo[c]) = {old} /\ old \in Piece
      /\ picked[c] = {old} /\ req[c] \in Move
  BY <1>1, HeadAndTail DEF LedgerInv, TypeOK, StageInv
<1>3. /\ new \in Piece /\ Coin(new) = Coin(old) /\ new.amount = old.amount
      /\ new.owner = req[c].to
  BY <1>2 DEF Piece, Move, Coin
<1>4. Minted(Coin(old)) /\ ~Stored(Coin(old))
  BY <1>1, <1>2 DEF Tidy
<1> HIDE DEF new, old
<1>5. /\ store' = store \cup {new} /\ new \notin store /\ old \notin store
      /\ \A p \in store : Coin(p) # Coin(new)
  <2>1. \A p \in store : Coin(p) # Coin(new) /\ p # old
    BY <1>3, <1>4 DEF Stored
  <2>2. \A p \in store : Key(p) # Key(new)
    BY <2>1 DEF Key, Coin
  <2> QED BY <1>1, <2>1, <2>2 DEF SaveUTXO
<1>6. \A d \in Calls \ {c} : \A p \in ToSet(todo[d]) : Coin(p) # Coin(new)
  BY <1>2, <1>3 DEF Tidy
<1>7. \A x : Minted(x) => Minted(x)'
  <2>1. ~(Spend(c) /\ pc[c] \in {"change", "remove", "report", "done"})
    BY <1>1
  <2> QED BY <1>1, <2>1, MintedStays
<1>8. \A x : Stored(x)' => Stored(x) \/ x = Coin(new)
  BY <1>5 DEF Stored, Coin
<1>9. ToSet(todo'[c]) = {}
  BY <1>1, EmptyToSet
<1>10. ASSUME NEW d \in Calls
       PROVE  /\ pc'[d] \notin AtWork => todo'[d] = <<>>
              /\ \A i, j \in DOMAIN todo'[d] : todo'[d][i] = todo'[d][j] => i = j
              /\ pc'[d] # "save" => ToSet(todo'[d]) \subseteq store'
              /\ pc'[d] = "save" => \A p \in ToSet(todo'[d]) : Minted(Coin(p))' /\ ~Stored(Coin(p))'
              /\ ToSet(todo'[d]) \subseteq ToSet(todo[d])
  <2>1. CASE d = c
    <3>1. \A i, j \in DOMAIN <<>> : <<>>[i] = <<>>[j] => i = j
      OBVIOUS
    <3> QED BY <1>1, <1>9, <2>1, <3>1
  <2>2. CASE d # c
    <3>1. pc'[d] = pc[d] /\ todo'[d] = todo[d]
      BY <1>1, <2>2
    <3>2. \A p \in ToSet(todo[d]) : Stored(Coin(p))' => Stored(Coin(p))
      BY <1>6, <1>8, <2>2
    <3> QED BY <1>5, <1>7, <3>1, <3>2 DEF Tidy
  <2> QED BY <2>1, <2>2
<1>11. Tidy'
  <2>1. \A d \in Calls : \A e \in Calls \ {d} :
            \A p \in ToSet(todo'[d]), q \in ToSet(todo'[e]) : Coin(p) # Coin(q)
    BY <1>10 DEF Tidy
  <2>2. \A p, q \in store' : Coin(p) = Coin(q) => p = q
    BY <1>5 DEF Tidy
  <2>3. \A p \in store' : Minted(Coin(p))'
    BY <1>3, <1>4, <1>5, <1>7 DEF Tidy
  <2> QED BY <1>1, <1>10, <2>1, <2>2, <2>3 DEF Tidy, Coin
<1>12. \A d \in Calls : new \notin ToSet(todo'[d])
  BY <1>1, <1>6, <1>9
<1>13. \A p \in store : (\A d \in Calls : p \notin ToSet(todo'[d]))
                           <=> (\A d \in Calls : p \notin ToSet(todo[d]))
  BY <1>1, <1>2, <1>5, <1>9
<1>14. \A a \in Addrs : Worth(Free(a))' = Worth(Free(a))
                                 + (IF req[c].to = a THEN old.amount ELSE 0)
  <2>1. \A a \in Addrs : Worth(Free(a))' = Worth(Free(a))
                                 + (IF new.owner = a THEN new.amount ELSE 0)
    BY <1>3, <1>5, <1>12, <1>13, FreeJoins
  <2> QED BY <1>3, <2>1
<1> QED BY <1>2, <1>11, <1>14 DEF old

\* A request finds pieces that no other request at work has found.
TodoFits(first, s) == first \notin AtWork => s = <<>>

LEMMA FindKeepsTidy ==
  ASSUME LedgerInv, Tidy, ~raced', NEW c \in Calls, NEW r, NEW s, NEW v,
         NEW first \in {"mint", "take", "getFrom"}, Find(c, r, s, v, first), TodoFits(first, s),
         NEW b \in Addrs, ToSet(s) \subseteq Held(b), IsInjective(s)
  PROVE  /\ Tidy'
         /\ \A a \in Addrs :
               Worth(Free(a)) = Worth(Free(a))' + (IF a = b THEN Worth(ToSet(s)) ELSE 0)
<1>1. /\ pc[c] = "idle" /\ store' = store /\ dead' = dead
      /\ pc'[c] = first /\ todo'[c] = s
      /\ \A d \in Calls \ {c} : /\ pc'[d] = pc[d] /\ todo'[d] = todo[d] /\ req'[d] = req[d]
                                /\ total'[d] = total[d]
      /\ \A d \in Calls \ {c} : Live(d) => picked[d] \cap ToSet(s) = {}
  BY DEF Find, LedgerInv, TypeOK
<1>2. ToSet(s) \subseteq store
  BY DEF Held
<1>3. ASSUME NEW d \in Calls \ {c}, NEW p \in ToSet(s), NEW q \in ToSet(todo[d])
      PROVE  Coin(p) # Coin(q)
  <2>1. pc[d] \in AtWork
    BY EmptyToSet DEF Tidy
  <2>2. CASE pc[d] = "save"
    BY <1>2, <2>2 DEF Tidy, Stored
  <2>3. CASE pc[d] # "save"
    <3>1. q \in picked[d] /\ q \in store
      BY <2>1, <2>3 DEF LedgerInv, StageInv, AtWork, Tidy
    <3>2. Live(d)
      BY <2>1 DEF Live, AtWork, Tidy
    <3>3. p # q
      BY <1>1, <3>1, <3>2
    <3> QED BY <1>2, <3>1, <3>3 DEF Tidy
  <2> QED BY <2>2, <2>3
<1>4. todo[c] = <<>> /\ ToSet(todo[c]) = {}
  BY <1>1, EmptyToSet DEF Tidy, AtWork
<1>5. \A x : Minted(x) => Minted(x)'
  BY <1>1, MintedStays
<1>6. Tidy'
  <2>1. \A x : Stored(x)' => Stored(x)
    BY <1>1 DEF Stored, Coin
  <2>2. ASSUME NEW d \in Calls
        PROVE  /\ pc'[d] \notin AtWork => todo'[d] = <<>>
               /\ \A i, j \in DOMAIN todo'[d] : todo'[d][i] = todo'[d][j] => i = j
               /\ pc'[d] # "save" => ToSet(todo'[d]) \subseteq store'
               /\ pc'[d] = "save" => \A p \in ToSet(todo'[d]) : Minted(Coin(p))' /\ ~Stored(Coin(p))'
    <3>1. CASE d = c
      BY <1>1, <1>2, <3>1 DEF AtWork, TodoFits, IsInjective
    <3>2. CASE d # c
      <4>1. pc'[d] = pc[d] /\ todo'[d] = todo[d]
        BY <1>1, <3>2
      <4> QED BY <1>1, <1>5, <2>1, <4>1 DEF Tidy
    <3> QED BY <3>1, <3>2
  <2>3. ASSUME NEW d \in Calls, NEW e \in Calls \ {d},
               NEW p \in ToSet(todo'[d]), NEW q \in ToSet(todo'[e])
        PROVE  Coin(p) # Coin(q)
    <3>1. CASE d = c
      BY <1>1, <1>3, <3>1
    <3>2. CASE e = c
      BY <1>1, <1>3, <3>2
    <3>3. CASE d # c /\ e # c
      BY <1>1, <3>3 DEF Tidy
    <3> QED BY <3>1, <3>2, <3>3
  <2> QED BY <1>1, <1>5, <2>2, <2>3 DEF Tidy, Coin
<1>7. ASSUME NEW a \in Addrs
      PROVE  Worth(Free(a)) = Worth(Free(a))' + (IF a = b THEN Worth(ToSet(s)) ELSE 0)
  <2>1. ASSUME NEW p \in store
        PROVE  (\A d \in Calls : p \notin ToSet(todo'[d]))
                   <=> p \notin ToSet(s) /\ \A d \in Calls : p \notin ToSet(todo[d])
    BY <1>1, <1>4
  <2>2. Free(a)' = Free(a) \ ToSet(s)
    <3>1. \A p : p \in Free(a) <=> /\ p \in store /\ p.owner = a
                                   /\ \A d \in Calls : p \notin ToSet(todo[d])
      BY DEF Free, Held
    <3>2. \A p : p \in Free(a)' <=> /\ p \in store' /\ p.owner = a
                                    /\ \A d \in Calls : p \notin ToSet(todo'[d])
      BY DEF Free, Held
    <3>3. ASSUME NEW p PROVE p \in Free(a)' <=> p \in Free(a) /\ p \notin ToSet(s)
      BY <1>1, <2>1, <3>1, <3>2
    <3> QED BY <3>3
  <2>3. Worth(Free(a))' = Worth(Free(a) \ ToSet(s))
    BY <2>2 DEF Worth
  <2>4. IsFiniteSet(Free(a)) /\ Worth(Free(a)) \in Nat
    BY FreeFinite DEF FreeFits
  <2>5. CASE a = b
    <3>1. ToSet(s) \subseteq Free(a)
      <4>1. \A p \in ToSet(s), d \in Calls : p \notin ToSet(todo[d])
        BY <1>3, <1>4
      <4> QED BY <2>5, <4>1 DEF Free
    <3> QED BY <2>3, <2>4, <2>5, <3>1, WorthParts
  <2>6. CASE a # b
    <3>1. Free(a) \ ToSet(s) = Free(a)
      <4>1. \A p \in ToSet(s) : p.owner = b
        BY DEF Held
      <4>2. \A p \in Free(a) : p.owner = a
        BY DEF Free, Held
      <4> QED BY <2>6, <4>1, <4>2
    <3>2. Worth(Free(a) \ ToSet(s)) = Worth(Free(a))
      BY <3>1
    <3> QED BY <2>3, <2>4, <2>6, <3>2
  <2> QED BY <2>5, <2>6
<1> QED BY <1>6, <1>7

\* Pieces worth v are found with from, amount is promised to to, and what is
\* left of v, less the fee, to from.
Pledge(c, from, to, v, amount, fee) ==
    \A a \in Addrs :
        /\ Worth(Free(a)) = Worth(Free(a))' + (IF a = from THEN v ELSE 0)
        /\ Promised(c, a)' = (IF to = a THEN amount ELSE 0)
                                + (IF from = a THEN v - (amount + fee) ELSE 0)

\* The moment of a payment.
LEMMA PaymentIsMade ==
  ASSUME LedgerInv, HoldInv, ~wrapped, LedgerInv', HoldInv', ~wrapped',
         NEW c \in Calls, pc[c] = "idle",
         \A d \in Calls \ {c} : /\ pc'[d] = pc[d] /\ req'[d] = req[d]
                                /\ total'[d] = total[d],
         NEW from \in Addrs, NEW to \in Addrs, NEW v \in Nat, NEW amount \in Nat, NEW fee \in Nat,
         amount + fee <= v, Pledge(c, from, to, v, amount, fee)
  PROVE  Ledger!Next
<1>1. FreeFits /\ FreeFits'
  BY FreeFinite, PTL
<1>2. Busy' \subseteq Busy \cup {c}
  BY DEF Busy
<1>3. ASSUME NEW a \in Addrs
      PROVE  /\ Settled(a) \in Nat /\ Settled(a)' \in Nat
             /\ Settled(a)' + (IF a = from THEN amount + fee ELSE 0)
                  = Settled(a) + (IF a = to THEN amount ELSE 0)
             /\ a = from => Settled(a) >= v
  <2>1. PICK n \in Nat : /\ Settled(a) = Worth(Free(a)) + (n + Promised(c, a))
                         /\ Settled(a)' = Worth(Free(a))' + (n + Promised(c, a)')
    BY <1>2, SettledStep
  <2>2. Promised(c, a) = 0
    BY PromisedIs
  <2>3. Promised(c, a)' = (IF to = a THEN amount ELSE 0)
                              + (IF from = a THEN v - (amount + fee) ELSE 0)
    BY DEF Pledge
  <2>4. Worth(Free(a)) = Worth(Free(a))' + (IF a = from THEN v ELSE 0)
    BY DEF Pledge
  <2>5. Worth(Free(a)) \in Nat /\ Worth(Free(a))' \in Nat
    BY <1>1 DEF FreeFits
  <2> QED BY <2>1, <2>2, <2>3, <2>4, <2>5
<1>4. /\ LedgerBalance = [a \in Addrs |-> Settled(a)]
      /\ LedgerBalance' = [a \in Addrs |-> Settled(a)']
  BY DEF LedgerBalance
<1>5. LedgerBalance[from] \in Nat /\ LedgerBalance[from] >= amount + fee
  BY <1>3, <1>4
<1>6. LedgerBalance' = [[LedgerBalance EXCEPT ![from] = @ - (amount + fee)] EXCEPT ![to] = @ + amount]
  <2> DEFINE paid == [LedgerBalance EXCEPT ![from] = @ - (amount + fee)]
             done == [paid EXCEPT ![to] = @ + amount]
  <2>1. ASSUME NEW a \in Addrs PROVE LedgerBalance'[a] = done[a]
    <3>1. LedgerBalance[a] = Settled(a) /\ LedgerBalance'[a] = Settled(a)'
      BY <1>4
    <3>2. done[a] = Settled(a) - (IF a = from THEN amount + fee ELSE 0)
                               + (IF a = to THEN amount ELSE 0)
      <4>1. paid[a] = IF a = from THEN Settled(a) - (amount + fee) ELSE Settled(a)
        BY <1>4, <3>1
      <4>2. done[a] = IF a = to THEN paid[a] + amount ELSE paid[a]
        BY <1>4
      <4> HIDE DEF paid, done
      <4> QED BY <1>3, <4>1, <4>2
    <3> HIDE DEF paid, done
    <3> QED BY <1>3, <3>1, <3>2
  <2>2. DOMAIN done = Addrs /\ done = [a \in Addrs |-> done[a]]
    BY <1>4
  <2> HIDE DEF done
  <2>3. LedgerBalance' = [a \in Addrs |-> LedgerBalance'[a]]
    BY <1>4
  <2>4. LedgerBalance' = done
    BY <2>1, <2>2, <2>3
  <2> QED BY <2>4 DEF done
<1>7. Ledger!Pay(from, to, amount, fee)
  BY <1>5, <1>6 DEF Ledger!Pay
<1>8. amount \in 0 .. LedgerBalance[from] /\ fee \in 0 .. LedgerBalance[from] - amount
  BY <1>5
<1> QED BY <1>7, <1>8 DEF Ledger!Next

\* Every step in calm times.
LEMMA CalmStep ==
  ASSUME LedgerInv, HoldInv, LedgerInv', HoldInv', Tidy, Calm, Calm', [Next]_vars
  PROVE  Tidy' /\ (UNCHANGED LedgerBalance \/ Ledger!Next)
<1> USE DEF callVars, causeVars
<1>0. ~wrapped /\ ~wrapped' /\ ~raced' /\ crashes = 0 /\ crashes' = 0
  BY DEF Calm
<1>1. ASSUME NEW c \in Calls, StartSpend(c) PROVE Tidy' /\ Ledger!Next
  <2>1. PICK r \in Payments : \E k \in SpendUTXO(r.from, Need(r)) :
            /\ Find(c, r, k.inputs, k.value, "mint")
            /\ wrapped' = (wrapped \/ r.amount + r.fee >= Word \/ Worth(ToSet(k.inputs)) >= Word)
    BY <1>1 DEF StartSpend
  <2>2. PICK k \in SpendUTXO(r.from, Need(r)) :
            /\ Find(c, r, k.inputs, k.value, "mint")
            /\ wrapped' = (wrapped \/ r.amount + r.fee >= Word \/ Worth(ToSet(k.inputs)) >= Word)
    BY <2>1
  <2>3. /\ k.inputs \in Seq(Piece)
        /\ \A i, j \in DOMAIN k.inputs : k.inputs[i] = k.inputs[j] => i = j
        /\ ToSet(k.inputs) \subseteq Held(r.from)
    BY FoundPieces DEF LedgerInv
  <2>4. r \in Payment /\ r.from \in Addrs /\ r.to \in Addrs /\ r.amount \in Nat /\ r.fee \in Nat
    BY DEF Payment, Words
  <2>5. /\ pc[c] = "idle" /\ pc'[c] = "mint" /\ req'[c] = r /\ total'[c] = k.value
        /\ picked'[c] = ToSet(k.inputs)
        /\ \A d \in Calls \ {c} : pc'[d] = pc[d] /\ req'[d] = req[d] /\ total'[d] = total[d]
    BY <2>2 DEF Find, LedgerInv, TypeOK
  <2>6. /\ Tidy'
        /\ \A a \in Addrs : Worth(Free(a)) = Worth(Free(a))'
                                + (IF a = r.from THEN Worth(ToSet(k.inputs)) ELSE 0)
    <3>1. TodoFits("mint", k.inputs) /\ IsInjective(k.inputs)
      BY <2>3 DEF TodoFits, AtWork, IsInjective
    <3> QED BY <1>0, <2>2, <2>3, <2>4, <3>1, FindKeepsTidy
  <2>7. /\ k.value = Worth(ToSet(k.inputs)) /\ k.value \in Nat
        /\ r.amount + r.fee < Word /\ k.value >= r.amount + r.fee
    <3>1. c \in Busy' /\ Spend(c)'
      BY <2>4, <2>5 DEF Busy, Spend
    <3>2. k.value = Worth(ToSet(k.inputs)) /\ r.amount + r.fee < Word /\ k.value >= r.amount + r.fee
      BY <1>0, <2>5, <3>1 DEF HoldInv, Worth
    <3>3. k.value \in Nat
      BY <2>5 DEF LedgerInv, TypeOK, Words
    <3> QED BY <3>2, <3>3
  <2>8. ASSUME NEW a \in Addrs
        PROVE  Promised(c, a)' = (IF r.to = a THEN r.amount ELSE 0)
                                    + (IF r.from = a THEN k.value - (r.amount + r.fee) ELSE 0)
    <3>1. Need(r) = r.amount + r.fee
      BY <2>4, <2>7, CutToWord DEF Need
    <3>2. Change(c)' = k.value - (r.amount + r.fee)
      BY <2>5, <3>1 DEF Change, Need
    <3> QED BY <2>5, <3>2 DEF Promised
  <2>9. \A a \in Addrs : Worth(Free(a)) = Worth(Free(a))' + (IF a = r.from THEN k.value ELSE 0)
    BY <2>6, <2>7
  <2>10. r.amount + r.fee <= k.value
    BY <2>4, <2>7
  <2>11. Ledger!Next
    <3>1. Pledge(c, r.from, r.to, k.value, r.amount, r.fee)
      BY <2>8, <2>9 DEF Pledge
    <3> QED BY <1>0, <2>4, <2>5, <2>7, <2>10, <3>1, PaymentIsMade
  <2> QED BY <2>6, <2>11
\* A transfer of pieces s of r.from, worth v, which it brings to to.
<1>14. ASSUME NEW c \in Calls, NEW r \in Moves, NEW s \in Seq(Piece), NEW v \in Words,
              NEW first \in {"take", "getFrom"}, Find(c, r, s, v, first),
              first = "getFrom" => s = <<>> /\ v = 0,
              ToSet(s) \subseteq Held(r.from), v = Worth(ToSet(s)),
              IsInjective(s)
       PROVE  Tidy' /\ Ledger!Next
  <2>1. r.from \in Addrs /\ r.to \in Addrs /\ 0 \in Nat
    BY DEF Move
  <2>2. /\ pc[c] = "idle" /\ pc'[c] = first /\ req'[c] = r /\ total'[c] = v
        /\ \A d \in Calls \ {c} : pc'[d] = pc[d] /\ req'[d] = req[d] /\ total'[d] = total[d]
    BY <1>14 DEF Find, LedgerInv, TypeOK
  <2>3. /\ Tidy'
        /\ \A a \in Addrs : Worth(Free(a)) = Worth(Free(a))'
                                + (IF a = r.from THEN Worth(ToSet(s)) ELSE 0)
    <3>1. first \in {"mint", "take", "getFrom"} /\ TodoFits(first, s)
      BY <1>14 DEF TodoFits, AtWork
    <3> QED BY <1>0, <1>14, <2>1, <3>1, FindKeepsTidy
  <2>4. \A a \in Addrs : Worth(Free(a)) = Worth(Free(a))' + (IF a = r.from THEN v ELSE 0)
    BY <1>14, <2>3
  <2>5. ASSUME NEW a \in Addrs
        PROVE  Promised(c, a)' = (IF r.to = a THEN v ELSE 0)
                                    + (IF r.from = a THEN v - (v + 0) ELSE 0)
    <3>1. Promised(c, a)' = IF r.to = a THEN v ELSE 0
      BY <1>14, <2>2 DEF Promised
    <3> QED BY <3>1 DEF Words
  <2>6. Pledge(c, r.from, r.to, v, v, 0)
    BY <2>4, <2>5 DEF Pledge
  <2>7. v + 0 <= v /\ v \in Nat
    BY DEF Words
  <2> QED BY <1>0, <2>1, <2>2, <2>3, <2>6, <2>7, PaymentIsMade
<1>2. ASSUME NEW c \in Calls, StartTransfer(c) PROVE Tidy' /\ Ledger!Next
  <2>1. PICK r \in Moves : \/ \E p \in Held(r.from) : Find(c, r, <<p>>, p.amount, "take")
                           \/ Find(c, r, <<>>, 0, "getFrom")
    BY <1>2 DEF StartTransfer
  <2>2. ASSUME NEW p \in Held(r.from), Find(c, r, <<p>>, p.amount, "take")
        PROVE  Tidy' /\ Ledger!Next
    <3>1. /\ p \in Piece /\ <<p>> \in Seq(Piece) /\ ToSet(<<p>>) = {p}
          /\ IsInjective(<<p>>)
      BY DEF Held, LedgerInv, TypeOK, ToSet, IsInjective
    <3>2. Worth({p}) = p.amount
      BY <3>1, AmountIs, TotalOne DEF Worth
    <3>3. p.amount \in Words
      BY <3>1 DEF Piece
    <3> QED BY <1>14, <2>2, <3>1, <3>2, <3>3
  <2>3. ASSUME Find(c, r, <<>>, 0, "getFrom") PROVE Tidy' /\ Ledger!Next
    <3>1. /\ <<>> \in Seq(Piece) /\ ToSet(<<>>) = {} /\ 0 \in Words /\ Worth({}) = 0
          /\ IsInjective(<<>>)
      BY EmptySeq, EmptyToSet, WorthEmpty DEF IsInjective, Words
    <3> QED BY <1>14, <2>3, <3>1
  <2> QED BY <2>1, <2>2, <2>3
\* The other steps of a request.
<1>3. ASSUME NEW c \in Calls, pc[c] # "idle", UNCHANGED <<req, total>>,
             \A d \in Calls \ {c} : pc'[d] = pc[d],
             \A a \in Addrs : Worth(Free(a))' + Promised(c, a)' = Worth(Free(a)) + Promised(c, a)
      PROVE  UNCHANGED LedgerBalance
  <2>1. Busy' \subseteq Busy \cup {c}
    BY <1>3 DEF Busy
  <2> QED BY <1>0, <1>3, <2>1, BalanceStays
<1>4. FreeFits
  BY FreeFinite
<1>5. ASSUME NEW c \in Calls, MintTo(c) PROVE Tidy' /\ UNCHANGED LedgerBalance
  <2>0. PICK new : new = NewPiece(c, req[c].to, 0, req[c].amount)
    OBVIOUS
  <2>1. /\ pc[c] = "mint" /\ SaveUTXO(new) /\ UNCHANGED <<req, picked, todo, total, dead>>
        /\ IF total[c] > Need(req[c]) THEN pc'[c] = "change"
             ELSE pc'[c] = "remove" \/ (pc'[c] = "report" /\ todo[c] = <<>>)
        /\ \A d \in Calls \ {c} : pc'[d] = pc[d]
    BY <1>5, <2>0 DEF MintTo, LedgerInv, TypeOK, RemoveStep
  <2>2. req[c] \in Payment /\ c \in Busy /\ Spend(c) /\ Spend(c)'
    BY <2>1 DEF LedgerInv, StageInv, Busy, Spend
  <2>3. new \in Piece /\ Coin(new) = <<c, 0>> /\ new.owner = req[c].to /\ new.amount = req[c].amount
    BY <2>0, <2>2 DEF NewPiece, Piece, Payment, TxIds, Coin
  <2>4. ~Minted(<<c, 0>>)
    BY <2>1 DEF Minted, Coin
  <2>5. Minted(<<c, 0>>)'
    BY <2>1, <2>2 DEF Minted
  <2>6. Minted(Coin(new))'
    BY <2>3, <2>5 DEF Coin
  <2>7. pc' \in [Calls -> Stages]
    BY DEF LedgerInv, TypeOK
  <2>8. /\ Tidy'
        /\ \A a \in Addrs : Worth(Free(a))' = Worth(Free(a))
                                + (IF new.owner = a THEN new.amount ELSE 0)
    BY <2>1, <2>3, <2>4, <2>6, <2>7, MintKeepsTidy
  <2>9. ASSUME NEW a \in Addrs
        PROVE  Worth(Free(a))' + Promised(c, a)' = Worth(Free(a)) + Promised(c, a)
    <3>1. Promised(c, a) = (IF req[c].to = a THEN req[c].amount ELSE 0)
                               + (IF req[c].from = a THEN Change(c) ELSE 0)
      BY <2>1, PromisedIs
    <3>2. /\ Change(c)' = Change(c) /\ Change(c) \in Nat /\ req[c].amount \in Nat
          /\ pc'[c] # "change" => Change(c) = 0
      <4>1. /\ Change(c) \in Words /\ req[c].amount \in Words /\ Need(req[c]) \in Words
            /\ total[c] = Need(req[c]) + Change(c)
        BY <1>0, <2>2, SpendAddsUp
      <4>2. Change(c)' = Change(c)
        BY <2>1 DEF Change, Need
      <4> QED BY <2>1, <4>1, <4>2 DEF Words
    <3>3. Promised(c, a)' = IF req[c].from = a THEN Change(c) ELSE 0
      <4>1. CASE pc'[c] = "change"
        BY <2>1, <3>2, <4>1 DEF Promised
      <4>2. CASE pc'[c] \in {"remove", "report"}
        BY <2>1, <3>2, <4>2 DEF Promised
      <4> QED BY <2>1, <4>1, <4>2
    <3>4. Worth(Free(a)) \in Nat
      BY <1>4 DEF FreeFits
    <3> QED BY <2>3, <2>8, <3>1, <3>2, <3>3, <3>4
  <2> QED BY <1>3, <2>1, <2>8, <2>9
<1>6. ASSUME NEW c \in Calls, MintChange(c) PROVE Tidy' /\ UNCHANGED LedgerBalance
  <2>0. PICK new : new = NewPiece(c, req[c].from, 1, Change(c))
    OBVIOUS
  <2>1. /\ pc[c] = "change" /\ SaveUTXO(new) /\ UNCHANGED <<req, picked, todo, total, dead>>
        /\ pc'[c] = "remove" /\ \A d \in Calls \ {c} : pc'[d] = pc[d]
    BY <1>6, <2>0 DEF MintChange, LedgerInv, TypeOK
  <2>2. req[c] \in Payment /\ c \in Busy /\ Spend(c) /\ total[c] > Need(req[c])
    BY <2>1 DEF LedgerInv, StageInv, Busy, Spend
  <2>3. Change(c) \in Words
    BY <1>0, <2>2, SpendAddsUp
  <2>4. new \in Piece /\ Coin(new) = <<c, 1>> /\ new.owner = req[c].from /\ new.amount = Change(c)
    BY <2>0, <2>2, <2>3 DEF NewPiece, Piece, Payment, TxIds, Coin
  <2>5. ~Minted(<<c, 1>>)
    BY <2>1 DEF Minted, Coin, Paid
  <2>6. Minted(<<c, 1>>)'
    BY <2>1, <2>2 DEF Minted, Paid, Spend, Need
  <2>7. Minted(Coin(new))'
    BY <2>4, <2>6 DEF Coin
  <2>8. pc' \in [Calls -> Stages]
    BY DEF LedgerInv, TypeOK
  <2>9. /\ Tidy'
        /\ \A a \in Addrs : Worth(Free(a))' = Worth(Free(a))
                                + (IF new.owner = a THEN new.amount ELSE 0)
    BY <2>1, <2>4, <2>5, <2>7, <2>8, MintKeepsTidy
  <2>10. ASSUME NEW a \in Addrs
         PROVE  Worth(Free(a))' + Promised(c, a)' = Worth(Free(a)) + Promised(c, a)
    <3>1. Promised(c, a) = IF req[c].from = a THEN Change(c) ELSE 0
      BY <2>1, PromisedIs
    <3>2. Promised(c, a)' = 0
      BY <2>1 DEF Promised
    <3>3. Worth(Free(a)) \in Nat /\ Change(c) \in Nat
      BY <1>4, <2>3 DEF FreeFits, Words
    <3> QED BY <2>4, <2>9, <3>1, <3>2, <3>3
  <2> QED BY <1>3, <2>1, <2>9, <2>10
<1>7. ASSUME NEW c \in Calls, RemoveInput(c) PROVE Tidy' /\ UNCHANGED LedgerBalance
  <2>1. /\ pc[c] = "remove" /\ pc'[c] \in {"remove", "report"} /\ UNCHANGED <<req, total>>
        /\ \A d \in Calls \ {c} : pc'[d] = pc[d]
    BY <1>7 DEF RemoveInput, LedgerInv, TypeOK
  <2>2. Tidy' /\ \A a \in Addrs : Free(a)' = Free(a)
    BY <1>7, RemoveKeepsTidy
  <2>3. \A a \in Addrs : Promised(c, a) = 0 /\ Promised(c, a)' = 0
    BY <2>1 DEF Promised
  <2>4. \A a \in Addrs : Worth(Free(a))' = Worth(Free(a))
    BY <2>2 DEF Worth
  <2> QED BY <1>3, <2>1, <2>2, <2>3, <2>4
<1>8. ASSUME NEW c \in Calls, Take(c) PROVE Tidy' /\ UNCHANGED LedgerBalance
  <2>1. /\ pc[c] = "take" /\ pc'[c] = "save" /\ UNCHANGED <<req, total>>
        /\ \A d \in Calls \ {c} : pc'[d] = pc[d]
    BY <1>8 DEF Take, LedgerInv, TypeOK
  <2>2. Tidy' /\ \A a \in Addrs : Free(a)' = Free(a)
    BY <1>8, TakeKeepsTidy
  <2>3. \A a \in Addrs : Promised(c, a)' = Promised(c, a)
    BY <2>1 DEF Promised
  <2>4. \A a \in Addrs : Worth(Free(a))' = Worth(Free(a))
    BY <2>2 DEF Worth
  <2> QED BY <1>3, <2>1, <2>2, <2>3, <2>4
<1>9. ASSUME NEW c \in Calls, Save(c) PROVE Tidy' /\ UNCHANGED LedgerBalance
  <2> DEFINE old == Head(todo[c])
  <2>1. /\ pc[c] = "save" /\ pc'[c] = "getFrom" /\ UNCHANGED <<req, total>>
        /\ \A d \in Calls \ {c} : pc'[d] = pc[d]
    BY <1>9 DEF Save, LedgerInv, TypeOK
  <2>2. /\ Tidy' /\ old \in Piece /\ picked[c] = {old}
        /\ \A a \in Addrs : Worth(Free(a))' = Worth(Free(a))
                                + (IF req[c].to = a THEN old.amount ELSE 0)
    BY <1>9, SaveKeepsTidy
  <2> HIDE DEF old
  <2>3. total[c] = old.amount /\ old.amount \in Nat
    <3>1. total[c] = Worth(picked[c])
      BY <1>0, <2>1 DEF HoldInv, Busy
    <3>2. Worth({old}) = old.amount /\ old.amount \in Nat
      BY <2>2, AmountIs, TotalOne DEF Worth, Words
    <3> QED BY <2>2, <3>1, <3>2
  <2>4. ASSUME NEW a \in Addrs
        PROVE  Worth(Free(a))' + Promised(c, a)' = Worth(Free(a)) + Promised(c, a)
    <3>1. Promised(c, a) = IF req[c].to = a THEN total[c] ELSE 0
      BY <2>1, PromisedIs
    <3>2. Promised(c, a)' = 0
      BY <2>1 DEF Promised
    <3>3. Worth(Free(a)) \in Nat
      BY <1>4 DEF FreeFits
    <3> QED BY <2>2, <2>3, <3>1, <3>2, <3>3
  <2> QED BY <1>3, <2>1, <2>2, <2>4
\* Steps that touch no piece.
<1>10. ASSUME NEW c \in Calls, pc[c] \in {"report", "getFrom", "putFrom", "getTo", "putTo"},
              pc'[c] \in {"putFrom", "getTo", "putTo", "done"},
              pc[c] = "report" => pc'[c] = "done",
              \A d \in Calls \ {c} : pc'[d] = pc[d],
              UNCHANGED <<store, req, picked, todo, total, dead>>
       PROVE  Tidy' /\ UNCHANGED LedgerBalance
  <2>1. \A x : Minted(x) => Minted(x)'
    <3>1. pc[c] \in {"change", "remove", "report", "done"} => pc'[c] = "done"
      BY <1>10
    <3> QED BY <1>10, <3>1, MintedStays
  <2>2. Tidy'
    BY <1>10, <2>1 DEF Tidy, AtWork, Stored, Coin
  <2>3. \A a \in Addrs : Promised(c, a) = 0 /\ Promised(c, a)' = 0
    BY <1>10 DEF Promised
  <2>4. \A a \in Addrs : Worth(Free(a))' = Worth(Free(a))
    BY <1>10 DEF Worth, Free, Held
  <2> QED BY <1>3, <1>10, <2>2, <2>3, <2>4
<1>11. ASSUME NEW c \in Calls, Report(c) \/ UpdateUTXOIndex(c)
       PROVE  Tidy' /\ UNCHANGED LedgerBalance
  BY <1>10, <1>11 DEF Report, UpdateUTXOIndex, GetList, PutList, LedgerInv, TypeOK
<1>12. ~Crash
  BY <1>0 DEF Crash
<1>13. CASE UNCHANGED vars
  BY <1>13 DEF vars, Tidy, Minted, Stored, Coin, Paid, Spend, Need, LedgerBalance, Settled,
               Promised, Change, Held, Worth
<1> QED
  BY <1>1, <1>2, <1>5, <1>6, <1>7, <1>8, <1>9, <1>11, <1>12, <1>13 DEF Next

\* What disturbs the calm is not forgotten.
LEMMA CalmBefore == TypeOK /\ [Next]_vars /\ Calm' => Calm
<1> SUFFICES ASSUME TypeOK, [Next]_vars, Calm' PROVE Calm
  OBVIOUS
<1> USE DEF Calm, callVars, causeVars
<1>1. ASSUME NEW c \in Calls, StartSpend(c) PROVE Calm
  <2>1. /\ raced' = FALSE => raced = FALSE
        /\ wrapped' = FALSE => wrapped = FALSE
        /\ crashes' = crashes
    BY <1>1 DEF StartSpend, Find, TypeOK
  <2> QED BY <2>1 DEF TypeOK
<1>2. ASSUME NEW c \in Calls, StartTransfer(c) PROVE Calm
  <2>1. (raced' = FALSE => raced = FALSE) /\ wrapped' = wrapped /\ crashes' = crashes
    BY <1>2 DEF StartTransfer, Find, TypeOK
  <2> QED BY <2>1 DEF TypeOK
<1>3. CASE Crash
  <2>1. crashes \in Nat /\ crashes' = crashes + 1 /\ crashes' = 0
    BY <1>3 DEF Crash, TypeOK
  <2> QED BY <2>1
<1>4. CASE UNCHANGED <<crashes, raced, wrapped>>
  BY <1>4
<1>5. ASSUME NEW c \in Calls,
             \/ MintTo(c) \/ MintChange(c) \/ RemoveInput(c) \/ Report(c)
             \/ Take(c) \/ Save(c) \/ UpdateUTXOIndex(c)
      PROVE  UNCHANGED <<crashes, raced, wrapped>>
  BY <1>5 DEF MintTo, MintChange, RemoveInput, Report, Take, Save, UpdateUTXOIndex, GetList, PutList
<1>6. CASE UNCHANGED vars
  BY <1>4, <1>6 DEF vars
<1> QED BY <1>1, <1>2, <1>3, <1>4, <1>5, <1>6 DEF Next

CalmInv == Calm => Tidy

LEMMA OpeningBalance == Init => Ledger!Init
<1> SUFFICES ASSUME Init PROVE Ledger!Init
  OBVIOUS
<1>1. ASSUME NEW a \in Addrs PROVE Settled(a) = Worth({p \in Genesis : p.owner = a})
  <2> DEFINE f == Promises(a)
  <2>1. \A c \in Calls : pc[c] = "idle" /\ todo[c] = <<>>
    BY DEF Init
  <2>2. \A c \in Calls : Promised(c, a) = 0
    BY <2>1, PromisedIs
  <2>3. \A c \in Calls \ {} : f[c] = 0
    BY <2>2 DEF Promises
  <2> HIDE DEF f
  <2>4. Total(f, Calls) = Total(f, {})
    BY <2>3, UnitsSame
  <2>5. Units(f, {}) = {}
    BY DEF Units
  <2>6. Total(f, Calls) = 0
    BY <2>4, <2>5, FS_EmptySet DEF Total
  <2>7. Free(a) = {p \in Genesis : p.owner = a}
    BY <2>1, EmptyToSet DEF Init, Free, Held
  <2>8. Settled(a) = Worth(Free(a)) + Total(f, Calls)
    BY DEF Settled, Free, f, Promises
  <2>9. Worth(Free(a)) \in Nat
    BY LedgerInit, FreeFinite DEF FreeFits
  <2> QED BY <2>6, <2>7, <2>8, <2>9
<1> QED BY <1>1 DEF Ledger!Init, LedgerBalance

\* As long as no two requests hold the same piece, no sum overflows and nothing
\* crashes, HandleAutoSpend and HandleTransferUTXO make exact payments, each of
\* them in one step, however the store calls of the requests alternate.
THEOREM ImplementsLedger == Spec => KeepsLedger
<1> DEFINE Inv == LedgerInv /\ HoldInv /\ CalmInv
           Sound == Calm' => UNCHANGED LedgerBalance \/ Ledger!Next
<1>1. Init => Inv
  BY LedgerInit, HoldInit, TidyInit DEF CalmInv
<1>2. Inv /\ [Next]_vars => Inv' /\ Sound
  <2> SUFFICES ASSUME Inv, [Next]_vars PROVE Inv' /\ Sound
    OBVIOUS
  <2>1. LedgerInv' /\ HoldInv'
    BY LedgerStep, HoldStep
  <2>2. Calm' => Calm /\ Tidy
    BY CalmBefore DEF CalmInv, LedgerInv
  <2>3. Calm' => Tidy' /\ (UNCHANGED LedgerBalance \/ Ledger!Next)
    BY <2>1, <2>2, CalmStep
  <2> QED BY <2>1, <2>3 DEF CalmInv
<1>3. Init => Ledger!Init
  BY OpeningBalance
<1> HIDE DEF Inv
<1>4. Spec => [][Sound]_vars
  <2>1. Inv /\ [Next]_vars => [Sound]_vars
    BY <1>2
  <2> HIDE DEF Sound
  <2> QED BY <1>1, <1>2, <2>1, PTL DEF Spec
<1> QED BY <1>3, <1>4, PTL DEF Spec, KeepsLedger

-----------------------------------------------------------------------------
(***************************************************************************)
(* UtxoRules: what VerifyTransaction accepts, for every wallet and every   *)
(* transaction.                                                            *)
(***************************************************************************)
TxShape == [inputs : Seq(Coins), outputs : Seq(Words), fee : Words]

\* A wallet has finitely many pieces, all different.
LEMMA WalletIs ==
  ASSUME NEW w \in Wallets
  PROVE  /\ Len(w) \in Nat /\ DOMAIN w = 1 .. Len(w) /\ IsFiniteSet(DOMAIN w)
         /\ \A n \in DOMAIN w : w[n].coin \in Coins /\ w[n].amount \in Words
         /\ \A m, n \in DOMAIN w : w[m].coin = w[n].coin => m = n
         /\ DOMAIN Amounts(w) = DOMAIN w
         /\ \A n \in DOMAIN w : Amounts(w)[n] = w[n].amount
<1>1. w \in Seq([coin : Coins, amount : Words])
  BY RulesAssumption
<1>2. Len(w) \in Nat /\ DOMAIN w = 1 .. Len(w)
  BY <1>1
<1>3. IsFiniteSet(DOMAIN w)
  BY <1>2, FS_Interval
<1>4. ASSUME NEW n \in DOMAIN w PROVE w[n].coin \in Coins /\ w[n].amount \in Words
  <2> DEFINE D == [coin : Coins, amount : Words]
  <2>1. ASSUME NEW s \in Seq(D), NEW k \in 1 .. Len(s) PROVE s[k] \in D
    <3> HIDE DEF D
    <3> QED OBVIOUS
  <2>2. w[n] \in D
    BY <1>1, <1>2, <2>1
  <2> QED BY <2>2
<1>5. \A m, n \in DOMAIN w : w[m].coin = w[n].coin => m = n
  BY RulesAssumption
<1>6. DOMAIN Amounts(w) = DOMAIN w /\ \A n \in DOMAIN w : Amounts(w)[n] = w[n].amount
  BY DEF Amounts
<1> QED BY <1>2, <1>3, <1>4, <1>5, <1>6

\* A piece of the wallet is found where it is, and nowhere else.
LEMMA OneMatch ==
  ASSUME NEW w \in Wallets, NEW n \in DOMAIN w, NEW in, in = w[n].coin
  PROVE  Places(in, w) = {n} /\ InputValue(in, w) = Amounts(w)[n]
<1>1. Places(in, w) = {n}
  BY WalletIs DEF Places
<1>2. n \in Nat
  BY WalletIs
<1>3. Min(Places(in, w)) = n
  BY <1>1, <1>2 DEF Min
<1> QED BY <1>1, <1>3, WalletIs DEF InputValue

\* The sums of a transaction are natural numbers.
LEMMA SumsAreNat ==
  ASSUME NEW D, NEW s \in Seq(D)
  PROVE  IsFiniteSet(DOMAIN s) /\ NatSum(s) \in Nat
<1>1. Len(s) \in Nat /\ DOMAIN s = 1 .. Len(s)
  OBVIOUS
<1>2. IsFiniteSet(DOMAIN s)
  BY <1>1, FS_Interval
<1> QED BY <1>2, UnitsFinite DEF NatSum

\* Inputs that are all found and all different are worth, position by position,
\* what the pieces that they name are worth, piece by piece.
LEMMA InputsAreSpent ==
  ASSUME NEW w \in Wallets, NEW in \in Seq(Coins), IsInjective(in),
         \A n \in DOMAIN in : Places(in[n], w) # {}
  PROVE  NatSum([n \in DOMAIN in |-> InputValue(in[n], w)])
             = Total(Amounts(w), {m \in DOMAIN w : w[m].coin \in ToSet(in)})
<1> DEFINE S    == {m \in DOMAIN w : w[m].coin \in ToSet(in)}
           vals == [n \in DOMAIN in |-> InputValue(in[n], w)]
           e    == [n \in DOMAIN in |-> CHOOSE m \in DOMAIN w : w[m].coin = in[n]]
<1>1. ASSUME NEW n \in DOMAIN in
      PROVE  e[n] \in DOMAIN w /\ w[e[n]].coin = in[n] /\ e[n] \in S
  <2>1. \E m \in DOMAIN w : w[m].coin = in[n]
    BY DEF Places
  <2>2. e[n] = CHOOSE m \in DOMAIN w : w[m].coin = in[n]
    OBVIOUS
  <2> HIDE DEF e
  <2>3. e[n] \in DOMAIN w /\ w[e[n]].coin = in[n]
    BY <2>1, <2>2
  <2>4. in[n] \in ToSet(in)
    BY DEF ToSet
  <2> QED BY <2>3, <2>4
<1>2. e \in [DOMAIN in -> S]
  BY <1>1
<1>3. \A m \in S : \E n \in DOMAIN in : in[n] = w[m].coin
  BY DEF ToSet
<1>4. vals = [n \in DOMAIN in |-> InputValue(in[n], w)] /\ DOMAIN vals = DOMAIN in
      /\ \A n \in DOMAIN in : vals[n] = InputValue(in[n], w)
  OBVIOUS
<1> HIDE DEF e, vals
<1>5. \A m \in S : \E n \in DOMAIN in : e[n] = m
  BY <1>1, <1>3, WalletIs
<1>6. \A m, n \in DOMAIN in : e[m] = e[n] => m = n
  BY <1>1 DEF IsInjective
<1>7. \A n \in DOMAIN in : Amounts(w)[e[n]] = vals[n]
  BY <1>1, <1>4, OneMatch
<1>8. IsFiniteSet(DOMAIN in)
  BY SumsAreNat
<1>9. Total(Amounts(w), S) = Total(vals, DOMAIN in)
  <2> DEFINE all == Amounts(w)
             D   == DOMAIN in
  <2>1. /\ IsFiniteSet(D) /\ e \in [D -> S] /\ \A m \in S : \E n \in D : e[n] = m
        /\ \A n \in D : all[e[n]] = vals[n]
    BY <1>2, <1>5, <1>7, <1>8
  <2>2. \A m, n \in D : e[m] = e[n] => m = n
    BY <1>6
  <2> HIDE DEF all, D, S
  <2>3. Total(all, S) = Total(vals, D)
    BY <2>1, <2>2, TotalImage, SMTT(20)
  <2> QED BY <2>3 DEF all, D
<1> QED BY <1>4, <1>9 DEF NatSum

\* Some of the pieces of a wallet are not worth more than all of them.
LEMMA PartOfWallet ==
  ASSUME NEW w \in Wallets, NEW S, S \subseteq DOMAIN w
  PROVE  /\ NatSum(Amounts(w)) \in Nat /\ Total(Amounts(w), S) \in Nat
         /\ Total(Amounts(w), S) <= NatSum(Amounts(w))
<1>1. IsFiniteSet(DOMAIN w) /\ DOMAIN Amounts(w) = DOMAIN w
  BY WalletIs
<1>2. IsFiniteSet(S) /\ IsFiniteSet(DOMAIN w \ S)
  BY <1>1, FS_Subset
<1>3. /\ Total(Amounts(w), S) \in Nat /\ Total(Amounts(w), DOMAIN w \ S) \in Nat
      /\ Total(Amounts(w), DOMAIN w) \in Nat
  BY <1>1, <1>2, UnitsFinite
<1>4. S \cup (DOMAIN w \ S) = DOMAIN w /\ S \cap (DOMAIN w \ S) = {}
  OBVIOUS
<1>5. Total(Amounts(w), DOMAIN w) = Total(Amounts(w), S) + Total(Amounts(w), DOMAIN w \ S)
  BY <1>2, <1>4, TotalUnion
<1> QED BY <1>1, <1>3, <1>5 DEF NatSum

\* What VerifyTransaction computes on words is the conservation of coins, when
\* the sums fit and no input is listed twice.
LEMMA VerdictIs ==
  ASSUME NEW t \in TxShape, NEW w \in Wallets,
         NatSum(Amounts(w)) < Word, NatSum(t.outputs) + t.fee < Word, IsInjective(t.inputs)
  PROVE  VerifyTransaction(t, w) <=>
             /\ ToSet(t.inputs) \subseteq {w[n].coin : n \in DOMAIN w}
             /\ Total(Amounts(w), {n \in DOMAIN w : w[n].coin \in ToSet(t.inputs)})
                    = NatSum(t.outputs) + t.fee
<1> DEFINE Found == \A n \in DOMAIN t.inputs : Places(t.inputs[n], w) # {}
           in    == WordSum([n \in DOMAIN t.inputs |-> InputValue(t.inputs[n], w)])
           spent == Total(Amounts(w), {n \in DOMAIN w : w[n].coin \in ToSet(t.inputs)})
<1>1. t.inputs \in Seq(Coins) /\ t.outputs \in Seq(Words) /\ t.fee \in Nat
  BY DEF TxShape, Words
<1>2. Found <=> ToSet(t.inputs) \subseteq {w[n].coin : n \in DOMAIN w}
  BY DEF Places, ToSet
<1>3. spent \in Nat /\ spent < Word
  <2>1. {n \in DOMAIN w : w[n].coin \in ToSet(t.inputs)} \subseteq DOMAIN w
    OBVIOUS
  <2>2. spent \in Nat /\ NatSum(Amounts(w)) \in Nat /\ spent <= NatSum(Amounts(w))
    BY <2>1, PartOfWallet
  <2> HIDE DEF spent
  <2> QED BY <2>2
<1>4. ASSUME Found PROVE in = spent
  <2>1. NatSum([n \in DOMAIN t.inputs |-> InputValue(t.inputs[n], w)]) = spent
    BY <1>1, <1>4, InputsAreSpent
  <2>2. in = spent % Word
    BY <2>1 DEF WordSum
  <2> HIDE DEF in, spent
  <2> QED BY <1>3, <2>2, CutToWord
<1>5. (WordSum(t.outputs) + t.fee) % Word = NatSum(t.outputs) + t.fee
  <2>1. NatSum(t.outputs) \in Nat
    BY <1>1, SumsAreNat
  <2>2. NatSum(t.outputs) < Word
    BY <1>1, <2>1
  <2>3. WordSum(t.outputs) = NatSum(t.outputs)
    BY <2>1, <2>2, CutToWord DEF WordSum
  <2>4. NatSum(t.outputs) + t.fee \in Nat
    BY <1>1, <2>1
  <2> QED BY <2>3, <2>4, CutToWord
<1>6. VerifyTransaction(t, w) <=> Found /\ in = (WordSum(t.outputs) + t.fee) % Word
  BY DEF VerifyTransaction
<1> HIDE DEF Found, in, spent
<1>7. VerifyTransaction(t, w) <=> Found /\ spent = NatSum(t.outputs) + t.fee
  BY <1>4, <1>5, <1>6
<1> QED BY <1>2, <1>7 DEF spent

\* The transaction that ConsolidateUTXOs builds: every piece once, and one
\* output that leaves the fee.
LEMMA ConsolidatedIs ==
  ASSUME NEW w \in Wallets, CanConsolidate(w), NEW t, t = ConsolidateUTXOs(w)
  PROVE  /\ t \in TxShape /\ DOMAIN t.inputs = DOMAIN w
         /\ \A n \in DOMAIN w : t.inputs[n] = w[n].coin
         /\ NatSum(t.outputs) = WalletTotal(w) - Fee
         /\ WalletTotal(w) \in Words /\ WalletTotal(w) - Fee \in Words
         /\ t.fee = Fee /\ Fee \in Words
<1>1. NatSum(Amounts(w)) \in Nat
  BY PartOfWallet
<1>2. WalletTotal(w) \in Words
  BY <1>1 DEF WalletTotal, WordSum, Words
<1>3. Fee \in Words /\ WalletTotal(w) > Fee
  BY RulesAssumption DEF CanConsolidate
<1>4. WalletTotal(w) - Fee \in Words
  BY <1>2, <1>3 DEF Words
<1> DEFINE ins == [n \in DOMAIN w |-> w[n].coin]
           out == WalletTotal(w) - Fee
<1>5. t.inputs = ins /\ t.outputs = <<out>> /\ t.fee = Fee /\ t = [inputs |-> ins, outputs |-> <<out>>, fee |-> Fee]
  BY DEF ConsolidateUTXOs
<1>6. DOMAIN ins = DOMAIN w /\ \A n \in DOMAIN w : ins[n] = w[n].coin
  OBVIOUS
<1>7. ins \in Seq(Coins)
  <2>1. ins \in [1 .. Len(w) -> Coins] /\ Len(w) \in Nat
    BY WalletIs
  <2> HIDE DEF ins
  <2> QED BY <2>1
<1> HIDE DEF ins, out
<1>8. out \in Words
  BY <1>4 DEF out
<1>9. <<out>> \in Seq(Words) /\ DOMAIN <<out>> = {1} /\ <<out>>[1] = out
  BY <1>8
<1>10. NatSum(<<out>>) = out
  BY <1>8, <1>9, TotalOne DEF NatSum
<1>11. t \in TxShape
  BY <1>3, <1>5, <1>7, <1>9 DEF TxShape
<1> QED BY <1>2, <1>3, <1>4, <1>5, <1>6, <1>10, <1>11 DEF out

\* It passes the verification, also when the sum of the wallet has wrapped:
\* both sides of the comparison have wrapped in the same way.
LEMMA ConsolidatedPasses ==
  ASSUME NEW w \in Wallets, CanConsolidate(w), NEW t, t = ConsolidateUTXOs(w)
  PROVE  VerifyTransaction(t, w)
<1>1. \A n \in DOMAIN t.inputs : n \in DOMAIN w /\ t.inputs[n] = w[n].coin
  BY ConsolidatedIs
<1>2. \A n \in DOMAIN t.inputs :
          Places(t.inputs[n], w) # {} /\ InputValue(t.inputs[n], w) = Amounts(w)[n]
  BY <1>1, OneMatch
<1>3. [n \in DOMAIN t.inputs |-> InputValue(t.inputs[n], w)] = Amounts(w)
  <2>1. DOMAIN t.inputs = DOMAIN w
    BY ConsolidatedIs
  <2>2. Amounts(w) = [n \in DOMAIN w |-> Amounts(w)[n]]
    BY DEF Amounts
  <2> QED BY <1>2, <2>1, <2>2
<1>4. WordSum([n \in DOMAIN t.inputs |-> InputValue(t.inputs[n], w)]) = WalletTotal(w)
  BY <1>3 DEF WalletTotal
<1>5. (WordSum(t.outputs) + t.fee) % Word = WalletTotal(w)
  <2>1. /\ NatSum(t.outputs) = WalletTotal(w) - Fee /\ t.fee = Fee /\ Fee \in Words
        /\ WalletTotal(w) \in Words /\ WalletTotal(w) - Fee \in Words
    BY ConsolidatedIs
  <2> DEFINE all == WalletTotal(w)
  <2>2. all \in Nat /\ all < Word /\ Fee \in Nat /\ all - Fee \in Nat /\ all - Fee < Word
    BY <2>1 DEF Words
  <2>3. WordSum(t.outputs) = (all - Fee) % Word
    BY <2>1 DEF WordSum
  <2> HIDE DEF all
  <2>4. (all - Fee) % Word = all - Fee
    BY <2>2, CutToWord
  <2>5. all - Fee + Fee = all /\ all % Word = all
    BY <2>2, CutToWord
  <2>6. WordSum(t.outputs) + t.fee = all
    BY <2>1, <2>3, <2>4, <2>5
  <2> QED BY <2>5, <2>6 DEF all
<1> QED BY <1>2, <1>4, <1>5 DEF VerifyTransaction

\* It names every piece of the wallet.
LEMMA ConsolidatedSpends ==
  ASSUME NEW w \in Wallets, CanConsolidate(w), NEW t, t = ConsolidateUTXOs(w)
  PROVE  {n \in DOMAIN w : w[n].coin \in ToSet(t.inputs)} = DOMAIN w
<1>1. DOMAIN t.inputs = DOMAIN w /\ \A n \in DOMAIN w : t.inputs[n] = w[n].coin
  BY ConsolidatedIs
<1> QED BY <1>1 DEF ToSet

\* The verdict is that of the transaction and the wallet at hand.
RulesInv ==
    /\ wallet \in Wallets
    /\ tx \in TxShape
    /\ verdict \in {"asked", "valid", "invalid", "none"}
    /\ verdict \in {"valid", "invalid"} => verdict = Verdict(tx, wallet)

LEMMA RulesStart == RulesInit => RulesInv
  BY RulesAssumption DEF RulesInit, RulesInv, TxShape

LEMMA RulesStep == RulesInv /\ [RulesNext]_rulesVars => RulesInv'
<1> SUFFICES ASSUME RulesInv, [RulesNext]_rulesVars PROVE RulesInv'
  OBVIOUS
<1>1. wallet \in Wallets /\ tx \in TxShape
  BY DEF RulesInv
<1>2. \A t, w : Verdict(t, w) \in {"valid", "invalid"}
  BY DEF Verdict
<1>3. CASE Verify
  BY <1>1, <1>2, <1>3 DEF Verify, RulesInv, Verdict, VerifyTransaction, Places, InputValue, WordSum, NatSum, Total, Units
<1>4. CASE Consolidate
  <2>1. CASE CanConsolidate(wallet)
    <3>1. tx' = ConsolidateUTXOs(wallet) /\ wallet' = wallet /\ verdict' = Verdict(tx', wallet)
      BY <1>4, <2>1 DEF Consolidate
    <3>2. tx' \in TxShape
      BY <1>1, <2>1, <3>1, ConsolidatedIs
    <3> QED BY <1>1, <1>2, <3>1, <3>2 DEF RulesInv
  <2>2. CASE ~CanConsolidate(wallet)
    BY <1>1, <1>4, <2>2 DEF Consolidate, RulesInv
  <2> QED BY <2>1, <2>2
<1>5. CASE UNCHANGED rulesVars
  BY <1>5 DEF rulesVars, RulesInv
<1> QED BY <1>3, <1>4, <1>5 DEF RulesNext

LEMMA RulesKeep == RulesSpec => []RulesInv
  BY RulesStart, RulesStep, PTL DEF RulesSpec

\* For every wallet and every transaction: when the sums fit in a word and no
\* input is listed twice, VerifyTransaction accepts exactly the transactions
\* that destroy as much as they create, fee included.
THEOREM VerdictsAreExact == RulesSpec => []VerdictExact
<1>1. RulesInv => VerdictExact
  <2> SUFFICES ASSUME RulesInv, Plain
               PROVE  (verdict = "valid" => Conserves) /\ (verdict = "invalid" => ~Conserves)
    BY DEF VerdictExact
  <2>1. wallet \in Wallets /\ tx \in TxShape
    BY DEF RulesInv
  <2>2. /\ NatSum(Amounts(wallet)) < Word /\ NatSum(tx.outputs) + tx.fee < Word
        /\ IsInjective(tx.inputs)
    BY DEF Plain
  <2>3. VerifyTransaction(tx, wallet) <=> Conserves
    BY <2>1, <2>2, VerdictIs DEF Conserves, Destroyed, Spent
  <2>4. verdict \in {"valid", "invalid"} => verdict = Verdict(tx, wallet)
    BY DEF RulesInv
  <2> QED BY <2>3, <2>4 DEF Verdict
<1> QED BY <1>1, RulesKeep, PTL

\* For every wallet: a consolidation that is built passes the verification, and
\* when the sum has not wrapped it spends every piece and pays exactly the fee.
THEOREM ConsolidationsAreValid == RulesSpec => ConsolidationValid
<1>1. ASSUME RulesInv, RulesInv', Consolidate, CanConsolidate(wallet)
      PROVE  verdict' = "valid" /\ (Plain' => Conserves' /\ Spent' = DOMAIN wallet)
  <2>1. tx' = ConsolidateUTXOs(wallet) /\ wallet' = wallet /\ verdict' = Verdict(tx', wallet)
    BY <1>1 DEF Consolidate
  <2>2. wallet \in Wallets /\ tx' \in TxShape
    BY <1>1 DEF RulesInv
  <2>3. PICK t : t = tx'
    OBVIOUS
  <2>4. t = ConsolidateUTXOs(wallet) /\ t \in TxShape
    BY <2>1, <2>2, <2>3
  <2>5. VerifyTransaction(t, wallet)
    BY <1>1, <2>2, <2>4, ConsolidatedPasses
  <2>6. verdict' = "valid"
    BY <2>1, <2>3, <2>5 DEF Verdict
  <2>7. {n \in DOMAIN wallet : wallet[n].coin \in ToSet(t.inputs)} = DOMAIN wallet
    BY <1>1, <2>2, <2>4, ConsolidatedSpends
  <2>8. Spent' = DOMAIN wallet
    BY <2>1, <2>3, <2>7 DEF Spent
  <2>9. ASSUME Plain' PROVE Conserves'
    <3>1. /\ NatSum(Amounts(wallet)) < Word /\ NatSum(t.outputs) + t.fee < Word
          /\ IsInjective(t.inputs)
      BY <2>1, <2>3, <2>9 DEF Plain, NatSum, Total, Units, Amounts
    <3>2. /\ ToSet(t.inputs) \subseteq {wallet[n].coin : n \in DOMAIN wallet}
          /\ Total(Amounts(wallet), {n \in DOMAIN wallet : wallet[n].coin \in ToSet(t.inputs)})
                 = NatSum(t.outputs) + t.fee
      BY <2>2, <2>4, <2>5, <3>1, VerdictIs
    <3> QED BY <2>1, <2>3, <3>2 DEF Conserves, Destroyed, Spent, NatSum, Total, Units, Amounts
  <2> QED BY <2>6, <2>8, <2>9
<1>2. RulesInv /\ RulesInv' /\ [RulesNext]_rulesVars
        => [Consolidate /\ CanConsolidate(wallet) =>
               /\ verdict' = "valid"
               /\ Plain' => Conserves' /\ Spent' = DOMAIN wallet]_rulesVars
  BY <1>1
<1> QED BY <1>2, RulesKeep, PTL DEF RulesSpec, ConsolidationValid
=============================================================================
