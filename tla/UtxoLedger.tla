----------------------------- MODULE UtxoLedger -----------------------------
(***************************************************************************)
(* The pieces of coins ("utxo:" keys) and the lists of transferred pieces  *)
(* ("index:utxo:" keys) under the handlers that write them: HandleAutoSpend*)
(* and HandleTransferUTXO (pkg/rpc/utxo_handler.go) over pkg/utxo.         *)
(*                                                                         *)
(* Every HTTP request is a goroutine and nothing locks the store, so each  *)
(* store call of a request is a step, and a crash of the process stops all *)
(* requests where they are.  Requests that the handlers refuse change      *)
(* nothing and are left out.  HandleTransferUTXO first resolves both       *)
(* addresses; they are arbitrary here anyway.  A store call of a process   *)
(* that goes on does what it is asked: the handlers ignore the errors of   *)
(* SaveUTXO and RemoveUTXO, and what a failed call loses is left out.      *)
(*                                                                         *)
(* TransferAssetToUser (market_handler.go) puts records of another shape   *)
(* under "utxo:" keys.  The scan reads one as a piece without id, worth    *)
(* nothing: a nameless piece.  Any address may hold some at any time, and  *)
(* they are not in store: to remove one deletes a key that is not there,   *)
(* and to hand one on makes another nameless piece.                        *)
(***************************************************************************)
EXTENDS Naturals, Sequences, SequencesExt, FiniteSets, WordSums

CONSTANTS
    Addrs,      \* owners
    Calls,      \* the requests; a spend names its outputs after itself
    GenesisTx,  \* transactions of the pieces there are at first
    Genesis,    \* these pieces
    Payments,   \* bodies of /api/utxo/spend requests
    Moves,      \* bodies of /api/utxo/transfer requests
    NoId,       \* the empty id, which is the asset id of every coin
    NoReq,      \* a request that has not arrived yet
    MaxCrashes  \* bound: crashes of one behaviour

TxIds == Calls \cup GenesisTx
Ids == TxIds \cup {NoId}
Lists == [Ids -> Nat]
EmptyList == [id \in Ids |-> 0]
Piece == [owner : Addrs, tx : TxIds, index : {0, 1}, amount : Words]
Payment == [kind : {"spend"}, from : Addrs, to : Addrs, amount : Words, fee : Words]
Move == [kind : {"transfer"}, from : Addrs, to : Addrs, id : Ids]

ASSUME LedgerAssumption ==
    /\ MaxCrashes \in Nat
    /\ Calls \cap GenesisTx = {}
    /\ NoId \notin TxIds
    /\ NoReq \notin Payment \cup Move
    /\ Genesis \subseteq Piece /\ IsFiniteSet(Genesis)
    /\ \A p \in Genesis : p.tx \in GenesisTx
    /\ \A p, q \in Genesis : p.tx = q.tx /\ p.index = q.index => p = q
    /\ Payments \subseteq Payment
    /\ Moves \subseteq Move

VARIABLES
    store,      \* the pieces
    index,      \* index[a][id]: how often id is listed for a
    pc, req,    \* per request: its next step and its body
    picked,     \* the pieces it found
    todo,       \* those it has not removed yet
    total,      \* their value, as SpendUTXO returns it
    copy,       \* the index list it has read
    dead,       \* requests that a crash stopped
    told,       \* spends that the mempool took
    crashes,    \* history: crashes so far
    raced,      \* history: two requests at work had found the same piece
    wrapped     \* history: a sum did not fit in a word

callVars  == <<pc, req, picked, todo, total, copy>>
causeVars == <<raced, wrapped>>
vars == <<store, index, callVars, dead, told, crashes, causeVars>>

Init ==
    /\ store = Genesis
    /\ index = [a \in Addrs |-> EmptyList]
    /\ pc = [c \in Calls |-> "idle"]
    /\ req = [c \in Calls |-> NoReq]
    /\ picked = [c \in Calls |-> {}]
    /\ todo = [c \in Calls |-> <<>>]
    /\ total = [c \in Calls |-> 0]
    /\ copy = [c \in Calls |-> EmptyList]
    /\ dead = {}
    /\ told = {}
    /\ crashes = 0
    /\ raced = FALSE
    /\ wrapped = FALSE

-----------------------------------------------------------------------------
(* The store of pieces *)

Key(p)  == <<p.owner, p.tx, p.index>>
Coin(p) == <<p.tx, p.index>>

Held(a) == {p \in store : p.owner = a}

SaveUTXO(p) == store' = {q \in store : Key(q) # Key(p)} \cup {p}

\* Faulty variant: the index is not part of the key.
RemoveWholeTx(p) == store' = {q \in store : <<q.owner, q.tx>> # <<p.owner, p.tx>>}

RemoveUTXO(p) == store' = {q \in store : Key(q) # Key(p)}

Amount == [p \in Piece |-> p.amount]
Worth(pieces) == Total(Amount, pieces)
Value(pieces) == Worth(pieces) % Word

\* SpendUTXO: take pieces in the order of the scan until they are enough, but
\* at least one, which may be nameless.  The store does not promise an order.
SpendUTXO(from, amount) ==
    LET sets      == {S \in SUBSET Held(from) :
                       /\ Value(S) >= amount
                       /\ Cardinality(S) > 1 => \E p \in S : Value(S \ {p}) < amount}
        Enough(s) == \A n \in 1 .. Len(s) - 1 : Value(ToSet(SubSeq(s, 1, n))) < amount
        orders    == UNION {{s \in SetToSeqs(S) : Enough(s)} : S \in sets}
    IN  {k \in [inputs : orders, value : Words] : k.value = Value(ToSet(k.inputs))}

-----------------------------------------------------------------------------
(* Requests *)

Live(c) == pc[c] \notin {"idle", "done"} /\ c \notin dead

Spend(c)    == req[c] \in Payment
Transfer(c) == req[c] \in Move

\* The sum that HandleAutoSpend asks for.
Need(r) == (r.amount + r.fee) % Word

\* What the scan of request c has found.
Find(c, r, pieces, value, first) ==
    /\ pc[c] = "idle" /\ c \notin dead
    /\ req' = [req EXCEPT ![c] = r]
    /\ todo' = [todo EXCEPT ![c] = pieces]
    /\ picked' = [picked EXCEPT ![c] = ToSet(pieces)]
    /\ total' = [total EXCEPT ![c] = value]
    /\ pc' = [pc EXCEPT ![c] = first]
    /\ raced' = (raced \/ \E d \in Calls \ {c} :
                             Live(d) /\ picked[d] \cap ToSet(pieces) # {})
    /\ UNCHANGED <<store, index, copy, dead, told, crashes>>

StartSpend(c) ==
    \E r \in Payments : \E k \in SpendUTXO(r.from, Need(r)) :
        /\ Find(c, r, k.inputs, k.value, "mint")
        /\ wrapped' = (wrapped \/ r.amount + r.fee >= Word \/ Worth(ToSet(k.inputs)) >= Word)

NewPiece(c, owner, n, amount) ==
    [owner |-> owner, tx |-> c, index |-> n, amount |-> amount]

Change(c) == total[c] - Need(req[c])

\* Where the removal of the inputs starts; it is over if all are nameless.
RemoveStep(c) == IF todo[c] = <<>> THEN "report" ELSE "remove"

\* Faulty variants: the recipient gets the fee as well; a change of one unit
\* is not worth a piece.
MintToAndFee(c) ==
    /\ pc[c] = "mint"
    /\ c \notin dead
    /\ SaveUTXO(NewPiece(c, req[c].to, 0, req[c].amount + req[c].fee))
    /\ pc' = [pc EXCEPT ![c] = IF total[c] > Need(req[c]) THEN "change" ELSE RemoveStep(c)]
    /\ UNCHANGED <<index, req, picked, todo, total, copy, dead, told, crashes, causeVars>>
MintToDropsDust(c) ==
    /\ pc[c] = "mint"
    /\ c \notin dead
    /\ SaveUTXO(NewPiece(c, req[c].to, 0, req[c].amount))
    /\ pc' = [pc EXCEPT ![c] = IF total[c] > Need(req[c]) + 1 THEN "change" ELSE RemoveStep(c)]
    /\ UNCHANGED <<index, req, picked, todo, total, copy, dead, told, crashes, causeVars>>

MintTo(c) ==
    /\ pc[c] = "mint"
    /\ c \notin dead
    /\ SaveUTXO(NewPiece(c, req[c].to, 0, req[c].amount))
    /\ pc' = [pc EXCEPT ![c] = IF total[c] > Need(req[c]) THEN "change" ELSE RemoveStep(c)]
    /\ UNCHANGED <<index, req, picked, todo, total, copy, dead, told, crashes, causeVars>>

\* Faulty variant: the fee stays with the sender.
MintChangeAndFee(c) ==
    /\ pc[c] = "change"
    /\ c \notin dead
    /\ SaveUTXO(NewPiece(c, req[c].from, 1, total[c] - req[c].amount))
    /\ pc' = [pc EXCEPT ![c] = "remove"]
    /\ UNCHANGED <<index, req, picked, todo, total, copy, dead, told, crashes, causeVars>>

MintChange(c) ==
    /\ pc[c] = "change"
    /\ c \notin dead
    /\ SaveUTXO(NewPiece(c, req[c].from, 1, Change(c)))
    /\ pc' = [pc EXCEPT ![c] = "remove"]
    /\ UNCHANGED <<index, req, picked, todo, total, copy, dead, told, crashes, causeVars>>

\* One turn of the loop over the inputs.
RemoveInput(c) ==
    /\ pc[c] = "remove"
    /\ c \notin dead
    /\ RemoveUTXO(Head(todo[c]))
    /\ todo' = [todo EXCEPT ![c] = Tail(@)]
    /\ pc' = [pc EXCEPT ![c] = IF Len(todo[c]) = 1 THEN "report" ELSE "remove"]
    /\ UNCHANGED <<index, req, picked, total, copy, dead, told, crashes, causeVars>>

\* AddL2 may refuse the transaction; its answer is ignored.
Report(c) ==
    /\ pc[c] = "report"
    /\ c \notin dead
    /\ told' \in {told, told \cup {c}}
    /\ pc' = [pc EXCEPT ![c] = "done"]
    /\ UNCHANGED <<store, index, req, picked, todo, total, copy, dead, crashes, causeVars>>

\* A piece is asked for by its transaction, or by its asset id.
Matches(p, id) == p.tx = id \/ id = NoId

StartTransfer(c) ==
    /\ UNCHANGED wrapped
    /\ \E r \in Moves :
          \/ \E p \in Held(r.from) :
                Matches(p, r.id) /\ Find(c, r, <<p>>, p.amount, "take")
          \* a nameless piece, whose way through Take and Save leaves no trace
          \/ r.id = NoId /\ Find(c, r, <<>>, 0, "getFrom")

Take(c) ==
    /\ pc[c] = "take"
    /\ c \notin dead
    /\ RemoveUTXO(Head(todo[c]))
    /\ pc' = [pc EXCEPT ![c] = "save"]
    /\ UNCHANGED <<index, req, picked, todo, total, copy, dead, told, crashes, causeVars>>

Save(c) ==
    /\ pc[c] = "save"
    /\ c \notin dead
    /\ SaveUTXO([Head(todo[c]) EXCEPT !.owner = req[c].to])
    /\ todo' = [todo EXCEPT ![c] = <<>>]
    /\ pc' = [pc EXCEPT ![c] = "getFrom"]
    /\ UNCHANGED <<index, req, picked, total, copy, dead, told, crashes, causeVars>>

\* UpdateUTXOIndex: two lists, each read and then written back.  The order of
\* a list is left out.
GetList(c, step, a, next) ==
    /\ pc[c] = step
    /\ c \notin dead
    /\ copy' = [copy EXCEPT ![c] = index[a]]
    /\ pc' = [pc EXCEPT ![c] = next]
    /\ UNCHANGED <<store, index, req, picked, todo, total, dead, told, crashes, causeVars>>

PutList(c, step, a, list, next) ==
    /\ pc[c] = step
    /\ c \notin dead
    /\ index' = [index EXCEPT ![a] = list]
    /\ pc' = [pc EXCEPT ![c] = next]
    /\ UNCHANGED <<store, req, picked, todo, total, copy, dead, told, crashes, causeVars>>

UpdateUTXOIndex(c) ==
    LET r == req[c] IN
    \/ GetList(c, "getFrom", r.from, "putFrom")
    \/ PutList(c, "putFrom", r.from, [copy[c] EXCEPT ![r.id] = 0], "getTo")
    \/ GetList(c, "getTo", r.to, "putTo")
    \/ PutList(c, "putTo", r.to, [copy[c] EXCEPT ![r.id] = @ + 1], "done")

\* The process dies with its requests.
Crash ==
    /\ crashes < MaxCrashes
    /\ crashes' = crashes + 1
    /\ dead' = dead \cup {c \in Calls : Live(c)}
    /\ UNCHANGED <<store, index, callVars, told, causeVars>>

Next ==
    \/ \E c \in Calls :
          \/ StartSpend(c) \/ MintTo(c) \/ MintChange(c) \/ RemoveInput(c) \/ Report(c)
          \/ StartTransfer(c) \/ Take(c) \/ Save(c) \/ UpdateUTXOIndex(c)
    \/ Crash

Spec == Init /\ [][Next]_vars

-----------------------------------------------------------------------------
(* Properties *)

Stages == {"idle", "mint", "change", "remove", "report", "take", "save", "getFrom",
           "putFrom", "getTo", "putTo", "done"}

\* Every variable keeps its shape; amounts stay words.
TypeOK ==
    /\ store \subseteq Piece
    /\ index \in [Addrs -> Lists]
    /\ pc \in [Calls -> Stages]
    /\ req \in [Calls -> {NoReq} \cup Payment \cup Move]
    /\ \A c \in Calls : req[c] = NoReq => pc[c] = "idle"
    /\ picked \in [Calls -> SUBSET Piece]
    /\ todo \in [Calls -> Seq(Piece)]
    /\ total \in [Calls -> Words]
    /\ copy \in [Calls -> Lists]
    /\ dead \subseteq Calls
    /\ told \subseteq Calls
    /\ crashes \in 0 .. MaxCrashes
    /\ raced \in BOOLEAN
    /\ wrapped \in BOOLEAN

\* A spend that has minted all its outputs.
Paid(c) == Spend(c) /\ pc[c] \in {"remove", "report", "done"}

Minted(x) ==
    \/ \E p \in Genesis : Coin(p) = x
    \/ \E c \in Calls :
          \/ x = <<c, 0>> /\ Spend(c) /\ pc[c] \in {"change", "remove", "report", "done"}
          \/ x = <<c, 1>> /\ Paid(c) /\ total[c] > Need(req[c])

Stored(x)  == \E p \in store : Coin(p) = x
SpentBy(x) == \E c \in Calls : Paid(c) /\ \E p \in picked[c] : Coin(p) = x

\* Transfers between their two store calls.
Between == {c \in Calls : Transfer(c) /\ pc[c] = "save"}
CarriedBy(x, c) == c \in Between /\ \E p \in picked[c] : Coin(p) = x
Carried(x) == \E c \in Calls \ dead : CarriedBy(x, c)
CutOff(x)  == \E c \in dead : CarriedBy(x, c)

\* However requests overlap and wherever a crash cuts them off, a coin that was
\* minted is in the store, or on its way in a transfer, or was given for
\* outputs that have been minted.  The one way to lose it is a crash between
\* the two store calls of the transfer that carried it: no spend can lose one.
NothingVanishes ==
    \A x \in TxIds \X {0, 1} :
        Minted(x) => Stored(x) \/ Carried(x) \/ SpentBy(x) \/ CutOff(x)

\* As long as sums fit in a word, the owners together are poorer than at first
\* by no more than the fees of their spends and what was carried by transfers
\* that a crash cut off between their two store calls.  Their wealth is the
\* store and what living transfers carry.
NeverPoorer ==
    LET spends == {c \in Calls : Paid(c)}
        wealth == Worth(store) + Total(total, Between \ dead)
        fees   == Total([c \in spends |-> req[c].fee], spends)
        lost   == Total(total, Between \cap dead)
    IN  ~wrapped => Worth(Genesis) <= wealth + fees + lost

-----------------------------------------------------------------------------
(* The ledger as its owners see it: a request that found its pieces counts *)
(* as done.                                                                *)

Promised(c, a) ==
    LET r == req[c] IN
    CASE pc[c] = "mint" -> (IF r.to = a THEN r.amount ELSE 0)
                               + (IF r.from = a THEN Change(c) ELSE 0)
      [] pc[c] = "change" -> IF r.from = a THEN Change(c) ELSE 0
      [] pc[c] \in {"take", "save"} -> IF r.to = a THEN total[c] ELSE 0
      [] OTHER -> 0

Settled(a) ==
    Worth({p \in Held(a) : \A c \in Calls : p \notin ToSet(todo[c])})
        + Total([c \in Calls |-> Promised(c, a)], Calls)

LedgerBalance == [a \in Addrs |-> Settled(a)]

Ledger == INSTANCE CoinLedger WITH
    balance <- LedgerBalance,
    Opening <- [a \in Addrs |-> Worth({p \in Genesis : p.owner = a})]

\* Without crashes and overflow, and until two requests at work hold the same
\* piece, the handlers implement CoinLedger: payments are exact and happen at
\* once, between any steps of other requests.
Calm == ~raced /\ ~wrapped /\ crashes = 0

KeepsLedger == Ledger!Init /\ [][Calm' => UNCHANGED LedgerBalance \/ Ledger!Next]_vars
=============================================================================
