------------------------- MODULE BalanceCacheProofs -------------------------
(***************************************************************************)
(* Proofs about the balance cache, for every set of wallets and requests,  *)
(* every report of the Core and every number of crashes.                   *)
(***************************************************************************)
EXTENDS BalanceCache, TLAPS

USE CacheAssumption, IdentityAssumption

-----------------------------------------------------------------------------
(* Requests and keys *)

LEMMA VaultApart == Vault \notin Names /\ ~IsEth(Vault)
  BY DEF Vault, Names, Native, Eth, Nexus, Alias, IsEth

LEMMA RequestType ==
  ASSUME NEW r \in Request
  PROVE  /\ r.kind \in {"swap", "add", "remove", "search", "state"}
         /\ r.from \in Accounts /\ r.amount \in Nat
<1>1. CASE r \in [kind : {"swap", "add"}, from : Senders, amount : Amounts]
  BY <1>1
<1>2. CASE r \in [kind : {"remove"}, from : {Vault}, amount : Amounts]
  BY <1>2 DEF Accounts
<1>3. CASE r \in [kind : {"search", "state"}, from : Senders, amount : {0}]
  BY <1>3
<1> QED
  BY <1>1, <1>2, <1>3 DEF Request

LEMMA KeyType ==
  ASSUME IdentityOK, NEW r \in Request
  PROVE  /\ KeyOf(r) \in Accounts
         /\ r.kind = "swap" /\ ~IsEth(r.from) => KeyOf(r) = r.from
<1>1. \A q \in Accounts : Resolved(q) \in Accounts
  BY DEF Resolved, ResolveToBVM, IdentityOK, Accounts
<1>2. \A q \in Accounts : MetaKey(q) \in Accounts
  BY <1>1 DEF MetaKey
<1>5. KeyOf(r) \in Accounts
  <2>1. CASE r.kind = "search"
    BY <1>1, <1>2, <2>1, RequestType DEF KeyOf
  <2>2. CASE r.kind # "search"
    BY <1>2, <2>2, RequestType DEF KeyOf
  <2> QED BY <2>1, <2>2
<1> QED
  BY <1>5 DEF KeyOf, MetaKey

\* Where a request goes on.
LEMMA AfterType ==
  ASSUME NEW c \in Calls, req[c] \in Request, NEW n \in Nat
  PROVE  /\ After(c, n) \in {"readFrom", "report", "done"}
         /\ After(c, n) = "readFrom" => req[c].kind = "swap" /\ req[c].amount <= n
         /\ After(c, n) = "report" => req[c].kind \in {"swap", "add", "remove"}
  BY RequestType DEF After, Passes

LEMMA BalanceType == ASSUME TypeOK, NEW a \in Accounts PROVE Balance(a) \in Nat
  BY DEF TypeOK, Balance, Cell

\* A write changes one balance, and disturbs those who count on it.
LEMMA WriteEffect ==
  ASSUME TypeOK, NEW a \in Accounts, NEW v \in Cell, NEW writer, Write(a, v, writer)
  PROVE  /\ cell' \in [Accounts -> Cell] /\ disturbed \subseteq disturbed' /\ disturbed' \subseteq Calls
         /\ Balance(a)' = IF v.shape = "record" THEN v.value ELSE 0
         /\ \A b \in Accounts : b # a => Balance(b)' = Balance(b)
         /\ \A c \in Calls : c \notin disturbed' /\ c \notin dead /\ c \notin writer => a \notin Watched(c)
  BY DEF Write, TypeOK, Balance

LEMMA CellTypes ==
  ASSUME NEW v \in Nat
  PROVE  /\ Record(v) \in Cell /\ Record(v).shape = "record" /\ Record(v).value = v
         /\ Number(v) \in Cell /\ Number(v).shape # "record"
  BY DEF Record, Number, Cell

-----------------------------------------------------------------------------
(* Types *)

LEMMA CacheInit == Init => TypeOK
<1> SUFFICES ASSUME Init PROVE TypeOK
  OBVIOUS
<1>1. Vault \in Accounts /\ Empty \in Cell
  BY DEF Accounts, Empty, Cell
<1>2. IdentityOK
  BY DEF Init, IdentityInit, IdentityOK
<1> QED
  BY <1>1, <1>2 DEF Init, TypeOK

Stages == {"idle", "meta", "answer", "put", "readFrom", "putFrom", "readVault", "putVault",
           "report", "done"}

\* The next step that a request takes fits its body.
Fits(c, s) ==
    /\ s \in Stages \ {"idle"}
    /\ s \in {"readFrom", "putFrom", "readVault", "putVault"} => req[c].kind = "swap"
    /\ s = "report" => req[c].kind \in {"swap", "add", "remove"}

\* A step of a request that has arrived, seen from the types.
LEMMA StepTypes ==
  ASSUME TypeOK, NEW c \in Calls, NEW from \in Stages \ {"idle"}, NEW to, Fits(c, to),
         Step(c, from, to), UNCHANGED <<identity, req, key>>,
         cell' \in [Accounts -> Cell], disturbed' \subseteq Calls, got' \in [Calls -> Nat],
         core' = core, dead' = dead, cut' \subseteq Calls, peak' = peak,
         changes' = changes, crashes' = crashes, debited' \in Nat, credited' \in Nat
  PROVE  TypeOK'
<1>1. pc' = [pc EXCEPT ![c] = to] /\ pc[c] = from
  BY DEF Step
<1>2. pc' \in [Calls -> Stages]
  BY <1>1 DEF TypeOK, Fits, Stages
<1>3. \A d \in Calls : pc'[d] = pc[d] \/ (d = c /\ pc'[d] = to)
  BY <1>1 DEF TypeOK
<1>4. IdentityOK' /\ dead' \cup cut' \cup disturbed' \subseteq Calls
  BY DEF TypeOK, IdentityOK
<1>5. \A d \in Calls :
          /\ pc'[d] # "idle" => req'[d] \in Request
          /\ pc'[d] \in {"readFrom", "putFrom", "readVault", "putVault"} => req'[d].kind = "swap"
          /\ pc'[d] = "report" => req'[d].kind \in {"swap", "add", "remove"}
  BY <1>1, <1>3 DEF TypeOK, Fits
<1> QED
  BY <1>2, <1>4, <1>5 DEF TypeOK, Stages

LEMMA StartTypes ==
  ASSUME TypeOK, NEW c \in Calls, NEW r \in Request, Start(c, r)
  PROVE  TypeOK'
<1>1. /\ pc' = [pc EXCEPT ![c] = "meta"] /\ req' = [req EXCEPT ![c] = r]
      /\ key' = [key EXCEPT ![c] = KeyOf(r)]
      /\ UNCHANGED <<identity, cell, disturbed, core, got, pastVars>>
  BY DEF Start, Step, NoWrite
<1>2. KeyOf(r) \in Accounts
  BY KeyType DEF TypeOK
<1>3. /\ pc' \in [Calls -> Stages] /\ req' \in [Calls -> Request \cup {NoReq}]
      /\ key' \in [Calls -> Accounts]
  BY <1>1, <1>2 DEF TypeOK, Stages
<1>4. \A d \in Calls \ {c} : pc'[d] = pc[d] /\ req'[d] = req[d]
  BY <1>1 DEF TypeOK
<1>5. pc'[c] = "meta" /\ req'[c] = r
  BY <1>1 DEF TypeOK
<1>6. \A d \in Calls :
          /\ pc'[d] # "idle" => req'[d] \in Request
          /\ pc'[d] \in {"readFrom", "putFrom", "readVault", "putVault"} => req'[d].kind = "swap"
          /\ pc'[d] = "report" => req'[d].kind \in {"swap", "add", "remove"}
  BY <1>4, <1>5 DEF TypeOK
<1>7. /\ IdentityOK' /\ dead' \cup cut' \cup disturbed' \subseteq Calls
      /\ cell' = cell /\ core' = core /\ got' = got /\ peak' = peak
      /\ debited' = debited /\ credited' = credited /\ changes' = changes /\ crashes' = crashes
  BY <1>1 DEF TypeOK, IdentityOK, pastVars, totals
<1> QED
  BY <1>3, <1>6, <1>7 DEF TypeOK, Stages

\* What a request that is under way has in its body.
LEMMA UnderWay ==
  ASSUME TypeOK, NEW c \in Calls, pc[c] # "idle"
  PROVE  /\ req[c] \in Request /\ req[c].amount \in Nat /\ req[c].from \in Accounts
         /\ req[c].kind \in {"swap", "add", "remove", "search", "state"}
         /\ key[c] \in Accounts /\ got[c] \in Nat /\ core[key[c]] \in Nat
<1>1. req[c] \in Request /\ key[c] \in Accounts /\ got[c] \in Nat
  BY DEF TypeOK
<1>2. core[key[c]] \in Nat
  <2>1. core[key[c]] \in Reports \cup {0}
    BY <1>1 DEF TypeOK
  <2>2. \A v \in Reports \cup {0} : v \in Nat
    OBVIOUS
  <2> QED BY <2>1, <2>2
<1>3. /\ req[c].amount \in Nat /\ req[c].from \in Accounts
      /\ req[c].kind \in {"swap", "add", "remove", "search", "state"}
  BY <1>1, RequestType
<1> QED
  BY <1>1, <1>2, <1>3

LEMMA AfterFits ==
  ASSUME TypeOK, NEW c \in Calls, pc[c] # "idle", NEW n \in Nat
  PROVE  Fits(c, After(c, n))
  BY AfterType, UnderWay DEF Fits, Stages

\* The steps of requests that write nothing.
Reading(c) ==
    ReadMeta(c) \/ Ask(c) \/ Answered(c) \/ NotKept(c) \/ AskFails(c) \/ ReadFrom(c)
    \/ ReadVault(c) \/ Report(c)

LEMMA ReadingTypes ==
  ASSUME TypeOK, NEW c \in Calls, Reading(c)
  PROVE  /\ TypeOK'
         /\ UNCHANGED <<identity, cell, disturbed, core, req, key, pastVars>>
<1> USE DEF NoWrite, pastVars, totals
<1>1. /\ pc[c] # "idle" /\ UNCHANGED <<identity, cell, disturbed, core, req, key, pastVars>>
  BY DEF Reading, ReadMeta, Ask, Answered, NotKept, AskFails, ReadFrom, ReadVault, Report, Step
<1>2. /\ cell' \in [Accounts -> Cell] /\ disturbed' \subseteq Calls /\ cut' \subseteq Calls
      /\ debited' \in Nat /\ credited' \in Nat
  BY <1>1 DEF TypeOK
<1>3. /\ Balance(key[c]) \in Nat /\ Balance(Vault) \in Nat /\ Balance(req[c].from) \in Nat
      /\ core[key[c]] \in Nat
  BY <1>1, UnderWay, BalanceType DEF Accounts
<1>4. got' \in [Calls -> Nat]
  <2>1. \A balance \in Told(c) : balance \in Nat
    BY <1>1, <1>3, UnderWay DEF Told
  <2> QED
    BY <1>3, <2>1 DEF TypeOK, Reading, ReadMeta, Ask, Answered, NotKept, AskFails, ReadFrom, ReadVault, Report
<1>5. PICK from \in Stages \ {"idle"}, to \in Stages : Step(c, from, to) /\ Fits(c, to)
  <2>1. Fits(c, After(c, Balance(key[c]))) /\ Fits(c, After(c, 0))
    BY <1>1, <1>3, AfterFits
  <2>2. /\ \A s \in {"answer", "put", "done"} : Fits(c, s)
        /\ pc[c] = "readFrom" => Fits(c, "putFrom")
        /\ pc[c] = "readVault" => Fits(c, "putVault")
    BY DEF Fits, Stages, TypeOK
  <2>3. CASE ReadMeta(c)
    BY <2>1, <2>3 DEF ReadMeta, Stages, Fits
  <2>4. CASE AskFails(c)
    BY <2>1, <2>4 DEF AskFails, Stages, Fits
  <2>5. CASE ReadFrom(c) \/ ReadVault(c)
    BY <2>2, <2>5 DEF ReadFrom, ReadVault, Stages, Step
  <2>6. CASE Ask(c) \/ Answered(c) \/ NotKept(c) \/ Report(c)
    BY <2>2, <2>6 DEF Ask, Answered, NotKept, Report, Stages
  <2> QED BY <2>3, <2>4, <2>5, <2>6 DEF Reading
<1>6. TypeOK'
  BY <1>1, <1>2, <1>4, <1>5, StepTypes
<1> QED BY <1>1, <1>6

\* The steps of requests that write.
LEMMA WritingTypes ==
  ASSUME TypeOK, NEW c \in Calls, PutMeta(c) \/ PutFrom(c) \/ PutVault(c)
  PROVE  TypeOK'
<1>1. pc[c] \in {"put", "putFrom", "putVault"}
  BY DEF PutMeta, PutFrom, PutVault, Step
<1>2. /\ req[c].amount \in Nat /\ req[c].from \in Accounts /\ key[c] \in Accounts /\ got[c] \in Nat
      /\ Vault \in Accounts
  BY <1>1, UnderWay DEF Accounts
<1>3. CASE PutMeta(c)
  <2>1. Record(got[c]) \in Cell
    BY <1>2, CellTypes
  <2>2. /\ Write(key[c], Record(got[c]), {c}) /\ Step(c, "put", After(c, got[c]))
        /\ UNCHANGED <<identity, core, req, key, got, pastVars>>
    BY <1>3 DEF PutMeta
  <2>3. cell' \in [Accounts -> Cell] /\ disturbed' \subseteq Calls
    BY <1>2, <2>1, <2>2, WriteEffect
  <2>4. Fits(c, After(c, got[c]))
    BY <1>1, <1>2, AfterFits
  <2>5. got' \in [Calls -> Nat] /\ debited' \in Nat /\ credited' \in Nat /\ cut' \subseteq Calls
    BY <2>2 DEF TypeOK, pastVars, totals
  <2> QED BY <2>2, <2>3, <2>4, <2>5, StepTypes DEF pastVars, totals, Stages
<1>4. CASE PutFrom(c)
  <2>1. Debit(got[c], req[c].amount) \in Nat
    BY <1>2 DEF Debit
  <2>2. /\ Write(req[c].from, Record(Debit(got[c], req[c].amount)), {c})
        /\ Step(c, "putFrom", "readVault") /\ debited' = debited + req[c].amount
        /\ cut' \subseteq cut \cup {c}
        /\ UNCHANGED <<identity, core, req, key, got, dead, changes, crashes, peak, credited>>
    BY <1>4 DEF PutFrom
  <2>3. cell' \in [Accounts -> Cell] /\ disturbed' \subseteq Calls
    BY <1>2, <2>1, <2>2, CellTypes, WriteEffect
  <2>4. Fits(c, "readVault")
    BY <1>1, <2>2 DEF Fits, Stages, TypeOK, Step
  <2>5. got' \in [Calls -> Nat] /\ debited' \in Nat /\ credited' \in Nat /\ cut' \subseteq Calls
    BY <1>2, <2>2 DEF TypeOK
  <2> QED BY <2>2, <2>3, <2>4, <2>5, StepTypes DEF Stages
<1>5. CASE PutVault(c)
  <2>1. got[c] + req[c].amount \in Nat
    BY <1>2
  <2>2. /\ Write(Vault, Record(got[c] + req[c].amount), {c})
        /\ Step(c, "putVault", "report") /\ credited' = credited + req[c].amount
        /\ UNCHANGED <<identity, core, req, key, got, dead, changes, crashes, peak, debited, cut>>
    BY <1>5 DEF PutVault
  <2>3. cell' \in [Accounts -> Cell] /\ disturbed' \subseteq Calls
    BY <1>2, <2>1, <2>2, CellTypes, WriteEffect
  <2>4. Fits(c, "report")
    BY <2>2 DEF Fits, Stages, TypeOK, Step
  <2>5. got' \in [Calls -> Nat] /\ debited' \in Nat /\ credited' \in Nat /\ cut' \subseteq Calls
    BY <1>2, <2>2 DEF TypeOK
  <2> QED BY <2>2, <2>3, <2>4, <2>5, StepTypes DEF Stages
<1> QED BY <1>3, <1>4, <1>5

\* The Core, the crawler, new wallets and crashes.
LEMMA WorldTypes ==
  ASSUME TypeOK,
         \/ \E a \in Senders \cup {Vault} : Crawl(a) \/ \E v \in Reports : Change(a, v)
         \/ \E w \in Wallets : NewWallet(w)
         \/ Crash
  PROVE  TypeOK'
<1> USE DEF callVars, pastVars, totals, NoWrite
<1>1. ASSUME NEW a \in Senders \cup {Vault}, Crawl(a) PROVE TypeOK'
  <2>1. a \in Accounts /\ core[a] \in Reports \cup {0}
    BY DEF Accounts, TypeOK
  <2>2. core[a] \in Nat
    <3>1. \A v \in Reports \cup {0} : v \in Nat
      OBVIOUS
    <3> QED BY <2>1, <3>1
  <2>3. Write(a, Number(core[a]), {}) /\ UNCHANGED <<identity, core, callVars, pastVars>>
    BY <1>1 DEF Crawl
  <2>4. cell' \in [Accounts -> Cell] /\ disturbed' \subseteq Calls
    BY <2>1, <2>2, <2>3, CellTypes, WriteEffect
  <2> QED BY <2>3, <2>4 DEF TypeOK, IdentityOK
<1>2. ASSUME NEW a \in Senders \cup {Vault}, NEW v \in Reports, Change(a, v) PROVE TypeOK'
  <2>1. a \in Accounts /\ v \in Nat
    BY DEF Accounts
  <2>2. /\ changes < MaxChanges /\ changes' = changes + 1 /\ core' = [core EXCEPT ![a] = v]
        /\ peak' = [peak EXCEPT ![a] = IF v > peak[a] THEN v ELSE peak[a]]
        /\ UNCHANGED <<identity, cell, disturbed, callVars, dead, crashes, totals, cut>>
    BY <1>2 DEF Change
  <2>3. core' \in [Accounts -> Reports \cup {0}] /\ peak' \in [Accounts -> Nat]
    BY <2>1, <2>2 DEF TypeOK
  <2>4. changes' \in 0 .. MaxChanges
    BY <2>2 DEF TypeOK
  <2> QED BY <2>2, <2>3, <2>4 DEF TypeOK, IdentityOK
<1>3. ASSUME NEW w \in Wallets, NewWallet(w) PROVE TypeOK'
  <2>1. CreateWallet(w, NoName) /\ UNCHANGED <<cell, disturbed, core, callVars, pastVars>>
    BY <1>3 DEF NewWallet
  <2>2. /\ Native(w) \in Names /\ Eth(w) \in Names
        /\ identity' = [q \in Names |->
            CASE q \in {Eth(w), Nexus(w)}           -> Native(w)
              [] q = Native(w)                      -> Eth(w)
              [] NoName # NoName /\ q = Alias(NoName) -> Native(w)
              [] OTHER                              -> identity[q]]
    BY <2>1 DEF CreateWallet, Names
  <2>3. \A q \in Names : identity'[q] \in {Native(w), Eth(w), identity[q]}
    BY <2>2
  <2>4. IdentityOK'
    BY <2>2, <2>3 DEF IdentityOK, TypeOK
  <2> QED BY <2>1, <2>4 DEF TypeOK
<1>4. CASE Crash
  <2>1. /\ crashes < MaxCrashes /\ crashes' = crashes + 1 /\ dead' = dead \cup {c \in Calls : Live(c)}
        /\ UNCHANGED <<identity, cell, disturbed, core, callVars, changes, peak, totals, cut>>
    BY <1>4 DEF Crash
  <2>2. crashes' \in 0 .. MaxCrashes /\ dead' \subseteq Calls
    BY <2>1 DEF TypeOK
  <2> QED BY <2>1, <2>2 DEF TypeOK, IdentityOK
<1> QED BY <1>1, <1>2, <1>3, <1>4

LEMMA TypeStep == TypeOK /\ [Next]_vars => TypeOK'
<1>1. ASSUME TypeOK, UNCHANGED vars PROVE TypeOK'
  BY <1>1 DEF vars, callVars, pastVars, totals, TypeOK, IdentityOK
<1> QED
  BY <1>1, StartTypes, ReadingTypes, WritingTypes, WorldTypes DEF Next, Reading

\* What requests, keys and histories look like in every state.
THEOREM TypeCorrect == Spec => []TypeOK
  BY CacheInit, TypeStep, PTL DEF Spec

-----------------------------------------------------------------------------
(* No balance without a source *)

\* The most an account may show.
Bound(a) == peak[a] + IF a = Vault THEN credited ELSE 0

\* What a request holds and is about to store is bounded as well.
HeldBacked(c) ==
    /\ pc[c] \in {"answer", "put"} => got[c] <= Bound(key[c])
    /\ pc[c] = "putFrom"  => got[c] <= Bound(req[c].from)
    /\ pc[c] = "putVault" => got[c] <= Bound(Vault)

BackInv ==
    /\ \A a \in Accounts : Balance(a) <= Bound(a) /\ core[a] <= peak[a]
    /\ \A c \in Calls : HeldBacked(c)

LEMMA BoundType ==
  ASSUME TypeOK, NEW a \in Accounts
  PROVE  Bound(a) \in Nat /\ peak[a] \in Nat /\ peak[a] <= Bound(a)
<1>1. peak[a] \in Nat /\ credited \in Nat
  BY DEF TypeOK
<1> QED BY <1>1 DEF Bound

LEMMA CoreType == ASSUME TypeOK, NEW a \in Accounts PROVE core[a] \in Nat
<1>1. core[a] \in Reports \cup {0}
  BY DEF TypeOK
<1>2. \A v \in Reports \cup {0} : v \in Nat
  OBVIOUS
<1> QED BY <1>1, <1>2

LEMMA BackInit == Init => BackInv
<1> SUFFICES ASSUME Init PROVE BackInv
  OBVIOUS
<1>1. \A a \in Accounts : Balance(a) = 0 /\ core[a] = 0 /\ peak[a] = 0 /\ Bound(a) = 0
  BY DEF Init, Balance, Empty, Bound
<1>2. \A c \in Calls : HeldBacked(c)
  BY DEF Init, HeldBacked
<1> QED BY <1>1, <1>2 DEF BackInv

\* A step that raises no balance above its bound and lowers no bound.
LEMMA BackMoves ==
  ASSUME TypeOK, TypeOK', BackInv,
         \A a \in Accounts : Balance(a)' <= Bound(a)' /\ core'[a] <= peak'[a] /\ Bound(a) <= Bound(a)',
         \A c \in Calls :
            HeldBacked(c)' \/ (pc'[c] = pc[c] /\ req'[c] = req[c] /\ key'[c] = key[c] /\ got'[c] = got[c])
  PROVE  BackInv'
<1> SUFFICES ASSUME NEW c \in Calls, pc'[c] = pc[c], req'[c] = req[c], key'[c] = key[c], got'[c] = got[c]
    PROVE  HeldBacked(c)'
  BY DEF BackInv
<1>1. \A a \in Accounts : Bound(a) \in Nat
  BY BoundType
<1>2. \A a \in Accounts : Bound(a)' \in Nat
  BY DEF TypeOK, Bound
<1>3. CASE pc[c] = "idle"
  BY <1>3 DEF HeldBacked
<1>4. CASE pc[c] # "idle"
  <2>1. /\ key[c] \in Accounts /\ req[c].from \in Accounts /\ got[c] \in Nat
        /\ Vault \in Accounts
    BY <1>4, UnderWay DEF Accounts
  <2>2. HeldBacked(c)
    BY DEF BackInv
  <2>3. ASSUME NEW a \in Accounts, got[c] <= Bound(a) PROVE got'[c] <= Bound(a)'
    BY <1>1, <1>2, <2>1, <2>3
  <2> QED
    BY <2>1, <2>2, <2>3 DEF HeldBacked, Bound
<1> QED BY <1>3, <1>4

\* A step of one request leaves the others where they are.
LEMMA OthersStay ==
  ASSUME TypeOK, NEW c \in Calls, NEW from, NEW to, Step(c, from, to),
         UNCHANGED <<req, key>>,
         got' = got \/ \E n : got' = [got EXCEPT ![c] = n],
         NEW d \in Calls, d # c
  PROVE  pc'[d] = pc[d] /\ req'[d] = req[d] /\ key'[d] = key[d] /\ got'[d] = got[d]
  BY DEF Step, TypeOK

LEMMA BackReading ==
  ASSUME TypeOK, BackInv, NEW c \in Calls, Reading(c)
  PROVE  BackInv'
<1>1. TypeOK' /\ UNCHANGED <<identity, cell, disturbed, core, req, key, pastVars>>
  BY ReadingTypes
<1>2. \A a \in Accounts : Balance(a)' = Balance(a) /\ Bound(a)' = Bound(a) /\ Bound(a) \in Nat
  BY <1>1, BoundType DEF Balance, Bound, pastVars, totals
<1>3. \A a \in Accounts : Balance(a)' <= Bound(a)' /\ core'[a] <= peak'[a] /\ Bound(a) <= Bound(a)'
  BY <1>1, <1>2 DEF BackInv, pastVars
<1>4. PICK from, to : Step(c, from, to)
  BY DEF Reading, ReadMeta, Ask, Answered, NotKept, AskFails, ReadFrom, ReadVault, Report
<1>5. got' = got \/ \E n : got' = [got EXCEPT ![c] = n]
  BY DEF Reading, ReadMeta, Ask, Answered, NotKept, AskFails, ReadFrom, ReadVault, Report
<1>6. \A d \in Calls \ {c} : pc'[d] = pc[d] /\ req'[d] = req[d] /\ key'[d] = key[d] /\ got'[d] = got[d]
  BY <1>1, <1>4, <1>5, OthersStay
<1>7. pc[c] # "idle"
  BY DEF Reading, ReadMeta, Ask, Answered, NotKept, AskFails, ReadFrom, ReadVault, Report, Step
<1>8. /\ req[c] \in Request /\ req[c].from \in Accounts /\ key[c] \in Accounts /\ Vault \in Accounts
      /\ req'[c] = req[c] /\ key'[c] = key[c]
  BY <1>1, <1>7, UnderWay DEF Accounts
<1>9. HeldBacked(c)'
  <2>1. CASE Answered(c)
    <3>1. pc[c] = "answer" /\ pc'[c] = "put" /\ got'[c] \in Told(c)
      BY <2>1 DEF Answered, Step, TypeOK
    <3>2. core[key[c]] <= Bound(key[c]) /\ got[c] <= Bound(key[c])
      BY <1>8, <3>1, BoundType, CoreType DEF BackInv, HeldBacked
    <3>3. got'[c] <= Bound(key[c])
      BY <3>1, <3>2 DEF Told
    <3> QED BY <1>2, <1>8, <3>1, <3>3 DEF HeldBacked, Bound
  <2>2. CASE ReadFrom(c)
    <3>1. pc'[c] = "putFrom" /\ got'[c] = Balance(req[c].from)
      BY <2>2 DEF ReadFrom, Step, TypeOK
    <3> QED BY <1>2, <1>8, <3>1 DEF HeldBacked, BackInv, Bound
  <2>3. CASE ReadVault(c)
    <3>1. pc'[c] = "putVault" /\ got'[c] = Balance(Vault)
      BY <2>3 DEF ReadVault, Step, TypeOK
    <3> QED BY <1>2, <1>8, <3>1 DEF HeldBacked, BackInv, Bound
  <2>4. CASE Ask(c)
    <3>1. pc'[c] = "answer" /\ got'[c] = Balance(key[c])
      BY <2>4 DEF Ask, Step, TypeOK
    <3> QED BY <1>2, <1>8, <3>1 DEF HeldBacked, BackInv, Bound
  <2>5. CASE ReadMeta(c) \/ NotKept(c) \/ AskFails(c) \/ Report(c)
    <3>1. After(c, Balance(key[c])) \in {"readFrom", "report", "done"}
          /\ After(c, 0) \in {"readFrom", "report", "done"}
      BY <1>8, BalanceType, AfterType
    <3>2. pc'[c] \in {"readFrom", "report", "done"}
      BY <2>5, <3>1 DEF ReadMeta, NotKept, AskFails, Report, Step, TypeOK
    <3> QED BY <3>2 DEF HeldBacked
  <2> QED BY <2>1, <2>2, <2>3, <2>4, <2>5 DEF Reading
<1> QED BY <1>1, <1>3, <1>6, <1>9, BackMoves

LEMMA BackWrite ==
  ASSUME TypeOK, TypeOK', BackInv, NEW a \in Accounts, NEW v \in Nat, NEW writer,
         Write(a, Record(v), writer), v <= Bound(a)', UNCHANGED <<core, peak>>, credited <= credited'
  PROVE  \A b \in Accounts : Balance(b)' <= Bound(b)' /\ core'[b] <= peak'[b] /\ Bound(b) <= Bound(b)'
<1> TAKE b \in Accounts
<1>1. Record(v) \in Cell /\ Record(v).shape = "record" /\ Record(v).value = v
  BY CellTypes
<1>2. /\ Balance(a)' = v
      /\ b # a => Balance(b)' = Balance(b)
  BY <1>1, WriteEffect
<1>3. /\ Bound(b) \in Nat /\ Bound(b)' \in Nat /\ Balance(b) \in Nat
      /\ Bound(b) <= Bound(b)'
  BY BoundType, BalanceType DEF Bound, TypeOK
<1>4. Balance(b) <= Bound(b) /\ core'[b] <= peak'[b]
  BY DEF BackInv
<1> QED BY <1>2, <1>3, <1>4

LEMMA BackWriting ==
  ASSUME TypeOK, BackInv, NEW c \in Calls, PutMeta(c) \/ PutFrom(c) \/ PutVault(c)
  PROVE  BackInv'
<1>1. TypeOK'
  BY WritingTypes
<1>2. pc[c] \in {"put", "putFrom", "putVault"}
  BY DEF PutMeta, PutFrom, PutVault, Step
<1>3. /\ req[c] \in Request /\ req[c].from \in Accounts /\ req[c].amount \in Nat
      /\ key[c] \in Accounts /\ got[c] \in Nat /\ Vault \in Accounts
  BY <1>2, UnderWay DEF Accounts, TypeOK
<1>4. /\ UNCHANGED <<core, req, key, got, peak>>
      /\ \E to \in {"readFrom", "report", "done", "readVault"} : \E from : Step(c, from, to)
  <2>1. After(c, got[c]) \in {"readFrom", "report", "done"}
    BY <1>3, AfterType
  <2> QED BY <2>1 DEF PutMeta, PutFrom, PutVault, pastVars
<1>5. /\ \A d \in Calls \ {c} : pc'[d] = pc[d] /\ req'[d] = req[d] /\ key'[d] = key[d] /\ got'[d] = got[d]
      /\ HeldBacked(c)'
  <2>1. PICK to \in {"readFrom", "report", "done", "readVault"} : \E from : Step(c, from, to)
    BY <1>4
  <2>2. pc'[c] = to
    BY <2>1 DEF Step, TypeOK
  <2> QED BY <1>4, <2>1, <2>2, OthersStay DEF HeldBacked
<1>6. /\ HeldBacked(c) /\ debited \in Nat /\ credited \in Nat
      /\ \A a \in Accounts : Bound(a) \in Nat
  BY BoundType DEF BackInv, TypeOK
<1>7. ASSUME NEW a \in Accounts, NEW v \in Nat, Write(a, Record(v), {c}), v <= Bound(a)',
             credited <= credited'
      PROVE  BackInv'
  BY <1>1, <1>4, <1>5, <1>7, BackWrite, BackMoves
<1>8. CASE PutMeta(c)
  <2>1. PICK a \in Accounts : a = key[c]
    BY <1>3
  <2>2. pc[c] = "put" /\ Write(a, Record(got[c]), {c}) /\ credited' = credited
    BY <1>8, <2>1 DEF PutMeta, Step, pastVars, totals
  <2>3. got[c] <= Bound(a)'
    BY <1>4, <1>6, <2>1, <2>2 DEF HeldBacked, Bound
  <2> QED BY <1>3, <1>6, <1>7, <2>2, <2>3
<1>9. CASE PutFrom(c)
  <2>1. PICK a \in Accounts, v \in Nat :
            a = req[c].from /\ v = Debit(got[c], req[c].amount) /\ v <= got[c]
    BY <1>3 DEF Debit
  <2>2. pc[c] = "putFrom" /\ Write(a, Record(v), {c}) /\ credited' = credited
    BY <1>9, <2>1 DEF PutFrom, Step
  <2>3. got[c] <= Bound(a) /\ Bound(a)' = Bound(a) /\ Bound(a) \in Nat
    BY <1>4, <1>6, <2>1, <2>2 DEF HeldBacked, Bound
  <2>4. v <= Bound(a)'
    BY <1>3, <2>1, <2>3
  <2> QED BY <1>6, <1>7, <2>2, <2>4
<1>10. CASE PutVault(c)
  <2>1. PICK v \in Nat : v = got[c] + req[c].amount
    BY <1>3
  <2>2. pc[c] = "putVault" /\ Write(Vault, Record(v), {c}) /\ credited' = credited + req[c].amount
    BY <1>10, <2>1 DEF PutVault, Step
  <2>3. got[c] <= peak[Vault] + credited /\ peak[Vault] \in Nat
    BY <1>3, <1>6, <2>2, BoundType DEF HeldBacked, Bound
  <2>4. v <= Bound(Vault)'
    BY <1>3, <1>4, <1>6, <2>1, <2>2, <2>3 DEF Bound
  <2> QED BY <1>3, <1>6, <1>7, <2>2, <2>4
<1> QED BY <1>8, <1>9, <1>10

\* What the rest of the world does to the keys.
LEMMA BackWorld ==
  ASSUME TypeOK, TypeOK', BackInv,
         \/ \E a \in Senders \cup {Vault} : Crawl(a) \/ \E v \in Reports : Change(a, v)
         \/ \E w \in Wallets : NewWallet(w)
         \/ Crash
  PROVE  BackInv'
<1> USE DEF callVars, pastVars, totals, NoWrite
<1>1. \A a \in Accounts : Bound(a) \in Nat /\ Bound(a) <= Bound(a) /\ Balance(a) <= Bound(a) /\ core[a] <= peak[a]
  BY BoundType DEF BackInv
<1>2. ASSUME NEW a \in Senders \cup {Vault}, Crawl(a) PROVE BackInv'
  <2>1. a \in Accounts
    BY DEF Accounts
  <2>2. core[a] \in Nat
    BY <2>1, CoreType
  <2>3. Write(a, Number(core[a]), {}) /\ UNCHANGED <<identity, core, callVars, pastVars>>
    BY <1>2 DEF Crawl
  <2>4. Balance(a)' = 0 /\ \A b \in Accounts : b # a => Balance(b)' = Balance(b)
    BY <2>1, <2>2, <2>3, CellTypes, WriteEffect
  <2>5. \A b \in Accounts : Balance(b)' <= Bound(b)' /\ core'[b] <= peak'[b] /\ Bound(b) <= Bound(b)'
    BY <1>1, <2>3, <2>4 DEF Bound
  <2> QED BY <2>3, <2>5, BackMoves
<1>3. ASSUME NEW a \in Senders \cup {Vault}, NEW v \in Reports, Change(a, v) PROVE BackInv'
  <2>1. a \in Accounts /\ v \in Nat
    BY DEF Accounts
  <2>2. /\ core' = [core EXCEPT ![a] = v]
        /\ peak' = [peak EXCEPT ![a] = IF v > peak[a] THEN v ELSE peak[a]]
        /\ UNCHANGED <<cell, callVars, credited>>
    BY <1>3 DEF Change
  <2>3. \A b \in Accounts : peak[b] \in Nat /\ core[b] \in Nat /\ credited \in Nat /\ Balance(b) \in Nat
    BY CoreType, BalanceType DEF TypeOK
  <2>4. \A b \in Accounts : peak[b] <= peak'[b] /\ core'[b] <= peak'[b] /\ peak'[b] \in Nat
    BY <1>1, <2>1, <2>2, <2>3 DEF TypeOK
  <2>5. \A b \in Accounts : Bound(b) <= Bound(b)' /\ Bound(b)' \in Nat /\ Balance(b)' = Balance(b)
    BY <2>2, <2>3, <2>4 DEF Bound, Balance
  <2>6. \A b \in Accounts : Balance(b)' <= Bound(b)' /\ core'[b] <= peak'[b] /\ Bound(b) <= Bound(b)'
    BY <1>1, <2>3, <2>4, <2>5
  <2> QED BY <2>2, <2>6, BackMoves
<1>4. CASE Crash \/ \E w \in Wallets : NewWallet(w)
  <2>1. UNCHANGED <<cell, core, peak, credited, pc, req, key, got>>
    BY <1>4 DEF Crash, NewWallet
  <2>2. \A b \in Accounts : Balance(b)' <= Bound(b)' /\ core'[b] <= peak'[b] /\ Bound(b) <= Bound(b)'
    BY <1>1, <2>1 DEF Bound, Balance
  <2> QED BY <2>1, <2>2, BackMoves
<1> QED BY <1>2, <1>3, <1>4

LEMMA BackStep == TypeOK /\ BackInv /\ [Next]_vars => BackInv'
<1> SUFFICES ASSUME TypeOK, BackInv, [Next]_vars PROVE BackInv'
  OBVIOUS
<1>1. TypeOK'
  BY TypeStep
<1>2. ASSUME NEW c \in Calls, NEW r \in Request, Start(c, r) PROVE BackInv'
  <2>1. /\ pc' = [pc EXCEPT ![c] = "meta"] /\ req' = [req EXCEPT ![c] = r]
        /\ key' = [key EXCEPT ![c] = KeyOf(r)]
        /\ UNCHANGED <<cell, core, got, peak, credited>>
    BY <1>2 DEF Start, Step, NoWrite, pastVars, totals
  <2>2. \A d \in Calls \ {c} : pc'[d] = pc[d] /\ req'[d] = req[d] /\ key'[d] = key[d] /\ got'[d] = got[d]
    BY <2>1 DEF TypeOK
  <2>3. HeldBacked(c)'
    BY <2>1 DEF HeldBacked, TypeOK
  <2>4. \A b \in Accounts : Balance(b)' <= Bound(b)' /\ core'[b] <= peak'[b] /\ Bound(b) <= Bound(b)'
    BY <2>1, BoundType DEF Bound, Balance, BackInv
  <2> QED BY <1>1, <2>2, <2>3, <2>4, BackMoves
<1>3. ASSUME UNCHANGED vars PROVE BackInv'
  <2>1. UNCHANGED <<cell, core, peak, credited, pc, req, key, got>>
    BY <1>3 DEF vars, callVars, pastVars, totals
  <2> QED BY <2>1 DEF BackInv, HeldBacked, Bound, Balance
<1> QED
  BY <1>1, <1>2, <1>3, BackReading, BackWriting, BackWorld DEF Next, Reading

\* However swaps, look-ups, reports of the Core and crashes overlap, and for any
\* number of them: no account shows more than the Core has ever reported of it,
\* and the vault no more than that and what swaps have credited.
THEOREM BalancesBacked == Spec => []BalanceBacked
<1>1. BackInv => BalanceBacked
  BY DEF BackInv, BalanceBacked, Bound
<1> QED
  BY <1>1, CacheInit, TypeStep, BackInit, BackStep, PTL DEF Spec

-----------------------------------------------------------------------------
(* What an undisturbed swap counts on is still so *)

Plain(c) == ~IsEth(req[c].from)

\* What it has validated, and later what it has read.
Counted(c) ==
    c \notin disturbed \cup dead =>
       /\ pc[c] = "readFrom" /\ Plain(c) => req[c].amount <= Balance(req[c].from)
       /\ pc[c] = "putFrom"              => got[c] = Balance(req[c].from)
       /\ pc[c] = "putFrom" /\ Plain(c)  => req[c].amount <= got[c]
       /\ pc[c] = "putVault"             => got[c] = Balance(Vault)
       /\ pc[c] \in {"answer", "put"} /\ req[c].kind = "state" =>
             got[c] \in Reports \cup {0, Balance(key[c])}

\* A swap under a plain name looks up the key that it will debit.
PlainKey(c) == pc[c] # "idle" /\ req[c].kind = "swap" /\ Plain(c) => key[c] = req[c].from

\* A debit was cut only with a cause.
CutFor(c) == c \in cut => pc[c] # "idle" /\ (c \in disturbed \/ IsEth(req[c].from))

\* Others than HandleGetState ask only when they have read zero, and store what the
\* Core reports.
AnswerIn(c) ==
    pc[c] \in {"answer", "put"} /\ req[c].kind # "state" => got[c] \in Reports \cup {0}

CallInv(c) == Counted(c) /\ PlainKey(c) /\ CutFor(c) /\ AnswerIn(c)

CauseInv ==
    /\ \A c \in Calls : CallInv(c)
    /\ crashes = 0 => dead = {}

LEMMA CauseInit == Init => CauseInv
  BY DEF Init, CauseInv, CallInv, Counted, PlainKey, CutFor, AnswerIn

\* A request that does nothing loses what it counts on only by being disturbed.
LEMMA CallStays ==
  ASSUME TypeOK, NEW d \in Calls, CallInv(d),
         pc'[d] = pc[d], req'[d] = req[d], key'[d] = key[d], got'[d] = got[d],
         dead \subseteq dead', d \in cut' => d \in cut,
         \/ UNCHANGED <<cell, disturbed>>
         \/ \E a \in Accounts, v \in Cell : \E W : d \notin W /\ Write(a, v, W)
  PROVE  CallInv(d)'
<1>1. PlainKey(d)' /\ AnswerIn(d)'
  BY DEF CallInv, PlainKey, AnswerIn, Plain
<1>2. disturbed \subseteq disturbed'
  BY DEF Write
<1>3. CutFor(d)'
  BY <1>2 DEF CallInv, CutFor
<1>4. Counted(d)'
  <2> SUFFICES ASSUME d \notin disturbed', d \notin dead' PROVE Counted(d)'
    BY DEF Counted
  <2>1. d \notin disturbed /\ d \notin dead /\ Counted(d)
    BY <1>2 DEF CallInv
  <2>2. CASE UNCHANGED <<cell, disturbed>>
    BY <2>1, <2>2 DEF Counted, Plain, Balance
  <2>3. CASE \E a \in Accounts, v \in Cell : \E W : d \notin W /\ Write(a, v, W)
    <3>0. PICK a \in Accounts, v \in Cell : \E W : d \notin W /\ Write(a, v, W)
      BY <2>3
    <3>1. PICK W : d \notin W /\ Write(a, v, W)
      BY <3>0
    <3>2. /\ a \notin Watched(d)
          /\ \A b \in Accounts : b # a => Balance(b)' = Balance(b)
      BY <2>1, <3>1, WriteEffect
    <3>3. CASE pc[d] \in {"readFrom", "putFrom"}
      <4>1. PICK b \in Accounts : b = req[d].from
        BY <3>3, UnderWay
      <4>2. b # a
        BY <3>2, <3>3, <4>1 DEF Watched
      <4>3. Balance(b)' = Balance(b)
        BY <3>2, <4>2
      <4> QED BY <2>1, <3>3, <4>1, <4>3 DEF Counted, Plain, Balance
    <3>4. CASE pc[d] = "putVault"
      <4>1. Vault # a /\ Vault \in Accounts
        BY <3>2, <3>4 DEF Watched, Accounts
      <4>2. Balance(Vault)' = Balance(Vault)
        BY <3>2, <4>1
      <4> QED BY <2>1, <3>4, <4>2 DEF Counted
    <3>5. CASE pc[d] \in {"answer", "put"} /\ req[d].kind = "state"
      <4>1. PICK b \in Accounts : b = key[d]
        BY <3>5, UnderWay
      <4>2. b # a
        BY <3>2, <3>5, <4>1 DEF Watched
      <4>3. Balance(b)' = Balance(b)
        BY <3>2, <4>2
      <4> QED BY <2>1, <3>5, <4>1, <4>3 DEF Counted, Balance
    <3>6. CASE pc[d] \notin {"readFrom", "putFrom", "putVault"}
               /\ ~(pc[d] \in {"answer", "put"} /\ req[d].kind = "state")
      BY <3>6 DEF Counted
    <3> QED BY <3>3, <3>4, <3>5, <3>6
  <2> QED BY <2>2, <2>3
<1> QED BY <1>1, <1>3, <1>4 DEF CallInv

LEMMA CauseReading ==
  ASSUME TypeOK, CauseInv, NEW c \in Calls, Reading(c)
  PROVE  CauseInv'
<1>1. UNCHANGED <<cell, disturbed, core, req, key, dead, cut, crashes>>
  BY ReadingTypes DEF pastVars
<1>2. PICK from, to : Step(c, from, to)
  BY DEF Reading, ReadMeta, Ask, Answered, NotKept, AskFails, ReadFrom, ReadVault, Report
<1>3. got' = got \/ \E n : got' = [got EXCEPT ![c] = n]
  BY DEF Reading, ReadMeta, Ask, Answered, NotKept, AskFails, ReadFrom, ReadVault, Report
<1>4. \A d \in Calls \ {c} : CallInv(d)'
  <2> TAKE d \in Calls \ {c}
  <2>1. pc'[d] = pc[d] /\ req'[d] = req[d] /\ key'[d] = key[d] /\ got'[d] = got[d]
    BY <1>1, <1>2, <1>3, OthersStay
  <2> QED BY <1>1, <2>1, CallStays DEF CauseInv
<1>5. pc[c] # "idle" /\ CallInv(c)
  BY DEF CauseInv, Reading, ReadMeta, Ask, Answered, NotKept, AskFails, ReadFrom, ReadVault, Report, Step
<1>6. /\ req[c] \in Request /\ req[c].from \in Accounts /\ key[c] \in Accounts /\ Vault \in Accounts
      /\ req[c].amount \in Nat /\ req'[c] = req[c] /\ key'[c] = key[c]
      /\ Balance(key[c]) \in Nat
  BY <1>1, <1>5, UnderWay, BalanceType DEF Accounts
<1>7. ASSUME NEW n \in Nat, pc'[c] = After(c, n), Plain(c) /\ req[c].kind = "swap" => n <= Balance(req[c].from)
      PROVE  pc'[c] \in {"readFrom", "report", "done"} /\ Counted(c)'
  <2>1. /\ pc'[c] \in {"readFrom", "report", "done"}
        /\ pc'[c] = "readFrom" => req[c].kind = "swap" /\ req[c].amount <= n
    BY <1>6, <1>7, AfterType
  <2>2. Balance(req[c].from) \in Nat
    BY <1>6, BalanceType
  <2>3. pc'[c] = "readFrom" /\ Plain(c) => req[c].amount <= Balance(req[c].from)
    BY <1>6, <1>7, <2>1, <2>2
  <2> QED BY <1>1, <2>1, <2>3 DEF Counted, Plain, Balance
<1>8. Counted(c)' /\ pc'[c] # "idle" /\ AnswerIn(c)'
  <2>1. CASE ReadMeta(c)
    <3>1. pc'[c] = After(c, Balance(key[c]))
      BY <2>1 DEF ReadMeta, Step, TypeOK
    <3>2. Plain(c) /\ req[c].kind = "swap" => key[c] = req[c].from
      BY <1>5 DEF CallInv, PlainKey
    <3>3. Plain(c) /\ req[c].kind = "swap" => Balance(key[c]) <= Balance(req[c].from)
      BY <1>6, <3>2
    <3> QED BY <1>6, <1>7, <3>1, <3>3 DEF AnswerIn
  <2>2. CASE AskFails(c)
    <3>1. pc'[c] = After(c, 0)
      BY <2>2 DEF AskFails, Step, TypeOK
    <3>2. Balance(req[c].from) \in Nat
      BY <1>6, BalanceType
    <3> QED BY <1>7, <3>1, <3>2 DEF AnswerIn
  <2>3. CASE Answered(c)
    <3>1. pc[c] = "answer" /\ pc'[c] = "put" /\ got'[c] \in {core[key[c]], got[c]}
      BY <2>3 DEF Answered, Told, Step, TypeOK
    <3>2. core[key[c]] \in Reports \cup {0}
      BY <1>6 DEF TypeOK
    <3> QED BY <1>1, <1>5, <1>6, <3>1, <3>2 DEF Counted, AnswerIn, CallInv, Balance
  <2>4. CASE ReadFrom(c)
    <3>1. pc[c] = "readFrom" /\ pc'[c] = "putFrom" /\ got'[c] = Balance(req[c].from)
      BY <2>4 DEF ReadFrom, Step, TypeOK
    <3> QED BY <1>1, <1>5, <3>1 DEF Counted, AnswerIn, CallInv, Plain, Balance
  <2>5. CASE ReadVault(c)
    <3>1. pc'[c] = "putVault" /\ got'[c] = Balance(Vault)
      BY <2>5 DEF ReadVault, Step, TypeOK
    <3> QED BY <1>1, <3>1 DEF Counted, AnswerIn, Balance
  <2>6. CASE Ask(c)
    <3>1. /\ pc'[c] = "answer" /\ got'[c] = Balance(key[c])
          /\ req[c].kind = "state" \/ Balance(key[c]) = 0
      BY <2>6 DEF Ask, Step, TypeOK
    <3> QED BY <1>1, <1>6, <3>1 DEF Counted, AnswerIn, Balance
  <2>7. CASE NotKept(c) \/ Report(c)
    <3>1. pc'[c] = "done"
      BY <2>7 DEF NotKept, Report, Step, TypeOK
    <3> QED BY <3>1 DEF Counted, AnswerIn
  <2> QED BY <2>1, <2>2, <2>3, <2>4, <2>5, <2>6, <2>7 DEF Reading
<1>9. PlainKey(c)' /\ CutFor(c)'
  BY <1>1, <1>5, <1>8 DEF PlainKey, CutFor, CallInv, Plain
<1> QED BY <1>1, <1>4, <1>8, <1>9 DEF CauseInv, CallInv

LEMMA CauseWriting ==
  ASSUME TypeOK, CauseInv, NEW c \in Calls, PutMeta(c) \/ PutFrom(c) \/ PutVault(c)
  PROVE  CauseInv'
<1>1. pc[c] \in {"put", "putFrom", "putVault"} /\ c \notin dead
  BY DEF PutMeta, PutFrom, PutVault, Step
<1>2. /\ req[c] \in Request /\ req[c].from \in Accounts /\ req[c].amount \in Nat
      /\ key[c] \in Accounts /\ got[c] \in Nat /\ Vault \in Accounts
  BY <1>1, UnderWay DEF Accounts
<1>3. UNCHANGED <<core, req, key, got, dead, crashes>> /\ CallInv(c)
  BY DEF PutMeta, PutFrom, PutVault, pastVars, CauseInv
<1>4. PICK a \in Accounts, v \in Nat : Write(a, Record(v), {c}) /\ \E from, to : Step(c, from, to)
  <2>1. CASE PutMeta(c)
    BY <1>2, <2>1 DEF PutMeta
  <2>2. CASE PutFrom(c)
    <3>1. Debit(got[c], req[c].amount) \in Nat
      BY <1>2 DEF Debit
    <3> QED BY <1>2, <2>2, <3>1 DEF PutFrom
  <2>3. CASE PutVault(c)
    <3>1. got[c] + req[c].amount \in Nat
      BY <1>2
    <3> QED BY <1>2, <2>3, <3>1 DEF PutVault
  <2> QED BY <2>1, <2>2, <2>3
<1>5. \A d \in Calls \ {c} : CallInv(d)'
  <2> TAKE d \in Calls \ {c}
  <2>1. pc'[d] = pc[d] /\ req'[d] = req[d] /\ key'[d] = key[d] /\ got'[d] = got[d]
    BY <1>3, <1>4, OthersStay
  <2>2. d \in cut' => d \in cut
    BY DEF PutMeta, PutFrom, PutVault, pastVars
  <2>3. d \notin {c} /\ Record(v) \in Cell /\ dead \subseteq dead' /\ CallInv(d)
    BY <1>3, CellTypes DEF CauseInv
  <2> QED BY <1>4, <2>1, <2>2, <2>3, CallStays
<1>6. disturbed \subseteq disturbed'
  BY <1>4 DEF Write
<1>7. CASE PutMeta(c)
  <2>1. pc[c] = "put" /\ pc'[c] = After(c, got[c]) /\ cut' = cut
    BY <1>7 DEF PutMeta, Step, TypeOK, pastVars
  <2>2. /\ pc'[c] \in {"readFrom", "report", "done"}
        /\ pc'[c] = "readFrom" => req[c].kind = "swap" /\ req[c].amount <= got[c]
    BY <1>2, <2>1, AfterType
  <2>3. PICK b \in Accounts : b = key[c]
    BY <1>2
  <2>4. Write(b, Record(got[c]), {c})
    BY <1>7, <2>3 DEF PutMeta
  <2>5. Balance(b)' = got[c]
    BY <1>2, <2>4, CellTypes, WriteEffect
  <2>6. Counted(c)'
    BY <1>3, <2>1, <2>2, <2>3, <2>5 DEF Counted, Plain, Balance, CallInv, PlainKey
  <2>7. PlainKey(c)' /\ CutFor(c)' /\ AnswerIn(c)'
    BY <1>3, <1>6, <2>1, <2>2 DEF CallInv, PlainKey, CutFor, AnswerIn, Plain
  <2> QED BY <1>3, <1>5, <2>6, <2>7 DEF CauseInv, CallInv
<1>8. CASE PutFrom(c)
  <2>1. /\ pc[c] = "putFrom" /\ pc'[c] = "readVault" 
        /\ cut' = IF got[c] < req[c].amount THEN cut \cup {c} ELSE cut
    BY <1>8 DEF PutFrom, Step, TypeOK
  <2>2. got[c] < req[c].amount => c \in disturbed \/ IsEth(req[c].from)
    BY <1>1, <1>2, <1>3, <2>1 DEF CallInv, Counted, Plain
  <2>3. CutFor(c)'
    BY <1>3, <1>6, <2>1, <2>2 DEF CallInv, CutFor
  <2>4. PlainKey(c)' /\ Counted(c)' /\ AnswerIn(c)'
    BY <1>3, <2>1 DEF CallInv, PlainKey, Counted, AnswerIn, Plain
  <2> QED BY <1>3, <1>5, <2>3, <2>4 DEF CauseInv, CallInv
<1>9. CASE PutVault(c)
  <2>1. pc[c] = "putVault" /\ pc'[c] = "report" /\ cut' = cut
    BY <1>9 DEF PutVault, Step, TypeOK
  <2>2. PlainKey(c)' /\ Counted(c)' /\ AnswerIn(c)' /\ CutFor(c)'
    BY <1>3, <1>6, <2>1 DEF CallInv, PlainKey, Counted, AnswerIn, CutFor, Plain
  <2> QED BY <1>3, <1>5, <2>2 DEF CauseInv, CallInv
<1> QED BY <1>7, <1>8, <1>9

LEMMA CauseStep == TypeOK /\ CauseInv /\ [Next]_vars => CauseInv'
<1> SUFFICES ASSUME TypeOK, CauseInv, [Next]_vars PROVE CauseInv'
  OBVIOUS
<1> USE DEF NoWrite, callVars, pastVars, totals
<1>1. ASSUME dead \subseteq dead', crashes' = 0 => dead' = {}, cut' = cut, UNCHANGED callVars,
             \/ UNCHANGED <<cell, disturbed>>
             \/ \E a \in Accounts, v \in Cell : \E W : W = {} /\ Write(a, v, W)
      PROVE  CauseInv'
  <2> SUFFICES ASSUME NEW d \in Calls PROVE CallInv(d)'
    BY <1>1 DEF CauseInv
  <2>1. CallInv(d) /\ pc'[d] = pc[d] /\ req'[d] = req[d] /\ key'[d] = key[d] /\ got'[d] = got[d]
    BY <1>1 DEF CauseInv
  <2>2. \/ UNCHANGED <<cell, disturbed>>
        \/ \E a \in Accounts, v \in Cell : \E W : d \notin W /\ Write(a, v, W)
    BY <1>1
  <2> QED BY <1>1, <2>1, <2>2, CallStays
<1>2. ASSUME NEW a \in Senders \cup {Vault}, Crawl(a) PROVE CauseInv'
  <2>1. a \in Accounts /\ core[a] \in Nat
    BY CoreType DEF Accounts
  <2>2. Number(core[a]) \in Cell
    BY <2>1, CellTypes
  <2>3. Write(a, Number(core[a]), {}) /\ UNCHANGED <<callVars, dead, cut, crashes>>
    BY <1>2 DEF Crawl
  <2> QED BY <1>1, <2>1, <2>2, <2>3 DEF CauseInv
<1>3. ASSUME NEW a \in Senders \cup {Vault}, NEW v \in Reports, Change(a, v) PROVE CauseInv'
  BY <1>1, <1>3 DEF Change, CauseInv
<1>4. ASSUME NEW w \in Wallets, NewWallet(w) PROVE CauseInv'
  BY <1>1, <1>4 DEF NewWallet, CauseInv
<1>5. CASE Crash
  <2>1. /\ crashes' = crashes + 1 /\ crashes \in Nat /\ dead \subseteq dead'
        /\ UNCHANGED <<cell, disturbed, callVars, cut>>
    BY <1>5 DEF Crash, TypeOK
  <2>2. crashes' # 0
    BY <2>1
  <2> QED BY <1>1, <2>1, <2>2
<1>6. ASSUME NEW c \in Calls, NEW r \in Request, Start(c, r) PROVE CauseInv'
  <2>1. /\ pc[c] = "idle" /\ pc' = [pc EXCEPT ![c] = "meta"]
        /\ req' = [req EXCEPT ![c] = r] /\ key' = [key EXCEPT ![c] = KeyOf(r)]
        /\ UNCHANGED <<cell, disturbed, got, dead, cut, crashes>>
    BY <1>6 DEF Start, Step
  <2>2. \A d \in Calls \ {c} : CallInv(d)'
    <3> TAKE d \in Calls \ {c}
    <3>1. pc'[d] = pc[d] /\ req'[d] = req[d] /\ key'[d] = key[d] /\ got'[d] = got[d]
      BY <2>1 DEF TypeOK
    <3> QED BY <2>1, <3>1, CallStays DEF CauseInv
  <2>3. pc'[c] = "meta" /\ req'[c] = r /\ key'[c] = KeyOf(r)
    BY <2>1 DEF TypeOK
  <2>4. PlainKey(c)'
    BY <2>3, KeyType DEF PlainKey, Plain, TypeOK
  <2>5. c \notin cut
    BY <2>1 DEF CauseInv, CallInv, CutFor
  <2>6. Counted(c)' /\ CutFor(c)' /\ AnswerIn(c)'
    BY <2>1, <2>3, <2>5 DEF Counted, CutFor, AnswerIn
  <2> QED BY <2>1, <2>2, <2>4, <2>6 DEF CauseInv, CallInv
<1>7. CASE UNCHANGED vars
  BY <1>1, <1>7 DEF vars, CauseInv
<1> QED
  BY <1>2, <1>3, <1>4, <1>5, <1>6, <1>7, CauseReading, CauseWriting DEF Next, Reading

\* For any number of requests and crashes: a swap whose debit was cut at zero was
\* disturbed on its way or came under a 0x address.
THEOREM CutsHaveCause == Spec => []CutNeedsCause
<1>1. TypeOK /\ CauseInv => CutNeedsCause
  BY DEF CauseInv, CallInv, CutFor, CutNeedsCause, TypeOK
<1> QED
  BY <1>1, CacheInit, TypeStep, CauseInit, CauseStep, PTL DEF Spec

-----------------------------------------------------------------------------
(* Undisturbed requests implement the swap book *)

LEMMA BookInit == Init => Swaps!Init
<1> SUFFICES ASSUME Init PROVE Swaps!Init
  OBVIOUS
<1>1. \A a \in Accounts : Balance(a) + (IF a = Vault THEN debited - credited ELSE 0) = 0
  BY DEF Init, Balance, Empty
<1> QED BY <1>1 DEF Swaps!Init, Book

\* What only its readers see leaves the book as it is.
LEMMA BookStays ==
  ASSUME UNCHANGED <<cell, debited, credited>>
  PROVE  UNCHANGED Book
  BY DEF Book, Balance

\* A key that takes over what the Core says.
LEMMA BookTakesOver ==
  ASSUME TypeOK, NEW a \in Accounts, NEW v \in Cell, NEW W, Write(a, v, W), UNCHANGED totals,
         Pending' = Pending, Calm,
         (IF v.shape = "record" THEN v.value ELSE 0) \in Reports \cup {0}
  PROVE  UNCHANGED Book \/ Swaps!Next
<1> DEFINE n == IF v.shape = "record" THEN v.value ELSE 0
<1>1. /\ Balance(a)' = n /\ \A b \in Accounts : b # a => Balance(b)' = Balance(b)
      /\ debited' = debited /\ credited' = credited /\ debited \in Nat /\ credited \in Nat
      /\ n \in Nat
  <2>1. \A m \in Reports \cup {0} : m \in Nat
    OBVIOUS
  <2> QED BY <2>1, WriteEffect DEF totals, TypeOK
<1>2. CASE a = Vault /\ debited # credited
  <2>1. cell'[Vault] = cell[Vault]
    BY <1>2 DEF Calm
  <2>2. cell' = cell
    BY <1>2, <2>1 DEF Write, TypeOK
  <2> QED BY <1>1, <2>2, BookStays
<1>3. CASE a # Vault \/ debited = credited
  <2> HIDE DEF n
  <2>1. \A b \in Accounts : Book'[b] = IF b = a THEN n ELSE Book[b]
    BY <1>1, <1>3 DEF Book
  <2>2. Book' = [Book EXCEPT ![a] = n]
    BY <2>1 DEF Book
  <2>3. Swaps!TakeOver(a)
    BY <2>2 DEF Swaps!TakeOver, n
  <2> QED BY <2>3 DEF Swaps!Next
<1> QED BY <1>2, <1>3

\* In a calm step nothing has been disturbed and nobody is dead.
LEMMA CalmCall ==
  ASSUME TypeOK, CauseInv, NEW c \in Calls, Calm, pc[c] # "idle",
         req' = req, pc'[c] # "done", disturbed \subseteq disturbed', crashes' = crashes
  PROVE  c \notin disturbed \cup dead /\ Plain(c) /\ Counted(c)
<1>1. disturbed = {} /\ dead = {}
  BY DEF Calm, CauseInv
<1>2. req[c] # NoReq
  BY DEF TypeOK
<1> QED BY <1>1, <1>2 DEF Calm, CauseInv, CallInv, Plain

LEMMA BookDebits ==
  ASSUME TypeOK, CauseInv, NEW c \in Calls, PutFrom(c), Calm
  PROVE  UNCHANGED Book \/ Swaps!Next
<1>1. /\ pc[c] = "putFrom" /\ pc'[c] = "readVault" /\ req' = req /\ crashes' = crashes
      /\ debited' = debited + req[c].amount /\ credited' = credited
      /\ Write(req[c].from, Record(Debit(got[c], req[c].amount)), {c})
  BY DEF PutFrom, Step, TypeOK
<1>2. /\ req[c].amount \in Nat /\ got[c] \in Nat /\ req[c].from \in Accounts
      /\ debited \in Nat /\ credited \in Nat /\ Vault \in Accounts
  BY <1>1, UnderWay DEF TypeOK, Accounts
<1>3. Counted(c) /\ c \notin disturbed \cup dead /\ Plain(c)
  BY <1>1, CalmCall DEF Write
<1>4. got[c] = Balance(req[c].from) /\ req[c].amount <= got[c]
  BY <1>1, <1>3 DEF Counted
<1>5. PICK a \in Accounts, m \in Nat, v \in Nat :
          a = req[c].from /\ m = req[c].amount /\ v = got[c] - m
  BY <1>2, <1>4
<1>6. /\ Write(a, Record(v), {c}) /\ v = Balance(a) - m /\ m <= Balance(a)
      /\ debited' = debited + m /\ credited' = credited
  BY <1>1, <1>2, <1>4, <1>5 DEF Debit
<1>7. Balance(a)' = v /\ \A b \in Accounts : b # a => Balance(b)' = Balance(b)
  BY <1>6, CellTypes, WriteEffect
<1>8. \A b \in Accounts : Balance(b) \in Nat
  BY BalanceType
<1>9. \A b \in Accounts :
          a # Vault =>
             Book'[b] = IF b = a THEN Book[a] - m ELSE IF b = Vault THEN Book[Vault] + m ELSE Book[b]
  BY <1>2, <1>6, <1>7, <1>8 DEF Book
<1>10. CASE a = Vault
  <2>1. \A b \in Accounts :
            Balance(b)' + (IF b = Vault THEN debited' - credited' ELSE 0)
              = Balance(b) + (IF b = Vault THEN debited - credited ELSE 0)
    BY <1>2, <1>6, <1>7, <1>8, <1>10
  <2> QED BY <2>1 DEF Book
<1>11. CASE a # Vault
  <2>1. Book' = [Book EXCEPT ![a] = Book[a] - m, ![Vault] = Book[Vault] + m]
    BY <1>2, <1>6, <1>9, <1>11 DEF Book
  <2>2. m \in 0 .. Book[a]
    BY <1>6, <1>8, <1>11 DEF Book
  <2>3. Swaps!Swap(a, m)
    BY <1>6, <1>11, <2>1, <2>2, <1>2 DEF Swaps!Swap, Book
  <2> QED BY <2>2, <2>3 DEF Swaps!Next
<1> QED BY <1>10, <1>11

LEMMA BookCredits ==
  ASSUME TypeOK, CauseInv, NEW c \in Calls, PutVault(c), Calm
  PROVE  UNCHANGED Book
<1>1. /\ pc[c] = "putVault" /\ pc'[c] = "report" /\ req' = req /\ crashes' = crashes
      /\ debited' = debited /\ credited' = credited + req[c].amount
      /\ Write(Vault, Record(got[c] + req[c].amount), {c})
  BY DEF PutVault, Step, TypeOK
<1>2. /\ req[c].amount \in Nat /\ got[c] \in Nat /\ Vault \in Accounts
      /\ debited \in Nat /\ credited \in Nat
  BY <1>1, UnderWay DEF TypeOK, Accounts
<1>3. got[c] = Balance(Vault)
  <2>1. Counted(c) /\ c \notin disturbed \cup dead
    BY <1>1, CalmCall DEF Write
  <2> QED BY <1>1, <2>1 DEF Counted
<1>4. /\ Balance(Vault)' = got[c] + req[c].amount
      /\ \A b \in Accounts : b # Vault => Balance(b)' = Balance(b)
  <2>1. PICK v \in Nat : v = got[c] + req[c].amount
    BY <1>2
  <2> QED BY <1>1, <1>2, <2>1, CellTypes, WriteEffect
<1>5. \A b \in Accounts :
          Balance(b)' + (IF b = Vault THEN debited' - credited' ELSE 0)
            = Balance(b) + (IF b = Vault THEN debited - credited ELSE 0)
  BY <1>1, <1>2, <1>3, <1>4
<1> QED BY <1>5 DEF Book

LEMMA BookStep ==
  TypeOK /\ CauseInv /\ [Next]_vars => [Calm => UNCHANGED Book \/ Swaps!Next]_vars
<1> SUFFICES ASSUME TypeOK, CauseInv, Next, Calm PROVE UNCHANGED Book \/ Swaps!Next
  OBVIOUS
<1>1. ASSUME NEW a \in Senders \cup {Vault}, Crawl(a) PROVE UNCHANGED Book \/ Swaps!Next
  <2>1. a \in Accounts /\ core[a] \in Nat
    BY CoreType DEF Accounts
  <2>2. Write(a, Number(core[a]), {}) /\ UNCHANGED totals /\ pc' = pc
    BY <1>1 DEF Crawl, pastVars, callVars
  <2>3. Number(core[a]) \in Cell /\ Number(core[a]).shape # "record" /\ Pending' = Pending
    BY <2>1, <2>2, CellTypes DEF Pending
  <2> QED BY <2>1, <2>2, <2>3, BookTakesOver
<1>2. ASSUME NEW c \in Calls, PutMeta(c) PROVE UNCHANGED Book \/ Swaps!Next
  <2>1. /\ pc[c] = "put" /\ pc' = [pc EXCEPT ![c] = After(c, got[c])]
        /\ Write(key[c], Record(got[c]), {c}) /\ UNCHANGED totals
    BY <1>2 DEF PutMeta, Step, pastVars
  <2>2. key[c] \in Accounts /\ got[c] \in Nat /\ req[c] \in Request
    BY <2>1, UnderWay
  <2>3. After(c, got[c]) \in {"readFrom", "report", "done"}
    BY <2>2, AfterType
  <2>4. Pending' = Pending
    BY <2>1, <2>3 DEF Pending, TypeOK
  <2>5. CASE got[c] \in Reports \cup {0}
    <3>1. PICK a \in Accounts, v \in Cell :
              a = key[c] /\ v = Record(got[c]) /\ v.shape = "record" /\ v.value = got[c]
      BY <2>2, CellTypes
    <3> QED BY <2>1, <2>4, <2>5, <3>1, BookTakesOver
  <2>6. CASE got[c] \notin Reports \cup {0}
    <3>1. disturbed = {} /\ dead = {} /\ Counted(c) /\ AnswerIn(c)
      BY <1>2 DEF Calm, CauseInv, CallInv, Write, PutMeta, pastVars
    <3>2. got[c] = Balance(key[c])
      BY <2>1, <2>6, <3>1 DEF Counted, AnswerIn
    <3>3. PICK a \in Accounts, v \in Cell :
              a = key[c] /\ v = Record(got[c]) /\ v.shape = "record" /\ v.value = got[c]
      BY <2>2, CellTypes
    <3>4. \A b \in Accounts : Balance(b)' = Balance(b)
      BY <2>1, <3>2, <3>3, WriteEffect
    <3> QED BY <2>1, <3>4 DEF Book, totals
  <2> QED BY <2>5, <2>6
<1>3. ASSUME NEW c \in Calls, PutFrom(c) \/ PutVault(c) PROVE UNCHANGED Book \/ Swaps!Next
  BY <1>3, BookDebits, BookCredits
<1>4. ASSUME NEW c \in Calls, Reading(c) PROVE UNCHANGED Book
  BY <1>4, ReadingTypes, BookStays DEF pastVars, totals
<1>5. ASSUME NEW c \in Calls, NEW r \in Request, Start(c, r) PROVE UNCHANGED Book
  BY <1>5, BookStays DEF Start, NoWrite, pastVars, totals
<1>6. ASSUME NEW a, NEW v, Change(a, v) PROVE UNCHANGED Book
  BY <1>6, BookStays DEF Change, NoWrite, totals
<1>7. ASSUME Crash \/ \E w \in Wallets : NewWallet(w) PROVE UNCHANGED Book
  BY <1>7, BookStays DEF Crash, NewWallet, NoWrite, pastVars, totals
<1> QED
  BY <1>1, <1>2, <1>3, <1>4, <1>5, <1>6, <1>7 DEF Next, Reading

\* Step by step, for any number of requests: as long as they do not get in each
\* other's way, checking, debiting and crediting implement the swap book, in which
\* a swap moves at one stroke what its sender has.
THEOREM ImplementsBook == Spec => KeepsBook
  BY CacheInit, TypeStep, CauseInit, CauseStep, BookInit, BookStep, PTL DEF Spec, KeepsBook
=============================================================================
