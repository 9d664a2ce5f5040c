------------------------- MODULE HistoryCacheProofs -------------------------
(***************************************************************************)
(* Proofs about the address histories, for every chain, every set of       *)
(* requests and wallets and every number of crashes.                       *)
(***************************************************************************)
EXTENDS HistoryCache, TLAPS

USE HistoryAssumption, IdentityAssumption

AliasNames == {Alias(u) : u \in Aliases}

Sides == {1, 2}

-----------------------------------------------------------------------------
(* The registry leads to names of the same wallet *)

LEMMA NameShape ==
  /\ \A w \in Wallets : /\ Native(w) \in Names \ AliasNames /\ Native(w)[2] = w
                        /\ Eth(w) \in Names \ AliasNames /\ Eth(w)[2] = w
                        /\ Nexus(w) \in Names \ AliasNames /\ Nexus(w)[2] = w
  /\ AliasNames \subseteq Names
  /\ \A w, v \in Wallets : Native(w) # Eth(v) /\ Native(w) # Nexus(v) /\ Eth(w) # Nexus(v)
  BY DEF Names, AliasNames, Native, Eth, Nexus, Alias

IdInv == \A q \in Names \ AliasNames : identity[q] # NoName =>
             identity[q] \in Names \ AliasNames /\ identity[q][2] = q[2]

LEMMA WalletKeeps ==
  ASSUME IdentityOK, IdInv, NEW w \in Wallets, NEW u \in Aliases \cup {NoName}, CreateWallet(w, u)
  PROVE  IdentityOK' /\ IdInv'
<1>1. \A q \in Names : identity'[q] =
          CASE q \in {Eth(w), Nexus(w)}       -> Native(w)
            [] q = Native(w)                  -> Eth(w)
            [] u # NoName /\ q = Alias(u)     -> Native(w)
            [] OTHER                          -> identity[q]
  BY DEF CreateWallet
<1>2. \A q \in Names : \/ identity'[q] = identity[q]
                       \/ q \in {Eth(w), Nexus(w)} /\ identity'[q] = Native(w)
                       \/ q = Native(w) /\ identity'[q] = Eth(w)
                       \/ q \in AliasNames /\ identity'[q] = Native(w)
  <2> SUFFICES ASSUME NEW q \in Names
               PROVE  \/ identity'[q] = identity[q]
                      \/ q \in {Eth(w), Nexus(w)} /\ identity'[q] = Native(w)
                      \/ q = Native(w) /\ identity'[q] = Eth(w)
                      \/ q \in AliasNames /\ identity'[q] = Native(w)
    OBVIOUS
  <2>0. u # NoName => Alias(u) \notin {Eth(w), Nexus(w), Native(w)}
    BY NameShape DEF AliasNames
  <2>1. CASE q \in {Eth(w), Nexus(w)}
    BY <1>1, <2>0, <2>1, NameShape
  <2>2. CASE q = Native(w)
    BY <1>1, <2>0, <2>2, NameShape
  <2>3. CASE u # NoName /\ q = Alias(u) /\ q \notin {Eth(w), Nexus(w), Native(w)}
    BY <1>1, <2>3 DEF AliasNames
  <2>4. CASE ~(u # NoName /\ q = Alias(u)) /\ q \notin {Eth(w), Nexus(w), Native(w)}
    BY <1>1, <2>4
  <2> QED BY <2>1, <2>2, <2>3, <2>4
<1>3. IdentityOK'
  <2>1. identity' = [q \in Names |-> identity'[q]]
    BY DEF CreateWallet
  <2>2. \A q \in Names : identity'[q] \in Names \cup {NoName}
    BY <1>2, NameShape DEF IdentityOK
  <2> QED BY <2>1, <2>2 DEF IdentityOK
<1>4. IdInv'
  BY <1>2, NameShape DEF IdInv
<1> QED BY <1>3, <1>4

LEMMA OwnOfName ==
  /\ \A n \in AliasNames : Own(n) = Txs
  /\ \A n, m \in Names \ AliasNames : n[2] = m[2] => Own(n) = Own(m)
  /\ \A n \in Names : Own(n) \subseteq Txs
  /\ \A n \in Names, t \in Txs, s \in Sides : Parties[t][s] = n => t \in Own(n)
  BY DEF Own, AliasNames, Sides

LEMMA Resolution ==
  ASSUME IdentityOK, IdInv, NEW q \in Names
  PROVE  ResolveToBVM(q) \in Names /\ Own(ResolveToBVM(q)) \subseteq Own(q)
<1>1. ResolveToBVM(q) \in Names
  BY DEF ResolveToBVM, IdentityOK
<1>2. CASE q \in AliasNames
  BY <1>1, <1>2, OwnOfName
<1>3. CASE q \notin AliasNames
  BY <1>1, <1>3, OwnOfName DEF ResolveToBVM, IdInv
<1> QED BY <1>1, <1>2, <1>3

-----------------------------------------------------------------------------
(* Types, and that no list holds a transaction of another wallet *)

LEMMA TxShape ==
  /\ Txs = 1 .. Len(Parties) /\ Len(Parties) \in Nat
  /\ \A t \in Txs, s \in Sides : Parties[t][s] \in Names
<1>1. Txs = 1 .. Len(Parties) /\ Len(Parties) \in Nat
  BY DEF Txs
<1>2. \A t \in 1 .. Len(Parties) : Parties[t] \in Names \X Names
  OBVIOUS
<1> QED BY <1>1, <1>2 DEF Sides

\* A name stands for one of the same wallet; a request that has not begun has no list.
QueryInv ==
    \A c \in Calls : /\ pc[c] # "idle" => Own(key[c]) \subseteq Own(query[c])
                     /\ pc[c] = "idle" => list[c] = {}

CacheInv == TypeOK /\ IdInv /\ QueryInv

\* While the crawler is at work its block is one of the Core's.
LEMMA AtWork ==
  ASSUME TypeOK, done < mined, side <= 2
  PROVE  tx \in Txs /\ party \in Names /\ tx \in Own(party) /\ done \in Nat /\ mined \in Nat
<1>1. tx \in Txs /\ side \in Sides /\ done \in Nat /\ mined \in Nat
  BY TxShape DEF TypeOK, tx, Sides
<1> QED BY <1>1, TxShape, OwnOfName DEF party

LEMMA CacheInit == Init => CacheInv
<1> SUFFICES ASSUME Init PROVE CacheInv
  OBVIOUS
<1>1. IdentityOK /\ IdInv
  BY DEF Init, IdentityInit, IdentityOK, IdInv
<1>2. TypeOK
  BY <1>1, TxShape DEF Init, TypeOK
<1>3. QueryInv
  BY DEF Init, QueryInv
<1> QED BY <1>1, <1>2, <1>3 DEF CacheInv

\* A request that moves on without a new query, with a list of its wallet, and
\* may store such a list under a name.
LEMMA CallMoves ==
  ASSUME CacheInv, NEW c \in Calls, pc[c] # "idle",
         NEW to \in {"ask", "put", "copy", "done"}, pc' = [pc EXCEPT ![c] = to],
         NEW l \in SUBSET Own(key[c]), list' = [list EXCEPT ![c] = l],
         hist' \in [Names -> SUBSET Txs], \A n \in Names : hist'[n] \subseteq Own(n),
         UNCHANGED <<identity, mined, crawlVars, query, key, crashes>>
  PROVE  CacheInv'
<1>1. query[c] \in Names /\ key[c] \in Names
  BY DEF CacheInv, TypeOK
<1>2. Own(key[c]) \subseteq Txs
  BY <1>1, OwnOfName
<1>3. /\ pc' \in [Calls -> {"idle", "read", "ask", "put", "copy", "done"}]
      /\ list' \in [Calls -> SUBSET Txs]
  BY <1>2 DEF CacheInv, TypeOK
<1>4. \A d \in Calls : pc'[d] # "idle" =>
          query[d] \in Names /\ key[d] \in Names /\ list'[d] \subseteq Own(key[d])
  BY <1>1 DEF CacheInv, TypeOK
<1>5. IdentityOK' /\ IdInv'
  BY DEF CacheInv, TypeOK, IdentityOK, IdInv
<1>6. TypeOK'
  BY <1>3, <1>4, <1>5 DEF CacheInv, TypeOK, crawlVars, party, tx
<1>7. QueryInv'
  BY DEF CacheInv, QueryInv, TypeOK
<1> QED BY <1>5, <1>6, <1>7 DEF CacheInv

LEMMA CacheStep == CacheInv /\ [Next]_vars => CacheInv'
<1> SUFFICES ASSUME CacheInv, [Next]_vars PROVE CacheInv'
  OBVIOUS
<1> USE DEF crawlVars, callVars
<1>1. ASSUME Mine PROVE CacheInv'
  <2>1. mined \in Nat /\ mined' \in 0 .. Len(Parties) /\ mined' = mined + 1
    BY <1>1, TxShape DEF Mine, CacheInv, TypeOK
  <2> QED
    BY <1>1, <2>1, TxShape DEF Mine, CacheInv, TypeOK, IdentityOK, IdInv, QueryInv, party, tx
<1>2. ASSUME NEW w \in Wallets, NEW u \in Aliases \cup {NoName}, NewWallet(w, u) PROVE CacheInv'
  <2>1. IdentityOK' /\ IdInv'
    BY <1>2, WalletKeeps DEF NewWallet, CacheInv, TypeOK
  <2> QED
    BY <1>2, <2>1 DEF NewWallet, CacheInv, TypeOK, QueryInv, party, tx
<1>3. ASSUME CrawlGet PROVE CacheInv'
  <2>1. party \in Names /\ done < mined /\ side \in Sides /\ tx \in Own(party)
    BY <1>3, AtWork DEF CrawlGet, CacheInv, TypeOK, Sides
  <2>2. hist[party] \subseteq Own(party)
    BY <2>1 DEF CacheInv, TypeOK
  <2>3. CASE tx \in hist[party]
    BY <1>3, <2>1, <2>3
    DEF CrawlGet, NextParty, CacheInv, TypeOK, IdentityOK, IdInv, QueryInv, party, tx, Sides
  <2>4. CASE tx \notin hist[party]
    BY <1>3, <2>1, <2>2, <2>4
    DEF CrawlGet, CacheInv, TypeOK, IdentityOK, IdInv, QueryInv, party, tx, Sides
  <2> QED BY <2>3, <2>4
<1>4. ASSUME CrawlPut PROVE CacheInv'
  <2>1. done < mined /\ side \in Sides /\ copy \subseteq Own(party)
    BY <1>4 DEF CrawlPut, CacheInv, TypeOK, Sides
  <2>2. party \in Names /\ tx \in Own(party)
    BY <2>1, AtWork DEF CacheInv, TypeOK, Sides
  <2>3. hist' \in [Names -> SUBSET Txs] /\ \A n \in Names : hist'[n] \subseteq Own(n)
    <3>1. PICK older \in Kept : hist' = [hist EXCEPT ![party] = older \cup {tx}]
      BY <1>4 DEF CrawlPut
    <3> QED BY <2>1, <2>2, <3>1, OwnOfName DEF Kept, CacheInv, TypeOK
  <2> QED
    BY <1>4, <2>1, <2>3 DEF CrawlPut, NextParty, CacheInv, TypeOK, IdentityOK, IdInv, QueryInv, Sides
<1>5. ASSUME Commit PROVE CacheInv'
  BY <1>5, TxShape DEF Commit, CacheInv, TypeOK, IdentityOK, IdInv, QueryInv
<1>6. ASSUME Crash PROVE CacheInv'
  <2>1. /\ pc' \in [Calls -> {"idle", "read", "ask", "put", "copy", "done"}]
        /\ \A c \in Calls : (pc'[c] = "idle") = (pc[c] = "idle")
    BY <1>6 DEF Crash
  <2>2. crashes' \in 0 .. MaxCrashes /\ side' = 1 /\ held' = "none"
        /\ UNCHANGED <<identity, mined, hist, done, query, key, list>>
    BY <1>6 DEF Crash, CacheInv, TypeOK
  <2> QED
    BY <2>1, <2>2 DEF CacheInv, TypeOK, IdentityOK, IdInv, QueryInv
<1>7. ASSUME NEW c \in Calls, NEW q \in Queries, Start(c, q) PROVE CacheInv'
  <2>1. q \in Names /\ ResolveToBVM(q) \in Names /\ Own(ResolveToBVM(q)) \subseteq Own(q)
    BY Resolution DEF CacheInv, TypeOK
  <2>2. /\ pc[c] = "idle" /\ pc' = [pc EXCEPT ![c] = "read"]
        /\ query' = [query EXCEPT ![c] = q] /\ key' = [key EXCEPT ![c] = ResolveToBVM(q)]
        /\ UNCHANGED <<identity, mined, hist, crawlVars, list, crashes>>
    BY <1>7 DEF Start, Step
  <2>3. /\ pc' \in [Calls -> {"idle", "read", "ask", "put", "copy", "done"}]
        /\ query' \in [Calls -> Names \cup {NoName}] /\ key' \in [Calls -> Names \cup {NoName}]
    BY <2>1, <2>2 DEF CacheInv, TypeOK
  <2>4. /\ pc'[c] = "read" /\ query'[c] = q /\ key'[c] = ResolveToBVM(q) /\ list'[c] = {}
        /\ \A d \in Calls \ {c} : /\ pc'[d] = pc[d] /\ query'[d] = query[d]
                                  /\ key'[d] = key[d] /\ list'[d] = list[d]
    BY <2>2 DEF CacheInv, TypeOK, QueryInv
  <2>5. TypeOK'
    BY <2>1, <2>2, <2>3, <2>4 DEF CacheInv, TypeOK, IdentityOK, party, tx
  <2>6. IdInv' /\ QueryInv'
    BY <2>1, <2>2, <2>4 DEF CacheInv, IdInv, QueryInv
  <2> QED BY <2>5, <2>6 DEF CacheInv
<1>8. ASSUME NEW c \in Calls, Read(c) PROVE CacheInv'
  <2>1. key[c] \in Names /\ pc[c] # "idle"
    BY <1>8 DEF Read, Step, CacheInv, TypeOK
  <2> QED
    BY <1>8, <2>1, CallMoves DEF Read, Step, Then, CacheInv, TypeOK
<1>9. ASSUME NEW c \in Calls, Ask(c) PROVE CacheInv'
  <2> DEFINE answer == {t \in 1 .. mined : \E s \in {1, 2} : Parties[t][s] = key[c]}
  <2>1. key[c] \in Names /\ pc[c] # "idle"
    BY <1>9 DEF Ask, Step, CacheInv, TypeOK
  <2>2. answer \subseteq Own(key[c])
    BY <2>1, TxShape, OwnOfName DEF CacheInv, TypeOK, Sides
  <2>3. /\ \E to \in {"put", "done"} : pc' = [pc EXCEPT ![c] = to]
        /\ list' = [list EXCEPT ![c] = answer]
        /\ UNCHANGED <<identity, mined, hist, crawlVars, query, key, crashes>>
    BY <1>9 DEF Ask, Step
  <2> HIDE DEF answer
  <2> QED
    BY <2>1, <2>2, <2>3, CallMoves DEF CacheInv, TypeOK
<1>10. ASSUME NEW c \in Calls, AskFails(c) PROVE CacheInv'
  <2>1. pc[c] # "idle" /\ list[c] \subseteq Own(key[c]) /\ list' = [list EXCEPT ![c] = list[c]]
    BY <1>10 DEF AskFails, Step, CacheInv, TypeOK
  <2> QED
    BY <1>10, <2>1, CallMoves DEF AskFails, Step, CacheInv, TypeOK
<1>11. ASSUME NEW c \in Calls, Put(c) \/ PutCopy(c) PROVE CacheInv'
  <2>1. pc[c] # "idle" /\ list[c] \subseteq Own(key[c]) /\ list' = [list EXCEPT ![c] = list[c]]
    BY <1>11 DEF Put, PutCopy, Step, CacheInv, TypeOK
  <2>2. PICK n \in {key[c], query[c]} : hist' = [hist EXCEPT ![n] = list[c]]
    BY <1>11 DEF Put, PutCopy
  <2>3. n \in Names /\ list[c] \subseteq Own(n) /\ list[c] \subseteq Txs
    BY <2>1 DEF CacheInv, TypeOK, QueryInv
  <2>4. hist' \in [Names -> SUBSET Txs] /\ \A m \in Names : hist'[m] \subseteq Own(m)
    BY <2>2, <2>3 DEF CacheInv, TypeOK
  <2>5. /\ \E to \in {"copy", "done"} : pc' = [pc EXCEPT ![c] = to]
        /\ UNCHANGED <<identity, mined, crawlVars, query, key, crashes>>
    BY <1>11 DEF Put, PutCopy, Step, Then
  <2> QED
    BY <2>1, <2>4, <2>5, CallMoves
<1>12. CASE UNCHANGED vars
  BY <1>12 DEF vars, CacheInv, TypeOK, IdentityOK, IdInv, QueryInv, party, tx
<1> QED
  BY <1>1, <1>2, <1>3, <1>4, <1>5, <1>6, <1>7, <1>8, <1>9, <1>10, <1>11, <1>12 DEF Next

\* For every set of wallets and requests, no history and no answer ever holds a
\* transaction of another wallet.
THEOREM TypeCorrect == Spec => []TypeOK
  BY CacheInit, CacheStep, PTL DEF Spec, CacheInv

-----------------------------------------------------------------------------
(* What the crawler has entered *)

\* The crawler has entered t for n, and Safe: it is in S or may be overwritten.
Claimed(n, t) == \E s \in Sides : Parties[t][s] = n /\ (t <= done \/ (t = tx /\ s < side))

Safe(n, S) == \A t \in Txs : Claimed(n, t) => t \in S \/ <<n, t>> \in cut \cup overwritten

\* Whatever is in the store, or on its way into it, is safe.
KeepInv ==
    /\ side > 1 => done < mined
    /\ \A n \in Names : Safe(n, hist[n])
    /\ held = "got" => Safe(party, copy)
    /\ \A c \in Calls : pc[c] = "put" => Safe(key[c], list[c])

LEMMA NothingClaimed == Init => KeepInv
<1> SUFFICES ASSUME Init PROVE KeepInv
  OBVIOUS
<1>1. \A n \in Names, t \in Txs : ~Claimed(n, t)
  BY TxShape DEF Init, Claimed, Sides
<1> QED BY <1>1 DEF Init, KeepInv, Safe

\* Without new claims what is safe stays safe.
LEMMA SafeStays ==
  ASSUME done' = done, side' = side, cut \subseteq cut', overwritten \subseteq overwritten',
         NEW n, NEW S
  PROVE  Safe(n, S) => Safe(n, S)'
  BY DEF Safe, Claimed, tx

\* The claims after the crawler is done with a party.
LEMMA ClaimsGrow ==
  ASSUME TypeOK, done < mined, side <= 2, done' = done, side' = side + 1
  PROVE  \A n, t : Claimed(n, t)' => Claimed(n, t) \/ (n = party /\ t = tx)
  BY DEF TypeOK, Claimed, party, tx, Sides

\* Then a history is safe that was and has the transaction, and so is what a
\* request is going to store, because NextParty records what it lacks.
LEMMA PartyDone ==
  ASSUME CacheInv, KeepInv, done < mined, side <= 2, NextParty, done' = done,
         UNCHANGED callVars, hist' \in [Names -> SUBSET Txs], held' = "none", cut \subseteq cut',
         \A n \in Names \ {party} : hist'[n] = hist[n],
         \A t \in Txs : Claimed(party, t) => t \in hist'[party] \/ <<party, t>> \in cut' \cup overwritten,
         tx \in hist'[party], UNCHANGED mined
  PROVE  KeepInv'
<1>1. /\ side' = side + 1 /\ overwritten \subseteq overwritten'
      /\ \A c \in Calls : pc[c] = "put" /\ key[c] = party /\ tx \notin list[c]
            => <<party, tx>> \in overwritten'
  BY DEF NextParty
<1>2. \A n, t : Claimed(n, t)' => Claimed(n, t) \/ (n = party /\ t = tx)
  BY <1>1, ClaimsGrow DEF CacheInv
<1>3. \A n \in Names : Safe(n, hist[n])'
  BY <1>1, <1>2 DEF Safe, KeepInv
<1>4. \A c \in Calls : pc'[c] = "put" => Safe(key[c], list[c])'
  BY <1>1, <1>2 DEF Safe, KeepInv, callVars
<1> QED BY <1>3, <1>4 DEF KeepInv

\* A request that moves on: it stores, or is going to store, what is safe.
LEMMA CallKeeps ==
  ASSUME CacheInv, KeepInv, NEW c \in Calls,
         UNCHANGED <<mined, crawlVars>>, overwritten \subseteq overwritten',
         \A n \in Names : Safe(n, hist[n])',
         \A d \in Calls \ {c} : pc'[d] = pc[d] /\ key'[d] = key[d] /\ list'[d] = list[d],
         pc'[c] = "put" => Safe(key[c], list[c])'
  PROVE  KeepInv'
<1>1. \A n, S : Safe(n, S) => Safe(n, S)'
  BY SafeStays DEF crawlVars
<1>2. held' = "got" => Safe(party, copy)'
  BY <1>1 DEF KeepInv, crawlVars, party, tx
<1>3. \A d \in Calls : pc'[d] = "put" => Safe(key[d], list[d])'
  BY <1>1 DEF KeepInv
<1> QED BY <1>2, <1>3 DEF KeepInv, crawlVars

LEMMA KeepStep == CacheInv /\ KeepInv /\ [Next]_vars => KeepInv'
<1> SUFFICES ASSUME CacheInv, KeepInv, [Next]_vars PROVE KeepInv'
  OBVIOUS
<1> USE DEF callVars
<1>1. ASSUME Mine \/ (\E w \in Wallets : \E u \in Aliases \cup {NoName} : NewWallet(w, u))
             \/ UNCHANGED vars
      PROVE  KeepInv'
  <2>1. /\ UNCHANGED <<hist, crawlVars, callVars, overwritten>>
        /\ done < mined => done < mined'
    BY <1>1 DEF Mine, NewWallet, vars, CacheInv, TypeOK
  <2>2. \A n, S : Safe(n, S) => Safe(n, S)'
    BY <2>1, SafeStays DEF crawlVars
  <2> QED
    BY <2>1, <2>2 DEF KeepInv, crawlVars, party, tx
<1>2. ASSUME CrawlGet PROVE KeepInv'
  <2>1. /\ done < mined /\ side <= 2 /\ party \in Names /\ held = "none"
        /\ UNCHANGED <<mined, hist, done, cut, pc, query, key, list>>
    BY <1>2, AtWork DEF CrawlGet, CacheInv, TypeOK
  <2>2. CASE tx \in hist[party]
    <3>1. NextParty /\ held' = "none"
      BY <1>2, <2>1, <2>2 DEF CrawlGet
    <3> QED
      BY <2>1, <2>2, <3>1, PartyDone DEF KeepInv, Safe, CacheInv, TypeOK
  <2>3. CASE tx \notin hist[party]
    <3>1. copy' = hist[party] /\ UNCHANGED <<side, overwritten>>
      BY <1>2, <2>3 DEF CrawlGet
    <3>2. \A n, S : Safe(n, S) => Safe(n, S)'
      BY <2>1, <3>1, SafeStays
    <3> QED
      BY <2>1, <3>1, <3>2 DEF KeepInv, party, tx
  <2> QED BY <2>2, <2>3
<1>3. ASSUME CrawlPut PROVE KeepInv'
  <2>1. /\ held = "got" /\ NextParty
        /\ held' = "none" /\ UNCHANGED <<mined, done, callVars>>
    BY <1>3 DEF CrawlPut
  <2>6. PICK older \in SUBSET copy : /\ hist' = [hist EXCEPT ![party] = older \cup {tx}]
                                     /\ cut' = cut \cup {<<party, t>> : t \in copy \ older}
    BY <1>3 DEF CrawlPut, Kept
  <2>2. done < mined /\ side <= 2 /\ side \in 1 .. 3 /\ copy \subseteq Own(party)
    BY <2>1 DEF CacheInv, TypeOK
  <2>3. party \in Names /\ tx \in Txs /\ Own(party) \subseteq Txs
    BY <2>2, AtWork, OwnOfName DEF CacheInv
  <2>4. /\ hist' \in [Names -> SUBSET Txs] /\ hist'[party] = older \cup {tx}
        /\ \A n \in Names \ {party} : hist'[n] = hist[n]
    BY <2>2, <2>3, <2>6 DEF CacheInv, TypeOK
  <2>5. \A t \in Txs : Claimed(party, t) => t \in hist'[party] \/ <<party, t>> \in cut' \cup overwritten
    BY <2>1, <2>4, <2>6 DEF KeepInv, Safe
  <2> QED
    BY <2>1, <2>2, <2>4, <2>5, <2>6, PartyDone
<1>4. ASSUME Commit PROVE KeepInv'
  <2>1. /\ side = 3 /\ done' = done + 1 /\ side' = 1 /\ held # "got" /\ held' = held
        /\ UNCHANGED <<mined, hist, callVars, cut, overwritten>> /\ done \in Nat
    BY <1>4, TxShape DEF Commit, CacheInv, TypeOK
  <2>2. \A n, t : t \in Txs /\ Claimed(n, t)' => Claimed(n, t)
    BY <2>1, TxShape DEF Claimed, tx, Sides
  <2>3. \A n, S : Safe(n, S) => Safe(n, S)'
    BY <2>1, <2>2 DEF Safe
  <2> QED
    BY <2>1, <2>3 DEF KeepInv
<1>5. ASSUME Crash PROVE KeepInv'
  <2>1. /\ side' = 1 /\ held' = "none" /\ \A c \in Calls : pc'[c] # "put"
        /\ UNCHANGED <<mined, hist, done, cut, overwritten>>
    BY <1>5 DEF Crash
  <2>2. \A n, t : t \in Txs /\ Claimed(n, t)' => Claimed(n, t)
    BY <2>1, TxShape DEF Claimed, tx, Sides, CacheInv, TypeOK
  <2>3. \A n, S : Safe(n, S) => Safe(n, S)'
    BY <2>1, <2>2 DEF Safe
  <2> QED
    BY <2>1, <2>3 DEF KeepInv
<1>6. ASSUME NEW c \in Calls, NEW q \in Queries, Start(c, q) PROVE KeepInv'
  <2>1. \A n \in Names : Safe(n, hist[n])'
    BY <1>6, SafeStays DEF Start, crawlVars, KeepInv
  <2> QED
    BY <1>6, <2>1, CallKeeps DEF Start, Step, CacheInv, TypeOK
<1>7. ASSUME NEW c \in Calls, Read(c) \/ AskFails(c) PROVE KeepInv'
  <2>1. \A n \in Names : Safe(n, hist[n])'
    BY <1>7, SafeStays DEF Read, AskFails, crawlVars, KeepInv
  <2>2. pc'[c] # "put"
    BY <1>7 DEF Read, AskFails, Step, Then, CacheInv, TypeOK
  <2> QED
    BY <1>7, <2>1, <2>2, CallKeeps DEF Read, AskFails, Step, CacheInv, TypeOK
<1>8. ASSUME NEW c \in Calls, Ask(c) PROVE KeepInv'
  <2> DEFINE answer == {t \in 1 .. mined : \E s \in {1, 2} : Parties[t][s] = key[c]}
  <2>1. /\ list' = [list EXCEPT ![c] = answer]
        /\ \E to \in {"put", "done"} : pc' = [pc EXCEPT ![c] = to]
        /\ UNCHANGED <<mined, hist, crawlVars, key, overwritten>>
    BY <1>8 DEF Ask, Step
  <2>2. \A n \in Names : Safe(n, hist[n])'
    BY <2>1, SafeStays DEF crawlVars, KeepInv
  <2>3. Safe(key[c], answer)
    BY TxShape DEF Safe, Claimed, Sides, KeepInv, CacheInv, TypeOK, tx
  <2>4. list'[c] = answer
    BY <2>1 DEF CacheInv, TypeOK
  <2> HIDE DEF answer
  <2>5. Safe(key[c], list[c])'
    BY <2>1, <2>3, <2>4 DEF Safe, Claimed, tx, crawlVars
  <2> QED
    BY <2>1, <2>2, <2>5, CallKeeps DEF CacheInv, TypeOK
<1>9. ASSUME NEW c \in Calls, Put(c) PROVE KeepInv'
  <2>1. /\ pc[c] = "put" /\ hist' = [hist EXCEPT ![key[c]] = list[c]]
        /\ \E to \in {"copy", "done"} : pc' = [pc EXCEPT ![c] = to]
        /\ UNCHANGED <<mined, crawlVars, key, list, overwritten>>
    BY <1>9 DEF Put, Step, Then
  <2>2. \A n \in Names : Safe(n, hist'[n])
    BY <2>1 DEF KeepInv, CacheInv, TypeOK
  <2>3. \A n \in Names : Safe(n, hist[n])'
    BY <2>1, <2>2 DEF Safe, Claimed, tx, crawlVars
  <2> QED
    BY <2>1, <2>3, CallKeeps DEF CacheInv, TypeOK
<1>10. ASSUME NEW c \in Calls, PutCopy(c) PROVE KeepInv'
  <2>1. /\ hist' = [hist EXCEPT ![query[c]] = list[c]] /\ pc' = [pc EXCEPT ![c] = "done"]
        /\ overwritten' = overwritten \cup {<<query[c], t>> : t \in 1 .. tx}
        /\ UNCHANGED <<mined, crawlVars, key, list>>
    BY <1>10 DEF PutCopy, Step
  <2>2. \A t \in Txs : Claimed(query[c], t) => t \in 1 .. tx
    BY TxShape DEF Claimed, tx, CacheInv, TypeOK
  <2>3. \A n \in Names : Safe(n, hist[n])'
    <3> SUFFICES ASSUME NEW n \in Names PROVE Safe(n, hist[n])'
      OBVIOUS
    <3>1. CASE n = query[c]
      BY <2>1, <2>2, <3>1 DEF Safe, Claimed, tx, crawlVars
    <3>2. CASE n # query[c]
      <4>1. hist'[n] = hist[n] /\ Safe(n, hist[n])
        BY <2>1, <3>2 DEF KeepInv, CacheInv, TypeOK
      <4> QED
        BY <2>1, <4>1 DEF Safe, Claimed, tx, crawlVars
    <3> QED BY <3>1, <3>2
  <2> QED
    BY <2>1, <2>3, CallKeeps DEF CacheInv, TypeOK
<1> QED
  BY <1>1, <1>2, <1>3, <1>4, <1>5, <1>6, <1>7, <1>8, <1>9, <1>10 DEF Next

\* For every chain, every overlap of requests with the crawler and every crash:
\* what a committed block has entered is in both histories, unless a request has
\* stored an older answer of the Core or a copied list over it.
THEOREM EntriesKept == Spec => []NothingLost
<1>1. CacheInv /\ KeepInv => NothingLost
  <2> SUFFICES ASSUME CacheInv, KeepInv, NEW t \in 1 .. done, NEW s \in Sides
               PROVE  /\ Parties[t][s] \in Names
                      /\ t \in hist[Parties[t][s]] \/ <<Parties[t][s], t>> \in cut \cup overwritten
    BY DEF NothingLost, Sides
  <2>1. t \in Txs /\ t <= done
    BY TxShape DEF CacheInv, TypeOK
  <2>2. Parties[t][s] \in Names /\ Claimed(Parties[t][s], t)
    BY <2>1, TxShape DEF Claimed
  <2> QED
    BY <2>1, <2>2 DEF KeepInv, Safe
<1> QED
  BY <1>1, CacheInit, CacheStep, NothingClaimed, KeepStep, PTL DEF Spec
=============================================================================
