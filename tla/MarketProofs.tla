---------------------------- MODULE MarketProofs ----------------------------
(***************************************************************************)
(* Proofs about the market, for every set of assets, wallets and requests, *)
(* and every number of listings and faults.                                *)
(***************************************************************************)
EXTENDS Market, TLAPS

USE MarketAssumption, IdentityAssumption

Moving == {"pay", "resolve", "putItem", "getIds", "putIds", "unlist"}

\* What a request has chosen at each stage; a buyer's listing is not a later one.
StageInv ==
    \A c \in Calls :
        /\ pc[c] \in {"idle", "fetch", "repair"} => seen[c] = 0
        /\ pc[c] \in {"idle", "pay"} => dest[c] = NoName
        /\ pc[c] \notin {"idle", "done"} => owner[c] # NoName
        /\ pc[c] \in Moving => asset[c] \in Assets /\ item[c] \in Items
        /\ seen[c] > 0 => asset[c] \in Assets /\ seen[c] <= listings[asset[c]]

\* What is on its way into a list is stored, and so is what has been listed.
ListInv ==
    /\ ListedIsStored
    /\ \A c \in Calls :
          /\ pc[c] \in {"getIds", "putIds", "unlist"} => items[dest[c]][asset[c]] # NoItem
          /\ pc[c] = "putIds" => \A a \in copy[c] : items[dest[c]][a] # NoItem

MarketInv == TypeOK /\ StageInv /\ ListInv /\ SoldIsOffShelf

-----------------------------------------------------------------------------
(* The registry keeps its type *)

LEMMA WalletTypes ==
  ASSUME IdentityOK, NEW w \in Wallets, NEW u \in Aliases \cup {NoName}, CreateWallet(w, u)
  PROVE  IdentityOK'
<1>1. /\ Native(w) \in Names /\ Eth(w) \in Names
      /\ identity' = [q \in Names |->
          CASE q \in {Eth(w), Nexus(w)}       -> Native(w)
            [] q = Native(w)                  -> Eth(w)
            [] u # NoName /\ q = Alias(u)     -> Native(w)
            [] OTHER                          -> identity[q]]
  BY DEF CreateWallet, Names
<1>2. \A q \in Names : identity'[q] \in {Native(w), Eth(w), identity[q]}
  BY <1>1
<1> QED BY <1>1, <1>2 DEF IdentityOK

LEMMA ResolvedType ==
  ASSUME IdentityOK, NEW q \in Names
  PROVE  ResolveToBVM(q) \in Names
  BY DEF ResolveToBVM, IdentityOK

LEMMA MarketInit == Init => MarketInv
<1> SUFFICES ASSUME Init PROVE MarketInv
  OBVIOUS
<1>1. TypeOK
  BY DEF Init, TypeOK, IdentityInit, IdentityOK, Unset, Nothing, Items, NoItem, Stages
<1>2. StageInv
  BY DEF Init, StageInv, Moving, Unset
<1>3. ListInv /\ SoldIsOffShelf
  BY DEF Init, ListInv, ListedIsStored, SoldIsOffShelf, Delivered, IsBuy
<1> QED BY <1>1, <1>2, <1>3 DEF MarketInv

-----------------------------------------------------------------------------
(* Types *)

LEMMA TypeStep == TypeOK /\ StageInv /\ [Next]_vars => TypeOK'
<1> SUFFICES ASSUME TypeOK, StageInv, [Next]_vars PROVE TypeOK'
  OBVIOUS
<1> USE DEF moveVars, listVars, worldVars
<1>1. ASSUME NEW a \in Assets, List(a) PROVE TypeOK'
  <2>1. listings' \in [Assets -> 0 .. MaxListings]
    BY <1>1 DEF List, TypeOK
  <2> QED BY <1>1, <2>1 DEF List, TypeOK, IdentityOK
<1>2. ASSUME NEW p \in Purchases, Purchase(p) PROVE TypeOK'
  BY <1>2 DEF Purchase, TypeOK, IdentityOK
<1>3. ASSUME NEW w \in Wallets, NEW u \in Aliases \cup {NoName}, NewWallet(w, u) PROVE TypeOK'
  <2>1. IdentityOK'
    BY <1>3, WalletTypes DEF NewWallet, TypeOK
  <2> QED BY <1>3, <2>1 DEF NewWallet, TypeOK
<1>4. ASSUME NEW c \in Calls, NEW q \in Buyers, NEW a \in Assets, Look(c, q, a) PROVE TypeOK'
  <2>1. q \in Names /\ listings[a] \in 0 .. MaxListings
    BY DEF TypeOK
  <2>2. /\ pc' = [pc EXCEPT ![c] = "pay"] /\ who' = [who EXCEPT ![c] = q]
        /\ owner' = [owner EXCEPT ![c] = q] /\ asset' = [asset EXCEPT ![c] = a]
        /\ item' = [item EXCEPT ![c] = "bought"] /\ seen' = [seen EXCEPT ![c] = listings[a]]
        /\ spoilt' \subseteq spoilt \cup {a}
        /\ UNCHANGED <<shelf, items, ids, dest, copy, todo, fetched, paid, identity, chain, dead,
                       listings, faults>>
    BY <1>4 DEF Look, Find, Step
  <2>3. /\ pc' \in [Calls -> Stages] /\ seen' \in [Calls -> 0 .. MaxListings]
        /\ item' \in [Calls -> Items \cup {NoItem}] /\ asset' \in [Calls -> Assets \cup {NoName}]
        /\ who' \in [Calls -> Names \cup {NoName}] /\ owner' \in [Calls -> Names \cup {NoName}]
    BY <2>1, <2>2 DEF TypeOK, Items, Stages
  <2>4. \A d \in Calls : /\ pc'[d] = pc[d] \/ pc'[d] = "pay"
                         /\ owner'[d] = owner[d] \/ pc'[d] = "pay"
    BY <2>2 DEF TypeOK
  <2> QED BY <2>2, <2>3, <2>4 DEF TypeOK, IdentityOK
<1>5. ASSUME NEW c \in Calls, Pay(c) \/ PayRefused(c) \/ EndRepair(c) PROVE TypeOK'
  <2>1. /\ pc[c] \notin {"idle", "done"}
        /\ \E to \in {"resolve", "done"} : pc' = [pc EXCEPT ![c] = to]
        /\ paid' \subseteq paid \cup {c}
        /\ UNCHANGED <<shelf, items, ids, moveVars, listVars, worldVars>>
    BY <1>5 DEF Pay, PayRefused, EndRepair, Step
  <2>2. owner[c] # NoName
    BY <2>1 DEF StageInv
  <2> QED BY <2>1, <2>2 DEF TypeOK, IdentityOK, Stages
<1>6. ASSUME NEW c \in Calls, PayLost(c) PROVE TypeOK'
  <2>1. /\ pc[c] = "pay" /\ pc' = [pc EXCEPT ![c] = "done"] /\ paid' = paid \cup {c}
        /\ faults < MaxFaults /\ faults' = faults + 1 /\ spoilt' = spoilt \cup {asset[c]}
        /\ UNCHANGED <<shelf, items, ids, moveVars, listVars, identity, chain, dead, listings>>
    BY <1>6 DEF PayLost, Step, Fault
  <2>2. asset[c] \in Assets /\ faults' \in 0 .. MaxFaults
    BY <2>1 DEF StageInv, Moving, TypeOK
  <2> QED BY <2>1, <2>2 DEF TypeOK, IdentityOK, Stages
<1>7. ASSUME NEW c \in Calls, Resolve(c) PROVE TypeOK'
  <2>1. /\ pc[c] = "resolve" /\ pc' = [pc EXCEPT ![c] = "putItem"]
        /\ dest' = [dest EXCEPT ![c] = ResolveToBVM(owner[c])]
        /\ UNCHANGED <<shelf, items, ids, who, asset, item, owner, listVars, paid, worldVars>>
    BY <1>7 DEF Resolve, Step
  <2>2. owner[c] \in Names
    BY <2>1 DEF TypeOK
  <2>3. ResolveToBVM(owner[c]) \in Names
    BY <2>2, ResolvedType DEF TypeOK
  <2>4. ResolveToBVM(owner[c]) # NoName
    BY <2>3
  <2> HIDE DEF listVars, worldVars
  <2>5. dest' \in [Calls -> Names \cup {NoName}] /\ pc' \in [Calls -> Stages]
    BY <2>1, <2>3 DEF TypeOK, Stages
  <2>6. \A d \in Calls : /\ pc'[d] \in {"resolve", "putItem", "getIds", "putIds", "unlist"} => owner[d] # NoName
                         /\ pc'[d] \in {"putItem", "getIds", "putIds", "unlist"} => dest'[d] # NoName
    BY <2>1, <2>2, <2>4 DEF TypeOK
  <2> QED BY <2>1, <2>5, <2>6 DEF TypeOK, IdentityOK, listVars, worldVars
<1>8. ASSUME NEW c \in Calls, PutItem(c) \/ GetIds(c) \/ PutIds(c) \/ Unlist(c) PROVE TypeOK'
  <2>1. /\ pc[c] \in {"putItem", "getIds", "putIds", "unlist"}
        /\ \E to \in {"getIds", "putIds", "unlist", "done", "repair"} : pc' = [pc EXCEPT ![c] = to]
        /\ UNCHANGED <<who, asset, item, owner, dest, todo, fetched, seen, paid, worldVars>>
    BY <1>8 DEF PutItem, GetIds, PutIds, Unlist, Step
  <2>2. /\ owner[c] # NoName /\ dest[c] \in Names /\ asset[c] \in Assets /\ item[c] \in Items
    BY <2>1 DEF TypeOK, StageInv, Moving
  <2>3. /\ items' \in [Names -> [Assets -> Items \cup {NoItem}]] /\ ids' \in [Names -> SUBSET Assets]
        /\ copy' \in [Calls -> SUBSET Assets] /\ shelf' \subseteq Assets
    <3>1. CASE PutItem(c)
      <4>1. /\ items' = [items EXCEPT ![dest[c]][asset[c]] = item[c]] /\ UNCHANGED <<ids, copy, shelf>>
        BY <3>1 DEF PutItem
      <4>2. items' \in [Names -> [Assets -> Items \cup {NoItem}]]
        BY <4>1, <2>2 DEF TypeOK
      <4> QED BY <4>1, <4>2 DEF TypeOK
    <3>2. CASE GetIds(c)
      BY <3>2, <2>2 DEF GetIds, TypeOK
    <3>3. CASE PutIds(c)
      BY <3>3, <2>2 DEF PutIds, TypeOK
    <3>4. CASE Unlist(c)
      BY <3>4 DEF Unlist, TypeOK
    <3> QED BY <1>8, <3>1, <3>2, <3>3, <3>4
  <2>4. pc' \in [Calls -> Stages]
    BY <2>1 DEF TypeOK, Stages
  <2>5. \A d \in Calls : /\ pc'[d] = pc[d] \/ (d = c /\ owner[d] # NoName /\ dest[d] # NoName)
    BY <2>1, <2>2 DEF TypeOK
  <2> QED BY <2>1, <2>3, <2>4, <2>5 DEF TypeOK, IdentityOK
<1>9. ASSUME NEW c \in Calls, NEW q \in Buyers, StartRepair(c, q) PROVE TypeOK'
  <2>1. /\ pc' = [pc EXCEPT ![c] = "fetch"] /\ who' = [who EXCEPT ![c] = q]
        /\ owner' = [owner EXCEPT ![c] = ResolveToBVM(q)]
        /\ UNCHANGED <<shelf, items, ids, asset, item, dest, listVars, paid, worldVars>>
    BY <1>9 DEF StartRepair, Step
  <2>2. q \in Names /\ ResolveToBVM(q) \in Names /\ ResolveToBVM(q) # NoName
    BY ResolvedType DEF TypeOK
  <2>3. /\ pc' \in [Calls -> Stages] /\ who' \in [Calls -> Names \cup {NoName}]
        /\ owner' \in [Calls -> Names \cup {NoName}]
    BY <2>1, <2>2 DEF TypeOK, Stages
  <2>4. pc'[c] = "fetch" /\ \A d \in Calls \ {c} : pc'[d] = pc[d] /\ owner'[d] = owner[d]
    BY <2>1 DEF TypeOK
  <2> QED BY <2>1, <2>3, <2>4 DEF TypeOK, IdentityOK
<1>10. ASSUME NEW c \in Calls, Fetch(c) PROVE TypeOK'
  <2> DEFINE bought == {a \in Assets : <<owner[c], a>> \in chain}
  <2>1. /\ pc' = [pc EXCEPT ![c] = "repair"] /\ todo' = [todo EXCEPT ![c] = bought]
        /\ fetched' = [fetched EXCEPT ![c] = bought]
        /\ UNCHANGED <<shelf, items, ids, moveVars, copy, seen, paid, worldVars>>
    BY <1>10 DEF Fetch, Step
  <2>2. bought \subseteq Assets
    OBVIOUS
  <2> HIDE DEF bought
  <2> QED BY <2>1, <2>2 DEF TypeOK, IdentityOK, Stages
<1>11. ASSUME NEW c \in Calls, FetchFails(c) PROVE TypeOK'
  <2>1. /\ pc' = [pc EXCEPT ![c] = "done"] /\ faults' \in 0 .. MaxFaults /\ spoilt' = spoilt
        /\ UNCHANGED <<shelf, items, ids, moveVars, listVars, paid, identity, chain, dead, listings>>
    BY <1>11 DEF FetchFails, Step, Fault, TypeOK
  <2> QED BY <2>1 DEF TypeOK, IdentityOK, Stages
<1>12. ASSUME NEW c \in Calls, Recover(c) PROVE TypeOK'
  <2>1. PICK a \in todo[c] :
          /\ pc[c] = "repair" /\ pc' = [pc EXCEPT ![c] = "resolve"]
          /\ todo' = [todo EXCEPT ![c] = todo[c] \ {a}] /\ asset' = [asset EXCEPT ![c] = a]
          /\ item' = [item EXCEPT ![c] = "recovered"]
          /\ UNCHANGED <<shelf, items, ids, who, owner, dest, copy, fetched, seen, paid, worldVars>>
    BY <1>12 DEF Recover, Step
  <2>2. a \in Assets /\ todo[c] \subseteq Assets /\ owner[c] # NoName
    BY <2>1 DEF TypeOK, StageInv
  <2> QED BY <2>1, <2>2 DEF TypeOK, IdentityOK, Stages, Items
<1>13. CASE Crash
  <2>1. /\ faults' \in 0 .. MaxFaults /\ dead' \subseteq Calls /\ paid' \subseteq Calls
        /\ spoilt' \subseteq spoilt \cup {asset[c] : c \in {d \in Calls : IsBuy(d)}}
        /\ UNCHANGED <<shelf, items, ids, pc, moveVars, listVars, identity, chain, listings>>
    BY <1>13 DEF Crash, Fault, TypeOK
  <2>2. \A c \in Calls : IsBuy(c) => asset[c] \in Assets
    BY DEF IsBuy, StageInv
  <2> QED BY <2>1, <2>2 DEF TypeOK, IdentityOK
<1>14. CASE UNCHANGED vars
  BY <1>14 DEF vars, TypeOK, IdentityOK
<1> QED
  BY <1>1, <1>2, <1>3, <1>4, <1>5, <1>6, <1>7, <1>8, <1>9, <1>10, <1>11, <1>12, <1>13, <1>14 DEF Next

-----------------------------------------------------------------------------
(* Stages *)

LEMMA StageStep == TypeOK /\ StageInv /\ [Next]_vars => StageInv'
<1> SUFFICES ASSUME TypeOK, StageInv, [Next]_vars PROVE StageInv'
  OBVIOUS
<1> USE DEF moveVars, listVars, worldVars
<1>1. ASSUME NEW a \in Assets, List(a) PROVE StageInv'
  <2>1. \A b \in Assets : listings[b] <= listings'[b]
    BY <1>1 DEF List, TypeOK
  <2>2. UNCHANGED <<pc, dest, asset, item, owner, seen>>
    BY <1>1 DEF List
  <2>3. \A c \in Calls : seen[c] \in Nat
    BY DEF TypeOK
  <2>4. \A b \in Assets : listings[b] \in Nat /\ listings'[b] \in Nat
    BY <1>1 DEF List, TypeOK
  <2> QED BY <2>1, <2>2, <2>3, <2>4 DEF StageInv
<1>2. ASSUME UNCHANGED <<pc, dest, asset, item, owner, seen, listings>> PROVE StageInv'
  BY <1>2 DEF StageInv
<1>3. ASSUME NEW c \in Calls, NEW q \in Buyers, NEW a \in Assets, Look(c, q, a) PROVE StageInv'
  <2>1. /\ pc[c] = "idle" /\ pc' = [pc EXCEPT ![c] = "pay"] /\ owner' = [owner EXCEPT ![c] = q]
        /\ asset' = [asset EXCEPT ![c] = a] /\ item' = [item EXCEPT ![c] = "bought"]
        /\ seen' = [seen EXCEPT ![c] = listings[a]] /\ UNCHANGED <<dest, listings>>
    BY <1>3 DEF Look, Find, Step
  <2>2. /\ pc'[c] = "pay" /\ owner'[c] = q /\ asset'[c] = a /\ item'[c] = "bought"
        /\ seen'[c] = listings[a] /\ q # NoName /\ listings[a] \in Nat /\ dest[c] = NoName
    BY <2>1 DEF TypeOK, StageInv
  <2>3. \A d \in Calls \ {c} : /\ pc'[d] = pc[d] /\ owner'[d] = owner[d] /\ asset'[d] = asset[d]
                               /\ item'[d] = item[d] /\ seen'[d] = seen[d]
    BY <2>1 DEF TypeOK
  <2> QED BY <2>1, <2>2, <2>3 DEF StageInv, Moving, Items
<1>4. ASSUME NEW c \in Calls, Pay(c) \/ PayRefused(c) \/ PayLost(c) PROVE StageInv'
  <2>1. /\ pc[c] = "pay" /\ \E to \in {"resolve", "done"} : pc' = [pc EXCEPT ![c] = to]
        /\ UNCHANGED <<dest, asset, item, owner, seen, listings>>
    BY <1>4 DEF Pay, PayRefused, PayLost, Step, Fault
  <2> QED BY <2>1 DEF TypeOK, StageInv, Moving
<1>5. ASSUME NEW c \in Calls, Resolve(c) PROVE StageInv'
  <2>1. /\ pc[c] = "resolve" /\ pc' = [pc EXCEPT ![c] = "putItem"]
        /\ \E n : dest' = [dest EXCEPT ![c] = n]
        /\ UNCHANGED <<asset, item, owner, seen, listings>>
    BY <1>5 DEF Resolve, Step
  <2> QED BY <2>1 DEF TypeOK, StageInv, Moving
<1>6. ASSUME NEW c \in Calls, PutItem(c) \/ GetIds(c) \/ PutIds(c) \/ Unlist(c) PROVE StageInv'
  <2>1. /\ pc[c] \in {"putItem", "getIds", "putIds", "unlist"}
        /\ \E to \in {"getIds", "putIds", "unlist", "done", "repair"} :
              pc' = [pc EXCEPT ![c] = to] /\ (to = "repair" => ~IsBuy(c))
        /\ UNCHANGED <<dest, asset, item, owner, seen, listings>>
    BY <1>6 DEF PutItem, GetIds, PutIds, Unlist, Step
  <2>2. ~IsBuy(c) => seen[c] = 0
    BY DEF IsBuy, TypeOK
  <2> QED BY <2>1, <2>2 DEF TypeOK, StageInv, Moving
<1>7. ASSUME NEW c \in Calls, NEW q \in Buyers, StartRepair(c, q) PROVE StageInv'
  <2>1. /\ pc[c] = "idle" /\ pc' = [pc EXCEPT ![c] = "fetch"]
        /\ owner' = [owner EXCEPT ![c] = ResolveToBVM(q)]
        /\ UNCHANGED <<dest, asset, item, seen, listings>>
    BY <1>7 DEF StartRepair, Step
  <2>2. ResolveToBVM(q) # NoName
    BY ResolvedType DEF TypeOK
  <2> QED BY <2>1, <2>2 DEF TypeOK, StageInv, Moving
<1>8. ASSUME NEW c \in Calls, Fetch(c) \/ FetchFails(c) \/ EndRepair(c) PROVE StageInv'
  <2>1. /\ pc[c] \in {"fetch", "repair"} /\ \E to \in {"repair", "done"} : pc' = [pc EXCEPT ![c] = to]
        /\ UNCHANGED <<dest, asset, item, owner, seen, listings>>
    BY <1>8 DEF Fetch, FetchFails, EndRepair, Step, Fault
  <2> QED BY <2>1 DEF TypeOK, StageInv, Moving
<1>9. ASSUME NEW c \in Calls, Recover(c) PROVE StageInv'
  <2>1. PICK a \in todo[c] :
          /\ pc[c] = "repair" /\ pc' = [pc EXCEPT ![c] = "resolve"]
          /\ asset' = [asset EXCEPT ![c] = a] /\ item' = [item EXCEPT ![c] = "recovered"]
          /\ UNCHANGED <<owner, dest, seen, listings>>
    BY <1>9 DEF Recover, Step
  <2>2. a \in Assets /\ seen[c] = 0
    BY <2>1 DEF TypeOK, StageInv
  <2>3. /\ pc'[c] = "resolve" /\ asset'[c] = a /\ item'[c] = "recovered"
        /\ \A d \in Calls \ {c} : pc'[d] = pc[d] /\ asset'[d] = asset[d] /\ item'[d] = item[d]
    BY <2>1 DEF TypeOK
  <2> QED BY <2>1, <2>2, <2>3 DEF StageInv, Moving, Items
<1> QED
  BY <1>1, <1>2, <1>3, <1>4, <1>5, <1>6, <1>7, <1>8, <1>9
  DEF Next, Purchase, NewWallet, Crash, Fault, vars

-----------------------------------------------------------------------------
(* Lists and the shelf *)

LEMMA ListStep == TypeOK /\ StageInv /\ ListInv /\ [Next]_vars => ListInv'
<1> SUFFICES ASSUME TypeOK, StageInv, ListInv, [Next]_vars PROVE ListInv'
  OBVIOUS
<1> USE DEF moveVars, listVars, worldVars
<1>1. ASSUME UNCHANGED <<items, ids, dest, copy>>, NEW c \in Calls,
             \A d \in Calls \ {c} : pc'[d] = pc[d] /\ asset'[d] = asset[d],
             pc'[c] \notin {"getIds", "putIds", "unlist"}
      PROVE  ListInv'
  BY <1>1 DEF ListInv, ListedIsStored
<1>2. ASSUME UNCHANGED <<items, ids, dest, copy, pc, asset>> PROVE ListInv'
  BY <1>2 DEF ListInv, ListedIsStored
<1>3. ASSUME NEW c \in Calls, NEW q \in Buyers, NEW a \in Assets, Look(c, q, a) PROVE ListInv'
  <2>1. /\ pc' = [pc EXCEPT ![c] = "pay"] /\ asset' = [asset EXCEPT ![c] = a]
        /\ UNCHANGED <<items, ids, dest, copy>>
    BY <1>3 DEF Look, Find, Step
  <2> QED BY <2>1, <1>1 DEF TypeOK
<1>4. ASSUME NEW c \in Calls, \/ Pay(c) \/ PayRefused(c) \/ PayLost(c) \/ Fetch(c) \/ FetchFails(c)
                             \/ EndRepair(c) \/ Unlist(c)
      PROVE  ListInv'
  <2>1. /\ \E to \in {"resolve", "repair", "done"} : pc' = [pc EXCEPT ![c] = to]
        /\ UNCHANGED <<items, ids, dest, copy, asset>>
    BY <1>4 DEF Pay, PayRefused, PayLost, Fetch, FetchFails, EndRepair, Unlist, Step, Fault
  <2> QED BY <2>1, <1>1 DEF TypeOK
<1>5. ASSUME NEW c \in Calls, NEW q \in Buyers, StartRepair(c, q) PROVE ListInv'
  <2>1. pc' = [pc EXCEPT ![c] = "fetch"] /\ UNCHANGED <<items, ids, dest, copy, asset>>
    BY <1>5 DEF StartRepair, Step
  <2> QED BY <2>1, <1>1 DEF TypeOK
<1>6. ASSUME NEW c \in Calls, Recover(c) PROVE ListInv'
  <2>1. /\ pc' = [pc EXCEPT ![c] = "resolve"] /\ \E a : asset' = [asset EXCEPT ![c] = a]
        /\ UNCHANGED <<items, ids, dest, copy>>
    BY <1>6 DEF Recover, Step
  <2> QED BY <2>1, <1>1 DEF TypeOK
<1>7. ASSUME NEW c \in Calls, Resolve(c) PROVE ListInv'
  <2>1. /\ pc' = [pc EXCEPT ![c] = "putItem"] /\ \E n : dest' = [dest EXCEPT ![c] = n]
        /\ UNCHANGED <<items, ids, copy, asset>>
    BY <1>7 DEF Resolve, Step
  <2>2. pc'[c] = "putItem" /\ \A d \in Calls \ {c} : pc'[d] = pc[d] /\ dest'[d] = dest[d]
    BY <2>1 DEF TypeOK
  <2> QED BY <2>1, <2>2 DEF ListInv, ListedIsStored
<1>8. ASSUME NEW c \in Calls, PutItem(c) PROVE ListInv'
  <2>1. /\ pc[c] = "putItem" /\ pc' = [pc EXCEPT ![c] = "getIds"]
        /\ items' = [items EXCEPT ![dest[c]][asset[c]] = item[c]]
        /\ UNCHANGED <<ids, dest, copy, asset>>
    BY <1>8 DEF PutItem, Step
  <2>2. dest[c] \in Names /\ asset[c] \in Assets /\ item[c] # NoItem
    BY <2>1 DEF TypeOK, StageInv, Moving, Items, NoItem
  <2>3. /\ items'[dest[c]][asset[c]] # NoItem
        /\ \A n \in Names, a \in Assets : items[n][a] # NoItem => items'[n][a] # NoItem
    BY <2>1, <2>2 DEF TypeOK
  <2>4. pc'[c] = "getIds" /\ \A d \in Calls \ {c} : pc'[d] = pc[d]
    BY <2>1 DEF TypeOK
  <2>5. \A d \in Calls : pc[d] \in {"getIds", "putIds", "unlist"} =>
            dest[d] \in Names /\ asset[d] \in Assets /\ copy[d] \subseteq Assets
    BY DEF TypeOK, StageInv, Moving
  <2>6. \A n \in Names : ids[n] \subseteq Assets
    BY DEF TypeOK
  <2> QED BY <2>1, <2>3, <2>4, <2>5, <2>6 DEF ListInv, ListedIsStored
<1>9. ASSUME NEW c \in Calls, GetIds(c) PROVE ListInv'
  <2>1. /\ pc[c] = "getIds" /\ \E to \in {"putIds", "unlist"} : pc' = [pc EXCEPT ![c] = to]
        /\ copy' = [copy EXCEPT ![c] = ids[dest[c]]] /\ UNCHANGED <<items, ids, dest, asset>>
    BY <1>9 DEF GetIds, Step
  <2>2. /\ dest[c] \in Names /\ copy'[c] = ids[dest[c]]
        /\ \A d \in Calls \ {c} : pc'[d] = pc[d] /\ copy'[d] = copy[d]
    BY <2>1 DEF TypeOK
  <2> QED BY <2>1, <2>2 DEF ListInv, ListedIsStored
<1>10. ASSUME NEW c \in Calls, PutIds(c) PROVE ListInv'
  <2>1. /\ pc[c] = "putIds" /\ pc' = [pc EXCEPT ![c] = "unlist"]
        /\ ids' = [ids EXCEPT ![dest[c]] = copy[c] \cup {asset[c]}]
        /\ UNCHANGED <<items, dest, copy, asset>>
    BY <1>10 DEF PutIds, Step
  <2>2. /\ \A d \in Calls \ {c} : pc'[d] = pc[d] /\ pc'[c] = "unlist"
        /\ \A n \in Names : ids'[n] = ids[n] \/ (n = dest[c] /\ ids'[n] = copy[c] \cup {asset[c]})
    BY <2>1 DEF TypeOK
  <2> QED BY <2>1, <2>2 DEF ListInv, ListedIsStored
<1> QED
  BY <1>2, <1>3, <1>4, <1>5, <1>6, <1>7, <1>8, <1>9, <1>10
  DEF Next, List, Purchase, NewWallet, Crash, Fault, vars

LEMMA SaleStep == TypeOK /\ StageInv /\ SoldIsOffShelf /\ [Next]_vars => SoldIsOffShelf'
<1> SUFFICES ASSUME TypeOK, StageInv, SoldIsOffShelf, [Next]_vars PROVE SoldIsOffShelf'
  OBVIOUS
<1> USE DEF moveVars, listVars, worldVars, Delivered, IsBuy
\* Steps that deliver nothing and put nothing on the shelf.
<1>1. ASSUME shelf' \subseteq shelf, listings' = listings, NEW c \in Calls,
             \A d \in Calls \ {c} : /\ pc'[d] = pc[d] /\ asset'[d] = asset[d]
                                    /\ dest'[d] = dest[d] /\ seen'[d] = seen[d],
             pc'[c] # "done" \/ dest'[c] = NoName \/ ~(seen'[c] > 0) \/ asset'[c] \notin shelf'
      PROVE  SoldIsOffShelf'
  BY <1>1 DEF SoldIsOffShelf
<1>2. ASSUME UNCHANGED <<shelf, listings, pc, asset, dest, seen>> PROVE SoldIsOffShelf'
  BY <1>2 DEF SoldIsOffShelf
<1>3. ASSUME NEW a \in Assets, List(a) PROVE SoldIsOffShelf'
  <2>1. /\ shelf' = shelf \cup {a} /\ listings' = [listings EXCEPT ![a] = listings[a] + 1]
        /\ UNCHANGED <<pc, asset, dest, seen>>
    BY <1>3 DEF List
  <2> SUFFICES ASSUME NEW c \in Calls, Delivered(c), asset[c] \in shelf'
               PROVE  seen[c] < listings'[asset[c]]
    BY <2>1 DEF SoldIsOffShelf
  <2>2. asset[c] \in Assets /\ seen[c] <= listings[asset[c]] /\ seen[c] \in Nat
    BY DEF StageInv, TypeOK
  <2>3. listings[asset[c]] \in Nat /\ listings'[asset[c]] \in Nat
        /\ listings[asset[c]] <= listings'[asset[c]]
    BY <2>1, <2>2 DEF TypeOK
  <2>4. CASE asset[c] = a
    <3>1. listings'[a] = listings[a] + 1
      BY <2>1 DEF TypeOK
    <3> QED BY <3>1, <2>2, <2>3, <2>4
  <2>5. CASE asset[c] # a
    <3>1. asset[c] \in shelf
      BY <2>1, <2>5
    <3>2. seen[c] < listings[asset[c]]
      BY <3>1 DEF SoldIsOffShelf
    <3> QED BY <3>2, <2>2, <2>3
  <2> QED BY <2>4, <2>5
<1>4. ASSUME NEW c \in Calls, NEW q \in Buyers, NEW a \in Assets, Look(c, q, a) PROVE SoldIsOffShelf'
  <2>1. /\ pc' = [pc EXCEPT ![c] = "pay"] /\ asset' = [asset EXCEPT ![c] = a]
        /\ seen' = [seen EXCEPT ![c] = listings[a]] /\ UNCHANGED <<shelf, listings, dest>>
    BY <1>4 DEF Look, Find, Step
  <2> QED BY <2>1, <1>1 DEF TypeOK
<1>5. ASSUME NEW c \in Calls, NEW q \in Buyers, StartRepair(c, q) PROVE SoldIsOffShelf'
  <2>1. pc' = [pc EXCEPT ![c] = "fetch"] /\ UNCHANGED <<shelf, listings, asset, dest, seen>>
    BY <1>5 DEF StartRepair, Step
  <2> QED BY <2>1, <1>1 DEF TypeOK
<1>6. ASSUME NEW c \in Calls, PayRefused(c) \/ PayLost(c) \/ FetchFails(c) \/ EndRepair(c)
      PROVE  SoldIsOffShelf'
  <2>1. /\ pc[c] \in {"pay", "fetch", "repair"} /\ pc' = [pc EXCEPT ![c] = "done"]
        /\ UNCHANGED <<shelf, listings, asset, dest, seen>>
    BY <1>6 DEF PayRefused, PayLost, FetchFails, EndRepair, Step, Fault
  <2>2. dest[c] = NoName \/ seen[c] = 0
    BY <2>1 DEF StageInv
  <2> QED BY <2>1, <2>2, <1>1 DEF TypeOK
<1>7. ASSUME NEW c \in Calls, Pay(c) \/ PutItem(c) \/ GetIds(c) \/ PutIds(c) \/ Fetch(c)
      PROVE  SoldIsOffShelf'
  <2>1. /\ \E to \in {"resolve", "getIds", "putIds", "unlist", "repair"} : pc' = [pc EXCEPT ![c] = to]
        /\ UNCHANGED <<shelf, listings, asset, dest, seen>>
    BY <1>7 DEF Pay, PutItem, GetIds, PutIds, Fetch, Step
  <2> QED BY <2>1, <1>1 DEF TypeOK
<1>8. ASSUME NEW c \in Calls, Resolve(c) PROVE SoldIsOffShelf'
  <2>1. /\ pc' = [pc EXCEPT ![c] = "putItem"] /\ \E n : dest' = [dest EXCEPT ![c] = n]
        /\ UNCHANGED <<shelf, listings, asset, seen>>
    BY <1>8 DEF Resolve, Step
  <2> QED BY <2>1, <1>1 DEF TypeOK
<1>9. ASSUME NEW c \in Calls, Recover(c) PROVE SoldIsOffShelf'
  <2>1. /\ pc' = [pc EXCEPT ![c] = "resolve"] /\ \E a : asset' = [asset EXCEPT ![c] = a]
        /\ UNCHANGED <<shelf, listings, dest, seen>>
    BY <1>9 DEF Recover, Step
  <2> QED BY <2>1, <1>1 DEF TypeOK
<1>10. ASSUME NEW c \in Calls, Unlist(c) PROVE SoldIsOffShelf'
  <2>1. /\ \E to : pc' = [pc EXCEPT ![c] = to] /\ shelf' = shelf \ {asset[c]}
        /\ UNCHANGED <<listings, asset, dest, seen>>
    BY <1>10 DEF Unlist, Step
  <2> QED BY <2>1, <1>1 DEF TypeOK
<1> QED
  BY <1>2, <1>3, <1>4, <1>5, <1>6, <1>7, <1>8, <1>9, <1>10
  DEF Next, Purchase, NewWallet, Crash, Fault, vars

-----------------------------------------------------------------------------
(* What always holds *)

LEMMA InvHolds == Spec => []MarketInv
<1>1. Init => MarketInv
  BY MarketInit
<1>2. MarketInv /\ [Next]_vars => MarketInv'
  BY TypeStep, StageStep, ListStep, SaleStep DEF MarketInv
<1> QED BY <1>1, <1>2, PTL DEF Spec

\* However many sales and repairs overlap, and wherever the process dies, whoever
\* moves an asset knows its owner and, from TransferAssetToUser's look-up on, the
\* address that it is stored under.
THEOREM TypeCorrect == Spec => []TypeOK
<1>1. MarketInv => TypeOK
  BY DEF MarketInv
<1> QED BY <1>1, InvHolds, PTL

\* Every asset that a "user:assets:" list names is stored for that address:
\* TransferAssetToUser writes the item first, no handler removes one, and a
\* list that is written back was read of the same address.
THEOREM ListedStored == Spec => []ListedIsStored
<1>1. MarketInv => ListedIsStored
  BY DEF MarketInv, ListInv
<1> QED BY <1>1, InvHolds, PTL

\* An asset that HandleMarketBuy delivered is on the shelf only if the crawler
\* has put it there again after the buyer read the listing.
THEOREM SoldStaysOff == Spec => []SoldIsOffShelf
<1>1. MarketInv => SoldIsOffShelf
  BY DEF MarketInv
<1> QED BY <1>1, InvHolds, PTL

-----------------------------------------------------------------------------
(***************************************************************************)
(* What an owner finds.  The native and the 0x address of a wallet point   *)
(* to each other or to nothing, so that the addresses HandleGetInventory   *)
(* scans for either of them are closed under look-ups and never shrink;    *)
(* whatever a request stores, it stores under one of them.                 *)
(***************************************************************************)
Paired ==
    \A w \in Wallets :
        \/ identity[Native(w)] = NoName /\ identity[Eth(w)] = NoName
        \/ identity[Native(w)] = Eth(w) /\ identity[Eth(w)] = Native(w)

IsAddress(q) == IsNative(q) \/ IsEth(q)

Sees(c) ==
    /\ pc[c] # "idle" => who[c] \in Names
    /\ pc[c] \in {"idle", "pay", "fetch"} \/ IsBuy(c) => fetched[c] = {} /\ todo[c] = {}
    /\ pc[c] = "done" => todo[c] = {}
    /\ pc[c] # "idle" /\ IsAddress(who[c]) =>
          /\ owner[c] \in Scanned(who[c])
          /\ dest[c] # NoName => dest[c] \in Scanned(who[c])
          /\ Delivered(c) => Visible(who[c], asset[c])
          /\ \A a \in fetched[c] \ todo[c] :
                Visible(who[c], a) \/ (asset[c] = a /\ pc[c] \in {"resolve", "putItem"})

SeeInv == Paired /\ \A c \in Calls : Sees(c)

\* The four names of a wallet and the aliases differ.
LEMMA NamesDiffer ==
  ASSUME NEW w \in Wallets, NEW v, NEW q
  PROVE  /\ Native(w) \in Names /\ Eth(w) \in Names
         /\ q \in {Eth(v), Nexus(v), Alias(v)} => Native(w) # q
         /\ q \in {Native(v), Nexus(v), Alias(v)} => Eth(w) # q
         /\ Native(w) = Native(v) <=> w = v
         /\ Eth(w) = Eth(v) <=> w = v
  BY DEF Names, Native, Eth, Nexus, Alias

LEMMA AddressOfWallet ==
  ASSUME NEW q \in Names, IsAddress(q)
  PROVE  \E w \in Wallets : q = Native(w) \/ q = Eth(w)
  BY DEF Names, IsAddress, IsNative, IsEth, Native, Eth, Nexus, Alias

\* A look-up of a scanned address is a scanned address.
LEMMA ScannedClosed ==
  ASSUME Paired, NEW q \in Names, IsAddress(q), NEW n \in Scanned(q)
  PROVE  ResolveToBVM(n) \in Scanned(q) /\ ResolveToBVM(q) \in Scanned(q) /\ q \in Scanned(q)
<1>1. PICK w \in Wallets : q = Native(w) \/ q = Eth(w)
  BY AddressOfWallet
<1>2. Scanned(q) = {q, ResolveToBVM(q)}
  BY DEF Scanned, IsAddress
<1>3. \/ identity[Native(w)] = NoName /\ identity[Eth(w)] = NoName
      \/ identity[Native(w)] = Eth(w) /\ identity[Eth(w)] = Native(w)
  BY DEF Paired
<1> QED BY <1>1, <1>2, <1>3 DEF ResolveToBVM

\* A new wallet pairs its two addresses and takes nothing from other pairs.
LEMMA WalletPairs ==
  ASSUME IdentityOK, Paired, NEW w \in Wallets, NEW u \in Aliases \cup {NoName},
         CreateWallet(w, u)
  PROVE  /\ Paired'
         /\ \A q \in Names : IsAddress(q) => Scanned(q) \subseteq Scanned(q)'
<1>1. /\ identity[Native(w)] = NoName
      /\ identity' = [q \in Names |->
          CASE q \in {Eth(w), Nexus(w)}       -> Native(w)
            [] q = Native(w)                  -> Eth(w)
            [] u # NoName /\ q = Alias(u)     -> Native(w)
            [] OTHER                          -> identity[q]]
  BY DEF CreateWallet, Created
<1>2. ASSUME NEW v \in Wallets
      PROVE  /\ identity'[Native(v)] = IF v = w THEN Eth(w) ELSE identity[Native(v)]
             /\ identity'[Eth(v)] = IF v = w THEN Native(w) ELSE identity[Eth(v)]
  <2>1. Native(v) \in Names /\ Eth(v) \in Names
    BY NamesDiffer
  <2>2. /\ Native(v) # Eth(w) /\ Native(v) # Nexus(w) /\ Native(v) # Alias(u)
        /\ Eth(v) # Native(w) /\ Eth(v) # Nexus(w) /\ Eth(v) # Alias(u)
        /\ (Native(v) = Native(w) <=> v = w) /\ (Eth(v) = Eth(w) <=> v = w)
    BY NamesDiffer
  <2> QED BY <1>1, <2>1, <2>2
<1>3. Paired'
  BY <1>2 DEF Paired
<1>4. ASSUME NEW q \in Names, IsAddress(q) PROVE Scanned(q) \subseteq Scanned(q)'
  <2>1. PICK v \in Wallets : q = Native(v) \/ q = Eth(v)
    BY <1>4, AddressOfWallet
  <2>2. identity[Native(w)] = NoName /\ identity[Eth(w)] = NoName
    <3>1. Eth(w) \in Names
      BY NamesDiffer
    <3> QED BY <1>1, <3>1, IdentityAssumption DEF Paired
  <2>3. identity[q] = NoName \/ identity'[q] = identity[q]
    BY <1>2, <2>1, <2>2
  <2>4. Scanned(q) = {q, ResolveToBVM(q)} /\ Scanned(q)' = {q, ResolveToBVM(q)'}
    BY <1>4 DEF Scanned, IsAddress
  <2>5. ResolveToBVM(q) = q \/ ResolveToBVM(q)' = ResolveToBVM(q)
    BY <2>3 DEF ResolveToBVM
  <2> QED BY <2>4, <2>5
<1> QED BY <1>3, <1>4

\* No step removes an item or takes an address from an inventory.
NothingLost ==
    /\ \A n \in Names, a \in Assets : items[n][a] # NoItem => items'[n][a] # NoItem
    /\ \A q \in Names : IsAddress(q) => Scanned(q) \subseteq Scanned(q)'

LEMMA VisibleStays ==
  ASSUME IdentityOK, NothingLost, NEW q \in Names, IsAddress(q), NEW a \in Assets, Visible(q, a)
  PROVE  Visible(q, a)'
<1>1. PICK n \in Scanned(q) : items[n][a] # NoItem
  BY DEF Visible
<1>2. n \in Names
  BY ResolvedType DEF Scanned
<1> QED BY <1>1, <1>2 DEF NothingLost, Visible

\* A request that does not move sees what it saw.
LEMMA StillSees ==
  ASSUME TypeOK, StageInv, SeeInv, NothingLost, NEW c \in Calls,
         /\ pc'[c] = pc[c] /\ who'[c] = who[c] /\ owner'[c] = owner[c] /\ dest'[c] = dest[c]
         /\ asset'[c] = asset[c] /\ seen'[c] = seen[c]
         /\ fetched'[c] = fetched[c] /\ todo'[c] = todo[c]
  PROVE  Sees(c)'
<1>1. Sees(c) /\ IdentityOK /\ fetched[c] \subseteq Assets
  BY DEF SeeInv, TypeOK
<1>2. IsBuy(c)' = IsBuy(c) /\ Delivered(c)' = Delivered(c)
  BY DEF IsBuy, Delivered
<1>3. ASSUME pc[c] # "idle", IsAddress(who[c])
      PROVE  /\ owner[c] \in Scanned(who[c])'
             /\ dest[c] # NoName => dest[c] \in Scanned(who[c])'
             /\ Delivered(c) => Visible(who[c], asset[c])'
             /\ \A a \in fetched[c] \ todo[c] :
                   Visible(who[c], a)' \/ (asset[c] = a /\ pc[c] \in {"resolve", "putItem"})
  <2>1. who[c] \in Names /\ who'[c] = who[c]
    BY <1>1, <1>3 DEF Sees
  <2>2. Scanned(who[c]) \subseteq Scanned(who[c])'
    BY <1>3, <2>1 DEF NothingLost, Scanned, ResolveToBVM
  <2>3. \A a \in Assets : Visible(who[c], a) => Visible(who[c], a)'
    <3> SUFFICES ASSUME NEW a \in Assets, Visible(who[c], a) PROVE Visible(who[c], a)'
      OBVIOUS
    <3>1. PICK q \in Names : q = who[c]
      BY <2>1
    <3>2. Visible(q, a)'
      BY <1>1, <1>3, <3>1, VisibleStays
    <3> QED BY <2>1, <3>1, <3>2 DEF Visible, Scanned, ResolveToBVM
  <2>4. Delivered(c) => asset[c] \in Assets
    BY DEF Delivered, IsBuy, StageInv
  <2> QED BY <1>1, <1>3, <2>2, <2>3, <2>4 DEF Sees
<1> QED BY <1>1, <1>2, <1>3 DEF Sees, IsAddress

LEMMA SeeInit == Init => SeeInv
<1> SUFFICES ASSUME Init PROVE SeeInv
  OBVIOUS
<1>1. Paired
  BY NamesDiffer DEF Init, IdentityInit, Paired
<1>2. \A c \in Calls : pc[c] = "idle" /\ fetched[c] = {} /\ todo[c] = {}
  BY DEF Init, Nothing
<1> QED BY <1>1, <1>2 DEF SeeInv, Sees

\* Items are replaced by items only, and the registry pairs addresses.
LEMMA NothingLostStep ==
  ASSUME MarketInv, SeeInv, [Next]_vars
  PROVE  NothingLost /\ Paired'
<1> USE DEF moveVars, listVars, worldVars
<1>t. TypeOK /\ StageInv /\ Paired
  BY DEF MarketInv, SeeInv
<1>1. ASSUME NEW w \in Wallets, NEW u \in Aliases \cup {NoName}, NewWallet(w, u)
      PROVE  NothingLost /\ Paired'
  <2>1. CreateWallet(w, u) /\ items' = items
    BY <1>1 DEF NewWallet
  <2> QED BY <1>t, <2>1, WalletPairs DEF TypeOK, NothingLost
<1>2. ASSUME NEW c \in Calls, PutItem(c) PROVE NothingLost /\ Paired'
  <2>1. /\ pc[c] = "putItem" /\ identity' = identity
        /\ items' = [items EXCEPT ![dest[c]][asset[c]] = item[c]]
    BY <1>2 DEF PutItem, Step
  <2>2. dest[c] \in Names /\ asset[c] \in Assets /\ item[c] # NoItem
    BY <1>t, <2>1 DEF TypeOK, StageInv, Moving, Items, NoItem
  <2>3. \A n \in Names, a \in Assets : items[n][a] # NoItem => items'[n][a] # NoItem
    BY <1>t, <2>1, <2>2 DEF TypeOK
  <2> QED BY <1>t, <2>1, <2>3 DEF NothingLost, Paired, Scanned, ResolveToBVM
<1>3. ASSUME UNCHANGED <<identity, items>> PROVE NothingLost /\ Paired'
  BY <1>t, <1>3 DEF NothingLost, Paired, Scanned, ResolveToBVM
<1> QED
  <2>1. ASSUME NEW c \in Calls,
               \/ \E q \in Buyers : StartRepair(c, q) \/ \E a \in Assets : Look(c, q, a)
               \/ Pay(c) \/ PayRefused(c) \/ PayLost(c)
               \/ Resolve(c) \/ GetIds(c) \/ PutIds(c) \/ Unlist(c)
               \/ Fetch(c) \/ FetchFails(c) \/ Recover(c) \/ EndRepair(c)
        PROVE  UNCHANGED <<identity, items>>
    BY <2>1 DEF StartRepair, Look, Find, Pay, PayRefused, PayLost, Fault, Resolve, GetIds, PutIds,
                Unlist, Fetch, FetchFails, Recover, EndRepair
  <2>2. CASE (\E a \in Assets : List(a)) \/ (\E p \in Purchases : Purchase(p)) \/ Crash
             \/ UNCHANGED vars
    BY <1>3, <2>2 DEF List, Purchase, Crash, vars
  <2> QED BY <1>1, <1>2, <1>3, <2>1, <2>2 DEF Next

LEMMA SeeStep == MarketInv /\ SeeInv /\ [Next]_vars => SeeInv'
<1> SUFFICES ASSUME MarketInv, SeeInv, [Next]_vars PROVE SeeInv'
  OBVIOUS
<1> USE DEF moveVars, listVars, worldVars
<1>t. TypeOK /\ StageInv /\ ListInv /\ Paired
  BY DEF MarketInv, SeeInv
<1>n. NothingLost /\ Paired'
  BY NothingLostStep
<1>o. ASSUME NEW c \in Calls, Sees(c)',
             \A d \in Calls \ {c} :
                /\ pc'[d] = pc[d] /\ who'[d] = who[d] /\ owner'[d] = owner[d] /\ dest'[d] = dest[d]
                /\ asset'[d] = asset[d] /\ seen'[d] = seen[d]
                /\ fetched'[d] = fetched[d] /\ todo'[d] = todo[d]
      PROVE  SeeInv'
  BY <1>t, <1>n, <1>o, StillSees DEF SeeInv
<1>w. ASSUME UNCHANGED <<pc, who, owner, dest, asset, seen, fetched, todo>> PROVE SeeInv'
  BY <1>t, <1>n, <1>w, StillSees DEF SeeInv
<1>1. ASSUME NEW c \in Calls, NEW q \in Buyers, NEW a \in Assets, Look(c, q, a) PROVE SeeInv'
  <2>1. /\ pc[c] = "idle" /\ pc' = [pc EXCEPT ![c] = "pay"] /\ who' = [who EXCEPT ![c] = q]
        /\ owner' = [owner EXCEPT ![c] = q] /\ asset' = [asset EXCEPT ![c] = a]
        /\ seen' = [seen EXCEPT ![c] = listings[a]]
        /\ UNCHANGED <<dest, fetched, todo, identity>>
    BY <1>1 DEF Look, Find, Step
  <2>2. pc'[c] = "pay" /\ who'[c] = q /\ owner'[c] = q /\ q \in Names
    BY <1>t, <2>1 DEF TypeOK
  <2>3. fetched'[c] = {} /\ todo'[c] = {} /\ dest'[c] = NoName
    BY <1>t, <2>1 DEF SeeInv, Sees, StageInv
  <2>4. IsAddress(q) => q \in Scanned(q)'
    BY DEF Scanned
  <2>5. Sees(c)'
    BY <2>2, <2>3, <2>4 DEF Sees, Delivered, IsAddress, Scanned, ResolveToBVM
  <2> QED BY <1>o, <1>t, <2>1, <2>5 DEF TypeOK
<1>2. ASSUME NEW c \in Calls, Pay(c) \/ PayRefused(c) \/ PayLost(c) PROVE SeeInv'
  <2>1. /\ pc[c] = "pay" /\ \E to \in {"resolve", "done"} : pc' = [pc EXCEPT ![c] = to]
        /\ UNCHANGED <<who, owner, dest, asset, seen, fetched, todo, identity>>
    BY <1>2 DEF Pay, PayRefused, PayLost, Step, Fault
  <2>2. /\ pc'[c] \in {"resolve", "done"} /\ dest[c] = NoName /\ Sees(c)
        /\ fetched[c] = {} /\ todo[c] = {}
    BY <1>t, <2>1 DEF TypeOK, StageInv, SeeInv, Sees
  <2>3. Sees(c)'
    BY <2>1, <2>2 DEF Sees, Delivered, IsAddress, Scanned, ResolveToBVM
  <2> QED BY <1>o, <1>t, <2>1, <2>3 DEF TypeOK
<1>3. ASSUME NEW c \in Calls, Resolve(c) PROVE SeeInv'
  <2>1. /\ pc[c] = "resolve" /\ pc' = [pc EXCEPT ![c] = "putItem"]
        /\ dest' = [dest EXCEPT ![c] = ResolveToBVM(owner[c])]
        /\ UNCHANGED <<who, owner, asset, seen, fetched, todo, identity, items>>
    BY <1>3 DEF Resolve, Step
  <2>2. pc'[c] = "putItem" /\ dest'[c] = ResolveToBVM(owner[c]) /\ Sees(c) /\ who[c] \in Names
    BY <1>t, <2>1 DEF TypeOK, SeeInv, Sees
  <2>3. \A q \in Names : Scanned(q)' = Scanned(q)
    BY <2>1 DEF Scanned, ResolveToBVM
  <2>4. IsAddress(who[c]) => owner[c] \in Scanned(who[c]) /\ dest'[c] \in Scanned(who[c])
    BY <1>t, <2>1, <2>2, ScannedClosed DEF Sees
  <2>5. \A b \in Assets : Visible(who[c], b)' = Visible(who[c], b)
    BY <2>1, <2>2, <2>3 DEF Visible, Scanned, ResolveToBVM
  <2>6. fetched[c] \subseteq Assets
    BY <1>t DEF TypeOK
  <2>7. Sees(c)'
    BY <2>1, <2>2, <2>3, <2>4, <2>5, <2>6 DEF Sees, Delivered, IsAddress, IsBuy
  <2> QED BY <1>o, <1>t, <2>1, <2>7 DEF TypeOK
<1>4. ASSUME NEW c \in Calls, PutItem(c) PROVE SeeInv'
  <2>1. /\ pc[c] = "putItem" /\ pc' = [pc EXCEPT ![c] = "getIds"]
        /\ items' = [items EXCEPT ![dest[c]][asset[c]] = item[c]]
        /\ UNCHANGED <<who, owner, dest, asset, seen, fetched, todo, identity>>
    BY <1>4 DEF PutItem, Step
  <2>a. dest[c] \in Names /\ dest[c] # NoName /\ pc'[c] = "getIds" /\ fetched[c] \subseteq Assets
    BY <1>t, <2>1 DEF TypeOK
  <2>b. asset[c] \in Assets /\ item[c] # NoItem
    BY <1>t, <2>1 DEF StageInv, Moving, Items, NoItem
  <2>c. Sees(c) /\ who[c] \in Names
    BY <2>1 DEF SeeInv, Sees
  <2>2. /\ dest[c] \in Names /\ dest[c] # NoName /\ asset[c] \in Assets /\ item[c] # NoItem
        /\ pc'[c] = "getIds" /\ Sees(c) /\ who[c] \in Names /\ fetched[c] \subseteq Assets
    BY <2>a, <2>b, <2>c
  <2>3. items'[dest[c]][asset[c]] # NoItem
    BY <1>t, <2>1, <2>2 DEF TypeOK
  <2>4. \A q \in Names : Scanned(q)' = Scanned(q)
    BY <2>1 DEF Scanned, ResolveToBVM
  <2>5. IsAddress(who[c]) => Visible(who[c], asset[c])'
    BY <2>1, <2>2, <2>3, <2>4 DEF Sees, Visible, Scanned, ResolveToBVM
  <2>6. ASSUME IsAddress(who[c]), NEW b \in Assets, Visible(who[c], b) PROVE Visible(who[c], b)'
    <3>1. PICK n \in Scanned(who[c]) : items[n][b] # NoItem
      BY <2>6 DEF Visible
    <3>2. n \in Names
      BY <1>t, <2>2, ResolvedType DEF Scanned, TypeOK
    <3> QED BY <1>n, <2>1, <2>2, <2>4, <3>1, <3>2 DEF NothingLost, Visible, Scanned, ResolveToBVM
  <2>7. IsAddress(who[c]) => \A b \in fetched[c] \ todo[c] : Visible(who[c], b)'
    BY <2>2, <2>5, <2>6, <2>1 DEF Sees
  <2>8. Sees(c)'
    BY <2>1, <2>2, <2>4, <2>7 DEF Sees, Delivered, IsAddress, IsBuy
  <2> QED BY <1>o, <1>t, <2>1, <2>8 DEF TypeOK
<1>5. ASSUME NEW c \in Calls, GetIds(c) \/ PutIds(c) PROVE SeeInv'
  <2>1. /\ pc[c] \in {"getIds", "putIds"}
        /\ \E to \in {"putIds", "unlist"} : pc' = [pc EXCEPT ![c] = to]
        /\ UNCHANGED <<who, owner, dest, asset, seen, fetched, todo, identity, items>>
    BY <1>5 DEF GetIds, PutIds, Step
  <2>2. pc'[c] \in {"putIds", "unlist"} /\ Sees(c)
    BY <1>t, <2>1 DEF TypeOK, SeeInv
  <2>3. Sees(c)'
    BY <2>1, <2>2 DEF Sees, Delivered, IsAddress, IsBuy, Visible, Scanned, ResolveToBVM
  <2> QED BY <1>o, <1>t, <2>1, <2>3 DEF TypeOK
<1>6. ASSUME NEW c \in Calls, Unlist(c) PROVE SeeInv'
  <2>1. /\ pc[c] = "unlist" /\ pc' = [pc EXCEPT ![c] = IF IsBuy(c) THEN "done" ELSE "repair"]
        /\ UNCHANGED <<who, owner, dest, asset, seen, fetched, todo, identity, items>>
    BY <1>6 DEF Unlist, Step
  <2>2. /\ pc'[c] = IF IsBuy(c) THEN "done" ELSE "repair"
        /\ Sees(c) /\ who[c] \in Names /\ dest[c] # NoName
        /\ items[dest[c]][asset[c]] # NoItem
    BY <1>t, <2>1 DEF TypeOK, SeeInv, Sees, ListInv
  <2>3. IsAddress(who[c]) => Visible(who[c], asset[c])
    BY <2>1, <2>2 DEF Sees, Visible
  <2>4. IsBuy(c) => todo[c] = {} /\ fetched[c] = {}
    BY <2>2 DEF Sees
  <2>5. IsAddress(who[c]) => Visible(who[c], asset[c])' /\ Scanned(who[c])' = Scanned(who[c])
    BY <2>3, <2>1 DEF Visible, Scanned, ResolveToBVM
  <2>6. Sees(c)'
    BY <2>1, <2>2, <2>4, <2>5 DEF Sees, Delivered, IsAddress, IsBuy, Visible, Scanned, ResolveToBVM
  <2> QED BY <1>o, <1>t, <2>1, <2>6 DEF TypeOK
<1>7. ASSUME NEW c \in Calls, NEW q \in Buyers, StartRepair(c, q) PROVE SeeInv'
  <2>1. /\ pc[c] = "idle" /\ pc' = [pc EXCEPT ![c] = "fetch"] /\ who' = [who EXCEPT ![c] = q]
        /\ owner' = [owner EXCEPT ![c] = ResolveToBVM(q)]
        /\ UNCHANGED <<dest, asset, seen, fetched, todo, identity>>
    BY <1>7 DEF StartRepair, Step
  <2>2. /\ pc'[c] = "fetch" /\ who'[c] = q /\ owner'[c] = ResolveToBVM(q) /\ q \in Names
        /\ fetched'[c] = {} /\ todo'[c] = {} /\ dest'[c] = NoName
    BY <1>t, <2>1 DEF TypeOK, SeeInv, Sees, StageInv
  <2>3. IsAddress(q) => ResolveToBVM(q) \in Scanned(q)
    BY DEF IsAddress, Scanned
  <2>4. Sees(c)'
    BY <2>1, <2>2, <2>3 DEF Sees, Delivered, IsAddress, Scanned, ResolveToBVM
  <2> QED BY <1>o, <1>t, <2>1, <2>4 DEF TypeOK
<1>8. ASSUME NEW c \in Calls, Fetch(c) PROVE SeeInv'
  <2>1. PICK bought : /\ pc[c] = "fetch" /\ pc' = [pc EXCEPT ![c] = "repair"]
                      /\ todo' = [todo EXCEPT ![c] = bought]
                      /\ fetched' = [fetched EXCEPT ![c] = bought]
                      /\ UNCHANGED <<who, owner, dest, asset, seen, identity>>
    BY <1>8 DEF Fetch, Step
  <2>2. /\ pc'[c] = "repair" /\ fetched'[c] = todo'[c] /\ Sees(c) /\ seen[c] = 0
    BY <1>t, <2>1 DEF TypeOK, SeeInv, StageInv
  <2>3. Sees(c)'
    BY <2>1, <2>2 DEF Sees, Delivered, IsAddress, IsBuy, Scanned, ResolveToBVM
  <2> QED BY <1>o, <1>t, <2>1, <2>3 DEF TypeOK
<1>9. ASSUME NEW c \in Calls, FetchFails(c) \/ EndRepair(c) PROVE SeeInv'
  <2>1. /\ pc[c] \in {"fetch", "repair"} /\ pc' = [pc EXCEPT ![c] = "done"]
        /\ pc[c] = "repair" => todo[c] = {}
        /\ UNCHANGED <<who, owner, dest, asset, seen, fetched, todo, identity, items>>
    BY <1>9 DEF FetchFails, EndRepair, Step, Fault
  <2>2. pc'[c] = "done" /\ Sees(c) /\ seen[c] = 0 /\ todo[c] = {}
    BY <1>t, <2>1 DEF TypeOK, SeeInv, StageInv, Sees
  <2>3. Sees(c)'
    BY <2>1, <2>2 DEF Sees, Delivered, IsAddress, IsBuy, Visible, Scanned, ResolveToBVM
  <2> QED BY <1>o, <1>t, <2>1, <2>3 DEF TypeOK
<1>10. ASSUME NEW c \in Calls, Recover(c) PROVE SeeInv'
  <2>1. PICK a \in todo[c] :
          /\ pc[c] = "repair" /\ pc' = [pc EXCEPT ![c] = "resolve"]
          /\ todo' = [todo EXCEPT ![c] = todo[c] \ {a}] /\ asset' = [asset EXCEPT ![c] = a]
          /\ UNCHANGED <<who, owner, dest, fetched, seen, identity, items>>
    BY <1>10 DEF Recover, Step
  <2>2. /\ pc'[c] = "resolve" /\ todo'[c] = todo[c] \ {a} /\ asset'[c] = a
        /\ Sees(c) /\ seen[c] = 0
    BY <1>t, <2>1 DEF TypeOK, SeeInv, StageInv
  <2>3. Sees(c)'
    BY <2>1, <2>2 DEF Sees, Delivered, IsAddress, IsBuy, Visible, Scanned, ResolveToBVM
  <2> QED BY <1>o, <1>t, <2>1, <2>3 DEF TypeOK
<1> QED
  <2>1. CASE \/ \E a \in Assets : List(a)
             \/ \E p \in Purchases : Purchase(p)
             \/ \E w \in Wallets : \E u \in Aliases \cup {NoName} : NewWallet(w, u)
             \/ Crash
             \/ UNCHANGED vars
    BY <1>w, <2>1 DEF List, Purchase, NewWallet, Crash, vars
  <2> QED BY <1>1, <1>2, <1>3, <1>4, <1>5, <1>6, <1>7, <1>8, <1>9, <1>10, <2>1 DEF Next

\* Whoever bought or repaired under an address of a wallet finds everything
\* under that address, whenever the wallet's names were registered.
THEOREM OwnerFindsAll == Spec => []OwnerSeesAll
<1>1. SeeInv => OwnerSeesAll
  <2> SUFFICES ASSUME SeeInv, NEW c \in Calls, pc[c] = "done", IsAddress(who[c])
               PROVE  /\ Delivered(c) => Visible(who[c], asset[c])
                      /\ \A a \in fetched[c] : Visible(who[c], a)
    BY DEF OwnerSeesAll, IsAddress
  <2>1. Sees(c) /\ pc[c] # "idle" /\ todo[c] = {}
    BY DEF SeeInv, Sees
  <2> QED BY <2>1 DEF Sees
<1> QED BY SeeInit, SeeStep, InvHolds, <1>1, PTL DEF Spec

-----------------------------------------------------------------------------
(***************************************************************************)
(* Payments.  A sale of an unspoilt asset is alone at work on it from the  *)
(* buyer's look to the delivery, and the next buyer looks only when the    *)
(* crawler has put the asset on the shelf again: at a later listing.       *)
(***************************************************************************)
Sale(c) == IsBuy(c) /\ asset[c] \notin spoilt

SaleInv ==
    /\ \A a \in shelf : listings[a] > 0
    /\ \A c \in Calls : c \in paid \/ pc[c] = "pay" => IsBuy(c)
    /\ \A c, d \in Calls :
          Sale(c) /\ IsBuy(d) /\ Live(c) /\ Live(d) /\ asset[c] = asset[d] => c = d
    /\ \A c \in paid : Sale(c) => Delivered(c) \/ (Live(c) /\ pc[c] # "pay")
    /\ \A c \in Calls : \A d \in paid :
          Sale(c) /\ Live(c) /\ asset[c] = asset[d] /\ seen[c] = seen[d] => c = d
    /\ PaidOncePerListing

LEMMA SaleInit == Init => SaleInv
  BY DEF Init, SaleInv, PaidOncePerListing, IsBuy, Sale

\* One request moves on without paying: the others see no difference, and a
\* paid one is still alive or delivers.
LEMMA CallMoves ==
  ASSUME TypeOK, SaleInv, NEW c \in Calls,
         UNCHANGED <<seen, paid, dead, listings>>, spoilt \subseteq spoilt', shelf' \subseteq shelf,
         \A d \in Calls \ {c} : pc'[d] = pc[d] /\ asset'[d] = asset[d] /\ dest'[d] = dest[d],
         IsBuy(c) => asset'[c] = asset[c],
         pc'[c] # "pay", IsBuy(c) /\ Live(c)' => Live(c),
         c \in paid /\ Sale(c) => Delivered(c)' \/ Live(c)'
  PROVE  SaleInv'
<1>1. \A d \in Calls : IsBuy(d)' = IsBuy(d) /\ (IsBuy(d) => asset'[d] = asset[d])
  BY DEF IsBuy
<1>2. \A d \in Calls : IsBuy(d) /\ Live(d)' => Live(d)
  BY DEF Live
<1>3. \A d \in Calls \ {c} : (Live(d)' <=> Live(d)) /\ (Delivered(d)' <=> Delivered(d))
  BY DEF Live, Delivered, IsBuy
<1>4. \A d \in Calls : Sale(d)' => Sale(d)
  BY <1>1 DEF Sale
<1>5. paid \subseteq Calls /\ \A d \in paid : IsBuy(d)
  BY DEF SaleInv, TypeOK
<1>6. \A d, e \in Calls :
         Sale(d)' /\ IsBuy(e)' /\ Live(d)' /\ Live(e)' /\ asset'[d] = asset'[e] => d = e
  BY <1>1, <1>2, <1>4 DEF SaleInv, Sale
<1>7. \A d \in Calls : \A e \in paid :
         Sale(d)' /\ Live(d)' /\ asset'[d] = asset'[e] /\ seen[d] = seen[e] => d = e
  BY <1>1, <1>2, <1>4, <1>5 DEF SaleInv, Sale
<1>8. \A d \in paid : Sale(d)' => Delivered(d)' \/ (Live(d)' /\ pc'[d] # "pay")
  BY <1>3, <1>4, <1>5 DEF SaleInv
<1>9. PaidOncePerListing'
  <2>1. \A d \in paid : asset'[d] = asset[d]
    BY <1>1, <1>5
  <2> QED BY <2>1 DEF SaleInv, PaidOncePerListing
<1>10. \A d \in Calls : d \in paid \/ pc'[d] = "pay" => IsBuy(d)'
  BY <1>1 DEF SaleInv
<1>11. \A a \in shelf' : listings'[a] > 0
  BY DEF SaleInv
<1> QED BY <1>6, <1>7, <1>8, <1>9, <1>10, <1>11 DEF SaleInv

LEMMA PaymentStep == MarketInv /\ SaleInv /\ [Next]_vars => SaleInv'
<1> SUFFICES ASSUME MarketInv, SaleInv, [Next]_vars PROVE SaleInv'
  OBVIOUS
<1> USE DEF moveVars, listVars, worldVars
<1>t. TypeOK /\ StageInv /\ SoldIsOffShelf
  BY DEF MarketInv
<1>p. paid \subseteq Calls /\ \A c \in paid : c \in Calls /\ IsBuy(c)
  BY <1>t DEF TypeOK, SaleInv
<1>1. ASSUME NEW a \in Assets, List(a) PROVE SaleInv'
  <2>1. /\ shelf' = shelf \cup {a} /\ listings' = [listings EXCEPT ![a] = listings[a] + 1]
        /\ UNCHANGED <<pc, asset, dest, seen, paid, dead, spoilt>>
    BY <1>1 DEF List
  <2>2. \A b \in Assets : listings[b] \in Nat
    BY <1>t DEF TypeOK
  <2>3. \A b \in shelf' : listings'[b] > 0
    <3>1. \A b \in Assets : listings'[b] = IF b = a THEN listings[b] + 1 ELSE listings[b]
      BY <1>t, <2>1 DEF TypeOK
    <3>2. shelf' \subseteq Assets
      BY <1>t, <2>1 DEF TypeOK
    <3> QED BY <2>1, <2>2, <3>1, <3>2 DEF SaleInv
  <2> QED BY <2>1, <2>3 DEF SaleInv, Sale, IsBuy, Live, Delivered, PaidOncePerListing
<1>2. ASSUME UNCHANGED <<shelf, listings, pc, asset, dest, seen, paid, dead, spoilt>> PROVE SaleInv'
  BY <1>2 DEF SaleInv, Sale, IsBuy, Live, Delivered, PaidOncePerListing
<1>3. ASSUME NEW c \in Calls, NEW q \in Buyers, NEW a \in Assets, Look(c, q, a) PROVE SaleInv'
  <2>1. /\ pc[c] = "idle" /\ c \notin dead /\ a \in shelf /\ pc' = [pc EXCEPT ![c] = "pay"]
        /\ asset' = [asset EXCEPT ![c] = a] /\ seen' = [seen EXCEPT ![c] = listings[a]]
        /\ UNCHANGED <<shelf, dest, paid, dead, listings>>
        /\ spoilt' = IF \E d \in Calls : Live(d) /\ IsBuy(d) /\ asset[d] = a
                     THEN spoilt \cup {a} ELSE spoilt
    BY <1>3 DEF Look, Find, Step
  <2>2. /\ pc'[c] = "pay" /\ asset'[c] = a /\ seen'[c] = listings[a] /\ listings[a] > 0
        /\ ~IsBuy(c) /\ c \notin paid /\ IsBuy(c)'
    BY <1>t, <1>p, <2>1 DEF TypeOK, StageInv, SaleInv, IsBuy
  <2>3. \A d \in Calls \ {c} :
            /\ pc'[d] = pc[d] /\ asset'[d] = asset[d] /\ seen'[d] = seen[d] /\ dest'[d] = dest[d]
    BY <1>t, <2>1 DEF TypeOK
  <2>4. \A d \in Calls \ {c} :
            (IsBuy(d)' <=> IsBuy(d)) /\ (Live(d)' <=> Live(d)) /\ (Delivered(d)' <=> Delivered(d))
    BY <2>1, <2>3 DEF IsBuy, Live, Delivered
  <2>5. spoilt \subseteq spoilt' /\ \A d \in Calls \ {c} : Sale(d)' => Sale(d)
    BY <2>1, <2>3, <2>4 DEF Sale
  <2>6. ASSUME NEW d \in Calls \ {c}, IsBuy(d), Live(d), asset[d] = a PROVE a \in spoilt'
    BY <2>1, <2>6
  <2>7. ASSUME NEW d \in paid, asset[d] = a, a \notin spoilt' PROVE seen[d] # listings[a]
    <3>1. d \in Calls /\ d # c /\ IsBuy(d) /\ Sale(d)
      BY <1>p, <2>2, <2>5, <2>7 DEF Sale
    <3>2. Delivered(d)
      BY <2>6, <2>7, <3>1 DEF SaleInv
    <3>3. seen[d] < listings[a] /\ seen[d] \in Nat /\ listings[a] \in Nat
      BY <1>t, <2>1, <2>7, <3>1, <3>2 DEF SoldIsOffShelf, TypeOK
    <3> QED BY <3>3
  <2>8. \A d, e \in Calls :
           Sale(d)' /\ IsBuy(e)' /\ Live(d)' /\ Live(e)' /\ asset'[d] = asset'[e] => d = e
    <3> SUFFICES ASSUME NEW d \in Calls, NEW e \in Calls, d # e, Sale(d)', IsBuy(e)',
                        Live(d)', Live(e)', asset'[d] = asset'[e]
                 PROVE  FALSE
      OBVIOUS
    <3>1. CASE d = c
      BY <2>2, <2>3, <2>4, <2>6, <3>1 DEF Sale
    <3>2. CASE e = c
      BY <2>2, <2>3, <2>4, <2>6, <3>2 DEF Sale
    <3>3. CASE d # c /\ e # c
      BY <2>3, <2>4, <2>5, <3>3 DEF SaleInv, Sale
    <3> QED BY <3>1, <3>2, <3>3
  <2>9. \A d \in Calls : \A e \in paid :
           Sale(d)' /\ Live(d)' /\ asset'[d] = asset'[e] /\ seen'[d] = seen'[e] => d = e
    <3> SUFFICES ASSUME NEW d \in Calls, NEW e \in paid, d # e, Sale(d)', Live(d)',
                        asset'[d] = asset'[e], seen'[d] = seen'[e]
                 PROVE  FALSE
      OBVIOUS
    <3>1. e \in Calls \ {c} /\ asset'[e] = asset[e] /\ seen'[e] = seen[e]
      BY <1>p, <2>2, <2>3
    <3>2. CASE d = c
      BY <2>2, <2>7, <3>1, <3>2 DEF Sale
    <3>3. CASE d # c
      BY <2>3, <2>4, <2>5, <3>1, <3>3 DEF SaleInv
    <3> QED BY <3>2, <3>3
  <2>10. \A d \in paid : Sale(d)' => Delivered(d)' \/ (Live(d)' /\ pc'[d] # "pay")
    BY <1>p, <2>2, <2>3, <2>4, <2>5 DEF SaleInv
  <2>11. PaidOncePerListing'
    <3>1. \A d \in paid : asset'[d] = asset[d] /\ seen'[d] = seen[d]
      BY <1>p, <2>2, <2>3
    <3> QED BY <2>1, <2>5, <3>1 DEF SaleInv, PaidOncePerListing
  <2>12. \A d \in Calls : d \in paid \/ pc'[d] = "pay" => IsBuy(d)'
    BY <2>2, <2>3, <2>4 DEF SaleInv
  <2> QED BY <2>1, <2>8, <2>9, <2>10, <2>11, <2>12 DEF SaleInv
<1>4. ASSUME NEW c \in Calls, Pay(c) \/ PayLost(c) PROVE SaleInv'
  <2>1. /\ pc[c] = "pay" /\ c \notin dead /\ paid' = paid \cup {c} /\ spoilt \subseteq spoilt'
        /\ \E to \in {"resolve", "done"} : pc' = [pc EXCEPT ![c] = to]
        /\ pc'[c] = "resolve" \/ asset[c] \in spoilt'
        /\ UNCHANGED <<shelf, asset, dest, seen, dead, listings>>
    BY <1>4, <1>t DEF Pay, PayLost, Step, Fault, TypeOK
  <2>2. IsBuy(c) /\ Live(c) /\ (pc'[c] = "resolve" => Live(c)') /\ pc'[c] # "pay"
    BY <1>t, <2>1 DEF SaleInv, Live, TypeOK
  <2>3. \A d \in Calls : /\ IsBuy(d)' <=> IsBuy(d)
                         /\ Sale(d)' => Sale(d)
                         /\ Live(d)' => Live(d)
                         /\ d # c => pc'[d] = pc[d] /\ (Live(d)' <=> Live(d)) /\ (Delivered(d)' <=> Delivered(d))
    BY <1>t, <2>1, <2>2 DEF IsBuy, Sale, Live, Delivered, TypeOK
  <2>4. ASSUME NEW d \in Calls, Sale(d), asset[d] = asset[c], seen[d] = seen[c], d \in paid \/ Live(d)
        PROVE  d = c
    <3>1. Sale(c)
      BY <2>2, <2>4 DEF Sale
    <3> QED BY <2>2, <2>4, <3>1 DEF SaleInv
  <2>5. \A d, e \in Calls :
           Sale(d)' /\ IsBuy(e)' /\ Live(d)' /\ Live(e)' /\ asset'[d] = asset'[e] => d = e
    BY <2>1, <2>3 DEF SaleInv
  <2>6. \A d \in paid' : Sale(d)' => Delivered(d)' \/ (Live(d)' /\ pc'[d] # "pay")
    <3>1. Sale(c)' => pc'[c] = "resolve"
      BY <2>1 DEF Sale
    <3> QED BY <1>p, <2>1, <2>2, <2>3, <3>1 DEF SaleInv
  <2>7. \A d \in Calls : \A e \in paid' :
           Sale(d)' /\ Live(d)' /\ asset'[d] = asset'[e] /\ seen'[d] = seen'[e] => d = e
    BY <2>1, <2>3, <2>4 DEF SaleInv
  <2>8. PaidOncePerListing'
    <3> SUFFICES ASSUME NEW d \in paid', NEW e \in paid', asset[d] = asset[e], seen[d] = seen[e],
                        asset[d] \notin spoilt'
                 PROVE  d = e
      BY <2>1 DEF PaidOncePerListing
    <3>1. d \in Calls /\ e \in Calls /\ Sale(d) /\ Sale(e)
      BY <1>p, <2>1, <2>2 DEF Sale
    <3>2. CASE d = c \/ e = c
      BY <2>1, <2>4, <3>1, <3>2
    <3>3. CASE d # c /\ e # c
      BY <2>1, <3>3 DEF SaleInv, PaidOncePerListing
    <3> QED BY <3>2, <3>3
  <2>9. \A d \in Calls : d \in paid' \/ pc'[d] = "pay" => IsBuy(d)'
    BY <2>1, <2>2, <2>3 DEF SaleInv
  <2> QED BY <2>1, <2>5, <2>6, <2>7, <2>8, <2>9 DEF SaleInv
<1>5. ASSUME NEW c \in Calls,
             \/ PayRefused(c) \/ Resolve(c) \/ PutItem(c) \/ GetIds(c) \/ PutIds(c) \/ Unlist(c)
      PROVE  SaleInv'
  <2>1. /\ pc[c] \in {"pay", "resolve", "putItem", "getIds", "putIds", "unlist"} /\ c \notin dead
        /\ \E to : pc' = [pc EXCEPT ![c] = to] /\ to \in Stages \ {"idle", "pay"}
                   /\ (to = "done" => pc[c] = "pay" \/ (pc[c] = "unlist" /\ UNCHANGED dest))
        /\ \E n : dest' = [dest EXCEPT ![c] = n]
        /\ shelf' \subseteq shelf
        /\ UNCHANGED <<asset, seen, paid, dead, spoilt, listings>>
    <3>1. UNCHANGED dest => \E n : dest' = [dest EXCEPT ![c] = n]
      BY <1>t DEF TypeOK
    <3> QED BY <1>5, <3>1 DEF PayRefused, Resolve, PutItem, GetIds, PutIds, Unlist, Step, Stages
  <2>2. \A d \in Calls \ {c} : pc'[d] = pc[d] /\ asset'[d] = asset[d] /\ dest'[d] = dest[d]
    BY <1>t, <2>1 DEF TypeOK
  <2>3. Live(c) /\ pc'[c] \in Stages \ {"idle", "pay"}
    BY <1>t, <2>1 DEF Live, TypeOK
  <2>4. ASSUME c \in paid, Sale(c) PROVE Delivered(c)' \/ Live(c)'
    <3>1. pc[c] # "pay" /\ IsBuy(c)
      BY <1>p, <2>3, <2>4 DEF SaleInv, Delivered
    <3>2. CASE pc'[c] = "done"
      <4>1. pc[c] = "unlist" /\ UNCHANGED dest
        BY <1>t, <2>1, <3>1, <3>2 DEF TypeOK
      <4>2. dest[c] # NoName
        BY <1>t, <4>1 DEF TypeOK
      <4> QED BY <2>1, <3>1, <3>2, <4>1, <4>2 DEF Delivered, IsBuy
    <3>3. CASE pc'[c] # "done"
      BY <2>1, <2>3, <3>3 DEF Live
    <3> QED BY <3>2, <3>3
  <2> QED BY <1>t, <2>1, <2>2, <2>3, <2>4, CallMoves
<1>6. ASSUME NEW c \in Calls, IsBuy(c) = FALSE, c \notin paid,
             \E to \in Stages \ {"pay"} : pc' = [pc EXCEPT ![c] = to],
             \E a : asset' = [asset EXCEPT ![c] = a],
             UNCHANGED <<shelf, dest, seen, paid, dead, listings, spoilt>>
      PROVE  SaleInv'
  <2>1. \A d \in Calls \ {c} : pc'[d] = pc[d] /\ asset'[d] = asset[d] /\ dest'[d] = dest[d]
    BY <1>t, <1>6 DEF TypeOK
  <2>2. pc'[c] # "pay"
    BY <1>t, <1>6 DEF TypeOK
  <2> QED BY <1>t, <1>6, <2>1, <2>2, CallMoves
<1>7. ASSUME NEW c \in Calls,
             \/ \E q \in Buyers : StartRepair(c, q)
             \/ Fetch(c) \/ FetchFails(c) \/ Recover(c) \/ EndRepair(c)
      PROVE  SaleInv'
  <2>1. pc[c] \in {"idle", "fetch", "repair"}
    BY <1>7 DEF StartRepair, Fetch, FetchFails, Recover, EndRepair, Step
  <2>2. IsBuy(c) = FALSE /\ c \notin paid
    BY <1>p, <1>t, <2>1 DEF StageInv, IsBuy
  <2>3. /\ \E to \in Stages \ {"pay"} : pc' = [pc EXCEPT ![c] = to]
        /\ UNCHANGED <<shelf, dest, seen, paid, dead, listings, spoilt>>
    BY <1>7 DEF StartRepair, Fetch, FetchFails, Recover, EndRepair, Step, Fault, Stages
  <2>4. \E a : asset' = [asset EXCEPT ![c] = a]
    <3>1. UNCHANGED asset => asset' = [asset EXCEPT ![c] = asset[c]]
      BY <1>t DEF TypeOK
    <3> QED BY <1>7, <3>1 DEF StartRepair, Fetch, FetchFails, Recover, EndRepair
  <2> QED BY <1>6, <2>2, <2>3, <2>4
<1>8. CASE Crash
  <2>1. /\ dead' = dead \cup {c \in Calls : Live(c)}
        /\ spoilt' = spoilt \cup {asset[c] : c \in {d \in {c \in Calls : Live(c)} : IsBuy(d)}}
        /\ paid \subseteq paid' /\ paid' \subseteq paid \cup {c \in Calls : Live(c) /\ pc[c] = "pay"}
        /\ UNCHANGED <<shelf, pc, asset, dest, seen, listings>>
    BY <1>8 DEF Crash, Fault
  <2>2. \A c \in Calls : ~Live(c)' /\ IsBuy(c)' = IsBuy(c) /\ Delivered(c)' = Delivered(c)
    BY <2>1 DEF Live, IsBuy, Delivered
  <2>3. \A c \in Calls : Live(c) /\ IsBuy(c) => asset[c] \in spoilt'
    BY <2>1
  <2>4. \A c \in Calls : Sale(c)' => Sale(c) /\ ~Live(c)
    BY <2>1, <2>2, <2>3 DEF Sale
  <2>5. \A c \in paid' : c \in Calls /\ IsBuy(c) /\ (c \notin paid => asset[c] \in spoilt')
    BY <1>p, <2>1, <2>3 DEF SaleInv
  <2>6. \A c \in paid' : Sale(c)' => Delivered(c)'
    BY <2>1, <2>2, <2>4, <2>5 DEF SaleInv, Sale
  <2>7. PaidOncePerListing'
    BY <2>1, <2>5 DEF SaleInv, PaidOncePerListing
  <2>8. \A c \in Calls : c \in paid' \/ pc'[c] = "pay" => IsBuy(c)'
    BY <2>1, <2>2, <2>5 DEF SaleInv
  <2> QED BY <2>1, <2>2, <2>6, <2>7, <2>8 DEF SaleInv
<1> QED
  <2>1. CASE \/ \E p \in Purchases : Purchase(p)
             \/ \E w \in Wallets : \E u \in Aliases \cup {NoName} : NewWallet(w, u)
             \/ UNCHANGED vars
    BY <1>2, <2>1 DEF Purchase, NewWallet, vars
  <2> QED BY <1>1, <1>3, <1>4, <1>5, <1>7, <1>8, <2>1 DEF Next

\* Two payments for one listing of an asset need two buyers at work on it at
\* once, a crash, or a payment whose answer was lost.
THEOREM OnePayment == Spec => []PaidOncePerListing
<1>1. SaleInv => PaidOncePerListing
  BY DEF SaleInv
<1> QED BY SaleInit, PaymentStep, InvHolds, <1>1, PTL DEF Spec
=============================================================================
