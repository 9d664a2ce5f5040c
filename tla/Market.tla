------------------------------- MODULE Market -------------------------------
(***************************************************************************)
(* The market of assets (pkg/rpc/market_handler.go): the shelf ("market:"  *)
(* keys), the items of the owners ("utxo:<address>:<asset>" keys) and      *)
(* their lists ("user:assets:" keys), under HandleMarketBuy,               *)
(* HandleRepairInventory and the helper they share, TransferAssetToUser.   *)
(*                                                                         *)
(* Every store call and every call of the Core is a step.  The crawler     *)
(* puts assets on the shelf, again when it replays a block, and hands      *)
(* purchases that it finds on the chain to the VM; both are modelled in    *)
(* full by StateSync.  HandleMarketList and HandleGetInventory only read.  *)
(***************************************************************************)
EXTENDS Identity, Naturals, FiniteSets

CONSTANTS
    Assets,         \* what block rewards put on the shelf
    Calls,          \* the requests
    Buyers,         \* names that requests may use
    Purchases,      \* <<name, asset>>: "Purchase:" memos the chain may carry
    MaxListings,    \* bound: how often an asset is put on the shelf
    MaxFaults       \* bound: crashes, lost answers and failed calls of the Core

ASSUME MarketAssumption ==
    /\ Buyers \subseteq Names
    /\ Purchases \subseteq Names \X Assets
    /\ MaxListings \in Nat /\ MaxFaults \in Nat

VARIABLES
    shelf,      \* the assets on offer
    items,      \* items[n][a]: what is stored for a under address n
    ids,        \* ids[n]: the list of n
    chain,      \* the purchases on the chain that the VM has executed
    pc, who,    \* per request: its next step, the name it uses
    asset,      \* the asset it moves
    item,       \* the item it moves
    owner,      \* the name it moves it to
    dest,       \* the address of that name, as it was looked up
    copy,       \* the list it has read
    todo,       \* purchases that a repair has not dealt with yet
    fetched,    \* history: all purchases that the repair was told of
    seen,       \* history: the listing that a buyer looked at
    paid,       \* requests whose payment the Core took
    dead,       \* requests that a crash stopped
    listings,   \* history: how often an asset was put on the shelf
    faults,     \* history: faults so far
    spoilt      \* history: assets with two buyers at work, or a fault in a sale

moveVars  == <<who, asset, item, owner, dest>>
listVars  == <<copy, todo, fetched, seen>>
worldVars == <<identity, chain, dead, listings, faults, spoilt>>
vars == <<shelf, items, ids, pc, moveVars, listVars, paid, worldVars>>

NoItem == "none"
Items == {"bought", "recovered"}
Unset == [c \in Calls |-> NoName]
Nothing == [c \in Calls |-> {}]

Init ==
    /\ IdentityInit
    /\ shelf = {}
    /\ items = [n \in Names |-> [a \in Assets |-> NoItem]]
    /\ ids = [n \in Names |-> {}]
    /\ chain = {}
    /\ pc = [c \in Calls |-> "idle"]
    /\ who = Unset /\ owner = Unset /\ dest = Unset
    /\ asset = Unset /\ item = [c \in Calls |-> NoItem]
    /\ copy = Nothing /\ todo = Nothing /\ fetched = Nothing
    /\ seen = [c \in Calls |-> 0]
    /\ paid = {}
    /\ dead = {}
    /\ listings = [a \in Assets |-> 0]
    /\ faults = 0
    /\ spoilt = {}

-----------------------------------------------------------------------------
(* The crawler and the wallets *)

List(a) ==
    /\ listings[a] < MaxListings
    /\ listings' = [listings EXCEPT ![a] = @ + 1]
    /\ shelf' = shelf \cup {a}
    /\ UNCHANGED <<items, ids, pc, moveVars, listVars, paid, identity, chain, dead,
                   faults, spoilt>>

\* The VM stores the bare name of the asset under "utxo:<name>:<tx>-0", which
\* is neither an item nor JSON.
Purchase(p) ==
    /\ p \notin chain
    /\ chain' = chain \cup {p}
    /\ UNCHANGED <<shelf, items, ids, pc, moveVars, listVars, paid, identity, dead,
                   listings, faults, spoilt>>

NewWallet(w, u) ==
    /\ CreateWallet(w, u)
    /\ UNCHANGED <<shelf, items, ids, pc, moveVars, listVars, paid, chain, dead,
                   listings, faults, spoilt>>

-----------------------------------------------------------------------------
(* HandleMarketBuy *)

IsBuy(c) == seen[c] > 0
Live(c)  == pc[c] \notin {"idle", "done"} /\ c \notin dead

Step(c, from, to) ==
    /\ pc[c] = from
    /\ c \notin dead
    /\ pc' = [pc EXCEPT ![c] = to]

Fault(A) ==
    /\ faults < MaxFaults
    /\ faults' = faults + 1
    /\ spoilt' = spoilt \cup A

\* A buyer finds the asset and reads its item.
Find(c, q, a) ==
    /\ Step(c, "idle", "pay")
    /\ who' = [who EXCEPT ![c] = q]
    /\ owner' = [owner EXCEPT ![c] = q]
    /\ asset' = [asset EXCEPT ![c] = a]
    /\ item' = [item EXCEPT ![c] = "bought"]
    /\ seen' = [seen EXCEPT ![c] = listings[a]]
    /\ spoilt' = IF \E d \in Calls : Live(d) /\ IsBuy(d) /\ asset[d] = a
                 THEN spoilt \cup {a} ELSE spoilt
    /\ UNCHANGED <<shelf, items, ids, dest, copy, todo, fetched, paid, identity, chain, dead,
                   listings, faults>>

\* Faulty variant: the answer of the look-up is not checked.
LookUnchecked(c, q, a) == Find(c, q, a)

Look(c, q, a) == a \in shelf /\ Find(c, q, a)

\* The nonce and the transfer of the price.
Pay(c) ==
    /\ Step(c, "pay", "resolve")
    /\ paid' = paid \cup {c}
    /\ UNCHANGED <<shelf, items, ids, moveVars, listVars, worldVars>>

PayRefused(c) ==
    /\ Step(c, "pay", "done")
    /\ UNCHANGED <<shelf, items, ids, moveVars, listVars, paid, worldVars>>

\* The handler cannot tell a payment without an answer from a refusal.
PayLost(c) ==
    /\ Step(c, "pay", "done")
    /\ paid' = paid \cup {c}
    /\ Fault({asset[c]})
    /\ UNCHANGED <<shelf, items, ids, moveVars, listVars, identity, chain, dead, listings>>

-----------------------------------------------------------------------------
(* TransferAssetToUser *)

Resolve(c) ==
    /\ Step(c, "resolve", "putItem")
    /\ dest' = [dest EXCEPT ![c] = ResolveToBVM(owner[c])]
    /\ UNCHANGED <<shelf, items, ids, who, asset, item, owner, listVars, paid, worldVars>>

PutItem(c) ==
    /\ Step(c, "putItem", "getIds")
    /\ items' = [items EXCEPT ![dest[c]][asset[c]] = item[c]]
    /\ UNCHANGED <<shelf, ids, moveVars, listVars, paid, worldVars>>

GetIds(c) ==
    /\ Step(c, "getIds", IF asset[c] \in ids[dest[c]] THEN "unlist" ELSE "putIds")
    /\ copy' = [copy EXCEPT ![c] = ids[dest[c]]]
    /\ UNCHANGED <<shelf, items, ids, moveVars, todo, fetched, seen, paid, worldVars>>

\* Faulty variant: the list of the name instead of the address.
PutIdsOfName(c) ==
    /\ Step(c, "putIds", "unlist")
    /\ ids' = [ids EXCEPT ![who[c]] = copy[c] \cup {asset[c]}]
    /\ UNCHANGED <<shelf, items, moveVars, listVars, paid, worldVars>>

PutIds(c) ==
    /\ Step(c, "putIds", "unlist")
    /\ ids' = [ids EXCEPT ![dest[c]] = copy[c] \cup {asset[c]}]
    /\ UNCHANGED <<shelf, items, moveVars, listVars, paid, worldVars>>

\* Faulty variant: the asset stays on the shelf.
UnlistForgotten(c) ==
    /\ Step(c, "unlist", IF IsBuy(c) THEN "done" ELSE "repair")
    /\ UNCHANGED <<shelf, items, ids, moveVars, listVars, paid, worldVars>>
Unlist(c) ==
    /\ Step(c, "unlist", IF IsBuy(c) THEN "done" ELSE "repair")
    /\ shelf' = shelf \ {asset[c]}
    /\ UNCHANGED <<items, ids, moveVars, listVars, paid, worldVars>>

-----------------------------------------------------------------------------
(* HandleRepairInventory *)

StartRepair(c, q) ==
    /\ Step(c, "idle", "fetch")
    /\ who' = [who EXCEPT ![c] = q]
    /\ owner' = [owner EXCEPT ![c] = ResolveToBVM(q)]
    /\ UNCHANGED <<shelf, items, ids, asset, item, dest, listVars, paid, worldVars>>

Fetch(c) ==
    LET bought == {a \in Assets : <<owner[c], a>> \in chain} IN
    /\ Step(c, "fetch", "repair")
    /\ todo' = [todo EXCEPT ![c] = bought]
    /\ fetched' = [fetched EXCEPT ![c] = bought]
    /\ UNCHANGED <<shelf, items, ids, moveVars, copy, seen, paid, worldVars>>

FetchFails(c) ==
    /\ Step(c, "fetch", "done")
    /\ Fault({})
    /\ UNCHANGED <<shelf, items, ids, moveVars, listVars, paid, identity, chain, dead, listings>>

\* One purchase of the history.  The key that the handler looks for is made
\* from the clock, so that it is never there; the item is stored under the
\* name of the asset, for the address that the first look-up gave.
Recover(c) ==
    \E a \in todo[c] :
        /\ Step(c, "repair", "resolve")
        /\ todo' = [todo EXCEPT ![c] = @ \ {a}]
        /\ asset' = [asset EXCEPT ![c] = a]
        /\ item' = [item EXCEPT ![c] = "recovered"]
        /\ UNCHANGED <<shelf, items, ids, who, owner, dest, copy, fetched, seen, paid, worldVars>>

EndRepair(c) ==
    /\ todo[c] = {}
    /\ Step(c, "repair", "done")
    /\ UNCHANGED <<shelf, items, ids, moveVars, listVars, paid, worldVars>>

-----------------------------------------------------------------------------
\* The process dies with its requests; payments under way may still arrive.
Crash ==
    LET stopped == {c \in Calls : Live(c)} IN
    /\ dead' = dead \cup stopped
    /\ Fault({asset[c] : c \in {d \in stopped : IsBuy(d)}})
    /\ \E late \in SUBSET {c \in stopped : pc[c] = "pay"} : paid' = paid \cup late
    /\ UNCHANGED <<shelf, items, ids, pc, moveVars, listVars, identity, chain, listings>>

Next ==
    \/ \E a \in Assets : List(a)
    \/ \E p \in Purchases : Purchase(p)
    \/ \E w \in Wallets : \E u \in Aliases \cup {NoName} : NewWallet(w, u)
    \/ \E c \in Calls :
          \/ \E q \in Buyers : StartRepair(c, q) \/ \E a \in Assets : Look(c, q, a)
          \/ Pay(c) \/ PayRefused(c) \/ PayLost(c)
          \/ Resolve(c) \/ PutItem(c) \/ GetIds(c) \/ PutIds(c) \/ Unlist(c)
          \/ Fetch(c) \/ FetchFails(c) \/ Recover(c) \/ EndRepair(c)
    \/ Crash

Spec == Init /\ [][Next]_vars

-----------------------------------------------------------------------------
(* Properties *)

Stages == {"idle", "pay", "resolve", "putItem", "getIds", "putIds", "unlist",
           "fetch", "repair", "done"}

\* Variables keep their shapes; a request that moves an asset has an owner, and an
\* address once it has looked it up.
TypeOK ==
    /\ IdentityOK
    /\ shelf \subseteq Assets
    /\ items \in [Names -> [Assets -> Items \cup {NoItem}]]
    /\ ids \in [Names -> SUBSET Assets]
    /\ chain \subseteq Purchases
    /\ pc \in [Calls -> Stages]
    /\ who \in [Calls -> Names \cup {NoName}]
    /\ owner \in [Calls -> Names \cup {NoName}]
    /\ dest \in [Calls -> Names \cup {NoName}]
    /\ \A c \in Calls :
          /\ pc[c] \in {"resolve", "putItem", "getIds", "putIds", "unlist"} => owner[c] # NoName
          /\ pc[c] \in {"putItem", "getIds", "putIds", "unlist"} => dest[c] # NoName
    /\ asset \in [Calls -> Assets \cup {NoName}]
    /\ item \in [Calls -> Items \cup {NoItem}]
    /\ copy \in [Calls -> SUBSET Assets]
    /\ todo \in [Calls -> SUBSET Assets]
    /\ fetched \in [Calls -> SUBSET Assets]
    /\ seen \in [Calls -> 0 .. MaxListings]
    /\ paid \subseteq Calls
    /\ dead \subseteq Calls
    /\ listings \in [Assets -> 0 .. MaxListings]
    /\ faults \in 0 .. MaxFaults
    /\ spoilt \subseteq Assets

\* What HandleGetInventory shows for q.
Visible(q, a) == \E n \in Scanned(q) : items[n][a] # NoItem

Delivered(c) == IsBuy(c) /\ pc[c] = "done" /\ dest[c] # NoName

\* Lists lose entries when requests overlap, but whatever a list names is
\* stored for the same address, also after a crash between the two Puts.
ListedIsStored ==
    \A n \in Names : \A a \in ids[n] : items[n][a] # NoItem

\* Who bought an asset, or had purchases repaired, under the native or the 0x
\* address of a wallet finds all of it in the inventory of the same address from
\* then on, although handler and inventory resolve in opposite directions and
\* the wallet may get its mapping before, during or after the request.
OwnerSeesAll ==
    \A c \in Calls : pc[c] = "done" /\ (IsNative(who[c]) \/ IsEth(who[c])) =>
        /\ Delivered(c) => Visible(who[c], asset[c])
        /\ \A a \in fetched[c] : Visible(who[c], a)

\* A sold asset is not on offer again unless the crawler has listed it anew
\* after the buyer looked at it.
SoldIsOffShelf ==
    \A c \in Calls :
        Delivered(c) /\ asset[c] \in shelf => seen[c] < listings[asset[c]]

\* One listing is paid for once, unless two buyers were at work on the asset at
\* the same time, or a crash or a lost answer cut a sale off.
PaidOncePerListing ==
    \A c, d \in paid :
        asset[c] = asset[d] /\ seen[c] = seen[d] /\ asset[c] \notin spoilt => c = d

=============================================================================
