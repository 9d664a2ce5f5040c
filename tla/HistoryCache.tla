---------------------------- MODULE HistoryCache ----------------------------
(***************************************************************************)
(* The address histories ("h:" keys) under their two writers: the crawler  *)
(* (pkg/state/sync.go) and HandleAddressHistory (pkg/rpc/handlers.go),     *)
(* which fetches from the Core what it does not find and stores the list   *)
(* once more under the name of the query.                                  *)
(*                                                                         *)
(* A block has one transaction, and a list is a set.  Which entries are    *)
(* its last is left open: the Core's lists come in the Core's order.  The  *)
(* rest of the crawler is in StateSync.                                    *)
(***************************************************************************)
EXTENDS Identity, Naturals, Sequences, FiniteSets

CONSTANTS
    Parties,    \* Parties[t]: sender and recipient of transaction t
    Queries,    \* names that requests may ask for
    Calls,      \* the requests
    Limit,      \* what the crawler leaves of a history (50 in the code)
    MaxCrashes  \* bound: crashes

ASSUME HistoryAssumption ==
    /\ Parties \in Seq(Names \X Names)
    /\ Queries \subseteq Names
    /\ Limit \in Nat \ {0}
    /\ MaxCrashes \in Nat

Txs == DOMAIN Parties

VARIABLES
    mined,      \* the Core's height
    hist,       \* hist[n]: the transactions stored for n
    done,       \* "latest_height"
    side, held, \* the crawler: party of block done + 1, "got" or "none"
    copy,       \* the history it has read
    pc, query,  \* per request: its next step, the name it asks for
    key,        \* the name that this stands for
    list,       \* the history it has read or was told
    cut,        \* history: <<n, t>> that were beyond the limit
    overwritten,\* history: <<n, t>> that a request may have written over
    crashes     \* history: crashes so far

crawlVars == <<done, side, held, copy, cut>>
callVars  == <<pc, query, key, list>>
vars == <<identity, mined, hist, crawlVars, callVars, overwritten, crashes>>

Init ==
    /\ IdentityInit
    /\ mined = 0 /\ done = 0 /\ side = 1 /\ held = "none" /\ copy = {}
    /\ hist = [n \in Names |-> {}]
    /\ pc = [c \in Calls |-> "idle"]
    /\ query = [c \in Calls |-> NoName] /\ key = query
    /\ list = [c \in Calls |-> {}]
    /\ cut = {} /\ overwritten = {}
    /\ crashes = 0

-----------------------------------------------------------------------------
(* The Core, the wallets and the crawler *)

Mine ==
    /\ mined < Len(Parties)
    /\ mined' = mined + 1
    /\ UNCHANGED <<identity, hist, crawlVars, callVars, overwritten, crashes>>

NewWallet(w, u) ==
    /\ CreateWallet(w, u)
    /\ UNCHANGED <<mined, hist, crawlVars, callVars, overwritten, crashes>>

tx    == done + 1
party == Parties[tx][side]

\* The crawler is done with a party; requests may hold an older answer of the Core.
NextParty ==
    /\ side' = side + 1
    /\ overwritten' = overwritten \cup
          {<<party, tx>> : c \in {d \in Calls : pc[d] = "put" /\ key[d] = party
                                              /\ tx \notin list[d]}}

\* The transaction may be there already, from an earlier start or from the Core.
CrawlGet ==
    /\ done < mined /\ side <= 2 /\ held = "none"
    /\ IF tx \in hist[party]
       THEN NextParty /\ UNCHANGED <<held, copy>>
       ELSE held' = "got" /\ copy' = hist[party] /\ UNCHANGED <<side, overwritten>>
    /\ UNCHANGED <<identity, mined, hist, done, cut, callVars, crashes>>

\* Faulty variant: the history is begun anew.
CrawlPutAnew ==
    /\ held = "got"
    /\ hist' = [hist EXCEPT ![party] = {tx}]
    /\ NextParty
    /\ held' = "none" /\ copy' = {}
    /\ UNCHANGED <<identity, mined, done, cut, callVars, crashes>>

\* The older entries that leave room for the new one at the head.
Kept ==
    IF Cardinality(copy) < Limit THEN {copy}
    ELSE {older \in SUBSET copy : Cardinality(older) = Limit - 1}

CrawlPut ==
    /\ held = "got"
    /\ \E older \in Kept : /\ hist' = [hist EXCEPT ![party] = older \cup {tx}]
                           /\ cut' = cut \cup {<<party, t>> : t \in copy \ older}
    /\ NextParty
    /\ held' = "none" /\ copy' = {}
    /\ UNCHANGED <<identity, mined, done, callVars, crashes>>

Commit ==
    /\ side = 3
    /\ done' = done + 1 /\ side' = 1
    /\ UNCHANGED <<identity, mined, hist, held, copy, cut, callVars, overwritten, crashes>>

-----------------------------------------------------------------------------
(* HandleAddressHistory *)

Step(c, from, to) == pc[c] = from /\ pc' = [pc EXCEPT ![c] = to]

\* Where a request goes on once it has a history.
Then(c) == IF query[c] = key[c] THEN "done" ELSE "copy"

\* One look-up, whatever the name: a native address with a wallet stands for
\* the 0x form of that wallet.
Start(c, q) ==
    /\ Step(c, "idle", "read")
    /\ query' = [query EXCEPT ![c] = q]
    /\ key' = [key EXCEPT ![c] = ResolveToBVM(q)]
    /\ UNCHANGED <<identity, mined, hist, crawlVars, list, overwritten, crashes>>

Read(c) ==
    /\ Step(c, "read", IF hist[key[c]] = {} THEN "ask" ELSE Then(c))
    /\ list' = [list EXCEPT ![c] = hist[key[c]]]
    /\ UNCHANGED <<identity, mined, hist, crawlVars, query, key, overwritten, crashes>>

\* The Core knows what it has mined, and does not know names.
Ask(c) ==
    LET answer == {t \in 1 .. mined : \E s \in {1, 2} : Parties[t][s] = key[c]} IN
    /\ Step(c, "ask", IF answer = {} THEN "done" ELSE "put")
    /\ list' = [list EXCEPT ![c] = answer]
    /\ UNCHANGED <<identity, mined, hist, crawlVars, query, key, overwritten, crashes>>

AskFails(c) ==
    /\ Step(c, "ask", "done")
    /\ UNCHANGED <<identity, mined, hist, crawlVars, query, key, list, overwritten, crashes>>

\* Faulty variant: the name is looked up a second time.
PutLookedUp(c) ==
    /\ Step(c, "put", Then(c))
    /\ hist' = [hist EXCEPT ![ResolveToBVM(query[c])] = list[c]]
    /\ UNCHANGED <<identity, mined, crawlVars, query, key, list, overwritten, crashes>>

Put(c) ==
    /\ Step(c, "put", Then(c))
    /\ hist' = [hist EXCEPT ![key[c]] = list[c]]
    /\ UNCHANGED <<identity, mined, crawlVars, query, key, list, overwritten, crashes>>

PutCopy(c) ==
    /\ Step(c, "copy", "done")
    /\ hist' = [hist EXCEPT ![query[c]] = list[c]]
    /\ overwritten' = overwritten \cup {<<query[c], t>> : t \in 1 .. tx}
    /\ UNCHANGED <<identity, mined, crawlVars, query, key, list, crashes>>

\* The crawler starts again with its block; the requests are gone.
Crash ==
    /\ crashes < MaxCrashes
    /\ crashes' = crashes + 1
    /\ side' = 1 /\ held' = "none" /\ copy' = {}
    /\ pc' = [c \in Calls |-> IF pc[c] = "idle" THEN "idle" ELSE "done"]
    /\ UNCHANGED <<identity, mined, hist, done, cut, query, key, list, overwritten>>

Next ==
    \/ Mine \/ CrawlGet \/ CrawlPut \/ Commit \/ Crash
    \/ \E w \in Wallets : \E u \in Aliases \cup {NoName} : NewWallet(w, u)
    \/ \E c \in Calls :
          \/ \E q \in Queries : Start(c, q)
          \/ Read(c) \/ Ask(c) \/ AskFails(c) \/ Put(c) \/ PutCopy(c)

Spec == Init /\ [][Next]_vars

-----------------------------------------------------------------------------
(* Properties *)

\* The transactions that may be stored for n: those of any name of its wallet.
\* An alias keeps what its last owner has left there.
Own(n) ==
    IF n \in {Alias(u) : u \in Aliases} THEN Txs
    ELSE {t \in Txs : \E s \in {1, 2} : Parties[t][s][2] = n[2]}

\* The shapes; and no history, and no answer, ever holds a transaction of
\* another wallet, although lists are copied from name to name and an alias may
\* pass to another wallet in the middle of a request.
TypeOK ==
    /\ IdentityOK
    /\ mined \in 0 .. Len(Parties) /\ done \in 0 .. mined /\ side \in 1 .. 3
    /\ held \in {"none", "got"}
    /\ held = "got" => done < mined /\ side <= 2 /\ copy \subseteq Own(party)
    /\ side = 3 => done < mined
    /\ hist \in [Names -> SUBSET Txs] /\ \A n \in Names : hist[n] \subseteq Own(n)
    /\ pc \in [Calls -> {"idle", "read", "ask", "put", "copy", "done"}]
    /\ query \in [Calls -> Names \cup {NoName}] /\ key \in [Calls -> Names \cup {NoName}]
    /\ list \in [Calls -> SUBSET Txs]
    /\ \A c \in Calls : pc[c] # "idle" => /\ query[c] \in Names /\ key[c] \in Names
                                           /\ list[c] \subseteq Own(key[c])
    /\ crashes \in 0 .. MaxCrashes

\* Whatever the crawler has committed is in the histories of both parties,
\* unless newer transactions took its place in a full history, or a request has
\* stored an answer of the Core that was older, or copied a list over the history
\* after the transaction was entered (handlers.go:391, 401; sync.go:92-107).
NothingLost ==
    \A t \in 1 .. done : \A s \in {1, 2} :
        LET n == Parties[t][s] IN t \in hist[n] \/ <<n, t>> \in cut \cup overwritten
=============================================================================
