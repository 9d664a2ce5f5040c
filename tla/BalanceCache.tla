---------------------------- MODULE BalanceCache ----------------------------
(***************************************************************************)
(* The balances the gateway keeps of its own ("s:" keys) under everything  *)
(* that writes them: the swap and liquidity handlers                       *)
(* (pkg/rpc/dex_handler.go), BuildWalletMetadata, which they and           *)
(* HandleSearch call (pkg/rpc/wallet_handler.go), HandleGetState           *)
(* (pkg/rpc/handlers.go), and the crawler (pkg/state/sync.go).             *)
(*                                                                         *)
(* The handlers store a record, the crawler stores a bare number.  A read  *)
(* expects a record and takes anything else for zero.  Every store call    *)
(* and every call of the Core is a step, no lock is held between them, and *)
(* no store call fails.                                                    *)
(* The nonce in the record is left out.  Amounts and balances are natural  *)
(* numbers: what the check lets through is at most a balance, and the Core *)
(* has fewer coins than fit in an int64.                                   *)
(***************************************************************************)
EXTENDS Identity, Naturals

CONSTANTS
    Senders,    \* what requests may name; a name of no wallet is an unknown string
    Calls,      \* the requests
    NoReq,      \* a request that has not arrived yet
    Amounts,    \* amounts that requests may name
    Reports,    \* balances that the Core may report
    MaxChanges, \* bound: changes of the Core's balances
    MaxCrashes  \* bound: crashes

Vault == <<"vault", "reserve_system">>     \* DexVaultAddr

Accounts == Names \cup {Vault}

\* What a request may ask for: HandleSwap, HandleAddLiquidity,
\* HandleRemoveLiquidity, HandleSearch, HandleGetState.
Request ==
    [kind : {"swap", "add"}, from : Senders, amount : Amounts] \cup
    [kind : {"remove"}, from : {Vault}, amount : Amounts] \cup
    [kind : {"search", "state"}, from : Senders, amount : {0}]

ASSUME CacheAssumption ==
    /\ Senders \subseteq Accounts
    /\ NoReq \notin Request
    /\ Amounts \subseteq Nat /\ Reports \subseteq Nat
    /\ MaxChanges \in Nat /\ MaxCrashes \in Nat

VARIABLES
    cell,       \* cell[a]: the shape and the value under the key of a
    core,       \* core[a]: the balance of a in the Core
    pc, req,    \* per request: its next step and its body
    key,        \* the account whose key it looks up
    got,        \* what it has read or was told last
    dead,       \* requests that a crash stopped
    changes,    \* history: changes of the Core so far
    crashes,    \* history: crashes so far
    peak,       \* history: the most the Core has reported of an account
    debited,    \* history: what swaps that have debited their sender asked for
    credited,   \* history: what swaps have credited to the vault
    cut,        \* history: swaps whose debit was cut at zero
    disturbed   \* history: requests whose key someone else wrote meanwhile

callVars == <<pc, req, key, got>>
totals   == <<debited, credited>>
pastVars == <<dead, changes, crashes, peak, totals, cut>>
vars == <<identity, cell, core, callVars, pastVars, disturbed>>

Cell == [shape : {"none", "number", "record"}, value : Nat]
Record(v) == [shape |-> "record", value |-> v]
Number(v) == [shape |-> "number", value |-> v]
Empty == [shape |-> "none", value |-> 0]

Init ==
    /\ IdentityInit
    /\ cell = [a \in Accounts |-> Empty]
    /\ core = [a \in Accounts |-> 0]
    /\ pc = [c \in Calls |-> "idle"]
    /\ req = [c \in Calls |-> NoReq]
    /\ key = [c \in Calls |-> Vault]
    /\ got = [c \in Calls |-> 0]
    /\ dead = {}
    /\ changes = 0
    /\ crashes = 0
    /\ peak = [a \in Accounts |-> 0]
    /\ debited = 0 /\ credited = 0
    /\ cut = {}
    /\ disturbed = {}

-----------------------------------------------------------------------------
(* Reading and writing a key *)

Balance(a) == IF cell[a].shape = "record" THEN cell[a].value ELSE 0

\* Nobody registers the vault's key as a name.
Resolved(q) == IF q = Vault THEN q ELSE ResolveToBVM(q)

\* BuildWalletMetadata resolves a 0x address.
MetaKey(q) == IF IsEth(q) THEN Resolved(q) ELSE q

\* HandleGetState uses the name as it is, HandleSearch resolves it once more.
KeyOf(r) ==
    CASE r.kind = "state"  -> r.from
      [] r.kind = "search" -> MetaKey(Resolved(r.from))
      [] OTHER             -> MetaKey(r.from)

\* The keys request c counts on until its next write: what it has validated, and
\* later what it has read; HandleGetState may store again what it has read.
Watched(c) ==
    CASE pc[c] \in {"readFrom", "putFrom"}                      -> {key[c], req[c].from}
      [] pc[c] = "putVault"                                     -> {Vault}
      [] pc[c] \in {"answer", "put"} /\ req[c].kind = "state"   -> {key[c]}
      [] OTHER                                                  -> {}

Write(a, v, writer) ==
    /\ cell' = [cell EXCEPT ![a] = v]
    /\ disturbed' = disturbed \cup {c \in Calls \ writer : a \in Watched(c) /\ c \notin dead}

NoWrite == UNCHANGED <<cell, disturbed>>

-----------------------------------------------------------------------------
(* The Core, the crawler and the wallets *)

Change(a, v) ==
    /\ changes < MaxChanges /\ v # core[a]
    /\ changes' = changes + 1
    /\ core' = [core EXCEPT ![a] = v]
    /\ peak' = [peak EXCEPT ![a] = IF v > @ THEN v ELSE @]
    /\ NoWrite
    /\ UNCHANGED <<identity, callVars, dead, crashes, totals, cut>>

\* The crawler has met a transaction of a.
Crawl(a) ==
    /\ Write(a, Number(core[a]), {})
    /\ UNCHANGED <<identity, core, callVars, pastVars>>

NewWallet(w) ==
    /\ CreateWallet(w, NoName)
    /\ NoWrite
    /\ UNCHANGED <<core, callVars, pastVars>>

-----------------------------------------------------------------------------
(* Requests *)

Live(c) == pc[c] \notin {"idle", "done"} /\ c \notin dead

Step(c, from, to) ==
    /\ pc[c] = from
    /\ c \notin dead
    /\ pc' = [pc EXCEPT ![c] = to]

Start(c, r) ==
    /\ Step(c, "idle", "meta")
    /\ req' = [req EXCEPT ![c] = r]
    /\ key' = [key EXCEPT ![c] = KeyOf(r)]
    /\ NoWrite
    /\ UNCHANGED <<identity, core, got, pastVars>>

\* Faulty variant: the balance is not checked.
UncheckedAfter(c, balance) ==
    CASE req[c].kind \in {"search", "state"} -> "done"
      [] req[c].kind = "swap"                -> "readFrom"
      [] OTHER                               -> "report"

\* A request that asks for an amount the account has.
Passes(c, balance) == req[c].kind \in {"swap", "add", "remove"} /\ req[c].amount <= balance

\* Faulty variant: giving liquidity debits the giver as well.
AfterAsSwap(c, balance) ==
    IF ~Passes(c, balance) THEN "done" ELSE IF req[c].kind = "remove" THEN "report" ELSE "readFrom"

\* Where a request goes on with the balance it was told of.
After(c, balance) ==
    IF ~Passes(c, balance) THEN "done" ELSE IF req[c].kind = "swap" THEN "readFrom" ELSE "report"

ReadMeta(c) ==
    LET balance == Balance(key[c]) IN
    /\ Step(c, "meta", After(c, balance))
    /\ balance > 0
    /\ NoWrite
    /\ UNCHANGED <<identity, core, req, key, got, pastVars>>

\* A balance of zero is asked from the Core; HandleGetState also asks when the
\* nonce is zero.
Ask(c) ==
    /\ Step(c, "meta", "answer")
    /\ Balance(key[c]) = 0 \/ req[c].kind = "state"
    /\ got' = [got EXCEPT ![c] = Balance(key[c])]
    /\ NoWrite
    /\ UNCHANGED <<identity, core, req, key, pastVars>>

\* An answer without a balance stands for zero, and for HandleGetState for what it
\* has read.
Told(c) == {core[key[c]], got[c]}

\* HandleGetState keeps an answer only when it is not zero; its nonce may count.
Answered(c) ==
    /\ Step(c, "answer", "put")
    /\ \E balance \in Told(c) : got' = [got EXCEPT ![c] = balance]
    /\ NoWrite
    /\ UNCHANGED <<identity, core, req, key, pastVars>>

NotKept(c) ==
    /\ Step(c, "answer", "done")
    /\ req[c].kind = "state" /\ 0 \in Told(c)
    /\ NoWrite
    /\ UNCHANGED <<identity, core, req, key, got, pastVars>>

AskFails(c) ==
    /\ Step(c, "answer", After(c, 0))
    /\ NoWrite
    /\ UNCHANGED <<identity, core, req, key, got, pastVars>>

PutMeta(c) ==
    /\ Step(c, "put", After(c, got[c]))
    /\ Write(key[c], Record(got[c]), {c})
    /\ UNCHANGED <<identity, core, req, key, got, pastVars>>

-----------------------------------------------------------------------------
(* HandleSwap moves the amount with two calls of UpdateL2Balance, which both *)
(* use the name as it came, and hands a transaction to the mempool.          *)

ReadFrom(c) ==
    /\ Step(c, "readFrom", "putFrom")
    /\ got' = [got EXCEPT ![c] = Balance(req[c].from)]
    /\ NoWrite
    /\ UNCHANGED <<identity, core, req, key, pastVars>>

\* Faulty variant: no protection from underflow in a word of 4 bits.
DebitWraps(balance, amount) == (balance + 16 - amount) % 16

\* A debit stops at zero.
Debit(balance, amount) == IF balance >= amount THEN balance - amount ELSE 0

PutFrom(c) ==
    /\ Step(c, "putFrom", "readVault")
    /\ Write(req[c].from, Record(Debit(got[c], req[c].amount)), {c})
    /\ cut' = IF got[c] < req[c].amount THEN cut \cup {c} ELSE cut
    /\ debited' = debited + req[c].amount
    /\ UNCHANGED <<identity, core, req, key, got, dead, changes, crashes, peak, credited>>

ReadVault(c) ==
    /\ Step(c, "readVault", "putVault")
    /\ got' = [got EXCEPT ![c] = Balance(Vault)]
    /\ NoWrite
    /\ UNCHANGED <<identity, core, req, key, pastVars>>

\* Faulty variant: the vault holds the last swap only.
PutVaultAnew(c) ==
    /\ Step(c, "putVault", "report")
    /\ Write(Vault, Record(req[c].amount), {c})
    /\ credited' = credited + req[c].amount
    /\ UNCHANGED <<identity, core, req, key, got, dead, changes, crashes, peak, debited, cut>>

PutVault(c) ==
    /\ Step(c, "putVault", "report")
    /\ Write(Vault, Record(got[c] + req[c].amount), {c})
    /\ credited' = credited + req[c].amount
    /\ UNCHANGED <<identity, core, req, key, got, dead, changes, crashes, peak, debited, cut>>

\* AddL2 (see NexusMempool); a swap goes on whatever it answers, and the other
\* requests end with it.
Report(c) ==
    /\ Step(c, "report", "done")
    /\ NoWrite
    /\ UNCHANGED <<identity, core, req, key, got, pastVars>>

\* The process dies and starts again; the requests it was serving are gone.
Crash ==
    /\ crashes < MaxCrashes /\ \E c \in Calls : Live(c)
    /\ crashes' = crashes + 1
    /\ dead' = dead \cup {c \in Calls : Live(c)}
    /\ NoWrite
    /\ UNCHANGED <<identity, core, callVars, changes, peak, totals, cut>>

Next ==
    \/ \E a \in Senders \cup {Vault} : Crawl(a) \/ \E v \in Reports : Change(a, v)
    \/ \E w \in Wallets : NewWallet(w)
    \/ \E c \in Calls :
          \/ \E r \in Request : Start(c, r)
          \/ ReadMeta(c) \/ Ask(c) \/ Answered(c) \/ NotKept(c) \/ AskFails(c) \/ PutMeta(c)
          \/ ReadFrom(c) \/ PutFrom(c) \/ ReadVault(c) \/ PutVault(c) \/ Report(c)
    \/ Crash

Spec == Init /\ [][Next]_vars

-----------------------------------------------------------------------------
(* Properties *)

\* Keys, requests and histories keep their shapes; only a swap moves anything.
TypeOK ==
    /\ IdentityOK
    /\ cell \in [Accounts -> Cell] /\ core \in [Accounts -> Reports \cup {0}]
    /\ pc \in [Calls -> {"idle", "meta", "answer", "put", "readFrom", "putFrom",
                         "readVault", "putVault", "report", "done"}]
    /\ req \in [Calls -> Request \cup {NoReq}]
    /\ key \in [Calls -> Accounts] /\ got \in [Calls -> Nat]
    /\ \A c \in Calls :
          /\ pc[c] # "idle" => req[c] \in Request
          /\ pc[c] \in {"readFrom", "putFrom", "readVault", "putVault"} => req[c].kind = "swap"
          /\ pc[c] = "report" => req[c].kind \in {"swap", "add", "remove"}
    /\ peak \in [Accounts -> Nat] /\ debited \in Nat /\ credited \in Nat
    /\ changes \in 0 .. MaxChanges /\ crashes \in 0 .. MaxCrashes
    /\ dead \cup cut \cup disturbed \subseteq Calls

\* However swaps, look-ups, reports of the Core and crashes overlap, no account
\* ever shows more than the Core has reported of it, and the vault no more than
\* that and the swaps that credited it: lost debits can give back what a swap
\* took but never more, and no credit counts twice
\* (dex_handler.go:38, 141-154, wallet_handler.go:122-134).
BalanceBacked ==
    \A a \in Accounts : Balance(a) <= peak[a] + IF a = Vault THEN credited ELSE 0

\* A swap takes less from its sender than it gives to the vault only if someone
\* else wrote the sender's key between the check and the debit, or if the sender
\* came as a 0x address (dex_handler.go:30-37).
CutNeedsCause == \A c \in cut : c \in disturbed \/ IsEth(req[c].from)

-----------------------------------------------------------------------------
(* The swap book *)

\* Swaps that have debited their sender and not yet credited the vault.
Pending == {c \in Calls : pc[c] \in {"readVault", "putVault"}}

\* What they are about to credit already belongs to the vault.
Book == [a \in Accounts |-> Balance(a) + IF a = Vault THEN debited - credited ELSE 0]

Swaps == INSTANCE SwapBook WITH book <- Book

\* No crash, no write to a key that a request counts on, no swap in the name of a
\* 0x address; and but for credits the vault stays as it is until they have made up
\* for the debits.
Calm ==
    /\ disturbed' = {} /\ crashes' = 0
    /\ \A c \in Calls : pc'[c] = "done" \/ req'[c] = NoReq \/ ~IsEth(req'[c].from)
    /\ cell'[Vault] # cell[Vault] => debited = credited \/ Pending' # Pending

\* As long as requests do not get in each other's way, checking, debiting and
\* crediting add up to swaps at one stroke that never move more than the sender
\* has (dex_handler.go:17-55).
KeepsBook == Swaps!Init /\ [][Calm => UNCHANGED Book \/ Swaps!Next]_vars
=============================================================================
