------------------------------ MODULE Identity ------------------------------
(***************************************************************************)
(* The identity registry: the "id:" keys that HandleCreateWallet writes    *)
(* (pkg/rpc/wallet_handler.go), and the ways the handlers read them.       *)
(*                                                                         *)
(* A name is what a request may call an owner by: the native address, the  *)
(* 0x form or the Nexus id of a wallet, or an alias ("@...").              *)
(***************************************************************************)
EXTENDS TLC

CONSTANTS
    Wallets,    \* the wallets that may be created
    Aliases,    \* usernames
    NoName      \* the answer of a look-up of a key that is not there

Native(w) == <<"bvmf", w>>
Eth(w)    == <<"0x", w>>
Nexus(w)  == <<"nexus_", w>>
Alias(u)  == <<"@", u>>

Names ==
    {Native(w) : w \in Wallets} \cup {Eth(w) : w \in Wallets} \cup
    {Nexus(w) : w \in Wallets} \cup {Alias(u) : u \in Aliases}

IsNative(q) == q[1] = "bvmf"
IsEth(q)    == q[1] = "0x"

ASSUME IdentityAssumption == NoName \notin Names /\ NoName \notin Aliases

VARIABLE identity

IdentityOK == identity \in [Names -> Names \cup {NoName}]

IdentityInit == identity = [q \in Names |-> NoName]

Created(w) == identity[Native(w)] # NoName

\* A fresh wallet registers its names, and the back-reference from its native
\* address to its 0x form; an alias in use is taken over.  Nobody knows the
\* names of a wallet before the handler answers, so that the four Puts are one
\* step for everyone else.
CreateWallet(w, u) ==
    /\ ~Created(w)
    /\ identity' = [q \in Names |->
          CASE q \in {Eth(w), Nexus(w)}       -> Native(w)
            [] q = Native(w)                  -> Eth(w)
            [] u # NoName /\ q = Alias(u)     -> Native(w)
            [] OTHER                          -> identity[q]]

\* Faulty variant: no way out for a name that is not registered.
ResolveOrNothing(q) == identity[q]

\* One look-up; an unknown name stands for itself.
ResolveToBVM(q) == IF identity[q] = NoName THEN q ELSE identity[q]

\* Faulty variant: only the first of the two scans.
ScannedOneWay(q) == IF IsEth(q) THEN {ResolveToBVM(q)} ELSE {q}

\* The addresses whose items HandleGetInventory collects for q.  Nothing writes
\* the "user:" key by which it tries to resolve a username.
Scanned(q) == IF IsEth(q) \/ IsNative(q) THEN {q, ResolveToBVM(q)} ELSE {q}
=============================================================================
