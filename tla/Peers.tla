------------------------------- MODULE Peers -------------------------------
(***************************************************************************)
(* The file peers.json (pkg/p2p/bootstrap.go) under AutoBootstrap, the     *)
(* goroutine it starts for every address of the file, and the goroutine    *)
(* that calls CleanInactivePeers (cmd/nexusd/main.go).                     *)
(*                                                                         *)
(* Each reads the file, and may write it again as a whole; os.WriteFile    *)
(* truncates it first and writes then.  What is blank or torn reads as the *)
(* empty list.  Peers found by mDNS have no multiaddress and are never     *)
(* saved; the HTTP handlers for peers store nothing.  Time is in days.     *)
(* The names carry the component, so that NodeProofs can extend it beside  *)
(* Archive and MiningStats.                                                *)
(***************************************************************************)
EXTENDS Naturals

CONSTANTS
    Addrs,      \* addresses the file may list
    Multi,      \* those that are valid multiaddresses; others are not saved
    Cleaner,    \* the goroutine of main.go
    Lifetime,   \* masaBerlaku, 3 days
    LastDay,    \* bound: the day on which the clock stops
    MaxDeaths   \* bound: crashes

ASSUME PeersAssumption ==
    /\ Multi \subseteq Addrs /\ Cleaner \notin Addrs
    /\ Lifetime \in Nat \ {0} /\ LastDay \in Nat /\ LastDay >= Lifetime
    /\ MaxDeaths \in Nat

VARIABLES
    text,       \* what the file looks like: "list", "blank" or "torn"
    peers,      \* its list, empty unless it is one
    now,        \* the clock
    booted,     \* AutoBootstrap has read the file
    stage, buf, \* per goroutine: its next step, the list it will write
    saved,      \* history: every record there was at first or has been saved
    clashed,    \* history: two goroutines were writing, or a write was cut off
    deaths      \* history: crashes so far

listVars == <<text, peers>>
peersVars == <<listVars, now, booted, stage, buf, saved, clashed, deaths>>

Goroutines == Addrs \cup {Cleaner}
Peer == [addr : Addrs, seen : 0 .. LastDay]

Listed(list) == {p.addr : p \in list}
Active(list) == {p \in list : now - p.seen < Lifetime}

PeersInit ==
    /\ text = "list"
    /\ \E known \in SUBSET Addrs : \E seen \in [known -> 0 .. Lifetime] :
          peers = {[addr |-> a, seen |-> seen[a]] : a \in known}
    /\ now = Lifetime
    /\ booted = FALSE
    /\ stage = [g \in Goroutines |-> "off"]
    /\ buf = [g \in Goroutines |-> {}]
    /\ saved = peers
    /\ clashed = FALSE
    /\ deaths = 0

-----------------------------------------------------------------------------
\* AutoBootstrap: connectToPeer starts for every address; one that is no
\* multiaddress is greeted, and nothing is written.
Boot ==
    /\ ~booted
    /\ booted' = TRUE
    /\ stage' = [g \in Goroutines |-> IF g \in Listed(peers) \cap Multi THEN "load" ELSE stage[g]]
    /\ UNCHANGED <<listVars, now, buf, saved, clashed, deaths>>

\* Goroutine g has read the file and is going to write list.
Intend(g, list) ==
    /\ stage' = [stage EXCEPT ![g] = "truncate"]
    /\ buf' = [buf EXCEPT ![g] = list]
    /\ clashed' = (clashed \/ \E f \in Goroutines \ {g} : stage[f] \in {"truncate", "write"})

\* Faulty variant: no check for an address that is listed already.
LoadUnchecked(a) ==
    /\ stage[a] = "load"
    /\ Intend(a, peers \cup {[addr |-> a, seen |-> now]})
    /\ UNCHANGED <<listVars, now, booted, saved, deaths>>

\* savePeerToNexus leaves an address alone that is listed already.
Load(a) ==
    /\ stage[a] = "load"
    /\ IF a \in Listed(peers)
       THEN stage' = [stage EXCEPT ![a] = "off"] /\ UNCHANGED <<buf, clashed>>
       ELSE Intend(a, peers \cup {[addr |-> a, seen |-> now]})
    /\ UNCHANGED <<listVars, now, booted, saved, deaths>>

\* Faulty variants: records that reach the limit stay; records are dropped a
\* day too early.
CleanLate ==
    /\ stage[Cleaner] = "off"
    /\ {p \in peers : now - p.seen > Lifetime} # {}
    /\ Intend(Cleaner, {p \in peers : now - p.seen <= Lifetime})
    /\ UNCHANGED <<listVars, now, booted, saved, deaths>>
CleanEarly ==
    /\ stage[Cleaner] = "off"
    /\ {p \in peers : now - p.seen >= Lifetime - 1} # {}
    /\ Intend(Cleaner, {p \in peers : now - p.seen < Lifetime - 1})
    /\ UNCHANGED <<listVars, now, booted, saved, deaths>>

\* CleanInactivePeers, once a day; without inactive peers it writes nothing.
Clean ==
    /\ stage[Cleaner] = "off"
    /\ Active(peers) # peers
    /\ Intend(Cleaner, Active(peers))
    /\ UNCHANGED <<listVars, now, booted, saved, deaths>>

Truncate(g) ==
    /\ stage[g] = "truncate"
    /\ text' = "blank" /\ peers' = {}
    /\ stage' = [stage EXCEPT ![g] = "write"]
    /\ UNCHANGED <<now, booted, buf, saved, clashed, deaths>>

\* A shorter list over what another goroutine has written since leaves a tail.
Write(g) ==
    /\ stage[g] = "write"
    /\ \/ text' = "list" /\ peers' = buf[g]
       \/ text # "blank" /\ text' = "torn" /\ peers' = {}
    /\ saved' = saved \cup buf[g]
    /\ stage' = [stage EXCEPT ![g] = "off"]
    /\ buf' = [buf EXCEPT ![g] = {}]
    /\ UNCHANGED <<now, booted, clashed, deaths>>

Tick ==
    /\ now < LastDay
    /\ now' = now + 1
    /\ UNCHANGED <<listVars, booted, stage, buf, saved, clashed, deaths>>

\* The process dies and starts again; a blank file stays blank.
PeersCrash ==
    /\ deaths < MaxDeaths
    /\ deaths' = deaths + 1
    /\ booted' = FALSE
    /\ stage' = [g \in Goroutines |-> "off"]
    /\ buf' = [g \in Goroutines |-> {}]
    /\ clashed' = (clashed \/ \E g \in Goroutines : stage[g] = "write")
    /\ UNCHANGED <<listVars, now, saved>>

CleanerStep == Clean \/ Truncate(Cleaner) \/ Write(Cleaner)

PeersNext ==
    \/ Boot \/ Tick \/ PeersCrash \/ CleanerStep
    \/ \E a \in Addrs : Load(a) \/ Truncate(a) \/ Write(a)

\* The cleaner's loop never ends, and a day passes.
PeersSpec == PeersInit /\ [][PeersNext]_peersVars /\ WF_peersVars(CleanerStep)

-----------------------------------------------------------------------------
(* Properties *)

NoRepeats(list) == \A p, q \in list : p.addr = q.addr => p = q

\* The shapes; and no list, in the file or about to be written, has an address
\* twice, although addresses come back under a new date.
PeersOK ==
    /\ text \in {"list", "blank", "torn"}
    /\ text # "list" => peers = {}
    /\ peers \subseteq Peer /\ NoRepeats(peers)
    /\ now \in 0 .. LastDay
    /\ booted \in BOOLEAN
    /\ stage \in [Goroutines -> {"off", "load", "truncate", "write"}]
    /\ buf \in [Goroutines -> SUBSET Peer] /\ \A g \in Goroutines : NoRepeats(buf[g])
    /\ saved \subseteq Peer
    /\ clashed \in BOOLEAN
    /\ deaths \in 0 .. MaxDeaths

\* Unless two goroutines wrote at the same time, or a crash fell between the
\* truncation and the write, every record that was ever in the file and is not
\* three days old is in it whenever nobody is writing.
UnexpiredStays ==
    ~clashed /\ (\A g \in Goroutines : stage[g] # "write") => Active(saved) \subseteq peers

\* A record that is three days old leaves the file, or its address comes back
\* with a new date, although bootstrap goroutines may write it again from an old
\* copy.
InactiveLeaves ==
    \A p \in Peer : p \in peers /\ now - p.seen >= Lifetime ~> p \notin peers
=============================================================================
