---------------------------- MODULE MiningStats ----------------------------
(***************************************************************************)
(* The statistics of the miners (pkg/rpc/stats.go): reports                *)
(* (PostReportHash) under the lock of GlobalStats, and dashboards          *)
(* (GetMiningStats, pkg/rpc/handlers.go), which add up the hashrates under *)
(* that lock and take the size of the map without it, in an order that Go  *)
(* does not fix.  A size that is read during an insertion is the old or    *)
(* the new one.                                                            *)
(*                                                                         *)
(* Of a hashrate the model keeps whether it is a number, and whether it is *)
(* so large that a sum with it may overflow.  A duration of zero yields an *)
(* infinity or no number; one that is next to nothing (1e-300) may yield   *)
(* an infinity, a huge number, or with no hashes a plain one.  JSON has no *)
(* word for infinities, and a dashboard whose sum is one stays empty.      *)
(* Plain numbers are those of which all miners' sum is finite.             *)
(*                                                                         *)
(* The names carry the component, so that NodeProofs can extend it beside  *)
(* Archive and Peers.                                                      *)
(***************************************************************************)
EXTENDS Naturals, FiniteSets

CONSTANTS
    Miners,
    Dashboards, \* the dashboards
    Nobody,     \* the lock is free
    Window,     \* the minute in which a report counts
    LastTick    \* bound: the clock

ASSUME StatsAssumption ==
    /\ Nobody \notin Miners
    /\ Window \in Nat \ {0} /\ LastTick \in Nat \ {0}

VARIABLES
    clock,      \* the clock; the first report comes later than 0
    known,      \* the keys of the map
    lock,       \* the miner whose report is being entered
    seen,       \* per miner: LastSeen, 0 before its first report
    rate,       \* its hashrate
    odd,        \* history: when it last reported next to no duration
    todo,       \* per dashboard: what it has not read yet
    summed,     \* when it added up
    empty,      \* whether the sum was no finite number
    count,      \* the size it read
    first       \* history: the size when it began

minerVars == <<known, lock, seen, rate, odd>>
callVars  == <<todo, summed, empty, count, first>>
statsVars == <<clock, minerVars, callVars>>

StatsInit ==
    /\ clock = 1
    /\ known = {} /\ lock = Nobody
    /\ seen = [m \in Miners |-> 0] /\ odd = seen
    /\ rate = [m \in Miners |-> "plain"]
    /\ todo = [c \in Dashboards |-> {"begin"}]
    /\ summed = [c \in Dashboards |-> 0] /\ count = summed /\ first = summed
    /\ empty = [c \in Dashboards |-> FALSE]

ClockTick ==
    /\ clock < LastTick
    /\ clock' = clock + 1
    /\ UNCHANGED <<minerVars, callVars>>

-----------------------------------------------------------------------------
(* UpdateStat: the miner enters the map before its report does *)

Enter(m) ==
    /\ lock = Nobody
    /\ lock' = m
    /\ known' = known \cup {m}
    /\ UNCHANGED <<clock, seen, rate, odd, callVars>>

Durations == {"plain", "brief", "zero"}

\* What the division may yield.
Quotients(duration) ==
    CASE duration = "plain" -> {"plain"}
      [] duration = "brief" -> {"plain", "huge", "none"}
      [] duration = "zero"  -> {"none"}

Report(m, duration) ==
    /\ lock = m
    /\ lock' = Nobody
    /\ seen' = [seen EXCEPT ![m] = clock]
    /\ \E quotient \in Quotients(duration) : rate' = [rate EXCEPT ![m] = quotient]
    /\ odd' = IF duration = "plain" THEN odd ELSE [odd EXCEPT ![m] = clock]
    /\ UNCHANGED <<clock, known, callVars>>

-----------------------------------------------------------------------------
(* GetMiningStats *)

Begin(c) ==
    /\ todo[c] = {"begin"}
    /\ todo' = [todo EXCEPT ![c] = {"sum", "len"}]
    /\ first' = [first EXCEPT ![c] = Cardinality(known)]
    /\ UNCHANGED <<clock, minerVars, summed, empty, count>>

\* Faulty variant: miners that fell silent count as well.
Everyone == {m \in known : seen[m] > 0}

ActiveMiners == {m \in known : seen[m] > 0 /\ clock - seen[m] < Window}

\* Whether their sum is no finite number.
Overflows ==
    LET rates == {rate[m] : m \in ActiveMiners} IN
    CASE "none" \in rates -> {TRUE}
      [] "none" \notin rates /\ "huge" \in rates /\ Cardinality(ActiveMiners) > 1 -> BOOLEAN
      [] OTHER -> {FALSE}

GetGlobalHashrate(c) ==
    /\ lock = Nobody /\ "sum" \in todo[c]
    /\ todo' = [todo EXCEPT ![c] = @ \ {"sum"}]
    /\ summed' = [summed EXCEPT ![c] = clock]
    /\ \E overflow \in Overflows : empty' = [empty EXCEPT ![c] = overflow]
    /\ UNCHANGED <<clock, minerVars, count, first>>

CountMiners(c) ==
    /\ "len" \in todo[c]
    /\ todo' = [todo EXCEPT ![c] = @ \ {"len"}]
    /\ count' = [count EXCEPT ![c] = Cardinality(known)]
    /\ UNCHANGED <<clock, minerVars, summed, empty, first>>

StatsNext ==
    \/ ClockTick
    \/ \E m \in Miners : Enter(m) \/ \E duration \in Durations : Report(m, duration)
    \/ \E c \in Dashboards : Begin(c) \/ GetGlobalHashrate(c) \/ CountMiners(c)

StatsSpec == StatsInit /\ [][StatsNext]_statsVars

-----------------------------------------------------------------------------
(* Properties *)

\* The shapes; a report is never dated later than now.
StatsOK ==
    /\ clock \in 1 .. LastTick
    /\ known \subseteq Miners /\ lock \in known \cup {Nobody}
    /\ seen \in [Miners -> 0 .. clock] /\ odd \in [Miners -> 0 .. clock]
    /\ \A m \in Miners : odd[m] <= seen[m]
    /\ rate \in [Miners -> {"plain", "huge", "none"}] /\ empty \in [Dashboards -> BOOLEAN]
    /\ todo \in [Dashboards -> SUBSET {"begin", "sum", "len"}]
    /\ summed \in [Dashboards -> 0 .. clock]
    /\ count \in [Dashboards -> Nat] /\ first \in [Dashboards -> Nat]

\* The types, and about a finished dashboard: it is empty only if a miner
\* reported no duration, or next to none, in the minute before the sum, so that
\* one odd report silences it for no longer than that; and although the size is read
\* without the lock, it is one that the map had between its beginning and its end
\* (stats.go:28-52, handlers.go:688-694).
DashboardBacked ==
    /\ StatsOK
    /\ \A c \in Dashboards : todo[c] = {} =>
          /\ empty[c] => \E m \in Miners :
                odd[m] > 0 /\ summed[c] < odd[m] + Window
          /\ first[c] <= count[c] /\ count[c] <= Cardinality(known)
=============================================================================
