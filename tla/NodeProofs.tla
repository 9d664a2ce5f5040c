----------------------------- MODULE NodeProofs -----------------------------
(***************************************************************************)
(* Proofs about three parts of the node that share no state: the list of   *)
(* peers, the archive of the database and the statistics of the miners,    *)
(* for any number of addresses, downloads, miners and dashboards, any      *)
(* lifetime and window, and any number of compactions and crashes.         *)
(***************************************************************************)
EXTENDS Peers, Archive, MiningStats, FiniteSetTheorems, TLAPS

-----------------------------------------------------------------------------
(* Peers *)

USE PeersAssumption

LEMMA PeersTypeInit == PeersInit => PeersOK
<1> SUFFICES ASSUME PeersInit PROVE PeersOK
  OBVIOUS
<1>1. PICK have \in SUBSET Addrs : \E when \in [have -> 0 .. Lifetime] :
          peers = {[addr |-> a, seen |-> when[a]] : a \in have}
  BY DEF PeersInit
<1>2. PICK when \in [have -> 0 .. Lifetime] :
          peers = {[addr |-> a, seen |-> when[a]] : a \in have}
  BY <1>1
<1>3. \A a \in have : when[a] \in 0 .. LastDay
  OBVIOUS
<1>4. peers \subseteq Peer /\ NoRepeats(peers)
  BY <1>2, <1>3 DEF Peer, NoRepeats
<1>5. /\ text = "list" /\ now = Lifetime /\ booted = FALSE /\ saved = peers
      /\ stage = [g \in Goroutines |-> "off"] /\ buf = [g \in Goroutines |-> {}]
      /\ clashed = FALSE /\ deaths = 0
  BY DEF PeersInit
<1>6. buf \in [Goroutines -> SUBSET Peer] /\ \A g \in Goroutines : NoRepeats(buf[g])
  BY <1>5 DEF NoRepeats
<1>7. stage \in [Goroutines -> {"off", "load", "truncate", "write"}]
  BY <1>5
<1>8. saved \subseteq Peer /\ deaths \in 0 .. MaxDeaths /\ now \in 0 .. LastDay
  BY <1>4, <1>5
<1> QED
  BY <1>4, <1>5, <1>6, <1>7, <1>8 DEF PeersOK

\* A goroutine that intends to write a list of records without repetitions.
LEMMA IntendTypes ==
  ASSUME PeersOK, NEW g \in Goroutines, NEW list \in SUBSET Peer, NoRepeats(list), Intend(g, list),
         UNCHANGED <<listVars, now, booted, saved, deaths>>
  PROVE  PeersOK'
<1>1. clashed' \in BOOLEAN
  BY DEF Intend, PeersOK
<1>2. buf' \in [Goroutines -> SUBSET Peer] /\ \A f \in Goroutines : NoRepeats(buf'[f])
  BY DEF Intend, PeersOK
<1> QED
  BY <1>1, <1>2 DEF Intend, PeersOK, listVars, NoRepeats

LEMMA PeersTypeStep == PeersOK /\ [PeersNext]_peersVars => PeersOK'
<1> SUFFICES ASSUME PeersOK, [PeersNext]_peersVars PROVE PeersOK'
  OBVIOUS
<1>1. ASSUME Boot PROVE PeersOK'
  BY <1>1 DEF Boot, PeersOK, listVars, NoRepeats
<1>2. ASSUME NEW a \in Addrs, Load(a) PROVE PeersOK'
  <2>1. CASE a \in Listed(peers)
    BY <1>2, <2>1 DEF Load, PeersOK, listVars, NoRepeats
  <2>2. CASE a \notin Listed(peers)
    <3> DEFINE list == peers \cup {[addr |-> a, seen |-> now]}
    <3>1. list \subseteq Peer /\ NoRepeats(list)
      BY <2>2 DEF PeersOK, Peer, NoRepeats, Listed
    <3>2. Intend(a, list) /\ UNCHANGED <<listVars, now, booted, saved, deaths>>
      BY <1>2, <2>2 DEF Load
    <3> HIDE DEF list
    <3> QED
      BY <3>1, <3>2, IntendTypes DEF Goroutines
  <2> QED BY <2>1, <2>2
<1>3. ASSUME Clean PROVE PeersOK'
  <2>1. Active(peers) \subseteq Peer /\ NoRepeats(Active(peers))
    BY DEF PeersOK, Active, NoRepeats
  <2> QED
    BY <1>3, <2>1, IntendTypes DEF Clean, Goroutines
<1>4. ASSUME NEW g \in Goroutines, Truncate(g) PROVE PeersOK'
  BY <1>4 DEF Truncate, PeersOK, NoRepeats
<1>5. ASSUME NEW g \in Goroutines, Write(g) PROVE PeersOK'
  <2>1. /\ stage[g] = "write" /\ stage' = [stage EXCEPT ![g] = "off"]
        /\ buf' = [buf EXCEPT ![g] = {}] /\ saved' = saved \cup buf[g]
        /\ UNCHANGED <<now, booted, clashed, deaths>>
        /\ \/ text' = "list" /\ peers' = buf[g]
           \/ text' = "torn" /\ peers' = {}
    BY <1>5 DEF Write
  <2>2. buf[g] \subseteq Peer /\ NoRepeats(buf[g])
    BY DEF PeersOK
  <2>3. buf' \in [Goroutines -> SUBSET Peer] /\ \A f \in Goroutines : NoRepeats(buf'[f])
    BY <2>1 DEF PeersOK, NoRepeats
  <2>4. peers' \subseteq Peer /\ NoRepeats(peers') /\ saved' \subseteq Peer
    BY <2>1, <2>2 DEF PeersOK, NoRepeats
  <2> QED
    BY <2>1, <2>3, <2>4 DEF PeersOK, NoRepeats
<1>6. ASSUME Tick PROVE PeersOK'
  BY <1>6 DEF Tick, PeersOK, listVars, NoRepeats
<1>7. ASSUME PeersCrash PROVE PeersOK'
  <2>1. buf' \in [Goroutines -> SUBSET Peer] /\ \A f \in Goroutines : NoRepeats(buf'[f])
    BY <1>7 DEF PeersCrash, NoRepeats
  <2>2. stage' \in [Goroutines -> {"off", "load", "truncate", "write"}]
    BY <1>7 DEF PeersCrash
  <2>3. /\ deaths' \in 0 .. MaxDeaths /\ clashed' \in BOOLEAN /\ booted' = FALSE
        /\ UNCHANGED <<text, peers, now, saved>>
    BY <1>7 DEF PeersCrash, PeersOK, listVars
  <2> QED
    BY <2>1, <2>2, <2>3 DEF PeersOK, NoRepeats
<1>8. CASE UNCHANGED peersVars
  BY <1>8 DEF peersVars, listVars, PeersOK, NoRepeats
<1> QED
  BY <1>1, <1>2, <1>3, <1>4, <1>5, <1>6, <1>7, <1>8 DEF PeersNext, CleanerStep, Goroutines

\* Nothing that any goroutine holds or writes lists an address twice.
THEOREM PeersTypes == PeersSpec => []PeersOK
  BY PeersTypeInit, PeersTypeStep, PTL DEF PeersSpec

-----------------------------------------------------------------------------
(* No bootstrap goroutine is at work before AutoBootstrap has started it *)

BootInv == ~booted => \A a \in Addrs : stage[a] = "off"

LEMMA BootInit == PeersInit => BootInv
  BY DEF PeersInit, BootInv, Goroutines

LEMMA BootStep == PeersOK /\ BootInv /\ [PeersNext]_peersVars => BootInv'
<1> SUFFICES ASSUME PeersOK, BootInv, [PeersNext]_peersVars, ~booted' PROVE BootInv'
  BY DEF BootInv
<1>1. CASE Boot
  BY <1>1 DEF Boot
<1>2. ASSUME NEW a \in Addrs, Load(a) PROVE FALSE
  BY <1>2 DEF Load, BootInv, Intend
<1>3. CASE Clean
  BY <1>3 DEF Clean, Intend, BootInv, PeersOK
<1>4. ASSUME NEW g \in Goroutines, Truncate(g) \/ Write(g) PROVE BootInv'
  <2>1. /\ booted' = booted /\ stage[g] \in {"truncate", "write"}
        /\ \E to \in {"write", "off"} : stage' = [stage EXCEPT ![g] = to]
    BY <1>4 DEF Truncate, Write
  <2>2. g \notin Addrs
    BY <2>1 DEF BootInv
  <2> QED
    BY <2>1, <2>2 DEF BootInv, PeersOK
<1>5. CASE Tick
  BY <1>5 DEF Tick, BootInv
<1>6. CASE PeersCrash
  BY <1>6 DEF PeersCrash, BootInv, Goroutines
<1>7. CASE UNCHANGED peersVars
  BY <1>7 DEF peersVars, BootInv
<1> QED
  BY <1>1, <1>2, <1>3, <1>4, <1>5, <1>6, <1>7 DEF PeersNext, CleanerStep, Goroutines

-----------------------------------------------------------------------------
(* Records stay for their lifetime *)

Writer(g) == stage[g] \in {"truncate", "write"}

\* Without a clash there is one writer; what it holds, or else the file, has
\* every record that has not expired, and what it truncated is still blank.
KeepInv ==
    ~clashed =>
       /\ \A f, g \in Goroutines : Writer(f) /\ Writer(g) => f = g
       /\ (\A g \in Goroutines : stage[g] # "write") => Active(saved) \subseteq peers
       /\ \A g \in Goroutines : Writer(g) => Active(saved) \subseteq buf[g]
       /\ \A g \in Goroutines : stage[g] = "write" => text = "blank"

LEMMA KeepInit == PeersInit => KeepInv
  BY DEF PeersInit, KeepInv, Writer, Active

\* A goroutine that intends to write a list that has what the file has.
LEMMA IntendKeeps ==
  ASSUME PeersOK, KeepInv, NEW g \in Goroutines, ~Writer(g), NEW list, Intend(g, list),
         (\A f \in Goroutines : stage[f] # "write") /\ Active(saved) \subseteq peers
            => Active(saved) \subseteq list,
         UNCHANGED <<listVars, now, booted, saved, deaths>>
  PROVE  KeepInv'
<1> SUFFICES ASSUME ~clashed' PROVE KeepInv'
  BY DEF KeepInv
<1>1. /\ ~clashed /\ \A f \in Goroutines : ~Writer(f)
      /\ stage' = [stage EXCEPT ![g] = "truncate"] /\ buf' = [buf EXCEPT ![g] = list]
      /\ text' = text /\ peers' = peers /\ Active(saved)' = Active(saved)
  BY DEF Intend, Writer, listVars, Active
<1>2. Active(saved) \subseteq peers /\ Active(saved) \subseteq list
  BY <1>1 DEF KeepInv, Writer
<1>3. /\ stage'[g] = "truncate" /\ buf'[g] = list
      /\ \A f \in Goroutines \ {g} : stage'[f] = stage[f]
  BY <1>1 DEF PeersOK
<1>4. \A f \in Goroutines : stage'[f] # "write" /\ (Writer(f)' => f = g)
  BY <1>1, <1>3 DEF Writer
<1> QED
  BY <1>1, <1>2, <1>3, <1>4 DEF KeepInv

LEMMA KeepStep == PeersOK /\ BootInv /\ KeepInv /\ [PeersNext]_peersVars => KeepInv'
<1> SUFFICES ASSUME PeersOK, BootInv, KeepInv, [PeersNext]_peersVars PROVE KeepInv'
  OBVIOUS
<1>1. ASSUME Boot PROVE KeepInv'
  <2>1. \A g \in Goroutines : stage'[g] = stage[g] \/ (stage'[g] = "load" /\ stage[g] = "off")
    BY <1>1 DEF Boot, BootInv, PeersOK, Listed, Peer
  <2>2. UNCHANGED <<text, peers, now, buf, saved, clashed>>
    BY <1>1 DEF Boot, listVars
  <2> SUFFICES ASSUME ~clashed PROVE KeepInv'
    BY <2>2 DEF KeepInv
  <2>3. Active(saved)' = Active(saved)
    BY <2>2 DEF Active
  <2> QED
    BY <2>1, <2>2, <2>3 DEF KeepInv, Writer
<1>2. ASSUME NEW a \in Addrs, Load(a) PROVE KeepInv'
  <2>1. CASE a \in Listed(peers)
    <3>1. /\ stage' = [stage EXCEPT ![a] = "off"]
          /\ UNCHANGED <<text, peers, now, buf, saved, clashed>>
      BY <1>2, <2>1 DEF Load, listVars
    <3>2. \A g \in Goroutines : stage'[g] = stage[g] \/ (stage'[g] = "off" /\ stage[g] = "load")
      BY <1>2, <3>1 DEF Load, PeersOK
    <3>3. Active(saved)' = Active(saved)
      BY <3>1 DEF Active
    <3> QED
      BY <3>1, <3>2, <3>3 DEF KeepInv, Writer
  <2>2. CASE a \notin Listed(peers)
    <3>1. /\ Intend(a, peers \cup {[addr |-> a, seen |-> now]})
          /\ UNCHANGED <<listVars, now, booted, saved, deaths>>
      BY <1>2, <2>2 DEF Load
    <3>2. a \in Goroutines /\ ~Writer(a)
      BY <1>2 DEF Load, Writer, Goroutines
    <3> QED
      BY <3>1, <3>2, IntendKeeps
  <2> QED BY <2>1, <2>2
<1>3. ASSUME Clean PROVE KeepInv'
  <2>1. Cleaner \in Goroutines /\ ~Writer(Cleaner)
    BY <1>3 DEF Clean, Writer, Goroutines
  <2>2. Active(saved) \subseteq peers => Active(saved) \subseteq Active(peers)
    BY DEF Active
  <2> QED
    BY <1>3, <2>1, <2>2, IntendKeeps DEF Clean
<1>4. ASSUME NEW g \in Goroutines, Truncate(g) PROVE KeepInv'
  <2>1. /\ stage[g] = "truncate" /\ stage' = [stage EXCEPT ![g] = "write"]
        /\ text' = "blank" /\ UNCHANGED <<now, buf, saved, clashed>>
    BY <1>4 DEF Truncate
  <2>2. stage'[g] = "write" /\ \A f \in Goroutines : Writer(f)' = Writer(f)
    BY <2>1 DEF PeersOK, Writer
  <2>3. Active(saved)' = Active(saved)
    BY <2>1 DEF Active
  <2> QED
    BY <2>1, <2>2, <2>3 DEF KeepInv
<1>5. ASSUME NEW g \in Goroutines, Write(g) PROVE KeepInv'
  <2> SUFFICES ASSUME ~clashed PROVE KeepInv'
    BY <1>5 DEF Write, KeepInv
  <2>1. text = "blank" /\ stage[g] = "write" /\ stage' = [stage EXCEPT ![g] = "off"]
        /\ saved' = saved \cup buf[g] /\ now' = now
    BY <1>5 DEF Write, KeepInv
  <2>2. text' = "list" /\ peers' = buf[g]
    BY <1>5, <2>1 DEF Write
  <2>3. \A f \in Goroutines : ~Writer(f)' /\ stage'[f] # "write"
    BY <2>1 DEF KeepInv, Writer, PeersOK
  <2>4. Active(saved) \subseteq buf[g]
    BY <2>1 DEF KeepInv, Writer
  <2>5. Active(saved)' \subseteq peers'
    BY <2>1, <2>2, <2>4 DEF Active
  <2> QED
    BY <2>3, <2>5 DEF KeepInv
<1>6. ASSUME Tick PROVE KeepInv'
  <2>1. now' = now + 1 /\ UNCHANGED <<text, peers, stage, buf, saved, clashed>>
    BY <1>6 DEF Tick, listVars
  <2>2. Active(saved)' \subseteq Active(saved)
    BY <2>1 DEF Active, PeersOK, Peer
  <2> QED
    BY <2>1, <2>2 DEF KeepInv, Writer
<1>7. ASSUME PeersCrash PROVE KeepInv'
  <2> SUFFICES ASSUME ~clashed' PROVE KeepInv'
    BY DEF KeepInv
  <2>1. /\ ~clashed /\ \A g \in Goroutines : stage[g] # "write"
        /\ stage' = [g \in Goroutines |-> "off"] /\ UNCHANGED <<text, peers, now, saved>>
    BY <1>7 DEF PeersCrash, listVars
  <2>2. Active(saved)' = Active(saved)
    BY <2>1 DEF Active
  <2> QED
    BY <2>1, <2>2 DEF KeepInv, Writer
<1>8. CASE UNCHANGED peersVars
  BY <1>8 DEF peersVars, listVars, KeepInv, Writer, Active
<1> QED
  BY <1>1, <1>2, <1>3, <1>4, <1>5, <1>6, <1>7, <1>8 DEF PeersNext, CleanerStep, Goroutines

\* For any number of bootstrap goroutines and crashes: unless two wrote at once or
\* a crash fell between truncation and write, the file has every record that has
\* not expired whenever nobody is writing.
THEOREM RecordsStay == PeersSpec => []UnexpiredStays
<1>1. KeepInv => UnexpiredStays
  BY DEF KeepInv, UnexpiredStays
<1> QED
  BY <1>1, PeersTypeInit, PeersTypeStep, BootInit, BootStep, KeepInit, KeepStep, PTL DEF PeersSpec

-----------------------------------------------------------------------------
(* Archive *)

USE ArchiveAssumption

Unread == Parts \cup {"idle", "create", "open"}

\* Where a writer is; it has created the file.  A download has read nothing before
\* it has opened the file.
PlaceInv ==
    /\ \A p \in Procs :
          /\ Writing(p) => exists
          /\ pc[p] = "tables"   => at[p] = 1
          /\ pc[p] = "manifest" => at[p] = 2
          /\ pc[p] \in {"end", "cut"} => at[p] <= 3
          /\ p = Crawler => pc[p] \in Parts \cup {"idle", "create"}
    /\ \A c \in Calls : pc[c] \in Unread => read[c] = <<>>

LEMMA GapApart == ASSUME NEW k \in Chunk PROVE k # Gap
  BY DEF Chunk, Gap

LEMMA ArchiveInit == Init => TypeOK /\ PlaceInv
<1> SUFFICES ASSUME Init PROVE TypeOK /\ PlaceInv
  OBVIOUS
<1>1. Blank \in [1 .. 3 -> Chunk \cup {Gap}]
  BY DEF Blank
<1>2. \A p \in Procs : ~Writing(p)
  BY DEF Init, Writing, Parts
<1>3. read \in [Calls -> Seq(Chunk \cup {Gap})] /\ \A c \in Calls : Len(read[c]) <= size[c]
  BY DEF Init
<1>4. TypeOK
  <2>1. exists = FALSE /\ spoilt = FALSE /\ content = Blank /\ db = 0 /\ archives = 0 /\ crashes = 0
    BY DEF Init
  <2>2. /\ listed \in [Procs -> 0 .. MaxVersion] /\ at \in [Procs -> 1 .. 4] /\ excused \subseteq Calls
        /\ size \in [Calls -> 0 .. 3]
    BY DEF Init
  <2>3. pc \in [Procs -> Parts \cup {"idle", "create", "open", "read", "served", "done"}]
    BY DEF Init
  <2>4. exists \in BOOLEAN /\ spoilt \in BOOLEAN /\ (exists \/ content = Blank)
    BY <2>1
  <2>5. db \in 0 .. MaxVersion /\ archives \in 0 .. MaxArchives /\ crashes \in 0 .. MaxCrashes
    BY <2>1
  <2>6. content \in [1 .. 3 -> Chunk \cup {Gap}]
    BY <1>1, <2>1
  <2> QED BY <1>2, <1>3, <2>2, <2>3, <2>4, <2>5, <2>6 DEF TypeOK
<1>5. PlaceInv
  BY <1>2 DEF Init, PlaceInv
<1> QED BY <1>4, <1>5

Stages == Parts \cup {"idle", "create", "open", "read", "served", "done"}

LEMMA ThenStage == ASSUME NEW p \in Procs
  PROVE /\ Then(p) \in {"idle", "open"} /\ (p = Crawler => Then(p) = "idle")
        /\ Then(p) \in Stages \ Parts
  BY DEF Then, Stages, Parts

\* The last position that is not a gap.
Extent ==
    IF content = Blank THEN 0 ELSE
        CHOOSE k \in 1 .. 3 : content[k] # Gap /\ \A j \in k + 1 .. 3 : content[j] = Gap

LEMMA ExtentType ==
  ASSUME TypeOK
  PROVE  Extent \in 0 .. 3
<1>1. CASE content = Blank
  BY <1>1 DEF Extent
<1>2. CASE content # Blank
  <2>1. content[1] # Gap \/ content[2] # Gap \/ content[3] # Gap
    BY <1>2 DEF TypeOK, Blank
  <2>2. \E k \in 1 .. 3 : content[k] # Gap /\ \A j \in k + 1 .. 3 : content[j] = Gap
    <3>1. CASE content[3] # Gap
      <4>1. 3 \in 1 .. 3 /\ 3 + 1 .. 3 = {}
        OBVIOUS
      <4> QED BY <3>1, <4>1
    <3>2. CASE content[3] = Gap /\ content[2] # Gap
      <4>1. 2 \in 1 .. 3 /\ 2 + 1 .. 3 = {3}
        OBVIOUS
      <4> QED BY <3>2, <4>1
    <3>3. CASE content[3] = Gap /\ content[2] = Gap
      <4>1. 1 \in 1 .. 3 /\ 1 + 1 .. 3 = {2, 3}
        OBVIOUS
      <4> QED BY <2>1, <3>3, <4>1
    <3> QED BY <3>1, <3>2, <3>3
  <2> QED BY <1>2, <2>2 DEF Extent
<1> QED BY <1>1, <1>2

LEMMA FullExtent ==
  ASSUME content[3] # Gap
  PROVE  Extent = 3
<1>1. content # Blank
  BY DEF Blank
<1>2. \A k \in 1 .. 3 : (content[k] # Gap /\ \A j \in k + 1 .. 3 : content[j] = Gap) <=> k = 3
  <2> TAKE k \in 1 .. 3
  <2>1. k # 3 => 3 \in k + 1 .. 3
    OBVIOUS
  <2>2. k = 3 => k + 1 .. 3 = {}
    OBVIOUS
  <2> QED BY <2>1, <2>2
<1> QED BY <1>1, <1>2 DEF Extent

\* A step of one goroutine.
LEMMA StepStage ==
  ASSUME TypeOK, NEW p \in Procs, NEW from, NEW to \in Stages, Step(p, from, to)
  PROVE  /\ pc' \in [Procs -> Stages] /\ pc[p] = from /\ pc'[p] = to
         /\ \A q \in Procs : q # p => pc'[q] = pc[q]
  BY DEF Step, TypeOK, Stages

LEMMA SafeTypes ==
  ASSUME TypeOK, PlaceInv, pc' \in [Procs -> Stages], PlaceInv',
         exists' \in BOOLEAN, spoilt' \in BOOLEAN, content' \in [1 .. 3 -> Chunk \cup {Gap}],
         exists' \/ content' = Blank, db' \in 0 .. MaxVersion,
         listed' \in [Procs -> 0 .. MaxVersion], at' \in [Procs -> 1 .. 4],
         size' \in [Calls -> 0 .. 3], excused' \subseteq Calls,
         read' \in [Calls -> Seq(Chunk \cup {Gap})],
         \A c \in Calls : Len(read'[c]) <= size'[c],
         archives' \in 0 .. MaxArchives, crashes' \in 0 .. MaxCrashes
  PROVE  TypeOK'
<1>1. \A p \in Procs : pc'[p] \in Parts => at'[p] <= 3
  <2> TAKE p \in Procs
  <2> SUFFICES ASSUME pc'[p] \in Parts PROVE at'[p] <= 3
    OBVIOUS
  <2>1. pc'[p] = "tables" \/ pc'[p] = "manifest" \/ pc'[p] \in {"end", "cut"}
    BY DEF Parts
  <2> QED BY <2>1 DEF PlaceInv
<1>2. pc' \in [Procs -> Parts \cup {"idle", "create", "open", "read", "served", "done"}]
  BY DEF Stages
<1> QED BY <1>1, <1>2 DEF TypeOK, Writing

\* One goroutine moves; what it has not written stays.
LEMMA PlaceMoves ==
  ASSUME TypeOK, PlaceInv, NEW p \in Procs, NEW from, NEW to \in Stages, Step(p, from, to),
         exists => exists', \A q \in Procs : q # p => at'[q] = at[q],
         \A c \in Calls : c # p \/ to \in Unread => read'[c] = read[c],
         to \in Unread => from \in Unread,
         /\ to \in Parts => exists'
         /\ to = "tables"   => at'[p] = 1
         /\ to = "manifest" => at'[p] = 2
         /\ to \in {"end", "cut"} => at'[p] <= 3
         /\ p = Crawler => to \in Parts \cup {"idle", "create"}
  PROVE  PlaceInv' /\ pc' \in [Procs -> Stages]
<1>1. /\ pc' \in [Procs -> Stages] /\ pc'[p] = to
      /\ \A q \in Procs : q # p => pc'[q] = pc[q]
  BY StepStage
<1>2. ASSUME NEW q \in Procs
      PROVE  /\ pc'[q] \in Parts => exists'
             /\ pc'[q] = "tables"   => at'[q] = 1
             /\ pc'[q] = "manifest" => at'[q] = 2
             /\ pc'[q] \in {"end", "cut"} => at'[q] <= 3
             /\ q = Crawler => pc'[q] \in Parts \cup {"idle", "create"}
  BY <1>1 DEF PlaceInv, Writing
<1>3. ASSUME NEW c \in Calls, pc'[c] \in Unread PROVE read'[c] = <<>>
  BY <1>1, <1>3, StepStage DEF PlaceInv, Procs
<1> QED BY <1>1, <1>2, <1>3 DEF PlaceInv, Writing

\* A step that keeps the file, the versions and the places.
LEMMA CalmTypes ==
  ASSUME TypeOK, PlaceInv, NEW p \in Procs, NEW from, NEW to \in Stages, Step(p, from, to),
         UNCHANGED <<fileVars, db, writeVars, read, crashes>>,
         to \in Parts => pc[p] \in Parts /\ to \in {"end", "cut"} /\ at[p] <= 3,
         p = Crawler => to \in Parts \cup {"idle", "create"},
         to \in Unread => from \in Unread,
         spoilt' \in BOOLEAN, excused' \subseteq Calls, archives' \in 0 .. MaxArchives,
         size' \in [Calls -> 0 .. 3], \A c \in Calls : Len(read[c]) <= size'[c]
  PROVE  TypeOK' /\ PlaceInv'
<1>1. to \in Parts => exists
  BY DEF PlaceInv, Writing
<1>2. PlaceInv' /\ pc' \in [Procs -> Stages]
  <2>1. /\ exists' = exists /\ at' = at /\ read' = read /\ pc[p] = from
        /\ to # "tables" /\ to # "manifest" /\ (to \in {"end", "cut"} => at[p] <= 3)
    BY DEF fileVars, writeVars, Parts, Step
  <2> QED BY <1>1, <2>1, PlaceMoves
<1>3. TypeOK'
  BY <1>2, SafeTypes DEF TypeOK, fileVars, writeVars
<1> QED BY <1>2, <1>3

LEMMA WriterTypes ==
  ASSUME TypeOK, PlaceInv, NEW p \in Procs,
         Create(p) \/ CreateFails(p) \/ CopyTables(p) \/ CopyManifest(p) \/ CopyFails(p) \/ Close(p)
  PROVE  TypeOK' /\ PlaceInv'
<1> USE DEF fileVars, writeVars, readVars, pastVars
<1>1. /\ Then(p) \in {"idle", "open"} /\ (p = Crawler => Then(p) = "idle")
      /\ Then(p) \in Stages \ Parts /\ Parts \subseteq Stages
      /\ Parts \cup {"create"} \subseteq Unread /\ {"end", "cut"} \subseteq Parts
  BY ThenStage DEF Stages, Parts, Unread
<1>2. CASE Create(p)
  <2>1. /\ Step(p, "create", "tables") /\ exists' = TRUE /\ content' = Blank
        /\ listed' = [listed EXCEPT ![p] = db] /\ at' = [at EXCEPT ![p] = 1]
        /\ (spoilt' <=> \E q \in Procs : Writing(q)) /\ spoilt' \in BOOLEAN
        /\ excused' \subseteq excused \cup Calls
        /\ UNCHANGED <<db, size, read, archives, crashes>>
    BY <1>2 DEF Create
  <2>2. Blank \in [1 .. 3 -> Chunk \cup {Gap}]
    BY DEF Blank
  <2>3. /\ listed' \in [Procs -> 0 .. MaxVersion] /\ at' \in [Procs -> 1 .. 4] /\ at'[p] = 1
        /\ \A q \in Procs : q # p => at'[q] = at[q]
    BY <2>1 DEF TypeOK
  <2>4. PlaceInv' /\ pc' \in [Procs -> Stages]
    BY <1>1, <2>1, <2>3, PlaceMoves DEF Parts, Unread
  <2> QED BY <2>1, <2>2, <2>3, <2>4, SafeTypes DEF TypeOK
<1>3. CASE CreateFails(p)
  BY <1>1, <1>3, CalmTypes DEF CreateFails, TypeOK, Parts
<1>4. CASE CopyFails(p)
  <2>1. PICK from \in {"tables", "manifest"}, trailer \in {"end", "cut"} : Step(p, from, trailer)
    BY <1>4 DEF CopyFails
  <2>2. pc[p] \in Parts /\ at[p] <= 3
    BY <2>1 DEF Step, PlaceInv, Parts
  <2> QED BY <1>1, <1>4, <2>1, <2>2, CalmTypes DEF CopyFails, TypeOK, Parts
<1>5. ASSUME NEW part \in Parts, NEW version \in 0 .. MaxVersion, Put(p, part, version),
             NEW from \in Parts, NEW to \in Stages, Step(p, from, to),
             to \in Parts => \/ from = "tables" /\ to = "manifest"
                             \/ from = "manifest" /\ to = "end",
             p = Crawler => to \in Parts \cup {"idle", "create"}
      PROVE  TypeOK' /\ PlaceInv'
  <2>1. /\ content' = [content EXCEPT ![at[p]] = <<part, p, version>>]
        /\ at' = [at EXCEPT ![p] = at[p] + 1]
        /\ UNCHANGED <<exists, db, listed, size, read, spoilt, excused, archives, crashes>>
    BY <1>5 DEF Put
  <2>2. exists /\ at[p] \in 1 .. 3 /\ pc[p] = from
    BY <1>5 DEF Step, PlaceInv, TypeOK, Writing
  <2>3. <<part, p, version>> \in Chunk
    BY DEF Chunk
  <2>4. /\ content' \in [1 .. 3 -> Chunk \cup {Gap}] /\ at' \in [Procs -> 1 .. 4]
        /\ at'[p] = at[p] + 1 /\ \A q \in Procs : q # p => at'[q] = at[q]
    BY <2>1, <2>2, <2>3 DEF TypeOK
  <2>5. /\ from = "tables" => at[p] = 1
        /\ from = "manifest" => at[p] = 2
    BY <2>2 DEF PlaceInv
  <2>6. /\ to = "tables"   => FALSE
        /\ to = "manifest" => at'[p] = 2
        /\ to \in {"end", "cut"} => at'[p] <= 3
    BY <1>5, <2>4, <2>5 DEF Parts
  <2>7. PlaceInv' /\ pc' \in [Procs -> Stages]
    BY <1>1, <1>5, <2>1, <2>2, <2>4, <2>6, PlaceMoves DEF Unread
  <2> QED BY <2>1, <2>2, <2>4, <2>7, SafeTypes DEF TypeOK
<1>6. listed[p] \in 0 .. MaxVersion /\ db \in 0 .. MaxVersion
  BY DEF TypeOK
<1>7. CASE CopyTables(p)
  BY <1>1, <1>5, <1>6, <1>7 DEF CopyTables, Parts
<1>8. CASE CopyManifest(p)
  BY <1>1, <1>5, <1>6, <1>8 DEF CopyManifest, Parts
<1>9. CASE Close(p)
  <2>1. PICK trailer \in {"end", "cut"} : Step(p, trailer, Then(p)) /\ Put(p, trailer, listed[p])
    BY <1>9 DEF Close
  <2> QED BY <1>1, <1>5, <1>6, <2>1 DEF Parts
<1> QED BY <1>2, <1>3, <1>4, <1>7, <1>8, <1>9

LEMMA DownloadTypes ==
  ASSUME TypeOK, PlaceInv, NEW c \in Calls,
         Stat(c) \/ Open(c) \/ NotFound(c) \/ Serve(c) \/ Served(c)
  PROVE  TypeOK' /\ PlaceInv'
<1> USE DEF fileVars, writeVars, readVars, pastVars
<1>1. /\ c \in Procs /\ c # Crawler
      /\ {"open", "create", "read", "done", "served"} \subseteq Stages \ Parts
  BY DEF Procs, Stages, Parts
<1>2. ASSUME NEW from, NEW to \in {"open", "create", "read", "done", "served"}, Step(c, from, to),
             to \in {"open", "create"} => from = "idle",
             UNCHANGED <<fileVars, db, writeVars, read, spoilt, pastVars>>,
             excused' \subseteq Calls,
             size' \in [Calls -> 0 .. 3], \A d \in Calls : Len(read[d]) <= size'[d]
      PROVE  TypeOK' /\ PlaceInv'
  <2>1. to \in Stages /\ to \notin Parts
    BY <1>1
  <2>2. spoilt' \in BOOLEAN /\ archives' \in 0 .. MaxArchives /\ crashes' = crashes
    BY <1>2 DEF TypeOK
  <2>3. to \in Unread => from \in Unread
    BY <1>2 DEF Unread, Parts
  <2> QED BY <1>1, <1>2, <2>1, <2>2, <2>3, CalmTypes
<1>3. excused \subseteq Calls /\ size \in [Calls -> 0 .. 3] /\ \A d \in Calls : Len(read[d]) <= size[d]
  BY DEF TypeOK
<1>4. CASE Stat(c)
  BY <1>2, <1>3, <1>4 DEF Stat
<1>5. CASE NotFound(c)
  BY <1>2, <1>3, <1>5 DEF NotFound
<1>6. CASE Served(c)
  BY <1>2, <1>3, <1>6 DEF Served
<1>7. CASE Open(c)
  <2>1. /\ Step(c, "open", "read") /\ size' = [size EXCEPT ![c] = Extent]
        /\ excused' \subseteq excused \cup {c}
        /\ UNCHANGED <<fileVars, db, writeVars, read, spoilt, pastVars>>
    BY <1>7 DEF Open, Extent
  <2>2. pc[c] = "open"
    BY <1>7 DEF Open, Step
  <2>3. read[c] = <<>> /\ Len(<<>>) = 0
    BY <2>2 DEF PlaceInv, Unread
  <2>4. Extent \in 0 .. 3
    BY ExtentType
  <2>5. size' \in [Calls -> 0 .. 3] /\ size'[c] = Extent /\ \A d \in Calls : d # c => size'[d] = size[d]
    BY <1>3, <2>1, <2>4
  <2>6. \A d \in Calls : Len(read[d]) <= size'[d]
    BY <1>3, <2>3, <2>4, <2>5
  <2>7. excused' \subseteq Calls
    BY <1>3, <2>1
  <2> QED BY <1>2, <2>1, <2>5, <2>6, <2>7
<1>8. CASE Serve(c)
  <2> DEFINE k == Len(read[c]) + 1
  <2>1. /\ Len(read[c]) < size[c] /\ pc[c] = "read"
        /\ read' = [read EXCEPT ![c] = Append(read[c], content[k])]
        /\ UNCHANGED <<exists, content, db, pc, listed, at, size, spoilt, excused, archives, crashes>>
    BY <1>8 DEF Serve
  <2>2. read[c] \in Seq(Chunk \cup {Gap}) /\ size[c] \in 0 .. 3 /\ Len(read[c]) \in Nat
    BY DEF TypeOK
  <2>3. k \in 1 .. 3
    BY <2>1, <2>2
  <2>4. content[k] \in Chunk \cup {Gap}
    BY <2>3 DEF TypeOK
  <2>5. /\ Append(read[c], content[k]) \in Seq(Chunk \cup {Gap})
        /\ Len(Append(read[c], content[k])) = Len(read[c]) + 1
    BY <2>2, <2>4
  <2>6. /\ read' \in [Calls -> Seq(Chunk \cup {Gap})]
        /\ \A d \in Calls : d # c => read'[d] = read[d]
        /\ Len(read'[c]) = Len(read[c]) + 1
    BY <2>1, <2>5 DEF TypeOK
  <2>7. \A d \in Calls : Len(read'[d]) <= size'[d]
    BY <1>3, <2>1, <2>2, <2>6
  <2>8. pc' \in [Procs -> Stages] /\ c \in Procs
    BY <1>1, <2>1 DEF TypeOK, Stages
  <2>9. PlaceInv'
    BY <2>1, <2>6 DEF PlaceInv, Writing, Unread, Parts
  <2> QED BY <2>1, <2>6, <2>7, <2>8, <2>9, SafeTypes DEF TypeOK
<1> QED BY <1>4, <1>5, <1>6, <1>7, <1>8

LEMMA WorldTypes ==
  ASSUME TypeOK, PlaceInv, MonitorArchive \/ Compact \/ Crash
  PROVE  TypeOK' /\ PlaceInv'
<1> USE DEF fileVars, writeVars, readVars, pastVars
<1>1. CASE MonitorArchive
  <2>1. /\ Step(Crawler, "idle", "create") /\ archives < MaxArchives /\ archives' = archives + 1
        /\ UNCHANGED <<fileVars, db, writeVars, readVars, spoilt, excused, crashes>>
    BY <1>1 DEF MonitorArchive
  <2>2. /\ Crawler \in Procs /\ "create" \in Stages \ Parts
        /\ archives' \in 0 .. MaxArchives /\ "idle" \in Unread
    BY <2>1 DEF Procs, Stages, Parts, Unread, TypeOK
  <2> QED BY <2>1, <2>2, CalmTypes DEF TypeOK
<1>2. CASE Compact
  <2>1. db' \in 0 .. MaxVersion /\ spoilt' \in BOOLEAN
        /\ UNCHANGED <<exists, content, pc, listed, at, size, read, excused, archives, crashes>>
    BY <1>2 DEF Compact, TypeOK
  <2>2. PlaceInv'
    BY <2>1 DEF PlaceInv, Writing
  <2>3. pc' \in [Procs -> Stages]
    BY <2>1 DEF TypeOK, Stages
  <2> QED BY <2>1, <2>2, <2>3, SafeTypes DEF TypeOK
<1>3. CASE Crash
  <2>1. /\ crashes < MaxCrashes /\ crashes' = crashes + 1 /\ spoilt' \in BOOLEAN
        /\ UNCHANGED <<exists, content, db, listed, at, size, read, excused, archives>>
        /\ pc' = [p \in Procs |-> IF p = Crawler THEN "idle"
                                  ELSE IF pc[p] \in {"idle", "served"} THEN pc[p] ELSE "done"]
    BY <1>3 DEF Crash
  <2>2. \A p \in Procs : /\ pc'[p] \in {"idle", "served", "done"}
                         /\ p = Crawler => pc'[p] = "idle"
                         /\ p # Crawler /\ pc'[p] = "idle" => pc[p] = "idle"
    BY <2>1
  <2>3. pc' \in [Procs -> Stages]
    BY <2>1, <2>2 DEF Stages
  <2>4. \A p \in Procs : pc'[p] \notin Parts
    BY <2>2 DEF Parts
  <2>5. \A p \in Procs : pc'[p] # "tables" /\ pc'[p] # "manifest" /\ pc'[p] \notin {"end", "cut"}
    BY <2>2
  <2>6. ASSUME NEW c \in Calls, pc'[c] \in Unread PROVE read'[c] = <<>>
    <3>1. c \in Procs /\ c # Crawler
      BY DEF Procs
    <3>2. pc'[c] = "idle"
      BY <2>2, <2>6, <3>1 DEF Unread, Parts
    <3>3. pc[c] \in Unread
      BY <2>2, <3>1, <3>2 DEF Unread
    <3> QED BY <2>1, <3>3 DEF PlaceInv
  <2>7. PlaceInv'
    BY <2>2, <2>4, <2>5, <2>6 DEF PlaceInv, Writing
  <2>8. crashes' \in 0 .. MaxCrashes
    BY <2>1 DEF TypeOK
  <2> QED BY <2>1, <2>3, <2>7, <2>8, SafeTypes DEF TypeOK
<1> QED BY <1>1, <1>2, <1>3

LEMMA ArchiveStep == TypeOK /\ PlaceInv /\ [Next]_vars => TypeOK' /\ PlaceInv'
<1>1. ASSUME TypeOK, PlaceInv, UNCHANGED vars PROVE TypeOK' /\ PlaceInv'
  <2>1. TypeOK'
    BY <1>1 DEF vars, fileVars, writeVars, readVars, pastVars, TypeOK, Writing
  <2>2. PlaceInv'
    BY <1>1 DEF vars, fileVars, writeVars, readVars, pastVars, PlaceInv, Writing
  <2> QED BY <2>1, <2>2
<1> QED
  BY <1>1, WriterTypes, DownloadTypes, WorldTypes DEF Next

\* What a download has read never exceeds the size that it announced.
THEOREM ArchiveTypes == Spec => []TypeOK
  BY ArchiveInit, ArchiveStep, PTL DEF Spec

-----------------------------------------------------------------------------
(* An archive written in peace, and who reads it *)

LEMMA Triple ==
  ASSUME NEW S, NEW f \in [1 .. 3 -> S], NEW a, NEW b, NEW d, f[1] = a, f[2] = b, f[3] = d
  PROVE  f = <<a, b, d>>
  OBVIOUS

LEMMA SoundParts ==
  ASSUME NEW archive, Sound(archive)
  PROVE  /\ archive[3] # Gap
         /\ Len(archive) = 3 /\ archive \in Seq(Chunk \cup {Gap})
<1>1. PICK p \in Procs, v \in 0 .. MaxVersion :
          archive = << <<"tables", p, v>>, <<"manifest", p, v>>, <<"end", p, v>> >>
  BY DEF Sound
<1>2. {<<"tables", p, v>>, <<"manifest", p, v>>, <<"end", p, v>>} \subseteq Chunk
  BY DEF Chunk, Parts
<1>3. <<"end", p, v>> # Gap
  BY <1>2, GapApart
<1> QED BY <1>1, <1>2, <1>3

\* What a writer in peace has written.
Written(p) ==
    /\ Writing(p) => listed[p] = db
    /\ pc[p] \in {"manifest", "end"} => content[1] = <<"tables", p, db>>
    /\ pc[p] = "end" => at[p] = 3 /\ content[2] = <<"manifest", p, db>>
    /\ pc[p] # "cut"

WriteInv ==
    ~spoilt =>
       /\ \A p, q \in Procs : Writing(p) /\ Writing(q) => p = q
       /\ \A p \in Procs : Written(p)
       /\ exists /\ (\A p \in Procs : ~Writing(p)) => Sound(content)

\* What a download without an excuse has read.
Reads(c) ==
    /\ pc[c] = "read" =>
          /\ \A p \in Procs : ~Writing(p)
          /\ Sound(content) /\ size[c] = 3
          /\ \A k \in 1 .. Len(read[c]) : read[c][k] = content[k]
    /\ pc[c] = "served" => Sound(read[c])

ReadInv == \A c \in Calls \ excused : Reads(c)

LEMMA PeaceInit == Init => WriteInv /\ ReadInv
<1> SUFFICES ASSUME Init PROVE WriteInv /\ ReadInv
  OBVIOUS
<1>1. \A p \in Procs : pc[p] = "idle" /\ ~Writing(p)
  BY DEF Init, Writing, Parts
<1>2. ~exists
  BY DEF Init
<1>3. \A c \in Calls : pc[c] = "idle"
  BY <1>1 DEF Procs
<1> QED BY <1>1, <1>2, <1>3 DEF WriteInv, Written, ReadInv, Reads

\* Steps of others, and their own that neither read nor end.
LEMMA ReadsStay ==
  ASSUME NEW c \in Calls \ excused', c \notin excused => Reads(c),
         excused \subseteq excused',
         /\ pc'[c] = "read" => pc[c] = "read" /\ content' = content /\ \A p \in Procs : pc'[p] \in Parts => pc[p] \in Parts
         /\ pc'[c] = "served" => pc[c] = "served",
         size'[c] = size[c], read'[c] = read[c]
  PROVE  Reads(c)'
<1>1. Reads(c)
  OBVIOUS
<1>2. ASSUME pc'[c] = "read"
      PROVE  /\ \A p \in Procs : ~Writing(p)'
             /\ Sound(content)' /\ size'[c] = 3
             /\ \A k \in 1 .. Len(read'[c]) : read'[c][k] = content'[k]
  BY <1>1, <1>2 DEF Reads, Writing, Sound
<1>3. ASSUME pc'[c] = "served" PROVE Sound(read[c])'
  BY <1>1, <1>3 DEF Reads, Sound
<1> QED BY <1>2, <1>3 DEF Reads

Peace == TypeOK /\ PlaceInv /\ WriteInv /\ ReadInv

\* A download that moves while the others stay.
LEMMA OthersRead ==
  ASSUME Peace, NEW p \in Procs, NEW from, NEW to \in Stages \ Parts, Step(p, from, to),
         content' = content, excused \subseteq excused',
         \A c \in Calls : c # p => size'[c] = size[c] /\ read'[c] = read[c],
         p \in Calls \ excused' => Reads(p)'
  PROVE  ReadInv'
<1> SUFFICES ASSUME NEW c \in Calls \ excused', c # p PROVE Reads(c)'
  BY DEF ReadInv
<1>1. \A q \in Procs : pc'[q] \in Parts => pc[q] \in Parts
  BY StepStage DEF Peace
<1>2. pc'[c] = pc[c]
  BY StepStage DEF Peace, Procs
<1>3. c \notin excused => Reads(c)
  BY DEF Peace, ReadInv
<1> QED BY <1>1, <1>2, <1>3, ReadsStay

\* A step of one goroutine outside of CreateSnapshot.
LEMMA OutsideWrite ==
  ASSUME Peace, NEW p \in Procs, NEW from, NEW to \in Stages \ Parts, Step(p, from, to), from \notin Parts,
         UNCHANGED <<exists, content, db, listed, at, spoilt>>
  PROVE  WriteInv'
<1> SUFFICES ASSUME ~spoilt' PROVE WriteInv'
  BY DEF WriteInv
<1>1. /\ \A q \in Procs : Writing(q)' <=> Writing(q)
      /\ \A q \in Procs : Writing(q)' => pc'[q] = pc[q]
  BY StepStage DEF Peace, Writing
<1>2. ~spoilt /\ \A q \in Procs : pc'[q] \in Parts => pc'[q] = pc[q]
  BY <1>1 DEF Writing
<1>3. \A q \in Procs : Written(q)'
  <2> TAKE q \in Procs
  <2>1. Written(q)
    BY <1>2 DEF Peace, WriteInv
  <2>2. CASE pc'[q] \in Parts
    BY <1>2, <2>1, <2>2 DEF Written, Writing
  <2>3. CASE pc'[q] \notin Parts
    BY <2>3 DEF Written, Writing, Parts
  <2> QED BY <2>2, <2>3
<1>4. \A q, r \in Procs : Writing(q)' /\ Writing(r)' => q = r
  BY <1>1, <1>2 DEF Peace, WriteInv
<1>5. exists' /\ (\A q \in Procs : ~Writing(q)') => Sound(content)'
  BY <1>1, <1>2 DEF Peace, WriteInv, Sound
<1> QED BY <1>3, <1>4, <1>5 DEF WriteInv

LEMMA PeaceDownload ==
  ASSUME Peace, NEW c \in Calls,
         Stat(c) \/ Open(c) \/ NotFound(c) \/ Serve(c) \/ Served(c)
  PROVE  WriteInv' /\ ReadInv'
<1> USE DEF fileVars, writeVars, readVars, pastVars
<1>1. /\ c \in Procs /\ {"open", "create", "read", "done", "served"} \subseteq Stages \ Parts
      /\ {"idle", "open", "read"} \cap Parts = {}
  BY DEF Procs, Stages, Parts
<1>2. ASSUME NEW from \in {"idle", "open", "read"}, NEW to \in {"open", "create", "read", "done", "served"},
             Step(c, from, to), UNCHANGED <<exists, content, db, listed, at, spoilt>>,
             excused \subseteq excused',
             \A d \in Calls : d # c => size'[d] = size[d] /\ read'[d] = read[d],
             c \notin excused' => Reads(c)'
      PROVE  WriteInv' /\ ReadInv'
  <2>1. to \in Stages \ Parts /\ from \notin Parts
    BY <1>1
  <2> QED BY <1>1, <1>2, <2>1, OthersRead, OutsideWrite
<1>3. CASE Stat(c) \/ NotFound(c)
  <2>1. PICK from \in {"idle", "open"}, to \in {"open", "create", "done"} : Step(c, from, to)
    BY <1>3 DEF Stat, NotFound
  <2>2. pc'[c] = to
    BY <1>1, <2>1, StepStage DEF Peace
  <2>3. Reads(c)'
    BY <2>2 DEF Reads
  <2> QED BY <1>2, <1>3, <2>1, <2>3 DEF Stat, NotFound
<1>4. CASE Open(c)
  <2>1. /\ exists /\ Step(c, "open", "read") /\ size' = [size EXCEPT ![c] = Extent]
        /\ excused' = IF spoilt \/ \E p \in Procs : Writing(p) THEN excused \cup {c} ELSE excused
        /\ UNCHANGED <<fileVars, db, writeVars, read, spoilt, pastVars>>
    BY <1>4 DEF Open, Extent
  <2>2. ASSUME c \notin excused' PROVE Reads(c)'
    <3>1. ~spoilt /\ \A p \in Procs : ~Writing(p)
      BY <2>1, <2>2
    <3>2. Sound(content)
      BY <2>1, <3>1 DEF Peace, WriteInv
    <3>3. Extent = 3
      BY <3>2, SoundParts, FullExtent
    <3>4. /\ pc[c] = "open" /\ pc'[c] = "read"
          /\ \A q \in Procs : q # c => pc'[q] = pc[q]
      BY <1>1, <2>1, StepStage DEF Peace
    <3>5. \A p \in Procs : ~Writing(p)'
      BY <1>1, <3>1, <3>4 DEF Writing
    <3>6. read[c] = <<>> /\ read' = read
      BY <2>1, <3>4 DEF Peace, PlaceInv, Unread
    <3>7. size'[c] = 3
      BY <2>1, <3>3 DEF Peace, TypeOK
    <3>8. content' = content /\ 1 .. Len(read'[c]) = {}
      BY <2>1, <3>6
    <3> QED BY <3>2, <3>4, <3>5, <3>7, <3>8 DEF Reads, Sound
  <2>3. \A d \in Calls : d # c => size'[d] = size[d] /\ read'[d] = read[d]
    BY <2>1 DEF Peace, TypeOK
  <2> QED BY <1>2, <2>1, <2>2, <2>3
<1>5. CASE Served(c)
  <2>1. /\ Len(read[c]) = size[c] /\ Step(c, "read", "served")
        /\ UNCHANGED <<fileVars, db, writeVars, readVars, spoilt, excused, pastVars>>
    BY <1>5 DEF Served
  <2>2. ASSUME c \notin excused' PROVE Reads(c)'
    <3>1. pc[c] = "read" /\ pc'[c] = "served" /\ Reads(c)
      BY <1>1, <2>1, <2>2, StepStage DEF Peace, ReadInv
    <3>2. /\ Sound(content) /\ Len(read[c]) = 3 /\ \A k \in 1 .. 3 : read[c][k] = content[k]
      BY <2>1, <3>1 DEF Reads
    <3>3. read[c] \in Seq(Chunk \cup {Gap}) /\ content \in Seq(Chunk \cup {Gap}) /\ Len(content) = 3
      BY <3>2, SoundParts DEF Peace, TypeOK
    <3>4. read[c] = content
      BY <3>2, <3>3
    <3> QED BY <2>1, <3>1, <3>2, <3>4 DEF Reads, Sound
  <2> QED BY <1>2, <2>1, <2>2
<1>6. CASE Serve(c)
  <2> DEFINE k == Len(read[c]) + 1
  <2>1. /\ Len(read[c]) < size[c] /\ pc[c] = "read"
        /\ read' = [read EXCEPT ![c] = Append(read[c], content[k])]
        /\ UNCHANGED <<exists, content, db, pc, listed, at, size, spoilt, excused>>
    BY <1>6 DEF Serve
  <2>2. WriteInv'
    BY <2>1 DEF Peace, WriteInv, Written, Writing, Sound
  <2>3. ASSUME NEW d \in Calls \ excused', d # c PROVE Reads(d)'
    <3>1. read'[d] = read[d] /\ Reads(d)
      BY <2>1, <2>3 DEF Peace, TypeOK, ReadInv
    <3> QED BY <2>1, <3>1 DEF Reads, Writing, Sound
  <2>4. ASSUME c \notin excused' PROVE Reads(c)'
    <3>1. Reads(c) /\ read[c] \in Seq(Chunk \cup {Gap}) /\ read'[c] = Append(read[c], content[k])
      BY <2>1, <2>4 DEF Peace, TypeOK, ReadInv
    <3>2. /\ Len(read'[c]) = k /\ read'[c][k] = content[k]
          /\ \A j \in 1 .. Len(read[c]) : read'[c][j] = read[c][j]
      BY <3>1
    <3>3. Len(read[c]) \in Nat
      BY <3>1
    <3>4. \A j \in 1 .. k : j = k \/ j \in 1 .. Len(read[c])
      BY <3>3
    <3>5. \A j \in 1 .. Len(read'[c]) : read'[c][j] = content[j]
      BY <2>1, <3>1, <3>2, <3>4 DEF Reads
    <3> QED BY <2>1, <3>1, <3>5 DEF Reads, Writing, Sound
  <2> QED BY <2>2, <2>3, <2>4 DEF ReadInv
<1> QED BY <1>3, <1>4, <1>5, <1>6

\* While somebody writes, whoever reads is excused.
LEMMA WriterReads ==
  ASSUME Peace, NEW p \in Procs, Writing(p), NEW from, NEW to \in Stages \ {"read", "served"}, Step(p, from, to),
         UNCHANGED <<size, read, excused>>
  PROVE  ReadInv'
<1> SUFFICES ASSUME NEW c \in Calls \ excused PROVE Reads(c)'
  BY DEF ReadInv
<1>1. pc'[p] = to /\ \A q \in Procs : q # p => pc'[q] = pc[q]
  BY StepStage DEF Peace
<1>2. c \in Procs /\ Reads(c)
  BY DEF Peace, ReadInv, Procs
<1>3. pc[c] # "read"
  BY <1>2 DEF Reads
<1>4. pc'[c] # "read" /\ (pc'[c] = "served" => pc[c] = "served")
  BY <1>1, <1>2, <1>3
<1>5. ASSUME pc'[c] = "served" PROVE Sound(read[c])'
  BY <1>2, <1>4, <1>5 DEF Reads, Sound
<1> QED BY <1>4, <1>5 DEF Reads

LEMMA PeaceCreate ==
  ASSUME Peace, NEW p \in Procs, Create(p) \/ CreateFails(p)
  PROVE  WriteInv' /\ ReadInv'
<1> USE DEF fileVars, writeVars, readVars, pastVars
<1>1. CASE Create(p)
  <2>1. /\ Step(p, "create", "tables") /\ listed' = [listed EXCEPT ![p] = db]
        /\ (spoilt' <=> \E q \in Procs : Writing(q))
        /\ excused' = excused \cup {c \in Calls : pc[c] = "read"}
        /\ UNCHANGED <<db, size, read>>
    BY <1>1 DEF Create
  <2>2. /\ pc'[p] = "tables" /\ \A q \in Procs : q # p => pc'[q] = pc[q]
    BY <2>1, StepStage DEF Peace, Stages, Parts
  <2>3. WriteInv'
    <3> SUFFICES ASSUME \A q \in Procs : ~Writing(q) PROVE WriteInv'
      BY <2>1 DEF WriteInv
    <3>1. \A q \in Procs : pc'[q] \in Parts => q = p
      BY <2>2 DEF Writing
    <3>2. pc'[p] \in Parts
      BY <2>2 DEF Parts
    <3>3. listed'[p] = db'
      BY <2>1 DEF Peace, TypeOK
    <3>4. ASSUME NEW q \in Procs PROVE Written(q)'
      <4>1. q # p => pc'[q] \notin {"manifest", "end", "cut"}
        BY <3>1 DEF Parts
      <4> QED BY <2>2, <3>1, <3>3, <4>1 DEF Written, Writing
    <3> QED BY <3>1, <3>2, <3>4 DEF WriteInv, Writing
  <2>4. ASSUME NEW c \in Calls \ excused' PROVE Reads(c)'
    <3>1. c \in Procs /\ pc[c] # "read" /\ Reads(c)
      BY <2>1 DEF Peace, ReadInv, Procs
    <3>2. pc'[c] # "read" /\ (pc'[c] = "served" => pc[c] = "served")
      BY <2>2, <3>1
    <3>3. ASSUME pc'[c] = "served" PROVE Sound(read[c])'
      BY <2>1, <3>1, <3>2, <3>3 DEF Reads, Sound
    <3> QED BY <3>2, <3>3 DEF Reads
  <2> QED BY <2>3, <2>4 DEF ReadInv
<1>2. CASE CreateFails(p)
  <2>1. Step(p, "create", Then(p)) /\ UNCHANGED <<exists, content, db, listed, at, size, read, spoilt, excused>>
    BY <1>2 DEF CreateFails
  <2>2. Then(p) \in Stages \ Parts /\ Then(p) \in {"idle", "open"} /\ "create" \notin Parts
    BY ThenStage DEF Parts
  <2>3. pc'[p] = Then(p)
    BY <2>1, <2>2, StepStage DEF Peace
  <2>4. Reads(p)'
    BY <2>2, <2>3 DEF Reads
  <2> QED BY <2>1, <2>2, <2>4, OthersRead, OutsideWrite
<1> QED BY <1>1, <1>2

LEMMA PeaceCopy ==
  ASSUME Peace, NEW p \in Procs,
         CopyTables(p) \/ CopyManifest(p) \/ CopyFails(p) \/ Close(p)
  PROVE  WriteInv' /\ ReadInv'
<1> USE DEF fileVars, writeVars, readVars, pastVars
<1>1. /\ {"tables", "manifest", "end", "cut"} \subseteq Parts
      /\ {"manifest", "end", "cut", Then(p)} \subseteq Stages \ {"read", "served"}
  BY ThenStage DEF Stages, Parts
<1>2. PICK from \in {"tables", "manifest", "end", "cut"}, to \in {"manifest", "end", "cut", Then(p)} : Step(p, from, to)
  BY DEF CopyTables, CopyManifest, CopyFails, Close
<1>3. Writing(p) /\ at[p] \in 1 .. 3
  BY <1>1, <1>2 DEF Step, Writing, Peace, TypeOK
<1>4. UNCHANGED <<db, listed, size, read, excused, exists>>
  BY DEF CopyTables, CopyManifest, CopyFails, Close, Put
<1>5. ReadInv'
  BY <1>1, <1>2, <1>3, <1>4, WriterReads
<1>6. /\ pc[p] = from /\ pc'[p] = to /\ \A q \in Procs : q # p => pc'[q] = pc[q]
  BY <1>1, <1>2, StepStage DEF Peace
<1>7. CASE CopyFails(p)
  BY <1>5, <1>7 DEF CopyFails, WriteInv
<1>8. ASSUME ~spoilt', ~CopyFails(p) PROVE WriteInv'
  <2>1. ~spoilt /\ at' = [at EXCEPT ![p] = at[p] + 1]
    BY <1>8 DEF CopyTables, CopyManifest, Close, Put
  <2>2. Written(p) /\ \A q \in Procs : Writing(q) => q = p
    BY <1>3, <2>1 DEF Peace, WriteInv
  <2>3. \A q \in Procs : pc'[q] \in Parts => q = p
    BY <1>6, <2>2 DEF Writing
  <2>4. ASSUME NEW q \in Procs, q # p PROVE Written(q)'
    <3>1. pc'[q] \notin {"manifest", "end", "cut"} /\ pc'[q] \notin Parts
      BY <1>1, <2>3, <2>4
    <3> QED BY <3>1 DEF Written, Writing
  <2>5. listed[p] = db /\ exists
    BY <1>3, <2>2 DEF Written, Peace, PlaceInv
  <2>6. ASSUME NEW part, Put(p, part, db)
        PROVE  /\ content' = [content EXCEPT ![at[p]] = <<part, p, db>>]
               /\ content'[at[p]] = <<part, p, db>>
               /\ \A k \in 1 .. 3 : k # at[p] => content'[k] = content[k]
               /\ at'[p] = at[p] + 1
    BY <1>3, <2>1, <2>6 DEF Put, Peace, TypeOK
  <2>7. Then(p) \notin Parts
    BY ThenStage
  <2>8. CASE CopyTables(p)
    <3>1. pc[p] = "tables" /\ pc'[p] = "manifest" /\ Put(p, "tables", db)
      BY <1>1, <2>5, <2>8, StepStage DEF CopyTables, Peace
    <3>2. at[p] = 1
      BY <3>1 DEF Peace, PlaceInv
    <3>3. content'[1] = <<"tables", p, db>>
      BY <2>6, <3>1, <3>2
    <3>4. Written(p)'
      BY <1>4, <2>5, <3>1, <3>3 DEF Written
    <3>5. pc'[p] \in Parts
      BY <3>1 DEF Parts
    <3> QED BY <2>3, <2>4, <3>4, <3>5 DEF WriteInv, Writing
  <2>9. CASE CopyManifest(p)
    <3>1. pc[p] = "manifest" /\ pc'[p] = "end" /\ Put(p, "manifest", db)
      BY <1>1, <2>9, StepStage DEF CopyManifest, Peace
    <3>2. at[p] = 2 /\ content[1] = <<"tables", p, db>>
      BY <2>2, <3>1 DEF Peace, PlaceInv, Written
    <3>3. content'[1] = content[1] /\ content'[2] = <<"manifest", p, db>> /\ at'[p] = 3
      BY <2>6, <3>1, <3>2
    <3>4. Written(p)'
      BY <1>4, <2>5, <3>1, <3>2, <3>3 DEF Written
    <3>5. pc'[p] \in Parts
      BY <3>1 DEF Parts
    <3> QED BY <2>3, <2>4, <3>4, <3>5 DEF WriteInv, Writing
  <2>10. CASE Close(p)
    <3>1. pc[p] = "end" /\ pc'[p] = Then(p) /\ Put(p, "end", db)
      <4>1. pc[p] # "cut" /\ Then(p) \in Stages
        BY <1>1, <2>2, ThenStage DEF Written
      <4> QED BY <1>6, <2>5, <2>10, <4>1, StepStage DEF Close, Peace
    <3>2. at[p] = 3 /\ content[1] = <<"tables", p, db>> /\ content[2] = <<"manifest", p, db>>
      BY <2>2, <3>1 DEF Written
    <3>3. content'[1] = <<"tables", p, db>> /\ content'[2] = <<"manifest", p, db>> /\ content'[3] = <<"end", p, db>>
      BY <2>6, <3>1, <3>2
    <3>4. content' \in [1 .. 3 -> Chunk \cup {Gap}] /\ db \in 0 .. MaxVersion
      <4>1. TypeOK'
        BY <2>10, WriterTypes DEF Peace
      <4> QED BY <4>1 DEF TypeOK, Peace
    <3>5. content' = << <<"tables", p, db>>, <<"manifest", p, db>>, <<"end", p, db>> >>
      BY <3>3, <3>4, Triple
    <3>6. Sound(content)'
      BY <3>4, <3>5 DEF Sound
    <3>7. Written(p)' /\ \A q \in Procs : pc'[q] \notin Parts
      <4>1. \A q \in Procs : pc'[q] \notin Parts
        BY <2>3, <2>7, <3>1
      <4>2. pc'[p] \notin {"manifest", "end", "cut"}
        BY <1>1, <4>1
      <4> QED BY <4>1, <4>2 DEF Written, Writing
    <3> QED BY <2>4, <3>6, <3>7 DEF WriteInv, Writing
  <2> QED BY <1>8, <2>8, <2>9, <2>10
<1> QED BY <1>5, <1>7, <1>8 DEF WriteInv

LEMMA PeaceWorld ==
  ASSUME Peace, MonitorArchive \/ Compact \/ Crash
  PROVE  WriteInv' /\ ReadInv'
<1> USE DEF fileVars, writeVars, readVars, pastVars
<1>1. CASE MonitorArchive
  <2>1. /\ Step(Crawler, "idle", "create")
        /\ UNCHANGED <<exists, content, db, listed, at, size, read, spoilt, excused>>
    BY <1>1 DEF MonitorArchive
  <2>2. /\ Crawler \in Procs /\ Crawler \notin Calls /\ "create" \in Stages \ Parts /\ "idle" \notin Parts
    BY DEF Procs, Stages, Parts
  <2> QED BY <2>1, <2>2, OthersRead, OutsideWrite
<1>2. CASE Compact
  <2>1. /\ (spoilt' <=> spoilt \/ \E q \in Procs : Writing(q))
        /\ UNCHANGED <<exists, content, pc, size, read, excused>>
    BY <1>2 DEF Compact, Peace, TypeOK
  <2>2. WriteInv'
    <3> SUFFICES ASSUME ~spoilt, \A q \in Procs : pc[q] \notin Parts PROVE WriteInv'
      BY <2>1 DEF WriteInv, Writing
    <3>1. \A q \in Procs : Written(q)'
      BY <2>1 DEF Written, Writing, Parts
    <3> QED BY <2>1, <3>1 DEF Peace, WriteInv, Writing, Sound
  <2>3. ReadInv'
    BY <2>1 DEF Peace, ReadInv, Reads, Writing, Sound
  <2> QED BY <2>2, <2>3
<1>3. CASE Crash
  <2>1. /\ (spoilt' <=> spoilt \/ \E q \in Procs : Writing(q))
        /\ pc' = [p \in Procs |-> IF p = Crawler THEN "idle"
                                  ELSE IF pc[p] \in {"idle", "served"} THEN pc[p] ELSE "done"]
        /\ UNCHANGED <<exists, content, size, read, excused>>
    BY <1>3 DEF Crash, Peace, TypeOK
  <2>2. \A q \in Procs : pc'[q] \in {"idle", "served", "done"} /\ (pc'[q] = "served" => pc[q] = "served")
    BY <2>1
  <2>3. \A q \in Procs : ~Writing(q)'
    BY <2>2 DEF Writing, Parts
  <2>4. WriteInv'
    <3> SUFFICES ASSUME ~spoilt, \A q \in Procs : ~Writing(q) PROVE WriteInv'
      BY <2>1 DEF WriteInv
    <3>1. \A q \in Procs : Written(q)'
      BY <2>2, <2>3 DEF Written
    <3> QED BY <2>1, <2>3, <3>1 DEF Peace, WriteInv, Sound
  <2>5. ASSUME NEW c \in Calls \ excused' PROVE Reads(c)'
    <3>1. pc'[c] # "read" /\ (pc'[c] = "served" => pc[c] = "served") /\ Reads(c)
      BY <2>1, <2>2 DEF Procs, Peace, ReadInv
    <3> QED BY <2>1, <3>1 DEF Reads, Sound
  <2> QED BY <2>4, <2>5 DEF ReadInv
<1> QED BY <1>1, <1>2, <1>3

LEMMA PeaceStep == Peace /\ [Next]_vars => Peace'
<1> SUFFICES ASSUME Peace, [Next]_vars PROVE WriteInv' /\ ReadInv'
  BY ArchiveStep DEF Peace
<1>1. ASSUME UNCHANGED vars PROVE WriteInv' /\ ReadInv'
  BY <1>1 DEF vars, fileVars, writeVars, readVars, pastVars, Peace, WriteInv, Written, ReadInv, Reads,
              Writing, Sound
<1> QED
  BY <1>1, PeaceDownload, PeaceCreate, PeaceCopy, PeaceWorld DEF Next

\* For any number of downloads, archives, compactions and crashes: who is served
\* anything but one whole version, by one writer, had met a writer or an archive
\* whose writing was disturbed.
THEOREM BadDownloadsHaveCause == Spec => []BadDownloadHasCause
<1>1. Peace => BadDownloadHasCause
  BY DEF Peace, ReadInv, Reads, BadDownloadHasCause
<1> QED
  BY <1>1, ArchiveInit, PeaceInit, PeaceStep, PTL DEF Spec, Peace

-----------------------------------------------------------------------------
(* MiningStats *)

USE StatsAssumption

\* A hashrate that is no number stems from the last report of its miner.
ReportInv == \A m \in Miners : rate[m] = "plain" \/ odd[m] = seen[m]

\* The sum at its time, and the size, of a dashboard that is under way.
SumInv ==
    \A c \in Dashboards : empty[c] /\ todo[c] # {"begin"} =>
        "sum" \in todo[c] \/ \E m \in Miners : odd[m] > 0 /\ summed[c] < odd[m] + Window

SizeInv ==
    /\ IsFiniteSet(known)
    /\ \A c \in Dashboards : todo[c] # {"begin"} =>
          /\ first[c] <= Cardinality(known)
          /\ "len" \in todo[c] \/ (first[c] <= count[c] /\ count[c] <= Cardinality(known))

StatsInv == StatsOK /\ ReportInv /\ SumInv /\ SizeInv

LEMMA StatsBegin == StatsInit => StatsInv
<1> SUFFICES ASSUME StatsInit PROVE StatsInv
  OBVIOUS
<1>1. known = {} /\ \A c \in Dashboards : todo[c] = {"begin"}
  BY DEF StatsInit
<1>2. IsFiniteSet(known)
  BY <1>1, FS_EmptySet
<1>3. rate \in [Miners -> {"plain", "huge", "none"}] /\ empty \in [Dashboards -> BOOLEAN] /\ \A m \in Miners : rate[m] = "plain"
  BY DEF StatsInit
<1>4. StatsOK
  BY <1>3 DEF StatsInit, StatsOK
<1> QED
  BY <1>1, <1>2, <1>3, <1>4 DEF StatsInv, ReportInv, SumInv, SizeInv

\* What is left of the dashboards' claims when a miner reports or the clock moves.
LEMMA MinersMove ==
  ASSUME StatsInv, StatsOK', ReportInv', UNCHANGED callVars,
         \A m \in Miners : odd[m] <= odd'[m],
         known \subseteq known', IsFiniteSet(known')
  PROVE  StatsInv'
<1>1. /\ Cardinality(known) \in Nat /\ Cardinality(known') \in Nat
      /\ Cardinality(known) <= Cardinality(known')
  BY FS_Subset, FS_CardinalityType
<1>2. /\ \A c \in Dashboards : first[c] \in Nat /\ count[c] \in Nat /\ summed[c] \in Nat
      /\ \A m \in Miners : odd[m] \in Nat /\ odd'[m] \in Nat
  BY DEF StatsInv, StatsOK
<1>3. SizeInv'
  BY <1>1, <1>2 DEF StatsInv, SizeInv, callVars
<1>4. \A c \in Dashboards, m \in Miners :
          odd[m] > 0 /\ summed[c] < odd[m] + Window => odd'[m] > 0 /\ summed[c] < odd'[m] + Window
  BY <1>2
<1>5. SumInv'
  BY <1>4 DEF StatsInv, SumInv, callVars
<1> QED BY <1>3, <1>5 DEF StatsInv

LEMMA StatsStep == StatsInv /\ [StatsNext]_statsVars => StatsInv'
<1> SUFFICES ASSUME StatsInv, [StatsNext]_statsVars PROVE StatsInv'
  OBVIOUS
<1>1. CASE ClockTick
  <2>1. clock' = clock + 1 /\ clock' \in 1 .. LastTick /\ UNCHANGED <<minerVars, callVars>>
    BY <1>1 DEF ClockTick, StatsInv, StatsOK
  <2>2. StatsOK'
    BY <2>1 DEF StatsInv, StatsOK, minerVars, callVars
  <2>3. ReportInv' /\ IsFiniteSet(known')
    BY <2>1 DEF StatsInv, ReportInv, SizeInv, minerVars
  <2>4. \A m \in Miners : odd[m] <= odd'[m]
    BY <2>1 DEF StatsInv, StatsOK, minerVars
  <2> QED BY <2>1, <2>2, <2>3, <2>4, MinersMove DEF minerVars
<1>2. ASSUME NEW m \in Miners, Enter(m) PROVE StatsInv'
  <2>1. /\ lock' = m /\ known' = known \cup {m} /\ UNCHANGED <<clock, seen, rate, odd, callVars>>
    BY <1>2 DEF Enter
  <2>2. StatsOK'
    BY <2>1 DEF StatsInv, StatsOK, callVars
  <2>3. ReportInv' /\ IsFiniteSet(known')
    BY <2>1, FS_AddElement DEF StatsInv, ReportInv, SizeInv
  <2>4. \A n \in Miners : odd[n] <= odd'[n]
    BY <2>1 DEF StatsInv, StatsOK
  <2> QED BY <2>1, <2>2, <2>3, <2>4, MinersMove
<1>3. ASSUME NEW m \in Miners, NEW duration \in Durations, Report(m, duration)
      PROVE  StatsInv'
  <2>1. /\ lock' = Nobody /\ seen' = [seen EXCEPT ![m] = clock]
        /\ odd' = IF duration = "plain" THEN odd ELSE [odd EXCEPT ![m] = clock]
        /\ UNCHANGED <<clock, known, callVars>>
    BY <1>3 DEF Report
  <2>2. PICK quotient \in Quotients(duration) : rate' = [rate EXCEPT ![m] = quotient]
    BY <1>3 DEF Report
  <2>3. quotient \in {"plain", "huge", "none"} /\ (duration = "plain" => quotient = "plain")
    BY DEF Quotients, Durations
  <2>4. rate' \in [Miners -> {"plain", "huge", "none"}]
    BY <2>2, <2>3 DEF StatsInv, StatsOK
  <2>5. /\ seen' \in [Miners -> 0 .. clock] /\ odd' \in [Miners -> 0 .. clock]
        /\ \A n \in Miners : odd'[n] <= seen'[n] /\ odd[n] <= odd'[n]
    BY <2>1 DEF StatsInv, StatsOK
  <2>6. StatsOK'
    BY <2>1, <2>4, <2>5 DEF StatsInv, StatsOK, callVars
  <2>7. /\ rate'[m] = quotient /\ seen'[m] = clock /\ (duration # "plain" => odd'[m] = clock)
        /\ \A n \in Miners \ {m} : rate'[n] = rate[n] /\ seen'[n] = seen[n] /\ odd'[n] = odd[n]
    BY <2>1, <2>2 DEF StatsInv, StatsOK
  <2>8. ReportInv'
    BY <2>3, <2>7 DEF StatsInv, ReportInv
  <2>9. IsFiniteSet(known')
    BY <2>1 DEF StatsInv, SizeInv
  <2> QED BY <2>1, <2>5, <2>6, <2>8, <2>9, MinersMove
<1>4. ASSUME NEW c \in Dashboards, Begin(c) PROVE StatsInv'
  <2>1. /\ todo' = [todo EXCEPT ![c] = {"sum", "len"}]
        /\ first' = [first EXCEPT ![c] = Cardinality(known)]
        /\ UNCHANGED <<clock, minerVars, summed, empty, count>>
    BY <1>4 DEF Begin
  <2>2. Cardinality(known) \in Nat
    BY FS_CardinalityType DEF StatsInv, SizeInv
  <2>3. /\ todo'[c] = {"sum", "len"} /\ first'[c] = Cardinality(known)
        /\ \A d \in Dashboards \ {c} : todo'[d] = todo[d] /\ first'[d] = first[d]
    BY <2>1 DEF StatsInv, StatsOK
  <2>4. StatsOK'
    BY <2>1, <2>2 DEF StatsInv, StatsOK, minerVars
  <2>5. ReportInv' /\ SumInv'
    BY <2>1, <2>3 DEF StatsInv, ReportInv, SumInv, minerVars
  <2>6. SizeInv'
    BY <2>1, <2>2, <2>3 DEF StatsInv, SizeInv, minerVars
  <2> QED BY <2>4, <2>5, <2>6 DEF StatsInv
<1>5. ASSUME NEW c \in Dashboards, GetGlobalHashrate(c) PROVE StatsInv'
  <2>1. /\ "sum" \in todo[c] /\ todo' = [todo EXCEPT ![c] = todo[c] \ {"sum"}]
        /\ summed' = [summed EXCEPT ![c] = clock]
        /\ \E overflow \in Overflows : empty' = [empty EXCEPT ![c] = overflow]
        /\ UNCHANGED <<clock, minerVars, count, first>>
    BY <1>5 DEF GetGlobalHashrate
  <2>2. /\ todo[c] # {"begin"} /\ ("len" \in todo'[c] <=> "len" \in todo[c])
        /\ summed'[c] = clock /\ \A d \in Dashboards \ {c} : todo'[d] = todo[d] /\ summed'[d] = summed[d]
    BY <2>1 DEF StatsInv, StatsOK
  <2>3. /\ empty' \in [Dashboards -> BOOLEAN]
        /\ (empty'[c] => \E m \in ActiveMiners : rate[m] # "plain")
        /\ \A d \in Dashboards \ {c} : empty'[d] = empty[d]
    <3>1. PICK overflow \in Overflows : empty' = [empty EXCEPT ![c] = overflow]
      BY <2>1
    <3>2. overflow \in BOOLEAN /\ (overflow => \E m \in ActiveMiners : rate[m] # "plain")
      BY DEF Overflows
    <3> QED BY <3>1, <3>2 DEF StatsInv, StatsOK
  <2>4. StatsOK'
    BY <2>1, <2>3 DEF StatsInv, StatsOK, minerVars
  <2>5. \A m \in ActiveMiners : rate[m] # "plain" => m \in Miners /\ odd[m] > 0 /\ clock < odd[m] + Window
    BY DEF ActiveMiners, StatsInv, StatsOK, ReportInv
  <2>6. ReportInv' /\ SumInv'
    BY <2>1, <2>2, <2>3, <2>5 DEF StatsInv, ReportInv, SumInv, minerVars
  <2>7. SizeInv'
    BY <2>1, <2>2 DEF StatsInv, SizeInv, minerVars
  <2> QED BY <2>4, <2>6, <2>7 DEF StatsInv
<1>6. ASSUME NEW c \in Dashboards, CountMiners(c) PROVE StatsInv'
  <2>1. /\ "len" \in todo[c] /\ todo' = [todo EXCEPT ![c] = todo[c] \ {"len"}]
        /\ count' = [count EXCEPT ![c] = Cardinality(known)]
        /\ UNCHANGED <<clock, minerVars, summed, empty, first>>
    BY <1>6 DEF CountMiners
  <2>2. Cardinality(known) \in Nat
    BY FS_CardinalityType DEF StatsInv, SizeInv
  <2>3. /\ todo[c] # {"begin"} /\ ("sum" \in todo'[c] <=> "sum" \in todo[c])
        /\ count'[c] = Cardinality(known)
        /\ \A d \in Dashboards \ {c} : todo'[d] = todo[d] /\ count'[d] = count[d]
    BY <2>1 DEF StatsInv, StatsOK
  <2>4. StatsOK'
    BY <2>1, <2>2 DEF StatsInv, StatsOK, minerVars
  <2>5. ReportInv' /\ SumInv'
    BY <2>1, <2>3 DEF StatsInv, ReportInv, SumInv, minerVars
  <2>6. SizeInv'
    BY <2>1, <2>2, <2>3 DEF StatsInv, SizeInv, minerVars
  <2> QED BY <2>4, <2>5, <2>6 DEF StatsInv
<1>7. CASE UNCHANGED statsVars
  BY <1>7 DEF statsVars, minerVars, callVars, StatsInv, StatsOK, ReportInv, SumInv, SizeInv
<1> QED
  BY <1>1, <1>2, <1>3, <1>4, <1>5, <1>6, <1>7 DEF StatsNext

\* For any number of miners and dashboards: an empty dashboard goes back to a report
\* of next to no duration in the window before its sum, and a count that is read past the
\* lock is one that the map had while the dashboard was made.
THEOREM Backed == StatsSpec => []DashboardBacked
<1>1. StatsInv => DashboardBacked
  BY DEF StatsInv, DashboardBacked, SumInv, SizeInv
<1> QED
  BY <1>1, StatsBegin, StatsStep, PTL DEF StatsSpec
=============================================================================
