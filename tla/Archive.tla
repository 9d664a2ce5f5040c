------------------------------ MODULE Archive ------------------------------
(***************************************************************************)
(* The archive of the database (pkg/snapshot): the crawler writes it every *)
(* 1000 blocks (MonitorArchive, pkg/state/sync.go), a download that finds  *)
(* none writes it as well, and every download serves the file as it is.    *)
(*                                                                         *)
(* The database is a directory that goes on working: a version stands for  *)
(* its set of tables and the manifest that names them, which a compaction  *)
(* replaces.  CreateSnapshot lists the directory once and copies file      *)
(* after file, tables first; the archive lies in the same directory, after *)
(* all others, and so contains itself.                                     *)
(***************************************************************************)
EXTENDS Naturals, Sequences

CONSTANTS
    Calls,          \* the downloads
    Crawler,        \* the goroutine of the crawler
    MaxVersion,     \* bound: compactions
    MaxArchives,    \* bound: archives of the crawler
    MaxCrashes      \* bound: crashes

ASSUME ArchiveAssumption ==
    /\ Crawler \notin Calls
    /\ MaxVersion \in Nat /\ MaxArchives \in Nat /\ MaxCrashes \in Nat

VARIABLES
    exists,     \* there is an archive
    content,    \* what it has at its three positions
    db,         \* the version of the database
    pc,         \* per goroutine: its next step
    listed,     \* the version it has listed
    at,         \* the position it writes next
    size,       \* per download: how much the file had when it was opened
    read,       \* what it has read of it
    spoilt,     \* history: the last archive was not written undisturbed
    excused,    \* history: downloads that met a writer, or a spoilt archive
    archives, crashes   \* history: so far

fileVars  == <<exists, content>>
writeVars == <<listed, at>>
readVars  == <<size, read>>
pastVars  == <<archives, crashes>>
vars == <<fileVars, db, pc, writeVars, readVars, spoilt, excused, pastVars>>

Procs == Calls \cup {Crawler}
Parts == {"tables", "manifest", "end", "cut"}
Chunk == Parts \X Procs \X (0 .. MaxVersion)
Gap   == <<"gap">>
Blank == [k \in 1 .. 3 |-> Gap]

Init ==
    /\ exists = FALSE /\ content = Blank
    /\ db = 0
    /\ pc = [p \in Procs |-> "idle"]
    /\ listed = [p \in Procs |-> 0] /\ at = [p \in Procs |-> 1]
    /\ size = [c \in Calls |-> 0] /\ read = [c \in Calls |-> <<>>]
    /\ spoilt = FALSE /\ excused = {}
    /\ archives = 0 /\ crashes = 0

Step(p, from, to) == pc[p] = from /\ pc' = [pc EXCEPT ![p] = to]

Writing(p) == pc[p] \in Parts

\* Where a goroutine goes on after CreateSnapshot, whose error is ignored.
Then(p) == IF p = Crawler THEN "idle" ELSE "open"

-----------------------------------------------------------------------------
(* CreateSnapshot *)

\* A file that exists is truncated, also one that others write or read.
Create(p) ==
    /\ Step(p, "create", "tables")
    /\ exists' = TRUE /\ content' = Blank
    /\ listed' = [listed EXCEPT ![p] = db] /\ at' = [at EXCEPT ![p] = 1]
    /\ spoilt' = \E q \in Procs : Writing(q)
    /\ excused' = excused \cup {c \in Calls : pc[c] = "read"}
    /\ UNCHANGED <<db, readVars, pastVars>>

CreateFails(p) ==
    /\ Step(p, "create", Then(p))
    /\ UNCHANGED <<fileVars, db, writeVars, readVars, spoilt, excused, pastVars>>

\* The next part goes where this writer is, whatever others have put there.
Put(p, part, version) ==
    /\ content' = [content EXCEPT ![at[p]] = <<part, p, version>>]
    /\ at' = [at EXCEPT ![p] = @ + 1]
    /\ UNCHANGED <<exists, db, listed, readVars, spoilt, excused, pastVars>>

CopyTables(p)   == Step(p, "tables", "manifest") /\ Put(p, "tables", listed[p])
CopyManifest(p) == Step(p, "manifest", "end") /\ Put(p, "manifest", db)

\* A listed file is gone, or has grown beyond the size in its header.  If it has
\* gone after its header the tar trailer cannot be written.
CopyFails(p) ==
    /\ \E trailer \in {"end", "cut"} : Step(p, "tables", trailer) \/ Step(p, "manifest", trailer)
    /\ spoilt' = TRUE
    /\ UNCHANGED <<fileVars, db, writeVars, readVars, excused, pastVars>>

\* Faulty variant: the writers of the trailers are not closed.
NoClose(p) ==
    /\ Step(p, "end", Then(p)) \/ Step(p, "cut", Then(p))
    /\ UNCHANGED <<fileVars, db, writeVars, readVars, spoilt, excused, pastVars>>

\* The deferred calls write the trailers, also after a failure.
Close(p) ==
    \E trailer \in {"end", "cut"} : Step(p, trailer, Then(p)) /\ Put(p, trailer, listed[p])

-----------------------------------------------------------------------------
(* HandleDownloadSnapshot *)

Stat(c) ==
    /\ Step(c, "idle", IF exists THEN "open" ELSE "create")
    /\ UNCHANGED <<fileVars, db, writeVars, readVars, spoilt, excused, pastVars>>

\* The size is that of the moment.
Open(c) ==
    /\ exists
    /\ Step(c, "open", "read")
    /\ size' = [size EXCEPT ![c] = IF content = Blank THEN 0 ELSE
                   CHOOSE k \in 1 .. 3 : /\ content[k] # Gap
                                         /\ \A j \in k + 1 .. 3 : content[j] = Gap]
    /\ excused' = IF spoilt \/ \E p \in Procs : Writing(p) THEN excused \cup {c} ELSE excused
    /\ UNCHANGED <<fileVars, db, writeVars, read, spoilt, pastVars>>

NotFound(c) ==
    /\ ~exists
    /\ Step(c, "open", "done")
    /\ UNCHANGED <<fileVars, db, writeVars, readVars, spoilt, excused, pastVars>>

\* Faulty variant: everything is sent, whatever size was announced.
ServeAll(c) ==
    /\ Len(read[c]) < 3 /\ pc[c] = "read"
    /\ read' = [read EXCEPT ![c] = Append(@, content[Len(@) + 1])]
    /\ UNCHANGED <<fileVars, db, pc, writeVars, size, spoilt, excused, pastVars>>

Serve(c) ==
    /\ Len(read[c]) < size[c] /\ pc[c] = "read"
    /\ read' = [read EXCEPT ![c] = Append(@, content[Len(@) + 1])]
    /\ UNCHANGED <<fileVars, db, pc, writeVars, size, spoilt, excused, pastVars>>

Served(c) ==
    /\ Len(read[c]) = size[c]
    /\ Step(c, "read", "served")
    /\ UNCHANGED <<fileVars, db, writeVars, readVars, spoilt, excused, pastVars>>

-----------------------------------------------------------------------------
(* The crawler, the database and the process *)

\* After latest_height is saved; a crash before that is not made up for.
MonitorArchive ==
    /\ archives < MaxArchives
    /\ archives' = archives + 1
    /\ Step(Crawler, "idle", "create")
    /\ UNCHANGED <<fileVars, db, writeVars, readVars, spoilt, excused, crashes>>

Compact ==
    /\ db < MaxVersion
    /\ db' = db + 1
    /\ spoilt' = (spoilt \/ \E p \in Procs : Writing(p))
    /\ UNCHANGED <<fileVars, pc, writeVars, readVars, excused, pastVars>>

Crash ==
    /\ crashes < MaxCrashes
    /\ crashes' = crashes + 1
    /\ pc' = [p \in Procs |-> IF p = Crawler THEN "idle"
                              ELSE IF pc[p] \in {"idle", "served"} THEN pc[p] ELSE "done"]
    /\ spoilt' = (spoilt \/ \E p \in Procs : Writing(p))
    /\ UNCHANGED <<fileVars, db, writeVars, readVars, excused, archives>>

Next ==
    \/ \E p \in Procs :
          Create(p) \/ CreateFails(p) \/ CopyTables(p) \/ CopyManifest(p)
              \/ CopyFails(p) \/ Close(p)
    \/ \E c \in Calls : Stat(c) \/ Open(c) \/ NotFound(c) \/ Serve(c) \/ Served(c)
    \/ MonitorArchive \/ Compact \/ Crash

Spec == Init /\ [][Next]_vars

-----------------------------------------------------------------------------
(* Properties *)

\* The shapes; a download never reads past the size it announced.
TypeOK ==
    /\ exists \in BOOLEAN /\ spoilt \in BOOLEAN
    /\ content \in [1 .. 3 -> Chunk \cup {Gap}]
    /\ exists \/ content = Blank
    /\ db \in 0 .. MaxVersion
    /\ pc \in [Procs -> Parts \cup {"idle", "create", "open", "read", "served", "done"}]
    /\ listed \in [Procs -> 0 .. MaxVersion]
    /\ at \in [Procs -> 1 .. 4]
    /\ \A p \in Procs : Writing(p) => at[p] <= 3
    /\ size \in [Calls -> 0 .. 3]
    /\ read \in [Calls -> Seq(Chunk \cup {Gap})]
    /\ \A c \in Calls : Len(read[c]) <= size[c]
    /\ excused \subseteq Calls
    /\ archives \in 0 .. MaxArchives /\ crashes \in 0 .. MaxCrashes

\* One version of the database, whole, and from one writer.
Sound(archive) ==
    \E p \in Procs, v \in 0 .. MaxVersion :
        archive = << <<"tables", p, v>>, <<"manifest", p, v>>, <<"end", p, v>> >>

\* A download is served a sound archive unless the archive was being written
\* while it read, or the last writer was disturbed: it failed, a crash or a second
\* writer cut into it, or the database changed under it.  One archive written in
\* peace makes up for everything before (engine.go:13-43, handler.go:57-64).
BadDownloadHasCause ==
    \A c \in Calls : pc[c] = "served" /\ c \notin excused => Sound(read[c])
=============================================================================
