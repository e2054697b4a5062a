--------------------------- MODULE PipelineCache ---------------------------
(***************************************************************************)
(* evan::PipelineCache and the file it keeps between two runs.             *)
(*                                                                         *)
(* A process reads the file when it starts and replaces it when it stops:  *)
(* it writes a temporary file piece by piece and renames it.  A process    *)
(* may be killed between any two calls.  What a file holds is a function   *)
(* from its pieces to the device that produced them; the first piece is    *)
(* the header that isBlobCompatible compares.  An open stream follows its  *)
(* file when the file is renamed or removed ("at").                        *)
(***************************************************************************)
EXTENDS Naturals, FiniteSets

CONSTANTS Procs,    \* processes that use the same cache directory
          Devices,  \* physical devices, each with one driver version
          NoDevice, \* a piece that was not written, a blob nobody made
          Full      \* pieces of a blob

ASSUME CacheAssumption == NoDevice \notin Devices /\ Full \in Nat /\ Full >= 2

VARIABLES file,  \* what the path names: NoFile or a function from pieces
          tmp,   \* what the path with ".tmp" names
          proc,  \* the state of each process
          lost   \* closing a stream dropped data without an error

cacheVars == <<file, tmp, proc, lost>>

Pieces == 1 .. Full
NoFile == [i \in {} |-> NoDevice]
Contents == [Pieces -> Devices \cup {NoDevice}]
Empty == [i \in Pieces |-> NoDevice]
Whole(c) == \E d \in Devices : c = [i \in Pieces |-> d]

\* kHeaderSize bytes are there and name this device and driver.
isBlobCompatible(c, d) == c # NoFile /\ c[1] = d

Off == [pc |-> "off", device |-> NoDevice, given |-> NoFile, handle |-> FALSE,
        persistent |-> FALSE, next |-> 1, at |-> "gone"]

Pcs == {"off", "running", "open", "write", "close", "rename", "removeOld",
        "renameAgain", "removeTmp", "persisted", "done"}

CacheTypeOK ==
  /\ file \in Contents \cup {NoFile} /\ tmp \in Contents \cup {NoFile}
  /\ lost \in BOOLEAN
  /\ proc \in [Procs -> [pc : Pcs, device : Devices \cup {NoDevice},
                         given : Contents \cup {NoFile}, handle : BOOLEAN,
                         persistent : BOOLEAN, next : 1 .. Full + 1,
                         at : {"tmp", "file", "gone"}]]

CacheInit ==
  file = NoFile /\ tmp = NoFile /\ lost = FALSE /\ proc = [p \in Procs |-> Off]

At(p, pc) == proc[p].pc = pc
Goto(p, pc) == proc' = [proc EXCEPT ![p].pc = pc]

---------------------------------------------------------------------------
(* Starting: getPipelineCachePath, then init. *)

\* Persistence may be disabled by the environment or for want of a directory.
getPipelineCachePath == BOOLEAN

\* The blob handed to the driver: read whole, and only when it is compatible.
Reusable(d, persistent) == persistent /\ isBlobCompatible(file, d)

\* The driver may refuse the blob (an empty cache is then tried) or the cache.
StartOn(p, d, persistent, accepted, created) ==
  /\ At(p, "off")
  /\ accepted => Reusable(d, persistent) /\ created
  /\ proc' = [proc EXCEPT ![p] =
       [pc |-> "running", device |-> d, given |-> IF accepted THEN file ELSE NoFile,
        handle |-> created, persistent |-> persistent, next |-> 1, at |-> "gone"]]
  /\ UNCHANGED <<file, tmp, lost>>

Start(p) ==
  \E d \in Devices, persistent \in getPipelineCachePath, accepted, created \in BOOLEAN :
    StartOn(p, d, persistent, accepted, created)

---------------------------------------------------------------------------
(* Stopping: persist, and writeBlob one call at a time. *)

\* Nothing to write: no cache, no path, no data, or data that cannot be read.
persist(p) ==
  /\ At(p, "running")
  /\ \/ proc[p].handle /\ proc[p].persistent /\ Goto(p, "open")
     \/ Goto(p, "done")
  /\ UNCHANGED <<file, tmp, lost>>

\* Plausible bug: the blob is written straight to the path.
OpenTemporaryInPlace(p) ==
  /\ At(p, "open")
  /\ \/ /\ file' = Empty
        /\ proc' = [proc EXCEPT ![p] = [@ EXCEPT !.pc = "write", !.next = 1, !.at = "file"]]
     \/ Goto(p, "done") /\ UNCHANGED file
  /\ UNCHANGED <<tmp, lost>>

\* The stream truncates what is there; it may not open.
OpenTemporary(p) ==
  /\ At(p, "open")
  /\ \/ /\ tmp' = Empty
        /\ proc' = [proc EXCEPT ![p] = [@ EXCEPT !.pc = "write", !.next = 1, !.at = "tmp"]]
     \/ Goto(p, "done") /\ UNCHANGED tmp
  /\ UNCHANGED <<file, lost>>

\* A piece goes to the file the stream has open, wherever that is by now.
Put(p, i, d) ==
  /\ file' = IF proc[p].at = "file" THEN [file EXCEPT ![i] = d] ELSE file
  /\ tmp' = IF proc[p].at = "tmp" THEN [tmp EXCEPT ![i] = d] ELSE tmp

WritePiece(p) ==
  /\ At(p, "write")
  /\ \/ /\ Put(p, proc[p].next, proc[p].device)
        /\ proc' = [proc EXCEPT ![p] =
             [@ EXCEPT !.next = proc[p].next + 1,
                       !.pc = IF proc[p].next = Full THEN "close" ELSE "write"]]
     \/ Goto(p, "removeTmp") /\ UNCHANGED <<file, tmp>>
  /\ UNCHANGED lost

\* The destructor of the stream flushes; nobody looks at how that ended.
CloseTemporary(p) ==
  /\ At(p, "close")
  /\ \/ UNCHANGED <<file, tmp, lost>>
     \/ Put(p, Full, NoDevice) /\ lost' = TRUE
  /\ Goto(p, "rename")

\* The stream that has a name's file open keeps it when the name moves.
Moved(from, to) ==
  [q \in Procs |-> IF proc[q].at = from THEN to
                   ELSE IF to = "file" /\ proc[q].at = "file" THEN "gone" ELSE proc[q].at]
Following(p, pc, where) ==
  [q \in Procs |-> [proc[q] EXCEPT !.at = where[q], !.pc = IF q = p THEN pc ELSE @]]

\* A rename over an existing file is refused on some platforms.
Rename(p, refused) ==
  \/ /\ tmp # NoFile
     /\ file' = tmp /\ tmp' = NoFile
     /\ proc' = Following(p, "persisted", Moved("tmp", "file"))
  \/ Goto(p, refused) /\ UNCHANGED <<file, tmp>>

RenameOver(p) == At(p, "rename") /\ Rename(p, "removeOld") /\ UNCHANGED lost

RemoveOld(p) ==
  /\ At(p, "removeOld")
  /\ file' = NoFile
  /\ proc' = Following(p, "renameAgain", Moved("file", "gone"))
  /\ UNCHANGED <<tmp, lost>>

RenameAgain(p) == At(p, "renameAgain") /\ Rename(p, "removeTmp") /\ UNCHANGED lost

RemoveTemporary(p) ==
  /\ At(p, "removeTmp")
  /\ tmp' = NoFile
  /\ proc' = Following(p, "done", Moved("tmp", "gone"))
  /\ UNCHANGED <<file, lost>>

writeBlob(p) ==
  \/ OpenTemporary(p) \/ WritePiece(p) \/ CloseTemporary(p) \/ RenameOver(p)
  \/ RemoveOld(p) \/ RenameAgain(p) \/ RemoveTemporary(p)

\* The process ends, or it is killed wherever it is: the files stay.
Stop(p) ==
  ~At(p, "off") /\ proc' = [proc EXCEPT ![p] = Off] /\ UNCHANGED <<file, tmp, lost>>

CacheNext == \E p \in Procs : Start(p) \/ persist(p) \/ writeBlob(p) \/ Stop(p)
CacheSpec == CacheInit /\ [][CacheNext]_cacheVars

---------------------------------------------------------------------------
(* Correctness *)

\* "A process killed during shutdown can never leave a truncated file behind"
\* (PipelineCache.hpp:43): at every moment the file is absent or complete and
\* of one device, unless data was lost by a close whose failure went unseen.
CacheWhole == file = NoFile \/ Whole(file) \/ lost

\* What the driver was given is a complete blob of the very device it runs on,
\* whatever the processes before this one did and wherever they were killed.
GivenFits ==
  \A p \in Procs : proc[p].given # NoFile =>
    lost \/ proc[p].given = [i \in Pieces |-> proc[p].device]
=============================================================================
