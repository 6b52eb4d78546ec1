------------------------------ MODULE ArchiveStore ------------------------------
(***************************************************************************)
(* The archive of original bytes: ArchiveService over                      *)
(* PostgresIndexedArchiveStorage, as the ingest and the republishing of    *)
(* archived bytes use it.  The bytes of a hash are one file, created       *)
(* exclusively (flag "wx") and written in more than one system call; the   *)
(* records that index the files are rows of archive_records.  The two are  *)
(* not written together, and a process may fail between any two steps.     *)
(*                                                                         *)
(* Hashes are of non-empty bytes: the store refuses an empty payload.      *)
(***************************************************************************)
EXTENDS Naturals, FiniteSets

CONSTANTS
    Hashes,         \* SHA-256 of the bytes to archive
    Workers,        \* processes that share the database and the directory
    MaxFailures     \* bound on the failures of a behaviour

ASSUME ArchiveAssumption == Hashes # {} /\ MaxFailures \in Nat

VARIABLES
    index,      \* archive_records: the hashes that have a record
    file,       \* what is at the storage key of each hash
    work,       \* what each process is doing
    failures    \* how many runs have failed: bounds the model only

vars == <<index, file, work, failures>>

\* A file between its creation and its last write is Partial.
Absent  == "absent"
Partial == "partial"
Whole   == "whole"
Content == {Absent, Partial, Whole}

\* The steps still to come; "parse" is the first use of bytes read back.
Republishing == {"lookup", "fetch"}
Storing == {"find", "findAgain", "open", "write", "create", "read"}
Stages  == {"idle", "parse"} \cup Republishing \cup Storing

(***************************************************************************)
(*   republish: the run is republishFromArchive, not ingestOne             *)
(*   known:     the record it looked up was there                          *)
(*   bytes:     what it last read back                                     *)
(***************************************************************************)
Job == [stage: Stages, hash: Hashes, republish: BOOLEAN, known: BOOLEAN,
        bytes: Content]

TypeOK ==
    /\ index \subseteq Hashes
    /\ file \in [Hashes -> Content]
    /\ work \in [Workers -> Job]
    /\ failures \in 0..MaxFailures

NewJob(stage, h, republish) ==
    [stage |-> stage, hash |-> h, republish |-> republish, known |-> FALSE,
     bytes |-> Absent]

Idle == NewJob("idle", CHOOSE h \in Hashes : TRUE, FALSE)

Init ==
    /\ index = {}
    /\ file = [h \in Hashes |-> Absent]
    /\ work = [w \in Workers |-> Idle]
    /\ failures = 0

-----------------------------------------------------------------------------
At(w, stage) == work[w].stage = stage

Goto(w, stage) == work' = [work EXCEPT ![w].stage = stage]

Finish(w) == work' = [work EXCEPT ![w] = Idle]

\* ingestOne has downloaded bytes and stores them.
Ingest(w, h) ==
    /\ At(w, "idle")
    /\ work' = [work EXCEPT ![w] = NewJob("find", h, FALSE)]
    /\ UNCHANGED <<index, file, failures>>

\* republishFromArchive is asked for a hash.
Republish(w, h) ==
    /\ At(w, "idle")
    /\ work' = [work EXCEPT ![w] = NewJob("lookup", h, TRUE)]
    /\ UNCHANGED <<index, file, failures>>

-----------------------------------------------------------------------------
(* republishFromArchive.                                                   *)

Lookup(w) ==
    /\ At(w, "lookup")
    /\ work' = [work EXCEPT ![w].stage = "fetch",
                            ![w].known = work[w].hash \in index]
    /\ UNCHANGED <<index, file, failures>>

(***************************************************************************)
(* The bytes are checked against the hash.  Bytes without a record are     *)
(* stored again, if the command line describes them.                       *)
(***************************************************************************)
FetchBytes(w) ==
    LET found == file[work[w].hash] IN
    /\ At(w, "fetch")
    /\ \/ /\ found = Whole /\ work[w].known
          /\ work' = [work EXCEPT ![w].stage = "parse", ![w].bytes = found]
       \/ /\ found = Whole /\ ~work[w].known
          /\ Goto(w, "find")
       \/ /\ found # Whole \/ ~work[w].known
          /\ Finish(w)
    /\ UNCHANGED <<index, file, failures>>

-----------------------------------------------------------------------------
(* ArchiveService.store and PostgresIndexedArchiveStorage.putIfAbsent.     *)

\* An indexed hash is taken to be stored.
FindByHash(w, next) ==
    /\ IF work[w].hash \in index THEN Goto(w, "read") ELSE Goto(w, next)
    /\ UNCHANGED <<index, file, failures>>

Find(w) == At(w, "find") /\ FindByHash(w, "findAgain")

\* Creates the record first and leaves the bytes to a later run.
FindAgain_RecordFirst(w) == At(w, "findAgain") /\ FindByHash(w, "create")

FindAgain(w) == At(w, "findAgain") /\ FindByHash(w, "open")

\* Opens with flag "w", which truncates a file that is there.
Open_Truncates(w) ==
    /\ At(w, "open")
    /\ file' = [file EXCEPT ![work[w].hash] = Partial]
    /\ Goto(w, "write")
    /\ UNCHANGED <<index, failures>>

\* writeIfAbsent: a file that exists is taken for the same bytes.
Open(w) ==
    LET h == work[w].hash IN
    /\ At(w, "open")
    /\ \/ /\ file[h] = Absent
          /\ file' = [file EXCEPT ![h] = Partial]
          /\ Goto(w, "write")
       \/ /\ file[h] # Absent
          /\ Goto(w, "create")
          /\ UNCHANGED file
    /\ UNCHANGED <<index, failures>>

\* A write that stores a part of the bytes and does not look at how many.
Write_Short(w) ==
    /\ At(w, "write")
    /\ Goto(w, "create")
    /\ UNCHANGED <<index, file, failures>>

Write(w) ==
    /\ At(w, "write")
    /\ file' = [file EXCEPT ![work[w].hash] = Whole]
    /\ Goto(w, "create")
    /\ UNCHANGED <<index, failures>>

\* archives.create; on the unique sha256 the record of the winner is returned.
CreateRecord(w) ==
    /\ At(w, "create")
    /\ index' = index \cup {work[w].hash}
    /\ Goto(w, "read")
    /\ UNCHANGED <<file, failures>>

\* Parses what it reads back, whatever it is.
ReadBack_Unchecked(w) ==
    LET found == file[work[w].hash] IN
    /\ At(w, "read")
    /\ work' = [work EXCEPT ![w].stage = "parse", ![w].bytes = found]
    /\ UNCHANGED <<index, file, failures>>

(***************************************************************************)
(* Both callers read the stored bytes back.  The ingest compares their     *)
(* hash; the republishing, which compared it before, only refuses a        *)
(* missing file.                                                           *)
(***************************************************************************)
ReadBack(w) ==
    LET found == file[work[w].hash] IN
    /\ At(w, "read")
    /\ IF found = Whole \/ (work[w].republish /\ found # Absent)
       THEN work' = [work EXCEPT ![w].stage = "parse", ![w].bytes = found]
       ELSE Finish(w)
    /\ UNCHANGED <<index, file, failures>>

\* Parses what it read; what follows is Publication.
Parse(w) ==
    /\ At(w, "parse")
    /\ Finish(w)
    /\ UNCHANGED <<index, file, failures>>

(***************************************************************************)
(* A step fails (a full disk, a lost connection) or the process ends.      *)
(* Nothing is cleaned up: a file it was writing stays as it is.            *)
(***************************************************************************)
Fail(w) ==
    /\ ~At(w, "idle")
    /\ failures < MaxFailures
    /\ failures' = failures + 1
    /\ Finish(w)
    /\ UNCHANGED <<index, file>>

Store(w) == Find(w) \/ FindAgain(w) \/ Open(w) \/ Write(w) \/ CreateRecord(w)

Proceed(w) == Lookup(w) \/ FetchBytes(w) \/ Store(w) \/ ReadBack(w) \/ Parse(w)

Next ==
    \E w \in Workers :
        \/ \E h \in Hashes : Ingest(w, h) \/ Republish(w, h)
        \/ Proceed(w)
        \/ Fail(w)

Spec == Init /\ [][Next]_vars

\* A run that has not failed goes on; no run has to begin.
FairSpec == Spec /\ \A w \in Workers : WF_vars(Proceed(w))

-----------------------------------------------------------------------------
(***************************************************************************)
(* Bytes a run goes on to parse are the whole bytes of its hash, they are  *)
(* indexed, and they stay both, whatever other processes store and         *)
(* wherever they fail: so a version never cites an archive that does not   *)
(* hold its source (ingest 383-386; the second read of republishFromArchive*)
(* is not checked and relies on files never changing once whole).          *)
(***************************************************************************)
ParsedBytesAreArchived ==
    \A w \in Workers : At(w, "parse") =>
        /\ work[w].bytes = Whole
        /\ file[work[w].hash] = Whole
        /\ work[w].hash \in index

(***************************************************************************)
(* A record never points at nothing: bytes are written before the record   *)
(* that says they are there (postgres-indexed.storage.ts:32-46).           *)
(***************************************************************************)
RecordHasFile == \A h \in index : file[h] # Absent

(***************************************************************************)
(* An indexed file that nobody is writing is whole.  The storage promises  *)
(* that its bytes survive a restart (postgres-indexed.storage.ts:13).      *)
(***************************************************************************)
BeingWritten(h) == \E w \in Workers : At(w, "write") /\ work[w].hash = h

IndexedBytesSurvive == \A h \in index : file[h] = Whole \/ BeingWritten(h)

(***************************************************************************)
(* Whole bytes stay whole, and records are never removed: whatever is      *)
(* stored later, under the same hash or another (the "wx" flag).           *)
(***************************************************************************)
WholeForEver ==
    [][/\ \A h \in Hashes : file[h] = Whole => file'[h] = Whole
       /\ index \subseteq index']_vars

(***************************************************************************)
(* As long as nothing fails, bytes handed to the store end up whole and    *)
(* indexed, whoever of several processes gets to write them.               *)
(***************************************************************************)
BytesGetArchived ==
    \A h \in Hashes :
        (\E w \in Workers : At(w, "find") /\ work[w].hash = h)
            ~> (h \in index /\ file[h] = Whole) \/ failures > 0
=============================================================================
