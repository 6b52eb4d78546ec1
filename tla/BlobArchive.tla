------------------------------ MODULE BlobArchive ------------------------------
(***************************************************************************)
(* The archive of the crawler: RawArchive over LocalBlobStore and          *)
(* PrismaArchiveCatalog.  A call stores the bytes of one format of one     *)
(* document: the file first, written exclusively (flag "wx") and synced,   *)
(* then the row of the catalogue, then the document's reference to it.     *)
(* Processes share directory and database.  Unlike ArchiveStore, a file    *)
(* that exists is compared with the bytes, and a failed write is undone.   *)
(***************************************************************************)
EXTENDS Naturals, FiniteSets

CONSTANTS
    Processes,
    Documents,      \* rows of the crawler's table of documents
    Hashes,         \* SHA-256 of the bytes of pages and PDFs
    Faults,         \* what may go wrong
    MaxFaults,      \* bound on the faults of a behaviour
    None            \* null: no object

Kinds == {"html", "pdf"}

\* A write or its fsync fails, a query or a read fails, the process ends.
Fault == {"write", "sync", "query", "stop"}

ASSUME BlobAssumption ==
    /\ Faults \subseteq Fault
    /\ MaxFaults \in Nat
    /\ None \notin Hashes
    /\ Documents # {} /\ Hashes # {}

VARIABLES
    file,       \* what is at the storage key of each hash
    catalog,    \* raw_objects: the hashes that have a row
    slot,       \* for each document and format, the object it refers to
    put,        \* the call of each process
    faults      \* how many faults there were: bounds the model only

blobVars == <<file, catalog, slot, put, faults>>

Content == {"absent", "partial", "whole"}
Steps   == {"open", "write", "sync", "stat", "reread", "find", "create", "attach"}
Call    == [step: Steps \cup {"none", "stored", "failed"},
            doc: Documents, kind: Kinds, hash: Hashes]

BlobTypeOK ==
    /\ file \in [Hashes -> Content]
    /\ catalog \subseteq Hashes
    /\ slot \in [Documents \X Kinds -> Hashes \cup {None}]
    /\ put \in [Processes -> Call]
    /\ faults \in 0..MaxFaults

NoCall == [step |-> "none", doc |-> CHOOSE d \in Documents : TRUE,
           kind |-> "html", hash |-> CHOOSE h \in Hashes : TRUE]

BlobInit ==
    /\ file = [h \in Hashes |-> "absent"]
    /\ catalog = {}
    /\ slot = [s \in Documents \X Kinds |-> None]
    /\ put = [p \in Processes |-> NoCall]
    /\ faults = 0

-----------------------------------------------------------------------------
On(p, step) == put[p].step = step

Proceed(p, step) == put' = [put EXCEPT ![p].step = step]

\* RawArchive.archive is called.
Archive(p, d, k, h) ==
    /\ On(p, "none")
    /\ put' = [put EXCEPT ![p] = [step |-> "open", doc |-> d, kind |-> k, hash |-> h]]
    /\ UNCHANGED <<file, catalog, slot, faults>>

\* The caller goes on, or gets the exception.
Return(p) ==
    /\ On(p, "stored") \/ On(p, "failed")
    /\ put' = [put EXCEPT ![p] = NoCall]
    /\ UNCHANGED <<file, catalog, slot, faults>>

-----------------------------------------------------------------------------
(* LocalBlobStore.put.                                                     *)

\* Takes a file that exists for the bytes, as ArchiveStore does.
Open_Trusting(p) ==
    LET h == put[p].hash IN
    /\ On(p, "open")
    /\ file' = [file EXCEPT ![h] = IF @ = "absent" THEN "partial" ELSE @]
    /\ Proceed(p, IF file[h] = "absent" THEN "write" ELSE "find")
    /\ UNCHANGED <<catalog, slot, faults>>

\* Opens with flag "w".
Open_Truncates(p) ==
    /\ On(p, "open")
    /\ file' = [file EXCEPT ![put[p].hash] = "partial"]
    /\ Proceed(p, "write")
    /\ UNCHANGED <<catalog, slot, faults>>

Open(p) ==
    LET h == put[p].hash IN
    /\ On(p, "open")
    /\ \/ /\ file[h] = "absent"
          /\ file' = [file EXCEPT ![h] = "partial"]
          /\ Proceed(p, "write")
       \/ /\ file[h] # "absent"
          /\ Proceed(p, "stat")
          /\ UNCHANGED file
    /\ UNCHANGED <<catalog, slot, faults>>

Write(p) ==
    /\ On(p, "write")
    /\ file' = [file EXCEPT ![put[p].hash] = "whole"]
    /\ Proceed(p, "sync")
    /\ UNCHANGED <<catalog, slot, faults>>

Sync(p) ==
    /\ On(p, "sync")
    /\ Proceed(p, "find")
    /\ UNCHANGED <<file, catalog, slot, faults>>

\* assertExistingMatches: the size first, then the bytes.  A file another
\* process is still writing is too short and fails the call.
Stat(p) ==
    /\ On(p, "stat")
    /\ Proceed(p, IF file[put[p].hash] = "whole" THEN "reread" ELSE "failed")
    /\ UNCHANGED <<file, catalog, slot, faults>>

Reread(p) ==
    /\ On(p, "reread")
    /\ Proceed(p, IF file[put[p].hash] = "whole" THEN "find" ELSE "failed")
    /\ UNCHANGED <<file, catalog, slot, faults>>

\* writeExclusive: on an error the file is closed and unlinked; that the
\* unlink may fail too is ignored by the code.
UndoWrite(p) ==
    /\ \/ On(p, "write") /\ "write" \in Faults
       \/ On(p, "sync") /\ "sync" \in Faults
    /\ file' \in {file, [file EXCEPT ![put[p].hash] = "absent"]}
    /\ Proceed(p, "failed")
    /\ UNCHANGED <<catalog, slot>>

-----------------------------------------------------------------------------
(* RawArchive.ensureCatalog and PrismaArchiveCatalog.                      *)

FindByChecksum(p) ==
    /\ On(p, "find")
    /\ Proceed(p, IF put[p].hash \in catalog THEN "attach" ELSE "create")
    /\ UNCHANGED <<file, catalog, slot, faults>>

\* create: on the unique checksum the row of the winner is returned.
CreateObject(p) ==
    /\ On(p, "create")
    /\ catalog' = catalog \cup {put[p].hash}
    /\ Proceed(p, "attach")
    /\ UNCHANGED <<file, slot, faults>>

\* attachToDocument: one transaction.
Attach(p) ==
    /\ On(p, "attach")
    /\ slot' = [slot EXCEPT ![<<put[p].doc, put[p].kind>>] = put[p].hash]
    /\ Proceed(p, "stored")
    /\ UNCHANGED <<file, catalog, faults>>

-----------------------------------------------------------------------------
MayFault(kind) == kind \in Faults /\ faults < MaxFaults

Count == faults' = faults + 1

\* A read or a query fails: nothing was changed, the call throws.
FailQuery(p) ==
    /\ MayFault("query")
    /\ put[p].step \in {"open", "stat", "reread", "find", "create", "attach"}
    /\ Count
    /\ Proceed(p, "failed")
    /\ UNCHANGED <<file, catalog, slot>>

FailWrite(p) == faults < MaxFaults /\ UndoWrite(p) /\ Count

\* What a call does between its begin, the attach, and its return.
Storing(p) == Open(p) \/ Write(p) \/ Sync(p) \/ Stat(p) \/ Reread(p)
              \/ FindByChecksum(p) \/ CreateObject(p)

Failing(p) == FailWrite(p) \/ FailQuery(p)

-----------------------------------------------------------------------------
(***************************************************************************)
(* Every row of the catalogue, and with it every reference of a document,  *)
(* is to bytes that are there and whole, whatever other processes write,   *)
(* undo or leave half-written, as long as no fsync fails.  The store is    *)
(* tested to give back bytes whose put has returned, new or reused         *)
(* (local-blob-store.test.ts:29-37).                                       *)
(***************************************************************************)
CatalogIsWhole ==
    /\ \A h \in catalog : file[h] = "whole"
    /\ \A s \in Documents \X Kinds : slot[s] \in catalog \cup {None}

(***************************************************************************)
(* A file is never changed or taken away once it is whole: whoever fails   *)
(* to write it only ever undoes his own writing (writeExclusive).          *)
(***************************************************************************)
Immutable ==
    [][\A h \in Hashes : file[h] = "whole" => file'[h] = "whole"]_blobVars
=============================================================================
