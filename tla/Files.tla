----------------------------------- MODULE Files -----------------------------------
(***************************************************************************)
(* Files: rows in PostgreSQL for objects in S3.  FilesService on           *)
(* FilesRepository and S3StorageProvider, and those who hold the id of a   *)
(* file: UsersService.update and StoresService.update, which replace a     *)
(* picture, and ProductsService.addImage, which shows a ready one.         *)
(*                                                                         *)
(* A statement outside a transaction, and a request to the store, is a     *)
(* step.  The UPDATEs of a replacement are one step with their COMMIT:     *)
(* nobody sees them before.  What a statement waits for, a connection of   *)
(* the pool or the lock of a row, only delays its step and is left out: a  *)
(* step may be taken at any time after the one before it, and nothing is   *)
(* claimed of when, or whether, a request ends.                            *)
(***************************************************************************)
EXTENDS Integers

CONSTANTS
    Sessions,      \* requests that can be in progress at a time
    Users, Stores, \* those with a picture or a logo
    InitPicture,   \* the picture each has at first, or None
    None,
    \* Bounds of the model
    MaxFiles,      \* rows of files
    MaxFaults      \* crashes, and requests or statements that fail

Owners == Users \cup Stores
Files == 1..MaxFiles

Statuses == {"pending", "ready", "failed"}

ASSUME BoundsAssumption == MaxFiles \in Nat /\ MaxFaults \in Nat
ASSUME OwnersAssumption ==
    /\ Users \cap Stores = {} /\ InitPicture \in [Owners -> Files \cup {None}]
    /\ \A o, p \in Owners : InitPicture[o] = InitPicture[p] => o = p \/ InitPicture[o] = None
ASSUME NoneAssumption == None \notin Files /\ None \notin Owners /\ None \notin Statuses

VARIABLES
    file,      \* files
    object,    \* the objects that are in the store
    picture,   \* users.profile_picture_id and stores.logo_file_id
    attached,  \* product_images.file_id
    proc,      \* the local state of each request
    uploaded,  \* history: the files whose object was in the store at some time
    undone,    \* history: the files whose object was deleted and whose row was not
    requested, \* history: the files that a client asked to delete
    rewritten, \* history: the owners whose logo an update without a logo has changed back
    faults

vars == <<file, object, picture, attached, proc, uploaded, undone, requested, rewritten, faults>>

FileRows == [status : Statuses, deleted : BOOLEAN]
NoFile == [status |-> None]

Ops == {"idle", "confirm", "delete", "replace", "rename", "attach"}
Steps == {"idle", "exists", "markReady", "markFailed", "remove", "row", "upload", "insert", "begin", "find", "removeOld",
          "save", "write", "image"}
Locals == [op : Ops, at : Steps, owner : Owners \cup {None}, old : Files \cup {None}, new : Files \cup {None}]
Idle == [op |-> "idle", at |-> "idle", owner |-> None, old |-> None, new |-> None]

Init ==
    /\ picture = InitPicture
    /\ object = {f \in Files : \E o \in Owners : picture[o] = f}
    /\ file = [f \in Files |-> IF f \in object THEN [status |-> "ready", deleted |-> FALSE] ELSE NoFile]
    /\ attached = {}
    /\ proc = [s \in Sessions |-> Idle]
    /\ uploaded = object
    /\ undone = {} /\ requested = {} /\ rewritten = {}
    /\ faults = 0

-----------------------------------------------------------------------------
(* Rows and objects *)

Exists(f) == file[f] # NoFile
IsActive(f) == Exists(f) /\ ~file[f].deleted
IsReady(f) == IsActive(f) /\ file[f].status = "ready"
Taken == {f \in Files : Exists(f)} \cup object \cup {proc[s].new : s \in Sessions}
FirstFree(f) == f \notin Taken /\ \A g \in Files \ Taken : f <= g

Become(s, l) == proc' = [proc EXCEPT ![s] = l]
Goto(s, step) == proc' = [proc EXCEPT ![s].at = step]
Finish(s) == proc' = [proc EXCEPT ![s] = Idle]
Start(s, l) == proc[s] = Idle /\ Become(s, l)
Fault == faults < MaxFaults /\ faults' = faults + 1
Upload(f) == object' = object \cup {f} /\ uploaded' = uploaded \cup {f}

-----------------------------------------------------------------------------
(* An upload by the client *)

\* The row of an intent within the limits of its bucket, and the URL to upload to.
CreateUploadIntent == \E f \in Files :
    /\ FirstFree(f)
    /\ file' = [file EXCEPT ![f] = [status |-> "pending", deleted |-> FALSE]]
    /\ UNCHANGED <<object, picture, attached, proc, uploaded, undone, requested, rewritten, faults>>

\* The URL is good for a while, whatever becomes of the row; the client may not use it.
Put(f) ==
    /\ Exists(f) /\ f \notin uploaded
    /\ Upload(f)
    /\ UNCHANGED <<file, picture, attached, proc, undone, requested, rewritten, faults>>

\* confirmUpload: a ready file is confirmed again, and a failed one never.
Confirm(s, f) ==
    /\ IsActive(f) /\ file[f].status = "pending"
    /\ Start(s, [Idle EXCEPT !.op = "confirm", !.at = "exists", !.old = f])
    /\ UNCHANGED <<file, object, picture, attached, uploaded, undone, requested, rewritten, faults>>

\* HEAD: an error of any kind reads as "no such object".
HeadObject(s) ==
    /\ proc[s].at = "exists"
    /\ \/ Goto(s, IF proc[s].old \in object THEN "markReady" ELSE "markFailed") /\ UNCHANGED faults
       \/ Fault /\ Goto(s, "markFailed")
    /\ UNCHANGED <<file, object, picture, attached, uploaded, undone, requested, rewritten>>

\* markStatus is by id: it does not matter what the row has become since it was read.
MissingStatus(s) == IF proc[s].at = "markReady" THEN "ready" ELSE "missing"   \* mutant: not a status of the enum
StatusFor(s) == IF proc[s].at = "markReady" THEN "ready" ELSE "failed"
MarkStatus(s) ==
    /\ proc[s].at \in {"markReady", "markFailed"}
    /\ file' = [file EXCEPT ![proc[s].old].status = StatusFor(s)]
    /\ Finish(s)
    /\ UNCHANGED <<object, picture, attached, uploaded, undone, requested, rewritten, faults>>

-----------------------------------------------------------------------------
(* DELETE /files/:id, for any id *)

Delete(s, f) ==
    /\ IsActive(f)
    /\ Start(s, [Idle EXCEPT !.op = "delete", !.at = "remove", !.old = f])
    /\ requested' = requested \cup {f}
    /\ UNCHANGED <<file, object, picture, attached, uploaded, undone, rewritten, faults>>

\* The object is removed, or else a warning is logged.
DeleteObject(f) ==
    \/ object' = object \ {f} /\ UNCHANGED faults
    \/ Fault /\ UNCHANGED object
Remove(s) ==
    /\ proc[s].at = "remove"
    /\ DeleteObject(proc[s].old)
    /\ Goto(s, "row")
    /\ UNCHANGED <<file, picture, attached, uploaded, undone, requested, rewritten>>

SetDeleted(f) == [file EXCEPT ![f].deleted = TRUE]
SoftDeleteById(s) ==
    /\ proc[s].at = "row"
    /\ file' = SetDeleted(proc[s].old)
    /\ Finish(s)
    /\ UNCHANGED <<object, picture, attached, uploaded, undone, requested, rewritten, faults>>

-----------------------------------------------------------------------------
(* A new picture or logo *)

\* findById or getById; the id of the old picture is that of this moment.
Replace(s, o) == \E f \in Files :
    /\ FirstFree(f)
    /\ Start(s, [op |-> "replace", at |-> "upload", owner |-> o, old |-> picture[o], new |-> f])
    /\ UNCHANGED <<file, object, picture, attached, uploaded, undone, requested, rewritten, faults>>
Rename(s, o) ==
    /\ o \in Stores
    /\ Start(s, [op |-> "rename", at |-> "write", owner |-> o, old |-> picture[o], new |-> None])
    /\ UNCHANGED <<file, object, picture, attached, uploaded, undone, requested, rewritten, faults>>

\* uploadFromBuffer: the object first, then its row.
UploadObject(s) ==
    /\ proc[s].at = "upload"
    /\ Upload(proc[s].new)
    /\ Goto(s, "insert")
    /\ UNCHANGED <<file, picture, attached, undone, requested, rewritten, faults>>

InsertFile(s) ==
    /\ proc[s].at = "insert"
    /\ file' = [file EXCEPT ![proc[s].new] = [status |-> "ready", deleted |-> FALSE]]
    /\ Goto(s, "begin")
    /\ UNCHANGED <<object, picture, attached, uploaded, undone, requested, rewritten, faults>>

Begin(s) ==
    /\ proc[s].at = "begin"
    /\ Goto(s, IF proc[s].old = None THEN "save" ELSE "find")
    /\ UNCHANGED <<file, object, picture, attached, uploaded, undone, requested, rewritten, faults>>

\* softDelete reads outside the transaction; that the old file is gone, or that the read fails, is
\* no error here: the old file stays as it is.
KeepOld(s) == Become(s, [proc[s] EXCEPT !.at = "save", !.old = None])
FindOld(s) ==
    /\ proc[s].at = "find"
    /\ \/ IsActive(proc[s].old) /\ Goto(s, "removeOld") /\ UNCHANGED faults
       \/ ~IsActive(proc[s].old) /\ KeepOld(s) /\ UNCHANGED faults
       \/ Fault /\ KeepOld(s)
    /\ UNCHANGED <<file, object, picture, attached, uploaded, undone, requested, rewritten>>

RemoveOld(s) ==
    /\ proc[s].at = "removeOld"
    /\ DeleteObject(proc[s].old)
    /\ Goto(s, "save")
    /\ UNCHANGED <<file, picture, attached, uploaded, undone, requested, rewritten>>

\* The row of the old file, that of the owner, and COMMIT.
OnlyTheObject(s) == file                                   \* mutant: deletes the object and keeps the row
DeletesNew(s) == SetDeleted(proc[s].new)                   \* mutant: deletes the file it has just uploaded
FilesAfter(s) == IF proc[s].old = None THEN file ELSE SetDeleted(proc[s].old)
Save(s) ==
    /\ proc[s].at = "save"
    /\ file' = FilesAfter(s)
    /\ picture' = [picture EXCEPT ![proc[s].owner] = proc[s].new]
    /\ rewritten' = rewritten \ {proc[s].owner}
    /\ Finish(s)
    /\ UNCHANGED <<object, attached, uploaded, undone, requested, faults>>

\* updateStoreById without a logo writes back the id that was read.
WriteBack(s) ==
    /\ proc[s].at = "write"
    /\ picture' = [picture EXCEPT ![proc[s].owner] = proc[s].old]
    /\ rewritten' = rewritten \cup {o \in Owners : picture'[o] # picture[o]}
    /\ Finish(s)
    /\ UNCHANGED <<file, object, attached, uploaded, undone, requested, faults>>

-----------------------------------------------------------------------------
(* addImage *)

AnyActive(f) == IsActive(f)                                \* mutant: a pending file can be attached
Attachable(f) == IsReady(f)
AssertFileReady(s, f) ==
    /\ Attachable(f)
    /\ Start(s, [Idle EXCEPT !.op = "attach", !.at = "image", !.new = f])
    /\ UNCHANGED <<file, object, picture, attached, uploaded, undone, requested, rewritten, faults>>

AddImage(s) ==
    /\ proc[s].at = "image"
    /\ attached' = attached \cup {proc[s].new}
    /\ Finish(s)
    /\ UNCHANGED <<file, object, picture, uploaded, undone, requested, rewritten, faults>>

-----------------------------------------------------------------------------

\* The file whose object s has deleted, or tried to, when its row is not.
Halfway(s) == IF proc[s].at \in {"row", "save"} /\ proc[s].old # None THEN {proc[s].old} ELSE {}

\* A request or a statement fails, or the owner is refused by a constraint: a transaction is rolled back.
Throw(s) ==
    /\ proc[s] # Idle
    /\ Fault
    /\ undone' = undone \cup Halfway(s)
    /\ Finish(s)
    /\ UNCHANGED <<file, object, picture, attached, uploaded, requested, rewritten>>

Crash ==
    /\ Fault
    /\ undone' = undone \cup UNION {Halfway(s) : s \in Sessions}
    /\ proc' = [s \in Sessions |-> Idle]
    /\ UNCHANGED <<file, object, picture, attached, uploaded, requested, rewritten>>

Requests(s) ==
    \/ \E f \in Files : Confirm(s, f) \/ Delete(s, f) \/ AssertFileReady(s, f)
    \/ \E o \in Owners : Replace(s, o) \/ Rename(s, o)
Continue(s) ==
    \/ HeadObject(s) \/ MarkStatus(s) \/ Remove(s) \/ SoftDeleteById(s)
    \/ UploadObject(s) \/ InsertFile(s) \/ Begin(s) \/ FindOld(s) \/ RemoveOld(s) \/ Save(s)
    \/ WriteBack(s) \/ AddImage(s)

Next ==
    \/ CreateUploadIntent \/ Crash
    \/ \E f \in Files : Put(f)
    \/ \E s \in Sessions : Requests(s) \/ Continue(s) \/ Throw(s)
Spec == Init /\ [][Next]_vars

-----------------------------------------------------------------------------
(* Properties *)

TypeOK ==
    /\ file \in [Files -> FileRows \cup {NoFile}]
    /\ object \subseteq Files
    /\ picture \in [Owners -> Files \cup {None}]
    /\ attached \subseteq Files
    /\ proc \in [Sessions -> Locals]
    /\ uploaded \subseteq Files
    /\ undone \subseteq Files
    /\ requested \subseteq Files
    /\ rewritten \subseteq Owners
    /\ faults \in 0..MaxFaults

\* A file that reads "ready", or that a product shows, has been in the store: no confirmation that
\* works on what it read a while ago, and no failure of the store, makes a file ready that is not there.
ShownWasUploaded == \A f \in Files : (Exists(f) /\ file[f].status = "ready") \/ f \in attached => f \in uploaded

\* A ready file has its object, but for one that softDelete is between its object and its row with, or
\* was when it failed, was rolled back or crashed: only that leaves a link to nothing.
ReadyHasObject == \A f \in Files :
    IsReady(f) /\ f \notin object => f \in undone \/ \E s \in Sessions : f \in Halfway(s)

\* Replacements delete each other's files, but never the picture a user or store is left with, in
\* whatever order they read the old picture and commit: a picture is a deleted file only if a client
\* asked for that file, or an update without a logo has brought the logo back.
PictureIsLive == \A o \in Owners :
    picture[o] # None /\ file[picture[o]].deleted => picture[o] \in requested \/ o \in rewritten
=============================================================================
