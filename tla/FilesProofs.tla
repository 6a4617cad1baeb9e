------------------------------- MODULE FilesProofs -------------------------------
(***************************************************************************)
(* Proofs about Files, for any requests, owners and files.                 *)
(*                                                                         *)
(* What a request knows from earlier is a property of its local state l    *)
(* and of the tables: rows are never removed, a file that a replacement    *)
(* uploads is nobody's picture until it is saved, and an object that is    *)
(* gone has a deleted row, or one that somebody has left halfway.  Then    *)
(* the pictures: those of two owners, and what the updates of the two      *)
(* have read or uploaded, are different files.                             *)
(***************************************************************************)
EXTENDS Files, TLAPS

\* The steps of a replacement, before and after the INSERT of its file.
Uploading == {"upload", "insert"}
Inserted == {"begin", "find", "removeOld", "save"}
Replacing(l) == l.at \in Uploading \cup Inserted

\* The steps that work on the old file.
NeedsOld == {"exists", "markReady", "markFailed", "remove", "row", "find", "removeOld"}

LocalOK(l) ==
    /\ l.old # None => Exists(l.old)
    /\ l.at \in NeedsOld => l.old # None
    /\ l.at = "markReady" => l.old \in uploaded
    /\ l.at = "image" => l.new \in uploaded
    /\ l.at = "insert" => l.new \in object
    /\ l.at \in Uploading => ~Exists(l.new)
    /\ l.at \in Inserted => Exists(l.new)
    /\ Replacing(l) => l.op = "replace" /\ l.new # None /\ l.old # l.new
    /\ Replacing(l) \/ l.at = "write" => l.owner # None
    /\ l.at = "write" => l.op = "rename"

\* The file of a replacement is nobody's picture, and no other update's old or new file; once its
\* row is there, a client can ask to delete it.
Updating(l) == Replacing(l) \/ l.at = "write"
Private(l) == Replacing(l) => \A o \in Owners : picture[o] # l.new
Apart(l, m) == Replacing(l) =>
    /\ m.old = l.new => l.at \in Inserted /\ ~Updating(m)
    /\ Replacing(m) => m.new # l.new

PictureExists == \A o \in Owners : picture[o] # None => Exists(picture[o])

\* What was in the store and is not any more has a row, and that is deleted, or the deletion is not over.
Lost(f) ==
    f \in uploaded /\ f \notin object =>
        Exists(f) /\ (file[f].deleted \/ f \in undone \/ \E s \in Sessions : f \in Halfway(s))

HistoriesOK == requested \subseteq Files /\ rewritten \subseteq Owners /\ faults \in 0..MaxFaults

Requested == \A s \in Sessions : LocalOK(proc[s]) /\ Private(proc[s])
Separate == \A s, t \in Sessions : s # t => Apart(proc[s], proc[t])
Stored == object \subseteq uploaded /\ ShownWasUploaded /\ \A f \in Files : Lost(f)

Inv == TypeOK /\ Requested /\ Separate /\ PictureExists /\ Stored

-----------------------------------------------------------------------------

\* A row is none of the records of FileRows when it does not exist.
LEMMA RowsExist ==
  ASSUME TypeOK, NEW f \in Files
  PROVE  (Exists(f) <=> file[f] \in FileRows) /\ NoFile \notin FileRows
  BY NoneAssumption DEF TypeOK, Exists, NoFile, FileRows, Statuses

\* The local state of a request that has nothing to do.
LEMMA IdleOK ==
  /\ Idle \in Locals /\ ~Replacing(Idle) /\ \A l : Apart(Idle, l)
  /\ LocalOK(Idle) /\ LocalOK(Idle)' /\ Private(Idle) /\ Private(Idle)'
  BY DEF Idle, Locals, Ops, Steps, LocalOK, Private, Apart, Replacing, Uploading, Inserted, NeedsOld

\* ... and no other request has its file.
LEMMA IdleApart ==
  ASSUME NEW l, LocalOK(l)
  PROVE  Apart(l, Idle)
  BY DEF Idle, LocalOK, Apart, Replacing, Uploading, Inserted

\* The initial state.
LEMMA InitInv == Init => Inv
<1> SUFFICES ASSUME Init PROVE Inv
  OBVIOUS
<1>1. TypeOK
  <2>1. file \in [Files -> FileRows \cup {NoFile}]
    BY DEF Init, FileRows, Statuses
  <2>2. proc \in [Sessions -> Locals]
    BY IdleOK DEF Init
  <2> QED
    BY <2>1, <2>2, BoundsAssumption, OwnersAssumption DEF Init, TypeOK
<1>2. Requested /\ Separate
  BY IdleOK DEF Init, Requested, Separate
<1>3. PictureExists
  <2> SUFFICES ASSUME NEW o \in Owners, picture[o] # None PROVE Exists(picture[o])
    BY DEF PictureExists
  <2>1. picture[o] \in Files /\ picture[o] \in object
    BY OwnersAssumption DEF Init
  <2>2. file[picture[o]] = [status |-> "ready", deleted |-> FALSE]
    BY <2>1 DEF Init
  <2>3. file[picture[o]] \in FileRows
    BY <2>2 DEF FileRows, Statuses
  <2> QED
    BY <2>1, <2>3, <1>1, RowsExist
<1>4. Stored
  <2>1. \A f \in Files : file[f].status = "ready" => f \in object
    BY NoneAssumption DEF Init, NoFile, Statuses
  <2> QED
    BY <2>1 DEF Init, Stored, ShownWasUploaded, Lost, Exists
<1> QED
  BY <1>1, <1>2, <1>3, <1>4 DEF Inv

-----------------------------------------------------------------------------
(* One request takes a step, from proc[s] to l *)

\* The same request at a later step.
Follows(k, l) ==
    /\ l.old \in {k.old, None}
    /\ Updating(l) => Updating(k) /\ l.owner = k.owner
    /\ Replacing(l) => Replacing(k) /\ l.new = k.new
    /\ k.at \in Inserted => l.at \in Inserted

\* A later step of the same request is as far apart from the others as it was.
LEMMA FollowsApart ==
  ASSUME Inv, NEW s \in Sessions, NEW l \in Locals, Follows(proc[s], l)
  PROVE  \A t \in Sessions : t # s => Apart(l, proc[t]) /\ Apart(proc[t], l)
<1> SUFFICES ASSUME NEW t \in Sessions, t # s PROVE Apart(l, proc[t]) /\ Apart(proc[t], l)
  OBVIOUS
<1>1. Apart(proc[s], proc[t]) /\ Apart(proc[t], proc[s]) /\ LocalOK(proc[t])
  BY DEF Inv, Separate, Requested
<1> QED
  BY <1>1 DEF Apart, LocalOK, Follows

\* A request that replaces nothing, and is not about the new file of a replacement, is apart.
LEMMA OrdinaryApart ==
  ASSUME Inv, NEW l \in Locals, ~Replacing(l), NEW t \in Sessions,
         Replacing(proc[t]) /\ l.old = proc[t].new => proc[t].at \in Inserted /\ ~Updating(l)
  PROVE  Apart(l, proc[t]) /\ Apart(proc[t], l)
  BY DEF Apart

\* What the others know stays true when the tables only grow but for what is theirs alone.
LEMMA OthersKeep ==
  ASSUME Inv, NEW s \in Sessions, NEW l \in Locals, proc' = [proc EXCEPT ![s] = l],
         LocalOK(l)', Private(l)',
         \A t \in Sessions : t # s => Apart(l, proc[t]) /\ Apart(proc[t], l),
         \A f \in Files : Exists(f) => Exists(f)',
         uploaded \subseteq uploaded',
         \A t \in Sessions : t # s /\ Replacing(proc[t]) =>
            LET f == proc[t].new IN
                /\ proc[t].at \in Uploading => file'[f] = file[f] /\ (f \in object => f \in object')
                /\ \A o \in Owners : picture'[o] # f
  PROVE  Requested' /\ Separate' /\ proc' \in [Sessions -> Locals]
<1>1. proc' \in [Sessions -> Locals] /\ proc'[s] = l /\ \A t \in Sessions : t # s => proc'[t] = proc[t]
  BY DEF Inv, TypeOK, HistoriesOK
<1>2. ASSUME NEW t \in Sessions, t # s PROVE LocalOK(proc[t])'
  <2>1. LocalOK(proc[t]) /\ proc[t] \in Locals /\ proc'[t] = proc[t]
    BY <1>1, <1>2 DEF Inv, Requested, TypeOK
  <2>2. proc[t].old \in Files \cup {None}
    BY <2>1 DEF Locals
  <2>3. proc[t].old # None => Exists(proc[t].old)'
    BY <2>1, <2>2 DEF LocalOK
  <2>4. proc[t].at \in Uploading => file'[proc[t].new] = file[proc[t].new]
                                    /\ (proc[t].new \in object => proc[t].new \in object')
    BY <1>2 DEF Replacing
  <2>5. proc[t].at \in Inserted => Exists(proc[t].new)'
    <3> SUFFICES ASSUME proc[t].at \in Inserted PROVE Exists(proc[t].new)'
      OBVIOUS
    <3>1. proc[t].new \in Files /\ Exists(proc[t].new)
      BY <2>1 DEF LocalOK, Replacing, Locals
    <3>2. \A f \in Files : Exists(f) => Exists(f)'
      OBVIOUS
    <3> QED
      BY <2>1, <3>1, <3>2
  <2> QED
    BY <2>1, <2>3, <2>4, <2>5 DEF LocalOK, Replacing, Uploading, Inserted, NeedsOld, Exists
<1>3. ASSUME NEW t \in Sessions, t # s PROVE Private(proc[t])'
  BY <1>1, <1>3 DEF Private, Replacing
<1>4. Requested'
  BY <1>1, <1>2, <1>3 DEF Requested, LocalOK, Private, Replacing, Exists
<1>5. Separate'
  BY <1>1 DEF Inv, Separate, Apart, Replacing, Updating
<1> QED
  BY <1>1, <1>4, <1>5

\* A step that changes nothing but the request, and does not leave an object without its row.
LEMMA LocalStep ==
  ASSUME Inv, NEW s \in Sessions, NEW l \in Locals, proc' = [proc EXCEPT ![s] = l],
         UNCHANGED <<file, object, picture, attached, uploaded, undone>>, HistoriesOK',
         LocalOK(l), Private(l), \A t \in Sessions : t # s => Apart(l, proc[t]) /\ Apart(proc[t], l),
         proc[s].at \notin {"row", "save"}
  PROVE  Inv'
<1>1. LocalOK(l)' /\ Private(l)'
  BY DEF LocalOK, Private, Exists
<1>2. Requested' /\ Separate' /\ proc' \in [Sessions -> Locals]
  BY <1>1, OthersKeep DEF Exists, Inv, Requested, Private
<1>3. TypeOK'
  BY <1>2 DEF Inv, TypeOK, HistoriesOK
<1>4. PictureExists'
  BY DEF Inv, PictureExists, Exists
<1>5. \A f \in Files : Lost(f)'
  <2>1. \A f \in Files, t \in Sessions : f \in Halfway(t) => f \in Halfway(t)'
    BY DEF Halfway, Inv, TypeOK, HistoriesOK
  <2> QED
    BY <2>1 DEF Lost, Exists, Inv, Stored
<1>6. Stored'
  BY <1>5 DEF Inv, Stored, ShownWasUploaded, Exists
<1> QED
  BY <1>2, <1>3, <1>4, <1>6 DEF Inv

-----------------------------------------------------------------------------
(* The steps of a request *)

\* What a request is.
LEMMA Known ==
  ASSUME Inv, NEW s \in Sessions
  PROVE  proc[s] \in Locals /\ LocalOK(proc[s]) /\ Private(proc[s])
  BY DEF Inv, TypeOK, HistoriesOK, Requested

\* A pending file is to be confirmed.
LEMMA ConfirmKeeps == ASSUME Inv, NEW s \in Sessions, NEW f \in Files, Confirm(s, f) PROVE Inv'
<1> DEFINE l == [Idle EXCEPT !.op = "confirm", !.at = "exists", !.old = f]
<1>1. l \in Locals /\ l.at = "exists" /\ l.old = f
  BY DEF Idle, Locals, Ops, Steps
<1>2. proc' = [proc EXCEPT ![s] = l] /\ proc[s].at = "idle" /\ IsActive(f) /\ file[f].status = "pending"
  BY DEF Confirm, Start, Become, Idle
<1>3. LocalOK(l) /\ Private(l) /\ ~Replacing(l)
  BY <1>1, <1>2, NoneAssumption DEF LocalOK, Private, Replacing, Uploading, Inserted, IsActive
<1>4. \A t \in Sessions : Replacing(proc[t]) /\ l.old = proc[t].new => proc[t].at \in Inserted /\ ~Updating(l)
  BY <1>1, <1>2, <1>3, Known DEF LocalOK, Replacing, Updating, IsActive
<1>5. UNCHANGED <<file, object, picture, attached, uploaded, undone>> /\ HistoriesOK'
  BY DEF Confirm, Inv, TypeOK, HistoriesOK
<1> HIDE DEF l
<1> QED
  BY <1>1, <1>2, <1>3, <1>4, <1>5, OrdinaryApart, LocalStep

\* What the store answers is what the request goes by.
LEMMA HeadObjectKeeps == ASSUME Inv, NEW s \in Sessions, HeadObject(s) PROVE Inv'
<1>1. PICK step \in {"markReady", "markFailed"} :
        /\ proc' = [proc EXCEPT ![s].at = step]
        /\ step = "markReady" => proc[s].old \in object
  BY DEF HeadObject, Goto
<1> DEFINE l == [proc[s] EXCEPT !.at = step]
<1>2. proc[s] \in Locals /\ LocalOK(proc[s])
  BY Known
<1>3. l \in Locals /\ l.at = step /\ l.old = proc[s].old /\ l.new = proc[s].new
  BY <1>2 DEF Locals, Steps
<1>4. proc' = [proc EXCEPT ![s] = l] /\ proc[s].at = "exists"
  BY <1>1 DEF HeadObject, Inv, TypeOK, HistoriesOK
<1>5. LocalOK(l) /\ Private(l) /\ Follows(proc[s], l)
  BY <1>1, <1>2, <1>3, <1>4
     DEF LocalOK, Private, Follows, Updating, Replacing, Uploading, Inserted, NeedsOld, Inv, Stored
<1>6. UNCHANGED <<file, object, picture, attached, uploaded, undone>> /\ HistoriesOK'
  BY BoundsAssumption DEF HeadObject, Fault, Inv, TypeOK, HistoriesOK
<1> HIDE DEF l
<1> QED
  BY <1>3, <1>4, <1>5, <1>6, FollowsApart, LocalStep

\* The file that is to be deleted is not one that a replacement works on.
LEMMA DeleteKeeps == ASSUME Inv, NEW s \in Sessions, NEW f \in Files, Delete(s, f) PROVE Inv'
<1> DEFINE l == [Idle EXCEPT !.op = "delete", !.at = "remove", !.old = f]
<1>1. l \in Locals /\ l.at = "remove" /\ l.old = f
  BY DEF Idle, Locals, Ops, Steps
<1>2. proc' = [proc EXCEPT ![s] = l] /\ proc[s].at = "idle" /\ Exists(f)
  BY DEF Delete, Start, Become, Idle, IsActive
<1>3. LocalOK(l) /\ Private(l) /\ ~Replacing(l)
  BY <1>1, <1>2, NoneAssumption DEF LocalOK, Private, Replacing, Uploading, Inserted
<1>4. \A t \in Sessions : Replacing(proc[t]) /\ l.old = proc[t].new => proc[t].at \in Inserted /\ ~Updating(l)
  BY <1>1, <1>2, <1>3, Known DEF LocalOK, Replacing, Updating
<1>5. UNCHANGED <<file, object, picture, attached, uploaded, undone>> /\ HistoriesOK'
  BY DEF Delete, Inv, TypeOK, HistoriesOK
<1> HIDE DEF l
<1> QED
  BY <1>1, <1>2, <1>3, <1>4, <1>5, OrdinaryApart, LocalStep

\* The new file of a replacement is nobody else's.
LEMMA ReplaceKeeps == ASSUME Inv, NEW s \in Sessions, NEW o \in Owners, Replace(s, o) PROVE Inv'
<1>1. PICK f \in Files :
        /\ FirstFree(f)
        /\ proc[s] = Idle
        /\ proc' = [proc EXCEPT ![s] =
                      [op |-> "replace", at |-> "upload", owner |-> o, old |-> picture[o], new |-> f]]
  BY DEF Replace, Start, Become
<1> DEFINE l == [op |-> "replace", at |-> "upload", owner |-> o, old |-> picture[o], new |-> f]
<1>2. l \in Locals
  BY DEF Locals, Ops, Steps, Inv, TypeOK, HistoriesOK
<1>3. ~Exists(f) /\ \A t \in Sessions : proc[t].new # f
  BY <1>1 DEF FirstFree, Taken
<1>4. \A p \in Owners : picture[p] # f
  BY <1>3, NoneAssumption DEF Inv, PictureExists
<1>5. \A t \in Sessions : proc[t].old # f
  BY <1>3, NoneAssumption, Known DEF LocalOK
<1>6. picture[o] # None => Exists(picture[o])
  BY DEF Inv, PictureExists
<1>7. LocalOK(l) /\ Private(l)
  BY <1>3, <1>4, <1>6, NoneAssumption DEF LocalOK, Private, Replacing, Uploading, Inserted, NeedsOld
<1>8. ASSUME NEW t \in Sessions PROVE Apart(l, proc[t]) /\ Apart(proc[t], l)
  <2>1. Private(proc[t])
    BY Known
  <2> QED
    BY <2>1, <1>3, <1>5 DEF Private, Apart
<1>9. UNCHANGED <<file, object, picture, attached, uploaded, undone>> /\ HistoriesOK'
  BY DEF Replace, Inv, TypeOK, HistoriesOK
<1>10. proc[s].at = "idle" /\ proc' = [proc EXCEPT ![s] = l]
  BY <1>1 DEF Idle
<1> HIDE DEF l
<1> QED
  BY <1>2, <1>7, <1>8, <1>9, <1>10, LocalStep

\* The logo is read.
LEMMA RenameKeeps == ASSUME Inv, NEW s \in Sessions, NEW o \in Owners, Rename(s, o) PROVE Inv'
<1> DEFINE l == [op |-> "rename", at |-> "write", owner |-> o, old |-> picture[o], new |-> None]
<1>1. l \in Locals /\ l.at = "write" /\ l.old = picture[o] /\ l.op = "rename"
  BY DEF Locals, Ops, Steps, Inv, TypeOK, HistoriesOK
<1>2. proc' = [proc EXCEPT ![s] = l] /\ proc[s].at = "idle"
  BY DEF Rename, Start, Become, Idle
<1>3. picture[o] # None => Exists(picture[o])
  BY DEF Inv, PictureExists
<1>4. LocalOK(l) /\ Private(l) /\ ~Replacing(l)
  BY <1>3, NoneAssumption DEF LocalOK, Private, Replacing, Uploading, Inserted, NeedsOld
<1>5. \A t \in Sessions : Replacing(proc[t]) => l.old # proc[t].new
  BY <1>1, Known DEF Private
<1>6. UNCHANGED <<file, object, picture, attached, uploaded, undone>> /\ HistoriesOK'
  BY DEF Rename, Inv, TypeOK, HistoriesOK
<1> HIDE DEF l
<1> QED
  BY <1>1, <1>2, <1>4, <1>5, <1>6, OrdinaryApart, LocalStep

\* The transaction is begun.
LEMMA BeginKeeps == ASSUME Inv, NEW s \in Sessions, Begin(s) PROVE Inv'
<1> DEFINE l == [proc[s] EXCEPT !.at = IF proc[s].old = None THEN "save" ELSE "find"]
<1>1. proc[s] \in Locals /\ LocalOK(proc[s]) /\ Private(proc[s])
  BY Known
<1>2. /\ l \in Locals /\ l.at \in {"save", "find"} /\ (l.at = "find" => proc[s].old # None)
      /\ l.old = proc[s].old /\ l.new = proc[s].new /\ l.op = proc[s].op /\ l.owner = proc[s].owner
  BY <1>1 DEF Locals, Steps
<1>3. proc' = [proc EXCEPT ![s] = l] /\ proc[s].at = "begin"
  BY DEF Begin, Goto, Inv, TypeOK, HistoriesOK
<1>4. LocalOK(l) /\ Private(l) /\ Follows(proc[s], l)
  BY <1>1, <1>2, <1>3 DEF LocalOK, Private, Follows, Updating, Replacing, Uploading, Inserted, NeedsOld
<1>5. UNCHANGED <<file, object, picture, attached, uploaded, undone>> /\ HistoriesOK'
  BY DEF Begin, Inv, TypeOK, HistoriesOK
<1> HIDE DEF l
<1> QED
  BY <1>2, <1>3, <1>4, <1>5, FollowsApart, LocalStep

\* softDelete looks for the old file.
LEMMA FindOldKeeps == ASSUME Inv, NEW s \in Sessions, FindOld(s) PROVE Inv'
<1>1. proc[s] \in Locals /\ LocalOK(proc[s]) /\ Private(proc[s])
  BY Known
<1>2. proc[s].at = "find" /\ UNCHANGED <<file, object, picture, attached, uploaded, undone>> /\ HistoriesOK'
  BY BoundsAssumption DEF FindOld, Fault, Inv, TypeOK, HistoriesOK
<1>3. PICK l \in Locals :
        /\ proc' = [proc EXCEPT ![s] = l] /\ l.at \in {"removeOld", "save"}
        /\ l.old = proc[s].old \/ (l.old = None /\ l.at = "save")
        /\ l.new = proc[s].new /\ l.op = proc[s].op /\ l.owner = proc[s].owner
  <2>1. CASE Goto(s, "removeOld")
    <3> DEFINE l == [proc[s] EXCEPT !.at = "removeOld"]
    <3>1. proc' = [proc EXCEPT ![s] = l]
      BY <2>1 DEF Goto, Inv, TypeOK, HistoriesOK
    <3>2. l \in Locals /\ l.at = "removeOld" /\ l.old = proc[s].old
          /\ l.new = proc[s].new /\ l.op = proc[s].op /\ l.owner = proc[s].owner
      BY <1>1 DEF Locals, Steps
    <3> HIDE DEF l
    <3> QED
      BY <3>1, <3>2
  <2>2. CASE Become(s, [proc[s] EXCEPT !.at = "save", !.old = None])
    <3> DEFINE l == [proc[s] EXCEPT !.at = "save", !.old = None]
    <3>1. proc' = [proc EXCEPT ![s] = l]
      BY <2>2 DEF Become
    <3>2. l \in Locals /\ l.at = "save" /\ l.old = None
          /\ l.new = proc[s].new /\ l.op = proc[s].op /\ l.owner = proc[s].owner
      BY <1>1 DEF Locals, Steps
    <3> HIDE DEF l
    <3> QED
      BY <3>1, <3>2
  <2> QED
    BY <2>1, <2>2 DEF FindOld, KeepOld
<1>4. LocalOK(l) /\ Private(l) /\ Follows(proc[s], l)
  BY <1>1, <1>2, <1>3 DEF LocalOK, Private, Follows, Updating, Replacing, Uploading, Inserted, NeedsOld
<1> QED
  BY <1>2, <1>3, <1>4, FollowsApart, LocalStep

\* The file to attach is ready, and so was uploaded.
LEMMA AssertFileReadyKeeps == ASSUME Inv, NEW s \in Sessions, NEW f \in Files, AssertFileReady(s, f) PROVE Inv'
<1> DEFINE l == [Idle EXCEPT !.op = "attach", !.at = "image", !.new = f]
<1>1. l \in Locals /\ l.at = "image" /\ l.old = None /\ l.new = f
  BY DEF Idle, Locals, Ops, Steps
<1>2. proc' = [proc EXCEPT ![s] = l] /\ proc[s].at = "idle" /\ IsReady(f)
  BY DEF AssertFileReady, Attachable, Start, Become, Idle
<1>3. f \in uploaded
  BY <1>2 DEF IsReady, IsActive, Inv, Stored, ShownWasUploaded
<1>4. LocalOK(l) /\ Private(l) /\ ~Replacing(l)
  BY <1>1, <1>3 DEF LocalOK, Private, Replacing, Uploading, Inserted, NeedsOld
<1>5. \A t \in Sessions : Replacing(proc[t]) => l.old # proc[t].new
  BY <1>1, Known DEF LocalOK
<1>6. UNCHANGED <<file, object, picture, attached, uploaded, undone>> /\ HistoriesOK'
  BY DEF AssertFileReady, Inv, TypeOK, HistoriesOK
<1> HIDE DEF l
<1> QED
  BY <1>1, <1>2, <1>4, <1>5, <1>6, OrdinaryApart, LocalStep

\* A request that ends leaves nothing to know.
LEMMA FinishKeeps ==
  ASSUME Inv, NEW s \in Sessions, proc' = [proc EXCEPT ![s] = Idle],
         \A f \in Files : Exists(f) => Exists(f)',
         uploaded \subseteq uploaded',
         \A t \in Sessions : t # s /\ Replacing(proc[t]) =>
            LET f == proc[t].new IN
                /\ proc[t].at \in Uploading => file'[f] = file[f] /\ (f \in object => f \in object')
                /\ \A o \in Owners : picture'[o] # f
  PROVE  Requested' /\ Separate' /\ proc' \in [Sessions -> Locals]
<1>1. \A t \in Sessions : t # s => Apart(Idle, proc[t]) /\ Apart(proc[t], Idle)
  BY IdleOK, IdleApart, Known
<1> QED
  BY <1>1, IdleOK, OthersKeep

\* A step of no request.
LEMMA NobodyMoves ==
  ASSUME Inv, UNCHANGED <<proc, picture>>,
         \A f \in Files : Exists(f) => Exists(f)',
         uploaded \subseteq uploaded', object \subseteq object',
         \A t \in Sessions : proc[t].at \in Uploading => file'[proc[t].new] = file[proc[t].new]
  PROVE  Requested' /\ Separate'
<1>1. ASSUME NEW t \in Sessions PROVE LocalOK(proc[t])' /\ Private(proc[t])'
  <2>1. LocalOK(proc[t]) /\ Private(proc[t]) /\ proc[t] \in Locals
    BY Known
  <2>2. proc[t].old # None => Exists(proc[t].old)'
    BY <2>1 DEF LocalOK, Locals
  <2>3. proc[t].at \in Inserted => Exists(proc[t].new)'
    BY <2>1 DEF LocalOK, Replacing, Locals
  <2> QED
    BY <2>1, <2>2, <2>3 DEF LocalOK, Private, Replacing, Uploading, Inserted, NeedsOld, Exists
<1> QED
  BY <1>1 DEF Inv, Requested, Separate, Apart, Replacing, Updating

\* A file whose row and object nobody touches.
LEMMA LostKeeps ==
  ASSUME Inv, NEW f \in Files, file'[f] = file[f], f \in object => f \in object',
         f \in uploaded' => f \in uploaded \/ f \in object', undone \subseteq undone',
         \A t \in Sessions : f \in Halfway(t) => f \in Halfway(t)' \/ f \in undone'
  PROVE  Lost(f)'
<1>1. Lost(f)
  BY DEF Inv, Stored
<1> QED
  BY <1>1 DEF Lost, Exists

\* The others are as far as they were.
LEMMA OthersHalfway ==
  ASSUME Inv, NEW s \in Sessions, NEW l, proc' = [proc EXCEPT ![s] = l], NEW t \in Sessions, t # s
  PROVE  Halfway(t)' = Halfway(t)
  BY DEF Halfway, Inv, TypeOK, HistoriesOK

\* A replacement and the old files of the others.
LEMMA OldIsNotNew ==
  ASSUME Inv, NEW s \in Sessions, NEW t \in Sessions, Replacing(proc[t]),
         proc[t].at \in Uploading \/ Updating(proc[s])
  PROVE  proc[s].old # proc[t].new
<1>1. LocalOK(proc[t]) /\ (s # t => Apart(proc[t], proc[s]))
  BY Known DEF Inv, Separate
<1> QED
  BY <1>1 DEF Apart, LocalOK, Uploading, Inserted

\* A new row, for a file nobody works on.
LEMMA CreateUploadIntentKeeps == ASSUME Inv, CreateUploadIntent PROVE Inv'
<1>1. PICK f \in Files : FirstFree(f) /\ file' = [file EXCEPT ![f] = [status |-> "pending", deleted |-> FALSE]]
  BY DEF CreateUploadIntent
<1>2. UNCHANGED <<object, picture, attached, proc, uploaded, undone, requested, rewritten, faults>>
  BY DEF CreateUploadIntent
<1>3. file'[f] \in FileRows /\ file'[f].status = "pending" /\ \A g \in Files : g # f => file'[g] = file[g]
  BY <1>1 DEF FileRows, Statuses, Inv, TypeOK, HistoriesOK
<1>4. TypeOK'
  BY <1>1, <1>2 DEF Inv, TypeOK, HistoriesOK, FileRows, Statuses
<1>5. Exists(f)' /\ \A g \in Files : Exists(g) => Exists(g)'
  <2>1. NoFile \notin FileRows
    BY NoneAssumption DEF NoFile, FileRows
  <2> QED
    BY <1>3, <2>1 DEF Exists
<1>6. f \notin object /\ \A t \in Sessions : proc[t].new # f
  BY <1>1 DEF FirstFree, Taken
<1>7. ASSUME NEW t \in Sessions, proc[t].at \in Uploading PROVE proc[t].new \in Files
  BY <1>7, Known DEF LocalOK, Locals, Replacing
<1>8. Requested' /\ Separate'
  BY <1>2, <1>3, <1>5, <1>6, <1>7, NobodyMoves
<1>9. PictureExists'
  BY <1>2, <1>5 DEF Inv, PictureExists, TypeOK
<1>10. ASSUME NEW g \in Files PROVE Lost(g)'
  <2>1. CASE g = f
    <3>1. f \notin uploaded
      BY <1>1, <1>6 DEF Inv, Stored, Lost, FirstFree, Taken
    <3> QED
      BY <2>1, <3>1, <1>2 DEF Lost
  <2>2. CASE g # f
    BY <2>2, <1>2, <1>3, LostKeeps DEF Halfway
  <2> QED
    BY <2>1, <2>2
<1>11. ShownWasUploaded'
  BY <1>2, <1>3 DEF Inv, Stored, ShownWasUploaded, Exists
<1> QED
  BY <1>2, <1>4, <1>8, <1>9, <1>10, <1>11 DEF Inv, Stored

\* The client uploads.
LEMMA PutKeeps == ASSUME Inv, NEW f \in Files, Put(f) PROVE Inv'
<1>1. /\ object' = object \cup {f} /\ uploaded' = uploaded \cup {f}
      /\ UNCHANGED <<file, picture, attached, proc, undone, requested, rewritten, faults>>
  BY DEF Put, Upload
<1>2. TypeOK' /\ PictureExists'
  BY <1>1 DEF Inv, TypeOK, HistoriesOK, PictureExists, Exists
<1>3. Requested' /\ Separate'
  BY <1>1, NobodyMoves DEF Exists
<1>4. \A g \in Files : Lost(g)'
  BY <1>1, LostKeeps DEF Halfway
<1>5. ShownWasUploaded' /\ object' \subseteq uploaded'
  BY <1>1 DEF Inv, Stored, ShownWasUploaded, Exists
<1> QED
  BY <1>2, <1>3, <1>4, <1>5 DEF Inv, Stored

\* By id: the row may have been deleted since.
LEMMA MarkStatusKeeps == ASSUME Inv, NEW s \in Sessions, MarkStatus(s) PROVE Inv'
<1>1. proc[s] \in Locals /\ LocalOK(proc[s]) /\ proc[s].at \in {"markReady", "markFailed"}
  BY Known DEF MarkStatus
<1>2. PICK f \in Files : f = proc[s].old /\ Exists(f) /\ (proc[s].at = "markReady" => f \in uploaded)
  BY <1>1 DEF LocalOK, NeedsOld, Locals
<1>3. /\ file' = [file EXCEPT ![f].status = StatusFor(s)] /\ proc' = [proc EXCEPT ![s] = Idle]
      /\ UNCHANGED <<object, picture, attached, uploaded, undone, requested, rewritten, faults>>
  BY <1>2 DEF MarkStatus, Finish
<1>4. /\ file[f] \in FileRows /\ file'[f] = [file[f] EXCEPT !.status = StatusFor(s)]
      /\ \A g \in Files : g # f => file'[g] = file[g]
  BY <1>2, <1>3, RowsExist DEF Inv, TypeOK, HistoriesOK
<1>5. StatusFor(s) \in Statuses /\ (StatusFor(s) = "ready" => proc[s].at = "markReady")
  BY DEF StatusFor, Statuses
<1>6. file'[f] \in FileRows /\ file'[f].status = StatusFor(s) /\ file'[f].deleted = file[f].deleted
  BY <1>4, <1>5 DEF FileRows
<1>7. file' \in [Files -> FileRows \cup {NoFile}]
  BY <1>2, <1>3, <1>4, <1>6 DEF Inv, TypeOK, HistoriesOK
<1>8. Exists(f)' /\ \A g \in Files : Exists(g) => Exists(g)'
  <2>1. Exists(f)'
    <3>1. NoFile \notin FileRows
      BY NoneAssumption DEF NoFile, FileRows
    <3> QED
      BY <1>6, <3>1 DEF Exists
  <2>2. \A g \in Files : g # f => file'[g] = file[g]
    BY <1>4
  <2> QED
    BY <2>1, <2>2 DEF Exists
<1>9. ASSUME NEW t \in Sessions, Replacing(proc[t])
      PROVE  /\ proc[t].new \in Files /\ (proc[t].at \in Uploading => proc[t].new # f)
             /\ \A o \in Owners : picture[o] # proc[t].new
  BY <1>2, <1>9, Known, OldIsNotNew DEF LocalOK, Locals, Private
<1>10. Requested' /\ Separate' /\ proc' \in [Sessions -> Locals]
  BY <1>3, <1>4, <1>8, <1>9, FinishKeeps
<1>11. TypeOK' /\ PictureExists'
  BY <1>3, <1>7, <1>8, <1>10 DEF Inv, TypeOK, HistoriesOK, PictureExists
<1>12. \A t \in Sessions, g \in Files : g \in Halfway(t) => g \in Halfway(t)'
  <2>1. Halfway(s) = {}
    BY <1>1 DEF Halfway
  <2> QED
    BY <1>3, <2>1, OthersHalfway
<1>13. ASSUME NEW g \in Files PROVE Lost(g)'
  <2>1. CASE g = f
    <3>1. Lost(f)
      BY <1>2 DEF Inv, Stored
    <3> QED
      BY <3>1, <2>1, <1>3, <1>6, <1>8, <1>12, <1>2 DEF Lost
  <2>2. CASE g # f
    BY <2>2, <1>3, <1>4, <1>12, LostKeeps
  <2> QED
    BY <2>1, <2>2
<1>14. ShownWasUploaded' /\ object' \subseteq uploaded'
  BY <1>2, <1>3, <1>4, <1>5, <1>6 DEF Inv, Stored, ShownWasUploaded, Exists
<1> QED
  BY <1>10, <1>11, <1>13, <1>14 DEF Inv, Stored

\* A row that is written: it is there, and the others are as they were.
LEMMA RowWritten ==
  ASSUME TypeOK, NEW f \in Files, NEW row \in FileRows, file' = [file EXCEPT ![f] = row]
  PROVE  /\ file' \in [Files -> FileRows \cup {NoFile}]
         /\ file'[f] = row /\ \A g \in Files : g # f => file'[g] = file[g]
         /\ Exists(f)' /\ \A g \in Files : Exists(g) => Exists(g)'
<1>1. file' \in [Files -> FileRows \cup {NoFile}] /\ file'[f] = row /\ \A g \in Files : g # f => file'[g] = file[g]
  BY DEF TypeOK
<1>2. NoFile \notin FileRows
  BY NoneAssumption DEF NoFile, FileRows
<1> QED
  BY <1>1, <1>2 DEF Exists

\* softDeleteById keeps the status.
LEMMA RowDeleted ==
  ASSUME TypeOK, NEW f \in Files, Exists(f), file' = SetDeleted(f)
  PROVE  /\ file' \in [Files -> FileRows \cup {NoFile}]
         /\ file'[f].deleted /\ file'[f].status = file[f].status /\ \A g \in Files : g # f => file'[g] = file[g]
         /\ Exists(f)' /\ \A g \in Files : Exists(g) => Exists(g)'
<1>1. file[f] \in FileRows
  BY RowsExist
<1> DEFINE row == [file[f] EXCEPT !.deleted = TRUE]
<1>2. row \in FileRows /\ row.deleted /\ row.status = file[f].status
  BY <1>1 DEF FileRows
<1>3. file' = [file EXCEPT ![f] = row]
  BY DEF SetDeleted, TypeOK
<1> HIDE DEF row
<1>4. PICK r \in FileRows : r = row
  BY <1>2
<1> QED
  BY <1>2, <1>3, <1>4, RowWritten

\* Files that have a picture keep their rows.
LEMMA PicturesKeep ==
  ASSUME Inv, UNCHANGED picture, \A f \in Files : Exists(f) => Exists(f)'
  PROVE  PictureExists'
  BY DEF Inv, TypeOK, HistoriesOK, PictureExists

\* The object goes before the row.
LEMMA RemoveKeeps == ASSUME Inv, NEW s \in Sessions, Remove(s) PROVE Inv'
<1> DEFINE l == [proc[s] EXCEPT !.at = "row"]
<1>1. proc[s] \in Locals /\ LocalOK(proc[s]) /\ proc[s].at = "remove"
  BY Known DEF Remove
<1>2. l \in Locals /\ l.at = "row" /\ l.old = proc[s].old /\ l.new = proc[s].new
  BY <1>1 DEF Locals, Steps
<1>3. PICK f \in Files : f = proc[s].old /\ Exists(f)
  BY <1>1 DEF LocalOK, NeedsOld, Locals
<1>4. /\ proc' = [proc EXCEPT ![s] = l] /\ object \ {f} \subseteq object' /\ object' \subseteq object
      /\ UNCHANGED <<file, picture, attached, uploaded, undone>> /\ HistoriesOK'
  BY <1>3, BoundsAssumption DEF Remove, DeleteObject, Goto, Fault, Inv, TypeOK, HistoriesOK
<1> HIDE DEF l
<1>5. PICK m \in Locals : m = l
  BY <1>2
<1>6. LocalOK(m)' /\ Private(m)' /\ Follows(proc[s], m)
  BY <1>1, <1>2, <1>3, <1>4, <1>5
     DEF LocalOK, Private, Follows, Updating, Replacing, Uploading, Inserted, NeedsOld, Exists
<1>7. \A t \in Sessions : t # s => Apart(m, proc[t]) /\ Apart(proc[t], m)
  BY <1>2, <1>5, <1>6, FollowsApart
<1>8. \A t \in Sessions : Replacing(proc[t]) =>
            (proc[t].at \in Uploading => proc[t].new # f) /\ \A o \in Owners : picture[o] # proc[t].new
  BY <1>3, OldIsNotNew, Known DEF Private
<1>9. \A g \in Files : Exists(g) => Exists(g)'
  BY <1>4 DEF Exists
<1>10. Requested' /\ Separate' /\ proc' \in [Sessions -> Locals]
  BY <1>4, <1>5, <1>6, <1>7, <1>8, <1>9, OthersKeep
<1>11. TypeOK' /\ PictureExists'
  BY <1>4, <1>9, <1>10, PicturesKeep DEF Inv, TypeOK, HistoriesOK
<1>12. f \in Halfway(s)'
  <2>1. f # None
    BY NoneAssumption
  <2> QED
    BY <1>2, <1>3, <1>4, <2>1 DEF Halfway, Inv, TypeOK, HistoriesOK
<1>13. \A t \in Sessions, g \in Files : g \in Halfway(t) => g \in Halfway(t)'
  <2>1. Halfway(s) = {}
    BY <1>1 DEF Halfway
  <2> QED
    BY <1>4, <2>1, OthersHalfway
<1>14. ASSUME NEW g \in Files PROVE Lost(g)'
  <2>1. CASE g = f
    BY <1>3, <1>9, <1>12, <2>1 DEF Lost
  <2>2. CASE g # f
    BY <1>4, <1>13, <2>2, LostKeeps
  <2> QED
    BY <2>1, <2>2
<1>15. ShownWasUploaded' /\ object' \subseteq uploaded'
  BY <1>4 DEF Inv, Stored, ShownWasUploaded, Exists
<1> QED
  BY <1>10, <1>11, <1>14, <1>15 DEF Inv, Stored

\* The row follows the object.
LEMMA SoftDeleteByIdKeeps == ASSUME Inv, NEW s \in Sessions, SoftDeleteById(s) PROVE Inv'
<1>1. proc[s] \in Locals /\ LocalOK(proc[s]) /\ proc[s].at = "row"
  BY Known DEF SoftDeleteById
<1>2. PICK f \in Files : f = proc[s].old /\ Exists(f)
  BY <1>1 DEF LocalOK, NeedsOld, Locals
<1>3. /\ file' = SetDeleted(f) /\ proc' = [proc EXCEPT ![s] = Idle]
      /\ UNCHANGED <<object, picture, attached, uploaded, undone, requested, rewritten, faults>>
  BY <1>2 DEF SoftDeleteById, Finish
<1>4. /\ file' \in [Files -> FileRows \cup {NoFile}]
      /\ file'[f].deleted /\ file'[f].status = file[f].status /\ \A g \in Files : g # f => file'[g] = file[g]
      /\ Exists(f)' /\ \A g \in Files : Exists(g) => Exists(g)'
  BY <1>2, <1>3, RowDeleted DEF Inv
<1>5. ASSUME NEW t \in Sessions, Replacing(proc[t])
      PROVE  /\ proc[t].new \in Files /\ (proc[t].at \in Uploading => proc[t].new # f)
             /\ \A o \in Owners : picture[o] # proc[t].new
  BY <1>2, <1>5, Known, OldIsNotNew DEF LocalOK, Locals, Private
<1>6. Requested' /\ Separate' /\ proc' \in [Sessions -> Locals]
  BY <1>3, <1>4, <1>5, FinishKeeps
<1>7. TypeOK' /\ PictureExists'
  BY <1>3, <1>4, <1>6, PicturesKeep DEF Inv, TypeOK, HistoriesOK
<1>8. \A t \in Sessions, g \in Files : g # f /\ g \in Halfway(t) => g \in Halfway(t)'
  <2>1. Halfway(s) \subseteq {f}
    BY <1>2 DEF Halfway
  <2> QED
    BY <1>3, <2>1, OthersHalfway
<1>9. ASSUME NEW g \in Files PROVE Lost(g)'
  <2>1. CASE g = f
    BY <1>4, <2>1 DEF Lost
  <2>2. CASE g # f
    BY <1>3, <1>4, <1>8, <2>2, LostKeeps
  <2> QED
    BY <2>1, <2>2
<1>10. ShownWasUploaded' /\ object' \subseteq uploaded'
  BY <1>2, <1>3, <1>4 DEF Inv, Stored, ShownWasUploaded, Exists
<1> QED
  BY <1>6, <1>7, <1>9, <1>10 DEF Inv, Stored

\* The object of the new file comes before its row.
LEMMA UploadObjectKeeps == ASSUME Inv, NEW s \in Sessions, UploadObject(s) PROVE Inv'
<1> DEFINE l == [proc[s] EXCEPT !.at = "insert"]
<1>1. proc[s] \in Locals /\ LocalOK(proc[s]) /\ Private(proc[s]) /\ proc[s].at = "upload"
  BY Known DEF UploadObject
<1>2. /\ l \in Locals /\ l.at = "insert"
      /\ l.old = proc[s].old /\ l.new = proc[s].new /\ l.op = proc[s].op /\ l.owner = proc[s].owner
  BY <1>1 DEF Locals, Steps
<1>3. PICK f \in Files : f = proc[s].new
  BY <1>1 DEF LocalOK, Replacing, Uploading, Locals
<1>4. /\ proc' = [proc EXCEPT ![s] = l] /\ object' = object \cup {f} /\ uploaded' = uploaded \cup {f}
      /\ UNCHANGED <<file, picture, attached, undone, requested, rewritten, faults>>
  BY <1>3 DEF UploadObject, Upload, Goto, Inv, TypeOK, HistoriesOK
<1> HIDE DEF l
<1>5. PICK m \in Locals : m = l
  BY <1>2
<1>6. LocalOK(m)' /\ Private(m)' /\ Follows(proc[s], m)
  BY <1>1, <1>2, <1>3, <1>4, <1>5
     DEF LocalOK, Private, Follows, Updating, Replacing, Uploading, Inserted, NeedsOld, Exists
<1>7. \A t \in Sessions : t # s => Apart(m, proc[t]) /\ Apart(proc[t], m)
  BY <1>2, <1>5, <1>6, FollowsApart
<1>8. \A t \in Sessions : Replacing(proc[t]) => \A o \in Owners : picture'[o] # proc[t].new
  BY <1>4, Known DEF Private
<1>9. \A g \in Files : Exists(g) => Exists(g)'
  BY <1>4 DEF Exists
<1>10. Requested' /\ Separate' /\ proc' \in [Sessions -> Locals]
  BY <1>4, <1>5, <1>6, <1>7, <1>8, <1>9, OthersKeep
<1>11. TypeOK' /\ PictureExists'
  BY <1>4, <1>9, <1>10, PicturesKeep DEF Inv, TypeOK, HistoriesOK
<1>12. \A t \in Sessions, g \in Files : g \in Halfway(t) => g \in Halfway(t)'
  <2>1. Halfway(s) = {}
    BY <1>1 DEF Halfway
  <2> QED
    BY <1>4, <2>1, OthersHalfway
<1>13. \A g \in Files : Lost(g)'
  BY <1>4, <1>12, LostKeeps
<1>14. ShownWasUploaded' /\ object' \subseteq uploaded'
  BY <1>4 DEF Inv, Stored, ShownWasUploaded, Exists
<1> QED
  BY <1>10, <1>11, <1>13, <1>14 DEF Inv, Stored

\* The row finds its object.
LEMMA InsertFileKeeps == ASSUME Inv, NEW s \in Sessions, InsertFile(s) PROVE Inv'
<1> DEFINE l == [proc[s] EXCEPT !.at = "begin"]
<1>1. proc[s] \in Locals /\ LocalOK(proc[s]) /\ Private(proc[s]) /\ proc[s].at = "insert"
  BY Known DEF InsertFile
<1>2. /\ l \in Locals /\ l.at = "begin"
      /\ l.old = proc[s].old /\ l.new = proc[s].new /\ l.op = proc[s].op /\ l.owner = proc[s].owner
  BY <1>1 DEF Locals, Steps
<1>3. PICK f \in Files : f = proc[s].new /\ f \in object
  BY <1>1 DEF LocalOK, Replacing, Uploading, Locals
<1>4. PICK row \in FileRows : row = [status |-> "ready", deleted |-> FALSE]
  BY DEF FileRows, Statuses
<1>5. /\ proc' = [proc EXCEPT ![s] = l] /\ file' = [file EXCEPT ![f] = row]
      /\ UNCHANGED <<object, picture, attached, uploaded, undone, requested, rewritten, faults>>
  BY <1>3, <1>4 DEF InsertFile, Goto, Inv, TypeOK, HistoriesOK
<1>6. /\ file' \in [Files -> FileRows \cup {NoFile}]
      /\ file'[f] = row /\ \A g \in Files : g # f => file'[g] = file[g]
      /\ Exists(f)' /\ \A g \in Files : Exists(g) => Exists(g)'
  BY <1>5, RowWritten DEF Inv
<1> HIDE DEF l
<1>7. PICK m \in Locals : m = l
  BY <1>2
<1>8. Replacing(proc[s]) /\ m.new = f /\ m.at = "begin" /\ m.old = proc[s].old /\ Follows(proc[s], m)
  BY <1>1, <1>2, <1>3, <1>7 DEF Follows, Updating, Replacing, Uploading, Inserted
<1>9. Private(m)'
  BY <1>1, <1>2, <1>5, <1>7, <1>8 DEF Private
<1>10. LocalOK(m)'
  <2>1. file'[f].status = "ready" /\ ~file'[f].deleted
    BY <1>4, <1>6
  <2>2. m.old # None => Exists(m.old)'
    BY <1>1, <1>6, <1>8 DEF LocalOK, Locals
  <2>3. m.op = "replace" /\ m.new # None /\ m.old # m.new /\ m.owner # None
    BY <1>1, <1>2, <1>7, <1>8 DEF LocalOK
  <2> QED
    BY <1>6, <1>8, <2>1, <2>2, <2>3 DEF LocalOK, Uploading, NeedsOld
<1>11. \A t \in Sessions : t # s => Apart(m, proc[t]) /\ Apart(proc[t], m)
  BY <1>2, <1>7, <1>8, FollowsApart
<1>12. ASSUME NEW t \in Sessions, t # s, Replacing(proc[t])
       PROVE  proc[t].new \in Files /\ proc[t].new # f /\ \A o \in Owners : picture[o] # proc[t].new
  <2>1. LocalOK(proc[t]) /\ proc[t] \in Locals /\ Private(proc[t])
    BY Known
  <2>2. Apart(proc[s], proc[t])
    BY <1>12 DEF Inv, Separate
  <2> QED
    BY <2>1, <2>2, <1>12, <1>3, <1>8 DEF LocalOK, Locals, Private, Apart
<1>13. Requested' /\ Separate' /\ proc' \in [Sessions -> Locals]
  <2>1. proc' = [proc EXCEPT ![s] = m] /\ uploaded \subseteq uploaded' /\ \A g \in Files : Exists(g) => Exists(g)'
    BY <1>5, <1>6, <1>7
  <2>2. ASSUME NEW t \in Sessions, t # s, Replacing(proc[t])
        PROVE  /\ file'[proc[t].new] = file[proc[t].new] /\ (proc[t].new \in object => proc[t].new \in object')
               /\ \A o \in Owners : picture'[o] # proc[t].new
    BY <1>5, <1>6, <1>12, <2>2
  <2> QED
    BY <1>9, <1>10, <1>11, <2>1, <2>2, OthersKeep
<1>14. TypeOK' /\ PictureExists'
  BY <1>5, <1>6, <1>13, PicturesKeep DEF Inv, TypeOK, HistoriesOK
<1>15. \A t \in Sessions, g \in Files : g \in Halfway(t) => g \in Halfway(t)'
  <2>1. Halfway(s) = {}
    BY <1>1 DEF Halfway
  <2> QED
    BY <1>5, <2>1, OthersHalfway
<1>16. ASSUME NEW g \in Files PROVE Lost(g)'
  <2>1. CASE g = f
    BY <1>3, <1>5, <2>1 DEF Lost
  <2>2. CASE g # f
    BY <1>5, <1>6, <1>15, <2>2, LostKeeps
  <2> QED
    BY <2>1, <2>2
<1>17. ShownWasUploaded' /\ object' \subseteq uploaded'
  BY <1>3, <1>5, <1>6 DEF Inv, Stored, ShownWasUploaded, Exists
<1> QED
  BY <1>13, <1>14, <1>16, <1>17 DEF Inv, Stored

\* The object of the old file goes before its row.
LEMMA RemoveOldKeeps == ASSUME Inv, NEW s \in Sessions, RemoveOld(s) PROVE Inv'
<1> DEFINE l == [proc[s] EXCEPT !.at = "save"]
<1>1. proc[s] \in Locals /\ LocalOK(proc[s]) /\ Private(proc[s]) /\ proc[s].at = "removeOld"
  BY Known DEF RemoveOld
<1>2. /\ l \in Locals /\ l.at = "save"
      /\ l.old = proc[s].old /\ l.new = proc[s].new /\ l.op = proc[s].op /\ l.owner = proc[s].owner
  BY <1>1 DEF Locals, Steps
<1>3. PICK f \in Files : f = proc[s].old /\ Exists(f)
  BY <1>1 DEF LocalOK, NeedsOld, Locals
<1>4. /\ proc' = [proc EXCEPT ![s] = l] /\ object \ {f} \subseteq object' /\ object' \subseteq object
      /\ UNCHANGED <<file, picture, attached, uploaded, undone>> /\ HistoriesOK'
  BY <1>3, BoundsAssumption DEF RemoveOld, DeleteObject, Goto, Fault, Inv, TypeOK, HistoriesOK
<1> HIDE DEF l
<1>5. PICK m \in Locals : m = l
  BY <1>2
<1>6. LocalOK(m)' /\ Private(m)' /\ Follows(proc[s], m) /\ Updating(proc[s])
  BY <1>1, <1>2, <1>3, <1>4, <1>5
     DEF LocalOK, Private, Follows, Updating, Replacing, Uploading, Inserted, NeedsOld, Exists
<1>7. \A t \in Sessions : t # s => Apart(m, proc[t]) /\ Apart(proc[t], m)
  BY <1>2, <1>5, <1>6, FollowsApart
<1>8. \A t \in Sessions : Replacing(proc[t]) =>
            (proc[t].at \in Uploading => proc[t].new # f) /\ \A o \in Owners : picture[o] # proc[t].new
  BY <1>3, OldIsNotNew, Known DEF Private
<1>9. \A g \in Files : Exists(g) => Exists(g)'
  BY <1>4 DEF Exists
<1>10. Requested' /\ Separate' /\ proc' \in [Sessions -> Locals]
  BY <1>4, <1>5, <1>6, <1>7, <1>8, <1>9, OthersKeep
<1>11. TypeOK' /\ PictureExists'
  BY <1>4, <1>9, <1>10, PicturesKeep DEF Inv, TypeOK, HistoriesOK
<1>12. f \in Halfway(s)'
  <2>1. f # None
    BY NoneAssumption
  <2> QED
    BY <1>2, <1>3, <1>4, <2>1 DEF Halfway, Inv, TypeOK, HistoriesOK
<1>13. \A t \in Sessions, g \in Files : g \in Halfway(t) => g \in Halfway(t)'
  <2>1. Halfway(s) = {}
    BY <1>1 DEF Halfway
  <2> QED
    BY <1>4, <2>1, OthersHalfway
<1>14. ASSUME NEW g \in Files PROVE Lost(g)'
  <2>1. CASE g = f
    BY <1>3, <1>9, <1>12, <2>1 DEF Lost
  <2>2. CASE g # f
    BY <1>4, <1>13, <2>2, LostKeeps
  <2> QED
    BY <2>1, <2>2
<1>15. ShownWasUploaded' /\ object' \subseteq uploaded'
  BY <1>4 DEF Inv, Stored, ShownWasUploaded, Exists
<1> QED
  BY <1>10, <1>11, <1>14, <1>15 DEF Inv, Stored

\* The old row and the picture, and COMMIT.
LEMMA SaveKeeps == ASSUME Inv, NEW s \in Sessions, Save(s) PROVE Inv'
<1>1. proc[s] \in Locals /\ LocalOK(proc[s]) /\ Private(proc[s]) /\ proc[s].at = "save"
  BY Known DEF Save
<1>2. PICK n \in Files : n = proc[s].new /\ Exists(n) /\ Replacing(proc[s])
  BY <1>1 DEF LocalOK, Replacing, Inserted, Locals
<1>3. PICK o \in Owners : o = proc[s].owner
  BY <1>1, <1>2 DEF LocalOK, Locals
<1>4. PICK old \in Files \cup {None} : old = proc[s].old /\ (old # None => Exists(old))
  BY <1>1 DEF Locals, LocalOK
<1>5. /\ file' = FilesAfter(s) /\ proc' = [proc EXCEPT ![s] = Idle] /\ picture' = [picture EXCEPT ![o] = n]
      /\ UNCHANGED <<object, attached, uploaded, undone>> /\ HistoriesOK'
  BY <1>2, <1>3 DEF Save, Finish, Inv, TypeOK, HistoriesOK
<1>6. /\ file' \in [Files -> FileRows \cup {NoFile}]
      /\ old # None => file'[old].deleted /\ file'[old].status = file[old].status
      /\ \A g \in Files : g # old => file'[g] = file[g]
      /\ \A g \in Files : Exists(g) => Exists(g)'
  <2>1. CASE old = None
    <3>1. file' = file
      BY <1>4, <1>5, <2>1 DEF FilesAfter
    <3> QED
      BY <2>1, <3>1 DEF Inv, TypeOK, HistoriesOK, Exists
  <2>2. CASE old # None
    <3>1. old \in Files /\ Exists(old) /\ file' = SetDeleted(old)
      BY <1>4, <1>5, <2>2 DEF FilesAfter
    <3> QED
      BY <3>1, RowDeleted DEF Inv
  <2> QED
    BY <2>1, <2>2
<1>7. ASSUME NEW t \in Sessions, t # s, Replacing(proc[t])
      PROVE  /\ file'[proc[t].new] = file[proc[t].new] /\ (proc[t].new \in object => proc[t].new \in object')
             /\ \A p \in Owners : picture'[p] # proc[t].new
  <2>1. LocalOK(proc[t]) /\ proc[t] \in Locals /\ Private(proc[t])
    BY Known
  <2>2. proc[t].new \in Files /\ proc[t].new # old
    BY <1>2, <1>4, <1>7, <2>1, OldIsNotNew DEF LocalOK, Locals, Updating
  <2>3. proc[t].new # n
    BY <1>2, <1>7 DEF Inv, Separate, Apart
  <2>4. \A p \in Owners : picture'[p] = picture[p] \/ picture'[p] = n
    BY <1>5 DEF Inv, TypeOK, HistoriesOK
  <2> QED
    BY <1>5, <1>6, <1>7, <2>1, <2>2, <2>3, <2>4 DEF Private
<1>8. Requested' /\ Separate' /\ proc' \in [Sessions -> Locals]
  <2>1. uploaded \subseteq uploaded'
    BY <1>5
  <2> QED
    BY <1>5, <1>6, <1>7, <2>1, FinishKeeps
<1>9. TypeOK'
  BY <1>5, <1>6, <1>8 DEF Inv, TypeOK, HistoriesOK
<1>10. PictureExists'
  <2> SUFFICES ASSUME NEW p \in Owners, picture'[p] # None PROVE Exists(picture[p])'
    BY DEF PictureExists
  <2>1. CASE p = o
    <3>1. picture'[p] = n
      BY <1>5, <2>1 DEF Inv, TypeOK, HistoriesOK
    <3>2. Exists(n)'
      BY <1>2, <1>6
    <3> QED
      BY <3>1, <3>2 DEF Exists
  <2>2. CASE p # o
    <3>1. picture'[p] = picture[p]
      BY <1>5, <2>2 DEF Inv, TypeOK, HistoriesOK
    <3>2. PICK g \in Files : g = picture[p] /\ Exists(g)
      BY <3>1 DEF Inv, TypeOK, HistoriesOK, PictureExists
    <3>3. Exists(g)'
      BY <1>6, <3>2
    <3> QED
      BY <3>1, <3>2, <3>3 DEF Exists
  <2> QED
    BY <2>1, <2>2
<1>11. \A t \in Sessions, g \in Files : g # old /\ g \in Halfway(t) => g \in Halfway(t)'
  <2>1. Halfway(s) \subseteq {old}
    BY <1>4 DEF Halfway
  <2> QED
    BY <1>5, <2>1, OthersHalfway
<1>12. ASSUME NEW g \in Files PROVE Lost(g)'
  <2>1. CASE g = old
    <3>1. Exists(g)' /\ file'[g].deleted
      BY <1>4, <1>6, <2>1, NoneAssumption
    <3> QED
      BY <3>1 DEF Lost
  <2>2. CASE g # old
    BY <1>5, <1>6, <1>11, <2>2, LostKeeps
  <2> QED
    BY <2>1, <2>2
<1>13. ShownWasUploaded' /\ object' \subseteq uploaded'
  <2>1. object' \subseteq uploaded'
    BY <1>5 DEF Inv, Stored
  <2>2. ASSUME NEW g \in Files, (Exists(g)' /\ file'[g].status = "ready") \/ g \in attached' PROVE g \in uploaded'
    <3>1. CASE g = old
      <4>1. Exists(g) /\ file'[g].status = file[g].status
        BY <1>4, <1>6, <3>1, NoneAssumption
      <4> QED
        BY <1>5, <2>2, <4>1 DEF Inv, Stored, ShownWasUploaded
    <3>2. CASE g # old
      <4>1. file'[g] = file[g]
        BY <1>6, <3>2
      <4> QED
        BY <1>5, <2>2, <4>1 DEF Inv, Stored, ShownWasUploaded, Exists
    <3> QED
      BY <3>1, <3>2
  <2> QED
    BY <2>1, <2>2 DEF ShownWasUploaded
<1> QED
  BY <1>8, <1>9, <1>10, <1>12, <1>13 DEF Inv, Stored

\* The logo is what it was when the request began.
LEMMA WriteBackKeeps == ASSUME Inv, NEW s \in Sessions, WriteBack(s) PROVE Inv'
<1>1. proc[s] \in Locals /\ LocalOK(proc[s]) /\ proc[s].at = "write"
  BY Known DEF WriteBack
<1>2. PICK o \in Owners, old \in Files \cup {None} :
        o = proc[s].owner /\ old = proc[s].old /\ (old # None => Exists(old))
  BY <1>1 DEF Locals, LocalOK
<1>3. /\ proc' = [proc EXCEPT ![s] = Idle] /\ picture' = [picture EXCEPT ![o] = old]
      /\ UNCHANGED <<file, object, attached, uploaded, undone>> /\ HistoriesOK'
  BY <1>2 DEF WriteBack, Finish, Inv, TypeOK, HistoriesOK
<1>4. \A g \in Files : Exists(g) => Exists(g)'
  BY <1>3 DEF Exists
<1>5. \A p \in Owners : picture'[p] = picture[p] \/ picture'[p] = old
  BY <1>3 DEF Inv, TypeOK, HistoriesOK
<1>6. ASSUME NEW t \in Sessions, t # s, Replacing(proc[t]) PROVE \A p \in Owners : picture'[p] # proc[t].new
  BY <1>1, <1>2, <1>5, <1>6, Known, OldIsNotNew DEF Private, Updating
<1>7. Requested' /\ Separate' /\ proc' \in [Sessions -> Locals]
  BY <1>3, <1>4, <1>6, FinishKeeps
<1>8. TypeOK'
  BY <1>3, <1>7 DEF Inv, TypeOK, HistoriesOK
<1>9. PictureExists'
  BY <1>2, <1>3, <1>5 DEF Inv, PictureExists, Exists
<1>10. \A t \in Sessions, g \in Files : g \in Halfway(t) => g \in Halfway(t)'
  <2>1. Halfway(s) = {}
    BY <1>1 DEF Halfway
  <2> QED
    BY <1>3, <2>1, OthersHalfway
<1>11. \A g \in Files : Lost(g)'
  BY <1>3, <1>10, LostKeeps
<1>12. ShownWasUploaded' /\ object' \subseteq uploaded'
  BY <1>3 DEF Inv, Stored, ShownWasUploaded, Exists
<1> QED
  BY <1>7, <1>8, <1>9, <1>11, <1>12 DEF Inv, Stored

\* The file is shown.
LEMMA AddImageKeeps == ASSUME Inv, NEW s \in Sessions, AddImage(s) PROVE Inv'
<1>1. proc[s] \in Locals /\ LocalOK(proc[s]) /\ proc[s].at = "image"
  BY Known DEF AddImage
<1>2. PICK f \in Files : f = proc[s].new /\ f \in uploaded
  BY <1>1 DEF LocalOK, Inv, TypeOK, HistoriesOK
<1>3. /\ proc' = [proc EXCEPT ![s] = Idle] /\ attached' = attached \cup {f}
      /\ UNCHANGED <<file, object, picture, uploaded, undone, requested, rewritten, faults>>
  BY <1>2 DEF AddImage, Finish
<1>4. \A g \in Files : Exists(g) => Exists(g)'
  BY <1>3 DEF Exists
<1>5. ASSUME NEW t \in Sessions, t # s, Replacing(proc[t]) PROVE \A p \in Owners : picture'[p] # proc[t].new
  BY <1>3, <1>5, Known DEF Private
<1>6. Requested' /\ Separate' /\ proc' \in [Sessions -> Locals]
  BY <1>3, <1>4, <1>5, FinishKeeps
<1>7. TypeOK' /\ PictureExists'
  BY <1>3, <1>4, <1>6, PicturesKeep DEF Inv, TypeOK, HistoriesOK
<1>8. \A t \in Sessions, g \in Files : g \in Halfway(t) => g \in Halfway(t)'
  <2>1. Halfway(s) = {}
    BY <1>1 DEF Halfway
  <2> QED
    BY <1>3, <2>1, OthersHalfway
<1>9. \A g \in Files : Lost(g)'
  BY <1>3, <1>8, LostKeeps
<1>10. ShownWasUploaded' /\ object' \subseteq uploaded'
  BY <1>2, <1>3 DEF Inv, Stored, ShownWasUploaded, Exists
<1> QED
  BY <1>6, <1>7, <1>9, <1>10 DEF Inv, Stored

\* A request that fails leaves what it had halfway to the history.
LEMMA ThrowKeeps == ASSUME Inv, NEW s \in Sessions, Throw(s) PROVE Inv'
<1>1. /\ proc' = [proc EXCEPT ![s] = Idle] /\ undone' = undone \cup Halfway(s)
      /\ UNCHANGED <<file, object, picture, attached, uploaded>> /\ HistoriesOK'
  BY BoundsAssumption DEF Throw, Finish, Fault, Inv, TypeOK, HistoriesOK
<1>2. \A g \in Files : Exists(g) => Exists(g)'
  BY <1>1 DEF Exists
<1>3. ASSUME NEW t \in Sessions, t # s, Replacing(proc[t]) PROVE \A p \in Owners : picture'[p] # proc[t].new
  BY <1>1, <1>3, Known DEF Private
<1>4. Requested' /\ Separate' /\ proc' \in [Sessions -> Locals]
  BY <1>1, <1>2, <1>3, FinishKeeps
<1>5. Halfway(s) \subseteq Files
  BY Known DEF Halfway, Locals
<1>6. TypeOK' /\ PictureExists'
  BY <1>1, <1>2, <1>4, <1>5, PicturesKeep DEF Inv, TypeOK, HistoriesOK
<1>7. \A t \in Sessions, g \in Files : g \in Halfway(t) => g \in Halfway(t)' \/ g \in undone'
  BY <1>1, OthersHalfway
<1>8. \A g \in Files : Lost(g)'
  BY <1>1, <1>7, LostKeeps
<1>9. ShownWasUploaded' /\ object' \subseteq uploaded'
  BY <1>1 DEF Inv, Stored, ShownWasUploaded, Exists
<1> QED
  BY <1>4, <1>6, <1>8, <1>9 DEF Inv, Stored

\* ... and so do all of them when the process dies.
LEMMA CrashKeeps == ASSUME Inv, Crash PROVE Inv'
<1>1. /\ proc' = [s \in Sessions |-> Idle] /\ undone' = undone \cup UNION {Halfway(s) : s \in Sessions}
      /\ UNCHANGED <<file, object, picture, attached, uploaded>> /\ HistoriesOK'
  BY BoundsAssumption DEF Crash, Fault, Inv, TypeOK, HistoriesOK
<1>2. \A t \in Sessions : proc'[t] = Idle
  BY <1>1
<1>3. Requested'
  BY <1>2, IdleOK DEF Requested, LocalOK, Private, Replacing, Exists
<1>4. Separate'
  BY <1>2, IdleOK DEF Separate, Apart, Replacing
<1>5. UNION {Halfway(s) : s \in Sessions} \subseteq Files
  BY Known DEF Halfway, Locals
<1>6. TypeOK'
  <2>1. proc' \in [Sessions -> Locals]
    BY <1>1, IdleOK
  <2> QED
    BY <1>1, <1>5, <2>1 DEF Inv, TypeOK, HistoriesOK
<1>7. PictureExists'
  BY <1>1, PicturesKeep DEF Exists
<1>8. \A g \in Files : Lost(g)'
  <2>1. \A t \in Sessions, g \in Files : g \in Halfway(t) => g \in undone'
    BY <1>1
  <2> QED
    BY <1>1, <2>1, LostKeeps
<1>9. ShownWasUploaded' /\ object' \subseteq uploaded'
  BY <1>1 DEF Inv, Stored, ShownWasUploaded, Exists
<1> QED
  BY <1>3, <1>4, <1>6, <1>7, <1>8, <1>9 DEF Inv, Stored

\* A step that changes nothing.
LEMMA StutterKeeps == ASSUME Inv, UNCHANGED vars PROVE Inv'
<1>1. UNCHANGED <<file, object, picture, attached, proc, uploaded, undone, requested, rewritten, faults>>
  BY DEF vars
<1>2. Requested' /\ Separate'
  BY <1>1, NobodyMoves DEF Exists
<1>3. TypeOK' /\ PictureExists'
  BY <1>1 DEF Inv, TypeOK, HistoriesOK, PictureExists, Exists
<1>4. \A g \in Files : Lost(g)'
  BY <1>1, LostKeeps DEF Halfway
<1>5. ShownWasUploaded' /\ object' \subseteq uploaded'
  BY <1>1 DEF Inv, Stored, ShownWasUploaded, Exists
<1> QED
  BY <1>2, <1>3, <1>4, <1>5 DEF Inv, Stored

-----------------------------------------------------------------------------

\* Every reachable state.
LEMMA StepKeeps == Inv /\ [Next]_vars => Inv'
<1> SUFFICES ASSUME Inv, [Next]_vars PROVE Inv'
  OBVIOUS
<1>1. CASE CreateUploadIntent
  BY <1>1, CreateUploadIntentKeeps
<1>2. CASE Crash
  BY <1>2, CrashKeeps
<1>3. ASSUME NEW f \in Files, Put(f) PROVE Inv'
  BY <1>3, PutKeeps
<1>4. ASSUME NEW s \in Sessions, Requests(s) PROVE Inv'
  BY <1>4, ConfirmKeeps, DeleteKeeps, AssertFileReadyKeeps, ReplaceKeeps, RenameKeeps DEF Requests
<1>5. ASSUME NEW s \in Sessions, Continue(s) PROVE Inv'
  BY <1>5, HeadObjectKeeps, MarkStatusKeeps, RemoveKeeps, SoftDeleteByIdKeeps, UploadObjectKeeps, InsertFileKeeps,
     BeginKeeps, FindOldKeeps, RemoveOldKeeps, SaveKeeps, WriteBackKeeps, AddImageKeeps DEF Continue
<1>6. ASSUME NEW s \in Sessions, Throw(s) PROVE Inv'
  BY <1>6, ThrowKeeps
<1>7. CASE UNCHANGED vars
  BY <1>7, StutterKeeps
<1> QED
  BY <1>1, <1>2, <1>3, <1>4, <1>5, <1>6, <1>7 DEF Next

\* The invariant holds in every state.
LEMMA Invariance == Spec => []Inv
  BY InitInv, StepKeeps, PTL DEF Spec

-----------------------------------------------------------------------------

\* Rows, objects, pictures and requests keep their types.
THEOREM TypeCorrect == Spec => []TypeOK
  BY Invariance, PTL DEF Inv

\* What confirmUpload marks ready, uploadFromBuffer inserts as ready, or addImage shows, was in the
\* store, however confirmations overlap with deletions and failures.
THEOREM ReadyFilesWereUploaded == Spec => []ShownWasUploaded
<1>1. Inv => ShownWasUploaded
  BY DEF Inv, Stored
<1> QED
  BY <1>1, Invariance, PTL

\* Only a softDelete between its object and its row, or stopped there, leaves a ready file without object.
THEOREM ReadyFilesHaveObjects == Spec => []ReadyHasObject
<1>1. Inv => ReadyHasObject
  <2> SUFFICES ASSUME Inv, NEW f \in Files, IsReady(f), f \notin object
               PROVE  f \in undone \/ \E s \in Sessions : f \in Halfway(s)
    BY DEF ReadyHasObject
  <2>1. f \in uploaded
    BY DEF Inv, Stored, ShownWasUploaded, IsReady, IsActive
  <2>2. Lost(f)
    BY DEF Inv, Stored
  <2> QED
    BY <2>1, <2>2 DEF Lost, IsReady, IsActive
<1> QED
  BY <1>1, Invariance, PTL

-----------------------------------------------------------------------------
(* Pictures: the files of two owners, and what the updates of the two go by, are different *)

Reads(l) == Updating(l) /\ l.old # None
PicturesDiffer == \A o, p \in Owners : o # p /\ picture[o] # None => picture[p] # picture[o]
OldIsOwn == \A s \in Sessions, p \in Owners : Reads(proc[s]) /\ p # proc[s].owner => picture[p] # proc[s].old
OldsDiffer == \A s, t \in Sessions :
    Reads(proc[s]) /\ Reads(proc[t]) /\ proc[t].owner # proc[s].owner => proc[t].old # proc[s].old
OwnInv == PicturesDiffer /\ OldIsOwn /\ OldsDiffer

\* What a client has not asked for, nobody deletes but the update that replaces it.
Deleting == {"remove", "row"}
AskedFor == \A s \in Sessions : proc[s].at \in Deleting => proc[s].old \in requested
NewIsLive == \A s \in Sessions :
    proc[s].at \in Inserted /\ file[proc[s].new].deleted => proc[s].new \in requested
LiveInv == AskedFor /\ NewIsLive /\ PictureIsLive

\* The same request, at a later step or at its end.
Onward(k, l) == Updating(l) => Updating(k) /\ l.owner = k.owner /\ l.old \in {k.old, None}
SameFiles(k, l) ==
    /\ l.at \in Inserted => k.at \in Inserted /\ l.new = k.new
    /\ l.at \in Deleting => k.at \in Deleting /\ l.old = k.old
AllOnward == \A t \in Sessions : Onward(proc[t], proc'[t])
AllSameFiles == \A t \in Sessions : SameFiles(proc[t], proc'[t])

\* Requests that go on, or end.
LEMMA StaysOnward ==
  ASSUME TypeOK
  PROVE  /\ \A k : Onward(k, k) /\ SameFiles(k, k) /\ Onward(k, Idle) /\ SameFiles(k, Idle)
         /\ \A s \in Sessions : \A l : proc' = [proc EXCEPT ![s] = l] /\ Onward(proc[s], l) => AllOnward
         /\ \A s \in Sessions : \A l : proc' = [proc EXCEPT ![s] = l] /\ SameFiles(proc[s], l) => AllSameFiles
<1>1. \A k : Onward(k, k) /\ SameFiles(k, k) /\ Onward(k, Idle) /\ SameFiles(k, Idle)
  BY DEF Onward, SameFiles, Idle, Updating, Replacing, Uploading, Inserted, Deleting
<1>2. ASSUME NEW s \in Sessions, NEW l, proc' = [proc EXCEPT ![s] = l]
      PROVE  \A t \in Sessions : proc'[t] = proc[t] \/ (t = s /\ proc'[t] = l)
  BY <1>2 DEF TypeOK
<1> QED
  BY <1>1, <1>2 DEF AllOnward, AllSameFiles

\* Nothing new is read, and no picture changes.
LEMMA OwnQuiet == ASSUME OwnInv, UNCHANGED picture, AllOnward PROVE OwnInv'
<1>1. \A t \in Sessions : Reads(proc'[t]) =>
         Reads(proc[t]) /\ proc'[t].owner = proc[t].owner /\ proc'[t].old = proc[t].old
  BY DEF AllOnward, Onward, Reads
<1> QED
  BY <1>1 DEF OwnInv, PicturesDiffer, OldIsOwn, OldsDiffer, Reads, Updating, Replacing

\* The picture of an owner is read.
LEMMA OwnRead ==
  ASSUME Inv, OwnInv, UNCHANGED picture, NEW s \in Sessions, NEW o \in Owners,
         NEW l, l.owner = o, l.old = picture[o], proc' = [proc EXCEPT ![s] = l]
  PROVE  OwnInv'
<1>1. proc'[s] = l /\ \A t \in Sessions : t # s => proc'[t] = proc[t]
  BY DEF Inv, TypeOK
<1>2. PicturesDiffer'
  BY DEF OwnInv, PicturesDiffer
<1>3. OldIsOwn'
  <2> SUFFICES ASSUME NEW t \in Sessions, NEW p \in Owners, Reads(proc'[t]), p # proc'[t].owner
               PROVE  picture[p] # proc'[t].old
    BY DEF OldIsOwn, Reads, Updating, Replacing
  <2>1. CASE t = s
    BY <1>1, <2>1 DEF OwnInv, PicturesDiffer, Reads
  <2>2. CASE t # s
    BY <1>1, <2>2 DEF OwnInv, OldIsOwn
  <2> QED
    BY <2>1, <2>2
<1>4. OldsDiffer'
  <2> SUFFICES ASSUME NEW t \in Sessions, NEW u \in Sessions, Reads(proc'[t]), Reads(proc'[u]),
                      proc'[u].owner # proc'[t].owner
               PROVE  proc'[u].old # proc'[t].old
    BY DEF OldsDiffer, Reads, Updating, Replacing
  <2>1. CASE t # s /\ u # s
    BY <1>1, <2>1 DEF OwnInv, OldsDiffer
  <2>2. CASE t = s /\ u # s
    BY <1>1, <2>2 DEF OwnInv, OldIsOwn
  <2>3. CASE t # s /\ u = s
    BY <1>1, <2>3 DEF OwnInv, OldIsOwn
  <2> QED
    BY <1>1, <2>1, <2>2, <2>3
<1> QED
  BY <1>2, <1>3, <1>4 DEF OwnInv

\* The owner of an update gets a file that no other owner has, and no other's update has read.
LEMMA OwnWrite ==
  ASSUME Inv, OwnInv, NEW s \in Sessions, NEW o \in Owners, NEW f \in Files \cup {None},
         picture' = [picture EXCEPT ![o] = f], proc' = [proc EXCEPT ![s] = Idle],
         f # None => \A p \in Owners : p # o => picture[p] # f,
         f # None => \A t \in Sessions : Reads(proc[t]) /\ proc[t].owner # o => proc[t].old # f
  PROVE  OwnInv'
<1>1. \A p \in Owners : picture'[p] = IF p = o THEN f ELSE picture[p]
  BY DEF Inv, TypeOK
<1>2. PicturesDiffer'
  BY <1>1 DEF OwnInv, PicturesDiffer
<1>3. \A t \in Sessions : Reads(proc'[t]) => t # s /\ proc'[t] = proc[t]
  BY IdleOK DEF Reads, Updating, Idle, Inv, TypeOK
<1>4. OldIsOwn'
  <2> SUFFICES ASSUME NEW t \in Sessions, NEW p \in Owners, Reads(proc'[t]), p # proc'[t].owner
               PROVE  picture'[p] # proc'[t].old
    BY DEF OldIsOwn, Reads, Updating, Replacing
  <2>1. proc'[t] = proc[t] /\ Reads(proc[t]) /\ proc[t].old # None
    BY <1>3 DEF Reads
  <2>2. CASE p = o
    BY <1>1, <2>1, <2>2
  <2>3. CASE p # o
    BY <1>1, <2>1, <2>3 DEF OwnInv, OldIsOwn
  <2> QED
    BY <2>2, <2>3
<1>5. OldsDiffer'
  BY <1>3 DEF OwnInv, OldsDiffer, Reads, Updating, Replacing
<1> QED
  BY <1>2, <1>4, <1>5 DEF OwnInv

\* Files that are not of the picture's owner, for the two updates that write one.
LEMMA SaveOwn == ASSUME Inv, OwnInv, NEW s \in Sessions, Save(s) PROVE OwnInv'
<1>1. proc[s] \in Locals /\ LocalOK(proc[s]) /\ Private(proc[s]) /\ proc[s].at = "save"
  BY Known DEF Save
<1>2. PICK n \in Files, o \in Owners : n = proc[s].new /\ o = proc[s].owner /\ Replacing(proc[s])
  BY <1>1 DEF LocalOK, Replacing, Inserted, Locals
<1>3. picture' = [picture EXCEPT ![o] = n] /\ proc' = [proc EXCEPT ![s] = Idle]
  BY <1>2 DEF Save, Finish
<1>4. \A t \in Sessions : Reads(proc[t]) => proc[t].old # n
  BY <1>2, OldIsNotNew DEF Reads
<1>5. \A p \in Owners : picture[p] # n
  BY <1>1, <1>2 DEF Private
<1> QED
  BY <1>3, <1>4, <1>5, OwnWrite

LEMMA WriteBackOwn == ASSUME Inv, OwnInv, NEW s \in Sessions, WriteBack(s) PROVE OwnInv'
<1>1. proc[s] \in Locals /\ LocalOK(proc[s]) /\ proc[s].at = "write" /\ Updating(proc[s])
  BY Known DEF WriteBack, Updating
<1>2. PICK old \in Files \cup {None}, o \in Owners : old = proc[s].old /\ o = proc[s].owner
  BY <1>1 DEF LocalOK, Locals
<1>3. picture' = [picture EXCEPT ![o] = old] /\ proc' = [proc EXCEPT ![s] = Idle]
  BY <1>2 DEF WriteBack, Finish
<1>4. old # None => \A t \in Sessions : Reads(proc[t]) /\ proc[t].owner # o => proc[t].old # old
  BY <1>1, <1>2 DEF OwnInv, OldsDiffer, Reads
<1>5. old # None => \A p \in Owners : p # o => picture[p] # old
  BY <1>1, <1>2 DEF OwnInv, OldIsOwn, Reads
<1> QED
  BY <1>3, <1>4, <1>5, OwnWrite

\* A request goes on to another step.
LEMMA GoesOn ==
  ASSUME Inv, NEW s \in Sessions, NEW step, Goto(s, step),
         step \in Uploading \cup Inserted \cup {"write"} => Updating(proc[s]),
         step \in Inserted => proc[s].at \in Inserted,
         step \in Deleting => proc[s].at \in Deleting
  PROVE  AllOnward /\ AllSameFiles
<1> DEFINE l == [proc[s] EXCEPT !.at = step]
<1>1. l.at = step /\ l.owner = proc[s].owner /\ l.old = proc[s].old /\ l.new = proc[s].new
  BY Known DEF Locals
<1>2. proc' = [proc EXCEPT ![s] = l]
  BY DEF Goto, Inv, TypeOK
<1> HIDE DEF l
<1>3. Onward(proc[s], l) /\ SameFiles(proc[s], l)
  BY <1>1 DEF Onward, SameFiles, Updating, Replacing
<1> QED
  BY <1>2, <1>3, StaysOnward DEF Inv

\* A request is begun or ends with nothing of an update.
LEMMA Ordinary ==
  ASSUME Inv, NEW s \in Sessions, NEW l, proc' = [proc EXCEPT ![s] = l],
         l.at \in {"idle", "exists", "image", "remove"}
  PROVE  AllOnward /\ (l.at # "remove" => AllSameFiles)
<1>1. Onward(proc[s], l) /\ (l.at # "remove" => SameFiles(proc[s], l))
  BY DEF Onward, SameFiles, Updating, Replacing, Uploading, Inserted, Deleting
<1> QED
  BY <1>1, StaysOnward DEF Inv

\* The steps that matter to pictures and deletions.
Quiet == UNCHANGED <<file, picture, requested, rewritten>> /\ AllOnward /\ AllSameFiles
LEMMA StepKinds ==
  ASSUME Inv, [Next]_vars
  PROVE  \/ Quiet
         \/ CreateUploadIntent
         \/ \E s \in Sessions : MarkStatus(s) \/ SoftDeleteById(s) \/ InsertFile(s) \/ Save(s) \/ WriteBack(s)
         \/ \E s \in Sessions, f \in Files : Delete(s, f)
         \/ \E s \in Sessions, o \in Owners : Replace(s, o) \/ Rename(s, o)
<1>1. ASSUME NEW s \in Sessions, NEW f \in Files, Confirm(s, f) \/ AssertFileReady(s, f) PROVE Quiet
  <2>1. PICK l : proc' = [proc EXCEPT ![s] = l] /\ l.at \in {"exists", "image"}
    <3> DEFINE k == [Idle EXCEPT !.op = "confirm", !.at = "exists", !.old = f]
               m == [Idle EXCEPT !.op = "attach", !.at = "image", !.new = f]
    <3>1. k.at = "exists" /\ m.at = "image"
      BY DEF Idle
    <3>2. proc' = [proc EXCEPT ![s] = k] \/ proc' = [proc EXCEPT ![s] = m]
      BY <1>1 DEF Confirm, AssertFileReady, Start, Become
    <3> HIDE DEF k, m
    <3> QED
      BY <3>1, <3>2
  <2> QED
    BY <1>1, <2>1, Ordinary DEF Quiet, Confirm, AssertFileReady
<1>2. ASSUME NEW s \in Sessions, AddImage(s) \/ Throw(s) PROVE Quiet
  <2>1. proc' = [proc EXCEPT ![s] = Idle] /\ Idle.at = "idle"
    BY <1>2 DEF AddImage, Throw, Finish, Idle
  <2> QED
    BY <1>2, <2>1, Ordinary DEF Quiet, AddImage, Throw
<1>3. ASSUME NEW s \in Sessions, HeadObject(s) \/ Remove(s) \/ UploadObject(s) \/ Begin(s) \/ RemoveOld(s)
      PROVE  Quiet
  <2>1. PICK step : /\ Goto(s, step)
                    /\ \/ step \in {"markReady", "markFailed"}
                       \/ step = "row" /\ proc[s].at = "remove"
                       \/ step = "insert" /\ proc[s].at = "upload"
                       \/ step \in {"save", "find"} /\ proc[s].at \in {"begin", "removeOld"}
    BY <1>3 DEF HeadObject, Remove, UploadObject, Begin, RemoveOld
  <2>2. AllOnward /\ AllSameFiles
    BY <2>1, GoesOn DEF Uploading, Inserted, Deleting, Updating, Replacing
  <2> QED
    BY <1>3, <2>2 DEF Quiet, HeadObject, Remove, UploadObject, Begin, RemoveOld
<1>4. ASSUME NEW s \in Sessions, FindOld(s) PROVE Quiet
  <2>1. CASE Goto(s, "removeOld")
    BY <1>4, <2>1, GoesOn DEF FindOld, Quiet, Uploading, Inserted, Deleting, Updating, Replacing
  <2>2. CASE KeepOld(s)
    <3> DEFINE l == [proc[s] EXCEPT !.at = "save", !.old = None]
    <3>1. l.at = "save" /\ l.owner = proc[s].owner /\ l.old = None /\ l.new = proc[s].new
      BY Known DEF Locals
    <3>2. proc' = [proc EXCEPT ![s] = l]
      BY <2>2 DEF KeepOld, Become
    <3> HIDE DEF l
    <3>3. Onward(proc[s], l) /\ SameFiles(proc[s], l)
      BY <1>4, <3>1 DEF FindOld, Onward, SameFiles, Updating, Replacing, Uploading, Inserted, Deleting
    <3> QED
      BY <1>4, <3>2, <3>3, StaysOnward DEF Inv, Quiet, FindOld
  <2> QED
    BY <1>4, <2>1, <2>2 DEF FindOld
<1>5. ASSUME NEW f \in Files, Put(f) PROVE Quiet
  BY <1>5, StaysOnward DEF Put, Quiet, AllOnward, AllSameFiles, Inv
<1>6. CASE Crash
  <2>1. \A t \in Sessions : proc'[t] = Idle
    BY <1>6 DEF Crash
  <2> QED
    BY <1>6, <2>1, StaysOnward DEF Crash, Quiet, AllOnward, AllSameFiles, Inv
<1>7. CASE UNCHANGED vars
  BY <1>7, StaysOnward DEF vars, Quiet, AllOnward, AllSameFiles, Inv
<1> QED
  BY <1>1, <1>2, <1>3, <1>4, <1>5, <1>6, <1>7 DEF Next, Requests, Continue

\* The files of two owners stay different.
LEMMA OwnStep == ASSUME Inv, OwnInv, [Next]_vars PROVE OwnInv'
<1>1. CASE Quiet
  BY <1>1, OwnQuiet DEF Quiet
<1>2. CASE CreateUploadIntent
  BY <1>2, OwnQuiet, StaysOnward DEF CreateUploadIntent, AllOnward, Inv
<1>3. ASSUME NEW s \in Sessions, MarkStatus(s) \/ SoftDeleteById(s) PROVE OwnInv'
  <2>1. proc' = [proc EXCEPT ![s] = Idle] /\ UNCHANGED picture /\ Idle.at = "idle"
    BY <1>3 DEF MarkStatus, SoftDeleteById, Finish, Idle
  <2> QED
    BY <2>1, Ordinary, OwnQuiet
<1>4. ASSUME NEW s \in Sessions, InsertFile(s) PROVE OwnInv'
  <2> DEFINE l == [proc[s] EXCEPT !.at = "begin"]
  <2>1. l.at = "begin" /\ l.owner = proc[s].owner /\ l.old = proc[s].old
    BY Known DEF Locals
  <2>2. proc' = [proc EXCEPT ![s] = l] /\ UNCHANGED picture /\ proc[s].at = "insert"
    BY <1>4 DEF InsertFile, Goto, Inv, TypeOK
  <2> HIDE DEF l
  <2>3. Onward(proc[s], l)
    BY <2>1, <2>2 DEF Onward, Updating, Replacing, Uploading
  <2> QED
    BY <2>2, <2>3, StaysOnward, OwnQuiet DEF Inv
<1>5. ASSUME NEW s \in Sessions, NEW f \in Files, Delete(s, f) PROVE OwnInv'
  <2> DEFINE l == [Idle EXCEPT !.op = "delete", !.at = "remove", !.old = f]
  <2>1. proc' = [proc EXCEPT ![s] = l] /\ l.at = "remove"
    BY <1>5 DEF Delete, Start, Become, Idle
  <2> HIDE DEF l
  <2> QED
    BY <1>5, <2>1, Ordinary, OwnQuiet DEF Delete
<1>6. ASSUME NEW s \in Sessions, NEW o \in Owners, Replace(s, o) \/ Rename(s, o) PROVE OwnInv'
  <2>1. PICK l : proc' = [proc EXCEPT ![s] = l] /\ l.owner = o /\ l.old = picture[o]
    <3> DEFINE m == [op |-> "rename", at |-> "write", owner |-> o, old |-> picture[o], new |-> None]
               k(f) == [op |-> "replace", at |-> "upload", owner |-> o, old |-> picture[o], new |-> f]
    <3>1. m.owner = o /\ m.old = picture[o] /\ \A f : k(f).owner = o /\ k(f).old = picture[o]
      OBVIOUS
    <3>2. proc' = [proc EXCEPT ![s] = m] \/ \E f \in Files : proc' = [proc EXCEPT ![s] = k(f)]
      BY <1>6 DEF Replace, Rename, Start, Become
    <3> HIDE DEF m, k
    <3> QED
      BY <3>1, <3>2
  <2> QED
    BY <1>6, <2>1, OwnRead DEF Replace, Rename
<1> QED
  BY <1>1, <1>2, <1>3, <1>4, <1>5, <1>6, StepKinds, SaveOwn, WriteBackOwn

-----------------------------------------------------------------------------
(* Pictures that are deleted files *)

\* No file is deleted but one that a client asked for, and no new file of a replacement is.
LEMMA LiveQuiet ==
  ASSUME Inv, LiveInv, UNCHANGED <<picture, rewritten>>, requested \subseteq requested',
         \A f \in Files : Exists(f) /\ file'[f].deleted => file[f].deleted \/ f \in requested',
         \A t \in Sessions : proc'[t].at \in Inserted =>
             \/ proc[t].at \in Inserted /\ proc'[t].new = proc[t].new
             \/ ~file'[proc'[t].new].deleted,
         \A t \in Sessions : proc'[t].at \in Deleting => proc'[t].old \in requested'
  PROVE  LiveInv'
<1>1. AskedFor'
  BY DEF AskedFor
<1>2. NewIsLive'
  <2> SUFFICES ASSUME NEW t \in Sessions, proc'[t].at \in Inserted, file'[proc'[t].new].deleted
               PROVE  proc'[t].new \in requested'
    BY DEF NewIsLive
  <2>1. proc[t].at \in Inserted /\ proc'[t].new = proc[t].new
    OBVIOUS
  <2>2. proc[t].new \in Files /\ Exists(proc[t].new)
    BY <2>1, Known DEF LocalOK, Replacing, Locals
  <2>3. file[proc[t].new].deleted \/ proc[t].new \in requested'
    BY <2>1, <2>2
  <2> QED
    BY <2>1, <2>3 DEF LiveInv, NewIsLive
<1>3. PictureIsLive'
  <2> SUFFICES ASSUME NEW o \in Owners, picture[o] # None, file'[picture[o]].deleted
               PROVE  picture[o] \in requested' \/ o \in rewritten
    BY DEF PictureIsLive
  <2>1. picture[o] \in Files /\ Exists(picture[o])
    BY DEF Inv, TypeOK, PictureExists
  <2>2. file[picture[o]].deleted \/ picture[o] \in requested'
    BY <2>1
  <2> QED
    BY <2>2 DEF LiveInv, PictureIsLive
<1> QED
  BY <1>1, <1>2, <1>3 DEF LiveInv

\* ... by a request that ends, when the rest of the tables is as it was.
LEMMA LiveFinish ==
  ASSUME Inv, LiveInv, NEW s \in Sessions, proc' = [proc EXCEPT ![s] = Idle],
         UNCHANGED <<picture, requested, rewritten>>,
         \A f \in Files : Exists(f) /\ file'[f].deleted => file[f].deleted \/ f \in requested
  PROVE  LiveInv'
<1>1. AllSameFiles
  BY StaysOnward DEF Inv
<1>2. \A t \in Sessions : proc'[t].at \in Inserted => proc[t].at \in Inserted /\ proc'[t].new = proc[t].new
  BY <1>1 DEF AllSameFiles, SameFiles
<1>3. \A t \in Sessions : proc'[t].at \in Deleting => proc'[t].old \in requested'
  BY <1>1 DEF AllSameFiles, SameFiles, LiveInv, AskedFor
<1>4. requested \subseteq requested'
  OBVIOUS
<1> QED
  BY <1>2, <1>3, <1>4, LiveQuiet

\* A replacement deletes its owner's old file, and gives the owner one that only a client can delete.
LEMMA SaveLive == ASSUME Inv, OwnInv, LiveInv, NEW s \in Sessions, Save(s) PROVE LiveInv'
<1>1. proc[s] \in Locals /\ LocalOK(proc[s]) /\ Private(proc[s]) /\ proc[s].at = "save"
  BY Known DEF Save
<1>2. PICK n \in Files, o \in Owners : n = proc[s].new /\ o = proc[s].owner /\ Replacing(proc[s])
  BY <1>1 DEF LocalOK, Replacing, Inserted, Locals
<1>3. PICK old \in Files \cup {None} : old = proc[s].old /\ (old # None => Exists(old)) /\ old # n
  BY <1>1, <1>2 DEF Locals, LocalOK
<1>4. /\ file' = FilesAfter(s) /\ proc' = [proc EXCEPT ![s] = Idle] /\ picture' = [picture EXCEPT ![o] = n]
      /\ requested' = requested /\ rewritten' = rewritten \ {o}
  BY <1>2 DEF Save, Finish
<1>5. \A f \in Files : f # old => file'[f] = file[f]
  <2>1. CASE old = None
    BY <1>3, <1>4, <2>1 DEF FilesAfter
  <2>2. CASE old # None
    BY <1>3, <1>4, <2>2, RowDeleted DEF FilesAfter, Inv
  <2> QED
    BY <2>1, <2>2
<1>6. \A t \in Sessions : SameFiles(proc[t], proc'[t])
  BY <1>4, StaysOnward DEF Inv, AllSameFiles
<1>7. AskedFor'
  BY <1>4, <1>6 DEF LiveInv, AskedFor, SameFiles
<1>8. NewIsLive'
  <2> SUFFICES ASSUME NEW t \in Sessions, proc'[t].at \in Inserted, file'[proc'[t].new].deleted
               PROVE  proc'[t].new \in requested
    BY <1>4 DEF NewIsLive
  <2>1. proc[t].at \in Inserted /\ proc'[t].new = proc[t].new
    BY <1>6 DEF SameFiles
  <2>2. proc[t].new \in Files /\ proc[t].new # old
    BY <2>1, <1>2, <1>3, Known, OldIsNotNew DEF LocalOK, Replacing, Updating, Locals
  <2>3. file[proc[t].new].deleted
    BY <1>5, <2>1, <2>2
  <2> QED
    BY <2>1, <2>3 DEF LiveInv, NewIsLive
<1>9. PictureIsLive'
  <2> SUFFICES ASSUME NEW p \in Owners, picture'[p] # None, file'[picture'[p]].deleted
               PROVE  picture'[p] \in requested \/ p \in rewritten'
    BY <1>4 DEF PictureIsLive
  <2>1. CASE p = o
    <3>1. picture'[p] = n /\ file'[n] = file[n]
      BY <1>3, <1>4, <1>5, <2>1 DEF Inv, TypeOK
    <3>2. file[n].deleted => n \in requested
      BY <1>1, <1>2 DEF LiveInv, NewIsLive, Inserted
    <3> QED
      BY <3>1, <3>2
  <2>2. CASE p # o
    <3>1. picture'[p] = picture[p] /\ picture[p] \in Files
      BY <1>4, <2>2 DEF Inv, TypeOK
    <3>2. picture[p] # old
      BY <1>2, <1>3, <2>2, <3>1, NoneAssumption DEF OwnInv, OldIsOwn, Reads, Updating
    <3>3. file[picture[p]].deleted
      BY <1>5, <3>1, <3>2
    <3> QED
      BY <1>4, <2>2, <3>1, <3>3 DEF LiveInv, PictureIsLive
  <2> QED
    BY <2>1, <2>2
<1> QED
  BY <1>7, <1>8, <1>9 DEF LiveInv

\* An update without a logo leaves the picture, or is remembered.
LEMMA WriteBackLive == ASSUME Inv, LiveInv, NEW s \in Sessions, WriteBack(s) PROVE LiveInv'
<1>1. /\ proc' = [proc EXCEPT ![s] = Idle] /\ UNCHANGED <<file, requested>>
      /\ rewritten' = rewritten \cup {o \in Owners : picture'[o] # picture[o]}
  BY DEF WriteBack, Finish
<1>2. AllSameFiles
  BY <1>1, StaysOnward DEF Inv
<1>3. AskedFor' /\ NewIsLive'
  BY <1>1, <1>2 DEF LiveInv, AskedFor, NewIsLive, AllSameFiles, SameFiles
<1>4. PictureIsLive'
  BY <1>1 DEF LiveInv, PictureIsLive
<1> QED
  BY <1>3, <1>4 DEF LiveInv

LEMMA LiveStep == ASSUME Inv, OwnInv, LiveInv, [Next]_vars PROVE LiveInv'
<1>1. CASE Quiet
  <2>1. /\ UNCHANGED <<file, picture, requested, rewritten>>
        /\ \A t \in Sessions : SameFiles(proc[t], proc'[t])
    BY <1>1 DEF Quiet, AllSameFiles
  <2>2. AskedFor' /\ NewIsLive' /\ PictureIsLive'
    BY <2>1 DEF LiveInv, AskedFor, NewIsLive, PictureIsLive, SameFiles
  <2> QED
    BY <2>2 DEF LiveInv
<1>2. CASE CreateUploadIntent
  <2>1. PICK f \in Files : FirstFree(f) /\ file' = [file EXCEPT ![f] = [status |-> "pending", deleted |-> FALSE]]
    BY <1>2 DEF CreateUploadIntent
  <2>2. UNCHANGED <<picture, proc, requested, rewritten>>
    BY <1>2 DEF CreateUploadIntent
  <2>3. \A g \in Files : Exists(g) => file'[g] = file[g]
    BY <2>1 DEF FirstFree, Taken, Inv, TypeOK
  <2> QED
    BY <2>2, <2>3, LiveQuiet DEF LiveInv, AskedFor
<1>3. ASSUME NEW s \in Sessions, MarkStatus(s) PROVE LiveInv'
  <2>1. PICK f \in Files : f = proc[s].old /\ Exists(f)
    BY <1>3, Known DEF MarkStatus, LocalOK, NeedsOld, Locals
  <2>2. /\ file' = [file EXCEPT ![f].status = StatusFor(s)] /\ proc' = [proc EXCEPT ![s] = Idle]
        /\ UNCHANGED <<picture, requested, rewritten>>
    BY <1>3, <2>1 DEF MarkStatus, Finish
  <2>3. file[f] \in FileRows
    BY <2>1, RowsExist DEF Inv
  <2>4. \A g \in Files : Exists(g) /\ file'[g].deleted => file[g].deleted
    BY <2>2, <2>3 DEF Inv, TypeOK, FileRows
  <2> QED
    BY <2>2, <2>4, LiveFinish
<1>4. ASSUME NEW s \in Sessions, SoftDeleteById(s) PROVE LiveInv'
  <2>1. PICK f \in Files : f = proc[s].old /\ Exists(f) /\ f \in requested
    BY <1>4, Known DEF SoftDeleteById, LocalOK, NeedsOld, Locals, LiveInv, AskedFor, Deleting
  <2>2. /\ file' = SetDeleted(f) /\ proc' = [proc EXCEPT ![s] = Idle]
        /\ UNCHANGED <<picture, requested, rewritten>>
    BY <1>4, <2>1 DEF SoftDeleteById, Finish
  <2>3. \A g \in Files : g # f => file'[g] = file[g]
    BY <2>1, <2>2, RowDeleted DEF Inv
  <2> QED
    BY <2>1, <2>2, <2>3, LiveFinish
<1>5. ASSUME NEW s \in Sessions, InsertFile(s) PROVE LiveInv'
  <2>1. PICK f \in Files : f = proc[s].new /\ ~Exists(f) /\ proc[s].at = "insert"
    BY <1>5, Known DEF InsertFile, LocalOK, Replacing, Uploading, Locals
  <2>2. PICK row \in FileRows : row = [status |-> "ready", deleted |-> FALSE]
    BY DEF FileRows, Statuses
  <2>3. /\ file' = [file EXCEPT ![f] = row] /\ proc' = [proc EXCEPT ![s].at = "begin"]
        /\ UNCHANGED <<picture, requested, rewritten>>
    BY <1>5, <2>1, <2>2 DEF InsertFile, Goto
  <2>4. file'[f] = row /\ \A g \in Files : g # f => file'[g] = file[g]
    BY <2>3, RowWritten DEF Inv
  <2>5. proc'[s].new = f /\ proc'[s].at = "begin" /\ \A t \in Sessions : t # s => proc'[t] = proc[t]
    BY <2>1, <2>3, Known DEF Inv, TypeOK, Locals
  <2>6. ~file'[f].deleted
    BY <2>2, <2>4
  <2>7. \A g \in Files : Exists(g) => g # f
    BY <2>1
  <2>8. \A t \in Sessions : proc'[t].at \in Inserted =>
            \/ proc[t].at \in Inserted /\ proc'[t].new = proc[t].new
            \/ ~file'[proc'[t].new].deleted
    BY <2>5, <2>6
  <2>9. \A t \in Sessions : proc'[t].at \in Deleting => proc'[t].old \in requested'
    BY <2>3, <2>5 DEF Deleting, LiveInv, AskedFor
  <2> QED
    BY <2>3, <2>4, <2>7, <2>8, <2>9, LiveQuiet
<1>6. ASSUME NEW s \in Sessions, NEW f \in Files, Delete(s, f) PROVE LiveInv'
  <2> DEFINE l == [Idle EXCEPT !.op = "delete", !.at = "remove", !.old = f]
  <2>1. /\ proc' = [proc EXCEPT ![s] = l] /\ requested' = requested \cup {f}
        /\ UNCHANGED <<file, picture, rewritten>> /\ l.at = "remove" /\ l.old = f
    BY <1>6 DEF Delete, Start, Become, Idle
  <2> HIDE DEF l
  <2>2. proc'[s] = l /\ \A t \in Sessions : t # s => proc'[t] = proc[t]
    BY <2>1 DEF Inv, TypeOK
  <2>3. \A t \in Sessions : proc'[t].at \in Deleting => proc'[t].old \in requested'
    BY <2>1, <2>2 DEF LiveInv, AskedFor
  <2>4. \A t \in Sessions : proc'[t].at \in Inserted => proc[t].at \in Inserted /\ proc'[t].new = proc[t].new
    BY <2>1, <2>2 DEF Inserted
  <2> QED
    BY <2>1, <2>3, <2>4, LiveQuiet
<1>7. ASSUME NEW s \in Sessions, NEW o \in Owners, Replace(s, o) \/ Rename(s, o) PROVE LiveInv'
  <2>1. PICK l : proc' = [proc EXCEPT ![s] = l] /\ l.at \in {"upload", "write"}
    <3> DEFINE m == [op |-> "rename", at |-> "write", owner |-> o, old |-> picture[o], new |-> None]
               k(f) == [op |-> "replace", at |-> "upload", owner |-> o, old |-> picture[o], new |-> f]
    <3>1. m.at = "write" /\ \A f : k(f).at = "upload"
      OBVIOUS
    <3>2. proc' = [proc EXCEPT ![s] = m] \/ \E f \in Files : proc' = [proc EXCEPT ![s] = k(f)]
      BY <1>7 DEF Replace, Rename, Start, Become
    <3> HIDE DEF m, k
    <3> QED
      BY <3>1, <3>2
  <2>2. proc'[s].at \notin Inserted \cup Deleting /\ \A t \in Sessions : t # s => proc'[t] = proc[t]
    BY <2>1 DEF Inv, TypeOK, Inserted, Deleting
  <2>3. UNCHANGED <<file, picture, requested, rewritten>>
    BY <1>7 DEF Replace, Rename
  <2>4. \A t \in Sessions : proc'[t].at \in Deleting => proc'[t].old \in requested'
    BY <2>2, <2>3 DEF LiveInv, AskedFor
  <2>5. \A t \in Sessions : proc'[t].at \in Inserted => proc[t].at \in Inserted /\ proc'[t].new = proc[t].new
    BY <2>2
  <2> QED
    BY <2>3, <2>4, <2>5, LiveQuiet
<1> QED
  BY <1>1, <1>2, <1>3, <1>4, <1>5, <1>6, <1>7, StepKinds, SaveLive, WriteBackLive

\* The picture of a user or store is never a file that somebody else's update has deleted: two updates
\* of one owner delete what they read and keep what they bring, in any order of their reads and COMMITs.
THEOREM PicturesAreLive == Spec => []PictureIsLive
<1>1. Init => OwnInv /\ LiveInv
  <2> SUFFICES ASSUME Init PROVE OwnInv /\ LiveInv
    OBVIOUS
  <2>1. \A s \in Sessions : proc[s] = Idle
    BY DEF Init
  <2>2. OldIsOwn /\ OldsDiffer /\ AskedFor /\ NewIsLive
    BY <2>1 DEF OldIsOwn, OldsDiffer, Reads, Updating, Replacing, Uploading, AskedFor, NewIsLive, Inserted, Deleting, Idle
  <2>3. PicturesDiffer
    BY OwnersAssumption DEF Init, PicturesDiffer
  <2>4. PictureIsLive
    <3> SUFFICES ASSUME NEW o \in Owners, picture[o] # None PROVE ~file[picture[o]].deleted
      BY DEF PictureIsLive
    <3>1. picture[o] \in object /\ picture[o] \in Files
      BY OwnersAssumption DEF Init
    <3>2. file[picture[o]] = [status |-> "ready", deleted |-> FALSE]
      BY <3>1 DEF Init
    <3> QED
      BY <3>2
  <2> QED
    BY <2>2, <2>3, <2>4 DEF OwnInv, LiveInv
<1>2. Inv /\ OwnInv /\ LiveInv /\ [Next]_vars => OwnInv' /\ LiveInv'
  BY OwnStep, LiveStep
<1>3. LiveInv => PictureIsLive
  BY DEF LiveInv
<1> QED
  BY <1>1, <1>2, <1>3, Invariance, PTL DEF Spec
=============================================================================
