---------------------------- MODULE ManifestSync ----------------------------
(***************************************************************************)
(* The sidecar of a gallery, .cosplay.json, and its database: checking,    *)
(* pushing, pulling and resolving it, alone or in a batch.  Each of these  *)
(* is a sequence of queries and file operations that nothing holds         *)
(* together; the owner edits either side meanwhile, scans and the          *)
(* lifecycle of entities change the database without a new revision, the   *)
(* process may crash, and a backup may be restored.                        *)
(*                                                                         *)
(* A snapshot gives each field its value.  Of a document the manifest's    *)
(* revision and the fields count, not the time in it; its hash is the      *)
(* document itself.                                                        *)
(***************************************************************************)
EXTENDS Naturals

CONSTANTS
  Field, Value,
  Unset,       \* a document leaves the field out
  Missing, Broken, \* no file; bytes that are no manifest of this gallery
  NoRow,       \* the gallery has no row in gallery_manifest_sync
  Caller,      \* requests and the scheduled inspection
  MaxCalls,    \* bound: calls
  Mishaps,     \* kinds of what befalls the calls: see Suffer
  MaxChanges   \* bound: edits of either side, and mishaps

Snapshot == [Field -> Value]
Filled == [Field -> Value \cup {Unset}]
Document == [version : Nat, val : Filled]
File == Document \cup {Missing, Broken}
Status == {"CLEAN", "DB_DIRTY", "FILE_DIRTY", "CONFLICT", "MISSING", "ERROR"}
Row == [status : Status, version : Nat, doc : Document, base : Snapshot, baseRevision : Nat]

ASSUME SyncAssumption ==
  /\ Unset \notin Value
  /\ Missing # Broken /\ {Missing, Broken} \cap Document = {} /\ NoRow \notin Row
  /\ MaxCalls \in Nat /\ MaxChanges \in Nat

VARIABLES
  content, revision, \* the gallery: its business snapshot, metadata_revision
  sync,        \* its row of gallery_manifest_sync
  sidecar, bak, \* the file and the one that the last push set aside
  call,        \* what each caller does and what it has read so far
  unnoticed,   \* history: the content may differ from the baseline at one revision
  backup,      \* what a backup has of the database
  calls, changes \* calls, edits and mishaps so far

gallery == <<content, revision>>
onDisk == <<sidecar, bak>>
budget == <<calls, changes>>
syncVars == <<gallery, sync, onDisk, call, unnoticed, backup, budget>>

Kinds == {"check", "push", "batch", "pull", "resolve"}
Pushing == {"push", "batchPush", "overwrite"}
Pulling == {"pull", "resolve"}
Places == {"idle", "admit", "load", "read", "decide", "persist", "compare",
           "acknowledge", "agree", "confirm", "snapshot", "recheck", "write", "aside", "replace",
           "create", "store", "apply", "reread", "settle"}
Calling == [at : Places, kind : Kinds \cup Pushing, revision : Nat, shown : File,
            row : Row \cup {NoRow}, doc : File, status : Status \cup {"NONE"},
            snap : Filled, merged : Filled, overtaken : BOOLEAN]

SyncTypeOK ==
  /\ content \in Snapshot /\ revision \in Nat
  /\ sync \in Row \cup {NoRow}
  /\ sidecar \in File /\ bak \in File
  /\ call \in [Caller -> Calling] /\ unnoticed \in BOOLEAN
  /\ backup \in [content : Snapshot, revision : Nat, sync : Row \cup {NoRow}]
  /\ calls \in 0..MaxCalls /\ changes \in 0..MaxChanges

Blank == [f \in Field |-> Unset]
Idle == [at |-> "idle", kind |-> "check", revision |-> 0, shown |-> Missing,
         row |-> NoRow, doc |-> Missing, status |-> "NONE",
         snap |-> Blank, merged |-> Blank, overtaken |-> FALSE]
Synced(c, n) ==
  [status |-> "CLEAN", version |-> 1, doc |-> [version |-> 1, val |-> c], base |-> c,
   baseRevision |-> n]

(* A gallery that was pushed once, has no sidecar yet, or came with one. *)
SyncInit ==
  /\ content \in Snapshot /\ revision = 1
  /\ \/ sync = Synced(content, 1) /\ sidecar = sync.doc
     \/ sync = NoRow /\ sidecar \in {Missing} \cup [version : {1}, val : Snapshot]
  /\ bak = Missing
  /\ backup = [content |-> content, revision |-> 1, sync |-> sync]
  /\ call = [c \in Caller |-> Idle] /\ unnoticed = FALSE
  /\ calls = 0 /\ changes = 0

Turns(c, fields) == call' = [call EXCEPT ![c] = fields]
GoesTo(c, place) == call' = [call EXCEPT ![c].at = place]
Ends(c) == Turns(c, Idle)
Happens == changes < MaxChanges /\ changes' = changes + 1
Suffer(k) == k \in Mishaps /\ Happens

-----------------------------------------------------------------------------
(* The merge. *)

(* overlayGalleryDocument: what the document leaves out is as in the baseline. *)
Overlay(base, doc) ==
  [f \in Field |-> IF doc.val[f] = Unset THEN base[f] ELSE doc.val[f]]

Conflicting(base, db, file) == {f \in Field : db[f] # file[f] /\ db[f] # base[f] /\ file[f] # base[f]}

(* ThreeWayMerge, and ResolveThreeWay where the file is chosen. *)
Merge(base, db, file, chosen) ==
  [f \in Field |-> IF db[f] = base[f] \/ f \in chosen THEN file[f] ELSE db[f]]

-----------------------------------------------------------------------------
(* Calls. *)

(* FileHash of a check: an absent or unusable file leaves the stored one. *)
HashOf(row, doc) ==
  IF doc \notin {Missing, Broken} THEN doc ELSE IF row = NoRow THEN Missing ELSE row.doc

(* The revision that a page was shown, and of a batch the hash.  A call that  *)
(* finds another revision changes nothing, but for the check of an item of a  *)
(* batch, which is then all that is left of it; and so here it never starts.  *)
Enter(c) ==
  /\ call[c].at = "idle" /\ calls < MaxCalls /\ calls' = calls + 1
  /\ \E k \in Kinds :
       Turns(c, IF k = "check" THEN [Idle EXCEPT !.at = "load"]
                ELSE [Idle EXCEPT !.kind = k, !.revision = revision,
                                  !.at = IF k \in Pulling THEN "read" ELSE "load",
                                  !.shown = IF k = "batch" THEN HashOf(sync, sidecar) ELSE Missing])
  /\ UNCHANGED <<gallery, sync, onDisk, unnoticed, backup, changes>>

(* What only the caller itself sees. *)
Private == UNCHANGED <<gallery, sync, onDisk, unnoticed, backup, budget>>

(* A push of a batch: the revision is still the one that was shown. *)
Recognise(c) ==
  /\ call[c].at = "admit"
  /\ IF revision = call[c].revision THEN GoesTo(c, "load") ELSE Ends(c)
  /\ Private

(* loadGalleryManifestState *)
Load(c) ==
  /\ call[c].at = "load"
  /\ Turns(c, [call[c] EXCEPT !.row = sync, !.at = IF call[c].kind \in Pulling THEN "snapshot" ELSE "read"])
  /\ Private

(* The file, by a check: what settles its status at once, and what does not.  *)
(* The item of a batch goes on with a hash that is the one that was shown.    *)
Unusable(c) ==
  IF call[c].row = NoRow
    THEN IF sidecar = Missing THEN "NONE" ELSE IF sidecar = Broken THEN "ERROR" ELSE "FILE_DIRTY"
    ELSE IF sidecar = Missing THEN "MISSING" ELSE "ERROR"
Checked(c, doc, status) ==
  LET goesOn == call[c].kind = "batch" /\ status # "ERROR" /\ HashOf(call[c].row, doc) = call[c].shown
      known == IF goesOn THEN [call[c] EXCEPT !.row = NoRow, !.doc = Missing, !.status = status]
                         ELSE [Idle EXCEPT !.status = status]
  IN IF call[c].row # NoRow THEN Turns(c, [known EXCEPT !.at = "persist"])
     ELSE IF goesOn THEN Turns(c, [known EXCEPT !.at = "compare"]) ELSE Ends(c)
ReadToCheck(c) ==
  /\ call[c].at = "read" /\ call[c].kind \in {"check", "batch"}
  /\ IF call[c].row # NoRow /\ sidecar \in Document
       THEN Turns(c, [call[c] EXCEPT !.doc = sidecar, !.at = "decide"])
       ELSE Checked(c, sidecar, Unusable(c))
  /\ Private

(* By a push: it may create the file, or replace the one it knows; one that   *)
(* overwrites may replace the one that was shown.  By a pull: any manifest.   *)
MayReplace(c) ==
  CASE call[c].kind = "overwrite" -> sidecar \in Document /\ sidecar = call[c].shown
    [] call[c].kind \in Pulling -> sidecar \in Document
    [] OTHER -> sidecar = Missing \/ (call[c].row # NoRow /\ sidecar = call[c].row.doc)
ReadToChange(c) ==
  /\ call[c].at = "read" /\ call[c].kind \in Pushing \cup Pulling
  /\ IF MayReplace(c)
       THEN Turns(c, IF call[c].kind \in Pulling THEN [call[c] EXCEPT !.doc = sidecar, !.at = "load"]
                     ELSE [call[c] EXCEPT !.at = "snapshot"])
       ELSE Ends(c)
  /\ Private

(* markGalleryManifestDBDirty *)
Marked == IF sync # NoRow /\ sync.status = "CLEAN" THEN [sync EXCEPT !.status = "DB_DIRTY"] ELSE sync

(* checkGallery: the revision tells whether the database has changed, or the  *)
(* mark that was loaded, the hash whether the file has.                       *)
DatabaseChanged(c) == revision # call[c].row.baseRevision \/ call[c].row.status = "DB_DIRTY"
Decide(c) ==
  LET row == call[c].row  doc == call[c].doc IN
  /\ call[c].at = "decide"
  /\ Checked(c, doc,
       IF ~DatabaseChanged(c) THEN IF doc = row.doc THEN "CLEAN" ELSE "FILE_DIRTY"
       ELSE IF doc # row.doc /\ Conflicting(row.base, content, Overlay(row.base, doc)) # {}
         THEN "CONFLICT" ELSE "DB_DIRTY")
  /\ Private

(* persistManifestInspection, of a check and of a pull that meets a conflict. *)
Persist(c) ==
  /\ call[c].at = "persist"
  /\ sync' = IF sync = NoRow THEN NoRow ELSE [sync EXCEPT !.status = call[c].status]
  /\ IF call[c].kind = "batch" THEN GoesTo(c, "compare") ELSE Ends(c)
  /\ UNCHANGED <<gallery, onDisk, unnoticed, backup, budget>>

(* PushGalleryBatchItem after its check: nothing to do, a revision to         *)
(* acknowledge, or a push, which overwrites the file only as it was shown and *)
(* if the owner said so.                                                      *)
Compare(c) ==
  LET status == call[c].status
      changed == sync # NoRow => content # sync.base
      local == IF sync = NoRow THEN status = "FILE_DIRTY"
               ELSE call[c].shown # Missing /\ call[c].shown # sync.doc
      pushes(kind, shown) ==
        Turns(c, [Idle EXCEPT !.at = "admit", !.kind = kind, !.revision = call[c].revision, !.shown = shown])
  IN /\ call[c].at = "compare"
     /\ \/ ~changed /\ ~local /\ status = "DB_DIRTY"
          /\ Turns(c, [call[c] EXCEPT !.at = "acknowledge", !.status = "NONE"])
        \/ ~changed /\ ~local /\ status \notin {"DB_DIRTY", "MISSING"} /\ Ends(c)
        \/ local /\ (Ends(c) \/ (sidecar \in Document /\ (status = "MISSING" => sidecar = Missing)
                                 /\ pushes("overwrite", call[c].shown)))
        \/ ~local /\ (changed \/ status = "MISSING")
          /\ IF status = "MISSING" /\ sidecar # Missing THEN Ends(c) ELSE pushes("batchPush", Missing)
     /\ Private

(* acknowledgeNoContentChange: the row is read, the file and the content are  *)
(* compared with it, and the row is updated if the hash and the revision are  *)
(* what they were.                                                            *)
Acknowledge(c) ==
  /\ call[c].at = "acknowledge"
  /\ IF sync # NoRow /\ sync.doc = call[c].shown
       THEN Turns(c, [call[c] EXCEPT !.at = "agree", !.snap = sync.base, !.overtaken = FALSE])
       ELSE Ends(c)
  /\ Private
Agree(c) ==
  /\ call[c].at = "agree"
  /\ IF sidecar = call[c].shown /\ content = call[c].snap
       THEN Turns(c, [call[c] EXCEPT !.at = "confirm", !.snap = Blank]) ELSE Ends(c)
  /\ Private
Confirm(c) ==
  LET agrees == sync # NoRow /\ sync.doc = call[c].shown /\ revision = call[c].revision IN
  /\ call[c].at = "confirm"
  /\ sync' = IF agrees THEN [sync EXCEPT !.status = "CLEAN", !.baseRevision = revision] ELSE sync
  /\ unnoticed' = IF agrees THEN call[c].overtaken ELSE unnoticed
  /\ IF agrees THEN Turns(c, [Idle EXCEPT !.at = "load"]) ELSE Ends(c)
  /\ UNCHANGED <<gallery, onDisk, backup, budget>>

(* buildGalleryBusinessSnapshot of a push. *)
SnapshotToPush(c) ==
  /\ call[c].at = "snapshot" /\ call[c].kind \in Pushing
  /\ Turns(c, [call[c] EXCEPT !.snap = content, !.overtaken = FALSE,
                              !.at = IF call[c].kind = "overwrite" THEN "recheck" ELSE "write"])
  /\ Private
Recheck(c) ==
  /\ call[c].at = "recheck"
  /\ IF sidecar = call[c].shown THEN GoesTo(c, "write") ELSE Ends(c)
  /\ Private

(* WriteAtomic: an old .bak goes, the file becomes the .bak, and the new one  *)
(* takes its name.                                                            *)
Discard(c) ==
  /\ call[c].at = "write"
  /\ GoesTo(c, IF sidecar = Missing THEN "create" ELSE "aside")
  /\ bak' = IF sidecar = Missing THEN bak ELSE Missing
  /\ UNCHANGED <<gallery, sync, sidecar, unnoticed, backup, budget>>
SetAside(c) ==
  /\ call[c].at = "aside"
  /\ IF sidecar = Missing THEN Ends(c) /\ UNCHANGED onDisk
     ELSE GoesTo(c, "replace") /\ bak' = sidecar /\ sidecar' = Missing
  /\ UNCHANGED <<gallery, sync, unnoticed, backup, budget>>
Pushed(c) ==
  [version |-> IF call[c].row = NoRow THEN 1 ELSE call[c].row.version + 1, val |-> call[c].snap]
Replace(c) ==
  /\ call[c].at \in {"replace", "create"}
  /\ sidecar' = Pushed(c) /\ GoesTo(c, "store")
  /\ UNCHANGED <<gallery, sync, bak, unnoticed, backup, budget>>

\* Faulty variant: the revision is read when the row is stored.
BaselineRevisionNow(c) == revision

(* The row after a push or a pull: the revision is the one that was expected, *)
(* or the one that the pull has made of it.                                   *)
BaselineRevision(c) == call[c].revision + IF call[c].kind \in Pulling THEN 1 ELSE 0
Settled(c, doc) ==
  [status |-> "CLEAN", version |-> doc.version, doc |-> doc, base |-> call[c].snap,
   baseRevision |-> BaselineRevision(c)]

(* Others that are about to acknowledge have read the row of before. *)
Overtaking(c) ==
  [d \in Caller |-> [call[d] EXCEPT !.overtaken = @ \/ call[d].at \in {"agree", "confirm"}]]
StorePushed(c) ==
  /\ call[c].at = "store"
  /\ sync' = Settled(c, Pushed(c))
  /\ unnoticed' = call[c].overtaken
  /\ call' = [Overtaking(c) EXCEPT ![c] =
                IF call[c].kind = "push" THEN Idle ELSE [Idle EXCEPT !.at = "load"]]
  /\ UNCHANGED <<gallery, onDisk, backup, budget>>

(* Of a pull: without a row the database is the baseline.  A resolution has a *)
(* choice for every conflict.                                                 *)
SnapshotToPull(c) ==
  LET base == IF call[c].row = NoRow THEN content ELSE call[c].row.base
      file == Overlay(base, call[c].doc)
      conflicts == Conflicting(base, content, file)
  IN /\ call[c].at = "snapshot" /\ call[c].kind \in Pulling
     /\ IF call[c].kind = "pull" /\ conflicts # {}
          THEN IF call[c].row = NoRow THEN Ends(c)
               ELSE Turns(c, [Idle EXCEPT !.at = "persist", !.status = "CONFLICT"])
          ELSE \E chosen \in SUBSET conflicts :
                 Turns(c, [call[c] EXCEPT !.at = "apply", !.overtaken = FALSE,
                                          !.merged = Merge(base, content, file, chosen)])
     /\ Private

\* Faulty variant: the update has no condition on the revision.
UneditedOrNot(c) == call[c].revision <= revision

(* The revision under which the pull began. *)
Unedited(c) == call[c].revision = revision

(* applyGalleryBusinessSnapshot: one transaction, which brings one revision,  *)
(* or two if it also dates the gallery by its files (reconcileGalleryCapture- *)
(* Date; that date is none of the fields here).                               *)
Apply(c) ==
  /\ call[c].at = "apply"
  /\ IF Unedited(c)
       THEN /\ content' = call[c].merged
            /\ \/ revision' = revision + 1 /\ sync' = sync
               \/ revision' = revision + 2 /\ sync' = Marked
            /\ Turns(c, [call[c] EXCEPT !.at = "reread", !.row = NoRow, !.merged = Blank, !.overtaken = FALSE])
       ELSE Ends(c) /\ UNCHANGED <<gallery, sync>>
  /\ UNCHANGED <<onDisk, unnoticed, backup, budget>>
Reread(c) ==
  /\ call[c].at = "reread"
  /\ Turns(c, [call[c] EXCEPT !.at = "settle", !.snap = content, !.overtaken = FALSE])
  /\ Private
StorePulled(c) ==
  /\ call[c].at = "settle"
  /\ sync' = Settled(c, call[c].doc)
  /\ unnoticed' = call[c].overtaken
  /\ call' = [Overtaking(c) EXCEPT ![c] = Idle]
  /\ UNCHANGED <<gallery, onDisk, backup, budget>>

-----------------------------------------------------------------------------
(* The rest of the world. *)

(* The owner edits the gallery; an edit of what no snapshot has, like the     *)
(* slug, brings a new revision too.                                           *)
EditGallery ==
  /\ Happens
  /\ \E f \in Field, v \in Value : content' = [content EXCEPT ![f] = v]
  /\ revision' = revision + 1 /\ sync' = Marked
  /\ UNCHANGED <<onDisk, call, unnoticed, backup, calls>>

(* Between what a call has read of the content and what it stores of it. *)
Windows == {"agree", "confirm", "recheck", "write", "aside", "replace", "create", "store", "apply", "settle"}

(* What changes the content without a new revision: a scan that changes       *)
(* members, which marks the row, a rename or a merge of an entity, which      *)
(* marks a clean one, and the repair of an automatic cover or a rename by the *)
(* merge of a portable package, which mark none.                              *)
ChangeUnrevised ==
  /\ Suffer("unrevised")
  /\ \E f \in Field, v \in Value : v # content[f] /\ content' = [content EXCEPT ![f] = v]
  /\ sync' \in {sync, Marked, IF sync = NoRow THEN NoRow ELSE [sync EXCEPT !.status = "DB_DIRTY"]}
  /\ unnoticed' = TRUE
  /\ call' = [c \in Caller |-> [call[c] EXCEPT !.overtaken = @ \/ call[c].at \in Windows]]
  /\ UNCHANGED <<revision, onDisk, backup, calls>>

(* The owner edits the file, removes or spoils it, or puts the .bak back. *)
EditSidecar ==
  /\ Happens
  /\ sidecar \in Document
  /\ \E f \in Field, v \in Value \cup {Unset} :
       v # sidecar.val[f] /\ sidecar' = [sidecar EXCEPT !.val[f] = v]
  /\ UNCHANGED <<gallery, sync, bak, call, unnoticed, backup, calls>>
ChangeSidecar ==
  /\ Suffer("file")
  /\ sidecar' \in {Missing, Broken, bak} \ {sidecar}
  /\ UNCHANGED <<gallery, sync, bak, call, unnoticed, backup, calls>>

(* An error ends a call; a rename that failed is taken back. *)
Break(c) ==
  /\ call[c].at # "idle" /\ Suffer("error") /\ Ends(c)
  /\ IF call[c].at = "replace" /\ bak # Missing THEN sidecar' = bak /\ bak' = Missing ELSE UNCHANGED onDisk
  /\ UNCHANGED <<gallery, sync, unnoticed, backup, calls>>
Stop ==
  /\ Suffer("crash") /\ call' = [c \in Caller |-> Idle]
  /\ UNCHANGED <<gallery, sync, onDisk, unnoticed, backup, calls>>

(* The database is that of the backup, the file is where it was; where the    *)
(* paths were mapped, ApplyRestorePathMappings has marked the row.  The calls *)
(* of before have lost their database.                                        *)
Restored ==
  /\ Suffer("restore")
  /\ content' = backup.content /\ revision' = backup.revision
  /\ \/ sync' = backup.sync
     \/ backup.sync # NoRow /\ sync' = [backup.sync EXCEPT !.status = "MISSING"]
  /\ call' = [c \in Caller |-> Idle] /\ unnoticed' = FALSE
  /\ UNCHANGED <<onDisk, backup, calls>>

Query(c) ==
  \/ Recognise(c) \/ Load(c) \/ ReadToCheck(c) \/ ReadToChange(c) \/ Decide(c) \/ Compare(c)
  \/ Acknowledge(c) \/ Agree(c) \/ SnapshotToPush(c) \/ Recheck(c) \/ SnapshotToPull(c) \/ Reread(c)
Change(c) ==
  \/ Persist(c) \/ Confirm(c) \/ Discard(c) \/ SetAside(c) \/ Replace(c) \/ StorePushed(c)
  \/ Apply(c) \/ StorePulled(c)
SyncNext ==
  \/ \E c \in Caller : Enter(c) \/ Query(c) \/ Change(c) \/ Break(c)
  \/ EditGallery \/ ChangeUnrevised \/ EditSidecar \/ ChangeSidecar \/ Stop \/ Restored

SyncSpec == SyncInit /\ [][SyncNext]_syncVars

-----------------------------------------------------------------------------
(* Properties. *)

\* While a row carries the revision of its gallery, the gallery's content is the
\* row's baseline: no edit of the owner is hidden from a check, a preview or a
\* push, whatever calls overlap it.  (Revisions are compared in checkGallery;
\* the exceptions are changes without a revision and an acknowledgement that
\* another call's row overtakes.)
RevisionTells ==
  sync # NoRow /\ sync.baseRevision = revision /\ ~unnoticed => content = sync.base

\* A pull overwrites a field of the database only if its value is that of the
\* baseline the pull has read: it never takes back an edit that is newer than the
\* baseline, whenever the edit comes.  (ThreeWayMerge on a snapshot, applied under
\* the revision of before; the exceptions are changes without a revision that
\* happen in between, and a first import, whose baseline is the database.)
PullSparesEdits ==
  [][\A c \in Caller :
       call[c].at = "apply" /\ call'[c].at = "reread" /\ call[c].kind = "pull"
         /\ call[c].row # NoRow /\ ~call[c].overtaken
       => \A f \in Field : content'[f] # content[f] => content[f] = call[c].row.base[f]]_syncVars
=============================================================================
