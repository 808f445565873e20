-------------------------- MODULE ManifestSyncProofs --------------------------
(***************************************************************************)
(* Theorems about ManifestSync, for any fields and values, any number of   *)
(* overlapping calls and any numbers of edits and mishaps.                 *)
(***************************************************************************)
EXTENDS ManifestSync, TLAPS

(* What a push has read of the content until it stores it. *)
Writing == {"recheck", "write", "aside", "replace", "create", "store"}

\* A call fits a content, a revision and a row: what it has read by its place,
\* and how it relates to them unless it is overtaken.
Reading(k) ==
  /\ k.kind \in Pulling => k.at \in {"read", "load", "snapshot", "apply", "reread", "settle"}
  /\ k.at = "decide" => k.row \in Row /\ k.doc \in Document
  /\ k.at = "persist" => k.status \in Status
  /\ k.at \in {"load", "snapshot"} /\ k.kind \in Pulling => k.doc \in Document
PushFits(k, cont, rev) ==
  k.at \in Writing =>
    k.kind \in Pushing /\ k.snap \in Snapshot /\ (k.revision = rev /\ ~k.overtaken => cont = k.snap)
Spares(k, cont) == \A f \in Field : k.merged[f] # cont[f] => cont[f] = k.row.base[f]
PullFits(k, cont, rev) ==
  /\ k.at \in {"apply", "reread", "settle"} => k.kind \in Pulling /\ k.doc \in Document
  /\ k.at = "apply" =>
       /\ k.merged \in Snapshot
       /\ k.revision = rev /\ ~k.overtaken /\ k.kind = "pull" /\ k.row # NoRow => Spares(k, cont)
  /\ k.at \in {"reread", "settle"} => k.revision + 1 <= rev
  /\ k.at = "settle" =>
       k.snap \in Snapshot /\ (k.revision + 1 = rev /\ ~k.overtaken => cont = k.snap)
AckFits(k, cont, rev, row) ==
  /\ k.at = "agree" => k.snap \in Snapshot /\ (~k.overtaken => row # NoRow /\ row.base = k.snap)
  /\ k.at = "confirm" /\ k.revision = rev /\ ~k.overtaken => row # NoRow /\ cont = row.base
Fits(k, cont, rev, row) ==
  /\ k \in Calling /\ k.revision <= rev
  /\ Reading(k) /\ PushFits(k, cont, rev) /\ PullFits(k, cont, rev) /\ AckFits(k, cont, rev, row)

(* A row is not ahead of its gallery, and its revision tells, but if excused. *)
RowFits(cont, rev, row, excused) ==
  row # NoRow => /\ row.baseRevision <= rev
                 /\ row.baseRevision = rev /\ ~excused => cont = row.base

SyncIInv ==
  /\ SyncTypeOK
  /\ RowFits(content, revision, sync, unnoticed)
  /\ RowFits(backup.content, backup.revision, backup.sync, FALSE)
  /\ \A c \in Caller : Fits(call[c], content, revision, sync)

-------------------------------------------------------------------------------
(* The merge. *)

\* A snapshot is a filled one.
LEMMA SnapshotIsFilled == Snapshot \subseteq Filled /\ Blank \in Filled
BY DEF Snapshot, Filled, Blank

\* What a document leaves out is as in the baseline.
LEMMA OverlayType ==
  ASSUME NEW base \in Snapshot, NEW doc \in Document
  PROVE  Overlay(base, doc) \in Snapshot
<1>1. \A f \in Field : Overlay(base, doc)[f] \in Value
  BY DEF Overlay, Document, Filled, Snapshot
<1> QED BY <1>1 DEF Overlay, Snapshot

\* A merge takes each field from the database or from the file.
LEMMA MergeType ==
  ASSUME NEW base \in Snapshot, NEW db \in Snapshot, NEW file \in Snapshot, NEW chosen
  PROVE  Merge(base, db, file, chosen) \in Snapshot
BY DEF Merge, Snapshot

\* A merge with nothing chosen changes only fields that are as in the baseline.
LEMMA MergeSpares ==
  ASSUME NEW base, NEW db, NEW file, NEW f \in Field,
         Merge(base, db, file, {})[f] # db[f]
  PROVE  db[f] = base[f]
BY DEF Merge

-------------------------------------------------------------------------------
(* A call and the rest of the world. *)

\* An idle call fits everything.
LEMMA IdleFits ==
  ASSUME NEW cont, NEW rev \in Nat, NEW row
  PROVE  Fits(Idle, cont, rev, row)
<1>1. Idle \in Calling
  BY SnapshotIsFilled DEF Idle, Calling, Places, Kinds, File
<1> QED BY <1>1 DEF Idle, Fits, Reading, PushFits, PullFits, AckFits, Writing, Pulling

\* A new revision, and a row with the baseline of before, leave a call fitting.
LEMMA NewRevisionFits ==
  ASSUME NEW k, NEW cont, NEW rev \in Nat, NEW row, Fits(k, cont, rev, row),
         NEW cont2, NEW rev2 \in Nat, rev2 > rev, NEW row2,
         (row2 = NoRow) <=> (row = NoRow), row # NoRow => row2.base = row.base
  PROVE  Fits(k, cont2, rev2, row2)
<1>0. k \in Calling /\ k.revision \in Nat /\ k.revision <= rev
  BY DEF Fits, Calling
<1>1. k.revision <= rev2 /\ k.revision # rev2
  BY <1>0
<1>2. PushFits(k, cont2, rev2)
  BY <1>1 DEF Fits, PushFits
<1>3. PullFits(k, cont2, rev2)
  BY <1>0, <1>1 DEF Fits, PullFits
<1>4. AckFits(k, cont2, rev2, row2)
  BY <1>1 DEF Fits, AckFits
<1> QED BY <1>0, <1>1, <1>2, <1>3, <1>4 DEF Fits

\* So does a new status of the row.
LEMMA NewStatusFits ==
  ASSUME NEW k, NEW cont, NEW rev, NEW row, Fits(k, cont, rev, row), NEW row2,
         (row2 = NoRow) <=> (row = NoRow), row # NoRow => row2.base = row.base
  PROVE  Fits(k, cont, rev, row2)
BY DEF Fits, AckFits

(* A call that another one overtakes, or a change without a revision. *)
Overtaken(k, places) == [k EXCEPT !.overtaken = @ \/ k.at \in places]

\* Nothing of a call but that it is overtaken changes.
LEMMA OvertakenCall ==
  ASSUME NEW k \in Calling, NEW places
  PROVE  /\ Overtaken(k, places) \in Calling
         /\ Overtaken(k, places).at = k.at /\ Overtaken(k, places).kind = k.kind
         /\ Overtaken(k, places).revision = k.revision /\ Overtaken(k, places).row = k.row
         /\ Overtaken(k, places).doc = k.doc /\ Overtaken(k, places).status = k.status
         /\ Overtaken(k, places).snap = k.snap /\ Overtaken(k, places).merged = k.merged
         /\ Overtaken(k, places).overtaken = (k.overtaken \/ k.at \in places)
BY DEF Overtaken, Calling

\* Overtaken by a change without a revision, a call fits whatever it reads of it.
LEMMA UnrevisedFits ==
  ASSUME NEW k, NEW cont, NEW rev, NEW row, Fits(k, cont, rev, row),
         NEW cont2, NEW row2
  PROVE  Fits(Overtaken(k, Windows), cont2, rev, row2)
<1> DEFINE o == Overtaken(k, Windows)
<1>1. k \in Calling
  BY DEF Fits
<1>2. /\ o \in Calling /\ o.at = k.at /\ o.kind = k.kind /\ o.revision = k.revision
      /\ o.row = k.row /\ o.doc = k.doc /\ o.status = k.status /\ o.snap = k.snap
      /\ o.merged = k.merged /\ o.overtaken = (k.overtaken \/ k.at \in Windows)
  BY <1>1, OvertakenCall
<1> HIDE DEF o
<1>3. Reading(o)
  BY <1>2 DEF Fits, Reading
<1>4. PushFits(o, cont2, rev)
  BY <1>2 DEF Fits, PushFits, Writing, Windows
<1>5. PullFits(o, cont2, rev)
  BY <1>2 DEF Fits, PullFits, Windows
<1>6. AckFits(o, cont2, rev, row2)
  BY <1>2 DEF Fits, AckFits, Windows
<1>7. o.revision <= rev
  BY <1>2 DEF Fits
<1> QED BY <1>2, <1>3, <1>4, <1>5, <1>6, <1>7 DEF Fits, o

\* Overtaken by another call's row, a call fits the new row.
LEMMA StoredFits ==
  ASSUME NEW k, NEW cont, NEW rev, NEW row, Fits(k, cont, rev, row), NEW row2
  PROVE  Fits(Overtaken(k, {"agree", "confirm"}), cont, rev, row2)
<1> DEFINE o == Overtaken(k, {"agree", "confirm"})
<1>1. k \in Calling
  BY DEF Fits
<1>2. /\ o \in Calling /\ o.at = k.at /\ o.kind = k.kind /\ o.revision = k.revision
      /\ o.row = k.row /\ o.doc = k.doc /\ o.status = k.status /\ o.snap = k.snap
      /\ o.merged = k.merged /\ o.overtaken = (k.overtaken \/ k.at \in {"agree", "confirm"})
  BY <1>1, OvertakenCall
<1> HIDE DEF o
<1>3. Reading(o)
  BY <1>2 DEF Fits, Reading
<1>4. PushFits(o, cont, rev)
  BY <1>2 DEF Fits, PushFits
<1>5. PullFits(o, cont, rev)
  BY <1>2 DEF Fits, PullFits, Spares
<1>6. AckFits(o, cont, rev, row2)
  BY <1>2 DEF Fits, AckFits
<1>7. o.revision <= rev
  BY <1>2 DEF Fits
<1> QED BY <1>2, <1>3, <1>4, <1>5, <1>6, <1>7 DEF Fits, o

-------------------------------------------------------------------------------
(* The steps of a call. *)

(* A step of a call makes it one that fits. *)
Proceeds(c, k) == call' = [call EXCEPT ![c] = k] /\ Fits(k, content', revision', sync')

\* What the invariant says of one call.
LEMMA CallFits ==
  ASSUME SyncIInv, NEW c \in Caller
  PROVE  /\ call[c] \in Calling /\ Fits(call[c], content, revision, sync)
         /\ revision \in Nat /\ content \in Snapshot /\ sync \in Row \cup {NoRow} /\ sidecar \in File
BY DEF SyncIInv, SyncTypeOK

\* A call that ends fits.
LEMMA EndFits ==
  ASSUME revision' \in Nat, NEW c \in Caller, Ends(c)
  PROVE  Proceeds(c, Idle)
BY IdleFits DEF Ends, Turns, Proceeds

\* Where a call that does not pull has read nothing that matters, it fits.
LEMMA QuietFits ==
  ASSUME NEW k \in Calling, NEW cont, NEW rev \in Nat, NEW row, k.revision <= rev,
         k.at \in {"idle", "admit", "load", "read", "compare", "acknowledge", "snapshot"},
         k.kind \notin Pulling
  PROVE  Fits(k, cont, rev, row)
BY DEF Fits, Reading, PushFits, PullFits, AckFits, Writing

\* So does one that is about to store a status.
LEMMA PersistFits ==
  ASSUME NEW k \in Calling, NEW cont, NEW rev \in Nat, NEW row, k.revision <= rev,
         k.at = "persist", k.kind \notin Pulling, k.status \in Status
  PROVE  Fits(k, cont, rev, row)
BY DEF Fits, Reading, PushFits, PullFits, AckFits, Writing

\* A hash is one of a file.
LEMMA HashType ==
  ASSUME NEW row \in Row \cup {NoRow}, NEW doc \in File
  PROVE  HashOf(row, doc) \in File
BY DEF HashOf, Row, File

LEMMA EnterFits ==
  ASSUME SyncIInv, NEW c \in Caller, Enter(c)
  PROVE  \E k : Proceeds(c, k)
<1>1. /\ revision \in Nat /\ revision' = revision
      /\ HashOf(sync, sidecar) \in File /\ Missing \in File
  BY CallFits, HashType DEF Enter, File, gallery
<1>2. PICK kind \in Kinds :
        Turns(c, IF kind = "check" THEN [Idle EXCEPT !.at = "load"]
                 ELSE [Idle EXCEPT !.kind = kind, !.revision = revision,
                                   !.at = IF kind \in Pulling THEN "read" ELSE "load",
                                   !.shown = IF kind = "batch" THEN HashOf(sync, sidecar) ELSE Missing])
  BY DEF Enter
<1>3. CASE kind = "check"
  <2> DEFINE k == [Idle EXCEPT !.at = "load"]
  <2>1. k \in Calling /\ k.at = "load" /\ k.kind = "check" /\ k.revision = 0
    BY SnapshotIsFilled DEF Idle, Calling, Places, Kinds, File
  <2>2. call' = [call EXCEPT ![c] = k]
    BY <1>2, <1>3 DEF Turns
  <2> HIDE DEF k
  <2>3. Fits(k, content', revision', sync')
    BY <1>1, <2>1, QuietFits DEF Pulling
  <2> QED BY <2>2, <2>3 DEF Proceeds
<1>4. CASE kind # "check"
  <2> DEFINE shown == IF kind = "batch" THEN HashOf(sync, sidecar) ELSE Missing
             k == [Idle EXCEPT !.kind = kind, !.revision = revision,
                               !.at = IF kind \in Pulling THEN "read" ELSE "load", !.shown = shown]
  <2>1. shown \in File
    BY <1>1
  <2>2. call' = [call EXCEPT ![c] = k]
    BY <1>2, <1>4 DEF Turns
  <2> HIDE DEF shown
  <2>3. /\ k \in Calling /\ k.revision = revision /\ k.kind = kind
        /\ k.at = IF kind \in Pulling THEN "read" ELSE "load"
    BY <1>1, <2>1, SnapshotIsFilled DEF Idle, Calling, Places, Kinds, File
  <2> HIDE DEF k
  <2>4. Fits(k, content', revision', sync')
    BY <1>1, <2>3 DEF Fits, Reading, PushFits, PullFits, AckFits, Writing
  <2> QED BY <2>2, <2>4 DEF Proceeds
<1> QED BY <1>3, <1>4

LEMMA RecogniseFits ==
  ASSUME SyncIInv, NEW c \in Caller, Recognise(c)
  PROVE  \E k : Proceeds(c, k)
<1>1. /\ call[c] \in Calling /\ Fits(call[c], content, revision, sync) /\ revision \in Nat
      /\ revision' = revision
  BY CallFits DEF Recognise, Private, gallery
<1>2. CASE revision = call[c].revision
  <2> DEFINE k == [call[c] EXCEPT !.at = "load"]
  <2>1. k \in Calling /\ k.at = "load" /\ k.revision = call[c].revision /\ k.kind = call[c].kind
    BY <1>1 DEF Calling, Places
  <2>2. call' = [call EXCEPT ![c] = k]
    BY <1>2 DEF Recognise, GoesTo
  <2>3. call[c].kind \notin Pulling
    BY <1>1 DEF Fits, Reading, Recognise
  <2> HIDE DEF k
  <2>4. Fits(k, content', revision', sync')
    BY <1>1, <1>2, <2>1, <2>3, QuietFits
  <2> QED BY <2>2, <2>4 DEF Proceeds
<1>3. CASE revision # call[c].revision
  BY <1>1, <1>3, EndFits DEF Recognise
<1> QED BY <1>2, <1>3

LEMMA LoadFits ==
  ASSUME SyncIInv, NEW c \in Caller, Load(c)
  PROVE  \E k : Proceeds(c, k)
<1> DEFINE k == [call[c] EXCEPT !.row = sync,
                                !.at = IF call[c].kind \in Pulling THEN "snapshot" ELSE "read"]
<1>1. /\ call[c] \in Calling /\ Fits(call[c], content, revision, sync) /\ revision \in Nat
      /\ revision' = revision /\ sync \in Row \cup {NoRow} /\ call[c].at = "load"
  BY CallFits DEF Load, Private, gallery
<1>2. /\ k \in Calling /\ k.kind = call[c].kind /\ k.revision = call[c].revision /\ k.doc = call[c].doc
      /\ k.at = IF call[c].kind \in Pulling THEN "snapshot" ELSE "read"
  BY <1>1 DEF Calling, Places
<1>3. call' = [call EXCEPT ![c] = k]
  BY DEF Load, Turns
<1> HIDE DEF k
<1>4. Fits(k, content', revision', sync')
  BY <1>1, <1>2 DEF Fits, Reading, PushFits, PullFits, AckFits, Writing
<1> QED BY <1>3, <1>4 DEF Proceeds

\* What a check ends with fits, if the status it stores is one.
LEMMA CheckedFits ==
  ASSUME SyncIInv, NEW c \in Caller, NEW doc \in File, NEW status \in Status \cup {"NONE"},
         call[c].kind \notin Pulling, call[c].row # NoRow => status \in Status,
         Checked(c, doc, status), Private
  PROVE  \E k : Proceeds(c, k)
<1> DEFINE goesOn == call[c].kind = "batch" /\ status # "ERROR" /\ HashOf(call[c].row, doc) = call[c].shown
           known == IF goesOn THEN [call[c] EXCEPT !.row = NoRow, !.doc = Missing, !.status = status]
                              ELSE [Idle EXCEPT !.status = status]
<1>1. /\ call[c] \in Calling /\ call[c].revision <= revision /\ revision \in Nat
      /\ revision' = revision
  BY CallFits DEF Private, gallery, Fits
<1>2. known \in Calling /\ known.revision <= revision /\ known.kind \notin Pulling /\ known.status = status
  <2>1. CASE goesOn
    BY <1>1, <2>1 DEF Calling, File
  <2>2. CASE ~goesOn
    <3> DEFINE idle == [Idle EXCEPT !.status = status]
    <3>1. idle \in Calling /\ idle.revision = 0 /\ idle.kind = "check" /\ idle.status = status
      BY SnapshotIsFilled DEF Idle, Calling, Places, Kinds, File
    <3>2. known = idle
      BY <2>2
    <3> HIDE DEF idle, known
    <3> QED BY <1>1, <3>1, <3>2 DEF Pulling
  <2> QED BY <2>1, <2>2
<1>3. CASE call[c].row # NoRow
  <2> DEFINE k == [known EXCEPT !.at = "persist"]
  <2>1. call' = [call EXCEPT ![c] = k]
    BY <1>3 DEF Checked, Turns
  <2> HIDE DEF known
  <2>2. /\ k \in Calling /\ k.at = "persist" /\ k.revision = known.revision
        /\ k.kind = known.kind /\ k.status = known.status
    BY <1>2 DEF Calling, Places
  <2> HIDE DEF k
  <2>3. Fits(k, content', revision', sync')
    BY <1>1, <1>2, <1>3, <2>2, PersistFits
  <2> QED BY <2>1, <2>3 DEF Proceeds
<1>4. CASE call[c].row = NoRow /\ goesOn
  <2> DEFINE k == [known EXCEPT !.at = "compare"]
  <2>1. call' = [call EXCEPT ![c] = k]
    BY <1>4 DEF Checked, Turns
  <2> HIDE DEF known
  <2>2. k \in Calling /\ k.at = "compare" /\ k.revision = known.revision /\ k.kind = known.kind
    BY <1>2 DEF Calling, Places
  <2> HIDE DEF k
  <2>3. Fits(k, content', revision', sync')
    BY <1>1, <1>2, <2>2, QuietFits
  <2> QED BY <2>1, <2>3 DEF Proceeds
<1>5. CASE call[c].row = NoRow /\ ~goesOn
  <2>1. Ends(c)
    BY <1>5 DEF Checked
  <2> QED BY <1>1, <2>1, EndFits
<1> QED BY <1>3, <1>4, <1>5

LEMMA ReadToCheckFits ==
  ASSUME SyncIInv, NEW c \in Caller, ReadToCheck(c)
  PROVE  \E k : Proceeds(c, k)
<1>1. /\ call[c] \in Calling /\ call[c].revision <= revision /\ revision \in Nat
      /\ revision' = revision /\ sidecar \in File /\ Private
      /\ call[c].kind \notin Pulling /\ call[c].row \in Row \cup {NoRow}
  BY CallFits DEF ReadToCheck, Private, gallery, Fits, Pulling, Calling
<1>2. CASE call[c].row # NoRow /\ sidecar \in Document
  <2> DEFINE k == [call[c] EXCEPT !.doc = sidecar, !.at = "decide"]
  <2>1. call' = [call EXCEPT ![c] = k]
    BY <1>2 DEF ReadToCheck, Turns
  <2>2. /\ k \in Calling /\ k.at = "decide" /\ k.revision = call[c].revision /\ k.row = call[c].row
        /\ k.kind = call[c].kind /\ k.doc = sidecar
    BY <1>1 DEF Calling, Places
  <2> HIDE DEF k
  <2>3. Fits(k, content', revision', sync')
    BY <1>1, <1>2, <2>2 DEF Fits, Reading, PushFits, PullFits, AckFits, Writing
  <2> QED BY <2>1, <2>3 DEF Proceeds
<1>3. CASE ~(call[c].row # NoRow /\ sidecar \in Document)
  <2>1. Checked(c, sidecar, Unusable(c))
    BY <1>3 DEF ReadToCheck
  <2>2. Unusable(c) \in Status \cup {"NONE"} /\ (call[c].row # NoRow => Unusable(c) \in Status)
    BY DEF Unusable, Status
  <2> QED BY <1>1, <2>1, <2>2, CheckedFits
<1> QED BY <1>2, <1>3

LEMMA DecideFits ==
  ASSUME SyncIInv, NEW c \in Caller, Decide(c)
  PROVE  \E k : Proceeds(c, k)
<1> DEFINE status ==
             IF ~DatabaseChanged(c) THEN IF call[c].doc = call[c].row.doc THEN "CLEAN" ELSE "FILE_DIRTY"
             ELSE IF call[c].doc # call[c].row.doc
                     /\ Conflicting(call[c].row.base, content, Overlay(call[c].row.base, call[c].doc)) # {}
               THEN "CONFLICT" ELSE "DB_DIRTY"
<1>1. Checked(c, call[c].doc, status) /\ Private /\ call[c].at = "decide"
  BY DEF Decide
<1>2. status \in Status
  BY DEF Status
<1>3. call[c].kind \notin Pulling /\ call[c].doc \in File
  BY <1>1, CallFits DEF Fits, Reading, Calling
<1> HIDE DEF status
<1> QED BY <1>1, <1>2, <1>3, CheckedFits

LEMMA ReadToChangeFits ==
  ASSUME SyncIInv, NEW c \in Caller, ReadToChange(c)
  PROVE  \E k : Proceeds(c, k)
<1>1. /\ call[c] \in Calling /\ call[c].revision <= revision /\ revision \in Nat
      /\ revision' = revision /\ sidecar \in File
  BY CallFits DEF ReadToChange, Private, gallery, Fits
<1>2. CASE MayReplace(c) /\ call[c].kind \in Pulling
  <2> DEFINE k == [call[c] EXCEPT !.doc = sidecar, !.at = "load"]
  <2>1. call' = [call EXCEPT ![c] = k]
    BY <1>2 DEF ReadToChange, Turns
  <2>2. k \in Calling /\ k.at = "load" /\ k.revision = call[c].revision /\ k.kind = call[c].kind /\ k.doc = sidecar
    BY <1>1 DEF Calling, Places
  <2>3. sidecar \in Document
    BY <1>2 DEF MayReplace, Pulling
  <2> HIDE DEF k
  <2>4. Fits(k, content', revision', sync')
    BY <1>1, <2>2, <2>3 DEF Fits, Reading, PushFits, PullFits, AckFits, Writing
  <2> QED BY <2>1, <2>4 DEF Proceeds
<1>3. CASE MayReplace(c) /\ call[c].kind \notin Pulling
  <2> DEFINE k == [call[c] EXCEPT !.at = "snapshot"]
  <2>1. call' = [call EXCEPT ![c] = k]
    BY <1>3 DEF ReadToChange, Turns
  <2>2. k \in Calling /\ k.at = "snapshot" /\ k.revision = call[c].revision /\ k.kind = call[c].kind
    BY <1>1 DEF Calling, Places
  <2> HIDE DEF k
  <2>3. Fits(k, content', revision', sync')
    BY <1>1, <1>3, <2>2, QuietFits
  <2> QED BY <2>1, <2>3 DEF Proceeds
<1>4. CASE ~MayReplace(c)
  BY <1>1, <1>4, EndFits DEF ReadToChange
<1> QED BY <1>2, <1>3, <1>4

LEMMA CompareFits ==
  ASSUME SyncIInv, NEW c \in Caller, Compare(c)
  PROVE  \E k : Proceeds(c, k)
<1>1. /\ call[c] \in Calling /\ call[c].revision <= revision /\ revision \in Nat
      /\ revision' = revision /\ call[c].at = "compare" /\ call[c].kind \notin Pulling
  BY CallFits DEF Compare, Private, gallery, Fits, Reading
<1> DEFINE acknowledging == [call[c] EXCEPT !.at = "acknowledge", !.status = "NONE"]
           pushing(kind, shown) ==
             [Idle EXCEPT !.at = "admit", !.kind = kind, !.revision = call[c].revision, !.shown = shown]
<1>2. \/ Ends(c) \/ call' = [call EXCEPT ![c] = acknowledging]
      \/ call' = [call EXCEPT ![c] = pushing("overwrite", call[c].shown)]
      \/ call' = [call EXCEPT ![c] = pushing("batchPush", Missing)]
  BY DEF Compare, Turns
<1>3. CASE call' = [call EXCEPT ![c] = acknowledging]
  <2>1. /\ acknowledging \in Calling /\ acknowledging.at = "acknowledge"
        /\ acknowledging.revision = call[c].revision /\ acknowledging.kind = call[c].kind
    BY <1>1 DEF Calling, Places
  <2> HIDE DEF acknowledging
  <2>2. Fits(acknowledging, content', revision', sync')
    BY <1>1, <2>1, QuietFits
  <2> QED BY <1>3, <2>2 DEF Proceeds
<1>4. ASSUME NEW kind \in {"overwrite", "batchPush"}, NEW shown \in File,
             call' = [call EXCEPT ![c] = pushing(kind, shown)]
      PROVE  \E k : Proceeds(c, k)
  <2> DEFINE k == pushing(kind, shown)
  <2>1. k \in Calling /\ k.at = "admit" /\ k.revision = call[c].revision /\ k.kind = kind
    BY <1>1, SnapshotIsFilled DEF Idle, Calling, Places, Kinds, Pushing, File
  <2>2. call' = [call EXCEPT ![c] = k]
    BY <1>4
  <2> HIDE DEF k
  <2>3. Fits(k, content', revision', sync')
    BY <1>1, <2>1, QuietFits DEF Pulling
  <2> QED BY <2>2, <2>3 DEF Proceeds
<1>5. call[c].shown \in File /\ Missing \in File
  BY <1>1 DEF Calling, File
<1> QED BY <1>1, <1>2, <1>3, <1>4, <1>5, EndFits

LEMMA AcknowledgeFits ==
  ASSUME SyncIInv, NEW c \in Caller, Acknowledge(c)
  PROVE  \E k : Proceeds(c, k)
<1>1. /\ call[c] \in Calling /\ call[c].revision <= revision /\ revision \in Nat
      /\ revision' = revision /\ sync' = sync /\ sync \in Row \cup {NoRow}
      /\ call[c].at = "acknowledge" /\ call[c].kind \notin Pulling
  BY CallFits DEF Acknowledge, Private, gallery, Fits, Reading
<1>2. CASE sync # NoRow /\ sync.doc = call[c].shown
  <2> DEFINE k == [call[c] EXCEPT !.at = "agree", !.snap = sync.base, !.overtaken = FALSE]
  <2>1. call' = [call EXCEPT ![c] = k]
    BY <1>2 DEF Acknowledge, Turns
  <2>2. sync.base \in Snapshot
    BY <1>1, <1>2 DEF Row
  <2>3. /\ k \in Calling /\ k.at = "agree" /\ k.revision = call[c].revision /\ k.kind = call[c].kind
        /\ k.snap = sync.base
    BY <1>1, <2>2, SnapshotIsFilled DEF Calling, Places
  <2> HIDE DEF k
  <2>4. Fits(k, content', revision', sync')
    BY <1>1, <1>2, <2>2, <2>3 DEF Fits, Reading, PushFits, PullFits, AckFits, Writing
  <2> QED BY <2>1, <2>4 DEF Proceeds
<1>3. CASE ~(sync # NoRow /\ sync.doc = call[c].shown)
  BY <1>1, <1>3, EndFits DEF Acknowledge
<1> QED BY <1>2, <1>3

LEMMA AgreeFits ==
  ASSUME SyncIInv, NEW c \in Caller, Agree(c)
  PROVE  \E k : Proceeds(c, k)
<1>1. /\ call[c] \in Calling /\ Fits(call[c], content, revision, sync) /\ revision \in Nat
      /\ content' = content /\ revision' = revision /\ sync' = sync /\ call[c].at = "agree"
  BY CallFits DEF Agree, Private, gallery
<1>2. CASE sidecar = call[c].shown /\ content = call[c].snap
  <2> DEFINE k == [call[c] EXCEPT !.at = "confirm", !.snap = Blank]
  <2>1. call' = [call EXCEPT ![c] = k]
    BY <1>2 DEF Agree, Turns
  <2>2. /\ k \in Calling /\ k.at = "confirm" /\ k.revision = call[c].revision /\ k.kind = call[c].kind
        /\ k.overtaken = call[c].overtaken
    BY <1>1, SnapshotIsFilled DEF Calling, Places
  <2> HIDE DEF k
  <2>3. Fits(k, content', revision', sync')
    BY <1>1, <1>2, <2>2 DEF Fits, Reading, PushFits, PullFits, AckFits, Writing
  <2> QED BY <2>1, <2>3 DEF Proceeds
<1>3. CASE ~(sidecar = call[c].shown /\ content = call[c].snap)
  BY <1>1, <1>3, EndFits DEF Agree
<1> QED BY <1>2, <1>3

LEMMA SnapshotToPushFits ==
  ASSUME SyncIInv, NEW c \in Caller, SnapshotToPush(c)
  PROVE  \E k : Proceeds(c, k)
<1> DEFINE k == [call[c] EXCEPT !.snap = content, !.overtaken = FALSE,
                                !.at = IF call[c].kind = "overwrite" THEN "recheck" ELSE "write"]
<1>1. /\ call[c] \in Calling /\ call[c].revision <= revision /\ revision \in Nat
      /\ content' = content /\ revision' = revision /\ content \in Snapshot /\ call[c].kind \in Pushing
  BY CallFits DEF SnapshotToPush, Private, gallery, Fits
<1>2. call' = [call EXCEPT ![c] = k]
  BY DEF SnapshotToPush, Turns
<1>3. /\ k \in Calling /\ k.at \in {"recheck", "write"} /\ k.revision = call[c].revision
      /\ k.kind = call[c].kind /\ k.snap = content
  BY <1>1, SnapshotIsFilled DEF Calling, Places
<1> HIDE DEF k
<1>4. Fits(k, content', revision', sync')
  BY <1>1, <1>3 DEF Fits, Reading, PushFits, PullFits, AckFits, Pushing, Pulling
<1> QED BY <1>2, <1>4 DEF Proceeds

\* A push that goes on with what it has read fits.
LEMMA WritingFits ==
  ASSUME SyncIInv, NEW c \in Caller, call[c].at \in Writing, NEW place \in Writing,
         GoesTo(c, place), UNCHANGED gallery
  PROVE  \E k : Proceeds(c, k)
<1> DEFINE k == [call[c] EXCEPT !.at = place]
<1>1. /\ call[c] \in Calling /\ Fits(call[c], content, revision, sync) /\ revision \in Nat
      /\ content' = content /\ revision' = revision
  BY CallFits DEF gallery
<1>2. call' = [call EXCEPT ![c] = k]
  BY DEF GoesTo
<1>3. /\ k \in Calling /\ k.at = place /\ k.revision = call[c].revision
      /\ k.kind = call[c].kind /\ k.snap = call[c].snap /\ k.overtaken = call[c].overtaken
  BY <1>1 DEF Calling, Places, Writing
<1> HIDE DEF k
<1>4. k.revision <= revision' /\ PushFits(k, content', revision')
  BY <1>1, <1>3 DEF Fits, PushFits
<1>5. k.kind \in Pushing
  BY <1>3, <1>4 DEF PushFits
<1>6. Reading(k) /\ PullFits(k, content', revision') /\ AckFits(k, content', revision', sync')
  BY <1>3, <1>5 DEF Reading, PullFits, AckFits, Writing, Pushing, Pulling
<1> QED BY <1>2, <1>3, <1>4, <1>6 DEF Proceeds, Fits

LEMMA RecheckFits ==
  ASSUME SyncIInv, NEW c \in Caller, Recheck(c)
  PROVE  \E k : Proceeds(c, k)
<1>1. revision' \in Nat /\ UNCHANGED gallery /\ call[c].at = "recheck"
  BY CallFits DEF Recheck, Private, gallery
<1>2. CASE sidecar = call[c].shown
  BY <1>1, <1>2, WritingFits DEF Recheck, Writing
<1>3. CASE sidecar # call[c].shown
  BY <1>1, <1>3, EndFits DEF Recheck
<1> QED BY <1>2, <1>3

LEMMA SnapshotToPullFits ==
  ASSUME SyncIInv, NEW c \in Caller, SnapshotToPull(c)
  PROVE  \E k : Proceeds(c, k)
<1> DEFINE base == IF call[c].row = NoRow THEN content ELSE call[c].row.base
           file == Overlay(base, call[c].doc)
           conflicts == Conflicting(base, content, file)
<1>1. /\ call[c] \in Calling /\ call[c].revision <= revision /\ revision \in Nat
      /\ content' = content /\ revision' = revision /\ content \in Snapshot
      /\ call[c].kind \in Pulling /\ call[c].doc \in Document
  BY CallFits DEF SnapshotToPull, Private, gallery, Fits, Reading
<1>2. base \in Snapshot
  BY <1>1 DEF Calling, Row
<1> HIDE DEF base
<1>3. file \in Snapshot
  BY <1>1, <1>2, OverlayType
<1> HIDE DEF file
<1>4. \/ Ends(c)
      \/ Turns(c, [Idle EXCEPT !.at = "persist", !.status = "CONFLICT"])
      \/ /\ call[c].kind = "pull" => conflicts = {}
         /\ \E chosen \in SUBSET conflicts :
              Turns(c, [call[c] EXCEPT !.at = "apply", !.overtaken = FALSE,
                                       !.merged = Merge(base, content, file, chosen)])
  BY DEF SnapshotToPull, base, file
<1>5. CASE Turns(c, [Idle EXCEPT !.at = "persist", !.status = "CONFLICT"])
  <2> DEFINE k == [Idle EXCEPT !.at = "persist", !.status = "CONFLICT"]
  <2>1. k \in Calling /\ k.at = "persist" /\ k.revision = 0 /\ k.kind = "check" /\ k.status = "CONFLICT"
    BY SnapshotIsFilled DEF Idle, Calling, Places, Kinds, File, Status
  <2>2. call' = [call EXCEPT ![c] = k]
    BY <1>5 DEF Turns
  <2> HIDE DEF k
  <2>3. Fits(k, content', revision', sync')
    BY <1>1, <2>1, PersistFits DEF Status, Pulling
  <2> QED BY <2>2, <2>3 DEF Proceeds
<1>6. ASSUME call[c].kind = "pull" => conflicts = {}, NEW chosen \in SUBSET conflicts,
             Turns(c, [call[c] EXCEPT !.at = "apply", !.overtaken = FALSE,
                                      !.merged = Merge(base, content, file, chosen)])
      PROVE  \E k : Proceeds(c, k)
  <2> DEFINE merged == Merge(base, content, file, chosen)
             k == [call[c] EXCEPT !.at = "apply", !.overtaken = FALSE, !.merged = merged]
  <2>1. merged \in Snapshot
    BY <1>1, <1>2, <1>3, MergeType
  <2>2. call[c].kind = "pull" => merged = Merge(base, content, file, {})
    BY <1>6
  <2>3. call' = [call EXCEPT ![c] = k]
    BY <1>6 DEF Turns
  <2> HIDE DEF merged
  <2>4. /\ k \in Calling /\ k.at = "apply" /\ k.revision = call[c].revision /\ k.kind = call[c].kind
        /\ k.doc = call[c].doc /\ k.row = call[c].row /\ k.merged = merged
    BY <1>1, <2>1, SnapshotIsFilled DEF Calling, Places
  <2> HIDE DEF k
  <2>5. k.kind = "pull" /\ k.row # NoRow => Spares(k, content)
    <3> SUFFICES ASSUME k.kind = "pull", k.row # NoRow, NEW f \in Field, merged[f] # content[f]
                 PROVE  content[f] = k.row.base[f]
      BY <2>4 DEF Spares
    <3>1. content[f] = base[f]
      BY <2>2, <2>4, MergeSpares
    <3> QED BY <2>4, <3>1 DEF base
  <2>6. PullFits(k, content', revision')
    BY <1>1, <2>1, <2>4, <2>5 DEF PullFits
  <2>7. Reading(k) /\ PushFits(k, content', revision') /\ AckFits(k, content', revision', sync')
    BY <2>4 DEF Reading, PushFits, AckFits, Writing
  <2> QED BY <1>1, <2>3, <2>4, <2>6, <2>7 DEF Proceeds, Fits
<1> QED BY <1>1, <1>4, <1>5, <1>6, EndFits

LEMMA RereadFits ==
  ASSUME SyncIInv, NEW c \in Caller, Reread(c)
  PROVE  \E k : Proceeds(c, k)
<1> DEFINE k == [call[c] EXCEPT !.at = "settle", !.snap = content, !.overtaken = FALSE]
<1>1. /\ call[c] \in Calling /\ Fits(call[c], content, revision, sync) /\ revision \in Nat
      /\ content' = content /\ revision' = revision /\ content \in Snapshot /\ call[c].at = "reread"
  BY CallFits DEF Reread, Private, gallery
<1>2. call' = [call EXCEPT ![c] = k]
  BY DEF Reread, Turns
<1>3. /\ k \in Calling /\ k.at = "settle" /\ k.revision = call[c].revision
      /\ k.kind = call[c].kind /\ k.snap = content /\ k.doc = call[c].doc
  BY <1>1, SnapshotIsFilled DEF Calling, Places
<1> HIDE DEF k
<1>4. Fits(k, content', revision', sync')
  BY <1>1, <1>3 DEF Fits, Reading, PushFits, PullFits, AckFits, Writing
<1> QED BY <1>2, <1>4 DEF Proceeds

-------------------------------------------------------------------------------
(* The steps of a call that others see. *)

(* The types of everything but the calls. *)
WorldTypes ==
  /\ content \in Snapshot /\ revision \in Nat /\ sync \in Row \cup {NoRow}
  /\ sidecar \in File /\ bak \in File /\ unnoticed \in BOOLEAN
  /\ backup \in [content : Snapshot, revision : Nat, sync : Row \cup {NoRow}]
  /\ calls \in 0..MaxCalls /\ changes \in 0..MaxChanges

\* A new status changes nothing else of a row.
LEMMA StatusOfRow ==
  ASSUME NEW row \in Row, NEW status \in Status
  PROVE  LET new == [row EXCEPT !.status = status] IN
         /\ new \in Row /\ new # NoRow
         /\ new.base = row.base /\ new.baseRevision = row.baseRevision
BY SyncAssumption DEF Row

\* Neither does the mark.
LEMMA MarkOfRow ==
  ASSUME sync \in Row \cup {NoRow}
  PROVE  /\ Marked \in Row \cup {NoRow} /\ (Marked = NoRow <=> sync = NoRow)
         /\ sync # NoRow => Marked.base = sync.base /\ Marked.baseRevision = sync.baseRevision
<1>1. CASE sync # NoRow /\ sync.status = "CLEAN"
  <2>1. Marked = [sync EXCEPT !.status = "DB_DIRTY"]
    BY <1>1 DEF Marked
  <2> QED BY <1>1, <2>1, StatusOfRow DEF Status
<1>2. CASE ~(sync # NoRow /\ sync.status = "CLEAN")
  BY <1>2 DEF Marked
<1> QED BY <1>1, <1>2

\* When one call proceeds and the others fit, the invariant holds of all calls.
LEMMA AllFit ==
  ASSUME SyncIInv, NEW c \in Caller, NEW k, Proceeds(c, k),
         \A d \in Caller \ {c} : Fits(call[d], content', revision', sync')
  PROVE  /\ call' \in [Caller -> Calling]
         /\ \A d \in Caller : Fits(call'[d], content', revision', sync')
<1>1. call \in [Caller -> Calling] /\ k \in Calling /\ call' = [call EXCEPT ![c] = k]
  BY DEF SyncIInv, SyncTypeOK, Proceeds, Fits
<1>2. \A d \in Caller : call'[d] = IF d = c THEN k ELSE call[d]
  BY <1>1
<1>3. Fits(k, content', revision', sync')
  BY DEF Proceeds
<1> QED BY <1>1, <1>2, <1>3

\* A step that keeps the world and lets one call proceed keeps the invariant.
LEMMA PrivateKeeps ==
  ASSUME SyncIInv, NEW c \in Caller, NEW k, Proceeds(c, k), WorldTypes',
         UNCHANGED <<gallery, sync, unnoticed, backup>>
  PROVE  SyncIInv'
<1>1. /\ content' = content /\ revision' = revision /\ sync' = sync
      /\ unnoticed' = unnoticed /\ backup' = backup
  BY DEF gallery
<1>2. \A d \in Caller \ {c} : Fits(call[d], content', revision', sync')
  BY <1>1 DEF SyncIInv
<1>3. /\ call' \in [Caller -> Calling]
      /\ \A d \in Caller : Fits(call'[d], content', revision', sync')
  BY <1>2, AllFit
<1> QED BY <1>1, <1>3 DEF SyncIInv, SyncTypeOK, WorldTypes

\* The queries of a call keep the invariant.
LEMMA QueryKeeps ==
  ASSUME SyncIInv, NEW c \in Caller, Query(c)
  PROVE  SyncIInv'
<1>1. Private
  BY DEF Query, Recognise, Load, ReadToCheck, ReadToChange, Decide, Compare, Acknowledge, Agree,
         SnapshotToPush, Recheck, SnapshotToPull, Reread
<1>2. WorldTypes' /\ UNCHANGED <<gallery, sync, unnoticed, backup>>
  BY <1>1 DEF SyncIInv, SyncTypeOK, WorldTypes, Private, gallery, onDisk, budget
<1>3. \E k : Proceeds(c, k)
  BY RecogniseFits, LoadFits, ReadToCheckFits, ReadToChangeFits, DecideFits, CompareFits,
     AcknowledgeFits, AgreeFits, SnapshotToPushFits, RecheckFits, SnapshotToPullFits, RereadFits
     DEF Query
<1> QED BY <1>2, <1>3, PrivateKeeps

\* So does a call that begins, or breaks.
LEMMA EnterKeeps ==
  ASSUME SyncIInv, NEW c \in Caller, Enter(c)
  PROVE  SyncIInv'
<1>1. WorldTypes' /\ UNCHANGED <<gallery, sync, unnoticed, backup>>
  BY SyncAssumption DEF Enter, SyncIInv, SyncTypeOK, WorldTypes, gallery, onDisk
<1> QED BY <1>1, EnterFits, PrivateKeeps

LEMMA BreakKeeps ==
  ASSUME SyncIInv, NEW c \in Caller, Break(c)
  PROVE  SyncIInv'
<1>1. sidecar' \in File /\ bak' \in File
  BY DEF Break, SyncIInv, SyncTypeOK, onDisk, File
<1>2. changes' \in 0..MaxChanges
  BY SyncAssumption DEF Break, Suffer, Happens, SyncIInv, SyncTypeOK
<1>3. WorldTypes' /\ UNCHANGED <<gallery, sync, unnoticed, backup>>
  BY <1>1, <1>2 DEF Break, SyncIInv, SyncTypeOK, WorldTypes, gallery
<1>4. Proceeds(c, Idle)
  BY <1>3, EndFits DEF Break, WorldTypes
<1> QED BY <1>3, <1>4, PrivateKeeps

\* So does what a call does to the files.
LEMMA FilesKeep ==
  ASSUME SyncIInv, NEW c \in Caller, Discard(c) \/ SetAside(c) \/ Replace(c)
  PROVE  SyncIInv'
<1>1. /\ call[c] \in Calling /\ Fits(call[c], content, revision, sync) /\ sidecar \in File /\ bak \in File
      /\ revision' \in Nat /\ UNCHANGED <<gallery, sync, unnoticed, backup, budget>>
  BY CallFits DEF SyncIInv, SyncTypeOK, Discard, SetAside, Replace, gallery
<1>2. sidecar' \in File /\ bak' \in File /\ \E k : Proceeds(c, k)
  <2>1. CASE Discard(c)
    <3> DEFINE place == IF sidecar = Missing THEN "create" ELSE "aside"
    <3>1. GoesTo(c, place) /\ place \in Writing /\ call[c].at \in Writing
      BY <2>1 DEF Discard, Writing
    <3>2. sidecar' \in File /\ bak' \in File
      BY <1>1, <2>1 DEF Discard, File
    <3> HIDE DEF place
    <3> QED BY <1>1, <3>1, <3>2, WritingFits
  <2>2. CASE SetAside(c) /\ sidecar = Missing
    BY <1>1, <2>2, EndFits DEF SetAside, onDisk
  <2>3. CASE SetAside(c) /\ sidecar # Missing
    <3>1. GoesTo(c, "replace") /\ "replace" \in Writing /\ call[c].at \in Writing
      BY <2>3 DEF SetAside, Writing
    <3>2. sidecar' \in File /\ bak' \in File
      BY <1>1, <2>3 DEF SetAside, File
    <3> QED BY <1>1, <3>1, <3>2, WritingFits
  <2>4. CASE Replace(c)
    <3>1. GoesTo(c, "store") /\ "store" \in Writing /\ call[c].at \in Writing
      BY <2>4 DEF Replace, Writing
    <3>2. Pushed(c) \in Document
      BY <1>1 DEF Pushed, Document, Calling, Row
    <3>3. sidecar' \in File /\ bak' \in File
      BY <1>1, <2>4, <3>2 DEF Replace, File
    <3> QED BY <1>1, <3>1, <3>3, WritingFits
  <2> QED BY <2>1, <2>2, <2>3, <2>4
<1>3. WorldTypes'
  BY <1>1, <1>2 DEF SyncIInv, SyncTypeOK, WorldTypes, gallery, budget
<1> QED BY <1>1, <1>2, <1>3, PrivateKeeps

\* A status that a check stores keeps the invariant.
LEMMA PersistKeeps ==
  ASSUME SyncIInv, NEW c \in Caller, Persist(c)
  PROVE  SyncIInv'
<1>1. /\ call[c] \in Calling /\ call[c].revision <= revision /\ call[c].at = "persist"
      /\ call[c].status \in Status /\ call[c].kind \notin Pulling
      /\ revision \in Nat /\ sync \in Row \cup {NoRow}
      /\ content' = content /\ revision' = revision /\ unnoticed' = unnoticed /\ backup' = backup
  BY CallFits DEF Persist, Fits, Reading, gallery
<1>2. /\ sync' \in Row \cup {NoRow} /\ (sync' = NoRow <=> sync = NoRow)
      /\ sync # NoRow => sync'.base = sync.base /\ sync'.baseRevision = sync.baseRevision
  BY <1>1, StatusOfRow DEF Persist
<1>3. \A d \in Caller \ {c} : Fits(call[d], content', revision', sync')
  BY <1>1, <1>2, NewStatusFits DEF SyncIInv
<1>4. \E k : Proceeds(c, k)
  <2>1. CASE call[c].kind = "batch"
    <3> DEFINE k == [call[c] EXCEPT !.at = "compare"]
    <3>1. call' = [call EXCEPT ![c] = k]
      BY <2>1 DEF Persist, GoesTo
    <3>2. k \in Calling /\ k.at = "compare" /\ k.revision = call[c].revision /\ k.kind = call[c].kind
      BY <1>1 DEF Calling, Places
    <3> HIDE DEF k
    <3>3. Fits(k, content', revision', sync')
      BY <1>1, <3>2, QuietFits
    <3> QED BY <3>1, <3>3 DEF Proceeds
  <2>2. CASE call[c].kind # "batch"
    BY <1>1, <2>2, EndFits DEF Persist
  <2> QED BY <2>1, <2>2
<1>5. /\ call' \in [Caller -> Calling]
      /\ \A d \in Caller : Fits(call'[d], content', revision', sync')
  BY <1>3, <1>4, AllFit
<1>6. RowFits(content', revision', sync', unnoticed')
  BY <1>1, <1>2 DEF SyncIInv, RowFits
<1>7. SyncTypeOK'
  BY <1>2, <1>5 DEF Persist, SyncIInv, SyncTypeOK, gallery, onDisk, budget
<1> QED BY <1>1, <1>5, <1>6, <1>7 DEF SyncIInv

\* An acknowledgement keeps the invariant: since the row was read and compared,
\* either nothing has changed it or it is overtaken.
LEMMA ConfirmKeeps ==
  ASSUME SyncIInv, NEW c \in Caller, Confirm(c)
  PROVE  SyncIInv'
<1> DEFINE agrees == sync # NoRow /\ sync.doc = call[c].shown /\ revision = call[c].revision
<1>1. /\ Fits(call[c], content, revision, sync) /\ call[c] \in Calling /\ call[c].at = "confirm"
      /\ revision \in Nat /\ sync \in Row \cup {NoRow}
      /\ content' = content /\ revision' = revision /\ backup' = backup
  BY CallFits DEF Confirm, gallery
<1>2. /\ sync' \in Row \cup {NoRow} /\ (sync' = NoRow <=> sync = NoRow)
      /\ sync # NoRow => sync'.base = sync.base
      /\ unnoticed' \in BOOLEAN /\ RowFits(content', revision', sync', unnoticed')
  <2>1. CASE agrees
    <3> DEFINE row == [sync EXCEPT !.status = "CLEAN", !.baseRevision = revision]
    <3>1. sync' = row /\ unnoticed' = call[c].overtaken
      BY <2>1 DEF Confirm
    <3>2. row \in Row /\ row # NoRow /\ row.base = sync.base /\ row.baseRevision = revision
      BY <1>1, <2>1, SyncAssumption DEF Row, Status
    <3> HIDE DEF row
    <3>3. ~call[c].overtaken => content = sync.base
      BY <1>1, <2>1 DEF Fits, AckFits
    <3>4. unnoticed' \in BOOLEAN
      BY <1>1, <3>1 DEF Calling
    <3> QED BY <1>1, <2>1, <3>1, <3>2, <3>3, <3>4 DEF RowFits
  <2>2. CASE ~agrees
    <3>1. sync' = sync /\ unnoticed' = unnoticed
      BY <2>2 DEF Confirm
    <3> QED BY <1>1, <3>1 DEF SyncIInv, SyncTypeOK
  <2> QED BY <2>1, <2>2
<1>3. \A d \in Caller \ {c} : Fits(call[d], content', revision', sync')
  BY <1>1, <1>2, NewStatusFits DEF SyncIInv
<1>4. \E k : Proceeds(c, k)
  <2>1. CASE agrees
    <3> DEFINE k == [Idle EXCEPT !.at = "load"]
    <3>1. call' = [call EXCEPT ![c] = k]
      BY <2>1 DEF Confirm, Turns
    <3>2. k \in Calling /\ k.at = "load" /\ k.kind = "check" /\ k.revision = 0
      BY SnapshotIsFilled DEF Idle, Calling, Places, Kinds, File
    <3> HIDE DEF k
    <3>3. Fits(k, content', revision', sync')
      BY <1>1, <3>2, QuietFits DEF Pulling
    <3> QED BY <3>1, <3>3 DEF Proceeds
  <2>2. CASE ~agrees
    BY <1>1, <2>2, EndFits DEF Confirm
  <2> QED BY <2>1, <2>2
<1>5. /\ call' \in [Caller -> Calling]
      /\ \A d \in Caller : Fits(call'[d], content', revision', sync')
  BY <1>3, <1>4, AllFit
<1>6. SyncTypeOK'
  BY <1>2, <1>5 DEF Confirm, SyncIInv, SyncTypeOK, gallery, onDisk, budget
<1> QED BY <1>1, <1>2, <1>5, <1>6 DEF SyncIInv

\* A row that a call stores keeps the invariant: it carries the revision under
\* which the call was to work, and a snapshot of later.
LEMMA StoreKeeps ==
  ASSUME SyncIInv, NEW c \in Caller, NEW doc \in Document, NEW k \in {Idle, [Idle EXCEPT !.at = "load"]},
         sync' = Settled(c, doc), unnoticed' = call[c].overtaken,
         call' = [Overtaking(c) EXCEPT ![c] = k], call[c].snap \in Snapshot,
         BaselineRevision(c) \in Nat, BaselineRevision(c) <= revision,
         BaselineRevision(c) = revision /\ ~call[c].overtaken => content = call[c].snap,
         UNCHANGED <<gallery, onDisk, backup, budget>>
  PROVE  SyncIInv'
<1>1. /\ call \in [Caller -> Calling] /\ revision \in Nat
      /\ content' = content /\ revision' = revision /\ backup' = backup
  BY DEF SyncIInv, SyncTypeOK, gallery
<1>2. /\ sync' \in Row /\ sync' # NoRow
      /\ sync'.base = call[c].snap /\ sync'.baseRevision = BaselineRevision(c)
  <2>1. doc.version \in Nat
    BY DEF Document
  <2> QED BY <2>1, SyncAssumption DEF Settled, Row, Status
<1>3. RowFits(content', revision', sync', unnoticed')
  BY <1>1, <1>2 DEF RowFits
<1>4. k \in Calling /\ Fits(k, content', revision', sync')
  <2>1. CASE k = Idle
    BY <1>1, <2>1, IdleFits DEF Fits
  <2>2. CASE k = [Idle EXCEPT !.at = "load"]
    <3>1. k \in Calling /\ k.at = "load" /\ k.kind = "check" /\ k.revision = 0
      BY <2>2, SnapshotIsFilled DEF Idle, Calling, Places, Kinds, File
    <3> QED BY <1>1, <3>1, QuietFits DEF Pulling
  <2> QED BY <2>1, <2>2
<1>5. \A d \in Caller : call'[d] = IF d = c THEN k ELSE Overtaken(call[d], {"agree", "confirm"})
  BY DEF Overtaking, Overtaken
<1>6. \A d \in Caller : Fits(call'[d], content', revision', sync')
  <2> SUFFICES ASSUME NEW d \in Caller PROVE Fits(call'[d], content', revision', sync')
    OBVIOUS
  <2>1. CASE d = c
    BY <1>4, <1>5, <2>1
  <2>2. CASE d # c
    <3>1. Fits(call[d], content, revision, sync)
      BY DEF SyncIInv
    <3>2. Fits(Overtaken(call[d], {"agree", "confirm"}), content, revision, sync')
      BY <3>1, StoredFits
    <3> QED BY <1>1, <1>5, <2>2, <3>2
  <2> QED BY <2>1, <2>2
<1>7. call' \in [Caller -> Calling]
  <2>1. \A d \in Caller : call'[d] \in Calling
    BY <1>6 DEF Fits
  <2>2. call' = [d \in Caller |-> call'[d]]
    BY DEF Overtaking
  <2> QED BY <2>1, <2>2
<1>8. unnoticed' \in BOOLEAN
  BY <1>1 DEF Calling
<1>9. SyncTypeOK'
  BY <1>2, <1>7, <1>8 DEF SyncIInv, SyncTypeOK, gallery, onDisk, budget
<1> QED BY <1>1, <1>3, <1>6, <1>9 DEF SyncIInv

LEMMA StorePushedKeeps ==
  ASSUME SyncIInv, NEW c \in Caller, StorePushed(c)
  PROVE  SyncIInv'
<1>1. /\ Fits(call[c], content, revision, sync) /\ call[c] \in Calling /\ revision \in Nat
      /\ call[c].at = "store"
  BY CallFits DEF StorePushed
<1>2. /\ call[c].kind \in Pushing /\ call[c].snap \in Snapshot /\ call[c].revision <= revision
      /\ call[c].revision = revision /\ ~call[c].overtaken => content = call[c].snap
  BY <1>1 DEF Fits, PushFits, Writing
<1>3. BaselineRevision(c) = call[c].revision /\ call[c].revision \in Nat
  BY <1>1, <1>2 DEF BaselineRevision, Pushing, Pulling, Calling
<1>4. Pushed(c) \in Document
  BY <1>1 DEF Pushed, Document, Calling, Row
<1> DEFINE k == IF call[c].kind = "push" THEN Idle ELSE [Idle EXCEPT !.at = "load"]
<1>5. k \in {Idle, [Idle EXCEPT !.at = "load"]} /\ call' = [Overtaking(c) EXCEPT ![c] = k]
  BY DEF StorePushed
<1> HIDE DEF k
<1> QED BY <1>2, <1>3, <1>4, <1>5, StoreKeeps DEF StorePushed

LEMMA StorePulledKeeps ==
  ASSUME SyncIInv, NEW c \in Caller, StorePulled(c)
  PROVE  SyncIInv'
<1>1. /\ Fits(call[c], content, revision, sync) /\ call[c] \in Calling /\ revision \in Nat
      /\ call[c].at = "settle"
  BY CallFits DEF StorePulled
<1>2. /\ call[c].kind \in Pulling /\ call[c].doc \in Document /\ call[c].snap \in Snapshot
      /\ call[c].revision + 1 <= revision
      /\ call[c].revision + 1 = revision /\ ~call[c].overtaken => content = call[c].snap
  BY <1>1 DEF Fits, PullFits
<1>3. BaselineRevision(c) = call[c].revision + 1 /\ call[c].revision + 1 \in Nat
  BY <1>1, <1>2 DEF BaselineRevision, Calling
<1>4. call' = [Overtaking(c) EXCEPT ![c] = Idle]
  BY DEF StorePulled
<1> QED BY <1>2, <1>3, <1>4, StoreKeeps DEF StorePulled

\* A pull that is applied keeps the invariant: its revision is a new one.
LEMMA ApplyKeeps ==
  ASSUME SyncIInv, NEW c \in Caller, Apply(c)
  PROVE  SyncIInv'
<1>1. /\ Fits(call[c], content, revision, sync) /\ call[c] \in Calling /\ revision \in Nat
      /\ sync \in Row \cup {NoRow} /\ call[c].at = "apply"
      /\ unnoticed' = unnoticed /\ backup' = backup
  BY CallFits DEF Apply
<1>2. CASE ~Unedited(c)
  <2>1. WorldTypes' /\ UNCHANGED <<gallery, sync, unnoticed, backup>> /\ Ends(c)
    BY <1>2 DEF Apply, SyncIInv, SyncTypeOK, WorldTypes, gallery, onDisk, budget
  <2>2. Proceeds(c, Idle)
    BY <2>1, EndFits DEF WorldTypes
  <2> QED BY <2>1, <2>2, PrivateKeeps
<1>3. CASE Unedited(c)
  <2> DEFINE k == [call[c] EXCEPT !.at = "reread", !.row = NoRow, !.merged = Blank, !.overtaken = FALSE]
  <2>1. /\ call[c].merged \in Snapshot /\ call[c].kind \in Pulling /\ call[c].doc \in Document
        /\ call[c].revision = revision
    BY <1>1, <1>3 DEF Fits, PullFits, Unedited
  <2>2. /\ content' \in Snapshot /\ revision' \in Nat /\ revision' > revision
        /\ revision + 1 <= revision' /\ (sync' = sync \/ sync' = Marked)
    BY <1>1, <1>3, <2>1 DEF Apply
  <2>3. /\ sync' \in Row \cup {NoRow} /\ (sync' = NoRow <=> sync = NoRow)
        /\ sync # NoRow => sync'.base = sync.base /\ sync'.baseRevision = sync.baseRevision
    BY <1>1, <2>2, MarkOfRow
  <2>4. call' = [call EXCEPT ![c] = k]
    BY <1>3 DEF Apply, Turns
  <2>5. /\ k \in Calling /\ k.at = "reread" /\ k.revision = revision /\ k.kind = call[c].kind
        /\ k.doc = call[c].doc
    BY <1>1, <2>1, SnapshotIsFilled DEF Calling, Places
  <2> HIDE DEF k
  <2>6. Fits(k, content', revision', sync')
    BY <1>1, <2>1, <2>2, <2>5 DEF Fits, Reading, PushFits, PullFits, AckFits, Writing
  <2>7. Proceeds(c, k)
    BY <2>4, <2>6 DEF Proceeds
  <2>8. \A d \in Caller \ {c} : Fits(call[d], content', revision', sync')
    BY <1>1, <2>2, <2>3, NewRevisionFits DEF SyncIInv
  <2>9. /\ call' \in [Caller -> Calling]
        /\ \A d \in Caller : Fits(call'[d], content', revision', sync')
    BY <2>7, <2>8, AllFit
  <2>10. RowFits(content', revision', sync', unnoticed')
    <3>1. sync # NoRow => sync.baseRevision <= revision /\ sync.baseRevision \in Nat
      BY <1>1 DEF SyncIInv, RowFits, Row
    <3> QED BY <1>1, <2>2, <2>3, <3>1 DEF RowFits
  <2>11. SyncTypeOK'
    BY <2>2, <2>3, <2>9 DEF Apply, SyncIInv, SyncTypeOK, onDisk, budget
  <2> QED BY <1>1, <2>9, <2>10, <2>11 DEF SyncIInv
<1> QED BY <1>2, <1>3

-------------------------------------------------------------------------------
(* The steps of the rest of the world. *)

\* An edit of the gallery keeps the invariant: its revision is a new one.
LEMMA EditGalleryKeeps ==
  ASSUME SyncIInv, EditGallery
  PROVE  SyncIInv'
<1>1. /\ revision \in Nat /\ content \in Snapshot /\ sync \in Row \cup {NoRow}
      /\ revision' = revision + 1 /\ sync' = Marked /\ call' = call
      /\ unnoticed' = unnoticed /\ backup' = backup
  BY DEF EditGallery, SyncIInv, SyncTypeOK
<1>2. content' \in Snapshot
  BY <1>1 DEF EditGallery, Snapshot
<1>3. /\ sync' \in Row \cup {NoRow} /\ (sync' = NoRow <=> sync = NoRow)
      /\ sync # NoRow => sync'.base = sync.base /\ sync'.baseRevision = sync.baseRevision
  BY <1>1, MarkOfRow
<1>4. revision' \in Nat /\ revision' > revision
  BY <1>1
<1>5. \A d \in Caller : Fits(call'[d], content', revision', sync')
  BY <1>1, <1>3, <1>4, NewRevisionFits DEF SyncIInv
<1>6. RowFits(content', revision', sync', unnoticed')
  <2>1. sync # NoRow => sync.baseRevision <= revision /\ sync.baseRevision \in Nat
    BY <1>1 DEF SyncIInv, RowFits, Row
  <2> QED BY <1>1, <1>3, <2>1 DEF RowFits
<1>7. changes' \in 0..MaxChanges
  BY SyncAssumption DEF EditGallery, Happens, SyncIInv, SyncTypeOK
<1>8. SyncTypeOK'
  BY <1>1, <1>2, <1>3, <1>4, <1>7 DEF EditGallery, SyncIInv, SyncTypeOK, onDisk
<1> QED BY <1>1, <1>5, <1>6, <1>8 DEF SyncIInv

\* So does a change without a revision, which excuses whom it overtakes.
LEMMA ChangeUnrevisedKeeps ==
  ASSUME SyncIInv, ChangeUnrevised
  PROVE  SyncIInv'
<1>1. /\ revision \in Nat /\ content \in Snapshot /\ sync \in Row \cup {NoRow}
      /\ call \in [Caller -> Calling]
      /\ revision' = revision /\ unnoticed' = TRUE /\ backup' = backup
  BY DEF ChangeUnrevised, SyncIInv, SyncTypeOK
<1>2. content' \in Snapshot
  BY <1>1 DEF ChangeUnrevised, Snapshot
<1>3. /\ sync' \in Row \cup {NoRow} /\ (sync' = NoRow <=> sync = NoRow)
      /\ sync # NoRow => sync'.base = sync.base /\ sync'.baseRevision = sync.baseRevision
  <2>1. CASE sync' = Marked
    BY <1>1, <2>1, MarkOfRow
  <2>2. CASE sync' = IF sync = NoRow THEN NoRow ELSE [sync EXCEPT !.status = "DB_DIRTY"]
    BY <1>1, <2>2, StatusOfRow DEF Status
  <2>3. CASE sync' = sync
    BY <1>1, <2>3
  <2> QED BY <2>1, <2>2, <2>3 DEF ChangeUnrevised
<1>4. \A d \in Caller : call'[d] = Overtaken(call[d], Windows)
  BY DEF ChangeUnrevised, Overtaken
<1>5. \A d \in Caller : Fits(call'[d], content', revision', sync')
  BY <1>1, <1>4, UnrevisedFits DEF SyncIInv
<1>6. call' \in [Caller -> Calling]
  <2>1. \A d \in Caller : call'[d] \in Calling
    BY <1>5 DEF Fits
  <2>2. call' = [d \in Caller |-> call'[d]]
    BY DEF ChangeUnrevised
  <2> QED BY <2>1, <2>2
<1>7. RowFits(content', revision', sync', unnoticed')
  BY <1>1, <1>3 DEF SyncIInv, RowFits
<1>8. changes' \in 0..MaxChanges
  BY SyncAssumption DEF ChangeUnrevised, Suffer, Happens, SyncIInv, SyncTypeOK
<1>9. SyncTypeOK'
  BY <1>1, <1>2, <1>3, <1>6, <1>8 DEF ChangeUnrevised, SyncIInv, SyncTypeOK, onDisk
<1> QED BY <1>1, <1>5, <1>7, <1>9 DEF SyncIInv

\* What happens to the files alone keeps it.
LEMMA SidecarKeeps ==
  ASSUME SyncIInv, EditSidecar \/ ChangeSidecar
  PROVE  SyncIInv'
<1>1. sidecar' \in File
  <2>1. CASE EditSidecar
    <3>1. PICK f \in Field, v \in Value \cup {Unset} : sidecar' = [sidecar EXCEPT !.val[f] = v]
      BY <2>1 DEF EditSidecar
    <3>2. sidecar \in Document
      BY <2>1 DEF EditSidecar
    <3>3. [sidecar.val EXCEPT ![f] = v] \in Filled
      BY <3>2 DEF Document, Filled
    <3>4. sidecar' = [sidecar EXCEPT !.val = [sidecar.val EXCEPT ![f] = v]]
      BY <3>1, <3>2 DEF Document
    <3>5. sidecar' \in Document
      BY <3>2, <3>3, <3>4 DEF Document
    <3> QED BY <3>5 DEF File
  <2>2. CASE ChangeSidecar
    BY <2>2 DEF ChangeSidecar, SyncIInv, SyncTypeOK, File
  <2> QED BY <2>1, <2>2
<1>2. changes' \in 0..MaxChanges
  BY SyncAssumption DEF EditSidecar, ChangeSidecar, Suffer, Happens, SyncIInv, SyncTypeOK
<1>3. UNCHANGED <<gallery, sync, bak, call, unnoticed, backup, calls>>
  BY DEF EditSidecar, ChangeSidecar
<1> QED BY <1>1, <1>2, <1>3 DEF SyncIInv, SyncTypeOK, gallery

\* So do a crash and a restoration, which leave no call.
LEMMA StopKeeps ==
  ASSUME SyncIInv, Stop \/ Restored
  PROVE  SyncIInv'
<1>1. changes' \in 0..MaxChanges
  BY SyncAssumption DEF Stop, Restored, Suffer, Happens, SyncIInv, SyncTypeOK
<1>2. WorldTypes' /\ RowFits(content', revision', sync', unnoticed') /\ backup' = backup
  <2>1. CASE Stop
    BY <1>1, <2>1 DEF Stop, SyncIInv, SyncTypeOK, WorldTypes, gallery, onDisk
  <2>2. CASE Restored
    <3>1. /\ backup.content \in Snapshot /\ backup.revision \in Nat /\ backup.sync \in Row \cup {NoRow}
          /\ content' = backup.content /\ revision' = backup.revision /\ unnoticed' = FALSE
      BY <2>2 DEF Restored, SyncIInv, SyncTypeOK
    <3>2. /\ sync' \in Row \cup {NoRow} /\ (sync' = NoRow <=> backup.sync = NoRow)
          /\ backup.sync # NoRow => /\ sync'.base = backup.sync.base
                                   /\ sync'.baseRevision = backup.sync.baseRevision
      BY <2>2, <3>1, StatusOfRow DEF Restored, Status
    <3>3. RowFits(content', revision', sync', unnoticed')
      BY <3>1, <3>2 DEF SyncIInv, RowFits
    <3> QED BY <1>1, <2>2, <3>1, <3>2, <3>3 DEF Restored, SyncIInv, SyncTypeOK, WorldTypes, onDisk
  <2> QED BY <2>1, <2>2
<1>3. call' = [c \in Caller |-> Idle]
  BY DEF Stop, Restored
<1>4. \A c \in Caller : call'[c] \in Calling /\ Fits(call'[c], content', revision', sync')
  BY <1>2, <1>3, IdleFits DEF WorldTypes, Fits
<1>5. call' \in [Caller -> Calling]
  BY <1>3, <1>4
<1> QED BY <1>2, <1>4, <1>5 DEF SyncIInv, SyncTypeOK, WorldTypes

-------------------------------------------------------------------------------
(* The theorems. *)

LEMMA SyncIInvInit == SyncInit => SyncIInv
<1> SUFFICES ASSUME SyncInit PROVE SyncIInv
  OBVIOUS
<1>1. sync \in Row \cup {NoRow} /\ sidecar \in File
  <2>1. CASE sync = Synced(content, 1) /\ sidecar = sync.doc
    <3>1. [version |-> 1, val |-> content] \in Document
      BY SnapshotIsFilled DEF SyncInit, Document
    <3> QED BY <2>1, <3>1 DEF SyncInit, Synced, Row, Status, File
  <2>2. CASE sync = NoRow /\ sidecar \in {Missing} \cup [version : {1}, val : Snapshot]
    BY <2>2, SnapshotIsFilled DEF File, Document
  <2> QED BY <2>1, <2>2 DEF SyncInit
<1>2. RowFits(content, revision, sync, FALSE) /\ RowFits(content, revision, sync, unnoticed)
  BY DEF SyncInit, RowFits, Synced
<1>3. \A c \in Caller : call[c] \in Calling /\ Fits(call[c], content, revision, sync)
  BY IdleFits DEF SyncInit, Fits
<1>4. /\ content \in Snapshot /\ revision \in Nat /\ bak \in File /\ unnoticed \in BOOLEAN
      /\ calls \in 0..MaxCalls /\ changes \in 0..MaxChanges
  <2>1. MaxCalls \in Nat /\ MaxChanges \in Nat
    BY SyncAssumption
  <2>2. calls \in 0..MaxCalls /\ changes \in 0..MaxChanges
    BY <2>1 DEF SyncInit
  <2>3. content \in Snapshot /\ revision \in Nat /\ unnoticed \in BOOLEAN
    BY DEF SyncInit
  <2>4. bak \in File
    BY DEF SyncInit, File
  <2> QED BY <2>2, <2>3, <2>4
<1>5. call \in [Caller -> Calling]
  BY <1>3 DEF SyncInit
<1>6. backup \in [content : Snapshot, revision : Nat, sync : Row \cup {NoRow}]
  BY <1>1, <1>4 DEF SyncInit
<1> QED BY <1>1, <1>2, <1>3, <1>4, <1>5, <1>6 DEF SyncInit, SyncIInv, SyncTypeOK

LEMMA SyncIInvStep == SyncIInv /\ [SyncNext]_syncVars => SyncIInv'
<1> SUFFICES ASSUME SyncIInv, [SyncNext]_syncVars PROVE SyncIInv'
  OBVIOUS
<1>1. ASSUME NEW c \in Caller, Change(c) PROVE SyncIInv'
  BY <1>1, PersistKeeps, ConfirmKeeps, FilesKeep, StorePushedKeeps, ApplyKeeps, StorePulledKeeps
     DEF Change
<1>2. CASE UNCHANGED syncVars
  BY <1>2 DEF syncVars, gallery, onDisk, budget, SyncIInv, SyncTypeOK
<1> QED BY <1>1, <1>2, EnterKeeps, QueryKeeps, BreakKeeps, EditGalleryKeeps, ChangeUnrevisedKeeps,
           SidecarKeeps, StopKeeps DEF SyncNext

LEMMA SyncIInvHolds == SyncSpec => []SyncIInv
BY SyncIInvInit, SyncIInvStep, PTL DEF SyncSpec

\* Every variable has its type, whatever overlaps (SyncTypeOK).
THEOREM SyncTypes == SyncSpec => []SyncTypeOK
<1>1. SyncIInv => SyncTypeOK
  BY DEF SyncIInv
<1> QED BY <1>1, SyncIInvHolds, PTL

\* A row with the revision of its gallery has the gallery's content as its
\* baseline, if no change without a revision and no overtaken acknowledgement
\* excuses it (RevisionTells).
THEOREM RevisionsTell == SyncSpec => []RevisionTells
<1>1. SyncIInv => RevisionTells
  BY DEF SyncIInv, RowFits, RevisionTells
<1> QED BY <1>1, SyncIInvHolds, PTL

\* A pull without conflicts overwrites only what is as in the baseline it has
\* read (PullSparesEdits).
THEOREM PullsSpareEdits == SyncSpec => PullSparesEdits
<1> DEFINE Spared ==
      \A c \in Caller :
        call[c].at = "apply" /\ call'[c].at = "reread" /\ call[c].kind = "pull"
          /\ call[c].row # NoRow /\ ~call[c].overtaken
        => \A f \in Field : content'[f] # content[f] => content[f] = call[c].row.base[f]
<1>1. SyncIInv /\ [SyncNext]_syncVars => [Spared]_syncVars
  <2> SUFFICES ASSUME SyncIInv, SyncNext, NEW c \in Caller,
                      call[c].at = "apply", call'[c].at = "reread", call[c].kind = "pull",
                      call[c].row # NoRow, ~call[c].overtaken, NEW f \in Field,
                      content'[f] # content[f]
               PROVE  content[f] = call[c].row.base[f]
    OBVIOUS
  <2>1. call \in [Caller -> Calling] /\ Fits(call[c], content, revision, sync)
    BY DEF SyncIInv, SyncTypeOK
  <2>2. Apply(c)
    <3>1. \/ \E d \in Caller : Apply(d)
          \/ EditGallery \/ ChangeUnrevised \/ Restored
      <4>1. ASSUME NEW d \in Caller, Query(d) PROVE content' = content
        BY <4>1 DEF Query, Recognise, Load, ReadToCheck, ReadToChange, Decide, Compare, Acknowledge,
           Agree, SnapshotToPush, Recheck, SnapshotToPull, Reread, Private, gallery
      <4>2. ASSUME NEW d \in Caller, Change(d), ~Apply(d) PROVE content' = content
        BY <4>2 DEF Change, Persist, Confirm, Discard, SetAside, Replace, StorePushed, StorePulled, gallery
      <4>3. ASSUME \/ \E d \in Caller : Enter(d) \/ Break(d)
                   \/ EditSidecar \/ ChangeSidecar \/ Stop
            PROVE  content' = content
        BY <4>3 DEF Enter, Break, EditSidecar, ChangeSidecar, Stop, gallery
      <4> QED BY <4>1, <4>2, <4>3 DEF SyncNext
    <3>2. ~EditGallery
      BY DEF EditGallery
    <3>3. ~ChangeUnrevised
      <4> SUFFICES ASSUME ChangeUnrevised PROVE FALSE
        OBVIOUS
      <4>1. call'[c] = Overtaken(call[c], Windows)
        BY DEF ChangeUnrevised, Overtaken
      <4> QED BY <2>1, <4>1, OvertakenCall
    <3>4. ~Restored
      BY DEF Restored, Idle
    <3>5. ASSUME NEW d \in Caller, d # c, Apply(d) PROVE FALSE
      <4>1. call'[c] = call[c]
        BY <2>1, <3>5 DEF Apply, Turns, Ends
      <4> QED BY <4>1
    <3> QED BY <3>1, <3>2, <3>3, <3>4, <3>5
  <2>3. Unedited(c) /\ content' = call[c].merged
    BY <2>1, <2>2 DEF Apply, Ends, Turns, Idle
  <2>4. Spares(call[c], content)
    BY <2>1, <2>3 DEF Fits, PullFits, Unedited
  <2> QED BY <2>3, <2>4 DEF Spares
<1>2. SyncSpec => [][Spared]_syncVars
  BY <1>1, SyncIInvHolds, PTL DEF SyncSpec
<1> QED BY <1>2 DEF PullSparesEdits
===============================================================================
