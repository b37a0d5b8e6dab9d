------------------------------ MODULE FileSync ------------------------------
(***************************************************************************)
(* One file of the Dropbox lab, edited on several devices of its owner     *)
(* (dropbox 02_file_sync_and_conflict_resolution.ipynb).  The metadata and *)
(* the change feed are rows in PostgreSQL, the bytes an object in MinIO;   *)
(* an upload changes them one after the other, each for itself, and may    *)
(* stop between any two.  An event gets its number when its INSERT runs    *)
(* and is visible when that commits, which another INSERT may overtake.    *)
(***************************************************************************)
EXTENDS Integers, Sequences, FiniteSets, FiniteSetsExt

CONSTANTS
  Devices,
  Edits,       \* the contents devices may upload, each once
  Original     \* the content of version 1

VARIABLES
  row,         \* files: version, and fingerprint as the content itself
  object,      \* the bytes under its storage_key
  copies,      \* the edits that became files of their own, conflict copies
  numbers,     \* sync_events: edit -> the id of its event, or 0
  visible,     \* the edits whose event is committed
  upload,      \* device -> its upload
  client,      \* device -> its SyncClient
  versionOf,   \* history: edit -> the version it became, or 0
  rivals       \* history: what the bytes may be, see BytesAreCurrent

vars == <<row, object, copies, numbers, visible, upload, client, versionOf, rivals>>

NoUpload == [edit |-> Original, base |-> 0, checked |-> FALSE, plan |-> << >>]
\* `known`: the last version it heard of; `heard`: the copies.  History:
\* `skipped` are the events that were invisible as the cursor passed them.
NewClient == [last_seen_event |-> 0, known |-> 1, heard |-> {}, skipped |-> {}]

Init ==
  /\ row = [version |-> 1, fingerprint |-> Original] /\ object = Original
  /\ copies = {}
  /\ numbers = [e \in Edits |-> 0] /\ visible = {}
  /\ upload = [d \in Devices |-> NoUpload]
  /\ client = [d \in Devices |-> NewClient]
  /\ versionOf = [e \in Edits |-> 0] /\ rivals = {Original}

\* Mutant: the bytes are uploaded before the version is checked.
UpdatePlanPutFirst == <<"put", "update", "number", "commit">>

\* Mutant: the event is recorded before the change.
UpdatePlanRecordFirst == <<"number", "commit", "update", "put">>

\* update_file, update_file_with_conflict_check, resolve_last_write_wins
UpdatePlan == <<"update", "put", "number", "commit">>

\* create_file, for a conflict copy
CopyPlan == <<"insert copy", "number", "commit">>

Busy(d) == upload[d].plan # << >>
Unused(e) == (\A d \in Devices : upload[d].edit # e) /\ e \notin copies /\ versionOf[e] = 0

\* A device takes up an edit: `checked` if it will replace only the version it
\* has read.
Edit(d, e, checked) ==
  /\ upload[d] = NoUpload /\ Unused(e)
  /\ upload' = [upload EXCEPT ![d] = [edit |-> e, base |-> IF checked THEN row.version ELSE 0,
                                      checked |-> checked, plan |-> UpdatePlan]]
  /\ UNCHANGED <<row, object, copies, numbers, visible, client, versionOf, rivals>>

At(d, step) == Busy(d) /\ Head(upload[d].plan) = step
Advance(d) ==
  LET u == upload[d]
  IN  upload' = [upload EXCEPT ![d] = IF Len(u.plan) = 1 THEN NoUpload ELSE [u EXCEPT !.plan = Tail(u.plan)]]

\* UPDATE files ... [AND version = expected].  ConflictDetected leaves the
\* upload to be resolved.
Update(d) ==
  LET u == upload[d] IN
  /\ At(d, "update")
  /\ IF u.checked /\ row.version # u.base
     THEN /\ upload' = [upload EXCEPT ![d].plan = << >>]
          /\ UNCHANGED <<row, versionOf, rivals>>
     ELSE /\ row' = [version |-> row.version + 1, fingerprint |-> u.edit]
          /\ versionOf' = [versionOf EXCEPT ![u.edit] = row.version + 1]
          /\ rivals' = {u.edit} \cup {upload[o].edit : o \in {o \in Devices : At(o, "put")}}
          /\ Advance(d)
  /\ UNCHANGED <<object, copies, numbers, visible, client>>

Put(d) ==
  /\ At(d, "put")
  /\ object' = upload[d].edit
  /\ Advance(d)
  /\ UNCHANGED <<row, copies, numbers, visible, client, versionOf, rivals>>

\* INSERT INTO sync_events: nextval,
Number(d) ==
  /\ At(d, "number")
  /\ numbers' = [numbers EXCEPT ![upload[d].edit] = Max({numbers[e] : e \in Edits}) + 1]
  /\ Advance(d)
  /\ UNCHANGED <<row, object, copies, visible, client, versionOf, rivals>>

\* and the commit.
Commit(d) ==
  /\ At(d, "commit")
  /\ visible' = visible \cup {upload[d].edit}
  /\ Advance(d)
  /\ UNCHANGED <<row, object, copies, numbers, client, versionOf, rivals>>

Conflict(d) == upload[d] # NoUpload /\ ~ Busy(d)

\* The user's answer to a conflict: last write wins, both are kept, or neither.
LastWriteWins(d) ==
  /\ Conflict(d)
  /\ upload' = [upload EXCEPT ![d].plan = UpdatePlan, ![d].checked = FALSE]
  /\ UNCHANGED <<row, object, copies, numbers, visible, client, versionOf, rivals>>

KeepBoth(d) ==
  /\ Conflict(d)
  /\ upload' = [upload EXCEPT ![d].plan = CopyPlan]
  /\ UNCHANGED <<row, object, copies, numbers, visible, client, versionOf, rivals>>

\* The row of the copy, after its bytes.
InsertCopy(d) ==
  /\ At(d, "insert copy")
  /\ copies' = copies \cup {upload[d].edit}
  /\ Advance(d)
  /\ UNCHANGED <<row, object, numbers, visible, client, versionOf, rivals>>

\* The upload is given up, or dies where it is.
Stop(d) ==
  /\ upload[d] # NoUpload
  /\ upload' = [upload EXCEPT ![d] = NoUpload]
  /\ rivals' = IF At(d, "put") THEN rivals \cup {object} ELSE rivals
  /\ UNCHANGED <<row, object, copies, numbers, visible, client, versionOf>>

\* A round of _poll_loop: the events past the cursor, each joined with the row
\* its file has by now.
Poll(d) ==
  LET cursor == client[d].last_seen_event
      new == {e \in visible : numbers[e] > cursor}
      last == Max({numbers[e] : e \in new})
  IN  /\ new # {}
      /\ client' = [client EXCEPT ![d] =
           [last_seen_event |-> last,
            known |-> IF new \subseteq copies THEN @.known ELSE row.version,
            heard |-> @.heard \cup (new \cap copies),
            skipped |-> @.skipped \cup {e \in Edits \ visible : numbers[e] \in cursor + 1..last}]]
      /\ UNCHANGED <<row, object, copies, numbers, visible, upload, versionOf, rivals>>

Next ==
  \E d \in Devices :
    \/ \E e \in Edits, checked \in BOOLEAN : Edit(d, e, checked)
    \/ Update(d) \/ Put(d) \/ Number(d) \/ Commit(d)
    \/ LastWriteWins(d) \/ KeepBoth(d) \/ InsertCopy(d)
    \/ Stop(d) \/ Poll(d)

Spec == Init /\ [][Next]_vars
-----------------------------------------------------------------------------
Contents == Edits \cup {Original}
Versions == 0..Cardinality(Edits) + 1
Steps == {"update", "put", "number", "commit", "insert copy"}

TypeOK ==
  /\ row \in [version : Versions, fingerprint : Contents] /\ object \in Contents
  /\ copies \subseteq Edits
  /\ numbers \in [Edits -> Versions] /\ visible \subseteq Edits
  /\ upload \in [Devices -> [edit : Contents, base : Versions, checked : BOOLEAN, plan : Seq(Steps)]]
  /\ client \in [Devices -> [last_seen_event : Versions, known : Versions,
                             heard : SUBSET Edits, skipped : SUBSET Edits]]
  /\ versionOf \in [Edits -> Versions] /\ rivals \subseteq Contents

\* When no bytes are on their way, those in the store are of the version in the
\* database, or of an upload whose bytes were on their way when that version was
\* accepted, or what was there when such an upload died.  An edit that was
\* refused, or superseded before, never comes back.
BytesAreCurrent == (\A d \in Devices : ~ At(d, "put")) => object \in rivals

\* A client whose cursor has passed the event of a conflict copy knows of the copy,
\* unless the event was still invisible then, overtaken by a later one.  Of an update
\* it knows even so, by the next event of the file that it is given: the version
\* comes from the row, which was written before the event got its number
\* (SyncClient._poll_loop).
CursorCoversChanges ==
  \A d \in Devices, e \in Edits :
    LET c == client[d]
        Passed(f) == numbers[f] \in numbers[e]..c.last_seen_event
    IN  numbers[e] > 0 /\ Passed(e) =>
          IF e \in copies THEN e \in c.heard \cup c.skipped
          ELSE /\ versionOf[e] # 0
               /\ (\E f \in Edits \ (copies \cup c.skipped) : Passed(f)) => versionOf[e] <= c.known

\* What notebook 02 says of polling (line 701): it "never misses events".  A client
\* knows of a change whose event is committed and behind its cursor.
PollingMissesNothing ==
  \A d \in Devices, e \in visible :
    numbers[e] <= client[d].last_seen_event =>
      IF e \in copies THEN e \in client[d].heard ELSE versionOf[e] <= client[d].known
=============================================================================
