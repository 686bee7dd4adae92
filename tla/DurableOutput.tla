----------------------------- MODULE DurableOutput -----------------------------
(***************************************************************************)
(* lib/client-video-mix-output.ts: finished videos kept on the device      *)
(* until they are confirmed and saved.  The bytes are a file of the        *)
(* origin's private file system, or inside the record when that fails; the *)
(* record is a row of IndexedDB.  Tabs share both and may go at any step.  *)
(* Every IndexedDB request is a transaction of its own that has committed  *)
(* or not when it is answered (waitForIndexedDbTransaction).               *)
(***************************************************************************)
EXTENDS Integers, FiniteSets

CONSTANTS
    Outputs,    \* ids, each drawn for one save
    Tabs,
    MaxCrashes  \* bound of the model: tabs that go in the middle

VARIABLES
    stored,   \* id -> record: "none", or [status, storage]
    files,    \* ids with a file
    op,       \* what each tab is doing
    expired,  \* ids older than VIDEO_MIX_OUTPUT_MAX_AGE_MS
    crashes,
    used,     \* ids drawn (history)
    kept,     \* ids whose save was answered and that nobody deletes (history)
    revived,  \* ids put back by a mark that had read them (history)
    leaked    \* ids whose file removal failed or was cut short (history)

duvars == <<stored, files, op, expired, crashes, used, kept, revived, leaked>>

NoRecord == [status |-> "none", storage |-> "none"]
Idle == [do |-> "idle", id |-> "none", seen |-> NoRecord]
Doing(t, what, o, seen) == op' = [op EXCEPT ![t] = [do |-> what, id |-> o, seen |-> seen]]
Finish(t) == op' = [op EXCEPT ![t] = Idle]
At(t, what) == op[t].do = what
o_(t) == op[t].id

-------------------------------------------------------------------------------
(* saveDurableVideoMixOutput                                                 *)

\* The estimate of the space says enough, or nothing.
SaveBegin(t, o) ==
    /\ At(t, "idle") /\ o \notin used
    /\ used' = used \cup {o}
    /\ Doing(t, "write", o, NoRecord)
    /\ UNCHANGED <<stored, files, expired, crashes, kept, revived, leaked>>

\* writeOutputToOpfs: a failed write is removed, and the record takes the bytes.
WriteFile(t) ==
    /\ At(t, "write")
    /\ \/ /\ files' = files \cup {o_(t)}
          /\ Doing(t, "put", o_(t), [status |-> "pending", storage |-> "opfs"]) /\ UNCHANGED leaked
       \/ /\ Doing(t, "put", o_(t), [status |-> "pending", storage |-> "indexeddb"]) /\ UNCHANGED <<files, leaked>>
       \/ /\ files' = files \cup {o_(t)} /\ leaked' = leaked \cup {o_(t)}  \* nor can it be removed
          /\ Doing(t, "put", o_(t), [status |-> "pending", storage |-> "indexeddb"])
    /\ UNCHANGED <<stored, expired, crashes, used, kept, revived>>

\* Mutant: a failed put leaves the file.
FailsKeepingFile(t) == Finish(t) /\ UNCHANGED <<files, leaked>>

PutFails(t) ==
    IF op[t].seen.storage = "opfs" THEN Doing(t, "unlink", o_(t), op[t].seen) /\ UNCHANGED <<files, leaked>>
    ELSE Finish(t) /\ UNCHANGED <<files, leaked>>

PutRecord(t) ==
    /\ At(t, "put")
    /\ \/ /\ stored' = [stored EXCEPT ![o_(t)] = op[t].seen]
          /\ kept' = kept \cup {o_(t)}
          /\ Finish(t) /\ UNCHANGED <<files, leaked>>
       \/ PutFails(t) /\ UNCHANGED <<stored, kept>>
    /\ UNCHANGED <<expired, crashes, used, revived>>

\* deleteOutputFromOpfs, whose failure is ignored.
Unlink(t) ==
    /\ At(t, "unlink")
    /\ \/ files' = files \ {o_(t)} /\ UNCHANGED leaked
       \/ leaked' = leaked \cup {o_(t)} /\ UNCHANGED files
    /\ Finish(t)
    /\ UNCHANGED <<stored, expired, crashes, used, kept, revived>>

-------------------------------------------------------------------------------
\* markDurableVideoMixOutputCompleted: read and written in two transactions.
MarkRead(t, o) ==
    /\ At(t, "idle") /\ stored[o] # NoRecord
    /\ Doing(t, "complete", o, stored[o])
    /\ UNCHANGED <<stored, files, expired, crashes, used, kept, revived, leaked>>

MarkPut(t) ==
    /\ At(t, "complete")
    /\ \/ /\ stored' = [stored EXCEPT ![o_(t)] = [op[t].seen EXCEPT !.status = "completed"]]
          /\ revived' = IF stored[o_(t)] = NoRecord THEN revived \cup {o_(t)} ELSE revived
       \/ UNCHANGED <<stored, revived>>
    /\ Finish(t)
    /\ UNCHANGED <<files, expired, crashes, used, kept, leaked>>

\* deleteDurableVideoMixOutput: by the customer, or because it expired
\* (cleanupExpiredVideoMixOutputs).
DeleteRead(t, o) ==
    /\ At(t, "idle") /\ stored[o] # NoRecord
    /\ Doing(t, "delete", o, stored[o])
    /\ kept' = kept \ {o}
    /\ UNCHANGED <<stored, files, expired, crashes, used, revived, leaked>>

DeletesRecord(t) ==
    /\ stored' = [stored EXCEPT ![o_(t)] = NoRecord]
    /\ IF op[t].seen.storage = "opfs" THEN Doing(t, "unlink", o_(t), op[t].seen) ELSE Finish(t)

Delete(t) ==
    /\ At(t, "delete")
    /\ DeletesRecord(t) \/ (Finish(t) /\ UNCHANGED stored)  \* the transaction aborted
    /\ UNCHANGED <<files, expired, crashes, used, kept, revived, leaked>>

Age(o) ==
    /\ stored[o] # NoRecord /\ o \notin expired
    /\ expired' = expired \cup {o}
    /\ UNCHANGED <<stored, files, op, crashes, used, kept, revived, leaked>>

\* listDurableVideoMixOutputRecoveryCandidates, then loadDurableVideoMixOutput
\* of one that is the customer's: the record first, its file after.
LoadRead(t, o) ==
    /\ At(t, "idle") /\ stored[o] # NoRecord /\ o \notin expired
    /\ Doing(t, "load", o, stored[o])
    /\ UNCHANGED <<stored, files, expired, crashes, used, kept, revived, leaked>>

Bytes(o, record) == record.storage = "indexeddb" \/ (record.storage = "opfs" /\ o \in files)

Load(t) ==
    /\ At(t, "load")
    /\ Doing(t, IF Bytes(o_(t), op[t].seen) THEN "shown" ELSE "idle", IF Bytes(o_(t), op[t].seen) THEN o_(t) ELSE "none",
             IF Bytes(o_(t), op[t].seen) THEN op[t].seen ELSE NoRecord)
    /\ UNCHANGED <<stored, files, expired, crashes, used, kept, revived, leaked>>

Leave(t) ==
    /\ At(t, "shown") /\ Finish(t)
    /\ UNCHANGED <<stored, files, expired, crashes, used, kept, revived, leaked>>

\* The tab is closed or purged; a stream that was open is not a file yet.
Crash(t) ==
    /\ crashes < MaxCrashes /\ op[t].do \notin {"idle", "shown"}
    /\ crashes' = crashes + 1
    /\ leaked' = IF (At(t, "put") /\ o_(t) \in files) \/ At(t, "unlink") THEN leaked \cup {o_(t)} ELSE leaked
    /\ Finish(t)
    /\ UNCHANGED <<stored, files, expired, used, kept, revived>>

DuInit ==
    /\ stored = [o \in Outputs |-> NoRecord] /\ files = {} /\ op = [t \in Tabs |-> Idle]
    /\ expired = {} /\ crashes = 0 /\ used = {} /\ kept = {} /\ revived = {} /\ leaked = {}

DuNext ==
    \/ \E t \in Tabs, o \in Outputs : SaveBegin(t, o) \/ MarkRead(t, o) \/ DeleteRead(t, o) \/ LoadRead(t, o)
    \/ \E t \in Tabs : WriteFile(t) \/ PutRecord(t) \/ Unlink(t) \/ MarkPut(t) \/ Delete(t) \/ Load(t) \/ Leave(t) \/ Crash(t)
    \/ \E o \in Outputs : Age(o)

DuSpec == DuInit /\ [][DuNext]_duvars

-------------------------------------------------------------------------------
Works == {"idle", "write", "put", "unlink", "complete", "delete", "load", "shown"}

DuTypeOK ==
    /\ stored \in [Outputs -> [status : {"none", "pending", "completed"}, storage : {"none", "opfs", "indexeddb"}]]
    /\ \A t \in Tabs : op[t].do \in Works

\* A video whose save was answered can be had again until it is deleted, even
\* when it was charged and the tab went right after.
SavedIsKept == \A o \in kept : stored[o] # NoRecord /\ Bytes(o, stored[o])

\* A record names bytes that are there: only one that is being deleted, or was
\* put back by a mark that had read it before, does not.
RecordsHaveBytes ==
    \A o \in Outputs : (stored[o] # NoRecord /\ ~Bytes(o, stored[o])) => o \in revived

\* A file belongs to a record or to a step under way: what else is left was
\* left by a failed removal or a tab that went.
FilesAreOwned ==
    \A o \in files :
        \/ stored[o].storage = "opfs" \/ o \in leaked
        \/ \E t \in Tabs : op[t].id = o /\ op[t].do \in {"put", "unlink"}

\* A confirmed video is never taken for one that still has to be paid.
ConfirmedForGood ==
    \A o \in Outputs : (stored[o].status = "completed" /\ stored'[o] # NoRecord) => stored'[o].status = "completed"
-------------------------------------------------------------------------------
(* What every step keeps.                                                   *)

Records == [status : {"pending", "completed"}, storage : {"opfs", "indexeddb"}]
Tasks == [do : Works, id : Outputs \cup {"none"}, seen : Records \cup {NoRecord}]
Busy(s) == s.do # "idle"
Saving(s) == s.do \in {"write", "put"}
Owns(s, o) == s.id = o /\ s.do \in {"put", "unlink"}

DuKinds ==
    /\ stored \in [Outputs -> Records \cup {NoRecord}]
    /\ op \in [Tabs -> Tasks]
    /\ used \subseteq Outputs /\ files \subseteq used /\ kept \subseteq used
    /\ \A o \in Outputs : stored[o] # NoRecord => o \in used

\* An id is being saved before any record of it is there.
SavesAnew(s) ==
    /\ Busy(s) => s.id \in used
    /\ Saving(s) => stored[s.id] = NoRecord
    /\ s.do = "write" => s.id \notin files
    /\ s.do = "put" =>
          /\ s.seen \in Records /\ (s.seen.storage = "opfs" => s.id \in files)
          /\ s.seen.storage = "indexeddb" /\ s.id \in files => s.id \in leaked

\* What a step read of a record is still where its bytes are, and what it is
\* about to take away nobody was told to be kept.
ReadsTheRecord(s) ==
    /\ s.do \in {"complete", "delete", "load", "shown", "unlink"} =>
          s.seen \in Records /\ stored[s.id].storage \in {"none", s.seen.storage}
    /\ s.do \in {"delete", "unlink"} => s.id \notin kept
    /\ s.do = "unlink" => s.seen.storage = "opfs" /\ (stored[s.id] = NoRecord \/ s.id \in revived)

Sound(s) == SavesAnew(s) /\ ReadsTheRecord(s)

\* Two tabs at one id: neither is saving it, and both know where it is kept.
Agree(s, v) ==
    s.id = v.id /\ Busy(s) /\ Busy(v) => ~Saving(s) /\ ~Saving(v) /\ s.seen.storage = v.seen.storage

DurableIInv ==
    /\ DuKinds
    /\ \A t \in Tabs : Sound(op[t])
    /\ \A t, u \in Tabs : t # u => Agree(op[t], op[u])
    /\ SavedIsKept /\ RecordsHaveBytes /\ FilesAreOwned
===============================================================================
