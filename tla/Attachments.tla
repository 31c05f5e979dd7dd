---------------------------- MODULE Attachments ----------------------------
(***************************************************************************)
(* Attachment blobs of one account: the slot a device is given for an       *)
(* upload (a row in PostgreSQL), the bytes it puts there (a file), their    *)
(* removal by the owner or by the task that sweeps expired rows, and the    *)
(* attachment rows by which a recipient's store remembers what it has       *)
(* downloaded (routes/attachments.rs, db/attachments.rs, blobstore.rs,      *)
(* tasks/mod.rs, store/attachments.rs).                                     *)
(*                                                                         *)
(* Row and file are changed by separate statements.  Every blob counts one  *)
(* towards the hourly quota; the request-rate limit, other accounts,        *)
(* encryption and the digest, which turns a short file into an error for    *)
(* the recipient, are left out.                                             *)
(***************************************************************************)
EXTENDS Integers, Sequences, FiniteSets

CONSTANTS
    Uploaders,     \* devices of the account: one upload at a time each
    Quota,         \* attachment_bytes_per_hour, in blobs
    MaxSlots,      \* bound: slots ever allocated
    MaxMishaps,    \* bound: failures
    MaxSaves       \* bound: saves of the message that points at a blob

ASSUME AttachmentAssumption ==
    /\ IsFiniteSet(Uploaders) /\ Uploaders # {}
    /\ Quota \in Nat \ {0} /\ MaxSlots \in Nat /\ MaxMishaps \in Nat /\ MaxSaves \in Nat

VARIABLES
    slots,     \* per slot: its row is "kept" or "gone"
    recent,    \* slots allocated within the last hour
    late,      \* slots past their TTL
    file,      \* per slot: bytes on disk
    upload,    \* upload[d]: the request device d has under way
    doomed,    \* slots whose row a deletion has removed and whose file it will
    pointers,  \* slots whose upload was answered with success
    mine,      \* a recipient's attachment row: its id, what the UI holds, the path
    leaked,    \* files nothing will ever remove
    mishaps

blobVars == <<slots, recent, late, file, upload, doomed, pointers, mine, leaked, mishaps>>

Whole == 3     \* bytes of a blob; less than these is an unfinished write
NoFile == -1
AtRest == [step |-> "idle", slot |-> 0]

BlobsInit ==
    /\ slots = <<>> /\ recent = {} /\ late = {} /\ file = <<>>
    /\ upload = [d \in Uploaders |-> AtRest]
    /\ doomed = {} /\ pointers = {} /\ leaked = {} /\ mishaps = 0
    /\ mine = [id |-> 0, shown |-> 0, path |-> FALSE, saves |-> 0]

Rows == {x \in DOMAIN slots : slots[x] = "kept"}
OnDisk(x) == x \in DOMAIN file /\ file[x] # NoFile
At(d, s) == upload[d].step = s
To(d, s) == upload' = [upload EXCEPT ![d].step = s]
Rests(d) == upload' = [upload EXCEPT ![d] = AtRest]

----------------------------------------------------------------------------
(* Uploading *)

\* bytes_uploaded_since: what has been deleted no longer counts.
Used == Cardinality(Rows \cap recent)

\* allocate, as far as the quota; insert is a statement of its own.
WithinQuota == Used + 1 <= Quota
Allocate(d) ==
    /\ At(d, "idle") /\ WithinQuota
    /\ To(d, "insert")
    /\ UNCHANGED <<slots, recent, late, file, doomed, pointers, mine, leaked, mishaps>>

\* Bound: either several slots are explored or the saves of one message.
SlotBound == IF mine.saves = 0 THEN MaxSlots ELSE 1
InsertSlot(d) ==
    LET x == Len(slots) + 1 IN
    /\ At(d, "insert") /\ x <= SlotBound
    /\ slots' = Append(slots, "kept") /\ file' = Append(file, NoFile)
    /\ recent' = recent \cup {x}
    /\ upload' = [upload EXCEPT ![d] = [step |-> "put", slot |-> x]]
    /\ UNCHANGED <<late, doomed, pointers, mine, leaked, mishaps>>

\* upload: the row is looked up ...
CheckSlot(d) ==
    /\ At(d, "put")
    /\ IF upload[d].slot \in Rows THEN To(d, "open") ELSE Rests(d)
    /\ UNCHANGED <<slots, recent, late, file, doomed, pointers, mine, leaked, mishaps>>

\* ... and the file is written, whatever has become of the row: LocalFs::put
\* creates or empties the file, and fills it.
OpenFile(d) ==
    LET x == upload[d].slot IN
    /\ At(d, "open")
    /\ file' = [file EXCEPT ![x] = 0]
    /\ leaked' = IF x \in Rows \cup doomed THEN leaked ELSE leaked \cup {x}
    /\ To(d, "write")
    /\ UNCHANGED <<slots, recent, late, doomed, pointers, mine, mishaps>>

FillFile(d) ==
    LET x == upload[d].slot IN
    /\ At(d, "write")
    /\ file' = IF OnDisk(x) THEN [file EXCEPT ![x] = Whole] ELSE file
    /\ pointers' = pointers \cup {x}
    /\ Rests(d)
    /\ UNCHANGED <<slots, recent, late, doomed, mine, leaked, mishaps>>

\* The answer to allocate is lost, the disk is full, or the caller is gone.
\* The slot stays, and the file as far as it was written.
UploadFails(d) ==
    /\ ~At(d, "idle") /\ mishaps < MaxMishaps
    /\ Rests(d)
    /\ mishaps' = mishaps + 1
    /\ UNCHANGED <<slots, recent, late, file, doomed, pointers, mine, leaked>>

----------------------------------------------------------------------------
(* Removal: the row first, then the file *)

DeleteAttachment(x) ==
    /\ x \in Rows
    /\ slots' = [slots EXCEPT ![x] = "gone"]
    /\ doomed' = doomed \cup {x}
    /\ UNCHANGED <<recent, late, file, upload, pointers, mine, leaked, mishaps>>

\* delete_expired, one statement for all rows, from the task of spawn_all.
Expired == Rows \cap late
\* The ids it returns.
Returned_All == Rows
Returned == Expired
SweepExpired ==
    /\ Expired # {}
    /\ slots' = [x \in DOMAIN slots |-> IF x \in Expired THEN "gone" ELSE slots[x]]
    /\ doomed' = doomed \cup Returned
    /\ UNCHANGED <<recent, late, file, upload, pointers, mine, leaked, mishaps>>

Removed_Kept(x) == file[x]
Removed(x) == NoFile
DropBlob(x) ==
    /\ x \in doomed
    /\ file' = [file EXCEPT ![x] = Removed(x)]
    /\ doomed' = doomed \ {x}
    /\ UNCHANGED <<slots, recent, late, upload, pointers, mine, leaked, mishaps>>

\* The file cannot be removed; nobody tries again.
DropFails(x) ==
    /\ x \in doomed /\ OnDisk(x) /\ mishaps < MaxMishaps
    /\ doomed' = doomed \ {x} /\ leaked' = leaked \cup {x}
    /\ mishaps' = mishaps + 1
    /\ UNCHANGED <<slots, recent, late, file, upload, pointers, mine>>

\* The server stops: requests and the sweep are cut short where they stand.
ServerStops ==
    /\ mishaps < MaxMishaps /\ doomed # {}
    /\ doomed' = {} /\ leaked' = leaked \cup {x \in doomed : OnDisk(x)}
    /\ upload' = [d \in Uploaders |-> AtRest]
    /\ mishaps' = mishaps + 1
    /\ UNCHANGED <<slots, recent, late, file, pointers, mine>>

HourPasses ==
    /\ recent # {} /\ recent' = {}
    /\ UNCHANGED <<slots, late, file, upload, doomed, pointers, mine, leaked, mishaps>>

TtlPasses(x) ==
    /\ x \in Rows \ late /\ x \notin recent /\ late' = late \cup {x}
    /\ UNCHANGED <<slots, recent, file, upload, doomed, pointers, mine, leaked, mishaps>>

----------------------------------------------------------------------------
(* The recipient's rows *)

\* What a row keeps of the one it replaces, at the same ordinal.
Inherited_Nothing == FALSE
Inherited == mine.path

\* save_attachments: the rows are written anew, with the id the UI gives or,
\* where it has none, another one.
SaveAttachments ==
    /\ pointers # {} /\ mine.saves < MaxSaves /\ Len(slots) = 1
    /\ \E id \in {mine.saves + 1} \cup ({mine.shown} \ {0}) :
          mine' = [mine EXCEPT !.id = id, !.path = Inherited, !.saves = @ + 1]
    /\ UNCHANGED <<slots, recent, late, file, upload, doomed, pointers, leaked, mishaps>>

LoadAttachments ==
    /\ mine.id # mine.shown /\ mine' = [mine EXCEPT !.shown = mine.id]
    /\ UNCHANGED <<slots, recent, late, file, upload, doomed, pointers, leaked, mishaps>>

\* download_attachment, whose digest only a whole file matches, and
\* set_attachment_downloaded, which finds the row by the id it was loaded with.
Downloaded ==
    /\ mine.shown # 0 /\ ~mine.path
    /\ \E x \in pointers : file[x] = Whole
    /\ mine' = [mine EXCEPT !.path = mine.id = mine.shown]
    /\ UNCHANGED <<slots, recent, late, file, upload, doomed, pointers, leaked, mishaps>>

\* parse_range, for a blob of n bytes: where the answer starts and ends, or
\* nothing, and then the whole blob is sent.
Ranges ==
    [kind : {"suffix"}, last : 0..4] \cup [kind : {"from"}, first : 0..4]
        \cup [kind : {"span"}, first : 0..4, last : 0..4]
End_Unclipped(last, n) == last
End(last, n) == IF last < n - 1 THEN last ELSE n - 1
ParseRange(h, n) ==
    CASE n = 0 -> {}
      [] n > 0 /\ h.kind = "suffix" ->
            IF h.last = 0 THEN {} ELSE {<<IF h.last > n THEN 0 ELSE n - h.last, n - 1>>}
      [] n > 0 /\ h.kind = "from" -> IF h.first > n - 1 THEN {} ELSE {<<h.first, n - 1>>}
      [] n > 0 /\ h.kind = "span" ->
            IF h.first > h.last \/ h.first > n - 1 THEN {} ELSE {<<h.first, End(h.last, n)>>}

\* download: the indices of the bytes sent.
Download(h, n) ==
    IF ParseRange(h, n) = {} THEN 0..(n - 1) ELSE UNION {r[1]..r[2] : r \in ParseRange(h, n)}

----------------------------------------------------------------------------
UploadSteps(d) == InsertSlot(d) \/ CheckSlot(d) \/ OpenFile(d) \/ FillFile(d)
BlobsNext ==
    \/ \E d \in Uploaders : Allocate(d) \/ UploadSteps(d) \/ UploadFails(d)
    \/ \E x \in DOMAIN slots :
          DeleteAttachment(x) \/ DropBlob(x) \/ DropFails(x) \/ TtlPasses(x)
    \/ SweepExpired \/ ServerStops \/ HourPasses
    \/ SaveAttachments \/ LoadAttachments \/ Downloaded

BlobsSpec == BlobsInit /\ [][BlobsNext]_blobVars

\* Time passes, the sweep runs every minute, and a removal goes on.
Upkeep ==
    HourPasses \/ SweepExpired \/ \E x \in DOMAIN slots : TtlPasses(x) \/ DropBlob(x)
BlobsFairness == WF_blobVars(Upkeep)

----------------------------------------------------------------------------
\* The types of the state.
BlobsTypeOK ==
    /\ slots \in Seq({"kept", "gone"})
    /\ file \in Seq({NoFile, 0, Whole}) /\ Len(file) = Len(slots)
    /\ recent \cup late \cup doomed \cup pointers \cup leaked \subseteq DOMAIN slots
    /\ upload \in [Uploaders -> [step : {"idle", "insert", "put", "open", "write"}, slot : Nat]]
    /\ mine \in [id : Nat, shown : Nat, path : BOOLEAN, saves : Nat]
    /\ mishaps \in Nat

(* A pointer that a device was given to send opens the whole blob for as    *)
(* long as its row is there, whatever uploads, deletions, sweeps and        *)
(* failures run beside it (upload, delete_expired).                         *)
PointersResolve == \A x \in pointers : x \in Rows => file[x] = Whole

(* Every file is removed in the end, except the ones in leaked: written      *)
(* after a deletion had come and gone, or left by a deletion that failed or *)
(* was cut short, since no later sweep knows of a file without a row        *)
(* (upload, delete_attachment, spawn_all).                                  *)
FilesReclaimed == <>[](\A x \in DOMAIN slots : OnDisk(x) => x \in leaked)

(* A download that is recorded stays recorded however often the message is  *)
(* saved again, with whatever ids (save_attachments).                       *)
DownloadsStick == [][mine.path => mine'.path]_blobVars

(* A range request is answered with exactly the bytes of the file that it   *)
(* names, or with the whole file if it names none (parse_range, download).  *)
RangesServed ==
    \A x \in DOMAIN slots : \A h \in Ranges :
        LET n == IF OnDisk(x) THEN file[x] ELSE 0
            named == {i \in 0..(n - 1) :
                         /\ h.kind = "suffix" => i + h.last >= n
                         /\ h.kind # "suffix" => i >= h.first
                         /\ h.kind = "span" => i <= h.last}
        IN Download(h, n) = IF named = {} THEN 0..(n - 1) ELSE named

(* All that is promised of a blob while it is there: pointers resolve,      *)
(* ranges are served.                                                       *)
AttachmentsHold == PointersResolve /\ RangesServed

(* And of what becomes of it: files are reclaimed, downloads stick.         *)
AttachmentsSettle == FilesReclaimed /\ DownloadsStick
=============================================================================
