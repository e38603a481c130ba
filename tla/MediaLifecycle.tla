---------------------------- MODULE MediaLifecycle ----------------------------
(***************************************************************************)
(* Uploaded pictures: an object in the bucket, a media_assets row with its *)
(* storage key, and the slot of a user, character, campaign or element     *)
(* that shows it.  An upload stores the object first, then attaches the    *)
(* row in a transaction; objects that are no longer used are deleted after *)
(* the commit.  A request can fail or stop between any two of these, and   *)
(* the reconciliation removes what was left.                               *)
(***************************************************************************)
EXTENDS FiniteSets

CONSTANTS
    Slots,          \* the columns that show a picture
    CharacterSlots, \* avatars: removing the character leaves the asset row
    MapSlots,       \* maps: an external URL is written without a lock
    AssetId,        \* ids of uploads, of their rows and of their objects
    NoAsset,        \* a slot without an uploaded picture
    Handlers        \* requests served at the same time

ASSUME MediaAssumption ==
    /\ CharacterSlots \subseteq Slots /\ MapSlots \subseteq Slots
    /\ NoAsset \notin AssetId
    /\ AssetId \cap {"none", "external"} = {}

VARIABLES
    slot,       \* slot[s]: does its owner exist, the asset it references, the URL it has
    issued,     \* ids of uploads so far
    row,        \* assets with a row in media_assets
    stored,     \* assets with an object in the bucket
    old,        \* assets past the grace period
    doubtful,   \* assets attached by a commit that was reported as failed
    request,    \* request[p]: what handler p has still to do
    job         \* what the reconciliation has still to do

database == <<slot, row>>
vars == <<slot, issued, row, stored, old, doubtful, request, job>>

Url == AssetId \cup {"none", "external"}
Slot == [exists : BOOLEAN, asset : AssetId \cup {NoAsset}, url : Url]

Idle == [op |-> "idle"]
Request ==
    [op : {"upload"}, slot : Slots, asset : AssetId]
    \cup [op : {"setUrl"}, slot : Slots, url : {"none", "external"},
          seen : AssetId \cup {NoAsset}]
    \cup [op : {"cleanup"}, keys : SUBSET AssetId]
Cleaning(keys) == IF keys = {} THEN Idle ELSE [op |-> "cleanup", keys |-> keys]

Steps == {"idle", "rows", "rowObject", "objects", "recheck", "object"}
Job ==
    [step : Steps, asset : AssetId \cup {NoAsset}, cutoff : SUBSET AssetId,
     due : SUBSET AssetId, todo : SUBSET AssetId, errors : BOOLEAN]
NoJob ==
    [step |-> "idle", asset |-> NoAsset, cutoff |-> {}, due |-> {}, todo |-> {},
     errors |-> FALSE]

Referenced(a) == \E s \in Slots : slot[s].asset = a
Uploading(a) == \E p \in Handlers : request[p].op = "upload" /\ request[p].asset = a
Orphans == {a \in row : ~Referenced(a)} \cup (stored \ row)
Held(s) == {slot[s].asset} \ {NoAsset}

MediaInit ==
    /\ slot = [s \in Slots |-> [exists |-> TRUE, asset |-> NoAsset, url |-> "none"]]
    /\ issued = {} /\ row = {} /\ stored = {} /\ old = {} /\ doubtful = {}
    /\ request = [p \in Handlers |-> Idle]
    /\ job = NoJob

Become(p, r) == request' = [request EXCEPT ![p] = r]

-----------------------------------------------------------------------------
(* Uploads.                                                                  *)

\* The requester may edit the slot, and the object is stored under a new key.
Put(p) ==
    /\ request[p] = Idle
    /\ \E s \in Slots, a \in AssetId \ issued :
        /\ slot[s].exists
        /\ issued' = issued \cup {a}
        /\ stored' = stored \cup {a}
        /\ Become(p, [op |-> "upload", slot |-> s, asset |-> a])
    /\ UNCHANGED <<database, old, doubtful, job>>

\* The storage answers with an error or not in time; it may have the object.
PutFails ==
    /\ \E a \in AssetId \ issued :
        /\ issued' = issued \cup {a}
        /\ stored' \in {stored, stored \cup {a}}
    /\ UNCHANGED <<database, old, doubtful, request, job>>

\* The writes of the transaction, made with the owner's row or campaign locked: the
\* new row, the slot, and the deletion of the row that is replaced.
Replace(s, a) ==
    /\ slot[s].exists
    /\ slot' = [slot EXCEPT ![s].asset = a, ![s].url = a]
    /\ row' = (row \ Held(s)) \cup {a}

\* The transaction commits; the object of the picture that was replaced goes next.
Attach(p) ==
    LET r == request[p] IN
    /\ r.op = "upload"
    /\ Replace(r.slot, r.asset)
    /\ Become(p, Cleaning(Held(r.slot)))
    /\ UNCHANGED <<issued, stored, old, doubtful, job>>

\* The transaction commits and the answer to the commit is lost: the handler takes
\* it for a failure and goes on to delete the new object.
AttachUnanswered(p) ==
    LET r == request[p] IN
    /\ r.op = "upload"
    /\ Replace(r.slot, r.asset)
    /\ doubtful' = doubtful \cup {r.asset}
    /\ Become(p, Cleaning({r.asset}))
    /\ UNCHANGED <<issued, stored, old, job>>

\* The owner is gone, the requester may no longer edit it, or the transaction failed.
AttachFails(p) ==
    /\ request[p].op = "upload"
    /\ Become(p, Cleaning({request[p].asset}))
    /\ UNCHANGED <<database, issued, stored, old, doubtful, job>>

\* cleanupObject: errors are logged and nothing else.
Cleanup(p) ==
    /\ request[p].op = "cleanup"
    /\ \E a \in request[p].keys :
        /\ stored' \in {stored, stored \ {a}}
        /\ Become(p, Cleaning(request[p].keys \ {a}))
    /\ UNCHANGED <<database, issued, old, doubtful, job>>

-----------------------------------------------------------------------------
(* Requests that take a picture away.                                        *)

\* Mutant: the slot keeps the URL of the picture.
ClearKeepingUrl(p) ==
    /\ request[p] = Idle
    /\ \E s \in Slots :
        /\ slot[s].exists
        /\ slot[s].asset # NoAsset
        /\ slot' = [slot EXCEPT ![s].asset = NoAsset]
        /\ row' = row \ Held(s)
        /\ Become(p, Cleaning(Held(s)))
    /\ UNCHANGED <<issued, stored, old, doubtful, job>>

\* A deletion of the picture, or an external URL (or none) for an avatar or a cover.
Clear(p) ==
    /\ request[p] = Idle
    /\ \E s \in Slots, url \in {"none", "external"} :
        /\ slot[s].exists
        /\ slot[s].asset # NoAsset \/ s \notin MapSlots
        /\ url = "external" => s \notin MapSlots
        /\ slot' = [slot EXCEPT ![s].asset = NoAsset, ![s].url = url]
        /\ row' = row \ Held(s)
        /\ Become(p, Cleaning(Held(s)))
    /\ UNCHANGED <<issued, stored, old, doubtful, job>>

\* ElementService.update with a map URL reads the current asset, without a lock ...
ReadMap(p) ==
    /\ request[p] = Idle
    /\ \E s \in MapSlots, url \in {"none", "external"} :
        /\ slot[s].exists
        /\ Become(p, [op |-> "setUrl", slot |-> s, url |-> url, seen |-> slot[s].asset])
    /\ UNCHANGED <<database, issued, stored, old, doubtful, job>>

\* ... then writes; the deletion of a row that has gone meanwhile rolls it back.
SetMapUrl(p) ==
    LET r == request[p]
        had == {r.seen} \ {NoAsset}
    IN  /\ r.op = "setUrl"
        /\ slot[r.slot].exists
        /\ had \subseteq row
        /\ slot' = [slot EXCEPT ![r.slot].url = r.url,
                                ![r.slot].asset = IF had = {} THEN @ ELSE NoAsset]
        /\ row' = row \ had
        /\ Become(p, Cleaning(had))
        /\ UNCHANGED <<issued, stored, old, doubtful, job>>

\* A character, an element or the campaign is removed, with the slots of its rows.
\* A character's own removal leaves its asset row behind.
RemoveOwner(p) ==
    /\ request[p] = Idle
    /\ \E S \in SUBSET Slots \ {{}}, keepsRow \in BOOLEAN :
        LET assets == UNION {Held(s) : s \in S}
        IN  /\ \A s \in S : slot[s].exists
            /\ keepsRow => \E s \in CharacterSlots : S = {s}
            /\ slot' = [s \in Slots |-> IF s \in S
                    THEN [exists |-> FALSE, asset |-> NoAsset, url |-> "none"]
                    ELSE slot[s]]
            /\ IF keepsRow THEN UNCHANGED <<row, request>>
               ELSE row' = row \ assets /\ Become(p, Cleaning(assets))
    /\ UNCHANGED <<issued, stored, old, doubtful, job>>

\* A request that wrote nothing yet fails, or the process of a handler stops.
Crash(p) ==
    /\ request[p] # Idle
    /\ Become(p, Idle)
    /\ UNCHANGED <<database, issued, stored, old, doubtful, job>>

\* The grace period of an object passes.  It is an hour, longer than any upload takes.
Age(a) ==
    /\ a \in issued \ old
    /\ ~Uploading(a)
    /\ old' = old \cup {a}
    /\ UNCHANGED <<database, issued, stored, doubtful, request, job>>

-----------------------------------------------------------------------------
(* reconcile: first the rows without an owner, then the objects without a    *)
(* row, one after the other.                                                 *)

\* "cutoff" holds what is past the grace period when the job starts; "due" records
\* what should be gone when it ends.
StartJob ==
    /\ job.step = "idle"
    /\ job' = [NoJob EXCEPT !.step = "rows", !.cutoff = old, !.due = Orphans \cap old,
                            !.todo = {a \in row \cap old : ~Referenced(a)}]
    /\ UNCHANGED <<database, issued, stored, old, doubtful, request>>

\* A row is deleted if it still has no owner, and its object goes next.
RemoveRow ==
    /\ job.step = "rows"
    /\ \E a \in job.todo :
        \/ /\ a \in row /\ ~Referenced(a)
           /\ row' = row \ {a}
           /\ job' = [job EXCEPT !.step = "rowObject", !.asset = a, !.todo = @ \ {a}]
        \/ /\ a \notin row \/ Referenced(a)
           /\ job' = [job EXCEPT !.todo = @ \ {a}]
           /\ UNCHANGED row
    /\ UNCHANGED <<slot, issued, stored, old, doubtful, request>>

\* Mutant: a failed deletion is not counted.
RemoveObjectUncounted(step, next) ==
    /\ job.step = step
    /\ stored' \in {stored, stored \ {job.asset}}
    /\ job' = [job EXCEPT !.step = next, !.asset = NoAsset]
    /\ UNCHANGED <<database, issued, old, doubtful, request>>

\* removeObject: the deletion succeeds, or it counts as an error.
RemoveObject(step, next) ==
    /\ job.step = step
    /\ \/ stored' = stored \ {job.asset} /\ job' = [job EXCEPT !.step = next, !.asset = NoAsset]
       \/ /\ stored' \in {stored, stored \ {job.asset}}
          /\ job' = [job EXCEPT !.step = next, !.asset = NoAsset, !.errors = TRUE]
    /\ UNCHANGED <<database, issued, old, doubtful, request>>

\* Mutant: the age of an object is not looked at.
ListAll ==
    /\ job.step = "rows" /\ job.todo = {}
    /\ job' = [job EXCEPT !.step = "objects", !.todo = stored]
    /\ UNCHANGED <<database, issued, stored, old, doubtful, request>>

\* The bucket is listed; younger objects are passed over.
List ==
    /\ job.step = "rows" /\ job.todo = {}
    /\ job' = [job EXCEPT !.step = "objects", !.todo = stored \cap job.cutoff]
    /\ UNCHANGED <<database, issued, stored, old, doubtful, request>>

\* The first look for a row of the object ...
CheckObject ==
    /\ job.step = "objects"
    /\ \E a \in job.todo :
        job' = IF a \in row THEN [job EXCEPT !.todo = @ \ {a}]
               ELSE [job EXCEPT !.step = "recheck", !.asset = a, !.todo = @ \ {a}]
    /\ UNCHANGED <<database, issued, stored, old, doubtful, request>>

\* ... and the one right before the deletion.
RecheckObject ==
    /\ job.step = "recheck"
    /\ job' = IF job.asset \in row THEN [job EXCEPT !.step = "objects", !.asset = NoAsset]
              ELSE [job EXCEPT !.step = "object"]
    /\ UNCHANGED <<database, issued, stored, old, doubtful, request>>

\* The report is out, or the job was interrupted: the listing or the database failed.
EndJob ==
    /\ job.step # "idle"
    /\ job' = NoJob
    /\ UNCHANGED <<database, issued, stored, old, doubtful, request>>

Reconcile ==
    \/ StartJob \/ RemoveRow \/ RemoveObject("rowObject", "rows") \/ List
    \/ CheckObject \/ RecheckObject \/ RemoveObject("object", "objects") \/ EndJob

MediaNext ==
    \/ \E p \in Handlers :
        \/ Put(p) \/ Attach(p) \/ AttachUnanswered(p) \/ AttachFails(p) \/ Cleanup(p)
        \/ Clear(p) \/ ReadMap(p) \/ SetMapUrl(p) \/ RemoveOwner(p) \/ Crash(p)
    \/ PutFails
    \/ \E a \in AssetId : Age(a)
    \/ Reconcile

MediaSpec == MediaInit /\ [][MediaNext]_vars

-----------------------------------------------------------------------------
MediaTypeOK ==
    /\ slot \in [Slots -> Slot]
    /\ UNION {row, stored, old, doubtful} \subseteq issued
    /\ issued \subseteq AssetId
    /\ request \in [Handlers -> Request \cup {Idle}]
    /\ job \in Job

\* A slot that shows an upload can be served (getMediaContent): the slot references
\* the asset of its URL, and that has its row and its object, whatever replacements,
\* cleanups and the reconciliation do beside it.  Only the object of an upload whose
\* commit went unanswered may be missing.
PicturesServed ==
    \A s \in Slots : slot[s].url \in AssetId =>
        /\ slot[s].asset = slot[s].url
        /\ slot[s].url \in row
        /\ slot[s].url \in stored \cup doubtful

\* "Only entries older than the grace period are touched so in-flight uploads survive"
\* (reconcile): the object of an upload is there until its transaction ends.
UploadsSurvive ==
    \A p \in Handlers : request[p].op = "upload" => request[p].asset \in stored \ row

\* A reconciliation that ends without an error has removed every row and object that
\* was an orphan past its grace period when it started, and what stayed is in use.
CleanReport ==
    job.step = "objects" /\ job.todo = {} /\ ~job.errors => job.due \cap (row \cup stored) = {}

\* "Setting it (or null) removes an uploaded map file" (element.dto.ts): a map with an
\* external URL keeps no upload.
UrlReplacesUpload ==
    \A s \in Slots : slot[s].url = "external" => slot[s].asset = NoAsset
=============================================================================
