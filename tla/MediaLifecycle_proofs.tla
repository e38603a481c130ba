------------------------- MODULE MediaLifecycle_proofs -------------------------
(***************************************************************************)
(* Pictures that are shown can be served and uploads in flight survive,    *)
(* for any number of slots, uploads and concurrent requests.               *)
(***************************************************************************)
EXTENDS MediaLifecycle, TLAPS

\* Objects that some step is about to delete: those of finished requests, and the
\* one the reconciliation is at.
Condemned(a) ==
    \/ \E p \in Handlers : request[p].op = "cleanup" /\ a \in request[p].keys
    \/ job.step \in {"rowObject", "object"} /\ job.asset = a

\* Nothing that is about to be deleted is in use, and what is in flight is new.
CondemnedUnused ==
    \A a \in AssetId : Condemned(a) =>
        /\ a \in issued /\ ~Uploading(a)
        /\ a \in row => a \in doubtful

UploadsNew ==
    \A p \in Handlers : request[p].op = "upload" =>
        LET a == request[p].asset
        IN  /\ a \in issued \ (row \cup old)
            /\ a \in stored
            /\ \A q \in Handlers \ {p} : request[q].op = "upload" => request[q].asset # a

\* An asset is in one slot and has its row.
SlotsApart ==
    /\ \A s \in Slots : slot[s].asset # NoAsset => slot[s].asset \in row
    /\ \A s, t \in Slots :
        s # t /\ slot[s].asset # NoAsset => slot[t].asset # slot[s].asset

\* What an update of a map URL has seen is in no other slot, and never will be.
SeenApart ==
    \A p \in Handlers : request[p].op = "setUrl" /\ request[p].seen # NoAsset =>
        /\ request[p].seen \in issued /\ ~Uploading(request[p].seen)
        /\ \A t \in Slots \ {request[p].slot} : slot[t].asset # request[p].seen

JobKeepsToOld ==
    /\ job.cutoff \subseteq old /\ job.todo \subseteq old
    /\ job.step \in {"rowObject", "recheck", "object"} => job.asset \in old

IInv ==
    /\ MediaTypeOK /\ CondemnedUnused /\ UploadsNew /\ SlotsApart /\ SeenApart
    /\ JobKeepsToOld /\ PicturesServed

-----------------------------------------------------------------------------
LEMMA RequestFields ==
  ASSUME MediaTypeOK, NEW p \in Handlers
  PROVE  /\ request[p].op = "upload" =>
                request[p].slot \in Slots /\ request[p].asset \in AssetId
         /\ request[p].op = "setUrl" =>
                /\ request[p].slot \in Slots /\ request[p].url \in {"none", "external"}
                /\ request[p].seen \in AssetId \cup {NoAsset}
         /\ request[p].op = "cleanup" => request[p].keys \in SUBSET AssetId
<1>1. request[p] \in Request \cup {Idle}
  BY DEF MediaTypeOK
<1> QED BY <1>1 DEF Request, Idle

LEMMA CleaningFields ==
  ASSUME NEW keys \in SUBSET AssetId
  PROVE  /\ Cleaning(keys) \in Request \cup {Idle}
         /\ Cleaning(keys).op \in {"idle", "cleanup"}
         /\ Cleaning(keys).op = "cleanup" => Cleaning(keys).keys = keys
  BY DEF Cleaning, Request, Idle

LEMMA BecomeFields ==
  ASSUME MediaTypeOK, NEW p \in Handlers, NEW r \in Request \cup {Idle}, Become(p, r)
  PROVE  /\ request' \in [Handlers -> Request \cup {Idle}]
         /\ request'[p] = r
         /\ \A q \in Handlers \ {p} : request'[q] = request[q]
  BY DEF MediaTypeOK, Become

LEMMA SlotFields ==
  ASSUME MediaTypeOK, NEW s \in Slots
  PROVE  /\ slot[s].exists \in BOOLEAN
         /\ slot[s].asset \in AssetId \cup {NoAsset}
         /\ slot[s].url \in Url
         /\ slot[s] = [exists |-> slot[s].exists, asset |-> slot[s].asset, url |-> slot[s].url]
  BY DEF MediaTypeOK, Slot

LEMMA InitHolds == MediaInit => IInv
<1> SUFFICES ASSUME MediaInit PROVE IInv
  OBVIOUS
<1> USE MediaAssumption DEF MediaInit
<1>1. MediaTypeOK
  BY DEF MediaTypeOK, Slot, Url, Job, NoJob, Steps
<1>2. CondemnedUnused /\ UploadsNew /\ SeenApart
  BY DEF CondemnedUnused, Condemned, UploadsNew, SeenApart, Idle, NoJob
<1>3. SlotsApart /\ PicturesServed
  BY DEF SlotsApart, PicturesServed
<1>4. JobKeepsToOld
  BY DEF JobKeepsToOld, NoJob
<1> QED BY <1>1, <1>2, <1>3, <1>4 DEF IInv

-----------------------------------------------------------------------------
(* Steps of a handler that leave it idle or with objects to delete.         *)

LEMMA StepsToCleaning ==
  ASSUME IInv, NEW p \in Handlers, NEW keys \in SUBSET AssetId, Become(p, Cleaning(keys)),
         UNCHANGED <<issued, old, job>>,
         keys \subseteq issued, doubtful \subseteq doubtful',
         \A a \in keys : a \in row' => a \in doubtful',
         \A a \in keys, q \in Handlers \ {p} :
            request[q].op = "upload" => request[q].asset # a,
         \A q \in Handlers \ {p} :
            request[q].op = "upload" => request[q].asset \in stored',
         \A a \in row' :
            a \in row \/ (request[p].op = "upload" /\ a = request[p].asset),
         \A t \in Slots : \/ slot'[t].asset \in {slot[t].asset, NoAsset}
                          \/ /\ request[p].op = "upload"
                             /\ slot'[t].asset = request[p].asset
  PROVE  /\ request' \in [Handlers -> Request \cup {Idle}]
         /\ CondemnedUnused' /\ UploadsNew' /\ SeenApart' /\ JobKeepsToOld'
<1> DEFINE r == Cleaning(keys)
<1>1. /\ r \in Request \cup {Idle} /\ r.op \in {"idle", "cleanup"}
      /\ r.op = "cleanup" => r.keys = keys
  BY CleaningFields
<1>2. /\ request' \in [Handlers -> Request \cup {Idle}]
      /\ request'[p] = r
      /\ \A q \in Handlers \ {p} : request'[q] = request[q]
  BY <1>1, BecomeFields DEF IInv
<1> HIDE DEF r
<1>3. \A a : Uploading(a)' => Uploading(a)
  BY <1>1, <1>2 DEF Uploading
<1>4. CondemnedUnused'
  <2> SUFFICES ASSUME NEW a \in AssetId, Condemned(a)'
               PROVE  a \in issued' /\ ~Uploading(a)' /\ (a \in row' => a \in doubtful')
    BY DEF CondemnedUnused
  <2>1. CASE a \in keys
    BY <2>1, <1>1, <1>2 DEF Uploading
  <2>2. CASE Condemned(a)
    <3>1. a \in issued /\ ~Uploading(a) /\ (a \in row => a \in doubtful)
      BY <2>2 DEF IInv, CondemnedUnused
    <3> QED BY <3>1, <1>3 DEF Uploading
  <2>3. a \in keys \/ Condemned(a)
    BY <1>1, <1>2 DEF Condemned
  <2> QED BY <2>1, <2>2, <2>3
<1>5. UploadsNew'
  <2> SUFFICES ASSUME NEW q \in Handlers, request'[q].op = "upload"
               PROVE  /\ request'[q].asset \in issued' \ (row' \cup old')
                      /\ request'[q].asset \in stored'
                      /\ \A o \in Handlers \ {q} :
                            request'[o].op = "upload" => request'[o].asset # request'[q].asset
    BY DEF UploadsNew
  <2>1. q # p /\ request'[q] = request[q]
    BY <1>1, <1>2
  <2>2. /\ request[q].asset \in issued \ (row \cup old)
        /\ \A o \in Handlers \ {q} :
                request[o].op = "upload" => request[o].asset # request[q].asset
    BY <2>1 DEF IInv, UploadsNew
  <2>3. request[q].asset \notin row'
    BY <2>1, <2>2
  <2> QED BY <2>1, <2>2, <2>3, <1>1, <1>2
<1>6. SeenApart'
  <2> SUFFICES ASSUME NEW q \in Handlers, request'[q].op = "setUrl",
                      request'[q].seen # NoAsset
               PROVE  /\ request'[q].seen \in issued' /\ ~Uploading(request[q].seen)'
                      /\ \A t \in Slots \ {request'[q].slot} :
                            slot'[t].asset # request'[q].seen
    BY DEF SeenApart
  <2>1. q # p /\ request'[q] = request[q]
    BY <1>1, <1>2
  <2>2. /\ request[q].seen \in issued /\ ~Uploading(request[q].seen)
        /\ \A t \in Slots \ {request[q].slot} : slot[t].asset # request[q].seen
    BY <2>1 DEF IInv, SeenApart
  <2>3. request[p].op = "upload" => request[p].asset # request[q].seen
    BY <2>2 DEF Uploading
  <2>4. ~Uploading(request[q].seen)'
    <3>1. \A o \in Handlers :
            ~(request'[o].op = "upload" /\ request'[o].asset = request'[q].seen)
      BY <2>1, <2>2, <1>1, <1>2 DEF Uploading
    <3> QED BY <3>1 DEF Uploading
  <2> QED BY <2>1, <2>2, <2>3, <2>4
<1>7. JobKeepsToOld'
  BY DEF IInv, JobKeepsToOld
<1> QED BY <1>2, <1>4, <1>5, <1>6, <1>7

\* The transaction of an upload, whatever its handler hears of it.
LEMMA ReplaceKeeps ==
  ASSUME IInv, NEW p \in Handlers, request[p].op = "upload",
         Replace(request[p].slot, request[p].asset), UNCHANGED <<issued, stored, old, job>>,
         doubtful' \in {doubtful, doubtful \cup {request[p].asset}}
  PROVE  /\ slot' \in [Slots -> Slot] /\ row' \subseteq issued
         /\ SlotsApart' /\ PicturesServed'
         /\ \A a \in row' : a \in row \/ a = request[p].asset
         /\ \A t \in Slots : slot'[t].asset \in {slot[t].asset, request[p].asset}
         /\ Held(request[p].slot) \cap row' = {}
         /\ Held(request[p].slot) \subseteq row
<1> DEFINE a == request[p].asset
           s == request[p].slot
<1>1. /\ s \in Slots /\ a \in AssetId
      /\ a \in issued \ (row \cup old) /\ a \in stored
  BY RequestFields DEF IInv, UploadsNew
<1> HIDE DEF a, s
<1>2. /\ slot' = [slot EXCEPT ![s].asset = a, ![s].url = a]
      /\ row' = (row \ Held(s)) \cup {a}
  BY DEF Replace, a, s
<1>3. /\ slot' \in [Slots -> Slot]
      /\ slot'[s].asset = a /\ slot'[s].url = a
      /\ \A t \in Slots \ {s} : slot'[t] = slot[t]
  <2>1. slot \in [Slots -> Slot]
    BY DEF IInv, MediaTypeOK
  <2>2. [slot[s] EXCEPT !.asset = a, !.url = a] \in Slot
    BY <1>1, <2>1 DEF Slot, Url
  <2> QED BY <1>1, <1>2, <2>1, <2>2 DEF Slot
<1>4. Held(s) \subseteq row /\ a \notin Held(s)
  BY <1>1 DEF Held, IInv, SlotsApart
<1>5. SlotsApart'
  <2>1. \A t \in Slots \ {s} : slot[t].asset # NoAsset =>
            slot[t].asset \in row \ Held(s) /\ slot[t].asset # a
    BY <1>1 DEF IInv, SlotsApart, Held
  <2>2. \A t, u \in Slots \ {s} :
            t # u /\ slot[t].asset # NoAsset => slot[u].asset # slot[t].asset
    BY DEF IInv, SlotsApart
  <2>3. a # NoAsset
    BY <1>1, MediaAssumption
  <2>4. \A t \in Slots : slot'[t].asset # NoAsset => slot'[t].asset \in row'
    BY <1>1, <1>2, <1>3, <2>1
  <2>5. \A t, u \in Slots :
            t # u /\ slot'[t].asset # NoAsset => slot'[u].asset # slot'[t].asset
    BY <1>3, <2>1, <2>2, <2>3
  <2> QED BY <2>4, <2>5 DEF SlotsApart
<1>6. PicturesServed'
  <2>1. \A t \in Slots \ {s} : slot[t].url \in AssetId =>
            /\ slot[t].asset = slot[t].url /\ slot[t].url \in row \ Held(s)
            /\ slot[t].url \in stored \cup doubtful
    BY <1>1, MediaAssumption DEF IInv, PicturesServed, SlotsApart, Held
  <2> QED BY <1>1, <1>2, <1>3, <2>1 DEF PicturesServed
<1>7. row' \subseteq issued
  BY <1>1, <1>2 DEF IInv, MediaTypeOK
<1>8. /\ slot' \in [Slots -> Slot] /\ row' \subseteq issued
      /\ SlotsApart' /\ PicturesServed'
      /\ \A b \in row' : b \in row \/ b = a
      /\ \A t \in Slots : slot'[t].asset \in {slot[t].asset, a}
      /\ Held(s) \cap row' = {}
      /\ Held(s) \subseteq row
  BY <1>2, <1>3, <1>4, <1>5, <1>6, <1>7
<1> QED BY ONLY <1>8 DEF a, s

LEMMA AttachKeeps ==
  ASSUME IInv, NEW p \in Handlers, Attach(p) \/ AttachUnanswered(p)
  PROVE  IInv'
<1> DEFINE keys == IF Attach(p) THEN Held(request[p].slot) ELSE {request[p].asset}
<1>1. /\ request[p].op = "upload" /\ Replace(request[p].slot, request[p].asset)
      /\ UNCHANGED <<issued, stored, old, job>>
      /\ doubtful' \in {doubtful, doubtful \cup {request[p].asset}}
      /\ Become(p, Cleaning(keys))
  BY DEF Attach, AttachUnanswered
<1>2. request[p].slot \in Slots /\ request[p].asset \in AssetId
  BY <1>1, RequestFields DEF IInv
<1>3. /\ slot' \in [Slots -> Slot] /\ row' \subseteq issued
      /\ SlotsApart' /\ PicturesServed'
      /\ \A a \in row' : a \in row \/ a = request[p].asset
      /\ \A t \in Slots : slot'[t].asset \in {slot[t].asset, request[p].asset}
      /\ Held(request[p].slot) \cap row' = {}
      /\ Held(request[p].slot) \subseteq row
  BY <1>1, ReplaceKeeps
<1>4. /\ request[p].asset \in issued \ row /\ row \subseteq issued /\ issued \subseteq AssetId
      /\ \A q \in Handlers : request[q].op = "upload" =>
            /\ request[q].asset \in stored \ row
            /\ q # p => request[q].asset # request[p].asset
  BY <1>1 DEF IInv, UploadsNew, MediaTypeOK
<1>5. /\ keys \in SUBSET AssetId /\ keys \subseteq issued
      /\ \A a \in keys : a \in row' => a \in doubtful'
      /\ \A a \in keys, q \in Handlers \ {p} :
            request[q].op = "upload" => request[q].asset # a
  <2>1. CASE Attach(p)
    BY <2>1, <1>3, <1>4
  <2>2. CASE ~Attach(p)
    BY <2>2, <1>2, <1>4 DEF AttachUnanswered
  <2> QED BY <2>1, <2>2
<1> HIDE DEF keys
<1>6. /\ request' \in [Handlers -> Request \cup {Idle}]
      /\ CondemnedUnused' /\ UploadsNew' /\ SeenApart' /\ JobKeepsToOld'
  BY <1>1, <1>3, <1>4, <1>5, StepsToCleaning
<1>7. MediaTypeOK'
  BY <1>1, <1>2, <1>3, <1>4, <1>6 DEF MediaTypeOK, IInv
<1> QED BY <1>3, <1>6, <1>7 DEF IInv

LEMMA CleaningKeeps ==
  ASSUME IInv, NEW p \in Handlers, AttachFails(p) \/ Cleanup(p) \/ Crash(p)
  PROVE  IInv'
<1> PICK keys \in SUBSET AssetId :
      /\ Become(p, Cleaning(keys))
      /\ \A a \in keys : \/ request[p].op = "cleanup" /\ a \in request[p].keys
                         \/ request[p].op = "upload" /\ a = request[p].asset
  <2>1. CASE AttachFails(p)
    <3>1. {request[p].asset} \in SUBSET AssetId
      BY <2>1, RequestFields DEF AttachFails, IInv
    <3> QED BY <2>1, <3>1 DEF AttachFails
  <2>2. CASE Cleanup(p)
    BY <2>2, RequestFields DEF Cleanup, IInv
  <2>3. CASE Crash(p)
    <3>1. Cleaning({}) = Idle
      BY DEF Cleaning
    <3>2. Become(p, Cleaning({}))
      BY <2>3, <3>1 DEF Crash
    <3> QED BY <3>2
  <2> QED BY <2>1, <2>2, <2>3
<1>1. /\ UNCHANGED <<slot, row, issued, old, doubtful, job>>
      /\ stored' \subseteq stored
      /\ \A a \in stored \ stored' : request[p].op = "cleanup" /\ a \in request[p].keys
  BY DEF AttachFails, Cleanup, Crash, database
<1>2. \A a \in AssetId : request[p].op = "cleanup" /\ a \in request[p].keys =>
        a \in issued /\ ~Uploading(a) /\ (a \in row => a \in doubtful)
  BY DEF IInv, CondemnedUnused, Condemned
<1>3. \A q \in Handlers : request[q].op = "upload" =>
        /\ request[q].asset \in issued \ row /\ request[q].asset \in stored
        /\ Uploading(request[q].asset)
        /\ \A o \in Handlers \ {q} : request[o].op = "upload" => request[o].asset # request[q].asset
  BY DEF IInv, UploadsNew, Uploading
<1>4. /\ keys \subseteq issued
      /\ \A a \in keys : a \in row' => a \in doubtful'
      /\ \A a \in keys, q \in Handlers \ {p} :
            request[q].op = "upload" => request[q].asset # a
  BY <1>1, <1>2, <1>3
<1>5. \A q \in Handlers \ {p} : request[q].op = "upload" => request[q].asset \in stored'
  <2> SUFFICES ASSUME NEW q \in Handlers \ {p}, request[q].op = "upload",
                      request[q].asset \notin stored'
               PROVE  FALSE
    OBVIOUS
  <2>1. request[q].asset \in AssetId
    BY RequestFields DEF IInv
  <2> QED BY <2>1, <1>1, <1>2, <1>3
<1>6. /\ request' \in [Handlers -> Request \cup {Idle}]
      /\ CondemnedUnused' /\ UploadsNew' /\ SeenApart' /\ JobKeepsToOld'
  BY <1>1, <1>4, <1>5, StepsToCleaning
<1>7. SlotsApart' /\ PicturesServed'
  BY <1>1, <1>2 DEF IInv, SlotsApart, PicturesServed
<1>8. MediaTypeOK'
  BY <1>1, <1>6 DEF MediaTypeOK, IInv
<1> QED BY <1>6, <1>7, <1>8 DEF IInv

-----------------------------------------------------------------------------
(* Requests that take a picture away.                                       *)

\* A slot without its asset, when no other slot has lost one.
LEMMA EmptiedSlot ==
  ASSUME IInv, NEW S \in SUBSET Slots, NEW gone \in SUBSET AssetId,
         slot' \in [Slots -> Slot],
         \A t \in Slots \ S : slot'[t] = slot[t] /\ slot[t].asset \notin gone,
         \A s \in S : slot'[s].asset \in {NoAsset, slot[s].asset} \ gone
                      /\ slot'[s].url \in {"none", "external"},
         row' = row \ gone, UNCHANGED <<stored, doubtful>>
  PROVE  SlotsApart' /\ PicturesServed'
<1>1. \A t \in Slots : slot'[t].asset \in {NoAsset, slot[t].asset}
  OBVIOUS
<1>2. \A t \in Slots : slot'[t].asset # NoAsset => slot'[t].asset \in row'
  BY <1>1 DEF IInv, SlotsApart
<1>3. \A s, t \in Slots :
        s # t /\ slot'[s].asset # NoAsset => slot'[t].asset # slot'[s].asset
  BY <1>1 DEF IInv, SlotsApart
<1>4. PicturesServed'
  <2> SUFFICES ASSUME NEW t \in Slots, slot'[t].url \in AssetId
               PROVE  /\ slot'[t].asset = slot'[t].url
                      /\ slot'[t].url \in row'
                      /\ slot'[t].url \in stored' \cup doubtful'
    BY DEF PicturesServed
  <2>1. t \notin S
    BY MediaAssumption
  <2> QED BY <2>1 DEF IInv, PicturesServed
<1> QED BY <1>2, <1>3, <1>4 DEF SlotsApart

LEMMA HeldFacts ==
  ASSUME IInv, NEW s \in Slots
  PROVE  /\ Held(s) \subseteq row /\ Held(s) \subseteq issued /\ Held(s) \in SUBSET AssetId
         /\ \A t \in Slots \ {s} : slot[t].asset \notin Held(s)
  BY DEF IInv, MediaTypeOK, SlotsApart, Held

LEMMA RowsNotUploading ==
  ASSUME IInv
  PROVE  \A a \in row, q \in Handlers : request[q].op = "upload" => request[q].asset # a
  BY DEF IInv, UploadsNew

LEMMA ClearKeeps ==
  ASSUME IInv, NEW p \in Handlers, Clear(p)
  PROVE  IInv'
<1> PICK s \in Slots, url \in {"none", "external"} :
      /\ slot' = [slot EXCEPT ![s].asset = NoAsset, ![s].url = url]
      /\ row' = row \ Held(s)
      /\ Become(p, Cleaning(Held(s)))
  BY DEF Clear
<1>1. request[p].op # "upload" /\ UNCHANGED <<issued, stored, old, doubtful, job>>
  BY DEF Clear, Idle
<1>2. /\ slot' \in [Slots -> Slot]
      /\ slot'[s].asset = NoAsset /\ slot'[s].url = url
      /\ \A t \in Slots \ {s} : slot'[t] = slot[t]
  BY DEF IInv, MediaTypeOK, Slot, Url
<1>3. /\ Held(s) \subseteq row /\ Held(s) \subseteq issued /\ Held(s) \in SUBSET AssetId
      /\ \A t \in Slots \ {s} : slot[t].asset \notin Held(s)
  BY HeldFacts
<1>4. SlotsApart' /\ PicturesServed'
  <2>1. NoAsset \notin Held(s) /\ {s} \in SUBSET Slots
    BY DEF Held
  <2>2. \A t \in Slots \ {s} : slot'[t] = slot[t] /\ slot[t].asset \notin Held(s)
    BY <1>2, <1>3
  <2>3. \A t \in {s} : slot'[t].asset \in {NoAsset, slot[t].asset} \ Held(s)
                       /\ slot'[t].url \in {"none", "external"}
    BY <1>2, <2>1
  <2> QED BY ONLY IInv, <1>1, <1>2, <1>3, <2>1, <2>2, <2>3, row' = row \ Held(s), EmptiedSlot
<1>5. \A q \in Handlers : request[q].op = "upload" => request[q].asset \in stored
  BY DEF IInv, UploadsNew
<1>6. /\ request' \in [Handlers -> Request \cup {Idle}]
      /\ CondemnedUnused' /\ UploadsNew' /\ SeenApart' /\ JobKeepsToOld'
  BY <1>1, <1>2, <1>3, <1>5, RowsNotUploading, StepsToCleaning
<1>7. MediaTypeOK'
  BY <1>1, <1>2, <1>6 DEF MediaTypeOK, IInv
<1> QED BY <1>4, <1>6, <1>7 DEF IInv

LEMMA SetMapUrlKeeps ==
  ASSUME IInv, NEW p \in Handlers, SetMapUrl(p)
  PROVE  IInv'
<1> DEFINE s == request[p].slot
           had == {request[p].seen} \ {NoAsset}
<1>1. /\ request[p].op = "setUrl" /\ s \in Slots
      /\ request[p].url \in {"none", "external"}
      /\ request[p].seen \in AssetId \cup {NoAsset}
  BY RequestFields DEF SetMapUrl, IInv
<1>2. /\ had \subseteq row /\ had \in SUBSET AssetId /\ had \subseteq issued
      /\ row' = row \ had
      /\ slot' = [slot EXCEPT ![s].url = request[p].url,
                              ![s].asset = IF had = {} THEN @ ELSE NoAsset]
      /\ Become(p, Cleaning(had))
      /\ UNCHANGED <<issued, stored, old, doubtful, job>>
  BY <1>1 DEF SetMapUrl, IInv, MediaTypeOK
<1>3. /\ slot' \in [Slots -> Slot]
      /\ slot'[s].asset = IF had = {} THEN slot[s].asset ELSE NoAsset
      /\ slot'[s].url = request[p].url
      /\ \A t \in Slots \ {s} : slot'[t] = slot[t]
  <2> HIDE DEF had
  <2> QED BY <1>1, <1>2 DEF IInv, MediaTypeOK, Slot, Url
<1>4. \A t \in Slots \ {s} : slot[t].asset \notin had
  BY <1>1 DEF IInv, SeenApart
<1>5. slot'[s].asset \in {NoAsset, slot[s].asset} \ had
  BY <1>3
<1> HIDE DEF s, had
<1>6. SlotsApart' /\ PicturesServed'
  <2>1. {s} \in SUBSET Slots
    BY <1>1
  <2>2. \A t \in Slots \ {s} : slot'[t] = slot[t] /\ slot[t].asset \notin had
    BY <1>3, <1>4
  <2>3. \A t \in {s} : slot'[t].asset \in {NoAsset, slot[t].asset} \ had
                       /\ slot'[t].url \in {"none", "external"}
    BY <1>1, <1>3, <1>5
  <2> QED BY ONLY IInv, <1>2, <1>3, <2>1, <2>2, <2>3, EmptiedSlot
<1>7. \A q \in Handlers : request[q].op = "upload" => request[q].asset \in stored
  BY DEF IInv, UploadsNew
<1>8. /\ request' \in [Handlers -> Request \cup {Idle}]
      /\ CondemnedUnused' /\ UploadsNew' /\ SeenApart' /\ JobKeepsToOld'
  BY <1>2, <1>3, <1>5, <1>7, RowsNotUploading, StepsToCleaning
<1>9. MediaTypeOK'
  BY <1>2, <1>3, <1>8 DEF MediaTypeOK, IInv
<1> QED BY <1>6, <1>8, <1>9 DEF IInv

LEMMA RemoveOwnerKeeps ==
  ASSUME IInv, NEW p \in Handlers, RemoveOwner(p)
  PROVE  IInv'
<1> DEFINE Assets(S) == UNION {Held(s) : s \in S}
<1> PICK S \in SUBSET Slots, keepsRow \in BOOLEAN :
      /\ slot' = [s \in Slots |-> IF s \in S
                    THEN [exists |-> FALSE, asset |-> NoAsset, url |-> "none"]
                    ELSE slot[s]]
      /\ IF keepsRow THEN UNCHANGED <<row, request>>
         ELSE row' = row \ Assets(S) /\ Become(p, Cleaning(Assets(S)))
  BY DEF RemoveOwner
<1>1. request[p].op # "upload" /\ UNCHANGED <<issued, stored, old, doubtful, job>>
  BY DEF RemoveOwner, Idle
<1>2. /\ slot' \in [Slots -> Slot]
      /\ \A s \in S : slot'[s].asset = NoAsset /\ slot'[s].url = "none"
      /\ \A t \in Slots \ S : slot'[t] = slot[t]
  BY DEF IInv, MediaTypeOK, Slot, Url
<1>3. /\ Assets(S) \subseteq row /\ Assets(S) \subseteq issued /\ Assets(S) \in SUBSET AssetId
      /\ \A t \in Slots \ S : slot[t].asset \notin Assets(S)
      /\ NoAsset \notin Assets(S)
  <2>1. \A s \in S : /\ Held(s) \subseteq row /\ Held(s) \subseteq issued
                     /\ Held(s) \in SUBSET AssetId
                     /\ \A t \in Slots \ {s} : slot[t].asset \notin Held(s)
    BY HeldFacts
  <2> QED BY <2>1, MediaAssumption
<1> HIDE DEF Assets
<1>4. CASE keepsRow
  <2>1. row' = row \ {} /\ UNCHANGED request
    BY <1>4
  <2>2. SlotsApart' /\ PicturesServed'
    <3>1. \A t \in Slots \ S : slot'[t] = slot[t] /\ slot[t].asset \notin {}
      BY <1>2
    <3>2. \A s \in S : /\ slot'[s].asset \in {NoAsset, slot[s].asset} \ {}
                       /\ slot'[s].url \in {"none", "external"}
      BY <1>2
    <3>3. /\ {} \in SUBSET AssetId /\ S \in SUBSET Slots /\ slot' \in [Slots -> Slot]
          /\ row' = row \ {} /\ UNCHANGED <<stored, doubtful>>
      BY <1>1, <1>2, <2>1
    <3> QED BY ONLY IInv, <3>1, <3>2, <3>3, EmptiedSlot
  <2>3. CondemnedUnused' /\ UploadsNew' /\ JobKeepsToOld'
    BY <1>1, <2>1 DEF IInv, CondemnedUnused, Condemned, Uploading, UploadsNew, JobKeepsToOld
  <2>4. SeenApart'
    <3>1. \A q \in Handlers : request[q].op = "setUrl" /\ request[q].seen # NoAsset =>
            /\ request[q].seen \in issued' /\ ~Uploading(request[q].seen)'
            /\ \A t \in Slots \ {request[q].slot} : slot'[t].asset # request[q].seen
      BY <1>1, <1>2, <2>1 DEF IInv, SeenApart, Uploading
    <3> QED BY <3>1, <2>1 DEF SeenApart
  <2>5. MediaTypeOK'
    <3>1. /\ slot' \in [Slots -> Slot]
          /\ UNCHANGED <<row, request, issued, stored, old, doubtful, job>>
      BY <1>1, <1>2, <2>1
    <3> QED BY ONLY IInv, <3>1 DEF MediaTypeOK, IInv
  <2> QED BY <2>2, <2>3, <2>4, <2>5 DEF IInv
<1>5. CASE ~keepsRow
  <2>1. row' = row \ Assets(S) /\ Become(p, Cleaning(Assets(S)))
    BY <1>5
  <2>2. SlotsApart' /\ PicturesServed'
    <3>1. \A t \in Slots \ S : slot'[t] = slot[t] /\ slot[t].asset \notin Assets(S)
      BY <1>2, <1>3
    <3>2. \A s \in S : /\ slot'[s].asset \in {NoAsset, slot[s].asset} \ Assets(S)
                       /\ slot'[s].url \in {"none", "external"}
      BY <1>2, <1>3
    <3>3. /\ Assets(S) \in SUBSET AssetId /\ S \in SUBSET Slots
          /\ slot' \in [Slots -> Slot]
          /\ row' = row \ Assets(S) /\ UNCHANGED <<stored, doubtful>>
      BY <1>1, <1>2, <1>3, <2>1
    <3> QED BY ONLY IInv, <3>1, <3>2, <3>3, EmptiedSlot
  <2>3. \A q \in Handlers : request[q].op = "upload" => request[q].asset \in stored
    BY DEF IInv, UploadsNew
  <2>4. \A t \in Slots : slot'[t].asset \in {slot[t].asset, NoAsset}
    BY <1>2
  <2>5. /\ request' \in [Handlers -> Request \cup {Idle}]
        /\ CondemnedUnused' /\ UploadsNew' /\ SeenApart' /\ JobKeepsToOld'
    BY <1>1, <1>3, <2>1, <2>3, <2>4, RowsNotUploading, StepsToCleaning
  <2>6. MediaTypeOK'
    <3>1. /\ slot' \in [Slots -> Slot] /\ row' \subseteq row
          /\ request' \in [Handlers -> Request \cup {Idle}]
          /\ UNCHANGED <<issued, stored, old, doubtful, job>>
      BY <1>1, <1>2, <2>1, <2>5
    <3> QED BY ONLY IInv, <3>1 DEF MediaTypeOK, IInv
  <2> QED BY <2>2, <2>5, <2>6 DEF IInv
<1> QED BY <1>4, <1>5

-----------------------------------------------------------------------------
(* Uploads that begin, updates that look, and time.                         *)

LEMMA PutKeeps ==
  ASSUME IInv, NEW p \in Handlers, Put(p)
  PROVE  IInv'
<1> PICK s \in Slots, a \in AssetId \ issued :
      /\ issued' = issued \cup {a} /\ stored' = stored \cup {a}
      /\ Become(p, [op |-> "upload", slot |-> s, asset |-> a])
  BY DEF Put
<1> DEFINE r == [op |-> "upload", slot |-> s, asset |-> a]
<1>1. /\ request[p].op = "idle" /\ UNCHANGED <<slot, row, old, doubtful, job>>
      /\ a \notin row \cup old /\ ~Condemned(a) /\ ~Uploading(a)
  <2>1. ~Condemned(a)
    BY DEF IInv, CondemnedUnused
  <2>2. ~Uploading(a)
    BY DEF IInv, UploadsNew, Uploading
  <2> QED BY <2>1, <2>2 DEF Put, database, Idle, IInv, MediaTypeOK
<1>2. r \in Request \cup {Idle} /\ r.op = "upload" /\ r.asset = a
  BY DEF Request
<1>3. /\ request' \in [Handlers -> Request \cup {Idle}]
      /\ request'[p] = r
      /\ \A q \in Handlers \ {p} : request'[q] = request[q]
  BY <1>2, BecomeFields DEF IInv
<1> HIDE DEF r
<1>4. \A x : Uploading(x)' => Uploading(x) \/ x = a
  BY <1>2, <1>3 DEF Uploading
<1>5. CondemnedUnused'
  <2> SUFFICES ASSUME NEW x \in AssetId, Condemned(x)'
               PROVE  x \in issued' /\ ~Uploading(x)' /\ (x \in row' => x \in doubtful')
    BY DEF CondemnedUnused
  <2>1. Condemned(x)
    BY <1>1, <1>2, <1>3 DEF Condemned
  <2>2. x # a
    BY <2>1, <1>1
  <2>3. x \in issued /\ ~Uploading(x) /\ (x \in row => x \in doubtful)
    BY <2>1 DEF IInv, CondemnedUnused
  <2> QED BY <1>1, <1>4, <2>2, <2>3
<1>6. UploadsNew'
  <2>1. \A q \in Handlers \ {p} : request[q].op = "upload" =>
          /\ request[q].asset \in issued \ (row \cup old) /\ request[q].asset \in stored
          /\ request[q].asset # a
          /\ \A o \in Handlers \ {q} : request[o].op = "upload" =>
                request[o].asset # request[q].asset
    BY DEF IInv, UploadsNew
  <2>2. \A q \in Handlers : request'[q].op = "upload" =>
          /\ request'[q].asset \in issued' \ (row' \cup old') /\ request'[q].asset \in stored'
          /\ \A o \in Handlers \ {q} : request'[o].op = "upload" =>
                request'[o].asset # request'[q].asset
    BY <1>1, <1>2, <1>3, <2>1
  <2> QED BY <2>2 DEF UploadsNew
<1>7. SeenApart'
  <2> SUFFICES ASSUME NEW q \in Handlers, request'[q].op = "setUrl",
                      request'[q].seen # NoAsset
               PROVE  /\ request'[q].seen \in issued' /\ ~Uploading(request[q].seen)'
                      /\ \A t \in Slots \ {request'[q].slot} :
                            slot'[t].asset # request'[q].seen
                      /\ request'[q] = request[q]
    BY DEF SeenApart
  <2>1. q # p /\ request'[q] = request[q]
    BY <1>2, <1>3
  <2>2. /\ request[q].seen \in issued /\ ~Uploading(request[q].seen)
        /\ \A t \in Slots \ {request[q].slot} : slot[t].asset # request[q].seen
    BY <2>1 DEF IInv, SeenApart
  <2>3. request'[p].asset # request[q].seen
    BY <1>2, <1>3, <2>2
  <2>4. ~Uploading(request[q].seen)'
    <3>1. \A o \in Handlers :
            ~(request'[o].op = "upload" /\ request'[o].asset = request'[q].seen)
      BY <1>3, <2>1, <2>2, <2>3 DEF Uploading
    <3> QED BY <2>1, <3>1 DEF Uploading
  <2> QED BY <1>1, <2>1, <2>2, <2>4
<1>8. SlotsApart' /\ PicturesServed' /\ JobKeepsToOld'
  BY <1>1 DEF IInv, SlotsApart, PicturesServed, JobKeepsToOld
<1>9. MediaTypeOK'
  BY <1>1, <1>3 DEF MediaTypeOK, IInv
<1> QED BY <1>5, <1>6, <1>7, <1>8, <1>9 DEF IInv

LEMMA PutFailsKeeps ==
  ASSUME IInv, PutFails
  PROVE  IInv'
<1>1. /\ UNCHANGED <<slot, row, old, doubtful, request, job>>
      /\ issued \subseteq issued' /\ issued' \subseteq AssetId
      /\ stored \subseteq stored' /\ stored' \subseteq issued'
  BY DEF PutFails, database, IInv, MediaTypeOK
<1>2. CondemnedUnused' /\ UploadsNew' /\ JobKeepsToOld'
  BY <1>1 DEF IInv, CondemnedUnused, Condemned, Uploading, UploadsNew, JobKeepsToOld
<1>3. SeenApart'
  BY <1>1 DEF IInv, SeenApart, Uploading
<1>4. SlotsApart' /\ PicturesServed'
  BY <1>1 DEF IInv, SlotsApart, PicturesServed
<1>5. MediaTypeOK'
  BY <1>1 DEF IInv, MediaTypeOK
<1> QED BY <1>2, <1>3, <1>4, <1>5 DEF IInv

LEMMA ReadMapKeeps ==
  ASSUME IInv, NEW p \in Handlers, ReadMap(p)
  PROVE  IInv'
<1> PICK s \in MapSlots, url \in {"none", "external"} :
      Become(p, [op |-> "setUrl", slot |-> s, url |-> url, seen |-> slot[s].asset])
  BY DEF ReadMap
<1> DEFINE r == [op |-> "setUrl", slot |-> s, url |-> url, seen |-> slot[s].asset]
<1>1. UNCHANGED <<slot, row, issued, stored, old, doubtful, job>>
  BY DEF ReadMap, database
<1>2. /\ s \in Slots /\ r \in Request \cup {Idle} /\ r.op = "setUrl" /\ r.slot = s
      /\ r.seen = slot[s].asset
  BY MediaAssumption, SlotFields DEF IInv, Request
<1>3. /\ request' \in [Handlers -> Request \cup {Idle}]
      /\ request'[p] = r
      /\ \A q \in Handlers \ {p} : request'[q] = request[q]
  BY <1>2, BecomeFields DEF IInv
<1> HIDE DEF r
<1>4. \A x : Uploading(x)' => Uploading(x)
  BY <1>2, <1>3 DEF Uploading
<1>5. CondemnedUnused'
  <2>1. \A x \in AssetId : Condemned(x)' => Condemned(x)
    BY <1>1, <1>2, <1>3 DEF Condemned
  <2> QED BY <1>1, <1>4, <2>1 DEF IInv, CondemnedUnused
<1>6. UploadsNew'
  <2>1. \A q \in Handlers : request'[q].op = "upload" =>
          /\ request'[q].asset \in issued' \ (row' \cup old') /\ request'[q].asset \in stored'
          /\ \A o \in Handlers \ {q} : request'[o].op = "upload" =>
                request'[o].asset # request'[q].asset
    BY <1>1, <1>2, <1>3 DEF IInv, UploadsNew
  <2> QED BY <2>1 DEF UploadsNew
<1>7. SeenApart'
  <2> SUFFICES ASSUME NEW q \in Handlers, request'[q].op = "setUrl",
                      request'[q].seen # NoAsset
               PROVE  /\ request'[q].seen \in issued' /\ ~Uploading(request'[q].seen)
                      /\ \A t \in Slots \ {request'[q].slot} :
                            slot'[t].asset # request'[q].seen
    <3>1. \A q \in Handlers : Uploading(request[q].seen)' => Uploading(request'[q].seen)
      BY <1>2, <1>3 DEF Uploading
    <3> QED BY <3>1 DEF SeenApart
  <2>1. CASE q = p
    <3>1. slot[s].asset \in row /\ \A t \in Slots \ {s} : slot[t].asset # slot[s].asset
      BY <1>2, <1>3, <2>1 DEF IInv, SlotsApart
    <3>2. ~Uploading(slot[s].asset)
      BY <3>1, RowsNotUploading DEF Uploading
    <3> QED BY <1>1, <1>2, <1>3, <2>1, <3>1, <3>2 DEF IInv, MediaTypeOK
  <2>2. CASE q # p
    BY <1>1, <1>3, <2>2 DEF IInv, SeenApart
  <2> QED BY <2>1, <2>2
<1>8. SlotsApart' /\ PicturesServed' /\ JobKeepsToOld'
  BY <1>1 DEF IInv, SlotsApart, PicturesServed, JobKeepsToOld
<1>9. MediaTypeOK'
  BY <1>1, <1>3 DEF MediaTypeOK, IInv
<1> QED BY <1>5, <1>6, <1>7, <1>8, <1>9 DEF IInv

\* No upload is in flight when the grace period of its object passes.
LEMMA AgeKeeps ==
  ASSUME IInv, NEW a \in AssetId, Age(a)
  PROVE  IInv'
<1>1. /\ UNCHANGED <<slot, row, issued, stored, doubtful, request, job>>
      /\ old' = old \cup {a} /\ a \in issued /\ ~Uploading(a)
  BY DEF Age, database
<1>2. UploadsNew'
  BY <1>1 DEF IInv, UploadsNew, Uploading
<1>3. CondemnedUnused' /\ JobKeepsToOld'
  BY <1>1 DEF IInv, CondemnedUnused, Condemned, Uploading, JobKeepsToOld
<1>4. SeenApart'
  BY <1>1 DEF IInv, SeenApart, Uploading
<1>5. SlotsApart' /\ PicturesServed' /\ MediaTypeOK'
  BY <1>1 DEF IInv, SlotsApart, PicturesServed, MediaTypeOK
<1> QED BY <1>2, <1>3, <1>4, <1>5 DEF IInv

-----------------------------------------------------------------------------
(* The reconciliation.                                                      *)

\* What a step of the job has to respect.
LEMMA JobStepKeeps ==
  ASSUME IInv, UNCHANGED <<slot, issued, old, doubtful, request>>,
         row' \subseteq row, \A a \in row \ row' : ~Referenced(a),
         stored' \subseteq stored, \A a \in stored \ stored' : Condemned(a),
         job' \in Job, JobKeepsToOld',
         job'.step \in {"rowObject", "object"} =>
            /\ job'.asset \in issued /\ ~Uploading(job'.asset)
            /\ job'.asset \in row' => job'.asset \in doubtful
  PROVE  IInv'
<1>1. MediaTypeOK'
  BY DEF IInv, MediaTypeOK
<1>2. CondemnedUnused'
  <2> SUFFICES ASSUME NEW a \in AssetId, Condemned(a)'
               PROVE  a \in issued' /\ ~Uploading(a)' /\ (a \in row' => a \in doubtful')
    BY DEF CondemnedUnused
  <2>1. Condemned(a) \/ (job'.step \in {"rowObject", "object"} /\ job'.asset = a)
    BY DEF Condemned
  <2>2. a \in issued /\ ~Uploading(a) /\ (a \in row' => a \in doubtful)
    BY <2>1 DEF IInv, CondemnedUnused
  <2> QED BY <2>2 DEF Uploading
<1>3. \A a \in stored \ stored' : a \in AssetId /\ ~Uploading(a) /\ (a \in row => a \in doubtful)
  BY DEF IInv, CondemnedUnused, MediaTypeOK
<1>4. UploadsNew'
  BY <1>3 DEF IInv, UploadsNew, Uploading
<1>5. SeenApart'
  BY DEF IInv, SeenApart, Uploading
<1>6. SlotsApart' /\ PicturesServed'
  <2>1. \A s \in Slots : slot[s].asset \in row => slot[s].asset \in row'
    BY DEF Referenced
  <2>2. SlotsApart'
    BY <2>1 DEF IInv, SlotsApart
  <2>3. PicturesServed'
    BY <1>3, <2>1 DEF IInv, PicturesServed
  <2> QED BY <2>2, <2>3
<1> QED BY <1>1, <1>2, <1>4, <1>5, <1>6 DEF IInv

LEMMA JobFields ==
  ASSUME IInv
  PROVE  /\ job.step \in Steps /\ job.asset \in AssetId \cup {NoAsset}
         /\ job.cutoff \in SUBSET AssetId /\ job.due \in SUBSET AssetId
         /\ job.todo \in SUBSET AssetId /\ job.errors \in BOOLEAN
         /\ job = [step |-> job.step, asset |-> job.asset, cutoff |-> job.cutoff,
                   due |-> job.due, todo |-> job.todo, errors |-> job.errors]
         /\ job.cutoff \subseteq old /\ old \subseteq issued
         /\ row \in SUBSET AssetId /\ stored \in SUBSET AssetId /\ old \in SUBSET AssetId
         /\ \A a \in old : ~Uploading(a)
<1>1. \A a \in old : ~Uploading(a)
  BY DEF IInv, UploadsNew, Uploading
<1> QED BY <1>1 DEF IInv, MediaTypeOK, Job, JobKeepsToOld

LEMMA ReconcileKeeps ==
  ASSUME IInv, Reconcile
  PROVE  IInv'
<1> USE JobFields DEF Steps
<1>1. UNCHANGED <<slot, issued, old, doubtful, request>>
  BY DEF Reconcile, StartJob, RemoveRow, RemoveObject, List, CheckObject, RecheckObject,
         EndJob, database
<1>2. CASE StartJob
  <2>1. UNCHANGED <<row, stored>>
    BY <1>2 DEF StartJob, database
  <2>2. /\ job' = [step |-> "rows", asset |-> NoAsset, cutoff |-> old,
                   due |-> Orphans \cap old, todo |-> {a \in row \cap old : ~Referenced(a)},
                   errors |-> FALSE]
        /\ job' \in Job
    BY <1>2 DEF StartJob, NoJob, Job
  <2>3. JobKeepsToOld'
    BY <1>1, <2>2 DEF JobKeepsToOld
  <2> QED BY <1>1, <2>1, <2>2, <2>3, JobStepKeeps
<1>3. CASE RemoveRow
  <2> PICK a \in job.todo :
        \/ /\ a \in row /\ ~Referenced(a)
           /\ row' = row \ {a}
           /\ job' = [job EXCEPT !.step = "rowObject", !.asset = a, !.todo = @ \ {a}]
        \/ /\ job' = [job EXCEPT !.todo = @ \ {a}]
           /\ UNCHANGED row
    BY <1>3 DEF RemoveRow
  <2>1. job.step = "rows" /\ stored' = stored /\ a \in old
    BY <1>3 DEF RemoveRow, IInv, JobKeepsToOld
  <2>2. /\ job' \in Job /\ job'.cutoff = job.cutoff /\ job'.todo \subseteq old
        /\ job'.step = "rowObject" => job'.asset = a /\ a \notin row'
        /\ job'.step \in {"rows", "rowObject"}
    BY <2>1 DEF Job, IInv, JobKeepsToOld
  <2>3. JobKeepsToOld'
    BY <1>1, <2>1, <2>2 DEF JobKeepsToOld
  <2> QED BY <1>1, <2>1, <2>2, <2>3, JobStepKeeps
<1>4. CASE RemoveObject("rowObject", "rows") \/ RemoveObject("object", "objects")
  <2>1. /\ UNCHANGED row /\ job.step \in {"rowObject", "object"}
        /\ stored' \in {stored, stored \ {job.asset}}
        /\ job' \in Job /\ job'.cutoff = job.cutoff /\ job'.todo = job.todo
        /\ job'.step \in {"rows", "objects"}
    BY <1>4 DEF RemoveObject, Job, database
  <2>2. JobKeepsToOld'
    BY <1>1, <2>1 DEF IInv, JobKeepsToOld
  <2>3. \A a \in stored \ stored' : Condemned(a)
    BY <2>1 DEF Condemned
  <2> QED BY <1>1, <2>1, <2>2, <2>3, JobStepKeeps
<1>5. CASE List
  <2>1. /\ UNCHANGED <<row, stored>> /\ job' \in Job /\ job'.cutoff = job.cutoff
        /\ job'.step = "objects" /\ job'.todo \subseteq job.cutoff
    BY <1>5 DEF List, Job, database
  <2>2. JobKeepsToOld'
    BY <1>1, <2>1 DEF JobKeepsToOld
  <2> QED BY <1>1, <2>1, <2>2, JobStepKeeps
<1>6. CASE CheckObject
  <2>1. UNCHANGED <<row, stored>> /\ job.step = "objects"
    BY <1>6 DEF CheckObject, database
  <2> PICK a \in job.todo :
        job' = IF a \in row THEN [job EXCEPT !.todo = @ \ {a}]
               ELSE [job EXCEPT !.step = "recheck", !.asset = a, !.todo = @ \ {a}]
    BY <1>6 DEF CheckObject
  <2>2. /\ job' \in Job /\ job'.cutoff = job.cutoff /\ job'.todo \subseteq job.todo
        /\ \/ job'.step = "objects"
           \/ job'.step = "recheck" /\ job'.asset = a
    BY <2>1 DEF Job
  <2>3. JobKeepsToOld'
    BY <1>1, <2>2 DEF IInv, JobKeepsToOld
  <2> QED BY <1>1, <2>1, <2>2, <2>3, JobStepKeeps
<1>7. CASE RecheckObject
  <2>1. /\ UNCHANGED <<row, stored>> /\ job.step = "recheck"
        /\ job' = IF job.asset \in row THEN [job EXCEPT !.step = "objects", !.asset = NoAsset]
                  ELSE [job EXCEPT !.step = "object"]
    BY <1>7 DEF RecheckObject, database
  <2>2. /\ job' \in Job /\ job'.cutoff = job.cutoff /\ job'.todo = job.todo
        /\ \/ job'.step = "objects"
           \/ job'.step = "object" /\ job'.asset = job.asset /\ job.asset \notin row
    BY <2>1 DEF Job
  <2>3. job.asset \in old
    BY <2>1 DEF IInv, JobKeepsToOld
  <2>4. JobKeepsToOld'
    BY <1>1, <2>2, <2>3 DEF IInv, JobKeepsToOld
  <2> QED BY <1>1, <2>1, <2>2, <2>3, <2>4, JobStepKeeps
<1>8. CASE EndJob
  <2>1. UNCHANGED <<row, stored>> /\ job' = NoJob /\ NoJob \in Job
    BY <1>8 DEF EndJob, database, NoJob, Job
  <2>2. JobKeepsToOld' /\ job'.step = "idle"
    BY <2>1 DEF JobKeepsToOld, NoJob
  <2> QED BY <1>1, <2>1, <2>2, JobStepKeeps
<1> QED BY <1>2, <1>3, <1>4, <1>5, <1>6, <1>7, <1>8 DEF Reconcile

-----------------------------------------------------------------------------
LEMMA StepKeepsInvariant ==
  ASSUME IInv, [MediaNext]_vars
  PROVE  IInv'
<1>1. ASSUME NEW p \in Handlers, Put(p) PROVE IInv'
  BY <1>1, PutKeeps
<1>2. ASSUME NEW p \in Handlers, Attach(p) \/ AttachUnanswered(p) PROVE IInv'
  BY <1>2, AttachKeeps
<1>3. ASSUME NEW p \in Handlers, AttachFails(p) \/ Cleanup(p) \/ Crash(p) PROVE IInv'
  BY <1>3, CleaningKeeps
<1>4. ASSUME NEW p \in Handlers, Clear(p) PROVE IInv'
  BY <1>4, ClearKeeps
<1>5. ASSUME NEW p \in Handlers, ReadMap(p) PROVE IInv'
  BY <1>5, ReadMapKeeps
<1>6. ASSUME NEW p \in Handlers, SetMapUrl(p) PROVE IInv'
  BY <1>6, SetMapUrlKeeps
<1>7. ASSUME NEW p \in Handlers, RemoveOwner(p) PROVE IInv'
  BY <1>7, RemoveOwnerKeeps
<1>8. ASSUME PutFails PROVE IInv'
  BY <1>8, PutFailsKeeps
<1>9. ASSUME NEW a \in AssetId, Age(a) PROVE IInv'
  BY <1>9, AgeKeeps
<1>10. ASSUME Reconcile PROVE IInv'
  BY <1>10, ReconcileKeeps
<1>11. ASSUME UNCHANGED vars PROVE IInv'
  BY <1>11 DEF vars, database, IInv, MediaTypeOK, CondemnedUnused, Condemned, Uploading,
               UploadsNew, SlotsApart, SeenApart, JobKeepsToOld, PicturesServed
<1> QED BY <1>1, <1>2, <1>3, <1>4, <1>5, <1>6, <1>7, <1>8, <1>9, <1>10, <1>11 DEF MediaNext

LEMMA InvariantHolds == MediaSpec => []IInv
<1>1. IInv /\ [MediaNext]_vars => IInv'
  BY StepKeepsInvariant
<1> QED BY InitHolds, <1>1, PTL DEF MediaSpec

\* Whatever requests, failures, crashes and the reconciliation do side by side, a
\* slot that shows an upload references the asset of its URL, whose row and object
\* are there (getMediaContent can serve it).
THEOREM PicturesAlwaysServed == MediaSpec => []PicturesServed
<1>1. IInv => PicturesServed
  BY DEF IInv
<1> QED BY InvariantHolds, <1>1, PTL

\* The reconciliation never takes the object of an upload whose transaction is still
\* to come (reconcile's grace period).
THEOREM UploadsAlwaysSurvive == MediaSpec => []UploadsSurvive
<1>1. IInv => UploadsSurvive
  BY DEF IInv, UploadsNew, UploadsSurvive
<1> QED BY InvariantHolds, <1>1, PTL
-----------------------------------------------------------------------------
\* An orphan the reconciliation has to remove stays one, and while no error has been counted the
\* job has its row or its object before it.
Covered(a) ==
    /\ a \in AssetId /\ a \in issued /\ a \in old /\ a \in job.cutoff /\ ~Referenced(a)
    /\ job.step \in {"rows", "rowObject"} /\ a \in row => a \in job.todo
    /\ job.step \in {"objects", "recheck", "object"} =>
         /\ a \notin row
         /\ a \in stored => a \in job.todo \/ (job.step # "objects" /\ a = job.asset)

DueCovered == job.step # "idle" /\ job.errors = FALSE => \A a \in job.due : Covered(a)

\* What requests do beside the job: they bring back nothing that is old.
LEMMA OthersKeepCovered ==
  ASSUME IInv, DueCovered, NEW fresh, fresh \cap (issued \cap old) = {},
         \A s \in Slots : slot'[s].asset \in {slot[s].asset, NoAsset} \cup fresh,
         row' \subseteq row \cup fresh, stored' \subseteq stored \cup fresh,
         issued \subseteq issued', old \subseteq old', job' = job
  PROVE  DueCovered'
<1> SUFFICES ASSUME job.step # "idle", job.errors = FALSE, NEW a \in job.due PROVE Covered(a)'
  BY DEF DueCovered
<1>1. Covered(a) /\ a \notin fresh
  BY DEF DueCovered, Covered
<1>2. ~Referenced(a)'
  BY <1>1, MediaAssumption DEF Covered, Referenced
<1> QED BY <1>1, <1>2 DEF Covered

LEMMA NothingNewKeepsCovered ==
  ASSUME IInv, DueCovered,
         \A s \in Slots : slot'[s].asset \in {slot[s].asset, NoAsset},
         row' \subseteq row, stored' \subseteq stored,
         issued \subseteq issued', old \subseteq old', job' = job
  PROVE  DueCovered'
<1>1. {} \cap (issued \cap old) = {}
  OBVIOUS
<1> QED BY <1>1, OthersKeepCovered

LEMMA RequestsKeepCovered ==
  ASSUME IInv, DueCovered, NEW p \in Handlers,
         \/ Put(p) \/ Attach(p) \/ AttachUnanswered(p) \/ AttachFails(p) \/ Cleanup(p)
         \/ Clear(p) \/ ReadMap(p) \/ SetMapUrl(p) \/ RemoveOwner(p) \/ Crash(p)
  PROVE  DueCovered'
<1>0. slot \in [Slots -> Slot] /\ \A s \in Slots : slot[s] \in Slot
  BY DEF IInv, MediaTypeOK
<1>1. CASE Put(p)
  <2>1. PICK a \in AssetId \ issued : issued' = issued \cup {a} /\ stored' = stored \cup {a}
    BY <1>1 DEF Put
  <2>2. UNCHANGED <<slot, row, old, job>>
    BY <1>1 DEF Put, database
  <2>3. {a} \cap (issued \cap old) = {}
    OBVIOUS
  <2> QED BY <2>1, <2>2, <2>3, OthersKeepCovered
<1>2. CASE Attach(p) \/ AttachUnanswered(p)
  <2> DEFINE r == request[p]
  <2>1. /\ r.op = "upload" /\ Replace(r.slot, r.asset) /\ UNCHANGED <<issued, stored, old, job>>
    BY <1>2 DEF Attach, AttachUnanswered
  <2>2. {r.asset} \cap (issued \cap old) = {}
    BY <2>1 DEF IInv, UploadsNew
  <2>3. \A s \in Slots : slot'[s].asset \in {slot[s].asset, NoAsset} \cup {r.asset}
    BY <1>0, <2>1 DEF Replace, Slot
  <2>4. row' \subseteq row \cup {r.asset}
    BY <2>1 DEF Replace
  <2> QED BY <2>1, <2>2, <2>3, <2>4, OthersKeepCovered
<1>3. CASE AttachFails(p) \/ Cleanup(p) \/ ReadMap(p) \/ Crash(p)
  <2>1. UNCHANGED <<slot, row, issued, old, job>> /\ stored' \subseteq stored
    BY <1>3 DEF AttachFails, Cleanup, ReadMap, Crash, database
  <2> QED BY <2>1, NothingNewKeepsCovered
<1>4. CASE Clear(p)
  <2>1. PICK s \in Slots, url \in {"none", "external"} :
          slot' = [slot EXCEPT ![s].asset = NoAsset, ![s].url = url] /\ row' = row \ Held(s)
    BY <1>4 DEF Clear
  <2>2. UNCHANGED <<issued, stored, old, job>>
    BY <1>4 DEF Clear
  <2>3. \A t \in Slots : slot'[t].asset \in {slot[t].asset, NoAsset}
    BY <1>0, <2>1 DEF Slot
  <2> QED BY <2>1, <2>2, <2>3, NothingNewKeepsCovered
<1>5. CASE SetMapUrl(p)
  <2> DEFINE r == request[p]
             had == {r.seen} \ {NoAsset}
  <2>1. /\ slot' = [slot EXCEPT ![r.slot].url = r.url,
                                ![r.slot].asset = IF had = {} THEN @ ELSE NoAsset]
        /\ row' = row \ had /\ UNCHANGED <<issued, stored, old, job>>
    BY <1>5 DEF SetMapUrl
  <2>2. \A t \in Slots : slot'[t].asset \in {slot[t].asset, NoAsset}
    BY <1>0, <2>1 DEF Slot
  <2> QED BY <2>1, <2>2, NothingNewKeepsCovered
<1>6. CASE RemoveOwner(p)
  <2>1. PICK S \in SUBSET Slots :
          slot' = [s \in Slots |-> IF s \in S
                     THEN [exists |-> FALSE, asset |-> NoAsset, url |-> "none"] ELSE slot[s]]
    BY <1>6 DEF RemoveOwner
  <2>2. row' \subseteq row /\ UNCHANGED <<issued, stored, old, job>>
    BY <1>6 DEF RemoveOwner
  <2>3. \A t \in Slots : slot'[t].asset \in {slot[t].asset, NoAsset}
    BY <2>1
  <2> QED BY <2>2, <2>3, NothingNewKeepsCovered
<1> QED BY <1>1, <1>2, <1>3, <1>4, <1>5, <1>6

\* The job itself, one step at a time.
LEMMA JobKeepsCovered ==
  ASSUME IInv, DueCovered, Reconcile
  PROVE  DueCovered'
<1>0. job \in Job
  BY DEF IInv, MediaTypeOK
<1>1. CASE StartJob
  <2>1. /\ UNCHANGED <<slot, row, stored, old, issued>>
        /\ job'.step = "rows" /\ job'.cutoff = old /\ job'.due = Orphans \cap old
        /\ job'.todo = {a \in row \cap old : ~Referenced(a)}
    BY <1>1 DEF StartJob, NoJob, database
  <2>2. \A a \in Orphans : a \in AssetId /\ a \in issued /\ ~Referenced(a)
    BY MediaAssumption DEF Orphans, Referenced, IInv, MediaTypeOK, SlotsApart
  <2> QED BY <2>1, <2>2 DEF DueCovered, Covered, Referenced
<1>2. CASE RemoveRow
  <2>1. PICK a \in job.todo :
        \/ /\ row' = row \ {a}
           /\ job' = [job EXCEPT !.step = "rowObject", !.asset = a, !.todo = @ \ {a}]
        \/ /\ a \notin row \/ Referenced(a)
           /\ job' = [job EXCEPT !.todo = @ \ {a}] /\ row' = row
    BY <1>2 DEF RemoveRow
  <2>2. job.step = "rows" /\ UNCHANGED <<slot, stored, old, issued>>
    BY <1>2 DEF RemoveRow
  <2>3. /\ job'.due = job.due /\ job'.cutoff = job.cutoff /\ job'.errors = job.errors
        /\ job'.todo = job.todo \ {a} /\ job'.step \in {"rows", "rowObject"}
    BY <1>0, <2>1, <2>2 DEF Job
  <2>4. row' \subseteq row /\ (a \in row' => Referenced(a))
    BY <2>1
  <2> QED BY <2>2, <2>3, <2>4 DEF DueCovered, Covered, Referenced
<1>3. CASE RemoveObject("rowObject", "rows") \/ RemoveObject("object", "objects")
  <2>1. /\ UNCHANGED <<slot, row, old, issued>> /\ stored' \subseteq stored
        /\ \/ job.step = "rowObject" /\ job'.step = "rows"
           \/ job.step = "object" /\ job'.step = "objects"
        /\ job'.due = job.due /\ job'.cutoff = job.cutoff /\ job'.todo = job.todo
        /\ \/ job'.errors = job.errors /\ job.asset \notin stored'
           \/ job'.errors = TRUE
    BY <1>0, <1>3 DEF RemoveObject, database, Job
  <2> QED BY <2>1 DEF DueCovered, Covered, Referenced
<1>4. CASE List
  <2>1. /\ UNCHANGED <<slot, row, stored, old, issued>>
        /\ job.step = "rows" /\ job.todo = {}
        /\ job'.step = "objects" /\ job'.todo = stored \cap job.cutoff
        /\ job'.due = job.due /\ job'.cutoff = job.cutoff /\ job'.errors = job.errors
    BY <1>0, <1>4 DEF List, database, Job
  <2> QED BY <2>1 DEF DueCovered, Covered, Referenced
<1>5. CASE CheckObject
  <2>1. PICK a \in job.todo :
          job' = IF a \in row THEN [job EXCEPT !.todo = @ \ {a}]
                 ELSE [job EXCEPT !.step = "recheck", !.asset = a, !.todo = @ \ {a}]
    BY <1>5 DEF CheckObject
  <2>2. job.step = "objects" /\ UNCHANGED <<slot, row, stored, old, issued>>
    BY <1>5 DEF CheckObject, database
  <2>3. /\ job'.due = job.due /\ job'.cutoff = job.cutoff /\ job'.errors = job.errors
        /\ job'.todo = job.todo \ {a}
        /\ \/ a \in row /\ job'.step = "objects"
           \/ a \notin row /\ job'.step = "recheck" /\ job'.asset = a
    BY <1>0, <2>1, <2>2 DEF Job
  <2> QED BY <2>2, <2>3 DEF DueCovered, Covered, Referenced
<1>6. CASE RecheckObject
  <2>1. /\ job.step = "recheck" /\ UNCHANGED <<slot, row, stored, old, issued>>
        /\ job'.due = job.due /\ job'.cutoff = job.cutoff /\ job'.errors = job.errors
        /\ job'.todo = job.todo
        /\ \/ job.asset \in row /\ job'.step = "objects"
           \/ job'.step = "object" /\ job'.asset = job.asset
    BY <1>0, <1>6 DEF RecheckObject, database, Job
  <2> QED BY <2>1 DEF DueCovered, Covered, Referenced
<1>7. CASE EndJob
  BY <1>7 DEF EndJob, NoJob, DueCovered
<1> QED BY <1>1, <1>2, <1>3, <1>4, <1>5, <1>6, <1>7 DEF Reconcile

LEMMA StepKeepsCovered ==
  ASSUME IInv, DueCovered, [MediaNext]_vars
  PROVE  DueCovered'
<1>1. ASSUME PutFails PROVE DueCovered'
  <2>1. PICK a \in AssetId \ issued : issued' = issued \cup {a} /\ stored' \in {stored, stored \cup {a}}
    BY <1>1 DEF PutFails
  <2>2. UNCHANGED <<slot, row, old, job>>
    BY <1>1 DEF PutFails, database
  <2>3. {a} \cap (issued \cap old) = {}
    OBVIOUS
  <2> QED BY <2>1, <2>2, <2>3, OthersKeepCovered
<1>2. ASSUME NEW a \in AssetId, Age(a) PROVE DueCovered'
  BY <1>2, NothingNewKeepsCovered DEF Age, database
<1>3. CASE UNCHANGED vars
  BY <1>3, NothingNewKeepsCovered DEF vars, database
<1> QED BY <1>1, <1>2, <1>3, RequestsKeepCovered, JobKeepsCovered DEF MediaNext

\* A reconciliation that reports no error has left no orphan it was to remove, for any number of
\* pictures and whatever requests run beside it.
THEOREM ReportsAreClean == MediaSpec => []CleanReport
<1>1. MediaInit => DueCovered
  BY DEF MediaInit, NoJob, DueCovered
<1>2. IInv /\ IInv' /\ DueCovered /\ [MediaNext]_vars => DueCovered'
  BY StepKeepsCovered
<1>3. IInv /\ DueCovered => CleanReport
  <2>1. IInv => job.errors \in BOOLEAN
    BY DEF IInv, MediaTypeOK, Job
  <2> QED BY <2>1 DEF DueCovered, Covered, CleanReport
<1> QED BY InvariantHolds, <1>1, <1>2, <1>3, PTL DEF MediaSpec
=============================================================================
