----------------------------- MODULE Editors_proofs -----------------------------
(***************************************************************************)
(* What the user writes is neither lost nor misreported, for any number of *)
(* drafts, visits, moves and faults: the autosave, the quick note, the     *)
(* canvas of the board and the sheet of a character.                       *)
(***************************************************************************)
EXTENDS Autosave, QuickNote, BoardPage, CharacterSheet, FiniteSetTheorems, SequenceTheorems,
    TLAPS

(* The autosave.                                                            *)

Flags == inFlight \in BOOLEAN /\ timer \in BOOLEAN /\ mounted \in BOOLEAN
Texts == draft \in Drafts /\ saved \in Drafts /\ server \in Drafts /\ since \subseteq Drafts
Counts == waiting \in Nat /\ waiting <= MaxWaiting
States ==
    /\ request \in {"idle", "saving", "error"}
    /\ flush \in {"none", "waiting", "saving", "true", "false"}

\* One save at most is on the wire, exactly while the editor says "saving"; once the server
\* has applied it the server has its draft, and an idle editor knows what the server has.
Wire ==
    /\ wire \subseteq Drafts \X BOOLEAN
    /\ inFlight = FALSE <=> wire = {}
    /\ request = "saving" <=> wire # {}
    /\ \A w, x \in wire : w = x
    /\ \A w \in wire : w[2] = TRUE => server = w[1]
    /\ request = "idle" => server = saved

AutosaveInv == Flags /\ Texts /\ Counts /\ States /\ Wire

LEMMA AutosaveInitInv == AutosaveInit => AutosaveInv
<1> SUFFICES ASSUME AutosaveInit PROVE AutosaveInv
  OBVIOUS
<1>1. Flags
  BY DEF AutosaveInit, Flags
<1>2. Texts /\ States /\ Wire
  BY AutosaveAssumption DEF AutosaveInit, Texts, States, Wire
<1>3. Counts
  BY AutosaveAssumption DEF AutosaveInit, Counts
<1> QED BY <1>1, <1>2, <1>3 DEF AutosaveInv

\* A wire with one save of a draft.
LEMMA OneOnTheWire ==
  ASSUME NEW d \in Drafts, NEW b \in BOOLEAN, NEW w, w \in {<<d, b>>}
  PROVE  w \in Drafts \X BOOLEAN /\ w = <<d, b>> /\ w[1] = d /\ w[2] = b
<1>1. w = <<d, b>>
  OBVIOUS
<1>2. <<d, b>>[1] = d /\ <<d, b>>[2] = b
  OBVIOUS
<1>3. <<d, b>> \in Drafts \X BOOLEAN
  OBVIOUS
<1> QED BY <1>1, <1>2, <1>3

LEMMA SendKeeps ==
  ASSUME Texts, wire' = {<<draft, FALSE>>}, inFlight' = TRUE, request' = "saving"
  PROVE  Wire'
<1>1. \A w \in wire' : w \in Drafts \X BOOLEAN /\ w = <<draft, FALSE>> /\ w[2] = FALSE
  BY OneOnTheWire DEF Texts
<1>2. wire' \subseteq Drafts \X BOOLEAN
  BY <1>1
<1>3. wire' # {} /\ request' # "idle" /\ inFlight' # FALSE
  OBVIOUS
<1> QED BY <1>1, <1>2, <1>3 DEF Wire

LEMMA FlushByHookKeeps ==
  ASSUME AutosaveInv, FlushByHook, waiting < MaxWaiting,
         timer' \in BOOLEAN, mounted' \in BOOLEAN,
         UNCHANGED <<draft, saved, flush, since, server>>
  PROVE  AutosaveInv'
<1>1. Texts'
  BY DEF AutosaveInv, Texts
<1>2. Counts'
  BY AutosaveAssumption DEF AutosaveInv, Counts, FlushByHook
<1>3. Flags' /\ States' /\ Wire'
  <2>1. CASE UNCHANGED <<wire, inFlight, request>>
    BY <2>1 DEF AutosaveInv, Flags, States, Wire
  <2>2. CASE ~inFlight /\ Send(wire)
    <3>1. wire' = {<<draft, FALSE>>} /\ inFlight' = TRUE /\ request' = "saving"
      BY <2>2 DEF Send, AutosaveInv, Flags, Wire
    <3> QED BY <3>1, SendKeeps DEF AutosaveInv, Flags, States
  <2> QED BY <2>1, <2>2 DEF FlushByHook
<1> QED BY <1>1, <1>2, <1>3 DEF AutosaveInv

\* The answer to the save on the wire ends it before a waiting flush sends the next.
LEMMA AnsweredKeeps ==
  ASSUME AutosaveInv, NEW save \in wire, NEW ok \in BOOLEAN, Answered(save, ok),
         ok => save[2] = TRUE
  PROVE  AutosaveInv'
<1> DEFINE last == IF ok THEN save[1] ELSE saved
           own == IF flush # "saving" THEN flush ELSE IF ok THEN "true" ELSE "false"
           outcome == IF ok THEN "idle" ELSE "error"
<1>1. /\ saved' = last
      /\ timer' = IF ok THEN mounted /\ Valid(draft) /\ draft # last ELSE timer
      /\ GoOn(last, wire \ {save}, outcome, own)
      /\ UNCHANGED <<draft, since, mounted, server>>
  BY DEF Answered
<1>2. wire \ {save} = {}
  BY DEF AutosaveInv, Wire
<1>3. last \in Drafts /\ (ok => server = last)
  BY DEF AutosaveInv, Wire, Texts
<1>4. own \in {"none", "waiting", "saving", "true", "false"}
  BY DEF AutosaveInv, States
<1>5. \/ wire' = {} /\ inFlight' = FALSE /\ request' = outcome
      \/ wire' = {<<draft, FALSE>>} /\ inFlight' = TRUE /\ request' = "saving"
  BY <1>1, <1>2 DEF GoOn, Send
<1>6. Texts'
  BY <1>1, <1>3 DEF AutosaveInv, Texts
<1>7. Counts'
  <2>1. \/ waiting' = waiting
        \/ waiting' = 0
        \/ waiting > 0 /\ waiting' = waiting - 1
    BY <1>1 DEF GoOn
  <2> QED BY <2>1, AutosaveAssumption DEF AutosaveInv, Counts
<1>8. Flags'
  <2>1. inFlight' \in BOOLEAN
    BY <1>5
  <2>2. timer' \in BOOLEAN /\ mounted' \in BOOLEAN
    BY <1>1 DEF AutosaveInv, Flags
  <2> QED BY <2>1, <2>2 DEF Flags
<1>9. States'
  <2>1. flush' \in {own, "true", "false", "saving"}
    BY <1>1 DEF GoOn
  <2> QED BY <1>4, <1>5, <2>1 DEF States
<1>10. Wire'
  <2>1. CASE wire' = {} /\ inFlight' = FALSE /\ request' = outcome
    BY <1>1, <1>3, <2>1 DEF Wire
  <2>2. CASE wire' = {<<draft, FALSE>>} /\ inFlight' = TRUE /\ request' = "saving"
    BY <2>2, SendKeeps DEF AutosaveInv
  <2> QED BY <1>5, <2>1, <2>2
<1> QED BY <1>6, <1>7, <1>8, <1>9, <1>10 DEF AutosaveInv

LEMMA AutosaveStep ==
  ASSUME AutosaveInv, [AutosaveNext]_vars
  PROVE  AutosaveInv'
<1>1. ASSUME NEW d \in Drafts, Change(d) PROVE AutosaveInv'
  <2>1. timer' \in BOOLEAN
    BY <1>1 DEF Change
  <2>2. Flags' /\ Counts' /\ States' /\ Wire'
    BY <1>1, <2>1 DEF Change, AutosaveInv, Flags, Counts, States, Wire
  <2>3. Texts'
    BY <1>1 DEF Change, AutosaveInv, Texts
  <2> QED BY <2>2, <2>3 DEF AutosaveInv
<1>2. CASE DelayEnds
  BY <1>2, FlushByHookKeeps DEF DelayEnds, AutosaveInv, Flags
<1>3. CASE Leave
  BY <1>3, FlushByHookKeeps DEF Leave
<1>4. CASE Flush
  <2>1. Texts' /\ Counts'
    BY <1>4 DEF Flush, AutosaveInv, Texts, Counts
  <2>2. CASE UNCHANGED <<wire, inFlight, request>> /\ flush' \in {"waiting", "true", "false"}
    BY <1>4, <2>1, <2>2 DEF Flush, AutosaveInv, Flags, States, Wire
  <2>3. CASE ~inFlight /\ Send(wire) /\ flush' = "saving"
    <3>1. wire' = {<<draft, FALSE>>} /\ inFlight' = TRUE /\ request' = "saving"
      BY <2>3 DEF Send, AutosaveInv, Flags, Wire
    <3>2. Wire'
      BY <3>1, SendKeeps DEF AutosaveInv
    <3>3. Flags' /\ States'
      BY <1>4, <2>3, <3>1 DEF Flush, AutosaveInv, Flags, States
    <3> QED BY <2>1, <3>2, <3>3 DEF AutosaveInv
  <2>4. \/ UNCHANGED <<wire, inFlight, request>> /\ flush' \in {"waiting", "true", "false"}
        \/ ~inFlight /\ Send(wire) /\ flush' = "saving"
    BY <1>4 DEF Flush
  <2> QED BY <2>2, <2>3, <2>4
<1>5. ASSUME NEW d \in Drafts, Apply(d) PROVE AutosaveInv'
  <2>1. wire' = {<<d, TRUE>>}
    BY <1>5 DEF Apply, AutosaveInv, Wire
  <2>2. wire # {} /\ server' = d
        /\ UNCHANGED <<draft, saved, request, inFlight, timer, waiting, flush, since, mounted>>
    BY <1>5 DEF Apply
  <2>3. Flags' /\ Texts' /\ Counts' /\ States'
    BY <2>2 DEF AutosaveInv, Flags, Texts, Counts, States
  <2>4. /\ \A w \in wire' : w \in Drafts \X BOOLEAN /\ w = <<d, TRUE>> /\ w[1] = d
        /\ wire' # {}
    BY <2>1, OneOnTheWire
  <2>5. Wire'
    BY <2>2, <2>4 DEF AutosaveInv, Wire
  <2> QED BY <2>3, <2>5 DEF AutosaveInv
<1>6. ASSUME NEW d \in Drafts, Succeed(d) PROVE AutosaveInv'
  <2>1. <<d, TRUE>> \in wire /\ Answered(<<d, TRUE>>, TRUE)
    BY <1>6 DEF Succeed
  <2> QED BY <2>1, AnsweredKeeps
<1>7. ASSUME NEW d \in Drafts, Lose(d) PROVE AutosaveInv'
  <2>1. \/ <<d, FALSE>> \in wire /\ Answered(<<d, FALSE>>, FALSE)
        \/ <<d, TRUE>> \in wire /\ Answered(<<d, TRUE>>, FALSE)
    BY <1>7 DEF Lose
  <2> QED BY <2>1, AnsweredKeeps
<1>8. CASE UNCHANGED vars
  BY <1>8 DEF vars, AutosaveInv, Flags, Texts, Counts, States, Wire
<1> QED BY <1>1, <1>2, <1>3, <1>4, <1>5, <1>6, <1>7, <1>8 DEF AutosaveNext

\* The types of the autosave's variables, for any drafts and any number of waiting flushes.
THEOREM AutosaveTypeCorrect == AutosaveSpec => []AutosaveTypeOK
<1>1. ASSUME AutosaveInv PROVE AutosaveTypeOK
  <2>1. {draft, saved, server} \subseteq Drafts /\ since \subseteq Drafts
    BY <1>1 DEF AutosaveInv, Texts
  <2>2. {inFlight, timer, mounted} \subseteq BOOLEAN
    BY <1>1 DEF AutosaveInv, Flags
  <2>3. waiting \in 0 .. MaxWaiting
    BY <1>1, AutosaveAssumption DEF AutosaveInv, Counts
  <2>4. wire \subseteq Drafts \X BOOLEAN
    BY <1>1 DEF AutosaveInv, Wire
  <2> QED BY <1>1, <2>1, <2>2, <2>3, <2>4 DEF AutosaveInv, States, AutosaveTypeOK
<1> QED BY <1>1, AutosaveInitInv, AutosaveStep, PTL DEF AutosaveSpec

\* No two saves of a draft are ever on the wire, whoever flushes and whatever fails.
THEOREM OneSaveAlways == AutosaveSpec => []OneSaveAtATime
<1>1. ASSUME AutosaveInv PROVE OneSaveAtATime
  <2>1. CASE wire = {}
    BY <2>1, FS_EmptySet DEF OneSaveAtATime
  <2>2. ASSUME NEW w \in wire PROVE OneSaveAtATime
    <3>1. wire = {w}
      BY <1>1, <2>2 DEF AutosaveInv, Wire
    <3>2. Cardinality({w}) = 1
      BY FS_Singleton
    <3> QED BY <3>1, <3>2 DEF OneSaveAtATime
  <2> QED BY <2>1, <2>2
<1> QED BY <1>1, AutosaveInitInv, AutosaveStep, PTL DEF AutosaveSpec

\* "Saved" is never shown for a draft the server does not have.
THEOREM SavedAlwaysMeansSaved == AutosaveSpec => []SavedMeansSaved
<1>1. AutosaveInv => SavedMeansSaved
  BY DEF AutosaveInv, Wire, SavedMeansSaved
<1> QED BY <1>1, AutosaveInitInv, AutosaveStep, PTL DEF AutosaveSpec

\* What an answer does, with one save on the wire: nobody goes on, or nothing is left to send,
\* or a flush that waited sends the draft.
AnswerLeaves(ok, last, own) ==
    /\ saved' = last /\ UNCHANGED <<draft, since, mounted, server>>
    /\ timer' = IF ok THEN mounted /\ Valid(draft) /\ draft # last ELSE timer
    /\ \/ /\ wire' = {} /\ request' = IF ok THEN "idle" ELSE "error"
          /\ \/ waiting = 0 /\ flush' = own
             \/ /\ NothingToSend(last)
                /\ flush' = IF flush # "waiting" THEN own
                            ELSE IF draft = last THEN "true" ELSE "false"
       \/ /\ wire' = {<<draft, FALSE>>}
          /\ flush' = own \/ (flush = "waiting" /\ flush' = "saving")

LEMMA AnsweredFacts ==
  ASSUME AutosaveInv, NEW save \in wire, NEW ok \in BOOLEAN, Answered(save, ok)
  PROVE  \E last, own : /\ last = IF ok THEN save[1] ELSE saved
                        /\ own = IF flush # "saving" THEN flush
                                 ELSE IF ok THEN "true" ELSE "false"
                        /\ AnswerLeaves(ok, last, own)
<1> PICK last : last = IF ok THEN save[1] ELSE saved
  OBVIOUS
<1> PICK own : own = IF flush # "saving" THEN flush ELSE IF ok THEN "true" ELSE "false"
  OBVIOUS
<1>1. wire \ {save} = {}
  BY DEF AutosaveInv, Wire
<1>2. /\ saved' = last /\ UNCHANGED <<draft, since, mounted, server>>
      /\ timer' = IF ok THEN mounted /\ Valid(draft) /\ draft # last ELSE timer
      /\ GoOn(last, {}, IF ok THEN "idle" ELSE "error", own)
  BY <1>1 DEF Answered
<1>3. AnswerLeaves(ok, last, own)
  BY <1>2 DEF AnswerLeaves, GoOn, Send
<1> QED BY <1>3

\* A draft that was left behind is on the wire, or a flush waits to send it; no delay runs.
LeftBehind ==
    ~mounted => /\ ~timer
                /\ waiting = 0 => \A w \in wire : w[1] = draft

UnderWayInv == AutosaveInv /\ LeftBehind /\ UnsavedIsUnderWay

LEMMA UnderWayInitInv == AutosaveInit => UnderWayInv
BY AutosaveInitInv DEF UnderWayInv, LeftBehind, UnsavedIsUnderWay, AutosaveInit

\* A flush of the hook sends the draft, waits, or finds that there is nothing to send.
LEMMA HookKeepsUnderWay ==
  ASSUME UnderWayInv, AutosaveInv', FlushByHook, UNCHANGED <<draft, saved, server>>,
         timer' = FALSE
  PROVE  UnderWayInv'
<1>1. CASE inFlight /\ waiting' = waiting + 1 /\ UNCHANGED <<wire, inFlight, request>>
  <2>1. waiting' > 0
    BY <1>1 DEF UnderWayInv, AutosaveInv, Counts
  <2> QED BY <1>1, <2>1 DEF UnderWayInv, LeftBehind, UnsavedIsUnderWay
<1>2. CASE ~inFlight /\ NothingToSend(saved) /\ UNCHANGED <<wire, inFlight, request, waiting>>
  <2>1. wire = {} /\ (request = "idle" => server = saved) /\ request \in {"idle", "error"}
    BY <1>2 DEF UnderWayInv, AutosaveInv, Wire, States, Flags
  <2> QED BY <1>2, <2>1 DEF UnderWayInv, LeftBehind, UnsavedIsUnderWay, NothingToSend
<1>3. CASE ~inFlight /\ Send(wire)
  <2>1. wire' = {<<draft, FALSE>>}
    BY <1>3 DEF Send, UnderWayInv, AutosaveInv, Flags, Wire
  <2>2. \A w \in wire' : w[1] = draft
    BY <2>1
  <2> QED BY <2>1, <2>2 DEF UnderWayInv, LeftBehind, UnsavedIsUnderWay
<1> QED BY <1>1, <1>2, <1>3 DEF FlushByHook

LEMMA AnsweredKeepsUnderWay ==
  ASSUME UnderWayInv, AutosaveInv', NEW save \in wire, NEW ok \in BOOLEAN, Answered(save, ok),
         ok => save[2] = TRUE
  PROVE  UnderWayInv'
<1>0. AutosaveInv
  BY DEF UnderWayInv
<1> PICK last, own :
       /\ last = IF ok THEN save[1] ELSE saved
       /\ own = IF flush # "saving" THEN flush ELSE IF ok THEN "true" ELSE "false"
       /\ AnswerLeaves(ok, last, own)
  BY <1>0, AnsweredFacts
<1>1. /\ UNCHANGED <<draft, mounted, server>>
      /\ timer' = IF ok THEN mounted /\ Valid(draft) /\ draft # last ELSE timer
      /\ \/ /\ wire' = {} /\ request' = IF ok THEN "idle" ELSE "error"
            /\ waiting = 0 \/ NothingToSend(last)
         \/ wire' = {<<draft, FALSE>>}
  BY DEF AnswerLeaves
<1>2. ok => server = last
  BY DEF UnderWayInv, AutosaveInv, Wire
<1>3. ~mounted /\ waiting = 0 => save[1] = draft
  BY DEF UnderWayInv, LeftBehind
<1>4. \A w \in wire' : w[1] = draft
  <2>1. CASE wire' = {}
    BY <2>1
  <2>2. CASE wire' = {<<draft, FALSE>>}
    BY <2>2
  <2> QED BY <1>1, <2>1, <2>2
<1>5. LeftBehind'
  BY <1>1, <1>4 DEF UnderWayInv, LeftBehind
<1>6. UnsavedIsUnderWay'
  <2>1. CASE wire' = {<<draft, FALSE>>}
    BY <1>1, <2>1 DEF UnsavedIsUnderWay
  <2>2. CASE /\ wire' = {} /\ request' = IF ok THEN "idle" ELSE "error"
             /\ waiting = 0 \/ NothingToSend(last)
    BY <1>1, <1>2, <1>3, <2>2 DEF UnsavedIsUnderWay, NothingToSend, Valid
  <2> QED BY <1>1, <2>1, <2>2
<1> QED BY <1>5, <1>6 DEF UnderWayInv

LEMMA UnderWayStep ==
  ASSUME UnderWayInv, [AutosaveNext]_vars
  PROVE  UnderWayInv'
<1>1. AutosaveInv'
  BY AutosaveStep DEF UnderWayInv
<1>2. ASSUME NEW d \in Drafts, Change(d) PROVE UnderWayInv'
  <2>1. /\ mounted /\ mounted' /\ draft' = d /\ timer' = (Valid(d) /\ d # saved)
        /\ UNCHANGED <<server, request, wire, inFlight>>
    BY <1>2 DEF Change
  <2>2. /\ request = "idle" => server = saved
        /\ request = "saving" => inFlight = TRUE
        /\ request \in {"idle", "saving", "error"}
    BY DEF UnderWayInv, AutosaveInv, Wire, Flags, States
  <2> QED BY <1>1, <2>1, <2>2 DEF UnderWayInv, LeftBehind, UnsavedIsUnderWay
<1>3. CASE DelayEnds \/ Leave
  BY <1>1, <1>3, HookKeepsUnderWay DEF DelayEnds, Leave
<1>4. CASE Flush
  <2>1. mounted /\ UNCHANGED <<draft, saved, timer, waiting, mounted, server>>
    BY <1>4 DEF Flush
  <2>2. CASE UNCHANGED <<wire, inFlight, request>>
    BY <1>1, <2>1, <2>2 DEF UnderWayInv, LeftBehind, UnsavedIsUnderWay
  <2>3. CASE Send(wire)
    BY <1>1, <2>1, <2>3 DEF Send, UnderWayInv, LeftBehind, UnsavedIsUnderWay
  <2> QED BY <1>4, <2>2, <2>3 DEF Flush
<1>5. ASSUME NEW d \in Drafts, Apply(d) PROVE UnderWayInv'
  <2>1. /\ <<d, FALSE>> \in wire /\ wire = {<<d, FALSE>>} /\ wire' = {<<d, TRUE>>}
        /\ server' = d /\ inFlight = TRUE
        /\ UNCHANGED <<draft, saved, request, inFlight, timer, waiting, mounted>>
    BY <1>5 DEF Apply, UnderWayInv, AutosaveInv, Wire, Flags
  <2>2. <<d, FALSE>>[1] = d /\ <<d, TRUE>>[1] = d
    OBVIOUS
  <2>3. ~mounted /\ waiting = 0 => d = draft
    BY <2>1, <2>2 DEF UnderWayInv, LeftBehind
  <2>4. LeftBehind'
    BY <2>1, <2>2, <2>3 DEF UnderWayInv, LeftBehind
  <2>5. waiting = 0 \/ waiting > 0
    BY DEF UnderWayInv, AutosaveInv, Counts
  <2>6. UnsavedIsUnderWay'
    BY <2>1, <2>3, <2>5 DEF UnsavedIsUnderWay
  <2> QED BY <1>1, <2>4, <2>6 DEF UnderWayInv
<1>6. ASSUME NEW d \in Drafts, Succeed(d) \/ Lose(d) PROVE UnderWayInv'
  <2>1. \E b, ok \in BOOLEAN : <<d, b>> \in wire /\ Answered(<<d, b>>, ok) /\ (ok => b = TRUE)
    BY <1>6 DEF Succeed, Lose
  <2> QED BY <1>1, <2>1, AnsweredKeepsUnderWay
<1>7. CASE UNCHANGED vars
  BY <1>1, <1>7 DEF vars, UnderWayInv, LeftBehind, UnsavedIsUnderWay
<1> QED BY <1>2, <1>3, <1>4, <1>5, <1>6, <1>7 DEF AutosaveNext

\* No change is forgotten: a valid draft that the server lacks is on the wire, or its delay runs,
\* or whoever the answer wakes will find it, unless the user sees an error; also once the editor
\* has been left.
THEOREM UnsavedAlwaysUnderWay == AutosaveSpec => []UnsavedIsUnderWay
<1>1. UnderWayInv => UnsavedIsUnderWay
  BY DEF UnderWayInv
<1> QED BY <1>1, UnderWayInitInv, UnderWayStep, PTL DEF AutosaveSpec

\* The status tells the truth.
THEOREM StatusAlwaysTrue == AutosaveSpec => []StatusIsTrue
BY SavedAlwaysMeansSaved, UnsavedAlwaysUnderWay, PTL DEF StatusIsTrue

\* Everything sent since the caller's flush began to save was a draft since the call, and once
\* the flush has resolved to "true", so is what the server has, wherever the editor knows it.
FlushInv ==
    /\ AutosaveInv
    /\ flush # "none" => draft \in since
    /\ flush \in {"saving", "true"} => \A w \in wire : w[1] \in since
    /\ flush = "true" /\ Known => server \in since

LEMMA FlushInitInv == AutosaveInit => FlushInv
BY AutosaveInitInv DEF FlushInv, AutosaveInit

LEMMA AnsweredKeepsFlush ==
  ASSUME FlushInv, AutosaveInv', NEW save \in wire, NEW ok \in BOOLEAN, Answered(save, ok),
         ok => save[2] = TRUE
  PROVE  FlushInv'
<1>0. AutosaveInv
  BY DEF FlushInv
<1> PICK last, own :
       /\ last = IF ok THEN save[1] ELSE saved
       /\ own = IF flush # "saving" THEN flush ELSE IF ok THEN "true" ELSE "false"
       /\ AnswerLeaves(ok, last, own)
  BY <1>0, AnsweredFacts
<1>1. /\ saved' = last /\ UNCHANGED <<draft, since, server>>
      /\ \/ /\ wire' = {}
            /\ \/ flush' = own
               \/ flush' = IF flush # "waiting" THEN own ELSE IF draft = last THEN "true" ELSE "false"
         \/ /\ wire' = {<<draft, FALSE>>}
            /\ flush' = own \/ (flush = "waiting" /\ flush' = "saving")
  BY DEF AnswerLeaves
<1>2. \A w \in wire' : w[1] = draft /\ w[2] = FALSE
  <2>1. CASE wire' = {}
    BY <2>1
  <2>2. CASE wire' = {<<draft, FALSE>>}
    <3>1. <<draft, FALSE>>[1] = draft /\ <<draft, FALSE>>[2] = FALSE
      OBVIOUS
    <3> QED BY <2>2, <3>1
  <2> QED BY <1>1, <2>1, <2>2
<1>3. ok => server = save[1]
  BY DEF FlushInv, AutosaveInv, Wire
<1>4. Known' => server = last /\ Known
  BY <1>1, <1>2, <1>3 DEF Known
<1>5. flush' # "none" => flush # "none"
  BY <1>1
<1>6. flush' = "true" => \/ flush = "true"
                         \/ flush = "saving" /\ ok
                         \/ flush = "waiting" /\ draft = last
  BY <1>1
<1>7. flush' = "true" /\ Known' => server \in since
  BY <1>3, <1>4, <1>6 DEF FlushInv
<1> QED BY <1>1, <1>2, <1>5, <1>7 DEF FlushInv

LEMMA FlushStep ==
  ASSUME FlushInv, [AutosaveNext]_vars
  PROVE  FlushInv'
<1>1. AutosaveInv'
  BY AutosaveStep DEF FlushInv
<1>2. ASSUME NEW d \in Drafts, Change(d) PROVE FlushInv'
  BY <1>1, <1>2 DEF Change, FlushInv, Known
<1>3. CASE DelayEnds \/ Leave
  <2>1. FlushByHook /\ UNCHANGED <<draft, saved, flush, since, server>>
    BY <1>3 DEF DelayEnds, Leave
  <2>2. CASE UNCHANGED wire
    BY <1>1, <2>1, <2>2 DEF FlushInv, Known
  <2>3. CASE ~inFlight /\ Send(wire)
    <3>1. wire = {} /\ wire' = {<<draft, FALSE>>}
      BY <2>3 DEF Send, FlushInv, AutosaveInv, Flags, Wire
    <3>2. \A w \in wire' : w[1] = draft
      BY <3>1
    <3> QED BY <1>1, <2>1, <3>1, <3>2 DEF FlushInv, Known
  <2> QED BY <2>1, <2>2, <2>3 DEF FlushByHook
<1>4. CASE Flush
  <2>1. since' = {draft} /\ UNCHANGED <<draft, saved, server>>
    BY <1>4 DEF Flush
  <2>2. CASE inFlight /\ flush' = "waiting" /\ UNCHANGED wire
    BY <1>1, <2>1, <2>2 DEF FlushInv, Known
  <2>3. CASE /\ ~inFlight /\ flush' = (IF draft = saved THEN "true" ELSE "false")
             /\ UNCHANGED wire
    <3>1. wire = {}
      BY <2>3 DEF FlushInv, AutosaveInv, Flags, Wire
    <3> QED BY <1>1, <2>1, <2>3, <3>1 DEF FlushInv, Known
  <2>4. CASE ~inFlight /\ flush' = "saving" /\ Send(wire)
    <3>1. wire = {} /\ wire' = {<<draft, FALSE>>}
      BY <2>4 DEF Send, FlushInv, AutosaveInv, Flags, Wire
    <3>2. \A w \in wire' : w[1] = draft
      BY <3>1
    <3> QED BY <1>1, <2>1, <2>4, <3>1, <3>2 DEF FlushInv, Known
  <2> QED BY <1>4, <2>2, <2>3, <2>4 DEF Flush
<1>5. ASSUME NEW d \in Drafts, Apply(d) PROVE FlushInv'
  <2>1. /\ <<d, FALSE>> \in wire /\ wire' = {<<d, TRUE>>}
        /\ server' = d /\ UNCHANGED <<draft, saved, flush, since>>
    BY <1>5 DEF Apply, FlushInv, AutosaveInv, Wire
  <2>2. <<d, FALSE>>[1] = d /\ <<d, TRUE>>[1] = d /\ <<d, TRUE>>[2] = TRUE
    OBVIOUS
  <2>3. flush \in {"saving", "true"} => d \in since
    BY <2>1, <2>2 DEF FlushInv, Known
  <2> QED BY <1>1, <2>1, <2>2, <2>3 DEF FlushInv
<1>6. ASSUME NEW d \in Drafts, Succeed(d) \/ Lose(d) PROVE FlushInv'
  <2>1. \E b, ok \in BOOLEAN : <<d, b>> \in wire /\ Answered(<<d, b>>, ok) /\ (ok => b = TRUE)
    BY <1>6 DEF Succeed, Lose
  <2> QED BY <1>1, <2>1, AnsweredKeepsFlush
<1>7. CASE UNCHANGED vars
  BY <1>1, <1>7 DEF vars, FlushInv, Known
<1> QED BY <1>2, <1>3, <1>4, <1>5, <1>6, <1>7 DEF AutosaveNext

\* What flush() tells its caller is true for any drafts, edits, failures and other flushes
\* meanwhile, as long as the editor knows what the server has.
THEOREM FlushAlwaysTrueIfKnown == AutosaveSpec => []FlushIsTrueIfKnown
<1>1. FlushInv => FlushIsTrueIfKnown
  BY DEF FlushInv, FlushIsTrueIfKnown, FlushTellsTheTruth
<1> QED BY <1>1, FlushInitInv, FlushStep, PTL DEF AutosaveSpec

LEMMA KnownStep ==
  ASSUME "lost" \notin Faults, AutosaveInv, Known, [AutosaveNext]_vars
  PROVE  Known'
<1>1. CASE UNCHANGED <<saved, server, wire>>
  BY <1>1 DEF Known
<1>2. CASE /\ ~inFlight /\ UNCHANGED <<saved, server>>
  <2>1. wire = {}
    BY <1>2 DEF AutosaveInv, Flags, Wire
  <2> QED BY <1>2, <2>1 DEF Known
<1>3. ASSUME NEW d \in Drafts, Apply(d) PROVE Known'
  <2>1. <<d, TRUE>> \in wire' /\ <<d, TRUE>>[2] = TRUE
    BY <1>3 DEF Apply
  <2> QED BY <2>1 DEF Known
<1>4. ASSUME NEW d \in Drafts, Succeed(d) \/ Lose(d) PROVE Known'
  <2>1. PICK b \in BOOLEAN : <<d, b>> \in wire /\ Answered(<<d, b>>, b)
    BY <1>4 DEF Succeed, Lose
  <2>2. saved' = (IF b THEN d ELSE saved) /\ UNCHANGED server
    BY <2>1 DEF Answered
  <2>3. wire = {<<d, b>>} /\ (b => server = d)
    BY <2>1 DEF AutosaveInv, Wire
  <2> QED BY <2>2, <2>3 DEF Known
<1> QED
  BY <1>1, <1>2, <1>3, <1>4
  DEF AutosaveNext, Change, DelayEnds, Leave, Flush, FlushByHook, vars

\* Only a lost answer can make flush() say something untrue: where every save is answered, by
\* success or by an error before it was applied, "true" means that the server has a draft of
\* the editor since the call.
THEOREM FlushAlwaysTrue ==
  ASSUME "lost" \notin Faults
  PROVE  AutosaveSpec => []FlushTellsTheTruth
<1>1. AutosaveInit => AutosaveInv /\ Known
  BY AutosaveInitInv DEF AutosaveInit, Known
<1>2. AutosaveInv /\ Known /\ [AutosaveNext]_vars => (AutosaveInv /\ Known)'
  BY AutosaveStep, KnownStep
<1>3. FlushIsTrueIfKnown /\ Known => FlushTellsTheTruth
  BY DEF FlushIsTrueIfKnown
<1> QED BY <1>1, <1>2, <1>3, FlushAlwaysTrueIfKnown, PTL DEF AutosaveSpec

-----------------------------------------------------------------------------
(* The quick note.                                                          *)

NoteTypes ==
    /\ note \in NoteTexts \cup {Blank} /\ kept \in NoteTexts \cup {Blank}
    /\ hydrated \in BOOLEAN /\ sending \in BOOLEAN
    /\ submits \subseteq [text : NoteTexts \cup {Blank}, by : Nat, applied : BOOLEAN]

\* A visit has one request at most, and a request belongs to a visit that has begun.
Visits ==
    /\ visits \in Nat /\ visit \in Nat /\ visit <= visits
    /\ \A p \in submits : p.by # 0 /\ p.by <= visits
    /\ \A p, q \in submits : p.by = q.by => p = q

\* While the provider that sent it is there, the field shows what is being sent.
SentIsShown ==
    /\ visit # 0 /\ noteSeen = "PLAYER" => hydrated = TRUE
    /\ \A p \in submits :
         /\ p.by = visit => hydrated = TRUE /\ sending = TRUE /\ note = p.text
         /\ p.applied = TRUE => p.text \in notes

TextKept ==
    wrote \notin notes \cup {Blank} => kept = wrote /\ (hydrated = TRUE => note = wrote)

NoteInv == NoteTypes /\ Visits /\ SentIsShown /\ TextKept

LEMMA NoteInitInv == QuickNoteInit => NoteInv
<1> SUFFICES ASSUME QuickNoteInit PROVE NoteInv
  OBVIOUS
<1>1. NoteTypes
  BY DEF QuickNoteInit, NoteTypes
<1>2. Visits
  BY DEF QuickNoteInit, Visits
<1>3. SentIsShown /\ TextKept
  BY DEF QuickNoteInit, SentIsShown, TextKept
<1> QED BY <1>1, <1>2, <1>3 DEF NoteInv

\* An answer ends one request and leaves the others as they were.
LEMMA AnswerEndsOne ==
  ASSUME NoteInv, NEW p \in submits, submits' = submits \ {p},
         UNCHANGED <<visit, visits, noteSeen, hydrated, notes>>
  PROVE  /\ Visits'
         /\ Alive(p) => \A q \in submits' : q.by # visit'
         /\ submits' \subseteq [text : NoteTexts \cup {Blank}, by : Nat, applied : BOOLEAN]
BY DEF NoteInv, NoteTypes, Visits, Alive

LEMMA NoteStep ==
  ASSUME NoteInv, [QuickNoteNext]_noteVars
  PROVE  NoteInv'
<1> USE DEF NoteInv
<1>1. ASSUME NEW r, ChangeRole(r) PROVE NoteInv'
  BY <1>1 DEF ChangeRole, NoteTypes, Visits, SentIsShown, TextKept
<1>2. CASE EnterCampaign
  <2>1. /\ visits' = visits + 1 /\ visit' = visits + 1
        /\ hydrated' = (noteSeen = "PLAYER")
        /\ note' = IF hydrated' THEN kept ELSE Blank
        /\ sending' = FALSE
        /\ UNCHANGED <<notes, noteSeen, kept, submits, wrote>>
    BY <1>2 DEF EnterCampaign, noteServer
  <2>2. Visits' /\ \A p \in submits' : p.by # visit'
    BY <2>1 DEF Visits, NoteTypes
  <2>3. NoteTypes'
    BY <2>1 DEF NoteTypes
  <2>4. SentIsShown' /\ TextKept'
    BY <2>1, <2>2 DEF SentIsShown, TextKept
  <2> QED BY <2>2, <2>3, <2>4
<1>3. CASE LeaveCampaign
  <2>1. /\ visit' = 0 /\ note' = Blank /\ hydrated' = FALSE /\ sending' = FALSE
        /\ UNCHANGED <<notes, noteSeen, visits, kept, submits, wrote>>
    BY <1>3 DEF LeaveCampaign, Unmount, noteServer
  <2>2. Visits' /\ \A p \in submits' : p.by # visit'
    BY <2>1 DEF Visits
  <2>3. NoteTypes'
    BY <2>1 DEF NoteTypes
  <2>4. SentIsShown' /\ TextKept'
    BY <2>1, <2>2 DEF SentIsShown, TextKept
  <2> QED BY <2>2, <2>3, <2>4
<1>4. CASE Refetch
  <2>1. CASE noteRole = "NONE"
    <3>1. /\ visit' = 0 /\ note' = Blank /\ hydrated' = FALSE /\ sending' = FALSE
          /\ UNCHANGED <<notes, visits, kept, submits, wrote>>
      BY <1>4, <2>1 DEF Refetch, Unmount, noteServer
    <3>2. Visits' /\ \A p \in submits' : p.by # visit'
      BY <3>1 DEF Visits
    <3>3. NoteTypes'
      BY <3>1 DEF NoteTypes
    <3>4. SentIsShown' /\ TextKept'
      BY <3>1, <3>2 DEF SentIsShown, TextKept
    <3> QED BY <3>2, <3>3, <3>4
  <2>2. CASE noteRole # "NONE"
    <3>1. /\ noteSeen' = noteRole
          /\ note' = IF noteRole = "PLAYER" /\ ~hydrated THEN kept ELSE note
          /\ hydrated' = (hydrated \/ noteRole = "PLAYER")
          /\ UNCHANGED <<visit, sending, notes, visits, kept, submits, wrote>>
      BY <1>4, <2>2 DEF Refetch, noteServer
    <3>2. Visits'
      BY <3>1 DEF Visits
    <3>3. NoteTypes' /\ SentIsShown' /\ TextKept'
      BY <3>1 DEF NoteTypes, SentIsShown, TextKept
    <3> QED BY <3>2, <3>3
  <2> QED BY <2>1, <2>2
<1>5. ASSUME NEW t \in NoteTexts \cup {Blank}, Write(t) PROVE NoteInv'
  <2>1. /\ note' = t /\ kept' = t /\ wrote' = t /\ sending = FALSE
        /\ UNCHANGED <<notes, noteSeen, visit, visits, hydrated, sending, submits>>
    BY <1>5 DEF Write, noteServer, NoteTypes
  <2> QED BY <2>1 DEF NoteTypes, Visits, SentIsShown, TextKept
<1>6. CASE Submit
  <2> DEFINE sent == [text |-> note, by |-> visit, applied |-> FALSE]
  <2>1. /\ visit # 0 /\ hydrated = TRUE /\ sending = FALSE
        /\ sending' = TRUE /\ submits' = submits \cup {sent}
        /\ UNCHANGED <<notes, noteSeen, visit, visits, note, hydrated, kept, wrote>>
    BY <1>6 DEF Submit, Profile, noteServer, NoteTypes, SentIsShown
  <2>2. sent.text = note /\ sent.by = visit /\ sent.applied = FALSE
        /\ sent \in [text : NoteTexts \cup {Blank}, by : Nat, applied : BOOLEAN]
    BY DEF NoteTypes, Visits
  <2> HIDE DEF sent
  <2>3. \A q \in submits : q.by # visit
    BY <2>1 DEF SentIsShown
  <2>4. Visits'
    BY <2>1, <2>2, <2>3 DEF Visits
  <2>5. NoteTypes' /\ SentIsShown' /\ TextKept'
    BY <2>1, <2>2 DEF NoteTypes, SentIsShown, TextKept
  <2> QED BY <2>4, <2>5
<1>7. ASSUME NEW p \in submits, CreateNote(p) PROVE NoteInv'
  <2> DEFINE made == [p EXCEPT !.applied = TRUE]
  <2>1. /\ notes' = notes \cup {p.text} /\ submits' = (submits \ {p}) \cup {made}
        /\ UNCHANGED <<noteSeen, visit, visits, note, hydrated, sending, kept, wrote>>
    BY <1>7 DEF CreateNote
  <2>2. made.text = p.text /\ made.by = p.by /\ made.applied = TRUE
        /\ made \in [text : NoteTexts \cup {Blank}, by : Nat, applied : BOOLEAN]
    BY DEF NoteTypes
  <2> HIDE DEF made
  <2>3. Visits'
    BY <2>1, <2>2 DEF Visits
  <2>4. NoteTypes' /\ SentIsShown' /\ TextKept'
    BY <2>1, <2>2 DEF NoteTypes, SentIsShown, TextKept
  <2> QED BY <2>3, <2>4
<1>8. ASSUME NEW p \in submits, Saved(p) PROVE NoteInv'
  <2>1. /\ p.applied = TRUE /\ submits' = submits \ {p}
        /\ kept' = IF kept = p.text THEN Blank ELSE kept
        /\ IF Alive(p) THEN note' = Blank /\ sending' = FALSE ELSE UNCHANGED <<note, sending>>
        /\ UNCHANGED <<notes, noteSeen, visit, visits, hydrated, wrote>>
    BY <1>8 DEF Saved, noteServer, NoteTypes
  <2>2. /\ Visits'
        /\ Alive(p) => \A q \in submits' : q.by # visit'
        /\ submits' \subseteq [text : NoteTexts \cup {Blank}, by : Nat, applied : BOOLEAN]
    BY <2>1, AnswerEndsOne
  <2>3. NoteTypes' /\ SentIsShown'
    BY <2>1, <2>2 DEF NoteTypes, SentIsShown
  <2>4. TextKept'
    BY <2>1 DEF TextKept, SentIsShown, Alive
  <2> QED BY <2>2, <2>3, <2>4
<1>9. ASSUME NEW p \in submits, RefusedNote(p) \/ LostNote(p) PROVE NoteInv'
  <2>1. /\ submits' = submits \ {p}
        /\ sending' = IF Alive(p) THEN FALSE ELSE sending
        /\ UNCHANGED <<notes, noteSeen, visit, visits, note, hydrated, kept, wrote>>
    BY <1>9 DEF RefusedNote, LostNote, noteServer, NoteTypes
  <2>2. /\ Visits'
        /\ Alive(p) => \A q \in submits' : q.by # visit'
        /\ submits' \subseteq [text : NoteTexts \cup {Blank}, by : Nat, applied : BOOLEAN]
    BY <2>1, AnswerEndsOne
  <2>3. NoteTypes' /\ SentIsShown' /\ TextKept'
    BY <2>1, <2>2 DEF NoteTypes, SentIsShown, TextKept
  <2> QED BY <2>2, <2>3
<1>10. CASE UNCHANGED noteVars
  BY <1>10 DEF noteVars, NoteTypes, Visits, SentIsShown, TextKept
<1> QED
  BY <1>1, <1>2, <1>3, <1>4, <1>5, <1>6, <1>7, <1>8, <1>9, <1>10 DEF QuickNoteNext

\* The text the user wrote last is never lost before the server has it, for any number of
\* visits, notes and changes of role.
THEOREM TextAlwaysKept == QuickNoteSpec => []TextIsKept
<1>1. ASSUME NoteInv PROVE TextIsKept
  <2>1. Profile => hydrated = TRUE
    BY <1>1 DEF NoteInv, SentIsShown, Profile
  <2> QED BY <1>1, <2>1 DEF NoteInv, TextKept, TextIsKept
<1> QED BY <1>1, NoteInitInv, NoteStep, PTL DEF QuickNoteSpec
-----------------------------------------------------------------------------
(* The canvas of the board.                                                 *)

Boards == [place : Places, links : SUBSET Pairs]
Linkings == [id : Nat, pair : Pairs, applied : BOOLEAN]

Shapes ==
    /\ stored \in Boards /\ cached \in Boards /\ boardRead.got \in Boards
    /\ drops \in Nat /\ pendingLayout \in Nat /\ drawnLinks \in Nat
    /\ saves \subseteq [id : Nat, to : Places, applied : BOOLEAN]
    /\ linkings \subseteq Linkings
    /\ \A u \in unlinking : u.pair \in Pairs
    /\ message \in [Pairs -> {"none", "shown", "replaced"}]

\* Saves are numbered by the moves; the card is held at the last one that is not confirmed.
Moves ==
    /\ \A s \in saves : s.id # 0 /\ s.id <= drops
    /\ \A s, t \in saves : s.id = t.id => s = t
    /\ \A s \in saves : s.id = drops => pendingLayout = drops /\ place = s.to

\* The server's links, and those it has created for this user, back the canvas; the error of a
\* failed creation stays until another link replaces it.
Explained(k) == Creating(k) \/ message[k] \in {"shown", "replaced"}

Links ==
    /\ stored.links \subseteq backed
    /\ \A q \in linkings : q.applied => q.pair \in backed
    /\ \A k \in drawn \ (backed \cup cached.links) : k \in Pairs /\ Explained(k)
    /\ \A k \in Pairs : message[k] = "shown" => error

CanvasInv == Shapes /\ Moves /\ Links

LEMMA MovedIsABoard ==
  ASSUME NEW b \in Boards, NEW p \in Places
  PROVE  [b EXCEPT !.place = p] \in Boards /\ [b EXCEPT !.place = p].links = b.links
BY DEF Boards

LEMMA LinkedIsABoard ==
  ASSUME NEW b \in Boards, NEW l \in SUBSET Pairs
  PROVE  [b EXCEPT !.links = l] \in Boards /\ [b EXCEPT !.links = l].links = l
BY DEF Boards

LEMMA LinksArePairs ==
  ASSUME NEW b \in Boards
  PROVE  b.links \in SUBSET Pairs
BY DEF Boards

LEMMA CanvasInitInv == BoardInit => CanvasInv
<1> SUFFICES ASSUME BoardInit PROVE CanvasInv
  OBVIOUS
<1>1. Board \in Boards /\ Board.links = {} /\ NoBoardRead.got = Board
  BY BoardPageAssumption DEF Board, Boards, NoBoardRead
<1>2. Shapes
  BY <1>1 DEF BoardInit, Shapes
<1>3. Moves /\ Links
  BY <1>1 DEF BoardInit, Moves, Links
<1> QED BY <1>2, <1>3 DEF CanvasInv

\* New data redraws the links from the cached board and leaves a held card where it is.
LEMMA ReconcileRedraws ==
  ASSUME NEW data, Reconcile(data)
  PROVE  /\ cached' = data
         /\ pendingLayout' # 0 => place' = place
         /\ drawn' = data.links \/ (drawn' = drawn /\ data = cached)
BY DEF Reconcile

\* A step that changes no save, no link request and no fact about the server keeps the rest.
LEMMA RedrawKeeps ==
  ASSUME CanvasInv, cached' \in Boards, boardRead'.got \in Boards,
         \A u \in unlinking' : u.pair \in Pairs,
         pendingLayout # 0 => place' = place,
         drawn' = cached'.links \/ (drawn' = drawn /\ cached' = cached),
         UNCHANGED <<stored, drops, pendingLayout, saves, creationVars>>
  PROVE  CanvasInv'
<1>1. UNCHANGED <<linkings, drawnLinks, backed, error, message>>
  BY DEF creationVars
<1>2. Shapes'
  BY <1>1 DEF CanvasInv, Shapes
<1>3. Moves'
  BY <1>1 DEF CanvasInv, Moves
<1>4. Links'
  BY <1>1 DEF CanvasInv, Links, Explained, Creating
<1> QED BY <1>2, <1>3, <1>4 DEF CanvasInv

\* The end of a save releases no card but its own, and redraws at most what is cached.
LEMMA SavedKeeps ==
  ASSUME CanvasInv, NEW s \in saves, LayoutSaved(s) \/ LayoutFails(s)
  PROVE  CanvasInv'
<1> USE DEF CanvasInv
<1>1. /\ saves' = saves \ {s}
      /\ pendingLayout' = IF pendingLayout = s.id THEN 0 ELSE pendingLayout
      /\ UNCHANGED <<stored, boardRead, drops, linkings, unlinking, drawnLinks, backed, message>>
      /\ error => error'
  BY DEF LayoutSaved, LayoutFails, Release, creationVars
<1>2. /\ pendingLayout' # 0 => place' = place
      /\ cached' \in Boards /\ cached'.links = cached.links
      /\ drawn' = cached'.links \/ drawn' = drawn
  <2>1. CASE LayoutFails(s)
    BY <2>1 DEF LayoutFails, Shapes
  <2>2. CASE LayoutSaved(s)
    <3>1. s.to \in Places
      BY DEF Shapes
    <3>2. /\ [cached EXCEPT !.place = s.to] \in Boards
          /\ [cached EXCEPT !.place = s.to].links = cached.links
      BY <3>1, MovedIsABoard DEF Shapes
    <3> QED BY <2>2, <3>2, ReconcileRedraws DEF LayoutSaved
  <2> QED BY <2>1, <2>2
<1>3. Shapes'
  BY <1>1, <1>2 DEF Shapes
<1>4. Moves'
  BY <1>1, <1>2 DEF Shapes, Moves
<1>5. Links'
  BY <1>1, <1>2 DEF Links, Explained, Creating
<1> QED BY <1>3, <1>4, <1>5

LEMMA CanvasStep ==
  ASSUME CanvasInv, [BoardNext]_boardVars
  PROVE  CanvasInv'
<1> USE DEF CanvasInv
<1>a. Board \in Boards /\ NoBoardRead.got = Board /\ NewBoardRead.got = Board
  BY BoardPageAssumption DEF Board, Boards, NoBoardRead, NewBoardRead
<1>b. \A u \in unlinking : u.pair \in Pairs
  BY DEF Shapes
<1>1. CASE Rebuild
  BY <1>1, <1>b, RedrawKeeps DEF Rebuild, Shapes
<1>2. CASE RefreshBoard
  BY <1>2, <1>a, <1>b, RedrawKeeps DEF RefreshBoard, Shapes
<1>3. CASE ServeBoard
  <2>1. boardRead'.got = stored
    BY <1>3 DEF ServeBoard
  <2> QED BY <1>3, <1>b, <2>1, RedrawKeeps DEF ServeBoard, Shapes
<1>4. CASE BoardArrives
  BY <1>4, <1>a, <1>b, RedrawKeeps, ReconcileRedraws DEF BoardArrives, Shapes
<1>5. CASE BoardFails
  BY <1>5, <1>a, <1>b, RedrawKeeps DEF BoardFails, Shapes
<1>6. CASE Other
  <2>1. /\ backed' = backed \cup stored'.links
        /\ UNCHANGED <<cached, boardRead, place, drawn, saves, pendingLayout, drops, linkings,
                       unlinking, drawnLinks, error, message>>
    BY <1>6 DEF Other
  <2>2. stored.links \in SUBSET Pairs
    BY LinksArePairs DEF Shapes
  <2>3. stored' \in Boards
    <3>1. ASSUME NEW p \in Places, stored' = [stored EXCEPT !.place = p] PROVE stored' \in Boards
      BY <3>1, MovedIsABoard DEF Shapes
    <3>2. ASSUME NEW k \in Pairs, stored' = [stored EXCEPT !.links = @ \cup {k}]
          PROVE  stored' \in Boards
      BY <2>2, <3>2, LinkedIsABoard DEF Shapes
    <3>3. ASSUME NEW k, stored' = [stored EXCEPT !.links = @ \ {k}] PROVE stored' \in Boards
      BY <2>2, <3>3, LinkedIsABoard DEF Shapes
    <3> QED BY <1>6, <3>1, <3>2, <3>3 DEF Other
  <2>4. Shapes' /\ Moves'
    BY <2>1, <2>3 DEF Shapes, Moves
  <2>5. Links'
    BY <2>1 DEF Links, Explained, Creating
  <2> QED BY <2>4, <2>5
<1>7. ASSUME NEW p \in Places, Drop(p) PROVE CanvasInv'
  <2> DEFINE move == [id |-> drops + 1, to |-> p, applied |-> FALSE]
  <2>1. /\ place' = p /\ drops' = drops + 1 /\ pendingLayout' = drops + 1
        /\ saves' = saves \cup {move}
        /\ UNCHANGED <<stored, cached, boardRead, drawn, unlinking, linkings, drawnLinks, backed,
                       error, message>>
    BY <1>7 DEF Drop, creationVars
  <2>2. /\ move.id = drops + 1 /\ move.to = p
        /\ move \in [id : Nat, to : Places, applied : BOOLEAN]
    BY DEF Shapes
  <2> HIDE DEF move
  <2>3. Shapes'
    BY <2>1, <2>2 DEF Shapes
  <2>4. Moves'
    BY <2>1, <2>2 DEF Shapes, Moves
  <2>5. Links'
    BY <2>1 DEF Links, Explained, Creating
  <2> QED BY <2>3, <2>4, <2>5
<1>8. ASSUME NEW s \in saves, SaveLayout(s) PROVE CanvasInv'
  <2> DEFINE done == [s EXCEPT !.applied = TRUE]
  <2>1. /\ stored' = [stored EXCEPT !.place = s.to] /\ saves' = (saves \ {s}) \cup {done}
        /\ UNCHANGED <<cached, boardRead, place, drawn, pendingLayout, drops, unlinking, linkings,
                       drawnLinks, backed, error, message>>
    BY <1>8 DEF SaveLayout, creationVars
  <2>2. /\ done.id = s.id /\ done.to = s.to
        /\ done \in [id : Nat, to : Places, applied : BOOLEAN] /\ s.to \in Places
    BY DEF Shapes
  <2> HIDE DEF done
  <2>3. stored' \in Boards /\ stored'.links = stored.links
    BY <2>1, <2>2, MovedIsABoard DEF Shapes
  <2>4. Shapes' /\ Links'
    BY <2>1, <2>2, <2>3 DEF Shapes, Links, Explained, Creating
  <2>5. Moves'
    BY <2>1, <2>2 DEF Moves
  <2> QED BY <2>4, <2>5
<1>9. ASSUME NEW s \in saves, LayoutSaved(s) \/ LayoutFails(s) PROVE CanvasInv'
  BY <1>9, SavedKeeps
<1>10. ASSUME NEW k \in Pairs, Connect(k) PROVE CanvasInv'
  <2> DEFINE creation == [id |-> drawnLinks + 1, pair |-> k, applied |-> FALSE]
  <2>1. /\ drawn' = drawn \cup {k} /\ drawnLinks' = drawnLinks + 1
        /\ linkings' = linkings \cup {creation}
        /\ backed' = IF k \in stored.links \/ Creating(k) THEN backed ELSE backed \ {k}
        /\ message' = [message EXCEPT ![k] = "none"]
        /\ UNCHANGED <<stored, cached, boardRead, place, saves, pendingLayout, drops, unlinking,
                       error>>
    BY <1>10 DEF Connect
  <2>2. creation.applied = FALSE /\ creation.pair = k /\ creation \in Linkings
    BY DEF Shapes, Linkings
  <2> HIDE DEF creation
  <2>3. Shapes' /\ Moves'
    BY <2>1, <2>2 DEF Shapes, Moves
  <2>4. stored'.links \subseteq backed' /\ \A q \in linkings' : q.applied => q.pair \in backed'
    BY <2>1, <2>2 DEF Links, Creating
  <2>5. \A j \in Pairs \ {k} : message'[j] = message[j]
    BY <2>1 DEF Shapes
  <2>6. \A j \in drawn' \ (backed' \cup cached'.links) : j \in Pairs /\ Explained(j)'
    BY <2>1, <2>2, <2>5 DEF Links, Explained, Creating
  <2>7. \A j \in Pairs : message'[j] = "shown" => error'
    BY <2>1, <2>5 DEF Shapes, Links
  <2> QED BY <2>3, <2>4, <2>6, <2>7 DEF Links
<1>11. ASSUME NEW q \in linkings, CreateLink(q) PROVE CanvasInv'
  <2> DEFINE made == [q EXCEPT !.applied = TRUE]
  <2>1. /\ stored' = [stored EXCEPT !.links = @ \cup {q.pair}] /\ backed' = backed \cup {q.pair}
        /\ linkings' = (linkings \ {q}) \cup {made}
        /\ UNCHANGED <<cached, boardRead, place, drawn, saves, pendingLayout, drops, unlinking,
                       drawnLinks, error, message>>
    BY <1>11 DEF CreateLink
  <2>2. made \in Linkings /\ made.pair = q.pair /\ q.pair \in Pairs
    BY DEF Shapes, Linkings
  <2>3. stored' \in Boards /\ stored'.links = stored.links \cup {q.pair}
    BY <2>1, <2>2, LinkedIsABoard, LinksArePairs DEF Shapes
  <2> HIDE DEF made
  <2>4. Shapes' /\ Moves'
    BY <2>1, <2>2, <2>3 DEF Shapes, Moves
  <2>5. Links'
    BY <2>1, <2>2, <2>3 DEF Links, Explained, Creating
  <2> QED BY <2>4, <2>5
<1>12. ASSUME NEW q \in linkings, Linked(q) PROVE CanvasInv'
  <2>1. /\ linkings' = linkings \ {q} /\ boardRead' = NewBoardRead /\ q.pair \in backed
        /\ UNCHANGED <<stored, cached, place, drawn, saves, pendingLayout, drops, unlinking,
                       drawnLinks, backed>>
    BY <1>12 DEF Linked, Links
  <2>2. /\ message' \in [Pairs -> {"none", "shown", "replaced"}]
        /\ \A k \in Pairs : message[k] \in {"shown", "replaced"} => message'[k] \in {"shown", "replaced"}
        /\ \A k \in Pairs : message'[k] = "shown" => error'
    <3>1. CASE message' = [k \in Pairs |-> IF message[k] = "shown" THEN "replaced" ELSE message[k]]
      BY <3>1 DEF Shapes
    <3>2. CASE UNCHANGED <<error, message>>
      BY <3>2 DEF Shapes, Links
    <3> QED BY <1>12, <3>1, <3>2 DEF Linked
  <2>3. Shapes' /\ Moves'
    BY <1>a, <2>1, <2>2 DEF Shapes, Moves
  <2>4. Links'
    BY <2>1, <2>2 DEF Links, Explained, Creating
  <2> QED BY <2>3, <2>4
<1>13. ASSUME NEW q \in linkings, LinkFails(q) PROVE CanvasInv'
  <2>1. /\ linkings' = linkings \ {q} /\ boardRead' = NewBoardRead /\ error' = TRUE
        /\ message' = [message EXCEPT ![q.pair] = "shown"]
        /\ UNCHANGED <<stored, cached, place, drawn, saves, pendingLayout, drops, unlinking,
                       drawnLinks, backed>>
    BY <1>13 DEF LinkFails
  <2>2. q.pair \in Pairs
    BY DEF Shapes, Linkings
  <2>3. /\ message' \in [Pairs -> {"none", "shown", "replaced"}] /\ message'[q.pair] = "shown"
        /\ \A k \in Pairs \ {q.pair} : message'[k] = message[k]
    BY <2>1, <2>2 DEF Shapes
  <2>4. Shapes' /\ Moves'
    BY <1>a, <2>1, <2>3 DEF Shapes, Moves
  <2>5. Links'
    BY <2>1, <2>3 DEF Links, Explained, Creating
  <2> QED BY <2>4, <2>5
<1>14. ASSUME NEW k \in Pairs, RemoveLink(k) PROVE CanvasInv'
  <2>1. [cached EXCEPT !.links = @ \ {k}] \in Boards
    BY LinkedIsABoard, LinksArePairs DEF Shapes
  <2>2. /\ Reconcile([cached EXCEPT !.links = @ \ {k}])
        /\ unlinking' = {[pair |-> k, applied |-> FALSE]}
        /\ UNCHANGED <<stored, boardRead, saves, pendingLayout, drops, creationVars>>
    BY <1>14 DEF RemoveLink
  <2>3. \A u \in unlinking' : u.pair \in Pairs
    BY <2>2
  <2> QED BY <2>1, <2>2, <2>3, ReconcileRedraws, RedrawKeeps DEF Shapes
<1>15. ASSUME NEW u \in unlinking, DeleteLink(u) PROVE CanvasInv'
  <2>1. /\ stored' = [stored EXCEPT !.links = @ \ {u.pair}]
        /\ unlinking' = {[u EXCEPT !.applied = TRUE]}
        /\ UNCHANGED <<cached, boardRead, place, drawn, saves, pendingLayout, drops, linkings,
                       drawnLinks, backed, error, message>>
    BY <1>15 DEF DeleteLink, creationVars
  <2>2. stored' \in Boards /\ stored'.links \subseteq stored.links
    <3>1. stored.links \ {u.pair} \in SUBSET Pairs
      BY LinksArePairs DEF Shapes
    <3> QED BY <2>1, <3>1, LinkedIsABoard DEF Shapes
  <2>3. unlinking' = {} \/ \A v \in unlinking' : v.pair \in Pairs
    BY <1>b, <2>1
  <2>4. Shapes' /\ Moves'
    BY <2>1, <2>2, <2>3 DEF Shapes, Moves
  <2>5. Links'
    BY <2>1, <2>2 DEF Links, Explained, Creating
  <2> QED BY <2>4, <2>5
<1>16. CASE RemovalEnds
  BY <1>16, <1>a, RedrawKeeps DEF RemovalEnds, Shapes
<1>17. CASE UNCHANGED boardVars
  BY <1>17, <1>b, RedrawKeeps DEF boardVars, creationVars, Shapes
<1> QED
  BY <1>1, <1>2, <1>3, <1>4, <1>5, <1>6, <1>7, <1>8, <1>9, <1>10, <1>11, <1>12, <1>13, <1>14,
     <1>15, <1>16, <1>17 DEF BoardNext

\* An unconfirmed move is never undone by a read or an earlier save, for any number of moves.
THEOREM MovesAlwaysStay == BoardSpec => []UnconfirmedStaysPut
<1>1. CanvasInv => UnconfirmedStaysPut
  BY DEF CanvasInv, Moves, UnconfirmedStaysPut
<1> QED BY <1>1, CanvasInitInv, CanvasStep, PTL DEF BoardSpec

\* No link of any pair stays on the canvas that the server never had, without a request or the
\* error of its creation, which only another link's creation takes away.
THEOREM LinksAlwaysExplained == BoardSpec => []DrawnLinksExplained
<1>1. CanvasInv => DrawnLinksExplained
  BY DEF CanvasInv, Links, Explained, DrawnLinksExplained
<1> QED BY <1>1, CanvasInitInv, CanvasStep, PTL DEF BoardSpec

-----------------------------------------------------------------------------
(* The sheet of a character.                                                *)

\* A save as it waits in the queue, of a sheet as its form has let it through.
Save == [value : Int, condition : BOOLEAN, applied : BOOLEAN]
Shown(save) == save.value = ReadField(key, entry) /\ save.condition = condition
Sendable == FormValid(key, entry) /\ Named

\* Only the first save of the queue may have reached the server, which then has it; none
\* of them is refused for its data; the last one is the sheet, unless a change waits or
\* the sheet cannot be saved; and a row of the page's last word is the sheet too.
SheetShape ==
    /\ key \in AllKeys /\ entry \in Entries(key) \cup {FirstEntry(key)}
    /\ condition \in BOOLEAN /\ dirty \in BOOLEAN
    /\ queue \in Seq(Save)
QueueAccepted == \A i \in 1 .. Len(queue) : ServerAccepts(key, queue[i].value)
QueueInOrder ==
    /\ \A i \in 2 .. Len(queue) : ~queue[i].applied
    /\ queue # <<>> /\ queue[1].applied =>
           character \in {Row(queue[1].value, queue[1].condition), DeletedRow}
LastIsShown == queue # <<>> /\ ~dirty /\ Sendable => Shown(queue[Len(queue)])
RowIsShown ==
    status = "saved" /\ queue = <<>> /\ ~dirty /\ Sendable =>
        character \in {Row(ReadField(key, entry), condition), DeletedRow}

SheetInv ==
    SheetShape /\ QueueAccepted /\ QueueInOrder /\ LastIsShown /\ RowIsShown /\ ~refused

\* The two tables of the rules agree, and what their fields are like.
LEMMA FieldsAgree ==
  ASSUME NEW k \in AllKeys
  PROVE  /\ RuleFields[k] = FormFields[k]
         /\ FormFields[k].lo \in Nat /\ FormFields[k].hi \in Nat
         /\ FormFields[k].lo <= FormFields[k].hi /\ 1 <= FormFields[k].hi
         /\ FormFields[k].kind \in {"number", "text", "select"}
         /\ FormFields[k].required \in BOOLEAN
         /\ FormFields[k].kind = "text" => FormFields[k].lo = 0
         /\ FormFields[k].kind = "text" /\ FormFields[k].required => k = "name"
         /\ FormFields[k].kind = "select" => FormFields[k].required
<1> DEFINE Both(f) == FormFields[k] = f /\ RuleFields[k] = f
           Single == k \in {"age", "type", "luckPoints", "iconicItem", "favoriteSong", "name",
                            "description"}
           NotSingle == /\ k # "age" /\ k # "type" /\ k # "luckPoints" /\ k # "iconicItem"
                        /\ k # "favoriteSong" /\ k # "name" /\ k # "description"
<1>1. Single \/ k \in Attributes \/ k \in Skills \/ k \in LongTexts \/ k \in Notes
  BY DEF AllKeys
<1>2. Single => k \notin Attributes /\ k \notin Skills /\ k \notin LongTexts /\ k \notin Notes
  BY DEF Attributes, Skills, LongTexts, Notes
<1>3. k \in Attributes => NotSingle /\ k \notin Skills /\ k \notin LongTexts /\ k \notin Notes
  BY DEF Attributes, Skills, LongTexts, Notes
<1>4. k \in Skills => NotSingle /\ k \notin LongTexts /\ k \notin Notes
  BY DEF Skills, LongTexts, Notes
<1>5. k \in LongTexts => NotSingle /\ k \notin Notes
  BY DEF LongTexts, Notes
<1>6. k \in Notes => NotSingle
  BY DEF Notes
<1>7. CASE k = "age"
  <2>1. k \notin Attributes /\ k \notin Skills /\ k \notin LongTexts /\ k \notin Notes
    BY <1>7, <1>2
  <2>2. Both(Number(10, 19, TRUE))
    BY <1>7, <2>1 DEF FormFields, RuleFields
  <2> QED BY <2>2, <1>7 DEF Number
<1>8. CASE k = "type"
  <2>1. k \notin Attributes /\ k \notin Skills /\ k \notin LongTexts /\ k \notin Notes
    BY <1>8, <1>2
  <2>2. Both(Select(7))
    BY <1>8, <2>1 DEF FormFields, RuleFields
  <2> QED BY <2>2, <1>8 DEF Select
<1>9. CASE k \in Attributes
  <2>1. Both(Number(1, 5, FALSE))
    BY <1>9, <1>3 DEF FormFields, RuleFields
  <2> QED BY <2>1, <1>9 DEF Number
<1>10. CASE k \in Skills
  <2>1. Both(Number(0, 5, FALSE))
    BY <1>10, <1>3, <1>4 DEF FormFields, RuleFields
  <2> QED BY <2>1, <1>10 DEF Number
<1>11. CASE k = "luckPoints"
  <2>1. k \notin Attributes /\ k \notin Skills /\ k \notin LongTexts /\ k \notin Notes
    BY <1>11, <1>2
  <2>2. Both(Number(0, 6, FALSE))
    BY <1>11, <2>1 DEF FormFields, RuleFields
  <2> QED BY <2>2, <1>11 DEF Number
<1>12. CASE k \in LongTexts
  <2>1. Both(Text(500, FALSE))
    BY <1>12, <1>3, <1>4, <1>5 DEF FormFields, RuleFields
  <2> QED BY <2>1, <1>12 DEF Text
<1>13. CASE k = "iconicItem"
  <2>1. k \notin Attributes /\ k \notin Skills /\ k \notin LongTexts /\ k \notin Notes
    BY <1>13, <1>2
  <2>2. Both(Text(100, FALSE))
    BY <1>13, <2>1 DEF FormFields, RuleFields
  <2> QED BY <2>2, <1>13 DEF Text
<1>14. CASE k = "favoriteSong"
  <2>1. k \notin Attributes /\ k \notin Skills /\ k \notin LongTexts /\ k \notin Notes
    BY <1>14, <1>2
  <2>2. Both(Text(200, FALSE))
    BY <1>14, <2>1 DEF FormFields, RuleFields
  <2> QED BY <2>2, <1>14 DEF Text
<1>15. CASE k \in Notes
  <2>1. Both(Text(2000, FALSE))
    BY <1>15, <1>3, <1>4, <1>5, <1>6 DEF FormFields, RuleFields
  <2> QED BY <2>1, <1>15 DEF Text
<1>16. CASE k = "name"
  <2>1. k \notin Attributes /\ k \notin Skills /\ k \notin LongTexts /\ k \notin Notes
    BY <1>16, <1>2
  <2>2. Both(Text(100, TRUE))
    BY <1>16, <2>1 DEF FormFields, RuleFields
  <2> QED BY <2>2, <1>16 DEF Text
<1>17. CASE k = "description"
  <2>1. k \notin Attributes /\ k \notin Skills /\ k \notin LongTexts /\ k \notin Notes
    BY <1>17, <1>2
  <2>2. Both(Text(2000, FALSE))
    BY <1>17, <2>1 DEF FormFields, RuleFields
  <2> QED BY <2>2, <1>17 DEF Text
<1> QED BY <1>1, <1>7, <1>8, <1>9, <1>10, <1>11, <1>12, <1>13, <1>14, <1>15, <1>16, <1>17

\* The server takes whatever the form lets through.
LEMMA FormIsAccepted ==
  ASSUME NEW k \in AllKeys, NEW e \in Entries(k) \cup {FirstEntry(k)}, FormValid(k, e),
         ~(k = "name" /\ ReadField(k, e) = NoEntry)
  PROVE  ReadField(k, e) \in Int /\ ServerAccepts(k, ReadField(k, e))
<1> DEFINE f == FormFields[k]
<1> USE FieldsAgree
<1>1. CASE f.kind = "number"
  BY <1>1 DEF Entries, FirstEntry, FormValid, ReadField, ServerAccepts, NoEntry, Spaces
<1>2. CASE f.kind = "text"
  <2>1. e \in {NoEntry, 0, f.hi, 1, Spaces}
    BY <1>2 DEF Entries, FirstEntry
  <2>2. f.required => k = "name"
    BY <1>2
  <2> QED BY <1>2, <2>1, <2>2 DEF ReadField, ServerAccepts, NoEntry, Spaces
<1>3. CASE f.kind = "select"
  BY <1>3 DEF Entries, FirstEntry, FormValid, ReadField, ServerAccepts, NoEntry, Spaces
<1> QED BY <1>1, <1>2, <1>3

LEMMA SheetInitInv == SheetInit => SheetInv
<1> SUFFICES ASSUME SheetInit PROVE SheetInv
  OBVIOUS
<1>1. SheetShape
  <2>1. key \in AllKeys /\ <<>> \in Seq(Save)
    BY SheetKeysAssumption DEF SheetInit
  <2> QED BY <2>1 DEF SheetInit, SheetShape
<1>2. QueueAccepted /\ QueueInOrder /\ LastIsShown /\ RowIsShown /\ ~refused
  BY DEF SheetInit, QueueAccepted, QueueInOrder, LastIsShown, RowIsShown
<1> QED BY <1>1, <1>2 DEF SheetInv

\* Saving: the sheet joins the queue as its last save, if it may.
LEMMA SavingKeeps ==
  ASSUME SheetInv, NEW cond \in BOOLEAN, SaveSheet(cond), condition' = cond,
         UNCHANGED <<key, entry, character, refused>>
  PROVE  SheetInv'
<1> DEFINE s == [value |-> ReadField(key, entry), condition |-> cond, applied |-> FALSE]
<1> USE DEF SheetInv
<1>1. Sendable' <=> Sendable
  BY DEF Sendable, Named
<1>2. CASE ~Sendable
  <2>1. UNCHANGED <<queue, status>> /\ dirty' \in BOOLEAN
    BY <1>2 DEF SaveSheet, Sendable, SheetShape
  <2>2. SheetShape' /\ QueueAccepted' /\ QueueInOrder'
    BY <2>1 DEF SheetShape, QueueAccepted, QueueInOrder
  <2> QED BY <1>1, <1>2, <2>2 DEF LastIsShown, RowIsShown
<1>3. CASE Sendable
  <2>1. dirty' = FALSE /\ status' = "saving" /\ queue' = Append(queue, s)
    BY <1>3 DEF SaveSheet, Sendable
  <2>2. ReadField(key, entry) \in Int /\ ServerAccepts(key, ReadField(key, entry))
    BY <1>3, FormIsAccepted DEF Sendable, Named, SheetShape
  <2>3. s \in Save
    BY <2>2 DEF Save
  <2>4. /\ queue' \in Seq(Save) /\ Len(queue') = Len(queue) + 1
        /\ \A i \in 1 .. Len(queue) : queue'[i] = queue[i]
        /\ queue'[Len(queue')] = s
    BY <2>1, <2>3 DEF SheetShape
  <2>5. SheetShape'
    BY <2>1, <2>4 DEF SheetShape
  <2>6. QueueAccepted'
    BY <2>2, <2>4 DEF QueueAccepted, SheetShape
  <2>7. QueueInOrder'
    <3>1. \A i \in 2 .. Len(queue') : ~queue'[i].applied
      BY <2>4 DEF QueueInOrder, SheetShape
    <3>2. queue'[1].applied => queue # <<>> /\ queue'[1] = queue[1]
      BY <2>4 DEF SheetShape
    <3> QED BY <3>1, <3>2 DEF QueueInOrder
  <2>8. LastIsShown' /\ RowIsShown'
    BY <2>1, <2>4 DEF LastIsShown, RowIsShown, Shown
  <2> QED BY <2>5, <2>6, <2>7, <2>8
<1> QED BY <1>2, <1>3

\* The first save of the queue ends: what is left is the rest of the queue.
LEMMA DequeueKeeps ==
  ASSUME SheetInv, queue # <<>>, queue' = Tail(queue),
         UNCHANGED <<key, entry, condition, dirty, character>>
  PROVE  /\ SheetShape' /\ QueueAccepted' /\ QueueInOrder' /\ LastIsShown'
         /\ queue' = <<>> => Len(queue) = 1
<1> USE DEF SheetInv
<1>1. /\ queue' \in Seq(Save) /\ Len(queue') = Len(queue) - 1
      /\ \A i \in 1 .. Len(queue') : queue'[i] = queue[i + 1]
  BY DEF SheetShape
<1>2. SheetShape'
  BY <1>1 DEF SheetShape
<1>3. QueueAccepted'
  BY <1>1 DEF QueueAccepted, SheetShape
<1>4. QueueInOrder'
  BY <1>1 DEF QueueInOrder, SheetShape
<1>5. LastIsShown'
  <2>1. queue' # <<>> => queue'[Len(queue')] = queue[Len(queue)]
    BY <1>1 DEF SheetShape
  <2> QED BY <2>1 DEF LastIsShown, Shown, Sendable, Named
<1>6. queue' = <<>> => Len(queue) = 1
  <2>1. queue' = <<>> => Len(queue') = 0
    BY <1>1, EmptySeq
  <2>2. Len(queue) \in Nat
    BY DEF SheetShape
  <2> QED BY <1>1, <2>1, <2>2
<1> QED BY <1>2, <1>3, <1>4, <1>5, <1>6

LEMMA SheetStep == SheetInv /\ [SheetNext]_sheetVars => SheetInv'
<1> SUFFICES ASSUME SheetInv, [SheetNext]_sheetVars PROVE SheetInv'
  OBVIOUS
<1> USE DEF SheetInv
<1>1. ASSUME NEW e \in Entries(key), Edit(e) PROVE SheetInv'
  BY <1>1 DEF Edit, SheetShape, QueueAccepted, QueueInOrder, LastIsShown, RowIsShown
<1>2. CASE SheetDelayEnds
  BY <1>2, SavingKeeps DEF SheetDelayEnds, SheetShape
<1>3. CASE Blur
  BY <1>3, SavingKeeps DEF Blur, SheetShape
<1>4. CASE Toggle
  <2>1. condition' \in BOOLEAN
    BY <1>4 DEF Toggle, SheetShape
  <2> QED BY <1>4, <2>1, SavingKeeps DEF Toggle
<1>5. CASE CloseSheet
  BY <1>5 DEF CloseSheet, SheetShape, QueueAccepted, QueueInOrder, LastIsShown, RowIsShown, Shown,
     Sendable, Named
<1>6. CASE RemoveCharacter
  BY <1>6 DEF RemoveCharacter, SheetShape, QueueAccepted, QueueInOrder, LastIsShown, RowIsShown,
     Shown, Sendable, Named
<1>7. CASE UpdateCharacter
  <2> DEFINE h == queue[1]
  <2>1. /\ queue # <<>> /\ h \in Save /\ character' = Row(h.value, h.condition)
        /\ queue' = [queue EXCEPT ![1].applied = TRUE]
        /\ UNCHANGED <<key, entry, condition, dirty, status, refused>>
    BY <1>7 DEF UpdateCharacter, SheetShape
  <2>2. /\ queue' \in Seq(Save) /\ Len(queue') = Len(queue) /\ queue' # <<>>
        /\ queue'[1] = [h EXCEPT !.applied = TRUE]
        /\ \A i \in 2 .. Len(queue) : queue'[i] = queue[i]
    <3>1. [h EXCEPT !.applied = TRUE] \in Save
      BY <2>1 DEF Save
    <3>2. 1 \in 1 .. Len(queue) /\ queue' = [queue EXCEPT ![1] = [h EXCEPT !.applied = TRUE]]
      BY <2>1 DEF SheetShape
    <3> HIDE DEF h
    <3> QED BY <3>1, <3>2 DEF SheetShape
  <2>3. queue'[1].value = h.value /\ queue'[1].condition = h.condition
    BY <2>1, <2>2 DEF Save
  <2>4. \A i \in 1 .. Len(queue) :
           queue'[i].value = queue[i].value /\ queue'[i].condition = queue[i].condition
    <3> TAKE i \in 1 .. Len(queue)
    <3>1. i = 1 \/ i \in 2 .. Len(queue)
      BY DEF SheetShape
    <3> QED BY <2>2, <2>3, <3>1
  <2>5. SheetShape'
    BY <2>1, <2>2 DEF SheetShape
  <2>6. QueueAccepted' /\ QueueInOrder'
    BY <2>1, <2>2, <2>3, <2>4 DEF QueueAccepted, QueueInOrder
  <2>7. LastIsShown'
    <3>1. Len(queue) \in 1 .. Len(queue)
      BY <2>1 DEF SheetShape
    <3> QED BY <2>1, <2>2, <2>4, <3>1 DEF LastIsShown, Shown, Sendable, Named
  <2> QED BY <2>1, <2>2, <2>5, <2>6, <2>7 DEF RowIsShown
<1>8. CASE SheetSaved
  <2>1. /\ queue # <<>> /\ queue[1].applied /\ queue' = Tail(queue) /\ status' = "saved"
        /\ UNCHANGED <<key, entry, condition, dirty, character, refused>>
    BY <1>8 DEF SheetSaved, SheetShape
  <2>2. RowIsShown'
    <3>1. queue' = <<>> => Len(queue) = 1
      BY <2>1, DequeueKeeps
    <3> QED BY <2>1, <3>1 DEF RowIsShown, QueueInOrder, LastIsShown, Shown, Sendable, Named
  <2> QED BY <2>1, <2>2, DequeueKeeps
<1>9. CASE SaveFails
  <2>1. /\ queue # <<>> /\ queue' = Tail(queue) /\ status' = "error"
        /\ UNCHANGED <<key, entry, condition, dirty, character>>
    BY <1>9 DEF SaveFails
  <2>2. ServerAccepts(key, Head(queue).value)
    BY <2>1 DEF QueueAccepted, SheetShape
  <2>3. ~refused'
    BY <1>9, <2>2 DEF SaveFails, Acceptable
  <2> QED BY <2>1, <2>3, DequeueKeeps DEF RowIsShown
<1>10. CASE UNCHANGED sheetVars
  BY <1>10 DEF sheetVars, SheetShape, QueueAccepted, QueueInOrder, LastIsShown, RowIsShown, Shown,
     Sendable, Named
<1> QED
  BY <1>1, <1>2, <1>3, <1>4, <1>5, <1>6, <1>7, <1>8, <1>9, <1>10 DEF SheetNext

\* When the page says "saved" the row is what the sheet shows, and the server refuses
\* nothing the form lets through, for any field, any entries, and any number of saves.
THEOREM SheetAlwaysKept == SheetSpec => []SheetIsKept
<1>1. SheetInv => SheetIsKept
  BY DEF SheetInv, RowIsShown, SheetIsKept, Sendable
<1> QED BY <1>1, SheetInitInv, SheetStep, PTL DEF SheetSpec

=============================================================================
