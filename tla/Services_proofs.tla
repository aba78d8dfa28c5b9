---------------------------- MODULE Services_proofs ----------------------------
(***************************************************************************)
(* Proofs about the services that MCServices runs side by side, one part   *)
(* for each: pages, attachments, the documentation index, the model        *)
(* picker, the effort policy, accounts and MCP sessions (the settings have *)
(* a module of their own).  Each part has the inductive invariant of its   *)
(* specification, the lemmas about its operators and the theorems, for any *)
(* value of the constants; the last part joins them.                       *)
(***************************************************************************)
EXTENDS MCServices, Settings_proofs

-----------------------------------------------------------------------------
(* Static pages *)

\* A marker without a page, or beside a delete that is past its unpublish, is a
\* stray one: a publish set it that a delete overlapped, or a delete missed it.
StrayMarker == link /\ (dir = "none" \/ Removing # {}) => stray

\* A publish that is under way has seen the page, and a delete since then crossed it.
Publishing ==
    \A c \in Calls : At(c, "publish", "marker") \/ At(c, "publish", "link") =>
                        dir # "none" \/ c \in crossed

PagesIInv == PagesTypeOK /\ StrayMarker /\ Publishing /\ PublishedOnRequest

LEMMA PagesInitIInv == PagesInit => PagesIInv
BY DEF PagesInit, PagesIInv, PagesTypeOK, StrayMarker, Publishing, PublishedOnRequest, IsPublished, PageSteps, At

\* What a call's step does to the record of calls.
LEMMA PageCallGoes ==
    ASSUME PagesTypeOK, NEW c \in Calls, NEW there \in PageSteps, Goes(c, there)
    PROVE  /\ call' \in [Calls -> [kind : PageKinds, pc : PageSteps]]
           /\ call'[c].kind = call[c].kind /\ call'[c].pc = there
           /\ \A d \in Calls : d # c => call'[d] = call[d]
BY DEF PagesTypeOK, Goes

\* A step that leaves page, marker and ghosts alone, and starts neither a removal
\* nor a publish.
LEMMA PagePasses ==
    ASSUME PagesIInv, NEW c \in Calls, NEW there \in PageSteps, Goes(c, there), UNCHANGED <<Pages, Ghosts>>,
           there = "remove" => ~link \/ stray,
           call[c].kind = "publish" /\ there \in {"marker", "link"} => dir # "none" \/ c \in crossed
    PROVE  PagesIInv'
BY PageCallGoes DEF PagesIInv, PagesTypeOK, StrayMarker, Publishing, PublishedOnRequest, IsPublished, Removing, At,
              Pages, Ghosts

\* A step that works on the files of the page, or makes it.
LEMMA PageWorks ==
    ASSUME PagesIInv, NEW c \in Calls, NEW there \in PageSteps \ {"remove", "marker", "link"}, Goes(c, there),
           dir' \in {"none", "partial", "whole"}, text' \in {"none", "torn", "whole"},
           dir' = "none" => dir = "none" /\ text' = "none",
           wanted' \in BOOLEAN, wanted' = wanted \/ dir = "none",
           UNCHANGED <<link, crossed, stray>>
    PROVE  PagesIInv'
<1>1. /\ call' \in [Calls -> [kind : PageKinds, pc : PageSteps]]
      /\ \A d \in Calls : d # c => call'[d] = call[d]
      /\ call'[c].pc \notin {"remove", "marker", "link"}
  BY PageCallGoes DEF PagesIInv
<1>2. PagesTypeOK'
  BY <1>1 DEF PagesIInv, PagesTypeOK
<1>3. Removing' \subseteq Removing
  BY <1>1 DEF Removing, At
<1>4. StrayMarker'
  BY <1>3 DEF PagesIInv, StrayMarker
<1>5. Publishing'
  BY <1>1 DEF PagesIInv, Publishing, At
<1>6. PublishedOnRequest'
  BY DEF PagesIInv, StrayMarker, PublishedOnRequest, IsPublished
<1> QED
  BY <1>2, <1>4, <1>5, <1>6 DEF PagesIInv

LEMMA PublishLinksStep ==
    ASSUME PagesIInv, NEW c \in Calls, PublishLinks(c)
    PROVE  PagesIInv'
<1>1. CASE Fails(c) /\ UNCHANGED <<Pages, Ghosts>>
  BY <1>1, PagePasses DEF Fails, PageSteps
<1>2. CASE /\ ~link /\ link' = TRUE /\ Ends(c) /\ wanted' = TRUE
           /\ stray' = (c \in crossed \/ Removing # {})
  <2>1. /\ call' \in [Calls -> [kind : PageKinds, pc : PageSteps]] /\ call'[c].pc = "ok"
        /\ \A d \in Calls : d # c => call'[d] = call[d]
    BY <1>2, PageCallGoes DEF PagesIInv, Ends, PageSteps
  <2>2. dir' = dir /\ text' = text /\ crossed' = crossed
    BY DEF PublishLinks
  <2>3. PagesTypeOK'
    BY <1>2, <2>1, <2>2 DEF PagesIInv, PagesTypeOK
  <2>4. Removing' \subseteq Removing
    BY <2>1 DEF Removing, At
  <2>5. StrayMarker'
    <3>1. dir = "none" => c \in crossed
      BY DEF PublishLinks, PagesIInv, Publishing
    <3> QED
      BY <1>2, <2>2, <2>4, <3>1 DEF StrayMarker
  <2>6. Publishing'
    BY <2>1, <2>2 DEF PagesIInv, Publishing, At
  <2>7. PublishedOnRequest'
    BY <1>2 DEF PublishedOnRequest
  <2> QED
    BY <2>3, <2>5, <2>6, <2>7 DEF PagesIInv
<1> QED
  BY <1>1, <1>2 DEF PublishLinks, Pages, Ghosts

LEMMA DeleteRemovesStep ==
    ASSUME PagesIInv, NEW c \in Calls, DeleteRemoves(c)
    PROVE  PagesIInv'
<1>1. UNCHANGED <<link, stray>> /\ (link => stray)
  BY DEF DeleteRemoves, Removing, PagesIInv, StrayMarker
<1>2. PICK there \in {"ok", "failed"} : Goes(c, there)
  BY DEF DeleteRemoves, Ends, Fails
<1>3. /\ call' \in [Calls -> [kind : PageKinds, pc : PageSteps]]
      /\ call'[c].pc \in {"ok", "failed"}
      /\ \A d \in Calls : d # c => call'[d] = call[d]
  BY <1>2, PageCallGoes DEF PagesIInv, PageSteps
<1>4. StrayMarker' /\ PublishedOnRequest'
  BY <1>1 DEF StrayMarker, PublishedOnRequest, IsPublished
<1>5. PagesTypeOK'
  BY <1>1, <1>3 DEF DeleteRemoves, PagesIInv, PagesTypeOK
<1>6. Publishing'
  BY <1>3 DEF DeleteRemoves, PagesIInv, Publishing, At
<1> QED
  BY <1>4, <1>5, <1>6 DEF PagesIInv

LEMMA UnpublishUnlinksStep ==
    ASSUME PagesIInv, NEW c \in Calls, UnpublishUnlinks(c)
    PROVE  PagesIInv'
<1>1. CASE Fails(c) /\ UNCHANGED <<Pages, Ghosts>>
  BY <1>1, PagePasses DEF Fails, PageSteps
<1>2. CASE link' = FALSE /\ Unpublished(c) /\ wanted' = FALSE /\ stray' = FALSE
  <2>1. PICK there \in {"remove", "ok"} : Goes(c, there)
    BY <1>2 DEF Unpublished, Ends
  <2>2. /\ call' \in [Calls -> [kind : PageKinds, pc : PageSteps]]
        /\ call'[c].pc \in {"remove", "ok"}
        /\ \A d \in Calls : d # c => call'[d] = call[d]
    BY <2>1, PageCallGoes DEF PagesIInv, PageSteps
  <2>3. dir' = dir /\ text' = text /\ crossed' = crossed
    BY DEF UnpublishUnlinks
  <2> QED
    BY <1>2, <2>2, <2>3 DEF PagesIInv, PagesTypeOK, StrayMarker, Publishing, PublishedOnRequest, IsPublished, At
<1> QED
  BY <1>1, <1>2 DEF UnpublishUnlinks, Pages, Ghosts

LEMMA DeleteLooksAtMarkerStep ==
    ASSUME PagesIInv, NEW c \in Calls, DeleteLooksAtMarker(c)
    PROVE  PagesIInv'
<1> USE DEF PageSteps
<1>1. call[c].kind # "publish" /\ UNCHANGED <<Pages, wanted, crossed>>
  BY DEF DeleteLooksAtMarker, At
<1>2. CASE Goes(c, "marker") /\ UNCHANGED stray
  <2>1. UNCHANGED <<Pages, Ghosts>>
    BY <1>1, <1>2 DEF Ghosts
  <2> QED
    BY <1>1, <1>2, <2>1, PagePasses
<1>3. CASE Goes(c, "remove") /\ stray' = (stray \/ IsPublished)
  <2>1. /\ call' \in [Calls -> [kind : PageKinds, pc : PageSteps]] /\ call'[c].pc = "remove"
        /\ \A d \in Calls : d # c => call'[d] = call[d]
    BY <1>3, PageCallGoes DEF PagesIInv
  <2>2. UNCHANGED <<dir, text, link, wanted, crossed>>
    BY <1>1 DEF Pages
  <2>3. PagesTypeOK'
    BY <1>3, <2>1, <2>2 DEF PagesIInv, PagesTypeOK, IsPublished
  <2>4. link' => stray'
    BY <1>3, <2>2 DEF IsPublished, PagesIInv, StrayMarker
  <2>5. StrayMarker' /\ PublishedOnRequest'
    BY <2>4 DEF StrayMarker, PublishedOnRequest, IsPublished
  <2>6. Publishing'
    BY <2>1, <2>2 DEF PagesIInv, Publishing, At
  <2> QED
    BY <2>3, <2>5, <2>6 DEF PagesIInv
<1> QED
  BY <1>2, <1>3 DEF DeleteLooksAtMarker

LEMMA PagesStepIInv == PagesIInv /\ [PagesNext]_pagesVars => PagesIInv'
<1> SUFFICES ASSUME PagesIInv, [PagesNext]_pagesVars PROVE PagesIInv'
  OBVIOUS
<1> USE DEF PageSteps, Ends, Fails
<1>1. ASSUME NEW c \in Calls, CreateLooks(c) PROVE PagesIInv'
  BY <1>1, PagePasses DEF CreateLooks
<1>2. ASSUME NEW c \in Calls, CreateMakes(c) PROVE PagesIInv'
  <2>1. CASE Fails(c) /\ UNCHANGED <<Pages, Ghosts>>
    BY <2>1, PagePasses
  <2>2. CASE /\ Goes(c, "fill") /\ dir = "none" /\ dir' = "partial" /\ text' = "none"
              /\ wanted' = FALSE /\ UNCHANGED <<link, crossed, stray>>
    BY <2>2, PageWorks
  <2> QED
    BY <1>2, <2>1, <2>2 DEF CreateMakes
<1>3. ASSUME NEW c \in Calls, CreateFills(c) PROVE PagesIInv'
  BY <1>3, PageWorks DEF CreateFills, Ghosts, PagesIInv, PagesTypeOK
<1>4. ASSUME NEW c \in Calls, EditLooks(c) PROVE PagesIInv'
  BY <1>4, PagePasses DEF EditLooks
<1>5. ASSUME NEW c \in Calls, EditOpens(c) PROVE PagesIInv'
  BY <1>5, PageWorks DEF EditOpens, Ghosts, PagesIInv, PagesTypeOK
<1>6. ASSUME NEW c \in Calls, EditWrites(c) PROVE PagesIInv'
  BY <1>6, PageWorks DEF EditWrites, Ghosts, PagesIInv, PagesTypeOK
<1>7. ASSUME NEW c \in Calls, PublishLooks(c) PROVE PagesIInv'
  BY <1>7, PagePasses DEF PublishLooks
<1>8. ASSUME NEW c \in Calls, PublishLooksAtMarker(c) PROVE PagesIInv'
  BY <1>8, PagePasses DEF PublishLooksAtMarker, At, PagesIInv, Publishing
<1>9. ASSUME NEW c \in Calls, PublishLinks(c) PROVE PagesIInv'
  BY <1>9, PublishLinksStep
<1>10. ASSUME NEW c \in Calls, DeleteLooks(c) PROVE PagesIInv'
  BY <1>10, PagePasses DEF DeleteLooks
<1>11. ASSUME NEW c \in Calls, DeleteLooksAtMarker(c) PROVE PagesIInv'
  BY <1>11, DeleteLooksAtMarkerStep
<1>12. ASSUME NEW c \in Calls, DeleteRemoves(c) PROVE PagesIInv'
  BY <1>12, DeleteRemovesStep
<1>13. ASSUME NEW c \in Calls, UnpublishLooks(c) PROVE PagesIInv'
  BY <1>13, PagePasses DEF UnpublishLooks, Unpublished, At
<1>14. ASSUME NEW c \in Calls, UnpublishUnlinks(c) PROVE PagesIInv'
  BY <1>14, UnpublishUnlinksStep
<1>15. CASE UNCHANGED pagesVars
  BY <1>15 DEF pagesVars, PagesIInv, PagesTypeOK, StrayMarker, Publishing, PublishedOnRequest, IsPublished, Removing, At
<1> QED
  BY <1>1, <1>2, <1>3, <1>4, <1>5, <1>6, <1>7, <1>8, <1>9, <1>10, <1>11, <1>12, <1>13, <1>14, <1>15
     DEF PagesNext

\* The invariant of pages, markers and calls (pages.go) holds throughout.
THEOREM PagesInductive == PagesSpec => []PagesIInv
BY PagesInitIInv, PagesStepIInv, PTL DEF PagesSpec

\* The types of page, marker and calls are kept by every step.
THEOREM PagesTypeCorrect == PagesSpec => []PagesTypeOK
<1>1. PagesIInv => PagesTypeOK
  BY DEF PagesIInv
<1> QED
  BY <1>1, PagesInductive, PTL

\* No page is published but by a publish of its own, or by a marker that outlived
\* a delete of the same id: a publish overlapped it, or its look at the marker failed
\* (pagesFS.publish, isPublished, DeletePageWorkspace).
THEOREM PublishedByRequest == PagesSpec => []PublishedOnRequest
<1>1. PagesIInv => PublishedOnRequest
  BY DEF PagesIInv
<1> QED
  BY <1>1, PagesInductive, PTL

-----------------------------------------------------------------------------
(* Attachments *)

\* The two files of an upload at each point of Save.
UploadInv(u) ==
    LET data == files[u]["data"]  meta == files[u]["meta"] IN
    /\ step[u] \notin {"start", "refused"} => Accepted(u)
    /\ step[u] \in {"start", "refused", "open1"} => data = "none" /\ meta = "none"
    /\ step[u] = "fill1" => meta = "none"
    /\ step[u] = "open2" => data = "whole" /\ meta = "none"
    /\ step[u] = "fill2" => data = "whole" /\ meta # "whole"
    /\ step[u] \in {"undo", "failed"} => meta # "whole" \/ u \in late
    /\ step[u] = "ok" => data = "whole" /\ meta = "whole"
    /\ step[u] = "dead" /\ meta = "whole" => data = "whole" \/ u \in late

AttachmentsIInv == AttachmentsTypeOK /\ \A u \in Uploads : UploadInv(u)

LEMMA AttachmentsInitIInv == AttachmentsInit => AttachmentsIInv
BY DEF AttachmentsInit, AttachmentsIInv, AttachmentsTypeOK, UploadInv, Files, Steps

\* A step of one upload leaves the others alone.
LEMMA OtherUploads ==
    ASSUME AttachmentsIInv, NEW u \in Uploads, NEW v \in Uploads, v # u,
           files'[v] = files[v], step'[v] = step[v], late \subseteq late'
    PROVE  UploadInv(v)'
BY DEF AttachmentsIInv, UploadInv, Accepted

LEMMA AttachmentsStepIInv == AttachmentsIInv /\ [AttachmentsNext]_attachmentsVars => AttachmentsIInv'
<1> SUFFICES ASSUME AttachmentsIInv, [AttachmentsNext]_attachmentsVars PROVE AttachmentsIInv'
  OBVIOUS
<1> USE DEF AttachmentsIInv, AttachmentsTypeOK, Moves, Holds, Files, Steps, SaveOrder
<1>1. ASSUME NEW u \in Uploads, Save(u) PROVE AttachmentsIInv'
  <2>1. AttachmentsTypeOK'
    BY <1>1 DEF Save
  <2>2. UploadInv(u)'
    BY <1>1 DEF Save, UploadInv, Accepted
  <2>3. ASSUME NEW v \in Uploads, v # u PROVE UploadInv(v)'
    BY <1>1, <2>3, OtherUploads DEF Save
  <2> QED
    BY <2>1, <2>2, <2>3
<1>2. ASSUME NEW u \in Uploads, Undo(u) PROVE AttachmentsIInv'
  <2>1. AttachmentsTypeOK'
    BY <1>2 DEF Undo
  <2>2. UploadInv(u)'
    BY <1>2 DEF Undo, UploadInv, Accepted
  <2>3. ASSUME NEW v \in Uploads, v # u PROVE UploadInv(v)'
    BY <1>2, <2>3, OtherUploads DEF Undo
  <2> QED
    BY <2>1, <2>2, <2>3
<1>3. ASSUME NEW u \in Uploads, UploadDies(u) PROVE AttachmentsIInv'
  <2>1. AttachmentsTypeOK'
    BY <1>3 DEF UploadDies
  <2>2. UploadInv(u)'
    BY <1>3 DEF UploadDies, UploadInv, Accepted
  <2>3. ASSUME NEW v \in Uploads, v # u PROVE UploadInv(v)'
    BY <1>3, <2>3, OtherUploads DEF UploadDies
  <2> QED
    BY <2>1, <2>2, <2>3
<1>4. ASSUME NEW u \in Uploads, Opens(u, SaveOrder[1], "open1", "fill1", "failed") PROVE AttachmentsIInv'
  <2>1. AttachmentsTypeOK'
    BY <1>4 DEF Opens
  <2>2. UploadInv(u)'
    BY <1>4 DEF Opens, UploadInv, Accepted
  <2>3. ASSUME NEW v \in Uploads, v # u PROVE UploadInv(v)'
    BY <1>4, <2>3, OtherUploads DEF Opens
  <2> QED
    BY <2>1, <2>2, <2>3
<1>5. ASSUME NEW u \in Uploads, Fills(u, SaveOrder[1], "fill1", "open2", "failed") PROVE AttachmentsIInv'
  <2>1. AttachmentsTypeOK'
    BY <1>5 DEF Fills
  <2>2. UploadInv(u)'
    BY <1>5 DEF Fills, UploadInv, Accepted
  <2>3. ASSUME NEW v \in Uploads, v # u PROVE UploadInv(v)'
    BY <1>5, <2>3, OtherUploads DEF Fills
  <2> QED
    BY <2>1, <2>2, <2>3
<1>6. ASSUME NEW u \in Uploads, Opens(u, SaveOrder[2], "open2", "fill2", "undo") PROVE AttachmentsIInv'
  <2>1. AttachmentsTypeOK'
    BY <1>6 DEF Opens
  <2>2. UploadInv(u)'
    BY <1>6 DEF Opens, UploadInv, Accepted
  <2>3. ASSUME NEW v \in Uploads, v # u PROVE UploadInv(v)'
    BY <1>6, <2>3, OtherUploads DEF Opens
  <2> QED
    BY <2>1, <2>2, <2>3
<1>7. ASSUME NEW u \in Uploads, Fills(u, SaveOrder[2], "fill2", "ok", "undo") PROVE AttachmentsIInv'
  <2>1. AttachmentsTypeOK'
    BY <1>7 DEF Fills
  <2>2. UploadInv(u)'
    BY <1>7 DEF Fills, UploadInv, Accepted
  <2>3. ASSUME NEW v \in Uploads, v # u PROVE UploadInv(v)'
    BY <1>7, <2>3, OtherUploads DEF Fills
  <2> QED
    BY <2>1, <2>2, <2>3
<1>8. CASE UNCHANGED attachmentsVars
  BY <1>8 DEF attachmentsVars, UploadInv, Accepted
<1> QED
  BY <1>1, <1>2, <1>3, <1>4, <1>5, <1>6, <1>7, <1>8 DEF AttachmentsNext

LEMMA AttachmentsSafe == AttachmentsAssumption /\ AttachmentsIInv => ListedIsReadable
<1> SUFFICES ASSUME AttachmentsAssumption, AttachmentsIInv, NEW u \in Uploads \ late
             PROVE  /\ step[u] = "ok" => Listed(u)
                    /\ Listed(u) => /\ files[u]["data"] = "whole"
                                    /\ ReadAttachment(u) # ReadImage(u)
  BY DEF ListedIsReadable
<1>1. step[u] = "ok" => Listed(u)
  BY DEF AttachmentsIInv, UploadInv, Listed
<1>2. ASSUME Listed(u) PROVE files[u]["data"] = "whole" /\ Accepted(u)
  BY <1>2 DEF AttachmentsIInv, AttachmentsTypeOK, Steps, UploadInv, Listed
<1>3. ASSUME Listed(u) PROVE ReadAttachment(u) # ReadImage(u)
  <2>1. Upload[u].kind = "text" \/ Upload[u].kind = "image"
    BY <1>2, <1>3 DEF Accepted, AttachmentsAssumption
  <2>2. Get(u)
    BY <1>2, <1>3 DEF Get
  <2>3. CASE Upload[u].kind = "text"
    BY <2>2, <2>3 DEF ReadAttachment, ReadImage
  <2>4. CASE Upload[u].kind = "image"
    BY <2>2, <2>4 DEF ReadAttachment, ReadImage
  <2> QED
    BY <2>1, <2>3, <2>4
<1> QED
  BY <1>1, <1>2, <1>3

\* The invariant of uploads (Store.Save) holds throughout.
THEOREM AttachmentsInductive == AttachmentsSpec => []AttachmentsIInv
BY AttachmentsInitIInv, AttachmentsStepIInv, PTL DEF AttachmentsSpec

\* The types of files and uploads are kept by every step.
THEOREM AttachmentsTypeCorrect == AttachmentsSpec => []AttachmentsTypeOK
<1>1. AttachmentsIInv => AttachmentsTypeOK
  BY DEF AttachmentsIInv
<1> QED
  BY <1>1, AttachmentsInductive, PTL

\* What a thread lists can be read in full and by exactly one of the two tools,
\* whatever failed or died in an upload (Store.Save, List, ResolvePath).
THEOREM ListedReadable == ASSUME AttachmentsAssumption PROVE AttachmentsSpec => []ListedIsReadable
BY AttachmentsSafe, AttachmentsInductive, PTL

-----------------------------------------------------------------------------
(* The documentation index *)

\* What the index file holds at each point of a build, unless the old one could
\* not be removed: nothing before the rename, this build's documents after it,
\* and one or the other once the build is over.
BuildInv ==
    /\ pc \in {"building", "collect", "rename"} => kept \/ index = 0
    /\ pc = "ready" => index = built
    /\ pc \in {"failed", "serving"} => kept \/ index \in {0, built}

DocsIInv == DocsTypeOK /\ BuildInv

LEMMA DocsInitIInv == DocsAssumption /\ DocsInit => DocsIInv
<1> SUFFICES ASSUME DocsAssumption, DocsInit PROVE DocsIInv
  OBVIOUS
<1>1. MaxVersion \in Nat /\ MaxVersion >= 1 /\ MaxStarts \in Nat
  BY DEF DocsAssumption
<1>2. DocsTypeOK
  <2>1. auto \in BOOLEAN /\ kept \in BOOLEAN
    BY DEF DocsInit
  <2> QED
    BY <1>1, <2>1 DEF DocsInit, DocsTypeOK, StatusNames
<1>3. BuildInv
  BY DEF DocsInit, BuildInv
<1> QED
  BY <1>2, <1>3 DEF DocsIInv

LEMMA DocsStepIInv == DocsAssumption /\ DocsIInv /\ [DocsNext]_docsVars => DocsIInv'
<1> SUFFICES ASSUME DocsAssumption, DocsIInv, [DocsNext]_docsVars PROVE DocsIInv'
  OBVIOUS
<1> USE DEF DocsIInv, StatusNames
<1>b. MaxVersion \in Nat /\ MaxVersion >= 1 /\ MaxStarts \in Nat
  BY DEF DocsAssumption
<1>1. CASE Edited
  <2>1. DocsTypeOK'
    BY <1>b, <1>1 DEF Edited, DocsTypeOK
  <2>2. BuildInv'
    BY <1>1 DEF Edited, DocsTypeOK, BuildInv
  <2> QED
    BY <2>1, <2>2
<1>2. CASE Starts
  <2>1. DocsTypeOK'
    <3>1. auto' \in BOOLEAN /\ kept' \in BOOLEAN
      BY <1>2 DEF Starts, DocsTypeOK, IndexFileExists
    <3> QED
      BY <1>b, <1>2, <3>1 DEF Starts, DocsTypeOK, IndexFileExists
  <2>2. BuildInv'
    BY <1>2 DEF Starts, DocsTypeOK, BuildInv, IndexFileExists
  <2> QED
    BY <2>1, <2>2
<1>3. CASE Dies
  <2>1. DocsTypeOK'
    BY <1>b, <1>3 DEF Dies, DocsTypeOK
  <2>2. BuildInv'
    BY <1>3 DEF Dies, DocsTypeOK, BuildInv
  <2> QED
    BY <2>1, <2>2
<1>4. CASE Removes
  <2>1. DocsTypeOK'
    <3>1. auto' \in BOOLEAN /\ kept' \in BOOLEAN
      BY <1>4 DEF Removes, DocsTypeOK
    <3> QED
      BY <1>b, <1>4, <3>1 DEF Removes, DocsTypeOK
  <2>2. BuildInv'
    BY <1>4 DEF Removes, DocsTypeOK, BuildInv
  <2> QED
    BY <2>1, <2>2
<1>5. CASE MarksBuilding
  <2>1. DocsTypeOK'
    BY <1>b, <1>5 DEF MarksBuilding, DocsTypeOK, StatusWritten, StatusFails, Over
  <2>2. BuildInv'
    BY <1>5 DEF MarksBuilding, DocsTypeOK, BuildInv, StatusWritten, StatusFails, Over
  <2> QED
    BY <2>1, <2>2
<1>6. CASE Collects
  <2>1. DocsTypeOK'
    BY <1>b, <1>6 DEF Collects, DocsTypeOK
  <2>2. BuildInv'
    BY <1>6 DEF Collects, DocsTypeOK, BuildInv
  <2> QED
    BY <2>1, <2>2
<1>7. CASE Renames
  <2>1. DocsTypeOK'
    BY <1>b, <1>7 DEF Renames, DocsTypeOK
  <2>2. BuildInv'
    BY <1>7 DEF Renames, DocsTypeOK, BuildInv
  <2> QED
    BY <2>1, <2>2
<1>8. CASE MarksReady
  <2>1. DocsTypeOK'
    BY <1>b, <1>8 DEF MarksReady, DocsTypeOK, StatusWritten, StatusFails, Over
  <2>2. BuildInv'
    BY <1>8 DEF MarksReady, DocsTypeOK, BuildInv, StatusWritten, StatusFails, Over
  <2> QED
    BY <2>1, <2>2
<1>9. CASE MarksFailed
  <2>1. DocsTypeOK'
    BY <1>b, <1>9 DEF MarksFailed, DocsTypeOK, StatusWritten, StatusFails, Over
  <2>2. BuildInv'
    BY <1>9 DEF MarksFailed, DocsTypeOK, BuildInv, StatusWritten, StatusFails, Over
  <2> QED
    BY <2>1, <2>2
<1>10. CASE UNCHANGED docsVars
  BY <1>10 DEF docsVars, DocsTypeOK, BuildInv
<1> QED
  BY <1>1, <1>2, <1>3, <1>4, <1>5, <1>6, <1>7, <1>8, <1>9, <1>10 DEF DocsNext

LEMMA DocsSafe == DocsIInv => UsableIsCurrent
BY DEF DocsIInv, DocsTypeOK, BuildInv, UsableIsCurrent, Usable, Load, IndexFileExists

\* The invariant of the builds (Index.Reindex, NewIndex) holds throughout.
THEOREM DocsInductive == ASSUME DocsAssumption PROVE DocsSpec => []DocsIInv
BY DocsInitIInv, DocsStepIInv, PTL DEF DocsSpec

\* The types of the index, the status and the process are kept by every step.
THEOREM DocsTypeCorrect == ASSUME DocsAssumption PROVE DocsSpec => []DocsTypeOK
<1>1. DocsIInv => DocsTypeOK
  BY DEF DocsIInv
<1> QED
  BY <1>1, DocsInductive, PTL

\* Turns run only over the index that this process built, whatever operation
\* failed and wherever earlier processes died (Usable, Gate, Reindex).
THEOREM IndexCurrent == ASSUME DocsAssumption PROVE DocsSpec => []UsableIsCurrent
BY DocsSafe, DocsInductive, PTL

-----------------------------------------------------------------------------
(* The model picker *)

\* The first provider of a set: no other one of the set comes before it.
LEMMA FirstOfIs ==
    ASSUME PickerAssumption, NEW S \in SUBSET ProviderIds, S # {}
    PROVE  FirstOf(S) \in S /\ \A p \in S \ {FirstOf(S)} : Before(FirstOf(S), p)
<1> DEFINE at == {i \in DOMAIN Ranking : Ranking[i] \in S}
<1>1. Ranking \in Seq(ProviderIds) /\ DOMAIN Ranking = 1..Len(Ranking) /\ Len(Ranking) \in Nat
  BY LenProperties DEF PickerAssumption
<1>2. \A p \in S : \E i \in at : Ranking[i] = p
  BY DEF ProviderIds, Range
<1>3. at \in SUBSET Nat /\ at # {}
  BY <1>1, <1>2
<1>4. Min(at) \in at /\ \A i \in at : Min(at) <= i
  BY <1>3, LeastOf
<1>5. FirstOf(S) = Ranking[Min(at)]
  BY DEF FirstOf
<1> HIDE DEF at
<1>6. ASSUME NEW p \in S, p # FirstOf(S) PROVE Before(FirstOf(S), p)
  <2>1. PICK i \in at : Ranking[i] = p
    BY <1>2
  <2>2. Min(at) < i /\ Min(at) \in DOMAIN Ranking /\ i \in DOMAIN Ranking
    BY <1>1, <1>4, <1>5, <1>6, <2>1 DEF at
  <2> QED
    BY <1>5, <2>1, <2>2 DEF Before
<1> QED
  BY <1>4, <1>5, <1>6 DEF at

\* A listed model that no provider hides before its own resolves to its own.
LEMMA ListedResolves ==
    ASSUME PickerAssumption, NEW f \in Configs \cup Later, ~f.stub,
           NEW o \in ListedModels(f), o[1] \in ModelIds,
           Upper(o[1]) \notin DOMAIN f.slots, ~Shadowed(f, o)
    PROVE  /\ ResolveModel(f, o[1]) = o[2] /\ o[2] \in ProviderIds
           /\ Enabled(f, o[2]) /\ o[1] \in Range(f.slots[o[2]].list)
<1> DEFINE x == o[1]
           p == o[2]
           having == {q \in ProviderIds : Enabled(f, q) /\ Has(f.slots[q], x)}
<1>1. p \in Offering(f) /\ x \in Offered(f, p)
  BY DEF ListedModels
<1>2. p \in ProviderIds /\ Enabled(f, p)
  BY <1>1 DEF Offering
<1>3. Upper(x) \notin DOMAIN f.slots /\ p \in DOMAIN f.slots /\ x # p
  <2>1. Upper(p) = p
    BY <1>2 DEF PickerAssumption
  <2> QED
    BY <1>2, <2>1 DEF Enabled
<1>4. x \in Range(f.slots[p].list) /\ IsChatSelectable(f, p, x)
  BY <1>1, <1>3 DEF Offered
<1>5. p \in having
  BY <1>2, <1>4 DEF Has
<1>6. FirstOf(having) \in having /\ \A q \in having \ {FirstOf(having)} : Before(FirstOf(having), q)
  BY <1>5, FirstOfIs
<1>7. FirstOf(having) = p
  <2> SUFFICES ASSUME FirstOf(having) # p PROVE FALSE
    OBVIOUS
  <2>1. Before(FirstOf(having), p)
    BY <1>5, <1>6
  <2> QED
    BY <1>6, <2>1 DEF Shadowed, Has
<1>9. p # Nothing
  BY <1>2 DEF PickerAssumption
<1>10. ResolveModel(f, x) = p
  BY <1>3, <1>4, <1>7, <1>9 DEF ResolveModel
<1> QED
  BY <1>2, <1>4, <1>10

\* As long as the settings stay the same the options are those of the settings, the
\* choice is one of them, and the provider is what the settings make of it.
PickerIInv ==
    /\ PickerTypeOK
    /\ turn # NoTurn => options # {}
    /\ ~changed /\ options # {} => options = ListModels(settings)
    /\ ~changed /\ turn # NoTurn =>
          /\ turn.picked \in options /\ turn.provider = ResolveModel(settings, turn.picked[1])
          /\ turn.step = "refused" <=> turn.provider = Nothing
          /\ turn.step \in {"asked", "failed"} =>
               /\ turn.at = IF settings.stub THEN Stub ELSE FirstAsked(settings, turn.provider)
               /\ turn.model = turn.picked[1]
               /\ turn.step = "asked" <=> settings.stub \/ Serves(settings, turn.at)

LEMMA ListModelsIs ==
    ASSUME PickerAssumption, NEW f \in Configs \cup Later
    PROVE  /\ ListModels(f) \subseteq (ModelIds \cup ProviderIds \cup {Stub}) \X (ProviderIds \cup {Stub})
           /\ ListModels(f) # {}
<1>1. ListedModels(f) \subseteq (ModelIds \cup ProviderIds) \X ProviderIds
  BY DEF ListedModels, Offering
<1>2. ListModels(f) = StubModels \/ (ListModels(f) = ListedModels(f) /\ ListedModels(f) # {})
  BY DEF ListModels
<1>3. StubModels # {} /\ \A o \in StubModels : o = <<Stub, Stub>>
  BY DEF StubModels
<1> QED
  BY <1>1, <1>2, <1>3

LEMMA PickerInitIInv == PickerInit => PickerIInv
<1> SUFFICES ASSUME PickerInit PROVE PickerIInv
  OBVIOUS
<1>1. turn = NoTurn /\ turn.step = "none" /\ options = {} /\ changed = FALSE /\ settings \in Configs
  BY DEF PickerInit, NoTurn
<1>2. PickerTypeOK
  BY <1>1 DEF PickerTypeOK
<1> QED
  BY <1>1, <1>2 DEF PickerIInv

LEMMA PickerStepIInv == PickerAssumption /\ PickerIInv /\ [PickerNext]_pickerVars => PickerIInv'
<1> SUFFICES ASSUME PickerAssumption, PickerIInv, [PickerNext]_pickerVars PROVE PickerIInv'
  OBVIOUS
<1>0. settings \in Configs \cup Later
  BY DEF PickerIInv, PickerTypeOK
<1>1. CASE Lists
  <2>1. turn = NoTurn
    BY <1>1 DEF Lists, PickerIInv
  <2>2. options' = ListModels(settings) /\ UNCHANGED <<settings, turn>> /\ changed' = FALSE
    BY <1>1 DEF Lists
  <2>3. PickerTypeOK'
    BY <1>0, <2>2, ListModelsIs DEF PickerIInv, PickerTypeOK
  <2> QED
    BY <2>1, <2>2, <2>3 DEF PickerIInv, NoTurn
<1>2. CASE PickerStartTurn
  <2>1. PICK o \in options :
           LET p == ResolveModel(settings, o[1]) IN
           turn' = [step |-> IF p = Nothing THEN "refused" ELSE "started", picked |-> o, provider |-> p]
    BY <1>2 DEF PickerStartTurn
  <2> DEFINE p == ResolveModel(settings, o[1])
  <2>2. turn'.step = (IF p = Nothing THEN "refused" ELSE "started") /\ turn'.picked = o /\ turn'.provider = p
    BY <2>1
  <2> HIDE DEF p
  <2>3. UNCHANGED <<settings, options, changed>>
    BY <1>2 DEF PickerStartTurn
  <2>4. PickerTypeOK'
    BY <2>2, <2>3 DEF PickerIInv, PickerTypeOK
  <2>5. ResolveModel(settings, o[1])' = ResolveModel(settings', o[1])
    OBVIOUS
  <2>6. turn'.provider = ResolveModel(settings', turn'.picked[1])
    BY <2>2, <2>3 DEF p
  <2>7. turn'.step = "refused" <=> turn'.provider = Nothing
    BY <2>2
  <2>8. turn'.step \notin {"asked", "failed"}
    BY <2>2
  <2> QED
    BY <2>2, <2>3, <2>4, <2>6, <2>7, <2>8 DEF PickerIInv
<1>3. CASE FirstRequest
  <2>1. /\ turn.step = "started" /\ turn'.step \in {"asked", "failed"} /\ turn'.picked = turn.picked
        /\ turn'.provider = turn.provider /\ turn'.model = turn.picked[1]
        /\ turn'.at = IF settings.stub THEN Stub ELSE FirstAsked(settings, turn.provider)
        /\ turn'.step = "asked" <=> settings.stub \/ Serves(settings, turn'.at)
        /\ UNCHANGED <<settings, options, changed>>
    BY <1>3 DEF FirstRequest
  <2>2. turn # NoTurn
    BY <2>1 DEF NoTurn
  <2>3. PickerTypeOK'
    BY <2>1 DEF PickerIInv, PickerTypeOK
  <2> QED
    BY <2>1, <2>2, <2>3 DEF PickerIInv
<1>4. CASE PickerReload
  BY <1>4 DEF PickerReload, PickerIInv, PickerTypeOK
<1>5. CASE UNCHANGED pickerVars
  BY <1>5 DEF pickerVars, PickerIInv, PickerTypeOK
<1> QED
  BY <1>1, <1>2, <1>3, <1>4, <1>5 DEF PickerNext

LEMMA PickerSafe == PickerAssumption /\ PickerIInv => PickedIsServed
<1> SUFFICES ASSUME PickerAssumption, PickerIInv, turn # NoTurn, ~changed
             PROVE  /\ turn.step = "refused" => ~Regular(turn.picked) /\ ~settings.stub
                    /\ Regular(turn.picked) => turn.provider = turn.picked[2]
                    /\ turn.step \in {"asked", "failed"} /\ Regular(turn.picked) /\ settings.strategy # "switch" =>
                         /\ turn.at = turn.picked[2] /\ turn.model \in Range(settings.slots[turn.at].list)
                         /\ turn.step = "failed" <=> settings.slots[turn.at].bare
  BY DEF PickedIsServed
<1> DEFINE o == turn.picked
<1>1. settings \in Configs \cup Later /\ Stub # Nothing /\ Stub \notin ModelIds
  BY DEF PickerIInv, PickerTypeOK, PickerAssumption
<1>2. /\ o \in ListModels(settings) /\ turn.provider = ResolveModel(settings, o[1])
      /\ turn.step = "refused" <=> turn.provider = Nothing
  BY DEF PickerIInv
<1>3. settings.stub => o = <<Stub, Stub>> /\ turn.provider = Stub
  <2>1. settings.stub => ListModels(settings) = {<<Stub, Stub>>}
    BY DEF ListModels, StubModels
  <2>2. o = <<Stub, Stub>> => o[1] = Stub
    OBVIOUS
  <2>3. settings.stub /\ o[1] = Stub => ResolveModel(settings, o[1]) = Stub
    BY DEF ResolveModel
  <2> QED
    BY <1>2, <2>1, <2>2, <2>3
<1>4. ASSUME Regular(o)
      PROVE  turn.provider = o[2] /\ o[2] # Nothing /\ Enabled(settings, o[2])
             /\ ~settings.stub /\ o[1] \in Range(settings.slots[o[2]].list)
  <2>1. o[1] \in ModelIds /\ Upper(o[1]) \notin DOMAIN settings.slots /\ ~Shadowed(settings, o)
    BY <1>4 DEF Regular
  <2>2. ~settings.stub
    BY <1>1, <1>3, <2>1
  <2>3. o \in ListedModels(settings)
    BY <1>1, <1>2, <2>1 DEF ListModels, StubModels
  <2> QED
    BY <1>1, <1>2, <2>1, <2>2, <2>3, ListedResolves DEF PickerAssumption
<1>5. turn.step = "refused" => ~Regular(o) /\ ~settings.stub
  BY <1>1, <1>2, <1>3, <1>4
<1>6. ASSUME turn.step \in {"asked", "failed"}, Regular(o), settings.strategy # "switch"
      PROVE  /\ turn.at = o[2] /\ turn.model \in Range(settings.slots[turn.at].list)
             /\ turn.step = "failed" <=> settings.slots[turn.at].bare
  <2>1. /\ turn.at = IF settings.stub THEN Stub ELSE FirstAsked(settings, turn.provider)
        /\ turn.model = o[1]
        /\ turn.step = "asked" <=> settings.stub \/ Serves(settings, turn.at)
    BY <1>6 DEF PickerIInv
  <2>2. FirstAsked(settings, o[2]) = o[2]
    BY <1>4, <1>6 DEF FirstAsked
  <2>3. turn.at = o[2]
    BY <1>4, <1>6, <2>1, <2>2
  <2>4. turn.step = "failed" <=> settings.slots[turn.at].bare
    BY <1>4, <1>6, <2>1, <2>3 DEF Serves
  <2> QED
    BY <1>4, <1>6, <2>1, <2>3, <2>4
<1> QED
  BY <1>4, <1>5, <1>6

\* The invariant of listings and turns (methods.go, catalog.go) holds throughout.
THEOREM PickerInductive == ASSUME PickerAssumption PROVE PickerSpec => []PickerIInv
BY PickerInitIInv, PickerStepIInv, PTL DEF PickerSpec

\* The types of settings, listing and turn are kept by every step.
THEOREM PickerTypeCorrect == ASSUME PickerAssumption PROVE PickerSpec => []PickerTypeOK
<1>1. PickerIInv => PickerTypeOK
  BY DEF PickerIInv
<1> QED
  BY <1>1, PickerInductive, PTL

\* For any ranking of providers and any settings: what the picker shows is accepted,
\* and the first request goes to the provider it is shown under, for a model that it
\* lists (ListModels, ResolveModel, the router's order), but for what PickedIsServed
\* excepts; it is never sent only when that provider has no key.
THEOREM PickServed == ASSUME PickerAssumption PROVE PickerSpec => []PickedIsServed
BY PickerSafe, PickerInductive, PTL

-----------------------------------------------------------------------------
(* The effort policy *)

\* Some level is nearest to the level asked for, and the nearest is a level.
LEMMA NearestIs ==
    ASSUME NEW levels \in Seq(Ranks), levels # <<>>, NEW level \in Ranks
    PROVE  /\ Nearest(levels, level) \in DOMAIN levels
           /\ \A j \in DOMAIN levels : Dist(levels[Nearest(levels, level)], level) <= Dist(levels[j], level)
<1> DEFINE far == {Dist(levels[i], level) : i \in DOMAIN levels}
           near == {i \in DOMAIN levels : \A j \in DOMAIN levels :
                       Dist(levels[i], level) <= Dist(levels[j], level)}
<1>1. DOMAIN levels = 1..Len(levels) /\ Len(levels) \in Nat /\ Len(levels) > 0
  BY LenProperties, EmptySeq
<1>2. \A i \in DOMAIN levels : levels[i] \in Ranks /\ Dist(levels[i], level) \in Nat
  BY <1>1 DEF Dist, Ranks
<1>3. far \in SUBSET Nat /\ far # {}
  BY <1>1, <1>2
<1>4. PICK i \in DOMAIN levels : Dist(levels[i], level) = Min(far)
  BY <1>3, LeastOf
<1>5. i \in near
  <2> SUFFICES ASSUME NEW j \in DOMAIN levels PROVE Dist(levels[i], level) <= Dist(levels[j], level)
    OBVIOUS
  <2>1. Dist(levels[j], level) \in far
    OBVIOUS
  <2> QED
    BY <1>3, <1>4, <2>1, LeastOf
<1>6. near \in SUBSET Nat /\ near # {}
  BY <1>1, <1>5
<1>7. Nearest(levels, level) = Min(near)
  BY DEF Nearest
<1> QED
  BY <1>6, <1>7, LeastOf

LEMMA FirstLevelIs ==
    ASSUME NEW levels \in Seq(Ranks), \E l \in Range(levels) : l # EffortNone
    PROVE  FirstLevel(levels) \in DOMAIN levels /\ levels[FirstLevel(levels)] # EffortNone
<1> DEFINE some == {i \in DOMAIN levels : levels[i] # EffortNone}
<1>1. DOMAIN levels = 1..Len(levels) /\ Len(levels) \in Nat
  BY LenProperties
<1>2. some \in SUBSET Nat /\ some # {}
  BY <1>1 DEF Range
<1>3. FirstLevel(levels) = Min(some)
  BY DEF FirstLevel
<1> QED
  BY <1>2, <1>3, LeastOf

ModelInfo(info) ==
    /\ info.supports \in BOOLEAN /\ info.mandatory \in BOOLEAN
    /\ info.default \in Ranks \cup {EffortAuto} /\ info.levels \in Seq(Ranks)

\* What is sent fits a model whose provider told the truth.
LEMMA ResolvedFits ==
    ASSUME NEW info, ModelInfo(info), NEW mode \in Ranks \cup {EffortAuto}
    PROVE  /\ ResolveEffort(mode, info) \in Ranks \cup {Omit}
           /\ AcceptsEffort(info, mode, ResolveEffort(mode, info))
<1> DEFINE level == WantedLevelFor(mode, info)
           sent == ResolveEffort(mode, info)
           near == info.levels[Nearest(info.levels, level)]
<1>1. info.levels \in Seq(Ranks) /\ \A i \in DOMAIN info.levels : info.levels[i] \in Range(info.levels)
  BY DEF ModelInfo, Range
<1>2. Range(info.levels) \subseteq Ranks
  BY <1>1, LenProperties DEF Range
<1>3. \A l \in Ranks : l # EffortAuto /\ l # Omit
  BY DEF Ranks, EffortAuto, Omit
<1>4. /\ level \in Ranks \cup {Omit}
      /\ ~info.supports => level = Omit
      /\ info.supports /\ mode # EffortAuto /\ ~ (mode = EffortNone /\ info.mandatory) => level = mode
      /\ info.mandatory => level # EffortNone
  BY <1>3 DEF WantedLevelFor, ModelInfo, EffortMedium, EffortNone, Ranks, EffortAuto, Omit
<1>5. sent = IF level = Omit THEN Omit ELSE MapToSupported(level, info)
  BY DEF ResolveEffort
<1> HIDE DEF level, sent
<1>6. CASE level = Omit
  BY <1>3, <1>4, <1>5, <1>6, <1>2 DEF AcceptsEffort, sent
<1>7. CASE level # Omit /\ (info.levels = <<>> \/ level \in Range(info.levels))
  <2>1. sent = level /\ level \in Ranks
    BY <1>4, <1>5, <1>7 DEF MapToSupported
  <2> QED
    BY <1>2, <1>3, <1>4, <1>7, <2>1 DEF AcceptsEffort, sent, Dist, Ranks
<1>8. CASE level # Omit /\ info.levels # <<>> /\ level \notin Range(info.levels)
  <2>1. level \in Ranks /\ info.supports
    BY <1>4, <1>8 DEF ModelInfo
  <2>2. /\ near \in Range(info.levels)
        /\ \A l \in Range(info.levels) : Dist(near, level) <= Dist(l, level)
    BY <1>1, <1>8, <2>1, NearestIs DEF Range
  <2>3. sent = IF near = EffortNone /\ info.mandatory /\ \E l \in Range(info.levels) : l # EffortNone
                 THEN info.levels[FirstLevel(info.levels)] ELSE near
    BY <1>5, <1>8 DEF MapToSupported
  <2> HIDE DEF near
  <2>4. sent \in Range(info.levels)
    BY <1>1, <2>2, <2>3, FirstLevelIs
  <2>5. ~info.mandatory => sent = near
    BY <2>3
  <2>6. info.mandatory /\ Range(info.levels) # {EffortNone} => sent # EffortNone
    <3>1. Range(info.levels) # {EffortNone} => \E l \in Range(info.levels) : l # EffortNone
      BY <2>2
    <3> QED
      BY <1>1, <2>3, <3>1, FirstLevelIs
  <2>7. mode # EffortAuto /\ ~info.mandatory => level = mode
    BY <1>4, <2>1
  <2>8. mode \in Range(info.levels) => mode = EffortNone /\ info.mandatory
    BY <1>2, <1>3, <1>4, <1>8, <2>1
  <2> QED
    BY <1>2, <2>1, <2>2, <2>4, <2>5, <2>6, <2>7, <2>8 DEF AcceptsEffort, sent
<1> QED
  BY <1>6, <1>7, <1>8

\* A lookup's finding is of the settings under which it may have been made.
Infos == [known : BOOLEAN, real : BOOLEAN, at : Epochs]
EffortPolicies == [mode : Ranks \cup {EffortAuto}, cache : [Keys -> Infos]]

\* What a policy remembers is no older than the policy, which is as old as the
\* settings it was made for.
PoliciesInv ==
    /\ epoch \in Epochs /\ policies \in Seq(EffortPolicies) /\ Len(policies) = epoch
    /\ \A i \in 1..epoch :
         /\ policies[i].mode = Setup[i].mode
         /\ \A k \in Keys : policies[i].cache[k].known => i <= policies[i].cache[k].at

Deciding == {"lookup", "probe", "store", "done"}

RequestTyped(r) ==
    /\ DOMAIN r = {"pc", "asks", "model", "of", "since", "policy", "mode", "found", "sent"}
    /\ r.pc \in {"start", "effort", "plain"} \cup Deciding
    /\ r.asks \in Modes /\ r.model \in Overrides
    /\ r.of \in Epochs /\ r.since \in Epochs /\ r.policy \in Epochs
    /\ r.mode \in Ranks \cup {EffortAuto} /\ r.found \in Infos /\ r.sent \in Ranks \cup {Omit}

\* A request decides by the policy of the settings it found in force, and what it
\* has found is no older than those.
RequestSound(r, now) ==
    /\ RequestTyped(r)
    /\ r.pc \in Deciding \cup {"effort"} => Setup[r.of].api # "messages"
    /\ r.pc \in Deciding =>
         /\ r.policy = r.since /\ r.since <= now
         /\ r.mode = IF r.asks = Default THEN Setup[r.since].mode ELSE r.asks
    /\ r.pc \in {"store", "done"} => r.since <= r.found.at
    /\ r.pc = "done" => r.sent = ResolveEffort(r.mode, Info(KeyOf(r), r.found))
    /\ r.pc # "done" => r.sent = Omit

EffortIInv ==
    /\ PoliciesInv
    /\ DOMAIN request = Requests /\ \A c \in Requests : RequestSound(request[c], epoch)

LEMMA EpochsAre == EffortAssumption => Epochs = 1..Len(Setup) /\ Len(Setup) \in Nat /\ 1 \in Epochs
<1> SUFFICES ASSUME EffortAssumption PROVE 1 \in Epochs
  BY DEF EffortAssumption
<1>1. Epochs # {}
  BY DEF EffortAssumption, Epochs
<1> QED
  BY <1>1 DEF EffortAssumption

LEMMA KeyIs ==
    ASSUME NEW r, r.of \in Epochs, r.model \in Overrides
    PROVE  KeyOf(r) \in Keys /\ KeyOf(r)[2] \in ModelNames
<1>1. Setup[r.of].url \in Urls /\ Setup[r.of].model \in ModelNames /\ r.model \in ModelNames
  BY DEF Urls, ModelNames
<1> QED
  BY <1>1 DEF KeyOf, Keys

LEMMA InfoIs ==
    ASSUME EffortAssumption, NEW found \in Infos, NEW key \in Keys
    PROVE  ModelInfo(Info(key, found))
<1>1. CASE found.real
  <2>1. found.at \in Epochs
    BY DEF Infos
  <2> DEFINE info == Advertised[found.at][key]
  <2>2. /\ info.default \in Ranks \cup {EffortAuto} /\ info.levels \in Seq(Ranks)
        /\ {info.supports, info.mandatory} \subseteq BOOLEAN
    BY <2>1 DEF EffortAssumption
  <2>3. Info(key, found) = info
    BY <1>1 DEF Info
  <2> HIDE DEF info
  <2> QED
    BY <2>2, <2>3 DEF ModelInfo
<1>2. CASE ~found.real
  <2> DEFINE info == GuessedInfo(key[2])
  <2>1. Info(key, found) = info
    BY <1>2 DEF Info
  <2>2. info.supports = (key[2] \in Guess) /\ info.mandatory = FALSE /\ info.levels = <<>>
        /\ info.default = IF key[2] \in Guess THEN EffortMedium ELSE EffortAuto
    BY DEF GuessedInfo
  <2> HIDE DEF info
  <2>3. info.supports \in BOOLEAN /\ info.mandatory \in BOOLEAN
    <3>1. info.supports = (key[2] \in Guess)
      BY <2>2
    <3>2. (key[2] \in Guess) \in BOOLEAN
      OBVIOUS
    <3>3. info.supports \in BOOLEAN
      BY <3>1, <3>2, Zenon
    <3> QED
      BY <2>2, <3>3
  <2>4. info.default \in Ranks \cup {EffortAuto}
    BY <2>2 DEF EffortMedium, Ranks
  <2>5. info.levels \in Seq(Ranks)
    BY <2>2
  <2> QED
    BY <2>1, <2>3, <2>4, <2>5 DEF ModelInfo
<1> QED
  BY <1>1, <1>2

\* A request whose new record is well formed keeps the invariant, if the policies do.
LEMMA SetKeeps ==
    ASSUME EffortIInv, NEW c \in Requests, NEW r, request' = [request EXCEPT ![c] = r], UNCHANGED epoch,
           PoliciesInv', RequestSound(r, epoch)
    PROVE  EffortIInv'
<1>1. /\ DOMAIN request' = Requests
      /\ \A d \in Requests : request'[d] = IF d = c THEN r ELSE request[d]
  BY DEF EffortIInv
<1>2. \A d \in Requests : RequestSound(request'[d], epoch)
  BY <1>1 DEF EffortIInv
<1>3. \A d \in Requests : RequestSound(request'[d], epoch')
  BY <1>2
<1> QED
  BY <1>1, <1>3 DEF EffortIInv

LEMMA PolicyNew ==
    ASSUME EffortAssumption, NEW e \in Epochs
    PROVE  /\ NewEffortPolicy(e) \in EffortPolicies /\ NewEffortPolicy(e).mode = Setup[e].mode
           /\ \A k \in Keys : NewEffortPolicy(e).cache[k].known = FALSE
<1>1. Unknown \in Infos /\ Unknown.known = FALSE
  BY EpochsAre DEF Unknown, Infos
<1>2. Setup[e].mode \in Ranks \cup {EffortAuto}
  BY DEF EffortAssumption
<1> QED
  BY <1>1, <1>2 DEF NewEffortPolicy, EffortPolicies

LEMMA EffortInitIInv == EffortAssumption /\ EffortInit => EffortIInv
<1> SUFFICES ASSUME EffortAssumption, EffortInit PROVE EffortIInv
  OBVIOUS
<1>1. 1 \in Epochs
  BY EpochsAre
<1>2. PoliciesInv
  <2>1. epoch = 1 /\ policies = <<NewEffortPolicy(1)>>
    BY DEF EffortInit
  <2>2. NewEffortPolicy(1) \in EffortPolicies
    BY <1>1, PolicyNew
  <2> DEFINE new == NewEffortPolicy(1)
  <2>3. policies = <<new>> /\ new \in EffortPolicies
    BY <2>1, <2>2
  <2>4. new.mode = Setup[1].mode /\ \A k \in Keys : new.cache[k].known = FALSE
    BY <1>1, PolicyNew
  <2> HIDE DEF new
  <2>5. policies \in Seq(EffortPolicies) /\ Len(policies) = 1 /\ policies[1] = new
    BY <2>3
  <2> QED
    BY <1>1, <2>1, <2>4, <2>5 DEF PoliciesInv
<1>3. ASSUME NEW c \in Requests PROVE RequestSound(request[c], epoch)
  <2>1. Unknown \in Infos
    BY <1>1 DEF Unknown, Infos
  <2> DEFINE r == request[c]
  <2>2. r \in [pc : {"start"}, asks : Modes, model : Overrides, of : {1}, since : {1},
               policy : {1}, mode : {EffortAuto}, found : {Unknown}, sent : {Omit}]
    BY DEF EffortInit
  <2> HIDE DEF r
  <2>3. RequestTyped(r) /\ r.pc = "start" /\ r.sent = Omit
    BY <1>1, <2>1, <2>2 DEF RequestTyped
  <2>4. RequestSound(r, epoch)
    BY <2>3 DEF RequestSound, Deciding
  <2> QED
    BY <2>4 DEF r
<1> QED
  BY <1>2, <1>3 DEF EffortInit, EffortIInv

LEMMA FinishIs ==
    ASSUME EffortAssumption, EffortIInv, NEW c \in Requests, NEW found \in Infos,
           request[c].pc \in Deciding, request[c].since <= found.at, Finish(c, found)
    PROVE  \E r : request' = [request EXCEPT ![c] = r] /\ RequestSound(r, epoch)
<1> DEFINE k == request[c]
           sent == ResolveEffort(k.mode, Info(KeyOf(k), found))
           r == [k EXCEPT !.pc = "done", !.found = found, !.sent = sent]
<1>1. request' = [request EXCEPT ![c] = r]
  BY DEF Finish
<1>2. RequestSound(k, epoch) /\ RequestTyped(k)
  BY DEF EffortIInv, RequestSound
<1>3. KeyOf(k) \in Keys
  BY <1>2, KeyIs DEF RequestTyped
<1>4. ModelInfo(Info(KeyOf(k), found))
  BY <1>3, InfoIs
<1>5. sent \in Ranks \cup {Omit}
  BY <1>2, <1>4, ResolvedFits DEF RequestTyped
<1> HIDE DEF sent
<1>6. /\ DOMAIN r = DOMAIN k /\ r.asks = k.asks /\ r.model = k.model /\ r.of = k.of /\ r.since = k.since
      /\ r.policy = k.policy /\ r.mode = k.mode
      /\ r.pc = "done" /\ r.sent = sent /\ r.found = found
  BY <1>2 DEF RequestTyped
<1> HIDE DEF r
<1>7. KeyOf(r) = KeyOf(k)
  BY <1>6 DEF KeyOf
<1>8. r.sent = ResolveEffort(r.mode, Info(KeyOf(r), r.found))
  BY <1>6, <1>7 DEF sent
<1>9. RequestTyped(r)
  BY <1>2, <1>5, <1>6 DEF RequestTyped, Deciding
<1>10. RequestSound(r, epoch)
  <2>1. k.pc \in Deciding /\ k.since <= found.at
    OBVIOUS
  <2> HIDE DEF k
  <2> QED
    BY <1>2, <1>6, <1>8, <1>9, <2>1 DEF RequestSound, Deciding
<1> QED
  BY <1>1, <1>10

\* A step that leaves the policies alone.
LEMMA PoliciesStay == PoliciesInv /\ UNCHANGED <<epoch, policies>> => PoliciesInv'
BY DEF PoliciesInv

LEMMA ChatKeeps ==
    ASSUME EffortAssumption, EffortIInv, NEW c \in Requests, Chat(c)
    PROVE  EffortIInv'
<1> DEFINE k == request[c]
<1>1. k.pc = "start" /\ RequestSound(k, epoch) /\ epoch \in Epochs /\ UNCHANGED <<epoch, policies>>
  BY DEF Chat, EffortIInv, PoliciesInv
<1>2. PoliciesInv'
  BY <1>1, PoliciesStay DEF EffortIInv
<1>3. PICK there \in {"plain", "effort"} :
        /\ request' = [request EXCEPT ![c].pc = there, ![c].of = epoch]
        /\ there = "effort" => Setup[epoch].api # "messages"
  BY DEF Chat, SendsNoEffort
<1> DEFINE r == [k EXCEPT !.pc = there, !.of = epoch]
<1>4. request' = [request EXCEPT ![c] = r]
  BY <1>3
<1>5. /\ DOMAIN r = DOMAIN k /\ r.asks = k.asks /\ r.model = k.model /\ r.of = epoch /\ r.since = k.since
      /\ r.policy = k.policy /\ r.mode = k.mode /\ r.pc = there /\ r.sent = k.sent /\ r.found = k.found
  BY <1>1 DEF RequestSound, RequestTyped
<1> HIDE DEF r, k
<1>6. RequestSound(r, epoch)
  BY <1>1, <1>3, <1>5 DEF RequestSound, RequestTyped, Deciding
<1> QED
  BY <1>1, <1>2, <1>4, <1>6, SetKeeps

LEMMA ApplyEffortKeeps ==
    ASSUME EffortAssumption, EffortIInv, NEW c \in Requests, ApplyEffort(c)
    PROVE  EffortIInv'
<1> DEFINE k == request[c]
           mode == IF k.asks = Default THEN policies[Len(policies)].mode ELSE k.asks
<1>1. k.pc = "effort" /\ RequestSound(k, epoch) /\ epoch \in Epochs /\ UNCHANGED <<epoch, policies>>
  BY DEF ApplyEffort, EffortIInv, PoliciesInv
<1>2. PoliciesInv'
  BY <1>1, PoliciesStay DEF EffortIInv
<1>3. Len(policies) = epoch /\ epoch \in 1..epoch /\ epoch \in Nat
  BY EpochsAre DEF EffortIInv, PoliciesInv
<1>4. mode = (IF k.asks = Default THEN Setup[epoch].mode ELSE k.asks)
  BY <1>3 DEF EffortIInv, PoliciesInv
<1>5. mode \in Ranks \cup {EffortAuto}
  BY <1>1, <1>4 DEF EffortAssumption, RequestSound, RequestTyped
<1>6. PICK there \in {"plain", "lookup"} :
        request' = [request EXCEPT ![c].pc = there, ![c].policy = Len(policies), ![c].since = epoch,
                                   ![c].mode = mode]
  BY DEF ApplyEffort
<1> DEFINE r == [k EXCEPT !.pc = there, !.policy = Len(policies), !.since = epoch, !.mode = mode]
<1>7. request' = [request EXCEPT ![c] = r]
  BY <1>6
<1> HIDE DEF mode
<1>8. /\ DOMAIN r = DOMAIN k /\ r.asks = k.asks /\ r.model = k.model /\ r.of = k.of /\ r.since = epoch
      /\ r.policy = epoch /\ r.mode = mode /\ r.pc = there /\ r.sent = k.sent /\ r.found = k.found
  BY <1>1, <1>3 DEF RequestSound, RequestTyped
<1> HIDE DEF r, k
<1>9. RequestTyped(r)
  BY <1>1, <1>5, <1>8 DEF RequestSound, RequestTyped, Deciding
<1>10. r.mode = IF r.asks = Default THEN Setup[r.since].mode ELSE r.asks
  BY <1>4, <1>8
<1>11. RequestSound(r, epoch)
  BY <1>1, <1>3, <1>8, <1>9, <1>10 DEF RequestSound, Deciding
<1> QED
  BY <1>1, <1>2, <1>7, <1>11, SetKeeps

LEMMA LookupKeeps ==
    ASSUME EffortAssumption, EffortIInv, NEW c \in Requests, EffortLookup(c)
    PROVE  EffortIInv'
<1> DEFINE k == request[c]
           cached == policies[k.policy].cache[KeyOf(k)]
<1>1. k.pc = "lookup" /\ RequestSound(k, epoch) /\ UNCHANGED <<epoch, policies>>
  BY DEF EffortLookup, EffortIInv
<1>2. PoliciesInv'
  BY <1>1, PoliciesStay DEF EffortIInv
<1>3. KeyOf(k) \in Keys /\ k.policy = k.since /\ k.policy \in 1..epoch /\ k.policy \in DOMAIN policies
  <2>1. KeyOf(k) \in Keys /\ k.policy \in Epochs /\ k.policy = k.since /\ k.since <= epoch
    BY <1>1, KeyIs DEF RequestSound, RequestTyped, Deciding
  <2>2. epoch \in Epochs /\ Len(policies) = epoch /\ policies \in Seq(EffortPolicies)
    BY DEF EffortIInv, PoliciesInv
  <2>3. k.policy \in 1..epoch
    BY <2>1, <2>2, EpochsAre
  <2> QED
    BY <2>1, <2>2, <2>3
<1>4. cached \in Infos /\ (cached.known => k.since <= cached.at)
  <2>1. policies[k.policy] \in EffortPolicies
    BY <1>3 DEF EffortIInv, PoliciesInv
  <2> QED
    BY <1>3, <2>1 DEF EffortIInv, PoliciesInv, EffortPolicies
<1>5. CASE cached.known /\ Finish(c, cached)
  <2>1. k.pc \in Deciding
    BY <1>1 DEF Deciding
  <2> HIDE DEF cached
  <2>2. PICK r : request' = [request EXCEPT ![c] = r] /\ RequestSound(r, epoch)
    BY <1>4, <1>5, <2>1, FinishIs
  <2> QED
    BY <1>1, <1>2, <2>2, SetKeeps
<1>6. CASE request' = [request EXCEPT ![c].pc = "probe"]
  <2> DEFINE r == [k EXCEPT !.pc = "probe"]
  <2>1. request' = [request EXCEPT ![c] = r]
    BY <1>6
  <2>2. /\ DOMAIN r = DOMAIN k /\ r.asks = k.asks /\ r.model = k.model /\ r.of = k.of /\ r.since = k.since
        /\ r.policy = k.policy /\ r.mode = k.mode /\ r.pc = "probe" /\ r.sent = k.sent /\ r.found = k.found
    BY <1>1 DEF RequestSound, RequestTyped
  <2> HIDE DEF r, k
  <2>3. RequestSound(r, epoch)
    BY <1>1, <2>2 DEF RequestSound, RequestTyped, Deciding
  <2> QED
    BY <1>1, <1>2, <2>1, <2>3, SetKeeps
<1> QED
  BY <1>5, <1>6 DEF EffortLookup

LEMMA ProbeKeeps ==
    ASSUME EffortAssumption, EffortIInv, NEW c \in Requests, Probe(c)
    PROVE  EffortIInv'
<1> DEFINE k == request[c]
<1>1. k.pc = "probe" /\ RequestSound(k, epoch) /\ epoch \in Epochs /\ UNCHANGED <<epoch, policies>>
  BY DEF Probe, EffortIInv, PoliciesInv
<1>2. PoliciesInv'
  BY <1>1, PoliciesStay DEF EffortIInv
<1>3. PICK real \in BOOLEAN : request' = [request EXCEPT ![c].pc = "store", ![c].found = Found(real)]
  BY DEF Probe
<1>4. Found(real) \in Infos /\ Found(real).at = epoch
  BY <1>1 DEF Found, Infos
<1> DEFINE r == [k EXCEPT !.pc = "store", !.found = Found(real)]
<1>5. request' = [request EXCEPT ![c] = r]
  BY <1>3
<1>6. /\ DOMAIN r = DOMAIN k /\ r.asks = k.asks /\ r.model = k.model /\ r.of = k.of /\ r.since = k.since
      /\ r.policy = k.policy /\ r.mode = k.mode /\ r.pc = "store" /\ r.sent = k.sent /\ r.found = Found(real)
  BY <1>1 DEF RequestSound, RequestTyped
<1> HIDE DEF r, k
<1>7. RequestSound(r, epoch)
  BY <1>1, <1>4, <1>6 DEF RequestSound, RequestTyped, Deciding
<1> QED
  BY <1>1, <1>2, <1>5, <1>7, SetKeeps

\* What a request stores in a policy is no older than the policy.
LEMMA StoreKeepsPolicies ==
    ASSUME EffortAssumption, PoliciesInv, NEW i \in 1..epoch, NEW key \in Keys, NEW found \in Infos,
           i <= found.at, policies' = [policies EXCEPT ![i].cache[key] = found], UNCHANGED epoch
    PROVE  PoliciesInv'
<1> DEFINE old == policies[i]
           new == [old EXCEPT !.cache[key] = found]
<1>1. i \in DOMAIN policies /\ old \in EffortPolicies /\ DOMAIN policies = 1..epoch
  BY LenProperties DEF PoliciesInv
<1>2. new \in EffortPolicies /\ new.mode = old.mode
      /\ \A k \in Keys : new.cache[k] = IF k = key THEN found ELSE old.cache[k]
  BY <1>1 DEF EffortPolicies
<1>3. policies' = [policies EXCEPT ![i] = new]
  BY DEF new
<1> HIDE DEF new, old
<1>4. /\ policies' \in Seq(EffortPolicies) /\ Len(policies') = Len(policies)
      /\ \A j \in 1..epoch : policies'[j] = IF j = i THEN new ELSE policies[j]
  <2>1. policies \in Seq(EffortPolicies)
    BY DEF PoliciesInv
  <2>2. policies \in [1..epoch -> EffortPolicies] /\ epoch \in Nat
    BY <2>1, EpochsAre DEF PoliciesInv
  <2>3. /\ policies' \in [1..epoch -> EffortPolicies]
        /\ \A j \in 1..epoch : policies'[j] = IF j = i THEN new ELSE policies[j]
    BY <1>2, <1>3, <2>2
  <2>4. policies' \in Seq(EffortPolicies) /\ Len(policies') = epoch
    BY <2>2, <2>3
  <2> QED
    BY <2>3, <2>4 DEF PoliciesInv
<1>5. ASSUME NEW j \in 1..epoch
      PROVE  /\ policies'[j].mode = Setup[j].mode
             /\ \A k \in Keys : policies'[j].cache[k].known => j <= policies'[j].cache[k].at
  <2>1. CASE j = i
    BY <1>2, <1>4, <2>1 DEF PoliciesInv, old
  <2>2. CASE j # i
    BY <1>4, <2>2 DEF PoliciesInv
  <2> QED
    BY <2>1, <2>2
<1> QED
  BY <1>4, <1>5 DEF PoliciesInv

LEMMA StoreInfoKeeps ==
    ASSUME EffortAssumption, EffortIInv, NEW c \in Requests, StoreInfo(c)
    PROVE  EffortIInv'
<1> DEFINE k == request[c]
<1>1. /\ k.pc = "store" /\ RequestSound(k, epoch) /\ epoch' = epoch /\ Finish(c, k.found)
      /\ policies' = [policies EXCEPT ![k.policy].cache[KeyOf(k)] = k.found]
  BY DEF StoreInfo, EffortIInv
<1>2. KeyOf(k) \in Keys /\ k.found \in Infos /\ k.since <= k.found.at /\ k.policy = k.since /\ k.policy \in 1..epoch
  <2>1. k.policy \in Epochs /\ k.policy = k.since /\ k.since <= epoch /\ k.found \in Infos /\ k.since <= k.found.at
    BY <1>1 DEF RequestSound, RequestTyped, Deciding
  <2>2. KeyOf(k) \in Keys
    BY <1>1, KeyIs DEF RequestSound, RequestTyped
  <2>3. epoch \in Epochs
    BY DEF EffortIInv, PoliciesInv
  <2> QED
    BY <2>1, <2>2, <2>3, EpochsAre
<1>3. PoliciesInv'
  BY <1>1, <1>2, StoreKeepsPolicies DEF EffortIInv
<1>4. k.pc \in Deciding
  BY <1>1 DEF Deciding
<1>5. PICK r : request' = [request EXCEPT ![c] = r] /\ RequestSound(r, epoch)
  BY <1>1, <1>2, <1>4, FinishIs
<1> QED
  BY <1>1, <1>3, <1>5, SetKeeps

LEMMA EffortReloadKeeps ==
    ASSUME EffortAssumption, EffortIInv, EffortReload
    PROVE  EffortIInv'
<1> DEFINE new == NewEffortPolicy(epoch + 1)
<1>1. epoch + 1 \in Epochs /\ epoch' = epoch + 1 /\ request' = request /\ policies' = Append(policies, new)
  BY DEF EffortReload, Renewed
<1>2. new \in EffortPolicies /\ new.mode = Setup[epoch + 1].mode /\ \A k \in Keys : new.cache[k].known = FALSE
  BY <1>1, PolicyNew
<1> HIDE DEF new
<1>3. policies \in Seq(EffortPolicies) /\ Len(policies) = epoch /\ epoch \in Nat
  BY EpochsAre DEF EffortIInv, PoliciesInv
<1>4. /\ policies' \in Seq(EffortPolicies) /\ Len(policies') = epoch + 1
      /\ \A i \in 1..epoch : policies'[i] = policies[i]
      /\ policies'[epoch + 1] = new
  BY <1>1, <1>2, <1>3
<1>5. PoliciesInv'
  <2>1. \A i \in 1..(epoch + 1) : i \in 1..epoch \/ i = epoch + 1
    BY <1>3
  <2>2. ASSUME NEW i \in 1..(epoch + 1)
        PROVE  /\ policies'[i].mode = Setup[i].mode
               /\ \A k \in Keys : policies'[i].cache[k].known => i <= policies'[i].cache[k].at
    <3>1. CASE i \in 1..epoch
      BY <1>4, <3>1 DEF EffortIInv, PoliciesInv
    <3>2. CASE i = epoch + 1
      BY <1>2, <1>4, <3>2
    <3> QED
      BY <2>1, <3>1, <3>2
  <2> QED
    BY <1>1, <1>4, <2>2 DEF PoliciesInv
<1>6. ASSUME NEW c \in Requests PROVE RequestSound(request[c], epoch + 1)
  <2> DEFINE r == request[c]
  <2>1. RequestSound(r, epoch)
    BY DEF EffortIInv
  <2> HIDE DEF r
  <2>2. r.since \in Epochs /\ (r.since <= epoch => r.since <= epoch + 1)
    BY <1>3, <2>1, EpochsAre DEF RequestSound, RequestTyped
  <2>3. RequestSound(r, epoch + 1)
    BY <2>1, <2>2 DEF RequestSound
  <2> QED
    BY <2>3 DEF r
<1> QED
  BY <1>1, <1>5, <1>6 DEF EffortIInv

LEMMA EffortStepIInv == EffortAssumption /\ EffortIInv /\ [EffortNext]_effortVars => EffortIInv'
<1> SUFFICES ASSUME EffortAssumption, EffortIInv, [EffortNext]_effortVars PROVE EffortIInv'
  OBVIOUS
<1>1. CASE UNCHANGED effortVars
  <2>1. UNCHANGED <<epoch, policies>> /\ request' = request
    BY <1>1 DEF effortVars
  <2>2. \A c \in Requests : RequestSound(request'[c], epoch')
    BY <2>1 DEF EffortIInv
  <2> QED
    BY <2>1, <2>2, PoliciesStay DEF EffortIInv
<1> QED
  BY <1>1, EffortReloadKeeps, ChatKeeps, ApplyEffortKeeps, LookupKeeps, ProbeKeeps, StoreInfoKeeps DEF EffortNext

LEMMA EffortSafe == EffortAssumption /\ EffortIInv => EffortFits
<1> SUFFICES ASSUME EffortAssumption, EffortIInv, NEW c \in Requests
             PROVE  LET r == request[c]
                        mode == IF r.asks = Default THEN Setup[r.since].mode ELSE r.asks
                    IN /\ r.pc = "done" =>
                            /\ Setup[r.of].api # "messages"
                            /\ r.since <= r.found.at /\ AcceptsEffort(Info(KeyOf(r), r.found), mode, r.sent)
                       /\ r.pc = "plain" => r.sent = Omit
  BY DEF EffortFits
<1> DEFINE r == request[c]
<1>1. RequestSound(r, epoch) /\ RequestTyped(r)
  BY DEF EffortIInv, RequestSound
<1> HIDE DEF r
<1>2. ModelInfo(Info(KeyOf(r), r.found)) /\ r.mode \in Ranks \cup {EffortAuto}
  BY <1>1, KeyIs, InfoIs DEF RequestTyped
<1>3. AcceptsEffort(Info(KeyOf(r), r.found), r.mode, ResolveEffort(r.mode, Info(KeyOf(r), r.found)))
  BY <1>2, ResolvedFits
<1>4. r.pc = "done" => /\ Setup[r.of].api # "messages" /\ r.since <= r.found.at
                       /\ r.sent = ResolveEffort(r.mode, Info(KeyOf(r), r.found))
                       /\ r.mode = IF r.asks = Default THEN Setup[r.since].mode ELSE r.asks
  BY <1>1 DEF RequestSound, Deciding
<1>5. r.pc = "plain" => r.sent = Omit
  BY <1>1 DEF RequestSound
<1> QED
  BY <1>3, <1>4, <1>5 DEF r

\* The invariant of requests and of the client's policies holds throughout.
THEOREM EffortInductive == ASSUME EffortAssumption PROVE EffortSpec => []EffortIInv
BY EffortInitIInv, EffortStepIInv, PTL DEF EffortSpec

\* The types of the settings, the policies and the requests are kept by every step.
THEOREM EffortTypeCorrect == ASSUME EffortAssumption PROVE EffortSpec => []EffortTypeOK
<1>1. EffortAssumption /\ EffortIInv => EffortTypeOK
  <2> SUFFICES ASSUME EffortAssumption, EffortIInv PROVE EffortTypeOK
    OBVIOUS
  <2>1. epoch \in Epochs /\ Len(policies) \in 1..epoch
    BY EpochsAre DEF EffortIInv, PoliciesInv
  <2>2. \A c \in Requests : RequestTyped(request[c])
    BY DEF EffortIInv, RequestSound
  <2> QED
    BY <2>1, <2>2 DEF EffortTypeOK, RequestTyped, Deciding
<1> QED
  BY <1>1, EffortInductive, PTL

\* For whatever providers advertise, and any interleaving of requests with reloads of
\* the settings: a request is sent the effort that its mode asks for where the model
\* has it, else the nearest level, and none where there is none, by an answer no older
\* than the settings that decided it (applyEffort, EffortPolicy.lookup, Client.Reload).
THEOREM SentEffortFits == ASSUME EffortAssumption PROVE EffortSpec => []EffortFits
BY EffortSafe, EffortInductive, PTL

-----------------------------------------------------------------------------
(* Accounts *)

LoginSteps == {"start", "refused", "auth", "denied", "purge", "insert",
          "not_created", "count", "trim", "ok", "error"}
Unstamped == {"start", "refused", "auth", "denied", "purge"}
Stamped == {l \in Logins : login[l] \notin Unstamped}

\* A session is of a login that inserted it; expiry ends it; every login that got
\* a time got one of its own, and no time is later than there are such logins.
Rowed ==
    /\ sessions \subseteq Inserted /\ expired \subseteq gone /\ gone \subseteq Logins
    /\ excess \in [Logins -> Nat] /\ login \in [Logins -> LoginSteps] /\ stamp \in [Logins -> Nat]
    /\ overlapped \in BOOLEAN
    /\ \A l \in Logins : stamp[l] <= Cardinality(Stamped)
    /\ \A l, k \in Stamped : stamp[l] = stamp[k] => l = k

Counted ==
    /\ userHits \in Nat /\ ipHits \in Nat /\ windows \in 0..MaxWindows /\ rushed \in BOOLEAN

\* Attempts one after the other are compared with what the earlier ones left.
OneAttempt ==
    rushed \/ /\ \A l, k \in Attempting : l = k
              /\ Attempting # {} => Allowed
              /\ userHits <= UserMax /\ ipHits <= IPMax

\* Without overlap one login at a time works on the sessions, and the rows it
\* counted are still there when it deletes the oldest.
OneCreating ==
    overlapped \/ /\ \A l, k \in Creating : l = k
                  /\ \A l \in Trimming : Cardinality(sessions) = MaxSessionsPerUser + excess[l]

\* Too many rows, when no statement failed, are still to be counted by some login
\* or to be deleted by one that counted them all.
Capped ==
    \/ \E l \in Logins : LoginAt(l, "error")
    \/ Cardinality(sessions) <= MaxSessionsPerUser
    \/ \E l \in Logins : LoginAt(l, "count")
    \/ \E l \in Trimming : Cardinality(sessions) <= MaxSessionsPerUser + excess[l]

Newer(l) == {k \in Inserted : stamp[k] > stamp[l]}

Kept ==
    overlapped \/ \A l \in Inserted \ gone :
                     l \in sessions \/ Cardinality(Newer(l)) >= MaxSessionsPerUser

AccountsIInv == Rowed /\ Counted /\ OneAttempt /\ OneCreating /\ Capped /\ Kept

\* Every number up to some bound of a set of times has a largest one below it.
LEMMA NewestIs ==
    ASSUME Rowed, AccountsAssumption, NEW x \in Logins
    PROVE  Newest \in Nat /\ (\A l \in Logins : stamp[l] <= Newest) /\ \E l \in Logins : stamp[l] = Newest
<1> DEFINE Bounds == {n \in Nat : \A l \in Logins : stamp[l] <= n}
           Less == {ss \in Nat \X Nat : ss[1] < ss[2]}
<1>1. Cardinality(Stamped) \in Nat
  BY FS_Subset, FS_CardinalityType DEF Stamped, AccountsAssumption
<1>2. Cardinality(Stamped) \in Bounds
  BY <1>1 DEF Rowed
<1>3. OpToRel(<, Nat) = Less
  BY DEF OpToRel
<1>4. PICK n \in Bounds : \A y \in Bounds : ~ (<<y, n>> \in Less)
  <2>1. Bounds \in SUBSET Nat /\ Bounds # {}
    BY <1>2
  <2> HIDE DEF Bounds
  <2> QED
    BY <1>3, <2>1, NatLessThanWellFounded, WFMin
<1>5. \E l \in Logins : stamp[l] = n
  <2> SUFFICES ASSUME \A l \in Logins : stamp[l] # n PROVE FALSE
    OBVIOUS
  <2>1. \A l \in Logins : stamp[l] \in Nat /\ stamp[l] <= n - 1
    BY <1>4 DEF Rowed
  <2>2. n - 1 \in Nat
    BY <2>1, <1>4
  <2>3. n - 1 \in Bounds
    BY <2>1, <2>2
  <2>4. <<n - 1, n>> \in Less
    BY <1>4, <2>2
  <2> QED
    BY <1>4, <2>3, <2>4
<1>6. n \in {stamp[l] : l \in Logins} /\ \A l \in Logins : stamp[l] <= n
  BY <1>4, <1>5
<1>7. Newest \in {stamp[l] : l \in Logins} /\ \A l \in Logins : stamp[l] <= Newest
  BY <1>6 DEF Newest
<1> QED
  BY <1>7 DEF Rowed

\* Deleting the n oldest rows leaves at most the others: the oldest that is left
\* has n older ones that are not.
LEMMA OldestGo ==
    ASSUME Rowed, AccountsAssumption, NEW n \in Nat
    PROVE  /\ IsFiniteSet(sessions)
           /\ \/ sessions \ Oldest(n) = {}
              \/ Cardinality(sessions \ Oldest(n)) + n <= Cardinality(sessions)
<1> DEFINE rest == sessions \ Oldest(n)
           Less == {ss \in Nat \X Nat : ss[1] < ss[2]}
           times == {stamp[l] : l \in rest}
<1>1. IsFiniteSet(sessions) /\ \A l \in sessions : stamp[l] \in Nat
  BY FS_Subset DEF Rowed, Inserted, AccountsAssumption
<1>2. SUFFICES ASSUME rest # {} PROVE Cardinality(rest) + n <= Cardinality(sessions)
  BY <1>1
<1>3. times \in SUBSET Nat /\ times # {}
  BY <1>1, <1>2
<1>4. PICK t \in times : \A y \in times : ~ (<<y, t>> \in Less)
  <2>1. OpToRel(<, Nat) = Less
    BY DEF OpToRel
  <2> QED
    BY <1>3, <2>1, NatLessThanWellFounded, WFMin
<1>5. PICK m \in rest : stamp[m] = t
  BY <1>4
<1> DEFINE older == {k \in sessions : stamp[k] < stamp[m]}
<1>6. older \cap rest = {}
  BY <1>1, <1>3, <1>4, <1>5
<1>7. IsFiniteSet(older) /\ IsFiniteSet(rest) /\ Cardinality(older) \in Nat /\ Cardinality(rest) \in Nat
  BY <1>1, FS_Subset, FS_CardinalityType
<1>8. ~(Cardinality(older) < n)
  BY <1>5 DEF Oldest
<1>9. Cardinality(older \cup rest) = Cardinality(older) + Cardinality(rest)
  BY <1>6, <1>7, FS_Union, FS_EmptySet
<1>10. Cardinality(older \cup rest) <= Cardinality(sessions) /\ Cardinality(sessions) \in Nat
  BY <1>1, FS_Subset, FS_CardinalityType
<1> QED
  BY <1>7, <1>8, <1>9, <1>10

\* Of Max + e rows, one of the e oldest has Max newer ones.
LEMMA OldestHaveNewer ==
    ASSUME Rowed, AccountsAssumption, NEW e \in Nat, NEW k \in Oldest(e),
           Cardinality(sessions) = MaxSessionsPerUser + e
    PROVE  Cardinality(Newer(k)) >= MaxSessionsPerUser
<1> DEFINE older == {j \in sessions : stamp[j] < stamp[k]}
           newer == {j \in sessions : stamp[j] > stamp[k]}
<1>1. k \in sessions /\ Cardinality(older) < e
  BY DEF Oldest
<1>2. IsFiniteSet(sessions) /\ IsFiniteSet(Inserted) /\ sessions \subseteq Inserted
        /\ \A l \in sessions : stamp[l] \in Nat
  BY FS_Subset DEF Rowed, Inserted, AccountsAssumption
<1>3. \A j \in sessions : stamp[j] = stamp[k] => j = k
  BY <1>1 DEF Rowed, Inserted, Stamped, Unstamped
<1>4. sessions = (older \cup {k}) \cup newer
  BY <1>1, <1>2, <1>3
<1>5. IsFiniteSet(older) /\ IsFiniteSet(newer) /\ Cardinality(older) \in Nat /\ Cardinality(newer) \in Nat
  BY <1>2, FS_Subset, FS_CardinalityType
<1>6. IsFiniteSet(older \cup {k}) /\ Cardinality(older \cup {k}) <= Cardinality(older) + 1
        /\ Cardinality(older \cup {k}) \in Nat
  <2> HIDE DEF older, newer
  <2>1. /\ IsFiniteSet(older \cup {k})
        /\ Cardinality(older \cup {k}) = IF k \in older THEN Cardinality(older) ELSE Cardinality(older) + 1
    BY <1>5, FS_AddElement
  <2> QED
    BY <1>5, <2>1
<1>7. Cardinality(sessions) <= Cardinality(older \cup {k}) + Cardinality(newer)
  <2>1. Cardinality((older \cup {k}) \cap newer) \in Nat
    BY <1>5, FS_Intersection, FS_CardinalityType
  <2>2. Cardinality((older \cup {k}) \cup newer)
          = Cardinality(older \cup {k}) + Cardinality(newer) - Cardinality((older \cup {k}) \cap newer)
    BY <1>5, <1>6, FS_Union
  <2> HIDE DEF older, newer
  <2> QED
    BY <1>4, <1>5, <1>6, <2>1, <2>2
<1>8. MaxSessionsPerUser \in Nat /\ Cardinality(newer) >= MaxSessionsPerUser
  BY <1>1, <1>5, <1>6, <1>7 DEF AccountsAssumption
<1>9. newer \subseteq Newer(k) /\ IsFiniteSet(Newer(k))
  BY <1>2, FS_Subset DEF Newer
<1>10. Cardinality(newer) <= Cardinality(Newer(k)) /\ Cardinality(Newer(k)) \in Nat
  BY <1>9, FS_Subset, FS_CardinalityType
<1> QED
  BY <1>5, <1>8, <1>10

(* LoginSteps. *)

\* What a login's step does to where the logins are.
LEMMA LoginMoves ==
    ASSUME login \in [Logins -> LoginSteps], NEW l \in Logins, NEW to \in LoginSteps, LoginGoes(l, to)
    PROVE  /\ login' \in [Logins -> LoginSteps] /\ login'[l] = to
           /\ \A k \in Logins : k # l => login'[k] = login[k]
BY DEF LoginGoes

LEMMA AccountsInitIInv == AccountsAssumption /\ AccountsInit => AccountsIInv
<1> SUFFICES ASSUME AccountsAssumption, AccountsInit PROVE AccountsIInv
  OBVIOUS
<1>1. Stamped = {} /\ Inserted = {} /\ Creating = {} /\ Attempting = {} /\ Trimming = {}
  BY DEF AccountsInit, Stamped, Unstamped, Inserted, Creating, Attempting, Trimming, LoginAt
<1>2. Cardinality({}) = 0
  BY FS_EmptySet
<1>3. Rowed
  <2>1. stamp \in [Logins -> Nat] /\ excess \in [Logins -> Nat] /\ login \in [Logins -> LoginSteps]
    BY DEF AccountsInit, LoginSteps
  <2>2. \A l \in Logins : stamp[l] <= Cardinality(Stamped)
    BY <1>1, <1>2 DEF AccountsInit
  <2> QED
    BY <1>1, <2>1, <2>2 DEF AccountsInit, Rowed
<1>4. Counted /\ OneAttempt
  <2>1. Counted
    <3>1. userHits \in Nat /\ ipHits \in Nat /\ windows \in 0..MaxWindows
      BY DEF AccountsInit, AccountsAssumption
    <3>2. rushed \in BOOLEAN
      BY DEF AccountsInit
    <3> QED
      BY <3>1, <3>2 DEF Counted
  <2>2. OneAttempt
    BY <1>1 DEF AccountsInit, OneAttempt, AccountsAssumption
  <2> QED
    BY <2>1, <2>2
<1>5. OneCreating /\ Kept
  BY <1>1 DEF AccountsInit, OneCreating, Kept
<1>6. Capped
  BY <1>2 DEF AccountsInit, Capped, AccountsAssumption
<1> QED
  BY <1>3, <1>4, <1>5, <1>6 DEF AccountsIInv

\* The limiter's steps.
LEMMA LimiterStep ==
    ASSUME AccountsAssumption, Rowed, Counted, OneAttempt, NEW l \in Logins,
           WindowPasses \/ Allow(l) \/ Authenticate(l)
    PROVE  Counted' /\ OneAttempt'
<1> USE DEF AccountsAssumption
<1>0. login \in [Logins -> LoginSteps]
  BY DEF Rowed
<1>1. CASE WindowPasses
  BY <1>1 DEF WindowPasses, Counted, OneAttempt, Attempting, LoginAt, Allowed
<1>2. CASE Allow(l)
  <2>1. CASE Allowed
    <3>1. LoginGoes(l, "auth") /\ rushed' = (rushed \/ Attempting # {}) /\ UNCHANGED <<userHits, ipHits, windows>>
      BY <1>2, <2>1 DEF Allow
    <3>2. login'[l] = "auth" /\ \A k \in Logins : k # l => login'[k] = login[k]
      BY <1>0, <3>1, LoginMoves DEF LoginSteps
    <3>3. Attempting' = Attempting \cup {l}
      BY <3>2 DEF Attempting, LoginAt
    <3> QED
      BY <2>1, <3>1, <3>3 DEF Counted, OneAttempt, Allowed
  <2>2. CASE ~Allowed
    <3>1. LoginGoes(l, "refused") /\ LoginAt(l, "start") /\ rushed' = rushed
            /\ UNCHANGED <<userHits, ipHits, windows>>
      BY <1>2, <2>2 DEF Allow, Counted
    <3>2. login'[l] = "refused" /\ \A k \in Logins : k # l => login'[k] = login[k]
      BY <1>0, <3>1, LoginMoves DEF LoginSteps
    <3>3. Attempting' = Attempting
      BY <3>1, <3>2 DEF Attempting, LoginAt
    <3> QED
      BY <3>1, <3>3 DEF Counted, OneAttempt, Allowed
  <2> QED
    BY <2>1, <2>2
<1>3. CASE Authenticate(l)
  <2>1. PICK to \in {"denied", "purge"} : LoginGoes(l, to)
    BY <1>3 DEF Authenticate
  <2>2. login'[l] = to /\ \A k \in Logins : k # l => login'[k] = login[k]
    BY <1>0, <2>1, LoginMoves DEF LoginSteps
  <2>3. Attempting' = Attempting \ {l} /\ l \in Attempting
    BY <1>3, <2>2 DEF Attempting, Authenticate, LoginAt
  <2>4. /\ \/ userHits' = userHits + 1 /\ ipHits' = ipHits + 1
           \/ userHits' = 0 /\ ipHits' = ipHits
        /\ rushed' = rushed /\ windows' = windows
    BY <1>3 DEF Authenticate
  <2>5. Counted'
    BY <2>4 DEF Counted
  <2>6. CASE rushed
    BY <2>4, <2>5, <2>6 DEF OneAttempt
  <2>7. CASE ~rushed
    <3>1. Attempting' = {}
      BY <2>3, <2>7 DEF OneAttempt
    <3>2. userHits' <= UserMax /\ ipHits' <= IPMax
      BY <2>3, <2>4, <2>7 DEF OneAttempt, Counted, Allowed
    <3> QED
      BY <2>5, <3>1, <3>2 DEF OneAttempt
  <2> QED
    BY <2>5, <2>6, <2>7
<1> QED
  BY <1>1, <1>2, <1>3

\* LoginSteps that leave the sessions, and the logins that work on them, alone.
LEMMA RowsRest ==
    ASSUME AccountsAssumption, AccountsIInv, UNCHANGED Rows, login' \in [Logins -> LoginSteps],
           \A k \in Logins : login'[k] = login[k] \/ login[k] \in {"start", "auth"},
           \A k \in Logins : login'[k] = login[k] \/ login'[k] \in {"refused", "auth", "denied", "purge"}
    PROVE  Rowed' /\ OneCreating' /\ Capped' /\ Kept'
<1>1. Stamped' = Stamped /\ Inserted' = Inserted /\ Creating' = Creating /\ Trimming' = Trimming
        /\ Cardinality(Stamped)' = Cardinality(Stamped)
  BY DEF Stamped, Unstamped, Inserted, Creating, Trimming, LoginAt
<1>2. Rowed'
  BY <1>1 DEF AccountsIInv, Rowed, Rows
<1>3. OneCreating'
  BY <1>1 DEF AccountsIInv, OneCreating, Rows
<1>4. Capped'
  BY <1>1 DEF AccountsIInv, Capped, Rows, LoginAt
<1>5. Kept'
  BY <1>1 DEF AccountsIInv, Kept, Rows, Newer
<1> QED
  BY <1>2, <1>3, <1>4, <1>5

\* LoginSteps of the rows leave the limiter alone, and take no login to or from it.
LEMMA LimiterRests ==
    ASSUME Counted, OneAttempt, UNCHANGED Limiter,
           \A k \in Logins : login'[k] = "auth" <=> login[k] = "auth"
    PROVE  Counted' /\ OneAttempt'
<1>1. Attempting' = Attempting
  BY DEF Attempting, LoginAt
<1> QED
  BY <1>1 DEF Limiter, Counted, OneAttempt, Allowed
\* The purge takes expired rows only, and the login gets a time after all others.
LEMMA PurgeKeeps ==
    ASSUME AccountsAssumption, AccountsIInv, NEW l \in Logins, PurgeExpiredSessions(l)
    PROVE  AccountsIInv'
<1>1. /\ login[l] = "purge" /\ LoginGoes(l, "insert")
      /\ sessions' \subseteq sessions /\ sessions \ expired \subseteq sessions'
      /\ stamp' = [stamp EXCEPT ![l] = Newest + 1]
      /\ overlapped' = (overlapped \/ Creating # {})
      /\ UNCHANGED <<excess, expired, gone, Limiter>>
  BY DEF PurgeExpiredSessions, LoginAt
<1>2. /\ login' \in [Logins -> LoginSteps] /\ login'[l] = "insert"
      /\ \A k \in Logins : k # l => login'[k] = login[k]
  BY <1>1, LoginMoves DEF AccountsIInv, Rowed, LoginSteps
<1>3. Counted' /\ OneAttempt'
  BY <1>1, <1>2, LimiterRests DEF AccountsIInv
<1>4. /\ Newest \in Nat /\ \A k \in Logins : stamp[k] <= Newest
      /\ Newest <= Cardinality(Stamped)
  BY NewestIs DEF AccountsIInv, Rowed
<1>5. /\ stamp' \in [Logins -> Nat] /\ stamp'[l] = Newest + 1
      /\ \A k \in Logins : k # l => stamp'[k] = stamp[k]
  BY <1>1, <1>4 DEF AccountsIInv, Rowed
<1>6. Stamped' = Stamped \cup {l} /\ l \notin Stamped
  BY <1>1, <1>2 DEF Stamped, Unstamped
<1>7. Inserted' = Inserted /\ l \notin Inserted
  BY <1>1, <1>2 DEF Inserted
<1>8. Creating' = Creating \cup {l} /\ Trimming' = Trimming /\ Trimming \subseteq Creating
  BY <1>1, <1>2 DEF Creating, Trimming, LoginAt
<1>9. /\ Cardinality(Stamped) \in Nat /\ Cardinality(Stamped') = Cardinality(Stamped) + 1
      /\ IsFiniteSet(sessions) /\ Cardinality(sessions') <= Cardinality(sessions)
      /\ Cardinality(sessions) \in Nat /\ Cardinality(sessions') \in Nat
  <2>1. IsFiniteSet(Stamped) /\ IsFiniteSet(sessions)
    BY FS_Subset DEF Stamped, Inserted, AccountsIInv, Rowed, AccountsAssumption
  <2>2. Cardinality(Stamped \cup {l}) = Cardinality(Stamped) + 1
    BY <1>6, <2>1, FS_AddElement
  <2> QED
    BY <1>1, <1>6, <2>1, <2>2, FS_Subset, FS_CardinalityType
<1>10. Rowed'
  <2>1. \A k \in Logins : stamp'[k] <= Cardinality(Stamped')
    BY <1>4, <1>5, <1>9
  <2>2. \A j, k \in Stamped' : stamp'[j] = stamp'[k] => j = k
    <3>1. \A k \in Stamped : k \in Logins /\ k # l /\ stamp'[k] = stamp[k] /\ stamp[k] <= Newest /\ stamp[k] \in Nat
      BY <1>4, <1>5, <1>6 DEF Stamped, AccountsIInv, Rowed
    <3>2. \A j, k \in Stamped : stamp[j] = stamp[k] => j = k
      BY DEF AccountsIInv, Rowed
    <3> QED
      BY <1>4, <1>5, <1>6, <3>1, <3>2
  <2>3. /\ sessions' \subseteq Inserted' /\ expired' \subseteq gone' /\ gone' \subseteq Logins
        /\ excess' \in [Logins -> Nat] /\ overlapped' \in BOOLEAN
    BY <1>1, <1>7 DEF AccountsIInv, Rowed
  <2> QED
    BY <1>2, <1>5, <2>1, <2>2, <2>3 DEF Rowed
<1>11. OneCreating'
  BY <1>1, <1>8 DEF AccountsIInv, OneCreating
<1>12. Capped'
  <2>1. ASSUME NEW j \in Logins, login[j] \in {"error", "count", "trim"} PROVE login'[j] = login[j]
    BY <1>1, <1>2, <2>1
  <2>2. ASSUME NEW j \in Trimming, Cardinality(sessions) <= MaxSessionsPerUser + excess[j]
        PROVE  j \in Trimming' /\ Cardinality(sessions') <= MaxSessionsPerUser + excess'[j]
    BY <1>1, <1>8, <1>9, <2>2 DEF Trimming, AccountsIInv, Rowed, AccountsAssumption
  <2>3. Cardinality(sessions) <= MaxSessionsPerUser => Cardinality(sessions') <= MaxSessionsPerUser
    BY <1>9 DEF AccountsAssumption
  <2> QED
    BY <2>1, <2>2, <2>3 DEF AccountsIInv, Capped, LoginAt
<1>13. Kept'
  <2>1. ASSUME NEW k \in Inserted PROVE Newer(k)' = Newer(k)
    BY <1>5, <1>7 DEF Newer, Inserted
  <2> QED
    BY <1>1, <1>7, <2>1 DEF AccountsIInv, Rowed, Kept
<1> QED
  BY <1>3, <1>10, <1>11, <1>12, <1>13 DEF AccountsIInv

\* A login that inserted its row, or did not.
LEMMA InsertKeeps ==
    ASSUME AccountsAssumption, AccountsIInv, NEW l \in Logins, CreateSession(l)
    PROVE  AccountsIInv'
<1>1. /\ login[l] = "insert" /\ UNCHANGED <<stamp, excess, expired, gone, overlapped, Limiter>>
      /\ \/ sessions' = sessions \cup {l} /\ LoginGoes(l, "count")
         \/ sessions' = sessions /\ LoginGoes(l, "not_created")
  BY DEF CreateSession, LoginAt
<1>2. PICK to \in {"count", "not_created"} :
         /\ LoginGoes(l, to)
         /\ \/ to = "count" /\ sessions' = sessions \cup {l}
            \/ to = "not_created" /\ sessions' = sessions
  BY <1>1
<1>3. /\ login' \in [Logins -> LoginSteps] /\ login'[l] = to
      /\ \A k \in Logins : k # l => login'[k] = login[k]
  BY <1>2, LoginMoves DEF AccountsIInv, Rowed, LoginSteps
<1>4. Counted' /\ OneAttempt'
  BY <1>1, <1>3, LimiterRests DEF AccountsIInv
<1>5. Stamped' = Stamped /\ Trimming' = Trimming /\ Creating' \subseteq Creating
        /\ Trimming \subseteq Creating \ {l} /\ l \in Creating /\ l \notin Inserted
  BY <1>1, <1>3 DEF Stamped, Unstamped, Creating, Trimming, Inserted, LoginAt
<1>6. Inserted' = IF to = "count" THEN Inserted \cup {l} ELSE Inserted
  BY <1>1, <1>3 DEF Inserted
<1>7. Rowed'
  BY <1>1, <1>2, <1>3, <1>5, <1>6 DEF AccountsIInv, Rowed
<1>8. OneCreating'
  BY <1>1, <1>5 DEF AccountsIInv, OneCreating
<1>9. Capped'
  <2>1. CASE to = "count"
    BY <1>3, <2>1 DEF Capped, LoginAt
  <2>2. CASE to # "count"
    <3>1. ASSUME NEW j \in Logins, login[j] \in {"error", "count"} PROVE login'[j] = login[j]
      BY <1>1, <1>3, <3>1
    <3> QED
      BY <1>1, <1>2, <1>5, <2>2, <3>1 DEF AccountsIInv, Capped, LoginAt
  <2> QED
    BY <2>1, <2>2
<1>10. Kept'
  <2>1. ASSUME NEW k PROVE Newer(k) \subseteq Newer(k)' /\ IsFiniteSet(Newer(k)') /\ Cardinality(Newer(k)) \in Nat
              /\ Cardinality(Newer(k)') \in Nat /\ Cardinality(Newer(k)) <= Cardinality(Newer(k)')
    <3>1. Newer(k) \subseteq Newer(k)'
      BY <1>1, <1>6 DEF Newer
    <3>2. Newer(k)' \subseteq Logins
      BY DEF Newer, Inserted
    <3> QED
      BY <3>1, <3>2, FS_Subset, FS_CardinalityType DEF AccountsAssumption
  <2>2. l \in sessions' \/ to # "count"
    BY <1>2
  <2>3. sessions \subseteq sessions' /\ MaxSessionsPerUser \in Nat
    BY <1>1 DEF AccountsAssumption
  <2>4. ASSUME ~overlapped', NEW k \in Inserted' \ gone'
        PROVE  k \in sessions' \/ Cardinality(Newer(k)') >= MaxSessionsPerUser
    <3>1. CASE k = l
      BY <1>5, <1>6, <2>2, <2>4, <3>1
    <3>2. CASE k # l
      <4>1. k \in Inserted \ gone /\ ~overlapped
        BY <1>1, <1>6, <2>4, <3>2
      <4>2. k \in sessions \/ Cardinality(Newer(k)) >= MaxSessionsPerUser
        BY <4>1 DEF AccountsIInv, Kept
      <4> QED
        BY <2>1, <2>3, <4>2
    <3> QED
      BY <3>1, <3>2
  <2> QED
    BY <2>4 DEF Kept
<1> QED
  BY <1>4, <1>7, <1>8, <1>9, <1>10 DEF AccountsIInv
\* A login counts the rows, or fails to.
LEMMA CountKeeps ==
    ASSUME AccountsAssumption, AccountsIInv, NEW l \in Logins, CountSessions(l)
    PROVE  AccountsIInv'
<1> DEFINE rows == Cardinality(sessions)
<1>1. /\ login[l] = "count" /\ UNCHANGED <<sessions, stamp, expired, gone, overlapped, Limiter>>
      /\ \/ rows <= MaxSessionsPerUser /\ LoginGoes(l, "ok") /\ UNCHANGED excess
         \/ /\ rows > MaxSessionsPerUser /\ LoginGoes(l, "trim")
            /\ excess' = [excess EXCEPT ![l] = rows - MaxSessionsPerUser]
         \/ LoginGoes(l, "error") /\ UNCHANGED excess
  BY DEF CountSessions, LoginAt
<1>2. PICK to \in {"ok", "trim", "error"} :
         /\ LoginGoes(l, to)
         /\ \/ to = "ok" /\ rows <= MaxSessionsPerUser /\ UNCHANGED excess
            \/ /\ to = "trim" /\ rows > MaxSessionsPerUser
               /\ excess' = [excess EXCEPT ![l] = rows - MaxSessionsPerUser]
            \/ to = "error" /\ UNCHANGED excess
  BY <1>1
<1>3. /\ login' \in [Logins -> LoginSteps] /\ login'[l] = to
      /\ \A k \in Logins : k # l => login'[k] = login[k]
  BY <1>2, LoginMoves DEF AccountsIInv, Rowed, LoginSteps
<1>4. Counted' /\ OneAttempt'
  BY <1>1, <1>3, LimiterRests DEF AccountsIInv
<1>5. rows \in Nat /\ MaxSessionsPerUser \in Nat
  BY FS_Subset, FS_CardinalityType DEF Inserted, AccountsIInv, Rowed, AccountsAssumption
<1> HIDE DEF rows
<1>6. Stamped' = Stamped /\ Inserted' = Inserted /\ Creating' \subseteq Creating /\ l \in Creating
        /\ Trimming' = (IF to = "trim" THEN Trimming \cup {l} ELSE Trimming) /\ l \notin Trimming
        /\ Trimming \subseteq Creating
  BY <1>1, <1>3 DEF Stamped, Unstamped, Creating, Trimming, Inserted, LoginAt
<1>7. /\ excess' \in [Logins -> Nat] /\ (to = "trim" => rows = MaxSessionsPerUser + excess'[l])
      /\ \A k \in Logins : k # l => excess'[k] = excess[k]
  BY <1>2, <1>5 DEF AccountsIInv, Rowed
<1>8. Rowed'
  BY <1>1, <1>3, <1>6, <1>7 DEF AccountsIInv, Rowed
<1>9. OneCreating'
  BY <1>1, <1>6, <1>7 DEF AccountsIInv, OneCreating, rows
<1>10. Capped'
  <2>1. CASE to = "error"
    BY <1>3, <2>1 DEF Capped, LoginAt
  <2>2. CASE to = "ok"
    BY <1>1, <1>2, <2>2 DEF Capped, rows
  <2>3. CASE to = "trim"
    <3>1. l \in Trimming' /\ Cardinality(sessions') <= MaxSessionsPerUser + excess'[l]
      BY <1>1, <1>5, <1>6, <1>7, <2>3 DEF rows
    <3> QED
      BY <3>1 DEF Capped
  <2> QED
    BY <2>1, <2>2, <2>3
<1>11. Kept'
  BY <1>1, <1>6 DEF AccountsIInv, Kept, Newer
<1> QED
  BY <1>4, <1>8, <1>9, <1>10, <1>11 DEF AccountsIInv

\* A login deletes as many of the oldest rows as it counted too many.
LEMMA TrimKeeps ==
    ASSUME AccountsAssumption, AccountsIInv, NEW l \in Logins, TrimUserSessions(l)
    PROVE  AccountsIInv'
<1>1. /\ login[l] = "trim" /\ UNCHANGED <<stamp, excess, expired, gone, overlapped, Limiter>>
      /\ \/ sessions' = sessions \ Oldest(excess[l]) /\ LoginGoes(l, "ok")
         \/ LoginGoes(l, "error") /\ UNCHANGED sessions
  BY DEF TrimUserSessions, LoginAt
<1>2. PICK to \in {"ok", "error"} :
         /\ LoginGoes(l, to)
         /\ \/ to = "ok" /\ sessions' = sessions \ Oldest(excess[l])
            \/ to = "error" /\ sessions' = sessions
  BY <1>1
<1>3. /\ login' \in [Logins -> LoginSteps] /\ login'[l] = to
      /\ \A k \in Logins : k # l => login'[k] = login[k]
  BY <1>2, LoginMoves DEF AccountsIInv, Rowed, LoginSteps
<1>4. Counted' /\ OneAttempt'
  BY <1>1, <1>3, LimiterRests DEF AccountsIInv
<1>5. Stamped' = Stamped /\ Inserted' = Inserted /\ Creating' \subseteq Creating /\ l \in Creating
        /\ Trimming' = Trimming \ {l} /\ l \in Trimming /\ Trimming \subseteq Creating
  BY <1>1, <1>3 DEF Stamped, Unstamped, Creating, Trimming, Inserted, LoginAt
<1>6. /\ IsFiniteSet(sessions) /\ Cardinality(sessions) \in Nat /\ MaxSessionsPerUser \in Nat
      /\ sessions' \subseteq sessions /\ Cardinality(sessions') \in Nat
      /\ Cardinality(sessions') <= Cardinality(sessions) /\ excess[l] \in Nat
      /\ excess \in [Logins -> Nat]
  <2>1. IsFiniteSet(sessions) /\ excess \in [Logins -> Nat] /\ MaxSessionsPerUser \in Nat
    BY FS_Subset DEF Inserted, AccountsIInv, Rowed, AccountsAssumption
  <2>2. sessions' \subseteq sessions
    BY <1>1
  <2> QED
    BY <2>1, <2>2, FS_Subset, FS_CardinalityType
<1>7. Rowed'
  BY <1>1, <1>3, <1>5, <1>6 DEF AccountsIInv, Rowed
<1>8. OneCreating'
  BY <1>1, <1>5 DEF AccountsIInv, OneCreating
<1>9. Capped'
  <2>1. CASE to = "error"
    BY <1>3, <2>1 DEF Capped, LoginAt
  <2>2. CASE to = "ok"
    <3>1. ASSUME NEW j \in Logins, login[j] \in {"error", "count"} PROVE login'[j] = login[j]
      BY <1>1, <1>3, <3>1
    <3>2. Cardinality(sessions) <= MaxSessionsPerUser => Cardinality(sessions') <= MaxSessionsPerUser
      BY <1>6
    <3>3. ASSUME NEW j \in Trimming, Cardinality(sessions) <= MaxSessionsPerUser + excess[j], j # l
          PROVE  j \in Trimming' /\ Cardinality(sessions') <= MaxSessionsPerUser + excess'[j]
      <4>1. j \in Logins
        BY DEF Trimming
      <4> QED
        BY <1>1, <1>5, <1>6, <3>3, <4>1
    <3>4. ASSUME Cardinality(sessions) <= MaxSessionsPerUser + excess[l]
          PROVE  Cardinality(sessions') <= MaxSessionsPerUser
      <4>1. sessions' = {} \/ Cardinality(sessions') + excess[l] <= Cardinality(sessions)
        BY <1>2, <1>6, <2>2, OldestGo DEF AccountsIInv
      <4>2. Cardinality({}) = 0
        BY FS_EmptySet
      <4> QED
        BY <1>6, <3>4, <4>1, <4>2
    <3> QED
      BY <3>1, <3>2, <3>3, <3>4 DEF AccountsIInv, Capped, LoginAt
  <2> QED
    BY <2>1, <2>2
<1>10. Kept'
  <2>1. ASSUME NEW k PROVE Newer(k)' = Newer(k)
    BY <1>1, <1>5 DEF Newer
  <2>2. ASSUME ~overlapped', NEW k \in Inserted' \ gone', k \notin sessions'
        PROVE  Cardinality(Newer(k)') >= MaxSessionsPerUser
    <3>1. ~overlapped /\ k \in Inserted \ gone
      BY <1>1, <1>5, <2>2
    <3>2. CASE k \notin sessions
      BY <2>1, <3>1, <3>2 DEF AccountsIInv, Kept
    <3>3. CASE k \in sessions
      <4>1. k \in Oldest(excess[l])
        BY <1>2, <2>2, <3>3
      <4>2. Cardinality(sessions) = MaxSessionsPerUser + excess[l]
        BY <1>5, <3>1 DEF AccountsIInv, OneCreating
      <4>3. Cardinality(Newer(k)) >= MaxSessionsPerUser
        BY <1>6, <4>1, <4>2, OldestHaveNewer DEF AccountsIInv
      <4> QED
        BY <2>1, <4>3
    <3> QED
      BY <3>2, <3>3
  <2> QED
    BY <2>2 DEF Kept
<1> QED
  BY <1>4, <1>7, <1>8, <1>9, <1>10 DEF AccountsIInv

\* Sessions end by logout or expiry, which never takes one that is still wanted.
LEMMA EndKeeps ==
    ASSUME AccountsAssumption, AccountsIInv, NEW l \in Logins,
           Expires(l) \/ UserBySession(l) \/ Logout(l)
    PROVE  AccountsIInv'
<1>1. /\ UNCHANGED <<stamp, excess, login, Limiter>>
      /\ sessions' \subseteq sessions /\ sessions \ gone' \subseteq sessions'
      /\ gone \subseteq gone' /\ gone' \subseteq gone \cup {l}
      /\ expired' \subseteq expired \cup {l} /\ expired' \subseteq gone'
      /\ overlapped' \in BOOLEAN /\ (overlapped => overlapped')
      /\ (sessions' # sessions => overlapped' \/ Trimming = {})
  BY DEF AccountsIInv, Rowed, Expires, UserBySession, Logout
<1>2. Stamped' = Stamped /\ Inserted' = Inserted /\ Creating' = Creating /\ Trimming' = Trimming
        /\ Attempting' = Attempting
  BY <1>1 DEF Stamped, Creating, Trimming, Inserted, Attempting, LoginAt
<1>3. Counted' /\ OneAttempt'
  BY <1>1, LimiterRests DEF AccountsIInv
<1>4. /\ Cardinality(sessions) \in Nat /\ MaxSessionsPerUser \in Nat /\ Cardinality(sessions') \in Nat
      /\ Cardinality(sessions') <= Cardinality(sessions) /\ excess \in [Logins -> Nat]
  <2>1. IsFiniteSet(sessions) /\ excess \in [Logins -> Nat] /\ MaxSessionsPerUser \in Nat
    BY FS_Subset DEF Inserted, AccountsIInv, Rowed, AccountsAssumption
  <2> QED
    BY <1>1, <2>1, FS_Subset, FS_CardinalityType
<1>5. Rowed'
  BY <1>1, <1>2 DEF AccountsIInv, Rowed
<1>6. OneCreating'
  BY <1>1, <1>2 DEF AccountsIInv, OneCreating
<1>7. Capped'
  <2>1. Cardinality(sessions) <= MaxSessionsPerUser => Cardinality(sessions') <= MaxSessionsPerUser
    BY <1>4
  <2>2. ASSUME NEW j \in Trimming, Cardinality(sessions) <= MaxSessionsPerUser + excess[j]
        PROVE  Cardinality(sessions') <= MaxSessionsPerUser + excess'[j]
    <3>1. excess[j] \in Nat /\ excess'[j] = excess[j]
      BY <1>1, <1>4 DEF Trimming
    <3> QED
      BY <1>4, <2>2, <3>1
  <2> QED
    BY <1>1, <1>2, <2>1, <2>2 DEF AccountsIInv, Capped, LoginAt
<1>8. Kept'
  <2>1. ASSUME NEW k PROVE Newer(k)' = Newer(k)
    BY <1>1, <1>2 DEF Newer
  <2> QED
    BY <1>1, <1>2, <2>1 DEF AccountsIInv, Kept
<1> QED
  BY <1>3, <1>5, <1>6, <1>7, <1>8 DEF AccountsIInv

LEMMA AccountsStepIInv ==
    ASSUME AccountsAssumption, AccountsIInv, [AccountsNext]_accountsVars PROVE AccountsIInv'
<1>0. login \in [Logins -> LoginSteps]
  BY DEF AccountsIInv, Rowed
<1>1. CASE WindowPasses
  <2>1. UNCHANGED <<Rows, login>>
    BY <1>1 DEF WindowPasses
  <2>2. Rowed' /\ OneCreating' /\ Capped' /\ Kept'
    BY <1>0, <2>1, RowsRest
  <2>3. Counted' /\ OneAttempt'
    BY <1>1 DEF AccountsAssumption, WindowPasses, AccountsIInv, Counted, OneAttempt, Attempting, LoginAt, Allowed
  <2> QED
    BY <2>2, <2>3 DEF AccountsIInv
<1>2. ASSUME NEW l \in Logins, Allow(l) \/ Authenticate(l) PROVE AccountsIInv'
  <2>1. login[l] \in {"start", "auth"} /\ UNCHANGED Rows
          /\ \E to \in {"refused", "auth", "denied", "purge"} : LoginGoes(l, to)
    BY <1>2 DEF Allow, Authenticate, LoginAt
  <2>2. PICK to \in {"refused", "auth", "denied", "purge"} : LoginGoes(l, to)
    BY <2>1
  <2>3. /\ login' \in [Logins -> LoginSteps] /\ login'[l] = to
        /\ \A k \in Logins : k # l => login'[k] = login[k]
    BY <1>0, <2>2, LoginMoves DEF LoginSteps
  <2>4. Rowed' /\ OneCreating' /\ Capped' /\ Kept'
    BY <2>1, <2>3, RowsRest
  <2>5. Counted' /\ OneAttempt'
    BY <1>2, LimiterStep DEF AccountsIInv
  <2> QED
    BY <2>4, <2>5 DEF AccountsIInv
<1>3. CASE UNCHANGED accountsVars
  <2>1. UNCHANGED <<Rows, login, Limiter>>
    BY <1>3 DEF accountsVars, Rows, Limiter
  <2>2. Rowed' /\ OneCreating' /\ Capped' /\ Kept'
    BY <1>0, <2>1, RowsRest
  <2> QED
    BY <2>1, <2>2, LimiterRests DEF AccountsIInv
<1> QED
  BY <1>1, <1>2, <1>3, PurgeKeeps, InsertKeeps, CountKeeps, TrimKeeps, EndKeeps DEF AccountsNext

\* One login at a time is compared with the limits, works on the rows, and deletes
\* no more than it counted too many, unless others overlap it (LoginLimiter.Allow,
\* CreateSession).
THEOREM AccountsInductive == ASSUME AccountsAssumption PROVE AccountsSpec => []AccountsIInv
BY AccountsInitIInv, AccountsStepIInv, PTL DEF AccountsSpec

\* The types of the limiter's counts, the rows and the logins are kept by every step.
THEOREM AccountsTypeCorrect == ASSUME AccountsAssumption PROVE AccountsSpec => []AccountsTypeOK
<1>1. AccountsAssumption /\ AccountsIInv => AccountsTypeOK
  <2> SUFFICES ASSUME AccountsAssumption, AccountsIInv PROVE AccountsTypeOK
    OBVIOUS
  <2>1. Rowed /\ Counted
    BY DEF AccountsIInv
  <2>2. Cardinality(Stamped) \in Nat /\ Cardinality(Logins) \in Nat /\ Cardinality(Stamped) <= Cardinality(Logins)
    BY FS_Subset, FS_CardinalityType DEF Stamped, AccountsAssumption
  <2>3. \A l \in Logins : stamp[l] \in 0..Cardinality(Logins)
    BY <2>1, <2>2 DEF Rowed
  <2>4. stamp \in [Logins -> 0..Cardinality(Logins)]
    BY <2>1, <2>3 DEF Rowed
  <2>5. sessions \subseteq Logins /\ expired \subseteq Logins /\ gone \subseteq Logins
    BY <2>1 DEF Rowed, Inserted
  <2> QED
    BY <2>1, <2>4, <2>5 DEF AccountsTypeOK, Rowed, Counted, LoginSteps
<1> QED
  BY <1>1, AccountsInductive, PTL

\* For any number of logins and any limits: without one under way and without a
\* failed statement the sessions are no more than are kept; a login stays logged in
\* until it ends or enough newer ones exist, unless logins overlapped; and the
\* failures counted stay within the limits, unless attempts overlapped.
THEOREM LoginsHold == ASSUME AccountsAssumption PROVE AccountsSpec => []LoginsSound
<1>1. AccountsAssumption /\ AccountsIInv => LoginsSound
  <2> SUFFICES ASSUME AccountsAssumption, AccountsIInv PROVE LoginsSound
    OBVIOUS
  <2>1. SessionsCapped
    BY DEF AccountsIInv, Capped, SessionsCapped, Creating, Trimming, LoginAt
  <2>2. NewestKept
    BY DEF AccountsIInv, Kept, NewestKept, Newer, Inserted, LoginAt
  <2>3. AttemptsBounded
    BY DEF AccountsIInv, OneAttempt, AttemptsBounded
  <2> QED
    BY <2>1, <2>2, <2>3 DEF LoginsSound
<1> QED
  BY <1>1, AccountsInductive, PTL

-----------------------------------------------------------------------------
(* MCP sessions *)

Working == {"lookup", "dial", "store", "spare", "sent", "drop"}
CallStates ==
    [pc : Working \cup {"idle", "done"}, to : Servers \cup {Nobody}, todo : Seq(Servers),
     own : Sessions \cup {Nobody}, sess : Sessions \cup {Nobody},
     out : {"none", "ok", "refused", "failed", "closed"}]

\* A call with a session of its own is about to store or close it.  The session it
\* uses is the one in the pool as long as it is connected, and when it is not, some
\* call of the server ended in an error or the manager was shut; so it is when the
\* call drops it.
CallSound(k, pooled, connected, closed, failing) ==
    /\ k.pc \in Working => k.todo # <<>>
    /\ k.own # Nobody <=> k.pc \in {"store", "spare"}
    /\ k.own # Nobody => k.own \in connected /\ \A s \in Servers : pooled[s] # k.own
    /\ k.pc \in {"sent", "spare"} =>
         /\ k.sess # Nobody
         /\ k.sess \in connected => pooled[Head(k.todo)] = k.sess
         /\ k.sess \notin connected => closed \/ Head(k.todo) \in failing
    /\ k.pc = "drop" => closed \/ Head(k.todo) \in failing
    /\ k.to # Nobody =>
         /\ k.out # "refused"
         /\ k.pc \in Working => k.todo = <<k.to>>
         /\ k.out = "closed" => closed \/ k.to \in failing

McpTyped ==
    /\ toolCall \in [ToolCalls -> CallStates]
    /\ pool \in [Servers -> Sessions \cup {Nobody}]
    /\ open \subseteq Sessions /\ erred \subseteq Servers /\ shut \in BOOLEAN

OwnsDiffer == \A c, d \in ToolCalls : toolCall[c].own # Nobody /\ toolCall[c].own = toolCall[d].own => c = d

McpIInv ==
    /\ McpTyped /\ OwnsDiffer /\ SessionsOwned
    /\ \A c \in ToolCalls : CallSound(toolCall[c], pool, open, shut, erred)

LEMMA SessionsAre == ASSUME McpAssumption PROVE Sessions \subseteq Nat /\ Nobody \notin Sessions /\ 1 \in Sessions
<1>1. Cardinality(ToolCalls) \in Nat /\ Cardinality(Servers) \in Nat
  BY FS_CardinalityType DEF McpAssumption
<1> QED
  BY <1>1 DEF Sessions, McpAssumption

\* A function has no more values than arguments.
LEMMA ImageBound ==
    ASSUME NEW D, IsFiniteSet(D), NEW f, DOMAIN f = D
    PROVE  IsFiniteSet({f[x] : x \in D}) /\ Cardinality({f[x] : x \in D}) <= Cardinality(D)
<1> DEFINE T == {f[x] : x \in D}
           g == [x \in D |-> f[x]]
<1>1. g \in [D -> T] /\ \A t \in T : \E x \in D : g[x] = t
  OBVIOUS
<1>2. g \in Surjection(D, T)
  BY <1>1 DEF Surjection
<1> HIDE DEF g, T
<1>3. IsFiniteSet(T) /\ Cardinality(T) <= Cardinality(D)
  BY <1>2, FS_Surjection
<1> QED
  BY <1>3 DEF T

LEMMA UnionBound ==
    ASSUME NEW S, IsFiniteSet(S), NEW T, IsFiniteSet(T)
    PROVE  IsFiniteSet(S \cup T) /\ Cardinality(S \cup T) <= Cardinality(S) + Cardinality(T)
<1>1. IsFiniteSet(S \cap T) /\ Cardinality(S \cap T) \in Nat /\ Cardinality(S) \in Nat /\ Cardinality(T) \in Nat
  BY FS_Intersection, FS_CardinalityType
<1>2. IsFiniteSet(S \cup T) /\ Cardinality(S \cup T) = Cardinality(S) + Cardinality(T) - Cardinality(S \cap T)
  BY FS_Union
<1> QED
  BY <1>1, <1>2

\* A number is always free, and the one a dial takes is.
LEMMA FreshSession ==
    ASSUME McpAssumption, McpTyped, SessionsOwned PROVE Min(Sessions \ InUse) \in Sessions \ InUse
<1> DEFINE pooled == {pool[s] : s \in Servers}
           owns == [c \in ToolCalls |-> toolCall[c].own]
           uses == [c \in ToolCalls |-> toolCall[c].sess]
           owned == {owns[c] : c \in ToolCalls}
           used == {uses[c] : c \in ToolCalls}
           C == Cardinality(ToolCalls)
           V == Cardinality(Servers)
<1>1. IsFiniteSet(pooled) /\ Cardinality(pooled) <= V
  BY ImageBound DEF McpTyped, McpAssumption
<1>2. IsFiniteSet(owned) /\ Cardinality(owned) <= C
  BY ImageBound DEF McpAssumption
<1>3. IsFiniteSet(used) /\ Cardinality(used) <= C
  BY ImageBound DEF McpAssumption
<1>4. C \in Nat /\ V \in Nat /\ Cardinality(pooled) \in Nat /\ Cardinality(owned) \in Nat
        /\ Cardinality(used) \in Nat
  BY <1>1, <1>2, <1>3, FS_CardinalityType DEF McpAssumption
<1>5. InUse \subseteq (pooled \cup owned) \cup used
  <2>1. open \subseteq pooled \cup owned
    BY DEF SessionsOwned
  <2>2. Range(pool) = pooled
    BY DEF Range, McpTyped
  <2>3. UNION {{toolCall[d].own, toolCall[d].sess} : d \in ToolCalls} \subseteq owned \cup used
    OBVIOUS
  <2> QED
    BY <2>1, <2>2, <2>3 DEF InUse
<1> HIDE DEF pooled, owned, used
<1>6. IsFiniteSet((pooled \cup owned) \cup used) /\ Cardinality((pooled \cup owned) \cup used) <= V + C + C
  <2>a. /\ IsFiniteSet(pooled \cup owned)
        /\ Cardinality(pooled \cup owned) <= Cardinality(pooled) + Cardinality(owned)
    BY <1>1, <1>2, UnionBound
  <2>b. Cardinality(pooled \cup owned) \in Nat
    BY <2>a, FS_CardinalityType
  <2>1. IsFiniteSet(pooled \cup owned) /\ Cardinality(pooled \cup owned) <= V + C
          /\ Cardinality(pooled \cup owned) \in Nat
    BY <1>1, <1>2, <1>4, <2>a, <2>b
  <2>2. /\ IsFiniteSet((pooled \cup owned) \cup used)
        /\ Cardinality((pooled \cup owned) \cup used) <= Cardinality(pooled \cup owned) + Cardinality(used)
        /\ Cardinality((pooled \cup owned) \cup used) \in Nat
    BY <1>3, <2>1, UnionBound, FS_CardinalityType
  <2> QED
    BY <1>3, <1>4, <2>1, <2>2
<1>7. IsFiniteSet(Sessions) /\ Cardinality(Sessions) = 2 * C + V + 1
  <2> DEFINE last == 2 * C + V + 1
  <2>1. last \in Nat /\ last >= 1 /\ Sessions = 1..last
    BY <1>4 DEF Sessions
  <2> HIDE DEF last
  <2>2. IsFiniteSet(1..last) /\ Cardinality(1..last) = last
    BY <2>1, FS_Interval
  <2> QED
    BY <2>1, <2>2 DEF last
<1>8. Sessions \ InUse # {}
  <2> SUFFICES ASSUME Sessions \subseteq (pooled \cup owned) \cup used PROVE FALSE
    BY <1>5
  <2>1. Cardinality(Sessions) <= Cardinality((pooled \cup owned) \cup used)
    BY <1>6, FS_Subset
  <2>2. Cardinality((pooled \cup owned) \cup used) \in Nat
    BY <1>6, FS_CardinalityType
  <2> QED
    BY <1>4, <1>6, <1>7, <2>1, <2>2
<1>9. Sessions \ InUse \in SUBSET Nat
  BY SessionsAre
<1> QED
  BY <1>8, <1>9, LeastOf

\* What the listing promises resolves to a call the policy admits: the first double
\* underscore of a listed name ends its server's id, and a rule that lets a tool
\* pass with its description lets it pass without.
LEMMA PromisedIsAdmitted ==
    ASSUME McpAssumption, NEW ask, Promised(ask)
    PROVE  Admitted(Resolved(ask)) /\ Resolved(ask).server \in Servers
<1>1. PICK s \in Servers : \E t \in Server[s].tools :
        /\ ListedAllowed(s, t)
        /\ \/ ask = [server |-> s, tool |-> t.name]
           \/ LeadsBack(s, t.name) /\ ask = [name |-> Namespace(s, t.name)]
  BY DEF Promised
<1>2. PICK t \in Server[s].tools :
        /\ ListedAllowed(s, t)
        /\ \/ ask = [server |-> s, tool |-> t.name]
           \/ LeadsBack(s, t.name) /\ ask = [name |-> Namespace(s, t.name)]
  BY <1>1
<1> DEFINE name == t.name
<1>3. s \in Seq(Range(s)) /\ name \in Seq(Range(name)) /\ name # <<>>
  BY DEF McpAssumption
<1>4. Resolved(ask).server = s /\ Resolved(ask).tool = name
  <2>1. CASE ask = [server |-> s, tool |-> name]
    BY <2>1 DEF Resolved
  <2>2. CASE LeadsBack(s, name) /\ ask = [name |-> Namespace(s, name)]
    <3> DEFINE whole == s \o name
               E == Range(s) \cup Range(name)
    <3> HIDE DEF name
    <3>1. s \in Seq(E) /\ name \in Seq(E) /\ Len(name) \in Nat
      BY <1>3, SeqMonotonic, LenProperties
    <3>2. /\ whole \in Seq(E) /\ Len(whole) = Len(name) + 1
          /\ whole[1] = s[1] /\ \A i \in 1..Len(name) : whole[i + 1] = name[i]
      <4>1. /\ whole \in Seq(E) /\ Len(whole) = Len(s) + Len(name)
            /\ \A i \in 1..(Len(s) + Len(name)) :
                 whole[i] = IF i <= Len(s) THEN s[i] ELSE name[i - Len(s)]
        BY <3>1, ConcatProperties
      <4>2. \A i \in 1..Len(name) : i + 1 \in 1..(1 + Len(name)) /\ ~(i + 1 <= 1) /\ (i + 1) - 1 = i
        BY <3>1
      <4>3. 1 \in 1..(1 + Len(name))
        BY <3>1
      <4> QED
        BY <2>2, <3>1, <4>1, <4>2, <4>3 DEF LeadsBack
    <3>3. ask = [name |-> whole]
      BY <2>2 DEF Namespace, LeadsBack
    <3> HIDE DEF whole, E
    <3>4. SubSeq(whole, 1, 1) = s
      <4>1. SubSeq(whole, 1, 1) \in Seq(E) /\ Len(SubSeq(whole, 1, 1)) = 1 /\ SubSeq(whole, 1, 1)[1] = whole[1]
        BY <3>1, <3>2
      <4> QED
        BY <2>2, <3>1, <3>2, <4>1, SeqEqual DEF LeadsBack
    <3>5. Tail(whole) = name
      <4>1. Tail(whole) \in Seq(E) /\ Len(Tail(whole)) = Len(name)
              /\ \A i \in 1..Len(name) : Tail(whole)[i] = whole[i + 1]
        BY <3>1, <3>2
      <4> QED
        BY <3>1, <3>2, <4>1, SeqEqual
    <3>6. Resolved(ask) = [server |-> s, tool |-> name]
      BY <3>3, <3>4, <3>5 DEF Resolved, ParseNamespaced
    <3> QED
      BY <3>6
  <2> QED
    BY <1>2, <2>1, <2>2
<1>5. Server[s].enabled /\ CheckCallAllowed(Server[s], t, TRUE)
  BY <1>2 DEF ListedAllowed
<1>6. ToolOf(s, name) \in Server[s].tools /\ ToolOf(s, name).name = name
        /\ ToolOf(s, name).writes = t.writes
  BY DEF ToolOf, McpAssumption
<1> HIDE DEF name
<1>7. CheckCallAllowed(Server[s], ToolOf(s, name), FALSE)
  BY <1>5, <1>6 DEF CheckCallAllowed, LooksMutating, name
<1> QED
  BY <1>3, <1>4, <1>5, <1>7 DEF Admitted

(* Steps. *)

LEMMA McpInitIInv == McpAssumption /\ McpInit => McpIInv
<1> SUFFICES ASSUME McpAssumption, McpInit PROVE McpIInv
  OBVIOUS
<1>1. Unasked \in CallStates
  BY DEF Unasked, CallStates
<1>2. McpTyped
  BY <1>1 DEF McpInit, McpTyped
<1>3. \A c \in ToolCalls : toolCall[c] = Unasked
  BY DEF McpInit
<1>4. \A c \in ToolCalls : CallSound(toolCall[c], pool, open, shut, erred)
  BY <1>3 DEF Unasked, CallSound, Working
<1>5. OwnsDiffer /\ SessionsOwned
  BY <1>3 DEF Unasked, OwnsDiffer, McpInit, SessionsOwned
<1> QED
  BY <1>2, <1>4, <1>5 DEF McpIInv

LEMMA UnaskedIs ==
    /\ Unasked \in CallStates /\ Unasked.pc = "idle" /\ Unasked.to = Nobody /\ Unasked.todo = <<>>
    /\ Unasked.own = Nobody /\ Unasked.sess = Nobody /\ Unasked.out = "none"
BY DEF Unasked, CallStates

\* What a call's step does to the states of the calls.
LEMMA CallIsSet ==
    ASSUME McpTyped, NEW c \in ToolCalls, NEW k \in CallStates, SetCall(c, k)
    PROVE  /\ toolCall' \in [ToolCalls -> CallStates] /\ toolCall'[c] = k
           /\ \A d \in ToolCalls : d # c => toolCall'[d] = toolCall[d]
BY DEF McpTyped, SetCall

\* A step of one call that leaves pool and sessions alone, with no session of its own.
LEMMA CallSteps ==
    ASSUME McpAssumption, McpIInv, NEW c \in ToolCalls, NEW k \in CallStates, SetCall(c, k),
           UNCHANGED <<pool, open, shut>>, erred \subseteq erred', erred' \subseteq Servers,
           k.own = Nobody, toolCall[c].own = Nobody, CallSound(k, pool, open, shut, erred')
    PROVE  McpIInv'
<1>1. /\ toolCall' \in [ToolCalls -> CallStates] /\ toolCall'[c] = k
      /\ \A d \in ToolCalls : d # c => toolCall'[d] = toolCall[d]
  BY CallIsSet DEF McpIInv
<1>2. McpTyped'
  BY <1>1 DEF McpIInv, McpTyped
<1>3. OwnsDiffer'
  BY <1>1 DEF McpIInv, OwnsDiffer
<1>4. SessionsOwned'
  BY <1>1 DEF McpIInv, SessionsOwned
<1>5. ASSUME NEW d \in ToolCalls PROVE CallSound(toolCall'[d], pool', open', shut', erred')
  <2>1. CASE d = c
    BY <1>1, <2>1
  <2>2. CASE d # c
    BY <1>1, <2>2 DEF McpIInv, CallSound
  <2> QED
    BY <2>1, <2>2
<1> QED
  BY <1>2, <1>3, <1>4, <1>5 DEF McpIInv

LEMMA CallToolKeeps ==
    ASSUME McpAssumption, McpIInv, NEW c \in ToolCalls, CallTool(c) PROVE McpIInv'
<1>1. PICK ask \in Asks(c) :
        SetCall(c, IF Admitted(Resolved(ask))
                     THEN [Unasked EXCEPT !.pc = "lookup",
                             !.to = IF Promised(ask) THEN Resolved(ask).server ELSE Nobody,
                             !.todo = <<Resolved(ask).server>>]
                     ELSE [Unasked EXCEPT !.pc = "done",
                             !.to = IF Promised(ask) THEN Resolved(ask).server ELSE Nobody,
                             !.out = "refused"])
  BY DEF CallTool
<1> DEFINE to == Resolved(ask)
           who == IF Promised(ask) THEN to.server ELSE Nobody
<1>2. toolCall[c].pc = "idle" /\ UNCHANGED <<pool, open, erred, shut>> /\ toolCall[c].own = Nobody
  BY DEF CallTool, McpIInv, CallSound
<1>3. Promised(ask) => Admitted(to) /\ to.server \in Servers
  BY PromisedIsAdmitted
<1> HIDE DEF to
<1>4. CASE Admitted(to)
  <2> DEFINE k == [Unasked EXCEPT !.pc = "lookup", !.to = who, !.todo = <<to.server>>]
  <2>1. to.server \in Servers
    BY <1>4 DEF Admitted
  <2>3. SetCall(c, k)
    BY <1>1, <1>4 DEF to
  <2>4. who = Nobody \/ who = to.server
    OBVIOUS
  <2> HIDE DEF who
  <2>2. /\ k \in CallStates /\ k.pc = "lookup" /\ k.to = who /\ k.todo = <<to.server>>
        /\ k.own = Nobody /\ k.out = "none"
    <3> DEFINE todo == <<to.server>>
    <3>1. todo \in Seq(Servers) /\ who \in Servers \cup {Nobody}
      BY <2>1, <2>4
    <3> HIDE DEF todo
    <3>2. [Unasked EXCEPT !.pc = "lookup", !.to = who, !.todo = todo] \in CallStates
      BY <3>1, UnaskedIs DEF CallStates, Working
    <3>3. k = [Unasked EXCEPT !.pc = "lookup", !.to = who, !.todo = todo]
      BY DEF todo
    <3> HIDE DEF k
    <3>4. /\ k.pc = "lookup" /\ k.to = who /\ k.todo = todo /\ k.own = Nobody /\ k.out = "none"
      BY <3>3, UnaskedIs DEF CallStates
    <3> QED
      BY <3>2, <3>3, <3>4 DEF todo
  <2> HIDE DEF k
  <2>5. k \in CallStates
    BY <2>2
  <2>6. CallSound(k, pool, open, shut, erred')
    BY <2>2, <2>4 DEF CallSound, Working
  <2> QED
    BY <1>2, <2>2, <2>3, <2>5, <2>6, CallSteps DEF McpIInv, McpTyped
<1>5. CASE ~Admitted(to)
  <2> DEFINE k == [Unasked EXCEPT !.pc = "done", !.to = who, !.out = "refused"]
  <2>1. who = Nobody
    BY <1>3, <1>5
  <2>3. SetCall(c, k)
    BY <1>1, <1>5 DEF to
  <2> HIDE DEF who
  <2>2. k \in CallStates /\ k.pc = "done" /\ k.to = Nobody /\ k.own = Nobody
    BY <2>1, UnaskedIs DEF CallStates, Working
  <2> HIDE DEF k
  <2>4. k \in CallStates
    BY <2>2
  <2>5. CallSound(k, pool, open, shut, erred')
    BY <2>2 DEF CallSound, Working
  <2> QED
    BY <1>2, <2>2, <2>3, <2>4, <2>5, CallSteps DEF McpIInv, McpTyped
<1> QED
  BY <1>4, <1>5

LEMMA ListToolsKeeps ==
    ASSUME McpAssumption, McpIInv, NEW c \in ToolCalls, ListTools(c) PROVE McpIInv'
<1> DEFINE on == {s \in Servers : Server[s].enabled}
<1>1. PICK todo \in SetToSeqs(on) \cup {<<s>> : s \in on} :
        SetCall(c, [Unasked EXCEPT !.pc = IF todo = <<>> THEN "done" ELSE "lookup", !.todo = todo])
  BY DEF ListTools
<1>2. toolCall[c].pc = "idle" /\ UNCHANGED <<pool, open, erred, shut>> /\ toolCall[c].own = Nobody
  BY DEF ListTools, McpIInv, CallSound
<1>3. todo \in Seq(Servers)
  <2>1. Cardinality(on) \in Nat
    BY FS_Subset, FS_CardinalityType DEF McpAssumption
  <2>2. CASE todo \in SetToSeqs(on)
    <3>1. todo \in [1..Cardinality(on) -> Servers]
      BY <2>2 DEF SetToSeqs
    <3> HIDE DEF on
    <3> QED
      BY <2>1, <3>1
  <2>3. CASE todo \in {<<s>> : s \in on}
    <3>1. PICK s \in Servers : todo = <<s>>
      BY <2>3
    <3> QED
      BY <3>1
  <2> QED
    BY <1>1, <2>2, <2>3
<1> DEFINE there == IF todo = <<>> THEN "done" ELSE "lookup"
           k == [Unasked EXCEPT !.pc = there, !.todo = todo]
<1>5. SetCall(c, k)
  BY <1>1
<1>8. there \in Working \cup {"done"} /\ (there \in Working => there = "lookup" /\ todo # <<>>)
  BY DEF Working
<1> HIDE DEF there
<1>4. k \in CallStates /\ k.pc = there /\ k.to = Nobody /\ k.todo = todo /\ k.own = Nobody
  BY <1>3, <1>8, UnaskedIs DEF CallStates
<1> HIDE DEF k
<1>6. k \in CallStates
  BY <1>4
<1>7. CallSound(k, pool, open, shut, erred')
  BY <1>4, <1>8 DEF CallSound, Working
<1> QED
  BY <1>2, <1>4, <1>5, <1>6, <1>7, CallSteps DEF McpIInv, McpTyped

LEMMA LooksUpKeeps ==
    ASSUME McpAssumption, McpIInv, NEW c \in ToolCalls, LooksUp(c) PROVE McpIInv'
<1> DEFINE k0 == toolCall[c]
<1>1. k0.pc = "lookup" /\ UNCHANGED <<pool, open, erred, shut>>
  BY DEF LooksUp
<1>2. k0 \in CallStates /\ CallSound(k0, pool, open, shut, erred) /\ k0.own = Nobody
        /\ k0.todo # <<>> /\ Head(k0.todo) \in Servers
  <2>1. k0 \in CallStates /\ CallSound(k0, pool, open, shut, erred)
    BY DEF McpIInv, McpTyped
  <2>2. k0.own = Nobody /\ k0.todo # <<>> /\ k0.todo \in Seq(Servers)
    BY <1>1, <2>1 DEF CallSound, Working, CallStates
  <2> QED
    BY <2>1, <2>2
<1> DEFINE k1 == [k0 EXCEPT !.pc = "sent", !.sess = pool[Head(k0.todo)]]
           k2 == [k0 EXCEPT !.pc = "dial"]
<1>3. CASE pool[Head(k0.todo)] # Nobody
  <2>1. SetCall(c, k1)
    BY <1>3 DEF LooksUp, ServerOf
  <2>2. pool[Head(k0.todo)] \in open /\ pool[Head(k0.todo)] \in Sessions
    BY <1>2, <1>3 DEF McpIInv, SessionsOwned, McpTyped
  <2> HIDE DEF k0
  <2>3. k1 \in CallStates /\ k1.own = Nobody /\ k1.pc = "sent" /\ k1.sess = pool[Head(k0.todo)]
          /\ k1.todo = k0.todo /\ k1.to = k0.to /\ k1.out = k0.out
    BY <1>2, <2>2 DEF CallStates, Working
  <2>4. CallSound(k1, pool, open, shut, erred')
    BY <1>1, <1>2, <1>3, <2>2, <2>3 DEF CallSound, Working
  <2> HIDE DEF k1
  <2> QED
    BY <1>1, <1>2, <2>1, <2>3, <2>4, CallSteps DEF k0, McpIInv, McpTyped
<1>4. CASE pool[Head(k0.todo)] = Nobody
  <2>1. SetCall(c, k2)
    BY <1>4 DEF LooksUp, ServerOf
  <2> HIDE DEF k0
  <2>3. k2 \in CallStates /\ k2.own = Nobody /\ k2.pc = "dial"
          /\ k2.todo = k0.todo /\ k2.to = k0.to /\ k2.out = k0.out
    BY <1>2 DEF CallStates, Working
  <2>4. CallSound(k2, pool, open, shut, erred')
    BY <1>1, <1>2, <2>3 DEF CallSound, Working
  <2> HIDE DEF k2
  <2> QED
    BY <1>1, <1>2, <2>1, <2>3, <2>4, CallSteps DEF k0, McpIInv, McpTyped
<1> QED
  BY <1>3, <1>4
\* A call that is over with a server has no session any more.
LEMMA LeftKeeps ==
    ASSUME McpAssumption, McpTyped, NEW c \in ToolCalls, NEW pooled, NEW connected, NEW closed, NEW failing,
           NEW out \in {"none", "ok", "refused", "failed", "closed"}, Left(c, out),
           toolCall[c].todo # <<>>,
           toolCall[c].to # Nobody =>
              /\ out # "refused"
              /\ toolCall[c].todo = <<toolCall[c].to>>
              /\ out = "closed" => closed \/ toolCall[c].to \in failing
    PROVE  \E k \in CallStates : SetCall(c, k) /\ k.own = Nobody
              /\ CallSound(k, pooled, connected, closed, failing)
<1> DEFINE k0 == toolCall[c]
           rest == Tail(k0.todo)
           there == IF rest = <<>> THEN "done" ELSE "lookup"
           k == [k0 EXCEPT !.todo = rest, !.own = Nobody, !.sess = Nobody, !.out = out, !.pc = there]
<1>1. SetCall(c, k)
  BY DEF Left
<1>2. k0 \in CallStates /\ rest \in Seq(Servers)
  <2>1. k0 \in CallStates /\ k0.todo \in Seq(Servers)
    BY DEF McpTyped, CallStates
  <2> QED
    BY <2>1
<1>3. there \in Working \cup {"done"} /\ (there \in Working => there = "lookup" /\ rest # <<>>)
  BY DEF Working
<1>4. k0.to # Nobody => rest = <<>> /\ there = "done"
  <2>1. Tail(<<k0.to>>) = <<>>
    OBVIOUS
  <2> QED
    BY <2>1
<1> HIDE DEF k0, rest, there
<1>5. k \in CallStates /\ k.own = Nobody /\ k.pc = there /\ k.todo = rest /\ k.to = k0.to /\ k.out = out
  BY <1>2, <1>3 DEF CallStates
<1> HIDE DEF k
<1>6. k0.to # Nobody => out # "refused" /\ (out = "closed" => closed \/ k0.to \in failing)
  BY DEF k0
<1>7. CallSound(k, pooled, connected, closed, failing)
  BY <1>3, <1>4, <1>5, <1>6 DEF CallSound, Working
<1> QED
  BY <1>1, <1>5, <1>7
LEMMA DialKeeps ==
    ASSUME McpAssumption, McpIInv, NEW c \in ToolCalls, Dial(c) PROVE McpIInv'
<1> DEFINE k0 == toolCall[c]
           new == Min(Sessions \ InUse)
           k1 == [k0 EXCEPT !.pc = "store", !.own = new]
<1>1. k0.pc = "dial" /\ UNCHANGED <<pool, erred, shut>>
  BY DEF Dial
<1>2. k0 \in CallStates /\ CallSound(k0, pool, open, shut, erred) /\ k0.own = Nobody /\ k0.todo # <<>>
  BY <1>1 DEF McpIInv, McpTyped, CallSound, Working
<1>3. CASE Left(c, "failed") /\ UNCHANGED open
  <2>1. k0.to # Nobody => k0.todo = <<k0.to>>
    BY <1>1, <1>2 DEF CallSound, Working
  <2>2. \E k \in CallStates : SetCall(c, k) /\ k.own = Nobody /\ CallSound(k, pool, open, shut, erred)
    BY <1>2, <1>3, <2>1, LeftKeeps DEF McpIInv
  <2> QED
    BY <1>1, <1>2, <1>3, <2>2, CallSteps DEF McpIInv, McpTyped
<1>4. CASE open' = open \cup {new} /\ SetCall(c, k1)
  <2>1. new \in Sessions /\ new # Nobody /\ new \notin InUse
    BY FreshSession, SessionsAre DEF McpIInv
  <2>2. /\ new \notin open /\ \A s \in Servers : pool[s] # new
        /\ \A d \in ToolCalls : toolCall[d].own # new /\ toolCall[d].sess # new
    <3> HIDE DEF new
    <3>1. new \notin open /\ new \notin Range(pool)
            /\ \A d \in ToolCalls : new \notin {toolCall[d].own, toolCall[d].sess}
      BY <2>1 DEF InUse
    <3>2. \A s \in Servers : pool[s] \in Range(pool)
      BY DEF Range, McpIInv, McpTyped
    <3> QED
      BY <3>1, <3>2
  <2> HIDE DEF k0, new
  <2>3. k1 \in CallStates /\ k1.pc = "store" /\ k1.own = new /\ k1.todo = k0.todo /\ k1.to = k0.to
          /\ k1.out = k0.out
    BY <1>2, <2>1 DEF CallStates, Working
  <2> HIDE DEF k1
  <2>4. /\ toolCall' \in [ToolCalls -> CallStates] /\ toolCall'[c] = k1
        /\ \A d \in ToolCalls : d # c => toolCall'[d] = toolCall[d]
    BY <1>4, <2>3, CallIsSet DEF McpIInv
  <2>5. McpTyped'
    BY <1>1, <1>4, <2>1, <2>4 DEF McpIInv, McpTyped
  <2>6. OwnsDiffer'
    BY <2>2, <2>3, <2>4 DEF McpIInv, OwnsDiffer
  <2>7. SessionsOwned'
    <3>1. ASSUME NEW x \in open' PROVE (\E s \in Servers : pool'[s] = x) \/ (\E d \in ToolCalls : toolCall'[d].own = x)
      <4>1. CASE x = new
        BY <2>3, <2>4, <4>1
      <4>2. CASE x # new
        <5>1. x \in open /\ x # Nobody
          BY <1>4, <4>2, SessionsAre DEF McpIInv, McpTyped
        <5>2. (\E s \in Servers : pool[s] = x) \/ (\E d \in ToolCalls : toolCall[d].own = x)
          BY <5>1 DEF McpIInv, SessionsOwned
        <5>3. \A d \in ToolCalls : toolCall[d].own = x => d # c
          BY <1>2, <5>1 DEF k0
        <5> QED
          BY <1>1, <2>4, <5>2, <5>3
      <4> QED
        BY <4>1, <4>2
    <3>2. \A s \in Servers : pool'[s] \in open' \cup {Nobody}
      BY <1>1, <1>4 DEF McpIInv, SessionsOwned
    <3>3. \A s, t \in Servers : pool'[s] # Nobody /\ pool'[s] = pool'[t] => s = t
      BY <1>1 DEF McpIInv, SessionsOwned
    <3> QED
      BY <3>1, <3>2, <3>3 DEF SessionsOwned
  <2>8. ASSUME NEW d \in ToolCalls PROVE CallSound(toolCall'[d], pool', open', shut', erred')
    <3>1. CASE d = c
      <4>1. CallSound(k1, pool', open', shut', erred')
        BY <1>1, <1>2, <1>4, <2>1, <2>2, <2>3 DEF CallSound, Working
      <4> QED
        BY <2>4, <3>1, <4>1
    <3>2. CASE d # c
      BY <1>1, <1>4, <2>2, <2>4, <3>2 DEF McpIInv, CallSound
    <3> QED
      BY <3>1, <3>2
  <2> QED
    BY <2>5, <2>6, <2>7, <2>8 DEF McpIInv
<1> QED
  BY <1>3, <1>4 DEF Dial

LEMMA StoreKeeps ==
    ASSUME McpAssumption, McpIInv, NEW c \in ToolCalls, Store(c) PROVE McpIInv'
<1> DEFINE k0 == toolCall[c]
           at == Head(k0.todo)
<1>1. k0.pc = "store" /\ UNCHANGED <<open, erred, shut>>
  BY DEF Store
<1>2. k0 \in CallStates /\ CallSound(k0, pool, open, shut, erred) /\ k0.todo # <<>> /\ k0.own # Nobody
        /\ k0.own \in open /\ (\A s \in Servers : pool[s] # k0.own) /\ k0.own \in Sessions
  BY <1>1 DEF McpIInv, McpTyped, CallSound, Working, CallStates
<1>3. at \in Servers
  BY <1>2 DEF CallStates
<1>4. CASE pool[at] # Nobody
  <2> DEFINE k == [k0 EXCEPT !.pc = "spare", !.sess = pool[at]]
  <2>1. SetCall(c, k) /\ pool' = pool
    BY <1>4 DEF Store, ServerOf
  <2>2. pool[at] \in Sessions /\ pool[at] \in open
    BY <1>3, <1>4 DEF McpIInv, McpTyped, SessionsOwned
  <2> HIDE DEF k0
  <2>3. k \in CallStates /\ k.pc = "spare" /\ k.own = k0.own /\ k.sess = pool[at] /\ k.todo = k0.todo
          /\ k.to = k0.to /\ k.out = k0.out
    BY <1>2, <2>2 DEF CallStates, Working
  <2> HIDE DEF k
  <2>4. /\ toolCall' \in [ToolCalls -> CallStates] /\ toolCall'[c] = k
        /\ \A d \in ToolCalls : d # c => toolCall'[d] = toolCall[d]
    BY <2>1, <2>3, CallIsSet DEF McpIInv
  <2>5. \A d \in ToolCalls : toolCall'[d].own = toolCall[d].own
    BY <2>3, <2>4 DEF k0
  <2>6. McpTyped' /\ OwnsDiffer' /\ SessionsOwned'
    BY <1>1, <2>1, <2>4, <2>5 DEF McpIInv, McpTyped, OwnsDiffer, SessionsOwned
  <2>7. ASSUME NEW d \in ToolCalls PROVE CallSound(toolCall'[d], pool', open', shut', erred')
    <3>1. CallSound(k, pool, open, shut, erred)
      BY <1>1, <1>2, <1>4, <2>2, <2>3 DEF CallSound, Working
    <3> QED
      BY <1>1, <2>1, <2>4, <3>1 DEF McpIInv
  <2> QED
    BY <2>6, <2>7 DEF McpIInv
<1>5. CASE pool[at] = Nobody
  <2> DEFINE k == [k0 EXCEPT !.pc = "sent", !.own = Nobody, !.sess = k0.own]
  <2>1. SetCall(c, k) /\ pool' = [pool EXCEPT ![at] = k0.own]
    BY <1>5 DEF Store, ServerOf
  <2>2. /\ pool' \in [Servers -> Sessions \cup {Nobody}] /\ pool'[at] = k0.own
        /\ \A s \in Servers : s # at => pool'[s] = pool[s]
    BY <1>2, <1>3, <2>1 DEF McpIInv, McpTyped
  <2> HIDE DEF k0, at
  <2>3. k \in CallStates /\ k.pc = "sent" /\ k.own = Nobody /\ k.sess = k0.own /\ k.todo = k0.todo
          /\ k.to = k0.to /\ k.out = k0.out
    BY <1>2 DEF CallStates, Working
  <2> HIDE DEF k
  <2>4. /\ toolCall' \in [ToolCalls -> CallStates] /\ toolCall'[c] = k
        /\ \A d \in ToolCalls : d # c => toolCall'[d] = toolCall[d]
    BY <2>1, <2>3, CallIsSet DEF McpIInv
  <2>5. McpTyped'
    BY <1>1, <2>2, <2>4 DEF McpIInv, McpTyped
  <2>6. OwnsDiffer'
    BY <2>3, <2>4 DEF McpIInv, OwnsDiffer
  <2>7. SessionsOwned'
    <3>1. \A s \in Servers : pool'[s] \in open' \cup {Nobody}
      BY <1>1, <1>2, <2>2 DEF McpIInv, SessionsOwned
    <3>2. ASSUME NEW x \in open' PROVE (\E s \in Servers : pool'[s] = x) \/ (\E d \in ToolCalls : toolCall'[d].own = x)
      <4>1. CASE x = k0.own
        BY <1>3, <2>2, <4>1
      <4>2. CASE x # k0.own
        <5>1. (\E s \in Servers : pool[s] = x) \/ (\E d \in ToolCalls : toolCall[d].own = x)
          BY <1>1 DEF McpIInv, SessionsOwned
        <5>2. x # Nobody
          BY <1>1, SessionsAre DEF McpIInv, McpTyped
        <5>3. \A s \in Servers : pool[s] = x => pool'[s] = x
          BY <1>5, <2>2, <5>2
        <5>4. \A d \in ToolCalls : toolCall[d].own = x => toolCall'[d].own = x
          BY <2>4, <4>2 DEF k0
        <5> QED
          BY <5>1, <5>3, <5>4
      <4> QED
        BY <4>1, <4>2
    <3>3. \A s, t \in Servers : pool'[s] # Nobody /\ pool'[s] = pool'[t] => s = t
      BY <1>2, <2>2 DEF McpIInv, SessionsOwned
    <3> QED
      BY <3>1, <3>2, <3>3 DEF SessionsOwned
  <2>8. ASSUME NEW d \in ToolCalls PROVE CallSound(toolCall'[d], pool', open', shut', erred')
    <3>1. CASE d = c
      <4>1. CallSound(k, pool', open', shut', erred')
        BY <1>1, <1>2, <2>2, <2>3 DEF CallSound, Working, at
      <4> QED
        BY <2>4, <3>1, <4>1
    <3>2. CASE d # c
      <4> DEFINE kd == toolCall[d]
      <4>1. kd.own # Nobody => kd.own # k0.own
        BY <3>2 DEF McpIInv, OwnsDiffer, k0
      <4>2. CallSound(kd, pool, open, shut, erred) /\ kd \in CallStates
        BY DEF McpIInv, McpTyped
      <4>3. kd.pc \in {"sent", "spare"} => Head(kd.todo) \in Servers
        BY <4>2 DEF CallSound, Working, CallStates
      <4>4. kd.pc \in {"sent", "spare"} /\ kd.sess \in open => pool'[Head(kd.todo)] = kd.sess
        BY <1>5, <2>2, <4>2, <4>3 DEF CallSound
      <4> HIDE DEF kd
      <4>5. CallSound(kd, pool', open', shut', erred')
        BY <1>1, <2>2, <4>1, <4>2, <4>4 DEF CallSound
      <4> QED
        BY <2>4, <3>2, <4>5 DEF kd
    <3> QED
      BY <3>1, <3>2
  <2> QED
    BY <2>5, <2>6, <2>7, <2>8 DEF McpIInv
<1> QED
  BY <1>4, <1>5
LEMMA CloseSpareKeeps ==
    ASSUME McpAssumption, McpIInv, NEW c \in ToolCalls, CloseSpare(c) PROVE McpIInv'
<1> DEFINE k0 == toolCall[c]
           k == [k0 EXCEPT !.pc = "sent", !.own = Nobody]
<1>1. k0.pc = "spare" /\ UNCHANGED <<pool, erred, shut>> /\ open' = open \ {k0.own} /\ SetCall(c, k)
  BY DEF CloseSpare
<1>2. k0 \in CallStates /\ CallSound(k0, pool, open, shut, erred) /\ k0.own # Nobody
        /\ k0.todo # <<>> /\ Head(k0.todo) \in Servers /\ (\A s \in Servers : pool[s] # k0.own)
  <2>1. k0 \in CallStates /\ CallSound(k0, pool, open, shut, erred)
    BY DEF McpIInv, McpTyped
  <2>2. k0.own # Nobody /\ k0.todo # <<>> /\ k0.todo \in Seq(Servers) /\ (\A s \in Servers : pool[s] # k0.own)
    BY <1>1, <2>1 DEF CallSound, Working, CallStates
  <2> QED
    BY <2>1, <2>2
<1> HIDE DEF k0
<1>3. k \in CallStates /\ k.pc = "sent" /\ k.own = Nobody /\ k.sess = k0.sess /\ k.todo = k0.todo
        /\ k.to = k0.to /\ k.out = k0.out
  BY <1>2 DEF CallStates, Working
<1> HIDE DEF k
<1>4. /\ toolCall' \in [ToolCalls -> CallStates] /\ toolCall'[c] = k
      /\ \A d \in ToolCalls : d # c => toolCall'[d] = toolCall[d]
  BY <1>1, <1>3, CallIsSet DEF McpIInv
<1>5. McpTyped'
  BY <1>1, <1>4 DEF McpIInv, McpTyped
<1>6. OwnsDiffer'
  BY <1>3, <1>4 DEF McpIInv, OwnsDiffer
<1>7. SessionsOwned'
  <2>1. ASSUME NEW x \in open' PROVE (\E s \in Servers : pool'[s] = x) \/ (\E d \in ToolCalls : toolCall'[d].own = x)
    <3>1. x \in open /\ x # k0.own
      BY <1>1
    <3>2. (\E s \in Servers : pool[s] = x) \/ (\E d \in ToolCalls : toolCall[d].own = x)
      BY <3>1 DEF McpIInv, SessionsOwned
    <3>3. \A d \in ToolCalls : toolCall[d].own = x => d # c
      BY <3>1 DEF k0
    <3> QED
      BY <1>1, <1>4, <3>2, <3>3
  <2>2. \A s \in Servers : pool'[s] \in open' \cup {Nobody}
    BY <1>1, <1>2 DEF McpIInv, SessionsOwned
  <2>3. \A s, t \in Servers : pool'[s] # Nobody /\ pool'[s] = pool'[t] => s = t
    BY <1>1 DEF McpIInv, SessionsOwned
  <2> QED
    BY <2>1, <2>2, <2>3 DEF SessionsOwned
\* The spare session is nobody's but this call's: the sessions that calls use are
\* in the pool or no longer connected.
<1>8. ASSUME NEW d \in ToolCalls PROVE CallSound(toolCall'[d], pool', open', shut', erred')
  <2> DEFINE kd == toolCall[d]
  <2>1. CallSound(kd, pool, open, shut, erred) /\ kd \in CallStates
    BY DEF McpIInv, McpTyped
  <2>2. kd.pc \in {"sent", "spare"} => Head(kd.todo) \in Servers
    BY <2>1 DEF CallSound, Working, CallStates
  <2>3. kd.pc \in {"sent", "spare"} /\ kd.sess \in open => kd.sess # k0.own
    BY <1>2, <2>1, <2>2 DEF CallSound
  <2>4. CASE d = c
    <3>1. CallSound(k, pool', open', shut', erred')
      BY <1>1, <1>2, <1>3, <2>3, <2>4 DEF CallSound, Working, k0
    <3> QED
      BY <1>4, <2>4, <3>1
  <2>5. CASE d # c
    <3>1. kd.own # Nobody => kd.own # k0.own
      BY <2>5 DEF McpIInv, OwnsDiffer, k0
    <3> HIDE DEF kd
    <3>2. CallSound(kd, pool', open', shut', erred')
      BY <1>1, <2>1, <2>3, <3>1 DEF CallSound
    <3> QED
      BY <1>4, <2>5, <3>2 DEF kd
  <2> QED
    BY <2>4, <2>5
<1> QED
  BY <1>5, <1>6, <1>7, <1>8 DEF McpIInv

LEMMA AnswerKeeps ==
    ASSUME McpAssumption, McpIInv, NEW c \in ToolCalls, ServerAnswers(c) PROVE McpIInv'
<1> DEFINE k0 == toolCall[c]
           at == Head(k0.todo)
           cut == [k0 EXCEPT !.pc = "drop", !.out = "closed"]
<1>1. k0.pc = "sent" /\ UNCHANGED <<pool, open, shut>>
  BY DEF ServerAnswers
<1>2. k0 \in CallStates /\ CallSound(k0, pool, open, shut, erred) /\ k0.own = Nobody
        /\ k0.todo # <<>> /\ at \in Servers
  <2>1. k0 \in CallStates /\ CallSound(k0, pool, open, shut, erred)
    BY DEF McpIInv, McpTyped
  <2>2. k0.own = Nobody /\ k0.todo # <<>> /\ k0.todo \in Seq(Servers)
    BY <1>1, <2>1 DEF CallSound, Working, CallStates
  <2> QED
    BY <2>1, <2>2
<1>3. k0.to # Nobody => k0.todo = <<k0.to>> /\ at = k0.to
  BY <1>1, <1>2 DEF CallSound, Working
<1>4. CASE Left(c, "ok") /\ UNCHANGED erred
  <2>1. \E k \in CallStates : SetCall(c, k) /\ k.own = Nobody /\ CallSound(k, pool, open, shut, erred)
    BY <1>2, <1>3, <1>4, LeftKeeps DEF McpIInv
  <2> QED
    BY <1>1, <1>2, <1>4, <2>1, CallSteps DEF McpIInv, McpTyped
<1>5. ASSUME erred' = erred \cup {at}, SetCall(c, [k0 EXCEPT !.pc = "drop", !.out = "failed"])
      PROVE  McpIInv'
  <2> DEFINE over == [k0 EXCEPT !.pc = "drop", !.out = "failed"]
  <2> HIDE DEF k0
  <2>1. over \in CallStates /\ over.pc = "drop" /\ over.own = Nobody /\ over.todo = k0.todo
          /\ over.to = k0.to /\ over.out = "failed"
    BY <1>2 DEF CallStates, Working
  <2>2. CallSound(over, pool, open, shut, erred')
    BY <1>2, <1>3, <1>5, <2>1 DEF CallSound, Working
  <2>3. SetCall(c, over)
    BY <1>5 DEF k0
  <2> HIDE DEF over
  <2>4. erred \subseteq erred' /\ erred' \subseteq Servers
    BY <1>2, <1>5 DEF McpIInv, McpTyped
  <2> QED
    BY <1>1, <1>2, <2>1, <2>2, <2>3, <2>4, CallSteps DEF k0
<1>6. CASE k0.sess \notin open /\ UNCHANGED erred /\ SetCall(c, cut)
  <2> HIDE DEF k0
  <2>1. cut \in CallStates /\ cut.pc = "drop" /\ cut.own = Nobody /\ cut.todo = k0.todo
          /\ cut.to = k0.to /\ cut.out = "closed"
    BY <1>2 DEF CallStates, Working
  <2>2. shut \/ at \in erred
    BY <1>1, <1>2, <1>6 DEF CallSound
  <2>3. CallSound(cut, pool, open, shut, erred')
    BY <1>2, <1>3, <1>6, <2>1, <2>2 DEF CallSound, Working
  <2> HIDE DEF cut
  <2>4. erred \subseteq erred' /\ erred' \subseteq Servers
    BY <1>6 DEF McpIInv, McpTyped
  <2> QED
    BY <1>1, <1>2, <1>6, <2>1, <2>3, <2>4, CallSteps DEF k0
<1> QED
  BY <1>4, <1>5, <1>6 DEF ServerAnswers, ServerOf

LEMMA DropKeeps ==
    ASSUME McpAssumption, McpIInv, NEW c \in ToolCalls, Drop(c) PROVE McpIInv'
<1> DEFINE k0 == toolCall[c]
           at == Head(k0.todo)
<1>1. /\ k0.pc = "drop" /\ UNCHANGED <<erred, shut>> /\ Left(c, k0.out)
      /\ open' = open \ {pool[at]} /\ pool' = [pool EXCEPT ![at] = Nobody]
  BY DEF Drop, ServerOf
<1>2. k0 \in CallStates /\ CallSound(k0, pool, open, shut, erred) /\ k0.own = Nobody
        /\ k0.todo # <<>> /\ at \in Servers /\ (shut \/ at \in erred)
  <2>1. k0 \in CallStates /\ CallSound(k0, pool, open, shut, erred)
    BY DEF McpIInv, McpTyped
  <2>2. k0.own = Nobody /\ k0.todo # <<>> /\ k0.todo \in Seq(Servers) /\ (shut \/ at \in erred)
    BY <1>1, <2>1 DEF CallSound, Working, CallStates
  <2> QED
    BY <2>1, <2>2
<1>3. /\ pool' \in [Servers -> Sessions \cup {Nobody}] /\ pool'[at] = Nobody
      /\ \A s \in Servers : s # at => pool'[s] = pool[s]
  BY <1>1, <1>2 DEF McpIInv, McpTyped
<1>4. PICK k \in CallStates : SetCall(c, k) /\ k.own = Nobody /\ CallSound(k, pool', open', shut, erred)
  <2>1. k0.to # Nobody => /\ k0.out # "refused" /\ k0.todo = <<k0.to>>
                          /\ k0.out = "closed" => shut \/ k0.to \in erred
    BY <1>1, <1>2 DEF CallSound, Working
  <2>2. k0.out \in {"none", "ok", "refused", "failed", "closed"}
    BY <1>2 DEF CallStates
  <2> HIDE DEF at
  <2> QED
    BY <1>1, <1>2, <2>1, <2>2, LeftKeeps DEF McpIInv
<1>5. /\ toolCall' \in [ToolCalls -> CallStates] /\ toolCall'[c] = k
      /\ \A d \in ToolCalls : d # c => toolCall'[d] = toolCall[d]
  BY <1>4, CallIsSet DEF McpIInv
<1>6. McpTyped'
  BY <1>1, <1>3, <1>5 DEF McpIInv, McpTyped
<1>7. OwnsDiffer'
  BY <1>4, <1>5 DEF McpIInv, OwnsDiffer
<1> HIDE DEF at
<1>8. SessionsOwned'
  <2>1. ASSUME NEW x \in open' PROVE (\E s \in Servers : pool'[s] = x) \/ (\E d \in ToolCalls : toolCall'[d].own = x)
    <3>1. x \in open /\ x # pool[at] /\ x # Nobody
      BY <1>1, SessionsAre DEF McpIInv, McpTyped
    <3>2. (\E s \in Servers : pool[s] = x) \/ (\E d \in ToolCalls : toolCall[d].own = x)
      BY <3>1 DEF McpIInv, SessionsOwned
    <3>3. \A d \in ToolCalls : toolCall[d].own = x => d # c
      BY <1>2, <3>1
    <3>4. \A s \in Servers : pool[s] = x => s # at
      BY <3>1
    <3> QED
      BY <1>3, <1>5, <3>2, <3>3, <3>4
  <2>2. \A s \in Servers : pool'[s] \in open' \cup {Nobody}
    BY <1>1, <1>2, <1>3 DEF McpIInv, SessionsOwned
  <2>3. \A s, t \in Servers : pool'[s] # Nobody /\ pool'[s] = pool'[t] => s = t
    BY <1>3 DEF McpIInv, SessionsOwned
  <2> QED
    BY <2>1, <2>2, <2>3 DEF SessionsOwned
\* Who uses the session that goes away works on the same server.
<1>9. ASSUME NEW d \in ToolCalls PROVE CallSound(toolCall'[d], pool', open', shut', erred')
  <2>1. CASE d = c
    BY <1>1, <1>4, <1>5, <2>1
  <2>2. CASE d # c
    <3> DEFINE kd == toolCall[d]
    <3>1. CallSound(kd, pool, open, shut, erred) /\ kd \in CallStates
      BY DEF McpIInv, McpTyped
    <3>2. kd.pc \in {"sent", "spare"} => Head(kd.todo) \in Servers
      BY <3>1 DEF CallSound, Working, CallStates
    <3>3. kd.own # Nobody => kd.own # pool[at]
      BY <1>2, <3>1 DEF CallSound
    <3>4. kd.pc \in {"sent", "spare"} =>
            /\ kd.sess # Nobody
            /\ kd.sess \in open' => pool'[Head(kd.todo)] = kd.sess
            /\ kd.sess \notin open' => shut \/ Head(kd.todo) \in erred
      <4> SUFFICES ASSUME kd.pc \in {"sent", "spare"} PROVE
              /\ kd.sess # Nobody
              /\ kd.sess \in open' => pool'[Head(kd.todo)] = kd.sess
              /\ kd.sess \notin open' => shut \/ Head(kd.todo) \in erred
        OBVIOUS
      <4>1. kd.sess # Nobody /\ (kd.sess \in open => pool[Head(kd.todo)] = kd.sess)
              /\ (kd.sess \notin open => shut \/ Head(kd.todo) \in erred)
        BY <3>1 DEF CallSound
      <4> HIDE DEF kd
      <4>2. CASE kd.sess \in open /\ kd.sess = pool[at]
        <5>1. Head(kd.todo) = at
          BY <1>2, <3>2, <4>1, <4>2 DEF McpIInv, SessionsOwned
        <5> QED
          BY <1>1, <1>2, <4>1, <4>2, <5>1
      <4>3. CASE kd.sess \in open /\ kd.sess # pool[at]
        <5>1. Head(kd.todo) # at
          BY <4>1, <4>3
        <5> QED
          BY <1>1, <1>3, <3>2, <4>1, <4>3, <5>1
      <4>4. CASE kd.sess \notin open
        BY <1>1, <4>1, <4>4
      <4> QED
        BY <4>2, <4>3, <4>4
    <3>5. kd.own # Nobody => kd.own \in open' /\ \A s \in Servers : pool'[s] # kd.own
      BY <1>1, <1>3, <3>1, <3>3 DEF CallSound
    <3> HIDE DEF kd
    <3>6. CallSound(kd, pool', open', shut', erred')
      BY <1>1, <3>1, <3>4, <3>5 DEF CallSound
    <3> QED
      BY <1>5, <2>2, <3>6 DEF kd
  <2> QED
    BY <2>1, <2>2
<1> QED
  BY <1>6, <1>7, <1>8, <1>9 DEF McpIInv

LEMMA CloseKeeps == ASSUME McpAssumption, McpIInv, Close PROVE McpIInv'
<1>1. /\ shut' = TRUE /\ open' = open \ {pool[s] : s \in Servers} /\ UNCHANGED <<toolCall, erred>>
      /\ pool' = [s \in Servers |-> Nobody]
  BY DEF Close
<1>2. McpTyped' /\ OwnsDiffer'
  BY <1>1 DEF McpIInv, McpTyped, OwnsDiffer
<1>3. SessionsOwned'
  BY <1>1 DEF McpIInv, SessionsOwned
<1>4. ASSUME NEW d \in ToolCalls PROVE CallSound(toolCall'[d], pool', open', shut', erred')
  <2> DEFINE kd == toolCall[d]
  <2>1. CallSound(kd, pool, open, shut, erred) /\ kd \in CallStates
    BY DEF McpIInv, McpTyped
  <2>2. kd.pc \in {"sent", "spare"} => Head(kd.todo) \in Servers
    BY <2>1 DEF CallSound, Working, CallStates
  <2>3. kd.own # Nobody => kd.own \in open' /\ \A s \in Servers : pool'[s] # kd.own
    BY <1>1, <2>1 DEF CallSound
  <2>4. kd.pc \in {"sent", "spare"} => kd.sess # Nobody /\ kd.sess \notin open'
    BY <1>1, <2>1, <2>2 DEF CallSound
  <2> HIDE DEF kd
  <2>5. CallSound(kd, pool', open', shut', erred')
    BY <1>1, <2>1, <2>3, <2>4 DEF CallSound
  <2> QED
    BY <1>1, <2>5 DEF kd
<1> QED
  BY <1>2, <1>3, <1>4 DEF McpIInv

LEMMA McpStepIInv == ASSUME McpAssumption, McpIInv, [McpNext]_mcpVars PROVE McpIInv'
<1>1. CASE UNCHANGED mcpVars
  BY <1>1 DEF mcpVars, McpIInv, McpTyped, OwnsDiffer, SessionsOwned
<1> QED
  BY <1>1, CallToolKeeps, ListToolsKeeps, LooksUpKeeps, DialKeeps, StoreKeeps, CloseSpareKeeps,
     AnswerKeeps, DropKeeps, CloseKeeps DEF McpNext

\* Every session has one owner, and a call's session stays in the pool until a call
\* of its server ends in an error or the manager is shut (Manager.session,
\* dropSession, Close).
THEOREM McpInductive == ASSUME McpAssumption PROVE McpSpec => []McpIInv
BY McpInitIInv, McpStepIInv, PTL DEF McpSpec

\* The types of the pool, the connected sessions and the calls are kept by every step.
THEOREM McpTypeCorrect == ASSUME McpAssumption PROVE McpSpec => []McpTypeOK
<1>1. McpIInv => McpTypeOK
  <2> SUFFICES ASSUME McpTyped PROVE McpTypeOK
    BY DEF McpIInv
  <2>1. ASSUME NEW c \in ToolCalls PROVE Range(toolCall[c].todo) \subseteq Servers
    <3>1. toolCall[c].todo \in Seq(Servers)
      BY DEF McpTyped, CallStates
    <3> QED
      BY <3>1, LenProperties, ElementOfSeq DEF Range
  <2> QED
    BY <2>1 DEF McpTyped, McpTypeOK, CallStates, Working
<1> QED
  BY <1>1, McpInductive, PTL

\* For any number of calls and servers: a connected session is in the pool, once, or
\* is the spare one of a call that is about to store or close it, and the pool has
\* connected sessions only (Manager.session dials outside its mutex).
THEOREM NoSessionLost == ASSUME McpAssumption PROVE McpSpec => []SessionsOwned
<1>1. McpIInv => SessionsOwned
  BY DEF McpIInv
<1> QED
  BY <1>1, McpInductive, PTL

\* A number is free for every dial: a bounded set of sessions is enough.
THEOREM DialFindsNumber == ASSUME McpAssumption PROVE McpSpec => [](Sessions \ InUse # {})
<1>1. McpAssumption /\ McpIInv => Sessions \ InUse # {}
  BY FreshSession DEF McpIInv
<1> QED
  BY <1>1, McpInductive, PTL

\* A tool that the listing calls allowed is never refused, by server and name or by
\* a listed name that leads back to it, and a call of it finds its session closed
\* only after some call of its server ended in an error or the manager was shut
\* (CheckCallAllowed with and without the description, Namespace, ParseNamespaced).
THEOREM ListedIsCallable == ASSUME McpAssumption PROVE McpSpec => []ListedCallWorks
<1>1. McpIInv => ListedCallWorks
  BY DEF McpIInv, CallSound, ListedCallWorks
<1> QED
  BY <1>1, McpInductive, PTL

-----------------------------------------------------------------------------
(* The services side by side *)

\* A step of one service is a step of it and a stutter of the others.
LEMMA ServicesStep ==
    ASSUME [Next]_vars
    PROVE  /\ [SettingsNext]_settingsVars /\ [McpNext]_mcpVars /\ [PagesNext]_pagesVars
           /\ [AttachmentsNext]_attachmentsVars /\ [DocsNext]_docsVars
           /\ [AccountsNext]_accountsVars /\ [EffortNext]_effortVars /\ [PickerNext]_pickerVars
           /\ focus' = focus
BY DEF Next, Rest, vars

\* What MCServices runs is a behaviour of each service's own specification.
THEOREM ServicesRunEach ==
    Spec => /\ SettingsSpec /\ McpSpec /\ PagesSpec /\ AttachmentsSpec
            /\ DocsSpec /\ AccountsSpec /\ EffortSpec /\ PickerSpec
<1>1. Init => /\ SettingsInit /\ McpInit /\ PagesInit /\ AttachmentsInit
              /\ DocsInit /\ AccountsInit /\ EffortInit /\ PickerInit
  BY DEF Init
<1>2. [Next]_vars => /\ [SettingsNext]_settingsVars /\ [McpNext]_mcpVars /\ [PagesNext]_pagesVars
                     /\ [AttachmentsNext]_attachmentsVars /\ [DocsNext]_docsVars
                     /\ [AccountsNext]_accountsVars /\ [EffortNext]_effortVars
                     /\ [PickerNext]_pickerVars
  BY ServicesStep
<1> QED
  BY <1>1, <1>2, PTL DEF Spec, SettingsSpec, McpSpec, PagesSpec, AttachmentsSpec, DocsSpec,
     AccountsSpec, EffortSpec, PickerSpec

\* Every service has its type, in focus or at rest.
THEOREM ServicesTypeCorrect ==
    ASSUME NoneIsNoDocument PROVE Spec => []TypeOK
<1>1. /\ SettingsAssumption /\ McpAssumption /\ AttachmentsAssumption
      /\ DocsAssumption /\ AccountsAssumption /\ EffortAssumption /\ PickerAssumption
  BY ServicesAssumption
<1>2. Init => focus \in Services
  BY DEF Init
<1>3. focus \in Services /\ [Next]_vars => (focus \in Services)'
  BY ServicesStep
<1>4. /\ focus \in Services /\ SettingsTypeOK /\ McpTypeOK /\ PagesTypeOK /\ AttachmentsTypeOK
      /\ DocsTypeOK /\ AccountsTypeOK /\ EffortTypeOK /\ PickerTypeOK
      => TypeOK
  BY DEF TypeOK, Services
<1>5. SettingsSpec => []SettingsTypeOK
  BY <1>1, SettingsTypeCorrect
<1>6. McpSpec => []McpTypeOK
  BY <1>1, McpTypeCorrect
<1>7. DocsSpec => []DocsTypeOK
  BY <1>1, DocsTypeCorrect
<1>8. AccountsSpec => []AccountsTypeOK
  BY <1>1, AccountsTypeCorrect
<1>9. EffortSpec => []EffortTypeOK
  BY <1>1, EffortTypeCorrect
<1>10. PickerSpec => []PickerTypeOK
  BY <1>1, PickerTypeCorrect
<1> QED
  BY <1>2, <1>3, <1>4, <1>5, <1>6, <1>7, <1>8, <1>9, <1>10, PagesTypeCorrect, AttachmentsTypeCorrect,
     ServicesRunEach, PTL DEF Spec

\* ... and keeps its promises there: no two services share a variable, so none of
\* them needs a word about what the others do.
THEOREM ServicesSafe ==
    ASSUME NoneIsNoDocument
    PROVE  Spec => [](/\ RunningIsDurable /\ DocumentSound /\ SessionsOwned /\ ListedCallWorks
                      /\ PublishedOnRequest /\ ListedIsReadable /\ UsableIsCurrent /\ LoginsSound
                      /\ EffortFits /\ PickedIsServed)
<1>1. /\ SettingsAssumption /\ McpAssumption /\ AttachmentsAssumption
      /\ DocsAssumption /\ AccountsAssumption /\ EffortAssumption /\ PickerAssumption
  BY ServicesAssumption
<1>2. SettingsSpec => []RunningIsDurable
  BY <1>1, RunsWhatIsStored
<1>3. SettingsSpec => []DocumentSound
  BY <1>1, Sound
<1>4. McpSpec => []SessionsOwned
  BY <1>1, NoSessionLost
<1>5. McpSpec => []ListedCallWorks
  BY <1>1, ListedIsCallable
<1>6. AttachmentsSpec => []ListedIsReadable
  BY <1>1, ListedReadable
<1>7. DocsSpec => []UsableIsCurrent
  BY <1>1, IndexCurrent
<1>8. AccountsSpec => []LoginsSound
  BY <1>1, LoginsHold
<1>9. EffortSpec => []EffortFits
  BY <1>1, SentEffortFits
<1>10. PickerSpec => []PickedIsServed
  BY <1>1, PickServed
<1> QED
  BY <1>2, <1>3, <1>4, <1>5, <1>6, <1>7, <1>8, <1>9, <1>10, PublishedByRequest, ServicesRunEach, PTL
=============================================================================
