--------------------------------- MODULE Pages ---------------------------------
(***************************************************************************)
(* Static pages: the page tools and the actions of the page panel           *)
(* (tools/pages.go, tools/pages_ui.go) on one page id.  A page is a         *)
(* directory; it is published while .published holds a link with its name,  *)
(* so the link of a page that is gone would publish the next one.  Nothing  *)
(* is locked: calls of other threads run between any two file operations,   *)
(* each of which may fail; whether a page is published is answered with no  *)
(* when it cannot be found out.                                             *)
(***************************************************************************)
EXTENDS Integers, FiniteSets

CONSTANTS
    Calls,        \* calls, of any thread or of the panel
    Kinds(_)      \* what a call may be

VARIABLES
    dir,          \* the page's directory: "none", "partial", "whole"
    text,         \* its index.html: "none", "torn", "whole"
    link,         \* the marker in .published exists
    call,
    wanted,       \* ghost: this page was published, and not unpublished since
    crossed,      \* ghost: publishes during which the page was deleted
    stray         \* ghost: the marker was set by such a publish, or by one that a delete did
                  \* not see, or a delete could not look at it

pagesVars == <<dir, text, link, call, wanted, crossed, stray>>

PageKinds == {"create", "edit", "replace", "publish", "unpublish", "delete"}

PagesInit ==
    /\ dir = "none" /\ text = "none" /\ link = FALSE
    /\ call \in [Calls -> [kind : PageKinds, pc : {"start"}]]
    /\ \A c \in Calls : call[c].kind \in Kinds(c)
    /\ wanted = FALSE /\ crossed = {} /\ stray = FALSE

At(c, kind, pc) == call[c].kind = kind /\ call[c].pc = pc
Goes(c, pc) == call' = [call EXCEPT ![c].pc = pc]
Ends(c) == Goes(c, "ok")
Fails(c) == Goes(c, "failed")
Pages == <<dir, text, link>>
Ghosts == <<wanted, crossed, stray>>

(* The marker leads to the page's own directory.  Where the code asks, the  *)
(* answer may be no all the same.                                           *)
IsPublished == dir # "none" /\ link

-----------------------------------------------------------------------------
(* page_create: the directory, its assets, the starter files in the order   *)
(* of a map.  What a failure leaves is not removed.                         *)

CreateLooks(c) ==
    /\ At(c, "create", "start")
    /\ \/ dir = "none" /\ Goes(c, "mkdir")
       \/ Fails(c)
    /\ UNCHANGED <<Pages, Ghosts>>

CreateMakes(c) ==
    /\ At(c, "create", "mkdir")
    /\ \/ /\ dir = "none" /\ Goes(c, "fill")
          /\ dir' = "partial" /\ text' = "none" /\ wanted' = FALSE
          /\ UNCHANGED <<link, crossed, stray>>
       \/ Fails(c) /\ UNCHANGED <<Pages, Ghosts>>

(* The files need the directory, which a delete may have removed.           *)
CreateFills(c) ==
    /\ At(c, "create", "fill")
    /\ \/ /\ dir # "none" /\ dir' = "whole" /\ text' = "whole" /\ Ends(c)
       \/ /\ Fails(c) /\ UNCHANGED dir
          /\ text' \in {text} \cup (IF dir = "none" THEN {} ELSE {"torn", "whole"})
    /\ UNCHANGED <<link, Ghosts>>

-----------------------------------------------------------------------------
(* page_edit: pageFile checks the path; "edit" overwrites the file or       *)
(* appends to it, "replace" reads the text first and may not find its place *)
(* there.  A file that is overwritten is truncated before it is written.    *)

PageFile == dir # "none"
Readable == PageFile /\ text # "none"

EditLooks(c) ==
    /\ \/ At(c, "edit", "start") /\ PageFile /\ Goes(c, "open")
       \/ At(c, "replace", "start") /\ Readable /\ Goes(c, "open")
       \/ (At(c, "edit", "start") \/ At(c, "replace", "start")) /\ Fails(c)
    /\ UNCHANGED <<Pages, Ghosts>>

EditOpens(c) ==
    /\ call[c].kind \in {"edit", "replace"} /\ call[c].pc = "open"
    /\ \/ dir # "none" /\ text' = "torn" /\ Goes(c, "write")
       \/ call[c].kind = "edit" /\ Readable /\ Goes(c, "write") /\ UNCHANGED text
       \/ Fails(c) /\ UNCHANGED text
    /\ UNCHANGED <<dir, link, Ghosts>>

(* A plausible slip: the write makes the file again that a delete removed.  *)
EditWrites_m(c) ==
    /\ call[c].kind \in {"edit", "replace"} /\ call[c].pc = "write"
    /\ text' = "whole" /\ Ends(c)
    /\ UNCHANGED <<dir, link, Ghosts>>

(* An open file may be written although it was removed meanwhile.           *)
EditWrites(c) ==
    /\ call[c].kind \in {"edit", "replace"} /\ call[c].pc = "write"
    /\ \/ Ends(c) /\ text' = IF text = "none" THEN "none" ELSE "whole"
       \/ Fails(c) /\ text' \in {text} \cup (IF text = "none" THEN {} ELSE {"torn"})
    /\ UNCHANGED <<dir, link, Ghosts>>

-----------------------------------------------------------------------------
(* page_publish. *)

PublishLooks(c) ==
    /\ At(c, "publish", "start")
    /\ \/ dir # "none" /\ Goes(c, "marker")
       \/ Fails(c)
    /\ UNCHANGED <<Pages, Ghosts>>

(* A marker that is not seen to lead to this page is a conflict.            *)
PublishLooksAtMarker(c) ==
    /\ At(c, "publish", "marker")
    /\ \/ ~link /\ Goes(c, "link")
       \/ IsPublished /\ Ends(c)
       \/ Fails(c)
    /\ UNCHANGED <<Pages, Ghosts>>

(* Deletes that have found the page unpublished, or have unpublished it.    *)
Removing == {d \in Calls : At(d, "delete", "remove")}

PublishLinks(c) ==
    /\ At(c, "publish", "link")
    /\ \/ /\ ~link /\ link' = TRUE /\ Ends(c)
          /\ wanted' = TRUE
          /\ stray' = (c \in crossed \/ Removing # {})
       \/ Fails(c) /\ UNCHANGED <<link, wanted, stray>>
    /\ UNCHANGED <<dir, text, crossed>>

-----------------------------------------------------------------------------
(* page_unpublish, alone or as a part of the delete, which goes on to       *)
(* remove the directory.                                                    *)

Unpublishes == {"unpublish", "delete"}
Unpublished(c) == IF call[c].kind = "delete" THEN Goes(c, "remove") ELSE Ends(c)

DeleteLooks(c) ==
    /\ At(c, "delete", "start")
    /\ \/ dir # "none" /\ Goes(c, "published")
       \/ Fails(c)
    /\ UNCHANGED <<Pages, Ghosts>>

(* A plausible slip: the delete does not unpublish.                         *)
DeleteLooksAtMarker_m(c) ==
    /\ At(c, "delete", "published")
    /\ Goes(c, "remove")
    /\ UNCHANGED <<Pages, Ghosts>>

(* A failed look counts as "not published": the marker stays.               *)
DeleteLooksAtMarker(c) ==
    /\ At(c, "delete", "published")
    /\ \/ IsPublished /\ Goes(c, "marker") /\ UNCHANGED stray
       \/ Goes(c, "remove") /\ stray' = (stray \/ IsPublished)
    /\ UNCHANGED <<Pages, wanted, crossed>>

UnpublishLooks(c) ==
    /\ At(c, "unpublish", "start") \/ At(c, "delete", "marker")
    /\ \/ ~link /\ Unpublished(c)
       \/ IsPublished /\ Goes(c, "unlink")
       \/ Fails(c)
    /\ UNCHANGED <<Pages, Ghosts>>

UnpublishUnlinks(c) ==
    /\ call[c].kind \in Unpublishes /\ call[c].pc = "unlink"
    /\ \/ /\ link /\ link' = FALSE /\ Unpublished(c)
          /\ wanted' = FALSE /\ stray' = FALSE
       \/ Fails(c) /\ UNCHANGED <<link, wanted, stray>>
    /\ UNCHANGED <<dir, text, crossed>>

(* os.RemoveAll may stop halfway.                                           *)
DeleteRemoves(c) ==
    /\ At(c, "delete", "remove")
    /\ \/ /\ Ends(c) /\ dir' = "none" /\ text' = "none" /\ wanted' = FALSE
          /\ crossed' = crossed \cup 
                          {d \in Calls : At(d, "publish", "marker") \/ At(d, "publish", "link")}
       \/ /\ Fails(c) /\ UNCHANGED <<wanted, crossed>>
          /\ dir' = (IF dir = "none" THEN "none" ELSE "partial") /\ text' \in {text, "none"}
    /\ UNCHANGED <<link, stray>>

PagesNext ==
    \E c \in Calls :
        \/ CreateLooks(c) \/ CreateMakes(c) \/ CreateFills(c)
        \/ EditLooks(c) \/ EditOpens(c) \/ EditWrites(c)
        \/ PublishLooks(c) \/ PublishLooksAtMarker(c) \/ PublishLinks(c)
        \/ DeleteLooks(c) \/ DeleteLooksAtMarker(c) \/ DeleteRemoves(c)
        \/ UnpublishLooks(c) \/ UnpublishUnlinks(c)

PagesSpec == PagesInit /\ [][PagesNext]_pagesVars

-----------------------------------------------------------------------------
PageSteps == {"start", "mkdir", "fill", "open", "write", "marker", "link", "published",
              "unlink", "remove", "ok", "failed"}

PagesTypeOK ==
    /\ dir \in {"none", "partial", "whole"} /\ text \in {"none", "torn", "whole"}
    /\ dir = "none" => text = "none"
    /\ call \in [Calls -> [kind : PageKinds, pc : PageSteps]]
    /\ link \in BOOLEAN /\ wanted \in BOOLEAN /\ crossed \subseteq Calls /\ stray \in BOOLEAN

(* A page is published only because somebody published this page, not one   *)
(* of the same id that was deleted since - unless its marker outlived a     *)
(* delete in one of the two ways the code leaves open: a publish overlapped *)
(* the delete, or the delete could not find out that the page was published.*)
(* An unpublish ends the exception with the marker.                         *)
PublishedOnRequest == IsPublished => wanted \/ stray
=============================================================================
