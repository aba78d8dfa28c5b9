------------------------------ MODULE Attachments ------------------------------
(***************************************************************************)
(* Attachments of a thread: uploads (repository/attachments/store.go) and   *)
(* what list and the tools read_attachment and read_image say of them       *)
(* (tools/attachments.go).  An upload writes its data and then the metadata *)
(* that makes it visible; neither file is written atomically, and the       *)
(* process may die at any point.                                            *)
(***************************************************************************)
EXTENDS Integers, Sequences

CONSTANTS
    Uploads,      \* uploads, each with an id of its own
    Upload,       \* Upload[u]: size and kind
    MaxBytes,     \* limit of an upload
    PixelBytes,   \* limit of an image whose pixels are shown to the model
    Pixels        \* the vision policy allows pixels

AttachmentsAssumption ==
    /\ MaxBytes \in Nat \ {0} /\ PixelBytes \in Nat /\ Pixels \in BOOLEAN
    /\ \A u \in Uploads : Upload[u].size \in Nat /\ Upload[u].kind \in {"text", "image", "other"}

VARIABLES
    files,        \* files[u][f]: "none", "torn" or "whole"
    step,         \* step[u]: where the upload is
    late          \* ghost: uploads whose metadata was complete when writing it failed

attachmentsVars == <<files, step, late>>

(* A plausible slip: the upload is visible before its data are.             *)
SaveOrder_m == <<"meta", "data">>

(* The files that Save writes.                                              *)
SaveOrder == <<"data", "meta">>
Files == {"data", "meta"}
Steps == {"start", "refused", "open1", "fill1", "open2", "fill2", "undo", "failed", "ok", "dead"}

AttachmentsInit ==
    /\ files = [u \in Uploads |-> [f \in Files |-> "none"]]
    /\ step = [u \in Uploads |-> "start"] /\ late = {}

Moves(u, s) == step' = [step EXCEPT ![u] = s]
Holds(u, f, what) == files' = [files EXCEPT ![u][f] = what]

Accepted(u) == Upload[u].size \in 1..MaxBytes /\ Upload[u].kind # "other"

Save(u) ==
    /\ step[u] = "start"
    /\ Moves(u, IF Accepted(u) THEN "open1" ELSE "refused")
    /\ UNCHANGED <<files, late>>

(* os.WriteFile creates the file, fills it and closes it; an error leaves   *)
(* what was written, which may be all of it.                                *)
Opens(u, f, at, next, undo) ==
    /\ step[u] = at
    /\ \/ Holds(u, f, "torn") /\ Moves(u, next)
       \/ Moves(u, undo) /\ UNCHANGED files
    /\ UNCHANGED late

Fills(u, f, at, next, undo) ==
    /\ step[u] = at
    /\ \/ Holds(u, f, "whole") /\ Moves(u, next) /\ UNCHANGED late
       \/ Moves(u, undo) /\ UNCHANGED <<files, late>>
       \/ /\ Holds(u, f, "whole") /\ Moves(u, undo)
          /\ late' = IF undo = "undo" THEN late \cup {u} ELSE late

(* Without metadata the data are removed, if that works.                    *)
Undo(u) ==
    /\ step[u] = "undo" /\ Moves(u, "failed")
    /\ Holds(u, SaveOrder[1], "none") \/ UNCHANGED files
    /\ UNCHANGED late

UploadDies(u) ==
    /\ step[u] \notin {"start", "refused", "failed", "ok", "dead"}
    /\ Moves(u, "dead") /\ UNCHANGED <<files, late>>

AttachmentsNext ==
    \E u \in Uploads :
        \/ Save(u) \/ Undo(u) \/ UploadDies(u)
        \/ Opens(u, SaveOrder[1], "open1", "fill1", "failed")
        \/ Fills(u, SaveOrder[1], "fill1", "open2", "failed")
        \/ Opens(u, SaveOrder[2], "open2", "fill2", "undo")
        \/ Fills(u, SaveOrder[2], "fill2", "ok", "undo")

AttachmentsSpec == AttachmentsInit /\ [][AttachmentsNext]_attachmentsVars

-----------------------------------------------------------------------------
(* What readers see. *)

(* List and ResolvePath skip metadata that they cannot parse.               *)
Listed(u) == files[u]["meta"] = "whole"
Get(u) == Listed(u) /\ files[u]["data"] # "none"

ReadAttachment(u) == Get(u) /\ Upload[u].kind = "text"
ReadImage(u) == Get(u) /\ Upload[u].kind = "image"
PixelsShown(u) == ReadImage(u) /\ Upload[u].size <= PixelBytes /\ Pixels

-----------------------------------------------------------------------------
AttachmentsTypeOK ==
    /\ files \in [Uploads -> [Files -> {"none", "torn", "whole"}]]
    /\ step \in [Uploads -> Steps] /\ late \subseteq Uploads

(* What the thread lists can be read, in full and by exactly one of the two *)
(* tools, whatever failed or died on the way; and an upload that was        *)
(* answered with success is listed.  Excepted is an upload whose metadata   *)
(* were complete when writing them was reported as failed.                  *)
ListedIsReadable ==
    \A u \in Uploads \ late :
        /\ step[u] = "ok" => Listed(u)
        /\ Listed(u) => /\ files[u]["data"] = "whole"
                        /\ ReadAttachment(u) # ReadImage(u)
=============================================================================
