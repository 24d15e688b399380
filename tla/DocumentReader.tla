--------------------------- MODULE DocumentReader ---------------------------
(***************************************************************************)
(* One call of read_document() (src/document.cpp) and what it calls:       *)
(* read_tiff(), and run_process(), which runs the converter and the        *)
(* Poppler tools as process groups of their own, reads their output from a *)
(* pipe, and gives up at a deadline or when the job is cancelled.          *)
(*                                                                         *)
(* A tool writes the chunks 1, 2, ... to the pipe, and the last says what  *)
(* it was asked; a helper it has started may outlive it, holds the pipe    *)
(* open and writes 0.  A page and its image are the number of the page.    *)
(* Helpers stay in the tool's process group, and no process of the program *)
(* gets the number of a group that still is to be killed.                  *)
(*                                                                         *)
(* An operator Buggy... is its neighbour with a plausible mistake, and is  *)
(* not used (see README.md).                                               *)
(***************************************************************************)
EXTENDS Integers, Sequences, SequencesExt

CONSTANTS
  PageLimit,               \* max_pages
  ToolChunks,                  \* what a tool writes at most
  PipeSize,                \* chunks the pipe takes
  OutputLimit,             \* chunks kept of the output
  Reads                    \* reads of one drain()

\* 256 reads of 4096 bytes are more than a pipe holds.
ASSUME DrainAssumption ==
  /\ {PageLimit, ToolChunks, PipeSize, OutputLimit, Reads} \subseteq Nat
  /\ PageLimit >= 1 /\ Reads >= PipeSize

VARIABLES
  document,                \* kind of the input, and its pages
  at,                      \* where the thread is
  tool,                    \* the last that was started or is about to be
  child, helper,           \* the tool's process, and one it has started
  exit,                    \* how the child ended
  wrote, pipe,             \* chunks the child has written; those not read yet
  output, reads,           \* read so far, and reads of the present drain()
  failing,                 \* run_process() leaves with an exception
  pdf, pageFile,           \* input.pdf and page.ppm in the temporary directory
  page, count,             \* of read_document()'s loop
  delivered,               \* images handed to consume()
  cancelled

process == <<child, helper, exit, wrote, pipe>>
received == <<output, reads, failing>>
files == <<pdf, pageFile>>
progress == <<page, count, delivered>>
readerVars == <<document, at, tool, process, received, files, progress, cancelled>>

Documents == [kind : {"image", "tiff", "pdf", "office"}, pages : 1 .. PageLimit + 1]

ReaderInit ==
  /\ document \in Documents
  /\ at = "start" /\ tool = "none" /\ cancelled = FALSE
  /\ child = "none" /\ helper = "none" /\ exit = "none" /\ wrote = 0 /\ pipe = <<>>
  /\ output = <<>> /\ reads = 0 /\ failing = FALSE
  /\ pdf = "none" /\ pageFile = 0
  /\ page = 0 /\ count = 0 /\ delivered = <<>>

Throw == at' = "thrown"

ReaderCancel ==
  /\ at \notin {"returned", "thrown"} /\ ~cancelled
  /\ cancelled' = TRUE
  /\ UNCHANGED <<document, at, tool, process, received, files, progress>>

-----------------------------------------------------------------------------
(* The tool and its helper.                                                *)

Write(chunk) == Len(pipe) < PipeSize /\ pipe' = Append(pipe, chunk)

ToolWrites ==
  /\ child = "running" /\ wrote < ToolChunks
  /\ Write(wrote + 1) /\ wrote' = wrote + 1
  /\ UNCHANGED <<document, at, tool, child, helper, exit, received, files, progress, cancelled>>

HelperWrites ==
  /\ helper = "running" /\ Write(0)
  /\ UNCHANGED <<document, at, tool, child, helper, exit, wrote, received, files, progress, cancelled>>

ToolForks ==
  /\ child = "running" /\ helper = "none"
  /\ helper' = "running"
  /\ UNCHANGED <<document, at, tool, child, exit, wrote, pipe, received, files, progress, cancelled>>

\* With success a tool may have made its file, or not; a converter's may be empty.
ToolExits ==
  /\ child = "running" /\ child' = "exited"
  /\ \/ /\ exit' = "failure" /\ UNCHANGED files
     \/ /\ exit' = "success"
        /\ pdf' \in IF tool = "convert" THEN {"none", "empty", "made"} ELSE {pdf}
        /\ pageFile' \in IF tool = "render" THEN {pageFile, page} ELSE {pageFile}
  /\ UNCHANGED <<document, at, tool, helper, wrote, pipe, received, progress, cancelled>>

-----------------------------------------------------------------------------
(* run_process()                                                           *)

Spawn ==
  /\ at = "tool"
  /\ \/ cancelled /\ Throw /\ UNCHANGED <<process, received>>
     \/ ~cancelled /\ Throw /\ UNCHANGED <<process, received>>      \* pipe2 or posix_spawnp fails
     \/ /\ ~cancelled /\ at' = "loop"
        /\ child' = "running" /\ helper' = "none" /\ exit' = "none" /\ wrote' = 0 /\ pipe' = <<>>
        /\ output' = <<>> /\ reads' = 0 /\ failing' = FALSE
  /\ UNCHANGED <<document, tool, files, progress, cancelled>>

Loop ==
  /\ at = "loop"
  /\ at' = IF cancelled THEN "cleanup" ELSE "drain"
  /\ failing' = cancelled /\ reads' = 0
  /\ UNCHANGED <<document, tool, process, output, files, progress, cancelled>>

\* One read of drain(), which runs before each look at the child and once after it ended.
Read ==
  /\ at \in {"drain", "last"} /\ pipe # <<>> /\ reads < Reads
  /\ output' = IF Len(output) < OutputLimit THEN Append(output, Head(pipe)) ELSE output
  /\ pipe' = Tail(pipe) /\ reads' = reads + 1
  /\ UNCHANGED <<document, at, tool, child, helper, exit, wrote, failing, files, progress, cancelled>>

Drained ==
  /\ at \in {"drain", "last"} /\ (pipe = <<>> \/ reads = Reads)
  /\ at' = IF at = "last" THEN "cleanup" ELSE "wait"
  /\ UNCHANGED <<document, tool, process, received, files, progress, cancelled>>

\* Nothing is lost between the drain() before waitpid() and the end of the child.
BuggyWait ==
  /\ at = "wait" /\ reads' = 0
  /\ \/ child = "exited" /\ child' = "reaped" /\ at' = "cleanup" /\ UNCHANGED failing
     \/ child = "running" /\ at' = "cleanup" /\ failing' = TRUE /\ UNCHANGED child
     \/ child = "running" /\ at' = "loop" /\ UNCHANGED <<child, failing>>
  /\ UNCHANGED <<document, tool, helper, exit, wrote, pipe, output, files, progress, cancelled>>
Wait ==
  /\ at = "wait" /\ reads' = 0
  /\ \/ child = "exited" /\ child' = "reaped" /\ at' = "last" /\ UNCHANGED failing
     \/ child = "running" /\ at' = "cleanup" /\ failing' = TRUE /\ UNCHANGED child  \* deadline
     \/ child = "running" /\ at' = "loop" /\ UNCHANGED <<child, failing>>
  /\ UNCHANGED <<document, tool, helper, exit, wrote, pipe, output, files, progress, cancelled>>

\* kill(-pid): the group, whether or not the child has been waited for.
BuggyKill ==
  /\ child' = IF child = "running" THEN "exited" ELSE child
  /\ helper' = helper
Kill ==
  /\ child' = IF child = "running" THEN "exited" ELSE child
  /\ helper' = IF helper = "running" THEN "killed" ELSE helper

Cleanup ==
  /\ at = "cleanup" /\ at' = IF child = "reaped" THEN "ended" ELSE "waitpid"
  /\ Kill
  /\ UNCHANGED <<document, tool, exit, wrote, pipe, received, files, progress, cancelled>>

CleanupWaits ==
  /\ at = "waitpid" /\ child = "exited"
  /\ child' = "reaped" /\ at' = "ended"
  /\ UNCHANGED <<document, tool, helper, exit, wrote, pipe, received, files, progress, cancelled>>

-----------------------------------------------------------------------------
(* read_document()                                                         *)

ToTool(t) == at' = "tool" /\ tool' = t

BeginDocument ==
  /\ at = "start"
  /\ \/ cancelled /\ Throw /\ UNCHANGED <<tool, progress>>
     \/ /\ ~cancelled /\ document.kind = "image"
        /\ page' = 1 /\ count' = 1 /\ at' = "load" /\ UNCHANGED <<tool, delivered>>
     \/ ~cancelled /\ document.kind = "tiff" /\ at' = "tiff" /\ UNCHANGED <<tool, progress>>
     \/ ~cancelled /\ document.kind = "pdf" /\ ToTool("count") /\ UNCHANGED progress
     \/ ~cancelled /\ document.kind = "office" /\ ToTool("convert") /\ UNCHANGED progress
     \/ ~cancelled /\ Throw /\ UNCHANGED <<tool, progress>>    \* no file, not supported, not copied
  /\ UNCHANGED <<document, process, received, files, cancelled>>

\* Every directory of a TIFF is looked at before the first of its pages is decoded.
ReadTiff ==
  /\ at = "tiff"
  /\ \/ /\ document.pages <= PageLimit
        /\ count' = document.pages /\ page' = 1 /\ at' = "load"
     \/ Throw /\ UNCHANGED <<page, count>>
  /\ UNCHANGED <<document, tool, process, received, files, delivered, cancelled>>

\* What became of the tool that has ended.
ToolFailed == at = "ended" /\ (failing \/ exit # "success")
Result ==
  /\ at = "ended"
  /\ \/ ToolFailed /\ Throw /\ UNCHANGED <<tool, page, count>>
     \/ /\ ~ToolFailed /\ tool = "convert"
        /\ IF pdf = "made" THEN ToTool("count") ELSE Throw /\ UNCHANGED tool
        /\ UNCHANGED <<page, count>>
     \/ /\ ~ToolFailed /\ tool = "count"
        /\ IF ToolChunks \in Range(output) /\ document.pages <= PageLimit
           THEN count' = document.pages /\ ToTool("sizes")
           ELSE Throw /\ UNCHANGED <<tool, count>>
        /\ UNCHANGED page
     \/ ~ToolFailed /\ tool = "sizes" /\ page' = 1 /\ at' = "page" /\ UNCHANGED <<tool, count>>
     \/ ~ToolFailed /\ tool = "render" /\ at' = "load" /\ UNCHANGED <<tool, page, count>>
  /\ UNCHANGED <<document, process, received, files, delivered, cancelled>>

Page ==
  /\ at = "page"
  /\ \/ page > count /\ at' = "returned" /\ UNCHANGED tool
     \/ page <= count /\ ~cancelled /\ ToTool("render")
     \/ page <= count /\ Throw /\ UNCHANGED tool            \* cancelled, or its size is not known
  /\ UNCHANGED <<document, process, received, files, progress, cancelled>>

\* Decoded, looked at before and after consume(), which takes the image.
LoadedImage == IF document.kind \in {"image", "tiff"} THEN page ELSE pageFile
LoadPage ==
  /\ at = "load"
  /\ \/ Throw /\ UNCHANGED delivered
     \/ /\ LoadedImage # 0 /\ ~cancelled
        /\ delivered' = Append(delivered, LoadedImage) /\ at' = "consumed"
  /\ UNCHANGED <<document, tool, process, received, files, page, count, cancelled>>

BuggyRemovePage == pageFile' = pageFile
RemovePage == pageFile' = 0
Consumed ==
  /\ at = "consumed"
  /\ \/ Throw /\ UNCHANGED <<pageFile, page>>       \* cancelled, consume() threw, no next TIFF page
     \/ /\ ~cancelled /\ RemovePage /\ page' = page + 1
        /\ at' = IF document.kind \in {"pdf", "office"} THEN "page"
                 ELSE IF page < count THEN "load" ELSE "returned"
  /\ UNCHANGED <<document, tool, process, received, pdf, count, delivered, cancelled>>

ReaderNext ==
  \/ ReaderCancel
  \/ ToolWrites \/ HelperWrites \/ ToolForks \/ ToolExits
  \/ Spawn \/ Loop \/ Read \/ Drained \/ Wait \/ Cleanup \/ CleanupWaits
  \/ BeginDocument \/ ReadTiff \/ Result \/ Page \/ LoadPage \/ Consumed

-----------------------------------------------------------------------------

\* The images handed out are the pages of the document from the first on, each its own
\* page and none twice, all of them when the call returns and none of a document with
\* too many; and what a tool wrote before it succeeded is known, as far as it is kept.
PagesAreTrue ==
  /\ \A i \in DOMAIN delivered : delivered[i] = i
  /\ at = "returned" /\ document.kind # "image" => Len(delivered) = document.pages
  /\ delivered # <<>> /\ document.kind # "image" => document.pages <= PageLimit
  /\ at = "ended" /\ ~ToolFailed =>
       \/ \A i \in 1 .. wrote : i \in Range(output)
       \/ Len(output) = OutputLimit

\* No process of a tool is left behind when run_process() is left, by whatever way, and
\* it waits for the end of none that nothing ends.
NothingLeftBehind ==
  /\ at \notin {"loop", "drain", "wait", "last", "cleanup", "waitpid"} =>
       child \in {"none", "reaped"} /\ helper # "running"
  /\ at = "waitpid" => child # "running"
=============================================================================
