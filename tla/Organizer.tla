------------------------------ MODULE Organizer ------------------------------
(***************************************************************************)
(* The organizer: a web page in which a user reorders the pages of a       *)
(* notebook and moves a page to another one (organizer_api.py), behind a   *)
(* threading HTTP server whose requests all run in one event loop          *)
(* (organizer_server.py, main.py).  Requests interleave at every download  *)
(* and upload, with each other and with the device.                        *)
(*                                                                         *)
(*   cloud[n]   the notebook in the Cloud, or NoNote                       *)
(*   updateTime[n] when it was stored                                      *)
(*   request[c] the request of a browser that is under way                 *)
(*   written    (history) all ink that was ever on a page; a page is      *)
(*              named by its ink, which is also its PAGEID               *)
(*   dropped    (history) ink that an upload removed although the notebook *)
(*              had changed since the request read it, or that went with a *)
(*              notebook deleted by a failed upload                        *)
(*   shifted    (history) notebooks from which a page was removed          *)
(*   trouble    failed uploads                                             *)
(*   requests   accepted requests                                          *)
(*                                                                         *)
(* Abstractions: NotebookWrite has the steps of an upload; listing and     *)
(* images of pages only read.                                              *)
(***************************************************************************)
EXTENDS PageOps

CONSTANTS
  Notebooks,
  FirstInks,      \* the inks of the pages there are at first
  InitialNote,    \* the note each notebook starts as
  NewInks,        \* pages that the device may add; the PAGEID is the ink
  Clients,
  MaxTrouble,     \* bound: failed uploads
  MaxRequests     \* bound: requests

Names == FirstInks \cup NewInks \cup {Blank}

Pages == [id: Names, ink: Names, star: BOOLEAN]
Footers == [kind: {"title", "keyword", "link"}, of: Names, at: Nat]
Notes == [pages: Seq(Pages), footers: SUBSET Footers]

ASSUME InitialNotesAreNotes ==
  /\ InitialNote \in [Notebooks -> Notes]
  /\ \A n \in Notebooks : FootersFit(InitialNote[n])
ASSUME BlankIsNoInk == Blank \notin NewInks

VARIABLES cloud, updateTime, request, written, dropped, shifted, trouble, requests

noteVars == <<cloud, updateTime>>
organizerVars == <<cloud, updateTime, request, written, dropped, shifted, trouble, requests>>

NoNote == [pages |-> <<>>, footers |-> {}]
Answered == [pc |-> "none"]

InksOf(notes) == UNION {Inks(notes[n]) : n \in Notebooks}

(***************************************************************************)
(* The device.                                                             *)
(***************************************************************************)

DeviceAddsPage(n, ink) ==
  /\ cloud[n] # NoNote /\ ink \in NewInks \ written
  /\ written' = written \cup {ink}
  /\ cloud' = [cloud EXCEPT ![n].pages = Append(@, Page(ink, ink, FALSE))]
  /\ updateTime' = [updateTime EXCEPT ![n] = @ + 1]
  /\ UNCHANGED <<request, dropped, shifted, trouble, requests>>

(***************************************************************************)
(* move_page_to_notebook and apply_reorder.  A revision that is not the    *)
(* current one, and a page or an order that does not fit, are refused: an  *)
(* accepted request starts from the bytes that its browser shows.          *)
(***************************************************************************)

Begin(c, record) ==
  /\ requests < MaxRequests /\ requests' = requests + 1
  /\ request' = [request EXCEPT ![c] = record]

StartMove(c, n, id, t) ==
  /\ request[c] = Answered
  /\ t # n /\ id \in ToSet(PageIds(cloud[n]))
  /\ Begin(c, [pc |-> "target", from |-> n, to |-> t, source |-> cloud[n], seen |-> updateTime[n],
               at |-> PositionOf(cloud[n], id)])
  /\ UNCHANGED <<noteVars, written, dropped, shifted, trouble>>

StartReorder(c, n, order) ==
  /\ request[c] = Answered
  /\ cloud[n] # NoNote /\ CanReorder(cloud[n], order)
  /\ Begin(c, [pc |-> "reorder", from |-> n, seen |-> updateTime[n],
               new |-> ReorderPages(cloud[n], order)])
  /\ UNCHANGED <<noteVars, written, dropped, shifted, trouble>>

Goes(c, record) == request' = [request EXCEPT ![c] = record]

DownloadTarget(c) ==
  /\ request[c].pc = "target"
  /\ LET r == request[c]
     IN  IF cloud[r.to] = NoNote
           THEN Goes(c, Answered)
           ELSE Goes(c, [pc |-> "move", from |-> r.from, to |-> r.to, seen |-> r.seen,
                         seenTarget |-> updateTime[r.to],
                         newTarget |-> CopyPagesToEnd(r.source, cloud[r.to], <<r.at>>),
                         newSource |-> RemovePages(r.source, {r.at})])
  /\ UNCHANGED <<noteVars, written, dropped, shifted, trouble, requests>>

\* An upload looks at nothing that is in the Cloud.
Upload(n, seen, new) ==
  /\ cloud' = [cloud EXCEPT ![n] = new]
  /\ updateTime' = [updateTime EXCEPT ![n] = @ + 1]
  /\ dropped' = IF updateTime[n] = seen THEN dropped
                ELSE dropped \cup (Inks(cloud[n]) \ Inks(new))

DeleteNotebook(n) ==
  /\ cloud' = [cloud EXCEPT ![n] = NoNote]
  /\ updateTime' = [updateTime EXCEPT ![n] = @ + 1]
  /\ dropped' = dropped \cup Inks(cloud[n])

\* A failed upload has had no effect, or only that the notebook is deleted, or
\* it has succeeded and its answer is lost.
UploadFails(n, seen, new) ==
  /\ trouble < MaxTrouble /\ trouble' = trouble + 1
  /\ UNCHANGED <<noteVars, dropped>> \/ DeleteNotebook(n) \/ Upload(n, seen, new)

UploadReordered(c) ==
  /\ request[c].pc = "reorder"
  /\ LET r == request[c]
     IN  \/ Upload(r.from, r.seen, r.new) /\ UNCHANGED trouble
         \/ UploadFails(r.from, r.seen, r.new)
  /\ Goes(c, Answered)
  /\ UNCHANGED <<written, shifted, requests>>

UploadTarget(c) ==
  /\ request[c].pc = "move"
  /\ Upload(request[c].to, request[c].seenTarget, request[c].newTarget)
  /\ Goes(c, [request[c] EXCEPT !.pc = "source"])
  /\ UNCHANGED <<written, shifted, trouble, requests>>

\* Mutant: the page is removed from the source all the same.
UploadTargetFailsQuietly(c) ==
  /\ request[c].pc = "move"
  /\ UploadFails(request[c].to, request[c].seenTarget, request[c].newTarget)
  /\ Goes(c, [request[c] EXCEPT !.pc = "source"])
  /\ UNCHANGED <<written, shifted, requests>>

UploadTargetFails(c) ==
  /\ request[c].pc = "move"
  /\ UploadFails(request[c].to, request[c].seenTarget, request[c].newTarget)
  /\ Goes(c, Answered)
  /\ UNCHANGED <<written, shifted, requests>>

\* A failure is answered as a partial move, and nothing is undone.
UploadSource(c) ==
  /\ request[c].pc = "source"
  /\ LET r == request[c]
     IN  /\ \/ Upload(r.from, r.seen, r.newSource) /\ UNCHANGED trouble
            \/ UploadFails(r.from, r.seen, r.newSource)
         /\ shifted' = IF cloud' = cloud THEN shifted ELSE shifted \cup {r.from}
  /\ Goes(c, Answered)
  /\ UNCHANGED <<written, requests>>

\* The server is stopped: requests end where they are.
StopServer ==
  /\ \E c \in Clients : request[c] # Answered
  /\ request' = [c \in Clients |-> Answered]
  /\ UNCHANGED <<noteVars, written, dropped, shifted, trouble, requests>>

(***************************************************************************)
(* Specification.                                                          *)
(***************************************************************************)

OrganizerInit ==
  /\ cloud = InitialNote /\ updateTime = [n \in Notebooks |-> 0]
  /\ request = [c \in Clients |-> Answered]
  /\ written = InksOf(InitialNote)
  /\ dropped = {} /\ shifted = {} /\ trouble = 0 /\ requests = 0

Orders(n) == SetToSeqs(ToSet(PageIds(cloud[n])))

OrganizerNext ==
  \/ \E n \in Notebooks, ink \in NewInks : DeviceAddsPage(n, ink)
  \/ \E c \in Clients :
       \/ \E n, t \in Notebooks, id \in written : StartMove(c, n, id, t)
       \/ \E n \in Notebooks : \E order \in Orders(n) : StartReorder(c, n, order)
       \/ DownloadTarget(c) \/ UploadTarget(c) \/ UploadTargetFails(c)
       \/ UploadSource(c) \/ UploadReordered(c)
  \/ StopServer

OrganizerSpec == OrganizerInit /\ [][OrganizerNext]_organizerVars

(***************************************************************************)
(* Properties.                                                             *)
(***************************************************************************)

\* A page is lost only when an upload goes over an edit that its request has
\* not read, or fails after it has deleted the notebook: a move that stops
\* anywhere, or that is told it failed, loses none.
NoInkLost == written \subseteq InksOf(cloud) \cup dropped

\* A title, keyword or link is on the page on which the user put it, in every
\* notebook from which no page was moved.
FootersFollowTheirPages ==
  \A n \in Notebooks \ shifted : FootersFit(cloud[n])

=============================================================================
