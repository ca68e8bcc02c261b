----------------------------- MODULE MCServices ------------------------------
(***************************************************************************)
(* Small instances of the services around the ledger that do not share     *)
(* state with one another.  In a behaviour one of them runs, the one that  *)
(* `service` names; the others stay as they start.                         *)
(***************************************************************************)
EXTENDS FolderWatcher, PollHealth, CloudSession, TasksNotebook, Organizer,
        PageRendering, RattaRle

CONSTANT Services   \* the services that a configuration looks at

VARIABLE service

\* Two coroutines of one process.
MCHostOf == [c \in Callers |-> "service"]

MCMaxFaults == [crash |-> 1, token |-> 1, login |-> 1]

Footer(kind, ink, page) == [kind |-> kind, of |-> ink, at |-> page]

\* A heading and a link on the second page, and a notebook of one page.
MCInitialNote ==
  [A |-> [pages |-> <<Page("a1", "a1", FALSE), Page("a2", "a2", TRUE)>>,
          footers |-> {Footer("title", "a2", 2), Footer("link", "a2", 2)}],
   B |-> [pages |-> <<Page("b1", "b1", FALSE)>>, footers |-> {}]]

\* A short word, a tall one, and one that is wider than a page.
MCWords == {[width |-> 1, height |-> 1], [width |-> 2, height |-> 2],
            [width |-> 6, height |-> 1]}

MCLines == UNION {[1..n -> MCWords] : n \in 0..3}

MCTexts == {<<line>> : line \in MCLines} \cup (MCLines \X MCLines)

\* Between two words is a space of width 1.
MCWidthOf(line) ==
  IF line = <<>> THEN 0
  ELSE FoldLeft(LAMBDA sum, w : sum + w.width, 0, line) + (Len(line) - 1)

\* An empty line is as high as a short one.
MCHeightOf(line) == IF \E i \in DOMAIN line : line[i].height = 2 THEN 2 ELSE 1

MCPalette == <<0, 2, 4>>

\* Three runs of grey, of lengths around the limits of a length byte and of a
\* chunk; 1 and 3 are between two colours of the palette.
MCBitmaps ==
  {Repeat(a, i) \o Repeat(b, j) \o Repeat(a, k) :
     a, b \in {0, 1, 3, 4}, i, j, k \in {0, 1, 2, 3, 4, 5, 9}}

servicesVars ==
  <<service, folderVars, healthVars, sessionVars, tasksVars, organizerVars,
    renderVars, rleVars>>

ServicesInit ==
  /\ service \in Services
  /\ FolderInit /\ HealthInit /\ SessionInit /\ TasksInit /\ OrganizerInit
  /\ open = Issues
  /\ RleInit /\ (service # "codec" => bitmap = <<>>)
  /\ text \in IF service = "renderer" THEN Texts ELSE {<<(<<>>)>>}
  /\ RenderInit

Only(name) ==
  /\ service = name
  /\ UNCHANGED service
  /\ name # "folder" => UNCHANGED folderVars
  /\ name # "health" => UNCHANGED healthVars
  /\ name # "session" => UNCHANGED sessionVars
  /\ name # "tasks" => UNCHANGED tasksVars
  /\ name # "organizer" => UNCHANGED organizerVars
  /\ name # "renderer" => UNCHANGED renderVars
  /\ name # "codec" => UNCHANGED rleVars

ServicesNext ==
  \/ FolderNext /\ Only("folder")
  \/ HealthNext /\ Only("health")
  \/ SessionNext /\ Only("session")
  \/ TasksNext /\ Only("tasks")
  \/ OrganizerNext /\ Only("organizer")
  \/ RenderNext /\ Only("renderer")
  \/ RleNext /\ Only("codec")

ServicesSpec == ServicesInit /\ [][ServicesNext]_servicesVars

=============================================================================
