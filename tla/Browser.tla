------------------------------ MODULE Browser ------------------------------
(***************************************************************************)
(* The browser an agent can show (livekit-plugins-browser): the pages of a *)
(* BrowserContext in the agent (proc.py) and the browser process that      *)
(* draws them (proc_main.py), over a socket pair and one shared memory per *)
(* page.                                                                   *)
(*                                                                         *)
(* The process has two threads of interest.  The manager reads the socket. *)
(* The UI thread of Chromium (external) creates, paints and closes every   *)
(* page, and each of these calls back into BrowserServer: while a paint    *)
(* waits for its release no other page is painted, created or closed.      *)
(* A picture is a function from Rects (what a dirty rectangle can cover)   *)
(* to the number of the paint that drew it; 0 is the empty buffer.         *)
(***************************************************************************)
EXTENDS Naturals, Sequences, SequencesExt

CONSTANTS
    Pages,          \* the pages opened, 1, 2, ...: the values of _next_page_id
    Rects,          \* the parts of a page
    MaxPaints       \* bound: paints of all pages together

ASSUME BrowserAssumption == Pages \subseteq Nat \ {0} /\ MaxPaints \in Nat /\ Rects # {}

VARIABLES
    page,           \* of each page: none, starting, open, closingPage, closed (unmapped)
    frame,          \* the _framebuffer of each page
    hostSees,       \* the page's _view_width is that of its last paint (0 before the first)
    server,         \* in the process: none, asked, shown, gone
    shm,            \* the shared memory of each page
    serverSees,     \* BrowserServer._view_width, likewise
    closingPage,        \* BrowserServer._closing
    released,       \* BrowserServer._release_paint_e is set
    browsers,       \* what the manager knows
    manager,        \* run, dead (an exception ended the thread)
    ui,             \* 0, or the page whose paint waits for its release
    content,        \* what the page looked like at its last paint
    paints,         \* paints so far
    toBrowser, toAgent,   \* the socket pair
    alive           \* the process runs

browserVars == <<page, frame, hostSees, server, shm, serverSees, closingPage, released, browsers,
                 manager, ui, content, paints, toBrowser, toAgent, alive>>

hostSide == <<page, frame, hostSees>>
serverSide == <<server, shm, serverSees, closingPage, content, paints>>

Pictures == [Rects -> 0 .. MaxPaints]
Blank == [r \in Rects |-> 0]
PageMsg(t, p) == [type |-> t, page |-> p, dirty |-> {}]

\* What the agent and the process tell each other.
Orders == [type : {"create", "release", "close"}, page : Pages, dirty : SUBSET Rects]
Reports == [type : {"created", "acquire", "closed"}, page : Pages, dirty : SUBSET Rects]

BrowserTypeOK ==
    /\ page \in [Pages -> {"none", "starting", "open", "closing", "closed"}]
    /\ {frame, shm, content} \subseteq [Pages -> Pictures]
    /\ {hostSees, serverSees, closingPage, released} \subseteq [Pages -> BOOLEAN]
    /\ server \in [Pages -> {"none", "asked", "shown", "gone"}]
    /\ browsers \subseteq Pages /\ manager \in {"run", "dead"} /\ ui \in Pages \cup {0}
    /\ toBrowser \in Seq(Orders) /\ toAgent \in Seq(Reports)
    /\ paints \in 0 .. MaxPaints /\ alive \in BOOLEAN

BrowserInit ==
    /\ page = [p \in Pages |-> "none"] /\ server = [p \in Pages |-> "none"]
    /\ frame = [p \in Pages |-> Blank] /\ shm = frame /\ content = frame
    /\ hostSees = [p \in Pages |-> FALSE] /\ serverSees = hostSees
    /\ closingPage = hostSees /\ released = hostSees
    /\ browsers = {} /\ manager = "run" /\ ui = 0 /\ paints = 0
    /\ toBrowser = <<>> /\ toAgent = <<>> /\ alive = TRUE

-----------------------------------------------------------------------------
(* The agent. *)

\* copy_paint_data: everything the first time (the sizes differ) or when one rectangle
\* covers the page, the dirty rectangles otherwise.
CopyPaintData(dirty, sees, source, dest) ==
    IF ~sees \/ dirty = Rects THEN source
    ELSE [r \in Rects |-> IF r \in dirty THEN source[r] ELSE dest[r]]

AskBrowser(t, p) == toBrowser' = IF alive THEN Append(toBrowser, PageMsg(t, p)) ELSE toBrowser

\* new_page: the next number, and BrowserPage.start().
NewPage(p) ==
    /\ page[p] = "none" /\ \A q \in Pages : q < p => page[q] # "none"
    /\ alive                                    \* otherwise the send raises DuplexClosed
    /\ page' = [page EXCEPT ![p] = "starting"]
    /\ AskBrowser("create", p)
    /\ UNCHANGED <<frame, hostSees, serverSide, released, browsers, manager, ui, toAgent, alive>>

\* BrowserPage.aclose(), by whom new_page returned it to.
ClosePage(p) ==
    /\ page[p] = "open" /\ alive
    /\ page' = [page EXCEPT ![p] = "closing"]
    /\ AskBrowser("close", p)
    /\ UNCHANGED <<frame, hostSees, serverSide, released, browsers, manager, ui, toAgent, alive>>

HandleCreated(p) ==
    /\ page' = [page EXCEPT ![p] = "open"]
    /\ UNCHANGED <<frame, hostSees, toBrowser>>

\* The frame is shown to the listeners of "paint" before the release is sent.
HandlePaint(p, dirty) ==
    /\ frame' = [frame EXCEPT ![p] = CopyPaintData(dirty, hostSees[p], shm[p], frame[p])]
    /\ hostSees' = [hostSees EXCEPT ![p] = TRUE]
    /\ AskBrowser("release", p)
    /\ UNCHANGED page

\* _close_fut; aclose() then unlinks and unmaps the shared memory.
HandleClosed(p) ==
    /\ page' = [page EXCEPT ![p] = "closed"]
    /\ UNCHANGED <<frame, hostSees, toBrowser>>

\* BrowserContext._main_task.
HostReads ==
    /\ toAgent # <<>>
    /\ toAgent' = Tail(toAgent)
    /\ LET msg == Head(toAgent) IN
           CASE msg.type = "created" -> HandleCreated(msg.page)
             [] msg.type = "acquire" -> HandlePaint(msg.page, msg.dirty)
             [] msg.type = "closed" -> HandleClosed(msg.page)
    /\ UNCHANGED <<serverSide, released, browsers, manager, ui, alive>>

-----------------------------------------------------------------------------
(* The browser process. *)

\* BrowserServer.create: the page is made later, on the UI thread.
ManagerCreates(p) ==
    /\ server' = [server EXCEPT ![p] = "asked"]
    /\ browsers' = browsers \cup {p}
    /\ UNCHANGED <<closingPage, released, manager>>

\* handle_release_paint; the release of a page already closed is a KeyError.
ManagerReleases(p) ==
    IF p \in browsers
    THEN /\ released' = [released EXCEPT ![p] = TRUE]
         /\ UNCHANGED <<server, closingPage, browsers, manager>>
    ELSE /\ manager' = "dead"
         /\ UNCHANGED <<server, closingPage, released, browsers>>

\* handle_close: no paint from now on; impl.close() leaves the rest to the UI thread.
ManagerCloses(p) ==
    /\ closingPage' = [closingPage EXCEPT ![p] = TRUE]
    /\ browsers' = browsers \ {p}
    /\ UNCHANGED <<server, released, manager>>

\* _manager_thread.
ManagerReads ==
    /\ alive /\ manager = "run" /\ toBrowser # <<>>
    /\ toBrowser' = Tail(toBrowser)
    /\ LET msg == Head(toBrowser) IN
           CASE msg.type = "create" -> ManagerCreates(msg.page)
             [] msg.type = "release" -> ManagerReleases(msg.page)
             [] msg.type = "close" -> ManagerCloses(msg.page)
    /\ UNCHANGED <<hostSide, shm, serverSees, content, paints, ui, toAgent, alive>>

\* _browser_created.
BrowserCreated(p) ==
    /\ alive /\ ui = 0 /\ server[p] = "asked"
    /\ server' = [server EXCEPT ![p] = "shown"]
    /\ toAgent' = Append(toAgent, PageMsg("created", p))
    /\ UNCHANGED <<hostSide, shm, serverSees, closingPage, content, paints, released, browsers,
                   manager, ui, toBrowser, alive>>

\* _paint, up to the wait: nothing for a page being closed.
Paint(p, dirty) ==
    /\ alive /\ ui = 0 /\ server[p] = "shown" /\ ~closingPage[p]
    /\ dirty # {} /\ paints < MaxPaints
    /\ paints' = paints + 1
    /\ content' = [content EXCEPT ![p] = [r \in Rects |-> IF r \in dirty THEN paints' ELSE @[r]]]
    /\ shm' = [shm EXCEPT ![p] = CopyPaintData(dirty, serverSees[p], content'[p], shm[p])]
    /\ serverSees' = [serverSees EXCEPT ![p] = TRUE]
    /\ toAgent' = Append(toAgent, [PageMsg("acquire", p) EXCEPT !.dirty = dirty])
    /\ ui' = p
    /\ UNCHANGED <<hostSide, server, closingPage, released, browsers, manager, toBrowser, alive>>

\* Mutant of PaintReleased: the event is never cleared, a paint does not wait again.
PaintReleasedForGood ==
    /\ alive /\ ui # 0 /\ released[ui]
    /\ ui' = 0
    /\ UNCHANGED <<hostSide, serverSide, released, browsers, manager, toBrowser, toAgent, alive>>

\* The end of _paint: _release_paint_e.wait() returned, and clear().
PaintReleased ==
    /\ alive /\ ui # 0 /\ released[ui]
    /\ released' = [released EXCEPT ![ui] = FALSE]
    /\ ui' = 0
    /\ UNCHANGED <<hostSide, serverSide, browsers, manager, toBrowser, toAgent, alive>>

\* DoClose on the UI thread, and _closed.
BrowserClosed(p) ==
    /\ alive /\ ui = 0 /\ server[p] = "shown" /\ closingPage[p]
    /\ server' = [server EXCEPT ![p] = "gone"]
    /\ toAgent' = Append(toAgent, PageMsg("closed", p))
    /\ UNCHANGED <<hostSide, shm, serverSees, closingPage, content, paints, released, browsers,
                   manager, ui, toBrowser, alive>>

\* "if the browser process crashed for some reasons": nothing tells the pages.
BrowserCrashes ==
    /\ alive /\ browsers # {}
    /\ alive' = FALSE /\ toBrowser' = <<>>
    /\ UNCHANGED <<hostSide, serverSide, released, browsers, manager, ui, toAgent>>

BrowserSteps ==
    \/ HostReads \/ ManagerReads \/ PaintReleased
    \/ \E p \in Pages : BrowserCreated(p) \/ BrowserClosed(p)

BrowserNext ==
    \/ BrowserSteps \/ BrowserCrashes
    \/ \E p \in Pages : NewPage(p) \/ ClosePage(p) \/ \E dirty \in SUBSET Rects : Paint(p, dirty)

\* Both threads and the agent's loop go on; pages change and are closed when they like.
BrowserFairness == WF_browserVars(BrowserSteps)

BrowserSpec == BrowserInit /\ [][BrowserNext]_browserVars /\ BrowserFairness

-----------------------------------------------------------------------------
\* Between two paints of a page, what its listeners were shown last is the page: no
\* rectangle is missed, none is torn by the paint after it (proc_main.py _paint,
\* proc.py _handle_paint, proto.py copy_paint_data).
FramesAreWhole == \A p \in Pages : ui # p => frame[p] = content[p]

\* Neither process uses the shared memory of a page after aclose() has unmapped it.
NoUseAfterUnmap ==
    \A p \in Pages : page[p] = "closed" =>
        /\ ui # p
        /\ \A i \in DOMAIN toAgent : toAgent[i].page # p

\* The pictures of a page and the memory they pass through (livekit-plugins-browser).
PagesSafe == BrowserTypeOK /\ FramesAreWhole /\ NoUseAfterUnmap

(* The inductive invariant *)

\* How far the page is in the agent tells how far it is in the browser process.
StagesAgree ==
    \A p \in Pages :
        /\ page[p] = "none" => server[p] = "none"
        /\ page[p] = "starting" => server[p] \in {"none", "asked", "shown"}
        /\ page[p] = "open" => server[p] = "shown"
        /\ page[p] = "closing" => server[p] \in {"shown", "gone"}
        /\ page[p] = "closed" => server[p] = "gone"
        /\ closingPage[p] => page[p] \in {"closing", "closed"}
        /\ server[p] # "gone" /\ ui = p => server[p] = "shown"
        /\ server[p] = "gone" => ui # p

\* An order is under way only at its stage of the page.
OrderFits(m) ==
    LET p == m.page IN
    /\ m = PageMsg(m.type, p)
    /\ m.type = "create" => page[p] = "starting" /\ server[p] = "none"
    /\ m.type = "close" => page[p] = "closing" /\ server[p] = "shown" /\ ~closingPage[p]
    /\ m.type = "release" => ui = p /\ ~released[p] /\ frame[p] = content[p]

\* So is a report; the framebuffer lacks what is dirty while a paint is on its way to the agent, of
\* which the release cannot be.
ReportFits(m) ==
    LET p == m.page IN
    /\ m.type = "created" => m = PageMsg("created", p) /\ page[p] = "starting" /\ server[p] = "shown"
    /\ m.type = "closed" => m = PageMsg("closed", p) /\ page[p] = "closing" /\ server[p] = "gone"
    /\ m.type = "acquire" =>
        /\ ui = p /\ ~released[p] /\ PageMsg("release", p) \notin ToSet(toBrowser)
        /\ \A r \in Rects \ m.dirty : frame[p][r] = content[p][r]

\* Each message is under way once, and one paint at a time.
MessagesOnce ==
    /\ IsInjective(toBrowser) /\ IsInjective(toAgent)
    /\ \A m \in ToSet(toBrowser) : OrderFits(m)
    /\ \A m \in ToSet(toAgent) : ReportFits(m)
    /\ \A m, n \in ToSet(toAgent) : m.type = "acquire" /\ n.type = "acquire" => m = n

\* The shared memory holds the page, and so does the framebuffer when no paint is on its way.
PaintsAgree ==
    /\ shm = content
    /\ \A p \in Pages : ui # p => frame[p] = content[p] /\ ~released[p]
    /\ \A p \in Pages : released[p] => frame[p] = content[p]

BrowserInv == BrowserTypeOK /\ StagesAgree /\ MessagesOnce /\ PaintsAgree

\* What cannot last: new_page() and aclose() return, as long as the process and its manager
\* thread live.  (A paint on its way when its page is closed ends the manager: see the README.)
PagesPending == alive /\ manager = "run" /\ \E p \in Pages : page[p] \in {"starting", "closing"}

=============================================================================
