---------------------------- MODULE PortalWizard ----------------------------
(***************************************************************************)
(* PortalReceiver (adapters/receiver.py): the browser session that a pass  *)
(* of the robot keeps, receive_item with the steps of the wizard, and the  *)
(* portal as far as the wizard touches it: whether the session is logged   *)
(* in, the pages of the receiving grid, and the units it has received.     *)
(*                                                                         *)
(* One action is one call to Playwright that can fail or decide something. *)
(* The portal is external: what it does is what the code prepares for.     *)
(***************************************************************************)
EXTENDS Naturals, FiniteSets

CONSTANTS
    Items,         \* READY items; their order is the one of the grid
    NoItem,
    Rows,          \* rows of the receiving grid
    NoRow,
    RowsOf,        \* the rows whose model matches an item's
    PageOf,        \* the page of the grid a row is on
    Pages,         \* pages of the grid
    ToBeReceived,  \* TBR of a row at the start
    MaxGridPages,  \* MAX_GRID_PAGES (adapters/portal_dom.py)
    MaxCalls,      \* bound: calls of receive_item
    MaxPasses,     \* bound: passes, each with an executor of its own
    MaxFault       \* bound: faults, by kind

Kinds == {"raises",   \* a call to Playwright raises
          "closes",   \* a close raises
          "glitches", \* a page lacks or is late with what the wizard looks for
          "missing",  \* a location or warehouse label is not among the options
          "silent",   \* the portal refuses and shows no alert in time
          "expiries", \* the portal ends the session
          "rejects",  \* the portal does not accept the login
          "deaths",   \* the browser dies
          "others"}   \* somebody else receives a unit of a row

ASSUME WizardAssumption ==
    /\ NoItem \notin Items /\ NoRow \notin Rows
    /\ RowsOf \in [Items -> SUBSET Rows]
    /\ PageOf \in [Rows -> 1 .. Pages] /\ Pages \in Nat \ {0}
    /\ ToBeReceived \in [Rows -> Nat]
    /\ MaxGridPages \in Nat \ {0}
    /\ MaxCalls \in Nat /\ MaxPasses \in Nat
    /\ MaxFault \in [Kinds -> Nat]

VARIABLES
    held,      \* how many of _pw, _browser, _context and _page are not None
    alive,     \* whether the browser answers
    loggedIn,  \* whether the portal knows the session
    url,       \* the page the browser is on
    pc, item,  \* where receive_item is, and for which item
    labels,    \* the labels applied to the receiving page
    at, shown, tried, row,  \* the grid: its pager, what it shows, pages scanned, the row found
    answer,    \* what the portal made of the last click
    outcome,   \* how the last call ended
    tbr,       \* the portal: units still to be received of a row
    entered,   \* the portal: how often an item was received
    given, glitched,        \* history of the call: entered, and something was lacking
    raised,    \* history: calls of this pass that raised
    unplaced,  \* history: units received without one of the labels
    calls, passes, faults   \* what the bounds count

browser == <<held, alive, loggedIn, url>>
grid    == <<at, shown, tried, row>>
portal  == <<tbr, entered, unplaced>>
history == <<given, glitched>>
bounds  == <<calls, passes>>
vars    == <<browser, pc, item, labels, grid, answer, outcome, portal, history, raised,
             bounds, faults>>

SessionSteps == {"start", "launch", "context", "page", "login"}
PageSteps    == {"navigate", "relogin", "receive", "location", "whse", "grid", "qty", "next",
                 "serial", "review", "finish", "check"}
Steps        == SessionSteps \cup PageSteps \cup {"idle", "cleanup", "closing", "ended"}
Outcomes     == {"none", "received", "not_found", "finalize_error", "raised"}

-----------------------------------------------------------------------------
Spend(kind) ==
    /\ faults[kind] < MaxFault[kind]
    /\ faults' = [faults EXCEPT ![kind] = @ + 1]

Return(end) ==
    /\ pc' = "idle" /\ outcome' = end
    /\ raised' = IF end = "raised" THEN raised + 1 ELSE raised

(* A call on the page, which a dead browser does not answer.                *)
OnPage(step) == pc = step /\ alive

Goto(step) == pc' = step /\ UNCHANGED <<outcome, raised>>

(* A page that lacks something the wizard looks for.                        *)
Lacking(step) ==
    /\ OnPage(step)
    /\ Spend("glitches")
    /\ glitched' = TRUE
    /\ Return("not_found")

Init ==
    /\ held = 0 /\ alive = TRUE /\ loggedIn = FALSE /\ url = "blank"
    /\ pc = "idle" /\ item = NoItem
    /\ labels = {}
    /\ at = 1 /\ shown = 1 /\ tried = 0 /\ row = NoRow
    /\ answer = "none" /\ outcome = "none"
    /\ tbr = ToBeReceived
    /\ entered = [it \in Items |-> 0] /\ unplaced = 0
    /\ given = FALSE /\ glitched = FALSE /\ raised = 0
    /\ calls = 0 /\ passes = 0
    /\ faults = [kind \in Kinds |-> 0]

(* Mutant: any part of a session is taken for all of it.                    *)
CallOnAnySession(it) ==
    /\ pc = "idle" /\ calls < MaxCalls
    /\ calls' = calls + 1
    /\ item' = it
    /\ pc' = IF held > 0 THEN "navigate" ELSE "start"
    /\ labels' = {}
    /\ at' = 1 /\ shown' = 1 /\ tried' = 0 /\ row' = NoRow
    /\ answer' = "none" /\ outcome' = "none"
    /\ given' = FALSE /\ glitched' = FALSE
    /\ UNCHANGED <<browser, portal, raised, passes, faults>>

(* receive_item: a page that is there is used, whatever became of it.       *)
Call(it) ==
    /\ pc = "idle" /\ calls < MaxCalls
    /\ calls' = calls + 1
    /\ item' = it
    /\ pc' = IF held = 4 THEN "navigate" ELSE "start"
    /\ labels' = {}
    /\ at' = 1 /\ shown' = 1 /\ tried' = 0 /\ row' = NoRow
    /\ answer' = "none" /\ outcome' = "none"
    /\ given' = FALSE /\ glitched' = FALSE
    /\ UNCHANGED <<browser, portal, raised, passes, faults>>

-----------------------------------------------------------------------------
(* _ensure_session and close *)

StartPlaywright ==
    /\ pc = "start" /\ held = 0
    /\ held' = 1
    /\ Goto("launch")
    /\ UNCHANGED <<alive, loggedIn, url, item, labels, grid, answer, portal, history,
                   bounds, faults>>

(* A close that raised has left a Playwright behind, and there is only one  *)
(* to a thread; start is outside of the try.                                *)
StartRefused ==
    /\ pc = "start" /\ held > 0
    /\ Return("raised")
    /\ UNCHANGED <<browser, item, labels, grid, answer, portal, history, bounds, faults>>

(* launch, new_context, new_page.                                           *)
Acquire(step, then) ==
    /\ pc = step
    /\ held' = held + 1
    /\ alive' = IF step = "launch" THEN TRUE ELSE alive
    /\ step # "launch" => alive
    /\ Goto(then)
    /\ UNCHANGED <<loggedIn, url, item, labels, grid, answer, portal, history, bounds, faults>>

(* _login does not look whether the portal has let it in.                   *)
FirstLogin ==
    /\ OnPage("login")
    /\ \/ loggedIn' = TRUE /\ UNCHANGED faults
       \/ Spend("rejects") /\ UNCHANGED loggedIn
    /\ Goto("navigate")
    /\ UNCHANGED <<held, alive, url, item, labels, grid, answer, portal, history, bounds>>

SessionFails ==
    /\ pc \in SessionSteps \ {"start"}
    /\ \/ ~alive /\ pc # "launch" /\ UNCHANGED faults
       \/ Spend("raises")
    /\ Goto("cleanup")
    /\ UNCHANGED <<browser, item, labels, grid, answer, portal, history, bounds>>

(* close, from the page down to Playwright.                                 *)
CloseOne ==
    /\ pc \in {"cleanup", "closing"} /\ held > 0
    /\ held' = held - 1
    /\ UNCHANGED <<alive, loggedIn, url, pc, item, labels, grid, answer, outcome, portal,
                   history, raised, bounds, faults>>

Closed ==
    /\ pc \in {"cleanup", "closing"} /\ held = 0
    /\ loggedIn' = FALSE /\ url' = "blank"
    /\ IF pc = "cleanup" THEN Return("raised")
       ELSE pc' = "idle" /\ raised' = 0 /\ UNCHANGED outcome
    /\ UNCHANGED <<held, alive, item, labels, grid, answer, portal, history, bounds, faults>>

(* A close raises: what is below it stays.  In _ensure_session the error    *)
(* takes the place of the first one; in main's finally it ends the robot.   *)
CloseRaises ==
    /\ pc \in {"cleanup", "closing"} /\ held > 0
    /\ Spend("closes")
    /\ IF pc = "cleanup" THEN Return("raised")
       ELSE pc' = "ended" /\ UNCHANGED <<outcome, raised>>
    /\ UNCHANGED <<browser, item, labels, grid, answer, portal, history, bounds>>

(* main: the pass is over and its executor closed.                          *)
EndPass ==
    /\ pc = "idle" /\ passes < MaxPasses
    /\ passes' = passes + 1
    /\ pc' = "closing"
    /\ UNCHANGED <<browser, item, labels, grid, answer, outcome, portal, history, raised,
                   calls, faults>>

(* The robot is started again, with nothing of the old process left.        *)
Restart ==
    /\ pc = "ended" /\ pc' = "idle"
    /\ held' = 0 /\ loggedIn' = FALSE /\ url' = "blank"
    /\ raised' = 0
    /\ UNCHANGED <<alive, item, labels, grid, answer, outcome, portal, history, bounds, faults>>

-----------------------------------------------------------------------------
(* Step 1 *)

GotoOrder ==
    /\ OnPage("navigate")
    /\ IF loggedIn
       THEN url' = "order" /\ Goto("receive")
       ELSE url' = "login" /\ Goto("relogin")
    /\ UNCHANGED <<held, alive, loggedIn, item, labels, grid, answer, portal, history,
                   bounds, faults>>

(* Mutant: a page that shows the login is not logged in again.              *)
NoRelogin ==
    /\ OnPage("relogin")
    /\ Goto("receive")
    /\ UNCHANGED <<browser, item, labels, grid, answer, portal, history, bounds, faults>>

(* Logged in again, the portal shows the order or its start page, which is  *)
(* not navigated again.  A page that still is the login is: after a slow    *)
(* login that shows the order, after a refused one the login again.         *)
Relogin ==
    /\ OnPage("relogin")
    /\ \/ loggedIn' = TRUE /\ url' \in {"order", "start"} /\ UNCHANGED faults
       \/ Spend("rejects") /\ UNCHANGED <<loggedIn, url>>
    /\ Goto("receive")
    /\ UNCHANGED <<held, alive, item, labels, grid, answer, portal, history, bounds>>

ClickReceive ==
    /\ OnPage("receive") /\ url = "order"
    /\ url' = "receiving"
    /\ Goto("location")
    /\ UNCHANGED <<held, alive, loggedIn, item, labels, grid, answer, portal, history,
                   bounds, faults>>

(* There is no receive button on any other page: the click times out.       *)
NoReceiveButton ==
    /\ OnPage("receive") /\ url # "order"
    /\ Return("raised")
    /\ UNCHANGED <<browser, item, labels, grid, answer, portal, history, bounds, faults>>

NoReceivingUrl ==
    /\ Lacking("receive") /\ url = "order"
    /\ UNCHANGED <<browser, item, labels, grid, answer, portal, given, bounds>>

-----------------------------------------------------------------------------
(* Steps 2 and 3 *)

(* Mutant: the label is chosen and not applied.                             *)
SetWithoutApply(step, label, then) ==
    /\ OnPage(step)
    /\ UNCHANGED <<labels, faults>>
    /\ Goto(then)
    /\ UNCHANGED <<browser, item, grid, answer, portal, history, bounds>>

(* A label that is not among the options is warned of; the wizard goes on.  *)
SetLabel(step, label, then) ==
    /\ OnPage(step)
    /\ \/ labels' = labels \cup {label} /\ UNCHANGED faults
       \/ Spend("missing") /\ UNCHANGED labels
    /\ Goto(then)
    /\ UNCHANGED <<browser, item, grid, answer, portal, history, bounds>>

-----------------------------------------------------------------------------
(* Step 4 *)

(* Rows of the page on the screen with the item's model and TBR > 0.        *)
Hits == {r \in RowsOf[item] : PageOf[r] = shown /\ tbr[r] > 0}

FindRow ==
    /\ OnPage("grid")
    /\ \E r \in Hits : row' = r
    /\ Goto("qty")
    /\ UNCHANGED <<browser, item, labels, at, shown, tried, answer, portal, history, bounds,
                   faults>>

(* Mutant: the pages are not counted, and the click may take the pager back.*)
TurnBackAndForth ==
    /\ OnPage("grid") /\ Hits = {}
    /\ at' = IF at < Pages THEN at + 1 ELSE 1
    /\ shown' = at'
    /\ Goto("grid")
    /\ UNCHANGED <<browser, item, labels, tried, row, answer, portal, history, bounds, faults>>

(* The pager is clicked.  After 1.5 s the grid shows the next page, or it   *)
(* is slow and the old one is scanned again.                                *)
TurnPage ==
    /\ OnPage("grid") /\ Hits = {}
    /\ at < Pages /\ tried + 1 < MaxGridPages
    /\ at' = at + 1 /\ tried' = tried + 1
    /\ \/ shown' = at + 1 /\ UNCHANGED <<faults, glitched>>
       \/ Spend("glitches") /\ glitched' = TRUE /\ UNCHANGED shown
    /\ Goto("grid")
    /\ UNCHANGED <<browser, item, labels, row, answer, portal, given, bounds>>

(* Mutant: one page fewer is scanned than there is, or than the limit.      *)
NoRowOneShort ==
    /\ OnPage("grid") /\ Hits = {}
    /\ at + 1 >= Pages \/ tried + 2 >= MaxGridPages
    /\ Return("not_found")
    /\ UNCHANGED <<browser, item, labels, grid, answer, portal, history, bounds, faults>>

(* The last page, or the last one that is looked at.                        *)
NoOpenRow ==
    /\ OnPage("grid") /\ Hits = {}
    /\ at = Pages \/ tried + 1 = MaxGridPages
    /\ Return("not_found")
    /\ UNCHANGED <<browser, item, labels, grid, answer, portal, history, bounds, faults>>

(* No rows within 8 s, or no pager within one.                              *)
GridLacking ==
    /\ Lacking("grid")
    /\ UNCHANGED <<browser, item, labels, grid, answer, portal, given, bounds>>

SetQuantity ==
    /\ OnPage("qty")
    /\ Goto("next")
    /\ UNCHANGED <<browser, item, labels, grid, answer, portal, history, bounds, faults>>

NoQuantityInput ==
    /\ Lacking("qty")
    /\ UNCHANGED <<browser, item, labels, grid, answer, portal, given, bounds>>

-----------------------------------------------------------------------------
(* Steps 5 to 8 *)

ClickNext(step, then) ==
    /\ OnPage(step)
    /\ Goto(then)
    /\ UNCHANGED <<browser, item, labels, grid, answer, portal, history, bounds, faults>>

NoSerialInput ==
    /\ Lacking("serial")
    /\ UNCHANGED <<browser, item, labels, grid, answer, portal, given, bounds>>

(* The last click.  The portal receives the unit if the row is still open   *)
(* and the session is still known, ...                                      *)
FinishAccepted ==
    /\ OnPage("finish") /\ loggedIn /\ tbr[row] > 0
    /\ answer' = "accepted"
    /\ tbr' = [tbr EXCEPT ![row] = @ - 1]
    /\ entered' = [entered EXCEPT ![item] = @ + 1]
    /\ unplaced' = IF labels = {"location", "whse"} THEN unplaced ELSE unplaced + 1
    /\ given' = TRUE
    /\ Goto("check")
    /\ UNCHANGED <<browser, item, labels, grid, glitched, bounds, faults>>

(* ... and refuses it with an alert, or in a way the page does not show     *)
(* after 3 s.                                                               *)
FinishRefused ==
    /\ OnPage("finish")
    /\ \/ loggedIn /\ tbr[row] > 0 /\ Spend("glitches") /\ answer' = "alert"
       \/ ~(loggedIn /\ tbr[row] > 0) /\ answer' = "alert" /\ UNCHANGED faults
       \/ Spend("silent") /\ answer' = "silent"
    /\ Goto("check")
    /\ UNCHANGED <<browser, item, labels, grid, portal, history, bounds>>

(* Mutant: an alert is logged and the unit taken for received.              *)
AlertIgnored ==
    /\ OnPage("check")
    /\ Return("received")
    /\ UNCHANGED <<browser, item, labels, grid, answer, portal, history, bounds, faults>>

CheckAlert ==
    /\ OnPage("check")
    /\ Return(IF answer = "alert" THEN "finalize_error" ELSE "received")
    /\ UNCHANGED <<browser, item, labels, grid, answer, portal, history, bounds, faults>>

(* Whatever a step calls may raise, the last one after the portal has       *)
(* received the unit; receive_item makes an ExecutorError of it.            *)
StepRaises ==
    /\ pc \in PageSteps
    /\ \/ ~alive /\ UNCHANGED faults
       \/ alive /\ Spend("raises")
    /\ Return("raised")
    /\ UNCHANGED <<browser, item, labels, grid, answer, portal, history, bounds>>

-----------------------------------------------------------------------------
(* The surroundings *)

SessionExpires ==
    /\ loggedIn /\ loggedIn' = FALSE
    /\ Spend("expiries")
    /\ UNCHANGED <<held, alive, url, pc, item, labels, grid, answer, outcome, portal, history,
                   raised, bounds>>

BrowserDies ==
    /\ held >= 2 /\ alive /\ alive' = FALSE
    /\ Spend("deaths")
    /\ UNCHANGED <<held, loggedIn, url, pc, item, labels, grid, answer, outcome, portal, history,
                   raised, bounds>>

ReceivedElsewhere(r) ==
    /\ tbr[r] > 0 /\ tbr' = [tbr EXCEPT ![r] = @ - 1]
    /\ Spend("others")
    /\ UNCHANGED <<browser, pc, item, labels, grid, answer, outcome, entered, unplaced, history,
                   raised, bounds>>

Session ==
    \/ StartPlaywright \/ StartRefused
    \/ Acquire("launch", "context") \/ Acquire("context", "page") \/ Acquire("page", "login")
    \/ FirstLogin \/ SessionFails
    \/ CloseOne \/ Closed \/ CloseRaises

Wizard ==
    \/ GotoOrder \/ Relogin \/ ClickReceive \/ NoReceiveButton \/ NoReceivingUrl
    \/ SetLabel("location", "location", "whse") \/ SetLabel("whse", "whse", "grid")
    \/ FindRow \/ TurnPage \/ NoOpenRow \/ GridLacking \/ SetQuantity \/ NoQuantityInput
    \/ ClickNext("next", "serial") \/ ClickNext("serial", "review") \/ NoSerialInput
    \/ ClickNext("review", "finish")
    \/ FinishAccepted \/ FinishRefused \/ CheckAlert \/ StepRaises

Next ==
    \/ Session \/ Wizard
    \/ \E it \in Items : Call(it)
    \/ EndPass \/ Restart
    \/ SessionExpires \/ BrowserDies
    \/ \E r \in Rows : ReceivedElsewhere(r)

Spec == Init /\ [][Next]_vars

(* Playwright's waits have a timeout, and the wizard runs on one thread.    *)
FairSpec == Spec /\ WF_vars(Session \/ Wizard)

-----------------------------------------------------------------------------
(* Properties *)

(* Every variable holds a value of its kind; the wizard runs on a complete  *)
(* session only, and from the search to the end with a row of the model.    *)
TypeOK ==
    /\ held \in 0 .. 4 /\ alive \in BOOLEAN /\ loggedIn \in BOOLEAN
    /\ url \in {"blank", "login", "start", "order", "receiving"}
    /\ pc \in Steps /\ item \in Items \cup {NoItem}
    /\ pc \in PageSteps => held = 4 /\ item # NoItem
    /\ labels \subseteq {"location", "whse"}
    /\ at \in 1 .. Pages /\ shown \in 1 .. at /\ tried \in 0 .. MaxGridPages - 1
    /\ row \in Rows \cup {NoRow}
    /\ pc \in {"qty", "next", "serial", "review", "finish", "check"} => row \in RowsOf[item]
    /\ answer \in {"none", "accepted", "alert", "silent"} /\ outcome \in Outcomes
    /\ tbr \in [Rows -> Nat] /\ entered \in [Items -> Nat] /\ unplaced \in Nat
    /\ given \in BOOLEAN /\ glitched \in BOOLEAN /\ raised \in Nat
    /\ calls \in Nat /\ passes \in Nat /\ faults \in [Kinds -> Nat]

(* receive_item is what the robot takes it for: see WizardContract.         *)
InCall == pc \in SessionSteps \cup PageSteps \cup {"cleanup"}

Contract == INSTANCE WizardContract WITH
    current <- IF InCall THEN item ELSE NoItem,
    unseen  <- answer = "silent"

KeepsContract == Contract!Spec

(* not_found means what it says (core/ports.py: model row absent): unless   *)
(* the page was lacking something in this call, no row of the model is open *)
(* on the pages that are searched.  A row beyond them is not found.         *)
NotFoundIsTrue ==
    outcome = "not_found" /\ ~glitched =>
        \A r \in RowsOf[item] : tbr[r] > 0 => PageOf[r] > MaxGridPages

(* Whatever the session goes through, it fails no more calls of a pass than *)
(* there were faults: an expired or refused login costs one call, and the   *)
(* next finds the page logged in; a browser that dies before it has a page  *)
(* costs one.  Only a dead browser with a page, and a session that a failed *)
(* close left in half, cost every call until the pass ends.                 *)
Usable == alive /\ held \in {0, 4}

FailuresAreExplained ==
    pc = "idle" /\ Usable =>
        raised <= faults["raises"] + faults["closes"] + faults["expiries"] + faults["rejects"]
                  + faults["deaths"]

(* A unit is received without a location or a warehouse only for a label    *)
(* that was not among the options: nothing is left over from another item   *)
(* and nothing is lost on the way to the last click.                        *)
PlacedUnlessMissing == unplaced <= faults["missing"]

(* A call ends: with an outcome, or with the robot.                         *)
CallEnds == InCall ~> pc \in {"idle", "ended"}
=============================================================================
