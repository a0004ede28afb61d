# TLA+ models of the receiving application

The models are of the code under `src/`; paths below are relative to it.
`PROJECT.json` maps every definition to the lines it models, lists the runs,
the mutants that show each property can fail, the findings, the hazards and the
theorems.

## The system

A warehouse receives units against purchase orders. Three programs share one
SQLite database and one board (a GraphQL service):

| Program | Entry point | What it does |
|---|---|---|
| scanner | `scanner_runner.py` | window of the desk: scan a model, then a serial; match, claim, record, put an item on the board, print a label |
| refresh | `refresh_runner.py` | replaces the catalog of open orders in the database |
| robot | `robot_runner.py` | polls the READY items of the board and enters them in the portal |

```
 operator -> window -> resolve_model_barcode -> Repository (SQLite) <- refresh_all, populate_po
               |                                     |                          |
               +--> process_scan --------------------+               PortalSource (Chrome) -> portal
                         |
                         +-> ResultSinkAdapter -> board <- receive_pending -> PortalReceiver -> portal
                                                                |               (Playwright)
                                                                +-> sync_status (SQLite)
```

### Components

**Repository** (`adapters/db.py`, `schema/`). State: `po_inventory`, a row per
slot (an inventory id) with `claimed_at`; `receiving_items`, a record per
receiving id with `emitted`. Every method is one transaction. Correct when a
claim never exists without its record, an upsert never un-claims or un-emits,
and only the refresh drops claims.

**Scan service** (`services/receive.py`, `core/matching.py`). No state of its
own; `process_scan` reads the open slots of an order, takes one of the model,
claims and saves it, posts it, marks it emitted. It runs on a thread per scan.
Correct when a unit claims one slot, gets one board item, and a retry after a
failure at any step neither loses nor repeats it.

**Board sink** (`adapters/sink.py`). State: the ids this process has posted.

**Catalog writers and their source** (`services/populate.py`, `services/refresh.py`,
`adapters/source.py`). `populate_po` checks, fetches for seconds on a thread of the
window, upserts; `refresh_all` fetches and replaces the whole table from another
process. A fetch drives a browser, and all fetches clear, poll and read the one
`DOWNLOAD_DIR`. Correct when a fetch brings rows of its own export, a browser is quit
whatever the fetch fails with, and the catalog is never emptied.

**Model resolution** (`services/model_resolution.py`, `core/model_resolution.py`,
`core/matching.py`). State: the learned barcodes. Correct when a model is taken
without the operator only if nothing else is possible, proposed only if it is the
one subsequence, and asked for only in doubt.

**Scanner window** (`adapters/ui/`, `core/scan_dispatch.py`). State: the fields of
`ReceivingUI`, background threads, the callbacks they queue with
`root.after(0, ...)`, timers. Correct when a scan is taken only in the states meant for it, a block holds until the
operator lifts it, the window does not stay busy, and a serial is matched only
against a model that was scanned for certain, typed, or confirmed.

**Robot** (`services/receive_sync.py`, `robot_runner.py`, `adapters/board.py`,
`adapters/sync_status_db.py`). State: the board's groups
and status columns, the portal's serials, the pass (items left, counters), the
status row. Correct when RECEIVED means entered (or refused with no alert, which the
robot cannot tell from it), an item is entered once, the serial goes to its slot, two failures in a row stop the robot and nothing else
does, and the row says what it does.

**Portal wizard** (`adapters/receiver.py`, `adapters/portal_dom.py`). State: the
browser session of a pass, the page it is on. Correct when a serial is entered at
most once a call, the outcome says what the portal made of it, and one fault does
not fail the calls after it.

**Sync of pending records** (`services/sync.py`) emits what scans have saved and
nobody has marked; no runner calls it. Correct when a failing record keeps no other
from the board, the verdict is what the table says, and a PASS leaves nothing undone.

**Printer**, **configuration**, **wiring** have no behaviour over time that the
others do not see as a call that answers or fails.

### What is hard

* Interleavings: match threads beside each other, beside populate and beside
  the refresh process; the robot beside the board's automation and operators.
* Callbacks and timers that run in a state other than the one they were made for.
* Crashes between claim, POST and mark; POSTs whose answer is lost.
* A portal that has received a unit while the robot believes it failed.
* Passes that work on a list polled before the board changed.
* Fetches that share a directory, browsers that outlive them, sessions in half.
* A walk over strings that never steps back and must not miss a subsequence.

`PROJECT.json` "hazards" has each of them at its line, with the properties that
would catch it, or the reason why none does yet.

## Modules

| Module | Models |
|---|---|
| `Repository` | the tables as values, a method as an operator |
| `ProcessScan` | the desk: `process_scan`, sink, `populate_po`, `refresh_all`, crashes |
| `ProcessScan_proofs` | theorems about the desk |
| `SyncPending` | `sync_pending` between the scans of the desk; extends `ProcessScan` |
| `SyncPending_proofs` | theorems about the desk with its passes, those of a single thread among them |
| `ItemLifecycle` | abstract: what the robot promises of an item |
| `ReceiveSync` | the robot: loop, pass, board, status row, what the wizard does to the portal |
| `ReceiveSync_proofs` | theorems about the robot, and that it implements `ItemLifecycle` |
| `WizardContract` | abstract: what the robot takes for granted of `receive_item` |
| `PortalWizard` | the wizard: session, steps, grid, and its surroundings |
| `PortalWizard_proofs` | theorems about the wizard, and that it implements `WizardContract` |
| `PortalFetch` | the fetches of the catalog and the directory they share |
| `PortalFetch_proofs` | theorems about the fetches |
| `ModelResolution` | from a barcode to a model: tiers, walk, learned barcodes |
| `ModelResolution_proofs` | theorems about the resolver |
| `ScannerUI` | the window: states, dispatch, threads, callbacks, timers |
| `ScannerUI_proofs` | theorems about the window |
| `MC...` | instances for TLC |

### The desk: `Repository`, `ProcessScan`

One action is one call of `process_scan`; `pc[w]` says which comes next in
thread `w`:

| `pc` | action | code |
|---|---|---|
| `idle` | `Scan` | `unclaimed_for_po`, `resolve_exact`, choice of the row |
| `dup` | `FindClaimedBySerial` | only without a match and with a serial |
| `claim` / `save` | `ClaimAndSave` / `SaveRecord` | one transaction each |
| `check` | `WasEmitted` | return at once when emitted |
| `emit`, `post`, `posted` | `Emit`, `CreateItem`, `Acknowledge` | `_seen`, the POST, its answer |
| `mark` | `MarkEmitted` | |

`RepositoryError` and `SinkError` end a call at any of these; `Crash` ends the
process and with it all threads and `seen`. A POST is two steps, so that its
answer may be lost. `PopulateFetch`/`PopulateUpsert` and `RefreshAll` run
beside them. `unclaimed_for_po` has no ORDER BY, hence the row is any one.
Strings are known by their `normalize_key` (`NormKey`) only, receiving ids by
`ReceivingIdOf`, which is injective in the instances; the code hashes a
concatenation, see below. `lost` is a history variable: how
often a POST of an id was forgotten.

### Pending records: `SyncPending`

`GetPending` reads the rows, `TakeItem` begins the next, `SyncEmit`,
`SyncCreateItem`, `SyncAcknowledge`, `SyncMarkEmitted` are the calls of
`_process_item`, `SyncItemError` the `except` around them, `EndSync` the threshold
after the loop. Between passes `DeskStep` is any step of `ProcessScan`; during one
the desk stands still, since the code knows one writer and one thread would run
both. `SyncCrash` ends pass, threads and `seen`.

### The robot: `ReceiveSync`

`pc` follows `receive_pending` for `Head(todo)`: `next` → one of the ends of the
wizard (`ReceiveItem`, `ReceiveUnseen`, `NotFound`, `Glitch`, `RaiseBefore`,
`RaiseAfter`) → board calls → `settled` or `failed` → `next`. `ReceiveUnseen` is a refusal that
shows no alert within 3 s of the last click: the wizard returns `received` and the
portal has nothing. `RaiseAfter` is an `ExecutorError` after the last click, when the
portal has the serial. `UncaughtError` is a BoardError
or RepositoryError anywhere in the loop, `Crash` an end from outside, `Restart`
somebody starting it again. `Arrive`, `Automation` and `Requeue` are the desk,
the board's routing of NEEDS_ATTENTION and the operator, at any time, also for
items that the pass holds. `bound` is the portal: it fills the lowest open slot
of the line, whatever item the serial was for. `log`, `receipts`, `unknown` and
`refused` (the items whose last attempt was refused unseen) are histories.

`ItemLifecycle` is the promise: an item is open until RECEIVED or NO_MATCH, which
are final; attempts are made for open items only; RECEIVED is given to items that the
portal was given the serial of, or refused unseen in the last attempt.
`ImplementsLifecycle` maps `entries` to `receipts`, so that a second entry of an item
is a step of its own, and `refused` to itself.

### The wizard: `PortalWizard`, `WizardContract`

`pc` is the call to Playwright that comes next: `start`, `launch`, `context`,
`page`, `login` of `_ensure_session`; `navigate` to `check` of the eight steps;
`cleanup` and `closing` are `close` after a failed session and after a pass. `held` is
how many of Playwright, browser, context and page the executor has; `close` takes
them from the top and stops where one raises. A dead browser (`alive`) answers
nothing. The portal is `tbr` (units to be received, by row), `entered`, `unplaced`.
A page that lacks something (`Lacking`) is a glitch and `not_found`.

What is assumed of the portal: the last click has received the unit exactly if the
row was open and the session known and nothing was refused; a refusal shows an
alert within the 3 s, or (fault `silent`) it does not; an accepted unit shows none;
the grid shows a row on its page until it is received. Of Playwright: a thread has
one instance, so that `start` beside one that was not stopped raises.

`WizardContract` is `receive_item` as the robot sees it: at most one entry a call,
`received` after an entry (or after a refusal nobody was shown), `not_found` and
`finalize_error` without one, an ExecutorError after either. `KeepsContract` maps
`current` to the item of the call and `unseen` to a silent refusal. The ends of an
attempt in `ReceiveSync` (`ReceiveItem`, `ReceiveUnseen`, `NotFound`, `Glitch`,
`RaiseBefore`, `RaiseAfter`) are the returns of `WizardContract`; this correspondence
is by reading, not checked.

### The fetches: `PortalFetch`

A fetcher is a populate thread or the refresh; `pc[f]` follows `_fetch_all` from
`clear` to `quit` and then the `write` of its caller. An export is the version of the
portal it was made of (`today`), a row of the catalog the version it was written
from. A file has a writer until it is complete (the `.crdownload` of the code), and
a name that has `serial-number-inventory` in it or has not. `Clear` may leave any
file that it cannot remove. `Quit` ends what the browser downloads, `QuitRaises`
and `ProcessEnds` may leave a browser that completes it. `alone` is a history: no
other fetch was under way, no orphan's file was there at the start, and no complete
file could not be removed.

### The resolver: `ModelResolution`

Strings are sequences of characters. The scan's two reads are actions of their own,
between which the order changes (`ChangeOrder`); `Learned`, `Exact`, `ExactTier`
are the tiers, `WalkModel` begins `model_matches_barcode` for a model, `Skip`, `Take`,
`Reject`, `Accept` are its loop, `Decide` counts what it found. `SaveMapping` is the
typed model, which is learned (or saving it fails) before the order is asked. The
reference is `Embeds`: there are rising positions in the barcode with the letters
of the model. The models are tried in any order; the code's order is of no
consequence to what is decided.

### The window: `ScannerUI`

`ui` has the fields of `ReceivingUI` that decide anything, and which of the
reset button, the model entry and the manual form is shown. A background thread
is a record; it ends by appending to `callbacks`, which the Tk thread runs in
order. A match thread takes two steps, the claim and the label, between which
the window and other threads go on. `timers` counts the `set_idle` calls of
`set_match_found` and `set_already_scanned` that are still to come. `catalog`
abstracts the open slots to which models an order still has, `claims` are the
units claimed. Scanned texts are a set of values that are model barcodes and
serials alike. The resolver may give any verdict (AUTO any model, since a
learned mapping may name any; PROPOSE only a model that the order has).
Tk runs what it queued for itself (`turnstile`, `lock_po`) before the operator
scans again. `proposals`, `chosen` and `overtaken` are histories: what was proposed for
which barcode; the models that a scan gave for certain, that were typed, or that were
confirmed in the sight of their proposal; and the models that a verdict has put under
a rescan which was already on its way to `handle_propose_scan`.

## Runs

Passing runs; the numbers are distinct states.

| Run | Bounds | Shows |
|---|---|---|
| `DeskConcurrent` (595 k) | 1 order, 2 slots of a model, 2 threads, 3 barcodes, 2 serials, 2 scans, 1 error, 1 crash, 1 refresh | a claim has its record, emitted means on the board and stays, only the refresh un-claims |
| `DeskSingle` (2.3 M) | 1 thread, 3 slots (two spellings of a model), 3 scans, 1 error, 1 crash, 1 pass of `sync_pending` with 1 error | a duplicate item needs a forgotten POST; the slot of a READY item has one record, with its id and serial; "received" is on the board; the verdict of a pass is what the table says, one error leaves one record pending, and a PASS has repaired what crashes left |
| `RobotFaults` (9.6 M) | 3 items in two lines, 3 ExecutorErrors, a glitch, a silent refusal, an error, a crash, a requeue | entered or refused unseen before RECEIVED, one receipt per known entry, a kill is earned, the status row |
| `RobotLiveness` (531 k) | items 1 and 3 ready at the start, item 2, between them by id, invalid; else as `RobotFaults` with 2 ExecutorErrors | no attempt after two failures, an invalid item between them or not; the robot implements `ItemLifecycle`; passes end; ready items are handled unless the robot stops; a line that is ready from the start gets every serial in its own slot |
| `PortalWizard` (512 k) | 2 items, 3 pages of which 2 are searched, 2 calls, 1 pass end, one fault of each of 9 kinds | the wizard implements `WizardContract`; `not_found` is true; faults fail no more calls than they must; units are placed; calls end |
| `PortalFetch` (1.5 M) | 2 populate threads and a refresh, 1 order of 2 units, 3 versions (the last with no rows), 2 fetches, one fault of each of 4 kinds | a fetch that is alone is fresh; an order is one export; the catalog is never emptied |
| `ModelResolution` (469 k) | 4 characters, 5 models, 6 barcodes, 2 typed models, 2 scans, 1 change of the order | the greedy walk finds exactly the subsequences; AUTO, PROPOSE and NEEDS_MODEL are what they should be; scans are answered |
| `Window` (467 k) | 6 inputs, 1 order, 1 model, 2 texts, 1 fault | a serial is matched only against a chosen model, one exception named; busy means work is under way and ends; what the window asks belongs to its barcode |

Why the bounds suffice: two threads, two slots of a model and two serials are the
least with which one unit takes another's slot; a third scan lets a retry follow a
crash that followed a scan; one crash or error at any step reaches every
partial state of a call, and the second scan is the retry. For the robot, two
failures in a row need a third item before, between or after them (an invalid one
between them in `RobotLiveness`); a second line shows that the portal's choice stays in the line. Of two calls of the
wizard the second meets the session that the first has left, in whatever state, and
the three pages have a done row, an open one and one beyond the limit. Two fetches
are the least that meet, of either kind, and a third version tells an old export, a
new one and an empty one apart. The strings have a letter too early, twice, in
two cases, and none at all, models that are one another's subsequence, empty, or
separators only. In the window, six
inputs are an order, a form or scan for a first match and two more keys beside
its late callbacks.

Deadlock is not checked but for the robot, which never stops for good: elsewhere
scans, calls, fetches and inputs are bounded, and with them used up all stops.

Runs that end with a violation state what a document, comment or docstring says;
each is a finding in `PROJECT.json` with the quotation:

| Run | Said | What happens |
|---|---|---|
| `SerialTwice` | a rescan of a serial claims nothing | it does while a slot of the model is open |
| `RetryLoses` | crash and retry do not lose the record | the slot is claimed, the retry is "already scanned", the record is never posted |
| `BlockLifted` | blocked until the operator acts | an old timer sets the window idle |
| `NoReprint` | rescan to print a failed label | already_scanned, no label |

Other places where documents and code part, visible in the same actions and not
given a run of their own:

* `DuplicateNeedsLostPost` is the most that holds of `adapters/sink.py:7` ("neither
  double-emits"): after a forgotten POST an item is created twice.
* `services/receive.py:145` says that a unit is never claimed without its record, and
  `:36` calls the id a hash of three fields; `:40` hashes them with nothing between, so
  order 1 slot 23 and order 12 slot 3 share an id for a barcode, and the second
  claim overwrites the record of the first. `IdsTellSlotsApart`, the assumption of
  `ClaimedHasRecord`, is what the code does not give.
* A BoardError or RepositoryError ends the robot (`UncaughtError`);
  `docs/RUNBOOK.md:130` and `docs/GETTING_STARTED.md:401` say that it continues.
* `services/sync.py:8` says that a kill is raised immediately; the threshold is looked
  at after the loop (`EndSync`), so every record is tried.
* `core/ports.py:114` says that `not_found` is a row that is absent; a row beyond ten
  pages is not found either, which `NotFoundIsTrue` leaves out.
* `core/ports.py:113` says that `received` means received; a refusal that is not shown
  in 3 s is `received` too, which is `unseen` in `WizardContract`, and `ReceiveUnseen`
  and `refused` in `ReceiveSync`: RECEIVED on the board is no proof of an entry.
* `adapters/ui/blocking_states.py:8` and `:74` and `core/model_resolution.py:26` say that a
  proposal is confirmed by scanning the same barcode. `handle_propose_scan` compares
  with the `_pending_barcode` of the moment and looks at no state: if A has proposed
  a model, B is scanned, and the verdict of an earlier scan of B (PROPOSE or
  NEEDS_MODEL) comes before the turnstile runs, B confirms a model that the operator
  was never asked about for B. `MatchesChosenModel` names this one case (`overtaken`).
  A late AUTO verdict is taken as well, whatever the operator did meanwhile
  (`_apply_verdict`); the property counts its model as chosen.
* `core/model_resolution.py:61` says that the first tier of `resolve_model` is the
  exact check again; it takes a barcode of blanks and hyphens for a model of such.
* `AND claimed_at IS NULL` (`README.md:47`) leaves the claim to the first scan, but
  `ClaimAndSave` does not look at the row count: two threads that read the same
  row both save and post. `DEBT.md:201` knows of it for several scanners.
* `RefreshAll` drops every claim; `docs/GLOSSARY.md:26` says that only a person does.
* The robot stops at two failures in a row; `README.md:49` and
  `docs/GLOSSARY.md:30` say under 50 % after at least five attempts.
* A robot that ends with a BoardError leaves `running` in the status row;
  `docs/GLOSSARY.md:198` says a stop is written.
* An item left in READY by a failed `mark_received` (`adapters/board.py:176`) is
  entered again if its line has another open slot; `ReceiptNeedsUnknown` bounds it.
* The sort (`services/receive_sync.py:17`) orders one poll, not items of later
  polls: a higher id that is ready first takes the lower slot. `BoundToOwnSlot` is
  therefore checked for a line that is ready at the start, and proved for lines in
  order (`LinesInOrder`, below).
* `_add_po`, Reset and old timers make a MATCHING window idle, so a second match
  may start beside the first (`core/scan_dispatch.py:75`).

## Fairness

`RobotLiveness`: `WF_vars(Robot)`. The robot is one loop on one thread, and each of
its calls returns or raises: requests have a timeout of 20 s, the page waits of
Playwright have theirs. Nothing is assumed of the desk, the operator or the
board's automation, nor that anybody restarts the robot. `ReadyIsHandled` depends
on ExecutorErrors being finitely many (`MaxRaises`): an item that fails for ever
stays READY until the automation moves it.

`Window`: `WF_vars(RunCallback)`, the Tk main loop, and weak fairness of
each background thread, whose calls have timeouts. Timers need none.

`PortalWizard`: `WF_vars(Session \/ Wizard)`. It is a call on one thread, and
Playwright's waits time out. Nothing is assumed of the portal or of further calls.

`ModelResolution`: `WF_vars(Resolve)`, a thread with loops over finite strings and
two reads. Scans, typed models and changes of the order need not come.

`PortalFetch` and the desk are checked for safety only; a fetch's waits are bounded
by counters (`_wait_for_csv`), so that it ends is plain.

## Proofs

Checked by TLAPS for all values of the constants that meet the named assumptions.
Every invariant and every safety property of the passing runs has its theorem; a
condition that a theorem needs beside the assumptions is in its statement.

*Desk* (`ProcessScan_proofs`), from `RepositoryAssumption`, `NoRowAssumption`,
`BoundsAssumption`:

* `TypeCorrect`: `TypeOK` is inductive as it stands.
* `EmittedNeverReset`: the action property from `TypeOK` and lemmas on
  `save_record` and `mark_emitted`.
* `MarkedIsOnBoard`: `EmittedOnBoard` needs that a thread in step `mark` has its
  id on the board, and a thread in `posted` too.
* `ClaimsOutlivePopulate`: from lemmas on `claim` and `upsert_items`.
* `ClaimedHasRecord`: assumes `IdsTellSlotsApart`, that two ids are equal only
  for equal slots. Without it the statement is false, as said above.

*Desk with its passes* (`SyncPending_proofs`), from the same assumptions and
`SyncBoundsAssumption`. Three conditions occur in the statements. `OneWorker`: one
thread scans at a time, as with one scanner process; with two threads a slot is
claimed, saved and posted twice. `IdsTellSlotsApart`, as above. `refreshes = 0`: no
`refresh_all` yet; a refresh un-claims slots whose items are on the board.

* `SyncTypeCorrect`, `SyncMarkedIsOnBoard`, `SyncClaimedHasRecord`: the invariants of
  the desk hold through passes too; a pass changes a record in its mark only.
* `VerdictIsTrue`: `PassInv` ties the counters to the table. The rows read agree with
  it (`RowsAgree`), what the loop has not done is not emitted (`LoopUnsent`), the
  unsent records are those left to the loop, the one in hand, and as many as there
  were errors (`Counted`), the verdict is of that count (`Decided`), and what is not
  emitted is among what the pass has read (`Covered`).
* `PostsNeedLosses` (`OneWorker`): `PostsInv`. The items of an id are at most the
  forgotten POSTs plus one, if somebody still knows of it: the sink, the emitted mark,
  or the call that waits for the answer. `OnTheWay` says that nobody is
  about to post an id that is known.
* `ReadyItemsAgree` (all three): `SlotInv`, a slot is claimed once; until then it has no
  record and no item, afterwards at most one record, with which its items agree; and
  `KeyedInv`, a record is under the id of its slot and a claimed slot has one, so that
  the record is there. On a collision the second claim would overwrite it.
* `ReceivedMeansReady`, `PassHasRepaired` (all three): `ReadyInv`, what a call under
  way has of its slot on the board in each step, and `BoardIsKeyed`, that an item is
  under the id of its slot. For the pass, a record that is not pending is emitted, and
  an emitted one is on the board.

*Robot* (`ReceiveSync_proofs`), from `RobotAssumption`, `NoStatusAssumption`:

* `RobotTypeCorrect`; `ReceivedIsEnteredOrRefused` (`EnteredInv`: an item in step
  `received` or `moving` is in the portal or in `refused`, and what is in the portal
  has a receipt counted); `TwoFailuresEndThePass` and `StatusIsTrue` (the counter is
  the streak of failures at the end of the log); `OneReceiptPerEntry` (receipts
  are at most the unknown ones plus one that the board knows or is about to know;
  an open item that no pass is about to settle has all its receipts unknown);
  `RobotKeepsThePromise` (step simulation; what a pass holds is on the board).
* `KillNeedsTwoFailures`: `FlagInv`. The item of an attempt that raised is flagged
  from when the robot goes on, and stays so until the operator's requeue, which
  counts; two items in a row that raised are two flags when the robot kills itself.
* `EachSerialInItsSlot`: for lines in order (`LinesInOrder`). A valid item has a slot to
  itself, and each slot that the portal fills before it belongs to a valid item that is
  on the board from the start and sorts before it; what arrives later comes after.
  The constants of `RobotLiveness` meet it. `OwnInv`: as long as nothing fails, the
  pass is in order, who is entered is in the own slot, and an item of the start that
  is not entered is still to come, so that the next item finds its slot the lowest.

*Wizard* (`PortalWizard_proofs`), from `WizardAssumption`:

* `WizardTypeCorrect`, with `SessionInv`, the number of parts held in each step of
  `_ensure_session`: only so is a session complete when the wizard begins.
* `NotFoundIsSound`: `SearchInv`, the pages behind the pager have no open row of the
  model as long as nothing was lacking, holds also when somebody else receives a
  unit, since `tbr` only falls.
* `PlacedIsSound`: `PlaceInv`, a call that has passed a label without setting it has a
  `missing` fault that no received unit accounts for yet.
* `WizardKeepsContract`: step simulation with `AnswerInv`, which ties what the portal
  answered to `given`. Every step of the wizard is one of the contract or a stutter.
* `FailuresArePaidFor`: a fault is spent before the call fails of it, so `FailInv` adds
  what is owed meanwhile (`Owed`: a call being given up, a login that is lost, a page
  without the button): the failed calls and what is owed are at most the faults,
  unless the session is `Stuck` (a dead page, or parts left by a failed close), which
  costs every call, or is being closed at the end of the pass.

*Fetches* (`PortalFetch_proofs`), from `FetchAssumption`:

* `FetchTypeCorrect`, with the browser open exactly inside the `try` that quits it;
  `CatalogIsNeverEmptied`, from what the two writers compute.
* `FetchIsFresh` and `OrdersAreWhole`: `AloneInv`. A fetch that is alone is the only one
  under way, no file is an orphan's, after its `Clear` every file is of an export
  begun after it, and its order has no row until it writes. `PartsHaveWriter` is
  needed for the files of others: with no other browser open there are none.

*Resolver* (`ModelResolution_proofs`), from `CharAssumption`:

* `GreedyWalkIsComplete`: by the classical argument that the greedy walk stays ahead.
  `WalkInv` says of a walk under way that what it has matched embeds in the part of
  the barcode it has consumed, and that in every embedding of the whole model the
  next letter lies beyond it.
* `ResolverNeverGuesses`, `ResolverAsksOnlyInDoubt`, from it and from the tiers being
  tried in order on one reading of the order. `normalize_key` is never expanded.
* `ResolutionTypeCorrect`.

*Window* (`ScannerUI_proofs`), from `UIAssumption`:

* `WindowTypeCorrect`: `WindowInv`. Whatever a state, a thread or a
  callback needs, it has: an order (`Orders`), what a thread was started with
  (`Carried`), a model in the states that match against it (`ModelAtHand`). The queue is
  seen as the set of its calls (`Calls`), since what matters is which are in it.
* `BusyIsAnswered`: `BusyAwaits`, the property over that set. A thread leaves only for
  a callback, and a callback that leaves the window busy is not the one it waits for.
* `AsksForItsOwnBarcode`: inductive beside `WindowInv`; of state PROPOSE only.
* `MatchedWithChosenModel`: `ChoiceInv`, beside `WindowInv` and `ProposalIsForBarcode`.
  The model that is matched against, the model of an AUTO verdict under way, and the one
  that a turnstile under way would confirm, are each chosen or `overtaken`. The
  histories only grow.

Only model-checked: liveness under fairness (`PassEnds`, `ReadyIsHandled`, `CallEnds`,
`ScanIsAnswered`, `BusyEnds`), which is beyond the prover, and the four violations,
which are traces of an instance. That the ends of an attempt in `ReceiveSync` are the
returns of `WizardContract` is neither checked nor proved.

## Not modelled

* `adapters/printer.py`: rendering. A label prints or fails.
* The content of a CSV, the safety check of `DOWNLOAD_DIR`, `make_source` and the fakes.
* Whether the on-order filter was applied before the export is triggered
  (`adapters/source.py:135`): an export is of what is on order.
* `config.py`, factories, logging, record types, migrations, scripts.
* The sync poll of the window: `scanner_runner.py` gives it no status store.
* `MID_SCAN_DIRECT` and `save_mapping` failing in the window: the resolver is always
  wired, and the mapping (in `ModelResolution`) only makes more scans AUTO, which any
  scan may be in `ScannerUI`.
* `surface_attention`: no record is made with needs_attention.
* Clocks: when a timer fires is left open. That includes firing late, not early:
  no property depends on how long it takes.
* More than one scanner process: the code assumes a single writer.

## Plan

1. Compositions: desk and robot through the board (the manual form's empty
   serial, an item posted twice), window and resolver and desk (a model resolved on
   another order, a typed model with two spellings), `ReceiveSync` over
   `WizardContract` in place of its own ends.
2. Proofs: of the compositions of item 1, from the invariants proved of their parts;
   what of `ReceivedMeansReady` and `PassHasRepaired` survives a refresh.
3. A fetch whose filter was not applied, and claims under a refresh that follows it.
