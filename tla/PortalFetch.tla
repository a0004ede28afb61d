----------------------------- MODULE PortalFetch -----------------------------
(***************************************************************************)
(* How the catalog gets its rows: PortalSource (adapters/source.py) under  *)
(* populate_po, one thread to an order of the scanner window, and under    *)
(* refresh_all, a process of its own.  Each fetch drives a browser of its  *)
(* own, and all of them download into, poll and clear the one DOWNLOAD_DIR.*)
(*                                                                         *)
(* An export is told by the version of the portal it was made from, a row  *)
(* of po_inventory by the export it was written from.  The portal, Chrome  *)
(* and the file system are external.                                       *)
(***************************************************************************)
EXTENDS Naturals

CONSTANTS
    Populators,  \* threads of the window that run populate_po
    Refresher,   \* the process that runs refresh_all
    POs,         \* orders
    InvIds,      \* inventory ids
    PoOf,        \* the order of an inventory id
    MaxVersion,  \* bound: versions of the portal
    OnOrder,     \* the inventory ids on order, by version
    None,
    Disk,        \* the writer of a file that is complete
    Orphan,      \* a browser that its process has left behind
    MaxStarts,   \* bound: fetches
    MaxFault     \* bound: faults, by kind

Versions == 0 .. MaxVersion
Fetchers == Populators \cup {Refresher}
Kinds    == {"fails",   \* a step raises
             "locked",  \* a complete file cannot be removed
             "quits",   \* driver.quit raises
             "kills"}   \* a process ends

ASSUME FetchAssumption ==
    /\ Refresher \notin Populators
    /\ Disk \notin Fetchers /\ Orphan \notin Fetchers /\ Disk # Orphan
    /\ None \notin Versions /\ None \notin POs
    /\ PoOf \in [InvIds -> POs]
    /\ MaxVersion \in Nat /\ OnOrder \in [Versions -> SUBSET InvIds]
    /\ MaxStarts \in Nat /\ MaxFault \in [Kinds -> Nat]

(* by: who writes the file, whose name ends in .crdownload until it is      *)
(* complete; named: whether the name is the one the export is known by.     *)
File == [of : Versions, by : Fetchers \cup {Orphan, Disk}, named : BOOLEAN]

VARIABLES
    today,     \* the version of the portal
    row,       \* po_inventory: the version a row was written from, or None
    files,     \* DOWNLOAD_DIR
    pc, order, \* where a fetcher is, and for which order
    csv, got,  \* the file it found, and the version it has parsed, or None
    open,      \* fetchers with a browser
    since,     \* history: the version of the portal when the fetch began
    alone,     \* history: no other fetch, no orphan, no locked file so far
    shared,    \* history: a fetch that was not alone has written rows
    starts, faults

fetch   == <<pc, order, csv, got>>
history == <<since, alone, shared>>
vars    == <<today, row, files, fetch, open, history, starts, faults>>

Steps == {"idle", "clear", "launch", "navigate", "export", "named", "any", "parse", "quit", "write"}

-----------------------------------------------------------------------------
Spend(kind) ==
    /\ faults[kind] < MaxFault[kind]
    /\ faults' = [faults EXCEPT ![kind] = @ + 1]

UnderWay(f) == pc[f] # "idle"

Go(f, step) == pc' = [pc EXCEPT ![f] = step]

(* What a browser was downloading when it is no longer quit.                *)
Abandoned(browsers) ==
    {IF x.by \in browsers THEN [x EXCEPT !.by = Orphan] ELSE x : x \in files}

(* What a browser was downloading goes with it.                             *)
Dropped(browsers) == {x \in files : x.by \notin browsers}

Init ==
    /\ today = 0
    /\ row = [i \in InvIds |-> None]
    /\ files = {}
    /\ pc = [f \in Fetchers |-> "idle"]
    /\ order = [f \in Fetchers |-> None]
    /\ csv = [f \in Fetchers |-> None]
    /\ got = [f \in Fetchers |-> None]
    /\ open = {}
    /\ since = [f \in Fetchers |-> 0]
    /\ alone = [f \in Fetchers |-> TRUE]
    /\ shared = FALSE
    /\ starts = 0 /\ faults = [kind \in Kinds |-> 0]

Begin(f, po) ==
    /\ ~UnderWay(f) /\ starts < MaxStarts
    /\ starts' = starts + 1
    /\ Go(f, "clear")
    /\ order' = [order EXCEPT ![f] = po]
    /\ csv' = [csv EXCEPT ![f] = None] /\ got' = [got EXCEPT ![f] = None]
    /\ since' = [since EXCEPT ![f] = today]
    /\ alone' = [g \in Fetchers |->
                    IF g = f THEN /\ ~\E h \in Fetchers : UnderWay(h)
                                  /\ ~\E x \in files : x.by = Orphan
                    ELSE alone[g] /\ ~UnderWay(g)]
    /\ UNCHANGED <<today, row, files, open, shared, faults>>

(* Mutant: the order is fetched whether or not it has rows.                 *)
PopulateAnyway(f, po) == Begin(f, po)

(* populate_po: an order with rows is not fetched.                          *)
Populate(f, po) ==
    /\ \A i \in InvIds : PoOf[i] = po => row[i] = None
    /\ Begin(f, po)

(* refresh_all, confirmed; when it is not, nothing happens.                 *)
Refresh(f) == Begin(f, None)

-----------------------------------------------------------------------------
(* _fetch_all *)

(* Mutant: the directory is not cleared.                                    *)
ClearNothing(f) ==
    /\ pc[f] = "clear"
    /\ Go(f, "launch")
    /\ UNCHANGED <<today, row, files, order, csv, got, open, history, starts, faults>>

(* What cannot be removed stays, and nobody is told.  The download of       *)
(* another browser can be removed or cannot, as the platform has it.        *)
Clear(f) ==
    /\ pc[f] = "clear"
    /\ \E kept \in SUBSET files :
        /\ files' = kept
        /\ IF \E x \in kept : x.by = Disk
           THEN Spend("locked") /\ alone' = [alone EXCEPT ![f] = FALSE]
           ELSE UNCHANGED <<faults, alone>>
    /\ Go(f, "launch")
    /\ UNCHANGED <<today, row, order, csv, got, open, since, shared, starts>>

Launch(f) ==
    /\ pc[f] = "launch"
    /\ open' = open \cup {f}
    /\ Go(f, "navigate")
    /\ UNCHANGED <<today, row, files, order, csv, got, history, starts, faults>>

(* There is no driver to quit yet.                                          *)
LaunchFails(f) ==
    /\ pc[f] = "launch"
    /\ Spend("fails")
    /\ Go(f, "idle")
    /\ UNCHANGED <<today, row, files, order, csv, got, open, history, starts>>

(* _login and _apply_on_order_filter.                                       *)
Navigate(f) ==
    /\ pc[f] = "navigate"
    /\ Go(f, "export")
    /\ UNCHANGED <<today, row, files, order, csv, got, open, history, starts, faults>>

Export(f) ==
    /\ pc[f] = "export"
    /\ \E named \in BOOLEAN :
        files' = files \cup {[of |-> today, by |-> f, named |-> named]}
    /\ Go(f, "named")
    /\ UNCHANGED <<today, row, order, csv, got, open, history, starts, faults>>

(* Mutant: a file that is still being written is taken too.                 *)
MatchesParts(f) == {x \in files : x.named \/ pc[f] = "any"}

Matches(f) == {x \in files : x.by = Disk /\ (x.named \/ pc[f] = "any")}

(* _wait_for_csv takes the first match, whichever that is.                  *)
Found(f) ==
    /\ pc[f] \in {"named", "any"}
    /\ \E x \in Matches(f) : csv' = [csv EXCEPT ![f] = x]
    /\ Go(f, "parse")
    /\ UNCHANGED <<today, row, files, order, got, open, history, starts, faults>>

(* 60 s for the name of the export, then 20 s for any CSV.                  *)
TimesOut(f) ==
    /\ pc[f] \in {"named", "any"} /\ Matches(f) = {}
    /\ Go(f, IF pc[f] = "named" THEN "any" ELSE "quit")
    /\ UNCHANGED <<today, row, files, order, csv, got, open, history, starts, faults>>

(* Another fetch may have removed the file in between: a SourceError.       *)
Parse(f) ==
    /\ pc[f] = "parse"
    /\ got' = [got EXCEPT ![f] = IF csv[f] \in files THEN csv[f].of ELSE None]
    /\ Go(f, "quit")
    /\ UNCHANGED <<today, row, files, order, csv, open, history, starts, faults>>

(* A page without the field, a directory or a file that cannot be read, a   *)
(* file without the required columns.                                       *)
ScrapeFails(f) ==
    /\ pc[f] \in {"navigate", "export", "named", "any", "parse"}
    /\ Spend("fails")
    /\ Go(f, "quit")
    /\ UNCHANGED <<today, row, files, order, csv, got, open, history, starts>>

Quit(f) ==
    /\ pc[f] = "quit"
    /\ open' = open \ {f}
    /\ files' = Dropped({f})
    /\ Go(f, IF got[f] = None THEN "idle" ELSE "write")
    /\ UNCHANGED <<today, row, order, csv, got, history, starts, faults>>

(* quit in the finally raises: rows that were parsed go with it.            *)
QuitRaises(f) ==
    /\ pc[f] = "quit"
    /\ Spend("quits")
    /\ open' = open \ {f}
    /\ files' = Abandoned({f})
    /\ Go(f, "idle")
    /\ UNCHANGED <<today, row, order, csv, got, history, starts>>

-----------------------------------------------------------------------------
(* What becomes of the rows *)

Upserted(f) ==
    [i \in InvIds |-> IF i \in OnOrder[got[f]] /\ PoOf[i] = order[f] THEN got[f] ELSE row[i]]

(* Mutant: an export with no rows replaces the catalog too.                 *)
ReplacedByAny(f) == [i \in InvIds |-> IF i \in OnOrder[got[f]] THEN got[f] ELSE None]

(* EMPTY_ABORT, or one transaction that deletes every row and inserts.      *)
Replaced(f) ==
    IF OnOrder[got[f]] = {} THEN row
    ELSE [i \in InvIds |-> IF i \in OnOrder[got[f]] THEN got[f] ELSE None]

Write(f) ==
    /\ pc[f] = "write"
    /\ row' = IF f = Refresher THEN Replaced(f) ELSE Upserted(f)
    /\ shared' = (shared \/ ~alone[f])
    /\ Go(f, "idle")
    /\ UNCHANGED <<today, files, order, csv, got, open, since, alone, starts, faults>>

(* A RepositoryError; the transaction is rolled back.                       *)
WriteFails(f) ==
    /\ pc[f] = "write"
    /\ Spend("fails")
    /\ Go(f, "idle")
    /\ UNCHANGED <<today, row, files, order, csv, got, open, history, starts>>

-----------------------------------------------------------------------------
(* The surroundings *)

PortalChanges ==
    /\ today < MaxVersion /\ today' = today + 1
    /\ UNCHANGED <<row, files, fetch, open, history, starts, faults>>

Downloaded ==
    /\ \E x \in files : x.by # Disk /\ files' = (files \ {x}) \cup {[x EXCEPT !.by = Disk]}
    /\ UNCHANGED <<today, row, fetch, open, history, starts, faults>>

(* The window is closed over its daemon threads, or the refresh is broken   *)
(* off.  A browser of theirs ends with them or is left behind.              *)
ProcessEnds(threads) ==
    /\ \E f \in threads : UnderWay(f)
    /\ Spend("kills")
    /\ pc' = [f \in Fetchers |-> IF f \in threads THEN "idle" ELSE pc[f]]
    /\ open' = open \ threads
    /\ \E stay \in SUBSET (open \cap threads) :
        files' = Abandoned(stay) \ {x \in files : x.by \in threads}
    /\ UNCHANGED <<today, row, order, csv, got, history, starts>>

Step(f) ==
    \/ Clear(f) \/ Launch(f) \/ LaunchFails(f) \/ Navigate(f) \/ Export(f)
    \/ Found(f) \/ TimesOut(f) \/ Parse(f) \/ ScrapeFails(f) \/ Quit(f) \/ QuitRaises(f)
    \/ Write(f) \/ WriteFails(f)

Next ==
    \/ \E f \in Fetchers : Step(f)
    \/ \E f \in Populators, po \in POs : Populate(f, po)
    \/ Refresh(Refresher)
    \/ PortalChanges \/ Downloaded
    \/ ProcessEnds(Populators) \/ ProcessEnds({Refresher})

Spec == Init /\ [][Next]_vars

-----------------------------------------------------------------------------
(* Properties *)

(* Every variable holds a value of its kind; a browser is open exactly in   *)
(* the try that quits it, and the file to be parsed was complete.           *)
TypeOK ==
    /\ today \in Versions /\ row \in [InvIds -> Versions \cup {None}]
    /\ files \subseteq File
    /\ pc \in [Fetchers -> Steps] /\ order \in [Fetchers -> POs \cup {None}]
    /\ csv \in [Fetchers -> File \cup {None}] /\ got \in [Fetchers -> Versions \cup {None}]
    /\ open = {f \in Fetchers : pc[f] \in {"navigate", "export", "named", "any", "parse", "quit"}}
    /\ \A f \in Fetchers : pc[f] = "parse" => csv[f] \in File /\ csv[f].by = Disk
    /\ \A f \in Fetchers : pc[f] = "write" => got[f] # None
    /\ since \in [Fetchers -> Versions]
    /\ alone \in [Fetchers -> BOOLEAN] /\ shared \in BOOLEAN
    /\ starts \in 0 .. MaxStarts /\ faults \in [Kinds -> Nat]

(* A fetch that met no other fetch, no orphan and no locked file has an     *)
(* export that is not older than the fetch: the file it finds is its own.   *)
FreshIfAlone ==
    \A f \in Fetchers : pc[f] = "write" /\ alone[f] => got[f] >= since[f]

(* The rows of an order are those of one export, all of them and no other,  *)
(* as long as every fetch that wrote rows was alone: the order of a         *)
(* populate had no rows, and a refresh replaces every order.                *)
OrderIsOneExport ==
    shared \/
    \A po \in POs :
        LET rows == {i \in InvIds : PoOf[i] = po}
        IN \/ \A i \in rows : row[i] = None
           \/ \E v \in Versions :
                \A i \in rows : row[i] = IF i \in OnOrder[v] THEN v ELSE None

(* refresh_all's KILL criterion, for whatever fails and whoever interferes: *)
(* a catalog with rows never loses the last of them.                        *)
NeverEmptied ==
    [][(\E i \in InvIds : row[i] # None) => \E i \in InvIds : row'[i] # None]_row
=============================================================================
