----------------------------- MODULE ScannerUI ------------------------------
(***************************************************************************)
(* The window of the scanning desk: ReceivingUI (adapters/ui/scanner_ui.py *)
(* and the state functions beside it), the dispatch of a scan              *)
(* (core/scan_dispatch.py), and the background threads that resolve a      *)
(* model, match a unit, print its label and load an order.                 *)
(*                                                                         *)
(* The widgets belong to the Tk thread.  A background thread ends by       *)
(* queueing a callback for it; the Tk thread runs the queue in order,      *)
(* fires its timers, and takes the operator's keys in between.             *)
(***************************************************************************)
EXTENDS Naturals, Sequences, FiniteSets

CONSTANTS
    POs, NoPO,
    Models, NoModel,
    Texts, NoText,    \* what the scanner reads: the UI cannot tell a model from a serial
    MaxInputs,        \* bound: scans, submits, clicks and keys of the operator
    MaxFaults         \* bound: background calls that raise

ASSUME UIAssumption ==
    /\ NoPO \notin POs /\ NoModel \notin Models /\ NoText \notin Texts
    /\ MaxInputs \in Nat /\ MaxFaults \in Nat

VARIABLES
    ui,         \* the fields of ReceivingUI
    threads,    \* background threads that run
    callbacks,  \* root.after(0, ...), in order
    timers,     \* set_idle calls of set_match_found and set_already_scanned that wait
    catalog,    \* <<po, model>>: the order has an unclaimed unit of the model
    claims,     \* history: the units process_scan has claimed
    unprinted,  \* history: the claimed units whose label failed to print
    proposals,  \* history: <<barcode, model>> the operator was asked to confirm
    overtaken,  \* history: models a verdict put under a rescan that was on its way
    chosen,     \* history: models a scan gave for certain, or that were typed or confirmed
    inputs, faults

vars == <<ui, threads, callbacks, timers, catalog, claims, unprinted, proposals, overtaken,
          chosen, inputs, faults>>

asked == <<proposals, overtaken>>

States == {"IDLE", "RESOLVING", "PROPOSE", "NEEDS_MODEL", "MID_SCAN", "MATCHING",
           "MATCH_FOUND", "NO_MATCH", "PRINT_FAILED", "ALREADY_SCANNED"}
Busy    == {"MATCHING", "RESOLVING"}
Blocked == {"PROPOSE", "NEEDS_MODEL"}

UI == [state           : States,
       current_po      : POs \cup {NoPO},
       active_pos      : SUBSET POs,
       model_scan      : Models \cup {NoModel},
       pending_barcode : Texts \cup {NoText},
       proposed_model  : Models \cup {NoModel},
       shown           : SUBSET {"reset", "needs_model", "manual"}]

Unit == [po : POs, model : Models, serial : Texts \cup {NoText}]

Thread == [id     : 1 .. MaxInputs,
           kind   : {"resolve", "match", "print", "populate"},
           po     : POs,
           model  : Models \cup {NoModel},
           text   : Texts \cup {NoText}]

Callback == [do    : {"turnstile", "lock_po", "verdict", "outcome", "set_idle", "add_po"},
             what  : {"-", "AUTO", "PROPOSE", "NEEDS_MODEL",
                      "received", "no_match", "already_scanned", "print_failed"},
             po    : POs \cup {NoPO},
             model : Models \cup {NoModel},
             text  : Texts \cup {NoText}]

call(do) == [do |-> do, what |-> "-", po |-> NoPO, model |-> NoModel, text |-> NoText]

queue(c) == callbacks' = Append(callbacks, c)

start(kind, po, model, text) ==
    threads' = threads \cup {[id |-> inputs + 1, kind |-> kind, po |-> po, model |-> model,
                              text |-> text]}

-----------------------------------------------------------------------------
(* State transitions (scan_states.py, blocking_states.py) *)

set_idle(u) ==
    [u EXCEPT !.state = "IDLE", !.model_scan = NoModel, !.shown = @ \ {"manual", "reset"}]

set_mid_scan(u, model) ==
    [u EXCEPT !.state = "MID_SCAN", !.model_scan = model, !.shown = @ \cup {"reset"}]

set_match_found(u) == [u EXCEPT !.state = "MATCH_FOUND", !.model_scan = NoModel]

set_no_match(u) == [u EXCEPT !.state = "NO_MATCH", !.shown = @ \cup {"reset"}]

set_print_failed(u) == [u EXCEPT !.state = "PRINT_FAILED", !.shown = @ \cup {"reset"}]

set_already_scanned(u) ==
    [u EXCEPT !.state = "ALREADY_SCANNED", !.model_scan = NoModel, !.shown = @ \ {"reset"}]

(* Mutant: the barcode is the one that _on_scan has noted already.          *)
ProposeForPending(u, barcode, model) ==
    [u EXCEPT !.state = "PROPOSE", !.proposed_model = model, !.shown = @ \cup {"reset"}]

set_propose(u, barcode, model) ==
    [u EXCEPT !.state = "PROPOSE", !.pending_barcode = barcode, !.proposed_model = model,
              !.shown = @ \cup {"reset"}]

set_needs_model(u, barcode) ==
    [u EXCEPT !.state = "NEEDS_MODEL", !.pending_barcode = barcode,
              !.shown = (@ \ {"reset"}) \cup {"needs_model"}]

-----------------------------------------------------------------------------
Init ==
    /\ ui = [state |-> "IDLE", current_po |-> NoPO, active_pos |-> {}, model_scan |-> NoModel,
             pending_barcode |-> NoText, proposed_model |-> NoModel, shown |-> {}]
    /\ threads = {} /\ callbacks = <<>> /\ timers = 0
    /\ catalog = {} /\ claims = {} /\ unprinted = {}
    /\ proposals = {} /\ overtaken = {} /\ chosen = {}
    /\ inputs = 0 /\ faults = 0

(* The operator does something.  Tk has run what it queued itself while it  *)
(* handled the last key before it takes the next one.                       *)
Input ==
    /\ inputs < MaxInputs /\ inputs' = inputs + 1
    /\ \A k \in DOMAIN callbacks : callbacks[k].do \notin {"turnstile", "lock_po"}
    /\ UNCHANGED <<timers, catalog, claims, unprinted, asked>>

Fault == faults < MaxFaults /\ faults' = faults + 1

(* _on_scan of anything but a PO: label, by what decide_scan_action says.   *)
(* A scan that is dropped, or only rings, changes nothing.                  *)
ScanToResolve(text) ==
    /\ ui.state \in {"IDLE", "MATCH_FOUND"} /\ ui.current_po # NoPO
    /\ Input
    /\ ui' = [ui EXCEPT !.state = "RESOLVING", !.pending_barcode = text]
    /\ start("resolve", ui.current_po, NoModel, text)
    /\ UNCHANGED <<callbacks, chosen, faults>>

ScanToConfirm(text) ==
    /\ ui.state = "PROPOSE"
    /\ Input
    /\ queue([call("turnstile") EXCEPT !.text = text])
    /\ chosen' = chosen \cup {m \in {ui.proposed_model} : text = ui.pending_barcode}
    /\ UNCHANGED <<ui, threads, faults>>

ScanSerial(text) ==
    /\ ui.state = "MID_SCAN"
    /\ Input
    /\ ui' = [ui EXCEPT !.state = "MATCHING"]
    /\ start("match", ui.current_po, ui.model_scan, text)
    /\ UNCHANGED <<callbacks, chosen, faults>>

(* A PO: label of an order that is loaded, when neither busy nor blocked.   *)
ScanPO(po) ==
    /\ ui.state \notin Busy \cup Blocked /\ po \in ui.active_pos
    /\ Input
    /\ queue([call("lock_po") EXCEPT !.po = po])
    /\ UNCHANGED <<ui, threads, chosen, faults>>

(* The order field: a populate thread per order.                            *)
SubmitPO(po) ==
    /\ Input
    /\ start("populate", po, NoModel, NoText)
    /\ UNCHANGED <<ui, callbacks, chosen, faults>>

(* Esc: dismiss_no_match.                                                   *)
Dismiss ==
    /\ ui.state \in {"NO_MATCH", "PRINT_FAILED", "ALREADY_SCANNED"} \cup Blocked
    /\ Input
    /\ ui' = [set_idle(ui) EXCEPT !.shown = @ \ {"needs_model"}]
    /\ UNCHANGED <<threads, callbacks, chosen, faults>>

Reset ==
    /\ "reset" \in ui.shown
    /\ Input
    /\ ui' = set_idle(ui)
    /\ UNCHANGED <<threads, callbacks, chosen, faults>>

(* A model is typed into the NEEDS_MODEL entry.                             *)
NeedsModelSubmit(model) ==
    /\ "needs_model" \in ui.shown
    /\ Input
    /\ LET u  == [ui EXCEPT !.shown = @ \ {"needs_model"}]
           po == ui.current_po
       IN  \/ /\ model = NoModel
              /\ ui' = set_needs_model(u, u.pending_barcode)
              /\ UNCHANGED threads
           \/ /\ model # NoModel /\ po = NoPO
              /\ ui' = set_idle(u)
              /\ UNCHANGED threads
           \/ /\ model # NoModel /\ <<po, model>> \in catalog
              /\ ui' = set_mid_scan(u, model)
              /\ UNCHANGED threads
           \/ /\ model # NoModel /\ po # NoPO /\ <<po, model>> \notin catalog
              /\ ui' = [u EXCEPT !.state = "MATCHING"]
              /\ start("match", po, model, NoText)
    /\ chosen' = chosen \cup ({model} \ {NoModel})
    /\ UNCHANGED <<callbacks, faults>>

(* check_model_on_po raises: the entry is gone and the block stays.         *)
NeedsModelSubmitFails ==
    /\ "needs_model" \in ui.shown /\ ui.current_po # NoPO
    /\ Input /\ Fault
    /\ ui' = [ui EXCEPT !.shown = @ \ {"needs_model"}]
    /\ UNCHANGED <<threads, callbacks, chosen>>

(* Mutant: the form opens before an order is chosen.                        *)
ShowManualWithoutPO ==
    /\ ui.state \in {"IDLE", "MATCH_FOUND"}
    /\ Input
    /\ ui' = [ui EXCEPT !.shown = @ \cup {"manual"}]
    /\ UNCHANGED <<threads, callbacks, chosen, faults>>

ShowManual ==
    /\ ui.state \in {"IDLE", "MATCH_FOUND"} /\ ui.current_po # NoPO
    /\ Input
    /\ ui' = [ui EXCEPT !.shown = @ \cup {"manual"}]
    /\ UNCHANGED <<threads, callbacks, chosen, faults>>

(* Submit of the manual form, in whatever state the window is by then.  The *)
(* serial may be empty; without a model the form only closes, as it does on *)
(* Cancel.                                                                  *)
ManualSubmit(model, serial) ==
    /\ "manual" \in ui.shown
    /\ Input
    /\ LET u == [ui EXCEPT !.shown = @ \ {"manual"}]
       IN  \/ /\ model = NoModel
              /\ ui' = u
              /\ UNCHANGED threads
           \/ /\ model # NoModel
              /\ ui' = [u EXCEPT !.model_scan = model, !.state = "MATCHING"]
              /\ start("match", u.current_po, model, serial)
    /\ chosen' = chosen \cup ({model} \ {NoModel})
    /\ UNCHANGED <<callbacks, faults>>

-----------------------------------------------------------------------------
(* Background threads *)

(* _run_resolution: a mapping that was learned or an exact match is AUTO,   *)
(* the one candidate of the walk is PROPOSE.                                *)
Resolve(th) ==
    /\ th.kind = "resolve"
    /\ threads' = threads \ {th}
    /\ \E model \in Models, what \in {"AUTO", "PROPOSE", "NEEDS_MODEL"} :
          /\ what = "PROPOSE" => <<th.po, model>> \in catalog
          /\ queue([call("verdict") EXCEPT !.what = what, !.po = th.po, !.text = th.text,
                       !.model = IF what = "NEEDS_MODEL" THEN NoModel ELSE model])
          /\ chosen' = chosen \cup {m \in {model} : what = "AUTO"}
    /\ UNCHANGED <<ui, timers, catalog, claims, unprinted, asked, inputs, faults>>

unit(th) == [po |-> th.po, model |-> th.model, serial |-> th.text]

outcome(th, what) ==
    [call("outcome") EXCEPT !.what = what, !.po = th.po, !.model = th.model,
                            !.text = th.text]

(* process_scan: the unit is claimed, with it perhaps the last of its model *)
Claim(th) ==
    /\ <<th.po, th.model>> \in catalog
    /\ claims' = claims \cup {unit(th)}
    /\ \/ UNCHANGED catalog
       \/ catalog' = catalog \ {<<th.po, th.model>>}

MatchReceived(th) ==
    /\ th.kind = "match"
    /\ Claim(th)
    /\ threads' = (threads \ {th}) \cup {[th EXCEPT !.kind = "print"]}
    /\ UNCHANGED <<ui, callbacks, timers, unprinted, asked, chosen, inputs, faults>>

(* ... or the serial is one that was claimed, or nothing matches.           *)
MatchOther(th) ==
    /\ th.kind = "match"
    /\ <<th.po, th.model>> \notin catalog
    /\ threads' = threads \ {th}
    /\ queue(outcome(th, IF /\ th.text # NoText
                            /\ \E c \in claims : c.po = th.po /\ c.serial = th.text
                         THEN "already_scanned" ELSE "no_match"))
    /\ UNCHANGED <<ui, timers, catalog, claims, unprinted, asked, chosen, inputs, faults>>

PrintLabel(th) ==
    /\ th.kind = "print"
    /\ threads' = threads \ {th}
    /\ unprinted' = unprinted \ {unit(th)}
    /\ queue(outcome(th, "received"))
    /\ UNCHANGED <<ui, timers, catalog, claims, asked, chosen, inputs, faults>>

PrintFails(th) ==
    /\ th.kind = "print"
    /\ Fault
    /\ threads' = threads \ {th}
    /\ unprinted' = unprinted \cup {unit(th)}
    /\ queue(outcome(th, "print_failed"))
    /\ UNCHANGED <<ui, timers, catalog, claims, asked, chosen, inputs>>

(* Mutant: the error of a background call leaves the window as it is.       *)
RaiseQuietly(th) ==
    /\ th.kind \in {"resolve", "match", "print"}
    /\ Fault
    /\ threads' = threads \ {th}
    /\ UNCHANGED <<ui, callbacks, timers, catalog, claims, unprinted, asked, chosen, inputs>>

(* The resolver, process_scan or the printer raises, process_scan before or *)
(* after it has claimed the unit, the printer something else than a         *)
(* PrinterError.                                                            *)
Raise(th) ==
    /\ th.kind \in {"resolve", "match", "print"}
    /\ Fault
    /\ threads' = threads \ {th}
    /\ queue(call("set_idle"))
    /\ \/ UNCHANGED <<catalog, claims>>
       \/ th.kind = "match" /\ Claim(th)
    /\ UNCHANGED <<ui, timers, unprinted, asked, chosen, inputs>>

(* populate_po has put some models of the order into the catalog, and the   *)
(* order is added; or it raises, and nothing else happens.                  *)
Populate(th) ==
    /\ th.kind = "populate"
    /\ threads' = threads \ {th}
    /\ \E models \in SUBSET Models : catalog' = catalog \cup ({th.po} \X models)
    /\ queue([call("add_po") EXCEPT !.po = th.po])
    /\ UNCHANGED <<ui, timers, claims, unprinted, asked, chosen, inputs, faults>>

PopulateFails(th) ==
    /\ th.kind = "populate"
    /\ Fault
    /\ threads' = threads \ {th}
    /\ UNCHANGED <<ui, callbacks, timers, catalog, claims, unprinted, asked, chosen, inputs>>

ThreadStep(th) ==
    \/ Resolve(th) \/ MatchReceived(th) \/ MatchOther(th) \/ PrintLabel(th)
    \/ PrintFails(th) \/ Raise(th) \/ Populate(th) \/ PopulateFails(th)

-----------------------------------------------------------------------------
(* The Tk thread *)

(* Mutant: any scan confirms.                                               *)
ConfirmAnyBarcode(c) ==
    /\ ui' = set_mid_scan(ui, ui.proposed_model)
    /\ UNCHANGED <<timers, asked>>

(* handle_propose_scan: the barcode that is pending confirms the model, in  *)
(* whatever state the window is by then.                                    *)
handle_propose_scan(c) ==
    /\ ui' = IF c.text = ui.pending_barcode THEN set_mid_scan(ui, ui.proposed_model) ELSE ui
    /\ UNCHANGED <<timers, asked>>

lock_po(c) ==
    /\ ui' = set_idle([ui EXCEPT !.current_po = c.po])
    /\ UNCHANGED <<timers, asked>>

add_po(c) ==
    /\ ui' = set_idle([ui EXCEPT !.current_po = c.po, !.active_pos = @ \cup {c.po}])
    /\ UNCHANGED <<timers, asked>>

(* The verdict of a barcode that is on its way to the turnstile already: it *)
(* changes what handle_propose_scan will compare that barcode with.         *)
Rescanned(c) ==
    /\ c.what \in {"PROPOSE", "NEEDS_MODEL"}
    /\ \E k \in DOMAIN callbacks : callbacks[k].do = "turnstile" /\ callbacks[k].text = c.text

apply_verdict(c) ==
    /\ ui' = CASE c.what = "AUTO"        -> set_mid_scan(ui, c.model)
               [] c.what = "PROPOSE"     -> set_propose(ui, c.text, c.model)
               [] c.what = "NEEDS_MODEL" -> set_needs_model(ui, c.text)
    /\ proposals' = proposals \cup {p \in {<<c.text, c.model>>} : c.what = "PROPOSE"}
    /\ overtaken' = overtaken \cup {m \in {ui'.proposed_model} : Rescanned(c)}
    /\ UNCHANGED timers

apply_outcome(c) ==
    /\ ui' = CASE c.what = "received"        -> set_match_found(ui)
               [] c.what = "no_match"        -> set_no_match(ui)
               [] c.what = "already_scanned" -> set_already_scanned(ui)
               [] c.what = "print_failed"    -> set_print_failed(ui)
    /\ timers' = timers + IF c.what \in {"received", "already_scanned"} THEN 1 ELSE 0
    /\ UNCHANGED asked

run(c) ==
    CASE c.do = "turnstile" -> handle_propose_scan(c)
      [] c.do = "lock_po"   -> lock_po(c)
      [] c.do = "add_po"    -> add_po(c)
      [] c.do = "verdict"   -> apply_verdict(c)
      [] c.do = "outcome"   -> apply_outcome(c)
      [] c.do = "set_idle"  -> ui' = set_idle(ui) /\ UNCHANGED <<timers, asked>>

RunCallback ==
    /\ callbacks # <<>>
    /\ callbacks' = Tail(callbacks)
    /\ run(Head(callbacks))
    /\ UNCHANGED <<threads, catalog, claims, unprinted, chosen, inputs, faults>>

(* Two or three seconds after an outcome: set_idle, whatever the window     *)
(* shows by now.  Nothing cancels it.                                       *)
TimerFires ==
    /\ timers > 0 /\ timers' = timers - 1
    /\ ui' = set_idle(ui)
    /\ UNCHANGED <<threads, callbacks, catalog, claims, unprinted, asked, chosen, inputs, faults>>

-----------------------------------------------------------------------------
Operator ==
    \/ \E text \in Texts : ScanToResolve(text) \/ ScanToConfirm(text) \/ ScanSerial(text)
    \/ \E po \in POs : ScanPO(po) \/ SubmitPO(po)
    \/ Dismiss \/ Reset \/ ShowManual \/ NeedsModelSubmitFails
    \/ \E model \in Models \cup {NoModel} :
          \/ NeedsModelSubmit(model)
          \/ \E serial \in Texts \cup {NoText} : ManualSubmit(model, serial)

Next ==
    \/ Operator
    \/ \E th \in threads : ThreadStep(th)
    \/ RunCallback
    \/ TimerFires

Spec == Init /\ [][Next]_vars

(* The Tk loop runs; every call of a background thread returns or raises,   *)
(* the database, the board and the printer having timeouts.                 *)
FairSpec ==
    /\ Spec
    /\ WF_vars(RunCallback)
    /\ \A id \in 1 .. MaxInputs : WF_vars(\E th \in threads : th.id = id /\ ThreadStep(th))

-----------------------------------------------------------------------------
(* Properties *)

TypeOK ==
    /\ ui \in UI
    /\ threads \subseteq Thread
    /\ callbacks \in Seq(Callback)
    /\ timers \in Nat
    /\ catalog \subseteq POs \X Models
    /\ claims \subseteq Unit /\ unprinted \subseteq Unit
    /\ proposals \subseteq Texts \X Models
    /\ overtaken \subseteq Models /\ chosen \subseteq Models
    /\ inputs \in Nat /\ faults \in Nat

(* A serial is only ever matched against a model that was chosen: a scan    *)
(* gave it for certain, it was typed, or the operator was asked to confirm  *)
(* it and scanned the barcode it was proposed for.  There is one exception: *)
(* a PROPOSE or NEEDS_MODEL verdict for the very barcode that is on its way *)
(* to the turnstile makes it confirm the proposal of the window, though it  *)
(* was never scanned in answer to that.                                     *)
Choices == chosen \cup overtaken

MatchesChosenModel ==
    /\ ui.state = "MID_SCAN" => ui.model_scan \in Choices
    /\ \A th \in threads : th.kind \in {"match", "print"} => th.model \in Choices

(* A window that drops every scan is waiting for something that will end    *)
(* its wait: no error and no late callback leaves it busy for ever.         *)
Waits(do, kinds) ==
    \/ \E th \in threads : th.kind \in kinds
    \/ \E k \in DOMAIN callbacks : callbacks[k].do \in {do, "set_idle", "add_po", "lock_po"}

BusyHasWork ==
    /\ ui.state = "RESOLVING" => Waits("verdict", {"resolve"})
    /\ ui.state = "MATCHING" => Waits("outcome", {"match", "print"})

(* What the window asks, in state PROPOSE, is to confirm a model that was   *)
(* proposed for the barcode that _on_scan will be compared with, however    *)
(* many resolutions are in flight.                                          *)
ProposalIsForBarcode ==
    ui.state = "PROPOSE" => <<ui.pending_barcode, ui.proposed_model>> \in proposals

(* Every scan gets its answer: a busy window becomes idle or shows a result *)
BusyEnds == \A s \in Busy : ui.state = s ~> ui.state # s

-----------------------------------------------------------------------------
(* What the documentation says and the code does not do *)

(* model_resolution.py: the scanner is blocked until the operator confirms  *)
(* the proposed model or types one; the clock does not lift the block.      *)
BlockHolds == [][TimerFires => ui.state \notin Blocked]_vars

(* RUNBOOK: a label that failed to print is printed by scanning the same    *)
(* barcodes again.                                                          *)
RescanPrints ==
    \A k \in DOMAIN callbacks : callbacks[k].what = "already_scanned" =>
        \A u \in unprinted : ~(u.po = callbacks[k].po /\ u.serial = callbacks[k].text)
=============================================================================
