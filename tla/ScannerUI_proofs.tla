-------------------------- MODULE ScannerUI_proofs --------------------------
(***************************************************************************)
(* Proofs about the window of the desk, for any orders, models and         *)
(* barcodes and any interleaving of the operator, the background threads,  *)
(* their callbacks and the timers.                                         *)
(***************************************************************************)
EXTENDS ScannerUI, SequenceTheorems, TLAPS

(* The callbacks that wait, in whatever order.                              *)
Calls == {callbacks[k] : k \in DOMAIN callbacks}

(* A callback is queued at the end ...                                      *)
LEMMA QueueCalls ==
    ASSUME callbacks \in Seq(Callback), NEW c \in Callback, queue(c)
    PROVE  callbacks' \in Seq(Callback) /\ Calls' = Calls \cup {c}
<1>1. \A S : callbacks \in Seq(S) /\ c \in S =>
             /\ callbacks' \in Seq(S)
             /\ DOMAIN callbacks = 1 .. Len(callbacks) /\ Len(callbacks) \in Nat
             /\ DOMAIN callbacks' = 1 .. Len(callbacks) + 1
             /\ \A k \in 1 .. Len(callbacks) : callbacks'[k] = callbacks[k]
             /\ callbacks'[Len(callbacks) + 1] = c
  BY DEF queue
<1>2. /\ callbacks' \in Seq(Callback)
      /\ DOMAIN callbacks = 1 .. Len(callbacks) /\ Len(callbacks) \in Nat
      /\ DOMAIN callbacks' = 1 .. Len(callbacks) + 1
      /\ \A k \in 1 .. Len(callbacks) : callbacks'[k] = callbacks[k]
      /\ callbacks'[Len(callbacks) + 1] = c
  BY <1>1
<1> QED
  BY <1>2 DEF Calls

(* ... and run from the front.                                              *)
LEMMA RunCalls ==
    ASSUME callbacks \in Seq(Callback), callbacks # <<>>, callbacks' = Tail(callbacks)
    PROVE  /\ callbacks' \in Seq(Callback)
           /\ Head(callbacks) \in Callback
           /\ Calls = Calls' \cup {Head(callbacks)}
<1>1. \A S : callbacks \in Seq(S) =>
             /\ callbacks' \in Seq(S) /\ Head(callbacks) \in S
             /\ Head(callbacks) = callbacks[1]
             /\ DOMAIN callbacks = 1 .. Len(callbacks) /\ Len(callbacks) \in Nat \ {0}
             /\ DOMAIN callbacks' = 1 .. Len(callbacks) - 1
             /\ \A k \in 1 .. Len(callbacks) - 1 : callbacks'[k] = callbacks[k + 1]
  OBVIOUS
<1>2. /\ callbacks' \in Seq(Callback) /\ Head(callbacks) \in Callback
      /\ Head(callbacks) = callbacks[1]
      /\ DOMAIN callbacks = 1 .. Len(callbacks) /\ Len(callbacks) \in Nat \ {0}
      /\ DOMAIN callbacks' = 1 .. Len(callbacks) - 1
      /\ \A k \in 1 .. Len(callbacks) - 1 : callbacks'[k] = callbacks[k + 1]
  BY <1>1
<1>3. ASSUME NEW k \in DOMAIN callbacks, k # 1
      PROVE  k - 1 \in DOMAIN callbacks' /\ callbacks[k] = callbacks'[k - 1]
  <2>1. k \in 2 .. Len(callbacks)
    BY <1>2, <1>3
  <2>2. k - 1 \in 1 .. Len(callbacks) - 1 /\ (k - 1) + 1 = k
    BY <1>2, <2>1
  <2> QED
    BY <1>2, <2>2
<1>4. \A k \in DOMAIN callbacks' : k + 1 \in DOMAIN callbacks /\ callbacks'[k] = callbacks[k + 1]
  BY <1>2
<1>5. 1 \in DOMAIN callbacks
  BY <1>2
<1>6. ASSUME NEW k \in DOMAIN callbacks PROVE callbacks[k] \in Calls' \cup {Head(callbacks)}
  BY <1>2, <1>3 DEF Calls
<1>7. Calls' \cup {Head(callbacks)} \subseteq Calls
  BY <1>2, <1>4, <1>5 DEF Calls
<1> QED
  BY <1>2, <1>6, <1>7 DEF Calls

-----------------------------------------------------------------------------
(* TypeOK is not inductive: what a thread or a callback carries is an order *)
(* or a model only because of what started it.  Before the first order is   *)
(* loaded the window is idle and only orders are on their way; ...          *)
Orders ==
    ui.current_po = NoPO =>
        /\ ui.state = "IDLE" /\ ui.active_pos = {} /\ ui.shown = {}
        /\ \A th \in threads : th.kind = "populate"
        /\ \A c \in Calls : c.do = "add_po"

(* ... each thread and each callback carries what it will be asked for; ... *)
ThreadCarries(th) ==
    /\ th.kind = "resolve" => th.text \in Texts
    /\ th.kind \in {"match", "print"} => th.model \in Models

CallCarries(c) ==
    /\ c.do \in {"lock_po", "add_po"} => c.po \in POs
    /\ c.do = "verdict" =>
          \/ c.what = "NEEDS_MODEL"
          \/ c.what \in {"AUTO", "PROPOSE"} /\ c.model \in Models /\ c.text \in Texts
    /\ c.do = "outcome" => c.what \in {"received", "no_match", "already_scanned", "print_failed"}

Carried ==
    /\ \A th \in threads : ThreadCarries(th)
    /\ \A c \in Calls : CallCarries(c)

(* ... and a model has been chosen wherever one is about to be used.        *)
ModelAtHand ==
    /\ ui.state = "MID_SCAN" => ui.model_scan \in Models
    /\ ui.state = "PROPOSE" => ui.proposed_model \in Models
    /\ (\E c \in Calls : c.do = "turnstile") => ui.proposed_model \in Models

WindowInv == TypeOK /\ Orders /\ Carried /\ ModelAtHand

(* A thread that is started.                                                *)
LEMMA Started ==
    ASSUME TypeOK, Input, NEW kind \in {"resolve", "match", "print", "populate"}, NEW po \in POs,
           NEW model \in Models \cup {NoModel}, NEW text \in Texts \cup {NoText},
           start(kind, po, model, text)
    PROVE  /\ threads' \subseteq Thread
           /\ \E th \in Thread : /\ threads' = threads \cup {th}
                                 /\ th.kind = kind /\ th.model = model /\ th.text = text
<1> DEFINE th == [id |-> inputs + 1, kind |-> kind, po |-> po, model |-> model, text |-> text]
<1>1. inputs + 1 \in 1 .. MaxInputs
  BY UIAssumption DEF TypeOK, Input
<1>2. th \in Thread /\ th.kind = kind /\ th.model = model /\ th.text = text
  BY <1>1 DEF Thread
<1>3. threads' = threads \cup {th}
  BY DEF start
<1> HIDE DEF th
<1> QED
  BY <1>2, <1>3 DEF TypeOK

(* A step of the operator that starts a thread for the order of the window. *)
LEMMA StartKeeps ==
    ASSUME WindowInv, Input, NEW kind \in {"resolve", "match"},
           NEW model \in Models \cup {NoModel}, NEW text \in Texts \cup {NoText},
           start(kind, ui.current_po, model, text),
           ui.current_po # NoPO,
           kind = "resolve" => text \in Texts, kind = "match" => model \in Models,
           ui' \in UI, ui'.current_po = ui.current_po, ui'.proposed_model = ui.proposed_model,
           ui'.state \in Busy, UNCHANGED <<callbacks, faults>>, chosen' \subseteq Models
    PROVE  WindowInv'
<1>1. ui.current_po \in POs
  BY DEF WindowInv, TypeOK, UI
<1>2. PICK th \in Thread : /\ threads' = threads \cup {th}
                           /\ th.kind = kind /\ th.model = model /\ th.text = text
  BY <1>1, Started DEF WindowInv
<1>3. TypeOK'
  BY <1>2 DEF WindowInv, TypeOK, Input, asked
<1>4. Carried'
  BY <1>2 DEF WindowInv, Carried, ThreadCarries, Calls
<1> QED
  BY <1>3, <1>4 DEF WindowInv, Orders, ModelAtHand, Busy, Calls

(* A step of the operator that only changes the window.                     *)
LEMMA WindowKeeps ==
    ASSUME WindowInv, UNCHANGED <<threads, callbacks, catalog, claims, unprinted, asked>>,
           timers' \in Nat, inputs' \in Nat, faults' \in Nat, chosen' \subseteq Models,
           ui' \in UI, ui'.current_po = ui.current_po, ui'.proposed_model = ui.proposed_model,
           ui'.active_pos = ui.active_pos,
           ui'.state \notin {"MID_SCAN", "PROPOSE"} \/ UNCHANGED <<ui.state, ui.model_scan>>,
           ui.current_po = NoPO => ui'.state = "IDLE" /\ ui'.shown \subseteq ui.shown
    PROVE  WindowInv'
BY DEF WindowInv, TypeOK, Orders, Carried, ModelAtHand, Calls, asked

(* What the operator does to the window alone.                              *)
LEMMA ScreenStep ==
    ASSUME WindowInv,
           \/ Dismiss \/ Reset \/ ShowManual \/ NeedsModelSubmitFails
           \/ NeedsModelSubmit(NoModel) \/ \E serial \in Texts \cup {NoText} : ManualSubmit(NoModel, serial)
    PROVE  WindowInv'
<1>1. ui \in UI /\ timers \in Nat /\ inputs \in Nat /\ faults \in Nat /\ chosen \subseteq Models
  BY DEF WindowInv, TypeOK
<1>2. CASE Dismiss
  <2>1. /\ ui' \in UI /\ ui'.state = "IDLE" /\ ui'.shown \subseteq ui.shown
        /\ ui'.current_po = ui.current_po /\ ui'.proposed_model = ui.proposed_model
        /\ ui'.active_pos = ui.active_pos
    BY <1>1, <1>2 DEF Dismiss, set_idle, UI, States
  <2> QED
    BY <1>1, <1>2, <2>1, WindowKeeps DEF Dismiss, Input
<1>3. CASE Reset
  <2>1. /\ ui' \in UI /\ ui'.state = "IDLE" /\ ui'.shown \subseteq ui.shown
        /\ ui'.current_po = ui.current_po /\ ui'.proposed_model = ui.proposed_model
        /\ ui'.active_pos = ui.active_pos
    BY <1>1, <1>3 DEF Reset, set_idle, UI, States
  <2> QED
    BY <1>1, <1>3, <2>1, WindowKeeps DEF Reset, Input
<1>4. CASE ShowManual \/ NeedsModelSubmitFails
  <2>1. /\ ui' \in UI /\ ui'.state = ui.state /\ ui.current_po # NoPO
        /\ ui'.current_po = ui.current_po /\ ui'.proposed_model = ui.proposed_model
        /\ ui'.active_pos = ui.active_pos /\ ui'.model_scan = ui.model_scan
    BY <1>1, <1>4 DEF ShowManual, NeedsModelSubmitFails, UI
  <2> QED
    BY <1>1, <1>4, <2>1, WindowKeeps DEF ShowManual, NeedsModelSubmitFails, Input, Fault
<1>5. CASE NeedsModelSubmit(NoModel)
  <2> DEFINE u == [ui EXCEPT !.shown = @ \ {"needs_model"}]
  <2>1. ui' = set_needs_model(u, u.pending_barcode) /\ UNCHANGED threads
    BY <1>5 DEF NeedsModelSubmit
  <2>2. /\ ui' \in UI /\ ui'.state = "NEEDS_MODEL"
        /\ ui'.current_po = ui.current_po /\ ui'.proposed_model = ui.proposed_model
        /\ ui'.active_pos = ui.active_pos
    BY <1>1, <2>1 DEF set_needs_model, UI, States
  <2>3. ui.current_po # NoPO
    BY <1>5 DEF NeedsModelSubmit, WindowInv, Orders
  <2> QED
    BY <1>1, <1>5, <2>1, <2>2, <2>3, WindowKeeps DEF NeedsModelSubmit, Input
<1>6. ASSUME NEW serial \in Texts \cup {NoText}, ManualSubmit(NoModel, serial) PROVE WindowInv'
  <2>1. ui' = [ui EXCEPT !.shown = @ \ {"manual"}] /\ UNCHANGED threads
    BY <1>6 DEF ManualSubmit
  <2>2. /\ ui' \in UI /\ ui'.state = ui.state /\ ui'.shown \subseteq ui.shown
        /\ ui'.current_po = ui.current_po /\ ui'.proposed_model = ui.proposed_model
        /\ ui'.active_pos = ui.active_pos /\ ui'.model_scan = ui.model_scan
    BY <1>1, <2>1 DEF UI
  <2>3. ui.current_po = NoPO => ui.state = "IDLE"
    BY DEF WindowInv, Orders
  <2> QED
    BY <1>1, <1>6, <2>1, <2>2, <2>3, WindowKeeps DEF ManualSubmit, Input
<1> QED
  BY <1>2, <1>3, <1>4, <1>5, <1>6

(* What the operator scans.                                                 *)
LEMMA ScanStep ==
    ASSUME WindowInv, NEW text \in Texts,
           ScanToResolve(text) \/ ScanToConfirm(text) \/ ScanSerial(text)
    PROVE  WindowInv'
<1>1. ui \in UI /\ timers \in Nat /\ inputs \in Nat /\ faults \in Nat /\ chosen \subseteq Models
  BY DEF WindowInv, TypeOK
<1>2. CASE ScanToResolve(text)
  <2>1. /\ ui' \in UI /\ ui'.state \in Busy
        /\ ui'.current_po = ui.current_po /\ ui'.proposed_model = ui.proposed_model
    BY <1>1, <1>2 DEF ScanToResolve, UI, States, Busy
  <2>2. start("resolve", ui.current_po, NoModel, text)
    BY <1>2 DEF ScanToResolve
  <2> QED
    BY <1>1, <1>2, <2>1, <2>2, StartKeeps DEF ScanToResolve
<1>3. CASE ScanToConfirm(text)
  <2> DEFINE c == [call("turnstile") EXCEPT !.text = text]
  <2>1. c \in Callback /\ c.do = "turnstile"
    BY DEF call, Callback
  <2>2. queue(c) /\ UNCHANGED <<ui, threads, faults>> /\ Input /\ ui.state = "PROPOSE"
    BY <1>3 DEF ScanToConfirm
  <2>6. chosen' \subseteq Models
    BY <1>1, <1>3 DEF ScanToConfirm, WindowInv, ModelAtHand
  <2> HIDE DEF c
  <2>3. callbacks' \in Seq(Callback) /\ Calls' = Calls \cup {c}
    BY <2>1, <2>2, QueueCalls DEF WindowInv, TypeOK
  <2>4. CallCarries(c)
    BY <2>1 DEF CallCarries
  <2>5. TypeOK'
    BY <2>2, <2>3, <2>6 DEF WindowInv, TypeOK, Input, asked
  <2> QED
    BY <2>1, <2>2, <2>3, <2>4, <2>5 DEF WindowInv, Orders, Carried, ModelAtHand
<1>4. CASE ScanSerial(text)
  <2>1. /\ ui' \in UI /\ ui'.state \in Busy
        /\ ui'.current_po = ui.current_po /\ ui'.proposed_model = ui.proposed_model
    BY <1>1, <1>4 DEF ScanSerial, UI, States, Busy
  <2>2. start("match", ui.current_po, ui.model_scan, text) /\ ui.model_scan \in Models
    BY <1>4 DEF ScanSerial, WindowInv, ModelAtHand
  <2>3. ui.current_po # NoPO
    BY <1>4 DEF ScanSerial, WindowInv, Orders
  <2> QED
    BY <1>1, <1>4, <2>1, <2>2, <2>3, StartKeeps DEF ScanSerial
<1> QED
  BY <1>2, <1>3, <1>4

(* The orders the operator chooses.                                         *)
LEMMA OrderStep ==
    ASSUME WindowInv, NEW po \in POs, ScanPO(po) \/ SubmitPO(po)
    PROVE  WindowInv'
<1>1. CASE ScanPO(po)
  <2> DEFINE c == [call("lock_po") EXCEPT !.po = po]
  <2>1. c \in Callback /\ c.do = "lock_po" /\ c.po = po
    BY DEF call, Callback
  <2>2. queue(c) /\ UNCHANGED <<ui, threads, chosen, faults>> /\ Input /\ po \in ui.active_pos
    BY <1>1 DEF ScanPO
  <2> HIDE DEF c
  <2>3. callbacks' \in Seq(Callback) /\ Calls' = Calls \cup {c}
    BY <2>1, <2>2, QueueCalls DEF WindowInv, TypeOK
  <2>4. CallCarries(c)
    BY <2>1 DEF CallCarries
  <2>5. TypeOK'
    BY <2>2, <2>3 DEF WindowInv, TypeOK, Input, asked
  <2> QED
    BY <2>1, <2>2, <2>3, <2>4, <2>5 DEF WindowInv, Orders, Carried, ModelAtHand
<1>2. CASE SubmitPO(po)
  <2>1. PICK th \in Thread : /\ threads' = threads \cup {th} /\ th.kind = "populate"
    BY <1>2, Started DEF SubmitPO, WindowInv
  <2>2. TypeOK'
    BY <1>2, <2>1 DEF SubmitPO, WindowInv, TypeOK, Input, asked
  <2>3. UNCHANGED <<ui, callbacks>>
    BY <1>2 DEF SubmitPO
  <2>4. Carried'
    BY <2>1, <2>3 DEF WindowInv, Carried, ThreadCarries, Calls
  <2> QED
    BY <2>1, <2>2, <2>3, <2>4 DEF WindowInv, Orders, ModelAtHand, Calls
<1> QED
  BY <1>1, <1>2

(* The models the operator types.                                           *)
LEMMA ModelStep ==
    ASSUME WindowInv, NEW model \in Models, NEW serial \in Texts \cup {NoText},
           NeedsModelSubmit(model) \/ ManualSubmit(model, serial)
    PROVE  WindowInv'
<1>1. /\ ui \in UI /\ timers \in Nat /\ inputs \in Nat /\ faults \in Nat
      /\ model # NoModel
  BY UIAssumption DEF WindowInv, TypeOK
<1>2. /\ ui.current_po # NoPO /\ Input /\ UNCHANGED <<callbacks, faults>>
      /\ chosen' \subseteq Models
  BY DEF NeedsModelSubmit, ManualSubmit, WindowInv, Orders, TypeOK
<1>3. CASE NeedsModelSubmit(model)
  <2> DEFINE u == [ui EXCEPT !.shown = @ \ {"needs_model"}]
  <2>1. /\ u \in UI /\ u.current_po = ui.current_po /\ u.proposed_model = ui.proposed_model
        /\ u.active_pos = ui.active_pos
    BY <1>1 DEF UI
  <2>2. CASE ui' = set_mid_scan(u, model) /\ UNCHANGED threads
    <3>1. /\ ui' \in UI /\ ui'.state = "MID_SCAN" /\ ui'.model_scan = model
          /\ ui'.current_po = ui.current_po /\ ui'.proposed_model = ui.proposed_model
          /\ ui'.active_pos = ui.active_pos
      BY <1>1, <2>2 DEF set_mid_scan, UI, States
    <3>2. TypeOK'
      BY <1>2, <2>2, <3>1 DEF WindowInv, TypeOK, Input, asked
    <3> QED
      BY <1>2, <2>2, <3>1, <3>2 DEF WindowInv, Orders, Carried, ModelAtHand, Calls
  <2>3. CASE /\ ui' = [u EXCEPT !.state = "MATCHING"]
             /\ start("match", ui.current_po, model, NoText)
    <3>1. /\ ui' \in UI /\ ui'.state \in Busy
          /\ ui'.current_po = ui.current_po /\ ui'.proposed_model = ui.proposed_model
      BY <1>1, <2>3 DEF UI, States, Busy
    <3> QED
      BY <1>2, <2>3, <3>1, StartKeeps
  <2> QED
    BY <1>1, <1>2, <1>3, <2>2, <2>3 DEF NeedsModelSubmit
<1>4. CASE ManualSubmit(model, serial)
  <2> DEFINE u == [ui EXCEPT !.shown = @ \ {"manual"}]
  <2>1. /\ ui' = [u EXCEPT !.model_scan = model, !.state = "MATCHING"]
        /\ start("match", u.current_po, model, serial)
    BY <1>1, <1>4 DEF ManualSubmit
  <2>2. /\ ui' \in UI /\ ui'.state \in Busy /\ u.current_po = ui.current_po
        /\ ui'.current_po = ui.current_po /\ ui'.proposed_model = ui.proposed_model
    BY <1>1, <2>1 DEF UI, States, Busy
  <2>3. start("match", ui.current_po, model, serial)
    BY <2>1, <2>2
  <2> QED
    BY <1>2, <2>2, <2>3, StartKeeps
<1> QED
  BY <1>3, <1>4

-----------------------------------------------------------------------------
(* A thread that ends, and perhaps queues what it found.                    *)
LEMMA EndKeeps ==
    ASSUME WindowInv, NEW th \in threads, threads' = threads \ {th}, UNCHANGED ui,
           \/ UNCHANGED callbacks
           \/ \E c \in Callback : /\ queue(c) /\ CallCarries(c) /\ c.do # "turnstile"
                                  /\ c.do = "add_po" \/ th.kind # "populate",
           timers' \in Nat, catalog' \subseteq POs \X Models,
           claims' \subseteq Unit, unprinted' \subseteq Unit, UNCHANGED <<asked, inputs>>,
           faults' \in Nat, chosen' \subseteq Models
    PROVE  WindowInv'
<1>1. th.kind # "populate" => ui.current_po # NoPO
  BY DEF WindowInv, Orders
<1>2. CASE UNCHANGED callbacks
  BY <1>2 DEF WindowInv, TypeOK, Orders, Carried, ModelAtHand, Calls, asked
<1>3. ASSUME NEW c \in Callback, queue(c), CallCarries(c), c.do # "turnstile",
             c.do = "add_po" \/ th.kind # "populate"
      PROVE  WindowInv'
  <2>1. callbacks' \in Seq(Callback) /\ Calls' = Calls \cup {c}
    BY <1>3, QueueCalls DEF WindowInv, TypeOK
  <2>2. TypeOK'
    BY <2>1 DEF WindowInv, TypeOK, asked
  <2> QED
    BY <1>1, <1>3, <2>1, <2>2 DEF WindowInv, Orders, Carried, ModelAtHand
<1> QED
  BY <1>2, <1>3

(* What a thread knows of itself, and what the callback it queues tells.    *)
LEMMA ThreadFacts ==
    ASSUME WindowInv, NEW th \in threads
    PROVE  /\ th \in Thread /\ ThreadCarries(th)
           /\ th.po \in POs
           /\ th.kind \in {"match", "print"} =>
                 /\ unit(th) \in Unit
                 /\ \A what \in {"received", "no_match", "already_scanned", "print_failed"} :
                       /\ outcome(th, what) \in Callback /\ CallCarries(outcome(th, what))
                       /\ outcome(th, what).do = "outcome" /\ outcome(th, what).what = what
<1>1. th \in Thread /\ ThreadCarries(th)
  BY DEF WindowInv, TypeOK, Carried
<1> QED
  BY <1>1 DEF Thread, ThreadCarries, unit, Unit, outcome, call, Callback, CallCarries

(* A claim adds a unit and may take the last one of its model away.         *)
LEMMA ClaimType ==
    ASSUME WindowInv, NEW th \in threads, th.kind = "match", Claim(th)
    PROVE  catalog' \subseteq POs \X Models /\ claims' \subseteq Unit
BY ThreadFacts DEF Claim, WindowInv, TypeOK

LEMMA ThreadsKeep ==
    ASSUME WindowInv, NEW th \in threads, ThreadStep(th)
    PROVE  WindowInv'
<1>1. /\ th \in Thread /\ ThreadCarries(th)
      /\ th.po \in POs
  BY ThreadFacts
<1>2. /\ timers \in Nat /\ catalog \subseteq POs \X Models /\ claims \subseteq Unit
      /\ unprinted \subseteq Unit /\ faults \in Nat /\ chosen \subseteq Models
  BY DEF WindowInv, TypeOK
<1>3. CASE Resolve(th)
  <2>1. PICK model \in Models, what \in {"AUTO", "PROPOSE", "NEEDS_MODEL"} :
           /\ queue([call("verdict") EXCEPT !.what = what, !.po = th.po, !.text = th.text,
                          !.model = IF what = "NEEDS_MODEL" THEN NoModel ELSE model])
           /\ chosen' = chosen \cup {m \in {model} : what = "AUTO"}
    BY <1>3 DEF Resolve
  <2> DEFINE c == [call("verdict") EXCEPT !.what = what, !.po = th.po, !.text = th.text,
                       !.model = IF what = "NEEDS_MODEL" THEN NoModel ELSE model]
  <2>2. th.text \in Texts
    BY <1>1, <1>3 DEF Resolve, ThreadCarries
  <2>3. c \in Callback /\ CallCarries(c) /\ c.do = "verdict"
    BY <1>1, <2>2 DEF call, Callback, CallCarries
  <2>4. queue(c) /\ chosen' \subseteq Models
    BY <1>2, <2>1
  <2> HIDE DEF c
  <2> QED
    BY <1>2, <1>3, <2>3, <2>4, EndKeeps DEF Resolve
<1>4. CASE MatchReceived(th)
  <2> DEFINE p == [th EXCEPT !.kind = "print"]
  <2>1. p \in Thread /\ p.kind = "print" /\ p.model = th.model
    BY <1>1 DEF Thread
  <2>2. /\ threads' = (threads \ {th}) \cup {p} /\ th.kind = "match" /\ Claim(th)
        /\ UNCHANGED <<ui, callbacks, timers, unprinted, asked, chosen, inputs, faults>>
    BY <1>4 DEF MatchReceived
  <2>3. ui.current_po # NoPO
    BY <2>2 DEF WindowInv, Orders
  <2> HIDE DEF p
  <2>4. TypeOK'
    BY <2>1, <2>2, ClaimType DEF WindowInv, TypeOK, asked
  <2>5. Carried'
    BY <1>1, <2>1, <2>2 DEF WindowInv, Carried, ThreadCarries, Calls
  <2> QED
    BY <2>2, <2>3, <2>4, <2>5 DEF WindowInv, Orders, ModelAtHand, Calls
<1>5. CASE MatchOther(th)
  <2>1. PICK what \in {"already_scanned", "no_match"} : queue(outcome(th, what))
    BY <1>5 DEF MatchOther
  <2>2. outcome(th, what) \in Callback /\ CallCarries(outcome(th, what))
        /\ outcome(th, what).do = "outcome"
    BY <1>5, ThreadFacts DEF MatchOther
  <2> QED
    BY <1>2, <1>5, <2>1, <2>2, EndKeeps DEF MatchOther
<1>6. CASE PrintLabel(th) \/ PrintFails(th)
  <2>1. PICK what \in {"received", "print_failed"} : queue(outcome(th, what))
    BY <1>6 DEF PrintLabel, PrintFails
  <2>2. /\ outcome(th, what) \in Callback /\ CallCarries(outcome(th, what))
        /\ outcome(th, what).do = "outcome" /\ unit(th) \in Unit
    BY <1>6, ThreadFacts DEF PrintLabel, PrintFails
  <2>3. unprinted' \subseteq Unit /\ faults' \in Nat
    BY <1>2, <1>6, <2>2 DEF PrintLabel, PrintFails, Fault
  <2> QED
    BY <1>2, <1>6, <2>1, <2>2, <2>3, EndKeeps DEF PrintLabel, PrintFails
<1>7. CASE Raise(th)
  <2> DEFINE c == call("set_idle")
  <2>1. c \in Callback /\ CallCarries(c) /\ c.do = "set_idle"
    BY DEF call, Callback, CallCarries
  <2>2. queue(c) /\ th.kind # "populate"
    BY <1>7 DEF Raise
  <2>3. faults' \in Nat /\ catalog' \subseteq POs \X Models /\ claims' \subseteq Unit
    BY <1>2, <1>7, ClaimType DEF Raise, Fault
  <2> HIDE DEF c
  <2> QED
    BY <1>2, <1>7, <2>1, <2>2, <2>3, EndKeeps DEF Raise
<1>8. CASE Populate(th)
  <2> DEFINE c == [call("add_po") EXCEPT !.po = th.po]
  <2>1. c \in Callback /\ CallCarries(c) /\ c.do = "add_po"
    BY <1>1 DEF call, Callback, CallCarries
  <2>2. queue(c)
    BY <1>8 DEF Populate
  <2>3. catalog' \subseteq POs \X Models
    BY <1>1, <1>2, <1>8 DEF Populate
  <2> HIDE DEF c
  <2> QED
    BY <1>2, <1>8, <2>1, <2>2, <2>3, EndKeeps DEF Populate
<1>9. CASE PopulateFails(th)
  BY <1>2, <1>9, EndKeeps DEF PopulateFails, Fault
<1> QED
  BY <1>3, <1>4, <1>5, <1>6, <1>7, <1>8, <1>9 DEF ThreadStep

(* A callback that runs.                                                    *)
LEMMA CallbacksKeep ==
    ASSUME WindowInv, RunCallback
    PROVE  WindowInv'
<1> DEFINE c == Head(callbacks)
<1>1. /\ callbacks' \in Seq(Callback) /\ c \in Callback /\ Calls = Calls' \cup {c}
      /\ UNCHANGED <<threads, catalog, claims, unprinted, chosen, inputs, faults>>
      /\ run(c)
  BY RunCalls DEF RunCallback, WindowInv, TypeOK
<1>2. CallCarries(c) /\ c \in Calls
  BY <1>1 DEF WindowInv, Carried
<1> HIDE DEF c
<1>3. /\ ui \in UI /\ timers \in Nat
      /\ proposals \subseteq Texts \X Models /\ overtaken \subseteq Models
  BY DEF WindowInv, TypeOK
<1>4. ASSUME ui' \in UI, timers' \in Nat,
             proposals' \subseteq Texts \X Models, overtaken' \subseteq Models,
             ui'.current_po = ui.current_po, ui'.active_pos = ui.active_pos,
             ui.current_po # NoPO,
             ui'.state = "MID_SCAN" => ui'.model_scan \in Models,
             ui'.state = "PROPOSE" => ui'.proposed_model \in Models,
             ui'.proposed_model \in Models \/ ui'.proposed_model = ui.proposed_model
      PROVE  WindowInv'
  <2>1. TypeOK'
    BY <1>1, <1>4 DEF WindowInv, TypeOK
  <2>2. Orders'
    BY <1>4 DEF Orders
  <2>3. Carried'
    BY <1>1 DEF WindowInv, Carried
  <2>4. ModelAtHand'
    BY <1>1, <1>4 DEF WindowInv, ModelAtHand
  <2> QED
    BY <2>1, <2>2, <2>3, <2>4 DEF WindowInv
<1>5. c.do # "add_po" => ui.current_po # NoPO
  BY <1>2 DEF WindowInv, Orders
<1>6. CASE c.do = "turnstile"
  <2>1. handle_propose_scan(c) /\ ui.proposed_model \in Models
    BY <1>1, <1>2, <1>6 DEF run, WindowInv, ModelAtHand
  <2>2. CASE ui' = ui
    BY <1>3, <1>4, <1>5, <1>6, <2>1, <2>2 DEF handle_propose_scan, WindowInv, ModelAtHand, asked
  <2>3. CASE ui' = set_mid_scan(ui, ui.proposed_model)
    <3>1. /\ ui' \in UI /\ ui'.state = "MID_SCAN" /\ ui'.model_scan = ui.proposed_model
          /\ ui'.current_po = ui.current_po /\ ui'.active_pos = ui.active_pos
          /\ ui'.proposed_model = ui.proposed_model
      BY <1>3, <2>1, <2>3 DEF set_mid_scan, UI, States
    <3> QED
      BY <1>3, <1>4, <1>5, <1>6, <2>1, <3>1 DEF handle_propose_scan, asked
  <2> QED
    BY <2>1, <2>2, <2>3 DEF handle_propose_scan
<1>7. CASE c.do \in {"lock_po", "add_po"}
  <2>1. c.po \in POs /\ (lock_po(c) \/ add_po(c))
    BY <1>1, <1>2, <1>7 DEF run, CallCarries
  <2>2. /\ ui' \in UI /\ ui'.state = "IDLE" /\ ui'.current_po \in POs
        /\ ui'.proposed_model = ui.proposed_model
    <3>1. CASE lock_po(c)
      BY <1>3, <2>1, <3>1 DEF lock_po, set_idle, UI, States
    <3>2. CASE add_po(c)
      BY <1>3, <2>1, <3>2 DEF add_po, set_idle, UI, States
    <3> QED
      BY <2>1, <3>1, <3>2
  <2>3. TypeOK'
    BY <1>1, <2>1, <2>2 DEF WindowInv, TypeOK, lock_po, add_po, asked
  <2>4. Orders'
    BY <2>2, UIAssumption DEF Orders
  <2>5. Carried'
    BY <1>1 DEF WindowInv, Carried
  <2>6. ModelAtHand'
    BY <1>1, <2>2 DEF WindowInv, ModelAtHand
  <2> QED
    BY <2>3, <2>4, <2>5, <2>6 DEF WindowInv
<1>8. CASE c.do = "verdict"
  <2>1. apply_verdict(c)
    BY <1>1, <1>8 DEF run
  <2>5. Rescanned(c) => c.what # "AUTO" /\ ui.proposed_model \in Models
    BY DEF Rescanned, WindowInv, ModelAtHand, Calls
  <2>6. ui'.proposed_model \in Models \/ ui'.proposed_model = ui.proposed_model
             => overtaken' \subseteq Models
    BY <1>3, <2>1, <2>5 DEF apply_verdict
  <2>2. CASE c.what = "AUTO"
    <3>1. /\ ui' = set_mid_scan(ui, c.model) /\ c.model \in Models
          /\ UNCHANGED timers /\ proposals' \subseteq Texts \X Models
      BY <1>2, <1>3, <1>8, <2>1, <2>2 DEF apply_verdict, CallCarries
    <3>2. /\ ui' \in UI /\ ui'.state = "MID_SCAN" /\ ui'.model_scan = c.model
          /\ ui'.current_po = ui.current_po /\ ui'.active_pos = ui.active_pos
          /\ ui'.proposed_model = ui.proposed_model
      BY <1>3, <3>1 DEF set_mid_scan, UI, States
    <3> QED
      BY <1>3, <1>4, <1>5, <1>8, <2>6, <3>1, <3>2
  <2>3. CASE c.what = "PROPOSE"
    <3>1. /\ ui' = set_propose(ui, c.text, c.model) /\ c.model \in Models /\ c.text \in Texts
          /\ UNCHANGED timers /\ proposals' \subseteq Texts \X Models
      BY <1>2, <1>3, <1>8, <2>1, <2>3 DEF apply_verdict, CallCarries
    <3>2. /\ ui' \in UI /\ ui'.state = "PROPOSE" /\ ui'.proposed_model = c.model
          /\ ui'.current_po = ui.current_po /\ ui'.active_pos = ui.active_pos
      BY <1>3, <3>1 DEF set_propose, UI, States
    <3> QED
      BY <1>3, <1>4, <1>5, <1>8, <2>6, <3>1, <3>2
  <2>4. CASE c.what = "NEEDS_MODEL"
    <3>1. /\ ui' = set_needs_model(ui, c.text)
          /\ UNCHANGED timers /\ proposals' \subseteq Texts \X Models
      BY <1>3, <2>1, <2>4 DEF apply_verdict
    <3>2. c.text \in Texts \cup {NoText}
      BY <1>1 DEF Callback
    <3>3. /\ ui' \in UI /\ ui'.state = "NEEDS_MODEL"
          /\ ui'.current_po = ui.current_po /\ ui'.active_pos = ui.active_pos
          /\ ui'.proposed_model = ui.proposed_model
      BY <1>3, <3>1, <3>2 DEF set_needs_model, UI, States
    <3> QED
      BY <1>3, <1>4, <1>5, <1>8, <2>6, <3>1, <3>3
  <2> QED
    BY <1>2, <1>8, <2>2, <2>3, <2>4 DEF CallCarries
<1>9. CASE c.do = "outcome"
  <2>1. apply_outcome(c) /\ c.what \in {"received", "no_match", "already_scanned", "print_failed"}
    BY <1>1, <1>2, <1>9 DEF run, CallCarries
  <2>2. ui' \in {set_match_found(ui), set_no_match(ui), set_already_scanned(ui),
                 set_print_failed(ui)}
    BY <2>1 DEF apply_outcome
  <2>3. /\ ui' \in UI /\ ui'.state \notin {"MID_SCAN", "PROPOSE"}
        /\ ui'.current_po = ui.current_po /\ ui'.active_pos = ui.active_pos
        /\ ui'.proposed_model = ui.proposed_model
    <3>1. CASE ui' = set_match_found(ui)
      BY <1>3, <3>1 DEF set_match_found, UI, States
    <3>2. CASE ui' = set_no_match(ui)
      BY <1>3, <3>2 DEF set_no_match, UI, States
    <3>3. CASE ui' = set_already_scanned(ui)
      BY <1>3, <3>3 DEF set_already_scanned, UI, States
    <3>4. CASE ui' = set_print_failed(ui)
      BY <1>3, <3>4 DEF set_print_failed, UI, States
    <3> QED
      BY <2>2, <3>1, <3>2, <3>3, <3>4
  <2>4. timers' \in Nat /\ UNCHANGED <<proposals, overtaken>>
    BY <1>3, <2>1 DEF apply_outcome, asked
  <2> QED
    BY <1>3, <1>4, <1>5, <1>9, <2>3, <2>4
<1>10. CASE c.do = "set_idle"
  <2>1. ui' = set_idle(ui) /\ UNCHANGED <<timers, proposals, overtaken>>
    BY <1>1, <1>10 DEF run, asked
  <2>2. /\ ui' \in UI /\ ui'.state = "IDLE"
        /\ ui'.current_po = ui.current_po /\ ui'.active_pos = ui.active_pos
        /\ ui'.proposed_model = ui.proposed_model
    BY <1>3, <2>1 DEF set_idle, UI, States
  <2> QED
    BY <1>3, <1>4, <1>5, <1>10, <2>1, <2>2
<1>11. c.do \in {"turnstile", "lock_po", "verdict", "outcome", "set_idle", "add_po"}
  BY <1>1 DEF Callback
<1> QED
  BY <1>6, <1>7, <1>8, <1>9, <1>10, <1>11

(* The timer of an outcome that is long past.                               *)
LEMMA TimerKeeps ==
    ASSUME WindowInv, TimerFires
    PROVE  WindowInv'
<1>1. ui \in UI /\ timers \in Nat /\ inputs \in Nat /\ faults \in Nat /\ chosen \subseteq Models
  BY DEF WindowInv, TypeOK
<1>2. /\ ui' \in UI /\ ui'.state = "IDLE" /\ ui'.shown \subseteq ui.shown
      /\ ui'.current_po = ui.current_po /\ ui'.proposed_model = ui.proposed_model
      /\ ui'.active_pos = ui.active_pos
  BY <1>1 DEF TimerFires, set_idle, UI, States
<1>3. timers' \in Nat
  BY <1>1 DEF TimerFires
<1> QED
  BY <1>1, <1>2, <1>3, WindowKeeps DEF TimerFires

LEMMA WindowStep == WindowInv /\ [Next]_vars => WindowInv'
<1> SUFFICES ASSUME WindowInv, [Next]_vars PROVE WindowInv'
  OBVIOUS
<1>1. CASE Operator
  <2>1. ASSUME NEW model \in Models \cup {NoModel},
               \/ NeedsModelSubmit(model)
               \/ \E serial \in Texts \cup {NoText} : ManualSubmit(model, serial)
        PROVE  WindowInv'
    BY <2>1, ScreenStep, ModelStep
  <2> QED
    BY <1>1, <2>1, ScreenStep, ScanStep, OrderStep DEF Operator
<1>2. CASE UNCHANGED vars
  BY <1>2 DEF vars, WindowInv, TypeOK, Orders, Carried, ModelAtHand, Calls
<1> QED
  BY <1>1, <1>2, ThreadsKeep, CallbacksKeep, TimerKeeps DEF Next

LEMMA WindowInvariant == Spec => []WindowInv
<1>1. Init => WindowInv
  <2> SUFFICES ASSUME Init PROVE WindowInv
    OBVIOUS
  <2>1. TypeOK
    BY DEF Init, TypeOK, UI, States
  <2>2. Orders /\ Carried /\ ModelAtHand
    BY DEF Init, Orders, Carried, ModelAtHand, Calls
  <2> QED
    BY <2>1, <2>2 DEF WindowInv
<1> QED
  BY <1>1, WindowStep, PTL DEF Spec

(* Type correctness of the window: no step of the operator, of a thread, of *)
(* a late callback or of a timer works with an order, a model or a barcode  *)
(* that is not there.                                                       *)
THEOREM WindowTypeCorrect == Spec => []TypeOK
<1>1. WindowInv => TypeOK
  BY DEF WindowInv
<1> QED
  BY <1>1, WindowInvariant, PTL

(* BusyHasWork and ProposalIsForBarcode are inductive beside WindowInv.     *)
(* What a busy window waits for, whatever its place in the queue.           *)
Awaits(do, kinds) ==
    \/ \E th \in threads : th.kind \in kinds
    \/ \E c \in Calls : c.do \in {do, "set_idle", "add_po", "lock_po"}

BusyAwaits ==
    /\ ui.state = "RESOLVING" => Awaits("verdict", {"resolve"})
    /\ ui.state = "MATCHING" => Awaits("outcome", {"match", "print"})

LEMMA BusyMeaning == BusyHasWork <=> BusyAwaits
BY DEF BusyHasWork, BusyAwaits, Waits, Awaits, Calls

(* A step that takes nothing away, of a window that does not become busy.   *)
LEMMA BusyKept ==
    ASSUME BusyAwaits, threads \subseteq threads', Calls \subseteq Calls',
           ui'.state \in Busy => ui'.state = ui.state
    PROVE  BusyAwaits'
<1>1. Awaits("verdict", {"resolve"}) => Awaits("verdict", {"resolve"})'
  BY DEF Awaits
<1>2. Awaits("outcome", {"match", "print"}) => Awaits("outcome", {"match", "print"})'
  BY DEF Awaits
<1> QED
  BY <1>1, <1>2 DEF BusyAwaits, Busy

(* What is started runs.                                                    *)
LEMMA StartAdds ==
    ASSUME NEW kind, NEW po, NEW model, NEW text, start(kind, po, model, text)
    PROVE  \E th \in threads' : th.kind = kind
<1> DEFINE th == [id |-> inputs + 1, kind |-> kind, po |-> po, model |-> model, text |-> text]
<1>1. th \in threads' /\ th.kind = kind
  BY DEF start
<1> QED
  BY <1>1

(* The operator makes the window busy only by starting a thread.            *)
LEMMA OperatorBusy ==
    ASSUME WindowInv, BusyAwaits, Operator
    PROVE  BusyAwaits'
<1>1. ui \in UI
  BY DEF WindowInv, TypeOK
<1>2. UNCHANGED callbacks => UNCHANGED Calls
  BY DEF Calls
<1>3. ASSUME NEW text \in Texts, ScanToResolve(text) \/ ScanSerial(text) PROVE BusyAwaits'
  <2>1. CASE ScanToResolve(text)
    <3>1. ui'.state = "RESOLVING" /\ \E th \in threads' : th.kind = "resolve"
      BY <1>1, <2>1, StartAdds DEF ScanToResolve, UI
    <3> QED
      BY <3>1 DEF BusyAwaits, Awaits
  <2>2. CASE ScanSerial(text)
    <3>1. ui'.state = "MATCHING" /\ \E th \in threads' : th.kind = "match"
      BY <1>1, <2>2, StartAdds DEF ScanSerial, UI
    <3> QED
      BY <3>1 DEF BusyAwaits, Awaits
  <2> QED
    BY <1>3, <2>1, <2>2
<1>4. ASSUME NEW text \in Texts, ScanToConfirm(text) PROVE BusyAwaits'
  BY <1>4 DEF ScanToConfirm, BusyAwaits
<1>5. ASSUME NEW po \in POs, ScanPO(po) PROVE BusyAwaits'
  BY <1>5 DEF ScanPO, Busy, BusyAwaits
<1>6. ASSUME NEW po \in POs, SubmitPO(po) PROVE BusyAwaits'
  BY <1>2, <1>6, BusyKept DEF SubmitPO, start
<1>7. CASE Dismiss \/ Reset
  <2>1. ui'.state = "IDLE"
    BY <1>1, <1>7 DEF Dismiss, Reset, set_idle, UI
  <2> QED
    BY <2>1 DEF BusyAwaits
<1>8. CASE ShowManual \/ NeedsModelSubmitFails
  <2>1. ui'.state = ui.state
    BY <1>1, <1>8 DEF ShowManual, NeedsModelSubmitFails, UI
  <2> QED
    BY <1>2, <1>8, <2>1, BusyKept DEF ShowManual, NeedsModelSubmitFails
<1>9. ASSUME NEW model \in Models \cup {NoModel}, NeedsModelSubmit(model) PROVE BusyAwaits'
  <2>1. \/ ui'.state \in {"NEEDS_MODEL", "IDLE", "MID_SCAN"}
        \/ ui'.state = "MATCHING" /\ \E th \in threads' : th.kind = "match"
    BY <1>1, <1>9, StartAdds DEF NeedsModelSubmit, set_needs_model, set_idle, set_mid_scan, UI
  <2> QED
    BY <2>1 DEF BusyAwaits, Awaits
<1>10. ASSUME NEW model \in Models \cup {NoModel}, NEW serial \in Texts \cup {NoText},
              ManualSubmit(model, serial)
       PROVE  BusyAwaits'
  <2>1. \/ ui'.state = ui.state /\ UNCHANGED <<threads, callbacks>>
        \/ ui'.state = "MATCHING" /\ \E th \in threads' : th.kind = "match"
    BY <1>1, <1>10, StartAdds DEF ManualSubmit, UI
  <2>2. CASE ui'.state = ui.state /\ UNCHANGED <<threads, callbacks>>
    BY <1>2, <2>2, BusyKept
  <2>3. CASE ui'.state = "MATCHING" /\ \E th \in threads' : th.kind = "match"
    BY <2>3 DEF BusyAwaits, Awaits
  <2> QED
    BY <2>1, <2>2, <2>3
<1> QED
  BY <1>3, <1>4, <1>5, <1>6, <1>7, <1>8, <1>9, <1>10 DEF Operator

(* A thread that ends leaves the callback that its window waits for.        *)
LEMMA ThreadsBusy ==
    ASSUME WindowInv, BusyAwaits, NEW th \in threads, ThreadStep(th)
    PROVE  BusyAwaits'
<1>1. callbacks \in Seq(Callback) /\ th \in Thread
  BY DEF WindowInv, TypeOK
<1>2. UNCHANGED ui
  BY DEF ThreadStep, Resolve, MatchReceived, MatchOther, PrintLabel, PrintFails, Raise, Populate,
         PopulateFails
<1>3. UNCHANGED callbacks => UNCHANGED Calls
  BY DEF Calls
<1>4. ASSUME NEW c \in Callback, queue(c), threads' = threads \ {th},
             \/ c.do = "set_idle" \/ th.kind = "populate"
             \/ c.do = "verdict" /\ th.kind = "resolve"
             \/ c.do = "outcome" /\ th.kind \in {"match", "print"}
      PROVE  BusyAwaits'
  <2>1. Calls' = Calls \cup {c}
    BY <1>1, <1>4, QueueCalls
  <2>2. Awaits("verdict", {"resolve"}) => Awaits("verdict", {"resolve"})'
    BY <1>4, <2>1 DEF Awaits
  <2>3. Awaits("outcome", {"match", "print"}) => Awaits("outcome", {"match", "print"})'
    BY <1>4, <2>1 DEF Awaits
  <2> QED
    BY <1>2, <2>2, <2>3 DEF BusyAwaits
<1>5. CASE Resolve(th)
  <2>1. PICK model \in Models, what \in {"AUTO", "PROPOSE", "NEEDS_MODEL"} :
           queue([call("verdict") EXCEPT !.what = what, !.po = th.po, !.text = th.text,
                       !.model = IF what = "NEEDS_MODEL" THEN NoModel ELSE model])
    BY <1>5 DEF Resolve
  <2> DEFINE c == [call("verdict") EXCEPT !.what = what, !.po = th.po, !.text = th.text,
                       !.model = IF what = "NEEDS_MODEL" THEN NoModel ELSE model]
  <2>2. c \in Callback /\ c.do = "verdict"
    BY <1>1 DEF call, Callback, Thread
  <2>3. queue(c)
    BY <2>1
  <2> HIDE DEF c
  <2> QED
    BY <1>4, <1>5, <2>2, <2>3 DEF Resolve
<1>6. CASE MatchReceived(th)
  <2>1. /\ threads' = (threads \ {th}) \cup {[th EXCEPT !.kind = "print"]} /\ th.kind = "match"
        /\ UNCHANGED callbacks /\ [th EXCEPT !.kind = "print"].kind = "print"
    BY <1>1, <1>6 DEF MatchReceived, Thread
  <2> QED
    BY <1>2, <1>3, <2>1 DEF BusyAwaits, Awaits
<1>7. CASE MatchOther(th) \/ PrintLabel(th) \/ PrintFails(th)
  <2>1. PICK what \in {"already_scanned", "no_match", "received", "print_failed"} :
           queue(outcome(th, what))
    BY <1>7 DEF MatchOther, PrintLabel, PrintFails
  <2>2. th.kind \in {"match", "print"} /\ threads' = threads \ {th}
    BY <1>7 DEF MatchOther, PrintLabel, PrintFails
  <2>3. outcome(th, what) \in Callback /\ outcome(th, what).do = "outcome"
    BY <2>2, ThreadFacts
  <2> QED
    BY <1>4, <2>1, <2>2, <2>3
<1>8. CASE Raise(th)
  <2>1. call("set_idle") \in Callback /\ call("set_idle").do = "set_idle"
    BY DEF call, Callback
  <2> QED
    BY <1>4, <1>8, <2>1 DEF Raise
<1>9. CASE Populate(th)
  <2> DEFINE c == [call("add_po") EXCEPT !.po = th.po]
  <2>1. c \in Callback
    BY <1>1 DEF call, Callback, Thread
  <2>2. queue(c)
    BY <1>9 DEF Populate
  <2> HIDE DEF c
  <2> QED
    BY <1>4, <1>9, <2>1, <2>2 DEF Populate
<1>10. CASE PopulateFails(th)
  <2>1. th.kind = "populate" /\ threads' = threads \ {th} /\ UNCHANGED callbacks
    BY <1>10 DEF PopulateFails
  <2> QED
    BY <1>2, <1>3, <2>1 DEF BusyAwaits, Awaits
<1> QED
  BY <1>5, <1>6, <1>7, <1>8, <1>9, <1>10 DEF ThreadStep

(* What a callback leaves of a busy window: every callback but the          *)
(* turnstile ends the wait, and the turnstile is nothing to wait for.       *)
LEMMA CallbacksBusy ==
    ASSUME WindowInv, BusyAwaits, RunCallback
    PROVE  BusyAwaits'
<1> DEFINE c == Head(callbacks)
<1>1. /\ c \in Callback /\ Calls = Calls' \cup {c} /\ UNCHANGED threads /\ run(c)
  BY RunCalls DEF RunCallback, WindowInv, TypeOK
<1>2. CallCarries(c) /\ ui \in UI
  BY <1>1 DEF WindowInv, Carried, TypeOK
<1> HIDE DEF c
<1>3. c.do \in {"turnstile", "lock_po", "verdict", "outcome", "set_idle", "add_po"}
  BY <1>1 DEF Callback
<1>4. CASE c.do = "turnstile"
  <2>1. ui'.state \in {ui.state, "MID_SCAN"}
    BY <1>1, <1>2, <1>4 DEF run, handle_propose_scan, set_mid_scan, UI
  <2>2. Awaits("verdict", {"resolve"}) => Awaits("verdict", {"resolve"})'
    BY <1>1, <1>4 DEF Awaits
  <2>3. Awaits("outcome", {"match", "print"}) => Awaits("outcome", {"match", "print"})'
    BY <1>1, <1>4 DEF Awaits
  <2> QED
    BY <2>1, <2>2, <2>3 DEF BusyAwaits
<1>5. CASE c.do # "turnstile"
  <2>1. CASE c.do \in {"lock_po", "add_po", "set_idle"}
    <3>1. ui'.state = "IDLE"
      BY <1>1, <1>2, <2>1 DEF run, lock_po, add_po, set_idle, UI
    <3> QED
      BY <3>1 DEF BusyAwaits
  <2>2. CASE c.do = "verdict"
    <3>1. apply_verdict(c) /\ c.what \in {"AUTO", "PROPOSE", "NEEDS_MODEL"}
      BY <1>1, <1>2, <2>2 DEF run, CallCarries
    <3>2. ui'.state \in {"MID_SCAN", "PROPOSE", "NEEDS_MODEL"}
      BY <1>2, <3>1 DEF apply_verdict, set_mid_scan, set_propose, set_needs_model, UI
    <3> QED
      BY <3>2 DEF BusyAwaits
  <2>3. CASE c.do = "outcome"
    <3>1. /\ apply_outcome(c)
          /\ c.what \in {"received", "no_match", "already_scanned", "print_failed"}
      BY <1>1, <1>2, <2>3 DEF run, CallCarries
    <3>2. ui'.state \in {"MATCH_FOUND", "NO_MATCH", "ALREADY_SCANNED", "PRINT_FAILED"}
      BY <1>2, <3>1 DEF apply_outcome, set_match_found, set_no_match, set_already_scanned,
                        set_print_failed, UI
    <3> QED
      BY <3>2 DEF BusyAwaits
  <2> QED
    BY <1>3, <1>5, <2>1, <2>2, <2>3
<1> QED
  BY <1>4, <1>5

LEMMA BusyStep == WindowInv /\ BusyAwaits /\ [Next]_vars => BusyAwaits'
<1> SUFFICES ASSUME WindowInv, BusyAwaits, [Next]_vars PROVE BusyAwaits'
  OBVIOUS
<1>1. CASE TimerFires
  <2>1. ui'.state = "IDLE"
    BY <1>1 DEF TimerFires, set_idle, WindowInv, TypeOK, UI
  <2> QED
    BY <2>1 DEF BusyAwaits
<1>2. CASE UNCHANGED vars
  BY <1>2 DEF vars, BusyAwaits, Awaits, Calls
<1> QED
  BY <1>1, <1>2, OperatorBusy, ThreadsBusy, CallbacksBusy DEF Next

(* A busy window drops every scan; whatever raises, comes late or is        *)
(* dismissed, there is a thread or a callback left that will end its wait.  *)
THEOREM BusyIsAnswered == Spec => []BusyHasWork
<1>1. Init => BusyAwaits
  BY DEF Init, BusyAwaits
<1>2. WindowInv /\ WindowInv' /\ BusyAwaits /\ [Next]_vars => BusyAwaits'
  BY BusyStep
<1>3. BusyAwaits => BusyHasWork
  BY BusyMeaning
<1> QED
  BY <1>1, <1>2, <1>3, WindowInvariant, PTL DEF Spec

-----------------------------------------------------------------------------
(* A window that goes on proposing has not changed its question.            *)
LEMMA ProposalKept ==
    ASSUME ProposalIsForBarcode, proposals \subseteq proposals',
           \/ ui'.state # "PROPOSE"
           \/ UNCHANGED <<ui.state, ui.pending_barcode, ui.proposed_model>>
    PROVE  ProposalIsForBarcode'
BY DEF ProposalIsForBarcode

LEMMA ProposalStep ==
    WindowInv /\ ProposalIsForBarcode /\ [Next]_vars => ProposalIsForBarcode'
<1> SUFFICES ASSUME WindowInv, ProposalIsForBarcode, [Next]_vars PROVE ProposalIsForBarcode'
  OBVIOUS
<1>1. ui \in UI
  BY DEF WindowInv, TypeOK
<1>2. CASE Operator
  <2>1. UNCHANGED proposals
    BY <1>2 DEF Operator, ScanToResolve, ScanToConfirm, ScanSerial, ScanPO, SubmitPO, Dismiss,
                Reset, NeedsModelSubmit, NeedsModelSubmitFails, ShowManual, ManualSubmit, Input, asked
  <2>2. ASSUME NEW text \in Texts, ScanToResolve(text) \/ ScanToConfirm(text) \/ ScanSerial(text)
        PROVE  \/ ui'.state # "PROPOSE"
               \/ UNCHANGED <<ui.state, ui.pending_barcode, ui.proposed_model>>
    BY <1>1, <2>2 DEF ScanToResolve, ScanToConfirm, ScanSerial, UI
  <2>3. ASSUME NEW po \in POs, ScanPO(po) \/ SubmitPO(po) PROVE UNCHANGED ui
    BY <2>3 DEF ScanPO, SubmitPO
  <2>4. CASE Dismiss \/ Reset \/ ShowManual \/ NeedsModelSubmitFails
    BY <1>1, <2>1, <2>4, ProposalKept
    DEF Dismiss, Reset, ShowManual, NeedsModelSubmitFails, set_idle, UI
  <2>5. ASSUME NEW model \in Models \cup {NoModel}, NeedsModelSubmit(model)
        PROVE  ui'.state # "PROPOSE"
    BY <1>1, <2>5 DEF NeedsModelSubmit, set_needs_model, set_idle, set_mid_scan, UI
  <2>6. ASSUME NEW model \in Models \cup {NoModel}, NEW serial \in Texts \cup {NoText},
               ManualSubmit(model, serial)
        PROVE  \/ ui'.state # "PROPOSE"
               \/ UNCHANGED <<ui.state, ui.pending_barcode, ui.proposed_model>>
    BY <1>1, <2>6 DEF ManualSubmit, UI
  <2> QED
    BY <1>2, <2>1, <2>2, <2>3, <2>4, <2>5, <2>6, ProposalKept DEF Operator
<1>3. ASSUME NEW th \in threads, ThreadStep(th) PROVE UNCHANGED <<ui, proposals>>
  BY <1>3 DEF ThreadStep, Resolve, MatchReceived, MatchOther, PrintLabel, PrintFails, Raise,
              Populate, PopulateFails, asked
<1>4. CASE RunCallback
  <2> DEFINE c == Head(callbacks)
  <2>1. /\ c \in Callback /\ c \in Calls /\ run(c)
    BY <1>4, RunCalls DEF RunCallback, WindowInv, TypeOK
  <2>2. CallCarries(c)
    BY <2>1 DEF WindowInv, Carried
  <2> HIDE DEF c
  <2>3. c.do \in {"turnstile", "lock_po", "verdict", "outcome", "set_idle", "add_po"}
    BY <2>1 DEF Callback
  <2>4. CASE c.do = "turnstile"
    BY <1>1, <2>1, <2>4, ProposalKept DEF run, handle_propose_scan, set_mid_scan, UI, asked
  <2>5. CASE c.do \in {"lock_po", "add_po", "set_idle"}
    BY <1>1, <2>1, <2>5, ProposalKept DEF run, lock_po, add_po, set_idle, UI, asked
  <2>6. CASE c.do = "verdict"
    <3>1. apply_verdict(c) /\ c.what \in {"AUTO", "PROPOSE", "NEEDS_MODEL"}
      BY <2>1, <2>2, <2>6 DEF run, CallCarries
    <3>2. CASE c.what = "PROPOSE"
      <4>1. /\ ui'.pending_barcode = c.text /\ ui'.proposed_model = c.model
            /\ <<c.text, c.model>> \in proposals'
        BY <1>1, <3>1, <3>2 DEF apply_verdict, set_propose, UI
      <4> QED
        BY <4>1 DEF ProposalIsForBarcode
    <3>3. CASE c.what # "PROPOSE"
      <4>1. ui'.state # "PROPOSE"
        BY <1>1, <3>1, <3>3 DEF apply_verdict, set_mid_scan, set_needs_model, UI
      <4> QED
        BY <4>1 DEF ProposalIsForBarcode
    <3> QED
      BY <3>2, <3>3
  <2>7. CASE c.do = "outcome"
    <3>1. /\ apply_outcome(c)
          /\ c.what \in {"received", "no_match", "already_scanned", "print_failed"}
      BY <2>1, <2>2, <2>7 DEF run, CallCarries
    <3>2. ui'.state # "PROPOSE"
      BY <1>1, <3>1 DEF apply_outcome, set_match_found, set_no_match, set_already_scanned,
                        set_print_failed, UI
    <3> QED
      BY <3>2 DEF ProposalIsForBarcode
  <2> QED
    BY <2>3, <2>4, <2>5, <2>6, <2>7
<1>5. CASE TimerFires
  BY <1>1, <1>5, ProposalKept DEF TimerFires, set_idle, UI, asked
<1>6. CASE UNCHANGED vars
  BY <1>6, ProposalKept DEF vars
<1> QED
  BY <1>2, <1>3, <1>4, <1>5, <1>6, ProposalKept DEF Next

LEMMA ProposalInvariant == Spec => []ProposalIsForBarcode
<1>1. Init => ProposalIsForBarcode
  BY DEF Init, ProposalIsForBarcode
<1>2. WindowInv /\ ProposalIsForBarcode /\ [Next]_vars => ProposalIsForBarcode'
  BY ProposalStep
<1> QED
  BY <1>1, <1>2, WindowInvariant, PTL DEF Spec

(* While the window asks, in state PROPOSE, the model it shows is one that  *)
(* was proposed for the barcode that is pending, however many resolutions   *)
(* are in flight.                                                           *)
THEOREM AsksForItsOwnBarcode == Spec => []ProposalIsForBarcode
BY ProposalInvariant

-----------------------------------------------------------------------------
(* MatchesChosenModel is inductive beside what is on its way to become the  *)
(* model of the window: the model of an AUTO verdict, and the proposal that *)
(* the barcode of a queued turnstile would confirm.                         *)
ChoiceInv ==
    /\ ui.state = "MID_SCAN" => ui.model_scan \in Choices
    /\ \A th \in threads : th.kind \in {"match", "print"} => th.model \in Choices
    /\ \A c \in Calls : c.do = "verdict" /\ c.what = "AUTO" => c.model \in Choices
    /\ \A c \in Calls : c.do = "turnstile" /\ c.text = ui.pending_barcode =>
           ui.proposed_model \in Choices

(* A choice is for good.                                                    *)
LEMMA ChoicesGrow == WindowInv /\ [Next]_vars => Choices \subseteq Choices'
<1> SUFFICES ASSUME WindowInv, [Next]_vars PROVE Choices \subseteq Choices'
  OBVIOUS
<1>1. CASE Operator
  BY <1>1 DEF Operator, ScanToResolve, ScanToConfirm, ScanSerial, ScanPO, SubmitPO, Dismiss,
              Reset, NeedsModelSubmit, NeedsModelSubmitFails, ShowManual, ManualSubmit, Input,
              asked, Choices
<1>2. ASSUME NEW th \in threads, ThreadStep(th) PROVE Choices \subseteq Choices'
  BY <1>2 DEF ThreadStep, Resolve, MatchReceived, MatchOther, PrintLabel, PrintFails, Raise,
              Populate, PopulateFails, asked, Choices
<1>3. CASE RunCallback
  <2> DEFINE c == Head(callbacks)
  <2>1. run(c) /\ c \in Callback /\ UNCHANGED chosen
    BY <1>3, RunCalls DEF RunCallback, WindowInv, TypeOK
  <2> HIDE DEF c
  <2>2. c.do \in {"turnstile", "lock_po", "verdict", "outcome", "set_idle", "add_po"}
    BY <2>1 DEF Callback
  <2>3. CASE c.do = "verdict"
    BY <2>1, <2>3 DEF run, apply_verdict, Choices
  <2>4. CASE c.do # "verdict"
    <3>1. UNCHANGED asked
      BY <2>1, <2>2, <2>4 DEF run, handle_propose_scan, lock_po, add_po, apply_outcome
    <3> QED
      BY <2>1, <3>1 DEF asked, Choices
  <2> QED
    BY <2>3, <2>4
<1>4. CASE TimerFires \/ UNCHANGED vars
  BY <1>4 DEF TimerFires, vars, asked, Choices
<1> QED
  BY <1>1, <1>2, <1>3, <1>4 DEF Next

(* A step of the operator that queues nothing, or an order.  It finds no    *)
(* turnstile in the queue: Tk has run it before it takes the next key.      *)
LEMMA OperatorChoice ==
    ASSUME WindowInv, ChoiceInv, Choices \subseteq Choices', Input,
           \A c \in Calls' : c \in Calls \/ c.do = "lock_po",
           \/ ui'.state # "MID_SCAN"
           \/ UNCHANGED <<ui.state, ui.model_scan>>
           \/ ui'.model_scan \in Choices',
           \A th \in threads' : \/ th \in threads \/ th.kind \notin {"match", "print"}
                               \/ th.model \in Choices'
    PROVE  ChoiceInv'
<1>1. \A c \in Calls : c.do # "turnstile"
  BY DEF Input, Calls
<1> QED
  BY <1>1 DEF ChoiceInv

LEMMA StartsOne ==
    ASSUME NEW kind, NEW po, NEW model, NEW text, start(kind, po, model, text)
    PROVE  \A th \in threads' : th \in threads \/ (th.kind = kind /\ th.model = model)
<1> DEFINE new == [id |-> inputs + 1, kind |-> kind, po |-> po, model |-> model, text |-> text]
<1>1. new.kind = kind /\ new.model = model
  OBVIOUS
<1>2. threads' = threads \cup {new}
  BY DEF start
<1> HIDE DEF new
<1> QED
  BY <1>1, <1>2

LEMMA OperatorChooses ==
    ASSUME WindowInv, ProposalIsForBarcode, ChoiceInv, Operator, Choices \subseteq Choices'
    PROVE  ChoiceInv'
<1>1. ui \in UI /\ callbacks \in Seq(Callback)
  BY DEF WindowInv, TypeOK
<1>2. UNCHANGED callbacks => UNCHANGED Calls
  BY DEF Calls
<1>3. ASSUME NEW text \in Texts, ScanToResolve(text) PROVE ChoiceInv'
  <2>1. /\ Input /\ UNCHANGED callbacks /\ ui'.state = "RESOLVING"
        /\ start("resolve", ui.current_po, NoModel, text)
    BY <1>1, <1>3 DEF ScanToResolve, UI
  <2> QED
    BY <1>2, <2>1, StartsOne, OperatorChoice
<1>4. ASSUME NEW text \in Texts, ScanToConfirm(text) PROVE ChoiceInv'
  <2> DEFINE c == [call("turnstile") EXCEPT !.text = text]
  <2>1. c \in Callback /\ c.do = "turnstile" /\ c.text = text
    BY DEF call, Callback
  <2>2. /\ queue(c) /\ Input /\ UNCHANGED <<ui, threads>>
        /\ text = ui.pending_barcode => ui.proposed_model \in chosen'
    BY <1>4 DEF ScanToConfirm
  <2> HIDE DEF c
  <2>3. Calls' = Calls \cup {c}
    BY <1>1, <2>1, <2>2, QueueCalls
  <2> QED
    BY <2>1, <2>2, <2>3 DEF ChoiceInv, Choices
<1>5. ASSUME NEW text \in Texts, ScanSerial(text) PROVE ChoiceInv'
  <2>1. /\ Input /\ UNCHANGED callbacks /\ ui'.state = "MATCHING" /\ ui.model_scan \in Choices
        /\ start("match", ui.current_po, ui.model_scan, text)
    BY <1>1, <1>5 DEF ScanSerial, UI, ChoiceInv
  <2> QED
    BY <1>2, <2>1, StartsOne, OperatorChoice
<1>6. ASSUME NEW po \in POs, ScanPO(po) PROVE ChoiceInv'
  <2> DEFINE c == [call("lock_po") EXCEPT !.po = po]
  <2>1. c \in Callback /\ c.do = "lock_po"
    BY DEF call, Callback
  <2>2. queue(c) /\ Input /\ UNCHANGED <<ui, threads>>
    BY <1>6 DEF ScanPO
  <2> HIDE DEF c
  <2>3. Calls' = Calls \cup {c}
    BY <1>1, <2>1, <2>2, QueueCalls
  <2> QED
    BY <2>1, <2>2, <2>3, OperatorChoice
<1>7. ASSUME NEW po \in POs, SubmitPO(po) PROVE ChoiceInv'
  <2>1. Input /\ UNCHANGED <<ui, callbacks>> /\ start("populate", po, NoModel, NoText)
    BY <1>7 DEF SubmitPO
  <2> QED
    BY <1>2, <2>1, StartsOne, OperatorChoice
<1>8. CASE Dismiss \/ Reset
  <2>1. Input /\ UNCHANGED <<threads, callbacks>> /\ ui'.state = "IDLE"
    BY <1>1, <1>8 DEF Dismiss, Reset, set_idle, UI
  <2> QED
    BY <1>2, <2>1, OperatorChoice
<1>9. CASE ShowManual \/ NeedsModelSubmitFails
  <2>1. Input /\ UNCHANGED <<threads, callbacks>> /\ UNCHANGED <<ui.state, ui.model_scan>>
    BY <1>1, <1>9 DEF ShowManual, NeedsModelSubmitFails, UI
  <2> QED
    BY <1>2, <2>1, OperatorChoice
<1>10. ASSUME NEW model \in Models \cup {NoModel}, NeedsModelSubmit(model) PROVE ChoiceInv'
  <2>1. Input /\ UNCHANGED callbacks /\ (model # NoModel => model \in Choices')
    BY <1>10 DEF NeedsModelSubmit, Choices
  <2>2. \/ UNCHANGED threads /\ ui'.state # "MID_SCAN"
        \/ UNCHANGED threads /\ ui'.model_scan = model /\ model # NoModel
        \/ /\ model # NoModel /\ ui'.state # "MID_SCAN"
           /\ start("match", ui.current_po, model, NoText)
    BY <1>1, <1>10 DEF NeedsModelSubmit, set_needs_model, set_idle, set_mid_scan, UI
  <2> QED
    BY <1>2, <2>1, <2>2, StartsOne, OperatorChoice
<1>11. ASSUME NEW model \in Models \cup {NoModel}, NEW serial \in Texts \cup {NoText},
              ManualSubmit(model, serial)
       PROVE  ChoiceInv'
  <2>1. Input /\ UNCHANGED callbacks /\ (model # NoModel => model \in Choices')
    BY <1>11 DEF ManualSubmit, Choices
  <2>2. \/ UNCHANGED threads /\ UNCHANGED <<ui.state, ui.model_scan>>
        \/ /\ model # NoModel /\ ui'.state # "MID_SCAN"
           /\ start("match", ui.current_po, model, serial)
    BY <1>1, <1>11 DEF ManualSubmit, UI
  <2> QED
    BY <1>2, <2>1, <2>2, StartsOne, OperatorChoice
<1> QED
  BY <1>3, <1>4, <1>5, <1>6, <1>7, <1>8, <1>9, <1>10, <1>11 DEF Operator

(* What a thread queues: of the verdicts only AUTO brings a model along,    *)
(* and that is a choice.                                                    *)
LEMMA ThreadsChoose ==
    ASSUME WindowInv, ChoiceInv, NEW th \in threads, ThreadStep(th), Choices \subseteq Choices'
    PROVE  ChoiceInv'
<1>1. callbacks \in Seq(Callback) /\ th \in Thread
  BY DEF WindowInv, TypeOK
<1>2. UNCHANGED ui
  BY DEF ThreadStep, Resolve, MatchReceived, MatchOther, PrintLabel, PrintFails, Raise, Populate,
         PopulateFails
<1>3. UNCHANGED callbacks => UNCHANGED Calls
  BY DEF Calls
<1>4. ASSUME NEW c \in Callback, queue(c), threads' = threads \ {th}, c.do # "turnstile",
             c.do = "verdict" /\ c.what = "AUTO" => c.model \in Choices'
      PROVE  ChoiceInv'
  <2>1. Calls' = Calls \cup {c}
    BY <1>1, <1>4, QueueCalls
  <2> QED
    BY <1>2, <1>4, <2>1 DEF ChoiceInv
<1>5. CASE Resolve(th)
  <2>1. PICK model \in Models, what \in {"AUTO", "PROPOSE", "NEEDS_MODEL"} :
           /\ queue([call("verdict") EXCEPT !.what = what, !.po = th.po, !.text = th.text,
                          !.model = IF what = "NEEDS_MODEL" THEN NoModel ELSE model])
           /\ chosen' = chosen \cup {m \in {model} : what = "AUTO"}
    BY <1>5 DEF Resolve
  <2> DEFINE c == [call("verdict") EXCEPT !.what = what, !.po = th.po, !.text = th.text,
                       !.model = IF what = "NEEDS_MODEL" THEN NoModel ELSE model]
  <2>2. /\ c \in Callback /\ c.do = "verdict" /\ c.what = what
        /\ what = "AUTO" => c.model = model
    BY <1>1 DEF call, Callback, Thread
  <2>3. queue(c) /\ (what = "AUTO" => model \in Choices')
    BY <2>1 DEF Choices
  <2> HIDE DEF c
  <2> QED
    BY <1>4, <1>5, <2>2, <2>3 DEF Resolve
<1>6. CASE MatchReceived(th)
  <2>1. /\ threads' = (threads \ {th}) \cup {[th EXCEPT !.kind = "print"]} /\ th.kind = "match"
        /\ UNCHANGED callbacks /\ [th EXCEPT !.kind = "print"].model = th.model
    BY <1>1, <1>6 DEF MatchReceived, Thread
  <2> QED
    BY <1>2, <1>3, <2>1 DEF ChoiceInv
<1>7. CASE MatchOther(th) \/ PrintLabel(th) \/ PrintFails(th)
  <2>1. PICK what \in {"already_scanned", "no_match", "received", "print_failed"} :
           queue(outcome(th, what))
    BY <1>7 DEF MatchOther, PrintLabel, PrintFails
  <2>2. th.kind \in {"match", "print"} /\ threads' = threads \ {th}
    BY <1>7 DEF MatchOther, PrintLabel, PrintFails
  <2>3. outcome(th, what) \in Callback /\ outcome(th, what).do = "outcome"
    BY <2>2, ThreadFacts
  <2> QED
    BY <1>4, <2>1, <2>2, <2>3
<1>8. CASE Raise(th)
  <2>1. call("set_idle") \in Callback /\ call("set_idle").do = "set_idle"
    BY DEF call, Callback
  <2> QED
    BY <1>4, <1>8, <2>1 DEF Raise
<1>9. CASE Populate(th)
  <2> DEFINE c == [call("add_po") EXCEPT !.po = th.po]
  <2>1. c \in Callback /\ c.do = "add_po"
    BY <1>1 DEF call, Callback, Thread
  <2>2. queue(c)
    BY <1>9 DEF Populate
  <2> HIDE DEF c
  <2> QED
    BY <1>4, <1>9, <2>1, <2>2 DEF Populate
<1>10. CASE PopulateFails(th)
  BY <1>2, <1>3, <1>10 DEF PopulateFails, ChoiceInv
<1> QED
  BY <1>5, <1>6, <1>7, <1>8, <1>9, <1>10 DEF ThreadStep

(* What a callback makes the model of the window, and what it puts under a  *)
(* turnstile that waits behind it.                                          *)
LEMMA CallbacksChoose ==
    ASSUME WindowInv, ChoiceInv, RunCallback, Choices \subseteq Choices'
    PROVE  ChoiceInv'
<1> DEFINE c == Head(callbacks)
<1>1. /\ c \in Callback /\ Calls = Calls' \cup {c} /\ UNCHANGED threads /\ run(c)
  BY RunCalls DEF RunCallback, WindowInv, TypeOK
<1>2. CallCarries(c) /\ ui \in UI
  BY <1>1 DEF WindowInv, Carried, TypeOK
<1> HIDE DEF c
<1>3. ASSUME ui'.state = "MID_SCAN" => \/ UNCHANGED <<ui.state, ui.model_scan>>
                                      \/ ui'.model_scan \in Choices',
             UNCHANGED <<ui.pending_barcode, ui.proposed_model>>
      PROVE  ChoiceInv'
  BY <1>1, <1>3 DEF ChoiceInv
<1>4. CASE c.do = "turnstile"
  <2>1. handle_propose_scan(c)
    BY <1>1, <1>4 DEF run
  <2>2. CASE c.text = ui.pending_barcode
    <3>1. /\ ui'.model_scan = ui.proposed_model /\ ui.proposed_model \in Choices
          /\ UNCHANGED <<ui.pending_barcode, ui.proposed_model>>
      BY <1>1, <1>2, <1>4, <2>1, <2>2 DEF handle_propose_scan, set_mid_scan, UI, ChoiceInv
    <3> QED
      BY <1>3, <3>1
  <2>3. CASE c.text # ui.pending_barcode
    BY <1>3, <2>1, <2>3 DEF handle_propose_scan
  <2> QED
    BY <2>2, <2>3
<1>5. CASE c.do \in {"lock_po", "add_po", "set_idle"}
  <2>1. ui'.state = "IDLE" /\ UNCHANGED <<ui.pending_barcode, ui.proposed_model>>
    BY <1>1, <1>2, <1>5 DEF run, lock_po, add_po, set_idle, UI
  <2> QED
    BY <1>3, <2>1
<1>6. CASE c.do = "verdict"
  <2>1. apply_verdict(c) /\ c.what \in {"AUTO", "PROPOSE", "NEEDS_MODEL"}
    BY <1>1, <1>2, <1>6 DEF run, CallCarries
  <2>2. CASE c.what = "AUTO"
    <3>1. /\ ui'.model_scan = c.model /\ UNCHANGED <<ui.pending_barcode, ui.proposed_model>>
          /\ c.model \in Choices
      BY <1>1, <1>2, <1>6, <2>1, <2>2 DEF apply_verdict, set_mid_scan, UI, ChoiceInv
    <3> QED
      BY <1>3, <3>1
  <2>3. CASE c.what \in {"PROPOSE", "NEEDS_MODEL"}
    <3>1. ui'.state # "MID_SCAN" /\ ui'.pending_barcode = c.text
      BY <1>2, <2>1, <2>3 DEF apply_verdict, set_propose, set_needs_model, UI
    <3>2. ASSUME NEW d \in Calls', d.do = "turnstile", d.text = c.text
          PROVE  ui'.proposed_model \in Choices'
      <4>1. Rescanned(c)
        BY <1>1, <2>3, <3>2 DEF Rescanned, Calls
      <4> QED
        BY <2>1, <4>1 DEF apply_verdict, Choices
    <3> QED
      BY <1>1, <3>1, <3>2 DEF ChoiceInv
  <2> QED
    BY <2>1, <2>2, <2>3
<1>7. CASE c.do = "outcome"
  <2>1. /\ apply_outcome(c)
        /\ c.what \in {"received", "no_match", "already_scanned", "print_failed"}
    BY <1>1, <1>2, <1>7 DEF run, CallCarries
  <2>2. ui'.state # "MID_SCAN" /\ UNCHANGED <<ui.pending_barcode, ui.proposed_model>>
    BY <1>2, <2>1 DEF apply_outcome, set_match_found, set_no_match, set_already_scanned,
                      set_print_failed, UI
  <2> QED
    BY <1>3, <2>2
<1>8. c.do \in {"turnstile", "lock_po", "verdict", "outcome", "set_idle", "add_po"}
  BY <1>1 DEF Callback
<1> QED
  BY <1>4, <1>5, <1>6, <1>7, <1>8

LEMMA ChoiceStep ==
    WindowInv /\ ProposalIsForBarcode /\ ChoiceInv /\ [Next]_vars => ChoiceInv'
<1> SUFFICES ASSUME WindowInv, ProposalIsForBarcode, ChoiceInv, [Next]_vars PROVE ChoiceInv'
  OBVIOUS
<1>1. Choices \subseteq Choices'
  BY ChoicesGrow
<1>2. CASE TimerFires
  <2>1. /\ ui'.state = "IDLE" /\ UNCHANGED <<ui.pending_barcode, ui.proposed_model>>
        /\ UNCHANGED <<threads, Calls>>
    BY <1>2 DEF TimerFires, set_idle, WindowInv, TypeOK, UI, Calls
  <2> QED
    BY <1>1, <2>1 DEF ChoiceInv
<1>3. CASE UNCHANGED vars
  BY <1>3 DEF vars, ChoiceInv, Choices, Calls
<1> QED
  BY <1>1, <1>2, <1>3, OperatorChooses, ThreadsChoose, CallbacksChoose DEF Next

(* A serial is only matched against a model that a scan gave for certain,   *)
(* that was typed, or that the operator confirmed by scanning the barcode   *)
(* it was proposed for; or else a PROPOSE or NEEDS_MODEL verdict for the    *)
(* scanned barcode came between the scan and the turnstile.                 *)
THEOREM MatchedWithChosenModel == Spec => []MatchesChosenModel
<1>1. Init => ChoiceInv
  BY DEF Init, ChoiceInv, Calls
<1>2. WindowInv /\ ProposalIsForBarcode /\ ChoiceInv /\ [Next]_vars => ChoiceInv'
  BY ChoiceStep
<1>3. ChoiceInv => MatchesChosenModel
  BY DEF ChoiceInv, MatchesChosenModel
<1> QED
  BY <1>1, <1>2, <1>3, WindowInvariant, ProposalInvariant, PTL DEF Spec
=============================================================================
