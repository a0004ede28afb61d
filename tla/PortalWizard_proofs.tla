------------------------- MODULE PortalWizard_proofs -------------------------
(***************************************************************************)
(* Theorems about PortalWizard, for any grid, any items and any number of  *)
(* calls and faults.  They rest on what each step of a call knows: how far *)
(* the session is, that nothing was entered before the last click, which   *)
(* pages of the grid hold no open row of the model, and whether a label is *)
(* already known to be missing.                                            *)
(***************************************************************************)
EXTENDS PortalWizard, TLAPS

(* TypeOK in four parts, for the provers: where the call is, ...            *)
ControlTypes ==
    /\ held \in 0 .. 4 /\ url \in {"blank", "login", "start", "order", "receiving"}
    /\ pc \in Steps /\ item \in Items \cup {NoItem}
    /\ pc \in PageSteps => held = 4 /\ item # NoItem
    /\ labels \subseteq {"location", "whse"}

(* ... what it sees and says, ...                                           *)
GridTypes ==
    /\ at \in 1 .. Pages /\ shown \in 1 .. at /\ tried \in 0 .. MaxGridPages - 1
    /\ row \in Rows \cup {NoRow}
    /\ pc \in {"qty", "next", "serial", "review", "finish", "check"} => row \in RowsOf[item]
    /\ answer \in {"none", "accepted", "alert", "silent"} /\ outcome \in Outcomes

(* ... what is counted, ...                                                 *)
CountTypes ==
    /\ tbr \in [Rows -> Nat] /\ entered \in [Items -> Nat] /\ unplaced \in Nat
    /\ raised \in Nat /\ calls \in Nat /\ passes \in Nat /\ faults \in [Kinds -> Nat]

(* ... and what is true or false.                                           *)
FlagTypes == alive \in BOOLEAN /\ loggedIn \in BOOLEAN /\ given \in BOOLEAN /\ glitched \in BOOLEAN

(* How far _ensure_session is.                                              *)
SessionInv ==
    /\ InCall => item \in Items
    /\ pc = "launch" => held = 1
    /\ pc = "context" => held = 2
    /\ pc = "page" => held = 3
    /\ pc = "login" => held = 4

(* Nothing is entered before the last click, and then what the answer says. *)
AnswerInv ==
    /\ InCall /\ pc # "check" => ~given /\ answer = "none"
    /\ pc = "check" => \/ given /\ answer = "accepted"
                       \/ ~given /\ answer \in {"alert", "silent"}

(* The pages before the one on the screen have no open row of the model.    *)
SearchInv ==
    /\ outcome = "not_found" => item \in Items
    /\ pc \in {"start", "launch", "context", "page", "login", "navigate", "relogin", "receive",
               "location", "whse"} => at = 1 /\ shown = 1 /\ tried = 0
    /\ pc = "grid" /\ ~glitched =>
           /\ shown = at /\ tried = at - 1
           /\ \A r \in RowsOf[item] : tbr[r] > 0 => PageOf[r] >= at

(* A label that is not applied was missing, and this unit is not counted.   *)
LabelLacks ==
    \/ pc \in {"whse", "grid", "qty", "next", "serial", "review", "finish"}
          /\ "location" \notin labels
    \/ pc \in {"grid", "qty", "next", "serial", "review", "finish"} /\ "whse" \notin labels

PlaceInv == LabelLacks => unplaced + 1 <= faults["missing"]

IInv ==
    /\ TypeOK /\ SessionInv /\ AnswerInv
    /\ SearchInv /\ NotFoundIsTrue
    /\ PlaceInv /\ PlacedUnlessMissing

-----------------------------------------------------------------------------
(* Types *)

(* Faults are counted up, one kind at a time.                               *)
LEMMA SpendTypes ==
    ASSUME faults \in [Kinds -> Nat], NEW kind \in Kinds, Spend(kind)
    PROVE  /\ faults' \in [Kinds -> Nat]
           /\ \A k \in Kinds : faults'[k] >= faults[k]
           /\ faults'[kind] = faults[kind] + 1
BY DEF Spend

(* The four parts are all of the types.                                     *)
LEMMA TypeParts == TypeOK <=> ControlTypes /\ GridTypes /\ CountTypes /\ FlagTypes
BY DEF TypeOK, ControlTypes, GridTypes, CountTypes, FlagTypes

(* What is true or false stays so, or changes to the other.                *)
LEMMA NextFlags ==
    ASSUME FlagTypes, Next
    PROVE  FlagTypes'
<1> USE DEF FlagTypes, browser, grid, portal, history, bounds, Goto, Return, Lacking
<1>1. CASE Session
  BY <1>1 DEF Session, StartPlaywright, StartRefused, Acquire, FirstLogin, SessionFails, CloseOne,
              Closed, CloseRaises
<1>2. CASE Wizard
  BY <1>2 DEF Wizard, GotoOrder, Relogin, ClickReceive, NoReceiveButton, NoReceivingUrl, SetLabel,
              FindRow, TurnPage, NoOpenRow, GridLacking, SetQuantity, NoQuantityInput, ClickNext,
              NoSerialInput, FinishAccepted, FinishRefused, CheckAlert, StepRaises
<1>3. ASSUME NEW it \in Items, Call(it)
      PROVE  FlagTypes'
  BY <1>3 DEF Call
<1>4. CASE EndPass \/ Restart \/ SessionExpires \/ BrowserDies
  BY <1>4 DEF EndPass, Restart, SessionExpires, BrowserDies
<1>5. ASSUME NEW r \in Rows, ReceivedElsewhere(r)
      PROVE  FlagTypes'
  BY <1>5 DEF ReceivedElsewhere
<1> QED BY <1>1, <1>2, <1>3, <1>4, <1>5 DEF Next

(* A call keeps its place, its session and its item.                        *)
LEMMA NextControl ==
    ASSUME ControlTypes, SessionInv, Next
    PROVE  ControlTypes' /\ SessionInv'
<1> USE WizardAssumption DEF ControlTypes, SessionInv, InCall, Steps, SessionSteps, PageSteps,
                             browser, grid, portal, history, bounds, Goto, Return, Lacking, OnPage
<1>1. CASE Session
  <2>1. CASE StartPlaywright \/ StartRefused
    <3>1. held' \in 0 .. 4 /\ (held' = held \/ held' = 1)
      BY <2>1 DEF StartPlaywright, StartRefused
    <3> QED BY <2>1, <3>1 DEF StartPlaywright, StartRefused
  <2>2. CASE Acquire("launch", "context")
    <3>1. held' = 2
      BY <2>2 DEF Acquire
    <3> QED BY <2>2, <3>1 DEF Acquire
  <2>3. CASE Acquire("context", "page")
    <3>1. held' = 3
      BY <2>3 DEF Acquire
    <3> QED BY <2>3, <3>1 DEF Acquire
  <2>4. CASE Acquire("page", "login")
    <3>1. held' = 4
      BY <2>4 DEF Acquire
    <3> QED BY <2>4, <3>1 DEF Acquire
  <2>5. CASE FirstLogin \/ SessionFails
    BY <2>5 DEF FirstLogin, SessionFails
  <2>6. CASE CloseOne
    <3>1. held' \in 0 .. 4
      BY <2>6 DEF CloseOne
    <3> QED BY <2>6, <3>1 DEF CloseOne
  <2>7. CASE Closed \/ CloseRaises
    BY <2>7 DEF Closed, CloseRaises
  <2> QED BY <1>1, <2>1, <2>2, <2>3, <2>4, <2>5, <2>6, <2>7 DEF Session
<1>2. CASE Wizard
  <2>1. CASE GotoOrder \/ Relogin \/ ClickReceive \/ NoReceiveButton \/ NoReceivingUrl
    BY <2>1 DEF GotoOrder, Relogin, ClickReceive, NoReceiveButton, NoReceivingUrl
  <2>2. CASE SetLabel("location", "location", "whse") \/ SetLabel("whse", "whse", "grid")
    BY <2>2 DEF SetLabel
  <2>3. CASE FindRow \/ TurnPage \/ NoOpenRow \/ GridLacking \/ SetQuantity \/ NoQuantityInput
    BY <2>3 DEF FindRow, TurnPage, NoOpenRow, GridLacking, SetQuantity, NoQuantityInput
  <2>4. CASE ClickNext("next", "serial") \/ ClickNext("serial", "review") \/ NoSerialInput
             \/ ClickNext("review", "finish")
    BY <2>4 DEF ClickNext, NoSerialInput
  <2>5. CASE FinishAccepted \/ FinishRefused \/ CheckAlert \/ StepRaises
    BY <2>5 DEF FinishAccepted, FinishRefused, CheckAlert, StepRaises
  <2> QED BY <1>2, <2>1, <2>2, <2>3, <2>4, <2>5 DEF Wizard
<1>3. ASSUME NEW it \in Items, Call(it)
      PROVE  ControlTypes' /\ SessionInv'
  BY <1>3 DEF Call
<1>4. CASE EndPass \/ Restart \/ SessionExpires \/ BrowserDies
  <2>1. CASE EndPass
    BY <2>1 DEF EndPass
  <2>2. CASE Restart
    <3>1. held' = 0
      BY <2>2 DEF Restart
    <3> QED BY <2>2, <3>1 DEF Restart
  <2>3. CASE SessionExpires
    BY <2>3 DEF SessionExpires
  <2>4. CASE BrowserDies
    <3>1. UNCHANGED <<pc, held, url, item, labels>>
      BY <2>4 DEF BrowserDies
    <3> QED BY <3>1
  <2> QED BY <1>4, <2>1, <2>2, <2>3, <2>4
<1>5. ASSUME NEW r \in Rows, ReceivedElsewhere(r)
      PROVE  ControlTypes' /\ SessionInv'
  BY <1>5 DEF ReceivedElsewhere
<1> QED BY <1>1, <1>2, <1>3, <1>4, <1>5 DEF Next

(* A call keeps to the grid, and to a row of its model.                     *)
LEMMA NextGrid ==
    ASSUME GridTypes, SessionInv, Next
    PROVE  GridTypes'
<1> USE WizardAssumption DEF GridTypes, Outcomes, PageSteps, SessionSteps,
                             browser, grid, portal, history, bounds, Goto, Return, Lacking, OnPage
<1>1. CASE Session
  BY <1>1 DEF Session, StartPlaywright, StartRefused, Acquire, FirstLogin, SessionFails, CloseOne,
              Closed, CloseRaises
<1>2. CASE Wizard
  <2>1. CASE GotoOrder \/ Relogin \/ ClickReceive \/ NoReceiveButton \/ NoReceivingUrl
    BY <2>1 DEF GotoOrder, Relogin, ClickReceive, NoReceiveButton, NoReceivingUrl
  <2>2. CASE SetLabel("location", "location", "whse") \/ SetLabel("whse", "whse", "grid")
    BY <2>2 DEF SetLabel
  <2>3. CASE FindRow
    <3>1. RowsOf[item] \subseteq Rows
      BY <2>3 DEF FindRow, SessionInv, InCall
    <3>2. row' \in RowsOf[item] /\ UNCHANGED <<at, shown, tried, item, answer, outcome>>
      BY <2>3 DEF FindRow, Hits
    <3> QED BY <3>1, <3>2
  <2>4. CASE TurnPage
    BY <2>4 DEF TurnPage
  <2>5. CASE NoOpenRow \/ GridLacking \/ SetQuantity \/ NoQuantityInput
    BY <2>5 DEF NoOpenRow, GridLacking, SetQuantity, NoQuantityInput
  <2>6. CASE ClickNext("next", "serial") \/ ClickNext("serial", "review") \/ NoSerialInput
             \/ ClickNext("review", "finish")
    BY <2>6 DEF ClickNext, NoSerialInput
  <2>7. CASE FinishAccepted \/ FinishRefused \/ CheckAlert \/ StepRaises
    BY <2>7 DEF FinishAccepted, FinishRefused, CheckAlert, StepRaises
  <2> QED BY <1>2, <2>1, <2>2, <2>3, <2>4, <2>5, <2>6, <2>7 DEF Wizard
<1>3. ASSUME NEW it \in Items, Call(it)
      PROVE  GridTypes'
  BY <1>3 DEF Call
<1>4. CASE EndPass \/ Restart \/ SessionExpires \/ BrowserDies
  BY <1>4 DEF EndPass, Restart, SessionExpires, BrowserDies
<1>5. ASSUME NEW r \in Rows, ReceivedElsewhere(r)
      PROVE  GridTypes'
  BY <1>5 DEF ReceivedElsewhere
<1> QED BY <1>1, <1>2, <1>3, <1>4, <1>5 DEF Next

(* Faults are only ever counted up, and of the right kind.                  *)
LEMMA NextFaults ==
    ASSUME CountTypes, Next
    PROVE  faults' \in [Kinds -> Nat] /\ \A k \in Kinds : faults'[k] >= faults[k]
<1>1. (\E kind \in Kinds : Spend(kind)) \/ UNCHANGED faults
  <2> USE DEF Kinds, Lacking, history, bounds
  <2>1. CASE Session
    BY <2>1 DEF Session, StartPlaywright, StartRefused, Acquire, FirstLogin, SessionFails, CloseOne,
              Closed, CloseRaises
  <2>2. CASE Wizard
    BY <2>2 DEF Wizard, GotoOrder, Relogin, ClickReceive, NoReceiveButton, NoReceivingUrl, SetLabel,
              FindRow, TurnPage, NoOpenRow, GridLacking, SetQuantity, NoQuantityInput, ClickNext,
              NoSerialInput, FinishAccepted, FinishRefused, CheckAlert, StepRaises
  <2>3. CASE ~Session /\ ~Wizard
    BY <2>3 DEF Next, Call, EndPass, Restart, SessionExpires, BrowserDies, ReceivedElsewhere
  <2> QED BY <2>1, <2>2, <2>3
<1>2. CASE UNCHANGED faults
  BY <1>2 DEF CountTypes
<1>3. ASSUME NEW kind \in Kinds, Spend(kind)
      PROVE  faults' \in [Kinds -> Nat] /\ \A k \in Kinds : faults'[k] >= faults[k]
  BY <1>3, SpendTypes DEF CountTypes
<1> QED BY <1>1, <1>2, <1>3

(* Nothing is counted that is not a number.                                 *)
LEMMA NextCounts ==
    ASSUME CountTypes, SessionInv, Next
    PROVE  CountTypes'
<1>0. faults' \in [Kinds -> Nat]
  BY NextFaults
<1> USE WizardAssumption, <1>0 DEF CountTypes, SessionInv, InCall, PageSteps, browser, grid, portal,
                                  history, bounds, Goto, Return, Lacking, OnPage
<1>1. CASE Session
  <2>1. CASE StartPlaywright \/ StartRefused \/ FirstLogin \/ SessionFails
    BY <2>1 DEF StartPlaywright, StartRefused, FirstLogin, SessionFails
  <2>2. CASE Acquire("launch", "context") \/ Acquire("context", "page") \/ Acquire("page", "login")
    BY <2>2 DEF Acquire
  <2>3. CASE CloseOne \/ Closed \/ CloseRaises
    BY <2>3 DEF CloseOne, Closed, CloseRaises
  <2> QED BY <1>1, <2>1, <2>2, <2>3 DEF Session
<1>2. CASE Wizard
  BY <1>2 DEF Wizard, GotoOrder, Relogin, ClickReceive, NoReceiveButton, NoReceivingUrl, SetLabel,
              FindRow, TurnPage, NoOpenRow, GridLacking, SetQuantity, NoQuantityInput, ClickNext,
              NoSerialInput, FinishAccepted, FinishRefused, CheckAlert, StepRaises
<1>3. ASSUME NEW it \in Items, Call(it)
      PROVE  CountTypes'
  BY <1>3 DEF Call
<1>4. CASE EndPass \/ Restart \/ SessionExpires \/ BrowserDies
  BY <1>4 DEF EndPass, Restart, SessionExpires, BrowserDies
<1>5. ASSUME NEW r \in Rows, ReceivedElsewhere(r)
      PROVE  CountTypes'
  BY <1>5 DEF ReceivedElsewhere
<1> QED BY <1>1, <1>2, <1>3, <1>4, <1>5 DEF Next

(* Before the last click nothing is entered.                                *)
LEMMA NextAnswer ==
    ASSUME AnswerInv, ControlTypes, Next
    PROVE  AnswerInv'
<1> USE DEF AnswerInv, InCall, SessionSteps, PageSteps, ControlTypes, Steps, browser, grid, portal,
            history, bounds, Goto, Return, Lacking, OnPage
<1>1. CASE Session
  <2>1. CASE StartPlaywright \/ StartRefused \/ FirstLogin \/ SessionFails
    BY <2>1 DEF StartPlaywright, StartRefused, FirstLogin, SessionFails
  <2>2. CASE Acquire("launch", "context") \/ Acquire("context", "page") \/ Acquire("page", "login")
    <3>1. /\ pc \in {"launch", "context", "page"} /\ pc' \in {"context", "page", "login"}
          /\ UNCHANGED <<given, answer>>
      BY <2>2 DEF Acquire
    <3> QED BY <3>1
  <2>3. CASE CloseOne \/ Closed \/ CloseRaises
    BY <2>3 DEF CloseOne, Closed, CloseRaises
  <2> QED BY <1>1, <2>1, <2>2, <2>3 DEF Session
<1>2. CASE Wizard
  BY <1>2 DEF Wizard, GotoOrder, Relogin, ClickReceive, NoReceiveButton, NoReceivingUrl, SetLabel,
              FindRow, TurnPage, NoOpenRow, GridLacking, SetQuantity, NoQuantityInput, ClickNext,
              NoSerialInput, FinishAccepted, FinishRefused, CheckAlert, StepRaises
<1>3. ASSUME NEW it \in Items, Call(it)
      PROVE  AnswerInv'
  BY <1>3 DEF Call
<1>4. CASE EndPass \/ Restart \/ SessionExpires \/ BrowserDies
  BY <1>4 DEF EndPass, Restart, SessionExpires, BrowserDies
<1>5. ASSUME NEW r \in Rows, ReceivedElsewhere(r)
      PROVE  AnswerInv'
  BY <1>5 DEF ReceivedElsewhere
<1> QED BY <1>1, <1>2, <1>3, <1>4, <1>5 DEF Next

-----------------------------------------------------------------------------
(* The contract *)

(* A step of a call is a step of the contract, or none that it sees.        *)
LEMMA StepKeepsContract ==
    ASSUME ControlTypes, SessionInv, AnswerInv, ControlTypes', SessionInv', AnswerInv', [Next]_vars
    PROVE  [Contract!Next]_(Contract!vars)
<1> USE WizardAssumption DEF Contract!Next, Contract!vars, Contract!Return, InCall, SessionSteps,
                             PageSteps, SessionInv, browser, grid, portal, history, bounds,
                             Goto, Return, Lacking, OnPage
<1>1. CASE Session
  <2>1. CASE StartPlaywright \/ StartRefused
    BY <2>1 DEF StartPlaywright, StartRefused
  <2>2. CASE Acquire("launch", "context")
    BY <2>2 DEF Acquire
  <2>3. CASE Acquire("context", "page") \/ Acquire("page", "login")
    BY <2>3 DEF Acquire
  <2>4. CASE FirstLogin \/ SessionFails
    BY <2>4 DEF FirstLogin, SessionFails
  <2>5. CASE CloseOne
    BY <2>5 DEF CloseOne
  <2>6. CASE Closed \/ CloseRaises
    BY <2>6 DEF Closed, CloseRaises
  <2> QED BY <1>1, <2>1, <2>2, <2>3, <2>4, <2>5, <2>6 DEF Session
<1>2. CASE Wizard
  <2>1. CASE GotoOrder \/ Relogin \/ ClickReceive \/ NoReceiveButton
    BY <2>1 DEF GotoOrder, Relogin, ClickReceive, NoReceiveButton
  <2>2. CASE NoReceivingUrl \/ GridLacking \/ NoQuantityInput \/ NoSerialInput
    BY <2>2 DEF NoReceivingUrl, GridLacking, NoQuantityInput, NoSerialInput, AnswerInv
  <2>3. CASE SetLabel("location", "location", "whse") \/ SetLabel("whse", "whse", "grid")
    BY <2>3 DEF SetLabel
  <2>4. CASE FindRow \/ TurnPage \/ SetQuantity
    BY <2>4 DEF FindRow, TurnPage, SetQuantity
  <2>5. CASE NoOpenRow
    BY <2>5 DEF NoOpenRow, AnswerInv
  <2>6. CASE ClickNext("next", "serial") \/ ClickNext("serial", "review")
             \/ ClickNext("review", "finish")
    BY <2>6 DEF ClickNext
  <2>7. CASE FinishAccepted
    BY <2>7 DEF FinishAccepted, AnswerInv, Contract!Enter
  <2>8. CASE FinishRefused
    BY <2>8 DEF FinishRefused, AnswerInv, Contract!RefuseUnseen
  <2>9. CASE CheckAlert
    BY <2>9 DEF CheckAlert, AnswerInv
  <2>10. CASE StepRaises
    BY <2>10 DEF StepRaises
  <2> QED BY <1>2, <2>1, <2>2, <2>3, <2>4, <2>5, <2>6, <2>7, <2>8, <2>9, <2>10 DEF Wizard
<1>3. ASSUME NEW it \in Items, Call(it)
      PROVE  [Contract!Next]_(Contract!vars)
  BY <1>3 DEF Call, Contract!Call
<1>4. CASE EndPass \/ Restart \/ SessionExpires \/ BrowserDies
  BY <1>4 DEF EndPass, Restart, SessionExpires, BrowserDies
<1>5. ASSUME NEW r \in Rows, ReceivedElsewhere(r)
      PROVE  [Contract!Next]_(Contract!vars)
  BY <1>5 DEF ReceivedElsewhere
<1>6. CASE UNCHANGED vars
  BY <1>6 DEF vars
<1> QED BY <1>1, <1>2, <1>3, <1>4, <1>5, <1>6 DEF Next

-----------------------------------------------------------------------------
(* The search *)

(* Units of a row only become fewer.                                        *)
LEMMA NextTbr ==
    ASSUME CountTypes, Next
    PROVE  \A r \in Rows : tbr'[r] > 0 => tbr[r] > 0
<1> USE DEF CountTypes, portal, Lacking
<1>1. CASE Session
  BY <1>1 DEF Session, StartPlaywright, StartRefused, Acquire, FirstLogin, SessionFails, CloseOne,
              Closed, CloseRaises
<1>2. CASE Wizard
  BY <1>2 DEF Wizard, GotoOrder, Relogin, ClickReceive, NoReceiveButton, NoReceivingUrl, SetLabel,
              FindRow, TurnPage, NoOpenRow, GridLacking, SetQuantity, NoQuantityInput, ClickNext,
              NoSerialInput, FinishAccepted, FinishRefused, CheckAlert, StepRaises
<1>3. CASE ~Session /\ ~Wizard
  BY <1>3 DEF Next, Call, EndPass, Restart, SessionExpires, BrowserDies, ReceivedElsewhere
<1> QED BY <1>1, <1>2, <1>3

(* The pages that were turned have no open row, so that a call that turns   *)
(* no more of them is right to say so.                                      *)
LEMMA NextSearch ==
    ASSUME ControlTypes, GridTypes, CountTypes, SessionInv, SearchInv, NotFoundIsTrue, Next
    PROVE  SearchInv' /\ NotFoundIsTrue'
<1>1. \A it \in Items : RowsOf[it] \subseteq Rows
  BY WizardAssumption
<1>2. \A r \in Rows : PageOf[r] \in Nat /\ 1 <= PageOf[r] /\ PageOf[r] <= Pages
  BY WizardAssumption
<1>3. Pages \in Nat /\ MaxGridPages \in Nat
  BY WizardAssumption
<1>4. at \in Nat /\ shown \in Nat /\ tried \in Nat /\ at <= Pages
  BY <1>3 DEF GridTypes
<1>5. \A r \in Rows : tbr'[r] > 0 => tbr[r] > 0
  BY NextTbr
<1> USE <1>1, <1>2, <1>3, <1>4, <1>5
    DEF SearchInv, NotFoundIsTrue, SessionInv, InCall, SessionSteps, PageSteps,
        browser, grid, portal, history, bounds, Goto, Return, Lacking, OnPage
<1>6. CASE Session
  <2>1. CASE StartPlaywright \/ StartRefused
    BY <2>1 DEF StartPlaywright, StartRefused
  <2>2. CASE Acquire("launch", "context")
    BY <2>2 DEF Acquire
  <2>3. CASE Acquire("context", "page") \/ Acquire("page", "login")
    BY <2>3 DEF Acquire
  <2>4. CASE FirstLogin \/ SessionFails
    BY <2>4 DEF FirstLogin, SessionFails
  <2>5. CASE CloseOne \/ Closed \/ CloseRaises
    BY <2>5 DEF CloseOne, Closed, CloseRaises
  <2> QED BY <1>6, <2>1, <2>2, <2>3, <2>4, <2>5 DEF Session
<1>7. CASE Wizard
  <2>1. CASE GotoOrder \/ Relogin \/ ClickReceive \/ NoReceiveButton
    BY <2>1 DEF GotoOrder, Relogin, ClickReceive, NoReceiveButton
  <2>2. CASE NoReceivingUrl \/ GridLacking \/ NoQuantityInput \/ NoSerialInput
    BY <2>2 DEF NoReceivingUrl, GridLacking, NoQuantityInput, NoSerialInput
  <2>3. CASE SetLabel("location", "location", "whse")
    BY <2>3 DEF SetLabel
  <2>4. CASE SetLabel("whse", "whse", "grid")
    BY <2>4 DEF SetLabel
  <2>5. CASE FindRow \/ SetQuantity
    BY <2>5 DEF FindRow, SetQuantity
  <2>6. CASE TurnPage
    <3>1. ASSUME ~glitched'
          PROVE  ~glitched /\ shown' = at + 1
      BY <2>6, <3>1 DEF TurnPage
    <3>2. ASSUME ~glitched', NEW r \in RowsOf[item], tbr[r] > 0
          PROVE  PageOf[r] >= at + 1
      BY <2>6, <3>1, <3>2 DEF TurnPage, Hits
    <3> QED BY <2>6, <3>1, <3>2 DEF TurnPage
  <2>7. CASE NoOpenRow
    <3>1. ASSUME ~glitched, NEW r \in RowsOf[item], tbr[r] > 0
          PROVE  PageOf[r] > MaxGridPages
      BY <2>7, <3>1 DEF NoOpenRow, Hits
    <3> QED BY <2>7, <3>1 DEF NoOpenRow
  <2>8. CASE ClickNext("next", "serial") \/ ClickNext("serial", "review")
             \/ ClickNext("review", "finish")
    BY <2>8 DEF ClickNext
  <2>9. CASE FinishAccepted \/ FinishRefused
    BY <2>9 DEF FinishAccepted, FinishRefused
  <2>10. CASE CheckAlert \/ StepRaises
    BY <2>10 DEF CheckAlert, StepRaises
  <2> QED BY <1>7, <2>1, <2>2, <2>3, <2>4, <2>5, <2>6, <2>7, <2>8, <2>9, <2>10 DEF Wizard
<1>8. ASSUME NEW it \in Items, Call(it)
      PROVE  SearchInv' /\ NotFoundIsTrue'
  BY <1>8 DEF Call
<1>9. CASE EndPass \/ Restart \/ SessionExpires \/ BrowserDies
  BY <1>9 DEF EndPass, Restart, SessionExpires, BrowserDies
<1>10. ASSUME NEW r \in Rows, ReceivedElsewhere(r)
       PROVE  SearchInv' /\ NotFoundIsTrue'
  BY <1>10 DEF ReceivedElsewhere
<1> QED BY <1>6, <1>7, <1>8, <1>9, <1>10 DEF Next

-----------------------------------------------------------------------------
(* The labels *)

(* A label that is lacking has been counted as missing, and its unit not    *)
(* yet as received without it.                                              *)
LEMMA NextPlace ==
    ASSUME ControlTypes, CountTypes, PlaceInv, PlacedUnlessMissing, Next
    PROVE  PlaceInv' /\ PlacedUnlessMissing'
<1>1. "missing" \in Kinds
  BY DEF Kinds
<1>2. faults'["missing"] \in Nat /\ faults'["missing"] >= faults["missing"]
  BY <1>1, NextFaults
<1>3. faults["missing"] \in Nat /\ unplaced \in Nat /\ labels \subseteq {"location", "whse"}
  BY <1>1 DEF CountTypes, ControlTypes
<1> USE <1>2, <1>3 DEF PlaceInv, PlacedUnlessMissing, LabelLacks,
                      browser, grid, portal, history, bounds, Goto, Return, Lacking, OnPage
<1>4. CASE Session
  <2>1. CASE StartPlaywright \/ StartRefused \/ FirstLogin \/ SessionFails
    BY <2>1 DEF StartPlaywright, StartRefused, FirstLogin, SessionFails
  <2>2. CASE Acquire("launch", "context") \/ Acquire("context", "page") \/ Acquire("page", "login")
    <3>1. pc' \in {"context", "page", "login"} /\ UNCHANGED <<unplaced, faults>>
      BY <2>2 DEF Acquire
    <3> QED BY <3>1
  <2>3. CASE CloseOne \/ Closed \/ CloseRaises
    BY <2>3 DEF CloseOne, Closed, CloseRaises
  <2> QED BY <1>4, <2>1, <2>2, <2>3 DEF Session
<1>5. CASE Wizard
  <2>1. CASE GotoOrder \/ Relogin \/ ClickReceive \/ NoReceiveButton
    BY <2>1 DEF GotoOrder, Relogin, ClickReceive, NoReceiveButton
  <2>2. CASE NoReceivingUrl \/ GridLacking \/ NoQuantityInput \/ NoSerialInput
    BY <2>2 DEF NoReceivingUrl, GridLacking, NoQuantityInput, NoSerialInput
  <2>3. CASE SetLabel("location", "location", "whse") \/ SetLabel("whse", "whse", "grid")
    <3>1. ASSUME Spend("missing")
          PROVE  unplaced + 1 <= faults'["missing"]
      BY <1>1, <3>1, SpendTypes DEF CountTypes
    <3> QED BY <2>3, <3>1 DEF SetLabel
  <2>4. CASE FindRow \/ TurnPage \/ NoOpenRow \/ SetQuantity
    BY <2>4 DEF FindRow, TurnPage, NoOpenRow, SetQuantity
  <2>5. CASE ClickNext("next", "serial") \/ ClickNext("serial", "review")
             \/ ClickNext("review", "finish")
    BY <2>5 DEF ClickNext
  <2>6. CASE FinishAccepted
    BY <2>6 DEF FinishAccepted
  <2>7. CASE FinishRefused \/ CheckAlert \/ StepRaises
    BY <2>7 DEF FinishRefused, CheckAlert, StepRaises
  <2> QED BY <1>5, <2>1, <2>2, <2>3, <2>4, <2>5, <2>6, <2>7 DEF Wizard
<1>6. ASSUME NEW it \in Items, Call(it)
      PROVE  PlaceInv' /\ PlacedUnlessMissing'
  BY <1>6 DEF Call
<1>7. CASE EndPass \/ Restart \/ SessionExpires \/ BrowserDies
  BY <1>7 DEF EndPass, Restart, SessionExpires, BrowserDies
<1>8. ASSUME NEW r \in Rows, ReceivedElsewhere(r)
      PROVE  PlaceInv' /\ PlacedUnlessMissing'
  BY <1>8 DEF ReceivedElsewhere
<1> QED BY <1>4, <1>5, <1>6, <1>7, <1>8 DEF Next

-----------------------------------------------------------------------------
(* The theorems *)

(* At the start no call has done anything.                                  *)
LEMMA InitIInv ==
    ASSUME Init
    PROVE  IInv
<1> USE WizardAssumption DEF Init, InCall, SessionSteps, PageSteps
<1>1. ControlTypes
  BY DEF ControlTypes, Steps
<1>2. GridTypes
  BY DEF GridTypes, Outcomes
<1>3. CountTypes
  BY DEF CountTypes
<1>4. FlagTypes
  BY DEF FlagTypes
<1>5. SessionInv /\ AnswerInv /\ SearchInv /\ NotFoundIsTrue
  BY DEF SessionInv, AnswerInv, SearchInv, NotFoundIsTrue
<1>6. PlaceInv /\ PlacedUnlessMissing
  BY DEF PlaceInv, PlacedUnlessMissing, LabelLacks, Kinds
<1> QED BY <1>1, <1>2, <1>3, <1>4, <1>5, <1>6, TypeParts DEF IInv

(* Every step keeps all of it.                                              *)
LEMMA NextIInv ==
    ASSUME IInv, [Next]_vars
    PROVE  IInv'
<1>1. ControlTypes /\ GridTypes /\ CountTypes /\ FlagTypes
  BY TypeParts DEF IInv
<1>2. CASE Next
  <2>1. ControlTypes' /\ GridTypes' /\ CountTypes' /\ FlagTypes' /\ SessionInv'
    BY <1>1, <1>2, NextControl, NextGrid, NextCounts, NextFlags DEF IInv
  <2>2. TypeOK'
    BY <2>1 DEF TypeOK, ControlTypes, GridTypes, CountTypes, FlagTypes
  <2>3. AnswerInv' /\ SearchInv' /\ NotFoundIsTrue' /\ PlaceInv' /\ PlacedUnlessMissing'
    BY <1>1, <1>2, NextAnswer, NextSearch, NextPlace DEF IInv
  <2> QED BY <2>1, <2>2, <2>3 DEF IInv
<1>3. CASE UNCHANGED vars
  BY <1>3 DEF IInv, TypeOK, SessionInv, AnswerInv, SearchInv, NotFoundIsTrue, PlaceInv,
              PlacedUnlessMissing, LabelLacks, InCall, vars, browser, grid, portal, history, bounds
<1> QED BY <1>2, <1>3

(* So it holds always.                                                      *)
LEMMA Invariance == Spec => []IInv
<1>1. Init => IInv
  BY InitIInv
<1>2. IInv /\ [Next]_vars => IInv'
  BY NextIInv
<1> QED BY <1>1, <1>2, PTL DEF Spec

(* The wizard keeps its types: a step runs on a complete session.           *)
THEOREM WizardTypeCorrect == Spec => []TypeOK
<1>1. IInv => TypeOK
  BY DEF IInv
<1> QED BY <1>1, Invariance, PTL

(* not_found means that no row of the model is open on the searched pages.  *)
THEOREM NotFoundIsSound == Spec => []NotFoundIsTrue
<1>1. IInv => NotFoundIsTrue
  BY DEF IInv
<1> QED BY <1>1, Invariance, PTL

(* A unit lacks a location or a warehouse for a missing label only.         *)
THEOREM PlacedIsSound == Spec => []PlacedUnlessMissing
<1>1. IInv => PlacedUnlessMissing
  BY DEF IInv
<1> QED BY <1>1, Invariance, PTL

(* receive_item keeps the contract that the robot relies on.                *)
THEOREM WizardKeepsContract == Spec => KeepsContract
<1>1. Init => Contract!Init
  BY DEF Init, Contract!Init, InCall, SessionSteps, PageSteps
<1>2. IInv /\ IInv' /\ [Next]_vars => [Contract!Next]_(Contract!vars)
  BY StepKeepsContract, TypeParts
  DEF IInv, TypeOK, ControlTypes, GridTypes, CountTypes, FlagTypes
<1> QED BY <1>1, <1>2, Invariance, PTL DEF Spec, KeepsContract, Contract!Spec

-----------------------------------------------------------------------------
(* The failures of a pass.  FailuresAreExplained is not inductive: a fault  *)
(* is spent some steps before the call fails of it.  What is owed meanwhile *)
(* is the call that is being given up, the call that will find itself       *)
(* logged out, and the call that is on a page without the receive button.   *)
Budget == faults["raises"] + faults["closes"] + faults["expiries"] + faults["rejects"]
          + faults["deaths"]

GivenUp   == pc = "cleanup" \/ (~alive /\ pc \in {"context", "page", "login"})
LoggedOut == pc \in PageSteps \cup {"idle"} /\ held = 4 /\ ~loggedIn
WrongPage == pc = "receive" /\ url # "order"

Owed == (IF GivenUp THEN 1 ELSE 0) + (IF LoggedOut THEN 1 ELSE 0) + (IF WrongPage THEN 1 ELSE 0)

(* What costs every call: a dead page that is used as it is, and a session  *)
(* of which a failed close has left a part.                                 *)
Stuck ==
    \/ ~alive /\ held = 4 /\ pc \in PageSteps \cup {"idle"}
    \/ pc \in {"idle", "start"} /\ held \notin {0, 4}

Paid == Stuck \/ pc \in {"closing", "ended"} \/ raised + Owed <= Budget

FailInv ==
    /\ pc = "start" => held # 4
    /\ pc = "relogin" => ~loggedIn
    /\ Paid

LEMMA OwedType == Owed \in Nat /\ Owed <= 3
BY DEF Owed

(* A fault of one of the five kinds pays for one failure.                   *)
LEMMA BudgetFacts ==
    ASSUME CountTypes, Next
    PROVE  /\ Budget \in Nat /\ Budget' \in Nat /\ Budget' >= Budget
           /\ \A kind \in {"raises", "closes", "expiries", "rejects", "deaths"} :
                 Spend(kind) => Budget' = Budget + 1
<1> DEFINE paying == {"raises", "closes", "expiries", "rejects", "deaths"}
<1>1. paying \subseteq Kinds
  BY DEF Kinds
<1>2. /\ \A k \in paying : faults[k] \in Nat /\ faults'[k] \in Nat /\ faults'[k] >= faults[k]
  BY <1>1, NextFaults DEF CountTypes
<1>3. Budget \in Nat /\ Budget' \in Nat /\ Budget' >= Budget
  BY <1>2 DEF Budget
<1>4. ASSUME NEW kind \in paying, Spend(kind) PROVE Budget' = Budget + 1
  <2>1. \A k \in paying : faults'[k] = faults[k] + IF k = kind THEN 1 ELSE 0
    BY <1>1, <1>2, <1>4 DEF Spend, CountTypes
  <2> QED
    BY <1>2, <1>4, <2>1 DEF Budget
<1> QED
  BY <1>3, <1>4

(* A step of the session.                                                   *)
LEMMA SessionPays ==
    ASSUME ControlTypes, CountTypes, FlagTypes, SessionInv, FailInv, Next, Session
    PROVE  FailInv'
<1>1. /\ Budget \in Nat /\ Budget' \in Nat /\ Budget' >= Budget
      /\ \A kind \in {"raises", "closes", "expiries", "rejects", "deaths"} :
            Spend(kind) => Budget' = Budget + 1
  BY BudgetFacts
<1>2. raised \in Nat /\ held \in 0 .. 4 /\ alive \in BOOLEAN /\ loggedIn \in BOOLEAN
  BY DEF CountTypes, ControlTypes, FlagTypes
<1> HIDE DEF Budget
<1> USE <1>1, <1>2
    DEF FailInv, Paid, Stuck, Owed, GivenUp, LoggedOut, WrongPage, SessionInv, InCall, SessionSteps,
        PageSteps, browser, Goto, Return, OnPage
<1>3. CASE StartPlaywright \/ StartRefused
  BY <1>3 DEF StartPlaywright, StartRefused
<1>4. CASE Acquire("launch", "context")
  BY <1>4 DEF Acquire
<1>5. CASE Acquire("context", "page") \/ Acquire("page", "login")
  BY <1>5 DEF Acquire
<1>6. CASE FirstLogin
  BY <1>6 DEF FirstLogin
<1>7. CASE SessionFails
  BY <1>7 DEF SessionFails
<1>8. CASE CloseOne
  BY <1>8 DEF CloseOne
<1>9. CASE Closed
  BY <1>9 DEF Closed
<1>10. CASE CloseRaises
  BY <1>10 DEF CloseRaises
<1> QED
  BY <1>3, <1>4, <1>5, <1>6, <1>7, <1>8, <1>9, <1>10 DEF Session

(* A step of the wizard.                                                    *)
LEMMA WizardPays ==
    ASSUME ControlTypes, CountTypes, FlagTypes, FailInv, Next, Wizard
    PROVE  FailInv'
<1>1. /\ Budget \in Nat /\ Budget' \in Nat /\ Budget' >= Budget
      /\ \A kind \in {"raises", "closes", "expiries", "rejects", "deaths"} :
            Spend(kind) => Budget' = Budget + 1
  BY BudgetFacts
<1>2. /\ raised \in Nat /\ held \in 0 .. 4 /\ alive \in BOOLEAN /\ loggedIn \in BOOLEAN
      /\ pc \in PageSteps => held = 4
  BY DEF CountTypes, ControlTypes, FlagTypes
<1> HIDE DEF Budget
<1> USE <1>1, <1>2
    DEF FailInv, Paid, Stuck, Owed, GivenUp, LoggedOut, WrongPage, PageSteps, browser, Goto, Return,
        OnPage, Lacking
<1>3. CASE GotoOrder
  BY <1>3 DEF GotoOrder
<1>4. CASE Relogin
  BY <1>4 DEF Relogin
<1>5. CASE ClickReceive \/ NoReceiveButton \/ NoReceivingUrl
  BY <1>5 DEF ClickReceive, NoReceiveButton, NoReceivingUrl
<1>6. CASE SetLabel("location", "location", "whse") \/ SetLabel("whse", "whse", "grid")
  BY <1>6 DEF SetLabel
<1>7. CASE FindRow \/ TurnPage \/ NoOpenRow \/ GridLacking \/ SetQuantity \/ NoQuantityInput
  BY <1>7 DEF FindRow, TurnPage, NoOpenRow, GridLacking, SetQuantity, NoQuantityInput
<1>8. CASE ClickNext("next", "serial") \/ ClickNext("serial", "review") \/ NoSerialInput
           \/ ClickNext("review", "finish")
  BY <1>8 DEF ClickNext, NoSerialInput
<1>9. CASE FinishAccepted \/ FinishRefused \/ CheckAlert
  BY <1>9 DEF FinishAccepted, FinishRefused, CheckAlert
<1>10. CASE StepRaises
  BY <1>10 DEF StepRaises
<1> QED
  BY <1>3, <1>4, <1>5, <1>6, <1>7, <1>8, <1>9, <1>10 DEF Wizard

LEMMA NextPays ==
    ASSUME ControlTypes, CountTypes, FlagTypes, SessionInv, FailInv, Next
    PROVE  FailInv'
<1>1. /\ Budget \in Nat /\ Budget' \in Nat /\ Budget' >= Budget
      /\ \A kind \in {"raises", "closes", "expiries", "rejects", "deaths"} :
            Spend(kind) => Budget' = Budget + 1
  BY BudgetFacts
<1>2. raised \in Nat /\ held \in 0 .. 4 /\ alive \in BOOLEAN /\ loggedIn \in BOOLEAN
  BY DEF CountTypes, ControlTypes, FlagTypes
<1>3. ASSUME ~Session, ~Wizard PROVE FailInv'
  <2> HIDE DEF Budget
  <2> USE <1>1, <1>2
      DEF FailInv, Paid, Stuck, Owed, GivenUp, LoggedOut, WrongPage, PageSteps, browser
  <2>1. ASSUME NEW it \in Items, Call(it) PROVE FailInv'
    BY <2>1 DEF Call
  <2>2. CASE EndPass
    BY <2>2 DEF EndPass
  <2>3. CASE Restart
    BY <2>3 DEF Restart
  <2>4. CASE SessionExpires
    BY <2>4 DEF SessionExpires
  <2>5. CASE BrowserDies
    BY <2>5 DEF BrowserDies
  <2>6. ASSUME NEW r \in Rows, ReceivedElsewhere(r) PROVE FailInv'
    BY <2>6 DEF ReceivedElsewhere
  <2> QED
    BY <1>3, <2>1, <2>2, <2>3, <2>4, <2>5, <2>6 DEF Next
<1> QED
  BY <1>3, SessionPays, WizardPays

(* A pass fails no more calls than there were faults to fail them, as long  *)
(* as the session is whole: an expired or a refused login and a browser     *)
(* that dies early cost one call each, wherever in the call they come.      *)
THEOREM FailuresArePaidFor == Spec => []FailuresAreExplained
<1>1. Init => FailInv
  BY DEF Init, FailInv, Paid, Stuck, Owed, GivenUp, LoggedOut, WrongPage, Budget, Kinds
<1>2. IInv /\ FailInv /\ [Next]_vars => FailInv'
  <2> SUFFICES ASSUME IInv, FailInv, [Next]_vars PROVE FailInv'
    OBVIOUS
  <2>1. ControlTypes /\ CountTypes /\ FlagTypes /\ SessionInv
    BY TypeParts DEF IInv
  <2>2. CASE UNCHANGED vars
    BY <2>2 DEF vars, browser, FailInv, Paid, Stuck, Owed, GivenUp, LoggedOut, WrongPage, Budget
  <2> QED
    BY <2>1, <2>2, NextPays
<1>3. IInv /\ FailInv => FailuresAreExplained
  <2> SUFFICES ASSUME IInv, FailInv, pc = "idle", Usable PROVE raised <= Budget
    BY DEF FailuresAreExplained, Budget
  <2>1. raised \in Nat /\ Budget \in Nat
    BY TypeParts DEF IInv, CountTypes, Budget, Kinds
  <2>2. raised + Owed <= Budget
    BY DEF FailInv, Paid, Stuck, Usable
  <2> QED
    BY <2>1, <2>2, OwedType
<1> QED
  BY <1>1, <1>2, <1>3, Invariance, PTL DEF Spec
=============================================================================
