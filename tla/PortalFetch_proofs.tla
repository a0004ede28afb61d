-------------------------- MODULE PortalFetch_proofs --------------------------
(***************************************************************************)
(* Theorems about PortalFetch, for any number of threads, orders and       *)
(* versions.  A fetch that is alone stays the only one under way, so the   *)
(* directory it has cleared holds its own export and nothing else, and     *)
(* nobody else writes rows of the order that it found without any.         *)
(***************************************************************************)
EXTENDS PortalFetch, TLAPS

(* A file that is being written is written by a browser that is open.       *)
PartsHaveWriter == \A x \in files : x.by \in Fetchers => x.by \in open

SinceIsPast == \A f \in Fetchers : since[f] <= today

(* What a fetch that is alone can rely on.                                  *)
Alone(f) ==
    /\ \A g \in Fetchers : UnderWay(g) => g = f
    /\ \A x \in files : x.by # Orphan
    /\ pc[f] # "clear" => \A x \in files : x.of >= since[f]
    /\ pc[f] = "parse" => csv[f].of >= since[f]
    /\ got[f] # None => got[f] >= since[f]
    /\ f # Refresher => \A i \in InvIds : PoOf[i] = order[f] => row[i] = None

AloneInv == \A f \in Fetchers : UnderWay(f) /\ alone[f] => Alone(f)

IInv == TypeOK /\ PartsHaveWriter /\ SinceIsPast /\ AloneInv /\ OrderIsOneExport

-----------------------------------------------------------------------------
(* Types *)

(* The steps of a fetch before it has rows keep the types.                  *)
LEMMA ScrapeTypes ==
    ASSUME TypeOK, NEW f \in Fetchers,
           Clear(f) \/ Launch(f) \/ LaunchFails(f) \/ Navigate(f) \/ Export(f)
               \/ Found(f) \/ TimesOut(f) \/ Parse(f) \/ ScrapeFails(f)
    PROVE  TypeOK'
<1> USE FetchAssumption DEF TypeOK, vars, fetch, history, Go, Steps, Kinds
<1>1. CASE Clear(f)
  <2>1. PICK kept \in SUBSET files :
            /\ files' = kept
            /\ \/ Spend("locked") /\ alone' = [alone EXCEPT ![f] = FALSE]
               \/ UNCHANGED <<faults, alone>>
    BY <1>1 DEF Clear
  <2>2. faults' \in [Kinds -> Nat]
    BY <2>1 DEF Spend
  <2>3. alone' \in [Fetchers -> BOOLEAN]
    BY <2>1
  <2>4. pc' \in [Fetchers -> Steps] /\ pc' = [pc EXCEPT ![f] = "launch"]
    BY <1>1 DEF Clear
  <2>5. open' = {g \in Fetchers : pc'[g] \in {"navigate", "export", "named", "any", "parse",
                                              "quit"}}
    BY <1>1, <2>4 DEF Clear
  <2> QED BY <1>1, <2>1, <2>2, <2>3, <2>4, <2>5 DEF Clear
<1>2. CASE Launch(f)
  BY <1>2 DEF Launch
<1>3. CASE LaunchFails(f)
  BY <1>3 DEF LaunchFails, Spend
<1>4. CASE Navigate(f)
  BY <1>4 DEF Navigate
<1>5. CASE Export(f)
  BY <1>5 DEF Export, File
<1>6. CASE Found(f)
  <2>1. PICK x \in files : x.by = Disk /\ csv' = [csv EXCEPT ![f] = x]
    BY <1>6 DEF Found, Matches
  <2>2. csv' \in [Fetchers -> File \cup {None}]
    BY <2>1
  <2>3. pc' = [pc EXCEPT ![f] = "parse"] /\ pc[f] \in {"named", "any"}
    BY <1>6 DEF Found
  <2>4. pc' \in [Fetchers -> Steps]
    BY <2>3
  <2>5. open' = {g \in Fetchers : pc'[g] \in {"navigate", "export", "named", "any", "parse",
                                              "quit"}}
    BY <1>6, <2>3 DEF Found
  <2>6. x \in File
    OBVIOUS
  <2> HIDE DEF Steps
  <2>7. \A g \in Fetchers : pc'[g] = "parse" => csv'[g] \in File /\ csv'[g].by = Disk
    BY <2>1, <2>3, <2>6
  <2>8. \A g \in Fetchers : pc'[g] = "write" => got'[g] # None
    BY <1>6, <2>3 DEF Found
  <2> QED BY <1>6, <2>2, <2>4, <2>5, <2>7, <2>8 DEF Found
<1>7. CASE TimesOut(f)
  BY <1>7 DEF TimesOut
<1>8. CASE Parse(f)
  BY <1>8 DEF Parse, File
<1>9. CASE ScrapeFails(f)
  BY <1>9 DEF ScrapeFails, Spend
<1> QED BY <1>1, <1>2, <1>3, <1>4, <1>5, <1>6, <1>7, <1>8, <1>9

(* So do the steps that end a fetch.                                        *)
LEMMA EndTypes ==
    ASSUME TypeOK, NEW f \in Fetchers,
           Quit(f) \/ QuitRaises(f) \/ Write(f) \/ WriteFails(f)
    PROVE  TypeOK'
<1> USE FetchAssumption DEF TypeOK, vars, fetch, history, Go, Steps, Kinds
<1>1. CASE Quit(f)
  BY <1>1 DEF Quit, Dropped
<1>2. CASE QuitRaises(f)
  <2>1. Abandoned({f}) \subseteq File
    BY DEF Abandoned, File
  <2>2. faults' \in [Kinds -> Nat]
    BY <1>2 DEF QuitRaises, Spend
  <2>3. pc' \in [Fetchers -> Steps] /\ pc' = [pc EXCEPT ![f] = "idle"]
    BY <1>2 DEF QuitRaises
  <2>4. open' = {g \in Fetchers : pc'[g] \in {"navigate", "export", "named", "any", "parse",
                                              "quit"}}
    BY <1>2, <2>3 DEF QuitRaises
  <2> QED BY <1>2, <2>1, <2>2, <2>3, <2>4 DEF QuitRaises
<1>3. CASE Write(f)
  BY <1>3 DEF Write, Replaced, Upserted
<1>4. CASE WriteFails(f)
  BY <1>4 DEF WriteFails, Spend
<1> QED BY <1>1, <1>2, <1>3, <1>4

(* So does everything else that happens.                                    *)
LEMMA OtherTypes ==
    ASSUME TypeOK,
           \/ \E f \in Fetchers, po \in POs \cup {None} : Begin(f, po)
           \/ PortalChanges \/ Downloaded
           \/ \E threads \in {Populators, {Refresher}} : ProcessEnds(threads)
    PROVE  TypeOK'
<1> USE FetchAssumption DEF TypeOK, vars, fetch, history, Go, Steps, Kinds
<1>1. ASSUME NEW f \in Fetchers, NEW po \in POs \cup {None}, Begin(f, po)
      PROVE  TypeOK'
  <2>1. pc' \in [Fetchers -> Steps] /\ pc' = [pc EXCEPT ![f] = "clear"] /\ pc[f] = "idle"
    BY <1>1 DEF Begin, UnderWay
  <2>2. open' = {g \in Fetchers : pc'[g] \in {"navigate", "export", "named", "any", "parse",
                                              "quit"}}
    BY <1>1, <2>1 DEF Begin
  <2>3. /\ order' \in [Fetchers -> POs \cup {None}]
        /\ csv' \in [Fetchers -> File \cup {None}]
        /\ got' \in [Fetchers -> Versions \cup {None}]
        /\ since' \in [Fetchers -> Versions]
    BY <1>1 DEF Begin
  <2>4. starts' \in 0 .. MaxStarts
    BY <1>1 DEF Begin
  <2>5. alone' \in [Fetchers -> BOOLEAN]
    <3> DEFINE first == /\ ~\E h \in Fetchers : UnderWay(h)
                        /\ ~\E x \in files : x.by = Orphan
    <3>1. first \in BOOLEAN
      OBVIOUS
    <3>2. \A g \in Fetchers : (alone[g] /\ ~UnderWay(g)) \in BOOLEAN
      OBVIOUS
    <3>3. alone' = [g \in Fetchers |-> IF g = f THEN first ELSE alone[g] /\ ~UnderWay(g)]
      BY <1>1 DEF Begin
    <3> HIDE DEF first
    <3> QED BY <3>1, <3>2, <3>3, Zenon
  <2>6. /\ \A g \in Fetchers : pc'[g] = "parse" => csv'[g] \in File /\ csv'[g].by = Disk
        /\ \A g \in Fetchers : pc'[g] = "write" => got'[g] # None
    BY <1>1, <2>1 DEF Begin
  <2> QED BY <1>1, <2>1, <2>2, <2>3, <2>4, <2>5, <2>6 DEF Begin
<1>2. CASE PortalChanges
  BY <1>2 DEF PortalChanges, Versions
<1>3. CASE Downloaded
  BY <1>3 DEF Downloaded, File
<1>4. ASSUME NEW threads \in {Populators, {Refresher}}, ProcessEnds(threads)
      PROVE  TypeOK'
  <2>1. PICK stay \in SUBSET (open \cap threads) :
            files' = Abandoned(stay) \ {x \in files : x.by \in threads}
    BY <1>4 DEF ProcessEnds
  <2>4. Abandoned(stay) \subseteq File
    BY DEF Abandoned, File
  <2>5. faults' \in [Kinds -> Nat]
    BY <1>4 DEF ProcessEnds, Spend
  <2>6. /\ pc' \in [Fetchers -> Steps]
        /\ pc' = [f \in Fetchers |-> IF f \in threads THEN "idle" ELSE pc[f]]
    BY <1>4 DEF ProcessEnds
  <2>7. open' = {g \in Fetchers : pc'[g] \in {"navigate", "export", "named", "any", "parse",
                                              "quit"}}
    BY <1>4, <2>6 DEF ProcessEnds
  <2>8. files' \subseteq File
    BY <2>1, <2>4
  <2>9. /\ \A g \in Fetchers : pc'[g] = "parse" => csv'[g] \in File /\ csv'[g].by = Disk
        /\ \A g \in Fetchers : pc'[g] = "write" => got'[g] # None
    BY <1>4, <2>6 DEF ProcessEnds
  <2> QED BY <1>4, <2>5, <2>6, <2>7, <2>8, <2>9 DEF ProcessEnds
<1> QED BY <1>1, <1>2, <1>3, <1>4

(* The cases of the next-state relation, as the lemmas take them.           *)
LEMMA NextCases ==
    ASSUME Next
    PROVE  \/ \E f \in Fetchers : Step(f)
           \/ \E f \in Fetchers, po \in POs \cup {None} :
                /\ Begin(f, po)
                /\ f # Refresher => \A i \in InvIds : PoOf[i] = po => row[i] = None
           \/ PortalChanges \/ Downloaded
           \/ \E threads \in {Populators, {Refresher}} : ProcessEnds(threads)
BY FetchAssumption DEF Next, Populate, Refresh, Fetchers

(* The types hold at the start.                                             *)
LEMMA InitTypes ==
    ASSUME Init
    PROVE  TypeOK
<1> USE FetchAssumption DEF Init
<1>1. 0 \in Versions
  BY DEF Versions
<1>2. /\ pc \in [Fetchers -> Steps]
      /\ \A f \in Fetchers : pc[f] = "idle"
  BY DEF Steps
<1>3. alone \in [Fetchers -> BOOLEAN]
  BY Zenon
<1>4. faults \in [Kinds -> Nat] /\ since \in [Fetchers -> Versions]
  BY <1>1
<1>5. /\ row \in [InvIds -> Versions \cup {None}]
      /\ order \in [Fetchers -> POs \cup {None}]
      /\ csv \in [Fetchers -> File \cup {None}] /\ got \in [Fetchers -> Versions \cup {None}]
  OBVIOUS
<1>6. open = {f \in Fetchers : pc[f] \in {"navigate", "export", "named", "any", "parse", "quit"}}
  BY <1>2
<1>7. /\ \A f \in Fetchers : pc[f] = "parse" => csv[f] \in File /\ csv[f].by = Disk
      /\ \A f \in Fetchers : pc[f] = "write" => got[f] # None
  BY <1>2
<1>8. /\ today \in Versions /\ files \subseteq File
      /\ starts \in 0 .. MaxStarts
  BY <1>1
<1>9. shared \in BOOLEAN
  OBVIOUS
<1> QED BY <1>2, <1>3, <1>4, <1>5, <1>6, <1>7, <1>8, <1>9 DEF TypeOK

(* Every step keeps them.                                                   *)
LEMMA NextTypes ==
    ASSUME TypeOK, [Next]_vars
    PROVE  TypeOK'
<1>1. CASE Next
  BY <1>1, NextCases, ScrapeTypes, EndTypes, OtherTypes DEF Step
<1>2. CASE UNCHANGED vars
  BY <1>2 DEF TypeOK, vars, fetch, history
<1> QED BY <1>1, <1>2

(* PortalFetch keeps its types, for every number of threads.                *)
THEOREM FetchTypeCorrect == Spec => []TypeOK
<1>1. Init => TypeOK
  BY InitTypes
<1>2. TypeOK /\ [Next]_vars => TypeOK'
  BY NextTypes
<1> QED BY <1>1, <1>2, PTL DEF Spec

-----------------------------------------------------------------------------
(* What a fetch that is alone relies on *)

(* What is abandoned has no other writer than before or none that quits it. *)
LEMMA AbandonedFiles ==
    ASSUME TypeOK, NEW browsers \in SUBSET Fetchers, NEW y \in Abandoned(browsers)
    PROVE  y.by = Orphan \/ (y \in files /\ y.by \notin browsers)
<1>1. PICK x \in files : y = IF x.by \in browsers THEN [x EXCEPT !.by = Orphan] ELSE x
  BY DEF Abandoned
<1>2. x \in File
  BY DEF TypeOK
<1>3. CASE x.by \in browsers
  BY <1>1, <1>2, <1>3 DEF File
<1>4. CASE x.by \notin browsers
  BY <1>1, <1>4
<1> QED BY <1>3, <1>4

(* Every step of a fetch, by what it does to the files and to itself.       *)
LEMMA StepKeepsAlone ==
    ASSUME IInv, TypeOK', NEW f \in Fetchers, Step(f)
    PROVE  PartsHaveWriter' /\ SinceIsPast' /\ AloneInv'
<1> USE FetchAssumption DEF IInv, TypeOK, PartsHaveWriter, SinceIsPast, AloneInv, Alone, UnderWay,
                            Go, history, fetch
<1>1. CASE Clear(f)
  <2>1. PICK kept \in SUBSET files :
            /\ files' = kept
            /\ IF \E x \in kept : x.by = Disk
               THEN alone' = [alone EXCEPT ![f] = FALSE] ELSE UNCHANGED alone
    BY <1>1 DEF Clear
  <2>2. alone'[f] => alone[f] /\ \A x \in files' : x.by # Disk
    BY <2>1
  <2>3. \A x \in files : x.by \in Fetchers \cup {Orphan, Disk}
    BY DEF File
  <2>4. alone'[f] => files' = {}
    BY <1>1, <2>1, <2>2, <2>3 DEF Clear
  <2>5. /\ pc' = [pc EXCEPT ![f] = "launch"] /\ pc[f] = "clear"
        /\ \A g \in Fetchers : alone'[g] => alone[g]
        /\ files' \subseteq files
        /\ UNCHANGED <<today, row, order, csv, got, open, since>>
    BY <1>1, <2>1 DEF Clear
  <2>6. PartsHaveWriter' /\ SinceIsPast'
    BY <2>5
  <2>7. ASSUME NEW g \in Fetchers, UnderWay(g)', alone'[g]
        PROVE  Alone(g)'
    BY <2>4, <2>5, <2>7
  <2> QED BY <2>6, <2>7
<1>2. CASE Launch(f)
  BY <1>2 DEF Launch
<1>3. CASE LaunchFails(f)
  BY <1>3 DEF LaunchFails
<1>4. CASE Navigate(f)
  BY <1>4 DEF Navigate
<1>5. CASE Export(f)
  BY <1>5 DEF Export, File
<1>6. CASE Found(f)
  BY <1>6 DEF Found, Matches
<1>7. CASE TimesOut(f)
  BY <1>7 DEF TimesOut
<1>8. CASE Parse(f)
  BY <1>8 DEF Parse
<1>9. CASE ScrapeFails(f)
  BY <1>9 DEF ScrapeFails
<1>10. CASE Quit(f)
  BY <1>10 DEF Quit, Dropped
<1>11. CASE QuitRaises(f)
  <2>1. /\ pc' = [pc EXCEPT ![f] = "idle"] /\ pc[f] = "quit"
        /\ open' = open \ {f} /\ files' = Abandoned({f})
        /\ UNCHANGED <<today, row, order, csv, got, since, alone>>
    BY <1>11 DEF QuitRaises
  <2>2. \A y \in files' : y.by = Orphan \/ (y \in files /\ y.by # f)
    BY <2>1, AbandonedFiles
  <2>3. PartsHaveWriter'
    BY <2>1, <2>2
  <2>4. SinceIsPast'
    BY <2>1
  <2>5. ASSUME NEW g \in Fetchers, UnderWay(g)', alone'[g]
        PROVE  FALSE
    BY <2>1, <2>5
  <2> QED BY <2>3, <2>4, <2>5
<1>12. CASE Write(f)
  <2>1. /\ pc' = [pc EXCEPT ![f] = "idle"] /\ pc[f] = "write"
        /\ UNCHANGED <<today, files, order, csv, got, open, since, alone>>
    BY <1>12 DEF Write
  <2>2. ASSUME NEW g \in Fetchers, UnderWay(g)', alone'[g]
        PROVE  FALSE
    BY <2>1, <2>2
  <2>3. PartsHaveWriter' /\ SinceIsPast'
    BY <2>1
  <2> QED BY <2>2, <2>3
<1>13. CASE WriteFails(f)
  BY <1>13 DEF WriteFails
<1> QED BY <1>1, <1>2, <1>3, <1>4, <1>5, <1>6, <1>7, <1>8, <1>9, <1>10, <1>11, <1>12, <1>13 DEF Step

(* A fetch that begins, and what happens around them.                       *)
LEMMA OtherKeepsAlone ==
    ASSUME IInv, TypeOK',
           \/ \E f \in Fetchers, po \in POs \cup {None} :
                /\ Begin(f, po)
                /\ f # Refresher => \A i \in InvIds : PoOf[i] = po => row[i] = None
           \/ PortalChanges \/ Downloaded
           \/ \E threads \in {Populators, {Refresher}} : ProcessEnds(threads)
    PROVE  PartsHaveWriter' /\ SinceIsPast' /\ AloneInv'
<1> USE FetchAssumption DEF IInv, TypeOK, PartsHaveWriter, SinceIsPast, AloneInv, Alone, UnderWay,
                            Go, history, fetch
<1>1. ASSUME NEW f \in Fetchers, NEW po \in POs \cup {None}, Begin(f, po),
             f # Refresher => \A i \in InvIds : PoOf[i] = po => row[i] = None
      PROVE  PartsHaveWriter' /\ SinceIsPast' /\ AloneInv'
  <2>1. /\ pc' = [pc EXCEPT ![f] = "clear"] /\ pc[f] = "idle"
        /\ order' = [order EXCEPT ![f] = po]
        /\ got' = [got EXCEPT ![f] = None]
        /\ since' = [since EXCEPT ![f] = today]
        /\ UNCHANGED <<today, row, files, open>>
    BY <1>1 DEF Begin
  <2>2. PartsHaveWriter' /\ SinceIsPast'
    BY <2>1 DEF Versions
  <2>3. ASSUME NEW g \in Fetchers, UnderWay(g)', alone'[g]
        PROVE  g = f /\ (\A h \in Fetchers : ~UnderWay(h)) /\ \A x \in files : x.by # Orphan
    <3>1. alone'[g] = IF g = f THEN /\ ~\E h \in Fetchers : UnderWay(h)
                                    /\ ~\E x \in files : x.by = Orphan
                      ELSE alone[g] /\ ~UnderWay(g)
      BY <1>1, Zenon DEF Begin
    <3>2. UnderWay(g)' /\ g # f => UnderWay(g)
      BY <2>1
    <3> HIDE DEF UnderWay
    <3> QED BY <2>3, <3>1, <3>2, Zenon
  <2>4. ASSUME NEW g \in Fetchers, UnderWay(g)', alone'[g]
        PROVE  Alone(g)'
    BY <1>1, <2>1, <2>3, <2>4
  <2> QED BY <2>2, <2>4
<1>2. CASE PortalChanges
  BY <1>2 DEF PortalChanges, Versions
<1>3. CASE Downloaded
  BY <1>3 DEF Downloaded, File
<1>4. ASSUME NEW threads \in {Populators, {Refresher}}, ProcessEnds(threads)
      PROVE  PartsHaveWriter' /\ SinceIsPast' /\ AloneInv'
  <2>1. PICK stay \in SUBSET (open \cap threads) :
            files' = Abandoned(stay) \ {x \in files : x.by \in threads}
    BY <1>4 DEF ProcessEnds
  <2>2. /\ pc' = [f \in Fetchers |-> IF f \in threads THEN "idle" ELSE pc[f]]
        /\ open' = open \ threads
        /\ UNCHANGED <<today, row, order, csv, got, since, alone>>
        /\ \E f \in threads : UnderWay(f)
    BY <1>4 DEF ProcessEnds
  <2>3. threads \subseteq Fetchers
    BY DEF Fetchers
  <2>4. stay \subseteq Fetchers
    BY <2>3
  <2>5. \A y \in files' : y.by = Orphan \/ (y \in files /\ y.by \notin threads)
    BY <2>1, <2>4, AbandonedFiles
  <2>6. PartsHaveWriter'
    BY <2>2, <2>5
  <2>7. SinceIsPast'
    BY <2>2
  <2>8. ASSUME NEW g \in Fetchers, UnderWay(g)', alone'[g]
        PROVE  FALSE
    BY <2>2, <2>3, <2>8
  <2> QED BY <2>6, <2>7, <2>8
<1> QED BY <1>1, <1>2, <1>3, <1>4

-----------------------------------------------------------------------------
(* The rows *)

(* One order, after a write of a fetch that was alone.                      *)
LEMMA WriteKeepsOrders ==
    ASSUME IInv, NEW f \in Fetchers, Write(f)
    PROVE  OrderIsOneExport'
<1> DEFINE Rows(po) == {i \in InvIds : PoOf[i] = po}
           From(po, v) == \A i \in Rows(po) : row'[i] = IF i \in OnOrder[v] THEN v ELSE None
<1> SUFFICES ASSUME ~shared', NEW po \in POs
             PROVE  \/ \A i \in Rows(po) : row'[i] = None
                    \/ \E v \in Versions : From(po, v)
  BY DEF OrderIsOneExport
<1>1. alone[f] /\ ~shared
  BY DEF Write
<1>2. Alone(f)
  BY <1>1 DEF IInv, AloneInv, UnderWay, Write
<1>3. got[f] \in Versions
  BY DEF IInv, TypeOK, Write
<1>4. CASE row' = row
  BY <1>1, <1>4 DEF IInv, OrderIsOneExport
<1>5. CASE f = Refresher /\ row' # row
  <2>1. row' = [i \in InvIds |-> IF i \in OnOrder[got[f]] THEN got[f] ELSE None]
    BY <1>5 DEF Write, Replaced
  <2> QED BY <1>3, <2>1
<1>6. CASE f # Refresher
  <2>1. row' = Upserted(f)
    BY <1>6 DEF Write
  <2>2. CASE po = order[f]
    <3>1. From(po, got[f])
      BY <1>2, <1>6, <2>1, <2>2 DEF Upserted, Alone
    <3> QED BY <1>3, <3>1
  <2>3. CASE po # order[f]
    <3>1. \A i \in Rows(po) : row'[i] = row[i]
      BY <2>1, <2>3 DEF Upserted
    <3> HIDE DEF Rows
    <3>2. \/ \A i \in Rows(po) : row[i] = None
          \/ \E v \in Versions : \A i \in Rows(po) : row[i] = IF i \in OnOrder[v] THEN v ELSE None
      BY <1>1 DEF IInv, OrderIsOneExport, Rows
    <3> QED BY <3>1, <3>2
  <2> QED BY <2>2, <2>3
<1> QED BY <1>4, <1>5, <1>6

(* Nothing but Write changes rows.                                          *)
LEMMA OnlyWriteWrites ==
    ASSUME Next, \A f \in Fetchers : ~Write(f)
    PROVE  UNCHANGED <<row, shared>>
<1>1. ASSUME NEW f \in Fetchers, Step(f)
      PROVE  UNCHANGED <<row, shared>>
  BY <1>1 DEF Step, Clear, Launch, LaunchFails, Navigate, Export, Found, TimesOut, Parse,
              ScrapeFails, Quit, QuitRaises, WriteFails, history
<1>2. ASSUME NEW f \in Fetchers, NEW po, Begin(f, po)
      PROVE  UNCHANGED <<row, shared>>
  BY <1>2 DEF Begin
<1>3. CASE PortalChanges \/ Downloaded
  BY <1>3 DEF PortalChanges, Downloaded, history
<1>4. ASSUME NEW threads, ProcessEnds(threads)
      PROVE  UNCHANGED <<row, shared>>
  BY <1>4 DEF ProcessEnds, history
<1> QED BY <1>1, <1>2, <1>3, <1>4, NextCases

(* At the start nothing is under way and nothing is written.                *)
LEMMA InitIInv ==
    ASSUME Init
    PROVE  IInv
<1>1. TypeOK
  BY InitTypes
<1>2. PartsHaveWriter /\ SinceIsPast /\ OrderIsOneExport
  BY DEF Init, PartsHaveWriter, SinceIsPast, OrderIsOneExport
<1>3. AloneInv
  BY DEF Init, AloneInv, UnderWay
<1> QED BY <1>1, <1>2, <1>3 DEF IInv

(* Every step keeps all of it.                                              *)
LEMMA NextIInv ==
    ASSUME IInv, [Next]_vars
    PROVE  IInv'
<1>1. TypeOK'
  BY NextTypes DEF IInv
<1>2. CASE Next
  <2>1. PartsHaveWriter' /\ SinceIsPast' /\ AloneInv'
    BY <1>1, <1>2, NextCases, StepKeepsAlone, OtherKeepsAlone
  <2>2. OrderIsOneExport'
    <3>1. CASE \E f \in Fetchers : Write(f)
      BY <3>1, WriteKeepsOrders
    <3>2. CASE \A f \in Fetchers : ~Write(f)
      BY <1>2, <3>2, OnlyWriteWrites DEF IInv, OrderIsOneExport
    <3> QED BY <3>1, <3>2
  <2> QED BY <1>1, <2>1, <2>2 DEF IInv
<1>3. CASE UNCHANGED vars
  BY <1>1, <1>3 DEF IInv, PartsHaveWriter, SinceIsPast, AloneInv, Alone, UnderWay,
                    OrderIsOneExport, vars, fetch, history
<1> QED BY <1>2, <1>3

(* So it holds always.                                                      *)
LEMMA Invariance == Spec => []IInv
<1>1. Init => IInv
  BY InitIInv
<1>2. IInv /\ [Next]_vars => IInv'
  BY NextIInv
<1> QED BY <1>1, <1>2, PTL DEF Spec

(* A fetch that met nobody brings rows that are not older than itself.      *)
THEOREM FetchIsFresh == Spec => []FreshIfAlone
<1>1. IInv => FreshIfAlone
  BY DEF IInv, TypeOK, AloneInv, Alone, UnderWay, FreshIfAlone
<1> QED BY <1>1, Invariance, PTL

(* The rows of an order come from one export, for any number of orders.     *)
THEOREM OrdersAreWhole == Spec => []OrderIsOneExport
<1>1. IInv => OrderIsOneExport
  BY DEF IInv
<1> QED BY <1>1, Invariance, PTL

(* The catalog is never emptied, whatever fails and whoever interferes.     *)
THEOREM CatalogIsNeverEmptied == Spec => NeverEmptied
<1> DEFINE Keeps == (\E i \in InvIds : row[i] # None) => \E i \in InvIds : row'[i] # None
<1>1. ASSUME TypeOK, [Next]_vars
      PROVE  [Keeps]_row
  <2>1. ASSUME NEW f \in Fetchers, Write(f)
        PROVE  Keeps
    <3>1. got[f] # None /\ got[f] \in Versions
      BY <1>1, <2>1 DEF TypeOK, Write
    <3>2. \A i \in InvIds : Upserted(f)[i] = None => row[i] = None
      BY <3>1 DEF Upserted
    <3>3. OnOrder[got[f]] \subseteq InvIds
      BY <3>1, FetchAssumption
    <3>4. Replaced(f) = row \/ \E i \in InvIds : Replaced(f)[i] # None
      BY <3>1, <3>3 DEF Replaced
    <3> QED BY <2>1, <3>2, <3>4 DEF Write
  <2>2. CASE Next /\ \A f \in Fetchers : ~Write(f)
    BY <2>2, OnlyWriteWrites
  <2>3. CASE UNCHANGED vars
    BY <2>3 DEF vars
  <2> QED BY <1>1, <2>1, <2>2, <2>3
<1> QED BY <1>1, FetchTypeCorrect, PTL DEF Spec, NeverEmptied
=============================================================================
