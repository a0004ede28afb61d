----------------------- MODULE ModelResolution_proofs -----------------------
(***************************************************************************)
(* Theorems about ModelResolution, for every set of strings.  The walk is  *)
(* right because of what holds after each of its steps: the characters     *)
(* matched so far are a subsequence of the part of the barcode that was    *)
(* passed, and no embedding of the model can have its next character in    *)
(* that part.  normalize_key is never unfolded.                            *)
(***************************************************************************)
EXTENDS ModelResolution, TLAPS

(* The first k characters of m are a subsequence of the first j of b.       *)
Placed(f, k, j, m, b) ==
    /\ f \in [1 .. k -> 1 .. j]
    /\ \A n \in 1 .. k : Lower[m[n]] = Lower[b[f[n]]]
    /\ \A n, l \in 1 .. k : n < l => f[n] < f[l]

Reached(k, j, m, b) == \E f \in [1 .. k -> 1 .. j] : Placed(f, k, j, m, b)

(* Every embedding has its next character after position j.                 *)
Ahead(k, j, m, b) ==
    \A f \in [1 .. Len(m) -> 1 .. Len(b)] :
        Embedding(f, m, b) /\ k < Len(m) => f[k + 1] > j

WalkInv ==
    /\ pc \in {"walk", "char"} =>
          /\ learned = NoModel
          /\ SameKey(raw_barcode, po_models) = {}
          /\ untried \subseteq po_models
    /\ WalkIsSubsequence
    /\ pc = "char" =>
          /\ model \in po_models \ untried /\ model # <<>>
          /\ walked = {m \in po_models \ (untried \cup {model}) : Embeds(m, raw_barcode)}
          /\ Reached(matched, barcode_pos, model, raw_barcode)
          /\ Ahead(matched, barcode_pos, model, raw_barcode)

IInv == TypeOK /\ WalkInv /\ NeverGuesses /\ AsksOnlyInDoubt

-----------------------------------------------------------------------------
(* The walk, as facts about two strings *)

(* Before the first character nothing is placed and everything is ahead.    *)
LEMMA WalkStarts ==
    ASSUME NEW m \in Seq(Char), NEW b \in Seq(Char)
    PROVE  Reached(0, 0, m, b) /\ Ahead(0, 0, m, b)
<1>1. Reached(0, 0, m, b)
  <2>1. [n \in 1 .. 0 |-> 1] \in [1 .. 0 -> 1 .. 0]
    OBVIOUS
  <2>2. Placed([n \in 1 .. 0 |-> 1], 0, 0, m, b)
    BY <2>1 DEF Placed
  <2> QED BY <2>1, <2>2 DEF Reached
<1>2. Ahead(0, 0, m, b)
  BY DEF Ahead
<1> QED BY <1>1, <1>2

(* A wanted character that is found is placed after the others, and the     *)
(* character after it is further on in every embedding.                     *)
LEMMA TakeExtends ==
    ASSUME NEW m \in Seq(Char), NEW b \in Seq(Char), NEW k \in Nat, NEW j \in Nat,
           k < Len(m), j < Len(b), Lower[m[k + 1]] = Lower[b[j + 1]],
           Reached(k, j, m, b), Ahead(k, j, m, b)
    PROVE  Reached(k + 1, j + 1, m, b) /\ Ahead(k + 1, j + 1, m, b)
<1>1. Reached(k + 1, j + 1, m, b)
  <2>1. PICK f \in [1 .. k -> 1 .. j] : Placed(f, k, j, m, b)
    BY DEF Reached
  <2> DEFINE g == [n \in 1 .. (k + 1) |-> IF n = k + 1 THEN j + 1 ELSE f[n]]
  <2>2. \A n \in 1 .. (k + 1) : n # k + 1 => n \in 1 .. k /\ f[n] \in 1 .. j
    BY <2>1
  <2>3. g \in [1 .. (k + 1) -> 1 .. (j + 1)]
    BY <2>2
  <2>4. \A n \in 1 .. (k + 1) : Lower[m[n]] = Lower[b[g[n]]]
    BY <2>1, <2>2 DEF Placed
  <2>5. \A n, l \in 1 .. (k + 1) : n < l => g[n] < g[l]
    BY <2>1, <2>2 DEF Placed
  <2> HIDE DEF g
  <2>6. Placed(g, k + 1, j + 1, m, b)
    BY <2>3, <2>4, <2>5 DEF Placed
  <2> QED BY <2>3, <2>6 DEF Reached
<1>2. Ahead(k + 1, j + 1, m, b)
  <2> SUFFICES ASSUME NEW f \in [1 .. Len(m) -> 1 .. Len(b)],
                      Embedding(f, m, b), k + 1 < Len(m)
               PROVE  f[k + 2] > j + 1
    BY DEF Ahead
  <2>1. f[k + 1] > j
    BY DEF Ahead
  <2>2. k + 1 \in 1 .. Len(m) /\ k + 2 \in 1 .. Len(m)
    OBVIOUS
  <2>3. f[k + 1] < f[k + 2]
    BY <2>2 DEF Embedding
  <2>4. f[k + 1] \in 1 .. Len(b) /\ f[k + 2] \in 1 .. Len(b)
    BY <2>2
  <2> QED BY <2>1, <2>3, <2>4
<1> QED BY <1>1, <1>2

(* A character that is not the wanted one holds no embedding's next.        *)
LEMMA SkipLosesNothing ==
    ASSUME NEW m \in Seq(Char), NEW b \in Seq(Char), NEW k \in Nat, NEW j \in Nat,
           k < Len(m), j < Len(b), Lower[m[k + 1]] # Lower[b[j + 1]],
           Reached(k, j, m, b), Ahead(k, j, m, b)
    PROVE  Reached(k, j + 1, m, b) /\ Ahead(k, j + 1, m, b)
<1>1. Reached(k, j + 1, m, b)
  <2>1. PICK f \in [1 .. k -> 1 .. j] : Placed(f, k, j, m, b)
    BY DEF Reached
  <2>2. f \in [1 .. k -> 1 .. (j + 1)]
    OBVIOUS
  <2>3. Placed(f, k, j + 1, m, b)
    BY <2>1, <2>2 DEF Placed
  <2> QED BY <2>2, <2>3 DEF Reached
<1>2. Ahead(k, j + 1, m, b)
  <2> SUFFICES ASSUME NEW f \in [1 .. Len(m) -> 1 .. Len(b)], Embedding(f, m, b)
               PROVE  f[k + 1] > j + 1
    BY DEF Ahead
  <2>1. k + 1 \in 1 .. Len(m) /\ f[k + 1] \in Nat
    OBVIOUS
  <2>2. f[k + 1] > j
    BY DEF Ahead
  <2>3. f[k + 1] # j + 1
    BY <2>1 DEF Embedding
  <2> QED BY <2>1, <2>2, <2>3
<1> QED BY <1>1, <1>2

(* All characters placed: the model is a subsequence.                       *)
LEMMA PlacedIsEmbedded ==
    ASSUME NEW m \in Seq(Char), NEW b \in Seq(Char), NEW j \in Nat, m # <<>>,
           j <= Len(b), Reached(Len(m), j, m, b)
    PROVE  Embeds(m, b)
<1>1. PICK f \in [1 .. Len(m) -> 1 .. j] : Placed(f, Len(m), j, m, b)
  BY DEF Reached
<1>2. f \in [1 .. Len(m) -> 1 .. Len(b)]
  OBVIOUS
<1>3. Embedding(f, m, b)
  BY <1>1, <1>2 DEF Embedding, Placed
<1> QED BY <1>2, <1>3 DEF Embeds

(* The barcode used up with a character wanted: it is not.                  *)
LEMMA UsedUpIsNotEmbedded ==
    ASSUME NEW m \in Seq(Char), NEW b \in Seq(Char), NEW k \in Nat, NEW j \in Nat,
           k < Len(m), j >= Len(b), Ahead(k, j, m, b)
    PROVE  ~ Embeds(m, b)
<1> SUFFICES ASSUME NEW f \in [1 .. Len(m) -> 1 .. Len(b)], Embedding(f, m, b)
             PROVE  FALSE
  BY DEF Embeds
<1>1. f[k + 1] > j
  BY DEF Ahead
<1>2. k + 1 \in 1 .. Len(m)
  OBVIOUS
<1> QED BY <1>1, <1>2

-----------------------------------------------------------------------------
(* Types *)

(* A string of the system is a sequence of characters.                      *)
LEMMA StringFacts ==
    /\ \A m \in Models : m \in Seq(Char) /\ Len(m) \in Nat
    /\ \A b \in Barcodes : b \in Seq(Char) /\ b # <<>> /\ Len(b) \in Nat
    /\ \A m \in Typed : m \in Seq(Char)
    /\ NoModel \notin Strings
BY CharAssumption DEF Strings

(* The initial state has the types, ...                                     *)
LEMMA TypeInit == Init => TypeOK
<1> SUFFICES ASSUME Init PROVE TypeOK
  OBVIOUS
<1>1. raw_barcode \in Barcodes
  BY CharAssumption DEF Init
<1> QED BY <1>1, CharAssumption DEF Init, TypeOK, Steps, Verdicts, NoResult

(* ... and every step keeps them.                                          *)
LEMMA TypeStep == TypeOK /\ [Next]_vars => TypeOK'
<1> SUFFICES ASSUME TypeOK, [Next]_vars PROVE TypeOK'
  OBVIOUS
<1> USE StringFacts DEF TypeOK, Steps, Verdicts, walk, call
<1>1. CASE LookupBarcodeMapping
  BY <1>1 DEF LookupBarcodeMapping
<1>2. CASE ReadOrder
  BY <1>2 DEF ReadOrder
<1>3. CASE RepositoryError
  BY <1>3 DEF RepositoryError
<1>4. CASE Learned
  BY <1>4 DEF Learned, Answer
<1>5. CASE Exact
  <2>1. PICK m \in resolve_exact(raw_barcode, po_models) : Answer("AUTO", m)
    BY <1>5 DEF Exact
  <2>2. m \in Strings
    BY <2>1 DEF resolve_exact, Strings
  <2> QED BY <1>5, <2>1, <2>2 DEF Exact, Answer
<1>6. CASE ExactTier
  <2>1. SameKey(raw_barcode, po_models) \subseteq Strings
    BY DEF SameKey, Strings
  <2> QED BY <1>6, <2>1 DEF ExactTier, Answer
<1>7. ASSUME NEW m \in Models, WalkModel(m) PROVE TypeOK'
  BY <1>7 DEF WalkModel
<1>8. CASE Skip
  BY <1>8 DEF Skip
<1>9. CASE Take
  <2>1. Len(model) \in Nat
    BY <1>9 DEF Take
  <2> QED BY <1>9, <2>1 DEF Take
<1>10. CASE Reject
  BY <1>10 DEF Reject, EndOfWalk
<1>11. CASE Accept
  <2>1. model \in Models
    BY <1>11 DEF Accept
  <2> QED BY <1>11, <2>1 DEF Accept, EndOfWalk
<1>12. CASE Decide
  BY <1>12 DEF Decide, Answer, Strings
<1>13. CASE CheckModelOnPo
  BY <1>13 DEF CheckModelOnPo, Answer
<1>14. ASSUME NEW b \in Barcodes, Scan(b) PROVE TypeOK'
  BY <1>14 DEF Scan, NoResult
<1>15. ASSUME NEW m \in Typed, SaveMapping(m) PROVE TypeOK'
  BY <1>15 DEF SaveMapping, Strings
<1>16. CASE ChangeOrder
  BY <1>16 DEF ChangeOrder
<1>17. CASE UNCHANGED vars
  BY <1>17 DEF vars
<1> QED BY <1>1, <1>2, <1>3, <1>4, <1>5, <1>6, <1>7, <1>8, <1>9, <1>10, <1>11, <1>12,
           <1>13, <1>14, <1>15, <1>16, <1>17 DEF Next, Resolve

-----------------------------------------------------------------------------
(* The walk over the models of the order *)

(* At the start nothing is walked and nothing answered.                     *)
LEMMA WalkInit == Init => WalkInv /\ NeverGuesses /\ AsksOnlyInDoubt
BY DEF Init, WalkInv, WalkIsSubsequence, NeverGuesses, AsksOnlyInDoubt, NoResult

(* A step that is not part of a walk and leads to none.                     *)
LEMMA NoWalkNoClaim ==
    ASSUME pc' \notin {"walk", "char"} PROVE WalkInv'
BY DEF WalkInv, WalkIsSubsequence

(* The order can change under a walk: it has its own copy.                  *)
LEMMA WalkKept ==
    ASSUME WalkInv, UNCHANGED <<pc, call, walk>> PROVE WalkInv'
BY DEF WalkInv, WalkIsSubsequence, call, walk, SameKey, Embeds, Embedding, Reached, Placed,
       Ahead, exact_model_match

(* Every step keeps what is known of the walk.                              *)
LEMMA WalkStep == TypeOK /\ WalkInv /\ [Next]_vars => WalkInv'
<1> SUFFICES ASSUME TypeOK, WalkInv, [Next]_vars PROVE WalkInv'
  OBVIOUS
<1>0. /\ raw_barcode \in Barcodes /\ raw_barcode \in Seq(Char)
      /\ Len(raw_barcode) \in Nat
      /\ \A m \in Models : m \in Seq(Char)
  BY StringFacts DEF TypeOK
<1>1. CASE ExactTier
  <2>1. CASE SameKey(raw_barcode, po_models) = {} /\ pc' = "walk"
    <3>1. untried' = po_models /\ walked' = {} /\ UNCHANGED call /\ learned = NoModel
      BY <1>1, <2>1 DEF ExactTier, Answer
    <3>2. WalkIsSubsequence'
      BY <3>1 DEF WalkIsSubsequence, call
    <3> QED BY <2>1, <3>1, <3>2 DEF WalkInv, call, SameKey
  <2>2. CASE pc' # "walk"
    BY <1>1, <2>2, NoWalkNoClaim DEF ExactTier, Answer
  <2> QED BY <1>1, <2>1, <2>2 DEF ExactTier, Answer
<1>2. ASSUME NEW m \in Models, WalkModel(m) PROVE WalkInv'
  <2>1. /\ pc = "walk" /\ m \in untried /\ untried' = untried \ {m}
        /\ model' = m /\ matched' = 0 /\ barcode_pos' = 0
        /\ UNCHANGED <<raw_barcode, learned, po_models, walked>>
        /\ pc' = IF m = <<>> THEN "walk" ELSE "char"
    BY <1>2 DEF WalkModel, call
  <2>2. walked = {n \in po_models \ untried : Embeds(n, raw_barcode)}
    BY <2>1 DEF WalkInv, WalkIsSubsequence
  <2>3. untried \subseteq po_models /\ learned = NoModel /\ SameKey(raw_barcode, po_models) = {}
    BY <2>1 DEF WalkInv
  <2>4. SameKey(raw_barcode, po_models)' = SameKey(raw_barcode, po_models)
    BY <2>1 DEF SameKey
  <2>5. CASE m = <<>>
    <3>1. ~ Embeds(m, raw_barcode)
      BY <2>5 DEF Embeds
    <3>2. walked' = {n \in po_models' \ untried' : Embeds(n, raw_barcode')}
      BY <2>1, <2>2, <2>3, <3>1
    <3> QED BY <2>1, <2>3, <2>4, <2>5, <3>2 DEF WalkInv, WalkIsSubsequence
  <2>6. CASE m # <<>>
    <3>1. walked' = {n \in po_models' \ (untried' \cup {m}) : Embeds(n, raw_barcode')}
      BY <2>1, <2>2
    <3>2. Reached(0, 0, m, raw_barcode) /\ Ahead(0, 0, m, raw_barcode)
      BY <1>0, WalkStarts
    <3>3. Reached(matched, barcode_pos, model, raw_barcode)'
          /\ Ahead(matched, barcode_pos, model, raw_barcode)'
      BY <2>1, <3>2
    <3> QED BY <2>1, <2>3, <2>4, <2>6, <3>1, <3>3 DEF WalkInv, WalkIsSubsequence
  <2> QED BY <2>5, <2>6
<1>3. ASSUME pc = "char"
      PROVE  model \in Seq(Char) /\ Len(model) \in Nat /\ matched \in Nat /\ barcode_pos \in Nat
             /\ barcode_pos <= Len(raw_barcode)
  BY <1>0, <1>3 DEF WalkInv, TypeOK
<1>4. CASE Skip
  <2>1. Reached(matched, barcode_pos + 1, model, raw_barcode)
        /\ Ahead(matched, barcode_pos + 1, model, raw_barcode)
    BY <1>0, <1>3, <1>4, SkipLosesNothing DEF Skip, WalkInv, Wanted, Here
  <2>2. /\ pc = "char" /\ pc' = "char" /\ barcode_pos' = barcode_pos + 1
        /\ UNCHANGED <<raw_barcode, learned, po_models, untried, walked, model, matched>>
    BY <1>4 DEF Skip, call
  <2> QED BY <2>1, <2>2 DEF WalkInv, WalkIsSubsequence, SameKey
<1>5. CASE Take
  <2>1. Reached(matched + 1, barcode_pos + 1, model, raw_barcode)
        /\ Ahead(matched + 1, barcode_pos + 1, model, raw_barcode)
    BY <1>0, <1>3, <1>5, TakeExtends DEF Take, WalkInv, Wanted, Here
  <2>2. /\ pc = "char" /\ pc' = "char" /\ barcode_pos' = barcode_pos + 1 /\ matched' = matched + 1
        /\ UNCHANGED <<raw_barcode, learned, po_models, untried, walked, model>>
    BY <1>5 DEF Take, call
  <2> QED BY <2>1, <2>2 DEF WalkInv, WalkIsSubsequence, SameKey
<1>6. CASE Reject
  <2>1. ~ Embeds(model, raw_barcode)
    BY <1>0, <1>3, <1>6, UsedUpIsNotEmbedded DEF Reject, WalkInv
  <2>2. /\ pc = "char" /\ pc' = "walk"
        /\ UNCHANGED <<raw_barcode, learned, po_models, untried, walked>>
    BY <1>6 DEF Reject, call
  <2>3. walked = {n \in po_models \ untried : Embeds(n, raw_barcode)}
    BY <2>1, <2>2 DEF WalkInv
  <2> QED BY <2>2, <2>3 DEF WalkInv, WalkIsSubsequence, SameKey
<1>7. CASE Accept
  <2>1. Embeds(model, raw_barcode)
    BY <1>0, <1>3, <1>7, PlacedIsEmbedded DEF Accept, WalkInv
  <2>2. /\ pc = "char" /\ pc' = "walk" /\ walked' = walked \cup {model}
        /\ UNCHANGED <<raw_barcode, learned, po_models, untried>>
    BY <1>7 DEF Accept, call
  <2>3. walked \cup {model} = {n \in po_models \ untried : Embeds(n, raw_barcode)}
    BY <2>1, <2>2 DEF WalkInv
  <2> QED BY <2>2, <2>3 DEF WalkInv, WalkIsSubsequence, SameKey
<1>8. CASE ChangeOrder \/ UNCHANGED vars
  BY <1>8, WalkKept DEF ChangeOrder, vars
<1>9. CASE LookupBarcodeMapping \/ ReadOrder \/ RepositoryError \/ Learned \/ Exact \/ Decide
           \/ CheckModelOnPo
  BY <1>9, NoWalkNoClaim DEF LookupBarcodeMapping, ReadOrder, RepositoryError, Learned, Exact,
     Decide, CheckModelOnPo, Answer
<1>10. ASSUME NEW b \in Barcodes, Scan(b) PROVE WalkInv'
  BY <1>10, NoWalkNoClaim DEF Scan
<1>11. ASSUME NEW m \in Typed, SaveMapping(m) PROVE WalkInv'
  BY <1>11, NoWalkNoClaim DEF SaveMapping
<1> QED BY <1>1, <1>2, <1>4, <1>5, <1>6, <1>7, <1>8, <1>9, <1>10, <1>11 DEF Next, Resolve

-----------------------------------------------------------------------------
(* The verdict *)

(* The one exact match is the one model with the barcode's key.             *)
LEMMA ExactIsSameKey ==
    ASSUME NEW b, NEW S, NEW m \in resolve_exact(b, S)
    PROVE  SameKey(b, S) = {m}
BY DEF resolve_exact, exact_model_match, SameKey

(* A verdict that is given keeps its promise as long as it stands.          *)
LEMMA VerdictKept ==
    ASSUME NeverGuesses, AsksOnlyInDoubt, UNCHANGED <<pc, result, call>>
    PROVE  NeverGuesses' /\ AsksOnlyInDoubt'
<1>1. pc' = pc /\ result' = result /\ learned' = learned
      /\ raw_barcode' = raw_barcode /\ po_models' = po_models
  BY DEF call
<1>2. SameKey(raw_barcode, po_models)' = SameKey(raw_barcode, po_models)
  BY <1>1
<1>3. {m \in po_models : Embeds(m, raw_barcode)}' = {m \in po_models : Embeds(m, raw_barcode)}
  BY <1>1
<1>4. NeverGuesses'
  BY <1>1, <1>2, <1>3 DEF NeverGuesses
<1>5. AsksOnlyInDoubt'
  BY <1>1, <1>2, <1>3 DEF AsksOnlyInDoubt
<1> QED BY <1>4, <1>5

(* A state without a verdict promises nothing.                              *)
LEMMA NoVerdictNoClaim ==
    ASSUME pc' # "answered" PROVE NeverGuesses' /\ AsksOnlyInDoubt'
BY DEF NeverGuesses, AsksOnlyInDoubt

(* Every step keeps what the verdict promises.                              *)
LEMMA VerdictStep ==
    TypeOK /\ WalkInv /\ NeverGuesses /\ AsksOnlyInDoubt /\ [Next]_vars
        => NeverGuesses' /\ AsksOnlyInDoubt'
<1> SUFFICES ASSUME TypeOK, WalkInv, NeverGuesses, AsksOnlyInDoubt, [Next]_vars
             PROVE  NeverGuesses' /\ AsksOnlyInDoubt'
  OBVIOUS
<1>1. CASE Learned
  BY <1>1 DEF Learned, Answer, NeverGuesses, AsksOnlyInDoubt, call
<1>2. CASE Exact
  <2>1. PICK m \in resolve_exact(raw_barcode, po_models) : Answer("AUTO", m)
    BY <1>2 DEF Exact
  <2>2. SameKey(raw_barcode, po_models) = {m}
    BY <2>1, ExactIsSameKey
  <2>3. SameKey(raw_barcode, po_models)' = {result.model}' /\ learned' = NoModel
    BY <1>2, <2>1, <2>2 DEF Exact, Answer, call, SameKey
  <2> QED BY <2>1, <2>3 DEF Answer, NeverGuesses, AsksOnlyInDoubt
<1>3. CASE ExactTier
  <2> DEFINE same == SameKey(raw_barcode, po_models)
  <2>1. learned' = NoModel /\ SameKey(raw_barcode, po_models)' = same
    BY <1>3 DEF ExactTier, call, SameKey
  <2>2. CASE pc' = "walk"
    BY <2>2, NoVerdictNoClaim
  <2>3. ASSUME NEW m \in same, same = {m}, Answer("AUTO", m)
        PROVE  NeverGuesses' /\ AsksOnlyInDoubt'
    BY <2>1, <2>3 DEF Answer, NeverGuesses, AsksOnlyInDoubt
  <2>4. ASSUME \E m, n \in same : m # n, Answer("NEEDS_MODEL", NoModel)
        PROVE  NeverGuesses' /\ AsksOnlyInDoubt'
    BY <2>1, <2>4 DEF Answer, NeverGuesses, AsksOnlyInDoubt
  <2> QED BY <1>3, <2>2, <2>3, <2>4 DEF ExactTier
<1>4. CASE Decide
  <2> DEFINE subs == {m \in po_models : Embeds(m, raw_barcode)}
  <2>1. /\ pc = "walk" /\ untried = {} /\ UNCHANGED <<raw_barcode, learned, po_models>>
    BY <1>4 DEF Decide, call
  <2>2. walked = subs /\ learned' = NoModel /\ SameKey(raw_barcode, po_models)' = {}
    BY <2>1 DEF WalkInv, WalkIsSubsequence, SameKey
  <2>3. {m \in po_models : Embeds(m, raw_barcode)}' = subs
    BY <2>1
  <2>4. CASE \E m \in walked : walked = {m}
    <3>1. PICK m \in walked : Answer("PROPOSE", m)
      BY <1>4, <2>4 DEF Decide
    <3>2. subs = {m}
      BY <2>2, <2>4, <3>1
    <3> QED BY <2>2, <2>3, <3>1, <3>2 DEF Answer, NeverGuesses, AsksOnlyInDoubt
  <2>5. CASE ~ \E m \in walked : walked = {m}
    <3>1. Answer("NEEDS_MODEL", NoModel)
      BY <1>4, <2>5 DEF Decide
    <3> QED BY <2>2, <2>3, <2>5, <3>1 DEF Answer, NeverGuesses, AsksOnlyInDoubt
  <2> QED BY <2>4, <2>5
<1>5. CASE CheckModelOnPo
  BY <1>5 DEF CheckModelOnPo, Answer, NeverGuesses, AsksOnlyInDoubt
<1>6. CASE ChangeOrder \/ UNCHANGED vars
  BY <1>6, VerdictKept DEF ChangeOrder, vars
<1>7. CASE \/ LookupBarcodeMapping \/ ReadOrder \/ RepositoryError
           \/ Skip \/ Take \/ Reject \/ Accept
           \/ \E m \in Models : WalkModel(m)
           \/ \E b \in Barcodes : Scan(b)
           \/ \E m \in Typed : SaveMapping(m)
  BY <1>7, NoVerdictNoClaim DEF LookupBarcodeMapping, ReadOrder, RepositoryError, WalkModel,
     Skip, Take, Reject, Accept, Scan, SaveMapping
<1> QED BY <1>1, <1>2, <1>3, <1>4, <1>5, <1>6, <1>7 DEF Next, Resolve

-----------------------------------------------------------------------------
(* Theorems *)

(* The inductive invariant.                                                 *)
LEMMA Invariance == Spec => []IInv
<1>1. Init => IInv
  BY TypeInit, WalkInit DEF IInv
<1>2. IInv /\ [Next]_vars => IInv'
  BY TypeStep, WalkStep, VerdictStep DEF IInv
<1> QED BY <1>1, <1>2, PTL DEF Spec

(* The resolver's state stays of its kind, and the walk inside the strings. *)
THEOREM ResolutionTypeCorrect == Spec => []TypeOK
<1>1. IInv => TypeOK
  BY DEF IInv
<1> QED BY <1>1, Invariance, PTL

(* model_matches_barcode, for all strings: the greedy walk accepts a model  *)
(* of the order exactly when it is a subsequence of the barcode.            *)
THEOREM GreedyWalkIsComplete == Spec => []WalkIsSubsequence
<1>1. IInv => WalkIsSubsequence
  BY DEF IInv, WalkInv
<1> QED BY <1>1, Invariance, PTL

(* resolve_scan never guesses, whatever the order's models are and however  *)
(* they change while it runs.                                               *)
THEOREM ResolverNeverGuesses == Spec => []NeverGuesses
<1>1. IInv => NeverGuesses
  BY DEF IInv
<1> QED BY <1>1, Invariance, PTL

(* The operator is asked for a model only when the barcode leaves a doubt.  *)
THEOREM ResolverAsksOnlyInDoubt == Spec => []AsksOnlyInDoubt
<1>1. IInv => AsksOnlyInDoubt
  BY DEF IInv
<1> QED BY <1>1, Invariance, PTL
=============================================================================
