-------------------------- MODULE ModelResolution ---------------------------
(***************************************************************************)
(* From a scanned barcode to a model of the order: resolve_model_barcode   *)
(* and check_model_on_po (services/model_resolution.py), the four tiers of *)
(* resolve_scan (core/model_resolution.py), the matchers of                *)
(* core/matching.py, and the table of learned barcodes (adapters/db.py).   *)
(*                                                                         *)
(* One action is one call to the repository or one step of the resolver;   *)
(* the forward-only walk takes one character of the barcode at a time.     *)
(* Strings are sequences of characters.                                    *)
(***************************************************************************)
EXTENDS Naturals, Sequences

CONSTANTS
    Char,        \* characters
    Lower,       \* the lower case of a character
    Separators,  \* what normalize_key removes: the blank and the hyphen
    Barcodes,    \* what a scanner gives: stripped and not empty
    Models,      \* model numbers of the catalog: stripped, perhaps empty
    Typed,       \* what an operator types: stripped and not empty
    NoModel,
    MaxScans,    \* bound: scans
    MaxChanges   \* bound: changes of the order's open models

ASSUME CharAssumption ==
    /\ Lower \in [Char -> Char]
    /\ Barcodes \subseteq Seq(Char) \ {<<>>} /\ Barcodes # {}
    /\ Models \subseteq Seq(Char)
    /\ Typed \subseteq Seq(Char) \ {<<>>}
    /\ NoModel \notin Seq(Char)
    /\ MaxScans \in Nat /\ MaxChanges \in Nat

VARIABLES
    barcode_model_map, \* table: the model a barcode was confirmed to be
    open,              \* the models of the order's unclaimed rows
    pc,                \* where the resolution is
    raw_barcode, learned, po_models,  \* the arguments of resolve_scan
    untried, walked,   \* resolve_model: the models not walked yet, and those that matched
    model, matched, barcode_pos,      \* model_matches_barcode: how far the walk is
    result,            \* the verdict and its model
    scans, changes     \* what the bounds count

walk == <<untried, walked, model, matched, barcode_pos>>
call == <<raw_barcode, learned, po_models>>
vars == <<barcode_model_map, open, pc, call, walk, result, scans, changes>>

Steps    == {"idle", "lookup", "read", "exact", "walk", "char", "answered", "check"}
Verdicts == {"none", "error", "AUTO", "PROPOSE", "NEEDS_MODEL", "TYPED", "OFF_ORDER"}
Strings  == Models \cup Typed

-----------------------------------------------------------------------------
(* core/matching.py *)

lower(s) == [k \in DOMAIN s |-> Lower[s[k]]]

normalize_key(s) == SelectSeq(lower(s), LAMBDA c : c \notin Separators)

exact_model_match(a, b) ==
    /\ normalize_key(a) # <<>>
    /\ normalize_key(a) = normalize_key(b)

(* The one candidate that matches, in a set of none or one.                 *)
resolve_exact(barcode, candidates) ==
    LET hits == {c \in candidates : exact_model_match(barcode, c)}
    IN  IF \E c \in hits : hits = {c} THEN hits ELSE {}

(* The first tier of resolve_model does not ask whether the key is empty.   *)
SameKey(barcode, candidates) ==
    {c \in candidates : normalize_key(c) = normalize_key(barcode)}

(* The locals of a walk that is over.                                       *)
EndOfWalk == model' = <<>> /\ matched' = 0 /\ barcode_pos' = 0

Answer(verdict, m) ==
    /\ pc' = "answered"
    /\ result' = [verdict |-> verdict, model |-> m]

NoResult == [verdict |-> "none", model |-> NoModel]

-----------------------------------------------------------------------------
Init ==
    /\ barcode_model_map = [b \in Barcodes |-> NoModel]
    /\ open \in SUBSET Models
    /\ pc = "idle"
    /\ raw_barcode = CHOOSE b \in Barcodes : TRUE
    /\ learned = NoModel /\ po_models = {}
    /\ untried = {} /\ walked = {}
    /\ model = <<>> /\ matched = 0 /\ barcode_pos = 0
    /\ result = NoResult
    /\ scans = 0 /\ changes = 0

Scan(b) ==
    /\ pc \in {"idle", "answered"} /\ scans < MaxScans
    /\ scans' = scans + 1
    /\ pc' = "lookup"
    /\ raw_barcode' = b
    /\ learned' = NoModel /\ po_models' = {}
    /\ result' = NoResult
    /\ UNCHANGED <<barcode_model_map, open, walk, changes>>

LookupBarcodeMapping ==
    /\ pc = "lookup" /\ pc' = "read"
    /\ learned' = barcode_model_map[raw_barcode]
    /\ UNCHANGED <<barcode_model_map, open, raw_barcode, po_models, walk, result, scans, changes>>

(* unclaimed_for_po, and each of its models once.                           *)
ReadOrder ==
    /\ pc = "read" /\ pc' = "exact"
    /\ po_models' = open
    /\ UNCHANGED <<barcode_model_map, open, raw_barcode, learned, walk, result, scans, changes>>

(* Either read raises: the window goes idle.                                *)
RepositoryError ==
    /\ pc \in {"lookup", "read"} /\ pc' = "idle"
    /\ result' = [verdict |-> "error", model |-> NoModel]
    /\ UNCHANGED <<barcode_model_map, open, call, walk, scans, changes>>

(* Step 1.  The order is not asked: a model it does not have is AUTO.       *)
Learned ==
    /\ pc = "exact" /\ learned # NoModel
    /\ Answer("AUTO", learned)
    /\ UNCHANGED <<barcode_model_map, open, call, walk, scans, changes>>

(* Mutant: of several models with the barcode's key the first is taken.     *)
FirstExact ==
    /\ pc = "exact" /\ learned = NoModel
    /\ \E m \in {c \in po_models : exact_model_match(raw_barcode, c)} : Answer("AUTO", m)
    /\ UNCHANGED <<barcode_model_map, open, call, walk, scans, changes>>

(* Step 2.                                                                  *)
Exact ==
    /\ pc = "exact" /\ learned = NoModel
    /\ \E m \in resolve_exact(raw_barcode, po_models) : Answer("AUTO", m)
    /\ UNCHANGED <<barcode_model_map, open, call, walk, scans, changes>>

(* Step 3, the first tier of resolve_model again: one model is AUTO, two    *)
(* are for the operator, none go on to the walk.                            *)
ExactTier ==
    /\ pc = "exact" /\ learned = NoModel
    /\ resolve_exact(raw_barcode, po_models) = {}
    /\ LET same == SameKey(raw_barcode, po_models)
       IN  \/ /\ same = {}
              /\ pc' = "walk"
              /\ untried' = po_models /\ walked' = {}
              /\ UNCHANGED result
           \/ /\ \E m \in same : same = {m} /\ Answer("AUTO", m)
              /\ UNCHANGED <<untried, walked>>
           \/ /\ \E m, n \in same : m # n
              /\ Answer("NEEDS_MODEL", NoModel)
              /\ UNCHANGED <<untried, walked>>
    /\ UNCHANGED <<barcode_model_map, open, call, model, matched, barcode_pos, scans, changes>>

-----------------------------------------------------------------------------
(* model_matches_barcode *)

(* An empty model matches nothing; no barcode is empty.                     *)
WalkModel(m) ==
    /\ pc = "walk" /\ m \in untried
    /\ untried' = untried \ {m}
    /\ pc' = IF m = <<>> THEN "walk" ELSE "char"
    /\ model' = m /\ matched' = 0 /\ barcode_pos' = 0
    /\ UNCHANGED <<barcode_model_map, open, call, walked, result, scans, changes>>

Wanted == Lower[model[matched + 1]]
Here   == Lower[raw_barcode[barcode_pos + 1]]

(* Mutant: a character that is not wanted is looked at for ever.            *)
SkipNothing ==
    /\ pc = "char" /\ matched < Len(model)
    /\ barcode_pos < Len(raw_barcode) /\ Here # Wanted
    /\ UNCHANGED vars

(* Mutant: the position is advanced past the end of the barcode.            *)
SkipPastEnd ==
    /\ pc = "char" /\ matched < Len(model)
    /\ barcode_pos < Len(raw_barcode) /\ Here # Wanted
    /\ barcode_pos' = barcode_pos + 2
    /\ UNCHANGED <<barcode_model_map, open, pc, call, untried, walked, model, matched,
                   result, scans, changes>>

Skip ==
    /\ pc = "char" /\ matched < Len(model)
    /\ barcode_pos < Len(raw_barcode) /\ Here # Wanted
    /\ barcode_pos' = barcode_pos + 1
    /\ UNCHANGED <<barcode_model_map, open, pc, call, untried, walked, model, matched,
                   result, scans, changes>>

(* Mutant: the position that matched is not locked.                         *)
TakeWithoutLock ==
    /\ pc = "char" /\ matched < Len(model)
    /\ barcode_pos < Len(raw_barcode) /\ Here = Wanted
    /\ matched' = matched + 1
    /\ UNCHANGED <<barcode_model_map, open, pc, call, untried, walked, model, barcode_pos,
                   result, scans, changes>>

Take ==
    /\ pc = "char" /\ matched < Len(model)
    /\ barcode_pos < Len(raw_barcode) /\ Here = Wanted
    /\ matched' = matched + 1
    /\ barcode_pos' = barcode_pos + 1
    /\ UNCHANGED <<barcode_model_map, open, pc, call, untried, walked, model,
                   result, scans, changes>>

(* Mutant: the last character of the barcode is not looked at.              *)
RejectEarly ==
    /\ pc = "char" /\ pc' = "walk"
    /\ matched < Len(model) /\ barcode_pos + 1 >= Len(raw_barcode)
    /\ EndOfWalk
    /\ UNCHANGED <<barcode_model_map, open, call, untried, walked, result, scans, changes>>

(* The barcode is used up and a character is still wanted.                  *)
Reject ==
    /\ pc = "char" /\ pc' = "walk"
    /\ matched < Len(model) /\ barcode_pos >= Len(raw_barcode)
    /\ EndOfWalk
    /\ UNCHANGED <<barcode_model_map, open, call, untried, walked, result, scans, changes>>

Accept ==
    /\ pc = "char" /\ pc' = "walk"
    /\ matched = Len(model)
    /\ walked' = walked \cup {model}
    /\ EndOfWalk
    /\ UNCHANGED <<barcode_model_map, open, call, untried, result, scans, changes>>

(* One model that the walk found is proposed, none or two are not.          *)
Decide ==
    /\ pc = "walk" /\ untried = {}
    /\ IF \E m \in walked : walked = {m}
       THEN \E m \in walked : Answer("PROPOSE", m)
       ELSE Answer("NEEDS_MODEL", NoModel)
    /\ walked' = {}
    /\ UNCHANGED <<barcode_model_map, open, call, untried, model, matched, barcode_pos,
                   scans, changes>>

-----------------------------------------------------------------------------
(* NEEDS_MODEL: the operator types one.  It is saved, or saving it fails    *)
(* with a warning, and only then is the order asked.                        *)
SaveMapping(m) ==
    /\ pc = "answered" /\ result.verdict = "NEEDS_MODEL"
    /\ pc' = "check"
    /\ barcode_model_map' \in {[barcode_model_map EXCEPT ![raw_barcode] = m], barcode_model_map}
    /\ result' = [result EXCEPT !.model = m]
    /\ UNCHANGED <<open, call, walk, scans, changes>>

check_model_on_po(m) == \E c \in open : exact_model_match(m, c)

CheckModelOnPo ==
    /\ pc = "check"
    /\ Answer(IF check_model_on_po(result.model) THEN "TYPED" ELSE "OFF_ORDER", result.model)
    /\ UNCHANGED <<barcode_model_map, open, call, walk, scans, changes>>

(* Claims, a refresh, or the operator's choice of another order.            *)
ChangeOrder ==
    /\ changes < MaxChanges
    /\ changes' = changes + 1
    /\ \E m \in Models : open' \in {open \cup {m}, open \ {m}}
    /\ UNCHANGED <<barcode_model_map, pc, call, walk, result, scans>>

Resolve ==
    \/ LookupBarcodeMapping \/ ReadOrder \/ RepositoryError
    \/ Learned \/ Exact \/ ExactTier
    \/ \E m \in Models : WalkModel(m)
    \/ Skip \/ Take \/ Reject \/ Accept \/ Decide
    \/ CheckModelOnPo

Next ==
    \/ Resolve
    \/ \E b \in Barcodes : Scan(b)
    \/ \E m \in Typed : SaveMapping(m)
    \/ ChangeOrder

Spec == Init /\ [][Next]_vars

(* The resolution is a loop on a thread of its own over finite strings.     *)
FairSpec == Spec /\ WF_vars(Resolve)

-----------------------------------------------------------------------------
(* Properties *)

(* Every variable holds a value of its kind, and the walk is inside both    *)
(* strings.                                                                 *)
TypeOK ==
    /\ barcode_model_map \in [Barcodes -> Strings \cup {NoModel}]
    /\ open \subseteq Models
    /\ pc \in Steps
    /\ raw_barcode \in Barcodes
    /\ learned \in Strings \cup {NoModel}
    /\ po_models \subseteq Models
    /\ untried \subseteq Models /\ walked \subseteq Models
    /\ model \in Models \cup {<<>>}
    /\ matched \in 0 .. Len(model) /\ barcode_pos \in Nat
    /\ pc = "char" => model # <<>> /\ barcode_pos <= Len(raw_barcode)
    /\ result \in [verdict : Verdicts, model : Strings \cup {NoModel}]
    /\ scans \in Nat /\ changes \in Nat

(* What a forward-only subsequence is: positions of the barcode, one for    *)
(* each character of the model, that rise and hold the same letter.         *)
Embedding(f, m, barcode) ==
    /\ f \in [1 .. Len(m) -> 1 .. Len(barcode)]
    /\ \A k \in 1 .. Len(m) : Lower[m[k]] = Lower[barcode[f[k]]]
    /\ \A k, l \in 1 .. Len(m) : k < l => f[k] < f[l]

Embeds(m, barcode) ==
    /\ m # <<>>
    /\ \E f \in [1 .. Len(m) -> 1 .. Len(barcode)] : Embedding(f, m, barcode)

(* The greedy walk (model_matches_barcode) never has to step back: the      *)
(* models it has accepted are, of those it has tried, exactly the           *)
(* subsequences of the barcode.                                             *)
WalkIsSubsequence ==
    pc = "walk" =>
        walked = {m \in po_models \ untried : Embeds(m, raw_barcode)}

(* Never guesses (core/model_resolution.py): AUTO only for the model the    *)
(* barcode was taught or the one model of the order with its key; PROPOSE   *)
(* only for the one model that is a subsequence, when none has the key.     *)
NeverGuesses ==
    pc = "answered" =>
        /\ result.verdict = "AUTO" =>
              \/ learned # NoModel /\ result.model = learned
              \/ learned = NoModel /\ SameKey(raw_barcode, po_models) = {result.model}
        /\ result.verdict = "PROPOSE" =>
              /\ SameKey(raw_barcode, po_models) = {}
              /\ {m \in po_models : Embeds(m, raw_barcode)} = {result.model}

(* The scanner is blocked for a typed model only when the barcode leaves    *)
(* a doubt: nothing was learned, and two models have its key, or none has   *)
(* and it is not the case that a single one is a subsequence.               *)
AsksOnlyInDoubt ==
    pc = "answered" /\ result.verdict = "NEEDS_MODEL" =>
        LET same == SameKey(raw_barcode, po_models)
            subs == {m \in po_models : Embeds(m, raw_barcode)}
        IN  /\ learned = NoModel
            /\ \/ \E m, n \in same : m # n
               \/ same = {} /\ ~ \E m \in subs : subs = {m}

(* A scan that is being resolved gets its verdict, whatever the strings.    *)
ScanIsAnswered == pc = "lookup" ~> pc \in {"answered", "idle"}
=============================================================================
