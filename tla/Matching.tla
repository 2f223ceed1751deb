-------------------------------- MODULE Matching --------------------------------
(***************************************************************************)
(* app/matching: how alike two items are, which of several candidates is    *)
(* the best, and what a pack holds.  A description is the sequence of its    *)
(* words as normalize_description splits them, an empty one none; how words  *)
(* are spelt and how alike two strings are letter by letter (difflib, which  *)
(* is not symmetric) are parameters.  A score counts ten-thousandths.        *)
(***************************************************************************)
EXTENDS Decimals, SequencesExt

CONSTANTS
  NULL,
  LetterScore(_, _),    \* fuzzy_ratio of two normalized descriptions, in percent
  EndsWith(_, _),       \* the letters of the first word end with those of the second,
  StartsWith(_, _)      \* or start with them

AutoMatch == 9500
ReviewRecommended == 8000
PlausibleFloor == 4500
VariantCap == 5500

Stopwords == {"the", "a", "an", "of", "and", "with", "in"}
PackWords == {"x", "ml", "l", "kg", "g", "ea", "each", "unit", "units", "case", "of", "24", "330"}

\* VARIANT_CONFLICT_GROUPS, in their order; a variant is a sequence of words.
VariantGroups ==
  <<{<<"mature">>, <<"matured">>}, {<<"mild">>}, {<<"medium">>}, {<<"extra", "mature">>},
    {<<"smooth">>}, {<<"original">>}, {<<"lite">>, <<"light">>},
    {<<"zero">>, <<"sugar", "free">>, <<"no", "sugar">>}, {<<"diet">>},
    {<<"full", "cream">>, <<"full-cream">>},
    {<<"low", "fat">>, <<"fat", "free">>, <<"fatfree">>}, {<<"spicy">>, <<"hot">>},
    {<<"unsalted">>}, {<<"salted">>}, {<<"smoked">>}, {<<"unsmoked">>}>>

Normalize(text) == SelectSeq(text, LAMBDA w : w \notin Stopwords)

IdentityTokens(text) == ToSet(Normalize(text)) \ PackWords

\* A variant of one word is a word of the text, one of several may begin and end within a
\* word: "yellow fat" mentions "low fat".
Mentions(text, v) ==
  IF Len(v) = 1 THEN v[1] \in ToSet(text)
  ELSE \E i \in 1 .. Len(text) - Len(v) + 1 :
         LET last == i + Len(v) - 1
         IN  /\ EndsWith(text[i], v[1]) /\ StartsWith(text[last], v[Len(v)])
             /\ SubSeq(text, i + 1, last - 1) = SubSeq(v, 2, Len(v) - 1)

\* find_variant_group: the first group with a variant that the text mentions.
VariantGroup(text) ==
  LET found == {k \in DOMAIN VariantGroups :
                  \E v \in VariantGroups[k] : Mentions(Normalize(text), v)}
  IN  IF found = {} THEN NULL ELSE CHOOSE k \in found : \A j \in found : k <= j

ConflictingVariant(a, b) ==
  /\ VariantGroup(a) # NULL /\ VariantGroup(b) # NULL
  /\ VariantGroup(a) # VariantGroup(b)

\* combined_description_score: 40% letters and 60% words.
DescriptionScore(a, b) ==
  LET both == Cardinality(IdentityTokens(a) \cap IdentityTokens(b))
      any  == Cardinality(IdentityTokens(a) \cup IdentityTokens(b))
      letters == IF Normalize(a) = <<>> \/ Normalize(b) = <<>> THEN 0
                 ELSE LetterScore(Normalize(a), Normalize(b))
  IN  IF IdentityTokens(a) = {} \/ IdentityTokens(b) = {}
        THEN 40 * letters
        ELSE RoundHalfEven(40 * letters * any + 6000 * both, any)

Same(a, b) == a # NULL /\ b # NULL /\ a = b

Score(s, m) == [score |-> s, method |-> m]

\* Mutant: the score of conflicting variants is not capped.
ScorePair_Uncapped(old, new) ==
  CASE Same(old.sku, new.sku) -> Score(10000, "exact_sku")
    [] OTHER -> Score(DescriptionScore(old.text, new.text), "fuzzy_description")

\* score_pair
ScorePair(old, new) ==
  LET fuzzy == DescriptionScore(old.text, new.text)
  IN  CASE Same(old.sku, new.sku) -> Score(10000, "exact_sku")
        [] ~Same(old.sku, new.sku) /\ Same(old.barcode, new.barcode) ->
             Score(10000, "exact_barcode")
        [] ~Same(old.sku, new.sku) /\ ~Same(old.barcode, new.barcode) ->
             IF <<>> \notin {old.text, new.text} /\ Normalize(old.text) = Normalize(new.text)
               THEN Score(9800, "exact_normalized_description")
               ELSE Score(IF fuzzy > VariantCap /\ ConflictingVariant(old.text, new.text)
                            THEN VariantCap ELSE fuzzy, "fuzzy_description")

ClassifyStatus(score) ==
  CASE score >= AutoMatch -> "auto_matched"
    [] score >= ReviewRecommended /\ score < AutoMatch -> "review_recommended"
    [] score < ReviewRecommended -> "manual_review_required"

\* review.py: only an automatic match counts until somebody has confirmed it.
RequiresHumanReview(status) == status \in {"review_recommended", "manual_review_required", "no_candidate"}
IsAuthoritative(status) == status = "auto_matched"

\* find_best_match: the first of the best candidates, if it is plausible at all.
BestMatch(old, candidates) ==
  LET score(k) == ScorePair(old, candidates[k]).score
      best == CHOOSE k \in DOMAIN candidates :
                \A j \in DOMAIN candidates :
                  score(j) <= score(k) /\ (score(j) = score(k) => k <= j)
  IN  IF candidates = <<>> \/ score(best) < PlausibleFloor
        THEN [match |-> NULL, score |-> 0, status |-> "no_candidate"]
        ELSE [match |-> best, score |-> score(best), status |-> ClassifyStatus(score(best))]

-----------------------------------------------------------------------------
(* pack_parser: a pack counts thousandths of its base unit.                 *)

UnitConversions ==
  [g |-> [base |-> "kg", factor |-> 1], kg |-> [base |-> "kg", factor |-> 1000],
   ml |-> [base |-> "L", factor |-> 1], l |-> [base |-> "L", factor |-> 1000],
   each |-> [base |-> "each", factor |-> 1000]]

\* parse_pack_string of "6 x 2l", "case of 24", "24 each", "10kg"; other text is
\* refused.
ParsePack(pack) ==
  CASE pack.form = "multi" -> [quantity |-> pack.quantity, size |-> pack.size, unit |-> pack.unit]
    [] pack.form \in {"case", "count"} -> [quantity |-> pack.quantity, size |-> 1, unit |-> "each"]
    [] pack.form = "single" -> [quantity |-> 1, size |-> pack.size, unit |-> pack.unit]
    [] pack.form = "other" -> NULL

BaseQuantity(parsed) ==
  IF parsed = NULL \/ parsed.unit \notin DOMAIN UnitConversions THEN NULL
  ELSE parsed.quantity * parsed.size * UnitConversions[parsed.unit].factor

\* price_per_base_unit, unrounded: the price is of so many thousandths of the base unit; NULL
\* where it is refused.
PricePerBaseUnit(price, parsed) ==
  IF BaseQuantity(parsed) \in {NULL, 0} THEN NULL
  ELSE [price |-> price, of |-> BaseQuantity(parsed)]

-----------------------------------------------------------------------------
(* Route logs                                                               *)

\* verify_exact_match_for_route_log, of what is left without case and blanks.
ExactRouteLog(logged, source) ==
  logged.registration = source.registration /\ logged.reference = source.reference

\* validate_route_log_plausibility
RouteLogViolations(km, stops, weight, payload) ==
  {v \in {"no distance", "negative distance", "negative stops", "overweight"} :
     CASE v = "no distance" -> km = 0 /\ stops > 0
       [] v = "negative distance" -> km < 0
       [] v = "negative stops" -> stops < 0
       [] v = "overweight" -> weight > payload}

CostPerDrop(cost, stops) == IF stops <= 0 THEN NULL ELSE RoundHalfEven(cost, stops)

=============================================================================
