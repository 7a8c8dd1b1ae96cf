---------------------------- MODULE ModelPrices ----------------------------
(***************************************************************************)
(* Which reference price a model has: the choice among the entries that    *)
(* several providers have for one model in the list of models.dev.         *)
(*                                                                         *)
(* A model name is a member of Names; what the code takes from its         *)
(* spelling is given by functions on them.                                 *)
(***************************************************************************)
EXTENDS Integers, FiniteSets, Sequences, SequencesExt

CONSTANTS
  Names,      \* model names, of every spelling that differs
  Plain,      \* ModelWithoutThinkingSuffix of each
  KeyOf,      \* ReferenceModelKey of each: without namespace, in lower case
  TierOf,     \* its name without "-high" or "-low", itself if it has neither
  AutoName,   \* the name "auto", or none
  NoRates,    \* an entry without rates this plugin supports
  NoPrice     \* no price at all

ASSUME ModelPricesAssumption ==
  /\ Plain \in [Names -> Names] /\ KeyOf \in [Names -> Names] /\ TierOf \in [Names -> Names]
  /\ AutoName \in Names

----------------------------------------------------------------------------
(* Reference prices *)

Distinct(names) == FoldLeft(LAMBDA seen, n : IF n \in ToSet(seen) THEN seen ELSE Append(seen, n), <<>>, names)

\* Keys to look for: of the upstream model, of the one requested, then of their tiers.
ReferencePriceKeys(upstream, requested) ==
  LET own == Distinct(<<KeyOf[Plain[upstream]]>>
                \o (IF Plain[requested] = AutoName THEN <<>> ELSE <<KeyOf[Plain[requested]]>>))
  IN  Distinct(own \o [i \in DOMAIN own |-> TierOf[own[i]]])

\* The canonical entries if there are any, or all; they must agree on rates.
MatchKey(entries, key) ==
  LET ofKey == {e \in entries : KeyOf[e.model] = key}
      canonical == {e \in ofKey : e.canonical}
      rates == {e.rates : e \in IF canonical # {} THEN canonical ELSE ofKey}
  IN  IF Cardinality(rates) = 1 /\ NoRates \notin rates THEN CHOOSE r \in rates : TRUE ELSE NoPrice

\* The first key that has entries decides, even when they give no price.
MatchReferencePriceKeys(entries, keys) ==
  LET present == {i \in DOMAIN keys : \E e \in entries : KeyOf[e.model] = keys[i]}
  IN  IF present = {} THEN NoPrice
      ELSE MatchKey(entries, keys[CHOOSE i \in present : \A j \in present : i <= j])

\* A list is refused when it names an entry twice or prices nothing.
Acceptable(entries) ==
  /\ \E e \in entries : e.rates # NoRates
  /\ \A e, f \in entries : e.provider = f.provider /\ e.model = f.model => e = f
=============================================================================
