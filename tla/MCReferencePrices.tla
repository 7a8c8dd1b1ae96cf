------------------------- MODULE MCReferencePrices -------------------------
(* Instance of ReferencePrices for TLC. *)
EXTENDS ReferencePrices

CONSTANTS m, auto, r1, r2, x, y

NameSet == {m, auto}
Same == [n \in NameSet |-> n]

Entry(provider, rates, canonical) == [provider |-> provider, model |-> m, rates |-> rates, canonical |-> canonical]

\* Two providers that agree, one whose canonical entry has no rates, and an unusable list.
Published1 == {Entry(x, r1, FALSE), Entry(y, r1, FALSE)}
Published2 == {Entry(x, r2, FALSE), Entry(y, NoRates, TRUE)}
Unusable == {Entry(y, NoRates, TRUE)}
ListSet == {Published1, Published2, Unusable}

RequestedSet == {<<m, m>>}
=============================================================================
