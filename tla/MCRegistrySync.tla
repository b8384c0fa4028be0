--------------------------- MODULE MCRegistrySync ---------------------------
(***************************************************************************)
(* An instance of RegistrySync: a draft spelling and the HF-true spelling   *)
(* of one repository, and a benchmark whose slug the seed already uses.     *)
(***************************************************************************)
EXTENDS RegistrySync, TLC

CONSTANTS lower, cased, bench, widget, Widget, math, c1, c2

MCRaws == {lower, cased, bench}
MCBases == {widget, Widget, math}
MCSlug == lower :> widget @@ cased :> widget @@ bench :> math
MCHfName == lower :> Widget @@ cased :> Widget @@ bench :> math
MCHitKind == lower :> "verbatim" @@ cased :> "verbatim" @@ bench :> "never"
MCNoHits == [r \in MCRaws |-> "never"]
MCNorm == lower :> 1 @@ cased :> 1 @@ bench :> 2
MCRewrites == [r \in MCRaws |-> <<>>]
MCFold == widget :> 1 @@ Widget :> 1 @@ math :> 2
MCRecords == {[eval |-> "e1", raws |-> <<lower, bench>>],
              [eval |-> "e2", raws |-> <<cased, bench>>]}
MCSeedIds == {<<widget, 0>>, <<math, 0>>}
MCConfigs == {c1, c2}
MCSymmetry == Permutations(MCConfigs)
MCSeedAliases == {<<lower, <<widget, 0>>>>, <<bench, <<math, 0>>>>}
=============================================================================
