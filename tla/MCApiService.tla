---------------------------- MODULE MCApiService ----------------------------
(***************************************************************************)
(* An instance of ApiService: two raw values of one normalized form aliased *)
(* to different canonicals, one of which the HF checker may attest, and an  *)
(* unknown value whose fuzzy rewrite reaches that form.                     *)
(***************************************************************************)
EXTENDS ApiService, TLC

CONSTANTS t1, t2, dash, dot, dated, base, Base, other, hub, fresh

MCThreads == {t1, t2}
MCRaws == {dash, dot, dated}
MCBases == {base, Base, other, hub, fresh}
MCSlug == dash :> base @@ dot :> other @@ dated :> fresh
MCHfName == dash :> Base @@ dot :> hub @@ dated :> fresh
MCHitKind == dash :> "verbatim" @@ dot :> "verbatim" @@ dated :> "never"
MCNorm == dash :> 1 @@ dot :> 1 @@ dated :> 2
MCRewrites == dash :> <<>> @@ dot :> <<>> @@ dated :> <<1>>
MCAgrees == {<<1, other>>}
MCFold == base :> 1 @@ Base :> 1 @@ other :> 2 @@ hub :> 3 @@ fresh :> 4
MCSeedIds == {<<base, 0>>, <<other, 0>>}
MCSeedAliases == <<dash, Global>> :> <<base, 0>> @@ <<dot, Global>> :> <<other, 0>>
MCPatchRows == {[canonical |-> <<base, 0>>, status |-> "rejected"],
                [canonical |-> <<other, 0>>, status |-> "confirmed"]}
MCPostIds == {<<fresh, 0>>}
MCSymmetry == Permutations(MCThreads)
=============================================================================
