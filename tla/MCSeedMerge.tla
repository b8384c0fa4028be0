---------------------------- MODULE MCSeedMerge ----------------------------
(* One model under four spellings, its variants and an umbrella above it.   *)
EXTENDS SeedMerge, TLC

MCForms == {"acme/x-1.5", "acme/X-15", "Acme/x15", "acme-x", "acme/root", "acme/acme", "X 1.5"}
MCSlashed == MCForms \ {"acme-x", "X 1.5"}
MCKey == [f \in MCForms |->
  IF f \in {"acme/x-1.5", "acme/X-15", "Acme/x15"} THEN "x15" ELSE f]
MCNameOf == MCKey
MCDevName == [f \in MCForms |->
  IF f \in {"acme-x", "acme/X-15"} THEN "x" ELSE f]
MCDev == [f \in MCForms |-> IF f = "X 1.5" THEN "none" ELSE "acme"]
MCSize == [f \in MCForms |-> 0]
MCSpelling ==
  [f \in MCForms |->
     CASE f = "acme/x-1.5" -> 6 [] f = "acme-x" -> 5 [] f = "acme/X-15" -> 4
       [] f = "Acme/x15" -> 3 [] f = "acme/root" -> 2 [] OTHER -> 1]
\* By character code, capitals first.
MCLexical ==
  [f \in MCForms |->
     CASE f = "Acme/x15" -> 1 [] f = "X 1.5" -> 2 [] f = "acme-x" -> 3 [] f = "acme/X-15" -> 4
       [] f = "acme/acme" -> 5 [] f = "acme/root" -> 6 [] OTHER -> 7]

\* A field the fold backfills and one it does not.
MCFields == {"params_billions", "input_modalities"}
NoValue == [x \in MCFields |-> "none"]
Says(params, modalities) ==
  [x \in MCFields |-> IF x = "params_billions" THEN params ELSE modalities]
Blank == [file |-> 1, id |-> "acme/x-1.5", src |-> "none", deferred |-> FALSE, org |-> "none",
          name |-> "none", aliases |-> {}, status |-> "none", value |-> NoValue,
          parents |-> NoMap, weak |-> NoValue, explicit |-> {}]
Edge(p, rel) == (p :> rel)

MCRecords == {
  \* hf_oracle: the repository, with the id it replaced
  [Blank EXCEPT !.id = "acme/X-15", !.src = "hf", !.aliases = {"acme/root"},
                !.value = Says("v1", "none")],
  \* models_dev: the dotted spelling, named, a variant of the root; the root itself
  [Blank EXCEPT !.file = 2, !.src = "models_dev", !.name = "X 1.5", !.status = "draft",
                !.parents = Edge("acme/root", "variant")],
  [Blank EXCEPT !.file = 2, !.id = "acme/root", !.src = "models_dev"],
  \* models_dev: a weak contribution, and a promoted entry
  [Blank EXCEPT !.file = 2, !.id = "Acme/x15", !.deferred = TRUE, !.aliases = {"acme/x-1.5"},
                !.src = "models_dev", !.weak = Says("v2", "v2")],
  \* tier3: an inferred draft below the umbrella, without an org
  [Blank EXCEPT !.file = 3, !.id = "acme-x", !.src = "inferred", !.status = "draft",
                !.parents = Edge("acme/acme", "finetune"), !.value = Says("v3", "v3")],
  [Blank EXCEPT !.file = 3, !.id = "acme/x-1.5", !.weak = Says("v3", "none"),
                !.parents = Edge("acme/root", "variant")],
  [Blank EXCEPT !.file = 3, !.id = "acme/acme", !.src = "inferred", !.parents = Edge("acme/root", "variant")],
  \* core.yaml: a curated spelling, a field left empty on purpose
  [Blank EXCEPT !.file = 4, !.id = "Acme/x15", !.status = "reviewed", !.explicit = {"params_billions"}],
  [Blank EXCEPT !.file = 4, !.id = "acme/x-1.5", !.status = "reviewed", !.src = "hf"],
  \* enrichments
  [Blank EXCEPT !.file = 5, !.id = "acme/X-15", !.parents = Edge("acme/root", "quantized")],
  [Blank EXCEPT !.file = 5, !.id = "acme/root", !.aliases = {"X 1.5"}] }

NoCuration == [skip |-> {}, skipSource |-> {}, neverFold |-> {}, prefer |-> NoMap, merge |-> NoMap]
MCCurations == {
  NoCuration,
  [NoCuration EXCEPT !.skip = {"acme/root"}],
  [NoCuration EXCEPT !.skipSource = {"acme/x-1.5"}],
  [NoCuration EXCEPT !.prefer = ("x15" :> "acme/x-1.5")],
  [NoCuration EXCEPT !.merge = ("acme/X-15" :> "acme/root")],
  [NoCuration EXCEPT !.neverFold = {{"acme/x-1.5", "Acme/x15"}}] }
=============================================================================
