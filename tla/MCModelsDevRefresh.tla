------------------------- MODULE MCModelsDevRefresh -------------------------
(* A lab's model and its family, a model served under two spellings that    *)
(* appears on the hub, one that OpenRouter spells differently, one of an HF *)
(* repository the oracle knows, and one that core.yaml suppresses.  The     *)
(* tables hold what the code's functions return for these strings.          *)
EXTENDS ModelsDevRefresh

\* per form: developer, last segment, normal form, identity, twin keys, name
Row(org, leaf, norm, sig, twin, ext, glued) ==
  [org |-> org, leaf |-> leaf, norm |-> norm, sig |-> sig, twin |-> twin, ext |-> ext, glued |-> glued]
MCTable ==
  "x-1" :> Row("none", "x-1", "x 1", "x#1", "x1", "x#1#", "x1")
  @@ "acme/x-1" :> Row("acme", "x-1", "acme x 1", "x#1", "acme/x1", "acme/x#1#", "x1")
  @@ "acme/x" :> Row("acme", "x", "acme x", "x#", "acme/x", "acme/x##", "x")
  @@ "acme/X" :> Row("acme", "X", "acme x", "x#", "acme/x", "acme/x##", "x")
  @@ "x" :> Row("none", "x", "x", "x#", "x", "x##", "x")
  @@ "X" :> Row("none", "X", "x", "x#", "x", "x##", "x")
  @@ "X 1" :> Row("none", "X 1", "x 1", "x#1", "x 1", "x#1#", "x1")
  @@ "beta/y2" :> Row("beta", "y2", "beta y2", "y2#", "beta/y2", "beta/y2##", "y2")
  @@ "y2" :> Row("none", "y2", "y2", "y2#", "y2", "y2##", "y2")
  @@ "Y2" :> Row("none", "Y2", "y2", "y2#", "y2", "y2##", "y2")
  @@ "beta/y-2" :> Row("beta", "y-2", "beta y 2", "y#2", "beta/y2", "beta/y#2#", "y2")
  @@ "y-2" :> Row("none", "y-2", "y 2", "y#2", "y2", "y#2#", "y2")
  @@ "Y 2" :> Row("none", "Y 2", "y 2", "y#2", "y 2", "y#2#", "y2")
  @@ "hostx/y2" :> Row("none", "y2", "hostx y2", "y2#", "hostxy2", "hostx/y2##", "y2")
  @@ "Beta/Y2-7B" :> Row("beta", "Y2-7B", "beta y2 7b", "y2#7b", "beta/y27b", "beta/y2#7b#", "y27b")
  @@ "Y2-7B" :> Row("none", "Y2-7B", "y2 7b", "y2#7b", "y27b", "y2#7b#", "y27b")
  @@ "beta/y-2-pro" :> Row("beta", "y-2-pro", "beta y 2 pro", "pro|y#2", "beta/y2pro", "beta/pro|y#2#", "y2pro")
  @@ "y-2-pro" :> Row("none", "y-2-pro", "y 2 pro", "pro|y#2", "y2pro", "pro|y#2#", "y2pro")
  @@ "beta/pro-y-2" :> Row("beta", "pro-y-2", "beta pro y 2", "pro|y#2", "beta/proy2", "beta/pro|y#2#", "proy2")
  @@ "pro-y-2" :> Row("none", "pro-y-2", "pro y 2", "pro|y#2", "proy2", "pro|y#2#", "proy2")
  @@ "Gamma/WX" :> Row("gamma", "WX", "gamma wx", "wx#", "gamma/wx", "gamma/wx##", "wx")
  @@ "WX" :> Row("none", "WX", "wx", "wx#", "wx", "wx##", "wx")
  @@ "gamma/w-x" :> Row("gamma", "w-x", "gamma w x", "w|x#", "gamma/wx", "gamma/w|x##", "wx")
  @@ "w-x" :> Row("none", "w-x", "w x", "w|x#", "wx", "w|x##", "wx")
  @@ "Gamma/VX" :> Row("gamma", "VX", "gamma vx", "vx#", "gamma/vx", "gamma/vx##", "vx")
  @@ "VX" :> Row("none", "VX", "vx", "vx#", "vx", "vx##", "vx")
  @@ "V X" :> Row("none", "V X", "v x", "v|x#", "v x", "v|x##", "vx")
  @@ "delta/q1" :> Row("delta", "q1", "delta q1", "q1#", "delta/q1", "delta/q1##", "q1")
  @@ "q1" :> Row("none", "q1", "q1", "q1#", "q1", "q1##", "q1")
  @@ "delta/q-1" :> Row("delta", "q-1", "delta q 1", "q#1", "delta/q1", "delta/q#1#", "q1")
  @@ "q-1" :> Row("none", "q-1", "q 1", "q#1", "q1", "q#1#", "q1")
  @@ "delta/qq" :> Row("delta", "qq", "delta qq", "qq#", "delta/qq", "delta/qq##", "qq")
  @@ "qq" :> Row("none", "qq", "qq", "qq#", "qq", "qq##", "qq")

MCForms == DOMAIN MCTable
MCOrder == <<
  "q1", "qq", "x", "X", "y2", "Y2", "q-1", "VX", "V X", "w-x", "WX", "x-1", "X 1", "y-2", "Y 2", "acme/X", "acme/x", "beta/y2", "beta/y-2",
  "acme/x-1", "delta/q1", "delta/qq", "delta/q-1", "hostx/y2", "gamma/w-x", "Gamma/VX", "Gamma/WX", "y-2-pro", "pro-y-2",
  "beta/pro-y-2", "beta/y-2-pro", "Y2-7B", "Beta/Y2-7B">>
MCBefore == [f \in MCForms |-> CHOOSE n \in DOMAIN MCOrder : MCOrder[n] = f]
MCNorm == [f \in MCForms |-> MCTable[f].norm]
MCNames == [f \in MCForms |-> {MCTable[MCTable[f].leaf].norm}]
MCSig == [f \in MCForms |-> MCTable[f].sig]
MCSigs == [f \in MCForms |-> {MCTable[f].sig}]
MCDeveloper == [f \in MCForms |-> MCTable[f].org]
MCNameOrg == [f \in MCForms |-> "none"]
MCSlashed == {"acme/x-1", "acme/x", "acme/X", "beta/y2", "beta/y-2", "hostx/y2", "Beta/Y2-7B", "beta/y-2-pro",
              "beta/pro-y-2", "Gamma/WX", "Gamma/VX", "gamma/w-x", "delta/q1", "delta/q-1", "delta/qq"}
MCCased == {"acme/X", "X", "X 1", "Y2", "Y 2", "Beta/Y2-7B", "Y2-7B", "Gamma/WX", "WX", "Gamma/VX", "VX", "V X"}
MCLastPart == [f \in MCForms |-> MCTable[f].leaf]
MCTitle == [f \in MCForms |-> IF f = "acme/x" THEN "X" ELSE f]
MCSpelled == [f \in MCForms |-> {f, MCTable[f].leaf}]
MCSlug == MCLastPart
MCOrgs == {"acme", "Acme", "beta", "Beta", "gamma", "delta", "nolab"}
MCMinted == [p \in (MCOrgs \cup {"none"}) \X MCForms |->
  LET named == {f \in MCSlashed : p[1] # "none" /\ MCTable[f].org = p[1] /\ MCTable[f].leaf = MCTable[p[2]].leaf}
  IN IF named = {} THEN MCTable[p[2]].leaf ELSE CHOOSE f \in named : TRUE]
MCLeafForms == [f \in MCForms |-> {f}]
MCLineage == [f \in MCForms |-> IF f # "x-1" THEN <<>> ELSE
  <<[id |-> "acme/x", rel |-> "none"], [id |-> "acme/x-1", rel |-> "variant"]>>]
MCOrKey == [f \in MCForms |-> IF f = "beta/pro-y-2" THEN f ELSE "none"]
MCAuthorOf == [p \in {"acme", "hostco", "openrouter", "nolab"} |->
  IF p = "acme" THEN "acme" ELSE IF p = "nolab" THEN "nolab" ELSE "none"]
MCFamilyOrg == [f \in {"xf"} |-> "acme"]
MCKeepsName == {<<"Beta/Y2-7B", "beta/y2">>}
MCTwin == [f \in MCForms |-> MCTable[f].twin]
MCTwinExt == [f \in MCForms |-> MCTable[f].ext]
MCGlued == [f \in MCForms |-> MCTable[f].glued]
MCUnbranded == [f \in MCForms |-> {MCTable[f].glued}]
MCSize == [f \in MCForms |-> IF f \in {"Beta/Y2-7B", "Y2-7B"} THEN 7 ELSE 0]
MCLower == [f \in MCForms |->
  CASE f = "acme/X" -> "acme/x" [] f = "X" -> "x" [] f = "X 1" -> "x 1" [] f = "Y2" -> "y2" [] f = "Y 2" -> "y 2" [] f = "WX" -> "wx"
    [] f = "Beta/Y2-7B" -> "beta/y2-7b" [] f = "Y2-7B" -> "y2-7b" [] f = "Gamma/WX" -> "gamma/wx" [] f = "Gamma/VX" -> "gamma/vx" [] f = "VX" -> "vx" [] f = "V X" -> "v x" [] OTHER -> f]
MCCanonOrg == [o \in MCOrgs |->
  IF o = "Acme" THEN "acme" ELSE IF o = "Beta" THEN "beta" ELSE o]

Rec(provider, raw, name, key, tokens) ==
  [provider |-> provider, raw |-> raw, name |-> name, key |-> key, tokens |-> tokens, family |-> "none",
   open |-> FALSE, claim |-> "none", value |-> 0]
Lab == [Rec("acme", "x-1", "X 1", 1, "x 1") EXCEPT !.family = "xf", !.value = 1]
Served == [Rec("hostco", "acme/x-1", "X 1", 1, "x 1") EXCEPT !.value = 2]
Old == [Rec("hostco", "beta/y2", "Y2", 2, "y2") EXCEPT !.claim = "Beta/Y2-7B", !.open = TRUE, !.value = 3]
Host == Rec("hostco", "hostx/y2", "Y2", 2, "y2")
Respelt == Rec("hostco", "beta/y-2", "Y 2", 3, "y 2")
Pro == Rec("hostco", "beta/y-2-pro", "y-2-pro", 4, "2 pro y")
Router == Rec("openrouter", "beta/pro-y-2", "pro-y-2", 5, "2 pro y")
OnHf == Rec("hostco", "gamma/w-x", "V X", 6, "w x")
Skippable == [Rec("hostco", "delta/q1", "q1", 7, "q1") EXCEPT !.value = 4]
Stray == [Rec("nolab", "qq", "qq", 8, "qq") EXCEPT !.family = "none"]

Full(id, org, name, aliases) == Entry(id, org, name, aliases)
MCOracle == {Full("Gamma/WX", "gamma", "WX", {}), Full("Gamma/VX", "gamma", "VX", {})}
MCHubStats == {Enrich("Gamma/WX", {"w-x"}, 0)}
MCTier3 == {}
MCEnrichments == {}
Owner == Full("delta/qq", "delta", "qq", {"delta/q1"})
Day(catalog, hub, core, skip) == [catalog |-> catalog, hub |-> hub, core |-> core, skip |-> skip]
MCDays == {
  Day({Lab, Served, Old, Host, Pro, OnHf, Skippable}, {}, {}, {}),
  Day({Lab, Respelt, Pro, Router, Skippable}, {}, {}, {"delta/q1"}),
  Day({Old, Respelt}, {"Beta/Y2-7B"}, {Owner}, {"delta/q1"}),
  Day({Stray}, {}, {}, {}) }
Empty == [full |-> {}, cat |-> <<>>, orgs |-> {}]
MCHeads == {
  Empty,
  [full |-> {Full("hostx/y2", "none", "Y2", {}), Full("acme/X", "Acme", "X", {}), Enrich("delta/qq", {}, 4)},
   cat |-> <<[Full("delta/q-1", "delta", "q1", {}) EXCEPT !.value = 5]>>, orgs |-> {"Beta"}] }
=============================================================================
