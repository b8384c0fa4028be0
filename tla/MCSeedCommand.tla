--------------------------- MODULE MCSeedCommand ---------------------------
(***************************************************************************)
(* An instance of SeedCommand: two models of a lab and one of a community   *)
(* organisation.  The snapshots are all graphs of at most MaxEdges edges    *)
(* under fixed names, and all ownerships of a name under fixed edges.       *)
(***************************************************************************)
EXTENDS SeedCommand, TLC

CONSTANTS MaxEdges, leaf

MCPrefixOrg == 1 :> "lab" @@ 2 :> "lab" @@ 3 :> "forks"
MCLeaf == 1 :> leaf @@ 2 :> NoName @@ 3 :> leaf

Plain == [absent |-> {"org"}, parents |-> {}, org |-> NoOrg, open |-> "unset", reviewed |-> TRUE,
          display |-> NoName, names |-> {}, scoped |-> {}]

Arcs == {a \in Models \X Models : a[1] # a[2]}
\* At most one edge per pair: the YAML merge unions edges by parent id.
EdgeSets == UNION {[arcs -> Kinds] : arcs \in {a \in SUBSET Arcs : Cardinality(a) <= MaxEdges}}
ParentsIn(g, m) == {[id |-> a[2], kind |-> g[a]] : a \in {x \in DOMAIN g : x[1] = m}}

GraphSnapshots ==
  {[entries |-> [m \in Models |->
      [Plain EXCEPT !.parents = ParentsIn(g, m),
                    !.absent = IF m = 3 /\ org3 = NoOrg THEN {"org", "open"} ELSE {"open"},
                    !.org = IF m = 3 THEN org3 ELSE NoOrg,
                    !.reviewed = (m # 3),
                    !.names = IF m = 1 THEN {leaf} ELSE {}]],
    orgs |-> {"lab"}] : g \in EdgeSets, org3 \in {NoOrg, "lab"}}

Quantized == {[id |-> 1, kind |-> "quantized"]}
NameSnapshots ==
  {[entries |-> [m \in Models |->
      CASE m = 1 -> [Plain EXCEPT !.names = n1, !.open = "open", !.reviewed = r1]
        [] m = 2 -> [Plain EXCEPT !.names = n2, !.parents = Quantized, !.absent = Optional \ {"parents"}]
        [] m = 3 -> [Plain EXCEPT !.display = d3, !.scoped = s3, !.reviewed = r3]],
    orgs |-> {"lab", "forks"}] :
      n1 \in SUBSET {leaf}, n2 \in SUBSET {leaf}, d3 \in {NoName, leaf},
      s3 \in SUBSET {leaf}, r1 \in BOOLEAN, r3 \in BOOLEAN}

MCDraftEdges == {{}, {[id |-> 1, kind |-> "finetune"]}}
MCSnapshots == GraphSnapshots \cup NameSnapshots
MCNameSnapshots == NameSnapshots
=============================================================================
