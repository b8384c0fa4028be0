---------------------------- MODULE ModelLineage ----------------------------
(***************************************************************************)
(* derive_model_lineage_fields of store/queries.py: the columns computed    *)
(* from the typed parent edges of canonical_models.  Model ids are numbers, *)
(* ordered as the code orders the strings; the map from an id's prefix to   *)
(* its developer is a parameter.  Tags and release dates are left out.      *)
(***************************************************************************)
EXTENDS Naturals, FiniteSets, FiniteSetsExt

CONSTANTS
  Models,    \* canonical model ids, positive numbers
  Orgs,      \* developer organisations
  NoOrg,     \* the null org_id
  PrefixOrg  \* developer the prefix of an id stands for, NoOrg for a bare id

ASSUME ModelsAssumption ==
  /\ IsFiniteSet(Models) /\ Models \subseteq Nat \ {0}
  /\ NoOrg \notin Orgs
  /\ PrefixOrg \in [Models -> Orgs \cup {NoOrg}]

NoModel == 0  \* the null id

\* Relationship and axis of an edge, as far as a walk tells them apart:
\* "version" is variant version or mode; "size" is variant size, tier or
\* training stage; "modality" is variant modality or domain; "finetune" is
\* finetune, merge or adapter.
Kinds == {"quantized", "version", "size", "modality", "finetune"}
GroupKinds == {"quantized", "version"}
\* Mutant of FamilyKinds: dated snapshots are kept apart.
FamilyKindsUndated == {"quantized", "size"}
FamilyKinds == {"quantized", "version", "size"}
LineageKinds == {"quantized", "finetune"}
OpennessKinds == Kinds \ {"finetune"}

Openness == {"open", "closed", "unset"}

\* A row of canonical_models.
Rows == [parents : SUBSET [id : Models, kind : Kinds],
         org : Orgs \cup {NoOrg}, open : Openness, reviewed : BOOLEAN,
         group : Models \cup {NoModel}, family : Models \cup {NoModel},
         origin : Models \cup {NoModel}, originOrg : Orgs \cup {NoOrg}]

\* Edges of a row; an edge to the row itself is dropped.
EdgesOf(rows, m) == {e \in rows[m].parents : e.id # m}

\* org_id, or the developer of the id's prefix when it was never set.
DeveloperOf(rows) ==
  [m \in DOMAIN rows |-> IF rows[m].org # NoOrg THEN rows[m].org ELSE PrefixOrg[m]]

\* A walk to groups or families stays with one known developer.
SameDeveloper(org, m, p) == p \in DOMAIN org /\ org[m] # NoOrg /\ org[p] = org[m]

\* The parent a walk goes on to: the least id among the edges it may follow,
\* none when that id has no row.
NextOf(rows, kinds, allowed) ==
  [m \in DOMAIN rows |->
     LET ids == {e.id : e \in {x \in EdgesOf(rows, m) : x.kind \in kinds /\ x.id \in allowed[m]}}
     IN IF ids = {} \/ Min(ids) \notin DOMAIN rows THEN NoModel ELSE Min(ids)]

\* _walk and _walk_group: the last model reached, or the one before a repeat.
DeepestOf(next, m) ==
  LET walk[visited \in SUBSET DOMAIN next] ==
        [at \in DOMAIN next |->
           IF next[at] \in visited \cup {NoModel} THEN at
           ELSE walk[visited \cup {next[at]}][next[at]]]
  IN walk[{m}][m]

\* _inherit_open_from_ancestors, for an m without a value: that of the first
\* ancestor that has one, where this walk ends.
InheritedOpenness(rows, next, m) ==
  LET unset == [x \in DOMAIN next |-> IF rows[x].open = "unset" THEN next[x] ELSE NoModel]
  IN rows[DeepestOf(unset, m)].open

\* The columns of all rows, given their developers.
Columns(rows, org) ==
  LET sameOrg == [m \in DOMAIN rows |-> {p \in Models : SameDeveloper(org, m, p)}]
      anyOrg == [m \in DOMAIN rows |-> Models]
      groupNext == NextOf(rows, GroupKinds, sameOrg)
      familyNext == NextOf(rows, FamilyKinds, sameOrg)
      lineageNext == NextOf(rows, LineageKinds, anyOrg)
      openNext == NextOf(rows, OpennessKinds, anyOrg)
  IN [m \in DOMAIN rows |->
       LET ancestor == DeepestOf(lineageNext, m) IN
       [rows[m] EXCEPT
          !.org = org[m],
          !.group = DeepestOf(groupNext, m),
          !.family = DeepestOf(familyNext, m),
          !.origin = IF ancestor = m THEN NoModel ELSE ancestor,
          !.originOrg = IF org[ancestor] # NoOrg THEN org[ancestor] ELSE org[m],
          !.open = IF @ # "unset" THEN @ ELSE InheritedOpenness(rows, openNext, m)]]

\* Mutant of Derived: the prefix rule runs after the walks.
DerivedPrefixLast(rows) ==
  LET walked == Columns(rows, [m \in DOMAIN rows |-> rows[m].org])
  IN [m \in DOMAIN rows |-> [walked[m] EXCEPT !.org = DeveloperOf(rows)[m]]]
\* The rows after derive_model_lineage_fields.
Derived(rows) == Columns(rows, DeveloperOf(rows))

\* Developers the prefix rule filled in; each must have a row of its own.
PrefixOrgsUsed(rows) ==
  {PrefixOrg[m] : m \in {x \in DOMAIN rows : rows[x].org = NoOrg}} \ {NoOrg}
-----------------------------------------------------------------------------
\* Every model has at most one parent it can go on to, and no chain of edges
\* returns to its start: what a curated parents graph looks like.
IsTree(rows) ==
  /\ \A m \in DOMAIN rows : \A d, e \in EdgesOf(rows, m) : d = e
  /\ LET next == NextOf(rows, Kinds, [m \in DOMAIN rows |-> Models])
     IN \A m \in DOMAIN rows : next[DeepestOf(next, m)] = NoModel
=============================================================================
