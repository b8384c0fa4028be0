----------------------------- MODULE ResolveLog -----------------------------
(***************************************************************************)
(* What the resolve log promises, without buffers, locks, tasks or files:   *)
(* while the log is open an accepted entry stays pending until it is stored,*)
(* a stored entry stays stored, and an entry is given up only in favour of  *)
(* Capacity newer ones.  After the log is closed entries may be lost.       *)
(***************************************************************************)
EXTENDS Naturals, FiniteSets

CONSTANT Capacity  \* newer entries that must be pending before one is dropped

VARIABLES
  accepted,  \* number of entries accepted; entry e is the e-th one
  pending,   \* entries the log still holds
  stored,    \* entries that can be read back
  open       \* FALSE once the log is being closed

logVars == <<accepted, pending, stored, open>>

Init == accepted = 0 /\ pending = {} /\ stored = {} /\ open = TRUE

\* The entries of held that may be given up, because Capacity newer ones stay.
MayDrop(given, held) ==
  \A e \in given : Cardinality({n \in held \ given : n > e}) >= Capacity

Accept ==
  /\ open
  /\ accepted' = accepted + 1
  /\ \E given \in SUBSET pending :
       /\ MayDrop(given, pending \cup {accepted'})
       /\ pending' = (pending \cup {accepted'}) \ given
  /\ UNCHANGED <<stored, open>>

Store ==
  /\ open
  /\ \E batch \in SUBSET pending : stored' = stored \cup batch
  /\ UNCHANGED <<accepted, pending, open>>

\* The log lets go of entries it knows to be stored, or has no room for.
Forget ==
  /\ open
  /\ \E given \in SUBSET pending :
       /\ MayDrop(given \ stored, pending)
       /\ pending' = pending \ given
  /\ UNCHANGED <<accepted, stored, open>>

Close ==
  /\ open
  /\ open' = FALSE
  /\ pending' \in SUBSET pending
  /\ UNCHANGED <<accepted, stored>>

Closing ==
  /\ ~open
  /\ pending' \in SUBSET pending
  /\ stored' \in SUBSET (stored \cup pending)
  /\ UNCHANGED <<accepted, open>>

Next == Accept \/ Store \/ Forget \/ Close \/ Closing

Spec == Init /\ [][Next]_logVars
=============================================================================
