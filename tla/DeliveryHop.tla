----------------------------- MODULE DeliveryHop -----------------------------
(***************************************************************************)
(* What every hop of the pipeline promises (docs/design/architecture.md,   *)
(* section 5): what it has accepted it owes, until the next hop has it or  *)
(* the loss is on a counter.  At least once: nothing leaves custody in any *)
(* other way.  Landing is idempotent: landing again changes nothing.       *)
(***************************************************************************)
CONSTANT Items

VARIABLES owed, landed, counted
vars == <<owed, landed, counted>>

Init == owed = {} /\ landed = {} /\ counted = {}

Accept(i) ==
  /\ i \notin owed \cup landed \cup counted
  /\ owed' = owed \cup {i}
  /\ UNCHANGED <<landed, counted>>

Land(batch) ==
  /\ owed' = owed \ batch
  /\ landed' = landed \cup batch
  /\ UNCHANGED counted

Count(i) ==
  /\ owed' = owed \ {i}
  /\ counted' = counted \cup {i}
  /\ UNCHANGED landed

Next == \/ \E i \in Items : Accept(i)
        \/ \E batch \in SUBSET owed : Land(batch)
        \/ \E i \in owed : Count(i)

Spec == Init /\ [][Next]_vars

\* A hop that is alive settles what it owes.
Settled == \A i \in Items : i \in owed ~> i \notin owed
=============================================================================
