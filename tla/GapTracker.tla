----------------------------- MODULE GapTracker -----------------------------
(***************************************************************************)
(* GapTracker of crates/coldbore-ingest/src/gap.rs on its own: arrivals of *)
(* any epoch and seq in any order, any number of times, and the seeding    *)
(* from the durable store that a session performs when it starts.          *)
(***************************************************************************)
EXTENDS WellGaps

CONSTANTS
  Wells,     \* (pad, well) keys
  Epochs,    \* producer generations
  Seqs,      \* sequence numbers that may arrive
  MaxCount   \* bound of the cumulative counters

ASSUME TrackerAssumption ==
  Epochs \subseteq Nat /\ Seqs \subseteq Nat \ {0} /\ MaxCount \in Nat

VARIABLES
  wells,           \* (pad, well) -> its accounting
  opened, healed,  \* cumulative counts of gap_opened and gap_healed
  seen             \* (pad, well) -> what this generation is known to have landed

vars == <<wells, opened, healed, seen>>

Init ==
  /\ wells = [k \in Wells |-> NoWell]
  /\ opened = 0 /\ healed = 0
  /\ seen = [k \in Wells |-> {}]

Seed(k, e, maxSeq) ==
  /\ wells' = [wells EXCEPT ![k] = SeedWell(@, e, maxSeq)]
  /\ seen' = [seen EXCEPT ![k] = IF Known(wells[k]) THEN @ ELSE 1 .. maxSeq]
  /\ UNCHANGED <<opened, healed>>

Observe(k, e, s) ==
  /\ opened < MaxCount /\ healed < MaxCount
  /\ wells' = [wells EXCEPT ![k] = ObserveWell(@, e, s)]
  /\ opened' = IF Opens(wells[k], e, s) THEN opened + 1 ELSE opened
  /\ healed' = IF Heals(wells[k], e, s) THEN healed + 1 ELSE healed
  /\ seen' = [seen EXCEPT ![k] =
       IF Straggler(wells[k], e) THEN @
       ELSE IF Known(wells[k]) /\ e = wells[k].epoch THEN @ \cup {s} ELSE {s}]

Next == \E k \in Wells, e \in Epochs, s \in Seqs : Seed(k, e, s) \/ Observe(k, e, s)

Spec == Init /\ [][Next]_vars
-----------------------------------------------------------------------------
\* What has not arrived below the watermark: the reference the accounting is
\* measured against.
Missing(k) == (1 .. wells[k].next - 1) \ seen[k]

TypeOK ==
  /\ wells \in [Wells -> Well]
  /\ opened \in Nat /\ healed \in Nat
  /\ seen \in [Wells -> SUBSET Nat]

\* Every reported range is really missing, and while the table has not
\* overflowed every missing frame is in a reported range: splits, shrinks and
\* heals never lose or invent a sequence number.
GapsExact ==
  \A k \in Wells :
    /\ ReportedMissing(wells[k]) \subseteq Missing(k)
    /\ wells[k].untracked = 0 => ReportedMissing(wells[k]) = Missing(k)

\* "All ranges lie strictly below next_expected" (gap.rs), and they are the
\* maximal runs of missing frames: never empty, overlapping or adjacent.
RangesMaximal ==
  \A k \in Wells : \A r \in wells[k].open :
    /\ 1 <= r.from /\ r.from <= r.to /\ r.to < wells[k].next
    /\ \A q \in wells[k].open : q # r => r.to + 1 < q.from \/ q.to + 1 < r.from

\* A gauge of zero means nothing is missing below the watermark, even after
\* the table has overflowed.
ZeroMeansComplete ==
  \A k \in Wells : OpenNow(wells[k]) = 0 => Missing(k) = {}

\* The watermark is one past the newest frame of the generation, and a well
\* without an entry has seen nothing.
WatermarkInv ==
  \A k \in Wells :
    /\ \A s \in seen[k] : 1 <= s /\ s < wells[k].next
    /\ wells[k].next > 1 => wells[k].next - 1 \in seen[k]
    /\ ~Known(wells[k]) => wells[k].open = {}

\* The inductive invariant of the accounting.
GapInv == TypeOK /\ GapsExact /\ RangesMaximal /\ WatermarkInv

\* A generation is never left for an older one, and within one generation
\* the watermark never moves back: a straggler of a dead producer, arriving
\* between two frames of its successor, changes nothing.
NeverForgets ==
  \A k \in Wells : Known(wells[k]) =>
    \/ wells[k].epoch < wells'[k].epoch
    \/ /\ wells[k].epoch = wells'[k].epoch
       /\ wells[k].next <= wells'[k].next
       /\ ReportedMissing(wells'[k]) \cap (1 .. wells[k].next - 1)
            \subseteq ReportedMissing(wells[k])
Monotone == [][NeverForgets]_vars

\* While no generation is abandoned, gap_opened and gap_healed are reported
\* exactly when they are true: one opened when the watermark passes frames that
\* have not arrived, however full the table; one healed for each range of which
\* nothing is missing any more, and none while any part of it is, through trims
\* and splits.  An arrival is of one well.
Passed(k)  == {n \in Missing(k)' : wells[k].next <= n}
Closed(k)  == {r \in wells[k].open :
                 (r.from .. r.to) \cap ReportedMissing(wells'[k]) = {}}
ReportsExact ==
  (\A k \in Wells : Known(wells[k]) => wells'[k].epoch = wells[k].epoch) =>
    \E k \in Wells :
      /\ \A j \in Wells \ {k} : wells'[j] = wells[j]
      /\ opened' = opened + (IF Passed(k) # {} THEN 1 ELSE 0)
      /\ healed' = healed + Cardinality(Closed(k))
HealsAccounted == [][ReportsExact]_vars
=============================================================================
