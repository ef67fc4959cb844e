-------------------------- MODULE GapTracker_proofs --------------------------
(***************************************************************************)
(* The gap accounting is exact for any table size, any wells, epochs and   *)
(* sequence numbers, and any order of arrivals.                            *)
(***************************************************************************)
EXTENDS GapTracker, Lemmas

-----------------------------------------------------------------------------
\* GapInv, one well at a time.
PerWell ==
  /\ wells \in [Wells -> Well] /\ seen \in [Wells -> SUBSET Nat]
  /\ opened \in Nat /\ healed \in Nat
  /\ \A k \in Wells :
       /\ WellInv(wells[k], seen[k])
       /\ ~Known(wells[k]) => wells[k].open = {} /\ wells[k].untracked = 0

LEMMA PerWellIsGapInv == PerWell => GapInv
<1> SUFFICES ASSUME PerWell PROVE GapInv
  OBVIOUS
<1>1. TypeOK
  BY DEF PerWell, TypeOK
<1>2. \A k \in Wells : /\ wells[k] \in Well /\ seen[k] \subseteq Nat
                      /\ WellInv(wells[k], seen[k])
  BY DEF PerWell, WellInv
<1>3. RangesMaximal
  BY <1>2 DEF RangesMaximal, WellInv, Shaped
<1>4. WatermarkInv
  BY DEF PerWell, WatermarkInv, WellInv, Watermarked
<1>5. ASSUME NEW k \in Wells
      PROVE  /\ ReportedMissing(wells[k]) \subseteq Missing(k)
             /\ wells[k].untracked = 0 => ReportedMissing(wells[k]) = Missing(k)
  <2>1. \A r \in wells[k].open : /\ r.from \in Nat /\ r.to \in Nat /\ 1 <= r.from
                                 /\ r.to < wells[k].next
    BY <1>2 DEF WellInv, Shaped, Well, GapRange
  <2>2. wells[k].next \in Nat
    BY <1>2 DEF Well
  <2>3. ASSUME NEW n \in ReportedMissing(wells[k]) PROVE n \in Missing(k)
    <3>1. PICK r \in wells[k].open : n \in r.from .. r.to
      BY DEF ReportedMissing
    <3>2. n \notin seen[k]
      BY <1>2, <2>1, <3>1 DEF WellInv, Sound
    <3> QED BY <2>1, <2>2, <3>1, <3>2 DEF Missing
  <2>4. ASSUME wells[k].untracked = 0, NEW n \in Missing(k)
        PROVE  n \in ReportedMissing(wells[k])
    <3>1. n \in Nat /\ 1 <= n /\ n < wells[k].next /\ n \notin seen[k]
      BY <2>2 DEF Missing
    <3>2. PICK r \in wells[k].open : r.from <= n /\ n <= r.to
      BY <1>2, <2>4, <3>1 DEF WellInv, Complete
    <3>3. n \in r.from .. r.to
      BY <2>1, <3>1, <3>2
    <3> QED BY <3>3 DEF ReportedMissing
  <2> QED BY <2>3, <2>4
<1> QED BY <1>1, <1>3, <1>4, <1>5 DEF GapInv, GapsExact

LEMMA InitPerWell == Init => PerWell
BY DEF Init, PerWell, NoWell, NewWell, WellInv, Well, GapRange, Shaped, Sound,
       Complete, Watermarked, Known

\* One step of one well.
LEMMA StepPerWell ==
  ASSUME PerWell, NEW k \in Wells, NEW w, NEW S, WellInv(w, S), Known(w),
         wells' = [wells EXCEPT ![k] = w], seen' = [seen EXCEPT ![k] = S],
         opened' \in Nat, healed' \in Nat
  PROVE  PerWell'
<1>1. w \in Well /\ S \in SUBSET Nat
  BY DEF WellInv
<1>2. wells' \in [Wells -> Well] /\ seen' \in [Wells -> SUBSET Nat]
  BY <1>1 DEF PerWell
<1>3. ASSUME NEW j \in Wells
      PROVE  WellInv(wells'[j], seen'[j]) /\ (~Known(wells'[j]) => wells'[j].open = {} /\ wells'[j].untracked = 0)
  <2>1. CASE j = k
    <3>1. wells'[j] = w /\ seen'[j] = S
      BY <2>1 DEF PerWell
    <3> QED BY <3>1
  <2>2. CASE j # k
    <3>1. wells'[j] = wells[j] /\ seen'[j] = seen[j]
      BY <2>2 DEF PerWell
    <3> QED BY <3>1 DEF PerWell
  <2> QED BY <2>1, <2>2
<1> QED BY <1>2, <1>3 DEF PerWell

LEMMA NextPerWell == PerWell /\ [Next]_vars => PerWell'
<1> SUFFICES ASSUME PerWell, [Next]_vars PROVE PerWell'
  OBVIOUS
<1> USE TrackerAssumption
<1>1. ASSUME NEW k \in Wells, NEW e \in Epochs, NEW s \in Seqs, Seed(k, e, s)
      PROVE  PerWell'
  <2>1. WellInv(wells[k], seen[k]) /\ e \in Nat /\ s \in Nat
    BY DEF PerWell
  <2>2. CASE Known(wells[k])
    <3>1. wells' = [wells EXCEPT ![k] = wells[k]] /\ seen' = [seen EXCEPT ![k] = seen[k]]
      BY <1>1, <2>2 DEF Seed, SeedWell, PerWell
    <3> QED BY <1>1, <2>1, <2>2, <3>1, StepPerWell DEF Seed, PerWell
  <2>3. CASE ~Known(wells[k])
    <3>1. /\ wells' = [wells EXCEPT ![k] = NewWell(e, s + 1)]
          /\ seen' = [seen EXCEPT ![k] = 1 .. s]
      BY <1>1, <2>3 DEF Seed, SeedWell, PerWell
    <3>2. WellInv(NewWell(e, s + 1), 1 .. s)
      BY <2>1, SeededWell
    <3>3. Known(NewWell(e, s + 1))
      BY <2>1 DEF Known, NewWell
    <3>4. opened' \in Nat /\ healed' \in Nat
      BY <1>1 DEF Seed, PerWell
    <3> QED BY <3>1, <3>2, <3>3, <3>4, StepPerWell
  <2> QED BY <2>2, <2>3
<1>2. ASSUME NEW k \in Wells, NEW e \in Epochs, NEW s \in Seqs, Observe(k, e, s)
      PROVE  PerWell'
  <2>1. WellInv(wells[k], seen[k]) /\ wells[k] \in Well /\ e \in Nat /\ s \in Nat \ {0}
    BY DEF PerWell
  <2> DEFINE w == ObserveWell(wells[k], e, s)
             S == seen'[k]
  <2>2. opened' \in Nat /\ healed' \in Nat
    BY <1>2 DEF Observe, PerWell
  <2>3. wells' = [wells EXCEPT ![k] = w] /\ seen' = [seen EXCEPT ![k] = S]
    BY <1>2 DEF Observe, PerWell
  <2>4. Known(w)
    BY <2>1, ObserveKnown
  <2>5. WellInv(w, S)
    <3>1. CASE Straggler(wells[k], e)
      <4>1. w = wells[k] /\ S = seen[k]
        BY <1>2, <3>1 DEF Observe, ObserveWell, PerWell
      <4> QED BY <2>1, <4>1
    <3>2. CASE ~Straggler(wells[k], e) /\ Known(wells[k]) /\ e = wells[k].epoch
      <4>1. S = seen[k] \cup {s}
        BY <1>2, <3>2 DEF Observe, PerWell
      <4>2. WellInv(ObserveWell(wells[k], e, s), seen[k] \cup {s})
        BY <2>1, <3>2, ObserveKeeps
      <4> QED BY <4>1, <4>2
    <3>3. CASE ~Straggler(wells[k], e) /\ ~(Known(wells[k]) /\ e = wells[k].epoch)
      <4>1. S = {s}
        BY <1>2, <3>3 DEF Observe, PerWell
      <4>2. WellInv(ObserveWell(wells[k], e, s), {s})
        BY <2>1, <3>3, ObserveKeeps
      <4> QED BY <4>1, <4>2
    <3> QED BY <3>1, <3>2, <3>3
  <2> HIDE DEF w, S
  <2> QED BY <2>2, <2>3, <2>4, <2>5, StepPerWell
<1>3. CASE UNCHANGED vars
  BY <1>3 DEF vars, PerWell
<1> QED BY <1>1, <1>2, <1>3 DEF Next

\* The accounting is exact: after any arrivals of any generations in any
\* order, late, duplicated or out of sequence, the open ranges are the
\* maximal runs of missing frames, for every bound of the table.
THEOREM GapSafe == Spec => []GapInv
<1>1. Spec => []PerWell
  BY InitPerWell, NextPerWell, PTL DEF Spec
<1> QED BY <1>1, PerWellIsGapInv, PTL

\* Every reported range is missing, and while the table has not overflowed
\* everything missing is reported.
THEOREM AccountingExact == Spec => []GapsExact
<1>1. GapInv => GapsExact
  BY DEF GapInv
<1> QED BY <1>1, GapSafe, PTL

\* No two reported ranges touch, and all lie below the watermark.
THEOREM RangesStayMaximal == Spec => []RangesMaximal
<1>1. GapInv => RangesMaximal
  BY DEF GapInv
<1> QED BY <1>1, GapSafe, PTL

LEMMA NextKept == PerWell /\ [Next]_vars => NeverForgets
<1> SUFFICES ASSUME PerWell, [Next]_vars PROVE NeverForgets
  OBVIOUS
<1> USE TrackerAssumption
<1>1. \A k \in Wells : wells[k] \in Well /\ WellInv(wells[k], seen[k])
  BY DEF PerWell
<1>2. SUFFICES ASSUME NEW j \in Wells PROVE Kept(wells[j], wells'[j])
  BY DEF NeverForgets, Kept
<1>3. CASE wells'[j] = wells[j]
  BY <1>1, <1>3, SameKept
<1>4. CASE ~Known(wells[j])
  BY <1>4 DEF Kept
<1>5. ASSUME NEW k \in Wells, NEW e \in Epochs, NEW s \in Seqs, Seed(k, e, s),
             Known(wells[j])
      PROVE  wells'[j] = wells[j]
  BY <1>5 DEF Seed, SeedWell, PerWell
<1>6. ASSUME NEW k \in Wells, NEW e \in Epochs, NEW s \in Seqs, Observe(k, e, s),
             Known(wells[j])
      PROVE  Kept(wells[j], wells'[j])
  <2>1. CASE k = j
    <3>1. wells'[j] = ObserveWell(wells[j], e, s)
      BY <1>6, <2>1 DEF Observe, PerWell
    <3>2. e \in Nat /\ s \in Nat \ {0}
      OBVIOUS
    <3> QED BY <1>1, <1>6, <3>1, <3>2, ObserveKept
  <2>2. CASE k # j
    <3>1. wells'[j] = wells[j]
      BY <1>6, <2>2 DEF Observe, PerWell
    <3> QED BY <1>3, <3>1
  <2> QED BY <2>1, <2>2
<1>7. CASE UNCHANGED vars
  BY <1>3, <1>7 DEF vars
<1> QED BY <1>3, <1>4, <1>5, <1>6, <1>7 DEF Next

\* No arrival, a straggler of an older generation included, moves a well back
\* or reports a number again that is no longer missing.
THEOREM NeverMovesBack == Spec => Monotone
<1>1. Spec => []PerWell
  BY InitPerWell, NextPerWell, PTL DEF Spec
<1>2. PerWell /\ [Next]_vars => [NeverForgets]_vars
  BY NextKept
<1> QED BY <1>1, <1>2, PTL DEF Spec, Monotone

\* A gauge of zero is believed: nothing is missing below the watermark.
THEOREM ZeroIsComplete == Spec => []ZeroMeansComplete
<1>1. PerWell => ZeroMeansComplete
  <2> SUFFICES ASSUME PerWell, NEW k \in Wells, OpenNow(wells[k]) = 0
               PROVE  Missing(k) = {}
    BY DEF ZeroMeansComplete
  <2>1. wells[k] \in Well /\ WellInv(wells[k], seen[k])
    BY DEF PerWell
  <2>2. IsFiniteSet(wells[k].open)
    BY <2>1, OpenFinite
  <2>3. Cardinality(wells[k].open) \in Nat /\ wells[k].untracked \in Nat
    BY <2>1, <2>2, FS_CardinalityType DEF Well
  <2>4. Cardinality(wells[k].open) = 0 /\ wells[k].untracked = 0
    BY <2>3 DEF OpenNow
  <2>5. wells[k].open = {}
    BY <2>2, <2>4, FS_EmptySet
  <2>6. ReportedMissing(wells[k]) = Missing(k)
    BY <2>4, PerWellIsGapInv DEF GapInv, GapsExact
  <2> QED BY <2>5, <2>6 DEF ReportedMissing
<1>2. Spec => []PerWell
  BY InitPerWell, NextPerWell, PTL DEF Spec
<1> QED BY <1>1, <1>2, PTL

\* Each step is about one well, and reports what becomes true of it.
LEMMA NextReports == PerWell /\ [Next]_vars => [ReportsExact]_vars
<1> SUFFICES ASSUME PerWell, Next,
                    \A k \in Wells : Known(wells[k]) => wells'[k].epoch = wells[k].epoch
             PROVE  \E k \in Wells :
                      /\ \A j \in Wells \ {k} : wells'[j] = wells[j]
                      /\ opened' = opened + (IF Passed(k) # {} THEN 1 ELSE 0)
                      /\ healed' = healed + Cardinality(Closed(k))
  BY DEF ReportsExact
<1> USE TrackerAssumption
<1>1. \A k \in Wells : Closed(k) = ClosedBy(wells[k], wells'[k])
  BY DEF Closed, ClosedBy
<1>2. Cardinality({}) = 0 /\ \A x : Cardinality({x}) = 1
  BY FS_EmptySet, FS_Singleton
<1>3. opened \in Nat /\ healed \in Nat
  BY DEF PerWell
<1>4. ASSUME NEW k \in Wells, NEW e \in Epochs, NEW s \in Seqs, Seed(k, e, s)
      PROVE  /\ \A j \in Wells \ {k} : wells'[j] = wells[j]
             /\ Passed(k) = {} /\ Closed(k) = {} /\ opened' = opened /\ healed' = healed
  <2>1. /\ \A j \in Wells \ {k} : wells'[j] = wells[j]
        /\ wells'[k] = SeedWell(wells[k], e, s) /\ opened' = opened /\ healed' = healed
        /\ seen'[k] = IF Known(wells[k]) THEN seen[k] ELSE 1 .. s
    BY <1>4 DEF Seed, PerWell
  <2>2. /\ WellInv(wells[k], seen[k]) /\ wells[k].next \in Nat
        /\ ~Known(wells[k]) => wells[k].open = {}
    BY DEF PerWell, WellInv, Well
  <2>3. Closed(k) = {}
    <3>1. wells[k].open \subseteq wells'[k].open
      BY <2>1, <2>2 DEF SeedWell
    <3> QED BY <1>1, <2>2, <3>1, KeptOpen
  <2>4. Passed(k) = {}
    <3>1. CASE Known(wells[k])
      <4>1. wells'[k] = wells[k]
        BY <2>1, <3>1 DEF SeedWell
      <4> QED BY <2>2, <4>1 DEF Passed, Missing
    <3>2. CASE ~Known(wells[k])
      <4>1. wells'[k].next = s + 1 /\ seen'[k] = 1 .. s
        BY <2>1, <3>2 DEF SeedWell, NewWell
      <4> QED BY <4>1 DEF Passed, Missing
    <3> QED BY <3>1, <3>2
  <2> QED BY <2>1, <2>3, <2>4
<1>5. ASSUME NEW k \in Wells, NEW e \in Epochs, NEW s \in Seqs, Observe(k, e, s)
      PROVE  /\ \A j \in Wells \ {k} : wells'[j] = wells[j]
             /\ opened' = opened + (IF Passed(k) # {} THEN 1 ELSE 0)
             /\ healed' = healed + Cardinality(Closed(k))
  <2>1. /\ \A j \in Wells \ {k} : wells'[j] = wells[j]
        /\ wells'[k] = ObserveWell(wells[k], e, s)
        /\ opened' = IF Opens(wells[k], e, s) THEN opened + 1 ELSE opened
        /\ healed' = IF Heals(wells[k], e, s) THEN healed + 1 ELSE healed
        /\ seen'[k] = IF Straggler(wells[k], e) THEN seen[k]
                      ELSE IF Known(wells[k]) /\ e = wells[k].epoch
                           THEN seen[k] \cup {s} ELSE {s}
    BY <1>5 DEF Observe, PerWell
  <2>2. /\ WellInv(wells[k], seen[k]) /\ wells[k] \in Well /\ wells[k].epoch \in Nat
        /\ e \in Nat /\ s \in Nat \ {0}
        /\ ~Known(wells[k]) => wells[k].open = {}
    BY DEF PerWell, WellInv, Well
  <2>3. Known(wells[k]) => ObserveWell(wells[k], e, s).epoch = wells[k].epoch
    BY <2>1
  <2>4. healed' = healed + Cardinality(Closed(k))
    <3>1. Closed(k) = IF Heals(wells[k], e, s) THEN {Span(s, s)} ELSE {}
      BY <1>1, <2>1, <2>2, <2>3, ObserveCloses
    <3>2. CASE Heals(wells[k], e, s)
      <4>1. Cardinality(Closed(k)) = 1
        BY <1>2, <3>1, <3>2
      <4> QED BY <2>1, <3>2, <4>1
    <3>3. CASE ~Heals(wells[k], e, s)
      <4>1. Cardinality(Closed(k)) = 0
        BY <1>2, <3>1, <3>3
      <4> QED BY <1>3, <2>1, <3>3, <4>1
    <3> QED BY <3>2, <3>3
  <2>5. opened' = opened + (IF Passed(k) # {} THEN 1 ELSE 0)
    <3>1. seen'[k] = IF Straggler(wells[k], e) THEN seen[k]
                     ELSE IF Known(wells[k]) THEN seen[k] \cup {s} ELSE {s}
      <4>1. Known(wells[k]) /\ ~Straggler(wells[k], e) => e = wells[k].epoch
        <5>1. Known(wells[k]) => ObserveWell(wells[k], e, s).epoch
                                   = IF e > wells[k].epoch THEN e ELSE wells[k].epoch
          BY <2>2, ObserveEpoch
        <5> QED BY <2>2, <2>3, <5>1 DEF Straggler
      <4> QED BY <2>1, <4>1
    <3>2. Opens(wells[k], e, s) <=>
            \E n \in (1 .. ObserveWell(wells[k], e, s).next - 1) \ seen'[k] : wells[k].next <= n
      BY <2>2, <2>3, <3>1, ObserveOpens
    <3>3. Opens(wells[k], e, s) <=> Passed(k) # {}
      BY <2>1, <3>2 DEF Passed, Missing
    <3> QED BY <1>3, <2>1, <3>3
  <2> QED BY <2>1, <2>4, <2>5
<1>6. ASSUME NEW k \in Wells, NEW e \in Epochs, NEW s \in Seqs, Seed(k, e, s)
      PROVE  /\ \A j \in Wells \ {k} : wells'[j] = wells[j]
             /\ opened' = opened + (IF Passed(k) # {} THEN 1 ELSE 0)
             /\ healed' = healed + Cardinality(Closed(k))
  <2>1. /\ \A j \in Wells \ {k} : wells'[j] = wells[j]
        /\ Passed(k) = {} /\ Closed(k) = {} /\ opened' = opened /\ healed' = healed
    BY <1>4, <1>6
  <2>2. opened' = opened + (IF Passed(k) # {} THEN 1 ELSE 0)
    BY <1>3, <2>1
  <2>3. healed' = healed + Cardinality(Closed(k))
    BY <1>2, <1>3, <2>1
  <2> QED BY <2>1, <2>2, <2>3
<1> QED BY <1>5, <1>6 DEF Next

\* gap_opened and gap_healed are exact, for every bound of the table: no gap
\* opens or closes unreported, and no heal is reported while a frame of the
\* range is missing.
THEOREM HealsAreAccounted == Spec => HealsAccounted
<1>1. Spec => []PerWell
  BY InitPerWell, NextPerWell, PTL DEF Spec
<1> QED BY <1>1, NextReports, PTL DEF Spec, HealsAccounted
=============================================================================
