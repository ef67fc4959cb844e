------------------------------ MODULE WellGaps ------------------------------
(***************************************************************************)
(* The accounting of one (pad, well), crates/coldbore-ingest/src/gap.rs: a *)
(* watermark, the open ranges below it, and a count of gaps that found the *)
(* range table full.  Operators on the record of a well; the modules that  *)
(* keep wells in their state extend this one.                              *)
(*                                                                         *)
(* A range is [from, to]; the table is a BTreeMap keyed by `from'.         *)
(***************************************************************************)
EXTENDS Integers, FiniteSets

CONSTANT MaxOpen  \* MAX_OPEN_PER_WELL (1024)

ASSUME MaxOpenAssumption == MaxOpen \in Nat \ {0}

GapRange == [from : Nat, to : Nat]
Well == [epoch : Nat, next : Nat, open : SUBSET GapRange, untracked : Nat]

Span(a, b) == [from |-> a, to |-> b]

NewWell(e, n) == [epoch |-> e, next |-> n, open |-> {}, untracked |-> 0]

\* No entry in the map yet: an entry always expects seq 1 or more.
NoWell == NewWell(0, 0)
Known(w) == w.next # 0

SeedWell(w, e, maxSeq) == IF Known(w) THEN w ELSE NewWell(e, maxSeq + 1)

\* The entry an arrival is accounted in: created on demand, and restarted by
\* a newer producer generation.
Generation(w, e) == IF ~Known(w) \/ e > w.epoch THEN NewWell(e, 1) ELSE w

Straggler(w, e) == Known(w) /\ e < w.epoch

ContainingBelow(open, s) ==  \* mutant: looks below s only
  {r \in open : /\ r.from < s /\ s <= r.to
                /\ \A q \in open : q.from < s => q.from <= r.from}

\* The entry with the greatest start at or below s, if it reaches s.
Containing(open, s) ==
  {r \in open : /\ r.from <= s /\ s <= r.to
                /\ \A q \in open : q.from <= s => q.from <= r.from}

OpenGapOffByOne(w, s) ==  \* mutant: the range swallows the arrival
  [w EXCEPT !.open = @ \cup {Span(w.next, s)}, !.next = s + 1]

OpenGapForgets(w, s) ==   \* mutant: a full table counts nothing
  IF Cardinality(w.open) < MaxOpen
  THEN [w EXCEPT !.open = @ \cup {Span(w.next, s - 1)}, !.next = s + 1]
  ELSE [w EXCEPT !.next = s + 1]

OpenGap(w, s) ==
  IF Cardinality(w.open) < MaxOpen
  THEN [w EXCEPT !.open = @ \cup {Span(w.next, s - 1)}, !.next = s + 1]
  ELSE [w EXCEPT !.untracked = @ + 1, !.next = s + 1]

FillGapDropsTail(w, s) ==  \* mutant: the part above s is forgotten
  LET hit == Containing(w.open, s)
  IN [w EXCEPT !.open = (@ \ hit)
        \cup {Span(r.from, s - 1) : r \in {q \in hit : q.from < s}}]

FillGapKeepsHead(w, s) ==  \* mutant: the part below s keeps its old end
  LET hit == Containing(w.open, s)
  IN [w EXCEPT !.open = (@ \ hit)
        \cup {Span(r.from, s) : r \in {q \in hit : q.from < s}}
        \cup {Span(s + 1, r.to) : r \in {q \in hit : s < q.to}}]

\* A late arrival splits or shrinks the range that holds it, or is a
\* duplicate and changes nothing.
FillGap(w, s) ==
  LET hit == Containing(w.open, s)
  IN [w EXCEPT !.open = (@ \ hit)
        \cup {Span(r.from, s - 1) : r \in {q \in hit : q.from < s}}
        \cup {Span(s + 1, r.to) : r \in {q \in hit : s < q.to}}]

Account(w, s) ==
  IF s = w.next THEN [w EXCEPT !.next = s + 1]
  ELSE IF s > w.next THEN OpenGap(w, s) ELSE FillGap(w, s)

ObserveWellAnyEpoch(w, e, s) == Account(Generation(w, e), s)  \* mutant
ObserveWellLatest(w, e, s) ==  \* mutant: any other epoch starts afresh
  Account(IF e = w.epoch THEN Generation(w, e) ELSE NewWell(e, 1), s)

ObserveWell(w, e, s) ==
  IF Straggler(w, e) THEN w ELSE Account(Generation(w, e), s)

\* The change an arrival reports: gap_opened, gap_healed or none.
Opens(w, e, s) == ~Straggler(w, e) /\ s > Generation(w, e).next
HealsAtTheEnd(w, e, s) ==  \* mutant: does not look where the range starts
  ~Straggler(w, e) /\ s < Generation(w, e).next
  /\ \E r \in Containing(Generation(w, e).open, s) : r.to = s
Heals(w, e, s) == ~Straggler(w, e) /\ s < Generation(w, e).next
                  /\ Span(s, s) \in Containing(Generation(w, e).open, s)

-----------------------------------------------------------------------------
\* What the accounting says is missing, and what the gap gauge shows.
ReportedMissing(w) == UNION {r.from .. r.to : r \in w.open}
OpenNow(w) == Cardinality(w.open) + w.untracked
=============================================================================
