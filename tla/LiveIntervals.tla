---------------------------- MODULE LiveIntervals -----------------------------
(***************************************************************************)
(* compiler/src/ir/register_allocator/live_intervals.rs: one interval of   *)
(* positions per virtual register.  Positions number the instructions and  *)
(* the terminators in block order.                                         *)
(***************************************************************************)
EXTENDS GcRoots

Position(f, p) == Cardinality({q \in Points(f) : Precedes(q, p)})

\* A plausible slip: forgetting what is live out of a block.
TouchedNotOut(f, before, after, r) ==
  {p \in Points(f) :
     \/ r \in ReadsAt(f, p) \cup DefinesAt(f, p)
     \/ p[2] = 1 /\ r \in before[p]
     \/ p = <<f.entry, 1>> /\ r \in Params(f)}

\* The points include_position is called at for r.
Touched(f, before, after, r) ==
  {p \in Points(f) :
     \/ r \in ReadsAt(f, p) \cup DefinesAt(f, p)
     \/ p[2] = 1 /\ r \in before[p]
     \/ IsTerminator(f, p) /\ r \in after[p]
     \/ p = <<f.entry, 1>> /\ r \in Params(f)}

Sooner(i, j) == i.start < j.start \/ (i.start = j.start /\ i.register < j.register)

\* Sorted by start, then by register.
InOrder(spans) ==
  CHOOSE s \in [1 .. Cardinality(spans) -> spans] :
    /\ \A i, j \in DOMAIN s : i < j => Sooner(s[i], s[j])
    /\ \A x \in spans : \E i \in DOMAIN s : s[i] = x

IntervalsOf(f) ==
  LET before == LiveBefore(f)
      after == LiveAfter(f)
      positions == UNION {{<<r, Position(f, p)>> : p \in Touched(f, before, after, r)} : r \in Reg}
      of(r) == {x[2] : x \in {y \in positions : y[1] = r}}
      spans == {[register |-> r, start |-> Min(of(r)), end |-> Max(of(r))] :
                  r \in {x[1] : x \in positions}}
  IN InOrder(spans)

\* A plausible slip: forgetting that the prologue calls lo_push_frame.
SurvivingCallsOnly(f) ==
  LET across == LiveAcrossCalls(f, LiveOut(f)) IN UNION {across[p] : p \in DOMAIN across}

SurvivingCalls(f) ==
  LET across == LiveAcrossCalls(f, LiveOut(f)) IN
  (UNION {across[p] : p \in DOMAIN across}) \cup (IF HasCalls(f) THEN Params(f) ELSE {})
===============================================================================
