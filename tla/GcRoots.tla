------------------------------- MODULE GcRoots --------------------------------
(***************************************************************************)
(* compiler/src/ir/gc_roots.rs: around every call, each Ref still needed   *)
(* afterwards is stored to its root slot before and reloaded after, and    *)
(* every other slot is set to null.                                        *)
(***************************************************************************)
EXTENDS LivenessWalks, SequencesExt

LiveOut(f) ==
  LET after == LiveAfter(f) IN [b \in DOMAIN f.blocks |-> after[<<b, LastIndex(f, b)>>]]

\* A plausible slip: saving what is live at the end of the block.
RefsLiveAcrossCallsAtEnd(f) ==
  LET out == LiveOut(f)
  IN [p \in CallPoints(f) |-> (out[p[1]] \ DefinesAt(f, p)) \cap RefRegs]

RefsLiveAcrossCalls(f) ==
  LET across == LiveAcrossCalls(f, LiveOut(f))
  IN [p \in DOMAIN across |-> across[p] \cap RefRegs]

Precedes(p, q) == p[1] < q[1] \/ (p[1] = q[1] /\ p[2] < q[2])

\* A slot for each such register, in order of the first call that needs it and
\* then of register number.
SlotOf(saved) ==
  LET rooted == UNION {saved[p] : p \in DOMAIN saved}
      first == [r \in rooted |-> CHOOSE p \in DOMAIN saved :
                  r \in saved[p] /\ \A q \in DOMAIN saved : r \in saved[q] => ~Precedes(q, p)]
      earlier(r, s) == Precedes(first[r], first[s]) \/ (first[r] = first[s] /\ r < s)
  IN [r \in rooted |-> Cardinality({s \in rooted : earlier(s, r)})]

RootStore(slot, reads, line) ==
  [op |-> "root_store", reads |-> reads, dst |-> NoReg, slot |-> slot, line |-> line]

RootLoad(slot, r, line) ==
  [op |-> "root_load", reads |-> {}, dst |-> r, slot |-> slot, line |-> line]

\* Registers and slots are gone through in ascending order.
Ascending(S) ==
  CHOOSE s \in [1 .. Cardinality(S) -> S] :
    /\ \A i, j \in DOMAIN s : i < j => s[i] < s[j]
    /\ \A x \in S : \E i \in DOMAIN s : s[i] = x

\* A plausible slip: slots a call does not use keep what an earlier call left.
AroundCallNoNulls(call, saved, slotOf) ==
  LET inOrder == Ascending(saved) IN
  [i \in DOMAIN inOrder |-> RootStore(slotOf[inOrder[i]], {inOrder[i]}, call.line)]
  \o <<call>>
  \o [i \in DOMAIN inOrder |-> RootLoad(slotOf[inOrder[i]], inOrder[i], call.line)]

\* A plausible slip: the registers are not reloaded.
AroundCallNoReloads(call, saved, slotOf) ==
  LET inOrder == Ascending(saved)
      unused == Ascending({slotOf[r] : r \in DOMAIN slotOf \ saved}) IN
  [i \in DOMAIN inOrder |-> RootStore(slotOf[inOrder[i]], {inOrder[i]}, call.line)]
  \o [i \in DOMAIN unused |-> RootStore(unused[i], {}, call.line)]
  \o <<call>>

AroundCall(call, saved, slotOf) ==
  LET inOrder == Ascending(saved)
      unused == Ascending({slotOf[r] : r \in DOMAIN slotOf \ saved}) IN
  [i \in DOMAIN inOrder |-> RootStore(slotOf[inOrder[i]], {inOrder[i]}, call.line)]
  \o [i \in DOMAIN unused |-> RootStore(unused[i], {}, call.line)]
  \o <<call>>
  \o [i \in DOMAIN inOrder |-> RootLoad(slotOf[inOrder[i]], inOrder[i], call.line)]

Rooted(f) ==
  LET saved == RefsLiveAcrossCalls(f)
      slotOf == SlotOf(saved)
      code(b) == FlattenSeq([k \in DOMAIN f.blocks[b].code |->
                   LET instr == f.blocks[b].code[k] IN
                   IF IsCall(instr) THEN AroundCall(instr, saved[<<b, k>>], slotOf)
                                    ELSE <<instr>>])
  IN [f EXCEPT !.blocks = [b \in DOMAIN @ |-> [@[b] EXCEPT !.code = code(b)]]]
===============================================================================
