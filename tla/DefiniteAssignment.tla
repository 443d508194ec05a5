-------------------------- MODULE DefiniteAssignment --------------------------
(***************************************************************************)
(* compiler/src/ir/verify.rs, verify_definite_assignment: a function is    *)
(* accepted when every register is assigned on each path to a read of it.  *)
(* The passes after the verifier, which have one place for a register and  *)
(* clear none, rely on that.  A function accepted is then walked.          *)
(***************************************************************************)
EXTENDS Ir

CONSTANT Candidates   \* functions whose structure has been verified

ASSUME CandidatesAssumption == \A f \in Candidates : IsFunction(f)

VARIABLES
  fn,
  pending,        \* blocks still to be discovered; the code's order is one of all
  reachable, predecessors,
  atEntry, atExit,
  block,          \* the block to visit next in this round
  changed,
  pc,             \* "discover", "flow", "refused", "accepted"
  at, assigned    \* in an accepted function: control, and what has been written

flow == <<atEntry, atExit, block, changed>>
walk == <<at, assigned>>
verifierVars == <<fn, pending, reachable, predecessors, flow, pc, walk>>

Blocks == DOMAIN fn.blocks

Init ==
  /\ fn \in Candidates
  /\ pending = {fn.entry}
  /\ reachable = {}
  /\ predecessors = [b \in Blocks |-> {}]
  /\ atEntry = [b \in Blocks |-> Reg]
  /\ atExit = [b \in Blocks |-> Reg]
  /\ block = 1 /\ changed = FALSE
  /\ pc = "discover"
  /\ at = <<fn.entry, 1>> /\ assigned = Params(fn)

\* A plausible slip: forgetting that the block may have been seen.
DiscoverAnew ==
  /\ pc = "discover"
  /\ \E b \in pending :
       /\ reachable' = reachable \cup {b}
       /\ predecessors' = [n \in Blocks |->
            IF n \in fn.blocks[b].next THEN predecessors[n] \cup {b} ELSE predecessors[n]]
       /\ pending' = (pending \ {b}) \cup fn.blocks[b].next
  /\ UNCHANGED <<fn, flow, pc, walk>>

Discover ==
  /\ pc = "discover"
  /\ \E b \in pending :
       IF b \in reachable THEN pending' = pending \ {b} /\ UNCHANGED <<reachable, predecessors>>
       ELSE /\ reachable' = reachable \cup {b}
            /\ predecessors' = [n \in Blocks |->
                 IF n \in fn.blocks[b].next THEN predecessors[n] \cup {b} ELSE predecessors[n]]
            /\ pending' = (pending \ {b}) \cup fn.blocks[b].next
  /\ UNCHANGED <<fn, flow, pc, walk>>

Discovered ==
  /\ pc = "discover" /\ pending = {}
  /\ pc' = "flow"
  /\ UNCHANGED <<fn, pending, reachable, predecessors, flow, walk>>

\* What holds on every edge into a block, and at the function's start.
Incoming(b) ==
  {r \in IF b = fn.entry THEN Params(fn) ELSE Reg : \A p \in predecessors[b] : r \in atExit[p]}

\* A plausible slip: marking what the instruction at k itself writes.
AssignedBeforeLate(b, k) ==
  atEntry[b] \cup UNION {Defines(fn.blocks[b].code[j]) :
                           j \in {j \in DOMAIN fn.blocks[b].code : j <= k}}

\* What is assigned when control is at point k of a block.
AssignedBefore(b, k) ==
  atEntry[b] \cup UNION {Defines(fn.blocks[b].code[j]) :
                           j \in {j \in DOMAIN fn.blocks[b].code : j < k}}

Written(b) == UNION {Defines(fn.blocks[b].code[j]) : j \in DOMAIN fn.blocks[b].code}

\* One iteration of the inner loop.
VisitBlock ==
  /\ pc = "flow" /\ block \in Blocks
  /\ block' = block + 1
  /\ IF block \in reachable
       THEN LET entry == Incoming(block)
                exit == entry \cup Written(block) IN
            /\ atEntry' = [atEntry EXCEPT ![block] = entry]
            /\ atExit' = [atExit EXCEPT ![block] = exit]
            /\ changed' = (changed \/ entry # atEntry[block] \/ exit # atExit[block])
       ELSE UNCHANGED <<atEntry, atExit, changed>>
  /\ UNCHANGED <<fn, pending, reachable, predecessors, pc, walk>>

RoundOver == pc = "flow" /\ block \notin Blocks

AnotherRound ==
  /\ RoundOver /\ changed
  /\ block' = 1 /\ changed' = FALSE
  /\ UNCHANGED <<fn, pending, reachable, predecessors, atEntry, atExit, pc, walk>>

\* verify_reads.
ReadsVerified ==
  \A b \in reachable : \A k \in 1 .. LastIndex(fn, b) :
    ReadsAt(fn, <<b, k>>) \subseteq AssignedBefore(b, k)

\* Plausible slip: judging after one round, from the optimistic sets.
JudgeAtOnce ==
  /\ RoundOver
  /\ pc' = IF ReadsVerified THEN "accepted" ELSE "refused"
  /\ UNCHANGED <<fn, pending, reachable, predecessors, flow, walk>>

Judge ==
  /\ RoundOver /\ ~changed
  /\ pc' = IF ReadsVerified THEN "accepted" ELSE "refused"
  /\ UNCHANGED <<fn, pending, reachable, predecessors, flow, walk>>

\* The accepted function runs, down any of its paths.
Walk ==
  /\ pc = "accepted"
  /\ assigned' = assigned \cup DefinesAt(fn, at)
  /\ at' \in NextPoints(fn, at)
  /\ UNCHANGED <<fn, pending, reachable, predecessors, flow, pc>>

Over ==
  /\ pc = "refused" \/ (pc = "accepted" /\ NextPoints(fn, at) = {})
  /\ UNCHANGED verifierVars

Verify == Discover \/ Discovered \/ VisitBlock \/ AnotherRound \/ Judge

Next == Verify \/ Walk \/ Over

Spec == Init /\ [][Next]_verifierVars

\* The verifier is a sequence of loops on one thread.
FairSpec == Spec /\ WF_verifierVars(Verify)

---------------------------------------------------------------------------
(***************************************************************************)
(* Properties                                                              *)
(***************************************************************************)
\* However control runs through an accepted function, round loops and past joins,
\* every register is written before it is read.
NothingReadUnassigned == pc = "accepted" => ReadsAt(fn, at) \subseteq assigned

\* The verdict is exact: a function is refused only when some path does read a
\* register before writing it, so that optimism about loops loses no program and
\* blocks that cannot be reached object to nothing.
VerdictExact ==
  pc \in {"accepted", "refused"} => (pc = "accepted" <=> DefinitelyAssigned(fn))

\* Discovery ends on cyclic control flow, and the rounds end.
VerdictReached == <>(pc \in {"accepted", "refused"})
===============================================================================
