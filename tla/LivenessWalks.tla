---------------------------- MODULE LivenessWalks ----------------------------
(***************************************************************************)
(* The backward walk over one block that live_across_calls and             *)
(* remove_dead_copies share (compiler/src/ir/liveness.rs): `out` is what   *)
(* is live at the end of the block, live[k] is live before instruction k.  *)
(***************************************************************************)
EXTENDS Ir

\* A plausible slip: forgetting what the terminator reads.
LiveAtEndWithoutTerminator(b, out) == out

LiveAtEnd(b, out) == out \cup b.reads

WalkBack(b, out) ==
  LET live[k \in 1 .. Len(b.code) + 1] ==
        IF k = Len(b.code) + 1 THEN LiveAtEnd(b, out)
        ELSE (live[k + 1] \ Defines(b.code[k])) \cup b.code[k].reads
  IN live

\* For each call, what is live after it, its own result excepted.
LiveAcrossCalls(f, out) ==
  [p \in CallPoints(f) |->
     WalkBack(f.blocks[p[1]], out[p[1]])[p[2] + 1] \ DefinesAt(f, p)]

\* The instructions remove_dead_copies keeps, from the end of the block: a copy
\* nothing reads goes, and its own operand is then not read by it.
Kept(b, out) ==
  LET step[k \in 1 .. Len(b.code) + 1] ==
        IF k = Len(b.code) + 1 THEN [live |-> LiveAtEnd(b, out), code |-> <<>>]
        ELSE LET rest == step[k + 1]
                 instr == b.code[k] IN
             IF instr.op = "copy" /\ instr.dst \notin rest.live
               THEN rest
               ELSE [live |-> (rest.live \ Defines(instr)) \cup instr.reads,
                     code |-> <<instr>> \o rest.code]
  IN step[1].code

Swept(f, out) ==
  [f EXCEPT !.blocks = [b \in DOMAIN @ |-> [@[b] EXCEPT !.code = Kept(f.blocks[b], out[b])]]]
==============================================================================
