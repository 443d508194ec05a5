------------------------------- MODULE MCCalling ------------------------------
(***************************************************************************)
(* Two argument registers; up to four arguments.  All ways to hold the     *)
(* arguments in the caller meet a few callees, and all callees a few       *)
(* callers: the two see each other only in the argument registers and the  *)
(* stack.                                                                  *)
(***************************************************************************)
EXTENDS Calling

CONSTANTS rax, r10, r11, rdi, rsi, rbx

ArgumentsInOrder == <<rdi, rsi>>

CalleeSavedUsed == <<rbx>>

HalfUsed == -24 .. 200

CellsUsed == -20 .. 6

Widths == <<64, 32, 64, 32>>

Caller(at) == [i \in DOMAIN at |-> [at |-> at[i], width |-> Widths[i]]]

Callers(n) == [1 .. n -> {rdi, rsi, rbx, Memory, Immediate}]

CallOf(at, pointer, params, locals, hasCalls, roots, returns) ==
  [args |-> Caller(at), pointer |-> pointer, params |-> params, locals |-> locals,
   spills |-> Cardinality(Elements(params) \cap Nat), hasCalls |-> hasCalls, roots |-> roots, returns |-> returns]

\* A callee's places: registers, or spill slots numbered in order.
ParamPlaces(n) ==
  {[i \in 1 .. n |->
      IF i \in inMemory THEN Cardinality({j \in inMemory : j < i}) ELSE places[i]] :
     inMemory \in SUBSET (1 .. n), places \in [1 .. n -> {rdi, rsi, rbx}]}

Swapped == [i \in 1 .. 4 |-> <<rsi, rdi, 0, rbx>>[i]]

AnyCaller ==
  {CallOf(at, pointer, SubSeq(Swapped, 1, Len(at)), {}, FALSE, 0, TRUE) :
     at \in Callers(3) \cup Callers(4), pointer \in {Direct, rdi, rsi, Memory}}

AnyCallee ==
  {CallOf([i \in DOMAIN params |-> <<rsi, rdi, rbx, rdi>>[i]], Direct, params, locals, hasCalls,
          roots, returns) :
     params \in ParamPlaces(2) \cup ParamPlaces(3) \cup ParamPlaces(4), locals \in {{}, {rbx}},
     hasCalls \in BOOLEAN, roots \in 0 .. 2, returns \in BOOLEAN}

CallsUsed == {c \in AnyCaller \cup AnyCallee : IsCall(c)}

RegistersUsed == {rax, r10, r11, rdi, rsi, rbx}

Distinct == [r \in RegistersUsed |->
  All(CASE r = rax -> 21 [] r = r10 -> 22 [] r = r11 -> 23 [] r = rdi -> 24 [] r = rsi -> 25 [] r = rbx -> 26)]

StartsUsed == {Distinct}
===============================================================================
