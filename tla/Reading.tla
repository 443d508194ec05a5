------------------------------ MODULE Reading ------------------------------
(***************************************************************************)
(* The three implementations of the reads of runtime-abi.md 3.7, over the  *)
(* same bytes: the interpreter's (interpreter/io.rs), the native runtime's *)
(* (rust/src/io.rs) and the one the WebAssembly runtime asks its host for  *)
(* (tools/wasmrun).  A read takes the input and the position of the next   *)
(* byte and gives [pos, code, v]: the position after it, 0 or the exit     *)
(* status of the abort, and what was read.  Also the machine integers.     *)
(***************************************************************************)
EXTENDS Integers, Sequences, SequencesExt

CONSTANT Bits       \* the width of int, 32 in the code

MinInt == -(2 ^ (Bits - 1))
MaxInt == 2 ^ (Bits - 1) - 1
Wrap(n) == ((n - MinInt) % 2 ^ Bits) + MinInt

Abs(n) == IF n < 0 THEN -n ELSE n
TruncDiv(a, b) == IF (a < 0) = (b < 0) THEN Abs(a) \div Abs(b) ELSE -(Abs(a) \div Abs(b))
TruncRem(a, b) == a - b * TruncDiv(a, b)

Newline == 10
IsSpace(b) == b \in {9, 10, 12, 13, 32}
IsDigit(b) == b \in 48..57
IsSign(b) == b \in {43, 45}
TrueBytes == <<116, 114, 117, 101>>
FalseBytes == <<102, 97, 108, 115, 101>>

Read(pos, code, v) == [pos |-> pos, code |-> code, v |-> v]

\* The first position from pos on that is past the end or holds a byte Stop accepts.
FirstFrom(bytes, pos, Stop(_)) ==
    CHOOSE i \in pos..(Len(bytes) + 1) :
        /\ i = Len(bytes) + 1 \/ Stop(bytes[i])
        /\ \A j \in pos..(i - 1) : ~Stop(bytes[j])

SkipSpace(bytes, pos) == FirstFrom(bytes, pos, LAMBDA b : ~IsSpace(b))

\* Rust's parse::<i32>: a sign, at least one digit, nothing else, in range.
Digits(token) == IF token # <<>> /\ IsSign(token[1]) THEN Tail(token) ELSE token
ValueOf(token) ==
    LET n == FoldLeft(LAMBDA acc, b : 10 * acc + (b - 48), 0, Digits(token)) IN
    IF token[1] = 45 THEN -n ELSE n
Parses(token) ==
    /\ Digits(token) # <<>>
    /\ \A i \in DOMAIN Digits(token) : IsDigit(Digits(token)[i])
    /\ ValueOf(token) \in MinInt..MaxInt

ParseInt(token, after) ==
    IF Parses(token) THEN Read(after, 0, ValueOf(token)) ELSE Read(after, 110, 0)

ParseBool(token, after) ==
    CASE token = TrueBytes -> Read(after, 0, TRUE)
      [] token = FalseBytes -> Read(after, 0, FALSE)
      [] OTHER -> Read(after, 112, FALSE)

-----------------------------------------------------------------------------
(* The interpreter: whole tokens, empty at the end of the input.           *)

ReadToken(bytes, pos) ==
    LET from == SkipSpace(bytes, pos)
        to == FirstFrom(bytes, from, IsSpace) IN
    [token |-> SubSeq(bytes, from, to - 1), pos |-> to]

InterpreterReadInt(bytes, pos) ==
    LET r == ReadToken(bytes, pos) IN
    IF r.token = <<>> THEN Read(r.pos, 111, 0) ELSE ParseInt(r.token, r.pos)

InterpreterReadBool(bytes, pos) ==
    LET r == ReadToken(bytes, pos) IN ParseBool(r.token, r.pos)

\* Through the newline; the buffer loses its last byte only if that is one.
InterpreterReadString(bytes, pos) ==
    LET end == FirstFrom(bytes, pos, LAMBDA b : b = Newline)
        upTo == IF end > Len(bytes) THEN Len(bytes) ELSE end
        buf == SubSeq(bytes, pos, upTo) IN
    Read(upTo + 1, 0, IF buf # <<>> /\ Last(buf) = Newline THEN Front(buf) ELSE buf)

InterpreterEof(bytes, pos) == Read(pos, 0, pos > Len(bytes))

-----------------------------------------------------------------------------
(* The native runtime: byte by byte, peeking.                              *)

Peek(bytes, pos) == IF pos > Len(bytes) THEN <<>> ELSE <<bytes[pos]>>

\* Takes a sign and the digits that follow: what comes after them stays.
NativeReadInt(bytes, pos) ==
    LET from == SkipSpace(bytes, pos)
        sign == IF Peek(bytes, from) # <<>> /\ IsSign(bytes[from]) THEN 1 ELSE 0
        to == FirstFrom(bytes, from + sign, LAMBDA b : ~IsDigit(b)) IN
    CASE Peek(bytes, from) = <<>> -> Read(from, 111, 0)
      [] Peek(bytes, from) # <<>> /\ to = from + sign -> Read(to, 110, 0)
      [] OTHER -> ParseInt(SubSeq(bytes, from, to - 1), to)

NativeReadBool(bytes, pos) ==
    LET from == SkipSpace(bytes, pos)
        to == FirstFrom(bytes, from, IsSpace) IN
    ParseBool(SubSeq(bytes, from, to - 1), to)

NativeReadLine(bytes, pos) ==
    LET end == FirstFrom(bytes, pos, LAMBDA b : b = Newline) IN
    IF pos > Len(bytes) THEN Read(pos, 0, <<>>)
    ELSE Read(IF end > Len(bytes) THEN end ELSE end + 1, 0, SubSeq(bytes, pos, end - 1))

NativeEof(bytes, pos) == Read(pos, 0, Peek(bytes, pos) = <<>>)

-----------------------------------------------------------------------------
(* The host of the WebAssembly runtime.  A line takes two calls: the first *)
(* consumes it and keeps it pending, the second copies at most max bytes.  *)

HostNextToken(bytes, pos) ==
    LET from == SkipSpace(bytes, pos)
        to == FirstFrom(bytes, from, IsSpace) IN
    [none |-> from > Len(bytes), token |-> SubSeq(bytes, from, to - 1), pos |-> to]

HostReadInt(bytes, pos) ==
    LET r == HostNextToken(bytes, pos) IN
    IF r.none THEN Read(r.pos, 111, 0) ELSE ParseInt(r.token, r.pos)

HostReadBool(bytes, pos) ==
    LET r == HostNextToken(bytes, pos) IN
    IF r.none THEN Read(r.pos, 112, FALSE) ELSE ParseBool(r.token, r.pos)

HostReadLineLen(bytes, pos) ==
    LET end == FirstFrom(bytes, pos, LAMBDA b : b = Newline)
        line == SubSeq(bytes, pos, end - 1) IN
    [pos |-> IF end > Len(bytes) THEN end ELSE end + 1,
     len |-> Len(line), pending |-> line]

HostReadLineInto(pending, max) ==
    SubSeq(pending, 1, IF Len(pending) < max THEN Len(pending) ELSE max)

HostEof(bytes, pos) == Read(pos, 0, pos > Len(bytes))
=============================================================================
