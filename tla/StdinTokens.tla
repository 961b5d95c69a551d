---------------------------- MODULE StdinTokens ----------------------------
(***************************************************************************)
(* The text conversions of runtime/src/VariableStdio.c: which tokens the   *)
(* runtime accepts as an integer, a real or a boolean, and the value of an *)
(* accepted integer.  A byte of the input is a one-character string; "ws"  *)
(* stands for every byte isspace() accepts, "x" for every byte no          *)
(* conversion knows, and "xff" for the byte 0xFF, which InputStream treats *)
(* on its own.  The value of an accepted real is a float and is not        *)
(* modelled.                                                               *)
(***************************************************************************)
EXTENDS Integers, Sequences, SequencesExt

CONSTANTS
  Bytes,   \* the bytes that occur in the input
  IntMax   \* INT32_MAX; INT32_MIN is -(IntMax + 1)

Digits == {"0", "1", "2", "3", "4", "5", "6", "7", "8", "9"}
Signs == {"+", "-"}
Space == "ws"

\* Every single digit fits, as in the code's 32-bit integer.
ASSUME IntMaxAssumption == IntMax \in Nat /\ IntMax >= 9

\* The classes of bytes the conversions tell apart.
ASSUME BytesAssumption ==
  /\ Bytes \subseteq Digits \cup Signs \cup {Space, ".", "e", "T", "F", "x", "xff"}
  /\ Space \in Bytes

DigitValue == [d \in Digits |->
  CASE d = "0" -> 0 [] d = "1" -> 1 [] d = "2" -> 2 [] d = "3" -> 3
    [] d = "4" -> 4 [] d = "5" -> 5 [] d = "6" -> 6 [] d = "7" -> 7
    [] d = "8" -> 8 [] d = "9" -> 9]

Int32 == -(IntMax + 1) .. IntMax

(***************************************************************************)
(* readIntegerFromStdin: an optional sign, then digits accumulated one by  *)
(* one; the first byte that is not a digit, or the first value outside the *)
(* 32-bit range, fails the whole token.                                    *)
(***************************************************************************)
Sign(tok) == IF tok[1] = "-" THEN -1 ELSE 1

Unsigned(tok) == IF tok[1] \in Signs THEN Tail(tok) ELSE tok

\* A slip: the range check forgets that INT32_MIN has no positive counterpart.
TakeDigit_SymmetricRange(sign, acc, byte) ==
  IF acc.ok /\ byte \in Digits
  THEN LET integer == acc.integer * 10 + DigitValue[byte]
       IN  [ok |-> integer <= IntMax, integer |-> integer]
  ELSE [acc EXCEPT !.ok = FALSE]

\* One iteration of the digit loop, from the accumulator so far.
TakeDigit(sign, acc, byte) ==
  IF acc.ok /\ byte \in Digits
  THEN LET integer == acc.integer * 10 + DigitValue[byte]
       IN  [ok |-> sign * integer \in Int32, integer |-> integer]
  ELSE [acc EXCEPT !.ok = FALSE]

ParseInteger(tok) ==
  LET digits == Unsigned(tok)
      scan   == FoldLeft(LAMBDA acc, byte : TakeDigit(Sign(tok), acc, byte),
                         [ok |-> digits # <<>>, integer |-> 0], digits)
  IN  [ok |-> scan.ok, value |-> IF scan.ok THEN Sign(tok) * scan.integer ELSE 0]

(***************************************************************************)
(* readRealFromStdin: the automaton over the bytes of a token.  "integer"  *)
(* is the code's state 0, "fraction" state 1, "exponent" state 2 (nothing  *)
(* seen after 'e' yet), "expdigits" state 3.                               *)
(***************************************************************************)
RealStart(byte) ==
  CASE byte \in Signs  -> [at |-> "integer",  before |-> FALSE, after |-> TRUE]
    [] byte \in Digits -> [at |-> "integer",  before |-> TRUE,  after |-> TRUE]
    [] byte = "."      -> [at |-> "fraction", before |-> FALSE, after |-> TRUE]
    [] OTHER           -> [at |-> "fail",     before |-> FALSE, after |-> TRUE]

\* A slip: seeing 'e' does not ask for a digit after it.
RealStep_NoExponentDigit(s, byte) ==
  CASE s.at = "integer" /\ byte = "." -> [s EXCEPT !.at = "fraction"]
    [] s.at \in {"integer", "fraction"} /\ byte \in Digits -> [s EXCEPT !.before = TRUE]
    [] s.at \in {"integer", "fraction"} /\ byte = "e" -> [s EXCEPT !.at = "exponent"]
    [] s.at = "exponent" /\ byte \in Signs -> [s EXCEPT !.at = "expdigits"]
    [] s.at \in {"exponent", "expdigits"} /\ byte \in Digits ->
         [s EXCEPT !.at = "expdigits", !.after = TRUE]
    [] OTHER -> [s EXCEPT !.at = "fail"]

\* One iteration of the switch over the token's bytes.
RealStep(s, byte) ==
  CASE s.at = "integer" /\ byte = "." -> [s EXCEPT !.at = "fraction"]
    [] s.at \in {"integer", "fraction"} /\ byte \in Digits -> [s EXCEPT !.before = TRUE]
    [] s.at \in {"integer", "fraction"} /\ byte = "e" ->
         [s EXCEPT !.at = "exponent", !.after = FALSE]
    [] s.at = "exponent" /\ byte \in Signs -> [s EXCEPT !.at = "expdigits"]
    [] s.at \in {"exponent", "expdigits"} /\ byte \in Digits ->
         [s EXCEPT !.at = "expdigits", !.after = TRUE]
    [] OTHER -> [s EXCEPT !.at = "fail"]

AcceptsReal(tok) ==
  LET end == FoldLeft(RealStep, RealStart(tok[1]), Tail(tok))
  IN  end.at # "fail" /\ end.before /\ end.after

\* readBooleanFromStdin accepts the one-byte tokens T and F.
AcceptsBoolean(tok) == tok \in {<<"T">>, <<"F">>}

\* Whether the token (never empty) is accepted by the read of that element type.
Accepts(op, tok) ==
  CASE op = "integer" -> ParseInteger(tok).ok
    [] op = "real"    -> AcceptsReal(tok)
    [] OTHER          -> AcceptsBoolean(tok)
=============================================================================
