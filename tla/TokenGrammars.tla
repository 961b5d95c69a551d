--------------------------- MODULE TokenGrammars ---------------------------
(***************************************************************************)
(* What the scanners of StdinTokens accept, compared for every token of up *)
(* to MaxToken bytes with what they ought to accept, written as grammars   *)
(* over whole tokens.  The token grows byte by byte.                       *)
(***************************************************************************)
EXTENDS StdinTokens

CONSTANTS
  TokenBytes,  \* the bytes tokens are made of
  MaxToken     \* the longest token tried

VARIABLE tok   \* the token scanned; empty at first, when there is none

\* A longer token to scan.
GrowToken ==
  /\ Len(tok) < MaxToken
  /\ \E byte \in TokenBytes : tok' = Append(tok, byte)

AllDigits(s) == \A i \in DOMAIN s : s[i] \in Digits

\* The number a sequence of digits denotes, as a sum over its positions.
Magnitude(s) ==
  LET weighted == [i \in DOMAIN s |-> DigitValue[s[i]] * 10^(Len(s) - i)]
  IN  FoldLeft(LAMBDA a, b : a + b, 0, weighted)

(***************************************************************************)
(* The digit-by-digit scan of readIntegerFromStdin, which gives up at the  *)
(* first digit that leaves the 32-bit range, accepts exactly the optional- *)
(* sign decimal literals whose whole value fits, -(2^31) included, and     *)
(* returns that value.                                                     *)
(***************************************************************************)
IntegerIsExact ==
  tok # <<>> =>
    LET body  == Unsigned(tok)
        value == Sign(tok) * Magnitude(body)
        fits  == body # <<>> /\ AllDigits(body) /\ value \in Int32
    IN  ParseInteger(tok) = [ok |-> fits, value |-> IF fits THEN value ELSE 0]

\* s is [digits] [. [digits]] with a digit somewhere.
Mantissa(s) ==
  /\ \E i \in DOMAIN s : s[i] \in Digits
  /\ \/ AllDigits(s)
     \/ \E i \in DOMAIN s :
          /\ s[i] = "."
          /\ AllDigits(SubSeq(s, 1, i - 1))
          /\ AllDigits(SubSeq(s, i + 1, Len(s)))

\* s is e [sign] digits.
Exponent(s) ==
  /\ s # <<>> /\ s[1] = "e"
  /\ \/ Len(s) > 1 /\ AllDigits(Tail(s))
     \/ Len(s) > 2 /\ s[2] \in Signs /\ AllDigits(SubSeq(s, 3, Len(s)))

\* s has the 'e' or the '.' that tells a real from an integer.
HasMark(s) == \E i \in DOMAIN s : s[i] \in {"e", "."}

IsReal(s) ==
  LET body == Unsigned(s)
  IN  \/ Mantissa(body)
      \/ \E i \in DOMAIN body :
           Mantissa(SubSeq(body, 1, i - 1)) /\ Exponent(SubSeq(body, i, Len(body)))

IsSignedDigits(s) == Unsigned(s) # <<>> /\ AllDigits(Unsigned(s))

(***************************************************************************)
(* The four-state automaton of readRealFromStdin accepts a token with an   *)
(* 'e' or a '.' exactly if it is [sign] mantissa [exponent]: none reaches  *)
(* its end with a digit missing before or after the exponent mark, and     *)
(* none that has both is refused.  Of the other tokens it accepts at most  *)
(* [sign] digits.  (It does accept those, against the comment at           *)
(* VariableStdio.c:454, "a float must have 'e' or '.' to be valid float":  *)
(* the flag beside it is set and never read.)                              *)
(***************************************************************************)
RealIsGrammar ==
  tok # <<>> =>
    IF HasMark(tok) THEN AcceptsReal(tok) <=> IsReal(tok)
                    ELSE AcceptsReal(tok) => IsSignedDigits(tok)
=============================================================================
