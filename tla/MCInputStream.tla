-------------------------- MODULE MCInputStream --------------------------
(***************************************************************************)
(* A small input stream for TLC: every input of up to MaxInput bytes, and  *)
(* every sequence of reads a program may issue on it.  Beside it, on an    *)
(* empty input that nothing reads, the scanners run on longer tokens of    *)
(* more bytes.                                                             *)
(***************************************************************************)
EXTENDS InputStream, TokenGrammars

CONSTANT MaxInput   \* the longest input tried

AllInputs == UNION {[1 .. n -> Bytes] : n \in 0 .. MaxInput}

MCInit == Init /\ tok = <<>>

ReadStream == tok = <<>> /\ Next /\ UNCHANGED tok

ScanTokens == Init /\ input = <<>> /\ GrowToken /\ UNCHANGED vars

MCSpec == MCInit /\ [][ReadStream \/ ScanTokens]_<<vars, tok>> /\ Fairness
=============================================================================
