---------------------------- MODULE AbstractInput ----------------------------
(***************************************************************************)
(* What the input stream of the Gazprea runtime promises, without buffers: *)
(* the input is a sequence of bytes of which a prefix has been consumed,   *)
(* and each read looks only at the bytes after that prefix.  A read that   *)
(* succeeds consumes exactly the white space and the token it used; a read *)
(* that fails consumes nothing; the stream state always tells which of the *)
(* two happened (0 success, 1 error, 2 end of input).  A read of a         *)
(* character takes one byte whatever it is and always succeeds.            *)
(***************************************************************************)
EXTENDS Integers, Sequences

CONSTANTS
  Inputs,         \* the byte sequences standard input may hold
  Space,          \* the bytes that separate tokens
  TokenOps,       \* the reads that work on a token
  Accepts(_, _),  \* Accepts(op, tok): the read op can convert the token tok
  Lookahead       \* the longest white space and token a read may look through

VARIABLES
  input,     \* the bytes of standard input
  consumed,  \* how many of them the program has consumed
  reply,     \* the last completed read: its kind, stream state and text
  halted     \* the program has stopped on a token too long for the buffer

vars == <<input, consumed, reply, halted>>

Init ==
  /\ input \in Inputs
  /\ consumed = 0
  /\ reply = [op |-> "none", state |-> 0, text |-> <<>>]
  /\ halted = FALSE

Rest == SubSeq(input, consumed + 1, Len(input))

\* The smallest i in S.
Least(S) == CHOOSE i \in S : \A j \in S : i <= j

\* How many leading bytes of s are white space.
Leading(s) == Least({i \in 0 .. Len(s) : i = Len(s) \/ s[i + 1] # Space})

\* Where the token after the leading white space of s ends.
TokenEnd(s) ==
  Least({i \in Leading(s) .. Len(s) : i = Len(s) \/ s[i + 1] = Space})

NextToken(s) == SubSeq(s, Leading(s) + 1, TokenEnd(s))

Reply(op, state, text) == reply' = [op |-> op, state |-> state, text |-> text]

ReadToken(op) ==
  LET tok == NextToken(Rest)
  IN
  /\ ~halted
  /\ TokenEnd(Rest) < Lookahead
  /\ \/ /\ tok = <<>>
        /\ Reply(op, 2, <<>>)
        /\ UNCHANGED consumed
     \/ /\ tok # <<>> /\ ~Accepts(op, tok)
        /\ Reply(op, 1, <<>>)
        /\ UNCHANGED consumed
     \/ /\ tok # <<>> /\ Accepts(op, tok)
        /\ Reply(op, 0, tok)
        /\ consumed' = consumed + TokenEnd(Rest)
  /\ UNCHANGED <<input, halted>>

GiveUp ==
  /\ ~halted
  /\ TokenEnd(Rest) >= Lookahead
  /\ halted' = TRUE
  /\ UNCHANGED <<input, consumed, reply>>

ReadCharacter ==
  LET taken == IF Rest = <<>> THEN <<>> ELSE <<Head(Rest)>>
  IN
  /\ ~halted
  /\ Reply("character", 0, taken)
  /\ consumed' = consumed + Len(taken)
  /\ UNCHANGED <<input, halted>>

Next == (\E op \in TokenOps : ReadToken(op)) \/ GiveUp \/ ReadCharacter

Spec == Init /\ [][Next]_vars
=============================================================================
