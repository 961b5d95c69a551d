---------------------------- MODULE InputStream ----------------------------
(***************************************************************************)
(* The reader of standard input in runtime/src/VariableStdio.c.  Bytes     *)
(* come from stdio one at a time and are kept in a circular buffer, so     *)
(* that a read which turns out to fail can be undone: the bytes between    *)
(* last_successful_read and cur_pos have been looked at by the current     *)
(* read, those between cur_pos and valid_until were fetched by an earlier  *)
(* read that was rewound and are replayed.                                 *)
(*                                                                         *)
(* A step is one iteration of one of readNextToken's two loops or the      *)
(* conversion that follows them; reading a character is one step.          *)
(***************************************************************************)
EXTENDS StdinTokens

CONSTANTS
  BufferSize,  \* BUFFER_SIZE, 1024 in the code
  Inputs,      \* the byte sequences standard input may hold
  TokenOps     \* the reads built on readNextToken

ASSUME BufferSizeAssumption == BufferSize \in Nat /\ BufferSize >= 2

ASSUME InputsAssumption == Inputs \subseteq Seq(Bytes)

ASSUME TokenOpsAssumption == TokenOps \subseteq {"integer", "real", "boolean"}

EOF == "EOF"

ASSUME EOFAssumption == EOF \notin Bytes

VARIABLES
  input,                 \* the bytes of standard input
  fetched,               \* how many of them fgetc has returned
  circular_buffer,
  token_buffer,          \* keeps the bytes of earlier tokens until it is overwritten
  collected,             \* readNextToken's n: how many bytes of its token are there
  result_token_length,   \* the length of the token that readNextToken returned
  last_successful_read,
  cur_pos,
  valid_until,
  result,                \* what readNextToken returned: 0, 1 or 2
  pc,                    \* where the runtime is
  op,                    \* the read under way
  reply,                 \* the last completed read
  consumed               \* history: the bytes accepted by successful reads

position == <<last_successful_read, cur_pos, valid_until>>
stream == <<input, fetched, circular_buffer, position>>
token == <<token_buffer, collected, result_token_length>>
vars == <<stream, token, result, pc, op, reply, consumed>>

Positions == 0 .. BufferSize - 1

(***************************************************************************)
(* The circular buffer.                                                    *)
(***************************************************************************)
getNextPos_NoWrap(pos) == pos + 1
getNextPos(pos) == (pos + 1) % BufferSize

getPrevPos(pos) == (pos + BufferSize - 1) % BufferSize

\* How far ahead of position `from` the position `to` is.
Distance(from, to) == (to + BufferSize - from) % BufferSize

\* A replayed byte passes through a signed char: 0xFF comes back as EOF.
SignedChar(byte) == IF byte = "xff" THEN EOF ELSE byte

\* What readNextChar returns in this state.
NextChar ==
  IF cur_pos # valid_until THEN SignedChar(circular_buffer[cur_pos])
  ELSE IF fetched < Len(input) THEN input[fetched + 1]
  ELSE EOF

\* readNextChar stores a fetched byte right before the rewind point.
Overrun ==
  /\ cur_pos = valid_until
  /\ fetched < Len(input)
  /\ getNextPos(cur_pos) = last_successful_read

\* A slip: the end of the valid section is not moved past a fetched byte.
AdvanceStream_StaleEnd ==
  \/ /\ cur_pos = valid_until /\ fetched < Len(input)
     /\ circular_buffer' = [circular_buffer EXCEPT ![cur_pos] = input[fetched + 1]]
     /\ fetched' = fetched + 1
     /\ cur_pos' = getNextPos(cur_pos)
     /\ UNCHANGED valid_until
  \/ /\ cur_pos = valid_until /\ fetched = Len(input)
     /\ UNCHANGED <<circular_buffer, fetched, cur_pos, valid_until>>
  \/ /\ cur_pos # valid_until
     /\ cur_pos' = getNextPos(cur_pos)
     /\ UNCHANGED <<circular_buffer, fetched, valid_until>>

\* A slip: a replayed byte is not stepped over.
AdvanceStream_StuckReplay ==
  \/ /\ cur_pos = valid_until /\ fetched < Len(input)
     /\ circular_buffer' = [circular_buffer EXCEPT ![cur_pos] = input[fetched + 1]]
     /\ fetched' = fetched + 1
     /\ cur_pos' = getNextPos(cur_pos)
     /\ valid_until' = cur_pos'
  \/ /\ cur_pos = valid_until /\ fetched = Len(input)
     /\ UNCHANGED <<circular_buffer, fetched, cur_pos, valid_until>>
  \/ /\ cur_pos # valid_until
     /\ UNCHANGED <<circular_buffer, fetched, cur_pos, valid_until>>

\* readNextChar: fetch a byte and keep it, or replay one.
AdvanceStream ==
  \/ /\ cur_pos = valid_until /\ fetched < Len(input)
     /\ circular_buffer' = [circular_buffer EXCEPT ![cur_pos] = input[fetched + 1]]
     /\ fetched' = fetched + 1
     /\ cur_pos' = getNextPos(cur_pos)
     /\ valid_until' = cur_pos'
  \/ /\ cur_pos = valid_until /\ fetched = Len(input)
     /\ UNCHANGED <<circular_buffer, fetched, cur_pos, valid_until>>
  \/ /\ cur_pos # valid_until
     /\ cur_pos' = getNextPos(cur_pos)
     /\ UNCHANGED <<circular_buffer, fetched, valid_until>>

\* updateRewindPoint(to); consumed follows the bytes that are now accepted.
UpdateRewindPoint(to) ==
  /\ last_successful_read' = to
  /\ consumed' = consumed + Distance(last_successful_read, to)

(***************************************************************************)
(* readNextToken.                                                          *)
(***************************************************************************)
Init ==
  /\ input \in Inputs
  /\ fetched = 0
  /\ circular_buffer = [i \in Positions |-> Space]
  /\ token_buffer = [i \in Positions |-> Space]
  /\ collected = 0 /\ result_token_length = 0
  /\ last_successful_read = 0 /\ cur_pos = 0 /\ valid_until = 0
  /\ result = 0
  /\ pc = "idle"
  /\ op = "none"
  /\ reply = [op |-> "none", state |-> 0, text |-> <<>>]
  /\ consumed = 0

\* The last token and its length are still there.
Begin(kind) ==
  /\ pc = "idle"
  /\ pc' = "skip"
  /\ op' = kind
  /\ UNCHANGED <<stream, token, result, reply, consumed>>

BufferFull_Never == FALSE
\* No room is left between the reader and the rewind point.
BufferFull == getNextPos(cur_pos) = last_successful_read

\* A slip: the exits without a token leave the length of the last one.
ReturnToken_StaleLength(code, length) ==
  /\ result' = code
  /\ result_token_length' = IF length = 0 THEN result_token_length ELSE length
  /\ collected' = 0
  /\ pc' = "convert"
  /\ UNCHANGED token_buffer

\* n is a local of readNextToken, gone when that returns.
ReturnToken(code, length) ==
  /\ result' = code
  /\ result_token_length' = length
  /\ collected' = 0
  /\ pc' = "convert"
  /\ UNCHANGED token_buffer

\* token_buffer[n] = (char)ch; n += 1
StoreByte ==
  /\ token_buffer' = [token_buffer EXCEPT ![collected] = NextChar]
  /\ collected' = collected + 1
  /\ UNCHANGED <<result, result_token_length>>

\* One iteration of the loop over leading white space.
SkipSpace ==
  /\ pc = "skip"
  /\ \/ /\ BufferFull
        /\ ReturnToken(1, 0)
        /\ UNCHANGED stream
     \/ /\ ~BufferFull
        /\ AdvanceStream
        /\ \/ Overrun /\ pc' = "overrun" /\ UNCHANGED <<result, token>>
           \/ ~Overrun /\ NextChar = EOF /\ ReturnToken(2, 0)
           \/ ~Overrun /\ NextChar = Space /\ UNCHANGED <<pc, result, token>>
           \/ ~Overrun /\ NextChar \notin {EOF, Space} /\ StoreByte /\ pc' = "collect"
        /\ UNCHANGED <<input, last_successful_read>>
  /\ UNCHANGED <<op, reply, consumed>>

\* One iteration of the loop over the token.
CollectByte ==
  /\ pc = "collect"
  /\ \/ /\ BufferFull
        /\ ReturnToken(1, collected)
        /\ UNCHANGED stream
     \/ /\ ~BufferFull
        /\ AdvanceStream
        /\ \/ Overrun /\ pc' = "overrun" /\ UNCHANGED <<result, token>>
           \/ ~Overrun /\ NextChar = EOF /\ ReturnToken(2, collected)
           \/ ~Overrun /\ NextChar = Space /\ ReturnToken(0, collected)
           \/ ~Overrun /\ NextChar \notin {EOF, Space} /\ StoreByte /\ UNCHANGED pc
        /\ UNCHANGED <<input, last_successful_read>>
  /\ UNCHANGED <<op, reply, consumed>>

(***************************************************************************)
(* The conversions: what read{Integer,Real,Boolean}FromStdin do with the   *)
(* token.  All three end in one of these four ways.                        *)
(***************************************************************************)
\* The bytes the conversions look at.
Token == [i \in 1 .. result_token_length |-> token_buffer[i - 1]]

\* readNextToken met the end of the input before any token.
NoToken == result = 2 /\ result_token_length = 0

Finish(state, text) ==
  /\ reply' = [op |-> op, state |-> state, text |-> text]
  /\ pc' = "idle"
  /\ UNCHANGED <<input, fetched, circular_buffer, token, valid_until, result, op>>

\* A slip: the reader stays where the failed read left it.
Rewind_NotMoved == UNCHANGED <<cur_pos, last_successful_read, consumed>>

\* rewindInputBuffer(), after a failure.
Rewind == cur_pos' = last_successful_read /\ UNCHANGED <<last_successful_read, consumed>>

EndOfInput ==
  /\ pc = "convert" /\ NoToken
  /\ Rewind
  /\ Finish(2, <<>>)

TooLong ==
  /\ pc = "convert" /\ result = 1
  /\ pc' = "toolong"
  /\ UNCHANGED <<stream, token, result, op, reply, consumed>>

RejectToken ==
  /\ pc = "convert" /\ result # 1 /\ ~NoToken
  /\ ~Accepts(op, Token)
  /\ Rewind
  /\ Finish(1, <<>>)

\* The white space that ended the token is left for the next read.
AcceptToken ==
  /\ pc = "convert" /\ result # 1 /\ ~NoToken
  /\ Accepts(op, Token)
  /\ UpdateRewindPoint(IF result = 2 THEN cur_pos ELSE getPrevPos(cur_pos))
  /\ cur_pos' = last_successful_read'
  /\ Finish(0, Token)

\* readCharacterFromStdin: one byte, no conversion; EOF is a success too.
ReadCharacter ==
  /\ pc = "idle"
  /\ AdvanceStream
  /\ \/ Overrun /\ pc' = "overrun" /\ UNCHANGED <<last_successful_read, op, reply, consumed>>
     \/ /\ ~Overrun
        /\ UpdateRewindPoint(cur_pos')
        /\ reply' = [op |-> "character", state |-> 0,
                     text |-> IF NextChar = EOF THEN <<>> ELSE <<NextChar>>]
        /\ op' = "character"
        /\ UNCHANGED pc
  /\ UNCHANGED <<input, token, result>>

Convert == EndOfInput \/ TooLong \/ RejectToken \/ AcceptToken

Next ==
  \/ \E kind \in TokenOps : Begin(kind)
  \/ SkipSpace
  \/ CollectByte
  \/ Convert
  \/ ReadCharacter

\* A read that has begun runs on: it is straight sequential code.
Fairness == WF_vars(SkipSpace) /\ WF_vars(CollectByte) /\ WF_vars(Convert)

Spec == Init /\ [][Next]_vars /\ Fairness

(***************************************************************************)
(* Properties.                                                             *)
(***************************************************************************)
Steps == {"idle", "skip", "collect", "convert", "toolong", "overrun"}

\* Every variable ranges over what the C declaration allows: positions index
\* circular_buffer, readNextToken returns 0, 1 or 2, token_buffer holds bytes.
TypeOK ==
  /\ input \in Seq(Bytes)
  /\ fetched \in 0 .. Len(input)
  /\ circular_buffer \in [Positions -> Bytes \cup {Space}]
  /\ token_buffer \in [Positions -> Bytes]
  /\ collected \in Nat /\ result_token_length \in Nat
  /\ last_successful_read \in Positions
  /\ cur_pos \in Positions
  /\ valid_until \in Positions
  /\ result \in 0 .. 2
  /\ pc \in Steps
  /\ op \in TokenOps \cup {"none", "character"}
  /\ reply \in [op : TokenOps \cup {"none", "character"}, state : 0 .. 2, text : Seq(Bytes)]
  /\ consumed \in 0 .. Len(input)

\* The bytes kept for replay, and those the read under way has looked at.
Held == Distance(last_successful_read, valid_until)
Looked == Distance(last_successful_read, cur_pos)

(***************************************************************************)
(* The bytes kept in the circular buffer, from the rewind point on, are    *)
(* exactly the fetched and not yet consumed bytes of the input, in order:  *)
(* no fetch overwrites a byte that a rewind could still replay, however    *)
(* the three positions have wrapped round.                                 *)
(***************************************************************************)
WindowFaithful ==
  /\ consumed + Held = fetched
  /\ Looked <= Held
  /\ \A k \in 0 .. Held - 1 :
       circular_buffer[(last_successful_read + k) % BufferSize] = input[consumed + k + 1]

(***************************************************************************)
(* readNextToken's own length checks suffice: readNextChar never runs into *)
(* the rewind point, so its error exit is dead code, and token_buffer[n]   *)
(* is never written at or past BUFFER_SIZE, nor read there by a            *)
(* conversion.                                                             *)
(***************************************************************************)
NeverOverrun ==
  pc # "overrun" /\ collected < BufferSize /\ result_token_length < BufferSize

\* Between two reads the reader stands at the rewind point, whatever the last
\* read's outcome: what the next read starts from is what the program was told.
IdleIsRewound == pc = "idle" => cur_pos = last_successful_read

(***************************************************************************)
(* The contract of the reads: seen without its buffers, the reader is      *)
(* AbstractInput.  In particular a failed read consumes nothing and a      *)
(* retry of it gives the same answer, a successful one leaves the white    *)
(* space after its token, none is answered from the token of an earlier    *)
(* read, which token_buffer and result_token_length still hold, and a read *)
(* gives up only if white space and token reach BUFFER_SIZE - 1 bytes.     *)
(***************************************************************************)
Abstract == INSTANCE AbstractInput WITH
  Lookahead <- BufferSize - 1,
  halted    <- pc \in {"toolong", "overrun"}

ImplementsAbstractInput == Abstract!Spec

\* Every read that begins ends: it returns or stops the program.
ReadEnds == pc \in {"skip", "collect", "convert"} ~> pc \in {"idle", "toolong"}
=============================================================================
