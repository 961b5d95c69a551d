------------------------- MODULE InputStreamProofs -------------------------
(***************************************************************************)
(* The reader of standard input, for every buffer size from two bytes up,  *)
(* every input and every sequence of reads: first the safety of the        *)
(* circular buffer, then that the reader implements AbstractInput.         *)
(***************************************************************************)
EXTENDS InputStream, SequenceTheorems, NaturalsInduction, WellFoundedInduction, TLAPS

(***************************************************************************)
(* The window from position base to position end of buffer buf holds the   *)
(* input bytes that follow the first `start` ones.                         *)
(***************************************************************************)
Window(buf, base, end, start) ==
  \A k \in 0 .. Distance(base, end) - 1 :
    buf[(base + k) % BufferSize] = input[start + k + 1]

(***************************************************************************)
(* Arithmetic on positions.                                                *)
(***************************************************************************)
\* Stepping a position forward or back wraps round at the end of the buffer.
LEMMA NeighbourPositions ==
  ASSUME NEW p \in Positions
  PROVE  /\ getNextPos(p) = IF p + 1 = BufferSize THEN 0 ELSE p + 1
         /\ getPrevPos(p) = IF p = 0 THEN BufferSize - 1 ELSE p - 1
         /\ getNextPos(p) \in Positions /\ getPrevPos(p) \in Positions
  BY BufferSizeAssumption DEF getNextPos, getPrevPos, Positions

\* A distance between positions, without the modulus.
LEMMA DistanceCases ==
  ASSUME NEW a \in Positions, NEW b \in Positions
  PROVE  /\ Distance(a, b) = IF a <= b THEN b - a ELSE b - a + BufferSize
         /\ Distance(a, b) \in Positions
  BY BufferSizeAssumption DEF Distance, Positions

\* The k-th slot from a position, without the modulus.
LEMMA SlotCases ==
  ASSUME NEW p \in Positions, NEW k \in Positions
  PROVE  /\ (p + k) % BufferSize = IF p + k < BufferSize THEN p + k ELSE p + k - BufferSize
         /\ (p + k) % BufferSize \in Positions
  BY BufferSizeAssumption DEF Positions

\* Two positions are at distance 0 only if they are the same.
LEMMA DistanceZero ==
  ASSUME NEW a \in Positions, NEW b \in Positions
  PROVE  Distance(a, b) = 0 <=> a = b
<1>1. Distance(a, b) = IF a <= b THEN b - a ELSE b - a + BufferSize
  BY DistanceCases
<1> QED  BY <1>1, BufferSizeAssumption DEF Positions

\* Stepping forward, short of the start, adds one to the distance from it.
LEMMA NextDistance ==
  ASSUME NEW a \in Positions, NEW b \in Positions, getNextPos(b) # a
  PROVE  Distance(a, getNextPos(b)) = Distance(a, b) + 1
<1>1. /\ getNextPos(b) = IF b + 1 = BufferSize THEN 0 ELSE b + 1
      /\ getNextPos(b) \in Positions
  BY NeighbourPositions
<1>2. Distance(a, b) = IF a <= b THEN b - a ELSE b - a + BufferSize
  BY DistanceCases
<1> DEFINE n == getNextPos(b)
<1>3. Distance(a, n) = IF a <= n THEN n - a ELSE n - a + BufferSize
  BY <1>1, DistanceCases
<1> HIDE DEF n
<1>4. n # a /\ n \in Positions /\ n = IF b + 1 = BufferSize THEN 0 ELSE b + 1
  BY <1>1 DEF n
<1>5. Distance(a, n) = Distance(a, b) + 1
  BY <1>2, <1>3, <1>4, BufferSizeAssumption DEF Positions
<1> QED  BY <1>5 DEF n

\* Stepping back, away from the start, takes one off it.
LEMMA PrevDistance ==
  ASSUME NEW a \in Positions, NEW b \in Positions, a # b
  PROVE  Distance(a, getPrevPos(b)) = Distance(a, b) - 1
<1> DEFINE p == getPrevPos(b)
<1>1. p = (IF b = 0 THEN BufferSize - 1 ELSE b - 1) /\ p \in Positions
  BY NeighbourPositions
<1>2. Distance(a, b) = IF a <= b THEN b - a ELSE b - a + BufferSize
  BY DistanceCases
<1>3. Distance(a, p) = IF a <= p THEN p - a ELSE p - a + BufferSize
  BY <1>1, DistanceCases
<1> HIDE DEF p
<1>4. Distance(a, p) = Distance(a, b) - 1
  BY <1>1, <1>2, <1>3, BufferSizeAssumption DEF Positions
<1> QED  BY <1>4 DEF p

\* Two positions equally far from a third are the same.
LEMMA SameDistance ==
  ASSUME NEW a \in Positions, NEW b \in Positions, NEW c \in Positions,
         Distance(a, b) = Distance(a, c)
  PROVE  b = c
<1>1. Distance(a, b) = IF a <= b THEN b - a ELSE b - a + BufferSize
  BY DistanceCases
<1>2. Distance(a, c) = IF a <= c THEN c - a ELSE c - a + BufferSize
  BY DistanceCases
<1> DEFINE d == Distance(a, b)
<1>3. /\ d = IF a <= b THEN b - a ELSE b - a + BufferSize
      /\ d = IF a <= c THEN c - a ELSE c - a + BufferSize
  BY <1>1, <1>2
<1> HIDE DEF d
<1>4. CASE a <= b
  BY <1>3, <1>4, BufferSizeAssumption DEF Positions
<1>5. CASE b < a
  BY <1>3, <1>5, BufferSizeAssumption DEF Positions
<1> QED  BY <1>4, <1>5 DEF Positions

\* A position is the slot its own distance away, and no nearer one.
LEMMA SlotAtDistance ==
  ASSUME NEW a \in Positions, NEW b \in Positions,
         NEW k \in 0 .. Distance(a, b)
  PROVE  (a + k) % BufferSize = b <=> k = Distance(a, b)
<1>1. /\ Distance(a, b) = IF a <= b THEN b - a ELSE b - a + BufferSize
      /\ Distance(a, b) \in Positions
  BY DistanceCases
<1>2. k \in Positions
  BY <1>1, BufferSizeAssumption DEF Positions
<1>3. (a + k) % BufferSize = IF a + k < BufferSize THEN a + k ELSE a + k - BufferSize
  BY <1>2, SlotCases
<1> DEFINE slot == (a + k) % BufferSize
           dist == Distance(a, b)
<1> HIDE DEF slot, dist
<1>4. /\ slot = IF a + k < BufferSize THEN a + k ELSE a + k - BufferSize
      /\ dist = IF a <= b THEN b - a ELSE b - a + BufferSize
      /\ k \in 0 .. dist
  BY <1>1, <1>3 DEF slot, dist
<1>5. slot = b => k = dist
  BY <1>4, BufferSizeAssumption DEF Positions
<1>6. k = dist => slot = b
  BY <1>4, BufferSizeAssumption DEF Positions
<1> QED  BY <1>5, <1>6 DEF slot, dist

(***************************************************************************)
(* One call of readNextChar, made while the buffer is not full: it keeps   *)
(* the window, and moves the reader one position on unless it is at the    *)
(* end of the input.                                                       *)
(***************************************************************************)
LEMMA AdvanceEffect ==
  ASSUME TypeOK, WindowFaithful, ~BufferFull, AdvanceStream
  PROVE  /\ fetched' \in fetched .. Len(input)
         /\ circular_buffer' \in [Positions -> Bytes \cup {Space}]
         /\ cur_pos' \in Positions /\ valid_until' \in Positions
         /\ consumed + Distance(last_successful_read, valid_until') = fetched'
         /\ Distance(last_successful_read, cur_pos')
              <= Distance(last_successful_read, valid_until')
         /\ Distance(last_successful_read, cur_pos') \in {Looked, Looked + 1}
         /\ NextChar # EOF => Distance(last_successful_read, cur_pos') = Looked + 1
         /\ NextChar \in Bytes \cup {EOF, Space}
         /\ Window(circular_buffer', last_successful_read, valid_until', consumed)
         /\ ~Overrun
<1> DEFINE base == last_successful_read
<1>t. /\ base \in Positions /\ cur_pos \in Positions /\ valid_until \in Positions
      /\ fetched \in 0 .. Len(input) /\ Len(input) \in Nat /\ consumed \in Nat
      /\ circular_buffer \in [Positions -> Bytes \cup {Space}]
      /\ \A i \in 1 .. Len(input) : input[i] \in Bytes
  BY DEF TypeOK
<1>n. /\ getNextPos(cur_pos) \in Positions
      /\ getNextPos(cur_pos) = IF cur_pos + 1 = BufferSize THEN 0 ELSE cur_pos + 1
  BY <1>t, NeighbourPositions
<1>d. /\ Held \in Positions /\ Looked \in Positions
      /\ Held \in Nat /\ Looked \in Nat
  BY <1>t, DistanceCases DEF Held, Looked, Positions
<1>w. /\ consumed + Held = fetched /\ Looked <= Held
      /\ Window(circular_buffer, base, valid_until, consumed)
  BY DEF WindowFaithful, Window, Held
<1>o. ~Overrun
  BY DEF Overrun, BufferFull
<1>m. Distance(base, getNextPos(cur_pos)) = Looked + 1
  BY <1>t, NextDistance DEF BufferFull, Looked
<1>1. CASE cur_pos = valid_until /\ fetched < Len(input)
  <2>1. /\ circular_buffer' = [circular_buffer EXCEPT ![cur_pos] = input[fetched + 1]]
        /\ fetched' = fetched + 1
        /\ cur_pos' = getNextPos(cur_pos) /\ valid_until' = cur_pos'
        /\ NextChar = input[fetched + 1] /\ input[fetched + 1] \in Bytes
    BY <1>1, <1>t DEF AdvanceStream, NextChar
  <2>2. Held = Looked /\ Distance(base, valid_until') = Held + 1
    BY <1>1, <1>m, <2>1 DEF Held, Looked
  <2>3. Window(circular_buffer', base, valid_until', consumed)
    <3> SUFFICES ASSUME NEW k \in 0 .. Held
                 PROVE  circular_buffer'[(base + k) % BufferSize] = input[consumed + k + 1]
      BY <2>2, <1>d DEF Window
    <3>1. k \in Nat /\ k \in Positions
      BY <1>d, BufferSizeAssumption DEF Positions
    <3>2. (base + k) % BufferSize \in Positions
      BY <3>1, <1>t, SlotCases
    <3>3. (base + k) % BufferSize = cur_pos <=> k = Held
      BY <1>1, <1>t, SlotAtDistance DEF Held
    <3>4. CASE k = Held
      <4>1. circular_buffer'[(base + k) % BufferSize] = input[fetched + 1]
        BY <3>3, <3>4, <2>1, <1>t
      <4> QED  BY <4>1, <1>w, <3>4
    <3>5. CASE k # Held
      <4>1. circular_buffer'[(base + k) % BufferSize]
              = circular_buffer[(base + k) % BufferSize]
        BY <3>2, <3>3, <3>5, <2>1, <1>t
      <4>2. k \in 0 .. Held - 1
        BY <3>1, <3>5, <1>d
      <4>3. circular_buffer[(base + k) % BufferSize] = input[consumed + k + 1]
        BY <4>2, <1>w DEF Window, Held
      <4> QED  BY <4>1, <4>3
    <3> QED  BY <3>4, <3>5
  <2>4. /\ consumed + Distance(base, valid_until') = fetched'
        /\ fetched' \in fetched .. Len(input)
    BY <2>1, <2>2, <1>w, <1>d, <1>t, <1>1
  <2>5. circular_buffer' \in [Positions -> Bytes \cup {Space}]
    BY <2>1, <1>t
  <2> QED  BY <2>1, <2>2, <2>3, <2>4, <2>5, <1>n, <1>m, <1>o, <1>d
<1>2. CASE cur_pos = valid_until /\ fetched = Len(input)
  <2>1. UNCHANGED <<circular_buffer, fetched, cur_pos, valid_until>> /\ NextChar = EOF
    BY <1>2, <1>t DEF AdvanceStream, NextChar
  <2>2. /\ Distance(base, cur_pos') = Looked /\ Distance(base, valid_until') = Held
        /\ Window(circular_buffer', base, valid_until', consumed)
    BY <2>1, <1>w DEF Looked, Held
  <2> QED  BY <2>1, <2>2, <1>t, <1>w, <1>o, <1>d
<1>3. CASE cur_pos # valid_until
  <2>1. cur_pos' = getNextPos(cur_pos) /\ UNCHANGED <<circular_buffer, fetched, valid_until>>
    BY <1>3 DEF AdvanceStream
  <2>2. NextChar \in Bytes \cup {EOF, Space}
    BY <1>3, <1>t DEF NextChar, SignedChar
  <2>3. Looked < Held
    <3>1. Looked # Held
      BY <1>3, <1>t, SameDistance DEF Looked, Held
    <3> QED  BY <3>1, <1>w, <1>d
  <2>4. /\ Distance(base, cur_pos') = Looked + 1 /\ Distance(base, valid_until') = Held
        /\ Window(circular_buffer', base, valid_until', consumed)
    BY <2>1, <1>m, <1>w DEF Held
  <2> QED  BY <2>1, <2>2, <2>3, <2>4, <1>t, <1>n, <1>o, <1>w, <1>d
<1> QED  BY <1>1, <1>2, <1>3, <1>t

(***************************************************************************)
(* Moving the rewind point forward inside the window accepts the bytes it  *)
(* passes and leaves a window of the remaining ones.                       *)
(***************************************************************************)
LEMMA RewindPointMoves ==
  ASSUME NEW base \in Positions, NEW end \in Positions, NEW to \in Positions,
         NEW buf, NEW start \in Nat,
         Window(buf, base, end, start),
         Distance(base, to) <= Distance(base, end)
  PROVE  /\ Distance(to, end) = Distance(base, end) - Distance(base, to)
         /\ Window(buf, to, end, start + Distance(base, to))
<1> DEFINE d == Distance(base, to)
<1>d. /\ d = (IF base <= to THEN to - base ELSE to - base + BufferSize)
      /\ d \in Positions
      /\ Distance(base, end) = (IF base <= end THEN end - base ELSE end - base + BufferSize)
      /\ Distance(to, end) = (IF to <= end THEN end - to ELSE end - to + BufferSize)
      /\ Distance(base, end) \in Positions /\ Distance(to, end) \in Positions
      /\ d <= Distance(base, end)
  BY DistanceCases
<1> HIDE DEF d
<1>1. Distance(to, end) = Distance(base, end) - d
  BY <1>d, BufferSizeAssumption DEF Positions
<1>2. ASSUME NEW k \in 0 .. Distance(to, end) - 1
      PROVE  buf[(to + k) % BufferSize] = input[start + d + k + 1]
  <2>1. /\ d \in Nat /\ k \in Nat /\ d + k \in 0 .. Distance(base, end) - 1
        /\ k \in Positions /\ d + k \in Positions
    BY <1>1, <1>d, BufferSizeAssumption DEF Positions
  <2>2. (to + k) % BufferSize = (base + (d + k)) % BufferSize
    <3>1. (to + k) % BufferSize =
            IF to + k < BufferSize THEN to + k ELSE to + k - BufferSize
      BY <2>1, SlotCases
    <3>2. (base + (d + k)) % BufferSize =
            IF base + (d + k) < BufferSize THEN base + (d + k)
            ELSE base + (d + k) - BufferSize
      BY <2>1, SlotCases
    <3> QED  BY <2>1, <3>1, <3>2, <1>d, BufferSizeAssumption DEF Positions
  <2>3. buf[(base + (d + k)) % BufferSize] = input[start + (d + k) + 1]
    BY <2>1 DEF Window
  <2>4. start + (d + k) + 1 = start + d + k + 1
    BY <2>1
  <2> QED  BY <2>2, <2>3, <2>4
<1> QED  BY <1>1, <1>2 DEF Window, d

(***************************************************************************)
(* The inductive invariant: the window, and how far the read under way has *)
(* looked into it, which bounds token_buffer and keeps the white space     *)
(* that ended an accepted token inside the window.                         *)
(***************************************************************************)
TokenInReach ==
  /\ IF pc = "collect" THEN collected <= Looked ELSE collected = 0
  /\ pc = "convert" /\ result = 0 => Looked > 0

\* What TypeOK says of the token.
TokenTyped ==
  token_buffer \in [Positions -> Bytes] /\ collected \in Nat /\ result_token_length \in Nat

IInv == TypeOK /\ WindowFaithful /\ NeverOverrun /\ IdleIsRewound /\ TokenInReach

(***************************************************************************)
(* Initially nothing is held.                                              *)
(***************************************************************************)
LEMMA InitInvariant == Init => IInv
<1> SUFFICES ASSUME Init PROVE IInv
  OBVIOUS
<1>1. 0 \in Positions /\ Distance(0, 0) = 0
  BY BufferSizeAssumption, DistanceZero DEF Positions
<1>2. TypeOK
  <2>1. input \in Seq(Bytes) /\ Len(input) \in Nat
    BY InputsAssumption DEF Init
  <2>2. circular_buffer \in [Positions -> Bytes \cup {Space}]
    BY DEF Init
  <2>3. reply \in [op : TokenOps \cup {"none", "character"}, state : 0 .. 2, text : Seq(Bytes)]
    BY DEF Init
  <2>4. token_buffer \in [Positions -> Bytes]
    BY BytesAssumption DEF Init
  <2> QED  BY <1>1, <2>1, <2>2, <2>3, <2>4 DEF Init, TypeOK, Steps
<1>3. WindowFaithful
  BY <1>1 DEF Init, WindowFaithful, Held, Looked
<1>4. NeverOverrun /\ IdleIsRewound /\ TokenInReach
  BY BufferSizeAssumption DEF Init, NeverOverrun, IdleIsRewound, TokenInReach
<1> QED  BY <1>2, <1>3, <1>4 DEF IInv

(***************************************************************************)
(* One iteration of either loop of readNextToken, up to what it does with  *)
(* the byte.                                                               *)
(***************************************************************************)
LEMMA LoopIteration ==
  ASSUME IInv, ~BufferFull, AdvanceStream,
         UNCHANGED <<input, last_successful_read, op, reply, consumed>>,
         pc' \in Steps, result' \in 0 .. 2, TokenTyped'
  PROVE  /\ TypeOK' /\ WindowFaithful'
         /\ Looked \in Nat /\ Looked + 1 < BufferSize
         /\ Looked' \in {Looked, Looked + 1}
         /\ NextChar # EOF => Looked' = Looked + 1
<1> DEFINE base == last_successful_read
<1>a. TypeOK /\ WindowFaithful
  BY DEF IInv
<1>b. /\ fetched' \in fetched .. Len(input)
      /\ circular_buffer' \in [Positions -> Bytes \cup {Space}]
      /\ cur_pos' \in Positions /\ valid_until' \in Positions
      /\ consumed + Distance(base, valid_until') = fetched'
      /\ Distance(base, cur_pos') <= Distance(base, valid_until')
      /\ Distance(base, cur_pos') \in {Looked, Looked + 1}
      /\ NextChar # EOF => Distance(base, cur_pos') = Looked + 1
      /\ Window(circular_buffer', base, valid_until', consumed)
  BY <1>a, AdvanceEffect
<1>1. Held' = Distance(base, valid_until') /\ Looked' = Distance(base, cur_pos')
  BY DEF Held, Looked, Distance
<1>2. TypeOK'
  BY <1>a, <1>b DEF TypeOK, TokenTyped
<1>3. WindowFaithful'
  <2>1. consumed' + Held' = fetched' /\ Looked' <= Held'
    BY <1>b, <1>1
  <2>2. ASSUME NEW k \in 0 .. Held' - 1
        PROVE  circular_buffer'[(base' + k) % BufferSize] = input'[consumed' + k + 1]
    BY <2>2, <1>b, <1>1 DEF Window
  <2> QED  BY <2>1, <2>2 DEF WindowFaithful
<1>4. Looked \in Nat /\ Looked + 1 < BufferSize
  <2>1. base \in Positions /\ cur_pos \in Positions
    BY <1>a DEF TypeOK
  <2>2. getNextPos(cur_pos) \in Positions /\ getNextPos(cur_pos) # base
    BY <2>1, NeighbourPositions DEF BufferFull
  <2>3. Distance(base, getNextPos(cur_pos)) = Looked + 1
    BY <2>1, <2>2, NextDistance DEF Looked
  <2>4. Distance(base, getNextPos(cur_pos)) \in Positions /\ Looked \in Positions
    BY <2>1, <2>2, DistanceCases DEF Looked
  <2> QED  BY <2>3, <2>4, BufferSizeAssumption DEF Positions
<1> QED  BY <1>1, <1>2, <1>3, <1>4, <1>b

\* Storing a byte leaves the rest of token_buffer as it is.
LEMMA StoreByteEffect ==
  ASSUME TokenTyped, StoreByte, NextChar \in Bytes \cup {EOF, Space}, NextChar \notin {EOF, Space}
  PROVE  /\ TokenTyped' /\ collected' = collected + 1
         /\ result' = result /\ result_token_length' = result_token_length
<1>1. NextChar \in Bytes
  OBVIOUS
<1>2. /\ token_buffer' = [token_buffer EXCEPT ![collected] = NextChar]
      /\ collected' = collected + 1
      /\ result' = result /\ result_token_length' = result_token_length
  BY DEF StoreByte
<1>3. /\ token_buffer \in [Positions -> Bytes]
      /\ collected \in Nat /\ result_token_length \in Nat
  BY DEF TokenTyped
<1>4. token_buffer' \in [Positions -> Bytes]
  BY ONLY <1>1, <1>2, <1>3
<1> QED  BY <1>2, <1>3, <1>4 DEF TokenTyped

\* A loop that stops because the buffer is full changes nothing but the result.
LEMMA FullBufferStep ==
  ASSUME IInv, UNCHANGED stream, UNCHANGED <<op, reply, consumed>>,
         NEW length \in 0 .. BufferSize - 1, ReturnToken(1, length)
  PROVE  IInv'
<1>1. TypeOK'
  BY DEF IInv, TypeOK, stream, position, ReturnToken, Steps
<1>2. WindowFaithful'
  BY DEF IInv, WindowFaithful, Held, Looked, Distance, stream, position
<1>3. NeverOverrun' /\ IdleIsRewound' /\ TokenInReach'
  BY BufferSizeAssumption DEF IInv, NeverOverrun, IdleIsRewound, TokenInReach, ReturnToken
<1> QED  BY <1>1, <1>2, <1>3 DEF IInv

\* A new read starts from where the last one left the reader.
LEMMA BeginStep == \A kind \in TokenOps : IInv /\ Begin(kind) => IInv'
<1> SUFFICES ASSUME NEW kind \in TokenOps, IInv, Begin(kind) PROVE IInv'
  OBVIOUS
<1>1. TypeOK'
  BY DEF IInv, TypeOK, stream, position, token, Begin, Steps
<1>2. WindowFaithful'
  BY DEF IInv, WindowFaithful, Held, Looked, Distance, stream, position, Begin
<1>3. NeverOverrun' /\ IdleIsRewound' /\ TokenInReach'
  BY DEF IInv, NeverOverrun, IdleIsRewound, TokenInReach, token, Begin
<1> QED  BY <1>1, <1>2, <1>3 DEF IInv

\* The loop over white space: the first byte of a token is the last one looked at.
LEMMA SkipSpaceStep == IInv /\ SkipSpace => IInv'
<1> SUFFICES ASSUME IInv, SkipSpace PROVE IInv'
  OBVIOUS
<1>1. CASE BufferFull
  <2>1. 0 \in 0 .. BufferSize - 1
    BY BufferSizeAssumption
  <2> QED  BY <1>1, <2>1, FullBufferStep DEF SkipSpace
<1>2. CASE ~BufferFull
  <2>1. /\ AdvanceStream /\ UNCHANGED <<input, last_successful_read, op, reply, consumed>>
        /\ pc = "skip"
    BY <1>2 DEF SkipSpace
  <2>t. /\ NextChar \in Bytes \cup {EOF, Space} /\ ~Overrun
        /\ TokenTyped /\ collected = 0 /\ result_token_length < BufferSize
        /\ result \in 0 .. 2
    BY <1>2, <2>1, AdvanceEffect DEF IInv, TypeOK, NeverOverrun, TokenInReach, TokenTyped
  <2>2. CASE NextChar = EOF /\ ReturnToken(2, 0)
    <3>1. TypeOK' /\ WindowFaithful'
      BY <1>2, <2>1, <2>2, <2>t, LoopIteration DEF ReturnToken, TokenTyped, Steps
    <3>2. NeverOverrun' /\ IdleIsRewound' /\ TokenInReach'
      BY <2>2, <2>t, BufferSizeAssumption
         DEF NeverOverrun, IdleIsRewound, TokenInReach, ReturnToken
    <3> QED  BY <3>1, <3>2 DEF IInv
  <2>3. CASE NextChar = Space /\ UNCHANGED <<pc, result, token>>
    <3>1. TypeOK' /\ WindowFaithful'
      BY <1>2, <2>1, <2>3, <2>t, LoopIteration DEF token, TokenTyped, Steps
    <3>2. NeverOverrun' /\ IdleIsRewound' /\ TokenInReach'
      BY <2>1, <2>3, <2>t, BufferSizeAssumption
         DEF NeverOverrun, IdleIsRewound, TokenInReach, token
    <3> QED  BY <3>1, <3>2 DEF IInv
  <2>4. CASE NextChar \notin {EOF, Space} /\ StoreByte /\ pc' = "collect"
    <3>1. /\ TokenTyped' /\ collected' = 1 /\ result' = result
          /\ result_token_length' = result_token_length
      BY <2>4, <2>t, StoreByteEffect
    <3>2. /\ TypeOK' /\ WindowFaithful' /\ Looked' = Looked + 1
          /\ Looked \in Nat /\ Looked + 1 < BufferSize
      BY <1>2, <2>1, <2>4, <2>t, <3>1, LoopIteration DEF Steps
    <3>3. NeverOverrun' /\ IdleIsRewound' /\ TokenInReach'
      BY <2>4, <2>t, <3>1, <3>2, BufferSizeAssumption DEF NeverOverrun, IdleIsRewound, TokenInReach
    <3> QED  BY <3>2, <3>3 DEF IInv
  <2> QED  BY <1>2, <2>2, <2>3, <2>4, <2>t DEF SkipSpace
<1> QED  BY <1>1, <1>2

\* The loop over the token: its bytes are the last ones looked at.
LEMMA CollectByteStep == IInv /\ CollectByte => IInv'
<1> SUFFICES ASSUME IInv, CollectByte PROVE IInv'
  OBVIOUS
<1>1. CASE BufferFull
  <2>1. collected \in 0 .. BufferSize - 1
    BY BufferSizeAssumption DEF IInv, TypeOK, NeverOverrun
  <2> QED  BY <1>1, <2>1, FullBufferStep DEF CollectByte
<1>2. CASE ~BufferFull
  <2>1. /\ AdvanceStream /\ UNCHANGED <<input, last_successful_read, op, reply, consumed>>
        /\ pc = "collect"
    BY <1>2 DEF CollectByte
  <2>t. /\ NextChar \in Bytes \cup {EOF, Space} /\ ~Overrun
        /\ TokenTyped /\ result_token_length < BufferSize
        /\ collected \in Nat /\ collected < BufferSize /\ collected <= Looked
        /\ result \in 0 .. 2
    BY <1>2, <2>1, AdvanceEffect DEF IInv, TypeOK, NeverOverrun, TokenInReach, TokenTyped
  <2>2. CASE NextChar = EOF /\ ReturnToken(2, collected)
    <3>1. TypeOK' /\ WindowFaithful'
      BY <1>2, <2>1, <2>2, <2>t, LoopIteration DEF ReturnToken, TokenTyped, Steps
    <3>2. NeverOverrun' /\ IdleIsRewound' /\ TokenInReach'
      BY <2>2, <2>t, BufferSizeAssumption
         DEF NeverOverrun, IdleIsRewound, TokenInReach, ReturnToken
    <3> QED  BY <3>1, <3>2 DEF IInv
  <2>3. CASE NextChar = Space /\ ReturnToken(0, collected)
    <3>1. EOF # Space
      BY DEF EOF, Space
    <3>2. TypeOK' /\ WindowFaithful' /\ Looked' = Looked + 1 /\ Looked \in Nat
      BY <1>2, <2>1, <2>3, <2>t, <3>1, LoopIteration DEF ReturnToken, TokenTyped, Steps
    <3>3. NeverOverrun' /\ IdleIsRewound' /\ TokenInReach'
      BY <2>3, <2>t, <3>2, BufferSizeAssumption
         DEF NeverOverrun, IdleIsRewound, TokenInReach, ReturnToken
    <3> QED  BY <3>2, <3>3 DEF IInv
  <2>4. CASE NextChar \notin {EOF, Space} /\ StoreByte /\ UNCHANGED pc
    <3>1. /\ TokenTyped' /\ collected' = collected + 1 /\ result' = result
          /\ result_token_length' = result_token_length
      BY <2>4, <2>t, StoreByteEffect
    <3>2. /\ TypeOK' /\ WindowFaithful' /\ Looked' = Looked + 1
          /\ Looked \in Nat /\ Looked + 1 < BufferSize
      BY <1>2, <2>1, <2>4, <2>t, <3>1, LoopIteration DEF Steps
    <3>3. NeverOverrun' /\ IdleIsRewound' /\ TokenInReach'
      BY <2>1, <2>4, <2>t, <3>1, <3>2, BufferSizeAssumption
         DEF NeverOverrun, IdleIsRewound, TokenInReach
    <3> QED  BY <3>2, <3>3 DEF IInv
  <2> QED  BY <1>2, <2>2, <2>3, <2>4, <2>t DEF CollectByte
<1> QED  BY <1>1, <1>2

(***************************************************************************)
(* The conversions.                                                        *)
(***************************************************************************)
\* A failed read goes back to the rewind point: the window stays as it is.
LEMMA RewindStep ==
  ASSUME IInv, pc = "convert", Rewind, NEW code \in 0 .. 2, Finish(code, <<>>)
  PROVE  IInv'
<1>1. TypeOK'
  <2>1. reply' \in [op : TokenOps \cup {"none", "character"}, state : 0 .. 2, text : Seq(Bytes)]
    BY DEF IInv, TypeOK, Finish
  <2> QED  BY <2>1 DEF IInv, TypeOK, Finish, Rewind, Steps, token
<1>2. WindowFaithful'
  <2>1. Held' = Held /\ Looked' = 0 /\ Held \in Nat
    BY DistanceZero, DistanceCases
       DEF IInv, TypeOK, Held, Looked, Rewind, Finish, Distance, Positions
  <2> QED  BY <2>1 DEF IInv, WindowFaithful, Rewind, Finish
<1>3. NeverOverrun' /\ IdleIsRewound' /\ TokenInReach'
  BY DEF IInv, NeverOverrun, IdleIsRewound, TokenInReach, Rewind, Finish, token
<1> QED  BY <1>1, <1>2, <1>3 DEF IInv

\* Giving up on a token that is too long changes nothing but pc.
LEMMA TooLongStep == IInv /\ TooLong => IInv'
<1> SUFFICES ASSUME IInv, TooLong PROVE IInv'
  OBVIOUS
<1>1. TypeOK'
  BY DEF IInv, TypeOK, stream, position, token, TooLong, Steps
<1>2. WindowFaithful'
  BY DEF IInv, WindowFaithful, Held, Looked, Distance, stream, position, TooLong
<1>3. NeverOverrun' /\ IdleIsRewound' /\ TokenInReach'
  BY DEF IInv, NeverOverrun, IdleIsRewound, TokenInReach, TooLong, token
<1> QED  BY <1>1, <1>2, <1>3 DEF IInv

\* The bytes a conversion looks at are bytes of token_buffer.
LEMMA TokenIsBytes ==
  ASSUME IInv
  PROVE  /\ Token \in Seq(Bytes) /\ Len(Token) = result_token_length
         /\ \A j \in 1 .. result_token_length : Token[j] = token_buffer[j - 1]
<1>1. /\ token_buffer \in [Positions -> Bytes] /\ result_token_length \in Nat
      /\ result_token_length < BufferSize
  BY DEF IInv, TypeOK, NeverOverrun
<1>2. ASSUME NEW j \in 1 .. result_token_length PROVE token_buffer[j - 1] \in Bytes
  <2>1. j - 1 \in Positions
    BY <1>1, BufferSizeAssumption DEF Positions
  <2> QED  BY <1>1, <2>1
<1>3. Token \in [1 .. result_token_length -> Bytes]
  BY <1>2 DEF Token
<1> QED  BY <1>1, <1>3 DEF Token

\* The rewind point an accepted token leaves lies in the window.
LEMMA AcceptStep == IInv /\ AcceptToken => IInv'
<1> SUFFICES ASSUME IInv, AcceptToken PROVE IInv'
  OBVIOUS
<1> DEFINE base == last_successful_read
           to   == IF result = 2 THEN cur_pos ELSE getPrevPos(cur_pos)
<1>t. /\ base \in Positions /\ cur_pos \in Positions /\ valid_until \in Positions
      /\ consumed \in Nat /\ fetched \in 0 .. Len(input) /\ Len(input) \in Nat
      /\ result \in 0 .. 2 /\ op \in TokenOps \cup {"none", "character"}
      /\ Token \in Seq(Bytes)
  BY TokenIsBytes DEF IInv, TypeOK
<1>a. /\ pc = "convert" /\ result # 1
      /\ last_successful_read' = to /\ cur_pos' = to
      /\ consumed' = consumed + Distance(base, to)
      /\ reply' = [op |-> op, state |-> 0, text |-> Token] /\ pc' = "idle"
      /\ UNCHANGED <<input, fetched, circular_buffer, valid_until, result, op>>
      /\ UNCHANGED <<token_buffer, collected, result_token_length>>
  BY DEF AcceptToken, UpdateRewindPoint, Finish, token
<1>w. /\ consumed + Held = fetched /\ Looked <= Held
      /\ Window(circular_buffer, base, valid_until, consumed)
  BY DEF IInv, WindowFaithful, Window, Held
<1>d. Held \in Nat /\ Looked \in Nat
  BY <1>t, DistanceCases DEF Held, Looked, Positions
<1>1. to \in Positions /\ Distance(base, to) \in Nat /\ Distance(base, to) <= Looked
  <2>1. CASE result = 2
    BY <2>1, <1>t, <1>d DEF Looked
  <2>2. CASE result # 2
    <3>1. Looked > 0
      BY <1>a, <1>t, <2>2 DEF IInv, TokenInReach
    <3>2. base # cur_pos
      BY <3>1, <1>t, DistanceZero DEF Looked
    <3>3. Distance(base, to) = Looked - 1 /\ to \in Positions
      BY <2>2, <3>2, <1>t, PrevDistance, NeighbourPositions DEF Looked
    <3> QED  BY <3>1, <3>3, <1>d
  <2> QED  BY <2>1, <2>2
<1> HIDE DEF to
<1>2. Distance(base, to) <= Distance(base, valid_until)
  BY <1>1, <1>w, <1>d DEF Held
<1>3. /\ Distance(to, valid_until) = Held - Distance(base, to)
      /\ Window(circular_buffer, to, valid_until, consumed + Distance(base, to))
  BY <1>1, <1>2, <1>t, <1>w, RewindPointMoves DEF Held
<1>4. /\ Held' = Held - Distance(base, to) /\ Held' \in Nat /\ Looked' = 0
  <2>1. Held' = Distance(to, valid_until) /\ Looked' = Distance(to, to)
    BY <1>a DEF Held, Looked, Distance
  <2> QED  BY <2>1, <1>1, <1>2, <1>3, <1>d, DistanceZero DEF Held
<1>5. TypeOK'
  <2>1. consumed' \in 0 .. Len(input)
    BY <1>a, <1>1, <1>2, <1>w, <1>t, <1>d DEF Held
  <2>2. reply' \in [op : TokenOps \cup {"none", "character"}, state : 0 .. 2, text : Seq(Bytes)]
    BY <1>a, <1>t
  <2> QED  BY <1>a, <1>1, <2>1, <2>2 DEF IInv, TypeOK, Steps
<1>6. WindowFaithful'
  <2>1. consumed' + Held' = fetched' /\ Looked' <= Held'
    <3>1. /\ consumed' = consumed + Distance(base, to) /\ fetched' = fetched
          /\ consumed + Held = fetched /\ Held' = Held - Distance(base, to)
      BY <1>a, <1>4, <1>w
    <3> QED  BY <3>1, <1>4, <1>1, <1>d, <1>t
  <2>2. ASSUME NEW k \in 0 .. Held' - 1
        PROVE  circular_buffer'[(last_successful_read' + k) % BufferSize]
                 = input'[consumed' + k + 1]
    BY <2>2, <1>a, <1>3, <1>4 DEF Window
  <2> QED  BY <2>1, <2>2 DEF WindowFaithful
<1>7. NeverOverrun' /\ IdleIsRewound' /\ TokenInReach'
  BY <1>a DEF IInv, NeverOverrun, IdleIsRewound, TokenInReach
<1> QED  BY <1>5, <1>6, <1>7 DEF IInv

(***************************************************************************)
(* Reading a character accepts whatever readNextChar stepped over.  The    *)
(* reader stands at the rewind point, so the buffer is not full.           *)
(***************************************************************************)
LEMMA ReadCharacterStep == IInv /\ ReadCharacter => IInv'
<1> SUFFICES ASSUME IInv, ReadCharacter PROVE IInv'
  OBVIOUS
<1> DEFINE base == last_successful_read
<1>t. /\ base \in Positions /\ cur_pos \in Positions /\ valid_until \in Positions
      /\ consumed \in Nat /\ fetched \in 0 .. Len(input) /\ Len(input) \in Nat
      /\ TypeOK /\ WindowFaithful
  BY DEF IInv, TypeOK
<1>f. ~BufferFull
  <2>1. cur_pos = base
    BY DEF ReadCharacter, IInv, IdleIsRewound
  <2>2. getNextPos(cur_pos) = IF cur_pos + 1 = BufferSize THEN 0 ELSE cur_pos + 1
    BY <1>t, NeighbourPositions
  <2>3. getNextPos(cur_pos) # cur_pos
    BY <2>2, <1>t, BufferSizeAssumption DEF Positions
  <2> QED  BY <2>1, <2>3 DEF BufferFull
<1>a. /\ AdvanceStream /\ UNCHANGED <<input, result>> /\ pc = "idle"
      /\ UNCHANGED <<token_buffer, collected, result_token_length>>
  BY DEF ReadCharacter, token
<1>b. /\ fetched' \in fetched .. Len(input)
      /\ circular_buffer' \in [Positions -> Bytes \cup {Space}]
      /\ cur_pos' \in Positions /\ valid_until' \in Positions
      /\ consumed + Distance(base, valid_until') = fetched'
      /\ Distance(base, cur_pos') <= Distance(base, valid_until')
      /\ NextChar \in Bytes \cup {EOF, Space}
      /\ Window(circular_buffer', base, valid_until', consumed)
      /\ ~Overrun
  BY <1>t, <1>f, <1>a, AdvanceEffect
<1>c. /\ last_successful_read' = cur_pos' /\ pc' = "idle" /\ op' = "character"
      /\ consumed' = consumed + Distance(base, cur_pos')
      /\ reply' = [op |-> "character", state |-> 0,
                   text |-> IF NextChar = EOF THEN <<>> ELSE <<NextChar>>]
  BY <1>a, <1>b DEF ReadCharacter, UpdateRewindPoint
<1>d. /\ Distance(base, cur_pos') \in Nat /\ Distance(base, valid_until') \in Nat
      /\ Distance(cur_pos', valid_until') \in Nat
  BY <1>t, <1>b, DistanceCases DEF Positions
<1>1. /\ Distance(cur_pos', valid_until')
           = Distance(base, valid_until') - Distance(base, cur_pos')
      /\ Window(circular_buffer', cur_pos', valid_until', consumed + Distance(base, cur_pos'))
  BY <1>t, <1>b, RewindPointMoves
<1>2. Held' = Distance(cur_pos', valid_until') /\ Looked' = 0
  <2>1. Held' = Distance(cur_pos', valid_until') /\ Looked' = Distance(cur_pos', cur_pos')
    BY <1>c DEF Held, Looked, Distance
  <2> QED  BY <2>1, <1>b, DistanceZero
<1>3. TypeOK'
  <2>1. consumed' \in 0 .. Len(input)
    BY <1>b, <1>c, <1>d, <1>t
  <2>2. reply' \in [op : TokenOps \cup {"none", "character"}, state : 0 .. 2, text : Seq(Bytes)]
    <3>1. NextChar # EOF => NextChar \in Bytes
      BY <1>b, BytesAssumption
    <3>2. (IF NextChar = EOF THEN <<>> ELSE <<NextChar>>) \in Seq(Bytes)
      BY <3>1
    <3> QED  BY <3>2, <1>c
  <2> QED  BY <1>a, <1>b, <1>c, <2>1, <2>2 DEF IInv, TypeOK, Steps
<1>4. WindowFaithful'
  <2>1. consumed' + Held' = fetched' /\ Looked' <= Held'
    BY <1>b, <1>c, <1>d, <1>1, <1>2, <1>t
  <2>2. ASSUME NEW k \in 0 .. Held' - 1
        PROVE  circular_buffer'[(last_successful_read' + k) % BufferSize]
                 = input'[consumed' + k + 1]
    BY <2>2, <1>a, <1>c, <1>1, <1>2 DEF Window
  <2> QED  BY <2>1, <2>2 DEF WindowFaithful
<1>5. NeverOverrun' /\ IdleIsRewound' /\ TokenInReach'
  BY <1>a, <1>c DEF IInv, NeverOverrun, IdleIsRewound, TokenInReach
<1> QED  BY <1>3, <1>4, <1>5 DEF IInv

(***************************************************************************)
(* Every step.                                                             *)
(***************************************************************************)
LEMMA InvariantStep == IInv /\ [Next]_vars => IInv'
<1> SUFFICES ASSUME IInv, [Next]_vars PROVE IInv'
  OBVIOUS
<1>1. ASSUME NEW kind \in TokenOps, Begin(kind) PROVE IInv'
  BY <1>1, BeginStep
<1>2. CASE SkipSpace
  BY <1>2, SkipSpaceStep
<1>3. CASE CollectByte
  BY <1>3, CollectByteStep
<1>4. CASE EndOfInput
  BY <1>4, RewindStep DEF EndOfInput
<1>5. CASE TooLong
  BY <1>5, TooLongStep
<1>6. CASE RejectToken
  BY <1>6, RewindStep DEF RejectToken
<1>7. CASE AcceptToken
  BY <1>7, AcceptStep
<1>8. CASE ReadCharacter
  BY <1>8, ReadCharacterStep
<1>9. CASE UNCHANGED vars
  <2>1. TypeOK'
    BY <1>9 DEF IInv, TypeOK, vars, stream, position, token
  <2>2. WindowFaithful'
    BY <1>9 DEF IInv, WindowFaithful, Held, Looked, Distance, vars, stream, position
  <2>3. NeverOverrun' /\ IdleIsRewound' /\ TokenInReach'
    BY <1>9 DEF IInv, NeverOverrun, IdleIsRewound, TokenInReach, Looked, Distance,
                vars, stream, position, token
  <2> QED  BY <2>1, <2>2, <2>3 DEF IInv
<1> QED
  BY <1>1, <1>2, <1>3, <1>4, <1>5, <1>6, <1>7, <1>8, <1>9 DEF Next, Convert

(***************************************************************************)
(* IInv, the inductive strengthening of the reader's safety properties, is *)
(* kept by every step of every read.                                       *)
(***************************************************************************)
THEOREM InvariantHolds == Spec => []IInv
  BY InitInvariant, InvariantStep, PTL DEF Spec

(***************************************************************************)
(* readNextToken and its callers keep every C variable in its range, for   *)
(* every buffer size and input: no position leaves circular_buffer.        *)
(***************************************************************************)
THEOREM TypeCorrect == Spec => []TypeOK
<1>1. IInv => TypeOK
  BY DEF IInv
<1> QED  BY <1>1, InvariantHolds, PTL

(***************************************************************************)
(* readNextChar never overwrites a byte that a rewind could replay: the    *)
(* buffer from last_successful_read to valid_until is the unconsumed part  *)
(* of what fgetc returned.                                                 *)
(***************************************************************************)
THEOREM WindowIsFaithful == Spec => []WindowFaithful
<1>1. IInv => WindowFaithful
  BY DEF IInv
<1> QED  BY <1>1, InvariantHolds, PTL

(***************************************************************************)
(* The checks in readNextToken's loops make readNextChar's own overrun     *)
(* exit unreachable, and keep token_buffer within BUFFER_SIZE.             *)
(***************************************************************************)
THEOREM OverrunIsDead == Spec => []NeverOverrun
<1>1. IInv => NeverOverrun
  BY DEF IInv
<1> QED  BY <1>1, InvariantHolds, PTL

(***************************************************************************)
(* Every read returns with the reader at the rewind point, so the next one *)
(* starts where the last one said it stopped.                              *)
(***************************************************************************)
THEOREM ReadsReturnRewound == Spec => []IdleIsRewound
<1>1. IInv => IdleIsRewound
  BY DEF IInv
<1> QED  BY <1>1, InvariantHolds, PTL

(***************************************************************************)
(* Refinement.  The reader implements AbstractInput for every input        *)
(* without the byte 0xFF, which a replay turns into an end of file.        *)
(***************************************************************************)
\* No byte of any input comes back from the circular buffer as EOF.
NoEofByte == Inputs \subseteq Seq(Bytes \ {"xff"})

(***************************************************************************)
(* What the read under way has found so far.  Of the bytes after the       *)
(* consumed ones it has put Scanned behind it (the white space that ended  *)
(* the token does not count): first white space, then the token, which is  *)
(* what token_buffer holds.                                                *)
(***************************************************************************)
Scanned == IF pc = "convert" /\ result = 0 THEN Looked - 1 ELSE Looked

\* How many bytes of the token are in token_buffer.
Found == IF pc = "convert" THEN result_token_length ELSE collected

Scan(t, n) ==
  /\ n <= t /\ consumed + t <= Len(input)
  /\ \A k \in 1 .. t : input[consumed + k] = Space <=> k <= t - n
  /\ \A j \in 1 .. n : token_buffer[j - 1] = input[consumed + (t - n) + j]

\* Why a loop ended, in terms of the input.
StoppedBecause(code) ==
  /\ code = 0 => /\ result_token_length > 0
                 /\ consumed + Looked <= Len(input)
                 /\ input[consumed + Looked] = Space
  /\ code = 1 => Looked = BufferSize - 1
  /\ code = 2 => consumed + Looked = Len(input)
  /\ code # 1 => Scanned < BufferSize - 1

ScanInv ==
  /\ input \in Inputs
  /\ pc \in {"skip", "collect", "convert"} =>
       op \in TokenOps /\ Scan(Scanned, Found)
  /\ pc = "collect" => collected > 0
  /\ pc = "convert" => StoppedBecause(result)

RInv == IInv /\ ScanInv

(***************************************************************************)
(* What readNextChar returns is the next byte of the input, fetched or     *)
(* replayed, and it does not move at the end.                              *)
(***************************************************************************)
LEMMA NextCharIsNextByte ==
  ASSUME NoEofByte, RInv
  PROVE  /\ Looked \in Nat /\ consumed \in Nat /\ Len(input) \in Nat
         /\ consumed + Looked <= Len(input)
         /\ NextChar = IF consumed + Looked < Len(input)
                       THEN input[consumed + Looked + 1] ELSE EOF
         /\ NextChar = EOF <=> consumed + Looked = Len(input)
<1> DEFINE base == last_successful_read
<1>t. /\ base \in Positions /\ cur_pos \in Positions /\ valid_until \in Positions
      /\ fetched \in 0 .. Len(input) /\ Len(input) \in Nat /\ consumed \in Nat
  BY DEF RInv, IInv, TypeOK
<1>i. \A i \in 1 .. Len(input) : input[i] \in Bytes /\ input[i] # "xff" /\ input[i] # EOF
  <2>1. input \in Seq(Bytes \ {"xff"})
    BY DEF RInv, ScanInv, NoEofByte
  <2> QED  BY <2>1, EOFAssumption
<1>d. Held \in Nat /\ Looked \in Nat
  BY <1>t, DistanceCases DEF Held, Looked, Positions
<1>w. /\ consumed + Held = fetched /\ Looked <= Held
      /\ \A k \in 0 .. Held - 1 :
           circular_buffer[(base + k) % BufferSize] = input[consumed + k + 1]
  BY DEF RInv, IInv, WindowFaithful
<1>1. CASE cur_pos = valid_until
  <2>1. Looked = Held
    BY <1>1 DEF Looked, Held
  <2>2. fetched = consumed + Looked
    BY <2>1, <1>w
  <2>3. NextChar = IF fetched < Len(input) THEN input[fetched + 1] ELSE EOF
    BY <1>1 DEF NextChar
  <2> QED  BY <2>2, <2>3, <1>t, <1>d, <1>i
<1>2. CASE cur_pos # valid_until
  <2>1. Looked < Held
    <3>1. Looked # Held
      BY <1>2, <1>t, SameDistance DEF Looked, Held
    <3> QED  BY <3>1, <1>w, <1>d
  <2>2. (base + Looked) % BufferSize = cur_pos
    <3>1. Looked \in 0 .. Distance(base, cur_pos)
      BY <1>d DEF Looked
    <3> QED  BY <3>1, <1>t, SlotAtDistance DEF Looked
  <2>3. circular_buffer[cur_pos] = input[consumed + Looked + 1]
    BY <2>1, <2>2, <1>w, <1>d
  <2>4. consumed + Looked + 1 \in 1 .. Len(input)
    BY <2>1, <1>w, <1>t, <1>d
  <2>5. NextChar = input[consumed + Looked + 1]
    BY <1>2, <2>3, <2>4, <1>i DEF NextChar, SignedChar
  <2> QED  BY <2>4, <2>5, <1>t, <1>d, <1>i
<1> QED  BY <1>1, <1>2

\* At the end of the input the reader stays where it is.
LEMMA EofStays ==
  ASSUME NoEofByte, RInv, AdvanceStream, NextChar = EOF
  PROVE  cur_pos' = cur_pos
<1>t. /\ fetched \in 0 .. Len(input) /\ Len(input) \in Nat
      /\ last_successful_read \in Positions /\ cur_pos \in Positions
      /\ valid_until \in Positions /\ consumed \in Nat
  BY DEF RInv, IInv, TypeOK
<1>d. Held \in Nat /\ Looked \in Nat
  BY <1>t, DistanceCases DEF Held, Looked, Positions
<1>1. consumed + Looked = Len(input)
  BY NextCharIsNextByte
<1>2. Looked <= Held /\ consumed + Held = fetched
  BY DEF RInv, IInv, WindowFaithful
<1>3. Looked = Held /\ fetched = Len(input)
  BY <1>1, <1>2, <1>t, <1>d
<1>4. cur_pos = valid_until
  BY <1>3, <1>t, SameDistance DEF Looked, Held
<1> QED  BY <1>3, <1>4, <1>t DEF AdvanceStream

\* The buffer is full when all but one of its bytes have been looked at.
LEMMA FullDistance ==
  ASSUME IInv, BufferFull
  PROVE  Looked = BufferSize - 1
<1> DEFINE base == last_successful_read
<1>1. base \in Positions /\ cur_pos \in Positions
  BY DEF IInv, TypeOK
<1>2. getNextPos(cur_pos) = IF cur_pos + 1 = BufferSize THEN 0 ELSE cur_pos + 1
  BY <1>1, NeighbourPositions
<1>3. Looked = IF base <= cur_pos THEN cur_pos - base ELSE cur_pos - base + BufferSize
  BY <1>1, DistanceCases DEF Looked
<1>4. getNextPos(cur_pos) = base
  BY DEF BufferFull
<1> HIDE DEF base
<1> QED  BY <1>1, <1>2, <1>3, <1>4, BufferSizeAssumption DEF Positions

(***************************************************************************)
(* ScanInv is kept by every step.                                          *)
(***************************************************************************)
\* Nothing has been looked at when no read is under way.
LEMMA IdleLooked ==
  ASSUME IInv, pc = "idle"
  PROVE  Looked = 0
<1>1. last_successful_read \in Positions /\ cur_pos = last_successful_read
  BY DEF IInv, TypeOK, IdleIsRewound
<1> QED  BY <1>1, DistanceZero DEF Looked

\* A new read has looked at nothing.
LEMMA BeginScan ==
  ASSUME RInv, NEW kind \in TokenOps, Begin(kind)
  PROVE  ScanInv'
<1>1. Looked' = 0
  <2>1. Looked' = Looked
    BY DEF Begin, stream, position, Looked, Distance
  <2> QED  BY <2>1, IdleLooked DEF RInv, Begin
<1>2. /\ input' = input /\ input \in Inputs /\ consumed' = consumed
      /\ consumed \in 0 .. Len(input) /\ Len(input) \in Nat
      /\ pc' = "skip" /\ op' = kind /\ collected' = 0
  BY DEF RInv, IInv, TypeOK, TokenInReach, ScanInv, Begin, stream, token
<1>3. Scanned' = 0 /\ Found' = 0
  BY <1>1, <1>2 DEF Scanned, Found
<1>4. Scan(0, 0)'
  BY <1>2 DEF Scan
<1> QED  BY <1>2, <1>3, <1>4 DEF ScanInv

\* What the two loops have in common when they stop: the bytes put behind
\* stay the same.
LEMMA LoopStops ==
  ASSUME NoEofByte, RInv, pc \in {"skip", "collect"},
         UNCHANGED <<input, token_buffer, op, consumed>>,
         pc' = "convert", result_token_length' = collected, result' \in 0 .. 2,
         Scanned' = Looked, StoppedBecause(result)'
  PROVE  ScanInv'
<1>1. input' \in Inputs /\ op' \in TokenOps /\ Scan(Looked, collected)
  BY DEF RInv, ScanInv, Scanned, Found
<1>2. Scan(Scanned, Found)'
  BY <1>1 DEF Scan, Found
<1> QED  BY <1>1, <1>2 DEF ScanInv

\* The loop over white space has seen nothing else.
LEMMA SkipSpaceScan ==
  ASSUME NoEofByte, RInv, SkipSpace
  PROVE  ScanInv'
<1>t. /\ collected = 0 /\ pc = "skip" /\ input \in Inputs /\ op \in TokenOps
      /\ Scan(Looked, 0) /\ consumed' = consumed /\ op' = op
      /\ Looked \in Nat /\ consumed \in Nat /\ Len(input) \in Nat
  BY NextCharIsNextByte DEF RInv, IInv, TokenInReach, ScanInv, SkipSpace, Scanned, Found
<1>1. CASE BufferFull
  <2>1. /\ UNCHANGED stream /\ result' = 1 /\ pc' = "convert"
        /\ token_buffer' = token_buffer /\ result_token_length' = 0
    BY <1>1 DEF SkipSpace, ReturnToken
  <2>2. Looked' = Looked /\ Looked = BufferSize - 1
    BY <1>1, <2>1, FullDistance DEF RInv, stream, position, Looked, Distance
  <2>3. Scanned' = Looked /\ StoppedBecause(result)' /\ input' = input
    BY <2>1, <2>2 DEF Scanned, StoppedBecause, stream
  <2> QED  BY <2>1, <2>3, <1>t, LoopStops
<1>2. CASE ~BufferFull
  <2>1. /\ AdvanceStream /\ UNCHANGED <<input, last_successful_read, op, reply, consumed>>
    BY <1>2 DEF SkipSpace
  <2>t. NextChar \in Bytes \cup {EOF, Space} /\ ~Overrun /\ TokenTyped
    BY <1>2, <2>1, AdvanceEffect DEF RInv, IInv, TypeOK, TokenTyped
  <2>2. CASE NextChar = EOF /\ ReturnToken(2, 0)
    <3>1. Looked + 1 < BufferSize /\ Looked' = Looked
      <4>1. pc' \in Steps /\ result' \in 0 .. 2 /\ TokenTyped'
        BY <2>2, <2>t DEF ReturnToken, TokenTyped, Steps
      <4>2. cur_pos' = cur_pos
        BY <2>1, <2>2, EofStays
      <4> QED  BY <1>2, <2>1, <4>1, <4>2, LoopIteration DEF RInv, Looked, Distance
    <3>2. consumed + Looked = Len(input)
      BY <2>2, NextCharIsNextByte
    <3>3. Scanned' = Looked
      BY <2>2, <3>1 DEF Scanned, ReturnToken
    <3>4. StoppedBecause(result)'
      BY <2>1, <2>2, <3>1, <3>2, <3>3, <1>t, BufferSizeAssumption
         DEF StoppedBecause, ReturnToken
    <3> QED  BY <2>1, <2>2, <3>3, <3>4, <1>t, LoopStops DEF ReturnToken
  <2>3. CASE NextChar = Space /\ UNCHANGED <<pc, result, token>>
    <3>1. Looked' = Looked + 1
      <4>1. pc' \in Steps /\ result' \in 0 .. 2 /\ TokenTyped'
        BY <2>3, <2>t DEF RInv, IInv, TypeOK, token, TokenTyped
      <4>2. NextChar # EOF
        BY <2>3 DEF EOF, Space
      <4> QED  BY <1>2, <2>1, <4>1, <4>2, LoopIteration DEF RInv
    <3>2. consumed + Looked < Len(input) /\ input[consumed + Looked + 1] = Space
      BY <2>3, NextCharIsNextByte DEF EOF, Space
    <3>3. Scan(Looked + 1, 0)
      BY <3>2, <1>t DEF Scan
    <3>4. Scanned' = Looked + 1 /\ Found' = 0
      BY <2>3, <3>1, <1>t DEF Scanned, Found, token
    <3>5. Scan(Scanned, Found)'
      BY <2>1, <2>3, <3>3, <3>4, <1>t DEF Scan
    <3> QED  BY <2>1, <2>3, <3>5, <1>t DEF ScanInv, token
  <2>4. CASE NextChar \notin {EOF, Space} /\ StoreByte /\ pc' = "collect"
    <3>1. Looked' = Looked + 1
      <4>1. pc' \in Steps /\ result' \in 0 .. 2 /\ TokenTyped'
        BY <2>4, <2>t, StoreByteEffect DEF RInv, IInv, TypeOK, Steps
      <4> QED  BY <1>2, <2>1, <2>4, <4>1, LoopIteration DEF RInv
    <3>2. consumed + Looked < Len(input) /\ input[consumed + Looked + 1] = NextChar
      BY <2>4, NextCharIsNextByte
    <3>3. Scanned' = Looked + 1 /\ Found' = 1 /\ token_buffer'[1 - 1] = NextChar
      <4>1. 0 \in Positions
        BY BufferSizeAssumption DEF Positions
      <4> QED  BY <2>4, <2>t, <3>1, <1>t, <4>1 DEF Scanned, Found, StoreByte, TokenTyped
    <3>4. Scan(Scanned, Found)'
      <4>1. \A k \in 1 .. Looked : input[consumed + k] = Space
        BY <1>t DEF Scan
      <4>2. input[consumed + (Looked + 1)] # Space
        BY <2>4, <3>2, <1>t
      <4>3. \A k \in 1 .. Looked + 1 :
              input[consumed + k] = Space <=> k <= Looked + 1 - 1
        <5> SUFFICES ASSUME NEW k \in 1 .. Looked + 1
                     PROVE  input[consumed + k] = Space <=> k <= Looked
          BY <1>t
        <5>1. CASE k = Looked + 1
          BY <5>1, <4>2, <1>t
        <5>2. CASE k # Looked + 1
          <6>1. k \in 1 .. Looked /\ k <= Looked
            BY <5>2, <1>t
          <6> QED  BY <6>1, <4>1
        <5> QED  BY <5>1, <5>2
      <4>4. consumed + (Looked + 1) <= Len(input)
        BY <3>2, <1>t
      <4>5. token_buffer'[1 - 1] = input[consumed + (Looked + 1 - 1) + 1]
        BY <3>2, <3>3, <1>t
      <4> QED  BY <2>1, <3>3, <4>3, <4>4, <4>5, <1>t DEF Scan
    <3> QED  BY <2>1, <2>4, <3>4, <1>t DEF ScanInv, StoreByte
  <2> QED  BY <1>2, <2>2, <2>3, <2>4, <2>t DEF SkipSpace
<1> QED  BY <1>1, <1>2

\* The loop over the token has copied every byte since the white space.
LEMMA CollectByteScan ==
  ASSUME NoEofByte, RInv, CollectByte
  PROVE  ScanInv'
<1> DEFINE n == collected
<1>t. /\ pc = "collect" /\ input \in Inputs /\ op \in TokenOps
      /\ Scan(Looked, n) /\ consumed' = consumed /\ op' = op
      /\ Looked \in Nat /\ consumed \in Nat /\ Len(input) \in Nat
      /\ TokenTyped /\ n \in Nat /\ n > 0 /\ n < BufferSize
  <2>1. TokenTyped /\ n \in Nat /\ n > 0 /\ n < BufferSize
    BY DEF RInv, ScanInv, IInv, TypeOK, NeverOverrun, TokenTyped, CollectByte
  <2> QED  BY <2>1, NextCharIsNextByte DEF RInv, ScanInv, CollectByte, Scanned, Found
<1>1. CASE BufferFull
  <2>1. /\ UNCHANGED stream /\ result' = 1 /\ pc' = "convert"
        /\ token_buffer' = token_buffer /\ result_token_length' = n
    BY <1>1 DEF CollectByte, ReturnToken
  <2>2. Looked' = Looked /\ Looked = BufferSize - 1
    BY <1>1, <2>1, FullDistance DEF RInv, stream, position, Looked, Distance
  <2>3. Scanned' = Looked /\ StoppedBecause(result)' /\ input' = input
    BY <2>1, <2>2 DEF Scanned, StoppedBecause, stream
  <2> QED  BY <2>1, <2>3, <1>t, LoopStops
<1>2. CASE ~BufferFull
  <2>1. /\ AdvanceStream /\ UNCHANGED <<input, last_successful_read, op, reply, consumed>>
    BY <1>2 DEF CollectByte
  <2>t. NextChar \in Bytes \cup {EOF, Space} /\ ~Overrun
    BY <1>2, <2>1, AdvanceEffect DEF RInv, IInv, TypeOK
  <2>2. CASE NextChar = EOF /\ ReturnToken(2, n)
    <3>1. Looked + 1 < BufferSize /\ Looked' = Looked
      <4>1. pc' \in Steps /\ result' \in 0 .. 2 /\ TokenTyped'
        BY <2>2, <1>t DEF ReturnToken, TokenTyped, Steps
      <4>2. cur_pos' = cur_pos
        BY <2>1, <2>2, EofStays
      <4> QED  BY <1>2, <2>1, <4>1, <4>2, LoopIteration DEF RInv, Looked, Distance
    <3>2. consumed + Looked = Len(input)
      BY <2>2, NextCharIsNextByte
    <3>3. Scanned' = Looked
      BY <2>2, <3>1 DEF Scanned, ReturnToken
    <3>4. StoppedBecause(result)'
      BY <2>1, <2>2, <3>1, <3>2, <3>3, <1>t, BufferSizeAssumption
         DEF StoppedBecause, ReturnToken
    <3> QED  BY <2>1, <2>2, <3>3, <3>4, <1>t, LoopStops DEF ReturnToken
  <2>3. CASE NextChar = Space /\ ReturnToken(0, n)
    <3>1. NextChar # EOF
      BY <2>3 DEF EOF, Space
    <3>2. Looked' = Looked + 1 /\ Looked + 1 < BufferSize
      <4>1. pc' \in Steps /\ result' \in 0 .. 2 /\ TokenTyped'
        BY <2>3, <1>t DEF ReturnToken, TokenTyped, Steps
      <4> QED  BY <1>2, <2>1, <3>1, <4>1, LoopIteration DEF RInv
    <3>3. consumed + Looked < Len(input) /\ input[consumed + Looked + 1] = Space
      BY <2>3, <3>1, NextCharIsNextByte
    <3>4. Scanned' = Looked
      BY <2>3, <3>2, <1>t DEF Scanned, ReturnToken
    <3>5. consumed + Looked' = consumed + Looked + 1
      BY <3>2, <1>t
    <3>6. StoppedBecause(result)'
      BY <2>1, <2>3, <3>2, <3>3, <3>4, <3>5, <1>t, BufferSizeAssumption
         DEF StoppedBecause, ReturnToken
    <3> QED  BY <2>1, <2>3, <3>4, <3>6, <1>t, LoopStops DEF ReturnToken
  <2>4. CASE NextChar \notin {EOF, Space} /\ StoreByte /\ UNCHANGED pc
    <3>1. /\ TokenTyped' /\ collected' = n + 1 /\ result' = result
          /\ \A j \in 1 .. n : token_buffer'[j - 1] = token_buffer[j - 1]
          /\ token_buffer'[(n + 1) - 1] = NextChar
      <4>1. n \in Positions /\ \A j \in 1 .. n : j - 1 \in Positions /\ j - 1 # n
        BY <1>t, BufferSizeAssumption DEF Positions
      <4>2. (n + 1) - 1 = n
        BY <1>t
      <4>3. token_buffer' = [token_buffer EXCEPT ![n] = NextChar]
        BY <2>4 DEF StoreByte
      <4>4. token_buffer \in [Positions -> Bytes]
        BY <1>t DEF TokenTyped
      <4>5. /\ \A j \in 1 .. n : token_buffer'[j - 1] = token_buffer[j - 1]
            /\ token_buffer'[n] = NextChar
        BY ONLY <4>1, <4>3, <4>4
      <4> QED  BY <2>4, <2>t, <1>t, <4>2, <4>5, StoreByteEffect
    <3>2. Looked' = Looked + 1
      <4>1. pc' \in Steps /\ result' \in 0 .. 2
        BY <2>4, <2>t, <3>1 DEF RInv, IInv, TypeOK, Steps
      <4> QED  BY <1>2, <2>1, <2>4, <3>1, <4>1, LoopIteration DEF RInv
    <3>3. consumed + Looked < Len(input) /\ input[consumed + Looked + 1] = NextChar
      BY <2>4, NextCharIsNextByte
    <3>4. Scanned' = Looked + 1 /\ Found' = n + 1
      BY <2>4, <3>1, <3>2, <1>t DEF Scanned, Found
    <3> HIDE DEF n
    <3>5. Scan(Scanned, Found)'
      <4>1. /\ \A k \in 1 .. Looked : input[consumed + k] = Space <=> k <= Looked - n
            /\ \A j \in 1 .. n : token_buffer[j - 1] = input[consumed + (Looked - n) + j]
            /\ n <= Looked
        BY <1>t DEF Scan
      <4>2. input[consumed + (Looked + 1)] # Space
        BY <2>4, <3>3, <1>t
      <4>3. \A k \in 1 .. Looked + 1 :
              input[consumed + k] = Space <=> k <= Looked + 1 - (n + 1)
        <5> SUFFICES ASSUME NEW k \in 1 .. Looked + 1
                     PROVE  input[consumed + k] = Space <=> k <= Looked + 1 - (n + 1)
          OBVIOUS
        <5>1. CASE k = Looked + 1
          BY <5>1, <4>1, <4>2, <1>t
        <5>2. CASE k # Looked + 1
          BY <5>2, <4>1, <1>t
        <5> QED  BY <5>1, <5>2
      <4>4. consumed + (Looked + 1) <= Len(input)
        BY <3>3, <1>t
      <4>5. \A j \in 1 .. n + 1 :
              token_buffer'[j - 1] = input[consumed + (Looked + 1 - (n + 1)) + j]
        <5> SUFFICES ASSUME NEW j \in 1 .. n + 1
                     PROVE  token_buffer'[j - 1] = input[consumed + (Looked + 1 - (n + 1)) + j]
          OBVIOUS
        <5>1. consumed + (Looked + 1 - (n + 1)) + j = consumed + (Looked - n) + j
          BY <1>t
        <5>2. CASE j = n + 1
          <6>1. consumed + (Looked - n) + j = consumed + Looked + 1
            BY <5>2, <1>t
          <6> QED  BY <5>1, <5>2, <6>1, <3>1, <3>3
        <5>3. CASE j # n + 1
          <6>1. j \in 1 .. n
            BY <5>3, <1>t
          <6> QED  BY <5>1, <6>1, <3>1, <4>1
        <5> QED  BY <5>2, <5>3
      <4>6. n + 1 <= Looked + 1 /\ n \in Nat /\ Looked \in Nat /\ consumed \in Nat
        BY <4>1, <1>t
      <4>7. /\ Scanned' = Looked + 1 /\ Found' = n + 1
            /\ input' = input /\ consumed' = consumed
        BY <2>1, <3>1, <3>4
      <4>8. Scan(Scanned, Found)' <=>
              /\ Found' <= Scanned' /\ consumed + Scanned' <= Len(input)
              /\ \A k \in 1 .. Scanned' :
                   input[consumed + k] = Space <=> k <= Scanned' - Found'
              /\ \A j \in 1 .. Found' :
                   token_buffer'[j - 1] = input[consumed + (Scanned' - Found') + j]
        BY <4>7 DEF Scan
      <4> QED  BY <4>3, <4>4, <4>5, <4>6, <4>7, <4>8
    <3> QED  BY <2>1, <2>4, <3>1, <3>4, <3>5, <1>t DEF ScanInv, n
  <2> QED  BY <1>2, <2>2, <2>3, <2>4, <2>t DEF CollectByte
<1> QED  BY <1>1, <1>2

\* A read that has ended has nothing under way.
LEMMA EndedScan ==
  ASSUME RInv, UNCHANGED input, pc' \in {"idle", "toolong", "overrun"}
  PROVE  ScanInv'
  BY DEF RInv, ScanInv

\* The refinement's invariant holds at the start.
LEMMA RefinementInit == Init => RInv
<1> SUFFICES ASSUME Init PROVE RInv
  OBVIOUS
<1>1. IInv
  BY InitInvariant
<1>2. ScanInv
  BY DEF Init, ScanInv
<1> QED  BY <1>1, <1>2 DEF RInv

\* Every step keeps the refinement's invariant.
LEMMA RefinementStep ==
  ASSUME NoEofByte, RInv, [Next]_vars
  PROVE  RInv'
<1> SUFFICES ScanInv'
  BY InvariantStep DEF RInv
<1>1. ASSUME NEW kind \in TokenOps, Begin(kind) PROVE ScanInv'
  BY <1>1, BeginScan
<1>2. CASE SkipSpace
  BY <1>2, SkipSpaceScan
<1>3. CASE CollectByte
  BY <1>3, CollectByteScan
<1>4. CASE Convert
  BY <1>4, EndedScan DEF Convert, EndOfInput, TooLong, RejectToken, AcceptToken, Finish, stream
<1>5. CASE ReadCharacter
  BY <1>5, EndedScan DEF ReadCharacter
<1>6. CASE UNCHANGED vars
  <2>1. /\ Looked' = Looked /\ UNCHANGED <<input, consumed, pc, result, op>>
        /\ UNCHANGED <<token_buffer, collected, result_token_length>>
    BY <1>6 DEF vars, stream, position, token, Looked, Distance
  <2>2. Scanned' = Scanned /\ Found' = Found
    BY <2>1 DEF Scanned, Found
  <2> QED  BY <2>1, <2>2 DEF RInv, ScanInv, Scan, StoppedBecause
<1> QED  BY <1>1, <1>2, <1>3, <1>4, <1>5, <1>6 DEF Next

(***************************************************************************)
(* The abstract reader's view of the bytes that follow the consumed ones.  *)
(***************************************************************************)
\* A set of numbers has a least one, and Least finds it.
LEMMA LeastNumber ==
  ASSUME NEW S \in SUBSET Nat, S # {}
  PROVE  Abstract!Least(S) \in S /\ \A m \in S : Abstract!Least(S) <= m
<1> DEFINE R == {ss \in Nat \X Nat : ss[1] < ss[2]}
<1>1. IsWellFoundedOn(R, Nat)
  BY NatLessThanWellFounded DEF OpToRel
<1> HIDE DEF R
<1>2. PICK n \in S : \A m \in S : ~(<<m, n>> \in R)
  BY <1>1, WFMin
<1>3. \A m \in S : ~(m < n)
  BY <1>2 DEF R
<1>4. \E i \in S : \A m \in S : i <= m
  BY <1>3
<1> QED  BY <1>4 DEF Abstract!Least

\* A member that none is below is the least one.
LEMMA LeastIs ==
  ASSUME NEW S \in SUBSET Nat, NEW n \in S, \A m \in S : n <= m
  PROVE  Abstract!Least(S) = n
<1>1. Abstract!Least(S) \in S /\ \A m \in S : Abstract!Least(S) <= m
  BY LeastNumber
<1>2. Abstract!Least(S) <= n /\ n <= Abstract!Least(S)
  BY <1>1
<1>3. n \in Nat /\ Abstract!Least(S) \in Nat
  BY <1>1
<1> QED  BY <1>2, <1>3

\* White space w and a token of n bytes, then the end or white space again.
LEMMA TokenIsNext ==
  ASSUME NEW s \in Seq(Bytes), NEW t \in 0 .. Len(s), NEW n \in 0 .. t,
         \A k \in 1 .. t : s[k] = Space <=> k <= t - n,
         t = Len(s) \/ (n > 0 /\ s[t + 1] = Space)
  PROVE  /\ Abstract!TokenEnd(s) = t
         /\ Abstract!NextToken(s) = SubSeq(s, t - n + 1, t)
<1>n. Len(s) \in Nat
  OBVIOUS
<1> DEFINE Starts == {i \in 0 .. Len(s) : i = Len(s) \/ s[i + 1] # Space}
<1>1. Abstract!Leading(s) = t - n
  <2>1. t - n \in Starts
    <3>1. CASE n = 0
      BY <3>1, <1>n
    <3>2. CASE n > 0
      <4>1. t - n + 1 \in 1 .. t /\ ~(t - n + 1 <= t - n)
        BY <3>2
      <4>2. s[t - n + 1] # Space
        BY <4>1
      <4> QED  BY <4>1, <4>2, <1>n
    <3> QED  BY <3>1, <3>2
  <2>2. ASSUME NEW i \in Starts, i < t - n PROVE FALSE
    <3>1. i \in Nat /\ i + 1 \in 1 .. t /\ i + 1 <= t - n /\ i # Len(s)
      BY <2>2, <1>n
    <3>2. s[i + 1] = Space
      BY <3>1
    <3> QED  BY <2>2, <3>1, <3>2
  <2>3. Starts \in SUBSET Nat /\ \A i \in Starts : t - n <= i
    BY <2>2, <1>n
  <2>4. Abstract!Least(Starts) = t - n
    <3> HIDE DEF Starts
    <3> QED  BY <2>1, <2>3, LeastIs
  <2> QED  BY <2>4 DEF Abstract!Leading
<1> DEFINE Ends == {i \in t - n .. Len(s) : i = Len(s) \/ s[i + 1] = Space}
<1>2. Abstract!TokenEnd(s) = t
  <2>1. t \in Ends
    BY <1>n
  <2>2. ASSUME NEW i \in Ends, i < t PROVE FALSE
    <3>1. i \in Nat /\ i + 1 \in 1 .. t /\ ~(i + 1 <= t - n) /\ i # Len(s)
      BY <2>2, <1>n
    <3>2. s[i + 1] # Space
      BY <3>1
    <3> QED  BY <2>2, <3>1, <3>2
  <2>3. Ends \in SUBSET Nat /\ \A i \in Ends : t <= i
    BY <2>2, <1>n
  <2>4. Abstract!Least(Ends) = t
    <3> HIDE DEF Ends
    <3> QED  BY <2>1, <2>3, LeastIs
  <2> QED  BY <1>1, <2>4 DEF Abstract!TokenEnd
<1> QED  BY <1>1, <1>2 DEF Abstract!NextToken

\* White space and part of a token: the token ends no earlier than that.
LEMMA TokenEndsLater ==
  ASSUME NEW s \in Seq(Bytes), NEW t \in 0 .. Len(s), NEW n \in 0 .. t,
         \A k \in 1 .. t : s[k] = Space <=> k <= t - n
  PROVE  Abstract!TokenEnd(s) \in Nat /\ t <= Abstract!TokenEnd(s)
<1>n. Len(s) \in Nat
  OBVIOUS
<1> DEFINE Starts == {i \in 0 .. Len(s) : i = Len(s) \/ s[i + 1] # Space}
<1>1. /\ Abstract!Leading(s) \in 0 .. Len(s) /\ t - n <= Abstract!Leading(s)
  <2>1. Starts \in SUBSET Nat /\ Len(s) \in Starts
    BY <1>n
  <2>2. ASSUME NEW i \in Starts, i < t - n PROVE FALSE
    <3>1. i \in Nat /\ i + 1 \in 1 .. t /\ i + 1 <= t - n /\ i # Len(s)
      BY <2>2, <1>n
    <3>2. s[i + 1] = Space
      BY <3>1
    <3> QED  BY <2>2, <3>1, <3>2
  <2>3. Abstract!Least(Starts) \in Starts
    <3> HIDE DEF Starts
    <3> QED  BY <2>1, LeastNumber
  <2>4. Abstract!Leading(s) \in Starts
    BY <2>3 DEF Abstract!Leading
  <2> QED  BY <2>2, <2>4, <1>n
<1> DEFINE w == Abstract!Leading(s)
           Ends == {i \in w .. Len(s) : i = Len(s) \/ s[i + 1] = Space}
<1> HIDE DEF w
<1>w. w \in 0 .. Len(s) /\ t - n <= w
  BY <1>1 DEF w
<1>2. Ends \in SUBSET Nat /\ Len(s) \in Ends
  BY <1>w, <1>n
<1>3. ASSUME NEW i \in Ends, i < t PROVE FALSE
  <2>1. i \in Nat /\ i + 1 \in 1 .. t /\ ~(i + 1 <= t - n) /\ i # Len(s)
    BY <1>3, <1>w, <1>n
  <2>2. s[i + 1] # Space
    BY <2>1
  <2> QED  BY <1>3, <2>1, <2>2
<1>4. Abstract!Least(Ends) \in Ends
  <2> HIDE DEF Ends
  <2> QED  BY <1>2, LeastNumber
<1>5. Abstract!TokenEnd(s) \in Ends
  BY <1>4 DEF Abstract!TokenEnd, w
<1> QED  BY <1>3, <1>5, <1>w, <1>n

\* What follows the consumed bytes, byte by byte.
LEMMA RestOfInput ==
  ASSUME IInv
  PROVE  /\ Abstract!Rest \in Seq(Bytes)
         /\ Len(Abstract!Rest) = Len(input) - consumed
         /\ \A k \in 1 .. Len(input) - consumed : Abstract!Rest[k] = input[consumed + k]
<1>1. input \in Seq(Bytes) /\ consumed \in 0 .. Len(input) /\ Len(input) \in Nat
  BY DEF IInv, TypeOK
<1>2. \A i \in consumed + 1 .. Len(input) : input[i] \in Bytes
  BY <1>1
<1>3. /\ SubSeq(input, consumed + 1, Len(input)) \in Seq(Bytes)
      /\ Len(SubSeq(input, consumed + 1, Len(input)))
           = IF consumed + 1 <= Len(input) THEN Len(input) - (consumed + 1) + 1 ELSE 0
      /\ \A i \in 1 .. Len(input) - (consumed + 1) + 1 :
           SubSeq(input, consumed + 1, Len(input))[i] = input[consumed + 1 + i - 1]
  <2>1. consumed + 1 \in Int /\ Len(input) \in Int
    BY <1>1
  <2> QED  BY <1>2, <2>1, SubSeqProperties
<1> QED  BY <1>1, <1>3 DEF Abstract!Rest

\* When readNextToken returns a token or the end of the input, its bytes are
\* the next token of the input, and the reader has looked just past it.
LEMMA TokenIsComplete ==
  ASSUME RInv, pc = "convert", result # 1
  PROVE  /\ Abstract!NextToken(Abstract!Rest) = Token
         /\ Abstract!TokenEnd(Abstract!Rest) = Scanned
         /\ Scanned < BufferSize - 1
<1> DEFINE n == result_token_length
           s == Abstract!Rest
           t == Scanned
<1>t. /\ Token \in Seq(Bytes) /\ n \in Nat /\ Len(Token) = n
      /\ \A i \in 1 .. n : Token[i] = token_buffer[i - 1]
      /\ consumed \in Nat /\ Len(input) \in Nat /\ result \in {0, 2}
  BY TokenIsBytes DEF RInv, IInv, TypeOK
<1>l. Looked \in Nat
  <2>1. last_successful_read \in Positions /\ cur_pos \in Positions
    BY DEF RInv, IInv, TypeOK
  <2> QED  BY <2>1, DistanceCases DEF Looked, Positions
<1>s. /\ Scan(t, n) /\ StoppedBecause(result)
      /\ result = 0 => t = Looked - 1 /\ Looked > 0
      /\ result = 2 => t = Looked
  BY <1>t DEF RInv, IInv, TokenInReach, ScanInv, Scanned, Found
<1>n. t \in Nat /\ n <= t /\ consumed + t <= Len(input)
  BY <1>s, <1>t, <1>l DEF Scan
<1>r. /\ s \in Seq(Bytes) /\ Len(s) = Len(input) - consumed
      /\ \A k \in 1 .. Len(input) - consumed : s[k] = input[consumed + k]
  BY RestOfInput DEF RInv
<1>1. t \in 0 .. Len(s) /\ n \in 0 .. t
  BY <1>n, <1>r, <1>t
<1>2. ASSUME NEW k \in 1 .. t PROVE s[k] = Space <=> k <= t - n
  <2>1. input[consumed + k] = Space <=> k <= t - n
    BY <1>s DEF Scan
  <2>2. s[k] = input[consumed + k]
    BY <1>r, <1>n, <1>t
  <2> QED  BY <2>1, <2>2
<1>3. t = Len(s) \/ (n > 0 /\ s[t + 1] = Space)
  <2>1. CASE result = 0
    <3>1. n > 0 /\ t + 1 = Looked /\ Looked <= Len(input) - consumed
      BY <2>1, <1>s, <1>t, <1>l DEF StoppedBecause
    <3>2. s[t + 1] = Space
      BY <2>1, <3>1, <1>s, <1>r, <1>n DEF StoppedBecause
    <3> QED  BY <3>1, <3>2
  <2>2. CASE result = 2
    BY <2>2, <1>s, <1>r, <1>t, <1>l DEF StoppedBecause
  <2> QED  BY <2>1, <2>2, <1>t
<1>4. /\ Abstract!TokenEnd(s) = t
      /\ Abstract!NextToken(s) = SubSeq(s, t - n + 1, t)
  <2> HIDE DEF s, t, n
  <2> QED  BY <1>1, <1>2, <1>3, <1>r, TokenIsNext
<1>5. SubSeq(s, t - n + 1, t) = Token
  <2>1. \A i \in t - n + 1 .. t : s[i] \in Bytes
    BY <1>1, <1>r
  <2>2. /\ SubSeq(s, t - n + 1, t) \in Seq(Bytes)
        /\ Len(SubSeq(s, t - n + 1, t)) = IF t - n + 1 <= t THEN t - (t - n + 1) + 1 ELSE 0
        /\ \A i \in 1 .. t - (t - n + 1) + 1 :
             SubSeq(s, t - n + 1, t)[i] = s[t - n + 1 + i - 1]
    <3>1. t - n + 1 \in Int /\ t \in Int
      BY <1>n, <1>t
    <3> HIDE DEF s, t, n
    <3> QED  BY <2>1, <3>1, SubSeqProperties
  <2> DEFINE sub == SubSeq(s, t - n + 1, t)
  <2>3. Len(sub) = n
    BY <2>2, <1>n, <1>t
  <2>4. ASSUME NEW i \in 1 .. n PROVE sub[i] = Token[i]
    <3>1. sub[i] = s[(t - n) + i]
      BY <2>2, <1>n, <1>t
    <3>2. (t - n) + i \in 1 .. Len(input) - consumed
      BY <1>n, <1>t
    <3>3. sub[i] = input[consumed + ((t - n) + i)]
      BY <3>1, <3>2, <1>r
    <3>4. Token[i] = input[consumed + (t - n) + i]
      BY <1>s, <1>t DEF Scan
    <3>5. consumed + ((t - n) + i) = consumed + (t - n) + i
      BY <1>n, <1>t
    <3> QED  BY <3>3, <3>4, <3>5
  <2> HIDE DEF sub
  <2>5. sub \in Seq(Bytes)
    BY <2>2 DEF sub
  <2>6. sub = Token
    BY <2>3, <2>4, <2>5, <1>t, SeqEqual
  <2> QED  BY <2>6 DEF sub
<1>6. t < BufferSize - 1
  BY <1>s, <1>t DEF StoppedBecause
<1> QED  BY <1>4, <1>5, <1>6

\* Unless the input ended before one, there is a token.
LEMMA TokenIsThere ==
  ASSUME RInv, pc = "convert", result # 1, ~NoToken
  PROVE  Token # <<>>
<1>1. result \in 0 .. 2 /\ (result = 0 => result_token_length > 0)
  BY DEF RInv, IInv, TypeOK, ScanInv, StoppedBecause
<1>2. result_token_length # 0
  BY <1>1 DEF NoToken
<1> QED  BY <1>2, TokenIsBytes DEF RInv

(***************************************************************************)
(* Every step is a step of AbstractInput or leaves it alone.               *)
(***************************************************************************)
\* The loops read ahead, which the abstract reader does not see.
LEMMA LoopsStutter ==
  ASSUME RInv, RInv', UNCHANGED <<input, consumed, reply>>,
         pc \in {"idle", "skip", "collect", "convert"}, pc' # "toolong"
  PROVE  UNCHANGED Abstract!vars
<1>1. pc' # "overrun"
  BY DEF RInv, IInv, NeverOverrun
<1> QED  BY <1>1 DEF Abstract!vars

\* A read at the end of the input is the abstract read that finds no token.
LEMMA EndOfInputRefines ==
  ASSUME RInv, EndOfInput
  PROVE  Abstract!ReadToken(op)
<1>1. /\ Abstract!NextToken(Abstract!Rest) = <<>>
      /\ Abstract!TokenEnd(Abstract!Rest) < BufferSize - 1
  <2>1. Token = <<>>
    BY TokenIsBytes DEF RInv, EndOfInput, NoToken
  <2> QED  BY <2>1, TokenIsComplete DEF EndOfInput, NoToken
<1>2. /\ reply' = [op |-> op, state |-> 2, text |-> <<>>]
      /\ UNCHANGED <<input, consumed>> /\ pc = "convert" /\ pc' = "idle"
  BY DEF EndOfInput, Rewind, Finish
<1> QED  BY <1>1, <1>2 DEF Abstract!ReadToken, Abstract!Reply

\* A read that refuses its token is the abstract read of that token.
LEMMA RejectTokenRefines ==
  ASSUME RInv, RejectToken
  PROVE  Abstract!ReadToken(op)
<1>1. /\ Abstract!NextToken(Abstract!Rest) = Token
      /\ Abstract!TokenEnd(Abstract!Rest) < BufferSize - 1
      /\ Token # <<>> /\ ~Accepts(op, Token)
  BY TokenIsComplete, TokenIsThere DEF RejectToken
<1>2. /\ reply' = [op |-> op, state |-> 1, text |-> <<>>]
      /\ UNCHANGED <<input, consumed>> /\ pc = "convert" /\ pc' = "idle"
  BY DEF RejectToken, Rewind, Finish
<1> QED  BY <1>1, <1>2 DEF Abstract!ReadToken, Abstract!Reply

\* A read that accepts its token is the abstract read of that token.
LEMMA AcceptTokenRefines ==
  ASSUME RInv, AcceptToken
  PROVE  Abstract!ReadToken(op)
<1>1. /\ Abstract!NextToken(Abstract!Rest) = Token
      /\ Abstract!TokenEnd(Abstract!Rest) = Scanned
      /\ Scanned < BufferSize - 1
      /\ Token # <<>> /\ Accepts(op, Token)
  BY TokenIsComplete, TokenIsThere DEF AcceptToken
<1>2. /\ reply' = [op |-> op, state |-> 0, text |-> Token]
      /\ UNCHANGED input /\ pc = "convert" /\ pc' = "idle" /\ result # 1
      /\ consumed' = consumed
           + Distance(last_successful_read,
                      IF result = 2 THEN cur_pos ELSE getPrevPos(cur_pos))
  BY DEF AcceptToken, UpdateRewindPoint, Finish
<1>t. /\ last_successful_read \in Positions /\ cur_pos \in Positions /\ result \in 0 .. 2
  BY DEF RInv, IInv, TypeOK
<1>3. consumed' = consumed + Scanned
  <2>1. CASE result = 2
    BY <2>1, <1>2 DEF Scanned, Looked
  <2>2. CASE result = 0
    <3>1. Looked > 0
      BY <2>2, <1>2 DEF RInv, IInv, TokenInReach
    <3>2. last_successful_read # cur_pos
      BY <3>1, <1>t, DistanceZero DEF Looked
    <3>3. Distance(last_successful_read, getPrevPos(cur_pos)) = Looked - 1
      BY <3>2, <1>t, PrevDistance DEF Looked
    <3> QED  BY <2>2, <3>3, <1>2 DEF Scanned
  <2> QED  BY <2>1, <2>2, <1>2, <1>t
<1> QED  BY <1>1, <1>2, <1>3 DEF Abstract!ReadToken, Abstract!Reply

\* A read that gives up has looked through as much as the buffer holds, and
\* the token does not end earlier.
LEMMA TooLongRefines ==
  ASSUME RInv, TooLong
  PROVE  Abstract!GiveUp
<1> DEFINE s == Abstract!Rest
           n == result_token_length
<1>1. pc = "convert" /\ result = 1 /\ pc' = "toolong" /\ UNCHANGED <<input, consumed, reply>>
  BY DEF TooLong, stream
<1>2. Looked = BufferSize - 1 /\ Scan(Looked, n) /\ n \in Nat /\ Looked \in Nat
      /\ consumed \in Nat /\ Len(input) \in Nat
  BY <1>1, BufferSizeAssumption DEF RInv, IInv, TypeOK, ScanInv, Scanned, Found,
                                     StoppedBecause
<1>r. /\ s \in Seq(Bytes) /\ Len(s) = Len(input) - consumed
      /\ \A k \in 1 .. Len(input) - consumed : s[k] = input[consumed + k]
  BY RestOfInput DEF RInv
<1>3. Looked \in 0 .. Len(s) /\ n \in 0 .. Looked
  BY <1>2, <1>r DEF Scan
<1>4. \A k \in 1 .. Looked : s[k] = Space <=> k <= Looked - n
  <2>1. /\ Looked <= Len(input) - consumed
        /\ \A k \in 1 .. Looked : input[consumed + k] = Space <=> k <= Looked - n
    BY <1>2 DEF Scan
  <2>2. \A k \in 1 .. Looked : s[k] = input[consumed + k]
    <3> HIDE DEF s, n
    <3> QED  BY <1>2, <1>r, <2>1, SMTT(30)
  <2> HIDE DEF s, n
  <2> QED  BY <2>1, <2>2
<1>5. Looked <= Abstract!TokenEnd(s)
  <2> HIDE DEF s, n
  <2> QED  BY <1>3, <1>4, <1>r, TokenEndsLater
<1> QED  BY <1>1, <1>2, <1>5 DEF Abstract!GiveUp

\* A character is the first byte of what is left, if there is one.
LEMMA ReadCharacterRefines ==
  ASSUME NoEofByte, RInv, ReadCharacter
  PROVE  Abstract!ReadCharacter
<1> DEFINE s == Abstract!Rest
           base == last_successful_read
<1>t. /\ base \in Positions /\ cur_pos \in Positions /\ cur_pos = base
      /\ pc = "idle" /\ Looked = 0
  BY IdleLooked DEF RInv, IInv, TypeOK, IdleIsRewound, ReadCharacter
<1>f. ~BufferFull
  <2>1. getNextPos(cur_pos) = IF cur_pos + 1 = BufferSize THEN 0 ELSE cur_pos + 1
    BY <1>t, NeighbourPositions
  <2>2. getNextPos(cur_pos) # cur_pos
    BY <2>1, <1>t, BufferSizeAssumption DEF Positions
  <2> QED  BY <2>2, <1>t DEF BufferFull
<1>a. AdvanceStream /\ UNCHANGED input
  BY DEF ReadCharacter
<1>o. /\ ~Overrun /\ cur_pos' \in Positions
      /\ NextChar # EOF => Distance(base, cur_pos') = Looked + 1
  BY <1>a, <1>f, AdvanceEffect DEF RInv, IInv
<1>1. /\ consumed' = consumed + Distance(base, cur_pos') /\ pc' = "idle"
      /\ reply' = [op |-> "character", state |-> 0,
                   text |-> IF NextChar = EOF THEN <<>> ELSE <<NextChar>>]
  BY <1>o, <1>t DEF ReadCharacter, UpdateRewindPoint
<1>c. /\ consumed \in Nat /\ Len(input) \in Nat /\ consumed <= Len(input)
      /\ NextChar = IF consumed < Len(input) THEN input[consumed + 1] ELSE EOF
      /\ NextChar = EOF <=> consumed = Len(input)
  BY <1>t, NextCharIsNextByte
<1>r. /\ s \in Seq(Bytes) /\ Len(s) = Len(input) - consumed
      /\ \A k \in 1 .. Len(input) - consumed : s[k] = input[consumed + k]
  BY RestOfInput DEF RInv
<1>2. CASE NextChar = EOF
  <2>1. s = <<>>
    BY <1>2, <1>c, <1>r
  <2>2. cur_pos' = cur_pos
    BY <1>2, <1>a, EofStays
  <2>3. Distance(base, cur_pos') = 0
    BY <2>2, <1>t DEF Looked
  <2>4. consumed' = consumed + Len(<<>>)
    BY <2>3, <1>1, <1>c
  <2> QED  BY <2>1, <2>4, <1>1, <1>2, <1>a, <1>t
           DEF Abstract!ReadCharacter, Abstract!Reply
<1>3. CASE NextChar # EOF
  <2>1. s # <<>> /\ Head(s) = NextChar
    BY <1>3, <1>c, <1>r
  <2>2. consumed' = consumed + Len(<<Head(s)>>)
    BY <1>3, <1>o, <1>1, <1>t, <1>c
  <2> QED  BY <2>1, <2>2, <1>1, <1>3, <1>a, <1>t
           DEF Abstract!ReadCharacter, Abstract!Reply
<1> QED  BY <1>2, <1>3

\* The initial states map to initial states.
LEMMA InitRefines == Init => Abstract!Init
  BY DEF Init, Abstract!Init

\* Every step maps to a step of the abstract reader or to a stutter.
LEMMA StepRefines ==
  ASSUME NoEofByte, RInv, RInv', [Next]_vars
  PROVE  [Abstract!Next]_(Abstract!vars)
<1>1. ASSUME NEW kind \in TokenOps, Begin(kind)
      PROVE  UNCHANGED Abstract!vars
  BY <1>1, LoopsStutter DEF Begin, stream
<1>2. CASE SkipSpace
  <2>1. UNCHANGED <<input, consumed, reply>> /\ pc = "skip" /\ pc' # "toolong"
    BY <1>2 DEF SkipSpace, ReturnToken, stream
  <2> QED  BY <2>1, LoopsStutter
<1>3. CASE CollectByte
  <2>1. UNCHANGED <<input, consumed, reply>> /\ pc = "collect" /\ pc' # "toolong"
    BY <1>3 DEF CollectByte, ReturnToken, stream
  <2> QED  BY <2>1, LoopsStutter
<1>4. CASE EndOfInput \/ RejectToken \/ AcceptToken
  <2>1. op \in TokenOps
    BY <1>4 DEF RInv, ScanInv, EndOfInput, RejectToken, AcceptToken
  <2>2. Abstract!ReadToken(op)
    BY <1>4, EndOfInputRefines, RejectTokenRefines, AcceptTokenRefines
  <2> QED  BY <2>1, <2>2 DEF Abstract!Next
<1>5. CASE TooLong
  BY <1>5, TooLongRefines DEF Abstract!Next
<1>6. CASE ReadCharacter
  BY <1>6, ReadCharacterRefines DEF Abstract!Next
<1>7. CASE UNCHANGED vars
  BY <1>7 DEF vars, stream, Abstract!vars
<1> QED  BY <1>1, <1>2, <1>3, <1>4, <1>5, <1>6, <1>7 DEF Next, Convert

(***************************************************************************)
(* readNextToken and the reads built on it implement AbstractInput, for    *)
(* every buffer size: a failed read consumes nothing and answers the same  *)
(* when retried, a successful one consumes exactly its token, and a read   *)
(* gives up only when its white space and token fill the buffer.           *)
(***************************************************************************)
THEOREM InputImplementsAbstract ==
  ASSUME NoEofByte
  PROVE  Spec => ImplementsAbstractInput
<1>1. RInv /\ [Next]_vars => RInv'
  BY RefinementStep
<1>2. RInv /\ RInv' /\ [Next]_vars => [Abstract!Next]_(Abstract!vars)
  BY StepRefines
<1> QED
  BY <1>1, <1>2, RefinementInit, InitRefines, PTL DEF Spec, ImplementsAbstractInput, Abstract!Spec
=============================================================================
