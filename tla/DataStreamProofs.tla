-------------------------- MODULE DataStreamProofs --------------------------
(***************************************************************************)
(* Proofs about the channel between the storer of L2 blocks and            *)
(* sendDataToStreamer, for every capacity of the channel.                  *)
(***************************************************************************)
EXTENDS DataStream, TLAPS

IsASeq(s) == s \in Seq({s[i] : i \in DOMAIN s})

\* Messages received and not yet counted off, sent and not yet counted.
Uncounted == IF received # <<>> /\ ~counted THEN 1 ELSE 0
BeingSent == IF adding THEN 1 ELSE 0

\* The count is the length of the channel, but for those messages, and is
\* below the capacity while a message is being sent.
ChannelInv ==
    /\ IsASeq(dataToStream)
    /\ adding \in BOOLEAN /\ counted \in BOOLEAN
    /\ counted => received # <<>>
    /\ dataToStreamCount = Len(dataToStream) + Uncounted - BeingSent
    /\ dataToStreamCount <= Capacity
    /\ adding => dataToStreamCount < Capacity

-----------------------------------------------------------------------------
LEMMA SeqIsASeq ==
    ASSUME NEW S, NEW s \in Seq(S)
    PROVE  IsASeq(s)
  BY DEF IsASeq

LEMMA AppendIsASeq ==
    ASSUME NEW s, IsASeq(s), NEW x
    PROVE  IsASeq(Append(s, x)) /\ Len(Append(s, x)) = Len(s) + 1 /\ Len(s) \in Nat
  <1>. DEFINE S == {s[i] : i \in DOMAIN s}
  <1>1. s \in Seq(S) /\ s \in Seq(S \cup {x})
    BY DEF IsASeq
  <1>. HIDE DEF S
  <1>2. Append(s, x) \in Seq(S \cup {x}) /\ Len(Append(s, x)) = Len(s) + 1 /\ Len(s) \in Nat
    BY <1>1
  <1>. QED  BY <1>2, SeqIsASeq

LEMMA TailIsASeq ==
    ASSUME NEW s, IsASeq(s), s # <<>>
    PROVE  IsASeq(Tail(s)) /\ Len(Tail(s)) = Len(s) - 1 /\ Len(s) \in Nat
  <1>. DEFINE S == {s[i] : i \in DOMAIN s}
  <1>1. s \in Seq(S)
    BY DEF IsASeq
  <1>. HIDE DEF S
  <1>2. Tail(s) \in Seq(S) /\ Len(Tail(s)) = Len(s) - 1 /\ Len(s) \in Nat
    BY <1>1
  <1>. QED  BY <1>2, SeqIsASeq

LEMMA EmptyIsASeq == IsASeq(<<>>) /\ Len(<<>>) = 0
  BY DEF IsASeq

LEMMA LenOfASeq ==
    ASSUME NEW s, IsASeq(s)
    PROVE  Len(s) \in Nat
  BY DEF IsASeq

-----------------------------------------------------------------------------
LEMMA ChannelStays ==
    ASSUME ChannelInv, UNCHANGED <<adding, channelVars>>
    PROVE  ChannelInv'
  BY DEF ChannelInv, channelVars, Uncounted, BeingSent

LEMMA SendKeeps ==
    ASSUME ChannelInv, DSSend
    PROVE  ChannelInv'
  <1>1. CASE BufferIsFull
    BY <1>1, ChannelStays DEF DSSend, channelVars
  <1>2. CASE ~BufferIsFull
    <2>1. /\ ~adding /\ adding' = TRUE /\ UNCHANGED <<dataToStreamCount, received, counted>>
          /\ dataToStream' = Append(dataToStream, Head(todo))
      BY <1>2 DEF DSSend, AtSend
    <2>2. IsASeq(dataToStream') /\ Len(dataToStream') = Len(dataToStream) + 1 /\ Len(dataToStream) \in Nat
      BY <2>1, AppendIsASeq DEF ChannelInv
    <2>3. /\ Uncounted \in {0, 1} /\ BeingSent = 0
          /\ Uncounted' = Uncounted /\ BeingSent' = 1
      BY <2>1 DEF Uncounted, BeingSent
    <2>4. dataToStreamCount < Capacity
      BY <1>2, <2>2, <2>3, DataStreamAssumption DEF BufferIsFull, ChannelInv
    <2>. QED  BY <2>1, <2>2, <2>3, <2>4 DEF ChannelInv
  <1>. QED  BY <1>1, <1>2

LEMMA CountKeeps ==
    ASSUME ChannelInv, DSCount
    PROVE  ChannelInv'
  <1>1. adding /\ adding' = FALSE /\ UNCHANGED <<dataToStream, received, counted>>
        /\ dataToStreamCount' = dataToStreamCount + 1
    BY DEF DSCount
  <1>2. /\ Uncounted \in {0, 1} /\ BeingSent = 1
        /\ Uncounted' = Uncounted /\ BeingSent' = 0
    BY <1>1 DEF Uncounted, BeingSent
  <1>3. Len(dataToStream) \in Nat
    BY LenOfASeq DEF ChannelInv
  <1>4. dataToStreamCount \in Int /\ dataToStreamCount < Capacity
    BY <1>1, <1>2, <1>3 DEF ChannelInv
  <1>5. /\ dataToStreamCount' = Len(dataToStream') + Uncounted' - BeingSent'
        /\ dataToStreamCount' <= Capacity
    BY <1>1, <1>2, <1>3, <1>4, DataStreamAssumption DEF ChannelInv
  <1>. QED  BY <1>1, <1>5 DEF ChannelInv

LEMMA ReceiveKeeps ==
    ASSUME ChannelInv, Receive
    PROVE  ChannelInv'
  <1>1. /\ IsASeq(dataToStream') /\ Len(dataToStream') = Len(dataToStream) - 1
        /\ Len(dataToStream) \in Nat
    BY TailIsASeq DEF Receive, ChannelInv
  <1>2. received = <<>> /\ received' # <<>> /\ UNCHANGED <<adding, dataToStreamCount, counted>>
    BY DEF Receive, storeVars
  <1>. QED  BY <1>1, <1>2 DEF ChannelInv, Uncounted, BeingSent

LEMMA CountOffKeeps ==
    ASSUME ChannelInv, CountOff
    PROVE  ChannelInv'
  BY LenOfASeq, DataStreamAssumption DEF ChannelInv, CountOff, Uncounted, BeingSent, storeVars

LEMMA StreamKeeps ==
    ASSUME ChannelInv, Stream
    PROVE  ChannelInv'
  <1>1. /\ received # <<>> /\ counted /\ received' = <<>> /\ counted' = FALSE
        /\ UNCHANGED <<adding, dataToStream, dataToStreamCount>>
    BY DEF Stream, storeVars
  <1>2. Uncounted' = Uncounted /\ BeingSent' = BeingSent
    BY <1>1 DEF Uncounted, BeingSent
  <1>. QED  BY <1>1, <1>2 DEF ChannelInv

LEMMA RestartKeeps ==
    ASSUME Restart
    PROVE  ChannelInv'
  <1>1. /\ dataToStream' = <<>> /\ dataToStreamCount' = 0 /\ received' = <<>>
        /\ adding' = FALSE /\ counted' = FALSE
    BY DEF Restart
  <1>2. Uncounted' = 0 /\ BeingSent' = 0
    BY <1>1 DEF Uncounted, BeingSent
  <1>3. /\ dataToStreamCount' = Len(dataToStream') + Uncounted' - BeingSent'
        /\ dataToStreamCount' <= Capacity
    BY <1>1, <1>2, EmptyIsASeq, DataStreamAssumption
  <1>. QED  BY <1>1, <1>3, EmptyIsASeq DEF ChannelInv

LEMMA ChannelNext ==
    ASSUME ChannelInv, [Next]_vars
    PROVE  ChannelInv'
  <1>1. CASE Produce
    BY <1>1, ChannelStays
       DEF Produce, StoreL2Block, StoreFirstL2Block, FinalizeSIPBatch, ProcessForcedBatch, Begin
  <1>2. CASE Generate
    BY <1>2, ChannelStays DEF Generate, GenerateStart, ReadBatches, AddBatch, storeVars
  <1>3. CASE Commit
    BY <1>3, ChannelStays DEF Commit
  <1>4. CASE UNCHANGED vars
    BY <1>4, ChannelStays DEF vars, storeVars
  <1>. QED  BY <1>1, <1>2, <1>3, <1>4, SendKeeps, CountKeeps, ReceiveKeeps, CountOffKeeps, StreamKeeps,
               RestartKeeps, SMTT(30) DEF Next, Storer, Streamer

(***************************************************************************)
(* The goroutine that stores never waits for room in dataToStream, for     *)
(* every capacity of the channel: checkDSBufferIsFull reads the count      *)
(* while sendDataToStreamer receives and counts off on its own.            *)
(***************************************************************************)
THEOREM StorerNeverWaits == Spec => []NeverWaitsForRoom
  <1>1. Init => ChannelInv
    <2>. SUFFICES ASSUME Init PROVE ChannelInv
      OBVIOUS
    <2>1. /\ dataToStream = <<>> /\ dataToStreamCount = 0 /\ received = <<>>
          /\ adding = FALSE /\ counted = FALSE
      BY DEF Init
    <2>2. Uncounted = 0 /\ BeingSent = 0
      BY <2>1 DEF Uncounted, BeingSent
    <2>3. dataToStreamCount = Len(dataToStream) + Uncounted - BeingSent /\ dataToStreamCount <= Capacity
      BY <2>1, <2>2, EmptyIsASeq, DataStreamAssumption
    <2>. QED  BY <2>1, <2>3, EmptyIsASeq DEF ChannelInv
  <1>2. ChannelInv => NeverWaitsForRoom
    <2>1. Uncounted \in {0, 1} /\ (~adding => BeingSent = 0)
      BY DEF Uncounted, BeingSent
    <2>. QED  BY <2>1, LenOfASeq, DataStreamAssumption
              DEF ChannelInv, NeverWaitsForRoom, AtSend, BufferIsFull
  <1>. QED  BY <1>1, <1>2, ChannelNext, PTL DEF Spec
=============================================================================
