-------------------------- MODULE ByteStreamProofs --------------------------
(***************************************************************************)
(* Proofs about ByteStream, for every set of bytes, capacity and width of  *)
(* size_t.  The inductive invariant IInv is the type invariant, the flow   *)
(* control bound, in-order delivery, and the meaning of the two counters.  *)
(* TransferInv adds, for the writer and the reader of StreamTransfer, that *)
(* what was accepted is a prefix of the message.  FlowControl, Delivery    *)
(* and Counters hold for any callers (Spec) and so for these               *)
(* (TransferSpec); the contract needs a writer that keeps its side.        *)
(***************************************************************************)
EXTENDS StreamTransfer, SequenceTheorems, TLAPS

-----------------------------------------------------------------------------
(* Arithmetic modulo SizeMod.                                              *)

(* A size_t sum or difference is a size_t, and reducing a value that is    *)
(* one already changes nothing (SizeAdd, SizeSub).                         *)
LEMMA ModRange ==
  ASSUME NEW a \in Int
  PROVE  /\ a % SizeMod \in 0 .. SizeMod - 1
         /\ a \in 0 .. SizeMod - 1 => a % SizeMod = a
  BY ByteStreamAssumption

(* Division with remainder is unique: two decompositions of one number     *)
(* have the same remainder (used for every size_t sum).                    *)
LEMMA RemainderUnique ==
  ASSUME NEW p \in Int, NEW q \in Int,
         NEW r \in 0 .. SizeMod - 1, NEW s \in 0 .. SizeMod - 1,
         (SizeMod * p) + r = (SizeMod * q) + s
  PROVE  r = s
<1>1. \A k \in Int : k >= 1 => SizeMod * k >= SizeMod
  BY ByteStreamAssumption
<1>2. SizeMod * (p - q) = (SizeMod * p) - (SizeMod * q)
  BY ByteStreamAssumption
<1>3. SizeMod * (q - p) = (SizeMod * q) - (SizeMod * p)
  BY ByteStreamAssumption
<1>4. CASE p - q >= 1
  <2>1. SizeMod * (p - q) >= SizeMod
    BY <1>1, <1>4
  <2> QED BY <2>1, <1>2, ByteStreamAssumption
<1>5. CASE q - p >= 1
  <2>1. SizeMod * (q - p) >= SizeMod
    BY <1>1, <1>5
  <2> QED BY <2>1, <1>3, ByteStreamAssumption
<1>6. CASE p = q
  BY <1>6, ByteStreamAssumption
<1> QED BY <1>4, <1>5, <1>6

(* Adding a multiple of SizeMod does not change the remainder.             *)
LEMMA ModShift ==
  ASSUME NEW a \in Int, NEW k \in Int
  PROVE  (a + (SizeMod * k)) % SizeMod = a % SizeMod
<1> DEFINE b == a + (SizeMod * k)
<1>1. b \in Int /\ a \div SizeMod \in Int /\ b \div SizeMod \in Int
  BY ByteStreamAssumption
<1>2. a = (SizeMod * (a \div SizeMod)) + (a % SizeMod)
  BY ByteStreamAssumption
<1>3. b = (SizeMod * (b \div SizeMod)) + (b % SizeMod)
  BY <1>1, ByteStreamAssumption
<1>4. SizeMod * ((a \div SizeMod) + k) = (SizeMod * (a \div SizeMod)) + (SizeMod * k)
  BY <1>1, ByteStreamAssumption
<1> HIDE DEF b
<1>5. (SizeMod * ((a \div SizeMod) + k)) + (a % SizeMod)
        = (SizeMod * (b \div SizeMod)) + (b % SizeMod)
  <2>1. b = a + (SizeMod * k)
    BY DEF b
  <2>2. SizeMod * (a \div SizeMod) \in Int /\ SizeMod * k \in Int /\ a % SizeMod \in Int
    BY <1>1, ByteStreamAssumption
  <2> QED BY <2>1, <2>2, <1>2, <1>3, <1>4
<1>6. a % SizeMod \in 0 .. SizeMod - 1 /\ b % SizeMod \in 0 .. SizeMod - 1
  BY <1>1, ModRange
<1>7. (a \div SizeMod) + k \in Int
  BY <1>1
<1>8. a % SizeMod = b % SizeMod
  BY <1>1, <1>5, <1>6, <1>7, RemainderUnique
<1> QED BY <1>8 DEF b

(* A running size_t total is the true total modulo SizeMod, and so is the  *)
(* difference of two totals (_writeCount += len, bytes_written() -         *)
(* bytes_read()).                                                          *)
LEMMA ModTotals ==
  ASSUME NEW a \in Int, NEW b \in Int
  PROVE  /\ ((a % SizeMod) + b) % SizeMod = (a + b) % SizeMod
         /\ ((a % SizeMod) - (b % SizeMod)) % SizeMod = (a - b) % SizeMod
<1> DEFINE p == a \div SizeMod
           q == b \div SizeMod
<1>1. p \in Int /\ q \in Int /\ (0 - p) \in Int /\ (q - p) \in Int
  BY ByteStreamAssumption
<1>2. a % SizeMod = a - (SizeMod * p) /\ b % SizeMod = b - (SizeMod * q)
  BY ByteStreamAssumption
<1>3. SizeMod * (0 - p) = 0 - (SizeMod * p) /\ SizeMod * (q - p) = (SizeMod * q) - (SizeMod * p)
  BY <1>1, ByteStreamAssumption
<1>4. SizeMod * p \in Int /\ SizeMod * q \in Int
  BY <1>1, ByteStreamAssumption
<1> HIDE DEF p, q
<1>5. (a % SizeMod) + b = (a + b) + (SizeMod * (0 - p))
  BY <1>2, <1>3, <1>4
<1>6. (a % SizeMod) - (b % SizeMod) = (a - b) + (SizeMod * (q - p))
  BY <1>2, <1>3, <1>4
<1>7. a + b \in Int /\ a - b \in Int
  OBVIOUS
<1>8. ((a + b) + (SizeMod * (0 - p))) % SizeMod = (a + b) % SizeMod
  BY <1>1, <1>7, ModShift
<1>9. ((a - b) + (SizeMod * (q - p))) % SizeMod = (a - b) % SizeMod
  BY <1>1, <1>7, ModShift
<1> QED BY <1>5, <1>6, <1>8, <1>9
-----------------------------------------------------------------------------
(* The operators the actions are built from.                               *)

(* Appending in two pieces is appending at once, in either grouping.       *)
LEMMA Reassociate ==
  ASSUME NEW s \in Seq(Byte), NEW t \in Seq(Byte), NEW u \in Seq(Byte)
  PROVE  (s \o t) \o u = s \o (t \o u)
  BY ConcatAssociative

(* Cutting a sequence in two and rejoining it gives it back (peek_output() *)
(* and pop_output() cut the deque at the same place).                      *)
LEMMA CutAndJoin ==
  ASSUME NEW s \in Seq(Byte), NEW n \in 0 .. Len(s)
  PROVE  /\ SubSeq(s, 1, n) \in Seq(Byte)
         /\ Len(SubSeq(s, 1, n)) = n
         /\ SubSeq(s, n + 1, Len(s)) \in Seq(Byte)
         /\ Len(SubSeq(s, n + 1, Len(s))) = Len(s) - n
         /\ SubSeq(s, 1, n) \o SubSeq(s, n + 1, Len(s)) = s
<1>1. /\ 1 \in 1 .. Len(s) + 1
      /\ n \in 1 - 1 .. Len(s)
      /\ Len(s) \in n .. Len(s)
  BY LenProperties
<1>2. SubSeq(s, 1, n) \o SubSeq(s, n + 1, Len(s)) = SubSeq(s, 1, Len(s))
  BY <1>1, ConcatAdjacentSubSeq
<1>3. SubSeq(s, 1, Len(s)) = s
  BY SubSeqFull
<1>4. /\ SubSeq(s, 1, n) \in Seq(Byte)
      /\ Len(SubSeq(s, 1, n)) = n
      /\ SubSeq(s, n + 1, Len(s)) \in Seq(Byte)
      /\ Len(SubSeq(s, n + 1, Len(s))) = Len(s) - n
  OBVIOUS
<1> QED BY <1>2, <1>3, <1>4

(* While the deque is within capacity, write() accepts a prefix of its     *)
(* argument that fits, and stops short only when the stream is full.       *)
LEMMA AcceptedFits ==
  ASSUME buffer \in Seq(Byte), Len(buffer) <= Capacity, NEW data \in Seq(Byte)
  PROVE  /\ AcceptedLen(data) \in 0 .. Len(data)
         /\ Len(buffer) + AcceptedLen(data) <= Capacity
         /\ AcceptedLen(data) < Len(data) => Len(buffer) + AcceptedLen(data) = Capacity
         /\ remaining_capacity = Capacity - Len(buffer)
<1>1. Len(data) \in Nat /\ Len(buffer) \in Nat
  BY LenProperties
<1>2. Capacity - Len(buffer) \in 0 .. SizeMod - 1
  BY <1>1, ByteStreamAssumption
<1>3. remaining_capacity = Capacity - Len(buffer)
  BY <1>2, ModRange DEF remaining_capacity, SizeSub
<1> QED BY <1>1, <1>2, <1>3, ByteStreamAssumption DEF AcceptedLen

(* pop_output() never removes more than there is, and peek_output() shows  *)
(* exactly the bytes pop_output() removes for the same argument.           *)
LEMMA PopMatchesPeek ==
  ASSUME buffer \in Seq(Byte), NEW len \in 0 .. MaxLen
  PROVE  /\ PopLen(len) \in 0 .. Len(buffer)
         /\ peek_output(len) = SubSeq(buffer, 1, PopLen(len))
<1>1. Len(buffer) \in Nat /\ len \in Nat
  BY ByteStreamAssumption
<1>2. PopLen(len) \in 0 .. Len(buffer)
  BY <1>1 DEF PopLen, buffer_empty
<1>3. CASE buffer_empty
  <2>1. SubSeq(buffer, 1, 0) = <<>>
    BY SubSeqEmpty
  <2> QED BY <1>2, <1>3, <2>1 DEF PopLen, peek_output
<1>4. CASE ~ buffer_empty
  BY <1>2, <1>4 DEF PopLen, peek_output
<1> QED BY <1>3, <1>4

-----------------------------------------------------------------------------
(* What the two size_t counters mean.                                      *)
Counted ==
  /\ writeCount = Len(written) % SizeMod
  /\ readCount = Len(consumed) % SizeMod

IInv ==
  /\ TypeOK
  /\ Len(buffer) <= Capacity
  /\ InOrderDelivery
  /\ Counted

(* The constructor establishes the invariant.                              *)
LEMMA InitIInv == Init => IInv
<1> SUFFICES ASSUME Init PROVE IInv
  OBVIOUS
<1>1. <<>> \in Seq(Byte) /\ Len(<<>>) = 0
  BY EmptySeq
<1>2. 0 \in 0 .. SizeMod - 1 /\ 0 % SizeMod = 0 /\ 0 <= Capacity
  BY ByteStreamAssumption, ModRange
<1>3. TypeOK
  <2>1. isInputEnded \in BOOLEAN /\ error \in BOOLEAN
    BY Zenon DEF Init
  <2> QED BY <1>1, <1>2, <2>1 DEF Init, TypeOK
<1>4. Len(buffer) <= Capacity /\ Counted
  BY <1>1, <1>2 DEF Init, Counted
<1>5. InOrderDelivery
  BY <1>1, ConcatEmptySeq DEF Init, InOrderDelivery
<1> QED BY <1>3, <1>4, <1>5 DEF IInv

(* write() preserves the invariant.                                        *)
LEMMA WriteIInv ==
  ASSUME IInv, NEW data \in Seq(Byte), write(data)
  PROVE  IInv'
<1> DEFINE n == AcceptedLen(data)
           chunk == SubSeq(data, 1, n)
<1>1. /\ n \in 0 .. Len(data)
      /\ Len(buffer) + n <= Capacity
  BY AcceptedFits DEF IInv, TypeOK
<1>2. chunk \in Seq(Byte) /\ Len(chunk) = n
  BY <1>1, CutAndJoin
<1>3. /\ writeCount' = SizeAdd(writeCount, n)
      /\ buffer' = buffer \o chunk
      /\ written' = written \o chunk
      /\ UNCHANGED <<readCount, isInputEnded, error, consumed>>
  BY DEF write
<1>4. n \in Nat
  BY <1>1
<1> HIDE DEF n, chunk
<1>5. /\ buffer' \in Seq(Byte)
      /\ written' \in Seq(Byte)
      /\ Len(buffer') = Len(buffer) + n
      /\ Len(written') = Len(written) + n
  BY <1>2, <1>3, ConcatProperties DEF IInv, TypeOK
<1>6. Len(written) \in Int /\ Len(consumed) \in Int
  BY LenProperties DEF IInv, TypeOK
<1>7. Counted'
  <2>1. writeCount' = ((Len(written) % SizeMod) + n) % SizeMod
    BY <1>3 DEF IInv, Counted, SizeAdd
  <2>2. writeCount' = (Len(written) + n) % SizeMod
    BY <2>1, <1>4, <1>6, ModTotals
  <2> QED BY <2>2, <1>3, <1>5 DEF IInv, Counted
<1>8. TypeOK'
  <2>1. writeCount' \in 0 .. SizeMod - 1
    <3>1. Len(written') \in Int
      BY <1>5, LenProperties
    <3> QED BY <3>1, <1>7, ModRange DEF Counted
  <2> QED BY <2>1, <1>3, <1>5 DEF IInv, TypeOK
<1>9. InOrderDelivery'
  <2>1. (consumed \o buffer) \o chunk = consumed \o (buffer \o chunk)
    <3>1. consumed \in Seq(Byte) /\ buffer \in Seq(Byte)
      BY DEF IInv, TypeOK
    <3> QED BY <3>1, <1>2, Reassociate, SMTT(20)
  <2> QED BY <2>1, <1>3 DEF IInv, InOrderDelivery
<1>10. Len(buffer') <= Capacity
  BY <1>1, <1>5
<1> QED BY <1>7, <1>8, <1>9, <1>10 DEF IInv

(* Moving the first PopLen(len) bytes of the deque to the consumed history *)
(* and counting them preserves the invariant: the common part of read()    *)
(* and pop_output().                                                       *)
LEMMA PopIInv ==
  ASSUME IInv, NEW len \in 0 .. MaxLen, Pop(len),
         consumed' = consumed \o SubSeq(buffer, 1, PopLen(len)),
         UNCHANGED <<writeCount, isInputEnded, error, written>>
  PROVE  IInv'
<1> DEFINE n == PopLen(len)
           front == SubSeq(buffer, 1, n)
           rest == SubSeq(buffer, n + 1, Len(buffer))
<1>1. n \in 0 .. Len(buffer)
  BY PopMatchesPeek DEF IInv, TypeOK
<1>2. /\ front \in Seq(Byte) /\ Len(front) = n
      /\ rest \in Seq(Byte) /\ Len(rest) = Len(buffer) - n
      /\ front \o rest = buffer
  BY <1>1, CutAndJoin DEF IInv, TypeOK
<1>3. /\ readCount' = SizeAdd(readCount, n)
      /\ buffer' = rest
      /\ consumed' = consumed \o front
  BY DEF Pop
<1>4. n \in Int
  BY <1>1
<1> HIDE DEF n, front, rest
<1>5. /\ consumed' \in Seq(Byte)
      /\ Len(consumed') = Len(consumed) + n
  <2>1. consumed \in Seq(Byte)
    BY DEF IInv, TypeOK
  <2>2. /\ consumed \o front \in Seq(Byte)
        /\ Len(consumed \o front) = Len(consumed) + Len(front)
    BY <2>1, <1>2, ConcatProperties, Zenon
  <2> QED BY <2>2, <1>2, <1>3, Zenon
<1>6. Len(written) \in Int /\ Len(consumed) \in Int
  BY LenProperties DEF IInv, TypeOK
<1>7. Counted'
  <2>1. readCount' = ((Len(consumed) % SizeMod) + n) % SizeMod
    BY <1>3 DEF IInv, Counted, SizeAdd
  <2>2. readCount' = (Len(consumed) + n) % SizeMod
    BY <2>1, <1>4, <1>6, ModTotals
  <2> QED BY <2>2, <1>5 DEF IInv, Counted
<1>8. TypeOK'
  <2>1. readCount' \in 0 .. SizeMod - 1
    <3>1. Len(consumed') \in Int
      BY <1>5, LenProperties
    <3> QED BY <3>1, <1>7, ModRange DEF Counted
  <2> QED BY <2>1, <1>2, <1>3, <1>5 DEF IInv, TypeOK
<1>9. InOrderDelivery'
  <2>1. (consumed \o front) \o rest = consumed \o (front \o rest)
    <3>1. consumed \in Seq(Byte)
      BY DEF IInv, TypeOK
    <3> QED BY <3>1, <1>2, Reassociate
  <2> QED BY <2>1, <1>2, <1>3 DEF IInv, InOrderDelivery
<1>10. Len(buffer') <= Capacity
  <2>1. Len(buffer) \in Nat
    BY LenProperties DEF IInv, TypeOK
  <2> QED BY <2>1, <1>1, <1>2, <1>3, ByteStreamAssumption DEF IInv
<1> QED BY <1>7, <1>8, <1>9, <1>10 DEF IInv

(* Every step of the stream preserves the invariant.                       *)
LEMMA NextIInv == IInv /\ [Next]_vars => IInv'
<1> SUFFICES ASSUME IInv, [Next]_vars PROVE IInv'
  OBVIOUS
<1>1. ASSUME NEW data \in Data, write(data) PROVE IInv'
  <2>1. data \in Seq(Byte)
    BY ByteStreamAssumption
  <2> QED BY <1>1, <2>1, WriteIInv
<1>2. ASSUME NEW len \in 0 .. MaxLen, read(len) PROVE IInv'
  <2>1. peek_output(len) = SubSeq(buffer, 1, PopLen(len))
    BY PopMatchesPeek DEF IInv, TypeOK
  <2> QED BY <1>2, <2>1, PopIInv DEF read
<1>3. ASSUME NEW len \in 0 .. MaxLen, pop_output(len) PROVE IInv'
  BY <1>3, PopIInv DEF pop_output
<1>4. CASE end_input
  BY <1>4 DEF end_input, IInv, TypeOK, InOrderDelivery, Counted
<1>5. CASE set_error
  BY <1>5 DEF set_error, IInv, TypeOK, InOrderDelivery, Counted
<1>6. CASE UNCHANGED vars
  BY <1>6 DEF vars, IInv, TypeOK, InOrderDelivery, Counted
<1> QED BY <1>1, <1>2, <1>3, <1>4, <1>5, <1>6 DEF Next

-----------------------------------------------------------------------------
(* A writer and a reader.                                                  *)

(* What write() has accepted is a prefix of the message, and the whole of  *)
(* it once the writer has called end_input().                              *)
Prefix ==
  /\ Len(written) <= Len(message)
  /\ \A i \in 1 .. Len(written) : written[i] = message[i]
  /\ isInputEnded => Len(written) = Len(message)

TransferInv == IInv /\ message \in Seq(Byte) /\ Prefix

(* The rest of the message: how much is left, and which bytes.             *)
LEMMA RemainderProperties ==
  ASSUME message \in Seq(Byte), written \in Seq(Byte), Len(written) <= Len(message)
  PROVE  /\ Remainder \in Seq(Byte)
         /\ Len(Remainder) = Len(message) - Len(written)
         /\ \A i \in 1 .. Len(message) - Len(written) :
               Remainder[i] = message[Len(written) + i]
         /\ Remainder = <<>> <=> Len(written) = Len(message)
<1>1. Len(message) \in Nat /\ Len(written) \in Nat
  BY LenProperties
<1>2. /\ Remainder \in Seq(Byte)
      /\ Len(Remainder) = Len(message) - Len(written)
  BY <1>1 DEF Remainder
<1>3. ASSUME NEW i \in 1 .. Len(message) - Len(written)
      PROVE  Remainder[i] = message[Len(written) + i]
  BY <1>1, <1>2 DEF Remainder
<1>4. Remainder = <<>> <=> Len(Remainder) = 0
  BY <1>2, EmptySeq
<1> QED BY <1>1, <1>2, <1>3, <1>4

(* A write() of a piece of the rest extends the prefix by the bytes that   *)
(* follow it, whatever room it found; and the input has not ended.         *)
LEMMA OfferExtends ==
  ASSUME TransferInv, NEW data \in Seq(Byte), WriterOffers(data)
  PROVE  TransferInv' /\ ~ isInputEnded
<1> DEFINE n == AcceptedLen(data)
           chunk == SubSeq(data, 1, n)
<1>1. /\ message \in Seq(Byte) /\ written \in Seq(Byte) /\ buffer \in Seq(Byte)
      /\ Len(buffer) <= Capacity /\ Len(written) <= Len(message)
  BY DEF TransferInv, IInv, TypeOK, Prefix
<1>2. Len(message) \in Nat /\ Len(written) \in Nat
  BY <1>1, LenProperties
<1>3. /\ Remainder \in Seq(Byte)
      /\ Len(Remainder) = Len(message) - Len(written)
      /\ \A i \in 1 .. Len(message) - Len(written) :
            Remainder[i] = message[Len(written) + i]
      /\ Remainder = <<>> <=> Len(written) = Len(message)
  BY <1>1, RemainderProperties
<1>4. /\ write(data) /\ Len(data) \in 1 .. Len(Remainder)
      /\ \A i \in 1 .. Len(data) : data[i] = Remainder[i]
      /\ message' = message /\ isInputEnded' = isInputEnded
      /\ written' = written \o chunk
  <2>1. /\ Len(data) \in 1 .. Len(Remainder) /\ data = SubSeq(Remainder, 1, Len(data))
        /\ write(data) /\ message' = message
    BY DEF WriterOffers
  <2>2. \A i \in 1 .. Len(data) : SubSeq(Remainder, 1, Len(data))[i] = Remainder[i]
    BY <2>1, <1>3
  <2> QED BY <2>1, <2>2 DEF write
<1>5. IInv'
  BY <1>4, WriteIInv DEF TransferInv
<1>6. n \in 0 .. Len(data) /\ Len(data) <= Len(Remainder)
  BY <1>1, <1>4, AcceptedFits
<1>7. chunk \in Seq(Byte) /\ Len(chunk) = n
  BY <1>6, CutAndJoin
<1>8. ASSUME NEW i \in 1 .. n
      PROVE  chunk[i] = message[Len(written) + i]
  <2>1. chunk[i] = Remainder[i]
    <3>1. chunk[i] = data[i] /\ i \in 1 .. Len(data)
      BY <1>6, LenProperties
    <3> QED BY <3>1, <1>4
  <2>2. i \in 1 .. Len(message) - Len(written)
    BY <1>2, <1>3, <1>6
  <2> QED BY <2>1, <2>2, <1>3
<1>9. ~ isInputEnded
  BY <1>3, <1>4 DEF TransferInv, Prefix
<1> HIDE DEF n, chunk
<1>10. /\ Len(written') = Len(written) + n
       /\ \A i \in 1 .. Len(written) + n :
             written'[i] = IF i <= Len(written) THEN written[i] ELSE chunk[i - Len(written)]
  BY <1>1, <1>4, <1>7, ConcatProperties
<1>11. \A i \in 1 .. Len(written') : written'[i] = message[i]
  <2> SUFFICES ASSUME NEW i \in 1 .. Len(written) + n
               PROVE  written'[i] = message[i]
    BY <1>10
  <2>1. CASE i <= Len(written)
    BY <2>1, <1>2, <1>10 DEF TransferInv, Prefix
  <2>2. CASE ~ (i <= Len(written))
    <3>1. i - Len(written) \in 1 .. n /\ Len(written) + (i - Len(written)) = i
      BY <2>2, <1>2, <1>3, <1>6
    <3>2. chunk[i - Len(written)] = message[Len(written) + (i - Len(written))]
      BY <3>1, <1>8
    <3> QED BY <2>2, <3>1, <3>2, <1>10
  <2> QED BY <2>1, <2>2
<1>12. Len(written') <= Len(message)
  BY <1>2, <1>3, <1>6, <1>10
<1> QED BY <1>1, <1>4, <1>5, <1>9, <1>11, <1>12 DEF TransferInv, Prefix

(* The writer and the reader preserve TransferInv.                         *)
LEMMA TransferStep == TransferInv /\ [TransferNext]_transferVars => TransferInv'
<1> SUFFICES ASSUME TransferInv, [TransferNext]_transferVars
             PROVE  TransferInv'
  OBVIOUS
<1>1. ASSUME NEW data \in Data, WriterOffers(data) PROVE TransferInv'
  BY <1>1, OfferExtends, ByteStreamAssumption
<1>2. CASE WriterFinishes
  <2>1. IInv'
    BY <1>2, NextIInv DEF WriterFinishes, Next, TransferInv
  <2>2. Len(written) = Len(message)
    <3>1. message \in Seq(Byte) /\ written \in Seq(Byte) /\ Len(written) <= Len(message)
      BY DEF TransferInv, IInv, TypeOK, Prefix
    <3> QED BY <1>2, <3>1, RemainderProperties DEF WriterFinishes
  <2> QED BY <1>2, <2>1, <2>2 DEF WriterFinishes, end_input, TransferInv, Prefix
<1>3. CASE ReaderTakes
  <2>1. PICK len \in 0 .. MaxLen : read(len) \/ pop_output(len)
    BY <1>3 DEF ReaderTakes
  <2>2. IInv'
    BY <2>1, NextIInv DEF Next, TransferInv
  <2>3. UNCHANGED <<message, written, isInputEnded>>
    BY <1>3, <2>1 DEF ReaderTakes, read, pop_output
  <2> QED BY <2>2, <2>3 DEF TransferInv, Prefix
<1>4. CASE EitherFails
  <2>1. IInv'
    BY <1>4, NextIInv DEF EitherFails, Next, TransferInv
  <2> QED BY <1>4, <2>1 DEF EitherFails, set_error, TransferInv, Prefix
<1>5. CASE UNCHANGED transferVars
  <2>1. IInv'
    BY <1>5, NextIInv DEF transferVars, TransferInv
  <2> QED BY <1>5, <2>1 DEF transferVars, vars, TransferInv, Prefix
<1> QED BY <1>1, <1>2, <1>3, <1>4, <1>5 DEF TransferNext

(* Initially nothing is written.                                           *)
LEMMA TransferInitInv == TransferInit => TransferInv
<1> SUFFICES ASSUME TransferInit PROVE TransferInv
  OBVIOUS
<1>1. IInv /\ message \in Seq(Byte)
  BY InitIInv, ByteStreamAssumption DEF TransferInit
<1>2. Len(written) = 0 /\ ~ isInputEnded
  BY EmptySeq DEF TransferInit, Init
<1>3. Len(message) \in Nat
  BY <1>1, LenProperties
<1> QED BY <1>1, <1>2, <1>3 DEF TransferInv, Prefix

LEMMA TransferInductive == TransferSpec => []TransferInv
  BY TransferInitInv, TransferStep, PTL DEF TransferSpec

(* The invariant of the stream holds for any callers, these two included.  *)
LEMMA Inductive == Spec \/ TransferSpec => []IInv
<1>1. TransferInv => IInv
  BY DEF TransferInv
<1> QED BY <1>1, InitIInv, NextIInv, TransferInductive, PTL DEF Spec
-----------------------------------------------------------------------------
(* Flow control: the deque never exceeds the capacity and the unsigned     *)
(* subtraction _capacity - _buffer.size() never wraps.                     *)
THEOREM FlowControl == Spec \/ TransferSpec => []CapacityRespected
<1>1. IInv => CapacityRespected
  <2> SUFFICES ASSUME IInv PROVE CapacityRespected
    OBVIOUS
  <2>1. Len(buffer) \in Nat
    BY LenProperties DEF IInv, TypeOK
  <2>2. Capacity - Len(buffer) \in 0 .. SizeMod - 1
    BY <2>1, ByteStreamAssumption DEF IInv
  <2>3. remaining_capacity = Capacity - Len(buffer)
    BY <2>2, ModRange DEF remaining_capacity, SizeSub
  <2> QED BY <2>3 DEF IInv, CapacityRespected
<1> QED BY <1>1, Inductive, PTL

(* In-order, exactly-once delivery over any sequence of write(), read()    *)
(* and pop_output() calls.                                                 *)
THEOREM Delivery == Spec \/ TransferSpec => []InOrderDelivery
<1>1. IInv => InOrderDelivery
  BY DEF IInv
<1> QED BY <1>1, Inductive, PTL

(* bytes_written(), bytes_read() and buffer_size() agree for every width   *)
(* of size_t, also after the counters have wrapped.                        *)
THEOREM Counters == Spec \/ TransferSpec => []Accounting
<1>1. IInv => Accounting
  <2> SUFFICES ASSUME IInv PROVE Accounting
    OBVIOUS
  <2>1. /\ buffer \in Seq(Byte) /\ consumed \in Seq(Byte)
        /\ Len(buffer) \in Nat /\ Len(consumed) \in Nat
    BY LenProperties DEF IInv, TypeOK
  <2>2. Len(written) = Len(consumed) + Len(buffer)
    BY <2>1, ConcatProperties DEF IInv, InOrderDelivery
  <2>3. SizeSub(writeCount, readCount) = (Len(written) - Len(consumed)) % SizeMod
    <3>1. Len(written) \in Int /\ Len(consumed) \in Int
      BY <2>1, <2>2
    <3> QED BY <3>1, ModTotals DEF IInv, Counted, SizeSub
  <2>4. Len(written) - Len(consumed) = Len(buffer)
    BY <2>1, <2>2
  <2>5. Len(buffer) \in 0 .. SizeMod - 1
    BY <2>1, ByteStreamAssumption DEF IInv
  <2>6. SizeSub(writeCount, readCount) = Len(buffer)
    BY <2>3, <2>4, <2>5, ModRange
  <2> QED BY <2>6 DEF IInv, Counted, Accounting, bytes_written, bytes_read, buffer_size
<1> QED BY <1>1, Inductive, PTL

(* A reader that stops at eof() has the whole message, for every message,  *)
(* capacity and size of the reads: neither end_input() before the last     *)
(* bytes are read nor a write() cut short makes eof() early.               *)
THEOREM TransferComplete == TransferSpec => []EofMeansComplete
<1>1. TransferInv => EofMeansComplete
  <2> SUFFICES ASSUME TransferInv, eof PROVE consumed = message
    BY DEF EofMeansComplete
  <2>1. /\ consumed \in Seq(Byte) /\ written \in Seq(Byte) /\ message \in Seq(Byte)
        /\ buffer = <<>> /\ isInputEnded
    BY DEF TransferInv, IInv, TypeOK, eof, input_ended, buffer_empty
  <2>2. consumed = written
    BY <2>1, ConcatEmptySeq DEF TransferInv, IInv, InOrderDelivery
  <2>3. written = message
    <3>1. Len(written) = Len(message) /\ \A i \in 1 .. Len(written) : written[i] = message[i]
      BY <2>1 DEF TransferInv, Prefix
    <3> QED BY <2>1, <3>1, SeqEqual
  <2> QED BY <2>2, <2>3
<1> QED BY <1>1, TransferInductive, PTL
-----------------------------------------------------------------------------
(* Refinement.                                                             *)

(* A write() before the end is the contract's Accept: it appends the       *)
(* longest prefix of the argument that fits between the cursor and the     *)
(* capacity.                                                               *)
LEMMA WriteAccepts ==
  ASSUME IInv, NEW data \in Seq(Byte), write(data), ~ isInputEnded
  PROVE  Contract!Accept(data)
<1>1. /\ buffer \in Seq(Byte) /\ consumed \in Seq(Byte)
      /\ Len(buffer) \in Nat /\ Len(consumed) \in Nat
  BY LenProperties DEF IInv, TypeOK
<1>2. Len(written) = Len(consumed) + Len(buffer)
  BY <1>1, ConcatProperties DEF IInv, InOrderDelivery
<1>3. /\ AcceptedLen(data) \in 0 .. Len(data)
      /\ Len(buffer) + AcceptedLen(data) <= Capacity
      /\ AcceptedLen(data) < Len(data) => Len(buffer) + AcceptedLen(data) = Capacity
  BY AcceptedFits DEF IInv, TypeOK
<1>4. /\ written' = written \o SubSeq(data, 1, AcceptedLen(data))
      /\ Len(consumed)' = Len(consumed)
      /\ isInputEnded' = isInputEnded
      /\ error' = error
  BY DEF write
<1>5. Contract!Untaken = Len(buffer)
  BY <1>1, <1>2 DEF Contract!Untaken
<1>6. \/ /\ AcceptedLen(data) = Len(data)
         /\ Contract!Untaken + AcceptedLen(data) <= Capacity
      \/ /\ AcceptedLen(data) < Len(data)
         /\ Contract!Untaken + AcceptedLen(data) = Capacity
  <2>1. Len(data) \in Nat
    BY LenProperties
  <2> QED BY <1>3, <1>5, <2>1
<1> QED BY <1>3, <1>4, <1>6 DEF Contract!Accept

(* read() and pop_output() are the contract's Take: the cursor moves       *)
(* forward and does not pass the last byte accepted.                       *)
LEMMA PopTakes ==
  ASSUME IInv, NEW len \in 0 .. MaxLen,
         consumed' = consumed \o SubSeq(buffer, 1, PopLen(len)),
         UNCHANGED <<writeCount, isInputEnded, error, written>>
  PROVE  Contract!Take
<1>1. /\ buffer \in Seq(Byte) /\ consumed \in Seq(Byte)
      /\ Len(buffer) \in Nat /\ Len(consumed) \in Nat
  BY LenProperties DEF IInv, TypeOK
<1>2. Len(written) = Len(consumed) + Len(buffer)
  BY <1>1, ConcatProperties DEF IInv, InOrderDelivery
<1>3. PopLen(len) \in 0 .. Len(buffer)
  BY PopMatchesPeek DEF IInv, TypeOK
<1>4. /\ SubSeq(buffer, 1, PopLen(len)) \in Seq(Byte)
      /\ Len(SubSeq(buffer, 1, PopLen(len))) = PopLen(len)
  BY <1>1, <1>3, CutAndJoin
<1>5. Len(consumed') = Len(consumed) + PopLen(len)
  BY <1>1, <1>4, ConcatProperties
<1>6. Len(consumed)' \in Len(consumed) .. Len(written)
  BY <1>1, <1>2, <1>3, <1>5
<1> QED BY <1>6 DEF Contract!Take

(* Every call of the two clients is a step of the contract or leaves it as *)
(* it is.                                                                  *)
LEMMA StepRefines ==
  TransferInv /\ [TransferNext]_transferVars => [Contract!Next]_(Contract!contractVars)
<1> SUFFICES ASSUME TransferInv, [TransferNext]_transferVars
             PROVE  Contract!Next \/ UNCHANGED Contract!contractVars
  OBVIOUS
<1> USE DEF TransferInv
<1>1. ASSUME NEW data \in Data, WriterOffers(data) PROVE Contract!Next
  <2>1. data \in Seq(Byte) /\ write(data)
    BY <1>1, ByteStreamAssumption DEF WriterOffers
  <2>2. Contract!Accept(data)
    BY <1>1, <2>1, OfferExtends, WriteAccepts
  <2> QED BY <2>2 DEF Contract!Next
<1>2. ASSUME NEW len \in 0 .. MaxLen, read(len) PROVE Contract!Next
  <2>1. peek_output(len) = SubSeq(buffer, 1, PopLen(len))
    BY PopMatchesPeek DEF IInv, TypeOK
  <2>2. Contract!Take
    BY <1>2, <2>1, PopTakes DEF read
  <2> QED BY <2>2 DEF Contract!Next
<1>3. ASSUME NEW len \in 0 .. MaxLen, pop_output(len) PROVE Contract!Next
  <2>1. Contract!Take
    BY <1>3, PopTakes DEF pop_output
  <2> QED BY <2>1 DEF Contract!Next
<1>4. CASE WriterFinishes
  BY <1>4 DEF WriterFinishes, end_input, Contract!Next, Contract!End
<1>5. CASE EitherFails
  BY <1>5 DEF EitherFails, set_error, Contract!Next, Contract!Fail
<1>6. CASE UNCHANGED transferVars
  BY <1>6 DEF transferVars, vars, Contract!contractVars
<1>7. CASE ReaderTakes
  BY <1>2, <1>3, <1>7 DEF ReaderTakes
<1> QED BY <1>1, <1>4, <1>5, <1>6, <1>7 DEF TransferNext

(* The stream implements its contract: however the calls of a writer that  *)
(* stops at the end of its input and of a reader interleave, an observer   *)
(* of the accepted bytes, the cursor and the two flags sees the contract's *)
(* behaviour.                                                              *)
THEOREM Refinement == TransferSpec => ImplementsContract
<1>1. TransferInit => Contract!Init
  <2>1. Len(<<>>) = 0
    BY EmptySeq
  <2> QED BY <2>1 DEF TransferInit, Init, Contract!Init
<1> QED BY <1>1, TransferInductive, StepRefines, PTL DEF TransferSpec, ImplementsContract, Contract!Spec
=============================================================================
