-------------------------- MODULE SendQueueProofs ---------------------------
(***************************************************************************)
(* Proofs about BufferList, GatherWrite and their use in SendQueue, for    *)
(* any lists, places of storage, strings and bounds.                       *)
(*                                                                         *)
(* The library's induction theorems take an operator as a parameter, which *)
(* the provers here cannot instantiate.  Induction below states the same   *)
(* for a set of naturals, from the well-foundedness of <; with it follow   *)
(* the algebra of FlattenSeq (its recursion has a solution, it distributes *)
(* over concatenation) and from that the text of every list.               *)
(*                                                                         *)
(* The inductive invariant says of the lists what SameAsString says, and   *)
(* that a Buffer with storage has a byte of it left (BuffersFit) and a     *)
(* place in use an owner (Owned); of a write() in progress how payload,    *)
(* views, counters and kernel relate (Progress); and of the queue that the *)
(* payload is its text, which stands still until the call is over (Queue). *)
(***************************************************************************)
EXTENDS SendQueue, SequenceTheorems, WellFoundedInduction, TLAPS

(* Induction over the naturals, as a fact about a set.                     *)
LEMMA Induction ==
  ASSUME NEW T, 0 \in T, \A k \in Nat : k \in T => k + 1 \in T
  PROVE  Nat \subseteq T
<1> DEFINE R == OpToRel(<, Nat)
<1> DEFINE U == Nat \ T
<1>1. IsWellFoundedOn(R, Nat) BY NatLessThanWellFounded
<1>2. SUFFICES ASSUME U # {} PROVE FALSE OBVIOUS
<1>3. PICK x \in U : \A y \in U : ~ (<<y, x>> \in R)
  <2> HIDE DEF R
  <2> QED BY <1>1, <1>2, WFMin
<1>4. x - 1 \in Nat /\ x = (x - 1) + 1 OBVIOUS
<1>5. <<x - 1, x>> \in R BY <1>4 DEF OpToRel
<1>6. x - 1 \in T BY <1>3, <1>4, <1>5
<1> QED BY <1>4, <1>6
-----------------------------------------------------------------------------
(* f is a solution of the recursion in FlattenSeq(seqs).                   *)
Flattens(seqs, f) ==
  f = [i \in 1 .. Len(seqs) |-> IF i = 1 THEN seqs[i] ELSE f[i - 1] \o seqs[i]]

(* FlattenSeq of the community modules is its folding function at the end. *)
LEMMA FlattenDef ==
  ASSUME NEW seqs, Len(seqs) # 0
  PROVE  FlattenSeq(seqs) = (CHOOSE f : Flattens(seqs, f))[Len(seqs)]
BY DEF FlattenSeq, Flattens

(* f solves the recursion up to k.                                         *)
Partial(seqs, k, f) ==
  \A i \in 1 .. k : f[i] = IF i = 1 THEN seqs[i] ELSE f[i - 1] \o seqs[i]

(* The recursion has a solution, built one index at a time.                *)
LEMMA FlattenExists ==
  ASSUME NEW S, NEW seqs \in Seq(Seq(S))
  PROVE  \E f : Flattens(seqs, f)
<1> DEFINE T == {k \in Nat : k <= Len(seqs) => \E f \in [1 .. k -> Seq(S)] : Partial(seqs, k, f)}
<1>1. 0 \in T
  <2>1. [i \in 1 .. 0 |-> <<>>] \in [1 .. 0 -> Seq(S)] OBVIOUS
  <2>2. Partial(seqs, 0, [i \in 1 .. 0 |-> <<>>]) BY DEF Partial
  <2> QED BY <2>1, <2>2
<1>2. ASSUME NEW k \in Nat, k \in T PROVE k + 1 \in T
  <2>1. SUFFICES ASSUME k + 1 <= Len(seqs)
                 PROVE  \E f \in [1 .. k + 1 -> Seq(S)] : Partial(seqs, k + 1, f)
    OBVIOUS
  <2>2. PICK f \in [1 .. k -> Seq(S)] : Partial(seqs, k, f)
    BY <1>2, <2>1
  <2>3. seqs[k + 1] \in Seq(S) BY <2>1, ElementOfSeq
  <2> DEFINE e == IF k = 0 THEN seqs[1] ELSE f[k] \o seqs[k + 1]
             g == [i \in 1 .. k + 1 |-> IF i = k + 1 THEN e ELSE f[i]]
  <2>4. e \in Seq(S)
    <3>1. CASE k = 0 BY <3>1, <2>3
    <3>2. CASE k # 0
      <4>1. f[k] \in Seq(S) BY <3>2, <2>2
      <4> QED BY <3>2, <4>1, <2>3, ConcatProperties
    <3> QED BY <3>1, <3>2
  <2>5. g \in [1 .. k + 1 -> Seq(S)]
    <3> HIDE DEF e
    <3> QED BY <2>2, <2>4
  <2>6. Partial(seqs, k + 1, g)
    <3> SUFFICES ASSUME NEW i \in 1 .. k + 1
                 PROVE  g[i] = IF i = 1 THEN seqs[i] ELSE g[i - 1] \o seqs[i]
      BY DEF Partial
    <3>1. CASE i = k + 1 BY <3>1
    <3>2. CASE i # k + 1
      <4>1. i \in 1 .. k /\ (i # 1 => i - 1 \in 1 .. k) BY <3>2
      <4>2. g[i] = f[i] BY <3>2
      <4>3. i # 1 => g[i - 1] = f[i - 1]
        <5> SUFFICES ASSUME i # 1 PROVE g[i - 1] = f[i - 1] OBVIOUS
        <5>1. i - 1 \in 1 .. k + 1 /\ i - 1 # k + 1 OBVIOUS
        <5> HIDE DEF e
        <5> QED BY <5>1
      <4> QED BY <2>2, <4>1, <4>2, <4>3 DEF Partial
    <3> QED BY <3>1, <3>2
  <2> QED BY <2>5, <2>6
<1>3. Nat \subseteq T
  <2> HIDE DEF T
  <2> QED BY <1>1, <1>2, Induction
<1>4. PICK f \in [1 .. Len(seqs) -> Seq(S)] : Partial(seqs, Len(seqs), f)
  <2>1. Len(seqs) \in Nat OBVIOUS
  <2>2. Len(seqs) \in T BY <1>3, <2>1
  <2> QED BY <2>1, <2>2
<1> QED BY <1>4 DEF Partial, Flattens

(* The folding function that FlattenSeq chooses.                           *)
Fold(seqs) == CHOOSE f : Flattens(seqs, f)

(* Hence the function that FlattenSeq chooses satisfies the recursion.     *)
LEMMA FoldSteps ==
  ASSUME NEW S, NEW seqs \in Seq(Seq(S)), NEW i \in 1 .. Len(seqs)
  PROVE  Fold(seqs)[i] = IF i = 1 THEN seqs[i] ELSE Fold(seqs)[i - 1] \o seqs[i]
<1>1. Flattens(seqs, Fold(seqs)) BY FlattenExists DEF Fold
<1> QED BY <1>1 DEF Flattens

(* And it yields strings.                                                  *)
LEMMA FoldType ==
  ASSUME NEW S, NEW seqs \in Seq(Seq(S))
  PROVE  \A i \in 1 .. Len(seqs) : Fold(seqs)[i] \in Seq(S)
<1> DEFINE T == {k \in Nat : k \in 1 .. Len(seqs) => Fold(seqs)[k] \in Seq(S)}
<1>1. 0 \in T OBVIOUS
<1>2. ASSUME NEW k \in Nat, k \in T PROVE k + 1 \in T
  <2>1. SUFFICES ASSUME k + 1 \in 1 .. Len(seqs) PROVE Fold(seqs)[k + 1] \in Seq(S)
    OBVIOUS
  <2>2. seqs[k + 1] \in Seq(S) BY <2>1, ElementOfSeq
  <2>3. Fold(seqs)[k + 1] = IF k + 1 = 1 THEN seqs[k + 1]
                            ELSE Fold(seqs)[k + 1 - 1] \o seqs[k + 1]
    BY <2>1, FoldSteps
  <2>4. CASE k = 0 BY <2>2, <2>3, <2>4
  <2>5. CASE k # 0
    <3>1. Fold(seqs)[k] \in Seq(S) BY <1>2, <2>1, <2>5
    <3>2. k + 1 # 1 /\ k + 1 - 1 = k BY <2>5
    <3>3. Fold(seqs)[k + 1] = Fold(seqs)[k] \o seqs[k + 1] BY <2>3, <3>2
    <3> QED BY <2>2, <3>1, <3>3, ConcatProperties
  <2> QED BY <2>4, <2>5
<1>3. Nat \subseteq T
  <2> HIDE DEF T
  <2> QED BY <1>1, <1>2, Induction
<1> QED BY <1>3

(* Joining no strings.                                                     *)
LEMMA FlattenEmpty == FlattenSeq(<<>>) = <<>>
BY DEF FlattenSeq

(* Joining strings gives a string.                                         *)
LEMMA FlattenType ==
  ASSUME NEW S, NEW seqs \in Seq(Seq(S))
  PROVE  FlattenSeq(seqs) \in Seq(S)
<1>1. CASE Len(seqs) = 0
  <2>1. seqs = <<>> BY <1>1, EmptySeq
  <2>2. FlattenSeq(seqs) = <<>> BY <2>1, FlattenEmpty
  <2> QED BY <2>2, EmptySeq
<1>2. CASE Len(seqs) # 0
  <2>1. FlattenSeq(seqs) = Fold(seqs)[Len(seqs)] BY <1>2, FlattenDef DEF Fold
  <2>2. Len(seqs) \in 1 .. Len(seqs) BY <1>2
  <2> QED BY <2>1, <2>2, FoldType
<1> QED BY <1>1, <1>2

(* One more string at the end.                                             *)
LEMMA FlattenAppend ==
  ASSUME NEW S, NEW seqs \in Seq(Seq(S)), NEW e \in Seq(S)
  PROVE  FlattenSeq(Append(seqs, e)) = FlattenSeq(seqs) \o e
<1> DEFINE more == Append(seqs, e)
<1>0. /\ more \in Seq(Seq(S)) /\ Len(more) = Len(seqs) + 1
      /\ \A i \in 1 .. Len(seqs) : more[i] = seqs[i]
      /\ more[Len(seqs) + 1] = e
      /\ Len(seqs) \in Nat
  BY AppendProperties
<1> HIDE DEF more
<1>1. FlattenSeq(more) = Fold(more)[Len(seqs) + 1] BY <1>0, FlattenDef DEF Fold
<1>2. Fold(more)[Len(seqs) + 1] = IF Len(seqs) + 1 = 1 THEN more[Len(seqs) + 1]
                                  ELSE Fold(more)[Len(seqs) + 1 - 1] \o more[Len(seqs) + 1]
  <2>1. Len(seqs) + 1 \in 1 .. Len(more) BY <1>0
  <2> QED BY <1>0, <2>1, FoldSteps
<1>3. CASE Len(seqs) = 0
  <2>1. seqs = <<>> BY <1>3, EmptySeq
  <2>2. FlattenSeq(seqs) = <<>> BY <2>1, FlattenEmpty
  <2>3. FlattenSeq(more) = e BY <1>0, <1>1, <1>2, <1>3
  <2> QED BY <2>2, <2>3, ConcatEmptySeq DEF more
<1>4. CASE Len(seqs) # 0
  <2> DEFINE T == {k \in Nat : k \in 1 .. Len(seqs) => Fold(more)[k] = Fold(seqs)[k]}
  <2>1. 0 \in T OBVIOUS
  <2>2. ASSUME NEW k \in Nat, k \in T PROVE k + 1 \in T
    <3>1. SUFFICES ASSUME k + 1 \in 1 .. Len(seqs) PROVE Fold(more)[k + 1] = Fold(seqs)[k + 1]
      OBVIOUS
    <3>2. Fold(seqs)[k + 1] = IF k + 1 = 1 THEN seqs[k + 1]
                              ELSE Fold(seqs)[k + 1 - 1] \o seqs[k + 1]
      BY <3>1, FoldSteps
    <3>3. Fold(more)[k + 1] = IF k + 1 = 1 THEN more[k + 1]
                              ELSE Fold(more)[k + 1 - 1] \o more[k + 1]
      <4>1. k + 1 \in 1 .. Len(more) BY <3>1, <1>0
      <4>2. more \in Seq(Seq(S)) BY <1>0
      <4> QED BY <4>1, <4>2, FoldSteps
    <3>4. more[k + 1] = seqs[k + 1] BY <1>0, <3>1
    <3>5. CASE k = 0 BY <3>2, <3>3, <3>4, <3>5
    <3>6. CASE k # 0
      <4>1. k \in 1 .. Len(seqs) /\ k + 1 - 1 = k /\ k + 1 # 1 BY <3>1, <3>6
      <4>2. Fold(more)[k] = Fold(seqs)[k] BY <2>2, <4>1
      <4> QED BY <3>2, <3>3, <3>4, <4>1, <4>2
    <3> QED BY <3>5, <3>6
  <2>3. Nat \subseteq T
    <3> HIDE DEF T
    <3> QED BY <2>1, <2>2, Induction
  <2>4. Fold(more)[Len(seqs)] = Fold(seqs)[Len(seqs)] BY <1>0, <1>4, <2>3
  <2>5. FlattenSeq(seqs) = Fold(seqs)[Len(seqs)] BY <1>4, FlattenDef DEF Fold
  <2>6. FlattenSeq(more) = Fold(more)[Len(seqs)] \o e
    BY <1>0, <1>1, <1>2, <1>4
  <2> QED BY <2>4, <2>5, <2>6 DEF more
<1> QED BY <1>3, <1>4

(* Appending in two pieces is appending at once, in either grouping.       *)
LEMMA Regroup ==
  ASSUME NEW S, NEW s \in Seq(S), NEW t \in Seq(S), NEW u \in Seq(S)
  PROVE  (s \o t) \o u = s \o (t \o u)
BY ConcatAssociative

(* The bytes that occur in strings.                                        *)
Byte == UNION {Range(string) : string \in Strings}

(* The same for strings of bytes.                                          *)
LEMMA RegroupBytes ==
  \A s, t, u \in Seq(Byte) : (s \o t) \o u = s \o (t \o u)
BY ConcatAssociative

(* Joining two lists of strings, the second of them one string longer.     *)
LEMMA FlattenConcatAppend ==
  ASSUME NEW S, NEW a \in Seq(Seq(S)), NEW d \in Seq(Seq(S)), NEW e \in Seq(S),
         FlattenSeq(a \o d) = FlattenSeq(a) \o FlattenSeq(d)
  PROVE  FlattenSeq(a \o Append(d, e)) = FlattenSeq(a) \o FlattenSeq(Append(d, e))
<1>1. a \o d \in Seq(Seq(S)) BY ConcatProperties
<1>2. a \o Append(d, e) = Append(a \o d, e) OBVIOUS
<1>3. FlattenSeq(Append(a \o d, e)) = FlattenSeq(a \o d) \o e BY <1>1, FlattenAppend
<1>4. FlattenSeq(Append(d, e)) = FlattenSeq(d) \o e BY FlattenAppend
<1>5. FlattenSeq(a) \in Seq(S) /\ FlattenSeq(d) \in Seq(S) BY FlattenType
<1>6. (FlattenSeq(a) \o FlattenSeq(d)) \o e = FlattenSeq(a) \o (FlattenSeq(d) \o e)
  BY <1>5, Regroup, SMTT(20)
<1> QED BY <1>2, <1>3, <1>4, <1>6

(* Joining two lists of strings joins the results.                         *)
LEMMA FlattenConcat ==
  ASSUME NEW S, NEW a \in Seq(Seq(S)), NEW b \in Seq(Seq(S))
  PROVE  FlattenSeq(a \o b) = FlattenSeq(a) \o FlattenSeq(b)
<1> DEFINE P(c) == FlattenSeq(a \o c) = FlattenSeq(a) \o FlattenSeq(c)
           T == {k \in Nat : \A c \in Seq(Seq(S)) : Len(c) = k => P(c)}
<1>1. 0 \in T
  <2> SUFFICES ASSUME NEW c \in Seq(Seq(S)), Len(c) = 0 PROVE P(c) OBVIOUS
  <2>1. c = <<>> BY EmptySeq
  <2>2. a \o c = a /\ FlattenSeq(c) = <<>> BY <2>1, ConcatEmptySeq, FlattenEmpty
  <2>3. FlattenSeq(a) \in Seq(S) BY FlattenType
  <2> QED BY <2>2, <2>3, ConcatEmptySeq
<1>2. ASSUME NEW k \in Nat, k \in T PROVE k + 1 \in T
  <2> SUFFICES ASSUME NEW c \in Seq(Seq(S)), Len(c) = k + 1 PROVE P(c) OBVIOUS
  <2>1. PICK d \in Seq(Seq(S)), e \in Seq(S) : c = Append(d, e)
    <3>1. c # <<>> BY EmptySeq
    <3> QED BY <3>1, SequenceEmptyOrAppend
  <2>2. Len(d) = k BY <2>1, AppendProperties
  <2>3. P(d) BY <1>2, <2>2
  <2> QED BY <2>1, <2>3, FlattenConcatAppend
<1>3. Nat \subseteq T
  <2> HIDE DEF T
  <2> QED BY <1>1, <1>2, Induction
<1>4. Len(b) \in T BY <1>3
<1> QED BY <1>4

(* The first string, then the others: how remove_prefix() walks a list.    *)
LEMMA FlattenHead ==
  ASSUME NEW S, NEW seqs \in Seq(Seq(S)), seqs # <<>>
  PROVE  FlattenSeq(seqs) = Head(seqs) \o FlattenSeq(Tail(seqs))
<1>1. Head(seqs) \in Seq(S) /\ Tail(seqs) \in Seq(Seq(S)) BY HeadTailProperties
<1>2. <<Head(seqs)>> \in Seq(Seq(S)) BY <1>1
<1>3. seqs = <<Head(seqs)>> \o Tail(seqs) OBVIOUS
<1>4. FlattenSeq(<<Head(seqs)>>) = Head(seqs)
  <2>1. <<Head(seqs)>> = Append(<<>>, Head(seqs)) OBVIOUS
  <2>2. <<>> \in Seq(Seq(S)) OBVIOUS
  <2>3. FlattenSeq(<<Head(seqs)>>) = FlattenSeq(<<>>) \o Head(seqs)
    BY <1>1, <2>1, <2>2, FlattenAppend
  <2> QED BY <1>1, <2>3, FlattenEmpty, ConcatEmptySeq
<1>5. FlattenSeq(<<Head(seqs)>> \o Tail(seqs))
        = FlattenSeq(<<Head(seqs)>>) \o FlattenSeq(Tail(seqs))
  BY <1>1, <1>2, FlattenConcat
<1> QED BY <1>3, <1>4, <1>5
-----------------------------------------------------------------------------
(* The values of Buffer objects.                                           *)
Buf == [storage : Storage \cup {Null}, offset : Nat]

(* The types of the lists' variables and of write()'s.                     *)
ListTypes ==
  /\ heap \in [Storage -> Seq(Byte)]
  /\ buffers \in [List -> Seq(Buf)]
  /\ trim \in [list : List \cup {Null}, n : Nat] /\ (trim.n > 0 => trim.list \in List)
  /\ text \in [List -> Seq(Byte)]

WriteTypes ==
  /\ payload \in Seq(Seq(Byte)) /\ views \in Seq(Seq(Byte)) /\ write_all \in BOOLEAN
  /\ n \in Nat /\ bytes_written \in Nat /\ total_bytes_written \in Nat /\ before \in Nat
  /\ accepted \in Seq(Byte)
  /\ pc \in {"idle", "writev", "remove", "returned", "threw"}

(* A Buffer that still has its storage has a byte of it left, unless the   *)
(* string was empty from the start.                                        *)
Fits(b) ==
  b.storage # Null => \/ b.offset < Len(heap[b.storage])
                      \/ b.offset = 0 /\ heap[b.storage] = <<>>
BuffersFit == \A b \in Live(buffers) : Fits(b)

(* Whatever is on the heap is on it for some list.                         *)
Owned == \A s \in Storage : heap[s] # <<>> => \E b \in Live(buffers) : b.storage = s

(* Where a write() in progress is.                                         *)
Progress ==
  pc # "idle" =>
    /\ before <= Len(accepted) /\ n <= ViewsSize(views)
    /\ Drop(accepted, before) \o Drop(Bytes(views), n) = Bytes(payload)
    /\ pc # "remove" => n = 0
    /\ total_bytes_written + (IF pc = "remove" THEN bytes_written ELSE 0)
         = Len(accepted) - before
    /\ pc = "returned" /\ write_all => ViewsSize(views) = 0
    /\ pc \in {"writev", "threw"} /\ ~ write_all => Len(accepted) = before

(* The queue through a write(): what it sends is what the queue holds.     *)
Queue ==
  IF pc = "idle" THEN accepted \o text[queue] = given
  ELSE /\ trim.n = 0
       /\ Bytes(payload) = text[queue]
       /\ SubSeq(accepted, 1, before) \o text[queue] = given

(* The inductive invariant.                                                *)
ListInv == ListTypes /\ BuffersFit /\ Owned /\ SameAsString
WriteInv == WriteTypes /\ Progress
QueueInv == given \in Seq(Byte) /\ Queue

IInv == ListInv /\ WriteInv /\ QueueInv
-----------------------------------------------------------------------------
(* What Drop returns.                                                      *)
LEMMA DropType ==
  ASSUME NEW S, NEW s \in Seq(S), NEW k \in Nat
  PROVE  /\ Drop(s, k) \in Seq(S)
         /\ Len(Drop(s, k)) = IF k <= Len(s) THEN Len(s) - k ELSE 0
         /\ \A i \in 1 .. Len(s) - k : Drop(s, k)[i] = s[k + i]
<1>1. \A i \in k + 1 .. Len(s) : s[i] \in S OBVIOUS
<1>2. Len(s) \in Int /\ k + 1 \in Int OBVIOUS
<1>3. /\ SubSeq(s, k + 1, Len(s)) \in Seq(S)
      /\ Len(SubSeq(s, k + 1, Len(s))) = IF k + 1 <= Len(s) THEN Len(s) - (k + 1) + 1 ELSE 0
      /\ \A i \in 1 .. Len(s) - (k + 1) + 1 : SubSeq(s, k + 1, Len(s))[i] = s[k + 1 + i - 1]
  BY <1>1, <1>2, SubSeqProperties
<1>4. ASSUME NEW i \in 1 .. Len(s) - k PROVE Drop(s, k)[i] = s[k + i]
  <2>1. i \in 1 .. Len(s) - (k + 1) + 1 /\ k + 1 + i - 1 = k + i OBVIOUS
  <2> QED BY <1>3, <2>1 DEF Drop
<1>5. Len(Drop(s, k)) = IF k <= Len(s) THEN Len(s) - k ELSE 0 BY <1>2, <1>3 DEF Drop
<1> QED BY <1>3, <1>4, <1>5 DEF Drop

(* Dropping nothing.                                                       *)
LEMMA DropNone ==
  ASSUME NEW S, NEW s \in Seq(S)
  PROVE  Drop(s, 0) = s
BY SubSeqFull DEF Drop

(* Dropping everything, or more than there is.                             *)
LEMMA DropAll ==
  ASSUME NEW S, NEW s \in Seq(S), NEW k \in Nat, k >= Len(s)
  PROVE  Drop(s, k) = <<>>
BY SubSeqEmpty DEF Drop

(* Dropping within the first of two pieces.                                *)
LEMMA DropConcatLeft ==
  ASSUME NEW S, NEW a \in Seq(S), NEW b \in Seq(S), NEW k \in Nat, k <= Len(a)
  PROVE  Drop(a \o b, k) = Drop(a, k) \o b
<1> DEFINE c == a \o b  d == Drop(a, k)  x == Drop(c, k)  y == d \o b
<1>0. Len(a) \in Nat /\ Len(b) \in Nat OBVIOUS
<1>1. /\ c \in Seq(S) /\ Len(c) = Len(a) + Len(b)
      /\ \A i \in 1 .. Len(a) + Len(b) : c[i] = IF i <= Len(a) THEN a[i] ELSE b[i - Len(a)]
  BY ConcatProperties
<1>2. d \in Seq(S) /\ Len(d) = Len(a) - k /\ \A i \in 1 .. Len(a) - k : d[i] = a[k + i]
  BY DropType
<1> HIDE DEF c, d
<1>3. /\ x \in Seq(S) /\ Len(x) = IF k <= Len(c) THEN Len(c) - k ELSE 0
      /\ \A i \in 1 .. Len(c) - k : x[i] = c[k + i]
  BY <1>1, DropType
<1>4. /\ y \in Seq(S) /\ Len(y) = Len(d) + Len(b)
      /\ \A i \in 1 .. Len(d) + Len(b) : y[i] = IF i <= Len(d) THEN d[i] ELSE b[i - Len(d)]
  BY <1>2, ConcatProperties
<1> HIDE DEF x, y
<1>5. Len(x) = Len(y) BY <1>0, <1>1, <1>2, <1>3, <1>4
<1>6. ASSUME NEW i \in 1 .. Len(x) PROVE x[i] = y[i]
  <2>1. /\ i \in 1 .. Len(c) - k /\ i \in 1 .. Len(d) + Len(b)
        /\ k + i \in 1 .. Len(a) + Len(b)
        /\ k + i - Len(a) = i - Len(d) /\ (k + i <= Len(a) <=> i <= Len(d))
        /\ (i <= Len(d) => i \in 1 .. Len(a) - k)
    BY <1>0, <1>1, <1>2, <1>3
  <2>2. x[i] = IF k + i <= Len(a) THEN a[k + i] ELSE b[k + i - Len(a)]
    <3>1. x[i] = c[k + i] BY <1>3, <2>1
    <3>2. c[k + i] = IF k + i <= Len(a) THEN a[k + i] ELSE b[k + i - Len(a)] BY <1>1, <2>1
    <3> QED BY <3>1, <3>2
  <2>3. y[i] = IF i <= Len(d) THEN d[i] ELSE b[i - Len(d)] BY <1>4, <2>1
  <2> QED BY <1>2, <2>1, <2>2, <2>3
<1>7. x = y BY <1>3, <1>4, <1>5, <1>6, SeqEqual
<1> QED BY <1>7 DEF x, y, c, d

(* Dropping the first of two pieces and part of the second.                *)
LEMMA DropConcatRight ==
  ASSUME NEW S, NEW a \in Seq(S), NEW b \in Seq(S), NEW k \in Nat, k >= Len(a)
  PROVE  Drop(a \o b, k) = Drop(b, k - Len(a))
<1> DEFINE c == a \o b  x == Drop(c, k)  y == Drop(b, k - Len(a))
<1>0. Len(a) \in Nat /\ Len(b) \in Nat /\ k - Len(a) \in Nat OBVIOUS
<1>1. /\ c \in Seq(S) /\ Len(c) = Len(a) + Len(b)
      /\ \A i \in 1 .. Len(a) + Len(b) : c[i] = IF i <= Len(a) THEN a[i] ELSE b[i - Len(a)]
  BY ConcatProperties
<1>2. /\ y \in Seq(S) /\ Len(y) = IF k - Len(a) <= Len(b) THEN Len(b) - (k - Len(a)) ELSE 0
      /\ \A i \in 1 .. Len(b) - (k - Len(a)) : y[i] = b[k - Len(a) + i]
  BY <1>0, DropType
<1> HIDE DEF c, y
<1>3. /\ x \in Seq(S) /\ Len(x) = IF k <= Len(c) THEN Len(c) - k ELSE 0
      /\ \A i \in 1 .. Len(c) - k : x[i] = c[k + i]
  <2>1. c \in Seq(S) BY <1>1
  <2> QED BY <2>1, DropType
<1> HIDE DEF x
<1>4. Len(x) = Len(y) BY <1>0, <1>1, <1>2, <1>3
<1>5. ASSUME NEW i \in 1 .. Len(x) PROVE x[i] = y[i]
  <2>1. i \in 1 .. Len(c) - k /\ i \in 1 .. Len(b) - (k - Len(a)) BY <1>0, <1>1, <1>3
  <2>2. k + i \in 1 .. Len(a) + Len(b) /\ ~ (k + i <= Len(a)) /\ k + i - Len(a) = k - Len(a) + i
    BY <1>0, <1>1, <2>1
  <2>3. x[i] = b[k + i - Len(a)] BY <1>1, <1>3, <2>1, <2>2
  <2> QED BY <1>2, <2>1, <2>2, <2>3
<1>6. x = y BY <1>2, <1>3, <1>4, <1>5, SeqEqual
<1> QED BY <1>6 DEF x, y, c

(* Dropping twice.                                                         *)
LEMMA DropDrop ==
  ASSUME NEW S, NEW s \in Seq(S), NEW j \in Nat, NEW k \in Nat
  PROVE  Drop(Drop(s, j), k) = Drop(s, j + k)
<1> DEFINE d == Drop(s, j)  x == Drop(d, k)  y == Drop(s, j + k)
<1>0. Len(s) \in Nat /\ j + k \in Nat OBVIOUS
<1>1. /\ d \in Seq(S) /\ Len(d) = IF j <= Len(s) THEN Len(s) - j ELSE 0
      /\ \A i \in 1 .. Len(s) - j : d[i] = s[j + i]
  BY DropType
<1>2. /\ y \in Seq(S) /\ Len(y) = IF j + k <= Len(s) THEN Len(s) - (j + k) ELSE 0
      /\ \A i \in 1 .. Len(s) - (j + k) : y[i] = s[j + k + i]
  BY <1>0, DropType
<1> HIDE DEF d, y
<1>3. /\ x \in Seq(S) /\ Len(x) = IF k <= Len(d) THEN Len(d) - k ELSE 0
      /\ \A i \in 1 .. Len(d) - k : x[i] = d[k + i]
  BY <1>1, DropType
<1> HIDE DEF x
<1>4. Len(x) = Len(y) BY <1>0, <1>1, <1>2, <1>3
<1>5. ASSUME NEW i \in 1 .. Len(x) PROVE x[i] = y[i]
  <2>1. i \in 1 .. Len(d) - k /\ i \in 1 .. Len(s) - (j + k) /\ k + i \in 1 .. Len(s) - j
    BY <1>0, <1>1, <1>3
  <2>2. j + (k + i) = j + k + i BY <2>1
  <2>3. x[i] = s[j + (k + i)] BY <1>1, <1>3, <2>1
  <2> QED BY <1>2, <2>1, <2>2, <2>3
<1>6. x = y BY <1>2, <1>3, <1>4, <1>5, SeqEqual
<1> QED BY <1>6 DEF x, y, d

(* A string is its front and the rest.                                     *)
LEMMA FrontAndRest ==
  ASSUME NEW S, NEW s \in Seq(S), NEW k \in 0 .. Len(s)
  PROVE  /\ SubSeq(s, 1, k) \in Seq(S) /\ Len(SubSeq(s, 1, k)) = k
         /\ SubSeq(s, 1, k) \o Drop(s, k) = s
<1>1. SubSeq(s, 1, k) \in Seq(S) /\ Len(SubSeq(s, 1, k)) = k OBVIOUS
<1>2. SubSeq(s, 1, k) \o SubSeq(s, k + 1, Len(s)) = SubSeq(s, 1, Len(s))
  <2>1. 1 \in 1 .. Len(s) + 1 /\ k \in 1 - 1 .. Len(s) /\ Len(s) \in k .. Len(s) OBVIOUS
  <2> QED BY <2>1, ConcatAdjacentSubSeq
<1>3. SubSeq(s, 1, Len(s)) = s BY SubSeqFull
<1> QED BY <1>1, <1>2, <1>3 DEF Drop
-----------------------------------------------------------------------------
(* Buffers and lists of them.                                              *)
(* The views of a list of Buffers, as BufferViewList makes them.           *)
Strs(bufs) == [i \in DOMAIN bufs |-> str(bufs[i])]

(* The strings given to the constructor are strings of bytes.              *)
LEMMA StringsAreBytes == Strings \subseteq Seq(Byte)
<1> SUFFICES ASSUME NEW string \in Strings PROVE string \in Seq(Byte) OBVIOUS
<1>1. string \in Seq(Range(string)) BY SendQueueAssumption
<1>2. Range(string) \subseteq Byte BY DEF Byte
<1> QED BY <1>1, <1>2, SeqMonotonic

(* What a Buffer shows is a string.                                        *)
LEMMA StrType ==
  ASSUME heap \in [Storage -> Seq(Byte)], NEW b \in Buf
  PROVE  str(b) \in Seq(Byte) /\ size(b) \in Nat
<1>1. b.storage \in Storage \cup {Null} /\ b.offset \in Nat BY DEF Buf
<1>2. CASE b.storage = Null
  <2>1. str(b) = <<>> BY <1>2 DEF str
  <2> QED BY <2>1 DEF size
<1>3. CASE b.storage # Null
  <2>1. heap[b.storage] \in Seq(Byte) BY <1>1, <1>3
  <2>2. str(b) = Drop(heap[b.storage], b.offset) BY <1>3 DEF str
  <2>3. str(b) \in Seq(Byte) BY <1>1, <2>1, <2>2, DropType
  <2> QED BY <2>3 DEF size
<1> QED BY <1>2, <1>3

(* The views of a list of Buffers.                                         *)
LEMMA StrsType ==
  ASSUME heap \in [Storage -> Seq(Byte)], NEW bufs \in Seq(Buf)
  PROVE  Strs(bufs) \in Seq(Seq(Byte)) /\ Len(Strs(bufs)) = Len(bufs)
         /\ \A i \in 1 .. Len(bufs) : Strs(bufs)[i] = str(bufs[i])
<1>1. DOMAIN bufs = 1 .. Len(bufs) /\ Len(bufs) \in Nat OBVIOUS
<1>2. ASSUME NEW i \in 1 .. Len(bufs) PROVE str(bufs[i]) \in Seq(Byte)
  <2>1. bufs[i] \in Buf BY ElementOfSeq
  <2> QED BY <2>1, StrType
<1>3. Strs(bufs) = [i \in 1 .. Len(bufs) |-> str(bufs[i])] BY <1>1 DEF Strs
<1>4. Strs(bufs) \in [1 .. Len(bufs) -> Seq(Byte)] BY <1>2, <1>3
<1> QED BY <1>1, <1>3, <1>4

(* concatenate() joins those views.                                        *)
LEMMA ConcatenateIs ==
  ASSUME NEW l
  PROVE  concatenate(l) = FlattenSeq(Strs(buffers[l]))
BY DEF concatenate, Strs

(* The views of two lists, one after the other.                            *)
LEMMA StrsConcat ==
  ASSUME heap \in [Storage -> Seq(Byte)], NEW a \in Seq(Buf), NEW b \in Seq(Buf)
  PROVE  Strs(a \o b) = Strs(a) \o Strs(b)
<1> DEFINE c == a \o b  x == Strs(c)  sa == Strs(a)  sb == Strs(b)  y == sa \o sb
<1>0. Len(a) \in Nat /\ Len(b) \in Nat OBVIOUS
<1>1. /\ c \in Seq(Buf) /\ Len(c) = Len(a) + Len(b)
      /\ \A i \in 1 .. Len(a) + Len(b) : c[i] = IF i <= Len(a) THEN a[i] ELSE b[i - Len(a)]
  BY ConcatProperties
<1>2. /\ sa \in Seq(Seq(Byte)) /\ Len(sa) = Len(a)
      /\ \A i \in 1 .. Len(a) : sa[i] = str(a[i])
  BY StrsType
<1>3. /\ sb \in Seq(Seq(Byte)) /\ Len(sb) = Len(b)
      /\ \A i \in 1 .. Len(b) : sb[i] = str(b[i])
  BY StrsType
<1> HIDE DEF c, sa, sb
<1>4. /\ x \in Seq(Seq(Byte)) /\ Len(x) = Len(c)
      /\ \A i \in 1 .. Len(c) : x[i] = str(c[i])
  <2>1. c \in Seq(Buf) BY <1>1
  <2> QED BY <2>1, StrsType
<1>5. /\ y \in Seq(Seq(Byte)) /\ Len(y) = Len(sa) + Len(sb)
      /\ \A i \in 1 .. Len(sa) + Len(sb) : y[i] = IF i <= Len(sa) THEN sa[i] ELSE sb[i - Len(sa)]
  <2>1. sa \in Seq(Seq(Byte)) /\ sb \in Seq(Seq(Byte)) BY <1>2, <1>3
  <2> QED BY <2>1, ConcatProperties
<1> HIDE DEF x, y
<1>6. Len(x) = Len(y) BY <1>0, <1>1, <1>2, <1>3, <1>4, <1>5
<1>7. ASSUME NEW i \in 1 .. Len(x) PROVE x[i] = y[i]
  <2>1. i \in 1 .. Len(a) + Len(b) /\ i \in 1 .. Len(c) BY <1>0, <1>1, <1>4
  <2>2. x[i] = str(c[i]) BY <1>4, <2>1
  <2>3. c[i] = IF i <= Len(a) THEN a[i] ELSE b[i - Len(a)] BY <1>1, <2>1
  <2>4. y[i] = IF i <= Len(a) THEN sa[i] ELSE sb[i - Len(a)] BY <1>2, <1>3, <1>5, <2>1
  <2>5. CASE i <= Len(a)
    <3>1. i \in 1 .. Len(a) BY <2>1, <2>5
    <3> QED BY <1>2, <2>2, <2>3, <2>4, <2>5, <3>1
  <2>6. CASE ~ (i <= Len(a))
    <3>1. i - Len(a) \in 1 .. Len(b) BY <1>0, <2>1, <2>6
    <3> QED BY <1>3, <2>2, <2>3, <2>4, <2>6, <3>1
  <2> QED BY <2>5, <2>6
<1>8. x = y BY <1>4, <1>5, <1>6, <1>7, SeqEqual
<1> QED BY <1>8 DEF x, y, c, sa, sb

(* The text of a list of one Buffer.                                       *)
LEMMA FlattenOne ==
  ASSUME heap \in [Storage -> Seq(Byte)], NEW b \in Buf
  PROVE  FlattenSeq(Strs(<<b>>)) = str(b)
<1>1. str(b) \in Seq(Byte) BY StrType
<1>2. Strs(<<b>>) = <<str(b)>> BY DEF Strs
<1>3. FlattenSeq(<<str(b)>>) = Head(<<str(b)>>) \o FlattenSeq(Tail(<<str(b)>>))
  <2>1. <<str(b)>> \in Seq(Seq(Byte)) /\ <<str(b)>> # <<>> BY <1>1
  <2> QED BY <2>1, FlattenHead
<1>4. Head(<<str(b)>>) = str(b) /\ Tail(<<str(b)>>) = <<>> OBVIOUS
<1> QED BY <1>1, <1>2, <1>3, <1>4, FlattenEmpty, ConcatEmptySeq

(* The text of a list is the text of its first Buffer and of the others.   *)
LEMMA FlattenFront ==
  ASSUME heap \in [Storage -> Seq(Byte)], NEW b \in Buf, NEW rest \in Seq(Buf)
  PROVE  FlattenSeq(Strs(<<b>> \o rest)) = str(b) \o FlattenSeq(Strs(rest))
<1>1. <<b>> \in Seq(Buf) OBVIOUS
<1>2. Strs(<<b>> \o rest) = Strs(<<b>>) \o Strs(rest) BY <1>1, StrsConcat
<1>3. Strs(<<b>>) \in Seq(Seq(Byte)) /\ Strs(rest) \in Seq(Seq(Byte)) BY <1>1, StrsType
<1>4. FlattenSeq(Strs(<<b>>) \o Strs(rest)) = FlattenSeq(Strs(<<b>>)) \o FlattenSeq(Strs(rest))
  BY <1>3, FlattenConcat
<1> QED BY <1>2, <1>4, FlattenOne

(* Buffer::remove_prefix() of no more than is there.                       *)
LEMMA DiscardIs ==
  ASSUME heap \in [Storage -> Seq(Byte)], NEW b \in Buf, Fits(b), NEW k \in Nat, k <= size(b)
  PROVE  /\ Discard(b, k) \in Buf /\ Fits(Discard(b, k))
         /\ Discard(b, k).storage \in {b.storage, Null}
         /\ str(Discard(b, k)) = Drop(str(b), k)
<1> DEFINE d == Discard(b, k)
<1>1. b = [storage |-> b.storage, offset |-> b.offset] /\ b.storage \in Storage \cup {Null}
      /\ b.offset \in Nat
  BY DEF Buf
<1>2. CASE b.storage = Null
  <2>1. d = [storage |-> Null, offset |-> b.offset + k] BY <1>1, <1>2 DEF Discard
  <2>2. str(b) = <<>> /\ str(d) = <<>> BY <1>2, <2>1 DEF str
  <2>3. Drop(<<>>, k) = <<>>
    <3>1. <<>> \in Seq(Byte) /\ k >= Len(<<>>) OBVIOUS
    <3> QED BY <3>1, DropAll
  <2>4. d \in Buf /\ Fits(d) /\ d.storage = Null BY <1>1, <2>1 DEF Buf, Fits
  <2> QED BY <2>2, <2>3, <2>4
<1>3. CASE b.storage # Null
  <2> DEFINE h == heap[b.storage]
  <2>1. h \in Seq(Byte) /\ Len(h) \in Nat BY <1>1, <1>3
  <2>2. str(b) = Drop(h, b.offset) BY <1>3 DEF str
  <2>3. b.offset <= Len(h)
    <3>1. CASE b.offset < Len(h) BY <1>1, <2>1, <3>1
    <3>2. CASE b.offset = 0 BY <2>1, <3>2
    <3> QED BY <1>3, <3>1, <3>2 DEF Fits
  <2>4. size(b) = Len(h) - b.offset
    <3> HIDE DEF h
    <3>1. Len(Drop(h, b.offset)) = Len(h) - b.offset BY <1>1, <2>1, <2>3, DropType
    <3> QED BY <2>2, <3>1 DEF size
  <2>5. b.offset + k <= Len(h) /\ b.offset + k \in Nat BY <1>1, <2>1, <2>4
  <2>6. Drop(str(b), k) = Drop(h, b.offset + k)
    <3> HIDE DEF h
    <3> QED BY <1>1, <2>1, <2>2, DropDrop
  <2>7. CASE b.offset + k = Len(h)
    <3>1. d = [storage |-> Null, offset |-> b.offset + k] BY <1>1, <1>3, <2>7 DEF Discard
    <3>2. str(d) = <<>> BY <3>1 DEF str
    <3>3. Drop(h, b.offset + k) = <<>>
      <4> HIDE DEF h
      <4> QED BY <2>1, <2>5, <2>7, DropAll
    <3>4. d \in Buf /\ Fits(d) /\ d.storage = Null BY <2>5, <3>1 DEF Buf, Fits
    <3> QED BY <2>6, <3>2, <3>3, <3>4
  <2>8. CASE b.offset + k # Len(h)
    <3>1. d = [storage |-> b.storage, offset |-> b.offset + k]
      BY <1>1, <1>3, <2>8 DEF Discard
    <3>2. str(d) = Drop(h, b.offset + k) BY <1>3, <3>1 DEF str
    <3>3. b.offset + k < Len(h) BY <2>1, <2>5, <2>8
    <3>4. Fits(d) BY <3>1, <3>3 DEF Fits
    <3>5. d \in Buf BY <1>1, <2>5, <3>1 DEF Buf
    <3>6. d.storage = b.storage BY <3>1
    <3> QED BY <2>6, <3>2, <3>4, <3>5, <3>6
  <2> QED BY <2>7, <2>8
<1> QED BY <1>2, <1>3
-----------------------------------------------------------------------------
(* A Buffer is live when some list holds it.                               *)
LEMMA LiveIs ==
  ASSUME NEW f \in [List -> Seq(Buf)]
  PROVE  /\ \A b : b \in Live(f) <=> \E l \in List : \E i \in 1 .. Len(f[l]) : b = f[l][i]
         /\ Live(f) \subseteq Buf
<1>1. ASSUME NEW l \in List PROVE Range(f[l]) = {f[l][i] : i \in 1 .. Len(f[l])}
  <2>1. f[l] \in Seq(Buf) OBVIOUS
  <2>2. DOMAIN f[l] = 1 .. Len(f[l]) BY <2>1
  <2> QED BY <2>2 DEF Range
<1>2. \A b : b \in Live(f) <=> \E l \in List : \E i \in 1 .. Len(f[l]) : b = f[l][i]
  BY <1>1 DEF Live
<1>3. ASSUME NEW l \in List, NEW i \in 1 .. Len(f[l]) PROVE f[l][i] \in Buf
  <2>1. f[l] \in Seq(Buf) OBVIOUS
  <2> QED BY <2>1, ElementOfSeq
<1> QED BY <1>2, <1>3

(* A place of the heap keeps its string while a live Buffer is on it.      *)
LEMMA HeapKeeps ==
  ASSUME heap \in [Storage -> Seq(Byte)], NEW live, NEW new, NEW string \in Seq(Byte),
         heap' = Heap(live, new, string)
  PROVE  /\ heap' \in [Storage -> Seq(Byte)]
         /\ \A b \in live \cap Buf :
              b.storage \notin new =>
                /\ str(b)' = str(b)
                /\ Fits(b) => Fits(b)'
<1>1. heap' \in [Storage -> Seq(Byte)] BY DEF Heap
<1>2. ASSUME NEW b \in live, b \in Buf, b.storage \notin new
      PROVE  str(b)' = str(b) /\ (Fits(b) => Fits(b)')
  <2>1. b.storage \in Storage \cup {Null} BY <1>2 DEF Buf
  <2>2. CASE b.storage = Null BY <2>2 DEF str, Fits
  <2>3. CASE b.storage # Null
    <3>1. heap'[b.storage] = heap[b.storage] BY <1>2, <2>1, <2>3 DEF Heap
    <3> QED BY <2>3, <3>1 DEF str, Fits, Drop
  <2> QED BY <2>2, <2>3
<1> QED BY <1>1, <1>2

(* What a change of the lists preserves, and the texts that result.        *)
LEMMA ListsChange ==
  ASSUME heap \in [Storage -> Seq(Byte)], NEW f \in [List -> Seq(Buf)],
         NEW new, NEW string \in Seq(Byte),
         buffers' = f, heap' = Heap(Live(f), new, string)
  PROVE  /\ heap' \in [Storage -> Seq(Byte)]
         /\ Live(buffers)' = Live(f)
         /\ \A b \in Live(f) : b.storage \notin new => (Fits(b) => Fits(b)')
         /\ \A s \in Storage \ new : heap'[s] # <<>> => \E b \in Live(f) : b.storage = s
         /\ \A l \in List : (\A i \in 1 .. Len(f[l]) : f[l][i].storage \notin new) =>
              concatenate(l)' = FlattenSeq(Strs(f[l]))
<1> DEFINE live == Live(f)
<1>1. live \subseteq Buf BY LiveIs
<1>2. heap' = Heap(live, new, string) OBVIOUS
<1>3. Live(buffers)' = Live(f) BY DEF Live
<1>4. ASSUME NEW l \in List, NEW i \in 1 .. Len(f[l]) PROVE f[l][i] \in live BY LiveIs
<1> HIDE DEF live
<1>5. /\ heap' \in [Storage -> Seq(Byte)]
      /\ \A b \in live \cap Buf :
           b.storage \notin new => str(b)' = str(b) /\ (Fits(b) => Fits(b)')
  BY <1>2, HeapKeeps
<1>6. \A s \in Storage \ new : heap'[s] # <<>> => \E b \in live : b.storage = s
  BY <1>2 DEF Heap
<1>7. ASSUME NEW l \in List, \A i \in 1 .. Len(f[l]) : f[l][i].storage \notin new
      PROVE  concatenate(l)' = FlattenSeq(Strs(f[l]))
  <2>1. f[l] \in Seq(Buf) OBVIOUS
  <2>2. DOMAIN f[l] = 1 .. Len(f[l]) BY <2>1
  <2>3. ASSUME NEW i \in 1 .. Len(f[l]) PROVE str(f[l][i])' = str(f[l][i])
    <3>1. f[l][i] \in live BY <1>4
    <3> QED BY <1>1, <1>5, <1>7, <3>1
  <2>4. Strs(f[l])' = Strs(f[l]) BY <2>2, <2>3 DEF Strs
  <2>5. concatenate(l)' = FlattenSeq(Strs(f[l])') BY DEF concatenate, Strs
  <2> QED BY <2>4, <2>5
<1>8. \A b \in live : b.storage \notin new => (Fits(b) => Fits(b)') BY <1>1, <1>5
<1> QED BY <1>3, <1>5, <1>6, <1>7, <1>8 DEF live

(* The text of a list is a string.                                         *)
LEMMA TextType ==
  ASSUME heap \in [Storage -> Seq(Byte)], NEW bufs \in Seq(Buf)
  PROVE  FlattenSeq(Strs(bufs)) \in Seq(Byte)
<1>1. Strs(bufs) \in Seq(Seq(Byte)) BY StrsType
<1> QED BY <1>1, FlattenType

(* The same when no string is new: only the reference counts follow.       *)
LEMMA ListsStep ==
  ASSUME heap \in [Storage -> Seq(Byte)], NEW f \in [List -> Seq(Buf)],
         \A b \in Live(f) : Fits(b), SetLists(f)
  PROVE  /\ heap' \in [Storage -> Seq(Byte)] /\ buffers' \in [List -> Seq(Buf)]
         /\ BuffersFit' /\ Owned'
         /\ \A l \in List : concatenate(l)' = FlattenSeq(Strs(f[l]))
<1> DEFINE new == {}  string == <<>>
<1>1. buffers' = f /\ heap' = Heap(Live(f), new, string) /\ string \in Seq(Byte)
  BY DEF SetLists
<1>2. \A x : x \notin new OBVIOUS
<1> HIDE DEF new, string
<1>3. /\ heap' \in [Storage -> Seq(Byte)]
      /\ Live(buffers)' = Live(f)
      /\ \A b \in Live(f) : b.storage \notin new => (Fits(b) => Fits(b)')
      /\ \A s \in Storage \ new : heap'[s] # <<>> => \E b \in Live(f) : b.storage = s
      /\ \A l \in List : (\A i \in 1 .. Len(f[l]) : f[l][i].storage \notin new) =>
           concatenate(l)' = FlattenSeq(Strs(f[l]))
  BY <1>1, ListsChange
<1>4. BuffersFit' BY <1>2, <1>3 DEF BuffersFit
<1>5. Owned' BY <1>2, <1>3 DEF Owned
<1> QED BY <1>1, <1>2, <1>3, <1>4, <1>5

(* With no remove_prefix() in progress a list's text is its string.        *)
LEMMA Settled ==
  ASSUME ListInv, NEW l \in List, trim.list = l => trim.n = 0
  PROVE  FlattenSeq(Strs(buffers[l])) = text[l]
<1>1. FlattenSeq(Strs(buffers[l])) \in Seq(Byte)
  <2>1. buffers[l] \in Seq(Buf) BY DEF ListInv, ListTypes
  <2> QED BY <2>1, TextType DEF ListInv, ListTypes
<1>2. Drop(concatenate(l), IF trim.list = l THEN trim.n ELSE 0) = text[l]
  BY DEF ListInv, SameAsString
<1>3. concatenate(l) = FlattenSeq(Strs(buffers[l])) BY ConcatenateIs
<1>4. Drop(concatenate(l), 0) = text[l] BY <1>2
<1> QED BY <1>1, <1>3, <1>4, DropNone

(* The same after a step: what to show for SameAsString.                   *)
LEMMA SettledAfter ==
  ASSUME trim'.n = 0, text' \in [List -> Seq(Byte)],
         \A l \in List : concatenate(l)' = text'[l]
  PROVE  SameAsString'
<1> SUFFICES ASSUME NEW l \in List
             PROVE  Drop(concatenate(l)', IF trim'.list = l THEN trim'.n ELSE 0) = text'[l]
  BY DEF SameAsString, Drop
<1>1. (IF trim'.list = l THEN trim'.n ELSE 0) = 0 OBVIOUS
<1>2. concatenate(l)' = text'[l] /\ text'[l] \in Seq(Byte) OBVIOUS
<1>3. Drop(text'[l], 0) = text'[l] BY <1>2, DropNone
<1> QED BY <1>1, <1>2, <1>3
-----------------------------------------------------------------------------
(* A new string goes to a place no Buffer is on.                           *)
LEMMA AssignKeeps ==
  ASSUME ListInv, trim.n = 0, NEW l \in List, NEW string \in Seq(Byte), Assign(l, string)
  PROVE  ListInv'
<1> USE DEF ListInv, ListTypes
<1>0. PICK s \in FreePlaces :
        /\ buffers' = [buffers EXCEPT ![l] = <<BufferOn(s)>>]
        /\ heap' = Heap(Live(buffers'), {s}, string)
  BY DEF Assign
<1> DEFINE f == [buffers EXCEPT ![l] = <<BufferOn(s)>>]
           new == {s}
<1>1. /\ buffers' = f /\ heap' = Heap(Live(buffers'), new, string)
      /\ text' = [text EXCEPT ![l] = string] /\ trim' = trim
  BY <1>0 DEF Assign
<1>2. s \in Storage /\ \A b \in Live(buffers) : b.storage # s BY DEF FreePlaces
<1>3. BufferOn(s) \in Buf /\ BufferOn(s).storage = s /\ BufferOn(s).offset = 0
  BY <1>2 DEF BufferOn, Buf
<1>4. f \in [List -> Seq(Buf)]
  <2>1. <<BufferOn(s)>> \in Seq(Buf) BY <1>3
  <2> QED BY <2>1
<1>5. f[l] = <<BufferOn(s)>> /\ \A m \in List : m # l => f[m] = buffers[m] BY <1>4
<1>6. Live(buffers)' = Live(f) /\ heap' = Heap(Live(f), new, string) BY <1>1 DEF Live
<1> HIDE DEF f, new
<1>7. /\ heap' \in [Storage -> Seq(Byte)]
      /\ \A b \in Live(f) : b.storage \notin new => (Fits(b) => Fits(b)')
      /\ \A x \in Storage \ new : heap'[x] # <<>> => \E b \in Live(f) : b.storage = x
      /\ \A m \in List : (\A i \in 1 .. Len(f[m]) : f[m][i].storage \notin new) =>
           concatenate(m)' = FlattenSeq(Strs(f[m]))
  BY <1>1, <1>4, <1>6, ListsChange
<1>8. heap'[s] = string BY <1>2, <1>6 DEF Heap, new
<1>9. Live(f) \subseteq Live(buffers) \cup {BufferOn(s)} /\ BufferOn(s) \in Live(f)
  <2>1. \A b : b \in Live(f) <=> \E m \in List : \E i \in 1 .. Len(f[m]) : b = f[m][i]
    BY <1>4, LiveIs
  <2>2. \A b : b \in Live(buffers) <=> \E m \in List : \E i \in 1 .. Len(buffers[m]) : b = buffers[m][i]
    BY LiveIs
  <2>3. 1 \in 1 .. Len(f[l]) /\ f[l][1] = BufferOn(s) /\ \A i \in 1 .. Len(f[l]) : f[l][i] = BufferOn(s)
    BY <1>5
  <2>4. BufferOn(s) \in Live(f) BY <2>1, <2>3
  <2>5. ASSUME NEW m \in List, NEW i \in 1 .. Len(f[m])
        PROVE  f[m][i] \in Live(buffers) \cup {BufferOn(s)}
    BY <1>5, <2>2, <2>3
  <2>6. ASSUME NEW b \in Live(f) PROVE b \in Live(buffers) \cup {BufferOn(s)}
    <3>1. PICK m \in List : \E i \in 1 .. Len(f[m]) : b = f[m][i] BY <2>1, ZenonT(30)
    <3>2. PICK i \in 1 .. Len(f[m]) : b = f[m][i] BY <3>1
    <3> QED BY <2>5, <3>2
  <2> QED BY <2>4, <2>6
<1>10. BuffersFit'
  <2> SUFFICES ASSUME NEW b \in Live(f) PROVE Fits(b)' BY <1>6 DEF BuffersFit
  <2>1. CASE b = BufferOn(s)
    <3>1. string = <<>> \/ 0 < Len(string) OBVIOUS
    <3> QED BY <1>3, <1>8, <2>1, <3>1 DEF Fits
  <2>2. CASE b # BufferOn(s)
    <3>1. b \in Live(buffers) BY <1>9, <2>2
    <3>2. b.storage \notin new /\ Fits(b) BY <1>2, <3>1 DEF new, BuffersFit
    <3> QED BY <1>7, <3>2
  <2> QED BY <2>1, <2>2
<1>11. Owned'
  <2> SUFFICES ASSUME NEW x \in Storage, heap'[x] # <<>>
               PROVE  \E b \in Live(f) : b.storage = x
    BY <1>6 DEF Owned
  <2>1. CASE x = s BY <1>3, <1>9, <2>1
  <2>2. CASE x # s BY <1>7, <2>2 DEF new
  <2> QED BY <2>1, <2>2
<1>12. ASSUME NEW m \in List PROVE concatenate(m)' = text'[m]
  <2>1. CASE m = l
    <3>1. concatenate(l)' = FlattenSeq(Strs(<<BufferOn(s)>>)')
      BY <1>1, <1>5 DEF concatenate, Strs
    <3>2. Strs(<<BufferOn(s)>>)' = <<str(BufferOn(s))'>> BY DEF Strs
    <3>3. str(BufferOn(s))' = string
      <4>1. s # Null BY <1>2, BufferAssumption
      <4>2. str(BufferOn(s))' = Drop(string, 0) BY <1>3, <1>8, <4>1 DEF str, Drop, BufferOn
      <4> QED BY <4>2, DropNone
    <3>4. FlattenSeq(<<string>>) = string
      <4>1. <<string>> \in Seq(Seq(Byte)) /\ <<string>> # <<>> OBVIOUS
      <4>2. FlattenSeq(<<string>>) = Head(<<string>>) \o FlattenSeq(Tail(<<string>>))
        BY <4>1, FlattenHead
      <4>3. Head(<<string>>) = string /\ Tail(<<string>>) = <<>> OBVIOUS
      <4> QED BY <4>2, <4>3, FlattenEmpty, ConcatEmptySeq
    <3>5. text'[l] = string BY <1>1
    <3> QED BY <2>1, <3>1, <3>2, <3>3, <3>4, <3>5
  <2>2. CASE m # l
    <3>1. f[m] = buffers[m] /\ text'[m] = text[m] BY <1>1, <1>5, <2>2
    <3>2. ASSUME NEW i \in 1 .. Len(f[m]) PROVE f[m][i].storage \notin new
      <4>1. f[m][i] \in Live(buffers) BY <3>1, LiveIs
      <4> QED BY <1>2, <4>1 DEF new
    <3>3. concatenate(m)' = FlattenSeq(Strs(f[m])) BY <1>7, <3>2
    <3> QED BY <3>1, <3>3, Settled
  <2> QED BY <2>1, <2>2
<1>13. text' \in [List -> Seq(Byte)] BY <1>1
<1>14. SameAsString' BY <1>1, <1>12, <1>13, SettledAfter
<1>15. buffers' \in [List -> Seq(Buf)] BY <1>1, <1>4
<1> QED BY <1>1, <1>7, <1>10, <1>11, <1>13, <1>14, <1>15

(* Buffers of all lists fit when those of each do.                         *)
LEMMA LiveFits ==
  ASSUME NEW f \in [List -> Seq(Buf)],
         \A l \in List : \A i \in 1 .. Len(f[l]) : Fits(f[l][i])
  PROVE  \A b \in Live(f) : Fits(b)
<1> SUFFICES ASSUME NEW b \in Live(f) PROVE Fits(b) OBVIOUS
<1>1. \E l \in List : \E i \in 1 .. Len(f[l]) : b = f[l][i] BY LiveIs
<1> QED BY <1>1

(* A change of one list: the others keep their text.                       *)
LEMMA OneListStep ==
  ASSUME ListInv, NEW l \in List, NEW bufs \in Seq(Buf),
         \A i \in 1 .. Len(bufs) : Fits(bufs[i]),
         SetLists([buffers EXCEPT ![l] = bufs])
  PROVE  /\ heap' \in [Storage -> Seq(Byte)] /\ buffers' \in [List -> Seq(Buf)]
         /\ BuffersFit' /\ Owned'
         /\ concatenate(l)' = FlattenSeq(Strs(bufs))
         /\ \A m \in List : m # l => concatenate(m)' = FlattenSeq(Strs(buffers[m]))
<1> USE DEF ListInv, ListTypes
<1> DEFINE f == [buffers EXCEPT ![l] = bufs]
<1>1. f \in [List -> Seq(Buf)] OBVIOUS
<1>2. f[l] = bufs /\ \A m \in List : m # l => f[m] = buffers[m] OBVIOUS
<1>3. SetLists(f) OBVIOUS
<1> HIDE DEF f
<1>4. \A b \in Live(f) : Fits(b)
  <2>1. ASSUME NEW m \in List, NEW i \in 1 .. Len(f[m]) PROVE Fits(f[m][i])
    <3>1. CASE m = l BY <1>2, <3>1
    <3>2. CASE m # l
      <4>1. buffers[m][i] \in Live(buffers) /\ f[m][i] = buffers[m][i] BY <1>2, <3>2, LiveIs
      <4> QED BY <4>1 DEF BuffersFit
    <3> QED BY <3>1, <3>2
  <2> QED BY <1>1, <2>1, LiveFits
<1>5. /\ heap' \in [Storage -> Seq(Byte)] /\ buffers' \in [List -> Seq(Buf)]
      /\ BuffersFit' /\ Owned'
      /\ \A m \in List : concatenate(m)' = FlattenSeq(Strs(f[m]))
  BY <1>1, <1>3, <1>4, ListsStep
<1> QED BY <1>2, <1>5

(* What the invariant says of the Buffers of a list.                       *)
LEMMA BuffersOf ==
  ASSUME ListInv, NEW l \in List
  PROVE  /\ buffers[l] \in Seq(Buf)
         /\ \A i \in 1 .. Len(buffers[l]) : buffers[l][i] \in Buf /\ Fits(buffers[l][i])
<1> USE DEF ListInv, ListTypes
<1>1. buffers[l] \in Seq(Buf) OBVIOUS
<1>2. ASSUME NEW i \in 1 .. Len(buffers[l]) PROVE buffers[l][i] \in Buf /\ Fits(buffers[l][i])
  <2>1. buffers[l][i] \in Live(buffers) BY LiveIs
  <2>2. Live(buffers) \subseteq Buf BY LiveIs
  <2> QED BY <2>1, <2>2 DEF BuffersFit
<1> QED BY <1>1, <1>2

(* append() shares the Buffers of the other list.                          *)
LEMMA AppendKeeps ==
  ASSUME ListInv, trim.n = 0, NEW l \in List, NEW m \in List, append(l, m)
  PROVE  ListInv'
<1> USE DEF ListInv, ListTypes
<1> DEFINE bufs == buffers[l] \o buffers[m]
<1>1. /\ SetLists([buffers EXCEPT ![l] = bufs]) /\ trim' = trim
      /\ text' = [text EXCEPT ![l] = text[l] \o text[m]]
  BY DEF append
<1>2. buffers[l] \in Seq(Buf) /\ buffers[m] \in Seq(Buf) BY BuffersOf
<1>3. /\ bufs \in Seq(Buf) /\ Len(bufs) = Len(buffers[l]) + Len(buffers[m])
      /\ \A i \in 1 .. Len(buffers[l]) + Len(buffers[m]) :
           bufs[i] = IF i <= Len(buffers[l]) THEN buffers[l][i] ELSE buffers[m][i - Len(buffers[l])]
  BY <1>2, ConcatProperties
<1>4. FlattenSeq(Strs(bufs)) = text[l] \o text[m]
  <2>1. Strs(bufs) = Strs(buffers[l]) \o Strs(buffers[m]) BY <1>2, StrsConcat
  <2>2. Strs(buffers[l]) \in Seq(Seq(Byte)) /\ Strs(buffers[m]) \in Seq(Seq(Byte))
    BY <1>2, StrsType
  <2>3. FlattenSeq(Strs(buffers[l]) \o Strs(buffers[m]))
          = FlattenSeq(Strs(buffers[l])) \o FlattenSeq(Strs(buffers[m]))
    BY <2>2, FlattenConcat
  <2> QED BY <2>1, <2>3, Settled
<1> HIDE DEF bufs
<1>5. ASSUME NEW i \in 1 .. Len(bufs) PROVE Fits(bufs[i])
  <2>1. Len(buffers[l]) \in Nat /\ Len(buffers[m]) \in Nat BY <1>2
  <2>2. CASE i <= Len(buffers[l])
    <3>1. i \in 1 .. Len(buffers[l]) /\ bufs[i] = buffers[l][i] BY <1>3, <2>1, <2>2
    <3> QED BY <3>1, BuffersOf
  <2>3. CASE ~ (i <= Len(buffers[l]))
    <3>1. i - Len(buffers[l]) \in 1 .. Len(buffers[m]) BY <1>3, <2>1, <2>3
    <3>2. bufs[i] = buffers[m][i - Len(buffers[l])] BY <1>3, <2>1, <2>3
    <3> QED BY <3>1, <3>2, BuffersOf
  <2> QED BY <2>2, <2>3
<1>6. /\ heap' \in [Storage -> Seq(Byte)] /\ buffers' \in [List -> Seq(Buf)]
      /\ BuffersFit' /\ Owned'
      /\ concatenate(l)' = FlattenSeq(Strs(bufs))
      /\ \A k \in List : k # l => concatenate(k)' = FlattenSeq(Strs(buffers[k]))
  <2>1. bufs \in Seq(Buf) BY <1>3
  <2> QED BY <1>1, <1>5, <2>1, OneListStep
<1>7. text' \in [List -> Seq(Byte)]
  <2>1. text[l] \o text[m] \in Seq(Byte) BY ConcatProperties
  <2> QED BY <1>1, <2>1
<1>8. ASSUME NEW k \in List PROVE concatenate(k)' = text'[k]
  <2>1. CASE k = l BY <1>1, <1>4, <1>6, <2>1
  <2>2. CASE k # l
    <3>1. text'[k] = text[k] BY <1>1, <2>2
    <3> QED BY <1>6, <2>2, <3>1, Settled
  <2> QED BY <2>1, <2>2
<1>9. SameAsString' BY <1>1, <1>7, <1>8, SettledAfter
<1> QED BY <1>1, <1>6, <1>7, <1>9

(* A list made of another one's Buffer, part of it discarded.              *)
LEMMA AssignBufferKeeps ==
  ASSUME ListInv, trim.n = 0, NEW l \in List, NEW m \in List, NEW k \in Nat, AssignBuffer(l, m, k)
  PROVE  ListInv'
<1> USE DEF ListInv, ListTypes
<1> DEFINE b == ToBuffer(m)  d == Discard(b, k)
<1>1. /\ SetLists([buffers EXCEPT ![l] = <<d>>]) /\ trim' = trim
      /\ text' = [text EXCEPT ![l] = Drop(text[m], k)]
      /\ Len(buffers[m]) <= 1 /\ k <= size(b)
  BY DEF AssignBuffer
<1>2. buffers[m] \in Seq(Buf) BY BuffersOf
<1>3. b \in Buf /\ Fits(b) /\ str(b) = text[m]
  <2>1. CASE buffers[m] = <<>>
    <3>1. b = EmptyBuffer BY <2>1 DEF ToBuffer
    <3>2. b \in Buf /\ Fits(b) /\ str(b) = <<>> BY <3>1 DEF EmptyBuffer, Buf, Fits, str
    <3>3. FlattenSeq(Strs(buffers[m])) = text[m] BY Settled
    <3>4. Strs(buffers[m]) = <<>> BY <2>1 DEF Strs
    <3> QED BY <3>2, <3>3, <3>4, FlattenEmpty
  <2>2. CASE buffers[m] # <<>>
    <3>1. Len(buffers[m]) = 1 /\ 1 \in 1 .. Len(buffers[m]) BY <1>1, <1>2, <2>2, EmptySeq, SMTT(20)
    <3>2. b = buffers[m][1] BY <2>2 DEF ToBuffer
    <3>3. b \in Buf /\ Fits(b) BY <3>1, <3>2, BuffersOf
    <3>4. buffers[m] = <<b>> BY <1>2, <3>1, <3>2
    <3>5. FlattenSeq(Strs(<<b>>)) = str(b) BY <3>3, FlattenOne
    <3>6. FlattenSeq(Strs(buffers[m])) = text[m] BY Settled
    <3> QED BY <3>3, <3>4, <3>5, <3>6
  <2> QED BY <2>1, <2>2
<1>4. d \in Buf /\ Fits(d) /\ str(d) = Drop(text[m], k)
  <2> HIDE DEF b
  <2> QED BY <1>1, <1>3, DiscardIs
<1> HIDE DEF d
<1>5. /\ heap' \in [Storage -> Seq(Byte)] /\ buffers' \in [List -> Seq(Buf)]
      /\ BuffersFit' /\ Owned'
      /\ concatenate(l)' = FlattenSeq(Strs(<<d>>))
      /\ \A j \in List : j # l => concatenate(j)' = FlattenSeq(Strs(buffers[j]))
  <2> DEFINE bufs == <<d>>
  <2>1. bufs \in Seq(Buf) /\ \A i \in 1 .. Len(bufs) : Fits(bufs[i]) BY <1>4
  <2>2. SetLists([buffers EXCEPT ![l] = bufs]) BY <1>1
  <2> HIDE DEF bufs
  <2>3. /\ heap' \in [Storage -> Seq(Byte)] /\ buffers' \in [List -> Seq(Buf)]
        /\ BuffersFit' /\ Owned'
        /\ concatenate(l)' = FlattenSeq(Strs(bufs))
        /\ \A j \in List : j # l => concatenate(j)' = FlattenSeq(Strs(buffers[j]))
    BY <2>1, <2>2, OneListStep
  <2> QED BY <2>3 DEF bufs
<1>6. FlattenSeq(Strs(<<d>>)) = Drop(text[m], k) BY <1>4, FlattenOne
<1>7. text' \in [List -> Seq(Byte)]
  <2>1. text[m] \in Seq(Byte) OBVIOUS
  <2>2. Drop(text[m], k) \in Seq(Byte) BY <2>1, DropType
  <2> QED BY <1>1, <2>2
<1>8. ASSUME NEW j \in List PROVE concatenate(j)' = text'[j]
  <2>1. CASE j = l BY <1>1, <1>5, <1>6, <2>1
  <2>2. CASE j # l
    <3>1. text'[j] = text[j] BY <1>1, <2>2
    <3> QED BY <1>5, <2>2, <3>1, Settled
  <2> QED BY <2>1, <2>2
<1>9. SameAsString' BY <1>1, <1>7, <1>8, SettledAfter
<1> QED BY <1>1, <1>5, <1>7, <1>9

(* The call of remove_prefix() only sets the count.                        *)
LEMMA RemovePrefixKeeps ==
  ASSUME ListInv, trim.n = 0, NEW l \in List, NEW k \in Nat, remove_prefix(l, k)
  PROVE  ListInv'
<1> USE DEF ListInv, ListTypes
<1>1. /\ trim' = [list |-> l, n |-> k] /\ text' = [text EXCEPT ![l] = Drop(text[l], k)]
      /\ heap' = heap /\ buffers' = buffers
  BY DEF remove_prefix
<1>2. BuffersFit' /\ Owned' BY <1>1 DEF BuffersFit, Owned, Live, Fits
<1>3. text' \in [List -> Seq(Byte)] /\ trim' \in [list : List \cup {Null}, n : Nat]
  <2>1. text[l] \in Seq(Byte) OBVIOUS
  <2>2. Drop(text[l], k) \in Seq(Byte) BY <2>1, DropType
  <2> QED BY <1>1, <2>2
<1>4. ASSUME NEW m \in List
      PROVE  Drop(concatenate(m)', IF trim'.list = m THEN trim'.n ELSE 0) = text'[m]
  <2>1. concatenate(m)' = FlattenSeq(Strs(buffers[m])) BY <1>1 DEF concatenate, Strs, str
  <2>2. FlattenSeq(Strs(buffers[m])) = text[m] /\ text[m] \in Seq(Byte) BY Settled
  <2>3. CASE m = l BY <1>1, <2>1, <2>2, <2>3
  <2>4. CASE m # l
    <3>1. text'[m] = text[m] /\ trim'.list # m BY <1>1, <2>4
    <3> QED BY <2>1, <2>2, <3>1, DropNone
  <2> QED BY <2>3, <2>4
<1>5. SameAsString' BY <1>4 DEF SameAsString, Drop
<1> QED BY <1>1, <1>2, <1>3, <1>5

(* One iteration of the loop in remove_prefix().                           *)
LEMMA TrimKeeps ==
  ASSUME ListInv, TrimStep
  PROVE  ListInv'
<1> USE DEF ListInv, ListTypes
<1>0. PICK l \in List : l = trim.list BY DEF TrimStep
<1> DEFINE k == trim.n  t == text[l]
<1>1. k \in Nat /\ k > 0 /\ l = trim.list /\ text' = text BY <1>0 DEF TrimStep
<1>2. t \in Seq(Byte) /\ buffers[l] \in Seq(Buf) BY <1>1
<1>3. Drop(FlattenSeq(Strs(buffers[l])), k) = t
  <2>1. concatenate(l) = FlattenSeq(Strs(buffers[l])) BY ConcatenateIs
  <2> QED BY <1>1, <2>1 DEF SameAsString
<1>4. ASSUME NEW m \in List, m # l PROVE FlattenSeq(Strs(buffers[m])) = text[m]
  BY <1>1, <1>4, Settled
<1>5. CASE buffers[l] = <<>>
  <2>1. trim' = [trim EXCEPT !.n = 0] /\ heap' = heap /\ buffers' = buffers
    BY <1>1, <1>5 DEF TrimStep
  <2>2. trim' \in [list : List \cup {Null}, n : Nat] /\ trim'.n = 0 BY <2>1
  <2>3. BuffersFit' /\ Owned' BY <2>1 DEF BuffersFit, Owned, Live, Fits
  <2>4. ASSUME NEW m \in List PROVE concatenate(m)' = text'[m]
    <3>1. concatenate(m)' = FlattenSeq(Strs(buffers[m])) BY <2>1 DEF concatenate, Strs, str
    <3>2. CASE m = l
      <4>1. Strs(buffers[l]) = <<>> BY <1>5 DEF Strs
      <4>2. FlattenSeq(Strs(buffers[l])) = <<>> BY <4>1, FlattenEmpty
      <4>3. <<>> \in Seq(Byte) /\ k >= Len(<<>>) BY <1>1
      <4>4. Drop(<<>>, k) = <<>> BY <1>1, <4>3, DropAll
      <4> QED BY <1>1, <1>3, <3>1, <3>2, <4>2, <4>4
    <3>3. CASE m # l BY <1>1, <1>4, <3>1, <3>3
    <3> QED BY <3>2, <3>3
  <2>5. SameAsString' BY <1>1, <2>2, <2>4, SettledAfter
  <2> QED BY <1>1, <2>1, <2>2, <2>3, <2>5
<1>6. CASE buffers[l] # <<>>
  <2> DEFINE h == Head(buffers[l])  rest == Tail(buffers[l])  R == FlattenSeq(Strs(rest))
             front == TrimFront(buffers[l], k)
  <2>1. SetLists([buffers EXCEPT ![l] = front[1]]) /\ trim' = [trim EXCEPT !.n = front[2]]
    BY <1>1, <1>6 DEF TrimStep
  <2>2. h \in Buf /\ Fits(h)
    <3>1. 1 \in 1 .. Len(buffers[l]) /\ h = buffers[l][1] BY <1>2, <1>6
    <3> QED BY <1>1, <3>1, BuffersOf
  <2>3. rest \in Seq(Buf) /\ \A i \in 1 .. Len(rest) : Fits(rest[i])
    <3>1. /\ rest \in Seq(Buf) /\ Len(rest) = Len(buffers[l]) - 1
          /\ \A i \in 1 .. Len(rest) : rest[i] = buffers[l][i + 1]
      BY <1>2, <1>6, HeadTailProperties
    <3>2. ASSUME NEW i \in 1 .. Len(rest) PROVE Fits(rest[i])
      <4>1. i + 1 \in 1 .. Len(buffers[l])
        <5> HIDE DEF rest
        <5> QED BY <1>2, <3>1
      <4> QED BY <1>1, <3>1, <4>1, BuffersOf
    <3> QED BY <3>1, <3>2
  <2>4. buffers[l] = <<h>> \o rest BY <1>2, <1>6
  <2>5. FlattenSeq(Strs(buffers[l])) = str(h) \o R
    <3> HIDE DEF h, rest
    <3> QED BY <2>2, <2>3, <2>4, FlattenFront
  <2>6. str(h) \in Seq(Byte) /\ size(h) \in Nat /\ size(h) = Len(str(h)) /\ R \in Seq(Byte)
    <3> HIDE DEF h, rest
    <3> QED BY <2>2, <2>3, StrType, TextType DEF size
  <2>7. front = IF k < size(h) THEN <<[buffers[l] EXCEPT ![1] = Discard(h, k)], 0>>
                               ELSE <<rest, k - size(h)>>
    BY <1>2, <1>6 DEF TrimFront
  <2>8. CASE k < size(h)
    <3> DEFINE d == Discard(h, k)  bufs == <<d>> \o rest
    <3>1. d \in Buf /\ Fits(d) /\ str(d) = Drop(str(h), k)
      <4> HIDE DEF h
      <4> QED BY <1>1, <2>2, <2>6, <2>8, DiscardIs
    <3>2. front = <<bufs, 0>>
      <4>1. [buffers[l] EXCEPT ![1] = d] = <<d>> \o rest
        <5> HIDE DEF d
        <5> QED BY <1>2, <1>6, <3>1
      <4> QED BY <2>7, <2>8, <4>1
    <3> HIDE DEF d, rest, h
    <3>3. bufs \in Seq(Buf) /\ \A i \in 1 .. Len(bufs) : Fits(bufs[i])
      <4>1. <<d>> \in Seq(Buf) /\ Len(<<d>>) = 1 /\ <<d>>[1] = d BY <3>1
      <4>2. /\ bufs \in Seq(Buf) /\ Len(bufs) = 1 + Len(rest)
            /\ \A i \in 1 .. 1 + Len(rest) : bufs[i] = IF i <= 1 THEN <<d>>[i] ELSE rest[i - 1]
        BY <2>3, <4>1, ConcatProperties
      <4>3. ASSUME NEW i \in 1 .. Len(bufs) PROVE Fits(bufs[i])
        <5> HIDE DEF bufs
        <5>1. Len(rest) \in Nat BY <2>3
        <5>2. CASE i = 1 BY <3>1, <4>1, <4>2, <5>1, <5>2
        <5>3. CASE i # 1
          <6>1. i - 1 \in 1 .. Len(rest) /\ bufs[i] = rest[i - 1] BY <4>2, <5>1, <5>3
          <6> QED BY <2>3, <6>1
        <5> QED BY <5>2, <5>3
      <4> QED BY <4>2, <4>3
    <3>4. FlattenSeq(Strs(bufs)) = str(d) \o R BY <2>3, <3>1, FlattenFront
    <3>5. str(d) \o R = t
      <4>1. Drop(str(h) \o R, k) = Drop(str(h), k) \o R
        <5> HIDE DEF R
        <5>1. k <= Len(str(h)) BY <1>1, <2>6, <2>8
        <5> QED BY <1>1, <2>6, <5>1, DropConcatLeft
      <4> QED BY <1>3, <2>5, <3>1, <4>1
    <3>6. /\ SetLists([buffers EXCEPT ![l] = bufs]) /\ trim' = [trim EXCEPT !.n = 0]
      BY <2>1, <3>2
    <3> HIDE DEF bufs
    <3>7. /\ heap' \in [Storage -> Seq(Byte)] /\ buffers' \in [List -> Seq(Buf)]
          /\ BuffersFit' /\ Owned'
          /\ concatenate(l)' = FlattenSeq(Strs(bufs))
          /\ \A m \in List : m # l => concatenate(m)' = FlattenSeq(Strs(buffers[m]))
      BY <1>1, <3>3, <3>6, OneListStep
    <3>8. trim' \in [list : List \cup {Null}, n : Nat] /\ trim'.n = 0 BY <3>6
    <3>9. ASSUME NEW m \in List PROVE concatenate(m)' = text'[m]
      <4>1. CASE m = l
        <5>1. concatenate(l)' = t BY <3>4, <3>5, <3>7
        <5> QED BY <1>1, <4>1, <5>1
      <4>2. CASE m # l
        <5>1. concatenate(m)' = FlattenSeq(Strs(buffers[m])) BY <3>7, <4>2
        <5> QED BY <1>1, <1>4, <4>2, <5>1
      <4> QED BY <4>1, <4>2
    <3>10. SameAsString' BY <1>1, <3>8, <3>9, SettledAfter
    <3> QED BY <1>1, <3>7, <3>8, <3>10
  <2>9. CASE ~ (k < size(h))
    <3>1. SetLists([buffers EXCEPT ![l] = rest]) /\ trim' = [trim EXCEPT !.n = k - size(h)]
      BY <2>1, <2>7, <2>9
    <3> HIDE DEF rest, h
    <3>2. k - size(h) \in Nat BY <1>1, <2>6, <2>9
    <3>3. /\ heap' \in [Storage -> Seq(Byte)] /\ buffers' \in [List -> Seq(Buf)]
          /\ BuffersFit' /\ Owned'
          /\ concatenate(l)' = FlattenSeq(Strs(rest))
          /\ \A m \in List : m # l => concatenate(m)' = FlattenSeq(Strs(buffers[m]))
      BY <1>1, <2>3, <3>1, OneListStep
    <3>4. /\ trim' \in [list : List \cup {Null}, n : Nat]
          /\ trim'.n = k - size(h) /\ trim'.list = l
      BY <1>1, <3>1, <3>2
    <3>5. Drop(R, k - size(h)) = t
      <4>1. Drop(str(h) \o R, k) = Drop(R, k - size(h))
        <5> HIDE DEF R
        <5>1. k >= Len(str(h)) BY <1>1, <2>6, <2>9
        <5> QED BY <1>1, <2>6, <5>1, DropConcatRight
      <4> QED BY <1>3, <2>5, <4>1
    <3>6. ASSUME NEW m \in List
          PROVE  Drop(concatenate(m)', IF trim'.list = m THEN trim'.n ELSE 0) = text'[m]
      <4>1. CASE m = l BY <1>1, <3>3, <3>4, <3>5, <4>1
      <4>2. CASE m # l
        <5>1. concatenate(m)' = text[m] /\ text[m] \in Seq(Byte) BY <1>4, <3>3, <4>2
        <5> QED BY <1>1, <3>4, <4>2, <5>1, DropNone
      <4> QED BY <4>1, <4>2
    <3>7. SameAsString' BY <3>6 DEF SameAsString, Drop
    <3> QED BY <1>1, <3>3, <3>4, <3>7
  <2> QED BY <2>8, <2>9
<1> QED BY <1>5, <1>6
-----------------------------------------------------------------------------
(* What as_iovecs() exposes is a string.                                   *)
LEMMA BytesType ==
  ASSUME NEW list \in Seq(Seq(Byte))
  PROVE  Bytes(list) \in Seq(Byte) /\ ViewsSize(list) = Len(Bytes(list)) /\ ViewsSize(list) \in Nat
<1>1. Bytes(list) \in Seq(Byte) BY FlattenType DEF Bytes
<1> QED BY <1>1 DEF ViewsSize

(* ::writev() takes the front of the views; they are still to be dropped.  *)
LEMMA WritevKeeps ==
  ASSUME WriteInv, NEW k \in 0 .. ViewsSize(views), Writev(k)
  PROVE  WriteInv'
<1> USE DEF WriteInv, WriteTypes
<1> DEFINE B == Bytes(views)  A == Drop(accepted, before)  front == SubSeq(B, 1, k)
<1>1. /\ pc = "writev" /\ accepted' = accepted \o front /\ bytes_written' = k /\ n' = k
      /\ pc' = "remove" /\ payload' = payload /\ write_all' = write_all /\ views' = views
      /\ total_bytes_written' = total_bytes_written /\ before' = before
  BY DEF Writev
<1>2. /\ before <= Len(accepted) /\ n = 0 /\ A \o Drop(B, n) = Bytes(payload)
      /\ total_bytes_written = Len(accepted) - before
  BY <1>1 DEF Progress
<1>3. B \in Seq(Byte) /\ ViewsSize(views) = Len(B) /\ Len(B) \in Nat BY BytesType
<1> HIDE DEF B
<1>4. k \in 0 .. Len(B) /\ k \in Nat BY <1>3
<1>5. front \in Seq(Byte) /\ Len(front) = k /\ front \o Drop(B, k) = B BY <1>3, <1>4, FrontAndRest
<1>6. A \in Seq(Byte) /\ Drop(B, k) \in Seq(Byte) BY <1>3, <1>4, DropType
<1>7. Drop(B, n) = B BY <1>2, <1>3, DropNone
<1> HIDE DEF front
<1>8. accepted' \in Seq(Byte) /\ Len(accepted') = Len(accepted) + k
  BY <1>1, <1>5, ConcatProperties
<1>9. Drop(accepted', before) = A \o front BY <1>1, <1>2, <1>5, DropConcatLeft, ZenonT(30)
<1> HIDE DEF A
<1>10. (A \o front) \o Drop(B, k) = A \o (front \o Drop(B, k))
  <2> DEFINE D == Drop(B, k)
  <2>1. A \in Seq(Byte) /\ front \in Seq(Byte) /\ D \in Seq(Byte) BY <1>5, <1>6
  <2> HIDE DEF D
  <2>2. (A \o front) \o D = A \o (front \o D) BY <2>1, RegroupBytes, ZenonT(30)
  <2> QED BY <2>2 DEF D
<1>11. Drop(accepted', before) \o Drop(B, k) = Bytes(payload)
  BY <1>2, <1>5, <1>7, <1>9, <1>10
<1>12. Progress'
  <2>1. Bytes(views)' = B /\ Bytes(payload)' = Bytes(payload) /\ ViewsSize(views)' = Len(B)
    BY <1>1, <1>3 DEF Bytes, ViewsSize, B
  <2>2. Drop(accepted, before)' \o Drop(Bytes(views), n)' = Bytes(payload)'
    BY <1>1, <1>11, <2>1 DEF Drop
  <2>3. before' <= Len(accepted') /\ n' <= ViewsSize(views)' BY <1>1, <1>2, <1>4, <1>8, <2>1
  <2>4. total_bytes_written' + bytes_written' = Len(accepted') - before'
    BY <1>1, <1>2, <1>4, <1>8
  <2> QED BY <1>1, <2>2, <2>3, <2>4 DEF Progress
<1> QED BY <1>1, <1>4, <1>8, <1>12

(* Dropping a view, or the front of one, and never running off the list.   *)
LEMMA RemoveStepKeeps ==
  ASSUME WriteInv, RemoveStep
  PROVE  WriteInv'
<1> USE DEF WriteInv, WriteTypes
<1> DEFINE B == Bytes(views)  A == Drop(accepted, before)
           h == Head(views)  rest == Tail(views)  R == Bytes(rest)
<1>1. /\ pc = "remove" /\ n > 0 /\ payload' = payload /\ write_all' = write_all
      /\ bytes_written' = bytes_written /\ total_bytes_written' = total_bytes_written
      /\ accepted' = accepted /\ before' = before
  BY DEF RemoveStep
<1>2. /\ before <= Len(accepted) /\ n <= ViewsSize(views) /\ A \o Drop(B, n) = Bytes(payload)
      /\ total_bytes_written + bytes_written = Len(accepted) - before
  BY <1>1 DEF Progress
<1>3. B \in Seq(Byte) /\ ViewsSize(views) = Len(B) /\ Len(B) \in Nat BY BytesType
<1>4. views # <<>>
  <2> SUFFICES ASSUME views = <<>> PROVE FALSE OBVIOUS
  <2>1. B = <<>> BY FlattenEmpty DEF Bytes
  <2>2. Len(B) = 0 BY <2>1
  <2> QED BY <1>1, <1>2, <1>3, <2>2
<1>5. pc' = pc /\ (IF n < Len(h) THEN RemovePart ELSE RemoveView) BY <1>4 DEF RemoveStep
<1>6. h \in Seq(Byte) /\ rest \in Seq(Seq(Byte)) /\ Len(h) \in Nat BY <1>4, HeadTailProperties
<1>7. B = h \o R BY <1>4, FlattenHead DEF Bytes
<1>8. R \in Seq(Byte) /\ ViewsSize(rest) = Len(R) /\ Len(R) \in Nat BY <1>6, BytesType
<1>9. views' \in Seq(Seq(Byte)) /\ n' \in Nat /\ n' <= Len(Bytes(views')) /\ Drop(Bytes(views'), n') = Drop(B, n)
  <2>1. CASE n < Len(h)
    <3> DEFINE d == Drop(h, n)
    <3>1. d \in Seq(Byte) BY <1>6, DropType
    <3>2. views' = <<d>> \o rest /\ n' = 0
      <4>1. views' = [views EXCEPT ![1] = d] /\ n' = 0 BY <1>4, <1>5, <2>1 DEF RemovePart, Drop
      <4> HIDE DEF d
      <4> QED BY <1>4, <3>1, <4>1
    <3> HIDE DEF d, rest, h
    <3>3. <<d>> \o rest \in Seq(Seq(Byte)) /\ <<d>> \o rest # <<>>
          /\ Head(<<d>> \o rest) = d /\ Tail(<<d>> \o rest) = rest
      BY <1>6, <3>1, SMTT(20)
    <3>4. Bytes(<<d>> \o rest) = d \o R
      <4> DEFINE v == <<d>> \o rest
      <4>1. v \in Seq(Seq(Byte)) /\ v # <<>> /\ Head(v) = d /\ Tail(v) = rest BY <3>3
      <4> HIDE DEF v
      <4>2. FlattenSeq(v) = Head(v) \o FlattenSeq(Tail(v)) BY <4>1, FlattenHead
      <4>3. FlattenSeq(v) = d \o FlattenSeq(rest) BY <4>1, <4>2
      <4> QED BY <4>3 DEF Bytes, v
    <3>5. Drop(B, n) = d \o R
      <4> HIDE DEF B, R
      <4>1. n <= Len(h) BY <1>6, <2>1
      <4> QED BY <1>6, <1>7, <1>8, <4>1, DropConcatLeft DEF d
    <3>6. d \o R \in Seq(Byte) BY <1>8, <3>1, ConcatProperties
    <3>7. Drop(d \o R, 0) = d \o R BY <3>6, DropNone
    <3>8. 0 <= Len(d \o R)
      <4> DEFINE y == d \o R
      <4>1. y \in Seq(Byte) BY <3>6
      <4> HIDE DEF y
      <4>2. 0 <= Len(y) BY <4>1
      <4> QED BY <4>2 DEF y
    <3> QED BY <3>2, <3>3, <3>4, <3>5, <3>7, <3>8
  <2>2. CASE ~ (n < Len(h))
    <3>1. views' = rest /\ n' = n - Len(h) BY <1>4, <1>5, <2>2 DEF RemoveView
    <3> HIDE DEF rest, h, R, B
    <3>2. n - Len(h) \in Nat /\ n >= Len(h) BY <1>6, <2>2
    <3>3. Drop(B, n) = Drop(R, n - Len(h)) BY <1>6, <1>7, <1>8, <3>2, DropConcatRight
    <3>4. Len(B) = Len(h) + Len(R) BY <1>6, <1>7, <1>8, ConcatProperties
    <3>5. n - Len(h) <= Len(R) BY <1>2, <1>3, <1>6, <1>8, <3>4
    <3> QED BY <1>6, <3>1, <3>2, <3>3, <3>5 DEF R
  <2> QED BY <2>1, <2>2
<1>10. Progress'
  <2>1. Bytes(views)' = Bytes(views') /\ Bytes(payload)' = Bytes(payload)
        /\ ViewsSize(views)' = Len(Bytes(views'))
    BY <1>1 DEF Bytes, ViewsSize
  <2>2. Drop(accepted, before)' \o Drop(Bytes(views), n)' = Bytes(payload)'
    <3>1. Drop(accepted, before)' = A BY <1>1 DEF Drop
    <3>2. Drop(Bytes(views), n)' = Drop(B, n) BY <1>9, <2>1 DEF Drop
    <3> QED BY <1>2, <2>1, <3>1, <3>2
  <2>3. before' <= Len(accepted') /\ n' <= ViewsSize(views)' BY <1>1, <1>2, <1>9, <2>1
  <2>4. total_bytes_written' + bytes_written' = Len(accepted') - before' BY <1>1, <1>2
  <2>5. pc' = "remove" BY <1>1, <1>5
  <2> QED BY <2>2, <2>3, <2>4, <2>5 DEF Progress
<1> QED BY <1>1, <1>5, <1>9, <1>10

(* The round is counted; with write_all the loop ends on an empty list.    *)
LEMMA RoundEndsKeeps ==
  ASSUME WriteInv, RoundEnds
  PROVE  WriteInv'
<1> USE DEF WriteInv, WriteTypes
<1>1. /\ pc = "remove" /\ n = 0 /\ total_bytes_written' = total_bytes_written + bytes_written
      /\ pc' = IF Again THEN "writev" ELSE "returned"
      /\ payload' = payload /\ write_all' = write_all /\ views' = views /\ n' = n
      /\ bytes_written' = bytes_written /\ accepted' = accepted /\ before' = before
  BY DEF RoundEnds, Total
<1>2. /\ before <= Len(accepted) /\ n <= ViewsSize(views)
      /\ Drop(accepted, before) \o Drop(Bytes(views), n) = Bytes(payload)
      /\ total_bytes_written + bytes_written = Len(accepted) - before
  BY <1>1 DEF Progress
<1>3. ViewsSize(views) \in Nat BY BytesType
<1>4. pc' = "returned" /\ write_all => ViewsSize(views) = 0 BY <1>1, <1>3 DEF Again
<1>5. pc' = "writev" => write_all BY <1>1 DEF Again
<1>6. pc' \in {"writev", "returned"} BY <1>1
<1>7. Progress'
  <2>1. Bytes(views)' = Bytes(views) /\ Bytes(payload)' = Bytes(payload)
        /\ ViewsSize(views)' = ViewsSize(views)
    BY <1>1 DEF Bytes, ViewsSize
  <2>2. Drop(accepted, before)' \o Drop(Bytes(views), n)' = Bytes(payload)'
    BY <1>1, <1>2, <2>1 DEF Drop
  <2>3. before' <= Len(accepted') /\ n' <= ViewsSize(views)' /\ n' = 0 BY <1>1, <1>2, <2>1
  <2>4. total_bytes_written' + 0 = Len(accepted') - before' BY <1>1, <1>2
  <2>5. pc' = "returned" /\ write_all' => ViewsSize(views)' = 0 BY <1>1, <1>4, <2>1
  <2>6. ~ (pc' \in {"writev", "threw"} /\ ~ write_all') BY <1>1, <1>5, <1>6
  <2>7. pc' # "remove" BY <1>6
  <2> QED BY <2>2, <2>3, <2>4, <2>5, <2>6, <2>7 DEF Progress
<1>8. total_bytes_written' \in Nat BY <1>1
<1> QED BY <1>1, <1>6, <1>7, <1>8

(* In the first round, the only one without write_all, nothing was sent.   *)
LEMMA ThrowsKeeps ==
  ASSUME WriteInv, WritevThrows
  PROVE  WriteInv'
<1> USE DEF WriteInv, WriteTypes
<1>1. /\ pc = "writev" /\ pc' = "threw"
      /\ payload' = payload /\ write_all' = write_all /\ views' = views /\ n' = n
      /\ bytes_written' = bytes_written /\ total_bytes_written' = total_bytes_written
      /\ accepted' = accepted /\ before' = before
  BY DEF WritevThrows
<1>2. Progress' BY <1>1 DEF Progress, Bytes, ViewsSize, Drop
<1> QED BY <1>1, <1>2
-----------------------------------------------------------------------------
(* Nothing is queued, sent or shared at first.                             *)
LEMMA InitIInv == Init => IInv
<1> SUFFICES ASSUME Init PROVE IInv OBVIOUS
<1> USE DEF Init, InitLists, InitWrite
<1>1. queue \in List BY SendQueueAssumption
<1>2. ListTypes BY DEF ListTypes
<1>3. Live(buffers) = {} BY DEF Live, Range
<1>4. BuffersFit /\ Owned BY <1>3 DEF BuffersFit, Owned
<1>5. SameAsString
  <2> SUFFICES ASSUME NEW l \in List
               PROVE  Drop(concatenate(l), IF trim.list = l THEN trim.n ELSE 0) = text[l]
    BY DEF SameAsString
  <2>1. concatenate(l) = <<>>
    <3>1. Strs(buffers[l]) = <<>> BY DEF Strs
    <3> QED BY <3>1, FlattenEmpty, ConcatenateIs
  <2>2. (IF trim.list = l THEN trim.n ELSE 0) = 0 OBVIOUS
  <2>3. <<>> \in Seq(Byte) OBVIOUS
  <2>4. Drop(<<>>, 0) = <<>> BY <2>3, DropNone
  <2> QED BY <2>1, <2>2, <2>4
<1>6. WriteInv
  <2>1. WriteTypes
    <3>1. <<>> \in Seq(Seq(Byte)) /\ <<>> \in Seq(Byte) BY EmptySeq
    <3>2. FALSE \in BOOLEAN OBVIOUS
    <3> QED BY <3>1, <3>2 DEF WriteTypes
  <2>2. Progress BY DEF Progress
  <2> QED BY <2>1, <2>2 DEF WriteInv
<1>7. QueueInv
  <2>1. accepted \o text[queue] = <<>> \o <<>> BY <1>1
  <2> QED BY <2>1 DEF QueueInv, Queue
<1> QED BY <1>2, <1>4, <1>5, <1>6, <1>7 DEF IInv, ListInv

(* WriteInv speaks only of the variables of write().                       *)
LEMMA WriteUnchanged ==
  ASSUME WriteInv, UNCHANGED writeVars
  PROVE  WriteInv'
BY DEF WriteInv, WriteTypes, Progress, writeVars, Bytes, ViewsSize, Drop

(* ListInv speaks only of these.                                           *)
LEMMA ListsUnchanged ==
  ASSUME ListInv, UNCHANGED listVars
  PROVE  ListInv'
<1>1. heap' = heap /\ buffers' = buffers /\ trim' = trim /\ text' = text BY DEF listVars
<1>2. ListTypes' BY <1>1 DEF ListInv, ListTypes
<1>3. BuffersFit' /\ Owned' BY <1>1 DEF ListInv, BuffersFit, Owned, Fits, Live
<1>4. SameAsString' BY <1>1 DEF ListInv, SameAsString, concatenate, str, Drop
<1> QED BY <1>2, <1>3, <1>4 DEF ListInv

(* Editing lists that share storage with the queue leaves its text alone.  *)
LEMMA EditsKeep ==
  ASSUME IInv, NEW l \in List \ {queue}, Edits(l)
  PROVE  IInv'
<1> USE DEF IInv
<1>1. trim.n = 0 /\ pc = "idle" /\ UNCHANGED writeVars /\ given' = given
  BY DEF Edits, Between
<1>2. text \in [List -> Seq(Byte)] BY DEF ListInv, ListTypes
<1>3. ListInv' /\ text'[queue] = text[queue]
  <2>0. queue \in List /\ l # queue /\ l \in List BY SendQueueAssumption
  <2>1. CASE \E string \in Strings : Assign(l, string)
    <3>1. PICK string \in Strings : Assign(l, string) BY <2>1
    <3>2. string \in Seq(Byte) BY StringsAreBytes
    <3>3. text' = [text EXCEPT ![l] = string] BY <3>1 DEF Assign
    <3>4. ListInv' BY <1>1, <2>0, <3>1, <3>2, AssignKeeps
    <3> QED BY <1>2, <2>0, <3>3, <3>4
  <2>2. CASE \E m \in List \ {queue} : append(l, m)
    <3>1. PICK m \in List \ {queue} : append(l, m) BY <2>2
    <3>2. text' = [text EXCEPT ![l] = text[l] \o text[m]] BY <3>1 DEF append
    <3>3. ListInv' BY <1>1, <2>0, <3>1, AppendKeeps
    <3> QED BY <1>2, <2>0, <3>2, <3>3
  <2>3. CASE \E m \in List, k \in 0 .. MaxGiven : AssignBuffer(l, m, k)
    <3>1. PICK m \in List, k \in 0 .. MaxGiven : AssignBuffer(l, m, k) BY <2>3
    <3>2. k \in Nat BY SendQueueAssumption
    <3>3. text' = [text EXCEPT ![l] = Drop(text[m], k)] BY <3>1 DEF AssignBuffer
    <3>4. ListInv' BY <1>1, <2>0, <3>1, <3>2, AssignBufferKeeps
    <3> QED BY <1>2, <2>0, <3>3, <3>4
  <2>4. CASE \E k \in 1 .. Len(text[l]) + 1 : remove_prefix(l, k)
    <3>1. PICK k \in 1 .. Len(text[l]) + 1 : remove_prefix(l, k) BY <2>4
    <3>2. k \in Nat OBVIOUS
    <3>3. text' = [text EXCEPT ![l] = Drop(text[l], k)] BY <3>1 DEF remove_prefix
    <3>4. ListInv' BY <1>1, <2>0, <3>1, <3>2, RemovePrefixKeeps
    <3> QED BY <1>2, <2>0, <3>3, <3>4
  <2> QED BY <2>1, <2>2, <2>3, <2>4 DEF Edits
<1>4. WriteInv' BY <1>1, WriteUnchanged
<1>5. QueueInv'
  <2>1. pc' = pc /\ accepted' = accepted BY <1>1 DEF writeVars
  <2> QED BY <1>1, <1>3, <2>1 DEF QueueInv, Queue
<1> QED BY <1>3, <1>4, <1>5

(* What is handed to the queue goes behind what it holds.                  *)
LEMMA EnqueueKeeps ==
  ASSUME IInv, NEW m \in List \ {queue}, Enqueue(m)
  PROVE  IInv'
<1> USE DEF IInv
<1>1. /\ trim.n = 0 /\ pc = "idle" /\ UNCHANGED writeVars /\ given' = given \o text[m]
      /\ append(queue, m)
  BY DEF Enqueue, Between
<1>2. text \in [List -> Seq(Byte)] /\ queue \in List
  BY SendQueueAssumption DEF ListInv, ListTypes
<1>3. ListInv' BY <1>1, <1>2, AppendKeeps
<1>4. text' = [text EXCEPT ![queue] = text[queue] \o text[m]] BY <1>1 DEF append
<1>5. text'[queue] = text[queue] \o text[m] BY <1>2, <1>4
<1>6. WriteInv' BY <1>1, WriteUnchanged
<1>7. accepted \in Seq(Byte) /\ text[queue] \in Seq(Byte) /\ text[m] \in Seq(Byte)
      /\ given \in Seq(Byte)
  BY <1>2 DEF WriteInv, WriteTypes, QueueInv
<1>8. accepted \o text[queue] = given BY <1>1 DEF QueueInv, Queue
<1>9. (accepted \o text[queue]) \o text[m] = accepted \o (text[queue] \o text[m])
  BY <1>7, RegroupBytes, ZenonT(30)
<1>10. given' \in Seq(Byte) BY <1>1, <1>7, ConcatProperties
<1>11. pc' = "idle" /\ accepted' = accepted BY <1>1 DEF writeVars
<1>12. QueueInv' BY <1>1, <1>5, <1>8, <1>9, <1>10, <1>11 DEF QueueInv, Queue
<1> QED BY <1>3, <1>6, <1>12

(* write() gets a view of each Buffer of the queue.                        *)
LEMMA SendKeeps ==
  ASSUME IInv, NEW all \in BOOLEAN, Send(all)
  PROVE  IInv'
<1> USE DEF IInv
<1> DEFINE p == Strs(buffers[queue])
<1>1. trim.n = 0 /\ pc = "idle" /\ UNCHANGED listVars /\ given' = given
  BY DEF Send, Between
<1>2. /\ payload' = p /\ write_all' = all /\ views' = p
      /\ n' = 0 /\ bytes_written' = 0 /\ total_bytes_written' = 0
      /\ before' = Len(accepted) /\ pc' = "writev" /\ accepted' = accepted
  BY DEF Send, write, Strs
<1>3. queue \in List BY SendQueueAssumption
<1>4. buffers[queue] \in Seq(Buf) /\ heap \in [Storage -> Seq(Byte)]
  BY <1>3 DEF ListInv, ListTypes
<1>5. p \in Seq(Seq(Byte)) BY <1>4, StrsType
<1>6. Bytes(p) = text[queue] BY <1>1, <1>3, Settled DEF Bytes
<1> HIDE DEF p
<1>7. Bytes(p) \in Seq(Byte) /\ ViewsSize(p) = Len(Bytes(p)) /\ ViewsSize(p) \in Nat
  BY <1>5, BytesType
<1>8. accepted \in Seq(Byte) /\ Len(accepted) \in Nat BY DEF WriteInv, WriteTypes
<1>9. Drop(accepted, Len(accepted)) = <<>> /\ Drop(Bytes(p), 0) = Bytes(p)
  BY <1>7, <1>8, DropAll, DropNone
<1>10. <<>> \o Bytes(p) = Bytes(p) BY <1>7, ConcatEmptySeq
<1>11. Progress'
  <2>1. Bytes(views)' = Bytes(p) /\ Bytes(payload)' = Bytes(p) /\ ViewsSize(views)' = ViewsSize(p)
    BY <1>2 DEF Bytes, ViewsSize
  <2>2. Drop(accepted, before)' \o Drop(Bytes(views), n)' = Bytes(payload)'
    <3>1. Drop(accepted, before)' = <<>> BY <1>2, <1>9 DEF Drop
    <3>2. Drop(Bytes(views), n)' = Bytes(p) BY <1>2, <1>9, <2>1 DEF Drop
    <3> QED BY <1>10, <2>1, <3>1, <3>2
  <2>3. before' <= Len(accepted') /\ n' <= ViewsSize(views)' BY <1>2, <1>7, <1>8, <2>1
  <2>4. total_bytes_written' + 0 = Len(accepted') - before' BY <1>2, <1>8
  <2> QED BY <1>2, <2>2, <2>3, <2>4 DEF Progress
<1>12. WriteInv' BY <1>2, <1>5, <1>8, <1>11 DEF WriteInv, WriteTypes
<1>13. ListInv' BY <1>1, ListsUnchanged
<1>14. QueueInv'
  <2>1. accepted \o text[queue] = given BY <1>1 DEF QueueInv, Queue
  <2>2. SubSeq(accepted, 1, Len(accepted)) = accepted BY <1>8, SubSeqFull
  <2>3. trim' = trim /\ text' = text BY <1>1 DEF listVars
  <2>4. Bytes(payload)' = Bytes(p) BY <1>2 DEF Bytes
  <2> QED BY <1>1, <1>2, <1>6, <2>1, <2>2, <2>3, <2>4 DEF QueueInv, Queue
<1> QED BY <1>12, <1>13, <1>14

(* During write() the queue stands still and `accepted` only grows.        *)
LEMMA WriteStepKeeps ==
  ASSUME IInv, WriteStep, UNCHANGED <<listVars, given>>
  PROVE  IInv'
<1> USE DEF IInv
<1>1. WriteInv'
  <2>1. CASE \E k \in 0 .. ViewsSize(views) : Writev(k) BY <2>1, WritevKeeps
  <2>2. CASE WritevThrows BY <2>2, ThrowsKeeps
  <2>3. CASE RemoveStep BY <2>3, RemoveStepKeeps
  <2>4. CASE RoundEnds BY <2>4, RoundEndsKeeps
  <2> QED BY <2>1, <2>2, <2>3, <2>4 DEF WriteStep
<1>2. ListInv' BY ListsUnchanged
<1>3. pc # "idle" /\ payload' = payload /\ before' = before
  BY DEF WriteStep, Writev, WritevThrows, RemoveStep, RoundEnds
<1>4. pc' # "idle"
  BY DEF WriteStep, Writev, WritevThrows, RemoveStep, RoundEnds
<1>5. SubSeq(accepted', 1, before) = SubSeq(accepted, 1, before)
  <2>1. CASE \E k \in 0 .. ViewsSize(views) : Writev(k)
    <3>1. PICK k \in 0 .. ViewsSize(views) : Writev(k) BY <2>1
    <3> DEFINE front == SubSeq(Bytes(views), 1, k)
    <3>2. accepted' = accepted \o front BY <3>1 DEF Writev
    <3>3. front \in Seq(Byte)
      <4>1. Bytes(views) \in Seq(Byte) /\ k \in 0 .. Len(Bytes(views))
        BY BytesType DEF WriteInv, WriteTypes
      <4> QED BY <4>1, FrontAndRest
    <3> HIDE DEF front
    <3>4. accepted \in Seq(Byte) /\ before \in Nat /\ before <= Len(accepted)
      BY <1>3 DEF WriteInv, WriteTypes, Progress
    <3> QED BY <3>2, <3>3, <3>4
  <2>2. CASE WritevThrows \/ RemoveStep \/ RoundEnds
    BY <2>2 DEF WritevThrows, RemoveStep, RoundEnds
  <2> QED BY <2>1, <2>2 DEF WriteStep
<1>6. QueueInv'
  <2>1. trim' = trim /\ text' = text /\ given' = given BY DEF listVars
  <2>2. Bytes(payload)' = Bytes(payload) BY <1>3 DEF Bytes
  <2> QED BY <1>3, <1>4, <1>5, <2>1, <2>2 DEF QueueInv, Queue
<1> QED BY <1>1, <1>2, <1>6

(* Afterwards the local variables are gone.                                *)
LEMMA LeaveKeeps ==
  ASSUME WriteInv, Leave
  PROVE  WriteInv'
<1>1. WriteTypes'
  <2>1. <<>> \in Seq(Seq(Byte)) /\ accepted \in Seq(Byte)
    BY EmptySeq DEF WriteInv, WriteTypes
  <2>2. FALSE \in BOOLEAN OBVIOUS
  <2> QED BY <2>1, <2>2 DEF WriteTypes, Leave
<1>2. Progress' BY DEF Progress, Leave
<1> QED BY <1>1, <1>2 DEF WriteInv

(* What write() says it wrote is what the queue discards.                  *)
LEMMA SentKeeps ==
  ASSUME IInv, Sent
  PROVE  IInv'
<1> USE DEF IInv
<1> DEFINE total == total_bytes_written  t == text[queue]  V == Bytes(views)
           A == Drop(accepted, before)  front == SubSeq(accepted, 1, before)
<1>1. /\ pc = "returned" /\ remove_prefix(queue, total) /\ Leave /\ given' = given
  BY DEF Sent
<1>2. queue \in List /\ total \in Nat /\ trim.n = 0 /\ t \in Seq(Byte)
      /\ accepted \in Seq(Byte) /\ views \in Seq(Seq(Byte)) /\ before \in Nat
  BY <1>1, SendQueueAssumption
  DEF WriteInv, WriteTypes, QueueInv, Queue, ListInv, ListTypes
<1>3. ListInv' BY <1>1, <1>2, RemovePrefixKeeps
<1>4. WriteInv' BY <1>1, LeaveKeeps
<1>5. /\ before <= Len(accepted) /\ n = 0 /\ A \o Drop(V, n) = Bytes(payload)
      /\ total = Len(accepted) - before
  BY <1>1 DEF WriteInv, WriteTypes, Progress
<1>6. Bytes(payload) = t /\ front \o t = given /\ given \in Seq(Byte)
  BY <1>1 DEF QueueInv, Queue
<1>7. V \in Seq(Byte) BY <1>2, BytesType
<1>8. A \in Seq(Byte) /\ Len(A) = total BY <1>2, <1>5, DropType
<1>9. front \in Seq(Byte) /\ front \o A = accepted
  <2>1. before \in 0 .. Len(accepted) BY <1>2, <1>5
  <2> QED BY <1>2, <2>1, FrontAndRest
<1> HIDE DEF V, A, front
<1>10. A \o V = t BY <1>5, <1>6, <1>7, DropNone
<1>11. Drop(t, total) = V
  <2>1. Drop(A \o V, total) = Drop(V, total - Len(A)) BY <1>2, <1>7, <1>8, DropConcatRight
  <2>2. total - Len(A) = 0 BY <1>2, <1>8
  <2> QED BY <1>7, <1>10, <2>1, <2>2, DropNone
<1>12. accepted \o V = given
  <2>1. (front \o A) \o V = front \o (A \o V) 
    <3>1. front \in Seq(Byte) /\ A \in Seq(Byte) /\ V \in Seq(Byte) BY <1>7, <1>8, <1>9
    <3> QED BY <3>1, RegroupBytes
  <2> QED BY <1>6, <1>9, <1>10, <2>1
<1>13. text'[queue] = V
  <2>1. text' = [text EXCEPT ![queue] = Drop(t, total)] BY <1>1 DEF remove_prefix
  <2>2. text \in [List -> Seq(Byte)] BY DEF ListInv, ListTypes
  <2> QED BY <1>2, <1>11, <2>1, <2>2
<1>14. pc' = "idle" /\ accepted' = accepted BY <1>1 DEF Leave
<1>15. QueueInv' BY <1>1, <1>6, <1>12, <1>13, <1>14 DEF QueueInv, Queue
<1> QED BY <1>3, <1>4, <1>15

(* After a round that threw, everything is as it was before the call.      *)
LEMMA RetriesKeeps ==
  ASSUME IInv, Retries
  PROVE  IInv'
<1> USE DEF IInv
<1>1. pc = "threw" /\ ~ write_all /\ Leave /\ UNCHANGED listVars /\ given' = given
  BY DEF Retries
<1>2. ListInv' BY <1>1, ListsUnchanged
<1>3. WriteInv' BY <1>1, LeaveKeeps
<1>4. Len(accepted) = before /\ accepted \in Seq(Byte)
  BY <1>1 DEF WriteInv, WriteTypes, Progress
<1>5. SubSeq(accepted, 1, before) = accepted BY <1>4, SubSeqFull
<1>6. SubSeq(accepted, 1, before) \o text[queue] = given BY <1>1 DEF QueueInv, Queue
<1>7. pc' = "idle" /\ accepted' = accepted /\ text' = text BY <1>1 DEF Leave, listVars
<1>8. QueueInv' BY <1>1, <1>5, <1>6, <1>7 DEF QueueInv, Queue
<1> QED BY <1>2, <1>3, <1>8

(* remove_prefix() runs between writes only.                               *)
LEMMA TrimStepKeeps ==
  ASSUME IInv, TrimStep, UNCHANGED <<writeVars, given>>
  PROVE  IInv'
<1> USE DEF IInv
<1>1. ListInv' BY TrimKeeps
<1>2. WriteInv' BY WriteUnchanged
<1>3. trim.n > 0 /\ text' = text /\ pc' = pc /\ accepted' = accepted /\ given' = given
  BY DEF TrimStep, writeVars
<1>4. pc = "idle"
  <2>1. trim.n # 0 BY <1>3 DEF ListInv, ListTypes
  <2> QED BY <2>1 DEF QueueInv, Queue
<1>5. QueueInv' BY <1>3, <1>4 DEF QueueInv, Queue
<1> QED BY <1>1, <1>2, <1>5

(* IInv is inductive.                                                      *)
LEMMA NextIInv == IInv /\ [Next]_vars => IInv'
<1> SUFFICES ASSUME IInv, [Next]_vars PROVE IInv' OBVIOUS
<1>1. CASE \E l \in List \ {queue} : Edits(l) \/ Enqueue(l) BY <1>1, EditsKeep, EnqueueKeeps
<1>2. CASE \E all \in BOOLEAN : Send(all) BY <1>2, SendKeeps
<1>3. CASE WriteStep /\ UNCHANGED <<listVars, given>> BY <1>3, WriteStepKeeps
<1>4. CASE Sent BY <1>4, SentKeeps
<1>5. CASE Retries BY <1>5, RetriesKeeps
<1>6. CASE TrimStep /\ UNCHANGED <<writeVars, given>> BY <1>6, TrimStepKeeps
<1>7. CASE UNCHANGED vars
  <2>1. UNCHANGED listVars /\ UNCHANGED writeVars /\ given' = given BY <1>7 DEF vars
  <2>2. ListInv' /\ WriteInv' BY <2>1, ListsUnchanged, WriteUnchanged DEF IInv
  <2>3. QueueInv' BY <2>1 DEF IInv, QueueInv, Queue, listVars, writeVars, Bytes
  <2> QED BY <2>2, <2>3 DEF IInv
<1> QED BY <1>1, <1>2, <1>3, <1>4, <1>5, <1>6, <1>7 DEF Next
-----------------------------------------------------------------------------
(* IInv holds in every reachable state.                                    *)
LEMMA Invariance == Spec => []IInv
BY InitIInv, NextIInv, PTL DEF Spec

(* Each BufferList is a string, however storage is shared, offsets move    *)
(* and lists run out (SameAsString), for any lists, places, strings and    *)
(* bounds.                                                                 *)
THEOREM ListsAreStrings == Spec => []SameAsString
<1>1. IInv => SameAsString BY DEF IInv, ListInv
<1> QED BY <1>1, Invariance, PTL

(* The heap holds only strings that some list can still read               *)
(* (SpentStorageFreed): the shared_ptr goes with the last byte, not with   *)
(* the last Buffer.                                                        *)
THEOREM StorageIsFreed == Spec => []SpentStorageFreed
<1>1. IInv => SpentStorageFreed
  <2> SUFFICES ASSUME IInv, NEW s \in Storage, heap[s] # <<>>
               PROVE  \E b \in Live(buffers) : b.storage = s /\ size(b) > 0
    BY DEF SpentStorageFreed
  <2> USE DEF IInv, ListInv, ListTypes
  <2>1. PICK b \in Live(buffers) : b.storage = s BY DEF Owned
  <2>2. b \in Buf /\ Fits(b) BY LiveIs DEF BuffersFit
  <2>3. s # Null BY BufferAssumption
  <2>4. b.offset < Len(heap[s]) BY <2>1, <2>2, <2>3 DEF Fits
  <2>5. str(b) = Drop(heap[s], b.offset) BY <2>1, <2>3 DEF str
  <2>6. b.offset \in Nat /\ heap[s] \in Seq(Byte) BY <2>2 DEF Buf
  <2>7. Len(Drop(heap[s], b.offset)) = Len(heap[s]) - b.offset
    <3> DEFINE h == heap[s]
    <3> HIDE DEF h
    <3>1. h \in Seq(Byte) /\ b.offset < Len(h) BY <2>4, <2>6 DEF h
    <3>2. Len(Drop(h, b.offset)) = IF b.offset <= Len(h) THEN Len(h) - b.offset ELSE 0
      BY <2>6, <3>1, DropType
    <3>3. b.offset <= Len(h) BY <2>6, <3>1
    <3> QED BY <3>2, <3>3 DEF h
  <2>8. size(b) > 0 BY <2>4, <2>5, <2>6, <2>7 DEF size
  <2> QED BY <2>1, <2>8
<1> QED BY <1>1, Invariance, PTL

(* FileDescriptor::write() of several rounds sends the payload's bytes in  *)
(* order, none lost or repeated, and its remove_prefix() never throws      *)
(* (NothingLostOrRepeated), for payloads of any length and shape.          *)
THEOREM WriteLosesNothing == Spec => []NothingLostOrRepeated
<1>1. IInv => NothingLostOrRepeated
  BY DEF IInv, WriteInv, WriteTypes, Progress, NothingLostOrRepeated, Drop, ViewsSize
<1> QED BY <1>1, Invariance, PTL

(* The value write() returns is what ::writev() took in this call, all of  *)
(* it with write_all (ReturnIsHonest).                                     *)
THEOREM WriteReturnsTheTruth == Spec => []ReturnIsHonest
<1>1. IInv => ReturnIsHonest
  <2> SUFFICES ASSUME IInv, pc = "returned"
               PROVE  /\ total_bytes_written = Len(accepted) - before
                      /\ write_all => total_bytes_written = ViewsSize(payload)
    BY DEF ReturnIsHonest
  <2> USE DEF IInv, WriteInv, WriteTypes
  <2> DEFINE A == Drop(accepted, before)  V == Bytes(views)
  <2>1. /\ before <= Len(accepted) /\ n = 0 /\ A \o Drop(V, n) = Bytes(payload)
        /\ total_bytes_written = Len(accepted) - before
        /\ write_all => ViewsSize(views) = 0
    BY DEF Progress
  <2>2. A \in Seq(Byte) /\ Len(A) = Len(accepted) - before BY <2>1, DropType
  <2>3. V \in Seq(Byte) /\ ViewsSize(views) = Len(V) BY BytesType
  <2> HIDE DEF A, V
  <2>4. ASSUME write_all PROVE total_bytes_written = ViewsSize(payload)
    <3>1. Len(V) = 0 BY <2>1, <2>3, <2>4
    <3>2. Drop(V, n) = <<>>
      <4>1. V \in Seq(Byte) /\ n \in Nat /\ n >= Len(V) BY <2>1, <2>3, <3>1
      <4> QED BY <4>1, DropAll
    <3>3. A \o <<>> = A BY <2>2, ConcatEmptySeq
    <3>4. Bytes(payload) = A BY <2>1, <3>2, <3>3
    <3> QED BY <2>1, <2>2, <3>4 DEF ViewsSize
  <2> QED BY <2>1, <2>4
<1> QED BY <1>1, Invariance, PTL

(* Every byte handed to the queue reaches the kernel exactly once and in   *)
(* order, through partial and failed writes and whatever other lists do to *)
(* the shared storage (ExactlyOnce).                                       *)
THEOREM SentExactlyOnce == Spec => []ExactlyOnce
<1>1. IInv => ExactlyOnce
  <2> SUFFICES ASSUME IInv, Between PROVE accepted \o concatenate(queue) = given
    BY DEF ExactlyOnce
  <2>1. trim.n = 0 /\ pc = "idle" /\ queue \in List BY SendQueueAssumption DEF Between
  <2>2. FlattenSeq(Strs(buffers[queue])) = text[queue] BY <2>1, Settled DEF IInv
  <2>3. concatenate(queue) = text[queue] BY <2>2, ConcatenateIs
  <2> QED BY <2>1, <2>3 DEF IInv, QueueInv, Queue
<1> QED BY <1>1, Invariance, PTL
=============================================================================
