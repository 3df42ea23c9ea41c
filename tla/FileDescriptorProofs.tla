------------------------ MODULE FileDescriptorProofs ------------------------
(***************************************************************************)
(* Proofs about FileDescriptor, for every number of handles, wrappers and  *)
(* kernel numbers.                                                         *)
(*                                                                         *)
(* NoLeak alone is not inductive: that ~FDWrapper() releases the wrapper's *)
(* number takes that the wrapper has no other number, and that _closed is  *)
(* not set while the number is open (the destructor would skip close()).   *)
(* Owned is that strengthening.                                            *)
(***************************************************************************)
EXTENDS FileDescriptor, TLAPS

(* A number the kernel has open for a wrapper is that wrapper's _fd, the   *)
(* wrapper does not believe it closed, and a handle refers to it.          *)
Owned ==
  \A n \in Number, w \in Wrapper :
    table[n] = w => /\ n = fd[w]
                    /\ ~ closed[w]
                    /\ w \in born
                    /\ \E h \in Handle : internal_fd[h] = w

(* What has not been constructed has not been closed and has no handle.    *)
Unborn ==
  \A w \in Wrapper \ born : ~ closed[w] /\ \A h \in Handle : internal_fd[h] # w

IInv == TypeOK /\ Owned /\ Unborn

(* The model starts without descriptors.                                   *)
LEMMA InitIInv == Init => IInv
<1> SUFFICES ASSUME Init PROVE IInv
  OBVIOUS
<1>1. TypeOK
  <2>1. /\ eof \in [Wrapper -> BOOLEAN] /\ closed \in [Wrapper -> BOOLEAN]
        /\ born \subseteq Wrapper /\ nonblock \subseteq Number
        /\ internal_fd \in [Handle -> Wrapper \cup {Null}]
        /\ table \in [Number -> Wrapper \cup {Free, Other}]
    BY Zenon DEF Init
  <2>2. /\ fd \in [Wrapper -> Number]
        /\ read_count \in [Wrapper -> 0 .. CountMod - 1]
        /\ write_count \in [Wrapper -> 0 .. CountMod - 1]
    BY FileDescriptorAssumption DEF Init, Number
  <2> QED BY <2>1, <2>2 DEF TypeOK
<1>2. Owned
  BY FileDescriptorAssumption DEF Init, Owned
<1>3. Unborn
  BY FileDescriptorAssumption DEF Init, Unborn
<1> QED BY <1>1, <1>2, <1>3 DEF IInv

(* What the kernel and the flags of other wrappers see of FDWrapper::close *)
(* on w: w's number is released or was not open, and only w is marked.     *)
LEMMA CloseEffect ==
  ASSUME IInv, NEW w \in Wrapper, WrapperClose(w)
  PROVE  /\ table' \in [Number -> Wrapper \cup {Free, Other}]
         /\ eof' \in [Wrapper -> BOOLEAN] /\ closed' \in [Wrapper -> BOOLEAN]
         /\ read_count' = read_count /\ write_count' = write_count
         /\ nonblock' \subseteq Number
         /\ table'[fd[w]] = Free
         /\ \A n \in Number \ {fd[w]} : table'[n] = table[n]
         /\ \A v \in Wrapper \ {w} : closed'[v] = closed[v]
<1>1. CASE CloseSucceeds(w)
  BY <1>1 DEF IInv, TypeOK, WrapperClose, CloseSucceeds, KernelCloses
<1>2. CASE CloseThrows(w)
  BY <1>2 DEF IInv, TypeOK, WrapperClose, CloseThrows, KernelCloses, kernel
<1> QED BY <1>1, <1>2 DEF WrapperClose

(* Redirecting handles, with the destructor of every wrapper left without  *)
(* one, preserves the invariant: the common part of ~FileDescriptor() and  *)
(* of the moves.                                                           *)
LEMMA RepointIInv ==
  ASSUME IInv, NEW f \in [Handle -> Wrapper \cup {Null}], Repoint(f),
         Referenced(f) \subseteq Referenced(internal_fd)
  PROVE  IInv'
<1> DEFINE lost == Referenced(internal_fd) \ Referenced(f)
<1>1. /\ internal_fd' = f /\ born' = born /\ fd' = fd
      /\ lost = {} => UNCHANGED <<flags, kernel>>
      /\ \A w \in lost : DestroyWrapper(w)
  BY DEF Repoint
<1>2. /\ lost \subseteq Wrapper
      /\ \A w \in Wrapper : w \in Referenced(internal_fd)
                          <=> \E h \in Handle : internal_fd[h] = w
      /\ \A w \in Wrapper : w \in Referenced(f) <=> \E h \in Handle : f[h] = w
  BY FileDescriptorAssumption DEF IInv, TypeOK, Referenced
<1>3. lost \subseteq born
  BY <1>2 DEF IInv, Unborn
<1> HIDE DEF lost
<1>4. CASE lost = {}
  <2>1. UNCHANGED <<flags, kernel>>
    BY <1>1, <1>4
  <2>2. TypeOK'
    BY <1>1, <2>1 DEF IInv, TypeOK, flags, kernel
  <2>3. Owned'
    <3>1. Referenced(internal_fd) \subseteq Referenced(f)
      BY <1>4 DEF lost
    <3> QED BY <1>1, <1>2, <2>1, <3>1 DEF IInv, Owned, flags, kernel
  <2>4. Unborn'
    BY <1>1, <1>2, <2>1 DEF IInv, Unborn, flags, kernel
  <2> QED BY <2>2, <2>3, <2>4 DEF IInv
<1>5. CASE lost # {}
  <2>1. PICK w0 \in lost : DestroyWrapper(w0)
    BY <1>1, <1>5
  <2>2. w0 \in Wrapper /\ w0 \in born
    BY <1>2, <1>3, <2>1
  <2>3. /\ table' \in [Number -> Wrapper \cup {Free, Other}]
        /\ eof' \in [Wrapper -> BOOLEAN] /\ closed' \in [Wrapper -> BOOLEAN]
        /\ read_count' = read_count /\ write_count' = write_count
        /\ nonblock' \subseteq Number
        /\ \A n \in Number : table'[n] = Free \/ table'[n] = table[n]
        /\ \A v \in Wrapper \ {w0} : closed'[v] = closed[v]
    <3>1. CASE closed[w0]
      BY <2>1, <2>2, <3>1 DEF DestroyWrapper, flags, kernel, IInv, TypeOK
    <3>2. CASE ~ closed[w0]
      <4>1. WrapperClose(w0)
        BY <2>1, <3>2 DEF DestroyWrapper
      <4> QED BY <2>2, <4>1, CloseEffect
    <3> QED BY <3>1, <3>2
  <2>4. TypeOK'
    BY <1>1, <2>3 DEF IInv, TypeOK
  <2>5. ASSUME NEW n \in Number, NEW w \in Wrapper, table'[n] = w
        PROVE  w \notin lost
    <3> SUFFICES ASSUME w \in lost PROVE FALSE
      OBVIOUS
    <3>1. table[n] = w
      BY <2>3, <2>5, FileDescriptorAssumption
    <3>2. ~ closed[w] /\ n = fd[w]
      BY <3>1 DEF IInv, Owned
    <3>3. WrapperClose(w)
      BY <1>1, <3>2 DEF DestroyWrapper
    <3>4. table'[n] = Free
      BY <3>2, <3>3, CloseEffect
    <3> QED BY <2>5, <3>4, FileDescriptorAssumption
  <2>6. Owned'
    <3> SUFFICES ASSUME NEW n \in Number, NEW w \in Wrapper, table'[n] = w
                 PROVE  /\ n = fd[w] /\ ~ closed'[w] /\ w \in born
                        /\ \E h \in Handle : f[h] = w
      BY <1>1 DEF Owned
    <3>1. w \notin lost
      BY <2>5
    <3>2. table[n] = w
      BY <2>3, FileDescriptorAssumption
    <3>3. /\ n = fd[w] /\ ~ closed[w] /\ w \in born
          /\ \E h \in Handle : internal_fd[h] = w
      BY <3>2 DEF IInv, Owned
    <3>4. w \in Referenced(f)
      BY <1>2, <3>1, <3>3 DEF lost
    <3> QED BY <1>2, <2>1, <2>3, <3>1, <3>3, <3>4
  <2>7. Unborn'
    BY <1>1, <1>2, <2>2, <2>3 DEF IInv, Unborn
  <2> QED BY <2>4, <2>6, <2>7 DEF IInv
<1> QED BY <1>4, <1>5

(* Every step preserves the invariant.                                     *)
LEMMA NextIInv == IInv /\ [Next]_vars => IInv'
<1> SUFFICES ASSUME IInv, [Next]_vars PROVE IInv'
  OBVIOUS
<1> USE FileDescriptorAssumption
<1>1. ASSUME NEW n \in Number, OtherOpens(n) PROVE IInv'
  BY <1>1 DEF OtherOpens, LowestFree, flags, IInv, TypeOK, Owned, Unborn
<1>2. ASSUME NEW n \in Number, OtherCloses(n) PROVE IInv'
  BY <1>2 DEF OtherCloses, flags, IInv, TypeOK, Owned, Unborn
<1>3. ASSUME NEW h \in Handle, NEW w \in Wrapper, NEW n \in Number, Construct(h, w, n)
      PROVE  IInv'
  <2>1. TypeOK'
    BY <1>3 DEF Construct, flags, IInv, TypeOK
  <2>2. Owned'
    BY <1>3 DEF Construct, LowestFree, flags, IInv, TypeOK, Owned, Unborn
  <2>3. Unborn'
    BY <1>3 DEF Construct, flags, IInv, TypeOK, Unborn
  <2> QED BY <2>1, <2>2, <2>3 DEF IInv
<1>4. ASSUME NEW h \in Handle, NEW g \in Handle, duplicate(h, g) PROVE IInv'
  BY <1>4 DEF duplicate, flags, kernel, IInv, TypeOK, Owned, Unborn
<1>5. ASSUME NEW h \in Handle, NEW g \in Handle, Move(h, g) PROVE IInv'
  <2> DEFINE f == [internal_fd EXCEPT ![g] = internal_fd[h], ![h] = Null]
  <2>1. f \in [Handle -> Wrapper \cup {Null}] /\ Referenced(f) \subseteq Referenced(internal_fd)
    BY DEF IInv, TypeOK, Referenced
  <2>2. Repoint(f)
    BY <1>5 DEF Move
  <2> QED BY <2>1, <2>2, RepointIInv
<1>6. ASSUME NEW h \in Handle, Destroy(h) PROVE IInv'
  <2> DEFINE f == [internal_fd EXCEPT ![h] = Null]
  <2>1. f \in [Handle -> Wrapper \cup {Null}] /\ Referenced(f) \subseteq Referenced(internal_fd)
    BY DEF IInv, TypeOK, Referenced
  <2>2. Repoint(f)
    BY <1>6 DEF Destroy
  <2> QED BY <2>1, <2>2, RepointIInv
<1>7. ASSUME NEW h \in Handle, NEW w \in Wrapper, close(h, w) PROVE IInv'
  <2>1. WrapperClose(w) /\ internal_fd[h] = w /\ UNCHANGED <<internal_fd, born, fd>>
    BY <1>7 DEF close, Uses
  <2>2. /\ table' \in [Number -> Wrapper \cup {Free, Other}]
        /\ eof' \in [Wrapper -> BOOLEAN] /\ closed' \in [Wrapper -> BOOLEAN]
        /\ read_count' = read_count /\ write_count' = write_count
        /\ nonblock' \subseteq Number
        /\ table'[fd[w]] = Free
        /\ \A n \in Number \ {fd[w]} : table'[n] = table[n]
        /\ \A v \in Wrapper \ {w} : closed'[v] = closed[v]
    BY <2>1, CloseEffect
  <2>3. TypeOK'
    BY <2>1, <2>2 DEF IInv, TypeOK
  <2>4. Owned'
    BY <2>1, <2>2 DEF IInv, Owned
  <2>5. Unborn'
    BY <2>1, <2>2 DEF IInv, Unborn
  <2> QED BY <2>3, <2>4, <2>5 DEF IInv
<1>8. ASSUME NEW h \in Handle, NEW w \in Wrapper,
             NEW limit \in 0 .. 1, NEW bytes_read \in 0 .. 1,
             read(h, w, limit, bytes_read)
      PROVE  IInv'
  <2>1. eof' \in [Wrapper -> BOOLEAN]
    BY <1>8, Zenon DEF read, IInv, TypeOK
  <2>2. read_count' \in [Wrapper -> 0 .. CountMod - 1]
    BY <1>8 DEF read, Count, IInv, TypeOK
  <2> QED BY <1>8, <2>1, <2>2 DEF read, kernel, IInv, TypeOK, Owned, Unborn
<1>9. ASSUME NEW h \in Handle, NEW w \in Wrapper, write(h, w) PROVE IInv'
  <2>1. write_count' \in [Wrapper -> 0 .. CountMod - 1]
    BY <1>9 DEF write, Count, IInv, TypeOK
  <2> QED BY <1>9, <2>1 DEF write, kernel, IInv, TypeOK, Owned, Unborn
<1>10. ASSUME NEW h \in Handle, NEW w \in Wrapper, NEW b \in BOOLEAN, set_blocking(h, w, b)
       PROVE  IInv'
  BY <1>10 DEF set_blocking, flags, IInv, TypeOK, Owned, Unborn
<1>11. ASSUME NEW h \in Handle, NEW w \in Wrapper,
              NEW reads \in BOOLEAN, NEW writes \in BOOLEAN,
              Registers(h, w, reads, writes)
       PROVE  IInv'
  <2>1. read_count' \in [Wrapper -> 0 .. CountMod - 1]
    BY <1>11 DEF Registers, Count, IInv, TypeOK
  <2>2. write_count' \in [Wrapper -> 0 .. CountMod - 1]
    BY <1>11 DEF Registers, Count, IInv, TypeOK
  <2> QED BY <1>11, <2>1, <2>2 DEF Registers, kernel, IInv, TypeOK, Owned, Unborn
<1>12. CASE UNCHANGED vars
  BY <1>12 DEF vars, IInv, TypeOK, Owned, Unborn
<1> QED BY <1>1, <1>2, <1>3, <1>4, <1>5, <1>6, <1>7, <1>8, <1>9, <1>10, <1>11, <1>12 DEF Next

LEMMA Inductive == Spec => []IInv
  BY InitIInv, NextIInv, PTL DEF Spec
-----------------------------------------------------------------------------
(* The members and the kernel's table keep their types.                    *)
THEOREM TypeCorrect == Spec => []TypeOK
<1>1. IInv => TypeOK
  BY DEF IInv
<1> QED BY <1>1, Inductive, PTL

(* No descriptor leaks, whether or not callers respect closed() and        *)
(* whether or not ::close() fails.                                         *)
THEOREM NothingLeaks == Spec => []NoLeak
<1>1. IInv => NoLeak
  BY FileDescriptorAssumption DEF IInv, Owned, NoLeak, Referenced
<1> QED BY <1>1, Inductive, PTL
-----------------------------------------------------------------------------
(* Careful callers and a ::close() that does not fail.                     *)

(* A wrapper in use that is not marked closed has its number open.         *)
Holds ==
  \A w \in Wrapper, h \in Handle :
    internal_fd[h] = w /\ ~ closed[w] => table[fd[w]] = w

(* Then FDWrapper::close() on a wrapper that holds its number releases     *)
(* that number and nothing else, and marks the wrapper.                    *)
LEMMA CarefulClose ==
  ASSUME IInv, Holds, ~ CloseMayFail,
         NEW w \in Wrapper, NEW h \in Handle, internal_fd[h] = w,
         ~ closed[w], WrapperClose(w)
  PROVE  /\ table[fd[w]] = w
         /\ table' = [table EXCEPT ![fd[w]] = Free]
         /\ closed' = [closed EXCEPT ![w] = TRUE]
<1>1. table[fd[w]] = w
  BY DEF Holds
<1>2. ~ CloseThrows(w)
  BY <1>1, FileDescriptorAssumption DEF CloseThrows
<1> QED BY <1>1, <1>2 DEF WrapperClose, CloseSucceeds, KernelCloses

(* A step either leaves the table's entries to their owners or is the      *)
(* careful close of one wrapper: what Next does to table and closed.       *)
LEMMA RepointHolds ==
  ASSUME IInv, Holds, ~ CloseMayFail,
         NEW f \in [Handle -> Wrapper \cup {Null}], Repoint(f),
         Referenced(f) \subseteq Referenced(internal_fd)
  PROVE  /\ Holds'
         /\ \A n \in Number : table[n] # Free /\ table'[n] # table[n] =>
               \E w \in Wrapper : table[n] = w /\ ~ closed[w] /\ closed'[w]
<1> DEFINE lost == Referenced(internal_fd) \ Referenced(f)
<1>1. /\ internal_fd' = f /\ fd' = fd
      /\ lost = {} => UNCHANGED <<flags, kernel>>
      /\ \A w \in lost : DestroyWrapper(w)
  BY DEF Repoint
<1>2. /\ lost \subseteq Wrapper
      /\ \A w \in Wrapper : w \in Referenced(internal_fd)
                          <=> \E h \in Handle : internal_fd[h] = w
      /\ \A w \in Wrapper : w \in Referenced(f) <=> \E h \in Handle : f[h] = w
  BY FileDescriptorAssumption DEF IInv, TypeOK, Referenced
<1>3. \A w \in Wrapper, h \in Handle :
        f[h] = w => w \notin lost /\ \E g \in Handle : internal_fd[g] = w
  BY <1>2
<1>4. CASE UNCHANGED <<flags, kernel>>
  BY <1>1, <1>3, <1>4 DEF Holds, flags, kernel
<1>5. CASE ~ UNCHANGED <<flags, kernel>>
  <2>1. PICK w0 \in lost : DestroyWrapper(w0)
    BY <1>1, <1>5
  <2>2. w0 \in Wrapper /\ \E h \in Handle : internal_fd[h] = w0
    BY <1>2, <2>1
  <2>3. ~ closed[w0] /\ WrapperClose(w0)
    BY <1>5, <2>1 DEF DestroyWrapper
  <2>4. /\ table[fd[w0]] = w0
        /\ table' = [table EXCEPT ![fd[w0]] = Free]
        /\ closed' = [closed EXCEPT ![w0] = TRUE]
    BY <2>2, <2>3, CarefulClose
  <2>5. Holds'
    <3> SUFFICES ASSUME NEW w \in Wrapper, NEW h \in Handle, f[h] = w, ~ closed'[w]
                 PROVE  table'[fd[w]] = w
      BY <1>1 DEF Holds
    <3>1. w # w0 /\ \E g \in Handle : internal_fd[g] = w
      BY <1>3, <2>1
    <3>2. ~ closed[w]
      BY <2>4, <3>1 DEF IInv, TypeOK
    <3>3. table[fd[w]] = w
      BY <3>1, <3>2 DEF Holds
    <3> QED BY <2>4, <3>1, <3>3 DEF IInv, TypeOK
  <2>6. \A n \in Number : table[n] # Free /\ table'[n] # table[n] =>
          \E w \in Wrapper : table[n] = w /\ ~ closed[w] /\ closed'[w]
    BY <2>2, <2>3, <2>4 DEF IInv, TypeOK
  <2> QED BY <2>5, <2>6
<1> QED BY <1>4, <1>5

(* One step, for careful callers: Holds is kept, and no number is released *)
(* but by its owner.                                                       *)
LEMMA CarefulStep ==
  ASSUME CarefulClient, ~ CloseMayFail, IInv, Holds, [Next]_vars
  PROVE  /\ Holds'
         /\ \A n \in Number : table[n] # Free /\ table'[n] # table[n] =>
               \/ OtherCloses(n)
               \/ \E w \in Wrapper : table[n] = w /\ ~ closed[w] /\ closed'[w]
<1> USE FileDescriptorAssumption
<1> DEFINE Safe == \A n \in Number : table[n] # Free /\ table'[n] # table[n] =>
                     \/ OtherCloses(n)
                     \/ \E w \in Wrapper : table[n] = w /\ ~ closed[w] /\ closed'[w]
<1>1. ASSUME NEW n \in Number, OtherOpens(n) PROVE Holds' /\ Safe
  BY <1>1 DEF OtherOpens, LowestFree, flags, IInv, TypeOK, Holds
<1>2. ASSUME NEW n \in Number, OtherCloses(n) PROVE Holds' /\ Safe
  <2>1. Holds'
    BY <1>2 DEF OtherCloses, flags, IInv, TypeOK, Holds
  <2>2. \A m \in Number : table'[m] # table[m] => m = n
    BY <1>2 DEF OtherCloses, IInv, TypeOK
  <2> QED BY <1>2, <2>1, <2>2
<1>3. ASSUME NEW h \in Handle, NEW w \in Wrapper, NEW n \in Number, Construct(h, w, n)
      PROVE  Holds' /\ Safe
  BY <1>3 DEF Construct, LowestFree, flags, IInv, TypeOK, Unborn, Holds
<1>4. ASSUME NEW h \in Handle, NEW g \in Handle, duplicate(h, g) PROVE Holds' /\ Safe
  BY <1>4 DEF duplicate, flags, kernel, IInv, TypeOK, Holds
<1>5. ASSUME NEW h \in Handle, NEW g \in Handle, Move(h, g) PROVE Holds' /\ Safe
  <2> DEFINE f == [internal_fd EXCEPT ![g] = internal_fd[h], ![h] = Null]
  <2>1. f \in [Handle -> Wrapper \cup {Null}] /\ Referenced(f) \subseteq Referenced(internal_fd)
    BY DEF IInv, TypeOK, Referenced
  <2>2. Repoint(f)
    BY <1>5 DEF Move
  <2> QED BY <2>1, <2>2, RepointHolds
<1>6. ASSUME NEW h \in Handle, Destroy(h) PROVE Holds' /\ Safe
  <2> DEFINE f == [internal_fd EXCEPT ![h] = Null]
  <2>1. f \in [Handle -> Wrapper \cup {Null}] /\ Referenced(f) \subseteq Referenced(internal_fd)
    BY DEF IInv, TypeOK, Referenced
  <2>2. Repoint(f)
    BY <1>6 DEF Destroy
  <2> QED BY <2>1, <2>2, RepointHolds
<1>7. ASSUME NEW h \in Handle, NEW w \in Wrapper, close(h, w) PROVE Holds' /\ Safe
  <2>1. /\ WrapperClose(w) /\ internal_fd[h] = w /\ ~ closed[w]
        /\ UNCHANGED <<internal_fd, born, fd>>
    BY <1>7 DEF close, Uses
  <2>2. /\ table[fd[w]] = w
        /\ table' = [table EXCEPT ![fd[w]] = Free]
        /\ closed' = [closed EXCEPT ![w] = TRUE]
    BY <2>1, CarefulClose
  <2> QED BY <2>1, <2>2 DEF IInv, TypeOK, Holds
<1>8. ASSUME NEW h \in Handle, NEW w \in Wrapper,
             NEW limit \in 0 .. 1, NEW bytes_read \in 0 .. 1,
             read(h, w, limit, bytes_read)
      PROVE  Holds' /\ Safe
  BY <1>8 DEF read, kernel, Holds
<1>9. ASSUME NEW h \in Handle, NEW w \in Wrapper, write(h, w) PROVE Holds' /\ Safe
  BY <1>9 DEF write, kernel, Holds
<1>10. ASSUME NEW h \in Handle, NEW w \in Wrapper, NEW b \in BOOLEAN, set_blocking(h, w, b)
       PROVE  Holds' /\ Safe
  BY <1>10 DEF set_blocking, flags, Holds
<1>11. ASSUME NEW h \in Handle, NEW w \in Wrapper,
              NEW reads \in BOOLEAN, NEW writes \in BOOLEAN,
              Registers(h, w, reads, writes)
       PROVE  Holds' /\ Safe
  BY <1>11 DEF Registers, kernel, Holds
<1>12. CASE UNCHANGED vars
  BY <1>12 DEF vars, Holds
<1> QED BY <1>1, <1>2, <1>3, <1>4, <1>5, <1>6, <1>7, <1>8, <1>9, <1>10, <1>11, <1>12 DEF Next

(* _closed tells the truth when callers respect it and ::close() works.    *)
THEOREM ClosedFlag ==
  ASSUME CarefulClient, ~ CloseMayFail
  PROVE  Spec => []ClosedFlagTruthful
<1>1. Init => Holds
  BY FileDescriptorAssumption DEF Init, Holds
<1>2. IInv /\ Holds /\ [Next]_vars => Holds'
  BY CarefulStep
<1>3. IInv /\ Holds => ClosedFlagTruthful
  BY FileDescriptorAssumption DEF IInv, TypeOK, Owned, Holds, ClosedFlagTruthful, Referenced
<1> QED BY <1>1, <1>2, <1>3, Inductive, PTL DEF Spec

(* Then no close() and no destructor releases a number that now belongs to *)
(* someone else, although numbers are reused.                              *)
THEOREM OwnNumbersOnly ==
  ASSUME CarefulClient, ~ CloseMayFail
  PROVE  Spec => NoForeignClose
<1>1. Init => Holds
  BY FileDescriptorAssumption DEF Init, Holds
<1>2. IInv /\ Holds /\ [Next]_vars => Holds'
  BY CarefulStep
<1>3. IInv /\ Holds /\ [Next]_vars =>
        [\A n \in Number :
            table[n] # Free /\ table'[n] # table[n] =>
              \/ OtherCloses(n)
              \/ \E w \in Wrapper : table[n] = w /\ ~ closed[w] /\ closed'[w]]_vars
  BY CarefulStep
<1> QED BY <1>1, <1>2, <1>3, Inductive, PTL DEF Spec, NoForeignClose
=============================================================================
