--------------------------- MODULE FileDescriptor ---------------------------
(***************************************************************************)
(* class FileDescriptor and its FDWrapper (libsponge/util/                 *)
(* file_descriptor.{hh,cc}): FileDescriptor objects are handles that share *)
(* an FDWrapper through a std::shared_ptr; the FDWrapper owns one kernel   *)
(* descriptor number and closes it when it is destroyed.                   *)
(*                                                                         *)
(* The kernel's table of numbers is modelled from how the code uses it:    *)
(* a new descriptor gets the lowest free number, so a number that was      *)
(* closed is handed out again, to another FDWrapper or to code that does   *)
(* not use FileDescriptor at all.                                          *)
(***************************************************************************)
EXTENDS Integers, FiniteSets

CONSTANTS
  Handle,      \* FileDescriptor objects (variables that can hold one)
  Wrapper,     \* FDWrapper objects, each constructed at most once
  MaxFd,       \* the kernel hands out numbers 0 .. MaxFd
  CountMod,    \* 2^32: _read_count and _write_count are unsigned int
  Null,        \* an empty shared_ptr: no object, or a moved-from one
  Free,        \* a number that is not open
  Other,       \* owner of a number opened without a FileDescriptor
  CloseMayFail, \* whether ::close() may report EINTR or EIO
  CarefulClient \* whether callers stop using a handle whose closed() is true

ASSUME FileDescriptorAssumption ==
  /\ MaxFd \in Nat
  /\ CountMod \in Nat \ {0}
  /\ CloseMayFail \in BOOLEAN /\ CarefulClient \in BOOLEAN
  /\ Null \notin Wrapper /\ Free \notin Wrapper /\ Other \notin Wrapper
  /\ Free # Other

Number == 0 .. MaxFd

VARIABLES
  internal_fd,  \* [Handle -> Wrapper \cup {Null}]: the shared_ptr of each handle
  born,         \* the FDWrappers constructed so far
  fd,           \* [Wrapper -> Number]
  eof, closed,  \* [Wrapper -> BOOLEAN]
  read_count, write_count,
  table,        \* kernel: [Number -> Wrapper \cup {Free, Other}]
  nonblock      \* kernel: the numbers whose open file has O_NONBLOCK

vars == <<internal_fd, born, fd, eof, closed, read_count, write_count,
          table, nonblock>>

flags == <<eof, closed, read_count, write_count>>
kernel == <<table, nonblock>>

Init ==
  /\ internal_fd = [h \in Handle |-> Null]
  /\ born = {}
  /\ fd = [w \in Wrapper |-> 0]
  /\ eof = [w \in Wrapper |-> FALSE]
  /\ closed = [w \in Wrapper |-> FALSE]
  /\ read_count = [w \in Wrapper |-> 0]
  /\ write_count = [w \in Wrapper |-> 0]
  /\ table = [n \in Number |-> Free]
  /\ nonblock = {}
-----------------------------------------------------------------------------
(* The wrappers some handle in the function f refers to.                   *)
Referenced(f) == {f[h] : h \in Handle} \ {Null}

(* POSIX: a new descriptor gets the lowest number that is not open.        *)
LowestFree(n) ==
  /\ table[n] = Free
  /\ \A m \in Number : table[m] = Free => n <= m

(* ::open(), ::socket() or ::accept() by code without a FileDescriptor,    *)
(* and the ::close() of such a number.                                     *)
OtherOpens(n) ==
  /\ LowestFree(n)
  /\ table' = [table EXCEPT ![n] = Other]
  /\ UNCHANGED <<internal_fd, born, fd, flags, nonblock>>

OtherCloses(n) ==
  /\ table[n] = Other
  /\ table' = [table EXCEPT ![n] = Free]
  /\ nonblock' = nonblock \ {n}
  /\ UNCHANGED <<internal_fd, born, fd, flags>>

(* FileDescriptor(::open(...)): a wrapper around a number just opened.  A  *)
(* call that failed passes -1, for which the constructor throws: no        *)
(* wrapper comes to hold a number that is not one.                         *)
Construct_AcceptsInvalid(h, w, n) ==
  /\ internal_fd[h] = Null /\ w \notin born
  /\ internal_fd' = [internal_fd EXCEPT ![h] = w]
  /\ born' = born \cup {w}
  /\ \/ /\ LowestFree(n)
        /\ fd' = [fd EXCEPT ![w] = n]
        /\ table' = [table EXCEPT ![n] = w]
     \/ fd' = [fd EXCEPT ![w] = -1] /\ UNCHANGED table
  /\ UNCHANGED <<flags, nonblock>>
Construct(h, w, n) ==
  /\ internal_fd[h] = Null /\ w \notin born /\ LowestFree(n)
  /\ internal_fd' = [internal_fd EXCEPT ![h] = w]
  /\ born' = born \cup {w}
  /\ fd' = [fd EXCEPT ![w] = n]
  /\ table' = [table EXCEPT ![n] = w]
  /\ UNCHANGED <<flags, nonblock>>

(* duplicate(): another handle on the same wrapper.                        *)
duplicate(h, g) ==
  /\ internal_fd[h] # Null /\ internal_fd[g] = Null
  /\ internal_fd' = [internal_fd EXCEPT ![g] = internal_fd[h]]
  /\ UNCHANGED <<born, fd, flags, kernel>>

(* FDWrapper::close() of w, with the outcomes of ::close(_fd) on Linux:    *)
(* it releases the number and succeeds; it releases the number and still   *)
(* reports an error; or the number is not open (EBADF).  An error throws   *)
(* before the flags are set.                                               *)
KernelCloses(n) ==
  /\ table[n] # Free
  /\ table' = [table EXCEPT ![n] = Free]
  /\ nonblock' = nonblock \ {n}

CloseSucceeds_EofOnly(w) ==
  /\ KernelCloses(fd[w])
  /\ eof' = [eof EXCEPT ![w] = TRUE]
  /\ UNCHANGED closed
CloseSucceeds(w) ==
  /\ KernelCloses(fd[w])
  /\ eof' = [eof EXCEPT ![w] = TRUE]
  /\ closed' = [closed EXCEPT ![w] = TRUE]

CloseThrows(w) ==
  /\ \/ CloseMayFail /\ KernelCloses(fd[w])
     \/ table[fd[w]] = Free /\ UNCHANGED kernel
  /\ UNCHANGED <<eof, closed>>

WrapperClose(w) ==
  /\ CloseSucceeds(w) \/ CloseThrows(w)
  /\ UNCHANGED <<read_count, write_count>>

(* ~FDWrapper() of w: closes unless closed, and swallows the exception.    *)
DestroyWrapper_AlwaysCloses(w) == WrapperClose(w)
DestroyWrapper_NeverCloses(w) == UNCHANGED <<flags, kernel>>
DestroyWrapper(w) ==
  IF closed[w] THEN UNCHANGED <<flags, kernel>> ELSE WrapperClose(w)

(* The handles' pointers become f: a wrapper that lost its last handle is  *)
(* destroyed (one handle changes at a time, so there is at most one).      *)
Repoint(f) ==
  /\ internal_fd' = f
  /\ LET lost == Referenced(internal_fd) \ Referenced(f)
     IN  /\ lost = {} => UNCHANGED <<flags, kernel>>
         /\ \A w \in lost : DestroyWrapper(w)
  /\ UNCHANGED <<born, fd>>

(* ~FileDescriptor().                                                      *)
Destroy(h) ==
  /\ internal_fd[h] # Null
  /\ Repoint([internal_fd EXCEPT ![h] = Null])

(* Move construction and move assignment: g takes h's pointer and drops    *)
(* the one it had.                                                         *)
Move(h, g) ==
  /\ h # g /\ internal_fd[h] # Null
  /\ Repoint([internal_fd EXCEPT ![g] = internal_fd[h], ![h] = Null])

(* The wrapper w that a caller reaches through h.  Nothing in the class    *)
(* stops a caller from using a closed one; a careful caller tests closed() *)
(* first, as EventLoop does.                                               *)
Uses(h, w) ==
  /\ internal_fd[h] = w
  /\ CarefulClient => ~ closed[w]

(* close() through a handle, without a guard against a second close().     *)
close(h, w) ==
  /\ Uses(h, w)
  /\ WrapperClose(w)
  /\ UNCHANGED <<internal_fd, born, fd>>

(* register_read() and register_write().                                   *)
Count(n) == (n + 1) % CountMod

(* read(limit): ::read() returns bytes_read bytes; on a number that is not *)
(* open, or any other error, it throws before anything is recorded.        *)
read(h, w, limit, bytes_read) ==
  /\ Uses(h, w)
  /\ table[fd[w]] # Free
  /\ bytes_read <= limit
  /\ eof' = [eof EXCEPT ![w] = @ \/ (limit > 0 /\ bytes_read = 0)]
  /\ read_count' = [read_count EXCEPT ![w] = Count(@)]
  /\ UNCHANGED <<internal_fd, born, fd, closed, write_count, kernel>>

(* One round of write(): register_write() after a ::writev() that did not  *)
(* throw.                                                                  *)
write(h, w) ==
  /\ Uses(h, w)
  /\ table[fd[w]] # Free
  /\ write_count' = [write_count EXCEPT ![w] = Count(@)]
  /\ UNCHANGED <<internal_fd, born, fd, eof, closed, read_count, kernel>>

(* What a derived class records of its own calls, through the protected    *)
(* register_read() and register_write().                                   *)
Registers(h, w, reads, writes) ==
  /\ Uses(h, w)
  /\ read_count' = IF reads THEN [read_count EXCEPT ![w] = Count(@)] ELSE read_count
  /\ write_count' = IF writes THEN [write_count EXCEPT ![w] = Count(@)] ELSE write_count
  /\ UNCHANGED <<internal_fd, born, fd, eof, closed, kernel>>

(* set_blocking(): F_GETFL, change O_NONBLOCK, F_SETFL.                    *)
set_blocking(h, w, blocking_state) ==
  /\ Uses(h, w)
  /\ table[fd[w]] # Free
  /\ nonblock' = IF blocking_state THEN nonblock \ {fd[w]}
                                   ELSE nonblock \cup {fd[w]}
  /\ UNCHANGED <<internal_fd, born, fd, flags, table>>

Next ==
  \/ \E n \in Number : OtherOpens(n)
  \/ \E n \in Number : OtherCloses(n)
  \/ \E h \in Handle, w \in Wrapper, n \in Number : Construct(h, w, n)
  \/ \E h, g \in Handle : duplicate(h, g)
  \/ \E h, g \in Handle : Move(h, g)
  \/ \E h \in Handle : Destroy(h)
  \/ \E h \in Handle, w \in Wrapper : close(h, w)
  \/ \E h \in Handle, w \in Wrapper, limit, bytes_read \in 0 .. 1 :
        read(h, w, limit, bytes_read)
  \/ \E h \in Handle, w \in Wrapper : write(h, w)
  \/ \E h \in Handle, w \in Wrapper, reads, writes \in BOOLEAN :
        Registers(h, w, reads, writes)
  \/ \E h \in Handle, w \in Wrapper, b \in BOOLEAN : set_blocking(h, w, b)

Spec == Init /\ [][Next]_vars
-----------------------------------------------------------------------------
(* Type invariant: what the class's members and the kernel's table hold.   *)
TypeOK ==
  /\ internal_fd \in [Handle -> Wrapper \cup {Null}]
  /\ born \subseteq Wrapper
  /\ fd \in [Wrapper -> Number]
  /\ eof \in [Wrapper -> BOOLEAN]
  /\ closed \in [Wrapper -> BOOLEAN]
  /\ read_count \in [Wrapper -> 0 .. CountMod - 1]
  /\ write_count \in [Wrapper -> 0 .. CountMod - 1]
  /\ table \in [Number -> Wrapper \cup {Free, Other}]
  /\ nonblock \subseteq Number

(* No descriptor leaks: a number that a wrapper opened stays open only     *)
(* while some handle can still reach that wrapper.  Concerns the last      *)
(* ~FileDescriptor(), moves over a live handle, and ~FDWrapper(), whatever *)
(* the callers and ::close() do.                                           *)
NoLeak ==
  \A n \in Number : table[n] \in Wrapper => table[n] \in Referenced(internal_fd)

(* file_descriptor.hh:19 says of _closed: "Flag indicating whether         *)
(* FDWrapper::_fd has been closed".  For a wrapper in use the flag is set  *)
(* exactly when the kernel no longer has the number open for it.           *)
ClosedFlagTruthful ==
  \A w \in Referenced(internal_fd) : closed[w] <=> table[fd[w]] # w

(* Nobody's descriptor is closed behind their back: a number open for a    *)
(* wrapper is released only by that wrapper's close(), once, and a number  *)
(* opened elsewhere is never released by close() or a destructor, although *)
(* numbers are reused.                                                     *)
NoForeignClose ==
  [][\A n \in Number :
        table[n] # Free /\ table'[n] # table[n] =>
          \/ OtherCloses(n)
          \/ \E w \in Wrapper : table[n] = w /\ ~ closed[w] /\ closed'[w]]_vars
=============================================================================
