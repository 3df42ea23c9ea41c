-------------------------- MODULE MCFileDescriptor --------------------------
(* FileDescriptor with interchangeable handles and wrappers.               *)
EXTENDS FileDescriptor, TLC

Interchangeable == Permutations(Handle) \cup Permutations(Wrapper)
=============================================================================
