-------------------------------- MODULE MCVm --------------------------------
EXTENDS Vm

MCIncrements == {-2, 3}

Header(va, memsz, filesz) == [va |-> va, memsz |-> memsz, filesz |-> filesz]

\* A small program, one that reaches its stack page, and three segments with a
\* fault: not aligned, in page 0, and so long that its end wraps around.
MCSegments ==
  {Header(2, 1, 1), Header(8, 1, 1), Header(3, 1, 1), Header(0, 2, 2), Header(4, AddrSpace - 4, 2)}
=============================================================================
