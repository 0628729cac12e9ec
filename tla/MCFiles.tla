------------------------------- MODULE MCFiles -------------------------------
EXTENDS Files

Path(elems) == [abs |-> FALSE, elems |-> elems]
FromRoot(elems) == [abs |-> TRUE, elems |-> elems]
Call(op, path) == [op |-> op, path |-> path, to |-> <<>>]

\* a directory a that comes and goes, and a file b in it and beside it
MCCalls ==
  {Call("mkdir", Path(<<"a">>)), Call("create", Path(<<"a", "b">>)), Call("mirror", FromRoot(<<"b">>)),
   Call("unlink", FromRoot(<<"a">>)), Call("unlink", Path(<<"a", "b">>)), Call("unlink", Path(<<"b">>)),
   Call("open", Path(<<"a">>)), Call("chdir", Path(<<"a">>)), Call("mknod", Path(<<"b">>)),
   [op |-> "link", path |-> Path(<<"b">>), to |-> FromRoot(<<"a", "b">>)]}

Symmetry == Permutations(Procs)
=============================================================================
