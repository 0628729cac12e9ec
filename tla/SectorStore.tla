----------------------------- MODULE SectorStore -----------------------------
(***************************************************************************)
(* What the buffer cache promises the file system: each disk sector is a   *)
(* cell that one process at a time may hold; the holder sees the sector's  *)
(* contents, may change what it sees, and may let go only when the disk    *)
(* holds what it sees (every write is synchronous).  Bcache implements it. *)
(***************************************************************************)
CONSTANTS Procs, Sectors, Data, Free

VARIABLES owner, view, store

svars == <<owner, view, store>>

Init == /\ owner = [s \in Sectors |-> Free]
        /\ store \in [Sectors -> Data]
        /\ view = store

Hold(p, s) == /\ owner[s] = Free
              /\ owner' = [owner EXCEPT ![s] = p]
              /\ UNCHANGED <<view, store>>

Change(p, s, v) == /\ owner[s] = p
                   /\ view' = [view EXCEPT ![s] = v]
                   /\ UNCHANGED <<owner, store>>

Commit(s) == /\ owner[s] # Free
             /\ store' = [store EXCEPT ![s] = view[s]]
             /\ UNCHANGED <<owner, view>>

LetGo(p, s) == /\ owner[s] = p
               /\ view[s] = store[s]
               /\ owner' = [owner EXCEPT ![s] = Free]
               /\ UNCHANGED <<view, store>>

Next == \E s \in Sectors :
          \/ Commit(s)
          \/ \E p \in Procs : \/ Hold(p, s)
                              \/ LetGo(p, s)
                              \/ \E v \in Data : Change(p, s, v)

Spec == Init /\ [][Next]_svars
=============================================================================
