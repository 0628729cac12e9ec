----------------------------- MODULE ServerProofs -----------------------------
(***************************************************************************)
(* Proofs about Server, for any number of consumers and connections and    *)
(* any size of the buffer.  What the loop of get computes is proved by     *)
(* induction, in the form that a set of naturals has a least element.      *)
(***************************************************************************)
EXTENDS Server, Lemmas

-----------------------------------------------------------------------------
(* the loop of get *)

Found == [val : Int, ind : Int]

\* one round of the loop, and the loop's first m rounds
Round(s, k) ==
  IF valid[k] = 1 /\ (s.val = -1 \/ size_file[k] < s.val) THEN [val |-> size_file[k], ind |-> k] ELSE s

Rounds(f, m) ==
  /\ f \in [0..m -> Found]
  /\ f[0] = [val |-> -1, ind |-> 0]
  /\ \A k \in 1..m : f[k] = Round(f[k-1], k-1)

\* The loop runs to its end.
LEMMA LoopEnds ==
  ASSUME TypeOK
  PROVE  \E f : Rounds(f, buffer_sz)
  <1>. DEFINE T == {m \in Nat : m <= buffer_sz /\ ~\E f : Rounds(f, m)}
  <1>1. SUFFICES T = {}
    BY BufferAssumption
  <1>2. SUFFICES ASSUME T # {} PROVE FALSE
    OBVIOUS
  <1>3. PICK m \in T : \A y \in T : m <= y
    BY <1>2, LeastNat
  <1>4. CASE m = 0
    <2>1. Rounds([k \in 0..0 |-> [val |-> -1, ind |-> 0]], 0)
      BY DEF Rounds, Found
    <2>. QED  BY <1>3, <1>4, <2>1
  <1>5. CASE m # 0
    <2>1. m - 1 \in Nat /\ m - 1 <= buffer_sz /\ m - 1 \notin T /\ m-1 \in Slots /\ m \in Nat
      BY <1>3, <1>5, BufferAssumption DEF Slots
    <2>2. PICK f : Rounds(f, m - 1)
      BY <2>1
    <2>. DEFINE g == [k \in 0..m |-> IF k = m THEN Round(f[m-1], m-1) ELSE f[k]]
    <2>3. f[m-1] \in Found
      BY <2>1, <2>2 DEF Rounds
    <2>4. Round(f[m-1], m-1) \in Found
      <3>1. size_file[m-1] \in Int /\ m-1 \in Int
        BY <2>1 DEF TypeOK
      <3>. QED  BY <2>3, <3>1 DEF Round, Found
    <2>5. g \in [0..m -> Found] /\ g[0] = f[0] /\ g[m] = Round(f[m-1], m-1)
      BY <1>5, <2>1, <2>2, <2>4 DEF Rounds
    <2>6. \A k \in 0..m-1 : g[k] = f[k]
      BY <2>1
    <2>. HIDE DEF g
    <2>7. ASSUME NEW k \in 1..m PROVE g[k] = Round(g[k-1], k-1)
      <3>1. k - 1 \in 0..m-1
        BY <2>1
      <3>2. CASE k = m
        BY <3>1, <3>2, <2>5, <2>6
      <3>3. CASE k # m
        <4>1. k \in 1..m-1 /\ k \in 0..m-1
          BY <2>1, <3>3
        <4>. QED  BY <3>1, <4>1, <2>2, <2>6 DEF Rounds
      <3>. QED  BY <3>2, <3>3
    <2>8. Rounds(g, m)
      BY <2>2, <2>5, <2>7 DEF Rounds
    <2>. QED  BY <1>3, <2>8
  <1>. QED  BY <1>4, <1>5

\* scan is what the loop computes.
LEMMA ScanIs ==
  ASSUME TypeOK
  PROVE  Rounds(scan, buffer_sz)
  <1>1. PICK f : Rounds(f, buffer_sz)
    BY LoopEnds
  <1>. DEFINE F(g) == [n \in 0..buffer_sz |->
                        IF n = 0 THEN [val |-> -1, ind |-> 0]
                        ELSE LET s == g[n-1] IN
                             IF valid[n-1] = 1 /\ (s.val = -1 \/ size_file[n-1] < s.val)
                             THEN [val |-> size_file[n-1], ind |-> n-1]
                             ELSE s]
  <1>2. buffer_sz \in Nat /\ f \in [0..buffer_sz -> Found]
    BY <1>1, BufferAssumption DEF Rounds
  <1>3. f = F(f)
    <2>1. ASSUME NEW n \in 0..buffer_sz PROVE f[n] = F(f)[n]
      <3>1. CASE n = 0
        BY <1>1, <3>1 DEF Rounds
      <3>2. CASE n # 0
        <4>1. n \in 1..buffer_sz
          BY <1>2, <3>2
        <4>2. f[n] = Round(f[n-1], n-1)
          BY <1>1, <4>1 DEF Rounds
        <4>. QED  BY <3>2, <4>2 DEF Round
      <3>. QED  BY <3>1, <3>2
    <2>2. f = [n \in 0..buffer_sz |-> f[n]]
      BY <1>2
    <2>. QED  BY <2>1, <2>2
  <1>4. scan = CHOOSE g : g = F(g)
    BY DEF scan
  <1>5. scan = F(scan)
    <2>. HIDE DEF F
    <2>. QED  BY <1>3, <1>4
  <1>6. scan = [n \in 0..buffer_sz |-> scan[n]]
    BY <1>5
  <1>7. scan[0] = f[0] /\ \A n \in 1..buffer_sz : scan[n] = Round(scan[n-1], n-1)
    <2>1. scan[0] = F(scan)[0] /\ \A n \in 1..buffer_sz : scan[n] = F(scan)[n]
      BY <1>5
    <2>2. F(scan)[0] = f[0]
      BY <1>1, <1>2 DEF Rounds
    <2>3. ASSUME NEW n \in 1..buffer_sz PROVE F(scan)[n] = Round(scan[n-1], n-1)
      BY <1>2 DEF Round
    <2>. HIDE DEF F
    <2>. QED  BY <2>1, <2>2, <2>3
  <1>8. \A n \in 0..buffer_sz : scan[n] = f[n]
    <2>. DEFINE T == {n \in Nat : n <= buffer_sz /\ scan[n] # f[n]}
    <2>1. SUFFICES ASSUME T # {} PROVE FALSE
      BY <1>2
    <2>2. PICK n \in T : \A y \in T : n <= y
      BY <2>1, LeastNat
    <2>3. n \in 1..buffer_sz
      BY <1>2, <1>7, <2>2
    <2>4. scan[n-1] = f[n-1]
      BY <1>2, <2>2, <2>3
    <2>5. f[n] = Round(f[n-1], n-1)
      BY <1>1, <2>3 DEF Rounds
    <2>. QED  BY <1>7, <2>2, <2>3, <2>4, <2>5
  <1>9. scan = f
    BY <1>2, <1>6, <1>8
  <1>. QED  BY <1>1, <1>9

\* What get finds: after m rounds the smallest connection so far, unless a
\* recorded size is the mark for "none yet".
Best(s, m) ==
  LET V == {k \in 0..m-1 : valid[k] = 1} IN
  \/ V = {} /\ s.val = -1
  \/ /\ s.ind \in V /\ s.val = size_file[s.ind]
     /\ (\A j \in V : s.val <= size_file[j]) \/ (\E j \in V : size_file[j] = -1)

\* Every round keeps the best.
LEMMA RoundBest ==
  ASSUME TypeOK, NEW s \in Found, NEW m \in Slots, Best(s, m)
  PROVE  Best(Round(s, m), m + 1)
  <1>. DEFINE V == {k \in 0..m-1 : valid[k] = 1}
              U == {k \in 0..m : valid[k] = 1}
  <1>1. m \in Nat /\ size_file[m] \in Int /\ s.val \in Int /\ \A j \in V \cup U : size_file[j] \in Int
    BY BufferAssumption DEF TypeOK, Slots, Found
  <1>2. U = IF valid[m] = 1 THEN V \cup {m} ELSE V
    BY <1>1
  <1>3. \/ V = {} /\ s.val = -1
        \/ /\ s.ind \in V /\ s.val = size_file[s.ind]
           /\ (\A j \in V : s.val <= size_file[j]) \/ (\E j \in V : size_file[j] = -1)
    BY DEF Best
  <1>. DEFINE z == Round(s, m)
  <1>4. \/ U = {} /\ z.val = -1
        \/ /\ z.ind \in U /\ z.val = size_file[z.ind]
           /\ (\A j \in U : z.val <= size_file[j]) \/ (\E j \in U : size_file[j] = -1)
    <2>1. CASE valid[m] = 1 /\ (s.val = -1 \/ size_file[m] < s.val)
      <3>1. z.val = size_file[m] /\ z.ind = m /\ m \in U
        BY <2>1, <1>2 DEF Round
      <3>2. CASE \E j \in U : size_file[j] = -1
        BY <3>1, <3>2
      <3>3. CASE ~\E j \in U : size_file[j] = -1
        <4>1. \A j \in V : size_file[m] <= size_file[j]
          BY <2>1, <3>3, <1>1, <1>2, <1>3
        <4>. QED  BY <3>1, <4>1, <1>1, <1>2, <2>1
      <3>. QED  BY <3>2, <3>3
    <2>2. CASE ~(valid[m] = 1 /\ (s.val = -1 \/ size_file[m] < s.val))
      <3>1. z = s
        BY <2>2 DEF Round
      <3>2. CASE valid[m] # 1
        BY <3>1, <3>2, <1>2, <1>3
      <3>3. CASE valid[m] = 1
        <4>1. s.val # -1 /\ s.val <= size_file[m]
          BY <2>2, <3>3, <1>1
        <4>. QED  BY <3>1, <3>3, <4>1, <1>2, <1>3
      <3>. QED  BY <3>2, <3>3
    <2>. QED  BY <2>1, <2>2
  <1>5. U = {k \in 0..(m + 1)-1 : valid[k] = 1}
    BY <1>1
  <1>. HIDE DEF U, z
  <1>6. Best(z, m + 1)
    BY <1>4, <1>5 DEF Best
  <1>. QED  BY <1>6 DEF z

\* With a connection in the buffer get takes one, and the smallest.
LEMMA ChosenIs ==
  ASSUME TypeOK, ValidSlots # {}
  PROVE  /\ Chosen \in ValidSlots
         /\ \/ \A j \in ValidSlots : size_file[Chosen] <= size_file[j]
            \/ \E j \in ValidSlots : size_file[j] = -1
  <1>1. Rounds(scan, buffer_sz)
    BY ScanIs
  <1>2. buffer_sz \in Nat
    BY BufferAssumption
  <1>3. \A m \in 0..buffer_sz : Best(scan[m], m)
    <2>. DEFINE T == {m \in Nat : m <= buffer_sz /\ ~Best(scan[m], m)}
    <2>1. SUFFICES ASSUME T # {} PROVE FALSE
      BY <1>2
    <2>2. PICK m \in T : \A y \in T : m <= y
      BY <2>1, LeastNat
    <2>3. CASE m = 0
      BY <1>1, <2>2, <2>3 DEF Rounds, Best
    <2>4. CASE m # 0
      <3>1. m \in 1..buffer_sz /\ m - 1 \in Slots /\ m - 1 \in 0..buffer_sz /\ (m - 1) + 1 = m
        BY <1>2, <2>2, <2>4 DEF Slots
      <3>2. Best(scan[m-1], m-1)
        BY <1>2, <2>2, <3>1
      <3>3. scan[m-1] \in Found /\ scan[m] = Round(scan[m-1], m-1)
        BY <1>1, <3>1 DEF Rounds
      <3>4. Best(Round(scan[m-1], m-1), (m - 1) + 1)
        BY <3>1, <3>2, <3>3, RoundBest
      <3>. QED  BY <2>2, <3>1, <3>3, <3>4
    <2>. QED  BY <2>3, <2>4
  <1>4. Best(scan[buffer_sz], buffer_sz)
    BY <1>2, <1>3
  <1>5. ValidSlots = {k \in 0..buffer_sz-1 : valid[k] = 1}
    BY DEF ValidSlots, Slots
  <1>. QED  BY <1>4, <1>5 DEF Best, Chosen

-----------------------------------------------------------------------------
(* the invariant *)

\* main has a connection that it has not put into the buffer yet
Held == pc[Main] \in {"read", "reading", "lock", "test", "wait"}
Live(c) == sent[c] \in Request \cup {Eof}

\* The mutex is held where producer and consumer have it.
Control ==
  /\ \A t \in All : mutex = t <=> pc[t] \in {"test", "unlock"}
  /\ pc[Main] \in {"accept", "read", "reading", "lock", "test", "wait", "unlock"}

MainState ==
  /\ connfd = None <=> pc[Main] = "accept"
  /\ pc[Main] = "reading" => sent[connfd] # Eof

ThreadState(t) ==
  /\ pc[t] \in {"lock", "test", "wait", "unlock", "parse", "reply", "child", "close"}
  /\ temp[t] = None <=> pc[t] \in {"lock", "test", "wait"}
  /\ pc[t] \in {"reply", "child", "close"} => req[t] \in Request

\* OwnedOnce without cardinalities: a connection that is not closed is in one
\* place, and what is in a place is not closed.
Places ==
  /\ Held => /\ Live(connfd)
             /\ \A k \in ValidSlots : buffer[k] # connfd
             /\ \A t \in Threads : temp[t] # connfd
  /\ \A k \in ValidSlots : /\ buffer[k] \in Conns /\ Live(buffer[k])
                           /\ \A j \in ValidSlots : buffer[j] = buffer[k] => j = k
                           /\ \A t \in Threads : temp[t] # buffer[k]
  /\ \A t \in Threads : temp[t] # None => /\ Live(temp[t])
                                          /\ \A s \in Threads : temp[s] = temp[t] => s = t
  /\ \A c \in Conns : Live(c) => \/ Held /\ connfd = c
                                 \/ \E k \in ValidSlots : buffer[k] = c
                                 \/ \E t \in Threads : temp[t] = c

\* the line that connection c uses, and whether the next user of it has come
LineOf(c) == (c - 1) % (buffer_sz + 2)
Late(c) == \E d \in Conns : d = c + buffer_sz + 2 /\ sent[d] # NotYet

\* Connections come in order and take the lines in turn ...
Turns ==
  /\ \A c \in Conns : sent[c] # NotYet => \A d \in 1..c-1 : sent[d] # NotYet
  /\ connfd # None => /\ line = LineOf(connfd) /\ sent[connfd] # NotYet
                      /\ \A c \in Conns : c > connfd => sent[c] = NotYet
  /\ connfd = None => \A c \in Conns : sent[c] = NotYet /\ (\A d \in 1..c-1 : sent[d] # NotYet)
                                         => line = LineOf(c)

\* ... and what they sent stays there until the line's next turn.
Kept ==
  /\ \A k \in ValidSlots : fileinfo[k] = LineOf(buffer[k])
  /\ \A t \in Threads : temp[t] # None => buff_ptr[t] = LineOf(temp[t])
  /\ \A c \in Conns : sent[c] \in Request /\ ~(pc[Main] \in {"read", "reading"} /\ connfd = c)
                        => lines[LineOf(c)] = sent[c] \/ Late(c)

Inv ==
  /\ TypeOK /\ Control /\ MainState /\ (\A t \in Threads : ThreadState(t))
  /\ Places /\ CountMatches /\ Turns /\ Kept
  /\ NobodyStuck /\ OwnRequest

-----------------------------------------------------------------------------
(* counting *)

\* What the assumptions say of the constants.
LEMMA Constants ==
  /\ buffer_sz \in Nat \ {0} /\ Main \notin Threads /\ None \notin All /\ None \notin Nat
  /\ None \notin Conns /\ Conns \subseteq Nat \ {0} /\ Main \in All /\ Threads \subseteq All
  /\ Closed \notin Request \cup {Eof} /\ NotYet \notin Request \cup {Eof} /\ Closed # NotYet
  /\ Eof \notin Request /\ Garbage \notin Request
  <1>1. buffer_sz \in Nat \ {0} /\ Main \notin Threads /\ None \notin Nat
    BY BufferAssumption, ThreadsAssumption, NoneAssumption
  <1>2. None \notin All /\ Main \in All /\ Threads \subseteq All
    BY NoneAssumption DEF All
  <1>3. Conns \subseteq Nat \ {0}
    BY ConnsAssumption DEF Conns
  <1>4. /\ Closed \notin Request \cup {Eof} /\ NotYet \notin Request \cup {Eof}
        /\ Eof \notin Request /\ Garbage \notin Request
    BY MarksAssumption, TextAssumption
  <1>5. Closed # NotYet
    BY DEF Closed, NotYet
  <1>. QED  BY <1>1, <1>2, <1>3, <1>4, <1>5

\* A set of threads is finite, and so is a set of slots.
LEMMA Finite ==
  /\ \A A \in SUBSET Threads : IsFiniteSet(A) /\ Cardinality(A) \in Nat
  /\ \A A \in SUBSET Slots : IsFiniteSet(A) /\ Cardinality(A) \in Nat
  <1>1. IsFiniteSet(Threads)
    BY ThreadsAssumption
  <1>2. IsFiniteSet(Slots)
    BY BufferAssumption, FS_Interval DEF Slots
  <1>. QED  BY <1>1, <1>2, FS_Subset, FS_CardinalityType

\* One element more.
LEMMA OneMore ==
  ASSUME NEW A, NEW B, NEW x, IsFiniteSet(A), x \notin A, B = A \cup {x}
  PROVE  Cardinality(B) = Cardinality(A) + 1
  BY FS_AddElement

\* One element less.
LEMMA OneLess ==
  ASSUME NEW A, NEW B, NEW x, IsFiniteSet(A), x \in A, B = A \ {x}
  PROVE  Cardinality(B) = Cardinality(A) - 1
  BY FS_RemoveElement

\* The threads that are on their way to get, and those that wait for a child.
Coming == {t \in Threads : pc[t] \in {"lock", "test"}}
Parents == {t \in Threads : pc[t] = "child"}

\* If the buffer stays and no thread that it needs turns away, no wakeup is lost.
LEMMA AwakeStep ==
  ASSUME Inv, NEW t \in All, NEW b, pc' = [pc EXCEPT ![t] = b], buff_count' = buff_count,
         t \in Threads /\ b = "wait" => buff_count = 0,
         t \in Threads /\ pc[t] \in {"lock", "test"} => b \in {"lock", "test"} \/ buff_count = 0
  PROVE  ConsumersAwake'
  <1>1. Coming \in SUBSET Threads /\ Coming' \in SUBSET Threads
    BY DEF Coming
  <1>2. Cardinality(Coming') \in Nat /\ buff_count \in Nat
    BY <1>1, Finite, BufferAssumption DEF Inv, TypeOK
  <1>3. CASE buff_count = 0
    BY <1>2, <1>3 DEF ConsumersAwake, Coming
  <1>4. CASE buff_count # 0
    <2>1. \A s \in All : pc'[s] = IF s = t THEN b ELSE pc[s]
      BY DEF Inv, TypeOK
    <2>2. (\E s \in Threads : pc'[s] = "wait") => \E s \in Threads : pc[s] = "wait"
      BY <1>4, <2>1, Constants
    <2>3. Coming \subseteq Coming'
      BY <1>4, <2>1, Constants DEF Coming
    <2>4. Cardinality(Coming) \in Nat /\ Cardinality(Coming) <= Cardinality(Coming')
      BY <1>1, <2>3, Finite, FS_Subset
    <2>5. (\E s \in Threads : pc[s] = "wait") => buff_count <= Cardinality(Coming)
      BY DEF Inv, NobodyStuck, ConsumersAwake, Coming
    <2>. QED  BY <1>2, <2>2, <2>4, <2>5 DEF ConsumersAwake, Coming
  <1>. QED  BY <1>3, <1>4

\* A step that is none of a parent's leaves their number alone.
LEMMA ChildStep ==
  ASSUME Inv, running' + zombies' = running + zombies,
         \A s \in Threads : pc'[s] = "child" <=> pc[s] = "child"
  PROVE  WaitHasChild'
  <1>1. Parents' = Parents
    BY DEF Parents
  <1>. QED  BY <1>1 DEF Inv, NobodyStuck, WaitHasChild, Parents

-----------------------------------------------------------------------------
(* steps that leave the connections where they are *)

\* Such a step keeps what is said of the connections and their lines.
LEMMA Moves ==
  ASSUME Inv, TypeOK', UNCHANGED <<slots, main, temp, buff_ptr, sent>>,
         \/ pc'[Main] = pc[Main]
         \/ pc[Main] \in {"lock", "test", "wait"} /\ pc'[Main] \in {"lock", "test", "wait"},
         Control', NobodyStuck', \A t \in Threads : ThreadState(t)', OwnRequest'
  PROVE  Inv'
  <1>1. /\ Held' = Held /\ (pc'[Main] = "accept" <=> pc[Main] = "accept")
        /\ (pc'[Main] = "reading" <=> pc[Main] = "reading")
        /\ (pc'[Main] \in {"read", "reading"} <=> pc[Main] \in {"read", "reading"})
    BY DEF Held
  <1>2. ValidSlots' = ValidSlots /\ \A c \in Conns : Live(c)' = Live(c) /\ Late(c)' = Late(c)
    BY DEF ValidSlots, Live, Late, slots
  <1>3. MainState'
    BY <1>1 DEF Inv, MainState, main
  <1>4. Places'
    BY <1>1, <1>2 DEF Inv, Places, main, slots, Live
  <1>5. CountMatches'
    BY <1>2 DEF Inv, CountMatches, slots
  <1>6. Turns'
    BY DEF Inv, Turns, main, LineOf
  <1>7. Kept'
    BY <1>1, <1>2 DEF Inv, Kept, main, slots, LineOf
  <1>. QED  BY <1>3, <1>4, <1>5, <1>6, <1>7 DEF Inv

\* The mutex changes hands.
LEMMA ControlStep ==
  ASSUME Inv, NEW t \in All, NEW b, pc' = [pc EXCEPT ![t] = b],
         \/ mutex = None /\ mutex' = t /\ b = "test"
         \/ mutex = t /\ mutex' = None /\ b \notin {"test", "unlock"}
         \/ mutex = t /\ mutex' = t /\ b \in {"test", "unlock"}
         \/ mutex # t /\ mutex' = mutex /\ b \notin {"test", "unlock"},
         t = Main => b \in {"accept", "read", "reading", "lock", "test", "wait", "unlock"}
  PROVE  Control'
  <1>1. \A s \in All : pc'[s] = IF s = t THEN b ELSE pc[s]
    BY DEF Inv, TypeOK
  <1>2. \A s \in All : mutex = s <=> pc[s] \in {"test", "unlock"}
    BY DEF Inv, Control
  <1>3. \A s \in All : mutex' = s <=> pc'[s] \in {"test", "unlock"}
    BY <1>1, <1>2, Constants
  <1>4. pc'[Main] \in {"accept", "read", "reading", "lock", "test", "wait", "unlock"}
    BY <1>1, Constants DEF Inv, Control
  <1>. QED  BY <1>3, <1>4 DEF Control

\* Waiting for the mutex and for a signal.
LEMMA LoopInv ==
  ASSUME Inv, NEW t \in All, Lock(t) \/ Wait(t) \/ WakeSpuriously(t)
  PROVE  Inv'
  <1>1. PICK b \in {"lock", "test", "wait"} : pc' = [pc EXCEPT ![t] = b]
    BY DEF Lock, Wait, WakeSpuriously, Go
  <1>2. /\ pc[t] \in {"lock", "test", "wait"}
        /\ UNCHANGED <<up, slots, main, local, kids, sent>>
    BY DEF Lock, Wait, WakeSpuriously
  <1>3. \A s \in All : pc'[s] = IF s = t THEN b ELSE pc[s]
    BY <1>1 DEF Inv, TypeOK
  <1>4. TypeOK'
    <2>1. mutex' \in All \cup {None}
      BY DEF Lock, Wait, WakeSpuriously, Inv, TypeOK
    <2>2. spurious' \in 0..MaxSpurious
      BY FaultAssumption DEF Lock, Wait, WakeSpuriously, Inv, TypeOK
    <2>3. pc' \in [All -> {"accept", "read", "reading", "lock", "test", "wait", "unlock",
                           "parse", "reply", "child", "close"}]
      BY <1>1 DEF Inv, TypeOK
    <2>. QED  BY <1>2, <2>1, <2>2, <2>3 DEF Inv, TypeOK, slots, main, local, kids
  <1>5. Control'
    <2>1. mutex = t <=> pc[t] \in {"test", "unlock"}
      BY DEF Inv, Control
    <2>2. \/ mutex = None /\ mutex' = t /\ b = "test"
          \/ mutex = t /\ mutex' = None /\ b \notin {"test", "unlock"}
          \/ mutex # t /\ mutex' = mutex /\ b \notin {"test", "unlock"}
      <3>1. CASE Lock(t)
        BY <1>3, <3>1 DEF Lock, Go, Inv, TypeOK
      <3>2. CASE Wait(t)
        BY <1>3, <2>1, <3>2 DEF Wait, Go, Inv, TypeOK
      <3>3. CASE WakeSpuriously(t)
        BY <1>3, <2>1, <3>3 DEF WakeSpuriously, Go, Inv, TypeOK
      <3>. QED  BY <3>1, <3>2, <3>3
    <2>. QED  BY <1>1, <2>2, ControlStep
  <1>6. NobodyStuck'
    <2>1. b = "wait" => buff_count = (IF t = Main THEN buffer_sz ELSE 0) /\ pc[t] = "test"
      BY <1>3 DEF Lock, Wait, WakeSpuriously, Go, Inv, TypeOK
    <2>2. ConsumersAwake'
      <3>1. buff_count' = buff_count
        BY <1>2 DEF slots
      <3>. QED  BY <1>1, <2>1, <3>1, AwakeStep, Constants
    <2>3. ProducerBlocked'
      BY <1>2, <1>3, <2>1, Constants DEF ProducerBlocked, Inv, NobodyStuck, slots
    <2>4. WaitHasChild'
      <3>1. \A s \in Threads : pc'[s] = "child" <=> pc[s] = "child"
        BY <1>1, <1>2, <1>3, Constants
      <3>. QED  BY <1>2, <3>1, ChildStep DEF kids
    <2>. QED  BY <2>2, <2>3, <2>4 DEF NobodyStuck
  <1>7. ASSUME NEW s \in Threads PROVE ThreadState(s)'
    BY <1>1, <1>2, <1>3, Constants DEF Inv, ThreadState, local
  <1>8. OwnRequest'
    BY <1>1, <1>2, <1>3, Constants DEF Inv, OwnRequest, local
  <1>9. pc'[Main] = pc[Main]
        \/ (pc[Main] \in {"lock", "test", "wait"} /\ pc'[Main] \in {"lock", "test", "wait"})
    BY <1>1, <1>2, <1>3, Constants
  <1>. QED  BY <1>2, <1>4, <1>5, <1>6, <1>7, <1>8, <1>9, Moves DEF local

\* What a consumer does with a connection outside the mutex.
LEMMA HandleInv ==
  ASSUME Inv, NEW t \in Threads,
         ConsumerUnlock(t) \/ Parse(t) \/ Serve(t) \/ ServeDynamic(t) \/ Reap(t)
  PROVE  Inv'
  <1>1. PICK b \in {"parse", "reply", "child", "close"} : pc' = [pc EXCEPT ![t] = b]
    BY DEF ConsumerUnlock, Parse, Serve, ServeDynamic, Reap, Go
  <1>2. /\ pc[t] \in {"unlock", "parse", "reply", "child"}
        /\ UNCHANGED <<up, slots, main, temp, buff_ptr, spurious, sent>>
    BY DEF ConsumerUnlock, Parse, Serve, ServeDynamic, Reap, local
  <1>3. \A s \in All : pc'[s] = IF s = t THEN b ELSE pc[s]
    BY <1>1 DEF Inv, TypeOK
  <1>4. ThreadState(t) /\ t \in All /\ t # Main /\ pc'[t] = b
    BY <1>3, Constants DEF Inv
  <1>0. ASSUME NEW x, Go(t, x) PROVE b = x
    <2>1. pc'[t] = x
      BY <1>0, <1>4 DEF Go, Inv, TypeOK
    <2>. QED  BY <1>4, <2>1
  <1>go. \/ ConsumerUnlock(t) /\ b = "parse"
         \/ Parse(t) /\ b = "reply"
         \/ Serve(t) /\ b = "close"
         \/ ServeDynamic(t) /\ b = "child"
         \/ Reap(t) /\ b = "close"
    BY <1>0 DEF ConsumerUnlock, Parse, Serve, ServeDynamic, Reap
  <1>req. ASSUME Parse(t) PROVE \E r \in Request : req' = [req EXCEPT ![t] = r]
    <2>1. buff_ptr[t] \in Lines
      BY DEF Inv, TypeOK
    <2>2. lines[buff_ptr[t]] \in Request \cup {Garbage}
      BY <2>1 DEF Inv, TypeOK
    <2>. QED  BY <1>req, <2>2 DEF Parse, Texts
  <1>5. \/ pc[t] = "unlock" /\ b = "parse" /\ mutex' = None /\ req' = req
        \/ pc[t] # "unlock" /\ mutex' = mutex
           /\ (req' = req \/ \E r \in Request : req' = [req EXCEPT ![t] = r])
    BY <1>go, <1>req DEF ConsumerUnlock, Parse, Serve, ServeDynamic, Reap, local
  <1>6. running' \in Nat /\ zombies' \in Nat
    BY DEF ConsumerUnlock, Parse, Serve, ServeDynamic, Reap, kids, Inv, TypeOK
  <1>7. TypeOK'
    <2>1. mutex' \in All \cup {None} /\ req' \in [Threads -> Request \cup {None}]
      BY <1>5 DEF Inv, TypeOK
    <2>2. pc' \in [All -> {"accept", "read", "reading", "lock", "test", "wait", "unlock",
                           "parse", "reply", "child", "close"}]
      BY <1>1 DEF Inv, TypeOK
    <2>. QED  BY <1>2, <1>6, <2>1, <2>2 DEF Inv, TypeOK, slots, main
  <1>8. Control'
    <2>1. mutex = t <=> pc[t] \in {"test", "unlock"}
      BY <1>4 DEF Inv, Control
    <2>. QED  BY <1>1, <1>2, <1>4, <1>5, <2>1, ControlStep
  <1>9. NobodyStuck'
    <2>1. ConsumersAwake'
      BY <1>1, <1>2, <1>4, AwakeStep DEF slots
    <2>2. ProducerBlocked'
      BY <1>2, <1>3, <1>4, Constants DEF ProducerBlocked, Inv, NobodyStuck, slots
    <2>3. WaitHasChild'
      <3>1. CASE ConsumerUnlock(t) \/ Parse(t) \/ Serve(t)
        <4>1. kids' = kids /\ b # "child" /\ pc[t] # "child"
          BY <1>0, <3>1 DEF ConsumerUnlock, Parse, Serve
        <4>2. \A s \in Threads : pc'[s] = "child" <=> pc[s] = "child"
          BY <1>3, <4>1, Constants
        <4>. QED  BY <4>1, <4>2, ChildStep DEF kids
      <3>2. CASE ServeDynamic(t)
        <4>1. b = "child" /\ pc[t] = "reply" /\ running' = running + 1 /\ zombies' = zombies
          BY <1>0, <3>2 DEF ServeDynamic
        <4>2. Parents' = Parents \cup {t} /\ t \notin Parents /\ Parents \in SUBSET Threads
          BY <1>3, <4>1, Constants DEF Parents
        <4>3. Cardinality(Parents') = Cardinality(Parents) + 1
          BY <4>2, Finite, OneMore
        <4>4. running + zombies = Cardinality(Parents) /\ running \in Nat /\ zombies \in Nat
          BY DEF Inv, TypeOK, NobodyStuck, WaitHasChild, Parents
        <4>. QED  BY <4>1, <4>3, <4>4 DEF WaitHasChild, Parents
      <3>3. CASE Reap(t)
        <4>1. b = "close" /\ pc[t] = "child" /\ running' = running /\ zombies' = zombies - 1
          BY <1>0, <3>3 DEF Reap
        <4>2. Parents' = Parents \ {t} /\ t \in Parents /\ Parents \in SUBSET Threads
          BY <1>3, <4>1, Constants DEF Parents
        <4>3. Cardinality(Parents') = Cardinality(Parents) - 1
          BY <4>2, Finite, OneLess
        <4>4. running + zombies = Cardinality(Parents) /\ running \in Nat /\ zombies \in Nat
          BY DEF Inv, TypeOK, NobodyStuck, WaitHasChild, Parents
        <4>. QED  BY <4>1, <4>3, <4>4 DEF WaitHasChild, Parents
      <3>. QED  BY <3>1, <3>2, <3>3
    <2>. QED  BY <2>1, <2>2, <2>3 DEF NobodyStuck
  <1>10. ASSUME NEW s \in Threads PROVE ThreadState(s)' /\ (s # t => req'[s] = req[s])
    <2>1. CASE s = t
      <3>1. b \in {"reply", "child", "close"} => req'[t] \in Request
        <4>1. CASE Parse(t)
          BY <4>1, <1>req DEF Inv, TypeOK
        <4>2. CASE ~Parse(t)
          BY <4>2, <1>4, <1>go DEF ConsumerUnlock, Serve, ServeDynamic, Reap, local, ThreadState
        <4>. QED  BY <4>1, <4>2
      <3>. QED  BY <2>1, <3>1, <1>1, <1>2, <1>4 DEF ThreadState
    <2>2. CASE s # t
      <3>1. pc'[s] = pc[s] /\ ThreadState(s)
        BY <2>2, <1>3, Constants DEF Inv
      <3>2. req'[s] = req[s]
        BY <1>5, <2>2 DEF Inv, TypeOK
      <3>. QED  BY <1>2, <3>1, <3>2 DEF ThreadState
    <2>. QED  BY <2>1, <2>2
  <1>11. OwnRequest'
    <2>1. ASSUME NEW s \in Threads, pc'[s] = "reply", sent[temp[s]] # Eof
          PROVE  req'[s] = sent[temp[s]] \/ \E c \in Conns : c = temp[s] + buffer_sz + 2 /\ sent[c] # NotYet
      <3>1. CASE s # t
        BY <1>3, <1>10, <2>1, <3>1, Constants DEF Inv, OwnRequest
      <3>2. CASE s = t
        <4>1. Parse(t)
          BY <2>1, <3>2, <1>4, <1>go
        <4>2. temp[t] \in Conns /\ sent[temp[t]] \in Request /\ buff_ptr[t] = LineOf(temp[t])
          BY <1>4, <2>1, <3>2, <4>1 DEF ThreadState, Parse, Inv, TypeOK, Places, Live, Kept
        <4>3. ~(pc[Main] \in {"read", "reading"} /\ connfd = temp[t])
          BY DEF Inv, Places, Held
        <4>4. lines[LineOf(temp[t])] = sent[temp[t]] \/ Late(temp[t])
          BY <4>2, <4>3 DEF Inv, Kept
        <4>5. CASE Late(temp[t])
          BY <3>2, <4>5 DEF Late
        <4>6. CASE lines[buff_ptr[t]] = sent[temp[t]]
          <5>1. req' = [req EXCEPT ![t] = sent[temp[t]]]
            BY <4>1, <4>2, <4>6, Constants DEF Parse, Texts
          <5>. QED  BY <3>2, <5>1 DEF Inv, TypeOK
        <4>. QED  BY <4>2, <4>4, <4>5, <4>6
      <3>. QED  BY <3>1, <3>2
    <2>. QED  BY <1>2, <2>1 DEF OwnRequest
  <1>12. pc'[Main] = pc[Main]
    BY <1>3, <1>4, Constants
  <1>. QED  BY <1>2, <1>7, <1>8, <1>9, <1>10, <1>11, <1>12, Moves

\* Children and the end of the server.
LEMMA OutsideInv ==
  ASSUME Inv, ChildExits \/ Exit
  PROVE  Inv'
  <1>1. UNCHANGED <<mutex, slots, main, local, pc, spurious, sent>>
    BY DEF ChildExits, Exit
  <1>2. up' \in BOOLEAN /\ running' \in Nat /\ zombies' \in Nat /\ running' + zombies' = running + zombies
    <2>1. up \in BOOLEAN /\ running \in Nat /\ zombies \in Nat
      BY DEF Inv, TypeOK
    <2>2. CASE ChildExits
      BY <2>1, <2>2 DEF ChildExits
    <2>3. CASE Exit
      BY <2>1, <2>3 DEF Exit, kids
    <2>. QED  BY <2>2, <2>3
  <1>3. TypeOK'
    BY <1>1, <1>2 DEF Inv, TypeOK, slots, main, local
  <1>4. Control' /\ OwnRequest' /\ \A t \in Threads : ThreadState(t)'
    BY <1>1 DEF Inv, Control, OwnRequest, ThreadState, local
  <1>5. NobodyStuck'
    <2>1. WaitHasChild'
      BY <1>1, <1>2, ChildStep
    <2>. QED  BY <1>1, <2>1 DEF Inv, NobodyStuck, ConsumersAwake, ProducerBlocked, slots
  <1>. QED  BY <1>1, <1>3, <1>4, <1>5, Moves DEF local

-----------------------------------------------------------------------------
(* main *)

\* A step of main that has the mutex to give up, or does not have it, and
\* leaves buffer and consumers alone.
LEMMA MainStepInv ==
  ASSUME Inv, NEW b \in {"accept", "read", "reading", "lock"}, pc' = [pc EXCEPT ![Main] = b],
         UNCHANGED <<slots, local, kids>>,
         \/ pc[Main] = "unlock" /\ mutex' = None
         \/ pc[Main] \notin {"test", "unlock"} /\ mutex' = mutex
  PROVE  /\ Control' /\ NobodyStuck' /\ \A t \in Threads : ThreadState(t)' /\ pc'[t] = pc[t]
         /\ pc'[Main] = b
         /\ mutex' \in All \cup {None}
         /\ pc' \in [All -> {"accept", "read", "reading", "lock", "test", "wait", "unlock",
                             "parse", "reply", "child", "close"}]
  <1>1. \A s \in All : pc'[s] = IF s = Main THEN b ELSE pc[s]
    BY DEF Inv, TypeOK
  <1>2. pc'[Main] = b /\ \A t \in Threads : pc'[t] = pc[t]
    BY <1>1, Constants
  <1>3. mutex = Main <=> pc[Main] \in {"test", "unlock"}
    BY Constants DEF Inv, Control
  <1>4. Control'
    BY <1>3, Constants, ControlStep
  <1>5. NobodyStuck'
    <2>1. ConsumersAwake'
      BY Constants, AwakeStep DEF slots
    <2>2. WaitHasChild'
      BY <1>2, ChildStep DEF kids
    <2>. QED  BY <1>2, <2>1, <2>2 DEF NobodyStuck, ProducerBlocked
  <1>6. \A t \in Threads : ThreadState(t)'
    BY <1>2 DEF Inv, ThreadState, local
  <1>. QED  BY <1>2, <1>4, <1>5, <1>6 DEF Inv, TypeOK

\* A new connection is in main's hands and nowhere else.
LEMMA AcceptInv ==
  ASSUME Inv, NEW c \in Conns, NEW r \in Request \cup {Eof}, Accept(c, r)
  PROVE  Inv'
  <1>1. /\ pc[Main] = "accept" /\ sent[c] = NotYet /\ (\A d \in 1..c-1 : sent[d] # NotYet)
        /\ sent' = [sent EXCEPT ![c] = r] /\ connfd' = c /\ pc' = [pc EXCEPT ![Main] = "read"]
        /\ UNCHANGED <<up, mutex, slots, lines, line, file_sz, local, kids, spurious>>
    BY DEF Accept, Go
  <1>2. connfd = None /\ ~Held /\ c # None /\ c \in Nat /\ r # NotYet
    BY <1>1, Constants DEF Inv, MainState, Held
  <1>3. \A d \in Conns : sent'[d] = IF d = c THEN r ELSE sent[d]
    BY <1>1 DEF Inv, TypeOK
  <1>4. /\ Control' /\ NobodyStuck' /\ (\A t \in Threads : ThreadState(t)' /\ pc'[t] = pc[t])
        /\ pc'[Main] = "read" /\ mutex' \in All \cup {None}
        /\ pc' \in [All -> {"accept", "read", "reading", "lock", "test", "wait", "unlock",
                            "parse", "reply", "child", "close"}]
    BY <1>1, MainStepInv
  <1>5. TypeOK'
    <2>1. sent' \in [Conns -> Request \cup {Eof, Closed, NotYet}]
      BY <1>1 DEF Inv, TypeOK
    <2>. QED  BY <1>1, <1>4, <2>1 DEF Inv, TypeOK, slots, local, kids
  <1>6. MainState'
    BY <1>1, <1>2, <1>4 DEF MainState
  <1>7. /\ (\A k \in ValidSlots : buffer[k] \in Conns /\ buffer[k] # c)
        /\ (\A t \in Threads : temp[t] # c)
    <2>1. ~Live(c)
      BY <1>1, Constants DEF Live
    <2>. QED  BY <2>1, <1>2 DEF Inv, Places
  <1>8. ValidSlots' = ValidSlots /\ buffer' = buffer /\ temp' = temp /\ Held'
    BY <1>1, <1>4 DEF ValidSlots, slots, local, Held
  <1>9. Live(c)' /\ \A d \in Conns : d # c => Live(d)' = Live(d)
    BY <1>3 DEF Live
  <1>10. Places'
    <2>1. /\ \A k \in ValidSlots : /\ buffer[k] \in Conns /\ Live(buffer[k])
                                   /\ \A j \in ValidSlots : buffer[j] = buffer[k] => j = k
                                   /\ \A t \in Threads : temp[t] # buffer[k]
          /\ \A t \in Threads : temp[t] # None => /\ Live(temp[t]) /\ temp[t] \in Conns
                                                  /\ \A s \in Threads : temp[s] = temp[t] => s = t
          /\ \A d \in Conns : Live(d) => \/ \E k \in ValidSlots : buffer[k] = d
                                         \/ \E t \in Threads : temp[t] = d
      BY <1>2 DEF Inv, Places, TypeOK
    <2>2. \A k \in ValidSlots : Live(buffer[k])'
      <3>1. ASSUME NEW k \in ValidSlots PROVE Live(buffer[k])'
        BY <1>3, <1>7, <1>8, <2>1 DEF Live
      <3>. QED  BY <3>1
    <2>3. \A t \in Threads : temp[t] # None => Live(temp[t])'
      BY <1>3, <1>7, <1>8, <2>1 DEF Live
    <2>4. \A d \in Conns : Live(d)' => \/ connfd' = d
                                       \/ \E k \in ValidSlots : buffer[k] = d
                                       \/ \E t \in Threads : temp[t] = d
      BY <1>1, <1>9, <2>1
    <2>5. Live(connfd)'
      BY <1>1, <1>3 DEF Live
    <2>. QED  BY <1>1, <1>7, <1>8, <2>1, <2>2, <2>3, <2>4, <2>5 DEF Places
  <1>11. CountMatches'
    BY <1>1, <1>8 DEF Inv, CountMatches, slots
  <1>12. Turns'
    <2>1. \A d \in Conns : sent'[d] # NotYet => \A x \in 1..d-1 : sent'[x] # NotYet
      <3>1. ASSUME NEW d \in Conns, sent'[d] # NotYet, NEW x \in 1..d-1 PROVE sent'[x] # NotYet
        <4>1. x \in Conns
          BY ConnsAssumption DEF Conns
        <4>2. sent[x] # NotYet
          BY <1>1, <1>3, <3>1 DEF Inv, Turns
        <4>. QED  BY <1>2, <1>3, <4>1, <4>2
      <3>. QED  BY <3>1
    <2>2. line = LineOf(c) /\ sent'[c] # NotYet
      BY <1>1, <1>2, <1>3 DEF Inv, Turns
    <2>3. ASSUME NEW d \in Conns, d > c PROVE sent'[d] = NotYet
      <3>1. c \in 1..d-1
        BY <2>3, Constants
      <3>2. sent[d] = NotYet
        BY <3>1, <1>1 DEF Inv, Turns
      <3>. QED  BY <1>2, <1>3, <2>3, <3>2
    <2>. QED  BY <1>1, <1>2, <2>1, <2>2, <2>3 DEF Turns, LineOf
  <1>13. \A d \in Conns : Late(d) => Late(d)'
    BY <1>2, <1>3 DEF Late
  <1>14. Kept'
    <2>1. /\ \A k \in ValidSlots : fileinfo[k] = LineOf(buffer[k])
          /\ \A t \in Threads : temp[t] # None => buff_ptr[t] = LineOf(temp[t])
      BY DEF Inv, Kept
    <2>2. ASSUME NEW d \in Conns, sent'[d] \in Request, d # c
          PROVE  lines[LineOf(d)] = sent'[d] \/ Late(d)'
      BY <1>1, <1>3, <1>13, <2>2 DEF Inv, Kept
    <2>. QED  BY <1>1, <1>4, <1>8, <2>1, <2>2 DEF Kept, LineOf, slots, local
  <1>15. OwnRequest'
    <2>1. ASSUME NEW t \in Threads, pc[t] = "reply", sent'[temp[t]] # Eof
          PROVE  req[t] = sent'[temp[t]] \/ Late(temp[t])'
      <3>1. temp[t] \in Conns /\ temp[t] # c
        BY <2>1, <1>7 DEF Inv, ThreadState, TypeOK
      <3>2. sent'[temp[t]] = sent[temp[t]]
        BY <1>3, <3>1
      <3>3. req[t] = sent[temp[t]] \/ Late(temp[t])
        BY <2>1, <3>2 DEF Inv, OwnRequest, Late
      <3>4. Late(temp[t]) => Late(temp[t])'
        BY <1>2, <1>3, <1>8, <3>1 DEF Late
      <3>. QED  BY <3>2, <3>3, <3>4
    <2>. QED  BY <1>1, <1>4, <2>1 DEF OwnRequest, local, Late
  <1>. QED  BY <1>4, <1>5, <1>6, <1>10, <1>11, <1>12, <1>14, <1>15 DEF Inv

\* Who used main's line before main's connection has been overtaken.
LEMMA SameLine ==
  ASSUME Inv, connfd \in Conns, NEW c \in Conns, c # connfd, sent[c] # NotYet, LineOf(c) = line
  PROVE  Late(c)
  <1>. DEFINE L == buffer_sz + 2
  <1>1. c \in Nat \ {0} /\ connfd \in Nat \ {0} /\ connfd <= MaxConns /\ L \in Nat \ {0} /\ MaxConns \in Nat
    BY Constants, ConnsAssumption DEF Conns
  <1>2. line = LineOf(connfd) /\ sent[connfd] # NotYet /\ c < connfd
    BY <1>1, Constants DEF Inv, Turns
  <1>3. (connfd - 1) % L = (c - 1) % L /\ connfd - 1 \in Int /\ c - 1 \in Int
    BY <1>1, <1>2 DEF LineOf
  <1>4. ~((connfd - 1) - (c - 1) \in 0..L-1)
    <2>1. (connfd - 1) - (c - 1) \in 0..L-1 => connfd - 1 = c - 1
      BY <1>1, <1>3, Window, Zenon
    <2>. QED  BY <1>1, <2>1
  <1>5. c + L <= connfd
    BY <1>1, <1>2, <1>4
  <1>6. c + L \in Conns /\ c + L = c + buffer_sz + 2
    BY <1>1, <1>5, Constants DEF Conns
  <1>7. sent[c + L] # NotYet
    <2>1. CASE c + L = connfd
      BY <1>2, <2>1
    <2>2. CASE c + L # connfd
      <3>1. c + L \in 1..connfd-1
        BY <1>1, <1>5, <2>2
      <3>. QED  BY <1>2, <3>1 DEF Inv, Turns
    <2>. QED  BY <2>1, <2>2
  <1>. QED  BY <1>6, <1>7 DEF Late

\* main reads the request line, or does not, and looks up the file's size.
LEMMA ReadInv ==
  ASSUME Inv, ReadStart \/ ReadEnd \/ ReadEof
  PROVE  Inv'
  <1>1. /\ pc[Main] \in {"read", "reading"}
        /\ UNCHANGED <<up, mutex, slots, line, connfd, local, kids, spurious, sent>>
    BY DEF ReadStart, ReadEnd, ReadEof
  <1>2. PICK b \in {"reading", "lock"} : pc' = [pc EXCEPT ![Main] = b]
    BY DEF ReadStart, ReadEnd, ReadEof, Go
  <1>3. /\ Control' /\ NobodyStuck' /\ (\A t \in Threads : ThreadState(t)' /\ pc'[t] = pc[t])
        /\ pc'[Main] = b /\ mutex' \in All \cup {None}
        /\ pc' \in [All -> {"accept", "read", "reading", "lock", "test", "wait", "unlock",
                            "parse", "reply", "child", "close"}]
    BY <1>1, <1>2, MainStepInv
  <1>4. Held /\ Held' /\ connfd \in Conns /\ Live(connfd) /\ line = LineOf(connfd) /\ sent[connfd] # NotYet
    BY <1>1, <1>2, <1>3 DEF Held, Inv, MainState, TypeOK, Places, Turns
  <1>5. \/ /\ b = "reading" /\ sent[connfd] # Eof /\ file_sz' = file_sz
           /\ lines' = [lines EXCEPT ![line] = Garbage]
        \/ /\ b = "lock" /\ sent[connfd] \in Request /\ file_sz' \in Int
           /\ lines' = [lines EXCEPT ![line] = sent[connfd]]
        \/ b = "lock" /\ sent[connfd] = Eof /\ file_sz' \in Int /\ lines' = lines
    <2>0. ASSUME NEW x, Go(Main, x) PROVE b = x
      <3>1. pc'[Main] = x
        BY <2>0, Constants DEF Go, Inv, TypeOK
      <3>. QED  BY <1>3, <3>1
    <2>1. CASE ReadStart
      BY <2>0, <2>1 DEF ReadStart
    <2>2. CASE ReadEnd
      <3>1. sent[connfd] \in Request
        BY <1>4, <2>2 DEF ReadEnd, Live, Inv, MainState
      <3>. QED  BY <2>0, <2>2, <3>1, StatSizeAssumption DEF ReadEnd
    <2>3. CASE ReadEof
      <3>1. lines[line] \in Request \cup {Garbage}
        BY DEF Inv, TypeOK
      <3>2. PICK r \in Texts(lines[line]) : file_sz' \in StatSize[r]
        BY <2>3 DEF ReadEof
      <3>3. r \in Request
        BY <3>1, <3>2 DEF Texts
      <3>. QED  BY <2>0, <2>3, <3>2, <3>3, StatSizeAssumption DEF ReadEof
    <2>. QED  BY <2>1, <2>2, <2>3
  <1>6. TypeOK'
    <2>1. lines' \in [Lines -> Request \cup {Garbage}]
      BY <1>5 DEF Inv, TypeOK
    <2>2. file_sz' \in Int
      BY <1>5 DEF Inv, TypeOK
    <2>. QED  BY <1>1, <1>3, <2>1, <2>2 DEF Inv, TypeOK, slots, local, kids
  <1>7. MainState'
    BY <1>1, <1>2, <1>3, <1>4, <1>5, Constants DEF MainState
  <1>8. ValidSlots' = ValidSlots /\ \A c \in Conns : Live(c)' = Live(c) /\ Late(c)' = Late(c)
    BY <1>1 DEF ValidSlots, Live, Late, slots
  <1>9. Places'
    BY <1>1, <1>4, <1>8 DEF Inv, Places, slots, local, Live
  <1>10. CountMatches'
    BY <1>1, <1>8 DEF Inv, CountMatches, slots
  <1>11. Turns'
    BY <1>1 DEF Inv, Turns, LineOf
  <1>12. Kept'
    <2>1. /\ \A k \in ValidSlots : fileinfo[k] = LineOf(buffer[k])
          /\ \A t \in Threads : temp[t] # None => buff_ptr[t] = LineOf(temp[t])
      BY DEF Inv, Kept
    <2>2. ASSUME NEW c \in Conns, sent[c] \in Request, ~(b = "reading" /\ connfd = c)
          PROVE  lines'[LineOf(c)] = sent[c] \/ Late(c)
      <3>1. LineOf(c) \in Lines /\ line \in Lines
        <4>1. c - 1 \in Int /\ buffer_sz + 2 \in Nat \ {0}
          BY Constants
        <4>2. (c - 1) % (buffer_sz + 2) \in 0..(buffer_sz + 2)-1
          BY <4>1
        <4>. QED  BY <4>2, Constants DEF LineOf, Lines, Inv, TypeOK
      <3>2. CASE c = connfd
        BY <1>4, <1>5, <2>2, <3>1, <3>2, Constants DEF Inv, TypeOK
      <3>3. CASE c # connfd /\ LineOf(c) = line
        BY <1>4, <2>2, <3>3, SameLine, Constants
      <3>4. CASE c # connfd /\ LineOf(c) # line
        <4>1. lines'[LineOf(c)] = lines[LineOf(c)]
          BY <1>5, <3>1, <3>4 DEF Inv, TypeOK
        <4>. QED  BY <4>1, <2>2, <3>4 DEF Inv, Kept
      <3>. QED  BY <3>2, <3>3, <3>4
    <2>. QED  BY <1>1, <1>2, <1>3, <1>8, <2>1, <2>2 DEF Kept, LineOf, slots, local
  <1>13. OwnRequest'
    BY <1>1, <1>3 DEF Inv, OwnRequest, local
  <1>. QED  BY <1>3, <1>6, <1>7, <1>9, <1>10, <1>11, <1>12, <1>13 DEF Inv

\* main forgets the connection and turns to the next line.
LEMMA ProducerUnlockInv ==
  ASSUME Inv, ProducerUnlock
  PROVE  Inv'
  <1>1. /\ pc[Main] = "unlock" /\ mutex' = None /\ pc' = [pc EXCEPT ![Main] = "accept"]
        /\ connfd' = None /\ file_sz' = 0 /\ line' = (line + 1) % (buffer_sz + 2)
        /\ UNCHANGED <<up, slots, lines, local, kids, spurious, sent>>
    BY DEF ProducerUnlock, Go, NextLine
  <1>2. /\ Control' /\ NobodyStuck' /\ (\A t \in Threads : ThreadState(t)' /\ pc'[t] = pc[t])
        /\ pc'[Main] = "accept" /\ mutex' \in All \cup {None}
        /\ pc' \in [All -> {"accept", "read", "reading", "lock", "test", "wait", "unlock",
                            "parse", "reply", "child", "close"}]
    BY <1>1, MainStepInv
  <1>. DEFINE L == buffer_sz + 2
  <1>3. L \in Nat \ {0} /\ line \in Int /\ Lines = 0..L-1
    BY Constants DEF Inv, TypeOK, Lines
  <1>4. TypeOK'
    <2>1. line' \in Lines
      BY <1>1, <1>3
    <2>. QED  BY <1>1, <1>2, <2>1 DEF Inv, TypeOK, slots, local, kids
  <1>5. ~Held /\ ~Held' /\ MainState'
    BY <1>1, <1>2 DEF Held, MainState
  <1>6. ValidSlots' = ValidSlots /\ \A c \in Conns : Live(c)' = Live(c) /\ Late(c)' = Late(c)
    BY <1>1 DEF ValidSlots, Live, Late, slots
  <1>7. Places'
    BY <1>1, <1>5, <1>6 DEF Inv, Places, slots, local, Live
  <1>8. CountMatches'
    BY <1>1, <1>6 DEF Inv, CountMatches, slots
  <1>9. Turns'
    <2>1. connfd \in Conns /\ line = LineOf(connfd) /\ \A c \in Conns : c > connfd => sent[c] = NotYet
      BY <1>1 DEF Inv, MainState, TypeOK, Turns
    <2>2. ASSUME NEW c \in Conns, sent[c] = NotYet, \A d \in 1..c-1 : sent[d] # NotYet
          PROVE  line' = LineOf(c)
      <3>1. c \in Nat \ {0} /\ connfd \in Nat \ {0}
        BY <2>1, Constants
      <3>2. c = connfd + 1
        <4>1. sent[connfd] # NotYet
          BY <1>1, Constants DEF Inv, Turns, MainState
        <4>2. ~(c < connfd)
          <5>1. c < connfd => c \in 1..connfd-1
            BY <3>1
          <5>. QED  BY <2>1, <2>2, <4>1, <5>1 DEF Inv, Turns
        <4>3. ~(c > connfd + 1)
          <5>1. c > connfd + 1 => connfd + 1 \in 1..c-1 /\ connfd + 1 \in Conns /\ connfd + 1 > connfd
            BY <3>1, ConnsAssumption DEF Conns
          <5>. QED  BY <2>1, <2>2, <5>1
        <4>. QED  BY <2>2, <3>1, <4>1, <4>2, <4>3
      <3>3. (((connfd - 1) % L) + 1) % L = (c - 1) % L
        <4>. DEFINE a == connfd - 1
                    x == a \div L
                    y == a % L
        <4>1. a \in Int /\ c - 1 = a + 1
          BY <3>1, <3>2
        <4>2. x \in Int /\ y \in 0..L-1 /\ a = (L * x) + y
          BY <1>3, <4>1, DivMod, Zenon
        <4>. HIDE DEF a, x, y, L
        <4>3. (a + 1) - (y + 1) = L * x /\ a + 1 \in Int /\ y + 1 \in Int
          BY <1>3, <4>1, <4>2
        <4>4. (a + 1) % L = (y + 1) % L
          BY <1>3, <4>2, <4>3, SameResidue, Zenon
        <4>. QED  BY <4>1, <4>4 DEF a, y
      <3>. QED  BY <1>1, <2>1, <3>3 DEF LineOf
    <2>. QED  BY <1>1, <2>2 DEF Inv, Turns, LineOf
  <1>10. Kept'
    BY <1>1, <1>2, <1>6 DEF Inv, Kept, LineOf, slots, local
  <1>11. OwnRequest'
    BY <1>1, <1>2 DEF Inv, OwnRequest, local
  <1>. QED  BY <1>2, <1>4, <1>5, <1>7, <1>8, <1>9, <1>10, <1>11 DEF Inv

\* While the buffer is not full, put finds one slot.
LEMMA FreeSlot ==
  ASSUME Inv, buff_count # buffer_sz
  PROVE  \E k \in Slots : FirstFree = {k} /\ k \notin ValidSlots
  <1>. DEFINE T == {k \in Slots : valid[k] = 0}
  <1>1. Slots \subseteq Nat /\ \A k \in Slots : valid[k] \in {0, 1} /\ 0..k-1 \subseteq Slots
    BY BufferAssumption DEF Slots, Inv, TypeOK
  <1>2. T # {}
    <2>1. SUFFICES ASSUME T = {} PROVE FALSE
      OBVIOUS
    <2>2. ValidSlots = Slots
      BY <1>1, <2>1 DEF ValidSlots
    <2>3. Cardinality(Slots) = buffer_sz
      <3>1. 0 \in Int /\ buffer_sz-1 \in Int /\ buffer_sz \in Nat
        BY BufferAssumption
      <3>2. Cardinality(0..buffer_sz-1) = IF 0 > buffer_sz-1 THEN 0 ELSE (buffer_sz-1)-0+1
        BY <3>1, FS_Interval
      <3>. QED  BY <3>1, <3>2, BufferAssumption DEF Slots
    <2>. QED  BY <2>2, <2>3 DEF Inv, CountMatches
  <1>3. PICK k \in T : \A j \in T : k <= j
    BY <1>1, <1>2, LeastNat
  <1>4. FirstFree = {k}
    <2>1. k \in FirstFree
      BY <1>1, <1>3 DEF FirstFree
    <2>2. ASSUME NEW j \in FirstFree PROVE j = k
      <3>1. j \in T /\ k <= j /\ j \in Nat /\ k \in Nat
        BY <1>1, <1>3 DEF FirstFree
      <3>2. k < j => valid[k] # 0
        BY <1>1, <3>1 DEF FirstFree
      <3>. QED  BY <1>3, <3>1, <3>2
    <2>. QED  BY <2>1, <2>2
  <1>. QED  BY <1>3, <1>4 DEF ValidSlots

\* The connection goes from main's hands into a free slot; a consumer is woken.
LEMMA ProducerInv ==
  ASSUME Inv, Producer
  PROVE  Inv'
  <1>1. /\ pc[Main] = "test" /\ buff_count # buffer_sz /\ put(connfd, line, file_sz)
        /\ UNCHANGED <<up, mutex, main, local, kids, spurious, sent>>
    BY DEF Producer
  <1>2. PICK k \in Slots : FirstFree = {k} /\ k \notin ValidSlots
    BY <1>1, FreeSlot
  <1>3. /\ connfd \in Conns /\ Held /\ line \in Lines /\ file_sz \in Int
        /\ line = LineOf(connfd) /\ Live(connfd)
    BY <1>1 DEF Inv, MainState, TypeOK, Held, Turns, Places
  <1>4. /\ valid' = [j \in Slots |-> IF j = k THEN 1 ELSE valid[j]]
        /\ buffer' = [j \in Slots |-> IF j = k THEN connfd ELSE buffer[j]]
        /\ fileinfo' = [j \in Slots |-> IF j = k THEN line ELSE fileinfo[j]]
        /\ size_file' = [j \in Slots |-> IF j = k THEN file_sz ELSE size_file[j]]
    BY <1>1, <1>2 DEF put
  <1>5. buff_count' = buff_count + 1
    <2>1. Cardinality({k}) = 1
      BY FS_Singleton
    <2>. QED  BY <1>1, <1>2, <2>1 DEF put
  <1>6. ValidSlots' = ValidSlots \cup {k} /\ ValidSlots \in SUBSET Slots
    BY <1>2, <1>4 DEF ValidSlots
  <1>7. CountMatches'
    <2>1. Cardinality(ValidSlots') = Cardinality(ValidSlots) + 1
      BY <1>2, <1>6, Finite, OneMore
    <2>. QED  BY <1>5, <2>1 DEF Inv, CountMatches
  <1>8. buff_count' \in 0..buffer_sz
    BY <1>1, <1>5, BufferAssumption DEF Inv, TypeOK
  <1>9. \/ /\ \A t \in Threads : pc[t] # "wait"
           /\ pc' = [pc EXCEPT ![Main] = "unlock"]
        \/ \E s \in Threads : pc[s] = "wait" /\ pc' = [pc EXCEPT ![Main] = "unlock", ![s] = "lock"]
    BY DEF Producer, Filled, signal, Go
  <1>10. /\ pc' \in [All -> {"accept", "read", "reading", "lock", "test", "wait", "unlock",
                             "parse", "reply", "child", "close"}]
         /\ pc'[Main] = "unlock"
         /\ \A t \in Threads : pc'[t] = pc[t] \/ (pc[t] = "wait" /\ pc'[t] = "lock")
    BY <1>9, Constants DEF Inv, TypeOK
  <1>11. TypeOK'
    <2>1. /\ valid' \in [Slots -> {0, 1}] /\ buffer' \in [Slots -> Conns \cup {None}]
          /\ fileinfo' \in [Slots -> Lines] /\ size_file' \in [Slots -> Int]
      BY <1>3, <1>4 DEF Inv, TypeOK
    <2>. QED  BY <1>1, <1>8, <1>10, <2>1 DEF Inv, TypeOK, main, local, kids
  <1>12. Control'
    <2>1. mutex = Main /\ \A t \in Threads : mutex # t /\ pc[t] \notin {"test", "unlock"}
      BY <1>1, Constants DEF Inv, Control
    <2>2. \A t \in All : t = Main \/ t \in Threads
      BY DEF All
    <2>. QED  BY <1>1, <1>10, <2>1, <2>2, Constants DEF Control
  <1>13. MainState' /\ ~Held'
    BY <1>1, <1>10 DEF Inv, MainState, main, Held
  <1>14. \A t \in Threads : ThreadState(t)'
    BY <1>1, <1>10 DEF Inv, ThreadState, local
  <1>15. /\ \A j \in ValidSlots : buffer'[j] = buffer[j] /\ fileinfo'[j] = fileinfo[j] /\ j # k
         /\ buffer'[k] = connfd /\ fileinfo'[k] = line
    BY <1>2, <1>4, <1>6
  <1>16. \A c : Live(c)' = Live(c) /\ Late(c)' = Late(c)
    BY <1>1 DEF Live, Late
  <1>17. Places'
    <2>1. /\ \A j \in ValidSlots : buffer[j] # connfd
          /\ \A t \in Threads : temp[t] # connfd
          /\ \A j \in ValidSlots : /\ buffer[j] \in Conns /\ Live(buffer[j])
                                   /\ \A i \in ValidSlots : buffer[i] = buffer[j] => i = j
                                   /\ \A t \in Threads : temp[t] # buffer[j]
          /\ \A t \in Threads : temp[t] # None => /\ Live(temp[t])
                                                  /\ \A s \in Threads : temp[s] = temp[t] => s = t
          /\ \A c \in Conns : Live(c) => \/ connfd = c
                                         \/ \E j \in ValidSlots : buffer[j] = c
                                         \/ \E t \in Threads : temp[t] = c
      BY <1>3 DEF Inv, Places
    <2>2. temp' = temp
      BY <1>1 DEF local
    <2>3. \A j \in ValidSlots' : /\ buffer'[j] \in Conns /\ Live(buffer'[j])
                                 /\ \A i \in ValidSlots' : buffer'[i] = buffer'[j] => i = j
                                 /\ \A t \in Threads : temp[t] # buffer'[j]
      BY <1>3, <1>6, <1>15, <2>1
    <2>4. \A j \in ValidSlots' : Live(buffer[j])'
      BY <1>1, <2>3 DEF Live
    <2>5. \A t \in Threads : temp[t] # None => Live(temp[t])'
      BY <1>1, <2>1, <2>2 DEF Live
    <2>6. \A c \in Conns : Live(c)' => (\E j \in ValidSlots' : buffer'[j] = c) \/ (\E t \in Threads : temp[t] = c)
      BY <1>6, <1>15, <1>16, <2>1
    <2>. QED  BY <1>13, <2>1, <2>2, <2>3, <2>4, <2>5, <2>6 DEF Places
  <1>18. Turns'
    BY <1>1 DEF Inv, Turns, main, LineOf
  <1>19. Kept'
    <2>1. \A j \in ValidSlots' : fileinfo'[j] = LineOf(buffer'[j])
      BY <1>3, <1>6, <1>15 DEF Inv, Kept
    <2>2. temp' = temp /\ buff_ptr' = buff_ptr /\ lines' = lines /\ connfd' = connfd /\ sent' = sent
      BY <1>1 DEF local, main
    <2>3. \A c \in Conns : sent[c] \in Request => lines[LineOf(c)] = sent[c] \/ Late(c)
      BY <1>1 DEF Inv, Kept
    <2>4. \A t \in Threads : temp[t] # None => buff_ptr[t] = LineOf(temp[t])
      BY DEF Inv, Kept
    <2>. QED  BY <1>16, <2>1, <2>2, <2>3, <2>4 DEF Kept, LineOf
  <1>20. NobodyStuck'
    <2>1. ConsumersAwake'
      <3>1. CASE \A t \in Threads : pc'[t] # "wait"
        BY <3>1 DEF ConsumersAwake
      <3>2. CASE \E t \in Threads : pc'[t] = "wait"
        <4>1. \E t \in Threads : pc[t] = "wait"
          BY <1>10, <3>2
        <4>2. PICK s \in Threads : pc[s] = "wait" /\ pc' = [pc EXCEPT ![Main] = "unlock", ![s] = "lock"]
          BY <1>9, <4>1
        <4>3. \A t \in Threads : pc'[t] = IF t = s THEN "lock" ELSE pc[t]
          BY <4>2, Constants DEF Inv, TypeOK
        <4>4. Coming' = Coming \cup {s} /\ s \notin Coming /\ Coming \in SUBSET Threads
          BY <4>2, <4>3 DEF Coming
        <4>5. Cardinality(Coming') = Cardinality(Coming) + 1 /\ Cardinality(Coming) \in Nat
          BY <4>4, Finite, OneMore
        <4>6. buff_count <= Cardinality(Coming) /\ buff_count \in Nat
          BY <4>1, BufferAssumption DEF Inv, TypeOK, NobodyStuck, ConsumersAwake, Coming
        <4>. QED  BY <1>5, <4>5, <4>6 DEF ConsumersAwake, Coming
      <3>. QED  BY <3>1, <3>2
    <2>2. WaitHasChild'
      <3>1. \A t \in Threads : pc'[t] = "child" <=> pc[t] = "child"
        BY <1>10
      <3>. QED  BY <1>1, <3>1, ChildStep DEF kids
    <2>. QED  BY <1>10, <2>1, <2>2 DEF NobodyStuck, ProducerBlocked
  <1>21. OwnRequest'
    BY <1>1, <1>10 DEF Inv, OwnRequest, local
  <1>. QED  BY <1>7, <1>11, <1>12, <1>13, <1>14, <1>17, <1>18, <1>19, <1>20, <1>21 DEF Inv

-----------------------------------------------------------------------------
(* consumers *)

\* The connection goes from its slot into the consumer's hands; main is woken.
LEMMA ConsumerInv ==
  ASSUME Inv, NEW t \in Threads, Consumer(t)
  PROVE  Inv'
  <1>. DEFINE k == Chosen
  <1>1. /\ pc[t] = "test" /\ buff_count # 0 /\ get(t)
        /\ UNCHANGED <<up, mutex, main, kids, spurious, sent>>
    BY DEF Consumer
  <1>2. ValidSlots # {}
    <2>1. Cardinality({}) = 0
      BY FS_EmptySet
    <2>. QED  BY <1>1, <2>1 DEF Inv, CountMatches
  <1>3. k \in ValidSlots /\ k \in Slots
    BY <1>2, ChosenIs DEF Inv, ValidSlots
  <1>4. /\ valid' = [valid EXCEPT ![k] = 0] /\ buff_count' = buff_count - 1
        /\ buff_ptr' = [buff_ptr EXCEPT ![t] = fileinfo[k]]
        /\ temp' = [temp EXCEPT ![t] = buffer[k]]
        /\ UNCHANGED <<buffer, fileinfo, size_file, req>>
    BY <1>1 DEF get
  <1>. HIDE DEF k
  <1>5. ValidSlots' = ValidSlots \ {k} /\ ValidSlots \in SUBSET Slots
    BY <1>3, <1>4 DEF ValidSlots, Inv, TypeOK
  <1>6. CountMatches'
    <2>1. Cardinality(ValidSlots') = Cardinality(ValidSlots) - 1
      BY <1>3, <1>5, Finite, OneLess
    <2>. QED  BY <1>4, <2>1 DEF Inv, CountMatches
  <1>7. buff_count' \in 0..buffer_sz
    BY <1>1, <1>4, BufferAssumption DEF Inv, TypeOK
  <1>8. \/ pc[Main] # "wait" /\ pc' = [pc EXCEPT ![t] = "unlock"]
        \/ pc[Main] = "wait" /\ pc' = [pc EXCEPT ![t] = "unlock", ![Main] = "lock"]
    BY DEF Consumer, Emptied, signal, Go
  <1>9. /\ pc' \in [All -> {"accept", "read", "reading", "lock", "test", "wait", "unlock",
                            "parse", "reply", "child", "close"}]
        /\ pc'[t] = "unlock" /\ pc'[Main] # "wait"
        /\ (pc'[Main] = pc[Main] \/ (pc[Main] = "wait" /\ pc'[Main] = "lock"))
        /\ \A s \in Threads : s # t => pc'[s] = pc[s]
    BY <1>8, Constants DEF Inv, TypeOK
  <1>10. buffer[k] \in Conns /\ Live(buffer[k]) /\ fileinfo[k] = LineOf(buffer[k]) /\ fileinfo[k] \in Lines
    BY <1>3 DEF Inv, Places, Kept, TypeOK
  <1>11. /\ temp[t] = None /\ temp'[t] = buffer[k] /\ buff_ptr'[t] = fileinfo[k]
         /\ \A s \in Threads : s # t => temp'[s] = temp[s] /\ buff_ptr'[s] = buff_ptr[s]
    BY <1>1, <1>4 DEF Inv, ThreadState, TypeOK
  <1>12. TypeOK'
    <2>1. /\ valid' \in [Slots -> {0, 1}] /\ temp' \in [Threads -> Conns \cup {None}]
          /\ buff_ptr' \in [Threads -> Lines]
      BY <1>4, <1>10 DEF Inv, TypeOK
    <2>. QED  BY <1>1, <1>4, <1>7, <1>9, <2>1 DEF Inv, TypeOK, main, kids
  <1>13. Control'
    <2>1. mutex = t /\ pc[Main] \notin {"test", "unlock"}
          /\ \A s \in Threads : s # t => mutex # s /\ pc[s] \notin {"test", "unlock"}
      BY <1>1, Constants DEF Inv, Control
    <2>2. \A s \in All : s = Main \/ s \in Threads
      BY DEF All
    <2>. QED  BY <1>1, <1>9, <2>1, <2>2, Constants DEF Inv, Control
  <1>14. /\ Held' = Held /\ (pc'[Main] = "accept" <=> pc[Main] = "accept")
         /\ (pc'[Main] = "reading" <=> pc[Main] = "reading")
         /\ (pc'[Main] \in {"read", "reading"} <=> pc[Main] \in {"read", "reading"})
    BY <1>9 DEF Held
  <1>15. MainState'
    BY <1>1, <1>14 DEF Inv, MainState, main
  <1>16. ASSUME NEW s \in Threads PROVE ThreadState(s)'
    <2>1. CASE s = t
      BY <1>9, <1>10, <1>11, <2>1, Constants DEF ThreadState
    <2>2. CASE s # t
      BY <1>4, <1>9, <1>11, <2>2 DEF Inv, ThreadState
    <2>. QED  BY <2>1, <2>2
  <1>17. \A c : Live(c)' = Live(c) /\ Late(c)' = Late(c)
    BY <1>1 DEF Live, Late
  <1>18. Places'
    <2>1. /\ Held => /\ Live(connfd)
                     /\ \A j \in ValidSlots : buffer[j] # connfd
                     /\ \A s \in Threads : temp[s] # connfd
          /\ \A j \in ValidSlots : /\ buffer[j] \in Conns /\ Live(buffer[j])
                                   /\ \A i \in ValidSlots : buffer[i] = buffer[j] => i = j
                                   /\ \A s \in Threads : temp[s] # buffer[j]
          /\ \A s \in Threads : temp[s] # None => /\ Live(temp[s])
                                                  /\ \A q \in Threads : temp[q] = temp[s] => q = s
          /\ \A c \in Conns : Live(c) => \/ Held /\ connfd = c
                                         \/ \E j \in ValidSlots : buffer[j] = c
                                         \/ \E s \in Threads : temp[s] = c
      BY DEF Inv, Places
    <2>2. buffer' = buffer /\ connfd' = connfd
      BY <1>1, <1>4 DEF main
    <2>3. Held => Live(connfd)' /\ \A s \in Threads : temp'[s] # connfd
      BY <1>1, <1>3, <1>11, <2>1, <2>2 DEF Live
    <2>4. \A j \in ValidSlots' : /\ buffer[j] \in Conns /\ Live(buffer[j])'
                                 /\ \A i \in ValidSlots' : buffer[i] = buffer[j] => i = j
                                 /\ \A s \in Threads : temp'[s] # buffer[j]
      <3>1. \A j \in ValidSlots' : j \in ValidSlots /\ j # k
        BY <1>5
      <3>2. \A j \in ValidSlots' : Live(buffer[j])'
        BY <1>1, <2>1, <2>2, <3>1 DEF Live
      <3>3. \A j \in ValidSlots' : \A s \in Threads : temp'[s] # buffer[j]
        BY <1>3, <1>11, <2>1, <3>1
      <3>. QED  BY <2>1, <3>1, <3>2, <3>3
    <2>5. \A s \in Threads : temp'[s] # None => /\ Live(temp'[s])
                                                /\ \A q \in Threads : temp'[q] = temp'[s] => q = s
      BY <1>3, <1>10, <1>11, <2>1
    <2>6. \A s \in Threads : temp'[s] # None => Live(temp[s])'
      BY <1>1, <2>5 DEF Live
    <2>7. \A c \in Conns : Live(c)' => \/ Held /\ connfd = c
                                       \/ \E j \in ValidSlots' : buffer[j] = c
                                       \/ \E s \in Threads : temp'[s] = c
      <3>1. ASSUME NEW c \in Conns, Live(c), NEW j \in ValidSlots, buffer[j] = c
            PROVE  (\E i \in ValidSlots' : buffer[i] = c) \/ (\E s \in Threads : temp'[s] = c)
        BY <1>5, <1>11, <3>1
      <3>2. ASSUME NEW c \in Conns, Live(c), NEW s \in Threads, temp[s] = c
            PROVE  \E q \in Threads : temp'[q] = c
        <4>1. s # t
          BY <1>11, <3>2, Constants
        <4>. QED  BY <1>11, <3>2, <4>1
      <3>. QED  BY <1>17, <2>1, <3>1, <3>2
    <2>. QED  BY <1>5, <1>14, <2>1, <2>2, <2>3, <2>4, <2>5, <2>6, <2>7 DEF Places
  <1>19. Turns'
    BY <1>1 DEF Inv, Turns, main, LineOf
  <1>20. Kept'
    <2>1. \A j \in ValidSlots' : fileinfo[j] = LineOf(buffer[j])
      BY <1>5 DEF Inv, Kept
    <2>2. \A s \in Threads : temp'[s] # None => buff_ptr'[s] = LineOf(temp'[s])
      BY <1>10, <1>11 DEF Inv, Kept
    <2>3. \A c \in Conns : sent[c] \in Request /\ ~(pc'[Main] \in {"read", "reading"} /\ connfd = c)
                             => lines[LineOf(c)] = sent[c] \/ Late(c)
      BY <1>14 DEF Inv, Kept
    <2>4. lines' = lines /\ connfd' = connfd /\ sent' = sent /\ buffer' = buffer /\ fileinfo' = fileinfo
      BY <1>1, <1>4 DEF main
    <2>. QED  BY <1>17, <2>1, <2>2, <2>3, <2>4 DEF Kept, LineOf
  <1>21. NobodyStuck'
    <2>1. ConsumersAwake'
      <3>1. SUFFICES ASSUME NEW s \in Threads, pc'[s] = "wait"
                     PROVE  buff_count' <= Cardinality(Coming')
        BY DEF ConsumersAwake, Coming
      <3>2. pc[s] = "wait"
        BY <1>9, <3>1
      <3>3. Coming' = Coming \ {t} /\ t \in Coming /\ Coming \in SUBSET Threads
        BY <1>1, <1>9 DEF Coming
      <3>4. Cardinality(Coming') = Cardinality(Coming) - 1 /\ Cardinality(Coming) \in Nat
        BY <3>3, Finite, OneLess
      <3>5. buff_count <= Cardinality(Coming) /\ buff_count \in Nat
        BY <3>2, BufferAssumption DEF Inv, TypeOK, NobodyStuck, ConsumersAwake, Coming
      <3>. QED  BY <1>4, <3>4, <3>5
    <2>2. WaitHasChild'
      <3>1. \A s \in Threads : pc'[s] = "child" <=> pc[s] = "child"
        BY <1>1, <1>9
      <3>. QED  BY <1>1, <3>1, ChildStep DEF kids
    <2>. QED  BY <1>9, <2>1, <2>2 DEF NobodyStuck, ProducerBlocked
  <1>22. OwnRequest'
    <2>1. ASSUME NEW s \in Threads, pc'[s] = "reply" PROVE s # t /\ pc[s] = "reply" /\ temp'[s] = temp[s]
      BY <1>9, <1>11, <2>1
    <2>. QED  BY <1>1, <1>4, <2>1 DEF Inv, OwnRequest
  <1>. QED  BY <1>6, <1>12, <1>13, <1>15, <1>16, <1>18, <1>19, <1>20, <1>21, <1>22 DEF Inv

\* The connection is closed and in nobody's hands.
LEMMA CloseInv ==
  ASSUME Inv, NEW t \in Threads, Close(t)
  PROVE  Inv'
  <1>1. /\ pc[t] = "close" /\ sent' = [sent EXCEPT ![temp[t]] = Closed]
        /\ temp' = [temp EXCEPT ![t] = None] /\ buff_ptr' = [buff_ptr EXCEPT ![t] = 0]
        /\ req' = [req EXCEPT ![t] = None] /\ pc' = [pc EXCEPT ![t] = "lock"]
        /\ UNCHANGED <<up, mutex, slots, main, kids, spurious>>
    BY DEF Close, Go
  <1>2. temp[t] \in Conns /\ Live(temp[t]) /\ t # Main /\ t \in All
    BY <1>1, Constants DEF Inv, ThreadState, TypeOK, Places
  <1>3. PICK c \in Conns : c = temp[t]
    BY <1>2
  <1>4. \A d \in Conns : /\ sent'[d] = (IF d = c THEN Closed ELSE sent[d])
                         /\ (sent'[d] = NotYet <=> sent[d] = NotYet)
    <2>1. sent[c] # NotYet
      BY <1>2, <1>3, Constants DEF Live
    <2>. QED  BY <1>1, <1>3, <2>1, Constants DEF Inv, TypeOK
  <1>5. /\ pc' \in [All -> {"accept", "read", "reading", "lock", "test", "wait", "unlock",
                            "parse", "reply", "child", "close"}]
        /\ pc'[t] = "lock" /\ pc'[Main] = pc[Main]
        /\ \A s \in Threads : s # t => pc'[s] = pc[s]
    BY <1>1, <1>2, Constants DEF Inv, TypeOK
  <1>6. /\ temp'[t] = None
        /\ \A s \in Threads : s # t => temp'[s] = temp[s] /\ buff_ptr'[s] = buff_ptr[s] /\ req'[s] = req[s]
    BY <1>1 DEF Inv, TypeOK
  <1>7. TypeOK'
    <2>1. /\ sent' \in [Conns -> Request \cup {Eof, Closed, NotYet}]
          /\ temp' \in [Threads -> Conns \cup {None}] /\ req' \in [Threads -> Request \cup {None}]
      BY <1>1 DEF Inv, TypeOK
    <2>2. buff_ptr' \in [Threads -> Lines]
      <3>1. 0 \in Lines
        BY BufferAssumption DEF Lines
      <3>. QED  BY <1>1, <3>1 DEF Inv, TypeOK
    <2>. QED  BY <1>1, <1>5, <2>1, <2>2 DEF Inv, TypeOK, slots, main, kids
  <1>8. Control'
    <2>1. mutex # t
      BY <1>1, <1>2 DEF Inv, Control
    <2>. QED  BY <1>1, <1>2, <2>1, ControlStep
  <1>9. Held' = Held /\ ValidSlots' = ValidSlots /\ buffer' = buffer /\ connfd' = connfd
    BY <1>1, <1>5 DEF Held, ValidSlots, slots, main
  <1>10. /\ (Held => connfd \in Conns /\ connfd # c /\ Live(connfd))
         /\ (\A k \in ValidSlots : buffer[k] \in Conns /\ buffer[k] # c /\ Live(buffer[k]))
         /\ (\A s \in Threads : s # t => temp[s] # c)
    <2>1. ASSUME Held PROVE connfd \in Conns /\ connfd # c /\ Live(connfd)
      <3>1. connfd \in Conns
        BY <2>1 DEF Inv, TypeOK, MainState, Held
      <3>2. Live(connfd) /\ temp[t] # connfd
        BY <2>1 DEF Inv, Places
      <3>. QED  BY <1>3, <3>1, <3>2
    <2>2. ASSUME NEW k \in ValidSlots PROVE buffer[k] \in Conns /\ buffer[k] # c /\ Live(buffer[k])
      BY <1>3, <2>2 DEF Inv, Places
    <2>3. ASSUME NEW s \in Threads, s # t PROVE temp[s] # c
      <3>1. temp[t] # None
        BY <1>2, Constants
      <3>. QED  BY <1>3, <2>3, <3>1 DEF Inv, Places
    <2>. QED  BY <2>1, <2>2, <2>3
  <1>11. MainState'
    <2>1. pc[Main] = "reading" => Held
      BY DEF Held
    <2>. QED  BY <1>4, <1>5, <1>9, <1>10, <2>1 DEF Inv, MainState
  <1>12. ASSUME NEW s \in Threads PROVE ThreadState(s)'
    <2>1. CASE s = t
      BY <1>5, <1>6, <2>1 DEF ThreadState
    <2>2. CASE s # t
      BY <1>5, <1>6, <2>2 DEF Inv, ThreadState
    <2>. QED  BY <2>1, <2>2
  <1>13. \A d \in Conns : /\ Live(d)' = (d # c /\ Live(d))
                          /\ Late(d)' = Late(d)
    BY <1>4, Constants DEF Live, Late
  <1>14. Places'
    <2>1. Held => Live(connfd)' /\ (\A k \in ValidSlots : buffer[k] # connfd) /\ \A s \in Threads : temp'[s] # connfd
      BY <1>4, <1>6, <1>9, <1>10, Constants DEF Inv, Places, Live
    <2>2. \A k \in ValidSlots : /\ buffer[k] \in Conns /\ Live(buffer[k])'
                                /\ \A j \in ValidSlots : buffer[j] = buffer[k] => j = k
                                /\ \A s \in Threads : temp'[s] # buffer[k]
      <3>1. \A k \in ValidSlots : Live(buffer[k])'
        BY <1>4, <1>9, <1>10 DEF Live
      <3>2. \A k \in ValidSlots : \A s \in Threads : temp'[s] # buffer[k]
        BY <1>6, <1>10, Constants DEF Inv, Places
      <3>. QED  BY <1>10, <3>1, <3>2 DEF Inv, Places
    <2>3. \A s \in Threads : temp'[s] # None => /\ Live(temp[s])'
                                                /\ \A q \in Threads : temp'[q] = temp'[s] => q = s
      <3>1. ASSUME NEW s \in Threads, temp'[s] # None PROVE s # t /\ temp'[s] = temp[s] /\ temp[s] \in Conns
        BY <1>6, <3>1 DEF Inv, TypeOK
      <3>2. ASSUME NEW s \in Threads, temp'[s] # None PROVE Live(temp[s])'
        BY <1>4, <1>10, <3>1, <3>2 DEF Inv, Places, Live
      <3>3. ASSUME NEW s \in Threads, NEW q \in Threads, temp'[s] # None, temp'[q] = temp'[s] PROVE q = s
        BY <3>1, <3>3 DEF Inv, Places
      <3>. QED  BY <3>2, <3>3
    <2>4. \A d \in Conns : Live(d)' => \/ Held /\ connfd = d
                                       \/ \E k \in ValidSlots : buffer[k] = d
                                       \/ \E s \in Threads : temp'[s] = d
      <3>1. ASSUME NEW d \in Conns, d # c, NEW s \in Threads, temp[s] = d PROVE \E q \in Threads : temp'[q] = d
        BY <1>3, <1>6, <3>1
      <3>. QED  BY <1>13, <3>1 DEF Inv, Places
    <2>. QED  BY <1>9, <2>1, <2>2, <2>3, <2>4 DEF Places
  <1>15. CountMatches'
    BY <1>1, <1>9 DEF Inv, CountMatches, slots
  <1>16. Turns'
    <2>1. connfd # None => connfd \in Conns
      BY DEF Inv, TypeOK
    <2>2. line' = line
      BY <1>1 DEF main
    <2>3. \A d \in Conns : \A x \in 1..d-1 : x \in Conns
      BY ConnsAssumption DEF Conns
    <2>4. \A d \in Conns : sent'[d] # NotYet => \A x \in 1..d-1 : sent'[x] # NotYet
      BY <1>4, <2>3 DEF Inv, Turns
    <2>5. connfd # None => /\ line = LineOf(connfd) /\ sent'[connfd] # NotYet
                           /\ \A d \in Conns : d > connfd => sent'[d] = NotYet
      BY <1>4, <2>1 DEF Inv, Turns
    <2>6. connfd = None => \A d \in Conns : sent'[d] = NotYet /\ (\A x \in 1..d-1 : sent'[x] # NotYet)
                                              => line = LineOf(d)
      BY <1>4, <2>3 DEF Inv, Turns
    <2>. QED  BY <1>9, <2>2, <2>4, <2>5, <2>6 DEF Turns, LineOf
  <1>17. Kept'
    <2>1. lines' = lines /\ fileinfo' = fileinfo
      BY <1>1 DEF main, slots
    <2>2. \A s \in Threads : temp'[s] # None => buff_ptr'[s] = LineOf(temp'[s])
      BY <1>6 DEF Inv, Kept
    <2>3. \A d \in Conns : sent'[d] \in Request /\ ~(pc[Main] \in {"read", "reading"} /\ connfd = d)
                             => lines[LineOf(d)] = sent'[d] \/ Late(d)'
      BY <1>4, <1>13, Constants DEF Inv, Kept
    <2>. QED  BY <1>5, <1>9, <2>1, <2>2, <2>3 DEF Inv, Kept, LineOf
  <1>18. NobodyStuck'
    <2>1. ConsumersAwake'
      BY <1>1, <1>2, AwakeStep DEF slots
    <2>2. WaitHasChild'
      <3>1. \A s \in Threads : pc'[s] = "child" <=> pc[s] = "child"
        BY <1>1, <1>5
      <3>. QED  BY <1>1, <3>1, ChildStep DEF kids
    <2>. QED  BY <1>1, <1>5, <2>1, <2>2 DEF Inv, NobodyStuck, ProducerBlocked, slots
  <1>19. OwnRequest'
    <2>1. ASSUME NEW s \in Threads, pc'[s] = "reply", sent'[temp'[s]] # Eof
          PROVE  req'[s] = sent'[temp'[s]] \/ \E d \in Conns : d = temp'[s] + buffer_sz + 2 /\ sent'[d] # NotYet
      <3>1. s # t /\ pc[s] = "reply" /\ temp'[s] = temp[s] /\ req'[s] = req[s]
        BY <1>5, <1>6, <2>1
      <3>2. temp[s] \in Conns /\ temp[s] # c /\ sent'[temp[s]] = sent[temp[s]]
        BY <1>4, <1>10, <3>1 DEF Inv, ThreadState, TypeOK
      <3>. QED  BY <1>4, <2>1, <3>1, <3>2 DEF Inv, OwnRequest
    <2>. QED  BY <2>1 DEF OwnRequest
  <1>. QED  BY <1>7, <1>8, <1>11, <1>12, <1>14, <1>15, <1>16, <1>17, <1>18, <1>19 DEF Inv

-----------------------------------------------------------------------------
(* the specification *)

\* The server starts with an empty buffer and no connection.
LEMMA InvInit ==
  ASSUME Init
  PROVE  Inv
  <1>1. /\ pc \in [All -> {"accept", "lock"}] /\ pc[Main] = "accept" /\ \A t \in Threads : pc[t] = "lock"
    BY Constants DEF Init
  <1>2. ValidSlots = {} /\ Coming \in SUBSET Threads /\ Parents = {}
    BY <1>1 DEF Init, ValidSlots, Coming, Parents
  <1>3. Cardinality({}) = 0
    BY FS_EmptySet
  <1>4. 0 \in Slots \cap Lines /\ Slots \subseteq Nat
    BY BufferAssumption DEF Slots, Lines
  <1>5. TypeOK
    <2>1. buff_count \in 0..buffer_sz /\ spurious \in 0..MaxSpurious
      BY BufferAssumption, FaultAssumption DEF Init
    <2>2. valid \in [Slots -> {0, 1}] /\ size_file \in [Slots -> Int] /\ fileinfo \in [Slots -> Lines]
      BY <1>4 DEF Init
    <2>. QED  BY <1>1, <1>4, <2>1, <2>2 DEF Init, TypeOK
  <1>6. Control /\ MainState /\ \A t \in Threads : ThreadState(t)
    <2>1. mutex = None /\ connfd = None /\ \A t \in Threads : temp[t] = None
      BY DEF Init
    <2>2. \A t \in All : pc[t] \in {"accept", "lock"}
      BY <1>1
    <2>. QED  BY <1>1, <2>1, <2>2, Constants DEF Control, MainState, ThreadState
  <1>7. \A c \in Conns : sent[c] = NotYet /\ ~Live(c)
    BY Constants DEF Init, Live
  <1>8. Places
    BY <1>1, <1>2, <1>7 DEF Init, Places, Held
  <1>9. CountMatches
    BY <1>2, <1>3 DEF Init, CountMatches
  <1>10. Turns
    <2>1. connfd = None /\ line = 0
      BY DEF Init
    <2>2. ASSUME NEW c \in Conns, \A d \in 1..c-1 : sent[d] # NotYet PROVE line = LineOf(c)
      <3>1. c = 1
        <4>1. c \in 1..MaxConns /\ MaxConns \in Nat
          BY ConnsAssumption DEF Conns
        <4>2. CASE c > 1
          <5>1. 1 \in 1..c-1 /\ 1 \in Conns
            BY <4>1, <4>2 DEF Conns
          <5>. QED  BY <1>7, <2>2, <5>1
        <4>. QED  BY <4>1, <4>2
      <3>2. 0 % (buffer_sz + 2) = 0
        BY BufferAssumption
      <3>. QED  BY <2>1, <3>1, <3>2 DEF LineOf
    <2>. QED  BY <1>7, <2>1, <2>2 DEF Turns
  <1>11. Kept
    BY <1>2, <1>7, Constants DEF Init, Kept
  <1>12. NobodyStuck
    <2>1. ~\E t \in Threads : pc[t] = "wait"
      BY <1>1
    <2>2. WaitHasChild
      BY <1>2, <1>3 DEF Init, WaitHasChild, Parents
    <2>. QED  BY <1>1, <2>1, <2>2 DEF NobodyStuck, ConsumersAwake, ProducerBlocked
  <1>13. OwnRequest
    BY <1>1 DEF OwnRequest
  <1>. QED  BY <1>5, <1>6, <1>8, <1>9, <1>10, <1>11, <1>12, <1>13 DEF Inv

\* A step that changes nothing.
LEMMA StutterInv ==
  ASSUME Inv, UNCHANGED vars
  PROVE  Inv'
  <1>1. UNCHANGED <<up, mutex, slots, main, local, pc, kids, spurious, sent>>
    BY DEF vars
  <1>2. TypeOK'
    BY <1>1 DEF Inv, TypeOK, slots, main, local, kids
  <1>3. Control' /\ OwnRequest' /\ \A t \in Threads : ThreadState(t)'
    BY <1>1 DEF Inv, Control, OwnRequest, ThreadState, local
  <1>4. NobodyStuck'
    BY <1>1 DEF Inv, NobodyStuck, ConsumersAwake, ProducerBlocked, WaitHasChild, slots, kids
  <1>. QED  BY <1>1, <1>2, <1>3, <1>4, Moves DEF local

\* Every step keeps the invariant.
LEMMA InvStep ==
  ASSUME Inv, [Next]_vars
  PROVE  Inv'
  <1>1. CASE \E c \in Conns : \E r \in Sends[c] : Accept(c, r)
    BY <1>1, AcceptInv, SendsAssumption DEF Conns
  <1>2. CASE MainStep
    BY <1>2, LoopInv, ReadInv, ProducerInv, ProducerUnlockInv, Constants DEF MainStep
  <1>3. ASSUME NEW t \in Threads, ThreadStep(t) PROVE Inv'
    BY <1>3, LoopInv, ConsumerInv, HandleInv, CloseInv, Constants DEF ThreadStep
  <1>4. CASE \E t \in All : WakeSpuriously(t)
    BY <1>4, LoopInv
  <1>5. CASE ChildExits \/ Exit
    BY <1>5, OutsideInv
  <1>6. CASE UNCHANGED vars
    BY <1>6, StutterInv
  <1>. QED  BY <1>1, <1>2, <1>3, <1>4, <1>5, <1>6 DEF Next

\* The inductive invariant of the web server.
THEOREM InvHolds == Spec => []Inv
  <1>1. Init => Inv
    BY InvInit
  <1>2. Inv /\ [Next]_vars => Inv'
    BY InvStep
  <1>. QED  BY <1>1, <1>2, PTL DEF Spec

\* Places, counted: an open connection is in one place only.
LEMMA InOnePlace ==
  ASSUME Inv
  PROVE  OwnedOnce
  <1>. SUFFICES ASSUME NEW c \in Conns
       PROVE  Cardinality({m \in {Main} : connfd = c /\ pc[m] # "unlock"})
                + Cardinality({k \in ValidSlots : buffer[k] = c})
                + Cardinality({t \in Threads : temp[t] = c}) = (IF c \in Open THEN 1 ELSE 0)
    BY DEF OwnedOnce
  <1>. DEFINE inMain == {m \in {Main} : connfd = c /\ pc[m] # "unlock"}
              inSlot == {k \in ValidSlots : buffer[k] = c}
              inHand == {t \in Threads : temp[t] = c}
  <1>1. c # None /\ (c \in Open <=> Live(c))
    <2>1. sent[c] \in Request \cup {Eof, Closed, NotYet}
      BY DEF Inv, TypeOK
    <2>. QED  BY <2>1, Constants DEF Open, Live
  <1>2. inMain = IF Held /\ connfd = c THEN {Main} ELSE {}
    <2>1. connfd = c => (Held <=> pc[Main] # "unlock")
      BY <1>1 DEF Inv, Control, MainState, Held
    <2>. QED  BY <2>1 DEF Held
  <1>3. Cardinality({}) = 0 /\ \A x : Cardinality({x}) = 1
    BY FS_EmptySet, FS_Singleton
  <1>4. \A k \in inSlot : inSlot = {k}
    BY DEF Inv, Places
  <1>5. \A t \in inHand : inHand = {t}
    BY <1>1 DEF Inv, Places
  <1>6. CASE Held /\ connfd = c
    <2>1. inMain = {Main} /\ inSlot = {} /\ inHand = {} /\ c \in Open
      BY <1>1, <1>2, <1>6 DEF Inv, Places
    <2>2. Cardinality(inMain) = 1 /\ Cardinality(inSlot) = 0 /\ Cardinality(inHand) = 0
      BY <1>3, <2>1
    <2>. QED  BY <2>1, <2>2
  <1>7. CASE ~(Held /\ connfd = c) /\ inSlot # {}
    <2>1. PICK k \in inSlot : inSlot = {k}
      BY <1>4, <1>7
    <2>2. inMain = {} /\ inHand = {} /\ c \in Open
      BY <1>1, <1>2, <1>7, <2>1 DEF Inv, Places
    <2>. QED  BY <1>3, <2>1, <2>2
  <1>8. CASE ~(Held /\ connfd = c) /\ inSlot = {} /\ inHand # {}
    <2>1. PICK t \in inHand : inHand = {t}
      BY <1>5, <1>8
    <2>2. inMain = {} /\ c \in Open
      BY <1>1, <1>2, <1>8, <2>1 DEF Inv, Places
    <2>3. Cardinality(inMain) = 0 /\ Cardinality(inSlot) = 0 /\ Cardinality(inHand) = 1
      BY <1>3, <1>8, <2>1, <2>2
    <2>. QED  BY <2>2, <2>3
  <1>9. CASE ~(Held /\ connfd = c) /\ inSlot = {} /\ inHand = {}
    <2>1. inMain = {} /\ c \notin Open
      BY <1>1, <1>2, <1>9 DEF Inv, Places
    <2>. QED  BY <1>3, <1>9, <2>1
  <1>. QED  BY <1>6, <1>7, <1>8, <1>9

\* No connection is lost, answered twice or closed twice on its way through the
\* buffer of cs537.c, and buff_count, which put and get change apart from the
\* marks in valid, is the number of the valid slots.
THEOREM NothingIsLost == Spec => []NothingLost
  <1>1. Inv => NothingLost
    BY InOnePlace DEF Inv, NothingLost
  <1>. QED  BY <1>1, InvHolds, PTL

\* producer and consumer signal one waiter only and still leave nobody asleep
\* beside work, and Wait(NULL) of request.c always has a child to wait for.
THEOREM NobodyIsStuck == Spec => []NobodyStuck
  <1>1. Inv => NobodyStuck
    BY DEF Inv
  <1>. QED  BY <1>1, InvHolds, PTL

\* The lines that main writes without the mutex hold the request of a
\* connection until it is parsed or their next user comes, buffer_sz + 2 later.
THEOREM OwnRequestAnswered == Spec => []OwnRequest
  <1>1. Inv => OwnRequest
    BY DEF Inv
  <1>. QED  BY <1>1, InvHolds, PTL

\* get takes a smallest connection out of the buffer.
LEMMA SmallestStep ==
  ASSUME Inv, [Next]_vars, NEW k \in Slots, valid[k] = 1, valid'[k] = 0
  PROVE  \/ \A j \in ValidSlots : size_file[k] <= size_file[j]
         \/ \E j \in ValidSlots : size_file[j] = -1
  <1>1. valid' # valid
    OBVIOUS
  <1>2. ~Producer
    <2>1. ASSUME Producer PROVE valid'[k] \in {1, valid[k]}
      BY <2>1 DEF Producer, put
    <2>. QED  BY <2>1
  <1>3. PICK t \in Threads : Consumer(t)
    BY <1>1, <1>2 DEF Next, vars, slots, Accept, MainStep, Lock, Wait, ReadStart, ReadEnd, ReadEof, ProducerUnlock,
       ThreadStep, ConsumerUnlock, Parse, Serve, ServeDynamic, Reap, Close, WakeSpuriously, ChildExits, Exit
  <1>4. k \in ValidSlots /\ TypeOK
    BY DEF ValidSlots, Inv
  <1>5. k = Chosen
    <2>1. valid' = [valid EXCEPT ![Chosen] = 0] /\ valid \in [Slots -> {0, 1}]
      BY <1>3, <1>4 DEF Consumer, get, TypeOK
    <2>. QED  BY <2>1
  <1>. QED  BY <1>4, <1>5, ChosenIs

\* The loop of get finds a connection of the smallest recorded size, unless a
\* recorded size is the -1 that marks "none yet".
THEOREM SmallestIsFirst == Spec => SmallestFirst
  <1>. DEFINE A == \A k \in Slots : valid[k] = 1 /\ valid'[k] = 0 =>
                     \/ \A j \in ValidSlots : size_file[k] <= size_file[j]
                     \/ \E j \in ValidSlots : size_file[j] = -1
  <1>1. Inv /\ [Next]_vars => A
    BY SmallestStep
  <1>. HIDE DEF A
  <1>2. Spec => [][A]_vars
    BY <1>1, InvHolds, PTL DEF Spec
  <1>. USE DEF A
  <1>. QED  BY <1>2 DEF SmallestFirst
=============================================================================
