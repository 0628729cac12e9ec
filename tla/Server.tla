-------------------------------- MODULE Server --------------------------------
(***************************************************************************)
(* The web server: the main thread of server.c accepts connections and     *)
(* reads their request lines, a bounded buffer (put and get of cs537.c)    *)
(* passes them, smallest file first, to thread_num consumers that answer   *)
(* them (request.c).  The request line itself is passed by pointer, in a   *)
(* ring of buffer_sz + 2 lines that main writes without the mutex.         *)
(*                                                                         *)
(* A request line is a member of Request.  Answer says what requestHandle  *)
(* does with it, and StatSize which values getfileinfo may leave in        *)
(* file_sz: the size of the file or, where stat fails and st_size is not   *)
(* initialised, anything.  Files do not change while the server runs.      *)
(* size_filename is stored by put and read by nobody.                      *)
(***************************************************************************)
EXTENDS Integers, FiniteSets

CONSTANTS
  Threads,     \* the consumers; thread_num is their number
  Main,        \* the producer
  buffer_sz,
  MaxConns,    \* bound on the connections clients make
  Sends,       \* what the client of each connection may send
  Request,     \* request lines
  Answer,      \* "static", "dynamic" or "error" for every request line
  StatSize,    \* the possible values of file_sz for every request line
  Eof,         \* a client that closes its end without sending a line
  Garbage,     \* uninitialised text, or a line that is being overwritten
  None,
  MaxSpurious, \* bound on the returns of pthread_cond_wait without a signal
  HangUp       \* may a read or write on a connection fail?

ASSUME BufferAssumption == buffer_sz \in Nat \ {0}
ASSUME ThreadsAssumption == IsFiniteSet(Threads) /\ Main \notin Threads
ASSUME ConnsAssumption == MaxConns \in Nat
ASSUME NoneAssumption == None \notin Threads \cup {Main} /\ None \notin Nat
ASSUME AnswerAssumption == Answer \in [Request -> {"static", "dynamic", "error"}]
ASSUME StatSizeAssumption ==
  StatSize \in [Request -> SUBSET Int] /\ \A r \in Request : StatSize[r] # {}
ASSUME SendsAssumption == \A c \in 1..MaxConns : Sends[c] \subseteq Request \cup {Eof}
ASSUME TextAssumption == {Eof, Garbage} \cap Request = {} /\ Eof # Garbage
ASSUME FaultAssumption == MaxSpurious \in Nat /\ HangUp \in BOOLEAN

VARIABLES
  up,          \* has no thread called exit?
  mutex,       \* its holder
  buff_count, valid, buffer, fileinfo, size_file,  \* struct server_t
  lines,       \* fileinfo_buffer
  line,        \* main's i
  connfd, file_sz,  \* locals of main
  temp, buff_ptr,   \* locals of each consumer
  req,         \* the request a consumer parsed
  pc,
  running, zombies, \* CGI processes that run, or have ended and not been reaped
  spurious,    \* counts spurious wakeups
  sent         \* what the client of each accepted connection sent

slots == <<buff_count, valid, buffer, fileinfo, size_file>>
main == <<lines, line, connfd, file_sz>>
local == <<temp, buff_ptr, req>>
kids == <<running, zombies>>
vars == <<up, mutex, slots, main, local, pc, kids, spurious, sent>>

Slots == 0..buffer_sz-1
Lines == 0..buffer_sz+1          \* filebuffer_size = buffer_sz + 2
All == Threads \cup {Main}
Conns == 1..MaxConns             \* connections, each with its own descriptor
Closed == "closed"
NotYet == "not yet"

ASSUME MarksAssumption == {Closed, NotYet} \cap (Request \cup {Eof}) = {}

TypeOK ==
  /\ up \in BOOLEAN
  /\ mutex \in All \cup {None}
  /\ buff_count \in 0..buffer_sz
  /\ valid \in [Slots -> {0, 1}]
  /\ buffer \in [Slots -> Conns \cup {None}]
  /\ fileinfo \in [Slots -> Lines]
  /\ size_file \in [Slots -> Int]
  /\ lines \in [Lines -> Request \cup {Garbage}]
  /\ line \in Lines
  /\ connfd \in Conns \cup {None}
  /\ file_sz \in Int
  /\ temp \in [Threads -> Conns \cup {None}]
  /\ buff_ptr \in [Threads -> Lines]
  /\ req \in [Threads -> Request \cup {None}]
  /\ pc \in [All -> {"accept", "read", "reading", "lock", "test", "wait", "unlock",
                     "parse", "reply", "child", "close"}]
  /\ running \in Nat /\ zombies \in Nat /\ spurious \in 0..MaxSpurious
  /\ sent \in [Conns -> Request \cup {Eof, Closed, NotYet}]

\* mutex, empty and fill are malloc'ed and never initialised: the memory is
\* assumed to hold zeroes, which is an unlocked mutex without waiters.
Init ==
  /\ up = TRUE
  /\ mutex = None
  /\ buff_count = 0
  /\ valid = [k \in Slots |-> 0]
  /\ buffer = [k \in Slots |-> None]
  /\ fileinfo = [k \in Slots |-> 0]
  /\ size_file = [k \in Slots |-> 0]
  /\ lines = [k \in Lines |-> Garbage]
  /\ line = 0
  /\ connfd = None
  /\ file_sz = 0
  /\ temp = [t \in Threads |-> None]
  /\ buff_ptr = [t \in Threads |-> 0]
  /\ req = [t \in Threads |-> None]
  /\ pc = [t \in All |-> IF t = Main THEN "accept" ELSE "lock"]
  /\ running = 0 /\ zombies = 0 /\ spurious = 0
  /\ sent = [c \in Conns |-> NotYet]

Go(t, b) == pc' = [pc EXCEPT ![t] = b]

\* pthread_cond_signal: t goes on to b; one of the waiters, if any, competes
\* for the mutex again and then repeats the test of its loop.
signal(t, b, waiters) ==
  LET asleep == {w \in waiters : pc[w] = "wait"} IN
  \/ /\ asleep = {}
     /\ Go(t, b)
  \/ \E w \in asleep : pc' = [pc EXCEPT ![t] = b, ![w] = "lock"]

\* pthread_mutex_lock, by a thread that enters producer or consumer or that
\* returns from pthread_cond_wait
Lock(t) ==
  /\ up /\ pc[t] = "lock"
  /\ mutex = None
  /\ mutex' = t
  /\ Go(t, "test")
  /\ UNCHANGED <<up, slots, main, local, kids, spurious, sent>>

\* pthread_cond_wait: gives the mutex up and sleeps
Wait(t) ==
  /\ up /\ pc[t] = "test"
  /\ buff_count = (IF t = Main THEN buffer_sz ELSE 0)
  /\ mutex' = None
  /\ Go(t, "wait")
  /\ UNCHANGED <<up, slots, main, local, kids, spurious, sent>>

\* POSIX allows pthread_cond_wait to return for no reason.
WakeSpuriously(t) ==
  /\ up /\ pc[t] = "wait"
  /\ spurious < MaxSpurious /\ spurious' = spurious + 1
  /\ Go(t, "lock")
  /\ UNCHANGED <<up, mutex, slots, main, local, kids, sent>>

-----------------------------------------------------------------------------
(* main *)

Accept(c, r) ==
  /\ up /\ pc[Main] = "accept"
  /\ sent[c] = NotYet /\ \A d \in 1..c-1 : sent[d] # NotYet
  /\ sent' = [sent EXCEPT ![c] = r]
  /\ connfd' = c
  /\ Go(Main, "read")
  /\ UNCHANGED <<up, mutex, slots, lines, line, file_sz, local, kids, spurious>>

\* the texts a reader may find in a line
Texts(l) == IF l = Garbage THEN Request ELSE {l}

\* Rio_readlineb: the first bytes of the request overwrite the line
ReadStart ==
  /\ up /\ pc[Main] = "read" /\ sent[connfd] # Eof
  /\ lines' = [lines EXCEPT ![line] = Garbage]
  /\ Go(Main, "reading")
  /\ UNCHANGED <<up, mutex, slots, line, connfd, file_sz, local, kids, spurious, sent>>

\* the line is complete; getfileinfo
ReadEnd ==
  /\ up /\ pc[Main] = "reading"
  /\ lines' = [lines EXCEPT ![line] = sent[connfd]]
  /\ file_sz' \in StatSize[sent[connfd]]
  /\ Go(Main, "lock")
  /\ UNCHANGED <<up, mutex, slots, line, connfd, local, kids, spurious, sent>>

\* the client has closed its end: the line keeps what it had, which
\* getfileinfo and requestHandle take for the request
ReadEof ==
  /\ up /\ pc[Main] = "read" /\ sent[connfd] = Eof
  /\ \E r \in Texts(lines[line]) : file_sz' \in StatSize[r]
  /\ Go(Main, "lock")
  /\ UNCHANGED <<up, mutex, slots, lines, line, connfd, local, kids, spurious, sent>>

\* Faulty: no break after the first free slot.
FirstFree_NoBreak == {k \in Slots : valid[k] = 0}

\* the slot put fills: the first one that is not valid, or none
FirstFree == {k \in Slots : valid[k] = 0 /\ \A j \in 0..k-1 : valid[j] # 0}

put(fd, l, sz) ==
  /\ valid' = [k \in Slots |-> IF k \in FirstFree THEN 1 ELSE valid[k]]
  /\ buffer' = [k \in Slots |-> IF k \in FirstFree THEN fd ELSE buffer[k]]
  /\ fileinfo' = [k \in Slots |-> IF k \in FirstFree THEN l ELSE fileinfo[k]]
  /\ size_file' = [k \in Slots |-> IF k \in FirstFree THEN sz ELSE size_file[k]]
  /\ buff_count' = buff_count + Cardinality(FirstFree)

\* Faulty: signals only when the buffer was empty.
Filled_EmptyOnly ==
  IF buff_count = 0 THEN signal(Main, "unlock", Threads) ELSE Go(Main, "unlock")

Filled == signal(Main, "unlock", Threads)

\* the body of producer after its loop
Producer ==
  /\ up /\ pc[Main] = "test" /\ buff_count # buffer_sz
  /\ put(connfd, line, file_sz)
  /\ Filled
  /\ UNCHANGED <<up, mutex, main, local, kids, spurious, sent>>

\* Faulty: as many lines as there are slots.
NextLine_Short == (line + 1) % buffer_sz
NextLine == (line + 1) % (buffer_sz + 2)

\* pthread_mutex_unlock, and the end of main's loop.  connfd and file_sz are
\* dead from here on.
ProducerUnlock ==
  /\ up /\ pc[Main] = "unlock"
  /\ mutex' = None
  /\ line' = NextLine
  /\ connfd' = None /\ file_sz' = 0
  /\ Go(Main, "accept")
  /\ UNCHANGED <<up, slots, lines, local, kids, spurious, sent>>

-----------------------------------------------------------------------------
(* consumer *)

\* The loop of get after its first n rounds: temp_val and temp_ind.  -1 stands
\* for "none yet", whatever the sizes are.
scan[n \in 0..buffer_sz] ==
  IF n = 0 THEN [val |-> -1, ind |-> 0]
  ELSE LET s == scan[n-1] IN
       IF valid[n-1] = 1 /\ (s.val = -1 \/ size_file[n-1] < s.val)
       THEN [val |-> size_file[n-1], ind |-> n-1]
       ELSE s

\* Faulty: takes the first valid slot, whatever its size.
Chosen_First == CHOOSE k \in Slots : valid[k] = 1 /\ \A j \in 0..k-1 : valid[j] = 0
Chosen == scan[buffer_sz].ind

get(t) ==
  /\ valid' = [valid EXCEPT ![Chosen] = 0]
  /\ buff_ptr' = [buff_ptr EXCEPT ![t] = fileinfo[Chosen]]
  /\ temp' = [temp EXCEPT ![t] = buffer[Chosen]]
  /\ buff_count' = buff_count - 1
  /\ UNCHANGED <<buffer, fileinfo, size_file, req>>

\* Faulty: the producer is not signalled.
Emptied_NoSignal(t) == Go(t, "unlock")
Emptied(t) == signal(t, "unlock", {Main})

\* the body of consumer after its loop
Consumer(t) ==
  /\ up /\ pc[t] = "test" /\ buff_count # 0
  /\ get(t)
  /\ Emptied(t)
  /\ UNCHANGED <<up, mutex, main, kids, spurious, sent>>

ConsumerUnlock(t) ==
  /\ up /\ pc[t] = "unlock"
  /\ mutex' = None
  /\ Go(t, "parse")
  /\ UNCHANGED <<up, slots, main, local, kids, spurious, sent>>

\* requestHandle: sscanf copies the request out of the line
Parse(t) ==
  /\ up /\ pc[t] = "parse"
  /\ \E r \in Texts(lines[buff_ptr[t]]) : req' = [req EXCEPT ![t] = r]
  /\ Go(t, "reply")
  /\ UNCHANGED <<up, mutex, slots, main, temp, buff_ptr, kids, spurious, sent>>

\* requestError or requestServeStatic
Serve(t) ==
  /\ up /\ pc[t] = "reply" /\ Answer[req[t]] # "dynamic"
  /\ Go(t, "close")
  /\ UNCHANGED <<up, mutex, slots, main, local, kids, spurious, sent>>

\* requestServeDynamic up to Fork
ServeDynamic(t) ==
  /\ up /\ pc[t] = "reply" /\ Answer[req[t]] = "dynamic"
  /\ running' = running + 1
  /\ Go(t, "child")
  /\ UNCHANGED <<up, mutex, slots, main, local, zombies, spurious, sent>>

\* The CGI program, or the child whose Execve failed, ends.
ChildExits ==
  /\ running > 0
  /\ running' = running - 1 /\ zombies' = zombies + 1
  /\ UNCHANGED <<up, mutex, slots, main, local, pc, spurious, sent>>

\* Wait(NULL) takes any child that has ended, another thread's too
Reap(t) ==
  /\ up /\ pc[t] = "child" /\ zombies > 0
  /\ zombies' = zombies - 1
  /\ Go(t, "close")
  /\ UNCHANGED <<up, mutex, slots, main, local, running, spurious, sent>>

\* Close, and consumer starts over; its locals are declared anew
Close(t) ==
  /\ up /\ pc[t] = "close"
  /\ sent' = [sent EXCEPT ![temp[t]] = Closed]
  /\ temp' = [temp EXCEPT ![t] = None]
  /\ buff_ptr' = [buff_ptr EXCEPT ![t] = 0]
  /\ req' = [req EXCEPT ![t] = None]
  /\ Go(t, "lock")
  /\ UNCHANGED <<up, mutex, slots, main, kids, spurious>>

\* Rio_readlineb or Rio_writen fails: unix_error ends the whole server
Exit ==
  /\ up /\ HangUp
  /\ pc[Main] \in {"read", "reading"} \/ \E t \in Threads : pc[t] = "reply"
  /\ up' = FALSE
  /\ UNCHANGED <<mutex, slots, main, local, pc, kids, spurious, sent>>

-----------------------------------------------------------------------------

MainStep ==
  \/ Lock(Main)
  \/ Wait(Main)
  \/ ReadStart
  \/ ReadEnd
  \/ ReadEof
  \/ Producer
  \/ ProducerUnlock

ThreadStep(t) ==
  \/ Lock(t)
  \/ Wait(t)
  \/ Consumer(t)
  \/ ConsumerUnlock(t)
  \/ Parse(t)
  \/ Serve(t)
  \/ ServeDynamic(t)
  \/ Reap(t)
  \/ Close(t)

Next ==
  \/ \E c \in Conns : \E r \in Sends[c] : Accept(c, r)
  \/ MainStep
  \/ \E t \in Threads : ThreadStep(t)
  \/ \E t \in All : WakeSpuriously(t)
  \/ ChildExits
  \/ Exit

Spec == Init /\ [][Next]_vars

\* Every thread runs; clients send their line or close, and CGI programs end.
\* Nothing is assumed about who gets the mutex.
Fairness ==
  /\ WF_vars(MainStep)
  /\ \A t \in Threads : WF_vars(ThreadStep(t))
  /\ WF_vars(ChildExits)

LiveSpec == Spec /\ Fairness

-----------------------------------------------------------------------------
(* Properties *)

ValidSlots == {k \in Slots : valid[k] = 1}
Open == {c \in Conns : sent[c] \notin {Closed, NotYet}}

\* buff_count, which decides who waits, is the number of valid slots: put
\* always finds a free slot and get always finds a connection.
CountMatches == buff_count = Cardinality(ValidSlots)

\* Every open connection is in one place only - main's hands, a slot or a
\* consumer's hands - and no closed one is anywhere: none is lost, answered
\* twice or closed twice.
OwnedOnce ==
  \A c \in Conns :
    LET inMain == {m \in {Main} : connfd = c /\ pc[m] # "unlock"}
        inSlot == {k \in ValidSlots : buffer[k] = c}
        inHand == {t \in Threads : temp[t] = c}
    IN Cardinality(inMain) + Cardinality(inSlot) + Cardinality(inHand)
         = (IF c \in Open THEN 1 ELSE 0)

\* Types, and no connection is lost between main and the consumers.
NothingLost == TypeOK /\ CountMatches /\ OwnedOnce

\* A wakeup is never lost although producer signals one consumer only: while a
\* consumer sleeps, as many others are on their way to get as connections wait.
ConsumersAwake ==
  (\E t \in Threads : pc[t] = "wait") =>
    buff_count <= Cardinality({t \in Threads : pc[t] \in {"lock", "test"}})

\* main sleeps in producer only while the buffer is full.
ProducerBlocked == pc[Main] = "wait" => buff_count = buffer_sz

\* Wait(NULL) never fails for want of a child, although it may take the child
\* of another thread.
WaitHasChild ==
  running + zombies = Cardinality({t \in Threads : pc[t] = "child"})

\* Nobody sleeps beside work, and whoever waits for a child will get one.
NobodyStuck == ConsumersAwake /\ ProducerBlocked /\ WaitHasChild

\* get takes a connection with the smallest recorded size, unless a recorded
\* size is the -1 that its loop uses for "none yet".
SmallestFirst ==
  [][\A k \in Slots : valid[k] = 1 /\ valid'[k] = 0 =>
       \/ \A j \in ValidSlots : size_file[k] <= size_file[j]
       \/ \E j \in ValidSlots : size_file[j] = -1]_vars

\* A consumer answers a connection with the request its client sent, unless the
\* connection whose turn it is to use the same line, buffer_sz + 2 later, has
\* been accepted meanwhile.  The code then does overwrite the line: nothing holds
\* main back while a consumer has not parsed its request.
OwnRequest ==
  \A t \in Threads : pc[t] = "reply" /\ sent[temp[t]] # Eof =>
    \/ req[t] = sent[temp[t]]
    \/ \E c \in Conns : c = temp[t] + buffer_sz + 2 /\ sent[c] # NotYet

\* While the server stays up, every accepted connection is answered and closed
\* in the end: the finitely many of a behaviour have been, from some moment on.
EveryConnectionServed == <>[](Open = {} \/ ~up)
=============================================================================
