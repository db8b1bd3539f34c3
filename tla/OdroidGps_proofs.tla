-------------------------- MODULE OdroidGps_proofs --------------------------
(***************************************************************************)
(* OdroidGps: the types and what the gps threads do to the reader are      *)
(* inductive; on top of them CallbackInv, and on top of that GpsInv.  With *)
(* them the properties below hold for every client, number of starts, size *)
(* of the socket, receiver and set of faults.                              *)
(***************************************************************************)
EXTENDS OdroidGps, SequenceTheorems, FiniteSetTheorems, WellFoundedInduction,
        TLAPS

\* Appending a command whose callback is stored keeps the commands in the
\* socket answerable.
LEMMA AppendKeeps ==
    ASSUME QueueInv, NEW cmd \in Commands,
           cmd \in Optional => cmd \in registered,
           queue' = Append(queue, cmd), UNCHANGED registered
    PROVE  QueueInv'
  <1>1. queue' \in Seq(Commands) /\ Len(queue') = Len(queue) + 1
    BY DEF QueueInv
  <1>2. ASSUME NEW i \in 1 .. Len(queue'), queue'[i] \in Optional
        PROVE  queue'[i] \in registered
    <2>1. CASE i <= Len(queue)
      BY <1>1, <1>2, <2>1 DEF QueueInv
    <2>2. CASE i = Len(queue) + 1
      BY <1>1, <1>2, <2>2 DEF QueueInv
    <2> QED BY <1>1, <2>1, <2>2 DEF QueueInv
  <1> QED BY <1>1, <1>2 DEF QueueInv

\* Taking the first command out keeps them too, and the command taken has its
\* callback.
LEMMA TailKeeps ==
    ASSUME QueueInv, queue # <<>>, queue' = Tail(queue), UNCHANGED registered
    PROVE  /\ QueueInv'
           /\ Head(queue) \in Optional => Head(queue) \in registered
  <1>1. /\ queue' \in Seq(Commands) /\ Len(queue') = Len(queue) - 1
        /\ Len(queue) \in Nat \ {0}
        /\ \A i \in 1 .. Len(queue') : queue'[i] = queue[i + 1]
    BY DEF QueueInv
  <1>2. ASSUME NEW i \in 1 .. Len(queue'), queue'[i] \in Optional
        PROVE  queue'[i] \in registered
    <2>1. i + 1 \in 1 .. Len(queue) /\ queue'[i] = queue[i + 1]
      BY <1>1
    <2> QED BY <1>2, <2>1 DEF QueueInv
  <1>3. Head(queue) = queue[1] /\ 1 \in 1 .. Len(queue)
    BY <1>1 DEF QueueInv
  <1> QED BY <1>1, <1>2, <1>3 DEF QueueInv

\* A write to the socket, of a status or of a command whose callback is
\* stored, by whichever thread.
LEMMA PushKeeps ==
    ASSUME QueueInv, NEW cmd \in Commands,
           cmd \in Optional => cmd \in registered,
           Push(cmd), UNCHANGED registered
    PROVE  QueueInv' /\ end0' = end0
  <1>1. end0' = end0
    BY DEF Push
  <1>2. CASE queue' = Append(queue, cmd)
    BY <1>1, <1>2, AppendKeeps
  <1>3. CASE UNCHANGED queue
    BY <1>1, <1>3 DEF QueueInv
  <1> QED BY <1>2, <1>3 DEF Push

\* What a step must leave alone for the last three parts of CallbackInv.
QuietVars == <<svc, main, registered, end0, late, interrupts, started, open,
               fd>>

LEMMA QuietKeeps ==
    ASSUME CallbackInv, UNCHANGED QuietVars, QueueInv'
    PROVE  CallbackInv'
  BY DEF CallbackInv, QuietVars, StoredInv, CallbackRegistered, LateInv,
         ClosedInv, NoDescriptorLost, CallbackPlaces

\* A step that leaves the socket's commands alone and forgets no callback.
LEMMA QueueStays ==
    ASSUME QueueInv, UNCHANGED queue, registered \subseteq registered'
    PROVE  QueueInv'
  BY DEF QueueInv

\* A write by the framework's thread, on its way from one place to another.
LEMMA ServicePushKeeps ==
    ASSUME CallbackInv, NEW from, NEW to, NEW cmd \in Commands,
           At(from, to), Push(cmd), cmd \in Optional => cmd \in registered,
           to \notin {"off", "pushSv", "pushNmea", "startPush"},
           from = "startPush" \/ to # "open",
           UNCHANGED <<main, registered, late, interrupts, started, open, fd>>
    PROVE  CallbackInv'
  <1>1. QueueInv' /\ end0' = end0
    BY PushKeeps DEF CallbackInv
  <1>2. StoredInv'
    BY DEF CallbackInv, StoredInv, CallbackRegistered, At
  <1>3. LateInv'
    BY <1>1 DEF CallbackInv, LateInv, CallbackPlaces, At
  <1>4. ClosedInv'
    BY DEF CallbackInv, ClosedInv, NoDescriptorLost, At
  <1> QED BY <1>1, <1>2, <1>3, <1>4 DEF CallbackInv

\* init: every callback is stored before its command is sent.
LEMMA InitKeeps ==
    ASSUME CallbackInv,
           InitSocket \/ CreateMainLoop \/ StoreLocation \/ StoreSv \/ PushSv
             \/ StoreNmea \/ PushNmea
    PROVE  CallbackInv'
  <1>1. CASE InitSocket
    <2>1. QueueInv'
      BY <1>1, QueueStays DEF CallbackInv, InitSocket, ctlVars
    <2> QED BY <1>1, <2>1
        DEF CallbackInv, StoredInv, CallbackRegistered, LateInv, ClosedInv,
            NoDescriptorLost, InitSocket, At, ctlVars, histVars
  <1>2. CASE CreateMainLoop
    <2>1. QueueInv'
      BY <1>2, QueueStays DEF CallbackInv, CreateMainLoop, ctlVars, sockVars
    <2> QED BY <1>2, <2>1
        DEF CallbackInv, StoredInv, CallbackRegistered, LateInv, ClosedInv,
            CallbackPlaces, NoDescriptorLost, CreateMainLoop, At, ctlVars,
            histVars, sockVars
  <1>3. CASE StoreLocation \/ StoreSv \/ StoreNmea
    <2>1. PICK cb : Store(cb)
      BY <1>3 DEF StoreLocation, StoreSv, StoreNmea
    <2>2. QueueInv'
      BY <2>1, QueueStays DEF CallbackInv, Store, sockVars
    <2>3. StoredInv'
      BY <1>3 DEF CallbackInv, StoredInv, CallbackRegistered, StoreLocation,
                  StoreSv, StoreNmea, Store, At
    <2>4. LateInv'
      BY <1>3
      DEF CallbackInv, LateInv, StoreLocation, StoreSv, StoreNmea, Store, At,
          sockVars, histVars
    <2>5. ClosedInv'
      BY <1>3 DEF CallbackInv, ClosedInv, NoDescriptorLost, StoreLocation,
                  StoreSv, StoreNmea, Store, At
    <2> QED BY <2>2, <2>3, <2>4, <2>5 DEF CallbackInv
  <1>4. CASE PushSv
    BY <1>4, ServicePushKeeps
    DEF PushSv, Commands, Optional, CallbackInv, StoredInv, At, ctlVars,
        histVars
  <1>5. CASE PushNmea
    BY <1>5, ServicePushKeeps
    DEF PushNmea, Commands, Optional, CallbackInv, StoredInv, At, ctlVars,
        histVars
  <1> QED BY <1>1, <1>2, <1>3, <1>4, <1>5

\* start and stop: a client that keeps to the rules opens a descriptor only
\* when it has none and gives up the one it has.
LEMMA StartStopKeeps ==
    ASSUME CallbackInv,
           Start \/ StartPush \/ OpenOk \/ OpenFails \/ OpenPush \/ Spawn
             \/ StopClose \/ StopPush
    PROVE  CallbackInv'
  <1>1. CASE Start
    <2>1. QueueInv'
      BY <1>1, QueueStays DEF CallbackInv, Start, sockVars
    <2> QED BY <1>1, <2>1
        DEF CallbackInv, StoredInv, CallbackRegistered, LateInv, ClosedInv,
            CallbackPlaces, NoDescriptorLost, Start, At, histVars, sockVars
  <1>2. CASE StartPush
    BY <1>2, ServicePushKeeps
    DEF StartPush, Commands, Optional, At, ctlVars, histVars
  <1>3. CASE OpenOk
    <2>1. QueueInv'
      BY <1>3, QueueStays DEF CallbackInv, OpenOk, sockVars
    <2>2. StoredInv' /\ LateInv'
      BY <1>3
      DEF CallbackInv, StoredInv, CallbackRegistered, LateInv, CallbackPlaces,
          OpenOk, At, sockVars
    <2>3. open' = open \cup {LowestFree} /\ fd' = LowestFree
      BY <1>3 DEF OpenOk
    <2>4. ClosedInv'
      BY <1>3, <2>3 DEF CallbackInv, ClosedInv, NoDescriptorLost, OpenOk, At
    <2> QED BY <2>1, <2>2, <2>4 DEF CallbackInv
  <1>4. CASE OpenFails
    <2>1. QueueInv'
      BY <1>4, QueueStays DEF CallbackInv, OpenFails, sockVars
    <2>2. StoredInv' /\ LateInv'
      BY <1>4, GpsFaultAssumption
      DEF CallbackInv, StoredInv, CallbackRegistered, LateInv, CallbackPlaces,
          OpenFails, At, Fault, sockVars, histVars
    <2>3. ClosedInv'
      BY <1>4 DEF CallbackInv, ClosedInv, NoDescriptorLost, OpenFails, At
    <2> QED BY <2>1, <2>2, <2>3 DEF CallbackInv
  <1>5. CASE OpenPush
    BY <1>5, ServicePushKeeps
    DEF OpenPush, Commands, Optional, At, ctlVars, histVars
  <1>6. CASE Spawn
    <2>1. QueueInv'
      BY <1>6, QueueStays DEF CallbackInv, Spawn, ctlVars, sockVars
    <2>2. StoredInv' /\ LateInv'
      BY <1>6
      DEF CallbackInv, StoredInv, CallbackRegistered, LateInv, CallbackPlaces,
          Spawn, At, Fault, ctlVars, sockVars, histVars
    <2>3. ClosedInv'
      BY <1>6 DEF CallbackInv, ClosedInv, NoDescriptorLost, Spawn, At, ctlVars
    <2> QED BY <2>1, <2>2, <2>3 DEF CallbackInv
  <1>7. CASE StopClose
    <2>1. QueueInv'
      BY <1>7, QueueStays DEF CallbackInv, StopClose, sockVars
    <2>2. StoredInv' /\ LateInv'
      BY <1>7
      DEF CallbackInv, StoredInv, CallbackRegistered, LateInv, CallbackPlaces,
          StopClose, At, sockVars, histVars
    <2>3. ClosedInv'
      BY <1>7 DEF CallbackInv, ClosedInv, NoDescriptorLost, StopClose, At
    <2> QED BY <2>1, <2>2, <2>3 DEF CallbackInv
  <1>8. CASE StopPush
    BY <1>8, ServicePushKeeps
    DEF StopPush, Commands, Optional, At, ctlVars, histVars
  <1> QED BY <1>1, <1>2, <1>3, <1>4, <1>5, <1>6, <1>7, <1>8

\* cleanup: no callback has been late before the end is closed, and what is
\* left in the socket is dropped.
LEMMA CleanupKeeps ==
    ASSUME CallbackInv, Cleanup \/ CleanupQuit \/ Close0 \/ Close1
    PROVE  CallbackInv'
  <1>1. CASE Cleanup
    <2>1. QueueInv'
      BY <1>1, QueueStays DEF CallbackInv, Cleanup, ctlVars, sockVars
    <2> QED BY <1>1, <2>1
        DEF CallbackInv, StoredInv, CallbackRegistered, LateInv, ClosedInv,
            CallbackPlaces, NoDescriptorLost, Cleanup, At, ctlVars, histVars,
            sockVars
  <1>2. CASE CleanupQuit
    BY <1>2, ServicePushKeeps
    DEF CleanupQuit, Commands, Optional, At, ctlVars, histVars
  <1>3. CASE Close0
    <2>1. QueueInv'
      BY <1>3, QueueStays DEF CallbackInv, Close0, ctlVars
    <2>2. LateInv'
      BY <1>3 DEF CallbackInv, LateInv, CallbackPlaces, Close0, At, histVars
    <2> QED BY <1>3, <2>1, <2>2
        DEF CallbackInv, StoredInv, CallbackRegistered, ClosedInv,
            NoDescriptorLost, Close0, At, ctlVars
  <1>4. CASE Close1
    <2>1. QueueInv'
      BY <1>4 DEF QueueInv, Close1
    <2> QED BY <1>4, <2>1
        DEF CallbackInv, StoredInv, CallbackRegistered, LateInv, ClosedInv,
            CallbackPlaces, NoDescriptorLost, Close1, At, ctlVars, histVars
  <1> QED BY <1>1, <1>2, <1>3, <1>4

\* The main loop: once the other end is closed it reads no command unless it
\* is interrupted.
LEMMA MainKeeps ==
    ASSUME CallbackInv, MainStep \/ MainInterrupted
    PROVE  CallbackInv'
  <1>1. CASE MainPoll
    <2>1. QueueInv'
      BY <1>1, QueueStays DEF CallbackInv, MainPoll, MainAt, ctlVars, sockVars
    <2> QED BY <1>1, <2>1
        DEF CallbackInv, StoredInv, CallbackRegistered, LateInv, ClosedInv,
            CallbackPlaces, NoDescriptorLost, MainPoll, MainAt, ctlVars,
            sockVars
  <1>2. CASE MainInterrupted
    <2>1. QueueInv'
      BY <1>2, QueueStays
      DEF CallbackInv, MainInterrupted, MainAt, ctlVars, sockVars
    <2>2. interrupts' = interrupts + 1 /\ UNCHANGED <<late, end0, svc>>
          /\ main = "poll" /\ main' \in {"poll", "read", "terminated"}
      BY <1>2 DEF MainInterrupted, Fault, MainAt, sockVars
    <2>3. LateInv'
      BY <2>2 DEF CallbackInv, LateInv
    <2> QED BY <1>2, <2>1, <2>2, <2>3
        DEF CallbackInv, StoredInv, CallbackRegistered, ClosedInv,
            NoDescriptorLost, MainInterrupted, MainAt, ctlVars
  <1>3. CASE MainRead
    <2>1. CASE queue = <<>> /\ MainAt("read", "poll") /\ UNCHANGED queue
      <3>1. QueueInv'
        BY <2>1, QueueStays DEF CallbackInv, MainAt, ctlVars
      <3> QED BY <1>3, <2>1, <3>1
          DEF CallbackInv, StoredInv, CallbackRegistered, LateInv, ClosedInv,
              CallbackPlaces, NoDescriptorLost, MainRead, MainAt, ctlVars
    <2>2. CASE queue # <<>> /\ MainAt("read", Head(queue))
               /\ queue' = Tail(queue)
      <3>1. /\ QueueInv'
            /\ Head(queue) \in Optional => Head(queue) \in registered
        BY <2>2, TailKeeps DEF CallbackInv, MainAt, ctlVars
      <3>2. StoredInv'
        BY <2>2, <3>1
        DEF CallbackInv, StoredInv, CallbackRegistered, Optional, MainAt,
            ctlVars
      <3>3. LateInv'
        BY <1>3, <2>2 DEF CallbackInv, LateInv, MainRead, MainAt
      <3>4. ClosedInv'
        BY <2>2 DEF CallbackInv, ClosedInv, NoDescriptorLost, MainAt, ctlVars
      <3> QED BY <3>1, <3>2, <3>3, <3>4 DEF CallbackInv
    <2> QED BY <1>3, <2>1, <2>2 DEF MainRead
  <1>4. CASE MainCallback
    <2>1. QueueInv'
      BY <1>4, QueueStays
      DEF CallbackInv, MainCallback, MainAt, ctlVars, sockVars
    <2>2. /\ main \in CallbackPlaces /\ main' = "poll"
          /\ UNCHANGED <<end0, svc, interrupts>>
          /\ late' = IF end0 THEN late ELSE late + 1
      BY <1>4 DEF MainCallback, MainAt, sockVars
    <2>3. LateInv'
      <3>1. CASE end0
        BY <2>2, <3>1 DEF CallbackInv, LateInv, CallbackPlaces
      <3>2. CASE ~end0
        <4>1. late <= interrupts /\ late \in Nat /\ interrupts \in Nat
          BY <2>2, <3>2 DEF CallbackInv, LateInv
        <4>2. svc # "off"
          BY <2>2 DEF CallbackInv, LateInv, CallbackPlaces
        <4> QED BY <2>2, <3>2, <4>1, <4>2 DEF LateInv, CallbackPlaces
      <3> QED BY <3>1, <3>2
    <2> QED BY <1>4, <2>1, <2>2, <2>3
        DEF CallbackInv, StoredInv, CallbackRegistered, ClosedInv,
            NoDescriptorLost, MainCallback, MainAt, ctlVars
  <1> QED BY <1>1, <1>2, <1>3, <1>4 DEF MainStep

\* A gps thread leaves alone what is not its own.
LEMMA ThreadLeaves ==
    ASSUME NEW t \in Threads, ThreadStep(t) \/ ThreadPolls(t)
    PROVE  /\ UNCHANGED <<svc, main, ctlVars, reported, late, interrupts>>
           /\ \E from, to : GpsAt(t, from, to)
  <1>1. \E from, to : GpsAt(t, from, to)
    <2>1. CASE RequestLocation(t) \/ RequestSv(t) \/ RequestNmea(t)
      BY <2>1 DEF RequestLocation, RequestSv, RequestNmea, Request, ParseAt
    <2>2. CASE ThreadStarts(t) \/ ThreadPolls(t) \/ ThreadReads(t)
                 \/ EmptyBuffer(t) \/ Parse(t) \/ FixIsDue(t) \/ SvsChange(t)
      BY <2>2 DEF ThreadStarts, ThreadPolls, ThreadReads, EmptyBuffer, Parse,
                  FixIsDue, SvsChange, ParseAt
    <2>3. CASE Count(t) \/ Load(t) \/ Add(t) \/ EmptyFix(t) \/ EmptySv(t)
                 \/ TestFix(t) \/ TestSv(t) \/ TestNmea(t)
      BY <2>3 DEF Count, Load, Add, EmptyFix, EmptySv, TestFix, TestSv,
                  TestNmea, Test, ParseAt
    <2> QED BY <2>1, <2>2, <2>3 DEF ThreadStep
  <1> QED BY <1>1 DEF GpsAt

\* It counts no fault but that the device hangs up.
LEMMA ThreadFaults ==
    ASSUME NEW t \in Threads, ThreadStep(t) \/ ThreadPolls(t)
    PROVE  UNCHANGED faults \/ Fault("hangup")
  <1>1. CASE RequestLocation(t) \/ RequestSv(t) \/ RequestNmea(t)
    BY <1>1 DEF RequestLocation, RequestSv, RequestNmea, Request, ParseAt
  <1>2. CASE ThreadStarts(t) \/ ThreadPolls(t) \/ ThreadReads(t)
               \/ EmptyBuffer(t) \/ Parse(t) \/ FixIsDue(t) \/ SvsChange(t)
    BY <1>2 DEF ThreadStarts, ThreadPolls, ThreadReads, EmptyBuffer, Parse,
                FixIsDue, SvsChange, ParseAt
  <1>3. CASE Count(t) \/ Load(t) \/ Add(t) \/ EmptyFix(t) \/ EmptySv(t)
               \/ TestFix(t) \/ TestSv(t) \/ TestNmea(t)
    BY <1>3 DEF Count, Load, Add, EmptyFix, EmptySv, TestFix, TestSv,
                TestNmea, Test, ParseAt
  <1> QED BY <1>1, <1>2, <1>3 DEF ThreadStep

\* Only three steps of a gps thread write to the socket.
LEMMA ThreadSends ==
    ASSUME NEW t \in Threads, ThreadStep(t) \/ ThreadPolls(t)
    PROVE  \/ UNCHANGED sockVars
           \/ RequestLocation(t) \/ RequestSv(t) \/ RequestNmea(t)
  BY DEF ThreadStep, ThreadPolls, ThreadStarts, ThreadReads, EmptyBuffer,
         Parse, FixIsDue, SvsChange, Count, Load, Add, EmptyFix, EmptySv,
         TestFix, TestSv, TestNmea, Test

\* A gps thread: it sends the command of a stored callback only, and touches
\* nothing else the invariant reads.
LEMMA ThreadKeeps ==
    ASSUME CallbackInv, SendInv, NEW t \in Threads,
           ThreadStep(t) \/ ThreadPolls(t)
    PROVE  CallbackInv'
  <1>1. UNCHANGED QuietVars
    <2>1. UNCHANGED end0
      BY ThreadSends
      DEF sockVars, RequestLocation, RequestSv, RequestNmea, Request, Push
    <2> QED BY <2>1, ThreadLeaves DEF QuietVars, ctlVars
  <1>2. ASSUME NEW cmd \in Commands, Push(cmd),
               cmd \in Optional => cmd \in registered
        PROVE  QueueInv'
    BY <1>1, <1>2, PushKeeps DEF CallbackInv, QuietVars
  <1>3. QueueInv'
    <2>1. CASE RequestLocation(t)
      BY <1>2, <2>1
      DEF RequestLocation, Request, ParseAt, GpsAt, SendInv, Commands
    <2>2. CASE RequestSv(t)
      BY <1>2, <2>2 DEF RequestSv, Request, ParseAt, GpsAt, SendInv, Commands
    <2>3. CASE RequestNmea(t)
      BY <1>2, <2>3 DEF RequestNmea, Request, ParseAt, GpsAt, SendInv, Commands
    <2>4. CASE UNCHANGED sockVars
      BY <1>1, <2>4, QueueStays DEF CallbackInv, QuietVars, sockVars
    <2> QED BY <2>1, <2>2, <2>3, <2>4, ThreadSends
  <1> QED BY <1>1, <1>3, QuietKeeps

----------------------------------------------------------------------------
(* The types, the descriptors and the moves of the gps threads.            *)

\* A set of natural numbers that is not empty has a least element.
LEMMA LeastExists ==
    ASSUME NEW S \in SUBSET Nat, S # {}
    PROVE  \E m \in S : \A n \in S : m <= n
  <1>1. IsWellFoundedOn(OpToRel(<, Nat), Nat)
    BY NatLessThanWellFounded
  <1>2. PICK m \in S : \A n \in S : ~(<<n, m>> \in OpToRel(<, Nat))
    BY <1>1, WFMin
  <1>3. ASSUME NEW n \in S PROVE m <= n
    <2>1. ~(n < m)
      BY <1>2 DEF OpToRel
    <2> QED BY <2>1
  <1> QED BY <1>3

\* The open descriptors are finitely many.
LEMMA OpenFinite ==
    ASSUME open \subseteq FdNumbers
    PROVE  /\ IsFiniteSet(open) /\ Cardinality(open) \in Nat
           /\ IsFiniteSet(FdNumbers) /\ Cardinality(FdNumbers) = MaxStarts + 1
  <1>1. IsFiniteSet(FdNumbers) /\ Cardinality(FdNumbers) = MaxStarts + 1
    BY FS_Interval, ClientAssumption DEF FdNumbers
  <1>2. IsFiniteSet(open)
    BY <1>1, FS_Subset
  <1> QED BY <1>1, <1>2, FS_CardinalityType

\* open(2) finds a number.
LEMMA NumberFree ==
    ASSUME GpsTypeOK, RoomInv, svc = "open"
    PROVE  LowestFree \in FdNumbers \ open
  <1>1. /\ open \subseteq FdNumbers /\ starts \in 0 .. MaxStarts
        /\ Cardinality(open) <= starts
    BY DEF GpsTypeOK, RoomInv
  <1>2. Cardinality(open) # Cardinality(FdNumbers)
    BY <1>1, OpenFinite, ClientAssumption
  <1>3. FdNumbers \ open # {}
    <2>1. CASE FdNumbers \ open = {}
      <3>1. open = FdNumbers
        BY <1>1, <2>1
      <3> QED BY <1>2, <3>1
    <2> QED BY <2>1
  <1>4. FdNumbers \ open \in SUBSET Nat
    BY ClientAssumption DEF FdNumbers
  <1>5. \E m \in FdNumbers \ open : \A n \in FdNumbers \ open : m <= n
    BY <1>3, <1>4, LeastExists
  <1> QED BY <1>5 DEF LowestFree

\* What a sentence does keeps the reader well formed.
LEMMA ReadKeepsType ==
    ASSUME ReaderTypeOK, NEW s \in Sentences, Read(s)
    PROVE  ReaderTypeOK'
  <1>1. CASE ReadGGA(s) \/ ReadGLL(s)
    BY <1>1 DEF ReadGGA, ReadGLL, ReaderTypeOK, FixFields, Fields
  <1>2. CASE ReadGSA(s)
    BY <1>2 DEF ReadGSA, ReaderTypeOK, FixFields, Fields
  <1>3. CASE ReadRMC(s)
    BY <1>3 DEF ReadRMC, UpdateDate, ReaderTypeOK, FixFields, Fields
  <1>4. CASE ReadGSV(s)
    <2>1. CASE Empties(s)
      <3>1. numSvs' = 0 /\ svChanged' = FALSE
        BY <1>4, <2>1 DEF ReadGSV
      <3>2. svChanged' \in BOOLEAN
        BY <3>1
      <3> QED BY <1>4, <3>1, <3>2 DEF ReadGSV, ReaderTypeOK
    <2>2. CASE ~Empties(s)
      BY <1>4, <2>2 DEF ReadGSV, ReaderTypeOK
    <2> QED BY <2>1, <2>2
  <1>5. CASE ReadOther(s)
    BY <1>5 DEF ReadOther, readerVars, ReaderTypeOK
  <1> QED BY <1>1, <1>2, <1>3, <1>4, <1>5 DEF Read

\* A write to the socket keeps it a sequence of commands within its bound.
LEMMA PushKeepsType ==
    ASSUME GpsTypeOK, NEW cmd \in Commands, Push(cmd)
    PROVE  /\ queue' \in Seq(Commands) /\ Len(queue') <= MaxQueue
           /\ end0' = end0 /\ end1' = end1
  <1>1. queue \in Seq(Commands) /\ Len(queue) \in Nat /\ MaxQueue \in Nat
    BY SocketAssumption DEF GpsTypeOK
  <1>2. CASE end0
    <2>1. Len(queue) < MaxQueue /\ queue' = Append(queue, cmd)
      BY <1>2 DEF Push
    <2>2. queue' \in Seq(Commands) /\ Len(queue') = Len(queue) + 1
      BY <1>1, <2>1
    <2> QED BY <1>1, <2>1, <2>2 DEF Push
  <1>3. CASE ~end0
    BY <1>1, <1>3 DEF Push, GpsTypeOK
  <1> QED BY <1>2, <1>3

\* The parts of the type invariant.
GpsPlaces == {"none", "created", "poll", "read", "exited"} \cup Parsing
ThreadTypes ==
    /\ gps \in [Threads -> GpsPlaces]
    /\ gpsFd \in [Threads -> FdNumbers \cup {-1}]
    /\ watched \subseteq Threads
    /\ todo \in [Threads -> 0 .. SentencesPerRead]
    /\ gsv \in [Threads -> Groups]
    /\ tail \in [Threads -> Nat]
    /\ crowded \in BOOLEAN
SocketTypes ==
    /\ end0 \in BOOLEAN /\ end1 \in BOOLEAN
    /\ queue \in Seq(Commands) /\ Len(queue) <= MaxQueue
ControlTypes ==
    /\ svc \in SvcPlaces
    /\ main \in {"none", "poll", "read", "quit", "terminated"}
               \cup CallbackPlaces
    /\ registered \subseteq Callbacks
    /\ status \in {"none", "ENGINE_ON", "SESSION_BEGIN", "SESSION_END"}
    /\ fd \in FdNumbers \cup {-1}
    /\ open \subseteq FdNumbers
    /\ starts \in 0 .. MaxStarts
    /\ faults \in 0 .. MaxFaults
    /\ reported \in {"none", "ENGINE_ON", "SESSION_BEGIN", "SESSION_END"}
    /\ started \in BOOLEAN
    /\ late \in Nat /\ interrupts \in Nat

\* The type invariant, by the variables that change together.
LEMMA TypesSplit ==
    GpsTypeOK <=> /\ ReaderTypeOK /\ ThreadTypes
                  /\ SocketTypes /\ ControlTypes
  BY DEF GpsTypeOK, ThreadTypes, SocketTypes, ControlTypes, GpsPlaces

\* The socket never holds more than MaxQueue commands.
LEMMA SocketTypesStep == GpsTypeOK /\ GpsNext => SocketTypes'
  <1> SUFFICES ASSUME GpsTypeOK, GpsNext PROVE SocketTypes'
    OBVIOUS
  <1>1. CASE UNCHANGED sockVars
    BY <1>1 DEF GpsTypeOK, sockVars, SocketTypes
  <1>2. ASSUME NEW cmd \in Commands, Push(cmd) PROVE SocketTypes'
    BY <1>2, PushKeepsType DEF SocketTypes, GpsTypeOK
  <1>3. CASE InitSocket \/ Close0 \/ Close1
    <2>1. queue' = queue \/ queue' = <<>>
      BY <1>3 DEF InitSocket, Close0, Close1
    <2>2. queue' \in Seq(Commands) /\ Len(queue') <= MaxQueue
      <3>1. Len(<<>>) = 0 /\ 0 <= MaxQueue /\ <<>> \in Seq(Commands)
        BY SocketAssumption
      <3> QED BY <2>1, <3>1 DEF GpsTypeOK
    <2>3. end0' \in BOOLEAN /\ end1' \in BOOLEAN
      BY <1>3 DEF InitSocket, Close0, Close1, GpsTypeOK
    <2> QED BY <2>2, <2>3 DEF SocketTypes
  <1>4. CASE MainRead
    <2>1. CASE queue # <<>> /\ queue' = Tail(queue)
      <3>1. queue' \in Seq(Commands) /\ Len(queue') <= Len(queue)
              /\ Len(queue) <= MaxQueue
        BY <2>1 DEF GpsTypeOK
      <3> QED BY <1>4, <3>1, SocketAssumption
              DEF MainRead, GpsTypeOK, SocketTypes
    <2> QED BY <1>4, <2>1 DEF MainRead, GpsTypeOK, SocketTypes
  <1>5. CASE PushSv \/ PushNmea \/ StartPush \/ OpenPush \/ StopPush
               \/ CleanupQuit
    BY <1>2, <1>5
    DEF PushSv, PushNmea, StartPush, OpenPush, StopPush, CleanupQuit, Commands
  <1>6. ASSUME NEW t \in Threads, ThreadStep(t) \/ ThreadPolls(t)
        PROVE  SocketTypes'
    <2>1. CASE RequestLocation(t) \/ RequestSv(t) \/ RequestNmea(t)
      BY <1>2, <2>1
      DEF RequestLocation, RequestSv, RequestNmea, Request, Commands
    <2> QED BY <1>1, <1>6, <2>1, ThreadSends
  <1>7. CASE Start \/ StopClose \/ Cleanup \/ CreateMainLoop
               \/ StoreLocation \/ StoreSv
              \/ StoreNmea \/ OpenOk \/ OpenFails \/ Spawn \/ MainPoll
              \/ MainCallback \/ MainInterrupted
    BY <1>1, <1>7
    DEF Start, StopClose, Cleanup, CreateMainLoop, StoreLocation, StoreSv,
        StoreNmea, Store, OpenOk, OpenFails, Spawn, MainPoll, MainCallback,
        MainInterrupted
  <1> QED BY <1>3, <1>4, <1>5, <1>6, <1>7 DEF GpsNext, ServiceStep, MainStep

\* The reader stays well formed.
LEMMA ReaderTypesStep == GpsTypeOK /\ GpsNext => ReaderTypeOK'
  <1> SUFFICES ASSUME GpsTypeOK, ReaderTypeOK, GpsNext PROVE ReaderTypeOK'
    BY DEF GpsTypeOK
  <1>1. CASE UNCHANGED readerVars
    BY <1>1 DEF ReaderTypeOK, readerVars
  <1>2. CASE PushSv
    BY <1>2 DEF PushSv, ReaderTypeOK
  <1>3. CASE InitSocket \/ Start \/ StopClose \/ Cleanup \/ MainStep
               \/ MainInterrupted
    BY <1>1, <1>3
    DEF InitSocket, Start, StopClose, Cleanup, MainStep, MainInterrupted,
        MainPoll, MainRead, MainCallback, MainAt
  <1>4. CASE ServiceStep
    BY <1>1, <1>2, <1>4
    DEF ServiceStep, CreateMainLoop, StoreLocation, StoreSv, StoreNmea, Store,
        PushNmea, StartPush, OpenOk, OpenFails, OpenPush, Spawn, StopPush,
        CleanupQuit, Close0, Close1
  <1>5. ASSUME NEW t \in Threads, ThreadStep(t) \/ ThreadPolls(t)
        PROVE ReaderTypeOK'
    <2>1. CASE Parse(t)
      BY <2>1, ReadKeepsType DEF Parse
    <2>2. CASE EmptyFix(t) \/ EmptySv(t) \/ FixIsDue(t) \/ SvsChange(t)
      BY <2>2 DEF EmptyFix, EmptySv, FixIsDue, SvsChange, ClearFix, ClearSv,
                  MarkDue, MarkChanged, ReaderTypeOK
    <2>3. CASE Add(t)
      <3>1. gsv[t].loaded \in Nat
        BY DEF GpsTypeOK, Groups
      <3> QED BY <2>3, <3>1 DEF Add, StoreSvs, ReaderTypeOK
    <2> QED BY <1>1, <1>5, <2>1, <2>2, <2>3
            DEF ThreadStep, ThreadPolls, ThreadStarts, ThreadReads, Count,
                Load, TestFix, TestSv, TestNmea, Test, RequestLocation,
                RequestSv, RequestNmea, Request, EmptyBuffer
  <1> QED BY <1>3, <1>4, <1>5 DEF GpsNext

\* The gps threads stay well formed: none counts below zero, since one that
\* parses has a sentence, and one that adds a satellite has one.
LEMMA ThreadTypesStep ==
    GpsTypeOK /\ TodoInv /\ ListInv /\ GpsNext => ThreadTypes'
  <1> SUFFICES ASSUME ReaderTypeOK, ThreadTypes, ControlTypes, TodoInv,
                      ListInv, GpsNext
               PROVE  ThreadTypes'
    BY TypesSplit
  <1>1. CASE UNCHANGED <<gpsVars, tail, crowded>>
    BY <1>1 DEF ThreadTypes, gpsVars
  <1>2. CASE InitSocket \/ Start \/ Cleanup \/ MainStep \/ MainInterrupted
    BY <1>1, <1>2
    DEF InitSocket, Start, Cleanup, MainStep, MainInterrupted, MainPoll,
        MainRead, MainCallback, MainAt, histVars
  <1>3. CASE OpenOk
    BY <1>3 DEF OpenOk, ThreadTypes, gpsVars
  <1>4. CASE Spawn
    BY <1>4 DEF Spawn, ThreadTypes, histVars, GpsPlaces
  <1>5. CASE StopClose
    BY <1>5 DEF StopClose, ThreadTypes, histVars
  <1>6. CASE ServiceStep
    BY <1>1, <1>3, <1>4, <1>6
    DEF ServiceStep, CreateMainLoop, StoreLocation, StoreSv, StoreNmea, Store,
        PushSv, PushNmea, StartPush, OpenFails, OpenPush, StopPush,
        CleanupQuit, Close0, Close1, histVars
  <1>7. ASSUME NEW t \in Threads, ThreadStep(t) \/ ThreadPolls(t)
        PROVE ThreadTypes'
    <2>1. ASSUME NEW from, NEW to \in GpsPlaces, GpsAt(t, from, to)
          PROVE  gps' \in [Threads -> GpsPlaces]
      BY <2>1 DEF GpsAt, ThreadTypes
    <2>2. CASE ThreadStarts(t)
      BY <2>1, <2>2 DEF ThreadStarts, ThreadTypes, ControlTypes, GpsPlaces
    <2>3. CASE ThreadPolls(t)
      BY <2>1, <2>3 DEF ThreadPolls, ThreadTypes, GpsPlaces
    <2>4. CASE ThreadReads(t)
      BY <2>1, <2>4 DEF ThreadReads, Alone, ThreadTypes, GpsPlaces, Parsing
    <2>5. CASE Parse(t)
      <3>1. PICK s \in Sentences :
                /\ ParseAt(t, "parse", Follows(s))
                /\ gsv' = [gsv EXCEPT ![t] =
                               IF Follows(s) = "count"
                               THEN [sats |-> s.sats, left |-> s.prns,
                                     last |-> s.num = s.total, loaded |-> 0]
                               ELSE NoGroup]
                /\ crowded' = (crowded /\ ~(Empties(s) /\ Alone(t)))
        BY <2>5 DEF Parse
      <3>2. Follows(s) \in GpsPlaces
        BY DEF Follows, GpsPlaces, Parsing, Counting
      <3>3. gsv' \in [Threads -> Groups]
        <4>1. s.sats \in Nat /\ s.prns \in 0 .. 4
          BY SentencesAreRecords DEF SentenceAssumption
        <4>2. [sats |-> s.sats, left |-> s.prns, last |-> s.num = s.total,
               loaded |-> 0] \in Groups
          BY <4>1 DEF Groups
        <4>3. NoGroup \in Groups
          BY DEF NoGroup, Groups
        <4> QED BY <3>1, <4>2, <4>3 DEF ThreadTypes
      <3>4. crowded' \in BOOLEAN
        BY <3>1 DEF ThreadTypes
      <3>5. tail' \in [Threads -> Nat]
        BY <2>5 DEF Parse, ThreadTypes
      <3>6. gps' \in [Threads -> GpsPlaces]
        BY <2>1, <3>1, <3>2 DEF ParseAt
      <3>7. UNCHANGED <<gpsFd, watched, todo>>
        BY <3>1 DEF ParseAt
      <3> QED BY <3>3, <3>4, <3>5, <3>6, <3>7 DEF ThreadTypes
    <2>6. CASE TestFix(t) \/ TestSv(t) \/ TestNmea(t) \/ FixIsDue(t)
                 \/ RequestLocation(t) \/ RequestSv(t) \/ RequestNmea(t)
                 \/ EmptyFix(t) \/ EmptySv(t) \/ SvsChange(t)
      BY <2>1, <2>6
      DEF TestFix, TestSv, TestNmea, Test, FixIsDue, RequestLocation,
          RequestSv, RequestNmea, Request, EmptyFix, EmptySv, SvsChange,
          ParseAt, ThreadTypes, GpsPlaces, Parsing
    <2>8. CASE Count(t)
      <3>1. NoGroup \in Groups
        BY DEF NoGroup, Groups
      <3> QED BY <2>1, <2>8, <3>1
              DEF Count, ParseAt, ThreadTypes, GpsPlaces, Parsing, Counting
    <2>9. CASE Load(t)
      <3>1. gsv' \in [Threads -> Groups]
        BY <2>9 DEF Load, ThreadTypes, Groups, ReaderTypeOK
      <3> QED BY <2>1, <2>9, <3>1
              DEF Load, ParseAt, ThreadTypes, GpsPlaces, Parsing, Counting
    <2>10. CASE Add(t)
      <3>1. gsv[t].left > 0 /\ gsv[t].left \in 0 .. 4
        BY <2>10 DEF Add, ParseAt, GpsAt, ListInv, ThreadTypes, Groups
      <3>2. gsv' \in [Threads -> Groups]
        BY <2>10, <3>1 DEF Add, ThreadTypes, Groups
      <3> QED BY <2>1, <2>10, <3>2
              DEF Add, ParseAt, ThreadTypes, GpsPlaces, Parsing, Counting
    <2>7. CASE EmptyBuffer(t)
      <3>1. todo[t] - 1 \in 0 .. SentencesPerRead
        BY <2>7, SocketAssumption
        DEF EmptyBuffer, GpsAt, TodoInv, Parsing, ThreadTypes
      <3> QED BY <2>1, <2>7, <3>1
              DEF EmptyBuffer, ThreadTypes, GpsPlaces, Parsing
    <2> QED BY <1>7, <2>2, <2>3, <2>4, <2>5, <2>6, <2>7, <2>8, <2>9, <2>10
            DEF ThreadStep
  <1> QED BY <1>2, <1>5, <1>6, <1>7 DEF GpsNext

\* The rest stays well formed: open(2) finds a number.
LEMMA ControlTypesStep == GpsTypeOK /\ RoomInv /\ GpsNext => ControlTypes'
  <1> SUFFICES ASSUME GpsTypeOK, ControlTypes, RoomInv, GpsNext
               PROVE  ControlTypes'
    BY TypesSplit
  <1>0. ASSUME NEW kind, Fault(kind) PROVE faults' \in 0 .. MaxFaults
    BY <1>0, GpsFaultAssumption DEF Fault, ControlTypes
  <1>1. CASE OpenOk
    <2>1. LowestFree \in FdNumbers
      BY <1>1, NumberFree DEF OpenOk, At
    <2> QED BY <1>1, <2>1 DEF OpenOk, At, ControlTypes, SvcPlaces
  <1>2. CASE Start
    BY <1>2, ClientAssumption DEF Start, At, ControlTypes, SvcPlaces, histVars
  <1>3. CASE OpenFails \/ Spawn
    BY <1>0, <1>3
    DEF OpenFails, Spawn, At, ControlTypes, SvcPlaces, histVars, ctlVars
  <1>4. CASE StopClose
    BY <1>4 DEF StopClose, At, ControlTypes, SvcPlaces, histVars
  <1>5. CASE InitSocket \/ Cleanup \/ CreateMainLoop \/ PushSv \/ PushNmea
               \/ StartPush
              \/ OpenPush \/ StopPush \/ CleanupQuit \/ Close0 \/ Close1
    BY <1>5
    DEF InitSocket, Cleanup, CreateMainLoop, PushSv, PushNmea, StartPush,
        OpenPush, StopPush, CleanupQuit, Close0, Close1, At, ControlTypes,
        SvcPlaces, histVars, ctlVars
  <1>6. CASE StoreLocation \/ StoreSv \/ StoreNmea
    BY <1>6
    DEF StoreLocation, StoreSv, StoreNmea, Store, At, ControlTypes, SvcPlaces,
        histVars
  <1>7. CASE MainPoll \/ MainRead
    <2>1. queue # <<>> => Head(queue) \in Commands
      BY DEF GpsTypeOK
    <2> QED BY <1>7, <2>1
            DEF MainPoll, MainRead, MainAt, ControlTypes, ctlVars, Commands,
                CallbackPlaces
  <1>8. CASE MainInterrupted
    BY <1>0, <1>8 DEF MainInterrupted, MainAt, ControlTypes, ctlVars
  <1>9. CASE MainCallback
    BY <1>9 DEF MainCallback, MainAt, ControlTypes, ctlVars
  <1>10. ASSUME NEW t \in Threads, ThreadStep(t) \/ ThreadPolls(t)
        PROVE ControlTypes'
    <2>1. UNCHANGED <<svc, main, ctlVars, reported, late, interrupts>>
      BY <1>10, ThreadLeaves
    <2>2. faults' \in 0 .. MaxFaults
      BY <1>0, <1>10, ThreadFaults DEF ControlTypes
    <2> QED BY <2>1, <2>2 DEF ControlTypes, ctlVars
  <1> QED BY <1>1, <1>2, <1>3, <1>4, <1>5, <1>6, <1>7, <1>8, <1>9, <1>10
          DEF GpsNext, ServiceStep, MainStep

\* What the steps other than start, open, stop and the gps threads' leave
\* alone, and where they do not lead.
Elsewhere ==
    /\ UNCHANGED <<gps, gpsFd, todo, gsv, open, fd, started, tail, starts,
                   numSvs, crowded>>
    /\ registered \subseteq registered'
    /\ svc' \in {"openPush", "spawn"} => svc \in {"openPush", "spawn"}
    /\ svc' \in {"startPush", "open"} <=> svc \in {"startPush", "open"}

\* Every step is one of those, or one of the five that matter to the
\* descriptors, or a gps thread's.
LEMMA StepSplit ==
    ASSUME [GpsNext]_vars
    PROVE  \/ Elsewhere
           \/ Start \/ OpenOk \/ OpenFails \/ Spawn \/ StopClose
           \/ \E t \in Threads : ThreadStep(t) \/ ThreadPolls(t)
  <1>1. CASE UNCHANGED vars
    BY <1>1 DEF vars, gpsVars, ctlVars, histVars, readerVars,
        Elsewhere
  <1>2. CASE InitSocket \/ Cleanup \/ MainStep \/ MainInterrupted
    BY <1>2
    DEF InitSocket, Cleanup, MainStep, MainInterrupted, MainPoll, MainRead,
        MainCallback, MainAt, At, gpsVars, ctlVars, histVars, readerVars,
        Elsewhere
  <1>3. CASE CreateMainLoop \/ StoreLocation \/ StoreSv \/ StoreNmea
               \/ PushSv \/ PushNmea
    BY <1>3
    DEF CreateMainLoop, StoreLocation, StoreSv, StoreNmea, Store, PushSv,
        PushNmea, At, gpsVars, ctlVars, histVars, readerVars,
        Elsewhere
  <1>4. CASE StartPush \/ OpenPush \/ StopPush \/ CleanupQuit \/ Close0
               \/ Close1
    BY <1>4 DEF StartPush, OpenPush, StopPush, CleanupQuit, Close0, Close1,
                At, gpsVars, ctlVars, histVars, readerVars,
        Elsewhere
  <1> QED BY <1>1, <1>2, <1>3, <1>4 DEF GpsNext, ServiceStep

\* What a gps thread's step does to its own place, sentences and count.
ThreadMove(t, from, to, n, k) ==
    /\ gps[t] = from /\ gps' = [gps EXCEPT ![t] = to]
    /\ todo' = [todo EXCEPT ![t] = n]
    /\ tail' = [tail EXCEPT ![t] = k]
AfterParse(t) == IF started THEN tail[t] ELSE tail[t] + 1
AfterReset(t) == IF todo[t] > 1 THEN "parse" ELSE "poll"

\* The steps of a thread after it has taken its sentence apart and before it
\* is done with it: none of them ends up outside, or at the start.
Within(t) ==
    \/ FixIsDue(t) \/ SvsChange(t) \/ Count(t) \/ Load(t) \/ Add(t)
    \/ TestFix(t) \/ RequestLocation(t) \/ EmptyFix(t)
    \/ TestSv(t) \/ RequestSv(t) \/ EmptySv(t)
    \/ TestNmea(t) \/ RequestNmea(t)

LEMMA WithinMoves ==
    ASSUME NEW t \in Threads, Within(t)
    PROVE  /\ UNCHANGED <<gpsFd, todo, tail, crowded>>
           /\ \E from, to \in Parsing \ {"parse"} : GpsAt(t, from, to)
  <1>1. CASE FixIsDue(t) \/ SvsChange(t) \/ EmptyFix(t) \/ EmptySv(t)
    BY <1>1 DEF FixIsDue, SvsChange, EmptyFix, EmptySv, ParseAt, Parsing
  <1>2. CASE Count(t) \/ Load(t) \/ Add(t)
    BY <1>2 DEF Count, Load, Add, ParseAt, Parsing, Counting
  <1>3. CASE TestFix(t) \/ TestSv(t) \/ TestNmea(t)
    BY <1>3 DEF TestFix, TestSv, TestNmea, Test, ParseAt, Parsing
  <1>4. CASE RequestLocation(t) \/ RequestSv(t) \/ RequestNmea(t)
    BY <1>4 DEF RequestLocation, RequestSv, RequestNmea, Request, ParseAt,
                Parsing
  <1> QED BY <1>1, <1>2, <1>3, <1>4 DEF Within

\* The moves a gps thread makes, with what each does to its sentences, its
\* count of those parsed since stop and its descriptor.
LEMMA ThreadMoves ==
    ASSUME GpsTypeOK, NEW t \in Threads, ThreadStep(t) \/ ThreadPolls(t)
    PROVE  \/ /\ ThreadMove(t, "created", "poll", todo[t], tail[t])
              /\ gpsFd' = [gpsFd EXCEPT ![t] = fd]
           \/ /\ UNCHANGED gpsFd
              /\ \/ \E to \in {"read", "exited"} :
                        ThreadMove(t, "poll", to, todo[t], tail[t])
                 \/ ThreadMove(t, "read", "poll", 0, tail[t])
                 \/ /\ gpsFd[t] \in open
                    /\ \E n \in 1 .. SentencesPerRead :
                           ThreadMove(t, "read", "parse", n, tail[t])
                 \/ \E to \in Parsing \ {"parse"} :
                        ThreadMove(t, "parse", to, todo[t], AfterParse(t))
                 \/ \E from, to \in Parsing \ {"parse"} :
                        ThreadMove(t, from, to, todo[t], tail[t])
                 \/ ThreadMove(t, "reset", AfterReset(t), todo[t] - 1, tail[t])
  <1>0. /\ todo = [todo EXCEPT ![t] = todo[t]]
        /\ tail = [tail EXCEPT ![t] = tail[t]]
    BY DEF GpsTypeOK
  <1>1. CASE ThreadStarts(t)
    BY <1>0, <1>1 DEF ThreadStarts, GpsAt, ThreadMove
  <1>2. CASE ThreadPolls(t)
    BY <1>0, <1>2 DEF ThreadPolls, GpsAt, ThreadMove
  <1>3. CASE ThreadReads(t)
    <2>1. PICK n \in 0 .. SentencesPerRead :
              /\ n > 0 => gpsFd[t] \in open
              /\ GpsAt(t, "read", IF n = 0 THEN "poll" ELSE "parse")
              /\ todo' = [todo EXCEPT ![t] = n]
      BY <1>3 DEF ThreadReads
    <2>2. n = 0 \/ n \in 1 .. SentencesPerRead
      BY SocketAssumption
    <2>3. UNCHANGED <<gpsFd, tail>>
      BY <1>3 DEF ThreadReads
    <2>4. CASE n = 0
      BY <1>0, <2>1, <2>3, <2>4 DEF GpsAt, ThreadMove
    <2>5. CASE n \in 1 .. SentencesPerRead
      <3>1. n > 0 /\ n # 0
        BY <2>5, SocketAssumption
      <3> QED BY <1>0, <2>1, <2>3, <2>5, <3>1 DEF GpsAt, ThreadMove
    <2> QED BY <2>2, <2>4, <2>5
  <1>4. CASE Parse(t)
    <2>1. PICK s \in Sentences : ParseAt(t, "parse", Follows(s))
      BY <1>4 DEF Parse
    <2>2. Follows(s) \in Parsing \ {"parse"}
      BY DEF Follows, Parsing, Counting
    <2>3. tail' = [tail EXCEPT ![t] = AfterParse(t)]
      BY <1>0, <1>4 DEF Parse, AfterParse
    <2> QED BY <1>0, <2>1, <2>2, <2>3 DEF ParseAt, GpsAt, ThreadMove
  <1>5. CASE Within(t)
    <2>1. UNCHANGED <<gpsFd, todo, tail>>
      BY <1>5, WithinMoves
    <2>2. \E from, to \in Parsing \ {"parse"} : GpsAt(t, from, to)
      BY <1>5, WithinMoves
    <2> QED BY <1>0, <2>1, <2>2 DEF GpsAt, ThreadMove
  <1>6. CASE EmptyBuffer(t)
    BY <1>0, <1>6 DEF EmptyBuffer, GpsAt, ThreadMove, AfterReset
  <1> QED BY <1>1, <1>2, <1>3, <1>4, <1>5, <1>6 DEF ThreadStep, Within

\* Every start opens one descriptor at most.
LEMMA RoomStep ==
    ASSUME GpsTypeOK, RoomInv, [GpsNext]_vars
    PROVE  RoomInv'
  <1>1. /\ open \subseteq FdNumbers /\ starts \in Nat
        /\ IsFiniteSet(open) /\ Cardinality(open) \in Nat
    BY OpenFinite, ClientAssumption DEF GpsTypeOK
  <1>2. CASE /\ UNCHANGED <<open, starts>>
             /\ \/ svc' \notin {"startPush", "open"}
                \/ svc \in {"startPush", "open"}
    BY <1>1, <1>2 DEF RoomInv
  <1>3. CASE Start
    BY <1>1, <1>3 DEF RoomInv, Start, At
  <1>4. CASE OpenOk
    <2>1. Cardinality(open) <= starts /\ svc' \notin {"startPush", "open"}
            /\ starts' = starts
          /\ open' = open \cup {LowestFree}
      BY <1>4 DEF RoomInv, OpenOk, At
    <2>2. Cardinality(open') <= Cardinality(open) + 1
      BY <1>1, <2>1, FS_AddElement
    <2>3. Cardinality(open') \in Nat
      BY <1>1, <2>1, FS_AddElement, FS_CardinalityType
    <2> QED BY <1>1, <2>1, <2>2, <2>3 DEF RoomInv
  <1>5. CASE OpenFails \/ Spawn
    <2>1. UNCHANGED <<open, starts>> /\ svc' \notin {"startPush", "open"}
      BY <1>5 DEF OpenFails, Spawn, At, ctlVars
    <2> QED BY <1>2, <2>1
  <1>6. CASE StopClose
    <2>1. open' \subseteq open
      BY <1>6 DEF StopClose
    <2>2. Cardinality(open') <= Cardinality(open) /\ Cardinality(open') \in Nat
      BY <1>1, <2>1, FS_Subset, FS_CardinalityType
    <2>3. starts' = starts /\ svc = "idle" /\ svc' = "stopPush"
      BY <1>6 DEF StopClose, At
    <2> QED BY <1>1, <2>2, <2>3 DEF RoomInv
  <1>7. ASSUME NEW t \in Threads, ThreadStep(t) \/ ThreadPolls(t)
        PROVE  RoomInv'
    BY <1>2, <1>7, ThreadLeaves DEF ctlVars
  <1>8. CASE Elsewhere
    BY <1>2, <1>8 DEF Elsewhere
  <1> QED BY <1>3, <1>4, <1>5, <1>6, <1>7, <1>8, StepSplit

\* A thread in the middle of a sentence has one to parse.
LEMMA TodoStep ==
    ASSUME GpsTypeOK, TodoInv, [GpsNext]_vars
    PROVE  TodoInv'
  <1>0. /\ gps \in [Threads -> GpsPlaces]
        /\ todo \in [Threads -> 0 .. SentencesPerRead]
        /\ tail \in [Threads -> Nat]
    BY DEF GpsTypeOK, GpsPlaces
  <1>1. CASE UNCHANGED <<gps, todo>>
    BY <1>1 DEF TodoInv
  <1>2. CASE Spawn
    <2>1. todo' = todo
            /\ \A t \in Threads : gps'[t] \in Parsing => gps[t] \in Parsing
      BY <1>0, <1>2 DEF Spawn, Parsing, Counting
    <2> QED BY <2>1 DEF TodoInv
  <1>3. ASSUME NEW t \in Threads, ThreadStep(t) \/ ThreadPolls(t)
        PROVE  TodoInv'
    <2>0. \A u \in Threads : gps[u] \in Parsing => todo[u] > 0
      BY DEF TodoInv
    <2> DEFINE Full(to, n) == to \in Parsing => n > 0
    <2>1. PICK from, to, n, k : ThreadMove(t, from, to, n, k) /\ Full(to, n)
      <3>1. /\ Full("poll", todo[t]) /\ Full("read", todo[t])
            /\ Full("exited", todo[t]) /\ Full("poll", 0)
        BY DEF Parsing, Counting
      <3>2. \A n \in 1 .. SentencesPerRead : Full("parse", n)
        BY SocketAssumption
      <3>3. ASSUME NEW from \in Parsing, NEW to, NEW k,
                   ThreadMove(t, from, to, todo[t], k)
            PROVE  Full(to, todo[t])
        BY <2>0, <3>3 DEF ThreadMove
      <3>4. Full(AfterReset(t), todo[t] - 1)
        <4>1. todo[t] \in Nat
          BY <1>0, SocketAssumption
        <4> QED BY <4>1 DEF AfterReset, Parsing, Counting
      <3>5. "parse" \in Parsing
        BY DEF Parsing
      <3> HIDE DEF Full
      <3> QED BY <1>3, <3>1, <3>2, <3>3, <3>4, <3>5, ThreadMoves
    <2>2. ASSUME NEW u \in Threads, gps'[u] \in Parsing PROVE todo'[u] > 0
      BY <1>0, <2>1, <2>2 DEF ThreadMove, TodoInv
    <2> QED BY <2>2 DEF TodoInv
  <1>4. CASE Start \/ OpenOk \/ OpenFails \/ StopClose
    BY <1>1, <1>4 DEF Start, OpenOk, OpenFails, StopClose, gpsVars
  <1>5. CASE Elsewhere
    BY <1>1, <1>5 DEF Elsewhere
  <1> QED BY <1>2, <1>3, <1>4, <1>5, StepSplit

\* A thread sends a command only after it has found the callback stored, and
\* callbacks are never forgotten.
LEMMA SendStep ==
    ASSUME GpsTypeOK, SendInv, [GpsNext]_vars
    PROVE  SendInv'
  <1>0. gps \in [Threads -> GpsPlaces]
    BY DEF GpsTypeOK, GpsPlaces
  <1>1. ASSUME registered \subseteq registered',
               \A t \in Threads : \/ gps'[t] = gps[t]
                                  \/ gps'[t] \notin {"sendFix", "sendSv",
                                                     "sendNmea"}
        PROVE  SendInv'
    BY <1>1 DEF SendInv
  <1>2. CASE Elsewhere
    BY <1>1, <1>2 DEF Elsewhere
  <1>3. CASE Start \/ OpenOk \/ OpenFails \/ StopClose
    BY <1>1, <1>3 DEF Start, OpenOk, OpenFails, StopClose, gpsVars
  <1>4. CASE Spawn
    <2>1. \A t \in Threads : gps'[t] = gps[t] \/ gps'[t] = "created"
      BY <1>0, <1>4 DEF Spawn
    <2> QED BY <1>1, <1>4, <2>1 DEF Spawn, ctlVars
  <1>5. ASSUME NEW t \in Threads, ThreadStep(t) \/ ThreadPolls(t)
        PROVE  SendInv'
    <2>1. UNCHANGED registered /\ \A u \in Threads \ {t} : gps'[u] = gps[u]
      BY <1>0, <1>5, ThreadLeaves DEF ctlVars, GpsAt
    <2>2. CASE TestFix(t)
      <3>1. gps'[t] \in {"sendFix", "sv"}
            /\ (gps'[t] = "sendFix" => "location" \in registered)
        BY <1>0, <2>2 DEF TestFix, Test, ParseAt, GpsAt
      <3> QED BY <2>1, <3>1 DEF SendInv
    <2>3. CASE TestSv(t)
      <3>1. gps'[t] \in {"sendSv", "nmea"}
            /\ (gps'[t] = "sendSv" => "sv" \in registered)
        BY <1>0, <2>3 DEF TestSv, Test, ParseAt, GpsAt
      <3> QED BY <2>1, <3>1 DEF SendInv
    <2>4. CASE TestNmea(t)
      <3>1. gps'[t] \in {"sendNmea", "reset"}
            /\ (gps'[t] = "sendNmea" => "nmea" \in registered)
        BY <1>0, <2>4 DEF TestNmea, Test, ParseAt, GpsAt
      <3> QED BY <2>1, <3>1 DEF SendInv
    <2>5. ASSUME NEW from, NEW to, GpsAt(t, from, to),
                 to \notin {"sendFix", "sendSv", "sendNmea"}
          PROVE  SendInv'
      BY <1>0, <1>1, <2>1, <2>5 DEF GpsAt
    <2>6. CASE ThreadStarts(t) \/ ThreadPolls(t) \/ ThreadReads(t)
                 \/ EmptyBuffer(t)
      BY <2>5, <2>6 DEF ThreadStarts, ThreadPolls, ThreadReads, EmptyBuffer
    <2>7. CASE Parse(t) \/ FixIsDue(t) \/ SvsChange(t)
      BY <2>5, <2>7 DEF Parse, Follows, FixIsDue, SvsChange, ParseAt
    <2>8. CASE Count(t) \/ Load(t) \/ Add(t) \/ EmptyFix(t) \/ EmptySv(t)
      BY <2>5, <2>8 DEF Count, Load, Add, EmptyFix, EmptySv, ParseAt
    <2>9. CASE RequestLocation(t) \/ RequestSv(t) \/ RequestNmea(t)
      BY <2>5, <2>9
      DEF RequestLocation, RequestSv, RequestNmea, Request, ParseAt
    <2> QED BY <1>5, <2>2, <2>3, <2>4, <2>6, <2>7, <2>8, <2>9 DEF ThreadStep
  <1> QED BY <1>2, <1>3, <1>4, <1>5, StepSplit

\* A step that leaves the list alone, and starts no thread on a sentence.
LEMMA ListStays ==
    ASSUME ListInv, UNCHANGED <<gsv, numSvs, crowded>>,
           \A u \in Threads : gps'[u] = gps[u] \/ gps'[u] \notin Parsing
    PROVE  ListInv'
  <1>1. \A u \in Threads : Alone(u) => Alone(u)'
    BY DEF Alone
  <1>2. \A u \in Threads : gps'[u] \in Counting => gps'[u] = gps[u]
    BY DEF Counting, Parsing
  <1>3. \A u \in Threads : gps'[u] \in {"load", "add"} => gps'[u] = gps[u]
    BY <1>2 DEF Counting
  <1> QED BY <1>1, <1>2, <1>3 DEF ListInv, SvListBounded

\* A step of a thread that is parsing and goes on to, when it is the only one
\* unless the reader is crowded: the parts of ListInv that concern it are
\* enough.
LEMMA ListMoves ==
    ASSUME GpsTypeOK, ListInv, NEW t \in Threads,
           NEW from, NEW to \in Parsing,
           GpsAt(t, from, to),
           ~crowded' => Alone(t),
           \A u \in Threads \ {t} : gsv'[u] = gsv[u],
           SvListBounded',
           to \in Counting => \E s \in Sentences : gsv'[t].sats = s.sats,
           to \in {"load", "add"} => gsv'[t].left > 0,
           ~crowded' /\ to = "load" => numSvs' < gsv'[t].sats,
           ~crowded' /\ to = "add" => gsv'[t].loaded < gsv'[t].sats
    PROVE  ListInv'
  <1>1. gps'[t] = to /\ \A u \in Threads \ {t} : gps'[u] = gps[u]
    BY DEF GpsAt, GpsTypeOK
  <1>2. ASSUME ~crowded', NEW u \in Threads, gps'[u] \in Parsing
        PROVE  u = t /\ Alone(u)'
    BY <1>1, <1>2 DEF Alone
  <1>3. \A u \in Threads : gps'[u] \in Counting =>
            \E s \in Sentences : gsv'[u].sats = s.sats
    BY <1>1 DEF ListInv
  <1>4. \A u \in Threads : gps'[u] \in {"load", "add"} => gsv'[u].left > 0
    BY <1>1 DEF ListInv
  <1>5. ASSUME ~crowded', NEW u \in Threads
        PROVE  /\ gps'[u] \in Parsing => Alone(u)'
               /\ gps'[u] = "load" => numSvs' < gsv'[u].sats
               /\ gps'[u] = "add" => gsv'[u].loaded < gsv'[u].sats
    <2>1. gps'[u] \in {"load", "add"} => gps'[u] \in Parsing
      BY DEF Parsing, Counting
    <2> QED BY <1>1, <1>2, <1>5, <2>1
  <1> QED BY <1>3, <1>4, <1>5 DEF ListInv

\* The list is kept within what a sentence announced by a thread that is alone,
\* and becomes so again when such a thread empties it.
LEMMA ListStep ==
    ASSUME GpsTypeOK, ListInv, [GpsNext]_vars
    PROVE  ListInv'
  <1>0. /\ gps \in [Threads -> GpsPlaces] /\ gsv \in [Threads -> Groups]
        /\ numSvs \in Nat /\ crowded \in BOOLEAN
    BY DEF GpsTypeOK, GpsPlaces, ReaderTypeOK
  <1>1. CASE UNCHANGED <<gps, gsv, numSvs, crowded>>
    BY <1>1, ListStays
  <1>2. CASE Spawn
    <2>1. \A u \in Threads : gps'[u] = gps[u] \/ gps'[u] = "created"
      BY <1>0, <1>2 DEF Spawn
    <2>2. "created" \notin Parsing
      BY DEF Parsing, Counting
    <2>3. UNCHANGED <<gsv, numSvs, crowded>>
      BY <1>2 DEF Spawn, histVars, readerVars
    <2> QED BY <2>1, <2>2, <2>3, ListStays
  <1>3. ASSUME NEW t \in Threads, ThreadStep(t) \/ ThreadPolls(t)
        PROVE  ListInv'
    <2>1. ASSUME NEW from, NEW to, GpsAt(t, from, to), to \notin Parsing,
                 UNCHANGED <<gsv, numSvs, crowded>>
          PROVE  ListInv'
      <3>1. \A u \in Threads : gps'[u] = gps[u] \/ gps'[u] \notin Parsing
        BY <1>0, <2>1 DEF GpsAt
      <3> QED BY <2>1, <3>1, ListStays
    <2>2. ASSUME NEW from \in Parsing, NEW to \in Parsing \ {"load", "add"},
                 GpsAt(t, from, to), UNCHANGED <<numSvs, crowded>>,
                 \A u \in Threads \ {t} : gsv'[u] = gsv[u],
                 to = "count" => from = "count" /\ UNCHANGED gsv
          PROVE  ListInv'
      <3>1. gps[t] = from /\ (~crowded => Alone(t))
        BY <2>2 DEF GpsAt, ListInv
      <3>2. SvListBounded'
        BY <2>2 DEF ListInv, SvListBounded
      <3>3. to \in Counting => \E s \in Sentences : gsv'[t].sats = s.sats
        BY <2>2, <3>1 DEF ListInv, Counting
      <3> QED BY <2>2, <3>1, <3>2, <3>3, ListMoves
    <2>3. CASE ThreadStarts(t) \/ ThreadPolls(t)
      BY <2>1, <2>3
      DEF ThreadStarts, ThreadPolls, Parsing, Counting, readerVars
    <2>4. CASE ThreadReads(t)
      <3>1. PICK n \in 0 .. SentencesPerRead :
                /\ GpsAt(t, "read", IF n = 0 THEN "poll" ELSE "parse")
                /\ crowded' = (crowded \/ (n > 0 /\ ~Alone(t)))
        BY <2>4 DEF ThreadReads
      <3>2. UNCHANGED <<gsv, numSvs>>
        BY <2>4 DEF ThreadReads, readerVars
      <3>3. CASE n = 0
        <4>1. UNCHANGED crowded /\ "poll" \notin Parsing
          BY <1>0, <3>1, <3>3 DEF Parsing, Counting
        <4> QED BY <2>1, <3>1, <3>2, <3>3, <4>1
      <3>4. CASE n # 0
        <4>1. n > 0 /\ GpsAt(t, "read", "parse")
          BY <3>1, <3>4, SocketAssumption
        <4>2. /\ ~crowded' => Alone(t)
              /\ SvListBounded'
          BY <3>1, <3>2, <4>1 DEF ListInv, SvListBounded
        <4>3. "parse" \in Parsing /\ "parse" \notin Counting
          BY DEF Parsing, Counting
        <4> QED BY <3>2, <4>1, <4>2, <4>3, ListMoves DEF Counting
      <3> QED BY <3>3, <3>4
    <2>5. CASE Parse(t)
      <3>1. PICK s \in Sentences :
                /\ GpsAt(t, "parse", Follows(s)) /\ Read(s)
                /\ gsv' = [gsv EXCEPT ![t] =
                               IF Follows(s) = "count"
                               THEN [sats |-> s.sats, left |-> s.prns,
                                     last |-> s.num = s.total, loaded |-> 0]
                               ELSE NoGroup]
                /\ crowded' = (crowded /\ ~(Empties(s) /\ Alone(t)))
        BY <2>5 DEF Parse, ParseAt
      <3>2. IF Empties(s) THEN numSvs' = 0 ELSE UNCHANGED numSvs
        BY <3>1 DEF Read, ReadGGA, ReadGSA, ReadGLL, ReadRMC, ReadGSV,
                    ReadOther, readerVars, Empties
      <3>3. ~crowded' => Alone(t)
        BY <3>1 DEF GpsAt, ListInv, Parsing
      <3>4. SvListBounded'
        BY <3>1, <3>2 DEF ListInv, SvListBounded
      <3>5. Follows(s) \in Parsing \ {"load", "add"}
        BY DEF Follows, Parsing, Counting
      <3>6. Follows(s) \in Counting =>
                \E r \in Sentences : gsv'[t].sats = r.sats
        BY <1>0, <3>1, <3>5 DEF Counting
      <3>7. \A u \in Threads \ {t} : gsv'[u] = gsv[u]
        BY <1>0, <3>1
      <3> QED BY <3>1, <3>3, <3>4, <3>5, <3>6, <3>7, ListMoves
    <2>6. CASE Count(t)
      <3>1. CASE gsv[t].left > 0 /\ numSvs < gsv[t].sats
        <4>1. GpsAt(t, "count", "load") /\ UNCHANGED <<gsv, numSvs, crowded>>
          BY <2>6, <3>1 DEF Count, ParseAt, readerVars
        <4>2. /\ "load" \in Parsing /\ gps[t] \in Parsing
              /\ gps[t] \in Counting
          BY <4>1 DEF GpsAt, Parsing, Counting
        <4>3. /\ ~crowded' => Alone(t)
              /\ SvListBounded'
              /\ \E s \in Sentences : gsv'[t].sats = s.sats
          BY <4>1, <4>2 DEF ListInv, SvListBounded
        <4> QED BY <3>1, <4>1, <4>2, <4>3, ListMoves
      <3>2. CASE ~(gsv[t].left > 0 /\ numSvs < gsv[t].sats)
        <4>1. PICK to \in {"changed", "fix"} : GpsAt(t, "count", to)
          BY <2>6, <3>2 DEF Count, ParseAt
        <4>2. UNCHANGED <<numSvs, crowded>>
              /\ gsv' = [gsv EXCEPT ![t] = NoGroup]
          BY <2>6, <3>2 DEF Count, readerVars
        <4>3. /\ "count" \in Parsing
              /\ to \in Parsing \ {"load", "add"} /\ to # "count"
          BY DEF Parsing, Counting
        <4> QED BY <1>0, <2>2, <4>1, <4>2, <4>3
      <3> QED BY <3>1, <3>2
    <2>7. CASE Load(t)
      <3>1. /\ GpsAt(t, "load", "add") /\ UNCHANGED <<numSvs, crowded>>
            /\ gsv' = [gsv EXCEPT ![t].loaded = numSvs]
        BY <2>7 DEF Load, ParseAt, readerVars
      <3>2. /\ gps[t] = "load" /\ "load" \in Parsing /\ "load" \in Counting
            /\ "add" \in Parsing
        BY <3>1 DEF GpsAt, Parsing, Counting
      <3>3. /\ gsv'[t].loaded = numSvs
            /\ gsv'[t].sats = gsv[t].sats /\ gsv'[t].left = gsv[t].left
            /\ \A u \in Threads \ {t} : gsv'[u] = gsv[u]
        BY <1>0, <3>1 DEF Groups
      <3>4. /\ ~crowded' => Alone(t) /\ numSvs < gsv[t].sats
            /\ SvListBounded' /\ gsv[t].left > 0
            /\ \E s \in Sentences : gsv'[t].sats = s.sats
        BY <3>1, <3>2, <3>3 DEF ListInv, SvListBounded
      <3> QED BY <3>1, <3>2, <3>3, <3>4, ListMoves
    <2>8. CASE Add(t)
      <3>1. /\ GpsAt(t, "add", "count") /\ UNCHANGED crowded
            /\ numSvs' = gsv[t].loaded + 1
            /\ gsv' = [gsv EXCEPT ![t].left = @ - 1]
        BY <2>8 DEF Add, ParseAt, StoreSvs
      <3>2. /\ gps[t] = "add" /\ "add" \in Parsing /\ "add" \in Counting
            /\ "count" \in Parsing
        BY <3>1 DEF GpsAt, Parsing, Counting
      <3>3. /\ gsv'[t].sats = gsv[t].sats
            /\ \A u \in Threads \ {t} : gsv'[u] = gsv[u]
        BY <1>0, <3>1 DEF Groups
      <3>4. PICK s \in Sentences : gsv[t].sats = s.sats
        BY <3>2 DEF ListInv
      <3>5. ~crowded' => Alone(t) /\ gsv[t].loaded < gsv[t].sats
        BY <3>1, <3>2 DEF ListInv
      <3>6. SvListBounded'
        <4>1. gsv[t].loaded \in Nat /\ gsv[t].sats \in Nat
          BY <1>0 DEF Groups
        <4>2. ~crowded' => numSvs' <= s.sats
          BY <3>1, <3>4, <3>5, <4>1
        <4> QED BY <4>2 DEF SvListBounded
      <3> QED BY <3>1, <3>2, <3>3, <3>4, <3>5, <3>6, ListMoves
    <2>9. CASE FixIsDue(t) \/ SvsChange(t) \/ EmptyFix(t) \/ EmptySv(t)
      BY <2>2, <2>9
      DEF FixIsDue, SvsChange, EmptyFix, EmptySv, MarkDue, MarkChanged,
          ClearFix, ClearSv, ParseAt, Parsing, Counting
    <2>10. CASE TestFix(t) \/ TestSv(t) \/ TestNmea(t)
      BY <2>2, <2>10 DEF TestFix, TestSv, TestNmea, Test, ParseAt, Parsing,
                         Counting, readerVars
    <2>11. CASE RequestLocation(t) \/ RequestSv(t) \/ RequestNmea(t)
      BY <2>2, <2>11 DEF RequestLocation, RequestSv, RequestNmea, Request,
                         ParseAt, Parsing, Counting, readerVars
    <2>12. CASE EmptyBuffer(t)
      <3>1. UNCHANGED <<gsv, numSvs, crowded>>
            /\ \/ GpsAt(t, "reset", "parse")
               \/ GpsAt(t, "reset", "poll")
        BY <2>12 DEF EmptyBuffer, readerVars
      <3>2. {"reset", "parse"} \subseteq Parsing \ {"load", "add", "count"}
            /\ "poll" \notin Parsing
        BY DEF Parsing, Counting
      <3> QED BY <2>1, <2>2, <3>1, <3>2
    <2> QED BY <1>3, <2>3, <2>4, <2>5, <2>6, <2>7, <2>8, <2>9, <2>10, <2>11,
               <2>12 DEF ThreadStep
  <1>4. CASE Start \/ OpenOk \/ OpenFails \/ StopClose
    BY <1>1, <1>4 DEF Start, OpenOk, OpenFails, StopClose, gpsVars, histVars,
                      readerVars
  <1>5. CASE Elsewhere
    BY <1>1, <1>5 DEF Elsewhere
  <1> QED BY <1>2, <1>3, <1>4, <1>5, StepSplit

----------------------------------------------------------------------------
(* The types, and what the gps threads do to the reader.                   *)

ReaderInv == GpsTypeOK /\ SendInv /\ RoomInv /\ TodoInv /\ ListInv

\* Before init all of it holds.
LEMMA ReaderInvInit == GpsInit => ReaderInv
  <1> SUFFICES ASSUME GpsInit PROVE ReaderInv
    OBVIOUS
  <1>1. /\ 0 \in FdNumbers /\ 0 \in 0 .. SentencesPerRead
          /\ 0 \in 0 .. MaxStarts
        /\ 0 \in 0 .. MaxFaults
    BY ClientAssumption, SocketAssumption, GpsFaultAssumption DEF FdNumbers
  <1>2. ReaderTypeOK
    BY DEF GpsInit, ReaderInit, ReaderTypeOK, FixFields
  <1>3. queue \in Seq(Commands) /\ Len(queue) <= MaxQueue
    <2>1. queue = <<>> /\ Len(<<>>) = 0 /\ <<>> \in Seq(Commands)
            /\ 0 <= MaxQueue
      BY SocketAssumption DEF GpsInit
    <2> QED BY <2>1
  <1>4. GpsTypeOK
    <2>1. NoGroup \in Groups
      BY DEF NoGroup, Groups
    <2> QED BY <1>1, <1>2, <1>3, <2>1 DEF GpsInit, GpsTypeOK, SvcPlaces, STDIN
  <1>5. RoomInv
    <2>1. Cardinality({STDIN}) = 1
      BY FS_Singleton
    <2> QED BY <2>1 DEF GpsInit, RoomInv
  <1>6. TodoInv /\ SendInv
    BY DEF GpsInit, TodoInv, SendInv, Parsing, Counting
  <1>7. ListInv
    BY DEF GpsInit, ReaderInit, ListInv, SvListBounded, Parsing, Counting
  <1> QED BY <1>4, <1>5, <1>6, <1>7 DEF ReaderInv

\* The first part of the invariant: the types, and the threads in the reader.
LEMMA ReaderInvHolds == GpsSpec => []ReaderInv
  <1>1. ReaderInv /\ [GpsNext]_vars => ReaderInv'
    <2> SUFFICES ASSUME ReaderInv, [GpsNext]_vars PROVE ReaderInv'
      OBVIOUS
    <2>0. GpsTypeOK /\ SendInv /\ RoomInv /\ TodoInv /\ ListInv
      BY DEF ReaderInv
    <2>1. GpsTypeOK'
      <3>1. CASE GpsNext
        <4>1. ReaderTypeOK' /\ ThreadTypes' /\ SocketTypes' /\ ControlTypes'
          BY <2>0, <3>1, SocketTypesStep, ReaderTypesStep, ThreadTypesStep,
             ControlTypesStep
        <4> QED BY <4>1
            DEF GpsTypeOK, ThreadTypes, SocketTypes, ControlTypes, GpsPlaces
      <3>2. CASE UNCHANGED vars
        BY <2>0, <3>2
        DEF vars, readerVars, gpsVars, sockVars, ctlVars, histVars, GpsTypeOK,
            ReaderTypeOK
      <3> QED BY <3>1, <3>2
    <2> QED BY <2>0, <2>1, RoomStep, TodoStep, SendStep, ListStep
            DEF ReaderInv
  <1> QED BY <1>1, ReaderInvInit, PTL DEF GpsSpec

\* The callbacks' part of the invariant holds in every state, whoever calls
\* what in whatever order.
LEMMA CallbackInvHolds == GpsSpec => []CallbackInv
  <1>1. GpsInit => CallbackInv
    <2> SUFFICES ASSUME GpsInit PROVE CallbackInv
      OBVIOUS
    <2>1. queue \in Seq(Commands) /\ 1 .. Len(queue) = {}
      BY DEF GpsInit
    <2>2. QueueInv
      BY <2>1 DEF QueueInv
    <2>3. StoredInv /\ LateInv
      BY DEF GpsInit, StoredInv, CallbackRegistered, LateInv, CallbackPlaces
    <2>4. ClosedInv
      BY DEF GpsInit, ClosedInv, NoDescriptorLost
    <2> QED BY <2>2, <2>3, <2>4 DEF CallbackInv
  <1>2. CallbackInv /\ SendInv /\ [GpsNext]_vars => CallbackInv'
    <2> SUFFICES ASSUME CallbackInv, SendInv, [GpsNext]_vars
                 PROVE  CallbackInv'
      OBVIOUS
    <2>1. CASE GpsNext
      BY <2>1, InitKeeps, StartStopKeeps, CleanupKeeps, MainKeeps, ThreadKeeps
      DEF GpsNext, ServiceStep
    <2>2. CASE UNCHANGED vars
      <3>1. QueueInv'
        BY <2>2, QueueStays DEF CallbackInv, vars, ctlVars, sockVars
      <3> QED BY <2>2, <3>1, QuietKeeps
          DEF vars, QuietVars, ctlVars, sockVars, histVars
    <2> QED BY <2>1, <2>2
  <1>3. ReaderInv => SendInv
    BY DEF ReaderInv
  <1> QED BY <1>1, <1>2, <1>3, ReaderInvHolds, PTL DEF GpsSpec

\* The main loop never calls a callback that is not there.
THEOREM CallbackRegisteredHolds == GpsSpec => []CallbackRegistered
  <1>1. CallbackInv => CallbackRegistered
    BY DEF CallbackInv, StoredInv
  <1> QED BY <1>1, CallbackInvHolds, PTL

\* After cleanup has closed its end of the socket, one more callback at most,
\* and one for every interruption.
THEOREM OneLateCallbackHolds == GpsSpec => []OneLateCallback
  <1>1. CallbackInv => OneLateCallback
    BY DEF CallbackInv, LateInv, OneLateCallback
  <1> QED BY <1>1, CallbackInvHolds, PTL

\* A client that starts and stops alternately loses no descriptor, whatever
\* fails and however many sessions there are.
THEOREM NoDescriptorLostHolds ==
    ASSUME Disciplined
    PROVE  GpsSpec => []NoDescriptorLost
  <1>1. CallbackInv => NoDescriptorLost
    BY DEF CallbackInv, ClosedInv
  <1> QED BY <1>1, CallbackInvHolds, PTL

----------------------------------------------------------------------------
(* The device, and what is parsed after stop.                              *)

\* No thread and no stop takes the descriptor 0 of the process for the device.
LEMMA DeviceStep ==
    ASSUME GpsTypeOK, RoomInv, DeviceInv, [GpsNext]_vars
    PROVE  DeviceInv'
  <1> SUFFICES ASSUME Disciplined PROVE DeviceInv'
    BY DEF DeviceInv
  <1>0. /\ gps \in [Threads -> GpsPlaces]
        /\ gpsFd \in [Threads -> FdNumbers \cup {-1}]
    BY DEF GpsTypeOK, GpsPlaces
  <1>1. /\ STDIN \in open
        /\ fd = STDIN => /\ \A t \in Threads : gps[t] = "none"
                         /\ svc \notin {"openPush", "spawn"}
                         /\ started => svc \in {"startPush", "open"}
        /\ \A t \in Threads :
               gps[t] \notin {"none", "created"} => gpsFd[t] # STDIN
    BY DEF DeviceInv
  <1>2. CASE Elsewhere
    BY <1>1, <1>2 DEF Elsewhere, DeviceInv
  <1>3. CASE Start
    BY <1>1, <1>3 DEF Start, At, gpsVars, DeviceInv
  <1>4. CASE OpenOk
    <2>1. LowestFree # STDIN
      BY <1>1, <1>4, NumberFree DEF OpenOk, At
    <2> QED BY <1>1, <1>4, <2>1 DEF OpenOk, gpsVars, DeviceInv
  <1>5. CASE OpenFails
    BY <1>1, <1>5 DEF OpenFails, gpsVars, DeviceInv, STDIN
  <1>6. CASE Spawn
    <2>1. fd # STDIN /\ UNCHANGED <<open, fd, gpsFd>>
      BY <1>1, <1>6 DEF Spawn, At, ctlVars
    <2>2. \A t \in Threads : gps'[t] = gps[t] \/ gps'[t] = "created"
      BY <1>0, <1>6 DEF Spawn
    <2> QED BY <1>1, <2>1, <2>2 DEF DeviceInv
  <1>7. CASE StopClose
    <2>1. fd # STDIN /\ UNCHANGED <<gps, gpsFd>> /\ fd' = -1
            /\ open' = open \ {fd}
      BY <1>1, <1>7 DEF StopClose, At
    <2> QED BY <1>1, <2>1 DEF DeviceInv, STDIN
  <1>8. ASSUME NEW t \in Threads, ThreadStep(t) \/ ThreadPolls(t)
        PROVE  DeviceInv'
    <2>1. UNCHANGED <<svc, open, fd, started, starts>>
      BY <1>8, ThreadLeaves DEF ctlVars
    <2>2. PICK from, to, n, k : ThreadMove(t, from, to, n, k)
              /\ \/ from = "created" /\ gpsFd' = [gpsFd EXCEPT ![t] = fd]
                 \/ from \notin {"none", "created"} /\ UNCHANGED gpsFd
      BY <1>8, ThreadMoves DEF Parsing, Counting
    <2>3. fd # STDIN
      BY <1>1, <2>2 DEF ThreadMove
    <2>4. \A u \in Threads :
              gps'[u] \notin {"none", "created"} => gpsFd'[u] # STDIN
      BY <1>0, <1>1, <2>2, <2>3 DEF ThreadMove
    <2> QED BY <1>1, <2>1, <2>3, <2>4 DEF DeviceInv
  <1> QED BY <1>2, <1>3, <1>4, <1>5, <1>6, <1>7, <1>8, StepSplit

\* What a thread still has to parse came with one read.
LEMMA LeftBounds ==
    ASSUME GpsTypeOK, TodoInv, NEW t \in Threads
    PROVE  Left(t) \in Nat /\ Left(t) <= SentencesPerRead
  <1>1. todo[t] \in Nat /\ todo[t] <= SentencesPerRead
          /\ SentencesPerRead \in Nat
    BY SocketAssumption DEF GpsTypeOK
  <1>2. gps[t] \in Parsing => todo[t] > 0
    BY DEF TodoInv
  <1> QED BY <1>1, <1>2 DEF Left, Parsing, Counting

\* While stopped a thread parses only what it had read: no read finds its
\* descriptor open.
LEMMA QuietStep ==
    ASSUME GpsTypeOK, ClosedInv, TodoInv, DeviceInv, QuietInv, [GpsNext]_vars
    PROVE  QuietInv'
  <1> SUFFICES ASSUME Disciplined PROVE QuietInv'
    BY DEF QuietInv
  <1>0. /\ gps \in [Threads -> GpsPlaces] /\ SentencesPerRead \in Nat
        /\ todo \in [Threads -> 0 .. SentencesPerRead]
        /\ tail \in [Threads -> Nat]
    BY SocketAssumption DEF GpsTypeOK, GpsPlaces
  <1>1. /\ open \subseteq {STDIN} \/ \A t \in Threads : tail[t] = 0
        /\ \A t \in Threads : tail[t] + Left(t) <= SentencesPerRead
    BY DEF QuietInv
  <1>2. CASE UNCHANGED <<gps, todo, open, tail>>
    BY <1>1, <1>2 DEF QuietInv, Left
  <1>3. CASE Elsewhere
    BY <1>2, <1>3 DEF Elsewhere
  <1>4. CASE Start \/ OpenFails
    BY <1>2, <1>4 DEF Start, OpenFails, gpsVars, histVars
  <1>5. CASE OpenOk
    <2>1. UNCHANGED <<gps, todo>> /\ tail' = [t \in Threads |-> 0]
      BY <1>5 DEF OpenOk, gpsVars
    <2>2. \A t \in Threads : tail'[t] = 0 /\ Left(t)' = Left(t)
      BY <2>1 DEF Left
    <2>3. \A t \in Threads : tail'[t] + Left(t)' <= SentencesPerRead
      BY <1>0, <2>2, LeftBounds
    <2> QED BY <2>2, <2>3 DEF QuietInv
  <1>6. CASE Spawn
    <2>1. UNCHANGED <<todo, open, tail>>
      BY <1>6 DEF Spawn, ctlVars, histVars
    <2>2. ASSUME NEW t \in Threads
          PROVE  tail'[t] + Left(t)' <= SentencesPerRead
      <3>1. gps'[t] = gps[t] \/ gps'[t] = "created"
        BY <1>0, <1>6 DEF Spawn
      <3>2. CASE gps'[t] = gps[t]
        BY <1>1, <2>1, <3>2 DEF Left
      <3>3. CASE gps'[t] = "created"
        <4>1. Left(t)' = 0
          BY <3>3 DEF Left, Parsing, Counting
        <4>2. tail[t] \in Nat /\ Left(t) \in Nat
                /\ tail[t] + Left(t) <= SentencesPerRead
          BY <1>0, <1>1, LeftBounds
        <4> QED BY <1>0, <2>1, <4>1, <4>2
      <3> QED BY <3>1, <3>2, <3>3
    <2> QED BY <1>1, <2>1, <2>2 DEF QuietInv
  <1>7. CASE StopClose
    <2>1. UNCHANGED <<gps, todo, tail>> /\ open' \subseteq {STDIN}
      BY <1>7 DEF StopClose, histVars, ClosedInv, NoDescriptorLost
    <2> QED BY <1>1, <2>1 DEF QuietInv, Left
  <1>8. ASSUME NEW t \in Threads, ThreadStep(t) \/ ThreadPolls(t)
        PROVE  QuietInv'
    <2>0. UNCHANGED <<open, started>>
      BY <1>8, ThreadLeaves DEF ctlVars
    <2>1. /\ tail[t] \in Nat /\ todo[t] \in Nat /\ Left(t) \in Nat
          /\ tail[t] + Left(t) <= SentencesPerRead
          /\ gps[t] \in Parsing => todo[t] > 0
      BY <1>0, <1>1, LeftBounds DEF TodoInv
    <2> DEFINE Counted(to, n, k) ==
                 /\ k + (IF to = "parse" THEN n
                         ELSE IF to \in Parsing THEN n - 1 ELSE 0)
                       <= SentencesPerRead
                 /\ open \subseteq {STDIN} \/ k = tail[t]
    <2>2. ASSUME NEW from, NEW to, NEW n, NEW k,
                 ThreadMove(t, from, to, n, k), Counted(to, n, k)
          PROVE  QuietInv'
      <3>1. \A u \in Threads \ {t} : gps'[u] = gps[u] /\ todo'[u] = todo[u]
              /\ tail'[u] = tail[u]
        BY <1>0, <2>2 DEF ThreadMove
      <3>2. gps'[t] = to /\ todo'[t] = n /\ tail'[t] = k
        BY <1>0, <2>2 DEF ThreadMove
      <3>3. \A u \in Threads \ {t} : tail'[u] + Left(u)' <= SentencesPerRead
        BY <1>1, <3>1 DEF Left
      <3>4. tail'[t] + Left(t)' <= SentencesPerRead
        BY <2>2, <3>2 DEF Left
      <3>5. open' \subseteq {STDIN} \/ \A u \in Threads : tail'[u] = 0
        BY <1>1, <2>0, <2>2, <3>1, <3>2
      <3> QED BY <3>3, <3>4, <3>5 DEF QuietInv
    <2> HIDE DEF Counted
    <2>3. CASE ThreadMove(t, "created", "poll", todo[t], tail[t])
      <3>1. Counted("poll", todo[t], tail[t])
        BY <1>0, <2>1 DEF Counted, Parsing, Counting
      <3> QED BY <2>2, <2>3, <3>1
    <2>4. ASSUME NEW to \in {"read", "exited"},
                 ThreadMove(t, "poll", to, todo[t], tail[t])
          PROVE  QuietInv'
      <3>1. Counted(to, todo[t], tail[t])
        BY <1>0, <2>1, <2>4 DEF Counted, Parsing, Counting
      <3> QED BY <2>2, <2>4, <3>1
    <2>5. CASE ThreadMove(t, "read", "poll", 0, tail[t])
      <3>1. Counted("poll", 0, tail[t])
        BY <1>0, <2>1 DEF Counted, Parsing, Counting
      <3> QED BY <2>2, <2>5, <3>1
    <2>6. ASSUME gpsFd[t] \in open, NEW n \in 1 .. SentencesPerRead,
                 ThreadMove(t, "read", "parse", n, tail[t])
          PROVE  QuietInv'
      <3>1. gpsFd[t] # STDIN
        BY <2>6 DEF ThreadMove, DeviceInv
      <3>2. tail[t] = 0
        BY <1>1, <2>6, <3>1
      <3>3. Counted("parse", n, tail[t])
        BY <1>0, <3>2 DEF Counted
      <3> QED BY <2>2, <2>6, <3>3
    <2>7. ASSUME NEW to \in Parsing \ {"parse"},
                 ThreadMove(t, "parse", to, todo[t], AfterParse(t))
          PROVE  QuietInv'
      <3>1. gps[t] = "parse" /\ Left(t) = todo[t]
        BY <2>7 DEF ThreadMove, Left
      <3>2. open \subseteq {STDIN} \/ AfterParse(t) = tail[t]
        BY DEF ClosedInv, AfterParse
      <3>3. AfterParse(t) \in {tail[t], tail[t] + 1}
        BY DEF AfterParse
      <3>4. Counted(to, todo[t], AfterParse(t))
        BY <1>0, <2>1, <2>7, <3>1, <3>2, <3>3 DEF Counted, Parsing, Counting
      <3> QED BY <2>2, <2>7, <3>4
    <2>8. ASSUME NEW from \in Parsing \ {"parse"},
                 NEW to \in Parsing \ {"parse"},
                 ThreadMove(t, from, to, todo[t], tail[t])
          PROVE  QuietInv'
      <3>1. Left(t) = todo[t] - 1
        BY <2>8 DEF ThreadMove, Left
      <3>2. Counted(to, todo[t], tail[t])
        BY <1>0, <2>1, <2>8, <3>1 DEF Counted
      <3> QED BY <2>2, <2>8, <3>2
    <2>9. CASE ThreadMove(t, "reset", AfterReset(t), todo[t] - 1, tail[t])
      <3>1. Left(t) = todo[t] - 1 /\ todo[t] > 0
        BY <2>1, <2>9 DEF ThreadMove, Left, Parsing
      <3>2. Counted(AfterReset(t), todo[t] - 1, tail[t])
        BY <1>0, <2>1, <3>1 DEF Counted, Parsing, Counting, AfterReset
      <3> QED BY <2>2, <2>9, <3>2
    <2> QED BY <1>8, <2>3, <2>4, <2>5, <2>6, <2>7, <2>8, <2>9, ThreadMoves
  <1> QED BY <1>3, <1>4, <1>5, <1>6, <1>7, <1>8, StepSplit

\* The whole invariant, with the types: it holds in every state, whatever the
\* client does and whatever fails.
THEOREM GpsInvHolds == GpsSpec => []GpsInv
  <1> DEFINE Rest == DeviceInv /\ QuietInv
  <1>1. GpsInit => Rest
    BY SocketAssumption DEF GpsInit, DeviceInv, QuietInv, Left, Parsing
  <1>2. ReaderInv /\ CallbackInv /\ Rest /\ [GpsNext]_vars => Rest'
    BY DeviceStep, QuietStep DEF ReaderInv, CallbackInv
  <1>3. ReaderInv /\ CallbackInv /\ Rest <=> GpsInv
    BY DEF GpsInv, ReaderInv
  <1> HIDE DEF Rest
  <1> QED BY <1>1, <1>2, <1>3, ReaderInvHolds, CallbackInvHolds, PTL
          DEF GpsSpec

\* Once a client that keeps to the rules has stopped the device, each gps
\* thread parses no more sentences than it had read before.
THEOREM QuietAfterStopHolds ==
    ASSUME Disciplined
    PROVE  GpsSpec => []QuietAfterStop
  <1>1. GpsInv => QuietAfterStop
    <2> SUFFICES ASSUME GpsInv, NEW t \in Threads
                 PROVE  tail[t] <= SentencesPerRead
      BY DEF QuietAfterStop
    <2>1. tail[t] \in Nat /\ SentencesPerRead \in Nat
      BY SocketAssumption DEF GpsInv, GpsTypeOK
    <2>2. Left(t) \in Nat /\ tail[t] + Left(t) <= SentencesPerRead
      BY LeftBounds DEF GpsInv, QuietInv
    <2> QED BY <2>1, <2>2
  <1> QED BY <1>1, GpsInvHolds, PTL

\* The list of satellites never holds more than some sentence said are in view
\* until two threads parse at once, and again from the first group that begins
\* in a thread that is alone.
THEOREM SvListBoundedHolds == GpsSpec => []SvListBounded
  <1>1. ReaderInv => SvListBounded
    BY DEF ReaderInv, ListInv
  <1> QED BY <1>1, ReaderInvHolds, PTL
=============================================================================
