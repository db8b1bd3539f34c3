------------------------------ MODULE OdroidGps ------------------------------
(***************************************************************************)
(* The GPS library (libodroid-gps/odroid_gps.c): the framework's thread,   *)
(* which calls init, start, stop and cleanup; the main loop, which runs    *)
(* the client's callbacks in the thread the framework created for it; the  *)
(* gps thread that every start creates; and the control socket on which    *)
(* the other threads tell the main loop which callback to run.             *)
(*                                                                         *)
(* Nothing is locked.  An action is what a thread does between two         *)
(* accesses to something another thread uses, and a write to the socket is *)
(* an action of its own, since it blocks while the socket is full.  `svc', *)
(* `main' and `gps[t]' are where the three kinds of threads are.           *)
(*                                                                         *)
(* The gps threads share one reader.  Three things they do to it are one   *)
(* action here though they are a few accesses: the fields of one sentence  *)
(* join the fix, the first sentence of a group empties the list, and the   *)
(* tests before a callback is requested.  Their buffer is shared too: what *)
(* two threads make of it together is any of the Sentences.                *)
(*                                                                         *)
(* ctrl_state is not modelled: nothing assigns it after init zeroes it, so *)
(* start always takes its first branch and stop always its second.         *)
(***************************************************************************)
EXTENDS NmeaReader, Sequences

CONSTANTS
    Callbacks,         \* optional callbacks the client has: a NULL one is absent
    Disciplined,       \* the client starts and stops alternately
    FaultKinds,        \* calls that may go wrong
    MaxFaults,         \* bound: how often, in one behaviour
    MaxStarts,         \* bound: calls of start
    MaxQueue,          \* commands the socket holds
    SentencesPerRead,  \* sentences one read of the device completes
    MaxSvs             \* bound: satellites in the list

Commands == {"status", "sv", "location", "nmea", "quit"}
ASSUME CallbackAssumption == Callbacks \subseteq {"sv", "location", "nmea"}
ASSUME GpsFaultAssumption == /\ FaultKinds \subseteq {"open", "spawn", "hangup", "eintr"}
                             /\ MaxFaults \in Nat
ASSUME ClientAssumption == Disciplined \in BOOLEAN /\ MaxStarts \in Nat
ASSUME SocketAssumption == MaxQueue \in Nat \ {0} /\ SentencesPerRead \in Nat \ {0}

Threads == 1 .. MaxStarts
STDIN == 0
FdNumbers == 0 .. MaxStarts

VARIABLES
    svc,         \* the framework's thread
    main,        \* the main loop: "none", a place in the loop, or how it ended
    gps,         \* gps thread t
    gpsFd,       \* its gps_fd
    watched,     \* threads whose epoll watches an open descriptor
    todo,        \* sentences of its buffer still to be parsed
    gsv,         \* its variables in the loop over a sentence's satellites:
                 \* noSatellites, the numbers left, whether the sentence is
                 \* its group's last, and num_svs as it was loaded
    end0, end1,  \* the two ends of the control socket are open
    queue,       \* commands in the socket
    registered,  \* callbacks nmea_reader_set_callbacks has stored
    status,      \* state.gps_status.status
    fd,          \* state.fd
    open,        \* open descriptors of the process: 0 and those of the device
    starts,      \* calls of start so far
    faults,      \* calls that went wrong so far
    reported,    \* history: the status the client was told last
    started,     \* history: start was called and stop was not since
    tail,        \* history: sentences each thread parsed since stop closed
                 \*          the device
    late,        \* history: callbacks begun since cleanup closed its end
    interrupts,  \* history: epoll_waits of the main loop interrupted
    crowded      \* history: two threads were parsing at once, and no thread
                 \*          has emptied the list since while it was alone

gpsVars == <<gps, gpsFd, watched, todo, gsv>>
sockVars == <<end0, end1, queue>>
ctlVars == <<registered, status, fd, open, starts, started>>
histVars == <<reported, tail, late, interrupts, crowded>>
vars == <<svc, main, gpsVars, sockVars, ctlVars, histVars, faults, readerVars>>

SvcPlaces == {"off", "thread", "location", "sv", "pushSv", "nmea", "pushNmea",
              "idle", "startPush", "open", "openPush", "spawn", "stopPush",
              "quit", "close0", "close1", "closed"}
CallbackPlaces == {"status", "sv", "location", "nmea"}
Counting == {"count", "load", "add"}
Parsing == {"parse", "due", "changed", "fix", "sendFix", "clearFix", "sv",
            "sendSv", "clearSv", "nmea", "sendNmea", "reset"} \cup Counting
Groups == [sats : Nat, left : 0 .. 4, last : BOOLEAN, loaded : Nat]
NoGroup == [sats |-> 0, left |-> 0, last |-> FALSE, loaded |-> 0]

GpsTypeOK ==
    /\ ReaderTypeOK
    /\ svc \in SvcPlaces
    /\ main \in {"none", "poll", "read", "quit", "terminated"} \cup CallbackPlaces
    /\ gps \in [Threads -> {"none", "created", "poll", "read", "exited"} \cup Parsing]
    /\ gpsFd \in [Threads -> FdNumbers \cup {-1}]
    /\ watched \subseteq Threads
    /\ todo \in [Threads -> 0 .. SentencesPerRead]
    /\ gsv \in [Threads -> Groups]
    /\ end0 \in BOOLEAN /\ end1 \in BOOLEAN
    /\ queue \in Seq(Commands) /\ Len(queue) <= MaxQueue
    /\ registered \subseteq Callbacks
    /\ status \in {"none", "ENGINE_ON", "SESSION_BEGIN", "SESSION_END"}
    /\ fd \in FdNumbers \cup {-1}
    /\ open \subseteq FdNumbers
    /\ starts \in 0 .. MaxStarts
    /\ faults \in 0 .. MaxFaults
    /\ reported \in {"none", "ENGINE_ON", "SESSION_BEGIN", "SESSION_END"}
    /\ started \in BOOLEAN
    /\ tail \in [Threads -> Nat] /\ late \in Nat
    /\ interrupts \in Nat /\ crowded \in BOOLEAN

\* Before init.  init's memset makes state.fd 0, and the process has a
\* descriptor of that number.
GpsInit ==
    /\ ReaderInit
    /\ svc = "off" /\ main = "none"
    /\ gps = [t \in Threads |-> "none"]
    /\ gpsFd = [t \in Threads |-> 0]
    /\ watched = {}
    /\ todo = [t \in Threads |-> 0]
    /\ gsv = [t \in Threads |-> NoGroup]
    /\ end0 = FALSE /\ end1 = FALSE /\ queue = <<>>
    /\ registered = {}
    /\ status = "none" /\ reported = "none"
    /\ fd = STDIN /\ open = {STDIN}
    /\ starts = 0 /\ faults = 0
    /\ started = FALSE
    /\ tail = [t \in Threads |-> 0] /\ late = 0
    /\ interrupts = 0 /\ crowded = FALSE

Fault(kind) ==
    /\ kind \in FaultKinds
    /\ faults < MaxFaults
    /\ faults' = faults + 1

\* set_pending_command: the write blocks while the socket is full, and fails
\* unnoticed once cleanup has closed control_fd[0].
Push(cmd) ==
    /\ IF end0
       THEN Len(queue) < MaxQueue /\ queue' = Append(queue, cmd)
       ELSE UNCHANGED queue
    /\ UNCHANGED <<end0, end1>>

At(from, to) == svc = from /\ svc' = to

----------------------------------------------------------------------------
(* init: the control socket, the main loop, then the callbacks.  The fix   *)
(* is empty here, so set_callbacks has no location to send.  An init whose *)
(* socketpair fails leaves everything as before it.                        *)

InitSocket ==
    /\ At("off", "thread")
    /\ end0' = TRUE /\ end1' = TRUE /\ UNCHANGED queue
    /\ UNCHANGED <<main, gpsVars, ctlVars, histVars, faults, readerVars>>

CreateMainLoop ==
    /\ At("thread", "location")
    /\ main' = "poll"
    /\ UNCHANGED <<gpsVars, sockVars, ctlVars, histVars, faults, readerVars>>

\* set_callbacks stores a callback; where to, unless it is NULL.
Store(cb) ==
    /\ registered' = registered \cup ({cb} \cap Callbacks)
    /\ UNCHANGED <<main, gpsVars, sockVars, status, fd, open, starts, started,
                   histVars, faults, readerVars>>

StoreLocation == At("location", "sv") /\ Store("location")

\* Mutant: the command is sent and the callback not stored.
StoreSv_PushesOnly ==
    /\ At("sv", "pushSv")
    /\ UNCHANGED <<main, gpsVars, sockVars, ctlVars, histVars, faults,
                   readerVars>>

StoreSv == At("sv", IF "sv" \in Callbacks THEN "pushSv" ELSE "nmea") /\ Store("sv")

PushSv ==
    /\ At("pushSv", "nmea")
    /\ Push("sv")
    /\ svChanged' = FALSE
    /\ UNCHANGED <<main, gpsVars, ctlVars, histVars, faults, flags, update,
                   numSvs, utcDate>>

StoreNmea == At("nmea", IF "nmea" \in Callbacks THEN "pushNmea" ELSE "idle") /\ Store("nmea")

PushNmea ==
    /\ At("pushNmea", "idle")
    /\ Push("nmea")
    /\ UNCHANGED <<main, gpsVars, ctlVars, histVars, faults, readerVars>>

----------------------------------------------------------------------------
(* start and stop.                                                         *)

Start ==
    /\ At("idle", "startPush")
    /\ starts < MaxStarts
    /\ Disciplined => ~started
    /\ status' = "ENGINE_ON"
    /\ starts' = starts + 1
    /\ started' = TRUE
    /\ UNCHANGED <<main, gpsVars, sockVars, registered, fd, open, histVars,
                   faults, readerVars>>

StartPush ==
    /\ At("startPush", "open")
    /\ Push("status")
    /\ UNCHANGED <<main, gpsVars, ctlVars, histVars, faults, readerVars>>

\* The lowest free number, as open(2) chooses it.
LowestFree == CHOOSE f \in FdNumbers \ open :
                  \A g \in FdNumbers \ open : f <= g

OpenOk ==
    /\ At("open", "openPush")
    /\ status' = "SESSION_BEGIN"
    /\ fd' = LowestFree
    /\ open' = open \cup {LowestFree}
    /\ tail' = [t \in Threads |-> 0]
    /\ UNCHANGED <<main, gpsVars, sockVars, registered, starts, started,
                   reported, late, interrupts, crowded, faults, readerVars>>

\* Mutant: the descriptor is set only by an open that succeeds.
OpenFails_KeepsFd ==
    /\ At("open", "idle")
    /\ Fault("open")
    /\ status' = "SESSION_BEGIN"
    /\ UNCHANGED <<main, gpsVars, sockVars, registered, fd, open, starts,
                   started, histVars, readerVars>>

\* start returns without telling anyone that the session did not begin.
OpenFails ==
    /\ At("open", "idle")
    /\ Fault("open")
    /\ status' = "SESSION_BEGIN"
    /\ fd' = -1
    /\ UNCHANGED <<main, gpsVars, sockVars, registered, open, starts, started,
                   histVars, readerVars>>

OpenPush ==
    /\ At("openPush", "spawn")
    /\ Push("status")
    /\ UNCHANGED <<main, gpsVars, ctlVars, histVars, faults, readerVars>>

\* pthread_create, and the terminal settings; a failure is only logged.
Spawn ==
    /\ At("spawn", "idle")
    /\ \/ /\ gps' = [gps EXCEPT ![starts] = "created"]
          /\ UNCHANGED faults
       \/ Fault("spawn") /\ UNCHANGED gps
    /\ UNCHANGED <<main, gpsFd, watched, todo, gsv, sockVars, ctlVars,
                   histVars, readerVars>>

\* Mutant: the descriptor is forgotten before it is closed.
StopClose_Forgets ==
    /\ At("idle", "stopPush")
    /\ Disciplined => started
    /\ fd' = -1
    /\ status' = "SESSION_END"
    /\ started' = FALSE
    /\ UNCHANGED <<main, gpsVars, sockVars, open, registered, starts,
                   histVars, faults, readerVars>>

\* Closing the descriptor takes it out of every epoll that watches it.
StopClose ==
    /\ At("idle", "stopPush")
    /\ Disciplined => started
    /\ open' = open \ {fd}
    /\ watched' = {t \in watched : gpsFd[t] # fd}
    /\ fd' = -1
    /\ status' = "SESSION_END"
    /\ started' = FALSE
    /\ UNCHANGED <<main, gps, gpsFd, todo, gsv, sockVars, registered, starts,
                   histVars, faults, readerVars>>

\* Mutant: the client is not told.
StopPush_Forgets ==
    /\ At("stopPush", "idle")
    /\ UNCHANGED <<main, gpsVars, sockVars, ctlVars, histVars, faults,
                   readerVars>>

StopPush ==
    /\ At("stopPush", "idle")
    /\ Push("status")
    /\ UNCHANGED <<main, gpsVars, ctlVars, histVars, faults, readerVars>>

----------------------------------------------------------------------------
(* cleanup: CMD_QUIT, then both ends are closed.                           *)

Cleanup ==
    /\ At("idle", "quit")
    /\ Disciplined => ~started
    /\ UNCHANGED <<main, gpsVars, sockVars, ctlVars, histVars, faults,
                   readerVars>>

CleanupQuit ==
    /\ At("quit", "close0")
    /\ Push("quit")
    /\ UNCHANGED <<main, gpsVars, ctlVars, histVars, faults, readerVars>>

Close0 ==
    /\ At("close0", "close1")
    /\ end0' = FALSE
    /\ UNCHANGED <<main, gpsVars, end1, queue, ctlVars, histVars, faults,
                   readerVars>>

\* What is left in the socket goes with its last end.
Close1 ==
    /\ At("close1", "closed")
    /\ end1' = FALSE
    /\ queue' = <<>>
    /\ UNCHANGED <<main, gpsVars, end0, ctlVars, histVars, faults, readerVars>>

ServiceStep ==
    \/ CreateMainLoop \/ StoreLocation \/ StoreSv \/ PushSv \/ StoreNmea
    \/ PushNmea \/ StartPush \/ OpenOk \/ OpenFails \/ OpenPush \/ Spawn
    \/ StopPush \/ CleanupQuit \/ Close0 \/ Close1

----------------------------------------------------------------------------
(* The main loop.                                                          *)

MainAt(from, to) ==
    /\ main = from /\ main' = to
    /\ UNCHANGED <<svc, gpsVars, ctlVars, tail, crowded, readerVars>>

\* Mutant: input is looked at before the hang-up.
MainPoll_InputFirst ==
    /\ end1 /\ (queue # <<>> \/ ~end0)
    /\ MainAt("poll", IF queue # <<>> THEN "read" ELSE "terminated")
    /\ UNCHANGED <<sockVars, reported, late, interrupts, faults>>

\* epoll_wait returns when a command has come or the other end is closed, and
\* the hang-up is looked at first.  Once its own end is closed the loop waits
\* for ever.
MainPoll ==
    /\ end1 /\ (queue # <<>> \/ ~end0)
    /\ MainAt("poll", IF end0 THEN "read" ELSE "terminated")
    /\ UNCHANGED <<sockVars, reported, late, interrupts, faults>>

\* epoll_wait is interrupted: the loop goes on to examine an event nobody
\* wrote, which may hold nothing, a hang-up, or the last event again.
MainInterrupted ==
    /\ Fault("eintr")
    /\ \E to \in {"poll", "read", "terminated"} : MainAt("poll", to)
    /\ interrupts' = interrupts + 1
    /\ UNCHANGED <<sockVars, reported, late>>

\* Mutant: whatever is in the socket is read and the first command obeyed.
MainRead_TakesAll ==
    /\ \/ queue = <<>> /\ MainAt("read", "poll")
       \/ queue # <<>> /\ MainAt("read", Head(queue))
    /\ queue' = <<>>
    /\ UNCHANGED <<end0, end1, reported, late, interrupts, faults>>

\* One command is read; with none there, or its end closed, the read fails
\* and the loop goes on.
MainRead ==
    /\ \/ queue = <<>> /\ MainAt("read", "poll") /\ UNCHANGED queue
       \/ queue # <<>> /\ MainAt("read", Head(queue)) /\ queue' = Tail(queue)
    /\ UNCHANGED <<end0, end1, reported, late, interrupts, faults>>

\* The callback reads what the library's structures hold now.
MainCallback ==
    /\ \E cb \in CallbackPlaces : MainAt(cb, "poll")
    /\ reported' = IF main = "status" THEN status ELSE reported
    /\ late' = IF end0 THEN late ELSE late + 1
    /\ UNCHANGED <<sockVars, interrupts, faults>>

MainStep == MainPoll \/ MainRead \/ MainCallback

----------------------------------------------------------------------------
(* A gps thread.                                                           *)

GpsAt(t, from, to) ==
    /\ gps[t] = from
    /\ gps' = [gps EXCEPT ![t] = to]
    /\ UNCHANGED <<svc, main, ctlVars, reported, late, interrupts>>

\* The thread reads state.fd when it first runs, however late that is, and a
\* descriptor that is not open is never watched.
ThreadStarts(t) ==
    /\ GpsAt(t, "created", "poll")
    /\ gpsFd' = [gpsFd EXCEPT ![t] = fd]
    /\ watched' = IF fd \in open THEN watched \cup {t} ELSE watched
    /\ UNCHANGED <<todo, gsv, sockVars, tail, crowded, faults, readerVars>>

\* The device has data, or hangs up.
ThreadPolls(t) ==
    /\ t \in watched
    /\ \/ GpsAt(t, "poll", "read") /\ UNCHANGED faults
       \/ GpsAt(t, "poll", "exited") /\ Fault("hangup")
    /\ UNCHANGED <<gpsFd, watched, todo, gsv, sockVars, tail, crowded,
                   readerVars>>

\* No other thread is parsing.
Alone(t) == \A u \in Threads \ {t} : gps[u] \notin Parsing

\* The data completes some sentences or none.  A read of a closed descriptor
\* fails; one whose number is in use again reads the new session's data.
ThreadReads(t) ==
    /\ \E n \in 0 .. SentencesPerRead :
        /\ n > 0 => gpsFd[t] \in open
        /\ GpsAt(t, "read", IF n = 0 THEN "poll" ELSE "parse")
        /\ todo' = [todo EXCEPT ![t] = n]
        /\ crowded' = (crowded \/ (n > 0 /\ ~Alone(t)))
    /\ UNCHANGED <<gpsFd, watched, gsv, sockVars, tail, faults, readerVars>>

\* A step inside nmea_reader_parse or nmea_reader_addc.
ParseAt(t, from, to) ==
    /\ GpsAt(t, from, to)
    /\ UNCHANGED <<gpsFd, watched, todo, faults>>

\* nmea_reader_parse: the sentence is taken apart, and what it says of the
\* fix is stored, or the list emptied.
Parse(t) ==
    /\ \E s \in Sentences :
        /\ ParseAt(t, "parse", Follows(s))
        /\ Read(s)
        /\ gsv' = [gsv EXCEPT ![t] =
                       IF Follows(s) = "count"
                       THEN [sats |-> s.sats, left |-> s.prns,
                             last |-> s.num = s.total, loaded |-> 0]
                       ELSE NoGroup]
        /\ crowded' = (crowded /\ ~(Empties(s) /\ Alone(t)))
    /\ tail' = IF started THEN tail ELSE [tail EXCEPT ![t] = @ + 1]
    /\ UNCHANGED sockVars

\* Mutant: the satellites in view do not bound the list.
Count_Unbounded(t) ==
    /\ IF gsv[t].left > 0
       THEN ParseAt(t, "count", "load") /\ UNCHANGED gsv
       ELSE /\ ParseAt(t, "count", IF gsv[t].last THEN "changed" ELSE "fix")
            /\ gsv' = [gsv EXCEPT ![t] = NoGroup]
    /\ UNCHANGED <<sockVars, tail, crowded, readerVars>>

\* The loop over a GSV sentence goes on while it has satellites and the list
\* fewer than are in view.  The last sentence of a group asks for the
\* callback.
Count(t) ==
    /\ IF gsv[t].left > 0 /\ numSvs < gsv[t].sats
       THEN ParseAt(t, "count", "load") /\ UNCHANGED gsv
       ELSE /\ ParseAt(t, "count", IF gsv[t].last THEN "changed" ELSE "fix")
            /\ gsv' = [gsv EXCEPT ![t] = NoGroup]
    /\ UNCHANGED <<sockVars, tail, crowded, readerVars>>

\* num_svs += 1 is a load and a store, and another thread may come between
\* the test and the load, or between the two.
Load(t) ==
    /\ ParseAt(t, "load", "add")
    /\ gsv' = [gsv EXCEPT ![t].loaded = numSvs]
    /\ UNCHANGED <<sockVars, tail, crowded, readerVars>>

Add(t) ==
    /\ ParseAt(t, "add", "count")
    /\ gsv[t].loaded < MaxSvs
    /\ StoreSvs(gsv[t].loaded)
    /\ gsv' = [gsv EXCEPT ![t].left = @ - 1]
    /\ UNCHANGED <<sockVars, tail, crowded>>

SvsChange(t) ==
    /\ ParseAt(t, "changed", "fix")
    /\ MarkChanged
    /\ UNCHANGED <<gsv, sockVars, tail, crowded>>

FixIsDue(t) ==
    /\ ParseAt(t, "due", "fix")
    /\ MarkDue
    /\ UNCHANGED <<gsv, sockVars, tail, crowded>>

\* A callback is requested if there is something to tell and someone wants to
\* know.  By the time there is room in the socket that may have changed.
Test(t, from, to, else, wanted) ==
    /\ ParseAt(t, from, IF wanted THEN to ELSE else)
    /\ UNCHANGED <<gsv, sockVars, tail, crowded, readerVars>>

Request(t, from, to, cmd) ==
    /\ ParseAt(t, from, to)
    /\ Push(cmd)
    /\ UNCHANGED <<gsv, tail, crowded, readerVars>>

\* nmea_reader_parse: a fix is due, the location callback is requested, and
\* only then is the fix emptied.
TestFix(t) ==
    Test(t, "fix", "sendFix", "sv",
         flags # {} /\ update /\ "location" \in registered)

RequestLocation(t) == Request(t, "sendFix", "clearFix", "location")

EmptyFix(t) ==
    /\ ParseAt(t, "clearFix", "sv")
    /\ ClearFix
    /\ UNCHANGED <<gsv, sockVars, tail, crowded>>

\* nmea_reader_parse: the satellite callback, in the same way.
TestSv(t) ==
    Test(t, "sv", "sendSv", "nmea", svChanged /\ "sv" \in registered)

RequestSv(t) == Request(t, "sendSv", "clearSv", "sv")

EmptySv(t) ==
    /\ ParseAt(t, "clearSv", "nmea")
    /\ ClearSv
    /\ UNCHANGED <<gsv, sockVars, tail, crowded>>

\* nmea_reader_addc: the callback for the sentence itself.
TestNmea(t) == Test(t, "nmea", "sendNmea", "reset", "nmea" \in registered)

RequestNmea(t) == Request(t, "sendNmea", "reset", "nmea")

\* The buffer is emptied for the next sentence.
EmptyBuffer(t) ==
    /\ GpsAt(t, "reset", IF todo[t] > 1 THEN "parse" ELSE "poll")
    /\ todo' = [todo EXCEPT ![t] = @ - 1]
    /\ UNCHANGED <<gpsFd, watched, gsv, sockVars, tail, crowded, faults,
                   readerVars>>

\* Everything a thread does by itself, without the device.
ThreadStep(t) ==
    \/ ThreadStarts(t) \/ ThreadReads(t)
    \/ Parse(t) \/ FixIsDue(t)
    \/ Count(t) \/ Load(t) \/ Add(t) \/ SvsChange(t)
    \/ TestFix(t) \/ RequestLocation(t) \/ EmptyFix(t)
    \/ TestSv(t) \/ RequestSv(t) \/ EmptySv(t)
    \/ TestNmea(t) \/ RequestNmea(t) \/ EmptyBuffer(t)

GpsNext ==
    \/ InitSocket \/ Start \/ StopClose \/ Cleanup
    \/ ServiceStep
    \/ MainStep \/ MainInterrupted
    \/ \E t \in Threads : ThreadStep(t) \/ ThreadPolls(t)

\* The scheduler runs every thread that can run, and the kernel lets every
\* writer that waits for room in the socket in at last, the framework's thread
\* and the gps threads alike.  Nothing makes the client call, the device send
\* or a call fail.
Fairness ==
    /\ SF_vars(ServiceStep)
    /\ WF_vars(MainStep)
    /\ \A t \in Threads : SF_vars(ThreadStep(t))

GpsSpec == GpsInit /\ [][GpsNext]_vars /\ Fairness

----------------------------------------------------------------------------
\* The main loop calls optional callbacks without a test, so a command must
\* not be in the socket before its callback is stored: a command on its way
\* to a callback always finds one.
CallbackRegistered == main \in {"sv", "location", "nmea"} => main \in registered

\* Once cleanup has closed its end of the socket at most one more callback is
\* made, the one whose command was read before: the commands still queued
\* are not obeyed, save one each time the wait is interrupted.
OneLateCallback == late <= 1 + interrupts

\* After stop, a gps thread parses no more than what it had read: the client
\* is not fed from a device it has stopped.
QuietAfterStop ==
    ~started => \A t \in Threads : tail[t] <= SentencesPerRead

\* A client that starts and stops alternately never loses a descriptor of
\* the device: the only one open is that in state.fd.
NoDescriptorLost == open \subseteq {STDIN, fd}

\* However groups of GSV sentences are cut short, repeated or mixed, and in
\* whichever session's thread, the list never holds more satellites than some
\* sentence said are in view: the number the client is given never exceeds it.
\* With two threads parsing at once nothing bounds it, until a group begins in
\* a thread that is alone.
SvListBounded ==
    crowded \/ numSvs = 0 \/ \E s \in Sentences : numSvs <= s.sats

\* Why these hold, as an inductive invariant.  Every command in the socket
\* has its callback stored, and so does one that is about to be sent; the
\* callback the main loop has already read a command for is its last; and a
\* client that keeps to the rules has no descriptor open while it is stopped.
Optional == {"sv", "location", "nmea"}
QueueInv == /\ queue \in Seq(Commands)
            /\ \A i \in 1 .. Len(queue) :
                   queue[i] \in Optional => queue[i] \in registered
StoredInv == /\ CallbackRegistered
             /\ svc = "pushSv" => "sv" \in registered
             /\ svc = "pushNmea" => "nmea" \in registered
LateInv == /\ late \in Nat /\ interrupts \in Nat
           /\ svc = "off" => main = "none"
           /\ end0 \/ svc = "off" => late = 0
           /\ late <= 1 + interrupts
           /\ ~end0 /\ main \in {"read"} \cup CallbackPlaces =>
                  late <= interrupts
SendInv == \A t \in Threads :
               /\ gps[t] = "sendFix" => "location" \in registered
               /\ gps[t] = "sendSv" => "sv" \in registered
               /\ gps[t] = "sendNmea" => "nmea" \in registered
ClosedInv == /\ started \in BOOLEAN
             /\ svc \in {"startPush", "open"} => started
             /\ Disciplined => /\ NoDescriptorLost
                               /\ ~started \/ svc \in {"startPush", "open"} =>
                                      open \subseteq {STDIN}
CallbackInv == QueueInv /\ StoredInv /\ LateInv /\ ClosedInv

\* Every start opens at most one descriptor, so a number is free for the one
\* that is about to be opened; and a thread that parses has a sentence.
RoomInv == Cardinality(open) <=
               IF svc \in {"startPush", "open"} THEN starts ELSE starts + 1
TodoInv == \A t \in Threads : gps[t] \in Parsing => todo[t] > 0

\* state.fd is 0 from init's memset until the first open returns.  No thread
\* that runs has that number, and no stop closes it.
DeviceInv ==
    Disciplined =>
        /\ STDIN \in open
        /\ fd = STDIN => /\ \A t \in Threads : gps[t] = "none"
                         /\ svc \notin {"openPush", "spawn"}
                         /\ started => svc \in {"startPush", "open"}
        /\ \A t \in Threads :
               gps[t] \notin {"none", "created"} => gpsFd[t] # STDIN

\* What a thread has parsed since the stop and what it still has to parse came
\* with one read, the last one that found the device open.
Left(t) == IF gps[t] = "parse" THEN todo[t]
           ELSE IF gps[t] \in Parsing THEN todo[t] - 1 ELSE 0
QuietInv ==
    Disciplined =>
        /\ open \subseteq {STDIN} \/ \A t \in Threads : tail[t] = 0
        /\ \A t \in Threads : tail[t] + Left(t) <= SentencesPerRead

\* A thread that is alone counts against the number it read, and finds the
\* list as it left it: the load and the store come after a test that holds.
ListInv ==
    /\ SvListBounded
    /\ \A t \in Threads : gps[t] \in Counting =>
           \E s \in Sentences : gsv[t].sats = s.sats
    /\ \A t \in Threads : gps[t] \in {"load", "add"} => gsv[t].left > 0
    /\ ~crowded =>
           \A t \in Threads :
               /\ gps[t] \in Parsing => Alone(t)
               /\ gps[t] = "load" => numSvs < gsv[t].sats
               /\ gps[t] = "add" => gsv[t].loaded < gsv[t].sats

GpsInv == /\ GpsTypeOK /\ SendInv /\ CallbackInv
          /\ RoomInv /\ TodoInv /\ DeviceInv /\ QuietInv /\ ListInv

\* What the client was told last is the status, or it will be told again: the
\* client and the library never disagree for good.
StatusConverges == reported # status ~>
    (reported = status \/ svc \in {"quit", "close0", "close1", "closed"})

\* A location request is answered by a callback, whether it is in the socket
\* or its thread still waits for room there, or cleanup has been called.
LocationAnswered ==
    (\/ \E t \in Threads : gps[t] = "sendFix"
     \/ \E i \in 1 .. Len(queue) : queue[i] = "location") ~>
        (main = "location" \/ svc \in {"quit", "close0", "close1", "closed"})

\* "we received a complete sentence, now parse it to generate a new GPS fix":
\* the fix that is delivered holds something.
FixDelivered == main = "location" => flags # {}
=============================================================================
