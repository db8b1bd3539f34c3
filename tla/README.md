# Models of the ODROID-U2 device tree's native code

This directory holds TLA+ models of the programs in this repository that have
behaviour of their own: the camera HAL (`src/libcamera`), the GPS HAL
(`src/libodroid-gps`), the display and the scripts of recovery
(`src/recovery`); the TLC configurations that check them on small instances; and
TLAPS proofs of what holds for every instance. The rest of the repository is
configuration, installers and pixel arithmetic.

## 1. The system

### Camera HAL (`src/libcamera`)

| Part | State | Operations |
|---|---|---|
| `V4L2Camera` (V4L2Camera.cpp) | descriptor, pool of `NB_BUFFER` mapped buffers, `isStreaming`, `nQueued`/`nDequeued` | Open, Close, Init, Uninit, StartStreaming, StopStreaming, GrabPreviewFrame, ReleasePreviewFrame, GrabJpegFrame |
| capture driver (kernel) | capture on or off, queued and filled buffers | QBUF, DQBUF (blocks), STREAMON, STREAMOFF, completion of a frame |
| `CameraHardware` (CameraHardware.cpp, .h) | `mLock`, the preview thread, `previewStopped`, window, enabled messages, recording flag | the HAL methods, called one at a time by the camera service's thread; `previewThread()` |
| `MemoryStream` (in V4L2Camera.cpp) | pipe, reader thread, condition variable | compression of a picture |
| `CameraHal_Module.cpp` | one static `CameraHardware` for two cameras | open, close, forwarding |
| `rgbconvert.c`, `convert.S` | none | pixel conversion |

Two threads use a `CameraHardware`: the service's and the preview thread that
`startPreview` creates. `mLock` covers `startPreview`, each frame, the
setters, and the three short critical sections of `stopPreview`; the teardown of
the device in `stopPreview` and all of `pictureThread` (which, in spite of its
name, is called in the service's thread by `takePicture`) run without it. They
are kept apart from the preview thread by `requestExitAndWait` alone.
`V4L2Camera` has no lock.

A picture is compressed by libjpeg into a pipe; `MemoryStream`'s thread reads
the pipe into a buffer as large as the raw frame, and `closeStream` waits for it
on a condition without a predicate. The camera service reaches all of this
through `CameraHal_Module.cpp`, which reports two cameras and forwards every call
of either to whatever one static pointer names.

What makes the camera correct: the device is never used by both threads; a
method that waits for the other thread or the driver returns; the buffers are
all accounted for, and `Uninit` never asks the driver for one it does not have;
nothing of a session is left to the next; the client gets no frame after
`stopPreview` returned and only one after it set `previewStopped`; no NULL
frame is converted and no NULL picture sent; the thread writes into the current
window only; a frame fits the device's buffer and the window's; a picture is
complete when it is copied; a call never goes through a NULL pointer and every
preview that runs can be stopped.

### GPS HAL (`src/libodroid-gps`)

| Part | State | Operations |
|---|---|---|
| framing (`nmea_reader_addc`) | `in`, `pos`, `overflow` | one character |
| sentences (`nmea_reader_parse`) | the fix and its flags, `update`, satellite list, date; all of it shared by the gps threads | one sentence; requests callbacks |
| tokenizer (`nmea_tokenizer.c`) | none | sentence to fields |
| interface (`odroid_gps.c`) | `state`: descriptor, status, control socket | init, start, stop, cleanup |
| main loop (`main_loop`) | none of its own | reads commands from the control socket, runs the client's callbacks |
| gps threads (`gps_state_thread`) | `gps_fd`, an epoll | read the device, feed the reader |

Three kinds of threads share `state` and `reader` and nothing is locked. The
only ordering is what the control socket gives: the others write one-byte
commands, a write blocks while the socket is full, the main loop reads them one
at a time and calls back with whatever the shared structures hold at that
moment. Every start makes a new gps thread; no stop ends one, but closing the
descriptor takes it out of the thread's epoll.

What makes the GPS correct: a callback is never made through a NULL pointer;
none is made after cleanup, but for those already under way; the client is told
the status in the end; a location request is answered; no descriptor is lost;
a stopped device feeds the client no more than what had been read; sentences are
whole lines; the satellite list does not outgrow the receiver's count (which the
code gives only as long as one thread at a time parses).

### Recovery (`src/recovery`)

| Part | State | Operations |
|---|---|---|
| display (`graphics.c`) | descriptors of console and framebuffer, the memory surface, which half is active | gr_init, gr_exit, gr_flip, gr_fb_blank, drawing |
| `setup-recovery`, `pseudorec-to-sd` | the SD card's boot files | save the boot script, put one that boots recovery in its place, copy the image, reboot |
| `postrecoveryboot.sh` | the same | put the saved script back, or remove it |

Correct means: the user sees what was flipped last and gets the console back
however `gr_init` fails; his boot script survives and comes back; the board
always has something to boot. Neither script looks at the status of a command, and
`gr_init` not at what `malloc` returns, so each of these holds up to certain
failures, and which ones they are is what the properties say.

### The rest

`src/releasetools` generates update packages and installs images. `src/conf`,
the makefiles, overlays and media profiles are declarations. `PROJECT.json`
lists each part with the reason why it is not modelled.

### Where the difficulty is

- two threads ordered only by a join (`CameraHardware.cpp:303`);
- flags read without the lock that guards their writes (`:192`);
- a loop that gives the lock up for an instant only (`:193`);
- calls into device, window and socket of which any may fail or block;
- shared structures read when a callback is made and not when it was requested
  (`odroid_gps.c:288-307`);
- threads that begin long after they were created (`odroid_gps.c:329`), and
  descriptor numbers that are used again;
- a socket closed while commands are in it (`odroid_gps.c:465`);
- a signal that finds nobody waiting (`V4L2Camera.cpp:297`);
- one pointer for two devices (`CameraHal_Module.cpp:55`), sizes read again at
  each frame (`CameraHardware.cpp:189`), settings that a release function sets
  (`CameraHal_Module.cpp:260`);
- static variables that outlive a failed or an undone initialisation
  (`graphics.c:384`), an allocation that is not tested (`:172`) and a switch back
  to text mode that is not (`:386`);
- scripts that go on after a mount or a copy that failed (`pseudorec-to-sd:3-12`,
  `postrecoveryboot.sh:7-14`);
- a test and an increment of a counter that two threads make (`nmea_reader.c:620`);
- a reboot three seconds after a script was started, done or not
  (`setup-recovery:4`), and power cuts between and in its copies;
- off-by-one lengths: a full buffer (`nmea_reader.c:732`), the last buffer of a
  drain (`V4L2Camera.cpp:149`).

`PROJECT.json`, "hazards", has the whole list, each with its line and with the
properties that would catch it going wrong.

## 2. Modules

| Module | What it is |
|---|---|
| `V4L2Camera` | the class and the driver: one action per way a call can return |
| `CameraHardware` | EXTENDS it with the two threads, the lock and the client |
| `PreviewSession` | the abstract specification: what a client is promised about callbacks |
| `MC_Camera` | `CameraHardware` for TLC |
| `V4L2Camera_proofs`, `CameraHardware_proofs` | theorems |
| `MemoryStream`, `MC_Stream`, `MemoryStream_proofs` | the compression of one picture after another: what `EncodeJpeg` of `CameraHardware` takes as one step |
| `CameraModule`, `MC_Module`, `CameraModule_proofs` | the HAL module: two devices over one object, window, preview and parameters |
| `NmeaFramer` | cutting of characters into lines, by length |
| `NmeaTokenizer` | a sentence's fields; pure |
| `NmeaInput`, `MC_Input` | EXTENDS both with the characters |
| `NmeaInput_proofs` | theorems about framing, tokenizer and both together |
| `NmeaReader` | what a sentence does to the reader |
| `OdroidGps` | EXTENDS it with the threads, the control socket, descriptors and client |
| `MC_Gps`, `OdroidGps_proofs` | `OdroidGps` for TLC; theorems |
| `MinuiGraphics`, `MC_Graphics`, `MinuiGraphics_proofs` | the recovery display |
| `PseudoRecovery`, `MC_Recovery`, `PseudoRecovery_proofs` | the scripts, the boot loader and the card |

Definitions whose comment begins "Mutant:" are plausible mistakes in the
definition of the same name: each property is shown to fail when the mutant
takes the definition's place. They are not part of any specification.

### Camera: state and actions

`svc` is where the service thread is and `job` the method it runs ("start",
"stop", "picture" for the stop that `takePicture` begins with, "shot" for the
rest of it). `pv` is where the preview thread is. A method that holds `mLock`
from its first statement to its return and does not call the device is one
action; the others are cut at every call into `V4L2Camera` and wherever they
wait. So `startPreview` is `StartPreview`, `OpenNode`*, `InitDevice`,
`StartStreamingForPreview`; `stopPreview` is `StopPreview`, `SetStopped`,
`CopyThread`, `RequestExit`, `Join`, `Drain`*, `DrainEnds`, `StopStreaming`,
`CloseDevice`, `ClearThread`; a frame is `ReadStopped`, `LockForFrame`,
`DequeueWindow`, `GrabFrame`, `ConvertFrame`, `DeliverFrame`, `ReleaseFrame`,
`Unlock`, `CheckExit`.

Kept: every return value and what the caller does with it, the loop over device
nodes, the counters (their difference, which is all that is read), the `- 1` of
the drain, the order of requeue and compression. Left out: pixels, parameters
and formats, the log, the heap allocations. A NULL frame sets `crashed`, after
which nothing happens. `late` counts the frames sent since `previewStopped` was
set and is the only history variable.

The driver is modelled from how the class uses it: DQBUF blocks while capture
is on and no buffer is filled, fails when capture is off, and STREAMOFF and
close give every buffer back. `FaultKinds` names the calls that may fail,
`MaxFaults` how often. `release()` closes `camera_device`, which is never
assigned: either nothing of this object is closed or, as the fault "release",
the descriptor in use.

`MemoryStream` counts blocks. `writer` is where `GrabJpegFrame` is: it
compresses (`WriteBlock`, which blocks on a full pipe), closes the FILE under the
lock (`CloseFile`), waits (`Wait`, `Wake`), copies (`CopyAndFree`). `reader` is
where `readPipe` is: `ReadSome`, `ReadEnds`, `Signal`. `read()` returns 0 at the
end of the pipe and also when it was asked for nothing because the buffer is
full, which is why the thread may end before `closeStream` waits. Three things
may go wrong: no pipe, no thread, a wait that returns by itself.

`CameraModule` keeps of each `CameraHardware` what outlives a call: whether its
preview runs and the four sizes that ought to agree (`size` in the parameters,
`window`, `device`, and `string`, which get_parameters handed out). A service may
do anything; `breaches` records what it did that a careful one would not:
"together" (two cameras open), "unstopped" (closed with the preview on),
"resized" (a size set that window or device does not have) and "overlap" (a
setting between a get and its put). Each property says which of these it needs
to fail, and the mutants that it does not hold merely because of them.

### Recovery: state and actions

`MinuiGraphics`: one thread makes the calls; `at` is where a call is that
several kernel calls make up. `framebuffer[n]` is the picture in each half,
`drawn` the one in memory, `flipped` (history) the one the user ought to see.
Seven kinds of calls may fail, among them the two whose result the code ignores:
the surface's `malloc`, after which `gr_init` returns 0 and the pointer is NULL
(`memoryFailed`), and `gr_exit`'s KD_TEXT (`textFailed`). `everFailed` records
the kinds that have failed, `exited` that the interface called `gr_exit`. A drawing
or a flip through NULL ends the process (`DrawOnNull`); a second free of the
surface may (`FreedAgain`) or may not (`GrExit`). The content of the memory
surface after malloc is taken for black; the font and its allocations are left
out.

`PseudoRecovery`: `script` is the next command of the script that runs and
`copying` says that it is in the middle of its copy, when the file is torn.
`file` is what the system sees and `disk` what is on the card: sync, umount and
reboot make them equal, a power cut leaves of each file that differs the old one,
the new one or a torn one. Each mount, copy and unmount and the removal may fail
(`Fails`), and the script goes on with the next command, since neither script
looks at a status. A copy that fails leaves its file as it was, removed or torn.
The system mounts the card on /storage/sdcard itself (`conf/fstab.odroidu2:9`); then a
`mount` of pseudorec-to-sd that fails changes nothing, which is no different from
one that works. If the card is not mounted, the rest of the script does nothing to
it, and that is what `Fails("mount", "none")` is. In recovery a failing mount is
the same for the second script. A failing `umount` of pseudorec-to-sd changes
nothing, the `sync` before it has written everything; one in recovery leaves the
restored script unwritten until the reboot. /sdcard is a link to /storage/sdcard
(`init.odroidu2.rc:13`), so the two paths of the script name one card. Left out is
the second script's wait for the block device.
`mishaps` records what a property has to except: the commands that failed, by
name; "early", the reboot came before the first script was done; "cut" and
"cutBack", the power went in the first script or in recovery; "again", the first
script ran on a boot script that was not the user's; "stale", a backup of an
earlier time was there, and the user has no script now. They are forgotten when
the first script begins with the user's script in place, and those of the second
script when recovery boots.

### GPS: state and actions

`svc`, `main` and `gps[t]` are where the threads are, `queue` is the socket.
Each write to the socket is an action of its own, since it may block. What a
thread does between two accesses to shared data is one action. A sentence is a
record of what the code tests in it; a fix is the set of its flags. Descriptors
are numbers, the lowest free one is given out, as `open(2)` does, and 0 is
taken: `init`'s memset leaves `state.fd` 0. `ctrl_state` is not a variable:
nothing assigns it after the memset, so `start_gps` always takes its first
branch and `stop_gps` its second.

Two gps threads may be in `nmea_reader_parse` at once. A sentence is `Parse`
(what it says of the fix is stored, or the list emptied: `NmeaReader!Read`), then
what `Follows` says: `FixIsDue` and `SvsChange` set a flag; `Count` is the test of
the loop over a GSV sentence's satellites, and `Load` and `Add` are the two halves
of `num_svs += 1`. `gsv[t]` holds the loop's local variables. Each of the three
callbacks is a test, a request, which blocks, and the emptying of what was told:
`TestFix`, `RequestLocation`, `EmptyFix`, and so on. By the time a request is
written what was tested may have changed. Still one step each, though they are a
few accesses: the fields of one sentence joining the fix, the two stores that
empty the list, those that empty the fix, and the conditions of one test. `in`
and `pos` are shared too; what two threads make of the buffer together is any of
the `Sentences`.

One life of the library is modelled, from init to cleanup. An interrupted
`epoll_wait` (fault "eintr") makes the loop look at an uninitialised or old
event: any of the three outcomes is possible. `reported`, `started`, `late`, `tail`,
`interrupts` and `crowded` are history; `tail[t]` counts the sentences that thread
t has parsed since the last stop, `interrupts` the interrupted waits of the main
loop, and `crowded` says that two threads were parsing at once and no thread has
emptied the list since while it was alone.

`NmeaFramer` keeps only lengths: `lineLen`, `last` and `before` record what the
receiver sent. The parser's discarding of sentences shorter than nine characters
is `MIN_SENTENCE`. `NmeaInput` adds the characters, of five kinds, and
`NmeaTokenizer` says what fields a sentence has; a token is the text between the
code's two pointers.

## 3. Runs

| Run | Question | Bounds |
|---|---|---|
| `camera_session` | One open, STREAMON or QBUF failing, or none: are buffers and session state balanced, is no NULL used as a frame, does the drain find its buffers, does every method return and the thread come back from every frame, is `PreviewSession` implemented? | 3 buffers, 1 window, both messages, 2 nodes, 1 fault |
| `camera_any_error` | Any two calls failing: do the two threads still keep apart, and is `CameraInv` invariant? | 2 buffers, 2 windows of which 1 abandoned, 2 nodes, 2 faults |
| `camera_lock_leak` (violation) | Does the thread come back when `dequeue_buffer` fails? | 1 fault |
| `memory_stream` | Does `closeStream` return, and with the whole picture? When is the signal missed, when does libjpeg meet a closed pipe? | pipe of 2, buffer of 4, pictures to 7 blocks, 2 faults |
| `camera_module` | What does a service that keeps to one camera, stops its preview and leaves sizes alone get, and what breaks without each? | 2 cameras, 3 opens, 2 sizes |
| `recovery_graphics` | Does the user see the last flip, untorn, and get the console back; what does it take to lose the process? | 2 pictures, 7 kinds of faults, 3 of them, one or two halves |
| `pseudo_recovery` | What does it take to lose the user's boot script, not to get it back, to be left without a system to boot; are recovery and then the user's system reached? | 2 scripts or none, 3 reboots into recovery, 2 power cuts, 2 failing commands |
| `nmea_input` | Which lines reach the parser, are they what was sent, and are its fields? | buffer of 5, lines to 7 of 5 kinds of characters, sentences from 2, 2 tokens |
| `gps_session` | Is the client told the status, is a location request answered? | 2 sessions, socket of 2, sentence RMC, callbacks location and NMEA |
| `gps_errors` | Callbacks, descriptors, `GpsInv` with failing opens, thread creations, hang-ups and interruptions | 2 sessions, socket of 2, 2 sentences per read, sentence GLL, callbacks location and satellites, 2 faults |
| `gps_sentences` | Is the satellite list bounded, whatever the order of sentences and calls, and with two threads in the reader? | 2 sessions, socket of 1, GSV groups of up to 2 satellites mixed with other sentences, a list of up to 4 |
| `gps_empty_fix` (violation) | Does a location callback find a fix? | 1 session, socket of 3, GGA, RMC in every variant, an unknown sentence and one too short |

Why the bounds are enough for the interesting cases. Three buffers let one be held
by the preview thread, one be left to capture and one be the buffer that the
drain's `- 1` leaves; two are enough where the properties do not count buffers.
Sessions are not counted: behaviours of the camera run for ever and a session
begins with what the last one left. Two faults are what it takes for a fault in a
teardown that a fault began. Two GPS sessions are what it takes for a thread of an
old session to meet a new descriptor with the old number, and two threads in the
reader at once. A socket of one or two commands fills up: with gps threads alive
every writer blocks in some state. Two satellites in view are what a thread needs
to count the first one while another counts too, and a list of four is beyond what
two threads that have passed the test together make of it. A buffer of five
characters has lines below, at, one above and further above its size, and `last`
and `before` reach two lines back, which is as far as an overrun carries; five
places are also enough for "$", a field, a comma and a checksum, or for one comma
more than there are tokens. A picture may be smaller than the pipe, between pipe
and buffer, exactly the buffer, and up to three blocks larger: each end of the
reader, with the writer blocked on the pipe or not. Three opens are an object
before, under and after the one in use. Three faults reach a second `gr_init` that
fails after a `gr_exit`, with a failed swap and a failed switch to text mode
besides. Three reboots and two power cuts reach a backup of the recovery script (a
cut, then the script again), a stale backup, and a cut in the repair of a cut. Two
failing commands are two in one script, or one in the script and one in recovery.
The theorems of section 5 take away these bounds where they are proved.

`CHECK_DEADLOCK FALSE` is said where the system may stop: in `camera_any_error`
and `camera_lock_leak` the code can hang or the process be gone (that is the
subject of `camera_lock_leak`), in `memory_stream` too; the GPS library ends
with cleanup; in `recovery_graphics` the process may be gone; in `camera_module` a
NULL call ends the process and opens are
bounded; in `pseudo_recovery` the board may be stuck. Elsewhere TLC checks that
something can always happen.

### What the properties say

Camera. `BufferConservation`: between frames the driver has every buffer, in a
frame all but the one in hand. `SessionClean`: with the preview off and no
method running there is no descriptor, mapping, count or flag left.
`DrainNeverStarves`: `Uninit` does not wait for a buffer the driver lacks; this
holds with a failed QBUF that was counted all the same, only because of the
`- 1`. `NeverNullFrame`: no frame is converted, and no picture sent, that is
NULL; like `BufferConservation` it is for pictures of a device that works, since a
QBUF that fails loses a buffer and yields a NULL picture, by the code's text.
`MethodsReturn`, `PreviewThreadLoops`: liveness. `DeviceExclusion`,
`OneLateFrame`, `WindowStable`: the
cooperation of the threads, with any calls failing. `ImplementsSession`: every
step is one of `PreviewSession` or none, under the mapping at the end of
`CameraHardware`.

Pictures. `PictureComplete`: when `closeStream` has returned the buffer holds the
picture, or all that fits, and the thread is done with it. `MissedSignalOnlyWhenFull`
is the exact condition of the hang: the lock, held from the close to the wait,
excludes every other way to miss the signal. `AliveIfItFits`, and `CloseReturns`
for a picture that leaves room.

Module. `NullCallOnlyTogether`, `PreviewUnderControl`, `FrameFits` (what the
preview thread reads from the parameters exceeds neither buffer), `SettingsKept`
(although put_parameters sets every string it ought to free).

Recovery. `ScreenShowsLastFlip` holds through any number of failed swaps once one
works; `NoTearing` only as long as none has failed; `ConsoleRestored` on each of
`gr_init`'s error paths and after `gr_exit`, unless the last KD_TEXT failed.
`FreedOnce`: an interface that is ready draws on, and frees, what its own `gr_init`
allocated, so that there are two ways to lose the process and no more: to draw
after an allocation that failed, which `gr_init` does not report, and a `gr_init`
that fails after a `gr_exit` and frees what that one freed.

`ScriptKept`: the user's boot script is whole in one of its two places, on the
card too. It is lost in three ways only: a power cut in the first script, whose
backup is not synced before `boot.scr` is overwritten; a failing copy to the
backup; or the first script run again over what it has left in `boot.scr` itself,
as after an early reboot, or what a failed restore has. An early reboot alone, a
cut in recovery and any other failing command do not lose it. `RestoresWhatWas`:
a restore that ran to its end without a failure puts that script back, and no
script if there was none, unless an old backup was there. `NeverStuck`: to leave
the board with nothing to boot takes an early reboot, a cut in the first script or
a failing copy of the image. `RecoveryReached`, its liveness, has two halves: who
asks for recovery gets there, and from there back to his own system with his own
boot script; each names the mishaps that prevent it.

GPS. `CallbackRegistered`: the main loop runs before the callbacks are stored and
calls them without a test. `OneLateCallback`: `EPOLLHUP` is looked at before
input, so what is queued when cleanup closes the socket is not obeyed, but for one
command each time the wait is interrupted. `QuietAfterStop`: after stop a thread
parses what it had read and no more, one read for each thread. `NoDescriptorLost`:
for a client that alternates start and stop. `StatusConverges`: requests may be
merged, but the client's idea of the status and the library's do not differ for
good; this is for opens that succeed, since a failing one leaves the status at
SESSION_BEGIN untold. `LocationAnswered`: from the moment the thread has decided
to ask, through its wait for room in the socket, to the callback. `SvListBounded`:
the list never exceeds what some sentence said is in view, however groups are cut,
repeated or mixed; when two threads parse at once nothing bounds it, and a group
that begins in a thread which is alone makes it hold again. Framing: `InSync`,
`SentenceIsLine`, `TokensAreFields` (each field the parser asks for by number is
the one the receiver put between those commas), and `LostOnlyAfterFull`, which
says precisely what the reader loses: the line after one of exactly
`NMEA_MAX_SIZE` characters, whose newline goes with the overrun.

### What the runs found

Two runs end in a behaviour that contradicts what the code says of itself
(`PROJECT.json`, "findings").

- `CameraHardware.cpp:198`: an error of `dequeue_buffer` returns with `mLock`
  held. The thread's next frame, and every locked method, wait for ever.
- `nmea_reader.c:691`: the fix is emptied after the callback was requested, and
  the callback reads the fix itself; it can be delivered with no flag set.

Further behaviours the models contain, that a maintainer should know, and that
no run is spent on: the test for an abandoned surface compares a negative errno
with `ENODEV`, and the surface is kept (`CameraHardware.cpp:153`); cleanup closes
the socket under the main loop, which then ends by the path that logs "terminated
unexpectedly" or waits in epoll for ever (`odroid_gps.c:465`); a picture that
fills the buffer hangs `takePicture`, and one that outgrows it ends the process
(`V4L2Camera.cpp:291, 297`); opening the second camera hides the first one's
object and its preview thread (`CameraHal_Module.cpp:387`); an early reboot or a
power cut, or a full card, can leave a board whose boot script loads an image that
is not there (`pseudorec-to-sd:10-12`); a backup that fails is followed by the
overwriting of what it should have saved (`:7-10`), and `setup-recovery` started
again after an early reboot saves a torn script over the good backup; a restore
that fails leaves a board that boots recovery again (`postrecoveryboot.sh:7-12`);
an old backup comes back to a user who has removed
his script (`pseudorec-to-sd:5`); `gr_init` returns 0 without memory to draw in
(`graphics.c:172`); `release()` does not release the device
(`CameraHardware.cpp:500`); `msgTypeEnabled` answers for any of the messages
where its comment says all (`:177`, `CameraHardware.h:86`); a failing `Open`
after `open()` leaks the descriptor (`V4L2Camera.cpp:48`); two starts lose a
descriptor and a stop before any start closes descriptor 0
(`odroid_gps.c:164, 209`); after start, stop, start two threads may feed one
reader (`:329`), and can count more satellites than were announced
(`nmea_reader.c:620-640`); the sentence callback finds the buffer empty or holding the
next line (`nmea_reader.c:749`); a year that is no number is 1999 (`:256`); gps
threads never end.

## 4. Fairness

Camera. Weak fairness of the service thread's steps, the preview thread's and the
driver's: a called method, a running thread and a capturing device go on. The
client is under no obligation. `SetStopped` alone is strongly fair: the preview
thread releases `mLock` between two frames and takes it again, so the lock is
free again and again but not continuously. A pthread mutex does not promise to
hand itself over in order; the assumption is only that a waiter is not passed
over for ever. Once `previewStopped` is set the thread stops taking the lock and
weak fairness is enough for the other two critical sections.

`MemoryStream`. Weak fairness of both threads: each step is one the scheduler
runs. A wait that returns by itself and the next picture are not fair.

`PseudoRecovery`. Weak fairness of the scripts' commands, the reboot after the
sleep, the boot loader, and of leaving recovery; not of the user or the power.

GPS. Strong fairness of the service's steps and of each gps thread's: a writer
that waits for room in the socket gets in sooner or later although others compete
for the room (the kernel wakes waiting writers). Weak fairness of the main loop.
The device need not send and nothing need fail; starting, stopping and cleaning up
are the client's choice.

## 5. Proofs

TLAPS checks the following for all values of the constants that satisfy the
named assumptions of the modules (`BufferAssumption`, `FaultAssumption`,
`WindowAssumption`, `NodeAssumption`, `SizeAssumption`, `SentencesAreRecords`,
`CallbackAssumption`, `RecoveryAssumption`, ...): any pool, any number of windows,
faults, sessions and threads.

- `TypeCorrect`: `TypeOK`. `V4L2Camera_proofs` proves once that every call of the
  class keeps the object's types (`CallKeepsCamType`); `CameraHardware_proofs`
  shows that each action makes one such call or none and handles the rest.
- `ControlCorrect`: `ControlInv`, the inductive invariant behind
  `DeviceExclusionHolds`, `WindowStableHolds` and `OneLateFrameHolds`. None of the
  three is inductive by itself. Exclusion needs to know who may be on the device
  without the lock (`DeviceInv`), that whoever is in a frame has the lock
  (`LockInv`), that `startPreview` and pictures find no thread (`ThreadInv`,
  `JobInv`). One late frame needs that a thread that has sent it has to pass the
  test of `previewStopped` again (`LateInv`), and that the flag stays set while
  the stop goes on (`JobInv`). The argument uses no call's success: it holds in
  every error path, those of `camera_lock_leak` included.
- `CameraCorrect`: `CameraInv`, which adds the device to `ControlInv`; from it
  `BufferConservationHolds` for all faults, and three properties that some faults
  do break. `FdInv` and `CountInv` say what the descriptor, the mappings and the
  counters are at each place of the two threads, `StreamInv` where capture is on,
  `FrameInv` that nothing is NULL, `DebtInv` that the counters exceed what the
  driver has by no more than the buffers whose QBUF failed.
  - `WorkingDevice`: `SessionClean`, `NeverNullFrame` and `DrainNeverStarves` up
    to the first call that fails, whichever may.
  - `SessionCleanHolds` when Init, STREAMOFF and `release()` are not what fails.
    These three are excluded because the code does leave something behind:
    `startPreview` closes the device after a failing Init without Uninit
    (`CameraHardware.cpp:269`), so that mappings and counts remain; a failing
    STREAMOFF leaves `isStreaming` set; and after `release()` has closed the
    descriptor STREAMOFF fails too.
  - `NeverNullFrameHolds` when DQBUF, STREAMOFF and `release()` are not: with
    `isStreaming` left set the next session never starts capture and its first
    DQBUF fails.
  - `DrainNeverStarvesHolds` when Init is not, and at most one QBUF fails: the `- 1`
    of the drain allows for one lost buffer; with two it may wait for ever.
- `SessionImplemented`: the refinement of `PreviewSession`, step by step from
  `TypeOK` and `ControlInv`.
- `StreamCorrect`: `StreamInv`, and from it `PictureCompleteHolds`,
  `MissedSignalHolds` and `AliveIfItFitsHolds`, for every size of pipe, buffer and
  picture. `FlowInv` says that what was written is in the pipe or stored, `EndInv`
  that the reader ends only when either the buffer is full or nothing can come any
  more, `WakeInv` that a reader which ended at the end of the pipe found the
  writer waiting.
- `ModuleCorrect`: `ModuleInv`, and from it `NullCallOnlyTogetherHolds`,
  `PreviewUnderControlHolds`, `FrameFitsHolds` and `SettingsKeptHolds`, for any
  number of opens and any sizes. `SingleInv` says that with one camera at a time
  the pointer names its object; `SizeInv` and `StringInv` that window, device and
  string still have the size of the parameters.
- `GraphicsCorrect`: `GraphicsInv`, and from it `ScreenShowsLastFlipHolds`,
  `ConsoleRestoredHolds`, `FreedOnceHolds` and `NoTearingHolds`, whichever of the
  seven kinds of calls fail and however often. `ConsoleInv` says that the console
  is in graphics mode only while the descriptor that can change it back is open,
  or changing it back has failed; `SurfaceInv` that the memory surface of an
  interface that is ready is live or was never there, and that `gr_exit` meets a
  stale pointer only in a `gr_init` that fails after a `gr_exit`; `ShownInv` that
  the active half holds the last picture and is the one shown, unless a swap
  failed.
- `RecoveryCorrect`: `RecoveryInv`, and from it `ScriptKeptHolds`,
  `RestoresWhatWasHolds` and `NeverStuckHolds`, for any scripts and any number of
  reboots, power cuts and failing commands. `PlaceInv` says that outside the
  scripts the card is as the system sees it, unless unmounting failed; `BackupInv`
  that from the end of a backup that worked until the restored script is on the
  card the backup is the user's; `ImageInv` that a card whose script boots
  recovery has the whole image, unless a copy of it failed. The safety properties
  are not inductive without them: a restore needs to know what is in the backup,
  and a reboot what the script that it interrupts has done.
- `FramingCorrect`: types, `InSync`, `LostOnlyAfterFull` and that no line too long
  is parsed, by `FramerInv`. `SkipInv` says why: while it skips, either the line
  is too long already or the line before was the one that filled the buffer.
- `InSyncHolds`, `LostOnlyAfterFullHolds`, `SentenceIsLineHolds`: the same of the
  reader with its characters, by `InputInv`, for any set of characters and any
  size of buffer. The buffer is the line because `pos` is its length, and that
  `overflow` has emptied it is `SkipInv` again.
- `TokensCorrect`: for every sentence, of any length, and any `MAX_NMEA_TOKENS`,
  the field the parser asks for by number is the one between those commas, and is
  empty when there is none or when it is beyond the last token. From it
  `TokensAreFieldsHolds`. `Split` is a recursive function, and the library's
  induction theorems cannot be used, so the induction is made by hand. That the
  function is defined is shown from its finite approximations (`SplitExists`,
  `SplitDefined`); that its value is right, from a least counterexample: were it
  wrong from some place of the sentence on, take the last such place
  (`MinOfNats`); from the comma after it on it is right, and one turn of the loop
  (`RestHolds`) makes it right there too (`SplitHolds`).
- `GpsInvHolds`: `GpsInv`. From it `CallbackRegisteredHolds`,
  `OneLateCallbackHolds`, `SvListBoundedHolds` and, for clients that alternate
  start and stop (`Disciplined`), `NoDescriptorLostHolds` and
  `QuietAfterStopHolds`: for any sentences, any number of sessions, threads and
  sentences in a read. The proof is in three layers, each inductive given the ones
  before: `ReaderInv` (types and what concerns the gps threads alone), then
  `CallbackInv`, then `DeviceInv` and `QuietInv`. In `ReaderInv`, `SendInv` says
  that a callback whose test has passed is stored for good, and `ListInv` what the
  satellite list rests on: a thread that is alone counts against a number some
  sentence gave and finds the list as its own test left it, so the load and the
  store come after a test that still holds. That is just what a second thread
  takes away, and the theorem says nothing of a list two threads are filling
  (`crowded`). In `CallbackInv`, `QueueInv` carries what is known of a callback
  from the moment its command is written to the moment it is read; `StoredInv`
  covers the writes that are about to be made; `LateInv` says that the callback
  the loop has already read a command for is its last but for interruptions;
  `ClosedInv` that a stopped client has no descriptor. `RoomInv` is what types
  need: each start opens one descriptor, so a number is free when `open` is
  called. `TodoInv`: a thread that parses has a sentence. Silence after stop needs
  that a thread which reads finds the descriptor open only if the client has not
  stopped (`ClosedInv`), that the descriptor it finds is not the 0 that `init`'s
  memset left in `state.fd` (`DeviceInv`), and that what it has parsed since the
  stop and what it has still to parse came with one read (`QuietInv`).
  `Disciplined` is not for convenience: two starts leave a descriptor open that no
  stop closes (`odroid_gps.c:164`).

Only model-checked: the liveness properties (`MethodsReturn`,
`PreviewThreadLoops`, `StatusConverges`, `LocationAnswered`, `CloseReturns`,
`RecoveryReached`), since liveness under fairness is outside what the prover
does, and the two violations of "findings". Every invariant and every action
property of a run is stated by a theorem, with the faults it excludes named in
its hypotheses. The type invariants are no run's property of their own: each is
a conjunct of an invariant that is proved.

## 6. Not modelled, and the plan

Planned, in order:

1. an abstract navigation session (status, fixes and silence after stop) that
   `OdroidGps` implements, with a proof of the refinement;
2. init after cleanup in `OdroidGps`, while threads of the first life go on.

Parts of modelled components that are left out: the thread `autoFocus` starts,
which uses the object without a lock and only calls the client
(`CameraHardware.cpp:356`); which frame a picture shows, though its buffer is given
back before it is encoded (`V4L2Camera.cpp:318`); the client's own locks, which the
callback under `mLock` (`:221`) may meet; calls that only log or answer a constant;
memory that is leaked (a device's tables, parameter strings, the framebuffer's
mapping); the parsing of numbers in NMEA fields.

Left out for good: pixel conversion (arithmetic without state), the generator of
update packages (a Python program that writes a package's script), the SD and eMMC
installers (sequences of copies), configuration and build files, logging.
