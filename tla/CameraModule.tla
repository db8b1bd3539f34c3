---------------------------- MODULE CameraModule ----------------------------
(***************************************************************************)
(* CameraHal_Module.cpp: the functions the camera service calls through    *)
(* the module and the devices it opens.  Two cameras are reported, each    *)
(* opened as a device of its own, but all devices forward to one static    *)
(* pointer: every open makes a new CameraHardware and drops the old        *)
(* pointer, every close deletes whatever the pointer names.                *)
(*                                                                         *)
(* Of a CameraHardware only what outlives a call is kept: whether its      *)
(* preview runs, the preview size in its parameters, and the sizes its     *)
(* window and its capture device were given.  CameraHardware.tla has the   *)
(* calls in detail.                                                        *)
(***************************************************************************)
EXTENDS Naturals

CONSTANTS
    MaxOpens,   \* bound: devices opened in one behaviour
    Sizes       \* preview sizes, in units of the smallest

MIN_SIZE == 1   \* MIN_WIDTH x MIN_HEIGHT
NULL == 0

ASSUME ModuleAssumption ==
    MaxOpens \in Nat /\ Sizes \subseteq Nat \ {0} /\ MIN_SIZE \in Sizes

\* camera_get_number_of_cameras; camera_device_open accepts the same numbers.
Cameras == 0 .. 1
Objects == 1 .. MaxOpens

VARIABLES
    opened,              \* cameras whose device the service has
    V4L2CameraHardware,  \* the static pointer
    made, deleted,       \* how many objects were made, which are deleted
    preview,             \* objects whose preview thread runs
    size,                \* preview size in mParameters, per object
    window, device,      \* size the window and the capture device have
    string,              \* size in the string get_parameters gave a camera
    crashed,             \* a call went through the NULL pointer
    breaches,            \* history: what the service did against its contract
    chosen               \* history: size the service last set

settings == <<size, window, device, string, chosen>>
vars == <<opened, V4L2CameraHardware, made, deleted, preview, settings,
          crashed, breaches>>

Breaches == {"together",  \* two cameras open at once
             "unstopped", \* a device closed with its preview on
             "resized",   \* a size set that the window does not have
             "overlap"}   \* parameters set between a get and its put

\* Every variable holds a value of its kind.
ModuleTypeOK ==
    /\ opened \subseteq Cameras
    /\ V4L2CameraHardware \in {NULL} \cup 1 .. made
    /\ made \in 0 .. MaxOpens
    /\ deleted \subseteq 1 .. made
    /\ preview \subseteq 1 .. made
    /\ size \in [Objects -> Sizes]
    /\ window \in [Objects -> Sizes \cup {NULL}]
    /\ device \in [Objects -> Sizes \cup {NULL}]
    /\ string \in [Cameras -> Sizes \cup {NULL}]
    /\ crashed \in BOOLEAN
    /\ breaches \subseteq Breaches
    /\ chosen \in Sizes

Init ==
    /\ opened = {} /\ V4L2CameraHardware = NULL
    /\ made = 0 /\ deleted = {}
    /\ preview = {}
    /\ size = [o \in Objects |-> MIN_SIZE]
    /\ window = [o \in Objects |-> NULL]
    /\ device = [o \in Objects |-> NULL]
    /\ string = [c \in Cameras |-> NULL]
    /\ crashed = FALSE /\ breaches = {} /\ chosen = MIN_SIZE

\* The object a call reaches.
This == V4L2CameraHardware

\* History: b is a breach if the condition holds.
Note(b, condition) ==
    breaches' = IF condition THEN breaches \cup {b} ELSE breaches

----------------------------------------------------------------------------
(* Opening and closing.  "assume camera service will keep singleton of     *)
(* each camera": a camera is not opened twice.  A number out of range or a *)
(* failing malloc returns an error and changes nothing.                    *)

\* Mutant: no object is made.
Open_NoObject(c) ==
    /\ c \notin opened /\ ~crashed
    /\ made < MaxOpens
    /\ opened' = opened \cup {c}
    /\ made' = made + 1
    /\ string' = [string EXCEPT ![c] = NULL]
    /\ chosen' = MIN_SIZE
    /\ Note("together", opened # {})
    /\ UNCHANGED <<V4L2CameraHardware, deleted, preview, size, window, device, crashed>>

\* camera_device_open.  A string is given back only to the device it came
\* from, so one that an earlier device handed out is forgotten.
Open(c) ==
    /\ c \notin opened /\ ~crashed
    /\ made < MaxOpens
    /\ opened' = opened \cup {c}
    /\ made' = made + 1
    /\ V4L2CameraHardware' = made + 1
    /\ string' = [string EXCEPT ![c] = NULL]
    /\ chosen' = MIN_SIZE
    /\ Note("together", opened # {})
    /\ UNCHANGED <<deleted, preview, size, window, device, crashed>>

\* camera_device_close: the destructor of CameraHardware stops nothing.
Close(c) ==
    /\ c \in opened /\ ~crashed
    /\ opened' = opened \ {c}
    /\ deleted' = deleted \cup ({V4L2CameraHardware} \ {NULL})
    /\ V4L2CameraHardware' = NULL
    /\ Note("unstopped", This # NULL /\ device[This] # NULL)
    /\ UNCHANGED <<made, preview, settings, crashed>>

----------------------------------------------------------------------------
(* Calls that are forwarded to the object, whichever camera they are for.  *)

Forward(c) == c \in opened /\ ~crashed /\ V4L2CameraHardware # NULL
ModuleVars == <<opened, V4L2CameraHardware, made, deleted, crashed>>

\* Any of them when the pointer is NULL.
NullCall(c) ==
    /\ c \in opened /\ ~crashed /\ V4L2CameraHardware = NULL
    /\ crashed' = TRUE
    /\ UNCHANGED <<opened, V4L2CameraHardware, made, deleted, preview,
                   settings, breaches>>

\* Mutant: the window keeps the geometry it had.
SetPreviewWindow_NoGeometry(c) ==
    /\ Forward(c)
    /\ window' = [window EXCEPT ![This] = IF @ = NULL THEN MIN_SIZE ELSE @]
    /\ UNCHANGED <<ModuleVars, preview, size, device, string, chosen, breaches>>

\* camera_set_preview_window: the window gets the geometry of the parameters,
\* or there is none any more.
SetPreviewWindow(c) ==
    /\ Forward(c)
    /\ \E s \in {NULL, size[This]} : window' = [window EXCEPT ![This] = s]
    /\ UNCHANGED <<ModuleVars, preview, size, device, string, chosen, breaches>>

\* camera_start_preview: a capture device is opened with the size of the
\* parameters, unless the preview runs.
StartPreview(c) ==
    /\ Forward(c)
    /\ This \notin preview
    /\ preview' = preview \cup {This}
    /\ device' = [device EXCEPT ![This] = size[This]]
    /\ UNCHANGED <<ModuleVars, size, window, string, chosen, breaches>>

\* Mutant: the thread goes on.
StopPreview_KeepsThread(c) ==
    /\ Forward(c)
    /\ device' = [device EXCEPT ![This] = NULL]
    /\ UNCHANGED <<ModuleVars, preview, size, window, string, chosen, breaches>>

\* camera_stop_preview, and camera_take_picture, which stops the preview.
StopPreview(c) ==
    /\ Forward(c)
    /\ This \in preview
    /\ preview' = preview \ {This}
    /\ device' = [device EXCEPT ![This] = NULL]
    /\ UNCHANGED <<ModuleVars, size, window, string, chosen, breaches>>

\* What setParameters does to the object.
SetParameters(s) == size' = [size EXCEPT ![This] = s]

\* camera_set_parameters.
ServiceSetParameters(c) ==
    /\ Forward(c)
    /\ \E s \in Sizes :
        /\ SetParameters(s)
        /\ chosen' = s
        /\ breaches' = breaches
             \cup {b \in {"resized"} : window[This] \notin {NULL, s}
                                        \/ device[This] \notin {NULL, s}}
             \cup {b \in {"overlap"} : \E d \in Cameras : string[d] # NULL}
    /\ UNCHANGED <<ModuleVars, preview, window, device, string>>

\* Mutant: the string holds the defaults.
GetParameters_Default(c) ==
    /\ Forward(c)
    /\ string[c] = NULL
    /\ string' = [string EXCEPT ![c] = MIN_SIZE]
    /\ UNCHANGED <<ModuleVars, preview, size, window, device, chosen, breaches>>

\* camera_get_parameters hands out a string, and camera_put_parameters, which
\* is to free it, sets the object's parameters to it instead.
GetParameters(c) ==
    /\ Forward(c)
    /\ string[c] = NULL
    /\ string' = [string EXCEPT ![c] = size[This]]
    /\ UNCHANGED <<ModuleVars, preview, size, window, device, chosen, breaches>>

PutParameters(c) ==
    /\ Forward(c)
    /\ string[c] # NULL
    /\ SetParameters(string[c])
    /\ string' = [string EXCEPT ![c] = NULL]
    /\ UNCHANGED <<ModuleVars, preview, window, device, chosen, breaches>>

Next ==
    \E c \in Cameras :
        \/ Open(c) \/ Close(c) \/ NullCall(c)
        \/ SetPreviewWindow(c) \/ StartPreview(c) \/ StopPreview(c)
        \/ ServiceSetParameters(c) \/ GetParameters(c) \/ PutParameters(c)

ModuleSpec == Init /\ [][Next]_vars

----------------------------------------------------------------------------
(* Properties.  Each says which breach it needs to fail: a service that    *)
(* opens one camera at a time and stops its preview before it closes is    *)
(* served well by the one pointer.                                         *)

Kept(contract) == breaches \cap contract = {}

\* No call goes through the NULL pointer that a close leaves behind, unless
\* both cameras were open together and the other one was closed.
NullCallOnlyTogether == Kept({"together"}) => ~crashed

\* Every preview that runs can be stopped: its object is the one that the
\* calls reach, not a deleted one nor one that a second open has hidden.
PreviewUnderControl ==
    Kept({"together", "unstopped"}) => preview \subseteq {This}

\* The size previewThread converts a frame with, which it reads from the
\* parameters at every frame, exceeds neither the frame of the capture
\* device nor the buffer of the window.  Giving a string back late breaks it
\* as changing the size does.
FrameFits ==
    Kept({"together", "resized", "overlap"}) =>
        \A o \in preview : /\ size[o] <= device[o]
                          /\ window[o] # NULL => size[o] <= window[o]

\* The size the service set is the size the object has, although every
\* string handed out is set again when it is given back.
SettingsKept ==
    Kept({"together", "overlap"}) /\ opened # {} => size[This] = chosen

\* Why they hold.  With one camera at a time the pointer names the object of
\* the camera that is open.  An object nobody has reached yet is as it was
\* made; a preview that runs has a device; what the window, the device and
\* the string handed out last were given is still the size in the parameters.
FreshInv  == \A o \in Objects : o > made =>
                 size[o] = MIN_SIZE /\ device[o] = NULL /\ window[o] = NULL
SingleInv == Kept({"together"}) =>
                 /\ ~crashed
                 /\ opened = {} <=> This = NULL
                 /\ \A c, d \in opened : c = d
DeviceInv == \A o \in preview : device[o] # NULL
StringInv == Kept({"together", "overlap"}) =>
                 \A c \in opened : string[c] # NULL => string[c] = size[This]
SizeInv   == Kept({"together", "resized", "overlap"}) =>
                 \A o \in Objects : /\ device[o] \in {NULL, size[o]}
                                    /\ window[o] \in {NULL, size[o]}
ModuleInv == /\ ModuleTypeOK /\ FreshInv /\ SingleInv /\ DeviceInv
             /\ StringInv /\ SizeInv
             /\ PreviewUnderControl /\ SettingsKept
=============================================================================
