------------------------- MODULE CameraModule_proofs -------------------------
(***************************************************************************)
(* Theorems about CameraModule: what a service that opens one camera at a  *)
(* time gets from the one static pointer, for any number of opens and any  *)
(* sizes.                                                                  *)
(***************************************************************************)
EXTENDS CameraModule, TLAPS

\* With no object made, everything is as the module leaves it.
LEMMA InitInv == Init => ModuleInv
  <1> SUFFICES ASSUME Init PROVE ModuleInv
    OBVIOUS
  <1>1. ModuleTypeOK
    <2>1. MaxOpens \in Nat /\ MIN_SIZE \in Sizes
      BY ModuleAssumption
    <2>2. made \in 0 .. MaxOpens /\ V4L2CameraHardware \in {NULL} \cup 1 .. made
      BY <2>1 DEF Init, NULL
    <2>3. /\ size \in [Objects -> Sizes] /\ chosen \in Sizes
          /\ window \in [Objects -> Sizes \cup {NULL}]
          /\ device \in [Objects -> Sizes \cup {NULL}]
          /\ string \in [Cameras -> Sizes \cup {NULL}]
      BY <2>1 DEF Init
    <2> QED BY <2>2, <2>3 DEF Init, ModuleTypeOK
  <1>2. FreshInv /\ SingleInv /\ DeviceInv
    BY DEF Init, FreshInv, SingleInv, DeviceInv, This
  <1>3. StringInv /\ SizeInv
    BY DEF Init, StringInv, SizeInv
  <1>4. PreviewUnderControl /\ SettingsKept
    BY DEF Init, PreviewUnderControl, SettingsKept
  <1> QED BY <1>1, <1>2, <1>3, <1>4 DEF ModuleInv

\* Every step keeps every variable a value of its kind.
LEMMA StepType == ModuleTypeOK /\ [Next]_vars => ModuleTypeOK'
  <1> SUFFICES ASSUME ModuleTypeOK, [Next]_vars PROVE ModuleTypeOK'
    OBVIOUS
  <1> USE ModuleAssumption DEF ModuleTypeOK, Objects, This, NULL, Breaches
  <1>1. ASSUME NEW c \in Cameras, Open(c) PROVE ModuleTypeOK'
    <2>1. breaches' \subseteq Breaches
      BY <1>1 DEF Open, Note
    <2>2. made' = made + 1 /\ made' \in 0 .. MaxOpens
      BY <1>1 DEF Open
    <2>3. string' \in [Cameras -> Sizes \cup {NULL}] /\ chosen' \in Sizes
      BY <1>1 DEF Open
    <2> QED BY <1>1, <2>1, <2>2, <2>3 DEF Open
  <1>2. ASSUME NEW c \in Cameras, Close(c) \/ NullCall(c) PROVE ModuleTypeOK'
    <2>1. breaches' \subseteq Breaches
      BY <1>2 DEF Close, NullCall, Note
    <2> QED BY <1>2, <2>1 DEF Close, NullCall, settings
  <1>3. ASSUME NEW c \in Cameras,
               SetPreviewWindow(c) \/ StartPreview(c) \/ StopPreview(c)
        PROVE  ModuleTypeOK'
    BY <1>3 DEF SetPreviewWindow, StartPreview, StopPreview, Forward, ModuleVars
  <1>4. ASSUME NEW c \in Cameras, ServiceSetParameters(c) PROVE ModuleTypeOK'
    <2>1. breaches' \subseteq Breaches
      BY <1>4 DEF ServiceSetParameters
    <2>2. size' \in [Objects -> Sizes] /\ chosen' \in Sizes
      BY <1>4 DEF ServiceSetParameters, SetParameters
    <2> QED BY <1>4, <2>1, <2>2 DEF ServiceSetParameters, ModuleVars
  <1>5. ASSUME NEW c \in Cameras, GetParameters(c) PROVE ModuleTypeOK'
    BY <1>5 DEF GetParameters, Forward, ModuleVars
  <1>6. ASSUME NEW c \in Cameras, PutParameters(c) PROVE ModuleTypeOK'
    <2>1. string[c] \in Sizes
      BY <1>6 DEF PutParameters
    <2>2. /\ size' \in [Objects -> Sizes]
          /\ string' \in [Cameras -> Sizes \cup {NULL}]
      BY <1>6, <2>1 DEF PutParameters, SetParameters
    <2> QED BY <1>6, <2>2 DEF PutParameters, ModuleVars
  <1>7. CASE UNCHANGED vars
    BY <1>7 DEF vars, settings
  <1> QED BY <1>1, <1>2, <1>3, <1>4, <1>5, <1>6, <1>7 DEF Next

\* A service that has kept to a contract so far kept to it before.
LEMMA KeptBefore ==
    ASSUME NEW contract, breaches \subseteq breaches', Kept(contract)'
    PROVE  Kept(contract)
  BY DEF Kept

\* Opening a camera: the object is new, and no other camera is open unless
\* the service opened both.
LEMMA OpenInv ==
    ASSUME ModuleInv, ModuleTypeOK', NEW c \in Cameras, Open(c)
    PROVE  ModuleInv'
  <1> USE ModuleAssumption DEF ModuleTypeOK, Objects, This, NULL
  <1>1. /\ This' = made + 1 /\ opened' = opened \cup {c}
        /\ UNCHANGED <<preview, size, window, device, crashed>>
        /\ breaches \subseteq breaches'
        /\ string' = [string EXCEPT ![c] = NULL] /\ chosen' = MIN_SIZE
    BY DEF Open, Note
  <1>2. ASSUME Kept({"together"})' PROVE opened = {}
    BY <1>2 DEF Open, Note, Kept
  <1>3. FreshInv' /\ DeviceInv' /\ SizeInv'
    BY <1>1, KeptBefore DEF ModuleInv, FreshInv, DeviceInv, SizeInv, Open
  <1>4. SingleInv'
    BY <1>1, <1>2, KeptBefore DEF ModuleInv, SingleInv
  <1>5. size[This'] = MIN_SIZE
    BY <1>1 DEF ModuleInv, FreshInv, Open
  <1>6. StringInv' /\ SettingsKept'
    BY <1>1, <1>2, <1>5 DEF StringInv, SettingsKept, Kept
  <1>7. PreviewUnderControl'
    BY <1>1, <1>2, KeptBefore
       DEF ModuleInv, PreviewUnderControl, SingleInv, Kept
  <1> QED BY <1>3, <1>4, <1>6, <1>7 DEF ModuleInv

\* Closing one: with one camera open, its object is the one deleted, and its
\* preview is off unless the service left it on.
LEMMA CloseInv ==
    ASSUME ModuleInv, ModuleTypeOK', NEW c \in Cameras, Close(c)
    PROVE  ModuleInv'
  <1> USE DEF ModuleTypeOK, This, NULL
  <1>1. /\ This' = NULL /\ opened' = opened \ {c} /\ c \in opened
        /\ UNCHANGED <<made, preview, size, window, device, string, chosen,
                       crashed>>
        /\ breaches \subseteq breaches'
    BY DEF Close, Note, settings
  <1>2. ASSUME Kept({"together"})' PROVE opened' = {}
    BY <1>1, <1>2, KeptBefore DEF ModuleInv, SingleInv
  <1>3. FreshInv' /\ DeviceInv' /\ SizeInv'
    BY <1>1, KeptBefore DEF ModuleInv, FreshInv, DeviceInv, SizeInv
  <1>4. SingleInv' /\ StringInv' /\ SettingsKept'
    BY <1>1, <1>2, KeptBefore
       DEF ModuleInv, SingleInv, StringInv, SettingsKept, Kept
  <1>5. PreviewUnderControl'
    <2> SUFFICES ASSUME Kept({"together", "unstopped"})' PROVE preview = {}
      BY <1>1 DEF PreviewUnderControl
    <2>1. preview \subseteq {This}
      BY <1>1, KeptBefore DEF ModuleInv, PreviewUnderControl
    <2>2. ~(This # NULL /\ device[This] # NULL)
      BY DEF Close, Note, Kept
    <2> QED BY <2>1, <2>2 DEF ModuleInv, DeviceInv
  <1> QED BY <1>3, <1>4, <1>5 DEF ModuleInv

\* Window and preview: what they are given is the size of the parameters.
LEMMA PreviewInv ==
    ASSUME ModuleInv, ModuleTypeOK', NEW c \in Cameras,
           SetPreviewWindow(c) \/ StartPreview(c) \/ StopPreview(c)
    PROVE  ModuleInv'
  <1> USE ModuleAssumption DEF ModuleTypeOK, Objects, This, NULL
  <1>1. UNCHANGED <<opened, V4L2CameraHardware, made, crashed, size, string,
                    chosen, breaches>>
    BY DEF SetPreviewWindow, StartPreview, StopPreview, ModuleVars
  <1>2. SingleInv' /\ StringInv' /\ SettingsKept'
    BY <1>1 DEF ModuleInv, SingleInv, StringInv, SettingsKept, Kept
  <1>3. FreshInv' /\ DeviceInv'
    BY <1>1 DEF ModuleInv, FreshInv, DeviceInv, Forward,
                SetPreviewWindow, StartPreview, StopPreview
  <1>4. SizeInv'
    BY <1>1 DEF ModuleInv, SizeInv, Kept,
                SetPreviewWindow, StartPreview, StopPreview
  <1>5. PreviewUnderControl'
    BY <1>1 DEF ModuleInv, PreviewUnderControl, Kept,
                SetPreviewWindow, StartPreview, StopPreview
  <1> QED BY <1>2, <1>3, <1>4, <1>5 DEF ModuleInv

\* A size the service sets: unless it differs from what window and device
\* have, or a string is out, nothing comes apart.
LEMMA SetInv ==
    ASSUME ModuleInv, ModuleTypeOK', NEW c \in Cameras, ServiceSetParameters(c)
    PROVE  ModuleInv'
  <1> USE ModuleAssumption DEF ModuleTypeOK, Objects, This, NULL
  <1>1. PICK s \in Sizes :
          /\ size' = [size EXCEPT ![This] = s] /\ chosen' = s
          /\ breaches' = breaches
               \cup {b \in {"resized"} : window[This] \notin {NULL, s}
                                          \/ device[This] \notin {NULL, s}}
               \cup {b \in {"overlap"} : \E d \in Cameras : string[d] # NULL}
    BY DEF ServiceSetParameters, SetParameters
  <1>2. /\ UNCHANGED <<opened, V4L2CameraHardware, made, crashed, preview,
                       window, device, string>>
        /\ This # NULL
    BY DEF ServiceSetParameters, ModuleVars, Forward
  <1>3. breaches \subseteq breaches'
    BY <1>1
  <1>4. FreshInv' /\ DeviceInv'
    BY <1>1, <1>2 DEF ModuleInv, FreshInv, DeviceInv
  <1>5. SingleInv' /\ PreviewUnderControl'
    BY <1>2, <1>3, KeptBefore DEF ModuleInv, SingleInv, PreviewUnderControl
  <1>6. StringInv' /\ SettingsKept'
    <2>1. ASSUME Kept({"together", "overlap"})'
          PROVE  \A d \in Cameras : string[d] = NULL
      BY <1>1, <2>1 DEF Kept
    <2> QED BY <1>1, <1>2, <2>1 DEF StringInv, SettingsKept
  <1>7. SizeInv'
    <2> SUFFICES ASSUME Kept({"together", "resized", "overlap"})',
                        NEW o \in Objects
                 PROVE  device[o] \in {NULL, size'[o]} /\ window[o] \in {NULL, size'[o]}
      BY <1>2 DEF SizeInv
    <2>1. CASE o = This
      BY <1>1, <1>2, <2>1 DEF Kept
    <2>2. CASE o # This
      BY <1>1, <1>3, <2>2, KeptBefore DEF ModuleInv, SizeInv
    <2> QED BY <2>1, <2>2
  <1> QED BY <1>4, <1>5, <1>6, <1>7 DEF ModuleInv

\* A string that is given back: it says what the object has already.
LEMMA PutInv ==
    ASSUME ModuleInv, ModuleTypeOK', NEW c \in Cameras,
           GetParameters(c) \/ PutParameters(c)
    PROVE  ModuleInv'
  <1> USE ModuleAssumption DEF ModuleTypeOK, Objects, This, NULL
  <1>1. /\ UNCHANGED <<opened, V4L2CameraHardware, made, crashed, preview,
                       window, device, chosen, breaches>>
        /\ c \in opened /\ This # NULL
    BY DEF GetParameters, PutParameters, ModuleVars, Forward
  <1>2. FreshInv' /\ DeviceInv'
    BY <1>1 DEF ModuleInv, FreshInv, DeviceInv, GetParameters, PutParameters,
                SetParameters
  <1>3. SingleInv' /\ PreviewUnderControl'
    BY <1>1 DEF ModuleInv, SingleInv, PreviewUnderControl, Kept
  <1>4. ASSUME Kept({"together", "overlap"}) PROVE size' = size
    BY <1>1, <1>4 DEF ModuleInv, StringInv, GetParameters, PutParameters,
                      SetParameters
  <1>5. StringInv' /\ SettingsKept'
    BY <1>1, <1>4 DEF ModuleInv, StringInv, SettingsKept, Kept,
                      GetParameters, PutParameters
  <1>6. SizeInv'
    BY <1>1, <1>4 DEF ModuleInv, SizeInv, Kept
  <1> QED BY <1>2, <1>3, <1>5, <1>6 DEF ModuleInv

\* Every step keeps ModuleInv.
LEMMA StepInv == ModuleInv /\ [Next]_vars => ModuleInv'
  <1> SUFFICES ASSUME ModuleInv, [Next]_vars PROVE ModuleInv'
    OBVIOUS
  <1>1. ModuleTypeOK'
    BY StepType DEF ModuleInv
  <1>2. ASSUME NEW c \in Cameras, NullCall(c) PROVE ModuleInv'
    <2>1. UNCHANGED <<opened, V4L2CameraHardware, made, preview, settings,
                      breaches>>
      BY <1>2 DEF NullCall
    <2>2. ~Kept({"together"})
      BY <1>2 DEF NullCall, ModuleInv, SingleInv, This
    <2> QED
      BY <1>1, <2>1, <2>2
         DEF ModuleInv, FreshInv, SingleInv, DeviceInv, StringInv, SizeInv,
             PreviewUnderControl, SettingsKept, Kept, This, settings
  <1>3. CASE UNCHANGED vars
    BY <1>1, <1>3
       DEF ModuleInv, FreshInv, SingleInv, DeviceInv, StringInv, SizeInv,
           PreviewUnderControl, SettingsKept, Kept, This, settings, vars
  <1> QED
    BY <1>1, <1>2, <1>3, OpenInv, CloseInv, PreviewInv, SetInv, PutInv DEF Next

\* The inductive invariant holds for any number of opens and any sizes.
THEOREM ModuleCorrect == ModuleSpec => []ModuleInv
  BY InitInv, StepInv, PTL DEF ModuleSpec

\* One camera at a time: no call goes through the NULL pointer.
THEOREM NullCallOnlyTogetherHolds == ModuleSpec => []NullCallOnlyTogether
  <1>1. ModuleInv => NullCallOnlyTogether
    BY DEF ModuleInv, SingleInv, NullCallOnlyTogether, Kept
  <1> QED BY <1>1, ModuleCorrect, PTL

\* One camera at a time, its preview stopped before it is closed: a preview
\* that runs is the current object's and can be stopped.
THEOREM PreviewUnderControlHolds == ModuleSpec => []PreviewUnderControl
  <1>1. ModuleInv => PreviewUnderControl
    BY DEF ModuleInv
  <1> QED BY <1>1, ModuleCorrect, PTL

\* While no size is set that the window or the device does not have, nor
\* between a get and its put, a frame fits where it is read and written.
THEOREM FrameFitsHolds == ModuleSpec => []FrameFits
  <1>1. ModuleInv => FrameFits
    <2> SUFFICES ASSUME ModuleInv, Kept({"together", "resized", "overlap"}),
                        NEW o \in preview
                 PROVE  /\ size[o] <= device[o]
                        /\ window[o] # NULL => size[o] <= window[o]
      BY DEF FrameFits
    <2>1. o \in Objects /\ size[o] \in Nat
      <3>1. o \in 1 .. made /\ made \in 0 .. MaxOpens
        BY DEF ModuleInv, ModuleTypeOK
      <3>2. o \in Objects
        BY <3>1, ModuleAssumption DEF Objects
      <3> QED BY <3>2, ModuleAssumption DEF ModuleInv, ModuleTypeOK
    <2>2. device[o] = size[o] /\ window[o] \in {NULL, size[o]}
      BY <2>1 DEF ModuleInv, SizeInv, DeviceInv
    <2> QED BY <2>1, <2>2
  <1> QED BY <1>1, ModuleCorrect, PTL

\* The size the service set is the object's, although every string handed out
\* is set again.
THEOREM SettingsKeptHolds == ModuleSpec => []SettingsKept
  <1>1. ModuleInv => SettingsKept
    BY DEF ModuleInv
  <1> QED BY <1>1, ModuleCorrect, PTL
=============================================================================
