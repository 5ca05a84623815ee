---------------------------- MODULE SessionProofs ----------------------------
(***************************************************************************)
(* The session of a McuBoot object, for any devices, ports and bridges.    *)
(* The heart of it is that reopen_args never belongs to another request    *)
(* than the last one open_usb granted: reset may use it at any time.       *)
(***************************************************************************)
EXTENDS Session, FiniteSetTheorems, TLAPS

\* What reset would open is what was asked for, or nothing was asked for by path.
ReopenIsAsked == asked \in {reopen, Nothing}

\* What is proved of every step.
SessionInv == TypeOK /\ ReopenIsAsked /\ AskedDevice

-----------------------------------------------------------------------------

\* A set that counts one has the element that is chosen from it.
LEMMA OneIsThere ==
    ASSUME NEW S, Cardinality(S) = 1
    PROVE  (CHOOSE d \in S : TRUE) \in S
<1>1. S # {}
  BY FS_EmptySet
<1>. QED
  BY <1>1

\* With a path, RawHID.enumerate finds one device at most.
LEMMA PathIsUnique ==
    ASSUME NEW vidPid, NEW path, path # None
    PROVE  /\ Cardinality(enumerate(vidPid, path)) \in {0, 1}
           /\ enumerate(vidPid, path) \subseteq {path}
<1>1. enumerate(vidPid, path) \in {{}, {path}}
  BY DEF enumerate
<1>. QED
  BY <1>1, FS_EmptySet, FS_Singleton

\* What open_usb looks for.
Target(tuple, path) == IF path # None THEN Tuple(None, path) ELSE tuple
Matching(target)    == enumerate(target.vidPid, target.path)

\* open_usb leaves the session as it is, or opens a device that matches.
LEMMA OpenUsbCases ==
    ASSUME NEW tuple, NEW path, NEW request, open_usb(tuple, path, request)
    PROVE  \/ /\ UNCHANGED <<itf, current, reopen, asked>>
              /\ \/ ret' = "failed"
                 \/ /\ ret' = "raised"
                    /\ \/ Target(tuple, path) = Nothing
                       \/ Cardinality(Matching(Target(tuple, path))) > 1
           \/ \E d \in Matching(Target(tuple, path)) :
                /\ itf' = Itf("USB", d, TRUE)
                /\ current' = "USB" /\ reopen' = tuple /\ asked' = request
                /\ ret' = "opened"
<1>. DEFINE found  == Matching(Target(tuple, path))
            chosen == CHOOSE d \in found : TRUE
<1>1. \/ /\ UNCHANGED <<itf, current, reopen, asked>>
         /\ \/ ret' = "failed"
            \/ /\ ret' = "raised"
               /\ Target(tuple, path) = Nothing \/ Cardinality(found) > 1
      \/ /\ Cardinality(found) = 1
         /\ itf' = Itf("USB", chosen, TRUE)
         /\ current' = "USB" /\ reopen' = tuple /\ asked' = request
         /\ ret' = "opened"
  BY Zenon DEF open_usb, Target, Matching
<1>2. Cardinality(found) = 1 => chosen \in found
  BY OneIsThere
<1>. QED
  BY <1>1, <1>2, Zenon

\* The devices open_usb may choose from are USB devices that match.
LEMMA Enumerated ==
    ASSUME NEW vidPid, NEW path, NEW d \in enumerate(vidPid, path)
    PROVE  /\ d \in Hid /\ d \in Devices
           /\ vidPid # None => VidPid[d] = vidPid
           /\ path # None => d = path
BY DEF enumerate, Devices

\* An opened interface is a value of itf.
LEMMA ItfType ==
    ASSUME NEW kind \in Kinds, NEW dev \in Devices, NEW open \in BOOLEAN
    PROVE  /\ Itf(kind, dev, open) \in [kind : Kinds, dev : Devices, open : BOOLEAN]
           /\ Itf(kind, dev, open) # None
           /\ Itf(kind, dev, open).kind = kind
           /\ Itf(kind, dev, open).dev = dev
           /\ Itf(kind, dev, open).open = open
<1>1. Itf(kind, dev, open) \in [kind : Kinds, dev : Devices, open : BOOLEAN]
  BY DEF Itf
<1>2. Itf(kind, dev, open) # None
  BY <1>1, NoneAssumption
<1>. QED
  BY <1>1, <1>2 DEF Itf

-----------------------------------------------------------------------------

\* A new McuBoot object has no interface: the invariant holds at the start.
LEMMA InitInv == Init => SessionInv
<1>. SUFFICES ASSUME Init
              PROVE  SessionInv
  OBVIOUS
<1>1. TypeOK
  BY DEF Init, TypeOK
<1>2. ReopenIsAsked /\ AskedDevice
  BY DEF Init, ReopenIsAsked, AskedDevice
<1>. QED
  BY <1>1, <1>2 DEF SessionInv

\* open_usb keeps the invariant, whoever calls it: the caller asks for what is in
\* the tuple, or has no claim on a vid or pid.
LEMMA OpenUsbInv ==
    ASSUME SessionInv, NEW tuple \in Tuples \cup {Nothing}, NEW path \in Hid \cup {None},
           NEW request, request \in {tuple, Nothing}, path # None => request = Nothing,
           open_usb(tuple, path, request), pc' = "idle", UNCHANGED present
    PROVE  SessionInv'
<1>1. CASE UNCHANGED <<itf, current, reopen, asked>> /\ ret' \in {"raised", "failed"}
  <2>1. TypeOK'
    BY <1>1 DEF SessionInv, TypeOK
  <2>2. ReopenIsAsked' /\ AskedDevice'
    BY <1>1 DEF SessionInv, ReopenIsAsked, AskedDevice
  <2>. QED
    BY <2>1, <2>2 DEF SessionInv
<1>2. ASSUME NEW d \in Matching(Target(tuple, path)),
             itf' = Itf("USB", d, TRUE), current' = "USB", reopen' = tuple,
             asked' = request, ret' = "opened"
      PROVE  SessionInv'
  <2>1. d \in Devices
    BY Enumerated DEF Matching
  <2>2. itf' \in [kind : Kinds, dev : Devices, open : BOOLEAN] /\ itf'.dev = d
    BY <1>2, <2>1, ItfType DEF Kinds
  <2>3. Nothing \in Tuples \cup {Nothing}
    OBVIOUS
  <2>4. TypeOK'
    BY <1>2, <2>2, <2>3 DEF SessionInv, TypeOK, Kinds
  <2>5. ReopenIsAsked'
    BY <1>2 DEF ReopenIsAsked
  <2>6. AskedDevice'
    <3>1. CASE request = Nothing
      BY <1>2, <3>1 DEF AskedDevice, Nothing, Tuple
    <3>2. CASE request = tuple /\ path = None
      <4>1. d \in enumerate(tuple.vidPid, tuple.path)
        BY <3>2 DEF Matching, Target
      <4>2. /\ tuple.vidPid # None => VidPid[d] = tuple.vidPid
            /\ tuple.path # None => d = tuple.path
        BY <4>1 DEF enumerate
      <4>. QED
        BY <1>2, <2>2, <3>2, <4>2 DEF AskedDevice
    <3>. QED
      BY <3>1, <3>2
  <2>. QED
    BY <2>4, <2>5, <2>6 DEF SessionInv
<1>3. \/ UNCHANGED <<itf, current, reopen, asked>> /\ ret' \in {"raised", "failed"}
      \/ \E d \in Matching(Target(tuple, path)) :
           /\ itf' = Itf("USB", d, TRUE)
           /\ current' = "USB" /\ reopen' = tuple /\ asked' = request
           /\ ret' = "opened"
  BY OpenUsbCases, Zenon
<1>. QED
  BY <1>1, <1>2, <1>3

\* Every method of the object, and every change of the bus, preserves the invariant.
LEMMA StepInv == SessionInv /\ [Next]_vars => SessionInv'
<1>. SUFFICES ASSUME SessionInv, [Next]_vars
              PROVE  SessionInv'
  OBVIOUS
<1>1. ASSUME NEW tuple \in Tuples \cup {Nothing}, NEW path \in Hid \cup {None},
             OpenUsb(tuple, path)
      PROVE  SessionInv'
  <2>1. /\ open_usb(tuple, path, IF path = None THEN tuple ELSE Nothing)
        /\ pc' = "idle" /\ UNCHANGED present
    BY <1>1 DEF OpenUsb
  <2>. QED
    BY <2>1, OpenUsbInv
<1>2. ASSUME NEW port \in Uart, OpenUart(port)
      PROVE  SessionInv'
  <2>1. PICK ok \in BOOLEAN : itf' = Itf("UART", port, ok)
    BY <1>2 DEF OpenUart
  <2>2. /\ itf' \in [kind : Kinds, dev : Devices, open : BOOLEAN]
        /\ itf'.kind = "UART"
    BY <1>2, <2>1, ItfType DEF Kinds, Devices
  <2>3. TypeOK'
    BY <1>2, <2>2 DEF OpenUart, SessionInv, TypeOK, Kinds
  <2>4. ReopenIsAsked' /\ AskedDevice'
    BY <1>2, <2>2 DEF OpenUart, ReopenIsAsked, AskedDevice
  <2>. QED
    BY <2>3, <2>4 DEF SessionInv
<1>3. ASSUME NEW kind \in {"SPI", "I2C"}, NEW dev \in Bridge, OpenFtdi(kind, dev)
      PROVE  SessionInv'
  <2>1. PICK open \in BOOLEAN : itf' = Itf(kind, dev, open)
    BY <1>3 DEF OpenFtdi
  <2>2. /\ itf' \in [kind : Kinds, dev : Devices, open : BOOLEAN]
        /\ itf'.kind = kind
    BY <1>3, <2>1, ItfType DEF Kinds, Devices
  <2>3. TypeOK'
    BY <1>3, <2>2 DEF OpenFtdi, SessionInv, TypeOK, Kinds
  <2>4. ReopenIsAsked'
    BY <1>3 DEF OpenFtdi, SessionInv, ReopenIsAsked
  <2>5. AskedDevice'
    BY <1>3, <2>2 DEF AskedDevice
  <2>. QED
    BY <2>3, <2>4, <2>5 DEF SessionInv
<1>4. CASE Close
  <2>1. TypeOK'
    BY <1>4 DEF Close, SessionInv, TypeOK
  <2>2. ReopenIsAsked' /\ AskedDevice'
    BY <1>4 DEF Close, SessionInv, ReopenIsAsked, AskedDevice
  <2>. QED
    BY <2>1, <2>2 DEF SessionInv
<1>5. CASE Reset
  <2>1. present' \subseteq Devices
    BY <1>5 DEF Reset, SessionInv, TypeOK
  <2>2. CASE UNCHANGED <<itf, pc>> /\ ret' \in {"done", "raised"}
    <3>1. TypeOK'
      BY <1>5, <2>1, <2>2 DEF Reset, SessionInv, TypeOK
    <3>2. ReopenIsAsked' /\ AskedDevice'
      BY <1>5, <2>2 DEF Reset, SessionInv, ReopenIsAsked, AskedDevice
    <3>. QED
      BY <3>1, <3>2 DEF SessionInv
  <2>3. CASE /\ current = "USB" /\ itf # None
             /\ itf' = [itf EXCEPT !.open = FALSE]
             /\ pc' = "sleep" /\ UNCHANGED ret
    <3>1. itf \in [kind : Kinds, dev : Devices, open : BOOLEAN]
      BY <2>3 DEF SessionInv, TypeOK
    <3>2. /\ itf' \in [kind : Kinds, dev : Devices, open : BOOLEAN]
          /\ itf'.kind = itf.kind /\ itf'.dev = itf.dev /\ ~itf'.open
      BY <2>3, <3>1
    <3>3. TypeOK'
      BY <1>5, <2>1, <2>3, <3>2, NoneAssumption DEF Reset, SessionInv, TypeOK
    <3>4. ReopenIsAsked' /\ AskedDevice'
      BY <1>5, <2>3, <3>2 DEF Reset, SessionInv, ReopenIsAsked, AskedDevice
    <3>. QED
      BY <3>3, <3>4 DEF SessionInv
  <2>. QED
    BY <1>5, <2>2, <2>3 DEF Reset
<1>6. CASE Reopen
  <2>1. /\ open_usb(reopen, None, asked) /\ pc' = "idle" /\ UNCHANGED present
        /\ reopen \in Tuples \cup {Nothing} /\ asked \in {reopen, Nothing}
    BY <1>6 DEF Reopen, SessionInv, TypeOK, ReopenIsAsked
  <2>. QED
    BY <2>1, OpenUsbInv
<1>7. ASSUME NEW d \in Devices, Unplug(d) \/ Plug(d)
      PROVE  SessionInv'
  <2>1. UNCHANGED <<itf, current, reopen, pc, ret, asked>> /\ present' \subseteq Devices
    BY <1>7 DEF Unplug, Plug, SessionInv, TypeOK
  <2>2. TypeOK'
    BY <2>1 DEF SessionInv, TypeOK
  <2>3. ReopenIsAsked' /\ AskedDevice'
    BY <2>1 DEF SessionInv, ReopenIsAsked, AskedDevice
  <2>. QED
    BY <2>2, <2>3 DEF SessionInv
<1>8. CASE UNCHANGED vars
  BY <1>8 DEF vars, SessionInv, TypeOK, ReopenIsAsked, AskedDevice
<1>. QED
  BY <1>1, <1>2, <1>3, <1>4, <1>5, <1>6, <1>7, <1>8 DEF Next

\* The invariant holds in every reachable state.
LEMMA Invariance == Spec => []SessionInv
BY InitInv, StepInv, PTL DEF Spec

-----------------------------------------------------------------------------

\* Type correctness; reset sleeps only with a closed USB interface
\* (mboot.py:674-680).
THEOREM TypeCorrect == Spec => []TypeOK
BY Invariance, PTL DEF SessionInv

\* Whatever is opened, closed, reset, plugged and unplugged, a USB interface is to
\* a device with the vid, pid and path that were asked for (mboot.py:247-284, 674-680).
THEOREM AlwaysAskedDevice == Spec => []AskedDevice
BY Invariance, PTL DEF SessionInv

\* reset of a session with a path: a twin of the device cannot make it raise or be
\* opened in its place.
LEMMA ReopenByPath ==
    ASSUME SessionInv, Reopen, asked.path # None
    PROVE  \/ ret' = "failed"
           \/ ret' = "opened" /\ itf'.dev = asked.path
<1>1. asked = reopen /\ reopen \in Tuples \cup {Nothing} /\ reopen # Nothing
  BY DEF SessionInv, TypeOK, ReopenIsAsked, Nothing, Tuple
<1>2. /\ Cardinality(enumerate(reopen.vidPid, reopen.path)) \in {0, 1}
      /\ enumerate(reopen.vidPid, reopen.path) \subseteq {reopen.path}
  BY <1>1, PathIsUnique
<1>3. Target(reopen, None) = reopen
  BY DEF Target
<1>4. open_usb(reopen, None, asked)
  BY DEF Reopen
<1>5. \/ ret' = "failed"
      \/ Target(reopen, None) = Nothing
      \/ Cardinality(Matching(Target(reopen, None))) > 1
      \/ \E d \in Matching(Target(reopen, None)) : itf' = Itf("USB", d, TRUE) /\ ret' = "opened"
  BY <1>4, OpenUsbCases, Zenon
<1>6. ~(Cardinality(Matching(reopen)) > 1)
  BY <1>2 DEF Matching
<1>. QED
  BY <1>1, <1>2, <1>3, <1>5, <1>6 DEF Matching, Itf

\* A reset of a session opened with vid, pid and path finds that device or none,
\* however many twins it has (mboot.py:674-680).
THEOREM ResetAlwaysByPath == Spec => ResetByPath
<1>1. SessionInv /\ [Next]_vars =>
        [ pc = "sleep" /\ pc' = "idle" /\ asked.path # None
          => \/ ret' = "failed"
             \/ ret' = "opened" /\ itf'.dev = asked.path ]_vars
  <2>. SUFFICES ASSUME SessionInv, [Next]_vars, pc = "sleep", pc' = "idle",
                       asked.path # None
                PROVE  \/ ret' = "failed"
                       \/ ret' = "opened" /\ itf'.dev = asked.path
    OBVIOUS
  <2>1. Reopen
    BY DEF Next, vars, OpenUsb, OpenUart, OpenFtdi, Close, Reset, Unplug, Plug
  <2>. QED
    BY <2>1, ReopenByPath
<1>. QED
  BY <1>1, Invariance, PTL DEF Spec, ResetByPath

=============================================================================
