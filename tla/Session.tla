-------------------------------- MODULE Session --------------------------------
(***************************************************************************)
(* The life of a McuBoot object used as a library (cli_mode is False):     *)
(* open_usb, open_uart, open_spi, open_i2c, close and reset, while devices *)
(* come and go.  A USB device that resets leaves the bus and comes back;   *)
(* 0.4 s later reset opens what reopen_args says, whatever is there then.  *)
(* RawHID is the class of Linux.  Devices and their paths are external: a  *)
(* device keeps its path.                                                  *)
(***************************************************************************)
EXTENDS Naturals, FiniteSets

CONSTANTS
    Hid, Uart, Bridge,  \* USB devices, serial ports, FTDI bridges
    VidPid,             \* vid and pid of each USB device
    None

ASSUME DevicesAssumption ==
    /\ None \notin Hid \cup Uart \cup Bridge
    /\ None \notin {VidPid[d] : d \in Hid}

VARIABLES
    itf,      \* self._itf_: None, or the object: its kind, its device, opened or not
    current,  \* self.current_interface
    reopen,   \* self.reopen_args, when they are those of open_usb
    pc,       \* "sleep": reset waits for the device
    ret,      \* how the last call ended
    present,  \* devices and ports that are there
    asked     \* ghost: vid, pid and path of the last open_usb that returned True

vars == <<itf, current, reopen, pc, ret, present, asked>>

Devices == Hid \cup Uart \cup Bridge
Kinds   == {"USB", "UART", "SPI", "I2C"}
VidPids == {VidPid[d] : d \in Hid}

\* The argument vid_pid: (vid, pid) or (vid, pid, path).
Tuple(vidPid, path) == [vidPid |-> vidPid, path |-> path]
Tuples  == [vidPid : VidPids, path : Hid \cup {None}]
Nothing == Tuple(None, None)

Itf(kind, dev, open) == [kind |-> kind, dev |-> dev, open |-> open]

ASSUME NoneAssumption == None \notin [kind : Kinds, dev : Devices, open : BOOLEAN]

-----------------------------------------------------------------------------

\* Mutant of enumerate: vid and pid are not compared.
enumerateAny(vidPid, path) == {d \in present \cap Hid : path # None => d = path}

\* RawHID.enumerate: without vid and pid, the path decides alone.
enumerate(vidPid, path) ==
    {d \in present \cap Hid : /\ vidPid # None => VidPid[d] = vidPid
                              /\ path # None   => d = path}

\* open_usb(tuple, path): a path of its own makes it forget vid and pid, the path
\* in the tuple is used with them.  With nothing at all, enumerate raises (the list
\* of devices is not bound); with several devices, open_usb does.
open_usb(tuple, path, request) ==
    LET target == IF path # None THEN Tuple(None, path) ELSE tuple
        found  == enumerate(target.vidPid, target.path)
    IN  \/ /\ target = Nothing \/ Cardinality(found) > 1
           /\ ret' = "raised"
           /\ UNCHANGED <<itf, current, reopen, asked>>
        \/ /\ target # Nothing /\ found = {}
           /\ ret' = "failed"
           /\ UNCHANGED <<itf, current, reopen, asked>>
        \/ /\ target # Nothing /\ Cardinality(found) = 1
           /\ itf' = Itf("USB", CHOOSE d \in found : TRUE, TRUE)
           /\ current' = "USB"
           /\ reopen' = tuple
           /\ ret' = "opened"
           /\ asked' = request

\* The caller's vid, pid and path agree.  The documentation keeps the argument path
\* for the command line: a library asks for a device with the tuple.
OpenUsb(tuple, path) ==
    /\ pc = "idle"
    /\ path # None /\ tuple # Nothing => VidPid[path] = tuple.vidPid
    /\ open_usb(tuple, path, IF path = None THEN tuple ELSE Nothing)
    /\ UNCHANGED <<pc, present>>

\* UART.open prints the exception of the serial port, whose name is free, and goes on.
OpenUart(port) ==
    /\ pc = "idle"
    /\ \E ok \in BOOLEAN :
         /\ ok => port \in present
         /\ itf' = Itf("UART", port, ok)
    /\ current' = "UART" /\ reopen' = Nothing /\ asked' = Nothing
    /\ ret' = "opened"
    /\ UNCHANGED <<pc, present>>

\* open_spi and open_i2c: _itf_ is the new object even if it could not be opened.
OpenFtdi(kind, dev) ==
    /\ pc = "idle"
    /\ \/ /\ dev \in present
          /\ itf' = Itf(kind, dev, TRUE)
          /\ current' = kind /\ reopen' = Nothing /\ asked' = Nothing
          /\ ret' = "opened"
       \/ /\ itf' = Itf(kind, dev, FALSE)
          /\ ret' = "failed"
          /\ UNCHANGED <<current, reopen, asked>>
    /\ UNCHANGED <<pc, present>>

\* Mutant of Close: another thread closes while reset sleeps.
CloseAnytime ==
    /\ itf' = None
    /\ ret' = IF itf = None THEN "failed" ELSE "closed"
    /\ UNCHANGED <<current, reopen, pc, present, asked>>

\* current_interface and reopen_args stay.
Close ==
    /\ pc = "idle"
    /\ itf' = None
    /\ ret' = IF itf = None THEN "failed" ELSE "closed"
    /\ UNCHANGED <<current, reopen, pc, present, asked>>

\* reset drops every exception of the command, the one of having no interface too:
\* the device may have executed it or not.  With USB it closes the interface, which
\* raises if there is none.
Reset ==
    /\ pc = "idle"
    /\ \E executed \in BOOLEAN :
         /\ executed => itf # None /\ itf.open /\ itf.dev \in present
         /\ present' = IF executed /\ itf.kind = "USB" THEN present \ {itf.dev} ELSE present
    /\ \/ /\ current # "USB"
          /\ ret' = "done"
          /\ UNCHANGED <<itf, pc>>
       \/ /\ current = "USB" /\ itf = None
          /\ ret' = "raised"
          /\ UNCHANGED <<itf, pc>>
       \/ /\ current = "USB" /\ itf # None
          /\ itf' = [itf EXCEPT !.open = FALSE]
          /\ pc' = "sleep"
          /\ UNCHANGED ret
    /\ UNCHANGED <<current, reopen, asked>>

\* Mutant of Reopen: vid and pid only.
ReopenWithoutPath ==
    /\ pc = "sleep"
    /\ pc' = "idle"
    /\ open_usb(Tuple(reopen.vidPid, None), None, asked)
    /\ UNCHANGED present

\* The end of reset: open_usb(self.reopen_args).
Reopen ==
    /\ pc = "sleep"
    /\ pc' = "idle"
    /\ open_usb(reopen, None, asked)
    /\ UNCHANGED present

\* The bus.
Unplug(d) ==
    /\ d \in present
    /\ present' = present \ {d}
    /\ UNCHANGED <<itf, current, reopen, pc, ret, asked>>

Plug(d) ==
    /\ d \notin present
    /\ present' = present \cup {d}
    /\ UNCHANGED <<itf, current, reopen, pc, ret, asked>>

Init ==
    /\ itf = None /\ current = None /\ reopen = Nothing
    /\ pc = "idle" /\ ret = "none" /\ asked = Nothing
    /\ present \in SUBSET Devices

Next ==
    \/ \E tuple \in Tuples \cup {Nothing}, path \in Hid \cup {None} : OpenUsb(tuple, path)
    \/ \E port \in Uart : OpenUart(port)
    \/ \E kind \in {"SPI", "I2C"}, dev \in Bridge : OpenFtdi(kind, dev)
    \/ Close \/ Reset \/ Reopen
    \/ \E d \in Devices : Unplug(d) \/ Plug(d)

Spec == Init /\ [][Next]_vars

-----------------------------------------------------------------------------

\* The variables have their types, and reset sleeps only as the owner of a USB session
\* with a closed interface (mboot.py:674-680).
TypeOK ==
    /\ itf \in [kind : Kinds, dev : Devices, open : BOOLEAN] \cup {None}
    /\ current \in Kinds \cup {None}
    /\ reopen \in Tuples \cup {Nothing}
    /\ asked \in Tuples \cup {Nothing}
    /\ pc \in {"idle", "sleep"}
    /\ ret \in {"none", "opened", "failed", "raised", "closed", "done"}
    /\ present \subseteq Devices
    /\ pc = "sleep" => current = "USB" /\ itf # None /\ ~itf.open

\* Whatever is unplugged, plugged or reset, and whichever opens fail in between, a USB
\* interface is always to a device that matches what the caller asked for: reset may find
\* no device or several, never one of another vid, pid or path (mboot.py:245-288, 674-680).
AskedDevice ==
    itf # None /\ itf.kind = "USB" =>
        /\ asked.vidPid # None => VidPid[itf.dev] = asked.vidPid
        /\ asked.path # None   => itf.dev = asked.path

\* A reset of a session opened with vid, pid and path opens that device again or returns
\* without one: a second device with the same vid and pid, plugged in at any time, never
\* makes it raise (mboot.py:254-260, 283-284, 674-680).
ResetByPath ==
    [][ pc = "sleep" /\ pc' = "idle" /\ asked.path # None
        => \/ ret' = "failed"
           \/ ret' = "opened" /\ itf'.dev = asked.path ]_vars

=============================================================================
