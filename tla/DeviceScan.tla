------------------------------- MODULE DeviceScan -------------------------------
(***************************************************************************)
(* From `-u`, `-p`, `-s` or `-i` to an open device: scan_usb, scan_uart    *)
(* and scan_spi (scan_i2c is scan_spi) list what is plugged in, the user   *)
(* picks an entry, and the device is looked up again to be opened: by path *)
(* (USB), by port name (UART), by its place in the list the FTDI           *)
(* controllers keep for the life of the process.  Devices come and go in   *)
(* between; so may several scans and opens of one process.                 *)
(*                                                                         *)
(* A device is one attachment.  No two have a USB address, or the name of  *)
(* a serial port, at a time; one can have that of another later.           *)
(***************************************************************************)
EXTENDS Integers, Sequences, FiniteSets, SequencesExt

CONSTANTS
    Devices,    \* records: vp (vid and pid), port (USB address or tty), sn
                \*   (serial number, 0 for none), named (has the strings of its maker)
    Known,      \* the vid and pid pairs a scan looks for by itself
    NoPort,     \* the name of a port nobody has
    Turns,      \* times scan_uart looks
    MaxChanges, \* bound: devices plugged in and out
    None

ASSUME DevicesAssumption ==
    /\ IsFiniteSet(Devices) /\ IsFiniteSet(Known)
    /\ \A d \in Devices : d.port \in Nat /\ d.sn \in Nat /\ d.named \in BOOLEAN
    /\ \A d \in Devices : d.port # NoPort
    /\ Turns \in Nat \ {0} /\ MaxChanges \in Nat
    /\ None \notin Devices \cup Seq(Devices)

VARIABLES
    peri,     \* the peripheral of the process
    plugged,  \* the devices there are
    changes,  \* how often that changed
    cache,    \* UsbTools.UsbDevices: for each pair, the devices found the first time
    pc,       \* where the call is
    said,     \* ghost: the pair or port the caller gave, or None
    asked,    \* the one the scan looks for, or None
    turn,     \* turns of the loop of scan_uart that found nothing
    seen,     \* ghost: a turn of this scan saw a device it looks for
    list,     \* the entries the user sees
    typed,    \* what the user typed
    opened,   \* the device the last open opened
    ret       \* how the last call ended

scanVars == <<said, asked, turn, seen, list, typed, opened>>
vars     == <<peri, plugged, changes, cache, pc, scanVars, ret>>

Peripherals == {"usb", "uart", "ftdi"}
Pairs == {d.vp : d \in Devices} \cup Known
Ports == {d.port : d \in Devices} \cup {NoPort}

Requests == {None} \cup IF peri = "uart" THEN Ports ELSE Pairs

\* Every exception ends the call.
Fail == pc' = "done" /\ ret' = "failed" /\ opened' = None

-----------------------------------------------------------------------------
(* Lists.                                                                  *)

Matches(d) ==
    IF asked = None    THEN d.vp \in Known
    ELSE IF peri = "uart" THEN d.port = asked ELSE d.vp = asked

Found == {d \in plugged : Matches(d)}

\* _find_devices: sorted by serial number, then by address; None and a string
\* cannot be compared.
Sortable(S)  == Cardinality({d.sn = 0 : d \in S}) <= 1
Before(d, e) == d.sn < e.sn \/ (d.sn = e.sn /\ d.port < e.port)
OfPair(vp)   == {d \in plugged : d.vp = vp}

InOrder(s)   == \A i, j \in DOMAIN s : i < j => Before(s[i], s[j])

Sorted(vp)   == cache[vp] # None \/ Sortable(OfPair(vp))
Devs(vp)     == IF cache[vp] # None THEN cache[vp]
                ELSE CHOOSE s \in SetToSeqs(OfPair(vp)) : InOrder(s)
Filled(vps)  == [vp \in Pairs |-> IF vp \in vps THEN Devs(vp) ELSE cache[vp]]

\* Mutant of IndexOf: the entry's place in the list it is shown in.
IndexInList(l, i) == i

\* The index that goes with entry i: its place among those of its pair.
IndexOf(l, i) == Cardinality({j \in 1 .. i : l[j].vp = l[i].vp})

\* The prompt formats a name: for every entry but the ports, if there are several.
Printable(l) == peri = "uart" \/ Len(l) = 1 \/ \A i \in DOMAIN l : l[i].named

\* Mutant of Offer: a list without entries is shown, too.
OfferNothing(l) ==
    IF Printable(l)
    THEN list' = l /\ pc' = "choose" /\ UNCHANGED <<opened, ret>>
    ELSE Fail /\ UNCHANGED list

\* No device is an exception; one or more are the list of the prompt.
Offer(l) ==
    IF l # <<>> /\ Printable(l)
    THEN list' = l /\ pc' = "choose" /\ UNCHANGED <<opened, ret>>
    ELSE Fail /\ UNCHANGED list

-----------------------------------------------------------------------------
(* The process.                                                            *)

\* parse_peripheral, with or without a port or a pair.  The command line gives that
\* of -u as a string: its first character is taken for a speed.
Ask(request, line) ==
    /\ pc \in {"idle", "done"}
    /\ pc' = "scan"
    /\ said' = request
    /\ asked' = IF line /\ peri = "usb" THEN None ELSE request
    /\ turn' = 0 /\ seen' = FALSE /\ list' = <<>> /\ typed' = 1
    /\ opened' = None /\ ret' = "none"
    /\ UNCHANGED <<peri, plugged, changes, cache>>

\* In the order of the bus.
ScanUsb ==
    /\ pc = "scan" /\ peri = "usb"
    /\ \E l \in SetToSeqs(Found) : Offer(l)
    /\ UNCHANGED <<peri, plugged, changes, cache, said, asked, turn, seen, typed>>

\* Mutant of NextTurn: it goes on until there is something to choose.
NextTurnForEver == turn

NextTurn == turn + 1

\* Mutant of Enough: the loop is not left early.
EnoughAtTheEnd == turn + 1 = Turns

\* The turn is the last: it found something, or there are no more.
Enough == Found # {} \/ turn + 1 = Turns

\* A turn of scan_uart: what it looks for, and after the last turn anything.
ScanUart ==
    /\ pc = "scan" /\ peri = "uart"
    /\ seen' = (seen \/ Found # {})
    /\ IF plugged = {}
       THEN Fail /\ UNCHANGED <<turn, list>>
       ELSE IF ~Enough
       THEN turn' = NextTurn /\ UNCHANGED <<pc, list, opened, ret>>
       ELSE /\ \E l \in SetToSeqs(IF Found # {} THEN Found ELSE plugged) : Offer(l)
            /\ UNCHANGED turn
    /\ UNCHANGED <<peri, plugged, changes, cache, said, asked, typed>>

\* A device of the list that is gone does not tell its strings.
Gone(l) == \E i \in DOMAIN l : l[i] \notin plugged

\* scan_spi, scan_i2c: the pairs in the order of a Python set; a pair whose
\* devices cannot be sorted ends it, those before it are in the cache by then.
ScanFtdi ==
    /\ pc = "scan" /\ peri = "ftdi"
    /\ \E pairs \in SetToSeqs(IF asked = None THEN Known ELSE {asked}) :
         IF \A i \in DOMAIN pairs : Sorted(pairs[i])
         THEN /\ cache' = Filled(Range(pairs))
              /\ LET l == FlattenSeq([i \in DOMAIN pairs |-> Devs(pairs[i])])
                 IN  Offer(l) \/ (Gone(l) /\ Fail /\ UNCHANGED list)
         ELSE /\ \E n \in 0 .. Len(pairs) - 1 :
                   /\ ~Sorted(pairs[n + 1])
                   /\ \A i \in 1 .. n : Sorted(pairs[i])
                   /\ cache' = Filled({pairs[i] : i \in 1 .. n})
              /\ Fail /\ UNCHANGED list
    /\ UNCHANGED <<peri, plugged, changes, said, asked, turn, seen, typed>>

\* devices[count - 1]: 0 is the last entry.
Entry(count) == IF count > 0 THEN count ELSE Len(list) + count
Picked == Entry(typed)

\* The number the user types, if there is a choice; USB and UART then format
\* the name of the entry.
Choose(count) ==
    /\ pc = "choose"
    /\ Len(list) = 1 => count = 1
    /\ typed' = count
    /\ IF Entry(count) \in DOMAIN list /\ (peri = "ftdi" \/ list[Entry(count)].named)
       THEN pc' = "open" /\ UNCHANGED <<opened, ret>>
       ELSE Fail
    /\ UNCHANGED <<peri, plugged, changes, cache, said, asked, turn, seen, list>>

Opens(d) == pc' = "done" /\ ret' = "open" /\ opened' = d

\* The n-th device of the pair, if there are n and it is still there.
OpenNth(vp, n) ==
    IF n <= Len(Devs(vp)) /\ Devs(vp)[n] \in plugged THEN Opens(Devs(vp)[n]) ELSE Fail

\* open_usb with the path; open_uart, which does not tell when there is no such
\* port; open_spi or open_i2c with the index, in the cached list.
OpenEntry ==
    LET d    == list[Picked]
        here == {e \in plugged : e.port = d.port}
        n    == IndexOf(list, Picked)
    IN  CASE peri = "uart" -> Opens(IF here = {} THEN None ELSE CHOOSE x \in here : TRUE)
          [] peri = "usb"  -> IF here # {} THEN Opens(CHOOSE x \in here : TRUE) ELSE Fail
          [] peri = "ftdi" -> OpenNth(d.vp, n)

Open ==
    /\ pc = "open"
    /\ OpenEntry
    /\ UNCHANGED <<peri, plugged, changes, cache, said, asked, turn, seen, list, typed>>

\* --ftdi_index, or open_spi((vid, pid), index) of a program: no scan before it.
OpenIndex(vp, n) ==
    /\ pc \in {"idle", "done"} /\ peri = "ftdi"
    /\ list' = <<>>
    /\ cache' = IF Sorted(vp) THEN Filled({vp}) ELSE cache
    /\ IF Sorted(vp) THEN OpenNth(vp, n) ELSE Fail
    /\ UNCHANGED <<peri, plugged, changes, said, asked, turn, seen, typed>>

(* The bus. *)

Change(now) ==
    /\ changes < MaxChanges
    /\ changes' = changes + 1
    /\ plugged' = now
    /\ UNCHANGED <<peri, cache, pc, scanVars, ret>>

Unplug(d) == d \in plugged /\ Change(plugged \ {d})

\* No two devices are there under one name.
Plug(d) == (\A e \in plugged : e.port # d.port) /\ Change(plugged \cup {d})

-----------------------------------------------------------------------------

Init ==
    /\ peri \in Peripherals
    /\ plugged \in {S \in SUBSET Devices :
                      \A d, e \in S : d # e => d.port # e.port}
    /\ changes = 0
    /\ cache = [vp \in Pairs |-> None]
    /\ pc = "idle" /\ said = None /\ asked = None
    /\ turn = 0 /\ seen = FALSE /\ list = <<>> /\ typed = 1
    /\ opened = None /\ ret = "none"

Scan == ScanUsb \/ ScanUart \/ ScanFtdi

Next ==
    \/ \E request \in Requests, line \in BOOLEAN : Ask(request, line)
    \/ Scan
    \/ \E count \in 0 .. Len(list) + 1 : Choose(count)
    \/ Open
    \/ \E vp \in Pairs, n \in 1 .. 2 : OpenIndex(vp, n)
    \/ \E d \in Devices : Unplug(d) \/ Plug(d)

Spec == Init /\ [][Next]_vars

\* A scan goes on by itself; users and devices need not do anything.
FairSpec == Spec /\ WF_vars(Scan)

-----------------------------------------------------------------------------
(* What is checked.                                                        *)

\* The variables have their types, and a list is shown only if it has entries.
TypeOK ==
    /\ peri \in Peripherals
    /\ plugged \subseteq Devices /\ changes \in 0 .. MaxChanges
    /\ cache \in [Pairs -> Seq(Devices) \cup {None}]
    /\ pc \in {"idle", "scan", "choose", "open", "done"}
    /\ {said, asked} \subseteq Requests /\ turn \in 0 .. Turns - 1 /\ seen \in BOOLEAN
    /\ list \in Seq(Devices) /\ typed \in Int
    /\ opened \in Devices \cup {None} /\ ret \in {"none", "open", "failed"}
    /\ pc \in {"choose", "open"} => list # <<>>
    /\ pc = "open" => Picked \in DOMAIN list

\* What is opened is the entry the user pointed at, whatever was plugged in or
\* out since it was listed and however old the cached list is: what is at its
\* address or under its name now, over FTDI the very device
\* (peripheral.py:120-126, 170, 184-199; ftditool.py:87-129).
OpenedIsPicked ==
    ret = "open" /\ opened # None /\ typed \in DOMAIN list =>
        IF peri = "ftdi" THEN opened = list[typed] ELSE opened.port = list[typed].port

\* scan_uart offers a port it does not look for only if no turn saw one it does:
\* a device that needs some time to come up is not passed over
\* (peripheral.py:133-154).
FallbackIsLast ==
    peri = "uart" /\ pc = "choose" /\ seen => \A i \in DOMAIN list : Matches(list[i])

\* A scan ends, also when devices keep coming and going (peripheral.py:133-151).
ScanEnds == pc = "scan" ~> pc # "scan"

\* VIOLATED: what is opened without a prompt is what the caller gave (cli.py:427-434).
\* `-u VIDPID` looks for any device (peripheral.py:89-90); `-p PORT` opens another
\* port if that one is not there (peripheral.py:153-154).
AskedDevice ==
    ret = "open" /\ opened # None /\ said # None /\ Len(list) = 1 =>
        IF peri = "uart" THEN opened.port = said ELSE opened.vp = said

=============================================================================
