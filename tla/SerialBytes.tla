------------------------------ MODULE SerialBytes ------------------------------
(***************************************************************************)
(* The bytes below SerialLink: read, ping and _receive_ack of the UART,    *)
(* SPI and I2C classes, three times the same methods over three drivers.   *)
(* They find a start byte, read a head, then the payload its length field  *)
(* announces, and compare no checksum.                                     *)
(*                                                                         *)
(* A cell is a field of a head or a word of four payload bytes; START as a *)
(* payload cell is a word with 0x5A in it.  part and chan are the stream   *)
(* the host has not read: what is left of a frame it began, then whole     *)
(* frames.  The device is external and may send anything at any time, and  *)
(* as slowly: a read of n cells can end with fewer of them arrived.        *)
(***************************************************************************)
EXTENDS Integers, Sequences, SequencesExt

CONSTANTS
    Responses,  \* payloads of the CMD frames the device sends
    Packets,    \* payloads of its DATA frames
    MaxChan     \* bound: frames on the line the host has not begun

ASSUME CellsAssumption ==
    /\ Responses \subseteq Seq(Nat)
    /\ Packets \subseteq Seq(Nat)
    /\ MaxChan \in Nat

VARIABLES
    bus,      \* the transport class in use
    pc,       \* where the wait is
    wait,     \* the last wait: ping, ack, or a read of a CMD or DATA packet
    head,     \* type and length of the head that was read
    cur,      \* ghost: the frame whose start byte this wait took
    part,     \* unread cells of the frame the host is inside
    chan,     \* frames behind it
    last,     \* how the last wait ended, and what it returned
    stalled,  \* ghost: a read of this wait got fewer cells than it asked for
    sync      \* ghost: no frame with START inside was left half read

hostVars == <<bus, pc, wait, head, cur, last, stalled, sync>>
vars     == <<hostVars, part, chan>>

Buses  == {"uart", "spi", "i2c"}
START  == 90    \* 0x5A
Filler == 0
Junk   == 1     \* a cell the model does not look at: CRC, version, options
Noise  == 2     \* type of a byte between frames; no FPType

FPType == [ACK |-> 161, ABORT |-> 163, CMD |-> 164, DATA |-> 165, PINGR |-> 167]

Framed  == {FPType.CMD, FPType.DATA}
Signals == {FPType.ACK, FPType.ABORT, FPType.PINGR, Noise}
Frames  == [type : Signals, payload : {<<>>}]
             \cup [type : {FPType.CMD}, payload : Responses]
             \cup [type : {FPType.DATA}, payload : Packets]

\* genPacket, on the device's side, and the frames that are no packets.
Cells(f) ==
    CASE f.type \in Framed       -> <<START, f.type, Len(f.payload), Junk>> \o f.payload
      [] f.type = FPType.PINGR   -> <<START, f.type, Junk, Junk, Junk>>
      [] f.type = Noise          -> <<Junk>>
      [] OTHER                   -> <<START, f.type>>

Flat(s) == FlattenSeq([i \in DOMAIN s |-> Cells(s[i])])
Stream  == part \o Flat(chan)

LastOnes(s, n) == SubSeq(s, Len(s) - n + 1, Len(s))

\* The host takes k cells: the frames that are still whole stay in chan.
Take(k) ==
    LET left  == Len(Stream) - k
        whole == Max({n \in 0 .. Len(chan) : Len(Flat(LastOnes(chan, n))) <= left})
    IN  /\ chan' = LastOnes(chan, whole)
        /\ part' = SubSeq(LastOnes(Stream, left), 1, left - Len(Flat(chan')))

-----------------------------------------------------------------------------
(* A read of n cells of the serial port or the bus.                        *)

\* serial.read gives up after its timeout and returns what it has; a bus
\* master clocks all its bytes, and gets filler for those that were not there.
Returned(k, n) ==
    SubSeq(Stream, 1, k) \o (IF bus = "uart" THEN <<>> ELSE [i \in 1 .. n - k |-> Filler])

Reading(k, n) == /\ k <= Len(Stream)
                 /\ Take(k)
                 /\ stalled' = (stalled \/ k < n)

\* Mutant of Accepts: the type of the packet is not looked at.
AcceptsAll == [w \in {"ping", "ack", "cmd", "data"} |-> {FPType[t] : t \in DOMAIN FPType}]

\* A packet of another type is let through if it is a command (an error
\* response in the place of data).
Accepts == [ping |-> {FPType.PINGR}, ack |-> {FPType.ACK},
            cmd  |-> {FPType.CMD},   data |-> {FPType.DATA, FPType.CMD}]

\* Cells after START, of a frame the wait takes, and bytes: cells of frames that
\* are read for one of another type may be as small as a byte.
Needed == [ping |-> 4, ack |-> 1, cmd |-> 3, data |-> 3]
Bytes  == [ping |-> 9, ack |-> 1, cmd |-> 5, data |-> 5]

Pending == [end |-> "none", type |-> Noise, payload |-> <<>>]
NoHead  == [type |-> FPType.CMD, len |-> 0]

\* The wait returns, or raises: the frame it is inside is left as it is.
Over(end, type, payload) ==
    /\ pc' = "idle" /\ head' = NoHead
    /\ last' = [end |-> end, type |-> type, payload |-> payload]
    /\ sync' = (sync /\ ~Contains(part', START))

Raise == Over("broken", Noise, <<>>)

-----------------------------------------------------------------------------
(* The host.                                                               *)

Ask(w) ==
    /\ pc = "idle"
    /\ pc' = "start"
    /\ wait' = w /\ last' = Pending /\ stalled' = FALSE /\ cur' = <<>>
    /\ UNCHANGED <<bus, head, part, chan, sync>>

\* find_start_byte: a turn of the loop that got 0x5A.
FindStart ==
    /\ pc = "start"
    /\ Stream # <<>> /\ Stream[1] = START
    /\ Take(1)
    /\ cur' = IF part = <<>> THEN <<chan[1]>> ELSE <<>>
    /\ pc' = "head"
    /\ UNCHANGED <<bus, wait, head, last, stalled, sync>>

\* A turn that got another byte.  One that got none, or filler, changes nothing.
SkipByte ==
    /\ pc = "start"
    /\ Stream # <<>> /\ Stream[1] # START
    /\ Take(1)
    /\ UNCHANGED hostVars

\* Mutant of TimedOut: the deadline is looked at when no byte came only.
TimedOutInSilence ==
    /\ pc = "start"
    /\ Stream = <<>>
    /\ UNCHANGED <<bus, wait, cur, part, chan, stalled>>
    /\ Over("timeout", Noise, <<>>)

\* The deadline of find_start_byte passed, whatever is in the buffer.
TimedOut ==
    /\ pc = "start"
    /\ UNCHANGED <<bus, wait, cur, part, chan, stalled>>
    /\ Over("timeout", Noise, <<>>)

\* What the read behind the start byte returns, when k cells have arrived.
Got(k)      == Returned(k, Needed[wait])
Accepted(k) == Len(Got(k)) = Needed[wait] /\ Got(k)[1] \in Accepts[wait]

ReadingHead(k) == pc = "head" /\ Reading(k, Needed[wait])

\* Too short for struct.unpack, or for the index of the type, or a type the
\* wait does not take: what was read is gone, the rest is not.
RejectHead(k) ==
    /\ k <= Bytes[wait] /\ ReadingHead(k)
    /\ ~Accepted(Min({k, Needed[wait]}))
    /\ Raise
    /\ UNCHANGED <<bus, wait, cur>>

\* The rest of an ACK or a ping response: nothing but the type is looked at.
ReadSignal(k) ==
    /\ wait \in {"ping", "ack"}
    /\ k <= Needed[wait] /\ ReadingHead(k)
    /\ Accepted(k)
    /\ Over("ok", Got(k)[1], <<>>)
    /\ UNCHANGED <<bus, wait, cur>>

\* The rest of the head of a packet.
ReadHead(k) ==
    /\ wait \in {"cmd", "data"}
    /\ k <= Needed[wait] /\ ReadingHead(k)
    /\ Accepted(k)
    /\ head' = [type |-> Got(k)[1], len |-> Got(k)[2]]
    /\ pc' = "payload"
    /\ UNCHANGED <<bus, wait, cur, last, sync>>

\* Mutant of ReadPayload: what is in the buffer beyond the payload is read too.
ReadPayloadMore(k) ==
    /\ pc = "payload"
    /\ k <= head.len + 1 /\ Reading(k, head.len)
    /\ Over("ok", head.type, Returned(k, head.len))
    /\ UNCHANGED <<bus, wait, cur>>

\* The payload: as many cells as arrive are taken for all of it; the ACK is
\* sent in the same step (SerialLink has what the device makes of it).
ReadPayload(k) ==
    /\ pc = "payload"
    /\ k <= head.len /\ Reading(k, head.len)
    /\ Over("ok", head.type, Returned(k, head.len))
    /\ UNCHANGED <<bus, wait, cur>>

\* An I2C device that does not acknowledge its address: pyftdi raises.
Nack ==
    /\ bus = "i2c" /\ pc # "idle"
    /\ stalled' = TRUE
    /\ UNCHANGED <<part, chan>>
    /\ Raise
    /\ UNCHANGED <<bus, wait, cur>>

Read == \E k \in 0 .. Len(Stream) :
            RejectHead(k) \/ ReadSignal(k) \/ ReadHead(k) \/ ReadPayload(k)

(* The device. *)

DevSend(f) ==
    /\ Len(chan) < MaxChan
    /\ chan' = Append(chan, f)
    /\ UNCHANGED <<hostVars, part>>

-----------------------------------------------------------------------------

Init ==
    /\ bus \in Buses
    /\ pc = "idle" /\ wait = "ack"
    /\ head = NoHead
    /\ cur = <<>> /\ part = <<>> /\ chan = <<>>
    /\ last = Pending /\ stalled = FALSE /\ sync = TRUE

HostStep == FindStart \/ SkipByte \/ TimedOut \/ Read \/ Nack

Next ==
    \/ \E w \in DOMAIN Accepts : Ask(w)
    \/ HostStep
    \/ \E f \in Frames : DevSend(f)

Spec == Init /\ [][Next]_vars

\* A host inside a wait goes on, and the clock of find_start_byte runs.
\* Nothing is assumed of the device.
FairSpec == Spec /\ WF_vars(HostStep) /\ WF_vars(TimedOut)

-----------------------------------------------------------------------------
(* What is checked.                                                        *)

TypeOK ==
    /\ bus \in Buses
    /\ pc \in {"idle", "start", "head", "payload"}
    /\ wait \in DOMAIN Accepts
    /\ head \in [type : Framed, len : Nat]
    /\ cur \in Seq(Frames) /\ chan \in Seq(Frames)
    /\ part \in Seq(Nat)
    /\ last.end \in {"none", "ok", "timeout", "broken"} /\ last.payload \in Seq(Nat)
    /\ stalled \in BOOLEAN /\ sync \in BOOLEAN

\* Mutant of parse_response_payload: the value is looked for first, and what
\* is not there counts as 0.
ParseLenient(p) ==
    [ok |-> TRUE, status |-> IF Len(p) >= 3 THEN p[2] ELSE 0,
     value |-> IF Len(p) >= 3 THEN p[3] ELSE 0]

\* Status and value are the second and third word; no value is a value of 0,
\* no status an exception.
parse_response_payload(p) ==
    [ok |-> Len(p) >= 2,
     status |-> IF Len(p) >= 2 THEN p[2] ELSE 0,
     value  |-> IF Len(p) >= 3 THEN p[3] ELSE 0]

\* A response the host parses has the status and the value the device sent,
\* unless it stalled inside; over a UART a stall can make the value 0 and
\* never touches the status: a refused command is not reported as done
\* (uart.py:93-111, protocol.py:26-34).  Exempt is a response that stalled over
\* SPI or I2C: the filler read in its place is a status of 0, a success
\* (spi.py:69), so that nothing can be promised of it.
ResponseHonest ==
    last.end = "ok" /\ last.type = FPType.CMD /\ cur # <<>> =>
        LET r == parse_response_payload(last.payload)
            d == parse_response_payload(cur[1].payload)
        IN  /\ ~stalled => r = d
            /\ r.ok /\ bus = "uart" => r.status = d.status /\ r.value \in {d.value, 0}

\* Every wait ends, on a line that is silent, slow or never quiet: find_start_byte
\* has a deadline (uart.py:149-164), the reads behind it the one of the port.
WaitEnds == pc # "idle" ~> pc = "idle"

\* The frames the host has not got, with the one it is inside.
Line    == IF pc \in {"head", "payload"} THEN cur \o chan ELSE chan
Waiting == IF pc = "idle" THEN "none" ELSE wait

Channel == INSTANCE FrameChannel WITH
    polled <- bus # "uart", chan <- Line, wait <- Waiting

\* The byte stream is a queue of frames, which is what SerialLink takes it
\* for: with noise between them, stalls inside them, waits that expire or ask
\* for the wrong type, the next frame is found again (uart.py:85-111, 149-164).
ImplementsChannel == Channel!Spec

=============================================================================
