------------------------------ MODULE SerialLink ------------------------------
(***************************************************************************)
(* One host (UartProtocolMixin over a UART, SPI or I2C transport) and one  *)
(* bootloader, joined by two FIFO byte streams.  The host is sequential:   *)
(* a call is write_cmd, followed by read_data or write_data when the       *)
(* command has a data phase.  pc is the wait the call is blocked in.       *)
(*                                                                         *)
(* A frame is a record.  On the wire it has only a type, a length and a    *)
(* payload; id (the call that caused it) is a ghost no action of the host  *)
(* reads to take a decision.  The host reads BYTES: a frame of the wrong   *)
(* type is cut at the place the code stops reading, and what is left of it *)
(* is skipped by the next find_start_byte, which looks for 0x5A.           *)
(* Frames arrive whole and without a 0x5A inside: SerialBytes has what     *)
(* happens to those that do not.                                           *)
(*                                                                         *)
(* The bootloader is not part of the repository: its actions (Dev...) are  *)
(* what the host code expects of it.                                       *)
(***************************************************************************)
EXTENDS Integers, Sequences, FiniteSets

CONSTANTS
    MaxCalls,   \* bound: commands issued in a behaviour
    ReadLen,    \* bytes a "read" call asks for
    WriteLen,   \* bytes a "write" call sends
    PacketSize  \* bytes of a DATA payload (MAX_PACKET_SIZE)

ASSUME SizesAssumption ==
    /\ MaxCalls \in Nat
    /\ ReadLen \in Nat
    /\ WriteLen \in Nat
    /\ PacketSize \in Nat \ {0}

VARIABLES
    pc,      \* where the host is: "idle" or the blocking point of the call
    cur,     \* number of the current, or last, call
    kind,    \* its kind: no data phase, read_data or write_data
    pos,     \* n of read_data, start of write_data
    got,     \* the DATA phase frames read_data appended to its result
    from,    \* ghost: calls whose responses or data this call accepted
    out,     \* how the call ended
    faults,  \* ghost: timeouts since the device was last restarted
    tx, rx,  \* bytes on the way to the device, to the host
    dst, did, dkind, dpos, \* device: state, command, its kind, data position
    stored,  \* DATA frames the device stored for its command
    execd,   \* ghost: times the device executed each command
    failed   \* ghost: commands the device reported an error for

hostVars == <<pc, cur, kind, pos, got, from, out, faults>>
devVars  == <<dst, did, dkind, dpos, stored, execd, failed>>
vars     == <<hostVars, tx, rx, devVars>>

Calls    == 1 .. MaxCalls
Kinds    == {"cmd", "read", "write"}
Waits    == {"ping", "ack", "resp", "rdata", "wack", "final"}
Outcomes == {"none", "ok", "refused", "broken"}
DevAckStates == {"respAck", "dataAck", "endAck"}
DevStates == {"idle", "exec", "data", "recv", "finish"} \cup DevAckStates

FPType == {"PING", "PINGR", "ACK", "ABORT", "CMD", "DATA"}
Status == {"success", "error"}

\* pos is the offset of a DATA payload; arg the command's kind, or the status
\* of a response.
Frame  == [type : FPType, id : 0 .. MaxCalls, pos : Nat,
           arg : Kinds \cup Status \cup {"none"}]

genPacket(type, id, p, arg) == [type |-> type, id |-> id, pos |-> p, arg |-> arg]
Signal(type, id) == genPacket(type, id, 0, "none")  \* no payload the model needs
Ack(id)          == Signal("ACK", id)
Data(id, p)      == genPacket("DATA", id, p, "none")
Resp(id, status) == genPacket("CMD", id, 0, status)

Chunk(total, p) == IF total - p < PacketSize THEN total - p ELSE PacketSize

\* A DATA frame without a payload: no chunk is left at the end of the transfer.
Empty(id) == Data(id, ReadLen)

\* The DATA frames of a whole transfer of total bytes.
Chunks(id, total) ==
    [i \in 1 .. (total + PacketSize - 1) \div PacketSize |->
        Data(id, (i - 1) * PacketSize)]

-----------------------------------------------------------------------------
(* Bytes of the frames the device sends, and reading some of them.         *)

RespPayload == 12  \* tag, flags, reserved, count, status, value

\* Mutant of Size: the head of a DATA frame is not counted.
PayloadSize(f) == CASE f.type = "PINGR" -> 10
                    [] f.type = "CMD"   -> 6 + RespPayload
                    [] f.type = "DATA"  -> Chunk(ReadLen, f.pos)
                    [] OTHER            -> 2

Size(f) == CASE f.type = "PINGR" -> 10
             [] f.type = "CMD"   -> 6 + RespPayload
             [] f.type = "DATA"  -> 6 + Chunk(ReadLen, f.pos)
             [] OTHER            -> 2

\* Bytes of the first i frames of s.
Upto(s) == LET sum[i \in 0 .. Len(s)] ==
                 IF i = 0 THEN 0 ELSE sum[i - 1] + Size(s[i])
           IN  sum

\* Reading k bytes: every frame whose start byte is among them is gone.
Consume(s, k) ==
    SubSeq(s, 1 + Cardinality({i \in 1 .. Len(s) : Upto(s)[i - 1] < k}), Len(s))

\* Bytes a wait reads before it looks at the frame type, and the types it accepts.
Needed == [w \in Waits |-> CASE w = "ping" -> 10
                             [] w \in {"ack", "wack"} -> 2
                             [] OTHER -> 6]

\* Mutant of Accepts: read_data does not let a command frame through.
AcceptsDataOnly == [w \in Waits |-> CASE w = "ping" -> {"PINGR"}
                                      [] w \in {"ack", "wack"} -> {"ACK"}
                                      [] w = "rdata" -> {"DATA"}
                                      [] OTHER -> {"CMD"}]
Accepts == [w \in Waits |-> CASE w = "ping" -> {"PINGR"}
                              [] w \in {"ack", "wack"} -> {"ACK"}
                              [] w = "rdata" -> {"DATA", "CMD"}
                              [] OTHER -> {"CMD"}]

\* The host is in wait w and a frame of an accepted type is next in the stream.
Receives(w) == /\ pc = w
               /\ rx # <<>>
               /\ Head(rx).type \in Accepts[w]
               /\ rx' = Tail(rx)

\* The stream holds all the bytes wait w goes on to read.
Ready(w) == /\ rx # <<>>
            /\ \/ Head(rx).type \in Accepts[w]
               \/ Upto(rx)[Len(rx)] >= Needed[w]

Finish(result) == pc' = "idle" /\ out' = result

-----------------------------------------------------------------------------
(* The host.                                                               *)

\* Mutant of Call: no ping in front of the command.
CallWithoutPing(k) ==
    /\ pc = "idle"
    /\ cur < MaxCalls
    /\ cur' = cur + 1
    /\ kind' = k
    /\ pos' = 0 /\ got' = <<>> /\ from' = {} /\ out' = "none"
    /\ tx' = Append(tx, genPacket("CMD", cur + 1, 0, k))
    /\ pc' = "ack"
    /\ UNCHANGED <<faults, rx, devVars>>

\* A call enters write_cmd, which sends a ping and waits for its answer.
Call(k) ==
    /\ pc = "idle"
    /\ cur < MaxCalls
    /\ cur' = cur + 1
    /\ kind' = k
    /\ pos' = 0 /\ got' = <<>> /\ from' = {} /\ out' = "none"
    /\ tx' = Append(tx, Signal("PING", cur + 1))
    /\ pc' = "ping"
    /\ UNCHANGED <<faults, rx, devVars>>

\* PINGR received: send the command packet, wait for its ACK.
PingOk ==
    /\ Receives("ping")
    /\ tx' = Append(tx, genPacket("CMD", cur, 0, kind))
    /\ pc' = "ack"
    /\ UNCHANGED <<cur, kind, pos, got, from, out, faults, devVars>>

\* _receive_ack of the command packet.
CommandAcked ==
    /\ Receives("ack")
    /\ pc' = "resp"
    /\ UNCHANGED <<cur, kind, pos, got, from, out, faults, tx, devVars>>

\* Where a call goes once its command was accepted.
DataPhase == CASE kind = "read"  -> IF ReadLen = 0 THEN "final" ELSE "rdata"
               [] kind = "write" -> IF WriteLen = 0 THEN "final" ELSE "wsend"

\* The response of write_cmd: acknowledged first, its status looked at after.
Response ==
    /\ Receives("resp")
    /\ tx' = Append(tx, Ack(cur))
    /\ from' = from \cup {Head(rx).id}
    /\ \/ Head(rx).arg = "error" /\ Finish("refused")
       \/ Head(rx).arg = "success" /\ kind = "cmd" /\ Finish("ok")
       \/ Head(rx).arg = "success" /\ kind # "cmd" /\ pc' = DataPhase /\ UNCHANGED out
    /\ UNCHANGED <<cur, kind, pos, got, faults, devVars>>

\* Mutant of ReadData: the packet takes the place of the data read so far.
ReadDataReplaces ==
    /\ Receives("rdata")
    /\ tx' = Append(tx, Ack(cur))
    /\ from' = from \cup {Head(rx).id}
    /\ got' = <<Head(rx)>>
    /\ pos' = pos + Size(Head(rx)) - 6
    /\ pc' = IF pos' < ReadLen THEN "rdata" ELSE "final"
    /\ UNCHANGED <<cur, kind, out, faults, devVars>>

\* One turn of the loop of read_data.  A command frame is taken in place of
\* data: with an error status it ends the call, with SUCCESS its payload is
\* appended like any data.  An empty payload adds nothing, and n stays.
ReadData ==
    /\ Receives("rdata")
    /\ tx' = Append(tx, Ack(cur))
    /\ from' = from \cup {Head(rx).id}
    /\ \/ /\ Head(rx).type = "CMD" /\ Head(rx).arg = "error"
          /\ Finish("refused")
          /\ UNCHANGED <<pos, got>>
       \/ /\ Head(rx).type = "DATA" \/ Head(rx).arg = "success"
          /\ got' = IF Size(Head(rx)) = 6 THEN got ELSE Append(got, Head(rx))
          /\ pos' = pos + Size(Head(rx)) - 6
          /\ pc' = IF pos' < ReadLen THEN "rdata" ELSE "final"
          /\ UNCHANGED out
    /\ UNCHANGED <<cur, kind, faults, devVars>>

\* Mutant of SendData: data[:max_packet_size] in place of data[start:end].
SendDataFromZero ==
    /\ pc = "wsend"
    /\ tx' = Append(tx, Data(cur, 0))
    /\ pc' = "wack"
    /\ UNCHANGED <<cur, kind, pos, got, from, out, faults, rx, devVars>>

\* write_data sends the packet at start and waits for its ACK.
SendData ==
    /\ pc = "wsend"
    /\ tx' = Append(tx, Data(cur, pos))
    /\ pc' = "wack"
    /\ UNCHANGED <<cur, kind, pos, got, from, out, faults, rx, devVars>>

\* The packet is acknowledged: start = end, n -= max_packet_size.
DataAcked ==
    /\ Receives("wack")
    /\ pos' = pos + PacketSize
    /\ pc' = IF pos' < WriteLen THEN "wsend" ELSE "final"
    /\ UNCHANGED <<cur, kind, got, from, out, faults, tx, devVars>>

\* Mutant of FinalResponse: the status is not looked at.
FinalUnchecked ==
    /\ Receives("final")
    /\ tx' = Append(tx, Ack(cur))
    /\ from' = from \cup {Head(rx).id}
    /\ Finish("ok")
    /\ UNCHANGED <<cur, kind, pos, got, faults, devVars>>

\* The response that ends a data phase.
FinalResponse ==
    /\ Receives("final")
    /\ tx' = Append(tx, Ack(cur))
    /\ from' = from \cup {Head(rx).id}
    /\ Finish(IF Head(rx).arg = "success" THEN "ok" ELSE "refused")
    /\ UNCHANGED <<cur, kind, pos, got, faults, devVars>>

\* A frame of another type than the wait accepts.  write_data leaves its loop
\* and reads the final response; everything else raises out of the call.
Mismatch(w) ==
    /\ pc = w
    /\ Ready(w)
    /\ Head(rx).type \notin Accepts[w]
    /\ rx' = Consume(rx, Needed[w])
    /\ IF w = "wack" THEN pc' = "final" /\ UNCHANGED out ELSE Finish("broken")
    /\ UNCHANGED <<cur, kind, pos, got, from, faults, tx, devVars>>

\* Mutants of Timeout: the command is sent again; a serial port that blocks for ever
\* while the ping is not answered.
TimeoutRetries(w) ==
    /\ pc = w
    /\ ~Ready(w)
    /\ rx' = <<>>
    /\ faults' = faults + 1
    /\ pc' = "ping"
    /\ tx' = Append(tx, Signal("PING", cur))
    /\ UNCHANGED <<cur, kind, pos, got, from, out, devVars>>

TimeoutBlocks(w) ==
    /\ pc = w /\ w # "ping"
    /\ ~Ready(w)
    /\ rx' = <<>>
    /\ faults' = faults + 1
    /\ Finish("broken")
    /\ UNCHANGED <<cur, kind, pos, got, from, tx, devVars>>

\* The bytes the wait needs did not come in time: the call raises, and the
\* bytes it had taken are gone.
Timeout(w) ==
    /\ pc = w
    /\ ~Ready(w)
    /\ rx' = <<>>
    /\ faults' = faults + 1
    /\ Finish("broken")
    /\ UNCHANGED <<cur, kind, pos, got, from, tx, devVars>>

\* The user power-cycles the device and opens the port again.
Restart ==
    /\ pc = "idle"
    /\ tx' = <<>> /\ rx' = <<>> /\ faults' = 0 /\ out' = "none" /\ dst' = "idle"
    /\ UNCHANGED <<pc, cur, kind, pos, got, from,
                   did, dkind, dpos, stored, execd, failed>>

-----------------------------------------------------------------------------
(* The device.                                                             *)

DevTakes(types) == /\ tx # <<>>
                   /\ Head(tx).type \in types
                   /\ tx' = Tail(tx)

DevSends(f) == rx' = Append(rx, f)

\* A ping is answered, and ends what the device was waiting for.
DevPing ==
    /\ dst \in {"idle", "recv"} \cup DevAckStates
    /\ DevTakes({"PING"})
    /\ DevSends(Signal("PINGR", Head(tx).id))
    /\ dst' = "idle"
    /\ UNCHANGED <<hostVars, did, dkind, dpos, stored, execd, failed>>

\* An idle device acknowledges a command before it executes it.
DevCommand ==
    /\ dst = "idle"
    /\ DevTakes({"CMD"})
    /\ DevSends(Ack(Head(tx).id))
    /\ dst' = "exec" /\ did' = Head(tx).id /\ dkind' = Head(tx).arg
    /\ dpos' = 0 /\ stored' = <<>>
    /\ UNCHANGED <<hostVars, execd, failed>>

\* A frame the device does not wait for is dropped.
DevIgnore ==
    /\ \/ dst = "idle" /\ DevTakes({"ACK", "DATA"})
       \/ dst = "recv" /\ DevTakes({"ACK", "CMD"})
       \/ dst \in DevAckStates /\ DevTakes({"CMD", "DATA"})
    /\ UNCHANGED <<hostVars, rx, devVars>>

\* It executes the command and sends its response.
DevExecute ==
    /\ dst = "exec"
    /\ execd' = [execd EXCEPT ![did] = @ + 1]
    /\ \E s \in Status :
         /\ DevSends(Resp(did, s))
         /\ failed' = IF s = "error" THEN failed \cup {did} ELSE failed
         /\ dst' = IF s = "success" /\ dkind # "cmd" THEN "respAck" ELSE "endAck"
    /\ UNCHANGED <<hostVars, tx, did, dkind, dpos, stored>>

\* An ACK lets it go on with the data phase, or ends the command.
DevAcked ==
    /\ dst \in DevAckStates
    /\ DevTakes({"ACK"})
    /\ dst' = CASE dst = "endAck" -> "idle"
                [] dst # "endAck" /\ dkind = "write" /\ WriteLen > 0 -> "recv"
                [] dst # "endAck" /\ dkind = "read" /\ dpos < ReadLen -> "data"
                [] OTHER -> "finish"
    /\ UNCHANGED <<hostVars, rx, did, dkind, dpos, stored, execd, failed>>

\* It sends a DATA frame, an empty one, or an error response in its place.
DevData ==
    /\ dst = "data"
    /\ \/ /\ DevSends(Data(did, dpos))
          /\ dpos' = dpos + Chunk(ReadLen, dpos)
          /\ dst' = "dataAck"
          /\ UNCHANGED failed
       \/ /\ DevSends(Empty(did))
          /\ dst' = "dataAck"
          /\ UNCHANGED <<dpos, failed>>
       \/ /\ DevSends(Resp(did, "error"))
          /\ dst' = "endAck"
          /\ failed' = failed \cup {did}
          /\ UNCHANGED dpos
    /\ UNCHANGED <<hostVars, tx, did, dkind, stored, execd>>

\* It stores a DATA frame, or aborts the data phase.
DevStore ==
    /\ dst = "recv"
    /\ DevTakes({"DATA"})
    /\ \/ /\ DevSends(Ack(did))
          /\ stored' = Append(stored, Head(tx))
          /\ dpos' = dpos + Chunk(WriteLen, dpos)
          /\ dst' = IF dpos' < WriteLen THEN "recv" ELSE "finish"
          /\ UNCHANGED failed
       \/ /\ DevSends(Signal("ABORT", did))
          /\ failed' = failed \cup {did}
          /\ dst' = "finish"
          /\ UNCHANGED <<stored, dpos>>
    /\ UNCHANGED <<hostVars, did, dkind, execd>>

\* The final response of a data phase: an error after an abort.
DevFinish ==
    /\ dst = "finish"
    /\ \E s \in Status :
         /\ did \in failed => s = "error"
         /\ DevSends(Resp(did, s))
         /\ failed' = IF s = "error" THEN failed \cup {did} ELSE failed
    /\ dst' = "endAck"
    /\ UNCHANGED <<hostVars, tx, did, dkind, dpos, stored, execd>>

-----------------------------------------------------------------------------

Init ==
    /\ pc = "idle" /\ cur = 0 /\ kind = "cmd" /\ pos = 0
    /\ got = <<>> /\ from = {} /\ out = "none" /\ faults = 0
    /\ tx = <<>> /\ rx = <<>>
    /\ dst = "idle" /\ did = 0 /\ dkind = "cmd" /\ dpos = 0
    /\ stored = <<>> /\ execd = [c \in Calls |-> 0] /\ failed = {}

\* What the host does inside a call, the expiry of its waits included.
HostStep ==
    \/ PingOk \/ CommandAcked \/ Response \/ ReadData
    \/ SendData \/ DataAcked \/ FinalResponse
    \/ \E w \in Waits : Mismatch(w) \/ Timeout(w)

DevStep ==
    \/ DevPing \/ DevCommand \/ DevIgnore \/ DevExecute
    \/ DevAcked \/ DevData \/ DevStore \/ DevFinish

Next == (\E k \in Kinds : Call(k)) \/ Restart \/ HostStep \/ DevStep

Spec == Init /\ [][Next]_vars

\* Every wait of the host is bounded by a timeout, so a call that can take a
\* step takes one.  The device is under no fairness: it may fall silent.
FairSpec == Spec /\ WF_vars(HostStep)

-----------------------------------------------------------------------------
(* What is checked.                                                        *)

TypeOK ==
    /\ pc \in Waits \cup {"idle", "wsend"}
    /\ cur \in 0 .. MaxCalls
    /\ kind \in Kinds
    /\ pos \in Nat
    /\ got \in Seq(Frame)
    /\ from \subseteq 0 .. MaxCalls
    /\ out \in Outcomes
    /\ faults \in Nat
    /\ tx \in Seq(Frame)
    /\ rx \in Seq(Frame)
    /\ dst \in DevStates
    /\ did \in 0 .. MaxCalls
    /\ dkind \in Kinds
    /\ dpos \in Nat
    /\ stored \in Seq(Frame)
    /\ execd \in [Calls -> Nat]
    /\ failed \subseteq 0 .. MaxCalls

\* The last call ended this way on a link that timed out at most n times.
Ended(result, n) == pc = "idle" /\ out = result /\ faults <= n

\* Stop-and-wait never resends (write_cmd has no retry): whatever is late,
\* stale or timed out, the device executes a command at most once.
AtMostOnce == \A c \in Calls : execd[c] <= 1

\* The ping in front of every command makes up for the missing flush of the
\* receive buffer: after one timeout since the device was restarted, a call
\* that succeeds accepted responses and data of its own command only.
OwnResponse == Ended("ok", 1) => from = {cur}

\* read_data returns the bytes asked for, each once and in order, although it
\* takes whatever DATA or CMD frame comes next and counts bytes only.
ReadExact ==
    Ended("ok", 1) /\ kind = "read" => got = Chunks(cur, ReadLen)

\* write_data succeeds only if the device stored every packet, in order: an
\* abort or a missing ACK, which only breaks its loop, is never a success.
WriteComplete ==
    Ended("ok", 1) /\ kind = "write" => stored = Chunks(cur, WriteLen)

\* A status error the caller sees is one the device reported for this call,
\* and a call the device failed is never reported as a success.
HonestStatus ==
    /\ Ended("refused", 1) => cur \in failed
    /\ Ended("ok", 1) => cur \notin failed

\* The two sides agree on the framing: unless a wait expired since the last
\* restart, no call ends in a framing, ACK or struct error.
NoSpuriousError == ~Ended("broken", 0)

\* A turn of the loop of read_data that brings the call no further: an empty
\* DATA frame, acknowledged like any other.
IdleTurn == ReadData /\ pc' = "rdata" /\ pos' = pos

\* Every call ends, whether the device answers, stops, or sends frames the call
\* does not expect, unless it sends empty DATA frames for ever: each of them
\* starts a new wait, and read_data counts bytes, never turns.
CallEnds == []<><<IdleTurn>>_vars \/ (pc # "idle" ~> pc = "idle")

\* The link is a remote call: after one call without an answer the next ones
\* either fail or tell the truth.
Promise == INSTANCE BootCommand WITH
    Tolerance <- 1,
    busy <- pc # "idle",
    executed <- {c \in Calls : execd[c] > 0}

\* Every step of the two sides, with the bytes in between, is a step of the
\* remote call or none at all: one execution per command issued, and verdicts
\* that are the device's own (UartProtocolMixin).
ImplementsPromise == Promise!Spec

=============================================================================
