-------------------------------- MODULE UsbHid --------------------------------
(***************************************************************************)
(* The same calls over USB HID: UsbProtocolMixin over RawHID.  Reports are *)
(* whole, so there is no framing; there are no pings and no ACKs either,   *)
(* and the report id that tells a command report from a data report is     *)
(* read and thrown away.  in is the queue of reports the host has not read *)
(* (rcv_data under Windows, the endpoint under Linux).  Nothing empties it *)
(* when a call gives up.                                                   *)
(* The device is external: it is what the host code expects.               *)
(***************************************************************************)
EXTENDS Integers, Sequences, FiniteSets

CONSTANTS
    MaxCalls,   \* bound: commands issued in a behaviour
    ReadLen,    \* bytes a "read" call asks for
    WriteLen,   \* bytes a "write" call sends
    PacketSize  \* bytes of a data report

ASSUME SizesAssumption ==
    /\ MaxCalls \in Nat
    /\ ReadLen \in Nat \ {0}
    /\ WriteLen \in Nat \ {0}
    /\ PacketSize \in Nat \ {0}

VARIABLES
    pc,      \* where the host is: "idle" or the blocking point of the call
    cur,     \* number of the current, or last, call
    kind,    \* its kind; "empty" is a read_data(0) after the command
    pos,     \* n of read_data, start of write_data
    got,     \* the reports read_data appended to its result
    from,    \* ghost: calls whose reports this call accepted
    out,     \* how the call ended
    faults,  \* ghost: calls abandoned since the device was last restarted
    outq, in,              \* reports on the way to the device, to the host
    dst, did, dkind, dpos, \* device: state, command, its kind, data position
    stored,  \* data reports the device stored for its command
    execd,   \* ghost: times the device executed each command
    failed   \* ghost: commands the device reported an error for

hostVars == <<pc, cur, kind, pos, got, from, out, faults>>
devVars  == <<dst, did, dkind, dpos, stored, execd, failed>>
vars     == <<hostVars, outq, in, devVars>>

Calls    == 1 .. MaxCalls
Kinds    == {"cmd", "read", "write", "empty"}
Waits    == {"resp", "rdata", "final"}
Outcomes == {"none", "ok", "refused", "broken"}
Status   == {"success", "error"}

HID_REPORT == {"CMD_OUT", "CMD_IN", "DATA_OUT", "DATA_IN"}
Report == [rep : HID_REPORT, id : 0 .. MaxCalls, pos : Nat,
           arg : Kinds \cup Status \cup {"none"}]

report(rep, id, p, arg) == [rep |-> rep, id |-> id, pos |-> p, arg |-> arg]
Resp(id, status) == report("CMD_IN", id, 0, status)

Chunk(total, p) == IF total - p < PacketSize THEN total - p ELSE PacketSize

\* A data report without a payload: no chunk is left at the end of the transfer.
Empty(id) == report("DATA_IN", id, ReadLen, "none")

\* The reports of a whole transfer of total bytes.
Chunks(rep, id, total) ==
    [i \in 1 .. (total + PacketSize - 1) \div PacketSize |->
        report(rep, id, (i - 1) * PacketSize, "none")]

RespPayload == 12  \* tag, flags, reserved, count, status, value

Payload(r) == IF r.rep = "DATA_IN" THEN Chunk(ReadLen, r.pos) ELSE RespPayload

\* What parse_response_payload may find in a report.  In a data report it takes
\* data bytes for the status, or raises for want of eight bytes.
StatusOf(r) == CASE r.rep = "CMD_IN" -> {r.arg}
                 [] r.rep # "CMD_IN" /\ Payload(r) = 0 -> {"short"}
                 [] OTHER -> Status \cup {"short"}

-----------------------------------------------------------------------------
(* The host.                                                               *)

\* Any report will do: rep_id is not looked at.
Receives(w) == pc = w /\ in # <<>> /\ in' = Tail(in)

Finish(result) == pc' = "idle" /\ out' = result

\* Mutant of Raised: the status is returned and not raised.
Returned(s) == s

Raised(s) == IF s = "error" THEN "refused" ELSE "broken"

Call(k) ==
    /\ pc = "idle"
    /\ cur < MaxCalls
    /\ cur' = cur + 1
    /\ kind' = k
    /\ pos' = 0 /\ got' = <<>> /\ from' = {} /\ out' = "none"
    /\ outq' = Append(outq, report("CMD_OUT", cur + 1, 0, k))
    /\ pc' = "resp"
    /\ UNCHANGED <<faults, in, devVars>>

\* write_cmd cannot write its report: it raises.  The report is lost; one that
\* reached the device all the same is that of a call that timed out.
CommandWriteFails(k) ==
    /\ pc = "idle"
    /\ cur < MaxCalls
    /\ cur' = cur + 1
    /\ kind' = k
    /\ pos' = 0 /\ got' = <<>> /\ from' = {} /\ out' = "broken"
    /\ faults' = faults + 1
    /\ UNCHANGED <<pc, outq, in, devVars>>

\* The response of write_cmd.  read_data(0) divides by its length before it
\* reads the response that ends the data phase.
Response ==
    /\ Receives("resp")
    /\ from' = from \cup {Head(in).id}
    /\ \E s \in StatusOf(Head(in)) :
         \/ /\ s # "success"
            /\ Finish(Raised(s))
            /\ UNCHANGED faults
         \/ /\ s = "success" /\ kind = "cmd"
            /\ Finish("ok")
            /\ UNCHANGED faults
         \/ /\ s = "success" /\ kind = "empty"
            /\ Finish("broken")
            /\ faults' = faults + 1
         \/ /\ s = "success" /\ kind \in {"read", "write"}
            /\ pc' = IF kind = "read" THEN "rdata" ELSE "wsend"
            /\ UNCHANGED <<out, faults>>
    /\ UNCHANGED <<cur, kind, pos, got, outq, devVars>>

\* Mutant of ReadData: the loop stops one byte early.
ReadDataStopsEarly ==
    /\ Receives("rdata")
    /\ from' = from \cup {Head(in).id}
    /\ got' = Append(got, Head(in))
    /\ pos' = pos + Payload(Head(in))
    /\ pc' = IF pos' < ReadLen - 1 THEN "rdata" ELSE "final"
    /\ UNCHANGED <<cur, kind, out, faults, outq, devVars>>

\* One turn of the loop of read_data: whatever comes is data.  An empty
\* payload adds nothing, and n stays.
ReadData ==
    /\ Receives("rdata")
    /\ from' = from \cup {Head(in).id}
    /\ got' = IF Payload(Head(in)) = 0 THEN got ELSE Append(got, Head(in))
    /\ pos' = pos + Payload(Head(in))
    /\ pc' = IF pos' < ReadLen THEN "rdata" ELSE "final"
    /\ UNCHANGED <<cur, kind, out, faults, outq, devVars>>

\* Mutants of SendData: the last response is left in the queue; whole packets are
\* counted, as the serial protocol does.
SendDataNoFinal ==
    /\ pc = "wsend"
    /\ outq' = Append(outq, report("DATA_OUT", cur, pos, "none"))
    /\ pos' = pos + Chunk(WriteLen, pos)
    /\ IF pos' < WriteLen THEN UNCHANGED <<pc, out>> ELSE Finish("ok")
    /\ UNCHANGED <<cur, kind, got, from, faults, in, devVars>>

SendDataWholePackets ==
    /\ pc = "wsend"
    /\ outq' = Append(outq, report("DATA_OUT", cur, pos, "none"))
    /\ pos' = pos + PacketSize
    /\ pc' = IF pos' < WriteLen THEN "wsend" ELSE "final"
    /\ UNCHANGED <<cur, kind, got, from, out, faults, in, devVars>>

\* One turn of the loop of write_data: nothing is read in it.
SendData ==
    /\ pc = "wsend"
    /\ outq' = Append(outq, report("DATA_OUT", cur, pos, "none"))
    /\ pos' = pos + Chunk(WriteLen, pos)
    /\ pc' = IF pos' < WriteLen THEN "wsend" ELSE "final"
    /\ UNCHANGED <<cur, kind, got, from, out, faults, in, devVars>>

\* The same for a data report: write_data has no handler around its write.
DataWriteFails ==
    /\ pc = "wsend"
    /\ faults' = faults + 1
    /\ Finish("broken")
    /\ UNCHANGED <<cur, kind, pos, got, from, outq, in, devVars>>

\* Mutant of FinalResponse: the status is not looked at.
FinalUnchecked ==
    /\ Receives("final")
    /\ from' = from \cup {Head(in).id}
    /\ Finish("ok")
    /\ UNCHANGED <<cur, kind, pos, got, faults, outq, devVars>>

\* The response that ends a data phase.
FinalResponse ==
    /\ Receives("final")
    /\ from' = from \cup {Head(in).id}
    /\ \E s \in StatusOf(Head(in)) :
         Finish(IF s = "success" THEN "ok" ELSE Raised(s))
    /\ UNCHANGED <<cur, kind, pos, got, faults, outq, devVars>>

\* Mutant of Timeout: the read of a last response has none.
TimeoutNotFinal ==
    /\ pc \in Waits \ {"final"}
    /\ in = <<>>
    /\ faults' = faults + 1
    /\ Finish("broken")
    /\ UNCHANGED <<cur, kind, pos, got, from, outq, in, devVars>>

\* No report came in time.
Timeout ==
    /\ pc \in Waits
    /\ in = <<>>
    /\ faults' = faults + 1
    /\ Finish("broken")
    /\ UNCHANGED <<cur, kind, pos, got, from, outq, in, devVars>>

\* The user power-cycles the device and opens it again: a new queue.
Restart ==
    /\ pc = "idle"
    /\ outq' = <<>> /\ in' = <<>> /\ faults' = 0 /\ out' = "none" /\ dst' = "idle"
    /\ UNCHANGED <<pc, cur, kind, pos, got, from,
                   did, dkind, dpos, stored, execd, failed>>

-----------------------------------------------------------------------------
(* The device.                                                             *)

DevTakes(rep) == outq # <<>> /\ Head(outq).rep = rep /\ outq' = Tail(outq)

DevSends(r) == in' = Append(in, r)

\* A command, which also ends a data phase the device was waiting in.
DevCommand ==
    /\ dst \in {"idle", "recv"}
    /\ DevTakes("CMD_OUT")
    /\ dst' = "exec" /\ did' = Head(outq).id /\ dkind' = Head(outq).arg
    /\ dpos' = 0 /\ stored' = <<>>
    /\ UNCHANGED <<hostVars, in, execd, failed>>

\* It executes the command and sends its response.
DevExecute ==
    /\ dst = "exec"
    /\ execd' = [execd EXCEPT ![did] = @ + 1]
    /\ \E s \in Status :
         /\ DevSends(Resp(did, s))
         /\ failed' = IF s = "error" THEN failed \cup {did} ELSE failed
         /\ dst' = CASE s = "error" \/ dkind = "cmd" -> "idle"
                     [] s = "success" /\ dkind = "read"  -> "data"
                     [] s = "success" /\ dkind = "write" -> "recv"
                     [] s = "success" /\ dkind = "empty" -> "finish"
    /\ UNCHANGED <<hostVars, outq, did, dkind, dpos, stored>>

\* It sends a data report, an empty one, or an error response in its place.
\* Bound: one empty report of a command is unread at a time.
DevData ==
    /\ dst = "data"
    /\ \/ /\ DevSends(report("DATA_IN", did, dpos, "none"))
          /\ dpos' = dpos + Chunk(ReadLen, dpos)
          /\ dst' = IF dpos' < ReadLen THEN "data" ELSE "finish"
          /\ UNCHANGED failed
       \/ /\ \A i \in 1 .. Len(in) : in[i] # Empty(did)
          /\ DevSends(Empty(did))
          /\ UNCHANGED <<dst, dpos, failed>>
       \/ /\ DevSends(Resp(did, "error"))
          /\ dst' = "idle"
          /\ failed' = failed \cup {did}
          /\ UNCHANGED dpos
    /\ UNCHANGED <<hostVars, outq, did, dkind, stored, execd>>

\* It stores a data report, or ends the data phase with an error.
DevStore ==
    /\ dst = "recv"
    /\ DevTakes("DATA_OUT")
    /\ \/ /\ stored' = Append(stored, Head(outq))
          /\ dpos' = dpos + Chunk(WriteLen, dpos)
          /\ dst' = IF dpos' < WriteLen THEN "recv" ELSE "finish"
          /\ UNCHANGED <<in, failed>>
       \/ /\ DevSends(Resp(did, "error"))
          /\ failed' = failed \cup {did}
          /\ dst' = "idle"
          /\ UNCHANGED <<stored, dpos>>
    /\ UNCHANGED <<hostVars, did, dkind, execd>>

\* A data report outside a data phase is dropped.
DevIgnore ==
    /\ dst = "idle"
    /\ DevTakes("DATA_OUT")
    /\ UNCHANGED <<hostVars, in, devVars>>

\* The final response of a data phase.
DevFinish ==
    /\ dst = "finish"
    /\ \E s \in Status :
         /\ DevSends(Resp(did, s))
         /\ failed' = IF s = "error" THEN failed \cup {did} ELSE failed
    /\ dst' = "idle"
    /\ UNCHANGED <<hostVars, outq, did, dkind, dpos, stored, execd>>

-----------------------------------------------------------------------------

Init ==
    /\ pc = "idle" /\ cur = 0 /\ kind = "cmd" /\ pos = 0
    /\ got = <<>> /\ from = {} /\ out = "none" /\ faults = 0
    /\ outq = <<>> /\ in = <<>>
    /\ dst = "idle" /\ did = 0 /\ dkind = "cmd" /\ dpos = 0
    /\ stored = <<>> /\ execd = [c \in Calls |-> 0] /\ failed = {}

HostStep ==
    \/ Response \/ ReadData \/ SendData \/ DataWriteFails
    \/ FinalResponse \/ Timeout

DevStep ==
    \/ DevCommand \/ DevExecute \/ DevData \/ DevStore \/ DevIgnore \/ DevFinish

Next == \/ \E k \in Kinds : Call(k) \/ CommandWriteFails(k)
        \/ Restart \/ HostStep \/ DevStep

Spec == Init /\ [][Next]_vars

\* Every read has a timeout.  The device is under no fairness: it may fall
\* silent.
FairSpec == Spec /\ WF_vars(HostStep)

-----------------------------------------------------------------------------
(* What is checked.                                                        *)

TypeOK ==
    /\ pc \in Waits \cup {"idle", "wsend"}
    /\ cur \in 0 .. MaxCalls
    /\ kind \in Kinds
    /\ pos \in Nat
    /\ got \in Seq(Report)
    /\ from \subseteq 0 .. MaxCalls
    /\ out \in Outcomes
    /\ faults \in Nat
    /\ outq \in Seq(Report)
    /\ in \in Seq(Report)
    /\ dst \in {"idle", "exec", "data", "recv", "finish"}
    /\ did \in 0 .. MaxCalls
    /\ dkind \in Kinds
    /\ dpos \in Nat
    /\ stored \in Seq(Report)
    /\ execd \in [Calls -> Nat]
    /\ failed \subseteq 0 .. MaxCalls

\* The last call ended this way after at most n abandoned calls.
Ended(result, n) == pc = "idle" /\ out = result /\ faults <= n

\* As long as no call was abandoned, a call that succeeds used reports of its
\* own command only, although the host does not look at any report id.
OwnResponse == Ended("ok", 0) => from = {cur}

\* read_data returns the bytes asked for, each once and in order: a response
\* that the loop takes for data always leaves it one report short at the end.
ReadExact ==
    Ended("ok", 0) /\ kind = "read" => got = Chunks("DATA_IN", cur, ReadLen)

\* write_data sends everything blindly and reads one response; it succeeds
\* only if the device stored every report in order, and it counts them exactly.
WriteComplete ==
    Ended("ok", 0) /\ kind = "write" =>
        stored = Chunks("DATA_OUT", cur, WriteLen) /\ pos = WriteLen

\* A status error the caller sees is one the device reported for this call,
\* and a call the device failed is never reported as a success.
HonestStatus ==
    /\ Ended("refused", 0) => cur \in failed
    /\ Ended("ok", 0) => cur \notin failed

\* A turn of the loop of read_data that brings the call no further: an empty
\* data report.
IdleTurn == ReadData /\ pc' = "rdata" /\ pos' = pos

\* Every call ends, whether the device answers, stops, or sends reports the
\* call does not expect, unless it sends empty data reports for ever: each of
\* them starts a new wait, and read_data counts bytes, never turns.
CallEnds == []<><<IdleTurn>>_vars \/ (pc # "idle" ~> pc = "idle")

\* The link is a remote call only until a call is left without an answer.
Promise == INSTANCE BootCommand WITH
    Tolerance <- 0,
    busy <- pc # "idle",
    executed <- {c \in Calls : execd[c] > 0}

\* Every step of the two sides, with the reports in between, is a step of the
\* remote call or none at all: one execution per command issued, and verdicts
\* that are the device's own (UsbProtocolMixin).
ImplementsPromise == Promise!Spec

\* get_property's docstring: "Get value of specified property" -- the value is
\* read out of the response, which should be the response of this command.
SpecifiedProperty == Ended("ok", MaxCalls) /\ kind = "cmd" => from = {cur}

=============================================================================
