------------------------------ MODULE UsbHidProofs ------------------------------
(***************************************************************************)
(* Proofs about UsbHid, for every number of calls and every size: as long  *)
(* as no call was abandoned since the device was opened, an answer is the  *)
(* device's own on this call, and the link is the remote call of           *)
(* BootCommand.                                                            *)
(*                                                                         *)
(* No report is acknowledged, so one side runs ahead of the other by a     *)
(* whole transfer.  The invariant says what is in the two queues packet by *)
(* packet: what the device will send from where the host is (Stream, and   *)
(* Flow with an empty report in it), and what the host has sent from where *)
(* the device is (Writing).  It ends with the first abandoned call:        *)
(* nothing empties the queues.                                             *)
(***************************************************************************)
EXTENDS UsbHid, SequenceTheorems, TLAPS

-----------------------------------------------------------------------------
(* The invariants.                                                         *)

\* Reports on their way to the device, and to the host.
OutReport == {r \in Report : r.rep = "CMD_OUT" => r.arg \in Kinds}
InReport  == {r \in Report : r.rep = "DATA_IN" => r.pos <= ReadLen}

\* Data stays within the transfer, so that a payload has a length.
DataInv ==
    /\ outq \in Seq(OutReport)
    /\ in \in Seq(InReport)
    /\ pc = "resp"  => pos = 0
    /\ pc = "wsend" => pos < WriteLen
    /\ dst = "exec" => dpos = 0
    /\ dst = "data" => dpos < ReadLen
    /\ dst = "recv" => dpos < WriteLen

TypeInv == TypeOK /\ DataInv

Sends(i, c) == outq[i].rep = "CMD_OUT" /\ outq[i].id = c
Begun(c)    == dst = "exec" /\ did = c

\* A command is in one place only: not issued yet, in the queue to the device,
\* in its hands, or executed.
OnceInv ==
    /\ pc # "idle" => cur \in Calls
    /\ \A i \in 1 .. Len(outq) : outq[i].rep = "CMD_OUT" => outq[i].id \in Calls
    /\ \A i, j \in 1 .. Len(outq), c \in Calls : Sends(i, c) /\ Sends(j, c) => i = j
    /\ \A i \in 1 .. Len(outq), c \in Calls :
          Sends(i, c) => execd[c] = 0 /\ ~Begun(c) /\ c <= cur
    /\ dst = "exec" => did \in Calls
    /\ \A c \in Calls : Begun(c) => execd[c] = 0 /\ c <= cur
    /\ \A c \in Calls : c > cur => execd[c] = 0
    /\ \A c \in Calls : execd[c] \in 0 .. 1

\* What the device failed, and what it is in the middle of, it executed.
FailInv ==
    /\ \A c \in failed : c \in Calls /\ execd[c] > 0
    /\ dst \in {"data", "recv", "finish"} => did \in Calls /\ execd[did] > 0

\* The i-th report of a transfer of the current call; s goes on after n of them;
\* n of them are all of total bytes.
Packet(rep, i) == report(rep, cur, (i - 1) * PacketSize, "none")
Packets(s, rep, n) == \A i \in 1 .. Len(s) : s[i] = Packet(rep, n + i)
All(n, total) == (n - 1) * PacketSize < total /\ total <= n * PacketSize

DataOnly(s) == \A i \in 1 .. Len(s) : s[i].rep = "DATA_OUT"

\* A response that is the device's last word on the call.
LastWord(r) == \E s \in Status : r = Resp(cur, s) /\ (s = "error" <=> cur \in failed)

\* What the device has sent of a read after n packets, and what it will do.
Stream(s, n) ==
    \/ /\ dst = "data" /\ did = cur /\ cur \notin failed
       /\ Packets(s, "DATA_IN", n)
       /\ dpos = (n + Len(s)) * PacketSize
    \/ /\ dst = "finish" /\ did = cur /\ cur \notin failed
       /\ Packets(s, "DATA_IN", n)
       /\ All(n + Len(s), ReadLen)
    \/ /\ dst = "idle" /\ s # <<>>
       /\ \A i \in 1 .. Len(s) - 1 : s[i] = Packet("DATA_IN", n + i)
       /\ LastWord(s[Len(s)])
       /\ \/ All(n + Len(s) - 1, ReadLen)
          \/ (n + Len(s) - 1) * PacketSize < ReadLen /\ cur \in failed

\* The queue q is s with an empty report behind the first k, which are data.
EmptyAt(q, s, k) ==
    /\ Len(q) = Len(s) + 1 /\ q[k + 1] = Empty(cur)
    /\ \A i \in 1 .. k : q[i] = s[i] /\ s[i].rep = "DATA_IN"
    /\ \A i \in k + 1 .. Len(s) : q[i + 1] = s[i]

\* The same of a queue that may hold an empty report, ahead of the last packet.
Flow(q, n) ==
    \E s \in Seq(Report) :
       /\ Stream(s, n)
       /\ \/ q = s
          \/ \E k \in 0 .. Len(s) : (n + k) * PacketSize < ReadLen /\ EmptyAt(q, s, k)

Verdict ==
    /\ out # "broken"
    /\ out \in {"ok", "refused"} =>
         /\ cur \in Calls /\ execd[cur] > 0
         /\ out = "refused" <=> cur \in failed
    /\ out = "ok" =>
         /\ from = {cur}
         /\ kind = "read"  => got = Chunks("DATA_IN", cur, ReadLen)
         /\ kind = "write" => stored = Chunks("DATA_OUT", cur, WriteLen) /\ pos = WriteLen

\* Data the device gave up on may still be in the queue to it.
Idle ==
    /\ pc = "idle" /\ in = <<>> /\ dst = "idle"
    /\ DataOnly(outq)
    /\ Verdict

\* The command is on its way, behind such data, or being executed.
Asked ==
    /\ pc = "resp" /\ pos = 0 /\ got = <<>> /\ from = {} /\ in = <<>> /\ cur \notin failed
    /\ \/ /\ dst = "idle" /\ outq # <<>>
          /\ \A i \in 1 .. Len(outq) - 1 : outq[i].rep = "DATA_OUT"
          /\ outq[Len(outq)] = report("CMD_OUT", cur, 0, kind)
       \/ /\ dst = "exec" /\ outq = <<>>
          /\ did = cur /\ dkind = kind /\ dpos = 0 /\ stored = <<>>

\* Its response is in the queue, perhaps with what the device sends after it.
Answered ==
    /\ pc = "resp" /\ pos = 0 /\ got = <<>> /\ from = {} /\ outq = <<>>
    /\ execd[cur] > 0
    /\ in # <<>>
    /\ \/ in = <<Resp(cur, "error")>> /\ dst = "idle" /\ cur \in failed
       \/ /\ in[1] = Resp(cur, "success")
          /\ \/ kind = "cmd" /\ Len(in) = 1 /\ dst = "idle" /\ cur \notin failed
             \/ kind = "empty" /\ dst \in {"finish", "idle"}
             \/ /\ kind = "write" /\ Len(in) = 1 /\ dst = "recv" /\ cur \notin failed
                /\ did = cur /\ stored = <<>> /\ dpos = 0
             \/ kind = "read" /\ Flow(Tail(in), 0)

\* An error in place of data is taken for data: the host then waits in vain.
Reading ==
    /\ pc \in {"rdata", "final"} /\ kind = "read" /\ outq = <<>> /\ from = {cur}
    /\ execd[cur] > 0
    /\ \/ /\ pc = "rdata" /\ Packets(got, "DATA_IN", 0)
          /\ pos = Len(got) * PacketSize /\ pos < ReadLen
          /\ Flow(in, Len(got))
       \/ /\ pc = "final" /\ got = Chunks("DATA_IN", cur, ReadLen)
          /\ \/ in = <<>> /\ dst = "finish" /\ did = cur /\ cur \notin failed
             \/ Len(in) = 1 /\ LastWord(in[1]) /\ dst = "idle"
       \/ in = <<>> /\ dst = "idle"

\* The host has sent n packets.
Sent(n) == IF pc = "wsend"
           THEN pos = n * PacketSize /\ pos < WriteLen
           ELSE pos = WriteLen /\ All(n, WriteLen)

Writing ==
    /\ pc \in {"wsend", "final"} /\ kind = "write" /\ from = {cur}
    /\ execd[cur] > 0
    /\ \/ /\ dst = "recv" /\ did = cur /\ in = <<>> /\ cur \notin failed
          /\ Packets(stored, "DATA_OUT", 0) /\ dpos = Len(stored) * PacketSize
          /\ Packets(outq, "DATA_OUT", Len(stored))
          /\ Sent(Len(stored) + Len(outq))
       \/ /\ pc = "final" /\ pos = WriteLen /\ outq = <<>>
          /\ stored = Chunks("DATA_OUT", cur, WriteLen)
          /\ \/ dst = "finish" /\ did = cur /\ in = <<>> /\ cur \notin failed
             \/ dst = "idle" /\ Len(in) = 1 /\ LastWord(in[1])
       \/ /\ dst = "idle" /\ DataOnly(outq)
          /\ Len(in) = 1 /\ in[1] = Resp(cur, "error") /\ cur \in failed

LinkInv == faults = 0 => Idle \/ Asked \/ Answered \/ Reading \/ Writing

-----------------------------------------------------------------------------
(* Type correctness.                                                       *)

\* What report builds is a report.
LEMMA ReportType ==
    ASSUME NEW rep \in HID_REPORT, NEW c \in 0 .. MaxCalls, NEW p \in Nat,
           NEW a \in Kinds \cup Status \cup {"none"}
    PROVE  /\ report(rep, c, p, a) \in Report
           /\ report(rep, c, p, a).rep = rep /\ report(rep, c, p, a).id = c
           /\ report(rep, c, p, a).pos = p /\ report(rep, c, p, a).arg = a
BY DEF report, Report

\* A payload is a byte at least, a report at most, and within the transfer.
LEMMA ChunkType ==
    ASSUME NEW total \in Nat, NEW p \in Nat, p < total
    PROVE  /\ Chunk(total, p) \in Nat /\ Chunk(total, p) > 0
           /\ p + Chunk(total, p) <= total
BY SizesAssumption DEF Chunk

\* Counting an execution keeps counts.
LEMMA CountType ==
    ASSUME NEW e \in [Calls -> Nat], NEW d \in 0 .. MaxCalls
    PROVE  [e EXCEPT ![d] = e[d] + 1] \in [Calls -> Nat]
<1>1. CASE d \in Calls
  BY <1>1
<1>2. CASE d \notin Calls
  BY <1>2
<1>. QED
  BY <1>1, <1>2

USE DEF TypeInv, TypeOK, DataInv

\* The invariant holds on a device that was just opened.
LEMMA TypeInit == Init => TypeInv
BY SizesAssumption DEF Init, Kinds, Outcomes, Calls, OutReport, InReport

\* A report for the device, a report for the host.
LEMMA QueueType ==
    ASSUME TypeInv
    PROVE  /\ outq \in Seq(Report) /\ in \in Seq(Report)
           /\ outq # <<>> => /\ Head(outq) \in OutReport /\ Head(outq) \in Report
                             /\ Tail(outq) \in Seq(OutReport) /\ Tail(outq) \in Seq(Report)
           /\ in # <<>> => /\ Head(in) \in InReport /\ Head(in) \in Report
                           /\ Tail(in) \in Seq(InReport) /\ Tail(in) \in Seq(Report)
<1>1. OutReport \subseteq Report /\ InReport \subseteq Report
  BY DEF OutReport, InReport
<1>. QED
  BY <1>1

\* Starting a call, and the user's restart, preserve it.
LEMMA TypeCall ==
    ASSUME TypeInv, \/ \E k \in Kinds : Call(k) \/ CommandWriteFails(k)
                    \/ Restart
    PROVE  TypeInv'
<1>1. CASE \E k \in Kinds : Call(k)
  <2>1. PICK k \in Kinds : Call(k)
    BY <1>1
  <2>2. cur + 1 \in 0 .. MaxCalls
    BY <2>1, SizesAssumption DEF Call
  <2>3. report("CMD_OUT", cur + 1, 0, k) \in OutReport
    BY <2>2, ReportType DEF OutReport, HID_REPORT
  <2>4. report("CMD_OUT", cur + 1, 0, k) \in Report
    BY <2>3 DEF OutReport
  <2>. QED
    BY <2>1, <2>2, <2>3, <2>4 DEF Call, devVars, Waits, Outcomes
<1>2. CASE Restart
  BY <1>2 DEF Restart, Outcomes
<1>3. CASE \E k \in Kinds : CommandWriteFails(k)
  BY <1>3, SizesAssumption DEF CommandWriteFails, devVars, Waits, Outcomes
<1>. QED
  BY <1>1, <1>2, <1>3

\* The host's steps preserve it.
LEMMA TypeHost ==
    ASSUME TypeInv, HostStep
    PROVE  TypeInv'
<1>1. CASE Response
  <2>1. in # <<>> /\ in' = Tail(in) /\ pc = "resp" /\ pos = 0
    BY <1>1 DEF Response, Receives
  <2>2. in' \in Seq(InReport) /\ in' \in Seq(Report) /\ Head(in) \in Report
    BY <2>1, QueueType
  <2>3. from' \subseteq 0 .. MaxCalls
    BY <1>1, <2>2 DEF Response, Report
  <2>4. /\ pc' \in {"idle", "rdata", "wsend"} /\ out' \in Outcomes
        /\ faults' \in Nat
    BY <1>1 DEF Response, Finish, Raised, Outcomes
  <2>. QED
    BY <1>1, <2>1, <2>2, <2>3, <2>4, SizesAssumption DEF Response, devVars, Waits
<1>2. CASE ReadData
  <2>1. in # <<>> /\ in' = Tail(in)
    BY <1>2 DEF ReadData, Receives
  <2>2. /\ in' \in Seq(InReport) /\ in' \in Seq(Report)
        /\ Head(in) \in Report /\ Head(in) \in InReport
    BY <2>1, QueueType
  <2>3. from' \subseteq 0 .. MaxCalls
    BY <1>2, <2>2 DEF ReadData, Report
  <2>4. Payload(Head(in)) \in Nat
    <3>1. CASE Head(in).rep = "DATA_IN"
      <4>1. Head(in).pos \in Nat /\ Head(in).pos <= ReadLen
        BY <2>2, <3>1 DEF InReport, Report
      <4>2. Chunk(ReadLen, Head(in).pos) \in Nat
        BY <4>1, SizesAssumption DEF Chunk
      <4>. QED
        BY <3>1, <4>2 DEF Payload
    <3>2. CASE Head(in).rep # "DATA_IN"
      BY <3>2 DEF Payload, RespPayload
    <3>. QED
      BY <3>1, <3>2
  <2>5. pos' \in Nat /\ pc' \in {"rdata", "final"}
    BY <1>2, <2>4 DEF ReadData
  <2>6. got' \in Seq(Report)
    BY <1>2, <2>2 DEF ReadData
  <2>. QED
    BY <1>2, <2>2, <2>3, <2>5, <2>6 DEF ReadData, devVars, Waits
<1>3. CASE SendData
  <2>1. report("DATA_OUT", cur, pos, "none") \in OutReport
    BY ReportType DEF OutReport, HID_REPORT
  <2>2. report("DATA_OUT", cur, pos, "none") \in Report
    BY <2>1 DEF OutReport
  <2>3. Chunk(WriteLen, pos) \in Nat
    BY <1>3, ChunkType, SizesAssumption DEF SendData
  <2>4. pos' \in Nat /\ pc' \in {"wsend", "final"} /\ (pc' = "wsend" => pos' < WriteLen)
    BY <1>3, <2>3 DEF SendData
  <2>. QED
    BY <1>3, <2>1, <2>2, <2>4 DEF SendData, devVars, Waits
<1>4. CASE FinalResponse
  <2>1. in # <<>> /\ in' = Tail(in)
    BY <1>4 DEF FinalResponse, Receives
  <2>2. in' \in Seq(InReport) /\ in' \in Seq(Report) /\ Head(in) \in Report
    BY <2>1, QueueType
  <2>3. from' \subseteq 0 .. MaxCalls
    BY <1>4, <2>2 DEF FinalResponse, Report
  <2>4. pc' = "idle" /\ out' \in Outcomes
    BY <1>4 DEF FinalResponse, Finish, Raised, Outcomes
  <2>. QED
    BY <1>4, <2>2, <2>3, <2>4 DEF FinalResponse, devVars, Waits
<1>5. CASE Timeout
  BY <1>5 DEF Timeout, Finish, devVars, Outcomes
<1>6. CASE DataWriteFails
  BY <1>6 DEF DataWriteFails, Finish, devVars, Outcomes
<1>. QED
  BY <1>1, <1>2, <1>3, <1>4, <1>5, <1>6 DEF HostStep

\* A response is a report for the host.
LEMMA RespType ==
    ASSUME NEW c \in 0 .. MaxCalls, NEW s \in Status, TypeInv, DevSends(Resp(c, s))
    PROVE  in' \in Seq(InReport) /\ in' \in Seq(Report)
<1>1. Resp(c, s) \in InReport
  BY ReportType DEF Resp, InReport, HID_REPORT
<1>2. Resp(c, s) \in Report
  BY <1>1 DEF InReport
<1>. QED
  BY <1>1, <1>2 DEF DevSends

\* The device's steps preserve it.
LEMMA TypeDevice ==
    ASSUME TypeInv, DevStep
    PROVE  TypeInv'
<1>1. CASE DevCommand
  <2>1. outq # <<>> /\ outq' = Tail(outq) /\ Head(outq).rep = "CMD_OUT"
    BY <1>1 DEF DevCommand, DevTakes
  <2>2. /\ outq' \in Seq(OutReport) /\ outq' \in Seq(Report)
        /\ Head(outq) \in Report /\ Head(outq) \in OutReport
    BY <2>1, QueueType
  <2>3. Head(outq).id \in 0 .. MaxCalls /\ Head(outq).arg \in Kinds
    BY <2>1, <2>2 DEF OutReport, Report
  <2>. QED
    BY <1>1, <2>2, <2>3 DEF DevCommand, hostVars
<1>2. CASE DevExecute
  <2>1. PICK s \in Status :
         /\ DevSends(Resp(did, s))
         /\ failed' = IF s = "error" THEN failed \cup {did} ELSE failed
         /\ dst' = CASE s = "error" \/ dkind = "cmd" -> "idle"
                     [] s = "success" /\ dkind = "read"  -> "data"
                     [] s = "success" /\ dkind = "write" -> "recv"
                     [] s = "success" /\ dkind = "empty" -> "finish"
    BY <1>2 DEF DevExecute
  <2>2. in' \in Seq(InReport) /\ in' \in Seq(Report)
    BY <2>1, RespType
  <2>3. execd' \in [Calls -> Nat]
    <3>1. execd' = [execd EXCEPT ![did] = execd[did] + 1]
      BY <1>2 DEF DevExecute
    <3>. QED
      BY <3>1, CountType
  <2>4. dst' \in {"idle", "data", "recv", "finish"}
    BY <2>1 DEF Status, Kinds
  <2>5. dpos' = dpos /\ dpos = 0
    BY <1>2 DEF DevExecute
  <2>6. failed' \subseteq 0 .. MaxCalls
    BY <2>1
  <2>7. UNCHANGED <<hostVars, outq, did, dkind, stored>>
    BY <1>2 DEF DevExecute
  <2>. QED
    BY <2>2, <2>3, <2>4, <2>5, <2>6, <2>7, SizesAssumption DEF hostVars
<1>3. CASE DevData
  <2>0. dst = "data" /\ dpos < ReadLen
    BY <1>3 DEF DevData
  <2>1. CASE /\ DevSends(report("DATA_IN", did, dpos, "none"))
             /\ dpos' = dpos + Chunk(ReadLen, dpos)
             /\ dst' = IF dpos' < ReadLen THEN "data" ELSE "finish"
             /\ UNCHANGED failed
    <3>1. report("DATA_IN", did, dpos, "none") \in InReport
      BY <2>0, ReportType, SizesAssumption DEF InReport, HID_REPORT
    <3>2. report("DATA_IN", did, dpos, "none") \in Report
      BY <3>1 DEF InReport
    <3>3. in' \in Seq(InReport) /\ in' \in Seq(Report)
      BY <2>1, <3>1, <3>2 DEF DevSends
    <3>4. dpos' \in Nat
      <4>1. Chunk(ReadLen, dpos) \in Nat
        BY <2>0, ChunkType, SizesAssumption
      <4>. QED
        BY <2>1, <4>1
    <3>. QED
      BY <1>3, <2>1, <3>3, <3>4 DEF DevData, hostVars
  <2>2. CASE /\ DevSends(Resp(did, "error"))
             /\ dst' = "idle"
             /\ failed' = failed \cup {did}
             /\ UNCHANGED dpos
    <3>1. in' \in Seq(InReport) /\ in' \in Seq(Report)
      BY <2>2, RespType DEF Status
    <3>. QED
      BY <1>3, <2>2, <3>1 DEF DevData, hostVars
  <2>3. CASE DevSends(Empty(did)) /\ UNCHANGED <<dst, dpos, failed>>
    <3>1. Empty(did) \in Report /\ Empty(did) \in InReport
      BY ReportType, SizesAssumption DEF Empty, InReport, HID_REPORT
    <3>2. in' \in Seq(InReport) /\ in' \in Seq(Report)
      BY <2>3, <3>1 DEF DevSends
    <3>. QED
      BY <1>3, <2>3, <3>2 DEF DevData, hostVars
  <2>. QED
    BY <1>3, <2>1, <2>2, <2>3 DEF DevData
<1>4. CASE DevStore
  <2>1. dst = "recv" /\ dpos < WriteLen /\ outq # <<>> /\ outq' = Tail(outq)
    BY <1>4 DEF DevStore, DevTakes
  <2>2. /\ outq' \in Seq(OutReport) /\ outq' \in Seq(Report)
        /\ Head(outq) \in Report
    BY <2>1, QueueType
  <2>3. CASE /\ stored' = Append(stored, Head(outq))
             /\ dpos' = dpos + Chunk(WriteLen, dpos)
             /\ dst' = IF dpos' < WriteLen THEN "recv" ELSE "finish"
             /\ UNCHANGED <<in, failed>>
    <3>1. dpos' \in Nat
      <4>1. Chunk(WriteLen, dpos) \in Nat
        BY <2>1, ChunkType, SizesAssumption
      <4>. QED
        BY <2>3, <4>1
    <3>2. stored' \in Seq(Report)
      BY <2>2, <2>3
    <3>. QED
      BY <1>4, <2>2, <2>3, <3>1, <3>2 DEF DevStore, hostVars
  <2>4. CASE /\ DevSends(Resp(did, "error"))
             /\ failed' = failed \cup {did}
             /\ dst' = "idle"
             /\ UNCHANGED <<stored, dpos>>
    <3>1. in' \in Seq(InReport) /\ in' \in Seq(Report)
      BY <2>4, RespType DEF Status
    <3>. QED
      BY <1>4, <2>2, <2>4, <3>1 DEF DevStore, hostVars
  <2>. QED
    BY <1>4, <2>3, <2>4 DEF DevStore
<1>5. CASE DevIgnore
  <2>1. outq # <<>> /\ outq' = Tail(outq)
    BY <1>5 DEF DevIgnore, DevTakes
  <2>2. outq' \in Seq(OutReport) /\ outq' \in Seq(Report)
    BY <2>1, QueueType
  <2>. QED
    BY <1>5, <2>2 DEF DevIgnore, hostVars, devVars
<1>6. CASE DevFinish
  <2>1. PICK s \in Status :
         /\ DevSends(Resp(did, s))
         /\ failed' = IF s = "error" THEN failed \cup {did} ELSE failed
    BY <1>6 DEF DevFinish
  <2>2. in' \in Seq(InReport) /\ in' \in Seq(Report)
    BY <2>1, RespType
  <2>. QED
    BY <1>6, <2>1, <2>2 DEF DevFinish, hostVars
<1>. QED
  BY <1>1, <1>2, <1>3, <1>4, <1>5, <1>6 DEF DevStep

\* The invariant the other proofs build on.
THEOREM TypeInvariant == Spec => []TypeInv
<1>1. Init => TypeInv
  BY TypeInit
<1>2. TypeInv /\ [Next]_vars => TypeInv'
  <2>1. SUFFICES ASSUME TypeInv, [Next]_vars
                 PROVE  TypeInv'
    OBVIOUS
  <2>2. CASE Next
    BY <2>1, <2>2, TypeCall, TypeHost, TypeDevice DEF Next
  <2>3. CASE UNCHANGED vars
    BY <2>1, <2>3 DEF vars, hostVars, devVars
  <2>. QED
    BY <2>1, <2>2, <2>3
<1>. QED
  BY <1>1, <1>2, PTL DEF Spec

\* TypeOK is an invariant, whatever is in the queue when a device is opened.
THEOREM TypeCorrect == Spec => []TypeOK
<1>1. TypeInv => TypeOK
  OBVIOUS
<1>. QED
  BY <1>1, TypeInvariant, PTL

HIDE DEF TypeInv, TypeOK, DataInv

-----------------------------------------------------------------------------
(* A command is executed at most once, and fails after it was executed.    *)

\* Steps that neither send a command nor begin or execute one: the queue loses
\* reports or gains one that is no command.
LEMMA OnceKept ==
    ASSUME TypeInv, OnceInv,
           \/ outq' = outq
           \/ outq' = <<>>
           \/ outq # <<>> /\ outq' = Tail(outq)
           \/ \E r \in Report : r.rep # "CMD_OUT" /\ outq' = Append(outq, r),
           execd' = execd,
           dst' = "exec" => dst = "exec" /\ did' = did,
           cur' = cur,
           pc' # "idle" => cur \in Calls
    PROVE  OnceInv'
<1>1. outq \in Seq(Report)
  BY DEF TypeInv, TypeOK
<1>2. \A c \in Calls : Begun(c)' => Begun(c)
  BY DEF Begun
<1>3. PICK k \in Nat :
         \A i \in 1 .. Len(outq') :
            outq'[i].rep = "CMD_OUT" =>
               i + k \in 1 .. Len(outq) /\ outq'[i] = outq[i + k]
  <2>1. CASE outq' = outq \/ outq' = <<>>
    BY <1>1, <2>1
  <2>2. CASE outq # <<>> /\ outq' = Tail(outq)
    <3>1. \A i \in 1 .. Len(outq') : i + 1 \in 1 .. Len(outq) /\ outq'[i] = outq[i + 1]
      BY <1>1, <2>2
    <3>2. 1 \in Nat
      OBVIOUS
    <3>. QED
      BY <3>1, <3>2
  <2>3. CASE \E r \in Report : r.rep # "CMD_OUT" /\ outq' = Append(outq, r)
    BY <1>1, <2>3
  <2>. QED
    BY <2>1, <2>2, <2>3
<1>4. Len(outq') \in Nat
  BY <1>1
<1>5. \A i \in 1 .. Len(outq'), c \in Calls :
         Sends(i, c)' => i + k \in 1 .. Len(outq) /\ Sends(i + k, c)
  BY <1>3 DEF Sends
<1>6. \A i \in 1 .. Len(outq') : outq'[i].rep = "CMD_OUT" => outq'[i].id \in Calls
  BY <1>3 DEF OnceInv
<1>7. \A i, j \in 1 .. Len(outq'), c \in Calls : Sends(i, c)' /\ Sends(j, c)' => i = j
  <2>1. SUFFICES ASSUME NEW i \in 1 .. Len(outq'), NEW j \in 1 .. Len(outq'),
                        NEW c \in Calls, Sends(i, c)', Sends(j, c)'
                 PROVE  i = j
    OBVIOUS
  <2>2. i + k = j + k
    BY <1>5, <2>1 DEF OnceInv
  <2>. QED
    BY <1>4, <2>2
<1>8. \A i \in 1 .. Len(outq'), c \in Calls :
         Sends(i, c)' => execd'[c] = 0 /\ ~Begun(c)' /\ c <= cur'
  BY <1>2, <1>5 DEF OnceInv
<1>9. /\ dst' = "exec" => did' \in Calls
      /\ \A c \in Calls : Begun(c)' => execd'[c] = 0 /\ c <= cur'
      /\ \A c \in Calls : c > cur' => execd'[c] = 0
      /\ \A c \in Calls : execd'[c] \in 0 .. 1
  BY <1>2 DEF OnceInv
<1>. QED
  BY <1>6, <1>7, <1>8, <1>9 DEF OnceInv

\* Call sends the one command report of the new call.
LEMMA OnceCall ==
    ASSUME TypeInv, OnceInv, NEW k \in Kinds, Call(k)
    PROVE  OnceInv'
<1> DEFINE r == report("CMD_OUT", cur + 1, 0, k)
<1>1. /\ outq \in Seq(Report) /\ cur \in 0 .. MaxCalls
      /\ outq' = Append(outq, r) /\ cur' = cur + 1
      /\ execd' = execd /\ dst' = dst /\ did' = did
  BY DEF TypeInv, TypeOK, Call, devVars
<1>2. r.rep = "CMD_OUT" /\ r.id = cur'
  BY <1>1 DEF report
<1> HIDE DEF r
<1>0. PICK n \in Nat : n = Len(outq)
  BY <1>1
<1>3. /\ Len(outq') = n + 1 /\ outq'[n + 1] = r
      /\ \A i \in 1 .. n : outq'[i] = outq[i]
  BY <1>0, <1>1, AppendProperties
<1>4. cur' \in Calls /\ \A c \in Calls : c <= cur => c <= cur' /\ c # cur'
  BY <1>1, SizesAssumption DEF Call, Calls
<1>5. /\ execd[cur'] = 0 /\ ~Begun(cur')
      /\ \A c \in Calls : Begun(c)' <=> Begun(c)
  BY <1>1, <1>4, SizesAssumption DEF OnceInv, Begun, Calls
<1>6. \A i \in 1 .. n, c \in Calls :
         (Sends(i, c)' <=> Sends(i, c)) /\ (Sends(i, c) => c # cur')
  BY <1>3, <1>0, <1>4 DEF Sends, OnceInv
<1>7. \A c \in Calls : Sends(n + 1, c)' <=> c = cur'
  BY <1>2, <1>3 DEF Sends
<1>8. \A i \in 1 .. Len(outq') : i \in 1 .. n \/ i = n + 1
  BY <1>0, <1>3
<1>9. \A i, j \in 1 .. Len(outq'), c \in Calls : Sends(i, c)' /\ Sends(j, c)' => i = j
  BY <1>0, <1>6, <1>7, <1>8 DEF OnceInv
<1>10. \A i \in 1 .. Len(outq'), c \in Calls :
          Sends(i, c)' => execd[c] = 0 /\ ~Begun(c)' /\ c <= cur'
  <2>1. SUFFICES ASSUME NEW i \in 1 .. Len(outq'), NEW c \in Calls, Sends(i, c)'
                 PROVE  execd[c] = 0 /\ ~Begun(c)' /\ c <= cur'
    OBVIOUS
  <2>2. CASE i \in 1 .. n
    <3>1. Sends(i, c)
      BY <1>6, <2>1, <2>2
    <3>2. execd[c] = 0 /\ ~Begun(c) /\ c <= cur
      BY <1>0, <2>2, <3>1 DEF OnceInv
    <3>. QED
      BY <1>4, <1>5, <3>2
  <2>3. CASE i = n + 1
    <3>1. Sends(n + 1, c)'
      BY <1>0, <2>1, <2>3 DEF Sends
    <3>2. c = cur' /\ c <= c
      BY <1>7, <3>1 DEF Calls
    <3>. QED
      BY <1>4, <1>5, <3>2
  <2>. QED
    BY <1>8, <2>2, <2>3
<1>11. \A i \in 1 .. Len(outq') : outq'[i].rep = "CMD_OUT" => outq'[i].id \in Calls
  BY <1>0, <1>2, <1>3, <1>4, <1>8 DEF OnceInv
<1>12. /\ \A c \in Calls : Begun(c)' => execd[c] = 0 /\ c <= cur'
       /\ \A c \in Calls : c > cur' => execd[c] = 0
  BY <1>1, <1>4, <1>5 DEF OnceInv, Calls
<1>. QED
  BY <1>1, <1>4, <1>9, <1>10, <1>11, <1>12 DEF OnceInv

\* DevCommand moves a command from the queue into the device's hands.
LEMMA OnceDevCommand ==
    ASSUME TypeInv, OnceInv, DevCommand
    PROVE  OnceInv'
<1>1. /\ outq \in Seq(Report) /\ outq # <<>> /\ outq' = Tail(outq)
      /\ Head(outq) = outq[1]
      /\ outq[1].rep = "CMD_OUT" /\ dst # "exec" /\ dst' = "exec" /\ did' = outq[1].id
      /\ execd' = execd /\ pc' = pc /\ cur' = cur
      /\ Len(outq) \in Nat /\ 1 \in 1 .. Len(outq)
  BY DEF TypeInv, TypeOK, DevCommand, DevTakes, hostVars
<1>2. /\ Len(outq') \in Nat
      /\ \A i \in 1 .. Len(outq') : i + 1 \in 1 .. Len(outq) /\ outq'[i] = outq[i + 1]
  BY <1>1
<1>3. did' \in Calls /\ Sends(1, did')
  BY <1>1 DEF OnceInv, Sends
<1>4. \A c \in Calls : (Begun(c)' <=> c = did') /\ ~Begun(c)
  BY <1>1 DEF Begun
<1>5. \A i \in 1 .. Len(outq'), c \in Calls :
         Sends(i, c)' => i + 1 \in 1 .. Len(outq) /\ Sends(i + 1, c) /\ i + 1 # 1
  BY <1>2 DEF Sends
<1>6. \A i \in 1 .. Len(outq'), c \in Calls : Sends(i, c)' => c # did'
  BY <1>1, <1>3, <1>5 DEF OnceInv
<1>7. \A i, j \in 1 .. Len(outq'), c \in Calls : Sends(i, c)' /\ Sends(j, c)' => i = j
  <2>1. SUFFICES ASSUME NEW i \in 1 .. Len(outq'), NEW j \in 1 .. Len(outq'),
                        NEW c \in Calls, Sends(i, c)', Sends(j, c)'
                 PROVE  i = j
    OBVIOUS
  <2>2. i + 1 = j + 1
    BY <1>5, <2>1 DEF OnceInv
  <2>. QED
    BY <1>2, <2>2
<1>8. \A i \in 1 .. Len(outq'), c \in Calls :
         Sends(i, c)' => execd[c] = 0 /\ ~Begun(c)' /\ c <= cur
  BY <1>4, <1>5, <1>6 DEF OnceInv
<1>9. \A i \in 1 .. Len(outq') : outq'[i].rep = "CMD_OUT" => outq'[i].id \in Calls
  BY <1>2 DEF OnceInv
<1>10. \A c \in Calls : Begun(c)' => execd[c] = 0 /\ c <= cur
  BY <1>1, <1>3, <1>4 DEF OnceInv
<1>. QED
  BY <1>1, <1>3, <1>7, <1>8, <1>9, <1>10 DEF OnceInv

\* DevExecute executes the command in the device's hands.
LEMMA OnceDevExecute ==
    ASSUME TypeInv, OnceInv, DevExecute
    PROVE  OnceInv'
<1>1. /\ dst = "exec" /\ dst' # "exec" /\ did' = did
      /\ execd \in [Calls -> Nat] /\ execd' = [execd EXCEPT ![did] = @ + 1]
      /\ outq' = outq /\ pc' = pc /\ cur' = cur
  <2>1. PICK s \in Status :
         dst' = CASE s = "error" \/ dkind = "cmd" -> "idle"
                  [] s = "success" /\ dkind = "read"  -> "data"
                  [] s = "success" /\ dkind = "write" -> "recv"
                  [] s = "success" /\ dkind = "empty" -> "finish"
    BY DEF DevExecute
  <2>2. dkind \in Kinds
    BY DEF TypeInv, TypeOK
  <2>3. dst' # "exec"
    BY <2>1, <2>2 DEF Status, Kinds
  <2>. QED
    BY <2>3 DEF TypeInv, TypeOK, DevExecute, hostVars
<1>2. did \in Calls /\ Begun(did) /\ execd[did] = 0
  BY <1>1 DEF OnceInv, Begun
<1>3. /\ execd'[did] = 1
      /\ \A c \in Calls : c # did => execd'[c] = execd[c]
  BY <1>1, <1>2
<1>4. \A c \in Calls : ~Begun(c)' /\ (c > cur => c # did)
  BY <1>1, <1>2, SizesAssumption DEF Begun, OnceInv, Calls, TypeInv, TypeOK
<1>5. \A i \in 1 .. Len(outq), c \in Calls : (Sends(i, c)' <=> Sends(i, c))
                                           /\ (Sends(i, c) => c # did)
  BY <1>1, <1>2 DEF Sends, OnceInv
<1>. QED
  BY <1>1, <1>2, <1>3, <1>4, <1>5 DEF OnceInv

\* A command that could not be written is neither sent nor executed.
LEMMA OnceNotSent ==
    ASSUME TypeInv, OnceInv, NEW k \in Kinds, CommandWriteFails(k)
    PROVE  OnceInv'
<1>1. /\ pc' = "idle" /\ cur' = cur + 1 /\ cur \in 0 .. MaxCalls
      /\ outq' = outq /\ dst' = dst /\ did' = did /\ execd' = execd
  BY DEF CommandWriteFails, devVars, TypeInv, TypeOK
<1>2. \A c \in Calls : (c <= cur => c <= cur') /\ (c > cur' => c > cur)
  BY <1>1, SizesAssumption DEF Calls
<1>3. \A i \in 1 .. Len(outq), c \in Calls : Sends(i, c)' <=> Sends(i, c)
  BY <1>1 DEF Sends
<1>4. \A c \in Calls : Begun(c)' <=> Begun(c)
  BY <1>1 DEF Begun
<1>. QED
  BY <1>1, <1>2, <1>3, <1>4 DEF OnceInv

\* Every step preserves it.
LEMMA OnceInductive ==
    ASSUME TypeInv, OnceInv, [Next]_vars
    PROVE  OnceInv'
<1>0. CASE \E k \in Kinds : CommandWriteFails(k)
  BY <1>0, OnceNotSent
<1>1. CASE \E k \in Kinds : Call(k)
  BY <1>1, OnceCall
<1>2. CASE Restart
  BY <1>2, OnceKept DEF Restart
<1>3. CASE Response \/ ReadData \/ DataWriteFails \/ FinalResponse \/ Timeout
  <2>1. outq' = outq /\ UNCHANGED devVars /\ cur' = cur /\ pc # "idle"
    BY <1>3 DEF Response, ReadData, DataWriteFails, FinalResponse, Timeout,
                Receives, Finish, Waits
  <2>. QED
    BY <2>1, OnceKept DEF devVars, OnceInv
<1>4. CASE SendData
  <2>1. /\ report("DATA_OUT", cur, pos, "none") \in Report
        /\ report("DATA_OUT", cur, pos, "none").rep # "CMD_OUT"
    BY ReportType DEF TypeInv, TypeOK, HID_REPORT
  <2>. QED
    BY <1>4, <2>1, OnceKept DEF SendData, devVars, OnceInv
<1>5. CASE DevStore \/ DevIgnore
  <2>1. outq # <<>> /\ outq' = Tail(outq) /\ execd' = execd /\ UNCHANGED hostVars
    BY <1>5 DEF DevStore, DevIgnore, DevTakes, devVars
  <2>2. dst' = "exec" => dst = "exec" /\ did' = did
    BY <1>5 DEF DevStore, DevIgnore, devVars
  <2>. QED
    BY <2>1, <2>2, OnceKept DEF hostVars, OnceInv
<1>6. CASE DevCommand
  BY <1>6, OnceDevCommand
<1>7. CASE DevExecute
  BY <1>7, OnceDevExecute
<1>8. CASE DevData \/ DevFinish
  BY <1>8, OnceKept DEF DevData, DevFinish, hostVars, OnceInv
<1>9. CASE UNCHANGED vars
  BY <1>9, OnceKept DEF vars, hostVars, devVars, OnceInv
<1>. QED
  BY <1>0, <1>1, <1>2, <1>3, <1>4, <1>5, <1>6, <1>7, <1>8, <1>9
     DEF Next, HostStep, DevStep

\* Every step preserves FailInv.
LEMMA FailInductive ==
    ASSUME TypeInv, OnceInv, FailInv, [Next]_vars
    PROVE  FailInv'
<1>1. CASE DevExecute
  <2>1. did \in Calls /\ execd \in [Calls -> Nat]
    BY <1>1 DEF DevExecute, OnceInv, TypeInv, TypeOK
  <2>2. execd' = [execd EXCEPT ![did] = @ + 1] /\ did' = did
        /\ failed' \subseteq failed \cup {did}
    BY <1>1 DEF DevExecute
  <2>3. \A c \in Calls : execd[c] > 0 \/ c = did => execd'[c] > 0
    BY <2>1, <2>2
  <2>. QED
    BY <2>1, <2>2, <2>3 DEF FailInv
<1>2. CASE DevData \/ DevStore \/ DevFinish
  <2>1. /\ dst \in {"data", "recv", "finish"} /\ did' = did /\ execd' = execd
        /\ failed' \subseteq failed \cup {did}
    BY <1>2 DEF DevData, DevStore, DevFinish
  <2>. QED
    BY <2>1 DEF FailInv
<1>3. CASE DevCommand
  BY <1>3 DEF FailInv, DevCommand
<1>4. CASE \/ \E k \in Kinds : Call(k) \/ CommandWriteFails(k)
           \/ HostStep \/ DevIgnore \/ UNCHANGED vars
  <2>1. UNCHANGED devVars
    BY <1>4 DEF Call, CommandWriteFails, HostStep, Response, ReadData, SendData,
                DataWriteFails, FinalResponse, Timeout, DevIgnore, vars
  <2>. QED
    BY <2>1 DEF FailInv, devVars
<1>5. CASE Restart
  BY <1>5 DEF Restart, FailInv
<1>. QED
  BY <1>1, <1>2, <1>3, <1>4, <1>5 DEF Next, DevStep

-----------------------------------------------------------------------------
(* Counting reports.                                                       *)

\* A product of two counts is a count; one more of the packets is PacketSize more.
LEMMA Times ==
    ASSUME NEW n \in Nat
    PROVE  /\ n * PacketSize \in Nat
           /\ (n + 1) * PacketSize = n * PacketSize + PacketSize
           /\ n <= n * PacketSize
           /\ 0 * PacketSize = 0
BY SizesAssumption

\* More packets, more bytes.
LEMMA TimesMonotone ==
    ASSUME NEW n \in Nat, NEW m \in Nat, n <= m
    PROVE  n * PacketSize <= m * PacketSize
<1>1. (m - n) \in Nat /\ m = n + (m - n)
  OBVIOUS
<1>2. (m - n) * PacketSize \in Nat
  BY <1>1, Times
<1>3. (n + (m - n)) * PacketSize = n * PacketSize + (m - n) * PacketSize
  BY <1>1, SizesAssumption
<1>. QED
  BY <1>1, <1>2, <1>3, Times

\* The next report of a transfer: it is the last one, or a whole packet.
LEMMA AllNext ==
    ASSUME NEW n \in Nat, NEW total \in Nat, n * PacketSize < total
    PROVE  LET end == n * PacketSize + Chunk(total, n * PacketSize)
           IN  /\ end < total => end = (n + 1) * PacketSize
               /\ end >= total => All(n + 1, total) /\ end = total
               /\ end < total <=> (n + 1) * PacketSize < total
<1>1. n * PacketSize \in Nat /\ (n + 1) * PacketSize = n * PacketSize + PacketSize
  BY Times
<1>2. n + 1 - 1 = n
  OBVIOUS
<1>3. PICK b \in Nat : b = n * PacketSize
  BY <1>1
<1>. QED
  BY <1>1, <1>2, <1>3, SizesAssumption DEF Chunk, All

\* n packets are not all of a transfer exactly if there are more bytes.
LEMMA AllOrMore ==
    ASSUME NEW n \in Nat, NEW m \in Nat, NEW total \in Nat, All(m, total)
    PROVE  n * PacketSize < total <=> n < m
<1>1. n * PacketSize \in Nat /\ m * PacketSize \in Nat
  BY Times
<1>2. CASE n < m
  <2>1. n <= m - 1 /\ m - 1 \in Nat
    BY <1>2
  <2>2. n * PacketSize <= (m - 1) * PacketSize /\ (m - 1) * PacketSize \in Nat
    BY <2>1, TimesMonotone, Times
  <2>. QED
    BY <1>1, <1>2, <2>2 DEF All
<1>3. CASE ~(n < m)
  <2>1. m * PacketSize <= n * PacketSize
    BY <1>3, TimesMonotone
  <2>. QED
    BY <1>1, <1>3, <2>1 DEF All
<1>. QED
  BY <1>2, <1>3

\* The number of reports of a transfer is the length of Chunks.
LEMMA AllIsCount ==
    ASSUME NEW n \in Nat, NEW total \in Nat, All(n, total)
    PROVE  n = (total + PacketSize - 1) \div PacketSize
BY SizesAssumption DEF All

\* All the packets in order are the transfer.
LEMMA PacketsAll ==
    ASSUME NEW s \in Seq(Report), NEW rep, NEW total \in Nat,
           Packets(s, rep, 0), All(Len(s), total)
    PROVE  s = Chunks(rep, cur, total)
<1>1. PICK n \in Nat : n = Len(s)
  OBVIOUS
<1>2. n = (total + PacketSize - 1) \div PacketSize
  BY <1>1, AllIsCount
<1>3. DOMAIN s = 1 .. n /\ s = [i \in 1 .. n |-> s[i]]
  BY <1>1
<1>4. \A i \in 1 .. n : s[i] = report(rep, cur, (i - 1) * PacketSize, "none")
  BY <1>1 DEF Packets, Packet
<1>5. s = [i \in 1 .. n |-> report(rep, cur, (i - 1) * PacketSize, "none")]
  BY <1>3, <1>4
<1>. QED
  BY <1>2, <1>5 DEF Chunks

\* The packets after the first one; one packet more.
LEMMA PacketsTail ==
    ASSUME NEW s \in Seq(Report), NEW rep, NEW n \in Nat, Packets(s, rep, n), s # <<>>
    PROVE  /\ Head(s) = Packet(rep, n + 1)
           /\ Packets(Tail(s), rep, n + 1)
<1>1. Len(s) >= 1 /\ Head(s) = s[1] /\ Len(Tail(s)) = Len(s) - 1
  OBVIOUS
<1>2. \A i \in 1 .. Len(Tail(s)) : i + 1 \in 1 .. Len(s) /\ Tail(s)[i] = s[i + 1]
  OBVIOUS
<1>3. \A i \in 1 .. Len(Tail(s)) : n + (i + 1) = n + 1 + i
  OBVIOUS
<1>. QED
  BY <1>1, <1>2, <1>3 DEF Packets

\* The next packet of a report lengthens the packets that are on their way.
LEMMA PacketsAppend ==
    ASSUME NEW s \in Seq(Report), NEW rep, NEW n \in Nat, Packets(s, rep, n),
           NEW r \in Report, r = Packet(rep, n + Len(s) + 1)
    PROVE  Packets(Append(s, r), rep, n)
<1>1. PICK k \in Nat : k = Len(s)
  OBVIOUS
<1>2. /\ Len(Append(s, r)) = k + 1 /\ Append(s, r)[k + 1] = r
      /\ \A i \in 1 .. k : Append(s, r)[i] = s[i]
  BY <1>1, AppendProperties
<1>3. r = Packet(rep, n + (k + 1))
  BY <1>1
<1>. QED
  BY <1>1, <1>2, <1>3 DEF Packets

\* A packet is a report.
LEMMA PacketType ==
    ASSUME TypeInv, NEW rep \in HID_REPORT, NEW i \in Nat, i > 0
    PROVE  Packet(rep, i) \in Report
<1>1. (i - 1) * PacketSize \in Nat
  BY Times
<1>. QED
  BY <1>1, ReportType DEF Packet, TypeInv, TypeOK

-----------------------------------------------------------------------------
(* What the device sends of a read.                                        *)

\* DevExecute, case by case.
LEMMA ExecuteCases ==
    ASSUME TypeInv, DevExecute
    PROVE  \E s \in Status :
             /\ in' = Append(in, Resp(did, s))
             /\ failed' = IF s = "error" THEN failed \cup {did} ELSE failed
             /\ s = "error" \/ dkind = "cmd" => dst' = "idle"
             /\ s = "success" /\ dkind = "read" => dst' = "data"
             /\ s = "success" /\ dkind = "write" => dst' = "recv"
             /\ s = "success" /\ dkind = "empty" => dst' = "finish"
<1>1. PICK s \in Status :
         /\ in' = Append(in, Resp(did, s))
         /\ failed' = IF s = "error" THEN failed \cup {did} ELSE failed
         /\ dst' = CASE s = "error" \/ dkind = "cmd" -> "idle"
                     [] s = "success" /\ dkind = "read"  -> "data"
                     [] s = "success" /\ dkind = "write" -> "recv"
                     [] s = "success" /\ dkind = "empty" -> "finish"
  BY DEF DevExecute, DevSends
<1>2. CASE s = "error" \/ dkind = "cmd"
  BY <1>1, <1>2 DEF Status
<1>3. CASE s = "success" /\ dkind = "read"
  BY <1>1, <1>3
<1>4. CASE s = "success" /\ dkind = "write"
  BY <1>1, <1>4
<1>5. CASE s = "success" /\ dkind = "empty"
  BY <1>1, <1>5
<1>. QED
  BY <1>1, <1>2, <1>3, <1>4, <1>5 DEF TypeInv, TypeOK, Kinds, Status

\* The report at the head of the stream, while bytes are still to come, is the
\* next packet, or an error in its place that is the last report.
LEMMA StreamHead ==
    ASSUME TypeInv, NEW s \in Seq(Report), NEW n \in Nat,
           Stream(s, n), s # <<>>, n * PacketSize < ReadLen
    PROVE  \/ /\ Head(s) = Packet("DATA_IN", n + 1)
              /\ (n + 1) * PacketSize < ReadLen => Stream(Tail(s), n + 1)
              /\ (n + 1) * PacketSize >= ReadLen =>
                   \/ Tail(s) = <<>> /\ dst = "finish" /\ did = cur /\ cur \notin failed
                   \/ Len(Tail(s)) = 1 /\ LastWord(Tail(s)[1]) /\ dst = "idle"
           \/ Tail(s) = <<>> /\ Head(s) = Resp(cur, "error") /\ dst = "idle"
<1>1. PICK k \in Nat : Len(s) = k + 1
  <2>1. Len(s) \in Nat /\ Len(s) # 0
    OBVIOUS
  <2>2. Len(s) - 1 \in Nat /\ Len(s) = (Len(s) - 1) + 1
    BY <2>1
  <2>. QED
    BY <2>2
<1>2. Head(s) = s[1] /\ Len(Tail(s)) = k /\ \A i \in 1 .. k : Tail(s)[i] = s[i + 1]
  BY <1>1
<1>3. ReadLen \in Nat
  BY SizesAssumption
<1>4. (n + 1) * PacketSize \in Nat
  BY Times
<1>5. CASE /\ dst = "data" /\ did = cur /\ cur \notin failed
           /\ Packets(s, "DATA_IN", n)
           /\ dpos = (n + Len(s)) * PacketSize
  <2>1. Head(s) = Packet("DATA_IN", n + 1) /\ Packets(Tail(s), "DATA_IN", n + 1)
    BY <1>5, PacketsTail
  <2>2. n + Len(s) = (n + 1) + k /\ n + 1 <= n + 1 + k
    BY <1>1
  <2>3. dpos = ((n + 1) + Len(Tail(s))) * PacketSize
    BY <1>2, <1>5, <2>2
  <2>4. dpos < ReadLen
    BY <1>5 DEF TypeInv, DataInv
  <2>5. (n + 1) * PacketSize < ReadLen
    <3>1. (n + 1) * PacketSize <= (n + 1 + k) * PacketSize
      BY <2>2, TimesMonotone
    <3>2. (n + 1 + k) * PacketSize = dpos
      BY <1>2, <2>3
    <3>3. dpos \in Nat
      BY DEF TypeInv, TypeOK
    <3>. QED
      BY <1>3, <1>4, <2>4, <3>1, <3>2, <3>3
  <2>. QED
    BY <1>3, <1>4, <1>5, <2>1, <2>3, <2>5 DEF Stream
<1>6. CASE /\ dst = "finish" /\ did = cur /\ cur \notin failed
           /\ Packets(s, "DATA_IN", n)
           /\ All(n + Len(s), ReadLen)
  <2>1. Head(s) = Packet("DATA_IN", n + 1) /\ Packets(Tail(s), "DATA_IN", n + 1)
    BY <1>6, PacketsTail
  <2>2. n + Len(s) = (n + 1) + k /\ n + 1 \in Nat /\ (n + 1) + k \in Nat
    BY <1>1
  <2>3. All((n + 1) + Len(Tail(s)), ReadLen)
    BY <1>2, <1>6, <2>2
  <2>4. (n + 1) * PacketSize < ReadLen <=> n + 1 < (n + 1) + k
    BY <1>2, <1>3, <2>2, <2>3, AllOrMore
  <2>5. (n + 1) * PacketSize >= ReadLen => Tail(s) = <<>>
    BY <1>2, <1>3, <1>4, <2>4
  <2>. QED
    BY <1>3, <1>4, <1>6, <2>1, <2>3, <2>5 DEF Stream
<1>7. CASE /\ dst = "idle" /\ s # <<>>
           /\ \A i \in 1 .. Len(s) - 1 : s[i] = Packet("DATA_IN", n + i)
           /\ LastWord(s[Len(s)])
           /\ \/ All(n + Len(s) - 1, ReadLen)
              \/ (n + Len(s) - 1) * PacketSize < ReadLen /\ cur \in failed
  <2>1. n + Len(s) - 1 = n + k /\ Len(s) - 1 = k
    BY <1>1
  <2>2. CASE k = 0
    <3>1. (n * PacketSize < ReadLen /\ cur \in failed) \/ All(n, ReadLen)
      BY <1>7, <2>1, <2>2
    <3>2. cur \in failed
      BY <1>3, <3>1, AllOrMore
    <3>3. LastWord(s[1])
      BY <1>1, <1>7, <2>2
    <3>4. s[1] = Resp(cur, "error")
      BY <3>2, <3>3 DEF LastWord, Status
    <3>5. Tail(s) = <<>>
      <4>1. Tail(s) \in Seq(Report) /\ Len(Tail(s)) = 0
        BY <1>2, <2>2
      <4>. QED
        BY <4>1, EmptySeq
    <3>. QED
      BY <1>2, <1>7, <3>4, <3>5
  <2>3. CASE k # 0
    <3>1. PICK j \in Nat : k = j + 1
      <4>1. k - 1 \in Nat /\ k = (k - 1) + 1
        BY <2>3
      <4>. QED
        BY <4>1
    <3>2. Head(s) = Packet("DATA_IN", n + 1)
      BY <1>2, <1>7, <2>1, <3>1
    <3>3. /\ Len(Tail(s)) = j + 1 /\ Tail(s) # <<>>
          /\ Tail(s)[Len(Tail(s))] = s[Len(s)]
      <4>1. Tail(s)[k] = s[k + 1]
        BY <1>2, <3>1
      <4>2. Len(Tail(s)) = k /\ Len(s) = k + 1
        BY <1>1, <1>2
      <4>3. Tail(s)[Len(Tail(s))] = s[Len(s)]
        BY ONLY <4>1, <4>2
      <4>4. Len(Tail(s)) = j + 1
        BY <1>2, <3>1
      <4>5. Tail(s) # <<>>
        <5>1. Tail(s) \in Seq(Report) /\ Len(Tail(s)) # 0
          BY <4>4
        <5>. QED
          BY <5>1, EmptySeq
      <4>. QED
        BY <4>3, <4>4, <4>5
    <3>4. \A i \in 1 .. Len(Tail(s)) - 1 : Tail(s)[i] = Packet("DATA_IN", (n + 1) + i)
      <4>1. SUFFICES ASSUME NEW i \in 1 .. j
                     PROVE  Tail(s)[i] = Packet("DATA_IN", (n + 1) + i)
        BY <3>3
      <4>2. i + 1 \in 1 .. k /\ i \in 1 .. k /\ n + (i + 1) = (n + 1) + i
        BY <3>1
      <4>3. s[i + 1] = Packet("DATA_IN", n + (i + 1))
        BY <1>7, <2>1, <4>2
      <4>. QED
        BY <1>2, <4>2, <4>3
    <3>5. (n + 1) + Len(Tail(s)) - 1 = n + k /\ n + k = (n + 1) + j
      BY <3>1, <3>3
    <3>6. \/ All((n + 1) + Len(Tail(s)) - 1, ReadLen)
          \/ ((n + 1) + Len(Tail(s)) - 1) * PacketSize < ReadLen /\ cur \in failed
      BY <1>7, <2>1, <3>5
    <3>7. Stream(Tail(s), n + 1)
      BY <1>7, <3>3, <3>4, <3>6 DEF Stream
    <3>8. ASSUME (n + 1) * PacketSize >= ReadLen
          PROVE  Len(Tail(s)) = 1 /\ LastWord(Tail(s)[1])
      <4>1. n + 1 \in Nat /\ (n + 1) + j \in Nat /\ n + 1 <= (n + 1) + j
        OBVIOUS
      <4>2. (n + 1) * PacketSize <= ((n + 1) + j) * PacketSize
            /\ ((n + 1) + j) * PacketSize \in Nat
        BY <4>1, TimesMonotone, Times
      <4>3. All((n + 1) + j, ReadLen)
        BY <1>3, <1>4, <3>5, <3>6, <3>8, <4>2
      <4>4. j = 0
        BY <1>3, <1>4, <3>8, <4>1, <4>3, AllOrMore
      <4>5. Len(Tail(s)) = 1
        BY <3>3, <4>4
      <4>. QED
        BY <1>7, <3>3, <4>5
    <3>. QED
      BY <1>7, <3>2, <3>7, <3>8
  <2>. QED
    BY <2>2, <2>3
<1>. QED
  BY <1>5, <1>6, <1>7 DEF Stream

\* A packet of the device joins the stream, or an error ends it.
LEMMA StreamData ==
    ASSUME TypeInv, NEW s \in Seq(Report), NEW n \in Nat, Stream(s, n),
           DevData, ~UNCHANGED <<dst, dpos, failed>>
    PROVE  \E r \in Report : in' = Append(in, r) /\ Stream(Append(s, r), n)'
<1>1. /\ dst = "data" /\ did = cur /\ cur \notin failed
      /\ Packets(s, "DATA_IN", n)
      /\ dpos = (n + Len(s)) * PacketSize
      /\ UNCHANGED <<cur, did>> /\ cur \in 0 .. MaxCalls
  BY DEF DevData, Stream, hostVars, TypeInv, TypeOK
<1>2. PICK k \in Nat : k = Len(s)
  OBVIOUS
<1>3. dpos < ReadLen /\ ReadLen \in Nat /\ n + k \in Nat
  BY <1>1, SizesAssumption DEF TypeInv, DataInv
<1>4. CASE /\ DevSends(report("DATA_IN", did, dpos, "none"))
           /\ dpos' = dpos + Chunk(ReadLen, dpos)
           /\ dst' = IF dpos' < ReadLen THEN "data" ELSE "finish"
           /\ UNCHANGED failed
  <2>0. Packet("DATA_IN", n + k + 1) \in Report
    BY <1>3, PacketType DEF HID_REPORT
  <2>2. PICK r \in Report : r = Packet("DATA_IN", n + k + 1)
    BY <2>0
  <2>1. r = report("DATA_IN", did, dpos, "none")
    BY <1>1, <1>2, <2>2 DEF Packet
  <2>3. /\ Len(Append(s, r)) = k + 1 /\ n + Len(Append(s, r)) = n + k + 1
    BY <1>2, <2>2
  <2>4. Packets(Append(s, r), "DATA_IN", n)
    BY <1>1, <1>2, <2>2, PacketsAppend
  <2>5. Packets(Append(s, r), "DATA_IN", n)'
    BY <1>1, <2>4 DEF Packets, Packet
  <2>6. /\ dpos' < ReadLen => dpos' = (n + k + 1) * PacketSize
        /\ dpos' >= ReadLen => All(n + k + 1, ReadLen)
        /\ dpos' \in Nat
    <3>1. (n + k) * PacketSize < ReadLen
      BY <1>1, <1>2, <1>3
    <3>2. LET end == (n + k) * PacketSize + Chunk(ReadLen, (n + k) * PacketSize)
          IN  /\ end < ReadLen => end = (n + k + 1) * PacketSize
              /\ end >= ReadLen => All(n + k + 1, ReadLen)
      BY <1>3, <3>1, AllNext
    <3>3. (n + k) * PacketSize \in Nat
      BY <1>3, Times
    <3>4. Chunk(ReadLen, (n + k) * PacketSize) \in Nat
      BY <1>3, <3>1, <3>3, ChunkType
    <3>5. dpos = (n + k) * PacketSize
      BY <1>1, <1>2
    <3>. QED
      BY <1>4, <3>2, <3>3, <3>4, <3>5
  <2>7. Stream(Append(s, r), n)'
    <3>1. CASE dpos' < ReadLen
      BY <1>1, <1>4, <2>3, <2>5, <2>6, <3>1 DEF Stream
    <3>2. CASE ~(dpos' < ReadLen)
      <4>1. All(n + k + 1, ReadLen)
        BY <1>3, <2>6, <3>2
      <4>. QED
        BY <1>1, <1>4, <2>3, <2>5, <3>2, <4>1 DEF Stream
    <3>. QED
      BY <3>1, <3>2
  <2>. QED
    BY <1>4, <2>1, <2>2, <2>7 DEF DevSends
<1>5. CASE /\ DevSends(Resp(did, "error"))
           /\ dst' = "idle"
           /\ failed' = failed \cup {did}
           /\ UNCHANGED dpos
  <2>0. Resp(cur, "error") \in Report
    BY <1>1, ReportType DEF Resp, HID_REPORT, Status
  <2>1. PICK r \in Report : r = Resp(cur, "error")
    BY <2>0
  <2>2. LastWord(r)' /\ cur' \in failed'
    BY <1>1, <1>5, <2>1 DEF LastWord, Status
  <2>3. /\ Len(Append(s, r)) = k + 1 /\ Append(s, r) # <<>>
        /\ Append(s, r)[k + 1] = r
        /\ \A i \in 1 .. k : Append(s, r)[i] = s[i]
    BY <1>2, <2>1, AppendProperties
  <2>4. Len(Append(s, r)) - 1 = k /\ n + Len(Append(s, r)) - 1 = n + k
    BY <2>3
  <2>5. \A i \in 1 .. k : Append(s, r)[i] = Packet("DATA_IN", n + i)'
    BY <1>1, <1>2, <2>3 DEF Packets, Packet
  <2>6. (n + k) * PacketSize < ReadLen
    BY <1>1, <1>2, <1>3
  <2>7. Stream(Append(s, r), n)'
    BY <1>5, <2>2, <2>3, <2>4, <2>5, <2>6 DEF Stream
  <2>. QED
    BY <1>1, <1>5, <2>1, <2>7 DEF DevSends
<1>. QED
  BY <1>4, <1>5 DEF DevData

\* The final response of the device ends the stream.
LEMMA StreamFinish ==
    ASSUME TypeInv, NEW s \in Seq(Report), NEW n \in Nat, Stream(s, n), DevFinish
    PROVE  \E r \in Report : in' = Append(in, r) /\ Stream(Append(s, r), n)'
<1>1. /\ dst = "finish" /\ did = cur /\ cur \notin failed
      /\ Packets(s, "DATA_IN", n)
      /\ All(n + Len(s), ReadLen)
      /\ UNCHANGED <<cur, did>> /\ dst' = "idle" /\ cur \in 0 .. MaxCalls
  BY DEF DevFinish, Stream, hostVars, TypeInv, TypeOK
<1>2. PICK k \in Nat : k = Len(s)
  OBVIOUS
<1>3. PICK st \in Status :
         /\ DevSends(Resp(did, st))
         /\ failed' = IF st = "error" THEN failed \cup {did} ELSE failed
  BY DEF DevFinish
<1>0. Resp(cur, st) \in Report
  BY <1>1, ReportType DEF Resp, HID_REPORT
<1>4. PICK r \in Report : r = Resp(cur, st)
  BY <1>0
<1>5. LastWord(r)'
  BY <1>1, <1>3, <1>4 DEF LastWord, Status
<1>6. /\ Len(Append(s, r)) = k + 1 /\ Append(s, r) # <<>>
      /\ Append(s, r)[k + 1] = r
      /\ \A i \in 1 .. k : Append(s, r)[i] = s[i]
  BY <1>2, <1>4, AppendProperties
<1>7. Len(Append(s, r)) - 1 = k /\ n + Len(Append(s, r)) - 1 = n + k
  BY <1>6
<1>8. \A i \in 1 .. k : Append(s, r)[i] = Packet("DATA_IN", n + i)'
  BY <1>1, <1>2, <1>6 DEF Packets, Packet
<1>9. All(n + k, ReadLen)
  BY <1>1, <1>2
<1>10. Stream(Append(s, r), n)'
  BY <1>1, <1>5, <1>6, <1>7, <1>8, <1>9 DEF Stream
<1>. QED
  BY <1>1, <1>3, <1>4, <1>10 DEF DevSends

\* One report more in a queue.
LEMMA AppendTail ==
    ASSUME NEW s \in Seq(Report), NEW r \in Report
    PROVE  /\ Append(s, r) # <<>>
           /\ Len(Append(s, r)) = Len(s) + 1
           /\ s = <<>> => Len(Append(s, r)) = 1 /\ Append(s, r)[1] = r
                          /\ Append(s, r) = <<r>>
           /\ s # <<>> => Append(s, r)[1] = s[1] /\ Tail(Append(s, r)) = Append(Tail(s), r)
<1>1. Append(s, r) # <<>> /\ Len(Append(s, r)) = Len(s) + 1
  BY AppendProperties
<1>2. s = <<>> => Len(Append(s, r)) = 1 /\ Append(s, r)[1] = r /\ Append(s, r) = <<r>>
  OBVIOUS
<1>3. s # <<>> => Append(s, r)[1] = s[1]
  OBVIOUS
<1>4. s # <<>> => Tail(Append(s, r)) = Append(Tail(s), r)
  OBVIOUS
<1>. QED
  BY <1>1, <1>2, <1>3, <1>4

\* An empty report adds nothing to the stream.
LEMMA StreamEmpty ==
    ASSUME TypeInv, NEW s \in Seq(Report), NEW n \in Nat, Stream(s, n),
           DevData, UNCHANGED <<dst, dpos, failed>>
    PROVE  /\ \A i \in 1 .. Len(in) : in[i] # Empty(cur)
           /\ in' = Append(in, Empty(cur)) /\ Empty(cur) \in Report
           /\ Stream(s, n)' /\ UNCHANGED cur
           /\ (n + Len(s)) * PacketSize < ReadLen
           /\ \A i \in 1 .. Len(s) : s[i].rep = "DATA_IN"
<1>1. /\ dst = "data" /\ dpos < ReadLen /\ dpos \in Nat /\ ReadLen \in Nat
      /\ UNCHANGED <<cur, did>> /\ cur \in 0 .. MaxCalls
  BY SizesAssumption DEF DevData, hostVars, TypeInv, TypeOK, DataInv
<1>2. did = cur /\ Packets(s, "DATA_IN", n) /\ dpos = (n + Len(s)) * PacketSize
  BY <1>1 DEF Stream
<1>3. dpos + Chunk(ReadLen, dpos) # dpos
  BY <1>1, ChunkType
<1>4. (\A i \in 1 .. Len(in) : in[i] # Empty(did)) /\ DevSends(Empty(did))
  BY <1>1, <1>3 DEF DevData
<1>5. Empty(cur) \in Report
  BY <1>1, ReportType, SizesAssumption DEF Empty, HID_REPORT
<1>6. Stream(s, n)'
  BY <1>1 DEF Stream, Packets, Packet, LastWord
<1>7. \A i \in 1 .. Len(s) : s[i].rep = "DATA_IN"
  <2>1. \A i : Packet("DATA_IN", i).rep = "DATA_IN"
    BY DEF Packet, report
  <2>. QED
    BY <1>2, <2>1 DEF Packets
<1>. QED
  BY <1>1, <1>2, <1>4, <1>5, <1>6, <1>7 DEF DevSends

\* The empty report stays where it is when a report joins the queue.
LEMMA EmptyStays ==
    ASSUME NEW q \in Seq(Report), NEW s \in Seq(Report), NEW r \in Report,
           NEW k \in 0 .. Len(s), EmptyAt(q, s, k)
    PROVE  EmptyAt(Append(q, r), Append(s, r), k)
<1>1. PICK m \in Nat : m = Len(s)
  OBVIOUS
<1>2. /\ Len(q) = m + 1 /\ k \in 0 .. m /\ q[k + 1] = Empty(cur)
      /\ \A i \in 1 .. k : q[i] = s[i] /\ s[i].rep = "DATA_IN"
      /\ \A i \in k + 1 .. m : q[i + 1] = s[i]
  BY <1>1 DEF EmptyAt
<1>3. /\ Len(Append(s, r)) = m + 1 /\ Append(s, r)[m + 1] = r
      /\ \A i \in 1 .. m : Append(s, r)[i] = s[i]
  BY <1>1, AppendProperties
<1>4. /\ Len(Append(q, r)) = m + 2 /\ Append(q, r)[m + 2] = r
      /\ \A i \in 1 .. m + 1 : Append(q, r)[i] = q[i]
  BY <1>2, AppendProperties
<1>5. \A i \in 1 .. k : Append(q, r)[i] = Append(s, r)[i] /\ Append(s, r)[i].rep = "DATA_IN"
  BY <1>2, <1>3, <1>4
<1>6. \A i \in k + 1 .. m + 1 : Append(q, r)[i + 1] = Append(s, r)[i]
  <2>1. SUFFICES ASSUME NEW i \in k + 1 .. m + 1
                 PROVE  Append(q, r)[i + 1] = Append(s, r)[i]
    OBVIOUS
  <2>2. CASE i = m + 1
    BY <1>3, <1>4, <2>2
  <2>3. CASE i # m + 1
    <3>1. i \in k + 1 .. m /\ i + 1 \in 1 .. m + 1 /\ i \in 1 .. m
      BY <1>2, <2>3
    <3>. QED
      BY <1>2, <1>3, <1>4, <3>1
  <2>. QED
    BY <2>2, <2>3
<1>7. Append(q, r)[k + 1] = Empty(cur)
  BY <1>2, <1>4
<1>. QED
  BY <1>3, <1>4, <1>5, <1>6, <1>7 DEF EmptyAt

\* What the device sends in the middle of a read joins the queue q, the end of
\* the one to the host.
LEMMA FlowGrows ==
    ASSUME TypeInv, NEW q \in Seq(Report), NEW n \in Nat, Flow(q, n),
           DevData \/ DevFinish,
           \A i \in 1 .. Len(q) : \E j \in 1 .. Len(in) : q[i] = in[j]
    PROVE  \E r \in Report : in' = Append(in, r) /\ Flow(Append(q, r), n)'
<1>0. UNCHANGED cur
  BY DEF DevData, DevFinish, hostVars
<1>1. PICK s \in Seq(Report) :
         /\ Stream(s, n)
         /\ \/ q = s
            \/ \E k \in 0 .. Len(s) : (n + k) * PacketSize < ReadLen /\ EmptyAt(q, s, k)
  BY DEF Flow
<1>2. CASE DevFinish \/ ~UNCHANGED <<dst, dpos, failed>>
  <2>1. PICK r \in Report : in' = Append(in, r) /\ Stream(Append(s, r), n)'
    BY <1>1, <1>2, StreamData, StreamFinish
  <2>2. PICK t \in Seq(Report) : t = Append(s, r)
    BY AppendProperties
  <2>3. Stream(t, n)'
    BY <2>1, <2>2
  <2>4. CASE q = s
    BY <2>1, <2>2, <2>3, <2>4 DEF Flow
  <2>5. CASE q # s
    <3>1. PICK k \in 0 .. Len(s) : (n + k) * PacketSize < ReadLen /\ EmptyAt(q, s, k)
      BY <1>1, <2>5
    <3>2. EmptyAt(Append(q, r), t, k)
      BY <2>2, <3>1, EmptyStays
    <3>3. EmptyAt(Append(q, r), t, k)'
      BY <1>0, <3>2 DEF EmptyAt, Empty
    <3>4. k \in 0 .. Len(t)
      BY <2>2
    <3>. QED
      BY <2>1, <2>3, <3>1, <3>3, <3>4 DEF Flow
  <2>. QED
    BY <2>4, <2>5
<1>3. CASE DevData /\ UNCHANGED <<dst, dpos, failed>>
  <2>1. /\ \A i \in 1 .. Len(in) : in[i] # Empty(cur)
        /\ in' = Append(in, Empty(cur)) /\ Empty(cur) \in Report
        /\ Stream(s, n)'
        /\ (n + Len(s)) * PacketSize < ReadLen
        /\ \A i \in 1 .. Len(s) : s[i].rep = "DATA_IN"
    BY <1>1, <1>3, StreamEmpty
  <2>2. q = s
    <3>1. SUFFICES ASSUME NEW k \in 0 .. Len(s), EmptyAt(q, s, k)
                   PROVE  FALSE
      BY <1>1
    <3>2. k + 1 \in 1 .. Len(q) /\ q[k + 1] = Empty(cur)
      BY <3>1 DEF EmptyAt
    <3>. QED
      BY <2>1, <3>2
  <2>3. PICK r \in Report : r = Empty(cur)
    BY <2>1
  <2>4. PICK m \in Nat : m = Len(s)
    OBVIOUS
  <2>5. /\ Len(Append(q, r)) = m + 1 /\ Append(q, r)[m + 1] = r
        /\ \A i \in 1 .. m : Append(q, r)[i] = s[i]
    BY <2>2, <2>4, AppendProperties
  <2>6. \A i \in m + 1 .. Len(s) : Append(q, r)[i + 1] = s[i]
    BY <2>4
  <2>7. EmptyAt(Append(q, r), s, m)'
    BY <1>0, <2>1, <2>3, <2>4, <2>5, <2>6 DEF EmptyAt, Empty
  <2>. QED
    BY <2>1, <2>3, <2>4, <2>7 DEF Flow
<1>. QED
  BY <1>2, <1>3

\* The report at the head of the queue, while bytes are still to come, is the
\* next packet, an error that is the last report, or an empty one.
LEMMA FlowHead ==
    ASSUME TypeInv, NEW q \in Seq(Report), NEW n \in Nat,
           Flow(q, n), q # <<>>, n * PacketSize < ReadLen
    PROVE  \/ /\ Head(q) = Packet("DATA_IN", n + 1)
              /\ (n + 1) * PacketSize < ReadLen => Flow(Tail(q), n + 1)
              /\ (n + 1) * PacketSize >= ReadLen =>
                   \/ Tail(q) = <<>> /\ dst = "finish" /\ did = cur /\ cur \notin failed
                   \/ Len(Tail(q)) = 1 /\ LastWord(Tail(q)[1]) /\ dst = "idle"
           \/ Tail(q) = <<>> /\ Head(q) = Resp(cur, "error") /\ dst = "idle"
           \/ Head(q) = Empty(cur) /\ Flow(Tail(q), n)
<1>1. PICK s \in Seq(Report) :
         /\ Stream(s, n)
         /\ \/ q = s
            \/ \E k \in 0 .. Len(s) : (n + k) * PacketSize < ReadLen /\ EmptyAt(q, s, k)
  BY DEF Flow
<1>2. CASE q = s
  <2>1. Stream(Tail(q), n + 1) => Flow(Tail(q), n + 1)
    <3>1. PICK t \in Seq(Report) : t = Tail(q)
      BY HeadTailProperties
    <3>. QED
      BY <3>1 DEF Flow
  <2>. QED
    BY <1>1, <1>2, <2>1, StreamHead
<1>3. CASE q # s
  <2>1. PICK k \in 0 .. Len(s) : (n + k) * PacketSize < ReadLen /\ EmptyAt(q, s, k)
    BY <1>1, <1>3
  <2>2. PICK m \in Nat : m = Len(s)
    OBVIOUS
  <2>3. /\ Len(q) = m + 1 /\ Head(q) = q[1] /\ Tail(q) \in Seq(Report)
        /\ Len(Tail(q)) = m /\ \A i \in 1 .. m : Tail(q)[i] = q[i + 1]
    BY <2>1, <2>2 DEF EmptyAt
  <2>4. CASE k = 0
    <3>1. Head(q) = Empty(cur) /\ \A i \in 1 .. m : Tail(q)[i] = s[i]
      BY <2>1, <2>2, <2>3, <2>4 DEF EmptyAt
    <3>2. Tail(q) = s
      BY <2>2, <2>3, <3>1, SeqEqual
    <3>. QED
      BY <1>1, <3>1, <3>2 DEF Flow
  <2>5. CASE k # 0
    <3>1. /\ k - 1 \in 0 .. m - 1 /\ 1 \in 1 .. k /\ s # <<>>
          /\ Head(s) = s[1] /\ Tail(s) \in Seq(Report) /\ Len(Tail(s)) = m - 1
          /\ \A i \in 1 .. m - 1 : Tail(s)[i] = s[i + 1]
      BY <2>2, <2>5
    <3>2. Head(q) = Head(s) /\ Head(s).rep = "DATA_IN"
      BY <2>1, <2>3, <3>1 DEF EmptyAt
    <3>3. (n + 1) * PacketSize < ReadLen
      <4>1. n + 1 <= n + k /\ n + 1 \in Nat /\ n + k \in Nat
        BY <2>5
      <4>. QED
        BY <2>1, <4>1, TimesMonotone, Times, SizesAssumption
    <3>4. Head(s) = Packet("DATA_IN", n + 1) /\ Stream(Tail(s), n + 1)
      <4>1. Head(s) # Resp(cur, "error")
        BY <3>2 DEF Resp, report
      <4>. QED
        BY <1>1, <3>1, <3>3, <4>1, StreamHead
    <3>5. EmptyAt(Tail(q), Tail(s), k - 1)
      <4>1. k - 1 + 1 \in 1 .. m /\ Tail(q)[k - 1 + 1] = Empty(cur)
        BY <2>1, <2>2, <2>3, <2>5 DEF EmptyAt
      <4>2. \A i \in 1 .. k - 1 : Tail(q)[i] = Tail(s)[i] /\ Tail(s)[i].rep = "DATA_IN"
        BY <2>1, <2>2, <2>3, <3>1 DEF EmptyAt
      <4>3. \A i \in k - 1 + 1 .. m - 1 : Tail(q)[i + 1] = Tail(s)[i]
        BY <2>1, <2>2, <2>3, <3>1 DEF EmptyAt
      <4>. QED
        BY <2>2, <2>3, <3>1, <4>1, <4>2, <4>3 DEF EmptyAt
    <3>6. ((n + 1) + (k - 1)) * PacketSize < ReadLen
      <4>1. (n + 1) + (k - 1) = n + k
        OBVIOUS
      <4>. QED
        BY <2>1, <4>1
    <3>7. Flow(Tail(q), n + 1)
      BY <3>1, <3>4, <3>5, <3>6 DEF Flow
    <3>8. (n + 1) * PacketSize \in Nat /\ ReadLen \in Nat
      BY Times, SizesAssumption
    <3>. QED
      BY <3>2, <3>3, <3>4, <3>7, <3>8
  <2>. QED
    BY <2>4, <2>5
<1>. QED
  BY <1>2, <1>3

\* The host and its reads do not change what the device has sent.
LEMMA FlowStays ==
    ASSUME NEW q \in Seq(Report), NEW n \in Nat, Flow(q, n),
           UNCHANGED <<cur, dst, did, dpos, failed>>
    PROVE  Flow(q, n)'
<1>1. \A s : Stream(s, n) => Stream(s, n)'
  BY DEF Stream, Packets, Packet, LastWord
<1>2. \A s, k : EmptyAt(q, s, k) => EmptyAt(q, s, k)'
  BY DEF EmptyAt, Empty
<1>. QED
  BY <1>1, <1>2 DEF Flow

\* Such a queue is the whole queue to the host, or what follows the response.
LEMMA FlowMore ==
    ASSUME TypeInv, NEW n \in Nat, Flow(in, n), DevData \/ DevFinish
    PROVE  Flow(in, n)'
<1>1. PICK q \in Seq(Report) : q = in
  BY DEF TypeInv, TypeOK
<1>2. Flow(q, n) /\ \A i \in 1 .. Len(q) : \E j \in 1 .. Len(in) : q[i] = in[j]
  BY <1>1
<1>3. PICK r \in Report : in' = Append(in, r) /\ Flow(Append(q, r), n)'
  BY <1>2, FlowGrows
<1>4. in' = Append(q, r)
  BY <1>1, <1>3
<1>. QED
  BY <1>3, <1>4 DEF Flow

\* The same when the host has yet to read the response ahead of the data.
LEMMA FlowRest ==
    ASSUME TypeInv, in # <<>>, Flow(Tail(in), 0), DevData \/ DevFinish
    PROVE  in' # <<>> /\ in'[1] = in[1] /\ Flow(Tail(in), 0)'
<1>0. in \in Seq(Report) /\ Tail(in) \in Seq(Report)
  BY QueueType
<1>1. PICK q \in Seq(Report) : q = Tail(in)
  BY <1>0
<1>2. \A i \in 1 .. Len(q) : i + 1 \in 1 .. Len(in) /\ q[i] = in[i + 1]
  BY <1>0, <1>1
<1>3. Flow(q, 0) /\ \A i \in 1 .. Len(q) : \E j \in 1 .. Len(in) : q[i] = in[j]
  BY <1>1, <1>2
<1>4. PICK r \in Report : in' = Append(in, r) /\ Flow(Append(q, r), 0)'
  BY <1>3, FlowGrows
<1>5. Tail(in') = Append(q, r) /\ in' # <<>> /\ in'[1] = in[1]
  BY <1>0, <1>1, <1>4, AppendTail
<1>. QED
  BY <1>4, <1>5 DEF Flow

-----------------------------------------------------------------------------
(* The host's steps preserve LinkInv.                                      *)

\* Call: nothing is owed to a host that no call was abandoned on.
LEMMA LinkCall ==
    ASSUME TypeInv, OnceInv, FailInv, LinkInv, NEW k \in Kinds, Call(k)
    PROVE  LinkInv'
<1>1. SUFFICES ASSUME faults = 0
               PROVE  Asked'
  BY DEF LinkInv, Call
<1>2. /\ pc' = "resp" /\ pos' = 0 /\ got' = <<>> /\ from' = {} /\ kind' = k
      /\ outq' = Append(outq, report("CMD_OUT", cur + 1, 0, k)) /\ cur' = cur + 1
      /\ UNCHANGED <<in, dst, failed>>
  BY DEF Call, devVars
<1>3. in = <<>> /\ dst = "idle" /\ DataOnly(outq)
  BY <1>1 DEF Call, LinkInv, Idle, Asked, Answered, Reading, Writing
<1>4. cur + 1 \notin failed
  <2>1. cur \in 0 .. MaxCalls
    BY DEF TypeInv, TypeOK
  <2>2. cur + 1 \in Calls => execd[cur + 1] = 0
    BY <2>1 DEF OnceInv, Calls
  <2>. QED
    BY <2>2 DEF FailInv
<1>5. outq \in Seq(Report) /\ cur + 1 \in 0 .. MaxCalls
  BY SizesAssumption DEF TypeInv, TypeOK, Call
<1>6. PICK r \in Report : r = report("CMD_OUT", cur + 1, 0, k)
  BY <1>5, ReportType DEF HID_REPORT
<1>7. PICK n \in Nat : n = Len(outq)
  BY <1>5
<1>8. /\ Len(outq') = n + 1 /\ outq'[n + 1] = r
      /\ \A i \in 1 .. n : outq'[i] = outq[i]
  BY <1>2, <1>5, <1>6, <1>7, AppendProperties
<1>9. outq' # <<>> /\ Len(outq') - 1 = n
  BY <1>2, <1>5, <1>6, <1>8
<1>10. \A i \in 1 .. Len(outq') - 1 : outq'[i].rep = "DATA_OUT"
  BY <1>3, <1>7, <1>8, <1>9 DEF DataOnly
<1>11. outq'[Len(outq')] = report("CMD_OUT", cur', 0, kind')
  BY <1>2, <1>6, <1>8
<1>. QED
  BY <1>2, <1>3, <1>4, <1>9, <1>10, <1>11 DEF Asked

\* Restart: a device that was opened anew.
LEMMA LinkRestart ==
    ASSUME Restart
    PROVE  LinkInv'
BY DEF Restart, LinkInv, Idle, Verdict, DataOnly

\* A wait in vain, a failed write: the call is abandoned.
LEMMA LinkAbandoned ==
    ASSUME TypeInv,
           Timeout \/ DataWriteFails \/ \E k \in Kinds : CommandWriteFails(k)
    PROVE  LinkInv'
BY DEF Timeout, DataWriteFails, CommandWriteFails, LinkInv, TypeInv, TypeOK

\* A call that ends with the device's last word is where the invariant says.
LEMMA LinkEnds ==
    ASSUME OnceInv, pc # "idle", execd[cur] > 0,
           UNCHANGED <<cur, kind, pos, got, outq, devVars>>,
           DataOnly(outq), dst = "idle", in' = <<>>, from' = {cur},
           NEW s \in Status, s = "error" <=> cur \in failed,
           pc' = "idle", out' = IF s = "success" THEN "ok" ELSE "refused",
           s = "success" =>
             /\ kind = "read"  => got = Chunks("DATA_IN", cur, ReadLen)
             /\ kind = "write" =>
                  stored = Chunks("DATA_OUT", cur, WriteLen) /\ pos = WriteLen
    PROVE  Idle'
<1>1. cur \in Calls
  BY DEF OnceInv
<1>2. UNCHANGED <<dst, did, stored, execd, failed>>
  BY DEF devVars
<1>3. Verdict'
  BY <1>1, <1>2 DEF Verdict, Status, Chunks
<1>. QED
  BY <1>2, <1>3 DEF Idle, DataOnly

\* Response: the host takes the response of its own command.
LEMMA LinkResponse ==
    ASSUME TypeInv, OnceInv, LinkInv, Response
    PROVE  LinkInv'
<1>1. SUFFICES ASSUME faults' = 0
               PROVE  Idle' \/ Reading' \/ Writing'
  BY DEF LinkInv
<1>2. /\ pc = "resp" /\ in # <<>> /\ in' = Tail(in) /\ from' = from \cup {Head(in).id}
      /\ UNCHANGED <<cur, kind, pos, got, outq, devVars>>
      /\ in \in Seq(Report) /\ Head(in) = in[1]
  BY DEF Response, Receives, TypeInv, TypeOK
<1>3. PICK s \in StatusOf(Head(in)) :
         \/ /\ s # "success"
            /\ Finish(Raised(s))
            /\ UNCHANGED faults
         \/ /\ s = "success" /\ kind = "cmd"
            /\ Finish("ok")
            /\ UNCHANGED faults
         \/ /\ s = "success" /\ kind = "empty"
            /\ Finish("broken")
            /\ faults' = faults + 1
         \/ /\ s = "success" /\ kind \in {"read", "write"}
            /\ pc' = IF kind = "read" THEN "rdata" ELSE "wsend"
            /\ UNCHANGED <<out, faults>>
  BY DEF Response
<1>4. faults \in Nat
  BY DEF TypeInv, TypeOK
<1>5. faults = 0
  BY <1>1, <1>3, <1>4
<1>6. /\ pos = 0 /\ got = <<>> /\ from = {} /\ outq = <<>> /\ execd[cur] > 0
      /\ \/ in = <<Resp(cur, "error")>> /\ dst = "idle" /\ cur \in failed
         \/ /\ in[1] = Resp(cur, "success")
            /\ \/ kind = "cmd" /\ Len(in) = 1 /\ dst = "idle" /\ cur \notin failed
               \/ kind = "empty" /\ dst \in {"finish", "idle"}
               \/ /\ kind = "write" /\ Len(in) = 1 /\ dst = "recv" /\ cur \notin failed
                  /\ did = cur /\ stored = <<>> /\ dpos = 0
               \/ kind = "read" /\ Flow(Tail(in), 0)
  BY <1>2, <1>5 DEF LinkInv, Idle, Asked, Answered, Reading, Writing
<1>7. \A st \in Status : /\ Resp(cur, st).id = cur
                         /\ StatusOf(Resp(cur, st)) = {st}
  BY DEF Resp, report, StatusOf
<1>8. DataOnly(outq)
  BY <1>6 DEF DataOnly
<1>9. CASE in = <<Resp(cur, "error")>> /\ dst = "idle" /\ cur \in failed
  <2>1. Head(in) = Resp(cur, "error") /\ in' = <<>>
    BY <1>2, <1>9
  <2>2. s = "error" /\ from' = {cur}
    BY <1>2, <1>3, <1>6, <1>7, <2>1 DEF Status
  <2>3. pc' = "idle" /\ out' = "refused"
    BY <1>3, <2>2 DEF Finish, Raised
  <2>4. Idle'
    BY <1>2, <1>6, <1>8, <1>9, <2>1, <2>2, <2>3, LinkEnds DEF Status
  <2>. QED
    BY <2>4
<1>10. CASE in[1] = Resp(cur, "success")
  <2>1. s = "success" /\ from' = {cur}
    BY <1>2, <1>3, <1>6, <1>7, <1>10 DEF Status
  <2>2. CASE kind = "cmd" /\ Len(in) = 1 /\ dst = "idle" /\ cur \notin failed
    <3>1. in' = <<>>
      BY <1>2, <2>2
    <3>2. pc' = "idle" /\ out' = "ok"
      BY <1>3, <2>1, <2>2 DEF Finish
    <3>3. Idle'
      BY <1>2, <1>6, <1>8, <2>1, <2>2, <3>1, <3>2, LinkEnds DEF Status
    <3>. QED
      BY <3>3
  <2>3. CASE kind = "empty"
    BY <1>1, <1>3, <1>4, <2>1, <2>3
  <2>4. CASE /\ kind = "write" /\ Len(in) = 1 /\ dst = "recv" /\ cur \notin failed
             /\ did = cur /\ stored = <<>> /\ dpos = 0
    <3>1. in' = <<>>
      BY <1>2, <2>4
    <3>2. pc' = "wsend"
      BY <1>3, <2>1, <2>4
    <3>3. /\ UNCHANGED <<cur, kind, pos, outq, dst, did, dpos, stored, execd, failed>>
      BY <1>2 DEF devVars
    <3>4. /\ Len(stored) = 0 /\ Len(outq) = 0 /\ 0 * PacketSize = 0 /\ 0 < WriteLen
          /\ 0 + 0 = 0
      BY <1>6, <2>4, SizesAssumption
    <3>5. Packets(stored, "DATA_OUT", 0)' /\ Packets(outq, "DATA_OUT", 0)'
      BY <1>6, <2>4, <3>3 DEF Packets
    <3>6. Sent(0)'
      BY <1>6, <3>2, <3>3, <3>4 DEF Sent
    <3>7. Writing'
      BY <1>6, <2>1, <2>4, <3>1, <3>2, <3>3, <3>4, <3>5, <3>6 DEF Writing, Packets
    <3>. QED
      BY <3>7
  <2>5. CASE kind = "read" /\ Flow(Tail(in), 0)
    <3>1. pc' = "rdata"
      BY <1>3, <2>1, <2>5
    <3>2. UNCHANGED <<cur, kind, pos, got, outq, dst, did, dpos, stored, execd, failed>>
      BY <1>2 DEF devVars
    <3>3. Len(got') = 0 /\ 0 * PacketSize = 0 /\ 0 < ReadLen
      BY <1>6, <3>2, SizesAssumption
    <3>4. Flow(in, 0)'
      <4>1. PICK q \in Seq(Report) : q = Tail(in)
        BY <1>2, QueueType
      <4>2. Flow(q, 0)'
        BY <2>5, <3>2, <4>1, FlowStays
      <4>. QED
        BY <1>2, <4>1, <4>2
    <3>5. Packets(got, "DATA_IN", 0)'
      BY <3>3 DEF Packets
    <3>6. Reading'
      BY <1>6, <2>1, <2>5, <3>1, <3>2, <3>3, <3>4, <3>5 DEF Reading
    <3>. QED
      BY <3>6
  <2>. QED
    BY <1>6, <1>9, <1>10, <2>2, <2>3, <2>4, <2>5
<1>. QED
  BY <1>6, <1>9, <1>10

\* ReadData: the packet the device sent next, an error in its place, or nothing.
LEMMA LinkReadData ==
    ASSUME TypeInv, OnceInv, LinkInv, ReadData
    PROVE  LinkInv'
<1>1. SUFFICES ASSUME faults = 0
               PROVE  Reading'
  BY DEF LinkInv, ReadData
<1>2. /\ pc = "rdata" /\ in # <<>> /\ in' = Tail(in) /\ from' = from \cup {Head(in).id}
      /\ got' = IF Payload(Head(in)) = 0 THEN got ELSE Append(got, Head(in))
      /\ pos' = pos + Payload(Head(in))
      /\ pc' = IF pos' < ReadLen THEN "rdata" ELSE "final"
      /\ UNCHANGED <<cur, kind, outq, dst, did, dpos, stored, execd, failed>>
      /\ in \in Seq(Report) /\ got \in Seq(Report)
      /\ Head(in) \in Report
  BY QueueType DEF ReadData, Receives, TypeInv, TypeOK, devVars
<1>3. /\ kind = "read" /\ outq = <<>> /\ from = {cur} /\ execd[cur] > 0
      /\ \/ /\ Packets(got, "DATA_IN", 0)
            /\ pos = Len(got) * PacketSize /\ pos < ReadLen
            /\ Flow(in, Len(got))
         \/ in = <<>>
  BY <1>1, <1>2 DEF LinkInv, Idle, Asked, Answered, Reading, Writing
<1>4. PICK n \in Nat : n = Len(got)
  BY <1>2
<1>5. /\ Packets(got, "DATA_IN", 0) /\ pos = n * PacketSize /\ pos < ReadLen
      /\ Flow(in, n)
  BY <1>2, <1>3, <1>4
<1>6. ReadLen \in Nat /\ pos \in Nat
  BY <1>2, <1>4, SizesAssumption DEF TypeInv, TypeOK
<1>0. Tail(in) \in Seq(Report)
  BY <1>2
<1>9. CASE Head(in) = Empty(cur) /\ Flow(Tail(in), n)
  <2>1. Head(in).rep = "DATA_IN" /\ Head(in).id = cur /\ Head(in).pos = ReadLen
    BY <1>9 DEF Empty, report
  <2>2. Payload(Head(in)) = 0
    BY <2>1, SizesAssumption DEF Payload, Chunk
  <2>3. from' = {cur} /\ got' = got /\ pos' = pos /\ pc' = "rdata"
    BY <1>2, <1>3, <1>5, <1>6, <2>1, <2>2
  <2>4. Packets(got, "DATA_IN", 0)'
    BY <1>2, <1>5, <2>3 DEF Packets, Packet
  <2>5. Flow(in, Len(got))'
    <3>1. PICK q \in Seq(Report) : q = Tail(in)
      BY <1>0
    <3>2. Flow(q, n)'
      BY <1>2, <1>9, <3>1, FlowStays
    <3>. QED
      BY <1>2, <1>4, <2>3, <3>1, <3>2
  <2>. QED
    BY <1>2, <1>3, <1>4, <1>5, <2>3, <2>4, <2>5 DEF Reading
<1>7. CASE Tail(in) = <<>> /\ Head(in) = Resp(cur, "error") /\ dst = "idle"
  <2>1. from' = {cur}
    BY <1>2, <1>3, <1>7 DEF Resp, report
  <2>. QED
    BY <1>2, <1>3, <1>7, <2>1 DEF Reading
<1>8. CASE /\ Head(in) = Packet("DATA_IN", n + 1)
           /\ (n + 1) * PacketSize < ReadLen => Flow(Tail(in), n + 1)
           /\ (n + 1) * PacketSize >= ReadLen =>
                \/ Tail(in) = <<>> /\ dst = "finish" /\ did = cur /\ cur \notin failed
                \/ Len(Tail(in)) = 1 /\ LastWord(Tail(in)[1]) /\ dst = "idle"
  <2>1. n + 1 - 1 = n /\ 0 + n + 1 = n + 1
    OBVIOUS
  <2>2. Head(in).id = cur /\ Head(in).rep = "DATA_IN" /\ Head(in).pos = pos
    BY <1>5, <1>8, <2>1 DEF Packet, report
  <2>3. from' = {cur} /\ pos' = pos + Chunk(ReadLen, pos)
    BY <1>2, <1>3, <2>2 DEF Payload
  <2>0. got' = Append(got, Head(in)) /\ Len(got') = n + 1
    <3>1. Payload(Head(in)) # 0
      BY <1>5, <1>6, <2>2, ChunkType DEF Payload
    <3>. QED
      BY <1>2, <1>4, <3>1
  <2>4. Packets(got', "DATA_IN", 0)
    BY <1>2, <1>4, <1>5, <1>8, <2>0, <2>1, PacketsAppend
  <2>5. /\ pos' < ReadLen => pos' = (n + 1) * PacketSize
        /\ pos' >= ReadLen => All(n + 1, ReadLen)
        /\ pos' < ReadLen <=> (n + 1) * PacketSize < ReadLen
    <3>1. LET end == n * PacketSize + Chunk(ReadLen, n * PacketSize)
          IN  /\ end < ReadLen => end = (n + 1) * PacketSize
              /\ end >= ReadLen => All(n + 1, ReadLen)
              /\ end < ReadLen <=> (n + 1) * PacketSize < ReadLen
      BY <1>5, <1>6, AllNext
    <3>. QED
      BY <1>5, <2>3, <3>1
  <2>6. CASE pos' < ReadLen
    <3>1. Flow(Tail(in), n + 1) /\ pc' = "rdata" /\ pos' = Len(got') * PacketSize
      BY <1>2, <1>6, <1>8, <2>0, <2>5, <2>6
    <3>2. Flow(in, Len(got))'
      <4>1. PICK q \in Seq(Report) : q = Tail(in)
        BY <1>0
      <4>2. Flow(q, n + 1)'
        <5>1. n + 1 \in Nat /\ Flow(q, n + 1)
          BY <3>1, <4>1
        <5>. QED
          BY <1>2, <5>1, FlowStays
      <4>. QED
        BY <1>2, <2>0, <4>1, <4>2
    <3>3. Packets(got, "DATA_IN", 0)'
      BY <1>2, <2>4 DEF Packets, Packet
    <3>. QED
      BY <1>2, <1>3, <2>3, <2>6, <3>1, <3>2, <3>3 DEF Reading
  <2>7. CASE ~(pos' < ReadLen)
    <3>1. pos' \in Nat
      <4>1. Chunk(ReadLen, pos) \in Nat
        BY <1>5, <1>6, ChunkType
      <4>. QED
        BY <1>6, <2>3, <4>1
    <3>2. All(n + 1, ReadLen) /\ (n + 1) * PacketSize >= ReadLen
      <4>1. (n + 1) * PacketSize \in Nat
        BY Times
      <4>. QED
        BY <1>6, <2>5, <2>7, <3>1, <4>1
    <3>3. got' = Chunks("DATA_IN", cur, ReadLen)
      <4>1. got' \in Seq(Report)
        BY <1>2
      <4>. QED
        BY <1>6, <2>0, <2>4, <3>2, <4>1, PacketsAll
    <3>4. pc' = "final"
      BY <1>2, <2>7
    <3>5. \/ in' = <<>> /\ dst = "finish" /\ did = cur /\ cur \notin failed
          \/ Len(in') = 1 /\ LastWord(in'[1]) /\ dst = "idle"
      BY <1>2, <1>8, <3>2
    <3>6. got' = Chunks("DATA_IN", cur', ReadLen)
      BY <1>2, <3>3
    <3>7. \/ in' = <<>> /\ dst' = "finish" /\ did' = cur' /\ cur' \notin failed'
          \/ Len(in') = 1 /\ LastWord(in[1])' /\ dst' = "idle"
      BY <1>2, <3>5 DEF LastWord
    <3>. QED
      BY <1>2, <1>3, <2>3, <3>4, <3>6, <3>7 DEF Reading
  <2>. QED
    BY <2>6, <2>7
<1>. QED
  BY <1>2, <1>5, <1>7, <1>8, <1>9, FlowHead

\* SendData: the device is behind, or has given up and drops what comes.
LEMMA LinkSendData ==
    ASSUME TypeInv, OnceInv, LinkInv, SendData
    PROVE  LinkInv'
<1>1. SUFFICES ASSUME faults = 0
               PROVE  Writing'
  BY DEF LinkInv, SendData
<1>2. /\ pc = "wsend" /\ outq \in Seq(Report) /\ stored \in Seq(Report)
      /\ pos' = pos + Chunk(WriteLen, pos)
      /\ pc' = IF pos' < WriteLen THEN "wsend" ELSE "final"
      /\ UNCHANGED <<cur, kind, from, in, dst, did, dpos, stored, execd, failed>>
  BY DEF SendData, TypeInv, TypeOK, devVars
<1>3. report("DATA_OUT", cur, pos, "none") \in Report
  BY ReportType DEF TypeInv, TypeOK, HID_REPORT
<1>4. PICK r \in Report : r = report("DATA_OUT", cur, pos, "none")
  BY <1>3
<1>5. r.rep = "DATA_OUT" /\ outq' = Append(outq, r)
  BY <1>4 DEF report, SendData
<1>6. PICK n \in Nat : n = Len(outq)
  BY <1>2
<1>7. /\ Len(outq') = n + 1 /\ outq'[n + 1] = r
      /\ \A i \in 1 .. n : outq'[i] = outq[i]
  BY <1>2, <1>5, <1>6, AppendProperties
<1>8. /\ kind = "write" /\ from = {cur} /\ execd[cur] > 0
      /\ \/ /\ dst = "recv" /\ did = cur /\ in = <<>> /\ cur \notin failed
            /\ Packets(stored, "DATA_OUT", 0) /\ dpos = Len(stored) * PacketSize
            /\ Packets(outq, "DATA_OUT", Len(stored))
            /\ Sent(Len(stored) + Len(outq))
         \/ /\ dst = "idle" /\ DataOnly(outq)
            /\ Len(in) = 1 /\ in[1] = Resp(cur, "error") /\ cur \in failed
  BY <1>1, <1>2 DEF LinkInv, Idle, Asked, Answered, Reading, Writing
<1>9. CASE /\ dst = "idle" /\ DataOnly(outq)
           /\ Len(in) = 1 /\ in[1] = Resp(cur, "error") /\ cur \in failed
  <2>1. DataOnly(outq)'
    BY <1>5, <1>6, <1>7, <1>9 DEF DataOnly
  <2>. QED
    BY <1>2, <1>8, <1>9, <2>1 DEF Writing
<1>10. CASE /\ dst = "recv" /\ did = cur /\ in = <<>> /\ cur \notin failed
            /\ Packets(stored, "DATA_OUT", 0) /\ dpos = Len(stored) * PacketSize
            /\ Packets(outq, "DATA_OUT", Len(stored))
            /\ Sent(Len(stored) + Len(outq))
  <2>1. PICK m \in Nat : m = Len(stored)
    BY <1>2
  <2>2. pos = (m + n) * PacketSize /\ pos < WriteLen /\ m + n \in Nat
    BY <1>2, <1>6, <1>10, <2>1 DEF Sent
  <2>3. r = Packet("DATA_OUT", m + n + 1)
    <3>1. m + n + 1 - 1 = m + n
      OBVIOUS
    <3>. QED
      BY <1>4, <2>2, <3>1 DEF Packet
  <2>4. Packets(outq', "DATA_OUT", m)
    BY <1>2, <1>5, <1>6, <1>10, <2>1, <2>3, PacketsAppend
  <2>5. /\ Packets(stored, "DATA_OUT", 0)' /\ dpos' = Len(stored') * PacketSize
        /\ Packets(outq, "DATA_OUT", Len(stored))'
    BY <1>2, <1>10, <2>1, <2>4 DEF Packets, Packet
  <2>6. LET end == (m + n) * PacketSize + Chunk(WriteLen, (m + n) * PacketSize)
        IN  /\ end < WriteLen => end = (m + n + 1) * PacketSize
            /\ end >= WriteLen => All(m + n + 1, WriteLen) /\ end = WriteLen
    BY <2>2, AllNext, SizesAssumption
  <2>7. Chunk(WriteLen, pos) \in Nat /\ pos \in Nat /\ WriteLen \in Nat
    BY <2>2, ChunkType, SizesAssumption DEF TypeInv, TypeOK
  <2>8. /\ pos' < WriteLen => pos' = (m + n + 1) * PacketSize
        /\ ~(pos' < WriteLen) => All(m + n + 1, WriteLen) /\ pos' = WriteLen
    BY <1>2, <2>2, <2>6, <2>7
  <2>9. Len(stored') + Len(outq') = m + n + 1
    BY <1>2, <1>7, <2>1
  <2>10. Sent(Len(stored) + Len(outq))'
    BY <1>2, <2>8, <2>9 DEF Sent
  <2>. QED
    BY <1>2, <1>8, <1>10, <2>5, <2>10 DEF Writing
<1>. QED
  BY <1>8, <1>9, <1>10

\* FinalResponse: the device's last word, once it has every report.
LEMMA LinkFinalResponse ==
    ASSUME TypeInv, OnceInv, LinkInv, FinalResponse
    PROVE  LinkInv'
<1>1. SUFFICES ASSUME faults = 0
               PROVE  Idle'
  BY DEF LinkInv, FinalResponse
<1>2. /\ pc = "final" /\ in # <<>> /\ in' = Tail(in) /\ from' = from \cup {Head(in).id}
      /\ UNCHANGED <<cur, kind, pos, got, outq, devVars>>
      /\ in \in Seq(Report) /\ Head(in) = in[1]
  BY DEF FinalResponse, Receives, TypeInv, TypeOK
<1>3. PICK s \in StatusOf(Head(in)) :
         pc' = "idle" /\ out' = IF s = "success" THEN "ok" ELSE Raised(s)
  BY DEF FinalResponse, Finish
<1>4. /\ from = {cur} /\ execd[cur] > 0 /\ DataOnly(outq) /\ dst = "idle"
      /\ Len(in) = 1 /\ LastWord(in[1])
      /\ cur \notin failed =>
           \/ kind = "read" /\ got = Chunks("DATA_IN", cur, ReadLen)
           \/ kind = "write" /\ stored = Chunks("DATA_OUT", cur, WriteLen)
              /\ pos = WriteLen
  <2>1. CASE Reading
    <3>1. got = Chunks("DATA_IN", cur, ReadLen) /\ Len(in) = 1 /\ LastWord(in[1])
          /\ dst = "idle" /\ kind = "read" /\ outq = <<>> /\ from = {cur} /\ execd[cur] > 0
      BY <1>2, <2>1 DEF Reading
    <3>2. DataOnly(outq)
      BY <3>1 DEF DataOnly
    <3>. QED
      BY <3>1, <3>2
  <2>2. CASE Writing
    <3>1. /\ kind = "write" /\ from = {cur} /\ execd[cur] > 0 /\ Len(in) = 1 /\ dst = "idle"
          /\ \/ outq = <<>> /\ LastWord(in[1]) /\ pos = WriteLen
                /\ stored = Chunks("DATA_OUT", cur, WriteLen)
             \/ DataOnly(outq) /\ in[1] = Resp(cur, "error") /\ cur \in failed
      BY <1>2, <2>2 DEF Writing
    <3>2. DataOnly(outq) /\ LastWord(in[1])
      BY <3>1 DEF DataOnly, LastWord, Status
    <3>. QED
      BY <3>1, <3>2
  <2>. QED
    BY <1>1, <1>2, <2>1, <2>2 DEF LinkInv, Idle, Asked, Answered
<1>5. PICK st \in Status : in[1] = Resp(cur, st) /\ (st = "error" <=> cur \in failed)
  BY <1>4 DEF LastWord
<1>6. s = st /\ from' = {cur}
  BY <1>2, <1>3, <1>4, <1>5 DEF Resp, report, StatusOf
<1>7. in' = <<>>
  <2>1. Len(Tail(in)) = 0 /\ Tail(in) \in Seq(Report)
    BY <1>2, <1>4
  <2>. QED
    BY <1>2, <2>1, EmptySeq
<1>8. out' = IF st = "success" THEN "ok" ELSE "refused"
  BY <1>3, <1>6 DEF Raised, Status
<1>. QED
  BY <1>2, <1>3, <1>4, <1>5, <1>6, <1>7, <1>8, LinkEnds DEF Status

-----------------------------------------------------------------------------
(* The device's steps preserve it.                                         *)

\* DevCommand: the device takes up the one command in the queue.
LEMMA LinkDevCommand ==
    ASSUME TypeInv, OnceInv, LinkInv, DevCommand
    PROVE  LinkInv'
<1>1. SUFFICES ASSUME faults = 0
               PROVE  Asked'
  BY DEF LinkInv, DevCommand, hostVars
<1>2. /\ outq # <<>> /\ Head(outq).rep = "CMD_OUT" /\ outq' = Tail(outq)
      /\ dst \in {"idle", "recv"}
      /\ dst' = "exec" /\ did' = Head(outq).id /\ dkind' = Head(outq).arg
      /\ dpos' = 0 /\ stored' = <<>>
      /\ UNCHANGED <<pc, cur, kind, pos, got, from, in, failed>>
      /\ outq \in Seq(Report) /\ Head(outq) = outq[1] /\ Len(outq) \in Nat
      /\ 1 \in 1 .. Len(outq)
  BY DEF DevCommand, DevTakes, hostVars, TypeInv, TypeOK
<1>3. ~DataOnly(outq)
  BY <1>2 DEF DataOnly
<1>4. \A n : ~Packets(outq, "DATA_OUT", n)
  <2>1. SUFFICES ASSUME NEW n, Packets(outq, "DATA_OUT", n)
                 PROVE  FALSE
    OBVIOUS
  <2>2. outq[1] = Packet("DATA_OUT", n + 1)
    BY <1>2, <2>1 DEF Packets
  <2>3. outq[1].rep = "DATA_OUT"
    BY <2>2 DEF Packet, report
  <2>. QED
    BY <1>2, <2>3
<1>5. Asked
  BY <1>1, <1>2, <1>3, <1>4 DEF LinkInv, Idle, Answered, Reading, Writing
<1>6. /\ pc = "resp" /\ pos = 0 /\ got = <<>> /\ from = {} /\ in = <<>> /\ cur \notin failed
      /\ \A i \in 1 .. Len(outq) - 1 : outq[i].rep = "DATA_OUT"
      /\ outq[Len(outq)] = report("CMD_OUT", cur, 0, kind)
  BY <1>2, <1>5 DEF Asked
<1>7. Len(outq) = 1
  <2>1. PICK n \in Nat : n = Len(outq)
    BY <1>2
  <2>2. n # 1 => 1 \in 1 .. n - 1
    BY <1>2, <2>1
  <2>. QED
    BY <1>2, <1>6, <2>1, <2>2
<1>8. outq' = <<>>
  <2>1. Tail(outq) \in Seq(Report) /\ Len(Tail(outq)) = 0
    BY <1>2, <1>7
  <2>. QED
    BY <1>2, <2>1, EmptySeq
<1>9. did' = cur /\ dkind' = kind
  BY <1>2, <1>6, <1>7 DEF report
<1>. QED
  BY <1>2, <1>6, <1>8, <1>9 DEF Asked

\* DevIgnore: an idle device drops data in front of the command, or the rest of
\* a write it gave up.
LEMMA LinkDevIgnore ==
    ASSUME TypeInv, OnceInv, LinkInv, DevIgnore
    PROVE  LinkInv'
<1>1. SUFFICES ASSUME faults = 0
               PROVE  Idle' \/ Asked' \/ Writing'
  BY DEF LinkInv, DevIgnore, hostVars
<1>2. /\ outq # <<>> /\ Head(outq).rep = "DATA_OUT" /\ outq' = Tail(outq) /\ dst = "idle"
      /\ UNCHANGED <<pc, cur, kind, pos, got, from, out, in, dst, did, dpos, stored,
                     execd, failed>>
      /\ outq \in Seq(Report) /\ Head(outq) = outq[1] /\ 1 \in 1 .. Len(outq)
  BY DEF DevIgnore, DevTakes, hostVars, devVars, TypeInv, TypeOK
<1>3. PICK n \in Nat : n = Len(outq) /\ n # 0
  BY <1>2
<1>4. /\ Len(outq') = n - 1
      /\ \A i \in 1 .. n - 1 : i + 1 \in 1 .. n /\ outq'[i] = outq[i + 1]
  BY <1>2, <1>3
<1>5. DataOnly(outq) => DataOnly(outq')
  BY <1>3, <1>4 DEF DataOnly
<1>6. CASE Idle
  <2>1. Verdict'
    BY <1>2, <1>6 DEF Idle, Verdict, Chunks
  <2>. QED
    BY <1>2, <1>5, <1>6, <2>1 DEF Idle, DataOnly
<1>7. CASE Asked
  <2>1. /\ \A i \in 1 .. n - 1 : outq[i].rep = "DATA_OUT"
        /\ outq[n] = report("CMD_OUT", cur, 0, kind)
    BY <1>2, <1>3, <1>7 DEF Asked
  <2>2. n # 1
    BY <1>2, <2>1 DEF report
  <2>3. PICK m \in Nat : n = m + 2
    <3>1. n - 2 \in Nat /\ n = (n - 2) + 2
      BY <1>3, <2>2
    <3>. QED
      BY <3>1
  <2>4. /\ Len(outq') = m + 1 /\ outq' # <<>>
        /\ outq'[m + 1] = report("CMD_OUT", cur, 0, kind)
        /\ \A i \in 1 .. m : outq'[i].rep = "DATA_OUT"
    <3>1. Len(outq') = m + 1
      BY <1>4, <2>3
    <3>2. outq'[m + 1] = outq[m + 2]
      BY <1>4, <2>3
    <3>3. \A i \in 1 .. m : outq'[i].rep = "DATA_OUT"
      BY <1>4, <2>1, <2>3
    <3>4. outq' # <<>>
      BY <1>2, <3>1
    <3>. QED
      BY <2>1, <2>3, <3>1, <3>2, <3>3, <3>4
  <2>5. /\ \A i \in 1 .. Len(outq') - 1 : outq'[i].rep = "DATA_OUT"
        /\ outq'[Len(outq')] = report("CMD_OUT", cur', 0, kind')
    <3>1. Len(outq') - 1 = m
      BY <2>4
    <3>. QED
      BY <1>2, <2>4, <3>1
  <2>. QED
    BY <1>2, <1>7, <2>4, <2>5 DEF Asked
<1>8. CASE Writing
  <2>1. /\ DataOnly(outq)
        /\ Len(in) = 1 /\ in[1] = Resp(cur, "error") /\ cur \in failed
    BY <1>2, <1>8 DEF Writing
  <2>2. DataOnly(outq)'
    BY <1>5, <2>1 DEF DataOnly
  <2>. QED
    BY <1>2, <1>8, <2>1, <2>2 DEF Writing
<1>. QED
  BY <1>1, <1>2, <1>6, <1>7, <1>8 DEF LinkInv, Answered, Reading

\* DevExecute: the device executes the current command, and says so.
LEMMA LinkDevExecute ==
    ASSUME TypeInv, OnceInv, LinkInv, DevExecute
    PROVE  LinkInv'
<1>1. SUFFICES ASSUME faults = 0
               PROVE  Answered'
  BY DEF LinkInv, DevExecute, hostVars
<1>2. PICK s \in Status :
         /\ in' = Append(in, Resp(did, s))
         /\ failed' = IF s = "error" THEN failed \cup {did} ELSE failed
         /\ s = "error" \/ dkind = "cmd" => dst' = "idle"
         /\ s = "success" /\ dkind = "read" => dst' = "data"
         /\ s = "success" /\ dkind = "write" => dst' = "recv"
         /\ s = "success" /\ dkind = "empty" => dst' = "finish"
  BY ExecuteCases
<1>3. /\ dst = "exec" /\ execd' = [execd EXCEPT ![did] = @ + 1]
      /\ UNCHANGED <<pc, cur, kind, pos, got, from, outq, did, dkind, dpos, stored>>
      /\ did \in Calls /\ execd \in [Calls -> Nat] /\ did \in 0 .. MaxCalls
  BY DEF DevExecute, hostVars, TypeInv, TypeOK, OnceInv
<1>4. /\ pc = "resp" /\ pos = 0 /\ got = <<>> /\ from = {} /\ in = <<>> /\ cur \notin failed
      /\ outq = <<>> /\ did = cur /\ dkind = kind /\ dpos = 0 /\ stored = <<>>
  <2>1. ~Answered /\ ~Reading /\ ~Writing /\ ~Idle
    BY <1>3 DEF Answered, Reading, Writing, Idle, Flow, Stream
  <2>2. Asked
    BY <1>1, <2>1 DEF LinkInv
  <2>. QED
    BY <1>3, <2>2 DEF Asked
<1>5. execd'[cur'] > 0
  BY <1>3, <1>4
<1>6. Resp(cur, s) \in Report
  BY <1>3, <1>4, ReportType DEF Resp, HID_REPORT
<1>7. /\ in' = <<Resp(cur, s)>> /\ in' # <<>> /\ in'[1] = Resp(cur, s) /\ Len(in') = 1
      /\ Tail(in') = <<>>
  BY <1>2, <1>4, <1>6, AppendTail
<1>8. CASE s = "error"
  BY <1>2, <1>3, <1>4, <1>5, <1>7, <1>8 DEF Answered
<1>9. CASE s = "success"
  <2>1. failed' = failed
    BY <1>2, <1>9
  <2>2. ASSUME kind = "read" PROVE Flow(Tail(in), 0)'
    <3>1. dst' = "data"
      BY <1>2, <1>4, <1>9, <2>2
    <3>2. Packets(<<>>, "DATA_IN", 0)' /\ dpos = (0 + Len(<<>>)) * PacketSize
      BY <1>4, SizesAssumption DEF Packets
    <3>3. Stream(<<>>, 0)'
      BY <1>3, <1>4, <2>1, <3>1, <3>2 DEF Stream
    <3>4. PICK q \in Seq(Report) : q = <<>>
      BY EmptySeq
    <3>5. Flow(q, 0)'
      BY <3>3, <3>4 DEF Flow
    <3>. QED
      BY <1>7, <3>4, <3>5
  <2>3. kind \in Kinds
    BY DEF TypeInv, TypeOK
  <2>4. \/ kind = "cmd" /\ dst' = "idle"
        \/ kind = "read"
        \/ kind = "write" /\ dst' = "recv"
        \/ kind = "empty" /\ dst' = "finish"
    BY <1>2, <1>4, <1>9, <2>3 DEF Kinds
  <2>. QED
    BY <1>3, <1>4, <1>5, <1>7, <1>9, <2>1, <2>2, <2>4 DEF Answered
<1>. QED
  BY <1>8, <1>9 DEF Status

\* DevData: a packet of the read, an empty one, or an error in its place.
LEMMA LinkDevData ==
    ASSUME TypeInv, OnceInv, LinkInv, DevData
    PROVE  LinkInv'
<1>1. SUFFICES ASSUME faults = 0
               PROVE  Answered' \/ Reading'
  BY DEF LinkInv, DevData, hostVars
<1>2. /\ dst = "data" /\ in \in Seq(Report)
      /\ UNCHANGED <<pc, cur, kind, pos, got, from, outq, did, execd>>
  BY DEF DevData, hostVars, TypeInv, TypeOK
<1>3. CASE Answered
  <2>1. /\ in # <<>> /\ in[1] = Resp(cur, "success") /\ kind = "read" /\ Flow(Tail(in), 0)
        /\ Tail(in) \in Seq(Report)
    BY <1>2, <1>3 DEF Answered
  <2>2. in' # <<>> /\ in'[1] = in[1] /\ Flow(Tail(in), 0)'
    BY <1>2, <2>1, FlowRest
  <2>. QED
    BY <1>2, <1>3, <2>1, <2>2 DEF Answered
<1>4. CASE Reading
  <2>1. PICK n \in Nat : n = Len(got)
    BY DEF TypeInv, TypeOK
  <2>2. /\ pc = "rdata" /\ Packets(got, "DATA_IN", 0)
        /\ pos = n * PacketSize /\ pos < ReadLen /\ Flow(in, n)
    BY <1>2, <1>4, <2>1 DEF Reading
  <2>3. Flow(in, n)'
    BY <1>2, <2>2, FlowMore
  <2>4. Packets(got, "DATA_IN", 0)' /\ Len(got') = n /\ Flow(in, Len(got))'
    BY <1>2, <2>1, <2>2, <2>3 DEF Packets, Packet
  <2>. QED
    BY <1>2, <1>4, <2>1, <2>2, <2>4 DEF Reading
<1>. QED
  BY <1>1, <1>2, <1>3, <1>4 DEF LinkInv, Idle, Asked, Writing

\* DevStore: a packet of the write, or an error that ends the data phase.
LEMMA LinkDevStore ==
    ASSUME TypeInv, OnceInv, LinkInv, DevStore
    PROVE  LinkInv'
<1>1. SUFFICES ASSUME faults = 0
               PROVE  Writing'
  BY DEF LinkInv, DevStore, hostVars
<1>2. /\ dst = "recv" /\ outq # <<>> /\ outq' = Tail(outq)
      /\ UNCHANGED <<pc, cur, kind, pos, got, from, did, execd>>
      /\ outq \in Seq(Report) /\ Head(outq) \in Report /\ stored \in Seq(Report)
      /\ Tail(outq) \in Seq(Report) /\ in \in Seq(Report) /\ cur \in 0 .. MaxCalls
  BY QueueType DEF DevStore, DevTakes, hostVars, TypeInv, TypeOK
<1>3. PICK n \in Nat : Len(outq) = n + 1 /\ Len(Tail(outq)) = n
  <2>1. Len(outq) - 1 \in Nat /\ Len(outq) = (Len(outq) - 1) + 1
        /\ Len(Tail(outq)) = Len(outq) - 1
    BY <1>2
  <2>. QED
    BY <2>1
<1>4. PICK m \in Nat : m = Len(stored)
  BY <1>2
<1>5. /\ kind = "write" /\ from = {cur} /\ execd[cur] > 0
      /\ pc \in {"wsend", "final"}
      /\ did = cur /\ in = <<>> /\ cur \notin failed
      /\ Packets(stored, "DATA_OUT", 0) /\ dpos = m * PacketSize
      /\ Packets(outq, "DATA_OUT", m)
      /\ Sent(m + (n + 1))
  <2>1. Writing
    BY <1>1, <1>2 DEF LinkInv, Idle, Asked, Answered, Reading, Flow, Stream
  <2>. QED
    BY <1>2, <1>3, <1>4, <2>1 DEF Writing
<1>6. /\ Head(outq) = Packet("DATA_OUT", m + 1)
      /\ Packets(Tail(outq), "DATA_OUT", m + 1)
  BY <1>2, <1>5, PacketsTail
<1>7. CASE /\ stored' = Append(stored, Head(outq))
           /\ dpos' = dpos + Chunk(WriteLen, dpos)
           /\ dst' = IF dpos' < WriteLen THEN "recv" ELSE "finish"
           /\ UNCHANGED <<in, failed>>
  <2>1. Len(stored') = m + 1 /\ stored' \in Seq(Report)
    BY <1>2, <1>4, <1>7
  <2>2. Packets(stored', "DATA_OUT", 0)
    <3>1. 0 + m + 1 = m + 1
      OBVIOUS
    <3>. QED
      BY <1>2, <1>4, <1>5, <1>6, <1>7, <3>1, PacketsAppend
  <2>3. dpos < WriteLen /\ dpos \in Nat /\ WriteLen \in Nat
    BY <1>2, SizesAssumption DEF TypeInv, TypeOK, DataInv
  <2>4. LET end == m * PacketSize + Chunk(WriteLen, m * PacketSize)
        IN  /\ end < WriteLen => end = (m + 1) * PacketSize
            /\ end >= WriteLen => All(m + 1, WriteLen)
    BY <1>5, <2>3, AllNext
  <2>5. Chunk(WriteLen, dpos) \in Nat
    BY <2>3, ChunkType
  <2>6. /\ dpos' < WriteLen => dpos' = (m + 1) * PacketSize
        /\ ~(dpos' < WriteLen) => All(m + 1, WriteLen)
    BY <1>5, <1>7, <2>3, <2>4, <2>5
  <2>7. CASE dpos' < WriteLen
    <3>1. dst' = "recv" /\ dpos' = Len(stored') * PacketSize
      BY <1>7, <2>1, <2>6, <2>7
    <3>2. Packets(stored, "DATA_OUT", 0)' /\ Packets(outq, "DATA_OUT", Len(stored))'
      BY <1>2, <1>6, <2>1, <2>2 DEF Packets, Packet
    <3>3. Len(stored') + Len(outq') = m + (n + 1)
      <4>1. Len(outq') = n
        BY <1>2, <1>3
      <4>. QED
        BY ONLY <2>1, <4>1, m \in Nat, n \in Nat
    <3>4. Sent(Len(stored) + Len(outq))'
      BY <1>2, <1>5, <3>3 DEF Sent
    <3>. QED
      BY <1>2, <1>5, <1>7, <3>1, <3>2, <3>4 DEF Writing
  <2>8. CASE ~(dpos' < WriteLen)
    <3>1. All(m + 1, WriteLen) /\ m + 1 \in Nat /\ m + (n + 1) \in Nat
      BY <2>6, <2>8
    <3>2. pc = "final"
      <4>1. SUFFICES ASSUME pc = "wsend"
                     PROVE  FALSE
        BY <1>5
      <4>2. (m + (n + 1)) * PacketSize < WriteLen
        BY <1>5, <4>1 DEF Sent
      <4>3. m + (n + 1) < m + 1
        BY <2>3, <3>1, <4>2, AllOrMore
      <4>. QED
        BY <4>3
    <3>3. pos = WriteLen /\ All(m + (n + 1), WriteLen)
      BY <1>5, <3>2 DEF Sent
    <3>4. m + (n + 1) = m + 1
      BY <2>3, <3>1, <3>3, AllIsCount
    <3>5. outq' = <<>>
      <4>1. Len(Tail(outq)) = 0
        BY <1>3, <3>4
      <4>. QED
        BY <1>2, <4>1, EmptySeq
    <3>6. stored' = Chunks("DATA_OUT", cur, WriteLen)
      BY <2>1, <2>2, <2>3, <3>1, PacketsAll
    <3>7. dst' = "finish" /\ stored' = Chunks("DATA_OUT", cur', WriteLen)
      BY <1>2, <1>7, <2>8, <3>6
    <3>. QED
      BY <1>2, <1>5, <1>7, <3>2, <3>3, <3>5, <3>7 DEF Writing
  <2>. QED
    BY <2>7, <2>8
<1>8. CASE /\ DevSends(Resp(did, "error"))
           /\ failed' = failed \cup {did}
           /\ dst' = "idle"
           /\ UNCHANGED <<stored, dpos>>
  <2>1. Resp(cur, "error") \in Report
    BY <1>2, ReportType DEF Resp, HID_REPORT, Status
  <2>2. in' = <<Resp(cur, "error")>> /\ Len(in') = 1 /\ in'[1] = Resp(cur, "error")
    BY <1>2, <1>5, <1>8, <2>1, AppendTail DEF DevSends
  <2>3. DataOnly(outq)'
    <3>1. \A i : Packet("DATA_OUT", i).rep = "DATA_OUT"
      BY DEF Packet, report
    <3>. QED
      BY <1>2, <1>6, <3>1 DEF DataOnly, Packets
  <2>. QED
    BY <1>2, <1>5, <1>8, <2>2, <2>3 DEF Writing
<1>. QED
  BY <1>7, <1>8 DEF DevStore

\* DevFinish: the device's last word on the data phase.
LEMMA LinkDevFinish ==
    ASSUME TypeInv, OnceInv, LinkInv, DevFinish
    PROVE  LinkInv'
<1>1. SUFFICES ASSUME faults = 0
               PROVE  Answered' \/ Reading' \/ Writing'
  BY DEF LinkInv, DevFinish, hostVars
<1>2. /\ dst = "finish" /\ dst' = "idle" /\ in \in Seq(Report) /\ cur \in 0 .. MaxCalls
      /\ UNCHANGED <<pc, cur, kind, pos, got, from, outq, did, stored, execd>>
  BY DEF DevFinish, hostVars, TypeInv, TypeOK
<1>3. PICK s \in Status :
         /\ DevSends(Resp(did, s))
         /\ failed' = IF s = "error" THEN failed \cup {did} ELSE failed
  BY DEF DevFinish
<1>4. did \in 0 .. MaxCalls /\ Resp(did, s) \in Report
  <2>1. did \in 0 .. MaxCalls
    BY DEF TypeInv, TypeOK
  <2>. QED
    BY <2>1, ReportType DEF Resp, HID_REPORT
<1>5. /\ in' # <<>>
      /\ in = <<>> => Len(in') = 1 /\ in'[1] = Resp(did, s)
      /\ in # <<>> => in'[1] = in[1]
  BY <1>2, <1>3, <1>4, AppendTail DEF DevSends
<1>6. did = cur /\ cur \notin failed => LastWord(Resp(did, s))'
  BY <1>2, <1>3 DEF LastWord, Status
<1>7. CASE Answered
  <2>1. /\ in # <<>> /\ in[1] = Resp(cur, "success")
        /\ \/ kind = "empty"
           \/ kind = "read" /\ Flow(Tail(in), 0)
    BY <1>2, <1>7 DEF Answered
  <2>2. kind = "read" => Flow(Tail(in), 0)'
    BY <2>1, FlowRest
  <2>. QED
    BY <1>2, <1>5, <1>7, <2>1, <2>2 DEF Answered
<1>8. CASE Reading
  <2>1. CASE pc = "rdata"
    <3>1. PICK n \in Nat : n = Len(got)
      BY DEF TypeInv, TypeOK
    <3>2. /\ Packets(got, "DATA_IN", 0)
          /\ pos = n * PacketSize /\ pos < ReadLen /\ Flow(in, n)
      BY <1>2, <1>8, <2>1, <3>1 DEF Reading
    <3>3. Flow(in, n)'
      BY <3>2, FlowMore
    <3>4. Packets(got, "DATA_IN", 0)' /\ Len(got') = n /\ Flow(in, Len(got))'
      BY <1>2, <3>1, <3>2, <3>3 DEF Packets, Packet
    <3>. QED
      BY <1>2, <1>8, <2>1, <3>1, <3>2, <3>4 DEF Reading
  <2>2. CASE pc = "final"
    <3>1. got = Chunks("DATA_IN", cur, ReadLen) /\ in = <<>> /\ did = cur
          /\ cur \notin failed
      BY <1>2, <1>8, <2>2 DEF Reading
    <3>2. Len(in') = 1 /\ LastWord(in[1])' /\ got' = Chunks("DATA_IN", cur', ReadLen)
      <4>1. in'[1] = Resp(did, s)
        BY <1>5, <3>1
      <4>2. PICK r : r = Resp(did, s) /\ LastWord(r)'
        BY <1>2, <1>6, <3>1 DEF LastWord
      <4>3. LastWord(in[1])'
        BY <4>1, <4>2 DEF LastWord
      <4>. QED
        BY <1>2, <1>5, <3>1, <4>3
    <3>. QED
      BY <1>2, <1>8, <2>2, <3>2 DEF Reading
  <2>. QED
    BY <1>8, <2>1, <2>2 DEF Reading
<1>9. CASE Writing
  <2>1. /\ pc = "final" /\ pos = WriteLen /\ outq = <<>>
        /\ stored = Chunks("DATA_OUT", cur, WriteLen)
        /\ did = cur /\ in = <<>> /\ cur \notin failed
    BY <1>2, <1>9 DEF Writing
  <2>2. Len(in') = 1 /\ LastWord(in[1])'
    <3>1. in'[1] = Resp(did, s)
      BY <1>5, <2>1
    <3>2. PICK r : r = Resp(did, s) /\ LastWord(r)'
      BY <1>2, <1>6, <2>1 DEF LastWord
    <3>3. LastWord(in[1])'
      BY <3>1, <3>2 DEF LastWord
    <3>. QED
      BY <1>5, <2>1, <3>3
  <2>. QED
    BY <1>2, <1>9, <2>1, <2>2 DEF Writing, Chunks
<1>. QED
  BY <1>1, <1>2, <1>7, <1>8, <1>9 DEF LinkInv, Idle, Asked

-----------------------------------------------------------------------------
(* The invariant and what it says of an answer.                            *)

\* Every step preserves LinkInv; FailInv is what a new call needs.
LEMMA LinkInductive ==
    ASSUME TypeInv, OnceInv, FailInv, LinkInv, [Next]_vars
    PROVE  LinkInv'
<1>1. CASE UNCHANGED vars
  <2>1. UNCHANGED <<pc, cur, kind, pos, got, from, out, faults, outq, in,
                    dst, did, dkind, dpos, stored, execd, failed>>
    BY <1>1 DEF vars, hostVars, devVars
  <2>2. Idle => Idle'
    BY <2>1 DEF Idle, Verdict, DataOnly, Chunks
  <2>3. Asked => Asked'
    BY <2>1 DEF Asked
  <2>4. Answered => Answered'
    <3>1. in # <<>> /\ Flow(Tail(in), 0) => Flow(Tail(in), 0)'
      <4>1. SUFFICES ASSUME in # <<>>, Flow(Tail(in), 0)
                     PROVE  Flow(Tail(in), 0)'
        OBVIOUS
      <4>2. PICK q \in Seq(Report) : q = Tail(in)
        BY <4>1, QueueType
      <4>3. Flow(q, 0)'
        BY <2>1, <4>1, <4>2, FlowStays
      <4>4. Tail(in') = q
        BY <2>1, <4>2
      <4>. QED
        BY <4>3, <4>4
    <3>. QED
      BY <2>1, <3>1 DEF Answered
  <2>5. Reading => Reading'
    <3>1. Flow(in, Len(got)) => Flow(in, Len(got))'
      <4>1. SUFFICES ASSUME Flow(in, Len(got))
                     PROVE  Flow(in, Len(got))'
        OBVIOUS
      <4>2. PICK q \in Seq(Report), n \in Nat : q = in /\ n = Len(got)
        BY DEF TypeInv, TypeOK
      <4>3. Flow(q, n)'
        BY <2>1, <4>1, <4>2, FlowStays
      <4>. QED
        BY <2>1, <4>2, <4>3
    <3>2. LastWord(in[1]) => LastWord(in[1])'
      BY <2>1 DEF LastWord
    <3>3. Packets(got, "DATA_IN", 0) => Packets(got, "DATA_IN", 0)'
      BY <2>1 DEF Packets, Packet
    <3>. QED
      BY <2>1, <3>1, <3>2, <3>3 DEF Reading, Chunks
  <2>6. Writing => Writing'
    <3>1. /\ Packets(stored, "DATA_OUT", 0) => Packets(stored, "DATA_OUT", 0)'
          /\ Packets(outq, "DATA_OUT", Len(stored)) =>
                Packets(outq, "DATA_OUT", Len(stored))'
      BY <2>1 DEF Packets, Packet
    <3>2. /\ LastWord(in[1]) => LastWord(in[1])'
          /\ DataOnly(outq) => DataOnly(outq)'
          /\ Sent(Len(stored) + Len(outq)) => Sent(Len(stored) + Len(outq))'
      BY <2>1 DEF LastWord, DataOnly, Sent
    <3>. QED
      BY <2>1, <3>1, <3>2 DEF Writing, Chunks
  <2>. QED
    BY <2>1, <2>2, <2>3, <2>4, <2>5, <2>6 DEF LinkInv
<1>2. CASE \E k \in Kinds : Call(k)
  BY <1>2, LinkCall
<1>3. CASE Restart
  BY <1>3, LinkRestart
<1>4. CASE HostStep
  BY <1>4, LinkResponse, LinkReadData, LinkSendData, LinkFinalResponse, LinkAbandoned
     DEF HostStep
<1>5. CASE DevStep
  BY <1>5, LinkDevCommand, LinkDevExecute, LinkDevData, LinkDevStore, LinkDevIgnore,
     LinkDevFinish DEF DevStep
<1>6. CASE \E k \in Kinds : CommandWriteFails(k)
  BY <1>6, LinkAbandoned
<1>. QED
  BY <1>1, <1>2, <1>3, <1>4, <1>5, <1>6 DEF Next

\* Init is a device that was just opened.
LEMMA LinkInit == Init => OnceInv /\ FailInv /\ LinkInv
<1>1. SUFFICES ASSUME Init
               PROVE  OnceInv /\ FailInv /\ LinkInv
  OBVIOUS
<1>2. OnceInv
  BY <1>1, SizesAssumption DEF Init, OnceInv, Calls, Sends, Begun
<1>3. FailInv
  BY <1>1 DEF Init, FailInv
<1>4. Verdict /\ DataOnly(outq)
  BY <1>1 DEF Init, Verdict, DataOnly
<1>. QED
  BY <1>1, <1>2, <1>3, <1>4 DEF LinkInv, Idle, Init

\* The whole invariant, whatever interleaving of host, device and expiring
\* waits led here.
THEOREM LinkInvariant == Spec => [](TypeInv /\ OnceInv /\ FailInv /\ LinkInv)
<1>1. Spec => []TypeInv
  BY TypeInvariant
<1>2. Init => OnceInv /\ FailInv /\ LinkInv
  BY LinkInit
<1>3. TypeInv /\ OnceInv /\ FailInv /\ LinkInv /\ [Next]_vars
        => OnceInv' /\ FailInv' /\ LinkInv'
  BY OnceInductive, FailInductive, LinkInductive
<1>. QED
  BY <1>1, <1>2, <1>3, PTL DEF Spec

\* Before any call was abandoned, an idle host is where the invariant says.
LEMMA EndedIdle ==
    ASSUME TypeInv, LinkInv, NEW result, Ended(result, 0)
    PROVE  Verdict /\ out = result
BY DEF Ended, LinkInv, Idle, Asked, Answered, Reading, Writing, TypeInv, TypeOK

\* OwnResponse: the ids of reports are not looked at, and need not be until a
\* call is abandoned.
THEOREM OwnResponseHolds == Spec => []OwnResponse
<1>1. TypeInv /\ LinkInv => OwnResponse
  BY EndedIdle DEF OwnResponse, Verdict
<1>. QED
  BY <1>1, LinkInvariant, PTL

\* ReadExact: read_data takes an error in place of data for data, and then
\* waits in vain; a success is every packet once and in order.
THEOREM ReadExactHolds == Spec => []ReadExact
<1>1. TypeInv /\ LinkInv => ReadExact
  BY EndedIdle DEF ReadExact, Verdict
<1>. QED
  BY <1>1, LinkInvariant, PTL

\* WriteComplete: write_data sends without listening, and a success is still a
\* device that stored every packet.
THEOREM WriteCompleteHolds == Spec => []WriteComplete
<1>1. TypeInv /\ LinkInv => WriteComplete
  BY EndedIdle DEF WriteComplete, Verdict
<1>. QED
  BY <1>1, LinkInvariant, PTL

\* HonestStatus: the status the caller sees is the device's own on this call.
THEOREM HonestStatusHolds == Spec => []HonestStatus
<1>1. TypeInv /\ LinkInv => HonestStatus
  BY EndedIdle DEF HonestStatus, Verdict
<1>. QED
  BY <1>1, LinkInvariant, PTL

-----------------------------------------------------------------------------
(* The link implements the remote call of BootCommand.                     *)

\* A verdict is the device's own as long as no call was abandoned; without one
\* the call is abandoned, or the one before it was.
LEMMA OutcomeStep ==
    ASSUME TypeInv, LinkInv', TypeInv',
           Response \/ FinalResponse \/ DataWriteFails \/ Timeout,
           pc' = "idle"
    PROVE  Promise!Answer("ok") \/ Promise!Answer("refused") \/ Promise!GiveUp
<1>1. /\ pc # "idle" /\ out' \in {"ok", "refused", "broken"}
      /\ UNCHANGED <<cur, execd, failed>>
      /\ \/ faults' = faults
         \/ faults' = faults + 1 /\ out' = "broken"
      /\ faults \in Nat
  BY DEF Response, FinalResponse, DataWriteFails, Timeout, Receives, Finish, Raised,
         Waits, devVars, TypeInv, TypeOK
<1>2. faults' = 0 => /\ out' # "broken"
                     /\ cur \in {c \in Calls : execd[c] > 0}
                     /\ out' = "refused" <=> cur \in failed
  <2>1. SUFFICES ASSUME faults' = 0
                 PROVE  /\ out' # "broken"
                        /\ cur \in Calls /\ execd[cur] > 0
                        /\ out' = "refused" <=> cur \in failed
    OBVIOUS
  <2>2. Verdict'
    BY <2>1 DEF LinkInv, Idle, Asked, Answered, Reading, Writing
  <2>. QED
    BY <1>1, <2>2 DEF Verdict
<1>3. CASE out' = "broken"
  <2>1. faults' \in {faults, faults + 1} \ {0}
    BY <1>1, <1>2, <1>3
  <2>. QED
    BY <1>1, <1>3, <2>1 DEF Promise!GiveUp
<1>4. CASE out' \in {"ok", "refused"}
  <2>1. faults' = faults
    BY <1>1, <1>4
  <2>2. faults <= 0 => /\ cur \in {c \in Calls : execd[c] > 0}
                       /\ out' = "refused" <=> cur \in failed
    BY <1>1, <1>2, <2>1
  <2>. QED
    BY <1>1, <1>4, <2>1, <2>2 DEF Promise!Answer
<1>. QED
  BY <1>1, <1>3, <1>4

\* The device executes a command that was issued, once.
LEMMA ExecuteStep ==
    ASSUME TypeInv, OnceInv, DevExecute
    PROVE  \E c \in 1 .. cur : Promise!Execute(c)
<1>1. /\ did \in Calls /\ execd[did] = 0 /\ did <= cur
      /\ execd \in [Calls -> Nat] /\ cur \in 0 .. MaxCalls
  BY DEF DevExecute, OnceInv, Begun, TypeInv, TypeOK
<1>2. did \in 1 .. cur
  BY <1>1, SizesAssumption DEF Calls
<1>3. /\ execd' = [execd EXCEPT ![did] = @ + 1] /\ UNCHANGED <<cur, pc, out, faults>>
      /\ failed' \in {failed, failed \cup {did}}
  <2>1. failed' \in {failed, failed \cup {did}}
    BY ExecuteCases
  <2>. QED
    BY <2>1 DEF DevExecute, hostVars
<1>4. {c \in Calls : execd'[c] > 0} = {c \in Calls : execd[c] > 0} \cup {did}
  <2>1. execd'[did] > 0 /\ \A c \in Calls : c # did => execd'[c] = execd[c]
    BY <1>1, <1>3
  <2>. QED
    BY <1>1, <2>1
<1>5. did \notin {c \in Calls : execd[c] > 0}
  BY <1>1
<1>. QED
  BY <1>2, <1>3, <1>4, <1>5 DEF Promise!Execute

\* A data phase fails for a command that was executed.
LEMMA FailStep ==
    ASSUME TypeInv, OnceInv, FailInv, DevData \/ DevStore \/ DevFinish
    PROVE  \/ \E c \in 1 .. cur : Promise!FailData(c)
           \/ UNCHANGED Promise!vars
<1>1. /\ UNCHANGED <<cur, pc, out, faults, execd>>
      /\ failed' \in {failed, failed \cup {did}} /\ dst \in {"data", "recv", "finish"}
  BY DEF DevData, DevStore, DevFinish, hostVars
<1>2. did \in Calls /\ execd[did] > 0
  BY <1>1 DEF FailInv
<1>3. did \in 1 .. cur
  <2>1. ~(did > cur)
    BY <1>2 DEF OnceInv
  <2>2. cur \in 0 .. MaxCalls
    BY DEF TypeInv, TypeOK
  <2>. QED
    BY <1>2, <2>1, <2>2, SizesAssumption DEF Calls
<1>. QED
  BY <1>1, <1>2, <1>3 DEF Promise!FailData, Promise!vars

\* Every other step is none at all to the caller.
LEMMA SilentStep ==
    ASSUME TypeInv,
           \/ ReadData \/ SendData
           \/ (Response \/ FinalResponse \/ Timeout) /\ pc' # "idle"
           \/ DevCommand \/ DevIgnore
           \/ UNCHANGED vars
    PROVE  UNCHANGED Promise!vars
<1>1. CASE \/ ReadData \/ SendData
           \/ (Response \/ FinalResponse \/ Timeout) /\ pc' # "idle"
  <2>1. UNCHANGED <<cur, out, faults, execd, failed>> /\ pc # "idle" /\ pc' # "idle"
    BY <1>1 DEF ReadData, SendData, Response, FinalResponse, Timeout, Receives, Finish,
                devVars
  <2>. QED
    BY <2>1 DEF Promise!vars
<1>2. CASE DevCommand \/ DevIgnore \/ UNCHANGED vars
  <2>1. UNCHANGED <<cur, pc, out, faults, execd, failed>>
    BY <1>2 DEF DevCommand, DevIgnore, vars, hostVars, devVars
  <2>. QED
    BY <2>1 DEF Promise!vars
<1>. QED
  BY <1>1, <1>2

\* ImplementsPromise: every behaviour of the link is one of the remote call.
THEOREM LinkIsRemoteCall == Spec => ImplementsPromise
<1>1. Init => Promise!Init
  <2>1. SUFFICES ASSUME Init
                 PROVE  Promise!Init
    OBVIOUS
  <2>2. {c \in Calls : execd[c] > 0} = {}
    BY <2>1 DEF Init
  <2>. QED
    BY <2>1, <2>2 DEF Init, Promise!Init
<1>2. ASSUME TypeInv, OnceInv, FailInv, TypeInv', LinkInv', [Next]_vars
      PROVE  [Promise!Next]_Promise!vars
  <2>1. CASE \E k \in Kinds : Call(k)
    <3>1. Promise!Issue
      BY <2>1 DEF Call, devVars, Promise!Issue
    <3>. QED
      BY <3>1 DEF Promise!Next
  <2>2. CASE Restart
    <3>1. Promise!Restart
      BY <2>2 DEF Restart, Promise!Restart
    <3>. QED
      BY <3>1 DEF Promise!Next
  <2>3. CASE (Response \/ FinalResponse \/ DataWriteFails \/ Timeout) /\ pc' = "idle"
    BY <1>2, <2>3, OutcomeStep DEF Promise!Next
  <2>4. CASE DevExecute
    BY <1>2, <2>4, ExecuteStep DEF Promise!Next
  <2>5. CASE DevData \/ DevStore \/ DevFinish
    BY <1>2, <2>5, FailStep DEF Promise!Next
  <2>6. CASE \/ ReadData \/ SendData
             \/ (Response \/ FinalResponse \/ Timeout) /\ pc' # "idle"
             \/ DevCommand \/ DevIgnore
             \/ UNCHANGED vars
    BY <1>2, <2>6, SilentStep
  <2>7. CASE \E k \in Kinds : CommandWriteFails(k)
    <3>1. Promise!IssueFails
      BY <2>7 DEF CommandWriteFails, devVars, Promise!IssueFails
    <3>. QED
      BY <3>1 DEF Promise!Next
  <2>8. DataWriteFails => pc' = "idle"
    BY DEF DataWriteFails, Finish
  <2>. QED
    BY <1>2, <2>1, <2>2, <2>3, <2>4, <2>5, <2>6, <2>7, <2>8 DEF Next, HostStep, DevStep
<1>. QED
  BY <1>1, <1>2, LinkInvariant, PTL DEF Spec, ImplementsPromise, Promise!Spec

=============================================================================
