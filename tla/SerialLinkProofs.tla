--------------------------- MODULE SerialLinkProofs ---------------------------
(***************************************************************************)
(* Proofs about SerialLink, for every number of calls and every transfer   *)
(* and packet size: types; at most once; and what an answer is worth.  As  *)
(* long as at most one wait expired since the device was restarted, a call *)
(* that ends with a verdict has the device's verdict on this very call,    *)
(* and the data of this call, complete and in order.  The link is then the *)
(* remote call of BootCommand.                                             *)
(*                                                                         *)
(* For the answers the inductive invariant lists what the two byte streams *)
(* can hold, by the types of their frames, for each wait the host may be   *)
(* in.  In step with the device (Turn), one frame or one busy device is    *)
(* all there is.  A wait that expires leaves either the end of an          *)
(* abandoned call (Leftover), which the next ping puts an end to, or a     *)
(* ping nobody waits for (Owed); then the host may be one ping behind for  *)
(* a call, and never gets past its ACK (Behind).                           *)
(***************************************************************************)
EXTENDS SerialLink, SequenceTheorems, FiniteSetTheorems, TLAPS

-----------------------------------------------------------------------------
(* Type correctness.                                                       *)

\* Frames on their way to the device, and to the host.
OutFrame == {f \in Frame : f.type = "CMD" => f.arg \in Kinds}
InFrame  == {f \in Frame : f.type = "DATA" => f.pos <= ReadLen}

\* The device sends and stores data within the transfer only, so that the
\* length of a payload is a natural number.
DataInv ==
    /\ tx \in Seq(OutFrame)
    /\ rx \in Seq(InFrame)
    /\ dst = "data" => dpos < ReadLen
    /\ dst = "recv" => dpos < WriteLen
    /\ dst \in {"exec", "respAck"} => dpos = 0
    /\ dst \in {"data", "dataAck"} => dkind = "read"

TypeInv == TypeOK /\ DataInv

\* Reading bytes off the stream leaves whole frames (UART, SPI, I2C read()).
LEMMA ConsumeType ==
    ASSUME NEW S, NEW s \in Seq(S), NEW k \in Nat
    PROVE  Consume(s, k) \in Seq(S)
<1> DEFINE cut == {i \in 1 .. Len(s) : Upto(s)[i - 1] < k}
           m == 1 + Cardinality(cut)
<1>1. IsFiniteSet(1 .. Len(s))
  BY FS_Interval, LenProperties
<1>2. Cardinality(cut) \in Nat
  BY <1>1, FS_Subset, FS_CardinalityType
<1>3. \A i \in m .. Len(s) : s[i] \in S
  BY <1>2, ElementOfSeq
<1> HIDE DEF cut
<1>4. SubSeq(s, m, Len(s)) \in Seq(S)
  BY <1>2, <1>3, SubSeqProperties
<1>. QED
  BY <1>4 DEF Consume, cut

\* What genPacket builds is a frame.
LEMMA PacketType ==
    ASSUME NEW t \in FPType, NEW c \in 0 .. MaxCalls, NEW p \in Nat,
           NEW a \in Kinds \cup Status \cup {"none"}
    PROVE  genPacket(t, c, p, a) \in Frame
BY DEF genPacket, Frame

\* A payload is at least empty and at most a packet.
LEMMA ChunkType ==
    ASSUME NEW total \in Nat, NEW p \in Nat, p <= total
    PROVE  /\ Chunk(total, p) \in Nat
           /\ p + Chunk(total, p) <= total
BY SizesAssumption DEF Chunk

\* Counting an execution keeps counts.
LEMMA CountType ==
    ASSUME NEW e \in [Calls -> Nat], NEW d \in 0 .. MaxCalls
    PROVE  [e EXCEPT ![d] = e[d] + 1] \in [Calls -> Nat]
<1>1. CASE d \in Calls
  BY <1>1
<1>2. CASE d \notin Calls
  BY <1>2
<1>. QED
  BY <1>1, <1>2

USE DEF TypeInv, TypeOK, DataInv

\* The invariant holds in the idle state of a new link.
LEMMA TypeInit == Init => TypeInv
BY SizesAssumption DEF Init, Kinds, Outcomes, DevStates, Calls, OutFrame, InFrame

\* Starting a call, and the user's restart, preserve it.
LEMMA TypeCall ==
    ASSUME TypeInv, \/ \E k \in Kinds : Call(k)
                    \/ Restart
    PROVE  TypeInv'
<1>1. CASE \E k \in Kinds : Call(k)
  <2>1. PICK k \in Kinds : Call(k)
    BY <1>1
  <2>2. Signal("PING", cur + 1) \in OutFrame
    BY <2>1, SizesAssumption
       DEF Call, Signal, genPacket, OutFrame, Frame, FPType
  <2>3. Signal("PING", cur + 1) \in Frame
    BY <2>2 DEF OutFrame
  <2>. QED
    BY <2>1, <2>2, <2>3, SizesAssumption DEF Call, devVars, Waits, Outcomes
<1>2. CASE Restart
  BY <1>2 DEF Restart, Outcomes, DevStates
<1>. QED
  BY <1>1, <1>2

\* Receiving a frame takes it off the stream.
LEMMA ReceiveType ==
    ASSUME TypeInv, NEW w \in Waits, Receives(w)
    PROVE  /\ Head(rx) \in InFrame /\ Head(rx) \in Frame
           /\ rx' \in Seq(InFrame) /\ rx' \in Seq(Frame)
BY DEF Receives, InFrame

\* A response or data frame has six bytes of framing and a payload.
LEMMA PayloadType ==
    ASSUME NEW f \in InFrame, f.type \in {"DATA", "CMD"}
    PROVE  Size(f) \in Nat /\ Size(f) >= 6
<1>1. CASE f.type = "CMD"
  BY <1>1 DEF Size, RespPayload
<1>2. CASE f.type = "DATA"
  <2>1. f.pos \in Nat /\ f.pos <= ReadLen
    BY <1>2, SizesAssumption DEF InFrame, Frame
  <2>2. Chunk(ReadLen, f.pos) \in Nat
    BY <2>1, ChunkType, SizesAssumption
  <2>. QED
    BY <1>2, <2>2 DEF Size
<1>. QED
  BY <1>1, <1>2

\* An ACK of the host is a frame, and not a command.
LEMMA AckType ==
    ASSUME TypeInv
    PROVE  Ack(cur) \in OutFrame /\ Ack(cur) \in Frame
BY DEF Ack, Signal, genPacket, OutFrame, Frame, FPType

\* The steps of write_cmd preserve the invariant.
LEMMA TypeWriteCmd ==
    ASSUME TypeInv, PingOk \/ CommandAcked \/ Response
    PROVE  TypeInv'
<1>1. CASE PingOk
  <2>1. genPacket("CMD", cur, 0, kind) \in OutFrame
    BY DEF genPacket, OutFrame, Frame, FPType
  <2>2. genPacket("CMD", cur, 0, kind) \in Frame
    BY <2>1 DEF OutFrame
  <2>. QED
    BY <1>1, <2>1, <2>2, ReceiveType DEF PingOk, devVars, Waits
<1>2. CASE CommandAcked
  BY <1>2, ReceiveType DEF CommandAcked, devVars, Waits
<1>3. CASE Response
  <2>1. /\ tx' \in Seq(OutFrame) /\ tx' \in Seq(Frame)
        /\ rx' \in Seq(InFrame) /\ rx' \in Seq(Frame)
        /\ Head(rx) \in Frame
    BY <1>3, AckType, ReceiveType DEF Response, Waits
  <2>2. pc' \in Waits \cup {"idle", "wsend"} /\ out' \in Outcomes
    BY <1>3 DEF Response, Finish, DataPhase, Waits, Outcomes, Kinds
  <2>3. from' \subseteq 0 .. MaxCalls
    BY <1>3, <2>1 DEF Response, Frame
  <2>. QED
    BY <1>3, <2>1, <2>2, <2>3 DEF Response, devVars
<1>. QED
  BY <1>1, <1>2, <1>3

\* The steps of read_data and write_data preserve the invariant.
LEMMA TypeDataPhase ==
    ASSUME TypeInv, ReadData \/ SendData \/ DataAcked \/ FinalResponse
    PROVE  TypeInv'
<1>1. CASE ReadData
  <2>1. /\ tx' \in Seq(OutFrame) /\ tx' \in Seq(Frame)
        /\ rx' \in Seq(InFrame) /\ rx' \in Seq(Frame)
        /\ Head(rx) \in Frame /\ Head(rx) \in InFrame
    BY <1>1, AckType, ReceiveType DEF ReadData, Waits
  <2>2. Head(rx).type \in {"DATA", "CMD"}
    BY <1>1 DEF ReadData, Receives, Accepts, Waits
  <2>3. Size(Head(rx)) \in Nat /\ Size(Head(rx)) >= 6
    BY <2>1, <2>2, PayloadType
  <2>4. pc' \in Waits \cup {"idle", "wsend"} /\ out' \in Outcomes
    BY <1>1 DEF ReadData, Finish, Waits, Outcomes
  <2>5. pos' \in Nat /\ got' \in Seq(Frame)
    <3>1. CASE UNCHANGED <<pos, got>>
      BY <3>1
    <3>2. CASE /\ got' = IF Size(Head(rx)) = 6 THEN got ELSE Append(got, Head(rx))
               /\ pos' = pos + Size(Head(rx)) - 6
      <4>1. got' \in Seq(Frame)
        BY <2>1, <3>2
      <4>2. pos' \in Nat
        BY <2>3, <3>2
      <4>. QED
        BY <4>1, <4>2
    <3>. QED
      BY <1>1, <3>1, <3>2 DEF ReadData
  <2>6. from' \subseteq 0 .. MaxCalls
    BY <1>1, <2>1 DEF ReadData, Frame
  <2>. QED
    BY <1>1, <2>1, <2>4, <2>5, <2>6 DEF ReadData, devVars
<1>2. CASE SendData
  <2>1. Data(cur, pos) \in OutFrame
    BY DEF Data, genPacket, OutFrame, Frame, FPType
  <2>2. Data(cur, pos) \in Frame
    BY <2>1 DEF OutFrame
  <2>. QED
    BY <1>2, <2>1, <2>2 DEF SendData, devVars, Waits
<1>3. CASE DataAcked
  <2>1. pos' \in Nat /\ pc' \in Waits \cup {"idle", "wsend"}
    BY <1>3, SizesAssumption DEF DataAcked, Waits
  <2>. QED
    BY <1>3, <2>1, ReceiveType DEF DataAcked, devVars, Waits
<1>4. CASE FinalResponse
  <2>1. /\ tx' \in Seq(OutFrame) /\ tx' \in Seq(Frame)
        /\ rx' \in Seq(InFrame) /\ rx' \in Seq(Frame)
        /\ Head(rx) \in Frame
    BY <1>4, AckType, ReceiveType DEF FinalResponse, Waits
  <2>2. from' \subseteq 0 .. MaxCalls
    BY <1>4, <2>1 DEF FinalResponse, Frame
  <2>. QED
    BY <1>4, <2>1, <2>2 DEF FinalResponse, Finish, devVars, Outcomes
<1>. QED
  BY <1>1, <1>2, <1>3, <1>4

\* A call that reads something else, or nothing, preserves the invariant.
LEMMA TypeFailure ==
    ASSUME TypeInv, NEW w \in Waits, Mismatch(w) \/ Timeout(w)
    PROVE  TypeInv'
<1>1. CASE Mismatch(w)
  <2>1. Needed[w] \in Nat
    BY DEF Needed, Waits
  <2>2. Consume(rx, Needed[w]) \in Seq(InFrame)
    BY <2>1, ConsumeType
  <2>3. Consume(rx, Needed[w]) \in Seq(Frame)
    BY <2>1, ConsumeType
  <2>. QED
    BY <1>1, <2>2, <2>3 DEF Mismatch, Finish, devVars, Waits, Outcomes
<1>2. CASE Timeout(w)
  BY <1>2 DEF Timeout, Finish, devVars, Outcomes
<1>. QED
  BY <1>1, <1>2

\* What the device takes was sent to it, and what it sends is a frame.
LEMMA DeviceType ==
    ASSUME TypeInv, NEW types, DevTakes(types)
    PROVE  /\ Head(tx) \in OutFrame /\ Head(tx) \in Frame
           /\ Head(tx).type \in types
           /\ tx' \in Seq(OutFrame) /\ tx' \in Seq(Frame)
BY DEF DevTakes, OutFrame

\* What the device sends joins the stream to the host.
LEMMA SendType ==
    ASSUME TypeInv, NEW f \in InFrame, DevSends(f)
    PROVE  rx' \in Seq(InFrame) /\ rx' \in Seq(Frame)
BY DEF DevSends, InFrame

\* A frame without data, or with data of the transfer, is one for the host.
LEMMA InFrameType ==
    ASSUME NEW t \in FPType, NEW c \in 0 .. MaxCalls, NEW p \in Nat,
           NEW a \in Kinds \cup Status \cup {"none"},
           t = "DATA" => p <= ReadLen
    PROVE  genPacket(t, c, p, a) \in InFrame
BY PacketType DEF genPacket, InFrame

\* The device's steps preserve the invariant.
LEMMA TypeDevice ==
    ASSUME TypeInv, DevStep
    PROVE  TypeInv'
<1>1. CASE DevPing
  <2>1. Head(tx).id \in 0 .. MaxCalls
    BY <1>1, DeviceType DEF DevPing, Frame
  <2>2. genPacket("PINGR", Head(tx).id, 0, "none") \in InFrame
    BY <2>1, InFrameType DEF FPType
  <2>3. rx' \in Seq(InFrame) /\ rx' \in Seq(Frame)
    BY <1>1, <2>2, SendType DEF DevPing, Signal
  <2>. QED
    BY <1>1, <2>3, DeviceType DEF DevPing, hostVars, DevStates
<1>2. CASE DevCommand
  <2>1. Head(tx).id \in 0 .. MaxCalls /\ Head(tx).arg \in Kinds
    <3>1. /\ Head(tx) \in OutFrame /\ Head(tx) \in Frame
          /\ Head(tx).type = "CMD"
      BY <1>2, DeviceType DEF DevCommand
    <3>. QED
      BY <3>1 DEF Frame, OutFrame
  <2>2. genPacket("ACK", Head(tx).id, 0, "none") \in InFrame
    BY <2>1, InFrameType DEF FPType
  <2>3. rx' \in Seq(InFrame) /\ rx' \in Seq(Frame)
    BY <1>2, <2>2, SendType DEF DevCommand, Ack, Signal
  <2>. QED
    BY <1>2, <2>1, <2>3, DeviceType DEF DevCommand, hostVars, DevStates
<1>3. CASE DevIgnore
  BY <1>3, DeviceType DEF DevIgnore, hostVars, devVars
<1>4. CASE DevExecute
  <2>1. PICK s \in Status :
          /\ DevSends(Resp(did, s))
          /\ failed' = IF s = "error" THEN failed \cup {did} ELSE failed
          /\ dst' = IF s = "success" /\ dkind # "cmd" THEN "respAck" ELSE "endAck"
    BY <1>4 DEF DevExecute
  <2>2. genPacket("CMD", did, 0, s) \in InFrame
    BY InFrameType DEF FPType
  <2>3. rx' \in Seq(InFrame) /\ rx' \in Seq(Frame)
    BY <2>1, <2>2, SendType DEF Resp
  <2>4. execd' \in [Calls -> Nat]
    <3>1. execd' = [execd EXCEPT ![did] = execd[did] + 1]
      BY <1>4 DEF DevExecute
    <3>. QED
      BY <3>1, CountType
  <2>. QED
    BY <1>4, <2>1, <2>3, <2>4 DEF DevExecute, hostVars, DevStates, DevAckStates
<1>5. CASE DevAcked
  <2>1. dst' \in DevStates
    BY <1>5 DEF DevAcked, DevStates, DevAckStates
  <2>. QED
    BY <1>5, <2>1, DeviceType, SizesAssumption
       DEF DevAcked, hostVars, DevAckStates
<1>6. CASE DevData
  <2>1. CASE /\ DevSends(Resp(did, "error"))
              /\ dst' = "endAck"
              /\ failed' = failed \cup {did}
              /\ UNCHANGED dpos
    <3>1. genPacket("CMD", did, 0, "error") \in InFrame
      BY InFrameType DEF FPType, Status
    <3>2. rx' \in Seq(InFrame) /\ rx' \in Seq(Frame)
      BY <2>1, <3>1, SendType DEF Resp
    <3>. QED
      BY <1>6, <2>1, <3>2 DEF DevData, hostVars, DevStates, DevAckStates
  <2>2. CASE /\ DevSends(Data(did, dpos))
              /\ dpos' = dpos + Chunk(ReadLen, dpos)
              /\ dst' = "dataAck"
              /\ UNCHANGED failed
    <3>1. genPacket("DATA", did, dpos, "none") \in InFrame
      <4>1. dpos <= ReadLen
        BY <1>6, SizesAssumption DEF DevData
      <4>. QED
        BY <4>1, InFrameType DEF FPType
    <3>2. rx' \in Seq(InFrame) /\ rx' \in Seq(Frame)
      BY <2>2, <3>1, SendType DEF Data
    <3>3. Chunk(ReadLen, dpos) \in Nat
      <4>1. dpos <= ReadLen
        BY <1>6, SizesAssumption DEF DevData
      <4>. QED
        BY <4>1, ChunkType, SizesAssumption
    <3>4. dpos' \in Nat
      BY <2>2, <3>3
    <3>. QED
      BY <1>6, <2>2, <3>2, <3>4 DEF DevData, hostVars, DevStates, DevAckStates
  <2>3. CASE /\ DevSends(Empty(did))
              /\ dst' = "dataAck"
              /\ UNCHANGED <<dpos, failed>>
    <3>1. genPacket("DATA", did, ReadLen, "none") \in InFrame
      BY InFrameType, SizesAssumption DEF FPType
    <3>2. rx' \in Seq(InFrame) /\ rx' \in Seq(Frame)
      BY <2>3, <3>1, SendType DEF Empty, Data
    <3>. QED
      BY <1>6, <2>3, <3>2 DEF DevData, hostVars, DevStates, DevAckStates
  <2>. QED
    BY <1>6, <2>1, <2>2, <2>3 DEF DevData
<1>7. CASE DevStore
  <2>1. /\ dst = "recv" /\ DevTakes({"DATA"})
        /\ \/ /\ DevSends(Ack(did))
              /\ stored' = Append(stored, Head(tx))
              /\ dpos' = dpos + Chunk(WriteLen, dpos)
              /\ dst' = IF dpos' < WriteLen THEN "recv" ELSE "finish"
              /\ UNCHANGED failed
           \/ /\ DevSends(Signal("ABORT", did))
              /\ failed' = failed \cup {did}
              /\ dst' = "finish"
              /\ UNCHANGED <<stored, dpos>>
    BY <1>7 DEF DevStore
  <2>2. genPacket("ACK", did, 0, "none") \in InFrame
        /\ genPacket("ABORT", did, 0, "none") \in InFrame
    BY InFrameType DEF FPType
  <2>3. rx' \in Seq(InFrame) /\ rx' \in Seq(Frame)
    BY <2>1, <2>2, SendType DEF Ack, Signal
  <2>4. dpos < WriteLen /\ dpos <= WriteLen
    BY <2>1, SizesAssumption
  <2>5. Chunk(WriteLen, dpos) \in Nat
    BY <2>4, ChunkType, SizesAssumption
  <2>6. dpos' \in Nat
    BY <2>1, <2>5
  <2>7. stored' \in Seq(Frame)
    <3>1. Head(tx) \in Frame
      BY <2>1, DeviceType
    <3>2. Append(stored, Head(tx)) \in Seq(Frame)
      BY <3>1
    <3>. QED
      BY <2>1, <3>2
  <2>8. /\ dst' \in {"recv", "finish"}
        /\ dst' = "recv" => dpos' < WriteLen
        /\ failed' \subseteq 0 .. MaxCalls
    BY <2>1, <2>4
  <2>. QED
    BY <1>7, <2>1, <2>3, <2>6, <2>7, <2>8, DeviceType DEF DevStore, hostVars, DevStates
<1>8. CASE DevFinish
  <2>1. PICK s \in Status :
          /\ DevSends(Resp(did, s))
          /\ failed' = IF s = "error" THEN failed \cup {did} ELSE failed
    BY <1>8 DEF DevFinish
  <2>2. genPacket("CMD", did, 0, s) \in InFrame
    BY InFrameType DEF FPType
  <2>3. rx' \in Seq(InFrame) /\ rx' \in Seq(Frame)
    BY <2>1, <2>2, SendType DEF Resp
  <2>. QED
    BY <1>8, <2>1, <2>3 DEF DevFinish, hostVars, DevStates, DevAckStates
<1>. QED
  BY <1>1, <1>2, <1>3, <1>4, <1>5, <1>6, <1>7, <1>8 DEF DevStep

\* The invariant the other proofs build on.
THEOREM TypeInvariant == Spec => []TypeInv
<1>1. Init => TypeInv
  BY TypeInit
<1>2. TypeInv /\ [Next]_vars => TypeInv'
  <2>1. SUFFICES ASSUME TypeInv, [Next]_vars
                 PROVE  TypeInv'
    OBVIOUS
  <2>2. CASE Next
    BY <2>1, <2>2, TypeCall, TypeWriteCmd, TypeDataPhase, TypeFailure, TypeDevice
       DEF Next, HostStep
  <2>3. CASE UNCHANGED vars
    BY <2>1, <2>3 DEF vars, hostVars, devVars
  <2>. QED
    BY <2>1, <2>2, <2>3
<1>. QED
  BY <1>1, <1>2, PTL DEF Spec

\* TypeOK is an invariant, whatever the device does and whenever waits expire.
THEOREM TypeCorrect == Spec => []TypeOK
<1>1. TypeInv => TypeOK
  OBVIOUS
<1>. QED
  BY <1>1, TypeInvariant, PTL

HIDE DEF TypeInv, TypeOK, DataInv

-----------------------------------------------------------------------------
(* A command is executed at most once.                                     *)

Sends(i, c) == tx[i].type = "CMD" /\ tx[i].id = c
Begun(c)    == dst = "exec" /\ did = c

\* The command packet of call c was not sent yet.
Unsent(c) == c > cur \/ (c = cur /\ pc = "ping")

\* A command is in one place only: still with the host, in the stream to the
\* device, in its hands, or executed.
OnceInv ==
    /\ pc # "idle" => cur \in Calls
    /\ \A i \in 1 .. Len(tx) : tx[i].type = "CMD" => tx[i].id \in Calls
    /\ \A i, j \in 1 .. Len(tx), c \in Calls : Sends(i, c) /\ Sends(j, c) => i = j
    /\ \A i \in 1 .. Len(tx), c \in Calls :
          Sends(i, c) => execd[c] = 0 /\ ~Begun(c) /\ ~Unsent(c)
    /\ dst = "exec" => did \in Calls
    /\ \A c \in Calls : Begun(c) => execd[c] = 0 /\ ~Unsent(c)
    /\ \A c \in Calls : Unsent(c) => execd[c] = 0
    /\ \A c \in Calls : execd[c] \in 0 .. 1

\* Steps that neither send a command nor begin or execute one: the stream
\* loses frames or gains one that is no command.
LEMMA OnceKept ==
    ASSUME TypeInv, OnceInv,
           \/ tx' = tx
           \/ tx' = <<>>
           \/ tx # <<>> /\ tx' = Tail(tx)
           \/ \E f \in Frame : f.type # "CMD" /\ tx' = Append(tx, f),
           execd' = execd,
           dst' = "exec" => dst = "exec" /\ did' = did,
           \A c \in Calls : Unsent(c)' => Unsent(c),
           pc' # "idle" => cur' \in Calls
    PROVE  OnceInv'
<1>1. tx \in Seq(Frame)
  BY DEF TypeInv, TypeOK
<1>2. \A c \in Calls : Begun(c)' => Begun(c)
  BY DEF Begun
<1>3. PICK k \in Nat :
         \A i \in 1 .. Len(tx') :
            tx'[i].type = "CMD" => i + k \in 1 .. Len(tx) /\ tx'[i] = tx[i + k]
  <2>1. CASE tx' = tx \/ tx' = <<>>
    BY <1>1, <2>1
  <2>2. CASE tx # <<>> /\ tx' = Tail(tx)
    <3>1. \A i \in 1 .. Len(tx') : i + 1 \in 1 .. Len(tx) /\ tx'[i] = tx[i + 1]
      BY <1>1, <2>2
    <3>2. 1 \in Nat
      OBVIOUS
    <3>. QED
      BY <3>1, <3>2
  <2>3. CASE \E f \in Frame : f.type # "CMD" /\ tx' = Append(tx, f)
    BY <1>1, <2>3
  <2>. QED
    BY <2>1, <2>2, <2>3
<1>4. Len(tx') \in Nat
  BY <1>1
<1>5. \A i \in 1 .. Len(tx'), c \in Calls :
         Sends(i, c)' => i + k \in 1 .. Len(tx) /\ Sends(i + k, c)
  BY <1>3 DEF Sends
<1>6. \A i \in 1 .. Len(tx') : tx'[i].type = "CMD" => tx'[i].id \in Calls
  BY <1>3 DEF OnceInv
<1>7. \A i, j \in 1 .. Len(tx'), c \in Calls : Sends(i, c)' /\ Sends(j, c)' => i = j
  <2>1. SUFFICES ASSUME NEW i \in 1 .. Len(tx'), NEW j \in 1 .. Len(tx'),
                        NEW c \in Calls, Sends(i, c)', Sends(j, c)'
                 PROVE  i = j
    OBVIOUS
  <2>2. i + k = j + k
    BY <1>5, <2>1 DEF OnceInv
  <2>. QED
    BY <1>4, <2>2
<1>8. \A i \in 1 .. Len(tx'), c \in Calls :
         Sends(i, c)' => execd'[c] = 0 /\ ~Begun(c)' /\ ~Unsent(c)'
  BY <1>2, <1>5 DEF OnceInv
<1>9. /\ dst' = "exec" => did' \in Calls
      /\ \A c \in Calls : Begun(c)' => execd'[c] = 0 /\ ~Unsent(c)'
      /\ \A c \in Calls : Unsent(c)' => execd'[c] = 0
      /\ \A c \in Calls : execd'[c] \in 0 .. 1
  BY <1>2 DEF OnceInv
<1>. QED
  BY <1>6, <1>7, <1>8, <1>9 DEF OnceInv

\* PingOk sends the one command packet of the current call.
LEMMA OncePingOk ==
    ASSUME TypeInv, OnceInv, PingOk
    PROVE  OnceInv'
<1> DEFINE f == genPacket("CMD", cur, 0, kind)
<1>1. /\ tx \in Seq(Frame) /\ cur \in 0 .. MaxCalls /\ Len(tx) \in Nat
      /\ tx' = Append(tx, f) /\ pc = "ping" /\ pc' = "ack" /\ cur' = cur
      /\ execd' = execd /\ dst' = dst /\ did' = did
  BY DEF TypeInv, TypeOK, PingOk, Receives, devVars
<1>2. f.type = "CMD" /\ f.id = cur
  BY DEF genPacket
<1> HIDE DEF f
<1>0. PICK n \in Nat : n = Len(tx)
  BY <1>1
<1>3. /\ Len(tx') = n + 1 /\ tx'[n + 1] = f
      /\ \A i \in 1 .. n : tx'[i] = tx[i]
  BY <1>0, <1>1, AppendProperties
<1>4. cur \in Calls
  BY <1>1 DEF OnceInv
<1>5. /\ Unsent(cur) /\ ~Unsent(cur)' /\ execd[cur] = 0 /\ ~Begun(cur)
      /\ \A c \in Calls : c # cur => (Unsent(c)' <=> Unsent(c))
      /\ \A c \in Calls : Begun(c)' <=> Begun(c)
  BY <1>1, <1>4, SizesAssumption DEF OnceInv, Unsent, Begun, Calls
<1>6. \A i \in 1 .. n, c \in Calls :
         (Sends(i, c)' <=> Sends(i, c)) /\ (Sends(i, c) => c # cur)
  BY <1>3, <1>0, <1>5 DEF Sends, OnceInv
<1>7. \A c \in Calls : Sends(n + 1, c)' <=> c = cur
  BY <1>2, <1>3 DEF Sends
<1>8. \A i \in 1 .. Len(tx') : i \in 1 .. n \/ i = n + 1
  BY <1>0, <1>3
<1>9. \A i, j \in 1 .. Len(tx'), c \in Calls : Sends(i, c)' /\ Sends(j, c)' => i = j
  BY <1>0, <1>6, <1>7, <1>8 DEF OnceInv
<1>10. \A i \in 1 .. Len(tx'), c \in Calls :
          Sends(i, c)' => execd[c] = 0 /\ ~Begun(c)' /\ ~Unsent(c)'
  <2>1. SUFFICES ASSUME NEW i \in 1 .. Len(tx'), NEW c \in Calls, Sends(i, c)'
                 PROVE  execd[c] = 0 /\ ~Begun(c)' /\ ~Unsent(c)'
    OBVIOUS
  <2>2. CASE i \in 1 .. n
    <3>1. Sends(i, c) /\ c # cur
      BY <1>6, <2>1, <2>2
    <3>2. execd[c] = 0 /\ ~Begun(c) /\ ~Unsent(c)
      BY <1>0, <2>2, <3>1 DEF OnceInv
    <3>. QED
      BY <1>5, <3>1, <3>2
  <2>3. CASE i = n + 1
    <3>1. Sends(n + 1, c)'
      BY <1>0, <2>1, <2>3 DEF Sends
    <3>2. c = cur
      BY <1>7, <3>1
    <3>3. ~Unsent(c)'
      BY <1>1, <3>2 DEF Unsent
    <3>. QED
      BY <1>4, <1>5, <3>2, <3>3
  <2>. QED
    BY <1>8, <2>2, <2>3
<1>11. \A i \in 1 .. Len(tx') : tx'[i].type = "CMD" => tx'[i].id \in Calls
  BY <1>0, <1>2, <1>3, <1>4, <1>8 DEF OnceInv
<1>12. /\ \A c \in Calls : Begun(c)' => execd[c] = 0 /\ ~Unsent(c)'
       /\ \A c \in Calls : Unsent(c)' => execd[c] = 0
  BY <1>5 DEF OnceInv
<1>. QED
  BY <1>1, <1>4, <1>9, <1>10, <1>11, <1>12 DEF OnceInv

\* DevCommand moves a command from the stream into the device's hands.
LEMMA OnceDevCommand ==
    ASSUME TypeInv, OnceInv, DevCommand
    PROVE  OnceInv'
<1>1. /\ tx \in Seq(Frame) /\ tx # <<>> /\ tx' = Tail(tx) /\ Head(tx) = tx[1]
      /\ tx[1].type = "CMD" /\ dst = "idle" /\ dst' = "exec" /\ did' = tx[1].id
      /\ execd' = execd /\ pc' = pc /\ cur' = cur
      /\ Len(tx) \in Nat /\ 1 \in 1 .. Len(tx)
  BY DEF TypeInv, TypeOK, DevCommand, DevTakes, hostVars
<1>2. /\ Len(tx') \in Nat
      /\ \A i \in 1 .. Len(tx') : i + 1 \in 1 .. Len(tx) /\ tx'[i] = tx[i + 1]
  BY <1>1
<1>3. did' \in Calls /\ Sends(1, did')
  BY <1>1 DEF OnceInv, Sends
<1>4. \A c \in Calls : /\ Begun(c)' <=> c = did'
                       /\ Unsent(c)' <=> Unsent(c)
                       /\ ~Begun(c)
  BY <1>1 DEF Begun, Unsent
<1>5. \A i \in 1 .. Len(tx'), c \in Calls :
         Sends(i, c)' => i + 1 \in 1 .. Len(tx) /\ Sends(i + 1, c) /\ i + 1 # 1
  BY <1>2 DEF Sends
<1>6. \A i \in 1 .. Len(tx'), c \in Calls : Sends(i, c)' => c # did'
  BY <1>1, <1>3, <1>5 DEF OnceInv
<1>7. \A i, j \in 1 .. Len(tx'), c \in Calls : Sends(i, c)' /\ Sends(j, c)' => i = j
  <2>1. SUFFICES ASSUME NEW i \in 1 .. Len(tx'), NEW j \in 1 .. Len(tx'),
                        NEW c \in Calls, Sends(i, c)', Sends(j, c)'
                 PROVE  i = j
    OBVIOUS
  <2>2. i + 1 = j + 1
    BY <1>5, <2>1 DEF OnceInv
  <2>. QED
    BY <1>2, <2>2
<1>8. \A i \in 1 .. Len(tx'), c \in Calls :
         Sends(i, c)' => execd[c] = 0 /\ ~Begun(c)' /\ ~Unsent(c)'
  BY <1>4, <1>5, <1>6 DEF OnceInv
<1>9. \A i \in 1 .. Len(tx') : tx'[i].type = "CMD" => tx'[i].id \in Calls
  BY <1>2 DEF OnceInv
<1>10. \A c \in Calls : Begun(c)' => execd[c] = 0 /\ ~Unsent(c)'
  BY <1>1, <1>3, <1>4 DEF OnceInv
<1>11. \A c \in Calls : Unsent(c)' => execd[c] = 0
  BY <1>4 DEF OnceInv
<1>. QED
  BY <1>1, <1>3, <1>7, <1>8, <1>9, <1>10, <1>11 DEF OnceInv

\* DevExecute executes the command in the device's hands.
LEMMA OnceDevExecute ==
    ASSUME TypeInv, OnceInv, DevExecute
    PROVE  OnceInv'
<1>1. /\ dst = "exec" /\ dst' # "exec" /\ did' = did
      /\ execd \in [Calls -> Nat] /\ execd' = [execd EXCEPT ![did] = @ + 1]
      /\ tx' = tx /\ pc' = pc /\ cur' = cur
  BY DEF TypeInv, TypeOK, DevExecute, hostVars
<1>2. did \in Calls /\ Begun(did) /\ execd[did] = 0
  BY <1>1 DEF OnceInv, Begun
<1>3. /\ execd'[did] = 1
      /\ \A c \in Calls : c # did => execd'[c] = execd[c]
  BY <1>1, <1>2
<1>4. \A c \in Calls : /\ ~Begun(c)'
                       /\ Unsent(c)' <=> Unsent(c)
                       /\ Unsent(c) => c # did
  BY <1>1, <1>2 DEF Begun, Unsent, OnceInv
<1>5. \A i \in 1 .. Len(tx), c \in Calls : (Sends(i, c)' <=> Sends(i, c))
                                           /\ (Sends(i, c) => c # did)
  BY <1>1, <1>2 DEF Sends, OnceInv
<1>. QED
  BY <1>1, <1>2, <1>3, <1>4, <1>5 DEF OnceInv

\* The invariant: every command packet is accounted for, from PingOk to
\* DevExecute.
THEOREM OnceInvariant == Spec => []OnceInv
<1>1. Init => OnceInv
  BY SizesAssumption DEF Init, OnceInv, Calls, Sends, Begun
<1>2. TypeInv /\ OnceInv /\ [Next]_vars => OnceInv'
  <2>1. SUFFICES ASSUME TypeInv, OnceInv, [Next]_vars
                 PROVE  OnceInv'
    OBVIOUS
  <2>2. CASE \E k \in Kinds : Call(k)
    <3>1. PICK k \in Kinds : Call(k)
      BY <2>2
    <3>2. Signal("PING", cur + 1) \in Frame /\ Signal("PING", cur + 1).type # "CMD"
      BY <2>1, <3>1, SizesAssumption
         DEF TypeInv, TypeOK, Call, Signal, genPacket, Frame, FPType
    <3>3. \A c \in Calls : Unsent(c)' => Unsent(c)
      BY <2>1, <3>1 DEF Call, Unsent, TypeInv, TypeOK, Calls
    <3>4. cur' \in Calls
      BY <2>1, <3>1, SizesAssumption DEF Call, TypeInv, TypeOK, Calls
    <3>. QED
      BY <2>1, <3>1, <3>2, <3>3, <3>4, OnceKept DEF Call, devVars
  <2>3. CASE PingOk
    BY <2>1, <2>3, OncePingOk
  <2>4. CASE Restart
    BY <2>1, <2>4, OnceKept DEF Restart, Unsent
  <2>5. CASE Response \/ ReadData \/ FinalResponse
    <3>1. Ack(cur) \in Frame /\ Ack(cur).type # "CMD"
      BY <2>1 DEF TypeInv, TypeOK, Ack, Signal, genPacket, Frame, FPType
    <3>2. /\ tx' = Append(tx, Ack(cur)) /\ UNCHANGED devVars /\ cur' = cur
          /\ pc # "idle" /\ pc' # "ping"
      BY <2>1, <2>5 DEF Response, ReadData, FinalResponse, Receives, Finish, DataPhase,
                        TypeInv, TypeOK, Kinds
    <3>. QED
      BY <2>1, <3>1, <3>2, OnceKept DEF devVars, Unsent, OnceInv
  <2>6. CASE SendData
    <3>1. Data(cur, pos) \in Frame /\ Data(cur, pos).type # "CMD"
      BY <2>1 DEF TypeInv, TypeOK, Data, genPacket, Frame, FPType
    <3>. QED
      BY <2>1, <2>6, <3>1, OnceKept DEF SendData, devVars, Unsent, OnceInv
  <2>7. CASE CommandAcked \/ DataAcked
    BY <2>1, <2>7, OnceKept
       DEF CommandAcked, DataAcked, Receives, devVars, Unsent, OnceInv
  <2>8. CASE \E w \in Waits : Mismatch(w) \/ Timeout(w)
    <3>1. tx' = tx /\ UNCHANGED devVars /\ cur' = cur /\ pc # "idle" /\ pc' # "ping"
      BY <2>8 DEF Mismatch, Timeout, Finish, Waits
    <3>. QED
      BY <2>1, <3>1, OnceKept DEF devVars, Unsent, OnceInv
  <2>9. CASE DevPing \/ DevIgnore \/ DevAcked \/ DevStore
    <3>1. tx # <<>> /\ tx' = Tail(tx) /\ execd' = execd /\ UNCHANGED hostVars
      BY <2>9 DEF DevPing, DevIgnore, DevAcked, DevStore, DevTakes, devVars
    <3>2. dst' = "exec" => dst = "exec" /\ did' = did
      BY <2>9 DEF DevPing, DevIgnore, DevAcked, DevStore, devVars, DevAckStates
    <3>. QED
      BY <2>1, <3>1, <3>2, OnceKept DEF hostVars, Unsent, OnceInv
  <2>10. CASE DevCommand
    BY <2>1, <2>10, OnceDevCommand
  <2>11. CASE DevExecute
    BY <2>1, <2>11, OnceDevExecute
  <2>12. CASE DevData \/ DevFinish
    BY <2>1, <2>12, OnceKept DEF DevData, DevFinish, hostVars, Unsent, OnceInv
  <2>13. CASE UNCHANGED vars
    BY <2>1, <2>13, OnceKept DEF vars, hostVars, devVars, Unsent, OnceInv
  <2>. QED
    BY <2>1, <2>2, <2>3, <2>4, <2>5, <2>6, <2>7, <2>8, <2>9, <2>10, <2>11, <2>12, <2>13
       DEF Next, HostStep, DevStep
<1>3. Spec => []TypeInv
  BY TypeInvariant
<1>. QED
  BY <1>1, <1>2, <1>3, PTL DEF Spec

\* AtMostOnce: nothing the host does after a timeout, and nothing the device
\* does late, makes it execute a command a second time.
THEOREM ExecutedAtMostOnce == Spec => []AtMostOnce
<1>1. OnceInv => AtMostOnce
  BY DEF OnceInv, AtMostOnce
<1>. QED
  BY <1>1, OnceInvariant, PTL

-----------------------------------------------------------------------------
(* Answers: the invariant.                                                 *)

Types(s) == [i \in 1 .. Len(s) |-> s[i].type]

\* The device waits for the host.
Quiet == {"idle", "recv"} \cup DevAckStates

\* What an abandoned call may leave unread, and what it may leave on the way
\* to the device.
Rests    == {<<>>, <<"ACK">>, <<"ABORT">>, <<"CMD">>, <<"DATA">>,
             <<"ACK", "CMD">>, <<"ABORT", "CMD">>}
Pendings == {<<>>, <<"ACK">>, <<"CMD">>, <<"DATA">>, <<"ACK", "DATA">>}

\* The device ends an abandoned call on its own, with t still to be read by it
\* and r by the host.
Leftover(t, r) ==
    \/ t = <<>> /\ r \in Rests /\ dst \in Quiet
    \/ t = <<>> /\ r \in {<<>>, <<"ACK">>, <<"ABORT">>} /\ dst \in {"exec", "finish"}
    \/ t = <<>> /\ r = <<>> /\ dst = "data"
    \/ t = <<"ACK">> /\ r = <<>> /\ dst \in DevAckStates
    \/ t = <<"CMD">> /\ r = <<>> /\ dst = "idle"
    \/ t = <<"DATA">> /\ r = <<>> /\ dst = "recv"
    \/ t = <<"ACK", "DATA">> /\ r = <<>> /\ dst = "respAck"
       /\ dkind = "write" /\ WriteLen > 0

\* Nothing is left of the last call but perhaps the ACK that ends it.
Clean ==
    /\ Types(rx) = <<>>
    /\ \/ Types(tx) = <<>> /\ dst = "idle"
       \/ Types(tx) = <<"ACK">> /\ dst = "endAck"

\* A ping nobody waits for.
Owed ==
    \/ Types(rx) = <<>> /\ Types(tx) = <<"PING">> /\ dst \in Quiet
    \/ Types(rx) = <<>> /\ Types(tx) = <<"ACK", "PING">> /\ dst = "endAck"
    \/ Types(rx) = <<"PINGR">> /\ Types(tx) = <<>> /\ dst = "idle"

\* A ping somebody waits for, behind one nobody waits for.
Twice ==
    \/ Types(rx) = <<>> /\ Types(tx) = <<"PING", "PING">> /\ dst \in Quiet
    \/ Types(rx) = <<>> /\ Types(tx) = <<"ACK", "PING", "PING">> /\ dst = "endAck"
    \/ Types(rx) = <<"PINGR">> /\ Types(tx) = <<"PING">> /\ dst = "idle"
    \/ Types(rx) = <<"PINGR", "PINGR">> /\ Types(tx) = <<>> /\ dst = "idle"

\* The first packets of a transfer, up to position p; and all of total bytes.
Transfer(s, p) ==
    /\ Len(s) * PacketSize = p
    /\ \A i \in 1 .. Len(s) : s[i] = Data(cur, (i - 1) * PacketSize)

\* The verdict of a call that ended with one.
Verdict ==
    /\ out = "broken" => faults = 1
    /\ out \in {"ok", "refused"} =>
         /\ Clean
         /\ cur \in Calls /\ execd[cur] > 0
         /\ out = "refused" <=> cur \in failed
    /\ out = "ok" =>
         /\ from = {cur}
         /\ kind = "read"  => got = Chunks(cur, ReadLen)
         /\ kind = "write" => stored = Chunks(cur, WriteLen)

Idle ==
    /\ pc = "idle"
    /\ \/ Clean
       \/ faults = 1 /\ (Leftover(Types(tx), Types(rx)) \/ Owed)
    /\ Verdict

Pinging ==
    /\ pc = "ping"
    /\ pos = 0 /\ got = <<>> /\ from = {}
    /\ \/ Types(rx) = <<>> /\ Types(tx) = <<"PING">> /\ dst = "idle"
       \/ Types(rx) = <<>> /\ Types(tx) = <<"ACK", "PING">> /\ dst = "endAck"
       \/ Types(rx) = <<"PINGR">> /\ Types(tx) = <<>> /\ dst = "idle"
       \/ /\ faults = 1
          /\ \/ \E t \in Pendings :
                  Types(tx) = Append(t, "PING") /\ Leftover(t, Types(rx))
             \/ \E r \in Rests :
                  Types(rx) = Append(r, "PINGR") /\ Types(tx) = <<>> /\ dst = "idle"
             \/ Twice

\* The answer the host took was the answer to an earlier ping.
Behind ==
    /\ pc = "ack" /\ faults = 1
    /\ \/ Types(rx) = <<>> /\ Types(tx) = <<"PING", "CMD">> /\ dst = "idle"
       \/ Types(rx) = <<"PINGR">> /\ Types(tx) = <<"CMD">> /\ dst = "idle"
       \/ Types(rx) = <<"PINGR", "ACK">> /\ Types(tx) = <<>> /\ dst = "exec"
       \/ Types(rx) = <<"PINGR", "ACK", "CMD">> /\ Types(tx) = <<>>
          /\ dst \in {"respAck", "endAck"}

\* Whose turn it is, wait by wait, once the ping of the call is answered.
Turn ==
    \/ /\ pc = "ack"
       /\ \/ Types(tx) = <<"CMD">> /\ Types(rx) = <<>> /\ dst = "idle"
          \/ Types(tx) = <<>> /\ Types(rx) = <<"ACK">> /\ dst = "exec"
          \/ Types(tx) = <<>> /\ Types(rx) = <<"ACK", "CMD">>
             /\ dst \in {"respAck", "endAck"}
    \/ /\ pc = "resp"
       /\ \/ Types(tx) = <<>> /\ Types(rx) = <<>> /\ dst = "exec"
          \/ Types(tx) = <<>> /\ Types(rx) = <<"CMD">> /\ dst \in {"respAck", "endAck"}
    \/ /\ pc = "rdata"
       /\ \/ Types(tx) = <<"ACK">> /\ Types(rx) = <<>> /\ dst \in {"respAck", "dataAck"}
          \/ Types(tx) = <<>> /\ Types(rx) = <<>> /\ dst = "data"
          \/ Types(tx) = <<>> /\ Types(rx) = <<"DATA">> /\ dst = "dataAck"
          \/ Types(tx) = <<>> /\ Types(rx) = <<"CMD">> /\ dst = "endAck"
    \/ /\ pc = "wsend"
       /\ \/ Types(tx) = <<"ACK">> /\ Types(rx) = <<>> /\ dst = "respAck"
          \/ Types(tx) = <<>> /\ Types(rx) = <<>> /\ dst = "recv"
    \/ /\ pc = "wack"
       /\ \/ Types(tx) = <<"ACK", "DATA">> /\ Types(rx) = <<>> /\ dst = "respAck"
          \/ Types(tx) = <<"DATA">> /\ Types(rx) = <<>> /\ dst = "recv"
          \/ Types(tx) = <<>> /\ Types(rx) = <<"ACK">> /\ dst \in {"recv", "finish"}
          \/ Types(tx) = <<>> /\ Types(rx) = <<"ACK", "CMD">> /\ dst = "endAck"
          \/ Types(tx) = <<>> /\ Types(rx) = <<"ABORT">> /\ dst = "finish"
          \/ Types(tx) = <<>> /\ Types(rx) = <<"ABORT", "CMD">> /\ dst = "endAck"
    \/ /\ pc = "final"
       /\ \/ Types(tx) = <<"ACK">> /\ Types(rx) = <<>> /\ dst \in {"respAck", "dataAck"}
          \/ Types(tx) = <<>> /\ Types(rx) = <<>> /\ dst = "finish"
          \/ Types(tx) = <<>> /\ Types(rx) = <<"CMD">> /\ dst = "endAck"

\* Everything on the way belongs to the current call.
Mine ==
    /\ \A i \in 1 .. Len(rx) : rx[i].id = cur
    /\ IF Types(tx) = <<"CMD">>
       THEN tx[1].id = cur /\ tx[1].arg = kind
       ELSE did = cur /\ dkind = kind
    /\ from = IF pc \in {"ack", "resp"} THEN {} ELSE {cur}

\* A response on the way is the device's last word on the call.
Word ==
    /\ \A i \in 1 .. Len(rx) :
         /\ rx[i].type = "CMD" =>
              rx[i].arg \in Status /\ (rx[i].arg = "error" <=> cur \in failed)
         /\ rx[i].type = "ABORT" => cur \in failed
    /\ cur \in failed => \/ \E i \in 1 .. Len(rx) : rx[i].type \in {"CMD", "ABORT"}
                         \/ pc = "final" /\ dst = "finish"
    /\ pc \in {"ack", "resp"} /\ dst \in {"respAck", "endAck"} =>
         (dst = "respAck" <=> cur \notin failed /\ kind # "cmd")

\* Both sides are at the same place of a transfer.
Reading ==
    /\ pc \in {"ack", "resp", "wsend", "wack"} => got = <<>>
    /\ pc \in {"ack", "resp"} => pos = 0
    /\ pc = "rdata" =>
         /\ kind = "read" /\ pos < ReadLen /\ Transfer(got, pos)
         /\ Types(rx) = <<>> => dpos = pos
         /\ Types(rx) = <<"DATA">> =>
              \/ rx[1] = Data(cur, pos) /\ dpos = pos + Chunk(ReadLen, pos)
              \/ rx[1] = Empty(cur) /\ dpos = pos
         /\ Types(rx) = <<"CMD">> => cur \in failed
    /\ pc = "final" /\ kind = "read" =>
         /\ got = Chunks(cur, ReadLen)
         /\ Types(tx) = <<"ACK">> => dpos = ReadLen

Writing ==
    /\ dst \in {"exec", "respAck"} => stored = <<>>
    /\ pc \in {"wsend", "wack"} => kind = "write" /\ pos < WriteLen
    /\ pc = "wsend" => Transfer(stored, pos) /\ dpos = pos
    /\ pc = "wack" /\ Types(tx) # <<>> =>
         Transfer(stored, pos) /\ dpos = pos /\ tx[Len(tx)] = Data(cur, pos)
    /\ pc = "wack" /\ Types(tx) = <<>> /\ dst = "recv" =>
         dpos = pos + PacketSize /\ dpos < WriteLen /\ Transfer(stored, dpos)
    /\ pc = "wack" /\ Types(rx) \in {<<"ACK">>, <<"ACK", "CMD">>} /\ dst # "recv" =>
         pos + PacketSize >= WriteLen /\ stored = Chunks(cur, WriteLen)
    /\ pc = "final" => kind # "cmd"
    /\ pc = "final" /\ kind = "write" =>
         /\ cur \notin failed => stored = Chunks(cur, WriteLen)
         /\ Types(tx) = <<"ACK">> => dst = "respAck" /\ WriteLen = 0

InStep == Turn /\ Mine /\ Word /\ Reading /\ Writing

LinkInv == faults <= 1 => Idle \/ Pinging \/ Behind \/ InStep

\* What the device failed, and what it is in the middle of, it executed.
FailInv ==
    /\ \A c \in failed : c \in Calls /\ execd[c] > 0
    /\ dst \in {"data", "recv", "finish"} \cup DevAckStates =>
         did \in Calls /\ execd[did] > 0

-----------------------------------------------------------------------------
(* Streams by the types of their frames.                                   *)

\* Short tuples, as Append builds them.
LEMMA AppendTuples ==
    /\ \A x : Append(<<>>, x) = <<x>>
    /\ \A x, y : Append(<<x>>, y) = <<x, y>>
    /\ \A x, y, z : Append(<<x, y>>, z) = <<x, y, z>>
<1>1. ASSUME NEW x PROVE Append(<<>>, x) = <<x>>
  OBVIOUS
<1>2. ASSUME NEW x, NEW y PROVE Append(<<x>>, y) = <<x, y>>
  <2> DEFINE S == {x, y}
  <2>1. /\ <<x>> \in Seq(S) /\ <<x, y>> \in Seq(S) /\ Len(<<x>>) = 1 /\ Len(<<x, y>>) = 2
        /\ <<x>>[1] = x /\ <<x, y>>[1] = x /\ <<x, y>>[2] = y
    OBVIOUS
  <2>2. /\ Append(<<x>>, y) \in Seq(S) /\ Len(Append(<<x>>, y)) = 2
        /\ Append(<<x>>, y)[1] = x /\ Append(<<x>>, y)[2] = y
    BY <2>1, AppendProperties
  <2>3. \A i \in 1 .. 2 : Append(<<x>>, y)[i] = <<x, y>>[i]
    BY <2>1, <2>2
  <2>. QED
    BY <2>1, <2>2, <2>3, SeqEqual
<1>3. ASSUME NEW x, NEW y, NEW z PROVE Append(<<x, y>>, z) = <<x, y, z>>
  <2> DEFINE S == {x, y, z}
  <2>1. <<x, y>> \in Seq(S) /\ <<x, y, z>> \in Seq(S)
        /\ Len(<<x, y>>) = 2 /\ Len(<<x, y, z>>) = 3
        /\ <<x, y>>[1] = x /\ <<x, y>>[2] = y
        /\ <<x, y, z>>[1] = x /\ <<x, y, z>>[2] = y /\ <<x, y, z>>[3] = z
    OBVIOUS
  <2>2. /\ Append(<<x, y>>, z) \in Seq(S) /\ Len(Append(<<x, y>>, z)) = 3
        /\ Append(<<x, y>>, z)[1] = x /\ Append(<<x, y>>, z)[2] = y
        /\ Append(<<x, y>>, z)[3] = z
    BY <2>1, AppendProperties
  <2>3. \A i \in 1 .. 3 : Append(<<x, y>>, z)[i] = <<x, y, z>>[i]
    BY <2>1, <2>2
  <2>. QED
    BY <2>1, <2>2, <2>3, SeqEqual
<1>. QED
  BY <1>1, <1>2, <1>3

\* The types of a stream are as many as its frames.
LEMMA TypesLen ==
    ASSUME NEW s \in Seq(Frame)
    PROVE  /\ Types(s) \in Seq(FPType) /\ Len(Types(s)) = Len(s)
           /\ \A i \in 1 .. Len(s) : Types(s)[i] = s[i].type
           /\ Types(s) = <<>> <=> s = <<>>
<1>1. Len(s) \in Nat /\ \A i \in 1 .. Len(s) : s[i].type \in FPType
  <2>1. \A f \in Frame : f.type \in FPType
    BY DEF Frame
  <2>. QED
    BY <2>1, LenProperties, ElementOfSeq
<1>2. Types(s) \in Seq(FPType) /\ Len(Types(s)) = Len(s)
  BY <1>1, IsASeq DEF Types
<1>. QED
  BY <1>1, <1>2 DEF Types

\* A frame at the end of a stream.
LEMMA TypesAppend ==
    ASSUME NEW s \in Seq(Frame), NEW f \in Frame
    PROVE  Types(Append(s, f)) = Append(Types(s), f.type)
<1> DEFINE t == Append(s, f)
<1>1. t \in Seq(Frame) /\ Len(t) = Len(s) + 1 /\ t[Len(s) + 1] = f
      /\ \A i \in 1 .. Len(s) : t[i] = s[i]
  BY AppendProperties
<1>2. f.type \in FPType
  BY DEF Frame
<1> HIDE DEF t
<1> DEFINE u == Append(Types(s), f.type)
<1>3. u \in Seq(FPType) /\ Len(u) = Len(s) + 1 /\ u[Len(s) + 1] = f.type
      /\ \A i \in 1 .. Len(s) : u[i] = Types(s)[i]
  BY <1>2, TypesLen, AppendProperties
<1> HIDE DEF u
<1>4. \A i \in 1 .. Len(t) : Types(t)[i] = u[i]
  BY <1>1, <1>3, TypesLen
<1>5. Types(t) = u
  BY <1>1, <1>3, <1>4, TypesLen, SeqEqual
<1>. QED
  BY <1>5 DEF t, u

\* A frame taken off a stream.
LEMMA TypesTail ==
    ASSUME NEW s \in Seq(Frame), s # <<>>
    PROVE  /\ Types(Tail(s)) = Tail(Types(s))
           /\ Types(s) # <<>> /\ Head(Types(s)) = Head(s).type
<1>1. Types(s) \in Seq(FPType) /\ Types(s) # <<>> /\ Len(Types(s)) = Len(s)
  BY TypesLen
<1>2. /\ Tail(s) \in Seq(Frame) /\ Len(Tail(s)) = Len(s) - 1
      /\ \A i \in 1 .. Len(s) - 1 : Tail(s)[i] = s[i + 1]
  OBVIOUS
<1>3. /\ Tail(Types(s)) \in Seq(FPType) /\ Len(Tail(Types(s))) = Len(s) - 1
      /\ \A i \in 1 .. Len(s) - 1 : Tail(Types(s))[i] = Types(s)[i + 1]
  BY <1>1
<1>4. \A i \in 1 .. Len(s) - 1 : Types(Tail(s))[i] = Tail(Types(s))[i]
  <2>1. Len(s) \in Nat
    BY LenProperties
  <2>2. \A i \in 1 .. Len(s) - 1 : i + 1 \in 1 .. Len(s)
    BY <2>1
  <2>3. \A i \in 1 .. Len(s) - 1 : Types(Tail(s))[i] = Tail(s)[i].type
    BY <1>2, TypesLen
  <2>. QED
    BY <1>2, <1>3, <2>2, <2>3, TypesLen
<1>5. Types(Tail(s)) = Tail(Types(s))
  BY <1>2, <1>3, <1>4, TypesLen, SeqEqual
<1>. QED
  BY <1>1, <1>5, TypesLen

\* What a step of either side does to the streams, by types.
LEMMA TakesTypes ==
    ASSUME TypeInv, NEW types, DevTakes(types)
    PROVE  /\ Types(tx)' = Tail(Types(tx)) /\ Types(tx) # <<>>
           /\ Head(Types(tx)) \in types
BY TypesTail DEF TypeInv, TypeOK, DevTakes

\* A frame the device sends joins the stream to the host with its type.
LEMMA SendsTypes ==
    ASSUME TypeInv, NEW f \in Frame, DevSends(f)
    PROVE  Types(rx)' = Append(Types(rx), f.type)
BY TypesAppend DEF TypeInv, TypeOK, DevSends

\* A frame the host reads leaves the stream to the host; its type is one that wait accepts.
LEMMA ReceivesTypes ==
    ASSUME TypeInv, NEW w \in Waits, Receives(w)
    PROVE  /\ Types(rx)' = Tail(Types(rx)) /\ Types(rx) # <<>>
           /\ Head(Types(rx)) \in Accepts[w]
BY TypesTail DEF TypeInv, TypeOK, Receives

-----------------------------------------------------------------------------
(* The device's steps preserve the invariant.                              *)

\* The answer to a ping joins the stream, and the device is idle.
LEMMA LinkDevPing ==
    ASSUME TypeInv, LinkInv, DevPing
    PROVE  LinkInv'
<1>1. /\ Types(tx)' = Tail(Types(tx)) /\ Types(tx) # <<>> /\ Head(Types(tx)) = "PING"
      /\ UNCHANGED hostVars /\ dst' = "idle" /\ UNCHANGED <<execd, failed, stored>>
      /\ dst \in Quiet
  BY TakesTypes DEF DevPing, Quiet
<1>2. Types(rx)' = Append(Types(rx), "PINGR")
  <2>1. Head(tx) \in Frame
    BY DEF TypeInv, TypeOK, DevPing, DevTakes
  <2>2. Signal("PINGR", Head(tx).id) \in Frame /\ Signal("PINGR", Head(tx).id).type = "PINGR"
    BY <2>1 DEF Signal, genPacket, Frame, FPType
  <2>. QED
    BY <2>2, SendsTypes DEF DevPing
<1>3. SUFFICES ASSUME faults <= 1
               PROVE  Idle' \/ Pinging' \/ Behind' \/ InStep'
  BY <1>1 DEF LinkInv, hostVars
<1>4. CASE Idle
  <2>1. ~Clean
    BY <1>1 DEF Clean
  <2>2. faults = 1 /\ Types(rx) = <<>> /\ Types(tx) = <<"PING">>
    BY <1>1, <1>4, <2>1 DEF Idle, Owed, Leftover
  <2>3. Types(rx)' = <<"PINGR">> /\ Types(tx)' = <<>>
    BY <1>1, <1>2, <2>2, AppendTuples
  <2>. QED
    BY <1>1, <1>4, <2>1, <2>2, <2>3 DEF Idle, Owed, Verdict, hostVars
<1>5. CASE Pinging
  <2>1. CASE Types(rx) = <<>> /\ Types(tx) = <<"PING">>
    <3>1. Types(rx)' = <<"PINGR">> /\ Types(tx)' = <<>>
      BY <1>1, <1>2, <2>1, AppendTuples
    <3>. QED
      BY <1>1, <1>5, <3>1 DEF Pinging, hostVars
  <2>2. CASE /\ faults = 1
             /\ \E t \in Pendings : Types(tx) = Append(t, "PING") /\ Leftover(t, Types(rx))
    <3>1. PICK t \in Pendings : Types(tx) = Append(t, "PING") /\ Leftover(t, Types(rx))
      BY <2>2
    <3>2. t = <<>>
      BY <1>1, <3>1, AppendTuples DEF Pendings
    <3>3. Types(tx) = <<"PING">> /\ Types(rx) \in Rests
      BY <3>1, <3>2, AppendTuples DEF Leftover, Rests
    <3>4. Types(tx)' = <<>>
      BY <1>1, <3>3
    <3>. QED
      BY <1>1, <1>2, <1>5, <2>2, <3>3, <3>4 DEF Pinging, hostVars
  <2>3. CASE /\ faults = 1
             /\ Types(rx) = <<>> /\ Types(tx) = <<"PING", "PING">>
    <3>1. Types(rx)' = <<"PINGR">> /\ Types(tx)' = <<"PING">>
      BY <1>1, <1>2, <2>3, AppendTuples
    <3>. QED
      BY <1>1, <1>5, <2>3, <3>1 DEF Pinging, Twice, hostVars
  <2>4. CASE /\ faults = 1
             /\ Types(rx) = <<"PINGR">> /\ Types(tx) = <<"PING">>
    <3>1. Types(rx)' = <<"PINGR", "PINGR">> /\ Types(tx)' = <<>>
      BY <1>1, <1>2, <2>4, AppendTuples
    <3>. QED
      BY <1>1, <1>5, <2>4, <3>1 DEF Pinging, Twice, hostVars
  <2>5. Twice => \/ Types(rx) = <<>> /\ Types(tx) = <<"PING", "PING">>
                 \/ Types(rx) = <<"PINGR">> /\ Types(tx) = <<"PING">>
    BY <1>1 DEF Twice
  <2>6. \/ Types(rx) = <<>> /\ Types(tx) = <<"PING">>
        \/ /\ faults = 1
           /\ \/ \E t \in Pendings : Types(tx) = Append(t, "PING") /\ Leftover(t, Types(rx))
              \/ Twice
    BY <1>1, <1>5 DEF Pinging
  <2>. QED
    BY <2>1, <2>2, <2>3, <2>4, <2>5, <2>6
<1>6. CASE Behind
  <2>1. Types(rx) = <<>> /\ Types(tx) = <<"PING", "CMD">>
    BY <1>1, <1>6 DEF Behind
  <2>2. Types(rx)' = <<"PINGR">> /\ Types(tx)' = <<"CMD">>
    BY <1>1, <1>2, <2>1, AppendTuples
  <2>. QED
    BY <1>1, <1>6, <2>2 DEF Behind, hostVars
<1>7. CASE InStep
  BY <1>1, <1>7 DEF InStep, Turn
<1>. QED
  BY <1>3, <1>4, <1>5, <1>6, <1>7 DEF LinkInv

\* The other steps of the device, by types.
LEMMA DevFrames ==
    ASSUME TypeInv
    PROVE  /\ \A t \in {"ACK", "ABORT"} : Signal(t, did) \in Frame /\ Signal(t, did).type = t
           /\ Ack(did) \in Frame /\ Ack(did).type = "ACK"
           /\ Data(did, dpos) \in Frame /\ Data(did, dpos).type = "DATA"
           /\ Empty(did) \in Frame /\ Empty(did).type = "DATA"
           /\ \A st \in Status : Resp(did, st) \in Frame /\ Resp(did, st).type = "CMD"
BY SizesAssumption
   DEF Empty, TypeInv, TypeOK, Ack, Signal, Data, Resp, genPacket, Frame, FPType

\* An idle device acknowledges the command and goes on to execute it.
LEMMA TypesDevCommand ==
    ASSUME TypeInv, DevCommand
    PROVE  /\ dst = "idle" /\ Types(tx) # <<>> /\ Head(Types(tx)) = "CMD"
           /\ Types(tx)' = Tail(Types(tx)) /\ Types(rx)' = Append(Types(rx), "ACK")
           /\ dst' = "exec"
<1>1. Head(tx) \in Frame
  BY DEF TypeInv, TypeOK, DevCommand, DevTakes
<1>2. Ack(Head(tx).id) \in Frame /\ Ack(Head(tx).id).type = "ACK"
  BY <1>1 DEF Ack, Signal, genPacket, Frame, FPType
<1>3. Types(rx)' = Append(Types(rx), "ACK")
  BY <1>2, SendsTypes DEF DevCommand
<1>. QED
  BY <1>3, TakesTypes DEF DevCommand

\* What the device throws away is of a type its state does not wait for.
LEMMA TypesDevIgnore ==
    ASSUME TypeInv, DevIgnore
    PROVE  /\ Types(tx) # <<>>
           /\ \/ dst = "idle" /\ Head(Types(tx)) \in {"ACK", "DATA"}
              \/ dst = "recv" /\ Head(Types(tx)) \in {"ACK", "CMD"}
              \/ dst \in DevAckStates /\ Head(Types(tx)) \in {"CMD", "DATA"}
BY TakesTypes DEF DevIgnore

\* The device responds to the command and waits for the ACK of the response.
LEMMA TypesDevExecute ==
    ASSUME TypeInv, DevExecute
    PROVE  /\ dst = "exec" /\ dst' \in {"respAck", "endAck"}
           /\ Types(tx)' = Types(tx) /\ Types(rx)' = Append(Types(rx), "CMD")
<1>1. PICK st \in Status : DevSends(Resp(did, st)) /\ dst' \in {"respAck", "endAck"}
  BY DEF DevExecute
<1>. QED
  BY <1>1, DevFrames, SendsTypes DEF DevExecute

\* The device takes an ACK where it waits for one.
LEMMA TypesDevAcked ==
    ASSUME TypeInv, DevAcked
    PROVE  /\ dst \in DevAckStates /\ Types(tx) # <<>> /\ Head(Types(tx)) = "ACK"
           /\ Types(tx)' = Tail(Types(tx)) /\ Types(rx)' = Types(rx)
           /\ dst' \in {"idle", "recv", "data", "finish"}
BY TakesTypes DEF DevAcked

\* A device that sends data sends a data frame, which may be empty, or ends
\* with an error response.
LEMMA TypesDevData ==
    ASSUME TypeInv, DevData
    PROVE  /\ dst = "data" /\ Types(tx)' = Types(tx)
           /\ \/ Types(rx)' = Append(Types(rx), "DATA") /\ dst' = "dataAck"
              \/ Types(rx)' = Append(Types(rx), "CMD") /\ dst' = "endAck"
<1>1. dst = "data" /\ tx' = tx
  BY DEF DevData
<1>2. CASE (DevSends(Data(did, dpos)) \/ DevSends(Empty(did))) /\ dst' = "dataAck"
  BY <1>1, <1>2, DevFrames, SendsTypes
<1>3. CASE DevSends(Resp(did, "error")) /\ dst' = "endAck"
  BY <1>1, <1>3, DevFrames, SendsTypes DEF Status
<1>. QED
  BY <1>2, <1>3 DEF DevData

\* A device that receives data acknowledges a data frame or aborts.
LEMMA TypesDevStore ==
    ASSUME TypeInv, DevStore
    PROVE  /\ dst = "recv" /\ Types(tx) # <<>> /\ Head(Types(tx)) = "DATA"
           /\ Types(tx)' = Tail(Types(tx))
           /\ \/ Types(rx)' = Append(Types(rx), "ACK") /\ dst' \in {"recv", "finish"}
              \/ Types(rx)' = Append(Types(rx), "ABORT") /\ dst' = "finish"
<1>1. /\ dst = "recv" /\ Types(tx) # <<>> /\ Head(Types(tx)) = "DATA"
      /\ Types(tx)' = Tail(Types(tx))
  BY TakesTypes DEF DevStore
<1>2. CASE DevSends(Ack(did)) /\ dst' \in {"recv", "finish"}
  BY <1>1, <1>2, DevFrames, SendsTypes
<1>3. CASE DevSends(Signal("ABORT", did)) /\ dst' = "finish"
  BY <1>1, <1>3, DevFrames, SendsTypes
<1>. QED
  BY <1>2, <1>3 DEF DevStore

\* The device ends a data phase with its final response.
LEMMA TypesDevFinish ==
    ASSUME TypeInv, DevFinish
    PROVE  /\ dst = "finish" /\ dst' = "endAck"
           /\ Types(tx)' = Types(tx) /\ Types(rx)' = Append(Types(rx), "CMD")
<1>1. PICK st \in Status : DevSends(Resp(did, st))
  BY DEF DevFinish
<1>. QED
  BY <1>1, DevFrames, SendsTypes DEF DevFinish

\* The device's steps but for an answer to a ping.
DevOther == \/ DevCommand \/ DevIgnore \/ DevExecute
            \/ DevAcked \/ DevData \/ DevStore \/ DevFinish

\* An abandoned call, with the next call's ping behind it or not, stays one.
LEMMA LinkDevLeftover ==
    ASSUME TypeInv, DevOther, NEW t \in Pendings, Leftover(t, Types(rx)),
           Types(tx) = t \/ Types(tx) = Append(t, "PING")
    PROVE  \E u \in Pendings :
              /\ Leftover(u, Types(rx))'
              /\ Types(tx) = t => Types(tx)' = u
              /\ Types(tx) = Append(t, "PING") => Types(tx)' = Append(u, "PING")
<1>1. /\ t = <<>> => Append(t, "PING") = <<"PING">>
      /\ t = <<"ACK">> => Append(t, "PING") = <<"ACK", "PING">>
      /\ t = <<"CMD">> => Append(t, "PING") = <<"CMD", "PING">>
      /\ t = <<"DATA">> => Append(t, "PING") = <<"DATA", "PING">>
      /\ t = <<"ACK", "DATA">> => Append(t, "PING") = <<"ACK", "DATA", "PING">>
      /\ Append(<<"DATA">>, "PING") = <<"DATA", "PING">>
      /\ Append(<<>>, "PING") = <<"PING">>
  BY AppendTuples
<1>2. CASE DevCommand
  <2>1. t = <<"CMD">> /\ Types(rx) = <<>>
    BY <1>1, <1>2, TypesDevCommand DEF Leftover, DevAckStates
  <2>2. Types(rx)' = <<"ACK">> /\ dst' = "exec"
    BY <1>2, <2>1, TypesDevCommand, AppendTuples
  <2>3. Leftover(<<>>, Types(rx))'
    BY <2>2 DEF Leftover
  <2>4. /\ Types(tx) = t => Types(tx)' = <<>>
        /\ Types(tx) = Append(t, "PING") => Types(tx)' = <<"PING">>
    <3>1. Types(tx) = Append(t, "PING") => Types(tx) = <<"CMD", "PING">>
      BY <1>1, <2>1
    <3>2. Types(tx)' = Tail(Types(tx))
      BY <1>2, TypesDevCommand
    <3>3. ASSUME Types(tx) = t PROVE Types(tx)' = <<>>
      BY <2>1, <3>2, <3>3
    <3>4. ASSUME Types(tx) = Append(t, "PING") PROVE Types(tx)' = <<"PING">>
      <4>1. Types(tx) = <<"CMD", "PING">>
        BY <3>1, <3>4
      <4>. QED
        BY <3>2, <4>1
    <3>. QED
      BY <3>3, <3>4
  <2>. QED
    BY <1>1, <2>3, <2>4 DEF Pendings
<1>3. CASE DevIgnore
  BY <1>1, <1>3, TypesDevIgnore DEF Leftover, DevAckStates, Quiet
<1>4. CASE DevExecute \/ DevFinish
  <2>1. t = <<>> /\ Types(rx) \in {<<>>, <<"ACK">>, <<"ABORT">>}
    BY <1>4, TypesDevExecute, TypesDevFinish DEF Leftover, DevAckStates, Quiet
  <2>2. Types(rx)' \in {<<"CMD">>, <<"ACK", "CMD">>, <<"ABORT", "CMD">>}
    BY <1>4, <2>1, TypesDevExecute, TypesDevFinish, AppendTuples
  <2>3. dst' \in Quiet /\ Types(tx)' = Types(tx)
    BY <1>4, TypesDevExecute, TypesDevFinish DEF Quiet, DevAckStates
  <2>4. Leftover(<<>>, Types(rx))'
    BY <2>2, <2>3 DEF Leftover, Rests
  <2>. QED
    BY <2>1, <2>3, <2>4
<1>5. CASE DevAcked
  <2>1. Types(rx) = <<>> /\ Types(rx)' = <<>> /\ t \in {<<"ACK">>, <<"ACK", "DATA">>}
    BY <1>1, <1>5, TypesDevAcked DEF Leftover, DevAckStates, Pendings
  <2>2. CASE t = <<"ACK">>
    <3>1. Leftover(<<>>, Types(rx))'
      BY <1>5, <2>1, TypesDevAcked DEF Leftover, Rests, Quiet
    <3>2. /\ Types(tx) = t => Types(tx)' = <<>>
          /\ Types(tx) = Append(t, "PING") => Types(tx)' = <<"PING">>
      BY <1>1, <1>5, <2>2, TypesDevAcked
    <3>. QED
      BY <1>1, <3>1, <3>2 DEF Pendings
  <2>3. CASE t = <<"ACK", "DATA">>
    <3>1. dst = "respAck" /\ dkind = "write" /\ WriteLen > 0
      BY <2>3 DEF Leftover
    <3>2. dst' = "recv"
      BY <1>5, <3>1 DEF DevAcked
    <3>3. Leftover(<<"DATA">>, Types(rx))'
      BY <2>1, <3>2 DEF Leftover
    <3>4. /\ Types(tx) = t => Types(tx)' = <<"DATA">>
          /\ Types(tx) = Append(t, "PING") => Types(tx)' = <<"DATA", "PING">>
      <4>1. Types(tx) = Append(t, "PING") => Types(tx) = <<"ACK", "DATA", "PING">>
        BY <1>1, <2>3
      <4>2. Types(tx)' = Tail(Types(tx))
        BY <1>5, TypesDevAcked
      <4>3. ASSUME Types(tx) = t PROVE Types(tx)' = <<"DATA">>
        BY <2>3, <4>2, <4>3
      <4>4. ASSUME Types(tx) = Append(t, "PING") PROVE Types(tx)' = <<"DATA", "PING">>
        <5>1. Types(tx) = <<"ACK", "DATA", "PING">>
          BY <4>1, <4>4
        <5>. QED
          BY <4>2, <5>1
      <4>. QED
        BY <4>3, <4>4
    <3>. QED
      BY <1>1, <3>3, <3>4 DEF Pendings
  <2>. QED
    BY <2>1, <2>2, <2>3
<1>6. CASE DevData
  <2>1. t = <<>> /\ Types(rx) = <<>>
    BY <1>6, TypesDevData DEF Leftover, DevAckStates, Quiet
  <2>2. Types(rx)' \in {<<"DATA">>, <<"CMD">>}
    BY <1>6, <2>1, TypesDevData, AppendTuples
  <2>3. dst' \in Quiet /\ Types(tx)' = Types(tx)
    BY <1>6, TypesDevData DEF Quiet, DevAckStates
  <2>4. Leftover(<<>>, Types(rx))'
    BY <2>2, <2>3 DEF Leftover, Rests
  <2>. QED
    BY <2>1, <2>3, <2>4
<1>7. CASE DevStore
  <2>1. t = <<"DATA">> /\ Types(rx) = <<>>
    BY <1>1, <1>7, TypesDevStore DEF Leftover, DevAckStates
  <2>2. \/ Types(rx)' = <<"ACK">> /\ dst' \in {"recv", "finish"}
        \/ Types(rx)' = <<"ABORT">> /\ dst' = "finish"
    BY <1>7, <2>1, TypesDevStore, AppendTuples
  <2>3. Leftover(<<>>, Types(rx))'
    BY <2>2 DEF Leftover, Rests, Quiet
  <2>4. /\ Types(tx) = t => Types(tx)' = <<>>
        /\ Types(tx) = Append(t, "PING") => Types(tx)' = <<"PING">>
    BY <1>1, <1>7, <2>1, TypesDevStore
  <2>. QED
    BY <1>1, <2>3, <2>4 DEF Pendings
<1>. QED
  BY <1>2, <1>3, <1>4, <1>5, <1>6, <1>7 DEF DevOther

\* A device that waits takes nothing but a ping from a stream without more.
LEMMA DevWaits ==
    ASSUME TypeInv, dst \in Quiet, Types(tx) = <<>> \/ Head(Types(tx)) = "PING"
    PROVE  ~DevOther
<1>1. ~DevCommand /\ ~DevIgnore /\ ~DevAcked /\ ~DevStore
  BY TypesDevCommand, TypesDevIgnore, TypesDevAcked, TypesDevStore
<1>2. ~DevExecute /\ ~DevData /\ ~DevFinish
  BY TypesDevExecute, TypesDevData, TypesDevFinish DEF Quiet, DevAckStates
<1>. QED
  BY <1>1, <1>2 DEF DevOther

\* The ACK of the last response ends a command.
LEMMA DevEnds ==
    ASSUME TypeInv, DevOther, dst = "endAck", Head(Types(tx)) = "ACK"
    PROVE  /\ dst' = "idle" /\ UNCHANGED hostVars
           /\ Types(tx)' = Tail(Types(tx)) /\ Types(rx)' = Types(rx)
           /\ UNCHANGED <<did, dkind, dpos, stored, execd, failed>>
<1>1. ~DevCommand /\ ~DevIgnore /\ ~DevStore
  BY TypesDevCommand, TypesDevIgnore, TypesDevStore
<1>2. ~DevExecute /\ ~DevData /\ ~DevFinish
  BY TypesDevExecute, TypesDevData, TypesDevFinish
<1>3. DevAcked
  BY <1>1, <1>2 DEF DevOther
<1>. QED
  BY <1>3, TypesDevAcked DEF DevAcked

\* No step of the device moves the host.
LEMMA DevHost == DevOther => UNCHANGED hostVars
BY DEF DevOther, DevCommand, DevIgnore, DevExecute, DevAcked, DevData, DevStore, DevFinish

\* Between two calls the device can only finish what the last one left behind.
LEMMA LinkDevIdle ==
    ASSUME TypeInv, DevOther, Idle
    PROVE  Idle'
<1>1. UNCHANGED hostVars
  BY DevHost
<1>2. CASE Clean
  <2>1. Types(rx) = <<>> /\ Types(tx) = <<"ACK">> /\ dst = "endAck"
    BY <1>2, DevWaits DEF Clean, Quiet
  <2>2. /\ Types(rx)' = <<>> /\ Types(tx)' = <<>> /\ dst' = "idle"
        /\ UNCHANGED <<stored, execd, failed>>
    BY <2>1, DevEnds
  <2>3. Clean'
    BY <2>2 DEF Clean
  <2>4. Verdict'
    BY <1>1, <2>2, <2>3 DEF Idle, Verdict, hostVars, Chunks
  <2>. QED
    BY <1>1, <2>3, <2>4 DEF Idle, hostVars
<1>3. CASE ~Clean
  <2>1. faults = 1 /\ out \notin {"ok", "refused"}
    BY <1>3 DEF Idle, Verdict
  <2>2. Verdict'
    BY <1>1, <2>1 DEF Verdict, hostVars
  <2>3. CASE Leftover(Types(tx), Types(rx))
    <3>1. Types(tx) \in Pendings
      BY <2>3 DEF Leftover, Pendings
    <3>2. Leftover(Types(tx), Types(rx))'
      BY <2>3, <3>1, LinkDevLeftover
    <3>. QED
      BY <1>1, <2>1, <2>2, <3>2 DEF Idle, hostVars
  <2>4. CASE Owed
    <3>1. Types(rx) = <<>> /\ Types(tx) = <<"ACK", "PING">> /\ dst = "endAck"
      BY <2>4, DevWaits DEF Owed, Quiet
    <3>2. Types(rx)' = <<>> /\ Types(tx)' = <<"PING">> /\ dst' = "idle"
      BY <3>1, DevEnds
    <3>3. Owed'
      BY <3>2 DEF Owed, Quiet
    <3>. QED
      BY <1>1, <2>1, <2>2, <3>3 DEF Idle, hostVars
  <2>. QED
    BY <1>3, <2>3, <2>4 DEF Idle
<1>. QED
  BY <1>2, <1>3

\* While the host waits for the answer to a ping the device comes to that ping
\* after what an earlier call left behind, if anything.
LEMMA LinkDevPinging ==
    ASSUME TypeInv, DevOther, Pinging
    PROVE  Pinging'
<1>1. UNCHANGED hostVars
  BY DevHost
<1>2. CASE Types(rx) = <<>> /\ Types(tx) = <<"ACK", "PING">> /\ dst = "endAck"
  <2>1. Types(rx)' = <<>> /\ Types(tx)' = <<"PING">> /\ dst' = "idle"
    BY <1>2, DevEnds
  <2>. QED
    BY <1>1, <2>1 DEF Pinging, hostVars
<1>3. ASSUME faults = 1, NEW t \in Pendings,
             Types(tx) = Append(t, "PING"), Leftover(t, Types(rx))
      PROVE  Pinging'
  <2>1. \E u \in Pendings : Types(tx)' = Append(u, "PING") /\ Leftover(u, Types(rx))'
    BY <1>3, LinkDevLeftover
  <2>. QED
    BY <1>1, <1>3, <2>1 DEF Pinging, hostVars
<1>4. CASE faults = 1 /\ Twice
  <2>1. Types(rx) = <<>> /\ Types(tx) = <<"ACK", "PING", "PING">> /\ dst = "endAck"
    BY <1>4, DevWaits DEF Twice, Quiet
  <2>2. Types(rx)' = <<>> /\ Types(tx)' = <<"PING", "PING">> /\ dst' = "idle"
    BY <2>1, DevEnds
  <2>3. Twice'
    BY <2>2 DEF Twice, Quiet
  <2>. QED
    BY <1>1, <1>4, <2>3 DEF Pinging, hostVars
<1>5. ~(dst = "idle" /\ Types(tx) \in {<<>>, <<"PING">>})
  BY DevWaits DEF Quiet
<1>. QED
  BY <1>2, <1>3, <1>4, <1>5 DEF Pinging

\* A late answer to a ping stays ahead of all the device says to the command.
LEMMA LinkDevBehind ==
    ASSUME TypeInv, DevOther, Behind
    PROVE  Behind'
<1>1. UNCHANGED hostVars
  BY DevHost
<1>2. CASE Types(rx) = <<"PINGR">> /\ Types(tx) = <<"CMD">> /\ dst = "idle"
  <2>1. DevCommand
    BY <1>2, TypesDevIgnore, TypesDevExecute, TypesDevAcked, TypesDevData,
       TypesDevStore, TypesDevFinish DEF DevOther, DevAckStates
  <2>2. Types(rx)' = <<"PINGR", "ACK">> /\ Types(tx)' = <<>> /\ dst' = "exec"
    BY <1>2, <2>1, TypesDevCommand, AppendTuples
  <2>. QED
    BY <1>1, <2>2 DEF Behind, hostVars
<1>3. CASE Types(rx) = <<"PINGR", "ACK">> /\ Types(tx) = <<>> /\ dst = "exec"
  <2>1. DevExecute
    BY <1>3, TypesDevCommand, TypesDevIgnore, TypesDevAcked, TypesDevData,
       TypesDevStore, TypesDevFinish DEF DevOther, DevAckStates
  <2>2. /\ Types(rx)' = <<"PINGR", "ACK", "CMD">> /\ Types(tx)' = <<>>
        /\ dst' \in {"respAck", "endAck"}
    BY <1>3, <2>1, TypesDevExecute, AppendTuples
  <2>. QED
    BY <1>1, <2>2 DEF Behind, hostVars
<1>4. ~(dst = "idle" /\ Types(tx) = <<"PING", "CMD">>)
  BY DevWaits DEF Quiet
<1>5. ~(dst \in {"respAck", "endAck"} /\ Types(tx) = <<>>)
  BY DevWaits DEF Quiet, DevAckStates
<1>. QED
  BY <1>2, <1>3, <1>4, <1>5 DEF Behind

\* What the host has to read once the device has sent f.
LEMMA SendsFrames ==
    ASSUME TypeInv, NEW f \in Frame, DevSends(f)
    PROVE  /\ \A i \in 1 .. Len(rx)' :
                 rx'[i] = f \/ (i \in 1 .. Len(rx) /\ rx'[i] = rx[i])
           /\ \E i \in 1 .. Len(rx)' : rx'[i] = f
           /\ rx = <<>> => rx'[1] = f
<1>1. rx \in Seq(Frame) /\ Len(rx) \in Nat /\ rx' = Append(rx, f)
  BY LenProperties DEF TypeInv, TypeOK, DevSends
<1>2. /\ Len(rx') = Len(rx) + 1 /\ rx'[Len(rx) + 1] = f
      /\ \A i \in 1 .. Len(rx) : rx'[i] = rx[i]
  BY <1>1, AppendProperties
<1>. QED
  BY <1>1, <1>2

\* Streams known by their types.
LEMMA EmptyTypes ==
    ASSUME TypeInv
    PROVE  /\ Types(rx) = <<>> => rx = <<>> /\ 1 .. Len(rx) = {}
           /\ Types(tx) = <<>> => tx = <<>>
           /\ Len(rx) \in Nat /\ Len(Types(rx)) = Len(rx)
           /\ Len(tx) \in Nat /\ Len(Types(tx)) = Len(tx)
           /\ \A i \in 1 .. Len(rx) : Types(rx)[i] = rx[i].type
BY TypesLen, LenProperties DEF TypeInv, TypeOK

\* In step: the device takes the command of this call, and acknowledges it.
LEMMA InStepDevCommand ==
    ASSUME TypeInv, InStep, DevCommand
    PROVE  InStep'
<1>1. /\ pc = "ack" /\ Types(tx) = <<"CMD">> /\ Types(rx) = <<>> /\ dst = "idle"
      /\ rx = <<>> /\ cur \notin failed
  BY TypesDevCommand, EmptyTypes DEF InStep, Turn, Word, DevAckStates
<1>2. /\ Types(tx)' = <<>> /\ Types(rx)' = <<"ACK">> /\ dst' = "exec"
      /\ UNCHANGED hostVars /\ UNCHANGED <<execd, failed>> /\ stored' = <<>>
  BY <1>1, TypesDevCommand, AppendTuples DEF DevCommand
<1>3. did' = cur /\ dkind' = kind /\ DevSends(Ack(cur))
  <2>1. Head(tx) = tx[1] /\ tx[1].id = cur /\ tx[1].arg = kind
    BY <1>1 DEF InStep, Mine
  <2>. QED
    BY <2>1 DEF DevCommand
<1>4. Ack(cur) \in Frame /\ Ack(cur).id = cur /\ Ack(cur).type = "ACK"
  BY DEF TypeInv, TypeOK, Ack, Signal, genPacket, Frame, FPType
<1>5. \A i \in 1 .. Len(rx') : rx'[i] = Ack(cur)
  BY <1>1, <1>3, <1>4, SendsFrames, EmptyTypes
<1>6. Turn'
  BY <1>1, <1>2 DEF Turn, hostVars
<1>7. Mine'
  BY <1>1, <1>2, <1>3, <1>4, <1>5 DEF Mine, InStep, hostVars
<1>8. Word'
  BY <1>1, <1>2, <1>4, <1>5 DEF Word, hostVars
<1>9. Reading' /\ Writing'
  BY <1>1, <1>2 DEF Reading, Writing, InStep, hostVars
<1>. QED
  BY <1>6, <1>7, <1>8, <1>9 DEF InStep

\* In step: the device throws nothing away.
LEMMA InStepDevIgnore ==
    ASSUME TypeInv, InStep
    PROVE  ~DevIgnore
BY TypesDevIgnore DEF InStep, Turn, DevAckStates

\* The response to a command, before a data phase or without one.
LEMMA InStepDevExecute ==
    ASSUME TypeInv, InStep, DevExecute
    PROVE  InStep'
<1>1. /\ \/ pc = "ack" /\ Types(rx) = <<"ACK">>
         \/ pc = "resp" /\ Types(rx) = <<>>
      /\ Types(tx) = <<>> /\ dst = "exec" /\ did = cur /\ dkind = kind /\ stored = <<>>
  BY TypesDevExecute DEF InStep, Turn, Mine, Writing
<1>2. \A i \in 1 .. Len(rx) : rx[i].type = "ACK" /\ rx[i].id = cur
  BY <1>1, EmptyTypes DEF InStep, Mine
<1>3. cur \notin failed
  BY <1>1, <1>2 DEF InStep, Word
<1>4. PICK st \in Status :
         /\ DevSends(Resp(cur, st))
         /\ failed' = IF st = "error" THEN failed \cup {cur} ELSE failed
         /\ dst' = IF st = "success" /\ kind # "cmd" THEN "respAck" ELSE "endAck"
  BY <1>1 DEF DevExecute
<1>5. /\ Resp(cur, st) \in Frame /\ Resp(cur, st).type = "CMD"
      /\ Resp(cur, st).id = cur /\ Resp(cur, st).arg = st
  BY DEF TypeInv, TypeOK, Resp, genPacket, Frame, FPType
<1>6. /\ Types(tx)' = <<>> /\ UNCHANGED hostVars /\ UNCHANGED <<did, dkind, dpos, stored>>
      /\ pc = "ack" => Types(rx)' = <<"ACK", "CMD">>
      /\ pc = "resp" => Types(rx)' = <<"CMD">>
  BY <1>1, TypesDevExecute, AppendTuples DEF DevExecute
<1>7. /\ \A i \in 1 .. Len(rx)' :
            rx'[i] = Resp(cur, st) \/ (i \in 1 .. Len(rx) /\ rx'[i] = rx[i])
      /\ \E i \in 1 .. Len(rx)' : rx'[i] = Resp(cur, st)
  BY <1>4, <1>5, SendsFrames
<1>8. Turn'
  BY <1>1, <1>4, <1>6 DEF Turn, hostVars
<1>9. Mine'
  BY <1>1, <1>2, <1>5, <1>6, <1>7 DEF Mine, InStep, hostVars
<1>10. cur \in failed' <=> st = "error"
  BY <1>3, <1>4
<1>11. Word'
  BY <1>1, <1>2, <1>4, <1>5, <1>6, <1>7, <1>10 DEF Word, hostVars, Status
<1>12. Reading' /\ Writing'
  BY <1>1, <1>6 DEF Reading, Writing, InStep, hostVars
<1>. QED
  BY <1>8, <1>9, <1>11, <1>12 DEF InStep

\* The ACK of a response or of data lets the device go on with a data phase.
LEMMA InStepDevAcked ==
    ASSUME TypeInv, InStep, DevAcked
    PROVE  InStep'
<1>1. /\ Types(rx) = <<>> /\ rx = <<>> /\ did = cur /\ dkind = kind
      /\ \/ pc = "rdata" /\ Types(tx) = <<"ACK">> /\ dst \in {"respAck", "dataAck"}
         \/ pc = "wsend" /\ Types(tx) = <<"ACK">> /\ dst = "respAck"
         \/ pc = "wack" /\ Types(tx) = <<"ACK", "DATA">> /\ dst = "respAck"
         \/ pc = "final" /\ Types(tx) = <<"ACK">> /\ dst \in {"respAck", "dataAck"}
  BY TypesDevAcked, EmptyTypes DEF InStep, Turn, Mine, DevAckStates
<1>2. /\ Types(tx)' = Tail(Types(tx)) /\ Types(rx)' = <<>> /\ rx' = rx
      /\ UNCHANGED hostVars /\ UNCHANGED <<did, dkind, dpos, stored, failed, execd>>
  BY <1>1, TypesDevAcked DEF DevAcked
<1>3. cur \notin failed
  BY <1>1 DEF InStep, Word
<1>4. Mine' /\ Word' /\ Reading'
  <2>0. Types(tx)' # <<"CMD">>
    <3>1. Types(tx) = <<"ACK">> => Types(tx)' = <<>>
      BY <1>2
    <3>2. Types(tx) = <<"ACK", "DATA">> => Types(tx)' = <<"DATA">>
      BY <1>2
    <3>. QED
      BY <1>1, <3>1, <3>2
  <2>1. Mine'
    <3>1. from = {cur}
      BY <1>1 DEF InStep, Mine
    <3>. QED
      BY <1>1, <1>2, <2>0, <3>1 DEF Mine, hostVars
  <2>2. Word'
    BY <1>1, <1>2, <1>3 DEF Word, hostVars
  <2>3. Reading'
    BY <1>1, <1>2 DEF InStep, Reading, Transfer, hostVars
  <2>. QED
    BY <2>1, <2>2, <2>3
<1>5. CASE pc = "rdata"
  <2>1. kind = "read" /\ dpos = pos /\ pos < ReadLen
    BY <1>1, <1>5 DEF InStep, Reading
  <2>2. dst' = "data"
    BY <1>1, <2>1 DEF DevAcked
  <2>3. Types(tx)' = <<>>
    BY <1>1, <1>2, <1>5
  <2>4. Turn'
    BY <1>2, <1>5, <2>2, <2>3 DEF Turn, hostVars
  <2>5. Writing'
    BY <1>2, <1>5, <2>2 DEF Writing, hostVars
  <2>. QED
    BY <1>4, <2>4, <2>5 DEF InStep
<1>6. CASE pc \in {"wsend", "wack"}
  <2>0. pos \in Nat
    BY DEF TypeInv, TypeOK
  <2>1. kind = "write" /\ dpos = pos /\ pos < WriteLen /\ Transfer(stored, pos)
    BY <1>1, <1>6 DEF InStep, Writing
  <2>2. dst' = "recv"
    BY <1>1, <1>6, <2>0, <2>1, SizesAssumption DEF DevAcked
  <2>3. Transfer(stored, pos)'
    BY <1>2, <2>1 DEF Transfer, hostVars
  <2>4. CASE pc = "wsend"
    <3>1. Types(tx)' = <<>>
      BY <1>1, <1>2, <2>4
    <3>2. Turn'
      BY <1>2, <2>2, <2>4, <3>1 DEF Turn, hostVars
    <3>3. Writing'
      BY <1>2, <2>1, <2>2, <2>3, <2>4 DEF Writing, hostVars
    <3>. QED
      BY <1>4, <3>2, <3>3 DEF InStep
  <2>5. CASE pc = "wack"
    <3>1. Types(tx) = <<"ACK", "DATA">> /\ Len(tx) = 2
      BY <1>1, <2>5, EmptyTypes
    <3>2. Types(tx)' = <<"DATA">>
      BY <1>2, <3>1
    <3>3. tx' = Tail(tx) /\ tx \in Seq(Frame)
      BY DEF DevAcked, DevTakes, TypeInv, TypeOK
    <3>4. tx'[Len(tx')] = Data(cur, pos)
      <4>1. tx[2] = Data(cur, pos)
        BY <2>5, <3>1 DEF InStep, Writing
      <4>2. Len(tx') = 1 /\ tx'[1] = tx[2]
        <5>1. tx # <<>>
          <6>1. Len(<<>>) # 2
            OBVIOUS
          <6>. QED
            BY ONLY <3>1, <6>1
        <5>2. Len(tx') = Len(tx) - 1 /\ \A i \in 1 .. Len(tx') : tx'[i] = tx[i + 1]
          BY <3>3, <5>1, HeadTailProperties
        <5>3. Len(tx') = 1 /\ tx'[1] = tx[1 + 1]
          BY <3>1, <5>2
        <5>. QED
          BY <5>3
      <4>. QED
        BY <4>1, <4>2
    <3>5. Turn'
      BY <1>2, <2>2, <2>5, <3>2 DEF Turn, hostVars
    <3>6. Writing'
      <4>1. /\ pc' = "wack" /\ kind' = "write" /\ pos' < WriteLen /\ dpos' = pos'
            /\ dst' = "recv" /\ cur' = cur /\ pos' = pos
        BY <1>2, <2>1, <2>2, <2>5 DEF hostVars
      <4>2. tx'[Len(tx')] = Data(cur, pos)' /\ Types(tx)' # <<>>
        BY <3>2, <3>4, <4>1 DEF Data
      <4>. QED
        BY <2>3, <4>1, <4>2 DEF Writing
    <3>. QED
      BY <1>4, <3>5, <3>6 DEF InStep
  <2>. QED
    BY <1>6, <2>4, <2>5
<1>7. CASE pc = "final"
  <2>1. Types(tx) = <<"ACK">> /\ Types(tx)' = <<>>
    BY <1>1, <1>2, <1>7
  <2>2. /\ kind \in {"read", "write"}
        /\ kind = "read" => dpos = ReadLen
        /\ kind = "write" => dst = "respAck" /\ WriteLen = 0
    BY <1>7, <2>1 DEF InStep, Reading, Writing, TypeInv, TypeOK, Kinds
  <2>3. dst' = "finish"
    BY <1>1, <1>7, <2>2, SizesAssumption DEF DevAcked
  <2>4. Turn'
    BY <1>2, <1>7, <2>1, <2>3 DEF Turn, hostVars
  <2>5. Writing'
    BY <1>2, <1>7, <2>1, <2>2, <2>3 DEF InStep, Writing, hostVars
  <2>. QED
    BY <1>4, <2>4, <2>5 DEF InStep
<1>. QED
  BY <1>1, <1>5, <1>6, <1>7

-----------------------------------------------------------------------------
(* The packets of a transfer.                                              *)

\* One more packet, at the position the others end.
LEMMA TransferMore ==
    ASSUME NEW s \in Seq(Frame), NEW p \in Nat, cur \in 0 .. MaxCalls, Transfer(s, p)
    PROVE  /\ Transfer(Append(s, Data(cur, p)), p + PacketSize)
           /\ Append(s, Data(cur, p)) \in Seq(Frame)
<1> DEFINE f == Data(cur, p)
           u == Append(s, f)
<1>1. f \in Frame
  BY DEF Data, genPacket, Frame, FPType
<1> HIDE DEF f
<1>2. /\ u \in Seq(Frame) /\ Len(u) = Len(s) + 1 /\ u[Len(s) + 1] = f
      /\ \A i \in 1 .. Len(s) : u[i] = s[i]
  BY <1>1, AppendProperties
<1>3. Len(s) \in Nat /\ Len(s) * PacketSize = p
  BY LenProperties DEF Transfer
<1>4. (Len(s) + 1) * PacketSize = p + PacketSize
  BY <1>3, SizesAssumption
<1>5. ((Len(s) + 1) - 1) * PacketSize = p
  <2>1. (Len(s) + 1) - 1 = Len(s)
    BY <1>3
  <2>. QED
    BY <1>3, <2>1
<1>6. f = Data(cur, p)
  BY DEF f
<1> HIDE DEF u
<1>7. \A i \in 1 .. Len(u) : u[i] = Data(cur, (i - 1) * PacketSize)
  <2>1. SUFFICES ASSUME NEW i \in 1 .. Len(u)
                 PROVE  u[i] = Data(cur, (i - 1) * PacketSize)
    OBVIOUS
  <2>2. CASE i \in 1 .. Len(s)
    BY <1>2, <2>2 DEF Transfer
  <2>3. CASE i = Len(s) + 1
    BY <1>2, <1>5, <1>6, <2>3
  <2>. QED
    BY <1>2, <1>3, <2>2, <2>3
<1>8. Transfer(u, p + PacketSize)
  BY <1>2, <1>4, <1>7 DEF Transfer
<1>. QED
  BY <1>2, <1>8 DEF u, f

\* The last packet makes it whole.
LEMMA TransferWhole ==
    ASSUME NEW s \in Seq(Frame), NEW p \in Nat, NEW total \in Nat,
           cur \in 0 .. MaxCalls, Transfer(s, p),
           p < total, p + PacketSize >= total
    PROVE  Append(s, Data(cur, p)) = Chunks(cur, total)
<1> DEFINE u == Append(s, Data(cur, p))
           n == (total + PacketSize - 1) \div PacketSize
<1>1. u \in Seq(Frame) /\ Transfer(u, p + PacketSize)
  BY TransferMore
<1> HIDE DEF u
<1>2. Len(s) \in Nat /\ Len(s) * PacketSize = p
  BY LenProperties DEF Transfer
<1>3. Len(u) \in Nat /\ Len(u) * PacketSize = p + PacketSize
  BY <1>1, LenProperties DEF Transfer
<1>4. Len(u) = n
  <2>1. Len(u) = Len(s) + 1
    <3>1. Data(cur, p) \in Frame
      BY DEF Data, genPacket, Frame, FPType
    <3>. QED
      BY <3>1, AppendProperties DEF u
  <2>2. (Len(u) - 1) * PacketSize < total /\ total <= Len(u) * PacketSize
    <3>1. Len(u) - 1 = Len(s)
      BY <1>2, <2>1
    <3>. QED
      BY <1>2, <1>3, <3>1
  <2>. QED
    BY <1>3, <2>2, SizesAssumption
<1>5. u = [i \in 1 .. Len(u) |-> u[i]]
  BY <1>1
<1>6. \A i \in 1 .. Len(u) : u[i] = Data(cur, (i - 1) * PacketSize)
  BY <1>1 DEF Transfer
<1>7. u = [i \in 1 .. Len(u) |-> Data(cur, (i - 1) * PacketSize)]
  BY <1>5, <1>6
<1>. QED
  BY <1>4, <1>7 DEF Chunks, u

\* A packet of a transfer is full unless it is the last.
LEMMA ChunkFull ==
    ASSUME NEW total \in Nat, NEW p \in Nat, p < total
    PROVE  IF p + Chunk(total, p) < total
           THEN p + Chunk(total, p) = p + PacketSize
           ELSE p + PacketSize >= total /\ p + Chunk(total, p) = total
BY SizesAssumption DEF Chunk

-----------------------------------------------------------------------------
(* The device's part of a data phase.                                      *)

\* The next DATA frame of a read, or an empty one or an error in its place.
LEMMA InStepDevData ==
    ASSUME TypeInv, InStep, DevData
    PROVE  InStep'
<1>1. /\ pc = "rdata" /\ Types(tx) = <<>> /\ Types(rx) = <<>> /\ rx = <<>> /\ dst = "data"
  BY TypesDevData, EmptyTypes DEF InStep, Turn, DevAckStates
<1>2. /\ did = cur /\ dkind = kind /\ from = {cur} /\ cur \notin failed
      /\ kind = "read" /\ pos < ReadLen /\ Transfer(got, pos) /\ dpos = pos
  BY <1>1 DEF InStep, Mine, Word, Reading
<1>3. /\ UNCHANGED hostVars /\ UNCHANGED <<did, dkind, stored, execd>>
      /\ Types(tx)' = <<>>
  BY <1>1, TypesDevData DEF DevData
<1>4. Transfer(got, pos)'
  BY <1>2, <1>3 DEF Transfer, hostVars
<1>5. ASSUME NEW f, f \in {Data(cur, pos), Empty(cur)}, DevSends(f),
             dpos' = IF f = Data(cur, pos) THEN pos + Chunk(ReadLen, pos) ELSE pos,
             dst' = "dataAck", UNCHANGED failed
      PROVE  InStep'
  <2>1. f \in Frame /\ f.type = "DATA" /\ f.id = cur
    BY <1>5, SizesAssumption
       DEF TypeInv, TypeOK, Empty, Data, genPacket, Frame, FPType
  <2>2. (\A i \in 1 .. Len(rx') : rx'[i] = f) /\ rx'[1] = f
    BY <1>1, <1>5, <2>1, SendsFrames
  <2>3. Types(rx)' = <<"DATA">>
    BY <1>1, <1>5, <2>1, SendsTypes, AppendTuples
  <2>4. \/ f = Data(cur, pos)' /\ dpos' = pos + Chunk(ReadLen, pos)
        \/ f = Empty(cur)' /\ dpos' = pos
    BY <1>3, <1>5 DEF Empty, Data, hostVars
  <2>5. Turn'
    BY <1>1, <1>3, <1>5, <2>3 DEF Turn, hostVars
  <2>6. Mine'
    BY <1>1, <1>2, <1>3, <2>1, <2>2 DEF Mine, hostVars
  <2>7. Word'
    BY <1>1, <1>2, <1>3, <1>5, <2>1, <2>2 DEF Word, hostVars
  <2>8. Reading'
    <3>1. /\ pc' = "rdata" /\ kind' = "read" /\ pos' < ReadLen /\ cur' = cur /\ pos' = pos
      BY <1>1, <1>2, <1>3 DEF hostVars
    <3>. QED
      BY <1>4, <2>2, <2>3, <2>4, <3>1 DEF Reading
  <2>9. Writing'
    BY <1>1, <1>3, <1>5 DEF Writing, hostVars
  <2>. QED
    BY <2>5, <2>6, <2>7, <2>8, <2>9 DEF InStep
<1>6. CASE /\ DevSends(Resp(did, "error")) /\ dst' = "endAck"
           /\ failed' = failed \cup {did} /\ UNCHANGED dpos
  <2> DEFINE f == Resp(cur, "error")
  <2>1. f \in Frame /\ f.type = "CMD" /\ f.id = cur /\ f.arg = "error"
    BY DEF TypeInv, TypeOK, Resp, genPacket, Frame, FPType, Status
  <2>2. (\A i \in 1 .. Len(rx') : rx'[i] = f) /\ (\E i \in 1 .. Len(rx') : rx'[i] = f)
    BY <1>1, <1>2, <1>6, <2>1, SendsFrames
  <2>3. Types(rx)' = <<"CMD">>
    BY <1>1, <1>2, <1>6, <2>1, SendsTypes, AppendTuples
  <2>4. cur \in failed'
    BY <1>2, <1>6
  <2> HIDE DEF f
  <2>5. Turn'
    BY <1>1, <1>3, <1>6, <2>3 DEF Turn, hostVars
  <2>6. Mine'
    BY <1>1, <1>2, <1>3, <2>1, <2>2 DEF Mine, hostVars
  <2>7. Word'
    BY <1>1, <1>3, <2>1, <2>2, <2>4 DEF Word, hostVars, Status
  <2>8. Reading'
    <3>1. /\ pc' = "rdata" /\ kind' = "read" /\ pos' < ReadLen /\ cur' = cur
      BY <1>1, <1>2, <1>3 DEF hostVars
    <3>. QED
      BY <1>4, <2>3, <2>4, <3>1 DEF Reading
  <2>9. Writing'
    BY <1>1, <1>3, <1>6 DEF Writing, hostVars
  <2>. QED
    BY <2>5, <2>6, <2>7, <2>8, <2>9 DEF InStep
<1>7. Data(cur, pos) # Empty(cur)
  BY <1>2, SizesAssumption DEF Empty, Data, genPacket
<1>8. CASE /\ DevSends(Data(did, dpos)) /\ dpos' = dpos + Chunk(ReadLen, dpos)
           /\ dst' = "dataAck" /\ UNCHANGED failed
  BY <1>2, <1>5, <1>8
<1>9. CASE DevSends(Empty(did)) /\ dst' = "dataAck" /\ UNCHANGED <<dpos, failed>>
  BY <1>2, <1>5, <1>7, <1>9
<1>. QED
  BY <1>6, <1>8, <1>9 DEF DevData

\* A packet of a write is stored at its place, or the data phase aborted.
LEMMA InStepDevStore ==
    ASSUME TypeInv, InStep, DevStore
    PROVE  InStep'
<1>1. /\ pc = "wack" /\ Types(tx) = <<"DATA">> /\ Types(rx) = <<>> /\ rx = <<>>
      /\ dst = "recv"
  BY TypesDevStore, EmptyTypes DEF InStep, Turn, DevAckStates
<1>2. /\ did = cur /\ dkind = kind /\ from = {cur} /\ cur \notin failed
      /\ kind = "write" /\ pos < WriteLen /\ Transfer(stored, pos) /\ dpos = pos
      /\ got = <<>>
  BY <1>1 DEF InStep, Mine, Word, Reading, Writing
<1>3. Head(tx) = Data(cur, pos)
  <2>1. Len(tx) = 1
    BY <1>1, EmptyTypes
  <2>2. tx[Len(tx)] = Data(cur, pos)
    BY <1>1 DEF InStep, Writing
  <2>. QED
    BY <2>1, <2>2
<1>4. /\ UNCHANGED hostVars /\ UNCHANGED <<did, dkind, execd>> /\ Types(tx)' = <<>>
  BY <1>1, TypesDevStore DEF DevStore
<1>5. Reading'
  BY <1>1, <1>2, <1>4 DEF Reading, hostVars
<1>6. CASE /\ DevSends(Ack(did)) /\ stored' = Append(stored, Head(tx))
           /\ dpos' = dpos + Chunk(WriteLen, dpos)
           /\ dst' = IF dpos' < WriteLen THEN "recv" ELSE "finish"
           /\ UNCHANGED failed
  <2> DEFINE f == Ack(cur)
  <2>1. f \in Frame /\ f.type = "ACK" /\ f.id = cur
    BY DEF TypeInv, TypeOK, Ack, Signal, genPacket, Frame, FPType
  <2>2. \A i \in 1 .. Len(rx') : rx'[i] = f
    BY <1>1, <1>2, <1>6, <2>1, SendsFrames
  <2>3. Types(rx)' = <<"ACK">>
    BY <1>1, <1>2, <1>6, <2>1, SendsTypes, AppendTuples
  <2> HIDE DEF f
  <2>4. Turn'
    BY <1>1, <1>4, <1>6, <2>3 DEF Turn, hostVars
  <2>5. Mine'
    BY <1>1, <1>2, <1>4, <2>1, <2>2 DEF Mine, hostVars
  <2>6. Word'
    BY <1>1, <1>2, <1>4, <1>6, <2>1, <2>2 DEF Word, hostVars
  <2>7. pos \in Nat /\ cur \in 0 .. MaxCalls /\ stored \in Seq(Frame) /\ WriteLen \in Nat
    BY SizesAssumption DEF TypeInv, TypeOK
  <2>8. IF dpos' < WriteLen
        THEN dpos' = pos + PacketSize
        ELSE pos + PacketSize >= WriteLen
    BY <1>2, <1>6, <2>7, ChunkFull
  <2>9. CASE dpos' < WriteLen
    <3>1. Transfer(stored', dpos') /\ dst' = "recv" /\ dpos' = pos + PacketSize
      BY <1>2, <1>3, <1>6, <2>7, <2>8, <2>9, TransferMore
    <3>2. Transfer(stored, dpos)'
      BY <1>4, <3>1 DEF Transfer, hostVars
    <3>3. pc' = "wack" /\ kind' = "write" /\ pos' < WriteLen /\ pos' = pos
      BY <1>1, <1>2, <1>4 DEF hostVars
    <3>. QED
      BY <1>4, <1>5, <2>4, <2>5, <2>6, <2>9, <3>1, <3>2, <3>3 DEF InStep, Writing
  <2>10. CASE ~(dpos' < WriteLen)
    <3>1. stored' = Chunks(cur, WriteLen) /\ dst' = "finish" /\ pos + PacketSize >= WriteLen
      BY <1>2, <1>3, <1>6, <2>7, <2>8, <2>10, TransferWhole
    <3>2. stored' = Chunks(cur, WriteLen)' /\ pos' + PacketSize >= WriteLen
      BY <1>4, <3>1 DEF Chunks, Data, hostVars
    <3>3. pc' = "wack" /\ kind' = "write" /\ pos' < WriteLen
      BY <1>1, <1>2, <1>4 DEF hostVars
    <3>. QED
      BY <1>4, <1>5, <2>4, <2>5, <2>6, <3>1, <3>2, <3>3 DEF InStep, Writing
  <2>. QED
    BY <2>9, <2>10
<1>7. CASE /\ DevSends(Signal("ABORT", did)) /\ failed' = failed \cup {did}
           /\ dst' = "finish" /\ UNCHANGED <<stored, dpos>>
  <2> DEFINE f == Signal("ABORT", cur)
  <2>1. f \in Frame /\ f.type = "ABORT" /\ f.id = cur
    BY DEF TypeInv, TypeOK, Signal, genPacket, Frame, FPType
  <2>2. (\A i \in 1 .. Len(rx') : rx'[i] = f) /\ (\E i \in 1 .. Len(rx') : rx'[i] = f)
    BY <1>1, <1>2, <1>7, <2>1, SendsFrames
  <2>3. Types(rx)' = <<"ABORT">>
    BY <1>1, <1>2, <1>7, <2>1, SendsTypes, AppendTuples
  <2>4. cur \in failed'
    BY <1>2, <1>7
  <2> HIDE DEF f
  <2>5. Turn'
    BY <1>1, <1>4, <1>7, <2>3 DEF Turn, hostVars
  <2>6. Mine'
    BY <1>1, <1>2, <1>4, <2>1, <2>2 DEF Mine, hostVars
  <2>7. Word'
    BY <1>1, <1>4, <2>1, <2>2, <2>4 DEF Word, hostVars
  <2>8. Writing'
    BY <1>1, <1>2, <1>4, <1>7, <2>3 DEF Writing, hostVars
  <2>. QED
    BY <1>5, <2>5, <2>6, <2>7, <2>8 DEF InStep
<1>. QED
  BY <1>6, <1>7 DEF DevStore

\* The response that ends a data phase: an error if anything failed before.
LEMMA InStepDevFinish ==
    ASSUME TypeInv, InStep, DevFinish
    PROVE  InStep'
<1>1. /\ Types(tx) = <<>> /\ dst = "finish"
      /\ \/ pc = "wack" /\ Types(rx) \in {<<"ACK">>, <<"ABORT">>}
         \/ pc = "final" /\ Types(rx) = <<>>
      /\ did = cur /\ dkind = kind /\ from = {cur}
  BY TypesDevFinish DEF InStep, Turn, Mine
<1>2. \A i \in 1 .. Len(rx) : /\ rx[i].id = cur /\ rx[i].type \in {"ACK", "ABORT"}
                              /\ rx[i].type = "ABORT" => cur \in failed
  BY <1>1, EmptyTypes DEF InStep, Mine, Word
<1>3. PICK st \in Status :
         /\ DevSends(Resp(cur, st))
         /\ cur \in failed => st = "error"
         /\ failed' = IF st = "error" THEN failed \cup {cur} ELSE failed
  BY <1>1 DEF DevFinish
<1>4. /\ Resp(cur, st) \in Frame /\ Resp(cur, st).type = "CMD"
      /\ Resp(cur, st).id = cur /\ Resp(cur, st).arg = st
  BY DEF TypeInv, TypeOK, Resp, genPacket, Frame, FPType
<1>5. /\ UNCHANGED hostVars /\ UNCHANGED <<did, dkind, dpos, stored>> /\ dst' = "endAck"
      /\ Types(tx)' = <<>>
      /\ Types(rx) = <<"ACK">> => Types(rx)' = <<"ACK", "CMD">>
      /\ Types(rx) = <<"ABORT">> => Types(rx)' = <<"ABORT", "CMD">>
      /\ Types(rx) = <<>> => Types(rx)' = <<"CMD">>
  BY <1>1, TypesDevFinish, AppendTuples DEF DevFinish
<1>6. /\ \A i \in 1 .. Len(rx)' :
            rx'[i] = Resp(cur, st) \/ (i \in 1 .. Len(rx) /\ rx'[i] = rx[i])
      /\ \E i \in 1 .. Len(rx)' : rx'[i] = Resp(cur, st)
  BY <1>3, <1>4, SendsFrames
<1>7. (cur \in failed' <=> st = "error") /\ (cur \in failed => cur \in failed')
  BY <1>3
<1>8. Turn'
  BY <1>1, <1>5 DEF Turn, hostVars
<1>9. Mine'
  BY <1>1, <1>2, <1>4, <1>5, <1>6 DEF Mine, hostVars
<1>10. Word'
  BY <1>1, <1>2, <1>4, <1>5, <1>6, <1>7 DEF Word, hostVars, Status
<1>11. Reading'
  BY <1>1, <1>5 DEF Reading, InStep, hostVars, Chunks
<1>12. Writing'
  BY <1>1, <1>5, <1>7 DEF Writing, InStep, hostVars, Chunks
<1>. QED
  BY <1>8, <1>9, <1>10, <1>11, <1>12 DEF InStep

\* No step of the device but the answer to a ping breaks the invariant.
LEMMA LinkDevice ==
    ASSUME TypeInv, LinkInv, DevStep
    PROVE  LinkInv'
<1>1. CASE DevPing
  BY <1>1, LinkDevPing
<1>2. CASE DevOther
  <2>1. UNCHANGED hostVars
    BY <1>2, DevHost
  <2>2. InStep => InStep'
    BY <1>2, InStepDevCommand, InStepDevIgnore, InStepDevExecute, InStepDevAcked,
       InStepDevData, InStepDevStore, InStepDevFinish DEF DevOther
  <2>3. (Idle => Idle') /\ (Pinging => Pinging') /\ (Behind => Behind')
    BY <1>2, LinkDevIdle, LinkDevPinging, LinkDevBehind
  <2>4. faults' = faults
    BY <2>1 DEF hostVars
  <2>. QED
    BY <2>2, <2>3, <2>4 DEF LinkInv
<1>. QED
  BY <1>1, <1>2 DEF DevStep, DevOther

-----------------------------------------------------------------------------
(* Reading bytes off a short stream.                                       *)

\* Upto adds sizes up.  The sum is written out for three frames, which is as
\* far as the streams of the invariant go.
LEMMA UptoShort ==
    ASSUME NEW s \in Seq(Frame), Len(s) <= 3
    PROVE  /\ Upto(s)[0] = 0
           /\ Len(s) >= 1 => Upto(s)[1] = 0 + Size(s[1])
           /\ Len(s) >= 2 => Upto(s)[2] = 0 + Size(s[1]) + Size(s[2])
<1> DEFINE U(g) == [i \in 0 .. Len(s) |-> IF i = 0 THEN 0 ELSE g[i - 1] + Size(s[i])]
           a == 0 + Size(s[1])
           b == a + Size(s[2])
           c == b + Size(s[3])
           h == [i \in 0 .. Len(s) |-> CASE i = 0 -> 0 [] i = 1 -> a [] i = 2 -> b
                                         [] OTHER -> c]
<1>1. Len(s) \in 0 .. 3
  <2>1. PICK n \in Nat : n = Len(s)
    BY LenProperties
  <2>2. n <= 3
    BY ONLY <2>1, Len(s) <= 3
  <2>3. n \in 0 .. 3
    BY ONLY <2>2, n \in Nat
  <2>. QED
    BY ONLY <2>1, <2>3
<1>2. h = U(h)
  <2>1. \A i \in 0 .. Len(s) : i = 0 \/ i = 1 \/ i = 2 \/ i = 3
    BY <1>1
  <2>2. \A i \in 0 .. Len(s) : i # 0 => i - 1 \in 0 .. Len(s)
    BY <1>1
  <2>3. ASSUME NEW i \in 0 .. Len(s)
        PROVE  h[i] = IF i = 0 THEN 0 ELSE h[i - 1] + Size(s[i])
    <3>1. CASE i = 0
      BY <3>1
    <3>2. CASE i = 1
      BY <2>2, <3>2
    <3>3. CASE i = 2
      BY <2>2, <3>3
    <3>4. CASE i = 3
      BY <2>2, <3>4
    <3>. QED
      BY <2>1, <3>1, <3>2, <3>3, <3>4
  <2>. QED
    BY <2>3
<1> HIDE DEF h
<1>3. Upto(s) = CHOOSE g : g = U(g)
  BY DEF Upto
<1>4. Upto(s) = U(Upto(s))
  <2> HIDE DEF U
  <2>. QED
    BY <1>2, <1>3
<1> DEFINE g == Upto(s)
<1> HIDE DEF g
<1>5. \A i \in 0 .. Len(s) : g[i] = IF i = 0 THEN 0 ELSE g[i - 1] + Size(s[i])
  <2>1. g = U(g)
    BY <1>4 DEF g
  <2>. QED
    BY <2>1
<1>6. g[0] = 0
  BY <1>1, <1>5
<1>7. ASSUME Len(s) >= 1 PROVE g[1] = 0 + Size(s[1])
  BY <1>1, <1>5, <1>6, <1>7
<1>8. ASSUME Len(s) >= 2 PROVE g[2] = 0 + Size(s[1]) + Size(s[2])
  <2>1. g[1] = 0 + Size(s[1])
    BY <1>1, <1>7, <1>8
  <2>2. 2 \in 0 .. Len(s) /\ 2 - 1 = 1
    BY <1>1, <1>8
  <2>. QED
    BY <1>5, <2>1, <2>2
<1>. QED
  BY <1>6, <1>7, <1>8 DEF g

\* Frames whose start byte is read are gone, the others stay.
LEMMA ConsumeIs ==
    ASSUME NEW s \in Seq(Frame), NEW k \in Nat, NEW m \in 0 .. Len(s),
           \A i \in 1 .. Len(s) : Upto(s)[i - 1] < k <=> i <= m
    PROVE  /\ Consume(s, k) \in Seq(Frame) /\ Len(Consume(s, k)) = Len(s) - m
           /\ \A i \in 1 .. Len(s) - m : Consume(s, k)[i] = s[i + m]
<1> DEFINE cut == {i \in 1 .. Len(s) : Upto(s)[i - 1] < k}
<1>1. Len(s) \in Nat /\ m \in Nat /\ m <= Len(s)
  BY LenProperties
<1>2. cut = 1 .. m
  BY <1>1
<1>3. Cardinality(cut) = m
  <2>1. Cardinality(1 .. m) = IF 1 > m THEN 0 ELSE m - 1 + 1
    BY <1>1, FS_Interval
  <2>2. (IF 1 > m THEN 0 ELSE m - 1 + 1) = m
    BY ONLY m \in Nat
  <2>. QED
    BY ONLY <1>2, <2>1, <2>2
<1> HIDE DEF cut
<1>4. Consume(s, k) = SubSeq(s, 1 + m, Len(s))
  BY <1>3 DEF Consume, cut
<1>5. \A i \in 1 + m .. Len(s) : s[i] \in Frame
  BY <1>1, ElementOfSeq
<1>6. /\ SubSeq(s, 1 + m, Len(s)) \in Seq(Frame)
      /\ Len(SubSeq(s, 1 + m, Len(s))) = Len(s) - m
      /\ \A i \in 1 .. Len(s) - m : SubSeq(s, 1 + m, Len(s))[i] = s[i + m]
  BY <1>1, <1>5, SubSeqProperties
<1>. QED
  BY <1>4, <1>6

\* Bytes of a frame by its type.
LEMMA Sizes ==
    ASSUME TypeInv, NEW i \in 1 .. Len(rx)
    PROVE  /\ Size(rx[i]) \in Nat /\ Size(rx[i]) >= 2
           /\ rx[i].type \in {"ACK", "ABORT"} => Size(rx[i]) = 2
           /\ rx[i].type = "PINGR" => Size(rx[i]) = 10
           /\ rx[i].type = "CMD" => Size(rx[i]) = 18
<1>1. rx[i] \in InFrame
  BY ElementOfSeq, LenProperties DEF TypeInv, DataInv
<1>2. CASE rx[i].type \in {"DATA", "CMD"}
  BY <1>1, <1>2, PayloadType DEF Size, RespPayload
<1>3. CASE rx[i].type \notin {"DATA", "CMD"}
  BY <1>3 DEF Size
<1>. QED
  BY <1>2, <1>3

\* A read that ends within the first frame takes this frame off the stream.
LEMMA ConsumeOne ==
    ASSUME TypeInv, NEW k \in Nat \ {0}, rx # <<>>, Len(rx) <= 3,
           Size(rx[1]) >= k, rx' = Consume(rx, k)
    PROVE  /\ Types(rx)' = Tail(Types(rx)) /\ Len(rx') = Len(rx) - 1
           /\ \A i \in 1 .. Len(rx') : i + 1 \in 1 .. Len(rx) /\ rx'[i] = rx[i + 1]
<1> DEFINE U == Upto(rx)
<1>1. PICK n \in 1 .. 3 : n = Len(rx)
  <2>1. PICK n \in Nat : n = Len(rx) /\ n # 0
    BY EmptySeq, LenProperties DEF TypeInv, TypeOK
  <2>2. n <= 3
    BY ONLY <2>1, Len(rx) <= 3
  <2>3. n \in 1 .. 3
    BY ONLY <2>1, <2>2, n \in Nat
  <2>. QED
    BY <2>1, <2>3
<1>2. rx \in Seq(Frame)
  BY DEF TypeInv, TypeOK
<1>3. /\ U[0] = 0
      /\ n >= 1 => U[1] = 0 + Size(rx[1])
      /\ n >= 2 => U[2] = 0 + Size(rx[1]) + Size(rx[2])
  BY <1>1, <1>2, UptoShort
<1> HIDE DEF U
<1>4. \A i \in 1 .. n : Size(rx[i]) \in Nat
  BY <1>1, Sizes
<1>5. \A i \in 1 .. n : U[i - 1] < k <=> i <= 1
  <2>1. U[1 - 1] < k
    BY <1>3
  <2>2. ASSUME n >= 2 PROVE ~(U[2 - 1] < k)
    BY <1>1, <1>3, <1>4, <2>2
  <2>3. ASSUME n >= 3 PROVE ~(U[3 - 1] < k)
    BY <1>1, <1>3, <1>4, <2>3
  <2>4. \A i \in 1 .. n : i = 1 \/ (i = 2 /\ n >= 2) \/ (i = 3 /\ n >= 3)
    BY <1>1
  <2>. QED
    BY <2>1, <2>2, <2>3, <2>4
<1>6. /\ Consume(rx, k) \in Seq(Frame) /\ Len(Consume(rx, k)) = Len(rx) - 1
      /\ \A i \in 1 .. Len(rx) - 1 : Consume(rx, k)[i] = rx[i + 1]
  <2>1. 1 \in 0 .. Len(rx) /\ \A i \in 1 .. Len(rx) : Upto(rx)[i - 1] < k <=> i <= 1
    BY <1>1, <1>5 DEF U
  <2>. QED
    BY <1>2, <2>1, ConsumeIs
<1>7. rx' \in Seq(Frame) /\ Tail(rx) \in Seq(Frame) /\ Len(Tail(rx)) = Len(rx) - 1
      /\ \A i \in 1 .. Len(rx) - 1 : Tail(rx)[i] = rx[i + 1]
  BY <1>2, <1>6
<1>8. rx' = Tail(rx)
  BY <1>1, <1>6, <1>7, SeqEqual
<1>. QED
  BY <1>1, <1>2, <1>6, <1>8, TypesTail

\* A read that ends within the second frame takes two.
LEMMA ConsumeTwo ==
    ASSUME TypeInv, NEW k \in Nat, Len(rx) \in {2, 3},
           Size(rx[1]) < k, Size(rx[1]) + Size(rx[2]) >= k, rx' = Consume(rx, k)
    PROVE  /\ Len(rx) = 2 => Types(rx)' = <<>>
           /\ Len(rx) = 3 => Types(rx)' = <<Types(rx)[3]>>
<1> DEFINE U == Upto(rx)
<1>1. PICK n \in {2, 3} : n = Len(rx)
  OBVIOUS
<1>2. rx \in Seq(Frame)
  BY DEF TypeInv, TypeOK
<1>3. /\ U[0] = 0
      /\ n >= 1 => U[1] = 0 + Size(rx[1])
      /\ n >= 2 => U[2] = 0 + Size(rx[1]) + Size(rx[2])
  BY <1>1, <1>2, UptoShort
<1> HIDE DEF U
<1>4. \A i \in 1 .. n : Size(rx[i]) \in Nat
  BY <1>1, Sizes
<1>5. \A i \in 1 .. n : U[i - 1] < k <=> i <= 2
  <2>0. Size(rx[1]) \in Nat /\ Size(rx[2]) \in Nat
    BY <1>1, <1>4
  <2>1. U[1 - 1] < k
    BY <1>3, <2>0
  <2>2. U[2 - 1] < k
    BY <1>3, <2>0
  <2>3. ASSUME n = 3 PROVE ~(U[3 - 1] < k)
    BY <1>3, <2>0, <2>3
  <2>4. \A i \in 1 .. n : i = 1 \/ i = 2 \/ (i = 3 /\ n = 3)
    BY <1>1
  <2>. QED
    BY <2>1, <2>2, <2>3, <2>4
<1>6. /\ Consume(rx, k) \in Seq(Frame) /\ Len(Consume(rx, k)) = Len(rx) - 2
      /\ \A i \in 1 .. Len(rx) - 2 : Consume(rx, k)[i] = rx[i + 2]
  <2>1. 2 \in 0 .. Len(rx) /\ \A i \in 1 .. Len(rx) : Upto(rx)[i - 1] < k <=> i <= 2
    BY <1>1, <1>5 DEF U
  <2>. QED
    BY <1>2, <2>1, ConsumeIs
<1>7. /\ Types(rx)' \in Seq(FPType) /\ Len(Types(rx)') = n - 2
      /\ \A i \in 1 .. n - 2 : Types(rx)'[i] = rx[i + 2].type
  BY <1>1, <1>6, TypesLen
<1>8. CASE n = 2
  BY <1>1, <1>7, <1>8, EmptySeq
<1>9. CASE n = 3
  <2>1. rx[3].type = Types(rx)[3]
    <3>1. 3 \in 1 .. Len(rx)
      BY <1>1, <1>9
    <3>. QED
      BY <3>1, EmptyTypes
  <2>2. Len(Types(rx)') = 1 /\ Types(rx)'[1] = Types(rx)[3]
    BY <1>7, <1>9, <2>1
  <2>. QED
    BY <1>1, <1>7, <1>9, <2>2
<1>. QED
  BY <1>8, <1>9

-----------------------------------------------------------------------------
(* The host's steps preserve the invariant.                                *)

\* What the host sends joins the stream to the device.
LEMMA HostSends ==
    ASSUME TypeInv, NEW f \in Frame, tx' = Append(tx, f)
    PROVE  /\ Types(tx)' = Append(Types(tx), f.type)
           /\ Len(tx') = Len(tx) + 1 /\ tx'[Len(tx')] = f
           /\ Types(tx) = <<>> => tx'[1] = f
<1>1. tx \in Seq(Frame)
  BY DEF TypeInv, TypeOK
<1>2. Types(tx)' = Append(Types(tx), f.type)
  BY <1>1, TypesAppend
<1>3. Len(tx') = Len(tx) + 1 /\ tx'[Len(tx) + 1] = f
  BY <1>1, AppendProperties
<1>4. ASSUME Types(tx) = <<>> PROVE tx'[1] = f
  <2>1. tx = <<>>
    BY <1>4, EmptyTypes
  <2>. QED
    BY <1>3, <2>1
<1>. QED
  BY <1>2, <1>3, <1>4

\* What the host takes is the first frame, and the others stay.
LEMMA ReceivesFrames ==
    ASSUME TypeInv, NEW w \in Waits, Receives(w)
    PROVE  /\ 1 \in 1 .. Len(rx) /\ Head(rx) = rx[1] /\ Types(rx)[1] = rx[1].type
           /\ \A i \in 1 .. Len(rx') : i + 1 \in 1 .. Len(rx) /\ rx'[i] = rx[i + 1]
<1>1. rx \in Seq(Frame) /\ rx # <<>> /\ rx' = Tail(rx)
  BY DEF TypeInv, TypeOK, Receives
<1>2. 1 \in 1 .. Len(rx) /\ Head(rx) = rx[1]
  BY <1>1
<1>3. \A i \in 1 .. Len(rx') : i + 1 \in 1 .. Len(rx) /\ rx'[i] = rx[i + 1]
  BY <1>1
<1>. QED
  BY <1>2, <1>3, EmptyTypes

\* The answer to a ping behind what an abandoned call left.
LEMMA BehindRests ==
    ASSUME NEW r \in Rests
    PROVE  \/ r = <<>> /\ Append(r, "PINGR") = <<"PINGR">>
           \/ \E x \in {"ACK", "ABORT", "CMD", "DATA"} :
                 r = <<x>> /\ Append(r, "PINGR") = <<x, "PINGR">>
           \/ \E x \in {"ACK", "ABORT"} :
                 r = <<x, "CMD">> /\ Append(r, "PINGR") = <<x, "CMD", "PINGR">>
<1>1. \/ r = <<>>
      \/ \E x \in {"ACK", "ABORT", "CMD", "DATA"} : r = <<x>>
      \/ \E x \in {"ACK", "ABORT"} : r = <<x, "CMD">>
  BY DEF Rests
<1>2. CASE r = <<>>
  BY <1>2, AppendTuples
<1>3. ASSUME NEW x \in {"ACK", "ABORT", "CMD", "DATA"}, r = <<x>>
      PROVE  Append(r, "PINGR") = <<x, "PINGR">>
  BY <1>3, AppendTuples
<1>4. ASSUME NEW x \in {"ACK", "ABORT"}, r = <<x, "CMD">>
      PROVE  Append(r, "PINGR") = <<x, "CMD", "PINGR">>
  BY <1>4, AppendTuples
<1>. QED
  BY <1>1, <1>2, <1>3, <1>4

\* A new call pings whatever the last one left.
LEMMA LinkCall ==
    ASSUME TypeInv, LinkInv, NEW k \in Kinds, Call(k)
    PROVE  LinkInv'
<1>1. SUFFICES ASSUME faults <= 1
               PROVE  Pinging'
  BY DEF Call, LinkInv
<1>2. Idle
  BY <1>1 DEF Call, LinkInv, Idle, Pinging, Behind, InStep, Turn
<1>3. /\ pc' = "ping" /\ pos' = 0 /\ got' = <<>> /\ from' = {} /\ faults' = faults
      /\ dst' = dst /\ dkind' = dkind /\ Types(rx)' = Types(rx)
  BY DEF Call, devVars, Types
<1>4. Types(tx)' = Append(Types(tx), "PING")
  <2>1. Signal("PING", cur + 1) \in Frame /\ Signal("PING", cur + 1).type = "PING"
    BY SizesAssumption DEF TypeInv, TypeOK, Call, Signal, genPacket, Frame, FPType
  <2>. QED
    BY <2>1, HostSends DEF Call
<1>5. /\ Types(tx) = <<>> => Types(tx)' = <<"PING">>
      /\ Types(tx) = <<"ACK">> => Types(tx)' = <<"ACK", "PING">>
      /\ Types(tx) = <<"PING">> => Types(tx)' = <<"PING", "PING">>
      /\ Types(tx) = <<"ACK", "PING">> => Types(tx)' = <<"ACK", "PING", "PING">>
  BY <1>4, AppendTuples
<1>6. CASE Clean
  BY <1>3, <1>5, <1>6 DEF Clean, Pinging
<1>7. CASE faults = 1 /\ Owed
  <2>1. Twice'
    BY <1>3, <1>5, <1>7 DEF Owed, Twice
  <2>. QED
    BY <1>3, <1>7, <2>1 DEF Pinging
<1>8. CASE faults = 1 /\ Leftover(Types(tx), Types(rx))
  <2>1. Types(tx) \in Pendings
    BY <1>8 DEF Leftover, Pendings
  <2>2. PICK t \in Pendings : t = Types(tx)
    BY <2>1
  <2>3. Types(tx)' = Append(t, "PING") /\ Leftover(t, Types(rx))'
    BY <1>3, <1>4, <1>8, <2>2 DEF Leftover
  <2>. QED
    BY <1>3, <1>8, <2>3 DEF Pinging
<1>. QED
  BY <1>2, <1>6, <1>7, <1>8 DEF Idle

\* A restart leaves nothing on the way.
LEMMA LinkRestart ==
    ASSUME Restart
    PROVE  LinkInv'
<1>1. /\ Types(tx)' = <<>> /\ Types(rx)' = <<>> /\ dst' = "idle" /\ pc' = "idle"
      /\ out' = "none"
  BY DEF Restart, Types
<1>2. Clean' /\ Verdict'
  BY <1>1 DEF Clean, Verdict
<1>. QED
  BY <1>1, <1>2 DEF LinkInv, Idle

\* The answer the host takes is its own, or the one to an earlier ping.
LEMMA LinkPingOk ==
    ASSUME TypeInv, OnceInv, FailInv, LinkInv, PingOk
    PROVE  LinkInv'
<1> DEFINE f == genPacket("CMD", cur, 0, kind)
<1>1. /\ Receives("ping") /\ pc = "ping" /\ pc' = "ack" /\ tx' = Append(tx, f)
      /\ UNCHANGED <<cur, kind, pos, got, from, faults>> /\ UNCHANGED devVars
  BY DEF PingOk, Receives
<1>2. f \in Frame /\ f.type = "CMD" /\ f.id = cur /\ f.arg = kind
  BY DEF TypeInv, TypeOK, genPacket, Frame, FPType
<1> HIDE DEF f
<1>3. /\ Types(rx)' = Tail(Types(rx)) /\ Types(rx) # <<>> /\ Head(Types(rx)) = "PINGR"
      /\ Types(tx)' = Append(Types(tx), "CMD")
      /\ Types(tx) = <<>> => tx'[1] = f
  <2>1. "ping" \in Waits /\ Accepts["ping"] = {"PINGR"}
    BY DEF Waits, Accepts
  <2>. QED
    BY <1>1, <1>2, <2>1, ReceivesTypes, HostSends
<1>4. SUFFICES ASSUME faults <= 1
               PROVE  Behind' \/ InStep'
  BY <1>1 DEF LinkInv
<1>5. Pinging
  BY <1>1, <1>4 DEF LinkInv, Idle, Behind, InStep, Turn
<1>6. \/ Types(rx) = <<"PINGR">> /\ Types(tx) = <<>> /\ dst = "idle"
      \/ /\ faults = 1
         /\ Types(rx) = <<"PINGR">> /\ Types(tx) = <<"PING">> /\ dst = "idle"
      \/ /\ faults = 1
         /\ Types(rx) = <<"PINGR", "PINGR">> /\ Types(tx) = <<>> /\ dst = "idle"
  <2>1. ASSUME NEW t \in Pendings, Leftover(t, Types(rx)) PROVE FALSE
    BY <1>3, <2>1 DEF Leftover, Rests
  <2>2. ASSUME NEW r \in Rests, Types(rx) = Append(r, "PINGR") PROVE Types(rx) = <<"PINGR">>
    <3>1. \/ Types(rx) = <<"PINGR">>
          \/ \E x \in {"ACK", "ABORT", "CMD", "DATA"} : Types(rx) = <<x, "PINGR">>
          \/ \E x \in {"ACK", "ABORT"} : Types(rx) = <<x, "CMD", "PINGR">>
      BY <2>2, BehindRests
    <3>. QED
      BY <1>3, <3>1
  <2>. QED
    BY <1>3, <1>5, <2>1, <2>2 DEF Pinging, Twice
<1>7. CASE faults = 1 /\ Types(tx) = <<"PING">>
  <2>0. Types(rx) = <<"PINGR">> /\ dst = "idle"
    BY <1>6, <1>7
  <2>1. Types(rx)' = <<>> /\ Types(tx)' = <<"PING", "CMD">> /\ dst' = "idle"
    BY <1>1, <1>3, <1>7, <2>0, AppendTuples DEF devVars
  <2>. QED
    BY <1>1, <1>7, <2>1 DEF Behind
<1>8. CASE faults = 1 /\ Types(rx) = <<"PINGR", "PINGR">>
  <2>1. Types(rx)' = <<"PINGR">> /\ Types(tx)' = <<"CMD">> /\ dst' = "idle"
    BY <1>1, <1>3, <1>6, <1>8, AppendTuples DEF devVars
  <2>. QED
    BY <1>1, <1>8, <2>1 DEF Behind
<1>9. CASE Types(rx) = <<"PINGR">> /\ Types(tx) = <<>> /\ dst = "idle"
  <2>1. Types(rx)' = <<>> /\ Types(tx)' = <<"CMD">> /\ dst' = "idle" /\ tx'[1] = f
    BY <1>1, <1>3, <1>9, AppendTuples DEF devVars
  <2>2. 1 .. Len(rx') = {}
    <3>1. rx' \in Seq(Frame)
      BY <1>1, ReceiveType DEF Waits
    <3>2. rx' = <<>>
      BY <2>1, <3>1, TypesLen
    <3>. QED
      BY <3>2
  <2>3. cur \notin failed'
    <3>1. cur \in Calls /\ Unsent(cur)
      BY <1>1 DEF OnceInv, Unsent
    <3>2. execd[cur] = 0 /\ failed' = failed
      BY <1>1, <3>1 DEF OnceInv, devVars
    <3>. QED
      BY <3>2 DEF FailInv
  <2>4. pos' = 0 /\ got' = <<>> /\ from' = {} /\ pc' = "ack" /\ cur' = cur /\ kind' = kind
    BY <1>1, <1>5 DEF Pinging
  <2>5. Turn'
    BY <2>1, <2>4 DEF Turn
  <2>6. Mine'
    BY <1>2, <2>1, <2>2, <2>4 DEF Mine
  <2>7. Word'
    BY <2>1, <2>2, <2>3, <2>4 DEF Word
  <2>8. Reading' /\ Writing'
    BY <2>1, <2>4 DEF Reading, Writing
  <2>. QED
    BY <2>5, <2>6, <2>7, <2>8 DEF InStep
<1>. QED
  BY <1>6, <1>7, <1>8, <1>9

\* Past the ACK of its command a call is in step with the device.
LEMMA PastAck ==
    ASSUME LinkInv, faults <= 1, pc \in {"resp", "rdata", "wsend", "wack", "final"}
    PROVE  InStep
BY DEF LinkInv, Idle, Pinging, Behind

\* The ACK of the command: not if the host is a ping behind.
LEMMA LinkCommandAcked ==
    ASSUME TypeInv, LinkInv, CommandAcked
    PROVE  LinkInv'
<1>1. /\ Receives("ack") /\ pc = "ack" /\ pc' = "resp" /\ Types(tx)' = Types(tx)
      /\ UNCHANGED <<cur, kind, pos, got, from, faults, tx>> /\ UNCHANGED devVars
  BY DEF CommandAcked, Receives, Types
<1>2. Types(rx)' = Tail(Types(rx)) /\ Types(rx) # <<>> /\ Head(Types(rx)) = "ACK"
  <2>1. "ack" \in Waits /\ Accepts["ack"] = {"ACK"}
    BY DEF Waits, Accepts
  <2>. QED
    BY <1>1, <2>1, ReceivesTypes
<1>3. SUFFICES ASSUME faults <= 1
               PROVE  InStep'
  BY <1>1 DEF LinkInv
<1>4. InStep
  <2>1. ~Behind
    BY <1>2 DEF Behind
  <2>. QED
    BY <1>1, <1>3, <2>1 DEF LinkInv, Idle, Pinging
<1>5. /\ Types(tx) = <<>>
      /\ \/ Types(rx) = <<"ACK">> /\ dst = "exec"
         \/ Types(rx) = <<"ACK", "CMD">> /\ dst \in {"respAck", "endAck"}
  BY <1>1, <1>2, <1>4 DEF InStep, Turn
<1>6. \A i \in 1 .. Len(rx') : i + 1 \in 1 .. Len(rx) /\ rx'[i] = rx[i + 1]
  BY <1>1, ReceivesFrames DEF Waits
<1>7. /\ Types(rx) = <<"ACK">> => Types(rx)' = <<>>
      /\ Types(rx) = <<"ACK", "CMD">> => Types(rx)' = <<"CMD">>
  <2>1. ASSUME Types(rx) = <<"ACK">> PROVE Types(rx)' = <<>>
    BY <1>2, <2>1
  <2>2. ASSUME Types(rx) = <<"ACK", "CMD">> PROVE Types(rx)' = <<"CMD">>
    BY <1>2, <2>2
  <2>. QED
    BY <2>1, <2>2
<1>8. Turn'
  BY <1>1, <1>5, <1>7 DEF Turn, devVars
<1>9. Mine'
  BY <1>1, <1>4, <1>5, <1>6 DEF InStep, Mine, devVars
<1>10. Word'
  <2>1. \A i \in 1 .. Len(rx') :
          /\ rx'[i].type = "CMD" =>
               rx'[i].arg \in Status /\ (rx'[i].arg = "error" <=> cur \in failed)
          /\ rx'[i].type = "ABORT" => cur \in failed
    BY <1>4, <1>6 DEF InStep, Word
  <2>2. cur \in failed => \E i \in 1 .. Len(rx') : rx'[i].type \in {"CMD", "ABORT"}
    <3>1. ASSUME Types(rx) = <<"ACK">> PROVE cur \notin failed
      <4>1. \A i \in 1 .. Len(rx) : rx[i].type = "ACK"
        <5>1. Len(rx) = 1 /\ \A i \in 1 .. Len(rx) : rx[i].type = Types(rx)[i]
          BY <3>1, EmptyTypes
        <5>. QED
          BY <3>1, <5>1
      <4>. QED
        BY <1>1, <1>4, <4>1 DEF InStep, Word
    <3>2. ASSUME Types(rx) = <<"ACK", "CMD">> PROVE 1 \in 1 .. Len(rx') /\ rx'[1].type = "CMD"
      <4>1. rx' \in Seq(Frame) /\ Types(rx') = <<"CMD">>
        BY <1>1, <1>7, <3>2, ReceiveType DEF Waits
      <4>. QED
        BY <4>1, TypesLen
    <3>. QED
      BY <1>5, <3>1, <3>2
  <2>3. dst \in {"respAck", "endAck"} => (dst = "respAck" <=> cur \notin failed /\ kind # "cmd")
    BY <1>1, <1>4 DEF InStep, Word
  <2>. QED
    BY <1>1, <2>1, <2>2, <2>3 DEF Word, devVars
<1>11. Reading' /\ Writing'
  BY <1>1, <1>4 DEF InStep, Reading, Writing, devVars
<1>. QED
  BY <1>8, <1>9, <1>10, <1>11 DEF InStep

\* Nothing to transfer.
LEMMA NoChunks == Chunks(cur, 0) = <<>> /\ Transfer(<<>>, 0)
<1>1. (0 + PacketSize - 1) \div PacketSize = 0
  BY SizesAssumption
<1>2. Transfer(<<>>, 0)
  BY SizesAssumption DEF Transfer
<1>. QED
  BY <1>1, <1>2 DEF Chunks

\* The host's last ACK ends a call, in step, with the device's verdict.
LEMMA LinkAnswer ==
    ASSUME TypeInv, FailInv, InStep,
           Types(tx) = <<>>, Types(rx) = <<"CMD">>, dst = "endAck",
           Types(tx)' = <<"ACK">>, Types(rx)' = <<>>,
           UNCHANGED <<cur, kind, got, faults, devVars>>, from' = {cur},
           pc' = "idle",
           \/ out' = "refused" /\ cur \in failed
           \/ /\ out' = "ok" /\ cur \notin failed
              /\ kind = "read"  => got = Chunks(cur, ReadLen)
              /\ kind = "write" => stored = Chunks(cur, WriteLen)
    PROVE  Idle'
<1>1. Clean'
  BY DEF Clean, devVars
<1>2. cur \in Calls /\ execd[cur] > 0
  BY DEF InStep, Mine, FailInv, DevAckStates
<1>3. out' = "refused" <=> cur \in failed
  OBVIOUS
<1>4. /\ kind = "read" /\ out' = "ok" => got' = Chunks(cur, ReadLen)'
      /\ kind = "write" /\ out' = "ok" => stored' = Chunks(cur, WriteLen)'
  BY DEF Chunks, Data, devVars
<1>5. Verdict'
  BY <1>1, <1>2, <1>3, <1>4 DEF Verdict, devVars
<1>. QED
  BY <1>1, <1>5 DEF Idle

\* The host takes the one response there is, and acknowledges it.
LEMMA TakesResponse ==
    ASSUME TypeInv, InStep, NEW w \in {"resp", "rdata", "final"}, Receives(w),
           tx' = Append(tx, Ack(cur)), from' = from \cup {Head(rx).id},
           Types(rx) = <<"CMD">>
    PROVE  /\ Types(tx) = <<>> /\ Types(tx)' = <<"ACK">> /\ Types(rx)' = <<>>
           /\ from' = {cur} /\ 1 .. Len(rx') = {}
           /\ Head(rx).type = "CMD" /\ Head(rx).arg \in Status
           /\ Head(rx).arg = "error" <=> cur \in failed
<1>1. w \in Waits /\ pc = w
  BY DEF Waits, Receives
<1>2. Types(tx) = <<>>
  BY <1>1 DEF InStep, Turn
<1>3. Types(tx)' = <<"ACK">>
  <2>1. Ack(cur) \in Frame /\ Ack(cur).type = "ACK"
    BY DEF TypeInv, TypeOK, Ack, Signal, genPacket, Frame, FPType
  <2>. QED
    BY <1>2, <2>1, HostSends, AppendTuples
<1>4. /\ Types(rx)' = Tail(Types(rx))
      /\ 1 \in 1 .. Len(rx) /\ Head(rx) = rx[1] /\ Types(rx)[1] = rx[1].type
      /\ rx' \in Seq(Frame)
  BY <1>1, ReceivesTypes, ReceivesFrames, ReceiveType
<1>5. Types(rx)' = <<>>
  BY <1>4
<1>6. 1 .. Len(rx') = {}
  <2>1. rx' = <<>>
    BY <1>4, <1>5, TypesLen
  <2>. QED
    BY <2>1
<1>7. /\ Head(rx).type = "CMD" /\ Head(rx).arg \in Status
      /\ Head(rx).arg = "error" <=> cur \in failed
      /\ Head(rx).id = cur
  <2>1. rx[1].type = "CMD"
    BY <1>4
  <2>. QED
    BY <1>4, <2>1 DEF InStep, Mine, Word
<1>8. from' = {cur}
  <2>1. from \subseteq {cur}
    BY DEF InStep, Mine
  <2>. QED
    BY <1>7, <2>1
<1>. QED
  BY <1>2, <1>3, <1>5, <1>6, <1>7, <1>8

\* The response of write_cmd ends the call or begins its data phase.
LEMMA LinkResponse ==
    ASSUME TypeInv, FailInv, LinkInv, Response
    PROVE  LinkInv'
<1>1. /\ Receives("resp") /\ pc = "resp"
      /\ tx' = Append(tx, Ack(cur)) /\ from' = from \cup {Head(rx).id}
      /\ UNCHANGED <<cur, kind, pos, got, faults, devVars>>
  BY DEF Response, Receives
<1>2. SUFFICES ASSUME faults <= 1
               PROVE  Idle' \/ InStep'
  BY <1>1 DEF LinkInv
<1>3. InStep
  BY <1>1, <1>2, PastAck
<1>4. Types(rx) = <<"CMD">> /\ Types(tx) = <<>> /\ dst \in {"respAck", "endAck"}
  <2>1. Types(rx) # <<>>
    BY <1>1, ReceivesTypes DEF Waits
  <2>. QED
    BY <1>1, <1>3, <2>1 DEF InStep, Turn
<1>5. /\ Types(tx)' = <<"ACK">> /\ Types(rx)' = <<>>
      /\ from' = {cur} /\ 1 .. Len(rx') = {}
      /\ Head(rx).arg \in Status /\ (Head(rx).arg = "error" <=> cur \in failed)
  BY <1>1, <1>3, <1>4, TakesResponse
<1>6. dst = "respAck" <=> cur \notin failed /\ kind # "cmd"
  BY <1>1, <1>3, <1>4 DEF InStep, Word
<1>7. CASE Head(rx).arg = "error" /\ Finish("refused")
  <2>1. cur \in failed /\ dst = "endAck" /\ pc' = "idle" /\ out' = "refused"
    BY <1>4, <1>5, <1>6, <1>7 DEF Finish
  <2>. QED
    BY <1>1, <1>3, <1>4, <1>5, <2>1, LinkAnswer
<1>8. CASE Head(rx).arg = "success" /\ kind = "cmd" /\ Finish("ok")
  <2>1. cur \notin failed /\ dst = "endAck" /\ pc' = "idle" /\ out' = "ok"
    BY <1>4, <1>5, <1>6, <1>8 DEF Finish
  <2>. QED
    BY <1>1, <1>3, <1>4, <1>5, <1>8, <2>1, LinkAnswer
<1>9. CASE Head(rx).arg = "success" /\ kind # "cmd" /\ pc' = DataPhase
  <2>1. cur \notin failed /\ dst = "respAck" /\ dpos = 0 /\ pos = 0
        /\ got = <<>> /\ stored = <<>> /\ did = cur /\ dkind = kind
    BY <1>1, <1>3, <1>4, <1>5, <1>6, <1>9
       DEF InStep, Reading, Writing, Mine, TypeInv, DataInv
  <2>2. /\ dst' = "respAck" /\ dpos' = 0 /\ pos' = 0 /\ got' = <<>> /\ stored' = <<>>
        /\ did' = cur' /\ dkind' = kind' /\ cur' \notin failed' /\ cur' = cur /\ kind' = kind
    BY <1>1, <2>1 DEF devVars
  <2>3. Transfer(got, pos)' /\ Transfer(stored, pos)'
    BY <2>2, SizesAssumption DEF Transfer
  <2>4. \/ kind = "read" /\ ReadLen = 0 /\ pc' = "final"
        \/ kind = "read" /\ 0 < ReadLen /\ pc' = "rdata"
        \/ kind = "write" /\ WriteLen = 0 /\ pc' = "final"
        \/ kind = "write" /\ 0 < WriteLen /\ pc' = "wsend"
    BY <1>9, SizesAssumption DEF DataPhase, TypeInv, TypeOK, Kinds
  <2>5. Turn'
    BY <1>5, <2>2, <2>4 DEF Turn
  <2>6. Mine'
    BY <1>5, <2>2, <2>4 DEF Mine
  <2>7. Word'
    BY <1>5, <2>2, <2>4 DEF Word
  <2>8. Reading'
    BY <1>5, <2>2, <2>3, <2>4, NoChunks DEF Reading, Chunks, Data
  <2>9. Writing'
    <3>1. WriteLen = 0 => stored' = Chunks(cur, WriteLen)'
      BY <2>2, NoChunks DEF Chunks, Data
    <3>. QED
      BY <1>5, <2>2, <2>3, <2>4, <3>1 DEF Writing
  <2>. QED
    BY <2>5, <2>6, <2>7, <2>8, <2>9 DEF InStep
<1>. QED
  BY <1>7, <1>8, <1>9 DEF Response

\* One turn of the loop of read_data.
LEMMA LinkReadData ==
    ASSUME TypeInv, FailInv, LinkInv, ReadData
    PROVE  LinkInv'
<1>1. /\ Receives("rdata") /\ pc = "rdata"
      /\ tx' = Append(tx, Ack(cur)) /\ from' = from \cup {Head(rx).id}
      /\ UNCHANGED <<cur, kind, faults, devVars>>
  BY DEF ReadData, Receives
<1>2. SUFFICES ASSUME faults <= 1
               PROVE  Idle' \/ InStep'
  BY <1>1 DEF LinkInv
<1>3. InStep
  BY <1>1, <1>2, PastAck
<1>4. /\ Types(tx) = <<>>
      /\ \/ Types(rx) = <<"DATA">> /\ dst = "dataAck"
         \/ Types(rx) = <<"CMD">> /\ dst = "endAck"
  <2>1. Types(rx) # <<>>
    BY <1>1, ReceivesTypes DEF Waits
  <2>. QED
    BY <1>1, <1>3, <2>1 DEF InStep, Turn
<1>5. kind = "read" /\ pos < ReadLen /\ Transfer(got, pos) /\ from = {cur}
      /\ did = cur /\ dkind = kind
  BY <1>1, <1>3, <1>4 DEF InStep, Reading, Mine
<1>6. CASE Types(rx) = <<"CMD">>
  <2>1. cur \in failed /\ dst = "endAck"
    BY <1>1, <1>3, <1>4, <1>6 DEF InStep, Reading
  <2>2. /\ Types(tx)' = <<"ACK">> /\ Types(rx)' = <<>> /\ from' = {cur}
        /\ Head(rx).arg = "error" /\ Head(rx).type = "CMD"
    BY <1>1, <1>3, <1>6, <2>1, TakesResponse
  <2>3. Finish("refused") /\ UNCHANGED <<pos, got>>
    BY <2>2 DEF ReadData
  <2>. QED
    BY <1>1, <1>3, <1>4, <1>6, <2>1, <2>2, <2>3, LinkAnswer DEF Finish
<1>7. CASE Types(rx) = <<"DATA">>
  <2>1. /\ 1 \in 1 .. Len(rx) /\ Head(rx) = rx[1] /\ Types(rx)[1] = rx[1].type
        /\ rx' \in Seq(Frame) /\ Types(rx)' = Tail(Types(rx))
    BY <1>1, ReceivesTypes, ReceivesFrames, ReceiveType DEF Waits
  <2>2. Types(rx)' = <<>>
    BY <1>7, <2>1
  <2>3. 1 .. Len(rx') = {}
    <3>1. rx' = <<>>
      BY <2>1, <2>2, TypesLen
    <3>. QED
      BY <3>1
  <2>4. Types(tx)' = <<"ACK">>
    <3>1. Ack(cur) \in Frame /\ Ack(cur).type = "ACK"
      BY DEF TypeInv, TypeOK, Ack, Signal, genPacket, Frame, FPType
    <3>. QED
      BY <1>1, <1>4, <3>1, HostSends, AppendTuples
  <2>5. \/ Head(rx) = Data(cur, pos) /\ dpos = pos + Chunk(ReadLen, pos)
        \/ Head(rx) = Empty(cur) /\ dpos = pos
    BY <1>1, <1>3, <1>7, <2>1 DEF InStep, Reading
  <2>6. /\ Head(rx).type = "DATA" /\ Head(rx).arg = "none" /\ Head(rx).id = cur
        /\ Head(rx) = Data(cur, pos) => Head(rx).pos = pos
        /\ Head(rx) = Empty(cur) => Head(rx).pos = ReadLen
    BY <2>5 DEF Empty, Data, genPacket
  <2>7. pos \in Nat /\ cur \in 0 .. MaxCalls /\ got \in Seq(Frame) /\ ReadLen \in Nat
        /\ Chunk(ReadLen, pos) \in Nat
    <3>1. pos \in Nat /\ cur \in 0 .. MaxCalls /\ got \in Seq(Frame) /\ ReadLen \in Nat
      BY SizesAssumption DEF TypeInv, TypeOK
    <3>2. pos <= ReadLen
      BY <1>5, <3>1
    <3>. QED
      BY <3>1, <3>2, ChunkType
  <2>8. /\ got' = IF Size(Head(rx)) = 6 THEN got ELSE Append(got, Head(rx))
        /\ pos' = pos + Size(Head(rx)) - 6
        /\ pc' = IF pos' < ReadLen THEN "rdata" ELSE "final"
    BY <2>6 DEF ReadData
  <2>9. /\ pos' = dpos
        /\ \/ got' = Append(got, Data(cur, pos)) /\ pos' = pos + Chunk(ReadLen, pos)
           \/ got' = got /\ pos' = pos
    <3>1. CASE Head(rx) = Data(cur, pos) /\ dpos = pos + Chunk(ReadLen, pos)
      <4>1. Size(Head(rx)) = 6 + Chunk(ReadLen, pos)
        BY <2>6, <3>1 DEF Size
      <4>2. Chunk(ReadLen, pos) # 0
        BY <1>5, <2>7, SizesAssumption DEF Chunk
      <4>. QED
        BY <2>7, <2>8, <3>1, <4>1, <4>2
    <3>2. CASE Head(rx) = Empty(cur) /\ dpos = pos
      <4>1. Chunk(ReadLen, ReadLen) = 0
        BY SizesAssumption DEF Chunk
      <4>2. Size(Head(rx)) = 6
        BY <2>6, <3>2, <4>1 DEF Size
      <4>. QED
        BY <2>7, <2>8, <3>2, <4>2
    <3>. QED
      BY <2>5, <3>1, <3>2
  <2>10. from' = {cur} /\ cur \notin failed /\ dst = "dataAck"
    <3>1. \A i \in 1 .. Len(rx) : rx[i].type = "DATA"
      <4>1. Len(rx) = 1 /\ rx[1].type = "DATA"
        BY <1>7, <2>1, EmptyTypes
      <4>. QED
        BY <4>1
    <3>. QED
      BY <1>1, <1>3, <1>4, <1>5, <1>7, <2>6, <3>1 DEF InStep, Word
  <2>11. IF pos' < ReadLen
         THEN \/ got' = Append(got, Data(cur, pos)) /\ pos' = pos + PacketSize
              \/ got' = got /\ pos' = pos
         ELSE /\ got' = Append(got, Data(cur, pos))
              /\ pos + PacketSize >= ReadLen /\ pos' = ReadLen
    BY <1>5, <2>7, <2>9, ChunkFull
  <2>12. /\ dst' = "dataAck" /\ dpos' = pos' /\ did' = cur' /\ dkind' = kind'
         /\ cur' \notin failed' /\ cur' = cur /\ kind' = "read" /\ from' = {cur'}
    BY <1>1, <1>5, <2>9, <2>10 DEF devVars
  <2>13. pc' \in {"rdata", "final"}
    BY <2>8
  <2>14. Turn' /\ Mine' /\ Word' /\ Writing'
    <3>1. Turn'
      BY <2>2, <2>4, <2>12, <2>13 DEF Turn
    <3>2. Mine'
      BY <2>3, <2>4, <2>12, <2>13 DEF Mine
    <3>3. Word'
      BY <2>3, <2>12, <2>13 DEF Word
    <3>4. Writing'
      BY <2>2, <2>12, <2>13 DEF Writing
    <3>. QED
      BY <3>1, <3>2, <3>3, <3>4
  <2>15. CASE pos' < ReadLen
    <3>1. Transfer(got', pos')
      BY <1>5, <2>7, <2>11, <2>15, TransferMore
    <3>2. Transfer(got, pos)'
      BY <2>12, <3>1 DEF Transfer
    <3>3. Reading'
      BY <2>2, <2>8, <2>12, <2>15, <3>2 DEF Reading
    <3>. QED
      BY <2>14, <3>3 DEF InStep
  <2>16. CASE ~(pos' < ReadLen)
    <3>1. got' = Chunks(cur, ReadLen) /\ pos' = ReadLen /\ pc' = "final"
      BY <1>5, <2>7, <2>8, <2>11, <2>16, TransferWhole
    <3>2. got' = Chunks(cur, ReadLen)'
      BY <2>12, <3>1 DEF Chunks, Data
    <3>3. Reading'
      BY <2>12, <3>1, <3>2 DEF Reading
    <3>. QED
      BY <2>14, <3>3 DEF InStep
  <2>. QED
    BY <2>15, <2>16
<1>. QED
  BY <1>4, <1>6, <1>7

\* The next packet of a write, behind the ACK of the response or alone.
LEMMA LinkSendData ==
    ASSUME TypeInv, LinkInv, SendData
    PROVE  LinkInv'
<1> DEFINE f == Data(cur, pos)
<1>1. /\ pc = "wsend" /\ pc' = "wack" /\ tx' = Append(tx, f) /\ Types(rx)' = Types(rx)
      /\ UNCHANGED <<cur, kind, pos, got, from, faults, rx, devVars>>
  BY DEF SendData, Types
<1>2. f \in Frame /\ f.type = "DATA"
  BY DEF TypeInv, TypeOK, Data, genPacket, Frame, FPType
<1>3. f = Data(cur, pos)'
  BY <1>1 DEF Data
<1> HIDE DEF f
<1>4. SUFFICES ASSUME faults <= 1
               PROVE  InStep'
  BY <1>1 DEF LinkInv
<1>5. InStep
  BY <1>1, <1>4, PastAck
<1>6. /\ Types(rx) = <<>> /\ rx = <<>>
      /\ \/ Types(tx) = <<"ACK">> /\ dst = "respAck"
         \/ Types(tx) = <<>> /\ dst = "recv"
  BY <1>1, <1>5, EmptyTypes DEF InStep, Turn
<1>7. Types(tx)' = Append(Types(tx), "DATA") /\ tx'[Len(tx')] = f
  BY <1>1, <1>2, HostSends
<1>8. \/ Types(tx)' = <<"ACK", "DATA">> /\ dst = "respAck"
      \/ Types(tx)' = <<"DATA">> /\ dst = "recv"
  BY <1>6, <1>7, AppendTuples
<1>9. /\ did = cur /\ dkind = kind /\ from = {cur} /\ cur \notin failed
      /\ kind = "write" /\ pos < WriteLen /\ Transfer(stored, pos) /\ dpos = pos
      /\ dst = "respAck" => stored = <<>>
  BY <1>1, <1>5, <1>6 DEF InStep, Mine, Word, Reading, Writing
<1>10. Turn'
  BY <1>1, <1>6, <1>8 DEF Turn, devVars
<1>11. Mine'
  <2>1. Types(tx)' # <<"CMD">>
    BY <1>8
  <2>. QED
    BY <1>1, <1>6, <1>9, <2>1 DEF Mine, devVars
<1>12. Word'
  BY <1>1, <1>6, <1>9 DEF Word, devVars
<1>13. Reading'
  BY <1>1, <1>5 DEF InStep, Reading
<1>14. Writing'
  <2>1. Types(tx)' # <<>>
    BY <1>8
  <2>2. Transfer(stored, pos)'
    BY <1>1, <1>9 DEF Transfer, devVars
  <2>3. /\ pc' = "wack" /\ kind' = "write" /\ pos' < WriteLen /\ dpos' = pos'
        /\ Types(rx)' = <<>> /\ tx'[Len(tx')] = Data(cur, pos)'
        /\ dst' = "respAck" => stored' = <<>>
        /\ dst' # "exec"
    BY <1>1, <1>3, <1>6, <1>7, <1>9 DEF devVars
  <2>. QED
    BY <2>1, <2>2, <2>3 DEF Writing
<1>. QED
  BY <1>10, <1>11, <1>12, <1>13, <1>14 DEF InStep

\* A packet is acknowledged: the next one, or the final response.
LEMMA LinkDataAcked ==
    ASSUME TypeInv, LinkInv, DataAcked
    PROVE  LinkInv'
<1>1. /\ Receives("wack") /\ pc = "wack" /\ pos' = pos + PacketSize
      /\ pc' = IF pos' < WriteLen THEN "wsend" ELSE "final"
      /\ UNCHANGED <<cur, kind, got, from, faults, tx, devVars>> /\ Types(tx)' = Types(tx)
  BY DEF DataAcked, Receives, Types
<1>2. Types(rx)' = Tail(Types(rx)) /\ Types(rx) # <<>> /\ Head(Types(rx)) = "ACK"
  <2>1. "wack" \in Waits /\ Accepts["wack"] = {"ACK"}
    BY DEF Waits, Accepts
  <2>. QED
    BY <1>1, <2>1, ReceivesTypes
<1>3. SUFFICES ASSUME faults <= 1
               PROVE  InStep'
  BY <1>1 DEF LinkInv
<1>4. InStep
  BY <1>1, <1>3, PastAck
<1>5. /\ Types(tx) = <<>>
      /\ \/ Types(rx) = <<"ACK">> /\ dst \in {"recv", "finish"}
         \/ Types(rx) = <<"ACK", "CMD">> /\ dst = "endAck"
  BY <1>1, <1>2, <1>4 DEF InStep, Turn
<1>6. \A i \in 1 .. Len(rx') : i + 1 \in 1 .. Len(rx) /\ rx'[i] = rx[i + 1]
  BY <1>1, ReceivesFrames DEF Waits
<1>7. \/ Types(rx) = <<"ACK">> /\ Types(rx)' = <<>> /\ dst \in {"recv", "finish"}
      \/ Types(rx) = <<"ACK", "CMD">> /\ Types(rx)' = <<"CMD">> /\ dst = "endAck"
  <2>1. ASSUME Types(rx) = <<"ACK">> PROVE Types(rx)' = <<>>
    BY <1>2, <2>1
  <2>2. ASSUME Types(rx) = <<"ACK", "CMD">> PROVE Types(rx)' = <<"CMD">>
    BY <1>2, <2>2
  <2>. QED
    BY <1>5, <2>1, <2>2
<1>8. /\ did = cur /\ dkind = kind /\ from = {cur} /\ kind = "write" /\ got = <<>>
      /\ dst = "recv" => /\ dpos = pos + PacketSize /\ dpos < WriteLen
                         /\ Transfer(stored, dpos)
      /\ dst # "recv" => pos + PacketSize >= WriteLen /\ stored = Chunks(cur, WriteLen)
  BY <1>1, <1>4, <1>5 DEF InStep, Mine, Reading, Writing
<1>9. /\ UNCHANGED <<cur, kind, failed, dst, did, dkind, dpos, stored>> /\ Types(tx)' = <<>>
      /\ dst = "recv" => pc' = "wsend" /\ pos' = dpos
      /\ dst # "recv" => pc' = "final"
  <2>1. dst = "recv" => pos' < WriteLen
    BY <1>1, <1>8
  <2>2. dst # "recv" => ~(pos' < WriteLen)
    <3>1. pos \in Nat /\ WriteLen \in Nat
      BY SizesAssumption DEF TypeInv, TypeOK
    <3>. QED
      BY <1>1, <1>8, <3>1, SizesAssumption
  <2>. QED
    BY <1>1, <1>5, <1>8, <2>1, <2>2 DEF devVars
<1>10. \A i \in 1 .. Len(rx') : /\ rx'[i].id = cur
                                /\ rx'[i].type = "CMD" =>
                                     /\ rx'[i].arg \in Status
                                     /\ rx'[i].arg = "error" <=> cur \in failed
                                /\ rx'[i].type = "ABORT" => cur \in failed
  BY <1>4, <1>6 DEF InStep, Mine, Word
<1>11. cur \in failed => /\ dst = "endAck"
                         /\ \E i \in 1 .. Len(rx') : rx'[i].type \in {"CMD", "ABORT"}
  <2>1. ASSUME Types(rx) = <<"ACK">> PROVE cur \notin failed
    <3>1. \A i \in 1 .. Len(rx) : rx[i].type = "ACK"
      <4>1. Len(rx) = 1 /\ \A i \in 1 .. Len(rx) : rx[i].type = Types(rx)[i]
        BY <2>1, EmptyTypes
      <4>. QED
        BY <2>1, <4>1
    <3>. QED
      BY <1>1, <1>4, <3>1 DEF InStep, Word
  <2>2. ASSUME Types(rx)' = <<"CMD">> PROVE 1 \in 1 .. Len(rx') /\ rx'[1].type = "CMD"
    <3>1. rx' \in Seq(Frame) /\ Types(rx') = <<"CMD">>
      BY <1>1, <2>2, ReceiveType DEF Waits
    <3>. QED
      BY <3>1, TypesLen
  <2>. QED
    BY <1>7, <2>1, <2>2
<1>12. Turn'
  BY <1>7, <1>9 DEF Turn
<1>13. Mine'
  BY <1>1, <1>8, <1>9, <1>10 DEF Mine
<1>14. Word'
  BY <1>7, <1>9, <1>10, <1>11 DEF Word
<1>15. Reading'
  BY <1>1, <1>8, <1>9 DEF Reading
<1>16. Writing'
  <2>1. CASE dst = "recv"
    <3>1. Transfer(stored, pos)'
      BY <1>8, <1>9, <2>1 DEF Transfer
    <3>2. pc' = "wsend" /\ kind' = "write" /\ pos' < WriteLen /\ dpos' = pos' /\ dst' = "recv"
      BY <1>8, <1>9, <2>1
    <3>. QED
      BY <3>1, <3>2 DEF Writing
  <2>2. CASE dst # "recv"
    <3>1. stored' = Chunks(cur, WriteLen)'
      BY <1>8, <1>9, <2>2 DEF Chunks, Data
    <3>2. pc' = "final" /\ kind' = "write" /\ dst' \notin {"exec", "respAck"} /\ Types(tx)' = <<>>
      BY <1>5, <1>8, <1>9, <2>2
    <3>. QED
      BY <3>1, <3>2 DEF Writing
  <2>. QED
    BY <2>1, <2>2
<1>. QED
  BY <1>12, <1>13, <1>14, <1>15, <1>16 DEF InStep

\* The final response ends the call with its status.
LEMMA LinkFinalResponse ==
    ASSUME TypeInv, FailInv, LinkInv, FinalResponse
    PROVE  LinkInv'
<1>1. /\ Receives("final") /\ pc = "final" /\ pc' = "idle"
      /\ tx' = Append(tx, Ack(cur)) /\ from' = from \cup {Head(rx).id}
      /\ out' = IF Head(rx).arg = "success" THEN "ok" ELSE "refused"
      /\ UNCHANGED <<cur, kind, got, faults, devVars>>
  BY DEF FinalResponse, Receives, Finish
<1>2. SUFFICES ASSUME faults <= 1
               PROVE  Idle'
  BY <1>1 DEF LinkInv
<1>3. InStep
  BY <1>1, <1>2, PastAck
<1>4. Types(rx) = <<"CMD">> /\ dst = "endAck"
  <2>1. Types(rx) # <<>>
    BY <1>1, ReceivesTypes DEF Waits
  <2>. QED
    BY <1>1, <1>3, <2>1 DEF InStep, Turn
<1>5. /\ Types(tx) = <<>> /\ Types(tx)' = <<"ACK">> /\ Types(rx)' = <<>> /\ from' = {cur}
      /\ Head(rx).arg \in Status /\ (Head(rx).arg = "error" <=> cur \in failed)
  BY <1>1, <1>3, <1>4, TakesResponse
<1>6. /\ kind = "read" => got = Chunks(cur, ReadLen)
      /\ kind = "write" /\ cur \notin failed => stored = Chunks(cur, WriteLen)
  BY <1>1, <1>3 DEF InStep, Reading, Writing
<1>7. \/ out' = "refused" /\ cur \in failed
      \/ out' = "ok" /\ cur \notin failed
  BY <1>1, <1>5 DEF Status
<1>. QED
  BY <1>1, <1>3, <1>4, <1>5, <1>6, <1>7, LinkAnswer

\* The first wait that expires leaves the end of a call, or its ping.  The
\* invariant says nothing after the second one.
LEMMA LinkTimeout ==
    ASSUME TypeInv, LinkInv, NEW w \in Waits, Timeout(w)
    PROVE  LinkInv'
<1>1. /\ pc = w /\ Types(rx)' = <<>> /\ Types(tx)' = Types(tx) /\ pc' = "idle"
      /\ faults' = faults + 1 /\ out' = "broken" /\ faults \in Nat
      /\ UNCHANGED <<cur, kind, devVars>>
  BY DEF Timeout, Finish, Types, TypeInv, TypeOK
<1>2. SUFFICES ASSUME faults = 0
               PROVE  Idle'
  BY <1>1 DEF LinkInv
<1>3. faults' = 1 /\ Verdict'
  BY <1>1, <1>2 DEF Verdict
<1>4. dst' = dst /\ dkind' = dkind
  BY <1>1 DEF devVars
<1>5. Pinging \/ InStep
  BY <1>1, <1>2 DEF LinkInv, Idle, Behind, Waits
<1>6. CASE Pinging
  <2>1. \/ Types(tx) = <<"PING">> /\ dst = "idle"
        \/ Types(tx) = <<"ACK", "PING">> /\ dst = "endAck"
        \/ Types(tx) = <<>> /\ dst = "idle"
    BY <1>2, <1>6 DEF Pinging
  <2>2. Clean' \/ Owed'
    BY <1>1, <1>4, <2>1 DEF Clean, Owed, Quiet
  <2>. QED
    BY <1>1, <1>3, <2>2 DEF Idle
<1>7. CASE InStep
  <2>1. \/ Types(tx) = <<"CMD">> /\ dst = "idle"
        \/ Types(tx) = <<>>
        \/ Types(tx) = <<"ACK">> /\ dst \in DevAckStates
        \/ Types(tx) = <<"DATA">> /\ dst = "recv"
        \/ Types(tx) = <<"ACK", "DATA">> /\ dst = "respAck" /\ pc = "wack"
    BY <1>7 DEF InStep, Turn, DevAckStates
  <2>2. pc = "wack" /\ Types(tx) = <<"ACK", "DATA">> => dkind = "write" /\ WriteLen > 0
    <3>1. pos \in Nat /\ WriteLen \in Nat
      BY SizesAssumption DEF TypeInv, TypeOK
    <3>2. ASSUME pc = "wack", Types(tx) = <<"ACK", "DATA">>
          PROVE  dkind = "write" /\ pos < WriteLen
      BY <1>7, <3>2 DEF InStep, Mine, Writing
    <3>. QED
      BY <3>1, <3>2
  <2>3. dst \in DevStates
    BY DEF TypeInv, TypeOK
  <2>4. Leftover(Types(tx), Types(rx))'
    <3>1. CASE Types(tx) = <<>>
      BY <1>1, <1>4, <2>3, <3>1 DEF Leftover, Rests, Quiet, DevStates
    <3>2. CASE Types(tx) = <<"ACK">> /\ dst \in DevAckStates
      BY <1>1, <1>4, <3>2 DEF Leftover
    <3>3. CASE \/ Types(tx) = <<"CMD">> /\ dst = "idle"
               \/ Types(tx) = <<"DATA">> /\ dst = "recv"
      BY <1>1, <1>4, <3>3 DEF Leftover
    <3>4. CASE Types(tx) = <<"ACK", "DATA">> /\ dst = "respAck" /\ pc = "wack"
      BY <1>1, <1>4, <2>2, <3>4 DEF Leftover
    <3>. QED
      BY <2>1, <3>1, <3>2, <3>3, <3>4
  <2>. QED
    BY <1>1, <1>3, <2>4 DEF Idle
<1>. QED
  BY <1>5, <1>6, <1>7

\* The first frame of a stream, and how many follow it.
LEMMA FirstType ==
    ASSUME TypeInv, Types(rx) # <<>>
    PROVE  /\ rx # <<>> /\ 1 \in 1 .. Len(rx) /\ Head(rx) = rx[1]
           /\ Head(rx).type = Types(rx)[1] /\ Len(rx) = Len(Types(rx))
<1>1. rx \in Seq(Frame) /\ rx # <<>>
  BY EmptyTypes, TypesLen DEF TypeInv, TypeOK
<1>2. 1 \in 1 .. Len(rx) /\ Head(rx) = rx[1]
  BY <1>1
<1>. QED
  BY <1>1, <1>2, EmptyTypes

\* A ping that reads what an abandoned call left reads it all, unless the
\* answer to the ping is behind it.
LEMMA PingSkips ==
    ASSUME TypeInv, NEW r \in Rests, r # <<>>, rx' = Consume(rx, 10)
    PROVE  /\ Types(rx) = r => Types(rx)' = <<>>
           /\ Types(rx) = Append(r, "PINGR") => Types(rx)' \in {<<>>, <<"PINGR">>}
<1>1. \/ \E x \in {"ACK", "ABORT", "CMD", "DATA"} :
            r = <<x>> /\ Append(r, "PINGR") = <<x, "PINGR">>
      \/ \E x \in {"ACK", "ABORT"} :
            r = <<x, "CMD">> /\ Append(r, "PINGR") = <<x, "CMD", "PINGR">>
  BY BehindRests
<1>2. ASSUME NEW x \in {"ACK", "ABORT", "CMD", "DATA"}, Types(rx) = <<x>>
      PROVE  Types(rx)' = <<>>
  <2>1. rx \in Seq(Frame) /\ Len(rx) = 1
    BY <1>2, EmptyTypes DEF TypeInv, TypeOK
  <2>2. Upto(rx)[0] = 0
    <3>1. Len(rx) <= 3
      BY <2>1
    <3>. QED
      BY <2>1, <3>1, UptoShort
  <2>3. \A i \in 1 .. Len(rx) : Upto(rx)[i - 1] < 10 <=> i <= 1
    BY <2>1, <2>2
  <2>4. rx' \in Seq(Frame) /\ Len(rx') = 0
    <3>1. 1 \in 0 .. Len(rx) /\ 10 \in Nat /\ Len(rx) - 1 = 0
      BY <2>1
    <3>2. Consume(rx, 10) \in Seq(Frame) /\ Len(Consume(rx, 10)) = Len(rx) - 1
      BY <2>1, <2>3, <3>1, ConsumeIs
    <3>. QED
      BY <3>1, <3>2
  <2>5. rx' = <<>>
    BY <2>4, EmptySeq
  <2>. QED
    BY <2>4, <2>5, TypesLen
<1>3. ASSUME NEW x \in {"ACK", "ABORT"}, Types(rx) = <<x, "CMD">>
      PROVE  Types(rx)' = <<>>
  <2>1. Len(rx) = 2 /\ rx[1].type = x /\ rx[2].type = "CMD"
    BY <1>3, EmptyTypes
  <2>2. Size(rx[1]) = 2 /\ Size(rx[2]) = 18
    BY <2>1, Sizes
  <2>. QED
    BY <2>1, <2>2, ConsumeTwo
<1>4. ASSUME NEW x \in {"ACK", "ABORT", "CMD", "DATA"}, Types(rx) = <<x, "PINGR">>
      PROVE  Types(rx)' \in {<<>>, <<"PINGR">>}
  <2>1. Len(rx) = 2 /\ rx[2].type = "PINGR"
    BY <1>4, EmptyTypes
  <2>2. Size(rx[1]) \in Nat /\ Size(rx[2]) = 10
    BY <2>1, Sizes
  <2>3. CASE Size(rx[1]) < 10
    BY <2>1, <2>2, <2>3, ConsumeTwo
  <2>4. CASE Size(rx[1]) >= 10
    <3>1. rx # <<>>
      BY <1>4, FirstType
    <3>2. Types(rx)' = Tail(Types(rx))
      BY <2>1, <2>4, <3>1, ConsumeOne
    <3>. QED
      BY <1>4, <3>2
  <2>. QED
    BY <2>2, <2>3, <2>4
<1>5. ASSUME NEW x \in {"ACK", "ABORT"}, Types(rx) = <<x, "CMD", "PINGR">>
      PROVE  Types(rx)' = <<"PINGR">>
  <2>1. Len(rx) = 3 /\ rx[1].type = x /\ rx[2].type = "CMD"
    BY <1>5, EmptyTypes
  <2>2. Size(rx[1]) = 2 /\ Size(rx[2]) = 18
    BY <2>1, Sizes
  <2>3. Types(rx)' = <<Types(rx)[3]>>
    BY <2>1, <2>2, ConsumeTwo
  <2>. QED
    BY <1>5, <2>3
<1>. QED
  BY <1>1, <1>2, <1>3, <1>4, <1>5

\* A lone ACK or ABORT is too short for the wait for a ping's answer.
LEMMA PingWaits ==
    ASSUME TypeInv, NEW x \in {"ACK", "ABORT"}, Types(rx) = <<x>>
    PROVE  ~Ready("ping")
<1>1. Len(rx) = 1 /\ rx[1].type = x /\ Head(rx) = rx[1] /\ rx \in Seq(Frame)
  BY FirstType, EmptyTypes DEF TypeInv, TypeOK
<1>2. Size(rx[1]) = 2
  BY <1>1, Sizes
<1>3. Upto(rx)[1] = 2
  <2>1. Len(rx) <= 3 /\ Len(rx) >= 1
    BY <1>1
  <2>2. Upto(rx)[1] = 0 + Size(rx[1])
    BY <1>1, <2>1, UptoShort
  <2>. QED
    BY <1>2, <2>2
<1>. QED
  BY <1>1, <1>3 DEF Ready, Needed, Accepts, Waits

\* What an abandoned call left is read in place of the answer to a ping.
LEMMA LinkMismatchPing ==
    ASSUME TypeInv, Pinging, faults <= 1, Mismatch("ping")
    PROVE  Idle'
<1>1. /\ Ready("ping") /\ rx' = Consume(rx, 10) /\ Head(rx).type # "PINGR" /\ rx # <<>>
      /\ pc' = "idle" /\ out' = "broken" /\ Types(tx)' = Types(tx)
      /\ UNCHANGED <<faults, devVars>>
  BY DEF Mismatch, Needed, Accepts, Ready, Finish, Waits, Types
<1>2. /\ Types(rx) # <<>> /\ Types(rx)[1] # "PINGR"
      /\ dst' = dst
  <2>1. Types(rx) # <<>>
    BY <1>1, TypesLen DEF TypeInv, TypeOK
  <2>. QED
    BY <1>1, <2>1, FirstType DEF devVars
<1>3. /\ faults = 1
      /\ \/ Types(rx) \in Rests /\ Types(tx) = <<"PING">> /\ dst \in Quiet
         \/ /\ Types(tx) = <<>> /\ dst = "idle"
            /\ \E r \in Rests : r # <<>> /\ Types(rx) = Append(r, "PINGR")
  <2>1. /\ faults = 1
        /\ \/ \E t \in Pendings : Types(tx) = Append(t, "PING") /\ Leftover(t, Types(rx))
           \/ /\ Types(tx) = <<>> /\ dst = "idle"
              /\ \E r \in Rests : Types(rx) = Append(r, "PINGR")
    BY <1>2 DEF Pinging, Twice
  <2>2. ASSUME NEW t \in Pendings, Types(tx) = Append(t, "PING"), Leftover(t, Types(rx))
        PROVE  Types(rx) \in Rests /\ Types(tx) = <<"PING">> /\ dst \in Quiet
    <3>1. t = <<>>
      BY <1>2, <2>2 DEF Leftover
    <3>2. Types(rx) \notin {<<"ACK">>, <<"ABORT">>}
      BY <1>1, PingWaits
    <3>3. Types(rx) \in Rests /\ dst \in Quiet
      BY <1>2, <2>2, <3>1, <3>2 DEF Leftover
    <3>. QED
      BY <2>2, <3>1, <3>3, AppendTuples
  <2>3. ASSUME NEW r \in Rests, Types(rx) = Append(r, "PINGR") PROVE r # <<>>
    <3>1. SUFFICES ASSUME r = <<>> PROVE FALSE
      OBVIOUS
    <3>2. Types(rx) = <<"PINGR">>
      BY <2>3, <3>1, AppendTuples
    <3>. QED
      BY <1>2, <3>2
  <2>. QED
    BY <2>1, <2>2, <2>3
<1>4. Verdict'
  BY <1>1, <1>3 DEF Verdict
<1>5. CASE Types(rx) \in Rests /\ Types(tx) = <<"PING">> /\ dst \in Quiet
  <2>1. Types(rx)' = <<>>
    BY <1>1, <1>2, <1>5, PingSkips
  <2>2. Owed'
    BY <1>1, <1>2, <1>5, <2>1 DEF Owed
  <2>. QED
    BY <1>1, <1>3, <1>4, <2>2 DEF Idle
<1>6. CASE /\ Types(tx) = <<>> /\ dst = "idle"
           /\ \E r \in Rests : r # <<>> /\ Types(rx) = Append(r, "PINGR")
  <2>1. Types(rx)' \in {<<>>, <<"PINGR">>}
    BY <1>1, <1>6, PingSkips
  <2>2. Clean' \/ Owed'
    BY <1>1, <1>2, <1>6, <2>1 DEF Clean, Owed
  <2>. QED
    BY <1>1, <1>3, <1>4, <2>2 DEF Idle
<1>. QED
  BY <1>3, <1>5, <1>6

\* A host that is a ping behind reads the answer in place of the ACK.
LEMMA LinkMismatchAck ==
    ASSUME TypeInv, Behind, Mismatch("ack")
    PROVE  Idle'
<1>1. /\ rx' = Consume(rx, 2) /\ rx # <<>> /\ faults = 1
      /\ pc' = "idle" /\ out' = "broken" /\ Types(tx)' = Types(tx)
      /\ UNCHANGED <<faults, devVars>> /\ dst' = dst
  BY DEF Mismatch, Needed, Ready, Finish, Waits, Types, Behind, devVars
<1>2. Types(rx) # <<>>
  BY <1>1, TypesLen DEF TypeInv, TypeOK
<1>3. \/ Types(rx) = <<"PINGR">> /\ Types(tx) = <<"CMD">> /\ dst = "idle"
      \/ Types(rx) = <<"PINGR", "ACK">> /\ Types(tx) = <<>> /\ dst = "exec"
      \/ /\ Types(rx) = <<"PINGR", "ACK", "CMD">> /\ Types(tx) = <<>>
         /\ dst \in {"respAck", "endAck"}
  BY <1>2 DEF Behind
<1>4. Types(rx)' = Tail(Types(rx))
  <2>1. Len(rx) \in {1, 2, 3} /\ Types(rx)[1] = "PINGR"
    BY <1>3, EmptyTypes
  <2>2. rx[1].type = "PINGR" /\ 1 \in 1 .. Len(rx)
    BY <1>2, <2>1, FirstType
  <2>3. Size(rx[1]) >= 2 /\ Len(rx) <= 3
    BY <2>1, <2>2, Sizes
  <2>. QED
    BY <1>1, <2>3, ConsumeOne
<1>5. Verdict'
  BY <1>1 DEF Verdict
<1>6. Leftover(Types(tx), Types(rx))'
  <2>1. CASE Types(rx) = <<"PINGR">>
    <3>1. Types(rx)' = <<>> /\ Types(tx)' = <<"CMD">> /\ dst' = "idle"
      BY <1>1, <1>3, <1>4, <2>1
    <3>. QED
      BY <3>1 DEF Leftover
  <2>2. CASE Types(rx) = <<"PINGR", "ACK">>
    <3>1. Types(rx)' = <<"ACK">>
      BY <1>4, <2>2
    <3>2. Types(tx)' = <<>> /\ dst' = "exec"
      BY <1>1, <1>3, <2>2
    <3>. QED
      BY <3>1, <3>2 DEF Leftover
  <2>3. CASE Types(rx) = <<"PINGR", "ACK", "CMD">>
    <3>1. Types(rx)' = <<"ACK", "CMD">>
      BY <1>4, <2>3
    <3>2. Types(tx)' = <<>> /\ dst' \in Quiet
      BY <1>1, <1>3, <2>3 DEF Quiet, DevAckStates
    <3>. QED
      BY <3>1, <3>2 DEF Leftover, Rests
  <2>. QED
    BY <1>3, <2>1, <2>2, <2>3
<1>. QED
  BY <1>1, <1>5, <1>6 DEF Idle

\* In step, the only frame of a wrong type is the ABORT of a data phase.
LEMMA LinkMismatchInStep ==
    ASSUME TypeInv, InStep, NEW w \in Waits, Mismatch(w)
    PROVE  InStep'
<1>1. /\ pc = w /\ rx # <<>> /\ Head(rx).type \notin Accepts[w]
      /\ rx' = Consume(rx, Needed[w])
      /\ UNCHANGED <<cur, kind, pos, got, from, devVars>> /\ Types(tx)' = Types(tx)
  BY DEF Mismatch, Ready, Types
<1>2. Types(rx) # <<>> /\ Types(rx)[1] \notin Accepts[w] /\ Head(rx) = rx[1]
  <2>1. Types(rx) # <<>>
    BY <1>1, TypesLen DEF TypeInv, TypeOK
  <2>. QED
    BY <1>1, <2>1, FirstType
<1>3. /\ pc = "wack" /\ w = "wack" /\ Types(tx) = <<>>
      /\ \/ Types(rx) = <<"ABORT">> /\ dst = "finish"
         \/ Types(rx) = <<"ABORT", "CMD">> /\ dst = "endAck"
  BY <1>1, <1>2 DEF InStep, Turn, Accepts, Waits
<1>4. pc' = "final" /\ rx' = Consume(rx, 2)
  BY <1>1, <1>3 DEF Mismatch, Needed, Waits
<1>5. /\ Types(rx)' = Tail(Types(rx))
      /\ \A i \in 1 .. Len(rx') : i + 1 \in 1 .. Len(rx) /\ rx'[i] = rx[i + 1]
  <2>1. Len(rx) \in {1, 2} /\ Types(rx)[1] = "ABORT"
    BY <1>3, EmptyTypes
  <2>2. rx[1].type = "ABORT" /\ 1 \in 1 .. Len(rx)
    BY <1>2, <2>1, FirstType
  <2>3. Size(rx[1]) >= 2 /\ Len(rx) <= 3
    BY <2>1, <2>2, Sizes
  <2>. QED
    BY <1>1, <1>4, <2>3, ConsumeOne
<1>6. \/ Types(rx)' = <<>> /\ dst = "finish"
      \/ Types(rx)' = <<"CMD">> /\ dst = "endAck"
  <2>1. ASSUME Types(rx) = <<"ABORT">> PROVE Types(rx)' = <<>>
    BY <1>5, <2>1
  <2>2. ASSUME Types(rx) = <<"ABORT", "CMD">> PROVE Types(rx)' = <<"CMD">>
    BY <1>5, <2>2
  <2>. QED
    BY <1>3, <2>1, <2>2
<1>7. /\ did = cur /\ dkind = kind /\ from = {cur} /\ kind = "write" /\ cur \in failed
  <2>1. rx[1].type = "ABORT" /\ 1 \in 1 .. Len(rx)
    BY <1>2, <1>3, FirstType
  <2>. QED
    BY <1>3, <2>1 DEF InStep, Mine, Word, Writing
<1>8. /\ UNCHANGED <<cur, kind, from, dst, did, dkind, failed>> /\ Types(tx)' = <<>>
  BY <1>1, <1>3 DEF devVars
<1>9. \A i \in 1 .. Len(rx') : /\ rx'[i].id = cur
                               /\ rx'[i].type = "CMD" =>
                                    /\ rx'[i].arg \in Status
                                    /\ rx'[i].arg = "error" <=> cur \in failed
  BY <1>5 DEF InStep, Mine, Word
<1>10. dst = "endAck" => \E i \in 1 .. Len(rx') : rx'[i].type \in {"CMD", "ABORT"}
  <2>1. SUFFICES ASSUME Types(rx)' = <<"CMD">>
                 PROVE  1 \in 1 .. Len(rx') /\ rx'[1].type = "CMD"
    BY <1>6
  <2>2. rx' \in Seq(Frame) /\ Types(rx') = <<"CMD">>
    BY <1>4, <2>1, ConsumeType DEF TypeInv, TypeOK
  <2>. QED
    BY <2>2, TypesLen
<1>11. Turn'
  BY <1>4, <1>6, <1>8 DEF Turn
<1>12. Mine'
  BY <1>4, <1>7, <1>8, <1>9 DEF Mine
<1>13. Word'
  BY <1>4, <1>6, <1>7, <1>8, <1>9, <1>10 DEF Word
<1>14. Reading' /\ Writing'
  BY <1>4, <1>6, <1>7, <1>8 DEF Reading, Writing
<1>. QED
  BY <1>11, <1>12, <1>13, <1>14 DEF InStep

\* A frame of a type the wait does not accept.
LEMMA LinkMismatch ==
    ASSUME TypeInv, LinkInv, NEW w \in Waits, Mismatch(w)
    PROVE  LinkInv'
<1>1. pc = w /\ faults' = faults
  BY DEF Mismatch
<1>2. SUFFICES ASSUME faults <= 1
               PROVE  Idle' \/ InStep'
  BY <1>1 DEF LinkInv
<1>3. CASE Pinging
  BY <1>1, <1>2, <1>3, LinkMismatchPing DEF Pinging
<1>4. CASE Behind
  BY <1>1, <1>2, <1>4, LinkMismatchAck DEF Behind
<1>5. CASE InStep
  BY <1>5, LinkMismatchInStep
<1>. QED
  BY <1>1, <1>2, <1>3, <1>4, <1>5 DEF LinkInv, Idle, Waits

-----------------------------------------------------------------------------
(* The invariants of the link, and what they say of its answers.           *)

\* The device reports errors for commands it executed, and the data phase it
\* is in belongs to one.
LEMMA FailInductive ==
    ASSUME TypeInv, OnceInv, FailInv, [Next]_vars
    PROVE  FailInv'
<1>1. ASSUME UNCHANGED <<execd, failed>>, dst' \in {"idle", "exec"}
      PROVE  FailInv'
  BY <1>1 DEF FailInv, DevAckStates
<1>2. ASSUME UNCHANGED execd, did' = did, failed' \subseteq failed \cup {did},
             dst \in {"data", "recv", "finish"} \cup DevAckStates
      PROVE  FailInv'
  BY <1>2 DEF FailInv
<1>3. CASE UNCHANGED vars
  BY <1>3 DEF vars, devVars, FailInv
<1>4. CASE (\E k \in Kinds : Call(k)) \/ HostStep
  <2>1. UNCHANGED devVars
    BY <1>4 DEF Call, HostStep, PingOk, CommandAcked, Response, ReadData, SendData,
                DataAcked, FinalResponse, Mismatch, Timeout
  <2>. QED
    BY <2>1 DEF devVars, FailInv
<1>5. CASE Restart \/ DevPing \/ DevCommand
  BY <1>1, <1>5 DEF Restart, DevPing, DevCommand
<1>6. CASE DevIgnore
  BY <1>6 DEF DevIgnore, devVars, FailInv
<1>7. CASE DevExecute
  <2>1. /\ did \in Calls /\ execd \in [Calls -> Nat] /\ did' = did
        /\ execd' = [execd EXCEPT ![did] = @ + 1] /\ failed' \subseteq failed \cup {did}
    BY <1>7 DEF DevExecute, OnceInv, TypeInv, TypeOK
  <2>2. execd'[did] > 0 /\ \A c \in Calls : execd[c] > 0 => execd'[c] > 0
    BY <2>1
  <2>. QED
    BY <2>1, <2>2 DEF FailInv
<1>8. CASE DevAcked
  BY <1>2, <1>8 DEF DevAcked
<1>9. CASE DevData \/ DevStore \/ DevFinish
  BY <1>2, <1>9 DEF DevData, DevStore, DevFinish
<1>. QED
  BY <1>3, <1>4, <1>5, <1>6, <1>7, <1>8, <1>9 DEF Next, DevStep

\* No step of either side breaks the invariant.
LEMMA LinkInductive ==
    ASSUME TypeInv, OnceInv, FailInv, LinkInv, [Next]_vars
    PROVE  LinkInv'
<1>1. CASE UNCHANGED vars
  <2>1. /\ UNCHANGED <<pc, cur, kind, pos, got, from, out, faults, tx, rx>>
        /\ UNCHANGED <<dst, did, dkind, dpos, stored, execd, failed>>
        /\ Types(tx)' = Types(tx) /\ Types(rx)' = Types(rx)
    BY <1>1 DEF vars, hostVars, devVars, Types
  <2>2. /\ Clean => Clean'
        /\ Owed => Owed'
        /\ Twice => Twice'
        /\ \A t, r : Leftover(t, r) => Leftover(t, r)'
    BY <2>1 DEF Clean, Owed, Twice, Leftover
  <2>3. Idle => Idle'
    <3>1. Verdict => Verdict'
      <4>1. Clean => Clean'
        BY <2>2
      <4>. QED
        BY <2>1, <4>1 DEF Verdict, Chunks, Data
    <3>2. Leftover(Types(tx), Types(rx)) => Leftover(Types(tx), Types(rx))'
      BY <2>1 DEF Leftover
    <3>. QED
      BY <2>1, <2>2, <3>1, <3>2 DEF Idle
  <2>4. Pinging => Pinging'
    <3>1. \A t \in Pendings : Leftover(t, Types(rx)) => Leftover(t, Types(rx))'
      BY <2>1 DEF Leftover
    <3>. QED
      BY <2>1, <2>2, <3>1 DEF Pinging
  <2>5. Behind => Behind'
    BY <2>1 DEF Behind
  <2>6. InStep => InStep'
    BY <2>1 DEF InStep, Turn, Mine, Word, Reading, Writing, Transfer, Chunks, Data
  <2>. QED
    BY <2>1, <2>3, <2>4, <2>5, <2>6 DEF LinkInv
<1>2. CASE \E k \in Kinds : Call(k)
  BY <1>2, LinkCall
<1>3. CASE Restart
  BY <1>3, LinkRestart
<1>4. CASE HostStep
  BY <1>4, LinkPingOk, LinkCommandAcked, LinkResponse, LinkReadData, LinkSendData,
     LinkDataAcked, LinkFinalResponse, LinkMismatch, LinkTimeout DEF HostStep
<1>5. CASE DevStep
  BY <1>5, LinkDevice
<1>. QED
  BY <1>1, <1>2, <1>3, <1>4, <1>5 DEF Next

\* Init is a link at rest.
LEMMA LinkInit == Init => FailInv /\ LinkInv
<1>1. SUFFICES ASSUME Init
               PROVE  FailInv /\ LinkInv
  OBVIOUS
<1>2. FailInv
  BY <1>1 DEF Init, FailInv, DevAckStates
<1>3. Clean /\ Verdict
  BY <1>1 DEF Init, Clean, Verdict, Types
<1>. QED
  BY <1>1, <1>2, <1>3 DEF LinkInv, Idle, Init

\* The whole invariant: whatever interleaving of host, device and expiring
\* waits led here.
THEOREM LinkInvariant == Spec => [](TypeInv /\ OnceInv /\ FailInv /\ LinkInv)
<1>1. Spec => [](TypeInv /\ OnceInv)
  BY TypeInvariant, OnceInvariant, PTL
<1>2. Init => FailInv /\ LinkInv
  BY LinkInit
<1>3. TypeInv /\ OnceInv /\ FailInv /\ LinkInv /\ [Next]_vars => FailInv' /\ LinkInv'
  BY FailInductive, LinkInductive
<1>. QED
  BY <1>1, <1>2, <1>3, PTL DEF Spec

\* Before a second timeout, an idle host is where the invariant says.
LEMMA EndedIdle ==
    ASSUME LinkInv, NEW result, NEW n \in {0, 1}, TypeInv, Ended(result, n)
    PROVE  Verdict /\ out = result /\ faults <= n
BY DEF Ended, LinkInv, Idle, Pinging, Behind, InStep, Turn, TypeInv, TypeOK

\* OwnResponse: the ping in front of every command keeps the responses and the
\* data of an abandoned call from being taken for the next call's.
THEOREM OwnResponseHolds == Spec => []OwnResponse
<1>1. TypeInv /\ LinkInv => OwnResponse
  BY EndedIdle DEF OwnResponse, Verdict
<1>. QED
  BY <1>1, LinkInvariant, PTL

\* ReadExact: read_data takes what comes and counts bytes, and still returns
\* every packet once and in order.
THEOREM ReadExactHolds == Spec => []ReadExact
<1>1. TypeInv /\ LinkInv => ReadExact
  BY EndedIdle DEF ReadExact, Verdict
<1>. QED
  BY <1>1, LinkInvariant, PTL

\* WriteComplete: a success of write_data is a device that stored every packet.
THEOREM WriteCompleteHolds == Spec => []WriteComplete
<1>1. TypeInv /\ LinkInv => WriteComplete
  BY EndedIdle DEF WriteComplete, Verdict
<1>. QED
  BY <1>1, LinkInvariant, PTL

\* HonestStatus: the status the caller sees is the device's own on this call.
THEOREM HonestStatusHolds == Spec => []HonestStatus
<1>1. TypeInv /\ LinkInv => HonestStatus
  BY EndedIdle DEF HonestStatus, Verdict
<1>. QED
  BY <1>1, LinkInvariant, PTL

\* NoSpuriousError: host and device agree on whose turn it is, so that only a
\* wait that expires makes a call end in an error.
THEOREM NoSpuriousErrorHolds == Spec => []NoSpuriousError
<1>1. TypeInv /\ LinkInv => NoSpuriousError
  BY EndedIdle DEF NoSpuriousError, Verdict
<1>. QED
  BY <1>1, LinkInvariant, PTL

-----------------------------------------------------------------------------
(* The link implements the remote call of BootCommand.                     *)

\* An execution that was counted.
LEMMA ExecutedIs ==
    \A c : c \in {d \in Calls : execd[d] > 0} <=> c \in Calls /\ execd[c] > 0
OBVIOUS

\* A verdict is the device's own as long as a second wait did not expire.
LEMMA AnswerStep ==
    ASSUME TypeInv, OnceInv, FailInv, LinkInv, TypeInv', LinkInv',
           Response \/ ReadData \/ FinalResponse, pc' = "idle"
    PROVE  Promise!Answer("ok") \/ Promise!Answer("refused")
<1>1. /\ pc # "idle" /\ out' \in {"ok", "refused"}
      /\ UNCHANGED <<cur, faults, execd, failed>>
  BY DEF Response, ReadData, FinalResponse, Receives, Finish, DataPhase, devVars,
         TypeInv, TypeOK, Kinds
<1>2. faults <= 1 =>
         /\ cur \in {c \in Calls : execd[c] > 0}
         /\ out' = "refused" <=> cur \in failed
  <2>1. SUFFICES ASSUME faults <= 1
                 PROVE  /\ cur \in Calls /\ execd[cur] > 0
                        /\ out' = "refused" <=> cur \in failed
    OBVIOUS
  <2>2. Verdict'
    BY <1>1, <2>1 DEF LinkInv, Idle, Pinging, Behind, InStep, Turn
  <2>. QED
    BY <1>1, <2>2 DEF Verdict
<1>. QED
  BY <1>1, <1>2 DEF Promise!Answer

\* A call without an answer is one that waited in vain, or the next one.
LEMMA GiveUpStep ==
    ASSUME TypeInv, LinkInv', TypeInv', NEW w \in Waits, Mismatch(w) \/ Timeout(w),
           pc' = "idle"
    PROVE  Promise!GiveUp
<1>1. /\ pc # "idle" /\ out' = "broken" /\ UNCHANGED <<cur, execd, failed>>
      /\ faults' \in {faults, faults + 1} /\ faults \in Nat
  BY DEF Mismatch, Timeout, Finish, Waits, devVars, TypeInv, TypeOK
<1>2. faults' # 0
  <2>1. SUFFICES ASSUME faults' <= 1
                 PROVE  faults' = 1
    OBVIOUS
  <2>2. Verdict'
    BY <2>1 DEF LinkInv, Idle, Pinging, Behind, InStep, Turn
  <2>. QED
    BY <1>1, <2>2 DEF Verdict
<1>. QED
  BY <1>1, <1>2 DEF Promise!GiveUp

\* The device executes a command that was issued, once.
LEMMA ExecuteStep ==
    ASSUME TypeInv, OnceInv, DevExecute
    PROVE  \E c \in 1 .. cur : Promise!Execute(c)
<1>1. /\ did \in Calls /\ execd[did] = 0 /\ ~Unsent(did)
      /\ execd \in [Calls -> Nat] /\ cur \in 0 .. MaxCalls
  BY DEF DevExecute, OnceInv, Begun, TypeInv, TypeOK
<1>2. did \in 1 .. cur
  BY <1>1, SizesAssumption DEF Unsent, Calls
<1>3. /\ execd' = [execd EXCEPT ![did] = @ + 1] /\ UNCHANGED <<cur, pc, out, faults>>
      /\ failed' \in {failed, failed \cup {did}}
  BY DEF DevExecute, hostVars
<1>4. {c \in Calls : execd'[c] > 0} = {c \in Calls : execd[c] > 0} \cup {did}
  <2>1. execd'[did] > 0 /\ \A c \in Calls : c # did => execd'[c] = execd[c]
    BY <1>1, <1>3
  <2>. QED
    BY <1>1, <2>1
<1>5. did \notin {c \in Calls : execd[c] > 0}
  BY <1>1
<1>. QED
  BY <1>2, <1>3, <1>4, <1>5 DEF Promise!Execute

\* A data phase fails for a command that was executed.
LEMMA FailStep ==
    ASSUME TypeInv, OnceInv, FailInv, DevData \/ DevStore \/ DevFinish
    PROVE  \/ \E c \in 1 .. cur : Promise!FailData(c)
           \/ UNCHANGED Promise!vars
<1>1. /\ UNCHANGED <<cur, pc, out, faults, execd>>
      /\ failed' \in {failed, failed \cup {did}} /\ dst \in {"data", "recv", "finish"}
  BY DEF DevData, DevStore, DevFinish, hostVars
<1>2. did \in Calls /\ execd[did] > 0
  BY <1>1 DEF FailInv
<1>3. did \in 1 .. cur
  <2>1. ~Unsent(did)
    BY <1>2 DEF OnceInv
  <2>2. cur \in 0 .. MaxCalls
    BY DEF TypeInv, TypeOK
  <2>. QED
    BY <1>2, <2>1, <2>2, SizesAssumption DEF Unsent, Calls
<1>. QED
  BY <1>1, <1>2, <1>3 DEF Promise!FailData, Promise!vars

\* Every other step is none at all to the caller.
LEMMA SilentStep ==
    ASSUME TypeInv, OnceInv,
           \/ PingOk \/ CommandAcked \/ SendData \/ DataAcked
           \/ (Response \/ ReadData \/ FinalResponse) /\ pc' # "idle"
           \/ (\E w \in Waits : Mismatch(w) \/ Timeout(w)) /\ pc' # "idle"
           \/ DevPing \/ DevCommand \/ DevIgnore \/ DevAcked
           \/ UNCHANGED vars
    PROVE  UNCHANGED Promise!vars
<1>1. CASE \/ PingOk \/ CommandAcked \/ SendData \/ DataAcked
           \/ (Response \/ ReadData \/ FinalResponse) /\ pc' # "idle"
           \/ (\E w \in Waits : Mismatch(w) \/ Timeout(w)) /\ pc' # "idle"
  <2>1. UNCHANGED <<cur, out, faults, execd, failed>> /\ pc # "idle" /\ pc' # "idle"
    BY <1>1 DEF PingOk, CommandAcked, SendData, DataAcked, Response, ReadData,
                FinalResponse, Mismatch, Timeout, Receives, Finish, Waits, devVars
  <2>. QED
    BY <2>1 DEF Promise!vars
<1>2. CASE DevPing \/ DevCommand \/ DevIgnore \/ DevAcked \/ UNCHANGED vars
  <2>1. UNCHANGED <<cur, pc, out, faults, execd, failed>>
    BY <1>2 DEF DevPing, DevCommand, DevIgnore, DevAcked, vars, hostVars, devVars
  <2>. QED
    BY <2>1 DEF Promise!vars
<1>. QED
  BY <1>1, <1>2

\* ImplementsPromise: every behaviour of the link is one of the remote call.
THEOREM LinkIsRemoteCall == Spec => ImplementsPromise
<1>1. Init => Promise!Init
  <2>1. SUFFICES ASSUME Init
                 PROVE  Promise!Init
    OBVIOUS
  <2>2. {c \in Calls : execd[c] > 0} = {}
    BY <2>1 DEF Init
  <2>. QED
    BY <2>1, <2>2 DEF Init, Promise!Init
<1>2. ASSUME TypeInv, OnceInv, FailInv, LinkInv, TypeInv', LinkInv', [Next]_vars
      PROVE  [Promise!Next]_Promise!vars
  <2>1. CASE \E k \in Kinds : Call(k)
    <3>1. Promise!Issue
      BY <2>1 DEF Call, devVars, Promise!Issue
    <3>. QED
      BY <3>1 DEF Promise!Next
  <2>2. CASE Restart
    <3>1. Promise!Restart
      BY <2>2 DEF Restart, Promise!Restart
    <3>. QED
      BY <3>1 DEF Promise!Next
  <2>3. CASE (Response \/ ReadData \/ FinalResponse) /\ pc' = "idle"
    BY <1>2, <2>3, AnswerStep DEF Promise!Next
  <2>4. CASE (\E w \in Waits : Mismatch(w) \/ Timeout(w)) /\ pc' = "idle"
    BY <1>2, <2>4, GiveUpStep DEF Promise!Next
  <2>5. CASE DevExecute
    BY <1>2, <2>5, ExecuteStep DEF Promise!Next
  <2>6. CASE DevData \/ DevStore \/ DevFinish
    BY <1>2, <2>6, FailStep DEF Promise!Next
  <2>7. CASE \/ PingOk \/ CommandAcked \/ SendData \/ DataAcked
             \/ (Response \/ ReadData \/ FinalResponse) /\ pc' # "idle"
             \/ (\E w \in Waits : Mismatch(w) \/ Timeout(w)) /\ pc' # "idle"
             \/ DevPing \/ DevCommand \/ DevIgnore \/ DevAcked
             \/ UNCHANGED vars
    BY <1>2, <2>7, SilentStep
  <2>. QED
    BY <1>2, <2>1, <2>2, <2>3, <2>4, <2>5, <2>6, <2>7 DEF Next, HostStep, DevStep
<1>. QED
  BY <1>1, <1>2, LinkInvariant, PTL DEF Spec, ImplementsPromise, Promise!Spec

=============================================================================
