------------------------- MODULE ControlPort_proofs -------------------------
(***************************************************************************)
(* Invariants of the CONTROL port for every instance: any number of        *)
(* transfers told apart, any wLength, any size of rx_buffer and of the     *)
(* event queue, any requests of the host, any number of early timeouts and *)
(* bus resets. The last part is about a PoliteHost, who gives nothing up   *)
(* and asks for whole answers.                                             *)
(***************************************************************************)
EXTENDS ControlPort, Control_proofs

IInv == TypeOK /\ InProgress /\ RxBufferBounded

USE DEF SameInterrupts

LEMMA RequestsAreSetups ==
  ASSUME NEW r \in HostRequests, NEW id \in Transfers
  PROVE  [request |-> r.request, value |-> r.value,
          length |-> r.length, id |-> id] \in SetupPacket
  BY HostAssumption DEF SetupPacket

LEMMA DataIsPackets ==
  ASSUME NEW setup \in SetupPacket
  PROVE  /\ DataOf(setup) \in Seq(OutPacket)
         /\ \A i \in 1 .. setup.length : DataOf(setup)[i] \in OutPacket
  <1>1. setup.length \in 0 .. MaxLength /\ setup.id \in Transfers
    BY DEF SetupPacket
  <1>2. \A i \in 1 .. setup.length : [id |-> setup.id, i |-> i] \in OutPacket
    BY <1>1, EndpointAssumption DEF OutPacket
  <1>3. QED
    BY <1>1, <1>2, EndpointAssumption DEF DataOf

LEMMA InitIInv == Init => IInv
  <1>1. SUFFICES ASSUME Init PROVE IInv
    OBVIOUS
  <1>2. ControlTypeOK /\ RxBufferBounded
    BY <1>1, ControlInitInv DEF Init, ControlInv
  <1>3. event_queue \in Seq(Event)
    <2>1. event_queue = <<>>
      BY <1>1 DEF Init
    <2>2. QED
      BY <2>1
  <1>4. hung \in BOOLEAN /\ advertising \in BOOLEAN
    BY <1>1, Zenon DEF Init
  <1>5. host \in Host
    BY <1>1, EndpointAssumption DEF Init, Host, Stages, Transfers
  <1>6. usb.pending = {} /\ host.stage = "idle"
    BY <1>1 DEF Init, ControlInit, Connected
  <1>7. QED
    BY <1>1, <1>2, <1>3, <1>4, <1>5, <1>6, HostAssumption
       DEF IInv, TypeOK, InProgress, Init
-----------------------------------------------------------------------------
(* The interrupt handler.                                                  *)

LEMMA EnqueueType ==
  ASSUME event_queue \in Seq(Event), hung \in BOOLEAN,
         NEW event \in Event, Enqueue(event)
  PROVE  event_queue' \in Seq(Event) /\ hung' \in BOOLEAN
  <1>1. hung' \in BOOLEAN
    BY Zenon DEF Enqueue
  <1>2. event_queue' = Append(event_queue, event) \/ event_queue' = <<>>
    BY Zenon DEF Enqueue
  <1>3. <<>> \in Seq(Event)
    OBVIOUS
  <1>4. Append(event_queue, event) \in Seq(Event)
    <2>1. SUFFICES ASSUME NEW S, NEW q \in Seq(S), NEW e \in S
                   PROVE  Append(q, e) \in Seq(S)
      BY Zenon
    <2>2. QED
      OBVIOUS
  <1>5. QED
    BY <1>1, <1>2, <1>3, <1>4, Zenon

(* Each interrupt is acknowledged and queued as a well-typed event; no     *)
(* other interrupt becomes pending.                                        *)
LEMMA HandlerKeepsIInv ==
  ASSUME IInv, MachineExternal
  PROVE  IInv'
  <1> DEFINE irq == HighestPending(usb.pending)
  <1> DEFINE event(type) == [type |-> type, setup |-> NoSetup]
  <1>1. /\ usb \in Usb /\ usb.pending # {} /\ event_queue \in Seq(Event)
        /\ hung \in BOOLEAN
    BY Zenon DEF IInv, TypeOK, ControlTypeOK, MachineExternal
  <1>2. irq \in usb.pending
    BY <1>1, HighestPendingIsPending DEF Usb
  <1> HIDE DEF irq
  <1>3. /\ event("BusReset") \in Event /\ event("SendComplete") \in Event
        /\ event("ReceivePacket") \in Event
    BY DEF Event
  <1>4. /\ usb' \in Usb
        /\ "EpControl" \in usb'.pending => usb'.setup # NoSetup
        /\ \E e \in Event : Enqueue(e)
    <2>1. "EpControl" \in usb.pending => usb.setup # NoSetup
      BY DEF IInv, InProgress
    <2>2. CASE irq = "BusReset" /\ usb' = BusReset(usb) /\ Enqueue(event("BusReset"))
      BY <1>1, <1>3, <2>2, InterruptType DEF BusReset, Usb
    <2>3. CASE /\ irq = "EpControl" /\ usb' = ReadSetup(usb)
               /\ Enqueue([type |-> "ReceiveSetupPacket", setup |-> usb.setup])
      <3>1. usb.setup \in SetupPacket
        BY <1>1, <1>2, <2>1, <2>3 DEF Usb
      <3>2. [type |-> "ReceiveSetupPacket", setup |-> usb.setup] \in Event
        BY <3>1 DEF Event
      <3>3. usb' \in Usb /\ "EpControl" \notin usb'.pending
        BY <1>1, <2>3, InterruptType DEF ReadSetup, ClearPending, Usb
      <3>4. QED
        BY <2>3, <3>2, <3>3
    <2>4. CASE irq = "EpIn" /\ usb' = SendComplete(usb) /\ Enqueue(event("SendComplete"))
      BY <1>1, <1>3, <2>1, <2>4, InterruptType
         DEF SendComplete, ClearPending, Usb
    <2>5. CASE /\ irq = "EpOut" /\ usb' = ClearPending(usb, "EpOut")
               /\ Enqueue(event("ReceivePacket"))
      BY <1>1, <1>3, <2>1, <2>5, InterruptType DEF ClearPending, Usb
    <2>6. QED
      BY <2>2, <2>3, <2>4, <2>5, Zenon DEF MachineExternal, irq
  <1>5. event_queue' \in Seq(Event) /\ hung' \in BOOLEAN
    BY <1>1, <1>4, EnqueueType
  <1>6. UNCHANGED <<firmwareVars, host, early, resets>>
    BY DEF MachineExternal
  <1>7. QED
    BY <1>4, <1>5, <1>6
       DEF IInv, TypeOK, ControlTypeOK, InProgress, RxBufferBounded,
           firmwareVars, libgreatVars
-----------------------------------------------------------------------------
(* The main loop.                                                          *)

(* Dispatching the head of the queue leaves a queue of events, and         *)
(* disturbs neither the host nor the command sequence.                     *)
LEMMA MainLoopKeepsIInv ==
  ASSUME IInv, MainLoop
  PROVE  IInv'
  <1>1. ControlInv /\ event_queue \in Seq(Event) /\ event_queue # <<>>
    BY Zenon DEF IInv, TypeOK, ControlInv, MainLoop
  <1>2. Head(event_queue) \in Event /\ Tail(event_queue) \in Seq(Event)
    <2>1. SUFFICES ASSUME NEW S, NEW q \in Seq(S), q # <<>>
                   PROVE  Head(q) \in S /\ Tail(q) \in Seq(S)
      BY <1>1, Zenon
    <2>2. QED
      BY <2>1
  <1>3. ControlInv' /\ SameInterrupts
    BY <1>1, <1>2, DispatchKeepsInv, Zenon DEF MainLoop
  <1>4. event_queue' \in Seq(Event)
    BY <1>2, Zenon DEF MainLoop
  <1>5. UNCHANGED <<hung, libgreatVars, advertising, host, early, resets>>
    BY Zenon DEF MainLoop
  <1>6. TypeOK'
    BY <1>3, <1>4, <1>5, Zenon DEF IInv, TypeOK, ControlInv, libgreatVars
  <1>7. InProgress'
    BY <1>3, <1>5 DEF IInv, InProgress
  <1>8. QED
    BY <1>3, <1>6, <1>7, Zenon DEF IInv, ControlInv

(* A step that changes the controller alone, within its type, and the      *)
(* verdicts of the command sequence, keeps the invariant.                  *)
LEMMA OutsideDispatch ==
  ASSUME IInv, usb' \in Usb,
         "EpControl" \in usb'.pending => usb'.setup # NoSetup,
         UNCHANGED <<next, configuration, rx_buffer, event_queue, hung>>,
         returned' \in {returned, NoSetup},
         libgreat_response' \in {libgreat_response, rx_buffer, None},
         libgreat_response_last_error'
           \in {libgreat_response_last_error, rx_buffer, None},
         advertising' \in BOOLEAN,
         host' \in Host, early' \in 0 .. MaxEarlyTimeouts,
         resets' \in 0 .. MaxResets,
         host'.stage \in {"data", "status"} => host'.setup # NoSetup,
         host'.stage \notin {"data", "status"} => host'.sent = 0,
         host'.stage = "data" => host'.sent < host'.setup.length
  PROVE  IInv'
  <1>1. ControlTypeOK' /\ RxBufferBounded'
    BY DEF IInv, TypeOK, ControlTypeOK, RxBufferBounded
  <1>2. /\ libgreat_response' \in Seq(OutPacket) \union {None}
        /\ libgreat_response_last_error' \in Seq(OutPacket) \union {None}
    BY Zenon DEF IInv, TypeOK, ControlTypeOK
  <1>3. event_queue' \in Seq(Event) /\ hung' \in BOOLEAN
    BY Zenon DEF IInv, TypeOK
  <1>4. InProgress'
    BY DEF InProgress
  <1>5. QED
    BY <1>1, <1>2, <1>3, <1>4, Zenon DEF IInv, TypeOK

(* The loops of write_with_packet_size only move packets of the answer     *)
(* into the transmit FIFO.                                                 *)
LEMMA WriteStepKeepsIInv ==
  ASSUME IInv, WriteStep
  PROVE  IInv'
  <1>1. usb \in Usb
    BY Zenon DEF IInv, TypeOK, ControlTypeOK
  <1>2. usb' \in Usb
    <2>1. CASE usb.tx.at = "drain" /\ usb' = [usb EXCEPT !.tx.at = "fill"]
      BY <1>1, <2>1, WriteStepsType, Zenon
    <2>2. CASE usb.tx.at = "fill" /\ usb' = Fill(usb)
      BY <1>1, <2>2, WriteStepsType, Zenon
    <2>3. CASE usb' = Sent(usb)
      BY <1>1, <2>3, WriteStepsType, Zenon
    <2>4. CASE usb' = DrainTimeout(usb) \/ usb' = WaitTimeout(usb)
      BY <1>1, <2>4, DriverCallsType
    <2>5. QED
      BY <2>1, <2>2, <2>3, <2>4, Zenon DEF WriteStep, DrainDone
  <1>3. usb'.pending = usb.pending /\ usb'.setup = usb.setup
    BY <1>1 DEF WriteStep, Fill, Sent, DrainTimeout, WaitTimeout, Usb
  <1>4. UNCHANGED <<firmwareVars, event_queue, hung, host, early, resets>>
    BY Zenon DEF WriteStep
  <1>5. QED
    BY <1>2, <1>3, <1>4, OutsideDispatch
       DEF IInv, TypeOK, InProgress, firmwareVars, libgreatVars

(* An answer of a class is one to a request for its own length or more; it *)
(* is one to the request of the host if that asks for as much as any class *)
(* answers.                                                                *)
LEMMA WholeAnswersFit ==
  ASSUME NEW id \in Transfers, NEW of \in Seq(OutPacket),
         NEW length \in Nat,
         NEW packets \in WholeAnswers(id, of, length)
  PROVE  \E n, m \in Nat :
           /\ n <= m /\ packets \in Answers(id, of, n, m)
           /\ length >= MaxAnswer => m = length
  <1> DEFINE packet(size) == [id |-> id, of |-> of, size |-> size]
  <1> DEFINE full(n) == [i \in 1 .. n |-> packet("full")]
  <1> DEFINE exact == {length} \intersect (1 .. MaxAnswer)
  <1>1. MaxAnswer \in Nat \ {0}
    BY HostAssumption
  <1>2. \/ \E n \in 0 .. MaxAnswer - 1 :
             packets = Append(full(n), packet("short"))
        \/ \E n \in exact : packets = full(n)
        \/ \E n \in (0 .. MaxAnswer) \ exact :
             packets = Append(full(n), packet("zlp"))
    BY Zenon DEF WholeAnswers
  <1>3. ASSUME NEW n \in Nat, NEW m \in Nat, ~ (n = m /\ n > 0),
               packets \in {Append(full(n), packet("short")),
                            Append(full(n), packet("zlp"))}
        PROVE  packets \in Answers(id, of, n, m)
    BY <1>3, Zenon DEF Answers
  <1>4. ASSUME NEW n \in Nat \ {0}, packets = full(n)
        PROVE  packets \in Answers(id, of, n, n)
    <2>1. n = n /\ n > 0
      OBVIOUS
    <2>2. QED
      BY <1>4, <2>1, Zenon DEF Answers
  <1> HIDE DEF full, packet
  <1>5. CASE \E n \in 0 .. MaxAnswer - 1 :
               packets = Append(full(n), packet("short"))
    <2>1. PICK n \in 0 .. MaxAnswer - 1 :
            packets = Append(full(n), packet("short"))
      BY <1>5
    <2> DEFINE m == IF length >= MaxAnswer THEN length ELSE MaxAnswer
    <2>2. n \in Nat /\ m \in Nat /\ n < m /\ (length >= MaxAnswer => m = length)
      BY <1>1
    <2> HIDE DEF m
    <2>3. packets \in Answers(id, of, n, m)
      BY <1>3, <2>1, <2>2
    <2>4. QED
      BY <2>2, <2>3
  <1>6. CASE \E n \in exact : packets = full(n)
    <2>1. length \in Nat \ {0} /\ packets = full(length)
      BY <1>6
    <2>2. packets \in Answers(id, of, length, length)
      BY <1>4, <2>1
    <2>3. QED
      BY <2>2
  <1>7. CASE \E n \in (0 .. MaxAnswer) \ exact :
               packets = Append(full(n), packet("zlp"))
    <2>1. PICK n \in (0 .. MaxAnswer) \ exact :
            packets = Append(full(n), packet("zlp"))
      BY <1>7
    <2> DEFINE m == IF length >= MaxAnswer THEN length ELSE MaxAnswer + 1
    <2>2. /\ n \in Nat /\ m \in Nat /\ n <= m /\ ~ (n = m /\ n > 0)
          /\ length >= MaxAnswer => m = length
      BY <1>1
    <2> HIDE DEF m
    <2>3. packets \in Answers(id, of, n, m)
      BY <1>3, <2>1, <2>2
    <2>4. QED
      BY <2>2, <2>3
  <1>8. QED
    BY <1>2, <1>5, <1>6, <1>7

(* A verb, a response or a cancel writes well-typed packets, and what it   *)
(* queues is the command it was given.                                     *)
LEMMA VendorKeepsIInv ==
  ASSUME IInv, HandleVendorRequest
  PROVE  IInv'
  <1>1. usb \in Usb /\ rx_buffer \in Seq(OutPacket)
    BY Zenon DEF IInv, TypeOK, ControlTypeOK
  <1>2. returned \in SetupPacket
    BY DEF IInv, TypeOK, ControlTypeOK, HandleVendorRequest
  <1>3. returned.id \in Transfers /\ returned.length \in Nat
    BY <1>2, EndpointAssumption DEF SetupPacket
  <1>4. /\ returned' = NoSetup
        /\ UNCHANGED <<next, configuration, rx_buffer, event_queue, hung,
                       host, early, resets>>
    BY Zenon DEF HandleVendorRequest
  <1>5. libgreat_response_last_error \in Seq(OutPacket) \union {None}
        /\ libgreat_response \in Seq(OutPacket) \union {None}
        /\ advertising \in BOOLEAN
    BY Zenon DEF IInv, TypeOK
  <1> DEFINE Queued ==
        /\ libgreat_response' \in {libgreat_response, rx_buffer, None}
        /\ libgreat_response_last_error'
             \in {libgreat_response_last_error, rx_buffer, None}
        /\ advertising' \in BOOLEAN
  <1> DEFINE Called ==
        usb' \in Usb /\ usb'.pending = usb.pending /\ usb'.setup = usb.setup
  <1>6. Called /\ Queued
    <2>1. CASE ClaimInterface
      <3>1. Called
        BY <1>1, <1>3, <2>1, WriteZlpType, CallsKeepInterrupts
           DEF ClaimInterface, WriteZlp
      <3>2. Queued
        BY <2>1, Zenon DEF ClaimInterface, libgreatVars
      <3>3. QED
        BY <3>1, <3>2, Zenon
    <2>2. CASE DispatchLibgreatRequest
      <3>1. Called
        BY <1>1, <2>2, DriverCallsType, CallsKeepInterrupts
           DEF DispatchLibgreatRequest
      <3>2. Queued
        BY <1>5, <2>2, Zenon
           DEF DispatchLibgreatRequest, QueueOutcome, libgreatVars
      <3>3. QED
        BY <3>1, <3>2, Zenon
    <2>3. CASE DispatchLibgreatResponse
      <3>1. Queued
        BY <1>5, <2>3, Zenon DEF DispatchLibgreatResponse
      <3>2. Called
        <4>1. CASE usb' \in {usb, StallEndpointIn(usb)}
          BY <1>1, <4>1, DriverCallsType, CallsKeepInterrupts
        <4>2. ASSUME libgreat_response # None,
                     NEW packets \in WholeAnswers(returned.id,
                                                  libgreat_response,
                                                  returned.length),
                     usb' = WriteWithPacketSize(EpOutPrimeReceive(usb), packets)
              PROVE  Called
          <5>1. libgreat_response \in Seq(OutPacket)
            BY <1>5, <4>2
          <5>2. packets \in Seq(InPacket) /\ packets # <<>>
            <6>1. PICK n \in Nat, m \in Nat :
                    packets \in Answers(returned.id, libgreat_response, n, m)
              BY <1>3, <4>2, <5>1, WholeAnswersFit
            <6>2. QED
              BY <1>3, <5>1, <6>1, AnswersType
          <5>3. QED
            BY <1>1, <4>2, <5>2, AnswerCalls
        <4>3. QED
          <5> HIDE DEF Called
          <5>1. QED
            BY <2>3, <4>1, <4>2, Zenon DEF DispatchLibgreatResponse
      <3>3. QED
        BY <3>1, <3>2, Zenon
    <2>4. CASE DispatchLibgreatAbort
      <3>1. Queued
        BY <1>5, <2>4 DEF DispatchLibgreatAbort
      <3>2. Called
        <4>1. PICK code \in Seq(OutPacket) :
                usb' = WriteWithPacketSize(EpOutPrimeReceive(usb),
                  <<[id |-> returned.id, of |-> code, size |-> "short"]>>)
          <5>1. <<>> \in Seq(OutPacket)
            OBVIOUS
          <5>2. QED
            BY <1>5, <2>4, <5>1 DEF DispatchLibgreatAbort
        <4>2. [id |-> returned.id, of |-> code, size |-> "short"] \in InPacket
          BY <1>3 DEF InPacket
        <4>3. ASSUME NEW packet \in InPacket,
                     usb' = WriteWithPacketSize(EpOutPrimeReceive(usb),
                                                <<packet>>)
              PROVE  Called
          <5>1. <<packet>> \in Seq(InPacket) /\ <<packet>> # <<>>
            OBVIOUS
          <5>2. QED
            BY <1>1, <4>3, <5>1, AnswerCalls
        <4>4. QED
          <5> HIDE DEF Called
          <5>1. QED
            BY <4>1, <4>2, <4>3
      <3>3. QED
        BY <3>1, <3>2, Zenon
    <2>5. CASE StallUnknown
      <3>1. Called
        BY <1>1, <2>5, DriverCallsType, CallsKeepInterrupts DEF StallUnknown
      <3>2. Queued
        BY <1>5, <2>5, Zenon DEF StallUnknown, libgreatVars
      <3>3. QED
        BY <3>1, <3>2, Zenon
    <2>6. QED
      BY <2>1, <2>2, <2>3, <2>4, <2>5, Zenon DEF HandleVendorRequest
  <1> HIDE DEF Called
  <1>7. usb' \in Usb /\ ("EpControl" \in usb'.pending => usb'.setup # NoSetup)
    BY <1>6 DEF Called, IInv, InProgress
  <1>8. QED
    BY <1>4, <1>6, <1>7, OutsideDispatch DEF IInv, TypeOK, InProgress
-----------------------------------------------------------------------------
(* The host.                                                               *)

(* However a transfer ends, the host is left with a well-typed record and  *)
(* no request in progress.                                                 *)
LEMMA EndedType ==
  ASSUME host \in Host, host.setup # NoSetup,
         NEW stage \in {"done", "stalled", "failed"}
  PROVE  /\ Ended(stage) \in Host /\ Ended(stage).stage = stage
         /\ Ended(stage).sent = 0
  <1>1. host.setup \in SetupPacket
    BY DEF Host
  <1>2. DataOf(host.setup) \in Seq(OutPacket)
    BY <1>1, DataIsPackets
  <1>3. ClientAfter(stage) \in {"ready", "executed", "refused"}
    BY Zenon DEF ClientAfter
  <1>4. 0 \in 0 .. MaxLength
    BY EndpointAssumption
  <1>5. QED
    BY <1>2, <1>3, <1>4 DEF Ended, Host, Stages

(* A transfer starts with a request, and with data to send if it is in the *)
(* data stage.                                                             *)
LEMMA HostSetupKeepsIInv ==
  ASSUME IInv, HostSetup
  PROVE  IInv'
  <1>1. usb \in Usb /\ host \in Host
    BY Zenon DEF IInv, TypeOK, ControlTypeOK
  <1>2. PICK r \in HostRequests :
          LET id    == IF host.id = NumTransfers THEN 1 ELSE host.id + 1
              setup == [request |-> r.request, value |-> r.value,
                        length |-> r.length, id |-> id]
          IN  /\ host' = [host EXCEPT !.setup = setup, !.id = id,
                            !.stage = IF r.length = 0 THEN "status" ELSE "data"]
              /\ usb' = AcceptSetup(usb, setup)
    BY DEF HostSetup
  <1> DEFINE id == IF host.id = NumTransfers THEN 1 ELSE host.id + 1
  <1> DEFINE setup == [request |-> r.request, value |-> r.value,
                       length |-> r.length, id |-> id]
  <1>3. id \in Transfers
    BY <1>1, EndpointAssumption DEF Host, Transfers
  <1>4. setup \in SetupPacket /\ setup # NoSetup
    BY <1>3, RequestsAreSetups, SetupAssumption
  <1>5. r.length \in 0 .. MaxLength /\ setup.length = r.length
    BY HostAssumption
  <1>6. /\ host' = [host EXCEPT !.setup = setup, !.id = id,
                      !.stage = IF r.length = 0 THEN "status" ELSE "data"]
        /\ usb' = AcceptSetup(usb, setup)
    BY <1>2, Zenon
  <1> HIDE DEF id, setup
  <1>7. usb' \in Usb /\ usb'.setup = setup
    BY <1>1, <1>4, <1>6, TokensType DEF AcceptSetup, Usb
  <1>8. /\ host' \in Host
        /\ host'.stage \in {"data", "status"} /\ host'.setup = setup
        /\ host'.stage = "data" => r.length # 0
        /\ host'.sent = host.sent
    BY <1>1, <1>3, <1>4, <1>6 DEF Host, Stages
  <1>9. host.sent = 0
    BY DEF IInv, InProgress, HostSetup, Between
  <1>10. host'.stage = "data" => host'.sent < host'.setup.length
    BY <1>5, <1>8, <1>9, EndpointAssumption
  <1>11. UNCHANGED <<firmwareVars, event_queue, hung, early, resets>>
    BY Zenon DEF HostSetup
  <1>12. QED
    BY <1>4, <1>7, <1>8, <1>10, <1>11, OutsideDispatch
       DEF IInv, TypeOK, firmwareVars, libgreatVars

(* An IN token only takes what is primed, and counts it within wLength.    *)
LEMMA HostInKeepsIInv ==
  ASSUME IInv, HostIn
  PROVE  IInv'
  <1>1. usb \in Usb /\ host \in Host
    BY Zenon DEF IInv, TypeOK, ControlTypeOK
  <1>2. host.stage \in {"data", "status"} /\ host.setup # NoSetup
    BY DEF HostIn, HostPolls, IInv, InProgress
  <1>3. host.setup \in SetupPacket
    BY <1>1, <1>2 DEF Host
  <1>4. /\ Ended("stalled") \in Host /\ Ended("stalled").stage = "stalled"
        /\ Ended("stalled").sent = 0 /\ Ended("failed").sent = 0
        /\ Ended("done").sent = 0
        /\ Ended("failed") \in Host /\ Ended("failed").stage = "failed"
        /\ Ended("done") \in Host /\ Ended("done").stage = "done"
    BY <1>1, <1>2, EndedType
  <1>5. /\ usb' \in Usb
        /\ "EpControl" \in usb'.pending => usb'.setup # NoSetup
    <2>1. usb' \in {usb, TakeIn(usb)}
      BY Zenon DEF HostIn
    <2>2. TakeIn(usb) \in Usb /\ TakeIn(usb).setup = usb.setup
          /\ ("EpControl" \in TakeIn(usb).pending <=> "EpControl" \in usb.pending)
      BY <1>1, TokensType DEF TakeIn, Usb
    <2>3. QED
      BY <1>1, <2>1, <2>2 DEF IInv, InProgress
  <1>6. /\ host' \in Host
        /\ host'.stage \in {"data", "status"} => host'.setup # NoSetup
        /\ host'.stage \notin {"data", "status"} => host'.sent = 0
        /\ host'.stage = "data" => host'.sent < host'.setup.length
    <2>1. CASE host' \in {Ended("stalled"), Ended("failed"), Ended("done")}
      BY <1>4, <2>1
    <2>2. ASSUME host.stage = "data",
                 NEW got, got = host.got + Len(usb.in),
                 ~ (got > host.setup.length),
                 NEW stage \in {"data", "status"},
                 host' = [host EXCEPT !.got = got, !.stage = stage]
          PROVE  /\ host' \in Host
                 /\ host'.stage \in {"data", "status"} => host'.setup # NoSetup
                 /\ host'.stage \notin {"data", "status"} => host'.sent = 0
                 /\ host'.stage = "data" => host'.sent < host'.setup.length
      <3>1. Len(usb.in) \in Nat
        BY <1>1 DEF Usb
      <3>2. host.got \in Nat /\ host.setup.length \in 0 .. MaxLength
        BY <1>1, <1>3, EndpointAssumption DEF Host, SetupPacket
      <3>3. got \in 0 .. MaxLength
        BY <2>2, <3>1, <3>2, EndpointAssumption
      <3>4. host' \in Host /\ host'.setup = host.setup /\ host'.sent = host.sent
        BY <1>1, <2>2, <3>3 DEF Host, Stages
      <3>5. QED
        BY <1>2, <2>2, <3>4 DEF IInv, InProgress
    <2>3. QED
      BY <2>1, <2>2 DEF HostIn
  <1>7. UNCHANGED <<firmwareVars, event_queue, hung, early, resets>>
    BY Zenon DEF HostIn
  <1>8. QED
    BY <1>5, <1>6, <1>7, OutsideDispatch
       DEF IInv, TypeOK, firmwareVars, libgreatVars

(* An OUT packet is the next of the data the request announced.            *)
LEMMA HostOutKeepsIInv ==
  ASSUME IInv, HostOut
  PROVE  IInv'
  <1>1. usb \in Usb /\ host \in Host
    BY Zenon DEF IInv, TypeOK, ControlTypeOK
  <1>2. host.stage \in {"data", "status"} /\ host.setup # NoSetup
    BY DEF HostOut, HostSends, IInv, InProgress
  <1>3. host.setup \in SetupPacket
    BY <1>1, <1>2 DEF Host
  <1>4. /\ Ended("stalled") \in Host /\ Ended("stalled").stage = "stalled"
        /\ Ended("stalled").sent = 0 /\ Ended("done").sent = 0
        /\ Ended("done") \in Host /\ Ended("done").stage = "done"
    BY <1>1, <1>2, EndedType
  <1> DEFINE Accepted(data) ==
        /\ AcceptOut(usb, data) \in Usb
        /\ AcceptOut(usb, data).setup = usb.setup
        /\ "EpControl" \in AcceptOut(usb, data).pending
             <=> "EpControl" \in usb.pending
  <1> DEFINE Good ==
        /\ usb' \in Usb
        /\ "EpControl" \in usb'.pending => usb'.setup # NoSetup
        /\ host' \in Host
        /\ host'.stage \in {"data", "status"} => host'.setup # NoSetup
        /\ host'.stage \notin {"data", "status"} => host'.sent = 0
        /\ host'.stage = "data" => host'.sent < host'.setup.length
  <1>5. \A data \in Seq(OutPacket) : Accepted(data)
    BY <1>1, TokensType DEF AcceptOut, Usb
  <1>6. Good
    <2>1. CASE host' = Ended("stalled") /\ UNCHANGED usb
      BY <1>1, <1>4, <2>1 DEF IInv, InProgress
    <2>2. CASE host' = Ended("done") /\ usb' = AcceptOut(usb, <<>>)
      <3>1. <<>> \in Seq(OutPacket)
        OBVIOUS
      <3>2. QED
        BY <1>4, <1>5, <2>2, <3>1 DEF IInv, InProgress
    <2>3. ASSUME host.stage = "data",
                 usb' = AcceptOut(usb, << DataOf(host.setup)[host.sent + 1] >>),
                 host' = [host EXCEPT !.sent = @ + 1,
                            !.stage = IF host.sent + 1 = host.setup.length
                                      THEN "status" ELSE "data"]
          PROVE  Good
      <3>1. host.sent \in Nat /\ host.setup.length \in 0 .. MaxLength
        BY <1>1, <1>3, EndpointAssumption DEF Host, SetupPacket
      <3>2. host.sent + 1 \in 1 .. host.setup.length
        BY <2>3, <3>1, EndpointAssumption DEF IInv, InProgress
      <3>3. DataOf(host.setup)[host.sent + 1] \in OutPacket
        BY <1>3, <3>2, DataIsPackets
      <3>4. << DataOf(host.setup)[host.sent + 1] >> \in Seq(OutPacket)
        BY <3>3
      <3>5. host.sent + 1 \in 0 .. MaxLength
        BY <3>1, <3>2, EndpointAssumption
      <3>6. /\ host' \in Host /\ host'.setup = host.setup
            /\ host'.sent = host.sent + 1
            /\ host'.stage \in {"data", "status"}
            /\ host'.stage = "data" => host.sent + 1 # host.setup.length
        BY <1>1, <2>3, <3>5 DEF Host, Stages
      <3>7. host'.stage = "data" => host'.sent < host'.setup.length
        BY <3>1, <3>2, <3>6, EndpointAssumption
      <3>8. usb' \in Usb /\ ("EpControl" \in usb'.pending => usb'.setup # NoSetup)
        BY <1>5, <2>3, <3>4 DEF IInv, InProgress
      <3>9. QED
        BY <1>2, <3>6, <3>7, <3>8
    <2>4. QED
      <3> HIDE DEF Good
      <3>1. QED
        BY <2>1, <2>2, <2>3, Zenon DEF HostOut
  <1>7. UNCHANGED <<firmwareVars, event_queue, hung, early, resets>>
    BY Zenon DEF HostOut
  <1>8. QED
    BY <1>6, <1>7, OutsideDispatch
       DEF IInv, TypeOK, firmwareVars, libgreatVars

(* A host that gives up, or resets the bus, leaves the firmware as it is.  *)
LEMMA HostGivesUpKeepsIInv ==
  ASSUME IInv, HostTimeout \/ HostBusReset
  PROVE  IInv'
  <1>1. /\ usb \in Usb /\ host \in Host
        /\ early \in 0 .. MaxEarlyTimeouts /\ resets \in 0 .. MaxResets
    BY Zenon DEF IInv, TypeOK, ControlTypeOK
  <1>2. CASE HostTimeout
    <2>1. host.setup # NoSetup
      BY <1>1, <1>2 DEF HostTimeout, Between, Host, Stages, IInv, InProgress
    <2>2. /\ host' \in Host /\ host'.stage = "failed" /\ host'.sent = 0
      BY <1>1, <1>2, <2>1, EndedType DEF HostTimeout
    <2>3. early' \in 0 .. MaxEarlyTimeouts
      BY <1>1, <1>2, HostAssumption DEF HostTimeout
    <2>4. UNCHANGED <<usb, firmwareVars, event_queue, hung, resets>>
      BY <1>2, Zenon DEF HostTimeout
    <2>5. QED
      BY <1>1, <2>2, <2>3, <2>4, OutsideDispatch
         DEF IInv, TypeOK, InProgress, firmwareVars, libgreatVars
  <1>3. CASE HostBusReset
    <2>1. usb' = ResetSignal(usb) /\ usb' \in Usb
      BY <1>1, <1>3, TokensType DEF HostBusReset
    <2>2. /\ usb'.setup = usb.setup
          /\ "EpControl" \in usb'.pending <=> "EpControl" \in usb.pending
      BY <1>1, <2>1 DEF ResetSignal, Usb
    <2>3. host' \in Host /\ host'.stage = "idle" /\ host'.sent = 0
      <3>1. /\ 0 \in 0 .. MaxLength /\ "idle" \in Stages
            /\ "ready" \in {"ready", "executed", "refused"}
        BY EndpointAssumption DEF Stages
      <3>2. host' = [host EXCEPT !.stage = "idle", !.setup = NoSetup,
                        !.sent = 0, !.got = 0, !.client = "ready"]
        BY <1>3, Zenon DEF HostBusReset
      <3>3. QED
        BY <1>1, <3>1, <3>2 DEF Host
    <2>4. resets' \in 0 .. MaxResets
      BY <1>1, <1>3, HostAssumption DEF HostBusReset
    <2>5. UNCHANGED <<firmwareVars, event_queue, hung, early>>
      BY <1>3, Zenon DEF HostBusReset
    <2>6. QED
      BY <1>1, <2>1, <2>2, <2>3, <2>4, <2>5, OutsideDispatch
         DEF IInv, TypeOK, InProgress, firmwareVars, libgreatVars
  <1>4. QED
    BY <1>2, <1>3
-----------------------------------------------------------------------------
(* Every step of the firmware and of the host keeps the invariant.         *)
LEMMA NextKeepsIInv == IInv /\ [Next]_vars => IInv'
  <1>1. SUFFICES ASSUME IInv, [Next]_vars PROVE IInv'
    OBVIOUS
  <1>2. CASE MachineExternal
    BY <1>1, <1>2, HandlerKeepsIInv
  <1>3. CASE MainLoop
    BY <1>1, <1>3, MainLoopKeepsIInv
  <1>4. CASE WriteStep
    BY <1>1, <1>4, WriteStepKeepsIInv
  <1>5. CASE HandleVendorRequest
    BY <1>1, <1>5, VendorKeepsIInv
  <1>6. CASE HostSetup
    BY <1>1, <1>6, HostSetupKeepsIInv
  <1>7. CASE HostIn
    BY <1>1, <1>7, HostInKeepsIInv
  <1>8. CASE HostOut
    BY <1>1, <1>8, HostOutKeepsIInv
  <1>9. CASE HostTimeout \/ HostBusReset
    BY <1>1, <1>9, HostGivesUpKeepsIInv
  <1>10. CASE UNCHANGED vars
    BY <1>1, <1>10
       DEF IInv, TypeOK, ControlTypeOK, InProgress, RxBufferBounded,
           vars, controlVars, libgreatVars
  <1>11. QED
    BY <1>1, <1>2, <1>3, <1>4, <1>5, <1>6, <1>7, <1>8, <1>9, <1>10, Zenon
       DEF Next, Firmware, Tokens

(* Every reachable state of the port is well typed: among other things, no *)
(* state that carries a SETUP packet is entered without one, and the       *)
(* writer never looks at the head of an answer that has no packets left.   *)
THEOREM TypeCorrect == Spec => []TypeOK
  <1>1. IInv => TypeOK
    BY Zenon DEF IInv
  <1>2. QED
    BY <1>1, InitIInv, NextKeepsIInv, PTL DEF Spec

(* However much a host sends, whatever it asks for in wLength and wherever *)
(* it gives up, the data of a request never overruns rx_buffer.            *)
THEOREM RxBufferSafe == Spec => []RxBufferBounded
  <1>1. IInv => RxBufferBounded
    BY Zenon DEF IInv
  <1>2. QED
    BY <1>1, InitIInv, NextKeepsIInv, PTL DEF Spec

(* Whatever a host executes, refuses to read or cancels, in any order, a   *)
(* command never has an answer and an error at once.                       *)
THEOREM OutcomeUnique == Spec => []OneOutcome
  <1>1. Init => OneOutcome
    BY Zenon DEF Init, OneOutcome
  <1>2. OneOutcome /\ [Next]_vars => OneOutcome'
    <2>1. SUFFICES ASSUME OneOutcome, [Next]_vars PROVE OneOutcome'
      OBVIOUS
    <2>2. CASE UNCHANGED libgreatVars
      BY <2>1, <2>2, Zenon DEF OneOutcome, libgreatVars
    <2>3. CASE HandleVendorRequest
      <3>1. CASE ClaimInterface \/ StallUnknown
        BY <2>2, <3>1, Zenon DEF ClaimInterface, StallUnknown
      <3>2. CASE DispatchLibgreatRequest
        BY <2>1, <3>2, Zenon
           DEF DispatchLibgreatRequest, QueueOutcome, OneOutcome, libgreatVars
      <3>3. CASE DispatchLibgreatResponse
        BY <2>1, <3>3, Zenon DEF DispatchLibgreatResponse, OneOutcome
      <3>4. CASE DispatchLibgreatAbort
        BY <3>4, Zenon DEF DispatchLibgreatAbort, OneOutcome
      <3>5. QED
        BY <2>3, <3>1, <3>2, <3>3, <3>4, Zenon DEF HandleVendorRequest
    <2>4. CASE MachineExternal \/ WriteStep
      BY <2>2, <2>4, Zenon DEF MachineExternal, WriteStep, firmwareVars
    <2>5. CASE MainLoop
      BY <2>2, <2>5, Zenon DEF MainLoop
    <2>6. CASE HostSetup \/ HostIn \/ HostOut
      BY <2>2, <2>6, Zenon DEF HostSetup, HostIn, HostOut, firmwareVars
    <2>7. CASE HostTimeout \/ HostBusReset
      BY <2>2, <2>7, Zenon DEF HostTimeout, HostBusReset, firmwareVars
    <2>8. CASE UNCHANGED vars
      BY <2>2, <2>8, Zenon DEF vars
    <2>9. QED
      BY <2>1, <2>3, <2>4, <2>5, <2>6, <2>7, <2>8, Zenon
         DEF Next, Firmware, Tokens
  <1>3. QED
    BY <1>1, <1>2, PTL DEF Spec
-----------------------------------------------------------------------------
(* SetupNeverDropped, AnswersIntact, NoStrayStall and                      *)
(* AddressChangesAfterStatus, for a PoliteHost.                            *)

Queued(type) == \E i \in DOMAIN event_queue : event_queue[i].type = type

(* What has happened on the bus and was not dispatched.                    *)
PacketDue == "EpOut" \in usb.pending \/ Queued("ReceivePacket")
SentDue == "EpIn" \in usb.pending \/ Queued("SendComplete")
SetupDue == "EpControl" \in usb.pending \/ Queued("ReceiveSetupPacket")

FirstStage(setup) == IF setup.length = 0 THEN "status" ELSE "data"

(* Nobody resets the bus, or stalls the packets of a host, or refuses a    *)
(* command, and what a host asks for can be served.                        *)
Calm ==
  /\ "BusReset" \notin usb.pending
  /\ \A i \in DOMAIN event_queue : event_queue[i].type # "BusReset"
  /\ ~ usb.out_stall
  /\ libgreat_response_last_error = None
  /\ Between => host.got = 0
  /\ ~ Between => Servable(host.setup) /\ host.setup.id = host.id

(* Nothing happens between a SETUP packet and its dispatch.                *)
SetupLast ==
  /\ SetupDue =>
       /\ ~ Between /\ host.stage = FirstStage(host.setup)
       /\ host.sent = 0 /\ host.got = 0
  /\ "EpControl" \in usb.pending => usb.setup = host.setup
  /\ \A i \in DOMAIN event_queue :
       event_queue[i].type = "ReceiveSetupPacket" =>
         /\ i = Len(event_queue) /\ usb.pending = {}
         /\ event_queue[i].setup = host.setup

NothingDue == usb.pending = {} /\ event_queue = <<>>
NothingPrimed == usb.in = <<>> /\ ~ usb.in_ready
NothingOffered == NothingPrimed /\ ~ usb.out_enable

(* Until the next SETUP packet is dispatched the device completes the      *)
(* transfer before, for which all it has to wait for is due.               *)
Settling ==
  /\ NothingOffered
  /\ usb.in_stall => usb.pending = {} /\ Between
  /\ usb.tx.at \in {"none", "wait"} /\ usb.tx.left = <<>>
  /\ usb.tx.at = "wait" /\ usb.tx_ack => "EpIn" \in usb.pending
  /\ next.state \in {"Idle", "Stall", "WaitForZlp", "SetAddress", "Complete",
                     "FinishHostData"}
  /\ returned # NoSetup =>
       /\ returned.request = "Execute" /\ returned.value = 0
       /\ next.state = "Idle" /\ usb.tx.at = "none"
  /\ next.state = "WaitForZlp" => PacketDue
  /\ next.state \in {"SetAddress", "Complete", "FinishHostData"} =>
       SentDue /\ ~ PacketDue
  /\ next.state = "SetAddress" => (Between <=> next.setup.id = host.id)
  /\ next.state = "FinishHostData" =>
       next.setup.request = "Execute" /\ next.setup.value = 0

(* Its request is with the caller of Control.                              *)
Handed ==
  /\ NothingDue /\ NothingOffered /\ usb.tx = NoWrite /\ ~ usb.in_stall
  /\ returned = host.setup /\ next.state = "Idle"
  /\ host.setup.request \in {"Response", "Cancel", "UnknownIn", "Claim"}
  /\ host.stage = FirstStage(host.setup) /\ host.got = 0

Refused ==
  /\ NothingDue /\ NothingOffered /\ usb.tx = NoWrite /\ usb.in_stall
  /\ returned = NoSetup /\ next.state \in {"Idle", "Stall"}
  /\ HostPolls
  /\ \/ host.setup.request \in {"Response", "UnknownIn"}
     \/ host.setup.value # 0

(* What is primed or left to be written of an answer.                      *)
Unread == usb.in \o usb.tx.left

(* Of the packets left only the last may be short, and it is unless the    *)
(* answer has the length that was asked for.                               *)
AnswerLeft ==
  \A i \in DOMAIN Unread :
    /\ Unread[i].id = host.id
    /\ i < Len(Unread) => Unread[i].size = "full"
    /\ host.got + Len(Unread) <= host.setup.length
    /\ i = Len(Unread) /\ Unread[i].size = "full" =>
         host.got + Len(Unread) = host.setup.length

(* The answer is on its way, and the OUT endpoint is primed for its        *)
(* acknowledgement, by the verb or when the first packet has left.         *)
Answering ==
  /\ returned = NoSetup /\ ~ usb.in_stall /\ DeviceToHost(host.setup)
  /\ usb.pending \subseteq {"EpIn"}
  /\ \A i \in DOMAIN event_queue : event_queue[i].type = "SendComplete"
  /\ Len(usb.in) <= 1 /\ (usb.in_ready <=> usb.in # <<>>)
  /\ usb.in_ready => usb.pending = {}
  /\ usb.tx.at \in {"drain", "fill"} => usb.in = <<>>
  /\ usb.tx.at = "wait" =>
       /\ usb.tx_ack => usb.in_ready \/ "EpIn" \in usb.pending
       /\ usb.in_ready => usb.tx_ack
  /\ usb.tx.at = "none" => usb.tx.left = <<>>
  /\ host.stage = (IF Unread = <<>> THEN "status" ELSE "data")
  /\ AnswerLeft
  /\ next.state \in {"Send", "WaitForZlp", "Idle"}
  /\ usb.out_enable <=> next.state # "Send"
  /\ next.state = "Send" /\ usb.tx.at \in {"none", "wait"} /\ usb.in = <<>> =>
       SentDue
  /\ next.state = "WaitForZlp" => usb.tx.at = "none"

(* The data of a command is on its way.                                    *)
Receiving ==
  /\ host.setup.request = "Execute"
  /\ returned = NoSetup /\ NothingPrimed /\ ~ usb.in_stall /\ usb.tx = NoWrite
  /\ next = [state |-> "ReceiveHostData", setup |-> host.setup]
  /\ host.stage = (IF host.sent = host.setup.length THEN "status" ELSE "data")
  /\ \/ /\ NothingDue /\ usb.out_enable
        /\ Len(rx_buffer) = host.sent /\ host.stage = "data"
     \/ /\ ~ usb.out_enable /\ Len(usb.out) = 1 /\ Len(rx_buffer) + 1 = host.sent
        /\ \/ usb.pending = {"EpOut"} /\ event_queue = <<>>
           \/ /\ usb.pending = {} /\ Len(event_queue) = 1
              /\ event_queue[1].type = "ReceivePacket"

Zlp(id) == [id |-> id, of |-> <<>>, size |-> "zlp"]

(* The acknowledgement is on its way.                                      *)
Acknowledging ==
  /\ NothingDue /\ returned = NoSetup /\ ~ usb.in_stall /\ ~ usb.out_enable
  /\ host.stage = "status" /\ ~ DeviceToHost(host.setup)
  /\ \/ next.state \in {"Idle", "Complete"}
     \/ /\ next.state \in {"SetAddress", "FinishHostData"}
        /\ next.setup = host.setup
  /\ next.state = "FinishHostData" => next.setup.request = "Execute"
  /\ \/ /\ usb.tx.at \in {"drain", "fill"} /\ NothingPrimed
        /\ usb.tx.left = << Zlp(host.id) >>
     \/ /\ usb.tx = NoWrite /\ usb.in_ready /\ usb.in = << Zlp(host.id) >>

Serving == Handed \/ Refused \/ Answering \/ Receiving \/ Acknowledging

Proceeding ==
  /\ Calm /\ SetupLast
  /\ Between \/ SetupDue => Settling
  /\ ~ Between /\ ~ SetupDue => Serving

(* A core that hangs has nothing to offer.                                 *)
Protocol ==
  /\ hung => NothingPrimed /\ ~ usb.in_stall /\ event_queue = <<>>
  /\ ~ hung => Proceeding
-----------------------------------------------------------------------------
(* The event queue.                                                        *)

LEMMA PortTypes ==
  ASSUME IInv
  PROVE  /\ usb \in Usb /\ usb.tx \in Write
         /\ usb.pending \subseteq {"BusReset", "EpControl", "EpIn", "EpOut"}
         /\ event_queue \in Seq(Event) /\ Len(event_queue) \in Nat
         /\ DOMAIN event_queue = 1 .. Len(event_queue)
         /\ host \in Host /\ host.id \in Transfers /\ host.stage \in Stages
         /\ (~ Between <=> host.stage \in {"data", "status"})
         /\ ~ Between => host.setup \in SetupPacket /\ host.setup # NoSetup
         /\ rx_buffer \in Seq(OutPacket)
         /\ next \in [state : State, setup : SetupPacket \union {NoSetup}]
  <1>1. /\ usb \in Usb /\ event_queue \in Seq(Event) /\ host \in Host
        /\ rx_buffer \in Seq(OutPacket)
        /\ next \in [state : State, setup : SetupPacket \union {NoSetup}]
    BY Zenon DEF IInv, TypeOK, ControlTypeOK
  <1>2. usb.tx \in Write /\ usb.pending \subseteq Irq
    BY <1>1 DEF Usb
  <1>3. host.id \in Transfers /\ host.stage \in Stages
        /\ host.setup \in SetupPacket \union {NoSetup}
    BY <1>1 DEF Host
  <1>4. Len(event_queue) \in Nat /\ DOMAIN event_queue = 1 .. Len(event_queue)
    <2>1. ASSUME NEW S, NEW q \in Seq(S)
          PROVE  Len(q) \in Nat /\ DOMAIN q = 1 .. Len(q)
      OBVIOUS
    <2>2. QED
      BY <1>1, <2>1
  <1>5. ~ Between <=> host.stage \in {"data", "status"}
    BY <1>3 DEF Between, Stages
  <1>6. ~ Between => host.setup # NoSetup
    BY <1>5 DEF IInv, InProgress
  <1>7. QED
    BY <1>1, <1>2, <1>3, <1>4, <1>5, <1>6 DEF Irq

LEMMA QueueGrows ==
  ASSUME IInv, NEW event \in Event, event_queue' = Append(event_queue, event)
  PROVE  /\ Len(event_queue') = Len(event_queue) + 1
         /\ DOMAIN event_queue' = 1 .. Len(event_queue) + 1
         /\ \A i \in 1 .. Len(event_queue) : event_queue'[i] = event_queue[i]
         /\ event_queue'[Len(event_queue) + 1] = event
         /\ \A type : Queued(type)' <=> Queued(type) \/ event.type = type
  <1>1. event_queue \in Seq(Event)
    BY PortTypes
  <1>2. ASSUME NEW S, NEW q \in Seq(S), NEW e \in S
        PROVE  /\ Len(q) \in Nat /\ DOMAIN q = 1 .. Len(q)
               /\ Len(Append(q, e)) = Len(q) + 1
               /\ DOMAIN Append(q, e) = 1 .. Len(q) + 1
               /\ \A i \in 1 .. Len(q) : Append(q, e)[i] = q[i]
               /\ Append(q, e)[Len(q) + 1] = e
    OBVIOUS
  <1>3. /\ Len(event_queue) \in Nat /\ DOMAIN event_queue = 1 .. Len(event_queue)
        /\ Len(event_queue') = Len(event_queue) + 1
        /\ DOMAIN event_queue' = 1 .. Len(event_queue) + 1
        /\ \A i \in 1 .. Len(event_queue) : event_queue'[i] = event_queue[i]
        /\ event_queue'[Len(event_queue) + 1] = event
    BY <1>1, <1>2
  <1>4. ASSUME NEW type
        PROVE  Queued(type)' <=> Queued(type) \/ event.type = type
    BY <1>3 DEF Queued
  <1>5. QED
    BY <1>3, <1>4

LEMMA QueueShrinks ==
  ASSUME IInv, event_queue # <<>>, event_queue' = Tail(event_queue)
  PROVE  /\ Head(event_queue) = event_queue[1] /\ 1 \in DOMAIN event_queue
         /\ Len(event_queue') = Len(event_queue) - 1
         /\ DOMAIN event_queue' = 1 .. Len(event_queue) - 1
         /\ \A i \in 1 .. Len(event_queue) - 1 :
              event_queue'[i] = event_queue[i + 1]
         /\ Len(event_queue) = 1 => event_queue' = <<>>
         /\ \A type : Queued(type) <=> Queued(type)' \/ event_queue[1].type = type
  <1>1. event_queue \in Seq(Event)
    BY PortTypes
  <1>2. ASSUME NEW S, NEW q \in Seq(S), q # <<>>
        PROVE  /\ Len(q) \in Nat \ {0} /\ DOMAIN q = 1 .. Len(q)
               /\ Head(q) = q[1]
               /\ Len(Tail(q)) = Len(q) - 1
               /\ DOMAIN Tail(q) = 1 .. Len(q) - 1
               /\ \A i \in 1 .. Len(q) - 1 : Tail(q)[i] = q[i + 1]
               /\ Len(q) = 1 => Tail(q) = <<>>
    <2>1. Len(q) \in Nat \ {0} /\ DOMAIN q = 1 .. Len(q)
      BY <1>2
    <2>2. Head(q) = q[1]
      BY <1>2
    <2>3. Tail(q) \in Seq(S) /\ Len(Tail(q)) = Len(q) - 1
      BY <1>2
    <2>4. DOMAIN Tail(q) = 1 .. Len(q) - 1
      BY <2>1, <2>3
    <2>5. \A i \in 1 .. Len(q) - 1 : Tail(q)[i] = q[i + 1]
      BY <1>2
    <2>6. Len(q) = 1 => Tail(q) = <<>>
      <3>1. ASSUME NEW t \in Seq(S), Len(t) = 0
            PROVE  t = <<>>
        BY <3>1
      <3>2. Len(q) = 1 => Len(Tail(q)) = 0
        BY <2>1, <2>3
      <3>3. QED
        BY <2>3, <3>1, <3>2, Zenon
    <2>7. QED
      BY <2>1, <2>2, <2>3, <2>4, <2>5, <2>6
  <1>3. /\ Len(event_queue) \in Nat \ {0}
        /\ DOMAIN event_queue = 1 .. Len(event_queue)
        /\ Head(event_queue) = event_queue[1]
        /\ Len(event_queue') = Len(event_queue) - 1
        /\ DOMAIN event_queue' = 1 .. Len(event_queue) - 1
        /\ \A i \in 1 .. Len(event_queue) - 1 :
             event_queue'[i] = event_queue[i + 1]
        /\ Len(event_queue) = 1 => event_queue' = <<>>
    BY <1>1, <1>2
  <1>4. ASSUME NEW type
        PROVE  Queued(type) <=> Queued(type)' \/ event_queue[1].type = type
    <2>1. \A i \in DOMAIN event_queue : i = 1 \/ i - 1 \in DOMAIN event_queue'
      BY <1>3
    <2>2. \A i \in DOMAIN event_queue : i # 1 => event_queue[i] = event_queue'[i - 1]
      BY <1>3
    <2>3. \A i \in DOMAIN event_queue' : i + 1 \in DOMAIN event_queue
      BY <1>3
    <2>4. 1 \in DOMAIN event_queue
      BY <1>3
    <2>5. QED
      BY <1>3, <2>1, <2>2, <2>3, <2>4 DEF Queued
  <1>5. QED
    BY <1>3, <1>4

(* While an interrupt is pending nothing is primed, so that an overflow of *)
(* the queue leaves nothing behind.                                        *)
LEMMA BusyOffersNothing ==
  ASSUME IInv, Proceeding, usb.pending # {}
  PROVE  NothingPrimed /\ ~ usb.in_stall
  <1>1. CASE Between \/ SetupDue
    BY <1>1 DEF Proceeding, Settling, NothingOffered
  <1>2. CASE ~ Between /\ ~ SetupDue
    <2>1. Answering \/ Receiving
      BY <1>2 DEF Proceeding, Serving, Handed, Refused, Acknowledging, NothingDue
    <2>2. usb.in \in Seq(InPacket) /\ usb.in_ready \in BOOLEAN
      BY PortTypes DEF Usb
    <2>3. QED
      BY <2>1, <2>2 DEF Answering, Receiving, NothingPrimed
  <1>3. QED
    BY <1>1, <1>2

(* The interrupt handler takes one interrupt, never that of a bus reset,   *)
(* and that of a SETUP packet when it is the only one.                     *)
LEMMA HandlesOne ==
  ASSUME IInv, Calm, MachineExternal
  PROVE  \E irq \in usb.pending, event \in Event :
           /\ Enqueue(event)
           /\ event.type = CASE irq = "EpControl" -> "ReceiveSetupPacket"
                             [] irq = "EpIn" -> "SendComplete"
                             [] irq = "EpOut" -> "ReceivePacket"
           /\ irq \in {"EpControl", "EpIn", "EpOut"}
           /\ usb'.pending = usb.pending \ {irq}
           /\ irq = "EpControl" =>
                usb.pending = {"EpControl"} /\ event.setup = usb.setup
           /\ irq # "EpControl" => usb'.setup = usb.setup
           /\ usb'.tx_ack = (usb.tx_ack /\ irq # "EpIn")
           /\ usb'.in = usb.in /\ usb'.in_ready = usb.in_ready
           /\ usb'.in_stall = usb.in_stall /\ usb'.out = usb.out
           /\ usb'.out_enable = usb.out_enable
           /\ usb'.out_stall = usb.out_stall /\ usb'.tx = usb.tx
           /\ usb'.address = usb.address
  <1> DEFINE irq == HighestPending(usb.pending)
  <1>1. /\ usb \in Usb /\ usb.pending # {} /\ usb.pending \in SUBSET Irq
        /\ "BusReset" \notin usb.pending
        /\ "EpControl" \in usb.pending => usb.setup \in SetupPacket
    BY PortTypes DEF Calm, MachineExternal, Irq, IInv, InProgress, Usb
  <1>2. /\ irq \in usb.pending
        /\ \A other \in usb.pending : IrqNumber(irq) >= IrqNumber(other)
    BY <1>1, HighestPendingIsPending
  <1>3. irq = "EpControl" => usb.pending = {"EpControl"}
    <2>1. /\ IrqNumber("EpControl") = 1
          /\ IrqNumber("EpIn") = 2 /\ IrqNumber("EpOut") = 3
      BY DEF IrqNumber
    <2>2. \A other \in usb.pending : other \in {"EpControl", "EpIn", "EpOut"}
      BY <1>1 DEF Irq
    <2>3. QED
      BY <1>2, <2>1, <2>2
  <1> HIDE DEF irq
  <1>4. usb.tx_ack \in BOOLEAN
    BY <1>1 DEF Usb
  <1>5. CASE /\ irq = "EpControl" /\ usb' = ReadSetup(usb)
             /\ Enqueue([type |-> "ReceiveSetupPacket", setup |-> usb.setup])
    <2>1. [type |-> "ReceiveSetupPacket", setup |-> usb.setup] \in Event
      BY <1>1, <1>2, <1>5 DEF Event
    <2>2. QED
      BY <1>1, <1>2, <1>3, <1>4, <1>5, <2>1 DEF ReadSetup, ClearPending, Usb
  <1>6. CASE /\ irq = "EpIn" /\ usb' = SendComplete(usb)
             /\ Enqueue([type |-> "SendComplete", setup |-> NoSetup])
    <2>1. [type |-> "SendComplete", setup |-> NoSetup] \in Event
      BY DEF Event
    <2>2. QED
      BY <1>1, <1>2, <1>4, <1>6, <2>1 DEF SendComplete, ClearPending, Usb
  <1>7. CASE /\ irq = "EpOut" /\ usb' = ClearPending(usb, "EpOut")
             /\ Enqueue([type |-> "ReceivePacket", setup |-> NoSetup])
    <2>1. [type |-> "ReceivePacket", setup |-> NoSetup] \in Event
      BY DEF Event
    <2>2. QED
      BY <1>1, <1>2, <1>4, <1>7, <2>1 DEF ClearPending, Usb
  <1>8. irq # "BusReset"
    BY <1>1, <1>2
  <1>9. QED
    BY <1>5, <1>6, <1>7, <1>8, Zenon DEF MachineExternal, irq

(* Handling an interrupt changes where what is due is kept. It does not    *)
(* interfere with a transfer: a SETUP packet is queued last.               *)
LEMMA HandlerKeepsProtocol ==
  ASSUME IInv, Protocol, MachineExternal
  PROVE  Protocol'
  <1>1. /\ ~ hung /\ Proceeding /\ usb.pending # {}
        /\ NothingPrimed /\ ~ usb.in_stall
    BY BusyOffersNothing DEF MachineExternal, Protocol
  <1>2. Calm /\ SetupLast
    BY <1>1 DEF Proceeding
  <1>3. PICK irq \in usb.pending, event \in Event :
           /\ Enqueue(event)
           /\ event.type = CASE irq = "EpControl" -> "ReceiveSetupPacket"
                             [] irq = "EpIn" -> "SendComplete"
                             [] irq = "EpOut" -> "ReceivePacket"
           /\ irq \in {"EpControl", "EpIn", "EpOut"}
           /\ usb'.pending = usb.pending \ {irq}
           /\ irq = "EpControl" =>
                usb.pending = {"EpControl"} /\ event.setup = usb.setup
           /\ irq # "EpControl" => usb'.setup = usb.setup
           /\ usb'.tx_ack = (usb.tx_ack /\ irq # "EpIn")
           /\ usb'.in = usb.in /\ usb'.in_ready = usb.in_ready
           /\ usb'.in_stall = usb.in_stall /\ usb'.out = usb.out
           /\ usb'.out_enable = usb.out_enable
           /\ usb'.out_stall = usb.out_stall /\ usb'.tx = usb.tx
           /\ usb'.address = usb.address
    BY <1>2, HandlesOne
  <1>4. /\ UNCHANGED <<next, rx_buffer, returned, host>>
        /\ UNCHANGED libgreat_response_last_error
    BY Zenon DEF MachineExternal, firmwareVars, libgreatVars
  <1>5. NothingPrimed' /\ ~ usb'.in_stall
    BY <1>1, <1>3 DEF NothingPrimed
  <1>6. CASE event_queue' = <<>> /\ hung' = TRUE
    BY <1>5, <1>6 DEF Protocol
  <1>7. CASE event_queue' = Append(event_queue, event) /\ UNCHANGED hung
    <2>1. /\ Len(event_queue) \in Nat
          /\ DOMAIN event_queue = 1 .. Len(event_queue)
          /\ Len(event_queue') = Len(event_queue) + 1
          /\ DOMAIN event_queue' = 1 .. Len(event_queue) + 1
          /\ \A i \in 1 .. Len(event_queue) : event_queue'[i] = event_queue[i]
          /\ event_queue'[Len(event_queue) + 1] = event
          /\ \A type : Queued(type)' <=> (Queued(type) \/ event.type = type)
      BY <1>7, PortTypes, QueueGrows
    <2>2. /\ PacketDue' <=> PacketDue
          /\ SentDue' <=> SentDue
          /\ SetupDue' <=> SetupDue
      <3>1. /\ Queued("ReceivePacket")' <=>
                 (Queued("ReceivePacket") \/ irq = "EpOut")
            /\ Queued("SendComplete")' <=>
                 (Queued("SendComplete") \/ irq = "EpIn")
            /\ Queued("ReceiveSetupPacket")' <=>
                 (Queued("ReceiveSetupPacket") \/ irq = "EpControl")
        BY <1>3, <2>1
      <3>2. QED
        BY <1>3, <3>1, Zenon DEF PacketDue, SentDue, SetupDue
    <2>3. Between' <=> Between
      BY <1>4 DEF Between
    <2>4. Calm'
      <3>1. \A i \in DOMAIN event_queue' : event_queue'[i].type # "BusReset"
        BY <1>2, <1>3, <2>1 DEF Calm
      <3>2. QED
        BY <1>2, <1>3, <1>4, <2>3, <3>1 DEF Calm, Servable
    <2>5. SetupLast'
      <3>1. SetupDue' => /\ ~ Between' /\ host'.stage = FirstStage(host'.setup)
                         /\ host'.sent = 0 /\ host'.got = 0
        BY <1>2, <1>4, <2>2, <2>3 DEF SetupLast
      <3>2. "EpControl" \in usb'.pending => usb'.setup = host'.setup
        BY <1>2, <1>3, <1>4 DEF SetupLast
      <3>3. ASSUME NEW i \in DOMAIN event_queue',
                   event_queue'[i].type = "ReceiveSetupPacket"
            PROVE  /\ i = Len(event_queue') /\ usb'.pending = {}
                   /\ event_queue'[i].setup = host'.setup
        <4>1. i \notin DOMAIN event_queue
          BY <1>1, <1>2, <2>1, <3>3 DEF SetupLast
        <4>2. i = Len(event_queue) + 1
          BY <2>1, <3>3, <4>1
        <4>3. irq = "EpControl"
          BY <1>3, <2>1, <3>3, <4>2
        <4>4. QED
          BY <1>2, <1>3, <1>4, <2>1, <4>2, <4>3 DEF SetupLast
      <3>4. QED
        BY <3>1, <3>2, <3>3 DEF SetupLast
    <2>6. ASSUME Settling
          PROVE  Settling'
      BY <1>1, <1>3, <1>4, <2>2, <2>3, <2>6
         DEF Settling, NothingOffered, NothingPrimed
    <2>7. ASSUME Serving
          PROVE  Serving'
      <3>1. Answering \/ Receiving
        BY <1>1, <2>7
           DEF Serving, Handed, Refused, Acknowledging, NothingDue
      <3>2. CASE Answering
        <4>1. irq = "EpIn" /\ event.type = "SendComplete"
          BY <1>3, <3>2 DEF Answering
        <4>2. \A i \in DOMAIN event_queue' : event_queue'[i].type = "SendComplete"
          BY <2>1, <3>2, <4>1 DEF Answering
        <4>3. Unread' = Unread
          BY <1>3 DEF Unread
        <4>4. AnswerLeft'
          BY <1>4, <3>2, <4>3 DEF Answering, AnswerLeft
        <4>5. Answering'
          BY <1>1, <1>3, <1>4, <2>2, <3>2, <4>1, <4>2, <4>3, <4>4
             DEF Answering, NothingPrimed
        <4>6. QED
          BY <4>5 DEF Serving
      <3>3. CASE Receiving
        <4>1. usb.pending = {"EpOut"} /\ event_queue = <<>> /\ ~ usb.out_enable
              /\ Len(usb.out) = 1 /\ Len(rx_buffer) + 1 = host.sent
          BY <1>1, <3>3 DEF Receiving, NothingDue
        <4>2. usb'.pending = {} /\ event.type = "ReceivePacket"
          BY <1>3, <4>1
        <4>3. Len(event_queue') = 1 /\ event_queue'[1].type = "ReceivePacket"
          BY <2>1, <4>1, <4>2
        <4>4. Receiving'
          BY <1>3, <1>4, <1>5, <3>3, <4>1, <4>2, <4>3 DEF Receiving
        <4>5. QED
          BY <4>4 DEF Serving
      <3>4. QED
        BY <3>1, <3>2, <3>3
    <2>8. Proceeding'
      BY <1>1, <2>2, <2>3, <2>4, <2>5, <2>6, <2>7 DEF Proceeding
    <2>9. QED
      BY <1>1, <1>7, <2>8 DEF Protocol
  <1>8. QED
    BY <1>3, <1>6, <1>7, Zenon DEF Enqueue

LEMMA HeadAndTail ==
  ASSUME NEW q \in Seq(InPacket), q # <<>>
  PROVE  /\ Len(q) \in Nat \ {0} /\ q[1] = Head(q)
         /\ Tail(q) \in Seq(InPacket)
         /\ Len(Tail(q)) = Len(q) - 1
         /\ Len(q) = 1 => Tail(q) = <<>>
         /\ << Head(q) >> \o Tail(q) = q
         /\ <<>> \o q = q
  <1>1. Len(q) \in Nat \ {0} /\ q[1] = Head(q)
    OBVIOUS
  <1>2. /\ Tail(q) \in Seq(InPacket) /\ Len(Tail(q)) = Len(q) - 1
        /\ \A i \in 1 .. Len(q) - 1 : Tail(q)[i] = q[i + 1]
        /\ Head(q) \in InPacket
    OBVIOUS
  <1>3. Len(q) = 1 => Tail(q) = <<>>
    <2>1. ASSUME NEW t \in Seq(InPacket), Len(t) = 0
          PROVE  t = <<>>
      BY <2>1
    <2>2. Len(q) = 1 => Len(Tail(q)) = 0
      BY <1>1, <1>2
    <2>3. QED
      BY <1>2, <2>1, <2>2, Zenon
  <1>4. << Head(q) >> \o Tail(q) = q
    <2> DEFINE r == << Head(q) >> \o Tail(q)
    <2>1. r \in Seq(InPacket) /\ Len(r) = Len(q)
      BY <1>1, <1>2
    <2>2. \A i \in 1 .. Len(q) : r[i] = q[i]
      BY <1>1, <1>2
    <2> HIDE DEF r
    <2>3. r = q
      BY <2>1, <2>2
    <2>4. QED
      BY <2>3 DEF r
  <1>5. <<>> \o q = q
    OBVIOUS
  <1>6. QED
    BY <1>1, <1>2, <1>3, <1>4, <1>5

(* A step of the firmware that leaves the host, the queue and the          *)
(* interrupts alone leaves what is due as it is.                           *)
LEMMA SameDue ==
  ASSUME UNCHANGED <<event_queue, host>>, usb'.pending = usb.pending,
         usb'.setup = usb.setup, usb'.out_stall = usb.out_stall,
         libgreat_response_last_error' = libgreat_response_last_error,
         Calm, SetupLast
  PROVE  /\ Calm' /\ SetupLast' /\ (Between' <=> Between)
         /\ PacketDue' <=> PacketDue
         /\ SentDue' <=> SentDue
         /\ SetupDue' <=> SetupDue
  <1>1. Between' <=> Between
    BY DEF Between
  <1>2. \A type : Queued(type)' <=> Queued(type)
    BY DEF Queued
  <1>3. /\ PacketDue' <=> PacketDue
        /\ SentDue' <=> SentDue
        /\ SetupDue' <=> SetupDue
    BY <1>2, Zenon DEF PacketDue, SentDue, SetupDue
  <1>4. Calm'
    BY <1>1 DEF Calm, Servable
  <1>5. SetupLast'
    BY <1>1, <1>3 DEF SetupLast
  <1>6. QED
    BY <1>1, <1>3, <1>4, <1>5

(* The packets of an answer wait for each other, and the last for nobody;  *)
(* the driver never has to give one up.                                    *)
LEMMA WriteStepKeepsProtocol ==
  ASSUME IInv, Protocol, WriteStep
  PROVE  Protocol'
  <1>1. /\ ~ hung /\ usb.pending = {} /\ usb \in Usb /\ usb.tx \in Write
        /\ usb.tx.at \in {"drain", "fill", "wait"}
    BY PortTypes DEF WriteStep, MainRuns, DrainDone
  <1>2. Proceeding /\ Calm /\ SetupLast
    BY <1>1 DEF Protocol, Proceeding
  <1>3. UNCHANGED <<next, rx_buffer, returned, libgreat_response_last_error,
                    event_queue, hung, host>>
    BY Zenon DEF WriteStep, firmwareVars, libgreatVars
  <1>4. /\ usb'.pending = usb.pending /\ usb'.setup = usb.setup
        /\ usb'.out_stall = usb.out_stall /\ usb'.in_stall = usb.in_stall
        /\ usb'.out_enable = usb.out_enable
    BY <1>1 DEF WriteStep, Fill, Sent, DrainTimeout, WaitTimeout, Usb
  <1>5. /\ Calm' /\ SetupLast' /\ (Between' <=> Between)
        /\ PacketDue' <=> PacketDue
        /\ SentDue' <=> SentDue
        /\ SetupDue' <=> SetupDue
    BY <1>2, <1>3, <1>4, SameDue
  <1>6. ASSUME Settling
        PROVE  Settling'
    <2>1. usb.tx.at = "wait" /\ ~ usb.tx_ack /\ usb.tx.left = <<>>
      BY <1>1, <1>6 DEF Settling
    <2>2. usb' = Sent(usb)
      BY <2>1 DEF WriteStep, DrainDone
    <2>3. /\ usb'.tx = NoWrite
          /\ usb'.in = usb.in /\ usb'.in_ready = usb.in_ready
      BY <1>1, <2>1, <2>2 DEF Sent, Usb
    <2>4. QED
      BY <1>3, <1>4, <1>5, <1>6, <2>3
         DEF Settling, NothingOffered, NothingPrimed, NoWrite
  <1>7. ASSUME Serving, ~ SetupDue, ~ Between
        PROVE  Serving'
    <2>1. Answering \/ Acknowledging
      BY <1>1, <1>7 DEF Serving, Handed, Refused, Receiving, NoWrite
    <2>2. CASE Acknowledging
      <3>1. /\ usb.tx.at \in {"drain", "fill"} /\ NothingPrimed
            /\ usb.tx.left = << Zlp(host.id) >>
        BY <1>1, <2>2 DEF Acknowledging, NoWrite
      <3>2. ~ Have(usb)
        BY <3>1 DEF NothingPrimed, Have
      <3>3. CASE usb' = [usb EXCEPT !.tx.at = "fill"]
        <4>1. /\ usb'.tx.at = "fill" /\ usb'.tx.left = usb.tx.left
              /\ usb'.in = usb.in /\ usb'.in_ready = usb.in_ready
          BY <1>1, <3>3 DEF Usb, Write
        <4>2. Acknowledging'
          BY <1>3, <1>4, <2>2, <3>1, <4>1
             DEF Acknowledging, NothingPrimed, NothingDue, Zlp
        <4>3. QED
          BY <4>2 DEF Serving
      <3>4. CASE usb' = Fill(usb)
        <4>1. Head(usb.tx.left) = Zlp(host.id)
          BY <3>1
        <4>2. /\ usb'.in = Append(usb.in, Zlp(host.id)) /\ usb'.in_ready = TRUE
              /\ usb'.tx = NoWrite
          BY <1>1, <3>4, <4>1 DEF Fill, Usb, Zlp
        <4>3. usb'.in = << Zlp(host.id) >>
          BY <3>1, <4>2 DEF NothingPrimed
        <4>4. Acknowledging'
          BY <1>3, <1>4, <2>2, <4>2, <4>3 DEF Acknowledging, NothingDue, Zlp
        <4>5. QED
          BY <4>4 DEF Serving
      <3>5. QED
        BY <3>1, <3>2, <3>3, <3>4, Zenon DEF WriteStep, DrainDone
    <2>3. CASE Answering
      <3>1. /\ usb.in \in Seq(InPacket) /\ usb.tx.left \in Seq(InPacket)
            /\ usb.tx_ack \in BOOLEAN
            /\ usb.tx.at \in {"drain", "fill"} => usb.tx.left # <<>>
        BY <1>1 DEF Usb, Write
      <3>2. next.state # "WaitForZlp" /\ AnswerLeft
        BY <1>1, <2>3 DEF Answering
      <3>3. CASE usb' = [usb EXCEPT !.tx.at = "fill"] /\ usb.tx.at = "drain"
        <4>1. /\ usb'.tx.at = "fill" /\ usb'.tx.left = usb.tx.left
              /\ usb'.in = usb.in /\ usb'.in_ready = usb.in_ready
          BY <1>1, <3>3 DEF Usb, Write
        <4>2. Unread' = Unread /\ AnswerLeft'
          BY <1>3, <3>2, <4>1 DEF Unread, AnswerLeft
        <4>3. Answering'
          BY <1>1, <1>3, <1>4, <2>3, <3>2, <3>3, <4>1, <4>2 DEF Answering
        <4>4. QED
          BY <4>3 DEF Serving
      <3>4. CASE usb' = Fill(usb) /\ usb.tx.at = "fill"
        <4>1. usb.in = <<>> /\ usb.tx.left # <<>>
          BY <2>3, <3>1, <3>4 DEF Answering
        <4> DEFINE packet == Head(usb.tx.left)
        <4>2. /\ usb'.in = <<packet>> /\ usb'.in_ready = TRUE
              /\ usb'.tx_ack = TRUE
              /\ usb'.tx = IF packet.size = "full"
                           THEN [at |-> "wait", left |-> Tail(usb.tx.left)]
                           ELSE NoWrite
          <5>1. Append(usb.in, packet) = <<packet>>
            BY <4>1
          <5>2. QED
            BY <1>1, <3>4, <5>1 DEF Fill, Usb
        <4>3. /\ Unread = usb.tx.left /\ Unread[1] = packet
              /\ Len(Unread) \in Nat \ {0}
              /\ Len(Unread) = 1 => Tail(usb.tx.left) = <<>>
              /\ <<packet>> \o Tail(usb.tx.left) = usb.tx.left
          BY <3>1, <4>1, HeadAndTail DEF Unread
        <4>4. packet.size # "full" => Len(Unread) = 1
          BY <3>2, <4>3 DEF AnswerLeft
        <4>5. Unread' = Unread
          <5>1. CASE packet.size = "full"
            BY <4>2, <4>3, <5>1 DEF Unread
          <5>2. CASE packet.size # "full"
            <6>1. usb'.tx.left = Tail(usb.tx.left)
              BY <4>2, <4>3, <4>4, <5>2 DEF NoWrite
            <6>2. QED
              BY <4>2, <4>3, <6>1 DEF Unread
          <5>3. QED
            BY <5>1, <5>2
        <4>6. AnswerLeft'
          BY <1>3, <3>2, <4>5 DEF AnswerLeft
        <4>7. usb'.in # <<>> /\ Len(usb'.in) = 1 /\ usb'.tx.at \in {"none", "wait"}
              /\ (usb'.tx.at = "none" => usb'.tx.left = <<>>)
          BY <4>2 DEF NoWrite
        <4>8. Answering'
          <5> HIDE DEF packet
          <5>1. QED
            BY <1>1, <1>3, <1>4, <2>3, <3>2, <4>2, <4>5, <4>6, <4>7
               DEF Answering
        <4>9. QED
          BY <4>8 DEF Serving
      <3>5. CASE usb' = Sent(usb) /\ usb.tx.at = "wait" /\ ~ usb.tx_ack
        <4>1. usb.in = <<>> /\ ~ usb.in_ready
          BY <2>3, <3>5 DEF Answering
        <4>2. /\ usb'.in = usb.in /\ usb'.in_ready = usb.in_ready
              /\ usb'.tx = IF usb.tx.left = <<>> THEN NoWrite
                           ELSE [at |-> "fill", left |-> usb.tx.left]
          BY <1>1, <3>5 DEF Sent, Usb
        <4>3. usb'.tx.left = usb.tx.left
          BY <4>2 DEF NoWrite
        <4>4. Unread' = Unread /\ AnswerLeft'
          BY <1>3, <3>2, <4>2, <4>3 DEF Unread, AnswerLeft
        <4>5. usb'.tx.at = (IF usb.tx.left = <<>> THEN "none" ELSE "fill")
          BY <4>2 DEF NoWrite
        <4>6. Answering'
          BY <1>1, <1>3, <1>4, <1>5, <2>3, <3>2, <3>5, <4>1, <4>2, <4>3, <4>4,
             <4>5
             DEF Answering
        <4>7. QED
          BY <4>6 DEF Serving
      <3>6. ~ (usb.tx.at = "drain" /\ Have(usb))
        BY <2>3 DEF Answering, Have
      <3>7. ~ (usb.tx.at = "wait" /\ usb.tx_ack /\ NotTaken)
        <4>1. SUFFICES ASSUME usb.tx.at = "wait", usb.tx_ack
                       PROVE  ~ NotTaken
          OBVIOUS
        <4>2. usb.in_ready /\ usb.in # <<>> /\ ~ usb.in_stall
          BY <1>1, <2>3, <4>1 DEF Answering
        <4>3. Unread # <<>>
          BY <3>1, <4>2 DEF Unread
        <4>4. HostPolls
          BY <2>3, <4>3 DEF Answering, HostPolls
        <4>5. QED
          BY <4>2, <4>4 DEF NotTaken, SendsData
      <3>8. QED
        BY <3>3, <3>4, <3>5, <3>6, <3>7, Zenon DEF WriteStep, DrainDone
    <2>4. QED
      BY <2>1, <2>2, <2>3
  <1>8. Proceeding'
    BY <1>2, <1>5, <1>6, <1>7 DEF Proceeding
  <1>9. QED
    BY <1>1, <1>3, <1>8 DEF Protocol

(* write_with_packet_size ends an answer with a short packet, or with the  *)
(* last byte that was asked for.                                           *)
LEMMA AnswersFit ==
  ASSUME NEW id \in Transfers, NEW of \in Seq(OutPacket),
         NEW length \in Nat \ {0}, NEW n \in 0 .. length,
         NEW packets \in Answers(id, of, n, length)
  PROVE  /\ packets \in Seq(InPacket) /\ packets # <<>>
         /\ Len(packets) <= length
         /\ \A i \in DOMAIN packets :
              /\ packets[i].id = id
              /\ i < Len(packets) => packets[i].size = "full"
              /\ i = Len(packets) /\ packets[i].size = "full" =>
                   Len(packets) = length
  <1> DEFINE packet(size) == [id |-> id, of |-> of, size |-> size]
  <1> DEFINE full == [i \in 1 .. n |-> packet("full")]
  <1>1. packets \in Seq(InPacket) /\ packets # <<>>
    BY AnswersType
  <1>2. /\ packet("full") \in InPacket /\ packet("short") \in InPacket
        /\ packet("zlp") \in InPacket
        /\ packet("full").id = id /\ packet("full").size = "full"
        /\ packet("short").id = id /\ packet("short").size = "short"
        /\ packet("zlp").id = id /\ packet("zlp").size = "zlp"
    BY DEF InPacket
  <1>3. /\ full \in Seq(InPacket) /\ Len(full) = n
        /\ \A i \in 1 .. n : full[i] = packet("full")
    BY <1>2
  <1>4. packets \in (IF n = length /\ n > 0
                     THEN {full}
                     ELSE {Append(full, packet("short")),
                           Append(full, packet("zlp"))})
    BY Zenon DEF Answers
  <1> HIDE DEF full, packet
  <1>5. CASE n = length /\ n > 0
    <2>1. packets = full
      BY <1>4, <1>5
    <2>2. DOMAIN packets = 1 .. n
      BY <1>3, <2>1
    <2>3. QED
      BY <1>1, <1>2, <1>3, <1>5, <2>1, <2>2
  <1>6. CASE ~ (n = length /\ n > 0)
    <2>1. PICK last \in InPacket : /\ packets = Append(full, last)
                                   /\ last.id = id /\ last.size # "full"
      BY <1>2, <1>4, <1>6
    <2>2. /\ Len(packets) = n + 1 /\ DOMAIN packets = 1 .. n + 1
          /\ packets[n + 1] = last
          /\ \A i \in 1 .. n : packets[i] = full[i]
      BY <1>3, <2>1
    <2>3. n + 1 <= length
      BY <1>6
    <2>4. QED
      BY <1>1, <1>2, <1>3, <2>1, <2>2, <2>3
  <1>7. QED
    BY <1>5, <1>6

(* An answer that fits its request, handed to write_with_packet_size.      *)
LEMMA AnswerStarts ==
  ASSUME IInv, ~ Between, host.stage = FirstStage(host.setup), host.got = 0,
         host.setup.id = host.id, host.setup.length > 0,
         DeviceToHost(host.setup),
         NEW packets \in Seq(InPacket), packets # <<>>,
         Len(packets) <= host.setup.length,
         \A i \in DOMAIN packets :
           /\ packets[i].id = host.id
           /\ i < Len(packets) => packets[i].size = "full"
           /\ i = Len(packets) /\ packets[i].size = "full" =>
                Len(packets) = host.setup.length,
         NEW u \in Usb, usb' = WriteWithPacketSize(u, packets),
         u.in = <<>>, ~ u.in_ready, ~ u.in_stall, u.pending = {},
         UNCHANGED host, event_queue' = <<>>, returned' = NoSetup,
         \/ next'.state = "Idle" /\ u.out_enable
         \/ next'.state = "Send" /\ ~ u.out_enable
  PROVE  Answering'
  <1>1. /\ usb'.in = <<>> /\ ~ usb'.in_ready /\ ~ usb'.in_stall
        /\ usb'.pending = {} /\ usb'.out_enable = u.out_enable
        /\ usb'.tx = [at |-> "drain", left |-> packets]
    BY DEF WriteWithPacketSize, Usb
  <1>2. Unread' = packets
    BY <1>1, HeadAndTail DEF Unread
  <1>3. host.stage = "data"
    BY DEF FirstStage
  <1>4. host.setup.length \in Nat /\ Len(packets) \in Nat
    BY PortTypes, EndpointAssumption DEF SetupPacket
  <1>5. AnswerLeft'
    BY <1>2, <1>4 DEF AnswerLeft
  <1>6. QED
    BY <1>1, <1>2, <1>3, <1>5 DEF Answering, DeviceToHost

(* A ZLP that acknowledges a request without data for the host, handed to  *)
(* write_with_packet_size.                                                 *)
LEMMA AcknowledgementStarts ==
  ASSUME ~ DeviceToHost(host.setup), host.stage = "status",
         NEW u \in Usb, usb' = WriteZlp(u, host.id),
         u.in = <<>>, ~ u.in_ready, ~ u.in_stall, ~ u.out_enable,
         u.pending = {},
         UNCHANGED host, event_queue' = <<>>, returned' = NoSetup,
         \/ next'.state \in {"Idle", "Complete"}
         \/ /\ next'.state \in {"SetAddress", "FinishHostData"}
            /\ next'.setup = host.setup,
         next'.state = "FinishHostData" => next'.setup.request = "Execute"
  PROVE  Acknowledging'
  <1>1. /\ usb'.in = <<>> /\ ~ usb'.in_ready /\ ~ usb'.in_stall
        /\ usb'.pending = {} /\ ~ usb'.out_enable
        /\ usb'.tx = [at |-> "drain", left |-> << Zlp(host.id) >>]
    BY DEF WriteZlp, WriteWithPacketSize, Usb, Zlp
  <1>2. QED
    BY <1>1 DEF Acknowledging, NothingDue, NothingPrimed, DeviceToHost, Zlp

(* What Control hands on is answered, acknowledged or stalled by the time  *)
(* the host asks, and a command is not refused.                            *)
LEMMA VendorKeepsProtocol ==
  ASSUME IInv, Protocol, HandleVendorRequest
  PROVE  Protocol'
  <1>1. /\ ~ hung /\ usb.pending = {} /\ usb \in Usb /\ usb.tx \in Write
        /\ returned # NoSetup /\ returned' = NoSetup
    BY PortTypes DEF HandleVendorRequest, MainRuns
  <1>2. Proceeding /\ Calm /\ SetupLast
    BY <1>1 DEF Protocol, Proceeding
  <1>3. UNCHANGED <<next, configuration, rx_buffer, event_queue, hung, host>>
    BY Zenon DEF HandleVendorRequest
  <1>4. libgreat_response_last_error = None
    BY <1>2 DEF Calm
  <1>5. CASE Between \/ SetupDue
    <2>1. Settling
      BY <1>2, <1>5 DEF Proceeding
    <2>2. returned.request = "Execute" /\ returned.value = 0
      BY <1>1, <2>1 DEF Settling
    <2>3. DispatchLibgreatRequest
      BY <2>2 DEF HandleVendorRequest, ClaimInterface, DispatchLibgreatResponse,
                  DispatchLibgreatAbort, StallUnknown, VendorRequests
    <2>4. UNCHANGED usb /\ libgreat_response_last_error' = None
      BY <1>4, <2>2, <2>3
         DEF DispatchLibgreatRequest, QueueOutcome, libgreatVars
    <2>5. /\ Calm' /\ SetupLast' /\ (Between' <=> Between)
          /\ PacketDue' <=> PacketDue
          /\ SentDue' <=> SentDue
          /\ SetupDue' <=> SetupDue
      BY <1>2, <1>3, <1>4, <2>4, SameDue
    <2>6. Settling'
      BY <1>1, <1>3, <2>1, <2>4, <2>5
         DEF Settling, NothingOffered, NothingPrimed
    <2>7. QED
      BY <1>1, <1>3, <1>5, <2>5, <2>6 DEF Protocol, Proceeding
  <1>6. CASE ~ Between /\ ~ SetupDue
    <2>1. Handed
      BY <1>1, <1>2, <1>6
         DEF Proceeding, Serving, Refused, Answering, Receiving, Acknowledging
    <2>2. /\ returned = host.setup /\ event_queue = <<>> /\ usb.tx = NoWrite
          /\ usb.in = <<>> /\ ~ usb.in_ready /\ ~ usb.out_enable
          /\ ~ usb.in_stall /\ next.state = "Idle"
          /\ host.stage = FirstStage(host.setup) /\ host.got = 0
          /\ host.setup.request \in {"Response", "Cancel", "UnknownIn", "Claim"}
      BY <2>1 DEF Handed, NothingDue, NothingOffered, NothingPrimed
    <2>3. /\ Servable(host.setup) /\ host.setup.id = host.id
          /\ host.setup \in SetupPacket /\ host.id \in Transfers
          /\ host.setup.length \in Nat
      BY <1>2, <1>6, PortTypes, EndpointAssumption DEF Calm, SetupPacket
    <2>4. libgreat_response_last_error' = None
          /\ usb'.pending = usb.pending /\ usb'.setup = usb.setup
          /\ usb'.out_stall = usb.out_stall
      BY <1>1, <1>4, <2>2
         DEF HandleVendorRequest, ClaimInterface, DispatchLibgreatRequest,
             DispatchLibgreatResponse, DispatchLibgreatAbort, StallUnknown,
             VendorRequests, libgreatVars, DeviceToHost, WriteZlp,
             WriteWithPacketSize, EpOutPrimeReceive, StallEndpointIn, Usb
    <2>5. /\ Calm' /\ SetupLast' /\ (Between' <=> Between)
          /\ SetupDue' <=> SetupDue
      BY <1>2, <1>3, <1>4, <2>4, SameDue
    <2>6. Serving'
      <3> DEFINE primed == EpOutPrimeReceive(usb)
      <3>1. /\ primed \in Usb /\ primed.in = <<>> /\ ~ primed.in_ready
            /\ ~ primed.in_stall /\ primed.out_enable /\ primed.pending = {}
        <4>1. primed \in Usb
          BY <1>1, DriverCallsType
        <4>2. /\ primed.in = usb.in /\ primed.in_ready = usb.in_ready
              /\ primed.in_stall = usb.in_stall /\ primed.out_enable
              /\ primed.pending = usb.pending
          BY <1>1 DEF EpOutPrimeReceive, Usb
        <4> HIDE DEF primed
        <4>3. QED
          BY <1>1, <2>2, <4>1, <4>2
      <3> HIDE DEF primed
      <3>2. CASE ClaimInterface
        <4>1. usb' = WriteZlp(usb, host.id) /\ host.setup.request = "Claim"
          BY <2>2, <2>3, <3>2 DEF ClaimInterface
        <4>2. host.stage = "status" /\ ~ DeviceToHost(host.setup)
          BY <2>2, <2>3, <4>1 DEF Servable, FirstStage, DeviceToHost
        <4>3. Acknowledging'
          BY <1>1, <1>3, <2>2, <4>1, <4>2, AcknowledgementStarts
        <4>4. QED
          BY <4>3 DEF Serving
      <3>3. CASE DispatchLibgreatResponse
        <4>1. /\ host.setup.request = "Response" /\ host.setup.length > 0
              /\ host.setup.length >= MaxAnswer /\ DeviceToHost(host.setup)
          BY <2>2, <2>3, <3>3, HostAssumption
             DEF DispatchLibgreatResponse, Servable, DeviceToHost
        <4>2. ASSUME libgreat_response # None,
                     NEW packets \in WholeAnswers(host.id, libgreat_response,
                                                  host.setup.length),
                     usb' = WriteWithPacketSize(primed, packets)
              PROVE  Answering'
          <5>1. libgreat_response \in Seq(OutPacket)
            BY <4>2 DEF IInv, TypeOK
          <5>2. host.setup.length \in Nat \ {0}
            BY <2>3, <4>1
          <5>3. /\ packets \in Seq(InPacket) /\ packets # <<>>
                /\ Len(packets) <= host.setup.length
                /\ \A i \in DOMAIN packets :
                     /\ packets[i].id = host.id
                     /\ i < Len(packets) => packets[i].size = "full"
                     /\ i = Len(packets) /\ packets[i].size = "full" =>
                          Len(packets) = host.setup.length
            <6>1. PICK n \in 0 .. host.setup.length :
                    packets \in Answers(host.id, libgreat_response, n,
                                        host.setup.length)
              BY <2>3, <4>1, <4>2, <5>1, WholeAnswersFit
            <6>2. QED
              BY <2>3, <5>1, <5>2, <6>1, AnswersFit
          <5>4. QED
            BY <1>1, <1>3, <1>6, <2>2, <2>3, <3>1, <4>1, <4>2, <5>3,
               AnswerStarts
        <4>3. CASE usb' = StallEndpointIn(usb)
          <5>1. Refused'
            BY <1>1, <1>3, <2>2, <4>1, <4>3
               DEF Refused, NothingDue, NothingOffered, NothingPrimed, NoWrite,
                   StallEndpointIn, HostPolls, DeviceToHost, FirstStage, Usb
          <5>2. QED
            BY <5>1 DEF Serving
        <4>4. QED
          BY <1>4, <2>2, <2>3, <3>3, <4>2, <4>3
             DEF DispatchLibgreatResponse, Serving, primed
      <3>4. CASE DispatchLibgreatAbort
        <4>1. /\ host.setup.request = "Cancel" /\ host.setup.length > 0
              /\ DeviceToHost(host.setup)
          BY <2>2, <2>3, <3>4
             DEF DispatchLibgreatAbort, Servable, DeviceToHost
        <4>2. usb' = WriteWithPacketSize(primed,
                <<[id |-> host.id, of |-> <<>>, size |-> "short"]>>)
          BY <1>4, <2>2, <2>3, <3>4 DEF DispatchLibgreatAbort, primed
        <4>3. ASSUME NEW packet \in InPacket, packet.id = host.id,
                     packet.size = "short",
                     usb' = WriteWithPacketSize(primed, <<packet>>)
              PROVE  Answering'
          <5> DEFINE packets == <<packet>>
          <5>1. /\ packets \in Seq(InPacket) /\ packets # <<>>
                /\ Len(packets) = 1 /\ DOMAIN packets = {1}
                /\ packets[1] = packet
            OBVIOUS
          <5>2. usb' = WriteWithPacketSize(primed, packets)
            BY <4>3
          <5> HIDE DEF packets
          <5>3. /\ Len(packets) <= host.setup.length
                /\ \A i \in DOMAIN packets :
                     /\ packets[i].id = host.id
                     /\ i < Len(packets) => packets[i].size = "full"
                     /\ i = Len(packets) /\ packets[i].size = "full" =>
                          Len(packets) = host.setup.length
            BY <2>3, <4>1, <4>3, <5>1
          <5>4. QED
            BY <1>1, <1>3, <1>6, <2>2, <2>3, <3>1, <4>1, <5>1, <5>2, <5>3,
               AnswerStarts
        <4>4. [id |-> host.id, of |-> <<>>, size |-> "short"] \in InPacket
          BY <2>3 DEF InPacket
        <4>5. Answering'
          BY <4>2, <4>3, <4>4
        <4>6. QED
          BY <4>5 DEF Serving
      <3>5. CASE StallUnknown
        <4>1. host.setup.request = "UnknownIn" /\ host.setup.length > 0
          BY <2>2, <2>3, <3>5 DEF StallUnknown, VendorRequests, Servable
        <4>2. usb' = StallEndpointIn(usb)
          BY <2>2, <3>5, <4>1 DEF StallUnknown, DeviceToHost
        <4>3. Refused'
          BY <1>1, <1>3, <2>2, <4>1, <4>2
             DEF Refused, NothingDue, NothingOffered, NothingPrimed, NoWrite,
                 StallEndpointIn, HostPolls, DeviceToHost, FirstStage, Usb
        <4>4. QED
          BY <4>3 DEF Serving
      <3>6. ~ DispatchLibgreatRequest
        BY <2>2 DEF DispatchLibgreatRequest
      <3>7. QED
        BY <3>2, <3>3, <3>4, <3>5, <3>6, Zenon DEF HandleVendorRequest
    <2>7. QED
      BY <1>1, <1>3, <1>6, <2>5, <2>6 DEF Protocol, Proceeding
  <1>7. QED
    BY <1>5, <1>6

(* What dispatching the head of the queue has in common.                   *)
LEMMA Dispatching ==
  ASSUME IInv, Protocol, MainLoop
  PROVE  /\ ~ hung /\ ~ hung' /\ usb.pending = {} /\ usb \in Usb
         /\ usb.tx \in Write /\ usb.tx.at = "none" /\ returned = NoSetup
         /\ Proceeding /\ Calm /\ SetupLast
         /\ UNCHANGED <<host, libgreat_response_last_error>>
         /\ usb'.pending = {} /\ usb'.setup = usb.setup
         /\ event_queue[1] \in Event /\ event_queue[1].type # "BusReset"
         /\ DispatchEvent(event_queue[1])
         /\ Len(event_queue) \in Nat \ {0}
         /\ DOMAIN event_queue = 1 .. Len(event_queue)
         /\ Len(event_queue') = Len(event_queue) - 1
         /\ DOMAIN event_queue' = 1 .. Len(event_queue) - 1
         /\ \A i \in 1 .. Len(event_queue) - 1 :
              event_queue'[i] = event_queue[i + 1]
         /\ Len(event_queue) = 1 => event_queue' = <<>>
         /\ \A type :
              Queued(type) <=> (Queued(type)' \/ event_queue[1].type = type)
         /\ Between' <=> Between
  <1>1. /\ ~ hung /\ ~ hung' /\ usb.pending = {} /\ usb \in Usb
        /\ usb.tx \in Write /\ usb.tx.at = "none" /\ returned = NoSetup
        /\ event_queue # <<>> /\ event_queue \in Seq(Event)
        /\ event_queue' = Tail(event_queue)
        /\ DispatchEvent(Head(event_queue))
        /\ UNCHANGED <<host, libgreat_response_last_error>>
    BY PortTypes DEF MainLoop, MainRuns, libgreatVars
  <1>2. Proceeding /\ Calm /\ SetupLast
    BY <1>1 DEF Protocol, Proceeding
  <1>3. /\ Head(event_queue) = event_queue[1] /\ 1 \in DOMAIN event_queue
        /\ Len(event_queue) \in Nat
        /\ DOMAIN event_queue = 1 .. Len(event_queue)
        /\ Len(event_queue') = Len(event_queue) - 1
        /\ DOMAIN event_queue' = 1 .. Len(event_queue) - 1
        /\ \A i \in 1 .. Len(event_queue) - 1 :
             event_queue'[i] = event_queue[i + 1]
        /\ Len(event_queue) = 1 => event_queue' = <<>>
        /\ \A type :
             Queued(type) <=> (Queued(type)' \/ event_queue[1].type = type)
    BY <1>1, PortTypes, QueueShrinks
  <1>4. Len(event_queue) \in Nat \ {0} /\ event_queue[1] \in Event
    <2>1. ASSUME NEW q \in Seq(Event), q # <<>>
          PROVE  q[1] \in Event /\ Len(q) # 0
      BY <2>1
    <2>2. QED
      BY <1>1, <1>3, <2>1
  <1>5. event_queue[1].type # "BusReset"
    BY <1>2, <1>3 DEF Calm
  <1>6. SameInterrupts
    BY <1>1, <1>3, <1>4, DispatchKeepsInv DEF IInv, TypeOK, ControlInv
  <1>7. usb'.pending = {} /\ usb'.setup = usb.setup
    BY <1>1, <1>6 DEF SameInterrupts
  <1>8. Between' <=> Between
    BY <1>1 DEF Between
  <1>9. QED
    BY <1>1, <1>2, <1>3, <1>4, <1>5, <1>7, <1>8, Zenon

(* The queue after its head, when that is not a SETUP packet.              *)
LEMMA EarlierDispatched ==
  ASSUME IInv, Protocol, MainLoop,
         event_queue[1].type # "ReceiveSetupPacket",
         ~ usb'.out_stall
  PROVE  /\ Calm' /\ SetupLast' /\ (SetupDue' <=> SetupDue)
         /\ event_queue[1].type # "ReceivePacket" => (PacketDue' <=> PacketDue)
         /\ event_queue[1].type # "SendComplete" => (SentDue' <=> SentDue)
  <1>1. /\ usb.pending = {} /\ usb'.pending = {} /\ usb'.setup = usb.setup
        /\ Calm /\ SetupLast /\ (Between' <=> Between)
        /\ UNCHANGED <<host, libgreat_response_last_error>>
        /\ Len(event_queue) \in Nat \ {0}
        /\ DOMAIN event_queue = 1 .. Len(event_queue)
        /\ Len(event_queue') = Len(event_queue) - 1
        /\ DOMAIN event_queue' = 1 .. Len(event_queue) - 1
        /\ \A i \in 1 .. Len(event_queue) - 1 :
             event_queue'[i] = event_queue[i + 1]
        /\ \A type :
             Queued(type) <=> (Queued(type)' \/ event_queue[1].type = type)
    BY Dispatching
  <1>2. /\ SetupDue' <=> SetupDue
        /\ event_queue[1].type # "ReceivePacket" => (PacketDue' <=> PacketDue)
        /\ event_queue[1].type # "SendComplete" => (SentDue' <=> SentDue)
    <2>1. /\ Queued("ReceiveSetupPacket")' <=> Queued("ReceiveSetupPacket")
          /\ event_queue[1].type # "ReceivePacket" =>
               (Queued("ReceivePacket")' <=> Queued("ReceivePacket"))
          /\ event_queue[1].type # "SendComplete" =>
               (Queued("SendComplete")' <=> Queued("SendComplete"))
      BY <1>1
    <2>2. QED
      BY <1>1, <2>1, Zenon DEF SetupDue, PacketDue, SentDue
  <1>3. \A i \in DOMAIN event_queue' : /\ i + 1 \in DOMAIN event_queue
                                       /\ event_queue'[i] = event_queue[i + 1]
    BY <1>1
  <1>4. Calm'
    <2>1. \A i \in DOMAIN event_queue' : event_queue'[i].type # "BusReset"
      BY <1>1, <1>3 DEF Calm
    <2>2. QED
      BY <1>1, <2>1 DEF Calm, Servable
  <1>5. SetupLast'
    <2>1. ASSUME NEW i \in DOMAIN event_queue',
                 event_queue'[i].type = "ReceiveSetupPacket"
          PROVE  /\ i = Len(event_queue') /\ usb'.pending = {}
                 /\ event_queue'[i].setup = host'.setup
      <3>1. /\ i + 1 = Len(event_queue)
            /\ event_queue[i + 1].setup = host.setup
        BY <1>1, <1>3, <2>1 DEF SetupLast
      <3>2. QED
        BY <1>1, <1>3, <2>1, <3>1
    <2>2. SetupDue' => /\ ~ Between' /\ host'.stage = FirstStage(host'.setup)
                       /\ host'.sent = 0 /\ host'.got = 0
      BY <1>1, <1>2 DEF SetupLast
    <2>3. QED
      BY <1>1, <2>1, <2>2 DEF SetupLast
  <1>6. QED
    BY <1>2, <1>4, <1>5

(* When a SETUP packet comes to be dispatched all that was due has been,   *)
(* and the state accepts it.                                               *)
LEMMA SetupIsAlone ==
  ASSUME IInv, Proceeding, usb.pending = {}, event_queue # <<>>,
         event_queue[1].type = "ReceiveSetupPacket"
  PROVE  /\ Len(event_queue) = 1 /\ SetupDue /\ ~ Between /\ Settling
         /\ AcceptsSetup /\ ~ usb.in_stall
         /\ event_queue[1].setup = host.setup
         /\ host.stage = FirstStage(host.setup)
         /\ host.sent = 0 /\ host.got = 0
  <1>1. /\ Len(event_queue) \in Nat /\ 1 \in DOMAIN event_queue
        /\ DOMAIN event_queue = 1 .. Len(event_queue)
    <2>1. ASSUME NEW q \in Seq(Event), q # <<>>
          PROVE  1 \in DOMAIN q /\ Len(q) \in Nat /\ DOMAIN q = 1 .. Len(q)
      BY <2>1
    <2>2. QED
      BY <2>1, PortTypes
  <1>2. SetupDue /\ SetupLast
    BY <1>1 DEF SetupDue, Queued, Proceeding
  <1>3. /\ Len(event_queue) = 1 /\ event_queue[1].setup = host.setup
        /\ ~ Between /\ host.stage = FirstStage(host.setup)
        /\ host.sent = 0 /\ host.got = 0
    BY <1>1, <1>2 DEF SetupLast
  <1>4. Settling
    BY <1>2 DEF Proceeding
  <1>5. ~ SentDue /\ ~ PacketDue
    <2>1. \A i \in DOMAIN event_queue : event_queue[i].type = "ReceiveSetupPacket"
      BY <1>1, <1>3
    <2>2. QED
      BY <2>1 DEF SentDue, PacketDue, Queued
  <1>6. AcceptsSetup
    BY <1>4, <1>5 DEF Settling, AcceptsSetup
  <1>7. ~ usb.in_stall
    BY <1>3, <1>4 DEF Settling
  <1>8. QED
    BY <1>2, <1>3, <1>4, <1>6, <1>7

(* Every arm of dispatch_event for a SETUP packet of a polite host answers *)
(* it, acknowledges it, refuses what may be refused, waits for its data or *)
(* hands it on.                                                            *)
LEMMA SetupKeepsProtocol ==
  ASSUME IInv, Protocol, MainLoop,
         event_queue[1].type = "ReceiveSetupPacket"
  PROVE  Protocol'
  <1>1. /\ ~ hung /\ ~ hung' /\ usb.pending = {} /\ usb \in Usb
        /\ usb.tx \in Write /\ usb.tx.at = "none" /\ returned = NoSetup
        /\ Proceeding /\ Calm /\ SetupLast
        /\ UNCHANGED <<host, libgreat_response_last_error>>
        /\ usb'.pending = {} /\ usb'.setup = usb.setup
        /\ DispatchEvent(event_queue[1])
        /\ Len(event_queue) = 1 => event_queue' = <<>>
        /\ Between' <=> Between
    BY Dispatching
  <1>2. /\ Len(event_queue) = 1 /\ ~ Between /\ Settling
        /\ AcceptsSetup /\ ~ usb.in_stall
        /\ event_queue[1].setup = host.setup
        /\ host.stage = FirstStage(host.setup)
        /\ host.sent = 0 /\ host.got = 0
    BY <1>1, SetupIsAlone DEF MainLoop
  <1>3. /\ event_queue' = <<>> /\ NothingDue' /\ ~ SetupDue' /\ ~ Between'
    BY <1>1, <1>2 DEF NothingDue, SetupDue, Queued
  <1>4. /\ usb.tx = NoWrite /\ usb.in = <<>> /\ ~ usb.in_ready
        /\ ~ usb.out_enable /\ ~ usb.out_stall
    BY <1>1, <1>2
       DEF Settling, NothingOffered, NothingPrimed, Write, NoWrite, Calm
  <1>5. /\ Servable(host.setup) /\ host.setup.id = host.id
        /\ host.setup \in SetupPacket /\ host.id \in Transfers
        /\ host.setup # NoSetup
        /\ host.setup.length \in Nat /\ host.setup.value \in 0 .. 2
    BY <1>1, <1>2, PortTypes, EndpointAssumption DEF Calm, SetupPacket
  <1>6. OnSetup(host.setup)
    BY <1>1, <1>2
       DEF DispatchEvent, OnUnexpected, Expected, AcceptsSetup
  <1>7. /\ Serving' /\ ~ usb'.out_stall
    <2>1. CASE SetupSend(host.setup)
      <3>1. /\ host.setup.length > 0 /\ DeviceToHost(host.setup)
            /\ next'.state = "Send" /\ returned' = NoSetup
        BY <1>5, <2>1 DEF SetupSend, Servable, DeviceToHost, Goto
      <3>2. PICK of \in Seq(OutPacket), n \in 0 .. host.setup.length :
              \E packets \in Answers(host.id, of, n, host.setup.length) :
                usb' = WriteWithPacketSize(usb, packets)
        <4>1. <<>> \in Seq(OutPacket)
          OBVIOUS
        <4>2. QED
          BY <1>5, <2>1, <4>1 DEF SetupSend
      <3>3. PICK packets \in Answers(host.id, of, n, host.setup.length) :
              usb' = WriteWithPacketSize(usb, packets)
        BY <3>2
      <3>4. host.setup.length \in Nat \ {0}
        BY <1>5, <3>1
      <3>5. /\ packets \in Seq(InPacket) /\ packets # <<>>
            /\ Len(packets) <= host.setup.length
            /\ \A i \in DOMAIN packets :
                 /\ packets[i].id = host.id
                 /\ i < Len(packets) => packets[i].size = "full"
                 /\ i = Len(packets) /\ packets[i].size = "full" =>
                      Len(packets) = host.setup.length
        BY <1>5, <3>4, AnswersFit
      <3>6. Answering'
        BY <1>1, <1>2, <1>3, <1>4, <1>5, <3>1, <3>3, <3>5, AnswerStarts
      <3>7. QED
        BY <1>1, <1>4, <3>3, <3>6 DEF Serving, WriteWithPacketSize, Usb
    <2>2. CASE SetupSetAddress(host.setup)
      <3>1. host.stage = "status" /\ ~ DeviceToHost(host.setup)
        BY <1>2, <1>5, <2>2
           DEF SetupSetAddress, Servable, FirstStage, DeviceToHost
      <3>2. /\ usb' = WriteZlp(usb, host.id) /\ returned' = NoSetup
            /\ next' = [state |-> "SetAddress", setup |-> host.setup]
        BY <1>5, <2>2 DEF SetupSetAddress, GotoWith
      <3>3. Acknowledging'
        BY <1>1, <1>2, <1>3, <1>4, <3>1, <3>2, AcknowledgementStarts
      <3>4. QED
        BY <1>1, <1>4, <3>2, <3>3 DEF Serving, WriteZlp, WriteWithPacketSize, Usb
    <2>3. CASE SetupSetConfiguration(host.setup) \/ SetupFeature(host.setup)
      <3>1. /\ host.stage = "status" /\ ~ DeviceToHost(host.setup)
            /\ host.setup.request = "SetConfiguration" =>
                 host.setup.value <= 1
        BY <1>2, <1>5, <2>3
           DEF SetupSetConfiguration, SetupFeature, Servable, FirstStage,
               DeviceToHost
      <3>2. /\ usb' = WriteZlp(usb, host.id) /\ returned' = NoSetup
            /\ next'.state = "Complete"
        BY <1>5, <2>3, <3>1 DEF SetupSetConfiguration, SetupFeature, Goto
      <3>3. Acknowledging'
        BY <1>1, <1>2, <1>3, <1>4, <3>1, <3>2, AcknowledgementStarts
      <3>4. QED
        BY <1>1, <1>4, <3>2, <3>3 DEF Serving, WriteZlp, WriteWithPacketSize, Usb
    <2>4. CASE SetupStall(host.setup)
      <3>1. /\ host.setup.value # 0 /\ returned' = NoSetup
            /\ usb' = StallEndpointIn(usb) /\ next'.state = "Stall"
        BY <2>4 DEF SetupStall, Goto
      <3>2. HostPolls
        BY <1>2, <1>5, <2>4
           DEF SetupStall, Servable, FirstStage, DeviceToHost, HostPolls
      <3>3. /\ usb'.in = <<>> /\ ~ usb'.in_ready /\ usb'.in_stall
            /\ ~ usb'.out_enable /\ usb'.tx = NoWrite /\ ~ usb'.out_stall
        BY <1>1, <1>4, <3>1 DEF StallEndpointIn, Usb
      <3>4. Refused'
        BY <1>1, <1>3, <3>1, <3>2, <3>3
           DEF Refused, NothingOffered, NothingPrimed, HostPolls, DeviceToHost
      <3>5. QED
        BY <3>3, <3>4 DEF Serving
    <2>5. CASE SetupReceive(host.setup)
      <3>1. /\ host.setup.request = "Execute" /\ host.setup.length > 0
            /\ rx_buffer' = <<>> /\ returned' = NoSetup
            /\ next' = [state |-> "ReceiveHostData", setup |-> host.setup]
            /\ usb' = EpOutPrimeReceive(usb)
        BY <1>5, <2>5
           DEF SetupReceive, Servable, StandardRequests, DeviceToHost, GotoWith
      <3>2. /\ usb'.in = <<>> /\ ~ usb'.in_ready /\ ~ usb'.in_stall
            /\ usb'.out_enable /\ usb'.tx = NoWrite /\ ~ usb'.out_stall
        BY <1>1, <1>2, <1>4, <3>1 DEF EpOutPrimeReceive, Usb
      <3>3. host.stage = "data" /\ host.sent # host.setup.length
        BY <1>2, <1>5, <3>1 DEF FirstStage
      <3>4. Receiving'
        BY <1>1, <1>2, <1>3, <3>1, <3>2, <3>3 DEF Receiving, NothingPrimed
      <3>5. QED
        BY <3>2, <3>4 DEF Serving
    <2>6. CASE SetupUnsupported(host.setup)
      <3>1. /\ host.setup.request \in {"Response", "Cancel", "UnknownIn", "Claim"}
            /\ returned' = host.setup /\ next'.state = "Idle"
            /\ UNCHANGED usb
        BY <1>5, <2>6
           DEF SetupUnsupported, Servable, StandardRequests, DeviceToHost, Goto
      <3>2. Handed'
        BY <1>1, <1>2, <1>3, <1>4, <3>1
           DEF Handed, NothingOffered, NothingPrimed, FirstStage
      <3>3. QED
        BY <1>4, <3>1, <3>2 DEF Serving
    <2>7. ~ SetupUnknownDescriptor(host.setup)
      BY <1>5 DEF SetupUnknownDescriptor, Servable
    <2>8. QED
      BY <1>6, <2>1, <2>2, <2>3, <2>4, <2>5, <2>6, <2>7, Zenon DEF OnSetup
  <1>8. Calm' /\ SetupLast'
    BY <1>1, <1>2, <1>3, <1>5, <1>7
       DEF Calm, SetupLast, Servable, SetupDue, NothingDue
  <1>9. QED
    BY <1>1, <1>3, <1>7, <1>8 DEF Protocol, Proceeding

(* The end of a packet the host has taken.                                 *)
LEMMA SentKeepsProtocol ==
  ASSUME IInv, Protocol, MainLoop,
         event_queue[1].type = "SendComplete"
  PROVE  Protocol'
  <1>1. /\ ~ hung /\ ~ hung' /\ usb.pending = {} /\ usb \in Usb
        /\ usb.tx.at = "none" /\ returned = NoSetup
        /\ Proceeding /\ Calm /\ SetupLast
        /\ UNCHANGED <<host, libgreat_response_last_error>>
        /\ usb'.pending = {} /\ usb'.setup = usb.setup
        /\ DispatchEvent(event_queue[1])
        /\ Len(event_queue) \in Nat \ {0}
        /\ DOMAIN event_queue = 1 .. Len(event_queue)
        /\ DOMAIN event_queue' = 1 .. Len(event_queue) - 1
        /\ \A i \in 1 .. Len(event_queue) - 1 :
             event_queue'[i] = event_queue[i + 1]
        /\ Between' <=> Between
    BY Dispatching
  <1>2. \/ SendComplete_Send \/ SendComplete_SetAddress
        \/ SendComplete_Complete \/ SendComplete_FinishHostData
        \/ SendComplete_Ignored \/ OnUnexpected("SendComplete")
    BY <1>1 DEF DispatchEvent
  <1>3. /\ usb'.in = usb.in /\ usb'.in_ready = usb.in_ready
        /\ usb'.in_stall = usb.in_stall /\ usb'.out_stall = usb.out_stall
        /\ usb'.tx = usb.tx
        /\ usb'.out_enable = (usb.out_enable \/ next.state = "Send")
    BY <1>1, <1>2
       DEF SendComplete_Send, SendComplete_SetAddress, SendComplete_Complete,
           SendComplete_FinishHostData, SendComplete_Ignored, OnUnexpected,
           Expected, EpOutPrimeReceive, SetAddress, Usb
  <1>4. /\ Calm' /\ SetupLast' /\ (SetupDue' <=> SetupDue)
        /\ PacketDue' <=> PacketDue
    BY <1>1, <1>3, EarlierDispatched DEF Calm
  <1>5. ASSUME Settling
        PROVE  Settling'
    <2>1. /\ NothingOffered' /\ usb'.in_stall = usb.in_stall
          /\ usb'.tx = usb.tx
      BY <1>3, <1>5 DEF Settling, NothingOffered, NothingPrimed
    <2>2. CASE SendComplete_SetAddress \/ SendComplete_Complete
      <3>1. next'.state = "Idle" /\ returned' = NoSetup
        BY <2>2 DEF SendComplete_SetAddress, SendComplete_Complete, Goto
      <3>2. QED
        BY <1>1, <1>5, <2>1, <3>1 DEF Settling
    <2>3. CASE SendComplete_FinishHostData
      <3>1. /\ next'.state = "Idle" /\ returned' = next.setup
            /\ next.state = "FinishHostData"
        BY <2>3 DEF SendComplete_FinishHostData, Goto
      <3>2. QED
        BY <1>1, <1>5, <2>1, <3>1 DEF Settling
    <2>4. CASE SendComplete_Ignored
      <3>1. UNCHANGED next /\ returned' = NoSetup
            /\ next.state \in {"WaitForZlp", "Idle"}
        BY <2>4 DEF SendComplete_Ignored
      <3>2. QED
        BY <1>1, <1>4, <1>5, <2>1, <3>1 DEF Settling
    <2>5. CASE OnUnexpected("SendComplete")
      <3>1. next'.state = "Idle" /\ returned' = NoSetup
        BY <2>5 DEF OnUnexpected, Goto
      <3>2. QED
        BY <1>1, <1>5, <2>1, <3>1 DEF Settling
    <2>6. ~ SendComplete_Send
      BY <1>5 DEF Settling, SendComplete_Send
    <2>7. QED
      BY <1>2, <2>2, <2>3, <2>4, <2>5, <2>6
  <1>6. ASSUME Serving
        PROVE  Serving'
    <2>1. Answering
      BY <1>1, <1>6
         DEF Serving, Handed, Refused, Receiving, Acknowledging, NothingDue
    <2>2. \A i \in DOMAIN event_queue' : event_queue'[i].type = "SendComplete"
      BY <1>1, <2>1 DEF Answering
    <2>3. Unread' = Unread /\ AnswerLeft'
      <3>1. Unread' = Unread
        BY <1>3 DEF Unread
      <3>2. AnswerLeft /\ UNCHANGED host
        BY <1>1, <2>1 DEF Answering
      <3>3. QED
        BY <3>1, <3>2 DEF AnswerLeft
    <2>4. /\ returned' = NoSetup
          /\ next'.state = (IF next.state = "Send" THEN "WaitForZlp"
                            ELSE next.state)
      BY <1>2, <2>1
         DEF Answering, SendComplete_Send, SendComplete_SetAddress,
             SendComplete_Complete, SendComplete_FinishHostData,
             SendComplete_Ignored, OnUnexpected, Expected, Goto
    <2>5. Answering'
      BY <1>1, <1>3, <2>1, <2>2, <2>3, <2>4 DEF Answering, DeviceToHost
    <2>6. QED
      BY <2>5 DEF Serving
  <1>7. QED
    BY <1>1, <1>4, <1>5, <1>6 DEF Protocol, Proceeding

(* A packet of the data of a command is taken into rx_buffer, and after    *)
(* the last the command is acknowledged.                                   *)
LEMMA DataReceived ==
  ASSUME IInv, Protocol, MainLoop,
         event_queue[1].type = "ReceivePacket", ~ Between, ~ SetupDue
  PROVE  /\ host.setup.request = "Execute" /\ ~ usb.in_stall
         /\ usb.in = <<>> /\ ~ usb.in_ready /\ usb.tx = NoWrite
         /\ next = [state |-> "ReceiveHostData", setup |-> host.setup]
         /\ host.stage = (IF host.sent = host.setup.length
                          THEN "status" ELSE "data")
         /\ ~ usb.out_enable /\ Len(usb.out) = 1
         /\ Len(rx_buffer) + 1 = host.sent /\ Len(event_queue) = 1
         /\ Servable(host.setup) /\ host.setup.id = host.id
         /\ host.setup.length \in 1 .. RxBufferSize
         /\ host.sent \in Nat /\ host.setup.length \in Nat
         /\ host.sent <= host.setup.length
         /\ Len(rx_buffer \o usb.out) = host.sent
         /\ rx_buffer' = rx_buffer \o usb.out /\ returned' = NoSetup
         /\ \/ /\ host.sent >= host.setup.length
               /\ next' = [state |-> "FinishHostData", setup |-> host.setup]
               /\ usb' = WriteZlp(Read(usb), host.id)
            \/ /\ host.sent < host.setup.length
               /\ usb' = EpOutPrimeReceive(Read(usb))
               /\ UNCHANGED next
  <1>1. /\ usb.pending = {} /\ usb \in Usb /\ Proceeding /\ Calm
        /\ DispatchEvent(event_queue[1])
        /\ Len(event_queue) \in Nat \ {0}
        /\ DOMAIN event_queue = 1 .. Len(event_queue)
    BY Dispatching
  <1>2. \/ ReceivePacket_WaitForZlp \/ ReceivePacket_ReceiveHostData
        \/ ReceivePacket_Idle \/ OnUnexpected("ReceivePacket")
    BY <1>1 DEF DispatchEvent
  <1>3. Receiving
    <2>1. 1 \in DOMAIN event_queue
      BY <1>1
    <2>2. QED
      BY <1>1, <2>1
         DEF Proceeding, Serving, Handed, Refused, Answering, Acknowledging,
             NothingDue
  <1>4. /\ host.setup.request = "Execute" /\ ~ usb.in_stall
        /\ usb.in = <<>> /\ ~ usb.in_ready /\ usb.tx = NoWrite
        /\ next = [state |-> "ReceiveHostData", setup |-> host.setup]
        /\ host.stage = (IF host.sent = host.setup.length
                         THEN "status" ELSE "data")
        /\ ~ usb.out_enable /\ Len(usb.out) = 1
        /\ Len(rx_buffer) + 1 = host.sent /\ Len(event_queue) = 1
    BY <1>1, <1>3 DEF Receiving, NothingDue, NothingPrimed
  <1>5. /\ Servable(host.setup) /\ host.setup.id = host.id
        /\ host.setup.length \in 1 .. RxBufferSize
        /\ host.sent \in Nat /\ host.setup.length \in Nat
    BY <1>1, <1>4, PortTypes, EndpointAssumption
       DEF Calm, Servable, Host, SetupPacket
  <1>6. host.sent <= host.setup.length
    BY <1>4, <1>5 DEF IInv, InProgress
  <1> DEFINE received == rx_buffer \o usb.out
  <1>7. Len(received) = host.sent /\ usb.out # <<>>
    <2>1. usb.out \in Seq(OutPacket) /\ rx_buffer \in Seq(OutPacket)
      BY <1>1, PortTypes DEF Usb
    <2>2. ASSUME NEW p \in Seq(OutPacket), NEW q \in Seq(OutPacket)
          PROVE  Len(p \o q) = Len(p) + Len(q) /\ (q = <<>> => Len(q) = 0)
      OBVIOUS
    <2>3. Len(received) = Len(rx_buffer) + Len(usb.out)
          /\ (usb.out = <<>> => Len(usb.out) = 0)
      BY <2>1, <2>2
    <2>4. QED
      BY <1>4, <2>3
  <1> HIDE DEF received
  <1>8. ~ Overflows(received)
    BY <1>5, <1>6, <1>7, RxBufferAssumption DEF Overflows
  <1>9. ReceivePacket_ReceiveHostData
    BY <1>2, <1>4
       DEF ReceivePacket_WaitForZlp, ReceivePacket_Idle, OnUnexpected,
           Expected
  <1>10. /\ rx_buffer' = received /\ returned' = NoSetup
         /\ \/ /\ host.sent >= host.setup.length
               /\ next' = [state |-> "FinishHostData", setup |-> host.setup]
               /\ usb' = WriteZlp(Read(usb), host.id)
            \/ /\ host.sent < host.setup.length
               /\ usb' = EpOutPrimeReceive(Read(usb))
               /\ UNCHANGED next
    BY <1>4, <1>5, <1>7, <1>8, <1>9
       DEF ReceivePacket_ReceiveHostData, GotoWith, received
  <1>11. QED
    BY <1>4, <1>5, <1>6, <1>7, <1>10 DEF received

(* A packet the host has sent.                                             *)
LEMMA ReceivedKeepsProtocol ==
  ASSUME IInv, Protocol, MainLoop,
         event_queue[1].type = "ReceivePacket"
  PROVE  Protocol'
  <1>1. /\ ~ hung /\ ~ hung' /\ usb.pending = {} /\ usb \in Usb
        /\ usb.tx.at = "none" /\ returned = NoSetup
        /\ Proceeding /\ Calm /\ SetupLast
        /\ UNCHANGED <<host, libgreat_response_last_error>>
        /\ usb'.pending = {} /\ usb'.setup = usb.setup
        /\ DispatchEvent(event_queue[1])
        /\ Len(event_queue) \in Nat \ {0}
        /\ DOMAIN event_queue = 1 .. Len(event_queue)
        /\ Len(event_queue) = 1 => event_queue' = <<>>
        /\ Between' <=> Between
    BY Dispatching
  <1>2. \/ ReceivePacket_WaitForZlp \/ ReceivePacket_ReceiveHostData
        \/ ReceivePacket_Idle \/ OnUnexpected("ReceivePacket")
    BY <1>1 DEF DispatchEvent
  <1>3. PacketDue
    BY <1>1 DEF PacketDue, Queued
  <1>4. CASE Between \/ SetupDue
    <2>1. Settling /\ next.state \in {"Idle", "Stall", "WaitForZlp"}
      BY <1>1, <1>3, <1>4 DEF Proceeding, Settling
    <2>2. /\ usb' \in {usb, Read(usb)}
          /\ next'.state = "Idle" /\ returned' = NoSetup
      BY <1>2, <2>1
         DEF ReceivePacket_WaitForZlp, ReceivePacket_ReceiveHostData,
             ReceivePacket_Idle, OnUnexpected, Expected, Goto
    <2>3. /\ usb'.in = usb.in /\ usb'.in_ready = usb.in_ready
          /\ usb'.in_stall = usb.in_stall /\ usb'.out_stall = usb.out_stall
          /\ usb'.out_enable = usb.out_enable /\ usb'.tx = usb.tx
      BY <1>1, <2>2 DEF Read, Usb
    <2>4. Calm' /\ SetupLast' /\ (SetupDue' <=> SetupDue)
      BY <1>1, <2>3, EarlierDispatched DEF Calm
    <2>5. Settling'
      BY <1>1, <2>1, <2>2, <2>3 DEF Settling, NothingOffered, NothingPrimed
    <2>6. QED
      BY <1>1, <1>4, <2>4, <2>5 DEF Protocol, Proceeding
  <1>5. CASE ~ Between /\ ~ SetupDue
    <2> DEFINE received == rx_buffer \o usb.out
    <2> DEFINE drained == Read(usb)
    <2>1. /\ host.setup.request = "Execute" /\ ~ usb.in_stall
          /\ usb.in = <<>> /\ ~ usb.in_ready /\ usb.tx = NoWrite
          /\ next = [state |-> "ReceiveHostData", setup |-> host.setup]
          /\ host.stage = (IF host.sent = host.setup.length
                           THEN "status" ELSE "data")
          /\ ~ usb.out_enable /\ Len(event_queue) = 1
          /\ host.sent \in Nat /\ host.setup.length \in Nat
          /\ host.sent <= host.setup.length
          /\ Len(received) = host.sent
      BY <1>5, DataReceived
    <2>2. /\ rx_buffer' = received /\ returned' = NoSetup
          /\ \/ /\ host.sent >= host.setup.length
                /\ next' = [state |-> "FinishHostData", setup |-> host.setup]
                /\ usb' = WriteZlp(drained, host.id)
             \/ /\ host.sent < host.setup.length
                /\ usb' = EpOutPrimeReceive(drained)
                /\ UNCHANGED next
      BY <1>5, DataReceived
    <2> HIDE DEF received
    <2>3. /\ drained \in Usb /\ drained.in = <<>> /\ ~ drained.in_ready
          /\ ~ drained.in_stall /\ ~ drained.out_enable
          /\ drained.pending = {} /\ drained.tx = NoWrite
          /\ drained.out_stall = usb.out_stall
      BY <1>1, <2>1, DriverCallsType DEF Read, Usb
    <2> HIDE DEF drained
    <2>4. event_queue' = <<>>
      BY <1>1, <2>1
    <2>5. Serving' /\ ~ usb'.out_stall
      <3>1. CASE /\ host.sent >= host.setup.length
                 /\ next' = [state |-> "FinishHostData", setup |-> host.setup]
                 /\ usb' = WriteZlp(drained, host.id)
        <4>1. host.stage = "status" /\ ~ DeviceToHost(host.setup)
          BY <2>1, <3>1 DEF DeviceToHost
        <4>2. Acknowledging'
          BY <1>1, <2>1, <2>2, <2>3, <2>4, <3>1, <4>1, AcknowledgementStarts
        <4>3. QED
          BY <1>1, <2>3, <3>1, <4>2
             DEF Serving, WriteZlp, WriteWithPacketSize, Calm, Usb
      <3>2. CASE /\ host.sent < host.setup.length
                 /\ usb' = EpOutPrimeReceive(drained)
                 /\ UNCHANGED next
        <4>1. /\ usb'.in = <<>> /\ ~ usb'.in_ready /\ ~ usb'.in_stall
              /\ usb'.out_enable /\ usb'.pending = {} /\ usb'.tx = NoWrite
              /\ usb'.out_stall = usb.out_stall
          BY <2>3, <3>2 DEF EpOutPrimeReceive, Usb
        <4>2. host.stage = "data" /\ host.sent # host.setup.length
          BY <2>1, <3>2
        <4>3. Receiving'
          BY <1>1, <2>1, <2>2, <2>4, <3>2, <4>1, <4>2
             DEF Receiving, NothingDue, NothingPrimed
        <4>4. QED
          BY <1>1, <4>1, <4>3 DEF Serving, Calm
      <3>3. QED
        BY <2>2, <3>1, <3>2
    <2>6. Calm' /\ SetupLast' /\ (SetupDue' <=> SetupDue)
      BY <1>1, <2>5, EarlierDispatched
    <2>7. QED
      BY <1>1, <1>5, <2>5, <2>6 DEF Protocol, Proceeding
  <1>6. QED
    BY <1>4, <1>5

LEMMA MainLoopKeepsProtocol ==
  ASSUME IInv, Protocol, MainLoop
  PROVE  Protocol'
  <1>1. event_queue[1] \in Event /\ event_queue[1].type # "BusReset"
    BY Dispatching
  <1>2. event_queue[1].type \in {"ReceiveSetupPacket", "SendComplete",
                                 "ReceivePacket"}
    BY <1>1 DEF Event
  <1>3. QED
    BY <1>2, SetupKeepsProtocol, SentKeepsProtocol, ReceivedKeepsProtocol

(* A host opens a transfer only when the one before is over for it, so     *)
(* that its SETUP packet is behind all that the one before has left to do. *)
LEMMA HostSetupKeepsProtocol ==
  ASSUME PoliteHost, IInv, Protocol, HostSetup
  PROVE  Protocol'
  <1>1. PICK r \in HostRequests :
          LET id    == IF host.id = NumTransfers THEN 1 ELSE host.id + 1
              setup == [request |-> r.request, value |-> r.value,
                        length |-> r.length, id |-> id]
          IN  /\ host' = [host EXCEPT !.setup = setup, !.id = id,
                            !.stage = IF r.length = 0 THEN "status" ELSE "data"]
              /\ usb' = AcceptSetup(usb, setup)
    BY DEF HostSetup
  <1> DEFINE id == IF host.id = NumTransfers THEN 1 ELSE host.id + 1
  <1> DEFINE setup == [request |-> r.request, value |-> r.value,
                       length |-> r.length, id |-> id]
  <1>2. /\ host' = [host EXCEPT !.setup = setup, !.id = id,
                      !.stage = IF r.length = 0 THEN "status" ELSE "data"]
        /\ usb' = AcceptSetup(usb, setup)
    BY <1>1, Zenon
  <1>3. /\ usb \in Usb /\ host \in Host /\ host.id \in Transfers
        /\ r.length \in Nat
    BY PortTypes, HostAssumption, EndpointAssumption
  <1>4. Servable(setup) /\ setup.id = id /\ setup.length = r.length
    BY DEF PoliteHost, Servable
  <1>5. id # host.id
    BY <1>3, EndpointAssumption DEF PoliteHost, Transfers
  <1> HIDE DEF setup, id
  <1>6. /\ host'.setup = setup /\ host'.id = id
        /\ host'.stage = FirstStage(setup)
        /\ host'.sent = host.sent /\ host'.got = host.got
    BY <1>2, <1>3, <1>4 DEF Host, FirstStage
  <1>7. /\ usb'.setup = setup /\ ~ usb'.in_stall /\ ~ usb'.out_stall
        /\ usb'.pending = usb.pending \union {"EpControl"}
        /\ usb'.in = usb.in /\ usb'.in_ready = usb.in_ready
        /\ usb'.out_enable = usb.out_enable /\ usb'.tx = usb.tx
        /\ usb'.tx_ack = usb.tx_ack
    BY <1>2, <1>3 DEF AcceptSetup, Usb
  <1>8. UNCHANGED <<next, returned, rx_buffer, libgreat_response_last_error,
                    event_queue, hung>>
    BY Zenon DEF HostSetup, firmwareVars, libgreatVars
  <1>9. CASE hung
    BY <1>7, <1>8, <1>9 DEF Protocol, NothingPrimed
  <1>10. CASE ~ hung
    <2>1. Calm /\ SetupLast /\ Settling /\ Between /\ ~ SetupDue
      BY <1>10 DEF Protocol, Proceeding, HostSetup, SetupLast
    <2>2. host.got = 0 /\ host.sent = 0
      BY <2>1 DEF Calm, IInv, InProgress, Between
    <2>3. ~ Between' /\ SetupDue'
      BY <1>6, <1>7 DEF Between, FirstStage, SetupDue
    <2>4. Calm'
      BY <1>4, <1>6, <1>7, <1>8, <2>1, <2>3 DEF Calm, Servable
    <2>5. SetupLast'
      <3>1. \A i \in DOMAIN event_queue :
              event_queue[i].type # "ReceiveSetupPacket"
        BY <2>1 DEF SetupDue, Queued
      <3>2. QED
        BY <1>6, <1>7, <1>8, <2>2, <2>3, <3>1 DEF SetupLast, FirstStage
    <2>6. /\ PacketDue' <=> PacketDue
          /\ SentDue' <=> SentDue
      BY <1>7, <1>8 DEF PacketDue, SentDue, Queued
    <2>7. next.state = "SetAddress" => next'.setup.id # host'.id
      BY <1>5, <1>6, <1>8, <2>1 DEF Settling
    <2>8. Settling'
      BY <1>7, <1>8, <2>1, <2>3, <2>6, <2>7
         DEF Settling, NothingOffered, NothingPrimed
    <2>9. QED
      BY <1>8, <1>10, <2>3, <2>4, <2>5, <2>8 DEF Protocol, Proceeding
  <1>11. QED
    BY <1>9, <1>10

(* What the end of a transfer leaves of it.                                *)
LEMMA EndedFields ==
  ASSUME host \in Host, NEW stage \in {"done", "stalled", "failed"}
  PROVE  /\ Ended(stage).stage = stage /\ Ended(stage).id = host.id
         /\ Ended(stage).got = 0 /\ Ended(stage).sent = 0
  BY DEF Ended, Host

(* A transfer that the host ends leaves the device settling it.            *)
LEMMA EndsSettling ==
  ASSUME IInv, Calm, SetupLast, ~ SetupDue, ~ hung,
         NEW stage \in {"done", "stalled", "failed"}, host' = Ended(stage),
         UNCHANGED <<next, returned, rx_buffer, libgreat_response_last_error,
                     event_queue, hung>>,
         usb'.setup = usb.setup, ~ usb'.out_stall,
         usb'.pending \subseteq {"EpIn", "EpOut"},
         Settling'
  PROVE  Protocol'
  <1>1. host'.stage = stage /\ host'.got = 0
    BY PortTypes, EndedFields
  <1>2. Between'
    BY <1>1 DEF Between
  <1>3. ~ SetupDue'
    BY DEF SetupDue, Queued
  <1>4. Calm'
    BY <1>1, <1>2 DEF Calm
  <1>5. SetupLast'
    BY <1>3 DEF SetupLast, SetupDue, Queued
  <1>6. QED
    BY <1>2, <1>3, <1>4, <1>5 DEF Protocol, Proceeding

(* The packet that is primed, and those that are left to be written.       *)
LEMMA UnreadParts ==
  ASSUME IInv, Len(usb.in) = 1
  PROVE  LET left == usb.tx.left
         IN  /\ left \in Seq(InPacket) /\ Len(left) \in Nat
             /\ Len(Unread) = Len(left) + 1
             /\ DOMAIN Unread = 1 .. Len(left) + 1
             /\ Unread[1] = usb.in[1]
             /\ \A i \in 1 .. Len(left) : Unread[i + 1] = left[i]
             /\ DOMAIN left = 1 .. Len(left)
             /\ Len(left) = 0 <=> left = <<>>
  <1>1. /\ usb.in \in Seq(InPacket) /\ usb.tx.left \in Seq(InPacket)
    BY PortTypes DEF Usb, Write
  <1>2. ASSUME NEW p \in Seq(InPacket), NEW q \in Seq(InPacket), Len(p) = 1
        PROVE  /\ Len(q) \in Nat
               /\ Len(p \o q) = Len(q) + 1
               /\ DOMAIN (p \o q) = 1 .. Len(q) + 1
               /\ (p \o q)[1] = p[1]
               /\ \A i \in 1 .. Len(q) : (p \o q)[i + 1] = q[i]
               /\ DOMAIN q = 1 .. Len(q)
               /\ Len(q) = 0 <=> q = <<>>
    <2>1. /\ Len(p) \in Nat /\ Len(q) \in Nat
          /\ DOMAIN p = 1 .. Len(p) /\ DOMAIN q = 1 .. Len(q)
      OBVIOUS
    <2>2. Len(p \o q) = Len(p) + Len(q) /\ p \o q \in Seq(InPacket)
      OBVIOUS
    <2>3. DOMAIN (p \o q) = 1 .. Len(q) + 1 /\ Len(p \o q) = Len(q) + 1
      BY <1>2, <2>1, <2>2
    <2>4. /\ (p \o q)[1] = p[1]
          /\ \A i \in 1 .. Len(q) : (p \o q)[i + 1] = q[i]
      <3>1. \A i \in 1 .. Len(p) + Len(q) :
              (p \o q)[i] = IF i <= Len(p) THEN p[i] ELSE q[i - Len(p)]
        OBVIOUS
      <3>2. /\ 1 \in 1 .. Len(p) + Len(q) /\ 1 <= Len(p)
            /\ \A i \in 1 .. Len(q) : /\ i + 1 \in 1 .. Len(p) + Len(q)
                                      /\ ~ (i + 1 <= Len(p))
                                      /\ i + 1 - Len(p) = i
        BY <1>2, <2>1
      <3>3. QED
        BY <3>1, <3>2
    <2>5. Len(q) = 0 <=> q = <<>>
      OBVIOUS
    <2>6. QED
      BY <2>1, <2>2, <2>3, <2>4, <2>5
  <1>3. QED
    BY <1>1, <1>2 DEF Unread

(* The packet that is primed is the last of its answer if it is short, or  *)
(* completes what was asked for.                                           *)
LEMMA AnswerAhead ==
  ASSUME IInv, ~ Between, AnswerLeft, Len(usb.in) = 1
  PROVE  LET left == usb.tx.left
         IN  /\ host.got + Len(left) + 1 <= host.setup.length
             /\ (usb.in[1].size # "full" \/ host.got + 1 = host.setup.length)
                  <=> left = <<>>
  <1> DEFINE left == usb.tx.left
  <1>1. host.got \in Nat /\ host.setup.length \in Nat
    BY PortTypes, EndpointAssumption DEF Host, SetupPacket
  <1>2. /\ Len(left) \in Nat
        /\ Len(Unread) = Len(left) + 1
        /\ DOMAIN Unread = 1 .. Len(left) + 1
        /\ Unread[1] = usb.in[1]
        /\ Len(left) = 0 <=> left = <<>>
    BY UnreadParts
  <1> HIDE DEF left
  <1>3. /\ host.got + Len(Unread) <= host.setup.length
        /\ 1 < Len(Unread) => Unread[1].size = "full"
        /\ 1 = Len(Unread) /\ Unread[1].size = "full" =>
             host.got + Len(Unread) = host.setup.length
    <2>1. 1 \in DOMAIN Unread
      BY <1>2
    <2>2. QED
      BY <2>1 DEF AnswerLeft
  <1>4. /\ host.got + Len(left) + 1 <= host.setup.length
        /\ (usb.in[1].size # "full" \/ host.got + 1 = host.setup.length)
             <=> left = <<>>
    BY <1>1, <1>2, <1>3
  <1>5. QED
    BY <1>4 DEF left

(* Taking the first packet of an answer leaves the rest of it.             *)
LEMMA AnswerTaken ==
  ASSUME IInv, ~ Between, AnswerLeft, Len(usb.in) = 1,
         usb'.in = <<>>, usb'.tx = usb.tx,
         host'.got = host.got + 1, host'.setup = host.setup,
         host'.id = host.id
  PROVE  AnswerLeft' /\ Unread' = usb.tx.left
  <1> DEFINE left == usb.tx.left
  <1>1. host.got \in Nat /\ host.setup.length \in Nat
    BY PortTypes, EndpointAssumption DEF Host, SetupPacket
  <1>2. /\ left \in Seq(InPacket) /\ Len(left) \in Nat
        /\ Len(Unread) = Len(left) + 1
        /\ DOMAIN Unread = 1 .. Len(left) + 1
        /\ \A i \in 1 .. Len(left) : Unread[i + 1] = left[i]
        /\ DOMAIN left = 1 .. Len(left)
    BY UnreadParts
  <1>3. Unread' = left
    BY <1>2, HeadAndTail DEF Unread
  <1>4. host.got + Len(left) + 1 <= host.setup.length
    BY AnswerAhead
  <1> HIDE DEF left
  <1>5. ASSUME NEW i \in DOMAIN left
        PROVE  /\ left[i].id = host.id
               /\ i < Len(left) => left[i].size = "full"
               /\ host.got + 1 + Len(left) <= host.setup.length
               /\ i = Len(left) /\ left[i].size = "full" =>
                    host.got + 1 + Len(left) = host.setup.length
    <2>1. i \in 1 .. Len(left) /\ i + 1 \in DOMAIN Unread
          /\ Unread[i + 1] = left[i]
      BY <1>2
    <2>2. /\ Unread[i + 1].id = host.id
          /\ i + 1 < Len(Unread) => Unread[i + 1].size = "full"
          /\ i + 1 = Len(Unread) /\ Unread[i + 1].size = "full" =>
               host.got + Len(Unread) = host.setup.length
      BY <2>1 DEF AnswerLeft
    <2>3. i \in Nat /\ Len(Unread) = Len(left) + 1 /\ Len(left) \in Nat
      BY <1>2, <2>1
    <2>4. left[i].id = host.id /\ (i < Len(left) => left[i].size = "full")
      BY <2>1, <2>2, <2>3
    <2>5. i = Len(left) /\ left[i].size = "full" =>
            host.got + 1 + Len(left) = host.setup.length
      BY <1>1, <2>1, <2>2, <2>3
    <2>6. host.got + 1 + Len(left) <= host.setup.length
      BY <1>1, <1>4, <2>3
    <2>7. QED
      BY <2>4, <2>5, <2>6
  <1>6. AnswerLeft'
    BY <1>3, <1>5 DEF AnswerLeft
  <1>7. QED
    BY <1>3, <1>6 DEF left

(* A host that polls takes a packet of its answer or its acknowledgement,  *)
(* or sees the refusal.                                                    *)
LEMMA HostInKeepsProtocol ==
  ASSUME IInv, Protocol, HostIn
  PROVE  Protocol'
  <1>1. /\ ~ Between /\ usb \in Usb /\ (usb.in_stall \/ SendsData(usb))
        /\ host \in Host /\ host.setup \in SetupPacket
    BY PortTypes DEF HostIn, HostPolls, Between
  <1>2. ~ hung /\ Calm /\ SetupLast
    BY <1>1 DEF Protocol, Proceeding, NothingPrimed, SendsData
  <1>3. ~ SetupDue /\ Serving
    <2>1. ~ Settling
      BY <1>1 DEF Settling, NothingOffered, NothingPrimed, SendsData
    <2>2. QED
      BY <1>1, <1>2, <2>1 DEF Protocol, Proceeding
  <1>4. UNCHANGED <<next, returned, rx_buffer, libgreat_response_last_error,
                    event_queue, hung>>
    BY Zenon DEF HostIn, firmwareVars, libgreatVars
  <1>5. CASE usb.in_stall
    <2>1. Refused
      BY <1>3, <1>5
         DEF Serving, Handed, Answering, Receiving, Acknowledging
    <2>2. host' = Ended("stalled") /\ UNCHANGED usb
      BY <1>5 DEF HostIn, SendsData
    <2>3. host'.stage = "stalled"
      BY <1>1, <2>2, EndedFields
    <2>4. Settling'
      BY <1>4, <2>1, <2>2, <2>3
         DEF Refused, Settling, NothingDue, NothingOffered, NothingPrimed,
             NoWrite, Between
    <2>5. QED
      BY <1>2, <1>3, <1>4, <2>1, <2>2, <2>4, EndsSettling
         DEF Refused, NothingDue, Calm
  <1>6. CASE SendsData(usb)
    <2>1. /\ usb'.in = <<>> /\ ~ usb'.in_ready /\ ~ usb'.in_stall
          /\ usb'.pending = usb.pending \union {"EpIn"}
          /\ usb'.out_enable = usb.out_enable /\ ~ usb'.out_stall
          /\ usb'.tx = usb.tx /\ usb'.tx_ack = usb.tx_ack
          /\ usb'.setup = usb.setup
      <3>1. usb' = TakeIn(usb)
        BY <1>6 DEF HostIn, SendsData
      <3>2. QED
        BY <1>1, <1>2, <1>6, <3>1 DEF TakeIn, SendsData, Calm, Usb
    <2>2. Answering \/ Acknowledging
      BY <1>3, <1>6
         DEF Serving, Handed, Refused, Receiving, NothingOffered,
             NothingPrimed, SendsData
    <2>3. CASE Acknowledging
      <3>1. /\ usb.pending = {} /\ event_queue = <<>> /\ returned = NoSetup
            /\ ~ usb.out_enable /\ host.stage = "status"
            /\ usb.tx = NoWrite /\ usb.in = << Zlp(host.id) >>
            /\ ~ DeviceToHost(host.setup)
            /\ \/ next.state \in {"Idle", "Complete"}
               \/ /\ next.state \in {"SetAddress", "FinishHostData"}
                  /\ next.setup = host.setup
            /\ next.state = "FinishHostData" => next.setup.request = "Execute"
        BY <1>6, <2>3
           DEF Acknowledging, NothingDue, NothingPrimed, SendsData
      <3>2. ~ Have(usb)
        BY <3>1 DEF Have, Zlp
      <3>3. host' = Ended("done")
        BY <1>6, <3>1, <3>2 DEF HostIn, SendsData
      <3>4. host'.stage = "done" /\ host'.id = host.id
        BY <1>1, <3>3, EndedFields
      <3>5. Servable(host.setup) /\ host.setup.id = host.id
        BY <1>1, <1>2 DEF Calm
      <3>6. SentDue' /\ ~ PacketDue'
        BY <1>4, <2>1, <3>1 DEF SentDue, PacketDue, Queued
      <3>7. Settling'
        <4>1. next.state = "FinishHostData" =>
                next.setup.request = "Execute" /\ next.setup.value = 0
          BY <3>1, <3>5 DEF Servable
        <4>2. QED
          BY <1>4, <2>1, <3>1, <3>4, <3>5, <3>6, <4>1
             DEF Settling, NothingOffered, NothingPrimed, NoWrite, Between
      <3>8. QED
        BY <1>2, <1>3, <1>4, <2>1, <3>1, <3>3, <3>7, EndsSettling
    <2>4. CASE Answering
      <3>1. /\ Len(usb.in) = 1 /\ usb.pending = {} /\ AnswerLeft
            /\ DeviceToHost(host.setup) /\ host.stage = "data"
        <4>1. usb.in \in Seq(InPacket) /\ Len(usb.in) \in Nat
          BY <1>1 DEF Usb
        <4>2. Len(usb.in) = 1
          <5>1. ASSUME NEW q \in Seq(InPacket), q # <<>>
                PROVE  Len(q) >= 1
            BY <5>1
          <5>2. usb.in # <<>> /\ Len(usb.in) <= 1
            BY <1>6, <2>4 DEF Answering, SendsData
          <5>3. Len(usb.in) >= 1
            BY <4>1, <5>1, <5>2
          <5>4. \A k \in Nat : k <= 1 /\ k >= 1 => k = 1
            OBVIOUS
          <5>5. QED
            BY <4>1, <5>2, <5>3, <5>4, Zenon
        <4>3. QED
          BY <1>6, <2>4, <4>2 DEF Answering, HostIn, HostPolls, SendsData
      <3> DEFINE last == usb.in[1].size # "full"
                         \/ host.got + 1 = host.setup.length
      <3>2. host' = IF host.got + 1 > host.setup.length
                    THEN Ended("failed")
                    ELSE [host EXCEPT !.got = host.got + 1,
                            !.stage = IF last THEN "status" ELSE "data"]
        BY <1>6, <3>1 DEF HostIn, SendsData
      <3>3. /\ host.got + 1 <= host.setup.length
            /\ last <=> usb.tx.left = <<>>
            /\ host.got \in Nat /\ host.setup.length \in Nat
        <4>1. host.got \in Nat /\ host.setup.length \in Nat
          BY <1>1, EndpointAssumption DEF Host, SetupPacket
        <4>2. /\ host.got + Len(usb.tx.left) + 1 <= host.setup.length
              /\ last <=> usb.tx.left = <<>>
              /\ Len(usb.tx.left) \in Nat
          BY <1>1, <3>1, AnswerAhead, UnreadParts
        <4>3. QED
          BY <4>1, <4>2
      <3> HIDE DEF last
      <3>4. /\ host'.got = host.got + 1 /\ host'.setup = host.setup
            /\ host'.id = host.id /\ host'.sent = host.sent
            /\ host'.stage = (IF usb.tx.left = <<>> THEN "status" ELSE "data")
        BY <1>1, <3>2, <3>3 DEF Host
      <3>5. AnswerLeft' /\ Unread' = usb.tx.left
        BY <1>1, <2>1, <3>1, <3>4, AnswerTaken
      <3>6. SentDue' /\ ~ SetupDue' /\ ~ Between'
        <4>1. \A i \in DOMAIN event_queue :
                event_queue[i].type # "ReceiveSetupPacket"
          BY <2>4 DEF Answering
        <4>2. QED
          BY <1>4, <2>1, <3>1, <3>4, <4>1
             DEF SentDue, SetupDue, Queued, Between
      <3>7. Answering'
        BY <1>4, <2>1, <2>4, <3>1, <3>4, <3>5, <3>6
           DEF Answering, DeviceToHost
      <3>8. Calm' /\ SetupLast'
        BY <1>1, <1>2, <1>4, <2>1, <2>4, <3>1, <3>4, <3>6
           DEF Calm, SetupLast, Servable, Answering, SetupDue, Queued
      <3>9. QED
        BY <1>2, <1>4, <3>6, <3>7, <3>8 DEF Protocol, Proceeding, Serving
    <2>5. QED
      BY <2>2, <2>3, <2>4
  <1>7. QED
    BY <1>1, <1>5, <1>6

(* A host that sends a packet sends data that is awaited, or acknowledges  *)
(* an answer it has all of.                                                *)
LEMMA HostOutKeepsProtocol ==
  ASSUME IInv, Protocol, HostOut
  PROVE  Protocol'
  <1>1. /\ ~ Between /\ usb \in Usb /\ host \in Host
    BY PortTypes DEF HostOut, HostSends, Between
  <1>2. UNCHANGED <<next, returned, rx_buffer, libgreat_response_last_error,
                    event_queue, hung>>
    BY Zenon DEF HostOut, firmwareVars, libgreatVars
  <1>3. CASE hung
    <2>1. usb'.in = usb.in /\ usb'.in_ready = usb.in_ready
          /\ usb'.in_stall = usb.in_stall
      BY <1>1 DEF HostOut, AcceptOut, Usb
    <2>2. QED
      BY <1>2, <1>3, <2>1 DEF Protocol, NothingPrimed
  <1>4. CASE ~ hung
    <2>1. Calm /\ SetupLast /\ ~ usb.out_stall
      BY <1>4 DEF Protocol, Proceeding, Calm
    <2>2. AcceptsOut(usb)
      BY <2>1 DEF HostOut
    <2>3. ~ SetupDue /\ Serving
      <3>1. ~ Settling
        BY <2>2 DEF Settling, NothingOffered, AcceptsOut
      <3>2. QED
        BY <1>1, <1>4, <3>1 DEF Protocol, Proceeding
    <2>4. PICK data : usb' = AcceptOut(usb, data)
      BY <2>1 DEF HostOut
    <2>5. /\ usb'.in = usb.in /\ usb'.in_ready = usb.in_ready
          /\ usb'.in_stall = usb.in_stall
          /\ usb'.out = data /\ ~ usb'.out_enable /\ ~ usb'.out_stall
          /\ usb'.pending = usb.pending \union {"EpOut"}
          /\ usb'.setup = usb.setup /\ usb'.tx = usb.tx
          /\ usb'.tx_ack = usb.tx_ack
      BY <1>1, <2>1, <2>4 DEF AcceptOut, Usb
    <2>6. Answering \/ Receiving
      BY <2>2, <2>3
         DEF Serving, Handed, Refused, Acknowledging, NothingOffered,
             AcceptsOut
    <2>7. CASE Receiving
      <3>1. /\ host.setup.request = "Execute" /\ ~ DeviceToHost(host.setup)
            /\ usb.pending = {} /\ event_queue = <<>> /\ host.stage = "data"
            /\ Len(rx_buffer) = host.sent
            /\ host.sent \in Nat
        BY <1>1, <2>2, <2>7, EndpointAssumption
           DEF Receiving, NothingDue, AcceptsOut, DeviceToHost, Host
      <3>2. /\ usb' = AcceptOut(usb, << DataOf(host.setup)[host.sent + 1] >>)
            /\ host' = [host EXCEPT !.sent = @ + 1,
                          !.stage = IF host.sent + 1 = host.setup.length
                                    THEN "status" ELSE "data"]
        BY <2>1, <3>1 DEF HostOut
      <3>3. Len(usb'.out) = 1
        BY <1>1, <3>2 DEF AcceptOut, Usb
      <3>4. /\ host'.setup = host.setup /\ host'.sent = host.sent + 1
            /\ host'.id = host.id /\ host'.got = host.got
            /\ host'.stage = (IF host'.sent = host.setup.length
                              THEN "status" ELSE "data")
        BY <1>1, <3>2 DEF Host
      <3>5. ~ SetupDue' /\ ~ Between'
        BY <1>2, <2>5, <3>1, <3>4 DEF SetupDue, Queued, Between
      <3>6. Receiving'
        BY <1>2, <2>5, <2>7, <3>1, <3>3, <3>4 DEF Receiving, NothingPrimed
      <3>7. Calm' /\ SetupLast'
        BY <1>1, <1>2, <2>1, <2>5, <3>1, <3>4, <3>5
           DEF Calm, SetupLast, Servable, SetupDue, Queued
      <3>8. QED
        BY <1>2, <1>4, <3>5, <3>6, <3>7 DEF Protocol, Proceeding, Serving
    <2>8. CASE Answering
      <3>1. /\ host.stage = "status" /\ next.state \in {"WaitForZlp", "Idle"}
            /\ Unread = <<>>
        BY <2>2, <2>8
           DEF Answering, HostOut, HostSends, AcceptsOut
      <3>2. usb.in = <<>> /\ usb.tx.left = <<>>
            /\ usb.tx.at \notin {"drain", "fill"}
        <4>1. /\ usb.in \in Seq(InPacket) /\ usb.tx.left \in Seq(InPacket)
              /\ usb.tx.at \in {"drain", "fill"} => usb.tx.left # <<>>
          BY <1>1 DEF Usb, Write
        <4>2. ASSUME NEW p \in Seq(InPacket), NEW q \in Seq(InPacket),
                     p \o q = <<>>
              PROVE  p = <<>> /\ q = <<>>
          <5>1. Len(p) + Len(q) = 0 /\ Len(p) \in Nat /\ Len(q) \in Nat
            BY <4>2
          <5>2. Len(p) = 0 /\ Len(q) = 0
            BY <5>1
          <5>3. QED
            BY <5>2
        <4>3. usb.in = <<>> /\ usb.tx.left = <<>>
          BY <3>1, <4>1, <4>2 DEF Unread
        <4>4. QED
          BY <4>1, <4>3
      <3>3. host' = Ended("done")
        BY <2>1, <3>1 DEF HostOut
      <3>4. host'.stage = "done"
        BY <1>1, <3>3, EndedFields
      <3>5. PacketDue'
        BY <2>5 DEF PacketDue
      <3>6. usb.tx.at \in {"none", "wait"}
        BY <1>1, <3>2 DEF Usb, Write
      <3>7. Settling'
        BY <1>2, <2>5, <2>8, <3>1, <3>2, <3>4, <3>5, <3>6
           DEF Answering, Settling, NothingOffered, NothingPrimed, Between
      <3>8. usb'.pending \subseteq {"EpIn", "EpOut"}
        BY <2>5, <2>8 DEF Answering
      <3>9. QED
        BY <1>2, <1>4, <2>1, <2>3, <2>5, <3>3, <3>7, <3>8, EndsSettling
    <2>9. QED
      BY <2>6, <2>7, <2>8
  <1>5. QED
    BY <1>3, <1>4

(* A device that does not hang never leaves a polite host unanswered.      *)
LEMMA NoTimeout ==
  ASSUME PoliteHost, IInv, Protocol, ~ hung
  PROVE  ~ HostTimeout
  <1>1. SUFFICES ASSUME HostTimeout PROVE FALSE
    OBVIOUS
  <1>2. ~ Between /\ UNCHANGED <<usb, event_queue, hung>>
    BY <1>1, Zenon DEF HostTimeout
  <1>3. Unanswered
    <2>1. early \in 0 .. MaxEarlyTimeouts /\ MaxEarlyTimeouts = 0
      BY DEF IInv, TypeOK, PoliteHost
    <2>2. ~ (early < MaxEarlyTimeouts)
      BY <2>1
    <2>3. QED
      BY <1>1, <2>2 DEF HostTimeout
  <1>4. /\ usb.pending = {} /\ event_queue = <<>>
        /\ usb.tx.at = "none" /\ returned = NoSetup
        /\ ~ (HostPolls /\ (usb.in_stall \/ SendsData(usb)))
        /\ ~ (HostSends /\ (usb.out_stall \/ AcceptsOut(usb)))
    BY <1>3 DEF Unanswered
  <1>5. ~ SetupDue /\ ~ SentDue
    BY <1>4 DEF SetupDue, SentDue, Queued
  <1>6. Serving /\ ~ usb.out_stall /\ usb \in Usb /\ host.setup # NoSetup
    BY <1>2, <1>5, PortTypes DEF Protocol, Proceeding, Calm
  <1>7. ~ Handed
    BY <1>4, <1>6 DEF Handed
  <1>8. ~ Refused
    BY <1>4 DEF Refused
  <1>9. ~ Receiving
    BY <1>4, <1>6
       DEF Receiving, NothingDue, HostSends, DeviceToHost, AcceptsOut
  <1>10. ~ Acknowledging
    BY <1>4 DEF Acknowledging, HostPolls, SendsData, NoWrite
  <1>11. ~ Answering
    <2>1. SUFFICES ASSUME Answering PROVE FALSE
      OBVIOUS
    <2>2. usb.tx.left = <<>> /\ usb.in \in Seq(InPacket)
      BY <1>4, <1>6, <2>1 DEF Answering, Usb
    <2>3. CASE usb.in = <<>>
      <3>1. Unread = <<>>
        BY <2>2, <2>3 DEF Unread
      <3>2. host.stage = "status" /\ usb.out_enable
        BY <1>4, <1>5, <2>1, <2>3, <3>1 DEF Answering
      <3>3. QED
        BY <1>4, <1>6, <2>1, <3>2 DEF Answering, HostSends, AcceptsOut
    <2>4. CASE usb.in # <<>>
      <3>1. Unread # <<>>
        BY <2>2, <2>4 DEF Unread
      <3>2. QED
        BY <1>4, <2>1, <2>4, <3>1 DEF Answering, HostPolls, SendsData
    <2>5. QED
      BY <2>3, <2>4
  <1>12. QED
    BY <1>6, <1>7, <1>8, <1>9, <1>10, <1>11 DEF Serving

LEMMA HostTimeoutKeepsProtocol ==
  ASSUME PoliteHost, IInv, Protocol, HostTimeout
  PROVE  Protocol'
  <1>1. ~ Between /\ UNCHANGED <<usb, event_queue, hung>>
    BY Zenon DEF HostTimeout
  <1>2. hung
    BY NoTimeout
  <1>3. QED
    BY <1>1, <1>2 DEF Protocol, NothingPrimed

LEMMA InitProtocol == Init => Protocol
  <1>1. SUFFICES ASSUME Init PROVE Protocol
    OBVIOUS
  <1>2. /\ event_queue = <<>> /\ ~ hung /\ Between
        /\ libgreat_response_last_error = None
        /\ host.got = 0 /\ returned = NoSetup /\ next.state = "Idle"
    BY <1>1 DEF Init, ControlInit, Between
  <1>3. /\ usb.in = <<>> /\ ~ usb.in_ready /\ ~ usb.in_stall
        /\ ~ usb.out_enable /\ ~ usb.out_stall /\ usb.pending = {}
        /\ usb.tx = NoWrite
    BY <1>1 DEF Init, ControlInit, Connected
  <1>4. ~ SetupDue
    BY <1>2, <1>3 DEF SetupDue, Queued
  <1>5. Calm /\ SetupLast
    BY <1>2, <1>3, <1>4 DEF Calm, SetupLast
  <1>6. Settling
    BY <1>2, <1>3
       DEF Settling, NothingOffered, NothingPrimed, NoWrite
  <1>7. QED
    BY <1>2, <1>4, <1>5, <1>6 DEF Protocol, Proceeding

(* Every step of the firmware and of a polite host keeps to the protocol.  *)
LEMMA NextKeepsProtocol ==
  ASSUME PoliteHost, IInv, Protocol, [Next]_vars
  PROVE  Protocol'
  <1>1. CASE MachineExternal
    BY <1>1, HandlerKeepsProtocol
  <1>2. CASE MainLoop
    BY <1>2, MainLoopKeepsProtocol
  <1>3. CASE WriteStep
    BY <1>3, WriteStepKeepsProtocol
  <1>4. CASE HandleVendorRequest
    BY <1>4, VendorKeepsProtocol
  <1>5. CASE HostSetup
    BY <1>5, HostSetupKeepsProtocol
  <1>6. CASE HostIn
    BY <1>6, HostInKeepsProtocol
  <1>7. CASE HostOut
    BY <1>7, HostOutKeepsProtocol
  <1>8. CASE HostTimeout
    BY <1>8, HostTimeoutKeepsProtocol
  <1>9. ~ HostBusReset
    <2>1. resets \in 0 .. MaxResets /\ MaxResets = 0
      BY DEF IInv, TypeOK, PoliteHost
    <2>2. QED
      BY <2>1 DEF HostBusReset
  <1>10. CASE UNCHANGED vars
    <2>1. UNCHANGED <<usb, next, rx_buffer, returned, event_queue, hung, host,
                      libgreat_response_last_error>>
      BY <1>10, Zenon DEF vars, controlVars, libgreatVars
    <2>2. /\ Between' <=> Between
          /\ PacketDue' <=> PacketDue
          /\ SentDue' <=> SentDue
          /\ SetupDue' <=> SetupDue
      BY <2>1 DEF Between, PacketDue, SentDue, SetupDue, Queued
    <2>3. (Calm <=> Calm') /\ (SetupLast <=> SetupLast')
      BY <2>1, <2>2 DEF Calm, SetupLast, Servable
    <2>4. Settling <=> Settling'
      BY <2>1, <2>2 DEF Settling, NothingOffered, NothingPrimed
    <2>5. Serving <=> Serving'
      <3>1. (Handed <=> Handed') /\ (Refused <=> Refused')
        BY <2>1
           DEF Handed, Refused, NothingDue, NothingOffered, NothingPrimed,
               HostPolls, DeviceToHost, FirstStage
      <3>2. (AnswerLeft <=> AnswerLeft') /\ Unread' = Unread
        BY <2>1 DEF Unread, AnswerLeft
      <3>3. Answering <=> Answering'
        BY <2>1, <2>2, <3>2 DEF Answering, DeviceToHost
      <3>4. Receiving <=> Receiving'
        BY <2>1 DEF Receiving, NothingDue, NothingPrimed
      <3>5. Acknowledging <=> Acknowledging'
        BY <2>1 DEF Acknowledging, NothingDue, NothingPrimed, DeviceToHost
      <3>6. QED
        BY <3>1, <3>3, <3>4, <3>5 DEF Serving
    <2>6. QED
      BY <2>1, <2>2, <2>3, <2>4, <2>5 DEF Protocol, Proceeding, NothingPrimed
  <1>11. QED
    BY <1>1, <1>2, <1>3, <1>4, <1>5, <1>6, <1>7, <1>8, <1>9, <1>10, Zenon
       DEF Next, Firmware, Tokens

LEMMA ProtocolKept ==
  ASSUME PoliteHost
  PROVE  Spec => [](IInv /\ Protocol)
  <1>1. Init => IInv /\ Protocol
    BY InitIInv, InitProtocol
  <1>2. IInv /\ Protocol /\ [Next]_vars => (IInv /\ Protocol)'
    BY NextKeepsIInv, NextKeepsProtocol
  <1>3. QED
    BY <1>1, <1>2, PTL DEF Spec

(* Whatever a polite host asks for and however its tokens interleave with  *)
(* the interrupt handler and the main loop, the end of a transfer is       *)
(* dispatched before the SETUP packet of the next, by which the state      *)
(* accepts it; the rule that the catch-all arm drops a SETUP packet is     *)
(* never applied. The size of the event queue does not matter.             *)
THEOREM SetupsAccepted == PoliteHost => (Spec => []SetupNeverDropped)
  <1>1. IInv /\ Protocol => SetupNeverDropped
    <2>1. SUFFICES ASSUME IInv, Protocol, event_queue # <<>>,
                          usb.tx.at = "none", returned = NoSetup,
                          Head(event_queue).type = "ReceiveSetupPacket"
                   PROVE  AcceptsSetup
      BY DEF SetupNeverDropped
    <2>2. Proceeding
      BY <2>1 DEF Protocol
    <2>3. event_queue[1].type = "ReceiveSetupPacket"
          /\ 1 \in DOMAIN event_queue
      <3>1. ASSUME NEW q \in Seq(Event), q # <<>>
            PROVE  Head(q) = q[1] /\ 1 \in DOMAIN q
        BY <3>1
      <3>2. QED
        BY <2>1, <3>1, PortTypes
    <2>4. usb.pending = {}
      BY <2>2, <2>3 DEF Proceeding, SetupLast
    <2>5. QED
      BY <2>1, <2>2, <2>3, <2>4, SetupIsAlone
  <1>2. SUFFICES ASSUME PoliteHost PROVE Spec => []SetupNeverDropped
    OBVIOUS
  <1>3. Spec => [](IInv /\ Protocol)
    BY <1>2, ProtocolKept
  <1>4. QED
    BY <1>1, <1>3, PTL

(* What a polite host reads is the answer to what it has asked, or the     *)
(* acknowledgement of it, one packet at a time: no timeout of the driver,  *)
(* and no event of the transfer before, leaves it anything else. The host  *)
(* asks for whole answers: write_requested does not cut what a class has   *)
(* to say to the length of a Response, and to one that asks for less the   *)
(* rest of the answer is what the next transfer reads.                     *)
THEOREM AnswersUnmixed == PoliteHost => (Spec => []AnswersIntact)
  <1>1. IInv /\ Protocol => AnswersIntact
    <2>1. SUFFICES ASSUME IInv, Protocol PROVE AnswersIntact
      OBVIOUS
    <2>2. usb.in \in Seq(InPacket) /\ usb.tx.left \in Seq(InPacket)
      BY <2>1, PortTypes DEF Usb, Write
    <2>3. CASE NothingPrimed
      BY <2>3
         DEF NothingPrimed, AnswersIntact, AnswersBelongToTransfer,
             FifoHoldsOnePacket, SendsData
    <2>4. CASE ~ NothingPrimed
      <3>1. ~ Between /\ ~ SetupDue /\ Serving /\ Calm
        BY <2>1, <2>4
           DEF Protocol, Proceeding, Settling, NothingOffered
      <3>2. Answering \/ Acknowledging
        BY <2>4, <3>1
           DEF Serving, Handed, Refused, Receiving, NothingOffered
      <3>3. host.setup.id = host.id
        BY <3>1 DEF Calm
      <3>4. CASE Acknowledging
        <4>1. usb.in = << Zlp(host.id) >>
          BY <2>4, <3>4 DEF Acknowledging, NothingPrimed
        <4>2. QED
          BY <3>3, <4>1
             DEF AnswersIntact, AnswersBelongToTransfer, FifoHoldsOnePacket,
                 Zlp
      <3>5. CASE Answering
        <4>1. Len(usb.in) <= 1 /\ AnswerLeft
          BY <3>5 DEF Answering
        <4>2. \A i \in DOMAIN usb.in : i \in DOMAIN Unread
                                       /\ Unread[i] = usb.in[i]
          <5>1. ASSUME NEW p \in Seq(InPacket), NEW q \in Seq(InPacket)
                PROVE  \A i \in DOMAIN p : /\ i \in DOMAIN (p \o q)
                                           /\ (p \o q)[i] = p[i]
            OBVIOUS
          <5>2. QED
            BY <2>2, <5>1 DEF Unread
        <4>3. \A i \in DOMAIN usb.in : usb.in[i].id = host.id
          BY <4>1, <4>2 DEF AnswerLeft
        <4>4. QED
          BY <3>3, <4>1, <4>3
             DEF AnswersIntact, AnswersBelongToTransfer, FifoHoldsOnePacket
      <3>6. QED
        BY <3>2, <3>4, <3>5
    <2>5. QED
      BY <2>3, <2>4
  <1>2. SUFFICES ASSUME PoliteHost PROVE Spec => []AnswersIntact
    OBVIOUS
  <1>3. Spec => [](IInv /\ Protocol)
    BY <1>2, ProtocolKept
  <1>4. QED
    BY <1>1, <1>3, PTL

(* A stall that a polite host sees refuses what it has just asked for, and *)
(* that is something a device may refuse.                                  *)
THEOREM StallsDeserved == PoliteHost => (Spec => []NoStrayStall)
  <1>1. IInv /\ Protocol => NoStrayStall
    <2>1. SUFFICES ASSUME IInv, Protocol, HostPolls, usb.in_stall
                   PROVE  \/ host.setup.request \in {"Response", "UnknownIn"}
                          \/ host.setup.value # 0
      BY DEF NoStrayStall
    <2>2. ~ Between /\ Proceeding
      BY <2>1 DEF HostPolls, Between, Protocol
    <2>3. ~ Settling
      BY <2>1, <2>2 DEF Settling
    <2>4. Refused
      BY <2>1, <2>2, <2>3
         DEF Proceeding, Serving, Handed, Answering, Receiving, Acknowledging
    <2>5. QED
      BY <2>4 DEF Refused
  <1>2. SUFFICES ASSUME PoliteHost PROVE Spec => []NoStrayStall
    OBVIOUS
  <1>3. Spec => [](IInv /\ Protocol)
    BY <1>2, ProtocolKept
  <1>4. QED
    BY <1>1, <1>3, PTL

(* A device keeps its address until a polite host has the acknowledgement  *)
(* of the request to change it: a change while a later transfer is in its  *)
(* status stage is the end of the transfer before.                         *)
THEOREM AddressKept == PoliteHost => (Spec => AddressChangesAfterStatus)
  <1> DEFINE A == usb'.address # usb.address /\ host.stage = "status"
                    => host.setup \notin {next.setup, next'.setup}
  <1>1. SUFFICES ASSUME PoliteHost PROVE Spec => AddressChangesAfterStatus
    OBVIOUS
  <1>2. IInv /\ Protocol /\ [Next]_vars => [A]_vars
    <2>1. SUFFICES ASSUME IInv, Protocol, [Next]_vars,
                          usb'.address # usb.address, host.stage = "status"
                   PROVE  host.setup \notin {next.setup, next'.setup}
      OBVIOUS
    <2>2. usb \in Usb
      BY <2>1, PortTypes
    <2>3. MainLoop
      <3>1. ~ MachineExternal
        <4>1. SUFFICES ASSUME MachineExternal PROVE FALSE
          OBVIOUS
        <4>2. Calm
          BY <1>1, <2>1, <4>1 DEF MachineExternal, Protocol, Proceeding
        <4>3. usb'.address = usb.address
          BY <1>1, <2>1, <4>1, <4>2, HandlesOne
        <4>4. QED
          BY <2>1, <4>3
      <3>2. ~ WriteStep
        BY <2>1, <2>2
           DEF WriteStep, Fill, Sent, DrainTimeout, WaitTimeout, Usb
      <3>3. ~ HandleVendorRequest
        BY <2>1, <2>2
           DEF HandleVendorRequest, ClaimInterface, DispatchLibgreatRequest,
               DispatchLibgreatResponse, DispatchLibgreatAbort, StallUnknown,
               WriteZlp, WriteWithPacketSize, EpOutPrimeReceive,
               StallEndpointIn, StallEndpointOut, Usb
      <3>4. ~ HostSetup /\ ~ HostIn /\ ~ HostOut
        BY <2>1, <2>2
           DEF HostSetup, HostIn, HostOut, AcceptSetup, TakeIn, AcceptOut, Usb
      <3>5. ~ HostTimeout
        BY <2>1, Zenon DEF HostTimeout
      <3>6. ~ HostBusReset
        <4>1. resets \in 0 .. MaxResets /\ MaxResets = 0
          BY <1>1, <2>1 DEF IInv, TypeOK, PoliteHost
        <4>2. QED
          BY <4>1 DEF HostBusReset
      <3>7. ~ UNCHANGED vars
        BY <2>1 DEF vars, controlVars
      <3>8. QED
        BY <1>1, <2>1, <3>1, <3>2, <3>3, <3>4, <3>5, <3>6, <3>7, Zenon
           DEF Next, Firmware, Tokens
    <2>4. DispatchEvent(event_queue[1]) /\ event_queue[1].type # "BusReset"
          /\ usb.pending = {} /\ Proceeding
      BY <1>1, <2>1, <2>3, Dispatching
    <2>5. SendComplete_SetAddress /\ event_queue[1].type = "SendComplete"
      BY <2>1, <2>2, <2>4
         DEF DispatchEvent, OnSetup, SetupSend, SetupUnknownDescriptor,
             SetupSetAddress, SetupSetConfiguration, SetupFeature, SetupStall,
             SetupReceive, SetupUnsupported, SendComplete_Send,
             SendComplete_Complete, SendComplete_FinishHostData,
             SendComplete_Ignored, ReceivePacket_WaitForZlp,
             ReceivePacket_ReceiveHostData, ReceivePacket_Idle, OnUnexpected,
             WriteZlp, WriteWithPacketSize, EpOutPrimeReceive, Read,
             StallEndpointIn, StallEndpointOut, Usb
    <2>6. /\ next.state = "SetAddress" /\ next'.setup = NoSetup
          /\ event_queue # <<>> /\ ~ Between
      BY <2>1, <2>3, <2>5
         DEF SendComplete_SetAddress, Goto, MainLoop, Between
    <2>7. Settling
      BY <2>4, <2>6
         DEF Proceeding, Serving, Handed, Refused, Answering, Receiving,
             Acknowledging, NothingDue
    <2>8. next.setup.id # host.id /\ host.setup.id = host.id
      BY <2>4, <2>6, <2>7 DEF Settling, Proceeding, Calm
    <2>9. host.setup # NoSetup
      BY <1>1, <2>1, <2>6, PortTypes
    <2>10. QED
      BY <2>6, <2>8, <2>9
  <1>3. Spec => [](IInv /\ Protocol)
    BY <1>1, ProtocolKept
  <1>4. QED
    BY <1>2, <1>3, PTL DEF Spec, AddressChangesAfterStatus
-----------------------------------------------------------------------------
(* The event queue, for a PoliteHost: how full it can be.                  *)

Pending(irq) == IF irq \in usb.pending THEN 1 ELSE 0

(* Events queued, and those that pending interrupts will add.              *)
Backlog ==
  Len(event_queue) + Pending("EpControl") + Pending("EpIn") + Pending("EpOut")

(* Each packet of an answer leaves an event that the main loop does not    *)
(* dispatch before the answer is written; the acknowledgement of the       *)
(* answer and the next SETUP packet may come behind it.                    *)
Roomy ==
  /\ ~ hung
  /\ SetupDue => Backlog <= MaxLength + 2
  /\ Between => Backlog <= MaxLength + 1
  /\ ~ Between /\ ~ SetupDue =>
       Backlog <= IF DeviceToHost(host.setup) THEN host.got ELSE 1

LEMMA BacklogType ==
  ASSUME IInv
  PROVE  /\ Backlog \in Nat /\ Len(event_queue) \in Nat
         /\ \A irq : Pending(irq) \in {0, 1}
         /\ usb.pending = {} => Backlog = Len(event_queue)
         /\ NothingDue => Backlog = 0
  <1>1. Len(event_queue) \in Nat
    BY PortTypes
  <1>2. \A irq : Pending(irq) \in {0, 1}
    BY DEF Pending
  <1>3. usb.pending = {} =>
          Pending("EpControl") = 0 /\ Pending("EpIn") = 0 /\ Pending("EpOut") = 0
    BY DEF Pending
  <1>4. event_queue = <<>> => Len(event_queue) = 0
    OBVIOUS
  <1>5. QED
    BY <1>1, <1>2, <1>3, <1>4 DEF Backlog, NothingDue

(* Whatever the moment, the backlog is within the same bound.              *)
LEMMA BacklogBound ==
  ASSUME IInv, Roomy
  PROVE  Backlog <= MaxLength + 2
  <1>1. host.got \in 0 .. MaxLength /\ MaxLength \in Nat /\ Backlog \in Nat
    BY PortTypes, BacklogType, EndpointAssumption DEF Host
  <1>2. CASE ~ Between /\ ~ SetupDue
    BY <1>1, <1>2 DEF Roomy
  <1>3. CASE Between
    BY <1>1, <1>3 DEF Roomy
  <1>4. CASE SetupDue
    BY <1>4 DEF Roomy
  <1>5. QED
    BY <1>2, <1>3, <1>4

LEMMA HandlerKeepsRoomy ==
  ASSUME EventQueueSize >= MaxLength + 2, IInv, Protocol, Roomy,
         MachineExternal
  PROVE  Roomy'
  <1>1. Calm
    BY DEF Protocol, Proceeding, Roomy
  <1>2. PICK irq \in usb.pending, event \in Event :
           /\ Enqueue(event)
           /\ event.type = CASE irq = "EpControl" -> "ReceiveSetupPacket"
                             [] irq = "EpIn" -> "SendComplete"
                             [] irq = "EpOut" -> "ReceivePacket"
           /\ irq \in {"EpControl", "EpIn", "EpOut"}
           /\ usb'.pending = usb.pending \ {irq}
    BY <1>1, HandlesOne
  <1>3. UNCHANGED host
    BY DEF MachineExternal
  <1>4. /\ Backlog \in Nat /\ Len(event_queue) \in Nat /\ Backlog <= MaxLength + 2
        /\ MaxLength \in Nat /\ EventQueueSize \in Nat
    BY BacklogType, BacklogBound, EndpointAssumption, HostAssumption
  <1>5. /\ Pending("EpControl") \in {0, 1} /\ Pending("EpIn") \in {0, 1}
        /\ Pending("EpOut") \in {0, 1}
    BY DEF Pending
  <1>6. Pending("EpControl") + Pending("EpIn") + Pending("EpOut")
          = Pending("EpControl")' + Pending("EpIn")' + Pending("EpOut")' + 1
    BY <1>2 DEF Pending
  <1>7. /\ Pending("EpControl")' \in {0, 1} /\ Pending("EpIn")' \in {0, 1}
        /\ Pending("EpOut")' \in {0, 1}
    BY DEF Pending
  <1>8. Len(event_queue) < EventQueueSize
    BY <1>4, <1>5, <1>6, <1>7 DEF Backlog
  <1>9. event_queue' = Append(event_queue, event) /\ UNCHANGED hung
    BY <1>2, <1>4, <1>8 DEF Enqueue
  <1>10. /\ Len(event_queue') = Len(event_queue) + 1
         /\ \A type : Queued(type)' <=> Queued(type) \/ event.type = type
    BY <1>9, QueueGrows
  <1>11. Backlog' = Backlog
    BY <1>4, <1>5, <1>6, <1>7, <1>10 DEF Backlog
  <1>12. (SetupDue' <=> SetupDue) /\ (Between' <=> Between)
    <2>1. Queued("ReceiveSetupPacket")' <=>
            Queued("ReceiveSetupPacket") \/ irq = "EpControl"
      BY <1>2, <1>10
    <2>2. QED
      BY <1>2, <1>3, <2>1 DEF SetupDue, Between
  <1>13. QED
    BY <1>3, <1>9, <1>11, <1>12 DEF Roomy, DeviceToHost

LEMMA MainLoopKeepsRoomy ==
  ASSUME IInv, Protocol, Roomy, MainLoop
  PROVE  Roomy'
  <1>1. /\ ~ hung' /\ usb.pending = {} /\ usb'.pending = {}
        /\ UNCHANGED host /\ usb'.setup = usb.setup
        /\ Len(event_queue) \in Nat \ {0}
        /\ Len(event_queue') = Len(event_queue) - 1
        /\ Between' <=> Between
        /\ \A type :
             Queued(type) <=> (Queued(type)' \/ event_queue[1].type = type)
        /\ Proceeding
    BY Dispatching
  <1>2. Backlog = Len(event_queue) /\ Backlog' = Len(event_queue) - 1
    <2>1. Backlog' = Len(event_queue')
      BY <1>1 DEF Backlog, Pending
    <2>2. QED
      BY <1>1, <2>1, BacklogType
  <1>3. host.got \in Nat /\ MaxLength \in Nat
    BY PortTypes, EndpointAssumption DEF Host
  <1>4. CASE event_queue[1].type = "ReceiveSetupPacket"
    <2>1. Len(event_queue) = 1
      BY <1>1, <1>4, SetupIsAlone DEF MainLoop
    <2>2. Backlog' = 0
      BY <1>2, <2>1
    <2>3. QED
      BY <1>1, <1>3, <2>2 DEF Roomy
  <1>5. CASE event_queue[1].type # "ReceiveSetupPacket"
    <2>1. SetupDue' <=> SetupDue
      BY <1>1, <1>5 DEF SetupDue
    <2>2. QED
      BY <1>1, <1>2, <1>3, <2>1, EndpointAssumption DEF Roomy, DeviceToHost
  <1>6. QED
    BY <1>4, <1>5

(* The other steps of the firmware leave queue and interrupts alone.       *)
LEMMA SameBacklog ==
  ASSUME Roomy, UNCHANGED <<event_queue, hung, host>>,
         usb'.pending = usb.pending
  PROVE  Roomy'
  BY DEF Roomy, Backlog, Pending, SetupDue, Queued, Between, DeviceToHost

LEMMA HostSetupKeepsRoomy ==
  ASSUME PoliteHost, IInv, Protocol, Roomy, HostSetup
  PROVE  Roomy'
  <1>1. Between /\ UNCHANGED <<event_queue, hung>>
    BY DEF HostSetup
  <1>2. /\ usb'.pending = usb.pending \union {"EpControl"}
        /\ host'.stage \in {"data", "status"}
    BY PortTypes DEF HostSetup, AcceptSetup, Usb, Host
  <1>3. /\ SetupDue' /\ ~ Between'
    BY <1>2 DEF SetupDue, Between
  <1>4. Backlog <= MaxLength + 1 /\ Backlog \in Nat /\ MaxLength \in Nat
    BY <1>1, BacklogType, EndpointAssumption DEF Roomy
  <1>5. /\ Pending("EpControl") \in {0, 1} /\ Pending("EpControl")' = 1
        /\ Pending("EpIn")' = Pending("EpIn") /\ Pending("EpIn") \in {0, 1}
        /\ Pending("EpOut")' = Pending("EpOut") /\ Pending("EpOut") \in {0, 1}
    BY <1>2 DEF Pending
  <1>6. Len(event_queue) \in Nat /\ Len(event_queue') = Len(event_queue)
    BY <1>1, BacklogType
  <1>7. Backlog' <= MaxLength + 2
    BY <1>4, <1>5, <1>6 DEF Backlog
  <1>8. QED
    BY <1>1, <1>3, <1>7 DEF Roomy

(* One more interrupt: of a packet taken, or of a packet sent.             *)
LEMMA OneMore ==
  ASSUME IInv, UNCHANGED event_queue, NEW irq \in {"EpIn", "EpOut"},
         usb'.pending = usb.pending \union {irq}
  PROVE  Backlog' <= Backlog + 1 /\ Backlog' \in Nat /\ Backlog \in Nat
  <1>1. /\ Pending("EpControl")' = Pending("EpControl")
        /\ Pending("EpControl") \in {0, 1}
        /\ Pending("EpIn") \in {0, 1} /\ Pending("EpOut") \in {0, 1}
        /\ Pending("EpIn")' \in {0, 1} /\ Pending("EpOut")' \in {0, 1}
        /\ irq = "EpIn" => Pending("EpOut")' = Pending("EpOut")
        /\ irq = "EpOut" => Pending("EpIn")' = Pending("EpIn")
        /\ irq = "EpIn" => Pending("EpIn")' = 1
        /\ irq = "EpOut" => Pending("EpOut")' = 1
    BY DEF Pending
  <1>2. Len(event_queue) \in Nat /\ Len(event_queue') = Len(event_queue)
    BY BacklogType
  <1>3. QED
    BY <1>1, <1>2 DEF Backlog

(* A transfer that the host ends.                                          *)
LEMMA EndsRoomy ==
  ASSUME IInv, Roomy, ~ SetupDue, UNCHANGED <<event_queue, hung>>,
         NEW stage \in {"done", "stalled", "failed"}, host' = Ended(stage),
         "EpControl" \in usb'.pending => "EpControl" \in usb.pending,
         Backlog' <= MaxLength + 1
  PROVE  Roomy'
  <1>1. host'.stage = stage
    BY PortTypes, EndedFields
  <1>2. Between' /\ ~ SetupDue'
    BY <1>1 DEF Between, SetupDue, Queued
  <1>3. QED
    BY <1>2 DEF Roomy

LEMMA HostInKeepsRoomy ==
  ASSUME IInv, Protocol, Roomy, HostIn
  PROVE  Roomy'
  <1>1. /\ ~ Between /\ usb \in Usb /\ (usb.in_stall \/ SendsData(usb))
        /\ host \in Host /\ UNCHANGED <<event_queue, hung>> /\ ~ hung
    BY PortTypes DEF HostIn, HostPolls, Between, Roomy
  <1>2. ~ SetupDue /\ Serving /\ Proceeding
    <2>1. ~ Settling
      BY <1>1 DEF Settling, NothingOffered, NothingPrimed, SendsData
    <2>2. QED
      BY <1>1, <2>1 DEF Protocol, Proceeding
  <1>3. /\ host.got \in 0 .. MaxLength /\ MaxLength \in Nat
        /\ Backlog \in Nat
        /\ Backlog <= IF DeviceToHost(host.setup) THEN host.got ELSE 1
    BY <1>1, <1>2, BacklogType, EndpointAssumption DEF Roomy, Host
  <1>4. CASE usb.in_stall
    <2>1. Refused
      BY <1>2, <1>4
         DEF Serving, Handed, Answering, Receiving, Acknowledging
    <2>2. host' = Ended("stalled") /\ UNCHANGED usb
      BY <1>4 DEF HostIn, SendsData
    <2>3. Backlog' = 0
      <3>1. Backlog = 0
        BY <2>1, BacklogType DEF Refused
      <3>2. QED
        BY <1>1, <2>2, <3>1 DEF Backlog, Pending
    <2>4. QED
      BY <1>1, <1>2, <1>3, <2>2, <2>3, EndsRoomy
  <1>5. CASE SendsData(usb)
    <2>1. usb'.pending = usb.pending \union {"EpIn"}
      <3>1. usb' = TakeIn(usb)
        BY <1>5 DEF HostIn, SendsData
      <3>2. QED
        BY <1>1, <3>1 DEF TakeIn, Usb
    <2>2. Backlog' <= Backlog + 1 /\ Backlog' \in Nat
      BY <1>1, <2>1, OneMore
    <2>3. Answering \/ Acknowledging
      BY <1>2, <1>5
         DEF Serving, Handed, Refused, Receiving, NothingOffered,
             NothingPrimed, SendsData
    <2>4. CASE host'.stage \in {"done", "failed"}
      <3>1. Backlog' <= MaxLength + 1
        <4>1. CASE Answering
          BY <1>3, <2>2, <4>1 DEF Answering
        <4>2. CASE Acknowledging
          <5>1. Backlog = 0
            BY <4>2, BacklogType DEF Acknowledging
          <5>2. QED
            BY <1>3, <2>2, <5>1
        <4>3. QED
          BY <2>3, <4>1, <4>2
      <3>2. host' \in {Ended("done"), Ended("failed")}
        BY <1>1, <1>5, <2>4 DEF HostIn, SendsData, Host
      <3>3. QED
        BY <1>1, <1>2, <2>1, <3>1, <3>2, EndsRoomy
    <2>5. CASE host'.stage \notin {"done", "failed"}
      <3>1. /\ host'.got = host.got + Len(usb.in) /\ host'.setup = host.setup
            /\ host.stage = "data"
        BY <1>1, <1>5, <2>5, EndedFields DEF HostIn, SendsData, Host
      <3>2. DeviceToHost(host.setup) /\ Answering
        BY <2>3, <3>1 DEF Acknowledging, HostIn, HostPolls, Answering
      <3>3. Len(usb.in) \in Nat /\ Len(usb.in) # 0
        <4>1. ASSUME NEW q \in Seq(InPacket), q # <<>>
              PROVE  Len(q) \in Nat /\ Len(q) # 0
          BY <4>1
        <4>2. QED
          BY <1>1, <1>5, <3>2, <4>1 DEF Answering, SendsData, Usb
      <3>4. Backlog' <= host'.got
        BY <1>3, <2>2, <3>1, <3>2, <3>3
      <3>5. host'.stage \in {"data", "status"} /\ ~ SetupDue' /\ ~ Between'
        <4>1. host'.stage \in {"data", "status"}
          BY <1>1, <1>5, <2>5, EndedFields DEF HostIn, SendsData, Host
        <4>2. QED
          BY <1>1, <1>2, <2>1, <4>1 DEF SetupDue, Queued, Between
      <3>6. QED
        BY <1>1, <3>1, <3>2, <3>4, <3>5 DEF Roomy, DeviceToHost
    <2>6. QED
      BY <2>4, <2>5
  <1>6. QED
    BY <1>1, <1>4, <1>5

LEMMA HostOutKeepsRoomy ==
  ASSUME IInv, Protocol, Roomy, HostOut
  PROVE  Roomy'
  <1>1. /\ ~ Between /\ usb \in Usb /\ host \in Host
        /\ UNCHANGED <<event_queue, hung>> /\ ~ hung
    BY PortTypes DEF HostOut, HostSends, Between, Roomy
  <1>2. Proceeding /\ ~ usb.out_stall
    BY <1>1 DEF Protocol, Proceeding, Calm
  <1>3. AcceptsOut(usb)
    BY <1>2 DEF HostOut
  <1>4. ~ SetupDue /\ Serving
    <2>1. ~ Settling
      BY <1>3 DEF Settling, NothingOffered, AcceptsOut
    <2>2. QED
      BY <1>1, <1>2, <2>1 DEF Proceeding
  <1>5. usb'.pending = usb.pending \union {"EpOut"}
    BY <1>1, <1>2 DEF HostOut, AcceptOut, Usb
  <1>6. /\ host.got \in 0 .. MaxLength /\ MaxLength \in Nat
        /\ Backlog \in Nat /\ Backlog' \in Nat /\ Backlog' <= Backlog + 1
        /\ Backlog <= IF DeviceToHost(host.setup) THEN host.got ELSE 1
    BY <1>1, <1>4, <1>5, BacklogType, OneMore, EndpointAssumption
       DEF Roomy, Host
  <1>7. Answering \/ Receiving
    BY <1>3, <1>4
       DEF Serving, Handed, Refused, Acknowledging, NothingOffered, AcceptsOut
  <1>8. CASE Answering
    <2>1. host.stage = "status" /\ DeviceToHost(host.setup)
      BY <1>3, <1>8 DEF Answering, HostOut, HostSends, AcceptsOut
    <2>2. host' = Ended("done")
      BY <1>2, <2>1 DEF HostOut
    <2>3. Backlog' <= MaxLength + 1
      BY <1>6, <2>1
    <2>4. QED
      BY <1>1, <1>4, <1>5, <2>2, <2>3, EndsRoomy
  <1>9. CASE Receiving
    <2>1. /\ NothingDue /\ host.stage = "data" /\ ~ DeviceToHost(host.setup)
      BY <1>3, <1>9 DEF Receiving, AcceptsOut, DeviceToHost
    <2>2. Backlog' <= 1
      <3>1. Backlog = 0
        BY <2>1, BacklogType
      <3>2. QED
        BY <1>6, <3>1
    <2>3. host'.stage \in {"data", "status"} /\ host'.setup = host.setup
      BY <1>1, <1>2, <2>1 DEF HostOut, Host
    <2>4. ~ Between' /\ ~ SetupDue'
      BY <1>1, <1>4, <1>5, <2>3 DEF Between, SetupDue, Queued
    <2>5. QED
      BY <1>1, <2>1, <2>2, <2>3, <2>4 DEF Roomy, DeviceToHost
  <1>10. QED
    BY <1>7, <1>8, <1>9

LEMMA NoReset ==
  ASSUME PoliteHost, IInv
  PROVE  ~ HostBusReset
  <1>1. resets \in 0 .. MaxResets /\ MaxResets = 0
    BY DEF IInv, TypeOK, PoliteHost
  <1>2. QED
    BY <1>1 DEF HostBusReset

LEMMA InitRoomy == Init => Roomy
  <1>1. SUFFICES ASSUME Init PROVE Roomy
    OBVIOUS
  <1>2. NothingDue /\ ~ hung /\ Between
    BY <1>1 DEF Init, ControlInit, Connected, NothingDue, Between
  <1>3. ~ SetupDue /\ Backlog = 0
    BY <1>1, <1>2, InitIInv, BacklogType DEF SetupDue, Queued, NothingDue
  <1>4. QED
    BY <1>2, <1>3, EndpointAssumption DEF Roomy

LEMMA NextKeepsRoomy ==
  ASSUME PoliteHost, EventQueueSize >= MaxLength + 2,
         IInv, Protocol, Roomy, [Next]_vars
  PROVE  Roomy'
  <1>1. CASE MachineExternal
    BY <1>1, HandlerKeepsRoomy
  <1>2. CASE MainLoop
    BY <1>2, MainLoopKeepsRoomy
  <1>3. CASE WriteStep \/ HandleVendorRequest
    <2>1. /\ UNCHANGED <<event_queue, hung, host>>
          /\ usb \in Usb
      BY <1>3, PortTypes DEF WriteStep, HandleVendorRequest
    <2>2. usb'.pending = usb.pending
      BY <1>3, <2>1
         DEF WriteStep, Fill, Sent, DrainTimeout, WaitTimeout,
             HandleVendorRequest, ClaimInterface, DispatchLibgreatRequest,
             DispatchLibgreatResponse, DispatchLibgreatAbort, StallUnknown,
             WriteZlp, WriteWithPacketSize, EpOutPrimeReceive,
             StallEndpointIn, StallEndpointOut, Usb
    <2>3. QED
      BY <2>1, <2>2, SameBacklog
  <1>4. CASE HostSetup
    BY <1>4, HostSetupKeepsRoomy
  <1>5. CASE HostIn
    BY <1>5, HostInKeepsRoomy
  <1>6. CASE HostOut
    BY <1>6, HostOutKeepsRoomy
  <1>7. ~ HostTimeout
    BY NoTimeout DEF Roomy
  <1>8. ~ HostBusReset
    BY NoReset
  <1>9. CASE UNCHANGED vars
    BY <1>9, SameBacklog DEF vars, controlVars
  <1>10. QED
    BY <1>1, <1>2, <1>3, <1>4, <1>5, <1>6, <1>7, <1>8, <1>9, Zenon
       DEF Next, Firmware, Tokens

LEMMA RoomyKept ==
  ASSUME PoliteHost, EventQueueSize >= MaxLength + 2
  PROVE  Spec => [](IInv /\ Protocol /\ Roomy)
  <1>1. Init => IInv /\ Protocol /\ Roomy
    BY InitIInv, InitProtocol, InitRoomy
  <1>2. IInv /\ Protocol /\ Roomy /\ [Next]_vars => (IInv /\ Protocol /\ Roomy)'
    BY NextKeepsIInv, NextKeepsProtocol, NextKeepsRoomy
  <1>3. QED
    BY <1>1, <1>2, PTL DEF Spec

(* The event queue never overflows, which would stop the core for good, if *)
(* it holds the packets of the longest answer and two events more          *)
(* (dispatch_event of bin/moondancer.rs, EVENT_QUEUE_SIZE).                *)
THEOREM QueueSuffices ==
  PoliteHost /\ EventQueueSize >= MaxLength + 2 => (Spec => []~ hung)
  <1>1. SUFFICES ASSUME PoliteHost, EventQueueSize >= MaxLength + 2
                 PROVE  Spec => []~ hung
    OBVIOUS
  <1>2. Spec => [](IInv /\ Protocol /\ Roomy)
    BY <1>1, RoomyKept
  <1>3. IInv /\ Protocol /\ Roomy => ~ hung
    BY DEF Roomy
  <1>4. QED
    BY <1>2, <1>3, PTL
-----------------------------------------------------------------------------
(* The promise to a client of libgreat, for a PoliteHost.                  *)

SentCommand ==
  IF OnItsWay = {} THEN None ELSE DataOf(CHOOSE s \in OnItsWay : TRUE)

Outcome ==
  IF libgreat_response # None
  THEN [command |-> libgreat_response, accepted |-> TRUE]
  ELSE IF libgreat_response_last_error # None
  THEN [command |-> libgreat_response_last_error, accepted |-> FALSE]
  ELSE None

AnswerIn(p, q) ==
  LET offered == {packet \in {p[i] : i \in DOMAIN p} \union {q[i] : i \in DOMAIN q} :
                    packet.of # <<>>}
  IN  IF offered = {} THEN None ELSE (CHOOSE packet \in offered : TRUE).of

Answer == AnswerIn(usb.in, usb.tx.left)

Commands ==
  {DataOf(setup) : setup \in [id : Transfers, length : 1 .. MaxLength]}

(* rx_buffer holds the data of a command, all of it.                       *)
Holds(setup) ==
  setup.request = "Execute" /\ setup.length > 0 /\ rx_buffer = DataOf(setup)

(* The data of a command stays in rx_buffer, in order, from its first      *)
(* packet until the command has been executed.                             *)
Kept ==
  /\ next.state = "ReceiveHostData" =>
       /\ \A i \in DOMAIN rx_buffer : rx_buffer[i] = DataOf(host.setup)[i]
       /\ Len(rx_buffer) + 1 = host.sent =>
            usb.out = << DataOf(host.setup)[host.sent] >>
  /\ next.state = "FinishHostData" => Holds(next.setup)
  /\ returned # NoSetup /\ returned.request = "Execute" => Holds(returned)
  /\ host.stage = "status" /\ host.setup.request = "Execute" =>
       /\ next.state \in {"ReceiveHostData", "FinishHostData"}
       /\ next.setup = host.setup

(* What is left of an answer is of one command, or of none.                *)
OfOne(packets) ==
  \A i, j \in DOMAIN packets : packets[i].of = packets[j].of

Uniform == OfOne(Unread)

(* A client that follows the sequence cancels when there is nothing left   *)
(* to cancel: what is refused is a response that was not there.            *)
Following ==
  /\ ~ Between => Follows(host.setup.request)
  /\ HostPolls /\ usb.in_stall /\ host.setup.request = "Response" =>
       libgreat_response = None
  /\ Sequenced /\ host.client = "refused" =>
       libgreat_response = None /\ OnItsWay = {}

Commanding ==
  /\ Kept /\ Uniform /\ Following
  /\ libgreat_response \in Commands \union {None}

LEMMA AnswerFound ==
  ASSUME NEW p \in Seq(InPacket), NEW q \in Seq(InPacket),
         OfOne(p \o q)
  PROVE  AnswerIn(p, q) = IF p \o q = <<>> \/ (p \o q)[1].of = <<>>
                          THEN None ELSE (p \o q)[1].of
  <1> DEFINE all == p \o q
             packets == {p[i] : i \in DOMAIN p} \union {q[i] : i \in DOMAIN q}
             offered == {packet \in packets : packet.of # <<>>}
  <1>1. /\ all \in Seq(InPacket) /\ Len(all) = Len(p) + Len(q)
        /\ Len(p) \in Nat /\ Len(q) \in Nat
        /\ DOMAIN p = 1 .. Len(p) /\ DOMAIN q = 1 .. Len(q)
        /\ DOMAIN all = 1 .. Len(p) + Len(q)
        /\ \A i \in 1 .. Len(p) : all[i] = p[i]
        /\ \A i \in 1 .. Len(q) : all[Len(p) + i] = q[i]
    <2>1. /\ all \in Seq(InPacket) /\ Len(all) = Len(p) + Len(q)
          /\ Len(p) \in Nat /\ Len(q) \in Nat
          /\ DOMAIN p = 1 .. Len(p) /\ DOMAIN q = 1 .. Len(q)
      OBVIOUS
    <2>2. \A i \in 1 .. Len(p) + Len(q) :
            all[i] = IF i <= Len(p) THEN p[i] ELSE q[i - Len(p)]
      OBVIOUS
    <2>3. \A i \in 1 .. Len(q) : /\ Len(p) + i \in 1 .. Len(p) + Len(q)
                                 /\ ~ (Len(p) + i <= Len(p))
                                 /\ Len(p) + i - Len(p) = i
      BY <2>1
    <2> HIDE DEF all
    <2>4. DOMAIN all = 1 .. Len(p) + Len(q)
      BY <2>1
    <2>5. \A i \in 1 .. Len(p) : all[i] = p[i]
      BY <2>1, <2>2
    <2>6. ASSUME NEW i \in 1 .. Len(q)
          PROVE  all[Len(p) + i] = q[i]
      <3>1. /\ Len(p) + i \in 1 .. Len(p) + Len(q)
            /\ ~ (Len(p) + i <= Len(p)) /\ Len(p) + i - Len(p) = i
        BY <2>3
      <3>2. QED
        BY <2>2, <3>1
    <2>7. QED
      BY <2>1, <2>4, <2>5, <2>6
  <1>2. \A i, j \in DOMAIN all : all[i].of = all[j].of
    BY DEF OfOne
  <1> HIDE DEF all
  <1>3. packets = {all[i] : i \in DOMAIN all}
    <2>1. \A i \in DOMAIN all : i <= Len(p) \/ (i - Len(p) \in 1 .. Len(q)
                                               /\ Len(p) + (i - Len(p)) = i)
      BY <1>1
    <2>2. \A i \in DOMAIN all : all[i] \in packets
      BY <1>1, <2>1
    <2>3. \A i \in 1 .. Len(q) : Len(p) + i \in DOMAIN all
      BY <1>1
    <2>4. \A i \in 1 .. Len(p) : i \in DOMAIN all
      BY <1>1
    <2>5. packets \subseteq {all[i] : i \in DOMAIN all}
      <3>1. ASSUME NEW i \in DOMAIN p PROVE \E j \in DOMAIN all : p[i] = all[j]
        BY <1>1, <2>4
      <3>2. ASSUME NEW i \in DOMAIN q PROVE \E j \in DOMAIN all : q[i] = all[j]
        BY <1>1, <2>3
      <3> HIDE DEF all
      <3>3. QED
        BY <3>1, <3>2
    <2>6. {all[i] : i \in DOMAIN all} \subseteq packets
      <3> HIDE DEF packets
      <3>1. QED
        BY <2>2
    <2>7. QED
      BY <2>5, <2>6
  <1>4. all = <<>> <=> 1 \notin DOMAIN all
    BY <1>1
  <1>5. \A packet \in packets : packet.of = all[1].of
    <2>1. \A i \in DOMAIN all : 1 \in DOMAIN all
      BY <1>1
    <2> HIDE DEF packets
    <2>2. QED
      BY <1>2, <1>3, <2>1
  <1> HIDE DEF packets
  <1>6. CASE all = <<>> \/ all[1].of = <<>>
    <2>1. offered = {}
      BY <1>3, <1>4, <1>5, <1>6
    <2>2. QED
      BY <1>6, <2>1 DEF AnswerIn, all, packets
  <1>7. CASE ~ (all = <<>> \/ all[1].of = <<>>)
    <2>1. all[1] \in packets /\ all[1].of # <<>>
      BY <1>3, <1>4, <1>7
    <2>2. offered # {} /\ \A packet \in offered : packet.of = all[1].of
      BY <1>5, <2>1
    <2> HIDE DEF offered
    <2>3. (CHOOSE packet \in offered : TRUE).of = all[1].of
      BY <2>2
    <2>4. QED
      BY <1>7, <2>2, <2>3 DEF AnswerIn, all, packets, offered
  <1>8. QED
    BY <1>6, <1>7 DEF all

(* The steps of the channel, in these terms.                               *)
LEMMA ChannelSteps ==
         /\ UNCHANGED <<SentCommand, Outcome, Answer>> => UNCHANGED Channel!vars
         /\ /\ SentCommand = None /\ SentCommand' \in Commands
            /\ UNCHANGED <<Outcome, Answer>>
            => Channel!Send
         /\ /\ SentCommand # None /\ SentCommand' = None
            /\ Outcome' = [command |-> SentCommand, accepted |-> TRUE]
            /\ SentCommand \in Commands
            /\ UNCHANGED Answer
            => Channel!Execute
         /\ /\ SentCommand = None /\ Answer = None
            /\ libgreat_response # None /\ libgreat_response \in Commands
            /\ Answer' = libgreat_response /\ Outcome' = None
            /\ UNCHANGED SentCommand
            => Channel!Respond
         /\ /\ SentCommand = None /\ Answer = None /\ ~ Sequenced
            /\ ~ (Outcome \in Channel!Outcomes /\ ~ Outcome.accepted)
            /\ Answer' = None /\ Outcome' = None
            /\ UNCHANGED SentCommand
            => Channel!Cancel
         /\ /\ Answer # None /\ Answer' = None
            /\ UNCHANGED <<SentCommand, Outcome>>
            => Channel!Read
  <1>1. UNCHANGED <<SentCommand, Outcome, Answer>> => UNCHANGED Channel!vars
    BY DEF Channel!vars, SentCommand, Outcome, Answer, AnswerIn, Offered
  <1>2. /\ SentCommand = None /\ SentCommand' \in Commands
        /\ UNCHANGED <<Outcome, Answer>>
        => Channel!Send
    BY Zenon DEF Channel!Send, SentCommand, Outcome, Answer, AnswerIn, Offered, Commands
  <1>3. /\ SentCommand # None /\ SentCommand' = None
        /\ Outcome' = [command |-> SentCommand, accepted |-> TRUE]
        /\ SentCommand \in Commands
        /\ UNCHANGED Answer
        => Channel!Execute
    <2>1. SUFFICES ASSUME SentCommand # None, SentCommand' = None,
                          Outcome' = [command |-> SentCommand, accepted |-> TRUE],
                          SentCommand \in Commands, UNCHANGED Answer
                   PROVE  Channel!Execute
      OBVIOUS
    <2>2. /\ Outcome' \in Channel!Outcomes /\ Outcome'.command = SentCommand
      <3>1. Channel!Outcomes = [command : Commands, accepted : BOOLEAN]
        BY Zenon DEF Channel!Outcomes, Commands
      <3>2. QED
        BY <2>1, <3>1
    <2>3. QED
      BY <2>1, <2>2, Zenon
         DEF Channel!Execute, SentCommand, Outcome, Answer, AnswerIn, Offered
  <1>4. /\ SentCommand = None /\ Answer = None
        /\ libgreat_response # None /\ libgreat_response \in Commands
        /\ Answer' = libgreat_response /\ Outcome' = None
        /\ UNCHANGED SentCommand
        => Channel!Respond
    BY DEF Channel!Respond, Channel!Outcomes, SentCommand, Outcome, Answer,
           AnswerIn, Offered, Commands
  <1>5. /\ SentCommand = None /\ Answer = None /\ ~ Sequenced
        /\ ~ (Outcome \in Channel!Outcomes /\ ~ Outcome.accepted)
        /\ Answer' = None /\ Outcome' = None
        /\ UNCHANGED SentCommand
        => Channel!Cancel
    BY DEF Channel!Cancel, SentCommand, Outcome, Answer, AnswerIn, Offered
  <1>6. /\ Answer # None /\ Answer' = None
        /\ UNCHANGED <<SentCommand, Outcome>>
        => Channel!Read
    BY DEF Channel!Read, SentCommand, Outcome, Answer, AnswerIn, Offered
  <1>7. QED
    BY <1>1, <1>2, <1>3, <1>4, <1>5, <1>6, Zenon
-----------------------------------------------------------------------------
(* A step of the port that is one of the channel, or none.                 *)
Promised == Commanding' /\ (Channel!Next \/ UNCHANGED Channel!vars)

(* What is on its way: sent, acknowledged, or with the caller of Control.  *)
LEMMA WayOfCommand ==
  /\ \A s : s \in OnItsWay <=>
       /\ s # NoSetup /\ s.request = "Execute"
       /\ \/ host.stage = "status" /\ s = host.setup
          \/ next.state = "FinishHostData" /\ s = next.setup
          \/ s = returned
  /\ \A s : s \in OnItsWay' <=>
       /\ s # NoSetup /\ s.request = "Execute"
       /\ \/ host'.stage = "status" /\ s = host'.setup
          \/ next'.state = "FinishHostData" /\ s = next'.setup
          \/ s = returned'
  BY DEF OnItsWay

LEMMA SameCommand ==
  ASSUME OnItsWay' = OnItsWay
  PROVE  SentCommand' = SentCommand
  BY DEF SentCommand

LEMMA NoCommand ==
  /\ OnItsWay = {} => SentCommand = None
  /\ OnItsWay' = {} => SentCommand' = None
  BY DEF SentCommand

LEMMA OneCommand ==
  ASSUME NEW setup
  PROVE  /\ OnItsWay = {setup} => SentCommand = DataOf(setup)
         /\ OnItsWay' = {setup} => SentCommand' = DataOf(setup)
  BY DEF SentCommand

LEMMA SameOutcome ==
  ASSUME UNCHANGED libgreatVars
  PROVE  Outcome' = Outcome
  BY DEF Outcome, libgreatVars

(* A step that the channel does not see.                                   *)
LEMMA Unseen ==
  ASSUME OnItsWay' = OnItsWay, Outcome' = Outcome, Answer' = Answer
  PROVE  UNCHANGED Channel!vars
  <1>1. UNCHANGED <<SentCommand, Outcome, Answer>>
    BY SameCommand
  <1>2. QED
    BY <1>1, ChannelSteps

LEMMA IsCommand ==
  ASSUME NEW setup \in SetupPacket, setup.length > 0
  PROVE  /\ DataOf(setup) \in Commands /\ DataOf(setup) \in Seq(OutPacket)
         /\ DataOf(setup) # None /\ DataOf(setup) # <<>>
         /\ Len(DataOf(setup)) = setup.length
         /\ DOMAIN DataOf(setup) = 1 .. setup.length
  <1>1. setup.length \in 1 .. MaxLength /\ setup.id \in Transfers
    BY EndpointAssumption DEF SetupPacket
  <1>2. DataOf(setup) \in Commands
    <2> DEFINE s == [id |-> setup.id, length |-> setup.length]
    <2>1. s \in [id : Transfers, length : 1 .. MaxLength]
      BY <1>1
    <2>2. DataOf(s) = DataOf(setup)
      BY DEF DataOf
    <2> HIDE DEF s
    <2>3. QED
      BY <2>1, <2>2 DEF Commands
  <1>3. DataOf(setup) \in Seq(OutPacket)
    BY DataIsPackets
  <1>4. DOMAIN DataOf(setup) = 1 .. setup.length
    BY DEF DataOf
  <1>5. Len(DataOf(setup)) = setup.length
    <2>1. ASSUME NEW q \in Seq(OutPacket), NEW n \in Nat, DOMAIN q = 1 .. n
          PROVE  Len(q) = n
      <3>1. Len(q) \in Nat /\ DOMAIN q = 1 .. Len(q)
        OBVIOUS
      <3>2. \A m, k \in Nat : 1 .. m = 1 .. k => m = k
        <4>1. SUFFICES ASSUME NEW m \in Nat, NEW k \in Nat, 1 .. m = 1 .. k
                       PROVE  m = k
          OBVIOUS
        <4>2. (m # 0 => m \in 1 .. k) /\ (k # 0 => k \in 1 .. m)
          BY <4>1
        <4>3. QED
          BY <4>2
      <3>3. QED
        BY <2>1, <3>1, <3>2
    <2>2. setup.length \in Nat
      BY <1>1
    <2>3. QED
      BY <1>3, <1>4, <2>1, <2>2
  <1>6. DataOf(setup) # <<>>
    <2>1. Len(<<>>) = 0
      OBVIOUS
    <2>2. Len(DataOf(setup)) # 0
      BY <1>1, <1>5
    <2>3. QED
      BY <2>1, <2>2
  <1>7. QED
    BY <1>2, <1>3, <1>4, <1>5, <1>6, NoneIsNoCommand

LEMMA CommandIsNot ==
  ASSUME NEW command \in Commands
  PROVE  /\ command \in Seq(OutPacket) /\ command # None /\ command # <<>>
  <1>1. PICK s \in [id : Transfers, length : 1 .. MaxLength] : command = DataOf(s)
    BY DEF Commands
  <1>2. /\ command \in Seq(OutPacket) /\ 1 \in DOMAIN command
    <2>1. s.length \in 1 .. MaxLength /\ s.id \in Transfers
      BY <1>1
    <2>2. \A i \in 1 .. s.length : [id |-> s.id, i |-> i] \in OutPacket
      BY <2>1, EndpointAssumption DEF OutPacket
    <2>3. QED
      BY <1>1, <2>1, <2>2, EndpointAssumption DEF DataOf
  <1>3. QED
    BY <1>2, NoneIsNoCommand

(* Packets that answer no command.                                         *)
LEMMA NoAnswer ==
  ASSUME NEW p \in Seq(InPacket), NEW q \in Seq(InPacket),
         \A i \in DOMAIN p : p[i].of = <<>>,
         \A i \in DOMAIN q : q[i].of = <<>>
  PROVE  /\ AnswerIn(p, q) = None
         /\ OfOne(p \o q)
  <1>1. AnswerIn(p, q) = None
    <2> DEFINE offered == {packet \in {p[i] : i \in DOMAIN p} \union {q[i] : i \in DOMAIN q} :
                            packet.of # <<>>}
    <2>1. offered = {}
      OBVIOUS
    <2>2. QED
      BY <2>1 DEF AnswerIn
  <1>2. \A i \in DOMAIN (p \o q) : (p \o q)[i].of = <<>>
    <2>1. /\ Len(p) \in Nat /\ Len(q) \in Nat
          /\ DOMAIN p = 1 .. Len(p) /\ DOMAIN q = 1 .. Len(q)
          /\ p \o q \in Seq(InPacket) /\ Len(p \o q) = Len(p) + Len(q)
      OBVIOUS
    <2>2. \A i \in 1 .. Len(p) + Len(q) :
            (p \o q)[i] = IF i <= Len(p) THEN p[i] ELSE q[i - Len(p)]
      OBVIOUS
    <2>3. DOMAIN (p \o q) = 1 .. Len(p) + Len(q)
      BY <2>1
    <2> DEFINE all == p \o q
    <2> HIDE DEF all
    <2>4. /\ DOMAIN all = 1 .. Len(p) + Len(q)
          /\ \A i \in 1 .. Len(p) + Len(q) :
               all[i] = IF i <= Len(p) THEN p[i] ELSE q[i - Len(p)]
      BY <2>2, <2>3 DEF all
    <2>5. ASSUME NEW i \in DOMAIN all
          PROVE  all[i].of = <<>>
      <3>1. CASE i <= Len(p)
        <4>1. i \in DOMAIN p /\ all[i] = p[i]
          BY <2>1, <2>4, <3>1
        <4>2. QED
          BY <4>1
      <3>2. CASE ~ (i <= Len(p))
        <4>1. i - Len(p) \in DOMAIN q /\ all[i] = q[i - Len(p)]
          BY <2>1, <2>4, <3>2
        <4>2. QED
          BY <4>1
      <3>3. QED
        BY <3>1, <3>2
    <2>6. QED
      BY <2>5 DEF all
  <1>3. OfOne(p \o q)
    BY <1>2 DEF OfOne
  <1>4. QED
    BY <1>1, <1>3

(* All packets of an answer say what they answer.                          *)
LEMMA AnswersOf ==
  ASSUME NEW id \in Transfers, NEW of \in Seq(OutPacket),
         NEW length \in Nat, NEW n \in 0 .. length,
         NEW packets \in Answers(id, of, n, length)
  PROVE  \A i \in DOMAIN packets : packets[i].of = of
  <1> DEFINE packet(size) == [id |-> id, of |-> of, size |-> size]
  <1> DEFINE full == [i \in 1 .. n |-> packet("full")]
  <1>1. /\ packet("full") \in InPacket /\ packet("short") \in InPacket
        /\ packet("zlp") \in InPacket
        /\ packet("full").of = of /\ packet("short").of = of
        /\ packet("zlp").of = of
    BY DEF InPacket
  <1>2. /\ full \in Seq(InPacket) /\ Len(full) = n /\ DOMAIN full = 1 .. n
        /\ \A i \in 1 .. n : full[i] = packet("full")
    BY <1>1
  <1>3. packets \in (IF n = length /\ n > 0
                     THEN {full}
                     ELSE {Append(full, packet("short")),
                           Append(full, packet("zlp"))})
    BY Zenon DEF Answers
  <1> HIDE DEF full, packet
  <1>4. CASE packets = full
    BY <1>1, <1>2, <1>4
  <1>5. CASE packets # full
    <2>1. PICK last \in InPacket : packets = Append(full, last) /\ last.of = of
      BY <1>1, <1>3, <1>5
    <2>2. /\ DOMAIN packets = 1 .. n + 1
          /\ packets[n + 1] = last
          /\ \A i \in 1 .. n : packets[i] = full[i]
      BY <1>2, <2>1
    <2>3. QED
      BY <1>1, <1>2, <2>1, <2>2
  <1>6. QED
    BY <1>4, <1>5
-----------------------------------------------------------------------------
(* A step that neither host nor Control takes part in.                     *)
LEMMA Overlooked ==
  ASSUME Commanding,
         UNCHANGED <<host, next, returned, rx_buffer, libgreatVars>>,
         usb'.out = usb.out, usb'.in_stall = usb.in_stall,
         Uniform', Answer' = Answer
  PROVE  Promised
  <1>1. OnItsWay' = OnItsWay
    BY DEF OnItsWay
  <1>2. Kept'
    BY DEF Commanding, Kept, Holds, DataOf
  <1>3. Following'
    BY <1>1
       DEF Commanding, Following, Follows, Between, HostPolls, DeviceToHost,
           libgreatVars
  <1>4. libgreat_response' \in Commands \union {None}
    BY DEF Commanding, libgreatVars
  <1>5. UNCHANGED Channel!vars
    BY <1>1, SameOutcome, Unseen
  <1>6. QED
    BY <1>2, <1>3, <1>4, <1>5 DEF Promised, Commanding

LEMMA HandlerPromised ==
  ASSUME IInv, Protocol, Roomy, Commanding, MachineExternal
  PROVE  Promised
  <1>1. Calm
    BY DEF Protocol, Proceeding, Roomy
  <1>2. /\ usb'.in = usb.in /\ usb'.out = usb.out /\ usb'.tx = usb.tx
        /\ usb'.in_stall = usb.in_stall
    BY <1>1, HandlesOne
  <1>3. UNCHANGED <<host, next, returned, rx_buffer, libgreatVars>>
    BY Zenon DEF MachineExternal, firmwareVars
  <1>4. Uniform' /\ Answer' = Answer
    BY <1>2 DEF Commanding, Uniform, Unread, Answer
  <1>5. QED
    BY <1>2, <1>3, <1>4, Overlooked

(* The packets of an answer only move into the FIFO.                       *)
LEMMA WritePromised ==
  ASSUME IInv, Protocol, Roomy, Commanding, WriteStep
  PROVE  Promised
  <1>1. /\ usb.pending = {} /\ usb \in Usb /\ usb.tx \in Write
        /\ usb.in \in Seq(InPacket) /\ usb.tx.left \in Seq(InPacket)
        /\ usb.tx.at \in {"drain", "fill", "wait"}
    BY PortTypes DEF WriteStep, MainRuns, DrainDone, Usb, Write
  <1>2. Proceeding
    BY DEF Protocol, Roomy
  <1>3. UNCHANGED <<host, next, returned, rx_buffer, libgreatVars>>
    BY Zenon DEF WriteStep, firmwareVars
  <1>4. usb'.out = usb.out /\ usb'.in_stall = usb.in_stall
    BY <1>1 DEF WriteStep, Fill, Sent, DrainTimeout, WaitTimeout, Usb
  <1>5. usb' \in Usb
    BY WriteStepKeepsIInv DEF IInv, TypeOK, ControlTypeOK
  <1>6. usb'.in \in Seq(InPacket) /\ usb'.tx.left \in Seq(InPacket)
    BY <1>5 DEF Usb, Write
  <1>7. Unread' = Unread
    <2>1. CASE usb' = [usb EXCEPT !.tx.at = "fill"]
      <3>1. usb'.in = usb.in /\ usb'.tx.left = usb.tx.left
        BY <1>1, <2>1 DEF Usb, Write
      <3>2. QED
        BY <3>1 DEF Unread
    <2>2. CASE usb' = Sent(usb) /\ usb.tx.at = "wait" /\ ~ usb.tx_ack
      <3>1. usb'.in = usb.in /\ usb'.tx.left = usb.tx.left
        BY <1>1, <2>2 DEF Sent, NoWrite, Usb, Write
      <3>2. QED
        BY <3>1 DEF Unread
    <2>3. CASE usb' = Fill(usb) /\ usb.tx.at = "fill"
      <3>1. usb.in = <<>> /\ usb.tx.left # <<>>
            /\ \/ usb.tx.left = << Zlp(host.id) >>
               \/ Answering
        <4>1. ~ Settling
          BY <2>3 DEF Settling
        <4>2. Answering \/ Acknowledging
          BY <1>1, <1>2, <2>3, <4>1
             DEF Proceeding, Serving, Handed, Refused, Receiving, NoWrite
        <4>3. QED
          BY <1>1, <2>3, <4>2
             DEF Answering, Acknowledging, NothingPrimed, NoWrite, Write
      <3> DEFINE packet == Head(usb.tx.left)
      <3>2. /\ usb'.in = <<packet>>
            /\ usb'.tx.left = IF packet.size = "full"
                              THEN Tail(usb.tx.left) ELSE <<>>
        <4>1. Append(usb.in, packet) = <<packet>>
          BY <3>1
        <4>2. QED
          BY <1>1, <2>3, <4>1 DEF Fill, NoWrite, Usb
      <3>3. /\ Unread = usb.tx.left /\ usb.tx.left[1] = packet
            /\ Len(usb.tx.left) \in Nat \ {0}
            /\ Len(usb.tx.left) = 1 => Tail(usb.tx.left) = <<>>
            /\ <<packet>> \o Tail(usb.tx.left) = usb.tx.left
        BY <1>1, <3>1, HeadAndTail DEF Unread
      <3>4. packet.size # "full" => Len(usb.tx.left) = 1
        <4>1. CASE usb.tx.left = << Zlp(host.id) >>
          BY <4>1
        <4>2. CASE Answering
          <5>1. AnswerLeft /\ 1 \in DOMAIN Unread
            BY <3>3, <4>2, <1>1 DEF Answering
          <5>2. QED
            BY <3>3, <5>1 DEF AnswerLeft
        <4>3. QED
          BY <3>1, <4>1, <4>2
      <3>5. usb'.tx.left = Tail(usb.tx.left)
        BY <3>2, <3>3, <3>4
      <3> HIDE DEF packet
      <3>6. QED
        BY <3>2, <3>3, <3>5 DEF Unread
    <2>4. ~ (usb.tx.at = "drain" /\ Have(usb))
      BY <1>2
         DEF Proceeding, Serving, Settling, Handed, Refused, Answering,
             Receiving, Acknowledging, NothingPrimed, NoWrite, Have
    <2>5. ~ (usb.tx.at = "wait" /\ usb.tx_ack /\ NotTaken)
      <3>1. SUFFICES ASSUME usb.tx.at = "wait", usb.tx_ack
                     PROVE  ~ NotTaken
        OBVIOUS
      <3>2. Answering
        BY <1>1, <1>2, <3>1
           DEF Proceeding, Serving, Settling, Handed, Refused, Receiving,
               Acknowledging, NoWrite
      <3>3. usb.in_ready /\ usb.in # <<>> /\ ~ usb.in_stall
        BY <1>1, <3>1, <3>2 DEF Answering
      <3>4. Unread # <<>>
        BY <1>1, <3>3 DEF Unread
      <3>5. HostPolls
        BY <3>2, <3>4 DEF Answering, HostPolls
      <3>6. QED
        BY <3>3, <3>5 DEF NotTaken, SendsData
    <2>6. QED
      BY <2>1, <2>2, <2>3, <2>4, <2>5, Zenon DEF WriteStep, DrainDone
  <1>8. Uniform'
    BY <1>7 DEF Commanding, Uniform
  <1>9. Answer' = Answer
    <2>1. AnswerIn(usb.in, usb.tx.left) =
            IF Unread = <<>> \/ Unread[1].of = <<>>
            THEN None ELSE Unread[1].of
      BY <1>1, AnswerFound DEF Commanding, Uniform, Unread
    <2>2. AnswerIn(usb'.in, usb'.tx.left) =
            IF Unread' = <<>> \/ Unread'[1].of = <<>>
            THEN None ELSE Unread'[1].of
      <3>1. OfOne(usb'.in \o usb'.tx.left)
        BY <1>8 DEF Uniform, Unread, OfOne
      <3>2. QED
        BY <1>6, <3>1, AnswerFound DEF Unread
    <2>3. AnswerIn(usb'.in, usb'.tx.left) = AnswerIn(usb.in, usb.tx.left)
      BY <1>7, <2>1, <2>2
    <2>4. QED
      BY <2>3 DEF Answer, AnswerIn
  <1>10. QED
    BY <1>3, <1>4, <1>8, <1>9, Overlooked
-----------------------------------------------------------------------------
(* A command whose SETUP packet has yet to be dispatched is not sent.      *)
LEMMA NotSentYet ==
  ASSUME IInv, Proceeding, Between \/ SetupDue
  PROVE  ~ (host.stage = "status" /\ host.setup.request = "Execute")
  <1>1. CASE Between
    BY <1>1 DEF Between
  <1>2. CASE SetupDue
    <2>1. ~ Between /\ host.stage = FirstStage(host.setup)
      BY <1>2 DEF Proceeding, SetupLast
    <2>2. host.setup.request = "Execute" => host.setup.length # 0
      BY <2>1 DEF Proceeding, Calm, Servable
    <2>3. QED
      BY <2>1, <2>2 DEF FirstStage
  <1>3. QED
    BY <1>1, <1>2

(* A step in which the device neither has nor gets a command, nor any part *)
(* of an answer to one.                                                    *)
LEMMA Uneventful ==
  ASSUME Commanding, IInv', UNCHANGED <<host, libgreatVars>>,
         OnItsWay = {}, Answer = None,
         ~ (host.stage = "status" /\ host.setup.request = "Execute"),
         next'.state # "FinishHostData",
         next'.state = "ReceiveHostData" =>
           rx_buffer' = <<>> /\ host.sent = 0,
         returned' = NoSetup \/ returned'.request # "Execute",
         \A i \in DOMAIN usb'.in : usb'.in[i].of = <<>>,
         \A i \in DOMAIN usb'.tx.left : usb'.tx.left[i].of = <<>>,
         HostPolls /\ usb'.in_stall /\ host.setup.request = "Response" =>
           libgreat_response = None
  PROVE  Promised
  <1>1. OnItsWay' = {}
    BY WayOfCommand
  <1>2. usb'.in \in Seq(InPacket) /\ usb'.tx.left \in Seq(InPacket)
    BY DEF IInv, TypeOK, ControlTypeOK, Usb, Write
  <1>3. Answer' = None /\ Uniform'
    <2>1. /\ AnswerIn(usb'.in, usb'.tx.left) = None
          /\ OfOne(usb'.in \o usb'.tx.left)
      BY <1>2, NoAnswer, Zenon
    <2>2. QED
      BY <2>1 DEF Answer, AnswerIn, Uniform, OfOne, Unread
  <1>4. Kept'
    <2>1. DOMAIN <<>> = {} /\ Len(<<>>) = 0
      OBVIOUS
    <2>2. QED
      BY <2>1 DEF Kept
  <1>5. Following'
    BY <1>1
       DEF Commanding, Following, Follows, Between, HostPolls, DeviceToHost,
           libgreatVars
  <1>6. libgreat_response' \in Commands \union {None}
    BY DEF Commanding, libgreatVars
  <1>7. UNCHANGED Channel!vars
    BY <1>1, <1>3, SameOutcome, Unseen
  <1>8. QED
    BY <1>3, <1>4, <1>5, <1>6, <1>7 DEF Promised, Commanding

LEMMA NothingLeft ==
  ASSUME usb.in = <<>>, usb.tx.left = <<>>
  PROVE  Answer = None /\ Unread = <<>>
  BY DEF Answer, AnswerIn, Unread

(* Control answers standard requests, never with the answer to a command.  *)
LEMMA SetupPromised ==
  ASSUME IInv, Protocol, Roomy, Commanding, MainLoop,
         event_queue[1].type = "ReceiveSetupPacket"
  PROVE  Promised
  <1>1. /\ usb.pending = {} /\ usb \in Usb
        /\ usb.tx \in Write /\ usb.tx.at = "none" /\ returned = NoSetup
        /\ Proceeding /\ Calm
        /\ DispatchEvent(event_queue[1])
    BY Dispatching
  <1>2. /\ ~ Between /\ Settling /\ SetupDue
        /\ AcceptsSetup /\ ~ usb.in_stall
        /\ event_queue[1].setup = host.setup
        /\ host.sent = 0
    BY <1>1, SetupIsAlone DEF MainLoop
  <1>3. /\ usb.tx.left = <<>> /\ usb.in = <<>>
    BY <1>2 DEF Settling, NothingOffered, NothingPrimed
  <1>4. UNCHANGED <<host, libgreatVars>> /\ IInv'
    BY MainLoopKeepsIInv DEF MainLoop
  <1>5. ~ (host.stage = "status" /\ host.setup.request = "Execute")
    BY <1>1, <1>2, NotSentYet
  <1>6. OnItsWay = {}
    BY <1>1, <1>2, <1>5, WayOfCommand DEF AcceptsSetup
  <1>7. OnSetup(host.setup)
    BY <1>1, <1>2
       DEF DispatchEvent, OnUnexpected, Expected, AcceptsSetup
  <1>8. /\ Servable(host.setup) /\ host.setup \in SetupPacket
        /\ host.setup.id \in Transfers /\ host.setup.length \in Nat
        /\ host.setup.value \in 0 .. 2
    BY <1>1, <1>2, PortTypes, EndpointAssumption DEF Calm, SetupPacket
  <1> DEFINE Plain ==
        /\ next'.state # "FinishHostData"
        /\ next'.state = "ReceiveHostData" =>
             rx_buffer' = <<>> /\ host.sent = 0
        /\ returned' = NoSetup \/ returned'.request # "Execute"
        /\ usb'.in = <<>>
        /\ \A i \in DOMAIN usb'.tx.left : usb'.tx.left[i].of = <<>>
        /\ usb'.in_stall => host.setup.request # "Response"
  <1>9. Plain
    <2>1. CASE SetupSend(host.setup)
      <3>1. /\ next'.state = "Send" /\ returned' = NoSetup
        BY <2>1 DEF SetupSend, Goto
      <3>2. PICK of \in Seq(OutPacket), n \in 0 .. host.setup.length :
              /\ of = <<>>
              /\ \E packets \in Answers(host.setup.id, of, n, host.setup.length) :
                   usb' = WriteWithPacketSize(usb, packets)
        <4>1. <<>> \in Seq(OutPacket)
          OBVIOUS
        <4>2. QED
          BY <2>1, <4>1 DEF SetupSend
      <3>3. PICK packets \in Answers(host.setup.id, of, n, host.setup.length) :
              usb' = WriteWithPacketSize(usb, packets)
        BY <3>2
      <3>4. \A i \in DOMAIN packets : packets[i].of = <<>>
        <4>1. \A i \in DOMAIN packets : packets[i].of = of
          BY <1>8, AnswersOf
        <4>2. QED
          BY <3>2, <4>1
      <3>5. /\ usb'.in = usb.in /\ usb'.in_stall = usb.in_stall
            /\ usb'.tx.left = packets
        BY <1>1, <3>3 DEF WriteWithPacketSize, Usb
      <3>6. QED
        BY <1>2, <1>3, <3>1, <3>4, <3>5
    <2>2. CASE \/ SetupSetAddress(host.setup) \/ SetupFeature(host.setup)
               \/ SetupSetConfiguration(host.setup) /\ host.setup.value <= 1
      <3>1. /\ next'.state \in {"SetAddress", "Complete"} /\ returned' = NoSetup
            /\ usb' = WriteZlp(usb, host.setup.id)
        BY <2>2, <1>8
           DEF SetupSetAddress, SetupFeature, SetupSetConfiguration,
               SetupPacket, Goto, GotoWith
      <3>2. /\ usb'.in = usb.in /\ usb'.in_stall = usb.in_stall
            /\ usb'.tx.left = << Zlp(host.setup.id) >>
        BY <1>1, <3>1 DEF WriteZlp, WriteWithPacketSize, Zlp, Usb
      <3>3. \A i \in DOMAIN usb'.tx.left : usb'.tx.left[i].of = <<>>
        BY <3>2 DEF Zlp
      <3>4. QED
        BY <1>2, <1>3, <3>1, <3>2, <3>3
    <2>3. CASE \/ SetupStall(host.setup)
               \/ SetupSetConfiguration(host.setup) /\ host.setup.value > 1
      <3>1. /\ next'.state = "Stall" /\ returned' = NoSetup
            /\ usb' \in {StallEndpointIn(usb), StallEndpointOut(usb)}
            /\ host.setup.request # "Response"
        BY <1>8, <2>3 DEF SetupStall, SetupSetConfiguration, Goto
      <3>2. usb'.in = <<>> /\ usb'.tx = usb.tx
        BY <1>1, <1>3, <3>1 DEF StallEndpointIn, StallEndpointOut, Usb
      <3>3. QED
        BY <1>3, <3>1, <3>2
    <2>4. CASE SetupReceive(host.setup)
      <3>1. /\ rx_buffer' = <<>> /\ returned' = NoSetup
            /\ next'.state = "ReceiveHostData"
            /\ usb' = EpOutPrimeReceive(usb)
        BY <2>4 DEF SetupReceive, GotoWith
      <3>2. usb'.in = usb.in /\ usb'.tx = usb.tx /\ usb'.in_stall = usb.in_stall
        BY <1>1, <3>1 DEF EpOutPrimeReceive, Usb
      <3>3. QED
        BY <1>2, <1>3, <3>1, <3>2
    <2>5. CASE SetupUnsupported(host.setup)
      <3>1. /\ returned' = host.setup /\ next'.state = "Idle"
            /\ UNCHANGED usb /\ host.setup.request # "Execute"
        BY <1>8, <2>5 DEF SetupUnsupported, Servable, DeviceToHost, Goto
      <3>2. QED
        BY <1>2, <1>3, <3>1
    <2>6. ~ SetupUnknownDescriptor(host.setup)
      BY <1>8 DEF SetupUnknownDescriptor, Servable
    <2>7. QED
      <3>1. host.setup.value <= 1 \/ host.setup.value > 1
        BY <1>8
      <3>2. QED
        BY <1>7, <2>1, <2>2, <2>3, <2>4, <2>5, <2>6, <3>1, Zenon DEF OnSetup
  <1>10. QED
    BY <1>3, <1>4, <1>5, <1>6, <1>9, NothingLeft, Uneventful
-----------------------------------------------------------------------------
(* The end of a packet the host has taken: when it was the acknowledgement *)
(* of a command, the command is handed on.                                 *)
LEMMA SentPromised ==
  ASSUME IInv, Protocol, Roomy, Commanding, MainLoop,
         event_queue[1].type = "SendComplete"
  PROVE  Promised
  <1>1. /\ usb.pending = {} /\ usb \in Usb /\ returned = NoSetup
        /\ Proceeding /\ UNCHANGED host
        /\ DispatchEvent(event_queue[1])
        /\ Len(event_queue) \in Nat \ {0}
    BY Dispatching
  <1>2. \/ SendComplete_Send \/ SendComplete_SetAddress
        \/ SendComplete_Complete \/ SendComplete_FinishHostData
        \/ SendComplete_Ignored \/ OnUnexpected("SendComplete")
    BY <1>1 DEF DispatchEvent
  <1>3. UNCHANGED <<rx_buffer, libgreatVars>>
    BY <1>2
       DEF MainLoop, SendComplete_Send, SendComplete_SetAddress,
           SendComplete_Complete, SendComplete_FinishHostData,
           SendComplete_Ignored, OnUnexpected
  <1>4. /\ usb'.in = usb.in /\ usb'.in_stall = usb.in_stall
        /\ usb'.tx = usb.tx
    BY <1>1, <1>2
       DEF SendComplete_Send, SendComplete_SetAddress, SendComplete_Complete,
           SendComplete_FinishHostData, SendComplete_Ignored, OnUnexpected,
           EpOutPrimeReceive, SetAddress, Usb
  <1>5. Settling \/ (Answering /\ ~ Between)
    BY <1>1
       DEF Proceeding, Serving, Handed, Refused, Receiving, Acknowledging,
           NothingDue, MainLoop
  <1>6. next.state # "ReceiveHostData"
        /\ ~ (host.stage = "status" /\ host.setup.request = "Execute")
    <2>1. CASE Answering
      BY <2>1 DEF Answering, DeviceToHost
    <2>2. CASE ~ Answering /\ Settling
      <3>1. Between \/ SetupDue
        BY <1>1, <1>5, <2>2
           DEF Proceeding, Serving, Handed, Refused, Receiving, Acknowledging,
               NothingDue, MainLoop
      <3>2. QED
        BY <1>1, <2>2, <3>1, NotSentYet DEF Settling
    <2>3. QED
      BY <1>5, <2>1, <2>2
  <1>7. /\ next'.state \notin {"ReceiveHostData", "FinishHostData"}
        /\ \/ next.state = "FinishHostData" /\ returned' = next.setup
           \/ next.state # "FinishHostData" /\ returned' = NoSetup
    BY <1>2, <1>6
       DEF SendComplete_Send, SendComplete_SetAddress, SendComplete_Complete,
           SendComplete_FinishHostData, SendComplete_Ignored, OnUnexpected,
           Expected, Goto
  <1>8. OnItsWay' = OnItsWay
    <2>1. \A s : s \in OnItsWay' <=> s \in OnItsWay
      BY <1>1, <1>6, <1>7, WayOfCommand
    <2>2. QED
      BY <2>1 DEF OnItsWay
  <1>9. Kept'
    BY <1>1, <1>3, <1>6, <1>7 DEF Commanding, Kept, Holds
  <1>10. Uniform' /\ Answer' = Answer
    BY <1>4 DEF Commanding, Uniform, Unread, Answer
  <1>11. Following'
    BY <1>1, <1>3, <1>4, <1>8
       DEF Commanding, Following, Follows, Between, HostPolls, DeviceToHost,
           libgreatVars
  <1>12. libgreat_response' \in Commands \union {None}
    BY <1>3 DEF Commanding, libgreatVars
  <1>13. UNCHANGED Channel!vars
    BY <1>3, <1>8, <1>10, SameOutcome, Unseen
  <1>14. QED
    BY <1>9, <1>10, <1>11, <1>12, <1>13 DEF Promised, Commanding

(* A packet the host has sent: the data of a command is taken in order, as *)
(* it is sent.                                                             *)
LEMMA ReceivedPromised ==
  ASSUME IInv, Protocol, Roomy, Commanding, MainLoop,
         event_queue[1].type = "ReceivePacket"
  PROVE  Promised
  <1>1. /\ usb.pending = {} /\ usb \in Usb /\ returned = NoSetup
        /\ usb.tx.at = "none" /\ usb.tx \in Write
        /\ Proceeding /\ UNCHANGED host
        /\ DispatchEvent(event_queue[1])
        /\ Len(event_queue) \in Nat \ {0}
        /\ DOMAIN event_queue = 1 .. Len(event_queue)
    BY Dispatching
  <1>2. \/ ReceivePacket_WaitForZlp \/ ReceivePacket_ReceiveHostData
        \/ ReceivePacket_Idle \/ OnUnexpected("ReceivePacket")
    BY <1>1 DEF DispatchEvent
  <1>3. PacketDue
    BY <1>1 DEF PacketDue, Queued
  <1>4. UNCHANGED libgreatVars /\ IInv'
    BY MainLoopKeepsIInv DEF MainLoop
  <1>5. CASE Between \/ SetupDue
    <2>1. Settling /\ next.state \in {"Idle", "Stall", "WaitForZlp"}
      BY <1>1, <1>3, <1>5 DEF Proceeding, Settling
    <2>2. /\ usb' \in {usb, Read(usb)}
          /\ next'.state = "Idle" /\ returned' = NoSetup
      BY <1>2, <2>1
         DEF ReceivePacket_WaitForZlp, ReceivePacket_ReceiveHostData,
             ReceivePacket_Idle, OnUnexpected, Expected, Goto
    <2>3. /\ usb'.in = usb.in /\ usb'.in_stall = usb.in_stall
          /\ usb'.tx = usb.tx
      BY <1>1, <2>2 DEF Read, Usb
    <2>4. usb.in = <<>> /\ usb.tx.left = <<>>
      BY <2>1 DEF Settling, NothingOffered, NothingPrimed
    <2>5. ~ (host.stage = "status" /\ host.setup.request = "Execute")
      BY <1>1, <1>5, NotSentYet
    <2>6. OnItsWay = {}
      BY <1>1, <2>1, <2>5, WayOfCommand
    <2>7. HostPolls /\ usb'.in_stall /\ host.setup.request = "Response" =>
            libgreat_response = None
      BY <2>3 DEF Commanding, Following
    <2>8. QED
      BY <1>1, <1>4, <2>2, <2>3, <2>4, <2>5, <2>6, <2>7, NothingLeft,
         Uneventful
  <1>6. CASE ~ Between /\ ~ SetupDue
    <2> DEFINE received == rx_buffer \o usb.out
    <2> DEFINE data == DataOf(host.setup)
    <2>1. /\ host.setup.request = "Execute" /\ ~ usb.in_stall
          /\ usb.in = <<>> /\ usb.tx = NoWrite
          /\ next = [state |-> "ReceiveHostData", setup |-> host.setup]
          /\ host.stage = (IF host.sent = host.setup.length
                           THEN "status" ELSE "data")
          /\ Len(rx_buffer) + 1 = host.sent
          /\ host.setup.length \in 1 .. RxBufferSize
          /\ host.sent \in Nat /\ host.setup.length \in Nat
          /\ host.sent <= host.setup.length
          /\ Len(received) = host.sent
          /\ rx_buffer' = received /\ returned' = NoSetup
          /\ \/ /\ host.sent >= host.setup.length
                /\ next' = [state |-> "FinishHostData", setup |-> host.setup]
                /\ usb' = WriteZlp(Read(usb), host.id)
             \/ /\ host.sent < host.setup.length
                /\ usb' = EpOutPrimeReceive(Read(usb))
                /\ UNCHANGED next
      BY <1>6, DataReceived
    <2>2. host.setup \in SetupPacket /\ host.setup # NoSetup
          /\ rx_buffer \in Seq(OutPacket) /\ usb.out \in Seq(OutPacket)
      BY <1>1, <1>6, PortTypes DEF Usb
    <2>3. /\ data \in Seq(OutPacket) /\ Len(data) = host.setup.length
          /\ DOMAIN data = 1 .. host.setup.length
      BY <2>1, <2>2, IsCommand
    <2>4. /\ \A i \in DOMAIN rx_buffer : rx_buffer[i] = data[i]
          /\ usb.out = << data[host.sent] >>
      BY <2>1 DEF Commanding, Kept
    <2>5. \A i \in DOMAIN received : received[i] = data[i]
      <3>1. ASSUME NEW q \in Seq(OutPacket), NEW e,
                   NEW r \in Seq(OutPacket), r = <<e>>
            PROVE  /\ DOMAIN (q \o r) = 1 .. Len(q) + 1
                   /\ \A i \in 1 .. Len(q) : (q \o r)[i] = q[i]
                   /\ (q \o r)[Len(q) + 1] = e
                   /\ DOMAIN q = 1 .. Len(q) /\ Len(q) \in Nat
        <4>1. Len(r) = 1 /\ r[1] = e /\ Len(q) \in Nat /\ DOMAIN q = 1 .. Len(q)
          BY <3>1
        <4>2. /\ q \o r \in Seq(OutPacket) /\ Len(q \o r) = Len(q) + Len(r)
              /\ \A i \in 1 .. Len(q) + Len(r) :
                   (q \o r)[i] = IF i <= Len(q) THEN q[i] ELSE r[i - Len(q)]
          OBVIOUS
        <4>3. DOMAIN (q \o r) = 1 .. Len(q) + 1
          BY <4>1, <4>2
        <4>4. QED
          BY <4>1, <4>2, <4>3
      <3>2. /\ DOMAIN received = 1 .. Len(rx_buffer) + 1
            /\ \A i \in 1 .. Len(rx_buffer) : received[i] = rx_buffer[i]
            /\ received[Len(rx_buffer) + 1] = data[host.sent]
            /\ DOMAIN rx_buffer = 1 .. Len(rx_buffer) /\ Len(rx_buffer) \in Nat
        BY <2>2, <2>4, <3>1
      <3> HIDE DEF received, data
      <3>3. QED
        BY <2>1, <2>4, <3>2
    <2>6. host.sent = host.setup.length => received = data
      <3>1. received \in Seq(OutPacket)
        <4>1. ASSUME NEW q \in Seq(OutPacket), NEW r \in Seq(OutPacket)
              PROVE  q \o r \in Seq(OutPacket)
          OBVIOUS
        <4>2. QED
          BY <2>2, <4>1
      <3>2. ASSUME NEW q \in Seq(OutPacket), NEW r \in Seq(OutPacket),
                   Len(q) = Len(r), \A i \in DOMAIN q : q[i] = r[i]
            PROVE  q = r
        BY <3>2
      <3> HIDE DEF received, data
      <3>3. QED
        BY <2>1, <2>3, <2>5, <3>1, <3>2
    <2> HIDE DEF received
    <2>7. /\ usb'.in = <<>> /\ ~ usb'.in_stall
          /\ \A i \in DOMAIN usb'.tx.left : usb'.tx.left[i].of = <<>>
      <3>1. CASE usb' = WriteZlp(Read(usb), host.id)
        <4>1. /\ usb'.in = usb.in /\ usb'.in_stall = usb.in_stall
              /\ usb'.tx.left = << Zlp(host.id) >>
          BY <1>1, <3>1 DEF WriteZlp, WriteWithPacketSize, Read, Zlp, Usb
        <4>2. QED
          BY <2>1, <4>1 DEF Zlp
      <3>2. CASE usb' = EpOutPrimeReceive(Read(usb))
        <4>1. /\ usb'.in = usb.in /\ usb'.in_stall = usb.in_stall
              /\ usb'.tx = usb.tx
          BY <1>1, <3>2 DEF EpOutPrimeReceive, Read, Usb
        <4>2. QED
          BY <2>1, <4>1 DEF NoWrite
      <3>3. QED
        BY <2>1, <3>1, <3>2
    <2>8. Answer' = None /\ Uniform' /\ Answer = None
      <3>1. usb'.in \in Seq(InPacket) /\ usb'.tx.left \in Seq(InPacket)
        BY <1>4 DEF IInv, TypeOK, ControlTypeOK, Usb, Write
      <3>2. \A i \in DOMAIN usb'.in : usb'.in[i].of = <<>>
        BY <2>7
      <3>3. /\ AnswerIn(usb'.in, usb'.tx.left) = None
            /\ OfOne(usb'.in \o usb'.tx.left)
        BY <2>7, <3>1, <3>2, NoAnswer, Zenon
      <3>4. Answer' = None /\ Uniform'
        BY <3>3 DEF Answer, AnswerIn, Uniform, OfOne, Unread
      <3>5. Answer = None
        BY <2>1, NothingLeft DEF NoWrite
      <3>6. QED
        BY <3>4, <3>5
    <2>9. OnItsWay' = OnItsWay
      <3>1. \A s : s \in OnItsWay' <=> s \in OnItsWay
        BY <1>1, <2>1, <2>2, WayOfCommand
      <3>2. QED
        BY <3>1 DEF OnItsWay
    <2>10. Kept'
      <3>1. CASE host.sent >= host.setup.length
        <4>1. /\ host.sent = host.setup.length /\ host.setup.length > 0
              /\ next' = [state |-> "FinishHostData", setup |-> host.setup]
          BY <2>1, <3>1
        <4>2. QED
          BY <1>1, <2>1, <2>6, <4>1 DEF Kept, Holds
      <3>2. CASE host.sent < host.setup.length
        <4>1. UNCHANGED next /\ host.stage = "data"
              /\ Len(rx_buffer') + 1 # host.sent
          BY <2>1, <3>2
        <4>2. QED
          BY <1>1, <2>1, <2>5, <4>1 DEF Kept
      <3>3. QED
        BY <2>1, <3>1, <3>2
    <2>11. Following'
      BY <1>1, <1>4, <2>7, <2>9
         DEF Commanding, Following, Follows, Between, HostPolls, DeviceToHost,
             libgreatVars
    <2>12. libgreat_response' \in Commands \union {None}
      BY <1>4 DEF Commanding, libgreatVars
    <2>13. UNCHANGED Channel!vars
      BY <1>4, <2>8, <2>9, SameOutcome, Unseen
    <2>14. QED
      BY <2>8, <2>10, <2>11, <2>12, <2>13 DEF Promised, Commanding
  <1>7. QED
    BY <1>5, <1>6

LEMMA MainLoopPromised ==
  ASSUME IInv, Protocol, Roomy, Commanding, MainLoop
  PROVE  Promised
  <1>1. event_queue[1] \in Event /\ event_queue[1].type # "BusReset"
    BY Dispatching
  <1>2. event_queue[1].type \in {"ReceiveSetupPacket", "SendComplete",
                                 "ReceivePacket"}
    BY <1>1 DEF Event
  <1>3. QED
    BY <1>2, SetupPromised, SentPromised, ReceivedPromised
-----------------------------------------------------------------------------
(* A command is executed with the data it was sent with: rx_buffer has not *)
(* been touched since.                                                     *)
LEMMA ExecutePromised ==
  ASSUME IInv, Protocol, Roomy, Commanding, HandleVendorRequest,
         Between \/ SetupDue
  PROVE  Promised
  <1>1. /\ Proceeding /\ returned # NoSetup /\ returned' = NoSetup
        /\ UNCHANGED <<next, rx_buffer, host>>
    BY DEF HandleVendorRequest, Protocol, Roomy
  <1>2. /\ Settling /\ returned.request = "Execute" /\ returned.value = 0
        /\ next.state = "Idle"
    BY <1>1 DEF Proceeding, Settling
  <1>3. DispatchLibgreatRequest
    BY <1>2 DEF HandleVendorRequest, ClaimInterface, DispatchLibgreatResponse,
                DispatchLibgreatAbort, StallUnknown, VendorRequests
  <1>4. /\ returned \in SetupPacket /\ returned.length > 0
        /\ rx_buffer = DataOf(returned)
    BY <1>1, <1>2 DEF Commanding, Kept, Holds, IInv, TypeOK, ControlTypeOK
  <1> DEFINE command == DataOf(returned)
  <1>5. command \in Commands /\ command # None /\ command # <<>>
    BY <1>4, IsCommand
  <1>6. /\ UNCHANGED usb /\ libgreat_response' = command
        /\ libgreat_response_last_error' = None
    BY <1>2, <1>3, <1>4, <1>5 DEF DispatchLibgreatRequest, QueueOutcome
  <1>7. ~ (host.stage = "status" /\ host.setup.request = "Execute")
    BY <1>1, NotSentYet
  <1>8. SentCommand = command
    <2>1. \A s : s \in OnItsWay <=> s = returned
      BY <1>1, <1>2, <1>7, WayOfCommand
    <2>2. OnItsWay = {returned}
      BY <2>1 DEF OnItsWay
    <2>3. QED
      BY <2>2, OneCommand
  <1> HIDE DEF command
  <1>9. OnItsWay' = {} /\ OnItsWay # {}
    BY <1>1, <1>2, <1>7, WayOfCommand
  <1>10. Outcome' = [command |-> command, accepted |-> TRUE]
    BY <1>5, <1>6 DEF Outcome
  <1>11. Uniform' /\ Answer' = Answer
    BY <1>6 DEF Commanding, Uniform, Unread, Answer
  <1>12. Channel!Execute
    BY <1>5, <1>8, <1>9, <1>10, <1>11, NoCommand, ChannelSteps
  <1>13. Kept'
    BY <1>1, <1>2, <1>6 DEF Commanding, Kept, Holds
  <1>14. Following'
    <2>1. ~ (HostPolls /\ usb.in_stall)
      BY <1>2 DEF Settling, Between, HostPolls
    <2>2. ~ (Sequenced /\ host.client = "refused")
      BY <1>9 DEF Commanding, Following
    <2>3. QED
      BY <1>1, <1>6, <2>1, <2>2
         DEF Commanding, Following, Follows, Between, HostPolls, DeviceToHost
  <1>15. QED
    BY <1>5, <1>6, <1>11, <1>12, <1>13, <1>14
       DEF Promised, Commanding, Channel!Next

(* What a client reads is the answer to its last command; what it cancels  *)
(* is an answer it has not read, or nothing.                               *)
LEMMA HandedPromised ==
  ASSUME IInv, Protocol, Roomy, Commanding, HandleVendorRequest,
         ~ Between, ~ SetupDue
  PROVE  Promised
  <1>1. /\ Proceeding /\ Calm /\ returned # NoSetup /\ returned' = NoSetup
        /\ UNCHANGED <<next, rx_buffer, host>> /\ usb \in Usb
        /\ usb.tx \in Write
    BY PortTypes DEF HandleVendorRequest, Protocol, Roomy, Proceeding
  <1>2. Handed
    BY <1>1
       DEF Proceeding, Serving, Refused, Answering, Receiving, Acknowledging
  <1>3. /\ returned = host.setup /\ usb.in = <<>> /\ usb.tx = NoWrite
        /\ ~ usb.in_stall /\ next.state = "Idle"
        /\ host.setup.request \in {"Response", "Cancel", "UnknownIn", "Claim"}
    BY <1>2 DEF Handed, NothingOffered, NothingPrimed
  <1>4. /\ Servable(host.setup) /\ host.setup.id = host.id
        /\ host.setup \in SetupPacket /\ host.id \in Transfers
        /\ host.setup.length \in Nat
        /\ libgreat_response_last_error = None
    BY <1>1, PortTypes, EndpointAssumption DEF Calm, SetupPacket
  <1>5. OnItsWay = {} /\ OnItsWay' = {}
    BY <1>1, <1>3, WayOfCommand
  <1>6. Answer = None
    BY <1>3, NothingLeft DEF NoWrite
  <1>7. IInv' /\ usb'.in \in Seq(InPacket) /\ usb'.tx.left \in Seq(InPacket)
    BY VendorKeepsIInv DEF IInv, TypeOK, ControlTypeOK, Usb, Write
  <1>8. CASE /\ UNCHANGED libgreatVars
             /\ usb'.in = <<>>
             /\ \A i \in DOMAIN usb'.tx.left : usb'.tx.left[i].of = <<>>
             /\ usb'.in_stall /\ host.setup.request = "Response" =>
                  libgreat_response = None
    BY <1>1, <1>3, <1>5, <1>6, <1>7, <1>8, Uneventful
  <1>9. Kept'
    BY <1>1, <1>3 DEF Commanding, Kept, Holds
  <1>10. ASSUME libgreat_response' = None
         PROVE  Following'
    BY <1>1, <1>5, <1>10
       DEF Commanding, Following, Follows, Between
  <1> DEFINE primed == EpOutPrimeReceive(usb)
  <1>11. ASSUME NEW packets, usb' = WriteWithPacketSize(primed, packets)
         PROVE  /\ usb'.in = <<>> /\ ~ usb'.in_stall /\ usb'.tx.left = packets
    BY <1>1, <1>3, <1>11 DEF EpOutPrimeReceive, WriteWithPacketSize, Usb
  <1> HIDE DEF primed
  <1>12. CASE ClaimInterface
    <2>1. usb' = WriteZlp(usb, returned.id) /\ UNCHANGED libgreatVars
      BY <1>12 DEF ClaimInterface
    <2>2. /\ usb'.in = usb.in /\ usb'.in_stall = usb.in_stall
          /\ usb'.tx.left = << Zlp(returned.id) >>
      BY <1>1, <2>1 DEF WriteZlp, WriteWithPacketSize, Zlp, Usb
    <2>3. \A i \in DOMAIN usb'.tx.left : usb'.tx.left[i].of = <<>>
      BY <2>2 DEF Zlp
    <2>4. QED
      BY <1>3, <1>8, <2>1, <2>2, <2>3
  <1>13. CASE DispatchLibgreatResponse /\ libgreat_response # None
    <2>1. PICK packets \in WholeAnswers(host.id, libgreat_response,
                                        host.setup.length) :
            usb' = WriteWithPacketSize(primed, packets)
      BY <1>3, <1>4, <1>13 DEF DispatchLibgreatResponse, primed
    <2>2. usb' = WriteWithPacketSize(primed, packets)
      BY <2>1
    <2>3. /\ libgreat_response' = None /\ libgreat_response_last_error' = None
      BY <1>4, <1>13 DEF DispatchLibgreatResponse
    <2>4. libgreat_response \in Commands
      BY <1>13 DEF Commanding
    <2>5. libgreat_response \in Seq(OutPacket) /\ libgreat_response # <<>>
      BY <2>4, CommandIsNot
    <2>6. /\ usb'.in = <<>> /\ usb'.tx.left = packets
      BY <1>11, <2>2
    <2>7. PICK n \in Nat, m \in Nat :
             n <= m /\ packets \in Answers(host.id, libgreat_response, n, m)
      BY <1>4, <2>1, <2>5, WholeAnswersFit
    <2>8. \A i \in DOMAIN packets : packets[i].of = libgreat_response
      BY <1>4, <2>5, <2>7, AnswersOf
    <2>9. /\ packets \in Seq(InPacket) /\ packets # <<>>
          /\ <<>> \o packets = packets /\ packets[1].of = libgreat_response
      <3>1. packets # <<>>
        BY <1>4, <2>5, <2>7, AnswersType
      <3>2. packets \in Seq(InPacket)
        BY <1>7, <2>6
      <3>3. ASSUME NEW q \in Seq(InPacket), q # <<>>
            PROVE  <<>> \o q = q /\ 1 \in DOMAIN q
        BY <3>3
      <3>4. QED
        BY <2>8, <3>1, <3>2, <3>3
    <2>10. OfOne(usb'.in \o usb'.tx.left)
      BY <2>6, <2>8, <2>9 DEF OfOne
    <2>11. AnswerIn(usb'.in, usb'.tx.left) = libgreat_response
      <3>1. AnswerIn(<<>>, packets) =
              IF <<>> \o packets = <<>> \/ (<<>> \o packets)[1].of = <<>>
              THEN None ELSE (<<>> \o packets)[1].of
        BY <1>7, <2>6, <2>10, AnswerFound
      <3>2. QED
        BY <2>5, <2>6, <2>9, <3>1
    <2>12. Uniform' /\ Answer' = libgreat_response
      BY <2>10, <2>11 DEF Uniform, OfOne, Unread, Answer, AnswerIn
    <2>13. Outcome' = None
      BY <2>3 DEF Outcome
    <2>14. Channel!Respond
      BY <1>5, <1>6, <1>13, <2>4, <2>12, <2>13, NoCommand, ChannelSteps
    <2>15. QED
      BY <1>9, <1>10, <2>3, <2>12, <2>14 DEF Promised, Commanding, Channel!Next
  <1>14. CASE DispatchLibgreatResponse /\ libgreat_response = None
    <2>1. usb' = StallEndpointIn(usb) /\ UNCHANGED libgreatVars
      BY <1>4, <1>14 DEF DispatchLibgreatResponse, libgreatVars
    <2>2. usb'.in = <<>> /\ usb'.tx = usb.tx
      BY <1>1, <2>1 DEF StallEndpointIn, Usb
    <2>3. QED
      BY <1>3, <1>8, <1>14, <2>1, <2>2 DEF NoWrite
  <1>15. CASE DispatchLibgreatAbort
    <2> DEFINE packet == [id |-> host.id, of |-> <<>>, size |-> "short"]
    <2>1. /\ usb' = WriteWithPacketSize(primed, <<packet>>)
          /\ libgreat_response' = None /\ libgreat_response_last_error' = None
          /\ host.setup.request = "Cancel"
      BY <1>3, <1>4, <1>15 DEF DispatchLibgreatAbort, primed
    <2>2. /\ usb'.in = <<>> /\ ~ usb'.in_stall /\ usb'.tx.left = <<packet>>
      BY <1>11, <2>1
    <2>3. \A i \in DOMAIN usb'.tx.left : usb'.tx.left[i].of = <<>>
      BY <2>2
    <2>4. CASE libgreat_response = None
      BY <1>4, <1>8, <2>1, <2>2, <2>3, <2>4 DEF libgreatVars
    <2>5. CASE libgreat_response # None
      <3>1. ~ Sequenced
        BY <2>1, <2>5 DEF Commanding, Following, Follows
      <3>2. Answer' = None /\ Uniform'
        <4>1. \A i \in DOMAIN usb'.in : usb'.in[i].of = <<>>
          BY <2>2
        <4>2. /\ AnswerIn(usb'.in, usb'.tx.left) = None
              /\ OfOne(usb'.in \o usb'.tx.left)
          BY <1>7, <2>3, <4>1, NoAnswer, Zenon
        <4>3. QED
          BY <4>2 DEF Answer, AnswerIn, Uniform, OfOne, Unread
      <3>3. Outcome' = None /\ Outcome.accepted
        BY <2>1, <2>5 DEF Outcome
      <3>4. Channel!Cancel
        BY <1>5, <1>6, <3>1, <3>2, <3>3, NoCommand, ChannelSteps
      <3>5. QED
        BY <1>9, <1>10, <2>1, <3>2, <3>4 DEF Promised, Commanding, Channel!Next
    <2>6. QED
      BY <2>4, <2>5
  <1>16. CASE StallUnknown
    <2>1. usb' = StallEndpointIn(usb) /\ UNCHANGED libgreatVars
          /\ host.setup.request # "Response"
      BY <1>3, <1>16 DEF StallUnknown, VendorRequests, DeviceToHost
    <2>2. usb'.in = <<>> /\ usb'.tx = usb.tx
      BY <1>1, <2>1 DEF StallEndpointIn, Usb
    <2>3. QED
      BY <1>3, <1>8, <2>1, <2>2 DEF NoWrite
  <1>17. ~ DispatchLibgreatRequest
    BY <1>3 DEF DispatchLibgreatRequest
  <1>18. QED
    BY <1>12, <1>13, <1>14, <1>15, <1>16, <1>17, Zenon
       DEF HandleVendorRequest

LEMMA VendorPromised ==
  ASSUME IInv, Protocol, Roomy, Commanding, HandleVendorRequest
  PROVE  Promised
  BY ExecutePromised, HandedPromised
-----------------------------------------------------------------------------
(* A transfer that ends without the channel noticing.                      *)
LEMMA EndsPromised ==
  ASSUME IInv, Commanding, ~ Between,
         NEW stage \in {"done", "stalled"}, host' = Ended(stage),
         UNCHANGED <<next, rx_buffer, returned, libgreatVars>>,
         next.state # "ReceiveHostData",
         stage = "stalled" =>
           /\ host.setup.request = "Response" => libgreat_response = None
           /\ host.setup.request # "Execute" /\ OnItsWay = {},
         OnItsWay' = OnItsWay, Uniform', Answer' = Answer
  PROVE  Promised
  <1>1. host'.stage = stage /\ host'.client = ClientAfter(stage)
    BY PortTypes DEF Ended, Host
  <1>2. Between' /\ ~ HostPolls'
    BY <1>1 DEF Between, HostPolls
  <1>3. Sequenced /\ host'.client = "refused" =>
          stage = "stalled" /\ libgreat_response = None /\ OnItsWay = {}
    <2>1. SUFFICES ASSUME Sequenced, ClientAfter(stage) = "refused"
                   PROVE  stage # "done"
                          /\ host.setup.request \in {"Execute", "Response"}
      BY <1>1, Zenon
    <2>2. QED
      BY <2>1 DEF ClientAfter
  <1>4. Following'
    BY <1>2, <1>3 DEF Following, libgreatVars
  <1>5. Kept'
    BY <1>1 DEF Commanding, Kept, Holds
  <1>6. libgreat_response' \in Commands \union {None}
    BY DEF Commanding, libgreatVars
  <1>7. UNCHANGED Channel!vars
    BY SameOutcome, Unseen
  <1>8. QED
    BY <1>4, <1>5, <1>6, <1>7 DEF Promised, Commanding

(* A new request leaves the command before on its way.                     *)
LEMMA HostSetupPromised ==
  ASSUME PoliteHost, IInv, Protocol, Roomy, Commanding, HostSetup
  PROVE  Promised
  <1>1. PICK r \in HostRequests :
          /\ Follows(r.request)
          /\ LET id    == IF host.id = NumTransfers THEN 1 ELSE host.id + 1
                 setup == [request |-> r.request, value |-> r.value,
                           length |-> r.length, id |-> id]
             IN  /\ host' = [host EXCEPT !.setup = setup, !.id = id,
                               !.stage = IF r.length = 0 THEN "status" ELSE "data"]
                 /\ usb' = AcceptSetup(usb, setup)
    BY DEF HostSetup
  <1> DEFINE id == IF host.id = NumTransfers THEN 1 ELSE host.id + 1
  <1> DEFINE setup == [request |-> r.request, value |-> r.value,
                       length |-> r.length, id |-> id]
  <1>2. /\ host' = [host EXCEPT !.setup = setup, !.id = id,
                      !.stage = IF r.length = 0 THEN "status" ELSE "data"]
        /\ usb' = AcceptSetup(usb, setup)
    BY <1>1, Zenon
  <1>3. usb \in Usb /\ host \in Host /\ r.length \in Nat
    BY PortTypes, HostAssumption, EndpointAssumption
  <1>4. /\ setup.request = r.request
        /\ setup.request = "Execute" => r.length # 0
    BY HostAssumption, EndpointAssumption DEF PoliteHost, Servable
  <1> HIDE DEF setup, id
  <1>5. /\ host'.setup = setup /\ host'.client = host.client
        /\ host'.stage = "status" => r.length = 0
    BY <1>2, <1>3 DEF Host
  <1>6. /\ ~ usb'.in_stall /\ usb'.in = usb.in /\ usb'.tx = usb.tx
    BY <1>2, <1>3 DEF AcceptSetup, Usb
  <1>7. Between /\ UNCHANGED <<next, rx_buffer, returned, libgreatVars>>
    BY Zenon DEF HostSetup, firmwareVars
  <1>8. Settling
    BY <1>7 DEF Protocol, Proceeding, Roomy
  <1>9. OnItsWay' = OnItsWay
    <2>1. host.stage # "status"
      BY <1>7 DEF Between
    <2>2. \A s : s \in OnItsWay' <=> s \in OnItsWay
      BY <1>4, <1>5, <1>7, <2>1, WayOfCommand
    <2>3. QED
      BY <2>2 DEF OnItsWay
  <1>10. Uniform' /\ Answer' = Answer
    BY <1>6 DEF Commanding, Uniform, Unread, Answer
  <1>11. Kept'
    BY <1>4, <1>5, <1>7, <1>8 DEF Commanding, Kept, Holds, Settling
  <1>12. Following'
    <2>1. Follows(host.setup.request)'
      BY <1>1, <1>4, <1>5 DEF Follows
    <2>2. QED
      BY <1>5, <1>6, <1>7, <1>9, <2>1 DEF Commanding, Following, libgreatVars
  <1>13. libgreat_response' \in Commands \union {None}
    BY <1>7 DEF Commanding, libgreatVars
  <1>14. UNCHANGED Channel!vars
    BY <1>7, <1>9, <1>10, SameOutcome, Unseen
  <1>15. QED
    BY <1>10, <1>11, <1>12, <1>13, <1>14 DEF Promised, Commanding

(* What a host reads last of an answer is its end; what it reads before    *)
(* leaves the answer to the same command.                                  *)
LEMMA HostInPromised ==
  ASSUME IInv, Protocol, Roomy, Commanding, HostIn
  PROVE  Promised
  <1>1. /\ ~ Between /\ usb \in Usb /\ (usb.in_stall \/ SendsData(usb))
        /\ host \in Host /\ host.setup \in SetupPacket /\ host.setup # NoSetup
        /\ Proceeding /\ Calm
    BY PortTypes DEF HostIn, HostPolls, Between, Protocol, Roomy, Proceeding
  <1>2. Serving
    <2>1. ~ Settling
      BY <1>1 DEF Settling, NothingOffered, NothingPrimed, SendsData
    <2>2. QED
      BY <1>1, <2>1 DEF Proceeding
  <1>3. Servable(host.setup)
    BY <1>1 DEF Calm
  <1>4. UNCHANGED <<next, returned, rx_buffer, libgreatVars>>
    BY Zenon DEF HostIn, firmwareVars
  <1>5. HostPolls
    BY DEF HostIn
  <1>6. CASE usb.in_stall
    <2>1. Refused
      BY <1>2, <1>6
         DEF Serving, Handed, Answering, Receiving, Acknowledging
    <2>2. host' = Ended("stalled") /\ UNCHANGED usb
      BY <1>6 DEF HostIn, SendsData
    <2>3. host'.stage = "stalled"
      BY <1>1, <2>2, EndedFields
    <2>4. host.setup.request # "Execute"
      BY <1>3, <2>1 DEF Refused, Servable
    <2>5. OnItsWay = {} /\ OnItsWay' = {}
      BY <1>4, <2>1, <2>3, <2>4, WayOfCommand DEF Refused
    <2>6. Uniform' /\ Answer' = Answer
      BY <2>2 DEF Commanding, Uniform, Unread, Answer
    <2>7. host.setup.request = "Response" => libgreat_response = None
      BY <1>5, <1>6 DEF Commanding, Following
    <2>8. next.state # "ReceiveHostData"
      BY <2>1 DEF Refused
    <2>9. QED
      BY <1>1, <1>4, <2>2, <2>4, <2>5, <2>6, <2>7, <2>8, EndsPromised
  <1>7. CASE ~ usb.in_stall
    <2>1. /\ usb'.in = <<>> /\ ~ usb'.in_stall /\ usb'.tx = usb.tx
          /\ usb'.out = usb.out
      <3>1. usb' = TakeIn(usb)
        BY <1>7 DEF HostIn
      <3>2. QED
        BY <1>1, <1>7, <3>1 DEF TakeIn, Usb
    <2>2. Answering \/ Acknowledging
      BY <1>1, <1>2, <1>7
         DEF Serving, Handed, Refused, Receiving, NothingOffered,
             NothingPrimed, SendsData
    <2>3. IInv' /\ usb'.in \in Seq(InPacket) /\ usb'.tx.left \in Seq(InPacket)
          /\ usb.in \in Seq(InPacket) /\ usb.tx.left \in Seq(InPacket)
      BY <1>1, HostInKeepsIInv DEF IInv, TypeOK, ControlTypeOK, Usb, Write
    <2>4. CASE Acknowledging
      <3>1. /\ returned = NoSetup /\ host.stage = "status"
            /\ usb.tx.left = <<>> /\ usb.in = << Zlp(host.id) >>
            /\ \/ next.state \in {"Idle", "Complete"}
               \/ /\ next.state \in {"SetAddress", "FinishHostData"}
                  /\ next.setup = host.setup
            /\ next.state = "FinishHostData" => next.setup.request = "Execute"
        BY <1>1, <1>7, <2>4
           DEF Acknowledging, NothingPrimed, SendsData, NoWrite
      <3>2. ~ Have(usb)
        BY <3>1 DEF Have, Zlp
      <3>3. host' = Ended("done")
        BY <1>7, <3>1, <3>2 DEF HostIn
      <3>4. host'.stage = "done"
        BY <1>1, <3>3, EndedFields
      <3>5. OnItsWay' = OnItsWay
        <4>1. host.setup.request = "Execute" =>
                next.state = "FinishHostData" /\ next.setup = host.setup
          BY <3>1 DEF Commanding, Kept
        <4>2. \A s : s \in OnItsWay' <=> s \in OnItsWay
          BY <1>4, <3>1, <3>4, <4>1, WayOfCommand
        <4>3. QED
          BY <4>2 DEF OnItsWay
      <3>6. Answer = None
        <4>1. \A i \in DOMAIN usb.in : usb.in[i].of = <<>>
          BY <3>1 DEF Zlp
        <4>2. \A i \in DOMAIN usb.tx.left : usb.tx.left[i].of = <<>>
          BY <3>1
        <4>3. AnswerIn(usb.in, usb.tx.left) = None
          BY <2>3, <4>1, <4>2, NoAnswer, Zenon
        <4>4. QED
          BY <4>3 DEF Answer
      <3>7. Answer' = None /\ Uniform'
        <4>1. \A i \in DOMAIN usb'.in : usb'.in[i].of = <<>>
          BY <2>1
        <4>2. \A i \in DOMAIN usb'.tx.left : usb'.tx.left[i].of = <<>>
          BY <2>1, <3>1
        <4>3. /\ AnswerIn(usb'.in, usb'.tx.left) = None
              /\ OfOne(usb'.in \o usb'.tx.left)
          BY <2>3, <4>1, <4>2, NoAnswer, Zenon
        <4>4. QED
          BY <4>3 DEF Answer, AnswerIn, Uniform, OfOne, Unread
      <3>8. QED
        BY <1>1, <1>4, <3>1, <3>3, <3>5, <3>6, <3>7, EndsPromised
    <2>5. CASE Answering
      <3>1. /\ Len(usb.in) = 1 /\ AnswerLeft /\ returned = NoSetup
            /\ DeviceToHost(host.setup) /\ host.stage = "data"
            /\ next.state \in {"Send", "WaitForZlp", "Idle"}
        <4>1. Len(usb.in) \in Nat
          BY <2>3
        <4>2. usb.in # <<>> /\ Len(usb.in) <= 1
          BY <1>1, <1>7, <2>5 DEF Answering, SendsData
        <4>3. ASSUME NEW q \in Seq(InPacket), q # <<>>, Len(q) <= 1
              PROVE  Len(q) = 1
          <5>1. Len(q) \in Nat /\ Len(q) >= 1
            BY <4>3
          <5>2. \A k \in Nat : k <= 1 /\ k >= 1 => k = 1
            OBVIOUS
          <5>3. QED
            BY <4>3, <5>1, <5>2, Zenon
        <4>4. Len(usb.in) = 1
          BY <2>3, <4>2, <4>3
        <4>5. QED
          BY <1>5, <2>5, <4>4 DEF Answering, HostPolls
      <3> DEFINE last == usb.in[1].size # "full"
                         \/ host.got + 1 = host.setup.length
      <3>2. host' = IF host.got + 1 > host.setup.length
                    THEN Ended("failed")
                    ELSE [host EXCEPT !.got = host.got + 1,
                            !.stage = IF last THEN "status" ELSE "data"]
        BY <1>7, <3>1 DEF HostIn
      <3>3. ~ (host.got + 1 > host.setup.length)
        <4>1. host.got \in Nat /\ host.setup.length \in Nat
          BY <1>1, EndpointAssumption DEF Host, SetupPacket
        <4>2. /\ host.got + Len(usb.tx.left) + 1 <= host.setup.length
              /\ Len(usb.tx.left) \in Nat
          BY <1>1, <3>1, AnswerAhead, UnreadParts
        <4>3. QED
          BY <4>1, <4>2
      <3> HIDE DEF last
      <3>4. /\ host'.got = host.got + 1 /\ host'.setup = host.setup
            /\ host'.id = host.id /\ host'.client = host.client
            /\ host'.stage \in {"data", "status"}
        BY <1>1, <3>2, <3>3 DEF Host
      <3>5. Unread' = usb.tx.left
        BY <1>1, <2>1, <3>1, <3>4, AnswerTaken
      <3>6. host.setup.request # "Execute"
        BY <3>1 DEF DeviceToHost
      <3>7. OnItsWay = {} /\ OnItsWay' = {}
        BY <1>4, <3>1, <3>4, <3>6, WayOfCommand
      <3> DEFINE left == usb.tx.left
      <3>8. /\ left \in Seq(InPacket) /\ DOMAIN left = 1 .. Len(left)
            /\ Len(left) \in Nat
            /\ DOMAIN Unread = 1 .. Len(left) + 1
            /\ Unread[1] = usb.in[1]
            /\ \A i \in 1 .. Len(left) : Unread[i + 1] = left[i]
            /\ Len(left) = 0 <=> left = <<>>
        BY <3>1, UnreadParts
      <3>9. \A i, j \in DOMAIN Unread : Unread[i].of = Unread[j].of
        BY DEF Commanding, Uniform, OfOne
      <3> HIDE DEF left
      <3>10. \A i \in DOMAIN left : left[i].of = Unread[1].of
        <4>1. 1 \in DOMAIN Unread
              /\ \A i \in 1 .. Len(left) : i + 1 \in DOMAIN Unread
          BY <3>8
        <4>2. QED
          BY <3>8, <3>9, <4>1
      <3>11. Uniform'
        BY <3>5, <3>10 DEF Uniform, OfOne, left
      <3>12. Answer = IF Unread[1].of = <<>> THEN None ELSE Unread[1].of
        <4>1. AnswerIn(usb.in, usb.tx.left) =
                IF Unread = <<>> \/ Unread[1].of = <<>>
                THEN None ELSE Unread[1].of
          BY <2>3, AnswerFound DEF Commanding, Uniform, Unread
        <4>2. Unread # <<>>
          BY <3>8
        <4>3. QED
          BY <4>1, <4>2 DEF Answer
      <3>13. Answer' = IF left = <<>> THEN None ELSE Answer
        <4>1. /\ usb'.in \o usb'.tx.left = left
              /\ OfOne(usb'.in \o usb'.tx.left)
          BY <3>5, <3>11 DEF Unread, Uniform, OfOne, left
        <4>2. AnswerIn(usb'.in, usb'.tx.left) =
                IF left = <<>> \/ left[1].of = <<>> THEN None ELSE left[1].of
          BY <2>3, <4>1, AnswerFound
        <4>3. left # <<>> => left[1].of = Unread[1].of
          BY <3>8, <3>10
        <4>4. Answer' = AnswerIn(usb'.in, usb'.tx.left)
          BY DEF Answer, AnswerIn
        <4>5. QED
          BY <3>12, <4>2, <4>3, <4>4
      <3>14. Channel!Next \/ UNCHANGED Channel!vars
        <4>1. SentCommand' = SentCommand /\ Outcome' = Outcome
          BY <1>4, <3>7, SameCommand, SameOutcome
        <4>2. CASE Answer' = Answer
          BY <4>1, <4>2, ChannelSteps
        <4>3. CASE Answer' # Answer
          <5>1. Answer # None /\ Answer' = None
            BY <3>13, <4>3
          <5>2. Channel!Read
            BY <4>1, <5>1, ChannelSteps
          <5>3. QED
            BY <5>2 DEF Channel!Next
        <4>4. QED
          BY <4>2, <4>3
      <3>15. Kept'
        BY <1>4, <3>1, <3>4, <3>6 DEF Commanding, Kept, Holds
      <3>16. Following'
        <4>1. Follows(host.setup.request)'
          BY <1>1, <3>4 DEF Commanding, Following, Follows
        <4>2. QED
          BY <1>4, <2>1, <3>4, <3>7, <4>1
             DEF Commanding, Following, libgreatVars
      <3>17. libgreat_response' \in Commands \union {None}
        BY <1>4 DEF Commanding, libgreatVars
      <3>18. QED
        BY <3>11, <3>14, <3>15, <3>16, <3>17 DEF Promised, Commanding
    <2>6. QED
      BY <2>2, <2>4, <2>5
  <1>8. QED
    BY <1>6, <1>7

(* With its last packet a command is sent.                                 *)
LEMMA HostOutPromised ==
  ASSUME IInv, Protocol, Roomy, Commanding, HostOut
  PROVE  Promised
  <1>1. /\ ~ Between /\ usb \in Usb /\ host \in Host
        /\ host.setup \in SetupPacket /\ host.setup # NoSetup
        /\ Proceeding /\ Calm /\ ~ usb.out_stall
    BY PortTypes DEF HostOut, HostSends, Between, Protocol, Roomy, Proceeding,
                     Calm
  <1>2. AcceptsOut(usb)
    BY <1>1 DEF HostOut
  <1>3. UNCHANGED <<next, returned, rx_buffer, libgreatVars>>
    BY Zenon DEF HostOut, firmwareVars
  <1>4. Serving
    <2>1. ~ Settling
      BY <1>2 DEF Settling, NothingOffered, AcceptsOut
    <2>2. QED
      BY <1>1, <2>1 DEF Proceeding
  <1>5. PICK data : usb' = AcceptOut(usb, data)
    BY <1>1 DEF HostOut
  <1>6. /\ usb'.in = usb.in /\ usb'.in_stall = usb.in_stall
        /\ usb'.tx = usb.tx
    BY <1>1, <1>5 DEF AcceptOut, Usb
  <1>7. Uniform' /\ Answer' = Answer
    BY <1>6 DEF Commanding, Uniform, Unread, Answer
  <1>8. Answering \/ Receiving
    BY <1>2, <1>4
       DEF Serving, Handed, Refused, Acknowledging, NothingOffered, AcceptsOut
  <1>9. CASE Answering
    <2>1. /\ DeviceToHost(host.setup) /\ host.stage = "status"
          /\ returned = NoSetup /\ next.state \in {"Send", "WaitForZlp", "Idle"}
      BY <1>9 DEF Answering, HostOut, HostSends
    <2>2. host' = Ended("done")
      BY <1>1, <2>1 DEF HostOut
    <2>3. host'.stage = "done"
      BY <1>1, <2>2, EndedFields
    <2>4. host.setup.request # "Execute"
      BY <2>1 DEF DeviceToHost
    <2>5. OnItsWay = {} /\ OnItsWay' = {}
      BY <1>3, <2>1, <2>3, <2>4, WayOfCommand
    <2>6. QED
      BY <1>1, <1>3, <1>7, <2>1, <2>2, <2>5, EndsPromised
  <1>10. CASE Receiving
    <2> DEFINE setup == host.setup
    <2>1. /\ setup.request = "Execute" /\ ~ DeviceToHost(setup)
          /\ host.stage = "data" /\ returned = NoSetup /\ ~ usb.in_stall
          /\ next = [state |-> "ReceiveHostData", setup |-> setup]
          /\ Len(rx_buffer) = host.sent /\ host.sent \in Nat
      BY <1>1, <1>2, <1>10, EndpointAssumption
         DEF Receiving, NothingDue, AcceptsOut, DeviceToHost, Host
    <2>2. /\ usb' = AcceptOut(usb, << DataOf(setup)[host.sent + 1] >>)
          /\ host' = [host EXCEPT !.sent = @ + 1,
                        !.stage = IF host.sent + 1 = setup.length
                                  THEN "status" ELSE "data"]
      BY <1>1, <2>1 DEF HostOut
    <2>3. usb'.out = << DataOf(setup)[host.sent + 1] >>
      BY <1>1, <2>2 DEF AcceptOut, Usb
    <2>4. /\ host'.setup = setup /\ host'.sent = host.sent + 1
          /\ host'.client = host.client
          /\ host'.stage = (IF host.sent + 1 = setup.length
                            THEN "status" ELSE "data")
      BY <1>1, <2>2 DEF Host
    <2>5. Kept'
      <3>1. \A i \in DOMAIN rx_buffer : rx_buffer[i] = DataOf(setup)[i]
        BY <2>1 DEF Commanding, Kept
      <3>2. next' = next /\ rx_buffer' = rx_buffer /\ returned' = NoSetup
        BY <1>3, <2>1
      <3>3. next.state = "ReceiveHostData" /\ next.setup = setup
        BY <2>1
      <3> HIDE DEF setup
      <3>4. QED
        BY <2>3, <2>4, <3>1, <3>2, <3>3 DEF Kept
    <2>6. OnItsWay = {}
      BY <1>1, <2>1, WayOfCommand
    <2>7. Following'
      <3>1. Follows(setup.request)
        BY <1>1 DEF Commanding, Following
      <3>2. Follows(host.setup.request)'
        BY <2>4, <3>1 DEF Follows
      <3>3. Sequenced => host.client = "ready"
        BY <2>1, <3>1 DEF Follows
      <3>4. QED
        BY <1>6, <2>1, <2>4, <3>2, <3>3 DEF Following
    <2>8. libgreat_response' \in Commands \union {None}
      BY <1>3 DEF Commanding, libgreatVars
    <2>9. Channel!Next \/ UNCHANGED Channel!vars
      <3>1. CASE host.sent + 1 = setup.length
        <4>1. setup.length > 0
          BY <2>1, <3>1
        <4>2. DataOf(setup) \in Commands
          BY <1>1, <4>1, IsCommand
        <4>3. OnItsWay' = {setup}
          <5>1. \A s : s \in OnItsWay' <=> s = setup
            BY <1>1, <1>3, <2>1, <2>4, <3>1, WayOfCommand
          <5>2. QED
            BY <5>1 DEF OnItsWay
        <4>4. SentCommand = None /\ SentCommand' \in Commands
          BY <2>6, <4>2, <4>3, NoCommand, OneCommand
        <4>5. Channel!Send
          BY <1>3, <1>7, <4>4, SameOutcome, ChannelSteps
        <4>6. QED
          BY <4>5 DEF Channel!Next
      <3>2. CASE host.sent + 1 # setup.length
        <4>1. OnItsWay' = {}
          BY <1>3, <2>1, <2>4, <3>2, WayOfCommand
        <4>2. QED
          BY <1>3, <1>7, <2>6, <4>1, SameOutcome, Unseen
      <3>3. QED
        BY <3>1, <3>2
    <2>10. QED
      BY <1>7, <2>5, <2>7, <2>8, <2>9 DEF Promised, Commanding
  <1>11. QED
    BY <1>8, <1>9, <1>10
-----------------------------------------------------------------------------
LEMMA InitCommanding == Init => Commanding /\ Channel!Init
  <1>1. SUFFICES ASSUME Init PROVE Commanding /\ Channel!Init
    OBVIOUS
  <1>2. /\ returned = NoSetup /\ next.state = "Idle"
        /\ libgreat_response = None /\ libgreat_response_last_error = None
        /\ usb.in = <<>> /\ usb.tx.left = <<>>
        /\ host.stage = "idle" /\ host.client = "ready"
    BY <1>1 DEF Init, ControlInit, Connected, NoWrite
  <1>3. OnItsWay = {}
    BY <1>2, WayOfCommand
  <1>4. Unread = <<>> /\ Answer = None
    BY <1>2, NothingLeft
  <1>5. Uniform
    BY <1>4 DEF Uniform, OfOne
  <1>6. Kept /\ Following
    BY <1>2 DEF Kept, Following, Between, HostPolls
  <1>7. SentCommand = None /\ Outcome = None
    BY <1>2, <1>3, NoCommand DEF Outcome
  <1>8. Channel!Init
    BY <1>4, <1>7, Zenon
       DEF Channel!Init, SentCommand, Outcome, Answer, AnswerIn, Offered
  <1>9. QED
    BY <1>2, <1>5, <1>6, <1>8 DEF Commanding

LEMMA NextPromised ==
  ASSUME PoliteHost, IInv, Protocol, Roomy, Commanding, [Next]_vars
  PROVE  Promised
  <1>1. CASE MachineExternal
    BY <1>1, HandlerPromised
  <1>2. CASE MainLoop
    BY <1>2, MainLoopPromised
  <1>3. CASE WriteStep
    BY <1>3, WritePromised
  <1>4. CASE HandleVendorRequest
    BY <1>4, VendorPromised
  <1>5. CASE HostSetup
    BY <1>5, HostSetupPromised
  <1>6. CASE HostIn
    BY <1>6, HostInPromised
  <1>7. CASE HostOut
    BY <1>7, HostOutPromised
  <1>8. ~ HostTimeout
    BY NoTimeout DEF Roomy
  <1>9. ~ HostBusReset
    BY NoReset
  <1>10. CASE UNCHANGED vars
    <2>1. UNCHANGED <<usb, host, next, returned, rx_buffer, libgreatVars>>
      BY <1>10, Zenon DEF vars, controlVars
    <2>2. Uniform' /\ Answer' = Answer
      BY <2>1 DEF Commanding, Uniform, Unread, Answer
    <2>3. QED
      BY <2>1, <2>2, Overlooked
  <1>11. QED
    BY <1>1, <1>2, <1>3, <1>4, <1>5, <1>6, <1>7, <1>8, <1>9, <1>10, Zenon
       DEF Next, Firmware, Tokens

(* What a client of libgreat is promised (CommandsServed), but that it is  *)
(* served at all: each command is executed once, with the data the client  *)
(* sent, before anything else it asks for is; its outcome is read at most  *)
(* once, and what is read is the outcome of the last command               *)
(* (dispatch_libgreat_request, dispatch_libgreat_response,                 *)
(* dispatch_libgreat_abort).                                               *)
THEOREM CommandsInOrder ==
  PoliteHost /\ EventQueueSize >= MaxLength + 2 =>
    (Spec => Channel!Init /\ [][Channel!Next]_(Channel!vars))
  <1>1. SUFFICES ASSUME PoliteHost, EventQueueSize >= MaxLength + 2
                 PROVE  Spec => Channel!Init /\ [][Channel!Next]_(Channel!vars)
    OBVIOUS
  <1>2. Spec => [](IInv /\ Protocol /\ Roomy)
    BY <1>1, RoomyKept
  <1>3. Init => Commanding /\ Channel!Init
    BY InitCommanding
  <1>4. IInv /\ Protocol /\ Roomy /\ Commanding /\ [Next]_vars => Promised
    BY <1>1, NextPromised
  <1>5. Promised => Commanding' /\ [Channel!Next]_(Channel!vars)
    BY DEF Promised
  <1>6. QED
    BY <1>2, <1>3, <1>4, <1>5, PTL DEF Spec
=============================================================================
