------------------------- MODULE Moondancer_proofs --------------------------
(***************************************************************************)
(* Proofs about Moondancer: type correctness, and that the main loop stops *)
(* only for a full control_queue, for any host, client, sizes and numbers; *)
(* and that with an obliging host and client it never stops.               *)
(***************************************************************************)
EXTENDS Moondancer, Endpoint0_proofs, FiniteSetTheorems, SequenceTheorems

(* Every SETUP packet that raises the interrupt is there to be read.       *)
SetupPending == "EpControl" \in usb0.pending => usb0.setup # NoSetup

(* The host's transfer has a request, and in its data stage data left.     *)
InProgress ==
  target.stage # "idle" =>
    /\ target.setup # NoSetup /\ target.id > 0
    /\ target.stage = "data" => target.moved < target.setup.length

(* At most one verb waits for its turn, and what the client holds still    *)
(* calls for it.                                                           *)
IsVerb(i) == event_queue[i].type = "Verb"
VerbQueued == \E i \in DOMAIN event_queue : IsVerb(i)

OneVerb == \A i, j \in DOMAIN event_queue : IsVerb(i) /\ IsVerb(j) => i = j

CalledFor ==
  VerbQueued =>
    /\ client.verb # None
    /\ client.verb = "connect" => sessions < MaxSessions
    /\ client.verb = "bus_reset" => Holds("BusReset")
    /\ client.verb = "read_control" => Holds("ReceiveControl")
    /\ client.verb = "read_endpoint" => Holds("ReceivePacket")
    /\ client.verb = "write_control_endpoint" => client.setup # NoSetup

(* The request of every event that announces one is in control_queue.      *)
At(s, type) == {i \in DOMAIN s : s[i].type = type}
Number(s, type) == Cardinality(At(s, type))

Controls(s) == Number(s, "ReceiveControl")

RequestsHeld ==
  /\ Len(control_queue) <= ControlQueueSize
  /\ Controls(client.inbox) + Controls(irq_queue) <= Len(control_queue)

DeviceOK ==
  /\ usb0 \in Usb /\ SetupPending
  /\ primed \subseteq OutEndpoints /\ data_ep \in OutEndpoints

EventsOK == event_queue \in Seq(Event) /\ OneVerb

QueuesOK ==
  /\ irq_queue \in Seq(IrqEvent)
  /\ control_queue \in Seq(SetupPacket)
  /\ packet_buffer \in Seq([ep : OutEndpoints, data : Seq(OutPacket)])
  /\ pending_set_address \in 0 .. 2 \union {None}
  /\ RequestsHeld

StuckOK == stuck \in {"nothing", "main", "core"} /\ StopsOnlyWhenFull

HostOK ==
  /\ target \in Target /\ InProgress
  /\ sent \in 0 .. NumPackets /\ resets \in 0 .. MaxResets

ClientOK ==
  client \in Client /\ sessions \in 0 .. MaxSessions /\ CalledFor

IInv == DeviceOK /\ EventsOK /\ QueuesOK /\ StuckOK /\ HostOK /\ ClientOK
-----------------------------------------------------------------------------
(* Sequences of events.                                                    *)

LEMMA Smallest ==
  ASSUME NEW S \in SUBSET Nat, S # {}
  PROVE  \E x \in S : \A y \in S : x <= y
<1>1. IsWellFoundedOn(OpToRel(<, Nat), Nat)
  BY NatLessThanWellFounded
<1>2. PICK x \in S : \A y \in S : ~ (<<y, x>> \in OpToRel(<, Nat))
  BY <1>1, WFMin
<1>3. \A m, n \in Nat : m < n => <<m, n>> \in OpToRel(<, Nat)
  BY DEF OpToRel
<1>4. ASSUME NEW y \in S PROVE x <= y
  <2>1. ~ (y < x)
    BY <1>2, <1>3
  <2>2. QED
    BY <2>1
<1>5. QED
  BY <1>4

LEMMA RemoveType ==
  ASSUME NEW S, NEW s \in Seq(S), NEW i \in DOMAIN s
  PROVE  Remove(s, i) \in Seq(S)
<1>1. SubSeq(s, 1, i - 1) \in Seq(S) /\ SubSeq(s, i + 1, Len(s)) \in Seq(S)
  OBVIOUS
<1>2. QED
  BY <1>1 DEF Remove

LEMMA NumberType ==
  ASSUME NEW S, NEW s \in Seq(S), NEW type
  PROVE  IsFiniteSet(At(s, type)) /\ Number(s, type) \in Nat
<1>1. IsFiniteSet(1 .. Len(s)) /\ At(s, type) \in SUBSET (1 .. Len(s))
  BY FS_Interval DEF At
<1>2. IsFiniteSet(At(s, type))
  BY <1>1, FS_Subset
<1>3. QED
  BY <1>2, FS_CardinalityType DEF Number

LEMMA NumberEmpty == \A type : Number(<<>>, type) = 0
<1>1. \A type : At(<<>>, type) = {}
  BY DEF At
<1>2. QED
  BY <1>1, FS_EmptySet DEF Number

LEMMA NumberAppend ==
  ASSUME NEW S, NEW s \in Seq(S), NEW event \in S, NEW type
  PROVE  Number(Append(s, event), type) =
           Number(s, type) + (IF event.type = type THEN 1 ELSE 0)
<1>1. Len(s) \in Nat /\ Len(s) + 1 \notin At(s, type)
  BY DEF At
<1>2. CASE event.type = type
  <2>1. At(Append(s, event), type) = At(s, type) \union {Len(s) + 1}
    BY <1>2 DEF At
  <2>2. QED
    BY <1>1, <1>2, <2>1, NumberType, FS_AddElement DEF Number
<1>3. CASE event.type # type
  <2>1. At(Append(s, event), type) = At(s, type)
    BY <1>3 DEF At
  <2>2. QED
    BY <1>3, <2>1, NumberType DEF Number
<1>4. QED
  BY <1>2, <1>3

LEMMA NumberTail ==
  ASSUME NEW S, NEW s \in Seq(S), s # <<>>, NEW type
  PROVE  Number(s, type) = Number(Tail(s), type)
           + (IF Head(s).type = type THEN 1 ELSE 0)
<1> DEFINE later == At(s, type) \ {1}
           shift == [i \in At(Tail(s), type) |-> i + 1]
<1>1. Tail(s) \in Seq(S) /\ Len(s) \in Nat \ {0}
      /\ Len(Tail(s)) = Len(s) - 1
      /\ \A i \in 1 .. Len(s) - 1 : Tail(s)[i] = s[i + 1]
  OBVIOUS
<1>2. /\ \A i \in At(Tail(s), type) : i \in Nat /\ i + 1 \in later
      /\ \A j \in later : j - 1 \in At(Tail(s), type) /\ (j - 1) + 1 = j
  BY <1>1 DEF At
<1>3. shift \in Bijection(At(Tail(s), type), later)
  <2>1. shift \in [At(Tail(s), type) -> later]
    BY <1>2
  <2>2. \A i, j \in At(Tail(s), type) : shift[i] = shift[j] => i = j
    BY <1>2
  <2>3. \A j \in later : \E i \in At(Tail(s), type) : shift[i] = j
    BY <1>2
  <2>4. QED
    BY <2>1, <2>2, <2>3 DEF Bijection, Injection, Surjection, IsInjective
<1>4. IsFiniteSet(At(Tail(s), type)) /\ IsFiniteSet(At(s, type))
      /\ Number(s, type) \in Nat
  BY <1>1, NumberType
<1>5. ExistsBijection(At(Tail(s), type), later)
  BY <1>3 DEF ExistsBijection
<1>6. Cardinality(later) = Number(Tail(s), type)
  BY <1>4, <1>5, FS_Bijection DEF Number
<1>7. Cardinality(later) = IF 1 \in At(s, type) THEN Number(s, type) - 1
                           ELSE Number(s, type)
  BY <1>4, FS_RemoveElement DEF Number
<1>8. 1 \in At(s, type) <=> Head(s).type = type
  BY <1>1 DEF At
<1>9. Number(Tail(s), type) \in Nat
  BY <1>1, NumberType
<1>10. QED
  BY <1>4, <1>6, <1>7, <1>8, <1>9

LEMMA ControlsType ==
  ASSUME NEW s \in Seq(IrqEvent)
  PROVE  Controls(s) \in Nat
BY NumberType DEF Controls

LEMMA ControlsEmpty == Controls(<<>>) = 0
BY NumberEmpty DEF Controls

LEMMA ControlsAppend ==
  ASSUME NEW s \in Seq(IrqEvent), NEW event \in IrqEvent
  PROVE  Controls(Append(s, event)) =
           Controls(s) + (IF event.type = "ReceiveControl" THEN 1 ELSE 0)
BY NumberAppend DEF Controls

LEMMA ControlsTail ==
  ASSUME NEW s \in Seq(IrqEvent), s # <<>>
  PROVE  Controls(s) = Controls(Tail(s))
           + (IF Head(s).type = "ReceiveControl" THEN 1 ELSE 0)
BY NumberTail DEF Controls
-----------------------------------------------------------------------------
(* The queue of events.                                                    *)

LEMMA EnqueueStep ==
  ASSUME EventsOK, StuckOK, NEW event \in Event, Enqueue(event),
         event.type = "Verb" => ~ VerbQueued
  PROVE  /\ EventsOK' /\ stuck' \in {stuck, "core"}
         /\ event.type # "Verb" => (VerbQueued' => VerbQueued)
<1>1. CASE event_queue' = <<>> /\ stuck' = "core"
  <2>1. event_queue' \in Seq(Event) /\ DOMAIN event_queue' = {}
    BY <1>1
  <2>2. QED
    BY <1>1, <2>1 DEF EventsOK, OneVerb, VerbQueued, IsVerb
<1>2. CASE event_queue' = Append(event_queue, event) /\ stuck' = stuck
  <2>1. event_queue \in Seq(Event)
    BY DEF EventsOK
  <2>2. /\ event_queue' \in Seq(Event)
        /\ \A i \in DOMAIN event_queue' :
             \/ i \in DOMAIN event_queue /\ event_queue'[i] = event_queue[i]
             \/ i = Len(event_queue) + 1 /\ event_queue'[i] = event
    BY <1>2, <2>1
  <2>3. OneVerb'
    BY <2>2 DEF EventsOK, OneVerb, VerbQueued, IsVerb
  <2>4. event.type # "Verb" => (VerbQueued' => VerbQueued)
    BY <2>2 DEF VerbQueued, IsVerb
  <2>5. QED
    BY <1>2, <2>2, <2>3, <2>4 DEF EventsOK
<1>3. QED
  BY <1>1, <1>2 DEF Enqueue

LEMMA NextEventStep ==
  ASSUME EventsOK, NEW type, NextEvent(type)
  PROVE  /\ EventsOK'
         /\ Head(event_queue) \in Event /\ Head(event_queue).type = type
         /\ VerbQueued' => VerbQueued
         /\ type = "Verb" => VerbQueued /\ ~ VerbQueued'
         /\ stuck = "nothing"
<1>1. /\ event_queue \in Seq(Event) /\ event_queue # <<>>
      /\ event_queue' = Tail(event_queue)
      /\ Head(event_queue).type = type /\ stuck = "nothing"
  BY DEF EventsOK, NextEvent, MainRuns
<1>2. /\ event_queue' \in Seq(Event) /\ Head(event_queue) \in Event
      /\ 1 \in DOMAIN event_queue /\ Head(event_queue) = event_queue[1]
      /\ \A i \in DOMAIN event_queue' :
           /\ i \in Nat \ {0} /\ i + 1 \in DOMAIN event_queue
           /\ event_queue'[i] = event_queue[i + 1]
  BY <1>1
<1>3. OneVerb'
  <2>1. ASSUME NEW i \in DOMAIN event_queue', NEW j \in DOMAIN event_queue',
               IsVerb(i)', IsVerb(j)'
        PROVE  i = j
    <3>1. IsVerb(i + 1) /\ IsVerb(j + 1)
      BY <1>2, <2>1 DEF IsVerb
    <3>2. i + 1 = j + 1
      BY <1>2, <3>1 DEF EventsOK, OneVerb
    <3>3. QED
      BY <1>2, <3>2
  <2>2. QED
    BY <2>1 DEF OneVerb, IsVerb
<1>4. VerbQueued' => VerbQueued
  BY <1>2 DEF VerbQueued, IsVerb
<1>5. ASSUME type = "Verb"
      PROVE  VerbQueued /\ ~ VerbQueued'
  <2>1. IsVerb(1)
    BY <1>1, <1>2, <1>5 DEF IsVerb
  <2>2. ASSUME NEW i \in DOMAIN event_queue', IsVerb(i)'
        PROVE  FALSE
    <3>1. IsVerb(i + 1) /\ i + 1 # 1
      BY <1>2, <2>2 DEF IsVerb
    <3>2. QED
      BY <1>2, <2>1, <3>1 DEF EventsOK, OneVerb
  <2>3. QED
    BY <1>2, <2>1, <2>2 DEF VerbQueued, IsVerb
<1>6. QED
  BY <1>1, <1>2, <1>3, <1>4, <1>5 DEF EventsOK

LEMMA IrqEnqueueStep ==
  ASSUME QueuesOK, client \in Client, NEW event \in IrqEvent, IrqEnqueue(event)
  PROVE  /\ irq_queue' \in Seq(IrqEvent)
         /\ Controls(irq_queue') <= Controls(irq_queue)
               + (IF event.type = "ReceiveControl" THEN 1 ELSE 0)
<1>1. irq_queue \in Seq(IrqEvent) /\ Controls(irq_queue) \in Nat
  BY ControlsType DEF QueuesOK
<1>2. irq_queue' = irq_queue \/ irq_queue' = Append(irq_queue, event)
  BY DEF IrqEnqueue
<1> DEFINE one == IF event.type = "ReceiveControl" THEN 1 ELSE 0
<1>3. Append(irq_queue, event) \in Seq(IrqEvent)
  BY <1>1
<1>4. Controls(Append(irq_queue, event)) = Controls(irq_queue) + one
  BY <1>1, ControlsAppend
<1>5. one \in Nat
  OBVIOUS
<1> HIDE DEF one
<1>6. Controls(irq_queue') <= Controls(irq_queue) + one
  <2>1. CASE irq_queue' = irq_queue
    BY <1>1, <1>5, <2>1
  <2>2. CASE irq_queue' = Append(irq_queue, event)
    BY <1>1, <1>4, <1>5, <2>2
  <2>3. QED
    BY <1>2, <2>1, <2>2
<1>7. QED
  BY <1>1, <1>2, <1>3, <1>6 DEF one

(* The client's part while it waits, or only answers arrive.               *)
LEMMA ClientWaits ==
  ASSUME ClientOK, VerbQueued' => VerbQueued, UNCHANGED <<client, sessions>>
  PROVE  ClientOK'
BY DEF ClientOK, CalledFor, Holds

LEMMA StuckKeeps ==
  ASSUME StuckOK, stuck' \in {stuck, "core"}, UNCHANGED control_queue
  PROVE  StuckOK'
BY DEF StuckOK, StopsOnlyWhenFull
-----------------------------------------------------------------------------
(* Interrupts and events.                                                  *)

LEMMA MachineExternalStep ==
  ASSUME IInv, MachineExternal
  PROVE  IInv'
<1> DEFINE irq == HighestPending(usb0.pending)
           event(type, ep, data) == [type |-> type, ep |-> ep, data |-> data]
<1>1. /\ usb0 \in Usb /\ usb0.pending # {} /\ data_ep \in OutEndpoints
      /\ SetupPending
  BY DEF IInv, DeviceOK, MachineExternal
<1>2. irq \in usb0.pending
  BY <1>1, HighestPendingIsPending DEF Usb
<1>3. /\ event("BusReset", 0, <<>>) \in Event
      /\ event("SendComplete", 0, <<>>) \in Event
      /\ event("ReceivePacket", data_ep, usb0.out) \in Event
      /\ usb0.setup # NoSetup => event("ReceiveSetupPacket", 0, usb0.setup) \in Event
  BY <1>1 DEF Event, Usb
<1> HIDE DEF irq
<1>4. /\ usb0' \in Usb /\ SetupPending'
      /\ \E e \in Event : e.type # "Verb" /\ Enqueue(e)
  <2>1. CASE /\ irq = "BusReset" /\ usb0' = BusReset(usb0)
             /\ Enqueue(event("BusReset", 0, <<>>))
    BY <1>1, <1>3, <2>1, InterruptType DEF BusReset, Usb, SetupPending
  <2>2. CASE /\ irq = "EpControl" /\ usb0' = ReadSetup(usb0)
             /\ Enqueue(event("ReceiveSetupPacket", 0, usb0.setup))
    <3>1. usb0' \in Usb /\ "EpControl" \notin usb0'.pending
      BY <1>1, <2>2, InterruptType DEF ReadSetup, ClearPending, Usb
    <3>2. usb0.setup # NoSetup
      BY <1>1, <1>2, <2>2 DEF SetupPending
    <3>3. QED
      BY <1>3, <2>2, <3>1, <3>2 DEF SetupPending
  <2>3. CASE /\ irq = "EpIn" /\ usb0' = SendComplete(usb0)
             /\ Enqueue(event("SendComplete", 0, <<>>))
    BY <1>1, <1>3, <2>3, InterruptType
       DEF SendComplete, ClearPending, Usb, SetupPending
  <2>4. CASE /\ irq = "EpOut" /\ usb0' = ClearPending(usb0, "EpOut")
             /\ Enqueue(event("ReceivePacket", data_ep, usb0.out))
    BY <1>1, <1>3, <2>4, InterruptType DEF ClearPending, Usb, SetupPending
  <2>5. QED
    BY <2>1, <2>2, <2>3, <2>4, Zenon DEF MachineExternal, irq
<1>5. /\ EventsOK' /\ stuck' \in {stuck, "core"}
      /\ VerbQueued' => VerbQueued
  BY <1>4, EnqueueStep DEF IInv
<1>6. UNCHANGED <<outVars, queueVars, targetVars, client, sessions>>
  BY DEF MachineExternal
<1>7. DeviceOK' /\ QueuesOK' /\ HostOK'
  BY <1>4, <1>6 DEF IInv, DeviceOK, QueuesOK, HostOK, RequestsHeld, InProgress,
                    outVars, queueVars, targetVars
<1>8. StuckOK' /\ ClientOK'
  BY <1>5, <1>6, StuckKeeps, ClientWaits DEF IInv, queueVars
<1>9. QED
  BY <1>5, <1>7, <1>8 DEF IInv

(* What all arms of dispatch_event leave alone.                            *)
LEMMA DispatchFrame ==
  ASSUME IInv, NEW type \in {"BusReset", "ReceiveSetupPacket", "SendComplete",
                             "ReceivePacket"},
         NextEvent(type),
         usb0' \in Usb, usb0'.pending = usb0.pending, usb0'.setup = usb0.setup,
         QueuesOK', StuckOK', UNCHANGED <<outVars, targetVars, client, sessions>>
  PROVE  IInv'
<1>1. EventsOK' /\ (VerbQueued' => VerbQueued)
  BY NextEventStep DEF IInv
<1>2. DeviceOK' /\ HostOK'
  BY DEF IInv, DeviceOK, HostOK, SetupPending, InProgress, outVars, targetVars
<1>3. ClientOK'
  BY <1>1, ClientWaits DEF IInv
<1>4. QED
  BY <1>1, <1>2, <1>3 DEF IInv

LEMMA QueuesKept ==
  ASSUME QueuesOK, client \in Client, UNCHANGED <<client, control_queue>>,
         irq_queue' \in Seq(IrqEvent),
         Controls(irq_queue') <= Controls(irq_queue),
         packet_buffer' \in Seq([ep : OutEndpoints, data : Seq(OutPacket)]),
         pending_set_address' \in 0 .. 2 \union {None}
  PROVE  QueuesOK'
<1>1. client.inbox \in Seq(IrqEvent) /\ irq_queue \in Seq(IrqEvent)
  BY DEF Client, QueuesOK
<1>2. Controls(client.inbox) \in Nat /\ Controls(irq_queue) \in Nat
      /\ Controls(irq_queue') \in Nat /\ Len(control_queue) \in Nat
  BY <1>1, ControlsType DEF QueuesOK
<1>3. RequestsHeld'
  BY <1>2 DEF QueuesOK, RequestsHeld
<1>4. QED
  BY <1>3 DEF QueuesOK

LEMMA OnBusResetStep ==
  ASSUME IInv, OnBusReset
  PROVE  IInv'
<1> DEFINE event == [type |-> "BusReset", ep |-> 0, tag |-> <<>>]
<1>1. event \in IrqEvent /\ event.type # "ReceiveControl"
  BY DEF IrqEvent
<1>2. QueuesOK /\ client \in Client /\ Controls(irq_queue) \in Nat
  BY ControlsType DEF IInv, QueuesOK, ClientOK
<1>3. NextEvent("BusReset") /\ IrqEnqueue(event) /\ pending_set_address' = None
      /\ UNCHANGED <<usb0, outVars, stuck, control_queue, packet_buffer,
                     targetVars, client, sessions>>
  BY DEF OnBusReset
<1> HIDE DEF event
<1>4. irq_queue' \in Seq(IrqEvent) /\ Controls(irq_queue') <= Controls(irq_queue)
  <2>1. irq_queue' \in Seq(IrqEvent)
        /\ Controls(irq_queue') <= Controls(irq_queue) + 0
    BY <1>1, <1>2, <1>3, IrqEnqueueStep
  <2>2. QED
    BY <1>2, <2>1
<1>5. QueuesOK'
  BY <1>2, <1>3, <1>4, QueuesKept DEF QueuesOK
<1>6. StuckOK'
  BY <1>3, StuckKeeps DEF IInv
<1>7. QED
  BY <1>3, <1>5, <1>6, DispatchFrame DEF IInv, DeviceOK

LEMMA OnSetAddressStep ==
  ASSUME IInv, OnSetAddress
  PROVE  IInv'
<1> DEFINE setup == Head(event_queue).data
<1>1. NextEvent("ReceiveSetupPacket")
      /\ pending_set_address' = setup.value /\ usb0' = WriteZlp(usb0, setup.id)
      /\ UNCHANGED <<outVars, stuck, irq_queue, control_queue, packet_buffer,
                     targetVars, client, sessions>>
  BY DEF OnSetAddress
<1>2. setup \in SetupPacket
  BY <1>1, NextEventStep DEF IInv, Event
<1>3. usb0 \in Usb /\ QueuesOK /\ client \in Client /\ Controls(irq_queue) \in Nat
  BY ControlsType DEF IInv, DeviceOK, QueuesOK, ClientOK
<1>4. setup.value \in 0 .. 2 /\ setup.id \in Transfers
  BY <1>2 DEF SetupPacket
<1> HIDE DEF setup
<1>5. usb0' \in Usb /\ usb0'.pending = usb0.pending /\ usb0'.setup = usb0.setup
  BY <1>1, <1>3, <1>4, WriteZlpType, CallsKeepInterrupts DEF WriteZlp
<1>6. QueuesOK'
  BY <1>1, <1>3, <1>4, QueuesKept DEF QueuesOK
<1>7. StuckOK'
  BY <1>1, StuckKeeps DEF IInv
<1>8. QED
  BY <1>1, <1>5, <1>6, <1>7, DispatchFrame

LEMMA OnSetupStep ==
  ASSUME IInv, OnSetup
  PROVE  IInv'
<1> DEFINE setup == Head(event_queue).data
           event == [type |-> "ReceiveControl", ep |-> 0, tag |-> setup.id]
<1>1. /\ NextEvent("ReceiveSetupPacket")
      /\ \/ /\ Len(control_queue) < ControlQueueSize
            /\ control_queue' = Append(control_queue, setup)
            /\ IrqEnqueue(event)
            /\ UNCHANGED stuck
         \/ /\ Len(control_queue) >= ControlQueueSize
            /\ stuck' = "main"
            /\ UNCHANGED <<control_queue, irq_queue>>
      /\ UNCHANGED <<usb0, outVars, packet_buffer, pending_set_address,
                     targetVars, client, sessions>>
  BY DEF OnSetup
<1>2. setup \in SetupPacket /\ stuck = "nothing"
  BY <1>1, NextEventStep DEF IInv, Event
<1>3. event \in IrqEvent /\ event.type = "ReceiveControl"
  BY <1>2 DEF IrqEvent, SetupPacket
<1> HIDE DEF setup, event
<1>4. /\ QueuesOK /\ client \in Client /\ irq_queue \in Seq(IrqEvent)
      /\ control_queue \in Seq(SetupPacket) /\ client.inbox \in Seq(IrqEvent)
      /\ Len(control_queue) <= ControlQueueSize
  BY DEF IInv, QueuesOK, ClientOK, Client, RequestsHeld
<1>5. /\ Controls(irq_queue) \in Nat /\ Controls(client.inbox) \in Nat
      /\ Len(control_queue) \in Nat /\ ControlQueueSize \in Nat
  BY <1>4, ControlsType, MoondancerAssumption
<1>6. CASE /\ Len(control_queue) < ControlQueueSize
           /\ control_queue' = Append(control_queue, setup)
           /\ IrqEnqueue(event)
           /\ UNCHANGED stuck
  <2>1. irq_queue' \in Seq(IrqEvent)
        /\ Controls(irq_queue') <= Controls(irq_queue) + 1
    BY <1>3, <1>4, <1>6, IrqEnqueueStep
  <2>2. Controls(irq_queue') \in Nat
    BY <2>1, ControlsType
  <2>3. control_queue' \in Seq(SetupPacket)
        /\ Len(control_queue') = Len(control_queue) + 1
    BY <1>2, <1>4, <1>6
  <2>4. RequestsHeld'
    BY <1>1, <1>4, <1>5, <1>6, <2>1, <2>2, <2>3 DEF QueuesOK, RequestsHeld
  <2>5. QueuesOK'
    BY <1>1, <2>1, <2>3, <2>4 DEF IInv, QueuesOK
  <2>6. StuckOK'
    BY <1>2, <1>6 DEF StuckOK, StopsOnlyWhenFull
  <2>7. QED
    BY <1>1, <2>5, <2>6, DispatchFrame DEF IInv, DeviceOK
<1>7. CASE /\ Len(control_queue) >= ControlQueueSize
           /\ stuck' = "main"
           /\ UNCHANGED <<control_queue, irq_queue>>
  <2>1. QueuesOK'
    BY <1>1, <1>7 DEF IInv, QueuesOK, RequestsHeld
  <2>2. StuckOK'
    BY <1>4, <1>5, <1>7 DEF StuckOK, StopsOnlyWhenFull
  <2>3. QED
    BY <1>1, <2>1, <2>2, DispatchFrame DEF IInv, DeviceOK
<1>8. QED
  BY <1>1, <1>6, <1>7

LEMMA OnSendCompleteStep ==
  ASSUME IInv, OnSendComplete
  PROVE  IInv'
<1>1. NextEvent("SendComplete") /\ pending_set_address' = None
      /\ usb0' = (IF pending_set_address = None THEN usb0
                  ELSE SetAddress(usb0, pending_set_address))
      /\ UNCHANGED <<outVars, stuck, irq_queue, control_queue, packet_buffer,
                     targetVars, client, sessions>>
  BY DEF OnSendComplete
<1>2. /\ usb0 \in Usb /\ QueuesOK /\ client \in Client
      /\ pending_set_address \in 0 .. 2 \union {None}
      /\ Controls(irq_queue) \in Nat
  BY ControlsType DEF IInv, DeviceOK, QueuesOK, ClientOK
<1>3. usb0' \in Usb /\ usb0'.pending = usb0.pending /\ usb0'.setup = usb0.setup
  BY <1>1, <1>2 DEF SetAddress, Usb
<1>4. QueuesOK'
  BY <1>1, <1>2, QueuesKept DEF QueuesOK
<1>5. StuckOK'
  BY <1>1, StuckKeeps DEF IInv
<1>6. QED
  BY <1>1, <1>3, <1>4, <1>5, DispatchFrame

LEMMA OnReceivePacketStep ==
  ASSUME IInv, OnReceivePacket
  PROVE  IInv'
<1> DEFINE head == Head(event_queue)
           event == [type |-> "ReceivePacket", ep |-> head.ep, tag |-> head.data]
           packet == [ep |-> head.ep, data |-> usb0.out]
<1>1. /\ NextEvent("ReceivePacket") /\ IrqEnqueue(event) /\ usb0' = Read(usb0)
      /\ packet_buffer' \in {packet_buffer, Append(packet_buffer, packet)}
      /\ UNCHANGED <<outVars, stuck, control_queue, pending_set_address,
                     targetVars, client, sessions>>
  BY DEF OnReceivePacket
<1>2. /\ usb0 \in Usb /\ QueuesOK /\ client \in Client
      /\ packet_buffer \in Seq([ep : OutEndpoints, data : Seq(OutPacket)])
      /\ Controls(irq_queue) \in Nat
  BY ControlsType DEF IInv, DeviceOK, QueuesOK, ClientOK
<1>3. head.ep \in OutEndpoints /\ head.data \in Seq(OutPacket)
  BY <1>1, NextEventStep DEF IInv, Event
<1>4. event \in IrqEvent /\ event.type # "ReceiveControl"
  BY <1>3 DEF IrqEvent
<1>5. packet \in [ep : OutEndpoints, data : Seq(OutPacket)]
  BY <1>2, <1>3 DEF Usb
<1> HIDE DEF head, event, packet
<1>6. packet_buffer' \in Seq([ep : OutEndpoints, data : Seq(OutPacket)])
  <2> SUFFICES ASSUME NEW S, NEW s \in Seq(S), NEW x \in S
               PROVE  Append(s, x) \in Seq(S)
    BY <1>1, <1>2, <1>5
  <2> QED
    OBVIOUS
<1>7. irq_queue' \in Seq(IrqEvent) /\ Controls(irq_queue') <= Controls(irq_queue)
  <2>1. irq_queue' \in Seq(IrqEvent)
        /\ Controls(irq_queue') <= Controls(irq_queue) + 0
    BY <1>1, <1>2, <1>4, IrqEnqueueStep
  <2>2. QED
    BY <1>2, <2>1
<1>8. QueuesOK'
  BY <1>1, <1>2, <1>6, <1>7, QueuesKept DEF QueuesOK
<1>9. StuckOK'
  BY <1>1, StuckKeeps DEF IInv
<1>10. usb0' \in Usb /\ usb0'.pending = usb0.pending /\ usb0'.setup = usb0.setup
  BY <1>1, <1>2, DriverCallsType, CallsKeepInterrupts
<1>11. QED
  BY <1>1, <1>8, <1>9, <1>10, DispatchFrame
-----------------------------------------------------------------------------
(* The verbs.                                                              *)

LEMMA ExecuteStep ==
  ASSUME IInv, NEW verb, Execute(verb)
  PROVE  /\ EventsOK' /\ ~ VerbQueued' /\ stuck = "nothing"
         /\ client.verb = verb /\ VerbQueued
BY NextEventStep DEF IInv, Execute

(* A verb that changes the controller, the client and the queues within    *)
(* their types.                                                            *)
LEMMA VerbFrame ==
  ASSUME IInv, NEW verb, Execute(verb),
         usb0' \in Usb, SetupPending', primed' \subseteq OutEndpoints,
         client' \in Client, sessions' \in 0 .. MaxSessions,
         QueuesOK', StuckOK', HostOK', UNCHANGED data_ep
  PROVE  IInv'
<1>1. EventsOK' /\ ~ VerbQueued'
  BY ExecuteStep
<1>2. DeviceOK'
  BY DEF IInv, DeviceOK
<1>3. ClientOK'
  BY <1>1 DEF ClientOK, CalledFor
<1>4. QED
  BY <1>1, <1>2, <1>3 DEF IInv

LEMMA DetachedType ==
  ASSUME NEW u \in Usb
  PROVE  Detached(u) \in Usb /\ Detached(u).pending = {}
<1>1. <<>> \in Seq(InPacket) /\ <<>> \in Seq(OutPacket) /\ {} \in SUBSET Irq
  OBVIOUS
<1>2. QED
  BY <1>1 DEF Detached, Usb

LEMMA ConnectStep ==
  ASSUME IInv, Connect
  PROVE  IInv'
<1>1. /\ Execute("connect") /\ usb0' = Detached(usb0) /\ primed' = {}
      /\ client' = [client EXCEPT !.verb = None, !.connected = TRUE]
      /\ sessions' = sessions + 1
      /\ UNCHANGED <<data_ep, stuck, queueVars, targetVars>>
  BY DEF Connect
<1>2. usb0 \in Usb /\ client \in Client /\ sessions \in 0 .. MaxSessions
      /\ MaxSessions \in Nat
  BY MoondancerAssumption DEF IInv, DeviceOK, ClientOK
<1>3. usb0' \in Usb /\ SetupPending'
  BY <1>1, <1>2, DetachedType DEF SetupPending
<1>4. client' \in Client /\ client'.inbox = client.inbox
  BY <1>1, <1>2 DEF Client
<1>5. sessions < MaxSessions
  BY <1>1, ExecuteStep DEF IInv, ClientOK, CalledFor
<1>6. sessions' \in 0 .. MaxSessions
  BY <1>1, <1>2, <1>5
<1>7. QueuesOK' /\ HostOK' /\ StuckOK'
  BY <1>1, <1>4, StuckKeeps DEF IInv, QueuesOK, RequestsHeld, HostOK, InProgress,
     queueVars, targetVars
<1>8. QED
  BY <1>1, <1>3, <1>4, <1>6, <1>7, VerbFrame

LEMMA EndedTarget ==
  ASSUME target \in Target
  PROVE  Ended \in Target /\ Ended.stage = "idle" /\ Ended.id = target.id
<1>1. 0 \in 0 .. MaxLength
  BY EndpointAssumption
<1>2. QED
  BY <1>1 DEF Ended, Target

LEMMA DisconnectStep ==
  ASSUME IInv, Disconnect
  PROVE  IInv'
<1>1. /\ Execute("disconnect") /\ usb0' = SetAddress(Detached(usb0), 0)
      /\ primed' = {} /\ pending_set_address' = None
      /\ irq_queue' = <<>> /\ control_queue' = <<>>
      /\ client' = [client EXCEPT !.verb = None, !.connected = FALSE,
                      !.inbox = <<>>, !.setup = NoSetup, !.armed = FALSE]
      /\ target' = Ended
      /\ UNCHANGED <<data_ep, stuck, packet_buffer, sent, resets, sessions>>
  BY DEF Disconnect, Ended
<1>2. usb0 \in Usb /\ client \in Client /\ target \in Target
      /\ ControlQueueSize \in Nat
  BY MoondancerAssumption DEF IInv, DeviceOK, ClientOK, HostOK
<1>3. Detached(usb0) \in Usb /\ Detached(usb0).pending = {}
  BY <1>2, DetachedType
<1>4. usb0' \in Usb /\ SetupPending'
  BY <1>1, <1>3 DEF SetAddress, Usb, SetupPending
<1>5. <<>> \in Seq(IrqEvent) /\ <<>> \in Seq(SetupPacket) /\ Len(<<>>) = 0
  OBVIOUS
<1>6. client' \in Client /\ client'.inbox = <<>>
  BY <1>1, <1>2, <1>5 DEF Client
<1>7. QueuesOK'
  BY <1>1, <1>2, <1>5, <1>6, ControlsEmpty DEF IInv, QueuesOK, RequestsHeld
<1>8. HostOK'
  BY <1>1, <1>2, EndedTarget DEF IInv, HostOK, InProgress
<1>9. StuckOK'
  BY <1>1, ExecuteStep DEF StuckOK, StopsOnlyWhenFull
<1>10. QED
  BY <1>1, <1>4, <1>6, <1>7, <1>8, <1>9, VerbFrame DEF IInv, ClientOK

LEMMA GetInterruptEventsStep ==
  ASSUME IInv, GetInterruptEvents
  PROVE  IInv'
<1> DEFINE armed == client.armed /\ \A i \in DOMAIN irq_queue :
                                     irq_queue[i].type # "ReceivePacket"
<1>1. /\ Execute("get_interrupt_events") /\ irq_queue' = <<>>
      /\ client' = [client EXCEPT !.verb = None, !.inbox = irq_queue,
                                  !.armed = armed]
      /\ UNCHANGED <<usb0, outVars, stuck, control_queue, packet_buffer,
                     pending_set_address, targetVars, sessions>>
  BY DEF GetInterruptEvents
<1>2. armed \in BOOLEAN
  BY DEF IInv, ClientOK, Client
<1> HIDE DEF armed
<1>3. /\ client \in Client /\ irq_queue \in Seq(IrqEvent)
      /\ client.inbox \in Seq(IrqEvent) /\ control_queue \in Seq(SetupPacket)
      /\ <<>> \in Seq(IrqEvent)
  BY DEF IInv, ClientOK, QueuesOK, Client
<1>4. client' \in Client /\ client'.inbox = irq_queue
  BY <1>1, <1>2, <1>3 DEF Client
<1>5. Controls(irq_queue) \in Nat /\ Controls(client.inbox) \in Nat
      /\ Len(control_queue) \in Nat
  BY <1>3, ControlsType
<1>6. RequestsHeld'
  BY <1>1, <1>4, <1>5, ControlsEmpty DEF IInv, QueuesOK, RequestsHeld
<1>7. QueuesOK' /\ HostOK' /\ StuckOK'
  BY <1>1, <1>3, <1>6, StuckKeeps
     DEF IInv, QueuesOK, HostOK, InProgress, targetVars
<1>8. QED
  BY <1>1, <1>4, <1>7, VerbFrame
     DEF IInv, DeviceOK, SetupPending, ClientOK, outVars

(* The client deals with the oldest event it holds.                        *)
LEMMA InboxTail ==
  ASSUME IInv, client.inbox # <<>>
  PROVE  /\ Tail(client.inbox) \in Seq(IrqEvent)
         /\ Controls(Tail(client.inbox)) \in Nat
         /\ Controls(Tail(client.inbox)) <= Controls(client.inbox)
         /\ Holds("ReceiveControl") =>
              Controls(client.inbox) = Controls(Tail(client.inbox)) + 1
<1>1. client.inbox \in Seq(IrqEvent)
  BY DEF IInv, ClientOK, Client
<1>2. Tail(client.inbox) \in Seq(IrqEvent)
  BY <1>1
<1>3. Controls(Tail(client.inbox)) \in Nat
  BY <1>2, ControlsType
<1>4. CASE Holds("ReceiveControl")
  <2>1. Controls(client.inbox) = Controls(Tail(client.inbox)) + 1
    BY <1>1, <1>4, ControlsTail DEF Holds
  <2>2. QED
    BY <1>2, <1>3, <2>1
<1>5. CASE ~ Holds("ReceiveControl")
  <2>1. Controls(client.inbox) = Controls(Tail(client.inbox)) + 0
    BY <1>1, <1>5, ControlsTail DEF Holds
  <2>2. QED
    BY <1>2, <1>3, <1>5, <2>1
<1>6. QED
  BY <1>4, <1>5

LEMMA BusResetVerbStep ==
  ASSUME IInv, BusResetVerb
  PROVE  IInv'
<1>1. /\ Execute("bus_reset")
      /\ client' = [client EXCEPT !.verb = None, !.setup = NoSetup,
                                  !.inbox = Tail(client.inbox)]
      /\ UNCHANGED <<usb0, outVars, stuck, queueVars, targetVars, sessions>>
  BY DEF BusResetVerb
<1>2. client.inbox # <<>>
  BY <1>1, ExecuteStep DEF IInv, ClientOK, CalledFor, Holds
<1>3. client \in Client /\ client.inbox \in Seq(IrqEvent)
      /\ irq_queue \in Seq(IrqEvent) /\ control_queue \in Seq(SetupPacket)
  BY DEF IInv, ClientOK, QueuesOK, Client
<1>4. client' \in Client /\ client'.inbox = Tail(client.inbox)
  BY <1>1, <1>2, <1>3, InboxTail DEF Client
<1>5. Controls(irq_queue) \in Nat /\ Controls(client.inbox) \in Nat
      /\ Len(control_queue) \in Nat
  BY <1>3, ControlsType
<1>6. UNCHANGED <<irq_queue, control_queue, packet_buffer, pending_set_address>>
  BY <1>1 DEF queueVars
<1>7. RequestsHeld'
  BY <1>2, <1>4, <1>5, <1>6, InboxTail DEF IInv, QueuesOK, RequestsHeld
<1>8. QueuesOK' /\ HostOK' /\ StuckOK'
  BY <1>1, <1>6, <1>7, StuckKeeps
     DEF IInv, QueuesOK, HostOK, InProgress, targetVars
<1>9. QED
  BY <1>1, <1>4, <1>8, VerbFrame
     DEF IInv, DeviceOK, SetupPending, ClientOK, outVars

(* The request of the event the client holds is in control_queue.         *)
LEMMA ReadControlHeld ==
  ASSUME IInv, ReadControl
  PROVE  control_queue # <<>>
<1>1. Execute("read_control")
  BY DEF ReadControl
<1>2. Holds("ReceiveControl") /\ client.inbox # <<>>
  BY <1>1, ExecuteStep DEF IInv, ClientOK, CalledFor, Holds
<1>3. client.inbox \in Seq(IrqEvent) /\ irq_queue \in Seq(IrqEvent)
      /\ control_queue \in Seq(SetupPacket)
  BY DEF IInv, ClientOK, QueuesOK, Client
<1>4. Controls(irq_queue) \in Nat /\ Len(control_queue) \in Nat
      /\ Controls(client.inbox) + Controls(irq_queue) <= Len(control_queue)
  BY <1>3, ControlsType DEF IInv, QueuesOK, RequestsHeld
<1>5. Len(control_queue) # 0
  BY <1>2, <1>4, InboxTail
<1>6. QED
  BY <1>5

LEMMA ReadControlStep ==
  ASSUME IInv, ReadControl
  PROVE  IInv'
<1>1. Execute("read_control")
      /\ UNCHANGED <<usb0, outVars, irq_queue, packet_buffer,
                     pending_set_address, targetVars, sessions>>
  BY DEF ReadControl
<1>2. Holds("ReceiveControl") /\ client.inbox # <<>>
  BY <1>1, ExecuteStep DEF IInv, ClientOK, CalledFor, Holds
<1>3. client \in Client /\ client.inbox \in Seq(IrqEvent)
      /\ irq_queue \in Seq(IrqEvent) /\ control_queue \in Seq(SetupPacket)
  BY DEF IInv, ClientOK, QueuesOK, Client
<1>4. Controls(irq_queue) \in Nat /\ Controls(client.inbox) \in Nat
      /\ Len(control_queue) \in Nat /\ ControlQueueSize \in Nat
      /\ Len(control_queue) <= ControlQueueSize
      /\ Controls(client.inbox) + Controls(irq_queue) <= Len(control_queue)
  BY <1>3, ControlsType, MoondancerAssumption DEF IInv, QueuesOK, RequestsHeld
<1>5. control_queue # <<>>
  BY ReadControlHeld
<1>6. Len(control_queue) # 0
  BY <1>3, <1>5
<1>7. /\ client' = [client EXCEPT !.verb = None, !.inbox = Tail(client.inbox),
                                  !.setup = Head(control_queue)]
      /\ control_queue' = Tail(control_queue)
      /\ UNCHANGED stuck
  BY <1>5 DEF ReadControl
<1>8. /\ Head(control_queue) \in SetupPacket
      /\ control_queue' \in Seq(SetupPacket)
      /\ Len(control_queue') = Len(control_queue) - 1
  BY <1>3, <1>5, <1>7
<1>9. client' \in Client /\ client'.inbox = Tail(client.inbox)
  BY <1>2, <1>3, <1>7, <1>8, InboxTail DEF Client
<1>10. RequestsHeld'
  BY <1>1, <1>2, <1>4, <1>6, <1>8, <1>9, InboxTail DEF RequestsHeld
<1>11. QueuesOK' /\ HostOK'
  BY <1>1, <1>8, <1>10 DEF IInv, QueuesOK, HostOK, InProgress, targetVars
<1>12. StuckOK'
  BY <1>1, <1>7, ExecuteStep DEF StuckOK, StopsOnlyWhenFull
<1>13. QED
  BY <1>1, <1>9, <1>11, <1>12, VerbFrame
     DEF IInv, DeviceOK, SetupPending, ClientOK, outVars

LEMMA ReadEndpointStep ==
  ASSUME IInv, ReadEndpoint
  PROVE  IInv'
<1> DEFINE buffered == {i \in DOMAIN packet_buffer : packet_buffer[i].ep = client.ep}
           first == CHOOSE i \in buffered : \A j \in buffered : i <= j
           Packets == [ep : OutEndpoints, data : Seq(OutPacket)]
<1>1. /\ Execute("read_endpoint")
      /\ packet_buffer' = (IF buffered = {} THEN packet_buffer
                           ELSE Remove(packet_buffer, first))
      /\ client' = [client EXCEPT !.verb = None, !.inbox = Tail(client.inbox)]
      /\ UNCHANGED <<usb0, outVars, stuck, irq_queue, control_queue,
                     pending_set_address, targetVars, sessions>>
  BY DEF ReadEndpoint
<1>2. client.inbox # <<>>
  BY <1>1, ExecuteStep DEF IInv, ClientOK, CalledFor, Holds
<1>3. client \in Client /\ client.inbox \in Seq(IrqEvent)
      /\ irq_queue \in Seq(IrqEvent) /\ control_queue \in Seq(SetupPacket)
      /\ packet_buffer \in Seq(Packets)
  BY DEF IInv, ClientOK, QueuesOK, Client
<1>4. packet_buffer' \in Seq(Packets)
  <2>1. CASE buffered = {}
    BY <1>1, <1>3, <2>1
  <2>2. CASE buffered # {}
    <3>1. buffered \in SUBSET Nat
      BY <1>3
    <3>2. first \in buffered
      BY <2>2, <3>1, Smallest
    <3>3. first \in DOMAIN packet_buffer
      BY <3>2
    <3> HIDE DEF first, Packets
    <3>4. Remove(packet_buffer, first) \in Seq(Packets)
      BY <1>3, <3>3, RemoveType
    <3>5. QED
      BY <1>1, <2>2, <3>4
  <2>3. QED
    BY <2>1, <2>2
<1>5. client' \in Client /\ client'.inbox = Tail(client.inbox)
  BY <1>1, <1>2, <1>3, InboxTail DEF Client
<1>6. Controls(irq_queue) \in Nat /\ Controls(client.inbox) \in Nat
      /\ Len(control_queue) \in Nat
  BY <1>3, ControlsType
<1>7. RequestsHeld'
  BY <1>1, <1>2, <1>5, <1>6, InboxTail DEF IInv, QueuesOK, RequestsHeld
<1>8. QueuesOK' /\ HostOK' /\ StuckOK'
  BY <1>1, <1>4, <1>7, StuckKeeps
     DEF IInv, QueuesOK, HostOK, InProgress, targetVars
<1>9. QED
  BY <1>1, <1>5, <1>8, VerbFrame
     DEF IInv, DeviceOK, SetupPending, ClientOK, outVars

(* A verb that leaves the queues, the host and the session alone, and what *)
(* the client holds.                                                       *)
LEMMA PortVerb ==
  ASSUME IInv, NEW verb, Execute(verb),
         usb0' \in Usb, SetupPending', primed' \subseteq OutEndpoints,
         client' \in Client, client'.inbox = client.inbox,
         UNCHANGED <<data_ep, stuck, queueVars, targetVars, sessions>>
  PROVE  IInv'
<1>1. QueuesOK' /\ HostOK' /\ StuckOK'
  BY StuckKeeps DEF IInv, QueuesOK, RequestsHeld, HostOK, InProgress,
     queueVars, targetVars
<1>2. sessions' \in 0 .. MaxSessions
  BY DEF IInv, ClientOK
<1>3. QED
  BY <1>1, <1>2, VerbFrame

LEMMA ArmOutStep ==
  ASSUME IInv, ArmOut
  PROVE  IInv'
<1>1. PICK verb \in {"ep_out_prime_receive", "ep_out_interface_enable",
                     "configure_endpoints"} :
        Execute(verb) /\ primed' = primed \union Primes(verb)
  BY DEF ArmOut
<1>2. /\ usb0' = EpOutPrimeReceive(usb0)
      /\ client' = [client EXCEPT !.verb = None, !.armed = TRUE]
      /\ UNCHANGED <<data_ep, stuck, queueVars, targetVars, sessions>>
  BY DEF ArmOut
<1>3. /\ usb0 \in Usb /\ SetupPending /\ primed \subseteq OutEndpoints
      /\ client \in Client /\ client.ep \in OutEndpoints
  BY DEF IInv, DeviceOK, ClientOK, Client
<1>4. usb0' \in Usb /\ SetupPending'
  BY <1>2, <1>3, DriverCallsType, CallsKeepInterrupts DEF SetupPending
<1>5. Primes(verb) \subseteq OutEndpoints
  BY <1>3 DEF Primes, OutEndpoints
<1>6. primed' \subseteq OutEndpoints
  BY <1>1, <1>3, <1>5
<1>7. client' \in Client /\ client'.inbox = client.inbox
  BY <1>2, <1>3 DEF Client
<1>8. QED
  BY <1>1, <1>2, <1>4, <1>6, <1>7, PortVerb

LEMMA WriteControlEndpointStep ==
  ASSUME IInv, WriteControlEndpoint
  PROVE  IInv'
<1>1. /\ Execute("write_control_endpoint")
      /\ client' = [client EXCEPT !.setup = NoSetup]
      /\ UNCHANGED <<outVars, stuck, queueVars, targetVars, sessions>>
  BY DEF WriteControlEndpoint
<1>2. /\ usb0 \in Usb /\ SetupPending /\ client \in Client
      /\ primed \subseteq OutEndpoints
  BY DEF IInv, DeviceOK, ClientOK
<1>3. client.setup \in SetupPacket
  BY <1>1, <1>2, ExecuteStep DEF IInv, ClientOK, CalledFor, Client
<1>4. client.setup.id \in Transfers /\ client.setup.length \in Nat
      /\ <<>> \in Seq(OutPacket)
  BY <1>3, EndpointAssumption DEF SetupPacket
<1>5. usb0' \in Usb /\ usb0'.pending = usb0.pending /\ usb0'.setup = usb0.setup
  <2>1. CASE usb0' = WriteZlp(usb0, client.setup.id)
    BY <1>2, <1>4, <2>1, WriteZlpType, CallsKeepInterrupts DEF WriteZlp
  <2>2. ASSUME NEW n \in 0 .. client.setup.length,
               NEW packets \in Answers(client.setup.id, <<>>, n, client.setup.length),
               usb0' = WriteWithPacketSize(usb0, packets)
        PROVE  /\ usb0' \in Usb
               /\ usb0'.pending = usb0.pending /\ usb0'.setup = usb0.setup
    <3>1. n \in Nat
      BY <1>4
    <3>2. packets \in Seq(InPacket) /\ packets # <<>>
      BY <1>4, <2>2, <3>1, AnswersType
    <3>3. QED
      BY <1>2, <2>2, <3>2, StartWriteType, CallsKeepInterrupts
  <2>3. QED
    BY <2>1, <2>2, Zenon DEF WriteControlEndpoint
<1>6. SetupPending'
  BY <1>2, <1>5 DEF SetupPending
<1>7. client' \in Client /\ client'.inbox = client.inbox
  BY <1>1, <1>2 DEF Client
<1>8. QED
  BY <1>1, <1>2, <1>5, <1>6, <1>7, PortVerb DEF outVars

LEMMA StallEndpointStep ==
  ASSUME IInv, StallEndpoint
  PROVE  IInv'
<1>1. PICK verb \in {"stall_endpoint_in", "stall_endpoint_out"} :
        Execute(verb) /\ usb0' \in {StallEndpointIn(usb0), StallEndpointOut(usb0)}
  BY DEF StallEndpoint
<1>2. /\ client' = [client EXCEPT !.verb = None, !.setup = NoSetup]
      /\ UNCHANGED <<outVars, stuck, queueVars, targetVars, sessions>>
  BY DEF StallEndpoint
<1>3. /\ usb0 \in Usb /\ SetupPending /\ primed \subseteq OutEndpoints
      /\ client \in Client
  BY DEF IInv, DeviceOK, ClientOK
<1>4. usb0' \in Usb /\ SetupPending'
  BY <1>1, <1>3, DriverCallsType, CallsKeepInterrupts DEF SetupPending
<1>5. client' \in Client /\ client'.inbox = client.inbox
  BY <1>2, <1>3 DEF Client
<1>6. QED
  BY <1>1, <1>2, <1>3, <1>4, <1>5, PortVerb DEF outVars

(* A step of a write, or of the wait for it.                               *)
LEMMA PortStep ==
  ASSUME IInv, usb0' \in Usb,
         usb0'.pending = usb0.pending, usb0'.setup = usb0.setup,
         client' = client \/ (client' = [client EXCEPT !.verb = None] /\ ~ VerbQueued),
         UNCHANGED <<outVars, event_queue, stuck, queueVars, targetVars, sessions>>
  PROVE  IInv'
<1>1. client \in Client /\ sessions \in 0 .. MaxSessions /\ CalledFor
  BY DEF IInv, ClientOK
<1>2. client' \in Client /\ client'.inbox = client.inbox
  BY <1>1 DEF Client
<1>3. ClientOK'
  BY <1>1, <1>2 DEF ClientOK, CalledFor, Holds, VerbQueued, IsVerb
<1>4. DeviceOK' /\ EventsOK'
  BY DEF IInv, DeviceOK, SetupPending, EventsOK, OneVerb, IsVerb, outVars
<1>5. QueuesOK' /\ HostOK' /\ StuckOK'
  BY <1>2, StuckKeeps DEF IInv, QueuesOK, RequestsHeld, HostOK, InProgress,
     queueVars, targetVars
<1>6. QED
  BY <1>3, <1>4, <1>5 DEF IInv

LEMMA WriteStepStep ==
  ASSUME IInv, WriteStep
  PROVE  IInv'
<1>1. usb0 \in Usb
  BY DEF IInv, DeviceOK
<1>2. usb0' \in Usb
  <2>1. CASE usb0.tx.at = "drain" /\ usb0' = [usb0 EXCEPT !.tx.at = "fill"]
    BY <1>1, <2>1, WriteStepsType, Zenon
  <2>2. CASE usb0.tx.at = "fill" /\ usb0' = Fill(usb0)
    BY <1>1, <2>2, WriteStepsType, Zenon
  <2>3. CASE usb0' = Sent(usb0)
    BY <1>1, <2>3, WriteStepsType, Zenon
  <2>4. CASE usb0' = DrainTimeout(usb0) \/ usb0' = WaitTimeout(usb0)
    BY <1>1, <2>4, DriverCallsType
  <2>5. QED
    BY <2>1, <2>2, <2>3, <2>4, Zenon DEF WriteStep, DrainDone
<1>3. usb0'.pending = usb0.pending /\ usb0'.setup = usb0.setup
  BY <1>1 DEF WriteStep, Fill, Sent, DrainTimeout, WaitTimeout, Usb
<1>4. /\ client' = client
      /\ UNCHANGED <<outVars, event_queue, stuck, queueVars, targetVars, sessions>>
  BY DEF WriteStep
<1>5. QED
  BY <1>2, <1>3, <1>4, PortStep

LEMMA WriteControlEndpointDoneStep ==
  ASSUME IInv, WriteControlEndpointDone
  PROVE  IInv'
<1> DEFINE ack == usb0.tx_ack /\ ~ client.blocking
<1>1. /\ Executing
      /\ usb0' = [usb0 EXCEPT !.tx_ack = ack]
      /\ client' = [client EXCEPT !.verb = None]
      /\ UNCHANGED <<outVars, event_queue, stuck, queueVars, targetVars, sessions>>
  BY DEF WriteControlEndpointDone
<1>2. usb0 \in Usb /\ ack \in BOOLEAN
  BY DEF IInv, DeviceOK, ClientOK, Usb, Client
<1> HIDE DEF ack
<1>3. usb0' \in Usb /\ usb0'.pending = usb0.pending /\ usb0'.setup = usb0.setup
  BY <1>1, <1>2 DEF Usb
<1>4. ~ VerbQueued
  BY <1>1 DEF Executing, VerbQueued, IsVerb
<1>5. QED
  BY <1>1, <1>3, <1>4, PortStep
-----------------------------------------------------------------------------
(* The client and the host of the TARGET port.                             *)

LEMMA ClientCallsStep ==
  ASSUME IInv, ClientCalls
  PROVE  IInv'
<1> DEFINE event == [type |-> "Verb", ep |-> 0, data |-> <<>>]
<1>1. /\ client.verb = None
      /\ Enqueue(event)
      /\ UNCHANGED <<usb0, outVars, queueVars, targetVars, sessions>>
  BY DEF ClientCalls
<1>2. PICK verb \in {v \in Verbs : MayCall(v)}, blocking \in BOOLEAN :
        \E ep \in EndpointsFor(verb) :
          client' = [client EXCEPT !.verb = verb, !.ep = ep, !.blocking = blocking]
  BY DEF ClientCalls
<1>3. PICK ep \in EndpointsFor(verb) :
        client' = [client EXCEPT !.verb = verb, !.ep = ep, !.blocking = blocking]
  BY <1>2
<1>4. client \in Client /\ client.inbox \in Seq(IrqEvent)
  BY DEF IInv, ClientOK, Client
<1>5. event \in Event
  BY DEF Event
<1>6. ~ VerbQueued
  BY <1>1 DEF IInv, ClientOK, CalledFor
<1> HIDE DEF event
<1>7. EventsOK' /\ stuck' \in {stuck, "core"}
  BY <1>1, <1>5, <1>6, EnqueueStep DEF IInv
<1>8. ep \in OutEndpoints
  <2>1. CASE verb = "read_endpoint"
    <3>1. Holds("ReceivePacket")
      BY <2>1 DEF MayCall
    <3>2. Head(client.inbox) \in IrqEvent
      BY <1>4, <3>1 DEF Holds
    <3>3. Head(client.inbox).ep \in OutEndpoints
      BY <3>2 DEF IrqEvent, OutEndpoints
    <3>4. QED
      BY <2>1, <3>3 DEF EndpointsFor
  <2>2. CASE verb # "read_endpoint"
    BY <2>2 DEF EndpointsFor, OutEndpoints
  <2>3. QED
    BY <2>1, <2>2
<1>9. /\ client' \in Client /\ client'.inbox = client.inbox
      /\ client'.setup = client.setup /\ client'.verb = verb
  BY <1>3, <1>4, <1>8 DEF Client
<1>10. ClientOK'
  <2>1. verb # None
    BY MoondancerAssumption
  <2>2. CalledFor'
    BY <1>1, <1>9, <2>1 DEF CalledFor, MayCall, Holds
  <2>3. QED
    BY <1>1, <1>9, <2>2 DEF IInv, ClientOK
<1>11. DeviceOK' /\ QueuesOK' /\ HostOK' /\ StuckOK'
  BY <1>1, <1>7, <1>9, StuckKeeps
     DEF IInv, DeviceOK, SetupPending, QueuesOK, RequestsHeld, HostOK, InProgress,
         outVars, queueVars, targetVars
<1>12. QED
  BY <1>7, <1>10, <1>11 DEF IInv

LEMMA TargetFrame ==
  ASSUME IInv, usb0' \in Usb, SetupPending', data_ep' \in OutEndpoints, HostOK',
         UNCHANGED <<primed, event_queue, stuck, queueVars, client, sessions>>
  PROVE  IInv'
<1>1. DeviceOK' /\ EventsOK'
  BY DEF IInv, DeviceOK, EventsOK, OneVerb, IsVerb
<1>2. ClientOK'
  BY ClientWaits DEF IInv, VerbQueued, IsVerb
<1>3. QueuesOK' /\ StuckOK'
  BY StuckKeeps DEF IInv, QueuesOK, RequestsHeld, queueVars
<1>4. QED
  BY <1>1, <1>2, <1>3 DEF IInv

LEMMA TargetSetupStep ==
  ASSUME IInv, TargetSetup
  PROVE  IInv'
<1>1. PICK r \in TargetRequests :
        LET setup == [request |-> r.request, value |-> r.value,
                      length |-> r.length, id |-> target.id + 1]
        IN  /\ target' = [stage |-> IF r.length = 0 THEN "status" ELSE "data",
                          setup |-> setup, moved |-> 0, id |-> target.id + 1]
            /\ usb0' = AcceptSetup(usb0, setup)
  BY DEF TargetSetup
<1> DEFINE setup == [request |-> r.request, value |-> r.value,
                     length |-> r.length, id |-> target.id + 1]
<1>2. /\ target.id < NumTransfers
      /\ UNCHANGED <<outVars, event_queue, stuck, queueVars, sent, resets,
                     client, sessions>>
  BY DEF TargetSetup
<1>3. usb0 \in Usb /\ target \in Target /\ target.id \in 0 .. NumTransfers
  BY DEF IInv, DeviceOK, HostOK, Target
<1>4. /\ r.request \in Requests /\ r.value \in 0 .. 2
      /\ r.length \in 0 .. MaxLength
  BY MoondancerAssumption
<1>5. target.id + 1 \in Transfers /\ target.id + 1 \in 0 .. NumTransfers
      /\ target.id + 1 > 0 /\ 0 \in 0 .. MaxLength
  BY <1>2, <1>3, EndpointAssumption DEF Transfers
<1>6. setup \in SetupPacket /\ setup # NoSetup /\ setup.length = r.length
  BY <1>4, <1>5, SetupAssumption DEF SetupPacket
<1>7. target' = [stage |-> IF r.length = 0 THEN "status" ELSE "data",
                 setup |-> setup, moved |-> 0, id |-> target.id + 1]
      /\ usb0' = AcceptSetup(usb0, setup)
  BY <1>1
<1> HIDE DEF setup
<1>8. usb0' \in Usb /\ SetupPending'
  <2>1. usb0'.setup = setup
    BY <1>3, <1>7 DEF AcceptSetup, Usb
  <2>2. QED
    BY <1>3, <1>6, <1>7, <2>1, TokensType DEF SetupPending
<1>9. target' \in Target
  BY <1>5, <1>6, <1>7 DEF Target
<1>10. InProgress'
  <2>1. target'.stage = "data" => r.length > 0
    BY <1>4, <1>7, EndpointAssumption
  <2>2. QED
    BY <1>5, <1>6, <1>7, <2>1 DEF InProgress
<1>11. QED
  BY <1>2, <1>8, <1>9, <1>10, TargetFrame DEF IInv, DeviceOK, HostOK, outVars

LEMMA MovedTarget ==
  ASSUME HostOK, target.stage = "data", NEW last \in BOOLEAN
  PROVE  /\ Moved(last) \in Target
         /\ Moved(last).setup # NoSetup /\ Moved(last).id > 0
         /\ Moved(last).stage = "data" => Moved(last).moved < Moved(last).setup.length
<1> DEFINE stage == IF last \/ target.moved + 1 = target.setup.length
                    THEN "status" ELSE "data"
<1>1. /\ target \in Target /\ target.setup # NoSetup /\ target.id > 0
      /\ target.moved < target.setup.length
  BY DEF HostOK, InProgress
<1>2. target.setup \in SetupPacket /\ target.moved \in 0 .. MaxLength
  BY <1>1 DEF Target
<1>3. target.setup.length \in 0 .. MaxLength
  BY <1>2 DEF SetupPacket
<1>4. target.moved + 1 \in 0 .. MaxLength
      /\ (target.moved + 1 # target.setup.length =>
            target.moved + 1 < target.setup.length)
  BY <1>1, <1>2, <1>3, EndpointAssumption
<1>5. Moved(last) = [target EXCEPT !.moved = target.moved + 1, !.stage = stage]
  BY DEF Moved
<1>6. stage \in {"status", "data"}
      /\ (stage = "data" => target.moved + 1 # target.setup.length)
  OBVIOUS
<1> HIDE DEF stage
<1>7. QED
  BY <1>1, <1>4, <1>5, <1>6 DEF Target

LEMMA TargetInStep ==
  ASSUME IInv, TargetIn
  PROVE  IInv'
<1>1. UNCHANGED <<outVars, event_queue, stuck, queueVars, sent, resets,
                 client, sessions>> /\ HostPolls
  BY DEF TargetIn
<1>2. /\ usb0 \in Usb /\ SetupPending /\ HostOK /\ target \in Target
      /\ data_ep \in OutEndpoints
  BY DEF IInv, DeviceOK, HostOK
<1>3. usb0' = usb0 \/ usb0' = TakeIn(usb0)
  BY DEF TargetIn
<1>4. usb0' \in Usb /\ SetupPending'
  <2>1. TakeIn(usb0) \in Usb /\ TakeIn(usb0).setup = usb0.setup
        /\ ("EpControl" \in TakeIn(usb0).pending => "EpControl" \in usb0.pending)
    BY <1>2, TokensType DEF TakeIn, Usb
  <2>2. QED
    BY <1>2, <1>3, <2>1 DEF SetupPending
<1>5. \/ target' = Ended
      \/ target.stage = "data" /\ \E last \in BOOLEAN : target' = Moved(last)
  BY <1>1 DEF TargetIn, HostPolls
<1>6. target' \in Target /\ InProgress'
  BY <1>2, <1>5, EndedTarget, MovedTarget DEF InProgress
<1>7. QED
  BY <1>1, <1>2, <1>4, <1>6, TargetFrame DEF HostOK, outVars

LEMMA TargetOutStep ==
  ASSUME IInv, TargetOut
  PROVE  IInv'
<1>1. /\ data_ep' \in {data_ep, 0}
      /\ UNCHANGED <<primed, event_queue, stuck, queueVars, sent, resets,
                     client, sessions>>
  BY DEF TargetOut
<1>2. /\ usb0 \in Usb /\ SetupPending /\ HostOK /\ target \in Target
      /\ data_ep \in OutEndpoints /\ 0 \in OutEndpoints
  BY DEF IInv, DeviceOK, HostOK, OutEndpoints
<1> DEFINE data == << [id |-> target.id, i |-> target.moved + 1] >>
<1>3. \/ usb0' = usb0 /\ target' = Ended
      \/ usb0' = AcceptOut(usb0, <<>>) /\ target' = Ended
      \/ target.stage = "data" /\ usb0' = AcceptOut(usb0, data)
           /\ target' = Moved(FALSE)
  BY DEF TargetOut
<1>4. target.stage = "data" => data \in Seq(OutPacket)
  <2>1. SUFFICES ASSUME target.stage = "data"
                 PROVE  [id |-> target.id, i |-> target.moved + 1] \in OutPacket
    OBVIOUS
  <2>2. /\ target.setup \in SetupPacket /\ target.id \in 0 .. NumTransfers
        /\ target.id > 0 /\ target.moved \in 0 .. MaxLength
        /\ target.moved < target.setup.length
    BY <1>2, <2>1 DEF HostOK, InProgress, Target
  <2>3. target.setup.length \in 0 .. MaxLength
    BY <2>2 DEF SetupPacket
  <2>4. target.id \in Transfers /\ target.moved + 1 \in 1 .. MaxLength
    BY <2>2, <2>3, EndpointAssumption DEF Transfers
  <2>5. QED
    BY <2>4 DEF OutPacket
<1> HIDE DEF data
<1>5. /\ \A d : AcceptOut(usb0, d).setup = usb0.setup
      /\ \A d : "EpControl" \in AcceptOut(usb0, d).pending =>
                 "EpControl" \in usb0.pending
      /\ <<>> \in Seq(OutPacket)
  BY <1>2 DEF AcceptOut, Usb
<1>6. usb0' \in Usb /\ SetupPending'
  <2>1. CASE usb0' = usb0
    BY <1>2, <2>1 DEF SetupPending
  <2>2. ASSUME NEW d \in Seq(OutPacket), usb0' = AcceptOut(usb0, d)
        PROVE  usb0' \in Usb /\ SetupPending'
    BY <1>2, <1>5, <2>2, TokensType DEF SetupPending
  <2>3. QED
    BY <1>3, <1>4, <1>5, <2>1, <2>2
<1>7. target' \in Target /\ InProgress'
  BY <1>2, <1>3, EndedTarget, MovedTarget DEF InProgress
<1>8. QED
  BY <1>1, <1>2, <1>6, <1>7, TargetFrame DEF HostOK

LEMMA TargetBulkStep ==
  ASSUME IInv, TargetBulk
  PROVE  IInv'
<1>1. PICK ep \in BulkEndpoints :
        /\ usb0' = AcceptOut(usb0, << [id |-> sent + 1, i |-> 1] >>)
        /\ data_ep' = ep
  BY DEF TargetBulk
<1>2. /\ sent < NumPackets /\ sent' = sent + 1
      /\ UNCHANGED <<primed, event_queue, stuck, queueVars, target, resets,
                     client, sessions>>
  BY DEF TargetBulk
<1>3. usb0 \in Usb /\ SetupPending /\ HostOK /\ sent \in 0 .. NumPackets
  BY DEF IInv, DeviceOK, HostOK
<1>4. NumPackets \in Nat /\ NumPackets <= NumTransfers /\ NumTransfers \in Nat
      /\ MaxLength \in Nat /\ (NumPackets > 0 => MaxLength > 0)
  BY MoondancerAssumption, EndpointAssumption
<1>5. sent + 1 \in Transfers /\ 1 \in 1 .. MaxLength /\ sent' \in 0 .. NumPackets
  BY <1>2, <1>3, <1>4 DEF Transfers
<1>6. [id |-> sent + 1, i |-> 1] \in OutPacket
  BY <1>5 DEF OutPacket
<1> DEFINE data == << [id |-> sent + 1, i |-> 1] >>
<1>7. data \in Seq(OutPacket) /\ usb0' = AcceptOut(usb0, data)
  BY <1>1, <1>6
<1> HIDE DEF data
<1>8. usb0' \in Usb /\ SetupPending'
  <2>1. AcceptOut(usb0, data) \in Usb /\ AcceptOut(usb0, data).setup = usb0.setup
        /\ ("EpControl" \in AcceptOut(usb0, data).pending =>
             "EpControl" \in usb0.pending)
    BY <1>3, <1>7, TokensType DEF AcceptOut, Usb
  <2>2. QED
    BY <1>3, <1>7, <2>1 DEF SetupPending
<1>9. data_ep' \in OutEndpoints
  BY <1>1 DEF OutEndpoints
<1>10. HostOK'
  BY <1>2, <1>3, <1>5 DEF HostOK, InProgress
<1>11. QED
  BY <1>2, <1>8, <1>9, <1>10, TargetFrame

LEMMA TargetResetStep ==
  ASSUME IInv, TargetReset
  PROVE  IInv'
<1>1. /\ resets < MaxResets /\ resets' = resets + 1
      /\ usb0' = ResetSignal(usb0) /\ target' = Ended
      /\ UNCHANGED <<outVars, event_queue, stuck, queueVars, sent, client,
                     sessions>>
  BY DEF TargetReset
<1>2. usb0 \in Usb /\ SetupPending /\ HostOK /\ data_ep \in OutEndpoints
      /\ resets \in 0 .. MaxResets /\ MaxResets \in Nat
  BY MoondancerAssumption DEF IInv, DeviceOK, HostOK
<1>3. usb0' \in Usb /\ SetupPending'
  BY <1>1, <1>2, TokensType DEF ResetSignal, Usb, SetupPending
<1>4. resets' \in 0 .. MaxResets
  BY <1>1, <1>2
<1>5. HostOK'
  BY <1>1, <1>2, <1>4, EndedTarget DEF HostOK, InProgress
<1>6. QED
  BY <1>1, <1>2, <1>3, <1>5, TargetFrame DEF outVars
-----------------------------------------------------------------------------
LEMMA IInvInit == Init => IInv
<1> SUFFICES ASSUME Init PROVE IInv
  OBVIOUS
<1>1. DeviceOK
  BY ConnectedType DEF Init, DeviceOK, SetupPending, Connected, OutEndpoints
<1>2. event_queue = <<>> /\ irq_queue = <<>> /\ control_queue = <<>>
      /\ packet_buffer = <<>> /\ client.inbox = <<>>
  BY DEF Init
<1>3. EventsOK /\ ~ VerbQueued
  <2>1. event_queue \in Seq(Event) /\ DOMAIN event_queue = {}
    BY <1>2
  <2>2. QED
    BY <2>1 DEF EventsOK, OneVerb, VerbQueued, IsVerb
<1>4. QueuesOK
  <2>1. ControlQueueSize \in Nat
    BY MoondancerAssumption
  <2>2. RequestsHeld
    BY <1>2, <2>1, ControlsEmpty DEF RequestsHeld
  <2>3. irq_queue \in Seq(IrqEvent) /\ control_queue \in Seq(SetupPacket)
        /\ packet_buffer \in Seq([ep : OutEndpoints, data : Seq(OutPacket)])
    BY <1>2
  <2>4. QED
    BY <2>2, <2>3 DEF Init, QueuesOK
<1>5. StuckOK
  BY DEF Init, StuckOK, StopsOnlyWhenFull
<1>6. HostOK
  BY MoondancerAssumption, EndpointAssumption DEF Init, HostOK, Target, InProgress
<1>7. ClientOK
  <2>1. client \in Client
    BY DEF Init, Client, OutEndpoints
  <2>2. QED
    BY <1>3, <2>1, MoondancerAssumption DEF Init, ClientOK, CalledFor
<1>8. QED
  BY <1>1, <1>3, <1>4, <1>5, <1>6, <1>7 DEF IInv

LEMMA IInvNext == IInv /\ [Next]_vars => IInv'
<1> SUFFICES ASSUME IInv, [Next]_vars PROVE IInv'
  OBVIOUS
<1>1. CASE DispatchEvent
  BY <1>1, OnBusResetStep, OnSetAddressStep, OnSetupStep, OnSendCompleteStep,
     OnReceivePacketStep DEF DispatchEvent
<1>2. CASE ExecuteVerb
  BY <1>2, ConnectStep, DisconnectStep, GetInterruptEventsStep, BusResetVerbStep,
     ReadControlStep, ReadEndpointStep, ArmOutStep, WriteControlEndpointStep,
     WriteControlEndpointDoneStep, StallEndpointStep DEF ExecuteVerb
<1>3. CASE TargetHost
  BY <1>3, TargetSetupStep, TargetInStep, TargetOutStep, TargetBulkStep,
     TargetResetStep DEF TargetHost
<1>4. CASE UNCHANGED vars
  <2>1. UNCHANGED <<usb0, data_ep, primed, event_queue, stuck, queueVars, client,
                    sessions, target, sent, resets>>
    BY <1>4 DEF vars, outVars, targetVars
  <2>2. usb0' \in Usb /\ SetupPending' /\ data_ep' \in OutEndpoints /\ HostOK'
    BY <2>1 DEF IInv, DeviceOK, SetupPending, HostOK, InProgress
  <2>3. QED
    BY <2>1, <2>2, TargetFrame
<1>5. QED
  BY <1>1, <1>2, <1>3, <1>4, MachineExternalStep, WriteStepStep, ClientCallsStep
     DEF Next, MainLoop

LEMMA Invariance == Spec => []IInv
BY IInvInit, IInvNext, PTL DEF Spec

(* In every instance each variable keeps its type: what dispatch_event     *)
(* puts into irq_queue, control_queue and packet_buffer are events,        *)
(* requests and packets, and no verb reads an event the client has not got.*)
THEOREM TypeCorrect == Spec => []TypeOK
<1>1. IInv => TypeOK
  BY DEF IInv, DeviceOK, EventsOK, QueuesOK, StuckOK, HostOK, ClientOK, TypeOK
<1>2. QED
  BY <1>1, Invariance, PTL

(* The main loop spins for good only over a full control_queue: the one    *)
(* packet that read_control asks for is always there, however many events  *)
(* irq_queue drops and whenever the client disconnects (read_control,      *)
(* dispatch_event).                                                        *)
THEOREM StopIsFull == Spec => []StopsOnlyWhenFull
<1>1. IInv => StopsOnlyWhenFull
  BY DEF IInv, StuckOK
<1>2. QED
  BY <1>1, Invariance, PTL
-----------------------------------------------------------------------------
(* The main loop and the core never stop for an obliging host and client.  *)
(* The request of the transfer is in one place: pending, in EVENT_QUEUE or *)
(* control_queue, or held by the client; then the endpoint offers the host *)
(* nothing that would end the transfer. Or its answer is being sent. So    *)
(* control_queue is empty when the next request is dispatched, and         *)
(* EVENT_QUEUE holds at most one verb, one request, one packet received    *)
(* and the acknowledgements of one answer.                                 *)

Queued(type) == Number(event_queue, type)
Pending(irq) == IF irq \in usb0.pending THEN 1 ELSE 0
Unread == usb0.in \o usb0.tx.left

(* The most packets an answer takes.                                       *)
MostAnswered == IF MaxLength = 0 THEN 1 ELSE MaxLength

(* The host finishes its transfers and resets nothing, and asks for data   *)
(* only where there is some; the client leaves an armed interface alone    *)
(* and connects once.                                                      *)
Obliging ==
  /\ Patient /\ Careful /\ MaxResets = 0 /\ MaxSessions <= 1
  /\ \A r \in TargetRequests : r.request = "In" => r.length > 0
  /\ EventQueueSize >= MostAnswered + 3

(* No reset, and one verb.                                                 *)
Undisturbed ==
  /\ stuck = "nothing"
  /\ "BusReset" \notin usb0.pending /\ Queued("BusReset") = 0
  /\ Queued("Verb") <= 1

Arms == {"ep_out_prime_receive", "ep_out_interface_enable",
         "configure_endpoints"}

(* A verb that waits is one that the client may still call.                *)
Session ==
  /\ ~ client.connected => target.stage = "idle"
  /\ client.connected => sessions > 0
  /\ client.verb # "disconnect"
  /\ VerbQueued =>
       /\ client.verb = "connect" => ~ client.connected
       /\ client.verb \in Arms => ~ client.armed
       /\ client.verb \in {"stall_endpoint_in", "stall_endpoint_out"} =>
            client.setup # NoSetup

(* The request of the transfer, where it waits to be answered.             *)
Held == IF client.setup = NoSetup THEN 0 ELSE 1

Waiting == Pending("EpControl") + Queued("ReceiveSetupPacket")
             + Len(control_queue) + Held

SetupsQueued ==
  \A i \in DOMAIN event_queue :
    event_queue[i].type = "ReceiveSetupPacket" =>
      event_queue[i].data = target.setup

Asked ==
  /\ Waiting <= 1
  /\ Waiting = 1 =>
       /\ target.stage # "idle" /\ Unread = <<>>
       /\ ~ usb0.in_stall /\ ~ usb0.out_stall
       /\ target.setup.request = "In" =>
            target.stage = "data" /\ target.moved = 0
  /\ "EpControl" \in usb0.pending => usb0.setup = target.setup
  /\ SetupsQueued
  /\ \A i \in DOMAIN control_queue : control_queue[i] = target.setup
  /\ client.setup # NoSetup => client.setup = target.setup

(* The packets still to be taken end the data stage, and no earlier one    *)
(* does.                                                                   *)
Ends(packets, rest) ==
  /\ Len(packets) <= rest
  /\ \A i \in DOMAIN packets :
       /\ i < Len(packets) => packets[i].size = "full"
       /\ packets[i].size = "full" => i < Len(packets) \/ i = rest

Answered ==
  Unread # <<>> =>
    /\ target.stage # "idle"
    /\ ~ usb0.in_stall /\ ~ usb0.out_stall
    /\ target.setup.request = "In" =>
         /\ target.stage = "data"
         /\ Ends(Unread, target.setup.length - target.moved)
    /\ target.setup.request # "In" => Len(Unread) = 1

(* The FIFO holds the packet the host was offered and has not taken.       *)
Writing ==
  /\ usb0.in_ready = (usb0.in # <<>>) /\ Len(usb0.in) <= 1
  /\ "EpIn" \in usb0.pending \/ usb0.tx.at \in {"drain", "fill"} =>
       usb0.in = <<>>
  /\ usb0.tx.at = "none" => usb0.tx.left = <<>>
  /\ usb0.tx.at = "wait" /\ usb0.tx_ack =>
       usb0.in # <<>> \/ "EpIn" \in usb0.pending
  /\ usb0.tx.at = "wait" /\ ~ usb0.tx_ack => usb0.in = <<>>

(* No acknowledgement follows the request that comes after its transfer.   *)
SetupBehind ==
  \A i, j \in DOMAIN event_queue :
    event_queue[i].type = "ReceiveSetupPacket"
      /\ event_queue[j].type = "SendComplete" => j < i

Acknowledged ==
  /\ Queued("SendComplete") + Pending("EpIn") + Len(Unread) <= MostAnswered
  /\ "EpIn" \in usb0.pending => Queued("ReceiveSetupPacket") = 0
  /\ control_queue # <<>> \/ client.setup # NoSetup =>
       "EpIn" \notin usb0.pending /\ Queued("SendComplete") = 0
  /\ SetupBehind

(* The one packet that the OUT interface may receive, or has received and  *)
(* the client does not know of.                                            *)
OneReceived ==
  (IF usb0.out_enable THEN 1 ELSE 0) + Pending("EpOut")
    + Queued("ReceivePacket") + Number(irq_queue, "ReceivePacket")
    <= IF client.armed THEN 1 ELSE 0

Flowing == /\ Undisturbed /\ Session /\ Asked /\ Answered /\ Writing
           /\ Acknowledged /\ OneReceived
-----------------------------------------------------------------------------
(* Counting events.                                                        *)

LEMMA NumberNone ==
  ASSUME NEW S, NEW s \in Seq(S), NEW type
  PROVE  Number(s, type) = 0 <=> \A i \in DOMAIN s : s[i].type # type
<1>1. Number(s, type) = 0 <=> At(s, type) = {}
  BY NumberType, FS_EmptySet DEF Number
<1>2. QED
  BY <1>1 DEF At

(* There is no event of a sixth type.                                      *)
LEMMA NumberAll ==
  ASSUME NEW s \in Seq(Event)
  PROVE  Len(s) <= Number(s, "Verb") + Number(s, "ReceiveSetupPacket")
                     + Number(s, "SendComplete") + Number(s, "ReceivePacket")
                     + Number(s, "BusReset")
<1> DEFINE A == At(s, "Verb")
           B == A \union At(s, "ReceiveSetupPacket")
           C == B \union At(s, "SendComplete")
           D == C \union At(s, "ReceivePacket")
           E == D \union At(s, "BusReset")
<1>1. \A type : IsFiniteSet(At(s, type)) /\ Number(s, type) \in Nat
  BY NumberType
<1>2. ASSUME NEW S, NEW T, IsFiniteSet(S), IsFiniteSet(T)
      PROVE  /\ IsFiniteSet(S \union T) /\ Cardinality(S \union T) \in Nat
             /\ Cardinality(S \union T) <= Cardinality(S) + Cardinality(T)
  <2>1. IsFiniteSet(S \cap T)
    BY <1>2, FS_Subset
  <2>2. Cardinality(S \union T)
          = Cardinality(S) + Cardinality(T) - Cardinality(S \cap T)
    BY <1>2, FS_Union
  <2>3. Cardinality(S \cap T) \in Nat /\ Cardinality(S) \in Nat
        /\ Cardinality(T) \in Nat
    BY <1>2, <2>1, FS_CardinalityType
  <2>4. IsFiniteSet(S \union T)
    BY <1>2, FS_Union
  <2>5. Cardinality(S \union T) \in Nat
    BY <2>4, FS_CardinalityType
  <2>6. QED
    BY <2>2, <2>3, <2>4, <2>5
<1>3. 1 .. Len(s) = E
  <2>1. \A i \in 1 .. Len(s) : s[i] \in Event
    OBVIOUS
  <2>2. \A e \in Event : e.type \in {"Verb", "ReceiveSetupPacket", "SendComplete",
                                     "ReceivePacket", "BusReset"}
    BY DEF Event
  <2>3. QED
    BY <2>1, <2>2 DEF At
<1>4. Cardinality(1 .. Len(s)) = Len(s)
  <2>1. Len(s) \in Nat
    OBVIOUS
  <2> DEFINE n == Len(s)
  <2> HIDE DEF n
  <2>2. n \in Nat /\ 1 \in Int /\ n \in Int
    BY <2>1 DEF n
  <2>3. Cardinality(1 .. n) = IF 1 > n THEN 0 ELSE n - 1 + 1
    BY <2>2, FS_Interval
  <2>4. Cardinality(1 .. n) = n
    BY <2>2, <2>3
  <2>5. QED
    BY <2>4 DEF n
<1> HIDE DEF A, B, C, D, E
<1>5. IsFiniteSet(A) /\ Cardinality(A) = Number(s, "Verb")
  BY <1>1 DEF A, Number
<1>6. IsFiniteSet(B) /\ Cardinality(B) \in Nat
      /\ Cardinality(B) <= Cardinality(A) + Number(s, "ReceiveSetupPacket")
  BY <1>1, <1>2, <1>5 DEF B, Number
<1>7. IsFiniteSet(C) /\ Cardinality(C) \in Nat
      /\ Cardinality(C) <= Cardinality(B) + Number(s, "SendComplete")
  BY <1>1, <1>2, <1>6 DEF C, Number
<1>8. IsFiniteSet(D) /\ Cardinality(D) \in Nat
      /\ Cardinality(D) <= Cardinality(C) + Number(s, "ReceivePacket")
  BY <1>1, <1>2, <1>7 DEF D, Number
<1>9. Cardinality(E) \in Nat
      /\ Cardinality(E) <= Cardinality(D) + Number(s, "BusReset")
  BY <1>1, <1>2, <1>8 DEF E, Number
<1>10. QED
  BY <1>1, <1>3, <1>4, <1>5, <1>6, <1>7, <1>8, <1>9

(* What the variables are, for the steps below.                            *)
LEMMA Typed ==
  ASSUME IInv
  PROVE  /\ usb0 \in Usb /\ usb0.tx \in Write
         /\ usb0.in \in Seq(InPacket) /\ usb0.tx.left \in Seq(InPacket)
         /\ usb0.pending \in SUBSET Irq
         /\ event_queue \in Seq(Event) /\ irq_queue \in Seq(IrqEvent)
         /\ control_queue \in Seq(SetupPacket) /\ Len(control_queue) \in Nat
         /\ client \in Client /\ client.setup \in SetupPacket \union {NoSetup}
         /\ target \in Target /\ target.moved \in Nat
         /\ target.stage # "idle" => target.setup \in SetupPacket
         /\ \A type : Queued(type) \in Nat
         /\ Number(irq_queue, "ReceivePacket") \in Nat
         /\ \A irq : Pending(irq) \in {0, 1}
         /\ Held \in {0, 1} /\ Len(Unread) \in Nat
         /\ MostAnswered \in Nat \ {0}
<1>1. /\ usb0 \in Usb /\ event_queue \in Seq(Event) /\ irq_queue \in Seq(IrqEvent)
      /\ control_queue \in Seq(SetupPacket) /\ client \in Client
      /\ target \in Target /\ InProgress
  BY DEF IInv, DeviceOK, EventsOK, QueuesOK, ClientOK, HostOK
<1>2. /\ usb0.tx \in Write /\ usb0.in \in Seq(InPacket)
      /\ usb0.pending \in SUBSET Irq
  BY <1>1 DEF Usb
<1>3. usb0.tx.left \in Seq(InPacket)
  BY <1>2 DEF Write
<1>4. Len(Unread) \in Nat
  <2> SUFFICES ASSUME NEW S, NEW s \in Seq(S), NEW t \in Seq(S)
               PROVE  Len(s \o t) \in Nat
    BY <1>2, <1>3, Zenon DEF Unread
  <2> QED
    OBVIOUS
<1>5. /\ \A type : Queued(type) \in Nat
      /\ Number(irq_queue, "ReceivePacket") \in Nat
  BY <1>1, NumberType DEF Queued
<1>6. client.setup \in SetupPacket \union {NoSetup}
  BY <1>1 DEF Client
<1>7. target.moved \in Nat /\ (target.stage # "idle" => target.setup \in SetupPacket)
  BY <1>1, EndpointAssumption DEF Target, InProgress
<1>8. MostAnswered \in Nat \ {0}
  BY EndpointAssumption DEF MostAnswered
<1>9. Len(control_queue) \in Nat
  BY <1>1
<1>10. QED
  BY <1>1, <1>2, <1>3, <1>4, <1>5, <1>6, <1>7, <1>8, <1>9 DEF Pending, Held
-----------------------------------------------------------------------------
(* The steps of EVENT_QUEUE.                                               *)

LEMMA Enqueued ==
  ASSUME IInv, stuck = "nothing", NEW event \in Event, Enqueue(event),
         Queued("Verb") + Queued("ReceiveSetupPacket") + Queued("SendComplete")
           + Queued("ReceivePacket") + Queued("BusReset") < EventQueueSize
  PROVE  /\ event_queue' = Append(event_queue, event)
         /\ stuck' = "nothing"
         /\ \A type : Queued(type)'
                       = Queued(type) + (IF event.type = type THEN 1 ELSE 0)
<1>1. event_queue \in Seq(Event) /\ EventQueueSize \in Nat
  BY Typed, MoondancerAssumption
<1>2. Len(event_queue) \in Nat /\ \A type : Queued(type) \in Nat
  BY <1>1, Typed
<1>3. Len(event_queue) < EventQueueSize
  BY <1>1, <1>2, NumberAll DEF Queued
<1>4. event_queue' = Append(event_queue, event) /\ stuck' = "nothing"
  BY <1>1, <1>2, <1>3 DEF Enqueue
<1>5. QED
  BY <1>1, <1>4, NumberAppend DEF Queued

LEMMA EnqueuedBehind ==
  ASSUME IInv, SetupsQueued, SetupBehind, NEW event \in Event,
         event_queue' = Append(event_queue, event), target' = target,
         event.type = "ReceiveSetupPacket" => event.data = target.setup,
         event.type = "SendComplete" => Queued("ReceiveSetupPacket") = 0
  PROVE  SetupsQueued' /\ SetupBehind'
<1>1. event_queue \in Seq(Event)
  BY Typed
<1>2. /\ \A i \in DOMAIN event_queue' :
           \/ i \in DOMAIN event_queue /\ event_queue'[i] = event_queue[i]
                /\ i < Len(event_queue) + 1
           \/ i = Len(event_queue) + 1 /\ event_queue'[i] = event
  BY <1>1
<1>3. SetupsQueued'
  BY <1>2 DEF SetupsQueued
<1>4. event.type = "SendComplete" =>
        \A i \in DOMAIN event_queue : event_queue[i].type # "ReceiveSetupPacket"
  BY <1>1, NumberNone DEF Queued
<1>5. SetupBehind'
  BY <1>2, <1>4 DEF SetupBehind
<1>6. QED
  BY <1>3, <1>5

LEMMA Dequeued ==
  ASSUME IInv, NEW type, NextEvent(type)
  PROVE  /\ event_queue # <<>> /\ event_queue' = Tail(event_queue)
         /\ Head(event_queue) \in Event /\ Head(event_queue).type = type
         /\ \A t : Queued(t) = Queued(t)' + (IF type = t THEN 1 ELSE 0)
         /\ \A t : Queued(t)' \in Nat
         /\ stuck = "nothing" /\ usb0.pending = {} /\ usb0.tx.at = "none"
<1>1. event_queue \in Seq(Event)
  BY Typed
<1>2. /\ event_queue # <<>> /\ event_queue' = Tail(event_queue)
      /\ Head(event_queue).type = type
      /\ stuck = "nothing" /\ usb0.pending = {} /\ usb0.tx.at = "none"
  BY DEF NextEvent, MainRuns
<1>3. Head(event_queue) \in Event /\ Tail(event_queue) \in Seq(Event)
  BY <1>1, <1>2
<1>4. \A t : Queued(t)' \in Nat
  BY <1>2, <1>3, NumberType DEF Queued
<1>5. \A t : Queued(t) = Queued(t)' + (IF type = t THEN 1 ELSE 0)
  BY <1>1, <1>2, NumberTail DEF Queued
<1>6. QED
  BY <1>2, <1>3, <1>4, <1>5

LEMMA DequeuedBehind ==
  ASSUME IInv, SetupsQueued, SetupBehind, NEW type, NextEvent(type),
         target' = target
  PROVE  /\ SetupsQueued' /\ SetupBehind'
         /\ type = "ReceiveSetupPacket" =>
              /\ Queued("SendComplete") = 0
              /\ Head(event_queue).data = target.setup
<1>1. /\ event_queue \in Seq(Event) /\ event_queue # <<>>
      /\ event_queue' = Tail(event_queue) /\ Head(event_queue).type = type
  BY Typed, Dequeued
<1>2. /\ \A i \in DOMAIN event_queue' :
           i \in Nat /\ i + 1 \in DOMAIN event_queue
             /\ event_queue'[i] = event_queue[i + 1]
      /\ 1 \in DOMAIN event_queue /\ Head(event_queue) = event_queue[1]
      /\ \A i \in DOMAIN event_queue : i \in Nat /\ ~ (i < 1)
  BY <1>1
<1>3. SetupsQueued'
  BY <1>2 DEF SetupsQueued
<1>4. SetupBehind'
  <2>1. ASSUME NEW i \in DOMAIN event_queue', NEW j \in DOMAIN event_queue',
               event_queue'[i].type = "ReceiveSetupPacket",
               event_queue'[j].type = "SendComplete"
        PROVE  j < i
    <3>1. j + 1 < i + 1
      BY <1>2, <2>1 DEF SetupBehind
    <3>2. QED
      BY <1>2, <3>1
  <2>2. QED
    BY <2>1 DEF SetupBehind
<1>5. ASSUME type = "ReceiveSetupPacket"
      PROVE  Queued("SendComplete") = 0 /\ Head(event_queue).data = target.setup
  <2>1. event_queue[1].type = "ReceiveSetupPacket"
    BY <1>1, <1>2, <1>5
  <2>2. \A j \in DOMAIN event_queue : event_queue[j].type # "SendComplete"
    BY <1>2, <2>1 DEF SetupBehind
  <2>3. Queued("SendComplete") = 0
    BY <1>1, <2>2, NumberNone DEF Queued
  <2>4. QED
    BY <1>2, <2>1, <2>3 DEF SetupsQueued
<1>6. QED
  BY <1>3, <1>4, <1>5

(* How many events of each type there are, and are about to be.            *)
LEMMA QueuedBounded ==
  ASSUME IInv, Flowing
  PROVE  /\ Queued("Verb") <= 1 /\ Queued("BusReset") = 0
         /\ Queued("ReceiveSetupPacket") + Pending("EpControl") <= 1
         /\ Queued("SendComplete") + Pending("EpIn") <= MostAnswered
         /\ Queued("ReceivePacket") + Pending("EpOut") <= 1
<1>1. /\ \A type : Queued(type) \in Nat
      /\ \A irq : Pending(irq) \in {0, 1}
      /\ Held \in {0, 1} /\ Len(control_queue) \in Nat /\ Len(Unread) \in Nat
      /\ MostAnswered \in Nat
      /\ Number(irq_queue, "ReceivePacket") \in Nat
  BY Typed
<1>2. Queued("Verb") <= 1 /\ Queued("BusReset") = 0
  BY DEF Flowing, Undisturbed
<1>3. Queued("ReceiveSetupPacket") + Pending("EpControl") <= 1
  <2>1. Pending("EpControl") + Queued("ReceiveSetupPacket")
          + Len(control_queue) + Held <= 1
    BY DEF Flowing, Asked, Waiting
  <2> HIDE DEF Queued, Pending, Held
  <2>2. QED
    BY <1>1, <2>1
<1>4. Queued("SendComplete") + Pending("EpIn") <= MostAnswered
  <2>1. Queued("SendComplete") + Pending("EpIn") + Len(Unread) <= MostAnswered
    BY DEF Flowing, Acknowledged
  <2> HIDE DEF Queued, Pending, Unread
  <2>2. QED
    BY <1>1, <2>1
<1>5. Queued("ReceivePacket") + Pending("EpOut") <= 1
  <2> DEFINE enabled == IF usb0.out_enable THEN 1 ELSE 0
             room == IF client.armed THEN 1 ELSE 0
  <2>1. enabled + Pending("EpOut") + Queued("ReceivePacket")
          + Number(irq_queue, "ReceivePacket") <= room
    BY Zenon DEF Flowing, OneReceived
  <2>2. enabled \in {0, 1} /\ room \in {0, 1}
    OBVIOUS
  <2> HIDE DEF Queued, Pending, enabled, room
  <2>3. QED
    BY <1>1, <2>1, <2>2
<1>6. QED
  BY <1>2, <1>3, <1>4, <1>5

(* EVENT_QUEUE has room for whatever comes next.                           *)
LEMMA RoomForOne ==
  ASSUME IInv, Flowing, Obliging,
         \/ Queued("Verb") = 0 \/ Pending("EpControl") = 1
         \/ Pending("EpIn") = 1 \/ Pending("EpOut") = 1
  PROVE  Queued("Verb") + Queued("ReceiveSetupPacket") + Queued("SendComplete")
           + Queued("ReceivePacket") + Queued("BusReset") < EventQueueSize
<1> DEFINE verbs == Queued("Verb")
           setups == Queued("ReceiveSetupPacket")
           answers == Queued("SendComplete")
           packets == Queued("ReceivePacket")
           others == Queued("BusReset")
           c == Pending("EpControl")
           i == Pending("EpIn")
           o == Pending("EpOut")
           most == MostAnswered
<1>1. /\ verbs \in Nat /\ setups \in Nat /\ answers \in Nat /\ packets \in Nat
      /\ c \in {0, 1} /\ i \in {0, 1} /\ o \in {0, 1}
      /\ most \in Nat /\ EventQueueSize \in Nat /\ EventQueueSize >= most + 3
  BY Typed, MoondancerAssumption DEF Obliging
<1>2. /\ verbs <= 1 /\ others = 0 /\ setups + c <= 1 /\ answers + i <= most
      /\ packets + o <= 1
  BY QueuedBounded
<1>3. verbs = 0 \/ c = 1 \/ i = 1 \/ o = 1
  OBVIOUS
<1> HIDE DEF verbs, setups, answers, packets, others, c, i, o, most
<1>4. verbs + setups + answers + packets + others < EventQueueSize
  BY <1>1, <1>2, <1>3
<1>5. QED
  BY <1>4 DEF verbs, setups, answers, packets, others

(* A step that the transfer does not notice: at most an acknowledgement is *)
(* dispatched, or the client forgets its request.                          *)
LEMMA Unnoticed ==
  ASSUME IInv, Flowing, SetupsQueued', SetupBehind', UNCHANGED target,
         usb0'.in = usb0.in, usb0'.in_ready = usb0.in_ready,
         usb0'.in_stall = usb0.in_stall, usb0'.out_stall = usb0.out_stall,
         usb0'.tx = usb0.tx, usb0'.setup = usb0.setup,
         usb0'.tx_ack = usb0.tx_ack \/ usb0.tx.at = "none",
         \A irq \in {"EpControl", "EpIn"} :
           irq \in usb0'.pending <=> irq \in usb0.pending,
         Queued("ReceiveSetupPacket")' = Queued("ReceiveSetupPacket"),
         Queued("SendComplete")' \in Nat,
         Queued("SendComplete")' <= Queued("SendComplete"),
         UNCHANGED control_queue, client'.setup \in {client.setup, NoSetup}
  PROVE  Asked' /\ Answered' /\ Writing' /\ Acknowledged'
<1>1. /\ Unread' = Unread /\ Pending("EpControl")' = Pending("EpControl")
      /\ Pending("EpIn")' = Pending("EpIn")
      /\ Held' \in {0, 1} /\ Held' <= Held
  BY DEF Unread, Pending, Held
<1>2. /\ \A type : Queued(type) \in Nat
      /\ \A irq : Pending(irq) \in {0, 1}
      /\ Held \in {0, 1} /\ Len(control_queue) \in Nat /\ Len(Unread) \in Nat
      /\ MostAnswered \in Nat
  BY Typed
<1>3. Waiting' <= Waiting /\ Waiting \in Nat /\ Waiting' \in Nat
  BY <1>1, <1>2 DEF Waiting
<1> HIDE DEF Waiting, Unread, Queued, Pending, Held
<1>4. Waiting' <= 1 /\ (Waiting' = 1 => Waiting = 1)
  BY <1>3 DEF Flowing, Asked
<1>5. Asked'
  BY <1>1, <1>4 DEF Flowing, Asked
<1>6. Answered'
  BY <1>1 DEF Flowing, Answered
<1>7. Writing'
  BY DEF Flowing, Writing
<1>8. Acknowledged'
  BY <1>1, <1>2 DEF Flowing, Acknowledged
<1>9. QED
  BY <1>5, <1>6, <1>7, <1>8
-----------------------------------------------------------------------------
(* Interrupts and events.                                                  *)

LEMMA MachineExternalFlows ==
  ASSUME IInv, Flowing, Obliging, MachineExternal
  PROVE  Flowing'
<1> DEFINE irq == HighestPending(usb0.pending)
           event(type, ep, data) == [type |-> type, ep |-> ep, data |-> data]
<1>1. /\ usb0 \in Usb /\ usb0.pending # {} /\ usb0.pending \in SUBSET Irq
      /\ data_ep \in OutEndpoints /\ SetupPending
      /\ usb0.out \in Seq(OutPacket)
      /\ usb0.setup \in SetupPacket \union {NoSetup}
  BY DEF IInv, DeviceOK, MachineExternal, Usb
<1>2. /\ irq \in usb0.pending
      /\ \A other \in usb0.pending : IrqNumber(irq) >= IrqNumber(other)
  BY <1>1, HighestPendingIsPending
<1>3. /\ \A type : Queued(type) \in Nat
      /\ \A i : Pending(i) \in {0, 1}
      /\ Held \in {0, 1} /\ Len(control_queue) \in Nat /\ Len(Unread) \in Nat
      /\ MostAnswered \in Nat /\ EventQueueSize \in Nat
      /\ Number(irq_queue, "ReceivePacket") \in Nat
      /\ EventQueueSize >= MostAnswered + 3
  BY Typed, MoondancerAssumption DEF Obliging
<1>4. /\ Undisturbed /\ Session /\ Asked /\ Answered /\ Writing
      /\ Acknowledged /\ OneReceived
  BY DEF Flowing
<1>5. /\ Queued("Verb") <= 1 /\ Queued("BusReset") = 0
      /\ Queued("ReceiveSetupPacket") + Pending("EpControl") <= 1
      /\ Queued("SendComplete") + Pending("EpIn") <= MostAnswered
      /\ Queued("ReceivePacket") + Pending("EpOut") <= 1
  BY QueuedBounded
<1>6. /\ primed' = primed /\ data_ep' = data_ep
      /\ UNCHANGED <<irq_queue, control_queue, target, client, sessions>>
      /\ stuck = "nothing"
  BY <1>4 DEF MachineExternal, outVars, queueVars, targetVars, Undisturbed
<1> HIDE DEF irq
<1>7. CASE /\ irq = "EpControl" /\ usb0' = ReadSetup(usb0)
           /\ Enqueue(event("ReceiveSetupPacket", 0, usb0.setup))
  <2> DEFINE e == event("ReceiveSetupPacket", 0, usb0.setup)
  <2>1. usb0.setup # NoSetup /\ usb0.setup = target.setup
    BY <1>1, <1>2, <1>4, <1>7 DEF SetupPending, Asked
  <2>2. e \in Event /\ e.type = "ReceiveSetupPacket" /\ e.data = target.setup
    BY <1>1, <2>1 DEF Event
  <2>3. Pending("EpControl") = 1
    BY <1>2, <1>7 DEF Pending
  <2>4. "EpIn" \notin usb0.pending
    <3>1. IrqNumber("EpControl") = 1 /\ IrqNumber("EpIn") = 2
      BY DEF IrqNumber
    <3>2. QED
      BY <1>2, <1>7, <3>1
  <2>5. /\ usb0' = [usb0 EXCEPT !.pending = usb0.pending \ {"EpControl"},
                               !.setup = NoSetup]
    BY <1>1, <1>7 DEF ReadSetup, ClearPending
  <2>6. /\ usb0'.in = usb0.in /\ usb0'.in_ready = usb0.in_ready
        /\ usb0'.in_stall = usb0.in_stall /\ usb0'.out_stall = usb0.out_stall
        /\ usb0'.tx = usb0.tx /\ usb0'.tx_ack = usb0.tx_ack
        /\ usb0'.out_enable = usb0.out_enable
        /\ usb0'.pending = usb0.pending \ {"EpControl"}
    BY <1>1, <2>5 DEF Usb
  <2> HIDE DEF e
  <2>7. Queued("Verb") + Queued("ReceiveSetupPacket") + Queued("SendComplete")
           + Queued("ReceivePacket") + Queued("BusReset") < EventQueueSize
    BY <2>3, RoomForOne
  <2>8. /\ event_queue' = Append(event_queue, e) /\ stuck' = "nothing"
        /\ \A type : Queued(type)'
                      = Queued(type) + (IF e.type = type THEN 1 ELSE 0)
    BY <1>6, <1>7, <2>2, <2>7, Enqueued DEF e
  <2>9. SetupsQueued' /\ SetupBehind'
    BY <1>4, <1>6, <2>2, <2>8, EnqueuedBehind DEF Asked, Acknowledged
  <2>10. /\ Pending("EpControl")' = 0 /\ Pending("EpIn")' = 0
         /\ Pending("EpOut")' = Pending("EpOut") /\ Pending("EpIn") = 0
         /\ Unread' = Unread /\ Held' = Held
    BY <1>6, <2>4, <2>6 DEF Pending, Unread, Held
  <2>11. /\ Queued("Verb")' = Queued("Verb")
         /\ Queued("BusReset")' = Queued("BusReset")
         /\ Queued("SendComplete")' = Queued("SendComplete")
         /\ Queued("ReceivePacket")' = Queued("ReceivePacket")
         /\ Queued("ReceiveSetupPacket")' = Queued("ReceiveSetupPacket") + 1
    BY <1>3, <2>2, <2>8
  <2>12. VerbQueued' => VerbQueued
    BY <1>6, <1>7, <2>2, EnqueueStep DEF IInv, e
  <2> HIDE DEF Waiting, Unread, Queued, Pending, Held
  <2>13. Waiting' = Waiting
    BY <1>3, <1>6, <2>3, <2>10, <2>11 DEF Waiting
  <2>14. Undisturbed' /\ Session' /\ OneReceived'
    BY <1>3, <1>4, <1>6, <2>6, <2>8, <2>10, <2>11, <2>12
       DEF Undisturbed, Session, OneReceived
  <2>15. Asked'
    BY <1>4, <1>6, <2>6, <2>9, <2>10, <2>13 DEF Asked
  <2>16. Answered' /\ Writing'
    BY <1>4, <1>6, <2>6, <2>10 DEF Answered, Writing
  <2>17. Acknowledged'
    <3>1. control_queue = <<>> /\ Held = 0
      BY <1>3, <1>4, <1>5, <2>3 DEF Asked, Waiting
    <3>2. QED
      BY <1>3, <1>4, <1>6, <2>6, <2>4, <2>9, <2>10, <2>11 DEF Acknowledged
  <2>18. QED
    BY <2>14, <2>15, <2>16, <2>17 DEF Flowing
<1>8. CASE /\ irq = "EpIn" /\ usb0' = SendComplete(usb0)
           /\ Enqueue(event("SendComplete", 0, <<>>))
  <2> DEFINE e == event("SendComplete", 0, <<>>)
  <2>1. e \in Event /\ e.type = "SendComplete"
    BY DEF Event
  <2>2. Pending("EpIn") = 1 /\ "EpIn" \in usb0.pending
    BY <1>2, <1>8 DEF Pending
  <2>3. /\ usb0' = [usb0 EXCEPT !.pending = usb0.pending \ {"EpIn"},
                               !.tx_ack = FALSE]
    BY <1>1, <1>8 DEF SendComplete, ClearPending
  <2>4. /\ usb0'.in = usb0.in /\ usb0'.in_ready = usb0.in_ready
        /\ usb0'.in_stall = usb0.in_stall /\ usb0'.out_stall = usb0.out_stall
        /\ usb0'.tx = usb0.tx /\ usb0'.tx_ack = FALSE
        /\ usb0'.setup = usb0.setup /\ usb0'.out_enable = usb0.out_enable
        /\ usb0'.pending = usb0.pending \ {"EpIn"}
    BY <1>1, <2>3 DEF Usb
  <2> HIDE DEF e
  <2>5. Queued("Verb") + Queued("ReceiveSetupPacket") + Queued("SendComplete")
           + Queued("ReceivePacket") + Queued("BusReset") < EventQueueSize
    BY <2>2, RoomForOne
  <2>6. /\ event_queue' = Append(event_queue, e) /\ stuck' = "nothing"
        /\ \A type : Queued(type)'
                      = Queued(type) + (IF e.type = type THEN 1 ELSE 0)
    BY <1>6, <1>8, <2>1, <2>5, Enqueued DEF e
  <2>7. Queued("ReceiveSetupPacket") = 0
    BY <1>4, <2>2 DEF Acknowledged
  <2>8. SetupsQueued' /\ SetupBehind'
    BY <1>4, <1>6, <2>1, <2>6, <2>7, EnqueuedBehind DEF Asked, Acknowledged
  <2>9. /\ Pending("EpControl")' = Pending("EpControl") /\ Pending("EpIn")' = 0
        /\ Pending("EpOut")' = Pending("EpOut")
        /\ Unread' = Unread /\ Held' = Held
    BY <1>6, <2>4 DEF Pending, Unread, Held
  <2>10. /\ Queued("Verb")' = Queued("Verb")
         /\ Queued("BusReset")' = Queued("BusReset")
         /\ Queued("SendComplete")' = Queued("SendComplete") + 1
         /\ Queued("ReceivePacket")' = Queued("ReceivePacket")
         /\ Queued("ReceiveSetupPacket")' = Queued("ReceiveSetupPacket")
    BY <1>3, <2>1, <2>6
  <2>11. VerbQueued' => VerbQueued
    BY <1>6, <1>8, <2>1, EnqueueStep DEF IInv, e
  <2> HIDE DEF Waiting, Unread, Queued, Pending, Held
  <2>12. Waiting' = Waiting
    BY <1>3, <1>6, <2>9, <2>10 DEF Waiting
  <2>13. Undisturbed' /\ Session' /\ OneReceived'
    BY <1>3, <1>4, <1>6, <2>4, <2>6, <2>9, <2>10, <2>11
       DEF Undisturbed, Session, OneReceived
  <2>14. Asked'
    BY <1>4, <1>6, <2>4, <2>8, <2>9, <2>12 DEF Asked
  <2>15. Answered' /\ Writing'
    BY <1>4, <1>6, <2>2, <2>4, <2>9 DEF Answered, Writing
  <2>16. Acknowledged'
    BY <1>3, <1>4, <1>6, <2>2, <2>4, <2>7, <2>8, <2>9, <2>10 DEF Acknowledged
  <2>17. QED
    BY <2>13, <2>14, <2>15, <2>16 DEF Flowing
<1>9. CASE /\ irq = "EpOut" /\ usb0' = ClearPending(usb0, "EpOut")
           /\ Enqueue(event("ReceivePacket", data_ep, usb0.out))
  <2> DEFINE e == event("ReceivePacket", data_ep, usb0.out)
  <2>1. e \in Event /\ e.type = "ReceivePacket"
    BY <1>1 DEF Event
  <2>2. Pending("EpOut") = 1
    BY <1>2, <1>9 DEF Pending
  <2>3. usb0' = [usb0 EXCEPT !.pending = usb0.pending \ {"EpOut"}]
    BY <1>1, <1>9 DEF ClearPending
  <2>4. /\ usb0'.in = usb0.in /\ usb0'.in_ready = usb0.in_ready
        /\ usb0'.in_stall = usb0.in_stall /\ usb0'.out_stall = usb0.out_stall
        /\ usb0'.tx = usb0.tx /\ usb0'.tx_ack = usb0.tx_ack
        /\ usb0'.setup = usb0.setup /\ usb0'.out_enable = usb0.out_enable
        /\ usb0'.pending = usb0.pending \ {"EpOut"}
    BY <1>1, <2>3 DEF Usb
  <2> HIDE DEF e
  <2>5. Queued("Verb") + Queued("ReceiveSetupPacket") + Queued("SendComplete")
           + Queued("ReceivePacket") + Queued("BusReset") < EventQueueSize
    BY <2>2, RoomForOne
  <2>6. /\ event_queue' = Append(event_queue, e) /\ stuck' = "nothing"
        /\ \A type : Queued(type)'
                      = Queued(type) + (IF e.type = type THEN 1 ELSE 0)
    BY <1>6, <1>9, <2>1, <2>5, Enqueued DEF e
  <2>7. SetupsQueued' /\ SetupBehind'
    BY <1>4, <1>6, <2>1, <2>6, EnqueuedBehind DEF Asked, Acknowledged
  <2>8. Pending("EpOut")' = 0
    BY <2>4 DEF Pending
  <2>9. /\ Queued("Verb")' = Queued("Verb")
        /\ Queued("BusReset")' = Queued("BusReset")
        /\ Queued("SendComplete")' = Queued("SendComplete")
        /\ Queued("ReceivePacket")' = Queued("ReceivePacket") + 1
        /\ Queued("ReceiveSetupPacket")' = Queued("ReceiveSetupPacket")
    BY <1>3, <2>1, <2>6
  <2>10. VerbQueued' => VerbQueued
    BY <1>6, <1>9, <2>1, EnqueueStep DEF IInv, e
  <2>11. /\ \A i \in {"EpControl", "EpIn"} :
              i \in usb0'.pending <=> i \in usb0.pending
         /\ Queued("SendComplete")' \in Nat
         /\ Queued("SendComplete")' <= Queued("SendComplete")
         /\ client'.setup \in {client.setup, NoSetup}
    BY <1>3, <1>6, <2>4, <2>9
  <2>12. Asked' /\ Answered' /\ Writing' /\ Acknowledged'
    BY <1>6, <2>4, <2>7, <2>9, <2>11, Unnoticed
  <2> HIDE DEF Queued, Pending
  <2>13. Undisturbed' /\ Session' /\ OneReceived'
    BY <1>3, <1>4, <1>6, <2>2, <2>4, <2>6, <2>8, <2>9, <2>10
       DEF Undisturbed, Session, OneReceived
  <2>14. QED
    BY <2>12, <2>13 DEF Flowing
<1>10. irq # "BusReset"
  BY <1>2, <1>4 DEF Undisturbed
<1>11. QED
  BY <1>7, <1>8, <1>9, <1>10, Zenon DEF MachineExternal, irq

(* An arm of dispatch_event other than a verb: the controller keeps its    *)
(* interrupts, and irq_queue gets a packet's event for the packet's event. *)
LEMMA DispatchFlows ==
  ASSUME IInv, Flowing, NEW type, type # "Verb", NextEvent(type),
         usb0'.pending = usb0.pending, usb0'.out_enable = usb0.out_enable,
         UNCHANGED <<stuck, target, client, sessions>>,
         Number(irq_queue', "ReceivePacket") \in Nat,
         Number(irq_queue', "ReceivePacket") <= Number(irq_queue, "ReceivePacket")
           + (IF type = "ReceivePacket" THEN 1 ELSE 0)
  PROVE  Undisturbed' /\ Session' /\ OneReceived'
<1>1. /\ \A t : Queued(t) = Queued(t)' + (IF type = t THEN 1 ELSE 0)
      /\ \A t : Queued(t)' \in Nat
      /\ usb0.pending = {} /\ stuck = "nothing"
  BY Dequeued
<1>2. VerbQueued' => VerbQueued
  BY NextEventStep DEF IInv
<1>3. /\ Number(irq_queue, "ReceivePacket") \in Nat
      /\ Pending("EpOut") = 0 /\ Pending("EpOut")' = 0
  BY <1>1, Typed DEF Pending
<1>4. /\ Queued("BusReset")' \in Nat /\ Queued("BusReset")' <= Queued("BusReset")
      /\ Queued("Verb")' \in Nat /\ Queued("Verb")' <= Queued("Verb")
      /\ Queued("ReceivePacket")' \in Nat /\ Queued("ReceivePacket") \in Nat
      /\ Queued("ReceivePacket") = Queued("ReceivePacket")'
           + (IF type = "ReceivePacket" THEN 1 ELSE 0)
  <2>1. Queued("BusReset")' \in Nat /\ Queued("Verb")' \in Nat
        /\ Queued("ReceivePacket")' \in Nat /\ Queued("ReceivePacket") \in Nat
    BY <1>1, Typed
  <2>2. /\ Queued("BusReset") = Queued("BusReset")' + (IF type = "BusReset" THEN 1 ELSE 0)
        /\ Queued("Verb") = Queued("Verb")' + (IF type = "Verb" THEN 1 ELSE 0)
        /\ Queued("ReceivePacket") = Queued("ReceivePacket")'
             + (IF type = "ReceivePacket" THEN 1 ELSE 0)
    BY <1>1
  <2>3. QED
    BY <2>1, <2>2
<1> HIDE DEF Queued, Pending
<1>5. Undisturbed'
  BY <1>1, <1>4 DEF Flowing, Undisturbed
<1>6. Session'
  BY <1>2 DEF Flowing, Session
<1>7. OneReceived'
  <2> DEFINE room == IF client.armed THEN 1 ELSE 0
             enabled == IF usb0.out_enable THEN 1 ELSE 0
             packets == Queued("ReceivePacket") + Number(irq_queue, "ReceivePacket")
             later == Queued("ReceivePacket")' + Number(irq_queue', "ReceivePacket")
  <2>1. packets \in Nat /\ later \in Nat /\ later <= packets
    BY <1>3, <1>4
  <2>2. enabled + 0 + Queued("ReceivePacket") + Number(irq_queue, "ReceivePacket") <= room
    BY <1>3 DEF Flowing, OneReceived
  <2>3. enabled \in Nat /\ room \in Nat
    OBVIOUS
  <2>4. enabled + 0 + Queued("ReceivePacket")' + Number(irq_queue', "ReceivePacket") <= room
    <3> HIDE DEF enabled, room
    <3>1. QED
      BY <1>3, <1>4, <2>1, <2>2, <2>3
  <2>5. QED
    BY <1>3, <2>4 DEF OneReceived
<1>8. QED
  BY <1>5, <1>6, <1>7

LEMMA IrqEnqueueNumber ==
  ASSUME IInv, NEW event \in IrqEvent, IrqEnqueue(event)
  PROVE  /\ Number(irq_queue', "ReceivePacket") \in Nat
         /\ Number(irq_queue', "ReceivePacket")
              <= Number(irq_queue, "ReceivePacket")
                   + (IF event.type = "ReceivePacket" THEN 1 ELSE 0)
<1>1. irq_queue \in Seq(IrqEvent)
      /\ irq_queue' \in {irq_queue, Append(irq_queue, event)}
  BY Typed DEF IrqEnqueue
<1>2. Append(irq_queue, event) \in Seq(IrqEvent)
  BY <1>1
<1>3. Number(irq_queue, "ReceivePacket") \in Nat
  BY <1>1, NumberType
<1>4. Number(Append(irq_queue, event), "ReceivePacket")
        = Number(irq_queue, "ReceivePacket")
            + (IF event.type = "ReceivePacket" THEN 1 ELSE 0)
  BY <1>1, NumberAppend
<1>5. CASE irq_queue' = irq_queue
  <2>1. Number(irq_queue', "ReceivePacket") = Number(irq_queue, "ReceivePacket")
    BY <1>5
  <2>2. QED
    BY <1>3, <2>1
<1>6. CASE irq_queue' = Append(irq_queue, event)
  <2>1. Number(irq_queue', "ReceivePacket")
          = Number(Append(irq_queue, event), "ReceivePacket")
    BY <1>6
  <2>2. QED
    BY <1>3, <1>4, <2>1
<1>7. QED
  BY <1>1, <1>5, <1>6

LEMMA OnBusResetFlows ==
  ASSUME IInv, Flowing, OnBusReset
  PROVE  FALSE
<1>1. NextEvent("BusReset")
  BY DEF OnBusReset
<1>2. Queued("BusReset") = Queued("BusReset")' + 1 /\ Queued("BusReset")' \in Nat
  BY <1>1, Dequeued
<1>3. QED
  BY <1>2 DEF Flowing, Undisturbed

(* A write begins once the request is taken: every packet of its answer    *)
(* ends the data stage of the host that polls for it.                      *)
LEMMA AnswerBegins ==
  ASSUME IInv, Flowing, Waiting = 1, target' = target,
         NEW packets \in Seq(InPacket), packets # <<>>,
         usb0' = WriteWithPacketSize(usb0, packets),
         usb0.pending = {}, usb0.tx.at = "none",
         target.setup.request = "In" => Ends(packets, target.setup.length),
         target.setup.request # "In" => Len(packets) = 1,
         Queued("ReceiveSetupPacket")' = 0, Queued("SendComplete")' = 0,
         control_queue' = <<>>, client'.setup = NoSetup,
         SetupsQueued', SetupBehind'
  PROVE  Asked' /\ Answered' /\ Writing' /\ Acknowledged'
<1>1. /\ Asked /\ Answered /\ Writing
  BY DEF Flowing
<1>2. /\ usb0 \in Usb /\ usb0.in \in Seq(InPacket)
      /\ usb0.tx.left \in Seq(InPacket) /\ target.setup \in SetupPacket
      /\ target.moved \in Nat
  BY <1>1, Typed DEF Asked
<1>3. /\ target.stage # "idle" /\ Unread = <<>>
      /\ ~ usb0.in_stall /\ ~ usb0.out_stall
      /\ target.setup.request = "In" =>
           target.stage = "data" /\ target.moved = 0
  BY <1>1 DEF Asked
<1>4. usb0.in = <<>>
  <2> SUFFICES ASSUME NEW S, NEW s \in Seq(S), NEW t \in Seq(S), s \o t = <<>>
               PROVE  s = <<>>
    BY <1>2, <1>3, Zenon DEF Unread
  <2>1. Len(s \o t) = Len(s) + Len(t) /\ Len(s) \in Nat /\ Len(t) \in Nat
        /\ Len(s \o t) = 0
    OBVIOUS
  <2>2. QED
    BY <2>1
<1>5. /\ usb0'.in = <<>> /\ usb0'.in_ready = usb0.in_ready
      /\ usb0'.in_stall = usb0.in_stall /\ usb0'.out_stall = usb0.out_stall
      /\ usb0'.pending = {} /\ usb0'.tx.at = "drain" /\ usb0'.tx.left = packets
      /\ usb0'.tx_ack = TRUE
  BY <1>2, <1>4 DEF WriteWithPacketSize, Usb
<1>6. Unread' = packets
  <2>1. <<>> \o packets = packets
    OBVIOUS
  <2>2. QED
    BY <1>5, <2>1 DEF Unread
<1>7. /\ Pending("EpControl")' = 0 /\ Pending("EpIn")' = 0
      /\ Held' = 0 /\ Len(control_queue') = 0
  BY <1>5 DEF Pending, Held
<1>8. Waiting' = 0
  BY <1>7 DEF Waiting
<1>9. Len(packets) \in Nat \ {0} /\ Len(packets) <= MostAnswered
  <2>1. Len(packets) \in Nat \ {0}
    OBVIOUS
  <2>2. target.setup.length \in 0 .. MaxLength /\ MaxLength \in Nat
    BY <1>2, EndpointAssumption DEF SetupPacket
  <2>3. CASE target.setup.request = "In"
    <3>1. Len(packets) <= target.setup.length
      BY <2>3 DEF Ends
    <3>2. QED
      BY <2>1, <2>2, <3>1 DEF MostAnswered
  <2>4. CASE target.setup.request # "In"
    <3>1. Len(packets) = 1
      BY <2>4
    <3>2. 1 <= MostAnswered
      BY Typed
    <3>3. QED
      BY <3>1, <3>2
  <2>5. QED
    BY <2>3, <2>4
<1>10. Asked'
  BY <1>5, <1>8 DEF Asked
<1>11. Answered'
  <2>1. target.setup.length - target.moved = target.setup.length
        \/ target.setup.request # "In"
    <3>1. target.setup.length \in Nat
      BY <1>2, EndpointAssumption DEF SetupPacket
    <3>2. QED
      BY <1>3, <3>1
  <2>2. QED
    BY <1>3, <1>5, <1>6, <2>1 DEF Answered
<1>12. Writing'
  BY <1>1, <1>4, <1>5 DEF Writing
<1>13. Acknowledged'
  <2>1. Len(Unread') = Len(packets) /\ MostAnswered \in Nat
    BY <1>6, Typed
  <2>2. Queued("SendComplete")' + Pending("EpIn")' + Len(Unread') <= MostAnswered
    BY <1>7, <1>9, <2>1
  <2>3. QED
    BY <1>5, <2>2 DEF Acknowledged
<1>14. QED
  BY <1>10, <1>11, <1>12, <1>13

LEMMA WaitingIs ==
  ASSUME IInv, Flowing
  PROVE  /\ Queued("ReceiveSetupPacket") > 0 =>
              /\ Waiting = 1 /\ Queued("ReceiveSetupPacket") = 1
              /\ Pending("EpControl") = 0 /\ control_queue = <<>>
              /\ client.setup = NoSetup
         /\ control_queue # <<>> =>
              /\ Waiting = 1 /\ Len(control_queue) = 1
              /\ Pending("EpControl") = 0 /\ Queued("ReceiveSetupPacket") = 0
              /\ client.setup = NoSetup
         /\ client.setup # NoSetup =>
              /\ Waiting = 1 /\ control_queue = <<>>
              /\ Pending("EpControl") = 0 /\ Queued("ReceiveSetupPacket") = 0
         /\ Waiting # 1 =>
              /\ Waiting = 0 /\ control_queue = <<>> /\ client.setup = NoSetup
              /\ Pending("EpControl") = 0 /\ "EpControl" \notin usb0.pending
              /\ Queued("ReceiveSetupPacket") = 0
<1>1. /\ \A type : Queued(type) \in Nat
      /\ \A i : Pending(i) \in {0, 1}
      /\ Held \in {0, 1} /\ Len(control_queue) \in Nat
      /\ control_queue \in Seq(SetupPacket)
  BY Typed
<1>2. /\ control_queue = <<>> <=> Len(control_queue) = 0
      /\ client.setup = NoSetup <=> Held = 0
      /\ "EpControl" \in usb0.pending <=> Pending("EpControl") = 1
  BY <1>1 DEF Held, Pending
<1>3. Waiting <= 1
  BY DEF Flowing, Asked
<1> HIDE DEF Held, Pending, Queued
<1>4. Waiting = Pending("EpControl") + Queued("ReceiveSetupPacket")
             + Len(control_queue) + Held
  BY DEF Waiting
<1> HIDE DEF Waiting
<1> DEFINE a == Pending("EpControl")
           b == Queued("ReceiveSetupPacket")
           c == Len(control_queue)
<1>5. a \in {0, 1} /\ b \in Nat /\ c \in Nat /\ Held \in {0, 1}
      /\ Waiting = a + b + c + Held
  BY <1>1, <1>4
<1> HIDE DEF a, b, c
<1>6. /\ b > 0 => Waiting = 1 /\ b = 1 /\ a = 0 /\ c = 0 /\ Held = 0
      /\ c # 0 => Waiting = 1 /\ c = 1 /\ a = 0 /\ b = 0 /\ Held = 0
      /\ Held # 0 => Waiting = 1 /\ c = 0 /\ a = 0 /\ b = 0
      /\ Waiting # 1 => Waiting = 0 /\ c = 0 /\ a = 0 /\ b = 0 /\ Held = 0
  BY <1>3, <1>5
<1>7. QED
  BY <1>2, <1>6 DEF a, b, c

LEMMA OnSetAddressFlows ==
  ASSUME IInv, Flowing, OnSetAddress
  PROVE  Flowing'
<1> DEFINE setup == Head(event_queue).data
           zlp == [id |-> setup.id, of |-> <<>>, size |-> "zlp"]
<1>1. /\ NextEvent("ReceiveSetupPacket") /\ setup.request = "SetAddress"
      /\ usb0' = WriteZlp(usb0, setup.id)
      /\ UNCHANGED <<outVars, stuck, irq_queue, control_queue, packet_buffer,
                     targetVars, client, sessions>>
  BY DEF OnSetAddress
<1>2. target' = target
  BY <1>1 DEF targetVars
<1>3. /\ Head(event_queue) \in Event
      /\ Head(event_queue).type = "ReceiveSetupPacket"
      /\ \A t : Queued(t) = Queued(t)' + (IF "ReceiveSetupPacket" = t THEN 1 ELSE 0)
      /\ \A t : Queued(t)' \in Nat
      /\ usb0.pending = {} /\ usb0.tx.at = "none"
  BY <1>1, Dequeued
<1>4. /\ SetupsQueued' /\ SetupBehind' /\ Queued("SendComplete") = 0
      /\ setup = target.setup
  BY <1>1, <1>2, DequeuedBehind DEF Flowing, Asked, Acknowledged
<1>5. setup \in SetupPacket
  BY <1>3 DEF Event
<1>6. setup.id \in Transfers
  BY <1>5 DEF SetupPacket
<1>7. Queued("ReceiveSetupPacket") = Queued("ReceiveSetupPacket")' + 1
      /\ Queued("ReceiveSetupPacket")' \in Nat
      /\ Queued("SendComplete") = Queued("SendComplete")' + 0
      /\ Queued("SendComplete")' \in Nat
  BY <1>3
<1>8. /\ Waiting = 1 /\ Queued("ReceiveSetupPacket")' = 0
      /\ Queued("SendComplete")' = 0
      /\ control_queue = <<>> /\ client.setup = NoSetup
  BY <1>4, <1>7, WaitingIs
<1>9. usb0' = WriteWithPacketSize(usb0, <<zlp>>)
  BY <1>1 DEF WriteZlp
<1>10. <<zlp>> \in Seq(InPacket) /\ <<zlp>> # <<>> /\ Len(<<zlp>>) = 1
  BY <1>6 DEF InPacket
<1>11. target.setup.request # "In"
  BY <1>1, <1>4
<1> DEFINE packets == <<zlp>>
<1> HIDE DEF packets, setup
<1>12. Asked' /\ Answered' /\ Writing' /\ Acknowledged'
  BY <1>1, <1>2, <1>3, <1>4, <1>8, <1>9, <1>10, <1>11, AnswerBegins DEF packets
<1>13. /\ usb0'.pending = usb0.pending /\ usb0'.out_enable = usb0.out_enable
  BY <1>9, Typed DEF WriteWithPacketSize, Usb
<1>14. /\ Number(irq_queue', "ReceivePacket") \in Nat
       /\ Number(irq_queue', "ReceivePacket") <= Number(irq_queue, "ReceivePacket")
            + (IF "ReceiveSetupPacket" = "ReceivePacket" THEN 1 ELSE 0)
  BY <1>1, Typed
<1>15. Undisturbed' /\ Session' /\ OneReceived'
  BY <1>1, <1>2, <1>13, <1>14, DispatchFlows, Zenon
<1>16. QED
  BY <1>12, <1>15 DEF Flowing

LEMMA OnSetupFlows ==
  ASSUME IInv, Flowing, OnSetup
  PROVE  Flowing'
<1> DEFINE setup == Head(event_queue).data
           event == [type |-> "ReceiveControl", ep |-> 0, tag |-> setup.id]
<1>1. /\ NextEvent("ReceiveSetupPacket")
      /\ \/ /\ Len(control_queue) < ControlQueueSize
            /\ control_queue' = Append(control_queue, setup)
            /\ IrqEnqueue(event)
            /\ UNCHANGED stuck
         \/ /\ Len(control_queue) >= ControlQueueSize
            /\ stuck' = "main"
            /\ UNCHANGED <<control_queue, irq_queue>>
      /\ UNCHANGED <<usb0, outVars, packet_buffer, pending_set_address,
                     targetVars, client, sessions>>
  BY DEF OnSetup
<1>2. target' = target
  BY <1>1 DEF targetVars
<1>3. /\ Head(event_queue) \in Event
      /\ Head(event_queue).type = "ReceiveSetupPacket"
      /\ \A t : Queued(t) = Queued(t)' + (IF "ReceiveSetupPacket" = t THEN 1 ELSE 0)
      /\ \A t : Queued(t)' \in Nat
      /\ usb0.pending = {} /\ usb0.tx.at = "none"
  BY <1>1, Dequeued
<1>4. /\ SetupsQueued' /\ SetupBehind' /\ Queued("SendComplete") = 0
      /\ setup = target.setup
  BY <1>1, <1>2, DequeuedBehind DEF Flowing, Asked, Acknowledged
<1>5. setup \in SetupPacket /\ event \in IrqEvent /\ event.type = "ReceiveControl"
  BY <1>3 DEF Event, IrqEvent, SetupPacket
<1>6. Queued("ReceiveSetupPacket") = Queued("ReceiveSetupPacket")' + 1
      /\ Queued("ReceiveSetupPacket")' \in Nat
      /\ Queued("SendComplete") = Queued("SendComplete")' + 0
      /\ Queued("SendComplete")' \in Nat
  BY <1>3
<1>7. /\ Waiting = 1 /\ Queued("ReceiveSetupPacket")' = 0
      /\ Queued("SendComplete")' = 0
      /\ control_queue = <<>> /\ client.setup = NoSetup
  BY <1>4, <1>6, WaitingIs
<1> HIDE DEF event
<1>8. /\ control_queue' = Append(control_queue, setup)
      /\ IrqEnqueue(event) /\ UNCHANGED stuck
  <2>1. Len(control_queue) = 0 /\ ControlQueueSize \in Nat \ {0}
    BY <1>7, MoondancerAssumption
  <2>2. ~ (Len(control_queue) >= ControlQueueSize)
    BY <2>1
  <2>3. QED
    BY <1>1, <2>2
<1>9. control_queue' = <<setup>>
  BY <1>7, <1>8
<1>10. /\ Number(irq_queue', "ReceivePacket") \in Nat
       /\ Number(irq_queue', "ReceivePacket") <= Number(irq_queue, "ReceivePacket")
            + (IF "ReceiveSetupPacket" = "ReceivePacket" THEN 1 ELSE 0)
  BY <1>5, <1>8, IrqEnqueueNumber
<1> HIDE DEF setup
<1>11. Undisturbed' /\ Session' /\ OneReceived'
  <2>1. usb0'.pending = usb0.pending /\ usb0'.out_enable = usb0.out_enable
        /\ UNCHANGED <<stuck, target, client, sessions>>
    BY <1>1, <1>2, <1>8
  <2>2. QED
    BY <1>1, <1>10, <2>1, DispatchFlows, Zenon
<1>12. /\ Unread' = Unread /\ Held' = 0 /\ Pending("EpControl")' = 0
       /\ Pending("EpIn")' = 0 /\ Len(control_queue') = 1
       /\ usb0' = usb0 /\ client' = client
  BY <1>1, <1>3, <1>7, <1>9 DEF Unread, Held, Pending
<1>13. Waiting' = 1
  BY <1>7, <1>12 DEF Waiting
<1>14. Asked'
  <2>1. \A i \in DOMAIN control_queue' : control_queue'[i] = target.setup
    BY <1>4, <1>9
  <2>2. QED
    BY <1>2, <1>3, <1>4, <1>7, <1>12, <1>13, <2>1 DEF Flowing, Asked
<1>15. Answered' /\ Writing'
  BY <1>2, <1>12 DEF Flowing, Answered, Writing
<1>16. Acknowledged'
  <2>1. Unread = <<>> /\ MostAnswered \in Nat
    BY <1>7, Typed DEF Flowing, Asked
  <2>2. Len(Unread') = 0
    BY <1>12, <2>1
  <2>3. QED
    BY <1>3, <1>4, <1>7, <1>12, <2>1, <2>2 DEF Acknowledged
<1>17. QED
  BY <1>11, <1>14, <1>15, <1>16 DEF Flowing

LEMMA OnSendCompleteFlows ==
  ASSUME IInv, Flowing, OnSendComplete
  PROVE  Flowing'
<1>1. /\ NextEvent("SendComplete")
      /\ usb0' = (IF pending_set_address = None THEN usb0
                  ELSE SetAddress(usb0, pending_set_address))
      /\ UNCHANGED <<outVars, stuck, irq_queue, control_queue, packet_buffer,
                     targetVars, client, sessions>>
  BY DEF OnSendComplete
<1>2. target' = target
  BY <1>1 DEF targetVars
<1>3. /\ \A t : Queued(t) = Queued(t)' + (IF "SendComplete" = t THEN 1 ELSE 0)
      /\ \A t : Queued(t)' \in Nat
  BY <1>1, Dequeued
<1>4. SetupsQueued' /\ SetupBehind'
  BY <1>1, <1>2, DequeuedBehind DEF Flowing, Asked, Acknowledged
<1>5. /\ usb0'.in = usb0.in /\ usb0'.in_ready = usb0.in_ready
      /\ usb0'.in_stall = usb0.in_stall /\ usb0'.out_stall = usb0.out_stall
      /\ usb0'.tx = usb0.tx /\ usb0'.tx_ack = usb0.tx_ack
      /\ usb0'.setup = usb0.setup /\ usb0'.out_enable = usb0.out_enable
      /\ usb0'.pending = usb0.pending
  BY <1>1, Typed DEF SetAddress, Usb
<1>6. /\ Queued("ReceiveSetupPacket") = Queued("ReceiveSetupPacket")' + 0
      /\ Queued("ReceiveSetupPacket")' \in Nat
      /\ Queued("SendComplete") = Queued("SendComplete")' + 1
      /\ Queued("SendComplete")' \in Nat
  BY <1>3
<1>7. /\ Queued("ReceiveSetupPacket")' = Queued("ReceiveSetupPacket")
      /\ Queued("SendComplete")' <= Queued("SendComplete")
  BY <1>6
<1>8. Asked' /\ Answered' /\ Writing' /\ Acknowledged'
  BY <1>1, <1>2, <1>4, <1>5, <1>6, <1>7, Unnoticed
<1>9. /\ Number(irq_queue', "ReceivePacket") \in Nat
      /\ Number(irq_queue', "ReceivePacket") <= Number(irq_queue, "ReceivePacket")
           + (IF "SendComplete" = "ReceivePacket" THEN 1 ELSE 0)
  BY <1>1, Typed
<1>10. Undisturbed' /\ Session' /\ OneReceived'
  BY <1>1, <1>2, <1>5, <1>9, DispatchFlows, Zenon
<1>11. QED
  BY <1>8, <1>10 DEF Flowing

LEMMA OnReceivePacketFlows ==
  ASSUME IInv, Flowing, OnReceivePacket
  PROVE  Flowing'
<1> DEFINE head == Head(event_queue)
           event == [type |-> "ReceivePacket", ep |-> head.ep, tag |-> head.data]
<1>1. /\ NextEvent("ReceivePacket") /\ IrqEnqueue(event) /\ usb0' = Read(usb0)
      /\ UNCHANGED <<outVars, stuck, control_queue, pending_set_address,
                     targetVars, client, sessions>>
  BY DEF OnReceivePacket
<1>2. target' = target
  BY <1>1 DEF targetVars
<1>3. /\ \A t : Queued(t) = Queued(t)' + (IF "ReceivePacket" = t THEN 1 ELSE 0)
      /\ \A t : Queued(t)' \in Nat
      /\ head \in Event /\ head.type = "ReceivePacket"
  BY <1>1, Dequeued
<1>4. event \in IrqEvent /\ event.type = "ReceivePacket"
  BY <1>3 DEF Event, IrqEvent
<1>5. SetupsQueued' /\ SetupBehind'
  BY <1>1, <1>2, DequeuedBehind DEF Flowing, Asked, Acknowledged
<1> HIDE DEF head, event
<1>6. /\ usb0'.in = usb0.in /\ usb0'.in_ready = usb0.in_ready
      /\ usb0'.in_stall = usb0.in_stall /\ usb0'.out_stall = usb0.out_stall
      /\ usb0'.tx = usb0.tx /\ usb0'.tx_ack = usb0.tx_ack
      /\ usb0'.setup = usb0.setup /\ usb0'.out_enable = usb0.out_enable
      /\ usb0'.pending = usb0.pending
  BY <1>1, Typed DEF Read, Usb
<1>7. /\ Queued("ReceiveSetupPacket") = Queued("ReceiveSetupPacket")' + 0
      /\ Queued("ReceiveSetupPacket")' \in Nat
      /\ Queued("SendComplete") = Queued("SendComplete")' + 0
      /\ Queued("SendComplete")' \in Nat
  BY <1>3
<1>8. /\ Queued("ReceiveSetupPacket")' = Queued("ReceiveSetupPacket")
      /\ Queued("SendComplete")' <= Queued("SendComplete")
  BY <1>7
<1>9. Asked' /\ Answered' /\ Writing' /\ Acknowledged'
  BY <1>1, <1>2, <1>5, <1>6, <1>7, <1>8, Unnoticed
<1>10. /\ Number(irq_queue', "ReceivePacket") \in Nat
       /\ Number(irq_queue', "ReceivePacket") <= Number(irq_queue, "ReceivePacket")
            + (IF "ReceivePacket" = "ReceivePacket" THEN 1 ELSE 0)
  BY <1>1, <1>4, IrqEnqueueNumber
<1>11. Undisturbed' /\ Session' /\ OneReceived'
  BY <1>1, <1>2, <1>6, <1>10, DispatchFlows, Zenon
<1>12. QED
  BY <1>9, <1>11 DEF Flowing
-----------------------------------------------------------------------------
(* The verbs.                                                              *)

LEMMA VerbFlows ==
  ASSUME IInv, Flowing, NEW verb, Execute(verb),
         UNCHANGED <<stuck, target, sessions>>,
         "BusReset" \notin usb0'.pending,
         client'.connected = client.connected, client'.verb \in {client.verb, None}
  PROVE  /\ Undisturbed' /\ Session' /\ SetupsQueued' /\ SetupBehind'
         /\ usb0.pending = {} /\ usb0.tx.at = "none" /\ client.verb = verb
         /\ VerbQueued
         /\ \A t \in {"ReceiveSetupPacket", "SendComplete", "ReceivePacket"} :
              Queued(t)' = Queued(t) /\ Queued(t) \in Nat
<1>1. NextEvent("Verb") /\ client.verb = verb
  BY DEF Execute
<1>2. /\ \A t : Queued(t) = Queued(t)' + (IF "Verb" = t THEN 1 ELSE 0)
      /\ \A t : Queued(t)' \in Nat
      /\ usb0.pending = {} /\ usb0.tx.at = "none" /\ stuck = "nothing"
  BY <1>1, Dequeued
<1>3. SetupsQueued' /\ SetupBehind'
  BY <1>1, DequeuedBehind DEF Flowing, Asked, Acknowledged
<1>4. ~ VerbQueued' /\ VerbQueued
  BY ExecuteStep
<1>5. /\ Queued("Verb") = Queued("Verb")' + 1 /\ Queued("Verb")' \in Nat
      /\ Queued("BusReset") = Queued("BusReset")' + 0 /\ Queued("BusReset")' \in Nat
  BY <1>2
<1>6. \A t \in {"ReceiveSetupPacket", "SendComplete", "ReceivePacket"} :
        Queued(t)' = Queued(t) /\ Queued(t) \in Nat
  BY <1>2
<1>7. None # "disconnect"
  BY MoondancerAssumption DEF Verbs
<1> HIDE DEF Queued
<1>8. Undisturbed'
  BY <1>2, <1>5 DEF Flowing, Undisturbed
<1>9. Session'
  BY <1>4, <1>7 DEF Flowing, Session
<1>10. QED
  BY <1>1, <1>2, <1>3, <1>4, <1>6, <1>8, <1>9

LEMMA ReceivedSame ==
  ASSUME OneReceived, usb0'.out_enable = usb0.out_enable,
         "EpOut" \in usb0'.pending <=> "EpOut" \in usb0.pending,
         Queued("ReceivePacket")' = Queued("ReceivePacket"),
         UNCHANGED irq_queue, client'.armed = client.armed
  PROVE  OneReceived'
BY DEF OneReceived, Pending

(* A verb that the transfer does not notice.                               *)
LEMMA QuietVerb ==
  ASSUME IInv, Flowing, NEW verb, Execute(verb),
         usb0'.in = usb0.in, usb0'.in_ready = usb0.in_ready,
         usb0'.in_stall = usb0.in_stall, usb0'.out_stall = usb0.out_stall,
         usb0'.tx = usb0.tx, usb0'.setup = usb0.setup,
         usb0'.tx_ack = usb0.tx_ack, usb0'.pending = usb0.pending,
         UNCHANGED <<stuck, target, sessions, control_queue>>,
         client'.setup \in {client.setup, NoSetup},
         client'.connected = client.connected, client'.verb \in {client.verb, None}
  PROVE  /\ Undisturbed' /\ Session' /\ Asked' /\ Answered' /\ Writing'
         /\ Acknowledged' /\ Queued("ReceivePacket")' = Queued("ReceivePacket")
<1>1. "BusReset" \notin usb0'.pending
  BY DEF Flowing, Undisturbed
<1>2. /\ Undisturbed' /\ Session' /\ SetupsQueued' /\ SetupBehind'
      /\ \A t \in {"ReceiveSetupPacket", "SendComplete", "ReceivePacket"} :
           Queued(t)' = Queued(t) /\ Queued(t) \in Nat
  BY <1>1, VerbFlows
<1>3. /\ Queued("ReceiveSetupPacket")' = Queued("ReceiveSetupPacket")
      /\ Queued("SendComplete")' \in Nat
      /\ Queued("SendComplete")' <= Queued("SendComplete")
      /\ Queued("ReceivePacket")' = Queued("ReceivePacket")
  BY <1>2
<1>4. Asked' /\ Answered' /\ Writing' /\ Acknowledged'
  BY <1>2, <1>3, Unnoticed
<1>5. QED
  BY <1>2, <1>3, <1>4

LEMMA ConnectFlows ==
  ASSUME IInv, Flowing, Connect
  PROVE  Flowing'
<1>1. /\ Execute("connect") /\ usb0' = Detached(usb0)
      /\ client' = [client EXCEPT !.verb = None, !.connected = TRUE]
      /\ sessions' = sessions + 1
      /\ UNCHANGED <<data_ep, stuck, queueVars, targetVars>>
  BY DEF Connect
<1>2. /\ client'.verb = None /\ client'.connected = TRUE
      /\ client'.setup = client.setup /\ client'.armed = client.armed
      /\ UNCHANGED <<irq_queue, control_queue, target, stuck>>
  BY <1>1, Typed DEF Client, queueVars, targetVars
<1>3. /\ usb0'.in = <<>> /\ usb0'.in_ready = FALSE
      /\ usb0'.in_stall = usb0.in_stall /\ usb0'.out_stall = usb0.out_stall
      /\ usb0'.tx = usb0.tx /\ usb0'.pending = {} /\ usb0'.out_enable = FALSE
  BY <1>1, Typed DEF Detached, Usb
<1>4. NextEvent("Verb") /\ client.verb = "connect"
  BY <1>1 DEF Execute
<1>5. /\ \A t : Queued(t) = Queued(t)' + (IF "Verb" = t THEN 1 ELSE 0)
      /\ \A t : Queued(t)' \in Nat
      /\ usb0.pending = {} /\ usb0.tx.at = "none" /\ stuck = "nothing"
  BY <1>4, Dequeued
<1>6. ~ VerbQueued' /\ VerbQueued
  BY <1>1, ExecuteStep
<1>7. /\ Queued("Verb") = Queued("Verb")' + 1 /\ Queued("Verb")' \in Nat
      /\ Queued("BusReset")' = Queued("BusReset")
      /\ Queued("ReceiveSetupPacket")' = Queued("ReceiveSetupPacket")
      /\ Queued("SendComplete")' = Queued("SendComplete")
      /\ Queued("ReceivePacket")' = Queued("ReceivePacket")
      /\ Queued("SendComplete") \in Nat /\ Queued("ReceivePacket") \in Nat
      /\ Number(irq_queue, "ReceivePacket") \in Nat
      /\ MostAnswered \in Nat
  <2>1. /\ Queued("Verb") = Queued("Verb")' + 1 /\ Queued("Verb")' \in Nat
        /\ Queued("BusReset") = Queued("BusReset")' + 0 /\ Queued("BusReset")' \in Nat
        /\ Queued("ReceiveSetupPacket") = Queued("ReceiveSetupPacket")' + 0
        /\ Queued("ReceiveSetupPacket")' \in Nat
        /\ Queued("SendComplete") = Queued("SendComplete")' + 0
        /\ Queued("SendComplete")' \in Nat
        /\ Queued("ReceivePacket") = Queued("ReceivePacket")' + 0
        /\ Queued("ReceivePacket")' \in Nat
    BY <1>5
  <2>2. Number(irq_queue, "ReceivePacket") \in Nat /\ MostAnswered \in Nat
    BY Typed
  <2>3. QED
    BY <2>1, <2>2
<1>8. SetupsQueued' /\ SetupBehind'
  BY <1>2, <1>4, DequeuedBehind DEF Flowing, Asked, Acknowledged
<1>9. target.stage = "idle"
  BY <1>4, <1>6 DEF Flowing, Session
<1>10. /\ control_queue = <<>> /\ client.setup = NoSetup
       /\ Queued("ReceiveSetupPacket") = 0
  BY <1>9, WaitingIs DEF Flowing, Asked
<1>11. Waiting' = 0
  <2>1. Pending("EpControl")' = 0 /\ Held' = 0 /\ Len(control_queue') = 0
    BY <1>2, <1>3, <1>10 DEF Pending, Held
  <2>2. QED
    BY <1>7, <1>10, <2>1 DEF Waiting
<1>12. Unread' = <<>>
  <2>1. usb0.tx.left = <<>>
    BY <1>5 DEF Flowing, Writing
  <2>2. <<>> \o <<>> = <<>>
    OBVIOUS
  <2>3. QED
    BY <1>3, <2>1, <2>2 DEF Unread
<1>13. Asked' /\ Answered' /\ Writing'
  <2>1. DOMAIN control_queue' = {}
    BY <1>2, <1>10
  <2>2. Asked'
    BY <1>2, <1>3, <1>8, <1>10, <1>11, <2>1 DEF Asked
  <2>3. Answered'
    BY <1>12 DEF Answered
  <2>4. usb0.tx.left = <<>> /\ Len(<<>>) = 0
    BY <1>5 DEF Flowing, Writing
  <2>5. Writing'
    <3>1. Len(usb0'.in) <= 1
      BY <1>3, <2>4
    <3>2. usb0'.tx.at = "none" /\ usb0'.tx.left = <<>>
      BY <1>3, <1>5, <2>4
    <3>3. usb0'.tx.at \notin {"drain", "fill", "wait"}
      BY <3>2
    <3>4. QED
      BY <1>3, <3>1, <3>2, <3>3, Zenon DEF Writing
  <2>6. QED
    BY <2>2, <2>3, <2>5
<1>14. Acknowledged'
  <2>1. Pending("EpIn")' = 0 /\ Len(Unread') = 0
    BY <1>3, <1>12 DEF Pending
  <2>2. Queued("SendComplete") <= MostAnswered
    <3>1. Pending("EpIn") \in {0, 1} /\ Len(Unread) \in Nat
      BY Typed
    <3>2. QED
      BY <1>7, <3>1 DEF Flowing, Acknowledged
  <2>3. QED
    BY <1>2, <1>3, <1>7, <1>8, <1>10, <2>1, <2>2 DEF Acknowledged
<1>15. OneReceived'
  <2>1. Pending("EpOut")' = 0 /\ Pending("EpOut") \in {0, 1}
    BY <1>3, Typed DEF Pending
  <2>2. QED
    BY <1>2, <1>3, <1>7, <2>1 DEF Flowing, OneReceived
<1>16. Undisturbed' /\ Session'
  <2>1. sessions \in Nat /\ None # "disconnect"
    BY MoondancerAssumption DEF IInv, ClientOK, Verbs
  <2>2. QED
    BY <1>1, <1>2, <1>3, <1>5, <1>6, <1>7, <2>1
       DEF Flowing, Undisturbed, Session
<1>17. QED
  BY <1>13, <1>14, <1>15, <1>16 DEF Flowing

LEMMA DisconnectFlows ==
  ASSUME IInv, Flowing, Disconnect
  PROVE  FALSE
BY DEF Disconnect, Execute, Flowing, Session

LEMMA GetInterruptEventsFlows ==
  ASSUME IInv, Flowing, GetInterruptEvents
  PROVE  Flowing'
<1> DEFINE none == \A i \in DOMAIN irq_queue : irq_queue[i].type # "ReceivePacket"
<1>1. /\ Execute("get_interrupt_events") /\ irq_queue' = <<>>
      /\ client' = [client EXCEPT !.verb = None, !.inbox = irq_queue,
                                  !.armed = client.armed /\ none]
      /\ UNCHANGED <<usb0, outVars, stuck, control_queue, packet_buffer,
                     pending_set_address, targetVars, sessions>>
  BY DEF GetInterruptEvents
<1>2. /\ client'.verb = None /\ client'.connected = client.connected
      /\ client'.setup = client.setup /\ client'.armed = (client.armed /\ none)
      /\ target' = target
  BY <1>1, Typed DEF Client, targetVars
<1>3. none <=> Number(irq_queue, "ReceivePacket") = 0
  BY Typed, NumberNone
<1>4. Number(irq_queue', "ReceivePacket") = 0
  BY <1>1, NumberEmpty
<1> HIDE DEF none
<1>5. /\ Undisturbed' /\ Session' /\ Asked' /\ Answered' /\ Writing'
      /\ Acknowledged' /\ Queued("ReceivePacket")' = Queued("ReceivePacket")
  BY <1>1, <1>2, QuietVerb
<1>6. OneReceived'
  <2>1. /\ Queued("ReceivePacket") \in Nat
        /\ Number(irq_queue, "ReceivePacket") \in Nat
        /\ Pending("EpOut") \in {0, 1} /\ Pending("EpOut")' = Pending("EpOut")
        /\ usb0' = usb0 /\ client.armed \in BOOLEAN
    BY <1>1, Typed DEF Pending, Client
  <2> HIDE DEF Pending, Queued
  <2>2. QED
    BY <1>2, <1>3, <1>4, <1>5, <2>1 DEF Flowing, OneReceived
<1>7. QED
  BY <1>5, <1>6 DEF Flowing

LEMMA BusResetVerbFlows ==
  ASSUME IInv, Flowing, BusResetVerb
  PROVE  Flowing'
<1>1. /\ Execute("bus_reset")
      /\ client' = [client EXCEPT !.verb = None, !.setup = NoSetup,
                                  !.inbox = Tail(client.inbox)]
      /\ UNCHANGED <<usb0, outVars, stuck, queueVars, targetVars, sessions>>
  BY DEF BusResetVerb
<1>2. /\ client'.verb = None /\ client'.connected = client.connected
      /\ client'.setup = NoSetup /\ client'.armed = client.armed
      /\ UNCHANGED <<target, irq_queue, control_queue>>
  BY <1>1, Typed DEF Client, targetVars, queueVars
<1>3. /\ Undisturbed' /\ Session' /\ Asked' /\ Answered' /\ Writing'
      /\ Acknowledged' /\ Queued("ReceivePacket")' = Queued("ReceivePacket")
  BY <1>1, <1>2, QuietVerb
<1>4. QED
  BY <1>1, <1>2, <1>3, ReceivedSame DEF Flowing

LEMMA ReadEndpointFlows ==
  ASSUME IInv, Flowing, ReadEndpoint
  PROVE  Flowing'
<1>1. /\ Execute("read_endpoint")
      /\ client' = [client EXCEPT !.verb = None, !.inbox = Tail(client.inbox)]
      /\ UNCHANGED <<usb0, outVars, stuck, irq_queue, control_queue,
                     pending_set_address, targetVars, sessions>>
  BY DEF ReadEndpoint
<1>2. /\ client'.verb = None /\ client'.connected = client.connected
      /\ client'.setup = client.setup /\ client'.armed = client.armed
      /\ target' = target
  BY <1>1, Typed DEF Client, targetVars
<1>3. /\ Undisturbed' /\ Session' /\ Asked' /\ Answered' /\ Writing'
      /\ Acknowledged' /\ Queued("ReceivePacket")' = Queued("ReceivePacket")
  BY <1>1, <1>2, QuietVerb
<1>4. QED
  BY <1>1, <1>2, <1>3, ReceivedSame DEF Flowing

LEMMA ArmOutFlows ==
  ASSUME IInv, Flowing, ArmOut
  PROVE  Flowing'
<1>1. PICK verb \in Arms : Execute(verb)
  BY DEF ArmOut, Arms
<1>2. /\ usb0' = EpOutPrimeReceive(usb0)
      /\ client' = [client EXCEPT !.verb = None, !.armed = TRUE]
      /\ UNCHANGED <<data_ep, stuck, queueVars, targetVars, sessions>>
  BY DEF ArmOut
<1>3. /\ client'.verb = None /\ client'.connected = client.connected
      /\ client'.setup = client.setup /\ client'.armed = TRUE
      /\ UNCHANGED <<target, irq_queue, control_queue>>
  BY <1>2, Typed DEF Client, targetVars, queueVars
<1>4. /\ usb0'.in = usb0.in /\ usb0'.in_ready = usb0.in_ready
      /\ usb0'.in_stall = usb0.in_stall /\ usb0'.out_stall = usb0.out_stall
      /\ usb0'.tx = usb0.tx /\ usb0'.tx_ack = usb0.tx_ack
      /\ usb0'.setup = usb0.setup /\ usb0'.pending = usb0.pending
      /\ usb0'.out_enable = TRUE
  BY <1>2, Typed DEF EpOutPrimeReceive, Usb
<1>5. /\ Undisturbed' /\ Session' /\ Asked' /\ Answered' /\ Writing'
      /\ Acknowledged' /\ Queued("ReceivePacket")' = Queued("ReceivePacket")
  BY <1>1, <1>2, <1>3, <1>4, QuietVerb
<1>6. ~ client.armed
  BY <1>1, ExecuteStep DEF Flowing, Session
<1>7. OneReceived'
  <2>1. /\ Queued("ReceivePacket") \in Nat
        /\ Number(irq_queue, "ReceivePacket") \in Nat
        /\ Pending("EpOut") \in {0, 1} /\ Pending("EpOut")' = Pending("EpOut")
    BY <1>4, Typed DEF Pending
  <2> HIDE DEF Pending, Queued
  <2>2. QED
    BY <1>3, <1>4, <1>5, <1>6, <2>1 DEF Flowing, OneReceived
<1>8. QED
  BY <1>5, <1>7 DEF Flowing

LEMMA ReadControlFlows ==
  ASSUME IInv, Flowing, ReadControl
  PROVE  Flowing'
<1>1. Execute("read_control")
      /\ UNCHANGED <<usb0, outVars, irq_queue, packet_buffer,
                     pending_set_address, targetVars, sessions>>
  BY DEF ReadControl
<1>2. control_queue # <<>>
  BY ReadControlHeld
<1>3. /\ client' = [client EXCEPT !.verb = None, !.inbox = Tail(client.inbox),
                                  !.setup = Head(control_queue)]
      /\ control_queue' = Tail(control_queue)
      /\ UNCHANGED stuck
  BY <1>2 DEF ReadControl
<1>4. /\ client'.verb = None /\ client'.connected = client.connected
      /\ client'.setup = Head(control_queue) /\ client'.armed = client.armed
      /\ target' = target
  BY <1>1, <1>3, Typed DEF Client, targetVars
<1>5. "BusReset" \notin usb0'.pending
  BY <1>1 DEF Flowing, Undisturbed
<1>6. /\ Undisturbed' /\ Session' /\ SetupsQueued' /\ SetupBehind'
      /\ usb0.pending = {} /\ usb0' = usb0
      /\ \A t \in {"ReceiveSetupPacket", "SendComplete", "ReceivePacket"} :
           Queued(t)' = Queued(t) /\ Queued(t) \in Nat
  BY <1>1, <1>3, <1>4, <1>5, VerbFlows
<1>7. /\ Queued("ReceiveSetupPacket")' = Queued("ReceiveSetupPacket")
      /\ Queued("SendComplete")' = Queued("SendComplete")
      /\ Queued("ReceivePacket")' = Queued("ReceivePacket")
  BY <1>6
<1>8. /\ Waiting = 1 /\ Len(control_queue) = 1
      /\ Pending("EpControl") = 0 /\ Queued("ReceiveSetupPacket") = 0
  BY <1>2, WaitingIs
<1>9. /\ Head(control_queue) = target.setup /\ Head(control_queue) \in SetupPacket
      /\ control_queue' = <<>>
  <2>1. control_queue \in Seq(SetupPacket)
        /\ \A i \in DOMAIN control_queue : control_queue[i] = target.setup
    BY Typed DEF Flowing, Asked
  <2>2. QED
    BY <1>2, <1>3, <1>8, <2>1
<1>10. client'.setup = target.setup /\ client'.setup # NoSetup
  BY <1>4, <1>9, SetupAssumption
<1>11. /\ Pending("EpControl")' = 0 /\ Pending("EpIn")' = Pending("EpIn")
       /\ Held' = 1 /\ Len(control_queue') = 0 /\ Unread' = Unread
  BY <1>6, <1>9, <1>10 DEF Pending, Held, Unread
<1>12. Waiting' = 1
  BY <1>7, <1>8, <1>11 DEF Waiting
<1>13. Asked'
  <2>1. DOMAIN control_queue' = {}
    BY <1>9
  <2>2. QED
    BY <1>4, <1>6, <1>8, <1>10, <1>11, <1>12, <2>1 DEF Flowing, Asked
<1>14. Answered' /\ Writing'
  BY <1>4, <1>6, <1>11 DEF Flowing, Answered, Writing
<1>15. Acknowledged'
  <2> HIDE DEF Queued, Pending, Unread
  <2>1. QED
    BY <1>2, <1>6, <1>7, <1>11 DEF Flowing, Acknowledged
<1>16. OneReceived'
  BY <1>1, <1>4, <1>6, <1>7, ReceivedSame DEF Flowing
<1>17. QED
  BY <1>6, <1>13, <1>14, <1>15, <1>16 DEF Flowing

(* The answers to a request for data end its data stage.                   *)
LEMMA AnswersEnd ==
  ASSUME NEW id \in Transfers, NEW length \in Nat \ {0}, NEW n \in 0 .. length,
         NEW packets \in Answers(id, <<>>, n, length)
  PROVE  Ends(packets, length)
<1> DEFINE packet(size) == [id |-> id, of |-> <<>>, size |-> size]
<1> DEFINE full == [i \in 1 .. n |-> packet("full")]
<1>1. /\ packet("full").size = "full" /\ packet("short").size = "short"
      /\ packet("zlp").size = "zlp" /\ n \in Nat /\ n <= length
  OBVIOUS
<1>2. /\ full \in Seq({packet("full")}) /\ Len(full) = n
      /\ \A i \in 1 .. n : full[i] = packet("full")
  BY <1>1
<1>3. CASE n = length /\ n > 0
  <2>1. packets = full
    BY <1>3 DEF Answers
  <2> HIDE DEF full, packet
  <2>2. QED
    BY <1>1, <1>2, <1>3, <2>1 DEF Ends
<1>4. CASE ~ (n = length /\ n > 0)
  <2>1. PICK size \in {"short", "zlp"} : packets = Append(full, packet(size))
    BY <1>4 DEF Answers
  <2>2. n < length
    BY <1>1, <1>4
  <2>3. packet(size).size # "full"
    BY <2>1
  <2> DEFINE last == packet(size)
  <2> HIDE DEF full, packet, last
  <2>4. /\ Len(packets) = n + 1 /\ DOMAIN packets = 1 .. n + 1
        /\ packets[n + 1] = last
        /\ \A i \in 1 .. n : packets[i] = packet("full")
    BY <1>1, <1>2, <2>1 DEF last
  <2>5. QED
    BY <1>1, <2>2, <2>3, <2>4 DEF Ends, last
<1>5. QED
  BY <1>3, <1>4

LEMMA WriteControlEndpointFlows ==
  ASSUME IInv, Flowing, WriteControlEndpoint
  PROVE  Flowing'
<1> DEFINE setup == client.setup
           zlp == [id |-> setup.id, of |-> <<>>, size |-> "zlp"]
<1>1. /\ Execute("write_control_endpoint")
      /\ client' = [client EXCEPT !.setup = NoSetup]
      /\ UNCHANGED <<outVars, stuck, queueVars, targetVars, sessions>>
  BY DEF WriteControlEndpoint
<1>2. /\ client'.verb = client.verb /\ client'.connected = client.connected
      /\ client'.setup = NoSetup /\ client'.armed = client.armed
      /\ UNCHANGED <<target, irq_queue, control_queue>>
  BY <1>1, Typed DEF Client, targetVars, queueVars
<1>3. setup \in SetupPacket /\ setup # NoSetup
  BY <1>1, Typed, ExecuteStep DEF IInv, ClientOK, CalledFor
<1>4. /\ setup.id \in Transfers /\ setup.length \in Nat /\ setup = target.setup
      /\ target.stage # "idle"
      /\ setup.request = "In" => target.stage = "data"
      /\ Waiting = 1 /\ control_queue = <<>>
      /\ Pending("EpControl") = 0 /\ Queued("ReceiveSetupPacket") = 0
  BY <1>3, WaitingIs, EndpointAssumption DEF Flowing, Asked, SetupPacket
<1>5. setup.request = "In" => setup.length \in Nat \ {0}
  BY <1>4, Typed DEF IInv, HostOK, InProgress
<1> HIDE DEF setup
<1>6. PICK packets \in Seq(InPacket) :
        /\ packets # <<>> /\ usb0' = WriteWithPacketSize(usb0, packets)
        /\ setup.request = "In" => Ends(packets, setup.length)
        /\ setup.request # "In" => Len(packets) = 1
  <2>1. CASE setup.request = "In"
    <3>0. PICK n \in 0 .. setup.length :
            \E packets \in Answers(setup.id, <<>>, n, setup.length) :
              usb0' = WriteWithPacketSize(usb0, packets)
      BY <2>1 DEF WriteControlEndpoint, setup
    <3>1. PICK packets \in Answers(setup.id, <<>>, n, setup.length) :
            usb0' = WriteWithPacketSize(usb0, packets)
      BY <3>0
    <3>2. n \in Nat /\ <<>> \in Seq(OutPacket)
      BY <1>4
    <3>3. packets \in Seq(InPacket) /\ packets # <<>>
      BY <1>4, <3>2, AnswersType
    <3>4. Ends(packets, setup.length)
      BY <1>4, <1>5, <2>1, AnswersEnd
    <3>5. QED
      BY <2>1, <3>1, <3>3, <3>4
  <2>2. CASE setup.request # "In"
    <3>1. usb0' = WriteWithPacketSize(usb0, <<zlp>>)
      BY <2>2 DEF WriteControlEndpoint, WriteZlp, setup
    <3>2. <<zlp>> \in Seq(InPacket) /\ <<zlp>> # <<>> /\ Len(<<zlp>>) = 1
      BY <1>4 DEF InPacket
    <3> HIDE DEF zlp
    <3>3. QED
      BY <2>2, <3>1, <3>2
  <2>3. QED
    BY <2>1, <2>2
<1>7. /\ usb0'.pending = usb0.pending /\ usb0'.out_enable = usb0.out_enable
  BY <1>6, Typed DEF WriteWithPacketSize, Usb
<1>8. "BusReset" \notin usb0'.pending
  BY <1>7 DEF Flowing, Undisturbed
<1>9. /\ Undisturbed' /\ Session' /\ SetupsQueued' /\ SetupBehind'
      /\ usb0.pending = {} /\ usb0.tx.at = "none"
      /\ \A t \in {"ReceiveSetupPacket", "SendComplete", "ReceivePacket"} :
           Queued(t)' = Queued(t) /\ Queued(t) \in Nat
  BY <1>1, <1>2, <1>8, VerbFlows
<1>10. Queued("SendComplete") = 0
  BY <1>3 DEF Flowing, Acknowledged, setup
<1>11. /\ Queued("ReceiveSetupPacket")' = 0 /\ Queued("SendComplete")' = 0
       /\ Queued("ReceivePacket")' = Queued("ReceivePacket")
  BY <1>4, <1>9, <1>10
<1>12. Asked' /\ Answered' /\ Writing' /\ Acknowledged'
  BY <1>2, <1>4, <1>6, <1>9, <1>11, AnswerBegins
<1>13. OneReceived'
  BY <1>2, <1>7, <1>11, ReceivedSame DEF Flowing
<1>14. QED
  BY <1>9, <1>12, <1>13 DEF Flowing

LEMMA UnreadParts ==
  ASSUME IInv
  PROVE  /\ Len(Unread) = Len(usb0.in) + Len(usb0.tx.left)
         /\ Len(usb0.in) \in Nat /\ Len(usb0.tx.left) \in Nat
         /\ Unread = <<>> <=> usb0.in = <<>> /\ usb0.tx.left = <<>>
         /\ usb0.in = <<>> => Unread = usb0.tx.left
         /\ usb0.tx.left = <<>> => Unread = usb0.in
<1>1. usb0.in \in Seq(InPacket) /\ usb0.tx.left \in Seq(InPacket)
  BY Typed
<1>2. SUFFICES ASSUME NEW S, NEW s \in Seq(S), NEW t \in Seq(S)
               PROVE  /\ Len(s \o t) = Len(s) + Len(t)
                      /\ Len(s) \in Nat /\ Len(t) \in Nat
                      /\ s \o t = <<>> <=> s = <<>> /\ t = <<>>
                      /\ s = <<>> => s \o t = t
                      /\ t = <<>> => s \o t = s
  BY <1>1, Zenon DEF Unread
<1>3. Len(s \o t) = Len(s) + Len(t) /\ Len(s) \in Nat /\ Len(t) \in Nat
      /\ s \o t \in Seq(S)
  OBVIOUS
<1>4. s \o t = <<>> <=> s = <<>> /\ t = <<>>
  <2>1. s \o t = <<>> <=> Len(s \o t) = 0
    BY <1>3
  <2>2. (s = <<>> <=> Len(s) = 0) /\ (t = <<>> <=> Len(t) = 0)
    OBVIOUS
  <2>3. QED
    BY <1>3, <2>1, <2>2
<1>5. s = <<>> => s \o t = t
  OBVIOUS
<1>6. t = <<>> => s \o t = s
  OBVIOUS
<1>7. QED
  BY <1>3, <1>4, <1>5, <1>6

LEMMA StallEndpointFlows ==
  ASSUME IInv, Flowing, StallEndpoint
  PROVE  Flowing'
<1>1. PICK verb \in {"stall_endpoint_in", "stall_endpoint_out"} :
        Execute(verb) /\ usb0' \in {StallEndpointIn(usb0), StallEndpointOut(usb0)}
  BY DEF StallEndpoint
<1>2. /\ client' = [client EXCEPT !.verb = None, !.setup = NoSetup]
      /\ UNCHANGED <<outVars, stuck, queueVars, targetVars, sessions>>
  BY DEF StallEndpoint
<1>3. /\ client'.verb = None /\ client'.connected = client.connected
      /\ client'.setup = NoSetup /\ client'.armed = client.armed
      /\ UNCHANGED <<target, irq_queue, control_queue>>
  BY <1>2, Typed DEF Client, targetVars, queueVars
<1>4. client.setup # NoSetup
  BY <1>1, ExecuteStep DEF Flowing, Session
<1>5. /\ Waiting = 1 /\ control_queue = <<>>
      /\ Pending("EpControl") = 0 /\ Queued("ReceiveSetupPacket") = 0
  BY <1>4, WaitingIs
<1>6. Unread = <<>> /\ usb0.in = <<>> /\ usb0.tx.left = <<>>
  BY <1>5, UnreadParts DEF Flowing, Asked
<1>7. usb0.in_ready = FALSE
  BY <1>6 DEF Flowing, Writing
<1>8. /\ usb0'.in = <<>> /\ usb0'.in_ready = FALSE
      /\ usb0'.tx = usb0.tx /\ usb0'.tx_ack = usb0.tx_ack
      /\ usb0'.pending = usb0.pending /\ usb0'.out_enable = usb0.out_enable
  BY <1>1, <1>6, <1>7, Typed DEF StallEndpointIn, StallEndpointOut, Usb
<1>9. "BusReset" \notin usb0'.pending
  BY <1>8 DEF Flowing, Undisturbed
<1>10. /\ Undisturbed' /\ Session' /\ SetupsQueued' /\ SetupBehind'
       /\ usb0.pending = {} /\ usb0.tx.at = "none"
       /\ \A t \in {"ReceiveSetupPacket", "SendComplete", "ReceivePacket"} :
            Queued(t)' = Queued(t) /\ Queued(t) \in Nat
  BY <1>1, <1>2, <1>3, <1>9, VerbFlows
<1>11. /\ Queued("ReceiveSetupPacket")' = 0
       /\ Queued("SendComplete")' = Queued("SendComplete")
       /\ Queued("ReceivePacket")' = Queued("ReceivePacket")
  BY <1>5, <1>10
<1>12. /\ Pending("EpControl")' = 0 /\ Held' = 0 /\ Len(control_queue') = 0
       /\ Pending("EpIn")' = Pending("EpIn") /\ Unread' = Unread
  BY <1>3, <1>5, <1>6, <1>8, <1>10 DEF Pending, Held, Unread
<1>13. Waiting' = 0
  BY <1>11, <1>12 DEF Waiting
<1>14. Asked'
  <2>1. DOMAIN control_queue' = {}
    BY <1>3, <1>5
  <2>2. QED
    BY <1>3, <1>8, <1>10, <1>13, <2>1 DEF Asked
<1>15. Answered'
  BY <1>6, <1>12 DEF Answered
<1>16. Writing'
  <2>1. usb0'.tx.at \notin {"drain", "fill", "wait"} /\ usb0'.tx.left = <<>>
        /\ Len(usb0'.in) <= 1
    BY <1>6, <1>8, <1>10
  <2>2. QED
    BY <1>8, <2>1, Zenon DEF Writing
<1>17. Acknowledged'
  <2> HIDE DEF Queued, Pending, Unread
  <2>1. QED
    BY <1>3, <1>5, <1>8, <1>10, <1>11, <1>12 DEF Flowing, Acknowledged
<1>18. OneReceived'
  BY <1>3, <1>8, <1>11, ReceivedSame DEF Flowing
<1>19. QED
  BY <1>10, <1>14, <1>15, <1>16, <1>17, <1>18 DEF Flowing
-----------------------------------------------------------------------------
(* The steps of a write.                                                   *)

(* A step of the main loop inside a write: EVENT_QUEUE waits.              *)
LEMMA LoopFlows ==
  ASSUME IInv, Flowing, Unread' = Unread, Writing',
         usb0'.pending = usb0.pending, usb0'.setup = usb0.setup,
         usb0'.in_stall = usb0.in_stall, usb0'.out_stall = usb0.out_stall,
         usb0'.out_enable = usb0.out_enable,
         UNCHANGED <<event_queue, stuck, queueVars, targetVars, sessions>>,
         client'.setup = client.setup, client'.connected = client.connected,
         client'.armed = client.armed,
         client'.verb = client.verb \/ (client'.verb = None /\ ~ VerbQueued)
  PROVE  Flowing'
<1>1. UNCHANGED <<target, irq_queue, control_queue>>
  BY DEF targetVars, queueVars
<1>2. /\ \A t : Queued(t)' = Queued(t)
      /\ \A irq : Pending(irq)' = Pending(irq)
      /\ Held' = Held /\ VerbQueued' = VerbQueued
  BY DEF Queued, Pending, Held, VerbQueued, IsVerb
<1>3. Waiting' = Waiting
  BY <1>1, <1>2 DEF Waiting
<1>4. None # "disconnect"
  BY MoondancerAssumption DEF Verbs
<1>5. Undisturbed'
  BY <1>2 DEF Flowing, Undisturbed
<1>6. Session'
  BY <1>1, <1>2, <1>4 DEF Flowing, Session
<1>7. Asked'
  BY <1>1, <1>3 DEF Flowing, Asked, SetupsQueued
<1>8. Answered'
  BY <1>1 DEF Flowing, Answered
<1>9. Acknowledged'
  <2> HIDE DEF Queued, Pending, Unread
  <2>1. SetupBehind'
    BY DEF Flowing, Acknowledged, SetupBehind
  <2>2. /\ Queued("SendComplete")' = Queued("SendComplete")
        /\ Queued("ReceiveSetupPacket")' = Queued("ReceiveSetupPacket")
        /\ Pending("EpIn")' = Pending("EpIn")
    BY <1>2
  <2>3. QED
    BY <1>1, <2>1, <2>2 DEF Flowing, Acknowledged
<1>10. OneReceived'
  BY <1>1, <1>2, ReceivedSame DEF Flowing
<1>11. QED
  BY <1>5, <1>6, <1>7, <1>8, <1>9, <1>10 DEF Flowing

LEMMA WriteControlEndpointDoneFlows ==
  ASSUME IInv, Flowing, WriteControlEndpointDone
  PROVE  Flowing'
<1>1. /\ MainRuns /\ Executing
      /\ usb0' = [usb0 EXCEPT !.tx_ack = @ /\ ~ client.blocking]
      /\ client' = [client EXCEPT !.verb = None]
      /\ UNCHANGED <<outVars, event_queue, stuck, queueVars, targetVars, sessions>>
  BY DEF WriteControlEndpointDone
<1>2. /\ usb0'.in = usb0.in /\ usb0'.in_ready = usb0.in_ready
      /\ usb0'.in_stall = usb0.in_stall /\ usb0'.out_stall = usb0.out_stall
      /\ usb0'.tx = usb0.tx /\ usb0'.setup = usb0.setup
      /\ usb0'.pending = usb0.pending /\ usb0'.out_enable = usb0.out_enable
  BY <1>1, Typed DEF Usb
<1>3. /\ client'.setup = client.setup /\ client'.connected = client.connected
      /\ client'.armed = client.armed /\ client'.verb = None
  BY <1>1, Typed DEF Client
<1>4. ~ VerbQueued
  BY <1>1 DEF Executing, VerbQueued, IsVerb
<1>5. Unread' = Unread
  BY <1>2 DEF Unread
<1>6. Writing'
  BY <1>1, <1>2 DEF MainRuns, Flowing, Writing
<1>7. QED
  BY <1>1, <1>2, <1>3, <1>4, <1>5, <1>6, LoopFlows

LEMMA WriteStepFlows ==
  ASSUME IInv, Flowing, WriteStep
  PROVE  Flowing'
<1>1. /\ usb0.pending = {}
      /\ UNCHANGED <<outVars, event_queue, stuck, queueVars, targetVars,
                     client, sessions>>
  BY DEF WriteStep
<1>2. /\ usb0 \in Usb /\ usb0.tx \in Write /\ usb0.tx.left \in Seq(InPacket)
      /\ usb0.in \in Seq(InPacket)
  BY Typed
<1>3. Writing /\ Answered
  BY DEF Flowing
<1>4. CASE DrainDone(usb0) /\ usb0' = [usb0 EXCEPT !.tx.at = "fill"]
  <2>1. /\ usb0.tx.at = "drain" /\ usb0.in = <<>>
    BY <1>3, <1>4 DEF DrainDone, Writing
  <2>2. /\ usb0'.in = usb0.in /\ usb0'.in_ready = usb0.in_ready
        /\ usb0'.in_stall = usb0.in_stall /\ usb0'.out_stall = usb0.out_stall
        /\ usb0'.tx.at = "fill" /\ usb0'.tx.left = usb0.tx.left
        /\ usb0'.setup = usb0.setup
        /\ usb0'.pending = usb0.pending /\ usb0'.out_enable = usb0.out_enable
    BY <1>2, <1>4 DEF Usb, Write
  <2>3. Unread' = Unread
    BY <2>2 DEF Unread
  <2>4. Writing'
    BY <1>3, <2>1, <2>2 DEF Writing
  <2>5. QED
    BY <1>1, <2>2, <2>3, <2>4, LoopFlows
<1>5. CASE usb0.tx.at = "drain" /\ Have(usb0)
  BY <1>3, <1>5 DEF Writing, Have
<1>6. CASE usb0.tx.at = "fill" /\ usb0' = Fill(usb0)
  <2> DEFINE packet == Head(usb0.tx.left)
  <2>1. usb0.in = <<>> /\ usb0.tx.left # <<>>
    BY <1>2, <1>3, <1>6 DEF Writing, Write
  <2>2. packet \in InPacket /\ Tail(usb0.tx.left) \in Seq(InPacket)
    BY <1>2, <2>1
  <2>3. /\ usb0'.in = <<packet>> /\ usb0'.in_ready = TRUE /\ usb0'.tx_ack = TRUE
        /\ usb0'.in_stall = usb0.in_stall /\ usb0'.out_stall = usb0.out_stall
        /\ usb0'.setup = usb0.setup
        /\ usb0'.pending = usb0.pending /\ usb0'.out_enable = usb0.out_enable
        /\ usb0'.tx = IF packet.size = "full"
                      THEN [at |-> "wait", left |-> Tail(usb0.tx.left)]
                      ELSE NoWrite
    BY <1>2, <1>6, <2>1 DEF Fill, Usb
  <2>4. Unread = usb0.tx.left
    BY <2>1, UnreadParts
  <2>5. packet.size # "full" => Len(usb0.tx.left) = 1
    <3>1. Len(usb0.tx.left) \in Nat \ {0} /\ packet = usb0.tx.left[1]
      BY <1>2, <2>1
    <3>2. CASE target.setup.request # "In"
      BY <1>3, <2>1, <2>4, <3>2 DEF Answered
    <3>3. CASE target.setup.request = "In"
      <4>1. \A i \in DOMAIN usb0.tx.left :
              i < Len(usb0.tx.left) => usb0.tx.left[i].size = "full"
        BY <1>3, <2>1, <2>4, <3>3 DEF Answered, Ends
      <4>2. 1 \in DOMAIN usb0.tx.left
        BY <1>2, <3>1
      <4>3. 1 < Len(usb0.tx.left) => packet.size = "full"
        BY <3>1, <4>1, <4>2
      <4> DEFINE n == Len(usb0.tx.left)
      <4> HIDE DEF n
      <4>4. n \in Nat \ {0} /\ (packet.size # "full" => ~ (1 < n))
        BY <3>1, <4>3 DEF n
      <4>5. \A k \in Nat \ {0} : ~ (1 < k) => k = 1
        OBVIOUS
      <4>6. packet.size # "full" => n = 1
        BY <4>4, <4>5, Zenon
      <4>7. QED
        BY <4>6 DEF n
    <3>4. QED
      BY <3>2, <3>3
  <2>6. Unread' = Unread
    <3>1. CASE packet.size = "full"
      <4>1. usb0'.tx.left = Tail(usb0.tx.left)
        BY <2>3, <3>1
      <4>2. <<packet>> \o Tail(usb0.tx.left) = usb0.tx.left
        BY <1>2, <2>1
      <4>3. QED
        BY <2>3, <2>4, <4>1, <4>2 DEF Unread
    <3>2. CASE packet.size # "full"
      <4>1. usb0'.tx.left = <<>>
        BY <2>3, <3>2 DEF NoWrite
      <4>2. <<packet>> \o <<>> = usb0.tx.left
        BY <1>2, <2>1, <2>5, <3>2
      <4>3. QED
        BY <2>3, <2>4, <4>1, <4>2 DEF Unread
    <3>3. QED
      BY <3>1, <3>2
  <2>7. Writing'
    <3>1. /\ usb0'.in # <<>> /\ Len(usb0'.in) <= 1
          /\ usb0'.tx.at \in {"wait", "none"}
          /\ usb0'.tx.at = "none" => usb0'.tx.left = <<>>
      BY <2>3 DEF NoWrite
    <3>2. QED
      BY <1>1, <2>3, <3>1 DEF Writing
  <2>8. QED
    BY <1>1, <2>3, <2>6, <2>7, LoopFlows
<1>7. CASE usb0.tx.at = "wait" /\ ~ usb0.tx_ack /\ usb0' = Sent(usb0)
  <2>1. usb0.in = <<>>
    BY <1>3, <1>7 DEF Writing
  <2>2. /\ usb0'.in = usb0.in /\ usb0'.in_ready = usb0.in_ready
        /\ usb0'.in_stall = usb0.in_stall /\ usb0'.out_stall = usb0.out_stall
        /\ usb0'.tx.left = usb0.tx.left
        /\ usb0'.tx.at \in {"none", "fill"}
        /\ usb0'.tx.at = "none" => usb0.tx.left = <<>>
        /\ usb0'.setup = usb0.setup
        /\ usb0'.pending = usb0.pending /\ usb0'.out_enable = usb0.out_enable
    BY <1>2, <1>7 DEF Sent, NoWrite, Usb
  <2>3. Unread' = Unread
    BY <2>2 DEF Unread
  <2>4. Writing'
    BY <1>3, <2>1, <2>2 DEF Writing
  <2>5. QED
    BY <1>1, <2>2, <2>3, <2>4, LoopFlows
<1>8. CASE usb0.tx.at = "wait" /\ usb0.tx_ack /\ NotTaken /\ usb0' = WaitTimeout(usb0)
  <2>1. usb0.in # <<>> /\ usb0.in_ready
    BY <1>1, <1>3, <1>8 DEF Writing
  <2>2. Unread # <<>>
    BY <2>1, UnreadParts
  <2>3. target.setup.request # "In"
    BY <1>3, <1>8, <2>1, <2>2 DEF NotTaken, HostPolls, SendsData, Answered
  <2>4. Len(Unread) = 1
    BY <1>3, <2>2, <2>3 DEF Answered
  <2>5. usb0.tx.left = <<>>
    <3> DEFINE m == Len(usb0.in)
               n == Len(usb0.tx.left)
    <3>1. m # 0
      BY <1>2, <2>1
    <3>2. m \in Nat /\ n \in Nat /\ Len(Unread) = m + n
      BY UnreadParts
    <3> HIDE DEF m, n
    <3>3. n = 0
      BY <2>4, <3>1, <3>2
    <3>4. QED
      BY <1>2, <3>3 DEF n
  <2>6. /\ usb0'.in = usb0.in /\ usb0'.in_ready = usb0.in_ready
        /\ usb0'.in_stall = usb0.in_stall /\ usb0'.out_stall = usb0.out_stall
        /\ usb0'.tx.left = usb0.tx.left /\ usb0'.tx.at = "none"
        /\ usb0'.setup = usb0.setup
        /\ usb0'.pending = usb0.pending /\ usb0'.out_enable = usb0.out_enable
    BY <1>2, <1>8, <2>5 DEF WaitTimeout, NoWrite, Usb
  <2>7. Unread' = Unread
    BY <2>6 DEF Unread
  <2>8. Writing'
    BY <1>1, <1>3, <2>5, <2>6 DEF Writing
  <2>9. QED
    BY <1>1, <2>6, <2>7, <2>8, LoopFlows
<1>9. QED
  BY <1>4, <1>5, <1>6, <1>7, <1>8 DEF WriteStep
-----------------------------------------------------------------------------
(* The client, and the host.                                               *)

LEMMA ClientCallsFlows ==
  ASSUME IInv, Flowing, Obliging, ClientCalls
  PROVE  Flowing'
<1> DEFINE event == [type |-> "Verb", ep |-> 0, data |-> <<>>]
<1>1. /\ client.verb = None /\ Enqueue(event)
      /\ UNCHANGED <<usb0, outVars, queueVars, targetVars, sessions>>
  BY DEF ClientCalls
<1>2. PICK verb \in {v \in Verbs : MayCall(v)}, blocking \in BOOLEAN :
        \E ep \in EndpointsFor(verb) :
          client' = [client EXCEPT !.verb = verb, !.ep = ep, !.blocking = blocking]
  BY DEF ClientCalls
<1>3. /\ client'.verb = verb /\ client'.connected = client.connected
      /\ client'.setup = client.setup /\ client'.armed = client.armed
      /\ UNCHANGED <<target, irq_queue, control_queue>>
  BY <1>1, <1>2, Typed DEF Client, queueVars, targetVars
<1>4. event \in Event /\ event.type = "Verb"
  BY DEF Event
<1> HIDE DEF event
<1>5. /\ Undisturbed /\ Session /\ Asked /\ Answered /\ Writing
      /\ Acknowledged /\ OneReceived
  BY DEF Flowing
<1>6. Queued("Verb") = 0
  <2>1. ~ VerbQueued
    BY <1>1 DEF IInv, ClientOK, CalledFor
  <2>2. QED
    BY <2>1, Typed, NumberNone DEF Queued, VerbQueued, IsVerb
<1>7. /\ \A type : Queued(type) \in Nat
      /\ \A irq : Pending(irq) \in {0, 1}
      /\ Held \in {0, 1} /\ Len(control_queue) \in Nat /\ Len(Unread) \in Nat
      /\ MostAnswered \in Nat /\ EventQueueSize \in Nat
      /\ Number(irq_queue, "ReceivePacket") \in Nat
      /\ EventQueueSize >= MostAnswered + 3
  BY Typed, MoondancerAssumption DEF Obliging
<1>8. Queued("Verb") + Queued("ReceiveSetupPacket") + Queued("SendComplete")
        + Queued("ReceivePacket") + Queued("BusReset") < EventQueueSize
  BY <1>6, RoomForOne
<1>9. /\ event_queue' = Append(event_queue, event) /\ stuck' = "nothing"
      /\ \A type : Queued(type)'
                    = Queued(type) + (IF event.type = type THEN 1 ELSE 0)
  BY <1>1, <1>4, <1>5, <1>8, Enqueued DEF Undisturbed
<1>10. SetupsQueued' /\ SetupBehind'
  BY <1>3, <1>4, <1>5, <1>9, EnqueuedBehind DEF Asked, Acknowledged
<1>11. /\ Queued("Verb")' = 1
       /\ Queued("BusReset")' = Queued("BusReset")
       /\ Queued("SendComplete")' = Queued("SendComplete")
       /\ Queued("ReceivePacket")' = Queued("ReceivePacket")
       /\ Queued("ReceiveSetupPacket")' = Queued("ReceiveSetupPacket")
       /\ Queued("SendComplete")' \in Nat
       /\ Queued("SendComplete")' <= Queued("SendComplete")
  <2> HIDE DEF Queued
  <2>1. QED
    BY <1>4, <1>6, <1>7, <1>9
<1>12. Asked' /\ Answered' /\ Writing' /\ Acknowledged'
  BY <1>1, <1>3, <1>10, <1>11, Unnoticed
<1>13. Undisturbed'
  BY <1>1, <1>5, <1>9, <1>11 DEF Undisturbed
<1>14. Session'
  <2>1. /\ verb = "connect" => ~ client.connected
        /\ verb \in Arms => ~ client.armed
        /\ verb \in {"stall_endpoint_in", "stall_endpoint_out"} =>
             client.setup # NoSetup
    BY <1>2 DEF MayCall, MayDiscard, Arms, Obliging
  <2>2. verb # "disconnect"
    <3>1. SUFFICES ASSUME verb = "disconnect" PROVE FALSE
      OBVIOUS
    <3>2. client.connected /\ sessions < MaxSessions
      BY <1>2, <3>1 DEF MayCall
    <3>3. sessions > 0 /\ sessions \in Nat /\ MaxSessions \in Nat
          /\ MaxSessions <= 1
      BY <1>5, <3>2, MoondancerAssumption DEF Session, Obliging, IInv, ClientOK
    <3>4. QED
      BY <3>2, <3>3
  <2>3. QED
    BY <1>1, <1>3, <1>5, <2>1, <2>2 DEF Session
<1>15. OneReceived'
  BY <1>1, <1>3, <1>5, <1>11, ReceivedSame
<1>16. QED
  BY <1>12, <1>13, <1>14, <1>15 DEF Flowing

(* A step of the host.                                                     *)
LEMMA HostFlows ==
  ASSUME IInv, Flowing, client.connected, "BusReset" \notin usb0'.pending,
         UNCHANGED <<event_queue, stuck, queueVars, client, sessions>>
  PROVE  /\ Undisturbed' /\ Session' /\ SetupBehind'
         /\ \A t : Queued(t)' = Queued(t)
         /\ Held' = Held /\ UNCHANGED <<control_queue, irq_queue>>
<1>1. /\ \A t : Queued(t)' = Queued(t)
      /\ Held' = Held /\ UNCHANGED <<control_queue, irq_queue>>
      /\ VerbQueued' = VerbQueued
  BY DEF Queued, Held, VerbQueued, IsVerb, queueVars
<1>2. SetupBehind'
  BY DEF Flowing, Acknowledged, SetupBehind
<1>3. QED
  BY <1>1, <1>2 DEF Flowing, Undisturbed, Session

(* When no request waits to be answered, it is nowhere.                    *)
LEMMA NothingWaits ==
  ASSUME IInv, Flowing, Waiting # 1
  PROVE  /\ Waiting = 0 /\ Pending("EpControl") = 0
         /\ "EpControl" \notin usb0.pending
         /\ Queued("ReceiveSetupPacket") = 0
         /\ \A i \in DOMAIN event_queue :
              event_queue[i].type # "ReceiveSetupPacket"
         /\ control_queue = <<>> /\ DOMAIN control_queue = {}
         /\ client.setup = NoSetup /\ Held = 0
<1>1. /\ Pending("EpControl") \in {0, 1} /\ Queued("ReceiveSetupPacket") \in Nat
      /\ Len(control_queue) \in Nat /\ Held \in {0, 1} /\ Waiting <= 1
  BY Typed DEF Flowing, Asked
<1>2. /\ Waiting = 0 /\ Pending("EpControl") = 0 /\ Held = 0
      /\ Queued("ReceiveSetupPacket") = 0 /\ Len(control_queue) = 0
  <2> HIDE DEF Pending, Queued, Held
  <2>1. QED
    BY <1>1 DEF Waiting
<1>3. control_queue = <<>> /\ DOMAIN control_queue = {}
  BY <1>2, Typed
<1>4. \A i \in DOMAIN event_queue : event_queue[i].type # "ReceiveSetupPacket"
  BY <1>2, Typed, NumberNone DEF Queued
<1>5. QED
  BY <1>2, <1>3, <1>4 DEF Pending, Held

(* The transfer ends, or goes on to another packet, while no request waits.*)
LEMMA NotAsked ==
  ASSUME IInv, Flowing, Waiting # 1,
         "EpControl" \notin usb0'.pending,
         UNCHANGED <<event_queue, control_queue, client>>
  PROVE  Asked'
<1>1. /\ Queued("ReceiveSetupPacket")' = 0 /\ Pending("EpControl")' = 0
      /\ Len(control_queue') = 0 /\ Held' = 0
  BY NothingWaits DEF Queued, Pending, Held
<1>2. Waiting' = 0
  BY <1>1 DEF Waiting
<1>3. SetupsQueued'
  BY NothingWaits DEF SetupsQueued
<1>4. QED
  BY <1>2, <1>3, NothingWaits DEF Asked

LEMMA TargetSetupFlows ==
  ASSUME IInv, Flowing, Obliging, TargetSetup
  PROVE  Flowing'
<1>1. PICK r \in TargetRequests :
        LET setup == [request |-> r.request, value |-> r.value,
                      length |-> r.length, id |-> target.id + 1]
        IN  /\ target' = [stage |-> IF r.length = 0 THEN "status" ELSE "data",
                          setup |-> setup, moved |-> 0, id |-> target.id + 1]
            /\ usb0' = AcceptSetup(usb0, setup)
  BY DEF TargetSetup
<1> DEFINE setup == [request |-> r.request, value |-> r.value,
                     length |-> r.length, id |-> target.id + 1]
<1>2. /\ client.connected /\ "BusReset" \notin usb0.pending
      /\ target.stage = "idle"
      /\ UNCHANGED <<outVars, event_queue, stuck, queueVars, sent, resets,
                     client, sessions>>
  BY DEF TargetSetup, Obliging
<1>3. /\ target'.stage = IF r.length = 0 THEN "status" ELSE "data"
      /\ target'.setup = setup /\ target'.moved = 0
  BY <1>1
<1>4. setup.request = "In" => r.length # 0
  <2>1. r.request = "In" => r.length > 0
    BY DEF Obliging
  <2>2. r.length \in 0 .. MaxLength
    BY MoondancerAssumption
  <2>3. QED
    BY <2>1, <2>2, EndpointAssumption
<1>5. /\ usb0'.in = usb0.in /\ usb0'.in_ready = usb0.in_ready
      /\ usb0'.in_stall = FALSE /\ usb0'.out_stall = FALSE
      /\ usb0'.tx = usb0.tx /\ usb0'.tx_ack = usb0.tx_ack
      /\ usb0'.setup = setup /\ usb0'.out_enable = usb0.out_enable
      /\ usb0'.pending = usb0.pending \union {"EpControl"}
  BY <1>1, Typed DEF AcceptSetup, Usb
<1> HIDE DEF setup
<1>6. Waiting # 1 /\ Unread = <<>>
  BY <1>2 DEF Flowing, Asked, Answered
<1>7. /\ Undisturbed' /\ Session' /\ SetupBehind'
      /\ \A t : Queued(t)' = Queued(t)
      /\ Held' = Held /\ UNCHANGED <<control_queue, irq_queue>>
  BY <1>2, <1>5, HostFlows
<1>8. /\ Unread' = <<>> /\ Pending("EpControl")' = 1
      /\ Pending("EpIn")' = Pending("EpIn")
  BY <1>5, <1>6 DEF Unread, Pending
<1>9. Waiting' = 1
  <2>1. /\ Queued("ReceiveSetupPacket")' = 0 /\ Len(control_queue') = 0
        /\ Held' = 0
    BY <1>6, <1>7, NothingWaits
  <2>2. QED
    BY <1>8, <2>1 DEF Waiting
<1>10. Asked'
  <2>1. /\ SetupsQueued' /\ DOMAIN control_queue' = {}
        /\ client'.setup = NoSetup
    BY <1>2, <1>6, <1>7, NothingWaits DEF SetupsQueued
  <2>2. target'.stage # "idle" /\ (target'.setup.request = "In" =>
          target'.stage = "data" /\ target'.moved = 0)
    BY <1>3, <1>4
  <2>3. QED
    BY <1>3, <1>5, <1>8, <1>9, <2>1, <2>2 DEF Asked
<1>11. Answered'
  BY <1>8 DEF Answered
<1>12. Writing'
  BY <1>5 DEF Flowing, Writing
<1>13. Acknowledged'
  <2>1. /\ Queued("SendComplete")' = Queued("SendComplete")
        /\ Queued("ReceiveSetupPacket")' = 0
    BY <1>6, <1>7, NothingWaits
  <2>2. control_queue' = <<>> /\ client'.setup = NoSetup
    BY <1>2, <1>6, <1>7, NothingWaits
  <2> HIDE DEF Queued, Pending, Unread
  <2>3. QED
    BY <1>6, <1>7, <1>8, <2>1, <2>2 DEF Flowing, Acknowledged
<1>14. OneReceived'
  <2>1. "EpOut" \in usb0'.pending <=> "EpOut" \in usb0.pending
    BY <1>5
  <2>2. Queued("ReceivePacket")' = Queued("ReceivePacket")
    BY <1>7
  <2>3. QED
    BY <1>2, <1>5, <1>7, <2>1, <2>2, ReceivedSame DEF Flowing
<1>15. QED
  BY <1>7, <1>10, <1>11, <1>12, <1>13, <1>14 DEF Flowing

LEMMA FirstThenRest ==
  ASSUME NEW S, NEW s \in Seq(S), NEW t \in Seq(S), Len(s) = 1
  PROVE  /\ (s \o t)[1] = s[1]
         /\ \A i \in DOMAIN t : /\ i \in Nat /\ i + 1 \in DOMAIN (s \o t)
                              /\ (s \o t)[i + 1] = t[i]
                              /\ i <= Len(t)
         /\ 1 \in DOMAIN (s \o t)
<1> DEFINE c == s \o t
           m == Len(s)
           n == Len(t)
<1>1. /\ c \in Seq(S) /\ Len(c) = m + n
      /\ \A i \in 1 .. m + n : c[i] = IF i <= m THEN s[i] ELSE t[i - m]
  BY ConcatProperties, Zenon
<1>2. m = 1 /\ n \in Nat /\ DOMAIN t = 1 .. n
  OBVIOUS
<1> HIDE DEF c, m, n
<1>3. DOMAIN c = 1 .. 1 + n
  BY <1>1, <1>2
<1>4. /\ c[1] = s[1] /\ 1 \in DOMAIN c
      /\ \A i \in 1 .. n : i + 1 \in DOMAIN c /\ c[i + 1] = t[i]
  <2>1. \A i \in 1 .. 1 + n : c[i] = IF i <= 1 THEN s[i] ELSE t[i - 1]
    BY <1>1, <1>2
  <2>2. ASSUME NEW i \in 1 .. n PROVE i + 1 \in 1 .. 1 + n /\ c[i + 1] = t[i]
    <3>1. i + 1 \in 1 .. 1 + n /\ ~ (i + 1 <= 1) /\ i + 1 - 1 = i
      BY <1>2
    <3>2. QED
      BY <2>1, <3>1
  <2>3. 1 \in 1 .. 1 + n
    BY <1>2
  <2>4. QED
    BY <1>3, <2>1, <2>2, <2>3
<1>5. \A i \in DOMAIN t : i \in Nat /\ i \in 1 .. n /\ i <= n
  BY <1>2
<1>6. QED
  BY <1>4, <1>5, Zenon DEF c, n

LEMMA AcknowledgedSame ==
  ASSUME Acknowledged, SetupBehind', Unread' = Unread,
         \A t : Queued(t)' = Queued(t),
         Pending("EpIn")' = Pending("EpIn"),
         UNCHANGED <<control_queue, client>>
  PROVE  Acknowledged'
<1>1. /\ Queued("SendComplete")' = Queued("SendComplete")
      /\ Queued("ReceiveSetupPacket")' = Queued("ReceiveSetupPacket")
      /\ "EpIn" \in usb0'.pending <=> "EpIn" \in usb0.pending
  BY DEF Pending
<1> HIDE DEF Queued, Pending, Unread
<1>2. QED
  BY <1>1 DEF Acknowledged

(* A stall ends the transfer.                                              *)
LEMMA EndedFlows ==
  ASSUME IInv, Flowing, client.connected, Waiting # 1, Unread = <<>>,
         UNCHANGED <<usb0, event_queue, stuck, queueVars, client, sessions>>
  PROVE  Flowing'
<1>1. "BusReset" \notin usb0'.pending
  BY DEF Flowing, Undisturbed
<1>2. /\ Undisturbed' /\ Session' /\ SetupBehind'
      /\ \A t : Queued(t)' = Queued(t)
      /\ Held' = Held /\ UNCHANGED <<control_queue, irq_queue>>
  BY <1>1, HostFlows
<1>3. /\ Unread' = Unread /\ \A irq : Pending(irq)' = Pending(irq)
  BY DEF Unread, Pending
<1>4. Asked'
  BY <1>2, NothingWaits, NotAsked
<1>5. Answered' /\ Writing'
  BY <1>3 DEF Answered, Flowing, Writing
<1>6. Acknowledged'
  BY <1>2, <1>3, AcknowledgedSame DEF Flowing
<1>7. OneReceived'
  <2>1. Queued("ReceivePacket")' = Queued("ReceivePacket")
    BY <1>2
  <2>2. QED
    BY <1>2, <2>1, ReceivedSame DEF Flowing
<1>8. QED
  BY <1>2, <1>4, <1>5, <1>6, <1>7 DEF Flowing

LEMMA TargetInFlows ==
  ASSUME IInv, Flowing, TargetIn
  PROVE  Flowing'
<1>1. /\ client.connected /\ HostPolls
      /\ UNCHANGED <<outVars, event_queue, stuck, queueVars, sent, resets,
                     client, sessions>>
  BY DEF TargetIn
<1>2. /\ usb0 \in Usb /\ target \in Target /\ InProgress
      /\ target.stage # "idle"
  BY <1>1 DEF HostPolls, IInv, DeviceOK, HostOK
<1>3. /\ Ended.stage = "idle" /\ "BusReset" \notin usb0.pending
  BY <1>2 DEF Ended, Target, Flowing, Undisturbed
<1>4. CASE usb0.in_stall /\ target' = Ended /\ usb0' = usb0
  <2>1. Waiting # 1 /\ Unread = <<>>
    BY <1>4 DEF Flowing, Asked, Answered
  <2>2. QED
    BY <1>1, <1>4, <2>1, EndedFlows
<1>5. CASE /\ SendsData(usb0) /\ usb0' = TakeIn(usb0)
           /\ target' = IF target.stage = "status" THEN Ended
                        ELSE Moved(usb0.in[Len(usb0.in)].size # "full")
  <2> DEFINE left == usb0.tx.left
             rest == target.setup.length - target.moved
             last == usb0.in[Len(usb0.in)].size # "full"
  <2>1. /\ usb0.in_ready /\ usb0.in # <<>> /\ Len(usb0.in) = 1
        /\ "EpIn" \notin usb0.pending
    <3>1. usb0.in_ready /\ usb0.in # <<>> /\ "EpIn" \notin usb0.pending
      BY <1>5 DEF SendsData, Flowing, Writing
    <3> DEFINE m == Len(usb0.in)
    <3>2. m <= 1 /\ m # 0 /\ m \in Nat
      BY <3>1, Typed DEF Flowing, Writing
    <3> HIDE DEF m
    <3>3. m = 1
      BY <3>2
    <3>4. QED
      BY <3>1, <3>3 DEF m
  <2>2. Unread # <<>> /\ Len(Unread) = Len(left) + 1 /\ Len(left) \in Nat
    <3>1. Len(Unread) = 1 + Len(left) /\ Len(left) \in Nat
      BY <2>1, UnreadParts
    <3>2. Unread # <<>>
      BY <2>1, UnreadParts
    <3> DEFINE n == Len(left)
    <3> HIDE DEF n
    <3>3. Len(Unread) = n + 1 /\ n \in Nat
      BY <3>1 DEF n
    <3>4. QED
      BY <3>2, <3>3 DEF n
  <2>3. /\ usb0'.in = <<>> /\ usb0'.in_ready = FALSE
        /\ usb0'.in_stall = usb0.in_stall /\ usb0'.out_stall = usb0.out_stall
        /\ usb0'.tx = usb0.tx /\ usb0'.tx_ack = usb0.tx_ack
        /\ usb0'.setup = usb0.setup /\ usb0'.out_enable = usb0.out_enable
        /\ usb0'.pending = usb0.pending \union {"EpIn"}
    BY <1>2, <1>5 DEF TakeIn, Usb
  <2>4. Waiting # 1 /\ ~ usb0.in_stall /\ ~ usb0.out_stall
    BY <2>2 DEF Flowing, Asked, Answered
  <2>5. /\ Undisturbed' /\ Session' /\ SetupBehind'
        /\ \A t : Queued(t)' = Queued(t)
        /\ Held' = Held /\ UNCHANGED <<control_queue, irq_queue>>
    BY <1>1, <1>3, <2>3, HostFlows
  <2>6. /\ Unread' = left
        /\ Pending("EpIn") = 0 /\ Pending("EpIn")' = 1
    <3>1. <<>> \o left = left
      BY Typed
    <3>2. QED
      BY <2>1, <2>3, <3>1 DEF Unread, Pending
  <2>7. Asked'
    BY <1>1, <2>3, <2>4, <2>5, NothingWaits, NotAsked
  <2>8. Answered'
    <3>1. SUFFICES ASSUME left # <<>> PROVE Answered'
      BY <2>6 DEF Answered
    <3>2. Len(left) # 0
      BY <3>1, Typed
    <3>3. Len(Unread) # 1
      BY <2>2, <3>2
    <3>4. /\ target.setup.request = "In" /\ target.stage = "data"
          /\ Ends(Unread, rest)
      BY <2>2, <3>3 DEF Flowing, Answered
    <3>5. /\ target.moved \in Nat /\ target.setup.length \in Nat
          /\ target.moved < target.setup.length
      BY <1>2, <3>4, EndpointAssumption DEF Target, InProgress, SetupPacket
    <3>6. /\ Unread[1] = usb0.in[1]
          /\ \A i \in DOMAIN left : /\ i \in Nat /\ i + 1 \in DOMAIN Unread
                                    /\ Unread[i + 1] = left[i]
                                    /\ i <= Len(left)
          /\ 1 \in DOMAIN Unread
      <4>1. usb0.in \in Seq(InPacket) /\ left \in Seq(InPacket)
        BY Typed
      <4> DEFINE first == usb0.in
      <4>2. Unread = first \o left /\ Len(first) = 1
        BY <2>1 DEF Unread
      <4> HIDE DEF first, left
      <4>3. /\ (first \o left)[1] = first[1]
            /\ \A i \in DOMAIN left :
                 /\ i \in Nat /\ i + 1 \in DOMAIN (first \o left)
                 /\ (first \o left)[i + 1] = left[i]
                 /\ i <= Len(left)
            /\ 1 \in DOMAIN (first \o left)
        <5>1. first \in Seq(InPacket) /\ left \in Seq(InPacket)
          BY <4>1 DEF first
        <5>2. QED
          BY <4>2, <5>1, FirstThenRest
      <4>4. QED
        BY <4>2, <4>3, Zenon DEF first
    <3>7. ~ last /\ rest # 1
      <4>1. 1 < Len(Unread) /\ Len(Unread) <= rest
        BY <2>2, <3>2, <3>4 DEF Ends
      <4>2. Unread[1].size = "full"
        BY <3>4, <3>6, <4>1 DEF Ends
      <4>3. ~ last
        BY <2>1, <3>6, <4>2
      <4>4. rest # 1
        BY <2>2, <3>5, <4>1
      <4>5. QED
        BY <4>3, <4>4
    <3>8. /\ target'.stage = "data" /\ target'.setup = target.setup
          /\ target'.moved = target.moved + 1
      <4>1. target.moved + 1 # target.setup.length
        BY <3>5, <3>7
      <4>2. target' = Moved(last)
        BY <1>5, <3>4
      <4> HIDE DEF last
      <4>3. QED
        BY <1>2, <3>7, <4>1, <4>2 DEF Moved, Target
    <3>9. Ends(left, rest - 1)
      <4> HIDE DEF left, rest
      <4>1. rest \in Int
        BY <3>5 DEF rest
      <4>2. Len(left) <= rest - 1
        BY <2>2, <3>4, <4>1 DEF Ends
      <4>3. \A i \in DOMAIN left :
              /\ i < Len(left) => left[i].size = "full"
              /\ left[i].size = "full" => i < Len(left) \/ i = rest - 1
        <5>1. TAKE i \in DOMAIN left
        <5>2. /\ i \in Nat /\ i + 1 \in DOMAIN Unread
              /\ Unread[i + 1] = left[i]
          BY <3>6
        <5>3. /\ i + 1 < Len(Unread) => left[i].size = "full"
              /\ left[i].size = "full" => i + 1 < Len(Unread) \/ i + 1 = rest
          BY <3>4, <5>2 DEF Ends
        <5>4. QED
          BY <2>2, <4>1, <5>2, <5>3
      <4>4. QED
        BY <4>2, <4>3 DEF Ends
    <3>10. target'.setup.length - target'.moved = rest - 1
      BY <3>5, <3>8
    <3> HIDE DEF left, rest
    <3>11. QED
      BY <2>3, <2>4, <2>6, <3>4, <3>8, <3>9, <3>10 DEF Answered
  <2>9. Writing'
    <3>1. Len(usb0'.in) <= 1 /\ "EpIn" \in usb0'.pending
      BY <2>3
    <3>2. (usb0.tx.at = "none" => usb0.tx.left = <<>>)
      BY DEF Flowing, Writing
    <3>3. QED
      BY <2>3, <3>1, <3>2 DEF Writing
  <2>10. Acknowledged'
    <3>1. /\ Queued("SendComplete")' = Queued("SendComplete")
          /\ Queued("ReceiveSetupPacket")' = 0 /\ Queued("SendComplete") \in Nat
          /\ control_queue' = <<>> /\ client'.setup = NoSetup
      BY <1>1, <2>4, <2>5, Typed, NothingWaits
    <3>2. MostAnswered \in Nat
      BY Typed
    <3> HIDE DEF Queued, Pending, Unread, left
    <3>3. Queued("SendComplete")' + Pending("EpIn")' + Len(Unread') <= MostAnswered
      BY <2>2, <2>6, <3>1, <3>2 DEF Flowing, Acknowledged
    <3>4. QED
      BY <2>5, <3>1, <3>3 DEF Acknowledged
  <2>11. OneReceived'
    <3>1. Queued("ReceivePacket")' = Queued("ReceivePacket")
          /\ ("EpOut" \in usb0'.pending <=> "EpOut" \in usb0.pending)
      BY <2>3, <2>5
    <3>2. QED
      BY <1>1, <2>3, <2>5, <3>1, ReceivedSame DEF Flowing
  <2>12. QED
    BY <2>5, <2>7, <2>8, <2>9, <2>10, <2>11 DEF Flowing
<1>6. QED
  BY <1>4, <1>5 DEF TargetIn

(* The host sends a packet to an armed endpoint.                           *)
LEMMA AcceptOutFlows ==
  ASSUME IInv, Flowing, client.connected, usb0.out_enable,
         NEW data, usb0' = AcceptOut(usb0, data),
         UNCHANGED <<event_queue, stuck, queueVars, client, sessions>>
  PROVE  /\ Undisturbed' /\ Session' /\ SetupBehind' /\ Writing' /\ OneReceived'
         /\ \A t : Queued(t)' = Queued(t)
         /\ Unread' = Unread /\ Held' = Held
         /\ UNCHANGED <<control_queue, irq_queue>>
         /\ usb0'.in_stall = usb0.in_stall /\ usb0'.out_stall = usb0.out_stall
         /\ usb0'.setup = usb0.setup
         /\ Pending("EpControl")' = Pending("EpControl")
         /\ Pending("EpIn")' = Pending("EpIn")
         /\ "EpControl" \in usb0'.pending <=> "EpControl" \in usb0.pending
<1>1. /\ usb0'.in = usb0.in /\ usb0'.in_ready = usb0.in_ready
      /\ usb0'.in_stall = usb0.in_stall /\ usb0'.out_stall = usb0.out_stall
      /\ usb0'.tx = usb0.tx /\ usb0'.tx_ack = usb0.tx_ack
      /\ usb0'.setup = usb0.setup /\ usb0'.out_enable = FALSE
      /\ usb0'.pending = usb0.pending \union {"EpOut"}
  BY Typed DEF AcceptOut, Usb
<1>2. "BusReset" \notin usb0'.pending
  BY <1>1 DEF Flowing, Undisturbed
<1>3. /\ Undisturbed' /\ Session' /\ SetupBehind'
      /\ \A t : Queued(t)' = Queued(t)
      /\ Held' = Held /\ UNCHANGED <<control_queue, irq_queue>>
  BY <1>2, HostFlows
<1>4. /\ Unread' = Unread /\ Pending("EpControl")' = Pending("EpControl")
      /\ Pending("EpIn")' = Pending("EpIn") /\ Pending("EpOut")' = 1
      /\ "EpControl" \in usb0'.pending <=> "EpControl" \in usb0.pending
  BY <1>1 DEF Unread, Pending
<1>5. Writing'
  BY <1>1 DEF Flowing, Writing
<1>6. OneReceived'
  <2>1. /\ Queued("ReceivePacket")' = Queued("ReceivePacket")
        /\ Queued("ReceivePacket") \in Nat
        /\ Number(irq_queue, "ReceivePacket") \in Nat
        /\ Pending("EpOut") \in {0, 1}
    BY <1>3, Typed
  <2> HIDE DEF Queued, Pending
  <2>2. QED
    BY <1>1, <1>3, <1>4, <2>1 DEF Flowing, OneReceived
<1>7. QED
  BY <1>1, <1>3, <1>4, <1>5, <1>6

LEMMA TargetOutFlows ==
  ASSUME IInv, Flowing, TargetOut
  PROVE  Flowing'
<1>1. /\ client.connected
      /\ UNCHANGED <<event_queue, stuck, queueVars, client, sessions>>
  BY DEF TargetOut, Receives
<1>2. target \in Target /\ Ended.stage = "idle"
  BY Typed DEF Ended, Target
<1>3. ASSUME NEW data, usb0.out_enable, usb0' = AcceptOut(usb0, data),
             target.setup.request # "In",
             target'.stage # "idle", target'.setup = target.setup
      PROVE  Flowing'
  <2>1. /\ Undisturbed' /\ Session' /\ SetupBehind' /\ Writing' /\ OneReceived'
        /\ \A t : Queued(t)' = Queued(t)
        /\ Unread' = Unread /\ Held' = Held
        /\ UNCHANGED <<control_queue, irq_queue>>
        /\ usb0'.in_stall = usb0.in_stall /\ usb0'.out_stall = usb0.out_stall
        /\ usb0'.setup = usb0.setup
        /\ Pending("EpControl")' = Pending("EpControl")
        /\ Pending("EpIn")' = Pending("EpIn")
        /\ "EpControl" \in usb0'.pending <=> "EpControl" \in usb0.pending
    BY <1>1, <1>3, AcceptOutFlows
  <2>2. Waiting' = Waiting
    BY <2>1 DEF Waiting
  <2>3. Asked'
    BY <1>1, <1>3, <2>1, <2>2 DEF Flowing, Asked, SetupsQueued
  <2>4. Answered'
    BY <1>3, <2>1 DEF Flowing, Answered
  <2>5. Acknowledged'
    BY <1>1, <2>1, AcknowledgedSame DEF Flowing
  <2>6. QED
    BY <2>1, <2>3, <2>4, <2>5 DEF Flowing
<1>4. CASE /\ Receives(0) /\ target.stage = "data"
           /\ target.setup.request = "Out"
           /\ usb0' = AcceptOut(usb0, << [id |-> target.id,
                                          i |-> target.moved + 1] >>)
           /\ target' = Moved(FALSE)
  <2>1. target'.stage # "idle" /\ target'.setup = target.setup
    BY <1>2, <1>4 DEF Moved, Target
  <2>2. usb0.out_enable
    BY <1>4 DEF Receives, AcceptsOut
  <2>3. QED
    BY <1>3, <1>4, <2>1, <2>2
<1>5. CASE /\ Receives(0) /\ target.stage = "status"
           /\ target.setup.request = "In"
           /\ usb0' = AcceptOut(usb0, <<>>) /\ target' = Ended
  <2>1. Waiting # 1 /\ Unread = <<>>
    BY <1>5 DEF Flowing, Asked, Answered
  <2>2. usb0.out_enable
    BY <1>5 DEF Receives, AcceptsOut
  <2>3. /\ Undisturbed' /\ Session' /\ SetupBehind' /\ Writing' /\ OneReceived'
        /\ \A t : Queued(t)' = Queued(t)
        /\ Unread' = Unread /\ UNCHANGED control_queue
        /\ Pending("EpIn")' = Pending("EpIn")
        /\ "EpControl" \in usb0'.pending <=> "EpControl" \in usb0.pending
    BY <1>1, <1>5, <2>2, AcceptOutFlows
  <2>4. Asked'
    BY <1>1, <2>1, <2>3, NothingWaits, NotAsked
  <2>5. Answered'
    BY <2>1, <2>3 DEF Answered
  <2>6. Acknowledged'
    BY <1>1, <2>3, AcknowledgedSame DEF Flowing
  <2>7. QED
    BY <2>3, <2>4, <2>5, <2>6 DEF Flowing
<1>6. CASE usb0.out_stall /\ target' = Ended /\ UNCHANGED usb0
  <2>1. Waiting # 1 /\ Unread = <<>>
    BY <1>6 DEF Flowing, Asked, Answered
  <2>2. QED
    BY <1>1, <1>6, <2>1, EndedFlows
<1>7. QED
  BY <1>4, <1>5, <1>6 DEF TargetOut

LEMMA TargetBulkFlows ==
  ASSUME IInv, Flowing, TargetBulk
  PROVE  Flowing'
<1>1. PICK ep \in BulkEndpoints :
        /\ Receives(ep)
        /\ usb0' = AcceptOut(usb0, << [id |-> sent + 1, i |-> 1] >>)
  BY DEF TargetBulk
<1>2. UNCHANGED <<event_queue, stuck, queueVars, target, client, sessions>>
  BY DEF TargetBulk
<1>3. client.connected /\ usb0.out_enable
  BY <1>1 DEF Receives, AcceptsOut
<1>4. /\ Undisturbed' /\ Session' /\ SetupBehind' /\ Writing' /\ OneReceived'
      /\ \A t : Queued(t)' = Queued(t)
      /\ Unread' = Unread /\ Held' = Held
      /\ UNCHANGED <<control_queue, irq_queue>>
      /\ usb0'.in_stall = usb0.in_stall /\ usb0'.out_stall = usb0.out_stall
      /\ usb0'.setup = usb0.setup
      /\ Pending("EpControl")' = Pending("EpControl")
      /\ Pending("EpIn")' = Pending("EpIn")
      /\ "EpControl" \in usb0'.pending <=> "EpControl" \in usb0.pending
  BY <1>1, <1>2, <1>3, AcceptOutFlows
<1>5. Waiting' = Waiting
  BY <1>4 DEF Waiting
<1>6. Asked' /\ Answered'
  BY <1>2, <1>4, <1>5 DEF Flowing, Asked, SetupsQueued, Answered
<1>7. Acknowledged'
  BY <1>2, <1>4, AcknowledgedSame DEF Flowing
<1>8. QED
  BY <1>4, <1>6, <1>7 DEF Flowing

LEMMA TargetResetFlows ==
  ASSUME IInv, Obliging, TargetReset
  PROVE  FALSE
<1>1. resets < MaxResets /\ MaxResets = 0 /\ resets \in 0 .. MaxResets
  BY DEF TargetReset, Obliging, IInv, HostOK
<1>2. QED
  BY <1>1
-----------------------------------------------------------------------------
LEMMA FlowingInit == Init => Flowing
<1> SUFFICES ASSUME Init PROVE Flowing
  OBVIOUS
<1>1. /\ usb0.in = <<>> /\ usb0.in_ready = FALSE /\ usb0.pending = {}
      /\ usb0.tx.at = "none" /\ usb0.tx.left = <<>> /\ usb0.out_enable = FALSE
      /\ event_queue = <<>> /\ irq_queue = <<>> /\ control_queue = <<>>
      /\ stuck = "nothing" /\ target.stage = "idle" /\ client.armed = FALSE
      /\ client.verb = None /\ client.setup = NoSetup /\ client.connected = FALSE
  BY DEF Init, Connected, NoWrite
<1>2. /\ \A type : Queued(type) = 0
      /\ Number(irq_queue, "ReceivePacket") = 0
      /\ \A irq : Pending(irq) = 0 /\ Held = 0
      /\ Len(control_queue) = 0
      /\ DOMAIN event_queue = {} /\ DOMAIN control_queue = {}
  BY <1>1, NumberEmpty DEF Queued, Pending, Held
<1>3. Unread = <<>>
  <2>1. <<>> \o <<>> = <<>>
    OBVIOUS
  <2>2. QED
    BY <1>1, <2>1 DEF Unread
<1>4. Waiting = 0 /\ None # "disconnect"
  BY <1>2, MoondancerAssumption DEF Waiting, Verbs
<1>5. Len(Unread) = 0 /\ Len(usb0.in) = 0 /\ MostAnswered \in Nat
  BY <1>1, <1>3, EndpointAssumption DEF MostAnswered
<1> HIDE DEF Queued, Pending, Unread, Held, Waiting
<1>6. Undisturbed /\ Session
  BY <1>1, <1>2, <1>4 DEF Undisturbed, Session, VerbQueued
<1>7. Asked /\ Answered /\ Writing
  <2>1. Asked /\ Answered
    BY <1>1, <1>2, <1>3, <1>4 DEF Asked, SetupsQueued, Answered
  <2>2. usb0.in_ready = (usb0.in # <<>>)
    BY <1>1, Zenon
  <2>3. Len(usb0.in) <= 1
    BY <1>5
  <2>4. Writing
    BY <1>1, <2>2, <2>3 DEF Writing
  <2>5. QED
    BY <2>1, <2>4
<1>8. Acknowledged /\ OneReceived
  BY <1>1, <1>2, <1>5 DEF Acknowledged, SetupBehind, OneReceived
<1>9. QED
  BY <1>6, <1>7, <1>8 DEF Flowing

LEMMA FlowingNext ==
  ASSUME Obliging, IInv, Flowing, [Next]_vars
  PROVE  Flowing'
<1>1. CASE DispatchEvent
  BY <1>1, OnBusResetFlows, OnSetAddressFlows, OnSetupFlows, OnSendCompleteFlows,
     OnReceivePacketFlows DEF DispatchEvent
<1>2. CASE ExecuteVerb
  BY <1>2, ConnectFlows, DisconnectFlows, GetInterruptEventsFlows,
     BusResetVerbFlows, ReadControlFlows, ReadEndpointFlows, ArmOutFlows,
     WriteControlEndpointFlows, WriteControlEndpointDoneFlows,
     StallEndpointFlows DEF ExecuteVerb
<1>3. CASE TargetHost
  BY <1>3, TargetSetupFlows, TargetInFlows, TargetOutFlows, TargetBulkFlows,
     TargetResetFlows DEF TargetHost
<1>4. CASE UNCHANGED vars
  <2>1. UNCHANGED <<usb0, event_queue, stuck, queueVars, targetVars, client,
                    sessions>>
    BY <1>4 DEF vars
  <2>2. Unread' = Unread /\ Writing'
    BY <2>1 DEF Unread, Flowing, Writing
  <2>3. QED
    BY <2>1, <2>2, LoopFlows
<1>5. QED
  BY <1>1, <1>2, <1>3, <1>4, MachineExternalFlows, WriteStepFlows,
     ClientCallsFlows DEF Next, MainLoop

(* Neither the core nor the main loop ever stops, whatever the requests    *)
(* and whenever the host and the client act, when EVENT_QUEUE has room for *)
(* the acknowledgements of one answer and three events more: irq_queue may *)
(* be of any size, and control_queue needs room for one request            *)
(* (MachineExternal, dispatch_event, read_control).                        *)
THEOREM QueuesSuffice == Obliging => (Spec => []NeverStuck)
<1> SUFFICES ASSUME Obliging PROVE Spec => []NeverStuck
  OBVIOUS
<1>1. Init => IInv /\ Flowing
  BY IInvInit, FlowingInit
<1>2. IInv /\ Flowing /\ [Next]_vars => IInv' /\ Flowing'
  BY IInvNext, FlowingNext
<1>3. IInv /\ Flowing => NeverStuck
  BY DEF Flowing, Undisturbed, NeverStuck
<1>4. QED
  BY <1>1, <1>2, <1>3, PTL DEF Spec
=============================================================================
