----------------------------- MODULE Discovery -----------------------------
(***************************************************************************)
(* What a host finds out about a device of this repository, request by     *)
(* request: first its descriptors, then, on the CONTROL port, the classes  *)
(* and verbs of libgreat. The host (external) asks only for what it has    *)
(* learned that it may ask for: the strings that descriptors name, the     *)
(* vendor code of the Microsoft string, the classes and verbs it has been  *)
(* given, a call as its signature says. Each answer is one computed by     *)
(* Descriptors or Libgreat; how it travels is ControlPort's subject.       *)
(***************************************************************************)
EXTENDS Devices, Libgreat, FiniteSets

CONSTANTS
  DeviceTables,        (* the devices, by name                            *)
  Lengths,             (* values of wLength, besides those learned        *)
  Values,              (* the values a command may carry                  *)
  MaxCallBytes         (* the longest arguments of a call                 *)

ASSUME DiscoveryAssumption ==
  /\ Lengths \subseteq 1 .. 65535
  /\ Values \subseteq Nat
  /\ MaxCallBytes \in Nat

VARIABLES
  device,              (* the name of the device                          *)
  total,               (* wTotalLength as learned, 0 when not yet         *)
  strings, interfaces, (* string indexes and interface numbers learned    *)
  vendor_codes,        (* the vendor code of the Microsoft string         *)
  classes, verbs,      (* class numbers; of one class, <<class, verb>>    *)
  last                 (* the last request and its reply                  *)

facts == <<total, strings, interfaces, vendor_codes>>
vars == <<device, facts, classes, verbs, last>>

Recipients == {"Device", "Interface"}

(* A request: of a descriptor, by type and number; of a Microsoft feature, *)
(* by index and vendor code; or a command, by class and verb, and what its *)
(* arguments say. Fields that a kind does not use are 0.                   *)
Request(kind, type, number, length) ==
  [kind |-> kind, type |-> type, number |-> number, length |-> length,
   recipient |-> "Device", class |-> 0, verb |-> 0, descriptor |-> 0,
   value |-> 0]

Feature(index, code, length, recipient) ==
  [Request("feature", index, code, length) EXCEPT !.recipient = recipient]

Command(class, verb, bytes, on, descriptor, value) ==
  [Request("command", class, verb, bytes) EXCEPT
     !.class = on[1], !.verb = on[2], !.descriptor = descriptor,
     !.value = value]

Nothing == [request |-> Request("none", 0, 0, 0), reply |-> Zlp,
            result |-> Ok(0)]

Tables == SetTotalLengths(DeviceTables[device])

Init ==
  /\ device \in DOMAIN DeviceTables
  /\ total = [type \in {2, 7} |-> 0]
  /\ strings = {}
  /\ interfaces = {}
  /\ vendor_codes = {}
  /\ classes = {}
  /\ verbs = {}
  /\ last = Nothing
-----------------------------------------------------------------------------
(* Where the descriptors begin in a configuration, read from one bLength   *)
(* to the next, and where that ends.                                       *)
Starts(bytes) ==
  LET from[i \in 1 .. Len(bytes) + 256] ==
        IF i > Len(bytes) THEN {i}
        ELSE IF bytes[i] = 0 THEN {i} ELSE {i} \union from[i + bytes[i]]
  IN  from[1]

OfType(bytes, type) ==
  {i \in Starts(bytes) : i + 1 <= Len(bytes) /\ bytes[i + 1] = type}

Word(bytes, i) == bytes[i] + 256 * bytes[i + 1]

TotalLength(bytes) == IF Len(bytes) < 4 THEN 0 ELSE Word(bytes, 3)

(* The string indexes that a descriptor, or a whole configuration, names.  *)
Named(type, bytes) ==
  {bytes[i] : i \in {i \in DOMAIN bytes :
     \/ type = 1 /\ i \in 15 .. 17
     \/ type \in {2, 7} /\ i = 7
     \/ type \in {2, 7} /\ \E s \in OfType(bytes, 4) : i = s + 8}} \ {0}

Whole(type, bytes) ==
  type \in {2, 7} /\ Len(bytes) > 0 /\ Len(bytes) = TotalLength(bytes)

Learn(type, number, reply) ==
  /\ total' = IF type \in {2, 7} /\ TotalLength(reply.bytes) # 0
              THEN [total EXCEPT ![type] = TotalLength(reply.bytes)] ELSE total
  /\ strings' = strings \union
       IF type = 1 \/ Whole(type, reply.bytes)
       THEN Named(type, reply.bytes) ELSE {}
  /\ interfaces' = interfaces \union
       IF Whole(type, reply.bytes)
       THEN {reply.bytes[i + 2] : i \in OfType(reply.bytes, 4)} ELSE {}
  /\ vendor_codes' = vendor_codes \union
       IF type = 3 /\ number = MicrosoftString /\ Len(reply.bytes) >= 18
       THEN {reply.bytes[17]} ELSE {}

(* The Microsoft string is asked for whole. device.rs does not cut it off. *)
GetDescriptor(type, number, length) ==
  /\ classes = {}
  /\ type = 3 => number \in strings \union {0, MicrosoftString}
  /\ type # 3 => number = 0
  /\ length > 0
  /\ type = 3 /\ number = MicrosoftString => length >= 18
  /\ LET reply == Write(Tables, type, number, length)
     IN  /\ last' = [request |-> Request("descriptor", type, number, length),
                     reply |-> reply, result |-> Ok(0)]
         /\ Learn(type, number, reply)
  /\ UNCHANGED <<device, classes, verbs>>

GetFeature(code, recipient, index, length) ==
  /\ classes = {}
  /\ code \in vendor_codes
  /\ last' = [request |-> Feature(index, code, length, recipient),
              reply |-> Microsoft(Tables, code, recipient, index, length),
              result |-> Ok(0)]
  /\ UNCHANGED <<device, facts, classes, verbs>>
-----------------------------------------------------------------------------
(* Commands. The device is one that has libgreat, and was enumerated.      *)

Results(command) ==
  Dispatch(command.type, command.number,
           [bytes |-> command.length, class |-> command.class,
            verb |-> command.verb, descriptor |-> command.descriptor,
            value |-> command.value])

(* The CONTROL port has the Microsoft descriptors too, the others neither. *)
HasLibgreat == DeviceTables[device].microsoft10 # <<>>

Answered(command, result) ==
  /\ HasLibgreat
  /\ total[2] # 0
  /\ last' = [request |-> command, reply |-> Zlp, result |-> result]

(* From here on the host has no more use for the descriptors.              *)
ListClasses ==
  LET command == Command(0, 4, 0, <<0, 0>>, 0, 0)
  IN  \E result \in Results(command) :
        /\ Answered(command, result)
        /\ classes' = {result.ids[i] : i \in DOMAIN result.ids}
        /\ total' = [total EXCEPT ![7] = 0]
        /\ strings' = {} /\ interfaces' = {} /\ vendor_codes' = {}
        /\ UNCHANGED <<device, verbs>>

(* Then the host is concerned with the verbs of that class. What it knows  *)
(* of the others makes no difference: no reply depends on an earlier one.  *)
ListVerbs(class) ==
  LET command == Command(0, 5, 4, <<class, 0>>, 0, 0)
  IN  \E result \in Results(command) :
        /\ Answered(command, result)
        /\ verbs' = {<<class, result.ids[i]>> : i \in DOMAIN result.ids}
        /\ UNCHANGED <<device, facts, classes>>

(* get_class_name and get_class_docs; get_verb_name; get_verb_descriptor.  *)
Descriptions ==
  {Command(0, verb, 4, <<class, 0>>, 0, 0) : class \in classes, verb \in {8, 9}}
    \union {Command(0, 6, 8, on, 0, 0) : on \in verbs}
    \union {Command(0, 7, 9, on, descriptor, 0) :
              on \in verbs, descriptor \in 0 .. 4}

Describe ==
  \E command \in Descriptions : \E result \in Results(command) :
    /\ Answered(command, result)
    /\ UNCHANGED <<device, facts, classes, verbs>>

Fits(signature, bytes) ==
  /\ bytes >= signature.fixed
  /\ IF signature.unit = 0 THEN bytes = signature.fixed
     ELSE (bytes - signature.fixed) % signature.unit = 0

Describes(request, descriptor) ==
  /\ request.kind = "command"
  /\ request.type = ClassId.core
  /\ request.number = 7
  /\ request.descriptor = descriptor

(* A verb called as the in_signature says that was just read.              *)
Call(bytes, value) ==
  LET on == <<last.request.class, last.request.verb>>
      command == Command(on[1], on[2], bytes, on, 0, value)
  IN  /\ Describes(last.request, 1)
      /\ last.result.error = GreatError.None
      /\ Fits(last.result.signature, bytes)
      /\ \E result \in Results(command) : Answered(command, result)
      /\ UNCHANGED <<device, facts, classes, verbs>>

Next ==
  \/ \E type \in {1, 2, 3, 6, 7}, number \in {0, MicrosoftString} \union strings :
       \E length \in Lengths \union {total[t] : t \in DOMAIN total} :
         GetDescriptor(type, number, length)
  \/ \E code \in vendor_codes, recipient \in Recipients, index \in {4, 5} :
       \E length \in Lengths : GetFeature(code, recipient, index, length)
  \/ ListClasses
  \/ \E class \in classes : ListVerbs(class)
  \/ Describe
  \/ \E bytes \in 0 .. MaxCallBytes, value \in Values : Call(bytes, value)

Spec == Init /\ [][Next]_vars
-----------------------------------------------------------------------------
(* Every byte sent is a byte, and facts are of their kinds.                *)
TypeOK ==
  /\ device \in DOMAIN DeviceTables
  /\ total \in [{2, 7} -> 0 .. 65535]
  /\ strings \subseteq 1 .. 255
  /\ interfaces \subseteq 0 .. 255
  /\ vendor_codes \subseteq 0 .. 255
  /\ classes \subseteq Nat
  /\ verbs \subseteq classes \X Nat
  /\ last.reply.outcome \in {"data", "stall", "panic"}
  /\ last.reply.bytes \in Seq(0 .. 255)
  /\ last.result.length \in 0 .. MaxCommandSize

IsConfiguration == last.request.kind = "descriptor" /\ last.request.type \in {2, 7}

(* The other speed of acm has the type of a configuration (acm.rs).        *)
TypeAsAsked(bytes) == bytes[2] = last.request.type \/ device = "acm"

(* A configuration that is asked for whole is whole: read from one bLength *)
(* to the next it ends exactly at wTotalLength, which Control::new         *)
(* computes for both speeds (device.rs); it has as many interfaces as it   *)
(* says, numbered from 0, and each as many endpoints as it says, all of    *)
(* different addresses. Asked for in part, it is the beginning of that.    *)
ConfigurationParses ==
  IsConfiguration =>
    LET bytes == last.reply.bytes
        at == OfType(bytes, 4)
        endpointsOf(i) ==
          {e \in OfType(bytes, 5) :
             e > i /\ \A j \in at : ~ (i < j /\ j < e)}
    IN  /\ last.reply.outcome = "data"
        /\ Len(bytes) >= 4 => TypeAsAsked(bytes)
        /\ Len(bytes) >= 4 =>
             Len(bytes) = IF last.request.length < TotalLength(bytes)
                          THEN last.request.length ELSE TotalLength(bytes)
        /\ Whole(last.request.type, bytes) =>
             /\ Len(bytes) + 1 \in Starts(bytes)
             /\ bytes[5] = Cardinality(at)
             /\ {bytes[i + 2] : i \in at} = 0 .. bytes[5] - 1
             /\ \A i \in at : bytes[i + 4] = Cardinality(endpointsOf(i))
             /\ Cardinality({bytes[e + 2] : e \in OfType(bytes, 5)}) =
                  Cardinality(OfType(bytes, 5))

(* Every string that a descriptor names, the languages and the Microsoft   *)
(* string of a device that has one, is there: it neither stalls nor panics *)
(* (the index check of Descriptors::write admits one index too many), and  *)
(* its bLength is the number of bytes that it has.                         *)
IndexesResolve ==
  (last.request.kind = "descriptor" /\ last.request.type = 3) =>
    \/ /\ last.reply.outcome = "data"
       /\ last.reply.bytes[2] = DescriptorType.String
       /\ last.request.length >= last.reply.bytes[1] =>
            Len(last.reply.bytes) = last.reply.bytes[1]
    \/ /\ last.request.number = MicrosoftString
       /\ DeviceTables[device].microsoft10 = <<>>
       /\ last.reply.outcome = "stall"

(* The lengths of the packets of a reply (write_requested, on an endpoint  *)
(* 0 of 64 bytes): nothing follows a full packet that ends what was asked. *)
PacketSize == 64

FullPackets(n) == [i \in 1 .. n \div PacketSize |-> PacketSize]

PacketsWithoutZlp(n, requested) ==
  IF n % PacketSize # 0 THEN Append(FullPackets(n), n % PacketSize)
  ELSE IF n = 0 THEN <<0>> ELSE FullPackets(n)

Packets(n, requested) ==
  IF n % PacketSize = 0 /\ n = requested /\ n # 0 THEN FullPackets(n)
  ELSE Append(FullPackets(n), n % PacketSize)

(* A reply is never more than was asked, and its host sees it end: it ends *)
(* a transfer at a short packet or at wLength, which is the last packet of *)
(* the reply and none before. A response is asked for with the largest     *)
(* length there is, which is why that of dispatch_libgreat_response, which *)
(* is not cut off, fits.                                                   *)
TransferEnds ==
  last.reply.outcome = "data" =>
    LET n == IF last.request.kind = "command" THEN last.result.length
             ELSE Len(last.reply.bytes)
        requested == IF last.request.kind = "command" THEN MaxCommandSize
                     ELSE last.request.length
        packets == Packets(n, requested)
        ends(i) == packets[i] < PacketSize \/ i * PacketSize >= requested
    IN  last.request.kind # "none" =>
          /\ n <= requested
          /\ \A i \in DOMAIN packets : ends(i) <=> i = Len(packets)

(* What a host reads on the word of the Microsoft string is consistent     *)
(* with the rest: the vendor code is answered, the length that a feature   *)
(* descriptor states is the one it has, and its functions are interfaces   *)
(* of the configuration.                                                   *)
MicrosoftConsistent ==
  LET bytes == last.reply.bytes
      asked == last.request
  IN  (asked.kind = "feature" /\ (asked.type = 4) = (asked.recipient = "Device")) =>
        /\ last.reply.outcome = "data"
        /\ Len(bytes) = IF asked.length < Word(bytes, 1)
                        THEN asked.length ELSE Word(bytes, 1)
        /\ (asked.type = 4 /\ interfaces # {} /\ Len(bytes) = Word(bytes, 1)) =>
             \A k \in 0 .. bytes[9] - 1 : bytes[17 + 24 * k] \in interfaces

(* What a host enumerates fits together: configurations, strings and       *)
(* Microsoft descriptors agree with each other and with their own lengths  *)
(* and counts, for every device and every length asked for.                *)
DescriptorsConsistent ==
  TypeOK /\ ConfigurationParses /\ IndexesResolve /\ MicrosoftConsistent

(* Introspection closes: every class listed has a name and docs, every     *)
(* verb listed a name and five descriptors, and a call made as in_signature*)
(* says is not refused and answered as out_signature says. The signature   *)
(* of get_verb_descriptor itself is excepted: it publishes three words and *)
(* reads two words and a byte (class_core.rs).                             *)
ListedVerbsAnswer ==
  LET asked == last.request
      ofItself == asked.type = 0 /\ asked.number = 7 /\ asked.length = 12
  IN  (asked.kind = "command" /\ asked.value = 0 /\ ~ ofItself) =>
        /\ last.result.error \notin {GreatError.InvalidArgument,
                                     GreatError.InvalidRequestDescriptor}
        /\ \A i \in DOMAIN Classes : \A j \in DOMAIN Classes[i].verbs :
             LET verb == Classes[i].verbs[j]
             IN  (/\ <<Classes[i].id, verb.id>> = <<asked.type, asked.number>>
                  /\ last.result.error = GreatError.None) =>
                   Fits(verb.out_signature, last.result.length)
=============================================================================
