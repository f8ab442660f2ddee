------------------------------ MODULE Libgreat ------------------------------
(***************************************************************************)
(* The class registry of libgreat and the dispatch of a command to its     *)
(* class (libgreat/src/gcp.rs, gcp/class.rs, gcp/class_core.rs; the        *)
(* classes of moondancer/src/gcp). Arguments are known by their number of  *)
(* bytes and by the few values that decide something; names and            *)
(* documentation are not told apart. A signature is a number of fixed      *)
(* bytes and the size of a part that repeats, 0 when there is none.        *)
(***************************************************************************)
EXTENDS Integers, Sequences

CONSTANT MaxCommandSize        (* LIBGREAT_MAX_COMMAND_SIZE                *)

ASSUME LibgreatAssumption == MaxCommandSize \in Nat \ {0}

Sig(fixed, unit) == [fixed |-> fixed, unit |-> unit]
Null == Sig(0, 1)              (* "*": the signature is not published      *)
Empty == Sig(0, 0)

Verb(id, in_signature, out_signature) ==
  [id |-> id, in_signature |-> in_signature, out_signature |-> out_signature]

CoreVerbs ==
  << Verb(0, Null, Null), Verb(1, Null, Null), Verb(2, Null, Null),
     Verb(3, Null, Null), Verb(4, Null, Null), Verb(5, Sig(4, 0), Null),
     Verb(6, Sig(8, 0), Null), Verb(7, Sig(12, 0), Null),
     Verb(8, Sig(4, 0), Null), Verb(9, Sig(4, 0), Null) >>

FirmwareVerbs ==
  << Verb(0, Empty, Sig(8, 0)), Verb(1, Empty, Empty),
     Verb(2, Sig(4, 0), Empty), Verb(3, Sig(4, 1), Empty),
     Verb(4, Sig(4, 0), Sig(0, 1)) >>

SelftestVerbs == << Verb(16, Sig(4, 0), Sig(0, 1)) >>

MoondancerVerbs ==
  << Verb(0, Sig(5, 0), Empty), Verb(1, Empty, Empty), Verb(2, Empty, Empty),
     Verb(3, Empty, Sig(8, 0)), Verb(4, Sig(2, 0), Empty),
     Verb(5, Sig(0, 4), Empty), Verb(6, Sig(1, 0), Empty),
     Verb(7, Sig(1, 0), Empty), Verb(8, Sig(2, 0), Empty),
     Verb(9, Sig(1, 0), Sig(0, 1)), Verb(10, Sig(1, 0), Empty),
     Verb(11, Sig(4, 1), Empty), Verb(12, Sig(2, 1), Empty),
     Verb(13, Empty, Sig(0, 2)), Verb(14, Empty, Sig(2, 0)),
     Verb(15, Empty, Empty), Verb(40, Sig(4, 0), Sig(0, 1)),
     Verb(42, Sig(1, 1), Sig(4, 0)), Verb(43, Empty, Sig(0, 2)) >>

Class(id, verbs) == [id |-> id, verbs |-> verbs]

ClassId == [core |-> 0, firmware |-> 1, selftest |-> 17, moondancer |-> 288]

Classes ==
  << Class(ClassId.core, CoreVerbs), Class(ClassId.firmware, FirmwareVerbs),
     Class(ClassId.selftest, SelftestVerbs),
     Class(ClassId.moondancer, MoondancerVerbs) >>

Ids(table) == [i \in DOMAIN table |-> table[i].id]

(* The first entry of that number, if there is one: at most one element.   *)
Find(table, id) ==
  LET at == {i \in DOMAIN table : table[i].id = id}
  IN  {table[i] : i \in {i \in at : \A j \in at : i <= j}}
-----------------------------------------------------------------------------
(* What a verb returns: an error, or a response of so many bytes. The      *)
(* response of an introspection carries what it lists.                     *)

GreatError ==
  [None |-> 0, InvalidArgument |-> 22, InvalidRequestDescriptor |-> 51,
   StreamIoctlTimeout |-> 62, NoBufferSpaceAvailable |-> 105]

(* The numbers of the enumeration.                                         *)
ErrorCodes ==
  {5, 7, 11, 12, 16, 22, 33, 34, 35, 51, 54, 61, 62, 71, 77, 88, 104, 105,
   111, 112, 116, 120, 125, 134, 138, 139, 140, 141}

Err(error) ==
  [error |-> error, length |-> 0, ids |-> <<>>, signature |-> Null]

(* iter_to_response: what does not fit is cut off.                         *)
Ok(length) ==
  [error |-> GreatError.None,
   length |-> IF length < MaxCommandSize THEN length ELSE MaxCommandSize,
   ids |-> <<>>, signature |-> Null]

Listed(table) == [Ok(4 * Len(table)) EXCEPT !.ids = Ids(table)]
Prose == Ok(1)
Signature(sig) == [Prose EXCEPT !.signature = sig]

InvalidArgument == Err(GreatError.InvalidArgument)

(* Args::read_from takes exactly the bytes of the structure, a Ref from a  *)
(* prefix takes them and leaves the rest.                                  *)
ReadFrom(arguments, size) == arguments.bytes = size

FromPrefix(arguments, size) == arguments.bytes >= size
-----------------------------------------------------------------------------
(* Class core. The arguments name a class, a verb and a descriptor.        *)

OfClass(arguments, size, Reply(_)) ==
  IF ReadFrom(arguments, size)
  THEN LET found == Find(Classes, arguments.class)
       IN  IF found = {} THEN {InvalidArgument} ELSE {Reply(c) : c \in found}
  ELSE {InvalidArgument}

OfVerb(arguments, size, Reply(_)) ==
  LET reply(class) ==
        LET found == Find(class.verbs, arguments.verb)
        IN  IF found = {} THEN InvalidArgument
            ELSE Reply(CHOOSE v \in found : TRUE)
  IN  OfClass(arguments, size, reply)

GetAvailableClasses == {Listed(Classes)}

GetAvailableVerbs(arguments) ==
  LET reply(class) == Listed(class.verbs) IN OfClass(arguments, 4, reply)

GetVerbName(arguments) ==
  LET reply(verb) == Prose IN OfVerb(arguments, 8, reply)

(* 0 and 1 are the signatures, 2 to 4 documentation.                       *)
VerbDescriptorSwapped(verb, descriptor) ==
  CASE descriptor = 0 -> Signature(verb.in_signature)
    [] descriptor = 1 -> Signature(verb.out_signature)
    [] descriptor \in 2 .. 4 -> Prose
    [] OTHER -> Err(GreatError.InvalidRequestDescriptor)

VerbDescriptor(verb, descriptor) ==
  CASE descriptor = 0 -> Signature(verb.out_signature)
    [] descriptor = 1 -> Signature(verb.in_signature)
    [] descriptor \in 2 .. 4 -> Prose
    [] OTHER -> Err(GreatError.InvalidRequestDescriptor)

GetVerbDescriptor(arguments) ==
  LET reply(verb) == VerbDescriptor(verb, arguments.descriptor)
  IN  OfVerb(arguments, 9, reply)

GetClassText(arguments) ==
  LET reply(class) == Prose IN OfClass(arguments, 4, reply)

(* What read_board_id, read_version_string, read_part_id and               *)
(* read_serial_number reply, in bytes.                                     *)
BoardInformation == <<4, 5, 8, 16>>

CoreDispatch(verb, arguments) ==
  CASE verb \in 0 .. 3 -> {Ok(BoardInformation[verb + 1])}
    [] verb = 4 -> GetAvailableClasses
    [] verb = 5 -> GetAvailableVerbs(arguments)
    [] verb = 6 -> GetVerbName(arguments)
    [] verb = 7 -> GetVerbDescriptor(arguments)
    [] verb \in {8, 9} -> GetClassText(arguments)
    [] OTHER -> {InvalidArgument}
-----------------------------------------------------------------------------
If(read, replies) == IF read THEN replies ELSE {InvalidArgument}

FirmwareDispatch(verb, arguments) ==
  CASE verb = 0 -> {Ok(8)}
    [] verb = 1 -> {Ok(0)}
    [] verb = 2 -> If(ReadFrom(arguments, 4), {Ok(0)})
    [] verb = 3 -> If(FromPrefix(arguments, 4), {Ok(0)})
    [] verb = 4 -> If(ReadFrom(arguments, 4), {Ok(8)})
    [] OTHER -> {InvalidArgument}

(* A code other than 0 is reinterpreted as an error: one that is not in    *)
(* the enumeration may turn out to be any of them.                         *)
TestErrorReturnCode(code) ==
  CASE code = 0 -> {Ok(2)}
    [] code \in ErrorCodes -> {Err(code)}
    [] OTHER -> {Err(error) : error \in ErrorCodes}

SelftestDispatch(verb, arguments) ==
  IF verb = 16
  THEN If(ReadFrom(arguments, 4), TestErrorReturnCode(arguments.value))
  ELSE {InvalidArgument}

(* The state of the class is Moondancer's: here only how a verb reads its  *)
(* arguments and how long its response is. read_control answers when a     *)
(* packet is queued; packets and events come in any number.                *)
WriteReplies == {Ok(0), Err(GreatError.StreamIoctlTimeout)}

TestReadEndpoint(payload_length) ==
  IF payload_length > MaxCommandSize
  THEN {Err(GreatError.NoBufferSpaceAvailable)} ELSE {Ok(payload_length)}

(* set_address, clear_feature_endpoint_halt, get_nak_status, and the two   *)
(* test verbs whose response is the length of the payload (a usize), and   *)
(* the events of four queued for the test after those that were there.     *)
SetAddress(arguments) == If(ReadFrom(arguments, 2), {Ok(0)})
ClearFeatureEndpointHalt(arguments) == If(ReadFrom(arguments, 2), {Ok(0)})
GetNakStatus == {Ok(2)}
TestWriteEndpoint(arguments) == If(FromPrefix(arguments, 1), {Ok(4)})
TestGetInterruptEvents == {Ok(2 * n) : n \in {4, 5, 63}}

MoondancerDispatch(verb, arguments) ==
  CASE verb = 0 -> If(ReadFrom(arguments, 5), {Ok(0)})
    [] verb \in {1, 2, 15} -> {Ok(0)}
    [] verb = 3 -> {Ok(8)}
    [] verb = 5 -> If(arguments.bytes < 4 \/ arguments.value <= 512, {Ok(0)})
    [] verb = 4 -> SetAddress(arguments)
    [] verb = 8 -> ClearFeatureEndpointHalt(arguments)
    [] verb \in {6, 7, 10} -> If(ReadFrom(arguments, 1), {Ok(0)})
    [] verb = 9 -> If(ReadFrom(arguments, 1), {Ok(n) : n \in {0, 1, 512}})
    [] verb = 11 -> If(FromPrefix(arguments, 4), WriteReplies)
    [] verb = 12 -> If(FromPrefix(arguments, 2), WriteReplies)
    [] verb = 13 -> {Ok(2 * n) : n \in {0, 1, 63}}
    [] verb = 14 -> GetNakStatus
    [] verb = 40 -> If(ReadFrom(arguments, 4), TestReadEndpoint(arguments.value))
    [] verb = 42 -> TestWriteEndpoint(arguments)
    [] verb = 43 -> TestGetInterruptEvents
    [] OTHER -> {InvalidArgument}
-----------------------------------------------------------------------------
(* dispatch_libgreat_request, for a command that has its eight bytes of    *)
(* class and verb.                                                         *)
Dispatch(class, verb, arguments) ==
  CASE class = ClassId.core -> CoreDispatch(verb, arguments)
    [] class = ClassId.firmware -> FirmwareDispatch(verb, arguments)
    [] class = ClassId.selftest -> SelftestDispatch(verb, arguments)
    [] class = ClassId.moondancer -> MoondancerDispatch(verb, arguments)
    [] OTHER -> {InvalidArgument}
=============================================================================
