---------------------------- MODULE Descriptors ----------------------------
(***************************************************************************)
(* USB descriptors as the bytes they are sent as (smolusb, descriptor.rs   *)
(* and descriptor/microsoft10.rs), and the replies to GET_DESCRIPTOR and   *)
(* to the Microsoft OS 1.0 request (device.rs, control.rs). Fields that    *)
(* say nothing of lengths, numbers and indexes are zero here: Other(n) is  *)
(* n bytes of them.                                                        *)
(***************************************************************************)
EXTENDS Integers, Sequences, SequencesExt

Byte(n) == n % 256

U16(n) == <<n % 256, (n \div 256) % 256>>
U32(n) == U16(n) \o U16(n \div 65536)

Other(n) == [i \in 1 .. n |-> 0]

(* s with each element replaced by its bytes.                              *)
Each(BytesOf(_), s) == [i \in DOMAIN s |-> BytesOf(s[i])]

(* What a descriptor with a tail is sent as.                               *)
CompositeIterator(head, tail) == head \o FlattenSeq(tail)

Take(bytes, n) == SubSeq(bytes, 1, IF n < Len(bytes) THEN n ELSE Len(bytes))

DescriptorType ==
  [Device |-> 1, Configuration |-> 2, String |-> 3, Interface |-> 4,
   Endpoint |-> 5, DeviceQualifier |-> 6, OtherSpeedConfiguration |-> 7,
   ClassSpecific |-> 36]

MicrosoftString == 238        (* StringDescriptorNumber::Microsoft, 0xee   *)
-----------------------------------------------------------------------------
DeviceDescriptor(d) ==
  <<18, DescriptorType.Device>> \o Other(5) \o <<d.bMaxPacketSize>> \o Other(6)
    \o <<d.iManufacturer, d.iProduct, d.iSerialNumber, d.bNumConfigurations>>

DeviceQualifierDescriptor(q) ==
  <<10, DescriptorType.DeviceQualifier>> \o Other(5)
    \o <<q.bMaxPacketSize0, q.bNumConfigurations, 0>>

ClassSpecificDescriptor(subtype) ==
  <<5, DescriptorType.ClassSpecific, subtype>> \o Other(2)

EndpointDescriptor(e) ==
  <<7, DescriptorType.Endpoint, e.bEndpointAddress, e.bmAttributes>>
    \o U16(e.wMaxPacketSize) \o Other(1)

InterfaceDescriptor(i) ==
  CompositeIterator(
    <<9, DescriptorType.Interface, i.iInterfaceNumber, i.bAlternateSetting,
      Byte(Len(i.endpoints))>> \o Other(3) \o <<i.iInterface>>,
    Each(ClassSpecificDescriptor, i.class_specific)
      \o Each(EndpointDescriptor, i.endpoints))

ConfigurationHeader(c) ==
  <<9, c.bDescriptorType>> \o U16(c.wTotalLength)
    \o <<Byte(Len(c.interfaces)), c.bConfigurationValue, c.iConfiguration>>
    \o Other(2)

ConfigurationDescriptor(c) ==
  CompositeIterator(ConfigurationHeader(c),
                    Each(InterfaceDescriptor, c.interfaces))

SetTotalLength(c) ==
  LET length == Len(ConfigurationDescriptor(c))
  IN  [c EXCEPT !.wTotalLength = IF length > 65535 THEN 65535 ELSE length]

SetTotalLengthsFirstOnly(d) ==
  [d EXCEPT !.configuration = SetTotalLength(@)]

(* Descriptors::set_total_lengths, by Control::new. An optional descriptor *)
(* is a sequence of at most one.                                           *)
SetTotalLengths(d) ==
  [d EXCEPT !.configuration = SetTotalLength(@),
            !.other_speed_configuration =
               IF @ = <<>> THEN <<>> ELSE <<SetTotalLength(@[1])>>]
-----------------------------------------------------------------------------
(* Strings are sequences of ASCII characters, as all those of this         *)
(* repository: their bytes count both what bLength is computed from (the   *)
(* UTF-8 encoding) and what is sent (UTF-16).                              *)

StringDescriptorZero(language_ids) ==
  CompositeIterator(
    <<Byte(2 + 2 * Len(language_ids)), DescriptorType.String>>,
    Each(U16, language_ids))

StringDescriptor(text) ==
  CompositeIterator(
    <<Byte(2 + 2 * Len(text)), DescriptorType.String>>, Each(U16, text))
-----------------------------------------------------------------------------
(* Microsoft OS 1.0                                                        *)

Version10 == U16(256)

MicrosoftStringDescriptor(vendor_code) ==
  <<18, DescriptorType.String>> \o Other(14) \o <<vendor_code, 0>>

CompatibleIdFunction(first) == <<first, 1>> \o Other(22)

CompatibleIdDescriptor(functions) ==
  CompositeIterator(
    U32(16 + 24 * Len(functions)) \o Version10 \o U16(4)
      \o <<Byte(Len(functions))>> \o Other(7),
    Each(CompatibleIdFunction, functions))

(* One property: its name is 40 bytes, its value 78.                       *)
ExtendedPropertiesDescriptor ==
  U32(142) \o Version10 \o U16(5) \o U16(1)
    \o U32(132) \o U32(1) \o U16(40) \o Other(40) \o U32(78) \o Other(78)
-----------------------------------------------------------------------------
(* What the device writes for a request, and how it ends otherwise.        *)
Data(bytes) == [outcome |-> "data", bytes |-> bytes]
Ended(outcome) == [outcome |-> outcome, bytes |-> <<>>]

Zlp == Data(<<>>)
Stall == Ended("stall")
Panic == Ended("panic")

(* The bound is one too high: the number after the last panics.            *)
InTable(strings, number) == number - 1 <= Len(strings)

StringReply(d, number, length) ==
  CASE number = 0 -> Data(Take(StringDescriptorZero(d.languages), length))
    [] number = MicrosoftString ->
         IF d.microsoft10 = <<>> THEN Stall
         ELSE Data(MicrosoftStringDescriptor(d.microsoft10[1].vendor_code))
    [] ~ InTable(d.strings, number) -> Stall
    [] number > Len(d.strings) -> Panic
    [] OTHER -> Data(Take(StringDescriptor(d.strings[number]), length))

(* Descriptors::write. What it does not handle the caller stalls.          *)
Write(d, type, number, length) ==
  CASE type = DescriptorType.Device /\ number = 0 ->
         Data(Take(DeviceDescriptor(d.device), length))
    [] type = DescriptorType.Configuration ->
         Data(Take(ConfigurationDescriptor(d.configuration), length))
    [] type = DescriptorType.DeviceQualifier ->
         IF d.device_speed # "High" \/ d.device_qualifier = <<>> THEN Zlp
         ELSE Data(Take(DeviceQualifierDescriptor(d.device_qualifier[1]), length))
    [] type = DescriptorType.OtherSpeedConfiguration ->
         IF d.other_speed_configuration = <<>> THEN Zlp
         ELSE Data(Take(ConfigurationDescriptor(d.other_speed_configuration[1]),
                        length))
    [] type = DescriptorType.String -> StringReply(d, number, length)
    [] OTHER -> Stall

VendorRequest == [Microsoft |-> 238]
VendorIndex ==
  [CompatibleIdFeatureDescriptor |-> 4, ExtendedPropertiesFeatureDescriptor |-> 5]

(* The Microsoft OS 1.0 request, of a fixed vendor code. Other vendor      *)
(* requests are not the descriptors', and stalled unless they are libgreat.*)
Microsoft(d, vendor_code, recipient, index, length) ==
  CASE vendor_code # VendorRequest.Microsoft -> Stall
    [] /\ d.microsoft10 # <<>> /\ recipient = "Device"
       /\ index = VendorIndex.CompatibleIdFeatureDescriptor ->
         Data(Take(CompatibleIdDescriptor(d.microsoft10[1].functions), length))
    [] /\ d.microsoft10 # <<>> /\ recipient = "Interface"
       /\ index = VendorIndex.ExtendedPropertiesFeatureDescriptor ->
         Data(Take(ExtendedPropertiesDescriptor, length))
    [] OTHER -> Stall
=============================================================================
