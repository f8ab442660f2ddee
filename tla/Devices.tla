------------------------------ MODULE Devices ------------------------------
(***************************************************************************)
(* The descriptor tables of the repository's devices: the CONTROL port of  *)
(* the Facedancer firmware (moondancer/src/usb.rs, bin/moondancer.rs), the *)
(* serial device of smolusb (class/acm.rs) and the two other example       *)
(* devices (moondancer/examples).                                          *)
(***************************************************************************)
EXTENDS Descriptors

(* A text of ASCII characters; which ones does not matter here.            *)
Text(string) == [i \in 1 .. Len(string) |-> 97]

EnglishUnitedStates == 1033

Endpoint(address, attributes, size) ==
  [bEndpointAddress |-> address, bmAttributes |-> attributes,
   wMaxPacketSize |-> size]

Interface(number, string, class_specific, endpoints) ==
  [iInterfaceNumber |-> number, bAlternateSetting |-> 0, iInterface |-> string,
   class_specific |-> class_specific, endpoints |-> endpoints]

Configuration(type, string, interfaces) ==
  [bDescriptorType |-> type, wTotalLength |-> 0, bConfigurationValue |-> 1,
   iConfiguration |-> string, interfaces |-> interfaces]

DeviceWith(size) ==
  [bMaxPacketSize |-> size, iManufacturer |-> 1, iProduct |-> 2,
   iSerialNumber |-> 3, bNumConfigurations |-> 1]

Qualifier(size) == [bMaxPacketSize0 |-> size, bNumConfigurations |-> 1]

Bulk == 2
Interrupt == 3
-----------------------------------------------------------------------------
(* The interface to libgreat, and the one that Apollo's tools claim.       *)
MoondancerInterfaces(size, first) ==
  << Interface(0, first, <<>>,
               <<Endpoint(129, Bulk, size), Endpoint(2, Bulk, size)>>),
     Interface(1, first + 1, <<>>, <<>>) >>

(* The bytes that the SPI flash sends when asked for its identifier: the   *)
(* last eight of thirteen. After a timeout, or with any other number of    *)
(* bytes, Firmware::new uses zeros.                                        *)
ReadFlashUuid(response) ==
  IF Len(response) = 13 THEN SubSeq(response, 6, 13) ELSE [n \in 1 .. 8 |-> 0]

HexDigit(d) == IF d < 10 THEN 48 + d ELSE 87 + d

(* Last byte first, and a small byte with one digit: 8 to 16 characters.   *)
FormatFlashUuid(uuid) ==
  LET digits(byte) ==
        IF byte < 16 THEN <<HexDigit(byte)>>
        ELSE <<HexDigit(byte \div 16), HexDigit(byte % 16)>>
  IN  FlattenSeq([n \in 1 .. 8 |-> digits(uuid[9 - n])])

MoondancerStrings(response) ==
  << Text("Cynthion Project"), Text("Facedancer"),
     FormatFlashUuid(ReadFlashUuid(response)),
     Text("config0"), Text("Facedancer Control"), Text("Apollo Stub"),
     Text("other config0"), Text("other interface0"), Text("other interface1") >>

(* The first interface of each function of the compatible-id descriptor.   *)
CompatibleIdFunctions == <<0, 1>>

MoondancerDescriptors(response) ==
  [device_speed |-> "High",
   device |-> DeviceWith(64),
   configuration |->
     Configuration(DescriptorType.Configuration, 4, MoondancerInterfaces(512, 5)),
   languages |-> <<EnglishUnitedStates>>,
   strings |-> MoondancerStrings(response),
   device_qualifier |-> <<Qualifier(64)>>,
   other_speed_configuration |->
     <<Configuration(DescriptorType.OtherSpeedConfiguration, 7,
                     MoondancerInterfaces(64, 8))>>,
   microsoft10 |-> <<[vendor_code |-> 238, functions |-> CompatibleIdFunctions]>>]
-----------------------------------------------------------------------------
(* A control interface with its functional descriptors, and one for data.  *)
AcmInterfaces(notification, size) ==
  << Interface(0, 5, <<0, 6, 1>>, <<Endpoint(131, notification, 64)>>),
     Interface(1, 6, <<>>, <<Endpoint(132, Bulk, 64), Endpoint(4, Bulk, size)>>) >>

AcmStrings ==
  << Text("Cynthion Project"), Text("USB-to-serial"), Text("100"),
     Text("iConfiguration 0"), Text("iInterface 0"), Text("iInterface 1") >>

(* Both configurations are of type Configuration, with the same strings.   *)
AcmDescriptors ==
  [device_speed |-> "Full",
   device |-> DeviceWith(64),
   configuration |->
     Configuration(DescriptorType.Configuration, 4, AcmInterfaces(Interrupt, 512)),
   languages |-> <<EnglishUnitedStates>>,
   strings |-> AcmStrings,
   device_qualifier |-> <<Qualifier(8)>>,
   other_speed_configuration |->
     <<Configuration(DescriptorType.Configuration, 4, AcmInterfaces(Bulk, 64))>>,
   microsoft10 |-> <<>>]
-----------------------------------------------------------------------------
(* The examples: a single interface, whose endpoints move test data.       *)
ExampleDescriptors(strings, configuration, interface, other, endpoints) ==
  [device_speed |-> "High",
   device |-> DeviceWith(64),
   configuration |->
     Configuration(DescriptorType.Configuration, configuration,
                   <<Interface(0, interface, <<>>, endpoints[512])>>),
   languages |-> <<EnglishUnitedStates>>,
   strings |-> strings,
   device_qualifier |-> <<Qualifier(64)>>,
   other_speed_configuration |->
     <<Configuration(DescriptorType.OtherSpeedConfiguration, other[1],
                     <<Interface(0, other[2], <<>>, endpoints[64])>>)>>,
   microsoft10 |-> <<>>]

(* Data in both directions, and commands on an endpoint of their own.      *)
SpeedTestEndpoints == [size \in {64, 512} |->
  <<Endpoint(1, Bulk, size), Endpoint(2, Bulk, 8), Endpoint(129, Bulk, size)>>]

SpeedTestStrings ==
  << Text("Cynthion Project"), Text("Bulk Speed Test"), Text("0000000000000000") >>

(* The strings of the device also name its configuration and interface.    *)
SpeedTestDescriptors ==
  ExampleDescriptors(SpeedTestStrings, 1, 2, <<1, 2>>, SpeedTestEndpoints)

UsbHalEndpoints == [size \in {64, 512} |->
  <<Endpoint(1, Bulk, size), Endpoint(129, Bulk, size)>>]

UsbHalStrings ==
  << Text("Cynthion Project"), Text("Example"), Text("0000000000000000"),
     Text("config 1"), Text("interface 0"),
     Text("other config 1"), Text("other interface 0") >>

UsbHalDescriptors ==
  ExampleDescriptors(UsbHalStrings, 4, 5, <<6, 7>>, UsbHalEndpoints)
=============================================================================
