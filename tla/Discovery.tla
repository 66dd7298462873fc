----------------------------- MODULE Discovery -----------------------------
(***************************************************************************)
(* capture/HikvisionDiscovery.cpp: the SADP probe and, when nobody answers *)
(* it, the scan of the local subnets over TCP.  A device is a record of    *)
(* its serial number and the address it names (None where its answer has   *)
(* no such element), the address it sends from, the ports it has open, and *)
(* whether it speaks SADP and ISAPI.                                       *)
(* What the network loses or delays is free: any device may answer any     *)
(* number of times or never, and any connection may come too late.         *)
(***************************************************************************)
EXTENDS Integers, SequencesExt, Subsequences

CONSTANTS
    Devices,      \* the hosts on the LAN
    Interfaces,   \* the subnets of the local interfaces, in their order
    Usable(_),    \* not loopback, link-local or a VPN tunnel
    None

(* A serial number is one camera's, and an address is in one subnet - but  *)
(* several new cameras may have the same address.                          *)
ASSUME DiscoveryAssumption ==
    /\ IsFiniteSet(Devices)
    /\ \A d, e \in Devices : /\ d.serial = e.serial /\ d.serial # None => d = e
                             /\ d.from = e.from => d.net = e.net
    /\ Interfaces \in Seq({Interfaces[i] : i \in DOMAIN Interfaces})

VARIABLES
    phase,        \* where discoverHikvisionCameras is
    bySerial,
    bases,        \* the subnets tcpFallbackScan has still to scan
    result,
    error,
    heard,        \* history: the devices whose answer was read
    missed        \* history: devices that were too late for the scan

vars == <<phase, bySerial, bases, result, error, heard, missed>>

Init ==
    /\ phase = "off"
    /\ bySerial = <<>>
    /\ bases = <<>>
    /\ result = <<>>
    /\ error = FALSE
    /\ heard = {} /\ missed = {}

Goto(here, there) == phase = here /\ phase' = there

(* initSockets, the UDP socket and its port, and the probe. *)
OpenSocket ==
    /\ \/ Goto("off", "listening") /\ UNCHANGED error
       \/ Goto("off", "over") /\ error' = TRUE
    /\ UNCHANGED <<bySerial, bases, result, heard, missed>>

(* What an answer says of the device. *)
Found(d) == [serial |-> d.serial, address |-> IF d.address = None THEN d.from ELSE d.address]

Key(cam) == IF cam.serial = None THEN <<"address", cam.address>> ELSE <<"serial", cam.serial>>

(* "Devices may answer more than once": the last answer counts.  Packets   *)
(* without a <ProbeMatch> change nothing.                                  *)
Hear(d) ==
    /\ phase = "listening" /\ d.sadp
    /\ bySerial' = [k \in DOMAIN bySerial \cup {Key(Found(d))} |->
                      IF k = Key(Found(d)) THEN Found(d) ELSE bySerial[k]]
    /\ heard' = heard \cup {d}
    /\ UNCHANGED <<phase, bases, result, error, missed>>

(* Deviant: an interface is a subnet of its own. *)
EveryInterface == SelectSeq(Interfaces, Usable)

(* localSubnetBases: each usable subnet once, when it is first seen. *)
LocalSubnetBases ==
    Select(Interfaces, {i \in DOMAIN Interfaces :
                          /\ Usable(Interfaces[i])
                          /\ \A j \in DOMAIN Interfaces : Interfaces[j] = Interfaces[i] => i <= j})

(* The deadline: the answers, or "when nothing answered" the scan. *)
Deadline ==
    /\ IF DOMAIN bySerial = {}
       THEN Goto("listening", "scanning") /\ bases' = LocalSubnetBases /\ UNCHANGED result
       ELSE /\ Goto("listening", "over")
            /\ result' = [k \in 1..Cardinality(DOMAIN bySerial) |->
                            bySerial[SetToSeq(DOMAIN bySerial)[k]]]
            /\ UNCHANGED bases
    /\ UNCHANGED <<bySerial, error, heard, missed>>

(* scanTcpPort: of the hosts with the port open those that connect in time. *)
ScanTcpPort(hosts, port) == SUBSET {d \in hosts : port \in d.open}

Hosts(net) == {d \in Devices : d.net = net}

(* What is listed of the hosts with an ISAPI signature. *)
FromScan(hosts) == SetToSeq({[serial |-> None, address |-> d.from] : d \in hosts})

(* One turn of tcpFallbackScan: HCNetSDK's port, of those RTSP, of those   *)
(* an ISAPI signature.                                                     *)
ScanSubnet ==
    /\ phase = "scanning" /\ bases # <<>>
    /\ LET hosts == Hosts(Head(bases)) IN
       \E sdkOpen \in ScanTcpPort(hosts, 8000) :
       \E rtspOpen \in ScanTcpPort(sdkOpen, 554) :
       \E signed \in SUBSET {d \in rtspOpen : d.isapi} :
         /\ result' = result \o FromScan(signed)
         /\ missed' = missed \cup (hosts \ signed)
    /\ bases' = Tail(bases)
    /\ UNCHANGED <<phase, bySerial, error, heard>>

EndScan ==
    /\ bases = <<>> /\ Goto("scanning", "over")
    /\ UNCHANGED <<bySerial, bases, result, error, heard, missed>>

Next ==
    \/ OpenSocket
    \/ \E d \in Devices : Hear(d)
    \/ Deadline
    \/ ScanSubnet
    \/ EndScan

-----------------------------------------------------------------------------
(* Properties.                                                             *)

(* What is listed is what answered: each device that was heard - several   *)
(* may still have the factory's address - and, after a silence, each       *)
(* camera that was in time on a subnet; every one of them once.            *)
ListsEveryAnswerOnce ==
    phase = "over" /\ ~error =>
      /\ \A i, j \in DOMAIN result : Key(result[i]) = Key(result[j]) => i = j
      /\ \A d \in heard : \E i \in DOMAIN result : result[i] = Found(d)
      /\ heard = {} =>
           {result[i].address : i \in DOMAIN result} =
             {d.from : d \in {e \in Devices \ missed : \E i \in DOMAIN Interfaces :
                                e.net = Interfaces[i] /\ Usable(e.net)}}
=============================================================================
