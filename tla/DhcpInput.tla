----------------------------- MODULE DhcpInput -----------------------------
(***************************************************************************)
(* The way of a frame into the DHCP collector: the kernel runs the filter, *)
(* ParseFrame looks for the UDP payload and parses its options.            *)
(***************************************************************************)
EXTENDS SocketFilter, OptionParser

\* Bound: the options are followed in one of the frames that carry a payload and
\* pass the filter.
Carrier == CHOOSE f \in Frames : UDPPayload(f) = "payload" /\ f.tags = <<>>

NotParsed ==
  /\ header = FALSE
  /\ options = <<>>
  /\ offset = 1
  /\ message = NoMessage
  /\ parsed = Idle

InputInit == Init /\ NotParsed

FilterStep ==
  /\ Next
  /\ UNCHANGED parser

\* The filter has let the frame through, and udpPayload has found the payload.
Unpack ==
  /\ program = "dhcp" /\ verdict > 0
  /\ parsed = Idle
  /\ UDPPayload(frame) = "payload"
  /\ frame = Carrier
  /\ header' \in BOOLEAN /\ options' \in Payloads
  /\ offset' = 1 /\ message' = NoMessage /\ parsed' = Parsing
  /\ UNCHANGED vars

ParserStep ==
  /\ ParserNext
  /\ UNCHANGED vars

InputSpec == InputInit /\ [][FilterStep \/ Unpack \/ ParserStep]_<<vars, parser>>
=============================================================================
