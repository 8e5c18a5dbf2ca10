---------------------------- MODULE OptionParser ----------------------------
(***************************************************************************)
(* parsePayload (internal/collector/dhcp/message.go): the loop over the    *)
(* options of a DHCP message, which reads bytes that anyone on the network *)
(* has written.  An option is a code, a length and as many bytes; the pad  *)
(* option and the end option are a code alone.                             *)
(*                                                                         *)
(* The options are the bytes of the payload from offset 240 on, and offset *)
(* counts from 1 as sequences do.  The part before them is fixed, and      *)
(* either well-formed or refused.                                          *)
(***************************************************************************)
EXTENDS Integers, Sequences, FiniteSets

CONSTANTS
  Payloads,  \* the options of the messages that arrive
  IPv4Len    \* net.IPv4len (4)

Byte == 0 .. 255

ASSUME PayloadAssumption ==
  /\ Payloads \subseteq Seq(Byte)
  /\ IPv4Len \in Nat

VARIABLES
  header,   \* the part before the options is that of a client's DHCP message
  options,
  offset,   \* the next byte to read
  message,  \* what has been read so far
  parsed    \* what parsePayload returns, or Parsing

parser == <<header, options, offset, message, parsed>>

Pad         == 0
HostName    == 12
RequestedIP == 50
MessageType == 53
ServerIP    == 54
End         == 255

Idle    == "idle"      \* no payload has been found yet
Parsing == "parsing"
Empty   == <<>>
Blank   == 32

Message ==
  [type : Byte, hostname : Seq(Byte), requestedIP : Seq(Byte), serverIP : Seq(Byte)]

NoMessage ==
  [type |-> 0, hostname |-> Empty, requestedIP |-> Empty, serverIP |-> Empty]

ParserInit ==
  /\ header \in BOOLEAN
  /\ options \in Payloads
  /\ offset = 1
  /\ message = NoMessage
  /\ parsed = Parsing
-----------------------------------------------------------------------------
NextCode == options[offset]

\* Mutant: the byte after the value is not looked for.
BeyondPayloadByOne(n) == offset + 1 + n > Len(options) + 1

\* The value of an option whose length is n does not fit.
BeyondPayload(n) == offset + 1 + n > Len(options)

Inked(bytes) == {i \in DOMAIN bytes : bytes[i] # Blank}

\* strings.TrimSpace.
TrimSpace(bytes) ==
  IF Inked(bytes) = {} THEN Empty
  ELSE LET first == CHOOSE i \in Inked(bytes) : \A j \in Inked(bytes) : i <= j
           last  == CHOOSE i \in Inked(bytes) : \A j \in Inked(bytes) : j <= i
       IN  SubSeq(bytes, first, last)

\* Mutant: the first name given is kept.
NotedOnce(m, code, value) ==
  CASE code = HostName /\ m.hostname = Empty -> [m EXCEPT !.hostname = TrimSpace(value)]
    [] code = RequestedIP /\ Len(value) = IPv4Len -> [m EXCEPT !.requestedIP = value]
    [] code = MessageType /\ Len(value) = 1       -> [m EXCEPT !.type = value[1]]
    [] code = ServerIP /\ Len(value) = IPv4Len    -> [m EXCEPT !.serverIP = value]
    [] OTHER                                      -> m

\* An option of another length, or another option, is passed over.
Noted(m, code, value) ==
  CASE code = HostName                            -> [m EXCEPT !.hostname = TrimSpace(value)]
    [] code = RequestedIP /\ Len(value) = IPv4Len -> [m EXCEPT !.requestedIP = value]
    [] code = MessageType /\ Len(value) = 1       -> [m EXCEPT !.type = value[1]]
    [] code = ServerIP /\ Len(value) = IPv4Len    -> [m EXCEPT !.serverIP = value]
    [] OTHER                                      -> m

Finish(result) ==
  /\ parsed' = result
  /\ UNCHANGED <<header, options, offset, message>>

RefuseHeader ==
  /\ ~header
  /\ Finish("malformed")

\* The loop is over and no end option has been seen.
NoEnd ==
  /\ header /\ offset > Len(options)
  /\ Finish("malformed")

SkipPad ==
  /\ header /\ offset <= Len(options)
  /\ NextCode = Pad
  /\ offset' = offset + 1
  /\ UNCHANGED <<header, options, message, parsed>>

ReachEnd ==
  /\ header /\ offset <= Len(options)
  /\ NextCode = End
  /\ Finish(IF message.type = 0 THEN "malformed" ELSE "message")

AtOption ==
  /\ header /\ offset <= Len(options)
  /\ NextCode \notin {Pad, End}

\* Neither the length nor the value may lie beyond the payload.
RefuseOption ==
  /\ AtOption
  /\ \/ offset = Len(options)
     \/ offset < Len(options) /\ BeyondPayload(options[offset + 1])
  /\ Finish("malformed")

ReadOption ==
  /\ AtOption
  /\ offset < Len(options)
  /\ LET n == options[offset + 1] IN
       /\ ~BeyondPayload(n)
       /\ message' = Noted(message, NextCode, SubSeq(options, offset + 2, offset + 1 + n))
       /\ offset' = offset + 2 + n
  /\ UNCHANGED <<header, options, parsed>>

ParserNext ==
  /\ parsed = Parsing
  /\ \/ RefuseHeader
     \/ NoEnd
     \/ SkipPad
     \/ ReachEnd
     \/ RefuseOption
     \/ ReadOption

ParserSpec == ParserInit /\ [][ParserNext]_parser
-----------------------------------------------------------------------------
(***************************************************************************)
(* What the options say, without a loop.                                   *)
(***************************************************************************)

Complete(o, i) == i < Len(o) /\ i + 1 + o[i + 1] <= Len(o)

\* Where the code after the one at i is, if there is one.
Following(o, i) ==
  IF o[i] = Pad THEN {i + 1}
  ELSE IF o[i] # End /\ Complete(o, i) THEN {i + 2 + o[i + 1]}
  ELSE {}

\* The places where codes are: the first, and whatever follows one of them.
Codes(o) ==
  LET reached[i \in DOMAIN o] ==
        i = 1 \/ \E j \in 1 .. i - 1 : i \in Following(o, j) /\ reached[j]
  IN  {i \in DOMAIN o : reached[i]}

Value(o, i) == SubSeq(o, i + 2, i + 1 + o[i + 1])

\* The last value given for a code, among those of the required length.
LastValue(o, code, lengths) ==
  LET given == {i \in Codes(o) :
                  o[i] = code /\ Complete(o, i) /\ o[i + 1] \in lengths}
  IN  IF given = {} THEN Empty
      ELSE Value(o, CHOOSE i \in given : \A j \in given : j <= i)

WellFormed(o) ==
  /\ \E i \in Codes(o) : o[i] = End
  /\ LastValue(o, MessageType, {1}) \notin {Empty, <<0>>}

\* A message is accepted when its options can be followed up to an end option
\* and one of them says its type; the last option of each kind holds, unless it
\* has the wrong length.  (parsePayload)
ParsedAsGiven ==
  parsed \notin {Idle, Parsing} =>
    /\ parsed = "message" <=> header /\ WellFormed(options)
    /\ parsed = "message" =>
         /\ message.type = LastValue(options, MessageType, {1})[1]
         /\ message.hostname = TrimSpace(LastValue(options, HostName, Byte))
         /\ message.requestedIP = LastValue(options, RequestedIP, {IPv4Len})
         /\ message.serverIP = LastValue(options, ServerIP, {IPv4Len})

\* Whatever the bytes say, the parser reads none beyond the payload; what it
\* keeps is bytes of the payload.  (parsePayload)
StaysInPayload ==
  /\ offset \in 1 .. Len(options) + 1
  /\ message \in Message
  /\ parsed \in {Idle, Parsing, "malformed", "message"}
=============================================================================
