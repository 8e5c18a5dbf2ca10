-------------------------- MODULE MCSocketFilter --------------------------
(***************************************************************************)
(* Frames for the socket filters: every combination of the fields around   *)
(* the values the programs test, with and without VLAN tags and IP         *)
(* options, whole and cut off before and after each field.  Payloads for   *)
(* the option parser: up to four pieces of options in any order, some of   *)
(* them cut short or of a wrong length, so that one piece may swallow the  *)
(* next.                                                                   *)
(***************************************************************************)
EXTENDS DhcpInput, SequencesExt

NoneOneOrTwoTags == {<<>>, <<33024>>, <<34984, 33024>>}

Pieces ==
  {<<Pad>>, <<End>>, <<77, 4, 1>>,
   <<MessageType, 1, 1>>, <<MessageType, 1, 0>>, <<MessageType, 0>>,
   <<HostName, 1, 97>>, <<HostName, 3, 32, 98, 32>>, <<HostName, 0>>, <<HostName>>,
   <<RequestedIP, 2, 10, 1>>, <<RequestedIP, 1, 9>>, <<ServerIP, 2, 10, 2>>}

SomePayloads ==
  UNION {{FlattenSeq(pieces) : pieces \in [1 .. n -> Pieces]} : n \in 0 .. 4}
=============================================================================
