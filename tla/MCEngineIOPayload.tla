-------------------------- MODULE MCEngineIOPayload --------------------------
(***************************************************************************)
(* Packets for the run of EngineIOPayload: texts that look like headers,   *)
(* texts with characters of one to four bytes, binary data with digits and *)
(* separators, and lengths of two digits.                                  *)
(***************************************************************************)
EXTENDS EngineIOPayload

Chars(n) == [i \in 1 .. n |-> 97]

\* The first and the last code points of each length.
Boundaries == <<127, 128, 2047, 2048, 55295, 57344, 65535, 65536, 1114111>>

Texts == {<<>>, <<97>>, <<49, 58, 52>>, Chars(8), Chars(9), Chars(12),
          <<233>>, <<255, 8364, 49>>, <<233, 233, 233, 233, 233>>, Boundaries}
Blobs == {<<>>, <<255>>, <<1, 2, 255, 4>>, Chars(9), [i \in 1 .. 10 |-> i - 1]}

TextPackets(types) ==
  {[type |-> t, binary |-> FALSE, data |-> d] : t \in types, d \in Texts}

BinaryPackets ==
  {[type |-> MESSAGE, binary |-> TRUE, data |-> d] : d \in Blobs}

Empty(type) == [type |-> type, binary |-> FALSE, data |-> <<>>]

FromClient == TextPackets({PING, MESSAGE}) \cup BinaryPackets \cup {Empty(CLOSE)}
FromServer == TextPackets({0, 3, MESSAGE}) \cup BinaryPackets \cup {Empty(NOOP)}
=============================================================================
