------------------------- MODULE MCReliableOutbox -------------------------
(* Small instances of ReliableOutbox for TLC.                              *)
EXTENDS ReliableOutbox

CONSTANTS a, b, x, y

\* Content y is twice as long as x, so that the byte limit can bind first.
MCByteLength == [c \in Content |-> IF c = y THEN 2 ELSE 1]
MCAckOnly == {Acknowledged}
MCLegacyOnly == {LegacyWriteConfirmed}
MCBothModes == {Acknowledged, LegacyWriteConfirmed}
===========================================================================
