--------------------------- MODULE MCPackets2Data ---------------------------
(* Small instances of Packets2Data.                                        *)
EXTENDS Packets2Data

\* Two payload sizes and one sample number: the ring wraps and packets queue up
\* behind each other.
RingPackets == [nr : {1}, dis : {FALSE}, size : {4, 6}]

\* Different sample numbers, packets without synchronisation, packets without a
\* size in their header.
TimingPackets == [nr : {1, 2}, dis : {FALSE}, size : {4}]
                 \cup [nr : {0}, dis : {TRUE}, size : {0}]
=============================================================================
