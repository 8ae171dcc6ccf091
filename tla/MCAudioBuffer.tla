---------------------------- MODULE MCAudioBuffer ----------------------------
(***************************************************************************)
(* AudioBuffer on small instances, with its properties.                    *)
(***************************************************************************)
EXTENDS AudioBuffer, TLC

CONSTANTS LongestRow

\* The shapes of a run: every number of channels with rows of one sample; two
\* samples on one channel as well.
AnyWidth == (0 .. MaxChannels) \X {1}
AnyLength == AnyWidth \cup {<<1, 2>>}

\* Recordings with a distinct value on every channel, so that no other
\* operation produces them by accident.
Stereo == {[c \in Upto(MaxChannels) |-> [i \in Upto(LongestRow) |-> 1 - 2 * c]]}

\* For the runs about geometry every sample is 0 or unwritten.
Hush == {[c \in Upto(MaxChannels) |-> [i \in Upto(LongestRow) |-> 0]]}
Flat == {[i \in Upto(LongestRow) |-> 0]}

\* sin(0) = 0: the first sample gets nothing.
Wave == {[i \in Upto(LongestRow) |-> IF i = 0 THEN 0 ELSE 1]}

Inverting == {-1}

\* The objects are interchangeable.
Swaps == Permutations(Buffers)

\* Memory that never looks like a buffer, and memory that may.
ForeignGarbage == {[channels |-> 77, usedChannels |-> 77, size |-> 77, usedSize |-> 77,
                    isSilent |-> quiet, data |-> <<>>, allocated |-> FALSE] : quiet \in BOOLEAN}
AnyGarbage == {[channels |-> n, usedChannels |-> n, size |-> s, usedSize |-> s,
                isSilent |-> FALSE, data |-> <<>>, allocated |-> FALSE] :
                 n \in 0 .. MaxChannels, s \in {shape[2] : shape \in Geometries}}

=============================================================================
