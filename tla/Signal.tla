-------------------------------- MODULE Signal --------------------------------
(***************************************************************************)
(* What a user of AudioBufferC hears: an audio buffer is a signal of       *)
(* len samples on some channels, and every method does to that signal what *)
(* its name says.  There is no flag, no spare row and no storage here: a   *)
(* silent buffer is one whose samples are zero.                            *)
(***************************************************************************)
EXTENDS Integers, FiniteSetsExt

CONSTANTS Buffers, MaxChannels, Shapes, Levels, Recordings, Sines, Gains, NULL

VARIABLE sig   \* sig[b]: the signal of b, NULL while b does not exist

Channels(x) == DOMAIN x.rows
Width(x) == Cardinality(Channels(x))
Positions(x) == 0 .. (x.len - 1)

\* n channels of s samples, taken from rows.
Signal(n, s, rows) == [len |-> s, rows |-> [c \in 0 .. (n - 1) |-> [i \in 0 .. (s - 1) |-> rows[c][i]]]]
Silence(n, s) == [len |-> s, rows |-> [c \in 0 .. (n - 1) |-> [i \in 0 .. (s - 1) |-> 0]]]

IsQuiet(x) == x = Silence(Width(x), x.len)

\* A mono signal is the same on every channel.
At(x, c, i) == x.rows[IF c \in Channels(x) THEN c ELSE 0][i]

\* The first k samples of y added to x, on as many channels as the wider has.
Added(x, y, k) ==
  [x EXCEPT !.rows = [c \in Channels(x) \cup Channels(y) |-> [i \in Positions(x) |->
     At(x, c, i) + IF i < k THEN At(y, c, i) ELSE 0]]]

\* Every channel set to v on the positions of span.
Painted(x, span, v) ==
  [x EXCEPT !.rows = [c \in Channels(x) |-> [i \in Positions(x) |->
     IF i \in span THEN v ELSE x.rows[c][i]]]]

\* n channels, the new ones silent.
Widened(x, n) ==
  [x EXCEPT !.rows = [c \in 0 .. (n - 1) |-> [i \in Positions(x) |->
     IF c \in Channels(x) THEN x.rows[c][i] ELSE 0]]]

Averaged(x) ==
  [x EXCEPT !.rows = [c \in {0} |-> [i \in Positions(x) |->
     SumFunction([d \in Channels(x) |-> x.rows[d][i]]) \div Width(x)]]]

Become(b, x) == sig' = [sig EXCEPT ![b] = x]
Exists == {b \in Buffers : sig[b] # NULL}

-----------------------------------------------------------------------------
Make(b, n, s) == sig[b] = NULL /\ Become(b, Silence(n, s))
MakeCopy(b, r) == sig[b] = NULL /\ Become(b, sig[r])
Discard(b) == Become(b, NULL)
Assign(b, r) == Become(b, sig[r])
Clear(b) == Become(b, Silence(Width(sig[b]), sig[b].len))

\* Only a quiet signal takes up the other one.
Mix(b, r) == /\ IsQuiet(sig[b])
             /\ Become(b, sig[r])

\* Asked for another shape a buffer comes back silent.
Resize(b, n, s) == /\ <<n, s>> # <<Width(sig[b]), sig[b].len>>
                   /\ Become(b, Silence(n, s))

\* As much of the source as there are samples in the target.
Replace(b, r) == /\ sig[r].len >= sig[b].len
                 /\ Become(b, Signal(Width(sig[r]), sig[b].len, sig[r].rows))

\* Adding a quiet signal may also leave everything in place, the width included:
\* that is a stuttering step.
Sum(b, r, k) == /\ k <= sig[r].len /\ k <= sig[b].len
                /\ Width(sig[b]) > 0 /\ Width(sig[r]) > 0
                /\ Become(b, Added(sig[b], sig[r], k))

Paint(b, lo, hi, v) == Become(b, Painted(sig[b], lo .. hi, v))
Rerecord(b, rec) == Become(b, Signal(Width(sig[b]), sig[b].len, rec))
Load(b, n, s, rec) == Become(b, Signal(n, s, rec))

AddSine(b, wave) ==
  Become(b, [sig[b] EXCEPT !.rows = [c \in Channels(sig[b]) |-> [i \in Positions(sig[b]) |->
                                       sig[b].rows[c][i] + wave[i]]]])
Amplify(b, gain) ==
  Become(b, [sig[b] EXCEPT !.rows = [c \in Channels(sig[b]) |-> [i \in Positions(sig[b]) |->
                                       sig[b].rows[c][i] * gain]]])

SetWidth(b, n) == Become(b, Widened(sig[b], n))
ToMono(b) == /\ Width(sig[b]) > 1
             /\ Become(b, Averaged(sig[b]))

-----------------------------------------------------------------------------
Init == sig = [b \in Buffers |-> NULL]

Next ==
  \/ \E b \in Buffers :
       \/ Make(b, 0, 0)
       \/ \E shape \in Shapes : Make(b, shape[1], shape[2])
       \/ \E r \in Exists : MakeCopy(b, r)
  \/ \E b \in Exists :
       \/ Discard(b) \/ Clear(b) \/ ToMono(b)
       \/ \E shape \in Shapes : Resize(b, shape[1], shape[2])
       \/ \E n \in 0 .. MaxChannels : SetWidth(b, n)
       \/ \E lo, hi \in Positions(sig[b]), v \in Levels \cup {0} : Paint(b, lo, hi, v)
       \/ \E rec \in Recordings : Rerecord(b, rec)
       \/ \E wave \in Sines : AddSine(b, wave)
       \/ \E gain \in Gains : Amplify(b, gain)
       \/ \E shape \in Shapes, rec \in Recordings : Load(b, shape[1], shape[2], rec)
       \/ \E r \in Exists :
            \/ Assign(b, r) \/ Mix(b, r) \/ Replace(b, r)
            \/ \E k \in 0 .. sig[b].len : Sum(b, r, k)

Spec == Init /\ [][Next]_sig
=============================================================================
