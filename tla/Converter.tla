------------------------------- MODULE Converter -------------------------------
(***************************************************************************)
(* The program of src/samples/af_converter.cpp: one load and one write     *)
(* through a manager of its own, with the format of the output taken from  *)
(* the extension of its path.                                              *)
(***************************************************************************)
EXTENDS AudioFormatsManager

VARIABLES
  source, target,  \* argv[1], argv[2]
  step,            \* "begin", "loading", "writing", "ended"
  status,          \* what main returns, NULL before
  original         \* the file that was at source (not part of the program)

ASSUME ConverterAssumption == NULL \notin Int  \* no status

all == <<vars, prudent, source, target, step, status, original>>

OutFormat(path) == Extension[path]

ConverterInit ==
  /\ \E library \in Libraries : InitiallyOf(library)
  /\ prudent = TRUE
  /\ source \in Paths /\ target \in Paths
  /\ step = "begin"
  /\ status = NULL
  /\ original = disk[source]

End(result) == /\ step' = "ended"
               /\ status' = result
               /\ UNCHANGED <<vars, source, target, original>>

InvalidFormat == /\ step = "begin"
                 /\ OutFormat(target) = "UNKNOWN"
                 /\ End(1)

Read == /\ step = "begin"
        /\ OutFormat(target) # "UNKNOWN"
        /\ loadFile(source)
        /\ step' = "loading"
        /\ UNCHANGED <<source, target, status, original>>

Returned == Idle /\ last # NULL

InputProblem == /\ step = "loading" /\ Returned /\ ~last.ok
                /\ End(1)

\* Variant: the format of the input.
WriteAsRead == /\ step = "loading" /\ Returned /\ last.ok
               /\ writeFile(target, Extension[source])
               /\ step' = "writing"
               /\ UNCHANGED <<source, target, status, original>>

Write == /\ step = "loading" /\ Returned /\ last.ok
         /\ writeFile(target, OutFormat(target))
         /\ step' = "writing"
         /\ UNCHANGED <<source, target, status, original>>

\* Variant: a failure is not looked at.
OutputProblemIgnored == /\ step = "writing" /\ Returned /\ ~last.ok
                        /\ End(0)

OutputProblem == /\ step = "writing" /\ Returned /\ ~last.ok
                 /\ End(1)

Done == /\ step = "writing" /\ Returned /\ last.ok
        /\ End(0)

\* exit(1) in the codec.
ExitInCodec == /\ step # "ended" /\ fault = "exit"
               /\ End(1)

InCodec == /\ Codecs
           /\ UNCHANGED <<source, target, step, status, original>>

ConverterNext ==
  /\ \/ InvalidFormat \/ Read \/ InputProblem \/ Write \/ OutputProblem \/ Done
     \/ ExitInCodec \/ InCodec
  /\ UNCHANGED prudent

\* One process that is given the processor.
ConverterSpec == ConverterInit /\ [][ConverterNext]_all /\ WF_all(ConverterNext)

-----------------------------------------------------------------------------
\* Where the samples of a position are in a file that was read: the decoder hands
\* over all channels, libsndfile's loop takes one or two at a time.
Stride(f) == IF f.type = "OGG" THEN f.channels ELSE PerPosition(f.channels)

\* The file that a conversion of f to a path gives.  Of a mono or stereo file it has
\* every sample; files of more channels have no branch of their own, and libsndfile's
\* loops move two samples for each of their frames.
Reencoded(f, path) ==
  LET k == PerPosition(f.channels)
  IN  [type |-> OutFormat(path), channels |-> f.channels,
       rate |-> IF f.type = "OGG" THEN OggRate ELSE f.rate,
       items |-> [j \in 1 .. (k * FramesOf(f)) |->
                    Encoded(Sample(f, f.items[Stride(f) * ((j - 1) \div k) + ((j - 1) % k) + 1]))],
       whole |-> TRUE]

Whole(f) == IF f = NULL \/ f.whole THEN f ELSE Undef

Loaded == step = "writing" \/ (step = "loading" /\ Returned /\ last.ok)
Written == step = "writing" /\ Returned /\ last.ok

Phase ==
  CASE status = 0 -> "succeeded"
    [] status = 1 -> "failed"
    [] status = NULL /\ Written -> "delivered"
    [] status = NULL /\ Loaded /\ ~Written -> "taken"
    [] OTHER -> "begun"

Ideal == INSTANCE Conversion WITH
  Spoilt <- Undef, Nothing <- NULL, Converted <- Reencoded,
  files <- [p \in Paths |-> Whole(disk[p])],
  taken <- IF Phase \in {"taken", "delivered"} THEN original ELSE NULL,
  phase <- Phase

\* Whatever fails on the way, no file but the target changes, and main returns 0 only
\* when the target is the reencoded source: all of it, for a mono or stereo source; for
\* one of more channels that libsndfile lets pass, two samples of every frame.
ImplementsConversion == Ideal!Spec
=============================================================================
