------------------------------ MODULE MCConnection ----------------------------
(***************************************************************************)
(* A connection that has started, for TLC: the requests that share it      *)
(* (Conn), and everything between a Go value and the bytes on its socket:  *)
(* the values of columns (Codec), the names of types (Types), requests and *)
(* responses (Frames) and the segments around them (Segments).  A          *)
(* behaviour is one of one of these parts; the others rest.                *)
(***************************************************************************)
EXTENDS Conn, MCFrames, Segments

CONSTANT Cases

VARIABLES part,      \* "requests", "values", "types", "frames" or "segments"
          ty, val, dst, step, data, res

valueVars == <<ty, val, dst, step, data, res>>
wireVars == <<typesVars, framesVars, valueVars, segmentVars>>

C == INSTANCE Codec
Data == INSTANCE CodecCases

MCCases == Data!AllCases

\* With its header, a body is in one segment, fills one or two, or takes two or three; the
\* last two are compressible.
Distinct(n) == [i \in 1..n |-> i % 256]
Same(n) == [i \in 1..n |-> 7]
MCBodies == {<<>>, Distinct(22), Distinct(23), Same(53), Same(54)}

-------------------------------------------------------------------------------
\* A part that rests has one initial state; Frames uses the default types.
ConnectionInit ==
  /\ part \in {"requests", "values", "types", "frames", "segments"}
  /\ Init
  /\ TypesInit /\ (part # "types" => byType = DefaultByType)
  /\ FramesInit /\ (part # "frames" => conn = [proto |-> 4, compressor |-> FALSE])
  /\ IF part = "values" THEN C!CodecInit
     ELSE /\ ty = Nothing /\ val = Nothing /\ dst = Nothing /\ step = "rests"
          /\ data = Nothing /\ res = Nothing
  /\ SegmentsInit /\ (part # "segments" => ~compressed)

ConnectionNext ==
  \/ part = "requests" /\ Next /\ UNCHANGED <<part, wireVars>>
  \/ part = "values" /\ C!CodecNext /\ UNCHANGED <<part, vars, typesVars, framesVars, segmentVars>>
  \/ part = "types" /\ TypesNext /\ UNCHANGED <<part, vars, framesVars, valueVars, segmentVars>>
  \/ part = "frames" /\ FramesNext /\ UNCHANGED <<part, vars, typesVars, valueVars, segmentVars>>
  \/ part = "segments" /\ SegmentsNext /\ UNCHANGED <<part, vars, typesVars, framesVars, valueVars>>

\* The fairness of Conn's FairSpec; the other parts are only held to invariants.
ConnectionSpec ==
  /\ ConnectionInit /\ [][ConnectionNext]_<<part, vars, wireVars>>
  /\ \A k \in Calls : WF_vars(part = "requests" /\ Runs(k))
  /\ WF_vars(part = "requests" /\ ReaderRuns)
  /\ WF_vars(part = "requests" /\ closeWithError)

-------------------------------------------------------------------------------
\* What Scan stores is the value that was bound (Codec; Marshal and Unmarshal).
RoundTrip == C!RoundTrip

\* Marshal and Unmarshal fail only on what a column or a destination cannot hold (Codec).
NoNeedlessError == C!NoNeedlessError

===============================================================================
