----------------------------- MODULE McpFrames -----------------------------
(***************************************************************************)
(* The pure parts of mcp/sessionbus.go that frame and name requests:       *)
(* readMCPFrame, which collects a line through a buffer that may be        *)
(* smaller than the line, called by the reader until nothing comes, and    *)
(* requestID, which turns the JSON id of a request into the key of the     *)
(* pending table through a float64.                                        *)
(***************************************************************************)
EXTENDS Integers, Sequences, SequencesExt, FiniteSetsExt

CONSTANTS
  MaxInputFrame, \* maxMCPInputFrame
  BufferSize,    \* of the bufio.Reader
  MantissaBits,  \* 53 in a float64
  Decoded,       \* Decoded[t]: what json.Unmarshal makes of the JSON string t
  MaxInput       \* bound: bytes of the input

ASSUME FramesAssumption ==
  /\ MaxInputFrame \in Nat \ {0} /\ BufferSize \in Nat \ {0}
  /\ MantissaBits \in Nat \ {0} /\ MaxInput \in Nat

VARIABLES
  stream,        \* the input
  frames, rest,  \* what the reader got, and what is left
  reading,       \* the reader's loop goes on
  ids            \* two ids of a client

framesVars == <<stream, frames, rest, reading, ids>>

-----------------------------------------------------------------------------
(* readMCPFrame *)

Newlines(bytes) == {i \in DOMAIN bytes : bytes[i] = "\n"}

\* bufio: up to the newline, or a full buffer, or what is left
ReadSlice(bytes) ==
  LET found == {i \in Newlines(bytes) : i <= BufferSize}
  IN  CASE found # {} -> [part |-> SubSeq(bytes, 1, Min(found)), err |-> "none"]
        [] found = {} /\ Len(bytes) >= BufferSize -> [part |-> SubSeq(bytes, 1, BufferSize), err |-> "full"]
        [] OTHER -> [part |-> bytes, err |-> "EOF"]

TooLarge == [frame |-> <<>>, err |-> "limit"]

\* Fault: a frame that fills the limit is refused without a look at the next byte.
AtLimitRefused(input) == TooLarge

\* reader.Peek(1) at the limit
AtLimit(input) ==
  IF Len(input) = MaxInputFrame THEN [frame |-> input, err |-> "EOF"] ELSE TooLarge

\* from[n]: the rest of the loop when the frame has n bytes
readMCPFrame(input) ==
  LET slice(n) == ReadSlice(SubSeq(input, n + 1, Len(input)))
      next(n) == n + Len(slice(n).part)
      from[n \in 0..Len(input)] ==
        IF n = MaxInputFrame THEN AtLimit(input)
        ELSE IF next(n) > MaxInputFrame THEN TooLarge
        ELSE IF slice(n).err = "full" THEN from[next(n)]
        ELSE [frame |-> SubSeq(input, 1, next(n)), err |-> slice(n).err]
  IN  from[0]

\* The loop of serveSessionbus: an empty frame, of the end or of an error, ends it.
ReadFrame ==
  /\ reading
  /\ LET line == readMCPFrame(rest).frame
     IN  /\ reading' = (line # <<>>)
         /\ frames' = IF line = <<>> THEN frames ELSE Append(frames, line)
         /\ rest' = SubSeq(rest, Len(line) + 1, Len(rest))
  /\ UNCHANGED <<stream, ids>>

-----------------------------------------------------------------------------
(* requestID.  A number is given by its sign and the double of its amount, *)
(* so that it may end in .5; a string by its JSON text.                    *)

\* 2^k
TwoTo[k \in 0..(MantissaBits + 2)] == IF k = 0 THEN 1 ELSE 2 * TwoTo[k - 1]

\* float64: the nearest multiple of the smallest spacing that leaves MantissaBits
\* digits, the even one of two; halves are exact below 2^(MantissaBits - 1)
ToFloat(double) ==
  LET unit == Min({u \in Range(TwoTo) : double < u * TwoTo[MantissaBits]})
      low == double \div unit
      twice == 2 * (double % unit)
  IN  unit * IF twice > unit \/ (twice = unit /\ low % 2 = 1) THEN low + 1 ELSE low

\* Fault: the first integer that float64 does not tell from its successor is accepted.
MaxSafePast == TwoTo[MantissaBits]

MaxSafe == TwoTo[MantissaBits] - 1

NoID == <<"none">>

\* Marshal writes the decoded text, or the float with its sign, of a zero too.
requestID(id) ==
  IF id.type = "string" THEN <<"string", Decoded[id.text]>>
  ELSE LET x == ToFloat(id.double)
       IN  IF id.type = "number" /\ x % 2 = 0 /\ x \div 2 <= MaxSafe
           THEN <<"number", id.negative, x \div 2>> ELSE NoID

Numbers == [type : {"number"}, negative : BOOLEAN, double : 0..(4 * TwoTo[MantissaBits] + 4)]
IDs == Numbers \cup [type : {"string"}, text : DOMAIN Decoded]

-----------------------------------------------------------------------------
ClientInput ==
  /\ stream \in SeqOf({"x", "\n"}, MaxInput)
  /\ frames = <<>> /\ rest = stream /\ reading = TRUE

FramesInit ==
  \/ ClientInput /\ ids = <<>>
  \/ stream = <<>> /\ ClientInput /\ ids \in IDs \X IDs

FramesSpec == FramesInit /\ [][ReadFrame]_framesVars

-----------------------------------------------------------------------------
(* Properties *)

(* The reader gets the lines of the input, unchanged, each as a frame, and *)
(* a last one without newline; it stops before the end only at a line that *)
(* is longer than the limit, wherever line, buffer and limit end.          *)
FramesExact ==
  LET Whole(f) == Newlines(f) = {Len(f)}
      first == IF Newlines(rest) = {} THEN Len(rest) ELSE Min(Newlines(rest))
  IN  /\ FlattenSeq(frames) \o rest = stream
      /\ \A i \in DOMAIN frames :
           /\ Len(frames[i]) <= MaxInputFrame
           /\ Whole(frames[i]) \/ (i = Len(frames) /\ Newlines(frames[i]) = {} /\ rest = <<>>)
      /\ ~reading => rest = <<>> \/ first > MaxInputFrame

(* No integer that a client uses as an id shares its key with another one  *)
(* or with a string, although the code reads it as a float, and two        *)
(* strings share a key only if they decode to the same text: apart from    *)
(* such strings, neither a cancellation nor a reply reaches the wrong      *)
(* request.  Every integer within the limit is an id.                      *)
KeysDistinct ==
  LET Integral(id) == id.type = "number" => id.double % 2 = 0
      Same(a, b) == a = b \/ (/\ a.type = "string" /\ b.type = "string"
                              /\ Decoded[a.text] = Decoded[b.text])
  IN  ids # <<>> /\ Integral(ids[1]) /\ Integral(ids[2]) =>
        /\ requestID(ids[1]) = requestID(ids[2]) /\ requestID(ids[1]) # NoID => Same(ids[1], ids[2])
        /\ ids[1].type = "number" /\ ids[1].double \div 2 < TwoTo[MantissaBits] => requestID(ids[1]) # NoID
=============================================================================
