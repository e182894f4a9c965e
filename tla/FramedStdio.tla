----------------------------- MODULE FramedStdio -----------------------------
(***************************************************************************)
(* write_frame, read_frame and read_exact (transport.cpp), byte by byte:   *)
(* a writer with a buffered ostream, a pipe that takes what it has room    *)
(* for, and a reader.  Either process may end at any moment; a frame may   *)
(* also come from a client that announces a length of its own.             *)
(***************************************************************************)
EXTENDS Integers, SequencesExt

CONSTANTS
  Base,      \* values a byte has: 256
  max_len,   \* the frame cap (kMaxFrameBytes), inclusive
  Payloads,  \* what the writer is given to send, in any length
  Announced, \* the lengths that a foreign client announces
  Nothing,
  PipeCap,   \* bound: bytes in the pipe
  MaxFrames  \* bound: frames offered

ASSUME BytesAssumption ==
  /\ Base \in Nat \ {0, 1} /\ max_len \in Nat /\ PipeCap \in Nat \ {0} /\ MaxFrames \in Nat
  /\ max_len < Base * Base * Base * Base
  /\ Payloads \subseteq Seq(0..(Base - 1)) /\ Announced \subseteq 0..(Base * Base * Base * Base - 1)
  /\ Nothing \notin Announced /\ Nothing \notin {"clean", "cut", "bad_length"}

Byte == 0..(Base - 1)

(* encode_u32_le and decode_u32_le. *)
encode_u32_le(n) ==
  <<n % Base, (n \div Base) % Base,
    (n \div (Base * Base)) % Base, (n \div (Base * Base * Base)) % Base>>
decode_u32_le(b) == b[1] + Base * (b[2] + Base * (b[3] + Base * b[4]))

Encoded(p) == encode_u32_le(Len(p)) \o p

VARIABLES
  offered,  \* frames whose length write_frame has accepted
  done,     \* frames it has reported written
  wpc,      \* where write_frame is
  good,     \* output.good()
  obuf,     \* the ostream's buffer
  pipe,     \* bytes in the pipe
  wire,     \* every byte that ever entered it
  closed,   \* the writing end is closed
  foreign,  \* the length a foreign client announced, or Nothing
  reading,  \* the reading end is open
  rpc,      \* where read_frame is
  got,      \* bytes of the frame being read: of the header, then of the payload
  size,     \* the decoded length; out is allocated to it
  frames,   \* frames read_frame has returned
  end,      \* why it returned false, or Nothing
  failed    \* it was a read that failed, not the end of the input

writer == <<offered, done, wpc, good>>
stream == <<obuf, pipe, wire, closed, foreign>>
reader == <<reading, rpc, got, size, frames, end, failed>>
vars == <<writer, stream, reader>>

Ends == {"clean", "cut", "bad_length"}

TypeOK ==
  /\ offered \in Seq(Payloads) /\ Len(offered) <= MaxFrames
  /\ done \in 0..Len(offered)
  /\ wpc \in {"ready", "header", "payload", "flush", "failed"}
  /\ good \in BOOLEAN
  /\ {obuf, pipe, wire, got} \subseteq Seq(Byte) /\ Len(pipe) <= PipeCap
  /\ closed \in BOOLEAN /\ foreign \in Announced \cup {Nothing}
  /\ reading \in BOOLEAN /\ rpc \in {"first", "header", "payload"}
  /\ size \in 0..max_len /\ Len(got) <= Max({4, size})
  /\ frames \in Seq(Seq(Byte)) /\ end \in Ends \cup {Nothing}
  /\ failed \in BOOLEAN

Init ==
  /\ offered = <<>> /\ done = 0 /\ wpc = "ready" /\ good = TRUE
  /\ obuf = <<>> /\ pipe = <<>> /\ wire = <<>> /\ closed = FALSE /\ foreign = Nothing
  /\ reading = TRUE /\ rpc = "first" /\ got = <<>> /\ size = 0
  /\ frames = <<>> /\ end = Nothing /\ failed = FALSE

-----------------------------------------------------------------------------
(* The ostream and the pipe. *)

(* Bytes leave the buffer when it overflows or is flushed; how many at once *)
(* is the system's choice.                                                  *)
Drain ==
  /\ good /\ ~closed /\ reading /\ obuf # <<>> /\ Len(pipe) < PipeCap
  /\ pipe' = Append(pipe, Head(obuf)) /\ wire' = Append(wire, Head(obuf))
  /\ obuf' = Tail(obuf)
  /\ UNCHANGED <<closed, foreign, writer, reader>>

(* Nobody reads any more: the bytes cannot leave and badbit is set. *)
DrainFails ==
  /\ good /\ ~closed /\ ~reading /\ obuf # <<>>
  /\ good' = FALSE
  /\ UNCHANGED <<offered, done, wpc, stream, reader>>

(* The writing process closes its end or dies, with what its buffer held. *)
Close ==
  /\ ~closed /\ closed' = TRUE /\ obuf' = <<>>
  /\ UNCHANGED <<pipe, wire, foreign, writer, reader>>

(* A client not built on write_frame announces a length and dies. *)
Announce(n) ==
  /\ ~closed /\ foreign = Nothing /\ wpc = "ready" /\ obuf = <<>>
  /\ foreign' = n /\ obuf' = encode_u32_le(n) /\ wpc' = "failed"
  /\ UNCHANGED <<offered, done, good, pipe, wire, closed, reader>>

HangUp ==
  /\ reading /\ reading' = FALSE
  /\ UNCHANGED <<writer, stream, rpc, got, size, frames, end, failed>>

-----------------------------------------------------------------------------
(* write_frame: the checks, then three stream operations, each of which may *)
(* find the stream bad.                                                     *)
Accepts(n) == n # 0 /\ n <= max_len

CheckLength(p) ==
  /\ wpc = "ready" /\ ~closed /\ Len(offered) < MaxFrames
  /\ IF Accepts(Len(p)) THEN offered' = Append(offered, p) /\ wpc' = "header"
     ELSE UNCHANGED <<offered, wpc>>
  /\ UNCHANGED <<done, good, stream, reader>>

Put(bytes, next) ==
  /\ ~closed
  /\ \/ good /\ obuf' = obuf \o bytes /\ wpc' = next
     \/ ~good /\ UNCHANGED obuf /\ wpc' = "failed"
  /\ UNCHANGED <<offered, done, good, pipe, wire, closed, foreign, reader>>

WriteHeader == wpc = "header" /\ Put(encode_u32_le(Len(Last(offered))), "payload")
WritePayload == wpc = "payload" /\ Put(Last(offered), "flush")

FlushForgotten ==  \* a slip
  /\ wpc = "flush" /\ ~closed /\ wpc' = "ready" /\ done' = done + 1
  /\ UNCHANGED <<offered, good, stream, reader>>

(* flush() returns when the buffer is empty or the stream is bad. *)
Flush ==
  /\ wpc = "flush" /\ ~closed
  /\ \/ good /\ obuf = <<>> /\ wpc' = "ready" /\ done' = done + 1
     \/ ~good /\ wpc' = "failed" /\ UNCHANGED done
  /\ UNCHANGED <<offered, good, stream, reader>>

-----------------------------------------------------------------------------
(* read_frame.  istream::read blocks until it has all it was asked for or   *)
(* the stream ends, so that it is a step per byte, then a decision.         *)
Wanted == CASE rpc = "first" -> 1 [] rpc = "header" -> 4 [] OTHER -> size

ReadByte ==
  /\ reading /\ end = Nothing /\ Len(got) < Wanted /\ pipe # <<>>
  /\ got' = Append(got, Head(pipe)) /\ pipe' = Tail(pipe)
  /\ UNCHANGED <<writer, obuf, wire, closed, foreign, reading, rpc, size, frames, end, failed>>

FirstByteRead ==
  /\ reading /\ rpc = "first" /\ Len(got) = 1 /\ rpc' = "header"
  /\ UNCHANGED <<writer, stream, reading, got, size, frames, end, failed>>

TooLongOffByOne(n) == n >= max_len  \* a slip
TooLong(n) == n > max_len

HeaderRead ==
  LET n == decode_u32_le(got) IN
  /\ reading /\ rpc = "header" /\ Len(got) = 4 /\ end = Nothing
  /\ \/ /\ n = 0 \/ TooLong(n)
        /\ end' = "bad_length" /\ UNCHANGED <<rpc, got, size>>
     \/ /\ n # 0 /\ ~TooLong(n)
        /\ rpc' = "payload" /\ size' = n /\ got' = <<>> /\ UNCHANGED end
  /\ UNCHANGED <<writer, stream, reading, frames, failed>>

PayloadRead ==
  /\ reading /\ rpc = "payload" /\ Len(got) = size
  /\ frames' = Append(frames, got) /\ rpc' = "first" /\ got' = <<>> /\ size' = 0
  /\ UNCHANGED <<writer, stream, reading, end, failed>>

(* The end of the input: clean only before a frame's first byte. *)
EndInHeader(where) == IF where # "payload" THEN "clean" ELSE "cut"  \* a slip
EndOf(where) == IF where = "first" THEN "clean" ELSE "cut"

AtEnd == reading /\ end = Nothing /\ Len(got) < Wanted /\ pipe = <<>> /\ closed

ShortPayloadTaken ==  \* a slip: read_exact's result is ignored
  /\ AtEnd /\ end' = EndOf(rpc)
  /\ frames' = IF rpc = "payload" THEN Append(frames, got) ELSE frames
  /\ UNCHANGED <<writer, stream, reading, rpc, got, size, failed>>
ReadEnd ==
  /\ AtEnd /\ end' = EndOf(rpc)
  /\ UNCHANGED <<writer, stream, reading, rpc, got, size, frames, failed>>

(* A read that fails counts no bytes, as at the end of the input. *)
ReadFails ==
  /\ reading /\ end = Nothing /\ Len(got) < Wanted
  /\ end' = EndOf(rpc) /\ failed' = TRUE
  /\ UNCHANGED <<writer, stream, reading, rpc, got, size, frames>>

Writing == WriteHeader \/ WritePayload \/ Flush
Reading == ReadByte \/ FirstByteRead \/ HeaderRead \/ PayloadRead \/ ReadEnd

(* Both processes are through. *)
Stopped == closed /\ (~reading \/ end # Nothing) /\ UNCHANGED vars

Next ==
  \/ \E p \in Payloads : CheckLength(p)
  \/ \E n \in Announced : Announce(n)
  \/ Writing \/ Drain \/ DrainFails \/ Close
  \/ Reading \/ ReadFails \/ HangUp \/ Stopped

Spec == Init /\ [][Next]_vars

(* The reader goes on reading; a flush, once begun, goes on draining. *)
Fairness == WF_vars(Reading) /\ WF_vars(Writing) /\ WF_vars(Drain /\ wpc = "flush")

FairSpec == Spec /\ Fairness

-----------------------------------------------------------------------------
(* Properties *)

(* transport.hpp: frames are delivered whole, in order and unchanged, and a *)
(* clean end loses none that was reported written.  A failed read promises   *)
(* less: RunLoop's CleanExitMeansEof is about it.                            *)
Channel == INSTANCE FrameChannel WITH
  Payload <- Payloads, end <- IF failed THEN "failed" ELSE end
ImplementsChannel == Channel!Spec

(* read_frame tells an end between frames from one inside a frame: a clean  *)
(* end is one at which the bytes that ever came make up whole frames.       *)
Framed(q, k) == FlattenSeq([i \in 1..k |-> Encoded(q[i])])
WholeFrames == \E k \in 0..Len(offered) : wire = Framed(offered, k)
EndIsClassified ==
  end \in {"clean", "cut"} /\ ~failed => (end = "clean" <=> WholeFrames)

(* Both sides have one cap: no frame that write_frame accepts is refused for *)
(* its length, and one that is refused was announced with a bad length.      *)
CapsAgree ==
  end = "bad_length" => foreign # Nothing /\ (foreign = 0 \/ foreign > max_len)

(* A frame that was reported written arrives, unless the reader stops. *)
WrittenArrives ==
  \A n \in 1..MaxFrames : done >= n ~> Len(frames) >= n \/ ~reading \/ failed
=============================================================================
