----------------------------- MODULE FrameChannel -----------------------------
(***************************************************************************)
(* What framed stdio promises (transport.hpp): a one-way channel of whole  *)
(* frames.  The reader gets the frames the writer sent, in order and       *)
(* unchanged, until it is told how the stream ended.  An end between       *)
(* frames loses no frame whose write_frame succeeded.                      *)
(***************************************************************************)
EXTENDS Naturals, Sequences

CONSTANTS Payload, \* the payloads a frame may have
          Nothing

VARIABLES
  offered,  \* the frames handed to write_frame
  done,     \* how many of them write_frame has reported written
  frames,   \* the frames the reader has got
  end       \* how the stream ended for the reader, or Nothing

vars == <<offered, done, frames, end>>

Ends == {"clean", "cut", "bad_length", "failed"}

Init == offered = <<>> /\ done = 0 /\ frames = <<>> /\ end = Nothing

Offer ==
  /\ \E p \in Payload : offered' = Append(offered, p)
  /\ UNCHANGED <<done, frames, end>>

(* Nothing is written after a frame that failed. *)
Complete ==
  /\ done + 1 = Len(offered) /\ done' = done + 1
  /\ UNCHANGED <<offered, frames, end>>

Deliver ==
  /\ end = Nothing /\ Len(frames) < Len(offered)
  /\ frames' = Append(frames, offered[Len(frames) + 1])
  /\ UNCHANGED <<offered, done, end>>

Finish ==
  /\ end = Nothing /\ end' \in Ends
  /\ end' = "clean" => Len(frames) >= done
  /\ UNCHANGED <<offered, done, frames>>

Next == Offer \/ Complete \/ Deliver \/ Finish

Spec == Init /\ [][Next]_vars
=============================================================================
