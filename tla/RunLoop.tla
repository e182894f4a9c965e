------------------------------- MODULE RunLoop -------------------------------
(***************************************************************************)
(* The SDK's serving loop, run_loop (runtime.cpp), with the client at the  *)
(* other end of two bounded pipes.  The loop is one thread; what makes it  *)
(* hard is that the client writes, reads, closes its end or hangs up       *)
(* between any two of its steps, that a response passes through the        *)
(* ostream's buffer before the client can see it, and that the provider's  *)
(* callbacks run in the middle of a request.                               *)
(*                                                                         *)
(* A pipe is a history and a cursor: the client's frames are `asked`, of   *)
(* which the loop has taken the first `taken`; the responses the client    *)
(* can read are `written`, of which it has read `received`.                *)
(***************************************************************************)
EXTENDS AdppProtocol

CONSTANTS
  MaxRequests,  \* bound: frames a client sends in a session
  Window,       \* unanswered frames a client allows itself (1: lock-step)
  InCap,        \* frames the pipe to the provider holds
  OutCap,       \* responses the pipe to the client holds
  Nothing       \* no frame, no response

ASSUME BoundsAssumption ==
  /\ MaxRequests \in Nat /\ Window \in Nat \ {0}
  /\ InCap \in Nat \ {0} /\ OutCap \in Nat \ {0}
ASSUME NothingAssumption == Nothing \notin Frame \cup Response

VARIABLES
  asked,      \* frames completely written by the client
  want,       \* the frame a client blocked in write() is sending, or Nothing
  stdinOpen,  \* the client has not closed the provider's stdin
  torn,       \* the client closed it inside a frame
  readerOpen, \* the client still holds its end of the provider's stdout
  received,   \* responses the client has read
  inputFailed,\* a read of stdin failed other than by reaching its end
  pc,         \* where the loop is
  taken,      \* frames the loop has read
  hello_completed, initialized,
  response,   \* the response being written
  buffered,   \* its bytes are still in the ostream's buffer
  written,    \* responses that have reached the client's pipe
  inits,      \* initialize calls: the request that led to it and its budget
  ready,      \* requests after which on_wait_ready fired
  shutdowns,  \* on_shutdown calls
  exit        \* the code run_loop returned

clientVars == <<asked, want, stdinOpen, torn, readerOpen, received>>
hookVars == <<inits, ready>>
loopVars == <<inputFailed, pc, taken, hello_completed, initialized, response,
              buffered, written, hookVars, shutdowns, exit>>
vars == <<clientVars, loopVars>>

(* The exit codes of framed-stdio, and two that are not numbers: the loop is *)
(* still running, and an exception from the provider unwound it.             *)
ExitCodes == {"running", "0", "2", "3", "5", "exception"}

TypeOK ==
  /\ asked \in Seq(Frame)
  /\ want \in Frame \cup {Nothing}
  /\ stdinOpen \in BOOLEAN /\ torn \in BOOLEAN /\ readerOpen \in BOOLEAN
  /\ received \in Nat /\ inputFailed \in BOOLEAN
  /\ pc \in {"read", "serve", "write", "flush", "exited"}
  /\ taken \in Nat
  /\ hello_completed \in BOOLEAN /\ initialized \in BOOLEAN
  /\ response \in Response \cup {Nothing}
  /\ buffered \in BOOLEAN
  /\ written \in Seq(Response)
  /\ inits \in Seq([n : Nat, budget : Hints])
  /\ ready \in Seq(Nat)
  /\ shutdowns \in Nat
  /\ exit \in ExitCodes

Init ==
  /\ asked = <<>> /\ want = Nothing
  /\ stdinOpen = TRUE /\ torn = FALSE /\ readerOpen = TRUE
  /\ received = 0 /\ inputFailed = FALSE
  /\ pc = "read" /\ taken = 0
  /\ hello_completed = FALSE /\ initialized = FALSE
  /\ response = Nothing /\ buffered = FALSE
  /\ written = <<>>
  /\ inits = <<>> /\ ready = <<>>
  /\ shutdowns = 0 /\ exit = "running"

-----------------------------------------------------------------------------
(* The client: one thread that either writes a request, and blocks while   *)
(* the pipe is full, or reads an answer.                                   *)

BeginSend(f) ==
  /\ stdinOpen /\ want = Nothing /\ pc # "exited"
  /\ Len(asked) < MaxRequests
  /\ Len(asked) - received < Window
  /\ want' = f
  /\ UNCHANGED <<asked, stdinOpen, torn, readerOpen, received, loopVars>>

FinishSend ==
  /\ want # Nothing /\ stdinOpen /\ pc # "exited"
  /\ Len(asked) - taken < InCap
  /\ asked' = Append(asked, want)
  /\ want' = Nothing
  /\ UNCHANGED <<stdinOpen, torn, readerOpen, received, loopVars>>

Receive ==
  /\ readerOpen /\ want = Nothing
  /\ received < Len(written)
  /\ received' = received + 1
  /\ UNCHANGED <<asked, want, stdinOpen, torn, readerOpen, loopVars>>

(* It closes stdin, or dies; a frame it was writing may be cut short. *)
CloseStdin ==
  /\ stdinOpen
  /\ stdinOpen' = FALSE
  /\ torn' \in (IF want # Nothing THEN BOOLEAN ELSE {FALSE})
  /\ want' = Nothing
  /\ UNCHANGED <<asked, readerOpen, received, loopVars>>

HangUp ==
  /\ readerOpen
  /\ readerOpen' = FALSE
  /\ UNCHANGED <<asked, want, stdinOpen, torn, received, loopVars>>

Client ==
  \/ \E f \in ClientFrames : BeginSend(f)
  \/ FinishSend
  \/ Receive
  \/ CloseStdin
  \/ HangUp

-----------------------------------------------------------------------------
(* run_loop *)

(* Plausible slips of this code, each substituted for the definition it is *)
(* a version of, to see that a property notices.                           *)
LeaveLoopOnEofOnly(code) ==
  /\ pc' = "exited" /\ exit' = code
  /\ shutdowns' = IF code = "0" THEN shutdowns + 1 ELSE shutdowns
InitializeOnAnyRequest(kind) == hello_completed /\ ~initialized
InitializeBeforeHello(kind) == ~initialized /\ kind # "hello"
FallbackWithoutId(id, code, fit) ==
  [id |-> IF fit = "fits" THEN id ELSE 0,
   code |-> IF fit = "fits" THEN code ELSE "INTERNAL"]
ReadyHookOnce(kind) == kind = "wait_ready" /\ hello_completed /\ ready = <<>>
EofIsAlwaysClean == "0"
EofUnnoticed == FALSE
FlushForgotten ==
  /\ pc = "flush" /\ pc' = "read" /\ response' = Nothing
  /\ UNCHANGED <<clientVars, inputFailed, taken, hello_completed, initialized,
                 buffered, written, hookVars, shutdowns, exit>>

(* Every way out runs ShutdownGuard's destructor. *)
LeaveLoop(code) ==
  /\ pc' = "exited" /\ exit' = code
  /\ shutdowns' = shutdowns + 1

(* read_frame failed: an empty error means a clean end of input. *)
ExitAtEof == IF torn THEN "2" ELSE "0"

NothingToRead == taken = Len(asked)

AtEof == NothingToRead /\ ~stdinOpen

ReadEof ==
  /\ pc = "read" /\ AtEof
  /\ LeaveLoop(ExitAtEof)
  /\ UNCHANGED <<clientVars, inputFailed, taken, hello_completed, initialized,
                 response, buffered, written, hookVars>>

(* A failing read leaves gcount() at 0 just as the end of input does, so    *)
(* what read_frame reports depends only on whether a frame had begun.       *)
ReadFails ==
  /\ pc = "read"
  /\ inputFailed' = TRUE
  /\ \/ LeaveLoop("0")
     \/ (want # Nothing \/ torn \/ ~NothingToRead) /\ LeaveLoop("2")
  /\ UNCHANGED <<clientVars, taken, hello_completed, initialized, response,
                 buffered, written, hookVars>>

(* read_frame and ParseFromArray. *)
ReadFrame ==
  /\ pc = "read" /\ taken < Len(asked)
  /\ taken' = taken + 1
  /\ CASE asked[taken + 1].kind = "bad_length" -> LeaveLoop("2")
       [] asked[taken + 1].kind = "unparseable" -> LeaveLoop("3")
       [] OTHER -> pc' = "serve" /\ UNCHANGED <<shutdowns, exit>>
  /\ UNCHANGED <<clientVars, inputFailed, hello_completed, initialized,
                 response, buffered, written, hookVars>>

request == asked[taken]

InitializeDue(kind) == hello_completed /\ ~initialized /\ kind \notin HelloKinds

Initialize ==
  /\ pc = "serve" /\ InitializeDue(request.kind)
  /\ initialized' = TRUE
  /\ inits' = Append(inits, [n |-> taken, budget |-> InitializeBudget(request)])
  /\ UNCHANGED <<clientVars, inputFailed, pc, taken, hello_completed, response,
                 buffered, written, ready, shutdowns, exit>>

(* The codes each handler can answer with. *)
HandlerCodes(kind) ==
  CASE kind = "hello" -> {"OK"}
    [] kind = "hello_other_version" -> {"FAILED_PRECONDITION"}
    [] kind = "describe_device" -> {"OK", "INVALID_ARGUMENT", "NOT_FOUND"}
    [] kind = "read_signals" ->
         {"OK", "INVALID_ARGUMENT", "NOT_FOUND"} \cup ProviderCodes
    [] kind = "call" ->
         {"OK", "INVALID_ARGUMENT", "NOT_FOUND", "OUT_OF_RANGE",
          "DEADLINE_EXCEEDED"} \cup ProviderCodes
    [] kind = "unset" -> {"UNIMPLEMENTED"}
    [] OTHER -> {"OK"}

Served(kind) == kind \in HelloKinds \/ hello_completed

AnswerCodes(kind) ==
  IF Served(kind) THEN HandlerCodes(kind) ELSE {"FAILED_PRECONDITION"}

(* Only an answer that carries the provider's data can outgrow a frame or  *)
(* fail to serialize.                                                      *)
Fits(kind) ==
  IF Served(kind) /\ kind \notin {"hello_other_version", "unset"}
  THEN {"fits", "over_cap", "unserializable"} ELSE {"fits"}

FramedResponse(id, code, fit) ==
  [id |-> id,
   code |-> CASE fit = "fits" -> code
              [] fit = "over_cap" -> "RESOURCE_EXHAUSTED"
              [] fit = "unserializable" -> "INTERNAL"]

ReadyHookFires(kind) == kind = "wait_ready" /\ Served(kind)

(* The handler of the request, on_wait_ready, and the serialization. *)
Dispatch ==
  LET kind == request.kind IN
  /\ pc = "serve" /\ ~InitializeDue(kind)
  /\ \E code \in AnswerCodes(kind), fit \in Fits(kind) :
       /\ response' = FramedResponse(request.id, code, fit)
       /\ hello_completed' =
            (hello_completed \/ (kind \in HelloKinds /\ code = "OK"))
  /\ ready' = IF ReadyHookFires(kind) THEN Append(ready, taken) ELSE ready
  /\ pc' = "write"
  /\ UNCHANGED <<clientVars, inputFailed, taken, initialized, buffered, written,
                 inits, shutdowns, exit>>

(* The provider's code throws, in a handler or (the step after Initialize)    *)
(* in the initialize hook.  run_loop catches nothing; the guard runs as the   *)
(* exception passes to a caller that does.                                    *)
ProviderThrows ==
  LET hookRan == \E i \in 1..Len(inits) : inits[i].n = taken IN
  /\ pc = "serve" /\ ~InitializeDue(request.kind)
  /\ Served(request.kind) /\ (request.kind # "unset" \/ hookRan)
  /\ LeaveLoop("exception")
  /\ UNCHANGED <<clientVars, inputFailed, taken, hello_completed, initialized,
                 response, buffered, written, hookVars>>

RoomInStdout == Len(written) - received < OutCap

(* write_frame: the header and payload writes.  They may stop in the      *)
(* ostream's buffer; a response larger than the buffer goes straight out. *)
WriteFrame ==
  /\ pc = "write"
  /\ \/ pc' = "flush" /\ buffered' = TRUE /\ UNCHANGED <<written, shutdowns, exit>>
     \/ /\ readerOpen /\ RoomInStdout
        /\ written' = Append(written, response)
        /\ pc' = "flush"
        /\ UNCHANGED <<buffered, shutdowns, exit>>
     \/ ~readerOpen /\ LeaveLoop("5") /\ UNCHANGED <<buffered, written>>
  /\ UNCHANGED <<clientVars, inputFailed, taken, hello_completed, initialized,
                 response, hookVars>>

(* write_frame: the flush. *)
Flush ==
  /\ pc = "flush"
  /\ response' = Nothing
  /\ \/ ~buffered /\ pc' = "read" /\ UNCHANGED <<buffered, written, shutdowns, exit>>
     \/ /\ buffered /\ readerOpen /\ RoomInStdout
        /\ written' = Append(written, response)
        /\ buffered' = FALSE
        /\ pc' = "read"
        /\ UNCHANGED <<shutdowns, exit>>
     \/ buffered /\ ~readerOpen /\ LeaveLoop("5") /\ UNCHANGED <<buffered, written>>
  /\ UNCHANGED <<clientVars, inputFailed, taken, hello_completed, initialized,
                 hookVars>>

Loop == ReadFrame \/ ReadEof \/ Initialize \/ Dispatch \/ WriteFrame \/ Flush

Exited == pc = "exited" /\ UNCHANGED vars

Next == Client \/ Loop \/ ReadFails \/ ProviderThrows \/ Exited

Spec == Init /\ [][Next]_vars

(* The loop's thread runs, the provider's callbacks return, and a client     *)
(* finishes the write() it is in and reads its answers; it need not send,    *)
(* close or hang up.                                                         *)
Fairness == WF_vars(Loop) /\ WF_vars(FinishSend) /\ WF_vars(Receive)

-----------------------------------------------------------------------------
(* Properties *)

(* Every response the client can read answers the request at the same      *)
(* position of its stream and carries that request's id, the fallback for  *)
(* a response that cannot be framed included.                              *)
AnswersMatchRequests ==
  \A k \in 1..Len(written) :
    /\ k <= taken
    /\ written[k].id = asked[k].id

(* Whatever the client does, and even when the loop stops serving, at most *)
(* one request was taken and not answered, the last one; between two       *)
(* requests there is none.                                                 *)
NothingSkipped ==
  /\ Len(written) \in {taken, taken - 1}
  /\ pc = "read" => Len(written) = taken

(* A request that must wait for the provider's start-up. *)
NeedsStartup(k) ==
  asked[k].kind \in RequestKinds \ HelloKinds /\ GreetedIn(asked, k - 1)

(* runtime.hpp: initialize "runs once, after a successful Hello and before *)
(* the first request after it is handled", with that request's hint as its *)
(* budget: the request is the first that is not a Hello, however many      *)
(* rejected requests and repeated Hellos come before it.                   *)
StartupOnFirstRequest ==
  /\ Len(inits) <= 1
  /\ \A i \in 1..Len(inits) :
       /\ NeedsStartup(inits[i].n)
       /\ \A k \in 1..(inits[i].n - 1) : ~NeedsStartup(k)
       /\ inits[i].budget = InitializeBudget(asked[inits[i].n])
  /\ \A k \in 1..Len(written) : NeedsStartup(k) => inits # <<>>

(* The requests handled so far: the last one taken may be still to handle, *)
(* or have thrown.                                                         *)
Handled == IF pc \in {"write", "flush"} \/ exit = "5" THEN taken ELSE Len(written)

ServedWaits(n) ==
  {k \in 1..n : asked[k].kind = "wait_ready" /\ GreetedIn(asked, k - 1)}

(* on_wait_ready (which starts a provider's ticker) has fired for every    *)
(* WaitReady that was handled after the handshake, also when its answer    *)
(* does not fit a frame or never leaves; for nothing else; once each, in   *)
(* order; and never before the provider's start-up.                        *)
ReadyHookAfterStartup ==
  /\ {ready[i] : i \in 1..Len(ready)} = ServedWaits(Handled)
  /\ \A i \in 1..Len(ready) :
       /\ i > 1 => ready[i - 1] < ready[i]
       /\ inits # <<>> /\ inits[1].n <= ready[i]

(* The exit code tells the supervisor what happened: 0, that every frame   *)
(* was answered and stdin closed between frames; 2, a frame cut short or   *)
(* of a bad length; 3, a payload that is no request; 5, that the client    *)
(* stopped reading.  A failed read is excepted: see CleanExitMeansEof.     *)
ExitCodeExplains ==
  ~inputFailed =>
    CASE exit = "0" -> ~stdinOpen /\ ~torn /\ Len(written) = Len(asked)
      [] exit = "2" -> \/ torn /\ Len(written) = Len(asked)
                       \/ asked[taken].kind = "bad_length"
      [] exit = "3" -> asked[taken].kind = "unparseable"
      [] exit = "5" -> ~readerOpen /\ Len(written) < taken
      [] OTHER -> TRUE

(* on_shutdown fires exactly once on every way out of the loop, and        *)
(* neither a hook nor an answer follows it.                                *)
ShutdownIsLast ==
  [][ /\ (pc' = "exited") = (shutdowns' = 1)
      /\ shutdowns = 1 => UNCHANGED loopVars ]_vars

(* The loop is an ADPP session. *)
Session ==
  INSTANCE AdppSession WITH answers <- written, started <- Len(inits),
                            ended <- shutdowns

ImplementsSession == Session!Spec

(* A client that sends no more than Window frames ahead of the answers it  *)
(* has read gets every frame answered, or the loop gives up: the two never *)
(* wait on each other's full pipe.                                         *)
RequestsAnswered ==
  \A k \in 1..MaxRequests :
    Len(asked) >= k ~> (Len(written) >= k \/ pc = "exited")

(* docs/writing-a-provider.md: run_loop returns 0 "when standard input     *)
(* closes, 2 for" a read error.                                            *)
CleanExitMeansEof == exit = "0" => ~inputFailed
=============================================================================
