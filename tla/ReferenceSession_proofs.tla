----------------------- MODULE ReferenceSession_proofs -----------------------
(***************************************************************************)
(* Theorems about the serving loop, for any number of requests, any window, *)
(* any pipe capacities and any client; then about the reference provider   *)
(* behind it, for any heaters, any power scale and clock and any client    *)
(* that fills in its tags.                                                 *)
(***************************************************************************)
EXTENDS ReferenceSession, DataLemmas

(* A response to the current request is on its way. *)
Answering ==
  /\ response \in Response
  /\ response.id = request.id

(* Where the cursors stand at each location of the loop. *)
Cursors ==
  /\ taken <= Len(asked)
  /\ received <= Len(written)
  /\ pc \in {"serve", "write", "flush"} =>
       taken >= 1 /\ request.kind \in RequestKinds
  /\ pc \in {"read", "serve", "write"} => buffered = FALSE
  /\ pc = "read" => Len(written) = taken
  /\ pc \in {"serve", "write"} => Len(written) = taken - 1
  /\ pc = "write" => Answering
  /\ pc = "flush" =>
       IF buffered THEN Len(written) = taken - 1 /\ Answering
                   ELSE Len(written) = taken
  /\ pc = "exited" => Len(written) \in {taken - 1, taken}

LoopInv == TypeOK /\ Cursors /\ AnswersMatchRequests

-----------------------------------------------------------------------------
(* Lemmas on sequences and on the operators the loop is built from. *)

(* What a sequence is after one element was appended. *)
LEMMA AppendFacts ==
  ASSUME NEW S, NEW s \in Seq(S), NEW e \in S
  PROVE  /\ Append(s, e) \in Seq(S)
         /\ Len(Append(s, e)) = Len(s) + 1
         /\ Append(s, e)[Len(s) + 1] = e
         /\ \A i \in 1..Len(s) : Append(s, e)[i] = s[i]
         /\ Len(s) \in Nat
OBVIOUS

(* The request in hand is a frame of the client's. *)
LEMMA RequestType ==
  ASSUME TypeOK, taken >= 1, taken <= Len(asked)
  PROVE  /\ request \in Frame
         /\ request.id \in Ids
         /\ InitializeBudget(request) \in Hints
<1>1. request \in Frame
  BY DEF TypeOK, request
<1>. QED
  BY <1>1, HintsAssumption DEF Frame, InitializeBudget

(* Whatever the request, the loop answers with a code of the protocol. *)
LEMMA AnswerCodesType ==
  ASSUME NEW kind PROVE AnswerCodes(kind) \subseteq Codes
<1>1. HandlerCodes(kind) \subseteq Codes
  BY ProviderCodesAssumption DEF HandlerCodes, Codes
<1>. QED
  BY <1>1 DEF AnswerCodes, Codes

(* What is written is a response, and the one to this request's id, also   *)
(* when the handler's own response could not be framed.                    *)
LEMMA FramedResponseType ==
  ASSUME NEW id \in Ids, NEW code \in Codes,
         NEW fit \in {"fits", "over_cap", "unserializable"}
  PROVE  /\ FramedResponse(id, code, fit) \in Response
         /\ FramedResponse(id, code, fit).id = id
BY DEF FramedResponse, Response, Codes

(* Whatever the handler says, also when it cannot be framed, has the *)
(* request's id.                                                     *)
LEMMA DispatchResponse ==
  ASSUME TypeOK, taken >= 1, taken <= Len(asked), Dispatch
  PROVE  response' \in Response /\ response'.id = request.id
<1>1. PICK code \in AnswerCodes(request.kind), fit \in Fits(request.kind) :
        response' = FramedResponse(request.id, code, fit)
  BY DEF Dispatch
<1>2. code \in Codes
  BY AnswerCodesType
<1>3. fit \in {"fits", "over_cap", "unserializable"}
  BY DEF Fits
<1>4. request.id \in Ids
  BY RequestType
<1>. QED
  BY <1>1, <1>2, <1>3, <1>4, FramedResponseType

(* The two ways out that are not one simple assignment. *)
LEMMA ReadFailsFacts ==
  ASSUME ReadFails
  PROVE  /\ pc = "read" /\ pc' = "exited"
         /\ shutdowns' = shutdowns + 1 /\ exit' \in {"0", "2"}
         /\ inputFailed' = TRUE
         /\ UNCHANGED <<clientVars, taken, hello_completed, initialized,
                        response, buffered, written, hookVars>>
BY DEF ReadFails, LeaveLoop

(* write_frame: a response is left in the buffer, delivered, or refused. *)
LEMMA WriteFrameFacts ==
  ASSUME WriteFrame
  PROVE  /\ pc = "write"
         /\ UNCHANGED <<clientVars, inputFailed, taken, hello_completed,
                        initialized, response, hookVars>>
         /\ \/ /\ pc' = "flush" /\ buffered' = TRUE
               /\ UNCHANGED <<written, shutdowns, exit>>
            \/ /\ pc' = "flush" /\ written' = Append(written, response)
               /\ UNCHANGED <<buffered, shutdowns, exit>>
            \/ /\ pc' = "exited" /\ exit' = "5" /\ shutdowns' = shutdowns + 1
               /\ UNCHANGED <<buffered, written>>
BY Zenon DEF WriteFrame, LeaveLoop

(* A flush puts the buffered response on the pipe, or fails and leaves the *)
(* loop.                                                                   *)
LEMMA FlushFacts ==
  ASSUME Flush
  PROVE  /\ pc = "flush"
         /\ UNCHANGED <<clientVars, inputFailed, taken, hello_completed,
                        initialized, hookVars>>
         /\ response' = Nothing
         /\ \/ /\ ~buffered /\ pc' = "read"
               /\ UNCHANGED <<buffered, written, shutdowns, exit>>
            \/ /\ buffered /\ pc' = "read" /\ buffered' = FALSE
               /\ written' = Append(written, response)
               /\ UNCHANGED <<shutdowns, exit>>
            \/ /\ buffered /\ pc' = "exited" /\ exit' = "5"
               /\ shutdowns' = shutdowns + 1
               /\ UNCHANGED <<buffered, written>>
BY Zenon DEF Flush, LeaveLoop

-----------------------------------------------------------------------------
(* The invariant holds at the start. *)

(* Nothing has been taken or written at the start. *)
LEMMA InitLoopInv == Init => LoopInv
<1>. SUFFICES ASSUME Init PROVE LoopInv
  OBVIOUS
<1>1. /\ asked \in Seq(Frame) /\ written \in Seq(Response)
      /\ inits \in Seq([n : Nat, budget : Hints]) /\ ready \in Seq(Nat)
  BY DEF Init
<1>2. received \in Nat /\ taken \in Nat /\ shutdowns \in Nat
  BY DEF Init
<1>3. TypeOK
  BY <1>1, <1>2, Zenon DEF Init, TypeOK, ExitCodes
<1>4. Cursors
  BY DEF Init, Cursors
<1>5. AnswersMatchRequests
  BY DEF Init, AnswersMatchRequests
<1>. QED
  BY <1>3, <1>4, <1>5 DEF LoopInv

(* Every step of the client or the loop keeps the types. *)
LEMMA TypeStep ==
  ASSUME LoopInv, [Next]_vars PROVE TypeOK'
<1>. USE DEF LoopInv
<1>1. ASSUME NEW f \in ClientFrames, BeginSend(f) PROVE TypeOK'
  BY <1>1 DEF TypeOK, BeginSend, ClientFrames, loopVars, hookVars
<1>2. CASE FinishSend
  BY <1>2 DEF TypeOK, FinishSend, loopVars, hookVars
<1>3. CASE Receive
  BY <1>3 DEF TypeOK, Receive, loopVars, hookVars
<1>4. CASE CloseStdin
  BY <1>4 DEF TypeOK, CloseStdin, loopVars, hookVars
<1>5. CASE HangUp
  BY <1>5 DEF TypeOK, HangUp, loopVars, hookVars
<1>6. CASE ReadFrame
  BY <1>6 DEF TypeOK, ReadFrame, LeaveLoop, ExitCodes, clientVars, hookVars
<1>7. CASE ReadEof
  BY <1>7 DEF TypeOK, ReadEof, ExitAtEof, LeaveLoop, ExitCodes, clientVars,
              hookVars
<1>8. CASE Initialize
  <2>1. InitializeBudget(request) \in Hints
    BY <1>8, RequestType DEF Initialize, Cursors
  <2>. QED
    BY <1>8, <2>1 DEF TypeOK, Initialize, clientVars, hookVars
<1>9. CASE Dispatch
  <2>1. response' \in Response
    BY <1>9, DispatchResponse DEF Dispatch, Cursors
  <2>2. hello_completed' \in BOOLEAN
    BY <1>9 DEF Dispatch, TypeOK
  <2>. QED
    BY <1>9, <2>1, <2>2 DEF TypeOK, Dispatch, clientVars, hookVars
<1>10. CASE WriteFrame
  <2>1. response \in Response
    BY <1>10 DEF WriteFrame, Cursors, Answering
  <2>2. written' \in Seq(Response)
    BY <1>10, <2>1, WriteFrameFacts, AppendFacts DEF TypeOK
  <2>3. buffered' \in BOOLEAN
    BY <1>10, WriteFrameFacts, Zenon DEF TypeOK
  <2>4. pc' \in {"flush", "exited"} /\ exit' \in ExitCodes
    BY <1>10, WriteFrameFacts, Zenon DEF TypeOK, ExitCodes
  <2>5. shutdowns' = shutdowns \/ shutdowns' = shutdowns + 1
    BY <1>10, WriteFrameFacts, Zenon
  <2>. QED
    BY <1>10, <2>2, <2>3, <2>4, <2>5, WriteFrameFacts
       DEF TypeOK, clientVars, hookVars
<1>11. CASE Flush
  <2>1. buffered => response \in Response
    BY <1>11 DEF Flush, Cursors, Answering
  <2>2. written' \in Seq(Response)
    <3>1. \/ written' = written
          \/ buffered /\ written' = Append(written, response)
      BY <1>11, FlushFacts, Zenon
    <3>2. CASE written' = written
      BY <3>2 DEF TypeOK
    <3>3. CASE buffered /\ written' = Append(written, response)
      BY <2>1, <3>3, AppendFacts DEF TypeOK
    <3>. QED
      BY <3>1, <3>2, <3>3
  <2>3. buffered' \in BOOLEAN
    BY <1>11, FlushFacts, Zenon DEF TypeOK
  <2>4. pc' \in {"read", "exited"} /\ exit' \in ExitCodes
    BY <1>11, FlushFacts, Zenon DEF TypeOK, ExitCodes
  <2>5. shutdowns' = shutdowns \/ shutdowns' = shutdowns + 1
    BY <1>11, FlushFacts, Zenon
  <2>. QED
    BY <1>11, <2>2, <2>3, <2>4, <2>5, FlushFacts
       DEF TypeOK, clientVars, hookVars
<1>12. CASE ReadFails
  BY <1>12, ReadFailsFacts DEF TypeOK, ExitCodes, clientVars, hookVars
<1>13. CASE ProviderThrows
  BY <1>13 DEF TypeOK, ProviderThrows, LeaveLoop, ExitCodes, clientVars, hookVars
<1>14. CASE Exited \/ UNCHANGED vars
  BY <1>14 DEF TypeOK, Exited, vars, clientVars, loopVars, hookVars
<1>. QED
  BY <1>1, <1>2, <1>3, <1>4, <1>5, <1>6, <1>7, <1>8, <1>9, <1>10, <1>11,
     <1>12, <1>13, <1>14 DEF Next, Client, Loop

-----------------------------------------------------------------------------
(* The cursors.  The client only appends to `asked` and reads behind        *)
(* `written`; the loop moves `taken` and `written` in step.                 *)
LEMMA CursorsStep ==
  ASSUME LoopInv, [Next]_vars PROVE Cursors'
<1>. USE DEF LoopInv
<1>0. /\ Len(asked) \in Nat /\ Len(written) \in Nat /\ taken \in Nat
      /\ received \in Nat
  BY DEF TypeOK
<1>1. ASSUME NEW f \in ClientFrames, BeginSend(f) PROVE Cursors'
  BY <1>1 DEF BeginSend, Cursors, Answering, request, loopVars, hookVars
<1>2. CASE FinishSend
  <2>1. /\ Len(asked') = Len(asked) + 1
        /\ \A i \in 1..Len(asked) : asked'[i] = asked[i]
    BY <1>2, AppendFacts DEF FinishSend, TypeOK
  <2>2. /\ taken <= Len(asked')
        /\ taken >= 1 => request' = request
    BY <1>0, <1>2, <2>1 DEF Cursors, request, FinishSend, loopVars
  <2>. QED
    BY <1>2, <2>2 DEF FinishSend, Cursors, Answering, loopVars, hookVars
<1>3. CASE Receive
  BY <1>0, <1>3 DEF Receive, Cursors, Answering, request, loopVars, hookVars
<1>4. CASE CloseStdin
  BY <1>4 DEF CloseStdin, Cursors, Answering, request, loopVars, hookVars
<1>5. CASE HangUp
  BY <1>5 DEF HangUp, Cursors, Answering, request, loopVars, hookVars
<1>6. CASE ReadFrame
  <2>1. pc = "read" /\ taken' = taken + 1 /\ taken' <= Len(asked)
    BY <1>0, <1>6 DEF ReadFrame
  <2>2. /\ UNCHANGED <<asked, received, response, buffered, written>>
        /\ request' = asked[taken + 1]
    BY <1>6 DEF ReadFrame, clientVars, request
  <2>3. \/ pc' = "exited"
        \/ pc' = "serve" /\ request'.kind \in RequestKinds
    <3>1. asked[taken + 1] \in Frame
      BY <1>0, <2>1 DEF TypeOK
    <3>2. asked[taken + 1].kind \in RequestKinds \cup FatalKinds
      BY <3>1 DEF Frame
    <3>. QED
      BY <1>6, <2>2, <3>2 DEF ReadFrame, LeaveLoop, FatalKinds
  <2>. QED
    BY <1>0, <2>1, <2>2, <2>3 DEF Cursors
<1>7. CASE ReadEof
  BY <1>0, <1>7 DEF ReadEof, LeaveLoop, Cursors, clientVars
<1>8. CASE Initialize
  BY <1>8 DEF Initialize, Cursors, request, clientVars
<1>9. CASE Dispatch
  <2>1. Answering'
    BY <1>9, DispatchResponse DEF Dispatch, Cursors, Answering, request, clientVars
  <2>. QED
    BY <1>9, <2>1 DEF Dispatch, Cursors, request, clientVars
<1>10. CASE WriteFrame
  <2>1. response \in Response /\ pc = "write" /\ buffered \in BOOLEAN
    BY <1>10, WriteFrameFacts DEF Cursors, Answering, TypeOK
  <2>2. Len(Append(written, response)) = Len(written) + 1
    BY <2>1, AppendFacts DEF TypeOK
  <2>3. CASE pc' = "flush" /\ buffered' = TRUE /\ written' = written
    BY <1>0, <1>10, <2>3, <2>1, WriteFrameFacts
       DEF Cursors, Answering, request, clientVars
  <2>4. CASE /\ pc' = "flush" /\ written' = Append(written, response)
             /\ buffered' = buffered
    BY <1>0, <1>10, <2>1, <2>2, <2>4, WriteFrameFacts
       DEF Cursors, Answering, request, clientVars
  <2>5. CASE pc' = "exited" /\ written' = written
    BY <1>0, <1>10, <2>1, <2>5, WriteFrameFacts
       DEF Cursors, Answering, request, clientVars
  <2>. QED
    BY <1>10, <2>3, <2>4, <2>5, WriteFrameFacts
<1>11. CASE Flush
  <2>1. pc = "flush" /\ (buffered => response \in Response)
    BY <1>11, FlushFacts DEF Cursors, Answering
  <2>2. buffered => Len(Append(written, response)) = Len(written) + 1
    BY <2>1, AppendFacts DEF TypeOK
  <2>3. \/ ~buffered /\ pc' = "read" /\ written' = written /\ ~buffered'
        \/ /\ buffered /\ pc' = "read" /\ written' = Append(written, response)
           /\ ~buffered'
        \/ buffered /\ pc' = "exited" /\ written' = written
    BY <1>11, FlushFacts, Zenon
  <2>4. buffered' \in BOOLEAN
    BY TypeStep DEF TypeOK
  <2>. QED
    BY <1>0, <1>11, <2>1, <2>2, <2>3, <2>4, FlushFacts DEF Cursors, clientVars
<1>12. CASE ReadFails
  BY <1>0, <1>12, ReadFailsFacts DEF Cursors, clientVars
<1>13. CASE ProviderThrows
  BY <1>0, <1>13 DEF ProviderThrows, LeaveLoop, Cursors, clientVars
<1>14. CASE Exited \/ UNCHANGED vars
  BY <1>14 DEF Exited, vars, clientVars, loopVars, Cursors, Answering, request
<1>. QED
  BY <1>1, <1>2, <1>3, <1>4, <1>5, <1>6, <1>7, <1>8, <1>9, <1>10, <1>11,
     <1>12, <1>13, <1>14 DEF Next, Client, Loop

(* Every delivered response answers the request at its position. *)
LEMMA AnswersStep ==
  ASSUME LoopInv, [Next]_vars PROVE AnswersMatchRequests'
<1>. USE DEF LoopInv
<1>0. /\ Len(asked) \in Nat /\ Len(written) \in Nat /\ taken \in Nat
  BY DEF TypeOK
<1>1. CASE UNCHANGED <<asked, written>> /\ taken' >= taken
  BY <1>0, <1>1, TypeStep DEF AnswersMatchRequests, TypeOK
<1>2. CASE FinishSend
  <2>1. \A i \in 1..Len(asked) : asked'[i] = asked[i]
    BY <1>2, AppendFacts DEF FinishSend, TypeOK
  <2>2. UNCHANGED <<written, taken>>
    BY <1>2 DEF FinishSend, loopVars
  <2>. QED
    BY <1>0, <2>1, <2>2 DEF AnswersMatchRequests, Cursors
<1>3. ASSUME written' = Append(written, response), Answering,
             Len(written) = taken - 1, taken <= Len(asked),
             UNCHANGED <<asked, taken>>
      PROVE  AnswersMatchRequests'
  <2>1. /\ Len(written') = Len(written) + 1
        /\ written'[Len(written) + 1] = response
        /\ \A i \in 1..Len(written) : written'[i] = written[i]
    BY <1>3, AppendFacts DEF Answering, TypeOK
  <2>. QED
    BY <1>0, <1>3, <2>1 DEF AnswersMatchRequests, Answering, request
<1>4. CASE WriteFrame
  <2>1. /\ UNCHANGED <<asked, taken>>
        /\ written' = written \/ written' = Append(written, response)
    BY <1>4, WriteFrameFacts, Zenon DEF clientVars
  <2>2. Answering /\ Len(written) = taken - 1 /\ taken <= Len(asked)
    BY <1>4, WriteFrameFacts DEF Cursors
  <2>3. CASE written' = written
    BY <1>0, <1>1, <2>1, <2>3
  <2>4. CASE written' = Append(written, response)
    BY <1>3, <2>1, <2>2, <2>4
  <2>. QED
    BY <2>1, <2>3, <2>4
<1>5. CASE Flush
  <2>1. /\ UNCHANGED <<asked, taken>>
        /\ written' = written \/ (buffered /\ written' = Append(written, response))
    BY <1>5, FlushFacts, Zenon DEF clientVars
  <2>2. buffered => Answering /\ Len(written) = taken - 1 /\ taken <= Len(asked)
    BY <1>5, FlushFacts DEF Cursors
  <2>3. CASE written' = written
    BY <1>0, <1>1, <2>1, <2>3
  <2>4. CASE buffered /\ written' = Append(written, response)
    BY <1>3, <2>1, <2>2, <2>4
  <2>. QED
    BY <2>1, <2>3, <2>4
<1>6. ASSUME NEW f \in ClientFrames, BeginSend(f) PROVE AnswersMatchRequests'
  BY <1>0, <1>1, <1>6 DEF BeginSend, loopVars
<1>7. CASE Receive
  BY <1>0, <1>1, <1>7 DEF Receive, loopVars
<1>8. CASE CloseStdin
  BY <1>0, <1>1, <1>8 DEF CloseStdin, loopVars
<1>9. CASE HangUp
  BY <1>0, <1>1, <1>9 DEF HangUp, loopVars
<1>10. CASE ReadFrame
  BY <1>0, <1>1, <1>10 DEF ReadFrame, clientVars
<1>11. CASE ReadEof
  BY <1>0, <1>1, <1>11 DEF ReadEof, clientVars
<1>12. CASE Initialize
  BY <1>0, <1>1, <1>12 DEF Initialize, clientVars
<1>13. CASE Dispatch
  BY <1>0, <1>1, <1>13 DEF Dispatch, clientVars
<1>14. CASE ReadFails
  BY <1>0, <1>1, <1>14, ReadFailsFacts DEF clientVars
<1>15. CASE ProviderThrows
  BY <1>0, <1>1, <1>15 DEF ProviderThrows, clientVars
<1>16. CASE Exited \/ UNCHANGED vars
  BY <1>0, <1>1, <1>16 DEF Exited, vars, clientVars, loopVars
<1>. QED
  BY <1>2, <1>4, <1>5, <1>6, <1>7, <1>8, <1>9, <1>10, <1>11, <1>12, <1>13,
     <1>14, <1>15, <1>16 DEF Next, Client, Loop

(* LoopInv is inductive: in every reachable state the types are right, the *)
(* cursors of the two pipes stand where the loop's location says, and      *)
(* every delivered answer matches its request.                             *)
THEOREM LoopInvariant == Spec => []LoopInv
<1>1. LoopInv /\ [Next]_vars => LoopInv'
  BY TypeStep, CursorsStep, AnswersStep DEF LoopInv
<1>. QED
  BY InitLoopInv, <1>1, PTL DEF Spec

(* The state always has the shape TypeOK gives it. *)
THEOREM TypeCorrect == Spec => []TypeOK
<1>1. LoopInv => TypeOK
  BY DEF LoopInv
<1>. QED
  BY LoopInvariant, <1>1, PTL

(* For any number of requests, any client and any pipes: the k-th response *)
(* the client can read carries the id of its k-th request.                 *)
THEOREM AnswersCorrect == Spec => []AnswersMatchRequests
<1>1. LoopInv => AnswersMatchRequests
  BY DEF LoopInv
<1>. QED
  BY LoopInvariant, <1>1, PTL

(* And no request before the last one taken is left without its response. *)
THEOREM NothingSkippedCorrect == Spec => []NothingSkipped
<1>1. LoopInv => NothingSkipped
  <2>1. ASSUME LoopInv PROVE NothingSkipped
    <3>1. pc \in {"read", "serve", "write", "flush", "exited"}
      BY <2>1 DEF LoopInv, TypeOK
    <3>. QED
      BY <2>1, <3>1 DEF LoopInv, Cursors, NothingSkipped
  <2>. QED
    BY <2>1
<1>. QED
  BY LoopInvariant, <1>1, PTL

-----------------------------------------------------------------------------
(* The handshake and the provider's start-up. *)

(* What the session may answer to the request at position k. *)
Allowed(k, code) ==
  /\ asked[k].kind = "hello_other_version" => code = "FAILED_PRECONDITION"
  /\ asked[k].kind \notin HelloKinds =>
       IF GreetedIn(asked, k - 1) THEN initialized
                                  ELSE code = "FAILED_PRECONDITION"

(* s records the start-up that the first request needing one led to. *)
FirstStartup(s) ==
  /\ s.n \in 1..taken
  /\ NeedsStartup(s.n)
  /\ \A k \in 1..(s.n - 1) : ~NeedsStartup(k)
  /\ s.budget = InitializeBudget(asked[s.n])

StartupInv ==
  /\ initialized => Len(inits) = 1 /\ hello_completed
  /\ ~initialized => inits = <<>>
  /\ pc = "serve" => (hello_completed <=> GreetedIn(asked, taken - 1))
  /\ pc \in {"read", "write", "flush"} =>
       (hello_completed <=> GreetedIn(asked, taken))
  /\ ~initialized => \A k \in 1..Len(written) : ~NeedsStartup(k)
  /\ pc = "write" \/ (pc = "flush" /\ buffered) =>
       Allowed(taken, response.code)
  /\ \A i \in 1..Len(inits) : FirstStartup(inits[i])

(* A frame the client appends changes nothing about the frames before it. *)
LEMMA HistoryStable ==
  ASSUME TypeOK, FinishSend
  PROVE  /\ \A k \in 1..Len(asked) : asked'[k] = asked[k]
         /\ \A n \in Nat : n <= Len(asked) =>
              (GreetedIn(asked', n) <=> GreetedIn(asked, n))
         /\ \A k \in 1..Len(asked) : NeedsStartup(k)' <=> NeedsStartup(k)
<1>1. \A k \in 1..Len(asked) : asked'[k] = asked[k]
  BY AppendFacts DEF FinishSend, TypeOK
<1>2. Len(asked) \in Nat
  BY DEF TypeOK
<1>3. ASSUME NEW n \in Nat, n <= Len(asked)
      PROVE  GreetedIn(asked', n) <=> GreetedIn(asked, n)
  BY <1>1, <1>2, <1>3 DEF GreetedIn
<1>4. ASSUME NEW k \in 1..Len(asked) PROVE NeedsStartup(k)' <=> NeedsStartup(k)
  <2>1. k - 1 \in Nat /\ k - 1 <= Len(asked)
    BY <1>2
  <2>. QED
    BY <1>1, <1>3, <2>1 DEF NeedsStartup
<1>. QED
  BY <1>1, <1>3, <1>4

(* One more frame greets if it or an earlier one is a good Hello. *)
LEMMA GreetedNext ==
  ASSUME NEW frames, NEW n \in Nat, n >= 1
  PROVE  GreetedIn(frames, n) <=>
           GreetedIn(frames, n - 1) \/ frames[n].kind = "hello"
BY DEF GreetedIn

(* The handler's answer respects the handshake, and the flag afterwards    *)
(* says whether a Hello of the right version has been taken.               *)
LEMMA DispatchFacts ==
  ASSUME LoopInv, StartupInv, Dispatch
  PROVE  /\ Allowed(taken, response'.code)
         /\ hello_completed' <=> GreetedIn(asked, taken)
<1>. USE DEF LoopInv
<1>1. PICK code \in AnswerCodes(request.kind), fit \in Fits(request.kind) :
        /\ response' = FramedResponse(request.id, code, fit)
        /\ hello_completed' =
             (hello_completed \/ (request.kind \in HelloKinds /\ code = "OK"))
  BY DEF Dispatch
<1>2. /\ pc = "serve" /\ ~InitializeDue(request.kind)
      /\ request.kind \in RequestKinds /\ taken \in Nat /\ taken >= 1
      /\ hello_completed <=> GreetedIn(asked, taken - 1)
  BY DEF Dispatch, Cursors, TypeOK, StartupInv
<1>3. ASSUME fit = "fits" PROVE response'.code = code
  BY <1>1, <1>3 DEF FramedResponse
<1>4. CASE request.kind = "hello"
  <2>1. code = "OK"
    BY <1>1, <1>4 DEF AnswerCodes, HandlerCodes, Served, HelloKinds
  <2>. QED
    BY <1>1, <1>2, <1>4, <2>1, GreetedNext DEF Allowed, HelloKinds, request
<1>5. CASE request.kind = "hello_other_version"
  <2>1. code = "FAILED_PRECONDITION" /\ fit = "fits"
    BY <1>1, <1>5 DEF AnswerCodes, HandlerCodes, Served, HelloKinds, Fits
  <2>. QED
    BY <1>1, <1>2, <1>3, <1>5, <2>1, GreetedNext DEF Allowed, HelloKinds, request
<1>6. CASE request.kind \notin HelloKinds /\ hello_completed
  <2>1. initialized
    BY <1>2, <1>6 DEF InitializeDue
  <2>. QED
    BY <1>1, <1>2, <1>6, <2>1, GreetedNext DEF Allowed, HelloKinds, request
<1>7. CASE request.kind \notin HelloKinds /\ ~hello_completed
  <2>1. code = "FAILED_PRECONDITION" /\ fit = "fits"
    BY <1>1, <1>7 DEF AnswerCodes, Served, Fits
  <2>. QED
    BY <1>1, <1>2, <1>3, <1>7, <2>1, GreetedNext DEF Allowed, HelloKinds, request
<1>. QED
  BY <1>4, <1>5, <1>6, <1>7 DEF HelloKinds

(* Every step keeps the start-up flags true to the requests taken so far. *)
LEMMA StartupStep ==
  ASSUME LoopInv, LoopInv', StartupInv, [Next]_vars PROVE StartupInv'
<1>. USE DEF LoopInv
<1>0. /\ Len(asked) \in Nat /\ Len(written) \in Nat /\ taken \in Nat
      /\ taken <= Len(asked) /\ Len(written) <= taken /\ Len(inits) \in Nat
  <2>1. /\ Len(asked) \in Nat /\ Len(written) \in Nat /\ taken \in Nat
        /\ Len(inits) \in Nat
        /\ pc \in {"read", "serve", "write", "flush", "exited"}
    BY DEF TypeOK
  <2>. QED
    BY <2>1 DEF Cursors
<1>1. ASSUME UNCHANGED <<asked, taken, inits, initialized, hello_completed,
                         written>>,
             pc' = "exited" \/ UNCHANGED <<pc, response, buffered>>
      PROVE  StartupInv'
  BY <1>1 DEF StartupInv, Allowed, FirstStartup, NeedsStartup
<1>2. ASSUME NEW f \in ClientFrames, BeginSend(f) PROVE StartupInv'
  BY <1>1, <1>2 DEF BeginSend, loopVars, hookVars
<1>3. CASE FinishSend
  <2>1. UNCHANGED <<taken, inits, initialized, hello_completed, written, pc,
                    response, buffered>>
    BY <1>3 DEF FinishSend, loopVars, hookVars
  <2>2. \A k \in 1..Len(asked) : /\ asked'[k] = asked[k]
                                 /\ NeedsStartup(k)' <=> NeedsStartup(k)
    BY <1>3, HistoryStable
  <2>3. \A n \in Nat : n <= Len(asked) =>
          (GreetedIn(asked', n) <=> GreetedIn(asked, n))
    BY <1>3, HistoryStable
  <2>4. pc \in {"serve", "write", "flush"} =>
          taken >= 1 /\ taken - 1 \in Nat /\ taken - 1 <= Len(asked)
    <3>1. pc \in {"serve", "write", "flush"} => taken >= 1
      BY DEF Cursors
    <3>. QED
      BY <1>0, <3>1
  <2>5. \A i \in 1..Len(inits) : FirstStartup(inits[i])'
    <3>. SUFFICES ASSUME NEW i \in 1..Len(inits) PROVE FirstStartup(inits[i])'
      OBVIOUS
    <3>1. FirstStartup(inits[i])
      BY DEF StartupInv
    <3>. DEFINE n == inits[i].n
    <3>2. n \in 1..Len(asked) /\ n \in 1..taken
      BY <1>0, <3>1 DEF FirstStartup
    <3>3. \A k \in 1..n : NeedsStartup(k)' <=> NeedsStartup(k)
      BY <1>0, <2>2, <3>2
    <3>4. n' = n /\ n \in 1..n
      BY <2>1, <3>2
    <3>5. \A k \in 1..(n - 1) : k \in 1..n
      BY <3>2
    <3>6. asked'[n].kind \in RequestKinds \ HelloKinds /\ GreetedIn(asked', n - 1)
      BY <3>1, <3>3, <3>4 DEF FirstStartup, NeedsStartup
    <3>7. \A k \in 1..(n - 1) : ~NeedsStartup(k)'
      BY <3>1, <3>3, <3>5 DEF FirstStartup
    <3>8. asked'[n] = asked[n]
      BY <2>2, <3>2
    <3>. QED
      BY <2>1, <3>1, <3>2, <3>6, <3>7, <3>8 DEF FirstStartup, NeedsStartup
  <2>6. pc \in {"write", "flush"} =>
          (Allowed(taken, response.code)' <=> Allowed(taken, response.code))
    <3>. SUFFICES ASSUME pc \in {"write", "flush"}
                  PROVE  Allowed(taken, response.code)' <=> Allowed(taken, response.code)
      OBVIOUS
    <3>1. /\ taken \in 1..Len(asked)
          /\ GreetedIn(asked', taken - 1) <=> GreetedIn(asked, taken - 1)
      BY <1>0, <2>3, <2>4
    <3>2. asked'[taken] = asked[taken]
      BY <2>2, <3>1
    <3>. QED
      BY <2>1, <3>1, <3>2 DEF Allowed
  <2>7. ~initialized => \A k \in 1..Len(written) : ~NeedsStartup(k)'
    <3>1. \A k \in 1..Len(written) : k \in 1..Len(asked)
      BY <1>0
    <3>. QED
      BY <2>2, <3>1 DEF StartupInv
  <2>. QED
    BY <1>0, <2>1, <2>3, <2>4, <2>5, <2>6, <2>7 DEF StartupInv
<1>4. CASE Receive
  BY <1>1, <1>4 DEF Receive, loopVars, hookVars
<1>5. CASE CloseStdin
  BY <1>1, <1>5 DEF CloseStdin, loopVars, hookVars
<1>6. CASE HangUp
  BY <1>1, <1>6 DEF HangUp, loopVars, hookVars
<1>7. CASE ReadFrame
  <2>1. /\ pc = "read" /\ taken' = taken + 1 /\ taken' - 1 = taken
        /\ UNCHANGED <<asked, written, inits, initialized, hello_completed>>
        /\ pc' \in {"serve", "exited"}
    <3>1. pc' = "exited" \/ pc' = "serve"
      BY <1>7, Zenon DEF ReadFrame, LeaveLoop
    <3>. QED
      BY <1>0, <1>7, <3>1 DEF ReadFrame, clientVars, hookVars
  <2>2. \A i \in 1..Len(inits) : FirstStartup(inits[i])'
    <3>. SUFFICES ASSUME NEW i \in 1..Len(inits) PROVE FirstStartup(inits[i])'
      OBVIOUS
    <3>1. FirstStartup(inits[i])
      BY DEF StartupInv
    <3>2. inits[i].n \in 1..taken'
      BY <1>0, <2>1, <3>1 DEF FirstStartup
    <3>. QED
      BY <2>1, <3>1, <3>2 DEF FirstStartup, NeedsStartup
  <2>. QED
    BY <2>1, <2>2 DEF StartupInv, NeedsStartup
<1>8. CASE ReadEof
  BY <1>1, <1>8 DEF ReadEof, LeaveLoop, clientVars, hookVars
<1>9. CASE Initialize
  <2> DEFINE s == [n |-> taken, budget |-> InitializeBudget(request)]
  <2>1. /\ pc = "serve" /\ initialized' = TRUE /\ inits' = Append(inits, s)
        /\ UNCHANGED <<asked, written, taken, hello_completed, pc, response,
                       buffered>>
        /\ hello_completed /\ ~initialized /\ request.kind \notin HelloKinds
    BY <1>9 DEF Initialize, InitializeDue, clientVars
  <2>2. inits' = <<s>>
    BY <2>1 DEF StartupInv
  <2>3. NeedsStartup(taken)
    BY <2>1 DEF StartupInv, Cursors, NeedsStartup, request
  <2>4. \A k \in 1..(taken - 1) : ~NeedsStartup(k)
    BY <2>1 DEF StartupInv, Cursors
  <2>5. FirstStartup(s)
    BY <1>0, <2>1, <2>3, <2>4 DEF FirstStartup, request, Cursors
  <2>6. FirstStartup(s)'
    BY <2>1, <2>5 DEF FirstStartup, NeedsStartup, request
  <2>7. \A i \in 1..Len(inits') : FirstStartup(inits[i])'
    <3>1. \A i \in 1..Len(inits') : inits'[i] = s
      BY <2>2
    <3>2. s' = s
      BY <2>1 DEF request
    <3>. QED
      BY <2>1, <2>6, <3>1, <3>2 DEF FirstStartup, NeedsStartup
  <2>8. Len(inits') = 1 /\ inits' # <<>>
    BY <2>2
  <2>. QED
    BY <2>1, <2>7, <2>8 DEF StartupInv
<1>10. CASE Dispatch
  <2>1. /\ pc = "serve" /\ pc' = "write"
        /\ UNCHANGED <<asked, written, taken, inits, initialized>>
        /\ hello_completed => hello_completed'
    BY <1>10 DEF Dispatch, clientVars
  <2>2. Allowed(taken, response.code)' /\ (hello_completed' <=> GreetedIn(asked, taken))
    BY <1>10, <2>1, DispatchFacts DEF Allowed
  <2>. QED
    BY <2>1, <2>2 DEF StartupInv, FirstStartup, NeedsStartup
<1>11. ASSUME UNCHANGED <<asked, taken, inits, initialized, hello_completed>>,
              written' = Append(written, response), response \in Response,
              Len(written) = taken - 1, taken >= 1,
              pc \in {"write", "flush"}, Allowed(taken, response.code),
              pc' = "read" \/ (pc' = "flush" /\ ~buffered')
       PROVE  StartupInv'
  <2>1. Len(written') = taken
    <3>1. Len(written') = Len(written) + 1
      BY <1>11, AppendFacts DEF TypeOK
    <3>. QED
      BY <1>0, <1>11, <3>1
  <2>2. ~initialized => ~NeedsStartup(taken)
    BY <1>11 DEF Allowed, NeedsStartup
  <2>3. ~initialized => \A k \in 1..taken : ~NeedsStartup(k)
    <3>1. ~initialized => \A k \in 1..(taken - 1) : ~NeedsStartup(k)
      BY <1>11 DEF StartupInv
    <3>. QED
      BY <1>0, <2>2, <3>1
  <2>. QED
    BY <1>11, <2>1, <2>3 DEF StartupInv, FirstStartup, NeedsStartup
<1>12. CASE WriteFrame
  <2>1. /\ pc = "write" /\ response \in Response /\ Len(written) = taken - 1
        /\ taken >= 1 /\ Allowed(taken, response.code) /\ buffered = FALSE
        /\ UNCHANGED <<asked, taken, inits, initialized, hello_completed, response>>
    BY <1>12, WriteFrameFacts DEF Cursors, Answering, StartupInv, clientVars, hookVars
  <2>2. \/ pc' = "flush" /\ buffered' = TRUE /\ written' = written
        \/ pc' = "flush" /\ written' = Append(written, response) /\ buffered' = buffered
        \/ pc' = "exited" /\ written' = written
    BY <1>12, WriteFrameFacts, Zenon
  <2>3. CASE pc' = "flush" /\ buffered' = TRUE /\ written' = written
    BY <2>1, <2>3 DEF StartupInv, Allowed, FirstStartup, NeedsStartup
  <2>4. CASE pc' = "flush" /\ written' = Append(written, response)
             /\ buffered' = buffered
    BY <1>11, <2>1, <2>4
  <2>5. CASE pc' = "exited" /\ written' = written
    BY <1>1, <2>1, <2>5
  <2>. QED
    BY <2>2, <2>3, <2>4, <2>5
<1>13. CASE Flush
  <2>1. /\ pc = "flush"
        /\ UNCHANGED <<asked, taken, inits, initialized, hello_completed>>
    BY <1>13, FlushFacts DEF clientVars, hookVars
  <2>2. \/ ~buffered /\ pc' = "read" /\ written' = written
        \/ buffered /\ pc' = "read" /\ written' = Append(written, response)
        \/ pc' = "exited" /\ written' = written
    BY <1>13, FlushFacts, Zenon
  <2>3. buffered => /\ response \in Response /\ Len(written) = taken - 1
                    /\ taken >= 1 /\ Allowed(taken, response.code)
    BY <2>1 DEF Cursors, Answering, StartupInv
  <2>4. CASE ~buffered /\ pc' = "read" /\ written' = written
    BY <2>1, <2>4 DEF StartupInv, FirstStartup, NeedsStartup
  <2>5. CASE buffered /\ pc' = "read" /\ written' = Append(written, response)
    BY <1>11, <2>1, <2>3, <2>5
  <2>6. CASE pc' = "exited" /\ written' = written
    BY <1>1, <2>1, <2>6
  <2>. QED
    BY <2>2, <2>4, <2>5, <2>6
<1>14. CASE ReadFails
  BY <1>1, <1>14, ReadFailsFacts DEF clientVars, hookVars
<1>15. CASE ProviderThrows
  BY <1>1, <1>15 DEF ProviderThrows, LeaveLoop, clientVars, hookVars
<1>16. CASE Exited \/ UNCHANGED vars
  BY <1>1, <1>16 DEF Exited, vars, clientVars, loopVars, hookVars
<1>. QED
  BY <1>2, <1>3, <1>4, <1>5, <1>6, <1>7, <1>8, <1>9, <1>10, <1>12, <1>13,
     <1>14, <1>15, <1>16 DEF Next, Client, Loop

(* Neither flag is set at the start. *)
LEMMA InitStartupInv == Init => StartupInv
BY DEF Init, StartupInv, GreetedIn

(* hello_completed and initialized say what the requests so far amount to. *)
THEOREM StartupInvariant == Spec => [](LoopInv /\ StartupInv)
<1>1. LoopInv /\ LoopInv' /\ StartupInv /\ [Next]_vars => StartupInv'
  BY StartupStep
<1>. QED
  BY LoopInvariant, InitStartupInv, <1>1, PTL DEF Spec

(* The provider starts up once, on the first request after the handshake   *)
(* that is not a Hello, with that request's hint as its budget, and no     *)
(* such request is answered without it.                                    *)
THEOREM StartupCorrect == Spec => []StartupOnFirstRequest
<1>1. LoopInv /\ StartupInv => StartupOnFirstRequest
  <2>. SUFFICES ASSUME LoopInv, StartupInv PROVE StartupOnFirstRequest
    OBVIOUS
  <2>1. Len(inits) <= 1 /\ (initialized => inits # <<>>)
    BY DEF StartupInv
  <2>2. \A k \in 1..Len(written) : NeedsStartup(k) => inits # <<>>
    BY <2>1 DEF StartupInv
  <2>. QED
    BY <2>1, <2>2 DEF StartupInv, FirstStartup, StartupOnFirstRequest
<1>. QED
  BY StartupInvariant, <1>1, PTL

-----------------------------------------------------------------------------
(* The ready hook. *)

(* A firing of the hook, at its place in the list of them. *)
ReadyAt(i) ==
  /\ ready[i] \in 1..taken
  /\ asked[ready[i]].kind = "wait_ready"
  /\ i > 1 => ready[i - 1] < ready[i]
  /\ inits # <<>> /\ inits[1].n <= ready[i]

(* The request in hand has not fired it yet. *)
ReadyInv ==
  /\ \A i \in 1..Len(ready) : ReadyAt(i)
  /\ pc = "serve" => \A i \in 1..Len(ready) : ready[i] < taken

(* The firing that Dispatch adds comes last, and after start-up. *)
LEMMA ReadyDispatch ==
  ASSUME LoopInv, StartupInv, ReadyInv, Dispatch PROVE ReadyInv'
<1>0. /\ taken \in Nat /\ taken >= 1 /\ ready \in Seq(Nat) /\ Len(ready) \in Nat
      /\ Len(inits) \in Nat /\ pc = "serve"
  BY DEF LoopInv, TypeOK, Cursors, Dispatch
<1>1. UNCHANGED <<asked, taken, inits>> /\ pc' = "write"
  BY DEF Dispatch, clientVars
<1>2. CASE ready' = ready
  BY <1>0, <1>1, <1>2 DEF ReadyInv, ReadyAt
<1>3. CASE ReadyHookFires(request.kind) /\ ready' = Append(ready, taken)
  <2>1. /\ Len(ready') = Len(ready) + 1 /\ ready'[Len(ready) + 1] = taken
        /\ \A i \in 1..Len(ready) : ready'[i] = ready[i]
    BY <1>0, <1>3, AppendFacts
  <2>2. request.kind = "wait_ready" /\ hello_completed
    BY <1>3 DEF ReadyHookFires, Served, HelloKinds
  <2>3. initialized
    BY <2>2 DEF Dispatch, InitializeDue, HelloKinds
  <2>4. Len(inits) = 1 /\ FirstStartup(inits[1])
    BY <2>3 DEF StartupInv
  <2>5. inits # <<>>
    BY <2>4
  <2>6. inits[1].n <= taken
    <3>1. inits[1].n \in 1..taken
      BY <2>4 DEF FirstStartup
    <3>. QED
      BY <1>0, <3>1
  <2>7. ASSUME NEW i \in 1..Len(ready) PROVE ReadyAt(i)'
    <3>1. ReadyAt(i) /\ ready'[i] = ready[i]
      BY <2>1 DEF ReadyInv
    <3>2. i > 1 => i - 1 \in 1..Len(ready)
      BY <1>0
    <3>3. i > 1 => ready'[i - 1] = ready[i - 1]
      BY <2>1, <3>2
    <3>. QED
      BY <1>1, <3>1, <3>3 DEF ReadyAt
  <2>8. Len(ready) + 1 > 1 => ready'[Len(ready)] < taken
    <3>1. Len(ready) + 1 > 1 => Len(ready) \in 1..Len(ready)
      BY <1>0
    <3>. QED
      BY <1>0, <2>1, <3>1 DEF ReadyInv
  <2>9. ASSUME NEW i, i = Len(ready) + 1 PROVE ReadyAt(i)'
    <3>1. ready'[i] = taken /\ i - 1 = Len(ready)
      BY <1>0, <2>1, <2>9
    <3>2. asked'[taken].kind = "wait_ready" /\ taken \in 1..taken
      BY <1>0, <1>1, <2>2 DEF request
    <3>. QED
      BY <1>1, <2>5, <2>6, <2>8, <2>9, <3>1, <3>2 DEF ReadyAt
  <2>10. \A i \in 1..Len(ready') : i \in 1..Len(ready) \/ i = Len(ready) + 1
    BY <1>0, <2>1
  <2>11. \A i \in 1..Len(ready') : ReadyAt(i)'
    BY <2>7, <2>9, <2>10
  <2>. QED
    BY <1>1, <2>11 DEF ReadyInv
<1>. QED
  BY <1>2, <1>3 DEF Dispatch

(* Every step keeps the ready hook to requests after start-up. *)
LEMMA ReadyStep ==
  ASSUME LoopInv, StartupInv, ReadyInv, [Next]_vars PROVE ReadyInv'
<1>0. /\ taken \in Nat /\ taken <= Len(asked) /\ Len(asked) \in Nat
      /\ ready \in Seq(Nat) /\ Len(ready) \in Nat
      /\ \A i \in 1..Len(ready) : ready[i] \in Nat
  BY DEF LoopInv, TypeOK, Cursors
<1>1. ASSUME UNCHANGED <<asked, taken, inits, ready>>,
             pc' # "serve" \/ pc' = pc
      PROVE  ReadyInv'
  BY <1>1 DEF ReadyInv, ReadyAt
<1>2. ASSUME NEW f \in ClientFrames, BeginSend(f) PROVE ReadyInv'
  BY <1>1, <1>2 DEF BeginSend, loopVars, hookVars
<1>3. CASE FinishSend
  <2>1. \A k \in 1..Len(asked) : asked'[k] = asked[k]
    BY <1>3, HistoryStable DEF LoopInv
  <2>2. UNCHANGED <<taken, inits, ready, pc>>
    BY <1>3 DEF FinishSend, loopVars, hookVars
  <2>3. ASSUME NEW i \in 1..Len(ready) PROVE ReadyAt(i)'
    <3>1. ReadyAt(i)
      BY DEF ReadyInv
    <3>2. ready[i] \in 1..Len(asked)
      BY <1>0, <3>1 DEF ReadyAt
    <3>3. asked'[ready[i]] = asked[ready[i]]
      BY <2>1, <3>2
    <3>. QED
      BY <2>2, <3>1, <3>3 DEF ReadyAt
  <2>. QED
    BY <2>2, <2>3 DEF ReadyInv
<1>4. CASE Receive \/ CloseStdin \/ HangUp
  BY <1>1, <1>4 DEF Receive, CloseStdin, HangUp, loopVars, hookVars
<1>5. CASE ReadFrame
  BY <1>0, <1>5 DEF ReadFrame, ReadyInv, ReadyAt, clientVars, hookVars
<1>6. CASE ReadEof
  BY <1>1, <1>6 DEF ReadEof, LeaveLoop, clientVars, hookVars
<1>7. CASE Initialize
  <2>1. inits = <<>> /\ UNCHANGED <<ready, pc, taken>>
    BY <1>7 DEF Initialize, InitializeDue, StartupInv
  <2>2. Len(ready) = 0
    BY <1>0, <2>1 DEF ReadyInv, ReadyAt
  <2>. QED
    BY <2>1, <2>2 DEF ReadyInv
<1>8. CASE Dispatch
  BY <1>8, ReadyDispatch
<1>9. CASE WriteFrame
  <2>1. pc' = "flush" \/ pc' = "exited"
    BY <1>9, WriteFrameFacts, Zenon
  <2>. QED
    BY <1>1, <1>9, <2>1, WriteFrameFacts DEF clientVars, hookVars
<1>10. CASE Flush
  <2>1. pc' = "read" \/ pc' = "exited"
    BY <1>10, FlushFacts, Zenon
  <2>. QED
    BY <1>1, <1>10, <2>1, FlushFacts DEF clientVars, hookVars
<1>11. CASE ReadFails
  BY <1>1, <1>11, ReadFailsFacts DEF clientVars, hookVars
<1>12. CASE ProviderThrows
  BY <1>1, <1>12 DEF ProviderThrows, LeaveLoop, clientVars, hookVars
<1>13. CASE Exited \/ UNCHANGED vars
  BY <1>1, <1>13 DEF Exited, vars, clientVars, loopVars, hookVars
<1>. QED
  BY <1>2, <1>3, <1>4, <1>5, <1>6, <1>7, <1>8, <1>9, <1>10, <1>11, <1>12, <1>13
     DEF Next, Client, Loop

(* The hook has fired for the WaitReadys handled so far. *)
FiredInv ==
  /\ pc # "exited" => exit = "running"
  /\ {ready[i] : i \in 1..Len(ready)} = ServedWaits(Handled)

(* Handling one more request adds it to them, if it is one. *)
LEMMA OneMoreWait ==
  ASSUME NEW n \in Nat
  PROVE  ServedWaits(n + 1) =
           ServedWaits(n) \cup
             (IF asked[n + 1].kind = "wait_ready" /\ GreetedIn(asked, n)
              THEN {n + 1} ELSE {})
<1>1. 1..(n + 1) = 1..n \cup {n + 1} /\ n + 1 - 1 = n
  OBVIOUS
<1>. QED
  BY <1>1 DEF ServedWaits

(* Dispatch fires the hook exactly when the request in hand is a WaitReady *)
(* after the handshake.                                                    *)
LEMMA FiredDispatch ==
  ASSUME LoopInv, StartupInv, FiredInv, Dispatch PROVE FiredInv'
<1>0. /\ taken \in Nat /\ taken >= 1 /\ ready \in Seq(Nat) /\ Len(ready) \in Nat
      /\ pc = "serve" /\ Len(written) = taken - 1 /\ exit = "running"
  BY DEF LoopInv, TypeOK, Cursors, Dispatch, FiredInv
<1>1. UNCHANGED <<asked, taken, written, exit>> /\ pc' = "write"
  BY DEF Dispatch, clientVars
<1>2. Handled = taken - 1 /\ Handled' = taken
  BY <1>0, <1>1 DEF Handled
<1>3. ServedWaits(Handled)' = ServedWaits(taken)
  BY <1>1, <1>2 DEF ServedWaits, GreetedIn
<1>4. taken - 1 \in Nat /\ taken - 1 + 1 = taken
  BY <1>0
<1>5. ServedWaits(taken) =
        ServedWaits(taken - 1) \cup
          (IF asked[taken].kind = "wait_ready" /\ GreetedIn(asked, taken - 1)
           THEN {taken} ELSE {})
  BY <1>4, OneMoreWait
<1>6. hello_completed <=> GreetedIn(asked, taken - 1)
  BY <1>0 DEF StartupInv
<1>7. ReadyHookFires(request.kind) <=>
        (asked[taken].kind = "wait_ready" /\ GreetedIn(asked, taken - 1))
  BY <1>6 DEF ReadyHookFires, Served, HelloKinds, request
<1>8. {ready[i] : i \in 1..Len(ready)}' =
        {ready[i] : i \in 1..Len(ready)} \cup
          (IF ReadyHookFires(request.kind) THEN {taken} ELSE {})
  <2>1. CASE ReadyHookFires(request.kind)
    <3>1. ready' = Append(ready, taken)
      BY <2>1 DEF Dispatch
    <3>2. /\ Len(ready') = Len(ready) + 1 /\ ready'[Len(ready) + 1] = taken
          /\ \A i \in 1..Len(ready) : ready'[i] = ready[i]
      BY <1>0, <3>1, AppendFacts
    <3>3. 1..Len(ready') = 1..Len(ready) \cup {Len(ready) + 1}
      BY <1>0, <3>2
    <3>. QED
      BY <2>1, <3>2, <3>3
  <2>2. CASE ~ReadyHookFires(request.kind)
    BY <2>2 DEF Dispatch
  <2>. QED
    BY <2>1, <2>2
<1>. QED
  BY <1>0, <1>1, <1>2, <1>3, <1>5, <1>7, <1>8 DEF FiredInv

(* Every other step handles nothing and fires nothing. *)
LEMMA FiredStep ==
  ASSUME LoopInv, StartupInv, FiredInv, [Next]_vars PROVE FiredInv'
<1>0. /\ taken \in Nat /\ taken <= Len(asked) /\ Len(asked) \in Nat
      /\ Len(written) \in Nat /\ Len(written) <= taken
      /\ pc = "exited" \/ exit = "running"
  BY DEF LoopInv, TypeOK, Cursors, FiredInv
<1>1. ASSUME UNCHANGED <<asked, ready>>, Handled' = Handled,
             pc' # "exited" => exit' = "running"
      PROVE  FiredInv'
  <2>1. ServedWaits(Handled)' = ServedWaits(Handled)
    BY <1>1 DEF ServedWaits, GreetedIn
  <2>. QED
    BY <1>1, <2>1 DEF FiredInv
<1>2. ASSUME NEW f \in ClientFrames, BeginSend(f) PROVE FiredInv'
  BY <1>0, <1>1, <1>2 DEF BeginSend, loopVars, hookVars, Handled, FiredInv
<1>3. CASE FinishSend
  <2>1. \A k \in 1..Len(asked) : asked'[k] = asked[k]
    BY <1>3, HistoryStable DEF LoopInv
  <2>2. UNCHANGED <<taken, ready, pc, exit, written>>
    BY <1>3 DEF FinishSend, loopVars, hookVars
  <2>3. Handled' = Handled /\ Handled \in 0..Len(asked)
    BY <1>0, <2>2 DEF Handled
  <2>4. ASSUME NEW k \in 1..Handled
        PROVE  /\ asked'[k] = asked[k]
               /\ GreetedIn(asked, k - 1)' = GreetedIn(asked, k - 1)
    <3>1. k \in 1..Len(asked) /\ \A j \in 1..(k - 1) : j \in 1..Len(asked)
      BY <1>0, <2>3
    <3>. QED
      BY <2>1, <3>1 DEF GreetedIn
  <2>5. ServedWaits(Handled)' = ServedWaits(Handled)
    BY <2>3, <2>4 DEF ServedWaits
  <2>. QED
    BY <2>2, <2>5 DEF FiredInv
<1>4. CASE Receive \/ CloseStdin \/ HangUp
  BY <1>0, <1>1, <1>4
     DEF Receive, CloseStdin, HangUp, loopVars, hookVars, Handled, FiredInv
<1>5. CASE ReadFrame
  <2>1. /\ pc = "read" /\ UNCHANGED <<asked, ready, written>>
        /\ \/ pc' = "serve" /\ exit' = exit
           \/ pc' = "exited" /\ exit' \in {"2", "3"}
    BY <1>5 DEF ReadFrame, LeaveLoop, clientVars, hookVars
  <2>2. exit = "running"
    BY <1>0, <2>1
  <2>. QED
    BY <1>1, <2>1, <2>2 DEF Handled
<1>6. CASE ReadEof
  <2>1. /\ pc = "read" /\ UNCHANGED <<asked, ready, written>>
        /\ pc' = "exited" /\ exit' \in {"0", "2"}
    BY <1>6 DEF ReadEof, ExitAtEof, LeaveLoop, clientVars, hookVars
  <2>. QED
    BY <1>0, <1>1, <2>1 DEF Handled
<1>7. CASE Initialize
  BY <1>0, <1>1, <1>7 DEF Initialize, clientVars, Handled, FiredInv
<1>8. CASE Dispatch
  BY <1>8, FiredDispatch
<1>9. CASE WriteFrame
  <2>1. /\ pc = "write" /\ UNCHANGED <<asked, ready, taken>>
        /\ \/ pc' = "flush" /\ exit' = exit
           \/ pc' = "exited" /\ exit' = "5"
    BY <1>9, WriteFrameFacts, Zenon DEF clientVars, hookVars
  <2>. QED
    BY <1>0, <1>1, <2>1 DEF Handled
<1>10. CASE Flush
  <2>1. /\ pc = "flush" /\ UNCHANGED <<asked, ready, taken>>
        /\ \/ pc' = "read" /\ exit' = exit
           \/ pc' = "exited" /\ exit' = "5"
    BY <1>10, FlushFacts, Zenon DEF clientVars, hookVars
  <2>2. pc' = "read" => Len(written') = taken
    <3>1. Cursors'
      BY CursorsStep
    <3>. QED
      BY <2>1, <3>1 DEF Cursors
  <2>. QED
    BY <1>0, <1>1, <2>1, <2>2 DEF Handled
<1>11. CASE ReadFails
  <2>1. pc = "read" /\ exit = "running"
    BY <1>0, <1>11, ReadFailsFacts
  <2>. QED
    BY <1>1, <1>11, <2>1, ReadFailsFacts DEF clientVars, hookVars, Handled
<1>12. CASE ProviderThrows
  <2>1. /\ pc = "serve" /\ UNCHANGED <<asked, ready, written>>
        /\ pc' = "exited" /\ exit' = "exception"
    BY <1>12 DEF ProviderThrows, LeaveLoop, clientVars, hookVars
  <2>. QED
    BY <1>0, <1>1, <2>1 DEF Handled
<1>13. CASE Exited \/ UNCHANGED vars
  BY <1>0, <1>1, <1>13
     DEF Exited, vars, clientVars, loopVars, hookVars, Handled, FiredInv
<1>. QED
  BY <1>2, <1>3, <1>4, <1>5, <1>6, <1>7, <1>8, <1>9, <1>10, <1>11, <1>12, <1>13
     DEF Next, Client, Loop

(* The hook that starts a provider's ticker has fired for every WaitReady  *)
(* handled after the handshake and for no other request, once each and in  *)
(* order, and never before the provider's start-up.                        *)
THEOREM ReadyHookCorrect == Spec => []ReadyHookAfterStartup
<1>1. Init => ReadyInv /\ FiredInv
  BY DEF Init, ReadyInv, FiredInv, ServedWaits, Handled
<1>2. LoopInv /\ StartupInv /\ ReadyInv /\ [Next]_vars => ReadyInv'
  BY ReadyStep
<1>3. LoopInv /\ StartupInv /\ FiredInv /\ [Next]_vars => FiredInv'
  BY FiredStep
<1>4. ReadyInv /\ FiredInv => ReadyHookAfterStartup
  BY DEF ReadyInv, ReadyAt, FiredInv, ReadyHookAfterStartup
<1>. QED
  BY StartupInvariant, <1>1, <1>2, <1>3, <1>4, PTL DEF Spec

-----------------------------------------------------------------------------
(* The exit code. *)

(* A code that is not an exit's comes with a loop that is still running,   *)
(* and a frame can be cut short only by closing the pipe.                  *)
ExitInv ==
  /\ pc # "exited" => exit = "running"
  /\ torn => ~stdinOpen
  /\ ExitCodeExplains

(* Every way out of the loop sets the exit code that explains it. *)
LEMMA ExitStep ==
  ASSUME LoopInv, LoopInv', ExitInv, [Next]_vars PROVE ExitInv'
<1>0. /\ taken \in Nat /\ Len(written) \in Nat /\ Len(asked) \in Nat
      /\ torn \in BOOLEAN /\ stdinOpen \in BOOLEAN /\ readerOpen \in BOOLEAN
      /\ exit \in ExitCodes
  BY DEF LoopInv, TypeOK
<1>1. ASSUME pc' # "exited", exit' = "running", torn' => ~stdinOpen'
      PROVE  ExitInv'
  BY <1>1 DEF ExitInv, ExitCodeExplains
<1>2. ASSUME UNCHANGED <<exit, pc, inputFailed, asked, taken, written>>,
             torn' => ~stdinOpen', ~stdinOpen => UNCHANGED <<torn, stdinOpen>>,
             readerOpen' => readerOpen, stdinOpen' => stdinOpen
      PROVE  ExitInv'
  BY <1>0, <1>2 DEF ExitInv, ExitCodeExplains, ExitCodes
<1>3. ASSUME pc # "exited", exit' = exit, pc' # "exited", torn' => ~stdinOpen'
      PROVE  ExitInv'
  BY <1>1, <1>3 DEF ExitInv
<1>4. ASSUME NEW f \in ClientFrames, BeginSend(f) PROVE ExitInv'
  BY <1>3, <1>4 DEF BeginSend, loopVars, ExitInv
<1>5. CASE FinishSend
  BY <1>3, <1>5 DEF FinishSend, loopVars, ExitInv
<1>6. CASE Receive \/ HangUp
  BY <1>2, <1>6 DEF Receive, HangUp, loopVars, ExitInv
<1>7. CASE CloseStdin
  BY <1>0, <1>2, <1>7 DEF CloseStdin, loopVars, ExitInv
<1>8. CASE ReadFrame
  <2>1. /\ pc = "read" /\ exit = "running" /\ taken' = taken + 1
        /\ UNCHANGED <<asked, torn, stdinOpen>>
    BY <1>8 DEF ReadFrame, ExitInv, clientVars
  <2>2. \/ asked[taken + 1].kind = "bad_length" /\ exit' = "2" /\ pc' = "exited"
        \/ asked[taken + 1].kind = "unparseable" /\ exit' = "3" /\ pc' = "exited"
        \/ pc' = "serve" /\ exit' = exit
    BY <1>8 DEF ReadFrame, LeaveLoop
  <2>. QED
    BY <1>1, <2>1, <2>2 DEF ExitInv, ExitCodeExplains
<1>9. CASE ReadEof
  <2>1. /\ taken = Len(asked) /\ ~stdinOpen /\ Len(written) = taken
        /\ UNCHANGED <<asked, torn, stdinOpen, written>>
        /\ exit' = IF torn THEN "2" ELSE "0"
        /\ pc' = "exited"
    BY <1>9 DEF ReadEof, AtEof, NothingToRead, ExitAtEof, LeaveLoop, LoopInv,
                Cursors, clientVars
  <2>. QED
    BY <2>1 DEF ExitInv, ExitCodeExplains
<1>10. CASE Initialize
  BY <1>3, <1>10 DEF Initialize, ExitInv, clientVars
<1>11. CASE Dispatch
  BY <1>3, <1>11 DEF Dispatch, ExitInv, clientVars
<1>12. ASSUME exit' = "5", pc' = "exited", ~readerOpen', Len(written') = taken' - 1,
              taken' \in Nat, UNCHANGED <<torn, stdinOpen>>
       PROVE  ExitInv'
  BY <1>12 DEF ExitInv, ExitCodeExplains
<1>13. CASE WriteFrame
  <2>1. /\ pc = "write" /\ UNCHANGED <<torn, stdinOpen, readerOpen, taken>>
        /\ Len(written) = taken - 1
    BY <1>13, WriteFrameFacts DEF LoopInv, Cursors, clientVars
  <2>2. \/ pc' = "flush" /\ exit' = exit
        \/ pc' = "exited" /\ exit' = "5" /\ written' = written
    BY <1>13, WriteFrameFacts, Zenon
  <2>3. pc' = "exited" => ~readerOpen
    BY <1>13, Zenon DEF WriteFrame
  <2>. QED
    BY <1>0, <1>3, <1>12, <2>1, <2>2, <2>3 DEF ExitInv
<1>14. CASE Flush
  <2>1. pc = "flush" /\ UNCHANGED <<torn, stdinOpen, readerOpen, taken>>
    BY <1>14, FlushFacts DEF clientVars
  <2>2. \/ pc' = "read" /\ exit' = exit
        \/ buffered /\ pc' = "exited" /\ exit' = "5" /\ written' = written
    BY <1>14, FlushFacts, Zenon
  <2>3. pc' = "exited" => ~readerOpen
    BY <1>14, Zenon DEF Flush
  <2>4. buffered => Len(written) = taken - 1
    BY <2>1 DEF LoopInv, Cursors
  <2>. QED
    BY <1>0, <1>3, <1>12, <2>1, <2>2, <2>3, <2>4 DEF ExitInv
<1>15. CASE ReadFails
  BY <1>15, ReadFailsFacts DEF ExitInv, ExitCodeExplains, clientVars
<1>16. CASE ProviderThrows
  BY <1>16 DEF ProviderThrows, LeaveLoop, ExitInv, ExitCodeExplains, clientVars
<1>17. CASE Exited \/ UNCHANGED vars
  BY <1>2, <1>17 DEF Exited, vars, clientVars, loopVars, ExitInv
<1>. QED
  BY <1>4, <1>5, <1>6, <1>7, <1>8, <1>9, <1>10, <1>11, <1>13, <1>14, <1>15,
     <1>16, <1>17 DEF Next, Client, Loop

(* Whatever the client does and whenever it does it, before the end or     *)
(* after, the code run_loop returned names what happened.                  *)
THEOREM ExitCodeCorrect == Spec => []ExitCodeExplains
<1>1. Init => ExitInv
  BY DEF Init, ExitInv, ExitCodeExplains
<1>2. LoopInv /\ LoopInv' /\ ExitInv /\ [Next]_vars => ExitInv'
  BY ExitStep
<1>3. ExitInv => ExitCodeExplains
  BY DEF ExitInv
<1>. QED
  BY LoopInvariant, <1>1, <1>2, <1>3, PTL DEF Spec

-----------------------------------------------------------------------------
(* Shutdown. *)

ShutdownInv == shutdowns = IF pc = "exited" THEN 1 ELSE 0

(* One step either keeps the loop running or runs the guard, and the loop  *)
(* takes none once it has exited.                                          *)
LEMMA ShutdownStep ==
  ASSUME LoopInv, ShutdownInv, [Next]_vars
  PROVE  ShutdownInv' /\ (shutdowns = 1 => UNCHANGED loopVars)
<1>1. CASE UNCHANGED loopVars
  BY <1>1 DEF ShutdownInv, loopVars
<1>2. ASSUME pc # "exited", LeaveLoop(exit') PROVE ShutdownInv' /\ shutdowns = 0
  BY <1>2 DEF ShutdownInv, LeaveLoop
<1>3. ASSUME pc # "exited", pc' # "exited", shutdowns' = shutdowns
      PROVE  ShutdownInv' /\ shutdowns = 0
  BY <1>3 DEF ShutdownInv
<1>4. CASE Client
  BY <1>1, <1>4 DEF Client, BeginSend, FinishSend, Receive, CloseStdin, HangUp
<1>5. CASE ReadFrame
  <2>1. pc = "read" /\ (LeaveLoop(exit') \/ (pc' = "serve" /\ shutdowns' = shutdowns))
    BY <1>5, Zenon DEF ReadFrame, LeaveLoop
  <2>. QED
    BY <1>2, <1>3, <2>1
<1>6. CASE ReadEof
  BY <1>2, <1>6 DEF ReadEof, LeaveLoop
<1>7. CASE Initialize
  BY <1>3, <1>7 DEF Initialize
<1>8. CASE Dispatch
  BY <1>3, <1>8 DEF Dispatch
<1>9. CASE WriteFrame
  <2>1. /\ pc = "write"
        /\ \/ pc' = "flush" /\ shutdowns' = shutdowns
           \/ pc' = "exited" /\ shutdowns' = shutdowns + 1
    BY <1>9, WriteFrameFacts, Zenon
  <2>. QED
    BY <2>1 DEF ShutdownInv
<1>10. CASE Flush
  <2>1. /\ pc = "flush"
        /\ \/ pc' = "read" /\ shutdowns' = shutdowns
           \/ pc' = "exited" /\ shutdowns' = shutdowns + 1
    BY <1>10, FlushFacts, Zenon
  <2>. QED
    BY <2>1 DEF ShutdownInv
<1>11. CASE ReadFails
  BY <1>11, ReadFailsFacts DEF ShutdownInv
<1>12. CASE ProviderThrows
  BY <1>12 DEF ProviderThrows, LeaveLoop, ShutdownInv
<1>13. CASE Exited \/ UNCHANGED vars
  BY <1>1, <1>13 DEF Exited, vars
<1>. QED
  BY <1>4, <1>5, <1>6, <1>7, <1>8, <1>9, <1>10, <1>11, <1>12, <1>13
     DEF Next, Loop

(* on_shutdown has fired exactly when the loop has been left. *)
THEOREM ShutdownInvariant == Spec => []ShutdownInv
<1>1. Init => ShutdownInv
  BY DEF Init, ShutdownInv
<1>2. LoopInv /\ ShutdownInv /\ [Next]_vars => ShutdownInv'
  BY ShutdownStep
<1>. QED
  BY LoopInvariant, <1>1, <1>2, PTL DEF Spec

(* on_shutdown fires once on every way out, the exceptions of the          *)
(* provider's own code included, and nothing of the loop follows it.       *)
THEOREM ShutdownCorrect == Spec => ShutdownIsLast
<1>1. /\ LoopInv /\ ShutdownInv /\ ShutdownInv' /\ [Next]_vars
      => [ /\ (pc' = "exited") = (shutdowns' = 1)
           /\ shutdowns = 1 => UNCHANGED loopVars ]_vars
  BY ShutdownStep DEF ShutdownInv
<1>. QED
  BY LoopInvariant, ShutdownInvariant, <1>1, PTL DEF Spec, ShutdownIsLast

-----------------------------------------------------------------------------
(* The loop implements the session. *)

(* A frame being sent is one this client sends. *)
SendInv == want \in ClientFrames \cup {Nothing}

(* The client writes frames of its own vocabulary. *)
LEMMA SendStep == ASSUME SendInv, [Next]_vars PROVE SendInv'
BY DEF SendInv, Next, Client, BeginSend, FinishSend, Receive, CloseStdin,
       HangUp, Loop, ReadFrame, ReadEof, Initialize, Dispatch, WriteFrame, Flush,
       ReadFails, ProviderThrows, Exited, vars, clientVars

RefinementInv == LoopInv /\ StartupInv /\ ShutdownInv /\ SendInv

(* What the refinement of the abstract session rests on. *)
THEOREM RefinementInvariant == Spec => []RefinementInv
<1>1. Init => SendInv
  BY DEF Init, SendInv
<1>2. Spec => []SendInv
  BY <1>1, SendStep, PTL DEF Spec
<1>. QED
  BY StartupInvariant, ShutdownInvariant, <1>2, PTL DEF RefinementInv

(* The session speaks the same vocabulary. *)
LEMMA SameVocabulary ==
  /\ Session!HelloKinds = HelloKinds
  /\ Session!RequestKinds = RequestKinds
  /\ Session!ClientFrames = ClientFrames
  /\ Session!Codes = Codes
  /\ \A n : Session!GreetedIn(asked, n) <=> GreetedIn(asked, n)
<1>1. Session!HelloKinds = HelloKinds
  BY DEF HelloKinds, Session!HelloKinds
<1>2. Session!RequestKinds = RequestKinds
  BY DEF HelloKinds, Session!HelloKinds, InventoryKinds, Session!InventoryKinds,
         RequestKinds, Session!RequestKinds
<1>3. Session!Frame = Frame
  BY <1>2 DEF Frame, Session!Frame, FatalKinds, Session!FatalKinds
<1>4. Session!ClientFrames = ClientFrames
  BY <1>3 DEF ClientFrames, Session!ClientFrames
<1>5. Session!Codes = Codes
  BY DEF Codes, Session!Codes
<1>. QED
  BY <1>1, <1>2, <1>4, <1>5 DEF GreetedIn, Session!GreetedIn

(* A response that reaches the client's pipe is an Answer of the session. *)
LEMMA DeliveryAnswers ==
  ASSUME LoopInv, StartupInv, ShutdownInv, pc # "exited", Answering,
         taken >= 1, Len(written) = taken - 1, request.kind \in RequestKinds,
         Allowed(taken, response.code),
         written' = Append(written, response), shutdowns' = shutdowns,
         UNCHANGED <<asked, inits>>
  PROVE  Session!Answer(response.code) /\ response.code \in Codes
<1>1. /\ Len(written) \in Nat /\ taken \in Nat /\ taken <= Len(asked)
      /\ Len(inits) \in Nat
  BY DEF LoopInv, TypeOK, Cursors
<1>2. Session!Turn = taken
  BY <1>1 DEF Session!Turn
<1>3. /\ response.code \in Codes
      /\ response = [id |-> asked[taken].id, code |-> response.code]
  BY DEF Answering, Response, request
<1>4. initialized => Len(inits) = 1
  BY DEF StartupInv
<1>5. Session!Permitted(taken, response.code)
  BY <1>4, SameVocabulary DEF Session!Permitted, Allowed, request
<1>. QED
  BY <1>1, <1>2, <1>3, <1>5 DEF Session!Answer, ShutdownInv

(* Every step of the loop is a step of the session or a stutter. *)
LEMMA SessionStep ==
  ASSUME RefinementInv, [Next]_vars PROVE [Session!Next]_(Session!vars)
<1>. USE DEF RefinementInv
<1>0. /\ Len(written) \in Nat /\ taken \in Nat /\ taken <= Len(asked)
      /\ Len(asked) \in Nat
  BY DEF LoopInv, TypeOK, Cursors
<1>1. CASE UNCHANGED <<asked, written, inits, shutdowns>>
  BY <1>1 DEF Session!vars
<1>2. ASSUME pc # "exited", shutdowns' = shutdowns + 1,
             UNCHANGED <<asked, written, inits>>
      PROVE  Session!Next
  BY <1>2 DEF Session!Next, Session!End, ShutdownInv
<1>3. ASSUME NEW f \in ClientFrames, BeginSend(f)
      PROVE  UNCHANGED <<asked, written, inits, shutdowns>>
  BY <1>3 DEF BeginSend, loopVars, hookVars
<1>4. CASE FinishSend
  <2>1. want \in ClientFrames
    BY <1>4 DEF FinishSend, SendInv
  <2>2. Session!Ask(want)
    BY <1>4 DEF FinishSend, Session!Ask, ShutdownInv, loopVars, hookVars
  <2>. QED
    BY <2>1, <2>2, SameVocabulary DEF Session!Next
<1>5. CASE Receive \/ CloseStdin \/ HangUp
  BY <1>1, <1>5 DEF Receive, CloseStdin, HangUp, loopVars, hookVars
<1>6. CASE ReadFrame
  <2>1. /\ pc = "read" /\ UNCHANGED <<asked, written, inits>>
        /\ shutdowns' = shutdowns \/ shutdowns' = shutdowns + 1
    <3>1. pc = "read" /\ UNCHANGED <<asked, written, inits>>
      BY <1>6 DEF ReadFrame, clientVars, hookVars
    <3>2. shutdowns' = shutdowns \/ shutdowns' = shutdowns + 1
      BY <1>6, Zenon DEF ReadFrame, LeaveLoop
    <3>. QED
      BY <3>1, <3>2
  <2>. QED
    BY <1>1, <1>2, <2>1
<1>7. CASE ReadEof
  BY <1>2, <1>7 DEF ReadEof, LeaveLoop, clientVars, hookVars
<1>8. CASE Initialize
  <2>1. Session!Turn = taken /\ Len(inits) = 0 /\ pc = "serve"
    BY <1>0, <1>8 DEF Initialize, InitializeDue, Session!Turn, LoopInv, Cursors,
                      StartupInv
  <2>2. /\ asked[taken].kind \in RequestKinds \ HelloKinds
        /\ GreetedIn(asked, taken - 1)
    BY <1>8, <2>1 DEF Initialize, InitializeDue, LoopInv, Cursors, StartupInv,
                      request
  <2>3. Len(inits') = 1
    <3>1. inits = <<>>
      BY <1>8 DEF Initialize, InitializeDue, StartupInv
    <3>. QED
      BY <1>8, <3>1 DEF Initialize
  <2>4. Session!Start
    BY <1>0, <1>8, <2>1, <2>2, <2>3, SameVocabulary
       DEF Session!Start, Initialize, ShutdownInv, clientVars
  <2>. QED
    BY <2>4 DEF Session!Next
<1>9. CASE Dispatch
  BY <1>1, <1>9 DEF Dispatch, clientVars
<1>10. CASE WriteFrame
  <2>1. /\ pc = "write" /\ UNCHANGED <<asked, inits>>
        /\ \/ written' = written /\ shutdowns' = shutdowns
           \/ written' = Append(written, response) /\ shutdowns' = shutdowns
           \/ written' = written /\ shutdowns' = shutdowns + 1
    <3>1. pc = "write" /\ UNCHANGED <<asked, inits>>
      BY <1>10, WriteFrameFacts DEF clientVars, hookVars
    <3>2. \/ written' = written /\ shutdowns' = shutdowns
          \/ written' = Append(written, response) /\ shutdowns' = shutdowns
          \/ written' = written /\ shutdowns' = shutdowns + 1
      BY <1>10, WriteFrameFacts, Zenon
    <3>. QED
      BY <3>1, <3>2
  <2>2. /\ Answering /\ taken >= 1 /\ Len(written) = taken - 1
        /\ request.kind \in RequestKinds /\ Allowed(taken, response.code)
    BY <2>1 DEF LoopInv, Cursors, StartupInv
  <2>. QED
    BY <1>1, <1>2, <2>1, <2>2, DeliveryAnswers, SameVocabulary
       DEF Session!Next
<1>11. CASE Flush
  <2>1. /\ pc = "flush" /\ UNCHANGED <<asked, inits>>
        /\ \/ written' = written /\ shutdowns' = shutdowns
           \/ buffered /\ written' = Append(written, response) /\ shutdowns' = shutdowns
           \/ written' = written /\ shutdowns' = shutdowns + 1
    <3>1. pc = "flush" /\ UNCHANGED <<asked, inits>>
      BY <1>11, FlushFacts DEF clientVars, hookVars
    <3>2. \/ written' = written /\ shutdowns' = shutdowns
          \/ buffered /\ written' = Append(written, response) /\ shutdowns' = shutdowns
          \/ written' = written /\ shutdowns' = shutdowns + 1
      BY <1>11, FlushFacts, Zenon
    <3>. QED
      BY <3>1, <3>2
  <2>2. buffered =>
          /\ Answering /\ taken >= 1 /\ Len(written) = taken - 1
          /\ request.kind \in RequestKinds /\ Allowed(taken, response.code)
    BY <2>1 DEF LoopInv, Cursors, StartupInv
  <2>. QED
    BY <1>1, <1>2, <2>1, <2>2, DeliveryAnswers, SameVocabulary
       DEF Session!Next
<1>12. CASE ReadFails
  BY <1>2, <1>12, ReadFailsFacts DEF clientVars, hookVars
<1>13. CASE ProviderThrows
  BY <1>2, <1>13 DEF ProviderThrows, LeaveLoop, clientVars, hookVars
<1>14. CASE Exited \/ UNCHANGED vars
  BY <1>1, <1>14 DEF Exited, vars, clientVars, loopVars, hookVars
<1>. QED
  BY <1>1, <1>3, <1>4, <1>5, <1>6, <1>7, <1>8, <1>9, <1>10, <1>11, <1>12,
     <1>13, <1>14 DEF Next, Client, Loop

(* The serving loop, with its pipes, its buffer and its client, implements *)
(* the abstract session.                                                   *)
THEOREM LoopImplementsSession == Spec => ImplementsSession
<1>1. Init => Session!Init
  BY DEF Init, Session!Init
<1>. QED
  BY RefinementInvariant, SessionStep, <1>1, PTL DEF Spec, Session!Spec, ImplementsSession

-----------------------------------------------------------------------------
(* The reference provider behind the loop. *)

(* The session only adds to the loop's steps what the provider does in them. *)
LEMMA SessionStepIsLoopStep == [SessionNext]_sessionVars => [Next]_vars
<1>. SUFFICES ASSUME [SessionNext]_sessionVars PROVE [Next]_vars
  OBVIOUS
<1>1. CASE LoopStep
  BY <1>1 DEF LoopStep, TakeIn, Serve, GiveOut, Next, Loop
<1>2. CASE InputFails
  BY <1>2 DEF InputFails, Next
<1>3. CASE ClientStep
  BY <1>3 DEF ClientStep, Asks, Next, Client
<1>4. CASE TimeStep
  BY <1>4 DEF TimeStep
<1>5. CASE Exited /\ UNCHANGED sessionVars
  BY <1>5 DEF Next
<1>6. CASE UNCHANGED sessionVars
  BY <1>6 DEF sessionVars
<1>. QED
  BY <1>1, <1>2, <1>3, <1>4, <1>5, <1>6 DEF SessionNext

(* Whatever holds of the loop holds of it with this provider: the session's *)
(* answers, start-up, exit code and shutdown are those of RunLoop.          *)
THEOREM SessionImplementsLoop == SessionSpec => Spec
<1>1. SessionInit => Init
  BY DEF SessionInit
<1>. QED
  BY <1>1, SessionStepIsLoopStep, PTL DEF SessionSpec, Spec

(* What is proved of the loop's cursors, exit and client holds in the *)
(* session.                                                           *)
THEOREM SessionLoopInvariant == SessionSpec => [](LoopInv /\ ShutdownInv /\ SendInv)
<1>1. RefinementInv => LoopInv /\ ShutdownInv /\ SendInv
  BY DEF RefinementInv
<1>. QED
  BY SessionImplementsLoop, RefinementInvariant, <1>1, PTL

-----------------------------------------------------------------------------
(* What a request means. *)

(* Each frame is of the kind that its id means. *)
MeaningInv ==
  /\ want # Nothing => want.kind = Meaning[want.id].kind
  /\ \A k \in 1..Len(asked) : asked[k].kind = Meaning[asked[k].id].kind

(* The client keeps to what the ids of its requests mean. *)
LEMMA MeaningStep ==
  ASSUME LoopInv, MeaningInv, [SessionNext]_sessionVars PROVE MeaningInv'
<1>1. ASSUME UNCHANGED <<want, asked>> PROVE MeaningInv'
  BY <1>1 DEF MeaningInv
<1>2. CASE LoopStep
  <2>1. UNCHANGED clientVars
    BY <1>2, WriteFrameFacts, FlushFacts
       DEF LoopStep, TakeIn, Serve, GiveOut, ReadFrame, ReadEof, Initialize, Dispatch
  <2>. QED
    BY <1>1, <2>1 DEF clientVars
<1>3. CASE InputFails
  BY <1>1, <1>3, ReadFailsFacts DEF InputFails, clientVars
<1>4. ASSUME NEW f \in Asks, BeginSend(f) PROVE MeaningInv'
  BY <1>4 DEF Asks, BeginSend, MeaningInv
<1>5. CASE FinishSend
  <2>1. /\ want # Nothing /\ want \in Frame /\ asked \in Seq(Frame)
        /\ asked' = Append(asked, want) /\ want' = Nothing
    BY <1>5 DEF FinishSend, LoopInv, TypeOK
  <2>2. /\ Len(asked') = Len(asked) + 1 /\ asked'[Len(asked) + 1] = want
        /\ \A i \in 1..Len(asked) : asked'[i] = asked[i]
        /\ Len(asked) \in Nat
    BY <2>1, AppendFacts
  <2>3. \A i \in 1..Len(asked') : i \in 1..Len(asked) \/ i = Len(asked) + 1
    BY <2>2
  <2>. QED
    BY <2>1, <2>2, <2>3 DEF MeaningInv
<1>6. CASE Receive \/ HangUp
  BY <1>1, <1>6 DEF Receive, HangUp
<1>7. CASE CloseStdin
  BY <1>7 DEF CloseStdin, MeaningInv
<1>8. CASE TimeStep \/ (Exited /\ UNCHANGED sessionVars) \/ UNCHANGED sessionVars
  BY <1>1, <1>8 DEF TimeStep, sessionVars, vars, clientVars
<1>. QED
  BY <1>2, <1>3, <1>4, <1>5, <1>6, <1>7, <1>8 DEF SessionNext, ClientStep

(* Every request is of the kind that its id stands for, in every state. *)
THEOREM MeaningInvariant == SessionSpec => [](LoopInv /\ ShutdownInv /\ MeaningInv)
<1>1. SessionInit => MeaningInv
  BY DEF SessionInit, Init, MeaningInv
<1>2. LoopInv /\ MeaningInv /\ [SessionNext]_sessionVars => MeaningInv'
  BY MeaningStep
<1>. QED
  BY SessionLoopInvariant, <1>1, <1>2, PTL DEF SessionSpec

(* The loop's own step stops the heaters exactly when it leaves the loop. *)
LEMMA OnShutdownStops ==
  ASSUME ShutdownInv, ShutdownInv', OnShutdown
  PROVE  IF (pc = "exited") # (pc' = "exited") THEN Stop ELSE UNCHANGED heaterVars
BY DEF ShutdownInv, OnShutdown

-----------------------------------------------------------------------------
(* The heaters' energy. *)

HeaterInv ==
  /\ HeaterTypeOK
  /\ \A h \in Heaters : at[h] <= now
  /\ EnergyIsConserved

(* The energy count moved to now is a natural number. *)
LEMMA AdvancedType ==
  ASSUME HeaterInv, NEW h \in Heaters
  PROVE  Advanced(h) \in Nat
<1>1. /\ energy[h] \in Nat /\ power[h] \in Nat /\ at[h] \in Nat
      /\ now \in Nat /\ at[h] <= now
  BY HeatersAssumption DEF HeaterInv, HeaterTypeOK, Levels
<1>2. now - at[h] \in Nat
  BY <1>1
<1>3. \A p \in Nat, d \in Nat : p * d \in Nat
  OBVIOUS
<1>. QED
  BY <1>1, <1>2, <1>3 DEF Advanced

(* A heater whose model has been moved to now has nothing to accrue. *)
LEMMA AdvancedNow ==
  ASSUME HeaterInv, HeaterTypeOK', NEW h \in Heaters, at'[h] = now'
  PROVE  Advanced(h)' = energy'[h]
<1>1. energy'[h] \in Nat /\ power'[h] \in Levels /\ now' \in Nat
  BY DEF HeaterTypeOK, Levels
<1>3. power'[h] \in Nat
  BY <1>1, HeatersAssumption DEF Levels
<1>4. \A n \in Nat : n - n = 0
  OBVIOUS
<1>2. \A p \in Nat : p * 0 = 0
  OBVIOUS
<1>. QED
  BY <1>1, <1>2, <1>3, <1>4 DEF Advanced

(* Passing time draws what the count will show when it is next moved to *)
(* now.                                                                 *)
LEMMA TickStep == ASSUME HeaterInv, Tick PROVE HeaterInv'
<1>0. /\ now \in Nat /\ now' = now + 1 /\ UNCHANGED <<power, energy, at, taken_out>>
      /\ drawn' = [h \in Heaters |-> drawn[h] + power[h]]
  BY DEF Tick, HeaterInv, HeaterTypeOK
<1>1. \A h \in Heaters : /\ energy[h] \in Nat /\ power[h] \in Nat /\ at[h] \in Nat
                         /\ at[h] <= now /\ drawn[h] \in Nat /\ taken_out[h] \in Nat
  BY HeatersAssumption DEF HeaterInv, HeaterTypeOK, Levels
<1>2. HeaterTypeOK'
  BY <1>0, <1>1 DEF HeaterInv, HeaterTypeOK
<1>3. ASSUME NEW h \in Heaters PROVE Advanced(h)' = Advanced(h) + power[h]
  <2>1. \A p \in Nat, d \in Nat : p * (d + 1) = p * d + p
    OBVIOUS
  <2>2. now - at[h] \in Nat /\ now' - at'[h] = (now - at[h]) + 1
    BY <1>0, <1>1
  <2>3. power[h] * (now' - at'[h]) = power[h] * (now - at[h]) + power[h]
    BY <1>1, <2>1, <2>2
  <2>4. power[h] * (now - at[h]) \in Nat
    BY <1>1, <2>2
  <2>. QED
    BY <1>0, <1>1, <2>3, <2>4 DEF Advanced
<1>4. ASSUME NEW h \in Heaters PROVE Advanced(h)' + taken_out'[h] = drawn'[h]
  <2>1. Advanced(h) + taken_out[h] = drawn[h] /\ Advanced(h) \in Nat
    BY AdvancedType DEF HeaterInv, EnergyIsConserved
  <2>. QED
    BY <1>0, <1>1, <1>3, <2>1
<1>5. EnergyIsConserved'
  BY <1>4 DEF EnergyIsConserved
<1>. QED
  BY <1>0, <1>1, <1>2, <1>5 DEF HeaterInv

(* A step that moves one heater's model to now, sets its power and may     *)
(* hand its count over keeps the sum.                                      *)
LEMMA MoveStep ==
  ASSUME HeaterInv, NEW h \in Heaters, NEW level \in Levels,
         SetPower(h, level) \/ ResetEnergy(h) \/ advance(h)
  PROVE  HeaterInv'
<1>1. Advanced(h) \in Nat
  BY AdvancedType
<1>2. /\ UNCHANGED <<now, drawn>> /\ at' = [at EXCEPT ![h] = now]
      /\ \/ power' = power
         \/ power' = [power EXCEPT ![h] = level]
      /\ \/ energy' = [energy EXCEPT ![h] = Advanced(h)] /\ taken_out' = taken_out
         \/ /\ energy' = [energy EXCEPT ![h] = 0]
            /\ taken_out' = [taken_out EXCEPT ![h] = taken_out[h] + Advanced(h)]
  BY DEF SetPower, ResetEnergy, advance
<1>3. HeaterTypeOK'
  BY <1>1, <1>2 DEF HeaterInv, HeaterTypeOK
<1>4. \A g \in Heaters : at'[g] <= now'
  BY <1>2 DEF HeaterInv, HeaterTypeOK
<1>5. ASSUME NEW g \in Heaters PROVE Advanced(g)' + taken_out'[g] = drawn'[g]
  <2>0. Advanced(g) + taken_out[g] = drawn[g] /\ taken_out[g] \in Nat
    BY DEF HeaterInv, HeaterTypeOK, EnergyIsConserved
  <2>1. CASE g # h
    <3>1. Advanced(g)' = Advanced(g) /\ taken_out'[g] = taken_out[g]
      BY <1>2, <2>1 DEF Advanced, HeaterInv, HeaterTypeOK
    <3>. QED
      BY <1>2, <2>0, <3>1
  <2>2. CASE g = h
    <3>1. Advanced(h)' = energy'[h]
      BY <1>2, <1>3, AdvancedNow DEF HeaterInv, HeaterTypeOK
    <3>2. energy'[h] + taken_out'[h] = Advanced(h) + taken_out[h]
      BY <1>1, <1>2, <2>0, <2>2 DEF HeaterInv, HeaterTypeOK
    <3>. QED
      BY <1>2, <2>0, <2>2, <3>1, <3>2
  <2>. QED
    BY <2>1, <2>2
<1>. QED
  BY <1>3, <1>4, <1>5 DEF HeaterInv, EnergyIsConserved

(* stop() moves every count to now before it turns the heaters off. *)
LEMMA StopStep == ASSUME HeaterInv, Stop PROVE HeaterInv'
<1>1. \A h \in Heaters : Advanced(h) \in Nat
  BY AdvancedType
<1>2. HeaterTypeOK'
  BY <1>1, HeatersAssumption DEF Stop, HeaterInv, HeaterTypeOK, Levels
<1>3. ASSUME NEW h \in Heaters PROVE Advanced(h)' + taken_out'[h] = drawn'[h]
  <2>1. Advanced(h)' = Advanced(h)
    BY <1>2, AdvancedNow DEF Stop
  <2>. QED
    BY <2>1 DEF Stop, HeaterInv, EnergyIsConserved
<1>. QED
  BY <1>2, <1>3 DEF Stop, HeaterInv, HeaterTypeOK, EnergyIsConserved

(* A step that leaves the heaters alone keeps their invariant. *)
LEMMA HeaterStutter ==
  ASSUME HeaterInv, UNCHANGED heaterVars PROVE HeaterInv'
BY DEF HeaterInv, HeaterTypeOK, EnergyIsConserved, Advanced, heaterVars

(* What validate_call_args has let pass and get_arg reads is a level. *)
LEMMA AcceptedLevel ==
  ASSUME NEW id \in Ids, Meaning[id].kind = "call",
         validate_call_args(DeclaredArgs("set_power"), Meaning[id].args) = "OK"
  PROVE  get_arg("double", Meaning[id].args, "power", 0) \in Levels
<1>. DEFINE args == Meaning[id].args
            value == args["power"]
            spec == [name |-> "power", type |-> "double", required |-> TRUE,
                     lo |-> 0, hi |-> Full, allowed |-> {}]
<1>0. DeclaredArgs("set_power") = <<spec>>
  BY DEF DeclaredArgs
<1>1. CheckArg(spec, args) = "OK"
  <2>. DEFINE broken == {i \in DOMAIN <<spec>> : CheckArg(<<spec>>[i], args) # "OK"}
  <2>1. DOMAIN <<spec>> = {1} /\ <<spec>>[1] = spec
    OBVIOUS
  <2>. SUFFICES ASSUME CheckArg(spec, args) # "OK" PROVE FALSE
    OBVIOUS
  <2>2. broken = {1}
    BY <2>1
  <2>3. Min(broken) = 1
    BY <2>2 DEF Min
  <2>. HIDE DEF spec
  <2>. QED
    BY <1>0, <2>1, <2>2, <2>3 DEF validate_call_args
<1>2. "power" \in DOMAIN args
  BY <1>1 DEF CheckArg
<1>3. IsValue(value) /\ value.tag = value.field
  BY <1>2, MeaningAssumption
<1>4. check_type(spec, value) /\ check_bounds(spec, value) = "OK"
  <2>1. CheckArg(spec, args) =
          CASE ~check_type(spec, value) -> "INVALID_ARGUMENT"
            [] check_type(spec, value) /\ check_bounds(spec, value) # "OK" ->
                 check_bounds(spec, value)
            [] OTHER -> IF check_allowed(spec, value) THEN "OK" ELSE "INVALID_ARGUMENT"
    BY <1>2 DEF CheckArg
  <2>. HIDE DEF spec, value
  <2>. QED
    BY <1>1, <2>1
<1>5. value.tag = "double" /\ value.field = "double"
  <2>1. field_for("double") = "double" /\ "double" # Unset
    BY UnsetAssumption DEF field_for, Checked, Numeric
  <2>2. /\ value.field \in {"double", Unset}
        /\ value.tag # Unset \/ value.field # Unset
    BY <1>4, <2>1 DEF check_type
  <2>. QED
    BY <1>3, <2>2
<1>6. Payload("double", value) \in 0..Full
  <2>1. Payload("double", value) \in Int \cup {NonFinite}
    BY <1>3, <1>5 DEF Payload, IsValue, Numeric
  <2>2. Unset \notin Int /\ NonFinite \notin Int /\ Full \in Int
    BY UnsetAssumption, HeatersAssumption
  <2>. DEFINE v == Payload("double", value)
  <2>. HIDE DEF v
  <2>3. /\ spec.type = "double" /\ spec.lo = 0 /\ spec.hi = Full
        /\ v = Payload(spec.type, value)
    BY DEF v
  <2>. HIDE DEF spec
  <2>4. v # NonFinite
    BY <1>4, <2>3 DEF check_bounds, Numeric
  <2>5. v \in Int
    BY <2>1, <2>4 DEF v
  <2>6. check_bounds(spec, value) =
          IF \/ spec.lo # Unset /\ v < spec.lo
             \/ spec.hi # Unset /\ v > spec.hi
          THEN "OUT_OF_RANGE" ELSE "OK"
    BY <2>3, <2>4 DEF check_bounds, Numeric
  <2>7. v >= 0 /\ v <= Full
    BY <1>4, <2>2, <2>3, <2>5, <2>6
  <2>. QED
    BY <2>2, <2>5, <2>7 DEF v
<1>. QED
  BY <1>2, <1>5, <1>6 DEF get_arg, Levels

(* A call or a read, also one that is refused, keeps the energy accounted *)
(* for.                                                                   *)
LEMMA ServeHeaters ==
  ASSUME LoopInv, MeaningInv, HeaterInv, Serve PROVE HeaterInv'
<1>. DEFINE r == Meaning[request.id]
<1>1. /\ request.id \in Ids /\ request.kind = r.kind
  <2>1. taken >= 1 /\ taken <= Len(asked) /\ taken \in Nat
    BY DEF Serve, LoopInv, Cursors, TypeOK
  <2>. QED
    BY <2>1, RequestType DEF LoopInv, MeaningInv, request
<1>2. \/ UNCHANGED heaterVars
      \/ /\ request.kind = "call" /\ Refusal(r) = "OK"
         /\ call(r.device, r.function, r.args)
      \/ r.device \in Heaters /\ advance(r.device)
  BY Zenon DEF Serve, handle_call, handle_read_signals
<1>3. ASSUME request.kind = "call", Refusal(r) = "OK",
             call(r.device, r.function, r.args)
      PROVE  HeaterInv'
  <2>1. r.device \in Heaters
    BY <1>3 DEF Refusal
  <2>2. r.function \in DeclaredFunctions =>
          validate_call_args(DeclaredArgs(r.function), r.args) = "OK"
    BY <1>3, <2>1 DEF Refusal
  <2>3. CASE r.function = "set_power"
    <3>1. get_arg("double", r.args, "power", 0) \in Levels
      BY <1>1, <1>3, <2>2, <2>3, AcceptedLevel DEF DeclaredFunctions
    <3>2. SetPower(r.device, get_arg("double", r.args, "power", 0))
      BY <1>3, <2>3 DEF call
    <3>. QED
      BY <2>1, <3>1, <3>2, MoveStep
  <2>4. CASE r.function # "set_power"
    <3>1. ResetEnergy(r.device) \/ advance(r.device)
      BY <1>3, <2>4 DEF call
    <3>2. 0 \in Levels
      BY HeatersAssumption DEF Levels
    <3>. QED
      BY <2>1, <3>1, <3>2, MoveStep
  <2>. QED
    BY <2>3, <2>4
<1>4. ASSUME r.device \in Heaters, advance(r.device) PROVE HeaterInv'
  <2>1. 0 \in Levels
    BY HeatersAssumption DEF Levels
  <2>. QED
    BY <1>4, <2>1, MoveStep
<1>. QED
  BY <1>2, <1>3, <1>4, HeaterStutter

(* Every step of the session keeps the energy accounted for. *)
LEMMA HeaterStep ==
  ASSUME LoopInv, MeaningInv, HeaterInv, [SessionNext]_sessionVars PROVE HeaterInv'
<1>1. OnShutdown => HeaterInv'
  BY StopStep, HeaterStutter DEF OnShutdown
<1>2. CASE LoopStep
  BY <1>1, <1>2, ServeHeaters DEF LoopStep, TakeIn, GiveOut
<1>3. CASE InputFails
  BY <1>1, <1>3 DEF InputFails
<1>4. CASE ClientStep
  BY <1>4, HeaterStutter DEF ClientStep, Elsewhere
<1>5. CASE TimeStep
  BY <1>5, TickStep DEF TimeStep
<1>6. CASE UNCHANGED sessionVars
  BY <1>6, HeaterStutter DEF sessionVars
<1>. QED
  BY <1>2, <1>3, <1>4, <1>5, <1>6 DEF SessionNext

(* The heaters' invariant, of types and of energy, in every state of the *)
(* session.                                                              *)
THEOREM HeaterInvariant == SessionSpec => []HeaterInv
<1>1. SessionInit => HeaterInv
  <2>. SUFFICES ASSUME SessionInit PROVE HeaterInv
    OBVIOUS
  <2>1. HeaterTypeOK
    BY HeatersAssumption DEF SessionInit, HeaterInit, HeaterTypeOK, Levels
  <2>. QED
    BY <2>1 DEF SessionInit, HeaterInit, HeaterInv, EnergyIsConserved, Advanced
<1>2. /\ LoopInv /\ MeaningInv /\ HeaterInv /\ [SessionNext]_sessionVars
      => HeaterInv'
  BY HeaterStep
<1>. QED
  BY MeaningInvariant, <1>1, <1>2, PTL DEF SessionSpec

(* The model of a heater is only moved when it is used; yet whatever reads, *)
(* calls, late and lost answers come between, no energy is lost or counted  *)
(* twice, and no power is ever outside the scale.                           *)
THEOREM EnergyConserved == SessionSpec => [](HeaterTypeOK /\ EnergyIsConserved)
<1>1. HeaterInv => HeaterTypeOK /\ EnergyIsConserved
  BY DEF HeaterInv
<1>. QED
  BY HeaterInvariant, <1>1, PTL

-----------------------------------------------------------------------------
(* What the client can tell of the power levels. *)

Detail == [side_effects : BOOLEAN, energy : Nat]

DetailInv ==
  /\ detail \in Detail /\ details \in Seq(Detail)
  /\ Len(details) = Len(written)

(* The requests the provider has acted on, and what is or will be said of  *)
(* each: the answer in hand is to the last of them.                        *)
InHand == pc = "write" \/ (pc = "flush" /\ buffered)
Dispatched == 1..Len(written) \cup (IF InHand THEN {taken} ELSE {})

SaysDone(k) ==
  IF k <= Len(written) THEN written[k].code = "OK" \/ details[k].side_effects
                       ELSE response.code = "OK" \/ detail.side_effects
HidesIt(k) ==
  IF k <= Len(written) THEN written[k].code \in {"RESOURCE_EXHAUSTED", "INTERNAL"}
                       ELSE response.code \in {"RESOURCE_EXHAUSTED", "INTERNAL"}

(* A heater's level is what request n asked for, or 0 if n is 0, and the   *)
(* client has been told of no later change.                                *)
SetBy(h, n) ==
  /\ \/ n = 0 /\ power[h] = 0
     \/ /\ n \in Dispatched /\ Calls(n, h, "set_power") /\ power[h] = Asked(n)
        /\ SaysDone(n) \/ HidesIt(n)
  /\ \A k \in Dispatched : Calls(k, h, "set_power") /\ SaysDone(k) => k <= n

LevelInv ==
  /\ DetailInv
  /\ \A h \in Heaters :
       IF pc = "exited" THEN power[h] = 0 ELSE \E n \in Nat : SetBy(h, n)

SessionInv == LoopInv /\ ShutdownInv /\ MeaningInv /\ HeaterInv

(* What one dispatch does to the levels and says of it. *)
LEMMA ServeFacts ==
  ASSUME SessionInv, Serve
  PROVE  /\ UNCHANGED <<asked, taken, written, details, buffered>>
         /\ pc = "serve" /\ pc' = "write"
         /\ detail' \in Detail
         /\ \/ /\ power' = power
               /\ \A h \in Heaters : Calls(taken, h, "set_power") =>
                    response'.code # "OK" /\ ~detail'.side_effects
            \/ \E h \in Heaters :
                 /\ Calls(taken, h, "set_power")
                 /\ \A g \in Heaters : g # h => ~Calls(taken, g, "set_power")
                 /\ power' = [power EXCEPT ![h] = Asked(taken)]
                 /\ \/ response'.code \in {"OK", "RESOURCE_EXHAUSTED"}
                    \/ detail'.side_effects
<1>. DEFINE r == Meaning[request.id]
<1>0. /\ UNCHANGED <<asked, taken, written, details, buffered>>
      /\ pc = "serve" /\ pc' = "write"
  BY DEF Serve, Dispatch, clientVars
<1>1. /\ request.id \in Ids /\ request.kind = r.kind
      /\ request = asked[taken]
  <2>1. taken >= 1 /\ taken <= Len(asked) /\ taken \in Nat
    BY <1>0 DEF SessionInv, LoopInv, Cursors, TypeOK
  <2>. QED
    BY <2>1, RequestType DEF SessionInv, LoopInv, MeaningInv, request
<1>2. NoDetail \in Detail /\ ~NoDetail.side_effects
  BY DEF NoDetail, Detail
<1>3. ASSUME NEW code, code # "OK", Say(code)
      PROVE  response'.code # "OK" /\ detail' \in Detail /\ ~detail'.side_effects
  BY <1>2, <1>3 DEF Say, FramedResponse
<1>4. ASSUME NEW result \in Nat, SayResult(result)
      PROVE  response'.code \in {"OK", "RESOURCE_EXHAUSTED"} /\ detail' \in Detail
  BY <1>4 DEF SayResult, Size, FramedResponse, NoDetail, Detail
<1>5. SayLate => detail' \in Detail /\ detail'.side_effects
  <2>1. SayLate => detail' = [side_effects |-> TRUE, energy |-> 0]
    BY DEF SayLate, NoDetail
  <2>2. SayLate => detail' \in Detail
    <3>1. \A b \in BOOLEAN : [side_effects |-> b, energy |-> 0] \in Detail
      BY DEF Detail
    <3>. QED
      BY <2>1, <3>1, Zenon
  <2>3. SayLate => detail'.side_effects = TRUE
    BY <2>1
  <2>. QED
    BY <2>2, <2>3, Zenon
<1>6. CASE request.kind = "call" /\ Served("call") /\ Refusal(r) = "OK"
  <2>1. /\ call(r.device, r.function, r.args)
        /\ IF CallCode(r.function) # "OK" THEN Say(CallCode(r.function))
           ELSE SayResult(CallResult(r.device, r.function)) \/ SayLate
    BY <1>6 DEF Serve, handle_call
  <2>2. r.device \in Heaters
    BY <1>6 DEF Refusal
  <2>3. CallResult(r.device, r.function) \in Nat
    BY <2>2, AdvancedType DEF CallResult, SessionInv
  <2>4. detail' \in Detail
    BY <1>3, <1>4, <1>5, <2>1, <2>3
  <2>5. CASE r.function = "set_power"
    <3>1. CallCode(r.function) = "OK"
      BY <2>5 DEF CallCode, DeclaredFunctions
    <3>2. response'.code \in {"OK", "RESOURCE_EXHAUSTED"} \/ detail'.side_effects
      BY <1>4, <1>5, <2>1, <2>3, <3>1
    <3>3. get_arg("double", r.args, "power", 0) = Asked(taken)
      BY <1>1, <1>6, MeaningAssumption DEF get_arg, Asked, Payload, Numeric
    <3>4. power' = [power EXCEPT ![r.device] = Asked(taken)]
      BY <2>1, <2>5, <3>3 DEF call, SetPower
    <3>. QED
      BY <1>0, <1>1, <1>6, <2>2, <2>4, <2>5, <3>2, <3>4 DEF Calls
  <2>6. CASE r.function # "set_power"
    <3>1. power' = power
      BY <2>1, <2>6 DEF call, ResetEnergy, advance
    <3>. QED
      BY <1>0, <1>1, <2>4, <2>6, <3>1 DEF Calls
  <2>. QED
    BY <2>5, <2>6
<1>7. CASE request.kind = "call" /\ Served("call") /\ Refusal(r) # "OK"
  BY <1>0, <1>3, <1>7 DEF Serve, handle_call, heaterVars
<1>8. CASE request.kind = "read_signals" /\ Served("read_signals")
  <2>1. \/ Say("NOT_FOUND") /\ UNCHANGED heaterVars
        \/ SayResult(0) /\ advance(r.device)
    BY <1>8 DEF Serve, handle_read_signals
  <2>2. power' = power /\ detail' \in Detail
    BY <1>3, <1>4, <2>1 DEF advance, heaterVars
  <2>. QED
    BY <1>0, <1>1, <1>8, <2>2 DEF Calls
<1>9. CASE ~(request.kind \in {"call", "read_signals"} /\ Served(request.kind))
  <2>1. Say(AnswerCode(request.kind)) /\ UNCHANGED heaterVars
    BY <1>9, Zenon DEF Serve
  <2>2. power' = power /\ detail' \in Detail
    BY <1>2, <2>1 DEF Say, heaterVars
  <2>3. request.kind = "call" => AnswerCode(request.kind) # "OK"
    BY <1>9 DEF AnswerCode
  <2>. QED
    BY <1>0, <1>1, <1>3, <2>1, <2>2, <2>3 DEF Calls
<1>. QED
  BY <1>6, <1>7, <1>8, <1>9

(* Requests are dispatched in the order they were taken. *)
LEMMA DispatchedFacts ==
  ASSUME LoopInv
  PROVE  /\ taken \in Nat /\ Len(asked) \in Nat /\ Len(written) \in Nat
         /\ taken <= Len(asked)
         /\ Dispatched \subseteq 1..taken
         /\ Dispatched \subseteq 1..Len(asked)
         /\ InHand => /\ taken >= 1 /\ Len(written) = taken - 1
                      /\ response \in Response
                      /\ Dispatched = 1..taken
         /\ ~InHand => Dispatched = 1..Len(written)
<1>1. /\ taken \in Nat /\ Len(asked) \in Nat /\ Len(written) \in Nat
      /\ taken <= Len(asked) /\ Len(written) <= taken
  <2>1. pc \in {"read", "serve", "write", "flush", "exited"}
    BY DEF LoopInv, TypeOK
  <2>. QED
    BY <2>1 DEF LoopInv, TypeOK, Cursors
<1>2. InHand => taken >= 1 /\ Len(written) = taken - 1 /\ response \in Response
  BY DEF InHand, LoopInv, Cursors, Answering
<1>. QED
  BY <1>1, <1>2 DEF Dispatched

(* A step that disturbs neither the requests acted on nor what is said of  *)
(* them leaves the explanation of a level as it is.                        *)
LEMMA SameExplanation ==
  ASSUME NEW h, NEW n \in Nat, SetBy(h, n),
         power'[h] = power[h], Dispatched' = Dispatched,
         \A k \in Dispatched : /\ asked'[k] = asked[k]
                               /\ SaysDone(k)' <=> SaysDone(k)
                               /\ HidesIt(k)' <=> HidesIt(k)
  PROVE  SetBy(h, n)'
<1>1. \A k \in Dispatched : /\ Calls(k, h, "set_power")' <=> Calls(k, h, "set_power")
                            /\ Asked(k)' = Asked(k)
  BY DEF Calls, Asked
<1>. QED
  BY <1>1 DEF SetBy

(* What explains a heater's level still does when that heater is left *)
(* alone.                                                             *)
LEMMA UntouchedExplanation ==
  ASSUME LoopInv, NEW h, NEW n \in Nat, SetBy(h, n), power'[h] = power[h],
         UNCHANGED <<written, details, taken>>, InHand' = InHand,
         \A k \in 1..Len(asked) : asked'[k] = asked[k],
         InHand => UNCHANGED <<response, detail>>
  PROVE  SetBy(h, n)'
<1>1. Dispatched' = Dispatched
  BY DEF Dispatched
<1>2. ASSUME NEW k \in Dispatched
      PROVE  /\ asked'[k] = asked[k]
             /\ SaysDone(k)' <=> SaysDone(k)
             /\ HidesIt(k)' <=> HidesIt(k)
  <2>1. k \in 1..Len(asked) /\ (~InHand => k <= Len(written))
    BY DispatchedFacts
  <2>. QED
    BY <2>1 DEF SaysDone, HidesIt
<1>. QED
  BY <1>1, <1>2, SameExplanation

(* The answer reaches the client's pipe with its detail. *)
LEMMA DeliveredExplanation ==
  ASSUME LoopInv, DetailInv, NEW h, NEW n \in Nat, SetBy(h, n),
         power'[h] = power[h], UNCHANGED <<asked, taken>>,
         InHand, ~InHand', written' = Append(written, response),
         details' = Append(details, detail)
  PROVE  SetBy(h, n)'
<1>1. /\ Len(written) = taken - 1 /\ taken \in Nat /\ taken >= 1
      /\ Dispatched = 1..taken /\ response \in Response
  BY DispatchedFacts
<1>2. /\ Len(written') = taken /\ written'[taken] = response
      /\ \A i \in 1..(taken - 1) : written'[i] = written[i]
  BY <1>1, AppendFacts DEF LoopInv, TypeOK
<1>3. /\ details'[taken] = detail
      /\ \A i \in 1..(taken - 1) : details'[i] = details[i]
  BY <1>1, AppendFacts DEF DetailInv
<1>4. Dispatched' = 1..taken
  BY <1>2 DEF Dispatched
<1>5. ASSUME NEW k \in 1..taken
      PROVE  /\ SaysDone(k)' <=> SaysDone(k)
             /\ HidesIt(k)' <=> HidesIt(k)
  <2>1. CASE k = taken
    <3>1. ~(k <= Len(written)) /\ k <= Len(written')
      BY <1>1, <1>2, <2>1
    <3>2. /\ SaysDone(k) <=> response.code = "OK" \/ detail.side_effects
          /\ HidesIt(k) <=> response.code \in {"RESOURCE_EXHAUSTED", "INTERNAL"}
      BY <3>1 DEF SaysDone, HidesIt
    <3>3. /\ SaysDone(k)' <=> written'[k].code = "OK" \/ details'[k].side_effects
          /\ HidesIt(k)' <=> written'[k].code \in {"RESOURCE_EXHAUSTED", "INTERNAL"}
      BY <3>1 DEF SaysDone, HidesIt
    <3>. QED
      BY <1>2, <1>3, <2>1, <3>2, <3>3, Zenon
  <2>2. CASE k # taken
    <3>1. k \in 1..(taken - 1) /\ k <= Len(written) /\ k <= Len(written')
      BY <1>1, <1>2, <2>2
    <3>. QED
      BY <1>2, <1>3, <3>1 DEF SaysDone, HidesIt
  <2>. QED
    BY <2>1, <2>2
<1>. QED
  BY <1>1, <1>4, <1>5, SameExplanation

(* A dispatch: either it sets the level and its answer says or hides that, *)
(* or the level is as before and the answer claims no change.              *)
LEMMA ServedExplanation ==
  ASSUME SessionInv, DetailInv, Serve, NEW h \in Heaters, NEW n \in Nat,
         SetBy(h, n)
  PROVE  \E m \in Nat : SetBy(h, m)'
<1>0. /\ UNCHANGED <<asked, taken, written, details, buffered>>
      /\ pc = "serve" /\ pc' = "write"
  BY ServeFacts
<1>1. /\ taken \in Nat /\ taken >= 1 /\ Len(written) = taken - 1
      /\ ~InHand /\ InHand'
      /\ Dispatched = 1..(taken - 1) /\ Dispatched' = 1..taken
  <2>1. taken \in Nat /\ taken >= 1 /\ Len(written) = taken - 1
    BY <1>0 DEF SessionInv, LoopInv, TypeOK, Cursors
  <2>. QED
    BY <1>0, <2>1 DEF InHand, Dispatched
<1>2. ASSUME NEW k \in 1..(taken - 1)
      PROVE  /\ SaysDone(k)' <=> SaysDone(k)
             /\ HidesIt(k)' <=> HidesIt(k)
  <2>1. k <= Len(written)
    BY <1>1
  <2>. QED
    BY <1>0, <2>1 DEF SaysDone, HidesIt
<1>3. /\ SaysDone(taken)' <=> response'.code = "OK" \/ detail'.side_effects
      /\ HidesIt(taken)' <=> response'.code \in {"RESOURCE_EXHAUSTED", "INTERNAL"}
  BY <1>0, <1>1 DEF SaysDone, HidesIt
<1>4. \A k : /\ Calls(k, h, "set_power")' <=> Calls(k, h, "set_power")
             /\ Asked(k)' = Asked(k)
  BY <1>0 DEF Calls, Asked
<1>5. \A k \in 1..taken : k \in 1..(taken - 1) \/ k = taken
  BY <1>1
<1>6. CASE /\ power'[h] = power[h]
           /\ ~Calls(taken, h, "set_power")
              \/ (response'.code # "OK" /\ ~detail'.side_effects)
  <2>1. ASSUME NEW k \in 1..taken, Calls(k, h, "set_power"), SaysDone(k)'
        PROVE  k <= n
    <3>1. CASE k = taken
      <4>1. SaysDone(taken)'
        BY <1>0, <2>1, <3>1
      <4>. QED
        BY <1>3, <1>6, <2>1, <3>1, <4>1, Zenon
    <3>2. CASE k \in 1..(taken - 1)
      BY <1>1, <1>2, <2>1, <3>2 DEF SetBy
    <3>. QED
      BY <1>5, <3>1, <3>2
  <2>2. \/ n = 0 /\ power'[h] = 0
        \/ /\ n \in 1..taken /\ Calls(n, h, "set_power") /\ power'[h] = Asked(n)
           /\ SaysDone(n)' \/ HidesIt(n)'
    <3>1. \A k \in 1..(taken - 1) : k \in 1..taken
      BY <1>1
    <3>. QED
      BY <1>1, <1>2, <1>6, <3>1 DEF SetBy
  <2>. QED
    BY <1>1, <1>4, <2>1, <2>2 DEF SetBy
<1>7. CASE /\ Calls(taken, h, "set_power") /\ power'[h] = Asked(taken)
           /\ \/ response'.code \in {"OK", "RESOURCE_EXHAUSTED"}
              \/ detail'.side_effects
  <2>1. \A k \in 1..taken : k <= taken
    BY <1>1
  <2>2. SaysDone(taken)' \/ HidesIt(taken)'
    BY <1>3, <1>7
  <2>3. ASSUME NEW m \in Nat, m = taken PROVE SetBy(h, m)'
    BY <1>0, <1>1, <1>4, <1>7, <2>1, <2>2, <2>3 DEF SetBy
  <2>. QED
    BY <1>1, <2>3
<1>. QED
  BY <1>6, <1>7, ServeFacts DEF SessionInv, HeaterInv, HeaterTypeOK

(* A response in hand reaches the pipe with its detail, or the loop is *)
(* left and stopped.                                                   *)
LEMMA GiveOutFacts ==
  ASSUME LoopInv, LoopInv', ShutdownInv, ShutdownInv', DetailInv, GiveOut
  PROVE  /\ UNCHANGED <<asked, taken, detail>>
         /\ \/ UNCHANGED <<written, details>> /\ pc' = "exited" /\ Stop
            \/ /\ pc' # "exited" /\ power' = power
               /\ \/ /\ UNCHANGED <<written, details>> /\ InHand' = InHand
                     /\ InHand => response' = response
                  \/ /\ InHand /\ ~InHand' /\ written' = Append(written, response)
                     /\ details' = Append(details, detail)
<1>0. /\ UNCHANGED <<asked, taken, detail>> /\ OnShutdown
      /\ details' = IF written' # written THEN Append(details, detail) ELSE details
      /\ pc \in {"write", "flush"}
  BY WriteFrameFacts, FlushFacts DEF GiveOut, clientVars
<1>1. IF pc' = "exited" THEN Stop ELSE power' = power
  BY <1>0, OnShutdownStops DEF heaterVars
<1>2. InHand => Append(written, response) # written
  <2>1. InHand => Len(Append(written, response)) = Len(written) + 1 /\ Len(written) \in Nat
    BY DispatchedFacts, AppendFacts DEF LoopInv, TypeOK
  <2>. QED
    BY <2>1
<1>3. CASE WriteFrame
  <2>1. InHand /\ ~buffered /\ response' = response
    BY <1>3, WriteFrameFacts DEF InHand, LoopInv, Cursors
  <2>2. \/ pc' = "flush" /\ buffered' = TRUE /\ written' = written
        \/ pc' = "flush" /\ buffered' = buffered /\ written' = Append(written, response)
        \/ pc' = "exited" /\ written' = written
    BY <1>3, WriteFrameFacts, Zenon
  <2>. QED
    BY <1>0, <1>1, <1>2, <2>1, <2>2 DEF InHand
<1>4. CASE Flush
  <2>1. pc = "flush" /\ (InHand <=> buffered)
    BY <1>4, FlushFacts DEF InHand
  <2>2. \/ ~buffered /\ pc' = "read" /\ written' = written
        \/ buffered /\ pc' = "read" /\ written' = Append(written, response)
        \/ pc' = "exited" /\ written' = written
    BY <1>4, FlushFacts, Zenon
  <2>. QED
    BY <1>0, <1>1, <1>2, <2>1, <2>2 DEF InHand
<1>. QED
  BY <1>3, <1>4 DEF GiveOut

(* Each response on the pipe has its detail at the same position. *)
LEMMA DetailStep ==
  ASSUME SessionInv, SessionInv', DetailInv, [SessionNext]_sessionVars
  PROVE  DetailInv'
<1>1. ASSUME UNCHANGED <<written, detail, details>> PROVE DetailInv'
  BY <1>1 DEF DetailInv
<1>2. CASE TakeIn
  BY <1>1, <1>2 DEF TakeIn, ReadFrame, ReadEof, Initialize
<1>3. CASE Serve
  BY <1>3, ServeFacts DEF DetailInv
<1>4. CASE GiveOut
  <2>1. CASE UNCHANGED <<written, details>>
    BY <1>1, <1>4, <2>1, GiveOutFacts DEF SessionInv
  <2>2. CASE InHand /\ written' = Append(written, response)
             /\ details' = Append(details, detail)
    <3>1. detail' \in Detail
      BY <1>4, GiveOutFacts DEF SessionInv, DetailInv
    <3>2. /\ details' \in Seq(Detail) /\ Len(details') = Len(details) + 1
          /\ Len(written') = Len(written) + 1
      BY <2>2, AppendFacts, DispatchedFacts DEF DetailInv, SessionInv, LoopInv, TypeOK
    <3>. QED
      BY <3>1, <3>2 DEF DetailInv
  <2>. QED
    BY <1>4, <2>1, <2>2, GiveOutFacts DEF SessionInv
<1>5. CASE InputFails
  BY <1>1, <1>5, ReadFailsFacts DEF InputFails
<1>6. CASE ClientStep
  BY <1>1, <1>6 DEF ClientStep, Elsewhere, BeginSend, FinishSend, Receive,
                    CloseStdin, HangUp, loopVars
<1>7. CASE TimeStep \/ (Exited /\ UNCHANGED sessionVars) \/ UNCHANGED sessionVars
  BY <1>1, <1>7 DEF TimeStep, sessionVars, vars, loopVars
<1>. QED
  BY <1>2, <1>3, <1>4, <1>5, <1>6, <1>7 DEF SessionNext, LoopStep

(* Every step keeps each heater's level explained by the calls dispatched *)
(* so far.                                                                *)
LEMMA LevelStep ==
  ASSUME SessionInv, SessionInv', LevelInv, [SessionNext]_sessionVars
  PROVE  LevelInv'
<1>. DEFINE Level(h) == IF pc = "exited" THEN power[h] = 0 ELSE \E n \in Nat : SetBy(h, n)
<1>0. DetailInv /\ DetailInv' /\ LoopInv /\ LoopInv' /\ ShutdownInv /\ ShutdownInv'
  BY DetailStep DEF LevelInv, SessionInv
<1>. SUFFICES ASSUME NEW h \in Heaters PROVE Level(h)'
  BY <1>0 DEF LevelInv
<1>1. Level(h)
  BY DEF LevelInv
<1>2. ASSUME Stop, pc' = "exited" PROVE Level(h)'
  BY <1>2 DEF Stop
<1>3. ASSUME pc = "exited", pc' = "exited", power' = power PROVE Level(h)'
  BY <1>1, <1>3
<1>4. ASSUME pc # "exited", pc' # "exited", power' = power,
             UNCHANGED <<written, details, taken>>, InHand' = InHand,
             \A k \in 1..Len(asked) : asked'[k] = asked[k],
             InHand => UNCHANGED <<response, detail>>
      PROVE  Level(h)'
  <2>1. PICK n \in Nat : SetBy(h, n)
    BY <1>1, <1>4
  <2>2. SetBy(h, n)'
    BY <1>0, <1>4, <2>1, UntouchedExplanation
  <2>. QED
    BY <1>4, <2>2
<1>5. CASE TakeIn
  <2>1. /\ OnShutdown /\ pc # "exited" /\ ~InHand
        /\ UNCHANGED <<asked, written, details>>
    BY <1>5 DEF TakeIn, ReadFrame, ReadEof, Initialize, InHand, clientVars
  <2>2. CASE pc' = "exited"
    BY <1>0, <1>2, <2>1, <2>2, OnShutdownStops
  <2>3. CASE pc' # "exited"
    <3>1. power' = power
      BY <1>0, <2>1, <2>3, OnShutdownStops DEF heaterVars
    <3>2. PICK n \in Nat : SetBy(h, n)
      BY <1>1, <2>1
    <3>3. ~InHand'
      <4>1. pc' = "serve"
        <5>1. ~ReadEof
          BY <2>3 DEF ReadEof, LeaveLoop
        <5>2. ReadFrame => pc' = "serve"
          BY <2>3, Zenon DEF ReadFrame, LeaveLoop
        <5>. QED
          BY <1>5, <5>1, <5>2 DEF TakeIn, Initialize
      <4>. QED
        BY <4>1 DEF InHand
    <3>4. Dispatched' = Dispatched /\ Dispatched = 1..Len(written)
      BY <2>1, <3>3 DEF Dispatched
    <3>5. ASSUME NEW k \in Dispatched
          PROVE  (SaysDone(k)' <=> SaysDone(k)) /\ (HidesIt(k)' <=> HidesIt(k))
      <4>1. k <= Len(written)
        BY <1>0, <3>4, DispatchedFacts
      <4>. QED
        BY <2>1, <4>1 DEF SaysDone, HidesIt
    <3>6. SetBy(h, n)'
      BY <2>1, <3>1, <3>2, <3>4, <3>5, SameExplanation
    <3>. QED
      BY <2>3, <3>6
  <2>. QED
    BY <2>2, <2>3
<1>6. CASE Serve
  <2>1. pc = "serve" /\ pc' = "write"
    BY <1>6, ServeFacts
  <2>2. PICK n \in Nat : SetBy(h, n)
    BY <1>1, <2>1
  <2>3. \E m \in Nat : SetBy(h, m)'
    BY <1>0, <1>6, <2>2, ServedExplanation
  <2>. QED
    BY <2>1, <2>3
<1>7. CASE GiveOut
  <2>1. pc # "exited"
    BY <1>7, WriteFrameFacts, FlushFacts DEF GiveOut
  <2>2. CASE pc' = "exited" /\ Stop
    BY <1>2, <2>2
  <2>3. CASE /\ pc' # "exited" /\ power' = power
             /\ UNCHANGED <<written, details>> /\ InHand' = InHand
             /\ InHand => response' = response
    BY <1>0, <1>4, <1>7, <2>1, <2>3, GiveOutFacts
  <2>4. CASE /\ pc' # "exited" /\ power' = power
             /\ InHand /\ ~InHand' /\ written' = Append(written, response)
             /\ details' = Append(details, detail)
    <3>1. PICK n \in Nat : SetBy(h, n)
      BY <1>1, <2>1
    <3>2. SetBy(h, n)'
      BY <1>0, <1>7, <2>4, <3>1, GiveOutFacts, DeliveredExplanation
    <3>. QED
      BY <2>4, <3>2
  <2>. QED
    BY <1>0, <1>7, <2>2, <2>3, <2>4, GiveOutFacts
<1>8. CASE InputFails
  <2>1. pc = "read" /\ pc' = "exited" /\ OnShutdown
    BY <1>8, ReadFailsFacts DEF InputFails
  <2>. QED
    BY <1>0, <1>2, <2>1, OnShutdownStops
<1>9. CASE ClientStep
  <2>1. /\ UNCHANGED <<power, written, details, taken, pc, buffered, response, detail>>
    BY <1>9 DEF ClientStep, Elsewhere, BeginSend, FinishSend, Receive,
                CloseStdin, HangUp, loopVars, heaterVars
  <2>2. \A k \in 1..Len(asked) : asked'[k] = asked[k]
    <3>1. FinishSend => \A k \in 1..Len(asked) : asked'[k] = asked[k]
      BY <1>0, HistoryStable DEF LoopInv
    <3>2. FinishSend \/ asked' = asked
      BY <1>9 DEF ClientStep, BeginSend, Receive, CloseStdin, HangUp
    <3>. QED
      BY <3>1, <3>2
  <2>3. InHand' = InHand
    BY <2>1 DEF InHand
  <2>. QED
    BY <1>3, <1>4, <2>1, <2>2, <2>3
<1>10. CASE TimeStep \/ (Exited /\ UNCHANGED sessionVars) \/ UNCHANGED sessionVars
  <2>1. UNCHANGED <<vars, power, detail, details>>
    BY <1>10 DEF TimeStep, Tick, sessionVars, heaterVars
  <2>2. /\ UNCHANGED <<asked, written, taken, pc, buffered, response>>
        /\ InHand' = InHand
    BY <2>1 DEF vars, clientVars, loopVars, InHand
  <2>. QED
    BY <1>3, <1>4, <2>1, <2>2
<1>. QED
  BY <1>5, <1>6, <1>7, <1>8, <1>9, <1>10 DEF SessionNext, LoopStep

(* The session's invariant: each heater's level is set by a call the *)
(* client knows of.                                                  *)
THEOREM LevelInvariant == SessionSpec => [](SessionInv /\ LevelInv)
<1>1. SessionSpec => []SessionInv
  BY MeaningInvariant, HeaterInvariant, PTL DEF SessionInv
<1>2. SessionInit => LevelInv
  <2>. SUFFICES ASSUME SessionInit PROVE LevelInv
    OBVIOUS
  <2>1. /\ detail = NoDetail /\ details = <<>> /\ written = <<>> /\ pc = "read"
        /\ buffered = FALSE
    BY DEF SessionInit, Init
  <2>2. DetailInv
    BY <2>1 DEF DetailInv, Detail, NoDetail
  <2>3. Dispatched = {}
    BY <2>1 DEF Dispatched, InHand
  <2>4. \A h \in Heaters : SetBy(h, 0)
    BY <2>3 DEF SetBy, SessionInit, HeaterInit
  <2>. QED
    BY <2>1, <2>2, <2>4 DEF LevelInv
<1>3. SessionInv /\ SessionInv' /\ LevelInv /\ [SessionNext]_sessionVars => LevelInv'
  BY LevelStep
<1>. QED
  BY <1>1, <1>2, <1>3, PTL DEF SessionSpec

(* The client can tell: the request that set the level is the last of those *)
(* it knows to have acted, or one of the open ones after that.              *)
LEMMA LevelCanBeTold ==
  ASSUME LoopInv, NEW h, NEW n \in Nat, SetBy(h, n)
  PROVE  power[h] \in LevelsItCanTell(h)
<1>. DEFINE sets == {k \in 1..Len(asked) : Calls(k, h, "set_power")}
            sure == {0} \cup {k \in sets : Surely(k)}
<1>0. /\ Len(asked) \in Nat /\ Len(written) \in Nat /\ received \in Nat
      /\ received <= Len(written)
      /\ \A k \in 1..Len(asked) : k <= received => k \in Dispatched
  <2>1. received \in Nat /\ received <= Len(written)
    BY DEF LoopInv, TypeOK, Cursors
  <2>. QED
    BY <2>1, DispatchedFacts DEF Dispatched
<1>1. \A k \in sure : k <= n
  <2>. SUFFICES ASSUME NEW k \in sets, Surely(k) PROVE k <= n
    OBVIOUS
  <2>1. k <= received /\ k <= Len(written) /\ k \in Dispatched
    BY <1>0 DEF Surely
  <2>2. SaysDone(k)
    BY <2>1 DEF Surely, SaysDone
  <2>. QED
    BY <2>1, <2>2 DEF SetBy
<1>2. Max(sure) \in sure /\ \A k \in sure : k <= Max(sure)
  <2>1. sure \subseteq 0..Len(asked) /\ sure # {}
    BY <1>0
  <2>. HIDE DEF sure
  <2>. QED
    BY <1>0, <2>1, MaxOfPositions
<1>3. Max(sure) \in Nat /\ Max(sure) <= n
  BY <1>0, <1>1, <1>2
<1>4. LevelsItCanTell(h) =
        {IF Max(sure) = 0 THEN 0 ELSE Asked(Max(sure))}
          \cup {Asked(k) : k \in {j \in sets : j > Max(sure) /\ Perhaps(j)}}
  BY DEF LevelsItCanTell
<1>. HIDE DEF sure
<1>5. CASE n = 0
  <2>1. Max(sure) = 0
    BY <1>3, <1>5
  <2>. QED
    BY <1>4, <1>5, <2>1, DispatchedFacts DEF SetBy
<1>6. CASE n # 0
  <2>1. /\ n \in sets /\ power[h] = Asked(n) /\ n \in Dispatched
        /\ SaysDone(n) \/ HidesIt(n)
    BY <1>6, DispatchedFacts DEF SetBy
  <2>2. CASE Surely(n)
    <3>1. n \in sure
      BY <2>1, <2>2 DEF sure
    <3>2. Max(sure) = n
      BY <1>2, <1>3, <3>1
    <3>. QED
      BY <1>4, <1>6, <2>1, <3>2
  <2>3. CASE ~Surely(n)
    <3>1. n \notin sure
      BY <1>6, <2>3 DEF sure
    <3>2. Max(sure) # n
      BY <1>2, <3>1
    <3>3. Max(sure) < n
      BY <1>3, <3>2
    <3>4. Perhaps(n)
      <4>1. CASE n > received
        BY <4>1 DEF Perhaps
      <4>2. CASE n <= received
        <5>1. n <= Len(written)
          BY <1>0, <4>2
        <5>2. ~SaysDone(n)
          BY <2>3, <4>2, <5>1 DEF Surely, SaysDone
        <5>. QED
          BY <2>1, <5>1, <5>2 DEF HidesIt, Perhaps
      <4>. QED
        BY <1>0, <4>1, <4>2
    <3>5. n \in {j \in sets : j > Max(sure) /\ Perhaps(j)}
      BY <2>1, <3>3, <3>4
    <3>. QED
      BY <1>4, <2>1, <3>5
  <2>. QED
    BY <2>2, <2>3
<1>. QED
  BY <1>5, <1>6

(* For any provider's heaters behind the loop and any client that pipelines: *)
(* the level of each is one the client can tell from the answers it has read *)
(* and the requests still open, and it is off once the loop has been left,   *)
(* whichever way.                                                            *)
THEOREM ClientAlwaysKnows == SessionSpec => []ClientKnowsTheLevels
<1>1. SessionInv /\ LevelInv => ClientKnowsTheLevels
  <2>. SUFFICES ASSUME SessionInv, LevelInv, NEW h \in Heaters
                PROVE  IF pc = "exited" THEN power[h] = 0
                                        ELSE power[h] \in LevelsItCanTell(h)
    BY DEF ClientKnowsTheLevels
  <2>. QED
    BY LevelCanBeTold DEF LevelInv, SessionInv
<1>. QED
  BY LevelInvariant, <1>1, PTL

-----------------------------------------------------------------------------
(* What the client can add up of the energy. *)

DetailOf(k) == IF k <= Len(written) THEN details[k] ELSE detail
Withheld(k) == HidesIt(k) \/ DetailOf(k).side_effects
Counts == [k \in Dispatched |-> DetailOf(k).energy]
Resets(h) == {k \in Dispatched : Calls(k, h, "reset_energy")}

(* The loop has been left with a reset taken and not answered. *)
Abandoned(h) ==
  pc = "exited" /\ Len(written) < taken /\ Calls(taken, h, "reset_energy")

(* The answers in the pipe and the one in hand report no more energy than   *)
(* the resets have taken out, and all of it unless one withholds its count. *)
CountsOf(h) ==
  LET sum == SumFunctionOnSet(Counts, Resets(h)) IN
  /\ sum <= taken_out[h]
  /\ (\A k \in Resets(h) : ~Withheld(k)) /\ ~Abandoned(h) => sum = taken_out[h]

EnergyToldInv == \A h \in Heaters : CountsOf(h)

(* What one dispatch takes out of a heater's count and says of it. *)
LEMMA ServeEnergy ==
  ASSUME SessionInv, Serve, NEW h \in Heaters
  PROVE  \E e \in Nat :
           /\ taken_out'[h] = taken_out[h] + e
           /\ ~Calls(taken, h, "reset_energy") => e = 0
           /\ Calls(taken, h, "reset_energy") =>
                /\ detail'.energy <= e
                /\ \/ detail'.energy = e
                   \/ detail'.side_effects
                   \/ response'.code = "RESOURCE_EXHAUSTED"
<1>. DEFINE r == Meaning[request.id]
<1>0. pc = "serve" /\ request = asked[taken] /\ request.kind = r.kind
  <2>1. pc = "serve"
    BY DEF Serve
  <2>2. taken >= 1 /\ taken <= Len(asked) /\ taken \in Nat
    BY <2>1 DEF SessionInv, LoopInv, Cursors, TypeOK
  <2>. QED
    BY <2>1, <2>2 DEF SessionInv, MeaningInv, request
<1>1. \A x \in Heaters : taken_out[x] \in Nat /\ Advanced(x) \in Nat
  BY AdvancedType DEF SessionInv, HeaterInv, HeaterTypeOK
<1>2. ASSUME NEW code, Say(code) PROVE detail'.energy = 0
  BY <1>2 DEF Say, NoDetail
<1>3. ASSUME NEW result \in Nat, SayResult(result)
      PROVE  \/ detail'.energy = result
             \/ detail'.energy = 0 /\ response'.code = "RESOURCE_EXHAUSTED"
  BY <1>3 DEF SayResult, Size, FramedResponse, NoDetail
<1>4. SayLate => detail'.energy = 0 /\ detail'.side_effects
  BY DEF SayLate, NoDetail
<1>. DEFINE Fine(e) ==
              /\ taken_out'[h] = taken_out[h] + e
              /\ ~Calls(taken, h, "reset_energy") => e = 0
              /\ Calls(taken, h, "reset_energy") =>
                   /\ detail'.energy <= e
                   /\ \/ detail'.energy = e
                      \/ detail'.side_effects
                      \/ response'.code = "RESOURCE_EXHAUSTED"
<1>5. ASSUME taken_out'[h] = taken_out[h],
             Calls(taken, h, "reset_energy") => detail'.energy = 0
      PROVE  Fine(0)
  BY <1>1, <1>5
<1>6. CASE request.kind = "call" /\ Served("call") /\ Refusal(r) = "OK"
  <2>1. /\ call(r.device, r.function, r.args)
        /\ IF CallCode(r.function) # "OK" THEN Say(CallCode(r.function))
           ELSE SayResult(CallResult(r.device, r.function)) \/ SayLate
    BY <1>6 DEF Serve, handle_call
  <2>2. CASE r.function = "reset_energy" /\ r.device = h
    <3>1. taken_out' = [taken_out EXCEPT ![h] = @ + Advanced(h)]
      BY <2>1, <2>2 DEF call, ResetEnergy
    <3>2. SayResult(Advanced(h)) \/ SayLate
      BY <2>1, <2>2 DEF CallCode, DeclaredFunctions, CallResult
    <3>3. Calls(taken, h, "reset_energy")
      BY <1>0, <1>6, <2>2 DEF Calls
    <3>4. taken_out'[h] = taken_out[h] + Advanced(h)
      BY <3>1 DEF SessionInv, HeaterInv, HeaterTypeOK
    <3>5. \/ detail'.energy = Advanced(h)
          \/ detail'.energy = 0 /\ response'.code = "RESOURCE_EXHAUSTED"
          \/ detail'.energy = 0 /\ detail'.side_effects
      BY <1>1, <1>3, <1>4, <3>2
    <3>6. Fine(Advanced(h))
      BY <1>1, <3>3, <3>4, <3>5
    <3>. QED
      BY <1>1, <3>6
  <2>3. CASE ~(r.function = "reset_energy" /\ r.device = h)
    <3>1. taken_out'[h] = taken_out[h]
      <4>1. \/ taken_out' = taken_out
            \/ /\ r.function = "reset_energy"
               /\ taken_out' = [taken_out EXCEPT ![r.device] = @ + Advanced(r.device)]
        BY <2>1 DEF call, SetPower, ResetEnergy, advance
      <4>. QED
        BY <2>3, <4>1 DEF SessionInv, HeaterInv, HeaterTypeOK
    <3>2. ~Calls(taken, h, "reset_energy")
      BY <1>0, <2>3 DEF Calls
    <3>3. Fine(0)
      BY <1>5, <3>1, <3>2
    <3>. QED
      BY <3>3
  <2>. QED
    BY <2>2, <2>3
<1>7. CASE request.kind = "call" /\ Served("call") /\ Refusal(r) # "OK"
  <2>1. Say(Refusal(r)) /\ taken_out' = taken_out
    BY <1>7 DEF Serve, handle_call, heaterVars
  <2>2. Fine(0)
    BY <1>2, <1>5, <2>1
  <2>. QED
    BY <2>2
<1>8. CASE request.kind # "call" \/ ~Served("call")
  <2>1. taken_out' = taken_out
    <3>1. \/ UNCHANGED heaterVars
          \/ advance(r.device)
      BY <1>8, Zenon DEF Serve, handle_read_signals
    <3>. QED
      BY <3>1 DEF heaterVars, advance
  <2>2. Calls(taken, h, "reset_energy") => detail'.energy = 0
    <3>1. request.kind = "call" => Say(AnswerCode(request.kind))
      BY <1>8, Zenon DEF Serve
    <3>. QED
      BY <1>0, <1>2, <3>1 DEF Calls
  <2>3. Fine(0)
    BY <1>5, <2>1, <2>2
  <2>. QED
    BY <2>3
<1>. QED
  BY <1>6, <1>7, <1>8

(* Each answer reports a natural number. *)
LEMMA CountsType ==
  ASSUME LoopInv, DetailInv
  PROVE  /\ IsFiniteSet(Dispatched)
         /\ \A k \in Dispatched : Counts[k] \in Nat /\ DetailOf(k) \in Detail
<1>1. taken \in Nat /\ Dispatched \subseteq 1..taken
  BY DispatchedFacts
<1>2. IsFiniteSet(Dispatched)
  <2>1. IsFiniteSet(1..taken)
    BY <1>1, FS_Interval
  <2>. QED
    BY <1>1, <2>1, FS_Subset
<1>3. ASSUME NEW k \in Dispatched PROVE DetailOf(k) \in Detail
  BY <1>1 DEF DetailOf, DetailInv
<1>. QED
  BY <1>2, <1>3 DEF Counts, Detail

(* A step that disturbs neither the requests acted on nor what is said of *)
(* them leaves their counts as they are.                                  *)
LEMMA SameCounts ==
  ASSUME LoopInv, DetailInv, NEW h, CountsOf(h),
         taken_out'[h] = taken_out[h], Dispatched' = Dispatched,
         \A k \in Dispatched : /\ asked'[k] = asked[k]
                               /\ DetailOf(k)' = DetailOf(k)
                               /\ HidesIt(k)' <=> HidesIt(k),
         Abandoned(h) => Abandoned(h)'
  PROVE  CountsOf(h)'
<1>1. Resets(h)' = Resets(h) /\ Resets(h) \in SUBSET Dispatched
  BY DEF Resets, Calls
<1>2. \A k \in Resets(h) : Counts[k] = Counts'[k] /\ (Withheld(k)' <=> Withheld(k))
  BY <1>1 DEF Counts, Withheld
<1>3. SumFunctionOnSet(Counts, Resets(h)) = SumFunctionOnSet(Counts', Resets(h))
  <2>1. IsFiniteSet(Resets(h))
    BY <1>1, CountsType, FS_Subset
  <2>. QED
    BY <1>2, <2>1, SumSame
<1>. QED
  BY <1>1, <1>2, <1>3 DEF CountsOf

(* A dispatch adds what it says to what it takes. *)
LEMMA ServedCounts ==
  ASSUME SessionInv, LoopInv', DetailInv, DetailInv', Serve, NEW h \in Heaters, CountsOf(h)
  PROVE  CountsOf(h)'
<1>0. /\ UNCHANGED <<asked, taken, written, details, buffered>>
      /\ pc = "serve" /\ pc' = "write" /\ LoopInv
  BY ServeFacts DEF SessionInv
<1>1. /\ taken \in Nat /\ taken >= 1 /\ Len(written) = taken - 1
      /\ Dispatched = 1..(taken - 1) /\ Dispatched' = 1..taken
  <2>1. taken \in Nat /\ taken >= 1 /\ Len(written) = taken - 1
    BY <1>0 DEF LoopInv, TypeOK, Cursors
  <2>. QED
    BY <1>0, <2>1 DEF InHand, Dispatched
<1>2. ASSUME NEW k \in 1..(taken - 1)
      PROVE  DetailOf(k)' = DetailOf(k) /\ (HidesIt(k)' <=> HidesIt(k))
  <2>1. k <= Len(written)
    BY <1>1
  <2>. QED
    BY <1>0, <2>1 DEF DetailOf, HidesIt
<1>3. /\ DetailOf(taken)' = detail'
      /\ HidesIt(taken)' <=> response'.code \in {"RESOURCE_EXHAUSTED", "INTERNAL"}
  BY <1>0, <1>1 DEF DetailOf, HidesIt
<1>4. PICK e \in Nat :
        /\ taken_out'[h] = taken_out[h] + e
        /\ ~Calls(taken, h, "reset_energy") => e = 0
        /\ Calls(taken, h, "reset_energy") =>
             /\ detail'.energy <= e
             /\ \/ detail'.energy = e
                \/ detail'.side_effects
                \/ response'.code = "RESOURCE_EXHAUSTED"
  BY ServeEnergy
<1>. DEFINE S == Resets(h)
            R == Resets(h)'
<1>5. \A k : Calls(k, h, "reset_energy")' <=> Calls(k, h, "reset_energy")
  BY <1>0 DEF Calls
<1>6. /\ S \in SUBSET (1..(taken - 1)) /\ R \in SUBSET (1..taken)
      /\ IF Calls(taken, h, "reset_energy") THEN taken \in R /\ R \ {taken} = S
                                            ELSE R = S
  <2>1. 1..taken = 1..(taken - 1) \cup {taken} /\ taken \notin 1..(taken - 1)
    BY <1>1
  <2>2. S = {k \in 1..(taken - 1) : Calls(k, h, "reset_energy")}
    BY <1>1 DEF Resets
  <2>3. R = {k \in 1..taken : Calls(k, h, "reset_energy")}
    BY <1>1, <1>5 DEF Resets
  <2>. QED
    BY <2>1, <2>2, <2>3
<1>7. /\ IsFiniteSet(S) /\ IsFiniteSet(R)
      /\ (\A k \in S : Counts[k] \in Nat /\ Counts[k] = Counts'[k])
      /\ (\A k \in R : Counts'[k] \in Nat)
  <2>1. IsFiniteSet(1..taken)
    BY <1>1, FS_Interval
  <2>2. IsFiniteSet(S) /\ IsFiniteSet(R)
    <3>1. S \subseteq 1..taken /\ R \subseteq 1..taken
      BY <1>1, <1>6
    <3>. QED
      BY <2>1, <3>1, FS_Subset
  <2>3. \A k \in R : Counts'[k] \in Nat
    <3>. SUFFICES ASSUME NEW k \in R PROVE Counts'[k] \in Nat
      OBVIOUS
    <3>1. k \in 1..taken /\ Counts'[k] = DetailOf(k)'.energy
      BY <1>1, <1>6 DEF Counts
    <3>2. CASE k = taken
      <4>1. DetailOf(k)' = detail'
        BY <1>0, <1>1, <3>2 DEF DetailOf
      <4>. QED
        BY <3>1, <4>1 DEF DetailInv, Detail
    <3>3. CASE k \in 1..(taken - 1)
      <4>1. DetailOf(k)' = DetailOf(k) /\ DetailOf(k) \in Detail
        BY <1>0, <1>1, <1>2, <3>3, CountsType
      <4>. QED
        BY <3>1, <4>1 DEF Detail
    <3>. QED
      BY <1>1, <3>1, <3>2, <3>3
  <2>4. \A k \in S : Counts[k] \in Nat /\ Counts[k] = Counts'[k]
    BY <1>0, <1>1, <1>2, <1>6, CountsType DEF Counts
  <2>. QED
    BY <2>2, <2>3, <2>4
<1>8. SumFunctionOnSet(Counts, S) = SumFunctionOnSet(Counts', S)
  BY <1>7, SumSame
<1>9. /\ SumFunctionOnSet(Counts, S) \in Nat
      /\ SumFunctionOnSet(Counts, S) <= taken_out[h]
      /\ (\A k \in S : ~Withheld(k)) => SumFunctionOnSet(Counts, S) = taken_out[h]
  BY <1>0, <1>7, SumIsNat DEF CountsOf, Abandoned
<1>10. taken_out[h] \in Nat /\ detail'.energy \in Nat
  BY DEF SessionInv, HeaterInv, HeaterTypeOK, DetailInv, Detail
<1>11. \A k \in S : Withheld(k)' <=> Withheld(k)
  BY <1>2, <1>6 DEF Withheld
<1>12. CASE ~Calls(taken, h, "reset_energy")
  <2>1. R = S /\ taken_out'[h] = taken_out[h]
    BY <1>4, <1>6, <1>10, <1>12
  <2>. QED
    BY <1>8, <1>9, <1>11, <2>1 DEF CountsOf
<1>13. CASE Calls(taken, h, "reset_energy")
  <2>1. SumFunctionOnSet(Counts', R) = detail'.energy + SumFunctionOnSet(Counts, S)
    <3>1. \A k \in R : Counts'[k] \in Int
      BY <1>7
    <3>2. SumFunctionOnSet(Counts', R) = Counts'[taken] + SumFunctionOnSet(Counts', R \ {taken})
      BY <1>6, <1>7, <1>13, <3>1, SumTake
    <3>3. Counts'[taken] = detail'.energy
      BY <1>0, <1>1 DEF Counts, DetailOf
    <3>. QED
      BY <1>6, <1>8, <1>13, <3>2, <3>3
  <2>2. SumFunctionOnSet(Counts', R) <= taken_out'[h]
    BY <1>4, <1>9, <1>10, <1>13, <2>1
  <2>3. ASSUME \A k \in R : ~Withheld(k)'
        PROVE  SumFunctionOnSet(Counts', R) = taken_out'[h]
    <3>1. detail'.energy = e
      <4>1. \A k \in R : ~HidesIt(k)' /\ ~DetailOf(k)'.side_effects
        BY <2>3 DEF Withheld
      <4>2. /\ response'.code \notin {"RESOURCE_EXHAUSTED", "INTERNAL"}
            /\ ~detail'.side_effects
        BY <1>0, <1>1, <1>6, <1>13, <4>1 DEF HidesIt, DetailOf
      <4>. QED
        BY <1>4, <1>13, <4>2
    <3>2. \A k \in S : ~Withheld(k)
      BY <1>6, <1>11, <1>13, <2>3
    <3>. QED
      BY <1>4, <1>9, <1>10, <2>1, <3>1, <3>2
  <2>. QED
    BY <2>2, <2>3 DEF CountsOf
<1>. QED
  BY <1>12, <1>13

(* An answer that is lost as the loop is left takes its count with it. *)
LEMMA DroppedCounts ==
  ASSUME LoopInv, DetailInv, NEW h, CountsOf(h), pc # "exited", pc' = "exited",
         taken_out[h] \in Nat, taken_out'[h] = taken_out[h],
         UNCHANGED <<asked, taken, written, details>>
  PROVE  CountsOf(h)'
<1>. DEFINE S == Resets(h)
            R == Resets(h)'
<1>1. Dispatched' = 1..Len(written) /\ Dispatched' \subseteq Dispatched
  BY DEF Dispatched, InHand
<1>2. /\ R = {k \in 1..Len(written) : Calls(k, h, "reset_energy")}
      /\ R \in SUBSET S /\ S \in SUBSET Dispatched
  BY <1>1 DEF Resets, Calls
<1>3. IsFiniteSet(S) /\ IsFiniteSet(R) /\ \A k \in S : Counts[k] \in Nat
  <2>1. IsFiniteSet(S)
    BY <1>2, CountsType, FS_Subset
  <2>. QED
    BY <1>2, <2>1, CountsType, FS_Subset
<1>4. \A k \in R : Counts[k] = Counts'[k] /\ (Withheld(k)' <=> Withheld(k))
  <2>. SUFFICES ASSUME NEW k \in R
                PROVE  Counts[k] = Counts'[k] /\ (Withheld(k)' <=> Withheld(k))
    OBVIOUS
  <2>1. k \in 1..Len(written) /\ k <= Len(written) /\ k \in Dispatched /\ k \in Dispatched'
    BY <1>1, <1>2, DispatchedFacts
  <2>2. DetailOf(k)' = DetailOf(k) /\ (HidesIt(k)' <=> HidesIt(k))
    BY <2>1 DEF DetailOf, HidesIt
  <2>. QED
    BY <2>1, <2>2 DEF Counts, Withheld
<1>5. SumFunctionOnSet(Counts, R) = SumFunctionOnSet(Counts', R)
  BY <1>3, <1>4, SumSame
<1>6. /\ SumFunctionOnSet(Counts, R) <= SumFunctionOnSet(Counts, S)
      /\ SumFunctionOnSet(Counts, R) \in Nat /\ SumFunctionOnSet(Counts, S) \in Nat
  <2>1. \A k \in R : Counts[k] \in Nat
    BY <1>2, <1>3
  <2>. QED
    BY <1>2, <1>3, <2>1, SumGrows, SumIsNat
<1>7. SumFunctionOnSet(Counts', R) <= taken_out'[h]
  BY <1>5, <1>6 DEF CountsOf
<1>8. ASSUME \A k \in R : ~Withheld(k)', ~Abandoned(h)'
      PROVE  SumFunctionOnSet(Counts', R) = taken_out'[h]
  <2>1. S = R
    <3>1. CASE InHand
      <4>1. /\ Len(written) = taken - 1 /\ taken \in Nat /\ taken >= 1
            /\ Dispatched = 1..taken
        BY <3>1, DispatchedFacts
      <4>2. ~Calls(taken, h, "reset_energy")
        BY <1>8, <4>1 DEF Abandoned, Calls
      <4>3. \A k \in 1..taken : k = taken \/ k \in 1..Len(written)
        BY <4>1
      <4>. QED
        BY <1>2, <4>1, <4>2, <4>3 DEF Resets
    <3>2. CASE ~InHand
      BY <1>2, <3>2, DispatchedFacts DEF Resets
    <3>. QED
      BY <3>1, <3>2
  <2>2. (\A k \in S : ~Withheld(k)) /\ ~Abandoned(h)
    BY <1>4, <1>8, <2>1 DEF Abandoned
  <2>. QED
    BY <1>5, <2>1, <2>2 DEF CountsOf
<1>. QED
  BY <1>7, <1>8 DEF CountsOf

(* The answer reaches the client's pipe with its count. *)
LEMMA DeliveredCounts ==
  ASSUME LoopInv, DetailInv, NEW h, CountsOf(h), pc # "exited",
         taken_out'[h] = taken_out[h], UNCHANGED <<asked, taken>>,
         InHand, ~InHand', written' = Append(written, response),
         details' = Append(details, detail)
  PROVE  CountsOf(h)'
<1>1. /\ Len(written) = taken - 1 /\ taken \in Nat /\ taken >= 1
      /\ Dispatched = 1..taken /\ response \in Response
  BY DispatchedFacts
<1>2. /\ Len(written') = taken /\ written'[taken] = response
      /\ \A i \in 1..(taken - 1) : written'[i] = written[i]
  BY <1>1, AppendFacts DEF LoopInv, TypeOK
<1>3. /\ details'[taken] = detail
      /\ \A i \in 1..(taken - 1) : details'[i] = details[i]
  BY <1>1, AppendFacts DEF DetailInv
<1>4. Dispatched' = 1..taken
  BY <1>2 DEF Dispatched
<1>5. ASSUME NEW k \in 1..taken
      PROVE  /\ DetailOf(k)' = DetailOf(k)
             /\ HidesIt(k)' <=> HidesIt(k)
  <2>1. CASE k = taken
    <3>1. ~(k <= Len(written)) /\ k <= Len(written')
      BY <1>1, <1>2, <2>1
    <3>2. /\ DetailOf(k) = detail /\ DetailOf(k)' = details'[k]
          /\ HidesIt(k) <=> response.code \in {"RESOURCE_EXHAUSTED", "INTERNAL"}
          /\ HidesIt(k)' <=> written'[k].code \in {"RESOURCE_EXHAUSTED", "INTERNAL"}
      BY <3>1 DEF DetailOf, HidesIt
    <3>. QED
      BY <1>2, <1>3, <2>1, <3>2, Zenon
  <2>2. CASE k # taken
    <3>1. k \in 1..(taken - 1) /\ k <= Len(written) /\ k <= Len(written')
      BY <1>1, <1>2, <2>2
    <3>. QED
      BY <1>2, <1>3, <3>1 DEF DetailOf, HidesIt
  <2>. QED
    BY <2>1, <2>2
<1>. QED
  BY <1>1, <1>4, <1>5, SameCounts DEF Abandoned

(* What is counted stays so while the answers said and in hand are left *)
(* alone.                                                               *)
LEMMA UntouchedCounts ==
  ASSUME LoopInv, DetailInv, NEW h, CountsOf(h),
         taken_out'[h] = taken_out[h], UNCHANGED <<written, details>>,
         Dispatched' = Dispatched, \A k \in 1..Len(asked) : asked'[k] = asked[k],
         InHand => UNCHANGED <<response, detail>>,
         Abandoned(h) => Abandoned(h)'
  PROVE  CountsOf(h)'
<1>1. ASSUME NEW k \in Dispatched
      PROVE  /\ asked'[k] = asked[k]
             /\ DetailOf(k)' = DetailOf(k)
             /\ HidesIt(k)' <=> HidesIt(k)
  <2>1. k \in 1..Len(asked) /\ (~InHand => k <= Len(written))
    BY DispatchedFacts
  <2>. QED
    BY <2>1 DEF DetailOf, HidesIt
<1>. QED
  BY <1>1, SameCounts

(* Every step keeps what the client is told in line with what is taken. *)
LEMMA EnergyToldStep ==
  ASSUME SessionInv, SessionInv', DetailInv, DetailInv', EnergyToldInv,
         [SessionNext]_sessionVars
  PROVE  EnergyToldInv'
<1>0. LoopInv /\ LoopInv' /\ ShutdownInv /\ ShutdownInv'
  BY DEF SessionInv
<1>. SUFFICES ASSUME NEW h \in Heaters PROVE CountsOf(h)'
  BY DEF EnergyToldInv
<1>1. CountsOf(h) /\ taken_out[h] \in Nat
  BY DEF EnergyToldInv, SessionInv, HeaterInv, HeaterTypeOK
<1>2. OnShutdown => taken_out' = taken_out
  BY DEF OnShutdown, Stop, heaterVars
<1>3. pc # "exited" => ~Abandoned(h)
  BY DEF Abandoned
<1>4. CASE TakeIn
  <2>1. /\ OnShutdown /\ pc # "exited" /\ ~InHand
        /\ UNCHANGED <<asked, written, details>>
    BY <1>4 DEF TakeIn, ReadFrame, ReadEof, Initialize, InHand, clientVars
  <2>2. pc' \in {"serve", "exited"}
    <3>1. ReadFrame => pc' \in {"serve", "exited"}
      <4>1. ReadFrame => LeaveLoop("2") \/ LeaveLoop("3") \/ pc' = "serve"
        BY Zenon DEF ReadFrame
      <4>. QED
        BY <4>1 DEF LeaveLoop
    <3>2. ReadEof \/ Initialize => pc' \in {"serve", "exited"}
      BY DEF ReadEof, LeaveLoop, Initialize
    <3>. QED
      BY <1>4, <3>1, <3>2 DEF TakeIn
  <2>3. Dispatched' = Dispatched
    BY <2>1, <2>2 DEF Dispatched, InHand
  <2>. QED
    BY <1>0, <1>1, <1>2, <1>3, <2>1, <2>3, UntouchedCounts
<1>5. CASE Serve
  BY <1>0, <1>1, <1>5, ServedCounts
<1>6. CASE GiveOut
  <2>1. OnShutdown /\ pc # "exited" /\ UNCHANGED <<asked, taken, detail>>
    BY <1>0, <1>6, GiveOutFacts, WriteFrameFacts, FlushFacts DEF GiveOut
  <2>2. CASE UNCHANGED <<written, details>> /\ pc' = "exited"
    BY <1>0, <1>1, <1>2, <2>1, <2>2, DroppedCounts
  <2>3. CASE /\ UNCHANGED <<written, details>> /\ InHand' = InHand
             /\ InHand => response' = response
    <3>1. Dispatched' = Dispatched
      BY <2>1, <2>3 DEF Dispatched
    <3>. QED
      BY <1>0, <1>1, <1>2, <1>3, <2>1, <2>3, <3>1, UntouchedCounts
  <2>4. CASE /\ InHand /\ ~InHand' /\ written' = Append(written, response)
             /\ details' = Append(details, detail)
    BY <1>0, <1>1, <1>2, <2>1, <2>4, DeliveredCounts
  <2>. QED
    BY <1>0, <1>6, <2>2, <2>3, <2>4, GiveOutFacts
<1>7. CASE InputFails
  <2>1. /\ pc = "read" /\ pc' = "exited" /\ OnShutdown
        /\ UNCHANGED <<asked, written, details>>
    BY <1>7, ReadFailsFacts DEF InputFails, ReadFails, clientVars
  <2>2. Dispatched' = Dispatched /\ ~InHand
    BY <2>1 DEF Dispatched, InHand
  <2>. QED
    BY <1>0, <1>1, <1>2, <1>3, <2>1, <2>2, UntouchedCounts
<1>8. CASE ClientStep
  <2>1. UNCHANGED <<taken_out, written, details, taken, pc, buffered, response, detail>>
    BY <1>8 DEF ClientStep, Elsewhere, BeginSend, FinishSend, Receive,
                CloseStdin, HangUp, loopVars, heaterVars
  <2>2. \A k \in 1..Len(asked) : asked'[k] = asked[k]
    <3>1. FinishSend => \A k \in 1..Len(asked) : asked'[k] = asked[k]
      BY <1>0, HistoryStable DEF LoopInv
    <3>2. FinishSend \/ asked' = asked
      BY <1>8 DEF ClientStep, BeginSend, Receive, CloseStdin, HangUp
    <3>. QED
      BY <3>1, <3>2
  <2>3. Dispatched' = Dispatched
    BY <2>1 DEF Dispatched, InHand
  <2>4. Abandoned(h) => Abandoned(h)'
    <3>1. Abandoned(h) => taken \in 1..Len(asked)
      BY <1>0, DispatchedFacts DEF Abandoned
    <3>. QED
      BY <2>1, <2>2, <3>1 DEF Abandoned, Calls
  <2>. QED
    BY <1>0, <1>1, <2>1, <2>2, <2>3, <2>4, UntouchedCounts
<1>9. CASE TimeStep \/ (Exited /\ UNCHANGED sessionVars) \/ UNCHANGED sessionVars
  <2>1. UNCHANGED <<vars, taken_out, detail, details>>
    BY <1>9 DEF TimeStep, Tick, sessionVars, heaterVars
  <2>2. /\ UNCHANGED <<asked, written, taken, pc, buffered, response>>
        /\ Dispatched' = Dispatched /\ Abandoned(h)' = Abandoned(h)
    BY <2>1 DEF vars, clientVars, loopVars, Dispatched, InHand, Abandoned, Calls
  <2>. QED
    BY <1>0, <1>1, <2>1, <2>2, UntouchedCounts
<1>. QED
  BY <1>4, <1>5, <1>6, <1>7, <1>8, <1>9 DEF SessionNext, LoopStep

(* What the client has read of the answers is a part of what they say; when *)
(* no count is lost, it is all of it.                                       *)
LEMMA ToldOfCounts ==
  ASSUME LoopInv, DetailInv, HeaterInv, NEW h \in Heaters, CountsOf(h)
  PROVE  LET missing == drawn[h] - Advanced(h) - Told(h) IN
         missing >= 0 /\ (~SomeLost(h) => missing = 0)
<1>. DEFINE S == Resets(h)
            R == {k \in 1..received : Calls(k, h, "reset_energy")}
            read == [k \in 1..received |-> details[k].energy]
<1>0. /\ received \in Nat /\ Len(written) \in Nat /\ received <= Len(written)
      /\ taken \in Nat /\ Len(asked) \in Nat /\ taken <= Len(asked)
      /\ Dispatched \subseteq 1..Len(asked)
      /\ \A k \in 1..received : k \in Dispatched /\ k <= Len(written)
  <2>1. received \in Nat /\ received <= Len(written)
    BY DEF LoopInv, TypeOK, Cursors
  <2>. QED
    BY <2>1, DispatchedFacts DEF Dispatched
<1>1. R \in SUBSET S /\ S \in SUBSET Dispatched
  BY <1>0 DEF Resets
<1>2. IsFiniteSet(S) /\ IsFiniteSet(R) /\ \A k \in S : Counts[k] \in Nat
  <2>1. IsFiniteSet(S)
    BY <1>1, CountsType, FS_Subset
  <2>. QED
    BY <1>1, <2>1, CountsType, FS_Subset
<1>3. Told(h) = SumFunctionOnSet(Counts, R)
  <2>1. \A k \in R : read[k] = Counts[k]
    BY <1>0 DEF Counts, DetailOf
  <2>2. SumFunctionOnSet(read, R) = SumFunctionOnSet(Counts, R)
    BY <1>2, <2>1, SumSame
  <2>. QED
    BY <2>2 DEF Told
<1>4. /\ SumFunctionOnSet(Counts, R) <= SumFunctionOnSet(Counts, S)
      /\ SumFunctionOnSet(Counts, R) \in Nat /\ SumFunctionOnSet(Counts, S) \in Nat
  <2>1. \A k \in R : Counts[k] \in Nat
    BY <1>1, <1>2
  <2>. QED
    BY <1>1, <1>2, <2>1, SumGrows, SumIsNat
<1>5. /\ Advanced(h) \in Nat /\ taken_out[h] \in Nat /\ drawn[h] \in Nat
      /\ Advanced(h) + taken_out[h] = drawn[h]
      /\ SumFunctionOnSet(Counts, S) <= taken_out[h]
  BY AdvancedType DEF HeaterInv, HeaterTypeOK, EnergyIsConserved, CountsOf
<1>6. drawn[h] - Advanced(h) - Told(h) >= 0
  BY <1>3, <1>4, <1>5
<1>7. ASSUME ~SomeLost(h) PROVE drawn[h] - Advanced(h) - Told(h) = 0
  <2>1. ASSUME NEW k \in 1..Len(asked), Calls(k, h, "reset_energy")
        PROVE  k <= received /\ ~Perhaps(k) /\ ~details[k].side_effects
    <3>1. ~Perhaps(k) /\ ~details[k].side_effects
      BY <1>7, <2>1, Zenon DEF SomeLost
    <3>2. ~(k > received) /\ k \in Nat
      BY <1>0, <3>1 DEF Perhaps
    <3>3. k <= received
      BY <1>0, <3>2
    <3>. QED
      BY <3>1, <3>3, Zenon
  <2>2. S = R
    <3>1. ASSUME NEW k \in S PROVE k \in R
      <4>1. k \in 1..Len(asked) /\ Calls(k, h, "reset_energy")
        BY <1>0, <1>1 DEF Resets
      <4>2. k <= received
        BY <2>1, <4>1
      <4>. QED
        BY <1>0, <4>1, <4>2
    <3>. QED
      BY <1>1, <3>1
  <2>3. ASSUME NEW k \in S PROVE ~Withheld(k)
    <3>1. k \in 1..Len(asked) /\ k \in 1..received /\ Calls(k, h, "reset_energy")
      BY <1>0, <1>1, <2>2
    <3>2. ~Perhaps(k) /\ ~details[k].side_effects /\ k <= Len(written)
      BY <1>0, <2>1, <3>1
    <3>3. ~HidesIt(k)
      BY <3>2 DEF Perhaps, HidesIt
    <3>4. DetailOf(k) = details[k]
      BY <3>2 DEF DetailOf
    <3>. QED
      BY <3>2, <3>3, <3>4, Zenon DEF Withheld
  <2>4. ~Abandoned(h)
    <3>. SUFFICES ASSUME Abandoned(h) PROVE FALSE
      OBVIOUS
    <3>1. taken \in 1..Len(asked) /\ ~(taken <= received)
      BY <1>0 DEF Abandoned
    <3>. QED
      BY <2>1, <3>1 DEF Abandoned
  <2>5. SumFunctionOnSet(Counts, R) = taken_out[h]
    BY <2>2, <2>3, <2>4 DEF CountsOf
  <2>. QED
    BY <1>3, <1>5, <2>5
<1>. QED
  BY <1>6, <1>7

(* Whatever reads, calls, late, lost and oversized answers come between,    *)
(* the counts the client has been told and the present one never exceed     *)
(* what a heater has drawn, and are all of it unless an answer to a reset    *)
(* is lost, late or too large.                                              *)
THEOREM EnergyAccounted == SessionSpec => []EnergyIsAccountedFor
<1>1. SessionSpec => [](SessionInv /\ DetailInv)
  <2>1. SessionInv /\ LevelInv => SessionInv /\ DetailInv
    BY DEF LevelInv
  <2>. QED
    BY LevelInvariant, <2>1, PTL
<1>2. SessionInit => EnergyToldInv
  <2>. SUFFICES ASSUME SessionInit, NEW h \in Heaters PROVE CountsOf(h)
    BY DEF EnergyToldInv
  <2>1. Dispatched = {}
    BY DEF SessionInit, Init, Dispatched, InHand
  <2>2. Resets(h) = {}
    BY <2>1 DEF Resets
  <2>. QED
    BY <2>2, SumOfNone DEF CountsOf, SessionInit, HeaterInit
<1>3. /\ SessionInv /\ SessionInv' /\ DetailInv /\ DetailInv' /\ EnergyToldInv
      /\ [SessionNext]_sessionVars
      => EnergyToldInv'
  BY EnergyToldStep
<1>4. SessionInv /\ DetailInv /\ EnergyToldInv => EnergyIsAccountedFor
  BY ToldOfCounts DEF SessionInv, EnergyToldInv, EnergyIsAccountedFor
<1>. QED
  BY <1>1, <1>2, <1>3, <1>4, PTL DEF SessionSpec
=============================================================================
