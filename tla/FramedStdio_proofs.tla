-------------------------- MODULE FramedStdio_proofs --------------------------
(***************************************************************************)
(* Theorems about write_frame, read_frame and the pipe between them: the    *)
(* header, types, and that together they are a channel of whole frames.    *)
(***************************************************************************)
EXTENDS FramedStdio, DataLemmas, SequenceTheorems

(* Quotient and remainder. *)
LEMMA Division ==
  ASSUME NEW n \in Nat, NEW d \in Nat, d > 0
  PROVE  /\ n \div d \in Nat /\ n % d \in 0..(d - 1)
         /\ n = d * (n \div d) + (n % d)
BY SMT

(* Products of natural numbers are natural numbers. *)
LEMMA ProductNat == ASSUME NEW a \in Nat, NEW b \in Nat PROVE a * b \in Nat
BY SMT

(* There is one quotient with a remainder below the divisor. *)
LEMMA QuotientUnique ==
  ASSUME NEW n \in Nat, NEW d \in Nat, NEW q \in Nat, NEW r \in 0..(d - 1), n = d * q + r
  PROVE  q = n \div d
<1>0. d > 0
  OBVIOUS
<1>1. d > 0 /\ n \div d \in Nat /\ n % d \in 0..(d - 1) /\ n = d * (n \div d) + (n % d)
  BY <1>0, Division, Zenon
<1>. DEFINE p == n \div d
<1>2. p \in Nat /\ n % d \in 0..(d - 1) /\ n = d * p + (n % d)
  BY <1>1
<1>. HIDE DEF p
<1>3. CASE q > p
  <2>1. q - p - 1 \in Nat
    BY <1>2, <1>3
  <2>2. d * (q - p - 1) \in Nat
    BY <2>1, ProductNat
  <2>3. d * (q - p - 1) = d * q - d * p - d
    BY <1>2, SMT
  <2>4. d * q \in Nat /\ d * p \in Nat
    BY <1>2, ProductNat
  <2>. QED
    BY <1>2, <2>2, <2>3, <2>4
<1>4. CASE p > q
  <2>1. p - q - 1 \in Nat
    BY <1>2, <1>4
  <2>2. d * (p - q - 1) \in Nat
    BY <2>1, ProductNat
  <2>3. d * (p - q - 1) = d * p - d * q - d
    BY <1>2, SMT
  <2>4. d * q \in Nat /\ d * p \in Nat
    BY <1>2, ProductNat
  <2>. QED
    BY <1>2, <2>2, <2>3, <2>4
<1>. QED
  BY <1>2, <1>3, <1>4 DEF p

(* To divide twice is to divide by the product. *)
LEMMA DivisionTwice ==
  ASSUME NEW n \in Nat, NEW a \in Nat, NEW b \in Nat, a > 0, b > 0
  PROVE  (n \div a) \div b = n \div (a * b)
<1>. DEFINE q == n \div a
            p == q \div b
            r == n % a
            s == q % b
<1>1. q \in Nat /\ r \in 0..(a - 1) /\ n = a * q + r
  BY Division
<1>. HIDE DEF q
<1>2. p \in Nat /\ s \in 0..(b - 1) /\ q = b * p + s
  BY <1>1, Division
<1>. HIDE DEF p, r, s
<1>3. n = (a * b) * p + (a * s + r)
  <2>1. n = a * (b * p + s) + r
    BY <1>1, <1>2
  <2>2. a * (b * p + s) = (a * b) * p + a * s
    BY <1>2, SMT
  <2>. QED
    BY <1>1, <1>2, <2>1, <2>2, SMT
<1>4. a * b \in Nat /\ a * s \in Nat /\ a * (b - 1 - s) \in Nat
  BY <1>2, ProductNat
<1>5. a * (b - 1 - s) = a * b - a - a * s
  BY <1>2, SMT
<1>6. a * s + r \in 0..(a * b - 1)
  BY <1>1, <1>4, <1>5
<1>7. p = n \div (a * b)
  BY <1>2, <1>3, <1>4, <1>6, QuotientUnique
<1>. QED
  BY <1>7 DEF p, q

(* Four bytes hold a length below Base^4, and decode_u32_le gives back what *)
(* encode_u32_le was given.                                                *)
THEOREM HeaderRoundTrip ==
  ASSUME NEW n \in Nat, n < Base * Base * Base * Base
  PROVE  decode_u32_le(encode_u32_le(n)) = n
<1>. DEFINE q1 == n \div Base
            q2 == q1 \div Base
            q3 == q2 \div Base
            d == Base * Base * Base
<1>1. Base \in Nat /\ Base > 1
  BY BytesAssumption
<1>2. Base * Base \in Nat /\ d \in Nat /\ d * Base = Base * Base * Base * Base
  BY <1>1, ProductNat
<1>3. Base > 0 /\ Base * Base > 0 /\ d > 0
  BY <1>1, SMT
<1>. HIDE DEF d
<1>4. q1 \in Nat /\ n = Base * q1 + (n % Base) /\ n % Base \in Nat
  BY <1>1, <1>3, Division
<1>5. q2 \in Nat /\ q1 = Base * q2 + (q1 % Base) /\ q1 % Base \in Nat
  <2>. HIDE DEF q1
  <2>. QED
    BY <1>1, <1>3, <1>4, Division
<1>6. q3 \in Nat /\ q2 = Base * q3 + (q2 % Base) /\ q2 % Base \in Nat
  <2>. HIDE DEF q2
  <2>. QED
    BY <1>1, <1>3, <1>5, Division
<1>7. n \div (Base * Base) = q2
  BY <1>1, <1>3, DivisionTwice
<1>8. n \div d = q3
  <2>1. q3 = n \div ((Base * Base) * Base)
    <3>1. q3 = (n \div (Base * Base)) \div Base
      BY <1>7
    <3>. HIDE DEF q3
    <3>. QED
      BY <1>1, <1>2, <1>3, <3>1, DivisionTwice, Zenon
  <2>2. d = (Base * Base) * Base
    BY DEF d
  <2>. HIDE DEF q3
  <2>. QED
    BY <2>1, <2>2, Zenon
<1>9. n = d * q3 + (n % d) /\ n % d \in Nat
  <2>1. n = d * (n \div d) + (n % d) /\ n % d \in 0..(d - 1)
    BY <1>2, <1>3, Division, Zenon
  <2>2. n % d \in Nat
    BY <1>2, <2>1
  <2>. HIDE DEF q3
  <2>. QED
    BY <1>8, <2>1, <2>2, Zenon
<1>. HIDE DEF q1, q2, q3
<1>10. q3 < Base
  <2>. SUFFICES ASSUME q3 >= Base PROVE FALSE
    BY <1>1, <1>6
  <2>1. q3 - Base \in Nat
    BY <1>1, <1>6
  <2>2. d * (q3 - Base) \in Nat
    BY <1>2, <2>1, ProductNat
  <2>3. d * (q3 - Base) = d * q3 - d * Base /\ d * q3 \in Nat /\ d * Base \in Nat
    BY <1>1, <1>2, <1>6, SMT
  <2>. QED
    BY <1>2, <1>9, <2>2, <2>3
<1>11. q3 % Base = q3
  BY <1>1, <1>6, <1>10
<1>12. encode_u32_le(n) = <<n % Base, q1 % Base, q2 % Base, q3>>
  BY <1>7, <1>8, <1>11 DEF encode_u32_le, q1, d
<1>13. decode_u32_le(encode_u32_le(n)) =
         (n % Base) + Base * ((q1 % Base) + Base * ((q2 % Base) + Base * q3))
  BY <1>12 DEF decode_u32_le
<1>14. (q2 % Base) + Base * q3 = q2 /\ (q1 % Base) + Base * q2 = q1
  <2>1. Base * q3 \in Nat /\ Base * q2 \in Nat
    BY <1>1, <1>5, <1>6, ProductNat
  <2>. QED
    BY <1>5, <1>6, <2>1
<1>15. (n % Base) + Base * q1 = n
  <2>1. Base * q1 \in Nat
    BY <1>1, <1>4, ProductNat
  <2>. QED
    BY <1>4, <2>1
<1>. QED
  BY <1>13, <1>14, <1>15

-----------------------------------------------------------------------------
(* Types *)

(* One frame at a time is being written: all before it have been reported. *)
WriterInv ==
  /\ wpc = "ready" => done = Len(offered)
  /\ wpc \in {"header", "payload", "flush"} => done + 1 = Len(offered)

IInv == TypeOK /\ WriterInv

(* The greater of two integers. *)
LEMMA MaxOfTwo ==
  ASSUME NEW a \in Int, NEW b \in Int
  PROVE  Max({a, b}) \in {a, b} /\ Max({a, b}) >= a /\ Max({a, b}) >= b
<1>1. \E x \in {a, b} : \A y \in {a, b} : x >= y
  BY a >= b \/ b >= a
<1>. QED
  BY <1>1 DEF Max

(* The header is made of bytes. *)
LEMMA HeaderIsBytes ==
  ASSUME NEW n \in Nat
  PROVE  encode_u32_le(n) \in Seq(Byte)
<1>1. Base \in Nat /\ Base > 1
  BY BytesAssumption
<1>2. Base * Base \in Nat /\ Base * Base * Base \in Nat
  BY <1>1, SMT
<1>3. Base * Base > 0 /\ Base * Base * Base > 0
  BY <1>1, SMT
<1>4. ASSUME NEW d \in Nat, d > 0
      PROVE  (n \div d) % Base \in Byte
  <2>1. n \div d \in Int
    BY <1>4, SMT
  <2>. QED
    BY <1>1, <2>1, SMT DEF Byte
<1>5. n % Base \in Byte
  BY <1>1, SMT DEF Byte
<1>6. /\ (n \div Base) % Base \in Byte
      /\ (n \div (Base * Base)) % Base \in Byte
      /\ (n \div (Base * Base * Base)) % Base \in Byte
  BY <1>1, <1>2, <1>3, <1>4
<1>. QED
  BY <1>5, <1>6 DEF encode_u32_le

(* What is decoded is a length. *)
LEMMA DecodedIsNat ==
  ASSUME NEW b \in Seq(Byte), Len(b) = 4
  PROVE  decode_u32_le(b) \in Nat
<1>1. Base \in Nat
  BY BytesAssumption
<1>2. b[1] \in Nat /\ b[2] \in Nat /\ b[3] \in Nat /\ b[4] \in Nat
  <2>1. \A i \in 1..4 : b[i] \in Byte
    BY SMTT(30)
  <2>2. Byte \subseteq Nat
    BY <1>1 DEF Byte
  <2>3. 1 \in 1..4 /\ 2 \in 1..4 /\ 3 \in 1..4 /\ 4 \in 1..4
    OBVIOUS
  <2>. QED
    BY <2>1, <2>2, <2>3
<1>3. Base * b[4] \in Nat
  BY <1>1, <1>2, SMT
<1>4. Base * (b[3] + Base * b[4]) \in Nat
  BY <1>1, <1>2, <1>3, SMT
<1>5. Base * (b[2] + Base * (b[3] + Base * b[4])) \in Nat
  BY <1>1, <1>2, <1>4, SMTT(30)
<1>. QED
  BY <1>2, <1>5 DEF decode_u32_le

(* What the writer put into the ostream last. *)
LEMMA LastOffered ==
  ASSUME IInv, wpc \in {"header", "payload"}
  PROVE  Last(offered) \in Seq(Byte) /\ Len(Last(offered)) \in Nat
<1>1. offered \in Seq(Payloads) /\ Len(offered) \in 1..Len(offered)
  BY DEF IInv, TypeOK, WriterInv
<1>2. Last(offered) \in Payloads
  BY <1>1 DEF Last
<1>3. Last(offered) \in Seq(Byte)
  BY <1>2, BytesAssumption DEF Byte
<1>. QED
  BY <1>3

(* Before the first byte nothing is held or in the stream. *)
LEMMA FramingInit == Init => IInv
<1>. SUFFICES ASSUME Init PROVE IInv
  OBVIOUS
<1>1. max_len \in Nat /\ MaxFrames \in Nat /\ PipeCap \in Nat
  BY BytesAssumption
<1>2. /\ offered \in Seq(Payloads) /\ Len(offered) = 0
      /\ {obuf, pipe, wire, got} \subseteq Seq(Byte)
      /\ Len(pipe) = 0 /\ Len(got) = 0 /\ frames \in Seq(Seq(Byte))
  BY DEF Init
<1>3. Len(got) <= Max({4, size})
  BY <1>2, MaxOfTwo DEF Init
<1>4. done \in 0..Len(offered) /\ size \in 0..max_len
  BY <1>1, <1>2 DEF Init
<1>5. Len(offered) <= MaxFrames /\ Len(pipe) <= PipeCap
  BY <1>1, <1>2
<1>6. TypeOK
  BY <1>2, <1>3, <1>4, <1>5 DEF Init, TypeOK
<1>. QED
  BY <1>2, <1>6 DEF Init, IInv, WriterInv

(* The frame's bytes go to the ostream, or the stream is found bad. *)
LEMMA PutStep ==
  ASSUME IInv, wpc \in {"header", "payload"}, NEW bytes \in Seq(Byte),
         NEW next \in {"payload", "flush"}, Put(bytes, next)
  PROVE  IInv'
<1>1. UNCHANGED <<offered, done, good, pipe, wire, closed, foreign, reader>>
  BY DEF Put
<1>2. \/ obuf' = obuf \o bytes /\ wpc' = next
      \/ obuf' = obuf /\ wpc' = "failed"
  BY DEF Put
<1>3. obuf' \in Seq(Byte) /\ wpc' \in {"payload", "flush", "failed"}
  <2>1. obuf \in Seq(Byte)
    BY DEF IInv, TypeOK
  <2>. HIDE DEF Byte
  <2>2. obuf \o bytes \in Seq(Byte)
    BY <2>1
  <2>. QED
    BY <1>2, <2>1, <2>2
<1>4. TypeOK'
  BY <1>1, <1>3 DEF IInv, TypeOK, reader
<1>5. WriterInv'
  BY <1>1, <1>3 DEF IInv, WriterInv
<1>. QED
  BY <1>4, <1>5 DEF IInv

(* write_frame puts whole bytes into the stream, of one frame at a time. *)
LEMMA WriterStep ==
  ASSUME IInv, (\E p \in Payloads : CheckLength(p)) \/ Writing
  PROVE  IInv'
<1>1. CASE \E p \in Payloads : CheckLength(p)
  <2>1. PICK p \in Payloads : CheckLength(p)
    BY <1>1
  <2>2. CASE Accepts(Len(p))
    <3>1. /\ offered' = Append(offered, p) /\ wpc' = "header" /\ wpc = "ready"
          /\ Len(offered) < MaxFrames /\ UNCHANGED <<done, good, stream, reader>>
      BY <2>1, <2>2 DEF CheckLength
    <3>2. /\ offered' \in Seq(Payloads) /\ Len(offered') = Len(offered) + 1
          /\ Len(offered) \in Nat /\ MaxFrames \in Nat
      BY <3>1, BytesAssumption DEF IInv, TypeOK
    <3>3. Len(offered') <= MaxFrames /\ done' \in 0..Len(offered')
      BY <3>1, <3>2 DEF IInv, TypeOK
    <3>4. TypeOK'
      BY <3>1, <3>2, <3>3 DEF IInv, TypeOK, stream, reader
    <3>. QED
      BY <3>1, <3>2, <3>4 DEF IInv, WriterInv
  <2>3. CASE ~Accepts(Len(p))
    <3>1. UNCHANGED <<offered, wpc, done, good, stream, reader>>
      BY <2>1, <2>3 DEF CheckLength
    <3>. QED
      BY <3>1 DEF IInv, TypeOK, WriterInv, stream, reader
  <2>. QED
    BY <2>2, <2>3
<1>2. CASE WriteHeader
  <2>1. wpc = "header" /\ Put(encode_u32_le(Len(Last(offered))), "payload")
    BY <1>2 DEF WriteHeader
  <2>2. encode_u32_le(Len(Last(offered))) \in Seq(Byte)
    BY <2>1, LastOffered, HeaderIsBytes
  <2>. QED
    BY <2>1, <2>2, PutStep
<1>3. CASE WritePayload
  <2>1. wpc = "payload" /\ Put(Last(offered), "flush")
    BY <1>3 DEF WritePayload
  <2>. QED
    BY <2>1, LastOffered, PutStep
<1>4. CASE Flush
  <2>1. /\ wpc = "flush" /\ UNCHANGED <<offered, good, stream, reader>>
        /\ \/ wpc' = "ready" /\ done' = done + 1
           \/ wpc' = "failed" /\ done' = done
    BY <1>4 DEF Flush
  <2>2. done' \in 0..Len(offered) /\ wpc' \in {"ready", "failed"}
    BY <2>1 DEF IInv, TypeOK, WriterInv
  <2>3. TypeOK'
    BY <2>1, <2>2 DEF IInv, TypeOK, stream, reader
  <2>4. WriterInv'
    BY <2>1 DEF IInv, WriterInv
  <2>. QED
    BY <2>3, <2>4 DEF IInv
<1>. QED
  BY <1>1, <1>2, <1>3, <1>4 DEF Writing

(* Draining, closing and a foreign client leave only bytes in the stream. *)
LEMMA StreamStep ==
  ASSUME IInv, Drain \/ DrainFails \/ Close \/ HangUp \/ (\E n \in Announced : Announce(n))
  PROVE  IInv'
<1>1. CASE Drain
  <2>1. /\ obuf # <<>> /\ Len(pipe) < PipeCap
        /\ pipe' = Append(pipe, Head(obuf)) /\ wire' = Append(wire, Head(obuf))
        /\ obuf' = Tail(obuf) /\ UNCHANGED <<closed, foreign, writer, reader>>
    BY <1>1 DEF Drain
  <2>2. {obuf, pipe, wire} \subseteq Seq(Byte) /\ PipeCap \in Nat
    BY BytesAssumption DEF IInv, TypeOK
  <2>3. Head(obuf) \in Byte /\ Tail(obuf) \in Seq(Byte)
    BY <2>1, <2>2
  <2>4. /\ obuf' \in Seq(Byte) /\ pipe' \in Seq(Byte) /\ wire' \in Seq(Byte)
        /\ Len(pipe') <= PipeCap
    BY <2>1, <2>2, <2>3
  <2>5. TypeOK'
    BY <2>1, <2>4 DEF IInv, TypeOK, writer, reader
  <2>. QED
    BY <2>1, <2>5 DEF IInv, WriterInv, writer
<1>2. CASE DrainFails
  BY <1>2 DEF DrainFails, IInv, TypeOK, WriterInv, stream, reader
<1>3. CASE Close
  BY <1>3 DEF Close, IInv, TypeOK, WriterInv, writer, reader
<1>4. CASE HangUp
  BY <1>4 DEF HangUp, IInv, TypeOK, WriterInv, writer, stream
<1>5. CASE \E n \in Announced : Announce(n)
  <2>1. PICK n \in Announced : Announce(n)
    BY <1>5
  <2>2. /\ foreign' = n /\ obuf' = encode_u32_le(n) /\ wpc' = "failed"
        /\ UNCHANGED <<offered, done, good, pipe, wire, closed, reader>>
    BY <2>1 DEF Announce
  <2>3. n \in Nat
    BY BytesAssumption
  <2>4. obuf' \in Seq(Byte)
    BY <2>2, <2>3, HeaderIsBytes
  <2>. QED
    BY <2>2, <2>4 DEF IInv, TypeOK, WriterInv, reader
<1>. QED
  BY <1>1, <1>2, <1>3, <1>4, <1>5

(* read_frame asks for no byte beyond the header or the length it *)
(* accepted.                                                      *)
LEMMA ReaderStep ==
  ASSUME IInv, Reading \/ ReadFails
  PROVE  IInv'
<1>1. /\ got \in Seq(Byte) /\ pipe \in Seq(Byte) /\ size \in 0..max_len
      /\ Len(got) <= Max({4, size}) /\ max_len \in Nat /\ PipeCap \in Nat
      /\ frames \in Seq(Seq(Byte)) /\ Len(pipe) <= PipeCap
  BY BytesAssumption DEF IInv, TypeOK
<1>2. ASSUME NEW n \in 0..max_len
      PROVE  Max({4, n}) \in Nat /\ Max({4, n}) >= 4 /\ Max({4, n}) >= n
  <2>1. n \in Int /\ 4 \in Int /\ n \in Nat
    BY <1>1
  <2>2. Max({4, n}) \in {4, n} /\ Max({4, n}) >= 4 /\ Max({4, n}) >= n
    BY <2>1, MaxOfTwo
  <2>. QED
    BY <2>1, <2>2
<1>3. \A n \in 0..max_len : Max({4, n}) \in Nat /\ Max({4, n}) >= 0
  BY <1>1, <1>2
<1>4. CASE ReadByte
  <2>1. /\ Len(got) < Wanted /\ pipe # <<>>
        /\ got' = Append(got, Head(pipe)) /\ pipe' = Tail(pipe)
        /\ UNCHANGED <<writer, obuf, wire, closed, foreign, reading, rpc, size, frames, end, failed>>
    BY <1>4 DEF ReadByte
  <2>2. Wanted \in {1, 4, size}
    BY DEF Wanted
  <2>3. Head(pipe) \in Byte /\ Tail(pipe) \in Seq(Byte) /\ Len(Tail(pipe)) <= PipeCap
    BY <1>1, <2>1
  <2>4. got' \in Seq(Byte) /\ Len(got') = Len(got) + 1 /\ Len(got) \in Nat
    BY <1>1, <2>1, <2>3
  <2>5. Len(got') <= Max({4, size})
    <3>1. Max({4, size}) \in Nat /\ Max({4, size}) >= 4 /\ Max({4, size}) >= size
      BY <1>1, <1>2
    <3>2. Len(got') <= 4 \/ Len(got') <= size
      BY <1>1, <2>1, <2>2, <2>4
    <3>. QED
      BY <1>1, <2>4, <3>1, <3>2
  <2>. QED
    BY <2>1, <2>3, <2>4, <2>5 DEF IInv, TypeOK, WriterInv, writer
<1>5. CASE FirstByteRead
  BY <1>5 DEF FirstByteRead, IInv, TypeOK, WriterInv, writer, stream
<1>6. CASE HeaderRead
  <2>. DEFINE n == decode_u32_le(got)
  <2>1. /\ UNCHANGED <<writer, stream, reading, frames, failed>>
        /\ \/ end' = "bad_length" /\ UNCHANGED <<rpc, got, size>>
           \/ /\ Len(got) = 4 /\ ~TooLong(n)
              /\ rpc' = "payload" /\ size' = n /\ got' = <<>> /\ UNCHANGED end
    BY <1>6 DEF HeaderRead
  <2>2. CASE end' = "bad_length" /\ UNCHANGED <<rpc, got, size>>
    BY <2>1, <2>2 DEF IInv, TypeOK, WriterInv, writer, stream, Ends
  <2>3. CASE /\ Len(got) = 4 /\ ~TooLong(n)
             /\ rpc' = "payload" /\ size' = n /\ got' = <<>> /\ UNCHANGED end
    <3>1. n \in Nat
      BY <1>1, <2>3, DecodedIsNat
    <3>. HIDE DEF n
    <3>2. size' \in 0..max_len /\ got' \in Seq(Byte) /\ Len(got') = 0
      BY <1>1, <2>3, <3>1 DEF TooLong
    <3>3. Len(got') <= Max({4, size'})
      BY <1>3, <3>2
    <3>. QED
      BY <2>1, <2>3, <3>2, <3>3 DEF IInv, TypeOK, WriterInv, writer, stream
  <2>. QED
    BY <2>1, <2>2, <2>3
<1>7. CASE PayloadRead
  <2>1. /\ frames' = Append(frames, got) /\ rpc' = "first" /\ got' = <<>> /\ size' = 0
        /\ UNCHANGED <<writer, stream, reading, end, failed>>
    BY <1>7 DEF PayloadRead
  <2>2. frames' \in Seq(Seq(Byte))
    BY <1>1, <2>1
  <2>3. Len(got') <= Max({4, size'}) /\ size' \in 0..max_len /\ got' \in Seq(Byte)
    BY <1>1, <1>3, <2>1
  <2>. QED
    BY <2>1, <2>2, <2>3 DEF IInv, TypeOK, WriterInv, writer, stream
<1>8. CASE ReadEnd
  <2>1. EndOf(rpc) \in Ends
    BY DEF EndOf, Ends
  <2>. QED
    BY <1>8, <2>1 DEF ReadEnd, IInv, TypeOK, WriterInv, writer, stream
<1>9. CASE ReadFails
  <2>1. EndOf(rpc) \in Ends
    BY DEF EndOf, Ends
  <2>. QED
    BY <1>9, <2>1 DEF ReadFails, IInv, TypeOK, WriterInv, writer, stream
<1>. QED
  BY <1>4, <1>5, <1>6, <1>7, <1>8, <1>9 DEF Reading

(* The invariant of both processes and the stream is inductive. *)
LEMMA FramingNext == IInv /\ [Next]_vars => IInv'
<1>. SUFFICES ASSUME IInv, [Next]_vars PROVE IInv'
  OBVIOUS
<1>1. CASE UNCHANGED vars
  BY <1>1 DEF IInv, TypeOK, WriterInv, vars, writer, stream, reader
<1>. QED
  BY <1>1, WriterStep, StreamStep, ReaderStep DEF Next, Stopped

(* The variables keep their types: nothing but bytes is in the stream, and  *)
(* read_frame never holds more than a header or the length it has accepted. *)
THEOREM FramingTypeCorrect == Spec => []TypeOK
<1>1. IInv => TypeOK
  BY DEF IInv
<1>. QED
  BY <1>1, FramingInit, FramingNext, PTL DEF Spec

-----------------------------------------------------------------------------
(* Frames one after the other *)

(* Concatenations that begin alike, for the same length. *)
LEMMA EqualFronts ==
  ASSUME NEW B, NEW a \in Seq(B), NEW b \in Seq(B), NEW x \in Seq(B), NEW y \in Seq(B),
         Len(a) = Len(b), a \o x = b \o y
  PROVE  a = b /\ x = y
<1>1. \A i \in 1..Len(a) : a[i] = b[i]
  <2>. SUFFICES ASSUME NEW i \in 1..Len(a) PROVE a[i] = b[i]
    OBVIOUS
  <2>1. (a \o x)[i] = a[i] /\ (b \o y)[i] = b[i]
    OBVIOUS
  <2>. QED
    BY <2>1
<1>2. a = b
  BY <1>1, SeqEqual
<1>3. a \o x = a \o y
  BY <1>2
<1>. QED
  BY <1>2, <1>3, ConcatSimplifications

(* A header is four bytes. *)
LEMMA HeaderLength ==
  ASSUME NEW n \in Nat
  PROVE  encode_u32_le(n) \in Seq(Byte) /\ Len(encode_u32_le(n)) = 4
<1>1. Len(encode_u32_le(n)) = 4
  BY DEF encode_u32_le
<1>. QED
  BY <1>1, HeaderIsBytes

(* A frame is its header and its payload. *)
LEMMA EncodedType ==
  ASSUME NEW p \in Seq(Byte)
  PROVE  /\ Len(p) \in Nat /\ encode_u32_le(Len(p)) \in Seq(Byte)
         /\ Encoded(p) = encode_u32_le(Len(p)) \o p
         /\ Encoded(p) \in Seq(Byte) /\ Len(Encoded(p)) = 4 + Len(p)
<1>1. Len(p) \in Nat
  OBVIOUS
<1>2. encode_u32_le(Len(p)) \in Seq(Byte) /\ Len(encode_u32_le(Len(p))) = 4
  BY <1>1, HeaderLength
<1>3. Encoded(p) = encode_u32_le(Len(p)) \o p
  BY DEF Encoded
<1>. DEFINE h == encode_u32_le(Len(p))
<1>. HIDE DEF Byte, h
<1>4. h \in Seq(Byte) /\ Len(h) = 4 /\ Encoded(p) = h \o p
  BY <1>2, <1>3 DEF h
<1>5. h \o p \in Seq(Byte) /\ Len(h \o p) = Len(h) + Len(p)
  BY <1>4, ConcatProperties, Zenon
<1>. QED
  BY <1>1, <1>2, <1>3, <1>4, <1>5

(* The first frames of a list, and with one more. *)
LEMMA FramedStep ==
  ASSUME NEW q \in Seq(Seq(Byte)), NEW k \in 0..Len(q)
  PROVE  /\ Framed(q, k) \in Seq(Byte)
         /\ k = 0 => Framed(q, k) = <<>>
         /\ k < Len(q) => Framed(q, k + 1) = Framed(q, k) \o Encoded(q[k + 1])
<1>. DEFINE e == [i \in 1..k |-> Encoded(q[i])]
<1>. HIDE DEF Byte
<1>0. k \in Nat /\ \A i \in 1..Len(q) : q[i] \in Seq(Byte) /\ Encoded(q[i]) \in Seq(Byte)
  <2>1. \A i \in 1..Len(q) : q[i] \in Seq(Byte)
    OBVIOUS
  <2>2. \A i \in 1..Len(q) : Encoded(q[i]) \in Seq(Byte)
    BY <2>1, EncodedType, Zenon
  <2>. QED
    BY <2>1, <2>2
<1>1. e \in Seq(Seq(Byte)) /\ Len(e) = k
  BY <1>0
<1>2. Framed(q, k) \in Seq(Byte)
  <2>. HIDE DEF e
  <2>1. <<>> \in Seq(Byte)
    OBVIOUS
  <2>2. FlattenSeq(e) \in Seq(Byte)
    BY <1>1, <2>1, FlattenAppend, Zenon
  <2>. QED
    BY <2>2 DEF e, Framed
<1>3. k = 0 => Framed(q, k) = <<>>
  <2>. SUFFICES ASSUME k = 0 PROVE FlattenSeq(e) = <<>>
    BY DEF Framed
  <2>1. Len(e) = 0 /\ e = <<>>
    BY <1>1
  <2>. QED
    BY <2>1 DEF FlattenSeq
<1>4. ASSUME k < Len(q)
      PROVE  Framed(q, k + 1) = Framed(q, k) \o Encoded(q[k + 1])
  <2>1. k + 1 \in 1..Len(q) /\ Encoded(q[k + 1]) \in Seq(Byte)
    BY <1>0, <1>4
  <2>2. [i \in 1..(k + 1) |-> Encoded(q[i])] = Append(e, Encoded(q[k + 1]))
    BY <1>0, <1>1
  <2>. HIDE DEF e
  <2>3. FlattenSeq(Append(e, Encoded(q[k + 1]))) = FlattenSeq(e) \o Encoded(q[k + 1])
    BY <1>1, <2>1, FlattenAppend, Zenon
  <2>. QED
    BY <2>2, <2>3, Zenon DEF e, Framed
<1>. QED
  BY <1>2, <1>3, <1>4

(* Another frame at the end of the list does not change the first ones. *)
LEMMA FramedAppend ==
  ASSUME NEW q \in Seq(Seq(Byte)), NEW p \in Seq(Byte), NEW k \in 0..Len(q)
  PROVE  Framed(Append(q, p), k) = Framed(q, k)
<1>1. \A i \in 1..k : Append(q, p)[i] = q[i]
  OBVIOUS
<1>2. [i \in 1..k |-> Encoded(Append(q, p)[i])] = [i \in 1..k |-> Encoded(q[i])]
  BY <1>1
<1>. QED
  BY <1>2, Zenon DEF Framed

(* More frames begin with fewer. *)
LEMMA FramedRest ==
  ASSUME NEW q \in Seq(Seq(Byte)), NEW k \in 0..Len(q), NEW l \in 0..Len(q), k <= l
  PROVE  \E u \in Seq(Byte) : Framed(q, l) = Framed(q, k) \o u
<1>. DEFINE Begins(m) == \E u \in Seq(Byte) : Framed(q, m) = Framed(q, k) \o u
            T == {n \in Nat : k + n <= Len(q) => Begins(k + n)}
<1>. HIDE DEF Byte
<1>0. /\ \A m \in 0..Len(q) : Framed(q, m) \in Seq(Byte)
      /\ k \in Nat /\ l \in Nat /\ Len(q) \in Nat
  <2>1. \A m \in 0..Len(q) : Framed(q, m) \in Seq(Byte)
    BY FramedStep, Zenon
  <2>. QED
    BY <2>1
<1>1. Begins(k)
  <2>1. <<>> \in Seq(Byte) /\ Framed(q, k) = Framed(q, k) \o <<>>
    BY <1>0, ConcatEmptySeq
  <2>. QED
    BY <2>1
<1>2. ASSUME NEW m \in 0..Len(q), m < Len(q), Begins(m)
      PROVE  Begins(m + 1)
  <2>1. PICK u \in Seq(Byte) : Framed(q, m) = Framed(q, k) \o u
    BY <1>2
  <2>. DEFINE f == Encoded(q[m + 1])
  <2>2. f \in Seq(Byte)
    <3>1. q[m + 1] \in Seq(Byte)
      BY <1>2
    <3>. QED
      BY <3>1, EncodedType
  <2>3. Framed(q, m + 1) = Framed(q, m) \o f
    BY <1>2, FramedStep
  <2>. HIDE DEF f
  <2>4. Framed(q, m + 1) = Framed(q, k) \o (u \o f)
    <3>1. Framed(q, k) \in Seq(Byte)
      BY <1>0
    <3>2. (Framed(q, k) \o u) \o f = Framed(q, k) \o (u \o f)
      BY <2>1, <2>2, <3>1, ConcatAssociative, SMTT(30)
    <3>. QED
      BY <2>1, <2>3, <3>2
  <2>5. u \o f \in Seq(Byte)
    BY <2>1, <2>2
  <2>. QED
    BY <2>4, <2>5
<1>. HIDE DEF Begins
<1>3. 0 \in T
  <2>1. k + 0 = k
    BY <1>0
  <2>. QED
    BY <1>1, <2>1
<1>4. ASSUME NEW n \in Nat, n \in T
      PROVE  n + 1 \in T
  <2>. SUFFICES ASSUME k + (n + 1) <= Len(q) PROVE Begins(k + (n + 1))
    OBVIOUS
  <2>1. k + n \in 0..Len(q) /\ k + n < Len(q) /\ k + (n + 1) = (k + n) + 1
    BY <1>0
  <2>2. Begins((k + n) + 1)
    BY <1>2, <1>4, <2>1
  <2>. QED
    BY <2>1, <2>2
<1>. HIDE DEF T
<1>5. l - k \in Nat /\ k + (l - k) = l /\ l <= Len(q)
  BY <1>0
<1>6. l - k \in T
  BY <1>3, <1>4, <1>5, NatSetInduction
<1>. QED
  BY <1>5, <1>6 DEF T, Begins

(* More frames are longer, by a header at least. *)
LEMMA FramedLonger ==
  ASSUME NEW q \in Seq(Seq(Byte)), NEW k \in 0..Len(q), NEW l \in 0..Len(q), k < l
  PROVE  /\ Len(Framed(q, k)) \in Nat /\ Len(Framed(q, l)) \in Nat
         /\ Len(Framed(q, l)) >= Len(Framed(q, k)) + 4 + Len(q[k + 1])
<1>1. k + 1 \in 0..Len(q) /\ k + 1 \in 1..Len(q) /\ k + 1 <= l /\ k < Len(q)
  OBVIOUS
<1>2. q[k + 1] \in Seq(Byte)
  <2>. HIDE DEF Byte
  <2>. QED
    BY <1>1
<1>3. PICK u \in Seq(Byte) : Framed(q, l) = Framed(q, k + 1) \o u
  BY <1>1, FramedRest
<1>4. /\ Framed(q, k) \in Seq(Byte) /\ Framed(q, k + 1) \in Seq(Byte)
      /\ Framed(q, k + 1) = Framed(q, k) \o Encoded(q[k + 1])
  BY <1>1, FramedStep
<1>5. Encoded(q[k + 1]) \in Seq(Byte) /\ Len(Encoded(q[k + 1])) = 4 + Len(q[k + 1])
  BY <1>2, EncodedType
<1>. HIDE DEF Byte
<1>6. Len(Framed(q, l)) = Len(Framed(q, k + 1)) + Len(u)
  BY <1>3, <1>4, ConcatProperties
<1>7. /\ Len(Framed(q, l)) \in Nat /\ Len(Framed(q, k)) \in Nat /\ Len(u) \in Nat
      /\ Len(q[k + 1]) \in Nat /\ Len(Framed(q, k + 1)) \in Nat
  <2>1. Framed(q, l) \in Seq(Byte)
    BY FramedStep
  <2>. QED
    BY <1>2, <1>3, <1>4, <2>1, LenProperties, Zenon
<1>8. Len(Framed(q, k + 1)) = Len(Framed(q, k)) + Len(Encoded(q[k + 1]))
  BY <1>4, <1>5, ConcatProperties, SMTT(30)
<1>. DEFINE a == Len(Framed(q, k))
            b == Len(Framed(q, k + 1))
            c == Len(Framed(q, l))
            d == Len(q[k + 1])
            e == Len(Encoded(q[k + 1]))
            v == Len(u)
<1>9. /\ a \in Nat /\ c \in Nat /\ d \in Nat /\ v \in Nat
      /\ b = a + e /\ c = b + v /\ e = 4 + d
  BY <1>5, <1>6, <1>7, <1>8, Zenon
<1>. HIDE DEF a, b, c, d, e, v
<1>10. a \in Nat /\ c \in Nat /\ c >= a + 4 + d
  BY <1>9
<1>. QED
  BY <1>10 DEF a, c, d

-----------------------------------------------------------------------------
(* What the writer has put in and what the reader has taken out *)

Announcement == IF foreign = Nothing THEN <<>> ELSE encode_u32_le(foreign)

(* All that ever goes in, if the writer gets through. *)
Sent == Framed(offered, Len(offered)) \o Announcement

(* The stream holds the beginning of it. *)
StreamInv ==
  /\ \A i \in 1..Len(offered) : Accepts(Len(offered[i]))
  /\ \E u \in Seq(Byte) : (wire \o obuf) \o u = Sent
  /\ foreign # Nothing => wpc = "failed"
  /\ Len(Framed(offered, done)) <= Len(wire)

(* As long as its end is open, write_frame knows how much that is. *)
PutInv ==
  LET n == Len(offered) IN
  ~closed =>
    /\ wpc \in {"ready", "flush"} => wire \o obuf = Framed(offered, n)
    /\ wpc = "header" => wire \o obuf = Framed(offered, n - 1)
    /\ wpc = "payload" =>
         wire \o obuf = Framed(offered, n - 1) \o encode_u32_le(Len(Last(offered)))

(* The part of a frame that read_frame has taken. *)
Held == (IF rpc = "payload" THEN encode_u32_le(size) ELSE <<>>) \o got

(* It has taken the first frames, part of the next, and the rest is before *)
(* it in the pipe.                                                         *)
ReaderInv ==
  LET m == Len(frames) IN
  /\ m <= Len(offered) /\ \A i \in 1..m : frames[i] = offered[i]
  /\ wire = (Framed(offered, m) \o Held) \o pipe
  /\ Len(got) <= Wanted
  /\ rpc = "header" => got # <<>>
  /\ rpc = "payload" =>
       /\ size # 0
       /\ m < Len(offered) => size = Len(offered[m + 1])
       /\ m = Len(offered) => foreign # Nothing

(* Why it returned false. *)
EndInv ==
  /\ failed => end # Nothing
  /\ end # Nothing => Len(got) < Wanted \/ (end = "bad_length" /\ rpc = "header")
  /\ end \in {"clean", "cut"} => (end = "clean" <=> rpc = "first")
  /\ end \in {"clean", "cut"} /\ ~failed => closed /\ pipe = <<>>

FramingInv == IInv /\ StreamInv /\ PutInv /\ ReaderInv /\ EndInv /\ CapsAgree

(* The values that the framing is about are bytes. *)
LEMMA FramingTypes ==
  ASSUME IInv
  PROVE  /\ offered \in Seq(Seq(Byte)) /\ offered \in Seq(Payloads) /\ Len(offered) \in Nat
         /\ frames \in Seq(Seq(Byte)) /\ Len(frames) \in Nat
         /\ wire \in Seq(Byte) /\ obuf \in Seq(Byte) /\ pipe \in Seq(Byte) /\ got \in Seq(Byte)
         /\ Len(wire) \in Nat /\ Len(got) \in Nat
         /\ size \in Nat /\ done \in 0..Len(offered)
         /\ Announcement \in Seq(Byte) /\ Held \in Seq(Byte)
         /\ foreign # Nothing =>
              foreign \in Nat /\ foreign < Base * Base * Base * Base /\ Len(Announcement) = 4
<1>1. /\ offered \in Seq(Payloads) /\ frames \in Seq(Seq(Byte))
      /\ {wire, obuf, pipe, got} \subseteq Seq(Byte) /\ size \in 0..max_len
      /\ done \in 0..Len(offered) /\ foreign \in Announced \cup {Nothing}
  BY DEF IInv, TypeOK
<1>2. Payloads \subseteq Seq(Byte) /\ max_len \in Nat
  BY BytesAssumption DEF Byte
<1>3. foreign # Nothing => foreign \in 0..(Base * Base * Base * Base - 1)
  BY <1>1, BytesAssumption
<1>4. Base * Base * Base * Base \in Nat
  BY BytesAssumption, ProductNat
<1>5. foreign # Nothing => foreign \in Nat /\ foreign < Base * Base * Base * Base
  BY <1>3, <1>4
<1>6. size \in Nat
  BY <1>1, <1>2
<1>. HIDE DEF Byte
<1>7. offered \in Seq(Seq(Byte))
  BY <1>1, <1>2, SeqMonotonic, Zenon
<1>8. <<>> \in Seq(Byte)
  OBVIOUS
<1>9. /\ Announcement \in Seq(Byte)
      /\ foreign # Nothing => Len(Announcement) = 4
  BY <1>5, <1>8, HeaderLength, Zenon DEF Announcement
<1>10. Held \in Seq(Byte)
  <2>. DEFINE h == IF rpc = "payload" THEN encode_u32_le(size) ELSE <<>>
  <2>1. h \in Seq(Byte)
    BY <1>6, <1>8, HeaderLength, Zenon
  <2>. HIDE DEF h
  <2>2. h \o got \in Seq(Byte)
    BY <1>1, <2>1
  <2>. QED
    BY <2>2 DEF h, Held
<1>. QED
  BY <1>1, <1>5, <1>6, <1>7, <1>9, <1>10

(* A frame's header, for the lengths that write_frame accepts. *)
LEMMA OfferedFrame ==
  ASSUME IInv, StreamInv, NEW i \in 1..Len(offered)
  PROVE  /\ offered[i] \in Seq(Byte) /\ offered[i] \in Payloads
         /\ Len(offered[i]) \in Nat /\ Accepts(Len(offered[i]))
         /\ encode_u32_le(Len(offered[i])) \in Seq(Byte)
         /\ Len(encode_u32_le(Len(offered[i]))) = 4
         /\ decode_u32_le(encode_u32_le(Len(offered[i]))) = Len(offered[i])
         /\ Encoded(offered[i]) = encode_u32_le(Len(offered[i])) \o offered[i]
<1>1. offered \in Seq(Seq(Byte)) /\ offered \in Seq(Payloads)
  BY FramingTypes
<1>. HIDE DEF Byte
<1>2. offered[i] \in Seq(Byte) /\ offered[i] \in Payloads
  BY <1>1
<1>3. Len(offered[i]) \in Nat
  BY <1>2, LenProperties
<1>4. Accepts(Len(offered[i]))
  BY DEF StreamInv
<1>5. Len(offered[i]) < Base * Base * Base * Base
  <2>1. Base * Base * Base * Base \in Nat /\ max_len \in Nat /\ max_len < Base * Base * Base * Base
    BY BytesAssumption, ProductNat
  <2>2. Len(offered[i]) <= max_len
    BY <1>4 DEF Accepts
  <2>. QED
    BY <1>3, <2>1, <2>2
<1>. QED
  BY <1>2, <1>3, <1>4, <1>5, HeaderRoundTrip, HeaderLength, EncodedType, Zenon

(* What the reader has begun is how the next frame begins, or, after the *)
(* last one, the foreign client's header.                                *)
LEMMA Ahead ==
  ASSUME IInv, StreamInv, ReaderInv
  PROVE  \E t \in Seq(Byte) :
           /\ Len(frames) < Len(offered) =>
                \E s \in Seq(Byte) : Held \o t = Encoded(offered[Len(frames) + 1]) \o s
           /\ Len(frames) = Len(offered) => Held \o t = Announcement
<1>. DEFINE n == Len(offered)
            m == Len(frames)
<1>1. /\ offered \in Seq(Seq(Byte)) /\ n \in Nat /\ m \in Nat /\ m <= n
      /\ wire \in Seq(Byte) /\ obuf \in Seq(Byte) /\ pipe \in Seq(Byte)
      /\ Announcement \in Seq(Byte) /\ Held \in Seq(Byte)
  BY FramingTypes DEF ReaderInv
<1>2. PICK u \in Seq(Byte) : (wire \o obuf) \o u = Framed(offered, n) \o Announcement
  BY DEF StreamInv, Sent
<1>3. wire = (Framed(offered, m) \o Held) \o pipe
  BY DEF ReaderInv
<1>4. m \in 0..n /\ n \in 0..n
  BY <1>1
<1>5. Framed(offered, m) \in Seq(Byte) /\ Framed(offered, n) \in Seq(Byte)
  BY <1>1, <1>4, FramedStep
<1>. DEFINE t == pipe \o (obuf \o u)
            fm == Framed(offered, m)
<1>. HIDE DEF Byte, fm
<1>6. t \in Seq(Byte) /\ fm \in Seq(Byte)
  BY <1>1, <1>5 DEF fm
<1>7. fm \o (Held \o t) = Framed(offered, n) \o Announcement
  <2>1. obuf \o u \in Seq(Byte) /\ fm \o Held \in Seq(Byte)
    BY <1>1, <1>6
  <2>0. wire \in Seq(Byte) /\ obuf \in Seq(Byte) /\ pipe \in Seq(Byte) /\ Held \in Seq(Byte)
    BY <1>1
  <2>2. (wire \o obuf) \o u = wire \o (obuf \o u)
    BY <2>0, ConcatAssociative, SMTT(60)
  <2>3. ((fm \o Held) \o pipe) \o (obuf \o u) = (fm \o Held) \o (pipe \o (obuf \o u))
    BY <2>0, <2>1, ConcatAssociative, SMTT(60)
  <2>. HIDE DEF t
  <2>4. (fm \o Held) \o t = fm \o (Held \o t)
    BY <1>6, <2>0, ConcatAssociative, SMTT(60)
  <2>. QED
    BY <1>2, <1>3, <2>2, <2>3, <2>4 DEF fm, t
<1>. HIDE DEF t
<1>8. Held \o t \in Seq(Byte)
  BY <1>1, <1>6
<1>9. CASE m < n
  <2>1. m + 1 \in 0..n /\ m + 1 \in 1..n /\ m + 1 <= n
    BY <1>1, <1>9
  <2>2. Framed(offered, m + 1) = fm \o Encoded(offered[m + 1])
    BY <1>1, <1>4, <1>9, FramedStep DEF fm
  <2>3. PICK v \in Seq(Byte) : Framed(offered, n) = Framed(offered, m + 1) \o v
    BY <1>1, <1>4, <2>1, FramedRest
  <2>. DEFINE e == Encoded(offered[m + 1])
  <2>4. e \in Seq(Byte)
    <3>1. offered[m + 1] \in Seq(Byte)
      BY <1>1, <2>1
    <3>. QED
      BY <3>1, EncodedType
  <2>. HIDE DEF e
  <2>5. v \o Announcement \in Seq(Byte) /\ e \o v \in Seq(Byte)
    BY <1>1, <2>4
  <2>6. ((fm \o e) \o v) \o Announcement = fm \o (e \o (v \o Announcement))
    <3>1. (fm \o e) \o v = fm \o (e \o v)
      BY <1>6, <2>4, ConcatAssociative, SMTT(60)
    <3>2. (fm \o (e \o v)) \o Announcement = fm \o ((e \o v) \o Announcement)
      <4>. DEFINE w == e \o v
      <4>1. w \in Seq(Byte) /\ Announcement \in Seq(Byte) /\ fm \in Seq(Byte)
        BY <1>1, <1>6, <2>5
      <4>. HIDE DEF w
      <4>2. (fm \o w) \o Announcement = fm \o (w \o Announcement)
        BY <4>1, ConcatAssociative, SMTT(60)
      <4>. QED
        BY <4>2 DEF w
    <3>3. (e \o v) \o Announcement = e \o (v \o Announcement)
      BY <1>1, <2>4, ConcatAssociative, SMTT(60)
    <3>. QED
      BY <3>1, <3>2, <3>3
  <2>7. e \o (v \o Announcement) \in Seq(Byte)
    BY <2>4, <2>5
  <2>8. fm \o (Held \o t) = fm \o (e \o (v \o Announcement))
    BY <1>7, <2>2, <2>3, <2>6 DEF e
  <2>9. Held \o t = e \o (v \o Announcement)
    BY <1>6, <1>8, <2>7, <2>8, ConcatSimplifications
  <2>10. \E s \in Seq(Byte) : Held \o t = e \o s
    BY <2>5, <2>9
  <2>11. m # n
    BY <1>1, <1>9
  <2>. QED
    BY <1>6, <2>10, <2>11, Zenon DEF e
<1>10. CASE m = n
  <2>1. fm \o (Held \o t) = fm \o Announcement
    BY <1>7, <1>10 DEF fm
  <2>2. Held \o t = Announcement
    BY <1>1, <1>6, <1>8, <2>1, EqualFronts, Zenon
  <2>3. ~(m < n)
    BY <1>1, <1>10
  <2>. QED
    BY <1>6, <2>2, <2>3, Zenon
<1>11. m < n \/ m = n
  BY <1>1
<1>. QED
  BY <1>9, <1>10, <1>11, Zenon

(* A whole header is the next frame's, or the foreign client's. *)
LEMMA HeaderAhead ==
  ASSUME IInv, StreamInv, ReaderInv, rpc = "header", Len(got) = 4
  PROVE  /\ Len(frames) < Len(offered) =>
              got = encode_u32_le(Len(offered[Len(frames) + 1]))
         /\ Len(frames) = Len(offered) =>
              foreign # Nothing /\ got = encode_u32_le(foreign)
<1>. DEFINE n == Len(offered)
            m == Len(frames)
<1>. HIDE DEF Byte
<1>1. /\ n \in Nat /\ m \in Nat /\ got \in Seq(Byte) /\ Announcement \in Seq(Byte)
      /\ foreign # Nothing => Len(Announcement) = 4
  BY FramingTypes
<1>2. Held = got
  <2>1. <<>> \o got = got
    BY <1>1, ConcatEmptySeq
  <2>. QED
    BY <2>1 DEF Held
<1>3. PICK t \in Seq(Byte) :
        /\ m < n => \E s \in Seq(Byte) : got \o t = Encoded(offered[m + 1]) \o s
        /\ m = n => got \o t = Announcement
  BY <1>2, Ahead, Zenon
<1>4. ASSUME m < n
      PROVE  got = encode_u32_le(Len(offered[m + 1]))
  <2>. DEFINE p == offered[m + 1]
              h == encode_u32_le(Len(p))
  <2>1. m + 1 \in 1..n
    BY <1>1, <1>4
  <2>2. p \in Seq(Byte) /\ h \in Seq(Byte) /\ Len(h) = 4 /\ Encoded(p) = h \o p
    BY <2>1, OfferedFrame, Zenon
  <2>3. PICK s \in Seq(Byte) : got \o t = Encoded(p) \o s
    BY <1>3, <1>4
  <2>. HIDE DEF p, h
  <2>4. (h \o p) \o s = h \o (p \o s) /\ p \o s \in Seq(Byte)
    <3>1. p \o s \in Seq(Byte)
      BY <2>2
    <3>. QED
      BY <2>2, <3>1, ConcatAssociative, SMTT(60)
  <2>5. got \o t = h \o (p \o s) /\ Len(got) = Len(h)
    BY <2>2, <2>3, <2>4
  <2>6. got = h
    <3>. DEFINE ps == p \o s
    <3>1. got \o t = h \o ps /\ ps \in Seq(Byte)
      BY <2>4, <2>5
    <3>. HIDE DEF ps
    <3>. QED
      BY <1>1, <2>2, <2>5, <3>1, EqualFronts, Zenon
  <2>. QED
    BY <2>6 DEF h, p
<1>5. ASSUME m = n
      PROVE  foreign # Nothing /\ got = encode_u32_le(foreign)
  <2>1. got \o t = Announcement
    BY <1>3, <1>5
  <2>2. Len(Announcement) = 4 + Len(t)
    <3>1. Len(got \o t) = Len(got) + Len(t)
      BY <1>1, ConcatProperties
    <3>. QED
      BY <2>1, <3>1
  <2>3. Len(t) \in Nat
    BY LenProperties
  <2>4. foreign # Nothing
    <3>1. foreign = Nothing => Len(Announcement) = 0
      BY DEF Announcement
    <3>. QED
      BY <2>2, <2>3, <3>1
  <2>5. Len(t) = 0
    BY <1>1, <2>2, <2>3, <2>4
  <2>6. t = <<>>
    BY <2>5, EmptySeq
  <2>7. got \o <<>> = got
    BY <1>1, ConcatEmptySeq
  <2>8. got = Announcement
    BY <2>1, <2>6, <2>7
  <2>. QED
    BY <2>4, <2>8 DEF Announcement
<1>. QED
  BY <1>4, <1>5

(* A whole payload is the next frame's: a foreign client sends none. *)
LEMMA PayloadAhead ==
  ASSUME IInv, StreamInv, ReaderInv, rpc = "payload", Len(got) = size
  PROVE  Len(frames) < Len(offered) /\ got = offered[Len(frames) + 1]
<1>. DEFINE n == Len(offered)
            m == Len(frames)
            g == encode_u32_le(size)
<1>. HIDE DEF Byte
<1>1. /\ n \in Nat /\ m \in Nat /\ m <= n /\ got \in Seq(Byte) /\ size \in Nat /\ size # 0
      /\ Announcement \in Seq(Byte) /\ (foreign # Nothing => Len(Announcement) = 4)
      /\ m < n => size = Len(offered[m + 1])
      /\ m = n => foreign # Nothing
  BY FramingTypes DEF ReaderInv
<1>2. g \in Seq(Byte) /\ Len(g) = 4 /\ Held = g \o got
  BY <1>1, HeaderLength DEF Held
<1>. HIDE DEF g
<1>3. PICK t \in Seq(Byte) :
        /\ m < n => \E s \in Seq(Byte) : (g \o got) \o t = Encoded(offered[m + 1]) \o s
        /\ m = n => (g \o got) \o t = Announcement
  BY <1>2, Ahead, Zenon
<1>4. (g \o got) \o t = g \o (got \o t) /\ got \o t \in Seq(Byte)
  <2>1. got \o t \in Seq(Byte)
    BY <1>1
  <2>. QED
    BY <1>1, <1>2, <2>1, ConcatAssociative, SMTT(60)
<1>5. ASSUME m < n
      PROVE  got = offered[m + 1]
  <2>. DEFINE p == offered[m + 1]
              h == encode_u32_le(Len(p))
  <2>1. m + 1 \in 1..n
    BY <1>1, <1>5
  <2>2. p \in Seq(Byte) /\ h \in Seq(Byte) /\ Len(h) = 4 /\ Encoded(p) = h \o p
    BY <2>1, OfferedFrame, Zenon
  <2>3. PICK s \in Seq(Byte) : (g \o got) \o t = Encoded(p) \o s
    BY <1>3, <1>5
  <2>4. Len(got) = Len(p)
    BY <1>1, <1>5
  <2>. HIDE DEF p, h
  <2>5. (h \o p) \o s = h \o (p \o s) /\ p \o s \in Seq(Byte)
    <3>1. p \o s \in Seq(Byte)
      BY <2>2
    <3>. QED
      BY <2>2, <3>1, ConcatAssociative, SMTT(60)
  <2>6. g \o (got \o t) = h \o (p \o s) /\ Len(g) = Len(h)
    BY <1>2, <1>4, <2>2, <2>3, <2>5
  <2>7. got \o t = p \o s
    <3>. DEFINE gt == got \o t
                ps == p \o s
    <3>1. g \o gt = h \o ps /\ gt \in Seq(Byte) /\ ps \in Seq(Byte)
      BY <1>4, <2>5, <2>6
    <3>. HIDE DEF gt, ps
    <3>2. gt = ps
      BY <1>2, <2>2, <2>6, <3>1, EqualFronts, Zenon
    <3>. QED
      BY <3>2 DEF gt, ps
  <2>8. got = p
    BY <1>1, <2>2, <2>4, <2>7, EqualFronts, Zenon
  <2>. QED
    BY <2>8 DEF p
<1>6. ASSUME m = n
      PROVE  FALSE
  <2>1. g \o (got \o t) = Announcement /\ Len(Announcement) = 4
    BY <1>1, <1>3, <1>4, <1>6
  <2>2. /\ Len(g \o (got \o t)) = Len(g) + Len(got \o t)
        /\ Len(got \o t) = Len(got) + Len(t)
    <3>0. got \in Seq(Byte) /\ t \in Seq(Byte)
      BY <1>1
    <3>1. Len(got \o t) = Len(got) + Len(t)
      BY <3>0
    <3>. DEFINE gt == got \o t
    <3>2. gt \in Seq(Byte)
      BY <1>4
    <3>. HIDE DEF gt
    <3>3. Len(g \o gt) = Len(g) + Len(gt)
      BY <1>2, <3>2, ConcatProperties, Zenon
    <3>. QED
      BY <3>1, <3>3 DEF gt
  <2>3. Len(t) \in Nat
    BY LenProperties
  <2>. QED
    BY <1>1, <1>2, <2>1, <2>2, <2>3
<1>7. m < n
  BY <1>1, <1>6
<1>. QED
  BY <1>5, <1>7

(* What has come, in bytes. *)
LEMMA WireLength ==
  ASSUME IInv, StreamInv, ReaderInv, pipe = <<>>
  PROVE  LET m == Len(frames) IN
         /\ wire = Framed(offered, m) \o Held /\ Framed(offered, m) \in Seq(Byte)
         /\ Len(Held) = Len(got) + (IF rpc = "payload" THEN 4 ELSE 0)
         /\ Len(wire) = Len(Framed(offered, m)) + Len(Held)
         /\ Len(Framed(offered, m)) \in Nat /\ Len(Held) \in Nat
<1>. DEFINE m == Len(frames)
            f == Framed(offered, m)
<1>. HIDE DEF Byte
<1>1. /\ m \in 0..Len(offered) /\ offered \in Seq(Seq(Byte)) /\ Held \in Seq(Byte)
      /\ got \in Seq(Byte) /\ size \in Nat
  BY FramingTypes DEF ReaderInv
<1>2. f \in Seq(Byte)
  BY <1>1, FramedStep
<1>3. wire = (f \o Held) \o pipe
  BY DEF ReaderInv
<1>. HIDE DEF f
<1>4. wire = f \o Held
  <2>1. f \o Held \in Seq(Byte)
    BY <1>1, <1>2
  <2>. QED
    BY <1>3, <2>1, ConcatEmptySeq
<1>5. Len(wire) = Len(f) + Len(Held) /\ Len(f) \in Nat /\ Len(Held) \in Nat
  BY <1>1, <1>2, <1>4, ConcatProperties
<1>6. Len(Held) = Len(got) + (IF rpc = "payload" THEN 4 ELSE 0)
  <2>. DEFINE h == IF rpc = "payload" THEN encode_u32_le(size) ELSE <<>>
  <2>1. h \in Seq(Byte) /\ Len(h) = IF rpc = "payload" THEN 4 ELSE 0
    <3>1. <<>> \in Seq(Byte) /\ Len(<<>>) = 0
      BY EmptySeq
    <3>2. encode_u32_le(size) \in Seq(Byte) /\ Len(encode_u32_le(size)) = 4
      BY <1>1, HeaderLength
    <3>3. CASE rpc = "payload"
      BY <3>2, <3>3
    <3>4. CASE rpc # "payload"
      BY <3>1, <3>4
    <3>. QED
      BY <3>3, <3>4
  <2>2. Held = h \o got
    BY DEF Held
  <2>. HIDE DEF h
  <2>3. Len(h \o got) = Len(h) + Len(got)
    BY <1>1, <2>1, ConcatProperties
  <2>4. Len(got) \in Nat
    BY <1>1, LenProperties
  <2>. QED
    BY <2>1, <2>2, <2>3, <2>4
<1>. QED
  BY <1>2, <1>4, <1>5, <1>6 DEF f, m

(* A reader between two frames whose pipe is empty has every frame that was *)
(* reported written.                                                        *)
LEMMA NoneLost ==
  ASSUME IInv, StreamInv, ReaderInv, pipe = <<>>, rpc = "first", Len(got) < Wanted
  PROVE  Len(frames) >= done
<1>. DEFINE m == Len(frames)
<1>. HIDE DEF Byte
<1>1. /\ m \in 0..Len(offered) /\ done \in 0..Len(offered) /\ offered \in Seq(Seq(Byte))
      /\ Len(got) \in Nat
  BY FramingTypes DEF ReaderInv
<1>2. Len(got) = 0
  BY <1>1 DEF Wanted
<1>3. Len(wire) = Len(Framed(offered, m)) /\ Len(Framed(offered, m)) \in Nat
  BY <1>2, WireLength
<1>4. Len(Framed(offered, done)) <= Len(wire)
  BY DEF StreamInv
<1>. SUFFICES ASSUME m < done PROVE FALSE
  BY <1>1
<1>5. /\ Len(Framed(offered, done)) \in Nat
      /\ Len(Framed(offered, done)) >= Len(Framed(offered, m)) + 4 + Len(offered[m + 1])
  BY <1>1, FramedLonger, Zenon
<1>6. Len(offered[m + 1]) \in Nat
  <2>1. m + 1 \in 1..Len(offered)
    BY <1>1
  <2>. QED
    BY <2>1, OfferedFrame
<1>. DEFINE a == Len(Framed(offered, m))
            b == Len(Framed(offered, done))
            w == Len(wire)
            l == Len(offered[m + 1])
<1>7. a \in Nat /\ b \in Nat /\ l \in Nat /\ w = a /\ b <= w /\ b >= a + 4 + l
  BY <1>3, <1>4, <1>5, <1>6, Zenon
<1>. HIDE DEF a, b, w, l
<1>. QED
  BY <1>7

(* The end is classified by what has come. *)
LEMMA EndFollows ==
  ASSUME IInv, StreamInv, ReaderInv, EndInv
  PROVE  EndIsClassified
<1>. SUFFICES ASSUME end \in {"clean", "cut"}, ~failed
              PROVE  rpc = "first" <=> WholeFrames
  BY DEF EndIsClassified, EndInv
<1>. DEFINE m == Len(frames)
            n == Len(offered)
<1>. HIDE DEF Byte
<1>1. pipe = <<>> /\ Len(got) < Wanted
  BY BytesAssumption DEF EndInv
<1>2. /\ m \in 0..n /\ offered \in Seq(Seq(Byte)) /\ Len(got) \in Nat /\ n \in Nat
      /\ Held \in Seq(Byte) /\ got \in Seq(Byte) /\ size \in Nat
  BY FramingTypes DEF ReaderInv
<1>3. /\ wire = Framed(offered, m) \o Held /\ Framed(offered, m) \in Seq(Byte)
      /\ Len(Held) = Len(got) + (IF rpc = "payload" THEN 4 ELSE 0)
      /\ Len(wire) = Len(Framed(offered, m)) + Len(Held)
      /\ Len(Framed(offered, m)) \in Nat /\ Len(Held) \in Nat
  BY <1>1, WireLength, Zenon
<1>. DEFINE a == Len(Framed(offered, m))
            h == Len(Held)
            w == Len(wire)
            l(k) == Len(offered[k + 1])
<1>4. a \in Nat /\ h \in Nat /\ w = a + h
  BY <1>3
<1>5. ASSUME NEW k \in 0..n, NEW j \in 0..n, k < j
      PROVE  /\ Len(Framed(offered, k)) \in Nat /\ Len(Framed(offered, j)) \in Nat
             /\ l(k) \in Nat
             /\ Len(Framed(offered, j)) >= Len(Framed(offered, k)) + 4 + l(k)
  <2>1. k + 1 \in 1..n
    BY <1>2, <1>5
  <2>2. l(k) \in Nat
    BY <2>1, OfferedFrame, Zenon
  <2>. QED
    BY <1>2, <1>5, <2>2, FramedLonger, Zenon
<1>6. CASE rpc = "first"
  <2>1. Len(Held) = 0
    BY <1>1, <1>2, <1>3, <1>6 DEF Wanted
  <2>2. Held = <<>>
    BY <1>2, <2>1, EmptySeq
  <2>3. wire = Framed(offered, m)
    BY <1>3, <2>2, ConcatEmptySeq
  <2>. QED
    BY <1>2, <1>6, <2>3 DEF WholeFrames
<1>7. CASE rpc # "first"
  <2>1. rpc \in {"header", "payload"}
    BY <1>7 DEF IInv, TypeOK
  <2>2. Len(Held) > 0
    <3>1. rpc = "header" => Len(got) # 0
      BY <1>2, EmptySeq DEF ReaderInv
    <3>. QED
      BY <1>2, <1>3, <2>1, <3>1
  <2>. SUFFICES ASSUME NEW k \in 0..n, wire = Framed(offered, k) PROVE FALSE
    BY <1>7 DEF WholeFrames
  <2>. DEFINE b == Len(Framed(offered, k))
  <2>3. w > a /\ w = b
    BY <1>4, <2>2
  <2>4. k # m
    BY <1>4, <2>3
  <2>5. CASE k < m
    <3>1. b \in Nat /\ l(k) \in Nat /\ a >= b + 4 + l(k)
      BY <1>2, <1>5, <2>5, Zenon
    <3>. HIDE DEF a, b, w, l
    <3>. QED
      BY <1>4, <2>3, <3>1
  <2>6. CASE m < k
    <3>1. l(m) \in Nat /\ b \in Nat /\ b >= a + 4 + l(m)
      BY <1>2, <1>5, <2>6, Zenon
    <3>2. h < 4 + l(m)
      <4>1. rpc = "header" => Len(got) < 4
        BY <1>1 DEF Wanted
      <4>2. rpc = "payload" => Len(got) < size /\ size = l(m)
        BY <1>1, <1>2, <2>6 DEF Wanted, ReaderInv
      <4>3. h = Len(got) + (IF rpc = "payload" THEN 4 ELSE 0)
        BY <1>3
      <4>. HIDE DEF h, l
      <4>. QED
        BY <1>2, <2>1, <3>1, <4>1, <4>2, <4>3
    <3>. HIDE DEF a, b, h, w, l
    <3>. QED
      BY <1>4, <2>3, <3>1, <3>2
  <2>. QED
    BY <1>2, <2>4, <2>5, <2>6
<1>. QED
  BY <1>6, <1>7

-----------------------------------------------------------------------------
(* The framing is kept by every step. *)

(* The reader's part does not depend on what the writer has still to put in. *)
LEMMA ReaderSame ==
  ASSUME ReaderInv, EndInv, UNCHANGED <<reader, pipe, wire, foreign, offered>>,
         closed => closed'
  PROVE  ReaderInv' /\ EndInv'
<1>1. ReaderInv'
  BY DEF ReaderInv, Held, Wanted, reader
<1>2. EndInv'
  BY DEF EndInv, Wanted, reader
<1>. QED
  BY <1>1, <1>2

(* Nor the writer's on the reader. *)
LEMMA WriterSame ==
  ASSUME StreamInv, PutInv, UNCHANGED <<writer, obuf, wire, foreign, closed>>
  PROVE  StreamInv' /\ PutInv'
<1>1. StreamInv'
  BY DEF StreamInv, Sent, Announcement, writer
<1>2. PutInv'
  BY DEF PutInv, writer
<1>. QED
  BY <1>1, <1>2

(* In the beginning nothing has been sent. *)
LEMMA FramesInit == Init => FramingInv
<1>. SUFFICES ASSUME Init PROVE FramingInv
  OBVIOUS
<1>1. IInv
  BY FramingInit
<1>2. /\ offered = <<>> /\ wire = <<>> /\ obuf = <<>> /\ pipe = <<>> /\ got = <<>>
      /\ frames = <<>> /\ done = 0 /\ foreign = Nothing /\ closed = FALSE
      /\ wpc = "ready" /\ rpc = "first" /\ end = Nothing /\ failed = FALSE
  BY DEF Init
<1>. HIDE DEF Byte
<1>3. Framed(<<>>, 0) = <<>>
  <2>1. <<>> \in Seq(Seq(Byte)) /\ 0 \in 0..Len(<<>>)
    OBVIOUS
  <2>. QED
    BY <2>1, FramedStep, Zenon
<1>4. /\ <<>> \in Seq(Byte) /\ Len(<<>>) = 0 /\ <<>> \o <<>> = <<>>
      /\ Framed(offered, 0) = <<>>
  BY <1>2, <1>3, EmptySeq, ConcatEmptySeq
<1>5. StreamInv
  <2>1. Sent = <<>> /\ (wire \o obuf) \o <<>> = Sent
    BY <1>2, <1>4 DEF Sent, Announcement
  <2>2. \A i \in 1..Len(offered) : Accepts(Len(offered[i]))
    BY <1>2
  <2>3. Len(Framed(offered, done)) <= Len(wire)
    BY <1>2, <1>4
  <2>4. \E u \in Seq(Byte) : (wire \o obuf) \o u = Sent
    BY <1>4, <2>1, Zenon
  <2>. QED
    BY <1>2, <2>2, <2>3, <2>4 DEF StreamInv
<1>6. PutInv
  BY <1>2, <1>4 DEF PutInv
<1>7. ReaderInv
  BY <1>2, <1>4 DEF ReaderInv, Held, Wanted
<1>8. EndInv /\ CapsAgree
  BY <1>2, BytesAssumption DEF EndInv, CapsAgree
<1>. QED
  BY <1>1, <1>5, <1>6, <1>7, <1>8 DEF FramingInv

(* A frame is accepted: it is to follow all that have been put in. *)
LEMMA CheckKeepsFrames ==
  ASSUME FramingInv, NEW p \in Payloads, CheckLength(p)
  PROVE  StreamInv' /\ PutInv' /\ ReaderInv' /\ EndInv' /\ CapsAgree'
<1>. DEFINE n == Len(offered)
            m == Len(frames)
<1>0. IInv /\ StreamInv /\ PutInv /\ ReaderInv /\ EndInv /\ CapsAgree
  BY DEF FramingInv
<1>1. UNCHANGED <<done, good, stream, reader>> /\ wpc = "ready" /\ ~closed
  BY DEF CheckLength
<1>2. CASE ~Accepts(Len(p))
  <2>1. UNCHANGED <<offered, wpc>>
    BY <1>2 DEF CheckLength
  <2>. QED
    BY <1>0, <1>1, <2>1, ReaderSame, WriterSame DEF stream, writer, reader, CapsAgree
<1>3. CASE Accepts(Len(p))
  <2>1. offered' = Append(offered, p) /\ wpc' = "header"
    BY <1>3 DEF CheckLength
  <2>2. foreign = Nothing
    BY <1>0, <1>1 DEF StreamInv
  <2>3. /\ UNCHANGED <<done, obuf, pipe, wire, closed, foreign>>
        /\ UNCHANGED <<rpc, got, size, frames, end, failed>>
    BY <1>1 DEF stream, reader
  <2>4. /\ offered \in Seq(Seq(Byte)) /\ n \in Nat /\ p \in Seq(Byte)
        /\ m \in 0..n /\ done \in 0..n /\ n \in 0..n /\ wire \in Seq(Byte) /\ obuf \in Seq(Byte)
    BY <1>0, FramingTypes, BytesAssumption DEF ReaderInv, Byte
  <2>. HIDE DEF Byte
  <2>5. /\ offered' \in Seq(Seq(Byte)) /\ Len(offered') = n + 1
        /\ offered'[n + 1] = p /\ \A i \in 1..n : offered'[i] = offered[i]
    BY <2>1, <2>4
  <2>6. \A k \in 0..n : Framed(offered', k) = Framed(offered, k)
    BY <2>1, <2>4, FramedAppend, Zenon
  <2>7. wire \o obuf = Framed(offered, n)
    BY <1>0, <1>1 DEF PutInv
  <2>8. StreamInv'
    <3>1. \A i \in 1..Len(offered') : Accepts(Len(offered'[i]))
      <4>. SUFFICES ASSUME NEW i \in 1..(n + 1) PROVE Accepts(Len(offered'[i]))
        BY <2>5
      <4>1. CASE i = n + 1
        BY <1>3, <2>5, <4>1
      <4>2. CASE i # n + 1
        <5>1. i \in 1..n /\ offered'[i] = offered[i]
          BY <2>4, <2>5, <4>2
        <5>2. Accepts(Len(offered[i]))
          BY <1>0, <5>1 DEF StreamInv
        <5>. QED
          BY <5>1, <5>2, Zenon
      <4>. QED
        BY <4>1, <4>2
    <3>2. Framed(offered', n + 1) = Framed(offered', n) \o Encoded(p)
      <4>1. n \in 0..Len(offered') /\ n < Len(offered')
        BY <2>4, <2>5
      <4>. QED
        BY <2>5, <4>1, FramedStep
    <3>3. Encoded(p) \in Seq(Byte) /\ Framed(offered', n + 1) \in Seq(Byte)
      <4>1. n + 1 \in 0..Len(offered')
        BY <2>4, <2>5
      <4>. QED
        BY <2>4, <2>5, <4>1, EncodedType, FramedStep
    <3>4. (wire' \o obuf') \o Encoded(p) = Framed(offered', n + 1)
      BY <2>3, <2>4, <2>6, <2>7, <3>2
    <3>5. Sent' = Framed(offered', n + 1)
      <4>1. Sent' = Framed(offered', n + 1) \o <<>>
        BY <2>2, <2>3, <2>5 DEF Sent, Announcement
      <4>. QED
        BY <3>3, <4>1, ConcatEmptySeq
    <3>6. Len(Framed(offered', done')) <= Len(wire')
      BY <1>0, <2>3, <2>4, <2>6 DEF StreamInv
    <3>. QED
      BY <2>2, <2>3, <3>1, <3>3, <3>4, <3>5, <3>6 DEF StreamInv
  <2>9. PutInv'
    <3>1. Len(offered') - 1 = n
      BY <2>4, <2>5
    <3>. QED
      BY <2>1, <2>3, <2>4, <2>6, <2>7, <3>1 DEF PutInv
  <2>10. ReaderInv'
    <3>1. Framed(offered', m) = Framed(offered, m)
      BY <2>4, <2>6
    <3>2. m <= Len(offered') /\ \A i \in 1..m : frames[i] = offered'[i]
      BY <1>0, <2>4, <2>5 DEF ReaderInv
    <3>3. rpc = "payload" => m < n /\ size # 0 /\ size = Len(offered'[m + 1])
      <4>. SUFFICES ASSUME rpc = "payload"
                    PROVE  m < n /\ size # 0 /\ size = Len(offered'[m + 1])
        OBVIOUS
      <4>1. m # n
        BY <1>0, <2>2 DEF ReaderInv
      <4>2. m < n /\ m + 1 \in 1..n
        BY <2>4, <4>1
      <4>. QED
        BY <1>0, <2>5, <4>2 DEF ReaderInv
    <3>4. m # Len(offered')
      BY <2>4, <2>5
    <3>5. wire' = (Framed(offered', m) \o Held') \o pipe'
      BY <1>0, <2>3, <3>1 DEF ReaderInv, Held
    <3>6. Len(got') <= Wanted' /\ (rpc' = "header" => got' # <<>>)
      BY <1>0, <2>3 DEF ReaderInv, Wanted
    <3>. QED
      BY <2>3, <3>2, <3>3, <3>4, <3>5, <3>6 DEF ReaderInv
  <2>11. EndInv' /\ CapsAgree'
    BY <1>0, <2>3 DEF EndInv, Wanted, CapsAgree
  <2>. QED
    BY <2>8, <2>9, <2>10, <2>11
<1>. QED
  BY <1>2, <1>3

(* The writer has given up, or its end is closed: what is in the stream is *)
(* the beginning of what was to be sent.                                   *)
LEMMA BeginningStays ==
  ASSUME FramingInv, UNCHANGED <<offered, done, wire, foreign>>,
         NEW u \in Seq(Byte), (wire \o obuf') \o u = Sent,
         wpc' = "failed" \/ (closed' /\ wpc' = wpc)
  PROVE  StreamInv' /\ PutInv'
<1>0. StreamInv
  BY DEF FramingInv
<1>1. Sent' = Sent
  BY DEF Sent, Announcement
<1>2. \E v \in Seq(Byte) : (wire' \o obuf') \o v = Sent'
  BY <1>1
<1>3. StreamInv'
  BY <1>0, <1>2 DEF StreamInv
<1>4. PutInv'
  BY DEF PutInv
<1>. QED
  BY <1>3, <1>4

(* The header and then the payload are put behind the frames before. *)
LEMMA PutKeepsFrames ==
  ASSUME FramingInv, WriteHeader \/ WritePayload
  PROVE  StreamInv' /\ PutInv' /\ ReaderInv' /\ EndInv' /\ CapsAgree'
<1>. DEFINE n == Len(offered)
            p == Last(offered)
            h == encode_u32_le(Len(p))
            f == Framed(offered, n - 1)
<1>0. IInv /\ StreamInv /\ PutInv /\ ReaderInv /\ EndInv /\ CapsAgree
  BY DEF FramingInv
<1>1. /\ UNCHANGED <<offered, done, good, pipe, wire, closed, foreign, reader>> /\ ~closed
      /\ wpc \in {"header", "payload"}
  BY DEF WriteHeader, WritePayload, Put
<1>2. /\ offered \in Seq(Seq(Byte)) /\ n \in Nat /\ n \in 1..n
      /\ wire \in Seq(Byte) /\ obuf \in Seq(Byte)
  BY <1>0, <1>1, FramingTypes DEF IInv, WriterInv, TypeOK
<1>3. /\ p \in Seq(Byte) /\ h \in Seq(Byte) /\ p = offered[n]
      /\ Encoded(p) = h \o p
  <2>1. p = offered[n]
    BY DEF Last
  <2>. QED
    BY <1>0, <1>2, <2>1, OfferedFrame
<1>4. /\ f \in Seq(Byte) /\ Framed(offered, n) = f \o (h \o p)
      /\ Framed(offered, n) \in Seq(Byte)
  <2>1. n - 1 \in 0..n /\ n \in 0..n /\ n - 1 < n /\ (n - 1) + 1 = n
    BY <1>2
  <2>2. f \in Seq(Byte) /\ Framed(offered, (n - 1) + 1) = f \o Encoded(offered[(n - 1) + 1])
    BY <1>2, <2>1, FramedStep
  <2>. QED
    BY <1>2, <1>3, <2>1, <2>2, FramedStep
<1>5. foreign = Nothing
  BY <1>0, <1>1 DEF StreamInv
<1>. HIDE DEF Byte, f, h, p
<1>6. Sent = f \o (h \o p)
  <2>1. Framed(offered, n) \o <<>> = Framed(offered, n)
    BY <1>4, ConcatEmptySeq
  <2>. QED
    BY <1>4, <1>5, <2>1 DEF Sent, Announcement
<1>7. ReaderInv' /\ EndInv' /\ CapsAgree'
  BY <1>0, <1>1, ReaderSame DEF CapsAgree, reader
<1>8. /\ f \in Seq(Byte) /\ h \in Seq(Byte) /\ p \in Seq(Byte)
       /\ wire \in Seq(Byte) /\ obuf \in Seq(Byte)
  BY <1>2, <1>3, <1>4, Zenon
<1>9. (f \o h) \o p = f \o (h \o p) /\ f \o h \in Seq(Byte)
  <2>1. f \o h \in Seq(Byte)
    BY <1>8
  <2>2. (f \o h) \o p = f \o (h \o p)
    BY <1>8, ConcatAssociative, SMTT(60)
  <2>. QED
    BY <2>1, <2>2
<1>10. CASE obuf' = obuf /\ wpc' = "failed"
  <2>1. PICK u \in Seq(Byte) : (wire \o obuf) \o u = Sent
    BY <1>0 DEF StreamInv
  <2>2. (wire \o obuf') \o u = Sent
    BY <1>10, <2>1
  <2>. QED
    BY <1>1, <1>7, <1>10, <2>2, BeginningStays
<1>11. CASE WriteHeader /\ obuf' = obuf \o h /\ wpc' = "payload"
  <2>1. wire \o obuf = f
    BY <1>0, <1>1, <1>11 DEF PutInv, WriteHeader, f
  <2>2. wire' \o obuf' = f \o h
    <3>1. wire \o (obuf \o h) = (wire \o obuf) \o h
      BY <1>8, ConcatAssociative, SMTT(60)
    <3>. QED
      BY <1>1, <1>11, <2>1, <3>1
  <2>3. \E u \in Seq(Byte) : (wire' \o obuf') \o u = Sent'
    <3>1. Sent' = Sent
      BY <1>1 DEF Sent, Announcement
    <3>2. (wire' \o obuf') \o p = Sent'
      BY <1>6, <1>9, <2>2, <3>1
    <3>. QED
      BY <1>3, <3>2, Zenon
  <2>4. StreamInv'
    BY <1>0, <1>1, <1>5, <2>3 DEF StreamInv
  <2>5. PutInv'
    BY <1>1, <1>11, <2>2 DEF PutInv, f, h, p
  <2>. QED
    BY <1>7, <2>4, <2>5
<1>12. CASE WritePayload /\ obuf' = obuf \o p /\ wpc' = "flush"
  <2>1. wire \o obuf = f \o h
    BY <1>0, <1>1, <1>12 DEF PutInv, WritePayload, f, h, p
  <2>2. wire' \o obuf' = f \o (h \o p)
    <3>1. wire \o (obuf \o p) = (wire \o obuf) \o p
      BY <1>8, ConcatAssociative, SMTT(60)
    <3>. QED
      BY <1>1, <1>9, <1>12, <2>1, <3>1
  <2>3. \E u \in Seq(Byte) : (wire' \o obuf') \o u = Sent'
    <3>1. Sent' = Sent
      BY <1>1 DEF Sent, Announcement
    <3>2. (wire' \o obuf') \o <<>> = Sent' /\ <<>> \in Seq(Byte)
      <4>1. Framed(offered, n) \o <<>> = Framed(offered, n) /\ <<>> \in Seq(Byte)
        BY <1>4, ConcatEmptySeq
      <4>. QED
        BY <1>4, <1>6, <2>2, <3>1, <4>1
    <3>. QED
      BY <3>2, Zenon
  <2>4. StreamInv'
    BY <1>0, <1>1, <1>5, <2>3 DEF StreamInv
  <2>5. PutInv'
    BY <1>1, <1>4, <1>12, <2>2 DEF PutInv
  <2>. QED
    BY <1>7, <2>4, <2>5
<1>. QED
  BY <1>10, <1>11, <1>12 DEF WriteHeader, WritePayload, Put, h, p

(* A frame is reported written when all of it is in the pipe. *)
LEMMA FlushKeepsFrames ==
  ASSUME FramingInv, Flush
  PROVE  StreamInv' /\ PutInv' /\ ReaderInv' /\ EndInv' /\ CapsAgree'
<1>. DEFINE n == Len(offered)
<1>0. IInv /\ StreamInv /\ PutInv /\ ReaderInv /\ EndInv /\ CapsAgree
  BY DEF FramingInv
<1>1. UNCHANGED <<offered, good, obuf, pipe, wire, closed, foreign, reader>> /\ ~closed
  BY DEF Flush, stream
<1>2. ReaderInv' /\ EndInv' /\ CapsAgree'
  BY <1>0, <1>1, ReaderSame DEF CapsAgree, reader
<1>3. PICK u \in Seq(Byte) : (wire \o obuf) \o u = Sent
  BY <1>0 DEF StreamInv
<1>4. CASE wpc' = "failed" /\ done' = done
  <2>1. (wire \o obuf') \o u = Sent
    BY <1>1, <1>3
  <2>. QED
    BY <1>1, <1>2, <1>4, <2>1, BeginningStays
<1>5. CASE wpc = "flush" /\ obuf = <<>> /\ wpc' = "ready" /\ done' = done + 1
  <2>1. done' = n
    BY <1>0, <1>5 DEF IInv, WriterInv
  <2>2. wire \o obuf = Framed(offered, n)
    BY <1>0, <1>1, <1>5 DEF PutInv
  <2>3. wire = Framed(offered, n) /\ Len(wire) \in Nat
    <3>1. wire \in Seq(Byte) /\ Len(wire) \in Nat
      BY <1>0, FramingTypes
    <3>2. wire \o <<>> = wire
      BY <3>1, ConcatEmptySeq
    <3>. QED
      BY <1>5, <2>2, <3>1, <3>2
  <2>4. Len(Framed(offered', done')) <= Len(wire')
    BY <1>1, <2>1, <2>3
  <2>5. Sent' = Sent /\ foreign = Nothing
    BY <1>0, <1>1, <1>5 DEF Sent, Announcement, StreamInv
  <2>6. \E v \in Seq(Byte) : (wire' \o obuf') \o v = Sent'
    BY <1>1, <1>3, <2>5
  <2>7. StreamInv'
    BY <1>0, <1>1, <2>4, <2>5, <2>6 DEF StreamInv
  <2>8. PutInv'
    BY <1>1, <1>5, <2>2 DEF PutInv
  <2>. QED
    BY <1>2, <2>7, <2>8
<1>. QED
  BY <1>4, <1>5 DEF Flush

(* A byte goes from the ostream to the pipe, in order. *)
LEMMA DrainKeepsFrames ==
  ASSUME FramingInv, Drain
  PROVE  StreamInv' /\ PutInv' /\ ReaderInv' /\ EndInv' /\ CapsAgree'
<1>. DEFINE b == <<Head(obuf)>>
            rest == Tail(obuf)
<1>0. IInv /\ StreamInv /\ PutInv /\ ReaderInv /\ EndInv /\ CapsAgree
  BY DEF FramingInv
<1>1. /\ pipe' = Append(pipe, Head(obuf)) /\ wire' = Append(wire, Head(obuf))
      /\ obuf' = rest /\ obuf # <<>> /\ ~closed
      /\ UNCHANGED <<closed, foreign, writer, reader>>
  BY DEF Drain
<1>2. wire \in Seq(Byte) /\ obuf \in Seq(Byte) /\ pipe \in Seq(Byte)
  BY <1>0, FramingTypes
<1>. HIDE DEF Byte
<1>3. /\ b \in Seq(Byte) /\ rest \in Seq(Byte) /\ obuf = b \o rest
      /\ wire' = wire \o b /\ pipe' = pipe \o b /\ Len(b) = 1
  <2>1. Head(obuf) \in Byte /\ rest \in Seq(Byte) /\ obuf = b \o rest
    BY <1>1, <1>2
  <2>. QED
    BY <1>1, <1>2, <2>1, AppendIsConcat
<1>4. b \in Seq(Byte) /\ rest \in Seq(Byte)
  BY <1>3
<1>. HIDE DEF b, rest
<1>5. wire' \o obuf' = wire \o obuf
  <2>1. (wire \o b) \o rest = wire \o (b \o rest)
    BY <1>2, <1>4, ConcatAssociative, SMTT(60)
  <2>. QED
    BY <1>1, <1>3, <2>1
<1>6. StreamInv'
  <2>1. PICK u \in Seq(Byte) : (wire \o obuf) \o u = Sent
    BY <1>0 DEF StreamInv
  <2>2. Sent' = Sent
    BY <1>1 DEF Sent, Announcement, writer
  <2>3. \E v \in Seq(Byte) : (wire' \o obuf') \o v = Sent'
    BY <1>5, <2>1, <2>2
  <2>4. Len(Framed(offered, done)) <= Len(wire')
    <3>1. Len(wire') = Len(wire) + 1 /\ Len(wire) \in Nat
      BY <1>1, <1>2
    <3>2. Len(Framed(offered, done)) \in Nat
      <4>1. offered \in Seq(Seq(Byte)) /\ done \in 0..Len(offered)
        BY <1>0, FramingTypes
      <4>2. Framed(offered, done) \in Seq(Byte)
        BY <4>1, FramedStep
      <4>. QED
        BY <4>2, LenProperties
    <3>3. Len(Framed(offered, done)) <= Len(wire)
      BY <1>0 DEF StreamInv
    <3>. QED
      BY <3>1, <3>2, <3>3
  <2>. QED
    BY <1>0, <1>1, <2>3, <2>4 DEF StreamInv, writer
<1>7. PutInv'
  BY <1>0, <1>1, <1>5 DEF PutInv, writer
<1>8. ReaderInv'
  <2>. DEFINE fh == Framed(offered, Len(frames)) \o Held
  <2>1. fh \in Seq(Byte)
    <3>1. /\ offered \in Seq(Seq(Byte)) /\ Len(frames) \in 0..Len(offered)
          /\ Held \in Seq(Byte)
      BY <1>0, FramingTypes DEF ReaderInv
    <3>2. Framed(offered, Len(frames)) \in Seq(Byte)
      BY <3>1, FramedStep
    <3>. QED
      BY <3>1, <3>2
  <2>2. wire = fh \o pipe
    BY <1>0 DEF ReaderInv
  <2>3. wire' = fh \o pipe'
    <3>. HIDE DEF fh
    <3>1. (fh \o pipe) \o b = fh \o (pipe \o b)
      BY <1>2, <1>4, <2>1, ConcatAssociative, SMTT(60)
    <3>. QED
      BY <1>3, <2>2, <3>1
  <2>4. fh' = fh
    BY <1>1 DEF Held, writer, reader
  <2>. QED
    BY <1>0, <1>1, <2>3, <2>4 DEF ReaderInv, Wanted, writer, reader
<1>9. EndInv' /\ CapsAgree'
  BY <1>0, <1>1 DEF EndInv, Wanted, CapsAgree, reader
<1>. QED
  BY <1>6, <1>7, <1>8, <1>9

(* A client that announces a length comes after all frames, and is the last. *)
LEMMA AnnounceKeepsFrames ==
  ASSUME FramingInv, NEW k \in Announced, Announce(k)
  PROVE  StreamInv' /\ PutInv' /\ ReaderInv' /\ EndInv' /\ CapsAgree'
<1>. DEFINE n == Len(offered)
<1>0. IInv /\ StreamInv /\ PutInv /\ ReaderInv /\ EndInv /\ CapsAgree
  BY DEF FramingInv
<1>1. /\ ~closed /\ foreign = Nothing /\ wpc = "ready" /\ obuf = <<>>
      /\ foreign' = k /\ obuf' = encode_u32_le(k) /\ wpc' = "failed"
      /\ UNCHANGED <<offered, done, good, pipe, wire, closed, reader>>
  BY DEF Announce
<1>2. k # Nothing /\ k \in Nat
  BY BytesAssumption
<1>3. encode_u32_le(k) \in Seq(Byte)
  BY <1>2, HeaderLength
<1>4. wire \in Seq(Byte) /\ wire \o obuf = Framed(offered, n)
  BY <1>0, <1>1, FramingTypes DEF PutInv
<1>. HIDE DEF Byte
<1>5. wire = Framed(offered, n)
  BY <1>1, <1>4, ConcatEmptySeq
<1>6. Sent' = wire' \o obuf'
  BY <1>1, <1>2, <1>5 DEF Sent, Announcement
<1>7. (wire' \o obuf') \o <<>> = Sent' /\ <<>> \in Seq(Byte)
  <2>1. wire' \o obuf' \in Seq(Byte)
    BY <1>1, <1>3, <1>4
  <2>. DEFINE w == wire' \o obuf'
  <2>. HIDE DEF w
  <2>2. w \o <<>> = w /\ <<>> \in Seq(Byte)
    BY <2>1, ConcatEmptySeq DEF w
  <2>. QED
    BY <1>6, <2>2 DEF w
<1>8. \E u \in Seq(Byte) : (wire' \o obuf') \o u = Sent'
  BY <1>7, Zenon
<1>9. StreamInv'
  BY <1>0, <1>1, <1>8 DEF StreamInv
<1>10. PutInv'
  BY <1>1 DEF PutInv
<1>11. ReaderInv'
  BY <1>0, <1>1, <1>2 DEF ReaderInv, Held, Wanted, reader
<1>12. EndInv' /\ CapsAgree'
  BY <1>0, <1>1 DEF EndInv, Wanted, CapsAgree, reader
<1>. QED
  BY <1>9, <1>10, <1>11, <1>12

(* What closing, hanging up and a pipe nobody reads leave as it is. *)
LEMMA OthersKeepFrames ==
  ASSUME FramingInv, Close \/ HangUp \/ DrainFails
  PROVE  StreamInv' /\ PutInv' /\ ReaderInv' /\ EndInv' /\ CapsAgree'
<1>0. IInv /\ StreamInv /\ PutInv /\ ReaderInv /\ EndInv /\ CapsAgree
  BY DEF FramingInv
<1>1. CASE Close
  <2>1. closed' = TRUE /\ obuf' = <<>> /\ UNCHANGED <<pipe, wire, foreign, writer, reader>>
    BY <1>1 DEF Close
  <2>2. ReaderInv' /\ EndInv' /\ CapsAgree'
    BY <1>0, <2>1, ReaderSame DEF CapsAgree, reader, writer
  <2>3. PICK u \in Seq(Byte) : (wire \o obuf) \o u = Sent
    BY <1>0 DEF StreamInv
  <2>4. obuf \in Seq(Byte) /\ wire \in Seq(Byte)
    BY <1>0, FramingTypes
  <2>. HIDE DEF Byte
  <2>5. (wire \o <<>>) \o (obuf \o u) = Sent /\ obuf \o u \in Seq(Byte)
    <3>1. obuf \o u \in Seq(Byte)
      BY <2>4
    <3>2. (wire \o obuf) \o u = wire \o (obuf \o u)
      BY <2>4, ConcatAssociative, SMTT(60)
    <3>3. wire \o <<>> = wire
      BY <2>4, ConcatEmptySeq
    <3>. QED
      BY <2>3, <3>1, <3>2, <3>3
  <2>. DEFINE v == obuf \o u
  <2>6. (wire \o obuf') \o v = Sent /\ v \in Seq(Byte)
    BY <2>1, <2>5
  <2>. HIDE DEF v
  <2>7. StreamInv' /\ PutInv'
    BY <2>1, <2>6, BeginningStays DEF writer
  <2>. QED
    BY <2>2, <2>7
<1>2. CASE HangUp
  <2>1. UNCHANGED <<writer, stream, rpc, got, size, frames, end, failed>>
    BY <1>2 DEF HangUp
  <2>2. StreamInv' /\ PutInv'
    BY <1>0, <2>1, WriterSame DEF stream
  <2>3. ReaderInv'
    BY <1>0, <2>1 DEF ReaderInv, Held, Wanted, stream, writer
  <2>4. EndInv' /\ CapsAgree'
    BY <1>0, <2>1 DEF EndInv, Wanted, CapsAgree, stream
  <2>. QED
    BY <2>2, <2>3, <2>4
<1>3. CASE DrainFails
  <2>1. UNCHANGED <<offered, done, wpc, stream, reader>>
    BY <1>3 DEF DrainFails
  <2>2. StreamInv'
    BY <1>0, <2>1 DEF StreamInv, Sent, Announcement, stream
  <2>3. PutInv'
    BY <1>0, <2>1 DEF PutInv, stream
  <2>. QED
    BY <1>0, <2>1, <2>2, <2>3, ReaderSame DEF CapsAgree, stream, reader
<1>. QED
  BY <1>1, <1>2, <1>3

(* A byte goes from the pipe to the part of a frame that is held. *)
LEMMA ReadByteKeepsFrames ==
  ASSUME FramingInv, ReadByte
  PROVE  ReaderInv' /\ EndInv' /\ CapsAgree'
<1>. DEFINE b == <<Head(pipe)>>
            rest == Tail(pipe)
            f == Framed(offered, Len(frames))
            h == IF rpc = "payload" THEN encode_u32_le(size) ELSE <<>>
<1>0. IInv /\ StreamInv /\ ReaderInv /\ EndInv /\ CapsAgree
  BY DEF FramingInv
<1>1. /\ end = Nothing /\ Len(got) < Wanted /\ pipe # <<>>
      /\ got' = Append(got, Head(pipe)) /\ pipe' = rest
      /\ UNCHANGED <<writer, wire, foreign, rpc, size, frames, end, failed>>
  BY DEF ReadByte
<1>2. /\ got \in Seq(Byte) /\ pipe \in Seq(Byte) /\ Held \in Seq(Byte) /\ size \in Nat
      /\ offered \in Seq(Seq(Byte)) /\ Len(frames) \in 0..Len(offered) /\ Len(got) \in Nat
  BY <1>0, FramingTypes DEF ReaderInv
<1>3. f \in Seq(Byte)
  BY <1>2, FramedStep
<1>4. h \in Seq(Byte)
  <2>1. encode_u32_le(size) \in Seq(Byte) /\ <<>> \in Seq(Byte)
    BY <1>2, HeaderLength
  <2>. QED
    BY <2>1
<1>. HIDE DEF Byte
<1>5. /\ b \in Seq(Byte) /\ rest \in Seq(Byte) /\ pipe = b \o rest /\ got' = got \o b
  <2>1. Head(pipe) \in Byte /\ rest \in Seq(Byte) /\ pipe = b \o rest
    BY <1>1, <1>2
  <2>. QED
    BY <1>1, <1>2, <2>1, AppendIsConcat
<1>6. b \in Seq(Byte) /\ rest \in Seq(Byte)
  BY <1>5
<1>7. Held = h \o got /\ Held' = h \o (got \o b)
  BY <1>1, <1>5 DEF Held
<1>8. wire = (f \o Held) \o pipe
  BY <1>0 DEF ReaderInv
<1>. HIDE DEF b, rest, f, h
<1>9. Held' = Held \o b
  <2>1. (h \o got) \o b = h \o (got \o b)
    BY <1>2, <1>4, <1>6, ConcatAssociative, SMTT(60)
  <2>. QED
    BY <1>7, <2>1
<1>10. wire' = (f \o Held') \o pipe'
  <2>. DEFINE e == Held
  <2>1. e \in Seq(Byte) /\ f \o e \in Seq(Byte)
    BY <1>2, <1>3
  <2>. HIDE DEF e
  <2>2. (f \o e) \o (b \o rest) = ((f \o e) \o b) \o rest
    <3>. DEFINE g == f \o e
    <3>1. g \in Seq(Byte)
      BY <2>1
    <3>. HIDE DEF g
    <3>2. g \o (b \o rest) = (g \o b) \o rest
      BY <1>6, <3>1, ConcatAssociative, SMTT(60)
    <3>. QED
      BY <3>2 DEF g
  <2>3. (f \o e) \o b = f \o (e \o b)
    BY <1>3, <1>6, <2>1, ConcatAssociative, SMTT(60)
  <2>4. wire' = (f \o (e \o b)) \o rest
    BY <1>1, <1>5, <1>8, <2>2, <2>3 DEF e
  <2>. QED
    BY <1>1, <1>9, <2>4 DEF e
<1>11. Len(got') = Len(got) + 1 /\ got' # <<>>
  BY <1>1, <1>2
<1>12. Len(got') <= Wanted'
  <2>1. Wanted' = Wanted /\ Wanted \in Nat
    BY <1>1, <1>2 DEF Wanted
  <2>. QED
    BY <1>1, <1>2, <1>11, <2>1
<1>13. ReaderInv'
  <2>1. UNCHANGED <<offered, frames, rpc, size, foreign>>
    BY <1>1 DEF writer
  <2>. QED
    BY <1>0, <1>10, <1>11, <1>12, <2>1 DEF ReaderInv, f
<1>14. EndInv' /\ CapsAgree'
  BY <1>0, <1>1, BytesAssumption DEF EndInv, CapsAgree
<1>. QED
  BY <1>13, <1>14

(* A header is taken for a length, or refused. *)
LEMMA HeaderReadKeepsFrames ==
  ASSUME FramingInv, HeaderRead
  PROVE  ReaderInv' /\ EndInv' /\ CapsAgree'
<1>. DEFINE n == Len(offered)
            m == Len(frames)
            k == decode_u32_le(got)
<1>0. IInv /\ StreamInv /\ ReaderInv /\ EndInv /\ CapsAgree
  BY DEF FramingInv
<1>1. /\ rpc = "header" /\ Len(got) = 4 /\ end = Nothing
      /\ UNCHANGED <<offered, wire, pipe, closed, foreign, frames, failed>>
  BY DEF HeaderRead, writer, stream
<1>2. /\ n \in Nat /\ m \in 0..n /\ got \in Seq(Byte)
      /\ foreign # Nothing => foreign \in Nat /\ foreign < Base * Base * Base * Base
  BY <1>0, FramingTypes DEF ReaderInv
<1>3. /\ m < n => got = encode_u32_le(Len(offered[m + 1]))
      /\ m = n => foreign # Nothing /\ got = encode_u32_le(foreign)
  BY <1>0, <1>1, HeaderAhead
<1>4. m < n => /\ k = Len(offered[m + 1]) /\ k \in Nat /\ Accepts(k)
               /\ got = encode_u32_le(k)
  <2>. SUFFICES ASSUME m < n
                PROVE  /\ k = Len(offered[m + 1]) /\ k \in Nat /\ Accepts(k)
                       /\ got = encode_u32_le(k)
    OBVIOUS
  <2>1. m + 1 \in 1..n
    BY <1>2
  <2>2. k = Len(offered[m + 1]) /\ k \in Nat /\ Accepts(Len(offered[m + 1]))
    BY <1>0, <1>3, <2>1, OfferedFrame
  <2>. QED
    BY <1>3, <2>2
<1>5. m = n => /\ foreign # Nothing /\ k = foreign /\ k \in Nat
               /\ got = encode_u32_le(k)
  BY <1>2, <1>3, HeaderRoundTrip
<1>. HIDE DEF k
<1>6. CASE (k = 0 \/ TooLong(k)) /\ end' = "bad_length" /\ UNCHANGED <<rpc, got, size>>
  <2>1. ~(m < n)
    <3>1. max_len \in Nat
      BY BytesAssumption
    <3>. QED
      BY <1>4, <1>6, <3>1 DEF Accepts, TooLong
  <2>2. m = n
    BY <1>2, <2>1
  <2>3. CapsAgree'
    BY <1>1, <1>5, <1>6, <2>2 DEF CapsAgree, TooLong
  <2>4. ReaderInv'
    BY <1>0, <1>1, <1>6 DEF ReaderInv, Held, Wanted
  <2>5. EndInv'
    BY <1>0, <1>1, <1>6, BytesAssumption DEF EndInv
  <2>. QED
    BY <2>3, <2>4, <2>5
<1>7. CASE /\ k # 0 /\ rpc' = "payload" /\ size' = k /\ got' = <<>> /\ UNCHANGED end
  <2>1. k \in Nat /\ got = encode_u32_le(k)
    BY <1>2, <1>4, <1>5
  <2>2. Held = got /\ Held' = got
    <3>. HIDE DEF Byte
    <3>1. <<>> \o got = got /\ got \o <<>> = got
      BY <1>2, ConcatEmptySeq
    <3>. QED
      BY <1>1, <1>7, <2>1, <3>1 DEF Held
  <2>3. wire' = (Framed(offered', Len(frames')) \o Held') \o pipe'
    BY <1>0, <1>1, <2>2 DEF ReaderInv
  <2>4. Len(got') <= Wanted'
    BY <1>7, <2>1 DEF Wanted
  <2>5. ReaderInv'
    BY <1>0, <1>1, <1>4, <1>5, <1>7, <2>3, <2>4 DEF ReaderInv
  <2>6. EndInv' /\ CapsAgree'
    BY <1>0, <1>1, <1>7, BytesAssumption DEF EndInv, CapsAgree
  <2>. QED
    BY <2>5, <2>6
<1>. QED
  BY <1>6, <1>7 DEF HeaderRead, k

(* A frame is complete. *)
LEMMA PayloadReadKeepsFrames ==
  ASSUME FramingInv, PayloadRead
  PROVE  ReaderInv' /\ EndInv' /\ CapsAgree'
<1>. DEFINE n == Len(offered)
            m == Len(frames)
            f == Framed(offered, m)
<1>0. IInv /\ StreamInv /\ ReaderInv /\ EndInv /\ CapsAgree
  BY DEF FramingInv
<1>1. /\ rpc = "payload" /\ Len(got) = size
      /\ frames' = Append(frames, got) /\ rpc' = "first" /\ got' = <<>>
      /\ UNCHANGED <<offered, wire, pipe, closed, foreign, end, failed>>
  BY DEF PayloadRead, writer, stream
<1>2. /\ n \in Nat /\ m \in 0..n /\ got \in Seq(Byte) /\ frames \in Seq(Seq(Byte))
      /\ offered \in Seq(Seq(Byte)) /\ Held \in Seq(Byte)
  BY <1>0, FramingTypes DEF ReaderInv
<1>3. m < n /\ got = offered[m + 1]
  BY <1>0, <1>1, PayloadAhead
<1>4. end = Nothing /\ ~failed
  <2>1. size \in Nat
    BY <1>0, FramingTypes
  <2>. QED
    BY <1>0, <1>1, <2>1 DEF EndInv, Wanted
<1>. HIDE DEF Byte
<1>5. Len(frames') = m + 1 /\ frames'[m + 1] = got /\ \A i \in 1..m : frames'[i] = frames[i]
  BY <1>1, <1>2
<1>6. Framed(offered, m + 1) = f \o Held
  <2>1. Held = encode_u32_le(Len(got)) \o got
    BY <1>1 DEF Held
  <2>2. Held = Encoded(offered[m + 1])
    BY <1>3, <2>1 DEF Encoded
  <2>. QED
    BY <1>2, <1>3, <2>2, FramedStep
<1>7. wire' = (Framed(offered', Len(frames')) \o Held') \o pipe'
  <2>1. Held' = <<>>
    BY <1>1 DEF Held
  <2>. DEFINE g == f \o Held
  <2>2. g \in Seq(Byte)
    <3>1. f \in Seq(Byte)
      BY <1>2, FramedStep
    <3>. QED
      BY <1>2, <3>1
  <2>3. wire = g \o pipe
    BY <1>0 DEF ReaderInv
  <2>4. Framed(offered', Len(frames')) = g
    BY <1>1, <1>5, <1>6
  <2>. HIDE DEF g
  <2>5. g \o <<>> = g
    BY <2>2, ConcatEmptySeq
  <2>. QED
    BY <1>1, <2>1, <2>3, <2>4, <2>5
<1>8. \A i \in 1..(m + 1) : frames'[i] = offered'[i]
  <2>. SUFFICES ASSUME NEW i \in 1..(m + 1) PROVE frames'[i] = offered'[i]
    OBVIOUS
  <2>1. CASE i = m + 1
    BY <1>1, <1>3, <1>5, <2>1
  <2>2. CASE i # m + 1
    <3>1. i \in 1..m
      BY <1>2, <2>2
    <3>. QED
      BY <1>0, <1>1, <1>5, <3>1 DEF ReaderInv
  <2>. QED
    BY <2>1, <2>2
<1>9. ReaderInv'
  <2>1. Len(frames') <= Len(offered') /\ Len(got') <= Wanted'
    BY <1>1, <1>2, <1>3, <1>5 DEF Wanted
  <2>. QED
    BY <1>1, <1>5, <1>7, <1>8, <2>1 DEF ReaderInv
<1>10. EndInv' /\ CapsAgree'
  BY <1>0, <1>1, <1>4, BytesAssumption DEF EndInv, CapsAgree
<1>. QED
  BY <1>9, <1>10

(* The other steps of read_frame take nothing. *)
LEMMA ReadOthersKeepFrames ==
  ASSUME FramingInv, FirstByteRead \/ ReadEnd \/ ReadFails
  PROVE  ReaderInv' /\ EndInv' /\ CapsAgree'
<1>0. IInv /\ StreamInv /\ ReaderInv /\ EndInv /\ CapsAgree
  BY DEF FramingInv
<1>1. CASE FirstByteRead
  <2>1. /\ rpc = "first" /\ Len(got) = 1 /\ rpc' = "header"
        /\ UNCHANGED <<writer, stream, got, size, frames, end, failed>>
    BY <1>1 DEF FirstByteRead
  <2>2. end = Nothing
    BY <1>0, <2>1 DEF EndInv, Wanted
  <2>3. got # <<>>
    BY <2>1
  <2>4. ReaderInv'
    <3>1. Held' = Held
      BY <2>1 DEF Held
    <3>2. Len(got') <= Wanted'
      BY <2>1 DEF Wanted
    <3>. QED
      BY <1>0, <2>1, <2>3, <3>1, <3>2 DEF ReaderInv, writer, stream
  <2>5. EndInv' /\ CapsAgree'
    BY <1>0, <2>1, <2>2, BytesAssumption DEF EndInv, CapsAgree, stream
  <2>. QED
    BY <2>4, <2>5
<1>2. CASE ReadEnd \/ ReadFails
  <2>1. /\ end = Nothing /\ Len(got) < Wanted /\ end' = EndOf(rpc)
        /\ UNCHANGED <<writer, stream, rpc, got, size, frames>>
        /\ (closed /\ pipe = <<>> /\ UNCHANGED failed) \/ failed' = TRUE
    BY <1>2 DEF ReadEnd, AtEnd, ReadFails
  <2>2. ReaderInv'
    BY <1>0, <2>1 DEF ReaderInv, Held, Wanted, writer, stream
  <2>3. end' \in {"clean", "cut"} /\ (end' = "clean" <=> rpc = "first")
    BY <2>1 DEF EndOf
  <2>4. EndInv'
    BY <1>0, <2>1, <2>3, BytesAssumption DEF EndInv, Wanted, stream
  <2>5. CapsAgree'
    BY <2>3 DEF CapsAgree
  <2>. QED
    BY <2>2, <2>4, <2>5
<1>. QED
  BY <1>1, <1>2

(* Together: the framing is inductive. *)
LEMMA FramesNext == FramingInv /\ [Next]_vars => FramingInv'
<1>. SUFFICES ASSUME FramingInv, [Next]_vars PROVE FramingInv'
  OBVIOUS
<1>1. IInv'
  BY FramingNext DEF FramingInv
<1>. SUFFICES StreamInv' /\ PutInv' /\ ReaderInv' /\ EndInv' /\ CapsAgree'
  BY <1>1 DEF FramingInv
<1>2. CASE UNCHANGED vars
  <2>1. StreamInv' /\ PutInv'
    BY <1>2, WriterSame DEF FramingInv, vars, writer, stream
  <2>2. ReaderInv' /\ EndInv' /\ CapsAgree'
    BY <1>2, ReaderSame DEF FramingInv, vars, writer, stream, reader, CapsAgree
  <2>. QED
    BY <2>1, <2>2
<1>3. CASE Reading \/ ReadFails
  <2>1. UNCHANGED <<writer, obuf, wire, foreign, closed>>
    BY <1>3 DEF Reading, ReadByte, FirstByteRead, HeaderRead, PayloadRead, ReadEnd, ReadFails, stream
  <2>2. StreamInv' /\ PutInv'
    BY <2>1, WriterSame DEF FramingInv
  <2>. QED
    BY <1>3, <2>2, ReadByteKeepsFrames, HeaderReadKeepsFrames, PayloadReadKeepsFrames,
       ReadOthersKeepFrames DEF Reading
<1>. QED
  BY <1>2, <1>3, CheckKeepsFrames, PutKeepsFrames, FlushKeepsFrames, DrainKeepsFrames,
     AnnounceKeepsFrames, OthersKeepFrames DEF Next, Writing, Stopped

(* read_frame tells an end between frames from one inside a frame: its end   *)
(* is clean exactly when the bytes that ever came make up whole frames.      *)
THEOREM EndClassifiedCorrect == Spec => []EndIsClassified
<1>1. FramingInv => EndIsClassified
  BY EndFollows DEF FramingInv
<1>. QED
  BY <1>1, FramesInit, FramesNext, PTL DEF Spec

(* No frame that write_frame accepts is refused for its length: a length that *)
(* is refused is one that a foreign client announced, and is a bad one.       *)
THEOREM CapsCorrect == Spec => []CapsAgree
<1>1. FramingInv => CapsAgree
  BY DEF FramingInv
<1>. QED
  BY <1>1, FramesInit, FramesNext, PTL DEF Spec

-----------------------------------------------------------------------------
(* write_frame, the pipe and read_frame are a channel of whole frames. *)

(* In the beginning. *)
LEMMA ChannelInit == Init => Channel!Init
BY BytesAssumption DEF Init, Channel!Init

(* Every step is one of the channel's, or none. *)
LEMMA ChannelStep ==
  FramingInv /\ FramingInv' /\ [Next]_vars => [Channel!Next]_Channel!vars
<1>. SUFFICES ASSUME FramingInv, FramingInv', [Next]_vars
              PROVE  [Channel!Next]_Channel!vars
  OBVIOUS
<1>0. IInv /\ StreamInv /\ ReaderInv /\ EndInv
  BY DEF FramingInv
<1>1. CASE \E p \in Payloads : CheckLength(p)
  <2>1. PICK p \in Payloads : CheckLength(p)
    BY <1>1
  <2>2. UNCHANGED <<done, frames, end, failed>>
    BY <2>1 DEF CheckLength, reader
  <2>3. offered' = Append(offered, p) \/ UNCHANGED offered
    BY <2>1 DEF CheckLength
  <2>. QED
    BY <2>2, <2>3 DEF Channel!Next, Channel!Offer, Channel!vars
<1>2. CASE Flush
  <2>1. UNCHANGED <<offered, frames, end, failed>>
    BY <1>2 DEF Flush, reader
  <2>2. (done' = done + 1 /\ done + 1 = Len(offered)) \/ UNCHANGED done
    BY <1>0, <1>2 DEF Flush, IInv, WriterInv
  <2>. QED
    BY <2>1, <2>2 DEF Channel!Next, Channel!Complete, Channel!vars
<1>3. CASE PayloadRead
  <2>1. UNCHANGED <<offered, done, end, failed>> /\ frames' = Append(frames, got)
    BY <1>3 DEF PayloadRead, writer
  <2>2. Len(frames) < Len(offered) /\ got = offered[Len(frames) + 1]
    BY <1>0, <1>3, PayloadAhead DEF PayloadRead
  <2>3. end = Nothing /\ ~failed
    <3>1. size \in Nat /\ Len(got) = size /\ rpc = "payload"
      BY <1>0, <1>3, FramingTypes DEF PayloadRead
    <3>. QED
      BY <1>0, <3>1 DEF EndInv, Wanted
  <2>. QED
    BY <2>1, <2>2, <2>3 DEF Channel!Next, Channel!Deliver, Channel!vars
<1>4. CASE HeaderRead
  <2>1. UNCHANGED <<offered, done, frames, failed>> /\ end = Nothing
    BY <1>4 DEF HeaderRead, writer
  <2>2. end' = "bad_length" \/ UNCHANGED end
    BY <1>4 DEF HeaderRead
  <2>3. ~failed
    BY <1>0, <2>1 DEF EndInv
  <2>. QED
    BY <2>1, <2>2, <2>3 DEF Channel!Next, Channel!Finish, Channel!Ends, Channel!vars
<1>5. CASE ReadEnd
  <2>1. UNCHANGED <<offered, done, frames, failed>> /\ end = Nothing /\ end' = EndOf(rpc)
    BY <1>5 DEF ReadEnd, AtEnd, writer
  <2>2. ~failed
    BY <1>0, <2>1 DEF EndInv
  <2>3. end' \in {"clean", "cut"} /\ (end' = "clean" => rpc = "first")
    BY <2>1 DEF EndOf
  <2>4. end' = "clean" => Len(frames) >= done
    BY <1>0, <1>5, <2>3, NoneLost DEF ReadEnd, AtEnd
  <2>. QED
    BY <2>1, <2>2, <2>3, <2>4 DEF Channel!Next, Channel!Finish, Channel!Ends
<1>6. CASE ReadFails
  <2>1. UNCHANGED <<offered, done, frames>> /\ end = Nothing /\ failed' = TRUE
    BY <1>6 DEF ReadFails, writer
  <2>2. ~failed
    BY <1>0, <2>1 DEF EndInv
  <2>. QED
    BY <2>1, <2>2 DEF Channel!Next, Channel!Finish, Channel!Ends
<1>7. CASE \/ UNCHANGED vars \/ WriteHeader \/ WritePayload \/ Drain \/ DrainFails \/ Close
           \/ ReadByte \/ FirstByteRead \/ HangUp \/ \E n \in Announced : Announce(n)
  <2>1. UNCHANGED <<offered, done, frames, end, failed>>
    BY <1>7 DEF vars, WriteHeader, WritePayload, Put, Drain, DrainFails, Close, ReadByte,
                FirstByteRead, HangUp, Announce, writer, stream, reader
  <2>. QED
    BY <2>1 DEF Channel!vars
<1>. QED
  BY <1>1, <1>2, <1>3, <1>4, <1>5, <1>6, <1>7 DEF Next, Writing, Reading, Stopped

(* The frames the reader gets are the ones the writer sent, in order and      *)
(* unchanged, and a clean end loses none that was reported written: for every *)
(* cap, every list of payloads and every way the bytes come in pieces.        *)
THEOREM FramingImplementsChannel == Spec => ImplementsChannel
<1>. QED
  BY ChannelInit, ChannelStep, FramesInit, FramesNext, PTL
     DEF Spec, ImplementsChannel, Channel!Spec
=============================================================================
