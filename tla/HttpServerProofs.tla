--------------------------- MODULE HttpServerProofs ---------------------------
(***************************************************************************)
(* Proofs about HttpServer, for any requests, any limits and any sizes of  *)
(* reads: its types, the bound on what the codec holds, and that the       *)
(* verdict on a request does not depend on how the stream was cut.         *)
(***************************************************************************)
EXTENDS HttpServer, WellFoundedInduction, TLAPS

\* What the codec still has to do when a read has begun.
ReadInv ==
    /\ pc \in {"head", "headRead"} => buffer <= MaxHead
    /\ pc = "headRead" => want > 0 /\ buffer + want <= MaxHead /\ Partial(request, buffer)
    /\ pc = "bodyRead" => want > 0 /\ buffer + want <= needed

\* The head was accepted: it fits, its fields are sound and say how long the body is.
BodyInv ==
    pc \in {"body", "bodyRead"} =>
        /\ request.bad = 0
        /\ request.head <= buffer /\ request.head <= MaxHead
        /\ FieldsVerdict(request.fields) = "Ok"
        /\ DeclaredLength(request.fields) \in Nat
        /\ needed = request.head + DeclaredLength(request.fields)

\* A verdict that was given holds for what was sent, and a request found incomplete
\* is one whose peer will send nothing more.
VerdictInv ==
    pc \in {"exchange", "writing", "dropping"} =>
        \/ result \in {"Transport", "InvalidResponse", "WriteResponseFailed"}
        \/ result = Verdict(request, sent) /\ (result = "IncompleteRequest" => peer # "open")

IInv == TypeOK /\ ReadInv /\ BodyInv /\ BufferBounded /\ VerdictInv
-----------------------------------------------------------------------------
(* Induction over the natural numbers, for a set in place of a predicate. *)

\* A set of natural numbers that is not empty has a least member.
LEMMA Least ==
    ASSUME NEW S \in SUBSET Nat, S # {}
    PROVE  \E n \in S : \A m \in S : n <= m
<1>1. PICK n \in S : \A m \in S : <<m, n>> \notin OpToRel(<, Nat)
  BY NatLessThanWellFounded, WFMin
<1>2. \A m \in S : m \in Nat /\ n \in Nat /\ ~(m < n)
  BY <1>1, Zenon DEF OpToRel
<1> QED
  BY <1>2

LEMMA Induction ==
    ASSUME NEW S, 0 \in S, \A n \in Nat : n \in S => n + 1 \in S
    PROVE  \A n \in Nat : n \in S
<1> SUFFICES ASSUME NEW k \in Nat, k \notin S PROVE FALSE
  OBVIOUS
<1>1. PICK n \in Nat \ S : \A m \in Nat \ S : n <= m
  BY Least
<1>2. n # 0 /\ n - 1 \in Nat /\ n - 1 \in S
  BY <1>1
<1> QED
  BY <1>1, <1>2
-----------------------------------------------------------------------------
(* The loop over the header fields. *)

Unscanned == [error |-> "none", given |-> FALSE, length |-> 0]

Scans == [error : {"none", "MalformedRequest", "UnsupportedTransferEncoding"},
          given : BOOLEAN, length : Nat]

LEMMA ScanFieldType ==
    ASSUME NEW acc \in Scans, NEW f \in Fields
    PROVE  ScanField(acc, f) \in Scans
BY DEF ScanField, Scans, Fields, FieldKinds

\* There is a history of the loop: what it knows after each of the fields.
LEMMA ScanUnfolds ==
    ASSUME NEW fields \in Seq(Fields)
    PROVE  \E g \in [0..Len(fields) -> Scans] :
              /\ g[0] = Unscanned
              /\ \A n \in 1..Len(fields) : g[n] = ScanField(g[n - 1], fields[n])
              /\ Scan(fields) = g[Len(fields)]
<1> DEFINE N == Len(fields)
           Upto(n) == {g \in [0..n -> Scans] :
                          /\ g[0] = Unscanned
                          /\ \A i \in 1..n : g[i] = ScanField(g[i - 1], fields[i])}
           Reached == {n \in Nat : n <= N => Upto(n) # {}}
<1>0. N \in Nat /\ \A n \in 1..N : fields[n] \in Fields
  OBVIOUS
<1>1. 0 \in Reached
  <2> DEFINE g == [n \in 0..0 |-> Unscanned]
  <2>1. g \in [0..0 -> Scans] /\ g[0] = Unscanned
    BY DEF Unscanned, Scans
  <2>2. \A i \in 1..0 : g[i] = ScanField(g[i - 1], fields[i])
    OBVIOUS
  <2> HIDE DEF g
  <2>3. g \in Upto(0)
    BY <2>1, <2>2
  <2> QED
    BY <2>3, Zenon
<1>2. ASSUME NEW n \in Nat, n \in Reached PROVE n + 1 \in Reached
  <2> SUFFICES ASSUME n + 1 <= N PROVE Upto(n + 1) # {}
    OBVIOUS
  <2>1. PICK g \in Upto(n) : TRUE
    BY <1>0, <1>2
  <2>2. g \in [0..n -> Scans] /\ n \in 0..n /\ n + 1 \in 1..N
    BY <1>0, <2>1
  <2>3. ScanField(g[n], fields[n + 1]) \in Scans
    BY <1>0, <2>2, ScanFieldType
  <2> DEFINE h == [i \in 0..(n + 1) |->
                      IF i = n + 1 THEN ScanField(g[n], fields[n + 1]) ELSE g[i]]
  <2>4. h \in [0..(n + 1) -> Scans] /\ h[0] = Unscanned
    BY <2>1, <2>2, <2>3
  <2>5. ASSUME NEW i \in 1..(n + 1) PROVE h[i] = ScanField(h[i - 1], fields[i])
    <3>1. CASE i = n + 1
      BY <3>1
    <3>2. CASE i # n + 1
      <4>1. i \in 1..n /\ i - 1 \in 0..n /\ i - 1 # n + 1
        BY <3>2
      <4> QED
        BY <2>1, <3>2, <4>1
    <3> QED
      BY <3>1, <3>2
  <2> QED
    BY <2>4, <2>5
<1>3. PICK g \in Upto(N) : TRUE
  <2> HIDE DEF Reached
  <2>1. N \in Reached
    BY <1>0, <1>1, <1>2, Induction
  <2> QED
    BY <1>0, <2>1 DEF Reached
<1> DEFINE Step(f) == [n \in 0..N |-> IF n = 0 THEN Unscanned
                                      ELSE ScanField(f[n - 1], fields[n])]
           after == CHOOSE f : f = Step(f)
<1>4. g = Step(g)
  <2>1. g \in [0..N -> Scans] /\ g[0] = Unscanned
    BY <1>3
  <2>2. \A n \in 0..N : g[n] = Step(g)[n]
    BY <1>0, <1>3
  <2> QED
    BY <2>1, <2>2
<1>5. after = Step(after)
  BY <1>4
<1>6. Scan(fields) = after[N]
  BY DEF Scan, Unscanned
<1> HIDE DEF after
<1>7. \A n \in Nat : n <= N => after[n] = g[n]
  <2> DEFINE Same == {n \in Nat : n <= N => after[n] = g[n]}
  <2>1. 0 \in Same
    BY <1>0, <1>3, <1>5
  <2>2. ASSUME NEW n \in Nat, n \in Same PROVE n + 1 \in Same
    <3> SUFFICES ASSUME n + 1 <= N PROVE after[n + 1] = g[n + 1]
      OBVIOUS
    <3>1. n + 1 \in 1..N /\ n + 1 \in 0..N /\ (n + 1) - 1 = n /\ n + 1 # 0 /\ n <= N
      BY <1>0
    <3>2. after[n + 1] = ScanField(after[n], fields[n + 1])
      BY <1>5, <3>1
    <3>3. g[n + 1] = ScanField(g[n], fields[n + 1])
      BY <1>3, <3>1
    <3> QED
      BY <2>2, <3>1, <3>2, <3>3
  <2> HIDE DEF Same
  <2>3. \A n \in Nat : n \in Same
    BY <2>1, <2>2, Induction
  <2> QED
    BY <2>3 DEF Same
<1> QED
  BY <1>0, <1>3, <1>6, <1>7
\* What the loop knows after n fields: either none of them is refused, and the lengths
\* that were declared are one; or the error is that of the first field refused.
Known(acc, fields, n) ==
    \/ /\ acc.error = "none"
       /\ \A i \in 1..n : ~FieldRefused(fields, i)
       /\ \A i \in 1..n : fields[i].kind = "length" =>
             acc.given /\ fields[i].length = acc.length
       /\ acc.given => \E i \in 1..n : fields[i].kind = "length"
       /\ ~acc.given => acc.length = 0
    \/ \E i \in 1..n :
          /\ FieldRefused(fields, i)
          /\ \A j \in 1..(i - 1) : ~FieldRefused(fields, j)
          /\ acc.error = IF fields[i].kind = "encoded" THEN "UnsupportedTransferEncoding"
                         ELSE "MalformedRequest"

\* One more field keeps that true.
LEMMA ScanFieldKnows ==
    ASSUME NEW fields \in Seq(Fields), NEW n \in Nat, n + 1 \in 1..Len(fields),
           NEW acc \in Scans, Known(acc, fields, n)
    PROVE  Known(ScanField(acc, fields[n + 1]), fields, n + 1)
<1> DEFINE f == fields[n + 1]
           next == ScanField(acc, f)
<1>0. /\ f \in Fields /\ f.kind \in FieldKinds
      /\ 1..(n + 1) = (1..n) \cup {n + 1} /\ (n + 1) - 1 = n
  <2>1. f \in Fields
    OBVIOUS
  <2>2. f.kind \in FieldKinds
    BY <2>1 DEF Fields
  <2> QED
    BY <2>1, <2>2
<1>1. CASE acc.error # "none"
  <2>1. next = acc
    BY <1>1 DEF ScanField
  <2> QED
    BY <1>0, <1>1, <2>1 DEF Known
<1>2. CASE acc.error = "none"
  <2>1. /\ \A i \in 1..n : ~FieldRefused(fields, i)
        /\ \A i \in 1..n : fields[i].kind = "length" =>
              acc.given /\ fields[i].length = acc.length
        /\ acc.given => \E i \in 1..n : fields[i].kind = "length"
        /\ ~acc.given => acc.length = 0
    BY <1>2 DEF Known
  <2>2. FieldRefused(fields, n + 1) <=>
            \/ f.kind \in {"binary", "junk", "encoded"}
            \/ f.kind = "length" /\ acc.given /\ acc.length # f.length
    BY <1>0, <2>1 DEF FieldRefused
  <2>3. CASE FieldRefused(fields, n + 1)
    <3>1. next.error = IF f.kind = "encoded" THEN "UnsupportedTransferEncoding"
                       ELSE "MalformedRequest"
      BY <1>0, <1>2, <2>2, <2>3 DEF ScanField, Scans, FieldKinds
    <3>2. n + 1 \in 1..(n + 1)
      OBVIOUS
    <3> QED
      BY <1>0, <2>1, <2>3, <3>1, <3>2 DEF Known
  <2>4. CASE ~FieldRefused(fields, n + 1) /\ f.kind = "length"
    <3>1. next.error = "none" /\ next.given /\ next.length = f.length
      BY <1>0, <1>2, <2>2, <2>4 DEF ScanField, Scans
    <3>2. acc.given => acc.length = f.length
      BY <2>2, <2>4
    <3>3. \A i \in 1..(n + 1) : fields[i].kind = "length" =>
             next.given /\ fields[i].length = next.length
      BY <1>0, <2>1, <3>1, <3>2
    <3>4. \A i \in 1..(n + 1) : ~FieldRefused(fields, i)
      BY <1>0, <2>1, <2>4
    <3>5. \E i \in 1..(n + 1) : fields[i].kind = "length"
      BY <1>0, <2>4
    <3> QED
      BY <3>1, <3>3, <3>4, <3>5 DEF Known
  <2>5. CASE ~FieldRefused(fields, n + 1) /\ f.kind # "length"
    <3>1. next = acc
      BY <1>0, <1>2, <2>2, <2>5 DEF ScanField, FieldKinds
    <3>2. /\ \A i \in 1..(n + 1) : ~FieldRefused(fields, i)
          /\ \A i \in 1..(n + 1) : fields[i].kind = "length" =>
                acc.given /\ fields[i].length = acc.length
      BY <1>0, <2>1, <2>5
    <3>3. acc.given => \E i \in 1..(n + 1) : fields[i].kind = "length"
      BY <1>0, <2>1
    <3> QED
      BY <1>2, <2>1, <3>1, <3>2, <3>3 DEF Known
  <2> QED
    BY <2>3, <2>4, <2>5
<1> QED
  BY <1>1, <1>2

LEMMA ScanKnows ==
    ASSUME NEW fields \in Seq(Fields)
    PROVE  Scan(fields) \in Scans /\ Known(Scan(fields), fields, Len(fields))
<1>1. PICK g \in [0..Len(fields) -> Scans] :
          /\ g[0] = Unscanned
          /\ \A n \in 1..Len(fields) : g[n] = ScanField(g[n - 1], fields[n])
          /\ Scan(fields) = g[Len(fields)]
  BY ScanUnfolds
<1> DEFINE Right == {n \in Nat : n <= Len(fields) => Known(g[n], fields, n)}
<1>2. 0 \in Right
  BY <1>1 DEF Known, Unscanned
<1>3. ASSUME NEW n \in Nat, n \in Right PROVE n + 1 \in Right
  <2> SUFFICES ASSUME n + 1 <= Len(fields) PROVE Known(g[n + 1], fields, n + 1)
    OBVIOUS
  <2>1. /\ n + 1 \in 1..Len(fields) /\ n \in 0..Len(fields) /\ (n + 1) - 1 = n
        /\ n <= Len(fields)
    OBVIOUS
  <2>2. Known(g[n], fields, n) /\ g[n] \in Scans
    BY <1>3, <2>1
  <2>3. g[n + 1] = ScanField(g[n], fields[n + 1])
    BY <1>1, <2>1
  <2> QED
    BY <2>1, <2>2, <2>3, ScanFieldKnows
<1> HIDE DEF Right
<1>4. Len(fields) \in Right /\ Len(fields) \in Nat
  BY <1>2, <1>3, Induction
<1> QED
  BY <1>1, <1>4 DEF Right

LEMMA LeastOfOne == ASSUME NEW n \in Nat PROVE Min({n}) = n
BY DEF Min

\* The loop over the headers decides as the fields read as a whole say.
LEMMA ScanDecides ==
    ASSUME NEW r \in Requests
    PROVE  LET scan == Scan(r.fields)
           IN  /\ scan.length \in Nat
               /\ \/ /\ scan.error \in {"MalformedRequest", "UnsupportedTransferEncoding"}
                     /\ FieldsVerdict(r.fields) = scan.error
                  \/ /\ scan.error = "none" /\ scan.length = DeclaredLength(r.fields)
                     /\ FieldsVerdict(r.fields) =
                           IF scan.length > MaxBody THEN "RequestTooLarge" ELSE "Ok"
<1> DEFINE fields == r.fields
           scan == Scan(fields)
           refused == {i \in 1..Len(fields) : FieldRefused(fields, i)}
           declared == {i \in 1..Len(fields) : fields[i].kind = "length"}
           lengths == {fields[i].length : i \in declared}
<1>0. fields \in Seq(Fields)
  BY RequestsAssumption DEF IsRequest
<1>1. scan \in Scans /\ Known(scan, fields, Len(fields))
  BY <1>0, ScanKnows
<1>2. scan.length \in Nat
  BY <1>1 DEF Scans
<1>3. CASE scan.error = "none"
  <2>1. refused = {}
    BY <1>1, <1>3 DEF Known
  <2>2. scan.length = DeclaredLength(fields)
    <3>1. \A j \in declared : scan.given /\ fields[j].length = scan.length
      BY <1>1, <1>3 DEF Known
    <3>2. CASE scan.given
      <4>1. PICK i \in 1..Len(fields) : fields[i].kind = "length"
        BY <1>1, <1>3, <3>2 DEF Known
      <4>2. lengths = {scan.length}
        BY <3>1, <4>1
      <4> HIDE DEF lengths, scan, declared
      <4>3. Min(lengths) = scan.length /\ lengths # {}
        BY <1>2, <4>2, LeastOfOne
      <4> QED
        BY <4>3 DEF DeclaredLength, lengths, declared
    <3>3. CASE ~scan.given
      <4>1. lengths = {} /\ scan.length = 0
        BY <1>1, <1>3, <3>1, <3>3 DEF Known
      <4> QED
        BY <4>1 DEF DeclaredLength
    <3> QED
      BY <3>2, <3>3
  <2>3. FieldsVerdict(fields) = IF scan.length > MaxBody THEN "RequestTooLarge" ELSE "Ok"
    BY <2>1, <2>2 DEF FieldsVerdict
  <2> QED
    BY <1>2, <1>3, <2>2, <2>3
<1>4. CASE scan.error # "none"
  <2>1. PICK i \in 1..Len(fields) :
            /\ FieldRefused(fields, i)
            /\ \A j \in 1..(i - 1) : ~FieldRefused(fields, j)
            /\ scan.error = IF fields[i].kind = "encoded" THEN "UnsupportedTransferEncoding"
                            ELSE "MalformedRequest"
    BY <1>1, <1>4 DEF Known
  <2>2. i \in refused /\ \A j \in refused : i <= j /\ j \in Nat /\ i \in Nat
    BY <2>1
  <2>3. Min(refused) = i
    BY <2>2 DEF Min
  <2>4. FieldsVerdict(fields) = scan.error
    BY <2>1, <2>2, <2>3 DEF FieldsVerdict
  <2> QED
    BY <1>2, <2>1, <2>4
<1> QED
  BY <1>3, <1>4
-----------------------------------------------------------------------------
(* Lemmas about requests and verdicts. *)

LEMMA RequestType ==
    ASSUME NEW r \in Requests
    PROVE  r.head \in Nat \ {0} /\ r.bad \in Nat /\ r.bad <= r.head
BY RequestsAssumption DEF IsRequest

\* More bytes change no verdict but that the request is incomplete.
LEMMA VerdictStays ==
    ASSUME NEW r \in Requests, NEW n \in Nat, Verdict(r, n) # "IncompleteRequest",
           FieldsVerdict(r.fields) = "Ok" => DeclaredLength(r.fields) \in Nat
    PROVE  Verdict(r, n + 1) = Verdict(r, n)
BY RequestType, LimitsAssumption DEF Verdict

\* The fields of a request that are sound declare a length.
LEMMA SoundDeclares ==
    ASSUME NEW r \in Requests, FieldsVerdict(r.fields) = "Ok"
    PROVE  DeclaredLength(r.fields) \in Nat /\ DeclaredLength(r.fields) <= MaxBody
BY ScanDecides, LimitsAssumption

\* The initial state satisfies the invariant.
LEMMA InitInv == Init => IInv
BY LimitsAssumption
DEF Init, IInv, TypeOK, ReadInv, BodyInv, BufferBounded, VerdictInv, States, Results, Longest
-----------------------------------------------------------------------------
(* The peer, the owner, and what is not about the bytes. *)

LEMMA PeerInv == IInv /\ (PeerSends \/ PeerCloses \/ PeerResets \/ Stop) => IInv'
<1> SUFFICES ASSUME IInv, PeerSends \/ PeerCloses \/ PeerResets \/ Stop PROVE IInv'
  OBVIOUS
<1>1. UNCHANGED <<pc, result, request, codecVars>>
  BY DEF PeerSends, PeerCloses, PeerResets, Stop, peerVars, codecVars
<1>2. TypeOK'
  <2>1. /\ sent' \in 0..Longest /\ sent' >= sent
        /\ peer' \in {"open", "closed", "reset"} /\ live' \in BOOLEAN
    <3>0. /\ Longest \in Nat /\ sent \in 0..Longest
          /\ peer \in {"open", "closed", "reset"} /\ live \in BOOLEAN
      BY LimitsAssumption DEF Longest, IInv, TypeOK
    <3>1. CASE PeerSends
      BY <3>0, <3>1 DEF PeerSends
    <3>2. CASE PeerCloses \/ PeerResets
      BY <3>0, <3>2 DEF PeerCloses, PeerResets
    <3>3. CASE Stop
      <4>1. live' = FALSE /\ sent' = sent /\ peer' = peer
        BY <3>3 DEF Stop, peerVars
      <4>2. sent' \in 0..Longest /\ sent' >= sent
        BY <3>0, <4>1
      <4>3. peer' \in {"open", "closed", "reset"} /\ live' \in BOOLEAN
        BY <3>0, <4>1
      <4> QED
        BY <4>2, <4>3
    <3> QED
      BY <3>1, <3>2, <3>3
  <2>2. sent \in Nat /\ sent' \in Nat
    BY <2>1, LimitsAssumption DEF IInv, TypeOK, Longest
  <2> QED
    BY <1>1, <2>1, <2>2 DEF IInv, TypeOK, codecVars
<1>3. ReadInv' /\ BodyInv' /\ BufferBounded'
  BY <1>1 DEF IInv, ReadInv, BodyInv, BufferBounded, codecVars
<1>4. VerdictInv'
  <2>1. CASE PeerSends
    <3>1. sent \in Nat /\ sent' = sent + 1 /\ peer = "open" /\ request \in Requests
      BY <2>1, LimitsAssumption DEF PeerSends, IInv, TypeOK, Longest
    <3>2. Verdict(request, sent) # "IncompleteRequest" =>
             Verdict(request, sent + 1) = Verdict(request, sent)
      BY <3>1, VerdictStays, SoundDeclares
    <3> QED
      BY <1>1, <3>1, <3>2 DEF IInv, VerdictInv
  <2>2. CASE PeerCloses \/ PeerResets \/ Stop
    BY <1>1, <2>2 DEF IInv, VerdictInv, PeerCloses, PeerResets, Stop, peerVars
  <2> QED
    BY <2>1, <2>2
<1> QED
  BY <1>2, <1>3, <1>4 DEF IInv

LEMMA AcceptInv == IInv /\ (AcceptCall \/ AcceptStopped \/ Accepted \/ Close) => IInv'
<1> SUFFICES ASSUME IInv, AcceptCall \/ AcceptStopped \/ Accepted \/ Close PROVE IInv'
  OBVIOUS
<1>1. TypeOK'
  BY LimitsAssumption
  DEF IInv, TypeOK, AcceptCall, AcceptStopped, Accepted, Close, peerVars, codecVars,
      States, Results, Longest
<1>2. pc' \in {"idle", "accepting", "head"}
  BY DEF AcceptCall, AcceptStopped, Accepted, Close
<1>3. ReadInv' /\ BodyInv' /\ BufferBounded' /\ VerdictInv'
  BY <1>2, LimitsAssumption
  DEF IInv, ReadInv, BodyInv, BufferBounded, VerdictInv, AcceptCall, AcceptStopped, Accepted,
      Close, codecVars
<1> QED
  BY <1>1, <1>3 DEF IInv

LEMMA ExchangeInv == IInv /\ Exchange => IInv'
<1> SUFFICES ASSUME IInv, Exchange PROVE IInv'
  OBVIOUS
<1>1. TypeOK'
  BY DEF IInv, TypeOK, Exchange, RespondInvalid, Respond, DropExchange, WriteReturns, Fail,
         peerVars, codecVars, States, Results
<1>2. pc' \in {"writing", "dropping"} /\ UNCHANGED codecVars /\ UNCHANGED peerVars
  BY DEF Exchange, RespondInvalid, Respond, DropExchange, WriteReturns, Fail
<1>3. ReadInv' /\ BodyInv' /\ BufferBounded'
  BY <1>2 DEF IInv, ReadInv, BodyInv, BufferBounded, codecVars
<1>4. VerdictInv'
  BY <1>2 DEF IInv, VerdictInv, Exchange, RespondInvalid, Respond, DropExchange, WriteReturns,
              Fail, peerVars
<1> QED
  BY <1>1, <1>3, <1>4 DEF IInv

-----------------------------------------------------------------------------
(* The codec. *)

\* An error of the transport ends the decoding, whatever the state of the codec.
LEMMA FailTransport ==
    ASSUME IInv, Fail("Transport"), UNCHANGED <<live, request, sent, peer, buffer, needed>>,
           want' \in 0..(MaxHead + MaxBody)
    PROVE  IInv'
<1>1. TypeOK'
  BY DEF IInv, TypeOK, Fail, States, Results
<1> QED
  BY <1>1 DEF IInv, Fail, ReadInv, BodyInv, BufferBounded, VerdictInv

\* A verdict ends the decoding.
LEMMA FailVerdict ==
    ASSUME IInv, NEW kind \in Results, Fail(kind), kind = Verdict(request, sent),
           kind = "IncompleteRequest" => peer # "open",
           UNCHANGED <<live, peerVars, codecVars>>
    PROVE  IInv'
<1>1. TypeOK'
  BY DEF IInv, TypeOK, Fail, States, peerVars, codecVars
<1>2. VerdictInv'
  BY DEF VerdictInv, Fail, peerVars
<1> QED
  BY <1>1, <1>2 DEF IInv, Fail, ReadInv, BodyInv, BufferBounded, codecVars

\* The numbers that the codec works with.
LEMMA Sizes ==
    ASSUME IInv
    PROVE  /\ MaxHead \in Nat \ {0} /\ MaxBody \in Nat
           /\ buffer \in Nat /\ sent \in Nat /\ buffer <= sent
           /\ want \in Nat /\ needed \in Nat /\ needed <= MaxHead + MaxBody
           /\ request \in Requests /\ request.head \in Nat \ {0}
           /\ request.bad \in Nat /\ request.bad <= request.head
BY RequestType, LimitsAssumption DEF IInv, TypeOK, Longest

LEMMA HeadInv == IInv /\ (HeadMalformed \/ HeadTooLarge \/ HeadRead) => IInv'
<1> SUFFICES ASSUME IInv, HeadMalformed \/ HeadTooLarge \/ HeadRead PROVE IInv'
  OBVIOUS
<1>0. buffer <= MaxHead /\ pc = "head"
  BY DEF IInv, ReadInv, HeadMalformed, HeadTooLarge, HeadRead
<1>1. CASE HeadMalformed
  <2>1. Verdict(request, sent) = "MalformedRequest"
    BY <1>0, <1>1, Sizes DEF HeadMalformed, Objects, Verdict
  <2> QED
    BY <1>1, <2>1, FailVerdict DEF HeadMalformed, Results
<1>2. CASE HeadTooLarge
  <2>1. Verdict(request, sent) = "RequestTooLarge"
    BY <1>0, <1>2, Sizes DEF HeadTooLarge, Partial, Objects, HeadFull, Verdict
  <2> QED
    BY <1>2, <2>1, FailVerdict DEF HeadTooLarge, Results
<1>3. CASE HeadRead
  <2> DEFINE n == Lesser(MaxHead - buffer, HeadChunk)
  <2>1. n \in Nat /\ n > 0 /\ buffer + n <= MaxHead /\ n <= MaxHead + MaxBody
    BY <1>0, <1>3, Sizes, LimitsAssumption DEF HeadRead, HeadFull, Lesser
  <2>2. CASE ~live
    BY <1>3, <2>2, FailTransport DEF HeadRead, BeginRead, peerVars, IInv, TypeOK
  <2>3. CASE live
    <3>1. /\ pc' = "headRead" /\ want' = n /\ UNCHANGED result
          /\ UNCHANGED <<live, peerVars, buffer, needed>> /\ Partial(request, buffer)
      BY <1>3, <2>3 DEF HeadRead, BeginRead
    <3>2. TypeOK'
      BY <2>1, <3>1, Sizes DEF IInv, TypeOK, States, peerVars
    <3> QED
      BY <1>0, <2>1, <3>1, <3>2
      DEF IInv, ReadInv, BodyInv, BufferBounded, VerdictInv, Partial, Objects, peerVars
  <2> QED
    BY <2>2, <2>3
<1> QED
  BY <1>1, <1>2, <1>3

LEMMA HeadCompleteInv == IInv /\ HeadComplete => IInv'
<1> SUFFICES ASSUME IInv, HeadComplete PROVE IInv'
  OBVIOUS
<1>0. /\ pc = "head" /\ buffer <= MaxHead
      /\ request.head <= buffer /\ request.bad = 0 /\ request.head <= MaxHead
  BY Sizes DEF IInv, ReadInv, HeadComplete, Complete, Objects
<1> DEFINE scan == Scan(request.fields)
<1>1. CASE scan.error # "none"
  <2>1. /\ scan.error \in {"MalformedRequest", "UnsupportedTransferEncoding"}
        /\ FieldsVerdict(request.fields) = scan.error
    BY <1>1, ScanDecides, Sizes
  <2>2. Verdict(request, sent) = scan.error
    BY <1>0, <2>1, Sizes DEF Verdict
  <2>3. Fail(scan.error) /\ UNCHANGED <<live, peerVars, codecVars>>
    BY <1>1 DEF HeadComplete, codecVars
  <2> QED
    BY <2>1, <2>2, <2>3, FailVerdict DEF Results
<1>2. CASE scan.error = "none" /\ scan.length > MaxBody
  <2>1. FieldsVerdict(request.fields) = "RequestTooLarge"
    BY <1>2, ScanDecides, Sizes
  <2>2. Verdict(request, sent) = "RequestTooLarge"
    BY <1>0, <2>1, Sizes DEF Verdict
  <2>3. Fail("RequestTooLarge") /\ UNCHANGED <<live, peerVars, codecVars>>
    BY <1>2, Sizes, ScanDecides DEF HeadComplete, codecVars
  <2> QED
    BY <2>2, <2>3, FailVerdict DEF Results
<1>3. CASE scan.error = "none" /\ ~(scan.length > MaxBody)
  <2>1. /\ scan.length \in Nat /\ scan.length <= MaxBody
        /\ scan.length = DeclaredLength(request.fields)
        /\ FieldsVerdict(request.fields) = "Ok"
    BY <1>3, ScanDecides, Sizes
  <2>2. /\ pc' = "body" /\ needed' = request.head + scan.length
        /\ UNCHANGED <<live, result, peerVars, buffer, want>>
    BY <1>3 DEF HeadComplete
  <2>3. needed' \in 0..(MaxHead + MaxBody)
    BY <1>0, <2>1, <2>2, Sizes
  <2>4. TypeOK'
    BY <2>2, <2>3 DEF IInv, TypeOK, States, peerVars
  <2> QED
    BY <1>0, <2>1, <2>2, <2>4
    DEF IInv, ReadInv, BodyInv, BufferBounded, VerdictInv, peerVars
<1> QED
  BY <1>1, <1>2, <1>3

LEMMA BodyStepInv == IInv /\ (BodyRead \/ BodyComplete) => IInv'
<1> SUFFICES ASSUME IInv, BodyRead \/ BodyComplete PROVE IInv'
  OBVIOUS
<1>0. /\ pc = "body" /\ request.bad = 0 /\ request.head <= buffer /\ request.head <= MaxHead
      /\ FieldsVerdict(request.fields) = "Ok"
      /\ DeclaredLength(request.fields) \in Nat
      /\ needed = request.head + DeclaredLength(request.fields)
  BY DEF IInv, BodyInv, BodyRead, BodyComplete
<1>1. CASE BodyRead
  <2> DEFINE n == Lesser(needed - buffer, BodyChunk)
  <2>1. n \in Nat /\ n > 0 /\ buffer + n <= needed /\ n <= MaxHead + MaxBody
    BY <1>1, Sizes, LimitsAssumption DEF BodyRead, Lesser
  <2>2. CASE ~live
    BY <1>1, <2>2, FailTransport DEF BodyRead, BeginRead, peerVars, IInv, TypeOK
  <2>3. CASE live
    <3>1. /\ pc' = "bodyRead" /\ want' = n /\ UNCHANGED result
          /\ UNCHANGED <<live, peerVars, buffer, needed>>
      BY <1>1, <2>3 DEF BodyRead, BeginRead
    <3>2. TypeOK'
      BY <2>1, <3>1, Sizes DEF IInv, TypeOK, States, peerVars
    <3> QED
      BY <1>0, <2>1, <3>1, <3>2
      DEF IInv, ReadInv, BodyInv, BufferBounded, VerdictInv, peerVars
  <2> QED
    BY <2>2, <2>3
<1>2. CASE BodyComplete
  <2>1. Verdict(request, sent) = "Ok"
    BY <1>0, <1>2, Sizes DEF BodyComplete, Verdict
  <2>2. TypeOK'
    BY <1>2 DEF BodyComplete, IInv, TypeOK, States, Results, peerVars, codecVars
  <2> QED
    BY <1>2, <2>1, <2>2
    DEF BodyComplete, IInv, ReadInv, BodyInv, BufferBounded, VerdictInv, peerVars, codecVars
<1> QED
  BY <1>1, <1>2

LEMMA ReadReturnsInv == IInv /\ ReadReturns => IInv'
<1> SUFFICES ASSUME IInv, ReadReturns PROVE IInv'
  OBVIOUS
<1>0. /\ pc \in {"headRead", "bodyRead"} /\ want > 0
      /\ UNCHANGED <<live, peerVars, want, needed>>
  BY DEF IInv, ReadInv, ReadReturns
<1> PICK k \in ReadCounts(want) :
       \/ /\ k > 0
          /\ buffer' = buffer + k
          /\ pc' = IF pc = "headRead" THEN "head" ELSE "body"
          /\ UNCHANGED result
       \/ /\ k = 0
          /\ Fail("IncompleteRequest")
          /\ UNCHANGED buffer
  BY DEF ReadReturns
<1>1. \/ k \in 1..want /\ buffer + k <= sent
      \/ k = 0 /\ peer = "closed" /\ buffer = sent
  BY <1>0, Sizes DEF ReadCounts
<1>2. CASE k # 0
  <2>1. /\ k \in 1..want /\ buffer' = buffer + k /\ UNCHANGED result
        /\ pc' = IF pc = "headRead" THEN "head" ELSE "body"
    BY <1>1, <1>2
  <2>2. TypeOK'
    BY <1>0, <1>1, <2>1, Sizes DEF IInv, TypeOK, States, peerVars
  <2>3. CASE pc = "headRead"
    <3>1. buffer + k <= MaxHead
      BY <2>1, <2>3, Sizes DEF IInv, ReadInv
    <3> QED
      BY <1>0, <2>1, <2>2, <2>3, <3>1
      DEF IInv, ReadInv, BodyInv, BufferBounded, VerdictInv
  <2>4. CASE pc = "bodyRead"
    <3>1. buffer + k <= needed /\ needed <= MaxHead + MaxBody /\ buffer + k >= buffer
      BY <2>1, <2>4, Sizes DEF IInv, ReadInv
    <3>2. request.head <= buffer + k
      BY <2>4, <3>1, <2>1, Sizes DEF IInv, BodyInv
    <3> QED
      BY <1>0, <2>1, <2>2, <2>4, <3>1, <3>2
      DEF IInv, ReadInv, BodyInv, BufferBounded, VerdictInv, peerVars
  <2> QED
    BY <1>0, <2>3, <2>4
<1>3. CASE k = 0
  <2>1. Fail("IncompleteRequest") /\ UNCHANGED codecVars /\ peer = "closed" /\ buffer = sent
    BY <1>0, <1>1, <1>3 DEF codecVars
  <2>2. Verdict(request, sent) = "IncompleteRequest"
    <3>1. CASE pc = "headRead"
      BY <2>1, <3>1, Sizes DEF IInv, ReadInv, Partial, Objects, Verdict
    <3>2. CASE pc = "bodyRead"
      BY <2>1, <3>2, Sizes DEF IInv, ReadInv, BodyInv, Verdict
    <3> QED
      BY <1>0, <3>1, <3>2
  <2> QED
    BY <1>0, <2>1, <2>2, FailVerdict DEF Results
<1> QED
  BY <1>2, <1>3

LEMMA NextInv == IInv /\ [Next]_vars => IInv'
<1> SUFFICES ASSUME IInv, [Next]_vars PROVE IInv'
  OBVIOUS
<1>1. CASE Decode
  <2>1. CASE ReadFails
    BY <2>1, FailTransport DEF ReadFails, peerVars, codecVars, IInv, TypeOK
  <2> QED
    BY <1>1, <2>1, HeadInv, HeadCompleteInv, BodyStepInv, ReadReturnsInv DEF Decode
<1>2. CASE UNCHANGED vars
  BY <1>2 DEF vars, IInv, TypeOK, ReadInv, BodyInv, BufferBounded, VerdictInv
<1> QED
  BY <1>1, <1>2, PeerInv, AcceptInv, ExchangeInv DEF Next
-----------------------------------------------------------------------------
(* Theorems. *)

\* The invariant holds in every state of every behaviour.
THEOREM Invariance == Spec => []IInv
BY InitInv, NextInv, PTL DEF Spec

\* Every variable has its type.
THEOREM TypeCorrect == Spec => []TypeOK
<1>1. IInv => TypeOK
  BY DEF IInv
<1> QED
  BY <1>1, Invariance, PTL

\* What accept_exchange() says of a request does not depend on how the stream was cut
\* into reads, nor on the bytes that came in with the head.
THEOREM VerdictsDoNotDependOnReads == Spec => []VerdictIndependentOfReads
<1>1. IInv => VerdictIndependentOfReads
  BY DEF IInv, VerdictInv, VerdictIndependentOfReads
<1> QED
  BY <1>1, Invariance, PTL

\* The codec never holds more than its limits allow.
THEOREM BuffersAreBounded == Spec => []BufferBounded
<1>1. IInv => BufferBounded
  BY DEF IInv
<1> QED
  BY <1>1, Invariance, PTL
=============================================================================
