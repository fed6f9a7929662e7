------------------------------ MODULE HttpServer ------------------------------
(***************************************************************************)
(* The HttpServer component and the exchange it hands out                  *)
(* (packages/networking/http): one thread that calls accept_exchange(),    *)
(* gets an HttpExchange or an error, and responds or drops the exchange,   *)
(* over connection after connection.                                       *)
(*                                                                         *)
(* The peer's bytes are counted, not spelled: a request is where its head  *)
(* ends, where the parser first objects, and what its header fields say.   *)
(* How the stream is cut into reads is free, between one byte and what the *)
(* codec asked for.  accept() is the channel of module AcceptChannel; stop *)
(* of the owning Instance can come at any time.                            *)
(***************************************************************************)
EXTENDS Naturals, Sequences, SequencesExt

CONSTANTS
    Requests,   \* what a peer may have in mind to send: see IsRequest
    MaxHead,    \* DEFAULT_MAX_HEAD_BYTES
    MaxBody,    \* DEFAULT_MAX_BODY_BYTES
    HeadChunk,  \* the most a read of the head asks for: 1024
    BodyChunk,  \* the most a read of the body asks for: 8192
    Surplus     \* bound: bytes a peer sends after the longest request accepted

ASSUME LimitsAssumption ==
    /\ MaxHead \in Nat \ {0} /\ MaxBody \in Nat
    /\ HeadChunk \in Nat \ {0} /\ BodyChunk \in Nat \ {0}
    /\ Surplus \in Nat

\* A header field, by what the codec tells apart: a Content-Length that parses
\* (kind "length"), one that does not ("junk"), a Transfer-Encoding other than
\* identity ("encoded"), a value that is not UTF-8 ("binary"), anything else.
FieldKinds == {"length", "junk", "encoded", "binary", "other"}
Fields == [kind : FieldKinds, length : Nat]

\* The head is complete after `head` bytes; the parser objects from byte `bad`
\* on, or never when `bad` is 0.
IsRequest(r) ==
    /\ r.head \in Nat \ {0}
    /\ r.bad \in 0..r.head
    /\ r.fields \in Seq(Fields)

ASSUME RequestsAssumption == \A r \in Requests : IsRequest(r)

VARIABLES
    live,     \* generation_live of the transport
    pc,       \* where the server's thread is
    result,   \* the HttpErrorKind, or "Ok", of the last call that ended
    request,  \* what the peer of the current connection sends
    sent,     \* the peer: bytes sent so far
    peer,     \* the peer's side of the connection: "open", "closed", "reset"
    buffer,   \* the codec: length of `buffer`
    want,     \* the argument of the read_some in progress
    needed    \* the codec: header_len + content_length

peerVars  == <<request, sent, peer>>
codecVars == <<buffer, want, needed>>
vars == <<live, pc, result, request, sent, peer, buffer, want, needed>>

States == {"idle", "accepting", "head", "headRead", "body", "bodyRead",
           "exchange", "writing", "dropping"}
\* HttpErrorKind. UnsupportedVersion is left out: of the version of a request httparse
\* says 0 or 1 and objects to anything else, so that HttpVersion::from_httparse, where
\* that kind comes from, never sees another.
Results == {"none", "Ok", "Stopped", "Transport", "MalformedRequest",
            "RequestTooLarge", "UnsupportedTransferEncoding",
            "IncompleteRequest", "InvalidResponse", "WriteResponseFailed"}

Lesser(a, b) == IF a <= b THEN a ELSE b

\* bound: all the bytes a peer may send
Longest == MaxHead + MaxBody + Surplus

Init ==
    /\ live = TRUE
    /\ pc = "idle"
    /\ result = "none"
    /\ request \in Requests
    /\ sent = 0
    /\ peer = "open"
    /\ buffer = 0
    /\ want = 0
    /\ needed = 0
-----------------------------------------------------------------------------
(* The environment: the peer of the current connection, and stop. *)

Connected == pc \notin {"idle", "accepting"}

PeerSends ==
    /\ Connected /\ peer = "open" /\ sent < Longest
    /\ sent' = sent + 1
    /\ UNCHANGED <<live, pc, result, request, peer, codecVars>>

PeerCloses ==
    /\ Connected /\ peer = "open"
    /\ peer' = "closed"
    /\ UNCHANGED <<live, pc, result, request, sent, codecVars>>

PeerResets ==
    /\ Connected /\ peer # "reset"
    /\ peer' = "reset"
    /\ UNCHANGED <<live, pc, result, request, sent, codecVars>>

Stop ==
    /\ live
    /\ live' = FALSE
    /\ UNCHANGED <<pc, result, peerVars, codecVars>>
-----------------------------------------------------------------------------
(* accept_exchange(). *)

\* accept() looks at generation_live once, before it waits.
AcceptCall ==
    /\ pc = "idle"
    /\ IF live
       THEN pc' = "accepting" /\ result' = "none"
       ELSE pc' = "idle" /\ result' = "Stopped"
    /\ UNCHANGED <<live, peerVars, codecVars>>

AcceptStopped ==
    /\ pc = "accepting"
    /\ ~live
    /\ pc' = "idle"
    /\ result' = "Stopped"
    /\ UNCHANGED <<live, peerVars, codecVars>>

\* A connection that was queued is returned, even when stop has just begun.
Accepted ==
    /\ pc = "accepting"
    /\ pc' = "head"
    /\ request' \in Requests
    /\ sent' = 0
    /\ peer' = "open"
    /\ buffer' = 0
    /\ want' = 0
    /\ needed' = 0
    /\ UNCHANGED <<live, result>>

\* What httparse makes of the first n bytes of request r.
Objects(r, n)   == r.bad # 0 /\ n >= r.bad
Complete(r, n)  == n >= r.head /\ ~Objects(r, n)
Partial(r, n)   == n < r.head /\ ~Objects(r, n)

\* Mutant of HeadFull: > for >=.
HeadFullByOne(n) == n > MaxHead

HeadFull(n) == n >= MaxHead

\* An early return: the connection goes out of scope.
Fail(kind) == pc' = "dropping" /\ result' = kind

\* read_some(n), up to the blocking read: ensure_live.
BeginRead(n, reading) ==
    IF live
    THEN pc' = reading /\ want' = n /\ UNCHANGED result
    ELSE Fail("Transport") /\ UNCHANGED want

HeadMalformed ==
    /\ pc = "head"
    /\ Objects(request, buffer)
    /\ Fail("MalformedRequest")
    /\ UNCHANGED <<live, peerVars, codecVars>>

HeadTooLarge ==
    /\ pc = "head"
    /\ Partial(request, buffer)
    /\ HeadFull(buffer)
    /\ Fail("RequestTooLarge")
    /\ UNCHANGED <<live, peerVars, codecVars>>

HeadRead ==
    /\ pc = "head"
    /\ Partial(request, buffer)
    /\ ~HeadFull(buffer)
    /\ BeginRead(Lesser(MaxHead - buffer, HeadChunk), "headRead")
    /\ UNCHANGED <<live, peerVars, buffer, needed>>

\* One turn of the loop over the headers: acc.given and acc.length are the
\* Option content_length, acc.error the early return.
ScanField(acc, f) ==
    LET conflict == acc.given /\ acc.length # f.length IN
    CASE acc.error # "none" -> acc
      [] acc.error = "none" /\ \/ f.kind \in {"binary", "junk"}
                               \/ f.kind = "length" /\ conflict ->
            [acc EXCEPT !.error = "MalformedRequest"]
      [] acc.error = "none" /\ f.kind = "encoded" ->
            [acc EXCEPT !.error = "UnsupportedTransferEncoding"]
      [] acc.error = "none" /\ f.kind = "length" /\ ~conflict ->
            [acc EXCEPT !.given = TRUE, !.length = f.length]
      [] OTHER -> acc

Scan(fields) ==
    LET after[n \in 0..Len(fields)] ==
            IF n = 0 THEN [error |-> "none", given |-> FALSE, length |-> 0]
            ELSE ScanField(after[n - 1], fields[n])
    IN  after[Len(fields)]

\* Mutant of HeadComplete: the body limit is not looked at.
HeadCompleteUnlimited ==
    /\ pc = "head"
    /\ Complete(request, buffer)
    /\ LET scan == Scan(request.fields) IN
       \/ /\ scan.error # "none"
          /\ Fail(scan.error)
          /\ UNCHANGED needed
       \/ /\ scan.error = "none"
          /\ pc' = "body"
          /\ needed' = request.head + scan.length
          /\ UNCHANGED result
    /\ UNCHANGED <<live, peerVars, buffer, want>>

\* The head is whole: the headers, then the body limit, then needed.
HeadComplete ==
    /\ pc = "head"
    /\ Complete(request, buffer)
    /\ LET scan == Scan(request.fields) IN
       \/ /\ scan.error # "none"
          /\ Fail(scan.error)
          /\ UNCHANGED needed
       \/ /\ scan.error = "none" /\ scan.length > MaxBody
          /\ Fail("RequestTooLarge")
          /\ UNCHANGED needed
       \/ /\ scan.error = "none" /\ scan.length <= MaxBody
          /\ pc' = "body"
          /\ needed' = request.head + scan.length
          /\ UNCHANGED result
    /\ UNCHANGED <<live, peerVars, buffer, want>>

\* Mutant of BodyRead: every read asks for a whole chunk.
BodyReadChunk ==
    /\ pc = "body"
    /\ buffer < needed
    /\ BeginRead(BodyChunk, "bodyRead")
    /\ UNCHANGED <<live, peerVars, buffer, needed>>

BodyRead ==
    /\ pc = "body"
    /\ buffer < needed
    /\ BeginRead(Lesser(needed - buffer, BodyChunk), "bodyRead")
    /\ UNCHANGED <<live, peerVars, buffer, needed>>

BodyComplete ==
    /\ pc = "body"
    /\ buffer >= needed
    /\ pc' = "exchange"
    /\ result' = "Ok"
    /\ UNCHANGED <<live, peerVars, codecVars>>

\* How many bytes a read_some(n) that returns Ok may bring: none for n = 0, else
\* some of those sent and not yet read, or none once the peer's stream has ended.
ReadCounts(n) ==
    IF n = 0 THEN {0}
    ELSE {k \in 1..n : buffer + k <= sent}
           \cup {k \in {0} : peer = "closed" /\ buffer = sent}

\* Mutant of ReadReturns: an empty read is taken for "nothing yet".
ReadReturnsPatient ==
    /\ pc \in {"headRead", "bodyRead"}
    /\ \E k \in ReadCounts(want) : buffer' = buffer + k
    /\ pc' = IF pc = "headRead" THEN "head" ELSE "body"
    /\ UNCHANGED <<live, result, peerVars, want, needed>>

\* The read ends: an empty result is the end of the stream.
ReadReturns ==
    /\ pc \in {"headRead", "bodyRead"}
    /\ \E k \in ReadCounts(want) :
          \/ /\ k > 0
             /\ buffer' = buffer + k
             /\ pc' = IF pc = "headRead" THEN "head" ELSE "body"
             /\ UNCHANGED result
          \/ /\ k = 0
             /\ Fail("IncompleteRequest")
             /\ UNCHANGED buffer
    /\ UNCHANGED <<live, peerVars, want, needed>>

ReadFails ==
    /\ pc \in {"headRead", "bodyRead"}
    /\ want > 0
    /\ peer = "reset"
    /\ Fail("Transport")
    /\ UNCHANGED <<live, peerVars, codecVars>>
-----------------------------------------------------------------------------
(* The exchange: respond(self, response), or its end without a response. *)

\* encode_http_response rejects the status, a header name or a header value.
RespondInvalid ==
    /\ pc = "exchange"
    /\ Fail("InvalidResponse")
    /\ UNCHANGED <<live, peerVars, codecVars>>

\* The response is encoded; write_all, up to the blocking write: ensure_live.
Respond ==
    /\ pc = "exchange"
    /\ IF live
       THEN pc' = "writing" /\ UNCHANGED result
       ELSE Fail("WriteResponseFailed")
    /\ UNCHANGED <<live, peerVars, codecVars>>

WriteReturns ==
    /\ pc = "writing"
    /\ pc' = "dropping"
    /\ \/ peer # "reset" /\ UNCHANGED result
       \/ peer = "reset" /\ result' = "WriteResponseFailed"
    /\ UNCHANGED <<live, peerVars, codecVars>>

DropExchange ==
    /\ pc = "exchange"
    /\ pc' = "dropping"
    /\ UNCHANGED <<live, result, peerVars, codecVars>>

\* The last owner of the connection goes: shutdown_both may have been refused,
\* but the descriptor is closed.
Close ==
    /\ pc = "dropping"
    /\ pc' = "idle"
    /\ UNCHANGED <<live, result, peerVars, codecVars>>

Decode ==
    \/ HeadMalformed \/ HeadTooLarge \/ HeadRead \/ HeadComplete
    \/ BodyRead \/ BodyComplete \/ ReadReturns \/ ReadFails

Exchange == RespondInvalid \/ Respond \/ DropExchange \/ WriteReturns

Next ==
    \/ PeerSends \/ PeerCloses \/ PeerResets \/ Stop
    \/ AcceptCall \/ AcceptStopped \/ Accepted
    \/ Decode \/ Exchange \/ Close

Spec == Init /\ [][Next]_vars

\* The server's thread runs while it is not blocked. Nothing is asked of peers.
FairSpec == Spec /\ WF_vars(Decode \/ Close)
-----------------------------------------------------------------------------
(* Properties. *)

\* Every variable has its type, and the codec holds no byte that was not sent.
TypeOK ==
    /\ live \in BOOLEAN
    /\ pc \in States
    /\ result \in Results
    /\ request \in Requests
    /\ sent \in 0..Longest
    /\ peer \in {"open", "closed", "reset"}
    /\ buffer \in 0..sent
    /\ want \in 0..(MaxHead + MaxBody)
    /\ needed \in 0..(MaxHead + MaxBody)

\* Header field i is refused, whatever comes after it.
FieldRefused(fields, i) ==
    \/ fields[i].kind \in {"binary", "junk", "encoded"}
    \/ /\ fields[i].kind = "length"
       /\ \E j \in 1..(i - 1) :
             fields[j].kind = "length" /\ fields[j].length # fields[i].length

DeclaredLength(fields) ==
    LET lengths == {fields[i].length : i \in {j \in 1..Len(fields) :
                                                fields[j].kind = "length"}}
    IN IF lengths = {} THEN 0 ELSE Min(lengths)

FieldsVerdict(fields) ==
    LET refused == {i \in 1..Len(fields) : FieldRefused(fields, i)} IN
    CASE refused = {} -> IF DeclaredLength(fields) > MaxBody
                         THEN "RequestTooLarge" ELSE "Ok"
      [] refused # {} -> IF fields[Min(refused)].kind = "encoded"
                         THEN "UnsupportedTransferEncoding"
                         ELSE "MalformedRequest"

\* The verdict on the first n bytes of request r, if nothing more comes.
Verdict(r, n) ==
    LET flaw == IF r.bad # 0 THEN r.bad ELSE r.head  \* where the head is decided
        full == r.head + DeclaredLength(r.fields) IN
    IF flaw > MaxHead
    THEN IF n < MaxHead THEN "IncompleteRequest" ELSE "RequestTooLarge"
    ELSE IF n < flaw THEN "IncompleteRequest"
    ELSE IF r.bad # 0 THEN "MalformedRequest"
    ELSE IF FieldsVerdict(r.fields) = "Ok" /\ n < full THEN "IncompleteRequest"
    ELSE FieldsVerdict(r.fields)

\* What accept_exchange() says of a request depends on the bytes the peer sent
\* and on nothing else: not on how the stream was cut into reads, not on bytes
\* of the body, or beyond it, that came in with the head. Only a reset or a stop
\* can put Transport in the place of that verdict.
VerdictIndependentOfReads ==
    pc \in {"exchange", "dropping"} =>
        \/ result \in {"Transport", "InvalidResponse", "WriteResponseFailed"}
        \/ result = Verdict(request, sent)

\* Whatever the peer sends, the codec holds at most the larger of the head limit
\* and the request it decided to read: a read never brings in more than that.
BufferBounded ==
    buffer <= MaxHead \/ (buffer <= needed /\ needed <= MaxHead + MaxBody)

\* A peer that closes or resets its connection ends the decoding of its request,
\* however little it had sent: accept_exchange() comes back.
PeerEndsDecode ==
    (pc \in {"head", "headRead", "body", "bodyRead"} /\ peer # "open")
        ~> (pc \in {"exchange", "idle"})
=============================================================================
