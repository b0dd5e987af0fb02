------------------------- MODULE LeaderClientProofs -------------------------
(***************************************************************************)
(* For every size of the responses, every limit of the leader, and any     *)
(* number of blocks, transactions and faults: pages fit on the wire, what  *)
(* is fetched is what was served, and forwarding executes nothing twice.   *)
(***************************************************************************)
EXTENDS LeaderClient, SequenceTheorems, TLAPS

(***************************************************************************)
(* Pages.                                                                  *)
(***************************************************************************)
Bytes == Nat \X Nat

\* A slice of the raw budget takes no more characters than the budget has.
LEMMA EncodedFits ==
    ASSUME NEW limit \in Nat
    PROVE  /\ Budget(limit) \in Nat
           /\ RawBudget(limit) \in Nat
           /\ \A n \in 0..RawBudget(limit) : 4 * ((n + 2) \div 3) <= Budget(limit)
<1>1. Budget(limit) \in Nat
  BY PaginationAssumption DEF Budget
<1>. DEFINE q == Budget(limit) \div 4
<1>2. q \in Nat /\ 4 * q <= Budget(limit)
  BY <1>1
<1>3. RawBudget(limit) = 3 * q
  BY <1>2 DEF RawBudget
<1>. HIDE DEF q
<1>4. ASSUME NEW n \in 0..(3 * q) PROVE (n + 2) \div 3 <= q
  BY <1>2
<1>5. ASSUME NEW n \in 0..(3 * q) PROVE 4 * ((n + 2) \div 3) <= 4 * q
  BY <1>2, <1>4
<1>. QED BY <1>1, <1>2, <1>3, <1>5

\* What Slice returns: the bytes from the offset on, as many as the raw budget allows.
LEMMA SliceIs ==
    ASSUME NEW full \in Seq(Bytes), NEW offset \in 0..Len(full), NEW limit \in Nat
    PROVE  \E e \in offset..Len(full) :
              /\ Slice(full, offset, limit) = SubSeq(full, offset + 1, e)
              /\ e - offset <= RawBudget(limit)
              /\ Len(Slice(full, offset, limit)) = e - offset
              /\ RawBudget(limit) > 0 /\ offset < Len(full) => e > offset
<1>. DEFINE end == offset + RawBudget(limit)
            e == IF end < Len(full) THEN end ELSE Len(full)
<1>1. RawBudget(limit) \in Nat
  BY EncodedFits, Zenon
<1>2. e \in offset..Len(full) /\ e - offset <= RawBudget(limit)
  BY <1>1
<1>3. Slice(full, offset, limit) = SubSeq(full, offset + 1, e)
  BY Zenon DEF Slice
<1>4. Len(SubSeq(full, offset + 1, e)) = e - offset
  BY <1>2
<1>5. RawBudget(limit) > 0 /\ offset < Len(full) => e > offset
  BY <1>1
<1>. QED BY <1>2, <1>3, <1>4, <1>5, Zenon

\* A page fits into the leader's own limit (respond): the server never replaces one by the
\* error of an oversized response, whatever the size of the response and the offset.
THEOREM PagesFit ==
    ASSUME NEW full \in Seq(Bytes), NEW offset \in Nat, NEW limit \in Limits
    PROVE  OnWire(Respond(full, offset, limit), limit) = Respond(full, offset, limit)
<1>. DEFINE message == Respond(full, offset, limit)
<1>1. limit \in Nat /\ offset # None /\ Len(full) \in Nat
  BY LeaderClientAssumption, PaginationAssumption
<1>2. MARGIN <= limit /\ Budget(limit) = limit - MARGIN /\ {MARGIN, Wrapper, EnvelopeSize} \subseteq Nat
  <2>1. RawBudget(limit) > 0
    BY LeaderClientAssumption, Zenon
  <2>2. Budget(limit) # 0
    BY <2>1 DEF RawBudget
  <2>. QED BY <1>1, <2>2, PaginationAssumption DEF Budget
<1>3. CASE Len(full) <= Budget(limit)
  <2>1. message = Whole(full)
    BY <1>3, Zenon DEF Respond
  <2>2. WireSize(Whole(full)) = Wrapper + Len(full)
    BY Zenon DEF WireSize, Whole
  <2>3. Wrapper + Len(full) <= limit
    BY <1>1, <1>2, <1>3, PaginationAssumption
  <2>. QED BY <1>1, <1>2, <2>1, <2>2, <2>3 DEF OnWire
<1>4. CASE ~(Len(full) <= Budget(limit)) /\ offset > Len(full)
  <2>1. message = Error
    BY <1>1, <1>4, Zenon DEF Respond
  <2>. QED BY <2>1, Zenon DEF OnWire
<1>5. CASE ~(Len(full) <= Budget(limit)) /\ ~(offset > Len(full))
  <2>. DEFINE slice == Slice(full, offset, limit)
  <2>1. offset \in 0..Len(full)
    BY <1>1, <1>5
  <2>2. Len(slice) \in 0..RawBudget(limit)
    <3>1. PICK e \in offset..Len(full) : e - offset <= RawBudget(limit) /\ Len(slice) = e - offset
      BY <1>1, <2>1, SliceIs, Zenon
    <3>2. RawBudget(limit) \in Nat
      BY <1>1, EncodedFits, Zenon
    <3>. QED BY <1>1, <2>1, <3>1, <3>2
  <2>3. message = [form |-> "page", total |-> Len(full), chunk |-> Encode(slice)]
    BY <1>1, <1>5, Zenon DEF Respond
  <2>. HIDE DEF slice, message
  <2>4. WireSize(message) = Wrapper + EnvelopeSize + 4 * ((Len(slice) + 2) \div 3)
    BY <2>3, Zenon DEF WireSize, Encode
  <2>5. 4 * ((Len(slice) + 2) \div 3) <= Budget(limit) /\ Len(slice) \in Nat
    BY <1>1, <2>2, EncodedFits
  <2>6. WireSize(message) <= limit
    BY <1>1, <1>2, <2>4, <2>5, PaginationAssumption
  <2>7. WireSize(message) \in Int
    BY <1>2, <2>4, <2>5
  <2>. QED BY <1>1, <2>6, <2>7 DEF OnWire, message
<1>. QED BY <1>3, <1>4, <1>5, Zenon

\* Consecutive pieces of a sequence put together.
LEMMA Pieces ==
    ASSUME NEW full \in Seq(Bytes), NEW k \in 0..Len(full), NEW e \in k..Len(full)
    PROVE  SubSeq(full, 1, k) \o SubSeq(full, k + 1, e) = SubSeq(full, 1, e)
<1>. DEFINE a == SubSeq(full, 1, k)
            b == SubSeq(full, k + 1, e)
            c == SubSeq(full, 1, e)
<1>1. a \in Seq(Bytes) /\ Len(a) = k /\ \A i \in 1..k : a[i] = full[i]
  OBVIOUS
<1>2. b \in Seq(Bytes) /\ Len(b) = e - k /\ \A i \in 1..(e - k) : b[i] = full[k + i]
  OBVIOUS
<1>3. c \in Seq(Bytes) /\ Len(c) = e /\ \A i \in 1..e : c[i] = full[i]
  OBVIOUS
<1>. HIDE DEF a, b, c
<1>4. /\ a \o b \in Seq(Bytes) /\ Len(a \o b) = e
      /\ \A i \in 1..e : (a \o b)[i] = IF i <= k THEN a[i] ELSE b[i - k]
  BY <1>1, <1>2, ConcatProperties
<1>5. ASSUME NEW i \in 1..e PROVE (a \o b)[i] = c[i]
  <2>1. CASE i <= k
    BY <1>1, <1>3, <1>4, <2>1
  <2>2. CASE i > k
    <3>0. ~(i <= k)
      BY <2>2
    <3>1. (a \o b)[i] = b[i - k]
      BY <1>4, <3>0, Zenon
    <3>2. PICK j \in 1..(e - k) : j = i - k /\ k + j = i
      BY <2>2
    <3>3. b[j] = full[i]
      BY <1>2, <3>2, Zenon
    <3>4. c[i] = full[i]
      BY <1>3, Zenon
    <3>5. (a \o b)[i] = b[j]
      BY <3>1, <3>2, Zenon
    <3>. QED BY <3>3, <3>4, <3>5, Zenon
  <2>3. i <= k \/ i > k
    OBVIOUS
  <2>. QED BY <2>1, <2>2, <2>3, Zenon
<1>6. a \o b = c
  BY <1>3, <1>4, <1>5, SeqEqual, Zenon
<1>. QED BY <1>6, Zenon DEF a, b, c

\* The bytes received so far are the first ones of the response.
Prefix(r, full) ==
    /\ r = [total |-> Len(full), received |-> SubSeq(full, 1, Len(r.received))]
    /\ Len(r.received) \in 0..Len(full)

\* A page of the response the reassembler has begun extends it (push): it is never refused,
\* and what was received stays the beginning of the response, whatever limits the pages had.
THEOREM PagesExtend ==
    ASSUME NEW full \in Seq(Bytes), NEW limit \in Limits,
           NEW r, Prefix(r, full), Len(r.received) < Len(full),
           ~(Len(full) <= Budget(limit))
    PROVE  LET page == Respond(full, Len(r.received), limit)
           IN  /\ IsEnvelope(page) /\ page.total = Len(full)
               /\ ~PushFails(r, page)
               /\ Prefix(Push(r, page), full)
               /\ Len(Push(r, page).received) > Len(r.received)
<1>. DEFINE k == Len(r.received)
            slice == Slice(full, k, limit)
            page == Respond(full, k, limit)
<1>1. k \in 0..Len(full) /\ k # None /\ limit \in Nat /\ RawBudget(limit) > 0
  BY LeaderClientAssumption, PaginationAssumption DEF Prefix
<1>2. PICK e \in k..Len(full) : slice = SubSeq(full, k + 1, e) /\ Len(slice) = e - k /\ e > k
  BY <1>1, SliceIs, Zenon
<1>3. page = [form |-> "page", total |-> Len(full), chunk |-> Encode(slice)]
  BY <1>1 DEF Respond
<1>4. page.form = "page" /\ page.total = Len(full) /\ page.chunk.bytes = slice
  BY <1>3 DEF Encode
<1>5. r.total = Len(full) /\ r.received = SubSeq(full, 1, k)
  BY DEF Prefix
<1>7. r.received \o slice = SubSeq(full, 1, e)
  BY <1>1, <1>2, <1>5, Pieces, Zenon
<1>8. Len(SubSeq(full, 1, e)) = e /\ e \in 0..Len(full)
  BY <1>1, <1>2
<1>. HIDE DEF k, slice, page
<1>6. slice # <<>>
  BY <1>1, <1>2
<1>9. Push(r, page) = [total |-> Len(full), received |-> SubSeq(full, 1, e)]
  <2>1. r = [total |-> Len(full), received |-> SubSeq(full, 1, k)]
    BY Zenon DEF Prefix, k
  <2>2. Push(r, page) = [r EXCEPT !.received = r.received \o slice]
    BY <1>4, Zenon DEF Push
  <2>3. Push(r, page) = [r EXCEPT !.received = SubSeq(full, 1, e)]
    BY <1>7, <2>2, Zenon
  <2>. QED BY <2>1, <2>3, Zenon
<1>10. Prefix(Push(r, page), full) /\ Len(Push(r, page).received) > k
  BY <1>2, <1>8, <1>9, <1>1 DEF Prefix
<1>. QED BY <1>4, <1>5, <1>6, <1>10, Zenon DEF IsEnvelope, PushFails, k, page

(***************************************************************************)
(* What is fetched.                                                        *)
(***************************************************************************)
Leaders ==
    [up : BOOLEAN, epoch : Nat, limit : Limits, pages : BOOLEAN, head : 0..Len(Sizes), nonce : Nat]

Heads(n) == [epoch : Nat, items : Seq(0..n)]

\* The type invariant of what fetching and the number fetcher depend on.
FetchTypes ==
    /\ leader \in Leaders
    /\ client \in [pc : {"new", "ready"}, ws : Nat]
    /\ fetched \in Seq(Seq(Bytes))
    /\ number \in [pc : {"first", "read", "poll", "again", "stopped"}, attempt : {1, 2},
                   shutdown : BOOLEAN]
    /\ known \in 0..leader.head
    /\ sub # None \/ number.pc \in {"read", "poll", "again"} => sub \in Heads(leader.head)

\* No response is taken for one of a block the leader has not announced, those taken are whole,
\* and the one being fetched is a beginning of its response that still lacks something.
FetchSound ==
    /\ Len(fetched) <= known
    /\ \A n \in DOMAIN fetched : fetched[n] = Response(n)
    /\ fetch # None => /\ Head1 <= known
                       /\ Prefix(fetch, Response(Head1))
                       /\ Len(fetch.received) < Len(Response(Head1))

FetchInv == FetchTypes /\ FetchSound

\* The response to a block is a sequence of bytes as long as its size says.
LEMMA Responses ==
    ASSUME NEW n \in 1..Len(Sizes)
    PROVE  Response(n) \in Seq(Bytes) /\ Len(Response(n)) = Sizes[n] /\ Sizes[n] \in Nat
<1>1. Sizes[n] \in Nat
  BY LeaderClientAssumption
<1>2. \A i \in 1..Sizes[n] : <<n, i>> \in Bytes
  BY <1>1 DEF Bytes
<1>. QED BY <1>1, <1>2 DEF Response

\* A beginning of a response that push reports as done is all of it, and finish accepts it.
LEMMA Complete ==
    ASSUME NEW r, NEW full \in Seq(Bytes), Prefix(r, full), PushDone(r)
    PROVE  ~FinishFails(r) /\ r.received = full
<1>1. r.total = Len(full) /\ Len(r.received) = Len(full)
  BY DEF Prefix, PushDone
<1>2. r.received = SubSeq(full, 1, Len(full))
  BY <1>1 DEF Prefix
<1>3. SubSeq(full, 1, Len(full)) = full
  OBVIOUS
<1>. QED BY <1>1, <1>2, <1>3, Zenon DEF FinishFails

\* The response of the next announced block put behind the whole ones before it.
LEMMA Extended ==
    ASSUME FetchTypes, FetchSound, Head1 <= known
    PROVE  /\ Head1 \in 1..Len(Sizes) /\ Head1 <= leader.head
           /\ Append(fetched, Response(Head1)) \in Seq(Seq(Bytes))
           /\ Len(Append(fetched, Response(Head1))) = Head1
           /\ \A n \in 1..Head1 : Append(fetched, Response(Head1))[n] = Response(n)
<1>1. Len(fetched) \in Nat /\ leader.head \in 0..Len(Sizes) /\ known \in 0..leader.head /\ Len(Sizes) \in Nat
  BY LeaderClientAssumption DEF FetchTypes, Leaders
<1>2. Head1 \in 1..Len(Sizes) /\ Head1 <= leader.head
  BY <1>1 DEF Head1
<1>3. Response(Head1) \in Seq(Bytes)
  BY <1>2, Responses, Zenon
<1>4. fetched \in Seq(Seq(Bytes)) /\ \A n \in DOMAIN fetched : fetched[n] = Response(n)
  BY Zenon DEF FetchTypes, FetchSound
<1>5. Head1 = Len(fetched) + 1
  BY Zenon DEF Head1
<1>. QED BY <1>1, <1>2, <1>3, <1>4, <1>5

\* What the leader answers for a block it has: the response, an error, or a page of it.
LEMMA AnswerIs ==
    ASSUME FetchTypes, NEW n \in 1..Len(Sizes), n <= leader.head, NEW offset \in Nat
    PROVE  \/ Answer(n, offset) = Error
           \/ Answer(n, offset) = Whole(Response(n))
           \/ /\ Answer(n, offset) = Respond(Response(n), offset, leader.limit)
              /\ ~(Len(Response(n)) <= Budget(leader.limit))
<1>1. leader.limit \in Limits /\ leader.pages \in BOOLEAN /\ leader.head \in Nat
  BY LeaderClientAssumption DEF FetchTypes, Leaders
<1>2. Response(n) \in Seq(Bytes)
  BY Responses, Zenon
<1>3. ~(n > leader.head)
  BY <1>1
<1>4. CASE ~leader.pages
  <2>1. Respond(Response(n), None, leader.limit) = Whole(Response(n))
    BY Zenon DEF Respond
  <2>. QED BY <1>3, <1>4, <2>1, Zenon DEF Answer, OnWire
<1>5. CASE leader.pages
  <2>1. Answer(n, offset) = Respond(Response(n), offset, leader.limit)
    BY <1>1, <1>2, <1>3, <1>5, PagesFit, Zenon DEF Answer
  <2>2. CASE Len(Response(n)) <= Budget(leader.limit)
    BY <2>1, <2>2, Zenon DEF Respond
  <2>. QED BY <2>1, <2>2, Zenon
<1>. QED BY <1>1, <1>4, <1>5, Zenon

\* TakePage with a page of the response: one more piece of it, or all of it.
LEMMA PageTaken ==
    ASSUME NEW full \in Seq(Bytes), NEW limit \in Limits,
           NEW r, Prefix(r, full), Len(r.received) < Len(full),
           ~(Len(full) <= Budget(limit)),
           TakePage(r, Respond(full, Len(r.received), limit))
    PROVE  \/ /\ fetched' = fetched
              /\ Prefix(fetch', full) /\ Len(fetch'.received) < Len(full)
           \/ fetch' = None /\ fetched' = Append(fetched, full)
<1>. DEFINE page == Respond(full, Len(r.received), limit)
            next == Push(r, page)
<1>1. ~PushFails(r, page) /\ Prefix(next, full)
  BY PagesExtend, Zenon
<1>2. CASE ~PushDone(next)
  <2>1. fetch' = next /\ fetched' = fetched
    BY <1>1, <1>2, Zenon DEF TakePage
  <2>2. Len(next.received) < Len(full)
    BY <1>1, <1>2 DEF PushDone, Prefix
  <2>. QED BY <1>1, <2>1, <2>2, Zenon
<1>3. CASE PushDone(next)
  <2>1. ~FinishFails(next) /\ next.received = full
    BY <1>1, <1>3, Complete, Zenon
  <2>. QED BY <1>1, <1>3, <2>1, Zenon DEF TakePage, Deserialized
<1>. QED BY <1>2, <1>3, Zenon

\* Every answer to a request leaves the state as FetchSound describes it.
LEMMA FetchKeeps ==
    ASSUME FetchInv, FetchFirst \/ FetchNext
    PROVE  /\ fetched' \in Seq(Seq(Bytes))
           /\ FetchSound'
<1>. USE DEF FetchInv
<1>1. known' = known /\ leader' = leader
  BY Zenon DEF FetchFirst, FetchNext
<1>2. Head1 <= known
  BY Zenon DEF FetchFirst, FetchNext, FetchSound
<1>. DEFINE full == Response(Head1)
<1>3. full \in Seq(Bytes) /\ Head1 \in 1..Len(Sizes) /\ Head1 <= leader.head
  BY <1>2, Extended, Responses, Zenon
<1>4. leader.limit \in Limits /\ Budget(leader.limit) \in Nat /\ Len(full) \in Nat
  <2>1. leader.limit \in Limits
    BY Zenon DEF FetchTypes, Leaders
  <2>2. leader.limit \in Nat
    BY <2>1, LeaderClientAssumption, Zenon
  <2>3. Len(full) \in Nat
    BY <1>3, LenProperties, Zenon
  <2>. QED BY <2>1, <2>2, <2>3, EncodedFits, Zenon
<1>. HIDE DEF full
<1>5. \/ fetched' = fetched /\ fetch' = None
      \/ /\ fetched' = fetched
         /\ Prefix(fetch', full) /\ Len(fetch'.received) < Len(full)
      \/ fetch' = None /\ fetched' = Append(fetched, full)
  <2>1. CASE FetchFirst
    <3>. DEFINE reply == Answer(Head1, 0)
    <3>1. \/ reply = Error
          \/ reply = Whole(full)
          \/ reply = Respond(full, 0, leader.limit) /\ ~(Len(full) <= Budget(leader.limit))
      BY <1>3, AnswerIs, Zenon DEF full
    <3>2. CASE reply = Error
      BY <2>1, <3>2 DEF FetchFirst, Error, IsEnvelope, Retry
    <3>3. CASE reply = Whole(full)
      <4>1. reply.form = "whole" /\ reply.bytes = full /\ ~IsEnvelope(reply)
        BY <3>3 DEF Whole, IsEnvelope
      <4>. HIDE DEF reply
      <4>2. Deserialized(reply.bytes)
        BY <2>1, <4>1, Zenon DEF FetchFirst, reply
      <4>. QED BY <4>1, <4>2, Zenon DEF Deserialized
    <3>4. CASE reply = Respond(full, 0, leader.limit) /\ ~(Len(full) <= Budget(leader.limit))
      <4>. DEFINE r == NewReassembler(Len(full))
      <4>1. Prefix(r, full) /\ Len(r.received) = 0 /\ 0 < Len(full)
        BY <1>3, <1>4, <3>4 DEF NewReassembler, Prefix
      <4>2. IsEnvelope(reply) /\ reply.total = Len(full)
        BY <1>3, <1>4, <3>4, <4>1, PagesExtend
      <4>. HIDE DEF r
      <4>3. \/ fetched' = fetched /\ fetch' = None
            \/ TakePage(r, Respond(full, Len(r.received), leader.limit))
        BY <2>1, <3>4, <4>1, <4>2, Zenon DEF FetchFirst, IsEnvelope, Retry, r
      <4>. QED BY <1>3, <1>4, <3>4, <4>1, <4>3, PageTaken, Zenon
    <3>. QED BY <3>1, <3>2, <3>3, <3>4, Zenon
  <2>2. CASE FetchNext
    <3>. DEFINE k == Len(fetch.received)
                reply == Answer(Head1, k)
    <3>1. Prefix(fetch, full) /\ k < Len(full) /\ k \in Nat
      BY <1>4, <2>2 DEF FetchNext, FetchSound, full, Prefix
    <3>2. \/ reply = Error
          \/ reply = Whole(full)
          \/ reply = Respond(full, k, leader.limit) /\ ~(Len(full) <= Budget(leader.limit))
      BY <1>3, <3>1, AnswerIs, Zenon DEF full
    <3>3. CASE reply = Error \/ reply = Whole(full)
      BY <2>2, <3>3 DEF FetchNext, Error, Whole, IsEnvelope, Retry
    <3>4. CASE reply = Respond(full, k, leader.limit) /\ ~(Len(full) <= Budget(leader.limit))
      <4>1. IsEnvelope(reply)
        BY <1>3, <1>4, <3>1, <3>4, PagesExtend, Zenon
      <4>2. TakePage(fetch, Respond(full, k, leader.limit))
        BY <2>2, <3>4, <4>1, Zenon DEF FetchNext
      <4>. QED BY <1>3, <1>4, <3>1, <3>4, <4>2, PageTaken, Zenon
    <3>. QED BY <3>2, <3>3, <3>4, Zenon
  <2>. QED BY <2>1, <2>2, Zenon
<1>6. CASE fetched' = fetched /\ fetch' = None
  BY <1>1, <1>6, Zenon DEF FetchTypes, FetchSound
<1>7. CASE /\ fetched' = fetched
           /\ Prefix(fetch', full) /\ Len(fetch'.received) < Len(full)
  BY <1>1, <1>2, <1>7, Zenon DEF FetchTypes, FetchSound, full, Head1
<1>8. CASE fetch' = None /\ fetched' = Append(fetched, full)
  BY <1>1, <1>2, <1>8, Extended DEF FetchSound, full
<1>. QED BY <1>5, <1>6, <1>7, <1>8, Zenon

\* A follower that has just started has received nothing.
LEMMA FetchInit == Init => FetchInv
<1>. SUFFICES ASSUME Init PROVE FetchInv
  BY Zenon
<1>1. Len(Sizes) \in Nat
  BY LeaderClientAssumption
<1>2. leader \in Leaders
  BY <1>1 DEF Init, Leaders
<1>3. leader.head = 0 /\ known = 0 /\ fetched = <<>> /\ fetch = None /\ sub = None
  BY DEF Init
<1>4. client \in [pc : {"new", "ready"}, ws : Nat] /\ number.pc = "first"
  BY Zenon DEF Init
<1>5. number \in [pc : {"first", "read", "poll", "again", "stopped"}, attempt : {1, 2}, shutdown : BOOLEAN]
  BY Zenon DEF Init
<1>. QED BY <1>2, <1>3, <1>4, <1>5 DEF FetchInv, FetchTypes, FetchSound

\* A head that grew keeps every head that was announced.
LEMMA HeadsGrow ==
    ASSUME NEW n \in Nat, NEW m \in Nat, n <= m, NEW s \in Heads(n)
    PROVE  s \in Heads(m)
<1>1. 0..n \subseteq 0..m
  OBVIOUS
<1>2. s.items \in Seq(0..m)
  BY <1>1 DEF Heads
<1>. QED BY <1>2, Zenon DEF Heads

\* Every step preserves the invariant of fetching.
LEMMA FetchNextInv == FetchInv /\ [Next]_vars => FetchInv'
<1>. SUFFICES ASSUME FetchInv, [Next]_vars PROVE FetchInv'
  BY Zenon
<1>. USE DEF FetchInv
<1>1. CASE LeaderMines
  <2>1. /\ leader' = [leader EXCEPT !.head = leader.head + 1] /\ leader.head < Len(Sizes)
        /\ UNCHANGED <<client, fetch, fetched, number, known>>
    BY <1>1, Zenon DEF LeaderMines
  <2>2. leader \in Leaders /\ Len(Sizes) \in Nat
    BY LeaderClientAssumption DEF FetchTypes
  <2>3. leader.head \in Nat /\ leader.head + 1 \in 0..Len(Sizes)
    BY <2>1, <2>2 DEF Leaders
  <2>6. leader' \in Leaders /\ leader'.head = leader.head + 1
    BY <2>1, <2>2, <2>3, Zenon DEF Leaders
  <2>4. CASE sub' = sub
    <3>1. sub \in Heads(leader.head) => sub \in Heads(leader.head + 1)
      BY <2>3, HeadsGrow
    <3>. QED BY <2>1, <2>3, <2>4, <2>6, <3>1 DEF FetchTypes, FetchSound, Head1
  <2>5. CASE Subscribed /\ sub' = [sub EXCEPT !.items = Append(sub.items, leader.head + 1)]
    <3>1. sub \in Heads(leader.head)
      BY <2>5, Zenon DEF Subscribed, FetchTypes
    <3>2. sub \in Heads(leader.head + 1)
      BY <2>3, <3>1, HeadsGrow
    <3>3. Append(sub.items, leader.head + 1) \in Seq(0..(leader.head + 1))
      BY <2>3, <3>2 DEF Heads
    <3>4. sub' \in Heads(leader.head + 1)
      BY <2>5, <3>2, <3>3, Zenon DEF Heads
    <3>. QED BY <2>1, <2>3, <2>6, <3>4 DEF FetchTypes, FetchSound, Head1
  <2>. QED BY <1>1, <2>4, <2>5, Zenon DEF LeaderMines
<1>2. CASE LeaderStops \/ LeaderStarts
  <2>1. leader' \in Leaders
    <3>1. leader \in Leaders
      BY Zenon DEF FetchTypes
    <3>2. CASE LeaderStops
      BY <3>1, <3>2, Zenon DEF LeaderStops, Leaders
    <3>3. CASE LeaderStarts
      <4>1. PICK limit \in Limits, pages \in BOOLEAN :
               leader' = [leader EXCEPT !.up = TRUE, !.epoch = leader.epoch + 1, !.limit = limit, !.pages = pages]
        BY <3>3, Zenon DEF LeaderStarts
      <4>2. leader.epoch + 1 \in Nat
        BY <3>1 DEF Leaders
      <4>3. leader' = [up |-> TRUE, epoch |-> leader.epoch + 1, limit |-> limit, pages |-> pages,
                       head |-> leader.head, nonce |-> leader.nonce]
        BY <3>1, <4>1, Zenon DEF Leaders
      <4>. QED BY <3>1, <4>2, <4>3, Zenon DEF Leaders
    <3>. QED BY <1>2, <3>2, <3>3, Zenon
  <2>2. leader'.head = leader.head /\ UNCHANGED followerVars
    BY <1>2, Zenon DEF LeaderStops, LeaderStarts, FetchTypes, Leaders
  <2>. QED BY <2>1, <2>2, Zenon DEF FetchTypes, FetchSound, Head1, followerVars
<1>3. CASE Connect
  BY <1>3, Zenon DEF Connect, FetchTypes, Leaders, FetchSound, Head1
<1>4. CASE FetchFirst \/ FetchNext
  <2>1. fetched' \in Seq(Seq(Bytes)) /\ FetchSound'
    BY <1>4, FetchKeeps, Zenon
  <2>2. UNCHANGED <<leader, client, number, sub, known>>
    BY <1>4, Zenon DEF FetchFirst, FetchNext
  <2>. QED BY <2>1, <2>2, Zenon DEF FetchTypes
<1>5. CASE FetchFails
  BY <1>5, Zenon DEF FetchFails, Retry, FetchTypes, FetchSound
<1>6. CASE SubscribeNewHeads
  <2>1. UNCHANGED <<leader, fetch, fetched, known>>
    BY <1>6, Zenon DEF SubscribeNewHeads
  <2>2. CASE SubscribeFails
    BY <1>6, <2>1, <2>2, Zenon DEF SubscribeNewHeads, SubscribeFails, FetchTypes, FetchSound, Head1
  <2>3. CASE Subscribes
    <3>1. sub' \in Heads(leader.head)
      BY <2>3 DEF Subscribes, Heads, FetchTypes, Leaders
    <3>. QED BY <2>1, <2>3, <3>1, Zenon DEF Subscribes, FetchTypes, FetchSound, Head1
  <2>4. CASE Reconnect
    BY <2>1, <2>4, Zenon DEF Reconnect, FetchTypes, Leaders, FetchSound, Head1
  <2>. QED BY <1>6, <2>2, <2>3, <2>4, Zenon DEF SubscribeNewHeads
<1>7. CASE ReadHead
  <2>1. sub \in Heads(leader.head) /\ sub.items # <<>>
    BY <1>7, Zenon DEF ReadHead, FetchTypes
  <2>2. Head(sub.items) \in 0..leader.head /\ Tail(sub.items) \in Seq(0..leader.head)
    <3>1. sub.items \in Seq(0..leader.head)
      BY <2>1, Zenon DEF Heads
    <3>. QED BY <2>1, <3>1, HeadTailProperties, Zenon
  <2>3. sub' \in Heads(leader.head)
    BY <1>7, <2>1, <2>2, Zenon DEF ReadHead, Heads
  <2>4. known' \in 0..leader.head /\ known' >= known /\ known \in Nat /\ known' \in Nat
    <3>1. /\ known' = IF Head(sub.items) > known THEN Head(sub.items) ELSE known
          /\ known \in 0..leader.head
      BY <1>7, Zenon DEF ReadHead, SetKnown, FetchTypes
    <3>. QED BY <2>2, <3>1
  <2>. QED BY <1>7, <2>3, <2>4 DEF ReadHead, FetchTypes, FetchSound, Head1
<1>8. CASE ReadFails
  BY <1>8, Zenon DEF ReadFails, FetchTypes, FetchSound, Head1
<1>9. CASE Poll
  <2>1. known' \in 0..leader.head /\ known' >= known /\ known \in Nat /\ known' \in Nat
    BY <1>9, LeaderClientAssumption DEF Poll, SetKnown, FetchTypes, Leaders
  <2>. QED BY <1>9, <2>1 DEF Poll, FetchTypes, FetchSound, Head1
<1>10. CASE Shutdown \/ NumberStops
  BY <1>10, Zenon DEF Shutdown, NumberStops, FetchTypes, FetchSound, Head1
<1>11. CASE \E t \in Txs : Send(t) \/ ForwardAnswered(t) \/ ForwardFails(t)
  BY <1>11 DEF Send, ForwardAnswered, ForwardFails, FetchTypes, FetchSound, Head1
<1>12. ASSUME NEW t \in Txs, LeaderExecutes(t) PROVE FetchInv'
  <2>1. leader' \in Leaders
    <3>1. leader \in Leaders /\ leader.nonce \in Nat
      BY Zenon DEF FetchTypes, Leaders
    <3>2. PICK m \in Nat : leader' = [leader EXCEPT !.nonce = m]
      BY <1>12, <3>1 DEF LeaderExecutes
    <3>. QED BY <3>1, <3>2, Zenon DEF Leaders
  <2>2. leader'.head = leader.head /\ UNCHANGED <<client, fetch, fetched, number, sub, known>>
    BY <1>12, Zenon DEF LeaderExecutes, FetchTypes, Leaders
  <2>. QED BY <2>1, <2>2, Zenon DEF FetchTypes, FetchSound, Head1
<1>13. CASE UNCHANGED vars
  BY <1>13, Zenon DEF vars, FetchTypes, FetchSound, Head1
<1>. QED
  BY <1>1, <1>2, <1>3, <1>4, <1>5, <1>6, <1>7, <1>8, <1>9, <1>10, <1>11, <1>12, <1>13, Zenon
  DEF Next, FetchStep, NumberStep

\* What the importer deserializes is what the leader serialized (FetchedWhole), for every size of
\* the responses and every limit of the leader (fetch_serialized_response, Reassembler).
THEOREM Fetched == Spec => []FetchedWhole
<1>1. FetchInv => FetchedWhole
  <2>. SUFFICES ASSUME FetchInv PROVE FetchedWhole
    BY Zenon
  <2>1. Len(fetched) \in Nat /\ known \in 0..leader.head /\ leader.head \in Nat
    BY LeaderClientAssumption DEF FetchInv, FetchTypes, Leaders
  <2>. QED BY <2>1 DEF FetchInv, FetchSound, FetchedWhole
<1>. QED BY <1>1, FetchInit, FetchNextInv, PTL DEF Spec

(***************************************************************************)
(* What is forwarded.                                                      *)
(***************************************************************************)
\* The leader has executed exactly the transactions below its nonce, each of them once.
ForwardInv ==
    /\ leader \in Leaders
    /\ send \in [Txs -> [pc : {"idle", "forwarded", "answered"},
                         answer : {"none", "hash", "LeaderFailed", "ForwardToLeaderFailed"},
                         accepted : {0, 1}]]
    /\ \A t \in Txs : /\ send[t].accepted = 1 <=> t < leader.nonce
                      /\ send[t].answer = "hash" => t < leader.nonce

\* Before the first call nothing has been executed for a follower.
LEMMA ForwardInit == Init => ForwardInv
<1>. SUFFICES ASSUME Init PROVE ForwardInv
  BY Zenon
<1>1. leader \in Leaders /\ leader.nonce = 1
  <2>1. leader \in Leaders
    BY FetchInit, Zenon DEF FetchInv, FetchTypes
  <2>2. leader.nonce = 1
    BY DEF Init
  <2>. QED BY <2>1, <2>2, Zenon
<1>2. \A t \in Txs : send[t] = [pc |-> "idle", answer |-> "none", accepted |-> 0] /\ ~(t < 1)
  BY LeaderClientAssumption DEF Init
<1>3. send = [t \in Txs |-> [pc |-> "idle", answer |-> "none", accepted |-> 0]]
  BY Zenon DEF Init
<1>. QED BY <1>1, <1>2, <1>3 DEF ForwardInv

\* Every step keeps the leader's nonce in step with what it executed.
LEMMA ForwardNextInv == ForwardInv /\ FetchInv' /\ [Next]_vars => ForwardInv'
<1>. SUFFICES ASSUME ForwardInv, leader' \in Leaders, [Next]_vars PROVE ForwardInv'
  BY Zenon DEF FetchInv, FetchTypes
<1>1. ASSUME send' = send, leader'.nonce = leader.nonce PROVE ForwardInv'
  BY <1>1, Zenon DEF ForwardInv
<1>2. CASE LeaderMines \/ LeaderStops \/ LeaderStarts
  BY <1>1, <1>2, Zenon DEF LeaderMines, LeaderStops, LeaderStarts, followerVars, ForwardInv, Leaders
<1>3. CASE Connect \/ FetchStep \/ NumberStep \/ Shutdown \/ UNCHANGED vars
  BY <1>1, <1>3, Zenon DEF Connect, FetchStep, FetchFirst, FetchNext, FetchFails, NumberStep,
     SubscribeNewHeads,
       ReadHead, ReadFails, Poll, NumberStops, Shutdown, vars
<1>4. ASSUME NEW t \in Txs, Send(t) \/ ForwardAnswered(t) PROVE ForwardInv'
  BY <1>4 DEF Send, ForwardAnswered, ForwardInv
<1>5. ASSUME NEW t \in Txs, ForwardFails(t) PROVE ForwardInv'
  BY <1>5, Zenon DEF ForwardFails, Told, ForwardInv
<1>6. ASSUME NEW t \in Txs, LeaderExecutes(t) PROVE ForwardInv'
  <2>1. leader.nonce \in Nat /\ leader'.nonce = IF leader.nonce = t THEN leader.nonce + 1 ELSE leader.nonce
    BY <1>6, Zenon DEF ForwardInv, Leaders, LeaderExecutes
  <2>2. \A u \in Txs : u \in Nat
    BY LeaderClientAssumption, Zenon
  <2>3. CASE leader.nonce = t
    <3>1. send' = [send EXCEPT ![t] = [pc |-> "answered", answer |-> "hash", accepted |-> send[t].accepted + 1]]
      BY <1>6, <2>3, Zenon DEF LeaderExecutes
    <3>2. send[t].accepted = 0
      BY <2>1, <2>2, <2>3 DEF ForwardInv
    <3>3. send' = [send EXCEPT ![t] = [pc |-> "answered", answer |-> "hash", accepted |-> 1]]
      BY <3>1, <3>2
    <3>4. \A u \in Txs : u < leader'.nonce <=> u < leader.nonce \/ u = t
      BY <2>1, <2>2, <2>3
    <3>. QED BY <3>3, <3>4, Zenon DEF ForwardInv
  <2>4. CASE leader.nonce # t
    <3>1. send' = [send EXCEPT ![t] = [pc |-> "answered", answer |-> "LeaderFailed", accepted |-> send[t].accepted]]
      BY <1>6, <2>4, Zenon DEF LeaderExecutes
    <3>2. leader'.nonce = leader.nonce
      BY <2>1, <2>4, Zenon
    <3>. QED BY <3>1, <3>2, Zenon DEF ForwardInv
  <2>. QED BY <2>3, <2>4, Zenon
<1>. QED BY <1>2, <1>3, <1>4, <1>5, <1>6, Zenon DEF Next

\* No transaction that a follower forwards is executed twice, and a hash is handed out only for
\* one that was executed (ForwardingSound), for any number of transactions, repetitions and
\* lost answers (send_raw_transaction_to_leader).
THEOREM Forwarded == Spec => []ForwardingSound
<1>1. ForwardInv => ForwardingSound
  BY DEF ForwardInv, ForwardingSound
<1>. QED BY <1>1, FetchInit, FetchNextInv, ForwardInit, ForwardNextInv, PTL DEF Spec
=============================================================================
