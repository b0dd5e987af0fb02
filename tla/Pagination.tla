---------------------------- MODULE Pagination ------------------------------
(***************************************************************************)
(* rpc/pagination.rs: how a leader hands out a response that does not fit  *)
(* in one message, and how a follower puts it together again.              *)
(*                                                                         *)
(* A serialized response is a sequence of bytes.  A message is the whole   *)
(* response, one page of it, an error, or null.  Base64 is kept as the     *)
(* bytes it decodes to and the characters they take on the wire.           *)
(***************************************************************************)
EXTENDS Integers, Sequences

CONSTANTS
    MARGIN,               \* what a response leaves free for the envelopes
    MAX_REASSEMBLY_TOTAL, \* the largest response a follower puts together
    Wrapper,              \* characters of the JSON-RPC response around a result
    EnvelopeSize,         \* characters of the page's own envelope
    None

ASSUME PaginationAssumption ==
    /\ {MARGIN, MAX_REASSEMBLY_TOTAL, Wrapper, EnvelopeSize} \subseteq Nat
    /\ Wrapper + EnvelopeSize <= MARGIN
    /\ None \notin Nat

Null == [form |-> "null"]
Error == [form |-> "error"]
Whole(bytes) == [form |-> "whole", bytes |-> bytes]

(***************************************************************************)
(* The leader.                                                             *)
(***************************************************************************)
Encode(bytes) == [chars |-> 4 * ((Len(bytes) + 2) \div 3), bytes |-> bytes]

Budget(limit) == IF limit < MARGIN THEN 0 ELSE limit - MARGIN

\* Mutant of RawBudget: the growth of base64 is forgotten.
RawBudgetEncoded(limit) == Budget(limit)

\* Three bytes for every four characters.
RawBudget(limit) == (Budget(limit) \div 4) * 3

\* Mutant of Slice: every page but the first repeats a byte.
SliceRepeating(full, offset, limit) ==
    LET end == offset + RawBudget(limit)
        last == IF end < Len(full) THEN end ELSE Len(full)
    IN  IF offset = 0 THEN SubSeq(full, 1, last) ELSE SubSeq(full, offset, last - 1)

Slice(full, offset, limit) ==
    LET end == offset + RawBudget(limit)
    IN  SubSeq(full, offset + 1, IF end < Len(full) THEN end ELSE Len(full))

\* respond; the offset is None when the caller sent no pagination parameter.
Respond(full, offset, limit) ==
    IF offset = None \/ Len(full) <= Budget(limit) THEN Whole(full)
    ELSE IF offset > Len(full) THEN Error
    ELSE [form |-> "page", total |-> Len(full), chunk |-> Encode(Slice(full, offset, limit))]

WireSize(message) ==
    CASE message.form = "whole" -> Wrapper + Len(message.bytes)
      [] message.form = "page"  -> Wrapper + EnvelopeSize + message.chunk.chars
      [] OTHER -> Wrapper

\* jsonrpsee: a response over the limit is replaced by an error.
OnWire(message, limit) == IF WireSize(message) > limit THEN Error ELSE message

(***************************************************************************)
(* The follower.                                                           *)
(***************************************************************************)
IsEnvelope(message) == message.form = "page"

NewReassembler(total) == [total |-> total, received |-> <<>>]

PushFails(r, page) ==
    \/ page.total # r.total
    \/ page.chunk.bytes = <<>> /\ Len(r.received) < r.total

Push(r, page) == [r EXCEPT !.received = @ \o page.chunk.bytes]

PushDone(r) == Len(r.received) >= r.total

FinishFails(r) == Len(r.received) # r.total
=============================================================================
