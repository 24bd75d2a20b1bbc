----------------------------- MODULE ProofStream -----------------------------
(***************************************************************************)
(* One proof on its way to a worker: internal/workrpc/proofs.go (serve,    *)
(* readInserted, pickCanaryBit, copyFlipping) over the framing of          *)
(* internal/akdtree (ranges.go, decode.go).  Which requests are canaries,  *)
(* and who answers for them, is WorkChannel's.                             *)
(*                                                                         *)
(* An encoding is a sequence of units: the key of a field, the size of a   *)
(* length-delimited one, a number, or a unit of payload (bytes of label_val*)
(* or of the value).  Offsets count from zero, as the code's do.           *)
(***************************************************************************)
EXTENDS Integers, Sequences, FiniteSets, SequencesExt, FiniteSetsExt

CONSTANTS LabelUnits, ValueUnits,   \* the longest label and the one size of a value
          ScanLimit,                \* insertedScanLimit
          ReadSizes,                   \* bound: what one Read may return
          IdleReads,                \* reads of nothing before the scan gives up (8)
          MaxInserted, MaxUnchanged \* bounds: elements of a proof

ASSUME StreamAssumption ==
    /\ LabelUnits \in Nat /\ ValueUnits \in Nat /\ ScanLimit \in Nat /\ IdleReads \in Nat
    /\ MaxInserted \in Nat /\ MaxUnchanged \in Nat
    /\ ReadSizes \in SUBSET (Nat \ {0}) /\ ReadSizes # {} /\ IsFiniteSet(ReadSizes)

VARIABLES
    encoding,  \* the operator's bytes
    declared,  \* whether it declared their number
    canary,    \* whether this request is one
    stage,     \* "scan", "copy", "sent", "cut"
    buffered,  \* units read ahead: the length of head
    idle,      \* empty reads in a row
    span,      \* insertedSpan
    aim,       \* [at, region, aimed]: the unit to flip
    sent,      \* what the worker has received
    broken     \* the operator's connection is gone
streamVars == <<encoding, declared, canary, stage, buffered, idle, span, aim, sent, broken>>

-----------------------------------------------------------------------------
(* Units and encodings.                                                    *)
Key(field, wire) == [kind |-> "key", n |-> 8 * field + wire]
Size(n) == [kind |-> "size", n |-> n]
Number(n) == [kind |-> "number", n |-> n]
Payload == [kind |-> "payload", n |-> 0]
Delimited(field, body) == <<Key(field, 2), Size(Len(body))>> \o body
Units(n) == [i \in 1..n |-> Payload]

(* SingleAppendOnlyProof; an empty label_val is not written.               *)
ElementOf(field, label) ==
    Delimited(field,
        Delimited(1, (IF label = 0 THEN <<>> ELSE Delimited(1, Units(label)))
                     \o <<Key(2, 0), Number(label)>>)
        \o Delimited(2, Units(ValueUnits)))
Numbered(units) ==
    [i \in DOMAIN units |-> IF units[i].kind = "payload" THEN [units[i] EXCEPT !.n = i] ELSE units[i]]
ProofOf(i, u) ==
    Numbered(FlattenSeq([k \in DOMAIN i |-> ElementOf(1, i[k])] \o [k \in DOMAIN u |-> ElementOf(2, u[k])]))

LabelLengths == 0..LabelUnits
Proofs == {ProofOf(i, u) : i \in BoundedSeq(LabelLengths, MaxInserted), u \in BoundedSeq(LabelLengths, MaxUnchanged)}

(* Front matter the scan does not know: a number, another field.           *)
Foreign == {<<Key(3, 0), Number(1)>> \o ElementOf(1, 1), Numbered(ElementOf(3, 1) \o ElementOf(1, 1)),
            <<Key(1, 7)>> \o ElementOf(1, 1)}

(* A flipped bit of payload is another payload; of framing, framing that   *)
(* is not the operator's.                                                  *)
Flipped(u) == IF u.kind = "payload" THEN [u EXCEPT !.n = -@] ELSE [kind |-> "garbled", n |-> u.n]

-----------------------------------------------------------------------------
(* nextRecord: the record at pos, or why there is none.                    *)
Partial == [state |-> "partial", field |-> 0, wire |-> 0, start |-> 0, body |-> 0, end |-> 0]
Malformed == [Partial EXCEPT !.state = "malformed"]

NextRecord(data, pos) ==
    LET left == Len(data) - pos
        key == data[pos + 1]
        size == data[pos + 2]
        framed(body, end) == [state |-> "whole", field |-> key.n \div 8, wire |-> key.n % 8,
                              start |-> pos, body |-> body, end |-> end]
    IN IF left = 0 THEN Partial
       ELSE IF key.kind # "key" \/ key.n % 8 \notin {0, 1, 2, 5} THEN Malformed
       ELSE IF left = 1 THEN Partial
       ELSE IF key.n % 8 # 2 THEN framed(pos + 2, pos + 2)
       ELSE IF size.kind # "size" THEN Malformed
       ELSE IF left - 2 < size.n THEN Partial
       ELSE framed(pos + 2, pos + 2 + size.n)

(* The records from one offset to another; the last may be none.           *)
Frames(data, from, to) ==
    LET frames[at \in 0 .. Len(data)] ==
            LET r == NextRecord(data, at)
            IN IF at >= to THEN <<>> ELSE IF r.state # "whole" THEN <<r>> ELSE <<r>> \o frames[r.end]
    IN frames[from]
WellFramed(frames) == \A i \in DOMAIN frames : frames[i].state = "whole"

(* The length-delimited records of a field, in order.                      *)
OfField(frames, field) ==
    LET of[n \in 0 .. Len(frames)] ==
            IF n = Len(frames) THEN <<>>
            ELSE (IF frames[n + 1].field = field /\ frames[n + 1].wire = 2 THEN <<frames[n + 1]>> ELSE <<>>) \o of[n + 1]
    IN of[0]

(* FieldRanges: where a field lies, adjacent records taken as one.         *)
FieldRanges(data, field) ==
    LET frames == Frames(data, 0, Len(data))
        ranges[n \in 0 .. Len(frames)] ==
            LET out == ranges[n - 1]
                r == frames[n]
            IN IF n = 0 THEN <<>>
               ELSE IF r.field # field THEN out
               ELSE IF out # <<>> /\ Last(out)[2] = r.start THEN Append(Front(out), <<Last(out)[1], r.end>>)
               ELSE Append(out, <<r.start, r.end>>)
    IN ranges[Len(frames)]

(* ScanLeading                                                             *)
ScanLeading(data, field, from) ==
    LET scan[at \in 0 .. Len(data)] ==
            LET r == NextRecord(data, at)
                stop(ended, ok) == [end |-> at, ended |-> ended, ok |-> ok]
            IN IF r.state = "partial" THEN stop(FALSE, TRUE)
               ELSE IF r.state = "malformed" \/ r.wire # 2 THEN stop(FALSE, FALSE)
               ELSE IF r.field # field THEN stop(TRUE, TRUE)
               ELSE scan[r.end]
    IN scan[from]

(* PayloadOffset: the offsets of a field's payload, of which a canary takes*)
(* any; the framing is not payload.                                        *)
InField(data, from, to, field) == {r \in ToSet(Frames(data, from, to)) : r.field = field /\ r.wire = 2}
OffsetsOf(records) == UNION {r.body .. r.end - 1 : r \in records}
PayloadOffsets(data, field) ==
    UNION {OffsetsOf(InField(data, r.body, r.end, 2))
             \cup UNION {OffsetsOf(InField(data, e.body, e.end, 1)) : e \in InField(data, r.body, r.end, 1)} :
           r \in InField(data, 0, Len(data), field)}

-----------------------------------------------------------------------------
(* Decode: both sets of elements, or none.                                 *)
Undecodable == [ok |-> FALSE, label |-> <<>>, len |-> 0, value |-> <<>>]
BodyOf(data, r) == SubSeq(data, r.body + 1, r.end)
LastBody(data, of) == IF of = <<>> THEN <<>> ELSE BodyOf(data, Last(of))
LastNumber(data, frames) ==
    LET lens == {i \in DOMAIN frames : frames[i].field = 2 /\ frames[i].wire = 0}
    IN IF lens = {} THEN 0 ELSE data[frames[Max(lens)].end].n

DecodeLabel(b) ==
    LET frames == Frames(b, 0, Len(b))
        val == LastBody(b, OfField(frames, 1))
    IN IF ~WellFramed(frames) \/ Len(val) > LabelUnits THEN Undecodable
       ELSE [ok |-> TRUE, label |-> val, len |-> LastNumber(b, frames), value |-> <<>>]

DecodeElement(body) ==
    LET frames == Frames(body, 0, Len(body))
        labels == OfField(frames, 1)
        values == OfField(frames, 2)
        label == DecodeLabel(LastBody(body, labels))
        value == LastBody(body, values)
    IN IF WellFramed(frames) /\ labels # <<>> /\ values # <<>> /\ label.ok /\ Len(value) = ValueUnits
       THEN [label EXCEPT !.value = value] ELSE Undecodable

Decode(data) ==
    LET frames == Frames(data, 0, Len(data))
        elements(f) == LET of == OfField(frames, f) IN [i \in DOMAIN of |-> DecodeElement(BodyOf(data, of[i]))]
    IN [ok |-> /\ WellFramed(frames)
               /\ \A i \in DOMAIN frames : frames[i].wire = 2 => DecodeElement(BodyOf(data, frames[i])).ok,
        inserted |-> elements(1), unchanged |-> elements(2)]

-----------------------------------------------------------------------------
Lookahead == SubSeq(encoding, 1, buffered)
NoAim == [at |-> -1, region |-> "none", aimed |-> FALSE]

StreamInit ==
    /\ encoding \in Proofs \cup Foreign
    /\ declared \in BOOLEAN
    /\ canary \in BOOLEAN
    /\ stage = "scan" /\ buffered = 0 /\ idle = 0
    /\ span = [end |-> 0, capped |-> FALSE, known |-> TRUE]
    /\ aim = NoAim /\ sent = <<>> /\ broken = FALSE

(* readInserted, from one Read to the next.  The scan goes on where it     *)
(* stopped.  Variant: where the buffer stopped.                            *)
ResumeAtTheEnd == IF buffered > span.end THEN buffered - 1 ELSE span.end
ResumeAt == span.end
Framed(upTo) == ScanLeading(SubSeq(encoding, 1, upTo), 1, ResumeAt)

AtLimit(end) == end >= ScanLimit

Unaimable == [end |-> 0, capped |-> FALSE, known |-> FALSE]
ScanFurther(upTo) ==
    LET s == Framed(upTo)
    IN /\ span' = IF ~s.ok THEN Unaimable
                  ELSE [span EXCEPT !.end = s.end, !.capped = ~s.ended /\ AtLimit(s.end)]
       /\ stage' = IF ~s.ok \/ s.ended \/ AtLimit(s.end) THEN "aim" ELSE "scan"

ReadSome ==
    /\ stage = "scan" /\ ~broken /\ buffered < Len(encoding)
    /\ \E n \in ReadSizes :
         LET upTo == Min({buffered + n, Len(encoding)})
         IN buffered' = upTo /\ ScanFurther(upTo)
    /\ idle' = 0
    /\ UNCHANGED <<encoding, declared, canary, aim, sent, broken>>

ReadNothing ==
    /\ stage = "scan" /\ ~broken /\ buffered < Len(encoding)
    /\ idle' = idle + 1
    /\ stage' = IF idle' < IdleReads THEN "scan" ELSE "aim"
    /\ UNCHANGED <<encoding, declared, canary, buffered, span, aim, sent, broken>>

ReadFails ==
    /\ stage = "scan" /\ (broken \/ buffered = Len(encoding))
    /\ stage' = "aim"
    /\ UNCHANGED <<encoding, declared, canary, buffered, idle, span, aim, sent, broken>>

Breaks ==
    /\ ~broken /\ stage \in {"scan", "copy"}
    /\ broken' = TRUE
    /\ UNCHANGED <<encoding, declared, canary, stage, buffered, idle, span, aim, sent>>

-----------------------------------------------------------------------------
(* pickCanaryBit: three in four aim at the payload of what was framed as   *)
(* inserted, the fourth falls anywhere.  Without a size it is the first.   *)
Region(at) ==
    CASE ~span.known -> "unknown"
      [] at < span.end -> "inserted"
      [] span.capped -> "past the scan"
      [] OTHER -> "unchanged"

Aimed ==
    IF span.known /\ span.end > 0
    THEN {[at |-> at, region |-> "inserted", aimed |-> TRUE] : at \in PayloadOffsets(SubSeq(Lookahead, 1, span.end), 1)}
    ELSE {}
Anywhere ==
    {[at |-> at, region |-> Region(at), aimed |-> FALSE] :
        at \in IF declared THEN 0..(Len(encoding) - 1) ELSE {0}}

Aim ==
    /\ stage = "aim"
    /\ stage' = "copy"
    /\ IF canary THEN aim' \in Aimed \cup Anywhere ELSE UNCHANGED aim
    /\ UNCHANGED <<encoding, declared, canary, buffered, idle, span, sent, broken>>

(* The front that was read, and what is still to come.                     *)
Outgoing == Lookahead \o SubSeq(encoding, buffered + 1, Len(encoding))

(* copyFlipping and io.Copy: a broken fetch still gives what was buffered. *)
Copy ==
    /\ stage = "copy"
    /\ LET available == IF broken THEN Min({buffered, Len(Outgoing)}) ELSE Len(Outgoing)
           pos == Len(sent)
       IN IF pos < available
          THEN /\ \E n \in ReadSizes :
                    sent' = sent \o [i \in 1..Min({n, available - pos}) |->
                                        IF pos + i - 1 = aim.at THEN Flipped(Outgoing[pos + i])
                                        ELSE Outgoing[pos + i]]
               /\ UNCHANGED stage
          ELSE /\ stage' = IF broken THEN "cut" ELSE "sent"
               /\ UNCHANGED sent
    /\ UNCHANGED <<encoding, declared, canary, buffered, idle, span, aim, broken>>

StreamNext == ReadSome \/ ReadNothing \/ ReadFails \/ Breaks \/ Aim \/ Copy
StreamSpec == StreamInit /\ [][StreamNext]_streamVars

-----------------------------------------------------------------------------
(* What a worker receives is the operator's proof, unit for unit, but for  *)
(* the one a canary flips: the look ahead loses nothing, whatever it met   *)
(* (readInserted, "this must not be able to lose part of a proof").        *)
NothingIsLost ==
    /\ \A i \in DOMAIN sent :
         /\ i <= Len(encoding)
         /\ sent[i] = (IF canary /\ i - 1 = aim.at THEN Flipped(encoding[i]) ELSE encoding[i])
    /\ stage = "sent" => Len(sent) = Len(encoding)

(* A scan taken up again after every read stands where one over the whole  *)
(* prefix would, and in a proof read to the end of the run that is where   *)
(* FieldRanges puts the field: between records, however the reads fell     *)
(* (ScanLeading, "costs one pass over the prefix in total").               *)
ResumedScanIsTheScan ==
    /\ encoding \in Proofs => span.known
    /\ span.known =>
      /\ span.end = ScanLeading(Lookahead, 1, 0).end
      /\ (stage = "sent" /\ ~span.capped /\ idle < IdleReads /\ encoding \in Proofs) =>
            FieldRanges(encoding, 1) = (IF span.end = 0 THEN <<>> ELSE <<<<0, span.end>>>>)

(* A canary that was aimed is a proof that still decodes, with every       *)
(* element there, the previous tree untouched and one inserted element     *)
(* not the operator's: only doing the work tells (pickCanaryBit).          *)
CanaryStillDecodes ==
    (aim.aimed /\ stage = "sent" /\ encoding \in Proofs) =>
      LET good == Decode(encoding)
          bad == Decode(sent)
      IN /\ bad.ok
         /\ bad.unchanged = good.unchanged
         /\ Len(bad.inserted) = Len(good.inserted)
         /\ Cardinality({i \in DOMAIN good.inserted : bad.inserted[i] # good.inserted[i]}) = 1

(* The region the log names is the one the bit fell in: a canary in        *)
(* inserted that came back verified accuses of another thing than one in   *)
(* unchanged (serve, "The region is what separates the two failures").     *)
(* A source that idled, or broke, leaves a shorter run than there is.      *)
RegionIsTrue ==
    (canary /\ stage = "sent" /\ encoding \in Proofs /\ idle < IdleReads) =>
      LET field == {r \in ToSet(Frames(encoding, 0, Len(encoding))) :
                      r.start <= aim.at /\ aim.at < r.end}
      IN /\ aim.region = "inserted" => \A r \in field : r.field = 1
         /\ aim.region = "unchanged" => \A r \in field : r.field = 2

(* What is held of a proof is bounded whatever its size: the limit, the    *)
(* record that straddles it and one read (insertedScanLimit).              *)
HeldIsBounded ==
    encoding \in Proofs =>
      buffered < ScanLimit + Len(ElementOf(1, LabelUnits)) + Max(ReadSizes)

(* A proof streamed to a worker arrives whole, or with the one bit flipped *)
(* that a canary means to flip, however the reads fall and within the      *)
(* memory allowed: the five above.                                         *)
StreamIsWhole ==
    /\ NothingIsLost /\ ResumedScanIsTheScan /\ CanaryStillDecodes
    /\ RegionIsTrue /\ HeldIsBounded
=============================================================================
