------------------------------- MODULE WireFormat -------------------------------
(***************************************************************************)
(* fixgateway/fix/message.py and the integrity checks of                   *)
(* fixgateway/fix/validator.py: a message is encoded with its BodyLength   *)
(* and CheckSum, a byte of it may be damaged on the way, and it is decoded *)
(* and checked.  There are two checkers: validate_wire_integrity reads the *)
(* bytes (market data uses it) and validate the decoded fields.            *)
(*                                                                         *)
(* A message is the sequence of its fields, in the order of the dict; text *)
(* is a sequence of byte values.                                           *)
(***************************************************************************)
EXTENDS Integers, Sequences, FiniteSets, SequencesExt

CONSTANTS
    Originals,       \* what is encoded: sequences of [tag, value], tags distinct
    StrayBytes      \* what a damaged byte may become

ASSUME StrayBytesAssumption == StrayBytes \subseteq 0 .. 255

VARIABLES
    message,        \* what was encoded
    wire,           \* its bytes, as sent or as received
    transfer        \* "sent", then "intact" or "damaged"

wireVars == <<message, wire, transfer>>

Byte == 0 .. 255
SOH == 1
EqualSign == 61
Digit == 48 .. 57
Space == {9, 10, 11, 12, 13, 28, 29, 30, 31, 32}
Signs == {43, 45}
Underscore == 95

DigitOf(n) == 48 + n

Decimal[n \in Nat] ==
    IF n < 10 THEN <<DigitOf(n)>> ELSE Append(Decimal[n \div 10], DigitOf(n % 10))

ThreeDigits(n) == <<DigitOf(n \div 100), DigitOf((n \div 10) % 10), DigitOf(n % 10)>>

Total(data) == FoldLeft(+, 0, data)

NumberOf(digits) == FoldLeft(LAMBDA n, digit : 10 * n + (digit - 48), 0, digits)

Everywhere(data, set) == \A i \in DOMAIN data : data[i] \in set

(* Where a pattern starts in data.                                         *)
Starts(data, pattern) ==
    {i \in 1 .. Len(data) - Len(pattern) + 1 :
        SubSeq(data, i, i + Len(pattern) - 1) = pattern}

CheckSumMarker == <<SOH, 49, 48, EqualSign>>
BodyLengthMarker == <<SOH, 57, EqualSign>>

(* Mutant: the BeginString is not summed.                                  *)
CalculatedCheckSumOfBody(data) ==
    LET nines == Starts(data, BodyLengthMarker)
        markers == Starts(data, CheckSumMarker)
    IN  Total(SubSeq(data, IF nines = {} THEN 1 ELSE Min(nines),
                     IF markers = {} THEN Len(data) ELSE Min(markers))) % 256

(* calculate_checksum: up to the first tag 10, if there is one.            *)
CalculatedCheckSum(data) ==
    LET markers == Starts(data, CheckSumMarker)
    IN  Total(IF markers = {} THEN data ELSE SubSeq(data, 1, Min(markers))) % 256

NoLength == -1

(* calculate_body_length: from the field after the first tag 9 to the last *)
(* tag 10, NoLength where it raises.                                       *)
CalculatedBodyLength(data) ==
    LET nines == Starts(data, BodyLengthMarker)
        ends == {i \in DOMAIN data : data[i] = SOH /\ \E nine \in nines : Min(nines) < i}
        tens == Starts(data, CheckSumMarker)
    IN  IF nines = {} \/ ends = {} \/ tens = {} THEN NoLength
        ELSE IF Max(tens) <= Min(ends) THEN NoLength
        ELSE Max(tens) - Min(ends)

-------------------------------------------------------------------------------
TagsOf(fields) == {fields[i].tag : i \in DOMAIN fields}

ValueOf(fields, tag) == fields[CHOOSE i \in DOMAIN fields : fields[i].tag = tag].value

Written(tag, value) == Decimal[tag] \o <<EqualSign>> \o value \o <<SOH>>

HeaderOrder == <<35, 49, 56, 34, 52>>

Computed == {8, 9, 10}

(* The fields between tags 9 and 10, in the order encode writes them.      *)
BodyFields(fields) ==
    LET header == SelectSeq(HeaderOrder, LAMBDA tag : tag \in TagsOf(fields))
        rest == SelectSeq(fields, LAMBDA f : f.tag \notin Computed \cup ToSet(HeaderOrder))
    IN  [i \in DOMAIN header |-> [tag |-> header[i], value |-> ValueOf(fields, header[i])]]
            \o rest

BodyText(fields) ==
    FlattenSeq([i \in DOMAIN fields |-> Written(fields[i].tag, fields[i].value)])

FIX44 == <<70, 73, 88, 46, 52, 46, 52>>

BeginString(fields) == IF 8 \in TagsOf(fields) THEN ValueOf(fields, 8) ELSE FIX44

Prefix(fields) ==
    LET body == BodyText(BodyFields(fields))
    IN  Written(8, BeginString(fields)) \o Written(9, Decimal[Len(body)]) \o body

Encode(fields) ==
    Prefix(fields) \o Written(10, ThreeDigits(CalculatedCheckSum(Prefix(fields))))

-------------------------------------------------------------------------------
(* raw[:-1].split(b"\x01"), of data that ends with SOH.                    *)
Chunks(data) ==
    Front(FoldLeft(LAMBDA chunks, byte :
                        IF byte = SOH THEN Append(chunks, <<>>)
                        ELSE Append(Front(chunks), Append(Last(chunks), byte)),
                   << <<>> >>, data))

Separator(chunk) == Min({i \in DOMAIN chunk : chunk[i] = EqualSign})

TagText(chunk) == SubSeq(chunk, 1, Separator(chunk) - 1)
ValueText(chunk) == SubSeq(chunk, Separator(chunk) + 1, Len(chunk))

IsField(chunk) ==
    /\ \E i \in DOMAIN chunk : chunk[i] = EqualSign
    /\ Everywhere(chunk, 0 .. 127)
    /\ TagText(chunk) # <<>>
    /\ Everywhere(TagText(chunk), Digit)
    /\ NumberOf(TagText(chunk)) > 0

(* decode returns a message instead of raising FixDecodeError.             *)
Decodable(data) ==
    /\ data # <<>>
    /\ data[Len(data)] = SOH
    /\ LET chunks == Chunks(data)
       IN  /\ Len(chunks) >= 3
           /\ \A i \in DOMAIN chunks : IsField(chunks[i])
           /\ \A i, j \in DOMAIN chunks :
                 NumberOf(TagText(chunks[i])) = NumberOf(TagText(chunks[j])) => i = j
           /\ TagText(chunks[1]) = Decimal[8]
           /\ TagText(chunks[2]) = Decimal[9]
           /\ TagText(chunks[Len(chunks)]) = Decimal[10]

Decoded(data) ==
    LET chunks == Chunks(data)
    IN  [i \in DOMAIN chunks |->
            [tag |-> NumberOf(TagText(chunks[i])), value |-> ValueText(chunks[i])]]

-------------------------------------------------------------------------------
(* What Python's int() takes: blanks around, a sign, digits with single    *)
(* underscores between them.                                               *)
Stripped(text) ==
    LET dark == {i \in DOMAIN text : text[i] \notin Space}
    IN  IF dark = {} THEN <<>> ELSE SubSeq(text, Min(dark), Max(dark))

Unsigned(text) ==
    IF text # <<>> /\ Head(text) \in Signs THEN Tail(text) ELSE text

IsInt(text) ==
    LET digits == Unsigned(Stripped(text))
    IN  /\ digits # <<>>
        /\ digits[1] \in Digit /\ digits[Len(digits)] \in Digit
        /\ Everywhere(digits, Digit \cup {Underscore})
        /\ Starts(digits, <<Underscore, Underscore>>) = {}

IntOf(text) ==
    LET digits == SelectSeq(Unsigned(Stripped(text)), LAMBDA b : b # Underscore)
    IN  IF Head(Stripped(text)) = 45 THEN -NumberOf(digits) ELSE NumberOf(digits)

LengthError(text, data) == ~IsInt(text) \/ IntOf(text) # CalculatedBodyLength(data)

CheckSumError(text, data) ==
    \/ Len(text) # 3
    \/ ~Everywhere(text, Digit)
    \/ NumberOf(text) # CalculatedCheckSum(data)

After(chunk, prefix) == SubSeq(chunk, Len(prefix) + 1, Len(chunk))

(* validate_wire_integrity: what it finds wrong.                           *)
IntegrityErrors(data) ==
    IF data = <<>> \/ data[Len(data)] # SOH THEN {"Truncated"}
    ELSE LET chunks == Chunks(data)
             first == Len(chunks) >= 3 /\ IsPrefix(<<56, EqualSign>>, chunks[1])
             second == Len(chunks) >= 2 /\ IsPrefix(<<57, EqualSign>>, chunks[2])
             last == IsPrefix(Tail(CheckSumMarker), chunks[Len(chunks)])
         IN  {error \in {"BeginString", "BodyLength", "CheckSum"} :
                CASE error = "BeginString" -> ~first
                  [] error = "BodyLength" ->
                        \/ ~second
                        \/ CalculatedBodyLength(data) = NoLength
                        \/ LengthError(After(chunks[2], <<57, EqualSign>>), data)
                  [] error = "CheckSum" ->
                        \/ ~last
                        \/ CheckSumError(After(chunks[Len(chunks)], Tail(CheckSumMarker)), data)}

(* The part of validate that is about the wire, of a message decode took.  *)
WireErrors(data) ==
    LET fields == Decoded(data)
    IN  {error \in {"BodyLength", "CheckSum"} :
            CASE error = "BodyLength" ->
                    \/ CalculatedBodyLength(data) = NoLength
                    \/ LengthError(ValueOf(fields, 9), data)
              [] error = "CheckSum" -> CheckSumError(ValueOf(fields, 10), data)}

-------------------------------------------------------------------------------
WireInit ==
    /\ message \in Originals
    /\ wire = Encode(message)
    /\ transfer = "sent"

DeliverIntact ==
    /\ transfer = "sent"
    /\ transfer' = "intact"
    /\ UNCHANGED <<message, wire>>

Damage(bytes) ==
    /\ transfer = "sent"
    /\ bytes # wire
    /\ wire' = bytes
    /\ transfer' = "damaged"
    /\ UNCHANGED message

WireNext ==
    \/ DeliverIntact
    \/ \E i \in DOMAIN wire :
          \/ \E byte \in StrayBytes : Damage([wire EXCEPT ![i] = byte])
          \/ Damage(RemoveAt(wire, i))
          \/ Damage(InsertAt(wire, i, wire[i]))

WireSpec == WireInit /\ [][WireNext]_wireVars

-------------------------------------------------------------------------------
(* A message comes out as it went in: all fields but the computed ones, in *)
(* the canonical order, with any = or 10= in their values, between a       *)
(* BodyLength and a CheckSum that both checkers accept.                    *)
EncodedIsRead ==
    transfer = "intact" =>
        /\ Decodable(wire)
        /\ LET fields == Decoded(wire)
           IN  /\ SubSeq(fields, 3, Len(fields) - 1) = BodyFields(message)
               /\ ValueOf(fields, 8) = BeginString(message)
        /\ IntegrityErrors(wire) = {}
        /\ WireErrors(wire) = {}

(* A message of which one byte was changed, lost or doubled is accepted by *)
(* neither path, wherever the byte was: in a tag, a delimiter, the length, *)
(* the checksum, or where it makes or unmakes the look of a trailer.       *)
DamageIsNoticed ==
    transfer = "damaged" =>
        /\ IntegrityErrors(wire) # {}
        /\ ~Decodable(wire) \/ WireErrors(wire) # {}

(* The two computed fields tell the messages that arrived as they were     *)
(* sent from all others, to both checkers.                                 *)
OnlyTheIntactAccepted == EncodedIsRead /\ DamageIsNoticed

===============================================================================
