------------------------------- MODULE FixFraming -------------------------------
(***************************************************************************)
(* fixgateway/fix/framing.py: FixStreamReader takes whole messages out of  *)
(* a byte stream that arrives in chunks cut anywhere.                      *)
(*                                                                         *)
(* A byte is a model value or a character; only those the reader searches  *)
(* for matter ("8", "=", "1", "0" and SOH, written "|").  The writer and   *)
(* the network are external: a writer writes whole texts, may write bytes  *)
(* that start no message before one, and the connection may break anywhere.*)
(***************************************************************************)
EXTENDS SequencesExt

CONSTANTS
    WireTexts,      \* the encoded messages a writer may send
    Noise,          \* bytes it may write outside of messages
    ReadSize,       \* how much one recv takes at most (4096 in the code)
    MaxWrites       \* texts and noise written (bound)

ASSUME ReadSizeAssumption == ReadSize \in Nat \ {0}

VARIABLES
    written,        \* the texts written
    stream,         \* all bytes written, less those lost when it broke
    writerOpen,
    taken,          \* how many of them recv has returned
    readerBuffer,   \* FixStreamReader._buffer
    receiving,      \* a call of receive() is running
    framed,         \* what its calls returned
    ending          \* the exception that ended it: "none", "closed", "truncated"

framingVars == <<written, stream, writerOpen, taken, readerBuffer, receiving,
                 framed, ending>>

FramingInit ==
    /\ written = <<>>
    /\ stream = <<>>
    /\ writerOpen = TRUE
    /\ taken = 0
    /\ readerBuffer = <<>>
    /\ receiving = FALSE
    /\ framed = <<>>
    /\ ending = "none"

-------------------------------------------------------------------------------
BeginString == <<"8", "=">>

ChecksumMarker == <<"|", "1", "0", "=">>

SOH == <<"|">>

(* bytes.find(pattern, from): 0 if it is not there.                        *)
Find(bytes, pattern, from) ==
    LET places == {i \in from .. Len(bytes) - Len(pattern) + 1 :
                      SubSeq(bytes, i, i + Len(pattern) - 1) = pattern}
    IN  IF places = {} THEN 0 ELSE Min(places)

From(bytes, place) == SubSeq(bytes, place, Len(bytes))

(* Mutant: what is before the first message is kept.                       *)
Untrimmed(bytes) == bytes

(* What is left of a buffer when what precedes a message is deleted.       *)
Trimmed(bytes) ==
    LET start == Find(bytes, BeginString, 1)
    IN  IF start > 1 THEN From(bytes, start) ELSE bytes

(* Mutant: the first SOH ends the message.                                 *)
MessageEndAtSOH(bytes) == Find(bytes, SOH, 1)

(* Where the message at the head of a buffer ends, 0 if it has not arrived.*)
MessageEnd(bytes) ==
    LET marker == Find(bytes, ChecksumMarker, 1)
    IN  IF marker = 0 THEN 0 ELSE Find(bytes, SOH, marker + 1)

(* What encode() makes of values without SOH: BeginString comes first, and *)
(* the first checksum ends it.                                             *)
ASSUME WireTextsAssumption ==
    \A text \in WireTexts :
        LET marker == Find(text, ChecksumMarker, 1)
        IN  /\ text \in Seq(ToSet(text))
            /\ Find(text, BeginString, 1) = 1
            /\ marker # 0 /\ Find(text, SOH, marker + 1) = Len(text)

(* Noise begins no message and ends none, not even with the first byte of  *)
(* the text that comes after it.                                           *)
ASSUME NoiseAssumption ==
    \A bytes \in Noise \cup {<<>>} :
        LET more == Append(bytes, "8")
            marker == Find(more, ChecksumMarker, 1)
        IN  /\ bytes \in Seq(ToSet(bytes))
            /\ Find(more, BeginString, 1) = 0
            /\ marker = 0 \/ Find(more, SOH, marker + 1) = 0

Arriving == SubSeq(stream, taken + 1, Len(stream))

-------------------------------------------------------------------------------
WriteText(text) ==
    /\ writerOpen
    /\ Len(written) < MaxWrites
    /\ written' = Append(written, text)
    /\ stream' = stream \o text
    /\ UNCHANGED <<writerOpen, taken, readerBuffer, receiving, framed, ending>>

(* Only in front of everything: a reader in the middle of a message could  *)
(* not tell noise from it.                                                 *)
WriteNoise(bytes) ==
    /\ writerOpen
    /\ stream = <<>>
    /\ stream' = bytes
    /\ UNCHANGED <<written, writerOpen, taken, readerBuffer, receiving, framed, ending>>

(* The peer closes, or the connection breaks: what has not been read yet   *)
(* arrives as far as some byte.                                            *)
Disconnect(last) ==
    /\ writerOpen
    /\ writerOpen' = FALSE
    /\ stream' = SubSeq(stream, 1, last)
    /\ UNCHANGED <<written, taken, readerBuffer, receiving, framed, ending>>

CallReceive ==
    /\ ~receiving
    /\ ending = "none"
    /\ receiving' = TRUE
    /\ UNCHANGED <<written, stream, writerOpen, taken, readerBuffer, framed, ending>>

(* receive() returns.                                                      *)
CutMessage ==
    /\ receiving
    /\ LET bytes == Trimmed(readerBuffer)
           end == MessageEnd(bytes)
       IN  /\ end > 0
           /\ framed' = Append(framed, SubSeq(bytes, 1, end))
           /\ readerBuffer' = From(bytes, end + 1)
    /\ receiving' = FALSE
    /\ UNCHANGED <<written, stream, writerOpen, taken, ending>>

(* No whole message is there: recv is called.                              *)
Reading == receiving /\ MessageEnd(Trimmed(readerBuffer)) = 0

ChunkSizes == 1 .. Min({ReadSize, Len(Arriving)})

TakeChunk ==
    /\ Arriving # <<>>
    /\ Reading
    /\ \E size \in ChunkSizes :
          /\ readerBuffer' = Trimmed(readerBuffer) \o SubSeq(Arriving, 1, size)
          /\ taken' = taken + size
    /\ UNCHANGED <<written, stream, writerOpen, receiving, framed, ending>>

(* recv raises TimeoutError, and with it receive(): what has been written  *)
(* may still be on its way.                                                *)
RecvTimesOut ==
    /\ Reading
    /\ receiving' = FALSE
    /\ readerBuffer' = Trimmed(readerBuffer)
    /\ UNCHANGED <<written, stream, writerOpen, taken, framed, ending>>

(* recv returns nothing: FixConnectionClosedError, one of two.             *)
EndOfStream ==
    /\ Arriving = <<>>
    /\ ~writerOpen
    /\ Reading
    /\ receiving' = FALSE
    /\ readerBuffer' = Trimmed(readerBuffer)
    /\ ending' = IF readerBuffer' = <<>> THEN "closed" ELSE "truncated"
    /\ UNCHANGED <<written, stream, writerOpen, taken, framed>>

FramingNext ==
    \/ \E text \in WireTexts : WriteText(text)
    \/ \E bytes \in Noise : WriteNoise(bytes)
    \/ \E last \in taken .. Len(stream) : Disconnect(last)
    \/ CallReceive
    \/ CutMessage
    \/ TakeChunk
    \/ RecvTimesOut
    \/ EndOfStream

FramingSpec == FramingInit /\ [][FramingNext]_framingVars

(* Who calls receive() again after a message or a timeout, as the loops of *)
(* the exchange's sessions do, gets on with it; bytes on their way arrive, *)
(* even if recv times out before them again and again.                     *)
FramingFairness ==
    /\ WF_framingVars(CallReceive)
    /\ WF_framingVars(CutMessage)
    /\ SF_framingVars(TakeChunk)

-------------------------------------------------------------------------------
(* However the stream is cut into chunks, whatever precedes it and however *)
(* often recv times out in between, receive() returns the texts written,   *)
(* whole, once each and in order, and nothing after it has raised that the *)
(* connection is closed.                                                   *)
Stream == INSTANCE MessageStream WITH
    Texts <- WireTexts, sent <- written, delivered <- framed,
    finished <- ending # "none"

ImplementsStream == Stream!Spec

(* A stream reported as closed, not as truncated, has ended between two    *)
(* messages: each message of which a byte has arrived was returned.        *)
CleanEndLosesNothing ==
    ending = "closed" =>
        stream = FlattenSeq(framed) \/ \E bytes \in Noise : stream = bytes \o FlattenSeq(framed)

(* Nothing is lost: what is written to a connection that stays open comes  *)
(* out in the end, and a stream that lost a part is reported as truncated. *)
NothingWrittenIsLost ==
    /\ framed # written ~> framed = written \/ ~writerOpen
    /\ []CleanEndLosesNothing

===============================================================================
