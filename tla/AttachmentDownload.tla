------------------------- MODULE AttachmentDownload -------------------------
(***************************************************************************)
(* An attachment is fetched into a file, by chunks with retries or as one   *)
(* stream (IMAPFetchContentToFileOperation, fetchMessageAttachmentToFile... *)
(* of core/imap/MCIMAPSession.cpp), through a decoder that keeps what it     *)
(* cannot decode yet (core/basetypes/MCDataStreamDecoder.cpp).              *)
(*                                                                         *)
(* The encoded part is the numbers from 1 on: a lost, repeated or displaced *)
(* piece shows in the file.  Quantum numbers are decoded together.          *)
(***************************************************************************)
EXTENDS Integers, Sequences, SequencesExt

CONSTANTS
    Size,           \* of the encoded part
    chunkSize,
    maxRetries,
    Quantum,
    Modes,          \* "chunks", "stream"
    Estimates       \* the values of estimatedSize

Errors == {"Connection", "Parse", "Fetch"}
Piece(from, k) == [i \in 1..k |-> from + i]

VARIABLES
    mode, estimatedSize,        \* of the operation
    pc,
    offset,
    nRetries,
    error,
    mRemainingData,             \* received and not decoded
    mFile,                      \* "NULL", "open", or the address of a closed file
    file                        \* what was written to it, stdio's buffer included

decoder == <<mRemainingData, mFile, file>>
vars == <<mode, estimatedSize, pc, offset, nRetries, error, decoder>>

Init ==
    /\ mode \in Modes /\ estimatedSize \in Estimates
    /\ pc = "fetch" /\ offset = 0 /\ nRetries = 0 /\ error = "None"
    /\ mRemainingData = <<>> /\ mFile = "NULL" /\ file = <<>>

-----------------------------------------------------------------------------
(* The decoder.  The file is opened when there is something to write; to    *)
(* open it, and to write to it, may fail.                                   *)

AppendDecodedData(data, result) ==
    IF data = <<>> THEN result = "None" /\ UNCHANGED <<mFile, file>>
    ELSE \/ result = "None" /\ mFile' = "open" /\ file' = file \o data
         \/ result = "File" /\ mFile' \in {mFile, "open"} /\ UNCHANGED file

Decodable(data) == Quantum * (Len(data) \div Quantum)

(* Mutant: what remains of the piece before is not put in front. *)
AppendDataAlone(data, result) ==
    LET n == Decodable(data)
    IN  /\ AppendDecodedData(SubSeq(data, 1, n), result)
        /\ mRemainingData' = IF result = "None" THEN SubSeq(data, n + 1, Len(data))
                             ELSE mRemainingData

AppendData(data, result) ==
    LET all == mRemainingData \o data
        n == Decodable(all)
    IN  /\ AppendDecodedData(SubSeq(all, 1, n), result)
        /\ mRemainingData' = IF result = "None" THEN SubSeq(all, n + 1, Len(all))
                             ELSE mRemainingData

(* What remains is decoded as it is, and the file closed: mFile keeps its   *)
(* address.  Without a rest it is left to the destructor.                   *)
FlushData(result) ==
    IF mRemainingData = <<>> THEN result = "None" /\ UNCHANGED decoder
    ELSE \/ /\ result \in {"None", "File"}
            /\ mFile' = "closed" /\ file' = file \o mRemainingData
            /\ mRemainingData' = IF result = "None" THEN <<>> ELSE mRemainingData
         \/ /\ AppendDecodedData(mRemainingData, result) /\ result = "File"
            /\ UNCHANGED mRemainingData

(* ~DataStreamDecoder. *)
Release ==
    /\ pc = "release"
    /\ mFile' = "NULL"
    /\ pc' = "done"
    /\ UNCHANGED <<mode, estimatedSize, offset, nRetries, error, mRemainingData, file>>

-----------------------------------------------------------------------------
(* fetchMessageAttachmentToFileByChunksByUID *)

Stop(e) == pc' = "release" /\ error' = e

(* The same chunk is asked for again, on a new connection.                  *)
AfterFailure(e) ==
    IF e \in {"Connection", "Parse"} /\ nRetries < maxRetries
    THEN nRetries' = nRetries + 1 /\ UNCHANGED <<pc, error>>
    ELSE Stop(e) /\ UNCHANGED nRetries

EndOfPart(encodedSize, newOffset) ==
    \/ estimatedSize > 0 /\ estimatedSize <= newOffset /\ encodedSize # chunkSize
    \/ estimatedSize = 0 /\ encodedSize < chunkSize

(* A partial fetch.  The server may return less than what is there.         *)
FetchChunk ==
    /\ pc = "fetch" /\ mode = "chunks"
    /\ \/ \E e \in Errors : AfterFailure(e) /\ UNCHANGED <<offset, decoder>>
       \/ /\ offset = Size
          /\ pc' = "flush" /\ nRetries' = 0
          /\ UNCHANGED <<offset, error, decoder>>
       \/ \E encodedSize \in 1..chunkSize, result \in {"None", "File"} :
             /\ offset + encodedSize <= Size
             /\ nRetries' = 0
             /\ AppendData(Piece(offset, encodedSize), result)
             /\ IF result # "None" THEN Stop(result) /\ UNCHANGED offset
                ELSE /\ offset' = offset + encodedSize
                     /\ pc' = IF EndOfPart(encodedSize, offset') THEN "flush" ELSE pc
                     /\ UNCHANGED error
    /\ UNCHANGED <<mode, estimatedSize>>

(* The result of flushData is not looked at. *)
FlushChunks ==
    /\ pc = "flush" /\ mode = "chunks"
    /\ \E result \in {"None", "File"} : FlushData(result)
    /\ pc' = "release"
    /\ UNCHANGED <<mode, estimatedSize, offset, nRetries, error>>

-----------------------------------------------------------------------------
(* fetchMessageAttachmentToFileByUID *)

(* The folder cannot be selected: the decoder is not even released.         *)
SelectFails ==
    /\ pc = "fetch" /\ mode = "stream" /\ offset = 0
    /\ error' \in Errors
    /\ pc' = "done"
    /\ UNCHANGED <<mode, estimatedSize, offset, nRetries, decoder>>

(* msg_body_handler, called with the body piece by piece; a result other    *)
(* than ErrorNone makes libetpan give up the stream.                        *)
Receive ==
    /\ pc = "fetch" /\ mode = "stream"
    /\ \/ \E e \in Errors : Stop(e) /\ UNCHANGED <<offset, decoder>>
       \/ \E k \in 1..(Size - offset), result \in {"None", "File"} :
             /\ AppendData(Piece(offset, k), result)
             /\ IF result # "None" THEN Stop("Connection") /\ UNCHANGED offset
                ELSE offset' = offset + k /\ UNCHANGED <<pc, error>>
       \/ offset = Size /\ pc' = "flush" /\ UNCHANGED <<offset, error, decoder>>
    /\ UNCHANGED <<mode, estimatedSize, nRetries>>

FlushStream ==
    /\ pc = "flush" /\ mode = "stream"
    /\ \E result \in {"None", "File"} : FlushData(result) /\ error' = result
    /\ pc' = "release"
    /\ UNCHANGED <<mode, estimatedSize, offset, nRetries>>

Next == FetchChunk \/ FlushChunks \/ SelectFails \/ Receive \/ FlushStream \/ Release

Spec == Init /\ [][Next]_vars

-----------------------------------------------------------------------------
(* Properties. *)

Finished == pc = "done"

(* Through retries, short chunks and rests of a quantum, the file and what  *)
(* remains to be decoded are the part up to offset, once and in order.      *)
NothingLostOrRepeated ==
    pc = "fetch" => file \o mRemainingData = Piece(0, offset)

(* A success is the whole part when the estimate was not too small; as one  *)
(* stream, always.                                                          *)
SuccessMeansComplete ==
    (Finished /\ error = "None" /\ (mode = "stream" \/ estimatedSize >= Size)) => offset = Size

(* As one stream, a success means that all of it is in the file.            *)
StreamedMeansWritten ==
    (Finished /\ error = "None" /\ mode = "stream") => file = Piece(0, Size)

(* No retry, short chunk or failure damages the part.                       *)
PartKept == NothingLostOrRepeated /\ SuccessMeansComplete /\ StreamedMeansWritten
=============================================================================
