------------------------------- MODULE LogStream -------------------------------
(***************************************************************************)
(* GET /tasks/{id}/logs of a worker: GetDockerTaskLogsHandler              *)
(* (src/internal/worker/http/handlers.go), ProcessDockerStream             *)
(* (src/internal/worker/service/worker.go) and GetDockerContainerLogs      *)
(* (src/task/task.go).                                                     *)
(*                                                                         *)
(* Docker multiplexes a container's output into frames of a header, which  *)
(* tells the size of the payload, and the payload.  A byte is known here   *)
(* by the frame it belongs to and its place in it.  The stream may end     *)
(* after any byte: in order, or with an error, which the cancel deferred   *)
(* in GetDockerContainerLogs, the two minutes' limit and a lost connection *)
(* to Docker all give.  The client may leave at any time.                  *)
(***************************************************************************)
EXTENDS Naturals, Sequences, SequencesExt

CONSTANTS
    HeaderLen,   \* bytes of a header: 8
    Sizes,       \* the sizes a payload can have
    MaxFrames    \* bound: frames of one stream

ASSUME LogStreamAssumption ==
    HeaderLen \in Nat \ {0} /\ Sizes \subseteq Nat /\ MaxFrames \in Nat

VARIABLES
    task,        \* input: what the handler's checks find
    frames,      \* input: the sizes of the payloads Docker has
    cut,         \* input: the frames that end inside a character
    arrives,     \* input: how many bytes of them arrive
    ending,      \* input: how the stream ends after those
    at,          \* where the handler is
    pos,         \* how many bytes it has read
    header,      \* the header it read last
    entries,     \* the payloads given to streamLog
    result,      \* what ProcessDockerStream returned
    status,      \* the status of the answer
    connected,   \* the client is there
    received     \* the payloads the client got

input == <<task, frames, cut, arrives, ending>>
vars == <<input, at, pos, header, entries, result, status, connected, received>>

Frame(i) == [k \in 1 .. HeaderLen + frames[i] |-> <<i, k>>]
Header(i) == SubSeq(Frame(i), 1, HeaderLen)
Payload(i) == SubSeq(Frame(i), HeaderLen + 1, HeaderLen + frames[i])

\* The stream up to the end of a frame.
Upto[n \in 0 .. Len(frames)] == IF n = 0 THEN <<>> ELSE Upto[n - 1] \o Frame(n)
Stream == Upto[Len(frames)]

\* Docker ends a frame where its buffer ends.
Cuttable == {i \in DOMAIN frames : i + 1 \in DOMAIN frames /\ frames[i] > 0 /\ frames[i + 1] > 0}

\* strings.ToValidUTF8: neither half of a character that was cut is valid.
Half(byte) ==
    \/ byte[1] \in cut /\ byte[2] = HeaderLen + frames[byte[1]]
    \/ byte[1] - 1 \in cut /\ byte[2] = HeaderLen + 1
ToValidUTF8(bytes) ==
    LET valid[k \in 0 .. Len(bytes)] ==
            IF k = 0 THEN <<>>
            ELSE IF Half(bytes[k]) THEN valid[k - 1]
            ELSE Append(valid[k - 1], bytes[k])
    IN valid[Len(bytes)]

Bytes == (1 .. MaxFrames) \X Nat

TypeOK ==
    /\ task \in {"noId", "unknown", "noContainer", "refused", "noFlusher", "hasLogs"}
    /\ frames \in Seq(Sizes)
    /\ cut \subseteq Cuttable
    /\ arrives \in 0 .. Len(Stream)
    /\ ending \in {"inOrder", "broken"}
    /\ at \in {"lookup", "header", "payload", "done"}
    /\ pos \in 0 .. arrives
    /\ header \in Seq(Bytes)
    /\ at = "payload" => Len(header) = HeaderLen
    /\ entries \in Seq(Seq(Bytes)) /\ received \in Seq(Seq(Bytes))
    /\ result \in {"none", "nil", "error"}
    /\ status \in {0, 200, 400, 404, 409, 500}
    /\ connected \in BOOLEAN

Init ==
    /\ task \in {"noId", "unknown", "noContainer", "refused", "noFlusher", "hasLogs"}
    /\ frames \in BoundedSeq(Sizes, MaxFrames)
    /\ cut \in SUBSET Cuttable
    /\ arrives \in 0 .. Len(Stream)
    /\ ending \in {"inOrder", "broken"}
    /\ at = "lookup" /\ pos = 0 /\ header = <<>> /\ entries = <<>>
    /\ result = "none" /\ status = 0
    /\ connected = TRUE /\ received = <<>>

-----------------------------------------------------------------------------
(* The handler.                                                            *)

Refuse(s) == status' = s /\ at' = "done"

\* The id, GetTask, the container id, the call to Docker, and the writer, which
\* must be able to flush.
Lookup ==
    /\ at = "lookup"
    /\ \/ task = "noId" /\ Refuse(400)
       \/ task = "unknown" /\ Refuse(404)
       \/ task = "noContainer" /\ Refuse(409)
       \/ task \in {"refused", "noFlusher"} /\ Refuse(500)
       \/ task = "hasLogs" /\ status' = 200 /\ at' = "header"
    /\ UNCHANGED <<input, pos, header, entries, result, connected, received>>

\* io.ReadFull of n bytes: how it ends when they do not all arrive.
Arrives(n) == pos + n <= arrives
NothingLeft == pos = arrives /\ ending = "inOrder"     \* io.EOF

Return(r) == result' = r /\ at' = "done"

\* Mutant: one Read, which may return part of a header.
ReadHeaderOnce ==
    LET n == IF Arrives(HeaderLen) THEN HeaderLen ELSE arrives - pos IN
    /\ at = "header"
    /\ n > 0
    /\ header' = SubSeq(Stream, pos + 1, pos + n)
    /\ pos' = pos + n
    /\ at' = "payload"
    /\ UNCHANGED <<input, entries, result, status, connected, received>>

ReadHeader ==
    /\ at = "header"
    /\ Arrives(HeaderLen)
    /\ header' = SubSeq(Stream, pos + 1, pos + HeaderLen)
    /\ pos' = pos + HeaderLen
    /\ at' = "payload"
    /\ UNCHANGED <<input, entries, result, status, connected, received>>

\* Mutant: after an error the loop goes on.
HeaderEndsRetry ==
    /\ at = "header"
    /\ NothingLeft
    /\ Return("nil")
    /\ UNCHANGED <<input, pos, header, entries, status, connected, received>>

\* Mutant: every end of the stream between frames is an end in order.
HeaderEndsAnyway ==
    /\ at = "header"
    /\ ~Arrives(HeaderLen)
    /\ Return("nil")
    /\ UNCHANGED <<input, pos, header, entries, status, connected, received>>

HeaderEnds ==
    /\ at = "header"
    /\ ~Arrives(HeaderLen)
    /\ Return(IF NothingLeft THEN "nil" ELSE "error")
    /\ UNCHANGED <<input, pos, header, entries, status, connected, received>>

\* Mutant: the size includes the header.
PayloadSizeWithHeader ==
    IF \E i \in DOMAIN frames : header = Header(i)
    THEN {frames[i] + HeaderLen : i \in {j \in DOMAIN frames : header = Header(j)}}
    ELSE Sizes

\* The size field of the header, of whatever bytes were taken for one.
PayloadSize ==
    IF \E i \in DOMAIN frames : header = Header(i)
    THEN {frames[i] : i \in {j \in DOMAIN frames : header = Header(j)}}
    ELSE Sizes

\* streamLog writes the entry; what a client that has left does not get is
\* not an error, and the stream is read to its end for nobody.
ReadPayload ==
    \E n \in PayloadSize :
        /\ at = "payload"
        /\ Arrives(n)
        /\ entries' = Append(entries, ToValidUTF8(SubSeq(Stream, pos + 1, pos + n)))
        /\ received' = IF connected THEN Append(received, Last(entries')) ELSE received
        /\ pos' = pos + n
        /\ at' = "header"
        /\ UNCHANGED <<input, header, result, status, connected>>

PayloadEnds ==
    \E n \in PayloadSize :
        /\ at = "payload"
        /\ ~Arrives(n)
        /\ Return(IF NothingLeft THEN "nil" ELSE "error")
        /\ UNCHANGED <<input, pos, header, entries, status, connected, received>>

\* It closes the connection, or the server's 10 s for an answer are over.
ClientLeaves ==
    /\ at # "done"
    /\ connected
    /\ connected' = FALSE
    /\ UNCHANGED <<input, at, pos, header, entries, result, status, received>>

-----------------------------------------------------------------------------

HandlerStep == Lookup \/ ReadHeader \/ HeaderEnds \/ ReadPayload \/ PayloadEnds

Next == HandlerStep \/ ClientLeaves

(* A read of the stream returns: Docker does not follow the log.           *)
Fairness == WF_vars(HandlerStep)

Spec == Init /\ [][Next]_vars
FairSpec == Spec /\ Fairness

-----------------------------------------------------------------------------

\* The client gets the first payloads of the container in order, complete but
\* for the characters that two of them share, wherever the stream ends and
\* whenever the client leaves: the reader never takes part of a payload for a
\* header.
Payloads == [i \in DOMAIN frames |-> ToValidUTF8(Payload(i))]
EntriesAreFrames == IsPrefix(entries, Payloads) /\ IsPrefix(received, entries)

\* No error is swallowed: the stream is read to its end, and unless that end
\* is in order an error is returned.  It is taken for in order also right
\* after a header that announces a payload.
Boundaries == {Len(Upto[n]) : n \in 0 .. Len(frames)}
EndIsNoticed ==
    result = "nil" =>
        /\ pos = arrives /\ ending = "inOrder"
        /\ pos \in Boundaries \cup {b + HeaderLen : b \in Boundaries}

\* Every request for logs ends, also when the client is gone.
LogsEnd == <>(at = "done")

-----------------------------------------------------------------------------
(* What the repository says and the code does not do.                      *)

\* worker.go:322 "Could not read payload": a payload that does not arrive is
\* an error.
PayloadIsWaitedFor == result = "nil" => pos \in Boundaries
=============================================================================
