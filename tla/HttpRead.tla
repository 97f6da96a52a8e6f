------------------------------ MODULE HttpRead ------------------------------
(***************************************************************************)
(* One read of the HTTP reader (src/readers/http_reader.cc:7-211), from    *)
(* the Range header to the callbacks, and what the callback of the         *)
(* reconstruction makes of them (src/commands/sync_command.cc:379-417).    *)
(*                                                                         *)
(* The server is not part of the program: it gives any answer RFC 7233     *)
(* allows.  It may join consecutive ranges, send the parts of a multipart  *)
(* answer in another order, leave the total length of the file open, and   *)
(* ignore a Range header; it has to ignore one that is not valid, and cuts *)
(* ranges at the end of the file.                                          *)
(*                                                                         *)
(* The byte of the file at offset o is the number o.  A body is the        *)
(* sequence of its tokens: delimiters, header lines and bytes.             *)
(***************************************************************************)
EXTENDS Integers, Sequences, SequencesExt, FiniteSetsExt

CONSTANTS
  FileSize,
  Requests   \* [members, batch]: the ranges [begin, size] of a batched read, or
             \* the only one of a plain read

ASSUME HttpReadAssumption ==
  /\ FileSize \in Nat \ {0}
  /\ \A r \in Requests :
       /\ r.batch \in BOOLEAN
       /\ r.members \in Seq([begin : Nat, size : Nat]) \ {<<>>}
       /\ r.batch \/ Len(r.members) = 1
       \* The blocks of a batch are queued in ascending order (sync_command.cc:480-489).
       /\ \A k \in DOMAIN r.members \ {1} :
            r.members[k - 1].begin + r.members[k - 1].size <= r.members[k].begin

VARIABLES
  request,   \* batched_retrieval_infos
  answer,    \* what the server did: [code, multipart, parts, ordered, known]
  status,    \* "sent"; the state of the parser: "boundary", "header" or "chunk" (also
             \* for an answer in one piece); "ok" or "aborted"
  body,      \* what is left of the body
  beg, end,  \* of the part, or of the answer in one piece
  member,    \* retrieval_info_index, from 1
  size_read, \* of ReadCallbackForBatchMember
  handed,    \* the bytes that each member, or the plain read, was given
  count

vars == <<request, answer, status, body, beg, end, member, size_read, handed, count>>
input == <<request, answer>>

\* http_reader.cc:183-189: the range a member asks for, its end inclusive.
RangeOf(m) == [first |-> m.begin, last |-> m.begin + m.size - 1]

Asked(req) == [k \in DOMAIN req.members |-> RangeOf(req.members[k])]

-----------------------------------------------------------------------------
(* The server. *)

Mark(kind) == [is |-> kind]
BytesOf(range) ==
  [j \in 1 .. range.last - range.first + 1 |-> [is |-> "byte", at |-> range.first + j - 1]]
WholeFile == [first |-> 0, last |-> FileSize - 1]

Valid(req) == \A k \in DOMAIN Asked(req) : Asked(req)[k].first <= Asked(req)[k].last

Cut(range) == [range EXCEPT !.last = Min({@, FileSize - 1})]

\* How the server may join the ranges that begin within the file, of which there is
\* at least one: for each part the last member that went into it.
Groupings(req) ==
  { e \in UNION {[1 .. n -> DOMAIN req.members] : n \in DOMAIN req.members} :
      /\ \A k \in 2 .. Len(e) : e[k - 1] < e[k]
      /\ \A m \in DOMAIN req.members : m <= e[Len(e)] <=> req.members[m].begin < FileSize }

\* From the first member of a group to the last one.
Joined(req, e) ==
  LET first(k) == IF k = 1 THEN 1 ELSE e[k - 1] + 1 IN
  [k \in DOMAIN e |->
     Cut([first |-> Asked(req)[first(k)].first, last |-> Asked(req)[e[k]].last])]

Orders(n) == {p \in [1 .. n -> 1 .. n] : {p[k] : k \in 1 .. n} = 1 .. n}

\* 206: the parts in some order, all of them with or all without the total length.
\* A single part is sent as it is, or as multipart when more than one was asked for.
PartialAnswers(req) ==
  UNION
  { LET ranges == Joined(req, e) IN
    { [ code |-> 206, multipart |-> m, known |-> known,
        parts |-> [k \in DOMAIN ranges |-> ranges[p[k]]],
        ordered |-> \A k \in DOMAIN ranges : p[k] = k ] :
      p \in Orders(Len(ranges)), known \in BOOLEAN,
      m \in {m \in BOOLEAN : IF m THEN Len(req.members) > 1 ELSE Len(ranges) = 1} } :
    e \in Groupings(req) }

\* 200: the Range header is ignored.
WholeAnswer ==
  [code |-> 200, multipart |-> FALSE, parts |-> <<WholeFile>>, ordered |-> TRUE, known |-> TRUE]

Answers(req) ==
  {WholeAnswer} \cup (IF Valid(req) THEN PartialAnswers(req) ELSE {})

\* There are other header lines before and after that of the range.
Part(range, known) ==
  << Mark("dash"), Mark("boundary"), Mark("crlf"), Mark("other line"),
     [is |-> IF known THEN "range" ELSE "range/*", beg |-> range.first, end |-> range.last],
     Mark("other line"), Mark("crlf") >>
  \o BytesOf(range) \o <<Mark("crlf")>>

BodyOf(a) ==
  IF a.multipart
  THEN <<Mark("crlf")>> \o FlattenSeq([k \in DOMAIN a.parts |-> Part(a.parts[k], a.known)])
       \o <<Mark("dash"), Mark("boundary"), Mark("dash"), Mark("crlf")>>
  ELSE BytesOf(a.parts[1])

-----------------------------------------------------------------------------
(* The reader. *)

NotAnswered == [code |-> 0, multipart |-> FALSE, parts |-> <<>>, ordered |-> TRUE, known |-> TRUE]

Init ==
  /\ request \in Requests
  /\ answer = NotAnswered
  /\ status = "sent"
  /\ body = <<>>
  /\ beg = 0 /\ end = 0
  /\ member = 1 /\ size_read = 0
  /\ handed = <<>>
  /\ count = 0

Abort ==
  /\ status' = "aborted"
  /\ UNCHANGED <<request, body, beg, end, member, size_read, handed, count>>

\* http_reader.cc:192-194: no connection, or any other code, 416 for one.
NoAnswer == status = "sent" /\ Abort /\ UNCHANGED answer

\* http_reader.cc:195-208: an answer in one piece is taken for the bytes from the
\* first member's offset on.
Receive ==
  /\ status = "sent"
  /\ answer' \in Answers(request)
  /\ body' = BodyOf(answer')
  /\ status' = IF answer'.multipart THEN "boundary" ELSE "chunk"
  /\ beg' = IF answer'.multipart THEN 0 ELSE request.members[1].begin
  /\ end' = IF answer'.multipart THEN 0 ELSE beg' + Len(body') - 1
  /\ count' = IF answer'.multipart THEN 0 ELSE Len(body')
  /\ UNCHANGED <<request, member, size_read, handed>>

\* The kinds of the next lines; at the end of the body ReadHttpLine and
\* CheckPrefixAndAdvance fail (http_reader.cc:7-50).
Upcoming(kinds) ==
  /\ Len(kinds) <= Len(body)
  /\ \A j \in DOMAIN kinds : body[j].is = kinds[j]
Advance(n) == body' = SubSeq(body, n + 1, Len(body))

\* http_reader.cc:83-100.
SkipLine ==
  /\ status = "boundary" /\ Upcoming(<<"crlf">>)
  /\ Advance(1)
  /\ UNCHANGED <<input, status, beg, end, member, size_read, handed, count>>

OpenPart ==
  /\ status = "boundary" /\ Upcoming(<<"dash", "boundary", "crlf">>)
  /\ Advance(3)
  /\ status' = "header"
  /\ UNCHANGED <<input, beg, end, member, size_read, handed, count>>

CloseBody ==
  /\ status = "boundary" /\ Upcoming(<<"dash", "boundary", "dash">>)
  /\ Advance(3)
  /\ status' = "ok"
  /\ UNCHANGED <<input, beg, end, member, size_read, handed, count>>

NoBoundary ==
  /\ status = "boundary"
  /\ ~Upcoming(<<"crlf">>)
  /\ ~Upcoming(<<"dash", "boundary", "crlf">>) /\ ~Upcoming(<<"dash", "boundary", "dash">>)
  /\ Abort /\ UNCHANGED answer

\* http_reader.cc:101-117.  The expression wants the total length in digits.
ReadRange ==
  /\ status = "header" /\ Upcoming(<<"range">>)
  /\ beg' = body[1].beg /\ end' = body[1].end
  /\ Advance(1)
  /\ UNCHANGED <<input, status, member, size_read, handed, count>>

SkipHeader ==
  /\ status = "header" /\ (Upcoming(<<"other line">>) \/ Upcoming(<<"range/*">>))
  /\ Advance(1)
  /\ UNCHANGED <<input, status, beg, end, member, size_read, handed, count>>

EndHeaders ==
  /\ status = "header" /\ Upcoming(<<"crlf">>)
  /\ Advance(1)
  /\ status' = "chunk"
  /\ size_read' = 0
  /\ UNCHANGED <<input, beg, end, member, handed, count>>

-----------------------------------------------------------------------------
(* The callbacks. *)

\* Plausible slip: forgetting that the end is inclusive.
ExclusiveSize == end - beg

\* http_reader.cc:120 and sync_command.cc:384.
ChunkSize == end - beg + 1

\* Plausible slip: every member is given the begin of the chunk.
AtChunkStart(from, n) == SubSeq(body, 1, Min({n, Len(body)}))

\* read_buffer + size_read; what lies behind the body is cut off here.
Payload(from, n) == SubSeq(body, from + 1, Min({from + n, Len(body)}))

Info == request.members[member]

\* Plausible slip: the offset of the chunk is not compared.
AnyBegin == member \in DOMAIN request.members

\* sync_command.cc:387-388.  Behind the last member it reads past the vector; what
\* it finds there is taken not to be the offset it compares with.
BeginsAtMember == member \in DOMAIN request.members /\ beg + size_read = Info.begin

\* What ends a chunk, http_reader.cc:119-125 and 210.
ChunkDone ==
  /\ status' = IF answer.multipart THEN "boundary" ELSE "ok"
  /\ count' = IF answer.multipart THEN count + ChunkSize ELSE count
  /\ Advance(ChunkSize)

\* http_reader.cc:166-176: the callback of a plain read.
CopyChunk ==
  /\ status = "chunk" /\ ~request.batch
  /\ handed' = Append(handed, Payload(0, ChunkSize))
  /\ ChunkDone
  /\ UNCHANGED <<input, beg, end, member, size_read>>

\* sync_command.cc:386-393.
HandMember ==
  /\ status = "chunk" /\ request.batch
  /\ size_read < ChunkSize /\ BeginsAtMember
  /\ handed' = Append(handed, Payload(size_read, Info.size))
  /\ size_read' = size_read + Info.size
  /\ member' = member + 1
  /\ UNCHANGED <<input, status, body, beg, end, count>>

WrongMember ==
  /\ status = "chunk" /\ request.batch
  /\ size_read < ChunkSize /\ ~BeginsAtMember
  /\ Abort /\ UNCHANGED answer

\* sync_command.cc:394.
EndChunk ==
  /\ status = "chunk" /\ request.batch
  /\ size_read = ChunkSize
  /\ ChunkDone
  /\ UNCHANGED <<input, beg, end, member, size_read, handed>>

WrongSize ==
  /\ status = "chunk" /\ request.batch
  /\ size_read > ChunkSize
  /\ Abort /\ UNCHANGED answer

Terminated == status \in {"ok", "aborted"} /\ UNCHANGED vars

Next ==
  \/ Receive \/ NoAnswer
  \/ SkipLine \/ OpenPart \/ CloseBody \/ NoBoundary
  \/ ReadRange \/ SkipHeader \/ EndHeaders
  \/ CopyChunk \/ HandMember \/ WrongMember \/ EndChunk \/ WrongSize

Spec == Init /\ [][Next \/ Terminated]_vars

-----------------------------------------------------------------------------
(* Properties. *)

InFile(req) == \A k \in DOMAIN req.members : req.members[k].begin + req.members[k].size <= FileSize
Named(m) == BytesOf(RangeOf(m))

\* A batched read that returns has given the members their own bytes, in order,
\* whatever the server made of the ranges, and counts just them
\* (sync_command.cc:388 and 394 are all there is to reject other answers).  None is
\* left out while the file holds them all; the server drops ranges behind its end,
\* and nothing but the count tells.  A plain read may be cut at the end of the
\* file, like that of the header (sync_command.cc:188).
OkMeansExact ==
  status = "ok" /\ answer.code = 206 =>
    IF request.batch
    THEN /\ \A k \in DOMAIN handed : handed[k] = Named(request.members[k])
         /\ count = Len(FlattenSeq(handed))
         /\ InFile(request) => Len(handed) = Len(request.members)
    ELSE /\ handed = <<BytesOf(Cut(RangeOf(request.members[1])))>>
         /\ count = Len(handed[1])

\* A member is written to the output before the rest of its part is looked at
\* (sync_command.cc:388-394): also a read that fails later has not written foreign
\* bytes, if the parts say what they are or come in order.
NoForeignBytes ==
  answer.code = 206 /\ InFile(request) /\ request.batch /\ (answer.known \/ answer.ordered) =>
    \A k \in DOMAIN handed : handed[k] = Named(request.members[k])

\* The answers the reader counts on (http_reader.cc:198) are accepted: parts in
\* order, of known length, holding nothing but what was asked for, joined or not.
OrderedAnswersAccepted ==
  /\ status = "aborted" /\ answer.code = 206
  /\ InFile(request) /\ answer.ordered /\ answer.known
  => \E k \in DOMAIN answer.parts : \E o \in answer.parts[k].first .. answer.parts[k].last :
       \A j \in DOMAIN request.members : o \notin Asked(request)[j].first .. Asked(request)[j].last

\* The comment of ReadCallback (readers/include/reader.h:25-28): the callback is
\* told the offsets of the first and the last byte of the buffer it is given.
CallbackIsToldTheOffsets ==
  status = "chunk" => Payload(0, ChunkSize) = BytesOf([first |-> beg, last |-> end])
=============================================================================
