------------------------------ MODULE Metadata ------------------------------
(***************************************************************************)
(* The layout of a metadata file, as WriteHeader and StreamWrite produce   *)
(* it (src/commands/pb/header_adapter.cc, src/streams/streams.cc) and as   *)
(* ParseHeader and ReadIntoContainer take it apart again                   *)
(* (src/commands/sync_command.cc:185-222).                                 *)
(*                                                                         *)
(* A cell of the file is <<kind, value>>, the value a sequence of numbers: *)
(* the length that delimits the header, a field of the header, or an entry *)
(* of one of the three tables.  Tables are functions on the block indices. *)
(***************************************************************************)
EXTENDS Integers, Sequences, Files

Version == 2

\* The text of a strong checksum: it tells contents apart and is never empty.
Digest(contents) == <<0>> \o contents

\* proto3 leaves a field out that is zero; the hash is never empty, and
\* prepare cannot divide by a block size of zero.
HeaderFields(h) ==
  <<<<"version", <<Version>>>>>>
  \o (IF h.size = 0 THEN <<>> ELSE <<<<"size", <<h.size>>>>>>)
  \o <<<<"block_size", <<h.block_size>>>>, <<"hash", h.hash>>>>

\* header_adapter.cc:10-22.
WriteHeader(h) == <<<<"length", <<Len(HeaderFields(h))>>>>>> \o HeaderFields(h)

\* streams.cc:9-15, once for each table.
Table(kind, values, count) == [j \in 1 .. count |-> <<kind, values[j - 1]>>]

\* Plausible slip: the tables change places.
SizesFirst(h, checksums, sizes, count) ==
  WriteHeader(h)
  \o Table("size", [i \in 0 .. count - 1 |-> <<sizes[i]>>], count)
  \o Table("weak", checksums, count)
  \o Table("strong", checksums, count)

\* prepare_command.cc:257-267.  Both checksums stand for the padded block.
MetadataFile(h, checksums, sizes, count) ==
  WriteHeader(h)
  \o Table("weak", checksums, count)
  \o Table("strong", checksums, count)
  \o Table("size", [i \in 0 .. count - 1 |-> <<sizes[i]>>], count)

\* header_adapter.cc:27-46.  The parser's verdict is not looked at, so a header
\* that is cut off (the buffer is filled up with zeros) yields the fields that
\* were there and defaults for the others; a field that is missing because it
\* is zero gets the same default.
FieldsOf(cells) ==
  LET length == IF cells = <<>> THEN 0 ELSE cells[1][2][1]
  IN ReadAt(cells, 1, length)

Field(fields, kind, default) ==
  IF \E j \in DOMAIN fields : fields[j][1] = kind
  THEN fields[CHOOSE j \in DOMAIN fields : fields[j][1] = kind][2]
  ELSE default

\* Plausible slip: what WriteHeader returns, the size without the delimiter.
SizeWithoutDelimiter(cells) == Len(FieldsOf(cells))

\* header_adapter.cc:45, the position of the stream behind the header.
HeaderSize(cells) == 1 + Len(FieldsOf(cells))

ReadHeader(cells) ==
  LET fields == FieldsOf(cells) IN
  [ version     |-> Field(fields, "version", <<0>>)[1],
    size        |-> Field(fields, "size", <<0>>)[1],
    block_size  |-> Field(fields, "block_size", <<0>>)[1],
    hash        |-> Field(fields, "hash", <<>>),
    header_size |-> HeaderSize(cells) ]

\* The header that stands complete at the front of a file, as a set of at most one.
CompleteHeaders(cells) ==
  {h \in {ReadHeader(cells)} : h.hash # <<>>}
=============================================================================
