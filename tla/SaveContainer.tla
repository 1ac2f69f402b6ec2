--------------------------- MODULE SaveContainer ---------------------------
(***************************************************************************)
(* The container of a save file, from the bytes the serialiser produced to *)
(* the bytes the parser is given: compress() and write_header()            *)
(* (xcomwriter.cpp), the file on disk, read_header(),                      *)
(* calculate_uncompressed_size() and decompress() (xcomreader.cpp).        *)
(*                                                                         *)
(* One action per loop iteration and per header field.  The program is     *)
(* sequential, so stage is its control point; the only other actor damages *)
(* the file at rest: a byte changes, or the end of the file is missing     *)
(* (xcomwriter.cpp:480 ignores what fwrite returns).                       *)
(*                                                                         *)
(* The CRC is ideal: two different byte sequences have different CRCs, so  *)
(* the loops over the chunks meet the headers the writer wrote; ChunkWalk  *)
(* has those two loops for headers that say anything.                      *)
(* The compressors are known by what they promise (minilzo and zlib are    *)
(* not part of src/'s own code): a compressed chunk holds the chunk, its   *)
(* size is Overhead plus the number of runs of equal bytes, and only the   *)
(* whole compressed chunk decompresses.                                    *)
(***************************************************************************)
EXTENDS XcomBuffer, FiniteSets

CONSTANTS
  Saves,      \* the saves to write: [fields, profile, payload]
  EnemyUnknown, EnemyWithin, Android,  \* xcom_version: 15, 16, 19
  HdrSize,    \* 1024 in the code
  MaxChunk,   \* 0x20000 in the code
  Overhead,   \* bytes a compressed chunk is longer than its runs
  Magic,      \* UPK_Magic
  Noise,      \* the ints that damaged or misread bytes give
  MaxFaults   \* bound on the damage done to the file

ASSUME ContainerAssumption ==
  /\ HdrSize \in Nat \ {0} /\ MaxChunk \in Nat \ {0} /\ Overhead \in Nat
  /\ Magic \in Int \ {0} /\ Noise \subseteq Int /\ MaxFaults \in Nat

VARIABLES
  save,       \* the save being written, fixed
  stage,      \* where the program is
  left,       \* compress: bytes_left
  w,          \* the output and the xcom_io over it, header area included
  done,       \* write_header: fields written
  file,       \* the bytes on disk
  faults,     \* history: how often the file was damaged
  rd,         \* the reader's xcom_io over the file
  hdr,        \* the header it read so far
  total,      \* calculate_uncompressed_size: uncompressed_size so far
  outp        \* decompress: the bytes inflated so far

wvars == <<left, w, done>>
rvars == <<rd, hdr, total, outp>>
vars == <<save, stage, wvars, file, faults, rvars>>

Version(h) == h.fields[1]
Supports(v) == v \in {EnemyUnknown, EnemyWithin, Android}

-----------------------------------------------------------------------------
(* Compression *)

Codec(v) == IF v = Android THEN "zlib" ELSE "lzo"

Runs(s) == Cardinality({k \in 1..Len(s) : k = 1 \/ s[k] # s[k - 1]})
PackedSize(chunk) == Overhead + Runs(chunk)
Packed(codec, chunk) == [k \in 1..PackedSize(chunk) |-> <<codec, chunk, k>>]

\* compress_one_chunk: LZO ignores the room it is given; zlib stops at it, and
\* nobody looks at what deflate() returned.
CompressOneChunk(v, chunk, room) ==
  LET p == Packed(Codec(v), chunk) IN
  IF v = Android /\ room < Len(p) THEN SubSeq(p, 1, room) ELSE p

\* decompress_one_chunk: the chunk, or anything of the wrong size.
DecompressOneChunk(v, cells, room) ==
  IF cells # << >> /\ cells[1][1] = Codec(v)
       /\ cells = Packed(Codec(v), cells[1][2]) /\ Len(cells[1][2]) <= room
  THEN cells[1][2] ELSE << >>

-----------------------------------------------------------------------------
(* Writing: compress(), one chunk per step *)

ChunkHeader(packed, size) ==
  IntCells(Magic) \o IntCells(MaxChunk) \o IntCells(packed) \o IntCells(size)
    \o IntCells(packed) \o IntCells(size)

ChunkSize == IF left < MaxChunk THEN left ELSE MaxChunk

Output(cells) ==
  [start |-> cells, length |-> Len(cells), ptr |-> 0, thrown |-> FALSE, reserved |-> 0]

CompressChunk ==
  /\ stage = "compress"
  /\ LET pos    == Len(save.payload) - left
         packed == CompressOneChunk(Version(save), SubSeq(save.payload, pos + 1, pos + ChunkSize), left)
     IN  w' = Output(w.start \o ChunkHeader(Len(packed), ChunkSize) \o packed)
  /\ left' = left - ChunkSize
  /\ stage' = IF left' > 0 THEN "compress" ELSE "fields"
  /\ UNCHANGED <<save, done, file, faults, rvars>>

-----------------------------------------------------------------------------
(* Writing: write_header() *)

CrcCells(cells) == [k \in 1..IntSize |-> <<"crc", cells, k>>]
SeekTo(b, pos)  == [b EXCEPT !.ptr = pos]
CrcOf(b, from, to) == CrcCells(SubSeq(b.start, from + 1, to))

\* The fields of struct header in the order of the file; the fifth is the description.
FieldKinds == <<"int", "int", "int", "int", "unicode", "unicode", "string",
                "int", "int", "int", "string", "string">>

Advance(k, next) == IF k = Len(FieldKinds) THEN next ELSE stage

\* The next field; done counts those written.
WriteField ==
  /\ stage = "fields"
  /\ LET k == done + 1 IN
       /\ w' = IF FieldKinds[k] = "int" THEN IntWritten(w, save.fields[k])
                                        ELSE StringWritten(w, save.fields[k])
       /\ done' = k
       /\ stage' = Advance(k, "data_crc")
  /\ UNCHANGED <<save, left, file, faults, rvars>>

\* The profile starts 12 bytes after the CRC.
ProfileAtCrc(b) == b                                                  \* mutant
AtProfile(b) == SeekTo(b, b.ptr + 3 * IntSize)

\* The CRC of the compressed data goes after the fields.
WriteDataCrc ==
  /\ stage = "data_crc"
  /\ w' = EnsureAndPut(w, CrcOf(w, HdrSize, w.length))
  /\ stage' = "trailer"
  /\ UNCHANGED <<save, left, done, file, faults, rvars>>

\* On Android the profile follows, elsewhere the header's length and CRC end the
\* area; the CRC is computed before either is written.  Then write_xcom_save writes
\* the file.
WriteProfile ==
  EnsureAndPut(AtProfile(w), IntCells(save.profile[1]) \o EncString(save.profile[2]))
WriteHeaderCrc ==
  LET n == w.ptr + IntSize
  IN  EnsureAndPut(SeekTo(w, HdrSize - 2 * IntSize), IntCells(n) \o CrcOf(w, 0, n))

WriteTrailer ==
  /\ stage = "trailer"
  /\ file' = (IF Version(save) = Android THEN WriteProfile ELSE WriteHeaderCrc).start
  /\ stage' = "file"
  /\ UNCHANGED <<save, wvars, faults, rvars>>

-----------------------------------------------------------------------------
(* The file at rest *)

Damage(i, n) ==
  /\ stage = "file" /\ faults < MaxFaults
  /\ file[i] # <<"int", n, 1>>
  /\ file' = [file EXCEPT ![i] = <<"int", n, 1>>]
  /\ faults' = faults + 1
  /\ UNCHANGED <<save, stage, wvars, rvars>>

Truncate(n) ==
  /\ stage = "file" /\ faults < MaxFaults
  /\ file' = SubSeq(file, 1, n)
  /\ faults' = faults + 1
  /\ UNCHANGED <<save, stage, wvars, rvars>>

-----------------------------------------------------------------------------
(* Reading: read_header() *)

ReadKind(r, kind) ==
  CASE kind = "int"     -> ReadInt(r)
    [] kind = "unicode" -> ReadUnicodeString(r)
    [] kind = "string"  -> ReadString(r)

Refuse == stage' = "refused" /\ UNCHANGED <<save, wvars, file, faults, rvars>>

\* read_file, and the xcom_io over what it read.
OpenFile(noise) ==
  /\ stage = "file"
  /\ rd' = Reader(file, noise)
  /\ stage' = "header"
  /\ UNCHANGED <<save, wvars, file, faults, hdr, total, outp>>

\* The next header field; the version is checked as soon as it is read.
ReadHeaderField ==
  /\ stage = "header"
  /\ LET k == Len(hdr.fields) + 1
         v == ReadKind(rd, FieldKinds[k])
     IN  IF v.rd.thrown \/ (k = 1 /\ ~Supports(v.val)) THEN Refuse
         ELSE /\ rd' = v.rd
              /\ hdr' = [hdr EXCEPT !.fields = Append(@, v.val)]
              /\ stage' = Advance(k, "data_crc_read")
              /\ UNCHANGED <<save, wvars, file, faults, total, outp>>

\* The stored CRC of the compressed data: four bytes like any int; it is compared,
\* never computed with.
ReadDataCrc ==
  /\ stage = "data_crc_read"
  /\ IF ~BoundsCheck(rd, IntSize) THEN Refuse
     ELSE /\ hdr' = [hdr EXCEPT !.crc = [k \in 1..IntSize |-> CellAt(rd, k - 1)]]
          /\ rd' = SeekTo(rd, rd.ptr + IntSize)
          /\ stage' = IF Version(hdr) = Android THEN "profile" ELSE "checks"
          /\ UNCHANGED <<save, wvars, file, faults, total, outp>>

\* Android only: profile number and date, 12 bytes after the CRC.
ReadProfile ==
  /\ stage = "profile"
  /\ LET n == ReadInt(SeekTo(rd, rd.ptr + 3 * IntSize))
         d == ReadUnicodeString(n.rd)
     IN  IF n.rd.thrown \/ d.rd.thrown THEN Refuse
         ELSE /\ hdr' = [hdr EXCEPT !.profile = <<n.val, d.val>>]
              /\ rd' = d.rd
              /\ stage' = "checks"
              /\ UNCHANGED <<save, wvars, file, faults, total, outp>>

\* The CRC at the end of the header area covers as many bytes as it says; bytes
\* that are not in the file have no CRC the header could hold.
HeaderCrcUnchecked(r) == TRUE                                         \* mutant
HeaderCrcMatches(r) ==
  LET at == HdrSize - 2 * IntSize
      n  == IntAtCursor(SeekTo(r, at))
  IN  /\ r.length >= HdrSize
      /\ n \in 0..r.length
      /\ CrcOf(r, 0, n) = SubSeq(r.start, at + IntSize + 1, HdrSize)

DataCrcMatches(r) == r.length >= HdrSize /\ hdr.crc = CrcOf(r, HdrSize, r.length)

Tactical(h) == h.fields[8] # 0

\* The rest of read_header.  A tactical save is refused only now.
CheckHeader ==
  /\ stage = "checks"
  /\ LET intact == Version(hdr) = Android \/ HeaderCrcMatches(rd)
     IN  IF ~intact \/ ~DataCrcMatches(rd) \/ Tactical(hdr) THEN Refuse
         ELSE /\ rd' = SeekTo(rd, HdrSize)
              /\ stage' = "scan"
              /\ UNCHANGED <<save, wvars, file, faults, hdr, total, outp>>

-----------------------------------------------------------------------------
(* Reading: the two passes over the chunks *)

\* Both loops read the first four ints of a chunk header: magic, flags, sizes.
ChunkHeaderFits == BoundsCheck(rd, 4 * IntSize)
ChunkInt(k) == IntAtCursor(SeekTo(rd, rd.ptr + k * IntSize))
GoodChunk == ChunkHeaderFits /\ ChunkInt(0) = Magic
PackedLen == ChunkInt(2)
ChunkLen  == ChunkInt(3)
ChunkBody == rd.ptr + 6 * IntSize
NextChunk == SeekTo(rd, ChunkBody + PackedLen)

Counted == ChunkLen

\* calculate_uncompressed_size, one chunk per step, then back to the first chunk.
ScanChunk ==
  /\ stage = "scan"
  /\ IF ~GoodChunk THEN Refuse
     ELSE /\ total' = total + Counted
          /\ rd' = IF Eof(NextChunk) THEN SeekTo(rd, HdrSize) ELSE NextChunk
          /\ stage' = IF Eof(NextChunk) THEN "inflate" ELSE "scan"
          /\ UNCHANGED <<save, wvars, file, faults, hdr, outp>>

\* bytes_remaining
Remaining == total - Len(outp)

\* decompress, one chunk per step.
Inflated ==
  DecompressOneChunk(Version(hdr), SubSeq(rd.start, ChunkBody + 1, ChunkBody + PackedLen), Remaining)

InflateChunk ==
  /\ stage = "inflate"
  /\ IF ~GoodChunk THEN Refuse
     ELSE IF Len(Inflated) # ChunkLen THEN Refuse
     ELSE /\ outp' = outp \o Inflated
          /\ rd' = NextChunk
          /\ stage' = IF Eof(NextChunk) THEN "delivered" ELSE "inflate"
          /\ UNCHANGED <<save, wvars, file, faults, hdr, total>>

-----------------------------------------------------------------------------
(* The saves *)

\* Where the first k fields of the header end.
FieldSize(s, k) == IF FieldKinds[k] = "int" THEN IntSize ELSE StringSize(s.fields[k])
FieldsEnd(s, k) ==
  LET n(j) == IF j <= k THEN FieldSize(s, j) ELSE 0
  IN  n(1) + n(2) + n(3) + n(4) + n(5) + n(6) + n(7) + n(8) + n(9) + n(10) + n(11) + n(12)

\* A text the reader can give back: what is empty is Latin-1 (xcomio.cpp:110).
Readable(s) == IsText(s) /\ (s.str = << >> => ~s.wide)

IsField(v, kind) ==
  IF kind = "int" THEN v \in Int ELSE Readable(v) /\ (kind = "string" => ~v.wide)

IsProfile(p) == p = <<p[1], p[2]>> /\ p[1] \in Int /\ Readable(p[2])

\* What follows the header fits into the header area: on Android the profile behind
\* the CRC and 12 bytes, elsewhere the CRC and the last two ints.  The code checks
\* neither (xcomwriter.cpp:70).
TrailerFits(s) ==
  LET end == FieldsEnd(s, Len(FieldKinds)) IN
  IF Version(s) = Android THEN end + 5 * IntSize + StringSize(s.profile[2]) <= HdrSize
  ELSE end + 4 * IntSize <= HdrSize

\* The second field is always written as 0 (xcomwriter.cpp:36), three are Booleans.
ASSUME SavesAssumption ==
  \A s \in Saves :
    /\ s.fields = [k \in 1..Len(FieldKinds) |-> s.fields[k]]
    /\ \A k \in 1..Len(FieldKinds) : IsField(s.fields[k], FieldKinds[k])
    /\ s.fields[2] = 0 /\ \A k \in 8..10 : s.fields[k] \in {0, 1}
    /\ Supports(Version(s))
    /\ IF Version(s) = Android THEN IsProfile(s.profile) ELSE s.profile = << >>
    /\ s.payload \in Seq({s.payload[i] : i \in DOMAIN s.payload}) /\ s.payload # << >>
    /\ TrailerFits(s)

-----------------------------------------------------------------------------
Init ==
  /\ save \in Saves
  /\ stage = "compress"
  /\ left = Len(save.payload)
  /\ w = Output([k \in 1..HdrSize |-> Zero])
  /\ done = 0
  /\ file = << >> /\ faults = 0
  /\ rd = Reader(<< >>, 0)
  /\ hdr = [fields |-> << >>, crc |-> << >>, profile |-> << >>]
  /\ total = 0 /\ outp = << >>

Program ==
  \/ CompressChunk \/ WriteField \/ WriteDataCrc \/ WriteTrailer
  \/ \E n \in Noise : OpenFile(n)
  \/ ReadHeaderField \/ ReadDataCrc \/ ReadProfile \/ CheckHeader
  \/ ScanChunk \/ InflateChunk

Fault ==
  \/ \E i \in DOMAIN file, n \in Noise : Damage(i, n)
  \/ \E n \in 0..Len(file) - 1 : Truncate(n)

Next == Program \/ Fault

Spec == Init /\ [][Next]_vars

-----------------------------------------------------------------------------
(* Properties *)

\* What of a save the container protects.  On Android the header has no checksum
\* (xcom.h:95-98, xcomreader.cpp:65-67), so damage to it may go unnoticed.
Protected(s) == IF Version(s) = Android THEN <<s.payload>> ELSE <<s.fields, s.payload>>

Got == IF Version(save) = Android THEN <<outp>> ELSE <<hdr.fields, outp>>

Writing == {"compress", "fields", "data_crc", "trailer"}

Stored == IF stage \in Writing THEN << >> ELSE Protected(save)
Outcome ==
  IF stage = "delivered" THEN <<"delivered", Got>>
  ELSE IF stage = "refused" THEN <<"refused">> ELSE << >>

Channel == INSTANCE SaveChannel WITH
  Values    <- {Protected(s) : s \in Saves},
  Supported <- LAMBDA c : Len(c) = 1 \/ c[1][8] = 0,
  stored    <- Stored,
  damaged   <- faults > 0,
  result    <- Outcome

\* What the promise of the channel rests on: zlib never lacks room for a chunk, and
\* on Android, where no checksum tells them from damaged ones, no save is tactical.
NothingCut ==
  \A s \in Saves : Version(s) = Android =>
    \A j \in 0..Len(s.payload) : j * MaxChunk < Len(s.payload) =>
      LET rest == Len(s.payload) - j * MaxChunk
          size == IF rest < MaxChunk THEN rest ELSE MaxChunk
      IN  PackedSize(SubSeq(s.payload, j * MaxChunk + 1, j * MaxChunk + size)) <= rest
AndroidIsPlain == \A s \in Saves : Version(s) = Android => ~Tactical(s)

\* The container implements the channel: whatever happens to the file, the reader
\* never delivers anything but what was written, and it refuses only damaged files
\* and tactical saves (the writer and the reader agree on the whole layout).
ImplementsChannel == Channel!Spec

\* decompress() trusts the sizes calculate_uncompressed_size() added up: it never
\* inflates past its buffer, and when the chunks end the buffer is exactly full.
PassesAgree ==
  /\ stage \in {"inflate", "delivered"} => Remaining >= 0
  /\ stage = "delivered" => Remaining = 0

\* An undamaged file gives back everything, the unprotected Android header and
\* profile included.
UndamagedExact ==
  stage = "delivered" /\ faults = 0 =>
    hdr.fields = save.fields /\ hdr.profile = save.profile /\ outp = save.payload

\* Every save that was written and not damaged can be read again.
WrittenIsReadable == stage = "refused" => faults > 0 \/ Tactical(save)
=============================================================================
