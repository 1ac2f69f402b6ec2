# xcomsave: specifications, model checking, proofs

xcomsave reads and writes save games of XCOM: Enemy Unknown and Enemy Within, and converts them
to and from JSON. This directory holds TLA+ modules that model its core, TLC configurations that
check them on small instances, and theorems about them checked by TLAPS. `PROJECT.json` lists
components, runs, the source lines of every definition, hazards, findings and theorems.

    tlc -workers 2 -config XcomIOReader.cfg MCXcomIOReader.tla   # any run of the table below
    tlapm XcomBuffer_proofs.tla                                  # the proofs of one module

## 1. The system

Everything is sequential C++: a library (`xcomio`, `xcomreader`, `xcomwriter`, `util`, `xcom.h`)
and two programs over it.

    save file --read_file--> container --decompress--> parser --saved_game--> xcom2json --> .json
    save file <--fwrite----- container <--compress---- serialiser <--saved_game-- json2xcom <-- .json

| part | state it keeps | operations | correct when |
|---|---|---|---|
| `xcom_io` (`xcomio.h/.cpp`) | owned buffer `start_`, cursor `ptr_`, `length_` | reads (int, float, bool, byte, string, unicode string, raw), writes of the same, `ensure`, `seek`, `crc`, `release` | the written bytes are exactly the records written, whatever growths happened; each read call undoes its write call; nothing moves outside the buffer |
| container (`read_header` .. `decompress`, `compress`, `write_header`) | the file; 1024-byte header area, two checksums, chunks of at most 128 KiB | compress, write header, read and check header, two passes over the chunks, decompress | a save comes back as it was written or is refused; damage is noticed; both passes agree |
| property lists (`read_properties`, `write_property`, `xcom.h`) | tree of properties | encode/decode 13 kinds, regroup static arrays, guess array kinds, compute sizes ahead | decode(encode(p)) = p, computed size = bytes written |
| save body (actor tables, checkpoints, chunks, name and template tables) | `saved_game` | table loops, actor-name flattening | all tables survive; the chunk loop ends where the buffer ends |
| `json_writer` (`xcom2json.cpp`) | `needs_comma`, `indent_level`, `skip_indent` | begin/end, keys, values | the text is JSON |
| document walk (`xcom2json.cpp`) | the C++ call stack | one visit per property kind | only legal writer calls; a complete document |
| `json2xcom` | JSON tree, `saved_game` | shape checks, one builder per kind | accepts what xcom2json writes and rebuilds the same save |
| conversions (`util.cpp`, `escape`) | none | CRC, hex, UTF-8/Latin-1/UTF-16, actor names | inverse pairs are inverse, and the second of a pair never fails |
| minilzo (`minilzo.c`) | dictionary, pending literals | compress a chunk, decompress it with bounds checks | every chunk comes back; a damaged one is refused; nothing outside the buffers |
| tools (`main` of both programs) | files | read, convert, open, write; default names | no save is overwritten unasked, but for one written meanwhile; a refused input leaves no trace |

Interaction is by calls. The two halves of a round trip never run together: what joins them is
the byte buffer or the file, so the hard behaviours are of five kinds.

* *Agreement across the file.* Nothing in a save says what a byte is; a reader knows it only
  from the order of its calls. A mistake of one byte derails everything after it.
* *Growth and limits.* The buffer doubles in the middle of a sequence of writes, the header
  shares its area with checksums, a compressed save is larger than the buffer assumed for it.
* *Damage.* `fwrite` is not checked, files are edited and copied. Damage may hit before, inside
  or after what is checksummed, and the chunk loops follow sizes read from the file.
* *Two programs, one format.* xcom2json and json2xcom share no code: every key, type and
  shortcut of the JSON document is written down twice.
* *Stateful text.* One flag decides each comma of the JSON, across deeply nested visitors.

There are no threads and no network. What is persisted are files, and runs of the two programs
meet there: they may be killed between opening and writing, or overlap.

## 2. Modules

| module | models | abstract counterpart |
|---|---|---|
| `XcomBuffer` | `class xcom_io` as operators on buffer records (`ensure`, writes, bounds check, reads) | |
| `XcomIO` | the writing half as a state machine: any sequence of write calls until one throws | `ByteLog` |
| `XcomIOReader` | a session: write records, hand the bytes over, maybe without their end, read them back | |
| `SaveContainer` | compress, header, file, damage, header checks, the two chunk passes | `SaveChannel` |
| `ChunkWalk` | the two loops of the reader over chunk headers that may say anything | |
| `JsonText` | JSON as a token recogniser (reference) | |
| `JsonWriter` | `json_writer`, driven by any legal caller | `JsonText` |
| `SaveToJson` | `buildJson`, the checkpoint functions and the property visitor | `JsonWriter` |
| `ArrayKind` | a dynamic array written, sized, guessed and read, byte for byte | |
| `StaticArrays` | a property list regrouped, taken through JSON or not, and renumbered | the list itself |
| `SaveBody` | actor tables, chunks, checkpoints and all properties: read, written, read, written | the file itself |
| `SavedGame` | the data model of `xcom.h`: what a `saved_game` consists of and must agree on | |
| `JsonTree` | the document as a tree: what is written, accepted, built | |
| `Tools` | runs of both programs over shared files, the game and the player; the conversions are parameters | |
| `Conversions` | strings through UTF-8, JSON escapes and back; hex; CRC; actor names | inverse, division of polynomials |
| `Lzo` | `lzo1x_1_compress` and `lzo1x_decompress_safe` | the chunk itself |
| `LzoFormat` | what it means that a stream encodes a chunk, as a relation | |
| `XcomBuffer_proofs`, `XcomIOReader_proofs`, `SaveContainer_proofs`, `SaveToJson_proofs`, `StaticArrays_proofs`, `Conversions_proofs`, `Lzo_proofs`, `Tools_proofs` | lemmas and theorems | |
| `MC...` | values for the constants | |

`XcomIO` and `XcomIOReader` extend `XcomBuffer`, and `SaveContainer` reads and writes its header
through it; `SaveToJson` extends `JsonWriter`; `JsonTree` extends `SavedGame`, and `MCTools`
gives its operators to the parameters of `Tools`. The others stand
between the same neighbours in the program and each leaves to them what is theirs: `SaveBody`
has tokens where `XcomBuffer` has bytes, `JsonTree` has values where `Conversions` has
characters.

Definitions commented `\* mutant` are seeded defects, each a plausible bug in the definition
after it. No action uses them. Substituting one for its neighbour must make the property listed
with it in `PROJECT.json` fail; that is how we know a property can fail.

### XcomBuffer, XcomIO, XcomIOReader

A byte is a cell that remembers what it is part of (`<<"int", v, 2>>` is the second byte of the
int `v`), so a byte that ends up in the wrong place is seen without modelling bit patterns.
`start`, `length`, `ptr` are the C++ fields, the cursor as an offset. `reserved` is a history
field, the furthest offset that `ensure` promised. After a growth the cells behind the cursor
are `Junk` (`new char[]` does not clear them). `Put` can move the cursor past the end, as the
code does; only `EnsureMakesRoom` says that it never happens.

* `TypeOK`, and the length stays an `int32_t`.
* `EnsureMakesRoom`: the cursor stays in what was reserved, and that in the buffer.
* `ImplementsLog`: `XcomIO` implements `ByteLog` with `log <- Contents(io)`. A record is
  appended whole or not at all, and no growth changes a byte.
* `RoundTrip`: every record of a session reads back, in order, nothing throws, and `eof()` holds
  exactly after the last one. One loss is part of `Expected`: the empty UTF-16 string comes back
  as the empty Latin-1 string.
* `NarrowLossIsNoticed`: if the end of a session of Latin-1 strings is missing, what was read is
  still right, the cursor stays inside, and not all records are returned.

With UTF-16 strings a loss is not always noticed: the bounds check counts characters
(`xcomio.cpp:119`) and the cursor may leave the buffer. What the code then reads is undefined;
`ReadWide` returns the empty string, one of the outcomes, and the property leaves these sessions
out.

### SaveContainer

`stage` is the control point of the one thread: `compress -> fields -> data_crc -> trailer ->
file -> header -> data_crc_read -> (profile) -> checks -> scan -> inflate -> delivered`, or
`refused` when an exception is thrown. Each iteration of a loop and each header field is a step.
In stage `file`, `Damage` changes a byte and `Truncate` drops the end of the file, any position,
up to `MaxFaults` times. The header passes through the operators of `XcomBuffer`, so its strings
have their real lengths and a damaged length derails the read as it does in the program. Sizes
in the file are followed wherever they lead, with the same bounds checks.

The checksum and the compressors are ideal here (`Conversions` and `Lzo` look inside): different
contents have different CRCs (CRC-32 does not promise it; the model asks whether the *right
bytes* are covered, not how strong the CRC is), and a compressor is known by its size
(`Overhead` + number of runs) and by the fact that only the whole compressed chunk decompresses.
LZO ignores the room it is given, zlib stops at it, as the calls in `compress_one_chunk` have
it.

* `ImplementsChannel`: the container implements `SaveChannel`: what is delivered is what was
  stored, and only a damaged file or a tactical save is refused. For Android the claim is about
  the payload alone, because `xcom.h:95-98` says its header is not checksummed.
* `UndamagedExact`: an undamaged file gives back all fields, the Android profile included.
* `PassesAgree`, a theorem (section 4): decompression never passes the end of the buffer sized by
  the first pass, and fills it exactly. `FillsBuffer` of `ChunkWalk` is what a run checks, for any
  chunk headers.
* `WrittenIsReadable`: used by the violation run (section 5), and proved where zlib has room.

Three conditions on saves have names. `SavesAssumption` says what every save is: fields of the
types of `struct header`, a payload that is not empty, strings that come back (an empty one is
not UTF-16), the second field 0 as the writer has it, and `TrailerFits`, that what follows the
header fits into the header area. The code does not check the last; without it the header is
written over the data and there is no layout to speak of. `NothingCut` (zlib has room for every
chunk) and `AndroidIsPlain` (no Android save is tactical: of such a save the channel holds only
the payload, so it could not say why a tactical one is refused) are hypotheses of theorems only.
`MCSaves` satisfies both, `MCSmallTail` is there to break the first.

A file shorter than the header area makes `r.size() - 1024` wrap (`xcomreader.cpp:84`), a read
far outside the buffer. The model refuses such a file; the real outcome is undefined. Truncation
there proves nothing about the C++. The header length at 1016 is treated the same way when it
points past the file.

### ChunkWalk

In `SaveContainer` damage never makes a checksum, so a wrong chunk size is refused before it is
used. But the two loops over the chunks (`calculate_uncompressed_size` and `decompress`) check
nothing of a size themselves, and a file may have right checksums and wrong sizes if another
program wrote it. `ChunkWalk` starts where the checks of the header end: each chunk header says
anything, negative and overflowing sizes included, and the decompressor makes any number of bytes
up to those it was given, or fails. `heads` remembers a header, since the second loop meets the
same; `Wrap` is what `int32_t` arithmetic gives, as built. A step is a chunk.

* `FillsBuffer`: the decompressor is never given more room than the buffer has left, and a delivered
  save fills it, also where the sum of the sizes wrapped.
* `Ends`: both loops end, or the first goes round in circles because of a header that leads back to
  itself (a compressed size of -24 in the code) or to one before it. The code does not prevent
  that: such a file hangs the reader (section 5). No other sizes do.

### JsonText, JsonWriter, SaveToJson

The text is not stored; the state holds what the recogniser of `JsonText` makes of it: the open
brackets and whether a value, key, comma or closing bracket may follow. `needs_comma` and
`indent_level` are the code's fields; `skip_indent` only moves white space. The calls of
`JsonWriter` are guarded by what a caller may do, never by `needs_comma`. `WellFormed`: the text
is the beginning of a JSON text. `FlagIsPosition`: the flag is set exactly after a complete
item, and `indent_level` is the number of open brackets.

`SaveToJson` is the only caller. It walks a save found while it is walked: a container may hold
any number of elements of any kind it can hold. `todo` holds the calls until the code looks for
the next element, one call per step. `CallsAreLegal` is `JsonWriter`'s specification `Spec`,
whose guards are what a caller may do, so what holds of `JsonWriter` holds of the document;
`DocumentComplete` adds that at the end nothing is left open. The `end_item` called again after
each chunk (`xcom2json.cpp:561`) is one of the calls, and harmless.

### ArrayKind

A save does not say what a dynamic array holds. `make_array_property` knows arrays of objects
and numbers by their size; for others `determine_array_property_kind` reads the first bytes as
if they were strings. `Init` writes an array of a known kind and what follows it; `stage` then
goes `bound -> first -> second -> third -> elements -> done`, the three middle ones being the
three strings sniffed, and `thrown` is an exception. The guess depends on bytes, so this module
has bytes and not the cells of `XcomBuffer`. Sniffing runs past the end of a short array into
what follows, as in the code. A lenient read (`throw_on_error` false) gives the empty string
where it does not believe a length, and throws as a strict one does where half a surrogate pair
cannot be converted (`IsPaired`). Not here: struct elements with other than int properties,
strings of the program with characters outside the Basic Multilingual Plane, embedded NULs,
`array_index` other than 0.

* `RecoversPlain`: an array free of these four features is read back as written, and to its last
  byte: strings of 4 or 8 bytes on average, an empty or `None` first or an empty second string;
  enums whose first name but `None` is empty or has the number 2 or a negative one, or whose
  next name is empty or a kind string; nothing but `None` or empty elements; no elements.
* `RewriteExact`: whatever an array was taken for, if the reader ends where the array ends,
  writing the result gives the same bytes. It holds for misread arrays too, which is why most
  misreadings (an array of `None` enums read as empty structs, an empty first string as raw
  bytes) do no harm. It needs `PairsAreActors`: the pair `n + 1, n` with odd `n` is accepted by
  the reader and written as another pair.
* `SizeIsWritten`: the size computed ahead is the number of bytes written.
* `SizeAgrees`: used by the violation run.

### StaticArrays

A save has no static arrays, only properties of one name with an `array_index`.
`read_properties` regroups them by looking at nothing but whether the index is 0;
`write_property` numbers them again; xcom2json condenses an array of ints or Latin-1 strings to
its values. `from`, the place a property had in the file, is history. `crashed` is what is
undefined in C++: `back()` of an empty vector, or a `dynamic_cast` that gave a null pointer.

* `OrderKept`: whatever the indices, no property is lost, doubled or moved.
* `DenseExact`: indices 0, 1, 2, ... come back, and so do the names, through JSON if an array
  has one name.
* `NoCrash`: neither undefined case happens if arrays do not mix kinds.
* `WrittenIsDense`: one rewrite settles the indices; those of a sparse array are therefore always
  changed, without notice (section 5).

### SaveBody

The body is a sequence of tokens, one per call on `xcom_io`, each with its width, so the sizes
computed ahead (`full_size`, the checkpoint's length, the padding) can be compared with what
they count. `frames` is the C++ stack of `read_properties` and its callers. A run reads a file,
writes it, reads that and writes it again. `input.rewritten` is the file with the losses that
the code has by intent or by its data types: name and template tables are emptied, indices
become dense, an actor pair becomes `(2k + 1, 2k)` or `(-1, -1)`, the byte of a bool becomes 0 or
1, and the part of a package behind a dot moves to the class. The bytes of native structs, of raw
arrays and of the dropped tables are one token each that knows what it holds.

* `RewriteExact`: what is written, both times, is that, to the token.
* `SizesAgree`: the assertions on sizes hold, for the game's files and for the program's own.
* `EndsRight`: a whole file is never refused, one that is cut or breaks a rule is always. Each
  rule of `Valid` and of the property reader is broken by a file that breaks no other, so a check
  that is forgotten is noticed.

Names are ASCII and not empty, as `xcom.h:390-392` assumes of its own size computation.

### SavedGame, JsonTree, Tools

`SavedGame` has a definition for each struct of `xcom.h`, with what ties members together: which
object property goes with which version, native data or properties, bytes and length of an
array, and the profile that only Android saves have.

`SaveJson` is what xcom2json writes, `Accepts` what json2xcom demands, `Build` what it makes of
it, each translated from its own program. A float is a number of which `Precision` digits
survive. `Tools` has the files and up to two runs at a time, each in `read -> open -> write`,
with `refused` when an exception is caught. A run may be killed in any phase. The game saves
and the player edits, spoils or deletes files at any moment, also between the check for an existing
save, the `fopen` and the end of writing. If the output was removed or written by another
meanwhile, `EndsWith` has what may be there in the end: what the run wrote, what the other wrote, or
parts of both. Two runs at once do not have the same output. `Tools` itself knows nothing of trees: saves, documents and the conversions between
them (`ToJson`, `FromJson`, `Takes`, the player's edits) are its parameters, so that what the
order of steps guarantees can be told from what the conversions must. It assumes that the game
names no save `.json` or `.out` (`NamesAssumption`) and writes whole saves only
(`SavesAssumption`), each in one step, as the player's editor does with a document.

* `SavesConvert`, that `ConversionsAgree`: for every save that can occur, json2xcom takes the
  document and refuses a spoilt one, what it builds is whole and gives the same document again,
  a regular save comes back as it was, and editing a document is editing the save. It is about
  the operators of `JsonTree` and constant in a run; the proofs about `Tools` rest on it and on
  nothing else about the conversions.
* `Faithful`: a rebuilt save is the game's save with the player's edits and nothing else
  changed, whatever conversions there were, for saves whose floats have no more digits than are
  printed and whose static arrays have one name.
* `Settled`: for all saves, what a conversion loses it loses the first time; rebuilt saves give
  the same document again.
* `BuiltIsWhole`: what json2xcom gives the writer is a saved game with no member forgotten. The
  game's own saves are assumed to be such (`SavesAssumption`, evaluated by TLC).
* `NothingTornByRefusal`: no run that refuses its input leaves a partial file or spoils a whole
  one.
* `OriginalsKept`: a run touches a save of the game only if it was told so with `-o`, or if the
  game wrote the save while the run was under way (`late`, a history variable: runs without `-o`
  under whose output the game has saved since they chose it). json2xcom looks for an existing save
  at `json2xcom.cpp:763` and opens its output long after; a save written in between is lost, and
  the property says that no other is.
* `DocumentsAccepted`: json2xcom takes exactly the documents xcom2json wrote and the player did
  not spoil. Floats are finite here; of an infinite one xcom2json makes no JSON (section 5).

### Conversions

Every loop over characters takes one step a character. `text` is what the loop runs over, `out`
what it has made. iconv and json11's string parser are external: UTF-16, UTF-8 and RFC 8259 as
they are defined. A string from the file goes through Latin-1 or UTF-16 to UTF-8, escapes, and
back.

* `StringsKept`: it comes back, except that a UTF-16 string ends at a NUL.
* `RefusedByReaderOnly`: what the reader took never fails later, when only the document is left.
* `HexKept`: blocks of bytes survive their digits.
* `CrcIsRemainder`: `crc32b` is the remainder of the polynomial named at its table, not only a
  function both directions share.
* `NamesKept`: actor names are split where they were joined; only a package must not have a dot.

### Lzo

The compressor and the checked decompressor as built on x86-64, one action per trip round a
loop. Bytes of the stream are exact. The offset limits, the block size and the number of hash
slots are constants, so that each encoding occurs on chunks of some 300 bytes. The hash is any
hash with collisions: which matches are found differs from the program, what becomes of them
does not. `reach` records the ends of the wide loads and stores. A stream then arrives whole,
cut, followed by a byte, or with a smaller size in its chunk header.

* `Restored`: a stream that arrives whole gives back the chunk, the game's own encoding
  included, and of any stream every byte produced so far is right.
* `DamageRefused`: no other returns `LZO_E_OK`.
* `CompressorInside`: loads stay inside the chunk, stores inside the bound of `testmini.c:55`.
* `DecompressorInside`: nothing is read or written outside the two buffers.

## 3. Runs

| run | configuration | expected | distinct states |
|---|---|---|---|
| `reader` | `XcomIOReader.cfg` | pass | 211 000 |
| `container` | `SaveContainer.cfg` | pass | 24 000 |
| `container_tail` | `SaveContainer_tail.cfg` | `WrittenIsReadable` violated | |
| `chunk_walk` | `ChunkWalk.cfg` | pass | 294 000 |
| `save_to_json` | `SaveToJson.cfg` | pass | 4 300 |
| `array_kind` | `ArrayKind.cfg` | pass | 24 000 |
| `array_kind_size` | `ArrayKind_size.cfg` | `SizeAgrees` violated | |
| `static_arrays` | `StaticArrays.cfg` | pass | 137 000 |
| `save_body` | `SaveBody.cfg` | pass | 40 000 |
| `tools` | `Tools.cfg` | pass | 292 000 |
| `conversions` | `Conversions.cfg` | pass | 67 000 |
| `lzo` | `Lzo.cfg` | pass | 36 000 |

What each shows is said by its properties above. Bounds, and why they are enough:

* `XcomIOReader`: ints of 2 bytes, a buffer of 8 that can grow once to 16 and then overflows
  (`MaxInt = 17`); sessions of at most `MaxItems = 4` records. A growth can happen before, at
  and inside every kind of record, and the overflow follows every one of them. Up to 3 bytes are
  missing, which covers a cut in an int, in the characters, in the terminator and between
  records. The proofs remove these bounds.
* `SaveContainer`: 1-byte ints, 22-byte header area, chunks of at most 40 bytes, one or two
  chunks with a short and a full last one; saves of each version, one tactical. One fault at
  every position with values `0`, `19` (turns the version into Android's) and `99`. `Overhead =
  2`.
* `ChunkWalk`: ints of five bits, headers of 6 bytes of which 4 are read, a file with room for
  headers that overlap. Compressed sizes that lead before the file, back by a byte, to the same
  header, to the next byte, to the end of the header, behind the file, and behind the largest int;
  uncompressed sizes whose sums are negative, wrap to zero, and wrap to the size of a chunk.
* `SaveToJson`: `MaxFrames = 7`: save, chunk, checkpoint, and four more, so that a struct array
  element inside a struct array element is reached; `MaxDepth = 17` is above what seven frames
  open, and the proofs about `JsonWriter` remove it. Containers are not bounded in length; flat
  arrays have up to `MaxElements = 2` elements (no, first and following separators).
* `ArrayKind`: up to 3 elements of each kind, which is more than the sniffing looks at once
  `None` elements are skipped; every sequence over names and numbers that are ordinary, empty,
  `None`, a kind string, or read like a length. Two continuations of the file, with and without
  a further property.
* `StaticArrays`: every list of up to three properties of two names, four kinds and the indices
  0 to 2, and of four int properties, so that an array may follow an array; both ways. The
  proofs remove the bound for two of the properties.
* `SaveBody`: two layouts; every kind of property, first or last in its list, with and without
  padding; up to three actors, two checkpoints, two entries in each dropped table, two chunks;
  one file of two chunks cut at each token; for each rule of the reader a file that breaks it
  alone (`BrokenFiles`).
* `Tools`: four saves (one of each version, of which the third has a float of too many digits and
  a static array of two names, and a tactical one), which between them hold every kind of property;
  at first there is a save or the document of one. Two runs, one after the other or at once
  (`MaxRuns = 2`): from a save there and back, and from a document back and there, so that the second
  conversion of either kind is seen. `Runs` is symmetric. Names: a save, its document, and the
  fallback. The proofs remove these bounds.
* `Conversions`: strings of up to three characters from both ends of every range that the code,
  Latin-1, UTF-8 and UTF-16 tell apart; blocks of up to two and messages of up to three bytes;
  names made of up to two letters, dots and underscores.
* `Lzo`: `Block = 74`, `M2Max = 8`, `M3Max = 14`, `Hi = 30`, `Slots = 64`, so that two-, three-
  and four-byte matches with both values of the high offset bit, long counts, runs of every
  length class and up to four blocks occur; chunk lengths on both sides of every threshold. The
  short matches M1, which this compressor never makes, occur in a stream as the game's does.
  Two corners are not reached: one to three literals carried over a block boundary into the
  next block, and a match that starts before the chunk.

Deadlock is checked for `SaveBody`, `Tools`, `Conversions` and `Lzo`, which have a step for
having ended (in `Tools`, the game can always save again) and must stop nowhere else.
`CHECK_DEADLOCK FALSE` is set for the others, which just stop: a writer that threw, a session
that was read, a save delivered or refused, an array read, a list written, a document finished
or as deep as the bound. That the loops over the chunks stop nowhere earlier is `Ends`.

Fairness is stated once, `WF_vars(Next)` in `ChunkWalk`: the reader is a single thread that does
not block, and all its steps are the program's, so as long as it can take one it does.

## 4. Proofs

`PROJECT.json` lists every theorem under `theorems`. An invariant that a run checks is seldom
inductive; what had to be added to each is said here. All hold for every value of the constants
that satisfies the named assumptions of the modules, which TLC evaluates in the runs.

**`XcomBuffer_proofs`** has the lemmas about `class xcom_io` that the next two need: how long
each encoding is, what `ensure` preserves and yields, what each write call appends, and what
each read call returns where such an encoding stands.

**`XcomIOReader_proofs`**, the writing half (every alphabet, size, set of requests):
`TypeCorrect`, `EnsureIsEnough` (`EnsureMakesRoom`), `RefinesLog` (`ImplementsLog`). All three
assume `SmallRequests`, that no single request is larger than the initial buffer (1 MiB in the
code). Without it the second is false: `ensure` doubles once (`xcomio.cpp:191`). The inductive
invariant is `Good`: besides the properties it needs `InitialSize <= length`, because one
doubling gives `length` more bytes behind the cursor, which is enough only for requests that
small. Each write call is one lemma that its encoding is appended to `Contents`, and the
refinement follows action by action.

The same module, sessions of any length, cut anywhere: `RecordsReturn` (`RoundTrip`) and
`NarrowLoss` (`NarrowLossIsNoticed`). `SessionInv` says where the records are: there is a
function of offsets, one more than records, each the one before plus the length of an encoding,
and the bytes between two of them are that encoding (`Layout`). The reader stands at the offset
of the next record, or refused in a buffer that was cut (`Progress`). So no induction over the
records is needed: each step of the reader meets one record at a known place, and one lemma for
each kind of read call (`ReadIntGood`, `ReadNarrowGood`, `ReadWideGood`, `ReadRawGood`) says
that it returns it or throws. The hard parts are `strlen`, the least of a set of terminators,
and UTF-16 text: `Sound` drops the claim for it once bytes are missing, because the bounds check
is wrong there. `RecordsReturn` assumes that no record is empty bytes (`<< >> \notin Raws`): the
reader's loops run until `eof()`, which is already true when only such a record is left, and
`read_raw` of nothing occurs in the code only inside a larger record.

**`SaveContainer_proofs`** (saves of every content, any number of chunks, any sizes, any number
of faults): `PassesAlwaysAgree` (`PassesAgree`), `UndamagedIsExact` (`UndamagedExact`),
`OnlyWrittenIsDelivered`, `WrittenCanBeRead` (`WrittenIsReadable`, assuming `NothingCut`) and
`ContainerIsChannel` (`ImplementsChannel`, assuming `NothingCut` and `AndroidIsPlain`). The
inductive invariant `ContainerInv` has four parts, one for each thing the program holds.

1. `WriterInv`: the chunks already compressed stand one behind the other from `HdrSize` on, and
   there are functions from chunk numbers to offsets and to payload positions that say where
   (`Packs`); the header fields written stand in the header area, each at the sum of the sizes
   before it (`FieldsPlaced`), and writing them leaves everything behind the area alone.
2. `FileInv`: each byte of the file is the one that was written or a damaged one, none is
   behind the end that was written, and without a fault the file is what was written
   (`Original`). Damage makes no checksum, which is what an ideal CRC is.
3. `HeaderInv`: the reader goes over exactly this file; if the header in it is intact, the
   fields read so far are the save's and the cursor is at the end of the last one.
4. `PassInv`: once the checksums matched, the data area is the one that was written, to the last
   byte (`DataCrcProves`), and on PC the header is the save's (`HeaderCrcProves`). From then on
   damage plays no role: the first pass is at the start of a chunk and has counted the payload
   up to it, the second has inflated just that.

A damaged Android header can still name another version. `OnlyWrittenIsDelivered` holds all the
same: chunks of the other codec do not decompress, so `SameCodec` holds on delivery. In the
refinement the writer's steps and each read that goes on are stutters, the last write is
`Store`, a fault is `Damage`, and a refusal needs `RefusedRightly`, which goes through every
check of the reader and shows that an undamaged file passes it.

**`SaveToJson_proofs`** (every nesting depth of the writer; every nesting, number and kind of
containers and every length of a flat array in the walk), in two parts.

*The writer*: `TypesHold`, `TextIsWellFormed`, `FlagTellsPosition`. `WellFormed` is not inductive:
a comma is right only if `needs_comma` says whether an item is complete, and closing is possible
only if the phases `first` and `more` have an open bracket. `Inv` says so and determines the whole
state from the stack and the phase. `Legal` is a call as the recogniser alone sees it, from one
position to the next; `CallTakes` shows that the writer, which does not see the position, goes
there, and `StepIsCall` that the steps of `JsonWriter` are exactly the legal calls.

*The walk*: `WalkIsLegal` (`CallsAreLegal`, the refinement of `JsonWriter`), `WalkCompletes`
(`DocumentComplete`), and `WalkWritesJson`, which gives the writer's invariants for the walk. What
a visitor writes is a list of calls: `Runs(calls, p, q)` says that they are legal one after the
other from `p` and end at `q`, `Fills` that they add items to the brackets that are open.
`RunsBoth` puts lists together; then there is one lemma for each piece of a document
(`FillsFlat`, `FillsHeader`, `FillsActors`, `OpeningRuns`, `ClosingRuns`), whatever the lengths of
the arrays in it (`TimesSteps`). The inductive invariant `WalkInv` says that `todo` leads from
where the text is to where the next element of the innermost container is written, or to the end
of the text, and that this place is the one the stack of containers gives (`IsStack`). A container
opens at most two brackets (`StackIs`), so `WalkAssumption` leaves room for every call.

**`StaticArrays_proofs`** (property lists of any length): `ListOrder` (`OrderKept`),
`DenseLists` (`DenseExact`), `KindsAreSafe` (`NoCrash`), `Densified` (`WrittenIsDense`). The
inductive invariant `Inv` says that the groups of `list` cover the properties read so far, one
after the other without gaps (`Covers`), that each is a run of neighbours of one kind if the
file mixes none, which in a dense file carry the indices 0, 1, 2, ... (`GoodGroup`), and that
the writer is at the element behind the last it wrote (`WriteInv`). The case that needs care is
an array that starts: the last group is taken back, and it is a plain property with index 0
exactly because the file is dense.

**`Conversions_proofs`** (data of any length): `HexBlocks` (`HexKept`), `StringsSurvive`
(`StringsKept`), `OnlyTheReaderRefuses` (`RefusedByReaderOnly`), `NamesSurvive` (`NamesKept`) and
`CrcIsDivision` (`CrcIsRemainder`). They assume that a string is made of bytes or of UTF-16 units,
blocks and messages of bytes (`StringJobsAssumption`, `HexJobsAssumption`, `CrcJobsAssumption`), that
an instance is an int (`NameJobsAssumption`) and that the generator has 32 bits below the highest
(`PolyAssumption`).

1. *Loops in the state.* `HexInv` says what the two loops over a block have made so far, digit by
   digit. For strings the loops take one to six characters a round, so where a loop stands depends on
   everything before. `IsLayout` says it without recursion: there is a function of offsets, one more
   than characters, and between two of them stands the piece of that character (`Spells`).
   A loop that writes appends a piece (`SpellsMore`); a loop that reads stands at the offset
   whose number is how many characters it has made (`Follows`, `FollowsNext`). `escape` and Latin-1 to UTF-8 are two such codes; `ParseCases` shows that the parser
   takes no other way than back over the piece, and so never throws.
2. *Functions of the whole string.* `Points`, `Utf8`, `Utf16`, `Digits`, `Value`, the table and the
   division are recursive functions. What such a function computes is an induction over data, for
   which the library's theorems cannot be used here. Instead: a function with the equations exists
   (`CountedUp` from the front, `Chained` for steps of any length), so the function that is chosen
   has them too; and a set of numbers that has the first and each next one has all of them
   (`Upwards`, `Backwards`, from `LeastElement`). `WideBack` follows for UTF-16 to UTF-8 and back,
   from the place of one character to the next, `DigitsGood` for numbers and their digits,
   `NameBack` for names.
3. *The checksum.* The register after `j` bytes is the window of 32 bits that the division has
   reached after `8 * j` places, plus the bits of the message that stand there
   (`IsWindow`), since the register has not met those. `ByteStep` is the argument behind every table-driven CRC:
   the register of the table differs from that window, after each of the eight shifts, by the
   bits still to be met and by the rest of the register, which the table does not know
   (`IsAhead`, `ShiftAhead`).

**`Lzo_proofs`** (every chunk, block size and offset limits that the encodings can hold):
`CompressorStaysInside` (`CompressorInside`) and `DecompressorStaysInside`
(`DecompressorInside`). For the compressor the invariant is an account: at every step the bytes
written for the first `e` bytes of the chunk are at most `e + e / 16` (`Sized`), the pending
literals not being counted yet. `MatchLenGood` says that a match of four bytes or more pays for its
code, and that the wide load which ends it stays in the block although it looks eight
bytes ahead, because a block is only searched up to its last 20 bytes (`IpEnd`); a run of
literals costs a byte in sixteen at worst. The 67 bytes of `testmini.c:55` are what the last
run, the end mark and the spill of a wide store can add. The dictionary holds positions before
the one looked at, so the source of a match is never ahead of it. For the decompressor nothing
is assumed of the stream, its length or the room there is: every loop keeps
`ip <= Len(src)` and `Len(got) <= room`, and three more bytes of input wherever an instruction
is decoded without a check.

The same module: `ChunksRestored` (`Restored`) and `DamageIsRefused` (`DamageRefused`).
`LzoFormat` says what a compressed form of a chunk is without a decompressor. A *place* is a label,
a position in the stream, the literals still owed and a position in the chunk; `Says` is the
relation between a place and the next, one disjunct per instruction; `Encodes` says that there is
a set of places which holds the first and of which each leads to another or is the end of both
stream and chunk. Nothing is recursive, so a parse can be extended at its front (`Backward`) and
followed (`Onward`) without induction. The proof has three parts.

1. *The compressor.* Its output cannot be described by what it has said so far, since literals
   that come later are or-ed into the last match (`OrCount`). `Progress` says it the other way
   round: what is written, whatever follows it, leads from the first place to the place behind it
   *if* that place leads on (`Opens` before the first match, `Written` after it, with the two bits
   left open), so that `Ending` closes all of it at once (`EndingEncodes`). One lemma for each
   encoding says that its bytes say what they stand for, and that a match found in the
   dictionary and extended eight bytes at a time repeats what is there (`MatchRepeats`).
2. *The decompressor.* `Following`: it stands only where the written stream says the rest of the
   chunk, and every byte it made is the chunk's. A decoding loop over a count meets the least of a
   set of positions (`LeastElement`); a copy of a match that overlaps itself repeats the bytes
   before it (`EarlierRepeats`, by the least byte that would differ).
3. *Damage.* A stream that was cut agrees with the written one up to its end, so the decompressor
   follows the same way and finds fewer than three bytes in front of it, or a run that is not
   there; one with a byte too many ends early; one with too little room overruns.

Both assume that the streams in `GameMade`, which the game's own compressor wrote and no code here
produces, encode their texts; for the stream of the run `MCLzo` gives the places and TLC
checks them (`GameMadeAssumption`). Of `Inputs` nothing is assumed but that they are bytes.

**`Tools_proofs`** (any number of runs, names and saves). Two theorems need nothing of the
conversions: `RefusalTearsNothing` (`NothingTornByRefusal`) and `OriginalsAreKept`
(`OriginalsKept`, an action property), in which the game, the player and the runs interleave
freely. Their invariant `Inv` says that two runs never share an output, that what a run writes to
is not a save of the game unless it was named with `-o` or the run is in `late` (`Unnamed`: it holds
when the output is chosen, and whenever the game saves there afterwards the run joins `late`), and
that a file is half written only while a run is writing it or after it was killed. Four assume
`ConversionsAgree`: `StaysFaithful` (`Faithful`), `Settles` (`Settled`), `BuildsWhole`
(`BuiltIsWhole`) and `DocumentsTaken` (`DocumentsAccepted`, an action property). `SoundInv` adds
that whatever is in a file, after any number of conversions and edits, is what *one* conversion
there, or there and back, makes of a save the game could have written: a second trip changes
nothing, and an edit of a document is an edit of that save. That the conversions do agree is
checked by TLC on the trees of `JsonTree` (`SavesConvert` in run `tools`), whose operators are
recursive.

### Only model-checked

* `Ends` is liveness, which the prover does not reach. `FillsBuffer` of `ChunkWalk` has no
  theorem.
* `SizesAgree`, `EndsRight`, `SavesConvert` and the `RewriteExact` of `SaveBody`: `SaveBody` and
  `JsonTree` use RECURSIVE operators over trees, which no installed prover takes.
* `RecoversPlain`, `SizeIsWritten` and the `RewriteExact` of `ArrayKind`: sizes and bytes of an
  array are folds over its elements. `RewriteExact` is also about the arrays of the run, not about
  every sequence of bytes: a string of length 1, which holds only its terminator, would be read as
  the empty string and written with length 0. No array of the run has one.

## 5. Disagreements found

Each is a run with `expect: violation`; `PROJECT.json` quotes the lines.

1. On Android a last chunk that does not shrink is cut (`xcomwriter.cpp:383`, `422`): `deflate`
   gets as much room as there is input and its result is ignored. The save that was written
   cannot be read.
2. A string array with an empty second string is taken for an enum array and read past its end
   (`xcomreader.cpp:224`, against the `assert` at 445).

Seen in the code, and described where the model has it, but not a run:

* A compressed size of -24, minus the size of a chunk header, leads the loops over the chunks
  back to the same header, so that reading a file with such a size and right checksums never
  ends (`xcomreader.cpp:647`; the comments at 645 and 728 say "Skip to next chunk"). `Ends` of
  `ChunkWalk` names the case.
* A sparse static array is renumbered without notice (`xcomreader.cpp:468`, where the comment says
  "This new property should have index 1."). `WrittenIsDense` of `StaticArrays` implies it.
* `ensure()` doubles once; a request more than twice as large as the buffer would not fit
  (`xcomio.cpp:191`).
* The bounds check of a UTF-16 string counts characters (`xcomio.cpp:119`).
* The compressed output goes into a buffer of the uncompressed size (`xcomwriter.cpp:403`),
  without the header area and the chunk headers, and less than LZO's worst case (the container
  model lets the output grow).
* A header longer than 1016 bytes is written over compressed data (`xcomwriter.cpp:70`; the
  model does that too, and its saves have headers that fit).
* An enum array whose first element has the number 2 is taken for a string array
  (`xcomreader.cpp:226`), and strings of 8 bytes make an array of actor pairs, which throws
  (`xcomreader.cpp:266`); `RecoversPlain` leaves both out.
* Floats are printed with six digits, NaN and infinities as words that are not JSON, and -0.0 as
  0 (`xcom2json.cpp:155`).
* A raw array with bytes but a bound of 0 or less, which the game has no reason to write, goes
  into JSON as the number of its bytes without them (`xcom2json.cpp:319`); json2xcom then has no
  data and the writer copies that number of bytes (`xcomwriter.cpp:184`). json2xcom checks the
  length a document gives against its data by an assertion only (`json2xcom.cpp:413`).
  `IsArray` leaves such arrays out.
* `rfind(".json")` also finds it in the middle of a name, and json2xcom overwrites an existing
  `.out` file (`json2xcom.cpp:761-769`); the existence of the save is checked before anything
  else is done, so a save the game writes meanwhile is overwritten (`OriginalsKept` says so).
* Upper-case hexadecimal digits are decoded as 5 to 10 (`util.cpp:141`).
* A character outside Latin-1 typed into a string whose `is_wide` is false loses bits.
* An actor name without an underscore reaches `std::stoi`, whose exception nobody catches.

## 6. Not modelled

* Names of properties that are empty or not ASCII, and empty UTF-16 strings, in `SaveBody`
  (`xcom.h:390-392`).
* In `ArrayKind`: struct elements with other than int properties, strings with characters outside
  the Basic Multilingual Plane (other than in raw bytes taken for strings).
* The 256 constants of the CRC table (`util.cpp:42-96`): `Conversions` computes them from the
  polynomial the table is named after.
* `usage()` and errors in the arguments, which end a program before it touches a file;
  `setlocale`; debug dumps (`output.dat`); error messages (`xcomerror.cpp`); `jsonwriter.h`,
  which nothing uses.
* zlib, iconv and json11: external libraries, assumed as described above.
* minilzo's checksum, its configuration checks, the memory routines and the variants for other
  platforms, which make up most of the 9 800 lines of `minilzo.c`, `lzodefs.h` and `lzoconf.h`:
  xcomsave calls `lzo_init`, `lzo1x_1_compress` and `lzo1x_decompress_safe`, and on one platform
  only one variant of each is compiled. `Lzo` models those two.

Left to do: the theorems of `ArrayKind`; the buffer of fixed size in `compress()`.
