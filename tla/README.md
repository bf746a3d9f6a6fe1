# shroom-lib in TLA+

This directory holds a verification project for shroom-lib, a set of Rust crates
that speak the network protocol and read the data files of a game: TLA+ modules
translated from the crates' code, TLC configurations that check them on small
instances, and TLAPS proofs about ten of them for every value of their
constants. `PROJECT.json` lists the components, the runs, the mutants that show
each property can fail, the source lines of every definition, the hazards of
the code, and the theorems.

    tlc -config LegacyLink_aes.cfg MCLegacyLink     # a run
    tlapm LegacyLink_proofs.tla                     # the proofs of a module

## 1. Inventory

Paths are below `src/crates/`.

### shroom-net: the legacy connection

| part | state | operations |
|---|---|---|
| `codec/legacy/codec.rs` | encoder: a `NetCipher`; decoder: a `NetCipher` and the length of the packet it waits for | `encode`, `decode`, `read_packet_len`, `check_packet_len` |
| `codec/legacy/handshake.rs`, `handshake_gen.rs`, `mod.rs` | the handshake; the limits | generate, encode with a length, read it off the raw transport, build the client's and the server's codec |
| `stream.rs` | a `FramedRead` and a `FramedWrite` over the halves of a transport | `Sink` (ready, send, flush, close), `Stream` (next), `close`, `into_split` |
| `codec/websocket.rs` | a websocket stream | send and receive of binary messages |

A program sends a packet through `FramedWrite` (tokio-util), which calls
`encode` at once and keeps the bytes until they are flushed; the transport
splits them at will; `FramedRead` reads pieces and calls `decode` until it wants
more. Both ciphers of a direction advance by one round key per packet, which is
never transmitted: the ends have to stay in step by counting.

*Hard*: frames cut at any byte; the length remembered between two calls of
`decode`; empty packets; a round that must advance exactly once per packet at
both ends; futures dropped in the middle of a flush; backpressure in both
directions at once; a server that sends frames right behind its handshake; a
close that races with data in the buffers; limits that differ between ends.

*Correct means*: the packets yielded are those sent, in order, once each; the
two ciphers of a direction are in step; no complete frame waits in a buffer for
bytes that will not come; a clean end means nothing was lost; what a reader that
goes on after an error gets is no packet in another's place; buffers are bounded;
closing and creating terminate.

### shroom-crypto

| part | state | operations |
|---|---|---|
| `net/net_cipher.rs`, `header.rs`, `mod.rs` | the round key, the version | encrypt, decrypt, `encode_header`, `decode_header`, invert of a version |
| `aes_cipher.rs`, `ig_cipher.rs`, `shanda_cipher.rs` | none | the block ciphers, and the hash that makes the next round key |
| `wz/data_cipher.rs` | a cache of keystream; a stream position | one-shot crypt, streaming crypt, reset |
| `wz/offset_cipher.rs` | magic and version hash | offsets of archive entries |

*Hard*: the header is the only authentication there is, and both directions of a
connection use ciphers of the same construction; the keystream comes from a
cache first and from a running cipher behind it.

*Correct means*: a header decodes to its length and is refused by ciphers of
another round or direction; streaming in any pieces equals one-shot crypt.

### shroom-pkt

| part | state | operations |
|---|---|---|
| `reader.rs`, `writer.rs` | a position or a buffer | reads with bounds, writes, multi-line strings |
| `util/packet_buf.rs`, `util/encode_buf.rs` | bytes of several messages | encode, iterate, clear; encode and split off |
| `proto/*`, `shroom-pkt-derive` | none | encodings of lists, options, conditionals, partial data, times; derived codecs |

*Hard*: an encoding that fails half way leaves bytes behind; lengths that do not
fit their field; sentinels of times; conditionals that differ between encode and
decode.

*Correct means*: what is iterated over or split off is exactly the messages;
decode inverts encode.

### shroom-img and shroom-wz

| part | state | operations |
|---|---|---|
| `shroom-img/str_table.rs`, `reader.rs`, `writer.rs`, `value.rs`, `data.rs` | strings by offset and offsets by string; file positions; lengths still to be patched; a buffer for resolved data | write and read a tree, fail half way, skip an object, resolve canvas and sound data later |
| `shroom-img/util/chunked.rs` | remaining chunk, buffer, keystream | write chunks, read through a buffer |
| `shroom-img/crypto.rs`, `ty.rs` | none | masked strings, compressed integers |
| `shroom-img/canvas`, `sound`, `json`, `img-extractor` | none | pixel formats, headers, export |
| `shroom-wz` | an archive's directories | encrypted offsets, version hash, sub readers of an img |

*Hard*: two ends that must assign the same offsets to the same strings although
only one of them sees the tree; lengths known only behind what they measure;
objects that are skipped, and with them the strings they define; a write that
fails in the middle of a tree; numbers that look like the escape of their first
byte; strings and chunks across the boundaries of pieces, buffer and cache; data
cut off.

*Correct means*: references resolve to the string that was written; lengths are
exact at any nesting; a tree that was written is the tree that is read, and one
that was not written whole is not taken for one; strings and chunked data come
out whole and decrypted, or an error is reported.

## 2. Modules

| module | models | uses |
|---|---|---|
| `FrameChannel` | what a direction promises: a channel of whole packets | |
| `LegacyLink` | one direction, byte for byte: encoder, `FramedWrite`, transport, `FramedRead`, decoder | `FrameChannel` (refined) |
| `LegacyLink_proofs` | theorems about it and `PacketHeader` | `LegacyLink`, `PacketHeader` |
| `LegacySession` | both ends from the handshake on, both directions | |
| `EchoSession` | the echo programs of shroom-net's tests over a session | `LegacySession` |
| `LegacySession_proofs` | theorems about both | `EchoSession` |
| `PacketHeader` | `encode_header`, `decode_header`, bit for bit | |
| `ImgFile` | an img file between writer, reader and data resolver: strings, references, lengths, data | |
| `ImgTree` | trees of values and objects on their way through such a file | `ImgFile` |
| `ImgFile_proofs` | theorems about both | `ImgTree`, `DataInduction` |
| `ChunkedStream` | chunked data between writer and reader, with the keystream | |
| `ImgText` | a string on its way through mask and cipher, in front of chunked data | `ChunkedStream` |
| `ChunkedStream_proofs` | theorems about both | `ImgText`, `DataInduction` |
| `PacketCodec` | the data types of shroom-pkt and the derived codecs, between a writer and a reader of cut data | |
| `PacketCodec_proofs` | theorems about it | `PacketCodec`, `DataInduction` |
| `WzArchive` | an archive's directories, encrypted offsets, version detection and sub readers | |
| `WzArchive_proofs` | theorems about it | `WzArchive`, `DataInduction` |
| `MessageBuffers` | the two message buffers and the multi-line strings in their messages | |
| `MessageBuffers_proofs` | theorems about it | `MessageBuffers`, `DataInduction` |
| `DataInduction` | induction over naturals and sequences, and what recursive functions are | |

`MC...` modules give the constants that a `.cfg` cannot express. Definitions
that directly precede another one of a similar name (`EncodeFrameLate` before
`EncodeFrame`) are mutants: changed forms that are not used, and with which
the property named in `PROJECT.json` fails.

### LegacyLink

The bytes of a direction are numbered in the order in which they are encoded;
each buffer is a window of these numbers: `[consumed, arrived)` is the buffer of
`FramedRead`, `[arrived, flushed)` is in the transport, `[flushed, Encoded)` is
the buffer of `FramedWrite`. What a byte says follows from the frame it lies in
(`frames`).

| TLA+ | code |
|---|---|
| `StartSend` | `start_send` and `LegacyEncoder::encode`: limit, header, encryption, key step |
| `PollReady`, `PollFlush`, `CancelFlush`, `Write` | `FramedWrite` with its backpressure boundary; a flush that is dropped half way |
| `Close`, `Shutdown`, `Drop`, `Reset` | `ShroomStream::close`, a dropped stream, a failed transport |
| `AwaitHeader`, `RejectHeader`, `AwaitBody`, `TakeFrame` | the returns of `LegacyDecoder::decode` |
| `Poll...` | the states of `FramedRead`'s `poll_next`: readable, framing, eof, errored, paused |

`FramedRead` and `FramedWrite` are tokio-util's and are not in the repository;
they are modelled from how `stream.rs` uses them and marked external.

Abstractions: a packet is an identity and a length. Four bytes that are not a
header of the decoder's round may be refused or pass for a header of any length
(`HeaderLengths`), with AES and without: without, nothing is checked, and with AES
16 bits are compared, of which `PacketHeader` says exactly when they agree. The
round keys of different rounds are taken to be different, and decryption of
anything but the whole body of a frame with the key of its round gives `Garbled`.
Both ends are assumed to use the same `SharedCryptoContext`.

**After an error.** A refused header is gone from the buffer, and `FramedRead`
polls on: the decoder scans what follows, the body of the refused frame first, in
steps of four bytes. With AES about one in 65536 passes for a header, or one that
whoever chose the body meant to pass, and without AES every one whose length is
within the limit; a garbled packet is yielded then, and the round key steps. So
"nothing is yielded after an error" is not true of the code, and the models do not
claim it: `DeliveredIsPrefix`, `KeysInStep`, `NoFrameHeldBack` and
`CleanEndMeansWhole` are about a stream without an error, and a channel promises
nothing of what is delivered behind one. What does hold with AES is
`PacketsKeepTheirPlace`: as the round key steps once per packet, garbled ones
included, the n-th packet yielded is the n-th sent or garbled, never an earlier one
again nor a later one early.

**A cut frame.** If the stream ends right behind the header of a frame, the
decoder has taken the header off the buffer and remembers the length; the
buffer is empty, so `decode_eof` of tokio-util finds no bytes remaining and the
stream ends with a clean `None`. A cut at any other byte of a frame is an error.
`CleanEndMeansWhole` states both. For the program nothing that was completely
written is lost either way.

### LegacySession, EchoSession

The handshake's bytes are single units of a bounded transport; a frame is one
unit (its bytes are `LegacyLink`'s). The server is free to send as soon as it
has written the handshake, so frames may follow it in the same read: `ReadExact`
takes at most what is wanted, because `read_exact` hands the transport a buffer
of that size. A handshake is a version, two round keys and a *shape*: the length
it announces and the bytes its fields take. Servers other than this one may send
shapes in which these differ or exceed the limit. A cipher is its initial key,
its version and the number of rounds. `LegacyClient` never uses the version of
its own generator; a client built for another version than the server's is in
the run.

`EchoSession` restricts the programs to those of the tests: each sends (and
waits for the flush) and receives in turn.

### PacketHeader

A word is a function from bit positions to bits, so that the theorems hold for
every width. The initial states contain every pair of ciphers of a connection;
the one step decodes. In step, other round, other version and own reflected
direction are all among them.

### ImgFile

The file is the sequence of items that `Property::write` and `Value::write`
produce (strings, references, plain values, object headers, data blobs) with
their true positions and sizes; here they come in any order. An object's length
is a dummy until `EndObject` patches it. The reader makes the calls that mirror
the writer's, because both follow the tree. Strings below the table's limit are
never shared; the limit counts UTF-8 bytes, the position counts encoded bytes,
and the instance has strings for which the two disagree in both directions.
Positions are unbounded (the code has 32 bits and files are far smaller).

### ImgTree

A tree is turned into the calls of the `ImgWriter` in the order in which
`Object::write` and `Value::write` make them (`ObjectOps`), the calls are
`ImgFile`'s actions, and `Object::from_reader` is a stack of what the reader
expects next (`expect`), to which every type, count and flag it reads adds what
lies behind it (`BehindType`, `BehindPlain`). A file whose items are loose
(`tree = None`) is `ImgFile`'s; both kinds are in the run.

| TLA+ | code |
|---|---|
| `EncInt`, `DecInt`, `TakesInt` | `WzInt` and its relatives in `ty.rs` |
| `ValueOps`, `PropertyOps`, `BodyOps`, `ObjectOps`, `CanvasOps`, `SoundOps`, `ConvexOps` | `Value::write`, `Property::write`, `Object::write`, `write_canvas`, `write_sound`, the lists of vectors |
| `WriteNext`, `WriteEnd`, `WriteFails`, `Close` | a call, the patch behind an object, a call that returns an error, the end of the program's writing with or without one |
| `TreeReadString`, `TreeReadPlain`, `TreeReadObject`, `TreeSkipData`, `TreeReadFails` | the reads of `from_reader` and the ways they fail |
| `TreeResolve`, `ResolveSound` | the two resolvers of `data.rs` |

The trees are given by depth (`Trees`): what is in an object is less deep than the
object, and the calls of objects up to a depth are a function of those of the
depths below (`ObjectOps`).

The bounds of an `i8` and of a wider number are the parameters `Small` and `Wide`,
128 and 2^31 in the code. The run scales them to 2 and 8: an `i8` has the values -2
to 1, wider signed numbers -8 to 7 and unsigned ones 0 to 15, so that the escape,
both ends of what fits a byte and the way of an unsigned number through its signed
form (`AsI32`, `AsU32`) are all there. A float is its bits. A magic byte is one
byte. A sound without data leaves no item in the file.

A write fails where the data of a canvas or a sound is owned (refused before a
byte of it is written) or where its resolver fails: behind the canvas header and
the dummy length, but in front of everything of a sound. `FailureIsNoticed` says
what a reader makes of the file that is left: an error at its end, with one
exception. When the failed canvas is the last thing in the tree the file is
complete but for the data, and it reads as a tree with an empty canvas.
`TreeReadsBack` leaves out the sounds whose wave header announces other extra
bytes than its format writes (see the observations): everything behind such a
header is shifted.

### ChunkedStream

A byte of the payload is named by its chunk and offset, and decrypts correctly
only with the byte of the keystream at that offset. `KeyStream` is
`WzDataCryptStream::crypt`: cache first, the running cipher behind it, both reset
at a chunk. The data may end at any byte. The program is assumed to stop at the
first error, and both ends to use one cipher. An end before or within a length
is taken for a clean end by the code (`ReadEnd`), an empty chunk is refused by
the reader although the writer accepts it; the properties say so.

### ImgText

A string is a sequence of `latin` characters, `wide` ones and `pair`s of
surrogates; its units are bytes if all are Latin-1 and UTF-16 otherwise, and a
unit on the disk keeps the keystream and the place in the mask it was encoded
with. The length is in the first byte or behind an escape (`Header`, `Count`).
`WritePiece` and `ReadPiece` are the loops of `write_str_inner` and
`read_str_inner`, `ReadWhole` the decoding of a `WzStr` as a whole; either reader
may read what the writer wrote, and both have to meet the keystream of
`ChunkedStream` at the same bytes. The file may be cut in the string. Escapes,
pieces and cache are scaled down to 4, 3, 2 and 3.

`TextReadsBack` is the contract with two exceptions the code has. Without a
cipher the writer returns before it masks and the reader unmasks all the same, so
nothing but the empty string comes back. And `read_str16` decodes each piece on
its own, so a pair of surrogates across the boundary of two pieces is an error.
When the string is over the program goes on with chunked data (`GoOn`).

### PacketCodec

A packet is a `schema`, the types of its fields in order: what the derive macros
see of a struct. A field's condition, side or size looks at the field before it,
as the attributes `if`, `either` and `size` do. `EncodeField` writes the next field
with any value of its type, `Send` hands the reader the packet or any first part
of it, `DecodeField` decodes the next field, `TryDecodeField` the last one with
`try_decode`, and `Complete` is the test of `decode_complete`. A byte has the
values `0 .. Max` and stands for every number of one word, the lengths of lists,
indices, tags, flags, times and their offsets included; a `word` is two bytes, so
that it can be cut in the middle, and the length of a string is one. Conversions
cut and wrap as the code's do (`%`, `Signed`, `Negated`).

The types (`Kinds`) are the integers, the four blocks of a `u128`, strings with
and without a limit and fixed ones, arrays, tuples, boxes of points, lists with a
length and lists with a terminator, options, conditionals, sized lists, partial
data with and without a header, all of it at once, flags that drop unknown bits,
packed bits, ids, enums, padding (kept in a build with debug assertions, zeros in
one without) and the tail. Wrappers encode through `Into` and decode through
`TryFrom`, which may refuse. A packet with an opcode is a message, and the reader
may also decode it as a message of another type (`want`). `SizeHint` and
`PacketLen` are what the macros add up at compile time and at run time;
`LengthsAreExact` holds them against the bytes, for packets without the two types
whose own lengths are wrong (`Miscounted`: index lists and boxes, findings 2 and 3).

`CodecAssumption` says which packets a program may define: an opcode is the first
field and belongs to one type of messages, a condition looks at a bool in front
of it and a size at a byte, and the limit of a string is one that its length can
say. A byte has an even number of values, as many negative ones as others when it
is read as a signed number, and NUL, which pads a fixed string, is text.

Not every value survives, and `Faithful` says which do: a list no longer than its
length can say, indices that are not the terminator, a fixed string without a
zero in it, a time other than the sentinel, an optional value or a side that
agrees with its condition (`encode_cond` writes what is there and does not ask
the condition) and a list with the size another field says. For a `CondEither`
agreeing means what `decode_cond` takes, Left where the condition holds, which is the
opposite of what its doc says (see the observations).
`FaithfulFieldsSurvive` is about every field that is faithful together with those
before it; `CutIsNoticed` about faithful packets that arrive in part.
`try_decode` restores the position and takes *every* end of data for an absent
value: a last field cut in its middle decodes without an error, and it is
`decode_complete` that refuses the packet, for the bytes left over.

### MessageBuffers

A message is an opcode, some plain bytes and perhaps a multi-line string; the
bytes of the buffers carry the name of the message they belong to. The string is
written into the spare capacity of the buffer's current chunk, which depends on
the allocator's growth: any of `Spares`. When it does not fit, opcode and plain
bytes are written and the string is not, and this is how an encoding fails. In
`PacketBuf` the 16 bits of the length are scaled down (`LenMod`). The strings are
shorter than what a length can say; the code subtracts 2 behind the conversion
to 16 bits, so with overflow checks a string of 65534 or 65535 bytes panics.

### WzArchive

A `tree` is what the program wants to write: directories and imgs in the order of
the file, with the head bytes of each entry's name and checksum; the library has
no code that lays them out, so any tree of the instance may be written. A
directory names nodes behind it only, and several may name the same one. Positions
follow from the sizes (`EntryLen`, `NodeLen`, `At`), with the one or five bytes of
a `WzInt`. `WriteArchive` is `write_dummy_header` and the `BinWrite` of the
directories, `Open` a reader with any version `try_detect_versions` returns,
`ReadDirAt` the `BinRead` of a directory, `ImgReader` a `SubReader` over an img;
`ReadImg`, `SkipImg`, `KeepReference` and `ResolveReference` are what an
`ImgReader` does to its position. A `SubReader` keeps the length of its img and
never looks at it, so that a reader of the model runs on into the next node, as
far as the file goes, and a skip even behind it; nothing says that it stays in its
img, and `ReferencesLeadBack` holds all the same. The cipher is the code's
arithmetic on `Bits` bits, with the exclusive or as a recursion from the lowest
bit (`XorBits`); the hash of a version is not scaled, and gives the values of the
crate's tests.

Detection tells versions apart by eight bits: an archive of version 71 also opens
with 4, 40 and 400, and 4 reads other offsets. The properties are about the right
version (`RightVersion`), which includes those that differ by zeros at the end
only, since the hash is made from the reversed number. What a wrong one reads is
`Misread`, or another directory by accident.

## 3. Runs

| run | instance | shows |
|---|---|---|
| `link_aes` | header 4, packets of 0, 1, 3, 4 and 9 bytes, decoder's limit 3, encoder's 4, boundary 6, three frames, AES; any four bytes that are no header are refused or say any of these lengths | all safety properties, what a decoder polled on after an error may yield, and the refinement of `FrameChannel` |
| `link_live` | packets of 0, 1, 2 and 9 bytes, both limits 2, two frames, no AES, fair | delivery, end of a close, also without header checks |
| `session` | two round keys, two versions, seven shapes, transport of 2 units, two packets, two sends per end | nothing lost behind the handshake, codecs mirror, errors only after a failure, both creations end |
| `echo` | transport of 1 unit, a window of 3 requests, 6 requests | every request is answered: no deadlock of the two backpressures |
| `header` | words of three bits, every key, four versions, every length | round trip, refusal of other rounds and of reflections |
| `img_file` | five loose items, three strings around the limit, blobs of 0 and 3 bytes, two lookups, skipping allowed; trees of every kind of value and object, alone, in pairs and nested, and with data that cannot be written | references, patched lengths, order, resolved data; trees read back, failed writes are noticed |
| `chunked` | every string of up to four characters and the Latin one of five, whole and cut; then chunks of 0, 1, 3, 5 (the limit) and 6 bytes, buffer 2, cache 3, reads of 0, 1 and 3, cut at every byte | strings read back; payload in order, what an end and an error mean, reading ends |
| `codec` | bytes of two bits, seventeen schemas, lists and strings of every length up to one more than a length says, every value, cut at every byte, messages decoded as each other | what is faithful survives, a cut is noticed, lengths computed beforehand are exact |
| `codec_len` | a schema of a box and a terminated list | **violated** by either field: findings 2 and 3 |
| `buffers` | messages of 2 bytes and of the longest a length says, three strings, four spare capacities, three messages kept, five stale bytes | the iterator yields the messages, a `Message` is its own encoding if none failed before, strings keep their lines |
| `buffers_opcode` | as `buffers` | **violated**: finding 1 |
| `archive` | four trees up to three levels deep, one with an img that two directories name, two data offsets, versions 10, 71 and 95 and every version detected for them, eight bits, one data reference | the right version follows every offset, a data reference leads every later reader of its img back |

Why the bounds are enough: the decoder's memory is one length and one round, so
what a frame can do to a later one shows within two; the third frame of
`link_aes` makes the round after an error reachable. The packets lie below, at,
between and above the two limits and include the empty one, and the boundary
lies within a frame, so that both answers of `poll_ready` occur with a partly
flushed buffer. In `session` the handshake does not fit the transport at once and
a frame does share it with its last byte. The echo window exceeds the transport.
In `chunked` the cache ends within a buffer and the longest chunk spans three
buffers, so each boundary is crossed alone and together with another. Five items
hold two nested objects with a string inside and its reference outside; the trees
have every type once on its own, with numbers at and around the escape, and each
type with a part that can fail in front of and behind another one and one level
deeper, so that what was lost lies at the end of the file and in its middle. The
strings are shorter and longer than both escapes, a piece and the cache, and have
a pair of surrogates inside a piece and across two. Bytes of
two bits make lengths, sentinels and terminators meet the values of data, and a
list of four items is one longer than its length can say; every type of the codec
has a schema in which another field follows it, so that a byte too many or too few
shows. Failed encodings in `buffers` can be followed by each message, by another
failure and by a clear.

`CHECK_DEADLOCK FALSE` is set where programs may stop: a stream that was closed,
a file that was read.

### Fairness

`LegacyLink`: weak fairness of `Write`, `Shutdown` and the reader. tokio polls a
task again when its transport becomes ready, and a flush or a read that is
awaited makes progress then. Sending, starting or cancelling a flush, closing
and dropping are the program's choice, and nothing is assumed of them: so a
packet that was encoded and never flushed is not promised to arrive, only one
that was *written* is. `LegacySession` assumes the same of the two create
futures, `EchoSession` of the two programs, whose loops the tests contain.
`ChunkedStream` and `ImgText` (`Progress`, `TextProgress`) assume a program that
finishes its string and then reads until the end, into a buffer of at least one
byte, as `io::copy` and `read_to_end` do.

### Findings

1. *`EncodeBuf` keeps the bytes of a failed encoding*
   (`shroom-pkt/src/util/encode_buf.rs:29`). `encode_message(..)?` returns
   without removing what it has written; the next message is split off with
   those bytes, the failed message's opcode first. `PacketBuf` truncates in the
   same place.
2. *`encode_len` of an index list is not its encoded length*
   (`shroom-pkt/src/proto/list.rs:119`), which is what the doc calls it: it adds the
   size of every index to the lengths of the entries, which are tuples and count it
   already, and leaves out the terminator that `encode` writes behind them. It is
   too small for an empty list, right for one entry by accident, and too large for
   more. In the trace of `codec_len` the empty list is one byte and counts none.
3. *`SIZE_HINT` of a box is that of two of its four components*
   (`shroom-pkt/src/proto/euclid.rs:34`, copied from a point), and `encode_len`
   returns the hint; so does every packet with such a field. `encode` writes two
   points: in the trace of `codec_len` four bytes that count as two.

Observations without a run:

* `PacketBuf` stores `len as u16` (`shroom-pkt/src/util/packet_buf.rs:53`): a
  message of 65536 bytes or more loses the frames. The messages of `buffers` end
  one byte before; with a longer one `PacketsAreTheMessages` is violated.
* The doc of `CondEither` has its sides the other way round
  (`shroom-pkt/src/proto/conditional.rs:62`, "cond false => Left, true => Right"):
  `decode_cond` takes the left side when the condition holds, and so do the tests and
  `ReadEither`. A value written as the doc says is decoded as one of the other type.
* After a refused header the legacy decoder takes the bytes that follow for headers
  (`shroom-net/src/codec/legacy/codec.rs:48`, see "After an error"): a program that
  polls its stream on may get a garbled packet, which is no error.
* `SubReader` does not cap an img by its length (`shroom-wz/src/reader.rs:16`, a TODO
  there): a length inside a damaged img can lead its reader into the next one.
* `WzWriter::write_img` hands `ImgWriter` the archive's own writer, and string
  offsets are taken from its position (`shroom-img/src/str_table.rs:44`), whereas
  an `ImgReader` over a `SubReader` counts from the start of the img: an img with a
  shared string that is written in place does not read back.
* `WaveHeaderEx` keeps the `extra_size` it was read with and writes it without the
  bytes (`shroom-img/src/sound/dshow.rs:60`, `sound/mod.rs:139`): a sound whose
  format announces other extra bytes than its own fields does not read back
  (`HeadersFit`).
* Without a cipher `write_str_inner` does not mask (`shroom-img/src/crypto.rs:225`),
  whereas the decoding of a whole string does, and `read_str_inner` takes the
  cipher for granted.
* Chunks are written with `cipher` and read with `chunked_cipher`
  (`shroom-img/src/crypto.rs:164`): a crypto that has both does not read what it
  writes. The models have one cipher.
* `ImgContext::new` guesses the format of canvas data, and a context made with
  `From<Arc<ImgCrypto>>` takes it for plain (`shroom-img/src/lib.rs:66`).
* Canvas and sound data that the file ends in is copied as far as it goes
  (`shroom-img/src/reader.rs:208`); a sound that is too short is no error.
* An image is converted to BGR565 with the pixels of BGRA4
  (`shroom-img/src/canvas/canvas_ref.rs:196`).
* The frame of a time is looked for before its own delay is added
  (`shroom-img/src/canvas/animation.rs:70`): during the delay of a frame it is the
  next one, and during the last one's there is none.
* Json integers come back as 32 bits (`shroom-img/src/json/mod.rs:183`), also those
  exported from 64.
* `SubReader` of `shroom-img/src/util/mod.rs:205` adds offset and size to a seek
  from the end, which is a position behind the end; nothing uses it.

## 4. Proofs

`LegacyLink_proofs`: for every set of packets, limits of the two ends, boundary and
number of frames, with AES and without, from `LinkAssumption`,

    Spec => []TypeOK, []DeliveredIsPrefix, []KeysInStep, []NoFrameHeldBack,
            []CleanEndMeansWhole, []SendBufferBound, []PacketsKeepTheirPlace
    Spec => Channel!Spec

The run's properties are inductive only together with where the decoder stands.
`IInv` says that the frames lie behind each other (`Layout`), that the k-th was
encrypted in round k (`Rounds`), that the buffers are windows (`Window`), that the
decoder is in the round of the number of packets it has yielded, after an error
too (`KeyCount`), and, as long as there was none, that it stands either before the
header of the next frame or behind it with that frame's length saved (`InStep`);
and that `FramedRead` waits only when its buffer does not hold what the decoder
asked for (`Waiting`). `KeyCount` is what is left of it after an error, when the
decoder may stand anywhere: a body that is decrypted to a packet is that of the
frame whose round this is (`PlainInPlace`), which gives `PacketsKeepTheirPlace`.
The proof has a lemma for each group of actions, and under it a step per conjunct
that the action disturbs; `HeaderInStep`, `LengthInStep` and `PlainInStep` say
what the decoder sees while `InStep` holds. The refinement maps every step to a
channel step or a stutter from `IInv` in both states.

The same module proves of `PacketHeader`, for every width, key and version, facts
about `Xor` bit by bit, and from them that the header round-trips, that a key with
another upper word refuses it, and that a reflected header is refused: version and
inverse differ in every bit, so the low words differ however the keys are chosen.
This needs `Width > 0`, the one assumption.

`LegacySession_proofs`: for every set of round keys, versions, shapes of a
handshake, capacity of the transport, boundary of the send buffer and number of
packets, from `SessionAssumption`,

    Spec => []NothingLost, []CodecsMirror, []ErrorsComeFromTheTransport,
            []ReadyMeansWholeHandshake

`IInv` says what lies between an end and its peer (`LineInv`): n bytes of the
handshake in the transport, and behind them, there and in the sender's buffer, a
frame for each packet sent and not yet received, made with the cipher of that
packet's number. How large n is depends on how far `create_client` is (`Unread`):
what is written of the handshake less what is read of the length or the body.
The client reads with `read_exact` at most what is missing, so what it takes is
within those n bytes, and when it is ready n is zero (`CreateInv`); a client that
read what the transport has into a buffer of its own would break `Line`.
`CodecInv` says that a codec has made one step for each packet sent or
received, which with `LineInv` makes the first frame of the line one that the
decoder accepts.

About the two echo programs, for every window and number of requests,

    EchoSpec => Spec
    EchoSpec => []AnswersAreRequests
    EchoSpec => [](Window <= 2 * Capacity + 1 => NoStandstill)

The first makes every theorem about sessions one about them. `EchoInv` counts what
is on its way: an end has at most one packet in its send buffer, what the server
has sent is what it has received but for the one it is about to answer, and the
client has no more requests unanswered than the window. Then the two transports
and one packet in each send buffer hold what is on the way, and if both programs
wait for their transport, both transports are full: more than the window allows,
as long as it is at most `2 * Capacity + 1`. This is the safety half of
`EveryRequestAnswered`, which stays with the run `echo`. With a capacity of 1 and
a window of 4 TLC finds the standstill, so the bound is sharp: the programs of the
tests are safe because their window is small, not because of the session.

`ImgFile_proofs`: for every set of strings with their lengths, every table limit,
every size of plain values and data and any number of items and lookups, from
`ImgFileAssumption`,

    Spec => []ReferencesPointBack, []NoWrongString, []ResolvedIsOwn,
            []Aligned, []ErrorsOnlyAfterSkip, []ReadsEverything

The first three hold together: `IInv` says that items lie behind each other
(`Layout`), that the lengths still to be patched are those of objects
(`OpenInv`), that a blob's length is that of its data (`BlobInv`), and that what
the writer's table and the reader's offsets say is true of the file (`TableInv`,
`OffsetsInv`); a reference is written from the one and read with the other.
`Aligned` needs in addition that every object that is closed spans whole items
(`BoundaryInv`), which a patch establishes because nothing but the open objects is
patched, the innermost first. `ErrorsOnlyAfterSkip` needs that a reader without a
skip knows every shared string it has passed (`SeenInv`). `ReadsEverything` says
at every point of the file that each string or reference in front of it was
returned, once and in the file's order (`ReturnedUpTo`): a step passes one item,
and items do not overlap (`Layout`). These theorems are about
`Spec`, in which items come in any order; their steps are proved for any sizes and
for a file closed with objects open, so they serve trees too.

For every set of trees of any depth, every table limit, every width of the numbers
(`Small`, `Wide`) and any strings and types with different names, from
`ImgFileAssumption` and `TreeAssumption`,

    TreeSpec => []TreeReadsBack, []FailureIsNoticed, and the six properties above

* What a reader that starts with `<<"object">>` expects in front of each item is
  fixed by the calls of the tree alone: `FitTree` gives, by induction over the
  depth, a sequence of stacks along which the reader follows the calls of every
  tree up to the first that fails (`Follows`). In front of each call the stack is
  not empty, with one exception (`Breaks`), and behind the last it is. Each of its steps needs that a value read is the value written, in
  as many bytes as it takes (`ValueIsRead`, `ValueSize`): the escape of a number
  that looks like one, and an unsigned number on its way through a signed one.
* The file and the calls still to be made are always the calls of the tree
  (`Writes`), without gaps between the items (`Contiguous`).
* So `ReadInv` is inductive: the reader has read the first `k` items, stands in
  front of the next, expects what `FitTree` says, and has got what the first `k`
  calls say. That the next string fits needs `SeenInv`: a reference it does not
  know would be an error. An error means that the writing was broken off or that
  the header of a sound says more than was written.

`FailureIsNoticed` follows from where the stacks are not empty: in front of a call
that fails the reader still expects something. The exception is a failed resolver
whose canvas has its dummy length as the last thing read so far.

`ChunkedStream_proofs`: for every set of chunk lengths, every limit, buffer, cache
and size of reads, and every end of the data, from `ChunkAssumption`,

    Spec => []OutIsPayload, []EndMeansWholeChunks, []ErrorMeansDamage

`IInv` says where the reader is in the data and in its chunk (`WhereInv`,
`ChunkInv`), that it has taken as many bytes of the keystream as it has read of
the chunk, first those of the cache and then the running cipher's (`InStep`), that
the buffer holds the bytes of the chunk in front of its position (`Holds`), and
that what was returned are whole chunks and then the rest of this one (`Payload`,
`PassedInv`). `InStep` is why the payload is decrypted whatever the reads are: it
is broken by a chunk that does not reset, and by one that resets only one half.
The assumption that `Garbled` is no byte of a payload makes the name of a wrong
byte one.

The same module proves of the string in front, for any set of strings, length of
the pieces, escapes and cache, from `TextAssumption` too,

    TextSpec => []TextReadsBack
    TextSpec => Spec

the second of which gives the run with the string, `chunked`, the theorems about
the chunks. `TextInv` says that the disk holds the units of a beginning of the
string, each encoded with the keystream and mask of its own place whatever the
pieces were (`DiskInv`), and that a reader between two pieces has the keystream
of its place and the characters of what is in front of it, and does not stand
within a pair (`PlaceInv`). `MeetsInStep` carries `InStep` from bytes to units, so
that pieces of writer and reader need not agree; `UnitsReadBack` says that the
units of a string are its characters again and well-formed; `PieceOf` that a
piece that begins outside a pair fails only by ending within one, which is the
exception `TextReadsBack` makes; `HeaderIsRead` that either escape gives the
length back.

`MessageBuffers_proofs`: for every set of messages, spare bytes of a chunk, width
of a length and number of messages kept, from `MessageBuffersAssumption`,

    Spec => []CleanWithoutFailure
    Spec => []((\A k \in DOMAIN kept : Fits(kept[k])) => PacketsAreTheMessages)
    Spec => []((\A k \in DOMAIN kept : Fits(kept[k])) => LinesSurvive)

where `Fits` is that the encoding's length can be written into the length field.
The code does not check it (see the observations), and the messages of the runs
all fit. `IInv` says that the buffer is the frames of the messages kept, whatever
was truncated or cleared (`buf = FlattenSeq(Frames)`). From there the work is to
show what the recursive iterator makes of such a buffer: `FlattenLayout` finds
each frame behind those before it, `FrameIsRead` one turn of the iterator on a
frame, `IterEquation` that the recursive definition of `IterFrom` is the equation
it looks like, and `KeptAreRead` goes through the frames from the last to the
first. `CrlfKeepsLines` and `TextIsRead` are the way of a multi-line string.

`PacketCodec_proofs`: for any packets a program may define, every width of a byte,
text, items and length of a list, from `CodecAssumption`,

    Spec => []FaithfulFieldsSurvive, []CutIsNoticed, []LengthsAreExact

The ground is what each type does on its own. `EncodeType` says that whatever is
encoded is bytes, a list too long for its length or a value on the wrong side of
its condition included. `IsRead(t, v, p, prev)` says that the decode of `t`, at a
place `p` where the bytes of `v` lie as far as the data goes (`Lies`), returns `v`
and stops behind the last of them, or reports the end of the data when one is
missing; it says nothing of the bytes behind. `FieldIsRead` is that for every type
but the opcode, which asks how much data there is, and the tail, which is absent
when nothing is left (`OpcodeIsRead`, `TailIsRead`). It has a lemma for each type,
from `ByteIsRead` and `WordIsRead` up: `Division` and `EncWordIs` are the two bytes
of a word, `OffsetOf` the sign of an offset, where the negative one of the largest
amount wraps onto itself, `FlagsTell` the flags of partial data, `Until0Is` the end
of a fixed string, and `IndexIsRead` goes through the entries of an index list
from the terminator to the first (`LoopIs`).

`IInv` then follows the packet. The bytes of each field lie behind those of the
fields before it (`Sending`, `Placed`), and cutting the data takes none from its
place. As long as fields are `Readable`, faithful and arrived, they are decoded as
they were and the reader is behind them (`Decoding`), which is what the next field
needs: a condition or a size that was decoded is the one that was encoded
(`FaithfulSuits`). `CutIsNoticed` needs in addition that a reader of a faithful
packet is never past a field that has not arrived, except that the last one may
have been taken for an absent one, and then the reader stands in front of it
(`Arriving`): with the position of a reader that has gone on to the end of the
data, which is what a decode without a sub reader would leave, the invariant does
not hold. `ForeignIsNoticed` is a message decoded as another type. For the
lengths, `HintIsExact` and `LengthIsExact` compare each type's length with its
bytes, and `SizeHintIs` says that a sum of hints that is known is the sum of the
lengths. The two types left out (`Miscounted`) are the findings of `codec_len`.

`WzArchive_proofs`: for every width of the offsets, every tree, data offset,
version, magic number and reads of an img, from `ArchiveAssumption`,

    Spec => [](Fits => EntriesFindTheirNodes)
    Spec /\ []Fits => ReferencesLeadBack

where `Fits` is that every node of the tree is at a position an offset can hold.
The code does not check it, its positions being 32 bits wide; in the run every tree
fits. `OffsetIsRead` is the cipher: a decrypted offset is the one that was
encrypted, because the key is a number of `Bits` bits (`KeyType`), the exclusive or
with one cancels (`XorCancels`, bit by bit), and what is left is a remainder
(`RemainderIs`) of a position that fits. The key itself depends on where the offset
is stored, and on the version only by its hash: `SameHash` shows that a version
which differs from the writer's by zeros at the end has the same one, since the
digits are reversed first (`ReversedIs`, `StrippedReversed`). `IInv` says that a
file that is written holds every directory's offsets (`ArchiveInv`), that what was
opened was written (`OrderInv`), and that, for a right version, the directory read
last is one of the tree with its own offsets (`ListingInv`), a sub reader begins at
its img and is nowhere in front of it, wherever behind it it may be (`SubInv`), and a
data reference is as far from the start of its img as the place where it was taken
(`MarksInv`). With `ListingInv` two readers of the same img, opened by whatever
entries, begin at the same byte, so that a reference of the one is one of the other
(`ResolvedIs`).

Induction, and that recursive functions exist, come from `DataInduction`. The
library's induction theorems take an operator as parameter, which the provers
cannot instantiate; here a predicate is a set and a recursive definition a function,
and the proofs rest on the library's `WFMin` for the naturals (`NatInSet`,
`RecursionExists`, `RecursionUnique`; `RecursionBelow` where a function is defined up
to a bound).

Only model-checked: the liveness properties (`WrittenIsDelivered`,
`CloseTerminates`, `CreationTerminates`, `EveryRequestAnswered`, `ReadingEnds`),
since fairness is beyond the prover. Every other property of a run is stated by a
theorem.

## 5. Not modelled

* The block ciphers, the hash of the round key, their keys and tables: byte
  arithmetic whose tests compare with known values. A keystream is a sequence of
  bytes, each known by its place.
* The websocket codec: it passes on what tokio_websockets hands out, and how that
  library frames, answers pings and closes is not in the repository.
* Pixel formats, compression, the frames of an animation, the export to json, the
  extractor: data conversion and I/O.
* The guess whether canvas data is chunked, which is about what compressed bytes
  begin with; checksums; the sub reader of shroom-img, which nothing uses.
* The list of chunked imgs of an archive, a list of names; an img written in place
  in an archive, which does not read back (see the observations).
* The geometric wrappers, the clamping of durations and the error analyzer of
  shroom-pkt: field-by-field conversions and formatting.

## 6. Plan

Done, in this order: `FrameChannel`, `LegacyLink` and its proofs,
`LegacySession`, `EchoSession`, `ImgFile`, `ChunkedStream`, `MessageBuffers`,
`PacketHeader` and its proofs, `PacketCodec`, `WzArchive`; the remaining types,
sizes and messages of `PacketCodec`; `ImgTree`, `ImgText`; the proofs about
`ImgFile`, `ChunkedStream`, `LegacySession`, `MessageBuffers`, `EchoSession`,
`PacketCodec`, `ImgText`, `WzArchive` and `ImgTree`.

Left, in order of what they would add:

1. `ImgFile` over the positions of an archive, once the archive's writer uses
   positions relative to the img.
2. The websocket adapter, refining `FrameChannel` as `LegacyLink` does, with what
   the library promises as an assumption.
