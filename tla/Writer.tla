------------------------------- MODULE Writer -------------------------------
(***************************************************************************)
(* internal/store, writer.go and the layout of format.go: the writer of a  *)
(* fingerprint file.                                                       *)
(*                                                                         *)
(* The file is the sequence of what was written to it, piece by piece,     *)
(* each with the length it has on disk; the digest of some pieces is these *)
(* pieces.  A block holds its front-coded records.  What zstd and the      *)
(* encoding of an entry's other fields do is left out, but not the room    *)
(* they take: every offset and length is the one the code would record.    *)
(***************************************************************************)
EXTENDS Canon, FiniteSets, SequencesExt

CONSTANTS
    Key,          \* the paths of the entries
    Value,        \* what an entry says of its path
    Unreadable,   \* the values of an entry that carries an error
    BlockSize,    \* the size at which Add flushes a block
    MetaLength    \* the length of the metadata

HeaderSize      == 32
BlockHeaderSize == 8
DigestSize      == 32
MagicSize       == 8
FieldsSize      == 9 * 8
FooterSize      == FieldsSize + DigestSize + MagicSize

ASSUME WriterAssumption ==
    /\ Key \subseteq Paths /\ Unreadable \subseteq Value
    /\ BlockSize \in Nat \ {0} /\ MetaLength \in Nat \ {0}

VARIABLES
    phase,     \* "writing", "broken" once a write has failed, "sealed" after Close
    file,      \* the pieces written
    off,       \* the offset of the next one
    block,     \* the records of the block being built
    prev,      \* blockPrev
    lastKey,   \* the empty path when there is none
    index,     \* the first key, offset and size of each block
    entries, errors,   \* the counters
    added      \* the entries Add accepted

building == <<block, prev, lastKey, index, entries, errors, added>>
writer   == <<phase, file, off, building>>

Entry  == [path: Key, value: Value]
Record == [shared: Nat, suffix: Paths, value: Value]

\* Sums(lengths)[n] is the sum of the first n of them.
Sums(lengths) ==
    LET sum[n \in Nat] == IF n = 0 THEN 0 ELSE sum[n - 1] + lengths[n] IN sum

Total(lengths) == Sums(lengths)[Len(lengths)]
Size(f)        == Total([k \in 1 .. Len(f) |-> f[k].len])

Piece(kind, len, holds) == [kind |-> kind, len |-> len, holds |-> holds]

DataOffset == HeaderSize + MetaLength

\* NewWriter has written the header and the metadata.
Init ==
    /\ phase = "writing"
    /\ file = <<Piece("header", HeaderSize, <<>>), Piece("meta", MetaLength, <<>>)>>
    /\ off = DataOffset
    /\ block = <<>> /\ prev = <<>> /\ lastKey = <<>>
    /\ index = <<>> /\ entries = 0 /\ errors = 0 /\ added = <<>>

-----------------------------------------------------------------------------

\* sharedPrefix.
SharedPrefix(a, b) ==
    Cardinality({n \in 1 .. Len(a) : n <= Len(b) /\ \A j \in 1 .. n : a[j] = b[j]})

\* The previous key of the same block.
PrevInBlock == IF block = <<>> THEN <<>> ELSE prev

\* appendEntry.
Encoded(e) ==
    LET shared == SharedPrefix(PrevInBlock, e.path)
    IN  [shared |-> shared, suffix |-> SubSeq(e.path, shared + 1, Len(e.path)), value |-> e.value]

\* len(w.block): the suffixes, and the other fields of each record.
BlockLen(b) == Total([i \in 1 .. Len(b) |-> Len(b[i].suffix) + 1])

\* flushBlock: the block on disk and its place in the index.  The first key of a
\* block is whole in its first record.
BlockPiece(b) == Piece("block", BlockHeaderSize + BlockLen(b), b)

Placed(b, o) == [firstKey |-> b[1].suffix, offset |-> o, size |-> BlockPiece(b).len]

\* Mutant: the order is checked against the previous key of the block.
OutOfOrderInBlock(e) == block # <<>> /\ ~Less(prev, e.path)
OutOfOrder(e) == lastKey # <<>> /\ ~Less(lastKey, e.path)

\* The entries Add refuses.  Mutant: an empty path is not refused.
RefusesOrderOnly(e) == OutOfOrder(e)
Refuses(e) == e.path = <<>> \/ OutOfOrder(e)

\* Add: the entry joins the block, and the block is flushed when it is full.
Add(e) ==
    /\ phase = "writing"
    /\ ~Refuses(e)
    /\ LET b == Append(block, Encoded(e))
       IN  \/ BlockLen(b) < BlockSize /\ block' = b /\ UNCHANGED <<phase, file, off, index>>
           \/ /\ BlockLen(b) >= BlockSize
              /\ block' = <<>>
              /\ file' = Append(file, BlockPiece(b))
              /\ off' = off + BlockPiece(b).len
              /\ index' = Append(index, Placed(b, off))
              /\ UNCHANGED phase
           \/ BlockLen(b) >= BlockSize /\ phase' = "broken" /\ UNCHANGED <<file, off, block, index>>
    /\ prev' = e.path
    /\ lastKey' = e.path
    /\ entries' = entries + 1
    /\ errors' = IF e.value \in Unreadable THEN errors + 1 ELSE errors
    /\ added' = Append(added, e)

\* Close flushes the last block.
LastBlock ==
    IF block = <<>> THEN [file |-> file, off |-> off, index |-> index]
    ELSE [file |-> Append(file, BlockPiece(block)), off |-> off + BlockPiece(block).len,
          index |-> Append(index, Placed(block, off))]

\* writeIndex: the count, then each key with its length, its offset and its size.
IndexLen(idx)   == 1 + Total([k \in 1 .. Len(idx) |-> Len(idx[k].firstKey) + 3])
IndexPiece(idx) == Piece("index", BlockHeaderSize + IndexLen(idx), idx)

\* The length of the data section, once the last block is in it.
\* Mutant: it is taken before the last block is flushed.
DataLengthEarly(last) == off - DataOffset
DataLength(last) == last.off - DataOffset

FooterPiece(last) ==
    Piece("footer", FieldsSize,
          <<[meta    |-> [at |-> HeaderSize, len |-> MetaLength],
             data    |-> [at |-> DataOffset, len |-> DataLength(last)],
             index   |-> [at |-> last.off, len |-> IndexPiece(last.index).len],
             entries |-> entries, errors |-> errors, blocks |-> Len(last.index)]>>)

\* What the digest covers: everything above it, the footer's fields included.
\* Mutant: the sections and not the footer.
CoveredSections(f) == SubSeq(f, 1, Len(f) - 1)
Covered(f) == f

\* The whole file, as Close leaves it.
Sealed ==
    LET last  == LastBlock
        above == last.file \o <<IndexPiece(last.index), FooterPiece(last)>>
    IN  above \o <<Piece("digest", DigestSize, Covered(above)), Piece("magic", MagicSize, <<>>)>>

\* Close: the last block, the index, the footer, the digest and the magic, or as many
\* of them as are written before a write fails.
Close ==
    /\ phase = "writing"
    /\ \E n \in Len(file) .. Len(Sealed) :
          /\ phase' = IF n = Len(Sealed) THEN "sealed" ELSE "broken"
          /\ file' = SubSeq(Sealed, 1, n)
          /\ IF n >= Len(LastBlock.file) THEN block' = <<>> /\ index' = LastBlock.index
             ELSE UNCHANGED <<block, index>>
    /\ off' = Total([k \in 1 .. Len(file') |->
                        IF file'[k].kind \in {"digest", "magic"} THEN 0 ELSE file'[k].len])
    /\ UNCHANGED <<prev, lastKey, entries, errors, added>>
=============================================================================
