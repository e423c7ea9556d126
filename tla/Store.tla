------------------------------- MODULE Store -------------------------------
(***************************************************************************)
(* internal/store, reader.go and decode.go: a fingerprint file that was    *)
(* written by Writer, perhaps damaged since, is opened, verified, and read *)
(* by one cursor, from the start or from where Seek put it.                *)
(*                                                                         *)
(* The reader refuses what is larger than its limits (format.go); the      *)
(* writer knows of none.                                                   *)
(***************************************************************************)
EXTENDS Writer

CONSTANTS
    LongValue,       \* the values with a link or an error longer than maxStringSize
    MaxMetaSize,     \* maxMetaSize
    MaxStringSize,   \* maxStringSize
    MaxBlockSize     \* maxBlockSize

\* A block of paths within the limit is within the limit for blocks.
ASSUME StoreAssumption ==
    /\ LongValue \subseteq Value
    /\ MaxMetaSize \in Nat /\ MaxStringSize \in Nat /\ MaxBlockSize \in Nat
    /\ BlockSize + MaxStringSize <= MaxBlockSize

VARIABLES
    reading,   \* "no", "opened", "verified", "seeking", "ready", "eof", or "refused"
               \* once a function has returned an error
    target,    \* the path given to Seek; the empty path for Cursor
    at,        \* the number of blocks the cursor has loaded or passed
    rest,      \* the records of the loaded block that are not decoded
    before,    \* the decoder's prev
    entry,     \* the entry it decoded last
    pending,
    got,       \* the entries Next returned
    loaded     \* how many blocks Seek has read

cursor    == <<target, at, rest, before, entry, pending, got, loaded>>
storeVars == <<writer, reading, cursor>>

NoEntry == [path |-> <<>>]

StoreInit ==
    /\ Init
    /\ reading = "no" /\ target = <<>> /\ at = 0 /\ rest = <<>> /\ before = <<>>
    /\ entry = NoEntry /\ pending = FALSE /\ got = <<>> /\ loaded = 0

StoreAdd(e) == Add(e) /\ UNCHANGED <<reading, cursor>>
StoreClose  == Close /\ UNCHANGED <<reading, cursor>>

-----------------------------------------------------------------------------
(* "A fingerprint is a file that travelled."                               *)

Damaged(len) == Piece("damaged", len, <<>>)

Altered == \E k \in 1 .. Len(file) : file[k].kind = "damaged"

\* NewReader: there is room for a header and a footer, and the file ends with the magic.
Cut == Size(file) < HeaderSize + FooterSize \/ Last(file).kind # "magic"

\* Bytes of one piece change, or the file is cut, between two pieces or inside one.
Damage ==
    /\ phase = "sealed" /\ reading = "no"
    /\ ~Cut /\ ~Altered
    /\ \E k \in 1 .. Len(file) :
          file' \in {[file EXCEPT ![k] = Damaged(@.len)],
                     SubSeq(file, 1, k - 1),
                     Append(SubSeq(file, 1, k - 1), Damaged(file[k].len - 1))}
    /\ UNCHANGED <<phase, off, building, reading, cursor>>

\* The piece of n bytes at offset o; anything else reads as garbage.
ReadAt(o, n) ==
    LET there == {k \in 1 .. Len(file) : Size(SubSeq(file, 1, k - 1)) = o /\ file[k].len = n}
    IN  IF there = {} THEN Damaged(n) ELSE file[CHOOSE k \in there : TRUE]

Footer == ReadAt(Size(file) - FooterSize, FieldsSize).holds[1]
Digest == ReadAt(Size(file) - MagicSize - DigestSize, DigestSize)

\* The sections live between the header and the footer.
Inside(s) == s.at >= HeaderSize /\ s.len >= 0 /\ s.at + s.len <= Size(file) - FooterSize

\* readBlock: what is inside is no larger than maxBlockSize.
Readable(o, n) ==
    /\ n >= BlockHeaderSize /\ o + n <= Size(file)
    /\ n - BlockHeaderSize <= MaxBlockSize
    /\ ReadAt(o, n).kind # "damaged"

Known == ReadAt(Footer.index.at, Footer.index.len).holds

\* readIndex: at least three bytes a record, no key above maxStringSize, and every
\* block in the data section.
IndexFits ==
    /\ Readable(Footer.index.at, Footer.index.len)
    /\ 3 * Len(Known) <= IndexLen(Known)
    /\ \A k \in 1 .. Len(Known) :
          /\ Len(Known[k].firstKey) <= MaxStringSize
          /\ Known[k].size > 0
          /\ Known[k].offset >= Footer.data.at
          /\ Known[k].offset + Known[k].size <= Footer.data.at + Footer.data.len

Consistent ==
    /\ Inside(Footer.meta) /\ Inside(Footer.data) /\ Inside(Footer.index)
    /\ Footer.meta.len <= MaxMetaSize
    /\ IndexFits
    /\ Len(Known) = Footer.blocks

\* NewReader, of whatever is left of a file; what an altered piece decodes to is open.
NewReader ==
    /\ phase \in {"sealed", "broken"} /\ reading = "no"
    /\ reading' \in IF Cut THEN {"refused"}
                    ELSE IF Altered THEN {"opened", "refused"}
                    ELSE IF Consistent THEN {"opened"} ELSE {"refused"}
    /\ UNCHANGED <<writer, cursor>>

\* Verify recomputes the digest of everything above it.
Verify ==
    /\ reading = "opened"
    /\ reading' = IF Digest.holds = Covered(SubSeq(file, 1, Len(file) - 2))
                  THEN "verified" ELSE "refused"
    /\ UNCHANGED <<writer, cursor>>

-----------------------------------------------------------------------------
(* The cursor.  compare verifies the file before it opens one.             *)

\* Cursor.
OpenCursor ==
    /\ reading = "verified"
    /\ reading' = "ready"
    /\ UNCHANGED <<writer, cursor>>

\* The last block whose first key is not greater than p, or the first one.
\* Mutant: the search is one block too far.
StartBlockNext(p) == Cardinality({k \in 1 .. Len(Known) : ~Less(p, Known[k].firstKey)})
\* Mutant: the search starts at the beginning of the file.
StartBlockFirst(p) == 0
StartBlock(p) ==
    LET upTo == Cardinality({k \in 1 .. Len(Known) : ~Less(p, Known[k].firstKey)})
    IN  IF upTo = 0 THEN 0 ELSE upTo - 1

Seek(p) ==
    /\ reading = "verified"
    /\ reading' = "seeking"
    /\ target' = p
    /\ at' = StartBlock(p)
    /\ UNCHANGED <<writer, rest, before, entry, pending, got, loaded>>

\* Cursor.Next is at the end of a block and reads the next one.
ReadBlock ==
    /\ reading \in {"seeking", "ready"}
    /\ ~pending
    /\ rest = <<>>
    /\ at < Len(Known)
    /\ LET b == Known[at + 1]
       IN  IF Readable(b.offset, b.size)
           THEN /\ rest' = ReadAt(b.offset, b.size).holds
                /\ before' = <<>>
                /\ at' = at + 1
                /\ loaded' = IF reading = "seeking" THEN loaded + 1 ELSE loaded
                /\ UNCHANGED reading
           ELSE reading' = "refused" /\ UNCHANGED <<rest, before, at, loaded>>
    /\ UNCHANGED <<writer, target, entry, pending, got>>

\* blockDecoder.next and its checks.
DecodedPath(r) == SubSeq(before, 1, r.shared) \o r.suffix

Decodable(r) ==
    /\ r.shared <= Len(before)
    /\ Len(r.suffix) <= MaxStringSize /\ r.value \notin LongValue
    /\ DecodedPath(r) # <<>>
    /\ before # <<>> => Less(before, DecodedPath(r))

\* Decoding fails, which ends the reading.
BadRecord == ~pending /\ rest # <<>> /\ ~Decodable(rest[1])

Decode(r) ==
    IF Decodable(r)
    THEN /\ entry' = [path |-> DecodedPath(r), value |-> r.value]
         /\ before' = DecodedPath(r)
         /\ rest' = Tail(rest)
    ELSE UNCHANGED <<entry, before, rest>>

\* The loop of Seek: an entry below the target is dropped, the first other one is kept.
SeekStep ==
    /\ reading = "seeking"
    /\ rest # <<>>
    /\ Decode(rest[1])
    /\ pending' = (~BadRecord /\ ~Less(entry'.path, target))
    /\ reading' = IF BadRecord THEN "refused" ELSE IF pending' THEN "ready" ELSE "seeking"
    /\ UNCHANGED <<writer, target, at, got, loaded>>

\* Next returns the entry Seek kept, or decodes one.
CursorNext ==
    /\ reading = "ready"
    /\ \/ pending /\ UNCHANGED <<entry, before, rest>>
       \/ ~pending /\ rest # <<>> /\ Decode(rest[1])
    /\ pending' = FALSE
    /\ reading' = IF BadRecord THEN "refused" ELSE "ready"
    /\ got' = IF BadRecord THEN got ELSE Append(got, entry')
    /\ UNCHANGED <<writer, target, at, loaded>>

\* There is no next block: Seek returns a cursor that has nothing left, or Next
\* returns io.EOF.
Eof ==
    /\ reading \in {"seeking", "ready"}
    /\ ~pending
    /\ rest = <<>>
    /\ at = Len(Known)
    /\ reading' = IF reading = "seeking" THEN "ready" ELSE "eof"
    /\ UNCHANGED <<writer, cursor>>

Over ==
    /\ reading \in {"eof", "refused"}
    /\ UNCHANGED storeVars

Next ==
    \/ \E e \in Entry : StoreAdd(e)
    \/ StoreClose \/ Damage
    \/ NewReader \/ Verify
    \/ OpenCursor \/ (\E p \in Key : Seek(p))
    \/ ReadBlock \/ SeekStep \/ CursorNext \/ Eof
    \/ Over

Spec == StoreInit /\ [][Next]_storeVars

-----------------------------------------------------------------------------

TypeOK ==
    /\ phase \in {"writing", "broken", "sealed"}
    /\ off \in Nat /\ entries \in Nat /\ errors \in 0 .. entries
    /\ block \in Seq(Record)
    /\ prev \in Key \cup {<<>>} /\ lastKey \in Key \cup {<<>>}
    /\ index \in Seq([firstKey: Paths, offset: Nat, size: Nat])
    /\ added \in Seq([path: Key \ {<<>>}, value: Value])
    /\ reading \in {"no", "opened", "verified", "seeking", "ready", "eof", "refused"}
    /\ target \in Key \cup {<<>>} /\ at \in Nat
    /\ rest \in Seq(Record) /\ before \in Paths /\ entry \in Entry \cup {NoEntry}
    /\ pending \in BOOLEAN /\ loaded \in Nat

\* What a cursor should return: everything from the target on.
Passed == Cardinality({i \in 1 .. Len(added) : Less(added[i].path, target)})
Wanted == SubSeq(added, Passed + 1, Len(added))

\* What comes out of a cursor is what went into the writer, from the sought path on,
\* and all of it when io.EOF comes: front coding loses no byte, no entry is skipped at
\* the edge of a block or left in the one Close flushes, and none is returned twice; and
\* the counters of the footer are those of the entries (appendEntry, Close, Seek, Next).
ReadsBack ==
    /\ IsPrefix(got, Wanted)
    /\ reading = "eof" =>
          /\ got = Wanted
          /\ Footer.entries = Len(added)
          /\ Footer.errors = Cardinality({i \in 1 .. Len(added) : added[i].value \in Unreadable})

\* What was written is beyond a limit of the reader: the metadata, the index, a path, or
\* the link or the error of an entry.
LongText  == \E i \in 1 .. Len(added) :
                Len(added[i].path) > MaxStringSize \/ added[i].value \in LongValue
Oversized == MetaLength > MaxMetaSize \/ IndexLen(index) > MaxBlockSize \/ LongText

\* A file the writer sealed and nothing has damaged is refused for its size alone: the
\* offsets and lengths Close records are those NewReader, readIndex and readBlock expect,
\* the digest of the one is that of the other, every record decodes, and no block is too
\* large for the reader unless a path is.
NeverCorrupt == reading = "refused" => Cut \/ Altered \/ Oversized

\* "ErrCorrupt covers every structural inconsistency found while parsing" (format.go):
\* a file nothing has damaged has none.  Add, NewWriter and writeIndex enforce none of
\* the limits that NewReader, readBlock and the decoder refuse a file for.
OnlyDamageIsRefused == reading = "refused" => Cut \/ Altered

\* "This is what detects a truncated transfer or a damaged medium": no file that is not
\* whole passes both NewReader and Verify, wherever it was cut or altered, nor does one
\* whose writer failed before its end.
DamageIsRefused == reading \in {"verified", "seeking", "ready", "eof"} => ~Cut /\ ~Altered

\* "Breaking it would produce a file whose merge join silently loses entries": the
\* writer accepts nothing out of canonical order, across blocks as within one (Add).
AcceptedIsSorted ==
    \A i, j \in 1 .. Len(added) : i < j => Less(added[i].path, added[j].path)

\* Seek finds its block through the index "rather than scanning from the start": it
\* reads the one that may hold the path, and the next if the path falls between them.
SeekIsLocal == loaded <= 2
=============================================================================
