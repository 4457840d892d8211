----------------------------- MODULE FieldAccess -----------------------------
(***************************************************************************)
(* Reading and writing of fields: those of an operation region, through    *)
(* aligned accesses (read_field and write_field of src/src/interpreter.cpp *)
(* with the bank and index registers that select what is accessed), and    *)
(* those of a buffer (CreateField and its like). A number is the set of    *)
(* the positions of its bits that are one. The interpreter's word has      *)
(* WordBytes bytes of ByteBits bits: 8 and 8 in the code.                  *)
(***************************************************************************)
EXTENDS Integers, FiniteSets, Sequences, SequencesExt, FiniteSetsExt

CONSTANTS ByteBits, WordBytes,
          RegionBytes,  \* the length of the region, of the buffer too
          AccessSizes,  \* in bytes
          Banks,        \* the values of the bank register
          Contents,     \* what a region may contain, as a set of bits
          Values,       \* what is stored
          AmlMay        \* liberties: layouts that the code gets wrong

ASSUME FieldAccessAssumption ==
  /\ ByteBits \in Nat \ {0} /\ WordBytes \in Nat \ {0}
  /\ AccessSizes \subseteq 1..WordBytes
  /\ \A size \in AccessSizes : RegionBytes % size = 0
  /\ \A v \in Contents \cup Values : v \subseteq 0..(RegionBytes * ByteBits - 1)
  /\ AmlMay \subseteq {"split", "wholeWord", "crossing"}

Word == WordBytes * ByteBits
RegionBits == RegionBytes * ByteBits

Low(v, n) == {p \in v : p < n}
Shr(v, n) == {p - n : p \in v \ 0..(n - 1)}
\* A shift to the left; what leaves the word is lost.
Shl(v, n) == Low({p + n : p \in v}, Word)
BytesOf(bits) == (bits + ByteBits - 1) \div ByteBits

\* (1 << bits) - 1; a shift by the whole width is undefined: nothing, or all.
Mask(bits) == IF bits = Word THEN {{}, 0..(Word - 1)} ELSE {0..(bits - 1)}

-----------------------------------------------------------------------------
RegionFields ==
  {f \in [type : {"normal", "bank", "index"}, offset : 0..(RegionBits - 1),
          size : 1..RegionBits, access : AccessSizes,
          update : {"preserve", "ones", "zeros"}, bank : Banks] :
     /\ f.offset + f.size <= RegionBits
     /\ f.type # "bank" => f.bank = CHOOSE b \in Banks : TRUE}

AccessBits(f) == f.access * ByteBits
Within(f, i) == (f.offset + i) % AccessBits(f)
\* How many bits of the field the access at its bit i covers
Bits(f, i) == Min({f.size - i, AccessBits(f) - Within(f, i)})

\* A field of a buffer as CreateField makes it from a bit index and a size
BufferField(index, size) ==
  LET offset == index % ByteBits
  IN  [type |-> "buffer", offset |-> index, size |-> size,
       byteOffset |-> index \div ByteBits,
       byteSize |-> BytesOf(size) + (IF offset + size > BytesOf(size) * ByteBits THEN 1 ELSE 0),
       bitOffset |-> offset, bitSize |-> size % ByteBits]
BufferFields ==
  {BufferField(index, size) : index \in 0..(RegionBits - 1), size \in 1..RegionBits}
Short_Less(f) == f.byteSize < WordBytes
Short(f) == f.byteSize <= WordBytes

\* The layouts that the code gets wrong (README.md, section 14): a part of the
\* value that does not fit into the bytes it takes, an access of a whole word,
\* and a long field of a buffer that lies in one byte more than it has.
Starts(f) == {i \in 0..(f.size - 1) : i = 0 \/ Within(f, i) = 0}
Split(f) == \E i \in Starts(f) : (i % ByteBits) + Bits(f, i) > BytesOf(Bits(f, i)) * ByteBits
WholeWord(f) == \E i \in Starts(f) : Bits(f, i) = Word
Crossing(f) == ~Short(f) /\ f.byteSize > BytesOf(f.size)

Fields ==
  {f \in RegionFields : ("split" \in AmlMay \/ ~Split(f)) /\ ("wholeWord" \in AmlMay \/ ~WholeWord(f))}
  \cup {f \in BufferFields : f.offset + f.size <= RegionBits /\ ("crossing" \in AmlMay \/ ~Crossing(f))}

-----------------------------------------------------------------------------
VARIABLES mem,     \* the contents of the region, of each bank, behind the index, of the buffer
          bankReg, indexReg,
          field, op, value, bytes,  \* the access, and the bytes of the value's buffer
          phase,
          i, at,   \* the bit of the field, the byte of the region
          old,     \* what was read before a write
          dest,    \* the result of a read
          was,     \* history: mem when the operation began
          log      \* history: the accesses

op_vars == <<field, op, value, bytes, was>>
vars == <<mem, bankReg, indexReg, op_vars, phase, i, at, old, dest, log>>

Spaces == {"normal", "index", "buffer"} \cup Banks

Init ==
  /\ mem \in {[s \in Spaces |-> c] : c \in Contents}
  /\ bankReg \in Banks /\ indexReg \in 0..(RegionBytes - 1)
  /\ field \in Fields /\ op \in {"read", "write"}
  /\ value \in Values
  /\ bytes \in IF op = "write" /\ field.size > Word THEN 1..BytesOf(field.size) ELSE {WordBytes}
  /\ op = "read" => value = {}
  /\ phase = "begin"
  /\ i = 0 /\ at = 0 /\ old = {} /\ dest = {} /\ was = mem /\ log = <<>>

\* read_field_to_buffer and write_field_from_buffer begin with the access that
\* holds the field's first bit. An integer has the bytes of a word; a field that
\* is longer takes a buffer, which may be shorter than the field.
Begin ==
  /\ phase = "begin" /\ field.type # "buffer"
  /\ value' = Low(value, bytes * ByteBits)
  /\ at' = (field.offset - (field.offset % AccessBits(field))) \div ByteBits
  /\ phase' = "part"
  /\ UNCHANGED <<mem, bankReg, indexReg, field, op, bytes, was, i, old, dest, log>>

\* A write reads first what it must preserve.
Reads ==
  op = "read" \/ (field.update = "preserve" /\ Bits(field, i) # AccessBits(field))

\* The bank or the index is written before each access.
Select_IndexOnce ==
  /\ bankReg' = IF field.type = "bank" THEN field.bank ELSE bankReg
  /\ indexReg' = IF field.type = "index" /\ i = 0 THEN at ELSE indexReg
Select ==
  /\ bankReg' = IF field.type = "bank" THEN field.bank ELSE bankReg
  /\ indexReg' = IF field.type = "index" THEN at ELSE indexReg

SelectFetch ==
  /\ phase = "part" /\ i < field.size /\ Reads
  /\ Select
  /\ phase' = "fetch"
  /\ UNCHANGED <<mem, op_vars, i, at, old, dest, log>>

\* What the access reaches, whatever was selected
Space == CASE field.type = "bank" -> bankReg [] OTHER -> field.type
Unit == IF field.type = "index" THEN indexReg ELSE at
UnitBits == (Unit * ByteBits)..(Unit * ByteBits + AccessBits(field) - 1)
UnitValue == Shr(mem[Space] \cap UnitBits, Unit * ByteBits)

Advance == i' = i + Bits(field, i) /\ at' = at + field.access

\* The part of a value: as many bytes as hold that many bits, from the byte it
\* begins in.
BytesAt(v, from, n) == Low(Shr(v, from * ByteBits), n * ByteBits)

Merged_Overwrites(part, n) ==
  LET from == i \div ByteBits
  IN  (dest \ (from * ByteBits)..((from + n) * ByteBits - 1))
      \cup {p + from * ByteBits : p \in Low(Shl(part, i % ByteBits), n * ByteBits)}
\* The part is merged into the bytes of the result.
Merged(part, n) ==
  LET from == i \div ByteBits
      tmp  == BytesAt(dest, from, n) \cup Shl(part, i % ByteBits)
  IN  (dest \ (from * ByteBits)..((from + n) * ByteBits - 1))
      \cup {p + from * ByteBits : p \in Low(tmp, n * ByteBits)}

Fetch ==
  /\ phase = "fetch"
  /\ log' = Append(log, <<"read", Unit>>)
  /\ IF op = "write"
       THEN old' = UnitValue /\ phase' = "store" /\ UNCHANGED <<i, at, dest>>
       ELSE /\ \E mask \in Mask(Bits(field, i)) :
                 dest' = Merged(Shr(UnitValue, Within(field, i)) \cap mask, BytesOf(Bits(field, i)))
            /\ Advance /\ phase' = "part" /\ UNCHANGED old
  /\ UNCHANGED <<mem, bankReg, indexReg, op_vars>>

\* A write that need not read: what surrounds the field is all ones, or zeros.
NoFetch ==
  /\ phase = "part" /\ i < field.size /\ ~Reads
  /\ old' = IF field.update = "ones" THEN 0..(Word - 1) ELSE {}
  /\ phase' = "store"
  /\ UNCHANGED <<mem, bankReg, indexReg, op_vars, i, at, dest, log>>

SelectStore ==
  /\ phase = "store"
  /\ Select
  /\ phase' = "put"
  /\ UNCHANGED <<mem, op_vars, i, at, old, dest, log>>

\* The part of the value that is written, as far as its buffer goes
Part ==
  LET n == Min({BytesOf(Bits(field, i)), bytes - i \div ByteBits})
  IN  IF i \div ByteBits < bytes THEN Shr(BytesAt(value, i \div ByteBits, n), i % ByteBits) ELSE {}

NewValue(mask) ==
  (old \ Shl(mask, Within(field, i))) \cup Shl(Part \cap mask, Within(field, i))

Put ==
  /\ phase = "put"
  /\ log' = Append(log, <<"write", Unit>>)
  /\ \E mask \in Mask(Bits(field, i)) :
       mem' = [mem EXCEPT ![Space] =
                 (@ \ UnitBits) \cup {p + Unit * ByteBits : p \in Low(NewValue(mask), AccessBits(field))}]
  /\ Advance /\ phase' = "part"
  /\ UNCHANGED <<bankReg, indexReg, op_vars, old, dest>>

End ==
  /\ phase = "part" /\ i >= field.size
  /\ phase' = "done"
  /\ UNCHANGED <<mem, bankReg, indexReg, op_vars, i, at, old, dest, log>>

-----------------------------------------------------------------------------
\* A field of a buffer that fits into a word is read and written as an integer;
\* a longer one is read byte by byte.
Owner == Shr(mem["buffer"], field.byteOffset * ByteBits)
Masked == field.bitOffset # 0 \/ field.bitSize # 0

ReadBuffer ==
  LET last == (field.byteSize - 1) * ByteBits  \* where the last byte begins
      all  == Low(Shr(Owner, field.bitOffset), field.byteSize * ByteBits)
  IN  /\ phase = "begin" /\ field.type = "buffer" /\ op = "read"
      /\ dest' = IF Short(field)
                   THEN IF Masked THEN Low(all, field.size) ELSE all
                   ELSE IF field.bitSize # 0 THEN Low(all, last + field.bitSize) ELSE all
      /\ phase' = "done"
      /\ UNCHANGED <<mem, bankReg, indexReg, op_vars, i, at, old, log>>

WriteBuffer ==
  LET bits == (field.byteOffset * ByteBits)..((field.byteOffset + field.byteSize) * ByteBits - 1)
      mask == 0..(field.size - 1)
      new  == IF Masked THEN (Owner \ Shl(mask, field.bitOffset)) \cup Shl(value \cap mask, field.bitOffset)
              ELSE Low(value, Word)
  IN  /\ phase = "begin" /\ field.type = "buffer" /\ op = "write" /\ Short(field)
      /\ mem' = [mem EXCEPT !["buffer"] =
                   (@ \ bits) \cup {p + field.byteOffset * ByteBits :
                                      p \in Low(new, field.byteSize * ByteBits)}]
      /\ phase' = "done"
      /\ UNCHANGED <<bankReg, indexReg, op_vars, i, at, old, dest, log>>

\* A longer one is written byte by byte, but the loop never advances i: it
\* stores the value's first byte again and again. The model follows it to the
\* end of the buffer, which the code runs over.
WriteByte ==
  LET byte == (field.byteOffset + at) * ByteBits
      mask == 0..(Min({field.size, ByteBits}) - 1)
      new  == (Low(Shr(mem["buffer"], byte), ByteBits) \ Shl(mask, field.bitOffset))
              \cup Shl(value \cap mask, field.bitOffset)
  IN  /\ phase \in {"begin", "bytes"} /\ field.type = "buffer" /\ op = "write" /\ ~Short(field)
      /\ field.byteOffset + at < RegionBytes
      /\ mem' = [mem EXCEPT !["buffer"] =
                   (@ \ byte..(byte + ByteBits - 1)) \cup {p + byte : p \in Low(new, ByteBits)}]
      /\ at' = at + 1 /\ phase' = "bytes"
      /\ UNCHANGED <<bankReg, indexReg, op_vars, i, old, dest, log>>

-----------------------------------------------------------------------------
Next ==
  \/ Begin \/ SelectFetch \/ Fetch \/ NoFetch \/ SelectStore \/ Put \/ End
  \/ ReadBuffer \/ WriteBuffer \/ WriteByte

\* It is one loop of one thread.
Spec == Init /\ [][Next]_vars /\ WF_vars(Next)

-----------------------------------------------------------------------------
TypeOK ==
  /\ \A s \in Spaces : mem[s] \subseteq 0..(RegionBits - 1)
  /\ bankReg \in Banks /\ indexReg \in 0..(RegionBytes - 1)
  /\ phase \in {"begin", "part", "fetch", "store", "put", "bytes", "done"}
  /\ old \subseteq 0..(Word - 1)
  /\ dest \subseteq 0..(RegionBits - 1)

Home(f) == IF f.type = "bank" THEN f.bank ELSE f.type
FieldBits(f) == f.offset..(f.offset + f.size - 1)
UnitsOf(f) == {(p \div AccessBits(f)) * f.access : p \in FieldBits(f)}

\* What the units that are touched hold beside the field
Around(f) ==
  LET touched == UNION {(u * ByteBits)..((u + f.access) * ByteBits - 1) : u \in UnitsOf(f)}
  IN  CASE f.type = "buffer" \/ f.update = "preserve" -> was[Home(f)]
        [] f.update = "ones"                         -> was[Home(f)] \cup touched
        [] OTHER                                     -> was[Home(f)] \ touched

\* A write leaves in the field what was stored, with zeros where the value is
\* too short, around it what its update rule says, and changes nothing else: no
\* other unit, no other bank (src/tests/test-cases/op-region-field.asl).
WriteExact ==
  phase = "done" /\ op = "write" =>
    mem = [was EXCEPT ![Home(field)] =
             (Around(field) \ FieldBits(field)) \cup
             {p + field.offset : p \in Low(value, field.size)}]

\* A read gives the field's bits and nothing beside them, and changes nothing.
ReadExact ==
  phase = "done" /\ op = "read" =>
    /\ dest = Low(Shr(was[Home(field)], field.offset), field.size)
    /\ mem = was

\* Registers are accessed as the field says: each unit that holds a bit of it
\* once, in ascending order, with a read before the write where bits of others
\* must be preserved, and no unit beside them (a read may have side effects).
AccessedOnce ==
  /\ \A k \in DOMAIN log : log[k][2] \in UnitsOf(field)
  /\ \A k, l \in DOMAIN log :
       k < l =>
         \/ log[k][2] < log[l][2]
         \/ /\ log[k][2] = log[l][2]
            /\ log[k][1] = "read" /\ log[l][1] = "write"
  /\ phase = "done" /\ field.type # "buffer" =>
       \A u \in UnitsOf(field) : <<op, u>> \in ToSet(log)

LongWrite == field.type = "buffer" /\ op = "write" /\ field.byteSize > WordBytes
\* Every access comes to its end, but for the write of a field of a buffer that
\* is longer than a word (src/src/interpreter.cpp:769).
Ends == (phase = "begin" /\ ~LongWrite) ~> (phase = "done")

\* An access does what the field's layout says, bit by bit.
FieldExact == TypeOK /\ WriteExact /\ ReadExact
=============================================================================
