-------------------------------- MODULE Tidx --------------------------------
(***************************************************************************)
(* The .tidx file of crate cheime-tidx: what write_tidex puts where, when  *)
(* TidexReader::open accepts a file and what its binary searches return.   *)
(*                                                                         *)
(* A file is the value of each of its sections, at the byte offsets the    *)
(* header declares, and its length: a file that was not written to its end *)
(* has the same sections and is shorter.  Texts and codes are sequences of *)
(* one-byte characters.                                                    *)
(***************************************************************************)
EXTENDS Orders

HeaderSize    == 64
CodeEntrySize == 12
BlockSize     == 8

\* text_written_len: a string follows its length.
WrittenLen(text) == 2 + Len(text)

Total(seq) == FoldLeft(LAMBDA n, m : n + m, 0, seq)

\* The code and the texts of each code in turn, each string once.
TextPool(codeEntries) ==
  FoldLeft(LAMBDA pool, s : IF Contains(pool, s) THEN pool ELSE Append(pool, s), <<>>,
           FlattenSeq([i \in DOMAIN codeEntries |->
             <<codeEntries[i].code>> \o [j \in DOMAIN codeEntries[i].entries |->
                                           codeEntries[i].entries[j].text]]))

\* write_tidex: codeEntries is a sequence of codes, in order, and their entries.
Written(codeEntries) ==
  LET pool      == TextPool(codeEntries)
      counts    == [i \in DOMAIN codeEntries |-> Len(codeEntries[i].entries)]
      lens      == [k \in DOMAIN pool |-> WrittenLen(pool[k])]
      blockTbl  == HeaderSize + CodeEntrySize * Len(codeEntries)
      textPool  == blockTbl + BlockSize * Total(counts)
      offset    == [k \in DOMAIN pool |-> textPool + Total(SubSeq(lens, 1, k - 1))]
      textOff(s) == offset[CHOOSE k \in DOMAIN pool : pool[k] = s]
  IN  [codeCount |-> Len(codeEntries), entryCount |-> Total(counts),
       textPoolSize |-> Total(lens), codeIdxOff |-> HeaderSize,
       blockTblOff |-> blockTbl, textPoolOff |-> textPool,
       codes  |-> [i \in DOMAIN codeEntries |->
                     [code |-> textOff(codeEntries[i].code),
                      first |-> Total(SubSeq(counts, 1, i - 1)), count |-> counts[i]]],
       blocks |-> FlattenSeq([i \in DOMAIN codeEntries |->
                     [j \in DOMAIN codeEntries[i].entries |->
                        [text |-> textOff(codeEntries[i].entries[j].text),
                         weight |-> codeEntries[i].entries[j].weight]]]),
       texts  |-> [o \in Range(offset) |-> pool[CHOOSE k \in DOMAIN pool : offset[k] = o]],
       length |-> textPool + Total(lens)]

CodeEnd(file)  == file.codeIdxOff + CodeEntrySize * file.codeCount
BlockEnd(file) == file.blockTblOff + BlockSize * file.entryCount
TextEnd(file)  == file.textPoolOff + file.textPoolSize

\* Variant for mutation: the end of the text pool is not checked.
OpensByTables(file) ==
  /\ file.length >= HeaderSize
  /\ CodeEnd(file) <= file.length
  /\ BlockEnd(file) <= file.length

\* TidexReader::open: not empty, a header, every declared section in the file.
Opens(file) ==
  /\ file.length >= HeaderSize
  /\ CodeEnd(file) <= file.length
  /\ BlockEnd(file) <= file.length
  /\ TextEnd(file) <= file.length

CodeAt(file, idx) == file.texts[file.codes[idx + 1].code]

ReadBlocks(file, first, count) ==
  [i \in 1 .. count |->
     LET block == file.blocks[first + i]
     IN  [text |-> file.texts[block.text], weight |-> block.weight]]

\* find_code and query: the entries of the code the search stops at.
Query(file, code) ==
  LET search[lo \in 0 .. file.codeCount, hi \in 0 .. file.codeCount] ==
        LET mid == lo + (hi - lo) \div 2
        IN  CASE lo >= hi                       -> <<>>
              [] lo < hi /\ CodeAt(file, mid) = code ->
                   LET entry == file.codes[mid + 1]
                   IN  ReadBlocks(file, entry.first, entry.count)
              [] lo < hi /\ LexLess(CodeAt(file, mid), code) -> search[mid + 1, hi]
              [] OTHER                          -> search[lo, mid]
  IN  search[0, file.codeCount]

\* The number of codes below target.
LowerBound(file, target) ==
  LET search[lo \in 0 .. file.codeCount, hi \in 0 .. file.codeCount] ==
        LET mid == lo + (hi - lo) \div 2
        IN  IF lo >= hi THEN lo
            ELSE IF LexLess(CodeAt(file, mid), target) THEN search[mid + 1, hi]
            ELSE search[lo, mid]
  IN  search[0, file.codeCount]

\* find_prefix_range: from the lower bound on, while the codes match.
PrefixRange(file, prefix) ==
  LET start == LowerBound(file, prefix)
      stops == {i \in start .. file.codeCount - 1 : ~ IsPrefix(prefix, CodeAt(file, i))}
  IN  start .. (IF stops = {} THEN file.codeCount ELSE Min(stops)) - 1

\* query_prefix: the heaviest, in the order of the file where weights are equal.
QueryPrefix(file, prefix, limit) ==
  LET found == FlattenSeq([k \in 1 .. Cardinality(PrefixRange(file, prefix)) |->
                 LET entry == file.codes[LowerBound(file, prefix) + k]
                 IN  ReadBlocks(file, entry.first, entry.count)])
  IN  Truncated(Sorted(found, LAMBDA e : <<-e.weight>>), limit)

=============================================================================
