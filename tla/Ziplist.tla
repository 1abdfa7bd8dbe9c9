------------------------------- MODULE Ziplist -------------------------------
(***************************************************************************)
(* ziplist.c: a list in one block of memory.  The header holds the bytes   *)
(* of the block, the offset of the last entry and the number of entries    *)
(* (or the largest number its field can hold, which means "count them").   *)
(* Every entry starts with the length of the entry before it, in 1 byte,   *)
(* or in 5 when that length is ZIP_BIG_PREVLEN or more; a change of size   *)
(* of one entry may therefore change the size of the next.                 *)
(*                                                                         *)
(* An entry is [psize |-> bytes of its prevlen field, prevlen |-> what the *)
(* field says, val |-> the value it was made for, which gives its encoding, *)
(* data |-> what is stored]; conf.len and conf.int give the length of  *)
(* a value as a string and the integer it spells: <<>> if it spells none,  *)
(* <<n>>, or <<low, high>> for one that needs 64 bits.  conf.lenmax is     *)
(* UINT16_MAX and conf.most bounds the entries of a behaviour.             *)
(***************************************************************************)
EXTENDS Structure, SequencesExt

HEADER == 10
ZIP_BIG_PREVLEN == 254

\* The bytes of the payload under the smallest encoding, -1 for a string.
zipTryEncoding(v) ==
  LET n == conf.int[v][1] IN
  IF conf.len[v] >= 32 \/ conf.int[v] = <<>> THEN -1
  ELSE IF Len(conf.int[v]) = 2 THEN 8
  ELSE IF n \in 0..12 THEN 0
  ELSE IF n \in -128..127 THEN 1
  ELSE IF n \in -32768..32767 THEN 2
  ELSE IF n >= -8388608 /\ n <= 8388607 THEN 3
  ELSE 4

zipStoreEntryEncoding(v) ==
  IF zipTryEncoding(v) # -1 \/ conf.len[v] <= 63 THEN 1
  ELSE IF conf.len[v] <= 16383 THEN 2 ELSE 5

Payload(v) == IF zipTryEncoding(v) # -1 THEN zipTryEncoding(v) ELSE conf.len[v]

\* The bytes an integer is stored as, and the integer read back from them: a
\* width of 0 is the immediate value in the encoding byte, and widths of 4
\* and 8 hold every integer of the model as it is.
zipSaveInteger(n, w) == IF w = 0 THEN n + 1 ELSE IF w <= 3 THEN n % 256 ^ w ELSE n
zipLoadInteger(b, w) ==
  IF w = 0 THEN b - 1
  ELSE IF w <= 3 /\ b >= 256 ^ w \div 2 THEN b - 256 ^ w ELSE b
Store(v) == LET w == zipTryEncoding(v)
            IN  IF w \in 0..4 THEN zipSaveInteger(conf.int[v][1], w) ELSE v

\* The value an entry reads as; 0 if it is none of conf.vals.
ziplistGet(e) ==
  LET w == zipTryEncoding(e.val)
      spelled == {v \in conf.vals : conf.int[v] = <<zipLoadInteger(e.data, w)>>}
  IN  IF w \notin 0..4 THEN e.data
      ELSE IF spelled = {} THEN 0 ELSE CHOOSE v \in spelled : TRUE

zipStorePrevEntryLength(n) == IF n < ZIP_BIG_PREVLEN THEN 1 ELSE 5
zipRawEntryLength(e) == e.psize + zipStoreEntryEncoding(e.val) + Payload(e.val)
zipPrevLenByteDiff(e, len) == zipStorePrevEntryLength(len) - e.psize

ziplistNew == [bytes |-> HEADER + 1, tail |-> HEADER, len |-> 0, e |-> <<>>, lost |-> FALSE]

Count(zl) == Len(zl.e)
Raw(zl, i) == zipRawEntryLength(zl.e[i])
\* The offset of entry i, or of the end byte when i is one past the last.
OffsetOf(zl, i) == HEADER + SumFunctionOnSet([j \in 1..(i - 1) |-> Raw(zl, j)], 1..(i - 1))
\* The entry at offset o: a set with at most one element.
EntryAt(zl, o) == {i \in DOMAIN zl.e : OffsetOf(zl, i) = o}
IncrLength(zl, n) == IF zl.len < conf.lenmax THEN [zl EXCEPT !.len = @ + n] ELSE zl

-----------------------------------------------------------------------------
\* The prevlen field of entry i + 1 grows to hold the size of entry i.
GrowNext(zl, i) ==
  LET raw == Raw(zl, i)
      need == zipStorePrevEntryLength(raw)
      extra == need - zl.e[i + 1].psize
      np == OffsetOf(zl, i + 1)
  IN  [zl EXCEPT !.bytes = @ + extra, !.e[i + 1].psize = need, !.e[i + 1].prevlen = raw,
                 !.tail = IF @ # np THEN @ + extra ELSE @]

RECURSIVE __ziplistCascadeUpdate(_, _)
__ziplistCascadeUpdate(zl, i) ==
  IF i >= Count(zl) \/ zl.e[i + 1].prevlen = Raw(zl, i) THEN zl
  ELSE IF zl.e[i + 1].psize < zipStorePrevEntryLength(Raw(zl, i))
  THEN __ziplistCascadeUpdate(GrowNext(zl, i), i + 1)
  ELSE [zl EXCEPT !.e[i + 1].prevlen = Raw(zl, i)]

\* The entries before i, then those given, then the old ones from n on, the
\* first of which gets a prevlen field that is diff bytes wider.
Spliced(zl, i, given, n, diff, prevlen) ==
  LET rest == SubSeq(zl.e, n, Count(zl))
  IN  SubSeq(zl.e, 1, i - 1) \o given \o
      [j \in DOMAIN rest |-> IF j = 1 THEN [rest[1] EXCEPT !.psize = @ + diff, !.prevlen = prevlen]
                             ELSE rest[j]]

CascadeIf(zl, i, diff) == IF diff # 0 THEN __ziplistCascadeUpdate(zl, i) ELSE zl

\* Entries i to n, of totlen bytes, give way to those that follow them.
Deleted(zl, i, n, totlen, diff) ==
  LET first == zl.e[i]
      tail == IF n = Count(zl) THEN OffsetOf(zl, i) - first.prevlen
              ELSE zl.tail - totlen + (IF n + 1 < Count(zl) THEN diff ELSE 0)
  IN  CascadeIf(IncrLength([zl EXCEPT !.e = Spliced(zl, i, <<>>, n + 1, diff, first.prevlen),
                                      !.tail = tail, !.bytes = @ - totlen + diff,
                                      !.lost = @ \/ diff > totlen], i - n - 1), i, diff)

\* num entries are deleted from entry i on.  The entry that follows them
\* takes over the prevlen of the first; its field grows into bytes of the
\* deleted entries.
__ziplistDelete(zl, i, num) ==
  LET n == IF i + num - 1 < Count(zl) THEN i + num - 1 ELSE Count(zl)
      totlen == OffsetOf(zl, n + 1) - OffsetOf(zl, i)
      diff == IF n = Count(zl) THEN 0 ELSE zipPrevLenByteDiff(zl.e[n + 1], zl.e[i].prevlen)
  IN  IF totlen = 0 THEN zl ELSE Deleted(zl, i, n, totlen, diff)

\* The entry for v in front of entry i (one past the last to append).
NewEntry(zl, i, v) ==
  LET tailEntry == EntryAt(zl, zl.tail)
      prevlen == IF i <= Count(zl) THEN zl.e[i].prevlen
                 ELSE IF tailEntry = {} THEN 0
                 ELSE Raw(zl, CHOOSE j \in tailEntry : TRUE)
  IN  [psize |-> zipStorePrevEntryLength(prevlen), prevlen |-> prevlen, val |-> v, data |-> Store(v)]

\* Mutant: the field of the next entry is shrunk whatever the new entry needs
MutantNextDiff(zl, i, reqlen) ==
  IF i > Count(zl) THEN 0 ELSE zipPrevLenByteDiff(zl.e[i], reqlen)

\* The change of the field of entry i: it is not shrunk, though it could be,
\* when the block would shrink for it.
NextDiff(zl, i, reqlen) ==
  LET d == IF i > Count(zl) THEN 0 ELSE zipPrevLenByteDiff(zl.e[i], reqlen)
  IN  IF d = -4 /\ reqlen < 4 THEN 0 ELSE d

\* The block is resized before the entries move, so bytes of the tail are
\* lost if it would shrink.
Placed(zl, i, new, reqlen, diff) ==
  LET tail == IF i > Count(zl) THEN OffsetOf(zl, i)
              ELSE zl.tail + reqlen + (IF i < Count(zl) THEN diff ELSE 0)
  IN  IncrLength(CascadeIf([zl EXCEPT !.e = Spliced(zl, i, <<new>>, i, diff, reqlen),
                                      !.tail = tail, !.bytes = @ + reqlen + diff,
                                      !.lost = @ \/ reqlen + diff < 0], i + 1, diff), 1)

PlacedNew(zl, i, new) ==
  Placed(zl, i, new, zipRawEntryLength(new), NextDiff(zl, i, zipRawEntryLength(new)))

__ziplistInsert(zl, i, v) == PlacedNew(zl, i, NewEntry(zl, i, v))

ziplistPush(zl, v, where) == __ziplistInsert(zl, IF where = "head" THEN 1 ELSE Count(zl) + 1, v)

\* Two lists that are not empty (no caller merges an empty one).
ziplistMerge(zl, zm) ==
  LET n == zl.len + zm.len
      z == [bytes |-> zl.bytes + zm.bytes - HEADER - 1,
            tail |-> (zl.bytes - 1) + (zm.tail - HEADER),
            len |-> IF n < conf.lenmax THEN n ELSE conf.lenmax,
            e |-> zl.e \o zm.e, lost |-> zl.lost \/ zm.lost]
  IN  __ziplistCascadeUpdate(z, CHOOSE i \in EntryAt(zl, zl.tail) : TRUE)

\* n entries back from offset o, through the prevlen fields: the set of the
\* entry reached, empty past the head or where a field leads to no entry.
RECURSIVE Backward(_, _, _)
Backward(zl, o, n) ==
  LET i == EntryAt(zl, o) IN
  IF i = {} \/ n = 0 THEN i
  ELSE LET p == zl.e[CHOOSE x \in i : TRUE].prevlen
       IN  IF p = 0 THEN {} ELSE Backward(zl, o - p, n - 1)

ziplistIndex(zl, index) ==
  IF index < 0 THEN Backward(zl, zl.tail, -index - 1)
  ELSE {i \in DOMAIN zl.e : i = index + 1}

ziplistDeleteRange(zl, index, num) ==
  LET at == ziplistIndex(zl, index)
  IN  IF at = {} \/ num = 0 THEN zl ELSE __ziplistDelete(zl, CHOOSE i \in at : TRUE, num)

\* The position, from 0, of the first entry equal to v, comparing one entry
\* in skip + 1; -1 if there is none.
RECURSIVE FindFrom(_, _, _, _, _)
FindFrom(zl, i, v, skip, skipcnt) ==
  IF i > Count(zl) THEN -1
  ELSE IF skipcnt = 0 /\ ziplistGet(zl.e[i]) = v THEN i - 1
  ELSE FindFrom(zl, i + 1, v, skip, IF skipcnt = 0 THEN skip ELSE skipcnt - 1)
ziplistFind(zl, v, skip) == FindFrom(zl, 1, v, skip, 0)

\* [res, zl]: the count, stored again when it fits the field.
ziplistLen(zl) ==
  IF zl.len < conf.lenmax THEN [zl |-> zl, res |-> zl.len]
  ELSE [zl |-> IF Count(zl) < conf.lenmax THEN [zl EXCEPT !.len = Count(zl)] ELSE zl,
        res |-> Count(zl)]

-----------------------------------------------------------------------------
(* The actions of a behaviour of kind "ziplist"; s is the list. *)

IsZiplist == kind = "ziplist"
ZiplistView(zl) == [i \in DOMAIN zl.e |-> ziplistGet(zl.e[i])]
Room(n) == Count(s) + n <= conf.most

ZiplistPush(where, v) ==
  /\ IsZiplist
  /\ Room(1)
  /\ Call("push", <<where, v>>, ziplistPush(s, v, where), TRUE)

ZiplistInsert(index, v) ==
  /\ IsZiplist
  /\ Room(1)
  /\ \E i \in ziplistIndex(s, index) :
       Call("insert", <<index, v>>, __ziplistInsert(s, i, v), TRUE)

ZiplistDelete(index) ==
  /\ IsZiplist
  /\ \E i \in ziplistIndex(s, index) :
       Call("delete", <<index>>, __ziplistDelete(s, i, 1), TRUE)

ZiplistDeleteRange(index, num) ==
  /\ IsZiplist
  /\ Call("range", <<index, num>>, ziplistDeleteRange(s, index, num),
          ziplistIndex(s, index) # {} /\ num > 0)

\* Another list of one or two values is appended.
ZiplistMerge(l) ==
  /\ IsZiplist
  /\ Count(s) > 0
  /\ Room(Len(l))
  /\ LET other == FoldLeft(LAMBDA zl, v : ziplistPush(zl, v, "tail"), ziplistNew, l)
     IN  Call("merge", <<l>>, ziplistMerge(s, other), TRUE)

ZiplistIndex(index) ==
  /\ IsZiplist
  /\ Call("index", <<index>>, s, SetToSeq({ziplistGet(s.e[i]) : i \in ziplistIndex(s, index)}))

ZiplistFind(v, skip) ==
  /\ IsZiplist
  /\ Call("find", <<v, skip>>, s, ziplistFind(s, v, skip))

ZiplistLen ==
  /\ IsZiplist
  /\ LET r == ziplistLen(s) IN Call("len", <<>>, r.zl, r.res)

ZiplistNext ==
  \/ \E v \in conf.vals :
       \/ \E where \in {"head", "tail"} : ZiplistPush(where, v)
       \/ \E i \in conf.at : ZiplistInsert(i, v)
       \/ \E skip \in 0..1 : ZiplistFind(v, skip)
       \/ ZiplistMerge(<<v>>)
       \/ \E w \in conf.vals : ZiplistMerge(<<v, w>>)
  \/ \E i \in conf.at : \/ ZiplistDelete(i) \/ ZiplistIndex(i)
                        \/ \E n \in 0..2 : ZiplistDeleteRange(i, n)
  \/ ZiplistLen

-----------------------------------------------------------------------------
\* The block is consistent after every call: the byte count is the sum of
\* the entries, the tail offset leads to the last entry, every prevlen field
\* holds the size of the entry before it in a field wide enough for it, the
\* length field is the number of entries or the value that means "count
\* them", and no call moved bytes it had no room for ("There always is room
\* to store this").
ZiplistConsistent(zl) ==
  LET n == Count(zl) IN
  /\ zl.bytes = OffsetOf(zl, n + 1) + 1
  /\ zl.tail = IF n = 0 THEN HEADER ELSE OffsetOf(zl, n)
  /\ \A i \in 1..n :
       /\ zl.e[i].prevlen = IF i = 1 THEN 0 ELSE Raw(zl, i - 1)
       /\ zl.e[i].psize >= zipStorePrevEntryLength(zl.e[i].prevlen)
  /\ zl.len = n \/ zl.len = conf.lenmax
  /\ ~zl.lost
ZiplistShape == IsZiplist => ZiplistConsistent(s)
=============================================================================
