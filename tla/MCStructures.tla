---------------------------- MODULE MCStructures ----------------------------
EXTENDS Dict, Ziplist, Quicklist, Intset, Zset

CONSTANT Configs

\* The inputs a structure has no use for are empty.
Unused == [keys |-> {}, vals |-> {}, at |-> {}, adds |-> {}, flags |-> {}, rems |-> {}, ranges |-> {}, srcs |-> {},
           aggs |-> {}, calls |-> FALSE]

DictBase == [kind |-> "dict", initial |-> 2, visits |-> 1, ratio |-> 1, fill |-> 40, bits |-> 4,
             children |-> FALSE, calls |-> FALSE, keys |-> 0..4, vals |-> {1}, walk |-> "none",
             hash |-> <<0, 4, 1, 6, 3>>]
DictScanning == [DictBase EXCEPT !.keys = 1..4, !.walk = "scan"]
DictIterating == [DictBase EXCEPT !.keys = 1..4, !.walk = "iterate"]
DictPlain == [DictBase EXCEPT !.keys = 1..3, !.vals = {1, 2}, !.calls = TRUE, !.children = TRUE]
ZiplistBase == [kind |-> "ziplist", lenmax |-> 3, most |-> 5, at |-> -2..2, calls |-> FALSE,
                vals |-> 1..3, len |-> <<1, 248, 251, 3, 5>>, int |-> << <<5>>, <<>>, <<>> >>]
ZiplistCascade == ZiplistBase
ZiplistCalls == [ZiplistBase EXCEPT !.calls = TRUE, !.most = 3, !.at = -3..2]
ZiplistInts == [ZiplistBase EXCEPT !.calls = TRUE, !.most = 1, !.vals = 1..12, !.at = {-1, 0},
                  !.len = [v \in 1..12 |-> 5],
                  !.int = << <<0>>, <<12>>, <<13>>, <<-128>>, <<127>>, <<128>>, <<-32768>>, <<32767>>,
                             <<-8388608>>, <<8388607>>, <<8388608>>, <<0, 1>> >>]
QuicklistBase == [kind |-> "quicklist", calls |-> FALSE, fill |-> 2, compress |-> 1, most |-> 5,
                  vals |-> {1}, at |-> -2..2, size |-> <<40, 3, 40>>, level |-> <<100>>,
                  safety |-> 200, least |-> 48, ops |-> {}]
Reads == {"index", "slice"}
QuicklistCalls == [QuicklistBase EXCEPT !.calls = TRUE, !.compress = 0, !.vals = 1..2, !.most = 4,
                    !.ops = {"push", "pop", "rotate", "linsert", "rem", "set", "trim"} \cup Reads]
QuicklistLevel == [QuicklistCalls EXCEPT !.fill = -1, !.compress = 1, !.most = 3, !.at = -1..1]
QuicklistPacked == [QuicklistCalls EXCEPT !.fill = 1, !.compress = 1, !.ops = @ \ Reads]
QuicklistEnds == [QuicklistBase EXCEPT !.ops = {"push", "pop", "rotate", "trim", "load"}, !.most = 8]
QuicklistDeep == [QuicklistEnds EXCEPT !.compress = 2, !.most = 12]
QuicklistWalk == [QuicklistBase EXCEPT !.ops = {"push", "pop", "index", "slice"}]
IntsetWide == [kind |-> "intset", calls |-> TRUE, vals |-> {-6, -5, -3, -2, 0, 1, 2, 3, 4, 7}, most |-> 4,
               max16 |-> 1, max32 |-> 3]
ScoreRange(a, b, x, y) == [lex |-> FALSE, min |-> a, max |-> b, minex |-> x, maxex |-> y]
LexRange(a, b, x, y) == [ScoreRange(a, b, x, y) EXCEPT !.lex = TRUE]
ZsetBase == [kind |-> "zset", calls |-> FALSE, keys |-> 1..4, maxlevel |-> 2, entries |-> 1, long |-> {},
             mintext |-> 60, maxtext |-> 50, at |-> {}, other |-> {}, rems |-> {}, flags |-> {{}},
             srcs |-> {}, aggs |-> {}, ranges |-> {}, adds |-> {}, big |-> 2]
ZsetDeep == [ZsetBase EXCEPT !.adds = {<<<<e, v>>>> : e \in 1..4, v \in 1..2}, !.rems = {<<e>> : e \in 1..4},
               !.at = {0, 1, -2}, !.maxlevel = 3,
               !.ranges = {ScoreRange(1, 2, TRUE, FALSE), ScoreRange(1, 1, FALSE, FALSE), LexRange(2, 3, FALSE, FALSE),
                           LexRange(MinString, 3, FALSE, TRUE), LexRange(1, MaxString, TRUE, FALSE), ScoreRange(2, 1, FALSE, FALSE)}]
ZsetCalls == [ZsetBase EXCEPT !.calls = TRUE, !.keys = 1..2, !.maxlevel = 1,
               !.adds = {<<<<e, v>>>> : e \in 1..2, v \in {1, Inf, -Inf}} \cup {<<<<1, 1>>, <<2, 0>>, <<1, 2>>>>},
               !.flags = {{}, {"nx"}, {"xx", "ch"}, {"incr"}, {"nx", "incr"}, {"nx", "xx"}},
               !.rems = {<<1>>, <<2, 1, 2>>}, !.at = {0, 1, -1}, !.other = {2},
               !.srcs = {<<[of |-> "key", weight |-> -1], [of |-> "other", weight |-> 2]>>,
                         <<[of |-> "key", weight |-> 1], [of |-> "key", weight |-> 1]>>,
                         <<[of |-> "none", weight |-> 1], [of |-> "other", weight |-> 1]>>},
               !.aggs = {"sum", "min", "max"},
               !.ranges = {ScoreRange(1, Inf, TRUE, FALSE), ScoreRange(-Inf, 1, FALSE, FALSE), LexRange(1, 2, TRUE, FALSE)}]
ZsetSmall == [ZsetBase EXCEPT !.calls = TRUE, !.keys = 1..3, !.big = 2, !.long = {3}, !.entries = 2,
               !.adds = {<<<<e, 1>>>> : e \in 1..3}, !.rems = {<<3>>, <<2, 1>>}, !.at = {0, -2}, !.other = {1, 3},
               !.srcs = {<<[of |-> "key", weight |-> -1], [of |-> "other", weight |-> 2]>>}, !.aggs = {"sum"},
               !.ranges = {ScoreRange(-1, 1, TRUE, FALSE), LexRange(2, 3, FALSE, TRUE)}]
\* Every structure with the settings that reach its own hard cases.
Structures == {DictScanning, DictIterating, DictPlain, ZiplistCascade, ZiplistCalls, ZiplistInts,
               QuicklistCalls, QuicklistLevel, QuicklistPacked, QuicklistEnds, QuicklistDeep, IntsetWide,
               ZsetDeep, ZsetCalls, ZsetSmall}
\* A compressed quicklist that is read between pushes and pops.
WalkedQuicklist == {QuicklistWalk}

Init ==
  /\ conf \in {c @@ Unused : c \in Configs}
  /\ kind = conf.kind
  /\ s = CASE conf.kind = "dict" -> DictInit
         [] conf.kind = "ziplist" -> ziplistNew
         [] conf.kind = "quicklist" -> quicklistCreate
         [] conf.kind = "intset" -> intsetNew
         [] conf.kind = "zset" -> NoKey
  /\ last = NoCall
Next == DictNext \/ ZiplistNext \/ QuicklistNext \/ IntsetNext \/ ZsetNext
Spec == Init /\ [][Next]_svars

-----------------------------------------------------------------------------
\* Each structure keeps the shape its own code relies on, after any sequence
\* of calls: no dictionary entry is below the rehash index of the old table,
\* the previous length, tail and size fields of a ziplist agree with its
\* entries, the counts of a quicklist with its nodes, the members of an intset
\* are in order and in the block's width, and the spans, levels and back
\* pointers of a skiplist with its elements and its dictionary.  Reads and
\* walks of a structure give all that is in it: the reads of a sorted set agree
\* in both encodings, a scan returns every key present from its first call to
\* its last, and a safe iterator returns it once, whatever is added, deleted,
\* rehashed, grown or shrunk between their steps (dict.c: "The function
\* guarantees all elements present in the dictionary get returned").
StructuresSound ==
  /\ DictShape /\ ZiplistShape /\ QuicklistShape /\ EndsRawByEnds /\ IntsetShape /\ ZsetShape
  /\ ScanComplete /\ IterateOnce /\ ZsetReads

\* What a caller sees of the structure in use, in the settings that record
\* the calls.
Abstract == INSTANCE StructureSpecs
  WITH type <- kind,
       map <- IF IsDict /\ conf.calls THEN DictMap(s.d) ELSE <<>>,
       list <- CASE IsZiplist /\ conf.calls -> ZiplistView(s)
                 [] IsQuicklist /\ conf.calls -> QuicklistView
                 [] OTHER -> <<>>,
       set <- IF IsIntset /\ conf.calls THEN {_intsetGet(s, i) : i \in 0..(s.length - 1)} ELSE {},
       scores <- IF IsZset /\ conf.calls THEN [e \in conf.keys |-> zsetScore(s, e)] ELSE <<>>
=============================================================================
