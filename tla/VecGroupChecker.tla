-------------------------- MODULE VecGroupChecker --------------------------
(***************************************************************************)
(* vecGroupChecker (src/executor/aggregate.go): splits each chunk of a    *)
(* stream sorted on the GROUP BY key into groups, and says whether the    *)
(* first group of a chunk continues the last group of the previous one.   *)
(*                                                                         *)
(* A row is its group-by value.  Within a chunk, rows are compared      *)
(* after ConvertByDefCauslationStr, modelled as the collation key Coll[v]. *)
(* Across chunks, and in the first/last shortcut, the key is              *)
(* codec.EncodeValue of a datum that holds the raw string and the         *)
(* column's collation name; codec is not part of this repository, and     *)
(* the datum is built without ConvertByDefCauslationStr, so the key is    *)
(* the raw value.  The per-type evaluation loops differ only in how they  *)
(* compare; the GROUP BY list is one item (a tuple of items compares the  *)
(* same way) or empty.  The checker's fields are one record and its       *)
(* methods are operators on it, so that StreamAgg performs them inside    *)
(* its own steps.                                                          *)
(***************************************************************************)
EXTENDS Integers, Sequences, SequencesExt

CONSTANTS
    Vals,        \* group-by values the child can produce
    Coll,        \* [Vals -> Nat]: collation key, in sort order
    HasGroupBy,  \* len(e.GroupByItems) > 0
    NoKey,       \* an empty lastGroupKeyOfPrevChk
    MaxRows      \* rows per chunk

ASSUME Coll \in [Vals -> Nat] /\ NoKey \notin Vals /\ MaxRows \in Nat \ {0}

Checker == [groupOffset : Seq(Nat), groupCount : Nat, nextGroupID : Nat,
            lastGroupKeyOfPrevChk : Vals \cup {NoKey}]

\* newVecGroupChecker
NewVecGroupChecker ==
    [groupOffset |-> <<>>, groupCount |-> 0, nextGroupID |-> 0,
     lastGroupKeyOfPrevChk |-> NoKey]

\* getFirstAndLastEventCauset and codec.EncodeValue: the datum is the raw
\* string (SetString(firstCauset, tp.DefCauslate)), the same collation name
\* for every row of the column, so keys are equal exactly when the values are
EncodeValue(v) == v

\* The key of a chunk's last group, kept as lastGroupKeyOfPrevChk
LastGroupKey(c) == EncodeValue(c[Len(c)])

\* evalGroupItemsAndResolveGroups: row i continues row i-1 when their
\* values are equal after codec.ConvertByDefCauslationStr
SameGroup(x, y) == Coll[x] = Coll[y]

\* reset: groupOffset is truncated; groupCount, nextGroupID and
\* lastGroupKeyOfPrevChk are left as they are
Reset(g) == [g EXCEPT !.groupOffset = <<>>]

\* splitIntoGroups: the group end offsets (0-based, exclusive) and
\* isFirstGroupSameAsPrev; the whole chunk is one group when its first and
\* last rows have the same key
SplitIntoGroups(g, c) ==
    LET n      == Len(c)
        first  == EncodeValue(c[1])
        breaks == {i - 1 : i \in {i \in 2..n : ~SameGroup(c[i], c[i-1])}}
        offs   == IF first = LastGroupKey(c) THEN <<n>>
                  ELSE SetToSortSeq(breaks, <) \o <<n>>
    IN IF ~HasGroupBy
       THEN [g |-> [Reset(g) EXCEPT !.nextGroupID = 0, !.groupOffset = <<n>>,
                                    !.groupCount = 1],
             same |-> TRUE]
       ELSE [g |-> [groupOffset |-> offs, groupCount |-> Len(offs),
                    nextGroupID |-> 0,
                    lastGroupKeyOfPrevChk |-> LastGroupKey(c)],
             same |-> g.lastGroupKeyOfPrevChk # NoKey
                      /\ g.lastGroupKeyOfPrevChk = first]

\* getNextGroup indexes groupOffset; Go panics when the index is out of range
GetNextGroupInRange(g) == g.nextGroupID < Len(g.groupOffset)

GetNextGroup(g) ==
    [g     |-> [g EXCEPT !.nextGroupID = @ + 1],
     begin |-> IF g.nextGroupID = 0 THEN 0 ELSE g.groupOffset[g.nextGroupID],
     end   |-> g.groupOffset[g.nextGroupID + 1]]

IsExhausted(g) == g.nextGroupID >= g.groupCount

-----------------------------------------------------------------------------
(* The child's chunks: non-empty and sorted on the key.                    *)

Sorted(s) == \A i \in 2..Len(s) : Coll[s[i-1]] <= Coll[s[i]]

Chunks == {c \in SeqOf(Vals, MaxRows) : c # <<>> /\ Sorted(c)}

-----------------------------------------------------------------------------
(* Reference: the maximal runs of rows of one collation class.            *)

RECURSIVE Runs(_)
Runs(s) ==
    IF s = <<>> THEN <<>>
    ELSE LET r == Runs(Tail(s)) IN
         IF r # <<>> /\ Coll[Head(s)] = Coll[r[1].first]
         THEN <<[first |-> Head(s), cnt |-> r[1].cnt + 1]>> \o Tail(r)
         ELSE <<[first |-> Head(s), cnt |-> 1]>> \o r
=============================================================================
