----------------------------- MODULE TableRanges -----------------------------
(***************************************************************************)
(* How a table is cut into statements for several sessions: the ranges of  *)
(* a numeric key of oracle_scan_parallel (oracle_parallel.cpp), in         *)
(* unsigned words, and the ROWID ranges of a scan of an attached table     *)
(* (PlanParallelAttachedScan, oracle_catalog.cpp), cut between extents.    *)
(* All statements of a plan read at one change number, so together they    *)
(* return the table if each of its rows is in exactly one of them.         *)
(***************************************************************************)
EXTENDS Integers, Sequences, FiniteSets

CONSTANTS
    Half,               \* half the values of a word, 2^63
    MaximumShards,      \* MAX_SHARDS
    MinimumBlocks,      \* a smaller table is not cut
    ChunkBlocks,        \* the least blocks to cut for, on average
    MaximumChunks

ASSUME TableRangesAssumption ==
    /\ Half \in Nat \ {0}
    /\ MaximumShards \in Nat \ {0}
    /\ MaximumShards <= Half /\ MaximumShards * MaximumShards <= 2 * Half
    /\ {MinimumBlocks, ChunkBlocks, MaximumChunks} \subseteq Nat \ {0}

-----------------------------------------------------------------------------
(* uint64_t, and int64_t's conversions to it and from it                   *)
Words == 2 * Half
Signed64 == -Half..(Half - 1)
Unsigned(n) == n % Words
Signed(u) == IF u < Half THEN u ELSE u - Words
Plus(a, b) == (a + b) % Words
Minus(a, b) == (a - b) % Words
Times(a, b) == (a * b) % Words

-----------------------------------------------------------------------------
(* Ranges of a key.  Keys are in halves, so that one may be no integer.    *)

(* IntegralKey refuses a bound that is none, or that is no int64_t.        *)
Integral(key) == key % 2 = 0 /\ key \div 2 \in Signed64

Span(low, high) == Minus(Unsigned(high), Unsigned(low))

Shards(span, requested) ==
    IF span < Minus(requested, 1) THEN Plus(span, 1) ELSE requested

(* (span + 1) divided by the shards, where span + 1 may be no word.        *)
Quotient(span, shards) ==
    LET carry == IF (span % shards) + 1 >= shards THEN 1 ELSE 0
    IN  Plus(span \div shards, carry)
Remainder(span, shards) ==
    LET more == (span % shards) + 1
    IN  IF more >= shards THEN more - shards ELSE more

(* Where a shard starts, as a distance from the lowest key.                *)
Offset_Rounded(span, shards, i) ==      \* bug: the remainder is left to the last
    Times(Quotient(span, shards), i)
Offset(span, shards, i) ==
    Plus(Times(Quotient(span, shards), i), Times(Remainder(span, shards), i) \div shards)

FirstKey(low, span, shards, i) == Signed(Plus(Unsigned(low), Offset(span, shards, i)))
LastKey(low, span, shards, i) ==
    Signed(Minus(Plus(Unsigned(low), Offset(span, shards, i + 1)), 1))

(* The predicates of the statements, closed on both sides.                 *)
InShard(key, low, high, requested, i) ==
    LET span == Span(low, high)
        shards == Shards(span, requested)
    IN  FirstKey(low, span, shards, i) <= key /\ key <= LastKey(low, span, shards, i)

EachKeyOnce(low, high, requested) ==
    \A key \in low..high :
        \E i \in 0..(Shards(Span(low, high), requested) - 1) :
            /\ InShard(key, low, high, requested, i)
            /\ \A j \in 0..(Shards(Span(low, high), requested) - 1) :
                  InShard(key, low, high, requested, j) => j = i

(* OracleParallelBind: the statements for a table with these keys, or none *)
(* when it is refused.  A key that is NULL is in no range.                 *)
KeyRange(from, to) == [null |-> FALSE, from |-> from, to |-> to]
NullKey == [null |-> TRUE, from |-> 0, to |-> 0]

OracleParallelBind(keys, nulls, requested) ==
    LET low == CHOOSE k \in keys : \A other \in keys : k <= other
        high == CHOOSE k \in keys : \A other \in keys : other <= k
        span == Span(low \div 2, high \div 2)
        shards == Shards(span, requested)
    IN  IF keys = {} \/ ~Integral(low) \/ ~Integral(high) THEN <<>>
        ELSE [i \in 1..shards |-> KeyRange(2 * FirstKey(low \div 2, span, shards, i - 1),
                                        2 * LastKey(low \div 2, span, shards, i - 1))]
             \o IF nulls THEN <<NullKey>> ELSE <<>>

(* A row is its key, or <<>> when it has none.                             *)
Returns(statement, row) ==
    IF row = <<>> THEN statement.null
    ELSE ~statement.null /\ statement.from <= row[1] /\ row[1] <= statement.to

ReadingOnce(statements, x, reads(_, _)) ==
    Cardinality({i \in DOMAIN statements : reads(statements[i], x)}) = 1

(* ``Every key belongs to exactly one shard'' and a row without a key to   *)
(* one of its own: true of a table whose keys are integers.  Only the      *)
(* lowest and the highest are looked at, and a key between two integers    *)
(* may be between two shards.                                              *)
KeysAreReadOnce(keys, nulls, requested) ==
    LET statements == OracleParallelBind(keys, nulls, requested)
        whole == {<<k>> : k \in {k \in keys : k % 2 = 0}}
    IN  statements # <<>> =>
            \A row \in whole \cup (IF nulls THEN {<<>>} ELSE {}) : ReadingOnce(statements, row, Returns)

-----------------------------------------------------------------------------
(* Chunks of an attached table.  An extent is its number of blocks; ROWIDs *)
(* are places between and beyond the extents, in their order.              *)

Blocks(extents, n) ==
    LET sum[i \in 0..Len(extents)] == IF i = 0 THEN 0 ELSE sum[i - 1] + extents[i]
    IN  sum[n]

Chunks(extents, sessions) ==
    LET most == IF sessions * 4 < MaximumChunks THEN sessions * 4 ELSE MaximumChunks
        few == Blocks(extents, Len(extents)) \div ChunkBlocks
    IN  IF most < few THEN most ELSE few

Target(extents, sessions) ==
    LET chunks == Chunks(extents, sessions)
    IN  (Blocks(extents, Len(extents)) + chunks - 1) \div chunks

(* The extents a chunk starts at: the next one, once enough blocks have    *)
(* accumulated; the last extent ends no chunk.                             *)
Cuts(extents, target) ==
    LET none == [cuts |-> <<>>, accumulated |-> 0]
        step[i \in 0..(Len(extents) - 1)] ==
            IF i = 0 THEN none
            ELSE LET blocks == step[i - 1].accumulated + extents[i]
                 IN  IF blocks >= target
                     THEN [cuts |-> Append(step[i - 1].cuts, i + 1), accumulated |-> 0]
                     ELSE [step[i - 1] EXCEPT !.accumulated = blocks]
    IN  step[Len(extents) - 1].cuts

(* The ranges are open at both ends of the table, for it may grow.         *)
InChunk_Closed(chunk, place) ==     \* bug: the next chunk's first row is read here too
    /\ chunk.from # {} => \A first \in chunk.from : first <= place
    /\ chunk.to # {} => \A next \in chunk.to : place <= next
InChunk(chunk, place) ==
    /\ \A first \in chunk.from : first <= place
    /\ \A next \in chunk.to : place < next

(* PlanParallelAttachedScan, after the change number and for a heap table  *)
(* whose extents the user may see; <<>> is one stream.                     *)
PlanParallelAttachedScan(extents, sessions) ==
    LET total == Blocks(extents, Len(extents))
        cuts == Cuts(extents, Target(extents, sessions))
    IN  IF sessions < 2 \/ extents = <<>> \/ total < MinimumBlocks THEN <<>>
        ELSE IF cuts = <<>> THEN <<>>
        ELSE [i \in 1..(Len(cuts) + 1) |->
                [from |-> IF i = 1 THEN {} ELSE {cuts[i - 1]},
                 to |-> IF i > Len(cuts) THEN {} ELSE {cuts[i]}]]

(* Every row is read in exactly one chunk, one in an extent the table has  *)
(* got since included; and a cut table is worth its sessions: no more      *)
(* chunks than planned, none without an extent of its own, and all but the *)
(* last with the blocks that are its share.                                *)
RowsAreReadOnce(extents, sessions) ==
    LET chunks == PlanParallelAttachedScan(extents, sessions)
        target == Target(extents, sessions)
        share(chunk) == {e \in DOMAIN extents : InChunk(chunk, e)}
        blocks(chunk) == LET b == {e - 1 : e \in share(chunk)}
                         IN  Blocks(extents, 1 + CHOOSE e \in b : \A o \in b : o <= e)
                             - Blocks(extents, CHOOSE e \in b : \A o \in b : e <= o)
    IN  chunks # <<>> =>
            /\ \A place \in 0..(Len(extents) + 1) : ReadingOnce(chunks, place, InChunk)
            /\ Len(chunks) \in 2..Chunks(extents, sessions)
            /\ \A i \in DOMAIN chunks : share(chunks[i]) # {}
            /\ \A i \in 1..(Len(chunks) - 1) : blocks(chunks[i]) >= target
=============================================================================
