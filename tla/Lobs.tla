-------------------------------- MODULE Lobs --------------------------------
(***************************************************************************)
(* Values too large for a row: reading one from its locator or from what   *)
(* came of it with its row (lob_reader.hpp, lob_prefetch_reader.hpp,       *)
(* ResolveLobs), and writing one through a temporary LOB (temp_lob.cpp,    *)
(* ExecuteBatch).  Pure definitions.                                       *)
(*                                                                         *)
(* A text is a sequence of characters, each known by its length in UTF-8.  *)
(* A character of four bytes is two units of UTF-16, and only then do the  *)
(* two count differently from one another and from characters.             *)
(***************************************************************************)
EXTENDS Integers, Sequences, SequencesExt, FiniteSets, FiniteSetsExt

CONSTANTS
    ReadUnits,          \* that one READ asks for: 32767 of UTF-16, 65536 bytes
    ContentUnits,       \* maximum_content_bytes
    LargeBytes,         \* TEMP_LOB_THRESHOLD_BYTES
    PieceBytes,         \* TEMP_LOB_WRITE_CHUNK_BYTES
    GroupRows           \* maximum_iterations_per_execute

ASSUME LobsAssumption ==
    /\ {ReadUnits, ContentUnits, GroupRows} \subseteq Nat \ {0} /\ LargeBytes \in Nat
    /\ PieceBytes \in Nat /\ PieceBytes >= 4    \* no character is longer

(* A byte that continues a character; a unit that begins or ends a pair.   *)
Continuing == 0
High == 5
LowHalf == 6

Utf8(text) == FlattenSeq([i \in DOMAIN text |-> <<text[i]>> \o [j \in 1..(text[i] - 1) |-> Continuing]])
Utf16(text) == FlattenSeq([i \in DOMAIN text |-> IF text[i] = 4 THEN <<High, LowHalf>> ELSE <<text[i]>>])

(* What a conversion or an operation answers: a value, or that it failed.  *)
Good(v) == [failure |-> "", value |-> v]
Bad(why) == [failure |-> why, value |-> <<>>]

EncodeUtf8ToUtf16Be(bytes) ==
    LET starts == {i \in DOMAIN bytes : bytes[i] # Continuing}
        whole(i) == \A j \in 1..(bytes[i] - 1) : i + j \in DOMAIN bytes \ starts
        ends == UNION {i..(i + bytes[i] - 1) : i \in starts}
    IN  IF (\A i \in starts : whole(i)) /\ ends = DOMAIN bytes
        THEN Good(Utf16(SelectSeq(bytes, LAMBDA b : b # Continuing))) ELSE Bad("malformed")

DecodeUtf16BeToUtf8(units) ==
    IF \E i \in DOMAIN units :
          \/ units[i] = High /\ (i = Len(units) \/ units[i + 1] # LowHalf)
          \/ units[i] = LowHalf /\ (i = 1 \/ units[i - 1] # High)
    THEN Bad("malformed")
    ELSE LET leads == SelectSeq(units, LAMBDA u : u # LowHalf)
         IN  Good(Utf8([i \in DOMAIN leads |-> IF leads[i] = High THEN 4 ELSE leads[i]]))

-----------------------------------------------------------------------------
(* Reading.  `stored' is what the server has, in units, of which it serves *)
(* at most `serves' at a time once the first READ is answered.             *)

Served(stored, at, requested, serves) ==
    SubSeq(stored, at, Min({Len(stored), at + requested - 1, at + serves - 1}))

(* The loop of both readers: what is missing, until all of it is there.    *)
RECURSIVE ReadRest(_, _, _, _)
ReadRest(stored, content, total, serves) ==
    LET requested == Min({total - Len(content), ReadUnits})
        piece == Served(stored, Len(content) + 1, requested, serves)
    IN  IF Len(content) >= total THEN Good(content)
        ELSE IF piece = <<>> THEN Bad("truncated")
        ELSE ReadRest(stored, content \o piece, total, serves)

ReadOracleLobContent(stored, serves) ==
    LET first == Served(stored, 1, ReadUnits, ReadUnits)
    IN  IF Len(first) < ReadUnits THEN Good(first)
        ELSE ReadRest(stored, first, Len(stored), serves)

MaterializePrefetchedOracleLob(stored, prefix, total, serves) ==
    IF total > ContentUnits THEN Bad("limit")
    ELSE IF Len(prefix) > total THEN Bad("malformed")
    ELSE ReadRest(stored, prefix, total, serves)

(* A LOB's cell: its locator, or with it how long it is and, but for a     *)
(* CLOB in line, its beginning.                                            *)
LobCell(form, character, stored, prefixUnits) ==
    LET bare == form = "locator" \/ (form = "inline" /\ character)
    IN  [form |-> form, total |-> Len(stored),
         prefix |-> IF bare THEN <<>> ELSE SubSeq(stored, 1, Min({prefixUnits, Len(stored)}))]

ResolveLob(cell, character, stored, serves) ==
    LET content ==
            CASE cell.form = "locator" -> ReadOracleLobContent(stored, serves)
              [] cell.form = "inline" /\ ~character /\ Len(cell.prefix) = cell.total -> Good(cell.prefix)
              [] OTHER -> MaterializePrefetchedOracleLob(stored, cell.prefix, cell.total, serves)
    IN  IF content.failure # "" \/ ~character THEN content ELSE DecodeUtf16BeToUtf8(content.value)

(* A value comes back whole however it is cut, or with the failure of a    *)
(* server that ends it early or of a limit that it really is past.         *)
ReadIsWhole(character, text, form, prefixUnits, serves) ==
    LET stored == IF character THEN Utf16(text) ELSE Utf8(text)
        cell == LobCell(form, character, stored, prefixUnits)
        read == ResolveLob(cell, character, stored, serves)
    IN  CASE read.failure = "" -> read.value = Utf8(text)
          [] read.failure = "limit" -> form # "locator" /\ Len(stored) > ContentUnits
          [] read.failure = "truncated" -> serves = 0
          [] read.failure = "malformed" -> FALSE

-----------------------------------------------------------------------------
(* Writing.  A bind's `lob' is 112 or 113 for the columns that hold LOBs   *)
(* and 0 for the others; `value' is <<>> for NULL and <<bytes>> otherwise. *)
(* The server hands out a new locator with every write and takes only the  *)
(* latest.                                                                 *)

Clob == 112
Blob == 113
LobBind(lob, value) == [type |-> IF lob = Blob THEN 23 ELSE 1, lob |-> lob, value |-> value]
IsLargeLob(bind) == bind.lob # 0 /\ bind.value # <<>> /\ Len(bind.value[1]) > LargeBytes

Utf8PieceEnd_Plain(bytes, begin) ==     \* bug: a piece may end inside a character
    Min({Len(bytes), begin + PieceBytes - 1})

RECURSIVE Utf8PieceBack(_, _, _)
Utf8PieceBack(bytes, begin, end) ==
    IF end < Len(bytes) /\ end >= begin /\ bytes[end + 1] = Continuing
    THEN Utf8PieceBack(bytes, begin, end - 1) ELSE end

(* The last byte of the piece that begins at `begin'.                      *)
Utf8PieceEnd(bytes, begin) == Utf8PieceBack(bytes, begin, Min({Len(bytes), begin + PieceBytes - 1}))

(* A session: the temporary LOBs the server has, each with its locator and *)
(* its content, the scope's locators, and the calls made, of which call    *)
(* `fails' is refused.                                                     *)
LobSession(fails) ==
    [lobs |-> <<>>, locators |-> <<>>, calls |-> 0, fails |-> fails, failure |-> ""]

Called(s) == [s EXCEPT !.calls = @ + 1, !.failure = IF s.calls + 1 = s.fails THEN "refused" ELSE @]

CreateLob(s) ==
    LET c == Called(s)
        locator == <<Len(s.lobs) + 1, 0>>
    IN  IF c.failure # "" THEN c
        ELSE [c EXCEPT !.lobs = Append(@, [locator |-> locator, content |-> <<>>, freed |-> FALSE]),
                       !.locators = Append(@, locator)]

WriteLob(s, offset, piece) ==
    LET c == Called(s)
        slot == Len(s.locators)
        locator == s.locators[slot]
        lob == s.lobs[locator[1]]
        next == <<locator[1], locator[2] + 1>>
    IN  IF c.failure # "" THEN c
        ELSE IF lob.locator # locator \/ offset # Len(lob.content) + 1
        THEN [c EXCEPT !.failure = "stale"]
        ELSE [c EXCEPT !.lobs[locator[1]] = [@ EXCEPT !.locator = next, !.content = @ \o piece],
                       !.locators[slot] = next]

RECURSIVE WritePieces(_, _, _, _, _)
WritePieces(s, character, bytes, begin, offset) ==
    LET end == IF character THEN Utf8PieceEnd(bytes, begin)
               ELSE Min({Len(bytes), begin + PieceBytes - 1})
        piece == IF character THEN EncodeUtf8ToUtf16Be(SubSeq(bytes, begin, end))
                 ELSE Good(SubSeq(bytes, begin, end))
    IN  IF s.failure # "" \/ begin > Len(bytes) THEN s
        ELSE IF piece.failure # "" THEN [s EXCEPT !.failure = "malformed"]
        ELSE WritePieces(WriteLob(s, offset, piece.value), character, bytes, end + 1,
                         offset + Len(piece.value))

(* ConvertBind: the bind and the session after it.                         *)
ConvertBind(s, bind) ==
    LET written == WritePieces(CreateLob(s), bind.lob = Clob, bind.value[1], 1, 1)
        bound == [type |-> bind.lob, lob |-> 0,
                  value |-> IF bind.value = <<>> THEN <<>> ELSE <<Last(written.locators)>>]
    IN  IF bind.value = <<>> THEN [session |-> s, bind |-> bound]
        ELSE [session |-> written, bind |-> IF written.failure = "" THEN bound ELSE bind]

(* What one row needs in a column, every row of its group gets.            *)
LargeColumn(rows, row, column) ==
    rows[row][column].lob # 0 /\ \E other \in ToSet(rows) : IsLargeLob(other[column])

ConvertRows(s, rows) ==
    LET width == IF rows = <<>> THEN 0 ELSE Len(rows[1])
        cells == [n \in 1..(Len(rows) * width) |-> <<((n - 1) % Len(rows)) + 1, ((n - 1) \div Len(rows)) + 1>>]
        convert(acc, at) ==
            LET done == ConvertBind(acc.session, rows[at[1]][at[2]])
            IN  IF acc.session.failure # "" \/ ~LargeColumn(rows, at[1], at[2]) THEN acc
                ELSE [session |-> done.session, rows |-> [acc.rows EXCEPT ![at[1]][at[2]] = done.bind]]
    IN  FoldLeft(convert, [session |-> s, rows |-> rows], cells)

(* ValidateOracleBatchRow.                                                 *)
SameMetadata(first, row) ==
    Len(first) = Len(row) /\ \A i \in DOMAIN row : row[i].type = first[i].type

(* Release, which forgets first; a failure has failed the session's call,  *)
(* and the session goes, with every temporary LOB it has.                  *)
ReleaseLobs(s) ==
    LET c == Called(s)
        named == {l[1] : l \in ToSet(s.locators)}
    IN  IF s.locators = <<>> THEN s
        ELSE IF c.failure # s.failure THEN [c EXCEPT !.locators = <<>>]
        ELSE [c EXCEPT !.locators = <<>>,
                       !.lobs = [i \in DOMAIN @ |-> IF i \in named THEN [@[i] EXCEPT !.freed = TRUE] ELSE @[i]]]

(* What the statement is run with is what the server then stores: the text *)
(* of a bind, or the content its locator leads to.                         *)
StoredValue(s, original, bind) ==
    IF bind.value = <<>> THEN <<>>
    ELSE IF bind.type \notin {Clob, Blob}
    THEN IF Len(bind.value[1]) > LargeBytes THEN <<"too wide">> ELSE bind.value
    ELSE LET content == s.lobs[bind.value[1][1]].content
         IN  IF s.lobs[bind.value[1][1]].locator # bind.value[1] THEN <<"stale">>
             ELSE <<IF bind.type = Clob THEN DecodeUtf16BeToUtf8(content).value ELSE content>>

(* ExecuteBatch.  `refused' is the row the server does not take, 0 for     *)
(* none; the rows of a group before it are undone.                         *)
RowsOfGroup(rows, start) == SubSeq(rows, start, Min({Len(rows), start + GroupRows - 1}))

(* One group, its LOBs made: validated, run and its LOBs freed.            *)
RunGroup(converted, group, start, refused) ==
    LET run == Called(converted.session)
        freed == ReleaseLobs(run)
        iteration == refused - start                \* as the server counts
        stored == [i \in DOMAIN group |->
                      [c \in DOMAIN group[i] |-> StoredValue(run, group[i][c], converted.rows[i][c])]]
        outcome(x, why, row, more) == [session |-> x, failure |-> why, row |-> row, stored |-> more]
    IN  IF converted.session.failure # ""
        THEN outcome(ReleaseLobs(converted.session), converted.session.failure, 0, <<>>)
        ELSE IF \E row \in ToSet(converted.rows) : ~SameMetadata(converted.rows[1], row)
        THEN outcome(ReleaseLobs(converted.session), "metadata", 0, <<>>)
        ELSE IF run.failure # "" THEN outcome(freed, run.failure, 0, <<>>)
        ELSE IF refused \in start..(start + Len(group) - 1)
        THEN outcome(freed, "row", (start - 1) + iteration + 1, <<>>)
        ELSE outcome(freed, freed.failure, 0, stored)

RECURSIVE ExecuteBatch(_, _, _, _)
ExecuteBatch(s, rows, start, refused) ==
    LET group == RowsOfGroup(rows, start)
        done == RunGroup(ConvertRows(s, group), group, start, refused)
        rest == ExecuteBatch(done.session, rows, start + GroupRows, refused)
    IN  IF start > Len(rows) THEN [session |-> s, failure |-> "", row |-> 0, stored |-> <<>>]
        ELSE IF done.failure # "" THEN done
        ELSE [rest EXCEPT !.stored = done.stored \o @]

(* Every value is stored as it was given, a failure names the row that     *)
(* caused it, and no temporary LOB is left in a session that goes on: the  *)
(* failure it could have been left by makes the session unusable.          *)
WriteIsWhole(rows, refused, fails) ==
    LET values == [i \in DOMAIN rows |-> [c \in DOMAIN rows[i] |-> rows[i][c].value]]
    IN  \A done \in {ExecuteBatch(LobSession(fails), rows, 1, refused)} :
        /\ IsPrefix(done.stored, values)
        /\ done.failure = "" => done.stored = values /\ (\A l \in ToSet(done.session.lobs) : l.freed)
        /\ done.failure = "row" => done.row = refused
        /\ done.failure = "refused" => done.session.calls >= fails
        /\ done.failure \in {"", "row", "refused"}
        /\ done.failure = "row" => \A l \in ToSet(done.session.lobs) : l.freed \/ done.session.failure # ""
=============================================================================
