----------------------------- MODULE OqlReplies -----------------------------
(* What canister_query makes of the replies of an OQL canister: the table   *)
(* of an `execute` reply, and the repair offered when a query fails or      *)
(* matches nothing, from the `schema` the same account sees                 *)
(* (src/crates/imcp2-core/src/calls.rs, and canister_oql_query and          *)
(* diagnose_empty_oql of tools.rs).  Everything is pure.                    *)
(*                                                                          *)
(* A name is the sequence of its letters.  A reply is decoded, and of the   *)
(* values it has only the first: that is all that is read of it.  It is the *)
(* variant arm it is wrapped in, its paging flag and its rows; what is not  *)
(* of that shape is Absent.  A cell has a name, Absent where it is not a    *)
(* named cell, and a value.  A schema is the list of the names its entities *)
(* bear.                                                                    *)
EXTENDS Lists, SequencesExt

CONSTANTS
    Letter,     \* the letters of a name
    Lower,      \* the lower-case letter of a letter
    Plural,     \* the letter s
    Absent,     \* no name, no rows, no reply
    Empty,      \* the empty value
    MaxColumns, \* MAX_OQL_COLUMNS
    MaxRows,    \* MAX_OQL_ROWS
    MaxEntities,\* MAX_OQL_ENTITIES
    MaxFuzzy    \* MAX_FUZZY_NAME_LEN

ASSUME OqlAssumption ==
    /\ Lower \in [Letter -> Letter] /\ \A c \in Letter : Lower[Lower[c]] = Lower[c]
    /\ Plural \in Letter /\ Lower[Plural] = Plural
    /\ {MaxColumns, MaxRows, MaxEntities, MaxFuzzy} \subseteq Nat \ {0}
    /\ Absent # <<>> /\ Absent \notin {"unknown start", "no entities"}

Arm == {"none", "ok", "err", "other", "undecodable"}

IsReply(reply) ==
    /\ reply.arm \in Arm /\ reply.hasMore \in BOOLEAN
    /\ reply.rows # Absent =>
          /\ reply.rows \in Seq(Range(reply.rows))
          /\ \A row \in Range(reply.rows) \ {Absent} : row \in Seq(Range(row))

-----------------------------------------------------------------------------
(* rows_to_table: the first row makes the columns, and the cells of every   *)
(* row are put under them by name.                                          *)
NamesOf(row) == LET named == Keep(row, {c \in Range(row) : c.name # Absent})
                IN  [i \in DOMAIN named |-> named[i].name]

\* Mutant: cells are taken by position.
AlignByPosition(row, columns) ==
    [i \in DOMAIN columns |-> IF i \in DOMAIN row THEN row[i].value ELSE Empty]

Align(row, columns) ==
    [i \in DOMAIN columns |->
        LET named == Keep(row, {c \in Range(row) : c.name = columns[i]})
        IN  IF named = <<>> THEN Empty ELSE named[1].value]

Table(columns, rows, hasMore) ==
    [is |-> "table", columns |-> columns, rows |-> rows, hasMore |-> hasMore]
Unrecognized(raw) == [is |-> "unrecognized", raw |-> raw]

RowsToTable(reply) ==
    LET rows    == reply.rows
        read    == FirstOf(rows, MaxRows)
        columns == Distinct(NamesOf(rows[1]))
    IN  IF rows = Absent THEN Unrecognized(reply)
        ELSE IF rows = <<>> THEN Table(<<>>, <<>>, reply.hasMore)
        ELSE IF rows[1] = Absent \/ columns = <<>> THEN Unrecognized(reply)
        ELSE IF Len(columns) > MaxColumns
        THEN [is |-> "too wide", count |-> Len(NamesOf(rows[1]))]
        ELSE IF Absent \in Range(read) THEN Unrecognized(reply)
        ELSE Table(columns, [i \in DOMAIN read |-> Align(read[i], columns)],
                   reply.hasMore \/ Len(rows) > MaxRows)

(* parse_execute_reply and extract_oql: bare or in a success arm, an error  *)
(* arm, or nothing that is known.                                           *)
ParseExecuteReply(reply) ==
    CASE reply.arm \in {"none", "ok"} -> RowsToTable(reply)
      [] reply.arm = "err"            -> [is |-> "error"]
      [] reply.arm \in {"other", "undecodable"} -> Unrecognized(reply)

-----------------------------------------------------------------------------
(* schema_entities and recognized_entity_names: Absent is a schema that could *)
(* not be read, and so is one whose entities bear no names.                 *)
\* Mutant: a schema that could not be read lists nothing.
NamesOrNone(schema) ==
    IF schema = Absent THEN <<>>
    ELSE FirstOf(Distinct(Keep(schema, Range(schema) \ {Absent})), MaxEntities)

RecognizedEntityNames(schema) ==
    LET names == FirstOf(Distinct(Keep(schema, Range(schema) \ {Absent})), MaxEntities)
    IN  IF schema = Absent THEN Absent
        ELSE IF schema # <<>> /\ names = <<>> THEN Absent
        ELSE names

(* levenshtein, row by row. *)
Levenshtein(a, b) ==
    LET cost(i, j) == IF a[i] = b[j] THEN 0 ELSE 1
        d[p \in (0..Len(a)) \X (0..Len(b))] ==
            LET i == p[1]
                j == p[2]
            IN  IF i = 0 THEN j ELSE IF j = 0 THEN i
                ELSE Min({d[<<i - 1, j>>] + 1, d[<<i, j - 1>>] + 1, d[<<i - 1, j - 1>>] + cost(i, j)})
    IN  d[<<Len(a), Len(b)>>]

LowerCase(name) == [i \in DOMAIN name |-> Lower[name[i]]]

\* clamp(shorter / 3, 1, 3)
Tolerance(a, b) == Max({1, Min({3, Len(a) \div 3, Len(b) \div 3})})

Flips(a, b) == a = Append(b, Plural) \/ b = Append(a, Plural)

(* closest_entity: the same name but for its case, then its plural or       *)
(* singular, then the first of the nearest names that are near enough.      *)
ClosestEntity(start, entities) ==
    LET lc      == LowerCase(start)
        dist(e) == Levenshtein(lc, LowerCase(e))
        same    == Keep(entities, {e \in Range(entities) : LowerCase(e) = lc})
        flips   == Keep(entities, {e \in Range(entities) : Flips(LowerCase(e), lc)})
        near    == {e \in Range(entities) : dist(e) <= Tolerance(lc, e)}
        nearest == Keep(entities, {e \in near : \A f \in near : dist(e) <= dist(f)})
    IN  IF same # <<>> THEN same[1]
        ELSE IF flips # <<>> THEN flips[1]
        ELSE IF Len(lc) > MaxFuzzy \/ near = {} THEN Absent
        ELSE nearest[1]

-----------------------------------------------------------------------------
(* diagnose_empty_oql, for an authenticated read: the repair of an unknown  *)
(* start, or that the account sees no entity at all.                        *)
Diagnosis(note, valid, didYouMean) ==
    [note |-> note, valid |-> valid, didYouMean |-> didYouMean]

DiagnoseEmptyOql(start, schema, failed) ==
    LET entities == RecognizedEntityNames(schema)
        unknown  == entities \notin {Absent, <<>>} /\ start # Absent /\ start \notin Range(entities)
    IN  IF unknown
        THEN Diagnosis("unknown start", entities, ClosestEntity(start, entities))
        ELSE IF ~failed /\ entities = <<>> THEN Diagnosis("no entities", Absent, Absent)
        ELSE Diagnosis(Absent, Absent, Absent)

(* canister_oql_query once the call is made: reply is Absent when it failed. *)
(* Only a failure or an empty table is diagnosed.                           *)
Result(reply) == IF reply = Absent THEN [is |-> "error"] ELSE ParseExecuteReply(reply)

IsEmpty(result) == result.is = "table" /\ result.rows = <<>>

Diagnosed(result) == result.is = "error" \/ IsEmpty(result)

OqlAnswer(start, reply, schema) ==
    LET result    == Result(reply)
        diagnosis == DiagnoseEmptyOql(start, schema, result.is = "error")
    IN  [result |-> result,
         diagnosis |->
            IF ~Diagnosed(result) THEN Diagnosis(Absent, Absent, Absent)
            ELSE IF IsEmpty(result) /\ diagnosis.note = Absent
            THEN [diagnosis EXCEPT !.note = "matched 0 rows"] ELSE diagnosis]

-----------------------------------------------------------------------------
(* The edit distance, from its meaning: the cheapest way to match letters   *)
(* of one name in order with letters of the other, where a letter that is   *)
(* left unmatched costs one, and a pair that differs costs one.             *)
Matchings(m, n) ==
    {p \in (SUBSET (1..m)) \X (SUBSET (1..n)) : Cardinality(p[1]) = Cardinality(p[2])}

NthIn(I, i) == Cardinality({k \in I : k < i})

Differ(a, b, I, J) == {p \in I \X J : a[p[1]] # b[p[2]] /\ NthIn(I, p[1]) = NthIn(J, p[2])}

Cost(a, b, m, n, p) == m + n - 2 * Cardinality(p[1]) + Cardinality(Differ(a, b, p[1], p[2]))

EditDistance(a, b) == Min({Cost(a, b, Len(a), Len(b), p) : p \in Matchings(Len(a), Len(b))})

(* The value of a column in a row: of its first cell that bears the name.   *)
Holds(row, column, value) ==
    \/ \E i \in DOMAIN row : /\ row[i].name = column /\ row[i].value = value
                             /\ \A j \in 1..(i - 1) : row[j].name # column
    \/ value = Empty /\ \A i \in DOMAIN row : row[i].name # column

(* The cells that a table leaves out without a word: one that is not a      *)
(* named cell, one of a name that the first row has not, and one after the  *)
(* first of its name in its row.                                            *)
LeftOut(reply, r, i) ==
    LET row  == reply.rows[r]
        name == row[i].name
    IN  \/ name = Absent
        \/ \A k \in DOMAIN reply.rows[1] : reply.rows[1][k].name # name
        \/ \E k \in 1..(i - 1) : row[k].name = name

(* The first value of a reply is either handed on as a table or kept as it  *)
(* came, whatever values follow it.  In a table, every cell of a row that   *)
(* is read is in its row and under its name, wherever it stood, but for the *)
(* cells that LeftOut names, of which nothing is said; and nothing is there *)
(* that is not such a cell.  The table ends early only at the row cap, and  *)
(* then says that there is more; a first row that is too wide is never a    *)
(* page with more to come; and a value that is not understood is there in   *)
(* raw form and not an empty table.                                         *)
FaithfulTable(reply, answer) ==
    LET result == answer.result
    IN  /\ result.is = "table" =>
              /\ reply.arm \in {"none", "ok"} /\ reply.rows # Absent
              /\ Len(result.rows) = Min({Len(reply.rows), MaxRows})
              /\ result.hasMore <=> (reply.hasMore \/ Len(result.rows) < Len(reply.rows))
              /\ IsInjective(result.columns)
              /\ \A r \in DOMAIN result.rows : \A i \in DOMAIN reply.rows[r] :
                    \/ LeftOut(reply, r, i)
                    \/ \E j \in DOMAIN result.columns :
                          /\ reply.rows[r][i].name = result.columns[j]
                          /\ reply.rows[r][i].value = result.rows[r][j]
              /\ \A i \in DOMAIN result.rows, j \in DOMAIN result.columns :
                    Holds(reply.rows[i], result.columns[j], result.rows[i][j])
        /\ result.is = "too wide" =>
              Cardinality({reply.rows[1][i].name : i \in DOMAIN reply.rows[1]} \ {Absent}) > MaxColumns
        /\ result.is = "unrecognized" => result.raw = reply
        /\ result.is = "error" => reply = Absent \/ reply.arm = "err"

(* The names a schema lists, and those of them that a diagnosis can come to *)
(* know: a name is past the cap where MaxEntities others come before it.    *)
Entities(schema) == Range(schema) \ {Absent}

PastCap(schema, e) ==
    \A i \in DOMAIN schema : schema[i] = e =>
        Cardinality({schema[k] : k \in 1..(i - 1)} \ {e, Absent}) >= MaxEntities

Knowable(schema) == {e \in Entities(schema) : ~PastCap(schema, e)}

(* A repair is offered only for a start that the schema does not list up to *)
(* the cap: one that is listed past it is called unknown all the same.  The *)
(* entities given as valid are listed, and are all of them up to the cap.   *)
(* The one offered instead is listed, and none up to the cap is nearer but  *)
(* for a plural; none up to the cap is withheld that is near enough.  An    *)
(* account is told that it sees nothing only by a schema that was read and  *)
(* lists nothing.                                                           *)
HonestRepair(start, schema, answer) ==
    LET d == answer.diagnosis
        dist(e) == EditDistance(LowerCase(start), LowerCase(e))
        flips(e) == Flips(LowerCase(e), LowerCase(start))
    IN  /\ d.note = "no entities" => schema = <<>> /\ answer.result.is = "table"
        /\ d.note = "unknown start" =>
              /\ schema # Absent /\ start \notin Knowable(schema)
              /\ Knowable(schema) \subseteq Range(d.valid) /\ Range(d.valid) \subseteq Entities(schema)
              /\ d.didYouMean # Absent =>
                    /\ d.didYouMean \in Entities(schema)
                    /\ \A e \in Knowable(schema) :
                          dist(e) < dist(d.didYouMean) => flips(d.didYouMean) /\ dist(e) # 0
              /\ d.didYouMean = Absent /\ Len(start) <= MaxFuzzy =>
                    \A e \in Knowable(schema) : dist(e) > Tolerance(start, e)
        /\ d.didYouMean # Absent => d.note = "unknown start"
=============================================================================
