---------------------------- MODULE SqlStatements ----------------------------
(***************************************************************************)
(* The statements MysqlClient and SqliteClient build from the decorators   *)
(* of a class, and the rows they turn back into objects.  The two clients  *)
(* share this code word for word; where they differ the client is named.   *)
(*                                                                         *)
(* A class is [table, naming, reverse, columns]: has it @table, has that   *)
(* a naming strategy and a reverse one, and its properties in order, each  *)
(* [property, column, name, primary, json, searchable].  A column name is  *)
(* the property as it is, as the strategy makes it, or a name of its own.  *)
(***************************************************************************)
EXTENDS Naturals, Sequences, FiniteSets, SequencesExt

CONSTANTS Undefined, Error

IsError(x) == x = Error

\* Names: the strategy and its reverse undo each other on the names they make.
Plain(p) == <<"plain", p>>
Auto(p) == <<"auto", p>>
Explicit(p) == <<"explicit", p>>
Reversed(name) == IF name[1] = "auto" THEN Plain(name[2]) ELSE name

Properties(class) == [i \in DOMAIN class.columns |-> class.columns[i].property]

getTableMetadata(class) == IF class.table THEN class ELSE Error

\* getColumnsMetadata(): every property of the class must have @column.
getColumnsMetadata(class) ==
    IF \A i \in DOMAIN class.columns : class.columns[i].column THEN class.columns ELSE Error

getColumnMetadata(class, p) ==
    LET found == {c \in ToSet(class.columns) : c.property = p /\ c.column} IN
    IF found = {} THEN Error ELSE CHOOSE c \in found : TRUE

getPrimaryKeyPropertyName(class) ==
    LET keys == {c \in ToSet(class.columns) : c.primary} IN
    IF IsError(getColumnsMetadata(class)) \/ Cardinality(keys) # 1 THEN Error
    ELSE (CHOOSE c \in keys : TRUE).property

getColumnName(class, p) ==
    LET c == getColumnMetadata(class, p) IN
    CASE IsError(getColumnsMetadata(class)) \/ IsError(c) -> Error
      [] c.name -> Explicit(p)
      [] ~c.name /\ IsError(getTableMetadata(class)) -> Error
      [] ~c.name /\ class.table /\ class.naming -> Auto(p)
      [] OTHER -> Plain(p)

\* A JSON column is written as text; undefined has no JSON text.
columnValue(class, element, p) ==
    IF getColumnMetadata(class, p).json /\ element[p] # Undefined
      THEN <<"text", element[p]>> ELSE element[p]

ColumnNames(class, ps) == [i \in DOMAIN ps |-> getColumnName(class, ps[i])]
ColumnValues(class, element, ps) == [i \in DOMAIN ps |-> columnValue(class, element, ps[i])]

\* A statement sets its columns to its values, one by one.
Row(names, values) ==
    [n \in ToSet(names) |-> values[CHOOSE i \in DOMAIN names : names[i] = n]]

create(class, element) ==
    IF IsError(getColumnsMetadata(class)) \/ IsError(getTableMetadata(class)) THEN Error
    ELSE LET ps == Properties(class) IN
         [insert |-> Row(ColumnNames(class, ps), ColumnValues(class, element, ps))]

\* update(): every column but the key, whose value is the last one.
updateKeyFirst(class, element) ==
    LET key == getPrimaryKeyPropertyName(class)
        ps == Properties(class)
    IN  IF IsError(key) \/ IsError(getTableMetadata(class)) \/ Len(ps) = 1 THEN Error
        ELSE LET rest == SelectSeq(ps, LAMBDA p : p # key)
                 values == <<element[key]>> \o ColumnValues(class, element, rest)
             IN  [set |-> Row(ColumnNames(class, rest), values),
                  where |-> <<getColumnName(class, key), Last(values)>>]
update(class, element) ==
    LET key == getPrimaryKeyPropertyName(class)
        ps == Properties(class)
    IN  IF IsError(key) \/ IsError(getTableMetadata(class)) \/ Len(ps) = 1 THEN Error
        ELSE LET rest == SelectSeq(ps, LAMBDA p : p # key)
                 values == ColumnValues(class, element, rest) \o <<element[key]>>
             IN  [set |-> Row(ColumnNames(class, rest), values),
                  where |-> <<getColumnName(class, key), Last(values)>>]

\* get() and delete() select by the key.
whereKey(class, key) ==
    IF IsError(getTableMetadata(class)) \/ IsError(getPrimaryKeyPropertyName(class)) THEN Error
    ELSE <<getColumnName(class, getPrimaryKeyPropertyName(class)), key>>
Selects(where, row) == where[1] \in DOMAIN row /\ row[where[1]] = where[2]
delete(class, key, rows) ==
    IF IsError(whereKey(class, key)) THEN Error
    ELSE SelectSeq(rows, LAMBDA r : ~Selects(whereKey(class, key), r))

\* JsonBlobUtils.parse() parses text and leaves what a driver has parsed.
parse(v) == IF v # Undefined /\ v[1] = "text" THEN v[2] ELSE v

\* mapResults(): with a reverse strategy the keys are renamed, excluded ones
\* dropped and JSON parsed; without one the row is what the object is made from.
mapResults(class, row, excludeFields) ==
    IF ~class.reverse THEN row
    ELSE LET kept == {k \in DOMAIN row : Reversed(k) \notin excludeFields}
             json(k) == \E c \in ToSet(class.columns) : c.column /\ c.json /\ Plain(c.property) = k
             source(k) == CHOOSE n \in kept : Reversed(n) = k
         IN  [k \in {Reversed(n) : n \in kept} |->
                IF json(k) THEN parse(row[source(k)]) ELSE row[source(k)]]

\* get() maps the first row; MySQL's has undefined for none, SQLite's null.
get(client, class, key, rows) ==
    LET found == SelectSeq(rows, LAMBDA r : Selects(whereKey(class, key), r)) IN
    CASE IsError(whereKey(class, key)) -> Error
      [] ~IsError(whereKey(class, key)) /\ found # <<>> -> mapResults(class, found[1], {})
      [] OTHER -> IF client = "sqlite" THEN "null" ELSE Undefined

-----------------------------------------------------------------------------
(* search().  A row has the fields its text is LIKE the query and the       *)
(* filters it meets.  A query is [query, include, exclude, filters, page,   *)
(* size].                                                                   *)

fieldsToSearch(searchable, q) ==
    (IF q.include = {} THEN searchable ELSE q.include) \ q.exclude

\* The text is "1=1 AND f LIKE ? OR g LIKE ? AND filter AND filter": AND binds
\* tighter than OR, so the filters go with the last field, in property order.
\* Without a field to search nothing stands between two ANDs.
where(fields, q, row) ==
    IF ~q.query THEN q.filters \subseteq row.meets
    ELSE \E i \in DOMAIN fields :
           fields[i] \in row.like /\ (i = Len(fields) => q.filters \subseteq row.meets)

skipOnePage(q) == q.page * q.size + 1
firstRow(q) == (q.page - 1) * q.size + 1
search(order, searchable, q, rows) ==
    LET fields == SelectSeq(order, LAMBDA f : f \in fieldsToSearch(searchable, q))
        found == SelectSeq(rows, LAMBDA r : where(fields, q, r))
        first == firstRow(q)
    IN  IF q.query /\ fields = <<>> THEN Error
        ELSE [total |-> Len(found),
              results |-> SubSeq(found, first,
                            IF first + q.size - 1 < Len(found) THEN first + q.size - 1 ELSE Len(found))]

\* What a search should return: rows LIKE the query in a searched field that
\* meet every filter.
Matching(searchable, q, rows) ==
    SelectSeq(rows, LAMBDA r : /\ q.query => r.like \cap fieldsToSearch(searchable, q) # {}
                               /\ q.filters \subseteq r.meets)

-----------------------------------------------------------------------------
(* Properties                                                              *)

\* The classes whose rows can be read back: with a reverse strategy when there is
\* a strategy, no names of their own, one key and no JSON without a reverse.
Mappable(class) ==
    /\ class.table /\ class.naming = class.reverse
    /\ ~IsError(getPrimaryKeyPropertyName(class))
    /\ \A c \in ToSet(class.columns) : ~c.name /\ (c.json => class.reverse /\ ~c.primary)

\* What create() stores and update() overwrites get() reads back, property by
\* property, JSON included, and delete() removes that row only.
RowsRoundTrip(class, element, changed, other) ==
    LET key == getPrimaryKeyPropertyName(class)
        rows == <<create(class, other).insert, create(class, element).insert>>
        set == update(class, changed)
        updated == [i \in DOMAIN rows |->
                      IF Selects(set.where, rows[i])
                        THEN [n \in DOMAIN rows[i] |-> IF n \in DOMAIN set.set THEN set.set[n] ELSE rows[i][n]]
                        ELSE rows[i]]
        Object(e) == [n \in {Plain(p) : p \in ToSet(Properties(class))} |-> e[n[2]]]
    IN  Mappable(class) /\ element[key] = changed[key] /\ element[key] # other[key] =>
        /\ get("mysql", class, element[key], rows) = Object(element)
        /\ Len(class.columns) > 1 => /\ get("sqlite", class, element[key], updated) = Object(changed)
                                     /\ get("sqlite", class, other[key], updated) = Object(other)
        /\ delete(class, element[key], rows) = <<create(class, other).insert>>

\* The pages of a search together are the rows that match, in the order of the
\* table, when the filters are not combined with several fields.
SearchMatches(order, searchable, q, rows) ==
    LET fields == fieldsToSearch(searchable, q) \cap ToSet(order)
        Page(n) == search(order, searchable, [q EXCEPT !.page = n], rows)
        matching == Matching(searchable, q, rows)
    IN  (q.query => Cardinality(fields) = 1 \/ (q.filters = {} /\ fields # {})) =>
        /\ Page(1).total = Len(matching)
        /\ FlattenSeq([n \in 1..(Len(rows) + 1) |-> Page(n).results]) = matching
=============================================================================
