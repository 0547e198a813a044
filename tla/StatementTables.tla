---------------------------- MODULE StatementTables ----------------------------
(***************************************************************************)
(* Reading a bank statement out of a CSV file or a workbook                *)
(* (internal/bankimport: table.go, detection.go, accounts.go, csv.go,      *)
(* xlsx.go).  Which table of the file, which row holds the headings, how   *)
(* numbers and dates are written: all of it may be left to the program,    *)
(* which must not guess.                                                   *)
(*                                                                         *)
(* A cell is a record that says what is written in it.  A text that can be *)
(* an amount is its digit groups and the marks between them, a text that   *)
(* can be a date two numbers and the mark between them, in some year.      *)
(* Words are model values: capitals, spaces and umlauts are left out, and  *)
(* so are encodings, the archive around a workbook and the tails of dates. *)
(*                                                                         *)
(* What reads a cell or a row returns the set of its readings: empty if it *)
(* cannot be read, else one.                                               *)
(***************************************************************************)
EXTENDS Integers, FiniteSets, SequencesExt

CONSTANTS
    Means,         \* the role that a heading is an alias of
    Files,         \* files to start from: their tables, with rows of headings
    Lines,         \* what a bank writes below a row of headings
    Asked,         \* options of the form on the import page
    HeaderLimit,   \* rows in which headings are looked for
    MaxPayments,   \* payments in a statement
    MaxCents,      \* the largest amount
    MaxRows,       \* bound: rows of the first table
    None

ASSUME FormOptions ==
    \A o \in Asked : /\ o.table \in Nat
                     /\ o.decimal \in {"auto", "comma", "dot"}
                     /\ o.dateOrder \in {"auto", "dmy", "mdy"}
ASSUME FilesAreTables ==
    \A f \in Files : /\ DOMAIN f = {"kind", "tables"}
                     /\ \A t \in DOMAIN f.tables :
                           /\ DOMAIN f.tables[t] = {"broken", "rows"}
                           /\ f.tables[t].rows \in Seq(Range(f.tables[t].rows))

VARIABLES
    file,          \* [kind, tables]: the sheets, or what each delimiter makes of a CSV file
    asked,         \* the options of the upload
    result         \* what was read

tableVars == <<file, asked, result>>

Single == {"date", "name", "amount", "debit", "credit", "direction", "currency",
           "account", "accountName"}
Roles == Single \cup {"reference"}

Blank == [is |-> "blank"]
The(S) == CHOOSE x \in S : TRUE
Refused(why) == [outcome |-> why, accounts |-> <<>>]
Unread == Refused("unread")

-----------------------------------------------------------------------------
(***************************************************************************)
(* Columns.                                                                *)
(***************************************************************************)
Named(o, role) == role \in DOMAIN o.names

\* findColumn, all of its matches.
Matching(row, o, role) ==
    {i \in DOMAIN row : /\ row[i].is = "heading"
                        /\ IF Named(o, role) THEN row[i].text = o.names[role]
                           ELSE Means[row[i].text] = role}

Sought(o, role) ==
    /\ role = "amount" => ~Named(o, "debit") /\ ~Named(o, "credit")
    /\ role \in {"debit", "credit"} => ~Named(o, "amount")

FindColumns(row, o) ==
    [role \in Roles |-> IF Sought(o, role) THEN Matching(row, o, role) ELSE {}]

\* mapColumns accepts them.
Fits(c, o) ==
    /\ \A role \in Single : Cardinality(c[role]) <= 1
    /\ \A role \in DOMAIN o.names : Cardinality(c[role]) = 1
    /\ c.date # {} /\ c.name \cup c.reference # {}
    /\ IF c.amount = {} THEN c.debit # {} /\ c.credit # {} ELSE c.debit \cup c.credit = {}
    /\ \A r, s \in Single : r # s => c[r] \cap c[s] = {}

SearchedRows(rows, o) == {i \in DOMAIN rows : IF o.header = 0 THEN i <= HeaderLimit ELSE i = o.header}

\* locateHeader takes the first of these.
HeaderRows(rows, o) == {i \in SearchedRows(rows, o) : Fits(FindColumns(rows[i], o), o)}

Recognizable(row, o) ==
    LET present(role) == Matching(row, o, role) # {} IN
    /\ present("date") /\ (present("name") \/ present("reference"))
    /\ present("amount") \/ (present("debit") /\ present("credit"))

PossibleStatement(rows, o) == \E i \in SearchedRows(rows, o) : Recognizable(rows[i], o)

EmptyRow(row) == \A i \in DOMAIN row : row[i] = Blank

\* The numbers of the rows that are read.
Body(rows, header) == {i \in DOMAIN rows : i > header /\ ~EmptyRow(rows[i])}

At(row, columns) ==
    IF columns \subseteq DOMAIN row /\ columns # {} THEN row[The(columns)] ELSE Blank

-----------------------------------------------------------------------------
(***************************************************************************)
(* Cells.                                                                  *)
(***************************************************************************)
AnyGroups(groups) == \A i \in DOMAIN groups : groups[i].length >= 1
ThousandsGroups(groups) ==
    /\ \A i \in DOMAIN groups : groups[i].length >= 1
    /\ Len(groups) > 1 => /\ groups[1].length <= 3
                          /\ \A i \in 2..Len(groups) : groups[i].length = 3

Digits(groups) == FoldLeft(LAMBDA n, g : n * 10 ^ g.length + g.value, 0, groups)

Group == [length : Nat, value : Nat]
AmountText ==
    {a \in [is : {"amount"}, negative : BOOLEAN, groups : Seq(Group), marks : Seq({"comma", "dot"})] :
        Len(a.groups) = Len(a.marks) + 1}

\* parseTableMoney, in cents.  The mark of decimals may stand once, before the
\* last group, which then is one or two digits; the others are thousands.
DecimalAt(cell, decimal) == {i \in DOMAIN cell.marks : cell.marks[i] = decimal}

Money(cell, decimal) ==
    IF cell.is = "number" THEN {cell.number * 100}
    ELSE IF cell \notin AmountText THEN {}
    ELSE LET n == Len(cell.groups)
             at == DecimalAt(cell, decimal)
             last == cell.groups[n]
             whole == IF at = {} THEN cell.groups ELSE Front(cell.groups)
             cents == IF at = {} THEN 0 ELSE IF last.length = 1 THEN 10 * last.value ELSE last.value
             amount == Digits(whole) * 100 + cents
         IN  IF /\ at \subseteq {n - 1} /\ (at # {} => last.length \in 1..2)
                /\ ThousandsGroups(whole)
                /\ amount <= MaxCents
             THEN {IF cell.negative THEN -amount ELSE amount}
             ELSE {}

\* tableDate: years first are read as such; months first have no dots.  The years of
\* the samples are no leap years.
TableDate(cell, order) ==
    LET days(month) == IF month = 2 THEN 28 ELSE IF month \in {4, 6, 9, 11} THEN 30 ELSE 31
        date(month, day) == IF month \in 1..12 /\ day \in 1..days(month)
                            THEN {[month |-> month, day |-> day]} ELSE {}
    IN  IF cell.is = "number" THEN date(1, cell.number)
        ELSE IF cell.is # "date" THEN {}
        ELSE IF cell.mark = "iso" THEN date(cell.first, cell.second)
        ELSE IF order = "dmy" THEN date(cell.second, cell.first)
        ELSE IF cell.mark = "slash" THEN date(cell.first, cell.second)
        ELSE {}

Moved(cents) == [dir |-> IF cents < 0 THEN "expense" ELSE "income",
                 cents |-> IF cents < 0 THEN -cents ELSE cents]

\* The side of a row with two columns, when both may hold something.
SpentByValue(debit, credit, spent, received) == received = 0
Spent(debit, credit, spent, received) == spent > 0 \/ (debit # Blank /\ credit = Blank)

Split(debit, credit, decimal) ==
    LET read(cell) == IF cell = Blank THEN {0} ELSE Money(cell, decimal)
        sides == {x \in read(debit) \X read(credit) :
                     /\ x[1] >= 0 /\ x[2] >= 0
                     /\ debit # Blank \/ credit # Blank
                     /\ ~(x[1] > 0 /\ x[2] > 0)
                     /\ ~(x = <<0, 0>> /\ debit # Blank /\ credit # Blank)}
    IN  {IF Spent(debit, credit, x[1], x[2]) THEN [dir |-> "expense", cents |-> x[1]]
                                             ELSE [dir |-> "income", cents |-> x[2]] : x \in sides}

\* tableAmount: a marker may turn a positive amount, and agrees with all else.
TableAmount(row, c, decimal) ==
    LET written == IF c.amount # {} THEN {Moved(m) : m \in Money(At(row, c.amount), decimal)}
                   ELSE Split(At(row, c.debit), At(row, c.credit), decimal)
        marker == At(row, c.direction)
    IN  IF c.direction = {} THEN written
        ELSE {[w EXCEPT !.dir = marker.dir] :
                w \in {v \in written : /\ marker.is = "marker"
                                       /\ \/ v.dir = marker.dir
                                          \/ v.dir = "income" /\ c.amount # {}}}

-----------------------------------------------------------------------------
(***************************************************************************)
(* Rows and tables.                                                        *)
(***************************************************************************)
Mapped(c) == UNION {c[role] : role \in Roles}

\* parseTableRow, with a payee taken from the reference if there is no column of
\* names; ValidateBankTransaction wants a name.
TableRow(row, c, decimal, order) ==
    LET name == IF c.name # {} THEN {At(row, c.name)}
                ELSE {row[i] : i \in c.reference \cap DOMAIN row}
    IN  {[date |-> x[1], name |-> name \ {Blank}, moved |-> x[2]] :
            x \in {y \in TableDate(At(row, c.date), order) \X TableAmount(row, c, decimal) :
                /\ \A i \in Mapped(c) \cap DOMAIN row : row[i].is # "formula"
                /\ c.currency # {} => At(row, c.currency).is = "euro"
                /\ name \ {Blank} # {}}}

\* accountForRow: the number counts, the name if there is no column of numbers, and all
\* that is written there.
SuffixOf(number) == number.suffix
NumberOf(number) == number

AccountKey(row, c) ==
    IF c.account \cup c.accountName = {} THEN {None}
    ELSE LET cell == At(row, IF c.account # {} THEN c.account ELSE c.accountName)
         IN  IF cell = Blank THEN {} ELSE {NumberOf(cell)}

WidthFits(row, headings, c, kind) ==
    /\ Len(row) <= Len(headings)
    /\ kind = "csv" => \A i \in Mapped(c) : i <= Len(row)

AllRead(values) == \A i \in DOMAIN values : values[i] # {}

WithPayment(accounts, r) ==
    LET known == {i \in DOMAIN accounts : accounts[i].key = r.key} IN
    IF known = {} THEN Append(accounts, [key |-> r.key, payments |-> <<r.payment>>])
    ELSE [accounts EXCEPT ![The(known)].payments = Append(@, r.payment)]

\* Row by row, from the first.
CollectAccounts(read, last) ==
    LET upTo[n \in 0..last] ==
            IF n = 0 THEN <<>>
            ELSE IF n \in DOMAIN read THEN WithPayment(upTo[n - 1], The(read[n]))
            ELSE upTo[n - 1]
    IN  upTo[last]

\* parseAccounts: one row that cannot be read refuses all of them.
ParseAccounts(rows, header, c, decimal, order, kind) ==
    LET read == [i \in Body(rows, header) |->
                    {[key |-> k, payment |-> p] :
                        k \in AccountKey(rows[i], c),
                        p \in {q \in TableRow(rows[i], c, decimal, order) :
                                  WidthFits(rows[i], rows[header], c, kind)}}]
    IN  IF Cardinality(DOMAIN read) \in 1..MaxPayments /\ AllRead(read)
        THEN {CollectAccounts(read, Len(rows))}
        ELSE {}

\* One of the loops of detectTable: the formats under which every row can be
\* read, none of which may read them as something else.
SameLength(values, others) == DOMAIN values = DOMAIN others
Same(values, others) == values = others

Detected(wanted, first, second, values) ==
    IF wanted # "auto" THEN wanted
    ELSE IF AllRead(values[first])
         THEN IF AllRead(values[second]) /\ ~Same(values[first], values[second])
              THEN "ambiguous" ELSE first
         ELSE IF AllRead(values[second]) THEN second ELSE "none"

Amounts(rows, body, c) ==
    [f \in {"comma", "dot"} |-> [i \in body |-> TableAmount(rows[i], c, f)]]
Dates(rows, body, c) ==
    [f \in {"dmy", "mdy"} |-> [i \in body |-> TableDate(At(rows[i], c.date), f)]]

DetectTable(rows, o, kind) ==
    IF HeaderRows(rows, o) = {} THEN Refused("mapping")
    ELSE LET header == Min(HeaderRows(rows, o))
             c == FindColumns(rows[header], o)
             body == Body(rows, header)
             decimal == Detected(o.decimal, "comma", "dot", Amounts(rows, body, c))
             order == Detected(o.dateOrder, "dmy", "mdy", Dates(rows, body, c))
             read == ParseAccounts(rows, header, c, decimal, order, kind)
         IN  IF decimal = "ambiguous" THEN Refused("numberFormat")
             ELSE IF decimal = "none" THEN Refused("amount")
             ELSE IF order = "ambiguous" THEN Refused("dateOrder")
             ELSE IF order = "none" THEN Refused("date")
             ELSE IF read = {} THEN Refused("row")
             ELSE [outcome |-> "accepted", accounts |-> The(read), header |-> header,
                   rows |-> rows, columns |-> c]

\* CSVTable skips what a delimiter cannot read or has no headings in;
\* XLSXTable reads all sheets, and the only one needs no headings yet.
Candidates(f, o) ==
    LET chosen == IF o.table = 0 THEN DOMAIN f.tables ELSE {o.table} \cap DOMAIN f.tables
        rows(i) == f.tables[i].rows
        located(i) == HeaderRows(rows(i), o) # {}
    IN  IF f.kind = "csv" THEN {i \in chosen : ~f.tables[i].broken /\ located(i)}
        ELSE IF \E i \in chosen : f.tables[i].broken THEN {}
        ELSE {i \in chosen : \/ chosen = {i}
                             \/ located(i) \/ PossibleStatement(rows(i), o)}

Read(f, o) ==
    LET found == Candidates(f, o) IN
    IF \E i \in found : found = {i} THEN DetectTable(f.tables[The(found)].rows, o, f.kind)
    ELSE Refused("table")

-----------------------------------------------------------------------------
(***************************************************************************)
(* A bank writes a file, somebody uploads it.                              *)
(***************************************************************************)
TablesInit == file \in Files /\ asked \in Asked /\ result = Unread

WriteRow ==
    /\ result = Unread /\ Len(file.tables[1].rows) < MaxRows
    /\ \E row \in Lines[Head(file.tables[1].rows)] :
          file' = [file EXCEPT !.tables[1].rows = Append(@, row)]
    /\ UNCHANGED <<asked, result>>

\* extractStatement
ExtractStatement ==
    /\ result = Unread
    /\ result' = Read(file, asked)
    /\ UNCHANGED <<file, asked>>

TablesNext == WriteRow \/ ExtractStatement

TablesSpec == TablesInit /\ [][TablesNext]_tableVars

-----------------------------------------------------------------------------
(***************************************************************************)
(* Properties.                                                             *)
(***************************************************************************)
Accepted(r) == r.outcome = "accepted"

\* No text is one amount with a comma and another with a dot, so the question
\* which of the two a file is written with has at most one answer, and the error
\* "numberFormat" (detection.go:84) never reaches a user.
NumbersSpeak == result.outcome # "numberFormat"

\* Nothing is guessed: whatever was left to the program - the delimiter, the
\* sheet, the decimal mark, the order of dates - any choice by hand that can be
\* read at all gives the payments that the automatic reading gave.
ByHand(f, o) ==
    {p \in [table : 0..Len(f.tables), decimal : {"comma", "dot"}, dateOrder : {"dmy", "mdy"},
            header : {o.header}, names : {o.names}] :
        /\ o.table # 0 => p.table = o.table
        /\ o.decimal # "auto" => p.decimal = o.decimal
        /\ o.dateOrder # "auto" => p.dateOrder = o.dateOrder}

NothingGuessed ==
    Accepted(result) =>
        \A o \in ByHand(file, asked) :
            Accepted(Read(file, o)) => Read(file, o).accounts = result.accounts

\* Every row below the headings is a payment of the account that it names, in
\* order, once and of no other, or nothing of the file is taken: accounts are
\* neither merged nor split, and no total or footer disappears.
Readings(row, c) ==
    UNION {TableRow(row, c, decimal, order) : decimal \in {"comma", "dot"}, order \in {"dmy", "mdy"}}

RowsAreKept ==
    Accepted(result) =>
        LET c == result.columns
            rows == result.rows
            body == Body(rows, result.header)
            Source(i) == At(rows[i], IF c.account # {} THEN c.account ELSE c.accountName)
            Of(i) == {j \in body : Source(j) = Source(i)}
            Place(i) == Cardinality({j \in Of(i) : j <= i})
        IN  /\ Len(result.accounts) = Cardinality({Source(i) : i \in body})
            /\ \A i \in body : \E a \in DOMAIN result.accounts :
                  LET payments == result.accounts[a].payments
                  IN  /\ Len(payments) = Cardinality(Of(i))
                      /\ \A j \in Of(i) : payments[Place(j)] \in Readings(rows[j], c)

\* The same movements, written with a sign, in two columns, or with a marker, are
\* read as the same payments.
Plain(cell) == CASE cell.is = "amount" -> [cell EXCEPT !.negative = FALSE]
                 [] cell.is = "number" /\ cell.number < 0 -> [cell EXCEPT !.number = -@]
                 [] OTHER -> cell
Negative(cell) == \/ cell.is = "amount" /\ cell.negative
                  \/ cell.is = "number" /\ cell.number < 0

InTwoColumns(row, i, debit, credit) ==
    IF row[i].is = "heading" THEN InsertAt([row EXCEPT ![i] = debit], i + 1, credit)
    ELSE IF Negative(row[i]) THEN InsertAt([row EXCEPT ![i] = Plain(@)], i + 1, Blank)
    ELSE InsertAt(row, i, Blank)

WithMarker(row, i, heading) ==
    IF row[i].is = "heading" THEN InsertAt(row, i, heading)
    ELSE InsertAt([row EXCEPT ![i] = Plain(@)], i,
                  [is |-> "marker", dir |-> IF Negative(row[i]) THEN "expense" ELSE "income"])

OfRole(role) == [is |-> "heading", text |-> CHOOSE h \in DOMAIN Means : Means[h] = role]

SignsAreKept ==
    Accepted(result) /\ result.columns.amount # {} /\ result.columns.direction = {} =>
        LET i == The(result.columns.amount)
            split(row) == InTwoColumns(row, i, OfRole("debit"), OfRole("credit"))
            marked(row) == WithMarker(row, i, OfRole("direction"))
            rewritten(Rewrite(_)) ==
                DetectTable([k \in DOMAIN result.rows |->
                                IF k < result.header \/ EmptyRow(result.rows[k])
                                THEN result.rows[k] ELSE Rewrite(result.rows[k])],
                            [asked EXCEPT !.names = [n \in DOMAIN @ \ {"amount"} |-> @[n]]],
                            file.kind)
        IN  /\ rewritten(split).accounts = result.accounts
            /\ rewritten(marked).accounts = result.accounts
=============================================================================
