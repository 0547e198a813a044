--------------------------- MODULE MCStatementTables ---------------------------
(***************************************************************************)
(* Small statements for StatementTables: one table of each layout, in a    *)
(* CSV file or in a workbook, alone or beside another sheet, with one or   *)
(* two rows below its headings.                                            *)
(***************************************************************************)
EXTENDS StatementTables

CONSTANTS Datum, Buchungstag, Payee, Zweck, Betrag, Soll, Haben, SH, Waehrung, IBAN, Konto

MCMeans == Datum :> "date" @@ Buchungstag :> "date" @@ Payee :> "name" @@ Zweck :> "reference"
           @@ Betrag :> "amount" @@ Soll :> "debit" @@ Haben :> "credit" @@ SH :> "direction"
           @@ Waehrung :> "currency" @@ IBAN :> "account" @@ Konto :> "accountName"

Headings(names) == [i \in DOMAIN names |-> [is |-> "heading", text |-> names[i]]]
Word(t) == [is |-> "word", text |-> t, suffix |-> 1]
Formula == [is |-> "formula"]

G(length, value) == [length |-> length, value |-> value]
Text(negative, groups, marks) ==
    [is |-> "amount", negative |-> negative, groups |-> groups, marks |-> marks]
Number(n) == [is |-> "number", number |-> n]
Day(first, second, mark) == [is |-> "date", first |-> first, second |-> second, mark |-> mark]
Marker(dir) == [is |-> "marker", dir |-> dir]

Sums == {Text(TRUE, <<G(2, 12)>>, <<>>),                                       \* -12
            Text(FALSE, <<G(1, 0), G(2, 0)>>, <<"comma">>),                    \* 0,00
            Text(TRUE, <<G(1, 1), G(3, 234)>>, <<"dot">>),                     \* -1.234
            Text(FALSE, <<G(1, 1), G(2, 50)>>, <<"dot">>),                     \* 1.50
            Text(TRUE, <<G(1, 1), G(3, 0), G(1, 5)>>, <<"dot", "comma">>), \* -1.000,5
            Number(-7)}
Days == {Day(1, 2, "iso"), Day(1, 2, "slash"), Day(13, 2, "slash"), Day(2, 13, "slash"),
         Day(1, 2, "dot"), Number(3)}

Signed == Headings(<<Datum, Payee, Betrag>>)
TwoDates == Headings(<<Datum, Buchungstag, Zweck, Betrag>>)
Sides == Headings(<<Datum, Zweck, Soll, Haben>>)
TwoAccounts == Headings(<<IBAN, Konto, Datum, Payee, Betrag>>)
Marked == Headings(<<Datum, Payee, Betrag, SH, Waehrung>>)

OneDay == Day(1, 2, "iso")
Cash == Text(FALSE, <<G(1, 1), G(2, 50)>>, <<"comma">>)
Total == <<Blank, Blank, Cash>>

MCLines ==
    Signed :> ({<<d, Word("a"), Cash>> : d \in Days} \cup {<<OneDay, Word("a"), m>> : m \in Sums}
                   \cup {<<>>, Total, Signed, <<OneDay, Formula, Cash>>, <<OneDay, Word("a")>>})
    @@ TwoDates :> ({<<d, OneDay, Word("a"), Cash>> : d \in Days} \cup {Signed})
    @@ Sides :> {<<OneDay, Word("a"), s, h>> : s \in Sums \cup {Blank}, h \in {Blank, Cash, Number(7)}}
    @@ TwoAccounts :> {<<a, k, d, Word("a"), Cash>> :
                       a \in {Blank, Word("DE1"), Word("DE2")}, k \in {Blank, Word("k")},
                       d \in {Day(1, 2, "iso"), Day(2, 2, "iso")}}
    @@ Marked :> {<<OneDay, Word("a"), m, s, w>> : m \in Sums, w \in {[is |-> "euro"], Word("USD")},
                                                   s \in {Marker("expense"), Marker("income"), Blank}}

Table(rows) == [broken |-> FALSE, rows |-> rows]
Broken == [broken |-> TRUE, rows |-> <<>>]
Others == {<<>>, <<Table(<<<<Word("a")>>>>)>>, <<Broken>>, <<Table(<<TwoDates>>)>>,
           <<Table(<<Signed, <<OneDay, Word("a"), Number(1)>>>>)>>}

MCFiles == {[kind |-> k, tables |-> <<Table(<<h>>)>> \o others] :
               k \in {"csv", "xlsx"}, h \in DOMAIN MCLines, others \in Others}

Ask(table, decimal, dateOrder, header, names) ==
    [table |-> table, decimal |-> decimal, dateOrder |-> dateOrder, header |-> header, names |-> names]

MCAsked == {Ask(0, "auto", "auto", 0, <<>>),
            Ask(1, "auto", "auto", 1, <<>>),
            Ask(0, "auto", "dmy", 0, "date" :> Datum),
            Ask(0, "dot", "auto", 0, "amount" :> Betrag)}
=============================================================================
