------------------------------ MODULE MCTools -------------------------------
(* Instances of Tools, Extraction and Reports for TLC: they share no state, *)
(* and a behaviour is about one of them.                                   *)
EXTENDS Tools, GeminiSchemas, Reports

CONSTANTS i1, i2, i3

acme == <<"acme">>
acmeLtd == <<"acme", "ltd">>
apex == <<"apex", "metals">>
apexWorks == <<"apex", "metal", "works">>
group == <<"group">>
dots == <<>>
NamesDef == {acme, acmeLtd, apex, apexWorks, group, dots}
\* As the library would have it: a spelling apart, an alias nothing like it,
\* and (to be safe) punctuation like no name, not even the same punctuation.
LikenessDef ==
    [p \in NormalNames \X NormalNames |->
        IF dots \in {p[1], p[2]} THEN 0
        ELSE IF p[1] = p[2] THEN 100
        ELSE IF {p[1], p[2]} = {apex, apexWorks} THEN 88 ELSE 20]
NumberKeyDef == [n \in {"a-1", "A1", "A2", "--"} |->
                   IF n = "A2" THEN "A2" ELSE IF n = "--" THEN "" ELSE "A1"]

Bill(v, n, a, d) == [vendor |-> v, number |-> n, amount |-> a, date |-> d]
BillsDef ==
    {Bill(v, n, a, d) : v \in {acme, acmeLtd, apex, apexWorks}, n \in {"a-1", "A1", "A2"},
                        a \in {1000, 1050, -1000}, d \in {40, 200}}
      \cup {Bill(None, "A1", 1000, 40), Bill(dots, "A1", 1000, 40), Bill(acme, None, 1000, None), Bill(acme, "--", None, 40)}

Vendor(name, aliases) == [name |-> name, aliases |-> aliases]
MastersDef ==
    {{}, {Vendor(acme, {})}, {Vendor(apex, {acmeLtd})},
     {Vendor(apexWorks, {}), Vendor(acmeLtd, {group})}}

Terms(receipt, cod, discount, eom, net) ==
    [receipt |-> receipt, cod |-> cod, discount |-> discount, eom |-> eom, net |-> net]
TwoTen(percent) == [percent |-> percent, days |-> 10, net |-> 30]
TermsInUse ==
    {Terms(TRUE, FALSE, NoTerm, NoTerm, NoTerm), Terms(FALSE, TRUE, NoTerm, NoTerm, 30),
     Terms(FALSE, FALSE, NoTerm, 15, 15), Terms(FALSE, FALSE, NoTerm, 0, NoTerm),
     Terms(FALSE, FALSE, NoTerm, NoTerm, 45), Terms(FALSE, FALSE, NoTerm, NoTerm, NoTerm)}
      \cup {Terms(FALSE, FALSE, TwoTen(p), e, 30) : p \in {20, 15, 1000}, e \in {NoTerm, 0}}
Date(y, m, d) == [year |-> y, month |-> m, day |-> d]
DatesInUse == {Date(2023, 12, 31), Date(2024, 2, 10), Date(2025, 2, 28), Date(2024, 11, 30),
               Date(9999, 12, 10)}
RequestsDef ==
    [terms : TermsInUse, date : DatesInUse, amount : {NoTerm, 0, 5, 10250, 99995},
     asOf : {NoTerm, Date(2024, 3, 1)}]

RequiredDef == {<<>>, <<"number">>, <<"number", "date", "total">>, <<"date", "date", "total">>}
FieldsDef == {"number", "date", "total"}
ThresholdsDef == {0, 6000, 6667, 10000}

File(data, declared, magic, pages) ==
    [data |-> data, declared |-> declared, magic |-> magic, pages |-> pages, broken |-> 0]
Pdf(pages) == File("ok", "none", "pdf", pages)
Torn == [Pdf(4) EXCEPT !.broken = 3]
Png == File("ok", "image", "none", 1)
FilesInUse ==
    {Pdf(0), Pdf(2), Pdf(4), Torn, Png, File("ok", "pdf", "image", 1), File("ok", "none", "none", 1)}
UploadsDef ==
    UNION {[1..n -> FilesInUse] : n \in 0..2} \cup [1..3 -> {Pdf(4), Png}]
      \cup {[i \in 1..4 |-> Png]}
      \cup {<<Png, File(data, "none", "pdf", 1)>> : data \in {"empty", "too big", "not base64", "missing"}}
SinglesDef == {<<>>, <<Pdf(2)>>, <<File("missing", "none", "none", 0)>>}

Type(t) == Dict([type |-> Leaf(t), title |-> Leaf("title")])
Optional(type) == Dict([anyOf |-> List(<<type, Type("null")>>), default |-> Leaf("null"),
                        description |-> Leaf("text")])
Reference == Dict("$ref" :> Leaf("#Item"))
ArrayOf(node) == Dict([type |-> Leaf("array"), items |-> node, title |-> Leaf("title")])
Item == Dict([type |-> Leaf("object"), title |-> Leaf("Item"),
              properties |-> Dict([total |-> Optional(Type("number")), name |-> Type("string")])])
Shapes == 1..5
Shape(i) == CASE i = 1 -> Type("string")
              [] i = 2 -> Optional(Type("number"))
              [] i = 3 -> Reference
              [] i = 4 -> ArrayOf(Reference)
              [] i = 5 -> Optional(ArrayOf(Type("string")))
SchemaOf(i, j) ==
    Dict([type |-> Leaf("object"), title |-> Leaf("Schema"),
          properties |-> Dict([a |-> Shape(i), b |-> Shape(j)])]
           @@ ("$defs" :> Dict("#Item" :> Item)))
SchemasDef == {SchemaOf(i, (i % 5) + 1) : i \in Shapes}

\* Three invoices: one that has a due date, and the vendor's name, only once it is
\* processed, a credit note, a bill that is due on the last day of a bucket and
\* gives a discount.
AsSent(s, p) == [sent |-> s, processed |-> p]
DaysToDueDef == i1 :> AsSent(NoDate, 31) @@ i2 :> AsSent(-1, -1) @@ i3 :> AsSent(7, 7)
MonthDef == i1 :> "2024-01" @@ i2 :> NoDate @@ i3 :> "2024-02"
VendorNameDef == i1 :> AsSent(acmeLtd, acme) @@ i2 :> AsSent(acme, acme) @@ i3 :> AsSent(apex, apex)
FiltersDef == {D!Statuses, {"received"}}

Init == ToolsInit /\ ExtractionInit /\ ReportsInit
Reporting == <<table, begun, reader>>
Next ==
    \/ /\ extraction = NoCall /\ begun = <<>> /\ reader = NoReport
       /\ ToolsNext
       /\ UNCHANGED <<extraction, Reporting>>
    \/ /\ asked = Nothing /\ begun = <<>> /\ reader = NoReport
       /\ ExtractionNext
       /\ UNCHANGED <<asked, Reporting>>
    \/ /\ asked = Nothing /\ extraction = NoCall
       /\ ReportsNext
       /\ UNCHANGED <<asked, extraction>>
Spec == Init /\ [][Next]_<<asked, extraction, Reporting>>
=============================================================================
