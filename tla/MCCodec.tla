------------------------------- MODULE MCCodec -------------------------------
(* Instances of Codec for TLC: two tables, and the queries about them; and *)
(* of Records, two more tables to insert into.                             *)
EXTENDS Records

Column(name, type, size) == [name |-> name, type |-> type, size |-> size]

(* Two columns of twins have the same name. *)
Layouts ==
  [studs |-> <<Column("id", "INTEGER", 4), Column("age", "INTEGER", 4)>>,
   profs |-> <<Column("id", "INTEGER", 4), Column("name", "STRING", 3)>>,
   pets |-> <<Column("tag", "STRING", 3), Column("id", "INTEGER", 4), Column("tame", "BOOL", 1)>>,
   twins |-> <<Column("id", "INTEGER", 4), Column("id", "STRING", 5), Column("tame", "BOOL", 1)>>]

Tables == [t \in DOMAIN Layouts |-> Names(Layouts[t])]

Texts == {<<"ab">>, <<"ef">>, <<"abcd">>}

LengthOf(value) == IF value = <<"abcd">> THEN 4 ELSE 2

Lit(type, value) == [type |-> type, value |-> value]

Operands == {Lit("INTEGER", <<"5">>), Lit("FLOAT", <<"1.5">>), Lit("REFERENCE", <<"id">>),
             Lit("REFERENCE", <<"studs", "age">>), Lit("REFERENCE", <<"profs", "id">>)}

ComparisonsOf(relation, next_relation) ==
  {[left |-> l, right |-> r, relation |-> relation, next_relation |-> next_relation] :
     l, r \in Operands}

SecondComparisons ==
  {c \in ComparisonsOf("EQUAL", "NONE") :
     c.left.value \in {<<"5">>, <<"id">>, <<"profs", "id">>} /\ c.right.value \in {<<"5">>, <<"id">>}}

(* One FILTER, two of them, and one with two comparisons. *)
FilterLists ==
  {<< <<c>> >> : c \in ComparisonsOf("LESS", "NONE")}
  \cup {<< <<c>>, <<d>> >> : c \in ComparisonsOf("LESS", "NONE"), d \in SecondComparisons}
  \cup {<< <<c, d>> >> : c \in ComparisonsOf("LESS", "OR"), d \in SecondComparisons}

Loop(row, table) == [row |-> row, table |-> table]

Query(kind, loops, params, filters, fields, join) ==
  [kind |-> kind, loops |-> loops, params |-> params, filters |-> filters,
   fields |-> fields, join |-> join]

NoJoin == [left |-> "id", right |-> "id"]

OneLoop == {<<Loop("studs", "studs")>>, <<Loop("x", "studs")>>}

TwoLoops == {<<Loop("studs", "studs"), Loop("profs", "profs")>>,
             <<Loop("profs", "studs"), Loop("studs", "profs")>>,
             <<Loop("x", "studs"), Loop("y", "profs")>>,
             <<Loop("x", "studs"), Loop("x", "profs")>>}

Params == {<<[name |-> "id", type |-> "INTEGER", value |-> <<"5">>],
             [name |-> "age", type |-> t, value |-> <<"1.5">>]>> : t \in {"FLOAT", "STRING"}}

(* Fields of a record: of columns there are and there are not, with values  *)
(* of the column's type and of others.                                      *)
InsertFields ==
  {[name |-> n, type |-> l.type, value |-> l.value] :
     n \in {"tag", "id", "tame", "none"},
     l \in {Lit("INTEGER", <<"5">>), Lit("BOOL", <<"1">>)}
             \cup {Lit("STRING", text) : text \in Texts}}

InsertQueries ==
  {Query("SIMPLE_INSERT", <<Loop(t, t)>>, p, <<>>, <<>>, [left |-> "id", right |-> "id"]) :
     t \in {"pets", "twins"},
     p \in {<<f>> : f \in InsertFields} \cup {<<f, g>> : f, g \in InsertFields}}

Field(row, name) == [row |-> row, name |-> name]

FieldLists(loops) ==
  {<<Field(loops[1].row, "age"), Field(loops[2].row, "name")>>,
   <<Field(loops[2].row, "id")>>,
   <<Field(loops[1].row, "age"), Field("", "name"), Field(loops[1].row, "id")>>}

PlainQueries ==
  {Query(k, l, <<>>, <<>>, <<Field("", "id")>>, NoJoin) :
     k \in {"REMOVE_TBL", "REMOVE_ALL", "RETURN_ROW", "RETURN_FIELDS"}, l \in OneLoop}
  \cup {Query(k, l, p, <<>>, <<>>, NoJoin) :
          k \in {"CREATE_TBL", "SIMPLE_INSERT", "COMPLEX_INSERT", "UPDATE_ALL"},
          l \in OneLoop, p \in Params}

FilteredQueries ==
  {Query(k, l, <<>>, f, <<Field("", "id")>>, NoJoin) :
     k \in {"UPDATE_FILTER", "REMOVE_FILTER", "RETURN_ROW_FILTER", "RETURN_FIELDS_FILTER"},
     l \in OneLoop, f \in FilterLists}

JoinQueries ==
  UNION {{Query(k, l, <<>>, f, s, [left |-> "id", right |-> r]) :
            k \in JoinKinds \ FilterKinds,
            f \in {<<>>}, s \in FieldLists(l), r \in {"id", "name"}} : l \in TwoLoops}

FilteredJoins ==
  UNION {{Query(k, l, <<>>, f, s, [left |-> "id", right |-> r]) :
            k \in JoinKinds \cap FilterKinds, f \in FilterLists,
            s \in {<<Field(l[1].row, "age"), Field(l[2].row, "name")>>, <<Field("", "age")>>},
            r \in {"id", "name"}} : l \in TwoLoops}

AllQueries ==
  PlainQueries \cup InsertQueries \cup FilteredQueries \cup FilteredJoins \cup JoinQueries
=============================================================================
